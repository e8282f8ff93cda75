CONSTANTS
  Components = {position}
  Unregistered = {ghost}
  Tags = {}
  Values = {0}
  Default = 0
  MaxSlots = 2
  MaxGeneration = 1
  MaxStaged = 2
SPECIFICATION BarrierSpec
INVARIANTS
  BarrierTypeOK
  AllOrNothing
CHECK_DEADLOCK FALSE
