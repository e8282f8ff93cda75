CONSTANTS
  Components = {position}
  Tags = {enemy}
  Values = {0, 1}
  Default = 0
  MaxSlots = 3
  MaxGeneration = 1
SPECIFICATION WorldSpec
INVARIANTS
  AllocatorExact
  SlotIndexesExact
PROPERTY StaleStaysStale
