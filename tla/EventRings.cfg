CONSTANTS
  EventTypes = {ping, damage}
  MaxEmits = 4
  MaxFrame = 3
  MaxCapacity = 2
  MaxRetention = 2
SPECIFICATION EventsSpec
SYMMETRY TypeSymmetry
INVARIANTS
  EventsTypeOK
  RingsExact
  CountersBalance
  ReadersExactlyOnce
PROPERTIES
  NextPassSees
CHECK_DEADLOCK FALSE
