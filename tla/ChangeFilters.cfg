CONSTANTS
  Components = {position}
  Tags = {}
  Values = {0, 1}
  Default = 0
  MaxSlots = 2
  MaxGeneration = 1
  MaxRevision = 9
  MaxEpoch = 1
SPECIFICATION ChangeSpec
INVARIANTS
  JournalTypeOK
  FiltersFitStore
  NoChangeMissed
PROPERTIES
  MatchesHold
CHECK_DEADLOCK FALSE
