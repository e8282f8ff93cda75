CONSTANTS
  position = position
  velocity = velocity
  enemy = enemy
  Components <- MCComponents
  Tags = {enemy}
  Values = {0}
  Default = 0
  Filters <- MCFilters
  MaxSlots = 2
  MaxGeneration = 1
  MaxRevision = 4
SPECIFICATION QuerySpec
INVARIANTS
  QueryTypeOK
  ArchetypeCacheExact
  CachedRowsFresh
CHECK_DEADLOCK FALSE
