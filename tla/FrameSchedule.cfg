CONSTANTS
  GroupCount = 3
  Registrations <- ThreeSystems
  EdgeSets <- GroupGraphs
SPECIFICATION ScheduleSpec
INVARIANTS
  ScheduleTypeOK
  HooksSurround
  OrderedGroupsDisjoint
  GroupsClosed
  RunsEligibleOnce
