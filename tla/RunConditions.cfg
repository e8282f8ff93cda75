CONSTANTS
  GroupCount = 3
  Registrations <- ThreeSystems
  EdgeSets <- GroupGraphs
SPECIFICATION ScheduleSpec
INVARIANT ConditionsAskedOnce
