SPECIFICATION FairSpec
CONSTANTS
  Requests <- SomeUsers
  Users <- SomeUsers
  Configs <- TwoConfigs
INVARIANTS
  CutByDeadline
  RolesBound
  GrantsTraceable
PROPERTIES
  RulesKept
  GroupStops
CHECK_DEADLOCK FALSE
