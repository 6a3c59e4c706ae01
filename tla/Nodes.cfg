SPECIFICATION FairSpec
CONSTANTS
  Nodes <- TwoNodes
  Master <- First
  MaxApplies = 2
  MaxFaults = 2
INVARIANTS
  ProvisionedOnReady
  MarkedTogether
PROPERTIES
  AppliesEnd
CHECK_DEADLOCK FALSE
