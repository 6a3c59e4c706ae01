SPECIFICATION FairSpec
CONSTANTS
  Containers <- AllContainers
  MaxStarts = 3
  MaxCrashes = 2
  MaxFaults = 1
  MaxOdd = 1
INVARIANTS
  ConfigMatches
  Serves
  ServesAsAsked
PROPERTIES
  DirectoryKept
  StartEnds
  ComesUp
CHECK_DEADLOCK FALSE
