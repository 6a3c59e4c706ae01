SPECIFICATION FairSpec
CONSTANTS
  Containers <- DhRenamed
  MaxStarts = 2
  MaxCrashes = 0
  MaxFaults = 0
  MaxOdd = 0
PROPERTIES
  ComesUp
CHECK_DEADLOCK FALSE
