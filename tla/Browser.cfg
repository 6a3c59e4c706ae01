SPECIFICATION FairSpec
CONSTANTS
  UploadModes <- AllModes
  MaxConnections = 2
  MaxAutoAttempts = 1
  MaxSubmits = 3
  MaxResets = 1
  MaxManual = 1
  Contents = {0, 1, 2}
  Selections = {1, 2}
  Limit = 3
  StrokesLimit = 2
  Keys = {"letter", "back", "arrow"}
  MaxHeld = 1
  MaxEdits = 2
  MaxTurns = 1
  ListOptions <- SomeListOptions
  Fns = {1, 2}
  Values = {1, 2}
  MaxAdds = 2
  MaxFires = 2
  MaxOther = 1
INVARIANTS
  ConnectionsUsed
  PageTrue
  StackOK
  UndoOffered
PROPERTIES
  UploadsEnd
  HistoryKept
  LockKeeps
  RunsInOrder
CHECK_DEADLOCK FALSE
