CONSTANTS
  BufferSize = 10
  PageSize = 8
  U32 = 64
  Kind <- MCKind
  Fixed <- MCFixed
  MinData <- MCMinData
  FullData <- MCFullData
  Partial <- MCPartial
  Refused = {}
  Garbage <- MCGarbage
  FillerFaults = FALSE
  LoadFaults = FALSE
  MonitorFaults = FALSE
  Kills = TRUE
  Clearing = "quiet"
  MaxLog = 6
  MaxOut = 8
SPECIFICATION Spec
INVARIANTS WritesInBounds Ledger ExitDrains ClearEmpties
PROPERTY IsEventLog
CHECK_DEADLOCK FALSE
