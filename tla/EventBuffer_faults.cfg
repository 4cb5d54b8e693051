CONSTANTS
  BufferSize = 10
  PageSize = 9
  U32 = 64
  Kind <- MCKind
  Fixed <- MCFixed
  MinData <- MCMinData
  FullData <- MCFullData
  Partial <- MCPartial
  Refused = {}
  Garbage <- MCAnyGarbage
  FillerFaults = TRUE
  LoadFaults = TRUE
  MonitorFaults = TRUE
  Kills = TRUE
  Clearing = "quiet"
  MaxLog = 4
  MaxOut = 8
SPECIFICATION FairSpec
INVARIANT DeliveredInOrder
 
CHECK_DEADLOCK FALSE
