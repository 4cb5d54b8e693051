CONSTANTS
  Thread = {"t1", "t2"}
  AppValue = {"a", "b"}
  Stops = "quiet"
  OpenFaults = FALSE
  MaxCall = 4
  MaxCtl = 3
SPECIFICATION FairSpec
INVARIANTS OwnRestored SharedRestoredAlone  StatusTellsSide
PROPERTY VisitEnds
CHECK_DEADLOCK FALSE
