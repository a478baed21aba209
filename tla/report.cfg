CONSTANTS
  N = 3
  INF = 15
  Far = 8
  InitCost <- SteepLine
  Port <- Ports
  UpdateCost = {}
  MaxUpdates = 0
  MaxCrashes = 0
  MaxInFlight = 1
  Unreliable = FALSE
  SuspectLive = FALSE
  Dist <- SteepLineDistance
  MaxReported = 2
SPECIFICATION ReportSpec
INVARIANTS ReportsAreHonest
CHECK_DEADLOCK FALSE
