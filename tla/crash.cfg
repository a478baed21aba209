CONSTANTS
  N = 3
  INF = 5
  Far = 4
  InitCost <- Line
  Port <- Ports
  UpdateCost = {2}
  MaxUpdates = 1
  MaxCrashes = 1
  MaxInFlight = 1
  Unreliable = TRUE
  SuspectLive = FALSE
  Dist <- LineDistance
SPECIFICATION Spec
INVARIANTS TypeOK  WatcherKnowsRouters    NoRouteThroughCrashed LoopDecidesOnOldTables
PROPERTIES CrashMarkIsPermanent
CHECK_DEADLOCK FALSE
