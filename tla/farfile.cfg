CONSTANTS
  N = 4
  INF = 15
  Far = 8
  InitCost <- LongLine
  Port <- Ports
  UpdateCost = {}
  MaxUpdates = 0
  MaxCrashes = 0
  MaxInFlight = 1
  Unreliable = FALSE
  SuspectLive = FALSE
  Dist <- LongLineDistance
SPECIFICATION FileSpec
INVARIANTS FileIsNotLost
CHECK_DEADLOCK FALSE
