CONSTANTS
  N = 3
  INF = 15
  Far = 8
  InitCost <- Triangle
  Port <- Ports
  UpdateCost = {}
  MaxUpdates = 0
  MaxCrashes = 0
  MaxInFlight = 2
  Unreliable = FALSE
  SuspectLive = FALSE
  Dist <- TriangleDistance
SPECIFICATION FileSpec
INVARIANTS FileIsNotLost
PROPERTIES FileArrives
