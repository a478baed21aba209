CONSTANTS
  N = 3
  INF = 15
  Far = 8
  InitCost <- Triangle
  Port <- Ports
  UpdateCost = {}
  MaxUpdates = 0
  MaxCrashes = 1
  MaxInFlight = 1
  Unreliable = FALSE
  SuspectLive = FALSE
  Dist <- TriangleDistance
SPECIFICATION Spec
INVARIANTS SelfEntryIsZero
CHECK_DEADLOCK FALSE
