CONSTANTS
  N = 4
  INF = 5
  Far = 4
  InitCost <- LineApart
  Port <- SharedPorts
  UpdateCost = {}
  MaxUpdates = 0
  MaxCrashes = 1
  MaxInFlight = 1
  Unreliable = FALSE
  SuspectLive = FALSE
  Dist <- LineApartDistance
SPECIFICATION Spec
INVARIANTS  NoRouteThroughCrashed
CHECK_DEADLOCK FALSE
