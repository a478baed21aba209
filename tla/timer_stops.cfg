CONSTANTS
  TPS = 5
  time_period = 2
  Work = 5
SPECIFICATION FairTimerSpec
PROPERTIES BroadcastsForever
