CONSTANTS
  TPS = 3
  time_period = 3
  Work = 3
  MaxLost = 1
  WatcherWork = 2
SPECIFICATION FairWatcherSpec
INVARIANTS WatcherTypeOK BroadcastsInTime  OnlySilentIsSuspected
PROPERTIES BeatsUntilSilent DetectsSilence
