CONSTANTS
  Node = {1, 2, 3}
  Transfer = {1, 2}
  Src <- FromOneAndTwo
  Dst <- ToThreeAndOne
  Length <- ThreeAndTwoPackets
  init_TTL <- TtlZero
  TTLMod = 4
  Backlog = 2
  Tables <- DetourTables
  MaxReroutes = 2
  MaxEarly = 1
SPECIFICATION FairSpec
INVARIANTS DataTypeOK TraceIsPath StatsShowTransfer FileIsWhatWasSent
PROPERTIES DeliversOnce TransferEnds
CHECK_DEADLOCK FALSE
