CONSTANTS
  Fd = {3, 4, 5, 6, 7}
  control_socket = 3
  MaxConns = 2
SPECIFICATION FairSpec
INVARIANTS ChannelTypeOK  NoUnknownSocket
 
CHECK_DEADLOCK FALSE
