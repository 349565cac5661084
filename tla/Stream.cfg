SPECIFICATION FairSpec
CONSTANTS
  HeaderLen = 3
  Frames <- MCFrames
  MaxPackets = 3
  MaxConnections = 2
INVARIANTS TypeOK InOrder NoPacketWaits
PROPERTIES ImplementsChannel
CHECK_DEADLOCK FALSE
