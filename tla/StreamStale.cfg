SPECIFICATION Spec
CONSTANTS
  HeaderLen = 3
  Frames <- MCGoodFrames
  MaxPackets = 2
  MaxConnections = 2
INVARIANTS AllAvailableParsed
CHECK_DEADLOCK FALSE
