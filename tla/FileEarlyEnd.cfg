SPECIFICATION Spec
CONSTANTS
  f1 = f1
  f2 = f2
  File <- MCFiles
  Worlds <- MCOneFile
  ChunkSize = 3
  PacketSize = 1
  Wrap = 1000
INVARIANTS FinishedMeansComplete
CHECK_DEADLOCK FALSE
