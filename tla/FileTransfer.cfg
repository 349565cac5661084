SPECIFICATION FairSpec
CONSTANTS
  f1 = f1
  f2 = f2
  File <- MCFiles
  Worlds <- MCWorlds
  ChunkSize = 5
  PacketSize = 2
  Wrap = 1000
INVARIANTS TypeOK RequestsTile
PROPERTIES WrittenRight ChunkCompletes
CHECK_DEADLOCK FALSE
