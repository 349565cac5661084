SPECIFICATION FairSpec
CONSTANTS
  Ip = {1, 2}
  Port = {1, 2}
INVARIANTS TypeOK VerdictFollowsMapping
PROPERTIES CheckEnds
CHECK_DEADLOCK FALSE
