\* Three jobs, two of them exhausted, on two lanes and one connection.
SPECIFICATION FairSpec
CONSTANTS
  Jobs = {j1, j2, j3}
  LastTry = {j1, j2}
  Concurrency = 2
  PoolMax = 1
  Signals <- BothSignals
INVARIANTS
  TypeOK
  FlushIsLast
  CleanExitLeavesNothing
  CleanExitKeepsMarks
PROPERTIES
  ShutdownEnds
CHECK_DEADLOCK FALSE
