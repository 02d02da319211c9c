\* Three requests on two connections: one may wait for a client of the pool.
SPECIFICATION FairSpec
CONSTANTS
  Requests = {r1, r2, r3}
  PoolMax = 2
  Signals <- BothSignals
  Modules = {http, pg}
  QueueMax = 1
INVARIANTS
  TypeOK
  DrainedBeforeClosing
  CleanExitSplitsNoOrder
  NoInsertAfterFlush
  CleanExitLeavesNoSpan
PROPERTIES
  ShutdownEnds
CHECK_DEADLOCK FALSE
