\* Two orders, one of them FAIL-, under every kind of failure.
SPECIFICATION Spec
CONSTANTS
  Orders = {o1, o2}
  FailSkus = {o2}
  Jobs = {j1, j2}
  Workers = {w1, w2}
  Concurrency = 1
  MaxAttempts = 2
  MaxStalled = 1
  Faults <- FaultKinds
  MaxFaults = 4
  None = None
SYMMETRY Symmetry
INVARIANTS
  TypeOK
  AcceptedIsBacked
  RowBeforeJob
  FailedIsExhausted
  CompletedIsPriced
  AttemptsBounded
  SpanPerAttempt
PROPERTIES
  TerminalIsFinal
  SettlesAtLeastOnce
CHECK_DEADLOCK FALSE
