\* The same requests: the gauge after an aborted one.
SPECIFICATION Spec
CONSTANTS
  Requests = {r1, r2}
  PoolMax = 1
  Order <- SomeOrders
  Questions <- AllQuestions
INVARIANTS
  GaugeIsHandled
CHECK_DEADLOCK FALSE
