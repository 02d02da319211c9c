\* The same requests, and an outage of PostgreSQL.
SPECIFICATION Spec
CONSTANTS
  Requests = {r1, r2}
  PoolMax = 1
  Order <- SomeOrders
  Questions <- AwaitingQuestions
INVARIANTS
  PostgresOutageSurfaces
CHECK_DEADLOCK FALSE
