\* Requests that await PostgreSQL or Redis, and an outage of Redis.
SPECIFICATION FairSpec
CONSTANTS
  Requests = {r1, r2}
  PoolMax = 1
  Order <- SomeOrders
  Questions <- AwaitingQuestions
PROPERTIES
  RedisOutageSurfaces
CHECK_DEADLOCK FALSE
