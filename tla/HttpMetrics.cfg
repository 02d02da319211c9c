\* Two requests of any kind, any of which may be aborted, on a pool of one.
SPECIFICATION FairSpec
CONSTANTS
  Requests = {r1, r2}
  PoolMax = 1
  Order <- SomeOrders
  Questions <- AllQuestions
INVARIANTS
  TypeOK
  GaugeDrift
  EveryResponseCounted
  AcceptedIsPriceable
PROPERTIES
  ReadsSurviveRedis
  OutagePasses
CHECK_DEADLOCK FALSE
