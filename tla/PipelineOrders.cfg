\* Failing and restarting dependencies of the api and of the attempts.
SPECIFICATION FairSpec
CONSTANTS
  Orders = {o1, o2}
  FailSkus = {o2}
  Jobs = {j1, j2}
  Workers = {w1, w2}
  Concurrency = 1
  MaxAttempts = 3
  MaxStalled = 1
  Faults <- NoRedelivery
  MaxFaults = 2
  None = None
PROPERTIES
  SettlesOnce
  AcceptedSettles
CHECK_DEADLOCK FALSE
