\* The same job stalls twice, one more time than maxStalledCount.
SPECIFICATION FairSpec
CONSTANTS
  Orders = {o1}
  FailSkus = {}
  Jobs = {j1}
  Workers = {w1, w2, w3}
  Concurrency = 1
  MaxAttempts = 3
  MaxStalled = 1
  Faults = {"worker_crash"}
  MaxFaults = 2
  None = None
PROPERTIES
  AcceptedSettles
CHECK_DEADLOCK FALSE
