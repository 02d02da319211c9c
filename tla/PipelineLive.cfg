\* Any two failures but an outage of the api; one worker more than they can kill.
SPECIFICATION FairSpec
CONSTANTS
  Orders = {o1}
  FailSkus = {}
  Jobs = {j1, j2}
  Workers = {w1, w2, w3}
  Concurrency = 1
  MaxAttempts = 3
  MaxStalled = 1
  Faults <- NoOutage
  MaxFaults = 2
  None = None
PROPERTIES
  JobsSettle
  StrandedOnlyByStalls
CHECK_DEADLOCK FALSE
