SPECIFICATION FairSpec
CONSTANTS
  s1 = s1
  s2 = s2
  w1 = w1
  Articles = {a1}
  Ids <- TenIds
  Workers = {w1}
  Slots = {s1, s2}
  WorkerOf <- OneWorker
  Prefetch = 2
  MaxRetries = 1
  MaxCopies = 1
  MaxFaults = 1
  None = None
PROPERTIES EventuallySettled
CHECK_DEADLOCK FALSE
