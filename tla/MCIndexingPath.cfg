SPECIFICATION FairSpec
CONSTANTS
  s1 = s1
  s2 = s2
  w1 = w1
  Articles = {a1}
  Dispatchers = {d1}
  Tokens <- ThreeTokens
  Stamps = {1}
  LeaseSeconds = 1
  DelayCap = 1
  ExponentCap = 1
  Ids <- SomeIds
  Workers = {w1}
  Slots = {s1, s2}
  WorkerOf <- TwoTasks
  Prefetch = 2
  MaxRetries = 1
  MaxOutboxFaults = 1
  MaxJobFaults = 0
  None = None
INVARIANTS NeverNowhere OnlyRetriesExhausted
PROPERTIES KeepsPromise KeepsPromiseFairly
