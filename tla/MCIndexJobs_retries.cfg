SPECIFICATION Spec
CONSTANTS
  s1 = s1
  s2 = s2
  w1 = w1
  Articles = {a1}
  Ids <- FourIds
  Workers = {w1}
  Slots = {s1, s2}
  WorkerOf <- OneWorker
  Prefetch = 2
  MaxRetries = 2
  MaxCopies = 1
  MaxFaults = 2
  None = None
SYMMETRY Symmetry
INVARIANTS TypeOK NoJobLost RetriesEarned NoNewCopies DeadLettersExplained
PROPERTIES KeepsPromise
CHECK_DEADLOCK FALSE
