SPECIFICATION FairSpec
CONSTANTS
  Articles = {a1, a2, a3}
  BatchSize = 2
  Concurrency = 1
  MaxFaults = 1
INVARIANTS TypeOK SuccessIsComplete NothingForgotten
PROPERTIES KeepsPromise RebuildSucceeds
