SPECIFICATION Spec
CONSTANTS
  Articles = {a1}
  Dispatchers = {d1, d2}
  Tokens <- FourTokens
  Stamps = {1}
  LeaseSeconds = 2
  DelayCap = 3
  ExponentCap = 2
  MaxFaults = 2
  None = None
SYMMETRY Symmetry
INVARIANTS TypeOK WorkIsExclusive DuplicatesNeedFaults
PROPERTIES KeepsPromise StaleHolderHarmless
