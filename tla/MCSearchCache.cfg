SPECIFICATION FairSpec
CONSTANTS
  Articles = {a1}
  Keys = {k1, k2}
  Searches = {s1}
  Workers = {w1}
  TTL = 2
  ElasticsearchTimeout = 1
  RedisTimeout = 1
  Linger = 0
  MaxFaults = 1
  None = None
INVARIANTS TypeOK BoundedStaleness FreshAfterClear
PROPERTIES KeepsPromise EventuallyAnswered
