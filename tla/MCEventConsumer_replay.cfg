SPECIFICATION Spec
CONSTANTS
  a1 = a1
  a2 = a2
  e1 = e1
  e2 = e2
  p1 = p1
  p2 = p2
  audit = audit
  analytics = analytics
  replay = replay
  c1 = c1
  c2 = c2
  Articles = {a1, a2}
  Events = {e1, e2}
  Partitions = {p1}
  PartitionOf <- SharedPartition
  Groups = {audit, replay}
  CollectionOf <- AuditAndReplay
  Consumers = {c1, c2}
  GroupOf <- OneInEach
  LogCap = 2
  MaxFaults = 2
  None = None
SYMMETRY ReplaySymmetry
INVARIANTS NothingSkipped FirstRecordKept
PROPERTIES KeepsPromise
CHECK_DEADLOCK FALSE
