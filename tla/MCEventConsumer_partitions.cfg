SPECIFICATION Spec
CONSTANTS
  a1 = a1
  a2 = a2
  e1 = e1
  e2 = e2
  p1 = p1
  p2 = p2
  audit = audit
  analytics = analytics
  replay = replay
  c1 = c1
  c2 = c2
  Articles = {a1, a2}
  Events = {e1}
  Partitions = {p1, p2}
  PartitionOf <- TwoPartitions
  Groups = {audit}
  CollectionOf <- AuditOnly
  Consumers = {c1, c2}
  GroupOf <- TwoInAudit
  LogCap = 1
  MaxFaults = 1
  None = None
SYMMETRY Symmetry
INVARIANTS NothingSkipped
CHECK_DEADLOCK FALSE
