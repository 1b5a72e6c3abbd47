SPECIFICATION FairSpec
CONSTANTS
  a1 = a1
  a2 = a2
  e1 = e1
  e2 = e2
  p1 = p1
  p2 = p2
  audit = audit
  analytics = analytics
  replay = replay
  c1 = c1
  c2 = c2
  Articles = {a1}
  Events = {e1}
  Partitions = {p1}
  PartitionOf <- OnePartition
  Groups = {audit, analytics}
  CollectionOf <- BothRoles
  Consumers = {c1, c2}
  GroupOf <- OnePerRole
  LogCap = 2
  MaxFaults = 1
  None = None
PROPERTIES EventuallySettled
CHECK_DEADLOCK FALSE
