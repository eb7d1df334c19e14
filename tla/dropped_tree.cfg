SPECIFICATION FairSpec
CONSTANTS
  a = a
  b = b
  c = c
  Tenant = {t1}
  Empty = Empty
  NoTenant = NoTenant
  Text <- Single
  Task = {k1, k2}
  NThreads = 2
  MaxSize = 1
  DirectOps = FALSE
  TouchEvery = 2
  MaxEpoch = 4
PROPERTIES
  DroppedTreeFreed
CHECK_DEADLOCK FALSE
