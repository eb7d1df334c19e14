SPECIFICATION FairSpec
CONSTANTS
  a = a
  b = b
  c = c
  Tenant = {t1, t2}
  Empty = Empty
  NoTenant = NoTenant
  Text <- Forked
  Task = {k1}
  NThreads = 1
  MaxSize = 2
  DirectOps = TRUE
  TouchEvery = 2
  MaxEpoch = 5
INVARIANTS
  CountExact
  PassMeetsLimit
  MatchExact
  TenantMatchExact
  RemoveComplete
PROPERTIES
  DroppedTreeFreed
CHECK_DEADLOCK FALSE
