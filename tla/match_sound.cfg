SPECIFICATION Spec
CONSTANTS
  a = a
  b = b
  c = c
  Tenant = {t1}
  Empty = Empty
  NoTenant = NoTenant
  Text <- Repeating
  Task = {k1, k2}
  NThreads = 2
  MaxSize = 1
  DirectOps = FALSE
  TouchEvery = 2
  MaxEpoch = 5
INVARIANTS
  MatchSound
SYMMETRY TreeSymmetry
CHECK_DEADLOCK FALSE
