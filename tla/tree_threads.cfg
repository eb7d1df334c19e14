SPECIFICATION Spec
CONSTANTS
  a = a
  b = b
  c = c
  Tenant = {t1, t2}
  Empty = Empty
  NoTenant = NoTenant
  Text <- Forked
  Task = {k1, k2}
  NThreads = 3
  MaxSize = 1
  DirectOps = FALSE
  TouchEvery = 2
  MaxEpoch = 6
INVARIANTS
  TypeOK
  LinksAgree
  NeverOvercharged
  RootKeepsTenants
PROPERTIES
  OnlyStaleTouchesDrift
SYMMETRY TreeSymmetry
CHECK_DEADLOCK FALSE
