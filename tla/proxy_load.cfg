SPECIFICATION Spec
CONSTANTS
  u1 = u1
  u2 = u2
  Request = {r1, r2, r3, r4}
  Url = {u1, u2}
  Configs <- OneReplica
  MaxWorkers = 1
  MaxGen = 1
  NThreads = 3
  MaxRetries = 1
  BalanceAbs = 1
  BalanceRelNum = 3
  BalanceRelDen = 2
  FailureThreshold = 1
  SuccessThreshold = 1
INVARIANTS
  TypeOK
  LoadMatchesGuards
  OvershootBounded
SYMMETRY RequestSymmetry
