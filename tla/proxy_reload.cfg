SPECIFICATION FairSpec
CONSTANTS
  u1 = u1
  u2 = u2
  Request = {r1}
  Url = {u1, u2}
  Configs <- ChangingReplicas
  MaxWorkers = 2
  MaxGen = 2
  NThreads = 2
  MaxRetries = 1
  BalanceAbs = 1
  BalanceRelNum = 3
  BalanceRelDen = 2
  FailureThreshold = 0
  SuccessThreshold = 0
CONSTRAINT ListShrinks
INVARIANTS
  SnapshotsValid
  RetryAvoidsFailed
PROPERTIES
  EveryRequestEnds
  RetiredDrain
