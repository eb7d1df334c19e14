SPECIFICATION FairSpec
CONSTANTS
  Thread = {t1, t2}
  Nobody = Nobody
  Timeout = 1
  CounterMax = 3
  ManualOps = FALSE
  FailureThreshold = 2
  SuccessThreshold = 2
INVARIANTS
  TypeOK
  QuiescentConsistent
  ThresholdsServed
PROPERTIES
  Recovers
