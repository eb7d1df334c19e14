SPECIFICATION Spec
CONSTANTS
  Thread = {t1}
  Nobody = Nobody
  Timeout = 2
  CounterMax = 4
  ManualOps = TRUE
  FailureThreshold = 2
  SuccessThreshold = 2
PROPERTIES
  ImplementsAtomic
