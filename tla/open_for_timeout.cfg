SPECIFICATION Spec
CONSTANTS
  Thread = {t1, t2}
  Nobody = Nobody
  Timeout = 1
  CounterMax = 3
  ManualOps = FALSE
  FailureThreshold = 1
  SuccessThreshold = 1
PROPERTIES
  OpenForTimeout
