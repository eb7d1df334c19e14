SPECIFICATION FairSpec
CONSTANTS
  NWorkers = 2
  FailureThreshold = 2
  SuccessThreshold = 2
INVARIANTS
  TypeOK
  VerdictFollowsCounters
  ReportBracketed
PROPERTIES
  DownDetected
  UpDetected
  Stops
