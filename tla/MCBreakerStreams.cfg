SPECIFICATION FairSpec
CONSTANTS
  Calls = {c1}
  Streams = {s1}
  c1 = c1
  s1 = s1
  FailureThreshold = 3
  SuccessThreshold = 2
  RecoveryTimeout = 2
  HalfOpenMaxCalls = 2
  CallsMayBeCancelled = FALSE
  OperatorControl = FALSE
  None = None
PROPERTY AlwaysRecovers
