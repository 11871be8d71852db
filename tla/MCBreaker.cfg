SPECIFICATION FairSpec
CONSTANTS
  Calls = {c1, c2}
  Streams = {s1}
  c1 = c1
  c2 = c2
  s1 = s1
  FailureThreshold = 3
  SuccessThreshold = 2
  RecoveryTimeout = 2
  HalfOpenMaxCalls = 2
  CallsMayBeCancelled = TRUE
  OperatorControl = TRUE
  None = None
INVARIANT CountersAreAccurate OutageOpens ProbingIsBounded
PROPERTY OpensOnlyOnConsecutiveFailures ClosesOnlyAfterProbes ProbesOnlyAfterQuiet Recovers
