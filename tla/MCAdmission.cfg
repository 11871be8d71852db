SPECIFICATION Spec
CONSTANTS
  Requests = {r1, r2, r3}
  r1 = r1
  r2 = r2
  r3 = r3
  Keys = {k1, k2}
  k1 = k1
  k2 = k2
  Offered <- Offers
  Limits = {0, 1, 2}
  Setups <- MCSetups
  Window = 2
  TicksPerSecond = 2
  MaxTime <- Horizon
  MaxQueueDepth = 2
  RollingWindow = 2
  ResponseTimes = {50, 900}
  FastMs = 100
  SlowMs = 500
  None = None
SYMMETRY Interchangeable
INVARIANT LoadInvariant LimitHolds
PROPERTY RefusalsAreDeserved RetryAfterSuffices
