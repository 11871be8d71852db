SPECIFICATION Spec
CONSTANTS
  Attempts = {a1, a2, a3}
  a1 = a1
  a2 = a2
  a3 = a3
  Requests <- MixedRequests
  Engines = {"memory", "sqlite", "redis"}
  UpstreamIds = {"u1"}
  MaxChain = 2
  MaxRestarts = 1
  StorageMayFail = TRUE
  MayExpire = TRUE
  None = None
SYMMETRY Interchangeable
INVARIANT ReplayIsFaithful RetriesAreReplayed TokensAddUp SessionsIsolated RecordedIsSaved
PROPERTY MapOnlyGrows
