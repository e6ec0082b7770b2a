CONSTANTS
  NoTtl = NoTtl
  Panic = Panic
  None = None
  Empty = Empty
  Clients = {c1, c2}
  Refreshers = {}
  Keys = {k1, k2, k3}
  ShardCap = 2
  Prefetch = FALSE
  PrefetchNum = 1
  PrefetchDen = 2
  MaxTime = 2
  MaxFailures = 2
  Abortable = {}
  FailureTtl = 1
  FailureTtlMax = 3
  Responses <- MCResponses
  CacheConfig <- MCFreshOnly
SPECIFICATION Spec
SYMMETRY Symmetry
INVARIANTS
  LockoutIsEarned
