CONSTANTS
  NoTtl = NoTtl
  Panic = Panic
  None = None
  Empty = Empty
  Clients = {c1, c2, c3}
  Refreshers = {r1}
  Keys = {k1}
  ShardCap = 1
  Prefetch = TRUE
  PrefetchNum = 1
  PrefetchDen = 2
  MaxTime = 2
  MaxFailures = 3
  Abortable = {c1, r1}
  FailureTtl = 1
  FailureTtlMax = 3
  Responses <- MCResponses
  CacheConfig <- MCCacheConfig
SPECIFICATION FairSpec
PROPERTIES
  EveryTaskEnds
  ImplementsSingleFlight
  CacheNeverGoesBack
INVARIANTS
  OneLeaderPerKey
  FollowersWillBeTold
  SharedAnswersAreCached
