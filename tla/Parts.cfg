CONSTANTS
  Parts = {"log", "history", "policy", "latency", "upstream times", "ratelimit", "upstreams", "api", "tunneling", "path", "startup", "typosquat"}
  Nil = Nil
  t1 = t1
  t2 = t2
  LogThreads = {t1, t2}
  LogNames = {"a", "b"}
  LogK = 2
  LogMaxTracked = 1
  LogStreamMax = 1
  LogRingSeconds = 0
  LogMaxEntries = 1
  LogMaxTime = 1
  LogMaxQueries = 2
  DayWidth = 2
  DayBuckets = 3
  DayMaxPause = 6
  DayMaxTime = 10
  DayMaxCounter = 2
  RuleThreads = {t}
  RuleHosts <- MCHosts
  RuleQuestions <- MCNamesAsked
  RuleDomains <- MCDomains
  RuleRuleSets <- MCRuleSets
  RuleMoments <- MCMoments
  RuleDetections <- MCDetections
  RulePublicSuffixes <- MCSuffixes
  RuleLabels <- MCLabels
  RuleToday = 9
  RuleSuspicions <- MCSuspicions
  RuleResponses <- MCResponses
  RuleMode = "nxdomain"
  RuleGrantTtl = 1
  RuleMaxTime = 2
  RuleMaxOrders = 2
  RuleMaxAsked = 1
  TimesDurations = {0, 5, 1000, 1023, 134217728}
  TimesMaxObserved = 4
  MeanThreads = {t1, t2}
  MeanDurations = {0, 5, 1000, 1023}
  MeanSamples = 2
  MeanMaxAnswers = 4
  LimitThreads = {t1, t2}
  LimitAddresses <- MCAddresses
  LimitShards = 16
  LimitMaxClients = 16
  LimitConfigBurst = 2
  LimitRate = 1
  LimitMaxTime = 2
  LimitMaxAsked = 4
  UpQueries = {t1, t2}
  UpRequests <- MCRequests
  UpSettings <- MCSettings
  UpBlock = 16
  UpMaxKeys = 2
  UpMaxAsked = 3
  WebRequests = {t1, t2}
  WebDomains <- MCWritten
  WebSeconds = {0, 1, 5}
  WebMaxGrant = 2
  WebClients = {"kid"}
  WebHosts <- MCHostHeaders
  WebCauses <- MCCauses
  WebFiles <- MCTokenFiles
  WebMaxTime = 2
  WebMaxOrders = 2
  WebMaxStarts = 2
  FlowThreads = {t1, t2}
  FlowObservations <- MCObservations
  FlowAllowed <- MCAllowed
  FlowWindowLength = 2
  FlowMaxZones = 1
  FlowMaxUniqueTracked = 2
  FlowMinUnique = 2
  FlowFullUnique = 2
  FlowEntropyFloor = 3200
  FlowEntropyCeiling = 4200
  FlowLengthFloor = 15
  FlowLengthCeiling = 45
  FlowMaxTime = 3
  FlowMaxInspected = 4
  WayConfigs <- MCHouseholds
  WayDdr <- MCDdr
  WayBuiltin <- MCBuiltin
  WayQuestions <- MCPathQuestions
  WayFlags <- MCFlags
  WayOutcomes <- MCOutcomes
  WayFindable <- MCFindable
  WayDirect = {"dot"}
  WayOblivious = {"odoh"}
  WayMaxAsked = 2
  LifeConfigs <- MCStarts
  LifeNewConfigs <- MCNewConfigs
  LifePackets = {p1}
  LifeOwn = ownPacket
  LifeMaxRounds = 2
  LifeMaxReloads = 1
  LookConfusable <- MCConfusable
  LookMinLength = 3
  LookMaxDistance = 2
  LookProtects <- MCProtects
  LookQuestions <- MCTypoQuestions
SPECIFICATION Spec
SYMMETRY Symmetry
CHECK_DEADLOCK FALSE
INVARIANTS
  RateIsKept
  NamesStayHidden
  ReportsAddUp
  BucketsTellTheTime
  TimesAreRight
  BooksAgree
  HumanDecisionsHold
  LocalNamesStayAtHome
  SecureMeansProven
  PrivateOnlyAtHome
  UpstreamsLearnLittle
  ApiKeepsItsWord
  StartsAndStopsInOrder
  DistanceIsRight
  VolumeIsTrue
