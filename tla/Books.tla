-------------------------------- MODULE Books --------------------------------
(***************************************************************************)
(* The parts of the server that keep books of the questions: the policies, *)
(* the query log, the history and the times of answers.  Each is an        *)
(* instance of its own; its constants and variables begin with its prefix. *)
(* What the theorems need of the constants is assumed here.                *)
(***************************************************************************)
EXTENDS Integers, Sequences, FiniteSets

(* A list is a sequence, of what is in it. *)
Listed(list) == list \in Seq({list[i] : i \in DOMAIN list})

CONSTANTS
  Nil, \* nobody, or no file
  LogThreads, LogNames, LogK, LogMaxTracked, LogStreamMax, LogRingSeconds,
  LogMaxEntries, LogMaxTime, LogMaxQueries,
  DayWidth, DayBuckets, DayMaxPause, DayMaxTime, DayMaxCounter,
  RuleThreads, RuleHosts, RuleQuestions, RuleDomains, RuleRuleSets, RuleMoments,
  RuleDetections, RulePublicSuffixes, RuleLabels, RuleToday, RuleSuspicions,
  RuleResponses, RuleMode, RuleGrantTtl, RuleMaxTime, RuleMaxOrders, RuleMaxAsked,
  TimesDurations, TimesMaxObserved,
  MeanThreads, MeanDurations, MeanSamples, MeanMaxAnswers

(* What the theorems need of the constants. *)
(* The tasks are finitely many, and aggregate_k is unsigned. *)
ASSUME LogAssumption == IsFiniteSet(LogThreads) /\ LogK \in Nat
(* BUCKET and BUCKETS are constants above nought, and the sampler's        *)
(* interval is far below their product.                                    *)
ASSUME DayAssumption ==
  /\ DayWidth \in Nat \ {0} /\ DayBuckets \in Nat \ {0}
  /\ DayMaxPause \in Nat /\ DayMaxPause <= DayBuckets * DayWidth
  /\ DayMaxTime \in Nat
(* Finitely many evaluations are under way. *)
ASSUME RuleAssumption == IsFiniteSet(RuleThreads)
(* Answers are timed in microseconds. *)
ASSUME TimesAssumption == IsFiniteSet(TimesDurations) /\ TimesDurations \subseteq Nat
(* Times are counted in microseconds; the window has room. *)
ASSUME MeanAssumption == MeanDurations \subseteq Nat /\ MeanSamples \in Nat \ {0}

VARIABLES
  part, \* the part that runs
  logMode, logNow, logPc, logEvent, logStream, logCounts, logTotal, logReportable,
  logRing, logFile, logPage, logQueries, logOffered, logTold,
  dayNow, dayCounter, dayBuckets, dayStarted, dayLast, daySampled, dayDeltas,
  ruleSet, ruleDetectors, ruleNow, ruleGrants, ruleDenied, ruleThread, rulePolicy,
  ruleLog, ruleDetections, ruleEnds, ruleHeld,
  timesBuckets, timesPass, timesUnread, timesTotal, timesSeen, timesP50, timesP95,
  timesMeasured, timesQuiet,
  meanWindow, meanMean, meanWriting, meanTimes, meanAnswers

(* The variables of each part. *)
logVars ==
  <<logMode, logNow, logPc, logEvent, logStream, logCounts, logTotal,
    logReportable, logRing, logFile, logPage, logQueries, logOffered, logTold>>
dayVars ==
  <<dayNow, dayCounter, dayBuckets, dayStarted, dayLast, daySampled, dayDeltas>>
ruleVars ==
  <<ruleSet, ruleDetectors, ruleNow, ruleGrants, ruleDenied, ruleThread,
    rulePolicy, ruleLog, ruleDetections, ruleEnds, ruleHeld>>
timesVars ==
  <<timesBuckets, timesPass, timesUnread, timesTotal, timesSeen, timesP50,
    timesP95, timesMeasured, timesQuiet>>
meanVars ==
  <<meanWindow, meanMean, meanWriting, meanTimes, meanAnswers>>

Log == INSTANCE QueryLog WITH
  Threads <- LogThreads, Names <- LogNames, K <- LogK,
  MaxTracked <- LogMaxTracked, StreamMax <- LogStreamMax,
  RingSeconds <- LogRingSeconds, MaxEntries <- LogMaxEntries,
  MaxTime <- LogMaxTime, MaxQueries <- LogMaxQueries, None <- Nil,
  mode <- logMode, now <- logNow, pc <- logPc, event <- logEvent,
  stream <- logStream, counts <- logCounts, total <- logTotal,
  reportable <- logReportable, ring <- logRing, file <- logFile, page <- logPage,
  queries <- logQueries, offered <- logOffered, told <- logTold

Day == INSTANCE History WITH
  Width <- DayWidth, Buckets <- DayBuckets, MaxPause <- DayMaxPause,
  MaxTime <- DayMaxTime, MaxCounter <- DayMaxCounter, now <- dayNow,
  counter <- dayCounter, buckets <- dayBuckets, started <- dayStarted,
  last <- dayLast, sampled <- daySampled, deltas <- dayDeltas

Rule == INSTANCE Policy WITH
  Threads <- RuleThreads, Hosts <- RuleHosts, Questions <- RuleQuestions,
  Domains <- RuleDomains, RuleSets <- RuleRuleSets, Moments <- RuleMoments,
  Detections <- RuleDetections, PublicSuffixes <- RulePublicSuffixes,
  Labels <- RuleLabels, Today <- RuleToday, Suspicions <- RuleSuspicions,
  Responses <- RuleResponses, Mode <- RuleMode, GrantTtl <- RuleGrantTtl,
  MaxTime <- RuleMaxTime, MaxOrders <- RuleMaxOrders, MaxAsked <- RuleMaxAsked,
  set <- ruleSet, detectors <- ruleDetectors, now <- ruleNow,
  grants <- ruleGrants, denied <- ruleDenied, thread <- ruleThread,
  policy <- rulePolicy, log <- ruleLog, detections <- ruleDetections,
  ends <- ruleEnds, held <- ruleHeld

Times == INSTANCE Latency WITH
  Durations <- TimesDurations, MaxObserved <- TimesMaxObserved,
  buckets <- timesBuckets, pass <- timesPass, unread <- timesUnread,
  total <- timesTotal, seen <- timesSeen, p50 <- timesP50, p95 <- timesP95,
  measured <- timesMeasured, quiet <- timesQuiet

Mean == INSTANCE UpstreamTimes WITH
  Threads <- MeanThreads, Durations <- MeanDurations, Samples <- MeanSamples,
  MaxAnswers <- MeanMaxAnswers, window <- meanWindow, mean <- meanMean,
  writing <- meanWriting, times <- meanTimes, answers <- meanAnswers

-----------------------------------------------------------------------------
(* The matcher of a list is built from the lines of its text. *)
ReadFromLines(matcher) ==
  /\ matcher.entries = Rule!Built(Rule!ParseList(matcher.lines, matcher.format))
  /\ Listed(matcher.lines)
  /\ \A i \in DOMAIN matcher.lines :
       matcher.lines[i].bang \in BOOLEAN /\ Listed(matcher.lines[i].words)

(* There is a time, and every policy of the rules has lists like that. *)
ASSUME ListAssumption ==
  /\ RuleMoments # {}
  /\ \A rules \in RuleRuleSets : \A p \in DOMAIN rules.policies :
       \A lists \in {rules.policies[p].allowlists, rules.policies[p].blocklists} :
         Listed(lists) /\ \A i \in DOMAIN lists : ReadFromLines(lists[i])

-----------------------------------------------------------------------------
(***************************************************************************)
(* The properties of these parts, under the names they have there; each is *)
(* stated, and explained, in its module.                                   *)
(***************************************************************************)
(* logging/mod.rs:539 *)
NamesStayHidden == part = "log" => Log!NamesStayHidden
(* logging/mod.rs:391, logging/mod.rs:308 *)
ReportsAddUp == part = "log" => Log!SharesAddUp /\ Log!SkippedAreTold
(* policy/mod.rs:471 *)
BooksAgree == part = "policy" => Rule!BooksAgree
(* policy/mod.rs:360 *)
HumanDecisionsHold == part = "policy" => Rule!HumanDecisionsHold
(* history.rs:148 *)
BucketsTellTheTime == part = "history" => Day!BucketsTellTheTime
(* latency.rs:69, upstream/pool.rs:315 *)
TimesAreRight ==
  /\ part = "latency" => Times!PercentilesCover
  /\ part = "upstream times" => Mean!UpstreamTimesAreRight
=============================================================================
