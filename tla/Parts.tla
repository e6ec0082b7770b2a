-------------------------------- MODULE Parts --------------------------------
(***************************************************************************)
(* The parts of the server that share no state: those of Books and Guards, *)
(* and the detector of look-alikes.  A behaviour is one of one part; the   *)
(* variables of the others stay as they are.                               *)
(***************************************************************************)
EXTENDS Guards

CONSTANTS
  Parts, \* those that are looked at
  LookConfusable, LookMinLength, LookMaxDistance, LookProtects, LookQuestions

(* What the theorems need of the constants. *)
(* Names are sequences of labels, and these of characters. *)
ASSUME LookAssumption ==
  /\ LookQuestions \subseteq Seq(Seq(STRING))
  /\ \A protect \in LookProtects : \A i \in DOMAIN protect : protect[i] \in Seq(Seq(STRING))

VARIABLES
  lookProtect, lookQuestion, lookScore

(* The variables of each part. *)
lookVars ==
  <<lookProtect, lookQuestion, lookScore>>

Look == INSTANCE Typosquat WITH
  Confusable <- LookConfusable, MinLength <- LookMinLength,
  MaxDistance <- LookMaxDistance, Protects <- LookProtects,
  Questions <- LookQuestions, protect <- lookProtect, question <- lookQuestion,
  score <- lookScore

-----------------------------------------------------------------------------
Off == {}

logOff == 
  logMode = Off /\ logNow = Off /\ logPc = Off /\ logEvent = Off /\ logStream = Off /\
  logCounts = Off /\ logTotal = Off /\ logReportable = Off /\ logRing = Off /\
  logFile = Off /\ logPage = Off /\ logQueries = Off /\ logOffered = Off /\ logTold = Off
dayOff == 
  dayNow = Off /\ dayCounter = Off /\ dayBuckets = Off /\ dayStarted = Off /\
  dayLast = Off /\ daySampled = Off /\ dayDeltas = Off
ruleOff == 
  ruleSet = Off /\ ruleDetectors = Off /\ ruleNow = Off /\ ruleGrants = Off /\
  ruleDenied = Off /\ ruleThread = Off /\ rulePolicy = Off /\ ruleLog = Off /\
  ruleDetections = Off /\ ruleEnds = Off /\ ruleHeld = Off
timesOff == 
  timesBuckets = Off /\ timesPass = Off /\ timesUnread = Off /\ timesTotal = Off /\
  timesSeen = Off /\ timesP50 = Off /\ timesP95 = Off /\ timesMeasured = Off /\
  timesQuiet = Off
meanOff == 
  meanWindow = Off /\ meanMean = Off /\ meanWriting = Off /\ meanTimes = Off /\
  meanAnswers = Off
limitOff == 
  limitNow = Off /\ limitBuckets = Off /\ limitRecency = Off /\ limitThread = Off /\
  limitThrottled = Off /\ limitSince = Off /\ limitPassed = Off /\ limitLate = Off
upOff == 
  upPrivacy = Off /\ upDns0x20 = Off /\ upCookie = Off /\ upKey = Off /\ upLock = Off /\
  upOffered = Off /\ upPc = Off /\ upClient = Off /\ upWire = Off /\ upFetched = Off /\
  upUnmirrored = Off /\ upLate = Off /\ upAsked = Off
webOff == 
  webFile = Off /\ webProcess = Off /\ webToken = Off /\ webNow = Off /\ webTable = Off /\
  webOrder = Off /\ webReply = Off /\ webStarts = Off /\ webOrders = Off /\ webTold = Off /\
  webPromised = Off
flowOff == 
  flowNow = Off /\ flowWindows = Off /\ flowThread = Off /\ flowFinding = Off /\
  flowSeen = Off
wayOff == 
  wayZones = Off /\ wayConfig = Off /\ wayCache = Off /\ wayStage = Off /\
  wayRequest = Off /\ wayLeft = Off /\ wayReply = Off /\ wayAsked = Off /\ waySent = Off
lifeOff == 
  lifeStage = Off /\ lifeCause = Off /\ lifeFile = Off /\ lifeConfig = Off /\
  lifeWritable = Off /\ lifeFetched = Off /\ lifeSockets = Off /\ lifeQueue = Off /\
  lifeInflight = Off /\ lifeAnswered = Off /\ lifeBuffered = Off /\ lifeWritten = Off /\
  lifeLost = Off /\ lifeTasks = Off /\ lifeSignals = Off /\ lifeCancelled = Off /\
  lifeEnded = Off /\ lifeHangups = Off /\ lifeReloads = Off /\ lifeActive = Off /\
  lifeRound = Off /\ lifeRounds = Off
lookOff == 
  lookProtect = Off /\ lookQuestion = Off /\ lookScore = Off

Init ==
  /\ part \in Parts
  /\ IF part = "log" THEN Log!Init ELSE logOff
  /\ IF part = "history" THEN Day!Init ELSE dayOff
  /\ IF part = "policy" THEN Rule!Init ELSE ruleOff
  /\ IF part = "latency" THEN Times!Init ELSE timesOff
  /\ IF part = "upstream times" THEN Mean!Init ELSE meanOff
  /\ IF part = "ratelimit" THEN Limit!Init ELSE limitOff
  /\ IF part = "upstreams" THEN Up!Init ELSE upOff
  /\ IF part = "api" THEN Web!Init ELSE webOff
  /\ IF part = "tunneling" THEN Flow!Init ELSE flowOff
  /\ IF part = "path" THEN Way!Init ELSE wayOff
  /\ IF part = "startup" THEN Life!Init ELSE lifeOff
  /\ IF part = "typosquat" THEN Look!Init ELSE lookOff

Next ==
  \/ /\ part = "log" /\ Log!Next
     /\ UNCHANGED <<part, dayVars, ruleVars, timesVars, meanVars, limitVars,
                     upVars, webVars, flowVars, wayVars, lifeVars, lookVars>>
  \/ /\ part = "history" /\ Day!Next
     /\ UNCHANGED <<part, logVars, ruleVars, timesVars, meanVars, limitVars,
                     upVars, webVars, flowVars, wayVars, lifeVars, lookVars>>
  \/ /\ part = "policy" /\ Rule!Next
     /\ UNCHANGED <<part, logVars, dayVars, timesVars, meanVars, limitVars,
                     upVars, webVars, flowVars, wayVars, lifeVars, lookVars>>
  \/ /\ part = "latency" /\ Times!Next
     /\ UNCHANGED <<part, logVars, dayVars, ruleVars, meanVars, limitVars,
                     upVars, webVars, flowVars, wayVars, lifeVars, lookVars>>
  \/ /\ part = "upstream times" /\ Mean!Next
     /\ UNCHANGED <<part, logVars, dayVars, ruleVars, timesVars, limitVars,
                     upVars, webVars, flowVars, wayVars, lifeVars, lookVars>>
  \/ /\ part = "ratelimit" /\ Limit!Next
     /\ UNCHANGED <<part, logVars, dayVars, ruleVars, timesVars, meanVars,
                     upVars, webVars, flowVars, wayVars, lifeVars, lookVars>>
  \/ /\ part = "upstreams" /\ Up!Next
     /\ UNCHANGED <<part, logVars, dayVars, ruleVars, timesVars, meanVars,
                     limitVars, webVars, flowVars, wayVars, lifeVars, lookVars>>
  \/ /\ part = "api" /\ Web!Next
     /\ UNCHANGED <<part, logVars, dayVars, ruleVars, timesVars, meanVars,
                     limitVars, upVars, flowVars, wayVars, lifeVars, lookVars>>
  \/ /\ part = "tunneling" /\ Flow!Next
     /\ UNCHANGED <<part, logVars, dayVars, ruleVars, timesVars, meanVars,
                     limitVars, upVars, webVars, wayVars, lifeVars, lookVars>>
  \/ /\ part = "path" /\ Way!Next
     /\ UNCHANGED <<part, logVars, dayVars, ruleVars, timesVars, meanVars,
                     limitVars, upVars, webVars, flowVars, lifeVars, lookVars>>
  \/ /\ part = "startup" /\ Life!Next
     /\ UNCHANGED <<part, logVars, dayVars, ruleVars, timesVars, meanVars,
                     limitVars, upVars, webVars, flowVars, wayVars, lookVars>>
  \/ /\ part = "typosquat" /\ Look!Next
     /\ UNCHANGED <<part, logVars, dayVars, ruleVars, timesVars, meanVars,
                     limitVars, upVars, webVars, flowVars, wayVars, lifeVars>>

allVars ==
  <<part, logVars, dayVars, ruleVars, timesVars, meanVars, limitVars, upVars,
    webVars, flowVars, wayVars, lifeVars, lookVars>>

Spec == Init /\ [][Next]_allVars

-----------------------------------------------------------------------------
(***************************************************************************)
(* The properties of the look-alikes, as those of the others are stated in *)
(* Books and Guards.                                                       *)
(***************************************************************************)
(* detect/typosquat.rs:194 *)
DistanceIsRight == part = "typosquat" => Look!DistanceIsRight
(* detect/typosquat.rs:274 *)
OriginalIsNeverReported == part = "typosquat" => Look!OriginalIsNeverReported

(* The type invariants of the parts. *)
TypeOK ==
  /\ part = "ratelimit" => Limit!TypeOK
  /\ part = "log" => Log!TypeOK
  /\ part = "upstreams" => Up!TypeOK
  /\ part = "api" => Web!TypeOK
  /\ part = "tunneling" => Flow!TypeOK
  /\ part = "policy" => Rule!TypeOK
  /\ part = "path" => Way!TypeOK
  /\ part = "history" => Day!TypeOK
  /\ part = "latency" => Times!TypeOK
  /\ part = "upstream times" => Mean!TypeOK
  /\ part = "startup" => Life!TypeOK
=============================================================================
