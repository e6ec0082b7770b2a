------------------------------- MODULE Guards --------------------------------
(***************************************************************************)
(* The parts of the server that stand between the household and others --  *)
(* clients, upstreams, forged answers, tunnels, browsers -- and the start  *)
(* that puts all in their places, built like those of Books.               *)
(***************************************************************************)
EXTENDS Books

CONSTANTS
  LimitThreads, LimitAddresses, LimitShards, LimitMaxClients, LimitConfigBurst,
  LimitRate, LimitMaxTime, LimitMaxAsked,
  UpQueries, UpRequests, UpSettings, UpBlock, UpMaxKeys, UpMaxAsked,
  WebRequests, WebDomains, WebSeconds, WebMaxGrant, WebClients, WebHosts,
  WebCauses, WebFiles, WebMaxTime, WebMaxOrders, WebMaxStarts,
  FlowThreads, FlowObservations, FlowAllowed, FlowWindowLength, FlowMaxZones,
  FlowMaxUniqueTracked, FlowMinUnique, FlowFullUnique, FlowEntropyFloor,
  FlowEntropyCeiling, FlowLengthFloor, FlowLengthCeiling, FlowMaxTime,
  FlowMaxInspected,
  WayConfigs, WayDdr, WayBuiltin, WayQuestions, WayFlags, WayOutcomes,
  WayFindable, WayDirect, WayOblivious, WayMaxAsked,
  LifeConfigs, LifeNewConfigs, LifePackets, LifeOwn, LifeMaxRounds, LifeMaxReloads

(* What the theorems need of the constants. *)
(* The rate and the burst are unsigned. *)
ASSUME LimitAssumption == LimitRate \in Nat /\ LimitConfigBurst \in Nat
(* A client's messages hold nothing of ours, and blocks are not empty. *)
ASSUME UpAssumption ==
  /\ Nil \notin UpQueries
  /\ UpBlock \in Nat \ {0}
  /\ \A s \in UpSettings : s.dns0x20 \in BOOLEAN
  /\ \A m \in UpRequests :
       /\ DOMAIN m = {"id", "question", "edns", "base", "options", "ours", "mixed", "key"}
       /\ m.base \in Nat /\ m.edns \in BOOLEAN /\ m.ours = 0 /\ m.mixed = FALSE
       /\ \A o \in DOMAIN m.options : m.options[o] \in Nat
(* The file is one of these, and says itself what it was at first; times   *)
(* are unsigned.                                                           *)
ASSUME WebAssumption ==
  /\ \A f \in WebFiles :
       /\ DOMAIN f = {"is", "was", "text", "open"} /\ f.was = f.is
       /\ f.is \in {"missing", "binary", "text"} /\ f.open \in BOOLEAN
       /\ f.is = "missing" => ~f.open
  /\ WebSeconds \subseteq Nat /\ WebMaxGrant \in Nat
(* MAX_UNIQUE_TRACKED is not below FULL_UNIQUE, nor that below MIN_UNIQUE. *)
ASSUME FlowAssumption ==
  /\ FlowMinUnique \in Nat /\ FlowFullUnique \in Nat \ {0} /\ FlowMaxUniqueTracked \in Nat
  /\ FlowMinUnique <= FlowFullUnique /\ FlowFullUnique <= FlowMaxUniqueTracked
(* What the library hands over for an upstream: a proof is one of four,    *)
(* and no record is proven without the signature that came with it.        *)
ASSUME WayAssumption ==
  /\ WayFlags \subseteq [do : BOOLEAN, ad : BOOLEAN]
  /\ \A o \in WayOutcomes :
       /\ "kind" \in DOMAIN o /\ o.kind \in {"answer", "nsec", "error", "end"}
       /\ o.kind = "nsec" => o.proof \in {"Secure", "Insecure", "Bogus", "Indeterminate"}
       /\ o.kind \in {"answer", "nsec"} =>
            /\ DOMAIN o.message = {"code", "proofs", "sigs", "ad", "from", "verdict",
                                   "addresses", "blocked"}
            /\ o.message.from = "pool" /\ o.message.blocked = FALSE
            /\ o.message.ad \in BOOLEAN /\ o.message.sigs \in BOOLEAN
            /\ "Secure" \in o.message.proofs => o.message.sigs

(* Names are sequences of labels, and a local zone is closed or open.      *)
ASSUME NamesAssumption ==
  /\ WayDdr \subseteq Seq(STRING)
  /\ \A q \in WayQuestions : q.name \in Seq(STRING)
  /\ \A c \in WayConfigs :
       /\ DOMAIN c.forward \subseteq Seq(STRING) /\ c.allowZones \subseteq Seq(STRING)
       /\ \A i \in DOMAIN c.local : c.local[i].zone \in Seq(STRING) /\ c.local[i].closed \in BOOLEAN
(* What a file holds is read into booleans, lists and numbers. *)
ASSUME LifeAssumption ==
  \A f \in LifeConfigs :
    /\ \A e \in {"api", "metrics", "block_page"} \cap DOMAIN f :
         "enabled" \in DOMAIN f[e] => f[e].enabled \in BOOLEAN
    /\ \A l \in {"listen_udp", "listen_tcp"} :
         "server" \in DOMAIN f /\ l \in DOMAIN f["server"] => Listed(f["server"][l])
    /\ \A l \in {"blocklist", "allowlist"} \cap DOMAIN f :
         /\ Listed(f[l])
         /\ \A i \in DOMAIN f[l] : "refresh" \in DOMAIN f[l][i] => f[l][i].refresh \in Nat

VARIABLES
  limitNow, limitBuckets, limitRecency, limitThread, limitThrottled, limitSince,
  limitPassed, limitLate,
  upPrivacy, upDns0x20, upCookie, upKey, upLock, upOffered, upPc, upClient,
  upWire, upFetched, upUnmirrored, upLate, upAsked,
  webFile, webProcess, webToken, webNow, webTable, webOrder, webReply, webStarts,
  webOrders, webTold, webPromised,
  flowNow, flowWindows, flowThread, flowFinding, flowSeen,
  wayZones, wayConfig, wayCache, wayStage, wayRequest, wayLeft, wayReply,
  wayAsked, waySent,
  lifeStage, lifeCause, lifeFile, lifeConfig, lifeWritable, lifeFetched,
  lifeSockets, lifeQueue, lifeInflight, lifeAnswered, lifeBuffered, lifeWritten,
  lifeLost, lifeTasks, lifeSignals, lifeCancelled, lifeEnded, lifeHangups,
  lifeReloads, lifeActive, lifeRound, lifeRounds

(* The variables of each part. *)
limitVars ==
  <<limitNow, limitBuckets, limitRecency, limitThread, limitThrottled, limitSince,
    limitPassed, limitLate>>
upVars ==
  <<upPrivacy, upDns0x20, upCookie, upKey, upLock, upOffered, upPc, upClient,
    upWire, upFetched, upUnmirrored, upLate, upAsked>>
webVars ==
  <<webFile, webProcess, webToken, webNow, webTable, webOrder, webReply,
    webStarts, webOrders, webTold, webPromised>>
flowVars ==
  <<flowNow, flowWindows, flowThread, flowFinding, flowSeen>>
wayVars ==
  <<wayZones, wayConfig, wayCache, wayStage, wayRequest, wayLeft, wayReply,
    wayAsked, waySent>>
lifeVars ==
  <<lifeStage, lifeCause, lifeFile, lifeConfig, lifeWritable, lifeFetched,
    lifeSockets, lifeQueue, lifeInflight, lifeAnswered, lifeBuffered, lifeWritten,
    lifeLost, lifeTasks, lifeSignals, lifeCancelled, lifeEnded, lifeHangups,
    lifeReloads, lifeActive, lifeRound, lifeRounds>>

Limit == INSTANCE Ratelimit WITH
  Threads <- LimitThreads, Addresses <- LimitAddresses, Shards <- LimitShards,
  MaxClients <- LimitMaxClients, ConfigBurst <- LimitConfigBurst,
  Rate <- LimitRate, MaxTime <- LimitMaxTime, MaxAsked <- LimitMaxAsked,
  now <- limitNow, buckets <- limitBuckets, recency <- limitRecency,
  thread <- limitThread, throttled <- limitThrottled, since <- limitSince,
  passed <- limitPassed, late <- limitLate

Up == INSTANCE Upstreams WITH
  Queries <- UpQueries, Requests <- UpRequests, Settings <- UpSettings,
  Block <- UpBlock, MaxKeys <- UpMaxKeys, MaxAsked <- UpMaxAsked, None <- Nil,
  privacy <- upPrivacy, dns0x20 <- upDns0x20, cookie <- upCookie, key <- upKey,
  lock <- upLock, offered <- upOffered, pc <- upPc, client <- upClient,
  wire <- upWire, fetched <- upFetched, unmirrored <- upUnmirrored,
  late <- upLate, asked <- upAsked

Web == INSTANCE Api WITH
  Requests <- WebRequests, Domains <- WebDomains, Seconds <- WebSeconds,
  MaxGrant <- WebMaxGrant, Clients <- WebClients, Hosts <- WebHosts,
  Causes <- WebCauses, Files <- WebFiles, MaxTime <- WebMaxTime,
  MaxOrders <- WebMaxOrders, MaxStarts <- WebMaxStarts, file <- webFile,
  process <- webProcess, token <- webToken, now <- webNow, table <- webTable,
  order <- webOrder, reply <- webReply, starts <- webStarts, orders <- webOrders,
  told <- webTold, promised <- webPromised

Flow == INSTANCE Tunneling WITH
  Threads <- FlowThreads, Observations <- FlowObservations,
  Allowed <- FlowAllowed, WindowLength <- FlowWindowLength,
  MaxZones <- FlowMaxZones, MaxUniqueTracked <- FlowMaxUniqueTracked,
  MinUnique <- FlowMinUnique, FullUnique <- FlowFullUnique,
  EntropyFloor <- FlowEntropyFloor, EntropyCeiling <- FlowEntropyCeiling,
  LengthFloor <- FlowLengthFloor, LengthCeiling <- FlowLengthCeiling,
  MaxTime <- FlowMaxTime, MaxInspected <- FlowMaxInspected, now <- flowNow,
  windows <- flowWindows, thread <- flowThread, finding <- flowFinding,
  seen <- flowSeen

Way == INSTANCE Path WITH
  Configs <- WayConfigs, Ddr <- WayDdr, Builtin <- WayBuiltin,
  Questions <- WayQuestions, Flags <- WayFlags, Outcomes <- WayOutcomes,
  Findable <- WayFindable, Direct <- WayDirect, Oblivious <- WayOblivious,
  MaxAsked <- WayMaxAsked, zones <- wayZones, config <- wayConfig,
  cache <- wayCache, stage <- wayStage, request <- wayRequest, left <- wayLeft,
  reply <- wayReply, asked <- wayAsked, sent <- waySent

Life == INSTANCE Startup WITH
  Configs <- LifeConfigs, NewConfigs <- LifeNewConfigs, Packets <- LifePackets,
  Own <- LifeOwn, MaxRounds <- LifeMaxRounds, MaxReloads <- LifeMaxReloads,
  stage <- lifeStage, cause <- lifeCause, file <- lifeFile, config <- lifeConfig,
  writable <- lifeWritable, fetched <- lifeFetched, sockets <- lifeSockets,
  queue <- lifeQueue, inflight <- lifeInflight, answered <- lifeAnswered,
  buffered <- lifeBuffered, written <- lifeWritten, lost <- lifeLost,
  tasks <- lifeTasks, signals <- lifeSignals, cancelled <- lifeCancelled,
  ended <- lifeEnded, hangups <- lifeHangups, reloads <- lifeReloads,
  active <- lifeActive, round <- lifeRound, rounds <- lifeRounds

-----------------------------------------------------------------------------
(***************************************************************************)
(* The properties of these parts, under the names they have there; each is *)
(* stated, and explained, in its module.                                   *)
(***************************************************************************)
(* ratelimit.rs:148 *)
RateIsKept == part = "ratelimit" => Limit!RateIsKept
(* local.rs:373 *)
LocalNamesStayAtHome == part = "path" => Way!LocalNamesStayAtHome
(* dnssec.rs:295 *)
SecureMeansProven == part = "path" => Way!SecureMeansProven
(* policy/mod.rs:804 *)
PrivateOnlyAtHome == part = "path" => Way!PrivateOnlyAtHome
(* odoh.rs:116, privacy.rs:1 *)
UpstreamsLearnLittle == part = "upstreams" => Up!KeyIsFetchedOnce /\ Up!WhatLeavesIsClean
(* main.rs:954, api/mod.rs:553 *)
ApiKeepsItsWord == part = "api" => Web!TokenSurvives /\ Web!OrdersHold
(* detect/tunneling.rs:106 *)
VolumeIsTrue == part = "tunneling" => Flow!VolumeIsTrue
(* main.rs:625 *)
StartsAndStopsInOrder == part = "startup" => Life!StartsAndStopsInOrder
(* main.rs:59 *)
CheckedConfigStarts == part = "startup" => Life!CheckedConfigStarts
=============================================================================
