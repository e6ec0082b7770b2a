--------------------------- MODULE CachingProofs ----------------------------
(***************************************************************************)
(* Theorems about Caching, for any number of clients, refreshes and keys:  *)
(* its types and the deduplication of queries, the order of the answers,   *)
(* and that it implements SingleFlight; and about CacheTtlRun, for all     *)
(* settings Config::validate accepts and all responses.                    *)
(***************************************************************************)
EXTENDS Caching, CacheTtlRun, FiniteSetTheorems, WellFoundedInduction, TLAPS

LessThan == {p \in Nat \X Nat : p[1] < p[2]}

(* The order of the naturals, as a relation, is well founded. *)
LEMMA LessThanWellFounded == IsWellFoundedOn(LessThan, Nat)
BY NatLessThanWellFounded, Zenon DEF OpToRel, LessThan

(* A non-empty set of naturals has a least member, and Min is it. *)
LEMMA MinOfNats ==
  ASSUME NEW S, S \subseteq Nat, S # {}
  PROVE  Min(S) \in S /\ \A y \in S : Min(S) <= y
<1>1. \E x \in S : \A y \in S : ~(<<y, x>> \in LessThan)
  BY LessThanWellFounded, WFMin
<1>2. PICK x \in S : \A y \in S : ~(<<y, x>> \in LessThan)
  BY <1>1
<1>3. ASSUME NEW y \in S
      PROVE  x <= y
  <2>1. x \in Nat /\ y \in Nat
    OBVIOUS
  <2>2. y < x => <<y, x>> \in LessThan
    BY <2>1 DEF LessThan
  <2>3. QED BY <1>2, <2>1, <2>2
<1>4. QED BY <1>3 DEF Min

(***************************************************************************)
(* Under settings with min_ttl <= max_negative_ttl (Config::validate only  *)
(* sees to min_ttl <= max_ttl) the decision never panics: it is a TTL or   *)
(* a refusal.                                                              *)
(***************************************************************************)
LEMMA CacheableTtlType ==
  ASSUME NEW c \in Config, Accepted(c), c.minTtl <= c.maxNegativeTtl,
         NEW r \in Response
  PROVE  CacheableTtl(c, r) \in Nat \cup {NoTtl}
<1> USE DEF Config
<1>1. RecordTtls(r) \subseteq Nat
  BY DEF RecordTtls, Response
<1>2. ASSUME NEW x \in Nat, NEW hi \in Nat, c.minTtl <= hi
      PROVE  Clamp(x, c.minTtl, hi) \in Nat
  BY <1>2 DEF Clamp
<1>3. CASE r.tc \/ r.rcode = "Other"
  BY <1>3 DEF CacheableTtl
<1>4. CASE ~(r.tc \/ r.rcode = "Other") /\ r.rcode = "NoError" /\ r.answers # {}
  <2>1. CASE RecordTtls(r) = {}
    BY <1>4, <2>1 DEF CacheableTtl
  <2>2. CASE RecordTtls(r) # {}
    <3>1. Min(RecordTtls(r)) \in Nat
      BY <1>1, <2>2, MinOfNats
    <3>2. Clamp(Min(RecordTtls(r)), c.minTtl, c.maxTtl) \in Nat
      BY <1>2, <3>1 DEF Accepted
    <3>3. QED BY <1>4, <2>2, <3>2 DEF CacheableTtl, PositiveTtl
  <2>3. QED BY <2>1, <2>2
<1>5. CASE ~(r.tc \/ r.rcode = "Other") /\ ~(r.rcode = "NoError" /\ r.answers # {})
  <2>1. CASE r.soa = {}
    BY <1>5, <2>1 DEF CacheableTtl
  <2>2. CASE r.soa # {}
    <3>1. Soa(r) \in [ttl : Nat, minimum : Nat]
      BY <2>2 DEF Response, Soa
    <3>2. Smaller(Soa(r).ttl, Soa(r).minimum) \in Nat
      BY <3>1 DEF Smaller
    <3>3. NegativeTtl(c, r) \in Nat
      BY <1>2, <3>2 DEF NegativeTtl
    <3>4. QED BY <1>5, <2>2, <3>3 DEF CacheableTtl
  <2>3. QED BY <2>1, <2>2
<1>6. QED BY <1>3, <1>4, <1>5

USE CachingAssumption, CacheAssumption, NoneAssumption

(* What is stored is an entry. *)
LEMMA StoreType ==
  ASSUME CacheTypeOK, NEW k \in Keys, NEW a \in Answer, Store(k, a), now' = now
  PROVE  CacheTypeOK'
<1>1. a.response \in Response
  BY DEF Answer
<1>2. CacheableTtl(CacheConfig, a.response) \in Nat \cup {NoTtl}
  BY <1>1, CacheableTtlType
<1>3. CASE CacheableTtl(CacheConfig, a.response) = NoTtl
  BY <1>3 DEF Store, CacheTypeOK, cacheVars
<1>4. CASE CacheableTtl(CacheConfig, a.response) # NoTtl
  <2> DEFINE e == [answer |-> a, storedAt |-> now,
                   ttl |-> CacheableTtl(CacheConfig, a.response)]
  <2>1. e \in Entry
    BY <1>2, <1>4 DEF Entry, CacheTypeOK
  <2>2. Put(k, e)
    BY <1>4 DEF Store
  <2> HIDE DEF e
  <2>3. entries' \in [Keys -> Entry \cup {None}]
    BY <2>1, <2>2 DEF Put, CacheTypeOK
  <2>4. QED BY <2>3 DEF CacheTypeOK
<1>5. QED BY <1>3, <1>4

(* What is remembered of a failure is a failure. *)
LEMMA RecordFailureType ==
  ASSUME NEW k \in Keys, now \in 0..MaxTime,
         failures \in [Keys -> Failure \cup {None}], RecordFailure(k)
  PROVE  failures' \in [Keys -> Failure \cup {None}]
<1> DEFINE kept == IF Cardinality(Remembered(failures)) >= MaxFailures
              THEN [j \in Keys |-> IF IsLockedOut(j) THEN failures[j] ELSE None]
              ELSE failures
           ttl == IF kept[k] = None THEN FailureTtl
                  ELSE Smaller(2 * kept[k].ttl, FailureTtlMax)
<1>1. kept \in [Keys -> Failure \cup {None}]
  OBVIOUS
<1>2. ttl \in Nat
  BY <1>1 DEF Smaller, Failure
<1>3. [at |-> now, ttl |-> ttl] \in Failure
  BY <1>2 DEF Failure
<1>4. failures' = IF Cardinality(Remembered(kept)) < MaxFailures
                  THEN [kept EXCEPT ![k] = [at |-> now, ttl |-> ttl]]
                  ELSE kept
  BY DEF RecordFailure
<1> HIDE DEF kept, ttl
<1>5. QED BY <1>1, <1>3, <1>4

-----------------------------------------------------------------------------
(* Ending a task keeps the task variables well typed. *)
LEMMA EndType ==
  ASSUME TypeOK, NEW t \in Tasks, End(t),
         UNCHANGED <<now, cacheVars, failures, inflight, streak>>
  PROVE  TypeOK'
BY DEF TypeOK, End, CacheTypeOK, cacheVars, Places

(* Every step of a client's lookup keeps the types. *)
LEMMA LookupType ==
  ASSUME TypeOK, NEW c \in Clients, NEW k \in Keys,
         LookupHit(c, k) \/ LookupHitAndRefresh(c, k) \/ LookupMiss(c, k)
  PROVE  TypeOK'
<1>0. c \in Tasks
  BY DEF Tasks
<1>1. CASE LookupHit(c, k)
  BY <1>1 DEF TypeOK, CacheTypeOK, LookupHit, GetHit, taskVars
<1>2. CASE LookupHitAndRefresh(c, k)
  <2>1. PICK r \in Refreshers : /\ pc[r] = "idle"
                                /\ pc' = [pc EXCEPT ![r] = "spawned"]
                                /\ key' = [key EXCEPT ![r] = k]
    BY <1>2 DEF LookupHitAndRefresh, Spawn, Goto
  <2>2. r \in Tasks
    BY DEF Tasks
  <2>3. CacheTypeOK'
    BY <1>2 DEF TypeOK, CacheTypeOK, LookupHitAndRefresh, GetHit
  <2>4. QED BY <1>2, <2>1, <2>2, <2>3 DEF TypeOK, LookupHitAndRefresh, Places
<1>3. CASE LookupMiss(c, k)
  <2>1. CacheTypeOK'
    BY <1>3 DEF TypeOK, CacheTypeOK, LookupMiss, GetMiss
  <2>2. QED BY <1>0, <1>3, <2>1 DEF TypeOK, LookupMiss, Goto, Places
<1>4. QED BY <1>1, <1>2, <1>3

(* Every step of a running resolution keeps the types. *)
LEMMA AdvanceType ==
  ASSUME TypeOK, NEW t \in Tasks, Proceeds(t) \/ Resolves(t)
  PROVE  TypeOK'
<1> USE DEF Goto, Places
<1>1. CASE AnswerCachedFailure(t)
  BY <1>1, EndType DEF AnswerCachedFailure
<1>2. CASE PassLockout(t)
  BY <1>2 DEF TypeOK, CacheTypeOK, cacheVars, PassLockout
<1>3. CASE Lead(t)
  BY <1>3 DEF TypeOK, CacheTypeOK, cacheVars, Lead
<1>4. CASE Follow(t)
  BY <1>4 DEF TypeOK, CacheTypeOK, cacheVars, Follow
<1>5. CASE SkipRefresh(t)
  BY <1>5, EndType DEF SkipRefresh
<1>6. CASE UpstreamAnswers(t)
  <2>1. PICK r \in Responses : result' = [result EXCEPT ![t] = [response |-> r, at |-> now]]
    BY <1>6 DEF UpstreamAnswers
  <2>2. [response |-> r, at |-> now] \in Answer
    BY DEF Answer, TypeOK, CacheTypeOK
  <2>3. key[t] \in Keys
    BY <1>6 DEF TypeOK, UpstreamAnswers
  <2>4. QED BY <1>6, <2>1, <2>2, <2>3 DEF TypeOK, CacheTypeOK, cacheVars, UpstreamAnswers
<1>7. CASE UpstreamFails(t)
  <2>1. key[t] \in Keys
    BY <1>7 DEF TypeOK, UpstreamFails
  <2>2. Smaller(streak[key[t]] + 1, FailureTtlMax) \in Nat
    BY <2>1 DEF TypeOK, Smaller
  <2>3. QED BY <1>7, <2>1, <2>2 DEF TypeOK, CacheTypeOK, cacheVars, UpstreamFails
<1>8. CASE ForgetFailure(t)
  BY <1>8 DEF TypeOK, CacheTypeOK, cacheVars, ForgetFailure
<1>9. CASE StoreAnswer(t)
  <2>1. key[t] \in Keys /\ result[t] \in Answer
    BY <1>9 DEF TypeOK, StoreAnswer
  <2>2. CacheTypeOK'
    BY <1>9, <2>1, StoreType DEF TypeOK, StoreAnswer
  <2>3. QED BY <1>9, <2>1, <2>2 DEF TypeOK, StoreAnswer
<1>10. CASE RememberFailure(t)
  <2>1. key[t] \in Keys
    BY <1>10 DEF TypeOK, RememberFailure
  <2>2. failures' \in [Keys -> Failure \cup {None}]
    BY <1>10, <2>1, RecordFailureType DEF TypeOK, CacheTypeOK, RememberFailure
  <2>3. QED BY <1>10, <2>2 DEF TypeOK, CacheTypeOK, cacheVars, RememberFailure
<1>11. CASE Release(t)
  BY <1>11 DEF TypeOK, CacheTypeOK, cacheVars, Release
<1>12. CASE Send(t)
  BY <1>12 DEF TypeOK, CacheTypeOK, cacheVars, Send
<1>13. CASE Receive(t)
  BY <1>13, EndType DEF Receive
<1>14. QED
  BY <1>1, <1>2, <1>3, <1>4, <1>5, <1>6, <1>7, <1>8, <1>9, <1>10, <1>11,
     <1>12, <1>13 DEF Proceeds, Resolves

(* Types are kept by every step of the system. *)
LEMMA NextType ==
  ASSUME TypeOK, [Next]_vars
  PROVE  TypeOK'
<1>1. CASE Tick /\ UNCHANGED <<cacheVars, failures, inflight, taskVars, streak>>
  <2>1. now' \in 0..MaxTime
    BY <1>1 DEF Tick, TypeOK, CacheTypeOK
  <2>2. QED BY <1>1, <2>1 DEF TypeOK, CacheTypeOK, cacheVars, taskVars
<1>2. ASSUME NEW t \in Tasks, AbortLeader(t) \/ AbortFollower(t)
      PROVE  TypeOK'
  <2>1. CASE AbortLeader(t)
    BY <2>1 DEF TypeOK, CacheTypeOK, cacheVars, AbortLeader, Goto, Places
  <2>2. CASE AbortFollower(t)
    BY <2>2, EndType DEF AbortFollower
  <2>3. QED BY <1>2, <2>1, <2>2
<1>3. CASE UNCHANGED vars
  BY <1>3 DEF TypeOK, CacheTypeOK, vars
<1>4. QED BY <1>1, <1>2, <1>3, LookupType, AdvanceType DEF Next

(***************************************************************************)
(* The type invariant holds for every number of clients, refreshes and     *)
(* keys, every cache size and every setting the assumptions admit: what is *)
(* in the cache and in the failure memory is always an entry and a failure,*)
(* and a leader that comes to storing its answer has one.                  *)
(***************************************************************************)
THEOREM TypeCorrect == Spec => []TypeOK
<1>1. Init => TypeOK
  BY DEF Init, CacheInit, TypeOK, CacheTypeOK, Places
<1>2. TypeOK /\ [Next]_vars => TypeOK'
  BY NextType
<1>3. QED BY <1>1, <1>2, PTL DEF Spec

-----------------------------------------------------------------------------
(* A task that holds no Leader may end: nobody depends on it. *)
LEMMA EndKeepsLeaders ==
  ASSUME TypeOK, OneLeaderPerKey, NEW t \in Tasks, End(t),
         pc[t] \notin Leading, UNCHANGED inflight
  PROVE  OneLeaderPerKey'
BY DEF TypeOK, OneLeaderPerKey, End, Leading

(* A leader that goes on without letting go of its key stays the leader. *)
LEMMA LeaderGoesOn ==
  ASSUME TypeOK, OneLeaderPerKey, NEW t \in Tasks, NEW p \in Leading,
         pc[t] \in Leading, Goto(t, p), UNCHANGED <<inflight, key>>
  PROVE  OneLeaderPerKey'
BY DEF TypeOK, OneLeaderPerKey, Goto

(* Places outside of Leading may be changed at will. *)
LEMMA OthersGoOn ==
  ASSUME TypeOK, OneLeaderPerKey, NEW t \in Tasks, NEW p \in Places \ Leading,
         pc[t] \notin Leading, Goto(t, p), UNCHANGED inflight,
         NEW k \in Keys, key' = key \/ key' = [key EXCEPT ![t] = k]
  PROVE  OneLeaderPerKey'
BY DEF TypeOK, OneLeaderPerKey, Goto, Leading

(* Every step keeps one leader per key. *)
LEMMA NextKeepsLeaders ==
  ASSUME TypeOK, OneLeaderPerKey, [Next]_vars
  PROVE  OneLeaderPerKey'
<1> USE DEF Leading
<1>1. CASE UNCHANGED <<inflight, pc, key>>
  BY <1>1 DEF OneLeaderPerKey
<1>2. ASSUME NEW c \in Clients, NEW k \in Keys,
             LookupHit(c, k) \/ LookupHitAndRefresh(c, k) \/ LookupMiss(c, k)
      PROVE  OneLeaderPerKey'
  <2>1. CASE LookupHit(c, k)
    BY <1>1, <2>1 DEF LookupHit, taskVars
  <2>2. CASE LookupHitAndRefresh(c, k)
    BY <2>2, OthersGoOn DEF LookupHitAndRefresh, Spawn, Tasks, Places
  <2>3. CASE LookupMiss(c, k)
    BY <2>3, OthersGoOn DEF LookupMiss, Tasks, Places
  <2>4. QED BY <1>2, <2>1, <2>2, <2>3
<1>3. ASSUME NEW t \in Tasks, Proceeds(t) \/ Resolves(t) \/ AbortLeader(t) \/ AbortFollower(t)
      PROVE  OneLeaderPerKey'
  <2>1. CASE AnswerCachedFailure(t) \/ SkipRefresh(t) \/ Receive(t) \/ AbortFollower(t)
    BY <2>1, EndKeepsLeaders
       DEF AnswerCachedFailure, SkipRefresh, Receive, AbortFollower
  <2>2. CASE PassLockout(t) \/ Follow(t)
    <3>1. key[t] \in Keys
      BY <2>2 DEF TypeOK, PassLockout, Follow
    <3>2. QED BY <2>2, <3>1, OthersGoOn DEF PassLockout, Follow, Places
  <2>3. CASE Lead(t)
    BY <2>3 DEF Lead, TypeOK, OneLeaderPerKey, Goto
  <2>4. CASE \/ UpstreamAnswers(t) \/ UpstreamFails(t) \/ AbortLeader(t)
             \/ ForgetFailure(t) \/ StoreAnswer(t) \/ RememberFailure(t)
    BY <2>4, LeaderGoesOn
       DEF UpstreamAnswers, UpstreamFails, AbortLeader, ForgetFailure,
           StoreAnswer, RememberFailure
  <2>5. CASE Release(t)
    BY <2>5 DEF Release, TypeOK, OneLeaderPerKey, Goto
  <2>6. CASE Send(t)
    BY <2>6 DEF Send, TypeOK, OneLeaderPerKey
  <2>7. QED
    BY <1>3, <2>1, <2>2, <2>3, <2>4, <2>5, <2>6 DEF Proceeds, Resolves
<1>4. QED
  BY <1>1, <1>2, <1>3 DEF Next, vars, taskVars

(***************************************************************************)
(* Deduplication, for any number of tasks: no key is ever resolved by two  *)
(* of them, and the inflight table names exactly the one that does.        *)
(***************************************************************************)
THEOREM Deduplication == Spec => []OneLeaderPerKey
<1>1. Init => OneLeaderPerKey
  BY DEF Init, OneLeaderPerKey, Leading
<1>2. TypeOK /\ OneLeaderPerKey /\ [Next]_vars => OneLeaderPerKey'
  BY NextKeepsLeaders
<1>3. QED BY <1>1, <1>2, TypeCorrect, PTL DEF Spec

-----------------------------------------------------------------------------
(***************************************************************************)
(* What the locals of a task hold at each place: no answer before the      *)
(* upstream gave one, a channel only while waiting, and a subscription     *)
(* exactly as long as nothing was received.                                *)
(***************************************************************************)
LocalsFit ==
  \A t \in Tasks :
    /\ pc[t] \notin {"answered", "storing", "releasing", "sending"} => result[t] = None
    /\ pc[t] # "waiting" => leader[t] = None /\ inbox[t] = Empty
    /\ pc[t] = "waiting" => (leader[t] # None <=> inbox[t] = Empty)

(* The locals of a task fit its place after every step. *)
LEMMA NextKeepsLocals ==
  ASSUME TypeOK, OneLeaderPerKey, LocalsFit, [Next]_vars
  PROVE  LocalsFit'
<1>1. CASE UNCHANGED <<pc, result, leader, inbox>>
  BY <1>1 DEF LocalsFit
<1>2. ASSUME NEW t \in Tasks, End(t)
      PROVE  LocalsFit'
  BY <1>2 DEF LocalsFit, TypeOK, End
<1>3. ASSUME NEW c \in Clients, NEW k \in Keys,
             LookupHit(c, k) \/ LookupHitAndRefresh(c, k) \/ LookupMiss(c, k)
      PROVE  LocalsFit'
  <2>1. CASE LookupHit(c, k)
    BY <1>1, <2>1 DEF LookupHit, taskVars
  <2>2. CASE LookupHitAndRefresh(c, k)
    BY <2>2 DEF LookupHitAndRefresh, Spawn, Goto, LocalsFit, TypeOK, Tasks
  <2>3. CASE LookupMiss(c, k)
    BY <2>3 DEF LookupMiss, Goto, LocalsFit, TypeOK, Tasks
  <2>4. QED BY <1>3, <2>1, <2>2, <2>3
<1>4. ASSUME NEW t \in Tasks, Proceeds(t) \/ Resolves(t) \/ AbortLeader(t) \/ AbortFollower(t)
      PROVE  LocalsFit'
  <2> USE DEF LocalsFit, TypeOK, Goto
  <2>1. CASE AnswerCachedFailure(t) \/ SkipRefresh(t) \/ Receive(t) \/ AbortFollower(t)
    BY <1>2, <2>1 DEF AnswerCachedFailure, SkipRefresh, Receive, AbortFollower
  <2>2. CASE PassLockout(t) \/ Lead(t) \/ UpstreamFails(t) \/ AbortLeader(t)
    BY <2>2 DEF PassLockout, Lead, UpstreamFails, AbortLeader
  <2>3. CASE Follow(t)
    BY <2>3 DEF Follow
  <2>4. CASE UpstreamAnswers(t)
    BY <2>4 DEF UpstreamAnswers
  <2>5. CASE ForgetFailure(t) \/ StoreAnswer(t) \/ RememberFailure(t) \/ Release(t)
    BY <2>5 DEF ForgetFailure, StoreAnswer, RememberFailure, Release
  <2>6. CASE Send(t)
    BY <2>6 DEF Send
  <2>7. QED
    BY <1>4, <2>1, <2>2, <2>3, <2>4, <2>5, <2>6 DEF Proceeds, Resolves
<1>5. QED
  BY <1>1, <1>3, <1>4 DEF Next, vars, taskVars

(* A follower's leader stays on its way to the send, or sends. *)
LEMMA NextKeepsFollowers ==
  ASSUME TypeOK, OneLeaderPerKey, LocalsFit, FollowersWillBeTold, [Next]_vars
  PROVE  FollowersWillBeTold'
<1> USE DEF Leading
<1>1. CASE UNCHANGED <<pc, key, leader, inbox>>
  BY <1>1 DEF FollowersWillBeTold
<1>2. ASSUME NEW t \in Tasks, End(t), pc[t] \notin Leading \cup {"sending"}
      PROVE  FollowersWillBeTold'
  BY <1>2 DEF FollowersWillBeTold, TypeOK, End
<1>3. ASSUME NEW c \in Clients, NEW k \in Keys,
             LookupHit(c, k) \/ LookupHitAndRefresh(c, k) \/ LookupMiss(c, k)
      PROVE  FollowersWillBeTold'
  <2>1. CASE LookupHit(c, k)
    BY <1>1, <2>1 DEF LookupHit, taskVars
  <2>2. CASE LookupHitAndRefresh(c, k)
    BY <2>2 DEF LookupHitAndRefresh, Spawn, Goto, FollowersWillBeTold, TypeOK, Tasks
  <2>3. CASE LookupMiss(c, k)
    BY <2>3 DEF LookupMiss, Goto, FollowersWillBeTold, TypeOK, Tasks
  <2>4. QED BY <1>3, <2>1, <2>2, <2>3
<1>4. ASSUME NEW t \in Tasks, Proceeds(t) \/ Resolves(t) \/ AbortLeader(t) \/ AbortFollower(t)
      PROVE  FollowersWillBeTold'
  <2> USE DEF FollowersWillBeTold, TypeOK, Goto
  <2>1. CASE AnswerCachedFailure(t) \/ SkipRefresh(t) \/ Receive(t) \/ AbortFollower(t)
    BY <1>2, <2>1 DEF AnswerCachedFailure, SkipRefresh, Receive, AbortFollower
  <2>2. CASE PassLockout(t) \/ Lead(t)
    BY <2>2 DEF PassLockout, Lead
  <2>3. CASE Follow(t)
    <3>1. key[t] \in Keys
      BY <2>3 DEF Follow
    <3>2. /\ inflight[key[t]] \in Tasks
          /\ pc[inflight[key[t]]] \in Leading
          /\ key[inflight[key[t]]] = key[t]
      BY <2>3, <3>1 DEF Follow, OneLeaderPerKey
    <3>3. QED BY <2>3, <3>1, <3>2 DEF Follow
  <2>4. CASE \/ UpstreamAnswers(t) \/ UpstreamFails(t) \/ AbortLeader(t)
             \/ ForgetFailure(t) \/ StoreAnswer(t) \/ RememberFailure(t)
             \/ Release(t)
    BY <2>4
       DEF UpstreamAnswers, UpstreamFails, AbortLeader, ForgetFailure,
           StoreAnswer, RememberFailure, Release
  <2>5. CASE Send(t)
    BY <2>5 DEF Send
  <2>6. QED
    BY <1>4, <2>1, <2>2, <2>3, <2>4, <2>5 DEF Proceeds, Resolves
<1>5. QED
  BY <1>1, <1>3, <1>4 DEF Next, vars, taskVars

(***************************************************************************)
(* No follower is ever left with a leader that will not send: the lost     *)
(* wake-up between release and send does not exist, for any number of      *)
(* followers, leaders and aborts.  OneLeaderPerKey makes it inductive, for *)
(* it says that what a follower finds in the table is a leader.            *)
(***************************************************************************)
THEOREM NoLostWakeup == Spec => []FollowersWillBeTold
<1>1. Init => LocalsFit /\ FollowersWillBeTold
  BY DEF Init, LocalsFit, FollowersWillBeTold
<1>2. TypeOK /\ OneLeaderPerKey /\ LocalsFit /\ [Next]_vars => LocalsFit'
  BY NextKeepsLocals
<1>3. TypeOK /\ OneLeaderPerKey /\ LocalsFit /\ FollowersWillBeTold /\ [Next]_vars
        => FollowersWillBeTold'
  BY NextKeepsFollowers
<1>4. QED BY <1>1, <1>2, <1>3, TypeCorrect, Deduplication, PTL DEF Spec

-----------------------------------------------------------------------------
(* The failure memory is finite, and within its limit. *)
MemoryInBounds ==
  IsFiniteSet(Remembered(failures)) /\ FailureMemoryIsBounded

(* Remembering one more failure first makes room or is refused. *)
LEMMA RecordKeepsBounds ==
  ASSUME NEW k \in Keys, failures \in [Keys -> Failure \cup {None}],
         MemoryInBounds, RecordFailure(k)
  PROVE  MemoryInBounds'
<1> DEFINE kept == IF Cardinality(Remembered(failures)) >= MaxFailures
              THEN [j \in Keys |-> IF IsLockedOut(j) THEN failures[j] ELSE None]
              ELSE failures
           ttl == IF kept[k] = None THEN FailureTtl
                  ELSE Smaller(2 * kept[k].ttl, FailureTtlMax)
<1>1. Remembered(kept) \subseteq Remembered(failures)
  BY DEF Remembered
<1>2. /\ IsFiniteSet(Remembered(kept))
      /\ Cardinality(Remembered(kept)) \in Nat
      /\ Cardinality(Remembered(kept)) <= Cardinality(Remembered(failures))
  BY <1>1, FS_Subset, FS_CardinalityType DEF MemoryInBounds
<1>3. failures' = IF Cardinality(Remembered(kept)) < MaxFailures
                  THEN [kept EXCEPT ![k] = [at |-> now, ttl |-> ttl]]
                  ELSE kept
  BY DEF RecordFailure
<1>4. Cardinality(Remembered(failures)) \in Nat
  BY FS_CardinalityType DEF MemoryInBounds
<1>5. kept \in [Keys -> Failure \cup {None}]
  OBVIOUS
<1> HIDE DEF kept, ttl
<1>6. CASE Cardinality(Remembered(kept)) < MaxFailures
  <2>1. Remembered(failures') \subseteq Remembered(kept) \cup {k}
    BY <1>3, <1>5, <1>6 DEF Remembered
  <2>2. /\ IsFiniteSet(Remembered(kept) \cup {k})
        /\ Cardinality(Remembered(kept) \cup {k}) <= Cardinality(Remembered(kept)) + 1
        /\ Cardinality(Remembered(kept) \cup {k}) \in Nat
    <3>1. /\ IsFiniteSet(Remembered(kept) \cup {k})
          /\ Cardinality(Remembered(kept) \cup {k}) =
               IF k \in Remembered(kept) THEN Cardinality(Remembered(kept))
               ELSE Cardinality(Remembered(kept)) + 1
      BY <1>2, FS_AddElement
    <3>2. QED BY <1>2, <3>1
  <2>3. /\ IsFiniteSet(Remembered(failures'))
        /\ Cardinality(Remembered(failures')) <= Cardinality(Remembered(kept) \cup {k})
        /\ Cardinality(Remembered(failures')) \in Nat
    BY <2>1, <2>2, FS_Subset, FS_CardinalityType
  <2>4. QED
    BY <1>2, <1>6, <2>2, <2>3 DEF MemoryInBounds, FailureMemoryIsBounded
<1>7. CASE ~(Cardinality(Remembered(kept)) < MaxFailures)
  BY <1>2, <1>3, <1>4, <1>7 DEF MemoryInBounds, FailureMemoryIsBounded
<1>8. QED BY <1>6, <1>7

(* Forgetting a failure makes the memory smaller. *)
LEMMA ForgetKeepsBounds ==
  ASSUME NEW k \in Keys, failures \in [Keys -> Failure \cup {None}],
         MemoryInBounds, failures' = [failures EXCEPT ![k] = None]
  PROVE  MemoryInBounds'
<1>1. Remembered(failures') \subseteq Remembered(failures)
  BY DEF Remembered
<1>2. /\ IsFiniteSet(Remembered(failures'))
      /\ Cardinality(Remembered(failures')) <= Cardinality(Remembered(failures))
      /\ Cardinality(Remembered(failures')) \in Nat
      /\ Cardinality(Remembered(failures)) \in Nat
  BY <1>1, FS_Subset, FS_CardinalityType DEF MemoryInBounds
<1>3. QED BY <1>2 DEF MemoryInBounds, FailureMemoryIsBounded

(***************************************************************************)
(* However many names fail, and however they interleave, no more failures  *)
(* are remembered than MAX_FAILURES.  Keys need not be finite: the memory  *)
(* itself is, which is part of the invariant.                              *)
(***************************************************************************)
THEOREM BoundedMemory == Spec => []FailureMemoryIsBounded
<1>1. Init => MemoryInBounds
  <2>1. Init => Remembered(failures) = {}
    BY DEF Init, Remembered
  <2>2. QED BY <2>1, FS_EmptySet DEF MemoryInBounds, FailureMemoryIsBounded
<1>2. TypeOK /\ MemoryInBounds /\ [Next]_vars => MemoryInBounds'
  <2> SUFFICES ASSUME TypeOK, MemoryInBounds, [Next]_vars
               PROVE  MemoryInBounds'
    OBVIOUS
  <2>1. CASE UNCHANGED failures
    BY <2>1 DEF MemoryInBounds, FailureMemoryIsBounded
  <2>2. ASSUME NEW t \in Tasks, ForgetFailure(t)
        PROVE  MemoryInBounds'
    <3>1. key[t] \in Keys
      BY <2>2 DEF ForgetFailure, TypeOK
    <3>2. QED BY <2>2, <3>1, ForgetKeepsBounds DEF ForgetFailure, TypeOK
  <2>3. ASSUME NEW t \in Tasks, RememberFailure(t)
        PROVE  MemoryInBounds'
    <3>1. key[t] \in Keys
      BY <2>3 DEF RememberFailure, TypeOK
    <3>2. QED BY <2>3, <3>1, RecordKeepsBounds DEF RememberFailure, TypeOK
  <2>4. CASE UNCHANGED failures \/ \E t \in Tasks : ForgetFailure(t) \/ RememberFailure(t)
    BY <2>1, <2>2, <2>3, <2>4
  <2>5. UNCHANGED failures \/ \E t \in Tasks : ForgetFailure(t) \/ RememberFailure(t)
    <3>1. ASSUME NEW t \in Tasks, Proceeds(t) \/ Resolves(t) \/ AbortLeader(t) \/ AbortFollower(t)
          PROVE  UNCHANGED failures \/ ForgetFailure(t) \/ RememberFailure(t)
      BY <3>1, Zenon
         DEF Proceeds, Resolves, AnswerCachedFailure, PassLockout, Lead, Follow, SkipRefresh,
             UpstreamAnswers, UpstreamFails, AbortLeader, StoreAnswer, Release,
             Send, Receive, AbortFollower
    <3>2. ASSUME NEW c \in Clients, NEW k \in Keys,
                 LookupHit(c, k) \/ LookupHitAndRefresh(c, k) \/ LookupMiss(c, k)
          PROVE  UNCHANGED failures
      BY <3>2 DEF LookupHit, LookupHitAndRefresh, LookupMiss
    <3>3. QED BY <3>1, <3>2 DEF Next, vars
  <2>6. QED BY <2>4, <2>5
<1>3. QED BY <1>1, <1>2, TypeCorrect, PTL DEF Spec, MemoryInBounds

-----------------------------------------------------------------------------
(***************************************************************************)
(* The ladder of the lockouts, from one failure in a row to the next.      *)
(***************************************************************************)
Rung(n, below) == IF n <= 1 THEN FailureTtl ELSE Smaller(2 * below, FailureTtlMax)

Climbs(f, m) == f = [n \in 0 .. m |-> Rung(n, f[n - 1])]

LEMMA SomeClimb == \A m \in Nat : \E f : Climbs(f, m)
<1> DEFINE Missing == {m \in Nat : ~ \E f : Climbs(f, m)}
<1> SUFFICES ASSUME Missing # {} PROVE FALSE
  OBVIOUS
<1>1. PICK m \in Missing : \A y \in Missing : m <= y
  <2>1. Missing \subseteq Nat
    OBVIOUS
  <2> HIDE DEF Missing
  <2>2. Min(Missing) \in Missing /\ \A y \in Missing : Min(Missing) <= y
    BY <2>1, MinOfNats
  <2>3. QED
    BY <2>2
<1>2. m # 0
  <2> DEFINE f == [n \in 0 .. 0 |-> FailureTtl]
  <2>1. Climbs(f, 0)
    BY DEF Climbs, Rung
  <2>2. QED
    BY <2>1
<1>3. m - 1 \in Nat /\ m - 1 \notin Missing
  BY <1>1, <1>2
<1>4. PICK f : Climbs(f, m - 1)
  BY <1>3
<1> DEFINE g == [n \in 0 .. m |-> IF n = m THEN Rung(m, f[m - 1]) ELSE f[n]]
<1>5. ASSUME NEW n \in 0 .. m PROVE g[n] = Rung(n, g[n - 1])
  <2>1. CASE n = m
    BY <1>2, <2>1
  <2>2. CASE n # m /\ n # 0
    <3>1. n \in 0 .. m - 1 /\ n - 1 \in 0 .. m - 1
      BY <2>2
    <3>2. f[n] = Rung(n, f[n - 1])
      BY <1>4, <3>1 DEF Climbs
    <3>3. g[n] = f[n] /\ g[n - 1] = f[n - 1]
      BY <2>2, <3>1
    <3>4. QED
      BY <3>2, <3>3
  <2>3. CASE n # m /\ n = 0
    <3>1. f[0] = Rung(0, f[0 - 1])
      BY <1>2, <1>4 DEF Climbs
    <3>2. QED
      BY <2>3, <3>1 DEF Rung
  <2>4. QED
    BY <2>1, <2>2, <2>3
<1>6. Climbs(g, m)
  <2> HIDE DEF g
  <2>1. g = [n \in 0 .. m |-> g[n]]
    BY DEF g
  <2>2. QED
    BY <1>5, <2>1 DEF Climbs
<1>7. QED
  BY <1>1, <1>6

LEMMA ClimbsAgree ==
  ASSUME NEW m \in Nat, NEW k \in Nat, NEW f, NEW g, Climbs(f, m), Climbs(g, k), m <= k
  PROVE  \A n \in 0 .. m : f[n] = g[n]
<1> DEFINE Differ == {n \in 0 .. m : f[n] # g[n]}
<1> SUFFICES ASSUME Differ # {} PROVE FALSE
  OBVIOUS
<1>1. PICK n \in Differ : \A y \in Differ : n <= y
  <2>1. Differ \subseteq Nat
    OBVIOUS
  <2> HIDE DEF Differ
  <2>2. Min(Differ) \in Differ /\ \A y \in Differ : Min(Differ) <= y
    BY <2>1, MinOfNats
  <2>3. QED
    BY <2>2
<1>2. n \in 0 .. m /\ n \in 0 .. k
  OBVIOUS
<1>3. f[n] = Rung(n, f[n - 1]) /\ g[n] = Rung(n, g[n - 1])
  BY <1>2 DEF Climbs
<1>4. n > 1 => f[n - 1] = g[n - 1]
  <2>1. n - 1 \notin Differ
    BY <1>1
  <2>2. QED
    BY <1>2, <2>1
<1>5. f[n] = g[n]
  BY <1>2, <1>3, <1>4 DEF Rung
<1>6. QED
  BY <1>5

LEMMA LadderIsDefined == \A n \in Nat : Ladder[n] = Rung(n, Ladder[n - 1])
<1> DEFINE Climb(m) == CHOOSE f : Climbs(f, m)
<1> DEFINE g == [n \in Nat |-> Climb(n)[n]]
<1>1. \A m \in Nat : Climbs(Climb(m), m)
  BY SomeClimb
<1> HIDE DEF Climb
<1>2. ASSUME NEW n \in Nat PROVE g[n] = Rung(n, g[n - 1])
  <2>1. Climb(n)[n] = Rung(n, Climb(n)[n - 1])
    BY <1>1 DEF Climbs
  <2>2. CASE n <= 1
    BY <2>1, <2>2 DEF Rung
  <2>3. CASE n > 1
    <3>1. n - 1 \in Nat /\ n - 1 <= n /\ n - 1 \in 0 .. n - 1
      BY <2>3
    <3>2. Climb(n - 1)[n - 1] = Climb(n)[n - 1]
      BY <1>1, <3>1, ClimbsAgree
    <3>3. QED
      BY <2>1, <3>1, <3>2
  <2>4. QED
    BY <2>2, <2>3
<1>3. g = [n \in Nat |-> Rung(n, g[n - 1])]
  <2> HIDE DEF g
  <2>1. g = [n \in Nat |-> g[n]]
    BY DEF g
  <2>2. QED
    BY <1>2, <2>1
<1> HIDE DEF g
<1>4. Ladder = [n \in Nat |-> Rung(n, Ladder[n - 1])]
  BY <1>3 DEF Ladder, Rung
<1>5. QED
  BY <1>4

(* It does not end above the maximum, and it comes to it. *)
LEMMA LadderGoesUp ==
  \A n \in Nat : /\ Ladder[n] \in Nat /\ Ladder[n] <= FailureTtlMax
                 /\ n > 0 => Smaller(n, FailureTtlMax) <= Ladder[n]
<1> DEFINE Right(n) == /\ Ladder[n] \in Nat /\ Ladder[n] <= FailureTtlMax
                       /\ n > 0 => Smaller(n, FailureTtlMax) <= Ladder[n]
<1> DEFINE Wrong == {n \in Nat : ~Right(n)}
<1> SUFFICES ASSUME Wrong # {} PROVE FALSE
  OBVIOUS
<1>1. PICK n \in Wrong : \A y \in Wrong : n <= y
  <2>1. Wrong \subseteq Nat
    OBVIOUS
  <2> HIDE DEF Wrong
  <2>2. Min(Wrong) \in Wrong /\ \A y \in Wrong : Min(Wrong) <= y
    BY <2>1, MinOfNats
  <2>3. QED
    BY <2>2
<1>2. Ladder[n] = Rung(n, Ladder[n - 1])
  BY LadderIsDefined
<1>3. CASE n <= 1
  BY <1>1, <1>2, <1>3 DEF Rung, Smaller
<1>4. CASE n > 1
  <2>1. n - 1 \in Nat /\ n - 1 > 0 /\ Right(n - 1)
    BY <1>1, <1>4
  <2>2. Ladder[n] = Smaller(2 * Ladder[n - 1], FailureTtlMax)
    BY <1>2, <1>4 DEF Rung
  <2>3. QED
    BY <1>1, <1>4, <2>1, <2>2 DEF Smaller
<1>5. QED
  BY <1>1, <1>3, <1>4

(* One failure more goes one rung up, as far as the history counts. *)
LEMMA OneRungUp ==
  ASSUME NEW n \in Nat, n > 0, NEW ttl \in Nat, ttl <= Ladder[n]
  PROVE  Smaller(2 * ttl, FailureTtlMax) <= Ladder[Smaller(n + 1, FailureTtlMax)]
<1>1. Ladder[n] \in Nat /\ Ladder[FailureTtlMax] \in Nat
  BY LadderGoesUp
<1>2. CASE n + 1 <= FailureTtlMax
  <2>1. Ladder[n + 1] = Smaller(2 * Ladder[n], FailureTtlMax)
    <3>1. Ladder[n + 1] = Rung(n + 1, Ladder[(n + 1) - 1]) /\ (n + 1) - 1 = n
      BY LadderIsDefined
    <3>2. QED
      BY <3>1 DEF Rung
  <2>2. QED
    BY <1>1, <1>2, <2>1 DEF Smaller
<1>3. CASE ~(n + 1 <= FailureTtlMax)
  <2>1. Smaller(FailureTtlMax, FailureTtlMax) <= Ladder[FailureTtlMax]
    BY LadderGoesUp
  <2>2. QED
    BY <1>1, <1>3, <2>1 DEF Smaller
<1>4. QED
  BY <1>2, <1>3

(* And none is below the first lockout. *)
LEMMA FirstRung == \A n \in Nat : n > 0 => FailureTtl <= Ladder[n]
<1> DEFINE Wrong == {n \in Nat : n > 0 /\ ~(FailureTtl <= Ladder[n])}
<1> SUFFICES ASSUME Wrong # {} PROVE FALSE
  OBVIOUS
<1>1. PICK n \in Wrong : \A y \in Wrong : n <= y
  <2>1. Wrong \subseteq Nat
    OBVIOUS
  <2> HIDE DEF Wrong
  <2>2. Min(Wrong) \in Wrong /\ \A y \in Wrong : Min(Wrong) <= y
    BY <2>1, MinOfNats
  <2>3. QED
    BY <2>2
<1>2. Ladder[n] = Rung(n, Ladder[n - 1])
  BY LadderIsDefined
<1>3. CASE n <= 1
  BY <1>1, <1>2, <1>3 DEF Rung
<1>4. CASE n > 1
  <2>1. n - 1 \in Nat /\ FailureTtl <= Ladder[n - 1] /\ Ladder[n - 1] \in Nat
    BY <1>1, <1>4, LadderGoesUp
  <2>2. Ladder[n] = Smaller(2 * Ladder[n - 1], FailureTtlMax)
    BY <1>2, <1>4 DEF Rung
  <2>3. QED
    BY <1>1, <2>1, <2>2 DEF Smaller
<1>5. QED
  BY <1>3, <1>4

-----------------------------------------------------------------------------
(***************************************************************************)
(* What is remembered of a key is due whenever no leader of the key has    *)
(* just heard from the upstream; between a failure and its record the next *)
(* lockout is due.                                                         *)
(***************************************************************************)
Due(k) == failures[k] # None => streak[k] > 0 /\ failures[k].ttl <= Ladder[streak[k]]

NextIsDue(k) ==
  /\ streak[k] > 0
  /\ failures[k] # None =>
       Smaller(2 * failures[k].ttl, FailureTtlMax) <= Ladder[streak[k]]

LockoutsDue ==
  /\ \A k \in Keys : failures[k] # None => failures[k].ttl <= FailureTtlMax
  /\ \A k \in Keys : inflight[k] = None => Due(k)
  /\ \A t \in Tasks :
       /\ pc[t] \in {"asking", "storing", "releasing"} => Due(key[t])
       /\ pc[t] = "failed" => NextIsDue(key[t])

(* What a record leaves of the failures: those of other keys, or less. *)
LEMMA RecordEffect ==
  ASSUME NEW k \in Keys, failures \in [Keys -> Failure \cup {None}], RecordFailure(k)
  PROVE  /\ \A j \in Keys \ {k} : failures'[j] \in {failures[j], None}
         /\ \/ failures'[k] \in {failures[k], None}
            \/ failures'[k].ttl = FailureTtl
            \/ failures[k] # None /\ failures'[k].ttl = Smaller(2 * failures[k].ttl, FailureTtlMax)
<1> DEFINE kept == IF Cardinality(Remembered(failures)) >= MaxFailures
              THEN [j \in Keys |-> IF IsLockedOut(j) THEN failures[j] ELSE None]
              ELSE failures
           ttl == IF kept[k] = None THEN FailureTtl
                  ELSE Smaller(2 * kept[k].ttl, FailureTtlMax)
<1>1. \A j \in Keys : kept[j] \in {failures[j], None}
  OBVIOUS
<1>2. DOMAIN kept = Keys
  OBVIOUS
<1>3. \/ failures' = kept
      \/ failures' = [kept EXCEPT ![k] = [at |-> now, ttl |-> ttl]]
  BY DEF RecordFailure
<1> DEFINE longer == [at |-> now, ttl |-> ttl]
<1>4. longer.ttl = FailureTtl
      \/ (kept[k] # None /\ longer.ttl = Smaller(2 * kept[k].ttl, FailureTtlMax))
  OBVIOUS
<1> HIDE DEF kept, ttl
<1>5. CASE failures' = kept
  BY <1>1, <1>5
<1>6. CASE failures' = [kept EXCEPT ![k] = longer]
  <2>1. failures'[k] = longer /\ \A j \in Keys \ {k} : failures'[j] = kept[j]
    BY <1>2, <1>6
  <2> HIDE DEF longer
  <2>2. QED
    BY <1>1, <1>4, <2>1
<1>7. QED
  BY <1>3, <1>5, <1>6

LEMMA NextKeepsLockouts ==
  ASSUME TypeOK, OneLeaderPerKey, LockoutsDue, [Next]_vars
  PROVE  LockoutsDue'
<1>1. ASSUME UNCHANGED <<failures, streak>>,
             \A k \in Keys : inflight'[k] = None =>
               \/ inflight[k] = None
               \/ \E t \in Tasks : pc[t] = "releasing" /\ key[t] = k,
             \A t \in Tasks :
               /\ pc'[t] \in {"asking", "storing", "releasing"} =>
                    /\ key'[t] = key[t] /\ key[t] \in Keys
                    /\ \/ pc[t] \in {"asking", "storing", "releasing"}
                       \/ inflight[key[t]] = None
               /\ pc'[t] = "failed" => pc[t] = "failed" /\ key'[t] = key[t]
      PROVE  LockoutsDue'
  <2>1. (\A k : Due(k) <=> (Due(k))') /\ (\A k : NextIsDue(k) <=> (NextIsDue(k))')
    BY <1>1 DEF Due, NextIsDue
  <2>2. \A k \in Keys : failures'[k] # None => failures'[k].ttl <= FailureTtlMax
    BY <1>1 DEF LockoutsDue
  <2>3. \A k \in Keys : inflight'[k] = None => Due(k)
    BY <1>1 DEF LockoutsDue
  <2>4. \A t \in Tasks : pc'[t] \in {"asking", "storing", "releasing"} =>
                           Due(key[t]) /\ key'[t] = key[t]
    BY <1>1 DEF LockoutsDue
  <2>5. \A t \in Tasks : pc'[t] = "failed" => NextIsDue(key[t]) /\ key'[t] = key[t]
    BY <1>1 DEF LockoutsDue
  <2>6. QED
    BY <1>1, <2>1, <2>2, <2>3, <2>4, <2>5 DEF LockoutsDue, Due, NextIsDue
(* A leader's step that changes what is remembered, or how often its key   *)
(* has failed, and concerns no other key.                                  *)
<1>2. ASSUME NEW t \in Tasks, pc[t] \in Leading, NEW p, pc' = [pc EXCEPT ![t] = p],
             UNCHANGED <<key, inflight>>,
             \A k \in Keys \ {key[t]} :
               failures'[k] \in {failures[k], None} /\ streak'[k] = streak[k],
             failures'[key[t]] # None => failures'[key[t]].ttl <= FailureTtlMax,
             p \in {"asking", "storing", "releasing"} =>
               (failures'[key[t]] # None =>
                  streak'[key[t]] > 0 /\ failures'[key[t]].ttl <= Ladder[streak'[key[t]]]),
             p = "failed" =>
               /\ streak'[key[t]] > 0
               /\ failures'[key[t]] # None =>
                    Smaller(2 * failures'[key[t]].ttl, FailureTtlMax) <= Ladder[streak'[key[t]]]
      PROVE  LockoutsDue'
  <2>1. key[t] \in Keys /\ inflight[key[t]] = t
    BY <1>2 DEF TypeOK, OneLeaderPerKey, Leading
  <2>2. \A u \in Tasks \ {t} : pc[u] \in Leading => key[u] \in Keys \ {key[t]}
    BY <2>1 DEF TypeOK, OneLeaderPerKey, Leading
  <2>3. \A k \in Keys : inflight'[k] = None => k \in Keys \ {key[t]} /\ inflight[k] = None
    BY <1>2, <2>1
  <2>4. \A u \in Tasks \ {t} : pc'[u] = pc[u] /\ key'[u] = key[u]
    BY <1>2 DEF TypeOK
  <2>5. pc'[t] = p /\ key'[t] = key[t]
    BY <1>2 DEF TypeOK
  <2>6. ASSUME NEW k \in Keys \ {key[t]}, Due(k)
        PROVE  failures'[k] # None => streak'[k] > 0 /\ failures'[k].ttl <= Ladder[streak'[k]]
    BY <1>2, <2>6 DEF Due
  <2>7. ASSUME NEW k \in Keys \ {key[t]}, NextIsDue(k)
        PROVE  /\ streak'[k] > 0
               /\ failures'[k] # None =>
                    Smaller(2 * failures'[k].ttl, FailureTtlMax) <= Ladder[streak'[k]]
    BY <1>2, <2>7 DEF NextIsDue
  <2>8. \A k \in Keys : failures'[k] # None => failures'[k].ttl <= FailureTtlMax
    BY <1>2 DEF LockoutsDue
  <2>9. \A k \in Keys : inflight'[k] = None =>
          (failures'[k] # None => streak'[k] > 0 /\ failures'[k].ttl <= Ladder[streak'[k]])
    BY <2>3, <2>6 DEF LockoutsDue
  <2>10. ASSUME NEW u \in Tasks \ {t}
         PROVE  /\ pc'[u] \in {"asking", "storing", "releasing"} =>
                     (failures'[key'[u]] # None =>
                        streak'[key'[u]] > 0 /\ failures'[key'[u]].ttl <= Ladder[streak'[key'[u]]])
                /\ pc'[u] = "failed" =>
                     /\ streak'[key'[u]] > 0
                     /\ failures'[key'[u]] # None =>
                          Smaller(2 * failures'[key'[u]].ttl, FailureTtlMax)
                            <= Ladder[streak'[key'[u]]]
    <3>1. CASE pc[u] \in {"asking", "storing", "releasing"}
      BY <2>2, <2>4, <2>6, <3>1 DEF LockoutsDue, Leading
    <3>2. CASE pc[u] = "failed"
      BY <2>2, <2>4, <2>7, <3>2 DEF LockoutsDue, Leading
    <3>3. QED
      BY <2>4, <3>1, <3>2
  <2>11. QED
    BY <1>2, <2>5, <2>8, <2>9, <2>10 DEF LockoutsDue, Due, NextIsDue
<1>3. ASSUME NEW c \in Clients, NEW k \in Keys,
             LookupHit(c, k) \/ LookupHitAndRefresh(c, k) \/ LookupMiss(c, k)
      PROVE  LockoutsDue'
  <2>1. UNCHANGED <<failures, streak, inflight>>
    BY <1>3 DEF LookupHit, LookupHitAndRefresh, LookupMiss
  <2>2. \A t \in Tasks : (pc'[t] = pc[t] /\ key'[t] = key[t]) \/ pc'[t] \in {"missed", "spawned"}
    BY <1>3 DEF LookupHit, LookupHitAndRefresh, LookupMiss, Spawn, Goto, taskVars, TypeOK
  <2>3. \A t \in Tasks : pc[t] \in Leading => key[t] \in Keys
    BY DEF TypeOK, Leading
  <2>4. QED
    BY <1>1, <2>1, <2>2, <2>3 DEF Leading
<1>4. ASSUME NEW t \in Tasks,
             \/ AnswerCachedFailure(t) \/ PassLockout(t) \/ Follow(t) \/ SkipRefresh(t)
             \/ Receive(t) \/ AbortFollower(t) \/ Send(t)
      PROVE  LockoutsDue'
  <2>1. UNCHANGED <<failures, streak, inflight>>
    BY <1>4 DEF AnswerCachedFailure, PassLockout, Follow, SkipRefresh, Receive, AbortFollower, Send
  <2>2. \A u \in Tasks : (pc'[u] = pc[u] /\ key'[u] = key[u])
                         \/ pc'[u] \in {"idle", "unlocked", "waiting"}
    BY <1>4 DEF AnswerCachedFailure, PassLockout, Follow, SkipRefresh, Receive, AbortFollower, Send,
                End, Goto, TypeOK
  <2>3. \A u \in Tasks : pc[u] \in Leading => key[u] \in Keys
    BY DEF TypeOK, Leading
  <2>4. QED
    BY <1>1, <2>1, <2>2, <2>3 DEF Leading
<1>5. ASSUME NEW t \in Tasks, Lead(t) \/ AbortLeader(t) \/ StoreAnswer(t) \/ Release(t)
      PROVE  LockoutsDue'
  <2>1. UNCHANGED <<failures, streak, key>> /\ key[t] \in Keys
    BY <1>5 DEF Lead, AbortLeader, StoreAnswer, Release, TypeOK
  <2>2. \A k \in Keys : inflight'[k] = None =>
          inflight[k] = None \/ (pc[t] = "releasing" /\ key[t] = k)
    BY <1>5, <2>1 DEF Lead, AbortLeader, StoreAnswer, Release, TypeOK
  <2>3. \A u \in Tasks \ {t} : pc'[u] = pc[u]
    BY <1>5 DEF Lead, AbortLeader, StoreAnswer, Release, Goto, TypeOK
  <2>4. \/ pc'[t] = "asking" /\ inflight[key[t]] = None
        \/ pc'[t] = "releasing" /\ pc[t] \in {"asking", "storing"}
        \/ pc'[t] = "sending"
    BY <1>5 DEF Lead, AbortLeader, StoreAnswer, Release, Goto, TypeOK
  <2>5. \A u \in Tasks : pc[u] \in Leading => key[u] \in Keys
    BY DEF TypeOK, Leading
  <2>6. QED
    BY <1>1, <2>1, <2>2, <2>3, <2>4, <2>5 DEF Leading
<1>6. ASSUME NEW t \in Tasks, UpstreamAnswers(t)
      PROVE  LockoutsDue'
  <2>1. key[t] \in Keys
    BY <1>6 DEF UpstreamAnswers, TypeOK
  <2>2. QED
    BY <1>2, <1>6, <2>1 DEF UpstreamAnswers, Goto, Leading, TypeOK, LockoutsDue
<1>7. ASSUME NEW t \in Tasks, ForgetFailure(t)
      PROVE  LockoutsDue'
  <2>1. key[t] \in Keys
    BY <1>7 DEF ForgetFailure, TypeOK
  <2>2. QED
    BY <1>2, <1>7, <2>1 DEF ForgetFailure, Goto, Leading, TypeOK, LockoutsDue
<1>8. ASSUME NEW t \in Tasks, UpstreamFails(t)
      PROVE  LockoutsDue'
  <2> DEFINE k == key[t]
  <2> DEFINE more == Smaller(streak[k] + 1, FailureTtlMax)
  <2>1. k \in Keys /\ streak[k] \in Nat /\ Due(k)
        /\ (failures[k] # None => failures[k].ttl \in Nat /\ failures[k].ttl <= FailureTtlMax)
    BY <1>8 DEF UpstreamFails, TypeOK, LockoutsDue, Failure
  <2>2. streak'[k] = more /\ failures' = failures
        /\ \A j \in Keys \ {k} : streak'[j] = streak[j]
    BY <1>8, <2>1 DEF UpstreamFails, TypeOK
  <2>3. more > 0
    BY <2>1 DEF Smaller
  <2>4. failures[k] # None => Smaller(2 * failures[k].ttl, FailureTtlMax) <= Ladder[more]
    BY <2>1, OneRungUp DEF Due
  <2>5. pc[t] \in Leading /\ pc' = [pc EXCEPT ![t] = "failed"] /\ UNCHANGED <<key, inflight>>
    BY <1>8 DEF UpstreamFails, Goto, Leading
  <2> HIDE DEF more
  <2>6. QED
    BY <1>2, <2>1, <2>2, <2>3, <2>4, <2>5
<1>9. ASSUME NEW t \in Tasks, RememberFailure(t)
      PROVE  LockoutsDue'
  <2> DEFINE k == key[t]
  <2>1. k \in Keys /\ streak[k] \in Nat /\ NextIsDue(k)
        /\ (failures[k] # None => failures[k].ttl \in Nat /\ failures[k].ttl <= FailureTtlMax)
    BY <1>9 DEF RememberFailure, TypeOK, LockoutsDue, Failure
  <2>2. /\ \A j \in Keys \ {k} : failures'[j] \in {failures[j], None}
        /\ \/ failures'[k] \in {failures[k], None}
           \/ failures'[k].ttl = FailureTtl
           \/ failures[k] # None /\ failures'[k].ttl = Smaller(2 * failures[k].ttl, FailureTtlMax)
    BY <1>9, <2>1, RecordEffect DEF RememberFailure, TypeOK
  <2>3. UNCHANGED <<streak, key, inflight>> /\ pc[t] \in Leading
        /\ pc' = [pc EXCEPT ![t] = "releasing"]
    BY <1>9 DEF RememberFailure, Goto, Leading
  <2>4. Ladder[streak[k]] \in Nat /\ FailureTtl <= Ladder[streak[k]] /\ streak[k] > 0
    BY <2>1, FirstRung, LadderGoesUp DEF NextIsDue
  <2>5. failures'[k] # None =>
          failures'[k].ttl <= FailureTtlMax /\ failures'[k].ttl <= Ladder[streak[k]]
    BY <2>1, <2>2, <2>4 DEF NextIsDue, Smaller
  <2>6. QED
    BY <1>2, <2>2, <2>3, <2>4, <2>5
<1>10. CASE \/ (Tick /\ UNCHANGED <<cacheVars, failures, inflight, taskVars, streak>>)
             \/ UNCHANGED vars
  <2>1. UNCHANGED <<failures, streak, inflight, pc, key>>
    BY <1>10 DEF vars, taskVars
  <2>2. \A u \in Tasks : pc[u] \in Leading => key[u] \in Keys
    BY DEF TypeOK, Leading
  <2>3. QED
    BY <1>1, <2>1, <2>2 DEF Leading
<1>11. QED
  BY <1>3, <1>4, <1>5, <1>6, <1>7, <1>8, <1>9, <1>10 DEF Next, Proceeds, Resolves

(***************************************************************************)
(* For any number of tasks and keys, any ladder and any size of the        *)
(* memory: no lockout outlives a success, and none is longer than the      *)
(* failures in a row since then justify.                                   *)
(***************************************************************************)
THEOREM LockoutsEarned == Spec => []LockoutIsEarned
<1>1. Init => LockoutsDue
  BY DEF Init, LockoutsDue, Due, NextIsDue
<1>2. TypeOK /\ OneLeaderPerKey /\ LockoutsDue /\ [Next]_vars => LockoutsDue'
  BY NextKeepsLockouts
<1>3. LockoutsDue => LockoutIsEarned
  BY DEF LockoutsDue, Due, LockoutIsEarned
<1>4. QED
  BY <1>1, <1>2, <1>3, TypeCorrect, Deduplication, PTL DEF Spec

-----------------------------------------------------------------------------
(***************************************************************************)
(* The order of answers in Caching: the cache never goes back to an older  *)
(* answer, and nobody is served an older answer than was shared before.    *)
(*                                                                         *)
(* Neither property is inductive.  An answer is safe to remember as "seen" *)
(* when no leader that is still to store one for the same key got it       *)
(* earlier: that is Known, and AnswersInOrder says it of everything the    *)
(* cache, the leaders and the followers' channels hold.  It is kept        *)
(* because a leader's answer is dated at the present, and because a key    *)
(* has one leader, which cannot be overtaken by another one.               *)
(***************************************************************************)

ToStore == {"answered", "storing"}
Holding == ToStore \cup {"releasing", "sending"}

Known(k, a) ==
  /\ a.at <= now
  /\ \A t \in Tasks : pc[t] \in ToStore /\ key[t] = k => a.at <= result[t].at

AnswersInOrder ==
  /\ \A k \in Keys : entries[k] # None => Known(k, entries[k].answer)
  /\ \A t \in Tasks :
       pc[t] \in Holding /\ result[t] # None => Known(key[t], result[t])
  /\ \A f \in Tasks :
       pc[f] = "waiting" /\ inbox[f] \in Answer => Known(key[f], inbox[f])

Invariants ==
  /\ TypeOK
  /\ OneLeaderPerKey
  /\ LocalsFit
  /\ FollowersWillBeTold
  /\ AnswersInOrder

-----------------------------------------------------------------------------
(* Storing an answer disturbs no other entry, except that it may evict one. *)
LEMMA StoreEffect ==
  ASSUME CacheTypeOK, NEW k \in Keys, NEW a \in Answer, Store(k, a)
  PROVE  /\ \A j \in Keys : \/ entries'[j] \in {entries[j], None}
                            \/ j = k /\ entries'[j].answer = a
         /\ Cacheable(a) => entries'[k].answer = a
<1>1. CASE CacheableTtl(CacheConfig, a.response) = NoTtl
  BY <1>1 DEF Store, cacheVars, Cacheable
<1>2. CASE CacheableTtl(CacheConfig, a.response) # NoTtl
  <2> DEFINE e == [answer |-> a, storedAt |-> now,
                   ttl |-> CacheableTtl(CacheConfig, a.response)]
  <2>1. Put(k, e)
    BY <1>2 DEF Store
  <2>2. e.answer = a
    OBVIOUS
  <2> HIDE DEF e
  <2>3. entries'[k] = e /\ \A j \in Keys \ {k} : entries'[j] \in {entries[j], None}
    BY <2>1 DEF Put, CacheTypeOK
  <2>4. QED BY <2>2, <2>3
<1>3. QED BY <1>1, <1>2

(* An entry changes only by being dropped or by the store of a leader.     *)
LEMMA EntriesChange ==
  ASSUME TypeOK, [Next]_vars
  PROVE  \A k \in Keys :
           \/ entries'[k] \in {entries[k], None}
           \/ \E t \in Tasks : /\ StoreAnswer(t) /\ key[t] = k
                               /\ entries'[k].answer = result[t]
<1>1. CASE UNCHANGED entries
  BY <1>1
<1>2. ASSUME NEW c \in Clients, NEW k \in Keys,
             LookupHit(c, k) \/ LookupHitAndRefresh(c, k) \/ LookupMiss(c, k)
      PROVE  \A j \in Keys : entries'[j] \in {entries[j], None}
  <2>1. CASE LookupHit(c, k) \/ LookupHitAndRefresh(c, k)
    BY <2>1 DEF LookupHit, LookupHitAndRefresh, GetHit
  <2>2. CASE LookupMiss(c, k)
    BY <2>2 DEF LookupMiss, GetMiss, TypeOK, CacheTypeOK
  <2>3. QED BY <1>2, <2>1, <2>2
<1>3. ASSUME NEW t \in Tasks, StoreAnswer(t)
      PROVE  \A j \in Keys : \/ entries'[j] \in {entries[j], None}
                             \/ key[t] = j /\ entries'[j].answer = result[t]
  <2>1. key[t] \in Keys /\ result[t] \in Answer /\ Store(key[t], result[t])
    BY <1>3 DEF StoreAnswer, TypeOK
  <2>2. QED BY <2>1, StoreEffect DEF TypeOK
<1>4. ASSUME NEW t \in Tasks, AbortLeader(t) \/ AbortFollower(t) \/ Proceeds(t) \/ Resolves(t),
             ~StoreAnswer(t)
      PROVE  UNCHANGED entries
  BY <1>4
     DEF Proceeds, Resolves, cacheVars, AnswerCachedFailure, PassLockout, Lead, Follow,
         SkipRefresh, UpstreamAnswers, UpstreamFails, AbortLeader, ForgetFailure,
         RememberFailure, Release, Send, Receive, AbortFollower
<1>5. QED
  BY <1>1, <1>2, <1>3, <1>4 DEF Next, vars, cacheVars

(* How a step may change what leaders hold: they keep it, lose it, or get   *)
(* it from the upstream now.                                               *)
ResultsStep ==
  /\ now \in Nat /\ now' \in Nat /\ now <= now'
  /\ \A t \in Tasks : pc'[t] \in Holding /\ result'[t] # None =>
       /\ key'[t] = key[t]
       /\ \/ /\ pc[t] \in Holding
             /\ result'[t] = result[t]
             /\ pc'[t] \in ToStore => pc[t] \in ToStore
             /\ pc[t] \in ToStore => pc'[t] \in ToStore \/ StoreAnswer(t)
          \/ /\ pc[t] = "asking" /\ pc'[t] = "answered"
             /\ result'[t].at = now /\ now' = now

(* A leader comes to hold an answer only by getting one from the upstream. *)
LEMMA ResultsChange ==
  ASSUME TypeOK, LocalsFit, [Next]_vars
  PROVE  ResultsStep
<1> USE DEF Holding, ToStore, ResultsStep
<1>0. now \in Nat
  BY DEF TypeOK, CacheTypeOK
<1>1. CASE UNCHANGED <<now, pc, key, result>>
  BY <1>0, <1>1
<1>2. CASE Tick /\ UNCHANGED <<cacheVars, failures, inflight, taskVars, streak>>
  BY <1>0, <1>2 DEF Tick, taskVars
<1>3. ASSUME NEW t \in Tasks, End(t), UNCHANGED now
      PROVE  ResultsStep
  BY <1>0, <1>3 DEF End, TypeOK
<1>4. ASSUME NEW t \in Tasks, NEW p \in Places \ Holding, Goto(t, p),
             NEW k \in Keys, key' = key \/ key' = [key EXCEPT ![t] = k],
             UNCHANGED <<now, result>>
      PROVE  ResultsStep
  BY <1>0, <1>4 DEF Goto, TypeOK
<1>5. ASSUME NEW c \in Clients, NEW k \in Keys,
             LookupHit(c, k) \/ LookupHitAndRefresh(c, k) \/ LookupMiss(c, k)
      PROVE  ResultsStep
  <2>1. CASE LookupHit(c, k)
    BY <1>1, <2>1 DEF LookupHit, taskVars
  <2>2. CASE LookupHitAndRefresh(c, k)
    BY <1>4, <2>2 DEF LookupHitAndRefresh, Spawn, Tasks, Places
  <2>3. CASE LookupMiss(c, k)
    BY <1>4, <2>3 DEF LookupMiss, Tasks, Places
  <2>4. QED BY <1>5, <2>1, <2>2, <2>3
<1>6. ASSUME NEW t \in Tasks, Proceeds(t) \/ Resolves(t) \/ AbortLeader(t) \/ AbortFollower(t)
      PROVE  ResultsStep
  <2>1. CASE AnswerCachedFailure(t) \/ SkipRefresh(t) \/ Receive(t) \/ AbortFollower(t)
    BY <1>3, <2>1 DEF AnswerCachedFailure, SkipRefresh, Receive, AbortFollower
  <2>2. CASE PassLockout(t) \/ Lead(t) \/ Follow(t) \/ UpstreamFails(t)
    <3>1. key[t] \in Keys
      BY <2>2 DEF PassLockout, Lead, Follow, UpstreamFails, TypeOK
    <3>2. QED
      BY <1>4, <2>2, <3>1 DEF PassLockout, Lead, Follow, UpstreamFails, Places
  <2>3. CASE UpstreamAnswers(t)
    BY <1>0, <2>3 DEF UpstreamAnswers, Goto, TypeOK
  <2>4. CASE AbortLeader(t) \/ RememberFailure(t)
    BY <1>0, <2>4 DEF AbortLeader, RememberFailure, Goto, TypeOK, LocalsFit
  <2>5. CASE ForgetFailure(t) \/ Release(t)
    BY <1>0, <2>5 DEF ForgetFailure, Release, Goto, TypeOK
  <2>6. CASE StoreAnswer(t)
    <3>1. /\ pc[t] = "storing" /\ pc' = [pc EXCEPT ![t] = "releasing"]
          /\ UNCHANGED <<now, key, result>>
      BY <2>6 DEF StoreAnswer, Goto
    <3>2. QED BY <1>0, <2>6, <3>1 DEF TypeOK
  <2>7. CASE Send(t)
    BY <1>0, <2>7 DEF Send, TypeOK
  <2>8. QED
    BY <1>6, <2>1, <2>2, <2>3, <2>4, <2>5, <2>6, <2>7 DEF Proceeds, Resolves
<1>7. QED
  BY <1>1, <1>2, <1>5, <1>6 DEF Next, vars

(* Known, of the state after the step. *)
KnownNext(k, a) ==
  /\ a.at <= now'
  /\ \A t \in Tasks : pc'[t] \in ToStore /\ key'[t] = k => a.at <= result'[t].at

(* What was known stays known: whoever is to store an answer either was    *)
(* already, or has just got it.                                            *)
LEMMA KnownKept ==
  ASSUME TypeOK, TypeOK', ResultsStep, NEW k, NEW a \in Answer, Known(k, a)
  PROVE  KnownNext(k, a)
<1>1. a.at \in Nat /\ a.at <= now
  BY DEF Answer, Known
<1>2. ASSUME NEW t \in Tasks, pc'[t] \in ToStore, key'[t] = k
      PROVE  a.at <= result'[t].at
  <2>1. result'[t] \in Answer
    BY <1>2 DEF TypeOK, ToStore
  <2>2. CASE result'[t].at = now
    BY <1>1, <2>2
  <2>3. CASE pc[t] \in ToStore /\ key[t] = k /\ result'[t] = result[t]
    BY <2>3 DEF Known
  <2>4. QED
    BY <1>2, <2>1, <2>2, <2>3 DEF ResultsStep, Holding, ToStore
<1>3. QED
  BY <1>1, <1>2 DEF KnownNext, ResultsStep

(* What a channel holds was sent by a leader of the same key. *)
InboxesStep ==
  \A f \in Tasks : pc'[f] = "waiting" /\ inbox'[f] \in Answer =>
    \/ pc[f] = "waiting" /\ inbox'[f] = inbox[f] /\ key'[f] = key[f]
    \/ \E t \in Tasks : /\ pc[t] = "sending" /\ inbox'[f] = result[t]
                        /\ key'[f] = key[t]

(* Channels are only filled by a leader's send. *)
LEMMA InboxesChange ==
  ASSUME TypeOK, LocalsFit, FollowersWillBeTold, [Next]_vars
  PROVE  InboxesStep
<1>1. CASE UNCHANGED <<pc, key, inbox>>
  BY <1>1 DEF InboxesStep
<1>2. ASSUME NEW t \in Tasks, End(t)
      PROVE  InboxesStep
  BY <1>2 DEF End, TypeOK, InboxesStep
<1>3. ASSUME NEW t \in Tasks, NEW p \in Places, Goto(t, p), pc[t] # "waiting",
             key' = key \/ (p # "waiting" /\ \E k \in Keys : key' = [key EXCEPT ![t] = k]),
             UNCHANGED inbox
      PROVE  InboxesStep
  <2> SUFFICES ASSUME NEW f \in Tasks, pc'[f] = "waiting", inbox'[f] \in Answer
               PROVE  pc[f] = "waiting" /\ inbox'[f] = inbox[f] /\ key'[f] = key[f]
    BY DEF InboxesStep
  <2>1. CASE f = t
    <3>1. inbox[f] = Empty
      BY <1>3, <2>1 DEF LocalsFit
    <3>2. QED BY <1>3, <3>1
  <2>2. CASE f # t
    BY <1>3, <2>2 DEF Goto, TypeOK
  <2>3. QED BY <2>1, <2>2
<1>4. ASSUME NEW c \in Clients, NEW k \in Keys,
             LookupHit(c, k) \/ LookupHitAndRefresh(c, k) \/ LookupMiss(c, k)
      PROVE  InboxesStep
  <2>1. CASE LookupHit(c, k)
    BY <1>1, <2>1 DEF LookupHit, taskVars
  <2>2. CASE LookupHitAndRefresh(c, k)
    BY <1>3, <2>2 DEF LookupHitAndRefresh, Spawn, Tasks, Places
  <2>3. CASE LookupMiss(c, k)
    BY <1>3, <2>3 DEF LookupMiss, Tasks, Places
  <2>4. QED BY <1>4, <2>1, <2>2, <2>3
<1>5. ASSUME NEW t \in Tasks, Proceeds(t) \/ Resolves(t) \/ AbortLeader(t) \/ AbortFollower(t)
      PROVE  InboxesStep
  <2>1. CASE AnswerCachedFailure(t) \/ SkipRefresh(t) \/ Receive(t) \/ AbortFollower(t)
    BY <1>2, <2>1 DEF AnswerCachedFailure, SkipRefresh, Receive, AbortFollower
  <2>2. CASE \/ PassLockout(t) \/ Lead(t) \/ Follow(t) \/ UpstreamAnswers(t)
             \/ UpstreamFails(t) \/ AbortLeader(t) \/ ForgetFailure(t)
             \/ StoreAnswer(t) \/ RememberFailure(t) \/ Release(t)
    BY <1>3, <2>2
       DEF PassLockout, Lead, Follow, UpstreamAnswers, UpstreamFails, AbortLeader,
           ForgetFailure, StoreAnswer, RememberFailure, Release, Places
  <2>3. CASE Send(t)
    <3> SUFFICES ASSUME NEW f \in Tasks, pc'[f] = "waiting", inbox'[f] \in Answer
                 PROVE  \/ pc[f] = "waiting" /\ inbox'[f] = inbox[f] /\ key'[f] = key[f]
                        \/ inbox'[f] = result[t] /\ key'[f] = key[t]
      BY <2>3 DEF InboxesStep, Send
    <3>1. f # t /\ pc[f] = "waiting" /\ key'[f] = key[f]
      BY <2>3 DEF Send, TypeOK
    <3>2. CASE leader[f] = t
      <4>1. inbox[f] = Empty
        BY <3>1, <3>2 DEF LocalsFit
      <4>2. key[f] = key[t]
        BY <3>1, <3>2, <4>1 DEF FollowersWillBeTold
      <4>3. QED BY <2>3, <3>1, <3>2, <4>2 DEF Send
    <3>3. CASE leader[f] # t
      BY <2>3, <3>1, <3>3 DEF Send
    <3>4. QED BY <3>2, <3>3
  <2>4. QED BY <1>5, <2>1, <2>2, <2>3 DEF Proceeds, Resolves
<1>6. QED
  BY <1>1, <1>4, <1>5 DEF Next, vars, taskVars

-----------------------------------------------------------------------------
(* The order of answers survives every step. *)
LEMMA NextKeepsOrder ==
  ASSUME Invariants, TypeOK', [Next]_vars
  PROVE  AnswersInOrder'
<1> USE DEF Invariants
<1>1. ResultsStep
  BY ResultsChange
<1>2. ASSUME NEW k \in Keys, entries'[k] # None
      PROVE  KnownNext(k, entries'[k].answer)
  <2>1. CASE entries'[k] = entries[k]
    <3>1. entries[k].answer \in Answer /\ Known(k, entries[k].answer)
      BY <1>2, <2>1 DEF TypeOK, CacheTypeOK, Entry, AnswersInOrder
    <3>2. QED BY <1>1, <2>1, <3>1, KnownKept
  <2>2. ASSUME NEW t \in Tasks, StoreAnswer(t), key[t] = k,
               entries'[k].answer = result[t]
        PROVE  KnownNext(k, entries'[k].answer)
    <3>1. result[t] \in Answer /\ pc[t] = "storing"
      BY <2>2 DEF StoreAnswer, TypeOK
    <3>2. Known(k, result[t])
      BY <2>2, <3>1 DEF AnswersInOrder, Holding, ToStore
    <3>3. QED BY <1>1, <2>2, <3>1, <3>2, KnownKept
  <2>3. QED BY <1>2, <2>1, <2>2, EntriesChange
<1>3. ASSUME NEW t \in Tasks, pc'[t] \in Holding, result'[t] # None
      PROVE  KnownNext(key'[t], result'[t])
  <2>1. result'[t] \in Answer /\ key'[t] = key[t]
    BY <1>1, <1>3 DEF TypeOK, ResultsStep
  <2>2. CASE pc[t] \in Holding /\ result'[t] = result[t]
    <3>1. Known(key[t], result[t])
      BY <1>3, <2>2 DEF AnswersInOrder
    <3>2. QED BY <1>1, <2>1, <2>2, <3>1, KnownKept
  <2>3. CASE pc[t] = "asking" /\ result'[t].at = now /\ now' = now
    <3>1. ASSUME NEW u \in Tasks, pc'[u] \in ToStore, key'[u] = key[t]
          PROVE  result'[t].at <= result'[u].at
      <4>1. result'[u] # None /\ pc'[u] \in Holding
        BY <3>1 DEF TypeOK, ToStore, Holding
      <4>2. CASE pc[u] \in ToStore
        <5>1. u = t
          BY <1>1, <2>3, <3>1, <4>1, <4>2
             DEF ResultsStep, OneLeaderPerKey, Leading, ToStore
        <5>2. QED BY <2>3, <4>2, <5>1 DEF ToStore
      <4>3. CASE result'[u].at = now
        BY <1>1, <2>3, <4>3 DEF ResultsStep
      <4>4. QED BY <1>1, <3>1, <4>1, <4>2, <4>3 DEF ResultsStep
    <3>2. QED BY <1>1, <2>1, <2>3, <3>1 DEF KnownNext, ResultsStep
  <2>4. QED BY <1>1, <1>3, <2>2, <2>3 DEF ResultsStep
<1>4. ASSUME NEW f \in Tasks, pc'[f] = "waiting", inbox'[f] \in Answer
      PROVE  KnownNext(key'[f], inbox'[f])
  <2>1. CASE pc[f] = "waiting" /\ inbox'[f] = inbox[f] /\ key'[f] = key[f]
    <3>1. Known(key[f], inbox[f])
      BY <1>4, <2>1 DEF AnswersInOrder
    <3>2. QED BY <1>1, <1>4, <2>1, <3>1, KnownKept
  <2>2. ASSUME NEW t \in Tasks, pc[t] = "sending", inbox'[f] = result[t],
               key'[f] = key[t]
        PROVE  KnownNext(key'[f], inbox'[f])
    <3>1. Known(key[t], result[t])
      BY <1>4, <2>2 DEF AnswersInOrder, Holding
    <3>2. QED BY <1>1, <1>4, <2>2, <3>1, KnownKept
  <2>3. QED BY <1>4, <2>1, <2>2, InboxesChange DEF InboxesStep
<1>5. QED BY <1>2, <1>3, <1>4 DEF AnswersInOrder, Known, KnownNext

(* The inductive invariant of the caching backend. *)
LEMMA InvariantsHold == Spec => []Invariants
<1>1. Init => Invariants
  <2>1. Init => TypeOK
    BY DEF Init, CacheInit, TypeOK, CacheTypeOK, Places
  <2>2. Init => OneLeaderPerKey /\ LocalsFit /\ FollowersWillBeTold
    BY DEF Init, OneLeaderPerKey, LocalsFit, FollowersWillBeTold, Leading
  <2>3. Init => AnswersInOrder
    BY DEF Init, CacheInit, AnswersInOrder, Holding, ToStore
  <2>4. QED BY <2>1, <2>2, <2>3 DEF Invariants
<1>2. Invariants /\ [Next]_vars => Invariants'
  BY NextType, NextKeepsLeaders, NextKeepsLocals, NextKeepsFollowers, NextKeepsOrder
     DEF Invariants
<1>3. QED BY <1>1, <1>2, PTL DEF Spec

(***************************************************************************)
(* The cache never goes back: whoever resolves, refreshes, fails or is     *)
(* aborted, an entry is only ever replaced by an answer the upstream gave  *)
(* at the same time or later.                                              *)
(***************************************************************************)
THEOREM NeverGoesBack == Spec => CacheNeverGoesBack
<1> DEFINE Forward ==
      \A k \in Keys : entries[k] # None /\ entries'[k] # None
        => entries'[k].answer.at >= entries[k].answer.at
<1>1. ASSUME Invariants, [Next]_vars
      PROVE  Forward
  <2> USE DEF Invariants
  <2> SUFFICES ASSUME NEW k \in Keys, entries[k] # None, entries'[k] # None
               PROVE  entries'[k].answer.at >= entries[k].answer.at
    OBVIOUS
  <2>1. entries[k].answer \in Answer
    BY <1>1 DEF TypeOK, CacheTypeOK, Entry
  <2>2. CASE entries'[k] = entries[k]
    BY <2>1, <2>2 DEF Answer
  <2>3. ASSUME NEW t \in Tasks, StoreAnswer(t), key[t] = k,
               entries'[k].answer = result[t]
        PROVE  entries'[k].answer.at >= entries[k].answer.at
    <3>1. pc[t] = "storing" /\ result[t] \in Answer
      BY <1>1, <2>3 DEF StoreAnswer, TypeOK
    <3>2. Known(k, entries[k].answer)
      BY <1>1 DEF AnswersInOrder
    <3>3. entries[k].answer.at <= result[t].at
      BY <2>3, <3>1, <3>2 DEF Known, ToStore
    <3>4. QED BY <2>1, <2>3, <3>1, <3>3 DEF Answer
  <2>4. QED BY <1>1, <2>2, <2>3, EntriesChange
<1>2. Invariants /\ [Next]_vars => [Forward]_vars
  BY <1>1
<1>3. QED BY <1>2, InvariantsHold, PTL DEF Spec, CacheNeverGoesBack

-----------------------------------------------------------------------------
(* NotNewerThanCached, of the state after the step. *)
NotNewerNext(k, a) ==
  a \in Answer /\ Cacheable(a) /\ entries'[k] # None
    => entries'[k].answer.at >= a.at

(* An answer that is not newer than its cached entry stays so, as long as  *)
(* no leader is to store an older one.                                     *)
LEMMA StaysCached ==
  ASSUME Invariants, [Next]_vars, NEW k \in Keys, NEW a,
         a \in Answer => Known(k, a), NotNewerThanCached(k, a)
  PROVE  NotNewerNext(k, a)
<1> USE DEF Invariants
<1> SUFFICES ASSUME a \in Answer, Cacheable(a), entries'[k] # None
             PROVE  entries'[k].answer.at >= a.at
  BY DEF NotNewerNext
<1>1. CASE entries'[k] = entries[k]
  BY <1>1 DEF NotNewerThanCached
<1>2. ASSUME NEW t \in Tasks, StoreAnswer(t), key[t] = k,
             entries'[k].answer = result[t]
      PROVE  entries'[k].answer.at >= a.at
  <2>1. pc[t] = "storing" /\ result[t] \in Answer
    BY <1>2 DEF StoreAnswer, TypeOK
  <2>2. a.at <= result[t].at
    BY <1>2, <2>1 DEF Known, ToStore
  <2>3. QED BY <1>2, <2>1, <2>2 DEF Answer
<1>3. QED BY <1>1, <1>2, EntriesChange

(* The step relation keeps shared answers no newer than the cache. *)
LEMMA NextKeepsShared ==
  ASSUME Invariants, TypeOK', SharedAnswersAreCached, [Next]_vars
  PROVE  SharedAnswersAreCached'
<1> USE DEF Invariants
<1>1. ResultsStep
  BY ResultsChange
<1>2. InboxesStep
  BY InboxesChange
<1>3. ASSUME NEW t \in Tasks, pc[t] \in {"releasing", "sending"},
             key[t] \in Keys
      PROVE  /\ NotNewerThanCached(key[t], result[t])
             /\ result[t] \in Answer => Known(key[t], result[t])
  BY <1>3 DEF SharedAnswersAreCached, AnswersInOrder, Holding, ToStore
<1>4. ASSUME NEW t \in Tasks, pc'[t] \in {"releasing", "sending"}
      PROVE  NotNewerNext(key'[t], result'[t])
  <2>1. key'[t] \in Keys
    BY <1>4 DEF TypeOK
  <2>2. CASE result'[t] = None
    BY <2>2 DEF NotNewerNext
  <2>3. CASE result'[t] # None
    <3>1. key'[t] = key[t] /\ result'[t] = result[t]
      BY <1>1, <1>4, <2>3 DEF ResultsStep, Holding, ToStore
    <3>2. pc[t] \in {"releasing", "sending"} \/ StoreAnswer(t)
      BY <1>1, <1>4, <2>3 DEF ResultsStep, Holding, ToStore
    <3>3. CASE pc[t] \in {"releasing", "sending"}
      BY <1>3, <2>1, <3>1, <3>3, StaysCached
    <3>4. CASE StoreAnswer(t)
      <4>1. result[t] \in Answer /\ Store(key[t], result[t])
        BY <3>4 DEF StoreAnswer, TypeOK
      <4>2. Cacheable(result[t]) => entries'[key[t]].answer = result[t]
        BY <2>1, <3>1, <4>1, StoreEffect DEF TypeOK
      <4>3. QED BY <3>1, <4>1, <4>2 DEF NotNewerNext, Answer
    <3>5. QED BY <3>2, <3>3, <3>4
  <2>4. QED BY <2>2, <2>3
<1>5. ASSUME NEW f \in Tasks, pc'[f] = "waiting"
      PROVE  NotNewerNext(key'[f], inbox'[f])
  <2>1. key'[f] \in Keys
    BY <1>5 DEF TypeOK
  <2>2. CASE inbox'[f] \notin Answer
    BY <2>2 DEF NotNewerNext
  <2>3. CASE inbox'[f] \in Answer
    <3>1. CASE pc[f] = "waiting" /\ inbox'[f] = inbox[f] /\ key'[f] = key[f]
      <4>1. NotNewerThanCached(key[f], inbox[f]) /\ Known(key[f], inbox[f])
        BY <2>3, <3>1 DEF SharedAnswersAreCached, AnswersInOrder
      <4>2. QED BY <2>1, <3>1, <4>1, StaysCached
    <3>2. ASSUME NEW t \in Tasks, pc[t] = "sending", inbox'[f] = result[t],
                 key'[f] = key[t]
          PROVE  NotNewerNext(key'[f], inbox'[f])
      BY <1>3, <2>1, <3>2, StaysCached
    <3>3. QED BY <1>2, <1>5, <2>3, <3>1, <3>2 DEF InboxesStep
  <2>4. QED BY <2>2, <2>3
<1>6. QED
  BY <1>4, <1>5
     DEF SharedAnswersAreCached, NotNewerThanCached, NotNewerNext, Cacheable

(***************************************************************************)
(* Monotonic reads: what a leader is about to share, and what a follower   *)
(* was handed, is never newer than what the cache serves for its key; so   *)
(* nobody who asks after an answer was shared gets an older one.           *)
(***************************************************************************)
THEOREM MonotonicReads == Spec => []SharedAnswersAreCached
<1>1. Init => SharedAnswersAreCached
  BY DEF Init, SharedAnswersAreCached
<1>2. Invariants /\ Invariants' /\ SharedAnswersAreCached /\ [Next]_vars
        => SharedAnswersAreCached'
  BY NextKeepsShared DEF Invariants
<1>3. QED BY <1>1, <1>2, InvariantsHold, PTL DEF Spec

-----------------------------------------------------------------------------
(***************************************************************************)
(* caching.rs implements SingleFlight: every step of Caching is a step of  *)
(* the abstract deduplication or changes nothing of it, for any number of  *)
(* tasks and keys.  The moment of settling is the release of the key; the  *)
(* send that follows changes nothing abstractly, for by then no task can   *)
(* join that leader any more, and FollowersWillBeTold says that those who  *)
(* joined are still subscribed to it.                                      *)
(***************************************************************************)

Hosts == [t \in Tasks |-> IF pc[t] = "waiting" THEN key[t] ELSE Empty]
Boxes == [t \in Tasks |-> HandedOut(t)]

(* Followers and what they were handed are left alone. *)
Unseen == Hosts' = Hosts /\ Boxes' = Boxes

(* Nothing is seen of a step that moves no task and touches no channel. *)
LEMMA QuietStep ==
  ASSUME UNCHANGED <<pc, key, result, leader, inbox>>
  PROVE  Unseen
BY DEF Unseen, Hosts, Boxes, HandedOut

(* Nothing is seen of one task's step between places without a channel.    *)
LEMMA QuietMove ==
  ASSUME Invariants, NEW t \in Tasks, NEW p \in Places \ {"waiting", "sending"},
         Goto(t, p), pc[t] \notin {"waiting", "sending"},
         UNCHANGED <<leader, inbox>>,
         \A u \in Tasks \ {t} : key'[u] = key[u] /\ result'[u] = result[u]
  PROVE  Unseen
<1> USE DEF Invariants
<1>1. \A f \in Tasks : (pc'[f] = "waiting") = (pc[f] = "waiting")
  BY DEF Goto, TypeOK
<1>2. \A f \in Tasks : pc[f] = "waiting" => key'[f] = key[f]
  OBVIOUS
<1>3. ASSUME NEW f \in Tasks, pc[f] = "waiting"
      PROVE  HandedOut(f)' = HandedOut(f)
  <2>1. CASE inbox[f] # Empty
    BY <1>1, <1>3, <2>1 DEF HandedOut
  <2>2. CASE inbox[f] = Empty
    <3>1. leader[f] \in Tasks
      BY <1>3, <2>2 DEF FollowersWillBeTold
    <3>2. CASE leader[f] = t
      <4>1. pc'[t] # "sending" /\ pc[t] # "sending"
        BY DEF Goto, TypeOK
      <4>2. QED BY <1>1, <1>3, <3>2, <4>1 DEF HandedOut
    <3>3. CASE leader[f] # t
      <4>1. pc'[leader[f]] = pc[leader[f]] /\ result'[leader[f]] = result[leader[f]]
        BY <3>1, <3>3 DEF Goto, TypeOK
      <4>2. QED BY <1>1, <1>3, <4>1 DEF HandedOut
    <3>4. QED BY <3>2, <3>3
  <2>3. QED BY <2>1, <2>2
<1>4. \A f \in Tasks : HandedOut(f)' = HandedOut(f)
  BY <1>1, <1>3 DEF HandedOut
<1>5. QED BY <1>1, <1>2, <1>4 DEF Unseen, Hosts, Boxes

(* When a task ends that leads nobody, its own place among the followers   *)
(* is all that is given up.                                                *)
LEMMA EndLeaves ==
  ASSUME Invariants, NEW t \in Tasks, End(t),
         pc[t] \notin Leading \cup {"sending"}
  PROVE  /\ Hosts' = [Hosts EXCEPT ![t] = Empty]
         /\ Boxes' = [Boxes EXCEPT ![t] = Empty]
<1> USE DEF Invariants
<1>1. \A f \in Tasks \ {t} : /\ pc'[f] = pc[f] /\ key'[f] = key[f]
                             /\ result'[f] = result[f] /\ inbox'[f] = inbox[f]
                             /\ leader'[f] = leader[f]
  BY DEF End, TypeOK
<1>2. pc'[t] = "idle"
  BY DEF End, TypeOK
<1>3. ASSUME NEW f \in Tasks \ {t}
      PROVE  HandedOut(f)' = HandedOut(f)
  <2>1. CASE pc[f] = "waiting" /\ inbox[f] = Empty
    <3>1. leader[f] \in Tasks /\ leader[f] # t
      BY <2>1 DEF FollowersWillBeTold
    <3>2. QED BY <1>1, <2>1, <3>1 DEF HandedOut
  <2>2. CASE ~(pc[f] = "waiting" /\ inbox[f] = Empty)
    BY <1>1, <2>2 DEF HandedOut
  <2>3. QED BY <2>1, <2>2
<1>4. HandedOut(t)' = Empty
  BY <1>2 DEF HandedOut
<1>5. QED BY <1>1, <1>2, <1>3, <1>4 DEF Hosts, Boxes

-----------------------------------------------------------------------------
(* Claiming a free key is owning it. *)
LEMMA LeadOwns ==
  ASSUME Invariants, NEW t \in Tasks, Lead(t)
  PROVE  \E k \in Keys : Flight!Own(t, k)
<1> USE DEF Invariants
<1>1. key[t] \in Keys
  BY DEF Lead, TypeOK
<1>2. Unseen
  BY QuietMove DEF Lead, Places
<1>3. \A k \in Keys : inflight[k] # t
  BY DEF Lead, OneLeaderPerKey, Leading
<1>4. Hosts[t] = Empty
  BY DEF Lead, Hosts
<1>5. Flight!Own(t, key[t])
  BY <1>2, <1>3, <1>4 DEF Lead, Flight!Own, Flight!Busy, Unseen, Hosts, Boxes
<1>6. QED BY <1>1, <1>5

(* Subscribing to the leader in the table is joining the owner. *)
LEMMA FollowJoins ==
  ASSUME Invariants, NEW t \in Tasks, Follow(t)
  PROVE  \E k \in Keys : Flight!Join(t, k)
<1> USE DEF Invariants
<1>1. key[t] \in Keys
  BY DEF Follow, TypeOK
<1>2. /\ inflight[key[t]] \in Tasks
      /\ pc[inflight[key[t]]] \in Leading
  BY <1>1 DEF Follow, OneLeaderPerKey, TypeOK
<1>3. Hosts' = [Hosts EXCEPT ![t] = key[t]]
  BY DEF Follow, Goto, Hosts, TypeOK
<1>4. ASSUME NEW f \in Tasks
      PROVE  HandedOut(f)' = HandedOut(f)
  <2>1. CASE f = t
    <3>1. inbox[t] = Empty /\ HandedOut(t) = Empty
      BY DEF Follow, LocalsFit, HandedOut
    <3>2. pc'[inflight[key[t]]] # "sending"
      BY <1>2 DEF Follow, Goto, TypeOK, Leading
    <3>3. QED BY <2>1, <3>1, <3>2 DEF Follow, Goto, HandedOut, TypeOK
  <2>2. CASE f # t /\ pc[f] = "waiting" /\ inbox[f] = Empty
    <3>1. leader[f] \in Tasks /\ leader[f] # t
      BY <2>2 DEF FollowersWillBeTold, Follow, Leading
    <3>2. QED BY <2>2, <3>1 DEF Follow, Goto, HandedOut, TypeOK
  <2>3. CASE f # t /\ ~(pc[f] = "waiting" /\ inbox[f] = Empty)
    BY <2>3 DEF Follow, Goto, HandedOut, TypeOK
  <2>4. QED BY <2>1, <2>2, <2>3
<1>5. Boxes' = Boxes
  BY <1>4 DEF Boxes
<1>6. Hosts[t] = Empty /\ \A k \in Keys : inflight[k] # t
  BY DEF Follow, Hosts, OneLeaderPerKey, Leading
<1>7. Flight!Join(t, key[t])
  BY <1>3, <1>5, <1>6 DEF Follow, Flight!Join, Flight!Busy, Hosts, Boxes
<1>8. QED BY <1>1, <1>7

(* Releasing the key settles it: all who joined have the leader's result. *)
LEMMA ReleaseSettles ==
  ASSUME Invariants, NEW t \in Tasks, Release(t)
  PROVE  \E k \in Keys, o \in Answer \cup {None} : Flight!Settle(k, o)
<1> USE DEF Invariants
<1>1. key[t] \in Keys /\ inflight[key[t]] = t /\ result[t] \in Answer \cup {None}
  BY DEF Release, TypeOK, OneLeaderPerKey, Leading
<1>2. pc' = [pc EXCEPT ![t] = "sending"] /\ pc[t] = "releasing"
  BY DEF Release, Goto
<1>3. Hosts' = Hosts
  BY <1>2 DEF Release, Hosts, TypeOK
<1>4. ASSUME NEW f \in Tasks
      PROVE  HandedOut(f)' = IF Hosts[f] = key[t] /\ Boxes[f] = Empty
                             THEN result[t] ELSE Boxes[f]
  <2>1. CASE pc[f] # "waiting" \/ inbox[f] # Empty
    BY <1>1, <1>2, <2>1 DEF Release, HandedOut, Hosts, Boxes, TypeOK
  <2>2. CASE pc[f] = "waiting" /\ inbox[f] = Empty
    <3>1. /\ leader[f] \in Tasks /\ key[leader[f]] = key[f]
          /\ pc[leader[f]] \in Leading \cup {"sending"}
      BY <2>2 DEF FollowersWillBeTold
    <3>2. pc'[f] = "waiting"
      BY <1>2, <2>2 DEF TypeOK
    <3>3. CASE leader[f] = t
      <4>1. Hosts[f] = key[t] /\ Boxes[f] = Empty
        BY <1>2, <2>2, <3>1, <3>3 DEF Hosts, Boxes, HandedOut
      <4>2. HandedOut(f)' = result[t]
        BY <1>2, <2>2, <3>2, <3>3 DEF Release, HandedOut, TypeOK
      <4>3. QED BY <4>1, <4>2
    <3>4. CASE leader[f] # t /\ pc[leader[f]] = "sending"
      <4>1. Boxes[f] = result[leader[f]] /\ HandedOut(f)' = result[leader[f]]
        BY <1>2, <2>2, <3>1, <3>2, <3>4 DEF Release, Boxes, HandedOut, TypeOK
      <4>2. result[leader[f]] # Empty
        BY <3>1 DEF TypeOK
      <4>3. QED BY <4>1, <4>2
    <3>5. CASE leader[f] # t /\ pc[leader[f]] \in Leading
      <4>1. key[f] # key[t]
        BY <1>2, <3>1, <3>5 DEF OneLeaderPerKey, Leading
      <4>2. Hosts[f] # key[t]
        BY <2>2, <4>1 DEF Hosts
      <4>3. HandedOut(f)' = Boxes[f]
        BY <1>2, <2>2, <3>1, <3>2, <3>5 DEF Release, Boxes, HandedOut, Leading, TypeOK
      <4>4. QED BY <4>2, <4>3
    <3>6. QED BY <3>1, <3>3, <3>4, <3>5
  <2>3. QED BY <2>1, <2>2
<1>5. Boxes' = [f \in Tasks |-> IF Hosts[f] = key[t] /\ Boxes[f] = Empty
                                THEN result[t] ELSE Boxes[f]]
  BY <1>4 DEF Boxes
<1>6. inflight[key[t]] # None
  BY <1>1
<1>7. Flight!Settle(key[t], result[t])
  BY <1>3, <1>5, <1>6 DEF Release, Flight!Settle, Hosts, Boxes
<1>8. QED BY <1>1, <1>7

(* The send that follows is not seen: its outcome was fixed before. *)
LEMMA SendIsUnseen ==
  ASSUME Invariants, NEW t \in Tasks, Send(t)
  PROVE  Unseen
<1> USE DEF Invariants
<1>1. Hosts' = Hosts
  BY DEF Send, Hosts, TypeOK
<1>2. ASSUME NEW f \in Tasks
      PROVE  HandedOut(f)' = HandedOut(f)
  <2>1. CASE pc[f] # "waiting"
    BY <2>1 DEF Send, HandedOut, TypeOK
  <2>2. CASE pc[f] = "waiting" /\ leader[f] = t
    <3>1. inbox[f] = Empty /\ HandedOut(f) = result[t]
      BY <2>2 DEF Send, HandedOut, LocalsFit
    <3>2. pc'[f] = "waiting" /\ inbox'[f] = result[t] /\ result[t] # Empty
      BY <2>2 DEF Send, TypeOK
    <3>3. QED BY <3>1, <3>2 DEF HandedOut
  <2>3. CASE pc[f] = "waiting" /\ leader[f] # t /\ inbox[f] # Empty
    BY <2>3 DEF Send, HandedOut, TypeOK
  <2>4. CASE pc[f] = "waiting" /\ leader[f] # t /\ inbox[f] = Empty
    <3>1. leader[f] \in Tasks
      BY <2>4 DEF FollowersWillBeTold
    <3>2. pc'[leader[f]] = pc[leader[f]] /\ result'[leader[f]] = result[leader[f]]
      BY <2>4, <3>1 DEF Send, TypeOK
    <3>3. QED BY <2>4, <3>1, <3>2 DEF Send, HandedOut, TypeOK
  <2>5. QED BY <2>1, <2>2, <2>3, <2>4
<1>3. QED BY <1>1, <1>2 DEF Unseen, Boxes

(* A follower that ends, with or without an outcome, leaves. *)
LEMMA FollowerLeaves ==
  ASSUME Invariants, NEW t \in Tasks, pc[t] = "waiting", End(t), UNCHANGED inflight
  PROVE  Flight!Leave(t)
<1>1. /\ Hosts' = [Hosts EXCEPT ![t] = Empty]
      /\ Boxes' = [Boxes EXCEPT ![t] = Empty]
  BY EndLeaves DEF Leading
<1>2. Hosts[t] # Empty
  BY DEF Hosts, Invariants, TypeOK
<1>3. QED BY <1>1, <1>2 DEF Flight!Leave, Hosts, Boxes

-----------------------------------------------------------------------------
(* Nobody sees a client's lookup. *)
LEMMA LookupIsUnseen ==
  ASSUME Invariants, NEW c \in Clients, NEW k \in Keys,
         LookupHit(c, k) \/ LookupHitAndRefresh(c, k) \/ LookupMiss(c, k)
  PROVE  UNCHANGED inflight /\ Unseen
<1>1. UNCHANGED inflight
  BY DEF LookupHit, LookupHitAndRefresh, LookupMiss
<1>2. CASE LookupHit(c, k)
  BY <1>2, QuietStep DEF LookupHit, taskVars
<1>3. CASE LookupHitAndRefresh(c, k)
  <2>1. PICK r \in Refreshers : /\ pc[r] = "idle"
                                /\ Goto(r, "spawned")
                                /\ key' = [key EXCEPT ![r] = k]
    BY <1>3 DEF LookupHitAndRefresh, Spawn
  <2>2. r \in Tasks /\ UNCHANGED <<leader, inbox, result>>
    BY <1>3 DEF LookupHitAndRefresh, Tasks
  <2>3. \A u \in Tasks \ {r} : key'[u] = key[u]
    BY <2>1 DEF Invariants, TypeOK
  <2>4. QED BY <1>1, <2>1, <2>2, <2>3, QuietMove DEF Places
<1>4. CASE LookupMiss(c, k)
  <2>1. c \in Tasks /\ \A u \in Tasks \ {c} : key'[u] = key[u]
    BY <1>4 DEF LookupMiss, Invariants, TypeOK, Tasks
  <2>2. QED BY <1>1, <1>4, <2>1, QuietMove DEF LookupMiss, Places
<1>5. QED BY <1>2, <1>3, <1>4

(* Every step of caching.rs is a step of SingleFlight or changes nothing. *)
LEMMA StepRefines ==
  ASSUME Invariants, [Next]_vars
  PROVE  [Flight!FlightNext]_(Flight!flightVars)
<1> USE DEF Invariants
<1>1. (UNCHANGED inflight /\ Unseen) => UNCHANGED Flight!flightVars
  BY DEF Unseen, Flight!flightVars, Hosts, Boxes
<1>2. CASE UNCHANGED <<inflight, taskVars>>
  BY <1>1, <1>2, QuietStep DEF taskVars
<1>3. ASSUME NEW t \in Tasks, Proceeds(t) \/ Resolves(t) \/ AbortLeader(t) \/ AbortFollower(t)
      PROVE  Flight!FlightNext \/ (UNCHANGED inflight /\ Unseen)
  <2>1. CASE AnswerCachedFailure(t) \/ SkipRefresh(t)
    <3>1. /\ Hosts' = [Hosts EXCEPT ![t] = Empty]
          /\ Boxes' = [Boxes EXCEPT ![t] = Empty]
      BY <2>1, EndLeaves DEF AnswerCachedFailure, SkipRefresh, Leading
    <3>2. Hosts[t] = Empty /\ Boxes[t] = Empty
      BY <2>1 DEF AnswerCachedFailure, SkipRefresh, Hosts, Boxes, HandedOut
    <3>3. QED BY <2>1, <3>1, <3>2
              DEF AnswerCachedFailure, SkipRefresh, Unseen, Hosts, Boxes
  <2>2. CASE \/ PassLockout(t) \/ UpstreamFails(t) \/ AbortLeader(t)
             \/ ForgetFailure(t) \/ StoreAnswer(t) \/ RememberFailure(t)
    BY <2>2, QuietMove
       DEF PassLockout, UpstreamFails, AbortLeader, ForgetFailure, StoreAnswer,
           RememberFailure, Places
  <2>3. CASE UpstreamAnswers(t)
    <3>1. \A u \in Tasks \ {t} : result'[u] = result[u]
      BY <2>3 DEF UpstreamAnswers, TypeOK
    <3>2. QED BY <2>3, <3>1, QuietMove DEF UpstreamAnswers, Places
  <2>4. CASE Lead(t)
    BY <2>4, LeadOwns DEF Flight!FlightNext
  <2>5. CASE Follow(t)
    BY <2>5, FollowJoins DEF Flight!FlightNext
  <2>6. CASE Release(t)
    BY <2>6, ReleaseSettles DEF Flight!FlightNext
  <2>7. CASE Send(t)
    BY <2>7, SendIsUnseen DEF Send
  <2>8. CASE Receive(t) \/ AbortFollower(t)
    BY <2>8, FollowerLeaves DEF Receive, AbortFollower, Flight!FlightNext
  <2>9. QED
    BY <1>3, <2>1, <2>2, <2>3, <2>4, <2>5, <2>6, <2>7, <2>8 DEF Proceeds, Resolves
<1>4. QED
  BY <1>1, <1>2, <1>3, LookupIsUnseen DEF Next, vars, taskVars

(***************************************************************************)
(* Query deduplication as caching.rs does it, with a table, a channel and  *)
(* a drop in two critical sections, is the one of SingleFlight: one owner  *)
(* per key, nobody joins too late to be told, everybody who joined gets    *)
(* the owner's one outcome.                                                *)
(***************************************************************************)
THEOREM FlightRefinement == Spec => ImplementsSingleFlight
<1>1. Init => Flight!FlightInit
  BY DEF Init, Flight!FlightInit, HandedOut
<1>2. Invariants /\ [Next]_vars => [Flight!FlightNext]_(Flight!flightVars)
  BY StepRefines
<1>3. QED
  BY <1>1, <1>2, InvariantsHold, PTL
     DEF Spec, ImplementsSingleFlight, Flight!FlightSpec

-----------------------------------------------------------------------------
(* The TTL decision, on its own. *)
USE TtlAssumption

(* What is kept under settings c, with the TTL decided under them. *)
KeptUnder(c) == {e \in Kept : e.ttl = CacheableTtl(c, e.response)}

(* The settings of a process never change, all it keeps or is about to     *)
(* keep was decided under them, and a hit is what Cache::get makes of it.  *)
Decided ==
  /\ config \in Config
  /\ Accepted(config)
  /\ clock \in Nat
  /\ slot \subseteq KeptUnder(config)
  /\ placing \in [Threads -> SUBSET KeptUnder(config)]
  /\ looking \in [Threads -> SUBSET Nat]
  /\ \A h \in handed :
       \E e \in KeptUnder(config), at \in Nat : h = HitFor(e, at) /\ h.told # NoTtl

(* Whatever Clamp returns as a TTL lies between its bounds. *)
LEMMA ClampBounds ==
  ASSUME NEW x \in Nat, NEW lo \in Nat, NEW hi \in Nat, Clamp(x, lo, hi) \in Nat
  PROVE  /\ Clamp(x, lo, hi) <= hi
         /\ Clamp(x, lo, hi) <= x \/ Clamp(x, lo, hi) = lo
BY DEF Clamp

(* A response that is not a positive answer is kept as a negative one: the *)
(* zone's own word, within the operator's bounds.                          *)
LEMMA NegativeDecision ==
  ASSUME NEW c \in Config, NEW r \in Response,
         IsNegative(r), CacheableTtl(c, r) \in Nat
  PROVE  /\ CacheableTtl(c, r) <= c.maxNegativeTtl
         /\ \A g \in GrantedSeconds(r) :
              g \in Nat /\ (CacheableTtl(c, r) = c.minTtl \/ CacheableTtl(c, r) <= g)
<1> DEFINE soa == Soa(r)
<1>1. /\ r.soa # {}
      /\ CacheableTtl(c, r) = Clamp(Smaller(soa.ttl, soa.minimum), c.minTtl, c.maxNegativeTtl)
  BY DEF CacheableTtl, NegativeTtl, IsNegative
<1>2. soa \in r.soa
  BY <1>1 DEF Soa
<1>3. soa.ttl \in Nat /\ soa.minimum \in Nat
  BY <1>2 DEF Response
<1>4. GrantedSeconds(r) = {soa.ttl, soa.minimum}
  BY DEF GrantedSeconds
<1> HIDE DEF soa
<1>5. /\ Smaller(soa.ttl, soa.minimum) \in Nat
      /\ Smaller(soa.ttl, soa.minimum) <= soa.ttl
      /\ Smaller(soa.ttl, soa.minimum) <= soa.minimum
  BY <1>3 DEF Smaller
<1>6. c.minTtl \in Nat /\ c.maxNegativeTtl \in Nat
  BY DEF Config
<1>7. /\ CacheableTtl(c, r) <= c.maxNegativeTtl
      /\ \/ CacheableTtl(c, r) <= Smaller(soa.ttl, soa.minimum)
         \/ CacheableTtl(c, r) = c.minTtl
  BY <1>1, <1>5, <1>6, ClampBounds
<1>8. QED BY <1>3, <1>4, <1>5, <1>7

(* A positive answer is kept no longer than the operator's ceiling and no  *)
(* longer than any of its records, min_ttl apart.                          *)
LEMMA PositiveDecision ==
  ASSUME NEW c \in Config, NEW r \in Response,
         ~IsNegative(r), CacheableTtl(c, r) \in Nat
  PROVE  /\ CacheableTtl(c, r) <= c.maxTtl
         /\ \A g \in GrantedSeconds(r) :
              g \in Nat /\ (CacheableTtl(c, r) = c.minTtl \/ CacheableTtl(c, r) <= g)
<1>1. RecordTtls(r) \subseteq Nat
  BY DEF RecordTtls, Response
<1>2. r.rcode = "NoError" /\ r.answers # {}
  BY DEF IsNegative, CacheableTtl, Response, Rcodes
<1>3. /\ RecordTtls(r) # {}
      /\ CacheableTtl(c, r) = Clamp(Min(RecordTtls(r)), c.minTtl, c.maxTtl)
  BY <1>2 DEF CacheableTtl, PositiveTtl
<1>4. Min(RecordTtls(r)) \in Nat /\ \A t \in RecordTtls(r) : Min(RecordTtls(r)) <= t
  BY <1>1, <1>3, MinOfNats
<1>5. c.minTtl \in Nat /\ c.maxTtl \in Nat
  BY DEF Config
<1>6. /\ CacheableTtl(c, r) <= c.maxTtl
      /\ \/ CacheableTtl(c, r) <= Min(RecordTtls(r))
         \/ CacheableTtl(c, r) = c.minTtl
  BY <1>3, <1>4, <1>5, ClampBounds
<1>7. GrantedSeconds(r) = RecordTtls(r)
  BY DEF GrantedSeconds
<1>8. QED BY <1>1, <1>4, <1>6, <1>7

(* Decided is invariant. *)
LEMMA DecidedHolds == TtlSpec => []Decided
<1>1. TtlInit => Decided
  BY DEF TtlInit, Decided
<1>2. ASSUME Decided, [TtlNext]_ttlVars
      PROVE  Decided'
  <2> USE <1>2 DEF Decided
  <2>1. CASE UNCHANGED ttlVars
    BY <2>1 DEF ttlVars, HitFor
  <2>2. CASE ClockTicks \/ Evicted
    BY <2>2 DEF ClockTicks, Evicted
  <2>3. ASSUME NEW t \in Threads, NEW r \in Delivered, InsertStarts(t, r)
        PROVE  Decided'
    <3>1. /\ config' = config /\ clock' = clock /\ slot' = slot
          /\ looking' = looking /\ handed' = {}
      BY <2>3 DEF InsertStarts
    <3>2. ASSUME CacheableTtl(config, r) \in Nat
          PROVE  [response |-> r, storedAt |-> clock, ttl |-> CacheableTtl(config, r)]
                   \in KeptUnder(config)
      BY <3>2 DEF KeptUnder, Kept
    <3>3. placing' \in [Threads -> SUBSET KeptUnder(config)]
      BY <2>3, <3>2 DEF InsertStarts
    <3>4. QED BY <3>1, <3>3
  <2>4. ASSUME NEW t \in Threads, InsertEnds(t)
        PROVE  Decided'
    BY <2>4 DEF InsertEnds
  <2>5. ASSUME NEW t \in Threads, GetStarts(t)
        PROVE  Decided'
    BY <2>5 DEF GetStarts
  <2>6. ASSUME NEW t \in Threads, GetEnds(t)
        PROVE  Decided'
    <3>1. config' = config /\ clock' = clock /\ placing' = placing
      BY <2>6 DEF GetEnds
    <3>2. slot' \subseteq slot /\ looking' \in [Threads -> SUBSET Nat]
      BY <2>6 DEF GetEnds
    <3>3. \A h \in handed' :
            \E e \in slot, at \in looking[t] : h = HitFor(e, at) /\ h.told # NoTtl
      BY <2>6 DEF GetEnds
    <3>4. ASSUME NEW e \in Kept, NEW at \in Nat
          PROVE  HitFor(e, at)' = HitFor(e, at)
      BY <3>1 DEF HitFor
    <3>5. slot \subseteq Kept
      BY DEF KeptUnder
    <3>6. \A h \in handed' :
            \E e \in KeptUnder(config)', at \in Nat : h = HitFor(e, at)' /\ h.told # NoTtl
      BY <3>1, <3>3, <3>4, <3>5
    <3>7. QED BY <3>1, <3>2, <3>6
  <2>7. QED BY <1>2, <2>1, <2>2, <2>3, <2>4, <2>5, <2>6 DEF TtlNext
<1>3. QED BY <1>1, <1>2, PTL DEF TtlSpec

(***************************************************************************)
(* Under all settings the program starts with, whatever is kept is kept    *)
(* within the operator's ceiling for its kind (Cache::cacheable_ttl).      *)
(***************************************************************************)
THEOREM Ceilings == TtlSpec => []CeilingsHold
<1>1. Decided => CeilingsHold
  <2> SUFFICES ASSUME Decided, NEW e \in slot
               PROVE  e.ttl <= (IF IsNegative(e.response)
                                THEN config.maxNegativeTtl ELSE config.maxTtl)
    BY DEF CeilingsHold
  <2>1. /\ e.response \in Response /\ config \in Config /\ e.ttl \in Nat
        /\ e.ttl = CacheableTtl(config, e.response)
    BY DEF Decided, KeptUnder, Kept
  <2>2. CASE IsNegative(e.response)
    BY <2>1, <2>2, NegativeDecision
  <2>3. CASE ~IsNegative(e.response)
    BY <2>1, <2>3, PositiveDecision
  <2>4. QED BY <2>2, <2>3
<1>2. QED BY <1>1, DecidedHolds, PTL

(* Rounding down to whole seconds hides less than one of them. *)
LEMMA LessThanASecondHidden ==
  ASSUME NEW at \in Nat, NEW storedAt \in Nat
  PROVE  /\ WholeSeconds(at, storedAt) \in Nat
         /\ at < storedAt + (WholeSeconds(at, storedAt) + 1) * Second
<1>1. CASE at < storedAt
  BY <1>1 DEF WholeSeconds
<1>2. CASE ~(at < storedAt)
  <2> DEFINE d == at - storedAt
             q == d \div Second
  <2>1. d \in Nat
    BY <1>2
  <2> HIDE DEF d
  <2>2. q \in Nat /\ d < (q + 1) * Second
    BY <2>1
  <2>3. WholeSeconds(at, storedAt) = q
    BY <1>2 DEF WholeSeconds, d
  <2> HIDE DEF q
  <2>4. at = storedAt + d
    BY <1>2 DEF d
  <2>5. QED BY <2>1, <2>2, <2>3, <2>4
<1>3. QED BY <1>1, <1>2

(* More whole seconds are no fewer ticks. *)
LEMMA TicksGrow ==
  ASSUME NEW m \in Nat, NEW n \in Nat, m <= n
  PROVE  m * Second <= n * Second
OBVIOUS

(***************************************************************************)
(* Under all settings the program starts with, for any clock, any          *)
(* responses and any threads: a fresh hit tells nobody a second more than  *)
(* each TTL that the upstream set, raised to min_ttl, still allows, and a  *)
(* stale one comes within serve_stale_max and says STALE_TTL (Cache::get). *)
(***************************************************************************)
THEOREM HitsAreGranted == TtlSpec => []HitsTellNoMoreThanWasGranted
<1>1. Decided => HitsTellNoMoreThanWasGranted
  <2> SUFFICES ASSUME Decided, NEW h \in handed,
                      NEW g \in GrantedSeconds(h.entry.response)
               PROVE  ToldFor(h, g)
    BY DEF HitsTellNoMoreThanWasGranted
  <2>1. PICK e \in KeptUnder(config), at \in Nat : h = HitFor(e, at) /\ h.told # NoTtl
    BY DEF Decided
  <2> DEFINE elapsed == WholeSeconds(at, e.storedAt)
             limit == IF g < config.minTtl THEN config.minTtl ELSE g
  <2>2. /\ h.entry = e /\ h.at = at
        /\ h.told = HandedTtl(config, elapsed, e.ttl)
        /\ h.stale = ~Fresh(elapsed, e.ttl)
    BY <2>1 DEF HitFor
  <2>3. /\ e.response \in Response /\ e.storedAt \in Nat /\ e.ttl \in Nat
        /\ e.ttl = CacheableTtl(config, e.response)
        /\ config \in Config
    BY DEF Decided, KeptUnder, Kept
  <2>4. g \in Nat /\ (e.ttl = config.minTtl \/ e.ttl <= g)
    BY <2>2, <2>3, NegativeDecision, PositiveDecision
  <2>5. config.minTtl \in Nat /\ config.serveStaleMax \in Nat
    BY <2>3 DEF Config
  <2>6. limit \in Nat /\ e.ttl <= limit
    BY <2>3, <2>4, <2>5
  <2>7. elapsed \in Nat /\ at < e.storedAt + (elapsed + 1) * Second
    BY <2>3, LessThanASecondHidden
  <2> HIDE DEF elapsed
  <2>8. CASE Fresh(elapsed, e.ttl)
    <3>1. h.told = e.ttl - elapsed /\ e.ttl - elapsed \in Nat
      BY <2>2, <2>3, <2>7, <2>8 DEF HandedTtl, Fresh
    <3>2. (e.ttl + 1) * Second <= (limit + 1) * Second
      BY <2>3, <2>6, TicksGrow
    <3>3. (e.ttl + 1) * Second = (elapsed + 1) * Second + (e.ttl - elapsed) * Second
      BY <2>3, <2>7
    <3>4. at + (e.ttl - elapsed) * Second < e.storedAt + (limit + 1) * Second
      <4> DEFINE a == (elapsed + 1) * Second
                 b == (e.ttl - elapsed) * Second
                 c == (limit + 1) * Second
      <4>1. a \in Int /\ b \in Int /\ c \in Int
        BY <2>3, <2>6, <2>7
      <4>2. at < e.storedAt + a /\ a + b <= c
        BY <2>7, <3>2, <3>3
      <4> HIDE DEF a, b, c
      <4>3. at + b < e.storedAt + c
        BY <2>3, <4>1, <4>2
      <4>4. QED BY <4>3 DEF b, c
    <3>5. ~h.stale
      BY <2>2, <2>8
    <3>6. QED BY <2>2, <3>1, <3>4, <3>5 DEF ToldFor
  <2>9. CASE ~Fresh(elapsed, e.ttl)
    <3>1. Stale(config, elapsed, e.ttl) /\ h.told = StaleTtl /\ h.stale
      BY <2>1, <2>2, <2>9 DEF HandedTtl
    <3>2. config.serveStale /\ elapsed + 1 <= limit + config.serveStaleMax
      BY <2>3, <2>5, <2>6, <2>7, <3>1 DEF Stale
    <3>3. (elapsed + 1) * Second <= (limit + config.serveStaleMax) * Second
      BY <2>5, <2>6, <2>7, <3>2, TicksGrow
    <3>4. at < e.storedAt + (limit + config.serveStaleMax) * Second
      <4> DEFINE a == (elapsed + 1) * Second
                 c == (limit + config.serveStaleMax) * Second
      <4>1. a \in Int /\ c \in Int
        BY <2>5, <2>6, <2>7
      <4> HIDE DEF a, c
      <4>2. at < e.storedAt + a /\ a <= c
        BY <2>7, <3>3 DEF a, c
      <4>3. at < e.storedAt + c
        BY <2>3, <4>1, <4>2
      <4>4. QED BY <4>3 DEF c
    <3>5. QED BY <2>2, <3>1, <3>2, <3>4 DEF ToldFor
  <2>10. QED BY <2>8, <2>9
<1>2. QED BY <1>1, DecidedHolds, PTL
=============================================================================
