------------------------------ MODULE Caching ------------------------------
(***************************************************************************)
(* CachingBackend of caching.rs: the answer cache, the memory of recent    *)
(* failures and the table of running resolutions in front of the upstream  *)
(* backend, used by any number of client tasks and background refreshes on *)
(* a multi-threaded runtime.                                               *)
(*                                                                         *)
(* The cache shard, the failure memory and the inflight table have a mutex *)
(* each and the code never holds two of them.  One action is one critical  *)
(* section; between two critical sections of a task any other task may     *)
(* run.  A task awaits at two points only: the leader the upstream, the    *)
(* follower its broadcast channel.                                         *)
(***************************************************************************)
EXTENDS Cache

CONSTANTS
  Clients,         \* tasks that serve a client's question
  Refreshers,      \* bound: background refreshes that exist at a time
  Abortable,       \* tasks whose future may be dropped while it awaits
  Empty,           \* a broadcast channel nothing was sent on
  Prefetch,        \* cache.prefetch
  FailureTtl,      \* FAILURE_TTL, the first lockout
  FailureTtlMax,   \* FAILURE_TTL_MAX
  MaxFailures      \* MAX_FAILURES

Tasks == Clients \cup Refreshers

ASSUME CachingAssumption ==
  /\ Clients \cap Refreshers = {}
  /\ Abortable \subseteq Tasks
  /\ None \notin Tasks
  /\ None \notin Answer
  /\ Empty \notin Answer \cup Keys \cup {None}
  /\ Prefetch \in BOOLEAN
  /\ FailureTtl \in Nat \ {0} /\ FailureTtlMax \in Nat
  /\ FailureTtl <= FailureTtlMax
  /\ MaxFailures \in Nat \ {0}

Failure == [at : 0..MaxTime, ttl : Nat]

VARIABLES
  failures,   \* Failures::map
  inflight,   \* Inflight::map: the leader whose sender it holds
  pc,         \* task -> where it is
  key,        \* task -> the question it works on
  result,     \* leader -> Leader::result, what its Drop will send
  leader,     \* follower -> the leader whose channel it subscribed to
  inbox,      \* follower -> what its receiver holds
  streak      \* history: failures in a row since the last success, per key

taskVars == <<pc, key, result, leader, inbox>>
vars == <<now, entries, lru, failures, inflight, pc, key, result, leader,
          inbox, streak>>

Places ==
  {"idle",       \* no request; for a refresher: no such task
   "missed",     \* after cache.get without a hit
   "unlocked",   \* after failures.is_fresh said no
   "spawned",    \* a background refresh before its first step
   "asking",     \* leader, awaiting the upstream
   "answered",   \* leader with an answer, before failures.forget
   "storing",    \* leader, before cache.insert
   "failed",     \* leader with an error, before failures.record
   "releasing",  \* leader being dropped, before inflight.release
   "sending",    \* leader being dropped, before sender.send
   "waiting"}    \* follower, awaiting its receiver

Init ==
  /\ CacheInit
  /\ failures = [k \in Keys |-> None]
  /\ inflight = [k \in Keys |-> None]
  /\ pc = [t \in Tasks |-> "idle"]
  /\ key = [t \in Tasks |-> None]
  /\ result = [t \in Tasks |-> None]
  /\ leader = [t \in Tasks |-> None]
  /\ inbox = [t \in Tasks |-> Empty]
  /\ streak = [k \in Keys |-> 0]

Goto(t, place) == pc' = [pc EXCEPT ![t] = place]

(* A task that ends forgets everything: its locals are gone. *)
End(t) ==
  /\ pc' = [pc EXCEPT ![t] = "idle"]
  /\ key' = [key EXCEPT ![t] = None]
  /\ result' = [result EXCEPT ![t] = None]
  /\ leader' = [leader EXCEPT ![t] = None]
  /\ inbox' = [inbox EXCEPT ![t] = Empty]

-----------------------------------------------------------------------------
(* The failure memory. *)

IsLockedOut(k) ==
  failures[k] # None /\ now - failures[k].at < failures[k].ttl

Remembered(f) == {k \in Keys : f[k] # None}

(* Mutation: the first failure is doubled already. *)
RecordFailureDoubled(k) ==
  LET ttl == IF failures[k] = None THEN FailureTtl ELSE failures[k].ttl
  IN  failures' = [failures EXCEPT
                     ![k] = [at |-> now, ttl |-> Smaller(2 * ttl, FailureTtlMax)]]

(* Failures::record.  A full memory first gives up what has expired. *)
RecordFailure(k) ==
  LET kept == IF Cardinality(Remembered(failures)) >= MaxFailures
              THEN [j \in Keys |-> IF IsLockedOut(j) THEN failures[j] ELSE None]
              ELSE failures
      ttl == IF kept[k] = None THEN FailureTtl
             ELSE Smaller(2 * kept[k].ttl, FailureTtlMax)
  IN  failures' = IF Cardinality(Remembered(kept)) < MaxFailures
                  THEN [kept EXCEPT ![k] = [at |-> now, ttl |-> ttl]]
                  ELSE kept

-----------------------------------------------------------------------------
(* A client's question, up to the point where it leads or follows. *)

(* spawn_refresh *)
Spawn(k) ==
  \E r \in Refreshers :
    /\ pc[r] = "idle"
    /\ Goto(r, "spawned")
    /\ key' = [key EXCEPT ![r] = k]

NeedsRefresh(e) == IsStale(e) \/ (Prefetch /\ ShouldPrefetch(e))

(* The cache answers.  The client's task is done with it. *)
LookupHit(c, k) ==
  /\ pc[c] = "idle"
  /\ GetHit(k)
  /\ ~NeedsRefresh(entries[k])
  /\ UNCHANGED <<now, failures, inflight, taskVars, streak>>

LookupHitAndRefresh(c, k) ==
  /\ pc[c] = "idle"
  /\ GetHit(k)
  /\ NeedsRefresh(entries[k])
  /\ Spawn(k)
  /\ UNCHANGED <<now, failures, inflight, result, leader, inbox, streak>>

LookupMiss(c, k) ==
  /\ pc[c] = "idle"
  /\ GetMiss(k)
  /\ Goto(c, "missed")
  /\ key' = [key EXCEPT ![c] = k]
  /\ UNCHANGED <<now, failures, inflight, result, leader, inbox, streak>>

(* failures.is_fresh: the question is answered with CachedFailure ... *)
AnswerCachedFailure(c) ==
  /\ pc[c] = "missed"
  /\ IsLockedOut(key[c])
  /\ End(c)
  /\ UNCHANGED <<now, cacheVars, failures, inflight, streak>>

(* ... or goes on. *)
PassLockout(c) ==
  /\ pc[c] = "missed"
  /\ ~IsLockedOut(key[c])
  /\ Goto(c, "unlocked")
  /\ UNCHANGED <<now, cacheVars, failures, inflight, key, result, leader,
                 inbox, streak>>

(* Mutation: a refresh asks without claiming the key. *)
LeadUnclaimed(t) ==
  /\ \/ pc[t] = "spawned"
     \/ pc[t] = "unlocked" /\ inflight[key[t]] = None
  /\ inflight' = [inflight EXCEPT ![key[t]] = t]
  /\ Goto(t, "asking")
  /\ UNCHANGED <<now, cacheVars, failures, key, result, leader, inbox, streak>>

(* Inflight::claim for a key nobody resolves: lead, and ask the upstream. *)
Lead(t) ==
  /\ pc[t] \in {"unlocked", "spawned"}
  /\ inflight[key[t]] = None
  /\ inflight' = [inflight EXCEPT ![key[t]] = t]
  /\ Goto(t, "asking")
  /\ UNCHANGED <<now, cacheVars, failures, key, result, leader, inbox, streak>>

(* Inflight::claim for a key somebody resolves: a client subscribes ... *)
Follow(c) ==
  /\ pc[c] = "unlocked"
  /\ inflight[key[c]] # None
  /\ leader' = [leader EXCEPT ![c] = inflight[key[c]]]
  /\ Goto(c, "waiting")
  /\ UNCHANGED <<now, cacheVars, failures, inflight, key, result, inbox,
                 streak>>

(* ... and a refresh has nothing to do. *)
SkipRefresh(r) ==
  /\ pc[r] = "spawned"
  /\ inflight[key[r]] # None
  /\ End(r)
  /\ UNCHANGED <<now, cacheVars, failures, inflight, streak>>

-----------------------------------------------------------------------------
(* The leader, from the upstream's verdict to the end of its Drop. *)

(* inner.resolve returns Ok, whatever the response says. *)
UpstreamAnswers(t) ==
  /\ pc[t] = "asking"
  /\ \E r \in Responses : result' = [result EXCEPT ![t] = [response |-> r, at |-> now]]
  /\ Goto(t, "answered")
  /\ streak' = [streak EXCEPT ![key[t]] = 0]
  /\ UNCHANGED <<now, cacheVars, failures, inflight, key, leader, inbox>>

(* inner.resolve returns Err, of any kind.  The history stops counting     *)
(* where one more failure no longer changes the lockout.                   *)
UpstreamFails(t) ==
  /\ pc[t] = "asking"
  /\ Goto(t, "failed")
  /\ streak' = [streak EXCEPT ![key[t]] = Smaller(@ + 1, FailureTtlMax)]
  /\ UNCHANGED <<now, cacheVars, failures, inflight, key, result, leader, inbox>>

(* Mutations: without a Leader to drop, the key stays in the table; the    *)
(* drop sends but does not release; it releases but does not send.         *)
AbortWithoutDrop(t) ==
  /\ pc[t] = "asking"
  /\ t \in Abortable
  /\ End(t)
  /\ UNCHANGED <<now, cacheVars, failures, inflight, streak>>

AbortKeepsKey(t) ==
  /\ pc[t] = "asking"
  /\ t \in Abortable
  /\ Goto(t, "sending")
  /\ UNCHANGED <<now, cacheVars, failures, inflight, key, result, leader,
                 inbox, streak>>

AbortSilently(t) ==
  /\ pc[t] = "asking"
  /\ t \in Abortable
  /\ inflight' = [inflight EXCEPT ![key[t]] = None]
  /\ End(t)
  /\ UNCHANGED <<now, cacheVars, failures, streak>>

(* The future is dropped while it awaits the upstream: only Leader::drop   *)
(* runs, with no result to hand on.                                        *)
AbortLeader(t) ==
  /\ pc[t] = "asking"
  /\ t \in Abortable
  /\ Goto(t, "releasing")
  /\ UNCHANGED <<now, cacheVars, failures, inflight, key, result, leader,
                 inbox, streak>>

ForgetFailure(t) ==
  /\ pc[t] = "answered"
  /\ failures' = [failures EXCEPT ![key[t]] = None]
  /\ Goto(t, "storing")
  /\ UNCHANGED <<now, cacheVars, inflight, key, result, leader, inbox, streak>>

(* Mutation: what is cached already is not replaced. *)
StoreIfAbsent(t) ==
  /\ pc[t] = "storing"
  /\ IF entries[key[t]] = None THEN Store(key[t], result[t]) ELSE UNCHANGED cacheVars
  /\ Goto(t, "releasing")
  /\ UNCHANGED <<now, failures, inflight, key, result, leader, inbox, streak>>

StoreAnswer(t) ==
  /\ pc[t] = "storing"
  /\ Store(key[t], result[t])
  /\ Goto(t, "releasing")
  /\ UNCHANGED <<now, failures, inflight, key, result, leader, inbox, streak>>

RememberFailure(t) ==
  /\ pc[t] = "failed"
  /\ RecordFailure(key[t])
  /\ Goto(t, "releasing")
  /\ UNCHANGED <<now, cacheVars, inflight, key, result, leader, inbox, streak>>

(* Mutation: the leader is gone with the release, and nothing is sent. *)
ReleaseWithoutSend(t) ==
  /\ pc[t] = "releasing"
  /\ inflight' = [inflight EXCEPT ![key[t]] = None]
  /\ End(t)
  /\ UNCHANGED <<now, cacheVars, failures, streak>>

(* Leader::drop, first half: the key is free for the next claim. *)
Release(t) ==
  /\ pc[t] = "releasing"
  /\ inflight' = [inflight EXCEPT ![key[t]] = None]
  /\ Goto(t, "sending")
  /\ UNCHANGED <<now, cacheVars, failures, key, result, leader, inbox, streak>>

(* Leader::drop, second half: one message (the answer, or None) to every   *)
(* receiver subscribed by now.                                             *)
Send(t) ==
  /\ pc[t] = "sending"
  /\ pc' = [pc EXCEPT ![t] = "idle"]
  /\ key' = [key EXCEPT ![t] = None]
  /\ result' = [result EXCEPT ![t] = None]
  /\ inbox' = [f \in Tasks |-> IF leader[f] = t THEN result[t] ELSE inbox[f]]
  /\ leader' = [f \in Tasks |-> IF leader[f] = t THEN None ELSE leader[f]]
  /\ UNCHANGED <<now, cacheVars, failures, inflight, streak>>

(* The follower's recv returns: the shared answer, or Coalesced for None. *)
Receive(f) ==
  /\ pc[f] = "waiting"
  /\ inbox[f] # Empty
  /\ End(f)
  /\ UNCHANGED <<now, cacheVars, failures, inflight, streak>>

AbortFollower(f) ==
  /\ pc[f] = "waiting"
  /\ f \in Abortable
  /\ End(f)
  /\ UNCHANGED <<now, cacheVars, failures, inflight, streak>>

-----------------------------------------------------------------------------
(* The upstream's verdict on the question this task leads. *)
Resolves(t) == UpstreamAnswers(t) \/ UpstreamFails(t)

(* Everything a task does on its own. *)
Proceeds(t) ==
  \/ AnswerCachedFailure(t) \/ PassLockout(t)
  \/ Lead(t) \/ Follow(t) \/ SkipRefresh(t)
  \/ ForgetFailure(t) \/ StoreAnswer(t) \/ RememberFailure(t)
  \/ Release(t) \/ Send(t) \/ Receive(t)

Next ==
  \/ Tick /\ UNCHANGED <<cacheVars, failures, inflight, taskVars, streak>>
  \/ \E c \in Clients, k \in Keys :
       LookupHit(c, k) \/ LookupHitAndRefresh(c, k) \/ LookupMiss(c, k)
  \/ \E t \in Tasks :
       Proceeds(t) \/ Resolves(t) \/ AbortLeader(t) \/ AbortFollower(t)

(***************************************************************************)
(* The runtime polls every task that can go on.  That inner.resolve ever   *)
(* returns is not assumed: transport.rs gives an exchange over DNS over    *)
(* HTTPS or QUIC no timeout.  Nothing makes clients ask.                   *)
(***************************************************************************)
Fairness == \A t \in Tasks : WF_vars(Proceeds(t))

Spec == Init /\ [][Next]_vars
FairSpec == Spec /\ Fairness

-----------------------------------------------------------------------------
(* Places in which a task holds a Leader whose key is still in the table. *)
Leading == {"asking", "answered", "storing", "failed", "releasing"}

(***************************************************************************)
(* The type invariant, with what ties a task's locals to its place: a      *)
(* task with a request has its key, and a leader that is to store an       *)
(* answer has got one.                                                     *)
(***************************************************************************)
TypeOK ==
  /\ CacheTypeOK
  /\ failures \in [Keys -> Failure \cup {None}]
  /\ inflight \in [Keys -> Tasks \cup {None}]
  /\ pc \in [Tasks -> Places]
  /\ key \in [Tasks -> Keys \cup {None}]
  /\ result \in [Tasks -> Answer \cup {None}]
  /\ leader \in [Tasks -> Tasks \cup {None}]
  /\ inbox \in [Tasks -> Answer \cup {None, Empty}]
  /\ streak \in [Keys -> Nat]
  /\ \A t \in Tasks : pc[t] # "idle" => key[t] \in Keys
  /\ \A t \in Tasks : pc[t] \in {"answered", "storing"} => result[t] \in Answer

(***************************************************************************)
(* Deduplication: whatever clients and background refreshes do, no key is  *)
(* resolved by two tasks at once, and the table names exactly the task     *)
(* that resolves it, so that nobody waits on a leader that is gone.        *)
(***************************************************************************)
OneLeaderPerKey ==
  /\ \A t \in Tasks : pc[t] \in Leading => inflight[key[t]] = t
  /\ \A k \in Keys : inflight[k] # None =>
       pc[inflight[k]] \in Leading /\ key[inflight[k]] = k

(***************************************************************************)
(* Every follower that has not been told yet subscribed to a leader that   *)
(* will still send, for the question the follower asked: a subscription is *)
(* never lost between the release of the key and the send, whoever claims  *)
(* the key in between, and neither when the leader is aborted.             *)
(***************************************************************************)
FollowersWillBeTold ==
  \A f \in Tasks : pc[f] = "waiting" /\ inbox[f] = Empty =>
    /\ leader[f] \in Tasks
    /\ pc[leader[f]] \in Leading \cup {"sending"}
    /\ key[leader[f]] = key[f]

(***************************************************************************)
(* Monotonic reads across clients: once a follower holds a shared answer,  *)
(* or its leader is about to send one, the cache serves nobody an older    *)
(* answer to that question.  It rests on the order insert, release, send.  *)
(***************************************************************************)
Cacheable(answer) ==
  CacheableTtl(CacheConfig, answer.response) # NoTtl

NotNewerThanCached(k, answer) ==
  answer \in Answer /\ Cacheable(answer) /\ entries[k] # None
    => entries[k].answer.at >= answer.at

SharedAnswersAreCached ==
  \A t \in Tasks :
    /\ pc[t] \in {"releasing", "sending"} => NotNewerThanCached(key[t], result[t])
    /\ pc[t] = "waiting" => NotNewerThanCached(key[t], inbox[t])

(***************************************************************************)
(* An answer never replaces one the upstream gave later: slow leaders and  *)
(* background refreshes cannot roll the cache back.                        *)
(***************************************************************************)
CacheNeverGoesBack ==
  [][\A k \in Keys : entries[k] # None /\ entries'[k] # None
       => entries'[k].answer.at >= entries[k].answer.at]_vars

(***************************************************************************)
(* The lockout after n failures in a row, by RFC 9520 and ADR-0027:        *)
(* doubled from failure to failure, up to the maximum.                     *)
(***************************************************************************)
Ladder[n \in Nat] ==
  IF n <= 1 THEN FailureTtl ELSE Smaller(2 * Ladder[n - 1], FailureTtlMax)

(***************************************************************************)
(* Whenever nobody resolves a key, the failure memory agrees with what its *)
(* resolutions came to: no lockout outlives a success (of a client or of a *)
(* refresh), and none is longer than the failures since then justify, even *)
(* where the full memory has dropped or refused entries in between.        *)
(***************************************************************************)
LockoutIsEarned ==
  \A k \in Keys : inflight[k] = None /\ failures[k] # None =>
    /\ streak[k] > 0
    /\ failures[k].ttl <= Ladder[streak[k]]

(* The memory for failing names is bounded, however many names fail. *)
FailureMemoryIsBounded == Cardinality(Remembered(failures)) <= MaxFailures

(***************************************************************************)
(* A request waits for nothing but the upstream's verdict on its question: *)
(* if the upstream always comes back to that in the end, every request and *)
(* every refresh comes to an end, with an answer, an error or, at a        *)
(* follower, Coalesced, whoever is aborted.                                *)
(***************************************************************************)
Asked(k) == \E t \in Tasks : pc[t] = "asking" /\ key[t] = k

EveryTaskEnds ==
  \A k \in Keys :
    []<>~Asked(k) =>
      \A t \in Tasks : (pc[t] # "idle" /\ key[t] = k) ~> pc[t] = "idle"

(***************************************************************************)
(* caching.rs implements SingleFlight.  What SingleFlight does in one step *)
(* the code does in two critical sections: between release and send the    *)
(* outcome is fixed, and the followers count as told.                      *)
(***************************************************************************)
HandedOut(f) ==
  IF pc[f] # "waiting" THEN Empty
  ELSE IF inbox[f] = Empty /\ pc[leader[f]] = "sending"
  THEN result[leader[f]] ELSE inbox[f]

Flight == INSTANCE SingleFlight WITH
  Outcomes <- Answer \cup {None},
  Nobody <- None,
  Nothing <- Empty,
  owner <- inflight,
  host <- [t \in Tasks |-> IF pc[t] = "waiting" THEN key[t] ELSE Empty],
  box <- [t \in Tasks |-> HandedOut(t)]

ImplementsSingleFlight == Flight!FlightSpec

=============================================================================
