------------------------------ MODULE Ratelimit ------------------------------
(***************************************************************************)
(* The rate limit per client (ratelimit.rs): a bucket of tokens for each   *)
(* client, kept in shards that are small LRU caches behind a mutex each.   *)
(* One shard is modelled; nothing is shared between two.                   *)
(*                                                                         *)
(* A thread reads the clock before it takes the shard's mutex, so threads  *)
(* may come to the bucket in another order than they read the time.  Rate  *)
(* is per tick of the clock; fractions of a token are left out.            *)
(***************************************************************************)
EXTENDS Integers, FiniteSets, Sequences, SequencesExt

CONSTANTS
  Threads,     \* tasks that answer queries
  Addresses,   \* records: family, net (the upper half) and host
  Shards,      \* SHARDS
  MaxClients,  \* rate_limit.max_clients
  ConfigBurst, \* rate_limit.burst
  Rate,        \* rate_limit.per_client_qps
  MaxTime,     \* bound on the clock
  MaxAsked     \* bound on the queries of one client

(***************************************************************************)
(* Bucketed::from: who shares a bucket.  An IPv6 host owns a /64, and an   *)
(* IPv4 address written as IPv6 is the same host.                          *)
(***************************************************************************)
Bucketed(a) ==
  IF a.family = "v6"
  THEN [family |-> "v6", net |-> a.net, host |-> "any"]
  ELSE [family |-> "v4", net |-> a.net, host |-> a.host]

Keys == {Bucketed(a) : a \in Addresses}

(* RateLimiter::new: neither a shard nor a bucket is of no use at all. *)
AtLeastOne(n) == IF n = 0 THEN 1 ELSE n
PerShard == AtLeastOne(MaxClients \div Shards)
Burst == AtLeastOne(ConfigBurst)

VARIABLES
  now,       \* the clock
  buckets,   \* key -> what is left, and when it was filled up last
  recency,   \* keys of the shard, the one used last at the end
  thread,    \* what a thread is about: its key and the time it has read
  throttled, \* queries that were dropped
  since,     \* history: when a key's bucket was put into the shard
  passed,    \* history: queries let through since then
  late       \* history: time that key's threads spent between clock and mutex

vars == <<now, buckets, recency, thread, throttled, since, passed, late>>

Idle == [key |-> {}, read |-> 0]

Init ==
  /\ now = 0
  /\ buckets = <<>> /\ recency = <<>>
  /\ thread = [t \in Threads |-> Idle]
  /\ throttled = 0
  /\ since = [k \in Keys |-> 0]
  /\ passed = [k \in Keys |-> 0]
  /\ late = [k \in Keys |-> 0]

-----------------------------------------------------------------------------
Tick ==
  /\ now < MaxTime
  /\ now' = now + 1
  /\ UNCHANGED <<buckets, recency, thread, throttled, since, passed, late>>

(* allow, up to the mutex. *)
ReadClock(t, a) ==
  /\ thread[t] = Idle
  /\ passed[Bucketed(a)] + throttled < MaxAsked
  /\ thread' = [thread EXCEPT ![t] = [key |-> {Bucketed(a)}, read |-> now]]
  /\ UNCHANGED <<now, buckets, recency, throttled, since, passed, late>>

Touched(k) == Append(SelectSeq(recency, LAMBDA x : x # k), k)

(* LruCache::put: a shard that is full forgets who was seen longest ago. *)
Evicted ==
  IF Cardinality(DOMAIN buckets) < PerShard THEN {} ELSE {Head(recency)}

(* A client that is new, or was forgotten, has a full bucket. *)
AllowNew(t, k) ==
  /\ thread[t].key = {k} /\ k \notin DOMAIN buckets
  /\ buckets' = [x \in (DOMAIN buckets \ Evicted) \cup {k} |->
                   IF x = k THEN [tokens |-> Burst - 1, last |-> thread[t].read]
                   ELSE buckets[x]]
  /\ recency' = Append(SelectSeq(recency, LAMBDA x : x \notin Evicted), k)
  /\ thread' = [thread EXCEPT ![t] = Idle]
  /\ since' = [since EXCEPT ![k] = thread[t].read]
  /\ passed' = [passed EXCEPT ![k] = 1]
  /\ late' = [late EXCEPT ![k] = now - thread[t].read]
  /\ UNCHANGED <<now, throttled>>

(* saturating_duration_since *)
Elapsed(from, to) == IF to > from THEN to - from ELSE 0

(* Mutation: the time is only taken down when the bucket was found empty. *)
FilledWhenEmpty(b, read) ==
  LET tokens == b.tokens + Rate * Elapsed(b.last, read)
  IN  [tokens |-> IF tokens < Burst THEN tokens ELSE Burst,
       last |-> IF tokens >= 1 THEN b.last ELSE read]

Filled(b, read) ==
  LET tokens == b.tokens + Rate * Elapsed(b.last, read)
  IN  [tokens |-> IF tokens < Burst THEN tokens ELSE Burst, last |-> read]

(* A client that is known: last is set even if that puts it back. *)
AllowKnown(t, k) ==
  /\ thread[t].key = {k} /\ k \in DOMAIN buckets
  /\ LET b == Filled(buckets[k], thread[t].read)
         allow == b.tokens >= 1
     IN  /\ buckets' = [buckets EXCEPT ![k] =
                          IF allow THEN [b EXCEPT !.tokens = @ - 1] ELSE b]
         /\ throttled' = throttled + (IF allow THEN 0 ELSE 1)
         /\ passed' = [passed EXCEPT ![k] = @ + (IF allow THEN 1 ELSE 0)]
  /\ recency' = Touched(k)
  /\ late' = [late EXCEPT ![k] = @ + (now - thread[t].read)]
  /\ thread' = [thread EXCEPT ![t] = Idle]
  /\ UNCHANGED <<now, since>>

Next ==
  \/ Tick
  \/ \E t \in Threads :
       \/ \E a \in Addresses : ReadClock(t, a)
       \/ \E k \in Keys : AllowNew(t, k) \/ AllowKnown(t, k)

Spec == Init /\ [][Next]_vars

-----------------------------------------------------------------------------
(* The type invariant; recency orders what is in the shard. *)
TypeOK ==
  /\ now \in 0 .. MaxTime
  /\ DOMAIN buckets \subseteq Keys
  /\ ToSet(recency) = DOMAIN buckets /\ Len(recency) = Cardinality(DOMAIN buckets)
  /\ Len(recency) <= PerShard
  /\ throttled \in Nat

(***************************************************************************)
(* ratelimit.rs:148: while a client is in the shard it is answered no more *)
(* queries than its burst, its rate times the time that has passed, and -- *)
(* since a thread that was overtaken puts the time of the last filling     *)
(* back, and the time after it is credited twice -- its rate times the     *)
(* time its threads were held up before the mutex; and however long it was *)
(* quiet, it has no more than its burst in hand.                           *)
(***************************************************************************)
RateIsKept ==
  \A k \in DOMAIN buckets :
    /\ buckets[k].tokens \in 0 .. Burst
    /\ passed[k] + buckets[k].tokens <= Burst + Rate * (now - since[k] + late[k])
=============================================================================
