------------------------------- MODULE History -------------------------------
(***************************************************************************)
(* The traffic of the last day (history.rs): a task samples the process's  *)
(* counters (main.rs, sample_history) and adds what they have grown by to  *)
(* the current bucket of a ring; buckets are rolled on by the clock.       *)
(*                                                                         *)
(* One counter stands for the queries, the blocked ones and those of the   *)
(* cache and the upstreams, which are treated alike.                       *)
(***************************************************************************)
EXTENDS Integers, Sequences, FiniteSetsExt, SequencesExt

CONSTANTS
  Width,       \* BUCKET, in ticks of the clock
  Buckets,     \* BUCKETS
  MaxPause,    \* the longest time between two samples
  MaxTime,     \* bound on the clock
  MaxCounter   \* bound on the counter

VARIABLES
  now,      \* the clock
  counter,  \* the process's counter
  buckets,  \* the ring, the oldest bucket first
  started,  \* current_started
  last,     \* the sample before: {} or {counter}
  sampled,  \* when it was taken
  deltas    \* history: by how much it was seen to grow, and when

vars == <<now, counter, buckets, started, last, sampled, deltas>>

Init ==
  /\ now = 0 /\ counter = 0
  /\ buckets = <<0>> /\ started = 0
  /\ last = {} /\ sampled = 0
  /\ deltas = [t \in 0 .. MaxTime |-> 0]

-----------------------------------------------------------------------------
(* The sampler's interval is short: it does not pause for MaxPause. *)
Tick ==
  /\ now < MaxTime /\ now - sampled < MaxPause
  /\ now' = now + 1
  /\ UNCHANGED <<counter, buckets, started, last, sampled, deltas>>

Query ==
  /\ counter < MaxCounter
  /\ counter' = counter + 1
  /\ UNCHANGED <<now, buckets, started, last, sampled, deltas>>

(* roll: never more steps than there are buckets. *)
Steps == Min({(now - started) \div Width, Buckets})

Rolled ==
  LET longer == buckets \o [i \in 1 .. Steps |-> 0]
      surplus == IF Len(longer) > Buckets THEN Len(longer) - Buckets ELSE 0
  IN  SubSeq(longer, surplus + 1, Len(longer))

(* The counter has grown since the sample before; the first is a start. *)
Delta == IF last = {} THEN 0 ELSE counter - (CHOOSE c \in last : TRUE)

(* Mutation: the current bucket begins when it was rolled to. *)
ObserveFromNow ==
  /\ buckets' = [Rolled EXCEPT ![Len(Rolled)] = @ + Delta]
  /\ started' = IF Steps > 0 THEN now ELSE started
  /\ last' = {counter} /\ sampled' = now
  /\ deltas' = [deltas EXCEPT ![now] = @ + Delta]
  /\ UNCHANGED <<now, counter>>

(* observe: roll, then add. *)
Observe ==
  /\ buckets' = [Rolled EXCEPT ![Len(Rolled)] = @ + Delta]
  /\ started' = started + Steps * Width
  /\ last' = {counter} /\ sampled' = now
  /\ deltas' = [deltas EXCEPT ![now] = @ + Delta]
  /\ UNCHANGED <<now, counter>>

Next == Tick \/ Query \/ Observe

Spec == Init /\ [][Next]_vars

-----------------------------------------------------------------------------
(* The type invariant: at least one bucket, at most all. *)
TypeOK ==
  /\ Len(buckets) \in 1 .. Buckets
  /\ started \in 0 .. now /\ sampled \in 0 .. now
  /\ \A i \in 1 .. Len(buckets) : buckets[i] \in Nat

(***************************************************************************)
(* history.rs:148: each bucket holds the traffic that was seen in its own  *)
(* stretch of time, counted back from the start of the current one; no     *)
(* growth is shown in a wrong place, twice, or not at all.  A sampler that *)
(* pauses for longer than the ring would break this: the start of the      *)
(* current bucket then lags behind, and the next sample wipes the ring     *)
(* once more.                                                              *)
(***************************************************************************)
SeenIn(from) ==
  MapThenSumSet(LAMBDA t : deltas[t], {t \in 0 .. MaxTime : from <= t /\ t < from + Width})

BucketsTellTheTime ==
  \A i \in 1 .. Len(buckets) :
    buckets[i] = SeenIn(started - (Len(buckets) - i) * Width)
=============================================================================
