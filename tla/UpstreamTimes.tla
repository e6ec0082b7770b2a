---------------------------- MODULE UpstreamTimes ----------------------------
(***************************************************************************)
(* The answer times of one upstream (upstream/pool.rs): a window of the    *)
(* last ones, behind a mutex, and a moving mean that two queries may read  *)
(* and write at once.                                                      *)
(***************************************************************************)
EXTENDS Integers, FiniteSets, FiniteSetsExt, Sequences, Functions

CONSTANTS
  Threads,    \* queries the upstream has answered
  Durations,  \* in microseconds
  Samples,    \* LATENCY_SAMPLES
  MaxAnswers  \* bound on the answers

VARIABLES
  window,   \* the last answer times
  mean,     \* their moving mean, 0 without any
  writing,  \* what a query is about to write: nothing, or [rtt, previous]
  times,    \* history: the times this upstream took
  answers   \* history: how many

vars == <<window, mean, writing, times, answers>>

Init ==
  /\ window = <<>> /\ mean = 0 /\ writing = [t \in Threads |-> {}]
  /\ times = {} /\ answers = 0

(* record_success: the window first, ... *)
Succeed(t, d) ==
  /\ writing[t] = {} /\ answers < MaxAnswers
  /\ window' = Append(IF Len(window) = Samples THEN Tail(window) ELSE window, d)
  /\ writing' = [writing EXCEPT ![t] = {[rtt |-> d, previous |-> {}]}]
  /\ times' = times \cup {d} /\ answers' = answers + 1
  /\ UNCHANGED mean

(* ... then the mean that is there, ... *)
LoadMean(t) ==
  \E s \in writing[t] :
    /\ s.previous = {}
    /\ writing' = [writing EXCEPT ![t] = {[s EXCEPT !.previous = {mean}]}]
    /\ UNCHANGED <<window, mean, times, answers>>

(* Mutation: the mean begins at nought. *)
MeanFromNought(rtt, previous) == (rtt + 3 * previous) \div 4

(* ... and a quarter of the way from it to this answer, rounded down. *)
Mean(rtt, previous) == IF previous = 0 THEN rtt ELSE (rtt + 3 * previous) \div 4

StoreMean(t) ==
  \E s \in writing[t] : \E previous \in s.previous :
    /\ mean' = Mean(s.rtt, previous)
    /\ writing' = [writing EXCEPT ![t] = {}]
    /\ UNCHANGED <<window, times, answers>>

(* Latency::percentiles: the nearest rank of the sorted window, that is the *)
(* least of its times that so many of them do not exceed.                   *)
UpTo(d) == {i \in DOMAIN window : window[i] <= d}

Pick(percent) ==
  LET rank == 1 + (2 * (Len(window) - 1) * percent + 100) \div 200
  IN  Min({d \in Range(window) : Cardinality(UpTo(d)) >= rank})

Next ==
  \E t \in Threads :
    \/ LoadMean(t) \/ StoreMean(t)
    \/ \E d \in Durations : Succeed(t, d)

Spec == Init /\ [][Next]_vars

-----------------------------------------------------------------------------
(* The type invariant. *)
TypeOK ==
  /\ Len(window) <= Samples /\ Range(window) \subseteq times
  /\ mean \in Nat /\ times \subseteq Durations

(* upstream/pool.rs:315: whoever overtakes whom in between, the mean of an *)
(* upstream stays among the times it took; half of the window's are not    *)
(* above its median.                                                       *)
UpstreamTimesAreRight ==
  window # <<>> =>
    /\ Pick(50) <= Pick(95)
    /\ 2 * Cardinality(UpTo(Pick(50))) >= Len(window)
    /\ mean # 0 => mean \in Min(times) .. Max(times)
=============================================================================
