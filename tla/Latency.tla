------------------------------- MODULE Latency -------------------------------
(***************************************************************************)
(* The answer times as percentiles (latency.rs).  Queries add to a fixed   *)
(* histogram, one atomic counter each; who reads it goes over the counters *)
(* twice, once for their sum and once for the buckets the percentiles lie  *)
(* in, and queries go on meanwhile.  Only the buckets that the durations   *)
(* of the model fall into are read; the others stay at nought.             *)
(***************************************************************************)
EXTENDS Integers, FiniteSets, FiniteSetsExt

CONSTANTS
  Durations,   \* in microseconds
  MaxObserved  \* bound on the measurements

VARIABLES
  buckets,   \* bucket -> count
  pass,      \* what the reader does: "idle", "sum", "walk" or "done"
  unread,    \* the buckets it has not come to
  total,     \* what it has summed up
  seen,      \* how many it has come by
  p50,       \* the bucket of the median, once it is found
  p95,
  measured,  \* history: duration -> number of queries
  quiet      \* history: nothing was measured since the reader began

reader == <<pass, unread, total, seen, p50, p95>>
vars == <<buckets, reader, measured, quiet>>

PerOctave == 16
Octaves == 26
Buckets == PerOctave * Octaves

(* bucket_of: sixteen steps to a doubling, fewer where there is no room; *)
(* all that is beyond the last doubling is in the last bucket.           *)
Power == [e \in 0 .. Octaves |-> 2 ^ e]
Exponent(value) == Max({e \in 0 .. Octaves : Power[e] <= value})
Step(e) == Power[Max({e - 4, 0})]

BucketOf(micros) ==
  LET value == Max({micros, 1})
      e == Exponent(value)
  IN  Min({e * PerOctave + (value - Power[e]) \div Step(e), Buckets - 1})

UpperMicros(index) ==
  LET e == index \div PerOctave
  IN  Power[e] + Step(e) * ((index % PerOctave) + 1)

Used == {BucketOf(d) : d \in Durations}

Init ==
  /\ buckets = [b \in Used |-> 0]
  /\ pass = "idle" /\ unread = {} /\ total = 0 /\ seen = 0 /\ p50 = {} /\ p95 = {}
  /\ measured = [d \in Durations |-> 0]
  /\ quiet = TRUE

-----------------------------------------------------------------------------
Sum(f, S) == MapThenSumSet(LAMBDA x : f[x], S)

Observe(d) ==
  /\ Sum(measured, Durations) < MaxObserved
  /\ buckets' = [buckets EXCEPT ![BucketOf(d)] = @ + 1]
  /\ measured' = [measured EXCEPT ![d] = @ + 1]
  /\ quiet' = FALSE
  /\ UNCHANGED reader

(* percentiles *)
Begin ==
  /\ pass = "idle"
  /\ pass' = "sum" /\ unread' = Used /\ quiet' = TRUE
  /\ total' = 0 /\ seen' = 0 /\ p50' = {} /\ p95' = {}
  /\ UNCHANGED <<buckets, measured>>

AddUp ==
  /\ pass = "sum" /\ unread # {}
  /\ total' = total + buckets[Min(unread)]
  /\ unread' = unread \ {Min(unread)}
  /\ UNCHANGED <<buckets, pass, seen, p50, p95, measured, quiet>>

(* As long as nothing is measured there is no answer. *)
Summed ==
  /\ pass = "sum" /\ unread = {}
  /\ IF total = 0 THEN pass' = "idle" /\ unread' = {}
     ELSE pass' = "walk" /\ unread' = Used
  /\ UNCHANGED <<buckets, total, seen, p50, p95, measured, quiet>>

Reached(count, numerator, denominator) == count * denominator >= total * numerator

Walk ==
  /\ pass = "walk" /\ unread # {}
  /\ LET next == Min(unread)
         count == seen + buckets[next]
         Found(p, numerator, denominator) ==
           IF p = {} /\ Reached(count, numerator, denominator) THEN {next} ELSE p
     IN  /\ seen' = count
         /\ p50' = Found(p50, 1, 2)
         /\ p95' = Found(p95, 19, 20)
         /\ unread' = unread \ {next}
  /\ UNCHANGED <<buckets, pass, total, measured, quiet>>

(* What was not found would be in the last bucket of all. *)
Answer ==
  /\ pass = "walk" /\ unread = {}
  /\ pass' = "done"
  /\ p50' = IF p50 = {} THEN {Buckets - 1} ELSE p50
  /\ p95' = IF p95 = {} THEN {Buckets - 1} ELSE p95
  /\ UNCHANGED <<buckets, unread, total, seen, measured, quiet>>

Leave ==
  /\ pass = "done" /\ pass' = "idle"
  /\ UNCHANGED <<buckets, unread, total, seen, p50, p95, measured, quiet>>

Next ==
  \/ Begin \/ AddUp \/ Summed \/ Walk \/ Answer \/ Leave
  \/ \E d \in Durations : Observe(d)

Spec == Init /\ [][Next]_vars

-----------------------------------------------------------------------------
(* The type invariant: the buckets are the measurements. *)
TypeOK ==
  /\ pass \in {"idle", "sum", "walk", "done"} /\ unread \subseteq Used
  /\ \A b \in Used : buckets[b] = Sum(measured, {d \in Durations : BucketOf(d) = b})

(***************************************************************************)
(* latency.rs:69-103: the two passes see different counters, and still no  *)
(* percentile is the makeshift of the last bucket: both lie in a bucket    *)
(* something was measured in, the median not above the other.  If nothing  *)
(* was measured meanwhile they are the true ones, never too small, and too *)
(* large by a sixteenth at most (latency.rs:11; by a microsecond below     *)
(* sixteen, and what takes longer than the last bucket counts as its end). *)
(***************************************************************************)
AtMost(d) == {x \in Durations : x <= d}
Quantile(numerator, denominator) ==
  Min({d \in Durations :
         Sum(measured, AtMost(d)) * denominator >= Sum(measured, Durations) * numerator})

Close(upper, d) ==
  LET real == Min({Max({d, 1}), UpperMicros(Buckets - 1) - 1})
  IN  /\ real < upper
      /\ upper - real <= Max({real \div PerOctave, 1})

PercentilesCover ==
  pass = "done" =>
    \A median \in p50, high \in p95 :
      /\ median <= high
      /\ {median, high} \subseteq {b \in Used : buckets[b] > 0}
      /\ quiet => /\ Close(UpperMicros(median), Quantile(1, 2))
                  /\ Close(UpperMicros(high), Quantile(19, 20))
=============================================================================
