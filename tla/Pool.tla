-------------------------------- MODULE Pool --------------------------------
(***************************************************************************)
(* The upstream pool of upstream/pool.rs: requests try the upstreams of    *)
(* one pool in an order fixed when they begin, and what they meet changes  *)
(* the passive health of the upstreams, which concurrent requests share.   *)
(*                                                                         *)
(* The failure counter of an upstream is an atomic, the moment until which *)
(* it is skipped sits behind a mutex of its own: recording a failure or a  *)
(* success is two steps, and another request's steps fall between them.    *)
(* Latencies and lifetime counters, which only statistics read, are left   *)
(* out.                                                                    *)
(***************************************************************************)
EXTENDS Integers, Sequences, SequencesExt, FiniteSets

CONSTANTS
  Count,            \* upstreams are numbered 1..Count, as configured
  Requests,         \* concurrent calls of Pool::resolve
  Zones,            \* registrable domains that are asked for
  Seeds,            \* the zone seeds that rotation may draw
  ZoneIndex,        \* [Seeds -> [Zones -> upstream]], strategy::zone_index
  FailureThreshold, \* FAILURE_THRESHOLD
  DownDuration,     \* DOWN_DURATION
  None,
  MaxTime,          \* bound: the clock stops here
  MaxFailures       \* bound: failures in a row are counted no further

Upstreams == 1..Count

ASSUME PoolAssumption ==
  /\ Count \in Nat
  /\ Seeds # {}
  /\ ZoneIndex \in [Seeds -> [Zones -> Upstreams]]
  /\ FailureThreshold \in Nat \ {0}
  /\ DownDuration \in Nat
  /\ MaxTime \in Nat
  /\ MaxFailures \in Nat /\ MaxFailures >= FailureThreshold
  /\ None \notin Nat

VARIABLES
  now,          \* the clock
  seed,         \* Pool::seed
  consecutive,  \* Health::consecutive_failures
  downUntil,    \* Health::down_until
  pc,           \* request -> where it is
  todo,         \* request -> upstreams still to try, in order
  current,      \* request -> the upstream try_one works on
  until,        \* request -> the deadline it is about to write
  asked,        \* history: upstreams that were shown the request's question
  home,         \* history: its zone's upstream when the order was fixed
  detour        \* history: upstreams that were skipped or failed it

health == <<consecutive, downUntil>>
locals == <<todo, current, until>>
history == <<asked, home, detour>>
vars == <<now, seed, consecutive, downUntil, pc, todo, current, until, asked,
          home, detour>>

Init ==
  /\ now = 0
  /\ seed \in Seeds
  /\ consecutive = [u \in Upstreams |-> 0]
  /\ downUntil = [u \in Upstreams |-> None]
  /\ pc = [r \in Requests |-> "idle"]
  /\ todo = [r \in Requests |-> <<>>]
  /\ current = [r \in Requests |-> None]
  /\ until = [r \in Requests |-> None]
  /\ asked = [r \in Requests |-> {}]
  /\ home = [r \in Requests |-> None]
  /\ detour = [r \in Requests |-> {}]

Goto(r, place) == pc' = [pc EXCEPT ![r] = place]

(* Pool::resolve returns; the request and what is known of it are gone. *)
Return(r) ==
  /\ Goto(r, "idle")
  /\ todo' = [todo EXCEPT ![r] = <<>>]
  /\ current' = [current EXCEPT ![r] = None]
  /\ until' = [until EXCEPT ![r] = None]
  /\ asked' = [asked EXCEPT ![r] = {}]
  /\ home' = [home EXCEPT ![r] = None]
  /\ detour' = [detour EXCEPT ![r] = {}]

IsDown(u) == downUntil[u] # None /\ now < downUntil[u]

-----------------------------------------------------------------------------
(* strategy::by_zone: the zone's upstream, then the others in a circle. *)
ByZone(z) ==
  [i \in 1..Count |-> ((ZoneIndex[seed][z] - 1 + i - 1) % Count) + 1]

(* Those of an order that are among us, as they stand in it. *)
Among(order, us) ==
  LET first[n \in 0 .. Len(order)] ==
        IF n = 0 THEN <<>>
        ELSE IF order[n] \in us THEN Append(first[n - 1], order[n]) ELSE first[n - 1]
  IN  first[Len(order)]

Down == {u \in Upstreams : IsDown(u)}

(* Mutation: upstreams that are down fly out. *)
OrderWithoutDown(z) == Among(ByZone(z), Upstreams \ Down)

(* Pool::order: those that are down keep their order, behind the others. *)
Order(z) == Among(ByZone(z), Upstreams \ Down) \o Among(ByZone(z), Down)

(* rotate_to *)
Rotate ==
  /\ seed' \in Seeds \ {seed}
  /\ UNCHANGED <<now, health, pc, locals, history>>

(* Pool::resolve fixes the order of its attempts ... *)
Begin(r, z) ==
  /\ pc[r] = "idle"
  /\ todo' = [todo EXCEPT ![r] = Order(z)]
  /\ Goto(r, "next")
  /\ asked' = [asked EXCEPT ![r] = {}]
  /\ home' = [home EXCEPT ![r] = ZoneIndex[seed][z]]
  /\ detour' = [detour EXCEPT ![r] = Down]
  /\ UNCHANGED <<now, seed, health, current, until>>

(* ... and keeps to it: the next upstream is asked, ... *)
Try(r) ==
  /\ pc[r] = "next"
  /\ todo[r] # <<>>
  /\ current' = [current EXCEPT ![r] = Head(todo[r])]
  /\ todo' = [todo EXCEPT ![r] = Tail(@)]
  /\ Goto(r, "asking")
  /\ asked' = [asked EXCEPT ![r] = @ \cup {Head(todo[r])}]
  /\ UNCHANGED <<now, seed, health, until, home, detour>>

(* ... and when nobody is left the last error is the result (which of the  *)
(* errors it is makes no difference to any caller).                        *)
GiveUp(r) ==
  /\ pc[r] = "next"
  /\ todo[r] = <<>>
  /\ Return(r)
  /\ UNCHANGED <<now, seed, health>>

-----------------------------------------------------------------------------
(* What the upstream comes to: try_one. *)

UpstreamAnswers(r) ==
  /\ pc[r] = "asking"
  /\ Goto(r, "succeeded")
  /\ UNCHANGED <<now, seed, health, todo, current, until, history>>

(* Mutation: a bogus answer is one more reason to ask the next upstream. *)
BogusGoesOn(r) ==
  /\ pc[r] = "asking"
  /\ Goto(r, "next")
  /\ UNCHANGED <<now, seed, health, locals, history>>

(* Terminal, and nothing is counted against the upstream. *)
UpstreamIsBogus(r) ==
  /\ pc[r] = "asking"
  /\ Return(r)
  /\ UNCHANGED <<now, seed, health>>

(* Nothing is counted, but the next upstream is asked. *)
UpstreamIsUnproven(r) ==
  /\ pc[r] = "asking"
  /\ detour' = [detour EXCEPT ![r] = @ \cup {current[r]}]
  /\ Goto(r, "next")
  /\ UNCHANGED <<now, seed, health, todo, current, until, asked, home>>

UpstreamFails(r) ==
  /\ pc[r] = "asking"
  /\ detour' = [detour EXCEPT ![r] = @ \cup {current[r]}]
  /\ Goto(r, "failed")
  /\ UNCHANGED <<now, seed, health, todo, current, until, asked, home>>

-----------------------------------------------------------------------------
(* Mutation: the counter goes down by one. *)
CountDown(r) ==
  /\ pc[r] = "succeeded"
  /\ consecutive' = [consecutive EXCEPT ![current[r]] = @ - 1]
  /\ Return(r)
  /\ UNCHANGED <<now, seed, downUntil>>

(* record_success: the counter is swapped with 0 ... *)
ResetCounter(r) ==
  LET u == current[r]
      wasDown == consecutive[u] >= FailureThreshold
  IN  /\ pc[r] = "succeeded"
      /\ consecutive' = [consecutive EXCEPT ![u] = 0]
      /\ IF wasDown
         THEN Goto(r, "clearing") /\ UNCHANGED <<locals, history>>
         ELSE Return(r)
      /\ UNCHANGED <<now, seed, downUntil>>

(* ... and if it had reached the threshold, the upstream is let in again. *)
ClearDown(r) ==
  /\ pc[r] = "clearing"
  /\ downUntil' = [downUntil EXCEPT ![current[r]] = None]
  /\ Return(r)
  /\ UNCHANGED <<now, seed, consecutive>>

(* record_failure: the counter grows, and on the very failure that reaches *)
(* the threshold a deadline is computed ...                                *)
CountFailure(r) ==
  LET u == current[r]
      failures == consecutive[u] + 1
      reached == failures = FailureThreshold
  IN  /\ pc[r] = "failed"
      /\ consecutive' =
           [consecutive EXCEPT ![u] = IF failures > MaxFailures THEN @ ELSE failures]
      /\ until' = [until EXCEPT ![r] = IF reached THEN now + DownDuration ELSE None]
      /\ Goto(r, IF reached THEN "marking" ELSE "next")
      /\ UNCHANGED <<now, seed, downUntil, todo, current, history>>

(* ... and written. *)
MarkDown(r) ==
  /\ pc[r] = "marking"
  /\ downUntil' = [downUntil EXCEPT ![current[r]] = until[r]]
  /\ until' = [until EXCEPT ![r] = None]
  /\ Goto(r, "next")
  /\ UNCHANGED <<now, seed, consecutive, todo, current, history>>

-----------------------------------------------------------------------------
Tick ==
  /\ now < MaxTime
  /\ now' = now + 1
  /\ UNCHANGED <<seed, health, pc, locals, history>>

Proceed(r) ==
  \/ Try(r) \/ GiveUp(r)
  \/ UpstreamAnswers(r) \/ UpstreamIsBogus(r)
  \/ UpstreamIsUnproven(r) \/ UpstreamFails(r)
  \/ ResetCounter(r) \/ ClearDown(r) \/ CountFailure(r) \/ MarkDown(r)

Next ==
  \/ Tick
  \/ Rotate
  \/ \E r \in Requests : Proceed(r) \/ \E z \in Zones : Begin(r, z)

Spec == Init /\ [][Next]_vars

-----------------------------------------------------------------------------
Places ==
  {"idle", "next", "asking", "succeeded", "clearing", "failed", "marking"}

(* The type invariant; a request that works on an upstream has one. *)
TypeOK ==
  /\ now \in 0..MaxTime
  /\ seed \in Seeds
  /\ consecutive \in [Upstreams -> 0..MaxFailures]
  /\ downUntil \in [Upstreams -> Nat \cup {None}]
  /\ pc \in [Requests -> Places]
  /\ todo \in [Requests -> Seq(Upstreams)]
  /\ current \in [Requests -> Upstreams \cup {None}]
  /\ until \in [Requests -> Nat \cup {None}]
  /\ asked \in [Requests -> SUBSET Upstreams]
  /\ home \in [Requests -> Upstreams \cup {None}]
  /\ detour \in [Requests -> SUBSET Upstreams]
  /\ \A r \in Requests :
       pc[r] \in {"asking", "succeeded", "clearing", "failed", "marking"}
         => current[r] \in Upstreams

(***************************************************************************)
(* Fail open: the order never loses an upstream, those that count as down  *)
(* included, and never names one twice.  So a request without an answer    *)
(* and a bogus verdict gives up only after it asked every upstream, and    *)
(* asks none of them twice.                                                *)
(***************************************************************************)
NobodyIsLeftOut ==
  \A r \in Requests :
    /\ pc[r] # "idle" => asked[r] \cup ToSet(todo[r]) = Upstreams
    /\ \A i, j \in DOMAIN todo[r] : todo[r][i] = todo[r][j] => i = j
    /\ \A i \in DOMAIN todo[r] : todo[r][i] \notin asked[r]

(***************************************************************************)
(* split_by_zone: a question is shown to another upstream than its zone's  *)
(* only after that one failed it or because it counted as down when the    *)
(* order was fixed; and, step by step, each further upstream sees it only  *)
(* because all that were asked before it came to nothing.  Rotations and   *)
(* other requests' failures in between change nothing.                     *)
(***************************************************************************)
QuestionsStayHome ==
  \A r \in Requests :
    /\ asked[r] \ {home[r]} # {} => home[r] \in detour[r]
    /\ Cardinality(asked[r] \ detour[r]) <= 1

(***************************************************************************)
(* ADR-0012: after three failed attempts an upstream is skipped.  A        *)
(* failure that is the third in a row or a later one is about to mark the  *)
(* upstream or finds it skipped already.                                   *)
(***************************************************************************)
FailingIsSkipped ==
  [][\A r \in Requests :
       pc[r] = "failed" /\ pc'[r] # "failed"
         /\ consecutive'[current[r]] >= FailureThreshold
       => pc'[r] = "marking" \/ IsDown(current[r])]_vars
=============================================================================
