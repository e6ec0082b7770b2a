------------------------------- MODULE Tunneling -------------------------------
(***************************************************************************)
(* The detector for data that leaves in the names of queries               *)
(* (detect/tunneling.rs): per zone a window of time, with the subdomains   *)
(* seen in it and what they look like.  A query is a record: name (a       *)
(* sequence of labels), entropy and length of its first label, and txt.    *)
(*                                                                         *)
(* A thread reads the clock before it takes the mutex.  Scores are in      *)
(* thousandths; a subdomain stands for its salted hash.                    *)
(***************************************************************************)
EXTENDS Integers, Names, FiniteSetsExt, TLC

CONSTANTS
  Threads,          \* tasks that answer queries
  Observations,     \* the queries
  Allowed,          \* detection.tunneling.allow_zones
  WindowLength,     \* detection.tunneling.window
  MaxZones,         \* MAX_ZONES
  MaxUniqueTracked, \* MAX_UNIQUE_TRACKED
  MinUnique,        \* MIN_UNIQUE
  FullUnique,       \* FULL_UNIQUE
  EntropyFloor, EntropyCeiling, LengthFloor, LengthCeiling,
  MaxTime,          \* bound on the clock
  MaxInspected      \* bound on the queries of one zone

VARIABLES
  now,     \* the clock
  windows, \* zone -> its window
  thread,  \* the query a thread is about and the time it has read, or nothing
  finding, \* the last finding: zone and score, or nothing
  seen     \* history: zone -> the subdomains counted in its window

vars == <<now, windows, thread, finding, seen>>

Init ==
  /\ now = 0 /\ windows = <<>> /\ seen = <<>>
  /\ thread = [t \in Threads |-> {}] /\ finding = {}

-----------------------------------------------------------------------------
(* split_zone: the last two labels, and what stands before them.           *)
ZoneOf(name) == TrimTo(name, 2)
Subdomain(name) == SubSeq(name, 1, Len(name) - 2)

(* is_allowed: compared with the two labels of the zone. *)
IsAllowed(zone) == \E a \in Allowed : Within(zone, a)

Elapsed(from, to) == IF to > from THEN to - from ELSE 0

NewWindow(at) ==
  [opened |-> at, queries |-> 0, unique |-> {}, overflow |-> 0, txt |-> 0,
   entropy |-> 0, length |-> 0]

UniqueCount(w) == Cardinality(w.unique) + w.overflow

(* Mutation: a subdomain that is known already counts as one that did not fit. *)
CountedAgain(w, o) ==
  LET sub == Subdomain(o.name)
      tracked == Cardinality(w.unique) < MaxUniqueTracked
  IN  [w EXCEPT !.queries = @ + 1, !.entropy = @ + o.entropy, !.length = @ + o.length,
                !.txt = @ + (IF o.txt THEN 1 ELSE 0),
                !.unique = IF tracked THEN @ \cup {sub} ELSE @,
                !.overflow = @ + (IF tracked /\ sub \notin w.unique THEN 0 ELSE 1)]

(* A subdomain is counted once while there is room, and then each time.    *)
Counted(w, o) ==
  LET tracked == Cardinality(w.unique) < MaxUniqueTracked
  IN  [w EXCEPT !.queries = @ + 1, !.entropy = @ + o.entropy, !.length = @ + o.length,
                !.txt = @ + (IF o.txt THEN 1 ELSE 0),
                !.unique = IF tracked THEN @ \cup {Subdomain(o.name)} ELSE @,
                !.overflow = @ + (IF tracked THEN 0 ELSE 1)]

(* clamp01, in thousandths. *)
Clamp(n, full) == IF n <= 0 THEN 0 ELSE IF n >= full THEN 1000 ELSE (n * 1000) \div full

Volume(n) == Clamp(n, FullUnique)

ScoreWindow(w) ==
  (50 * Volume(UniqueCount(w))
   + 25 * Clamp(w.entropy \div w.queries - EntropyFloor, EntropyCeiling - EntropyFloor)
   + 15 * Clamp(w.length \div w.queries - LengthFloor, LengthCeiling - LengthFloor)
   + 10 * Clamp(w.txt, w.queries)) \div 100

-----------------------------------------------------------------------------
Tick == now < MaxTime /\ now' = now + 1 /\ UNCHANGED <<windows, thread, finding, seen>>

(* inspect, up to the mutex: a name without a subdomain is none of it.     *)
ReadClock(t, o) ==
  /\ thread[t] = {}
  /\ Len(o.name) > 2 /\ ~IsAllowed(ZoneOf(o.name))
  /\ \A z \in DOMAIN windows : windows[z].queries < MaxInspected
  /\ thread' = [thread EXCEPT ![t] = {[query |-> o, read |-> now]}]
  /\ UNCHANGED <<now, windows, finding, seen>>

(* Windows that are over go first; then, for a new zone, the oldest one.   *)
Open(at) == {z \in DOMAIN windows : Elapsed(windows[z].opened, at) < WindowLength}

Oldest(zones) == {z \in zones : \A y \in zones : windows[z].opened <= windows[y].opened}

Evict(zones, zone) ==
  IF Cardinality(zones) < MaxZones \/ zone \in zones THEN {{}} ELSE {{z} : z \in Oldest(zones)}

(* inspect, under the mutex. *)
Inspect(t) ==
  \E x \in thread[t] :
    LET o == x.query
        zone == ZoneOf(o.name)
        open == Open(x.read)
    IN  \E gone \in Evict(open, zone) :
          LET kept == open \ gone
              before == IF zone \in kept THEN windows[zone] ELSE NewWindow(x.read)
              w == Counted(before, o)
          IN  /\ windows' = [z \in kept \cup {zone} |-> IF z = zone THEN w ELSE windows[z]]
              /\ seen' = [z \in kept \cup {zone} |->
                            IF z # zone THEN seen[z]
                            ELSE {Subdomain(o.name)} \cup IF z \in kept THEN seen[z] ELSE {}]
              /\ finding' = IF UniqueCount(w) < MinUnique \/ ScoreWindow(w) = 0 THEN {}
                            ELSE {[zone |-> zone, score |-> ScoreWindow(w)]}
              /\ thread' = [thread EXCEPT ![t] = {}]
              /\ UNCHANGED now

Next ==
  \/ Tick
  \/ \E t \in Threads : Inspect(t) \/ \E o \in Observations : ReadClock(t, o)

Spec == Init /\ [][Next]_vars

-----------------------------------------------------------------------------
(* The type invariant. *)
TypeOK ==
  /\ now \in 0 .. MaxTime
  /\ DOMAIN windows = DOMAIN seen /\ Cardinality(DOMAIN windows) <= MaxZones
  /\ \A z \in DOMAIN windows :
       /\ windows[z].unique \subseteq seen[z] /\ windows[z].opened <= now
       /\ Cardinality(windows[z].unique) <= MaxUniqueTracked
       /\ windows[z].txt <= windows[z].queries

(***************************************************************************)
(* tunneling.rs:106: the number of subdomains that no longer fit into a    *)
(* window counts repeated names, too, and yet never says more than is      *)
(* true where it matters: a zone is found only if it has had MIN_UNIQUE    *)
(* different subdomains within its window, and the share they have in the  *)
(* score is that of the subdomains it really had -- whatever windows were  *)
(* given up, and in whatever order threads come to the mutex.              *)
(***************************************************************************)
VolumeIsTrue ==
  /\ \A z \in DOMAIN windows : Volume(UniqueCount(windows[z])) = Volume(Cardinality(seen[z]))
  /\ \A f \in finding : Cardinality(seen[f.zone]) >= MinUnique
=============================================================================
