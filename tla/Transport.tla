------------------------------ MODULE Transport ------------------------------
(***************************************************************************)
(* The connection to one upstream (upstream/transport.rs): made when it is *)
(* first needed, shared by all queries, and thrown away when one of them   *)
(* fails on it.  An asynchronous mutex guards it, and is held while a      *)
(* connection is being made; a query gets a copy and is sent without it.   *)
(*                                                                         *)
(* Connections are numbered as they are made.  A query is a process that   *)
(* asks again and again.  What is sent and how an answer is checked is     *)
(* left out: an answer that does not fit the question, a verdict (bogus)   *)
(* and an error that is not one of the connection (Unproven) leave the     *)
(* connection alone like any answer.                                       *)
(***************************************************************************)
EXTENDS Integers, FiniteSets

CONSTANTS
  Queries,        \* queries under way at a time
  MaxConnections, \* bound on the connections made
  None

VARIABLES
  timed,      \* DNS over TLS, the one kind of upstream with a timeout
  connection, \* Transport::connection, a number or None
  lock,       \* the query that holds the mutex
  made,       \* connections made so far
  broken,     \* those that are dead
  pc,         \* where a query is in send_checked
  used,       \* the connection it has got
  known       \* history: connections some query had reported to have failed
              \* before it asked, and (under None) has reported by now

vars == <<timed, connection, lock, made, broken, pc, used, known>>

Init ==
  /\ timed \in BOOLEAN
  /\ connection = None
  /\ lock = None
  /\ made = 0
  /\ broken = {}
  /\ pc = [q \in Queries |-> "ready"]
  /\ used = [q \in Queries |-> None]
  /\ known = [q \in Queries \cup {None} |-> {}]

-----------------------------------------------------------------------------
(* The other side goes away, or the network does. *)
Break(k) ==
  /\ k \notin broken
  /\ broken' = broken \cup {k}
  /\ UNCHANGED <<timed, connection, lock, made, pc, used, known>>

Ask(q) ==
  /\ pc[q] = "ready"
  /\ pc' = [pc EXCEPT ![q] = "waiting"]
  /\ known' = [known EXCEPT ![q] = known[None]]
  /\ UNCHANGED <<timed, connection, lock, made, broken, used>>

(* Mutation: the lock is held over the whole exchange. *)
ReuseAlone(q) ==
  /\ pc[q] = "waiting"
  /\ lock = None
  /\ connection # None
  /\ \A r \in Queries : pc[r] # "sending"
  /\ used' = [used EXCEPT ![q] = connection]
  /\ pc' = [pc EXCEPT ![q] = "sending"]
  /\ UNCHANGED <<timed, connection, lock, made, broken, known>>

(* exchange: with the lock, the connection that is there, ... *)
Reuse(q) ==
  /\ pc[q] = "waiting"
  /\ lock = None
  /\ connection # None
  /\ used' = [used EXCEPT ![q] = connection]
  /\ pc' = [pc EXCEPT ![q] = "sending"]
  /\ UNCHANGED <<timed, connection, lock, made, broken, known>>

(* ... or a new one, ... *)
Connect(q) ==
  /\ pc[q] = "waiting"
  /\ lock = None
  /\ connection = None
  /\ lock' = q
  /\ pc' = [pc EXCEPT ![q] = "connecting"]
  /\ UNCHANGED <<timed, connection, made, broken, used, known>>

(* ... which is there for all then, ... *)
Connected(q) ==
  /\ pc[q] = "connecting"
  /\ made < MaxConnections
  /\ made' = made + 1
  /\ connection' = made'
  /\ used' = [used EXCEPT ![q] = made']
  /\ lock' = None
  /\ pc' = [pc EXCEPT ![q] = "sending"]
  /\ UNCHANGED <<timed, broken, known>>

(* ... unless it fails. *)
NotConnected(q) ==
  /\ pc[q] = "connecting"
  /\ lock' = None
  /\ pc' = [pc EXCEPT ![q] = "ready"]
  /\ UNCHANGED <<timed, connection, made, broken, used, known>>

Answer(q) ==
  /\ pc[q] = "sending"
  /\ used[q] \notin broken
  /\ used' = [used EXCEPT ![q] = None]
  /\ pc' = [pc EXCEPT ![q] = "ready"]
  /\ UNCHANGED <<timed, connection, lock, made, broken, known>>

(* The stream gives an error, or ends: on a dead connection, or because    *)
(* this one answer has not come in time.                                   *)
Fail(q) ==
  /\ pc[q] = "sending"
  /\ pc' = [pc EXCEPT ![q] = "failing"]
  /\ UNCHANGED <<timed, connection, lock, made, broken, used, known>>

(* Mutation: the error is returned with the connection as it is. *)
Return(q) ==
  /\ pc[q] = "failing"
  /\ known' = [known EXCEPT ![None] = @ \cup {used[q]}]
  /\ used' = [used EXCEPT ![q] = None]
  /\ pc' = [pc EXCEPT ![q] = "ready"]
  /\ UNCHANGED <<timed, connection, lock, made, broken>>

(* invalidate takes the lock and throws away what is there; then the error *)
(* is returned.                                                            *)
Invalidate(q) ==
  /\ pc[q] = "failing"
  /\ lock = None
  /\ connection' = None
  /\ known' = [known EXCEPT ![None] = @ \cup {used[q]}]
  /\ used' = [used EXCEPT ![q] = None]
  /\ pc' = [pc EXCEPT ![q] = "ready"]
  /\ UNCHANGED <<timed, lock, made, broken>>

-----------------------------------------------------------------------------
Locks(q) == Reuse(q) \/ Connect(q) \/ Invalidate(q)
Ends(q) == Connected(q) \/ NotConnected(q) \/ Answer(q) \/ Fail(q)

Next ==
  \/ \E k \in 1 .. made : Break(k)
  \/ \E q \in Queries : Ask(q) \/ Locks(q) \/ Ends(q)

Spec == Init /\ [][Next]_vars

(***************************************************************************)
(* The mutex is fair (its waiters are a queue), so one that is free again  *)
(* and again is got.  Connecting and sending come to an end where the code *)
(* hands its timeout to the library, which is for DoT only.                *)
(***************************************************************************)
Fairness == \A q \in Queries : SF_vars(Locks(q)) /\ WF_vars(timed /\ Ends(q))

FairSpec == Spec /\ Fairness

-----------------------------------------------------------------------------
(* The type invariant. *)
TypeOK ==
  /\ timed \in BOOLEAN
  /\ made \in 0 .. MaxConnections
  /\ connection \in 1 .. made \cup {None}
  /\ lock \in Queries \cup {None}
  /\ broken \subseteq 1 .. made
  /\ pc \in [Queries -> {"ready", "waiting", "connecting", "sending", "failing"}]
  /\ \A q \in Queries :
       IF pc[q] \in {"sending", "failing"} THEN used[q] \in 1 .. made ELSE used[q] = None
  /\ known \in [Queries \cup {None} -> SUBSET (1 .. made)]

(***************************************************************************)
(* transport.rs:5: a query that is asked after another has reported the    *)
(* failure of a connection does not get that connection again.             *)
(***************************************************************************)
FailedIsNotReused ==
  \A q \in Queries : pc[q] \in {"sending", "failing"} => used[q] \notin known[q]

(***************************************************************************)
(* transport.rs:121, 245: where there is a timeout, every query comes to   *)
(* its end, with an answer or an error, although they wait for each        *)
(* other's connection to be made.  Where there is none, an exchange that   *)
(* hangs holds nobody else up: unless it is a connect that hangs, every    *)
(* query gets its connection or its turn to make one, and every failure is *)
(* reported.                                                               *)
(***************************************************************************)
NeedsTheLock == {"waiting", "failing"}

EveryQueryEnds ==
  /\ \A q \in Queries : (timed /\ pc[q] = "waiting") ~> pc[q] = "ready"
  /\ (\A q \in Queries : []<>(pc[q] # "connecting")) =>
       \A q \in Queries : pc[q] \in NeedsTheLock ~> pc[q] \notin NeedsTheLock
=============================================================================
