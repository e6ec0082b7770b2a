------------------------------ MODULE MCSockets ------------------------------
(***************************************************************************)
(* Both ends of the server's sockets: the listeners with three connections *)
(* of two clients, of which one holds on to its connections for ever, and  *)
(* two queries that share an upstream's connection.  A behaviour is one of *)
(* one side: the listeners have ended where the upstream's connection is   *)
(* looked at, and nothing is asked of an upstream where they are.          *)
(***************************************************************************)
EXTENDS Listeners, TLC

CONSTANTS
  c1, c2, c3, main, phone, laptop, \* connections, a listener and clients
  Queries, None, MaxMade           \* those of Transport

ASSUME TransportAssumption ==
  /\ None \notin Queries
  /\ None \notin Nat
  /\ MaxMade \in Nat

MCOwner == c1 :> phone @@ c2 :> phone @@ c3 :> laptop
MCTarget == [c \in Connections |-> main]

VARIABLES side, timed, connection, lock, made, broken, pc, used, known

Up == INSTANCE Transport WITH MaxConnections <- MaxMade

upVars == <<timed, connection, lock, made, broken, pc, used, known>>
allVars == <<side, vars, upVars>>

(* The listeners when they have come to their end. *)
Ended ==
  /\ backlog = [l \in TcpListeners |-> <<>>]
  /\ acceptor = [l \in TcpListeners |-> "ended"]
  /\ permits = [l \in TcpListeners |-> MaxConnections]
  /\ open = [l \in TcpListeners |-> <<>>]
  /\ conn = [c \in Connections |-> "away"]
  /\ receiving = FALSE
  /\ inflight = {}
  /\ shutdown = TRUE
  /\ returned = TRUE

MCInit ==
  /\ side \in {"listeners", "upstream"}
  /\ IF side = "listeners" THEN Init ELSE Ended
  /\ Up!Init

MCNext ==
  \/ side = "listeners" /\ Next /\ UNCHANGED <<side, upVars>>
  \/ side = "upstream" /\ Up!Next /\ UNCHANGED <<side, vars>>

MCSpec == MCInit /\ [][MCNext]_allVars /\ ServerFairness /\ Up!Fairness

-----------------------------------------------------------------------------
(* upstream/transport.rs:5: see Transport. *)
FailedIsNotReused == Up!FailedIsNotReused

(* upstream/transport.rs:121, 245: see Transport. *)
EveryQueryEnds == Up!EveryQueryEnds
=============================================================================
