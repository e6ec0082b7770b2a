---------------------------- MODULE SingleFlight ----------------------------
(***************************************************************************)
(* What query deduplication promises, free of how caching.rs keeps it: a   *)
(* key is owned by at most one task, others may join the owner, and when   *)
(* the owner settles, in that one moment, everybody who joined has the     *)
(* outcome and the key is free again.  Nobody can join too late to be told *)
(* or stay behind with an owner that is gone.                              *)
(***************************************************************************)
CONSTANTS
  Tasks,
  Keys,
  Outcomes,   \* what settling a key may yield
  Nobody,     \* the key is not owned
  Nothing     \* no key joined, no outcome yet

VARIABLES
  owner,   \* key -> the task resolving it
  host,    \* task -> the key it has joined
  box      \* task -> the outcome it was handed

flightVars == <<owner, host, box>>

FlightInit ==
  /\ owner = [k \in Keys |-> Nobody]
  /\ host = [t \in Tasks |-> Nothing]
  /\ box = [t \in Tasks |-> Nothing]

Busy(t) == host[t] # Nothing \/ \E k \in Keys : owner[k] = t

Own(t, k) ==
  /\ ~Busy(t)
  /\ owner[k] = Nobody
  /\ owner' = [owner EXCEPT ![k] = t]
  /\ UNCHANGED <<host, box>>

Join(t, k) ==
  /\ ~Busy(t)
  /\ owner[k] # Nobody
  /\ host' = [host EXCEPT ![t] = k]
  /\ UNCHANGED <<owner, box>>

(* The owner is done, well or badly, or is gone. *)
Settle(k, outcome) ==
  /\ owner[k] # Nobody
  /\ owner' = [owner EXCEPT ![k] = Nobody]
  /\ box' = [t \in Tasks |->
               IF host[t] = k /\ box[t] = Nothing THEN outcome ELSE box[t]]
  /\ UNCHANGED host

(* A guest leaves with the outcome, or gives up waiting. *)
Leave(t) ==
  /\ host[t] # Nothing
  /\ host' = [host EXCEPT ![t] = Nothing]
  /\ box' = [box EXCEPT ![t] = Nothing]
  /\ UNCHANGED owner

FlightNext ==
  \/ \E t \in Tasks, k \in Keys : Own(t, k) \/ Join(t, k)
  \/ \E k \in Keys, o \in Outcomes : Settle(k, o)
  \/ \E t \in Tasks : Leave(t)

FlightSpec == FlightInit /\ [][FlightNext]_flightVars
=============================================================================
