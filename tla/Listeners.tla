------------------------------ MODULE Listeners ------------------------------
(***************************************************************************)
(* The server's listeners (server/mod.rs, tcp.rs, udp.rs): who is let in,  *)
(* how long a connection may stay, and how the server comes to an end.     *)
(*                                                                         *)
(* A TCP listener has a number of permits, one of which it takes before it *)
(* accepts, and a table of how many connections each client has open; both *)
(* are given back by guards when the connection's task ends.  All UDP      *)
(* listeners share one number of permits and are modelled as one.          *)
(*                                                                         *)
(* A connection is named by what it is, so one that has ended may come     *)
(* again.  Left out: the counters for the metrics, the log, accept and     *)
(* recv_from failing (the loop goes on), and a panic in a task.  The rate  *)
(* limit and the layers below are one step here, an answer or none.        *)
(***************************************************************************)
EXTENDS Integers, Sequences, FiniteSets, SequencesExt

CONSTANTS
  TcpListeners,   \* the TCP listeners
  Clients,        \* source addresses
  Connections,    \* TCP connections
  Owner,          \* [Connections -> Clients]
  Target,         \* [Connections -> TcpListeners]
  Packets,        \* UDP queries
  MaxConnections, \* MAX_CONNECTIONS
  MaxPerClient,   \* MAX_PER_CLIENT
  MaxInflight,    \* max_inflight
  Silent          \* clients whose connections may stay for ever: they do not
                  \* read their answers, or nothing answers them

ASSUME ListenersAssumption ==
  /\ IsFiniteSet(Connections)
  /\ Owner \in [Connections -> Clients]
  /\ Target \in [Connections -> TcpListeners]
  /\ MaxConnections \in Nat \ {0}
  /\ MaxPerClient \in Nat \ {0}
  /\ MaxInflight \in Nat \ {0}
  /\ Silent \subseteq Clients

VARIABLES
  backlog,   \* [TcpListeners -> Seq(Connections)]: what the kernel holds
  acceptor,  \* where the accept loop of a listener is
  permits,   \* free permits of a listener
  open,      \* a listener's table: client -> connections
  conn,      \* where a connection is
  receiving, \* whether the UDP loop runs
  inflight,  \* UDP queries that are being answered
  shutdown,  \* the CancellationToken
  returned   \* Bound::run has returned

accepting == <<backlog, acceptor>>
limits == <<permits, open>>
datagrams == <<receiving, inflight>>
vars == <<backlog, acceptor, permits, open, conn, receiving, inflight,
          shutdown, returned>>

(* The steps of a connection's task, in which it holds both its guards. *)
Serving == {"prefix", "body", "resolving", "writing", "ending"}

Init ==
  /\ backlog = [l \in TcpListeners |-> <<>>]
  /\ acceptor = [l \in TcpListeners |-> "acquiring"]
  /\ permits = [l \in TcpListeners |-> MaxConnections]
  /\ open = [l \in TcpListeners |-> <<>>]
  /\ conn = [c \in Connections |-> "away"]
  /\ receiving = TRUE
  /\ inflight = {}
  /\ shutdown = FALSE
  /\ returned = FALSE

-----------------------------------------------------------------------------
(* A client opens a connection: it is in the kernel's queue. *)
Connect(c) ==
  /\ conn[c] = "away"
  /\ acceptor[Target[c]] # "ended"
  /\ conn' = [conn EXCEPT ![c] = "queued"]
  /\ backlog' = [backlog EXCEPT ![Target[c]] = Append(@, c)]
  /\ UNCHANGED <<acceptor, limits, datagrams, shutdown, returned>>

(* The signal: the token is cancelled. *)
Shutdown ==
  /\ ~shutdown
  /\ shutdown' = TRUE
  /\ UNCHANGED <<accepting, limits, conn, datagrams, returned>>

-----------------------------------------------------------------------------
(* tcp::serve: the place first, ... *)
Acquire(l) ==
  /\ acceptor[l] = "acquiring"
  /\ permits[l] > 0
  /\ permits' = [permits EXCEPT ![l] = @ - 1]
  /\ acceptor' = [acceptor EXCEPT ![l] = "accepting"]
  /\ UNCHANGED <<backlog, open, conn, datagrams, shutdown, returned>>

(* ... then the connection, ... *)
Accept(l) ==
  /\ acceptor[l] = "accepting"
  /\ backlog[l] # <<>>
  /\ acceptor' = [acceptor EXCEPT ![l] = "admitting"]
  /\ conn' = [conn EXCEPT ![Head(backlog[l])] = "accepted"]
  /\ backlog' = [backlog EXCEPT ![l] = Tail(@)]
  /\ UNCHANGED <<limits, datagrams, shutdown, returned>>

(* The table with one connection more, and with one less, of a client. *)
HeldBy(table, client) == IF client \in DOMAIN table THEN table[client] ELSE 0

OneMore(table, client) ==
  [k \in DOMAIN table \cup {client} |->
     IF k = client THEN HeldBy(table, client) + 1 ELSE table[k]]

OneLess(table, client) ==
  [k \in {k \in DOMAIN table : k # client \/ table[k] > 1} |->
     IF k = client THEN table[k] - 1 ELSE table[k]]

Accepted(l, c) == acceptor[l] = "admitting" /\ conn[c] = "accepted" /\ Target[c] = l

(* ... which is served if its client has not too many already, ... *)
Admit(l, c) ==
  /\ Accepted(l, c)
  /\ HeldBy(open[l], Owner[c]) < MaxPerClient
  /\ open' = [open EXCEPT ![l] = OneMore(@, Owner[c])]
  /\ conn' = [conn EXCEPT ![c] = "prefix"]
  /\ acceptor' = [acceptor EXCEPT ![l] = "acquiring"]
  /\ UNCHANGED <<backlog, permits, datagrams, shutdown, returned>>

(* Mutation: the permit of a connection that is refused is lost. *)
RefuseKeeping(l, c) ==
  /\ Accepted(l, c)
  /\ HeldBy(open[l], Owner[c]) >= MaxPerClient
  /\ conn' = [conn EXCEPT ![c] = "away"]
  /\ acceptor' = [acceptor EXCEPT ![l] = "acquiring"]
  /\ UNCHANGED <<backlog, permits, open, datagrams, shutdown, returned>>

(* Mutation: the table counts the refused connection, too. *)
RefuseCounting(l, c) ==
  /\ Accepted(l, c)
  /\ HeldBy(open[l], Owner[c]) >= MaxPerClient
  /\ open' = [open EXCEPT ![l] = OneMore(@, Owner[c])]
  /\ permits' = [permits EXCEPT ![l] = @ + 1]
  /\ conn' = [conn EXCEPT ![c] = "away"]
  /\ acceptor' = [acceptor EXCEPT ![l] = "acquiring"]
  /\ UNCHANGED <<backlog, datagrams, shutdown, returned>>

(* ... and closed otherwise. *)
Refuse(l, c) ==
  /\ Accepted(l, c)
  /\ HeldBy(open[l], Owner[c]) >= MaxPerClient
  /\ permits' = [permits EXCEPT ![l] = @ + 1]
  /\ conn' = [conn EXCEPT ![c] = "away"]
  /\ acceptor' = [acceptor EXCEPT ![l] = "acquiring"]
  /\ UNCHANGED <<backlog, open, datagrams, shutdown, returned>>

(* The loop ends; its socket is closed, with whoever was still waiting. *)
EndAccept(l) ==
  /\ shutdown
  /\ acceptor[l] \in {"acquiring", "accepting"}
  /\ permits' = [permits EXCEPT ![l] = IF acceptor[l] = "accepting" THEN @ + 1 ELSE @]
  /\ acceptor' = [acceptor EXCEPT ![l] = "ended"]
  /\ conn' = [c \in Connections |-> IF c \in ToSet(backlog[l]) THEN "away" ELSE conn[c]]
  /\ backlog' = [backlog EXCEPT ![l] = <<>>]
  /\ UNCHANGED <<open, datagrams, shutdown, returned>>

-----------------------------------------------------------------------------
(* handle_connection: every step is taken by one task. *)
Moves(c, from, to) ==
  /\ conn[c] \in from
  /\ conn' = [conn EXCEPT ![c] = to]
  /\ UNCHANGED <<accepting, limits, datagrams, shutdown, returned>>

PrefixArrives(c) == Moves(c, {"prefix"}, "body")
BodyArrives(c) == Moves(c, {"body"}, "resolving")

(* IDLE_TIMEOUT, BODY_TIMEOUT, or the client has gone. *)
Leaves(c) == Moves(c, {"prefix", "body"}, "ending")

(* Mutation: the body is read without an eye on the token. *)
SeesShutdownBetween(c) == shutdown /\ Moves(c, {"prefix"}, "ending")

(* Both reads are in a select! with the token. *)
SeesShutdown(c) == shutdown /\ Moves(c, {"prefix", "body"}, "ending")

(* handle_request gives an answer, or none (rate limit, not decodable, too *)
(* long), and the next query may come.                                     *)
Answered(c) == Moves(c, {"resolving"}, "writing")
Dropped(c) == Moves(c, {"resolving"}, "prefix")

(* Writing has no time limit: it ends when the client reads, or is gone.   *)
Written(c) == Moves(c, {"writing"}, "prefix")
WriteFails(c) == Moves(c, {"writing"}, "ending")

(* The task ends: ClientSlot is dropped, then the permit. *)
DropSlot(c) ==
  /\ conn[c] = "ending"
  /\ open' = [open EXCEPT ![Target[c]] = OneLess(@, Owner[c])]
  /\ conn' = [conn EXCEPT ![c] = "ended"]
  /\ UNCHANGED <<accepting, permits, datagrams, shutdown, returned>>

DropPermit(c) ==
  /\ conn[c] = "ended"
  /\ permits' = [permits EXCEPT ![Target[c]] = @ + 1]
  /\ conn' = [conn EXCEPT ![c] = "away"]
  /\ UNCHANGED <<accepting, open, datagrams, shutdown, returned>>

-----------------------------------------------------------------------------
(* udp::serve: a query that finds no permit is dropped, any other gets a   *)
(* task, whose permit ends with it.                                        *)
Receive(p) ==
  /\ receiving
  /\ p \notin inflight
  /\ Cardinality(inflight) < MaxInflight
  /\ inflight' = inflight \cup {p}
  /\ UNCHANGED <<accepting, limits, conn, receiving, shutdown, returned>>

Reply(p) ==
  /\ p \in inflight
  /\ inflight' = inflight \ {p}
  /\ UNCHANGED <<accepting, limits, conn, receiving, shutdown, returned>>

EndReceive ==
  /\ shutdown
  /\ receiving
  /\ receiving' = FALSE
  /\ UNCHANGED <<accepting, limits, conn, inflight, shutdown, returned>>

(* Mutation: the connections' tasks are not tracked. *)
ReturnUntracked ==
  /\ ~returned
  /\ \A l \in TcpListeners : acceptor[l] = "ended"
  /\ ~receiving /\ inflight = {}
  /\ returned' = TRUE
  /\ UNCHANGED <<accepting, limits, conn, datagrams, shutdown>>

(* Bound::run waits for the loops and for every task they have spawned. *)
Return ==
  /\ ~returned
  /\ \A l \in TcpListeners : acceptor[l] = "ended"
  /\ \A c \in Connections : conn[c] \notin Serving \cup {"ended"}
  /\ ~receiving /\ inflight = {}
  /\ returned' = TRUE
  /\ UNCHANGED <<accepting, limits, conn, datagrams, shutdown>>

-----------------------------------------------------------------------------
Accepting(l) ==
  \/ Acquire(l) \/ Accept(l)
  \/ \E c \in Connections : Admit(l, c) \/ Refuse(l, c)

Ends(c) == DropSlot(c) \/ DropPermit(c)

Serve(c) ==
  \/ PrefixArrives(c) \/ BodyArrives(c) \/ Leaves(c) \/ SeesShutdown(c)
  \/ Answered(c) \/ Dropped(c) \/ Written(c) \/ WriteFails(c)
  \/ Ends(c)

Next ==
  \/ \E c \in Connections : Connect(c) \/ Serve(c)
  \/ \E l \in TcpListeners : Accepting(l) \/ EndAccept(l)
  \/ \E p \in Packets : Receive(p) \/ Reply(p)
  \/ EndReceive \/ Shutdown \/ Return

Spec == Init /\ [][Next]_vars

(***************************************************************************)
(* The tasks run.  select! takes one of the branches that are ready at     *)
(* random, so a branch that is ready again and again is taken: SF for the  *)
(* token.  That a query is ever answered is not assumed: a resolution over *)
(* DNS over HTTPS or QUIC has no timeout (transport.rs), and a write       *)
(* neither.                                                                *)
(***************************************************************************)
ServerFairness ==
  /\ \A l \in TcpListeners : WF_vars(Accepting(l)) /\ SF_vars(EndAccept(l))
  /\ \A c \in Connections : WF_vars(Ends(c)) /\ SF_vars(SeesShutdown(c))
  /\ SF_vars(EndReceive) /\ WF_vars(Return)

FairSpec == Spec /\ ServerFairness

-----------------------------------------------------------------------------
(* The type invariant.  The table holds no client without a connection. *)
TypeOK ==
  /\ backlog \in [TcpListeners -> Seq(Connections)]
  /\ acceptor \in [TcpListeners -> {"acquiring", "accepting", "admitting", "ended"}]
  /\ permits \in [TcpListeners -> 0 .. MaxConnections]
  /\ \A l \in TcpListeners :
       /\ DOMAIN open[l] \subseteq Clients
       /\ \A k \in DOMAIN open[l] : open[l][k] \in Nat \ {0}
  /\ conn \in [Connections -> {"away", "queued", "accepted", "ended"} \cup Serving]
  /\ receiving \in BOOLEAN
  /\ inflight \subseteq Packets
  /\ shutdown \in BOOLEAN
  /\ returned \in BOOLEAN

(* The connections that hold a slot, and those that hold a permit. *)
Slots(l) == {c \in Connections : Target[c] = l /\ conn[c] \in Serving}
Permits(l) == {c \in Connections : Target[c] = l /\ conn[c] \in Serving \cup {"ended"}}
OfClient(S, k) == {c \in S : Owner[c] = k}

(* A table that has the number of connections in S of each client. *)
Counts(table, S) ==
  /\ DOMAIN table = {Owner[c] : c \in S}
  /\ \A k \in DOMAIN table : table[k] = Cardinality(OfClient(S, k))

Reserved(l) == IF acceptor[l] \in {"accepting", "admitting"} THEN 1 ELSE 0

(***************************************************************************)
(* tcp.rs:99, 122: no place is lost and none is given twice, however the   *)
(* connections end.  Permits that are free, reserved for the next accept   *)
(* and held by tasks are all there are, and the table has exactly the      *)
(* clients that hold slots, with their numbers: nothing is left behind by  *)
(* a client that was refused or has gone.                                  *)
(***************************************************************************)
PlacesAreCounted ==
  \A l \in TcpListeners :
    /\ permits[l] + Reserved(l) + Cardinality(Permits(l)) = MaxConnections
    /\ Counts(open[l], Slots(l))

(***************************************************************************)
(* tcp.rs:54: no source address is served more connections of a listener   *)
(* than MAX_PER_CLIENT at a time.                                          *)
(***************************************************************************)
NoClientTakesAll ==
  \A l \in TcpListeners, k \in Clients :
    Cardinality(OfClient(Slots(l), k)) <= MaxPerClient

(***************************************************************************)
(* mod.rs:127: Bound::run returns when nothing is being answered any more, *)
(* and nothing begins after that.                                          *)
(***************************************************************************)
DrainedBeforeReturn ==
  returned =>
    /\ \A c \in Connections : conn[c] = "away"
    /\ inflight = {} /\ ~receiving

(***************************************************************************)
(* tcp.rs:253: the server comes to its end without waiting for a timeout   *)
(* or for silent clients to leave, whatever a connection reads at the time *)
(* and however many come meanwhile.  Two things can hold it up, and no     *)
(* other: a query that is never answered, and a client that never takes    *)
(* its answer.                                                             *)
(***************************************************************************)
NothingHangs ==
  /\ \A c \in Connections : []<>(conn[c] \notin {"resolving", "writing"})
  /\ \A p \in Packets : []<>(p \notin inflight)

ShutdownEnds == NothingHangs => (shutdown ~> returned)

(***************************************************************************)
(* tcp.rs:54, TODOS.md:126: a client that holds on to its connections does *)
(* not keep the others out.  With fewer such clients than fill all places, *)
(* every connection comes to be accepted, if no other connection is served *)
(* for ever.                                                               *)
(***************************************************************************)
Others == {c \in Connections : Owner[c] \notin Silent}

QueuedIsAccepted ==
  (\A c \in Others : []<>(conn[c] \notin Serving)) =>
    \A c \in Connections : conn[c] = "queued" ~> conn[c] # "queued"
=============================================================================
