---------------------------- MODULE SocketsProofs ----------------------------
(***************************************************************************)
(* Theorems about both ends of the server's sockets.  No place at a TCP    *)
(* listener is lost or given twice, and nothing is left when the listeners *)
(* have returned, for any number of listeners, clients and connections and *)
(* any limits; no query gets a connection that it knows to have failed,    *)
(* for any number of queries and connections.                              *)
(***************************************************************************)
EXTENDS MCSockets, FiniteSetTheorems, TLAPS

USE ListenersAssumption

-----------------------------------------------------------------------------
(* The table under one more and one less connection. *)

LEMMA OwnersAreFinite ==
  ASSUME NEW S, S \subseteq Connections, NEW k
  PROVE  IsFiniteSet(OfClient(S, k)) /\ Cardinality(OfClient(S, k)) \in Nat
<1>1. OfClient(S, k) \subseteq Connections
  BY DEF OfClient
<1>2. QED
  BY <1>1, FS_Subset, FS_CardinalityType

LEMMA HeldByCounts ==
  ASSUME NEW S, S \subseteq Connections, NEW table, Counts(table, S), NEW k
  PROVE  HeldBy(table, k) = Cardinality(OfClient(S, k))
<1>1. CASE k \in DOMAIN table
  BY <1>1 DEF HeldBy, Counts
<1>2. CASE k \notin DOMAIN table
  <2>1. OfClient(S, k) = {}
    BY <1>2 DEF Counts, OfClient
  <2>2. QED
    BY <1>2, <2>1, FS_EmptySet DEF HeldBy
<1>3. QED
  BY <1>1, <1>2

LEMMA CountMore ==
  ASSUME NEW S, S \subseteq Connections, NEW table, Counts(table, S),
         NEW c \in Connections \ S
  PROVE  Counts(OneMore(table, Owner[c]), S \cup {c})
<1> DEFINE T == S \cup {c}
<1> DEFINE new == OneMore(table, Owner[c])
<1>1. DOMAIN new = {Owner[x] : x \in T}
  BY DEF OneMore, Counts
<1>2. ASSUME NEW k \in DOMAIN new PROVE new[k] = Cardinality(OfClient(T, k))
  <2>1. CASE k = Owner[c]
    <3>1. OfClient(T, k) = OfClient(S, k) \cup {c} /\ c \notin OfClient(S, k)
      BY <2>1 DEF OfClient
    <3>2. Cardinality(OfClient(T, k)) = Cardinality(OfClient(S, k)) + 1
      BY <3>1, OwnersAreFinite, FS_AddElement
    <3>3. new[k] = HeldBy(table, k) + 1
      BY <2>1 DEF OneMore
    <3>4. QED
      BY <3>2, <3>3, HeldByCounts
  <2>2. CASE k # Owner[c]
    <3>1. OfClient(T, k) = OfClient(S, k)
      BY <2>2 DEF OfClient
    <3>2. k \in DOMAIN table /\ new[k] = table[k]
      BY <1>2, <2>2 DEF OneMore
    <3>3. QED
      BY <3>1, <3>2 DEF Counts
  <2>3. QED
    BY <2>1, <2>2
<1>3. QED
  BY <1>1, <1>2 DEF Counts

LEMMA CountLess ==
  ASSUME NEW S, S \subseteq Connections, NEW table, Counts(table, S), NEW c \in S
  PROVE  Counts(OneLess(table, Owner[c]), S \ {c})
<1> DEFINE T == S \ {c}
<1> DEFINE o == Owner[c]
<1> DEFINE new == OneLess(table, o)
<1>1. o \in DOMAIN table /\ table[o] = Cardinality(OfClient(S, o))
  BY DEF Counts
<1>2. Cardinality(OfClient(S, o)) \in Nat /\ Cardinality(OfClient(T, o)) \in Nat
  BY OwnersAreFinite
<1>3. OfClient(T, o) = OfClient(S, o) \ {c} /\ c \in OfClient(S, o)
  BY DEF OfClient
<1>4. Cardinality(OfClient(T, o)) = Cardinality(OfClient(S, o)) - 1
  <2>1. IsFiniteSet(OfClient(S, o))
    BY OwnersAreFinite
  <2>2. Cardinality(OfClient(S, o) \ {c}) = Cardinality(OfClient(S, o)) - 1
    BY <1>3, <2>1, FS_RemoveElement
  <2>3. QED
    BY <1>3, <2>2
<1>5. table[o] > 1 <=> o \in {Owner[x] : x \in T}
  <2>1. table[o] > 1 <=> Cardinality(OfClient(T, o)) # 0
    BY <1>1, <1>2, <1>4
  <2>2. Cardinality(OfClient(T, o)) # 0 <=> OfClient(T, o) # {}
    BY OwnersAreFinite, FS_EmptySet
  <2>3. OfClient(T, o) # {} <=> o \in {Owner[x] : x \in T}
    BY DEF OfClient
  <2>4. QED
    BY <2>1, <2>2, <2>3
<1>6. DOMAIN new = {Owner[x] : x \in T}
  <2>1. ASSUME NEW k, k # o PROVE k \in DOMAIN new <=> k \in {Owner[x] : x \in T}
    BY <2>1 DEF OneLess, Counts
  <2>2. o \in DOMAIN new <=> o \in {Owner[x] : x \in T}
    BY <1>1, <1>5 DEF OneLess
  <2>3. QED
    BY <2>1, <2>2
<1>7. ASSUME NEW k \in DOMAIN new PROVE new[k] = Cardinality(OfClient(T, k))
  <2>1. CASE k = o
    BY <1>1, <1>4, <1>7, <2>1 DEF OneLess
  <2>2. CASE k # o
    <3>1. OfClient(T, k) = OfClient(S, k)
      BY <2>2 DEF OfClient
    <3>2. k \in DOMAIN table /\ new[k] = table[k]
      BY <1>7, <2>2 DEF OneLess
    <3>3. QED
      BY <3>1, <3>2 DEF Counts
  <2>3. QED
    BY <2>1, <2>2
<1>8. QED
  BY <1>6, <1>7 DEF Counts
-----------------------------------------------------------------------------
(***************************************************************************)
(* The inductive invariant: types and counts, that the counts keep to the  *)
(* limit, and that what waits in a listener's queue is queued there, once; *)
(* else a connection that is accepted could still be served.               *)
(***************************************************************************)
Typed ==
  /\ backlog \in [TcpListeners -> Seq(Connections)]
  /\ acceptor \in [TcpListeners -> {"acquiring", "accepting", "admitting", "ended"}]
  /\ permits \in [TcpListeners -> Nat]
  /\ DOMAIN open = TcpListeners
  /\ conn \in [Connections -> {"away", "queued", "accepted", "ended"} \cup Serving]
  /\ receiving \in BOOLEAN
  /\ inflight \subseteq Packets
  /\ shutdown \in BOOLEAN
  /\ returned \in BOOLEAN

WithinLimit ==
  \A l \in TcpListeners : \A k \in DOMAIN open[l] : open[l][k] <= MaxPerClient

QueueFits ==
  \A l \in TcpListeners :
    /\ \A i \in 1 .. Len(backlog[l]) :
         conn[backlog[l][i]] = "queued" /\ Target[backlog[l][i]] = l
    /\ \A i, j \in 1 .. Len(backlog[l]) : backlog[l][i] = backlog[l][j] => i = j

Inv == Typed /\ PlacesAreCounted /\ WithinLimit /\ QueueFits

LEMMA GuardsAreFinite ==
  ASSUME NEW l \in TcpListeners
  PROVE  /\ Slots(l) \subseteq Connections /\ IsFiniteSet(Slots(l))
         /\ Permits(l) \subseteq Connections /\ IsFiniteSet(Permits(l))
         /\ Cardinality(Permits(l)) \in Nat
         /\ Reserved(l) \in {0, 1}
<1>1. Slots(l) \subseteq Connections /\ Permits(l) \subseteq Connections
  BY DEF Slots, Permits
<1>2. IsFiniteSet(Slots(l)) /\ IsFiniteSet(Permits(l))
  BY <1>1, FS_Subset
<1>3. Cardinality(Permits(l)) \in Nat
  BY <1>2, FS_CardinalityType
<1>4. QED
  BY <1>1, <1>2, <1>3 DEF Reserved

LEMMA InitInv == Init => Inv
<1> SUFFICES ASSUME Init PROVE Inv
  OBVIOUS
<1> USE DEF Init
<1>1. Typed
  <2>1. backlog \in [TcpListeners -> Seq(Connections)]
    OBVIOUS
  <2>2. permits \in [TcpListeners -> Nat] /\ DOMAIN open = TcpListeners
    OBVIOUS
  <2>3. QED
    BY <2>1, <2>2 DEF Typed
<1>2. ASSUME NEW l \in TcpListeners PROVE Slots(l) = {} /\ Permits(l) = {} /\ Reserved(l) = 0
  BY DEF Slots, Permits, Serving, Reserved
<1>3. ASSUME NEW l \in TcpListeners PROVE open[l] = <<>> /\ DOMAIN open[l] = {}
  OBVIOUS
<1>4. ASSUME NEW l \in TcpListeners
      PROVE  /\ permits[l] + Reserved(l) + Cardinality(Permits(l)) = MaxConnections
             /\ Counts(open[l], Slots(l))
  <2>1. permits[l] = MaxConnections
    OBVIOUS
  <2>2. Cardinality(Permits(l)) = 0 /\ Reserved(l) = 0
    BY <1>2, FS_EmptySet
  <2>3. permits[l] + Reserved(l) + Cardinality(Permits(l)) = MaxConnections
    BY <2>1, <2>2
  <2>4. Counts(open[l], Slots(l))
    BY <1>2, <1>3 DEF Counts
  <2>5. QED
    BY <2>3, <2>4
<1>5. WithinLimit
  BY <1>3 DEF WithinLimit
<1>6. QueueFits
  BY DEF QueueFits
<1>7. QED
  BY <1>1, <1>4, <1>5, <1>6 DEF Inv, PlacesAreCounted

(* TypeOK follows from the counts: a number of connections is not negative. *)
LEMMA InvTypeOK == Inv => TypeOK
<1> SUFFICES ASSUME Inv PROVE TypeOK
  OBVIOUS
<1>1. ASSUME NEW l \in TcpListeners PROVE permits[l] \in 0 .. MaxConnections
  <2>1. permits[l] \in Nat
    BY DEF Inv, Typed
  <2>2. permits[l] + Reserved(l) + Cardinality(Permits(l)) = MaxConnections
    BY DEF Inv, PlacesAreCounted
  <2>3. QED
    BY <2>1, <2>2, GuardsAreFinite
<1>2. permits \in [TcpListeners -> 0 .. MaxConnections]
  BY <1>1 DEF Inv, Typed
<1>3. ASSUME NEW l \in TcpListeners, NEW k \in DOMAIN open[l]
      PROVE  k \in Clients /\ open[l][k] \in Nat \ {0}
  <2>1. PICK c \in Slots(l) : k = Owner[c]
    BY DEF Inv, PlacesAreCounted, Counts
  <2>2. c \in Connections /\ c \in OfClient(Slots(l), k)
    BY <2>1 DEF Slots, OfClient
  <2>3. IsFiniteSet(OfClient(Slots(l), k)) /\ Cardinality(OfClient(Slots(l), k)) \in Nat
    BY GuardsAreFinite, OwnersAreFinite
  <2>4. Cardinality(OfClient(Slots(l), k)) # 0
    BY <2>2, <2>3, FS_EmptySet
  <2>5. open[l][k] = Cardinality(OfClient(Slots(l), k))
    BY DEF Inv, PlacesAreCounted, Counts
  <2>6. QED
    BY <2>1, <2>2, <2>3, <2>4, <2>5
<1>4. QED
  BY <1>2, <1>3 DEF Inv, Typed, TypeOK

LEMMA InvNoClientTakesAll == Inv => NoClientTakesAll
<1> SUFFICES ASSUME Inv, NEW l \in TcpListeners, NEW k \in Clients
             PROVE  Cardinality(OfClient(Slots(l), k)) <= MaxPerClient
  BY DEF NoClientTakesAll
<1>1. HeldBy(open[l], k) = Cardinality(OfClient(Slots(l), k))
  BY GuardsAreFinite, HeldByCounts DEF Inv, PlacesAreCounted
<1>2. HeldBy(open[l], k) <= MaxPerClient
  BY DEF Inv, WithinLimit, HeldBy
<1>3. QED
  BY <1>1, <1>2

-----------------------------------------------------------------------------
(* Typed and QueueFits are preserved by every step. *)

LEMMA StepTyped == Inv /\ [Next]_vars => Typed'
<1> SUFFICES ASSUME Inv, [Next]_vars PROVE Typed'
  OBVIOUS
<1> USE DEF Inv, Typed, accepting, limits, datagrams
<1>1. ASSUME NEW c \in Connections, Connect(c) PROVE Typed'
  BY <1>1 DEF Connect
<1>2. ASSUME NEW c \in Connections, Serve(c) PROVE Typed'
  <2>1. CASE PrefixArrives(c) \/ BodyArrives(c) \/ Leaves(c) \/ SeesShutdown(c)
             \/ Written(c) \/ WriteFails(c) \/ Answered(c) \/ Dropped(c)
    BY <2>1 DEF PrefixArrives, BodyArrives, Leaves, SeesShutdown, Written,
                WriteFails, Answered, Dropped, Moves, Serving
  <2>2. CASE DropSlot(c)
    BY <2>2 DEF DropSlot
  <2>3. CASE DropPermit(c)
    BY <2>3 DEF DropPermit
  <2>4. QED
    BY <1>2, <2>1, <2>2, <2>3 DEF Serve, Ends
<1>3. ASSUME NEW l \in TcpListeners, Acquire(l) PROVE Typed'
  BY <1>3 DEF Acquire
<1>4. ASSUME NEW l \in TcpListeners, Accept(l) PROVE Typed'
  <2>1. Head(backlog[l]) \in Connections /\ Tail(backlog[l]) \in Seq(Connections)
    BY <1>4 DEF Accept
  <2>2. QED
    BY <1>4, <2>1 DEF Accept
<1>5. ASSUME NEW l \in TcpListeners, NEW c \in Connections, Admit(l, c) \/ Refuse(l, c)
      PROVE  Typed'
  <2>1. CASE Admit(l, c)
    BY <2>1 DEF Admit, Serving
  <2>2. CASE Refuse(l, c)
    <3>1. permits' \in [TcpListeners -> Nat]
      BY <2>2 DEF Refuse
    <3>2. conn' \in [Connections -> {"away", "queued", "accepted", "ended"} \cup Serving]
      BY <2>2 DEF Refuse
    <3>3. acceptor' \in [TcpListeners -> {"acquiring", "accepting", "admitting", "ended"}]
      BY <2>2 DEF Refuse
    <3>4. QED
      BY <2>2, <3>1, <3>2, <3>3 DEF Refuse
  <2>3. QED
    BY <1>5, <2>1, <2>2
<1>6. ASSUME NEW l \in TcpListeners, EndAccept(l) PROVE Typed'
  BY <1>6 DEF EndAccept
<1>7. ASSUME NEW p \in Packets, Receive(p) \/ Reply(p) PROVE Typed'
  BY <1>7 DEF Receive, Reply
<1>8. CASE EndReceive \/ Shutdown \/ Return
  BY <1>8 DEF EndReceive, Shutdown, Return
<1>9. CASE UNCHANGED vars
  BY <1>9 DEF vars
<1>10. QED
  BY <1>1, <1>2, <1>3, <1>4, <1>5, <1>6, <1>7, <1>8, <1>9 DEF Next, Accepting

(* The queue is not touched, and no connection in it moves. *)
LEMMA QueueUntouched ==
  ASSUME Inv, UNCHANGED backlog,
         \A c \in Connections : conn[c] = "queued" => conn'[c] = "queued"
  PROVE  QueueFits'
BY DEF Inv, Typed, QueueFits

LEMMA StepQueueFits == Inv /\ [Next]_vars => QueueFits'
<1> SUFFICES ASSUME Inv, [Next]_vars PROVE QueueFits'
  OBVIOUS
<1> USE DEF accepting, limits, datagrams
<1>1. ASSUME NEW c \in Connections, Connect(c) PROVE QueueFits'
  <2> USE DEF Connect
  <2>1. Target[c] \in TcpListeners /\ backlog[Target[c]] \in Seq(Connections)
    BY DEF Inv, Typed
  <2>2. ASSUME NEW l \in TcpListeners, l # Target[c]
        PROVE  /\ backlog'[l] = backlog[l]
               /\ \A i \in 1 .. Len(backlog[l]) : conn'[backlog[l][i]] = conn[backlog[l][i]]
    BY <1>1, <2>2 DEF Inv, Typed, QueueFits
  <2> DEFINE q == backlog[Target[c]]
  <2>3. /\ backlog'[Target[c]] = Append(q, c)
        /\ \A i \in 1 .. Len(q) : q[i] # c /\ conn'[q[i]] = "queued" /\ Target[q[i]] = Target[c]
        /\ conn'[c] = "queued"
    BY <1>1, <2>1 DEF Inv, Typed, QueueFits
  <2>4. \A i, j \in 1 .. Len(q) : q[i] = q[j] => i = j
    BY <2>1 DEF Inv, QueueFits
  <2> DEFINE r == Append(q, c)
  <2>5. /\ \A i \in 1 .. Len(q) : r[i] = q[i]
        /\ Len(r) = Len(q) + 1 /\ r[Len(q) + 1] = c
        /\ Len(q) \in Nat
    BY <2>1
  <2>6. ASSUME NEW i \in 1 .. Len(r) PROVE i \in 1 .. Len(q) \/ i = Len(q) + 1
    BY <2>5
  <2>7. ASSUME NEW i \in 1 .. Len(r)
        PROVE  conn'[r[i]] = "queued" /\ Target[r[i]] = Target[c]
    BY <2>3, <2>5, <2>6
  <2>8. ASSUME NEW i \in 1 .. Len(r), NEW j \in 1 .. Len(r), r[i] = r[j] PROVE i = j
    BY <2>3, <2>4, <2>5, <2>6, <2>8
  <2>9. ASSUME NEW l \in TcpListeners, l = Target[c]
        PROVE  backlog'[l] = r
    BY <2>3, <2>9
  <2> HIDE DEF r
  <2>10. QED
    BY <2>2, <2>7, <2>8, <2>9 DEF Inv, QueueFits
<1>2. ASSUME NEW c \in Connections, Serve(c) PROVE QueueFits'
  BY <1>2, QueueUntouched
     DEF Serve, Ends, PrefixArrives, BodyArrives, Leaves, SeesShutdown, Written,
         WriteFails, Answered, Dropped, Moves, Serving, DropSlot, DropPermit, Inv, Typed
<1>3. ASSUME NEW l \in TcpListeners, Acquire(l) PROVE QueueFits'
  BY <1>3, QueueUntouched DEF Acquire
<1>4. ASSUME NEW l \in TcpListeners, Accept(l) PROVE QueueFits'
  <2> USE DEF Accept
  <2> DEFINE q == backlog[l]
  <2> DEFINE h == Head(q)
  <2>1. q \in Seq(Connections) /\ q # <<>> /\ backlog'[l] = Tail(q) /\ h = q[1]
    BY <1>4 DEF Inv, Typed
  <2>2. ASSUME NEW m \in TcpListeners, m # l
        PROVE  /\ backlog'[m] = backlog[m]
               /\ \A i \in 1 .. Len(backlog[m]) : conn'[backlog[m][i]] = conn[backlog[m][i]]
    <3>1. Target[h] = l
      BY <2>1 DEF Inv, QueueFits
    <3>2. QED
      BY <1>4, <2>2, <3>1 DEF Inv, Typed, QueueFits
  <2>3. ASSUME NEW i \in 1 .. Len(Tail(q))
        PROVE  Tail(q)[i] = q[i + 1] /\ i + 1 \in 1 .. Len(q) /\ q[i + 1] # h
    BY <2>1 DEF Inv, QueueFits
  <2>4. ASSUME NEW i \in 1 .. Len(Tail(q))
        PROVE  conn'[Tail(q)[i]] = "queued" /\ Target[Tail(q)[i]] = l
    BY <1>4, <2>1, <2>3 DEF Inv, Typed, QueueFits
  <2>5. ASSUME NEW i \in 1 .. Len(Tail(q)), NEW j \in 1 .. Len(Tail(q)), Tail(q)[i] = Tail(q)[j]
        PROVE  i = j
    <3>1. q[i + 1] = q[j + 1] /\ i + 1 \in 1 .. Len(q) /\ j + 1 \in 1 .. Len(q)
      BY <2>3, <2>5
    <3>2. i + 1 = j + 1
      BY <3>1 DEF Inv, QueueFits
    <3>3. i \in Int /\ j \in Int
      OBVIOUS
    <3>4. QED
      BY <3>2, <3>3
  <2> DEFINE Fits(m) ==
        /\ \A i \in 1 .. Len(backlog'[m]) :
             conn'[backlog'[m][i]] = "queued" /\ Target[backlog'[m][i]] = m
        /\ \A i, j \in 1 .. Len(backlog'[m]) :
             backlog'[m][i] = backlog'[m][j] => i = j
  <2>6. ASSUME NEW m \in TcpListeners
        PROVE  Fits(m)
    <3>1. ASSUME m = l PROVE Fits(m)
      <4>1. backlog'[m] = Tail(q)
        BY <2>1, <3>1
      <4>2. QED
        BY <2>4, <2>5, <3>1, <4>1
    <3>2. ASSUME m # l PROVE Fits(m)
      BY <2>2, <3>2 DEF Inv, QueueFits
    <3> HIDE DEF Fits
    <3>3. QED
      BY <3>1, <3>2
  <2>7. QED
    BY <2>6 DEF QueueFits
<1>5. ASSUME NEW l \in TcpListeners, NEW c \in Connections, Admit(l, c) \/ Refuse(l, c)
      PROVE  QueueFits'
  BY <1>5, QueueUntouched DEF Admit, Refuse, Accepted, Inv, Typed
<1>6. ASSUME NEW l \in TcpListeners, EndAccept(l) PROVE QueueFits'
  <2>1. backlog'[l] = <<>>
    BY <1>6 DEF EndAccept, Inv, Typed
  <2>2. ASSUME NEW m \in TcpListeners, m # l, NEW i \in 1 .. Len(backlog[m])
        PROVE  backlog'[m] = backlog[m] /\ conn'[backlog[m][i]] = conn[backlog[m][i]]
    <3>1. backlog[m][i] \in Connections /\ Target[backlog[m][i]] = m
      BY <2>2 DEF Inv, Typed, QueueFits
    <3>2. backlog[l] \in Seq(Connections)
      BY DEF Inv, Typed
    <3>3. DOMAIN backlog[l] = 1 .. Len(backlog[l])
      BY <3>2
    <3>4. \A j \in DOMAIN backlog[l] : Target[backlog[l][j]] = l
      BY <3>3 DEF Inv, QueueFits
    <3>5. backlog[m][i] \notin ToSet(backlog[l])
      BY <2>2, <3>1, <3>4 DEF ToSet
    <3>6. QED
      BY <1>6, <2>2, <3>1, <3>5 DEF EndAccept, Inv, Typed
  <2>3. ASSUME NEW m \in TcpListeners, m # l PROVE backlog'[m] = backlog[m]
    BY <1>6, <2>3 DEF EndAccept, Inv, Typed
  <2>4. QED
    BY <2>1, <2>2, <2>3 DEF Inv, QueueFits
<1>7. ASSUME NEW p \in Packets, Receive(p) \/ Reply(p) PROVE QueueFits'
  BY <1>7, QueueUntouched DEF Receive, Reply
<1>8. CASE EndReceive \/ Shutdown \/ Return
  BY <1>8, QueueUntouched DEF EndReceive, Shutdown, Return
<1>9. CASE UNCHANGED vars
  BY <1>9, QueueUntouched DEF vars
<1>10. QED
  BY <1>1, <1>2, <1>3, <1>4, <1>5, <1>6, <1>7, <1>8, <1>9 DEF Next, Accepting

-----------------------------------------------------------------------------
(* So are the counts.  Most steps move no guard. *)

Counted(l) ==
  /\ permits[l] + Reserved(l) + Cardinality(Permits(l)) = MaxConnections
  /\ Counts(open[l], Slots(l))
  /\ \A k \in DOMAIN open[l] : open[l][k] <= MaxPerClient

LEMMA InvCounted == Inv => \A l \in TcpListeners : Counted(l)
BY DEF Inv, PlacesAreCounted, WithinLimit, Counted

LEMMA GuardsUnmoved ==
  ASSUME Inv, NEW l \in TcpListeners,
         permits'[l] = permits[l], open'[l] = open[l], Reserved(l)' = Reserved(l),
         \A c \in Connections : Target[c] = l =>
           /\ conn'[c] \in Serving <=> conn[c] \in Serving
           /\ conn'[c] = "ended" <=> conn[c] = "ended"
  PROVE  Counted(l)'
<1>1. Slots(l)' = Slots(l) /\ Permits(l)' = Permits(l)
  BY DEF Slots, Permits
<1>2. Counted(l)
  BY InvCounted
<1>3. permits'[l] + Reserved(l)' + Cardinality(Permits(l)') = MaxConnections
  BY <1>1, <1>2 DEF Counted
<1>4. Counts(open'[l], Slots(l)') /\ \A k \in DOMAIN open'[l] : open'[l][k] <= MaxPerClient
  BY <1>1, <1>2 DEF Counted
<1>5. QED
  BY <1>3, <1>4 DEF Counted, Counts

LEMMA StepCounted ==
  ASSUME Inv, Typed', [Next]_vars, NEW l \in TcpListeners
  PROVE  Counted(l)'
<1> USE DEF accepting, limits, datagrams
<1>0. Typed /\ Counted(l) /\ permits[l] \in Nat /\ Cardinality(Permits(l)) \in Nat
  BY InvCounted, GuardsAreFinite DEF Inv, Typed
<1>1. ASSUME NEW c \in Connections, Connect(c) PROVE Counted(l)'
  BY <1>0, <1>1, GuardsUnmoved DEF Connect, Typed, Serving, Reserved
<1>2. ASSUME NEW c \in Connections, Serve(c) PROVE Counted(l)'
  <2>1. CASE PrefixArrives(c) \/ BodyArrives(c) \/ Leaves(c) \/ SeesShutdown(c)
             \/ Written(c) \/ WriteFails(c) \/ Answered(c) \/ Dropped(c)
    BY <1>0, <2>1, GuardsUnmoved
       DEF PrefixArrives, BodyArrives, Leaves, SeesShutdown, Written, WriteFails,
           Answered, Dropped, Moves, Serving, Typed, Reserved
  <2>2. CASE DropSlot(c)
    <3>1. CASE Target[c] # l
      BY <1>0, <2>2, <3>1, GuardsUnmoved DEF DropSlot, Typed, Reserved
    <3>2. CASE Target[c] = l
      <4>1. /\ conn[c] = "ending" /\ conn' = [conn EXCEPT ![c] = "ended"]
            /\ open'[l] = OneLess(open[l], Owner[c])
            /\ permits'[l] = permits[l] /\ Reserved(l)' = Reserved(l)
        BY <1>0, <2>2, <3>2 DEF DropSlot, Typed, Reserved
      <4>2. c \in Slots(l) /\ Slots(l)' = Slots(l) \ {c} /\ Permits(l)' = Permits(l)
        BY <1>0, <3>2, <4>1 DEF Slots, Permits, Serving, Typed
      <4>3. Counts(open'[l], Slots(l)')
        <5>1. Counts(open[l], Slots(l)) /\ Slots(l) \subseteq Connections
          BY <1>0, GuardsAreFinite DEF Counted
        <5>2. Counts(OneLess(open[l], Owner[c]), Slots(l) \ {c})
          BY <4>2, <5>1, CountLess
        <5>3. QED
          BY <4>1, <4>2, <5>2
      <4>4. ASSUME NEW k \in DOMAIN open'[l] PROVE open'[l][k] <= MaxPerClient
        <5>1. k \in DOMAIN open[l] /\ open[l][k] <= MaxPerClient
          BY <1>0, <4>1, <4>4 DEF OneLess, Counted
        <5>2. open[l][k] \in Nat
          BY <1>0, <5>1, GuardsAreFinite, OwnersAreFinite DEF Counted, Counts
        <5>3. open'[l][k] = open[l][k] - 1 \/ open'[l][k] = open[l][k]
          BY <4>1, <4>4 DEF OneLess
        <5>4. QED
          BY <5>1, <5>2, <5>3
      <4>5. permits'[l] + Reserved(l)' + Cardinality(Permits(l)') = MaxConnections
        BY <1>0, <4>1, <4>2 DEF Counted
      <4>6. QED
        BY <4>3, <4>4, <4>5 DEF Counted, Counts
    <3>3. QED
      BY <3>1, <3>2
  <2>3. CASE DropPermit(c)
    <3>1. CASE Target[c] # l
      BY <1>0, <2>3, <3>1, GuardsUnmoved DEF DropPermit, Typed, Reserved
    <3>2. CASE Target[c] = l
      <4>1. /\ conn[c] = "ended" /\ conn' = [conn EXCEPT ![c] = "away"]
            /\ permits'[l] = permits[l] + 1
            /\ open'[l] = open[l] /\ Reserved(l)' = Reserved(l)
        BY <1>0, <2>3, <3>2 DEF DropPermit, Typed, Reserved
      <4>2. c \in Permits(l) /\ Permits(l)' = Permits(l) \ {c} /\ Slots(l)' = Slots(l)
        BY <1>0, <3>2, <4>1 DEF Slots, Permits, Serving, Typed
      <4>3. Cardinality(Permits(l)') = Cardinality(Permits(l)) - 1
        BY <4>2, GuardsAreFinite, FS_RemoveElement
      <4>4. permits'[l] + Reserved(l)' + Cardinality(Permits(l)') = MaxConnections
        BY <1>0, <4>1, <4>3, GuardsAreFinite DEF Counted
      <4>5. QED
        BY <1>0, <4>1, <4>2, <4>4 DEF Counted, Counts
    <3>3. QED
      BY <3>1, <3>2
  <2>4. QED
    BY <1>2, <2>1, <2>2, <2>3 DEF Serve, Ends
<1>3. ASSUME NEW m \in TcpListeners, Acquire(m) PROVE Counted(l)'
  <2>1. CASE m # l
    BY <1>0, <1>3, <2>1, GuardsUnmoved DEF Acquire, Typed, Reserved
  <2>2. CASE m = l
    <3>1. /\ permits'[l] = permits[l] - 1 /\ Reserved(l) = 0 /\ Reserved(l)' = 1
          /\ open'[l] = open[l] /\ conn' = conn
      BY <1>0, <1>3, <2>2 DEF Acquire, Typed, Reserved
    <3>2. Slots(l)' = Slots(l) /\ Permits(l)' = Permits(l)
      BY <3>1 DEF Slots, Permits
    <3>3. permits'[l] + Reserved(l)' + Cardinality(Permits(l)') = MaxConnections
      BY <1>0, <3>1, <3>2 DEF Counted
    <3>4. QED
      BY <1>0, <3>1, <3>2, <3>3 DEF Counted, Counts
  <2>3. QED
    BY <2>1, <2>2
<1>4. ASSUME NEW m \in TcpListeners, Accept(m) PROVE Counted(l)'
  <2>1. backlog[m] \in Seq(Connections) /\ backlog[m] # <<>>
    BY <1>0, <1>4 DEF Accept, Typed
  <2>2. Head(backlog[m]) = backlog[m][1] /\ 1 \in 1 .. Len(backlog[m])
    BY <2>1
  <2>3. conn[Head(backlog[m])] = "queued"
    BY <2>2 DEF Inv, QueueFits
  <2>4. ASSUME NEW c \in Connections
        PROVE  /\ conn'[c] \in Serving <=> conn[c] \in Serving
               /\ conn'[c] = "ended" <=> conn[c] = "ended"
    BY <1>0, <1>4, <2>3 DEF Accept, Typed, Serving
  <2>5. permits' = permits /\ open' = open /\ Reserved(l)' = Reserved(l)
    BY <1>0, <1>4 DEF Accept, Typed, Reserved
  <2>6. QED
    BY <2>4, <2>5, GuardsUnmoved
<1>5. ASSUME NEW m \in TcpListeners, NEW c \in Connections, Admit(m, c) PROVE Counted(l)'
  <2>1. Target[c] = m /\ conn[c] = "accepted" /\ conn' = [conn EXCEPT ![c] = "prefix"]
    BY <1>5 DEF Admit, Accepted
  <2>2. CASE m # l
    BY <1>0, <1>5, <2>1, <2>2, GuardsUnmoved DEF Admit, Typed, Reserved
  <2>3. CASE m = l
    <3>1. /\ permits'[l] = permits[l] /\ Reserved(l) = 1 /\ Reserved(l)' = 0
          /\ open'[l] = OneMore(open[l], Owner[c])
          /\ HeldBy(open[l], Owner[c]) < MaxPerClient
      BY <1>0, <1>5, <2>3 DEF Admit, Accepted, Typed, Reserved
    <3>2. /\ c \notin Slots(l) /\ Slots(l)' = Slots(l) \cup {c}
          /\ c \notin Permits(l) /\ Permits(l)' = Permits(l) \cup {c}
      BY <1>0, <2>1, <2>3 DEF Slots, Permits, Serving, Typed
    <3>3. Cardinality(Permits(l)') = Cardinality(Permits(l)) + 1
      BY <3>2, GuardsAreFinite, FS_AddElement
    <3>4. permits'[l] + Reserved(l)' + Cardinality(Permits(l)') = MaxConnections
      BY <1>0, <3>1, <3>3 DEF Counted
    <3>5. Counts(open'[l], Slots(l)')
      <4>1. Counts(open[l], Slots(l)) /\ Slots(l) \subseteq Connections
        BY <1>0, GuardsAreFinite DEF Counted
      <4>2. Counts(OneMore(open[l], Owner[c]), Slots(l) \cup {c})
        BY <3>2, <4>1, CountMore
      <4>3. QED
        BY <3>1, <3>2, <4>2
    <3>6. ASSUME NEW k \in DOMAIN open'[l] PROVE open'[l][k] <= MaxPerClient
      <4>1. HeldBy(open[l], Owner[c]) \in Nat
        BY <1>0, HeldByCounts, GuardsAreFinite, OwnersAreFinite DEF Counted
      <4>2. CASE k = Owner[c]
        BY <3>1, <4>1, <4>2 DEF OneMore
      <4>3. CASE k # Owner[c]
        BY <1>0, <3>1, <3>6, <4>3 DEF OneMore, Counted
      <4>4. QED
        BY <4>2, <4>3
    <3>7. QED
      BY <3>4, <3>5, <3>6 DEF Counted, Counts
  <2>4. QED
    BY <2>2, <2>3
<1>6. ASSUME NEW m \in TcpListeners, NEW c \in Connections, Refuse(m, c) PROVE Counted(l)'
  <2>1. Target[c] = m /\ conn[c] = "accepted" /\ conn' = [conn EXCEPT ![c] = "away"]
    BY <1>6 DEF Refuse, Accepted
  <2>2. Slots(l)' = Slots(l) /\ Permits(l)' = Permits(l) /\ open' = open
    BY <1>0, <1>6, <2>1 DEF Refuse, Slots, Permits, Serving, Typed
  <2>3. permits'[l] + Reserved(l)' = permits[l] + Reserved(l)
    BY <1>0, <1>6 DEF Refuse, Accepted, Typed, Reserved
  <2>4. permits'[l] + Reserved(l)' + Cardinality(Permits(l)') = MaxConnections
    BY <1>0, <2>2, <2>3 DEF Counted
  <2>5. QED
    BY <1>0, <2>2, <2>4 DEF Counted, Counts
<1>7. ASSUME NEW m \in TcpListeners, EndAccept(m) PROVE Counted(l)'
  <2>1. ASSUME NEW c \in ToSet(backlog[m]) PROVE conn[c] = "queued"
    <3>1. backlog[m] \in Seq(Connections)
      BY <1>0 DEF Typed
    <3>2. PICK i \in 1 .. Len(backlog[m]) : c = backlog[m][i]
      BY <2>1, <3>1 DEF ToSet
    <3>3. QED
      BY <3>2 DEF Inv, QueueFits
  <2>2. Slots(l)' = Slots(l) /\ Permits(l)' = Permits(l) /\ open' = open
    BY <1>0, <1>7, <2>1 DEF EndAccept, Slots, Permits, Serving, Typed
  <2>3. permits'[l] + Reserved(l)' = permits[l] + Reserved(l)
    BY <1>0, <1>7 DEF EndAccept, Typed, Reserved
  <2>4. permits'[l] + Reserved(l)' + Cardinality(Permits(l)') = MaxConnections
    BY <1>0, <2>2, <2>3 DEF Counted
  <2>5. QED
    BY <1>0, <2>2, <2>4 DEF Counted, Counts
<1>8. ASSUME NEW p \in Packets, Receive(p) \/ Reply(p) PROVE Counted(l)'
  BY <1>8, GuardsUnmoved DEF Receive, Reply, Reserved
<1>9. CASE EndReceive \/ Shutdown \/ Return
  BY <1>9, GuardsUnmoved DEF EndReceive, Shutdown, Return, Reserved
<1>10. CASE UNCHANGED vars
  BY <1>10, GuardsUnmoved DEF vars, Reserved
<1>11. QED
  BY <1>1, <1>2, <1>3, <1>4, <1>5, <1>6, <1>7, <1>8, <1>9, <1>10 DEF Next, Accepting

-----------------------------------------------------------------------------
LEMMA StepInv == Inv /\ [Next]_vars => Inv'
<1> SUFFICES ASSUME Inv, [Next]_vars PROVE Inv'
  OBVIOUS
<1>1. Typed' /\ QueueFits'
  BY StepTyped, StepQueueFits
<1>2. \A l \in TcpListeners : Counted(l)'
  BY <1>1, StepCounted
<1>3. PlacesAreCounted' /\ WithinLimit'
  BY <1>2 DEF Counted, PlacesAreCounted, WithinLimit
<1>4. QED
  BY <1>1, <1>3 DEF Inv

LEMMA AlwaysInv == Spec => []Inv
BY InitInv, StepInv, PTL DEF Spec

(* Type correctness; no entry of the table is empty, no permit is made up. *)
THEOREM TypeCorrect == Spec => []TypeOK
BY AlwaysInv, InvTypeOK, PTL

(* tcp.rs:99: free, reserved and held permits are all there are, and the   *)
(* table has exactly the clients that hold slots, with their numbers.      *)
THEOREM PlacesAreNeverLost == Spec => []PlacesAreCounted
<1>1. Inv => PlacesAreCounted
  BY DEF Inv
<1>2. QED
  BY <1>1, AlwaysInv, PTL

(* tcp.rs:54: no client is served more connections than its limit. *)
THEOREM LimitPerClient == Spec => []NoClientTakesAll
BY AlwaysInv, InvNoClientTakesAll, PTL

-----------------------------------------------------------------------------
(***************************************************************************)
(* Nothing is left when the listeners have returned.  Return looks at the  *)
(* loops and the tasks only; that no connection is then between the two --  *)
(* in a queue that nobody empties, or accepted and without a task -- needs *)
(* to be known of every state before: whoever waits is in the queue of a   *)
(* loop that runs, and what a loop has accepted is the one connection it   *)
(* is about to admit.                                                      *)
(***************************************************************************)
Waits(c) == \E i \in 1 .. Len(backlog[Target[c]]) : backlog[Target[c]][i] = c

InHand ==
  /\ \A c \in Connections : conn[c] = "queued" => Waits(c)
  /\ \A c \in Connections : conn[c] = "accepted" => acceptor[Target[c]] = "admitting"
  /\ \A c, d \in Connections :
       conn[c] = "accepted" /\ conn[d] = "accepted" /\ Target[c] = Target[d] => c = d
  /\ \A l \in TcpListeners : acceptor[l] = "ended" => backlog[l] = <<>>

AfterReturn ==
  returned => DrainedBeforeReturn /\ \A l \in TcpListeners : acceptor[l] = "ended"

Drained == Inv /\ InHand /\ AfterReturn

(* A step that leaves the queues and the loops alone, queues nobody and    *)
(* accepts nobody.                                                         *)
LEMMA InHandUntouched ==
  ASSUME Inv, InHand, UNCHANGED accepting,
         \A c \in Connections :
           /\ conn'[c] = "queued" => conn[c] = "queued"
           /\ conn'[c] = "accepted" => conn[c] = "accepted"
  PROVE  InHand'
BY DEF InHand, Waits, accepting

LEMMA StepInHand == Inv /\ InHand /\ [Next]_vars => InHand'
<1> SUFFICES ASSUME Inv, InHand, [Next]_vars PROVE InHand'
  OBVIOUS
<1> USE DEF limits, datagrams
<1>0. Typed
  BY DEF Inv
<1>1. ASSUME NEW c \in Connections, Connect(c) PROVE InHand'
  <2> DEFINE m == Target[c]
             q == backlog[m]
  <2>1. m \in TcpListeners /\ q \in Seq(Connections)
    BY <1>0 DEF Typed
  <2>2. /\ backlog'[m] = Append(q, c)
        /\ \A l \in TcpListeners : l # m => backlog'[l] = backlog[l]
        /\ acceptor' = acceptor /\ acceptor[m] # "ended"
        /\ \A d \in Connections : d # c => conn'[d] = conn[d]
        /\ conn'[c] = "queued"
    BY <1>0, <1>1, <2>1 DEF Connect, Typed, accepting
  <2>3. \A i \in 1 .. Len(q) : i \in 1 .. Len(Append(q, c)) /\ Append(q, c)[i] = q[i]
    BY <2>1
  <2>4. Len(q) + 1 \in 1 .. Len(Append(q, c)) /\ Append(q, c)[Len(q) + 1] = c
    BY <2>1
  <2> HIDE DEF q
  <2>5. ASSUME NEW d \in Connections, conn'[d] = "queued" PROVE Waits(d)'
    <3>1. CASE d = c
      BY <2>2, <2>4, <3>1 DEF Waits
    <3>2. CASE d # c /\ Target[d] = m
      <4>1. PICK i \in 1 .. Len(backlog[m]) : backlog[m][i] = d
        BY <2>2, <2>5, <3>2 DEF InHand, Waits
      <4>2. i \in 1 .. Len(backlog'[m]) /\ backlog'[m][i] = d
        BY <2>2, <2>3, <4>1 DEF q
      <4>3. QED
        BY <3>2, <4>2 DEF Waits
    <3>3. CASE d # c /\ Target[d] # m
      BY <2>2, <2>5, <3>3 DEF InHand, Waits
    <3>4. QED
      BY <3>1, <3>2, <3>3
  <2>6. QED
    BY <2>1, <2>2, <2>5 DEF InHand
<1>2. ASSUME NEW c \in Connections, Serve(c) PROVE InHand'
  BY <1>0, <1>2, InHandUntouched
     DEF Serve, Ends, PrefixArrives, BodyArrives, Leaves, SeesShutdown, Written,
         WriteFails, Answered, Dropped, DropSlot, DropPermit, Moves, Typed
<1>3. ASSUME NEW l \in TcpListeners, Acquire(l) PROVE InHand'
  BY <1>0, <1>3 DEF Acquire, InHand, Waits, Typed
<1>4. ASSUME NEW l \in TcpListeners, Accept(l) PROVE InHand'
  <2> DEFINE q == backlog[l]
             h == Head(q)
  <2>1. q \in Seq(Connections) /\ q # <<>> /\ h = q[1] /\ h \in Connections
    BY <1>0, <1>4 DEF Accept, Typed
  <2>2. Target[h] = l
    BY <2>1 DEF Inv, QueueFits
  <2>3. /\ backlog'[l] = Tail(q)
        /\ \A m \in TcpListeners : m # l => backlog'[m] = backlog[m] /\ acceptor'[m] = acceptor[m]
        /\ acceptor[l] = "accepting" /\ acceptor'[l] = "admitting"
        /\ \A d \in Connections : d # h => conn'[d] = conn[d]
        /\ conn'[h] = "accepted"
    BY <1>0, <1>4, <2>1 DEF Accept, Typed
  <2>4. \A i \in 1 .. Len(q) : i # 1 => i - 1 \in 1 .. Len(Tail(q)) /\ Tail(q)[i - 1] = q[i]
    BY <2>1
  <2> HIDE DEF q, h
  <2>5. ASSUME NEW d \in Connections, conn'[d] = "queued" PROVE Waits(d)'
    <3>1. d # h /\ Waits(d)
      BY <2>3, <2>5 DEF InHand
    <3>2. CASE Target[d] = l
      <4>1. PICK i \in 1 .. Len(q) : q[i] = d
        BY <3>1, <3>2 DEF Waits, q
      <4>2. i - 1 \in 1 .. Len(backlog'[l]) /\ backlog'[l][i - 1] = d
        BY <2>1, <2>3, <2>4, <3>1, <4>1
      <4>3. QED
        BY <3>2, <4>2 DEF Waits
    <3>3. CASE Target[d] # l
      BY <2>3, <3>1, <3>3 DEF Waits
    <3>4. QED
      BY <3>2, <3>3
  <2>6. ASSUME NEW d \in Connections, conn'[d] = "accepted"
        PROVE  IF Target[d] = l THEN d = h
               ELSE conn[d] = "accepted" /\ acceptor'[Target[d]] = "admitting"
    BY <2>2, <2>3, <2>6 DEF InHand
  <2>7. ASSUME NEW m \in TcpListeners, acceptor'[m] = "ended" PROVE backlog'[m] = <<>>
    BY <2>3, <2>7 DEF InHand
  <2>8. QED
    BY <2>3, <2>5, <2>6, <2>7 DEF InHand
<1>5. ASSUME NEW l \in TcpListeners, NEW c \in Connections, Admit(l, c) \/ Refuse(l, c)
      PROVE  InHand'
  <2>1. /\ backlog' = backlog /\ acceptor[l] = "admitting"
        /\ \A m \in TcpListeners : m # l => acceptor'[m] = acceptor[m]
        /\ acceptor'[l] = "acquiring"
        /\ conn[c] = "accepted" /\ Target[c] = l
        /\ conn'[c] \notin {"queued", "accepted"}
        /\ \A d \in Connections : d # c => conn'[d] = conn[d]
    BY <1>0, <1>5 DEF Admit, Refuse, Accepted, Typed
  <2>2. ASSUME NEW d \in Connections, conn'[d] = "accepted" PROVE Target[d] # l
    BY <2>1, <2>2 DEF InHand
  <2>3. QED
    BY <2>1, <2>2 DEF InHand, Waits
<1>6. ASSUME NEW l \in TcpListeners, EndAccept(l) PROVE InHand'
  <2>1. /\ \A m \in TcpListeners : m # l => backlog'[m] = backlog[m] /\ acceptor'[m] = acceptor[m]
        /\ backlog'[l] = <<>> /\ acceptor'[l] = "ended"
        /\ acceptor[l] # "admitting"
        /\ \A d \in Connections :
             conn'[d] = IF d \in ToSet(backlog[l]) THEN "away" ELSE conn[d]
    BY <1>0, <1>6 DEF EndAccept, Typed
  <2>2. ASSUME NEW d \in Connections, conn'[d] = "queued"
        PROVE  conn[d] = "queued" /\ Target[d] # l
    <3>1. conn[d] = "queued" /\ d \notin ToSet(backlog[l])
      BY <2>1, <2>2
    <3>2. QED
      BY <3>1 DEF InHand, Waits, ToSet
  <2>3. ASSUME NEW d \in Connections, conn'[d] = "accepted"
        PROVE  conn[d] = "accepted" /\ Target[d] # l
    BY <2>1, <2>3 DEF InHand
  <2>4. QED
    BY <2>1, <2>2, <2>3 DEF InHand, Waits
<1>7. ASSUME NEW p \in Packets, Receive(p) \/ Reply(p) PROVE InHand'
  BY <1>7, InHandUntouched DEF Receive, Reply
<1>8. CASE EndReceive \/ Shutdown \/ Return
  BY <1>8, InHandUntouched DEF EndReceive, Shutdown, Return
<1>9. CASE UNCHANGED vars
  BY <1>9, InHandUntouched DEF vars, accepting
<1>10. QED
  BY <1>1, <1>2, <1>3, <1>4, <1>5, <1>6, <1>7, <1>8, <1>9 DEF Next, Accepting

LEMMA StepAfterReturn == Inv /\ InHand /\ AfterReturn /\ [Next]_vars => AfterReturn'
<1> SUFFICES ASSUME Inv, InHand, AfterReturn, [Next]_vars, returned' PROVE AfterReturn'
  BY DEF AfterReturn
<1> USE DEF limits, datagrams, accepting
<1>0. Typed
  BY DEF Inv
<1>1. CASE Return
  <2>1. ASSUME NEW c \in Connections PROVE conn[c] = "away"
    <3>1. acceptor[Target[c]] = "ended" /\ conn[c] \notin Serving \cup {"ended"}
      BY <1>1 DEF Return
    <3>2. backlog[Target[c]] = <<>>
      BY <3>1 DEF InHand
    <3>3. conn[c] # "queued"
      BY <3>2 DEF InHand, Waits
    <3>4. QED
      BY <1>0, <3>1, <3>3 DEF InHand, Typed
  <2>2. QED
    BY <1>1, <2>1 DEF Return, AfterReturn, DrainedBeforeReturn
<1>2. CASE returned
  <2>1. /\ \A c \in Connections : conn[c] = "away"
        /\ \A l \in TcpListeners : acceptor[l] = "ended"
        /\ inflight = {} /\ ~receiving
    BY <1>2 DEF AfterReturn, DrainedBeforeReturn
  <2>2. ~ \E c \in Connections : Connect(c) \/ Serve(c)
    BY <2>1 DEF Connect, Serve, Ends, PrefixArrives, BodyArrives, Leaves, SeesShutdown,
                Written, WriteFails, Answered, Dropped, DropSlot, DropPermit, Moves
  <2>3. ~ \E l \in TcpListeners : Accepting(l) \/ EndAccept(l)
    BY <2>1 DEF Accepting, Acquire, Accept, Admit, Refuse, Accepted, EndAccept
  <2>4. ~ \E p \in Packets : Receive(p) \/ Reply(p)
    BY <2>1 DEF Receive, Reply
  <2>5. Shutdown \/ UNCHANGED vars
    BY <1>2, <2>1, <2>2, <2>3, <2>4 DEF Next, EndReceive, Return
  <2>6. QED
    BY <2>1, <2>5 DEF Shutdown, vars, AfterReturn, DrainedBeforeReturn
<1>3. returned \/ Return
  <2>1. ASSUME ~ Return PROVE returned' = returned
    BY <2>1 DEF Next, Connect, Serve, Ends, PrefixArrives, BodyArrives, Leaves,
                SeesShutdown, Written, WriteFails, Answered, Dropped, DropSlot,
                DropPermit, Moves, Accepting, Acquire, Accept, Admit, Refuse, EndAccept,
                Receive, Reply, EndReceive, Shutdown, vars
  <2>2. QED
    BY <2>1
<1>4. QED
  BY <1>1, <1>2, <1>3

LEMMA AlwaysDrained == Spec => []Drained
<1>1. Init => Drained
  <2>1. Init => InHand /\ AfterReturn
    BY DEF Init, InHand, AfterReturn
  <2>2. QED
    BY <2>1, InitInv DEF Drained
<1>2. Drained /\ [Next]_vars => Drained'
  BY StepInv, StepInHand, StepAfterReturn DEF Drained
<1>3. QED
  BY <1>1, <1>2, PTL DEF Spec

(* mod.rs:127: Bound::run returns when nothing is being answered any more  *)
(* and nobody is left waiting, and nothing begins after that.              *)
THEOREM ReturnsWhenDrained == Spec => []DrainedBeforeReturn
<1>1. Drained => DrainedBeforeReturn
  BY DEF Drained, AfterReturn, DrainedBeforeReturn
<1>2. QED
  BY <1>1, AlwaysDrained, PTL

-----------------------------------------------------------------------------
(***************************************************************************)
(* The connection to an upstream.  What a query gets is what is there when *)
(* it has the lock, or new; so it is enough that what is there is not      *)
(* known to have failed: to anybody, for whoever is asked next knows what  *)
(* anybody had reported.                                                   *)
(***************************************************************************)
USE TransportAssumption

KnownIsGone ==
  \A x \in Queries \cup {None} : connection # None => connection \notin known[x]

Connected ==
  Up!TypeOK /\ used \in [Queries -> Nat \cup {None}] /\ KnownIsGone /\ Up!FailedIsNotReused

LEMMA StepConnected == Connected /\ [Up!Next]_upVars => Connected'
<1> SUFFICES ASSUME Connected, [Up!Next]_upVars PROVE Connected'
  OBVIOUS
<1> USE DEF Connected, KnownIsGone, Up!TypeOK, Up!FailedIsNotReused
<1>1. ASSUME NEW k \in 1 .. made, Up!Break(k) PROVE Connected'
  BY <1>1 DEF Up!Break
<1>2. ASSUME NEW q \in Queries, Up!Ask(q) PROVE Connected'
  BY <1>2 DEF Up!Ask
<1>3. ASSUME NEW q \in Queries, Up!Reuse(q) PROVE Connected'
  <2> USE <1>3 DEF Up!Reuse
  <2>1. pc' \in [Queries -> {"ready", "waiting", "connecting", "sending", "failing"}]
    OBVIOUS
  <2>2. \A x \in Queries : pc'[x] \in {"sending", "failing"} =>
          used'[x] \in 1 .. made /\ used'[x] \notin known'[x]
    OBVIOUS
  <2>3. \A x \in Queries : pc'[x] \notin {"sending", "failing"} => used'[x] = None
    OBVIOUS
  <2>4. known' \in [Queries \cup {None} -> SUBSET (1 .. made)]
    OBVIOUS
  <2>5. QED
    BY <2>1, <2>2, <2>3, <2>4
<1>4. ASSUME NEW q \in Queries, Up!Connect(q) PROVE Connected'
  BY <1>4 DEF Up!Connect
<1>5. ASSUME NEW q \in Queries, Up!Connected(q) PROVE Connected'
  <2>1. made' = made + 1 /\ made' \in 1 .. MaxMade /\ 1 .. made \subseteq 1 .. made'
    BY <1>5 DEF Up!Connected
  <2>2. \A x \in Queries \cup {None} : made' \notin known[x]
    BY <2>1
  <2>3. pc' \in [Queries -> {"ready", "waiting", "connecting", "sending", "failing"}]
    BY <1>5 DEF Up!Connected
  <2>4. \A x \in Queries :
          IF pc'[x] \in {"sending", "failing"}
          THEN used'[x] \in 1 .. made' /\ used'[x] \notin known[x]
          ELSE used'[x] = None
    BY <1>5, <2>1, <2>2 DEF Up!Connected
  <2>5. QED
    BY <1>5, <2>1, <2>2, <2>3, <2>4 DEF Up!Connected
<1>6. ASSUME NEW q \in Queries, Up!NotConnected(q) PROVE Connected'
  BY <1>6 DEF Up!NotConnected
<1>7. ASSUME NEW q \in Queries, Up!Answer(q) PROVE Connected'
  <2> USE <1>7 DEF Up!Answer
  <2>1. pc' \in [Queries -> {"ready", "waiting", "connecting", "sending", "failing"}]
    OBVIOUS
  <2>2. \A x \in Queries : pc'[x] \in {"sending", "failing"} =>
          used'[x] \in 1 .. made /\ used'[x] \notin known'[x]
    OBVIOUS
  <2>3. \A x \in Queries : pc'[x] \notin {"sending", "failing"} => used'[x] = None
    OBVIOUS
  <2>4. known' \in [Queries \cup {None} -> SUBSET (1 .. made)]
    OBVIOUS
  <2>5. QED
    BY <2>1, <2>2, <2>3, <2>4
<1>8. ASSUME NEW q \in Queries, Up!Fail(q) PROVE Connected'
  BY <1>8 DEF Up!Fail
<1>9. ASSUME NEW q \in Queries, Up!Invalidate(q) PROVE Connected'
  <2> USE <1>9 DEF Up!Invalidate
  <2>1. pc' \in [Queries -> {"ready", "waiting", "connecting", "sending", "failing"}]
    OBVIOUS
  <2>2. \A x \in Queries : pc'[x] \in {"sending", "failing"} =>
          used'[x] \in 1 .. made /\ used'[x] \notin known'[x]
    OBVIOUS
  <2>3. \A x \in Queries : pc'[x] \notin {"sending", "failing"} => used'[x] = None
    OBVIOUS
  <2>4. known' \in [Queries \cup {None} -> SUBSET (1 .. made)]
    OBVIOUS
  <2>5. QED
    BY <2>1, <2>2, <2>3, <2>4
<1>10. CASE UNCHANGED upVars
  BY <1>10 DEF upVars
<1>11. QED
  BY <1>1, <1>2, <1>3, <1>4, <1>5, <1>6, <1>7, <1>8, <1>9, <1>10
     DEF Up!Next, Up!Locks, Up!Ends

(* transport.rs:5: a query that is asked after another has reported the    *)
(* failure of a connection does not get that connection again.             *)
THEOREM NoFailedConnection == MCSpec => []FailedIsNotReused
<1>1. MCInit => Connected
  BY DEF MCInit, Up!Init, Connected, KnownIsGone, Up!TypeOK, Up!FailedIsNotReused
<1>2. Connected /\ [MCNext]_allVars => Connected'
  <2>1. [MCNext]_allVars => [Up!Next]_upVars
    BY DEF MCNext, allVars
  <2>2. QED
    BY <2>1, StepConnected
<1>3. Connected => FailedIsNotReused
  BY DEF Connected, FailedIsNotReused
<1>4. QED
  BY <1>1, <1>2, <1>3, PTL DEF MCSpec
=============================================================================
