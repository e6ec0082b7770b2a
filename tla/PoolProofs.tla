------------------------------ MODULE PoolProofs -----------------------------
(***************************************************************************)
(* Theorems about the upstream pool, for any number of upstreams, requests *)
(* and zones: whom a request asks, and why.                                *)
(***************************************************************************)
EXTENDS Pool, WellFoundedInduction, FiniteSetTheorems, TLAPS

USE PoolAssumption

LessThan == {p \in Nat \X Nat : p[1] < p[2]}

(* The order of the naturals, as a relation, is well founded. *)
LEMMA LessThanWellFounded == IsWellFoundedOn(LessThan, Nat)
BY NatLessThanWellFounded, Zenon DEF OpToRel, LessThan

(* A non-empty set of naturals has a least member. *)
LEMMA LeastOfNats ==
  ASSUME NEW S, S \subseteq Nat, S # {}
  PROVE  \E x \in S : \A y \in S : x <= y
<1>1. PICK x \in S : \A y \in S : ~(<<y, x>> \in LessThan)
  BY LessThanWellFounded, WFMin
<1>2. ASSUME NEW y \in S PROVE x <= y
  <2>1. x \in Nat /\ y \in Nat /\ (y < x => <<y, x>> \in LessThan)
    BY DEF LessThan
  <2>2. QED
    BY <1>1, <2>1
<1>3. QED
  BY <1>2

-----------------------------------------------------------------------------
(***************************************************************************)
(* Among, which is defined from each beginning of an order to the next.    *)
(***************************************************************************)
Following(order, us, n, before) ==
  IF n = 0 THEN <<>>
  ELSE IF order[n] \in us THEN Append(before, order[n]) ELSE before

Defines(f, order, us, m) ==
  f = [n \in 0 .. m |-> Following(order, us, n, f[n - 1])]

LEMMA AmongIsDefined ==
  ASSUME NEW S, NEW order \in Seq(S), NEW us
  PROVE  \E f : Defines(f, order, us, Len(order)) /\ Among(order, us) = f[Len(order)]
<1> DEFINE Missing == {m \in 0 .. Len(order) : ~ \E f : Defines(f, order, us, m)}
<1>1. Missing = {}
  <2> SUFFICES ASSUME Missing # {} PROVE FALSE
    OBVIOUS
  <2>1. PICK m \in Missing : \A y \in Missing : m <= y
    <3>1. Missing \subseteq Nat
      OBVIOUS
    <3> HIDE DEF Missing
    <3>2. QED
      BY <3>1, LeastOfNats
  <2>2. m # 0
    <3> DEFINE f == [n \in 0 .. 0 |-> <<>>]
    <3>1. Defines(f, order, us, 0)
      BY DEF Defines, Following
    <3>2. QED
      BY <3>1
  <2>3. m - 1 \in 0 .. Len(order) /\ m - 1 \notin Missing
    BY <2>1, <2>2
  <2>4. PICK f : Defines(f, order, us, m - 1)
    BY <2>3
  <2> DEFINE g == [n \in 0 .. m |-> IF n = m THEN Following(order, us, m, f[m - 1]) ELSE f[n]]
  <2>5. Defines(g, order, us, m)
    <3>1. ASSUME NEW n \in 0 .. m PROVE g[n] = Following(order, us, n, g[n - 1])
      <4>1. CASE n = m
        BY <2>2, <4>1
      <4>2. CASE n # m /\ n # 0
        <5>1. n \in 0 .. m - 1 /\ n - 1 \in 0 .. m - 1
          BY <4>2
        <5>2. f[n] = Following(order, us, n, f[n - 1])
          BY <2>4, <5>1 DEF Defines
        <5>3. g[n] = f[n] /\ g[n - 1] = f[n - 1]
          BY <4>2, <5>1
        <5>4. QED
          BY <5>2, <5>3
      <4>3. CASE n # m /\ n = 0
        <5>1. 0 \in 0 .. m - 1
          BY <2>2
        <5>2. f[0] = Following(order, us, 0, f[0 - 1])
          BY <2>4, <5>1 DEF Defines
        <5>3. QED
          BY <4>3, <5>2 DEF Following
      <4>4. QED
        BY <4>1, <4>2, <4>3
    <3> HIDE DEF g
    <3>2. g = [n \in 0 .. m |-> g[n]]
      BY DEF g
    <3>3. QED
      BY <3>1, <3>2 DEF Defines
  <2>6. QED
    BY <2>1, <2>5
<1>2. \E f : Defines(f, order, us, Len(order))
  <2>1. Len(order) \in 0 .. Len(order)
    OBVIOUS
  <2>2. Len(order) \notin Missing
    BY <1>1
  <2>3. QED
    BY <2>1, <2>2
<1> DEFINE first ==
      CHOOSE f : f = [n \in 0 .. Len(order) |->
                        IF n = 0 THEN <<>>
                        ELSE IF order[n] \in us THEN Append(f[n - 1], order[n]) ELSE f[n - 1]]
<1>3. Among(order, us) = first[Len(order)]
  BY DEF Among
<1>4. Defines(first, order, us, Len(order))
  BY <1>2 DEF Defines, Following
<1> HIDE DEF first
<1>5. QED
  BY <1>3, <1>4

(* It has whom it should, nobody twice, and the first first. *)
Faithful(order, us, part, n) ==
  /\ part \in Seq(Upstreams)
  /\ ToSet(part) = {order[i] : i \in 1 .. n} \cap us
  /\ \A i, j \in DOMAIN part : part[i] = part[j] => i = j
  /\ n > 0 /\ order[1] \in us => part # <<>> /\ Head(part) = order[1]

LEMMA AmongIsFaithful ==
  ASSUME NEW order \in Seq(Upstreams), NEW us,
         \A i, j \in DOMAIN order : order[i] = order[j] => i = j
  PROVE  Faithful(order, us, Among(order, us), Len(order))
<1>1. PICK f : Defines(f, order, us, Len(order)) /\ Among(order, us) = f[Len(order)]
  BY AmongIsDefined
<1>2. \A n \in 0 .. Len(order) : f[n] = Following(order, us, n, f[n - 1])
  BY <1>1 DEF Defines
<1> DEFINE Wrong == {n \in 0 .. Len(order) : ~Faithful(order, us, f[n], n)}
<1>3. Wrong = {}
  <2> SUFFICES ASSUME Wrong # {} PROVE FALSE
    OBVIOUS
  <2>1. PICK n \in Wrong : \A y \in Wrong : n <= y
    <3>1. Wrong \subseteq Nat
      OBVIOUS
    <3> HIDE DEF Wrong
    <3>2. QED
      BY <3>1, LeastOfNats
  <2>2. n \in 0 .. Len(order) /\ ~Faithful(order, us, f[n], n)
    BY <2>1
  <2>3. n # 0
    <3>1. f[0] = <<>>
      BY <1>2 DEF Following
    <3>2. Faithful(order, us, <<>>, 0)
      BY DEF Faithful, ToSet
    <3>3. QED
      BY <2>2, <3>1, <3>2
  <2> DEFINE before == f[n - 1]
  <2>4. Faithful(order, us, before, n - 1)
    <3>1. n - 1 \in 0 .. Len(order) /\ n - 1 \notin Wrong
      BY <2>1, <2>3
    <3>2. QED
      BY <3>1
  <2>5. f[n] = IF order[n] \in us THEN Append(before, order[n]) ELSE before
    BY <1>2, <2>2, <2>3 DEF Following
  <2>6. n \in 1 .. Len(order) /\ order[n] \in Upstreams
    BY <2>2, <2>3
  <2>7. {order[i] : i \in 1 .. n} = {order[i] : i \in 1 .. n - 1} \cup {order[n]}
    BY <2>6
  <2>8. order[n] \notin {order[i] : i \in 1 .. n - 1}
    BY <2>6
  <2> HIDE DEF before
  <2>9. CASE order[n] \notin us
    <3>1. f[n] = before /\ ToSet(before) = {order[i] : i \in 1 .. n} \cap us
      BY <2>4, <2>5, <2>7, <2>9 DEF Faithful
    <3>2. order[1] \in us => n - 1 > 0
      BY <2>6, <2>9
    <3>3. Faithful(order, us, before, n)
      BY <2>4, <2>6, <3>1, <3>2 DEF Faithful
    <3>4. QED
      BY <2>2, <3>1, <3>3
  <2>10. CASE order[n] \in us
    <3> DEFINE part == Append(before, order[n])
    <3>1. f[n] = part
      BY <2>5, <2>10
    <3>2. before \in Seq(Upstreams)
      BY <2>4 DEF Faithful
    <3>3. part \in Seq(Upstreams) /\ Len(part) = Len(before) + 1
          /\ part[Len(part)] = order[n] /\ \A i \in 1 .. Len(before) : part[i] = before[i]
      BY <2>6, <3>2
    <3> HIDE DEF part
    <3>4. ToSet(part) = ToSet(before) \cup {order[n]}
      <4>1. DOMAIN part = (1 .. Len(before)) \cup {Len(part)} /\ DOMAIN before = 1 .. Len(before)
        BY <3>2, <3>3
      <4>2. QED
        BY <3>3, <4>1 DEF ToSet
    <3>5. ToSet(part) = {order[i] : i \in 1 .. n} \cap us
      BY <2>4, <2>7, <2>10, <3>4 DEF Faithful
    <3>6. order[n] \notin ToSet(before)
      BY <2>4, <2>8 DEF Faithful
    <3>7. \A i, j \in DOMAIN part : part[i] = part[j] => i = j
      <4>1. DOMAIN part = 1 .. Len(before) + 1 /\ DOMAIN before = 1 .. Len(before)
        BY <3>2, <3>3
      <4>2. \A i \in 1 .. Len(before) : before[i] # order[n]
        BY <3>6, <4>1 DEF ToSet
      <4>3. \A i, j \in 1 .. Len(before) : before[i] = before[j] => i = j
        BY <2>4, <4>1 DEF Faithful
      <4>4. QED
        BY <3>2, <3>3, <4>1, <4>2, <4>3
    <3>8. order[1] \in us => part # <<>> /\ Head(part) = order[1]
      <4>1. part # <<>> /\ Head(part) = part[1]
        BY <3>2, <3>3
      <4>2. CASE n = 1
        <5>1. ToSet(before) = {}
          BY <2>4, <4>2 DEF Faithful
        <5>2. before = <<>>
          <6>1. DOMAIN before = 1 .. Len(before) /\ Len(before) \in Nat
            BY <3>2
          <6>2. 1 \notin DOMAIN before
            BY <5>1 DEF ToSet
          <6>3. QED
            BY <3>2, <6>1, <6>2
        <5>3. QED
          BY <3>3, <4>1, <4>2, <5>2
      <4>3. CASE n > 1 /\ order[1] \in us
        <5>1. before # <<>> /\ Head(before) = order[1]
          BY <2>4, <2>6, <4>3 DEF Faithful
        <5>2. QED
          BY <3>2, <3>3, <4>1, <5>1
      <4>4. QED
        BY <2>6, <4>2, <4>3
    <3>9. Faithful(order, us, part, n)
      BY <3>3, <3>5, <3>7, <3>8 DEF Faithful
    <3>10. QED
      BY <2>2, <3>1, <3>9
  <2>11. QED
    BY <2>9, <2>10
<1>4. Len(order) \in 0 .. Len(order)
  OBVIOUS
<1>5. QED
  BY <1>1, <1>3, <1>4

-----------------------------------------------------------------------------
(***************************************************************************)
(* The order has every upstream once, and the zone's own first unless it   *)
(* counts as down.                                                         *)
(***************************************************************************)
LEMMA ByZoneIsACircle ==
  ASSUME TypeOK, NEW z \in Zones
  PROVE  /\ ByZone(z) \in Seq(Upstreams) /\ Len(ByZone(z)) = Count /\ Count > 0
         /\ \A i, j \in DOMAIN ByZone(z) : ByZone(z)[i] = ByZone(z)[j] => i = j
         /\ {ByZone(z)[i] : i \in 1 .. Count} = Upstreams
         /\ ByZone(z)[1] = ZoneIndex[seed][z]
<1> DEFINE k == ZoneIndex[seed][z]
<1> DEFINE order == ByZone(z)
<1>1. k \in 1 .. Count /\ Count \in Nat \ {0}
  BY DEF TypeOK, Upstreams
<1>2. \A x \in 0 .. Count - 1 : x % Count = x
  BY <1>1
<1>3. \A x \in Count .. 2 * Count - 1 : x % Count = x - Count
  BY <1>1
<1>4. \A i \in 1 .. Count :
        order[i] = IF k + i <= Count + 1 THEN k + i - 1 ELSE k + i - 1 - Count
  <2> SUFFICES ASSUME NEW i \in 1 .. Count
               PROVE  order[i] = IF k + i <= Count + 1 THEN k + i - 1 ELSE k + i - 1 - Count
    OBVIOUS
  <2> DEFINE x == k - 1 + i - 1
  <2>1. order[i] = (x % Count) + 1
    BY DEF ByZone
  <2> HIDE DEF k, order
  <2>2. CASE k + i <= Count + 1
    <3>1. x \in 0 .. Count - 1
      BY <1>1, <2>2
    <3>2. x % Count = x
      BY <1>2, <3>1
    <3>3. QED
      BY <1>1, <2>1, <2>2, <3>2
  <2>3. CASE ~(k + i <= Count + 1)
    <3>1. x \in Count .. 2 * Count - 1
      BY <1>1, <2>3
    <3>2. x % Count = x - Count
      BY <1>3, <3>1
    <3>3. QED
      BY <1>1, <2>1, <2>3, <3>2
  <2>4. QED
    BY <2>2, <2>3
<1>5. DOMAIN order = 1 .. Count /\ order = [i \in 1 .. Count |-> order[i]]
  BY DEF ByZone
<1> HIDE DEF k, order
<1>6. \A i \in 1 .. Count : order[i] \in Upstreams
  BY <1>1, <1>4 DEF Upstreams
<1>7. order \in Seq(Upstreams) /\ Len(order) = Count
  BY <1>1, <1>5, <1>6
<1>8. \A i, j \in DOMAIN order : order[i] = order[j] => i = j
  <2> SUFFICES ASSUME NEW i \in 1 .. Count, NEW j \in 1 .. Count, order[i] = order[j]
               PROVE  i = j
    BY <1>5
  <2>1. order[i] = IF k + i <= Count + 1 THEN k + i - 1 ELSE k + i - 1 - Count
    BY <1>4
  <2>2. order[j] = IF k + j <= Count + 1 THEN k + j - 1 ELSE k + j - 1 - Count
    BY <1>4
  <2>3. (IF k + i <= Count + 1 THEN k + i - 1 ELSE k + i - 1 - Count)
          = (IF k + j <= Count + 1 THEN k + j - 1 ELSE k + j - 1 - Count)
    BY <2>1, <2>2
  <2>4. QED
    BY <1>1, <2>3
<1>9. ASSUME NEW u \in Upstreams
      PROVE  \E i \in 1 .. Count : order[i] = u
  <2> DEFINE i == IF u >= k THEN u - k + 1 ELSE u - k + 1 + Count
  <2>1. i \in 1 .. Count /\ order[i] = u
    BY <1>1, <1>4 DEF Upstreams
  <2>2. QED
    BY <2>1
<1>10. order[1] = k
  BY <1>1, <1>4
<1>11. QED
  BY <1>1, <1>6, <1>7, <1>8, <1>9, <1>10 DEF order, k

LEMMA OrderIsComplete ==
  ASSUME TypeOK, NEW z \in Zones
  PROVE  /\ Order(z) \in Seq(Upstreams)
         /\ ToSet(Order(z)) = Upstreams
         /\ \A i, j \in DOMAIN Order(z) : Order(z)[i] = Order(z)[j] => i = j
         /\ ~IsDown(ZoneIndex[seed][z]) =>
              Order(z) # <<>> /\ Head(Order(z)) = ZoneIndex[seed][z]
<1> DEFINE base == ByZone(z)
<1> DEFINE up == Among(base, Upstreams \ Down)
<1> DEFINE down == Among(base, Down)
<1>1. /\ base \in Seq(Upstreams) /\ Len(base) = Count /\ Count > 0
      /\ \A i, j \in DOMAIN base : base[i] = base[j] => i = j
      /\ {base[i] : i \in 1 .. Count} = Upstreams
      /\ base[1] = ZoneIndex[seed][z]
  BY ByZoneIsACircle
<1>2. Order(z) = up \o down
  BY DEF Order
<1> HIDE DEF base
<1>3. Faithful(base, Upstreams \ Down, up, Count) /\ Faithful(base, Down, down, Count)
  BY <1>1, AmongIsFaithful
<1> HIDE DEF up, down
<1>4. up \in Seq(Upstreams) /\ down \in Seq(Upstreams)
  BY <1>3 DEF Faithful
<1>5. ToSet(up) = Upstreams \ Down /\ ToSet(down) = Down
  BY <1>1, <1>3 DEF Faithful, Down
<1>6. /\ DOMAIN (up \o down) = 1 .. Len(up) + Len(down)
      /\ \A i \in 1 .. Len(up) : (up \o down)[i] = up[i] /\ up[i] \in ToSet(up)
      /\ \A i \in Len(up) + 1 .. Len(up) + Len(down) :
           (up \o down)[i] = down[i - Len(up)] /\ down[i - Len(up)] \in ToSet(down)
  BY <1>4 DEF ToSet
<1>7. ToSet(up \o down) = ToSet(up) \cup ToSet(down)
  <2>1. ASSUME NEW u \in ToSet(up) PROVE u \in ToSet(up \o down)
    <3>1. PICK i \in 1 .. Len(up) : u = up[i]
      BY <1>4 DEF ToSet
    <3>2. i \in DOMAIN (up \o down) /\ (up \o down)[i] = u
      BY <1>4, <1>6, <3>1
    <3>3. QED
      BY <3>2 DEF ToSet
  <2>2. ASSUME NEW u \in ToSet(down) PROVE u \in ToSet(up \o down)
    <3>1. PICK i \in 1 .. Len(down) : u = down[i]
      BY <1>4 DEF ToSet
    <3>2. Len(up) + i \in DOMAIN (up \o down) /\ (up \o down)[Len(up) + i] = u
      BY <1>4, <1>6, <3>1
    <3>3. QED
      BY <3>2 DEF ToSet
  <2>3. ASSUME NEW u \in ToSet(up \o down) PROVE u \in ToSet(up) \cup ToSet(down)
    <3>1. PICK i \in DOMAIN (up \o down) : u = (up \o down)[i]
      BY DEF ToSet
    <3>2. i \in 1 .. Len(up) \/ i \in Len(up) + 1 .. Len(up) + Len(down)
      BY <1>4, <1>6, <3>1
    <3>3. QED
      BY <1>6, <3>1, <3>2
  <2>4. QED
    BY <2>1, <2>2, <2>3
<1>8. \A i, j \in DOMAIN (up \o down) : (up \o down)[i] = (up \o down)[j] => i = j
  <2> SUFFICES ASSUME NEW i \in DOMAIN (up \o down), NEW j \in DOMAIN (up \o down),
                      (up \o down)[i] = (up \o down)[j]
               PROVE  i = j
    OBVIOUS
  <2>1. \A n \in DOMAIN (up \o down) :
          n \in 1 .. Len(up) \/ n \in Len(up) + 1 .. Len(up) + Len(down)
    BY <1>4, <1>6
  <2>2. CASE i \in 1 .. Len(up) /\ j \in 1 .. Len(up)
    <3>1. up[i] = up[j] /\ i \in DOMAIN up /\ j \in DOMAIN up
      BY <1>4, <1>6, <2>2
    <3>2. QED
      BY <1>3, <3>1 DEF Faithful
  <2>3. CASE /\ i \in Len(up) + 1 .. Len(up) + Len(down)
             /\ j \in Len(up) + 1 .. Len(up) + Len(down)
    <3>1. /\ down[i - Len(up)] = down[j - Len(up)]
          /\ i - Len(up) \in DOMAIN down /\ j - Len(up) \in DOMAIN down
      BY <1>4, <1>6, <2>3
    <3>2. i - Len(up) = j - Len(up)
      BY <1>3, <3>1 DEF Faithful
    <3>3. QED
      BY <1>4, <2>3, <3>2
  <2>4. \A a, b \in DOMAIN (up \o down) :
          a \in 1 .. Len(up) /\ b \in Len(up) + 1 .. Len(up) + Len(down) =>
            (up \o down)[a] # (up \o down)[b]
    BY <1>5, <1>6
  <2>5. QED
    BY <2>1, <2>2, <2>3, <2>4
<1>9. ~IsDown(ZoneIndex[seed][z]) =>
        up \o down # <<>> /\ Head(up \o down) = ZoneIndex[seed][z]
  <2> SUFFICES ASSUME ~IsDown(ZoneIndex[seed][z])
               PROVE  up \o down # <<>> /\ Head(up \o down) = base[1]
    BY <1>1
  <2>1. base[1] \in Upstreams \ Down
    BY <1>1 DEF Down, TypeOK
  <2>2. up # <<>> /\ Head(up) = base[1]
    BY <1>1, <1>3, <2>1 DEF Faithful
  <2>3. QED
    BY <1>4, <2>2
<1>10. QED
  BY <1>2, <1>4, <1>5, <1>7, <1>8, <1>9 DEF Down

-----------------------------------------------------------------------------
TypeInv == TypeOK /\ NobodyIsLeftOut

LEMMA ReturnKeeps ==
  ASSUME TypeInv, NEW r \in Requests, Return(r), UNCHANGED <<now, seed, downUntil>>,
         consecutive' \in [Upstreams -> 0 .. MaxFailures]
  PROVE  TypeInv'
<1>1. TypeOK'
  BY DEF TypeInv, TypeOK, Return, Goto, Places
<1>2. NobodyIsLeftOut'
  BY DEF TypeInv, TypeOK, NobodyIsLeftOut, Return, Goto
<1>3. QED
  BY <1>1, <1>2 DEF TypeInv

LEMMA MovingKeeps ==
  ASSUME TypeInv, NEW r \in Requests, NEW place \in Places, Goto(r, place), pc[r] # "idle",
         UNCHANGED <<todo, asked>>, TypeOK'
  PROVE  TypeInv'
BY DEF TypeInv, TypeOK, NobodyIsLeftOut, Goto

LEMMA StepTypeInv == TypeInv /\ [Next]_vars => TypeInv'
<1> SUFFICES ASSUME TypeInv, [Next]_vars PROVE TypeInv'
  OBVIOUS
<1> USE DEF health, locals, history
<1>1. ASSUME NEW r \in Requests, Try(r) PROVE TypeInv'
  <2>1. todo[r] \in Seq(Upstreams) /\ todo[r] # <<>> /\ Head(todo[r]) \in Upstreams
        /\ Tail(todo[r]) \in Seq(Upstreams)
    BY <1>1 DEF Try, TypeInv, TypeOK
  <2>2. TypeOK'
    BY <1>1, <2>1 DEF Try, TypeInv, TypeOK, Goto, Places
  <2> DEFINE s == todo[r]
  <2>3. /\ todo'[r] = Tail(s) /\ asked'[r] = asked[r] \cup {Head(s)}
        /\ \A q \in Requests \ {r} : todo'[q] = todo[q] /\ asked'[q] = asked[q] /\ pc'[q] = pc[q]
    BY <1>1 DEF Try, TypeInv, TypeOK, Goto
  <2>4. /\ asked[r] \cup ToSet(s) = Upstreams
        /\ \A i, j \in DOMAIN s : s[i] = s[j] => i = j
        /\ \A i \in DOMAIN s : s[i] \notin asked[r]
    BY <1>1 DEF Try, TypeInv, NobodyIsLeftOut
  <2> HIDE DEF s
  <2>5. /\ DOMAIN s = 1 .. Len(s) /\ Len(s) \in Nat \ {0} /\ DOMAIN Tail(s) = 1 .. Len(s) - 1
        /\ \A i \in 1 .. Len(s) - 1 : Tail(s)[i] = s[i + 1]
        /\ Head(s) = s[1]
    BY <2>1 DEF s
  <2>6. ToSet(s) = {Head(s)} \cup ToSet(Tail(s))
    <3>1. ASSUME NEW i \in 1 .. Len(s)
          PROVE  s[i] \in {Head(s)} \cup ToSet(Tail(s))
      <4>1. CASE i = 1
        BY <2>5, <4>1
      <4>2. CASE i # 1
        <5>1. i - 1 \in 1 .. Len(s) - 1 /\ (i - 1) + 1 = i
          BY <2>5, <4>2
        <5>2. Tail(s)[i - 1] = s[i]
          BY <2>5, <5>1
        <5>3. QED
          BY <2>5, <5>1, <5>2 DEF ToSet
      <4>3. QED
        BY <4>1, <4>2
    <3>2. ToSet(s) \subseteq {Head(s)} \cup ToSet(Tail(s))
      BY <2>5, <3>1 DEF ToSet
    <3>3. ToSet(Tail(s)) \subseteq ToSet(s)
      BY <2>5 DEF ToSet
    <3>4. Head(s) \in ToSet(s)
      BY <2>5 DEF ToSet
    <3>5. QED
      BY <3>2, <3>3, <3>4
  <2>7. \A i, j \in DOMAIN Tail(s) : Tail(s)[i] = Tail(s)[j] => i = j
    BY <2>4, <2>5
  <2>8. \A i \in DOMAIN Tail(s) : Tail(s)[i] \notin asked[r] /\ Tail(s)[i] # Head(s)
    <3> SUFFICES ASSUME NEW i \in DOMAIN Tail(s)
                 PROVE  Tail(s)[i] \notin asked[r] /\ Tail(s)[i] # Head(s)
      OBVIOUS
    <3>1. i + 1 \in DOMAIN s /\ 1 \in DOMAIN s /\ i + 1 # 1 /\ Tail(s)[i] = s[i + 1]
      BY <2>5
    <3>2. QED
      BY <2>4, <2>5, <3>1
  <2>9. NobodyIsLeftOut'
    <3>1. asked'[r] \cup ToSet(todo'[r]) = Upstreams
      BY <2>3, <2>4, <2>6
    <3>2. ASSUME NEW q \in Requests
          PROVE  /\ pc'[q] # "idle" => asked'[q] \cup ToSet(todo'[q]) = Upstreams
                 /\ \A i, j \in DOMAIN todo'[q] : todo'[q][i] = todo'[q][j] => i = j
                 /\ \A i \in DOMAIN todo'[q] : todo'[q][i] \notin asked'[q]
      <4>1. CASE q = r
        BY <2>3, <2>7, <2>8, <3>1, <4>1
      <4>2. CASE q # r
        BY <2>3, <4>2 DEF TypeInv, NobodyIsLeftOut
      <4>3. QED
        BY <4>1, <4>2
    <3>3. QED
      BY <3>2 DEF NobodyIsLeftOut, ToSet
  <2>10. QED
    BY <2>2, <2>9 DEF TypeInv
<1>2. ASSUME NEW r \in Requests, NEW z \in Zones, Begin(r, z) PROVE TypeInv'
  <2>1. /\ Order(z) \in Seq(Upstreams) /\ ToSet(Order(z)) = Upstreams
        /\ \A i, j \in DOMAIN Order(z) : Order(z)[i] = Order(z)[j] => i = j
    BY OrderIsComplete DEF TypeInv
  <2> DEFINE order == Order(z)
  <2>2. /\ todo' = [todo EXCEPT ![r] = order] /\ Goto(r, "next")
        /\ asked' = [asked EXCEPT ![r] = {}] /\ home' = [home EXCEPT ![r] = ZoneIndex[seed][z]]
        /\ detour' = [detour EXCEPT ![r] = Down]
        /\ UNCHANGED <<now, seed, health, current, until>>
    BY <1>2 DEF Begin
  <2> HIDE DEF order
  <2>3. order \in Seq(Upstreams) /\ ToSet(order) = Upstreams
        /\ \A i, j \in DOMAIN order : order[i] = order[j] => i = j
    BY <2>1 DEF order
  <2>4. ZoneIndex[seed][z] \in Upstreams /\ Down \subseteq Upstreams
    BY DEF TypeInv, TypeOK, Down
  <2>5. TypeOK'
    BY <2>2, <2>3, <2>4 DEF TypeInv, TypeOK, Goto, Places
  <2>6. NobodyIsLeftOut'
    <3>1. /\ todo'[r] = order /\ asked'[r] = {}
          /\ \A q \in Requests \ {r} :
               todo'[q] = todo[q] /\ asked'[q] = asked[q] /\ pc'[q] = pc[q]
      BY <2>2 DEF TypeInv, TypeOK, Goto
    <3>2. QED
      BY <2>3, <3>1 DEF TypeInv, NobodyIsLeftOut
  <2>7. QED
    BY <2>5, <2>6 DEF TypeInv
<1>3. ASSUME NEW r \in Requests, GiveUp(r) \/ UpstreamIsBogus(r) PROVE TypeInv'
  BY <1>3, ReturnKeeps DEF GiveUp, UpstreamIsBogus, TypeInv, TypeOK
<1>4. ASSUME NEW r \in Requests,
             UpstreamAnswers(r) \/ UpstreamIsUnproven(r) \/ UpstreamFails(r)
      PROVE  TypeInv'
  <2>1. TypeOK'
    <3>1. UpstreamAnswers(r) => TypeOK'
      BY DEF UpstreamAnswers, TypeInv, TypeOK, Goto, Places
    <3>2. UpstreamIsUnproven(r) => TypeOK'
      BY DEF UpstreamIsUnproven, TypeInv, TypeOK, Goto, Places
    <3>3. UpstreamFails(r) => TypeOK'
      BY DEF UpstreamFails, TypeInv, TypeOK, Goto, Places
    <3>4. QED
      BY <1>4, <3>1, <3>2, <3>3
  <2>2. QED
    BY <1>4, <2>1, MovingKeeps DEF UpstreamAnswers, UpstreamIsUnproven, UpstreamFails, Places
<1>5. ASSUME NEW r \in Requests, ResetCounter(r) PROVE TypeInv'
  <2>1. consecutive' \in [Upstreams -> 0 .. MaxFailures]
    BY <1>5 DEF ResetCounter, TypeInv, TypeOK
  <2>2. CASE Return(r)
    BY <1>5, <2>1, <2>2, ReturnKeeps DEF ResetCounter
  <2>3. CASE Goto(r, "clearing") /\ UNCHANGED <<locals, history>>
    <3>1. TypeOK'
      BY <1>5, <2>1, <2>3 DEF ResetCounter, TypeInv, TypeOK, Goto, Places
    <3>2. QED
      BY <1>5, <2>3, <3>1, MovingKeeps DEF ResetCounter, Places
  <2>4. QED
    BY <1>5, <2>2, <2>3 DEF ResetCounter
<1>6. ASSUME NEW r \in Requests, ClearDown(r) PROVE TypeInv'
  <2>1. TypeOK'
    BY <1>6 DEF ClearDown, TypeInv, TypeOK, Return, Goto, Places
  <2>2. NobodyIsLeftOut'
    BY <1>6 DEF ClearDown, TypeInv, TypeOK, NobodyIsLeftOut, Return, Goto
  <2>3. QED
    BY <2>1, <2>2 DEF TypeInv
<1>7. ASSUME NEW r \in Requests, CountFailure(r) PROVE TypeInv'
  <2>1. TypeOK'
    BY <1>7 DEF CountFailure, TypeInv, TypeOK, Goto, Places
  <2>2. QED
    BY <1>7, <2>1, MovingKeeps DEF CountFailure, Places
<1>8. ASSUME NEW r \in Requests, MarkDown(r) PROVE TypeInv'
  <2>1. TypeOK'
    BY <1>8 DEF MarkDown, TypeInv, TypeOK, Goto, Places
  <2>2. QED
    BY <1>8, <2>1, MovingKeeps DEF MarkDown, Places
<1>9. CASE Tick \/ Rotate \/ UNCHANGED vars
  BY <1>9 DEF Tick, Rotate, vars, TypeInv, TypeOK, NobodyIsLeftOut
<1>10. QED
  BY <1>1, <1>2, <1>3, <1>4, <1>5, <1>6, <1>7, <1>8, <1>9 DEF Next, Proceed

LEMMA AlwaysTypeInv == Spec => []TypeInv
<1>1. Init => TypeInv
  BY DEF Init, TypeInv, TypeOK, NobodyIsLeftOut, Places
<1>2. QED
  BY <1>1, StepTypeInv, PTL DEF Spec

(* A request that works on an upstream has one, and all else is of its     *)
(* type.                                                                   *)
THEOREM TypeCorrect == Spec => []TypeOK
<1>1. TypeInv => TypeOK
  BY DEF TypeInv
<1>2. QED
  BY <1>1, AlwaysTypeInv, PTL

(* upstream/pool.rs:277, fail open: for any number of upstreams and of     *)
(* requests, a request gives up only after it asked every upstream, and    *)
(* asks none twice.                                                        *)
THEOREM FailOpen == Spec => []NobodyIsLeftOut
<1>1. TypeInv => NobodyIsLeftOut
  BY DEF TypeInv
<1>2. QED
  BY <1>1, AlwaysTypeInv, PTL

-----------------------------------------------------------------------------
(***************************************************************************)
(* Who has seen the question of a request came to nothing, up to the one   *)
(* that is at work on it; and the zone's own, unless it is passed by or    *)
(* failed, is the first to see it and the only one.                        *)
(***************************************************************************)
Homely(r) ==
  /\ pc[r] = "idle" => asked[r] = {}
  /\ pc[r] \notin {"idle", "next"} => current[r] \in asked[r]
  /\ pc[r] \in {"next", "failed", "marking"} => asked[r] \subseteq detour[r]
  /\ asked[r] \subseteq detour[r] \cup {current[r]}
  /\ home[r] \notin detour[r] =>
       \/ asked[r] \subseteq {home[r]} /\ pc[r] # "next"
       \/ asked[r] = {} /\ todo[r] # <<>> /\ Head(todo[r]) = home[r]

HomeInv == TypeInv /\ \A r \in Requests : Homely(r)

LEMMA StepHome == HomeInv /\ [Next]_vars => \A r \in Requests : Homely(r)'
<1> SUFFICES ASSUME HomeInv, [Next]_vars, NEW r \in Requests PROVE Homely(r)'
  OBVIOUS
<1> USE DEF health, locals, history, HomeInv, TypeInv, TypeOK
<1>1. ASSUME UNCHANGED <<pc, asked, detour, current, home, todo>>
      PROVE  Homely(r)'
  BY <1>1 DEF Homely
<1>2. ASSUME NEW q \in Requests, Return(q) PROVE Homely(r)'
  BY <1>2 DEF Return, Goto, Homely
<1>3. ASSUME NEW q \in Requests, Try(q) PROVE Homely(r)'
  <2>1. CASE r # q
    BY <1>3, <2>1 DEF Try, Goto, Homely
  <2>2. CASE r = q
    <3>1. /\ pc[r] = "next" /\ todo[r] # <<>> /\ pc'[r] = "asking"
          /\ current'[r] = Head(todo[r])
          /\ asked'[r] = asked[r] \cup {Head(todo[r])}
          /\ home'[r] = home[r] /\ detour'[r] = detour[r]
      BY <1>3, <2>2 DEF Try, Goto
    <3>2. Homely(r)
      OBVIOUS
    <3>3. QED
      BY <3>1, <3>2 DEF Homely
  <2>3. QED
    BY <2>1, <2>2
<1>4. ASSUME NEW q \in Requests, NEW z \in Zones, Begin(q, z) PROVE Homely(r)'
  <2>1. CASE r # q
    BY <1>4, <2>1 DEF Begin, Goto, Homely
  <2>2. CASE r = q
    <3>1. /\ pc'[r] = "next" /\ todo'[r] = Order(z) /\ asked'[r] = {}
          /\ home'[r] = ZoneIndex[seed][z] /\ detour'[r] = Down
      BY <1>4, <2>2 DEF Begin, Goto
    <3>2. ZoneIndex[seed][z] \in Upstreams
      OBVIOUS
    <3>3. ~IsDown(ZoneIndex[seed][z]) =>
            Order(z) # <<>> /\ Head(Order(z)) = ZoneIndex[seed][z]
      BY OrderIsComplete
    <3>4. QED
      BY <3>1, <3>2, <3>3 DEF Homely, Down
  <2>3. QED
    BY <2>1, <2>2
<1>5. ASSUME NEW q \in Requests, UpstreamAnswers(q) PROVE Homely(r)'
  BY <1>5 DEF UpstreamAnswers, Goto, Homely
<1>6. ASSUME NEW q \in Requests, UpstreamIsUnproven(q) PROVE Homely(r)'
  <2>1. CASE r # q
    BY <1>6, <2>1 DEF UpstreamIsUnproven, Goto, Homely
  <2>2. CASE r = q
    <3>1. /\ pc[r] = "asking" /\ pc'[r] = "next" /\ detour'[r] = detour[r] \cup {current[r]}
          /\ UNCHANGED <<asked, current, home, todo>>
      BY <1>6, <2>2 DEF UpstreamIsUnproven, Goto
    <3>2. Homely(r)
      OBVIOUS
    <3>3. QED
      BY <3>1, <3>2 DEF Homely
  <2>3. QED
    BY <2>1, <2>2
<1>7. ASSUME NEW q \in Requests, UpstreamFails(q) PROVE Homely(r)'
  BY <1>7 DEF UpstreamFails, Goto, Homely
<1>8. ASSUME NEW q \in Requests, ResetCounter(q) PROVE Homely(r)'
  <2>1. CASE Return(q)
    BY <1>2, <2>1
  <2>2. CASE Goto(q, "clearing") /\ UNCHANGED <<locals, history>>
    BY <1>8, <2>2 DEF ResetCounter, Goto, Homely
  <2>3. QED
    BY <1>8, <2>1, <2>2 DEF ResetCounter
<1>9. ASSUME NEW q \in Requests, CountFailure(q) PROVE Homely(r)'
  <2>1. CASE r # q
    BY <1>9, <2>1 DEF CountFailure, Goto, Homely
  <2>2. CASE r = q
    <3>1. /\ pc[r] = "failed" /\ pc'[r] \in {"marking", "next"}
          /\ UNCHANGED <<asked, detour, current, home, todo>>
      BY <1>9, <2>2 DEF CountFailure, Goto
    <3>2. Homely(r)
      OBVIOUS
    <3>3. QED
      BY <3>1, <3>2 DEF Homely
  <2>3. QED
    BY <2>1, <2>2
<1>10. ASSUME NEW q \in Requests, MarkDown(q) PROVE Homely(r)'
  <2>1. CASE r # q
    BY <1>10, <2>1 DEF MarkDown, Goto, Homely
  <2>2. CASE r = q
    <3>1. /\ pc[r] = "marking" /\ pc'[r] = "next"
          /\ UNCHANGED <<asked, detour, current, home, todo>>
      BY <1>10, <2>2 DEF MarkDown, Goto
    <3>2. Homely(r)
      OBVIOUS
    <3>3. QED
      BY <3>1, <3>2 DEF Homely
  <2>3. QED
    BY <2>1, <2>2
<1>11. CASE Tick \/ Rotate \/ UNCHANGED vars
  BY <1>1, <1>11 DEF Tick, Rotate, vars
<1>12. ASSUME NEW q \in Requests, GiveUp(q) \/ UpstreamIsBogus(q) \/ ClearDown(q)
       PROVE  Homely(r)'
  BY <1>2, <1>12 DEF GiveUp, UpstreamIsBogus, ClearDown
<1>13. QED
  BY <1>3, <1>4, <1>5, <1>6, <1>7, <1>8, <1>9, <1>10, <1>11, <1>12 DEF Next, Proceed

(* upstream/strategy.rs, split_by_zone: for any number of upstreams and    *)
(* requests and any seeds, a question is shown to another upstream than    *)
(* its zone's only after that one failed it or was passed by, and to each  *)
(* further one only because those before it came to nothing.               *)
THEOREM SplitByZone == Spec => []QuestionsStayHome
<1>1. Init => HomeInv
  BY DEF Init, HomeInv, TypeInv, TypeOK, NobodyIsLeftOut, Places, Homely
<1>2. HomeInv /\ [Next]_vars => HomeInv'
  BY StepTypeInv, StepHome DEF HomeInv
<1>3. HomeInv => QuestionsStayHome
  <2> SUFFICES ASSUME HomeInv, NEW r \in Requests
               PROVE  /\ asked[r] \ {home[r]} # {} => home[r] \in detour[r]
                      /\ Cardinality(asked[r] \ detour[r]) <= 1
    BY DEF QuestionsStayHome
  <2>1. Homely(r)
    BY DEF HomeInv
  <2> DEFINE working == asked[r] \ detour[r]
  <2>2. working = {} \/ working = {current[r]}
    BY <2>1 DEF Homely
  <2>3. asked[r] \ {home[r]} # {} => home[r] \in detour[r]
    BY <2>1 DEF Homely
  <2> HIDE DEF working
  <2>4. Cardinality(working) <= 1
    <3>1. Cardinality({}) = 0 /\ Cardinality({current[r]}) = 1
      BY FS_EmptySet, FS_Singleton
    <3>2. working = {} => Cardinality(working) <= 1
      BY <3>1
    <3>3. working = {current[r]} => Cardinality(working) <= 1
      BY <3>1
    <3>4. QED
      BY <2>2, <3>2, <3>3
  <2>5. QED
    BY <2>3, <2>4 DEF working
<1>4. QED
  BY <1>1, <1>2, <1>3, PTL DEF Spec
=============================================================================
