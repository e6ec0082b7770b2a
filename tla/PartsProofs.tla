----------------------------- MODULE PartsProofs -----------------------------
(***************************************************************************)
(* Theorems about the distance of names, and about Parts as a whole: what  *)
(* holds of a part holds of it there.                                      *)
(***************************************************************************)
EXTENDS Parts, WellFoundedInduction, TLAPS

-----------------------------------------------------------------------------
(* The order of the naturals, as a relation, is well founded. *)
LessThan == {p \in Nat \X Nat : p[1] < p[2]}

LEMMA LessThanWellFounded == IsWellFoundedOn(LessThan, Nat)
BY NatLessThanWellFounded, Zenon DEF OpToRel, LessThan

(* A non-empty set of naturals has a least member. *)
LEMMA LeastOfNats ==
  ASSUME NEW S, S \subseteq Nat, S # {}
  PROVE  \E x \in S : \A y \in S : x <= y
<1>1. PICK x \in S : \A y \in S : ~(<<y, x>> \in LessThan)
  BY LessThanWellFounded, WFMin
<1>2. ASSUME NEW y \in S PROVE x <= y
  <2>1. x \in Nat /\ y \in Nat /\ (y < x => <<y, x>> \in LessThan)
    BY DEF LessThan
  <2>2. QED
    BY <1>1, <2>1
<1>3. QED
  BY <1>2

(* Induction, of a set and not of an operator. *)
LEMMA Inductive ==
  ASSUME NEW X, 0 \in X, \A n \in Nat : n \in X => n + 1 \in X
  PROVE  Nat \subseteq X
<1> SUFFICES ASSUME Nat \ X # {} PROVE FALSE
  OBVIOUS
<1>1. PICK m \in Nat \ X : \A y \in Nat \ X : m <= y
  BY LeastOfNats
<1>2. m # 0 /\ m - 1 \in Nat
  BY <1>1
<1>3. m - 1 \in X
  BY <1>1, <1>2
<1>4. QED BY <1>1, <1>2, <1>3

(***************************************************************************)
(* The distance of two texts.  First: what is computed from the one before *)
(* it exists, for as long as each step stays in a set.                     *)
(***************************************************************************)
Goes(f, n, a, G) == f = [i \in 0 .. n |-> IF i = 0 THEN a ELSE G[<<i, f[i - 1]>>]]

LEMMA Recursion ==
  ASSUME NEW n \in Nat, NEW X, NEW a \in X, NEW G \in [(1 .. n) \X X -> X]
  PROVE  \E f \in [0 .. n -> X] : Goes(f, n, a, G)
<1> DEFINE Holds(f, k) == /\ f \in [0 .. k -> X] /\ f[0] = a
                         /\ \A i \in 1 .. k : f[i] = G[<<i, f[i - 1]>>]
           Y == {k \in Nat : k <= n => \E f : Holds(f, k)}
<1>1. 0 \in Y
  <2>1. Holds([i \in 0 .. 0 |-> a], 0)
    OBVIOUS
  <2>2. QED BY <2>1
<1>2. ASSUME NEW k \in Nat, k \in Y PROVE k + 1 \in Y
  <2> SUFFICES ASSUME k + 1 <= n PROVE \E f : Holds(f, k + 1)
    OBVIOUS
  <2>1. PICK g : Holds(g, k)
    BY <1>2
  <2> DEFINE h == [i \in 0 .. k + 1 |-> IF i = k + 1 THEN G[<<k + 1, g[k]>>] ELSE g[i]]
  <2>2. k \in 0 .. k /\ k + 1 \in 1 .. n /\ g[k] \in X /\ G[<<k + 1, g[k]>>] \in X
    BY <2>1
  <2>3. h \in [0 .. k + 1 -> X]
    BY <2>1, <2>2
  <2>4. h[0] = a
    BY <2>1
  <2>5. ASSUME NEW i \in 1 .. k + 1 PROVE h[i] = G[<<i, h[i - 1]>>]
    <3>1. CASE i = k + 1
      <4>1. i - 1 = k /\ k \in 0 .. k + 1 /\ k + 1 \in 0 .. k + 1 /\ k # k + 1
        BY <3>1
      <4>2. h[k + 1] = G[<<k + 1, g[k]>>] /\ h[k] = g[k]
        BY <4>1
      <4> HIDE DEF h
      <4>3. QED BY <3>1, <4>1, <4>2
    <3>2. CASE i # k + 1
      <4>1. i \in 1 .. k /\ i \in 0 .. k + 1 /\ i - 1 \in 0 .. k + 1 /\ i - 1 # k + 1
        BY <3>2
      <4>2. h[i] = g[i] /\ h[i - 1] = g[i - 1]
        BY <3>2, <4>1
      <4>3. QED BY <2>1, <4>1, <4>2
    <3>3. QED BY <3>1, <3>2
  <2> HIDE DEF h
  <2>6. Holds(h, k + 1)
    BY <2>3, <2>4, <2>5
  <2>7. QED BY <2>6
<1>3. Nat \subseteq Y
  <2> HIDE DEF Y
  <2>1. QED BY <1>1, <1>2, Inductive
<1>4. PICK f : Holds(f, n)
  BY <1>3
<1>5. f \in [0 .. n -> X]
  BY <1>4
<1>6. Goes(f, n, a, G)
  BY <1>4 DEF Goes
<1>7. QED BY <1>5, <1>6

(* A name as it is written is a sequence of characters. *)
Spells(f, name) ==
  f = [i \in 0 .. Len(name) |->
         IF i = 0 THEN <<>>
         ELSE LET before == f[i - 1]
              IN  IF before = <<>> THEN name[i] ELSE before \o <<".">> \o name[i]]

LEMMA TextIs ==
  ASSUME NEW S, "." \in S, NEW name \in Seq(Seq(S))
  PROVE  Look!Text(name) \in Seq(S)
<1> DEFINE n == Len(name)
           X == Seq(S)
           Longer(before, label) == IF before = <<>> THEN label ELSE before \o <<".">> \o label
           G == [p \in (1 .. n) \X X |-> Longer(p[2], name[p[1]])]
<1>1. n \in Nat /\ \A i \in 1 .. n : name[i] \in X
  OBVIOUS
<1>2. ASSUME NEW x \in X, NEW y \in X PROVE Longer(x, y) \in X
  <2>0. <<".">> \in X
    OBVIOUS
  <2>a. \A s \in X : \A t \in X : s \o t \in X
    OBVIOUS
  <2> HIDE DEF X
  <2>1. x \o <<".">> \in X
    BY <2>0, <2>a
  <2>2. (x \o <<".">>) \o y \in X
    BY <2>1, <2>a
  <2>3. QED BY <2>2
<1>3. G \in [(1 .. n) \X X -> X]
  <2>1. ASSUME NEW p \in (1 .. n) \X X PROVE Longer(p[2], name[p[1]]) \in X
    <3>1. p[2] \in X /\ name[p[1]] \in X
      BY <1>1
    <3> HIDE DEF Longer
    <3>2. QED BY <1>2, <3>1
  <2> HIDE DEF Longer
  <2>2. QED BY <2>1
<1>4. PICK f \in [0 .. n -> X] : f = [i \in 0 .. n |-> IF i = 0 THEN <<>> ELSE G[<<i, f[i - 1]>>]]
  <2> DEFINE none == <<>>
  <2>1. none \in X
    OBVIOUS
  <2> HIDE DEF G, X, n, none
  <2>2. \E f \in [0 .. n -> X] : Goes(f, n, none, G)
    BY <1>1, <1>3, <2>1, Recursion
  <2>3. QED BY <2>2 DEF none, Goes
<1>5. \A i \in 1 .. n : G[<<i, f[i - 1]>>] = Longer(f[i - 1], name[i])
  <2> HIDE DEF X, n
  <2>1. \A i \in 1 .. n : f[i - 1] \in X
    <3>1. f \in [0 .. n -> X]
      OBVIOUS
    <3>2. \A i \in 1 .. n : i - 1 \in 0 .. n
      BY <1>1
    <3>3. QED BY <3>1, <3>2
  <2>2. QED BY <2>1
<1>6. f = [i \in 0 .. n |-> IF i = 0 THEN <<>> ELSE Longer(f[i - 1], name[i])]
  <2> HIDE DEF G, Longer, n
  <2>1. \A i \in 0 .. n : i # 0 => i \in 1 .. n
    BY <1>1
  <2>2. QED BY <1>4, <1>5, <2>1
<1>7. Spells(f, name)
  BY <1>6 DEF Spells
<1> DEFINE g == CHOOSE t : Spells(t, name)
<1>8. Spells(g, name)
  BY <1>7, Zenon
<1>9. Look!Text(name) = g[n]
  BY DEF Look!Text, Spells
<1> HIDE DEF g
<1>10. \A i \in 0 .. n : g[i] = IF i = 0 THEN <<>> ELSE Longer(g[i - 1], name[i])
  BY <1>8 DEF Spells
<1> DEFINE Y == {k \in Nat : k <= n => g[k] \in X}
<1>11. 0 \in Y
  <2>1. g[0] = <<>> /\ <<>> \in X
    BY <1>1, <1>10
  <2> HIDE DEF X, n
  <2>2. QED BY <2>1
<1>12. ASSUME NEW k \in Nat, k \in Y PROVE k + 1 \in Y
  <2> SUFFICES ASSUME k + 1 <= n PROVE g[k + 1] \in X
    OBVIOUS
  <2>1. g[k] \in X /\ k + 1 \in 0 .. n /\ k + 1 # 0 /\ (k + 1) - 1 = k /\ k + 1 \in 1 .. n
    BY <1>12
  <2> HIDE DEF Longer, X
  <2>2. g[k + 1] = Longer(g[k], name[k + 1])
    BY <1>10, <2>1
  <2>3. QED BY <1>1, <1>2, <2>1, <2>2
<1>13. Nat \subseteq Y
  <2> HIDE DEF Y
  <2>1. QED BY <1>11, <1>12, Inductive
<1>14. g[n] \in X
  BY <1>1, <1>13
<1>15. QED BY <1>9, <1>14

LEMMA Characters ==
  ASSUME NEW name \in Seq(Seq(STRING))
  PROVE  Look!Text(name) \in Seq(STRING \cup {"."})
<1> DEFINE C == STRING
           S == C \cup {"."}
<1>1. C \subseteq S /\ "." \in S
  OBVIOUS
<1>2. name \in Seq(Seq(C))
  OBVIOUS
<1> HIDE DEF C, S
<1>3. \A s \in Seq(C) : s \in Seq(S)
  BY <1>1
<1> DEFINE T == Seq(C)
           U == Seq(S)
<1>4. name \in Seq(T) /\ T \subseteq U
  BY <1>2, <1>3
<1> HIDE DEF T, U
<1>5. name \in Seq(U)
  BY <1>4
<1>6. Look!Text(name) \in Seq(S)
  BY <1>1, <1>5, TextIs DEF U
<1>7. QED BY <1>6 DEF C, S

(* Induction up to a number. *)
LEMMA Upwards ==
  ASSUME NEW n \in Nat, NEW Good, 0 \in Good,
         \A k \in Nat : k + 1 <= n /\ k \in Good => k + 1 \in Good
  PROVE  0 .. n \subseteq Good
<1> DEFINE Y == {k \in Nat : k <= n => k \in Good}
<1>1. 0 \in Y
  OBVIOUS
<1>2. ASSUME NEW k \in Nat, k \in Y PROVE k + 1 \in Y
  BY <1>2
<1>3. Nat \subseteq Y
  <2> HIDE DEF Y
  <2>1. QED BY <1>1, <1>2, Inductive
<1>4. QED BY <1>3

(* A cell is the least of the edits that lead to it. *)
Swaps(left, right, row, col) ==
  row > 1 /\ col > 1 /\ left[row] = right[col - 1] /\ right[col] = left[row - 1]
Cost(left, right, row, col) == IF left[row] = right[col] THEN 0 ELSE 1

EditsOf(left, right, prev2, prev, row, before, col) ==
  {prev[col] + 1, before + 1, prev[col - 1] + Cost(left, right, row, col)}
    \cup IF Swaps(left, right, row, col) THEN {prev2[col - 2] + 1} ELSE {}

LEMMA LeastEdit ==
  ASSUME NEW E, E \subseteq Nat, E # {}
  PROVE  Look!Min(E) \in E /\ \A e \in E : Look!Min(E) <= e
<1>1. \E x \in E : \A y \in E : x <= y
  BY LeastOfNats
<1>2. QED BY <1>1 DEF Look!Min

LEMMA CellIs ==
  ASSUME NEW left, NEW right, Len(right) \in Nat,
         NEW prev2 \in [0 .. Len(right) -> Nat], NEW prev \in [0 .. Len(right) -> Nat],
         NEW row \in Nat, NEW before \in Nat, NEW col \in 1 .. Len(right)
  PROVE  LET v == Look!Cell(left, right, prev2, prev, row, before, col)
             E == EditsOf(left, right, prev2, prev, row, before, col)
         IN  v = Look!Min(E) /\ v \in Nat /\ v \in E /\ \A e \in E : v <= e
<1> DEFINE v == Look!Cell(left, right, prev2, prev, row, before, col)
           E == EditsOf(left, right, prev2, prev, row, before, col)
<1>1. v = Look!Min(E)
  BY DEF Look!Cell, EditsOf, Swaps, Cost
<1>2. prev[col] \in Nat /\ prev[col - 1] \in Nat /\ Cost(left, right, row, col) \in Nat
  BY DEF Cost
<1>3. Swaps(left, right, row, col) => prev2[col - 2] \in Nat
  <2>1. Swaps(left, right, row, col) => col > 1
    BY DEF Swaps
  <2>2. col > 1 => col - 2 \in 0 .. Len(right)
    OBVIOUS
  <2>3. QED BY <2>1, <2>2
<1>4. E \subseteq Nat /\ E # {}
  BY <1>2, <1>3 DEF EditsOf
<1> HIDE DEF v, E
<1>5. QED BY <1>1, <1>4, LeastEdit DEF v, E

(* The next row has its cells. *)
Rowed(f, left, right, prev2, prev, row) ==
  f = [col \in 0 .. Len(right) |->
         IF col = 0 THEN row ELSE Look!Cell(left, right, prev2, prev, row, f[col - 1], col)]

RowOf(r, left, right, prev2, prev, row) ==
  /\ r \in [0 .. Len(right) -> Nat] /\ r[0] = row
  /\ \A col \in 1 .. Len(right) :
       r[col] = Look!Cell(left, right, prev2, prev, row, r[col - 1], col)

LEMMA RowIs ==
  ASSUME NEW left, NEW right, Len(right) \in Nat,
         NEW prev2 \in [0 .. Len(right) -> Nat], NEW prev \in [0 .. Len(right) -> Nat],
         NEW row \in Nat
  PROVE  RowOf(Look!NextRow(left, right, prev2, prev, row), left, right, prev2, prev, row)
<1> DEFINE m == Len(right)
           C(before, col) == Look!Cell(left, right, prev2, prev, row, before, col)
           G == [p \in (1 .. m) \X Nat |-> C(p[2], p[1])]
<1>1. m \in Nat
  OBVIOUS
<1>2. \A col \in 1 .. m : \A x \in Nat : C(x, col) \in Nat
  BY CellIs
<1> HIDE DEF C
<1>3. G \in [(1 .. m) \X Nat -> Nat]
  BY <1>2
<1>4. PICK f \in [0 .. m -> Nat] : Goes(f, m, row, G)
  <2> HIDE DEF G, m
  <2>1. QED BY <1>1, <1>3, Recursion
<1>5. \A col \in 1 .. m : G[<<col, f[col - 1]>>] = C(f[col - 1], col)
  <2> HIDE DEF m
  <2>1. \A col \in 1 .. m : f[col - 1] \in Nat
    <3>1. f \in [0 .. m -> Nat]
      OBVIOUS
    <3>2. QED BY <1>1, <3>1
  <2>2. QED BY <2>1
<1>6. f = [col \in 0 .. m |-> IF col = 0 THEN row ELSE C(f[col - 1], col)]
  <2> HIDE DEF G, m
  <2>1. \A i \in 0 .. m : i # 0 => i \in 1 .. m
    BY <1>1
  <2>2. QED BY <1>4, <1>5, <2>1 DEF Goes
<1>7. Rowed(f, left, right, prev2, prev, row)
  BY <1>6 DEF Rowed, C
<1> DEFINE r == CHOOSE t : Rowed(t, left, right, prev2, prev, row)
<1>8. Rowed(r, left, right, prev2, prev, row)
  BY <1>7, Zenon
<1>9. Look!NextRow(left, right, prev2, prev, row) = r
  BY DEF Look!NextRow, Rowed
<1> HIDE DEF r
<1>10. r = [col \in 0 .. m |-> IF col = 0 THEN row ELSE C(r[col - 1], col)]
  BY <1>8 DEF Rowed, C
<1> HIDE DEF m
<1>11. \A col \in 0 .. m : r[col] \in Nat
  <2> DEFINE Good == {k \in Nat : r[k] \in Nat}
  <2>1. 0 \in Good
    BY <1>1, <1>10
  <2>2. ASSUME NEW k \in Nat, k + 1 <= m, k \in Good PROVE k + 1 \in Good
    <3>1. k + 1 \in 0 .. m /\ k + 1 # 0 /\ (k + 1) - 1 = k /\ k + 1 \in 1 .. m
      BY <1>1, <2>2
    <3>2. r[k + 1] = C(r[k], k + 1)
      BY <1>10, <3>1
    <3>3. r[k] \in Nat
      BY <2>2
    <3>4. C(r[k], k + 1) \in Nat
      <4> DEFINE x == r[k]
                 col == k + 1
      <4>1. x \in Nat /\ col \in 1 .. m
        BY <3>1, <3>3
      <4> HIDE DEF x, col
      <4>2. C(x, col) \in Nat
        BY <1>2, <4>1
      <4>3. QED BY <4>2 DEF x, col
    <3>5. QED BY <3>2, <3>4
  <2> HIDE DEF Good
  <2>3. 0 .. m \subseteq Good
    BY <1>1, <2>1, <2>2, Upwards
  <2>4. QED BY <2>3 DEF Good
<1>12. r \in [0 .. m -> Nat] /\ r[0] = row /\ \A col \in 1 .. m : r[col] = C(r[col - 1], col)
  <2>1. 0 \in 0 .. m /\ \A col \in 1 .. m : col \in 0 .. m /\ col # 0
    BY <1>1
  <2>2. r[0] = row /\ \A col \in 1 .. m : r[col] = C(r[col - 1], col)
    BY <1>10, <2>1
  <2>3. r \in [0 .. m -> Nat]
    BY <1>10, <1>11
  <2>4. QED BY <2>2, <2>3
<1>13. RowOf(r, left, right, prev2, prev, row)
  BY <1>12 DEF m, C, RowOf
<1>14. QED BY <1>9, <1>13

(***************************************************************************)
(* The table of all prefixes, row by row, each with the one before it.     *)
(***************************************************************************)
Line(right) == [0 .. Len(right) -> Nat]
Nought(right) == [c \in 0 .. Len(right) |-> 0]
Counted(right) == [c \in 0 .. Len(right) |-> c]

Lines(T, left, right) ==
  /\ T \in [0 .. Len(left) -> Line(right) \X Line(right)]
  /\ T[0] = <<Nought(right), Counted(right)>>
  /\ \A i \in 1 .. Len(left) :
       T[i] = <<T[i - 1][2], Look!NextRow(left, right, T[i - 1][1], T[i - 1][2], i)>>

LEMMA LinesExist ==
  ASSUME NEW left, NEW right, Len(left) \in Nat, Len(right) \in Nat
  PROVE  \E T : Lines(T, left, right)
<1> DEFINE n == Len(left)
           L == Line(right)
           X == L \X L
           R(x, i) == <<x[2], Look!NextRow(left, right, x[1], x[2], i)>>
           G == [p \in (1 .. n) \X X |-> R(p[2], p[1])]
           a == <<Nought(right), Counted(right)>>
<1>1. a \in X
  BY DEF Line, Nought, Counted
<1>2. ASSUME NEW x \in X, NEW i \in 1 .. n PROVE R(x, i) \in X
  <2>1. x[1] \in L /\ x[2] \in L /\ i \in Nat
    OBVIOUS
  <2>2. Look!NextRow(left, right, x[1], x[2], i) \in L
    BY <2>1, RowIs DEF Line, RowOf
  <2>3. QED BY <2>1, <2>2
<1>3. G \in [(1 .. n) \X X -> X]
  <2> HIDE DEF R, X, n
  <2>1. \A p \in (1 .. n) \X X : R(p[2], p[1]) \in X
    BY <1>2
  <2>2. QED BY <2>1
<1>4. PICK T \in [0 .. n -> X] : Goes(T, n, a, G)
  <2>1. n \in Nat
    OBVIOUS
  <2> HIDE DEF G, X, n, a
  <2>2. QED BY <1>1, <1>3, <2>1, Recursion
<1>5. T[0] = a /\ \A i \in 1 .. n : T[i] = R(T[i - 1], i)
  <2>1. n \in Nat /\ T \in [0 .. n -> X]
    OBVIOUS
  <2> HIDE DEF R, X, n, a
  <2>2. T[0] = a /\ \A i \in 1 .. n : T[i] = G[<<i, T[i - 1]>>]
    <3> HIDE DEF G
    <3>1. QED BY <1>4, <2>1 DEF Goes
  <2>3. \A i \in 1 .. n : T[i - 1] \in X
    BY <2>1
  <2>4. \A i \in 1 .. n : G[<<i, T[i - 1]>>] = R(T[i - 1], i)
    BY <2>3
  <2>5. QED BY <2>2, <2>4
<1>6. Lines(T, left, right)
  BY <1>5 DEF Lines
<1>7. QED BY <1>6

(* What is in them. *)
LEMMA LinesAre ==
  ASSUME NEW left, NEW right, Len(left) \in Nat, Len(right) \in Nat,
         NEW T, Lines(T, left, right)
  PROVE  /\ \A i \in 0 .. Len(left) : T[i][1] \in Line(right) /\ T[i][2] \in Line(right)
         /\ \A i \in 0 .. Len(left) : \A j \in 0 .. Len(right) : T[i][2][j] \in Nat
         /\ \A j \in 0 .. Len(right) : T[0][2][j] = j
         /\ \A i \in 0 .. Len(left) : T[i][2][0] = i
         /\ \A i \in 1 .. Len(left) : T[i][1] = T[i - 1][2]
         /\ \A i \in 1 .. Len(left) : \A j \in 1 .. Len(right) :
              LET E == EditsOf(left, right, T[i - 1][1], T[i - 1][2], i, T[i][2][j - 1], j)
              IN  T[i][2][j] = Look!Min(E) /\ T[i][2][j] \in E /\ \A e \in E : T[i][2][j] <= e
<1>1. \A i \in 0 .. Len(left) : T[i][1] \in Line(right) /\ T[i][2] \in Line(right)
  <2>1. \A i \in 0 .. Len(left) : T[i] \in Line(right) \X Line(right)
    BY DEF Lines
  <2>2. QED BY <2>1
<1>2. \A i \in 0 .. Len(left) : \A j \in 0 .. Len(right) : T[i][2][j] \in Nat
  BY <1>1 DEF Line
<1>3. \A j \in 0 .. Len(right) : T[0][2][j] = j
  BY DEF Lines, Counted
<1>4. ASSUME NEW i \in 1 .. Len(left)
      PROVE  /\ T[i][1] = T[i - 1][2] /\ T[i][2][0] = i
             /\ \A j \in 1 .. Len(right) :
                  LET E == EditsOf(left, right, T[i - 1][1], T[i - 1][2], i, T[i][2][j - 1], j)
                  IN  /\ T[i][2][j] = Look!Min(E) /\ T[i][2][j] \in E
                      /\ \A e \in E : T[i][2][j] <= e
  <2> DEFINE a == T[i - 1][1]
             b == T[i - 1][2]
             r == T[i][2]
  <2>1. i \in Nat /\ i - 1 \in 0 .. Len(left) /\ i \in 0 .. Len(left)
    OBVIOUS
  <2>2. a \in [0 .. Len(right) -> Nat] /\ b \in [0 .. Len(right) -> Nat]
    BY <1>1, <2>1 DEF Line
  <2>3. T[i] = <<b, Look!NextRow(left, right, a, b, i)>>
    BY DEF Lines
  <2>4. T[i][1] = b /\ r = Look!NextRow(left, right, a, b, i)
    BY <2>3
  <2>5. r[0] = i /\ \A j \in 1 .. Len(right) : r[j] = Look!Cell(left, right, a, b, i, r[j - 1], j)
    <3> HIDE DEF a, b, r
    <3>1. RowOf(Look!NextRow(left, right, a, b, i), left, right, a, b, i)
      BY <2>1, <2>2, RowIs
    <3>2. RowOf(r, left, right, a, b, i)
      BY <2>4, <3>1
    <3>3. QED BY <3>2 DEF RowOf
  <2>6. ASSUME NEW j \in 1 .. Len(right)
        PROVE  LET E == EditsOf(left, right, a, b, i, r[j - 1], j)
               IN  r[j] = Look!Min(E) /\ r[j] \in E /\ \A e \in E : r[j] <= e
    <3>1. r[j - 1] \in Nat
      BY <1>2, <2>1
    <3>2. r[j] = Look!Cell(left, right, a, b, i, r[j - 1], j)
      BY <2>5
    <3> DEFINE x == r[j - 1]
               v == Look!Cell(left, right, a, b, i, x, j)
               E == EditsOf(left, right, a, b, i, x, j)
    <3> HIDE DEF a, b, r
    <3>3. v = Look!Min(E) /\ v \in E /\ \A e \in E : v <= e
      <4> HIDE DEF x
      <4>1. x \in Nat
        BY <3>1 DEF x
      <4>2. QED BY <2>1, <2>2, <4>1, CellIs
    <3>4. r[j] = v
      BY <3>2
    <3> HIDE DEF v, E
    <3>5. r[j] = Look!Min(E) /\ r[j] \in E /\ \A e \in E : r[j] <= e
      BY <3>3, <3>4
    <3>6. QED BY <3>5 DEF E
  <2>7. QED BY <2>4, <2>5, <2>6
<1>5. \A i \in 0 .. Len(left) : T[i][2][0] = i
  <2>1. \A i \in 0 .. Len(left) : i = 0 \/ i \in 1 .. Len(left)
    OBVIOUS
  <2>2. 0 \in 0 .. Len(right)
    OBVIOUS
  <2>3. QED BY <1>3, <1>4, <2>1, <2>2
<1>6. QED BY <1>1, <1>2, <1>3, <1>4, <1>5

(* How a cell lies to those beside it. *)
LEMMA CellsLie ==
  ASSUME NEW left, NEW right, Len(left) \in Nat, Len(right) \in Nat,
         NEW T, Lines(T, left, right), NEW i \in 1 .. Len(left), NEW j \in 1 .. Len(right)
  PROVE  /\ T[i][2][j] <= T[i - 1][2][j - 1] + 1
         /\ \/ T[i][2][j] = T[i - 1][2][j] + 1
            \/ T[i][2][j] = T[i][2][j - 1] + 1
            \/ T[i][2][j] >= T[i - 1][2][j - 1]
<1>1. ASSUME NEW k \in 1 .. Len(left), NEW c \in 1 .. Len(right)
      PROVE  T[k][2][c] <= T[k - 1][2][c - 1] + 1
  <2> DEFINE E == EditsOf(left, right, T[k - 1][1], T[k - 1][2], k, T[k][2][c - 1], c)
  <2>a. \A e \in E : T[k][2][c] <= e
    BY LinesAre
  <2>b. T[k - 1][2][c - 1] + Cost(left, right, k, c) \in E
    BY DEF EditsOf
  <2>1. T[k][2][c] <= T[k - 1][2][c - 1] + Cost(left, right, k, c)
    <3> HIDE DEF E
    <3>1. QED BY <2>a, <2>b
  <2>2. T[k][2][c] \in Nat /\ T[k - 1][2][c - 1] \in Nat
    <3>1. \A a \in 0 .. Len(left) : \A b \in 0 .. Len(right) : T[a][2][b] \in Nat
      BY LinesAre
    <3>2. k \in 0 .. Len(left) /\ k - 1 \in 0 .. Len(left)
          /\ c \in 0 .. Len(right) /\ c - 1 \in 0 .. Len(right)
      OBVIOUS
    <3>3. QED BY <3>1, <3>2
  <2>3. Cost(left, right, k, c) \in {0, 1}
    BY DEF Cost
  <2> DEFINE x == T[k][2][c]
             y == T[k - 1][2][c - 1]
             z == Cost(left, right, k, c)
  <2>4. x \in Nat /\ y \in Nat /\ z \in {0, 1} /\ x <= y + z
    BY <2>1, <2>2, <2>3
  <2> HIDE DEF x, y, z
  <2>5. x <= y + 1
    BY <2>4
  <2>6. QED BY <2>5 DEF x, y
<1>2. T[i][2][j] \in EditsOf(left, right, T[i - 1][1], T[i - 1][2], i, T[i][2][j - 1], j)
  BY LinesAre
<1>3. T[i][2][j] \in Nat /\ T[i - 1][2][j - 1] \in Nat
  BY LinesAre
<1>4. CASE T[i][2][j] = T[i - 1][2][j - 1] + Cost(left, right, i, j)
  <2>1. Cost(left, right, i, j) \in {0, 1}
    BY DEF Cost
  <2> DEFINE x == T[i][2][j]
             y == T[i - 1][2][j - 1]
             z == Cost(left, right, i, j)
  <2>2. y \in Nat /\ z \in {0, 1} /\ x = y + z
    BY <1>3, <1>4, <2>1
  <2> HIDE DEF x, y, z
  <2>3. x >= y
    BY <2>2
  <2>4. T[i][2][j] <= T[i - 1][2][j - 1] + 1
    BY <1>1
  <2>5. QED BY <2>3, <2>4 DEF x, y
<1>5. CASE Swaps(left, right, i, j) /\ T[i][2][j] = T[i - 1][1][j - 2] + 1
  <2>1. i - 1 \in 1 .. Len(left) /\ j - 1 \in 1 .. Len(right)
    BY <1>5 DEF Swaps
  <2>2. T[i - 1][1] = T[(i - 1) - 1][2]
    BY <2>1, LinesAre
  <2>3. T[i - 1][2][j - 1] <= T[(i - 1) - 1][2][(j - 1) - 1] + 1
    BY <1>1, <2>1
  <2>4. (j - 1) - 1 = j - 2
    OBVIOUS
  <2>5. T[i - 1][2][j - 1] <= T[i][2][j]
    BY <1>5, <2>2, <2>3, <2>4
  <2>6. QED BY <1>1, <2>5
<1>6. QED BY <1>1, <1>2, <1>4, <1>5 DEF EditsOf

(* A cell is not below the difference of the lengths ... *)
LEMMA FarApart ==
  ASSUME NEW left, NEW right, Len(left) \in Nat, Len(right) \in Nat,
         NEW T, Lines(T, left, right)
  PROVE  \A i \in 0 .. Len(left) : \A j \in 0 .. Len(right) :
           T[i][2][j] >= i - j /\ T[i][2][j] >= j - i
<1> DEFINE n == Len(left)
           m == Len(right)
           V(i, j) == T[i][2][j]
           Good == {i \in Nat : \A j \in 0 .. m : V(i, j) >= i - j /\ V(i, j) >= j - i}
<1>1. /\ n \in Nat /\ m \in Nat /\ \A j \in 0 .. m : V(0, j) = j
      /\ \A i \in 0 .. n : V(i, 0) = i
      /\ \A i \in 0 .. n : \A j \in 0 .. m : V(i, j) \in Nat
  BY LinesAre
<1>2. \A i \in 1 .. n : \A j \in 1 .. m :
        \/ V(i, j) = V(i - 1, j) + 1 \/ V(i, j) = V(i, j - 1) + 1 \/ V(i, j) >= V(i - 1, j - 1)
  BY CellsLie
<1> HIDE DEF n, m, V
<1>3. 0 \in Good
  BY <1>1
<1>4. ASSUME NEW i \in Nat, i + 1 <= n, i \in Good PROVE i + 1 \in Good
  <2> DEFINE k == i + 1
             Fine == {j \in Nat : V(k, j) >= k - j /\ V(k, j) >= j - k}
  <2>1. k \in 1 .. n /\ k - 1 = i /\ k \in 0 .. n /\ i \in 0 .. n /\ k = i + 1 /\ k \in Nat
    BY <1>1, <1>4
  <2> HIDE DEF k
  <2>2. 0 \in Fine
    BY <1>1, <2>1
  <2>3. ASSUME NEW c \in Nat, c + 1 <= m, c \in Fine PROVE c + 1 \in Fine
    <3> DEFINE j == c + 1
    <3>1. j \in 1 .. m /\ j - 1 = c /\ j \in 0 .. m /\ c \in 0 .. m /\ j = c + 1 /\ j \in Nat
      BY <1>1, <2>3
    <3> HIDE DEF j
    <3>2. V(k, j) = V(i, j) + 1 \/ V(k, j) = V(k, c) + 1 \/ V(k, j) >= V(i, c)
      <4>1. V(k, j) = V(k - 1, j) + 1 \/ V(k, j) = V(k, j - 1) + 1 \/ V(k, j) >= V(k - 1, j - 1)
        BY <1>2, <2>1, <3>1
      <4>2. QED BY <2>1, <3>1, <4>1
    <3>3. V(i, j) >= i - j /\ V(i, j) >= j - i /\ V(i, c) >= i - c /\ V(i, c) >= c - i
      BY <1>4, <3>1
    <3>4. V(k, c) >= k - c /\ V(k, c) >= c - k
      BY <2>3
    <3>5. V(k, j) \in Nat /\ V(i, j) \in Nat /\ V(k, c) \in Nat /\ V(i, c) \in Nat
      BY <1>1, <2>1, <3>1
    <3>6. V(k, j) >= k - j /\ V(k, j) >= j - k
      <4> DEFINE x == V(k, j)
                 u == V(i, j)
                 w == V(k, c)
                 z == V(i, c)
      <4>1. /\ x \in Nat /\ u \in Nat /\ w \in Nat /\ z \in Nat
            /\ (x = u + 1 \/ x = w + 1 \/ x >= z)
            /\ u >= i - j /\ u >= j - i /\ z >= i - c /\ z >= c - i /\ w >= k - c /\ w >= c - k
        BY <3>2, <3>3, <3>4, <3>5
      <4> HIDE DEF x, u, w, z
      <4>2. x >= k - j /\ x >= j - k
        BY <2>1, <3>1, <4>1
      <4>3. QED BY <4>2 DEF x
    <3>7. j \in Fine
      BY <3>1, <3>6
    <3>8. QED BY <3>7 DEF j
  <2>4. 0 .. m \subseteq Fine
    <3> HIDE DEF Fine
    <3>1. QED BY <1>1, <2>2, <2>3, Upwards
  <2>5. k \in Good
    BY <2>1, <2>4
  <2>6. QED BY <2>5 DEF k
<1>5. 0 .. n \subseteq Good
  <2> HIDE DEF Good
  <2>1. QED BY <1>1, <1>3, <1>4, Upwards
<1>6. QED BY <1>5 DEF n, m, V

(* ... and no lower than all of a row above it. *)
LEMMA NoLower ==
  ASSUME NEW left, NEW right, Len(left) \in Nat, Len(right) \in Nat,
         NEW T, Lines(T, left, right), NEW limit \in Int, NEW k \in 0 .. Len(left),
         \A j \in 0 .. Len(right) : T[k][2][j] > limit
  PROVE  \A j \in 0 .. Len(right) : T[Len(left)][2][j] > limit
<1> DEFINE n == Len(left)
           m == Len(right)
           V(i, j) == T[i][2][j]
           Good == {i \in Nat : i >= k => \A j \in 0 .. m : V(i, j) > limit}
<1>1. /\ n \in Nat /\ m \in Nat /\ k \in 0 .. n /\ \A i \in 0 .. n : V(i, 0) = i
      /\ \A i \in 0 .. n : \A j \in 0 .. m : V(i, j) \in Nat
      /\ \A j \in 0 .. m : V(k, j) > limit
  BY LinesAre
<1>2. \A i \in 1 .. n : \A j \in 1 .. m :
        \/ V(i, j) = V(i - 1, j) + 1 \/ V(i, j) = V(i, j - 1) + 1 \/ V(i, j) >= V(i - 1, j - 1)
  BY CellsLie
<1> HIDE DEF n, m, V
<1>3. 0 \in Good
  BY <1>1
<1>4. ASSUME NEW i \in Nat, i + 1 <= n, i \in Good PROVE i + 1 \in Good
  <2> DEFINE h == i + 1
             Fine == {j \in Nat : V(h, j) > limit}
  <2>1. h \in 1 .. n /\ h - 1 = i /\ h \in 0 .. n /\ i \in 0 .. n /\ h = i + 1 /\ h \in Nat
    BY <1>1, <1>4
  <2> HIDE DEF h
  <2>2. CASE h = k
    <3>1. h \in Good
      BY <1>1, <2>1, <2>2
    <3>2. QED BY <3>1 DEF h
  <2>3. CASE h < k
    <3>1. h \in Good
      BY <1>1, <2>1, <2>3
    <3>2. QED BY <3>1 DEF h
  <2>4. CASE h > k
    <3>0. \A j \in 0 .. m : V(i, j) > limit
      BY <1>1, <1>4, <2>1, <2>4
    <3>1. 0 \in Fine
      <4>1. V(h, 0) = h /\ V(i, 0) = i /\ V(i, 0) > limit
        BY <1>1, <2>1, <3>0
      <4>2. QED BY <2>1, <4>1
    <3>2. ASSUME NEW c \in Nat, c + 1 <= m, c \in Fine PROVE c + 1 \in Fine
      <4> DEFINE j == c + 1
      <4>1. j \in 1 .. m /\ j - 1 = c /\ j \in 0 .. m /\ c \in 0 .. m /\ j \in Nat
        BY <1>1, <3>2
      <4> HIDE DEF j
      <4>2. V(h, j) = V(i, j) + 1 \/ V(h, j) = V(h, c) + 1 \/ V(h, j) >= V(i, c)
        <5>1. V(h, j) = V(h - 1, j) + 1 \/ V(h, j) = V(h, j - 1) + 1 \/ V(h, j) >= V(h - 1, j - 1)
          BY <1>2, <2>1, <4>1
        <5>2. QED BY <2>1, <4>1, <5>1
      <4>3. V(i, j) > limit /\ V(i, c) > limit /\ V(h, c) > limit
        BY <3>0, <3>2, <4>1
      <4>4. V(h, j) \in Nat /\ V(i, j) \in Nat /\ V(h, c) \in Nat /\ V(i, c) \in Nat
        BY <1>1, <2>1, <4>1
      <4>5. V(h, j) > limit
        <5> DEFINE x == V(h, j)
                   u == V(i, j)
                   w == V(h, c)
                   z == V(i, c)
        <5>1. /\ x \in Nat /\ u \in Nat /\ w \in Nat /\ z \in Nat
              /\ (x = u + 1 \/ x = w + 1 \/ x >= z) /\ u > limit /\ z > limit /\ w > limit
          BY <4>2, <4>3, <4>4
        <5> HIDE DEF x, u, w, z
        <5>2. x > limit
          BY <5>1
        <5>3. QED BY <5>2 DEF x
      <4>6. j \in Fine
        BY <4>1, <4>5
      <4>7. QED BY <4>6 DEF j
    <3>3. 0 .. m \subseteq Fine
      <4> HIDE DEF Fine
      <4>1. QED BY <1>1, <3>1, <3>2, Upwards
    <3>4. h \in Good
      BY <2>1, <3>3
    <3>5. QED BY <3>4 DEF h
  <2>5. QED BY <1>1, <2>1, <2>2, <2>3, <2>4
<1>5. 0 .. n \subseteq Good
  <2> HIDE DEF Good
  <2>1. QED BY <1>1, <1>3, <1>4, Upwards
<1>6. n \in Good /\ n >= k
  BY <1>1, <1>5
<1>7. QED BY <1>6 DEF n, m, V

(* The definition over all prefixes says what the table holds. *)
Beside(d, left, right, i, j) ==
  {d[<<i - 1, j>>] + 1, d[<<i, j - 1>>] + 1,
   d[<<i - 1, j - 1>>] + IF left[i] = right[j] THEN 0 ELSE 1}
    \cup IF i > 1 /\ j > 1 /\ left[i] = right[j - 1] /\ left[i - 1] = right[j]
         THEN {d[<<i - 2, j - 2>>] + 1} ELSE {}

Tabled(d, left, right) ==
  d = [ij \in (0 .. Len(left)) \X (0 .. Len(right)) |->
         IF ij[1] = 0 THEN ij[2] ELSE IF ij[2] = 0 THEN ij[1]
         ELSE Look!Min(Beside(d, left, right, ij[1], ij[2]))]

LEMMA ReferenceIs ==
  ASSUME NEW left, NEW right, Len(left) \in Nat, Len(right) \in Nat,
         NEW T, Lines(T, left, right)
  PROVE  Look!Reference(left, right) = T[Len(left)][2][Len(right)]
<1> DEFINE n == Len(left)
           m == Len(right)
           V(i, j) == T[i][2][j]
           D == [ij \in (0 .. n) \X (0 .. m) |-> V(ij[1], ij[2])]
           F(d, i, j) == Look!Min(Beside(d, left, right, i, j))
           Agree(d, i, j) == d[<<i, j>>] = V(i, j)
<1>1. /\ n \in Nat /\ m \in Nat /\ \A j \in 0 .. m : V(0, j) = j
      /\ \A i \in 0 .. n : V(i, 0) = i
  BY LinesAre
<1>2. ASSUME NEW d, NEW i \in 1 .. n, NEW j \in 1 .. m,
             Agree(d, i - 1, j), Agree(d, i, j - 1), Agree(d, i - 1, j - 1),
             i > 1 /\ j > 1 => Agree(d, i - 2, j - 2)
      PROVE  F(d, i, j) = V(i, j)
  <2> DEFINE E == EditsOf(left, right, T[i - 1][1], T[i - 1][2], i, T[i][2][j - 1], j)
  <2>1. V(i, j) = Look!Min(E)
    BY LinesAre
  <2>2. i > 1 => T[i - 1][1] = T[i - 2][2]
    <3>1. i > 1 => i - 1 \in 1 .. Len(left) /\ (i - 1) - 1 = i - 2
      OBVIOUS
    <3>2. QED BY <3>1, LinesAre
  <2>3. Beside(d, left, right, i, j) = E
    <3>1. Swaps(left, right, i, j)
            <=> i > 1 /\ j > 1 /\ left[i] = right[j - 1] /\ left[i - 1] = right[j]
      BY DEF Swaps
    <3>2. CASE Swaps(left, right, i, j)
      <4>1. E = {T[i - 1][2][j] + 1, T[i][2][j - 1] + 1,
                 T[i - 1][2][j - 1] + Cost(left, right, i, j)} \cup {T[i - 2][2][j - 2] + 1}
        BY <2>2, <3>1, <3>2 DEF EditsOf
      <4>2. Beside(d, left, right, i, j)
              = {d[<<i - 1, j>>] + 1, d[<<i, j - 1>>] + 1,
                 d[<<i - 1, j - 1>>] + Cost(left, right, i, j)} \cup {d[<<i - 2, j - 2>>] + 1}
        BY <3>1, <3>2 DEF Beside, Cost
      <4>3. d[<<i - 2, j - 2>>] = T[i - 2][2][j - 2]
        BY <1>2, <3>1, <3>2
      <4>4. QED BY <1>2, <4>1, <4>2, <4>3
    <3>3. CASE ~Swaps(left, right, i, j)
      <4>1. E = {T[i - 1][2][j] + 1, T[i][2][j - 1] + 1,
                 T[i - 1][2][j - 1] + Cost(left, right, i, j)}
        BY <3>3 DEF EditsOf
      <4>2. Beside(d, left, right, i, j)
              = {d[<<i - 1, j>>] + 1, d[<<i, j - 1>>] + 1,
                 d[<<i - 1, j - 1>>] + Cost(left, right, i, j)}
        BY <3>1, <3>3 DEF Beside, Cost
      <4>3. QED BY <1>2, <4>1, <4>2
    <3>4. QED BY <3>2, <3>3
  <2> HIDE DEF E
  <2>4. QED BY <2>1, <2>3
<1>3. Tabled(D, left, right)
  <2>1. \A i \in 0 .. n : \A j \in 0 .. m : Agree(D, i, j)
    <3> HIDE DEF n, m, V
    <3>1. QED OBVIOUS
  <2> DEFINE H(i, j) == IF i = 0 THEN j ELSE IF j = 0 THEN i ELSE F(D, i, j)
  <2>2. ASSUME NEW i \in 0 .. n, NEW j \in 0 .. m PROVE V(i, j) = H(i, j)
    <3>1. CASE i = 0 \/ j = 0
      <4> HIDE DEF V, n, m, D, F
      <4>1. QED BY <1>1, <3>1
    <3>2. CASE i # 0 /\ j # 0
      <4> HIDE DEF Agree, F, V, n, m, D
      <4>1. /\ i \in 1 .. n /\ j \in 1 .. m /\ i - 1 \in 0 .. n /\ j - 1 \in 0 .. m
            /\ i > 1 /\ j > 1 => i - 2 \in 0 .. n /\ j - 2 \in 0 .. m
        BY <1>1, <3>2
      <4>2. /\ Agree(D, i - 1, j) /\ Agree(D, i, j - 1) /\ Agree(D, i - 1, j - 1)
            /\ i > 1 /\ j > 1 => Agree(D, i - 2, j - 2)
        BY <2>1, <4>1
      <4>3. F(D, i, j) = V(i, j)
        BY <1>2, <4>1, <4>2
      <4>4. QED BY <3>2, <4>3
    <3>3. QED BY <3>1, <3>2
  <2>3. D = [ij \in (0 .. n) \X (0 .. m) |-> H(ij[1], ij[2])]
    <3> HIDE DEF V, H, n, m
    <3>1. \A ij \in (0 .. n) \X (0 .. m) : V(ij[1], ij[2]) = H(ij[1], ij[2])
      BY <2>2
    <3>2. QED BY <3>1
  <2> HIDE DEF D
  <2>4. QED BY <2>3 DEF Tabled
<1> DEFINE d == CHOOSE t : Tabled(t, left, right)
<1>4. Tabled(d, left, right)
  BY <1>3, Zenon
<1>5. Look!Reference(left, right) = d[<<n, m>>]
  BY DEF Look!Reference, Tabled, Beside
<1> HIDE DEF d, D
<1>6. \A i \in 0 .. n : \A j \in 0 .. m :
        d[<<i, j>>] = IF i = 0 THEN j ELSE IF j = 0 THEN i ELSE F(d, i, j)
  <2>1. d = [ij \in (0 .. n) \X (0 .. m) |->
               IF ij[1] = 0 THEN ij[2] ELSE IF ij[2] = 0 THEN ij[1] ELSE F(d, ij[1], ij[2])]
    BY <1>4 DEF Tabled
  <2> HIDE DEF F, n, m
  <2>2. QED BY <2>1
<1> HIDE DEF n, m, V, F
<1> DEFINE Good == {i \in Nat : \A h \in 0 .. i : \A j \in 0 .. m : Agree(d, h, j)}
<1>7. 0 \in Good
  <2>1. \A j \in 0 .. m : d[<<0, j>>] = V(0, j)
    BY <1>1, <1>6
  <2>2. QED BY <2>1
<1>8. ASSUME NEW i \in Nat, i + 1 <= n, i \in Good PROVE i + 1 \in Good
  <2> DEFINE k == i + 1
             Fine == {j \in Nat : \A c \in 0 .. j : Agree(d, k, c)}
  <2>1. k \in 1 .. n /\ k - 1 \in 0 .. i /\ k \in 0 .. n /\ k # 0
        /\ (k > 1 => k - 2 \in 0 .. i) /\ k = i + 1 /\ k \in Nat
    BY <1>1, <1>8
  <2> HIDE DEF k
  <2>2. 0 \in Fine
    <3>1. d[<<k, 0>>] = V(k, 0)
      BY <1>1, <1>6, <2>1
    <3>2. QED BY <3>1
  <2>3. ASSUME NEW c \in Nat, c + 1 <= m, c \in Fine PROVE c + 1 \in Fine
    <3> DEFINE j == c + 1
    <3>1. /\ j \in 1 .. m /\ j - 1 \in 0 .. c /\ j \in 0 .. m /\ j # 0 /\ j - 1 \in 0 .. m
          /\ (j > 1 => j - 2 \in 0 .. m) /\ j = c + 1 /\ j \in Nat
      BY <1>1, <2>3
    <3> HIDE DEF j
    <3>2. \A h \in 0 .. i : \A e \in 0 .. m : Agree(d, h, e)
      BY <1>8
    <3>3. \A e \in 0 .. c : Agree(d, k, e)
      BY <2>3
    <3>4. d[<<k, j>>] = F(d, k, j)
      BY <1>6, <2>1, <3>1
    <3> HIDE DEF Agree
    <3>5. /\ Agree(d, k - 1, j) /\ Agree(d, k, j - 1) /\ Agree(d, k - 1, j - 1)
          /\ k > 1 /\ j > 1 => Agree(d, k - 2, j - 2)
      BY <2>1, <3>1, <3>2, <3>3
    <3>6. F(d, k, j) = V(k, j)
      BY <1>2, <2>1, <3>1, <3>5
    <3>7. Agree(d, k, j)
      BY <3>4, <3>6 DEF Agree
    <3>8. \A e \in 0 .. j : e = j \/ e \in 0 .. c
      BY <3>1
    <3>9. j \in Fine
      BY <3>1, <3>3, <3>7, <3>8
    <3>10. QED BY <3>9 DEF j
  <2>4. 0 .. m \subseteq Fine
    <3> HIDE DEF Fine
    <3>1. QED BY <1>1, <2>2, <2>3, Upwards
  <2>5. m \in Fine
    BY <1>1, <2>4
  <2> HIDE DEF Agree
  <2>6. \A j \in 0 .. m : Agree(d, k, j)
    BY <2>5
  <2>7. \A h \in 0 .. k : h = k \/ h \in 0 .. i
    BY <2>1
  <2>8. k \in Good
    BY <1>8, <2>1, <2>6, <2>7
  <2>9. QED BY <2>8 DEF k
<1>9. 0 .. n \subseteq Good
  <2> HIDE DEF Good
  <2>1. QED BY <1>1, <1>7, <1>8, Upwards
<1>10. n \in Good /\ n \in 0 .. n /\ m \in 0 .. m
  BY <1>1, <1>9
<1>11. Agree(d, n, m)
  BY <1>10
<1>12. QED BY <1>5, <1>11 DEF V, n, m

(* The rows, as they are kept, are those of the table until one is above.  *)
Kept(r, left, right, limit) ==
  r = [row \in 0 .. Len(left) |->
         IF row = 0
         THEN [prev2 |-> Nought(right), prev |-> Counted(right), ended |-> FALSE]
         ELSE LET last == r[row - 1]
                  current == Look!NextRow(left, right, last.prev2, last.prev, row)
              IN  IF last.ended THEN last
                  ELSE [prev2 |-> last.prev, prev |-> current,
                        ended |-> \A c \in 0 .. Len(right) : current[c] > limit]]

State(right) == [prev2 : Line(right), prev : Line(right), ended : BOOLEAN]

After(x, left, right, limit, row) ==
  LET current == Look!NextRow(left, right, x.prev2, x.prev, row)
  IN  IF x.ended THEN x
      ELSE [prev2 |-> x.prev, prev |-> current,
            ended |-> \A c \in 0 .. Len(right) : current[c] > limit]

LEMMA AfterIs ==
  ASSUME NEW left, NEW right, Len(right) \in Nat, NEW limit, NEW row \in Nat,
         NEW x \in State(right)
  PROVE  After(x, left, right, limit, row) \in State(right)
<1> DEFINE current == Look!NextRow(left, right, x.prev2, x.prev, row)
<1>1. x.prev2 \in Line(right) /\ x.prev \in Line(right)
  BY DEF State
<1>2. current \in Line(right)
  BY <1>1, RowIs DEF Line, RowOf
<1>3. (\A c \in 0 .. Len(right) : current[c] > limit) \in BOOLEAN
  OBVIOUS
<1> HIDE DEF current
<1>4. QED BY <1>1, <1>2, <1>3 DEF After, State, current

LEMMA LastRowsAre ==
  ASSUME NEW left, NEW right, Len(left) \in Nat, Len(right) \in Nat, NEW limit \in Int,
         NEW T, Lines(T, left, right)
  PROVE  LET end == Look!LastRows(left, right, limit)
         IN  /\ ~end.ended => end.prev = T[Len(left)][2]
             /\ end.ended => \E k \in 0 .. Len(left) :
                               \A c \in 0 .. Len(right) : T[k][2][c] > limit
<1> DEFINE n == Len(left)
           X == State(right)
           A(x, row) == After(x, left, right, limit, row)
           G == [p \in (1 .. n) \X X |-> A(p[2], p[1])]
           a == [prev2 |-> Nought(right), prev |-> Counted(right), ended |-> FALSE]
<1>1. n \in Nat /\ a \in X
  BY DEF State, Line, Nought, Counted
<1>2. \A row \in 1 .. n : \A x \in X : A(x, row) \in X
  BY AfterIs
<1> HIDE DEF A
<1>3. G \in [(1 .. n) \X X -> X]
  <2> HIDE DEF n, X
  <2>1. QED BY <1>2
<1>4. PICK f \in [0 .. n -> X] : Goes(f, n, a, G)
  <2> HIDE DEF G, X, n, a
  <2>1. QED BY <1>1, <1>3, Recursion
<1>5. f = [row \in 0 .. n |-> IF row = 0 THEN a ELSE A(f[row - 1], row)]
  <2> HIDE DEF n, X, a
  <2>1. \A row \in 0 .. n : row # 0 => row \in 1 .. n /\ row - 1 \in 0 .. n
    BY <1>1
  <2>2. \A row \in 1 .. n : G[<<row, f[row - 1]>>] = A(f[row - 1], row)
    <3>1. f \in [0 .. n -> X]
      OBVIOUS
    <3>2. \A row \in 1 .. n : f[row - 1] \in X
      BY <2>1, <3>1
    <3>3. QED BY <3>2
  <2> HIDE DEF G
  <2>3. QED BY <1>4, <2>1, <2>2 DEF Goes
<1>6. Kept(f, left, right, limit)
  BY <1>5 DEF Kept, After, A
<1> DEFINE r == CHOOSE t : Kept(t, left, right, limit)
<1>7. Kept(r, left, right, limit)
  BY <1>6, Zenon
<1>8. Look!LastRows(left, right, limit) = r[n]
  BY DEF Look!LastRows, Kept, Nought, Counted
<1> HIDE DEF r
<1>9. r = [row \in 0 .. n |-> IF row = 0 THEN a ELSE A(r[row - 1], row)]
  BY <1>7 DEF Kept, After, A
<1> DEFINE Told(x, i) ==
             /\ x \in X
             /\ ~x.ended => x.prev2 = T[i][1] /\ x.prev = T[i][2]
             /\ x.ended => \E k \in 0 .. n : \A c \in 0 .. Len(right) : T[k][2][c] > limit
           Good == {i \in Nat : Told(r[i], i)}
<1>10. 0 \in Good
  <2>1. r[0] = a
    <3> HIDE DEF a, n
    <3>1. QED BY <1>1, <1>9
  <2>2. T[0][1] = Nought(right) /\ T[0][2] = Counted(right)
    BY DEF Lines
  <2>3. Told(a, 0)
    BY <1>1, <2>2
  <2>4. QED BY <2>1, <2>3
<1>11. ASSUME NEW i \in Nat, i + 1 <= n, i \in Good PROVE i + 1 \in Good
  <2> DEFINE x == r[i]
             k == i + 1
             current == Look!NextRow(left, right, x.prev2, x.prev, k)
  <2>1. k \in 1 .. n /\ k - 1 = i /\ k \in 0 .. n /\ k # 0 /\ k \in Nat
    BY <1>1, <1>11
  <2>2. Told(x, i)
    BY <1>11
  <2>3. r[k] = A(x, k)
    <3> HIDE DEF k, n, a
    <3>1. r[k] = A(r[k - 1], k)
      BY <1>9, <2>1
    <3>2. QED BY <2>1, <3>1
  <2> HIDE DEF x, k
  <2>4. A(x, k) \in X
    BY <1>2, <2>1, <2>2
  <2>5. CASE x.ended
    <3>1. A(x, k) = x
      BY <2>5 DEF A, After
    <3>2. Told(r[k], k)
      BY <2>2, <2>3, <2>5, <3>1
    <3>3. QED BY <2>1, <3>2 DEF k
  <2>6. CASE ~x.ended
    <3>1. T[k] = <<T[i][2], Look!NextRow(left, right, T[i][1], T[i][2], k)>>
      BY <2>1 DEF Lines
    <3>2. x.prev2 = T[i][1] /\ x.prev = T[i][2]
      BY <2>2, <2>6
    <3>3. T[k][1] = x.prev /\ T[k][2] = current
      BY <3>1, <3>2
    <3>4. A(x, k) = [prev2 |-> x.prev, prev |-> current,
                     ended |-> \A c \in 0 .. Len(right) : current[c] > limit]
      BY <2>6 DEF A, After
    <3> HIDE DEF current
    <3>5. /\ r[k].prev2 = x.prev /\ r[k].prev = current
          /\ r[k].ended = (\A c \in 0 .. Len(right) : current[c] > limit)
      BY <2>3, <3>4
    <3>6. Told(r[k], k)
      BY <2>1, <2>3, <2>4, <3>3, <3>5
    <3>7. QED BY <2>1, <3>6 DEF k
  <2>7. QED BY <2>5, <2>6
<1>12. 0 .. n \subseteq Good
  <2> HIDE DEF Good, n
  <2>1. QED BY <1>1, <1>10, <1>11, Upwards
<1>13. n \in Good
  BY <1>1, <1>12
<1>14. QED BY <1>8, <1>13

(* So what is computed is what is defined. *)
LEMMA DistanceIs ==
  ASSUME NEW left, NEW right, Len(left) \in Nat, Len(right) \in Nat, NEW limit \in Int
  PROVE  LET d == Look!Reference(left, right)
         IN  Look!Distance(left, right, limit) = (IF d <= limit THEN {d} ELSE {})
<1>1. PICK T : Lines(T, left, right)
  BY LinesExist
<1> DEFINE n == Len(left)
           m == Len(right)
           d == Look!Reference(left, right)
           v == T[n][2][m]
           end == Look!LastRows(left, right, limit)
           apart == IF n > m THEN n - m ELSE m - n
<1>2. d = v
  BY <1>1, ReferenceIs
<1>3. n \in 0 .. n /\ m \in 0 .. m
  OBVIOUS
<1>4. v \in Nat /\ v >= n - m /\ v >= m - n
  BY <1>1, <1>3, LinesAre, FarApart
<1>5. ~end.ended => end.prev = T[n][2]
  BY <1>1, LastRowsAre
<1>6. end.ended => v > limit
  <2>1. end.ended => \E k \in 0 .. n : \A c \in 0 .. m : T[k][2][c] > limit
    BY <1>1, LastRowsAre
  <2>2. ASSUME NEW k \in 0 .. n, \A c \in 0 .. m : T[k][2][c] > limit PROVE v > limit
    BY <1>1, <1>3, <2>2, NoLower
  <2>3. QED BY <2>1, <2>2
<1>7. Look!Distance(left, right, limit)
        = IF apart > limit \/ end.ended \/ end.prev[m] > limit THEN {} ELSE {end.prev[m]}
  BY DEF Look!Distance
<1>8. ~end.ended => end.prev[m] = v
  BY <1>5
<1> HIDE DEF end, d, v
<1>9. apart > limit => v > limit
  <2> HIDE DEF n, m
  <2>1. n \in Nat /\ m \in Nat
    BY DEF n, m
  <2>2. QED BY <1>4, <2>1
<1> HIDE DEF apart
<1>10. CASE v > limit
  <2>1. Look!Distance(left, right, limit) = {} /\ ~(v <= limit)
    BY <1>4, <1>7, <1>8, <1>10
  <2>2. QED BY <1>2, <2>1 DEF d
<1>11. CASE ~(v > limit)
  <2>1. Look!Distance(left, right, limit) = {v} /\ v <= limit
    BY <1>4, <1>6, <1>7, <1>8, <1>9, <1>11
  <2>2. QED BY <1>2, <2>1 DEF d
<1>12. QED BY <1>10, <1>11

(* The question and the protected domains are of those that are given. *)
LookInv ==
  /\ lookProtect \in LookProtects
  /\ lookQuestion = <<>> \/ lookQuestion \in LookQuestions

(***************************************************************************)
(* detect/typosquat.rs:194: for any names, protected domains and limit the *)
(* distance computed with three rows and given up early is the one that is *)
(* defined over all prefixes, if that is within the limit, and otherwise   *)
(* there is none.                                                          *)
(***************************************************************************)
THEOREM DistanceHolds == Look!Spec => []DistanceIsRight
<1>1. Look!Init => LookInv
  BY DEF Look!Init, Look!Root, LookInv
<1>2. LookInv /\ [Look!Next]_(Look!vars) => LookInv'
  BY DEF LookInv, Look!Next, Look!Ask, Look!vars
<1>3. LookInv => DistanceIsRight
  <2> SUFFICES ASSUME LookInv, NEW p \in Look!Range(lookProtect),
                      NEW limit \in 0 .. LookMaxDistance
               PROVE  LET d == Look!Reference(Look!Text(lookQuestion), Look!Text(p))
                      IN  Look!Distance(Look!Text(lookQuestion), Look!Text(p), limit)
                            = (IF d <= limit THEN {d} ELSE {})
    BY DEF DistanceIsRight, Look!DistanceIsRight
  <2>1. lookQuestion \in Seq(Seq(STRING))
    <3> DEFINE letters == Seq(STRING)
    <3>1. <<>> \in Seq(letters)
      <4> HIDE DEF letters
      <4>1. QED OBVIOUS
    <3>2. LookQuestions \subseteq Seq(letters)
      BY LookAssumption
    <3>3. lookQuestion = <<>> \/ lookQuestion \in LookQuestions
      BY DEF LookInv
    <3> HIDE DEF letters
    <3>4. lookQuestion \in Seq(letters)
      BY <3>1, <3>2, <3>3
    <3>5. QED BY <3>4 DEF letters
  <2>2. p \in Seq(Seq(STRING))
    BY LookAssumption DEF LookInv, Look!Range
  <2>3. \A name \in Seq(Seq(STRING)) : Len(Look!Text(name)) \in Nat
    BY Characters
  <2>4. Len(Look!Text(lookQuestion)) \in Nat /\ Len(Look!Text(p)) \in Nat /\ limit \in Int
    BY <2>1, <2>2, <2>3
  <2>5. QED BY <2>4, DistanceIs
<1>4. QED BY <1>1, <1>2, <1>3, PTL DEF Look!Spec

-----------------------------------------------------------------------------
(***************************************************************************)
(* main.rs:365: none of the parts writes down anything in another's state, *)
(* so what is seen of all is, for the part that runs, a behaviour of its   *)
(* own.  A property that BooksProofs, GuardsProofs or this module prove of *)
(* a part holds therefore in Parts too.                                    *)
(***************************************************************************)
THEOREM PartsAreThemselves ==
  Spec =>
    /\ part = "log" => Log!Spec
    /\ part = "history" => Day!Spec
    /\ part = "policy" => Rule!Spec
    /\ part = "latency" => Times!Spec
    /\ part = "upstream times" => Mean!Spec
    /\ part = "ratelimit" => Limit!Spec
    /\ part = "upstreams" => Up!Spec
    /\ part = "api" => Web!Spec
    /\ part = "tunneling" => Flow!Spec
    /\ part = "path" => Way!Spec
    /\ part = "startup" => Life!Spec
    /\ part = "typosquat" => Look!Spec
<1>1. Spec => (part = "log" => Log!Spec)
  <2>1. Init /\ part = "log" => Log!Init
    BY DEF Init
  <2>2. part = "log" /\ [Next]_allVars => (part = "log")' /\ [Log!Next]_(Log!vars)
    BY DEF Next, allVars, logVars, Log!vars
  <2>3. QED
    BY <2>1, <2>2, PTL DEF Spec, Log!Spec
<1>2. Spec => (part = "history" => Day!Spec)
  <2>1. Init /\ part = "history" => Day!Init
    BY DEF Init
  <2>2. part = "history" /\ [Next]_allVars => (part = "history")' /\ [Day!Next]_(Day!vars)
    BY DEF Next, allVars, dayVars, Day!vars
  <2>3. QED
    BY <2>1, <2>2, PTL DEF Spec, Day!Spec
<1>3. Spec => (part = "policy" => Rule!Spec)
  <2>1. Init /\ part = "policy" => Rule!Init
    BY DEF Init
  <2>2. part = "policy" /\ [Next]_allVars => (part = "policy")' /\ [Rule!Next]_(Rule!vars)
    BY DEF Next, allVars, ruleVars, Rule!vars
  <2>3. QED
    BY <2>1, <2>2, PTL DEF Spec, Rule!Spec
<1>4. Spec => (part = "latency" => Times!Spec)
  <2>1. Init /\ part = "latency" => Times!Init
    BY DEF Init
  <2>2. part = "latency" /\ [Next]_allVars => (part = "latency")' /\ [Times!Next]_(Times!vars)
    BY DEF Next, allVars, timesVars, Times!vars, Times!reader
  <2>3. QED
    BY <2>1, <2>2, PTL DEF Spec, Times!Spec
<1>5. Spec => (part = "upstream times" => Mean!Spec)
  <2>1. Init /\ part = "upstream times" => Mean!Init
    BY DEF Init
  <2>2. part = "upstream times" /\ [Next]_allVars => (part = "upstream times")' /\ [Mean!Next]_(Mean!vars)
    BY DEF Next, allVars, meanVars, Mean!vars
  <2>3. QED
    BY <2>1, <2>2, PTL DEF Spec, Mean!Spec
<1>6. Spec => (part = "ratelimit" => Limit!Spec)
  <2>1. Init /\ part = "ratelimit" => Limit!Init
    BY DEF Init
  <2>2. part = "ratelimit" /\ [Next]_allVars => (part = "ratelimit")' /\ [Limit!Next]_(Limit!vars)
    BY DEF Next, allVars, limitVars, Limit!vars
  <2>3. QED
    BY <2>1, <2>2, PTL DEF Spec, Limit!Spec
<1>7. Spec => (part = "upstreams" => Up!Spec)
  <2>1. Init /\ part = "upstreams" => Up!Init
    BY DEF Init
  <2>2. part = "upstreams" /\ [Next]_allVars => (part = "upstreams")' /\ [Up!Next]_(Up!vars)
    BY DEF Next, allVars, upVars, Up!vars, Up!forward, Up!oblivious
  <2>3. QED
    BY <2>1, <2>2, PTL DEF Spec, Up!Spec
<1>8. Spec => (part = "api" => Web!Spec)
  <2>1. Init /\ part = "api" => Web!Init
    BY DEF Init
  <2>2. part = "api" /\ [Next]_allVars => (part = "api")' /\ [Web!Next]_(Web!vars)
    BY DEF Next, allVars, webVars, Web!vars, Web!tokenVars, Web!orderVars
  <2>3. QED
    BY <2>1, <2>2, PTL DEF Spec, Web!Spec
<1>9. Spec => (part = "tunneling" => Flow!Spec)
  <2>1. Init /\ part = "tunneling" => Flow!Init
    BY DEF Init
  <2>2. part = "tunneling" /\ [Next]_allVars => (part = "tunneling")' /\ [Flow!Next]_(Flow!vars)
    BY DEF Next, allVars, flowVars, Flow!vars
  <2>3. QED
    BY <2>1, <2>2, PTL DEF Spec, Flow!Spec
<1>10. Spec => (part = "path" => Way!Spec)
  <2>1. Init /\ part = "path" => Way!Init
    BY DEF Init
  <2>2. part = "path" /\ [Next]_allVars => (part = "path")' /\ [Way!Next]_(Way!vars)
    BY DEF Next, allVars, wayVars, Way!vars
  <2>3. QED
    BY <2>1, <2>2, PTL DEF Spec, Way!Spec
<1>11. Spec => (part = "startup" => Life!Spec)
  <2>1. Init /\ part = "startup" => Life!Init
    BY DEF Init
  <2>2. part = "startup" /\ [Next]_allVars => (part = "startup")' /\ [Life!Next]_(Life!vars)
    BY DEF Next, allVars, lifeVars, Life!vars
  <2>3. QED
    BY <2>1, <2>2, PTL DEF Spec, Life!Spec
<1>12. Spec => (part = "typosquat" => Look!Spec)
  <2>1. Init /\ part = "typosquat" => Look!Init
    BY DEF Init
  <2>2. part = "typosquat" /\ [Next]_allVars => (part = "typosquat")' /\ [Look!Next]_(Look!vars)
    BY DEF Next, allVars, lookVars, Look!vars
  <2>3. QED
    BY <2>1, <2>2, PTL DEF Spec, Look!Spec
<1>13. QED
  BY <1>1, <1>2, <1>3, <1>4, <1>5, <1>6, <1>7, <1>8, <1>9, <1>10, <1>11, <1>12
=============================================================================
