----------------------------- MODULE BooksProofs -----------------------------
(***************************************************************************)
(* Theorems about the parts in Books, for any values of their constants.   *)
(* Every one is about the specification of its part, of which a behaviour  *)
(* of Parts with that part is one.                                         *)
(***************************************************************************)
EXTENDS Books, FiniteSetTheorems, WellFoundedInduction, TLAPS

-----------------------------------------------------------------------------
(* Induction over naturals and over the subsets of a finite set. *)
(* The order of the naturals, as a relation, is well founded. *)
LessThan == {p \in Nat \X Nat : p[1] < p[2]}

LEMMA LessThanWellFounded == IsWellFoundedOn(LessThan, Nat)
BY NatLessThanWellFounded, Zenon DEF OpToRel, LessThan

(* A non-empty set of naturals has a least member. *)
LEMMA LeastOfNats ==
  ASSUME NEW S, S \subseteq Nat, S # {}
  PROVE  \E x \in S : \A y \in S : x <= y
<1>1. PICK x \in S : \A y \in S : ~(<<y, x>> \in LessThan)
  BY LessThanWellFounded, WFMin
<1>2. ASSUME NEW y \in S PROVE x <= y
  <2>1. x \in Nat /\ y \in Nat /\ (y < x => <<y, x>> \in LessThan)
    BY DEF LessThan
  <2>2. QED
    BY <1>1, <2>1
<1>3. QED
  BY <1>2

(* Induction, of a set and not of an operator. *)
LEMMA Inductive ==
  ASSUME NEW X, 0 \in X, \A n \in Nat : n \in X => n + 1 \in X
  PROVE  Nat \subseteq X
<1> SUFFICES ASSUME Nat \ X # {} PROVE FALSE
  OBVIOUS
<1>1. PICK m \in Nat \ X : \A y \in Nat \ X : m <= y
  BY LeastOfNats
<1>2. m # 0 /\ m - 1 \in Nat
  BY <1>1
<1>3. m - 1 \in X
  BY <1>1, <1>2
<1>4. QED BY <1>1, <1>2, <1>3

Chosen(s) == CHOOSE x \in s : TRUE

LEMMA OneLess ==
  ASSUME NEW S, IsFiniteSet(S), NEW s \in SUBSET S, s # {}
  PROVE  /\ Chosen(s) \in s
         /\ s \ {Chosen(s)} \in SUBSET S
         /\ Cardinality(s) \in Nat /\ Cardinality(s) > 0
         /\ \A y \in s : Cardinality(s \ {y}) = Cardinality(s) - 1
<1>1. IsFiniteSet(s)
  BY FS_Subset
<1>2. Chosen(s) \in s
  BY DEF Chosen
<1>3. \A y \in s : Cardinality(s \ {y}) = Cardinality(s) - 1
  BY <1>1, FS_RemoveElement
<1>4. Cardinality(s) \in Nat /\ Cardinality(s) > 0
  BY <1>1, FS_CardinalityType, FS_EmptySet
<1>5. QED BY <1>2, <1>3, <1>4

(* How to show something of every subset of a finite set. *)
LEMMA BySize ==
  ASSUME NEW S, IsFiniteSet(S), NEW Good,
         \A s \in SUBSET S : (\A y \in s : s \ {y} \in Good) => s \in Good
  PROVE  SUBSET S \subseteq Good
<1> DEFINE X == {n \in Nat : \A s \in SUBSET S : Cardinality(s) = n => s \in Good}
<1>1. 0 \in X
  <2>1. ASSUME NEW s \in SUBSET S, Cardinality(s) = 0 PROVE s \in Good
    BY <2>1, OneLess
  <2>2. QED BY <2>1
<1>2. ASSUME NEW n \in Nat, n \in X PROVE n + 1 \in X
  <2>1. ASSUME NEW s \in SUBSET S, Cardinality(s) = n + 1 PROVE s \in Good
    <3>1. \A y \in s : Cardinality(s \ {y}) = n
      BY <2>1, OneLess
    <3>2. \A y \in s : s \ {y} \in Good
      BY <1>2, <3>1
    <3>3. QED BY <3>2
  <2>2. QED BY <2>1
<1>3. Nat \subseteq X
  <2> HIDE DEF X
  <2>1. QED BY <1>1, <1>2, Inductive
<1>4. ASSUME NEW s \in SUBSET S PROVE s \in Good
  <2>1. Cardinality(s) \in Nat
    BY FS_Subset, FS_CardinalityType
  <2>2. QED BY <1>3, <2>1
<1>5. QED BY <1>4

-----------------------------------------------------------------------------
(***************************************************************************)
(* Sums.  FoldSet and MapThenSumSet take one member after the other in an  *)
(* order that nobody knows; the function behind them exists, and the order *)
(* does not matter.                                                        *)
(***************************************************************************)
AddsUp(it, f, S) ==
  it = [s \in SUBSET S |-> IF s = {} THEN 0 ELSE f[Chosen(s)] + it[s \ {Chosen(s)}]]

SumOf(f, S) == (CHOOSE it : AddsUp(it, f, S))[S]

(* There is such a function: it is extended from size to size. *)
LEMMA SumExists ==
  ASSUME NEW S, IsFiniteSet(S), NEW f, \A x \in S : f[x] \in Int
  PROVE  \E it \in [SUBSET S -> Int] : AddsUp(it, f, S)
<1> DEFINE Right(g, s) ==
      g[s] = IF s = {} THEN 0 ELSE f[Chosen(s)] + g[s \ {Chosen(s)}]
           Upto(n) == \E g \in [SUBSET S -> Int] :
                        \A s \in SUBSET S : Cardinality(s) <= n => Right(g, s)
           X == {n \in Nat : Upto(n)}
<1>1. Upto(0)
  <2> DEFINE g == [s \in SUBSET S |-> 0]
  <2>1. g \in [SUBSET S -> Int]
    OBVIOUS
  <2>2. ASSUME NEW s \in SUBSET S, Cardinality(s) <= 0 PROVE Right(g, s)
    <3>1. s = {}
      BY <2>2, OneLess
    <3>2. QED BY <3>1
  <2>3. QED BY <2>1, <2>2
<1>2. ASSUME NEW n \in Nat, Upto(n) PROVE Upto(n + 1)
  <2>1. PICK g \in [SUBSET S -> Int] :
          \A s \in SUBSET S : Cardinality(s) <= n => Right(g, s)
    BY <1>2
  <2> DEFINE h == [s \in SUBSET S |-> IF s = {} THEN 0
                                      ELSE f[Chosen(s)] + g[s \ {Chosen(s)}]]
  <2>2. h \in [SUBSET S -> Int]
    BY OneLess
  <2>3. \A s \in SUBSET S : Cardinality(s) <= n => h[s] = g[s]
    BY <2>1
  <2>4. ASSUME NEW s \in SUBSET S, Cardinality(s) <= n + 1 PROVE Right(h, s)
    <3>1. CASE s = {}
      BY <3>1
    <3>2. CASE s # {}
      <4>1. h[s] = f[Chosen(s)] + g[s \ {Chosen(s)}]
        BY <3>2
      <4> HIDE DEF h
      <4>2. h[s \ {Chosen(s)}] = g[s \ {Chosen(s)}]
        BY <2>3, <2>4, <3>2, OneLess
      <4>3. QED BY <3>2, <4>1, <4>2
    <3>3. QED BY <3>1, <3>2
  <2> HIDE DEF h, Right
  <2>5. QED BY <2>2, <2>4
<1> HIDE DEF Upto
<1>3. Nat \subseteq X
  <2>1. 0 \in X /\ \A n \in Nat : n \in X => n + 1 \in X
    BY <1>1, <1>2
  <2> HIDE DEF X
  <2>2. QED BY <2>1, Inductive
<1>4. Cardinality(S) \in Nat
  BY FS_CardinalityType
<1>5. Upto(Cardinality(S))
  BY <1>3, <1>4
<1>6. PICK g \in [SUBSET S -> Int] :
        \A s \in SUBSET S : Cardinality(s) <= Cardinality(S) => Right(g, s)
  BY <1>5 DEF Upto
<1>7. \A s \in SUBSET S : Right(g, s)
  BY <1>6, FS_Subset
<1>8. AddsUp(g, f, S)
  BY <1>7 DEF AddsUp
<1>9. QED BY <1>8

(* ... and it goes by the members in any order. *)
Adds(it, f, S) ==
  /\ it[{}] = 0
  /\ \A s \in SUBSET S : it[s] \in Int
  /\ \A s \in SUBSET S : \A y \in s : it[s] = f[y] + it[s \ {y}]

LEMMA SumStep ==
  ASSUME NEW S, IsFiniteSet(S), NEW f, \A x \in S : f[x] \in Int,
         NEW it, AddsUp(it, f, S)
  PROVE  Adds(it, f, S)
<1>1. it[{}] = 0
  BY DEF AddsUp
<1>2. \A s \in SUBSET S : s # {} => it[s] = f[Chosen(s)] + it[s \ {Chosen(s)}]
  BY DEF AddsUp
<1> DEFINE Typed == {s \in SUBSET S : it[s] \in Int}
           Right == {s \in SUBSET S : \A y \in s : it[s] = f[y] + it[s \ {y}]}
<1>3. SUBSET S \subseteq Typed
  <2>1. ASSUME NEW s \in SUBSET S, \A y \in s : s \ {y} \in Typed PROVE s \in Typed
    <3>1. CASE s = {}
      BY <1>1, <3>1
    <3>2. CASE s # {}
      <4>1. Chosen(s) \in s
        BY <3>2, OneLess
      <4>2. it[s \ {Chosen(s)}] \in Int /\ f[Chosen(s)] \in Int
        BY <2>1, <4>1
      <4>3. it[s] = f[Chosen(s)] + it[s \ {Chosen(s)}]
        BY <1>2, <3>2
      <4>4. it[s] \in Int
        BY <4>2, <4>3
      <4>5. QED BY <4>4
    <3>3. QED BY <3>1, <3>2
  <2> HIDE DEF Typed
  <2>2. QED BY <2>1, BySize
<1>4. \A s \in SUBSET S : it[s] \in Int
  BY <1>3
<1>5. SUBSET S \subseteq Right
  <2>1. ASSUME NEW s \in SUBSET S, \A y \in s : s \ {y} \in Right PROVE s \in Right
    <3>1. ASSUME NEW y \in s PROVE it[s] = f[y] + it[s \ {y}]
      <4> DEFINE x == Chosen(s)
      <4>1. x \in s
        BY OneLess
      <4>2. it[s] = f[x] + it[s \ {x}]
        BY <1>2, <4>1
      <4>3. CASE x = y
        BY <4>2, <4>3
      <4>4. CASE x # y
        <5> HIDE DEF x
        <5>1. it[s \ {x}] = f[y] + it[(s \ {x}) \ {y}]
          BY <2>1, <4>1, <4>4
        <5>2. it[s \ {y}] = f[x] + it[(s \ {y}) \ {x}]
          BY <2>1, <4>1, <4>4
        <5>3. (s \ {x}) \ {y} = (s \ {y}) \ {x}
          OBVIOUS
        <5>4. /\ it[(s \ {x}) \ {y}] \in Int
              /\ f[x] \in Int /\ f[y] \in Int
          BY <1>4, <4>1
        <5> HIDE DEF Typed, Right
        <5>5. it[(s \ {x}) \ {y}] = it[(s \ {y}) \ {x}]
          BY <5>3
        <5>6. QED BY <4>2, <5>1, <5>2, <5>4, <5>5
      <4>5. QED BY <4>3, <4>4
    <3>2. QED BY <3>1
  <2> HIDE DEF Right
  <2>2. QED BY <2>1, BySize
<1>6. QED BY <1>1, <1>4, <1>5 DEF Adds

(* What a sum is depends on what it adds only. *)
LEMMA SumIsOne ==
  ASSUME NEW S, IsFiniteSet(S), NEW f, \A x \in S : f[x] \in Int,
         NEW g, NEW T \in SUBSET S, \A x \in T : g[x] = f[x],
         NEW it, AddsUp(it, f, S), NEW jt, AddsUp(jt, g, T)
  PROVE  it[T] = jt[T]
<1>1. IsFiniteSet(T) /\ \A x \in T : g[x] \in Int
  BY FS_Subset
<1> DEFINE Same == {s \in SUBSET T : it[s] = jt[s]}
<1>2. SUBSET T \subseteq Same
  <2> HIDE DEF Same
  <2>0. Adds(it, f, S)
    BY SumStep
  <2>1. Adds(jt, g, T)
    BY <1>1, SumStep
  <2> USE DEF Same, Adds
  <2>2. ASSUME NEW s \in SUBSET T, \A y \in s : s \ {y} \in Same PROVE s \in Same
    <3>1. CASE s = {}
      BY <2>0, <2>1, <3>1
    <3>2. CASE s # {}
      <4>1. PICK y \in s : TRUE
        BY <3>2
      <4>2. it[s] = f[y] + it[s \ {y}] /\ jt[s] = g[y] + jt[s \ {y}]
        BY <2>0, <2>1
      <4>3. QED BY <2>2, <4>2
    <3>3. QED BY <3>1, <3>2
  <2> HIDE DEF Same
  <2>3. QED BY <1>1, <2>2, BySize
<1>3. QED BY <1>2

(* The function that is chosen is one. *)
LEMMA SumIs ==
  ASSUME NEW S, IsFiniteSet(S), NEW f, \A x \in S : f[x] \in Int
  PROVE  \E it : AddsUp(it, f, S) /\ SumOf(f, S) = it[S]
<1>1. \E it : AddsUp(it, f, S)
  BY SumExists
<1>2. AddsUp(CHOOSE it : AddsUp(it, f, S), f, S)
  BY <1>1, Zenon
<1>3. QED BY <1>2 DEF SumOf

(* The sum over a finite set: nothing for nothing, and what one member adds. *)
LEMMA SumLaws ==
  ASSUME NEW S, IsFiniteSet(S), NEW f, \A x \in S : f[x] \in Int
  PROVE  /\ SumOf(f, S) \in Int
         /\ SumOf(f, {}) = 0
         /\ \A y \in S : SumOf(f, S) = f[y] + SumOf(f, S \ {y})
<1>1. PICK it : AddsUp(it, f, S) /\ SumOf(f, S) = it[S]
  BY SumIs
<1>2. Adds(it, f, S)
  BY <1>1, SumStep
<1>3. ASSUME NEW T \in SUBSET S PROVE SumOf(f, T) = it[T]
  <2>1. IsFiniteSet(T) /\ \A x \in T : f[x] \in Int
    BY FS_Subset
  <2>2. PICK jt : AddsUp(jt, f, T) /\ SumOf(f, T) = jt[T]
    BY <2>1, SumIs
  <2>3. it[T] = jt[T]
    BY <1>1, <2>2, SumIsOne
  <2>4. QED BY <2>2, <2>3
<1>4. SumOf(f, {}) = 0
  BY <1>2, <1>3 DEF Adds
<1>5. ASSUME NEW y \in S PROVE SumOf(f, S) = f[y] + SumOf(f, S \ {y})
  BY <1>1, <1>2, <1>3 DEF Adds
<1>6. QED BY <1>1, <1>2, <1>4, <1>5 DEF Adds

LEMMA SumSame ==
  ASSUME NEW S, IsFiniteSet(S), NEW f, NEW g, \A x \in S : f[x] \in Int /\ g[x] = f[x]
  PROVE  SumOf(f, S) = SumOf(g, S)
<1>1. PICK it : AddsUp(it, f, S) /\ SumOf(f, S) = it[S]
  BY SumIs
<1>2. PICK jt : AddsUp(jt, g, S) /\ SumOf(g, S) = jt[S]
  BY SumIs
<1>3. it[S] = jt[S]
  BY <1>1, <1>2, SumIsOne
<1>4. QED BY <1>1, <1>2, <1>3

(* Noughts add up to nought. *)
LEMMA SumOfNought ==
  ASSUME NEW S, IsFiniteSet(S), NEW f, \A x \in S : f[x] = 0
  PROVE  SumOf(f, S) = 0
<1> DEFINE Nought == {s \in SUBSET S : SumOf(f, s) = 0}
<1>1. ASSUME NEW s \in SUBSET S, \A y \in s : s \ {y} \in Nought PROVE s \in Nought
  <2>1. IsFiniteSet(s) /\ \A x \in s : f[x] \in Int
    BY FS_Subset
  <2>2. SumOf(f, {}) = 0 /\ \A y \in s : SumOf(f, s) = f[y] + SumOf(f, s \ {y})
    BY <2>1, SumLaws
  <2>3. CASE s = {}
    BY <2>2, <2>3
  <2>4. CASE s # {}
    <3>1. PICK y \in s : TRUE
      BY <2>4
    <3>2. SumOf(f, s) = f[y] + SumOf(f, s \ {y}) /\ SumOf(f, s \ {y}) = 0 /\ f[y] = 0
      BY <1>1, <2>2
    <3>3. QED BY <3>2
  <2>5. QED BY <2>3, <2>4
<1>2. SUBSET S \subseteq Nought
  <2> HIDE DEF Nought
  <2>1. QED BY <1>1, BySize
<1>3. QED BY <1>2

(* What one value more or less does to the sum. *)
LEMMA SumChanges ==
  ASSUME NEW S, IsFiniteSet(S), NEW f, NEW g, NEW y \in S,
         \A x \in S : f[x] \in Int, g[y] \in Int, \A x \in S \ {y} : g[x] = f[x]
  PROVE  SumOf(g, S) = SumOf(f, S) + g[y] - f[y]
<1>0. IsFiniteSet(S \ {y})
  BY FS_Subset
<1>1. \A x \in S : g[x] \in Int
  OBVIOUS
<1>2. SumOf(f, S) = f[y] + SumOf(f, S \ {y})
  BY SumLaws
<1>3. SumOf(g, S) = g[y] + SumOf(g, S \ {y})
  BY <1>1, SumLaws
<1>4. SumOf(f, S \ {y}) = SumOf(g, S \ {y})
  BY <1>0, SumSame
<1>5. SumOf(f, S \ {y}) \in Int
  BY <1>0, SumLaws
<1>6. QED BY <1>2, <1>3, <1>4, <1>5

(* A part of naturals does not add up to more than all of them. *)
LEMMA SumOfPart ==
  ASSUME NEW S, IsFiniteSet(S), NEW f, \A x \in S : f[x] \in Nat, NEW T \in SUBSET S
  PROVE  SumOf(f, T) <= SumOf(f, S)
<1> DEFINE Less == {s \in SUBSET S : SumOf(f, s \cap T) <= SumOf(f, s)}
<1>1. ASSUME NEW s \in SUBSET S, \A y \in s : s \ {y} \in Less PROVE s \in Less
  <2>0. IsFiniteSet(s) /\ IsFiniteSet(s \cap T)
    BY FS_Subset
  <2>1. CASE s = {}
    <3>1. SumOf(f, s) = 0 /\ s \cap T = s
      BY <2>0, <2>1, SumLaws
    <3>2. QED BY <3>1
  <2>2. CASE s # {}
    <3>1. PICK y \in s : TRUE
      BY <2>2
    <3>a. IsFiniteSet(s \ {y}) /\ IsFiniteSet((s \ {y}) \cap T)
      BY FS_Subset
    <3>2. SumOf(f, s) = f[y] + SumOf(f, s \ {y})
      BY <2>0, SumLaws
    <3>3. SumOf(f, (s \ {y}) \cap T) <= SumOf(f, s \ {y})
      BY <1>1
    <3>4. /\ SumOf(f, s \ {y}) \in Int
          /\ SumOf(f, (s \ {y}) \cap T) \in Int
      BY <3>a, SumLaws
    <3>5. CASE y \in T
      <4>1. (s \cap T) \ {y} = (s \ {y}) \cap T /\ y \in s \cap T
        BY <3>5
      <4>2. SumOf(f, s \cap T) = f[y] + SumOf(f, (s \cap T) \ {y})
        <5>1. \A x \in s \cap T : f[x] \in Int
          OBVIOUS
        <5>2. QED BY <2>0, <4>1, <5>1, SumLaws
      <4>3. f[y] \in Int
        OBVIOUS
      <4>4. SumOf(f, (s \cap T) \ {y}) = SumOf(f, (s \ {y}) \cap T)
        BY <4>1
      <4>5. QED BY <3>2, <3>3, <3>4, <4>2, <4>3, <4>4
    <3>6. CASE y \notin T
      <4>1. s \cap T = (s \ {y}) \cap T
        BY <3>6
      <4>2. SumOf(f, s \cap T) = SumOf(f, (s \ {y}) \cap T)
        BY <4>1
      <4>3. f[y] \in Nat
        OBVIOUS
      <4>4. QED BY <3>2, <3>3, <3>4, <4>2, <4>3
    <3>7. QED BY <3>5, <3>6
  <2>3. QED BY <2>1, <2>2
<1>2. SUBSET S \subseteq Less
  <2> HIDE DEF Less
  <2>1. QED BY <1>1, BySize
<1>3. S \in Less /\ S \cap T = T
  BY <1>2
<1>4. QED BY <1>3

-----------------------------------------------------------------------------
(***************************************************************************)
(* The query log.  A name's count is never ahead of the queries for it:    *)
(* the tasks that have recorded theirs and not counted it yet make up the  *)
(* difference.  A task that goes to report a name brings a count that was  *)
(* one once, and so is not above those of today.                           *)
(***************************************************************************)
LogPlaces ==
  {"idle", "second", "window", "resetting", "taking", "skipping", "sending",
   "counting", "reporting", "keeping", "writing"}

ToBeCounted == LogPlaces \ {"idle", "reporting", "keeping", "writing"}
Uncounted ==
  [n \in LogNames |-> {t \in LogThreads : logEvent[t].name = n /\ logPc[t] \in ToBeCounted}]
CountOf == [n \in LogNames |-> IF n \in DOMAIN logCounts THEN logCounts[n] ELSE 0]

LogTyped ==
  /\ logPc \in [LogThreads -> LogPlaces]
  /\ DOMAIN logEvent = LogThreads
  /\ \A t \in LogThreads : DOMAIN logEvent[t] = {"name", "second", "count"}
  /\ \A t \in LogThreads : logPc[t] # "idle" => logEvent[t].name \in LogNames
  /\ logQueries \in [LogNames -> Nat]
  /\ DOMAIN logCounts \subseteq LogNames
  /\ \A n \in DOMAIN logCounts : logCounts[n] \in Nat

CountInv ==
  \A n \in LogNames : CountOf[n] + Cardinality(Uncounted[n]) <= logQueries[n]

(* What a task is about to report, and what has been. *)
Honest(n, count) == LogK > 0 /\ count \in LogK .. logQueries[n]
ReportInv ==
  /\ \A t \in LogThreads :
       logPc[t] = "reporting" => Honest(logEvent[t].name, logEvent[t].count)
  /\ DOMAIN logReportable \subseteq LogNames
  /\ \A n \in DOMAIN logReportable : Honest(n, logReportable[n])

(* What is kept in the mode that is set, and who keeps it. *)
ModeInv ==
  /\ \A t \in LogThreads :
       /\ logPc[t] = "reporting" => logMode # "none"
       /\ logPc[t] = "keeping" => Log!KeepsNames
       /\ logPc[t] = "writing" => logMode = "full"
  /\ ~Log!KeepsNames => logRing = <<>>
  /\ logMode # "full" => logFile.buffered = {} /\ logFile.written = {}
  /\ DOMAIN logFile = {"buffered", "written"}
  /\ logMode = "none" => logReportable = <<>> /\ logCounts = <<>>

LogInv == LogTyped /\ CountInv /\ ReportInv /\ ModeInv

(* A step between the places before the count changes no table. *)
LEMMA PublishStep ==
  ASSUME LogInv, NEW t \in LogThreads, Log!Publish(t)
  PROVE  LogInv'
<1> DEFINE Quiet ==
      /\ logPc[t] \in ToBeCounted
      /\ \E to \in ToBeCounted : logPc' = [logPc EXCEPT ![t] = to]
      /\ DOMAIN logEvent' = LogThreads /\ DOMAIN logEvent'[t] = {"name", "second", "count"}
      /\ logEvent'[t].name = logEvent[t].name
      /\ \A u \in LogThreads \ {t} : logEvent'[u] = logEvent[u]
      /\ UNCHANGED <<logMode, logQueries, logCounts, logReportable, logRing, logFile>>
<1> USE DEF Log!Goes, Log!Nothing, Log!tables, Log!kept, Log!budget, LogTyped, LogInv, ToBeCounted, LogPlaces
<1>1. Log!ReadSecond(t) => Quiet
  BY DEF Log!ReadSecond
<1>2. Log!SwapWindow(t) => Quiet
  BY DEF Log!SwapWindow
<1>3. Log!ResetSent(t) => Quiet
  BY DEF Log!ResetSent
<1>4. Log!TakeBudget(t) => Quiet
  BY DEF Log!TakeBudget
<1>5. Log!Skip(t) => Quiet
  BY DEF Log!Skip
<1>6. Log!Send(t) => Quiet
  BY DEF Log!Send
<1>7. Quiet
  BY <1>1, <1>2, <1>3, <1>4, <1>5, <1>6 DEF Log!Publish
<1>8. \A n \in LogNames : Uncounted'[n] = Uncounted[n] /\ CountOf'[n] = CountOf[n]
  BY <1>7 DEF Uncounted, CountOf
<1>9. QED
  BY <1>7, <1>8 DEF CountInv, ReportInv, ModeInv, Honest, Log!KeepsNames

LEMMA UncountedType ==
  \A n \in LogNames : Uncounted[n] \in SUBSET LogThreads /\ IsFiniteSet(Uncounted[n])
                                            /\ Cardinality(Uncounted[n]) \in Nat
BY LogAssumption, FS_Subset, FS_CardinalityType DEF Uncounted

LEMMA RecordStep ==
  ASSUME LogInv, NEW t \in LogThreads, NEW name \in LogNames, NEW listened \in BOOLEAN,
         Log!Record(t, name, listened)
  PROVE  LogInv'
<1> USE DEF LogInv, LogTyped
<1>1. /\ logPc[t] = "idle" /\ \E to \in ToBeCounted : logPc' = [logPc EXCEPT ![t] = to]
      /\ logEvent' = [logEvent EXCEPT ![t] = [Log!Nothing EXCEPT !.name = name]]
      /\ logQueries' = [logQueries EXCEPT ![name] = @ + 1]
      /\ UNCHANGED <<logMode, logCounts, logReportable, logRing, logFile>>
  BY DEF Log!Record, Log!Goes, Log!tables, Log!kept, ToBeCounted, LogPlaces
<1>2. LogTyped'
  BY <1>1 DEF Log!Nothing, ToBeCounted
<1>3. \A n \in LogNames :
        /\ CountOf'[n] = CountOf[n] /\ logQueries'[n] = (IF n = name THEN logQueries[n] + 1 ELSE logQueries[n])
        /\ Uncounted'[n] = IF n = name THEN Uncounted[n] \cup {t} ELSE Uncounted[n]
        /\ t \notin Uncounted[n]
  BY <1>1 DEF CountOf, Uncounted, Log!Nothing, ToBeCounted
<1>4. Cardinality(Uncounted[name] \cup {t}) = Cardinality(Uncounted[name]) + 1
  BY <1>3, FS_AddElement, UncountedType
<1>5. CountInv'
  <2> SUFFICES ASSUME NEW n \in LogNames
               PROVE  CountOf'[n] + Cardinality(Uncounted'[n]) <= logQueries'[n]
    BY DEF CountInv
  <2>1. /\ CountOf[n] + Cardinality(Uncounted[n]) <= logQueries[n]
        /\ CountOf[n] \in Nat /\ Cardinality(Uncounted[n]) \in Nat
    BY UncountedType DEF CountInv, CountOf
  <2>2. CASE n = name
    <3>1. Uncounted'[n] = Uncounted[name] \cup {t} /\ CountOf'[n] = CountOf[n]
      BY <1>3, <2>2
    <3>2. logQueries'[n] = logQueries[n] + 1 /\ logQueries[n] \in Nat
      BY <1>3, <2>2
    <3>3. Cardinality(Uncounted'[n]) = Cardinality(Uncounted[n]) + 1
      BY <1>4, <3>1, <2>2
    <3>4. QED
      BY <2>1, <3>1, <3>2, <3>3
  <2>3. CASE n # name
    <3>1. Uncounted'[n] = Uncounted[n] /\ CountOf'[n] = CountOf[n]
      BY <1>3, <2>3
    <3>2. logQueries'[n] = logQueries[n] /\ logQueries[n] \in Nat
      BY <1>3, <2>3
    <3>3. QED
      BY <2>1, <3>1, <3>2
  <2>4. QED
    BY <2>2, <2>3
<1>6. ReportInv' /\ ModeInv'
  BY <1>1 DEF ReportInv, ModeInv, Honest, ToBeCounted, Log!KeepsNames
<1>7. QED
  BY <1>2, <1>5, <1>6

LEMMA CountStep ==
  ASSUME LogInv, NEW t \in LogThreads, Log!CountName(t)
  PROVE  LogInv'
<1> DEFINE name == logEvent[t].name
           count == Log!Added(name)
<1> USE DEF LogInv, LogTyped
<1>1. /\ logPc[t] = "counting" /\ name \in LogNames /\ logMode # "none"
      /\ count \in 0 .. CountOf[name] + 1
      /\ t \in Uncounted[name]
  BY DEF Log!CountName, Log!Goes, Log!Added, CountOf, Uncounted, ToBeCounted, LogPlaces
<1>2. CountOf[name] + Cardinality(Uncounted[name]) <= logQueries[name]
  BY <1>1 DEF CountInv
<1>a. IsFiniteSet(Uncounted[name]) /\ Cardinality(Uncounted[name]) \in Nat
  BY <1>1, UncountedType
<1>3. /\ IsFiniteSet(Uncounted[name] \ {t})
      /\ Cardinality(Uncounted[name] \ {t}) = Cardinality(Uncounted[name]) - 1
  BY <1>1, <1>a, FS_RemoveElement
<1>4. Cardinality(Uncounted[name] \ {t}) \in Nat
  BY <1>3, FS_CardinalityType
<1>5. count <= logQueries[name] /\ CountOf[name] \in Nat
  BY <1>1, <1>2, <1>3, <1>4, <1>a DEF CountOf
<1> HIDE DEF count
<1>6. /\ \/ LogK > 0 /\ count >= LogK /\ logPc' = [logPc EXCEPT ![t] = "reporting"]
            /\ logEvent' = [logEvent EXCEPT ![t] = [logEvent[t] EXCEPT !.count = count]]
         \/ Log!KeepsNames /\ logPc' = [logPc EXCEPT ![t] = "keeping"]
            /\ logEvent' = [logEvent EXCEPT ![t] = [logEvent[t] EXCEPT !.count = count]]
         \/ logPc' = [logPc EXCEPT ![t] = "idle"]
            /\ logEvent' = [logEvent EXCEPT ![t] = Log!Nothing]
      /\ logCounts' = IF count = 0 THEN logCounts ELSE Log!Put(logCounts, name, count)
      /\ UNCHANGED <<logMode, logQueries, logReportable, logRing, logFile>>
  BY DEF Log!CountName, Log!Goes, Log!budget, Log!kept, count
<1>7. LogTyped'
  BY <1>1, <1>6 DEF Log!Nothing, Log!Put, LogPlaces
<1>8. \A n \in LogNames :
        /\ n # name => CountOf'[n] = CountOf[n] /\ Uncounted'[n] = Uncounted[n]
        /\ n = name => CountOf'[n] <= CountOf[n] + 1 /\ Uncounted'[n] = Uncounted[n] \ {t}
        /\ CountOf'[n] \in Nat /\ CountOf[n] \in Nat
  BY <1>1, <1>6 DEF CountOf, Uncounted, Log!Put, Log!Nothing, ToBeCounted, LogPlaces
<1>9. CountInv'
  <2> SUFFICES ASSUME NEW n \in LogNames
               PROVE  CountOf'[n] + Cardinality(Uncounted'[n]) <= logQueries'[n]
    BY DEF CountInv
  <2>1. /\ CountOf[n] + Cardinality(Uncounted[n]) <= logQueries[n]
        /\ Cardinality(Uncounted[n]) \in Nat /\ logQueries' = logQueries
    BY <1>6, UncountedType DEF CountInv
  <2>2. CASE n = name
    <3>1. Uncounted'[n] = Uncounted[name] \ {t} /\ CountOf'[n] <= CountOf[n] + 1
      BY <1>8, <2>2
    <3>2. Cardinality(Uncounted'[n]) = Cardinality(Uncounted[n]) - 1
      BY <1>3, <3>1, <2>2
    <3>3. CountOf'[n] \in Nat /\ CountOf[n] \in Nat /\ logQueries[n] \in Nat
      BY <1>8
    <3>4. QED
      BY <2>1, <3>1, <3>2, <3>3
  <2>3. CASE n # name
    BY <1>8, <2>1, <2>3
  <2>4. QED
    BY <2>2, <2>3
<1>10. ReportInv'
  BY <1>1, <1>5, <1>6 DEF ReportInv, Honest, Log!Nothing
<1>11. ModeInv'
  BY <1>1, <1>6 DEF ModeInv, Log!KeepsNames
<1>12. QED
  BY <1>7, <1>9, <1>10, <1>11

(* What a task does after the count, and what the others do. *)
LEMMA AfterCount ==
  ASSUME LogInv, NEW t \in LogThreads,
         Log!KeepNothing(t) \/ Log!Report(t) \/ Log!Keep(t) \/ Log!WriteLine(t)
  PROVE  LogInv'
<1> USE DEF LogInv, LogTyped
<1> DEFINE Fewer ==
      \A n \in LogNames :
        Uncounted'[n] \in SUBSET Uncounted[n] /\ CountOf'[n] = CountOf[n]
<1>1. ASSUME Fewer, logQueries' = logQueries PROVE CountInv'
  <2>1. \A n \in LogNames : Cardinality(Uncounted'[n]) <= Cardinality(Uncounted[n])
                            /\ Cardinality(Uncounted'[n]) \in Nat
    BY <1>1, UncountedType, FS_Subset, FS_CardinalityType
  <2>2. ASSUME NEW n \in LogNames
        PROVE  CountOf'[n] + Cardinality(Uncounted'[n]) <= logQueries'[n]
    <3>1. CountOf[n] + Cardinality(Uncounted[n]) <= logQueries[n]
      BY DEF CountInv
    <3>2. CountOf'[n] = CountOf[n] /\ CountOf[n] \in Nat /\ logQueries'[n] \in Nat
      BY <1>1 DEF CountOf
    <3>3. Cardinality(Uncounted'[n]) <= Cardinality(Uncounted[n])
      BY <2>1
    <3>4. Cardinality(Uncounted'[n]) \in Nat /\ Cardinality(Uncounted[n]) \in Nat
      BY <2>1, UncountedType
    <3>5. QED
      BY <1>1, <3>1, <3>2, <3>3, <3>4
  <2>3. QED
    BY <2>2 DEF CountInv
<1>2. CASE Log!KeepNothing(t)
  <2> USE <1>2 DEF Log!KeepNothing, Log!Goes, Log!tables, Log!kept
  <2>1. LogTyped'
    BY DEF Log!Nothing, LogPlaces
  <2>2. Fewer /\ logQueries' = logQueries
    BY DEF Uncounted, CountOf, ToBeCounted
  <2>3. ReportInv' /\ ModeInv'
    BY DEF ReportInv, ModeInv, Honest, Log!KeepsNames
  <2>4. QED
    BY <1>1, <2>1, <2>2, <2>3
<1>3. CASE Log!Report(t)
  <2> USE <1>3 DEF Log!Report, Log!Goes, Log!kept
  <2>1. LogTyped'
    BY DEF Log!Nothing, LogPlaces
  <2>2. Fewer /\ logQueries' = logQueries
    BY DEF Uncounted, CountOf, ToBeCounted
  <2>3. ReportInv'
    BY DEF ReportInv, Honest, Log!Put
  <2>4. ModeInv'
    BY DEF ModeInv, Log!KeepsNames
  <2>5. QED
    BY <1>1, <2>1, <2>2, <2>3, <2>4
<1>4. CASE Log!Keep(t)
  <2> USE <1>4 DEF Log!Keep, Log!Goes, Log!tables
  <2>1. LogTyped'
    BY DEF Log!Nothing, LogPlaces
  <2>2. Fewer /\ logQueries' = logQueries
    BY DEF Uncounted, CountOf, ToBeCounted
  <2>3. ReportInv' /\ ModeInv'
    BY DEF ReportInv, ModeInv, Honest, Log!KeepsNames
  <2>4. QED
    BY <1>1, <2>1, <2>2, <2>3
<1>5. CASE Log!WriteLine(t)
  <2> USE <1>5 DEF Log!WriteLine, Log!Goes, Log!tables
  <2>1. LogTyped'
    BY DEF Log!Nothing, LogPlaces
  <2>2. Fewer /\ logQueries' = logQueries
    BY DEF Uncounted, CountOf, ToBeCounted
  <2>3. ReportInv' /\ ModeInv'
    BY DEF ReportInv, ModeInv, Honest, Log!KeepsNames
  <2>4. QED
    BY <1>1, <2>1, <2>2, <2>3
<1>6. QED
  BY <1>2, <1>3, <1>4, <1>5

LEMMA LogStep ==
  ASSUME LogInv, [Log!Next]_logVars
  PROVE  LogInv'
<1>1. ASSUME UNCHANGED <<logMode, logPc, logEvent, logCounts, logReportable, logRing,
                         logFile, logQueries>>
      PROVE  LogInv'
  BY <1>1 DEF LogInv, LogTyped, CountInv, CountOf, Uncounted, ReportInv, Honest, ModeInv, Log!KeepsNames
<1>2. CASE Log!Flush
  BY <1>2 DEF Log!Flush, Log!tables, LogInv, LogTyped, CountInv, CountOf, Uncounted, ReportInv,
              Honest, ModeInv, Log!KeepsNames
<1>3. CASE Log!Recent
  BY <1>3 DEF Log!Recent, Log!tables, LogInv, LogTyped, CountInv, CountOf, Uncounted, ReportInv,
              Honest, ModeInv, Log!KeepsNames
<1>4. CASE Log!Tick \/ Log!TopReport \/ Log!TopRest \/ Log!TopDone \/ UNCHANGED logVars
  BY <1>1, <1>4 DEF Log!Tick, Log!TopReport, Log!TopRest, Log!TopDone, logVars,
                    Log!tables, Log!kept, Log!budget
<1>5. ASSUME NEW t \in LogThreads,
             \/ \E n \in LogNames, listened \in BOOLEAN : Log!Record(t, n, listened)
             \/ Log!Publish(t)
             \/ Log!CountName(t) \/ Log!KeepNothing(t) \/ Log!Report(t) \/ Log!Keep(t)
             \/ Log!WriteLine(t)
      PROVE  LogInv'
  BY <1>5, PublishStep, RecordStep, CountStep, AfterCount
<1>6. QED
  BY <1>2, <1>3, <1>4, <1>5 DEF Log!Next

LEMMA LogStarts == Log!Init => LogInv
<1> SUFFICES ASSUME Log!Init PROVE LogInv
  OBVIOUS
<1> USE DEF Log!Init, LogInv
<1>1. LogTyped
  BY DEF LogTyped, LogPlaces, Log!Nothing
<1>2. \A n \in LogNames : Uncounted[n] = {} /\ CountOf[n] = 0
  BY DEF Uncounted, CountOf, ToBeCounted
<1>3. \A n \in LogNames : Cardinality(Uncounted[n]) = 0 /\ CountOf[n] = 0 /\ logQueries[n] = 0
  BY <1>2, FS_EmptySet
<1>4. CountInv
  BY <1>3 DEF CountInv
<1>5. ReportInv /\ ModeInv
  BY DEF ReportInv, ModeInv
<1>6. QED
  BY <1>1, <1>4, <1>5

(* logging/mod.rs:539, ADR-0004: for any tasks, names, threshold and size  *)
(* of the table, and whatever task's count comes to the report last.       *)
THEOREM NamesHidden == Log!Spec => []NamesStayHidden
<1>1. Log!Init => LogInv
  BY LogStarts
<1>2. LogInv => NamesStayHidden
  <2> SUFFICES ASSUME LogInv PROVE Log!NamesStayHidden
    BY DEF NamesStayHidden
  <2>1. ASSUME NEW n \in DOMAIN logReportable
        PROVE  LogK > 0 /\ logQueries[n] >= LogK /\ logReportable[n] \in LogK .. logQueries[n]
    BY <2>1, LogAssumption DEF LogInv, LogTyped, ReportInv, Honest
  <2>2. QED
    BY <2>1 DEF LogInv, ModeInv, Log!KeepsNames, Log!NamesStayHidden
<1>3. LogInv /\ [Log!Next]_(Log!vars) => LogInv'
  BY LogStep DEF Log!vars, logVars, Log!budget, Log!tables, Log!kept
<1>4. QED
  BY <1>1, <1>2, <1>3, PTL DEF Log!Spec

(* A query's way through the stream's three atomics. *)
StreamInv ==
  /\ DOMAIN logPc = LogThreads
  /\ DOMAIN logStream = {"window", "sent", "skipped"}
  /\ logOffered \in Int /\ logTold \in Int /\ logStream.skipped \in Int
  /\ Log!SkippedAreTold

LEMMA SameSize ==
  \A S : Log!Cardinality(S) = Cardinality(S)
BY DEF Log!Cardinality, Cardinality

LEMMA StreamStep ==
  ASSUME StreamInv, [Log!Next]_logVars
  PROVE  StreamInv'
<1> DEFINE Flight == Log!UnderWay
<1>a. IsFiniteSet(Flight) /\ Cardinality(Flight) \in Nat
  BY LogAssumption, FS_Subset, FS_CardinalityType DEF Log!UnderWay
<1>b. ASSUME UNCHANGED <<logStream, logOffered, logTold>>, DOMAIN logPc' = LogThreads, Flight' = Flight
      PROVE  StreamInv'
  BY <1>b DEF StreamInv, Log!SkippedAreTold
<1>1. CASE \/ Log!Flush \/ Log!Recent \/ Log!Tick \/ Log!TopReport \/ Log!TopRest \/ Log!TopDone
           \/ UNCHANGED logVars
  BY <1>1, <1>b DEF Log!Flush, Log!Recent, Log!Tick, Log!TopReport, Log!TopRest, Log!TopDone,
                    logVars, Log!budget, Log!UnderWay, StreamInv
<1>2. ASSUME NEW t \in LogThreads,
             \/ \E n \in LogNames, listened \in BOOLEAN : Log!Record(t, n, listened)
             \/ Log!CountName(t) \/ Log!KeepNothing(t) \/ Log!Report(t) \/ Log!Keep(t)
             \/ Log!WriteLine(t)
      PROVE  StreamInv'
  <2>1. /\ UNCHANGED <<logStream, logOffered, logTold>>
        /\ \E from, to \in {"idle", "second", "counting", "reporting", "keeping", "writing"} :
             logPc[t] = from /\ logPc' = [logPc EXCEPT ![t] = to]
    BY <1>2 DEF Log!Record, Log!CountName, Log!KeepNothing, Log!Report, Log!Keep, Log!WriteLine,
                Log!Goes, Log!budget
  <2>2. QED
    BY <1>b, <2>1 DEF Log!UnderWay, StreamInv
<1>3. ASSUME NEW t \in LogThreads, Log!ReadSecond(t)
      PROVE  StreamInv'
  <2>1. /\ UNCHANGED <<logStream, logTold>> /\ logOffered' = logOffered + 1
        /\ DOMAIN logPc' = LogThreads
        /\ t \notin Flight /\ Flight' = Flight \cup {t}
    BY <1>3 DEF Log!ReadSecond, Log!Goes, Log!UnderWay, StreamInv
  <2>2. Cardinality(Flight') = Cardinality(Flight) + 1
    BY <1>a, <2>1, FS_AddElement
  <2>3. QED
    BY <1>a, <2>1, <2>2, SameSize DEF StreamInv, Log!SkippedAreTold
<1>4. ASSUME NEW t \in LogThreads, Log!SwapWindow(t) \/ Log!ResetSent(t) \/ Log!TakeBudget(t)
      PROVE  StreamInv'
  <2>1. /\ UNCHANGED <<logOffered, logTold>> /\ DOMAIN logPc' = LogThreads
        /\ DOMAIN logStream' = {"window", "sent", "skipped"}
        /\ logStream'.skipped = logStream.skipped
        /\ Flight' = Flight
    BY <1>4 DEF Log!SwapWindow, Log!ResetSent, Log!TakeBudget, Log!Goes, Log!UnderWay, StreamInv
  <2>2. QED
    BY <2>1 DEF StreamInv, Log!SkippedAreTold
<1>5. ASSUME NEW t \in LogThreads, Log!Skip(t) \/ Log!Send(t)
      PROVE  StreamInv'
  <2>1. /\ logOffered' = logOffered /\ DOMAIN logPc' = LogThreads
        /\ DOMAIN logStream' = {"window", "sent", "skipped"}
        /\ \/ logTold' = logTold /\ logStream'.skipped = logStream.skipped + 1
           \/ logTold' = logTold + 1 + logStream.skipped /\ logStream'.skipped = 0
        /\ t \in Flight /\ Flight' = Flight \ {t}
    BY <1>5 DEF Log!Skip, Log!Send, Log!Goes, Log!UnderWay, StreamInv
  <2>2. Cardinality(Flight') = Cardinality(Flight) - 1
    BY <1>a, <2>1, FS_RemoveElement
  <2>3. QED
    BY <1>a, <2>1, <2>2, SameSize DEF StreamInv, Log!SkippedAreTold
<1>6. QED
  BY <1>1, <1>2, <1>3, <1>4, <1>5 DEF Log!Next, Log!Publish

LEMMA StreamStarts == Log!Init => StreamInv
<1> SUFFICES ASSUME Log!Init PROVE StreamInv
  OBVIOUS
<1>1. Log!UnderWay = {}
  BY DEF Log!Init, Log!UnderWay
<1>2. Cardinality(Log!UnderWay) = 0
  BY <1>1, FS_EmptySet
<1>3. QED
  BY <1>2, SameSize DEF Log!Init, StreamInv, Log!SkippedAreTold

(***************************************************************************)
(* The shares of a page.  A count that is reported, or about to be, was    *)
(* the name's once, and is not above it now; so what a page names is not   *)
(* more than what had been counted when its total was read.                *)
(***************************************************************************)
Counted(n, count) == n \in DOMAIN logCounts /\ count \in Nat /\ count <= logCounts[n]

PageInv ==
  /\ DOMAIN logPage = {"named", "below", "total", "belowNames"}
  /\ logPage.belowNames \in Nat
  /\ \A e \in logPage.named : Counted(e.name, e.count)
  /\ \A e, d \in logPage.named : e.name = d.name => e = d
  /\ Log!SharesAddUp

ShareInv ==
  /\ logTotal \in Nat
  /\ IsFiniteSet(DOMAIN logCounts)
  /\ SumOf(logCounts, DOMAIN logCounts) <= logTotal
  /\ \A n \in DOMAIN logReportable : Counted(n, logReportable[n])
  /\ \A t \in LogThreads :
       logPc[t] = "reporting" => Counted(logEvent[t].name, logEvent[t].count)
  /\ PageInv

(* What a page names, as a sum. *)
LEMMA NamedIs ==
  ASSUME NEW p, IsFiniteSet(p.named), \A e \in p.named : e.count \in Int
  PROVE  Log!Named(p) = SumOf([e \in p.named |-> e.count], p.named)
<1> DEFINE S == p.named
           f == [e \in S |-> e.count]
           By(it) == it = [s \in SUBSET S |->
                             IF s = {} THEN 0
                             ELSE (CHOOSE e \in s : TRUE).count + it[s \ {CHOOSE e \in s : TRUE}]]
<1>1. Log!Named(p) = (CHOOSE it : By(it))[S]
  BY DEF Log!Named, Log!FoldSet, Log!MapThenFoldSet
<1>2. \A x \in S : f[x] \in Int
  OBVIOUS
<1>3. ASSUME NEW it PROVE By(it) <=> AddsUp(it, f, S)
  <2>1. \A s \in SUBSET S : s # {} => f[Chosen(s)] = (CHOOSE e \in s : TRUE).count
    BY OneLess DEF Chosen
  <2> HIDE DEF f
  <2>2. [s \in SUBSET S |-> IF s = {} THEN 0
                            ELSE (CHOOSE e \in s : TRUE).count + it[s \ {CHOOSE e \in s : TRUE}]]
         = [s \in SUBSET S |-> IF s = {} THEN 0 ELSE f[Chosen(s)] + it[s \ {Chosen(s)}]]
    BY <2>1 DEF Chosen
  <2>3. QED BY <2>2 DEF AddsUp
<1> HIDE DEF f, By
<1>4. PICK it : AddsUp(it, f, S) /\ SumOf(f, S) = it[S]
  BY <1>2, SumIs
<1>5. AddsUp(CHOOSE jt : By(jt), f, S)
  <2>1. By(it)
    BY <1>3, <1>4
  <2>2. By(CHOOSE jt : By(jt))
    BY <2>1
  <2>3. QED BY <1>3, <2>2
<1>6. (CHOOSE jt : By(jt))[S] = it[S]
  BY <1>2, <1>4, <1>5, SumIsOne
<1>7. QED BY <1>1, <1>4, <1>6 DEF f

(* Entries of different names, none above its name's count. *)
LEMMA NamedAtMost ==
  ASSUME NEW S, IsFiniteSet(S), NEW D, IsFiniteSet(D), NEW c, \A n \in D : c[n] \in Nat,
         \A e \in S : e.name \in D /\ e.count \in Nat /\ e.count <= c[e.name],
         \A e, d \in S : e.name = d.name => e = d
  PROVE  SumOf([e \in S |-> e.count], S) <= SumOf(c, D)
<1> DEFINE f == [e \in S |-> e.count]
           NamesOf(s) == {e.name : e \in s}
           Less == {s \in SUBSET S : SumOf(f, s) <= SumOf(c, NamesOf(s))}
<1>1. ASSUME NEW s \in SUBSET S PROVE NamesOf(s) \in SUBSET D /\ IsFiniteSet(NamesOf(s))
  <2>1. NamesOf(s) \in SUBSET D
    OBVIOUS
  <2>2. QED BY <2>1, FS_Subset
<1>2. ASSUME NEW s \in SUBSET S, \A y \in s : s \ {y} \in Less PROVE s \in Less
  <2>0. IsFiniteSet(s) /\ \A x \in s : f[x] \in Int
    BY FS_Subset
  <2>1. CASE s = {}
    <3>1. NamesOf(s) = {}
      BY <2>1
    <3>2. SumOf(f, s) = 0 /\ SumOf(c, NamesOf(s)) = 0
      <4> HIDE DEF f, NamesOf
      <4>1. QED BY <1>1, <2>0, <2>1, <3>1, SumLaws
    <3>3. QED BY <3>2
  <2>2. CASE s # {}
    <3>1. PICK y \in s : TRUE
      BY <2>2
    <3>2. SumOf(f, s) = f[y] + SumOf(f, s \ {y}) /\ IsFiniteSet(s \ {y})
      <4> HIDE DEF f
      <4>1. QED BY <2>0, SumLaws, FS_Subset
    <3>3. y.name \in NamesOf(s) /\ NamesOf(s) \ {y.name} = NamesOf(s \ {y})
      OBVIOUS
    <3>4. f[y] \in Int /\ c[y.name] \in Int /\ f[y] <= c[y.name]
      OBVIOUS
    <3>5. SumOf(f, s \ {y}) <= SumOf(c, NamesOf(s \ {y}))
      BY <1>2, <3>1
    <3>a. \A n \in NamesOf(s) : c[n] \in Int
      BY <1>1
    <3>b. IsFiniteSet(NamesOf(s)) /\ IsFiniteSet(NamesOf(s \ {y}))
      BY <1>1
    <3>c. \A n \in NamesOf(s \ {y}) : c[n] \in Int
      BY <3>a
    <3> HIDE DEF f, NamesOf
    <3>6. SumOf(c, NamesOf(s)) = c[y.name] + SumOf(c, NamesOf(s) \ {y.name})
      BY <3>3, <3>a, <3>b, SumLaws
    <3>7. SumOf(c, NamesOf(s \ {y})) \in Int /\ SumOf(f, s \ {y}) \in Int
      BY <2>0, <3>2, <3>b, <3>c, SumLaws
    <3>8. SumOf(c, NamesOf(s) \ {y.name}) = SumOf(c, NamesOf(s \ {y}))
      BY <3>3
    <3>9. QED BY <3>2, <3>4, <3>5, <3>6, <3>7, <3>8
  <2>3. QED BY <2>1, <2>2
<1>3. SUBSET S \subseteq Less
  <2> HIDE DEF Less
  <2>1. QED BY <1>2, BySize
<1>4. SumOf(f, S) <= SumOf(c, NamesOf(S))
  BY <1>3
<1>5. SumOf(c, NamesOf(S)) <= SumOf(c, D)
  <2>1. NamesOf(S) \in SUBSET D
    BY <1>1
  <2> HIDE DEF NamesOf
  <2>2. QED BY <2>1, SumOfPart
<1>6. SumOf(f, S) \in Int /\ SumOf(c, NamesOf(S)) \in Int /\ SumOf(c, D) \in Int
  <2>1. (\A x \in S : f[x] \in Int) /\ (\A n \in NamesOf(S) : c[n] \in Int) /\ (\A n \in D : c[n] \in Int)
    OBVIOUS
  <2>2. IsFiniteSet(NamesOf(S))
    BY <1>1
  <2> HIDE DEF f, NamesOf
  <2>3. QED BY <2>1, <2>2, SumLaws
<1> HIDE DEF NamesOf
<1>7. SumOf(f, S) <= SumOf(c, D)
  <2> HIDE DEF f
  <2>1. QED BY <1>4, <1>5, <1>6
<1>8. QED BY <1>7

(* There are no more of them than names are counted. *)
LEMMA NamedAreFew ==
  ASSUME PageInv, IsFiniteSet(DOMAIN logCounts)
  PROVE  /\ IsFiniteSet(logPage.named)
         /\ Cardinality(logPage.named) <= Cardinality(DOMAIN logCounts)
<1> DEFINE named == [e \in logPage.named |-> e.name]
<1>1. named \in Injection(logPage.named, DOMAIN logCounts)
  BY DEF Injection, IsInjective, PageInv, Counted
<1>2. QED BY <1>1, FS_Injection

LEMMA SumsStay ==
  ASSUME UNCHANGED <<logCounts, logPage>>
  PROVE  /\ SumOf(logCounts, DOMAIN logCounts)' = SumOf(logCounts, DOMAIN logCounts)
         /\ Log!SharesAddUp' <=> Log!SharesAddUp
<1>1. SumOf(logCounts, DOMAIN logCounts)' = SumOf(logCounts, DOMAIN logCounts)
  BY DEF SumOf, AddsUp, Chosen
<1>2. Log!SharesAddUp' <=> Log!SharesAddUp
  BY DEF Log!SharesAddUp, Log!Named, Log!FoldSet, Log!MapThenFoldSet, Log!Cardinality
<1>3. QED BY <1>1, <1>2

(* Steps that count nothing and show nothing. *)
LEMMA ShareStays ==
  ASSUME ShareInv, UNCHANGED <<logTotal, logCounts, logReportable, logPage>>,
         \A t \in LogThreads :
           logPc'[t] = "reporting" => logPc[t] = "reporting" /\ logEvent'[t] = logEvent[t]
  PROVE  ShareInv'
BY SumsStay DEF ShareInv, PageInv, Counted

LEMMA TopStep ==
  ASSUME LogInv, ShareInv, Log!TopReport \/ Log!TopRest \/ Log!TopDone
  PROVE  ShareInv'
<1>1. /\ UNCHANGED <<logPc, logEvent, logTotal, logCounts, logReportable>>
      /\ SumOf(logCounts, DOMAIN logCounts)' = SumOf(logCounts, DOMAIN logCounts)
  BY DEF Log!TopReport, Log!TopRest, Log!TopDone, Log!tables, SumOf, AddsUp, Chosen
<1>2. ASSUME PageInv' PROVE ShareInv'
  BY <1>1, <1>2 DEF ShareInv, Counted
<1>3. CASE Log!TopReport
  <2>1. /\ logPage'.named = {[name |-> n, count |-> logReportable[n]] : n \in DOMAIN logReportable}
        /\ logPage'.total = -1 /\ logPage'.belowNames = 0 /\ DOMAIN logPage' = {"named", "below", "total", "belowNames"}
    BY <1>3 DEF Log!TopReport, Log!NoPage
  <2>2. \A e \in logPage'.named : Counted(e.name, e.count)'
    BY <1>1, <2>1 DEF ShareInv, Counted
  <2>3. \A e, d \in logPage'.named : e.name = d.name => e = d
    BY <2>1
  <2>4. Log!SharesAddUp'
    BY <2>1 DEF Log!SharesAddUp
  <2>5. QED BY <1>2, <2>1, <2>2, <2>3, <2>4 DEF PageInv
<1>4. CASE Log!TopDone
  <2>1. logPage' = Log!NoPage
    BY <1>4 DEF Log!TopDone
  <2>2. QED BY <1>2, <2>1 DEF PageInv, Log!NoPage, Log!SharesAddUp
<1>5. CASE Log!TopRest
  <2> DEFINE S == logPage.named
             D == DOMAIN logCounts
             f == [e \in S |-> e.count]
  <2>1. /\ logPage' = [logPage EXCEPT !.total = logTotal,
                         !.below = Log!Difference(logTotal, Log!Named(logPage)),
                         !.belowNames = Log!Difference(Log!Cardinality(D), Log!Cardinality(S))]
    BY <1>5 DEF Log!TopRest
  <2>2. /\ logPage'.named = S /\ logPage'.total = logTotal
        /\ logPage'.below = Log!Difference(logTotal, Log!Named(logPage))
        /\ logPage'.belowNames = Log!Difference(Log!Cardinality(D), Log!Cardinality(S))
        /\ DOMAIN logPage' = {"named", "below", "total", "belowNames"}
    BY <2>1 DEF ShareInv, PageInv
  <2>3. /\ \A e \in S : e.name \in D /\ e.count \in Nat /\ e.count <= logCounts[e.name]
        /\ \A e, d \in S : e.name = d.name => e = d
        /\ \A n \in D : logCounts[n] \in Nat
        /\ IsFiniteSet(D)
    BY DEF ShareInv, PageInv, Counted, LogInv, LogTyped
  <2> HIDE DEF S, D
  <2>4. IsFiniteSet(S) /\ Cardinality(S) <= Cardinality(D)
    BY NamedAreFew DEF ShareInv, S, D
  <2>5. SumOf(f, S) <= SumOf(logCounts, D)
    BY <2>3, <2>4, NamedAtMost
  <2>6. Log!Named(logPage) = SumOf(f, S)
    BY <2>3, <2>4, NamedIs DEF S
  <2>7. SumOf(f, S) \in Int /\ SumOf(logCounts, D) \in Int
    <3>1. (\A e \in S : f[e] \in Int) /\ \A n \in D : logCounts[n] \in Int
      BY <2>3
    <3> HIDE DEF f
    <3>2. QED BY <2>3, <2>4, <3>1, SumLaws
  <2>8. SumOf(logCounts, D) <= logTotal /\ logTotal \in Nat
    BY DEF ShareInv, D
  <2> HIDE DEF f
  <2>9. Log!Named(logPage) + logPage'.below = logTotal
    BY <2>2, <2>5, <2>6, <2>7, <2>8 DEF Log!Difference
  <2>10. Cardinality(S) + logPage'.belowNames <= Cardinality(D)
    <3>1. Cardinality(S) \in Nat /\ Cardinality(D) \in Nat
      BY <2>3, <2>4, FS_CardinalityType
    <3>2. logPage'.belowNames = Log!Difference(Cardinality(D), Cardinality(S))
      BY <2>2, SameSize
    <3>3. QED BY <2>4, <3>1, <3>2 DEF Log!Difference
  <2>11. Log!Named(logPage)' = Log!Named(logPage)
    BY <2>2 DEF Log!Named, Log!FoldSet, Log!MapThenFoldSet, S
  <2>12. Log!SharesAddUp'
    <3>1. Log!Cardinality(logPage.named)' = Cardinality(S) /\ Log!Cardinality(DOMAIN logCounts)' = Cardinality(D)
      BY <1>1, <2>2 DEF D, Log!Cardinality, Cardinality
    <3>2. QED BY <2>2, <2>9, <2>10, <2>11, <3>1 DEF Log!SharesAddUp
  <2>13. \A e \in logPage'.named : Counted(e.name, e.count)'
    BY <1>1, <2>2, <2>3 DEF Counted, D
  <2>14. \A e, d \in logPage'.named : e.name = d.name => e = d
    BY <2>2, <2>3
  <2>15. logPage'.belowNames \in Nat
    <3>1. Cardinality(S) \in Nat /\ Cardinality(D) \in Nat
      BY <2>3, <2>4, FS_CardinalityType
    <3>2. QED BY <2>2, <3>1, SameSize DEF Log!Difference
  <2>16. QED BY <1>2, <2>2, <2>12, <2>13, <2>14, <2>15 DEF PageInv
<1>6. QED BY <1>3, <1>4, <1>5

(* A count more: one more query, whether its name has room or not. *)
LEMMA CountedStep ==
  ASSUME LogInv, ShareInv, NEW t \in LogThreads, Log!CountName(t)
  PROVE  ShareInv'
<1> DEFINE name == logEvent[t].name
           count == Log!Added(name)
           D == DOMAIN logCounts
           g == Log!Put(logCounts, name, count)
<1>1. /\ logTotal' = logTotal + 1
      /\ logCounts' = IF count = 0 THEN logCounts ELSE g
      /\ UNCHANGED <<logReportable, logPage>>
      /\ \A u \in LogThreads : u # t => logPc'[u] = logPc[u] /\ logEvent'[u] = logEvent[u]
      /\ logPc'[t] = "reporting" =>
           LogK > 0 /\ count >= LogK /\ logEvent'[t].name = name /\ logEvent'[t].count = count
  BY DEF Log!CountName, Log!Goes, Log!Nothing, LogInv, LogTyped
<1>2. /\ name \in D => count = logCounts[name] + 1
      /\ name \notin D => count \in {0, 1}
  BY DEF Log!Added
<1>3. /\ logTotal \in Nat /\ IsFiniteSet(D)
      /\ \A n \in D : logCounts[n] \in Nat
      /\ SumOf(logCounts, D) <= logTotal /\ SumOf(logCounts, D) \in Int
  <2>1. logTotal \in Nat /\ IsFiniteSet(D) /\ SumOf(logCounts, D) <= logTotal
    BY DEF ShareInv
  <2>2. \A n \in D : logCounts[n] \in Nat
    BY DEF LogInv, LogTyped
  <2> HIDE DEF D
  <2>3. QED BY <2>1, <2>2, SumLaws
<1>4. /\ DOMAIN g = D \cup {name} /\ g[name] = count
      /\ \A n \in D \ {name} : g[n] = logCounts[n]
  BY DEF Log!Put
<1> HIDE DEF g, D, count
<1>5. ASSUME count # 0
      PROVE  SumOf(g, D \cup {name}) = SumOf(logCounts, D) + 1
  <2>0. IsFiniteSet(D \cup {name}) /\ \A n \in D \cup {name} : g[n] \in Int
    <3>1. \A n \in D \cup {name} : g[n] \in Int
      BY <1>2, <1>3, <1>4
    <3>2. QED BY <1>3, <3>1, FS_AddElement
  <2>1. CASE name \in D
    <3>1. SumOf(g, D) = SumOf(logCounts, D) + g[name] - logCounts[name]
      <4>1. \A n \in D : logCounts[n] \in Int
        BY <1>3
      <4>2. g[name] \in Int /\ \A n \in D \ {name} : g[n] = logCounts[n]
        BY <1>4, <2>0
      <4>3. IsFiniteSet(D)
        BY <1>3
      <4> HIDE DEF name
      <4>4. QED BY <2>1, <4>1, <4>2, <4>3, SumChanges
    <3>2. SumOf(g, D \cup {name}) = SumOf(g, D)
      <4>1. D \cup {name} = D
        BY <2>1
      <4>2. QED BY <4>1
    <3>3. g[name] = logCounts[name] + 1 /\ logCounts[name] \in Int
      BY <1>2, <1>3, <1>4, <2>1
    <3>4. QED BY <1>3, <3>1, <3>2, <3>3
  <2>2. CASE name \notin D
    <3> HIDE DEF name
    <3>1. SumOf(g, D \cup {name}) = g[name] + SumOf(g, (D \cup {name}) \ {name})
      BY <2>0, SumLaws
    <3>2. SumOf(g, (D \cup {name}) \ {name}) = SumOf(g, D)
      <4>1. (D \cup {name}) \ {name} = D
        BY <2>2
      <4>2. QED BY <4>1
    <3>3. SumOf(logCounts, D) = SumOf(g, D)
      <4>1. \A n \in D : logCounts[n] \in Int /\ g[n] = logCounts[n]
        BY <1>3, <1>4, <2>2
      <4>2. QED BY <1>3, <4>1, SumSame
    <3>4. g[name] = 1
      BY <1>2, <1>4, <1>5, <2>2
    <3>5. QED BY <1>3, <3>1, <3>2, <3>3, <3>4
  <2>3. QED BY <2>1, <2>2
<1>6. /\ logTotal' \in Nat
      /\ IsFiniteSet(DOMAIN logCounts')
      /\ SumOf(logCounts, DOMAIN logCounts)' <= logTotal'
      /\ D \subseteq DOMAIN logCounts'
      /\ \A n \in D : logCounts[n] <= logCounts'[n]
      /\ count # 0 => name \in DOMAIN logCounts' /\ count = logCounts'[name]
  <2>1. CASE count = 0
    <3>1. logCounts' = logCounts
      BY <1>1, <2>1
    <3>2. SumOf(logCounts, DOMAIN logCounts)' = SumOf(logCounts, D)
      BY <3>1 DEF D, SumOf, AddsUp, Chosen
    <3>3. QED BY <1>1, <1>3, <2>1, <3>1, <3>2 DEF D
  <2>2. CASE count # 0
    <3>1. logCounts' = g /\ DOMAIN logCounts' = D \cup {name}
      BY <1>1, <1>4, <2>2
    <3>2. SumOf(logCounts, DOMAIN logCounts)' = SumOf(g, D \cup {name})
      BY <3>1 DEF SumOf, AddsUp, Chosen
    <3>3. IsFiniteSet(D \cup {name})
      BY <1>3, FS_AddElement
    <3>4. \A n \in D : logCounts[n] <= g[n]
      BY <1>2, <1>3, <1>4
    <3>5. logTotal' \in Nat /\ SumOf(logCounts, DOMAIN logCounts)' <= logTotal'
      BY <1>1, <1>3, <1>5, <2>2, <3>2
    <3>6. QED BY <1>4, <3>1, <3>3, <3>4, <3>5
  <2>3. QED BY <2>1, <2>2
<1>7. \A n, c : Counted(n, c) => Counted(n, c)'
  <2>1. SUFFICES ASSUME NEW n, NEW c, Counted(n, c)
                 PROVE  n \in DOMAIN logCounts' /\ c <= logCounts'[n]
    BY DEF Counted
  <2>2. n \in D /\ c \in Nat /\ c <= logCounts[n] /\ logCounts[n] \in Nat
    BY <1>3, <2>1 DEF Counted, D
  <2>3. logCounts'[n] \in Int
    <3>1. CASE count = 0
      BY <1>1, <2>2, <3>1
    <3>2. CASE count # 0
      <4>1. logCounts'[n] = g[n]
        BY <1>1, <3>2
      <4>2. QED BY <1>2, <1>4, <2>2, <4>1
    <3>3. QED BY <3>1, <3>2
  <2>4. QED BY <1>6, <2>2, <2>3
<1>8. \A n \in DOMAIN logReportable' : Counted(n, logReportable[n])'
  BY <1>1, <1>7 DEF ShareInv
<1>9. ASSUME NEW u \in LogThreads, logPc'[u] = "reporting"
      PROVE  Counted(logEvent[u].name, logEvent[u].count)'
  <2>1. CASE u = t
    <3>1. count # 0 /\ logEvent'[u].name = name /\ logEvent'[u].count = count
      BY <1>1, <1>9, <2>1, LogAssumption
    <3>2. count \in Nat
      BY <1>2, <1>3
    <3>3. QED BY <1>6, <3>1, <3>2 DEF Counted
  <2>2. CASE u # t
    BY <1>1, <1>7, <1>9, <2>2 DEF ShareInv
  <2>3. QED BY <2>1, <2>2
<1>10. PageInv'
  <2>1. \A e \in logPage'.named : Counted(e.name, e.count)'
    BY <1>1, <1>7 DEF ShareInv, PageInv
  <2>2. Cardinality(D) <= Cardinality(DOMAIN logCounts')
        /\ Cardinality(D) \in Nat /\ Cardinality(DOMAIN logCounts') \in Nat
    BY <1>3, <1>6, FS_Subset, FS_CardinalityType
  <2>3. Log!SharesAddUp'
    <3>1. Log!Named(logPage)' = Log!Named(logPage)
      BY <1>1 DEF Log!Named, Log!FoldSet, Log!MapThenFoldSet
    <3>2. /\ Log!Cardinality(DOMAIN logCounts)' = Cardinality(DOMAIN logCounts')
          /\ Log!Cardinality(DOMAIN logCounts) = Cardinality(D)
          /\ Log!Cardinality(logPage.named)' = Cardinality(logPage.named)
          /\ Log!Cardinality(logPage.named) = Cardinality(logPage.named)
      BY <1>1 DEF D, Log!Cardinality, Cardinality
    <3>3. SUFFICES ASSUME logPage'.total > 0
                   PROVE  /\ Log!Named(logPage) + logPage.below = logPage.total
                          /\ Cardinality(logPage.named) + logPage.belowNames
                               <= Cardinality(DOMAIN logCounts')
      BY <1>1, <3>1, <3>2 DEF Log!SharesAddUp
    <3>4. /\ Log!Named(logPage) + logPage.below = logPage.total
          /\ Cardinality(logPage.named) + logPage.belowNames <= Cardinality(D)
      BY <1>1, <3>2, <3>3 DEF ShareInv, PageInv, Log!SharesAddUp
    <3>5. Cardinality(logPage.named) \in Nat /\ logPage.belowNames \in Nat
      BY NamedAreFew, FS_CardinalityType DEF ShareInv, PageInv
    <3>6. QED BY <2>2, <3>4, <3>5
  <2>4. QED BY <1>1, <2>1, <2>3 DEF ShareInv, PageInv
<1>11. QED BY <1>6, <1>8, <1>9, <1>10 DEF ShareInv

LEMMA ReportedStep ==
  ASSUME LogInv, ShareInv, NEW t \in LogThreads, Log!Report(t)
  PROVE  ShareInv'
<1>1. /\ UNCHANGED <<logTotal, logCounts, logPage>>
      /\ logPc[t] = "reporting"
      /\ logReportable' = Log!Put(logReportable, logEvent[t].name, logEvent[t].count)
      /\ \A u \in LogThreads :
           logPc'[u] = "reporting" => logPc[u] = "reporting" /\ logEvent'[u] = logEvent[u]
  BY DEF Log!Report, Log!Goes, Log!kept, LogInv, LogTyped
<1>2. Counted(logEvent[t].name, logEvent[t].count)
  BY <1>1 DEF ShareInv
<1>3. \A n \in DOMAIN logReportable' : Counted(n, logReportable[n])'
  BY <1>1, <1>2 DEF ShareInv, Counted, Log!Put
<1>4. QED BY <1>1, <1>3, SumsStay DEF ShareInv, PageInv, Counted

LEMMA ShareStep ==
  ASSUME LogInv, ShareInv, [Log!Next]_logVars
  PROVE  ShareInv'
<1>1. CASE Log!Tick \/ Log!Flush \/ Log!Recent \/ UNCHANGED logVars
  <2>1. UNCHANGED <<logPc, logEvent, logTotal, logCounts, logReportable, logPage>>
    BY <1>1 DEF Log!Tick, Log!Flush, Log!Recent, logVars, Log!tables
  <2>2. QED BY <2>1, ShareStays
<1>2. CASE Log!TopReport \/ Log!TopRest \/ Log!TopDone
  BY <1>2, TopStep
<1>3. ASSUME NEW t \in LogThreads,
             \/ \E n \in LogNames, listened \in BOOLEAN : Log!Record(t, n, listened)
             \/ Log!Publish(t)
             \/ Log!KeepNothing(t) \/ Log!Keep(t) \/ Log!WriteLine(t)
      PROVE  ShareInv'
  <2>1. /\ UNCHANGED <<logTotal, logCounts, logReportable, logPage>>
        /\ \E from, to \in LogPlaces \ {"reporting"} :
             logPc[t] = from /\ logPc' = [logPc EXCEPT ![t] = to]
        /\ \A u \in LogThreads : u # t => logEvent'[u] = logEvent[u]
    <3>1. ASSUME NEW from \in LogPlaces, NEW to \in LogPlaces \ {"reporting"}, NEW found,
                 from # "reporting", Log!Goes(t, from, to, found)
          PROVE  /\ \E f, g \in LogPlaces \ {"reporting"} :
                      logPc[t] = f /\ logPc' = [logPc EXCEPT ![t] = g]
                 /\ \A u \in LogThreads : u # t => logEvent'[u] = logEvent[u]
      BY <3>1 DEF Log!Goes, LogInv, LogTyped
    <3> USE <1>3, <3>1 DEF Log!tables, LogPlaces
    <3>2. CASE \E n \in LogNames, listened \in BOOLEAN : Log!Record(t, n, listened)
      BY <3>2 DEF Log!Record
    <3>3. CASE Log!ReadSecond(t) \/ Log!ResetSent(t) \/ Log!Skip(t) \/ Log!Send(t)
      BY <3>3 DEF Log!ReadSecond, Log!ResetSent, Log!Skip, Log!Send
    <3>4. CASE Log!SwapWindow(t) \/ Log!TakeBudget(t)
      BY <3>4 DEF Log!SwapWindow, Log!TakeBudget
    <3>5. CASE Log!KeepNothing(t) \/ Log!Keep(t) \/ Log!WriteLine(t)
      BY <3>5 DEF Log!KeepNothing, Log!Keep, Log!WriteLine
    <3>6. QED BY <3>2, <3>3, <3>4, <3>5 DEF Log!Publish
  <2>2. QED BY <2>1, ShareStays DEF LogInv, LogTyped
<1>4. QED
  BY <1>1, <1>2, <1>3, CountedStep, ReportedStep DEF Log!Next

(* logging/mod.rs:391, 308: for any tasks and names, any threshold and size *)
(* of the table, and whatever comes between the two tables that a page is   *)
(* read from: its shares add up, and no query left out of the stream is     *)
(* forgotten.                                                               *)
THEOREM ReportsTrue == Log!Spec => []ReportsAddUp
<1>1. Log!Init => LogInv /\ StreamInv /\ ShareInv
  <2> SUFFICES ASSUME Log!Init PROVE LogInv /\ StreamInv /\ ShareInv
    OBVIOUS
  <2>1. LogInv
    BY LogStarts
  <2>2. StreamInv
    BY StreamStarts
  <2>3. /\ logTotal = 0 /\ logCounts = <<>> /\ logReportable = <<>> /\ logPage = Log!NoPage
        /\ \A t \in LogThreads : logPc[t] = "idle"
    BY DEF Log!Init
  <2>4. DOMAIN logCounts = {} /\ DOMAIN logReportable = {}
    BY <2>3
  <2>5. SumOf(logCounts, DOMAIN logCounts) = 0 /\ IsFiniteSet(DOMAIN logCounts)
    <3>1. SumOf(logCounts, {}) = 0 /\ IsFiniteSet({})
      BY SumLaws, FS_EmptySet
    <3>2. QED BY <2>4, <3>1
  <2>6. PageInv
    BY <2>3 DEF PageInv, Log!NoPage, Log!SharesAddUp
  <2>7. ShareInv
    BY <2>3, <2>4, <2>5, <2>6 DEF ShareInv
  <2>8. QED BY <2>1, <2>2, <2>7
<1>2. LogInv /\ StreamInv /\ ShareInv /\ [Log!Next]_(Log!vars)
        => (LogInv /\ StreamInv /\ ShareInv)'
  BY LogStep, StreamStep, ShareStep DEF Log!vars, logVars, Log!budget, Log!tables, Log!kept
<1>3. StreamInv /\ ShareInv => ReportsAddUp
  BY DEF StreamInv, ShareInv, PageInv, ReportsAddUp
<1>4. QED
  BY <1>1, <1>2, <1>3, PTL DEF Log!Spec

-----------------------------------------------------------------------------
(***************************************************************************)
(* The history.  That the current bucket began less than a bucket's width  *)
(* before the last sample is what keeps the ring and the clock together:   *)
(* as the sampler does not pause for longer than the ring, it is rolled on *)
(* by exactly the buckets that have begun since.                           *)
(***************************************************************************)
DayTimes == 0 .. DayMaxTime
Window(from) == {t \in DayTimes : from <= t /\ t < from + DayWidth}
Shown(b, start, d) ==
  \A i \in 1 .. Len(b) : b[i] = SumOf(d, Window(start - (Len(b) - i) * DayWidth))

DayInv ==
  /\ dayNow \in 0 .. DayMaxTime
  /\ dayCounter \in Int /\ \A c \in dayLast : c \in Int
  /\ dayStarted \in Int /\ daySampled \in Int
  /\ dayStarted <= daySampled /\ daySampled < dayStarted + DayWidth
  /\ daySampled <= dayNow /\ dayNow - daySampled <= DayMaxPause
  /\ dayDeltas \in [DayTimes -> Int]
  /\ \A t \in DayTimes : t > daySampled => dayDeltas[t] = 0
  /\ dayBuckets \in Seq(Int) /\ Len(dayBuckets) \in 1 .. DayBuckets
  /\ Shown(dayBuckets, dayStarted, dayDeltas)

LEMMA WidthGrows ==
  ASSUME NEW a \in Int, NEW b \in Int
  PROVE  /\ a * DayWidth \in Int
         /\ a <= b => a * DayWidth <= b * DayWidth
         /\ (a + b) * DayWidth = a * DayWidth + b * DayWidth
         /\ (a - b) * DayWidth = a * DayWidth - b * DayWidth
BY DayAssumption

LEMMA Quotient ==
  ASSUME NEW a \in Nat
  PROVE  /\ a \div DayWidth \in Nat
         /\ (a \div DayWidth) * DayWidth <= a
         /\ a < (a \div DayWidth) * DayWidth + DayWidth
BY DayAssumption

LEMMA WindowIsFinite ==
  ASSUME NEW from
  PROVE  IsFiniteSet(Window(from)) /\ Window(from) \subseteq DayTimes
<1>1. Window(from) \in SUBSET (0 .. DayMaxTime)
  BY DEF Window, DayTimes
<1>2. IsFiniteSet(0 .. DayMaxTime)
  BY DayAssumption, FS_Interval
<1>3. QED BY <1>1, <1>2, FS_Subset DEF DayTimes

(* The model's sum is the sum. *)
LEMMA SeenIs ==
  ASSUME NEW from
  PROVE  Day!SeenIn(from) = SumOf(dayDeltas, Window(from))
BY DEF Day!SeenIn, Day!MapThenSumSet, Day!MapThenFoldSet, SumOf, AddsUp, Chosen, Window, DayTimes

(* How many buckets the ring is rolled on by. *)
LEMMA StepsTaken ==
  ASSUME DayInv
  PROVE  /\ Day!Steps \in 0 .. DayBuckets
         /\ dayStarted + Day!Steps * DayWidth <= dayNow
         /\ dayNow < dayStarted + Day!Steps * DayWidth + DayWidth
<1> DEFINE a == dayNow - dayStarted
           q == a \div DayWidth
<1>1. a \in Nat
  BY DayAssumption DEF DayInv
<1>2. q \in Nat /\ q * DayWidth <= a /\ a < q * DayWidth + DayWidth /\ q * DayWidth \in Int
  BY <1>1, Quotient, DayAssumption
<1>3. q <= DayBuckets
  <2>1. a < DayBuckets * DayWidth + DayWidth
    BY DayAssumption DEF DayInv
  <2>2. SUFFICES ASSUME DayBuckets + 1 <= q PROVE FALSE
    BY <1>2, DayAssumption
  <2>3. (DayBuckets + 1) * DayWidth <= q * DayWidth
    BY <1>2, <2>2, WidthGrows, DayAssumption
  <2>4. (DayBuckets + 1) * DayWidth = DayBuckets * DayWidth + DayWidth
    BY DayAssumption
  <2>5. QED BY <1>1, <1>2, <2>1, <2>3, <2>4, DayAssumption DEF DayInv
<1> HIDE DEF q
<1>4. Day!Steps = q
  <2>1. Day!Steps = Day!Min({q, DayBuckets})
    BY DEF Day!Steps, q
  <2>2. QED BY <1>2, <1>3, <2>1, DayAssumption DEF Day!Min
<1>5. QED BY <1>1, <1>2, <1>3, <1>4, DayAssumption DEF DayInv

(* Rolling on by s drops the oldest buckets and appends empty ones. *)
LEMMA RolledIs ==
  ASSUME DayInv
  PROVE  /\ Day!Rolled \in Seq(Int) /\ Len(Day!Rolled) \in 1 .. DayBuckets
         /\ Len(Day!Rolled) <= Len(dayBuckets) + Day!Steps
         /\ \A i \in 1 .. Len(Day!Rolled) :
              LET j == i + Len(dayBuckets) + Day!Steps - Len(Day!Rolled)
              IN  Day!Rolled[i] = IF j <= Len(dayBuckets) THEN dayBuckets[j] ELSE 0
<1> DEFINE s == Day!Steps
           zeros == [i \in 1 .. s |-> 0]
           longer == dayBuckets \o zeros
           surplus == IF Len(longer) > DayBuckets THEN Len(longer) - DayBuckets ELSE 0
<1>0. Day!Rolled = SubSeq(longer, surplus + 1, Len(longer))
  BY DEF Day!Rolled
<1>1. s \in Nat
  BY StepsTaken, DayAssumption
<1> HIDE DEF s
<1>2. zeros \in Seq(Int) /\ Len(zeros) = s /\ \A i \in 1 .. s : zeros[i] = 0
  BY <1>1
<1> HIDE DEF zeros
<1>3. dayBuckets \in Seq(Int) /\ Len(dayBuckets) \in 1 .. DayBuckets
  BY DEF DayInv
<1>4. /\ longer \in Seq(Int) /\ Len(longer) = Len(dayBuckets) + s
      /\ \A j \in 1 .. Len(longer) :
           longer[j] = IF j <= Len(dayBuckets) THEN dayBuckets[j] ELSE 0
  <2>1. longer \in Seq(Int) /\ Len(longer) = Len(dayBuckets) + s
    BY <1>1, <1>2, <1>3
  <2>2. ASSUME NEW j \in 1 .. Len(longer)
        PROVE  longer[j] = IF j <= Len(dayBuckets) THEN dayBuckets[j] ELSE 0
    <3>1. longer[j] = IF j <= Len(dayBuckets) THEN dayBuckets[j] ELSE zeros[j - Len(dayBuckets)]
      BY <1>1, <1>2, <1>3, <2>1
    <3>2. j > Len(dayBuckets) => j - Len(dayBuckets) \in 1 .. s
      BY <1>1, <1>3, <2>1
    <3>3. QED BY <1>2, <3>1, <3>2, <1>3, <2>1
  <2>3. QED BY <2>1, <2>2
<1> HIDE DEF longer
<1>5. surplus \in Nat /\ surplus < Len(longer) /\ Len(longer) - surplus \in 1 .. DayBuckets
  BY <1>1, <1>3, <1>4, DayAssumption
<1> HIDE DEF surplus
<1>6. /\ Day!Rolled \in Seq(Int) /\ Len(Day!Rolled) = Len(longer) - surplus
      /\ \A i \in 1 .. Len(Day!Rolled) : Day!Rolled[i] = longer[i + surplus]
  BY <1>0, <1>4, <1>5
<1>7. Len(Day!Rolled) \in 1 .. DayBuckets /\ Len(Day!Rolled) <= Len(dayBuckets) + s
  BY <1>1, <1>3, <1>4, <1>5, <1>6, DayAssumption
<1>8. ASSUME NEW i \in 1 .. Len(Day!Rolled)
      PROVE  LET j == i + Len(dayBuckets) + s - Len(Day!Rolled)
             IN  Day!Rolled[i] = IF j <= Len(dayBuckets) THEN dayBuckets[j] ELSE 0
  <2> DEFINE j == i + Len(dayBuckets) + s - Len(Day!Rolled)
  <2>1. j = i + surplus /\ j \in 1 .. Len(longer)
    <3> DEFINE n == Len(dayBuckets)
               m == Len(Day!Rolled)
               l == Len(longer)
    <3>1. n \in Nat
      BY <1>3
    <3>2. m \in Nat
      BY <1>6
    <3>3. l \in Nat /\ l = n + s
      BY <1>4
    <3>4. m = l - surplus
      BY <1>6
    <3>5. n \in Nat /\ s \in Nat /\ m \in Nat /\ l \in Nat /\ surplus \in Nat
      BY <1>1, <1>5, <3>1, <3>2, <3>3
    <3>6. i \in 1 .. m
      OBVIOUS
    <3> HIDE DEF n, m, l
    <3>7. l = n + s /\ m = l - surplus /\ i \in 1 .. m
      BY <3>3, <3>4, <3>6
    <3>8. i + n + s - m = i + surplus /\ i + surplus \in 1 .. l
      BY <3>5, <3>7
    <3>9. QED BY <3>8 DEF n, m, l
  <2>2. Day!Rolled[i] = longer[j]
    BY <1>6, <2>1
  <2>3. QED BY <1>4, <2>1, <2>2
<1>9. QED BY <1>6, <1>7, <1>8 DEF s

(* The ring that was rolled on still tells the time: the windows of the    *)
(* empty buckets are after the last sample.                                *)
LEMMA RolledShows ==
  ASSUME DayInv
  PROVE  Shown(Day!Rolled, dayStarted + Day!Steps * DayWidth, dayDeltas)
<1> DEFINE s == Day!Steps
           L == Len(dayBuckets)
           n == Len(Day!Rolled)
           start == dayStarted + s * DayWidth
<1>1. /\ s \in Nat /\ L \in 1 .. DayBuckets /\ n \in 1 .. DayBuckets /\ n <= L + s
      /\ dayStarted \in Int /\ daySampled \in Int /\ daySampled < dayStarted + DayWidth
      /\ DayBuckets \in Nat /\ DayWidth \in Nat \ {0} /\ s * DayWidth \in Int
  BY RolledIs, StepsTaken, DayAssumption DEF DayInv
<1> SUFFICES ASSUME NEW i \in 1 .. n
             PROVE  Day!Rolled[i] = SumOf(dayDeltas, Window(start - (n - i) * DayWidth))
  BY DEF Shown
<1> DEFINE j == i + L + s - n
<1>2. Day!Rolled[i] = IF j <= L THEN dayBuckets[j] ELSE 0
  BY RolledIs
<1>3. start - (n - i) * DayWidth = dayStarted - (L - j) * DayWidth
  <2>1. L - j = (n - i) - s
    BY <1>1
  <2>2. n - i \in Int /\ (n - i) * DayWidth \in Int
    BY <1>1, WidthGrows
  <2> HIDE DEF n, j, L, s
  <2>3. ((n - i) - s) * DayWidth = (n - i) * DayWidth - s * DayWidth
    BY <1>1, <2>2, WidthGrows
  <2>4. QED BY <1>1, <2>1, <2>2, <2>3
<1>4. j \in Int /\ j >= 1
  BY <1>1
<1> HIDE DEF s, n, start, j
<1>5. CASE j <= L
  <2>1. dayBuckets[j] = SumOf(dayDeltas, Window(dayStarted - (L - j) * DayWidth))
    BY <1>1, <1>4, <1>5 DEF DayInv, Shown
  <2> HIDE DEF L
  <2>2. QED BY <1>2, <1>3, <1>5, <2>1
<1>6. CASE j > L
  <2> DEFINE from == dayStarted - (L - j) * DayWidth
  <2>1. from \in Int /\ from >= dayStarted + DayWidth
    <3> HIDE DEF L
    <3>1. 1 * DayWidth <= (j - L) * DayWidth
      BY <1>1, <1>4, <1>6, WidthGrows
    <3>2. (L - j) * DayWidth = L * DayWidth - j * DayWidth
      BY <1>1, <1>4, WidthGrows
    <3>3. (j - L) * DayWidth = j * DayWidth - L * DayWidth
      BY <1>1, <1>4, WidthGrows
    <3>4. L * DayWidth \in Int /\ j * DayWidth \in Int
      BY <1>1, <1>4, WidthGrows
    <3>5. 1 * DayWidth = DayWidth
      BY <1>1
    <3>6. QED BY <1>1, <3>1, <3>2, <3>3, <3>4, <3>5
  <2> HIDE DEF from, L
  <2>2. \A t \in Window(from) : dayDeltas[t] = 0
    BY <1>1, <2>1, DayAssumption DEF DayInv, Window, DayTimes
  <2>3. SumOf(dayDeltas, Window(from)) = 0
    BY <2>2, WindowIsFinite, SumOfNought
  <2>4. Window(from) = Window(start - (n - i) * DayWidth)
    BY <1>3 DEF from
  <2>5. Day!Rolled[i] = 0
    BY <1>1, <1>2, <1>4, <1>6
  <2>6. SumOf(dayDeltas, Window(from)) = SumOf(dayDeltas, Window(start - (n - i) * DayWidth))
    BY <2>4
  <2>7. QED BY <2>3, <2>5, <2>6
<1>7. QED BY <1>1, <1>4, <1>5, <1>6

LEMMA DayInit == Day!Init => DayInv
<1> SUFFICES ASSUME Day!Init PROVE DayInv
  OBVIOUS
<1>1. /\ dayNow = 0 /\ dayCounter = 0 /\ dayBuckets = <<0>> /\ dayStarted = 0
      /\ dayLast = {} /\ daySampled = 0 /\ dayDeltas = [t \in 0 .. DayMaxTime |-> 0]
  BY DEF Day!Init
<1>2. dayDeltas \in [DayTimes -> Int] /\ \A t \in DayTimes : dayDeltas[t] = 0
  BY <1>1 DEF DayTimes
<1>3. dayBuckets \in Seq(Int) /\ Len(dayBuckets) = 1 /\ dayBuckets[1] = 0
  BY <1>1
<1>4. Shown(dayBuckets, dayStarted, dayDeltas)
  <2> SUFFICES ASSUME NEW i \in 1 .. Len(dayBuckets)
               PROVE  dayBuckets[i]
                        = SumOf(dayDeltas, Window(dayStarted - (Len(dayBuckets) - i) * DayWidth))
    BY DEF Shown
  <2> DEFINE w == Window(dayStarted - (Len(dayBuckets) - i) * DayWidth)
  <2>1. IsFiniteSet(w) /\ \A t \in w : dayDeltas[t] = 0
    BY <1>2, WindowIsFinite
  <2> HIDE DEF w
  <2>2. SumOf(dayDeltas, w) = 0
    BY <2>1, SumOfNought
  <2>3. dayBuckets[i] = 0
    BY <1>3
  <2>4. QED BY <2>2, <2>3 DEF w
<1>5. QED BY <1>1, <1>2, <1>3, <1>4, DayAssumption DEF DayInv

LEMMA DayObserves ==
  ASSUME DayInv, Day!Observe
  PROVE  DayInv'
<1> DEFINE n == Len(Day!Rolled)
           start == dayStarted + Day!Steps * DayWidth
           from(i) == start - (n - i) * DayWidth
<1>1. /\ dayBuckets' = [Day!Rolled EXCEPT ![n] = @ + Day!Delta]
      /\ dayStarted' = start /\ dayLast' = {dayCounter} /\ daySampled' = dayNow
      /\ dayDeltas' = [dayDeltas EXCEPT ![dayNow] = @ + Day!Delta]
      /\ UNCHANGED <<dayNow, dayCounter>>
  BY DEF Day!Observe
<1>2. /\ Day!Rolled \in Seq(Int) /\ n = Len(Day!Rolled) /\ n \in Nat /\ n >= 1 /\ n <= DayBuckets
      /\ start \in Int /\ start <= dayNow /\ dayNow < start + DayWidth
      /\ dayNow \in DayTimes /\ dayNow \in Int /\ daySampled \in Int /\ daySampled <= dayNow
      /\ dayDeltas \in [DayTimes -> Int]
      /\ DayWidth \in Nat \ {0} /\ DayMaxPause \in Nat
  <2>1. /\ Day!Rolled \in Seq(Int) /\ n = Len(Day!Rolled)
        /\ n \in Nat /\ n >= 1 /\ n <= DayBuckets
    BY RolledIs, DayAssumption
  <2> HIDE DEF n
  <2>2. /\ dayNow \in DayTimes /\ dayNow \in Int /\ dayStarted \in Int
        /\ daySampled \in Int /\ daySampled <= dayNow /\ dayDeltas \in [DayTimes -> Int]
    BY DayAssumption DEF DayInv, DayTimes
  <2>3. Day!Steps * DayWidth \in Int
    BY StepsTaken, WidthGrows, DayAssumption
  <2>4. start \in Int /\ start <= dayNow /\ dayNow < start + DayWidth
    BY <2>2, <2>3, StepsTaken
  <2>5. QED BY <2>1, <2>2, <2>4, DayAssumption
<1>3. Day!Delta \in Int
  <2>1. CASE dayLast = {}
    BY <2>1 DEF Day!Delta
  <2>2. CASE dayLast # {}
    <3>1. (CHOOSE c \in dayLast : TRUE) \in dayLast
      BY <2>2
    <3>2. (CHOOSE c \in dayLast : TRUE) \in Int /\ dayCounter \in Int
      BY <3>1 DEF DayInv
    <3>3. QED BY <2>2, <3>2 DEF Day!Delta
  <2>3. QED BY <2>1, <2>2
<1>4. \A i \in 1 .. n : Day!Rolled[i] = SumOf(dayDeltas, Window(from(i)))
  BY RolledShows DEF Shown
<1> HIDE DEF n, start
<1>5. dayBuckets' \in Seq(Int) /\ Len(dayBuckets') = n
  BY <1>1, <1>2, <1>3
<1>6. /\ dayDeltas' \in [DayTimes -> Int]
      /\ dayDeltas'[dayNow] = dayDeltas[dayNow] + Day!Delta
      /\ \A t \in DayTimes \ {dayNow} : dayDeltas'[t] = dayDeltas[t]
  BY <1>1, <1>2, <1>3
<1>7. ASSUME NEW t \in DayTimes, t > dayNow PROVE dayDeltas'[t] = 0
  <2>1. t > daySampled /\ t # dayNow
    BY <1>2, <1>7, DayAssumption DEF DayTimes
  <2>2. QED BY <1>6, <2>1 DEF DayInv
<1>8. ASSUME NEW i \in 1 .. n
      PROVE  dayBuckets'[i] = SumOf(dayDeltas', Window(from(i)))
  <2> DEFINE w == Window(from(i))
  <2>1. IsFiniteSet(w) /\ w \subseteq DayTimes
    BY WindowIsFinite
  <2>2. Day!Rolled[i] = SumOf(dayDeltas, w) /\ Day!Rolled[i] \in Int
    BY <1>2, <1>4
  <2>3. CASE i = n
    <3>1. from(i) = start
      BY <1>2, <2>3
    <3>2. dayNow \in w
      BY <1>2, <3>1 DEF Window
    <3> HIDE DEF w
    <3>3. \A t \in w : dayDeltas[t] \in Int
      BY <1>2, <2>1
    <3>4. dayDeltas'[dayNow] \in Int
      BY <1>2, <1>3, <1>6
    <3>5. \A t \in w \ {dayNow} : dayDeltas'[t] = dayDeltas[t]
      BY <1>6, <2>1
    <3>6. SumOf(dayDeltas', w) = SumOf(dayDeltas, w) + dayDeltas'[dayNow] - dayDeltas[dayNow]
      BY <2>1, <3>2, <3>3, <3>4, <3>5, SumChanges
    <3>7. dayBuckets'[i] = Day!Rolled[i] + Day!Delta
      BY <1>1, <1>2, <2>3
    <3>8. dayDeltas[dayNow] \in Int
      BY <1>2
    <3>9. dayBuckets'[i] = SumOf(dayDeltas', w)
      BY <1>3, <1>6, <2>2, <3>6, <3>7, <3>8
    <3>10. QED BY <3>9 DEF w
  <2>4. CASE i # n
    <3>1. from(i) \in Int /\ from(i) + DayWidth <= start
      <4>1. 1 <= n - i /\ n - i \in Int
        BY <1>2, <2>4
      <4>2. 1 * DayWidth <= (n - i) * DayWidth /\ (n - i) * DayWidth \in Int
        BY <4>1, WidthGrows
      <4>3. 1 * DayWidth = DayWidth
        BY <1>2
      <4>4. QED BY <1>2, <4>2, <4>3
    <3>2. dayNow \notin w
      BY <1>2, <3>1 DEF Window
    <3> HIDE DEF w
    <3>3. \A t \in w : dayDeltas[t] \in Int /\ dayDeltas'[t] = dayDeltas[t]
      BY <1>2, <1>6, <2>1, <3>2
    <3>4. SumOf(dayDeltas, w) = SumOf(dayDeltas', w)
      BY <2>1, <3>3, SumSame
    <3>5. dayBuckets'[i] = Day!Rolled[i]
      BY <1>1, <1>2, <2>4
    <3>6. dayBuckets'[i] = SumOf(dayDeltas', w)
      BY <2>2, <3>4, <3>5
    <3>7. QED BY <3>6 DEF w
  <2>5. QED BY <2>3, <2>4
<1>9. Shown(dayBuckets', dayStarted', dayDeltas')
  <2>1. \A i \in 1 .. n : dayBuckets'[i] = SumOf(dayDeltas', Window(start - (n - i) * DayWidth))
    BY <1>8
  <2>2. Shown(dayBuckets', start, dayDeltas')
    BY <1>5, <2>1 DEF Shown
  <2>3. QED BY <1>1, <2>2
<1>10. Shown(dayBuckets, dayStarted, dayDeltas)'
  BY <1>9 DEF Shown, Window, DayTimes
<1>11. /\ (dayNow \in 0 .. DayMaxTime)'
       /\ (dayCounter \in Int)' /\ (\A c \in dayLast : c \in Int)'
       /\ (dayStarted \in Int)' /\ (daySampled \in Int)'
       /\ (dayStarted <= daySampled)' /\ (daySampled < dayStarted + DayWidth)'
       /\ (daySampled <= dayNow)' /\ (dayNow - daySampled <= DayMaxPause)'
  BY <1>1, <1>2 DEF DayInv
<1>12. (\A t \in DayTimes : t > daySampled => dayDeltas[t] = 0)'
  BY <1>1, <1>7 DEF DayTimes
<1>13. QED
  BY <1>1, <1>2, <1>5, <1>6, <1>10, <1>11, <1>12 DEF DayInv, DayTimes

LEMMA DayStep == DayInv /\ [Day!Next]_(Day!vars) => DayInv'
<1> SUFFICES ASSUME DayInv, [Day!Next]_(Day!vars) PROVE DayInv'
  OBVIOUS
<1>1. CASE Day!Tick
  <2>1. /\ dayNow < DayMaxTime /\ dayNow - daySampled < DayMaxPause /\ dayNow' = dayNow + 1
        /\ UNCHANGED <<dayCounter, dayBuckets, dayStarted, dayLast, daySampled, dayDeltas>>
    BY <1>1 DEF Day!Tick
  <2>2. Shown(dayBuckets, dayStarted, dayDeltas)'
    BY <2>1 DEF DayInv, Shown, Window, DayTimes
  <2>3. QED BY <2>1, <2>2, DayAssumption DEF DayInv, DayTimes
<1>2. CASE Day!Query
  <2>1. /\ dayCounter' = dayCounter + 1
        /\ UNCHANGED <<dayNow, dayBuckets, dayStarted, dayLast, daySampled, dayDeltas>>
    BY <1>2 DEF Day!Query
  <2>2. Shown(dayBuckets, dayStarted, dayDeltas)'
    BY <2>1 DEF DayInv, Shown, Window, DayTimes
  <2>3. QED BY <2>1, <2>2 DEF DayInv, DayTimes
<1>3. CASE Day!Observe
  BY <1>3, DayObserves
<1>4. CASE UNCHANGED Day!vars
  <2>1. UNCHANGED <<dayNow, dayCounter, dayBuckets, dayStarted, dayLast, daySampled, dayDeltas>>
    BY <1>4 DEF Day!vars
  <2>2. Shown(dayBuckets, dayStarted, dayDeltas)'
    BY <2>1 DEF DayInv, Shown, Window, DayTimes
  <2>3. QED BY <2>1, <2>2 DEF DayInv, DayTimes
<1>5. QED BY <1>1, <1>2, <1>3, <1>4 DEF Day!Next

(* history.rs:148: each bucket shows what was seen in its own stretch of   *)
(* time, for any width and number of buckets and any sampler that does not *)
(* pause for longer than the ring.                                         *)
THEOREM HistoryIsTrue == Day!Spec => []BucketsTellTheTime
<1>1. Day!Init => DayInv
  BY DayInit
<1>2. DayInv /\ [Day!Next]_(Day!vars) => DayInv'
  BY DayStep
<1>3. DayInv => BucketsTellTheTime
  <2> SUFFICES ASSUME DayInv PROVE Day!BucketsTellTheTime
    BY DEF BucketsTellTheTime
  <2>1. ASSUME NEW i \in 1 .. Len(dayBuckets)
        PROVE  dayBuckets[i] = Day!SeenIn(dayStarted - (Len(dayBuckets) - i) * DayWidth)
    BY SeenIs DEF DayInv, Shown
  <2>2. QED BY <2>1 DEF Day!BucketsTellTheTime
<1>4. QED BY <1>1, <1>2, <1>3, PTL DEF Day!Spec

-----------------------------------------------------------------------------
(***************************************************************************)
(* The books.  Between a verdict and the line in the log a question is in  *)
(* one set of books and not yet in the other: what they differ by is what  *)
(* the evaluations that are under way have still to bring, which their     *)
(* traces tell.  What a trace is worth does not depend on the rules.       *)
(***************************************************************************)
Fine(step) == step.step = "Detected" => step.detector \in Rule!Detectors
IsTrail(trace) == \E S : trace \in Seq(S) /\ \A x \in S : Fine(x)
Synthetic(trace) == \E i \in 1 .. Len(trace) : trace[i].step = "Synthesized"
Caused(trace) == \E i \in 1 .. Len(trace) : Rule!ReasonOf(trace[i]) # "other"

Ready == {"root", "granted?", "denied?", "ruled?", "odd?", "pass", "block"}
Places == Ready \cup {"allow", "blocked", "private?", "log"}

Evaluation(e) ==
  /\ DOMAIN e = {"at", "kind", "host", "name", "policy", "trace"}
  /\ e.at \in Places /\ IsTrail(e.trace)
  /\ e.at \in Ready \cup {"allow", "private?"} => ~Synthetic(e.trace)
  /\ e.at = "blocked" => Synthetic(e.trace)
  /\ e.at \in {"block", "blocked"} => Caused(e.trace)
  /\ e.at = "log" /\ Synthetic(e.trace) => Caused(e.trace)
  /\ e.at \in {"private?", "log"} => e.kind = "dns"

(* What an evaluation has brought into the books of the policies, what it  *)
(* has still to be answered with, and what it has found.                   *)
One(condition) == IF condition THEN 1 ELSE 0
Judged(e) == One(e # Rule!Idle /\ e.kind = "dns" /\ e.at \notin Ready)
Stopped(e) == One(e # Rule!Idle /\ e.kind = "dns" /\ Synthetic(e.trace))
Refusing(e) == One(e # Rule!Idle /\ e.kind = "dns" /\ e.at = "blocked")
Finds(e, d) == IF e = Rule!Idle THEN 0 ELSE Rule!OfDetector(e.trace, d)

Judgements(th) == [t \in RuleThreads |-> Judged(th[t])]
Stops(th) == [t \in RuleThreads |-> Stopped(th[t])]
Refusals(th) == [t \in RuleThreads |-> Refusing(th[t])]
Findings(th, d) == [t \in RuleThreads |-> Finds(th[t], d)]
All(f) == SumOf(f, RuleThreads)

Threading(th) ==
  /\ DOMAIN th = RuleThreads
  /\ \A t \in RuleThreads : th[t] = Rule!Idle \/ Evaluation(th[t])

Kept(pol, lg, det, en) ==
  /\ DOMAIN pol = {"passed", "allowed", "blocked"}
  /\ pol.passed \in Int /\ pol.allowed \in Int /\ pol.blocked \in Int
  /\ DOMAIN lg = {"queries", "blocked", "by_reason"}
  /\ lg.queries \in Int /\ lg.blocked \in Int /\ lg.by_reason \in [Rule!Reasons -> Int]
  /\ det \in [Rule!Detectors -> Int]
  /\ DOMAIN en = {"asked", "orders", "question", "answer", "causes", "found"}
  /\ en.question \in Int /\ en.answer \in Int
  /\ en.causes \in [Rule!Reasons -> Int] /\ en.found \in [Rule!Detectors -> Int]

Balanced(th, pol, lg, det, en) ==
  /\ pol.blocked = lg.blocked + All(Stops(th))
  /\ pol.blocked = en.question + en.answer + All(Refusals(th))
  /\ pol.passed + pol.allowed + pol.blocked = lg.queries + en.answer + All(Judgements(th))
  /\ \A d \in Rule!Detectors : det[d] = en.found[d] + All(Findings(th, d))

ByReason(lg, en) ==
  /\ SumOf(lg.by_reason, Rule!Reasons) = lg.blocked /\ lg.by_reason["other"] = 0
  /\ \A r \in Rule!Reasons : lg.by_reason[r] <= en.causes[r]
  /\ \A d \in Rule!Detectors : lg.by_reason[d] <= en.found[d]

Entries(es) == \E E : es \in Seq(E) /\ \A e \in E : e.detector \in Rule!Detectors

BooksInv ==
  /\ Entries(ruleDetectors.names) /\ Entries(ruleDetectors.answers)
  /\ Threading(ruleThread)
  /\ Kept(rulePolicy, ruleLog, ruleDetections, ruleEnds)
  /\ Balanced(ruleThread, rulePolicy, ruleLog, ruleDetections, ruleEnds)
  /\ ByReason(ruleLog, ruleEnds)

(* The model's sum is the sum. *)
LEMMA SumOfReasons ==
  ASSUME NEW f, DOMAIN f = Rule!Reasons
  PROVE  Rule!Sum(f) = SumOf(f, Rule!Reasons)
BY DEF Rule!Sum, Rule!FoldSet, Rule!MapThenFoldSet, SumOf, AddsUp, Chosen

LEMMA ReasonsAreFew == IsFiniteSet(Rule!Reasons) /\ Rule!Detectors \subseteq Rule!Reasons
<1>1. Rule!Reasons = {"blocklist", "regex", "schedule", "temporary_deny", "other",
                      "dga", "tunneling", "rebinding", "typosquat", "nrd"}
  BY DEF Rule!Reasons, Rule!Detectors
<1> DEFINE a == {"dga"}
           b == a \cup {"tunneling"}
           c == b \cup {"rebinding"}
           d == c \cup {"typosquat"}
           e == d \cup {"nrd"}
           f == e \cup {"blocklist"}
           g == f \cup {"regex"}
           h == g \cup {"schedule"}
           k == h \cup {"temporary_deny"}
           l == k \cup {"other"}
<1>2. IsFiniteSet(a)
  BY FS_Singleton
<1> HIDE DEF a
<1>3. IsFiniteSet(b)
  BY <1>2, FS_AddElement
<1> HIDE DEF b
<1>4. IsFiniteSet(c)
  BY <1>3, FS_AddElement
<1> HIDE DEF c
<1>5. IsFiniteSet(d)
  BY <1>4, FS_AddElement
<1> HIDE DEF d
<1>6. IsFiniteSet(e)
  BY <1>5, FS_AddElement
<1> HIDE DEF e
<1>7. IsFiniteSet(f)
  BY <1>6, FS_AddElement
<1> HIDE DEF f
<1>8. IsFiniteSet(g)
  BY <1>7, FS_AddElement
<1> HIDE DEF g
<1>9. IsFiniteSet(h)
  BY <1>8, FS_AddElement
<1> HIDE DEF h
<1>10. IsFiniteSet(k)
  BY <1>9, FS_AddElement
<1> HIDE DEF k
<1>11. IsFiniteSet(l)
  BY <1>10, FS_AddElement
<1>12. Rule!Reasons = l
  BY <1>1 DEF a, b, c, d, e, f, g, h, k
<1>13. QED BY <1>11, <1>12 DEF Rule!Reasons

(* How often a detector is in a trace. *)
At(trace, d) == {i \in 1 .. Len(trace) : trace[i].step = "Detected" /\ trace[i].detector = d}

LEMMA CountIs ==
  ASSUME NEW S, NEW trace \in Seq(S), NEW d
  PROVE  /\ Rule!OfDetector(trace, d) = Cardinality(At(trace, d))
         /\ IsFiniteSet(At(trace, d))
         /\ Cardinality(At(trace, d)) \in Nat
         /\ (\E i \in 1 .. Len(trace) : trace[i].step = "Detected" /\ trace[i].detector = d)
              => Cardinality(At(trace, d)) >= 1
<1>1. DOMAIN trace = 1 .. Len(trace) /\ Len(trace) \in Nat
  OBVIOUS
<1>2. Rule!OfDetector(trace, d) = Cardinality(At(trace, d))
  <2>1. Rule!OfDetector(trace, d) = Rule!Cardinality(At(trace, d))
    BY <1>1 DEF Rule!OfDetector, At
  <2>2. \A T : Rule!Cardinality(T) = Cardinality(T)
    BY DEF Rule!Cardinality, Cardinality
  <2>3. QED BY <2>1, <2>2
<1>3. IsFiniteSet(At(trace, d))
  <2>1. At(trace, d) \in SUBSET (1 .. Len(trace))
    BY DEF At
  <2>2. IsFiniteSet(1 .. Len(trace))
    BY <1>1, FS_Interval
  <2>3. QED BY <2>1, <2>2, FS_Subset
<1>4. Cardinality(At(trace, d)) \in Nat /\ (Cardinality(At(trace, d)) = 0 <=> At(trace, d) = {})
  BY <1>3, FS_CardinalityType, FS_EmptySet
<1>5. (\E i \in 1 .. Len(trace) : trace[i].step = "Detected" /\ trace[i].detector = d)
        => Cardinality(At(trace, d)) >= 1
  BY <1>4 DEF At
<1>6. QED BY <1>2, <1>3, <1>4, <1>5

LEMMA CountIsNumber ==
  ASSUME NEW trace, IsTrail(trace), NEW d
  PROVE  Rule!OfDetector(trace, d) \in Nat
BY CountIs DEF IsTrail

(* A trace that grows: what holds of it, and what it counts. *)
LEMMA TrailGrows ==
  ASSUME NEW a, NEW b, IsTrail(a), IsTrail(b)
  PROVE  /\ IsTrail(a \o b)
         /\ Synthetic(a \o b) <=> Synthetic(a) \/ Synthetic(b)
         /\ Caused(a) \/ Caused(b) => Caused(a \o b)
         /\ \A d : Rule!OfDetector(a \o b, d) = Rule!OfDetector(a, d) + Rule!OfDetector(b, d)
<1>1. PICK S : a \in Seq(S) /\ \A x \in S : Fine(x)
  BY DEF IsTrail
<1>2. PICK T : b \in Seq(T) /\ \A x \in T : Fine(x)
  BY DEF IsTrail
<1> DEFINE U == S \cup T
           c == a \o b
           n == Len(a)
           m == Len(b)
<1>3. a \in Seq(U) /\ b \in Seq(U)
  BY <1>1, <1>2
<1>4. c \in Seq(U) /\ \A x \in U : Fine(x)
  <2>1. c \in Seq(U)
    <3> HIDE DEF U
    <3>1. QED BY <1>3
  <2>2. QED BY <1>1, <1>2, <2>1
<1>5. IsTrail(c)
  BY <1>4 DEF IsTrail
<1> HIDE DEF U
<1>6. /\ n \in Nat /\ m \in Nat /\ Len(c) = n + m
      /\ \A i \in 1 .. n : c[i] = a[i]
      /\ \A i \in 1 .. m : c[n + i] = b[i]
      /\ \A i \in 1 .. n + m : i \in 1 .. n \/ (i - n \in 1 .. m /\ i = n + (i - n))
  BY <1>3
<1> HIDE DEF c, n, m
<1>7. 1 .. n \subseteq 1 .. Len(c) /\ \A i \in 1 .. m : n + i \in 1 .. Len(c)
  BY <1>6
<1>8. Synthetic(c) <=> Synthetic(a) \/ Synthetic(b)
  <2>1. Synthetic(a) => Synthetic(c)
    BY <1>6, <1>7 DEF Synthetic, n
  <2>2. Synthetic(b) => Synthetic(c)
    BY <1>6, <1>7 DEF Synthetic, m
  <2>3. ASSUME Synthetic(c) PROVE Synthetic(a) \/ Synthetic(b)
    <3>1. PICK i \in 1 .. n + m : c[i].step = "Synthesized"
      BY <1>6, <2>3 DEF Synthetic
    <3>2. CASE i \in 1 .. n
      BY <1>6, <3>1, <3>2 DEF Synthetic, n
    <3>3. CASE i - n \in 1 .. m /\ i = n + (i - n)
      BY <1>6, <3>1, <3>3 DEF Synthetic, m
    <3>4. QED BY <1>6, <3>2, <3>3
  <2>4. QED BY <2>1, <2>2, <2>3
<1>9. Caused(a) \/ Caused(b) => Caused(c)
  <2>1. Caused(a) => Caused(c)
    BY <1>6, <1>7 DEF Caused, n
  <2>2. Caused(b) => Caused(c)
    BY <1>6, <1>7 DEF Caused, m
  <2>3. QED BY <2>1, <2>2
<1>10. ASSUME NEW d PROVE Rule!OfDetector(c, d) = Rule!OfDetector(a, d) + Rule!OfDetector(b, d)
  <2> DEFINE A == At(a, d)
             B == At(b, d)
             shifted == {n + i : i \in B}
             f == [i \in B |-> n + i]
  <2>1. At(c, d) = A \cup shifted
    <3>1. ASSUME NEW i \in A PROVE i \in At(c, d)
      BY <1>6, <1>7 DEF At, n
    <3>2. ASSUME NEW i \in shifted PROVE i \in At(c, d)
      <4>1. PICK j \in B : i = n + j
        OBVIOUS
      <4>2. j \in 1 .. m /\ b[j].step = "Detected" /\ b[j].detector = d
        BY DEF At, m
      <4>3. QED BY <1>6, <1>7, <4>1, <4>2 DEF At
    <3>3. ASSUME NEW i \in At(c, d) PROVE i \in A \cup shifted
      <4>1. i \in 1 .. n + m /\ c[i].step = "Detected" /\ c[i].detector = d
        BY <1>6 DEF At
      <4>2. CASE i \in 1 .. n
        BY <1>6, <4>1, <4>2 DEF At, n
      <4>3. CASE i - n \in 1 .. m /\ i = n + (i - n)
        <5>1. c[i] = b[i - n]
          BY <1>6, <4>3
        <5>2. i - n \in B
          BY <4>1, <4>3, <5>1 DEF At, m
        <5>3. QED BY <4>3, <5>2
      <4>4. QED BY <1>6, <4>1, <4>2, <4>3
    <3>4. QED BY <3>1, <3>2, <3>3
  <2>2. A \cap shifted = {}
    <3>1. \A i \in A : i \in Int /\ i <= n
      BY <1>6 DEF At, n
    <3>2. \A i \in B : i \in Int /\ i >= 1
      BY <1>6 DEF At, m
    <3>3. QED BY <1>6, <3>1, <3>2
  <2>3. f \in Bijection(B, shifted)
    <3>1. \A i \in B : i \in Int
      BY DEF At
    <3>2. f \in [B -> shifted] /\ \A i, j \in B : f[i] = f[j] => i = j
      BY <1>6, <3>1
    <3>3. \A i \in shifted : \E j \in B : f[j] = i
      OBVIOUS
    <3> HIDE DEF f, shifted, B
    <3>4. QED BY <3>2, <3>3 DEF Bijection, Injection, Surjection, IsInjective
  <2>4. /\ Rule!OfDetector(a, d) = Cardinality(A) /\ IsFiniteSet(A) /\ Cardinality(A) \in Nat
        /\ Rule!OfDetector(b, d) = Cardinality(B) /\ IsFiniteSet(B) /\ Cardinality(B) \in Nat
        /\ Rule!OfDetector(c, d) = Cardinality(At(c, d))
    BY <1>1, <1>2, <1>4, CountIs
  <2> HIDE DEF f, shifted, B, A
  <2>5. IsFiniteSet(shifted) /\ Cardinality(shifted) = Cardinality(B)
    BY <2>3, <2>4, FS_Bijection DEF ExistsBijection
  <2>6. Cardinality(A \cup shifted) = Cardinality(A) + Cardinality(shifted) - 0
    <3>1. Cardinality(A \cup shifted)
            = Cardinality(A) + Cardinality(shifted) - Cardinality(A \cap shifted)
      BY <2>4, <2>5, FS_Union
    <3>2. Cardinality(A \cap shifted) = 0
      BY <2>2, FS_EmptySet
    <3>3. QED BY <3>1, <3>2
  <2>7. QED BY <2>1, <2>4, <2>5, <2>6
<1>11. QED BY <1>5, <1>8, <1>9, <1>10 DEF c

(* What an evaluation that goes on does to the sums. *)
LEMMA Moves ==
  ASSUME NEW th, NEW other, Threading(th), Threading(other), NEW t \in RuleThreads,
         \A u \in RuleThreads \ {t} : other[u] = th[u]
  PROVE  /\ All(Stops(other)) = All(Stops(th)) + Stopped(other[t]) - Stopped(th[t])
         /\ All(Refusals(other)) = All(Refusals(th)) + Refusing(other[t]) - Refusing(th[t])
         /\ All(Judgements(other)) = All(Judgements(th)) + Judged(other[t]) - Judged(th[t])
         /\ \A d \in Rule!Detectors :
              All(Findings(other, d)) = All(Findings(th, d)) + Finds(other[t], d) - Finds(th[t], d)
         /\ All(Stops(th)) \in Int /\ All(Refusals(th)) \in Int /\ All(Judgements(th)) \in Int
         /\ \A d \in Rule!Detectors : All(Findings(th, d)) \in Int
<1>1. \A condition : One(condition) \in Int
  BY DEF One
<1>2. ASSUME NEW a, NEW b, DOMAIN a = RuleThreads, DOMAIN b = RuleThreads,
             \A u \in RuleThreads : a[u] \in Int /\ b[u] \in Int,
             \A u \in RuleThreads \ {t} : b[u] = a[u]
      PROVE  All(b) = All(a) + b[t] - a[t] /\ All(a) \in Int
  <2>1. All(b) = All(a) + b[t] - a[t]
    BY <1>2, RuleAssumption, SumChanges DEF All
  <2>2. All(a) \in Int
    BY <1>2, RuleAssumption, SumLaws DEF All
  <2>3. QED BY <2>1, <2>2
<1>3. /\ All(Stops(other)) = All(Stops(th)) + Stopped(other[t]) - Stopped(th[t])
      /\ All(Stops(th)) \in Int
  <2>1. \A u \in RuleThreads : Stops(th)[u] \in Int /\ Stops(other)[u] \in Int
    BY <1>1, Zenon DEF Stops, Stopped
  <2>2. \A u \in RuleThreads \ {t} : Stops(other)[u] = Stops(th)[u]
    BY DEF Stops
  <2>3. DOMAIN Stops(th) = RuleThreads /\ DOMAIN Stops(other) = RuleThreads
    BY DEF Stops
  <2>4. Stops(th)[t] = Stopped(th[t]) /\ Stops(other)[t] = Stopped(other[t])
    BY DEF Stops
  <2>5. QED BY <1>2, <2>1, <2>2, <2>3, <2>4
<1>4. /\ All(Refusals(other)) = All(Refusals(th)) + Refusing(other[t]) - Refusing(th[t])
      /\ All(Refusals(th)) \in Int
  <2>1. \A u \in RuleThreads : Refusals(th)[u] \in Int /\ Refusals(other)[u] \in Int
    BY <1>1, Zenon DEF Refusals, Refusing
  <2>2. \A u \in RuleThreads \ {t} : Refusals(other)[u] = Refusals(th)[u]
    BY DEF Refusals
  <2>3. DOMAIN Refusals(th) = RuleThreads /\ DOMAIN Refusals(other) = RuleThreads
    BY DEF Refusals
  <2>4. Refusals(th)[t] = Refusing(th[t]) /\ Refusals(other)[t] = Refusing(other[t])
    BY DEF Refusals
  <2>5. QED BY <1>2, <2>1, <2>2, <2>3, <2>4
<1>5. /\ All(Judgements(other)) = All(Judgements(th)) + Judged(other[t]) - Judged(th[t])
      /\ All(Judgements(th)) \in Int
  <2>1. \A u \in RuleThreads : Judgements(th)[u] \in Int /\ Judgements(other)[u] \in Int
    BY <1>1, Zenon DEF Judgements, Judged
  <2>2. \A u \in RuleThreads \ {t} : Judgements(other)[u] = Judgements(th)[u]
    BY DEF Judgements
  <2>3. DOMAIN Judgements(th) = RuleThreads /\ DOMAIN Judgements(other) = RuleThreads
    BY DEF Judgements
  <2>4. Judgements(th)[t] = Judged(th[t]) /\ Judgements(other)[t] = Judged(other[t])
    BY DEF Judgements
  <2>5. QED BY <1>2, <2>1, <2>2, <2>3, <2>4
<1>6. ASSUME NEW d \in Rule!Detectors
      PROVE  /\ All(Findings(other, d)) = All(Findings(th, d)) + Finds(other[t], d) - Finds(th[t], d)
             /\ All(Findings(th, d)) \in Int
  <2>1. \A u \in RuleThreads : Finds(th[u], d) \in Int /\ Finds(other[u], d) \in Int
    BY CountIsNumber DEF Finds, Threading, Evaluation
  <2>2. \A u \in RuleThreads \ {t} : Findings(other, d)[u] = Findings(th, d)[u]
    BY DEF Findings
  <2>3. DOMAIN Findings(th, d) = RuleThreads /\ DOMAIN Findings(other, d) = RuleThreads
    BY DEF Findings
  <2>4. \A u \in RuleThreads : Findings(th, d)[u] = Finds(th[u], d) /\ Findings(other, d)[u] = Finds(other[u], d)
    BY DEF Findings
  <2>5. QED BY <1>2, <2>1, <2>2, <2>3, <2>4
<1>7. QED BY <1>3, <1>4, <1>5, <1>6

-----------------------------------------------------------------------------
(* What the detectors find is of detectors, and blocks with a reason. *)
Builds(it, es, sc) ==
  it = [n \in 0 .. Len(es) |->
          IF n = 0 THEN <<>>
          ELSE IF \E s \in sc[es[n].detector] : Rule!Accepts(es[n], s)
          THEN Append(it[n - 1], [detector |-> es[n].detector, action |-> es[n].action])
          ELSE it[n - 1]]

LEMMA InspectedIs ==
  ASSUME NEW es, Entries(es), NEW sc
  PROVE  \E F : /\ Rule!Inspected(es, sc) \in Seq(F)
                /\ \A x \in F : x.detector \in Rule!Detectors
<1>1. PICK E : es \in Seq(E) /\ \A e \in E : e.detector \in Rule!Detectors
  BY DEF Entries
<1> DEFINE N == Len(es)
           F == {[detector |-> e.detector, action |-> e.action] : e \in E}
           Body(g, n) == IF n = 0 THEN <<>>
                         ELSE IF \E s \in sc[es[n].detector] : Rule!Accepts(es[n], s)
                         THEN Append(g[n - 1], [detector |-> es[n].detector, action |-> es[n].action])
                         ELSE g[n - 1]
           Upto(n) == \E g \in [0 .. N -> Seq(F)] : \A k \in 0 .. N : k <= n => g[k] = Body(g, k)
           X == {n \in Nat : Upto(n)}
<1>2. N \in Nat
  BY <1>1
<1>3. ASSUME NEW g \in [0 .. N -> Seq(F)], NEW k \in 0 .. N PROVE Body(g, k) \in Seq(F)
  <2>1. CASE k = 0
    BY <2>1
  <2>2. CASE k # 0
    <3>1. k - 1 \in 0 .. N /\ es[k] \in E
      BY <1>1, <1>2, <2>2
    <3>2. g[k - 1] \in Seq(F) /\ [detector |-> es[k].detector, action |-> es[k].action] \in F
      BY <3>1
    <3> HIDE DEF F
    <3>3. Append(g[k - 1], [detector |-> es[k].detector, action |-> es[k].action]) \in Seq(F)
      BY <3>2
    <3>4. QED BY <2>2, <3>2, <3>3
  <2>3. QED BY <2>1, <2>2
<1>4. Upto(0)
  <2> DEFINE g == [k \in 0 .. N |-> <<>>]
  <2>1. g \in [0 .. N -> Seq(F)]
    OBVIOUS
  <2>2. \A k \in 0 .. N : k <= 0 => g[k] = Body(g, k)
    BY <1>2
  <2> HIDE DEF g
  <2>3. QED BY <2>1, <2>2
<1>5. ASSUME NEW n \in Nat, Upto(n) PROVE Upto(n + 1)
  <2>1. PICK g \in [0 .. N -> Seq(F)] : \A k \in 0 .. N : k <= n => g[k] = Body(g, k)
    BY <1>5
  <2> DEFINE h == [k \in 0 .. N |-> Body(g, k)]
  <2>2. h \in [0 .. N -> Seq(F)]
    <3> HIDE DEF Body, F
    <3>1. QED BY <1>3
  <2>3. \A k \in 0 .. N : h[k] = Body(g, k)
    <3> HIDE DEF Body
    <3>1. QED OBVIOUS
  <2> HIDE DEF h
  <2>4. \A k \in 0 .. N : k <= n => h[k] = g[k]
    BY <2>1, <2>3
  <2>5. ASSUME NEW k \in 0 .. N, k <= n + 1 PROVE h[k] = Body(h, k)
    <3>1. CASE k = 0
      BY <2>3, <3>1
    <3>2. CASE k # 0
      <4>1. h[k - 1] = g[k - 1]
        BY <1>2, <2>4, <2>5, <3>2
      <4>2. h[k] = Body(g, k)
        BY <2>3
      <4>3. Body(g, k) = Body(h, k)
        BY <4>1
      <4>4. QED BY <4>2, <4>3
    <3>3. QED BY <3>1, <3>2
  <2> HIDE DEF Body, F
  <2>6. QED BY <2>2, <2>5
<1>6. Nat \subseteq X
  <2> HIDE DEF Upto
  <2>1. 0 \in X /\ \A n \in Nat : n \in X => n + 1 \in X
    BY <1>4, <1>5
  <2> HIDE DEF X
  <2>2. QED BY <2>1, Inductive
<1>7. Upto(N)
  BY <1>2, <1>6
<1>8. PICK g \in [0 .. N -> Seq(F)] : \A k \in 0 .. N : k <= N => g[k] = Body(g, k)
  BY <1>7
<1>9. Builds(g, es, sc)
  <2>0. \A k \in 0 .. N : k <= N
    BY <1>2
  <2>1. \A k \in 0 .. N : g[k] = Body(g, k)
    <3> HIDE DEF Body, N
    <3>1. QED BY <1>8, <2>0
  <2>2. g = [k \in 0 .. N |-> g[k]]
    BY <1>8
  <2>3. g = [k \in 0 .. N |-> Body(g, k)]
    <3> HIDE DEF Body
    <3>1. QED BY <2>1, <2>2
  <2>4. QED BY <2>3 DEF Builds
<1> DEFINE it == CHOOSE jt : Builds(jt, es, sc)
<1>10. Builds(it, es, sc)
  <2>1. \E jt : Builds(jt, es, sc)
    BY <1>9
  <2>2. QED BY <2>1, Zenon
<1>11. Rule!Inspected(es, sc) = it[N]
  BY DEF Rule!Inspected, Builds
<1> HIDE DEF it
<1>12. \A k \in 0 .. N : it[k] = Body(it, k)
  BY <1>10 DEF Builds
<1> DEFINE Y == {n \in Nat : n <= N => it[n] \in Seq(F)}
<1>13. 0 \in Y
  <2>1. it[0] = Body(it, 0)
    <3>1. 0 \in 0 .. N
      BY <1>2
    <3> HIDE DEF Body, N
    <3>2. QED BY <1>12, <3>1
  <2>2. it[0] = <<>>
    BY <2>1
  <2> HIDE DEF F
  <2>3. it[0] \in Seq(F)
    BY <2>2
  <2>4. QED BY <2>3
<1>14. ASSUME NEW n \in Nat, n \in Y PROVE n + 1 \in Y
  <2>1. SUFFICES ASSUME n + 1 <= N PROVE it[n + 1] \in Seq(F)
    BY DEF Y
  <2>2. n + 1 \in 0 .. N /\ it[n] \in Seq(F) /\ es[n + 1] \in E /\ n + 1 # 0 /\ (n + 1) - 1 = n
    BY <1>1, <1>2, <1>14, <2>1
  <2>3. [detector |-> es[n + 1].detector, action |-> es[n + 1].action] \in F
    BY <2>2
  <2>4. it[n + 1] = Body(it, n + 1)
    BY <1>12, <2>2
  <2>5. \/ it[n + 1] = it[n]
        \/ it[n + 1] = Append(it[n], [detector |-> es[n + 1].detector, action |-> es[n + 1].action])
    BY <2>2, <2>4
  <2> DEFINE x == [detector |-> es[n + 1].detector, action |-> es[n + 1].action]
  <2> HIDE DEF F, Body
  <2>6. x \in F
    BY <2>3
  <2> HIDE DEF x
  <2>7. Append(it[n], x) \in Seq(F)
    BY <2>2, <2>6
  <2>8. QED BY <2>2, <2>5, <2>7 DEF x
<1>15. Nat \subseteq Y
  <2> HIDE DEF Y
  <2>1. QED BY <1>13, <1>14, Inductive
<1>16. it[N] \in Seq(F)
  <2> HIDE DEF F
  <2>1. QED BY <1>2, <1>15
<1>17. \A x \in F : x.detector \in Rule!Detectors
  BY <1>1
<1> HIDE DEF F
<1>18. QED BY <1>11, <1>16, <1>17

LEMMA ReasonIs ==
  ASSUME NEW step, Fine(step)
  PROVE  /\ Rule!ReasonOf(step) \in Rule!Reasons
         /\ step.step = "BlocklistHit" \/ step.step = "RegexHit" \/ step.step = "ScheduleHit"
              \/ step.step = "TemporaryDeny" => Rule!ReasonOf(step) # "other"
         /\ step.step = "Detected" /\ step.action = "block" => Rule!ReasonOf(step) # "other"
         /\ Rule!ReasonOf(step) \in Rule!Detectors
              => step.step = "Detected" /\ step.detector = Rule!ReasonOf(step)
BY DEF Rule!ReasonOf, Rule!Reasons, Rule!Detectors, Fine

LEMMA DetectedIs ==
  ASSUME NEW es, Entries(es), NEW sc
  PROVE  /\ IsTrail(Rule!Detected(Rule!Inspected(es, sc)))
         /\ ~Synthetic(Rule!Detected(Rule!Inspected(es, sc)))
         /\ Rule!Blocks(Rule!Inspected(es, sc)) => Caused(Rule!Detected(Rule!Inspected(es, sc)))
<1> DEFINE found == Rule!Inspected(es, sc)
           trace == Rule!Detected(found)
<1>1. PICK F : found \in Seq(F) /\ \A x \in F : x.detector \in Rule!Detectors
  BY InspectedIs
<1> HIDE DEF found
<1> DEFINE G == {[step |-> "Detected", detector |-> x.detector, action |-> x.action] : x \in F}
<1>2. /\ DOMAIN found = 1 .. Len(found) /\ Len(found) \in Nat
      /\ \A i \in 1 .. Len(found) : found[i] \in F
  BY <1>1
<1>3. trace = [i \in 1 .. Len(found) |->
                 [step |-> "Detected", detector |-> found[i].detector, action |-> found[i].action]]
  BY <1>2 DEF Rule!Detected
<1> HIDE DEF trace
<1>4. trace \in [1 .. Len(found) -> G]
  BY <1>2, <1>3
<1>5. \A x \in G : Fine(x) /\ x.step = "Detected"
  BY <1>1 DEF Fine
<1> HIDE DEF G
<1>6. trace \in Seq(G) /\ Len(trace) = Len(found)
  BY <1>2, <1>4
<1>7. IsTrail(trace)
  BY <1>5, <1>6 DEF IsTrail
<1>8. \A i \in 1 .. Len(trace) : trace[i] \in G
  BY <1>6
<1>9. ~Synthetic(trace)
  BY <1>5, <1>8 DEF Synthetic
<1>10. ASSUME Rule!Blocks(found) PROVE Caused(trace)
  <2>1. PICK i \in 1 .. Len(found) : found[i].action = "block"
    BY <1>2, <1>10 DEF Rule!Blocks
  <2>2. trace[i].step = "Detected" /\ trace[i].action = "block" /\ Fine(trace[i])
    BY <1>3, <1>5, <1>6, <1>8, <2>1
  <2>3. QED BY <1>6, <2>2, ReasonIs DEF Caused
<1>11. QED BY <1>7, <1>9, <1>10 DEF found, trace

(* Two detectors that look at names, one that looks at answers. *)
LEMMA EntriesAre ==
  ASSUME NEW c
  PROVE  Entries(Rule!NameDetectors(c)) /\ Entries(Rule!AnswerDetectors(c))
<1>1. Entries(<<>>)
  <2> DEFINE E == {}
             es == <<>>
  <2>1. es \in Seq(E) /\ \A e \in E : e.detector \in Rule!Detectors
    OBVIOUS
  <2> HIDE DEF E, es
  <2>2. Entries(es)
    BY <2>1 DEF Entries
  <2>3. QED BY <2>2 DEF es
<1>2. ASSUME NEW es, Entries(es), NEW d \in Rule!Detectors, NEW a, NEW h
      PROVE  Entries(Rule!With(es, Rule!Configured(d, a, h)))
  <2> DEFINE e == Rule!Configured(d, a, h)
  <2>1. PICK E : es \in Seq(E) /\ \A x \in E : x.detector \in Rule!Detectors
    BY <1>2 DEF Entries
  <2>2. e.detector = d
    BY DEF Rule!Configured
  <2> HIDE DEF e
  <2>3. Append(es, e) \in Seq(E \cup {e})
    BY <2>1
  <2>4. Entries(Append(es, e))
    BY <2>1, <2>2, <2>3 DEF Entries
  <2>5. QED BY <1>2, <2>4 DEF Rule!With, e
<1>3. {"dga", "tunneling", "typosquat", "nrd", "rebinding"} \subseteq Rule!Detectors
  BY DEF Rule!Detectors
<1>4. Entries(Rule!AnswerDetectors(c))
  BY <1>1, <1>2, <1>3 DEF Rule!AnswerDetectors
<1> DEFINE entry(d) == Rule!Configured(d, c[d].action, Rule!Permille(c[d].threshold))
           one == Rule!With(<<>>, entry("dga"))
           always == Rule!With(one, entry("tunneling"))
           guarded == IF c.typosquat.protect = {} THEN always
                      ELSE Rule!With(always, entry("typosquat"))
<1>5. Entries(one)
  BY <1>1, <1>2, <1>3
<1> HIDE DEF one
<1>6. Entries(always)
  BY <1>2, <1>3, <1>5
<1> HIDE DEF always
<1>7. Entries(guarded)
  BY <1>2, <1>3, <1>6
<1>8. Entries(Rule!With(guarded, Rule!Configured("nrd", c.nrd.action, 0)))
  <2> HIDE DEF guarded
  <2>1. QED BY <1>2, <1>3, <1>7
<1>9. Rule!NameDetectors(c) = IF Rule!NrdLoads(c.nrd)
                              THEN Rule!With(guarded, Rule!Configured("nrd", c.nrd.action, 0))
                              ELSE guarded
  BY DEF Rule!NameDetectors, one, always
<1>10. QED BY <1>4, <1>7, <1>8, <1>9

(* A step that is neither synthetic nor of a detector. *)
LEMMA OneStep ==
  ASSUME NEW step, step.step # "Detected"
  PROVE  /\ IsTrail(<<step>>)
         /\ Synthetic(<<step>>) <=> step.step = "Synthesized"
         /\ Caused(<<step>>) <=> Rule!ReasonOf(step) # "other"
         /\ \A d : Rule!OfDetector(<<step>>, d) = 0
<1>1. <<step>> \in Seq({step}) /\ Len(<<step>>) = 1 /\ <<step>>[1] = step
  OBVIOUS
<1>2. IsTrail(<<step>>)
  <2> DEFINE S == {step}
             trace == <<step>>
  <2>1. trace \in Seq(S) /\ \A x \in S : Fine(x)
    BY <1>1 DEF Fine
  <2> HIDE DEF S, trace
  <2>2. IsTrail(trace)
    BY <2>1 DEF IsTrail
  <2>3. QED BY <2>2 DEF trace
<1>3. \A i \in 1 .. Len(<<step>>) : i = 1
  BY <1>1
<1>4. ASSUME NEW d PROVE Rule!OfDetector(<<step>>, d) = 0
  <2>1. At(<<step>>, d) = {}
    BY <1>1, <1>3 DEF At
  <2>2. QED BY <1>1, <2>1, CountIs, FS_EmptySet
<1>5. QED BY <1>1, <1>2, <1>3, <1>4 DEF Synthetic, Caused

LEMMA TwoSteps ==
  ASSUME NEW first, NEW second, first.step \notin {"Detected", "Synthesized"},
         second.step \notin {"Detected", "Synthesized"}
  PROVE  /\ IsTrail(<<first, second>>) /\ ~Synthetic(<<first, second>>)
         /\ \A d : Rule!OfDetector(<<first, second>>, d) = 0
<1> DEFINE S == {first, second}
           trace == <<first, second>>
<1>1. /\ trace \in Seq(S) /\ Len(trace) = 2
      /\ trace[1] = first /\ trace[2] = second
  OBVIOUS
<1>2. \A x \in S : Fine(x)
  BY DEF Fine
<1> HIDE DEF S, trace
<1>3. IsTrail(trace)
  BY <1>1, <1>2 DEF IsTrail
<1>4. \A i \in 1 .. Len(trace) : i = 1 \/ i = 2
  BY <1>1
<1>5. ~Synthetic(trace)
  BY <1>1, <1>4 DEF Synthetic
<1>6. ASSUME NEW d PROVE Rule!OfDetector(trace, d) = 0
  <2>1. At(trace, d) = {}
    BY <1>1, <1>4 DEF At
  <2>2. QED BY <1>1, <2>1, CountIs, FS_EmptySet
<1>7. QED BY <1>3, <1>5, <1>6 DEF trace

LEMMA NoStep ==
  /\ IsTrail(<<>>) /\ ~Synthetic(<<>>) /\ ~Caused(<<>>)
  /\ \A d : Rule!OfDetector(<<>>, d) = 0
<1>1. <<>> \in Seq({}) /\ Len(<<>>) = 0
  OBVIOUS
<1>2. IsTrail(<<>>)
  <2> DEFINE S == {}
             trace == <<>>
  <2>1. trace \in Seq(S) /\ \A x \in S : Fine(x)
    BY <1>1
  <2> HIDE DEF S, trace
  <2>2. IsTrail(trace)
    BY <2>1 DEF IsTrail
  <2>3. QED BY <2>2 DEF trace
<1>3. ASSUME NEW d PROVE Rule!OfDetector(<<>>, d) = 0
  <2>1. At(<<>>, d) = {}
    BY <1>1 DEF At
  <2>2. QED BY <1>1, <2>1, CountIs, FS_EmptySet
<1>4. QED BY <1>1, <1>2, <1>3 DEF Synthetic, Caused

RuleSteps == {"AllowlistHit", "BlocklistHit", "RegexHit", "ScheduleHit"}
IsHit(hit) == hit = <<>> \/ (hit = <<hit[1]>> /\ hit[1].step \in RuleSteps)

LEMMA HitIs ==
  ASSUME NEW policy, NEW name, NEW at
  PROVE  IsHit(Rule!RuleHit(policy, name, at))
<1> DEFINE a == Rule!ListHit(policy.allowlists, name, "AllowlistHit")
           b == Rule!ListHit(policy.blocklists, name, "BlocklistHit")
           c == Rule!RegexHit(policy, name)
           d == Rule!ScheduleHit(policy, at)
           s == a \o b \o c \o d
<1>1. IsHit(a)
  BY DEF Rule!ListHit, Rule!SelectInSeq, IsHit, RuleSteps
<1>2. IsHit(b)
  BY DEF Rule!ListHit, Rule!SelectInSeq, IsHit, RuleSteps
<1>3. IsHit(c)
  BY DEF Rule!RegexHit, Rule!SelectInSeq, IsHit, RuleSteps
<1>4. IsHit(d)
  BY DEF Rule!ScheduleHit, Rule!SelectInSeq, IsHit, RuleSteps
<1>5. Rule!RuleHit(policy, name, at) = IF s = <<>> THEN <<>> ELSE <<s[1]>>
  BY DEF Rule!RuleHit
<1> HIDE DEF a, b, c, d
<1> DEFINE U == {x \in {a[1], b[1], c[1], d[1]} : x.step \in RuleSteps}
<1>6. ASSUME NEW hit, IsHit(hit), hit[1] \in {a[1], b[1], c[1], d[1]} PROVE hit \in Seq(U)
  <2>1. CASE hit = <<>>
    BY <2>1
  <2>2. CASE hit = <<hit[1]>> /\ hit[1] \in U
    <3> HIDE DEF U
    <3> DEFINE x == hit[1]
    <3>1. x \in U /\ hit = <<x>>
      BY <2>2
    <3> HIDE DEF x
    <3>2. QED BY <3>1
  <2>3. QED BY <1>6, <2>1, <2>2 DEF IsHit
<1>7. a \in Seq(U) /\ b \in Seq(U) /\ c \in Seq(U) /\ d \in Seq(U)
  BY <1>1, <1>2, <1>3, <1>4, <1>6
<1>8. s = <<>> \/ s[1] \in U
  <2> HIDE DEF U
  <2>1. s \in Seq(U)
    BY <1>7
  <2> HIDE DEF s
  <2>2. QED BY <2>1
<1>9. CASE s = <<>>
  BY <1>5, <1>9 DEF IsHit
<1>10. CASE s # <<>>
  <2> DEFINE x == s[1]
  <2>1. x.step \in RuleSteps
    BY <1>8, <1>10
  <2> HIDE DEF x
  <2>2. Rule!RuleHit(policy, name, at) = <<x>>
    BY <1>5, <1>10 DEF x
  <2>3. <<x>>[1] = x
    OBVIOUS
  <2>4. QED BY <2>1, <2>2, <2>3 DEF IsHit
<1>11. QED BY <1>9, <1>10

-----------------------------------------------------------------------------
(* There is a last one among places of a trace. *)
LEMMA LastPlace ==
  ASSUME NEW n \in Nat, NEW places, places \subseteq 1 .. n, places # {}
  PROVE  Rule!Max(places) \in places
<1>1. \E m \in places : \A i \in places : m >= i
  <2> DEFINE rest == {n - i : i \in places}
  <2>0. \A i \in places : i \in 1 .. n
    OBVIOUS
  <2>1. rest \subseteq Nat /\ rest # {}
    <3>1. ASSUME NEW r \in rest PROVE r \in Nat
      <4>1. PICK i \in places : r = n - i
        OBVIOUS
      <4>2. QED BY <2>0, <4>1
    <3>2. QED BY <3>1
  <2>2. PICK r \in rest : \A q \in rest : r <= q
    BY <2>1, LeastOfNats
  <2>3. PICK m \in places : r = n - m
    BY <2>2
  <2>4. \A i \in places : n - m <= n - i
    BY <2>2, <2>3
  <2>5. \A i \in places : i \in Int /\ n \in Int
    BY <2>0
  <2>6. QED BY <2>3, <2>4, <2>5
<1>2. QED BY <1>1 DEF Rule!Max

(* The reason the log writes down is one that the trace holds. *)
LEMMA ReasonHolds ==
  ASSUME NEW trace, IsTrail(trace), Caused(trace)
  PROVE  /\ Rule!Reason(trace) \in Rule!Reasons /\ Rule!Reason(trace) # "other"
         /\ Rule!Reason(trace) \in Rule!Causes(trace)
         /\ Rule!Reason(trace) \in Rule!Detectors
              => Rule!OfDetector(trace, Rule!Reason(trace)) >= 1
<1>1. PICK S : trace \in Seq(S) /\ \A x \in S : Fine(x)
  BY DEF IsTrail
<1>2. /\ Len(trace) \in Nat /\ DOMAIN trace = 1 .. Len(trace)
      /\ \A i \in 1 .. Len(trace) : Fine(trace[i])
  BY <1>1
<1> DEFINE places == {i \in DOMAIN trace : Rule!ReasonOf(trace[i]) # "other"}
           n == Len(trace)
<1>3. places \subseteq 1 .. n /\ places # {}
  BY <1>2 DEF Caused
<1> DEFINE m == Rule!Max(places)
<1>5. m \in places
  <2> HIDE DEF places
  <2>1. QED BY <1>2, <1>3, LastPlace
<1>6. Rule!Reason(trace) = Rule!ReasonOf(trace[m])
  <2>1. Rule!LastOf(trace, places) = {trace[m]}
    BY <1>3 DEF Rule!LastOf
  <2> HIDE DEF m
  <2> DEFINE x == trace[m]
  <2>2. Rule!LastOf(trace, places) = {x}
    BY <2>1
  <2> HIDE DEF x
  <2>3. (CHOOSE s \in {x} : TRUE) = x
    OBVIOUS
  <2>4. Rule!Reason(trace) = Rule!ReasonOf(x)
    BY <2>2, <2>3 DEF Rule!Reason
  <2>5. QED BY <2>4 DEF x
<1> HIDE DEF m
<1>7. /\ m \in 1 .. Len(trace) /\ Fine(trace[m]) /\ Rule!ReasonOf(trace[m]) # "other"
  BY <1>2, <1>5
<1>8. Rule!ReasonOf(trace[m]) \in Rule!Reasons
  BY <1>7, ReasonIs
<1>9. Rule!ReasonOf(trace[m]) \in Rule!Causes(trace)
  BY <1>2, <1>7, <1>8 DEF Rule!Causes
<1>10. ASSUME Rule!ReasonOf(trace[m]) \in Rule!Detectors
       PROVE  Rule!OfDetector(trace, Rule!ReasonOf(trace[m])) >= 1
  <2>1. trace[m].step = "Detected" /\ trace[m].detector = Rule!ReasonOf(trace[m])
    BY <1>7, <1>10, ReasonIs
  <2> DEFINE d == Rule!ReasonOf(trace[m])
  <2>2. \E i \in 1 .. Len(trace) : trace[i].step = "Detected" /\ trace[i].detector = d
    BY <1>7, <2>1
  <2> HIDE DEF d
  <2>3. Rule!OfDetector(trace, d) >= 1
    BY <1>1, <2>2, CountIs
  <2>4. QED BY <2>3 DEF d
<1>11. QED BY <1>6, <1>7, <1>8, <1>9, <1>10

(* An evaluation that goes on, and nothing else. *)
Others(th, other, t) ==
  DOMAIN other = RuleThreads /\ \A u \in RuleThreads \ {t} : other[u] = th[u]

Gone(e, f, where, steps) ==
  /\ DOMAIN f = {"at", "kind", "host", "name", "policy", "trace"} /\ f # Rule!Idle
  /\ f.at = where /\ f.kind = e.kind /\ IsTrail(f.trace)
  /\ Synthetic(f.trace) <=> Synthetic(e.trace) \/ Synthetic(steps)
  /\ Caused(e.trace) \/ Caused(steps) => Caused(f.trace)
  /\ \A d : Finds(f, d) = Finds(e, d) + Rule!OfDetector(steps, d)
  /\ \A d : Rule!OfDetector(steps, d) \in Int

LEMMA Goes ==
  ASSUME Threading(ruleThread), NEW t \in RuleThreads, ruleThread[t] # Rule!Idle,
         NEW where, where # "idle", NEW steps, IsTrail(steps), Rule!At(t, where, steps)
  PROVE  /\ Others(ruleThread, ruleThread', t)
         /\ Gone(ruleThread[t], ruleThread'[t], where, steps)
         /\ Evaluation(ruleThread[t])
<1> DEFINE e == ruleThread[t]
           f == ruleThread'[t]
<1>1. DOMAIN ruleThread = RuleThreads /\ Evaluation(e)
  BY DEF Threading
<1>2. DOMAIN e = {"at", "kind", "host", "name", "policy", "trace"} /\ IsTrail(e.trace)
  BY <1>1 DEF Evaluation
<1>3. ruleThread' = [ruleThread EXCEPT ![t].at = where, ![t].trace = @ \o steps]
  BY DEF Rule!At
<1>4. Others(ruleThread, ruleThread', t)
  BY <1>1, <1>3 DEF Others
<1>5. /\ DOMAIN f = {"at", "kind", "host", "name", "policy", "trace"}
      /\ f.at = where /\ f.kind = e.kind /\ f.trace = e.trace \o steps
  BY <1>1, <1>2, <1>3
<1>6. Rule!Idle.at = "idle"
  BY DEF Rule!Idle
<1>7. f # Rule!Idle
  BY <1>5, <1>6
<1> HIDE DEF e, f
<1>8. /\ IsTrail(f.trace)
      /\ Synthetic(f.trace) <=> Synthetic(e.trace) \/ Synthetic(steps)
      /\ Caused(e.trace) \/ Caused(steps) => Caused(f.trace)
      /\ \A d : Rule!OfDetector(f.trace, d)
                 = Rule!OfDetector(e.trace, d) + Rule!OfDetector(steps, d)
  BY <1>2, <1>5, TrailGrows
<1>9. \A d : Finds(f, d) = Finds(e, d) + Rule!OfDetector(steps, d)
  <2>1. e # Rule!Idle
    BY DEF e
  <2>2. QED BY <1>7, <1>8, <2>1 DEF Finds
<1>10. \A d : Rule!OfDetector(steps, d) \in Int
  BY CountIsNumber
<1>11. Gone(e, f, where, steps)
  BY <1>5, <1>7, <1>8, <1>9, <1>10 DEF Gone
<1>12. QED BY <1>1, <1>4, <1>11 DEF e, f

(* The books change as the evaluation does ... *)
Fits(e, f, pol, lg, det, en, pol2, lg2, det2, en2) ==
  /\ pol2.blocked - pol.blocked = (lg2.blocked - lg.blocked) + (Stopped(f) - Stopped(e))
  /\ pol2.blocked - pol.blocked
       = (en2.question - en.question) + (en2.answer - en.answer) + (Refusing(f) - Refusing(e))
  /\ (pol2.passed - pol.passed) + (pol2.allowed - pol.allowed) + (pol2.blocked - pol.blocked)
       = (lg2.queries - lg.queries) + (en2.answer - en.answer) + (Judged(f) - Judged(e))
  /\ \A d \in Rule!Detectors :
       det2[d] - det[d] = (en2.found[d] - en.found[d]) + (Finds(f, d) - Finds(e, d))

(* ... and so stay in balance. *)
LEMMA StaysBalanced ==
  ASSUME NEW th, NEW other, Threading(th), NEW t \in RuleThreads, Others(th, other, t),
         other[t] = Rule!Idle \/ Evaluation(other[t]),
         NEW pol, NEW lg, NEW det, NEW en, Kept(pol, lg, det, en), Balanced(th, pol, lg, det, en),
         NEW pol2, NEW lg2, NEW det2, NEW en2, Kept(pol2, lg2, det2, en2),
         Fits(th[t], other[t], pol, lg, det, en, pol2, lg2, det2, en2)
  PROVE  Threading(other) /\ Balanced(other, pol2, lg2, det2, en2)
<1>1. Threading(other)
  BY DEF Threading, Others
<1>2. /\ All(Stops(other)) = All(Stops(th)) + Stopped(other[t]) - Stopped(th[t])
      /\ All(Refusals(other)) = All(Refusals(th)) + Refusing(other[t]) - Refusing(th[t])
      /\ All(Judgements(other)) = All(Judgements(th)) + Judged(other[t]) - Judged(th[t])
      /\ \A d \in Rule!Detectors :
           All(Findings(other, d)) = All(Findings(th, d)) + Finds(other[t], d) - Finds(th[t], d)
      /\ All(Stops(th)) \in Int /\ All(Refusals(th)) \in Int /\ All(Judgements(th)) \in Int
      /\ \A d \in Rule!Detectors : All(Findings(th, d)) \in Int
  BY <1>1, Moves DEF Others
<1>3. /\ Stopped(other[t]) \in Int /\ Stopped(th[t]) \in Int
      /\ Refusing(other[t]) \in Int /\ Refusing(th[t]) \in Int
      /\ Judged(other[t]) \in Int /\ Judged(th[t]) \in Int
  <2>1. \A condition : One(condition) \in Int
    BY DEF One
  <2>2. QED BY <2>1, Zenon DEF Stopped, Refusing, Judged
<1>4. \A d \in Rule!Detectors : Finds(other[t], d) \in Int /\ Finds(th[t], d) \in Int
  BY <1>1, CountIsNumber DEF Finds, Threading, Evaluation
<1>5. /\ pol.blocked \in Int /\ pol.passed \in Int /\ pol.allowed \in Int
      /\ pol2.blocked \in Int /\ pol2.passed \in Int /\ pol2.allowed \in Int
      /\ lg.queries \in Int /\ lg.blocked \in Int /\ lg2.queries \in Int /\ lg2.blocked \in Int
      /\ en.question \in Int /\ en.answer \in Int /\ en2.question \in Int /\ en2.answer \in Int
  BY DEF Kept
<1>e. \A d \in Rule!Detectors : /\ det[d] \in Int /\ det2[d] \in Int
                                /\ en.found[d] \in Int /\ en2.found[d] \in Int
  BY DEF Kept
<1>6. pol2.blocked = lg2.blocked + All(Stops(other))
  <2> DEFINE p == pol.blocked
             p2 == pol2.blocked
             l == lg.blocked
             l2 == lg2.blocked
             a == All(Stops(th))
             b == All(Stops(other))
             v == Stopped(th[t])
             u == Stopped(other[t])
  <2>1. p \in Int /\ p2 \in Int /\ l \in Int /\ l2 \in Int
    BY <1>5
  <2>2. p2 - p = (l2 - l) + (u - v)
    BY DEF Fits
  <2>3. p = l + a
    BY DEF Balanced
  <2>4. b = a + u - v /\ a \in Int /\ u \in Int /\ v \in Int
    BY <1>2, <1>3
  <2> HIDE DEF p, p2, l, l2, a, b, v, u
  <2>5. p2 = l2 + b
    BY <2>1, <2>2, <2>3, <2>4
  <2>6. QED BY <2>5 DEF p2, l2, b
<1>7. pol2.blocked = en2.question + en2.answer + All(Refusals(other))
  <2> DEFINE p == pol.blocked
             p2 == pol2.blocked
             q == en.question
             q2 == en2.question
             r == en.answer
             r2 == en2.answer
             a == All(Refusals(th))
             b == All(Refusals(other))
             v == Refusing(th[t])
             u == Refusing(other[t])
  <2>1. p \in Int /\ p2 \in Int /\ q \in Int /\ q2 \in Int /\ r \in Int /\ r2 \in Int
    BY <1>5
  <2>2. p2 - p = (q2 - q) + (r2 - r) + (u - v)
    BY DEF Fits
  <2>3. p = q + r + a
    BY DEF Balanced
  <2>4. b = a + u - v /\ a \in Int /\ u \in Int /\ v \in Int
    BY <1>2, <1>3
  <2> HIDE DEF p, p2, q, q2, r, r2, a, b, v, u
  <2>5. p2 = q2 + r2 + b
    BY <2>1, <2>2, <2>3, <2>4
  <2>6. QED BY <2>5 DEF p2, q2, r2, b
<1>8. pol2.passed + pol2.allowed + pol2.blocked
        = lg2.queries + en2.answer + All(Judgements(other))
  <2> DEFINE p == pol.passed
             p2 == pol2.passed
             q == pol.allowed
             q2 == pol2.allowed
             r == pol.blocked
             r2 == pol2.blocked
             l == lg.queries
             l2 == lg2.queries
             k == en.answer
             k2 == en2.answer
             a == All(Judgements(th))
             b == All(Judgements(other))
             v == Judged(th[t])
             u == Judged(other[t])
  <2>1. p \in Int /\ p2 \in Int /\ q \in Int /\ q2 \in Int /\ r \in Int /\ r2 \in Int /\ l \in Int /\ l2 \in Int /\ k \in Int /\ k2 \in Int
    BY <1>5
  <2>2. (p2 - p) + (q2 - q) + (r2 - r) = (l2 - l) + (k2 - k) + (u - v)
    BY DEF Fits
  <2>3. p + q + r = l + k + a
    BY DEF Balanced
  <2>4. b = a + u - v /\ a \in Int /\ u \in Int /\ v \in Int
    BY <1>2, <1>3
  <2> HIDE DEF p, p2, q, q2, r, r2, l, l2, k, k2, a, b, v, u
  <2>5. p2 + q2 + r2 = l2 + k2 + b
    BY <2>1, <2>2, <2>3, <2>4
  <2>6. QED BY <2>5 DEF p2, q2, r2, l2, k2, b
<1>9. ASSUME NEW d \in Rule!Detectors
      PROVE  det2[d] = en2.found[d] + All(Findings(other, d))
  <2>1. /\ All(Findings(other, d)) = All(Findings(th, d)) + Finds(other[t], d) - Finds(th[t], d)
        /\ All(Findings(th, d)) \in Int /\ Finds(other[t], d) \in Int /\ Finds(th[t], d) \in Int
        /\ det[d] \in Int /\ det2[d] \in Int /\ en.found[d] \in Int /\ en2.found[d] \in Int
    BY <1>2, <1>4, <1>e
  <2>2. det[d] = en.found[d] + All(Findings(th, d))
    BY DEF Balanced
  <2>3. det2[d] - det[d]
          = (en2.found[d] - en.found[d]) + (Finds(other[t], d) - Finds(th[t], d))
    BY DEF Fits
  <2>4. QED BY <2>1, <2>2, <2>3
<1>10. QED BY <1>1, <1>6, <1>7, <1>8, <1>9 DEF Balanced

LEMMA BookStep ==
  ASSUME BooksInv, NEW t \in RuleThreads, Others(ruleThread, ruleThread', t),
         ruleThread'[t] = Rule!Idle \/ Evaluation(ruleThread'[t]),
         ruleDetectors' = ruleDetectors,
         Kept(rulePolicy', ruleLog', ruleDetections', ruleEnds'),
         Fits(ruleThread[t], ruleThread'[t], rulePolicy, ruleLog, ruleDetections, ruleEnds,
              rulePolicy', ruleLog', ruleDetections', ruleEnds'),
         ByReason(ruleLog', ruleEnds')
  PROVE  BooksInv'
<1>1. /\ Threading(ruleThread)
      /\ Kept(rulePolicy, ruleLog, ruleDetections, ruleEnds)
      /\ Balanced(ruleThread, rulePolicy, ruleLog, ruleDetections, ruleEnds)
      /\ Entries(ruleDetectors.names) /\ Entries(ruleDetectors.answers)
  BY DEF BooksInv
<1>2. /\ Threading(ruleThread')
      /\ Balanced(ruleThread', rulePolicy', ruleLog', ruleDetections', ruleEnds')
  BY <1>1, StaysBalanced
<1>3. Entries(ruleDetectors.names)' /\ Entries(ruleDetectors.answers)'
  BY <1>1 DEF Entries
<1>4. QED BY <1>2, <1>3 DEF BooksInv

(* A question that is still to be decided, or is let through. *)
LEMMA Forward ==
  ASSUME BooksInv, NEW t \in RuleThreads, ruleThread[t].at \in Ready \ {"block"},
         NEW where \in Ready \cup {"allow"}, NEW steps, IsTrail(steps), ~Synthetic(steps),
         where = "block" => Caused(steps), Rule!At(t, where, steps),
         UNCHANGED <<ruleDetectors, ruleLog, ruleEnds>>,
         ruleDetections' = [d \in Rule!Detectors |->
                              ruleDetections[d] + Rule!OfDetector(steps, d)],
         where # "allow" => rulePolicy' = rulePolicy,
         where = "allow" => \E what \in {"passed", "allowed"} : Rule!Counted(t, what)
  PROVE  BooksInv'
<1> DEFINE e == ruleThread[t]
           f == ruleThread'[t]
<1>1. where # "idle" /\ e # Rule!Idle
  BY DEF Ready, Rule!Idle
<1>2. Others(ruleThread, ruleThread', t) /\ Gone(e, f, where, steps) /\ Evaluation(e)
  BY <1>1, Goes DEF BooksInv
<1>3. ~Synthetic(e.trace) /\ e.at \in Ready /\ where \in Ready \cup {"allow"}
  BY <1>2 DEF Evaluation
<1>4. ~Synthetic(f.trace) /\ f.at = where /\ f.kind = e.kind /\ f # Rule!Idle
  BY <1>2, <1>3 DEF Gone
<1>5. Evaluation(f)
  <2>1. where = "block" => Caused(f.trace)
    BY <1>2 DEF Gone
  <2>2. where \notin {"blocked", "log", "private?"} /\ where \in Places
    BY <1>3 DEF Ready, Places
  <2>3. DOMAIN f = {"at", "kind", "host", "name", "policy", "trace"} /\ IsTrail(f.trace)
    BY <1>2 DEF Gone
  <2> HIDE DEF f
  <2>4. QED BY <1>4, <2>1, <2>2, <2>3 DEF Evaluation
<1>6. Kept(rulePolicy, ruleLog, ruleDetections, ruleEnds)
  BY DEF BooksInv
<1>7. \A d : Rule!OfDetector(steps, d) \in Int
  BY <1>2 DEF Gone
<1>8. /\ DOMAIN rulePolicy' = {"passed", "allowed", "blocked"}
      /\ rulePolicy'.passed \in Int /\ rulePolicy'.allowed \in Int
      /\ rulePolicy'.blocked = rulePolicy.blocked
      /\ rulePolicy'.passed - rulePolicy.passed + (rulePolicy'.allowed - rulePolicy.allowed)
           = One(where = "allow" /\ e.kind = "dns")
  <2>1. /\ DOMAIN rulePolicy = {"passed", "allowed", "blocked"}
        /\ rulePolicy.passed \in Int /\ rulePolicy.allowed \in Int /\ rulePolicy.blocked \in Int
    BY <1>6 DEF Kept
  <2>2. CASE where # "allow"
    BY <2>1, <2>2 DEF One
  <2>3. CASE where = "allow" /\ e.kind # "dns"
    <3>1. rulePolicy' = rulePolicy
      BY <2>3 DEF Rule!Counted, Rule!Counts
    <3>2. QED BY <2>1, <2>3, <3>1 DEF One
  <2>4. CASE where = "allow" /\ e.kind = "dns"
    <3>1. PICK what \in {"passed", "allowed"} : rulePolicy' = [rulePolicy EXCEPT ![what] = @ + 1]
      BY <2>4 DEF Rule!Counted, Rule!Counts
    <3>2. CASE what = "passed"
      BY <2>1, <2>4, <3>1, <3>2 DEF One
    <3>3. CASE what = "allowed"
      BY <2>1, <2>4, <3>1, <3>3 DEF One
    <3>4. QED BY <3>1, <3>2, <3>3
  <2>5. QED BY <2>2, <2>3, <2>4
<1>9. Kept(rulePolicy', ruleLog', ruleDetections', ruleEnds')
  <2>1. ruleDetections' \in [Rule!Detectors -> Int]
    <3>1. \A d \in Rule!Detectors : ruleDetections[d] + Rule!OfDetector(steps, d) \in Int
      BY <1>6, <1>7 DEF Kept
    <3>2. QED BY <3>1
  <2>2. ruleLog' = ruleLog /\ ruleEnds' = ruleEnds /\ rulePolicy'.blocked \in Int
    BY <1>6, <1>8 DEF Kept
  <2>3. QED BY <1>6, <1>8, <2>1, <2>2 DEF Kept
<1>10. Fits(e, f, rulePolicy, ruleLog, ruleDetections, ruleEnds,
            rulePolicy', ruleLog', ruleDetections', ruleEnds')
  <2>1. Stopped(e) = 0 /\ Stopped(f) = 0
    BY <1>3, <1>4 DEF Stopped, One
  <2>2. Refusing(e) = 0 /\ Refusing(f) = 0
    BY <1>3, <1>4 DEF Refusing, One, Ready
  <2>3. Judged(e) = 0 /\ Judged(f) = One(where = "allow" /\ e.kind = "dns")
    BY <1>3, <1>4 DEF Judged, One, Ready
  <2>4. /\ ruleLog' = ruleLog /\ ruleEnds' = ruleEnds
        /\ ruleLog.blocked \in Int /\ ruleLog.queries \in Int /\ rulePolicy.blocked \in Int
        /\ ruleEnds.question \in Int /\ ruleEnds.answer \in Int
        /\ rulePolicy.passed \in Int /\ rulePolicy.allowed \in Int
    BY <1>6 DEF Kept
  <2>5. ASSUME NEW d \in Rule!Detectors
        PROVE  ruleDetections'[d] - ruleDetections[d]
                 = (ruleEnds'.found[d] - ruleEnds.found[d]) + (Finds(f, d) - Finds(e, d))
    <3>1. Finds(f, d) = Finds(e, d) + Rule!OfDetector(steps, d)
      BY <1>2 DEF Gone
    <3>2. Finds(e, d) \in Int
      BY <1>2, CountIsNumber DEF Finds, Evaluation
    <3>3. ruleDetections[d] \in Int /\ ruleEnds.found[d] \in Int
      BY <1>6 DEF Kept
    <3>4. ruleDetections'[d] = ruleDetections[d] + Rule!OfDetector(steps, d)
      OBVIOUS
    <3> HIDE DEF e, f
    <3>5. QED BY <1>7, <2>4, <3>1, <3>2, <3>3, <3>4
  <2> HIDE DEF e, f
  <2>6. One(where = "allow" /\ e.kind = "dns") \in Int
    BY DEF One
  <2>7. /\ rulePolicy'.blocked - rulePolicy.blocked = 0
        /\ ruleLog'.blocked - ruleLog.blocked = 0 /\ ruleLog'.queries - ruleLog.queries = 0
        /\ ruleEnds'.question - ruleEnds.question = 0 /\ ruleEnds'.answer - ruleEnds.answer = 0
    <3>1. \A x \in Int : x - x = 0
      OBVIOUS
    <3>2. rulePolicy'.blocked - rulePolicy.blocked = 0
      BY <1>8, <2>4, <3>1
    <3>3. /\ ruleLog'.blocked = ruleLog.blocked /\ ruleLog'.queries = ruleLog.queries
          /\ ruleEnds'.question = ruleEnds.question /\ ruleEnds'.answer = ruleEnds.answer
      BY <2>4, Zenon
    <3>4. QED BY <2>4, <3>1, <3>2, <3>3
  <2>8. (rulePolicy'.passed - rulePolicy.passed) + (rulePolicy'.allowed - rulePolicy.allowed)
          = One(where = "allow" /\ e.kind = "dns")
    BY <1>8
  <2> HIDE DEF One
  <2>9. QED BY <2>1, <2>2, <2>3, <2>5, <2>6, <2>7, <2>8 DEF Fits
<1>11. ByReason(ruleLog', ruleEnds')
  BY DEF BooksInv
<1>12. QED BY <1>2, <1>5, <1>9, <1>10, <1>11, BookStep

LEMMA NothingFound ==
  ASSUME BooksInv, NEW steps, \A d : Rule!OfDetector(steps, d) = 0,
         ruleDetections' = ruleDetections
  PROVE  ruleDetections' = [d \in Rule!Detectors |->
                              ruleDetections[d] + Rule!OfDetector(steps, d)]
<1>1. ruleDetections \in [Rule!Detectors -> Int]
  BY DEF BooksInv, Kept
<1>2. QED BY <1>1

LEMMA TemporaryStep ==
  ASSUME BooksInv, NEW t \in RuleThreads,
         Rule!PassRoot(t) \/ Rule!CheckGrant(t) \/ Rule!CheckDenial(t) \/ Rule!Pass(t)
  PROVE  BooksInv'
<1> DEFINE allow == <<[step |-> "TemporaryAllow"]>>
           deny == <<[step |-> "TemporaryDeny"]>>
<1>1. /\ IsTrail(<<>>) /\ ~Synthetic(<<>>) /\ \A d : Rule!OfDetector(<<>>, d) = 0
      /\ IsTrail(allow) /\ ~Synthetic(allow) /\ \A d : Rule!OfDetector(allow, d) = 0
      /\ IsTrail(deny) /\ ~Synthetic(deny) /\ \A d : Rule!OfDetector(deny, d) = 0
      /\ Caused(deny)
  <2>1. [step |-> "TemporaryAllow"].step = "TemporaryAllow"
        /\ [step |-> "TemporaryDeny"].step = "TemporaryDeny"
    OBVIOUS
  <2>2. Fine([step |-> "TemporaryDeny"])
    BY DEF Fine
  <2>3. Rule!ReasonOf([step |-> "TemporaryDeny"]) # "other"
    BY <2>2, ReasonIs
  <2>4. QED BY <2>1, <2>3, NoStep, OneStep
<1> HIDE DEF allow, deny
<1>2. /\ UNCHANGED <<ruleDetectors, ruleLog, ruleEnds, ruleDetections>>
      /\ ruleThread[t].at \in Ready \ {"block"}
  BY DEF Rule!PassRoot, Rule!CheckGrant, Rule!CheckDenial, Rule!Pass, Rule!rules, Rule!books, Ready
<1>3. CASE Rule!PassRoot(t) \/ Rule!Pass(t)
  <2>1. Rule!Counted(t, "passed") /\ Rule!At(t, "allow", <<>>)
    BY <1>3 DEF Rule!PassRoot, Rule!Pass
  <2>2. QED BY <1>1, <1>2, <2>1, NothingFound, Forward
<1>4. CASE Rule!CheckGrant(t)
  <2>1. CASE Rule!Holds(ruleGrants, ruleThread[t].name, ruleNow)
    <3>1. Rule!Counted(t, "allowed") /\ Rule!At(t, "allow", allow)
      BY <1>4, <2>1 DEF Rule!CheckGrant, allow
    <3>2. QED BY <1>1, <1>2, <3>1, NothingFound, Forward
  <2>2. CASE ~Rule!Holds(ruleGrants, ruleThread[t].name, ruleNow)
    <3>1. rulePolicy' = rulePolicy /\ Rule!At(t, "denied?", <<>>)
      BY <1>4, <2>2 DEF Rule!CheckGrant
    <3>2. "denied?" \in Ready \cup {"allow"}
      BY DEF Ready
    <3>3. QED BY <1>1, <1>2, <3>1, <3>2, NothingFound, Forward
  <2>3. QED BY <2>1, <2>2
<1>5. CASE Rule!CheckDenial(t)
  <2>1. rulePolicy' = rulePolicy
    BY <1>5 DEF Rule!CheckDenial, Rule!books
  <2>2. CASE Rule!Holds(ruleDenied, ruleThread[t].name, ruleNow)
    <3>1. Rule!At(t, "block", deny)
      BY <1>5, <2>2 DEF Rule!CheckDenial, deny
    <3>2. "block" \in Ready \cup {"allow"}
      BY DEF Ready
    <3>3. QED BY <1>1, <1>2, <2>1, <3>1, <3>2, NothingFound, Forward
  <2>3. CASE ~Rule!Holds(ruleDenied, ruleThread[t].name, ruleNow)
    <3>1. Rule!At(t, "ruled?", <<>>)
      BY <1>5, <2>3 DEF Rule!CheckDenial
    <3>2. "ruled?" \in Ready \cup {"allow"}
      BY DEF Ready
    <3>3. QED BY <1>1, <1>2, <2>1, <3>1, <3>2, NothingFound, Forward
  <2>4. QED BY <2>2, <2>3
<1>6. QED BY <1>3, <1>4, <1>5

LEMMA RulesStep ==
  ASSUME BooksInv, NEW t \in RuleThreads, Rule!CheckRules(t)
  PROVE  BooksInv'
<1>1. PICK moment \in RuleMoments :
        LET hit == Rule!RuleHit(ruleThread[t].policy, ruleThread[t].name, moment)
        IN  IF hit = <<>>
            THEN /\ UNCHANGED rulePolicy
                 /\ Rule!At(t, IF Rule!AsksDetectors(t) THEN "odd?" ELSE "pass", <<>>)
            ELSE IF hit[1].step = "AllowlistHit"
            THEN Rule!Counted(t, "allowed") /\ Rule!At(t, "allow", hit)
            ELSE UNCHANGED rulePolicy /\ Rule!At(t, "block", hit)
  BY DEF Rule!CheckRules
<1> DEFINE hit == Rule!RuleHit(ruleThread[t].policy, ruleThread[t].name, moment)
<1>2. IsHit(hit)
  BY HitIs
<1> HIDE DEF hit
<1>3. /\ UNCHANGED <<ruleDetectors, ruleLog, ruleEnds, ruleDetections>>
      /\ ruleThread[t].at \in Ready \ {"block"}
      /\ {"odd?", "pass", "block"} \subseteq Ready
  BY DEF Rule!CheckRules, Rule!rules, Ready
<1>4. CASE hit = <<>>
  <2>1. PICK where \in {"odd?", "pass"} : rulePolicy' = rulePolicy /\ Rule!At(t, where, <<>>)
    BY <1>1, <1>4 DEF hit
  <2>2. where \in Ready /\ where # "block" /\ where # "allow"
    BY <1>3
  <2>3. QED BY <1>3, <2>1, <2>2, NoStep, NothingFound, Forward
<1>5. CASE hit # <<>>
  <2> DEFINE x == hit[1]
  <2>1. hit = <<x>> /\ x.step \in RuleSteps
    BY <1>2, <1>5 DEF IsHit
  <2> HIDE DEF x
  <2>2. IsTrail(hit) /\ ~Synthetic(hit) /\ \A d : Rule!OfDetector(hit, d) = 0
    BY <2>1, OneStep DEF RuleSteps
  <2>3. CASE x.step = "AllowlistHit"
    <3>1. Rule!Counted(t, "allowed") /\ Rule!At(t, "allow", hit)
      BY <1>1, <1>5, <2>3 DEF hit, x
    <3>2. QED BY <1>3, <2>2, <3>1, NothingFound, Forward
  <2>4. CASE x.step # "AllowlistHit"
    <3>1. rulePolicy' = rulePolicy /\ Rule!At(t, "block", hit)
      BY <1>1, <1>5, <2>4 DEF hit, x
    <3>2. Rule!ReasonOf(x) # "other"
      BY <2>1, <2>4, ReasonIs DEF Fine, RuleSteps
    <3>3. Caused(hit)
      BY <2>1, <3>2, OneStep DEF RuleSteps
    <3>4. QED BY <1>3, <2>2, <3>1, <3>3, NothingFound, Forward
  <2>5. QED BY <2>3, <2>4
<1>6. QED BY <1>4, <1>5

(* What the detectors find in a name. *)
LEMMA NameStep ==
  ASSUME BooksInv, NEW t \in RuleThreads, NEW others, Rule!InspectName(t, others)
  PROVE  BooksInv'
<1>1. PICK scores :
        LET found == Rule!Inspected(ruleDetectors.names, scores)
        IN  /\ Rule!At(t, IF Rule!Blocks(found) THEN "block" ELSE "pass", Rule!Detected(found))
            /\ Rule!Record(found)
  BY DEF Rule!InspectName
<1> DEFINE found == Rule!Inspected(ruleDetectors.names, scores)
           steps == Rule!Detected(found)
           where == IF Rule!Blocks(found) THEN "block" ELSE "pass"
<1>2. IsTrail(steps) /\ ~Synthetic(steps) /\ (Rule!Blocks(found) => Caused(steps))
  BY DetectedIs DEF BooksInv
<1>3. ruleDetections' = [d \in Rule!Detectors |->
                           ruleDetections[d] + Rule!OfDetector(steps, d)]
  BY <1>1 DEF Rule!Record
<1>4. Rule!At(t, where, steps)
  BY <1>1
<1>5. /\ UNCHANGED <<ruleDetectors, ruleLog, ruleEnds, rulePolicy>>
      /\ ruleThread[t].at \in Ready \ {"block"}
  BY DEF Rule!InspectName, Rule!rules, Ready
<1>6. where \in Ready /\ where # "allow" /\ (where = "block" => Rule!Blocks(found))
  BY DEF Ready
<1> HIDE DEF found, steps, where
<1>7. QED BY <1>2, <1>3, <1>4, <1>5, <1>6, Forward

-----------------------------------------------------------------------------
(* What an answer of the policies does to the books. *)
LEMMA BlockStep ==
  ASSUME BooksInv, NEW t \in RuleThreads, Rule!Block(t)
  PROVE  BooksInv'
<1> DEFINE e == ruleThread[t]
           f == ruleThread'[t]
           steps == <<Rule!Synthesized>>
<1>1. /\ e.at = "block" /\ Rule!Counted(t, "blocked") /\ Rule!At(t, "blocked", steps)
      /\ UNCHANGED <<ruleDetectors, ruleLog, ruleDetections, ruleEnds>>
  BY DEF Rule!Block, Rule!rules
<1>2. /\ IsTrail(steps) /\ Synthetic(steps) /\ \A d : Rule!OfDetector(steps, d) = 0
  BY OneStep DEF Rule!Synthesized
<1> HIDE DEF steps
<1>3. Others(ruleThread, ruleThread', t) /\ Gone(e, f, "blocked", steps) /\ Evaluation(e)
  <2>1. e # Rule!Idle
    BY <1>1 DEF Rule!Idle
  <2>2. QED BY <1>1, <1>2, <2>1, Goes DEF BooksInv
<1>4. /\ e # Rule!Idle /\ f # Rule!Idle /\ f.at = "blocked" /\ f.kind = e.kind
      /\ ~Synthetic(e.trace) /\ Synthetic(f.trace) /\ Caused(f.trace)
      /\ DOMAIN f = {"at", "kind", "host", "name", "policy", "trace"} /\ IsTrail(f.trace)
  BY <1>1, <1>2, <1>3 DEF Gone, Evaluation, Ready, Rule!Idle
<1>5. Evaluation(f)
  BY <1>4 DEF Evaluation, Places, Ready
<1>6. Kept(rulePolicy, ruleLog, ruleDetections, ruleEnds)
  BY DEF BooksInv
<1>7. /\ DOMAIN rulePolicy' = {"passed", "allowed", "blocked"}
      /\ rulePolicy'.passed = rulePolicy.passed /\ rulePolicy'.allowed = rulePolicy.allowed
      /\ rulePolicy'.blocked = rulePolicy.blocked + One(e.kind = "dns")
  BY <1>1, <1>6 DEF Rule!Counted, Rule!Counts, One, Kept
<1>8. /\ rulePolicy.blocked \in Int /\ rulePolicy.passed \in Int /\ rulePolicy.allowed \in Int
      /\ One(e.kind = "dns") \in Int
  BY <1>6 DEF Kept, One
<1>9. Kept(rulePolicy', ruleLog', ruleDetections', ruleEnds')
  BY <1>1, <1>6, <1>7, <1>8 DEF Kept
<1>10. Fits(e, f, rulePolicy, ruleLog, ruleDetections, ruleEnds,
            rulePolicy', ruleLog', ruleDetections', ruleEnds')
  <2>1. Stopped(e) = 0 /\ Stopped(f) = One(e.kind = "dns")
    BY <1>4 DEF Stopped, One
  <2>2. Refusing(e) = 0 /\ Refusing(f) = One(e.kind = "dns")
    BY <1>1, <1>4 DEF Refusing, One
  <2>3. Judged(e) = 0 /\ Judged(f) = One(e.kind = "dns")
    BY <1>1, <1>4 DEF Judged, One, Ready
  <2>4. /\ ruleLog'.blocked - ruleLog.blocked = 0 /\ ruleLog'.queries - ruleLog.queries = 0
        /\ ruleEnds'.question - ruleEnds.question = 0 /\ ruleEnds'.answer - ruleEnds.answer = 0
    BY <1>1, <1>6 DEF Kept
  <2>5. /\ rulePolicy'.blocked - rulePolicy.blocked = One(e.kind = "dns")
        /\ rulePolicy'.passed - rulePolicy.passed = 0
        /\ rulePolicy'.allowed - rulePolicy.allowed = 0
    BY <1>7, <1>8
  <2>6. ASSUME NEW d \in Rule!Detectors
        PROVE  ruleDetections'[d] - ruleDetections[d]
                 = (ruleEnds'.found[d] - ruleEnds.found[d]) + (Finds(f, d) - Finds(e, d))
    <3>1. Finds(f, d) = Finds(e, d)
      <4>1. Finds(f, d) = Finds(e, d) + 0
        BY <1>2, <1>3 DEF Gone
      <4>2. Finds(e, d) \in Int
        BY <1>3, CountIsNumber DEF Finds, Evaluation
      <4>3. QED BY <4>1, <4>2
    <3>2. Finds(e, d) \in Int /\ ruleDetections[d] \in Int /\ ruleEnds.found[d] \in Int
      BY <1>3, <1>6, CountIsNumber DEF Finds, Evaluation, Kept
    <3> HIDE DEF e, f
    <3>3. QED BY <1>1, <3>1, <3>2
  <2> HIDE DEF One, e, f
  <2>7. QED BY <1>8, <2>1, <2>2, <2>3, <2>4, <2>5, <2>6 DEF Fits
<1>11. ByReason(ruleLog', ruleEnds')
  BY <1>1 DEF BooksInv
<1>12. QED BY <1>1, <1>3, <1>5, <1>9, <1>10, <1>11, BookStep

LEMMA ResolveStep ==
  ASSUME BooksInv, NEW t \in RuleThreads, Rule!Resolve(t)
  PROVE  BooksInv'
<1> DEFINE e == ruleThread[t]
           f == ruleThread'[t]
<1>1. /\ e.at = "allow" /\ e.kind = "dns"
      /\ UNCHANGED <<ruleDetectors, rulePolicy, ruleLog, ruleDetections, ruleEnds>>
  BY DEF Rule!Resolve, Rule!rules, Rule!books, Rule!Counts
<1>2. \E where \in {"log", "private?"} : \E steps :
        /\ Rule!At(t, where, steps) /\ IsTrail(steps) /\ ~Synthetic(steps)
        /\ \A d : Rule!OfDetector(steps, d) = 0
  <2>1. CASE Rule!At(t, "log", <<>>)
    BY <2>1, NoStep
  <2>2. ASSUME NEW s \in Rule!Sources,
               Rule!At(t, IF s = "FailureCached" THEN "log" ELSE "private?", <<[step |-> s]>>)
        PROVE  \E where \in {"log", "private?"} : \E steps :
                 /\ Rule!At(t, where, steps) /\ IsTrail(steps) /\ ~Synthetic(steps)
                 /\ \A d : Rule!OfDetector(steps, d) = 0
    <3> DEFINE x == [step |-> s]
               w == IF s = "FailureCached" THEN "log" ELSE "private?"
    <3>1. x.step \in Rule!Sources /\ w \in {"log", "private?"} /\ Rule!At(t, w, <<x>>)
      BY <2>2
    <3> HIDE DEF x, w
    <3>2. IsTrail(<<x>>) /\ ~Synthetic(<<x>>) /\ \A d : Rule!OfDetector(<<x>>, d) = 0
      BY <3>1, OneStep DEF Rule!Sources
    <3>3. QED BY <3>1, <3>2
  <2>3. QED BY <2>1, <2>2 DEF Rule!Resolve
<1>a. PICK where \in {"log", "private?"} : \E steps :
        /\ Rule!At(t, where, steps) /\ IsTrail(steps) /\ ~Synthetic(steps)
        /\ \A d : Rule!OfDetector(steps, d) = 0
  BY <1>2
<1>3. PICK steps :
        /\ Rule!At(t, where, steps) /\ IsTrail(steps) /\ ~Synthetic(steps)
        /\ \A d : Rule!OfDetector(steps, d) = 0
  BY <1>a
<1>4. Others(ruleThread, ruleThread', t) /\ Gone(e, f, where, steps) /\ Evaluation(e)
  <2>1. e # Rule!Idle /\ where # "idle"
    BY <1>1 DEF Rule!Idle
  <2>2. QED BY <1>3, <2>1, Goes DEF BooksInv
<1>5. /\ e # Rule!Idle /\ f # Rule!Idle /\ f.at \in {"log", "private?"} /\ f.kind = "dns"
      /\ ~Synthetic(e.trace) /\ ~Synthetic(f.trace)
      /\ DOMAIN f = {"at", "kind", "host", "name", "policy", "trace"} /\ IsTrail(f.trace)
  BY <1>1, <1>3, <1>4 DEF Gone, Evaluation, Rule!Idle
<1>6. Evaluation(f)
  BY <1>5 DEF Evaluation, Places, Ready
<1>7. Kept(rulePolicy, ruleLog, ruleDetections, ruleEnds)
  BY DEF BooksInv
<1>8. Kept(rulePolicy', ruleLog', ruleDetections', ruleEnds') /\ ByReason(ruleLog', ruleEnds')
  BY <1>1, <1>7 DEF BooksInv
<1>9. Fits(e, f, rulePolicy, ruleLog, ruleDetections, ruleEnds,
           rulePolicy', ruleLog', ruleDetections', ruleEnds')
  <2>1. Stopped(e) = 0 /\ Stopped(f) = 0
    BY <1>5 DEF Stopped, One
  <2>2. Refusing(e) = 0 /\ Refusing(f) = 0
    BY <1>1, <1>5 DEF Refusing, One
  <2>3. Judged(e) = 1 /\ Judged(f) = 1
    BY <1>1, <1>5 DEF Judged, One, Ready
  <2>4. ASSUME NEW d \in Rule!Detectors
        PROVE  ruleDetections'[d] - ruleDetections[d]
                 = (ruleEnds'.found[d] - ruleEnds.found[d]) + (Finds(f, d) - Finds(e, d))
    <3>1. Finds(f, d) = Finds(e, d) + 0
      BY <1>3, <1>4 DEF Gone
    <3>2. Finds(e, d) \in Int /\ ruleDetections[d] \in Int /\ ruleEnds.found[d] \in Int
      BY <1>4, <1>7, CountIsNumber DEF Finds, Evaluation, Kept
    <3> HIDE DEF e, f
    <3>3. QED BY <1>1, <3>1, <3>2
  <2> HIDE DEF e, f
  <2>5. /\ rulePolicy.blocked \in Int /\ rulePolicy.passed \in Int /\ rulePolicy.allowed \in Int
        /\ ruleLog.queries \in Int /\ ruleLog.blocked \in Int
        /\ ruleEnds.question \in Int /\ ruleEnds.answer \in Int
    BY <1>7 DEF Kept
  <2>6. QED BY <1>1, <2>1, <2>2, <2>3, <2>4, <2>5 DEF Fits
<1>10. QED BY <1>1, <1>4, <1>6, <1>8, <1>9, BookStep

LEMMA AnswerStep ==
  ASSUME BooksInv, NEW t \in RuleThreads, NEW response, Rule!InspectAnswer(t, response)
  PROVE  BooksInv'
<1>0. PICK scores :
        LET found == Rule!Inspected(ruleDetectors.answers, scores)
        IN  /\ Rule!Record(found)
            /\ IF Rule!Blocks(found)
               THEN /\ rulePolicy' = [rulePolicy EXCEPT !.blocked = @ + 1]
                    /\ Rule!At(t, "log", Append(Rule!Detected(found), Rule!Synthesized))
                    /\ ruleEnds' = [ruleEnds EXCEPT !.answer = @ + 1]
               ELSE /\ Rule!At(t, "log", Rule!Detected(found))
                    /\ UNCHANGED <<rulePolicy, ruleEnds>>
  BY DEF Rule!InspectAnswer
<1> DEFINE e == ruleThread[t]
           f == ruleThread'[t]
           found == Rule!Inspected(ruleDetectors.answers, scores)
           seen == Rule!Detected(found)
           stop == Rule!Blocks(found)
           steps == IF stop THEN Append(seen, Rule!Synthesized) ELSE seen
<1>1. e.at = "private?" /\ UNCHANGED <<ruleDetectors, ruleLog>>
  BY DEF Rule!InspectAnswer, Rule!rules
<1>2. IsTrail(seen) /\ ~Synthetic(seen) /\ (stop => Caused(seen))
  BY DetectedIs DEF BooksInv
<1>3. /\ ruleDetections' = [d \in Rule!Detectors |->
                              ruleDetections[d] + Rule!OfDetector(seen, d)]
      /\ Rule!At(t, "log", steps)
  BY <1>0 DEF Rule!Record
<1>4. /\ stop => /\ rulePolicy' = [rulePolicy EXCEPT !.blocked = @ + 1]
                 /\ ruleEnds' = [ruleEnds EXCEPT !.answer = @ + 1]
      /\ ~stop => rulePolicy' = rulePolicy /\ ruleEnds' = ruleEnds
  BY <1>0
<1> HIDE DEF found, seen, stop
<1>5. /\ IsTrail(steps) /\ (Synthetic(steps) <=> stop) /\ (stop => Caused(steps))
      /\ \A d : Rule!OfDetector(steps, d) = Rule!OfDetector(seen, d)
      /\ \A d : Rule!OfDetector(seen, d) \in Int
  <2>1. \A d : Rule!OfDetector(seen, d) \in Int
    BY <1>2, CountIsNumber
  <2>2. CASE ~stop
    BY <1>2, <2>1, <2>2
  <2>3. CASE stop
    <3> DEFINE x == Rule!Synthesized
    <3>1. /\ IsTrail(<<x>>) /\ Synthetic(<<x>>) /\ \A d : Rule!OfDetector(<<x>>, d) = 0
      BY OneStep DEF Rule!Synthesized
    <3> HIDE DEF x
    <3>2. steps = seen \o <<x>>
      <4>1. PICK S : seen \in Seq(S)
        BY <1>2 DEF IsTrail
      <4>2. Append(seen, x) = seen \o <<x>>
        BY <4>1
      <4>3. QED BY <2>3, <4>2 DEF x
    <3>3. /\ IsTrail(seen \o <<x>>) /\ Synthetic(seen \o <<x>>) /\ Caused(seen \o <<x>>)
          /\ \A d : Rule!OfDetector(seen \o <<x>>, d)
                     = Rule!OfDetector(seen, d) + Rule!OfDetector(<<x>>, d)
      BY <1>2, <2>3, <3>1, TrailGrows
    <3>4. \A d : Rule!OfDetector(seen \o <<x>>, d) = Rule!OfDetector(seen, d)
      <4>1. ASSUME NEW d PROVE Rule!OfDetector(seen \o <<x>>, d) = Rule!OfDetector(seen, d)
        <5>1. Rule!OfDetector(seen \o <<x>>, d) = Rule!OfDetector(seen, d) + 0
          BY <3>1, <3>3
        <5>2. QED BY <2>1, <5>1
      <4>2. QED BY <4>1
    <3> HIDE DEF steps
    <3>5. QED BY <2>1, <2>3, <3>2, <3>3, <3>4
  <2>4. QED BY <2>2, <2>3
<1> HIDE DEF steps
<1>6. Others(ruleThread, ruleThread', t) /\ Gone(e, f, "log", steps) /\ Evaluation(e)
  <2>1. e # Rule!Idle
    BY <1>1 DEF Rule!Idle
  <2>2. QED BY <1>3, <1>5, <2>1, Goes DEF BooksInv
<1>7. /\ e # Rule!Idle /\ f # Rule!Idle /\ f.at = "log" /\ f.kind = "dns" /\ e.kind = "dns"
      /\ ~Synthetic(e.trace) /\ (Synthetic(f.trace) <=> stop) /\ (stop => Caused(f.trace))
      /\ DOMAIN f = {"at", "kind", "host", "name", "policy", "trace"} /\ IsTrail(f.trace)
  BY <1>1, <1>5, <1>6 DEF Gone, Evaluation, Rule!Idle
<1>8. Evaluation(f)
  BY <1>7 DEF Evaluation, Places, Ready
<1>9. Kept(rulePolicy, ruleLog, ruleDetections, ruleEnds)
  BY DEF BooksInv
<1>10. /\ rulePolicy.blocked \in Int /\ rulePolicy.passed \in Int /\ rulePolicy.allowed \in Int
       /\ ruleLog.queries \in Int /\ ruleLog.blocked \in Int
       /\ ruleEnds.question \in Int /\ ruleEnds.answer \in Int
       /\ DOMAIN rulePolicy = {"passed", "allowed", "blocked"}
       /\ DOMAIN ruleEnds = {"asked", "orders", "question", "answer", "causes", "found"}
       /\ ruleDetections \in [Rule!Detectors -> Int]
  BY <1>9 DEF Kept
<1>11. /\ DOMAIN rulePolicy' = {"passed", "allowed", "blocked"}
       /\ rulePolicy'.passed = rulePolicy.passed /\ rulePolicy'.allowed = rulePolicy.allowed
       /\ rulePolicy'.blocked = rulePolicy.blocked + One(stop)
       /\ DOMAIN ruleEnds' = {"asked", "orders", "question", "answer", "causes", "found"}
       /\ ruleEnds'.question = ruleEnds.question
       /\ ruleEnds'.answer = ruleEnds.answer + One(stop)
       /\ ruleEnds'.causes = ruleEnds.causes /\ ruleEnds'.found = ruleEnds.found
       /\ One(stop) \in Int
  BY <1>4, <1>10 DEF One
<1>12. Kept(rulePolicy', ruleLog', ruleDetections', ruleEnds')
  <2>1. ruleDetections' \in [Rule!Detectors -> Int]
    <3>1. \A d \in Rule!Detectors : ruleDetections[d] + Rule!OfDetector(seen, d) \in Int
      BY <1>5, <1>10
    <3>2. QED BY <1>3, <3>1
  <2>2. rulePolicy'.blocked \in Int /\ ruleEnds'.answer \in Int
    BY <1>10, <1>11
  <2>3. QED BY <1>1, <1>9, <1>10, <1>11, <2>1, <2>2 DEF Kept
<1>13. Fits(e, f, rulePolicy, ruleLog, ruleDetections, ruleEnds,
            rulePolicy', ruleLog', ruleDetections', ruleEnds')
  <2>1. Stopped(e) = 0 /\ Stopped(f) = One(stop)
    BY <1>7 DEF Stopped, One
  <2>2. Refusing(e) = 0 /\ Refusing(f) = 0
    BY <1>1, <1>7 DEF Refusing, One
  <2>3. Judged(e) = 1 /\ Judged(f) = 1
    BY <1>1, <1>7 DEF Judged, One, Ready
  <2>4. ASSUME NEW d \in Rule!Detectors
        PROVE  ruleDetections'[d] - ruleDetections[d]
                 = (ruleEnds'.found[d] - ruleEnds.found[d]) + (Finds(f, d) - Finds(e, d))
    <3>1. Finds(f, d) = Finds(e, d) + Rule!OfDetector(seen, d)
      BY <1>5, <1>6 DEF Gone
    <3>2. Finds(e, d) \in Int /\ ruleDetections[d] \in Int /\ ruleEnds.found[d] \in Int
      BY <1>6, <1>9, CountIsNumber DEF Finds, Evaluation, Kept
    <3>3. /\ ruleDetections'[d] = ruleDetections[d] + Rule!OfDetector(seen, d)
          /\ Rule!OfDetector(seen, d) \in Int
      BY <1>3, <1>5
    <3> HIDE DEF e, f
    <3>4. QED BY <1>11, <3>1, <3>2, <3>3
  <2> HIDE DEF e, f, One
  <2>5. /\ rulePolicy'.blocked - rulePolicy.blocked = One(stop)
        /\ rulePolicy'.passed - rulePolicy.passed = 0
        /\ rulePolicy'.allowed - rulePolicy.allowed = 0
        /\ ruleEnds'.question - ruleEnds.question = 0
        /\ ruleEnds'.answer - ruleEnds.answer = One(stop)
    BY <1>10, <1>11
  <2>6. ruleLog'.blocked - ruleLog.blocked = 0 /\ ruleLog'.queries - ruleLog.queries = 0
    BY <1>1, <1>10
  <2>7. QED BY <1>11, <2>1, <2>2, <2>3, <2>4, <2>5, <2>6 DEF Fits
<1>14. ByReason(ruleLog', ruleEnds')
  BY <1>1, <1>11 DEF BooksInv, ByReason
<1>15. QED BY <1>1, <1>6, <1>8, <1>12, <1>13, <1>14, BookStep

LEMMA RefuseStep ==
  ASSUME BooksInv, NEW t \in RuleThreads, Rule!Refuse(t)
  PROVE  BooksInv'
<1> DEFINE e == ruleThread[t]
           f == ruleThread'[t]
<1>1. /\ e.at = "blocked" /\ e.kind = "dns" /\ Rule!At(t, "log", <<>>)
      /\ ruleEnds' = [ruleEnds EXCEPT !.question = @ + 1]
      /\ UNCHANGED <<ruleDetectors, rulePolicy, ruleLog, ruleDetections>>
  BY DEF Rule!Refuse, Rule!rules, Rule!Counts
<1>2. Others(ruleThread, ruleThread', t) /\ Gone(e, f, "log", <<>>) /\ Evaluation(e)
  <2>1. e # Rule!Idle
    BY <1>1 DEF Rule!Idle
  <2>2. QED BY <1>1, <2>1, NoStep, Goes DEF BooksInv
<1>3. /\ e # Rule!Idle /\ f # Rule!Idle /\ f.at = "log" /\ f.kind = "dns"
      /\ Synthetic(e.trace) /\ Synthetic(f.trace) /\ Caused(f.trace)
      /\ DOMAIN f = {"at", "kind", "host", "name", "policy", "trace"} /\ IsTrail(f.trace)
  BY <1>1, <1>2, NoStep DEF Gone, Evaluation, Rule!Idle
<1>4. Evaluation(f)
  BY <1>3 DEF Evaluation, Places, Ready
<1>5. Kept(rulePolicy, ruleLog, ruleDetections, ruleEnds)
  BY DEF BooksInv
<1>6. /\ rulePolicy.blocked \in Int /\ rulePolicy.passed \in Int /\ rulePolicy.allowed \in Int
      /\ ruleLog.queries \in Int /\ ruleLog.blocked \in Int
      /\ ruleEnds.question \in Int /\ ruleEnds.answer \in Int
      /\ DOMAIN ruleEnds = {"asked", "orders", "question", "answer", "causes", "found"}
  BY <1>5 DEF Kept
<1>7. /\ DOMAIN ruleEnds' = DOMAIN ruleEnds /\ ruleEnds'.answer = ruleEnds.answer
      /\ ruleEnds'.question = ruleEnds.question + 1
      /\ ruleEnds'.causes = ruleEnds.causes /\ ruleEnds'.found = ruleEnds.found
  BY <1>1, <1>6
<1>8. Kept(rulePolicy', ruleLog', ruleDetections', ruleEnds')
  BY <1>1, <1>5, <1>6, <1>7 DEF Kept
<1>9. Fits(e, f, rulePolicy, ruleLog, ruleDetections, ruleEnds,
           rulePolicy', ruleLog', ruleDetections', ruleEnds')
  <2>1. Stopped(e) = 1 /\ Stopped(f) = 1
    BY <1>1, <1>3 DEF Stopped, One
  <2>2. Refusing(e) = 1 /\ Refusing(f) = 0
    BY <1>1, <1>3 DEF Refusing, One
  <2>3. Judged(e) = 1 /\ Judged(f) = 1
    BY <1>1, <1>3 DEF Judged, One, Ready
  <2>4. ASSUME NEW d \in Rule!Detectors
        PROVE  ruleDetections'[d] - ruleDetections[d]
                 = (ruleEnds'.found[d] - ruleEnds.found[d]) + (Finds(f, d) - Finds(e, d))
    <3>1. Finds(f, d) = Finds(e, d) + 0
      BY <1>2, NoStep DEF Gone
    <3>2. Finds(e, d) \in Int /\ ruleDetections[d] \in Int /\ ruleEnds.found[d] \in Int
      BY <1>2, <1>5, CountIsNumber DEF Finds, Evaluation, Kept
    <3> HIDE DEF e, f
    <3>3. QED BY <1>1, <1>7, <3>1, <3>2
  <2> HIDE DEF e, f
  <2>5. QED BY <1>1, <1>6, <1>7, <2>1, <2>2, <2>3, <2>4 DEF Fits
<1>10. ByReason(ruleLog', ruleEnds')
  BY <1>1, <1>7 DEF BooksInv, ByReason
<1>11. QED BY <1>1, <1>2, <1>4, <1>8, <1>9, <1>10, BookStep

(* An evaluation that is over: what its trace says has been found. *)
LEMMA Over ==
  ASSUME BooksInv, NEW t \in RuleThreads, ruleThread[t] # Rule!Idle,
         ruleThread' = [ruleThread EXCEPT ![t] = Rule!Idle],
         ruleEnds'.found = Rule!Found(ruleThread[t].trace), ruleDetections' = ruleDetections
  PROVE  /\ Others(ruleThread, ruleThread', t) /\ ruleThread'[t] = Rule!Idle
         /\ Evaluation(ruleThread[t])
         /\ ruleEnds'.found \in [Rule!Detectors -> Int]
         /\ \A d \in Rule!Detectors :
              /\ ruleEnds'.found[d] = ruleEnds.found[d] + Rule!OfDetector(ruleThread[t].trace, d)
              /\ ruleEnds.found[d] <= ruleEnds'.found[d]
              /\ ruleDetections'[d] - ruleDetections[d]
                   = (ruleEnds'.found[d] - ruleEnds.found[d])
                     + (Finds(ruleThread'[t], d) - Finds(ruleThread[t], d))
<1> DEFINE e == ruleThread[t]
           f == ruleThread'[t]
<1>1. DOMAIN ruleThread = RuleThreads /\ Evaluation(e)
  BY DEF BooksInv, Threading
<1>2. Others(ruleThread, ruleThread', t) /\ f = Rule!Idle
  BY <1>1 DEF Others
<1>3. IsTrail(e.trace)
  BY <1>1 DEF Evaluation
<1> HIDE DEF f
<1>4. ASSUME NEW d \in Rule!Detectors
      PROVE  /\ ruleEnds'.found[d] = ruleEnds.found[d] + Rule!OfDetector(e.trace, d)
             /\ ruleEnds.found[d] <= ruleEnds'.found[d]
             /\ ruleEnds'.found[d] \in Int
             /\ ruleDetections'[d] - ruleDetections[d]
                  = (ruleEnds'.found[d] - ruleEnds.found[d]) + (Finds(f, d) - Finds(e, d))
  <2>1. ruleEnds'.found[d] = ruleEnds.found[d] + Rule!OfDetector(e.trace, d)
    BY DEF Rule!Found
  <2>2. Finds(f, d) = 0 /\ Finds(e, d) = Rule!OfDetector(e.trace, d)
    BY <1>2 DEF Finds
  <2>3. Rule!OfDetector(e.trace, d) \in Nat
    BY <1>3, CountIsNumber
  <2>4. ruleEnds.found[d] \in Int /\ ruleDetections[d] \in Int
    BY DEF BooksInv, Kept
  <2> HIDE DEF e
  <2>5. QED BY <2>1, <2>2, <2>3, <2>4
<1>5. ruleEnds'.found \in [Rule!Detectors -> Int]
  BY <1>4 DEF Rule!Found
<1>6. QED BY <1>1, <1>2, <1>4, <1>5 DEF f

LEMMA ExplainedStep ==
  ASSUME BooksInv, NEW t \in RuleThreads, Rule!Explained(t)
  PROVE  BooksInv'
<1> DEFINE e == ruleThread[t]
           f == ruleThread'[t]
<1>1. /\ e.at \in {"allow", "blocked"} /\ e.kind # "dns"
      /\ ruleEnds' = [ruleEnds EXCEPT !.found = Rule!Found(e.trace)]
      /\ ruleThread' = [ruleThread EXCEPT ![t] = Rule!Idle]
      /\ UNCHANGED <<ruleDetectors, rulePolicy, ruleLog, ruleDetections>>
  BY DEF Rule!Explained, Rule!rules, Rule!Counts
<1>2. e # Rule!Idle
  BY <1>1 DEF Rule!Idle
<1>3. Kept(rulePolicy, ruleLog, ruleDetections, ruleEnds)
  BY DEF BooksInv
<1>4. /\ rulePolicy.blocked \in Int /\ rulePolicy.passed \in Int /\ rulePolicy.allowed \in Int
      /\ ruleLog.queries \in Int /\ ruleLog.blocked \in Int
      /\ ruleEnds.question \in Int /\ ruleEnds.answer \in Int
      /\ DOMAIN ruleEnds = {"asked", "orders", "question", "answer", "causes", "found"}
  BY <1>3 DEF Kept
<1>5. /\ DOMAIN ruleEnds' = DOMAIN ruleEnds
      /\ ruleEnds'.answer = ruleEnds.answer /\ ruleEnds'.question = ruleEnds.question
      /\ ruleEnds'.causes = ruleEnds.causes /\ ruleEnds'.found = Rule!Found(e.trace)
  BY <1>1, <1>4
<1>6. /\ Others(ruleThread, ruleThread', t) /\ f = Rule!Idle
      /\ ruleEnds'.found \in [Rule!Detectors -> Int]
      /\ \A d \in Rule!Detectors :
           /\ ruleEnds.found[d] <= ruleEnds'.found[d] /\ ruleEnds'.found[d] \in Int
           /\ ruleDetections'[d] - ruleDetections[d]
                = (ruleEnds'.found[d] - ruleEnds.found[d]) + (Finds(f, d) - Finds(e, d))
  BY <1>1, <1>2, <1>5, Over
<1>7. Kept(rulePolicy', ruleLog', ruleDetections', ruleEnds')
  BY <1>1, <1>3, <1>4, <1>5, <1>6 DEF Kept
<1>8. Fits(e, f, rulePolicy, ruleLog, ruleDetections, ruleEnds,
           rulePolicy', ruleLog', ruleDetections', ruleEnds')
  <2>1. Stopped(e) = 0 /\ Stopped(f) = 0
    BY <1>1, <1>6 DEF Stopped, One
  <2>2. Refusing(e) = 0 /\ Refusing(f) = 0
    BY <1>1, <1>6 DEF Refusing, One
  <2>3. Judged(e) = 0 /\ Judged(f) = 0
    BY <1>1, <1>6 DEF Judged, One
  <2> HIDE DEF e, f
  <2>4. QED BY <1>1, <1>4, <1>5, <1>6, <2>1, <2>2, <2>3 DEF Fits
<1>9. ByReason(ruleLog', ruleEnds')
  <2>1. ASSUME NEW d \in Rule!Detectors PROVE ruleLog.by_reason[d] <= ruleEnds'.found[d]
    <3>1. ruleLog.by_reason[d] <= ruleEnds.found[d]
      BY DEF BooksInv, ByReason
    <3>2. ruleLog.by_reason[d] \in Int /\ ruleEnds.found[d] \in Int
      BY <1>3, ReasonsAreFew DEF Kept
    <3>3. ruleEnds.found[d] <= ruleEnds'.found[d] /\ ruleEnds'.found[d] \in Int
      BY <1>6
    <3>4. QED BY <3>1, <3>2, <3>3
  <2>2. QED BY <1>1, <1>5, <2>1 DEF BooksInv, ByReason
<1>10. QED BY <1>1, <1>6, <1>7, <1>8, <1>9, BookStep

LEMMA LoggedStep ==
  ASSUME BooksInv, NEW t \in RuleThreads, Rule!Log(t)
  PROVE  BooksInv'
<1> DEFINE e == ruleThread[t]
           f == ruleThread'[t]
           stop == Synthetic(e.trace)
           why == Rule!Reason(e.trace)
           R == Rule!Reasons
           by == ruleLog.by_reason
           by2 == ruleLog'.by_reason
           causes == ruleEnds.causes
           causes2 == ruleEnds'.causes
<1>1. /\ e.at = "log"
      /\ ruleThread' = [ruleThread EXCEPT ![t] = Rule!Idle]
      /\ UNCHANGED <<ruleDetectors, rulePolicy, ruleDetections>>
  BY DEF Rule!Log, Rule!rules
<1>2. e # Rule!Idle
  BY <1>1 DEF Rule!Idle
<1>3. Evaluation(e)
  BY <1>2 DEF BooksInv, Threading
<1>4. e.kind = "dns" /\ IsTrail(e.trace) /\ (stop => Caused(e.trace))
  BY <1>1, <1>3 DEF Evaluation
<1>5. /\ Rule!Event(e.trace).blocked <=> stop
      /\ Rule!Event(e.trace).reason = IF stop THEN {why} ELSE {}
  <2>1. DOMAIN e.trace = 1 .. Len(e.trace)
    BY <1>4 DEF IsTrail
  <2>2. QED BY <2>1 DEF Rule!Event, Synthetic
<1>6. Kept(rulePolicy, ruleLog, ruleDetections, ruleEnds)
  BY DEF BooksInv
<1>7. /\ rulePolicy.blocked \in Int /\ rulePolicy.passed \in Int /\ rulePolicy.allowed \in Int
      /\ ruleLog.queries \in Int /\ ruleLog.blocked \in Int /\ by \in [R -> Int]
      /\ ruleEnds.question \in Int /\ ruleEnds.answer \in Int /\ causes \in [R -> Int]
      /\ DOMAIN ruleEnds = {"asked", "orders", "question", "answer", "causes", "found"}
  BY <1>6 DEF Kept
<1>8. /\ DOMAIN ruleLog' = {"queries", "blocked", "by_reason"}
      /\ ruleLog'.queries = ruleLog.queries + 1
      /\ ruleLog'.blocked = ruleLog.blocked + One(stop)
      /\ by2 = [r \in R |-> by[r] + One(stop /\ r = why)]
  BY <1>5 DEF Rule!Log, One
<1>9. /\ DOMAIN ruleEnds' = DOMAIN ruleEnds
      /\ ruleEnds'.answer = ruleEnds.answer /\ ruleEnds'.question = ruleEnds.question
      /\ ruleEnds'.found = Rule!Found(e.trace)
      /\ causes2 = [r \in R |-> causes[r] + One(stop /\ r \in Rule!Causes(e.trace))]
  BY <1>5, <1>7 DEF Rule!Log, One
<1>10. /\ Others(ruleThread, ruleThread', t) /\ f = Rule!Idle
       /\ ruleEnds'.found \in [Rule!Detectors -> Int]
       /\ \A d \in Rule!Detectors :
            /\ ruleEnds'.found[d] = ruleEnds.found[d] + Rule!OfDetector(e.trace, d)
            /\ ruleEnds.found[d] <= ruleEnds'.found[d] /\ ruleEnds'.found[d] \in Int
            /\ ruleDetections'[d] - ruleDetections[d]
                 = (ruleEnds'.found[d] - ruleEnds.found[d]) + (Finds(f, d) - Finds(e, d))
  BY <1>1, <1>2, <1>9, Over
<1>11. \A condition : One(condition) \in Int
  BY DEF One
<1>12. /\ by2 \in [R -> Int] /\ \A r \in R : by2[r] = by[r] + One(stop /\ r = why)
       /\ causes2 \in [R -> Int]
       /\ \A r \in R : causes2[r] = causes[r] + One(stop /\ r \in Rule!Causes(e.trace))
  <2> HIDE DEF One, stop, why, by, by2, causes, causes2, e
  <2>1. \A r \in R : One(stop /\ r = why) \in Int /\ One(stop /\ r \in Rule!Causes(e.trace)) \in Int
    BY <1>11, Zenon
  <2>2. QED BY <1>7, <1>8, <1>9, <2>1
<1>13. One(stop) \in Int
  BY <1>11, Zenon
<1>14. Kept(rulePolicy', ruleLog', ruleDetections', ruleEnds')
  BY <1>1, <1>6, <1>7, <1>8, <1>9, <1>10, <1>12, <1>13 DEF Kept
<1>15. Fits(e, f, rulePolicy, ruleLog, ruleDetections, ruleEnds,
            rulePolicy', ruleLog', ruleDetections', ruleEnds')
  <2>1. Stopped(e) = One(stop) /\ Stopped(f) = 0
    BY <1>2, <1>4, <1>10 DEF Stopped, One
  <2>2. Refusing(e) = 0 /\ Refusing(f) = 0
    BY <1>1, <1>10 DEF Refusing, One
  <2>3. Judged(e) = 1 /\ Judged(f) = 0
    BY <1>1, <1>2, <1>4, <1>10 DEF Judged, One, Ready
  <2> HIDE DEF e, f, One, stop, by, by2, causes, causes2, why
  <2>4. ruleLog'.blocked - ruleLog.blocked = One(stop) /\ ruleLog'.queries - ruleLog.queries = 1
    BY <1>7, <1>8, <1>13
  <2>5. /\ rulePolicy'.blocked - rulePolicy.blocked = 0
        /\ rulePolicy'.passed - rulePolicy.passed = 0
        /\ rulePolicy'.allowed - rulePolicy.allowed = 0
        /\ ruleEnds'.question - ruleEnds.question = 0
        /\ ruleEnds'.answer - ruleEnds.answer = 0
    BY <1>1, <1>7, <1>9
  <2>6. QED BY <1>10, <1>13, <2>1, <2>2, <2>3, <2>4, <2>5 DEF Fits
<1>16. ByReason(ruleLog', ruleEnds')
  <2>0. /\ SumOf(by, R) = ruleLog.blocked /\ by["other"] = 0
        /\ \A r \in R : by[r] <= causes[r]
        /\ \A d \in Rule!Detectors : by[d] <= ruleEnds.found[d]
    BY DEF BooksInv, ByReason
  <2>1. IsFiniteSet(R) /\ Rule!Detectors \subseteq R /\ "other" \in R
    BY ReasonsAreFew DEF Rule!Reasons
  <2>2. stop => /\ why \in R /\ why # "other" /\ why \in Rule!Causes(e.trace)
                /\ why \in Rule!Detectors => Rule!OfDetector(e.trace, why) >= 1
    BY <1>4, ReasonHolds
  <2>3. \A d : Rule!OfDetector(e.trace, d) \in Nat
    BY <1>4, CountIsNumber
  <2> HIDE DEF stop, why, by, by2, causes, causes2, e, f, R
  <2>4. CASE ~stop
    <3>1. /\ One(stop) = 0 /\ \A r \in R : One(stop /\ r = why) = 0
          /\ \A r \in R : One(stop /\ r \in Rule!Causes(e.trace)) = 0
      BY <2>4 DEF One
    <3>2. by2 = by /\ causes2 = causes /\ ruleLog'.blocked = ruleLog.blocked
      <4>1. \A r \in R : by2[r] = by[r] /\ causes2[r] = causes[r]
        BY <1>7, <1>12, <3>1
      <4>2. QED BY <1>7, <1>8, <1>12, <3>1, <4>1
    <3>3. ASSUME NEW d \in Rule!Detectors PROVE by[d] <= ruleEnds'.found[d]
      <4>1. by[d] \in Int /\ ruleEnds.found[d] \in Int
        BY <1>6, <1>7, <2>1 DEF Kept
      <4>2. QED BY <1>10, <2>0, <4>1
    <3>4. QED BY <2>0, <3>2, <3>3 DEF ByReason, by, by2, causes, causes2, R
  <2>5. CASE stop
    <3>1. /\ One(stop) = 1 /\ \A r \in R \ {why} : One(stop /\ r = why) = 0
          /\ One(stop /\ why = why) = 1
          /\ One(stop /\ why \in Rule!Causes(e.trace)) = 1
          /\ \A r \in R : One(stop /\ r \in Rule!Causes(e.trace)) >= 0
      BY <2>2, <2>5 DEF One
    <3>2. by2[why] = by[why] + 1 /\ \A r \in R \ {why} : by2[r] = by[r]
      BY <1>7, <1>12, <2>2, <2>5, <3>1
    <3>3. SumOf(by2, R) = SumOf(by, R) + by2[why] - by[why]
      BY <1>7, <1>12, <2>1, <2>2, <2>5, <3>2, SumChanges
    <3>4. SumOf(by2, R) = ruleLog'.blocked
      <4>1. by[why] \in Int
        BY <1>7, <2>2, <2>5
      <4>2. ruleLog'.blocked = ruleLog.blocked + 1
        BY <1>8, <3>1
      <4>3. SumOf(by2, R) = ruleLog.blocked + (by[why] + 1) - by[why]
        BY <2>0, <3>2, <3>3
      <4>4. QED BY <1>7, <4>1, <4>2, <4>3
    <3>5. by2["other"] = 0
      BY <2>0, <2>1, <2>2, <2>5, <3>2
    <3>6. ASSUME NEW r \in R PROVE by2[r] <= causes2[r]
      <4>1. by[r] <= causes[r] /\ by[r] \in Int /\ causes[r] \in Int
        BY <1>7, <2>0
      <4>2. CASE r = why
        BY <1>12, <3>1, <3>2, <4>1, <4>2
      <4>3. CASE r # why
        <5>1. One(stop /\ r \in Rule!Causes(e.trace)) \in Int
          BY <1>11, Zenon
        <5>2. QED BY <1>12, <3>1, <3>2, <4>1, <4>3, <5>1
      <4>4. QED BY <4>2, <4>3
    <3>7. ASSUME NEW d \in Rule!Detectors PROVE by2[d] <= ruleEnds'.found[d]
      <4>1. by[d] <= ruleEnds.found[d] /\ by[d] \in Int /\ ruleEnds.found[d] \in Int /\ d \in R
        BY <1>6, <1>7, <2>0, <2>1 DEF Kept
      <4>2. CASE d = why
        BY <1>10, <2>2, <2>3, <2>5, <3>2, <4>1, <4>2
      <4>3. CASE d # why
        BY <1>10, <3>2, <4>1, <4>3
      <4>4. QED BY <4>2, <4>3
    <3>8. QED BY <3>4, <3>5, <3>6, <3>7 DEF ByReason, by2, causes2, R
  <2>6. QED BY <2>4, <2>5
<1>17. QED BY <1>1, <1>10, <1>14, <1>15, <1>16, BookStep

LEMMA BeginStep ==
  ASSUME BooksInv, NEW t \in RuleThreads, NEW kind, NEW host, NEW name,
         Rule!Begin(t, kind, host, name)
  PROVE  BooksInv'
<1> DEFINE e == ruleThread[t]
           f == ruleThread'[t]
<1>1. /\ e = Rule!Idle
      /\ ruleEnds' = [ruleEnds EXCEPT !.asked = @ + 1]
      /\ UNCHANGED <<ruleDetectors, rulePolicy, ruleLog, ruleDetections>>
  BY DEF Rule!Begin, Rule!rules
<1>2. PICK who, whose :
        ruleThread' = [ruleThread EXCEPT ![t] =
          [at |-> IF name = Rule!Root THEN "root" ELSE "granted?",
           kind |-> kind, host |-> host, name |-> name, policy |-> whose,
           trace |-> Rule!Asked(who, whose)]]
  BY DEF Rule!Begin
<1>3. DOMAIN ruleThread = RuleThreads
  BY DEF BooksInv, Threading
<1>4. /\ Others(ruleThread, ruleThread', t)
      /\ f.at \in {"root", "granted?"} /\ DOMAIN f = {"at", "kind", "host", "name", "policy", "trace"}
      /\ f.trace = Rule!Asked(who, whose)
  BY <1>2, <1>3 DEF Others
<1>5. /\ IsTrail(Rule!Asked(who, whose)) /\ ~Synthetic(Rule!Asked(who, whose))
      /\ \A d : Rule!OfDetector(Rule!Asked(who, whose), d) = 0
  <2> DEFINE a == [step |-> "ClientMatched", client |-> who.client, by |-> who.by]
             b == [step |-> "PolicyApplied", policy |-> whose.name]
  <2>1. /\ IsTrail(<<a, b>>) /\ ~Synthetic(<<a, b>>)
        /\ \A d : Rule!OfDetector(<<a, b>>, d) = 0
    BY TwoSteps
  <2>2. Rule!Asked(who, whose) = <<a, b>>
    BY DEF Rule!Asked
  <2> HIDE DEF a, b
  <2> DEFINE c == <<a, b>>
  <2>3. IsTrail(c) /\ ~Synthetic(c) /\ \A d : Rule!OfDetector(c, d) = 0
    BY <2>1
  <2>4. Rule!Asked(who, whose) = c
    BY <2>2
  <2> HIDE DEF c
  <2>5. QED BY <2>3, <2>4
<1>6. f # Rule!Idle
  BY <1>4 DEF Rule!Idle
<1>7. Evaluation(f)
  BY <1>4, <1>5 DEF Evaluation, Places, Ready
<1>8. Kept(rulePolicy, ruleLog, ruleDetections, ruleEnds)
  BY DEF BooksInv
<1>9. /\ rulePolicy.blocked \in Int /\ rulePolicy.passed \in Int /\ rulePolicy.allowed \in Int
      /\ ruleLog.queries \in Int /\ ruleLog.blocked \in Int
      /\ ruleEnds.question \in Int /\ ruleEnds.answer \in Int
      /\ DOMAIN ruleEnds = {"asked", "orders", "question", "answer", "causes", "found"}
  BY <1>8 DEF Kept
<1>10. /\ DOMAIN ruleEnds' = DOMAIN ruleEnds
       /\ ruleEnds'.answer = ruleEnds.answer /\ ruleEnds'.question = ruleEnds.question
       /\ ruleEnds'.causes = ruleEnds.causes /\ ruleEnds'.found = ruleEnds.found
  BY <1>1, <1>9
<1>11. Kept(rulePolicy', ruleLog', ruleDetections', ruleEnds')
  BY <1>1, <1>8, <1>9, <1>10 DEF Kept
<1>12. Fits(e, f, rulePolicy, ruleLog, ruleDetections, ruleEnds,
            rulePolicy', ruleLog', ruleDetections', ruleEnds')
  <2>1. Stopped(e) = 0 /\ Stopped(f) = 0
    BY <1>1, <1>4, <1>5 DEF Stopped, One
  <2>2. Refusing(e) = 0 /\ Refusing(f) = 0
    BY <1>1, <1>4 DEF Refusing, One
  <2>3. Judged(e) = 0 /\ Judged(f) = 0
    BY <1>1, <1>4 DEF Judged, One, Ready
  <2>4. \A d \in Rule!Detectors : Finds(e, d) = 0 /\ Finds(f, d) = 0
    BY <1>1, <1>4, <1>5, <1>6 DEF Finds
  <2>5. \A d \in Rule!Detectors : ruleDetections[d] \in Int /\ ruleEnds.found[d] \in Int
    BY <1>8 DEF Kept
  <2> HIDE DEF e, f
  <2>6. QED BY <1>1, <1>9, <1>10, <2>1, <2>2, <2>3, <2>4, <2>5 DEF Fits
<1>13. ByReason(ruleLog', ruleEnds')
  BY <1>1, <1>10 DEF BooksInv, ByReason
<1>14. QED BY <1>1, <1>4, <1>7, <1>11, <1>12, <1>13, BookStep

(* What is not about an evaluation changes none of the books. *)
LEMMA Elsewhere ==
  ASSUME BooksInv,
         UNCHANGED <<ruleDetectors, ruleThread, rulePolicy, ruleLog, ruleDetections>>,
         ruleEnds' = ruleEnds \/ ruleEnds' = [ruleEnds EXCEPT !.orders = @ + 1]
  PROVE  BooksInv'
<1>1. /\ Entries(ruleDetectors.names) /\ Entries(ruleDetectors.answers)
      /\ Threading(ruleThread)
      /\ Kept(rulePolicy, ruleLog, ruleDetections, ruleEnds)
      /\ Balanced(ruleThread, rulePolicy, ruleLog, ruleDetections, ruleEnds)
      /\ ByReason(ruleLog, ruleEnds)
  BY DEF BooksInv
<1>2. DOMAIN ruleEnds = {"asked", "orders", "question", "answer", "causes", "found"}
  BY <1>1 DEF Kept
<1>3. /\ DOMAIN ruleEnds' = DOMAIN ruleEnds
      /\ ruleEnds'.answer = ruleEnds.answer /\ ruleEnds'.question = ruleEnds.question
      /\ ruleEnds'.causes = ruleEnds.causes /\ ruleEnds'.found = ruleEnds.found
  BY <1>2
<1>4. Kept(rulePolicy', ruleLog', ruleDetections', ruleEnds')
  BY <1>1, <1>2, <1>3 DEF Kept
<1>5. Balanced(ruleThread', rulePolicy', ruleLog', ruleDetections', ruleEnds')
  BY <1>1, <1>3 DEF Balanced
<1>6. ByReason(ruleLog', ruleEnds')
  BY <1>1, <1>3 DEF ByReason
<1>7. Threading(ruleThread')
  BY <1>1 DEF Threading
<1>8. Entries(ruleDetectors'.names) /\ Entries(ruleDetectors'.answers)
  BY <1>1
<1>9. QED BY <1>4, <1>5, <1>6, <1>7, <1>8 DEF BooksInv

LEMMA BooksStep == BooksInv /\ [Rule!Next]_(Rule!vars) => BooksInv'
<1> SUFFICES ASSUME BooksInv, [Rule!Next]_(Rule!vars) PROVE BooksInv'
  OBVIOUS
<1>1. CASE UNCHANGED Rule!vars
  BY <1>1, Elsewhere DEF Rule!vars
<1>2. CASE Rule!Tick
  BY <1>2, Elsewhere DEF Rule!Tick, Rule!rules, Rule!books
<1>3. CASE Rule!Replace
  BY <1>3, Elsewhere DEF Rule!Replace, Rule!orders, Rule!books
<1>4. ASSUME NEW d \in RuleDomains, Rule!Grant(d) \/ Rule!Revoke(d) \/ Rule!Deny(d) \/ Rule!Undeny(d)
      PROVE  BooksInv'
  BY <1>4, Elsewhere
     DEF Rule!Grant, Rule!Revoke, Rule!Deny, Rule!Undeny, Rule!Ordered, Rule!rules, Rule!books
<1>5. ASSUME NEW t \in RuleThreads, Rule!Evaluate(t) PROVE BooksInv'
  <2>1. CASE Rule!PassRoot(t) \/ Rule!CheckGrant(t) \/ Rule!CheckDenial(t) \/ Rule!Pass(t)
    BY <2>1, TemporaryStep
  <2>2. CASE Rule!CheckRules(t)
    BY <2>2, RulesStep
  <2>3. ASSUME NEW others \in RuleSuspicions, Rule!InspectName(t, others) PROVE BooksInv'
    BY <2>3, NameStep
  <2>4. ASSUME NEW response \in RuleResponses, Rule!InspectAnswer(t, response) PROVE BooksInv'
    BY <2>4, AnswerStep
  <2>5. CASE Rule!Block(t)
    BY <2>5, BlockStep
  <2>6. CASE Rule!Resolve(t)
    BY <2>6, ResolveStep
  <2>7. CASE Rule!Refuse(t)
    BY <2>7, RefuseStep
  <2>8. CASE Rule!Explained(t)
    BY <2>8, ExplainedStep
  <2>9. CASE Rule!Log(t)
    BY <2>9, LoggedStep
  <2>10. QED
    BY <1>5, <2>1, <2>2, <2>3, <2>4, <2>5, <2>6, <2>7, <2>8, <2>9 DEF Rule!Evaluate
<1>6. ASSUME NEW t \in RuleThreads, NEW kind \in Rule!Kinds, NEW host \in RuleHosts,
             NEW name \in RuleQuestions, Rule!Begin(t, kind, host, name)
      PROVE  BooksInv'
  BY <1>6, BeginStep
<1>7. QED BY <1>1, <1>2, <1>3, <1>4, <1>5, <1>6 DEF Rule!Next

(* Nobody has anything to bring. *)
LEMMA NobodyUnderWay ==
  ASSUME \A t \in RuleThreads : ruleThread[t] = Rule!Idle
  PROVE  /\ All(Stops(ruleThread)) = 0 /\ All(Refusals(ruleThread)) = 0
         /\ All(Judgements(ruleThread)) = 0
         /\ \A d \in Rule!Detectors : All(Findings(ruleThread, d)) = 0
<1>1. \A t \in RuleThreads : /\ Stops(ruleThread)[t] = 0 /\ Refusals(ruleThread)[t] = 0
                             /\ Judgements(ruleThread)[t] = 0
  BY DEF Stops, Refusals, Judgements, Stopped, Refusing, Judged, One
<1>2. \A d : \A t \in RuleThreads : Findings(ruleThread, d)[t] = 0
  BY DEF Findings, Finds
<1>3. QED BY <1>1, <1>2, RuleAssumption, SumOfNought DEF All

LEMMA BooksStart == Rule!Init => BooksInv
<1> SUFFICES ASSUME Rule!Init PROVE BooksInv
  OBVIOUS
<1>1. Entries(ruleDetectors.names) /\ Entries(ruleDetectors.answers)
  <2>1. PICK c \in RuleDetections :
          ruleDetectors = [config |-> c, names |-> Rule!NameDetectors(c),
                           answers |-> Rule!AnswerDetectors(c)]
    BY DEF Rule!Init
  <2>2. ruleDetectors.names = Rule!NameDetectors(c) /\ ruleDetectors.answers = Rule!AnswerDetectors(c)
    BY <2>1
  <2>3. QED BY <2>2, EntriesAre
<1>2. Threading(ruleThread) /\ \A t \in RuleThreads : ruleThread[t] = Rule!Idle
  BY DEF Rule!Init, Threading
<1>3. /\ Kept(rulePolicy, ruleLog, ruleDetections, ruleEnds)
      /\ \A r \in Rule!Reasons : ruleLog.by_reason[r] = 0 /\ ruleEnds.causes[r] = 0
      /\ \A d \in Rule!Detectors : ruleDetections[d] = 0 /\ ruleEnds.found[d] = 0
      /\ rulePolicy.blocked = 0 /\ rulePolicy.passed = 0 /\ rulePolicy.allowed = 0
      /\ ruleLog.queries = 0 /\ ruleLog.blocked = 0
      /\ ruleEnds.question = 0 /\ ruleEnds.answer = 0
  BY DEF Rule!Init, Kept
<1>4. Balanced(ruleThread, rulePolicy, ruleLog, ruleDetections, ruleEnds)
  BY <1>2, <1>3, NobodyUnderWay DEF Balanced
<1>5. ByReason(ruleLog, ruleEnds)
  <2>1. SumOf(ruleLog.by_reason, Rule!Reasons) = 0
    BY <1>3, ReasonsAreFew, SumOfNought
  <2>2. "other" \in Rule!Reasons /\ Rule!Detectors \subseteq Rule!Reasons
    BY DEF Rule!Reasons
  <2>3. QED BY <1>3, <2>1, <2>2 DEF ByReason
<1>6. QED BY <1>1, <1>2, <1>3, <1>4, <1>5 DEF BooksInv

(* policy/mod.rs:471, logging/mod.rs:154: when nothing is under way, the   *)
(* books of the policies, of the log and of the detectors agree, for any   *)
(* rules, questions and orders and however many evaluations there are at   *)
(* a time.                                                                 *)
THEOREM BooksTrue == Rule!Spec => []BooksAgree
<1>1. Rule!Init => BooksInv
  BY BooksStart
<1>2. BooksInv /\ [Rule!Next]_(Rule!vars) => BooksInv'
  BY BooksStep
<1>3. BooksInv => BooksAgree
  <2> SUFFICES ASSUME BooksInv PROVE Rule!BooksAgree
    BY DEF BooksAgree
  <2> SUFFICES ASSUME \A t \in RuleThreads : ruleThread[t] = Rule!Idle
               PROVE  /\ rulePolicy.blocked = ruleLog.blocked
                      /\ ruleLog.blocked = ruleEnds.question + ruleEnds.answer
                      /\ Rule!Sum(ruleLog.by_reason) = ruleLog.blocked
                      /\ ruleLog.by_reason["other"] = 0
                      /\ \A r \in Rule!Reasons : ruleLog.by_reason[r] <= ruleEnds.causes[r]
                      /\ rulePolicy.passed + rulePolicy.allowed + rulePolicy.blocked
                           = ruleLog.queries + ruleEnds.answer
                      /\ ruleDetections = ruleEnds.found
                      /\ \A d \in Rule!Detectors : ruleLog.by_reason[d] <= ruleDetections[d]
    BY DEF Rule!BooksAgree
  <2>1. /\ Kept(rulePolicy, ruleLog, ruleDetections, ruleEnds)
        /\ Balanced(ruleThread, rulePolicy, ruleLog, ruleDetections, ruleEnds)
        /\ ByReason(ruleLog, ruleEnds)
    BY DEF BooksInv
  <2>2. /\ All(Stops(ruleThread)) = 0 /\ All(Refusals(ruleThread)) = 0
        /\ All(Judgements(ruleThread)) = 0
        /\ \A d \in Rule!Detectors : All(Findings(ruleThread, d)) = 0
    BY NobodyUnderWay
  <2>3. /\ rulePolicy.blocked \in Int /\ ruleLog.blocked \in Int /\ ruleLog.queries \in Int
        /\ ruleEnds.question \in Int /\ ruleEnds.answer \in Int
        /\ ruleLog.by_reason \in [Rule!Reasons -> Int]
        /\ ruleDetections \in [Rule!Detectors -> Int] /\ ruleEnds.found \in [Rule!Detectors -> Int]
    BY <2>1 DEF Kept
  <2>4. /\ rulePolicy.blocked = ruleLog.blocked + 0
        /\ rulePolicy.blocked = ruleEnds.question + ruleEnds.answer + 0
        /\ rulePolicy.passed + rulePolicy.allowed + rulePolicy.blocked
             = ruleLog.queries + ruleEnds.answer + 0
        /\ \A d \in Rule!Detectors : ruleDetections[d] = ruleEnds.found[d] + 0
    BY <2>1, <2>2 DEF Balanced
  <2>5. ruleDetections = ruleEnds.found
    <3>1. \A d \in Rule!Detectors : ruleDetections[d] = ruleEnds.found[d]
      BY <2>3, <2>4
    <3>2. QED BY <2>3, <3>1
  <2>6. Rule!Sum(ruleLog.by_reason) = ruleLog.blocked
    BY <2>1, <2>3, SumOfReasons DEF ByReason
  <2>7. /\ ruleLog.by_reason["other"] = 0
        /\ \A r \in Rule!Reasons : ruleLog.by_reason[r] <= ruleEnds.causes[r]
        /\ \A d \in Rule!Detectors : ruleLog.by_reason[d] <= ruleDetections[d]
    BY <2>1, <2>5 DEF ByReason
  <2>8. QED BY <2>3, <2>4, <2>5, <2>6, <2>7
<1>4. QED BY <1>1, <1>2, <1>3, PTL DEF Rule!Spec

-----------------------------------------------------------------------------
(***************************************************************************)
(* What the human has ordered.  First what a trace holds: its steps, of    *)
(* whatever length it is.                                                  *)
(***************************************************************************)
Steps(trace) == {trace[i] : i \in 1 .. Len(trace)}
Has(trace, kind) == \E x \in Steps(trace) : x.step = kind
ByRules(trace) ==
  \A x \in Steps(trace) : x.step \notin {"TemporaryAllow", "TemporaryDeny", "Detected"}

LEMMA StepsGrow ==
  ASSUME NEW a, NEW b, IsTrail(a), IsTrail(b)
  PROVE  Steps(a \o b) = Steps(a) \cup Steps(b)
<1>1. PICK S : a \in Seq(S)
  BY DEF IsTrail
<1>2. PICK T : b \in Seq(T)
  BY DEF IsTrail
<1> DEFINE c == a \o b
           n == Len(a)
           m == Len(b)
<1>3. /\ n \in Nat /\ m \in Nat /\ Len(c) = n + m
      /\ \A i \in 1 .. n : c[i] = a[i]
      /\ \A i \in 1 .. m : c[n + i] = b[i]
      /\ \A i \in 1 .. n + m : i \in 1 .. n \/ (i - n \in 1 .. m /\ i = n + (i - n))
  BY <1>1, <1>2
<1> HIDE DEF c, n, m
<1>4. 1 .. n \subseteq 1 .. Len(c) /\ \A i \in 1 .. m : n + i \in 1 .. Len(c)
  BY <1>3
<1>5. ASSUME NEW x \in Steps(a) \cup Steps(b) PROVE x \in Steps(c)
  <2>1. CASE x \in Steps(a)
    <3>1. PICK i \in 1 .. n : x = a[i]
      BY <2>1 DEF Steps, n
    <3>2. QED BY <1>3, <1>4, <3>1 DEF Steps
  <2>2. CASE x \in Steps(b)
    <3>1. PICK i \in 1 .. m : x = b[i]
      BY <2>2 DEF Steps, m
    <3>2. QED BY <1>3, <1>4, <3>1 DEF Steps
  <2>3. QED BY <2>1, <2>2
<1>6. ASSUME NEW x \in Steps(c) PROVE x \in Steps(a) \cup Steps(b)
  <2>1. PICK i \in 1 .. n + m : x = c[i]
    BY <1>3 DEF Steps
  <2>2. CASE i \in 1 .. n
    BY <1>3, <2>1, <2>2 DEF Steps, n
  <2>3. CASE i - n \in 1 .. m /\ i = n + (i - n)
    <3>1. x = b[i - n]
      BY <1>3, <2>1, <2>3
    <3>2. QED BY <2>3, <3>1 DEF Steps, m
  <2>4. QED BY <1>3, <2>1, <2>2, <2>3
<1>7. QED BY <1>5, <1>6 DEF c

LEMMA StepsOf ==
  /\ Steps(<<>>) = {}
  /\ \A x : Steps(<<x>>) = {x}
  /\ \A x, y : Steps(<<x, y>>) = {x, y}
<1>1. Steps(<<>>) = {}
  BY DEF Steps
<1>2. ASSUME NEW x PROVE Steps(<<x>>) = {x}
  <2>1. Len(<<x>>) = 1 /\ <<x>>[1] = x
    OBVIOUS
  <2>2. QED BY <2>1 DEF Steps
<1>3. ASSUME NEW x, NEW y PROVE Steps(<<x, y>>) = {x, y}
  <2> DEFINE s == <<x, y>>
  <2>1. Len(s) = 2 /\ s[1] = x /\ s[2] = y
    OBVIOUS
  <2> HIDE DEF s
  <2>2. 1 .. Len(s) = {1, 2}
    BY <2>1
  <2>3. Steps(s) = {x, y}
    BY <2>1, <2>2 DEF Steps
  <2>4. QED BY <2>3 DEF s
<1>4. QED BY <1>1, <1>2, <1>3

-----------------------------------------------------------------------------
(***************************************************************************)
(* What is put down to a list is written in the line that is named: the    *)
(* matcher is built from what the parser takes out of the lines.           *)
(***************************************************************************)
LEMMA KeptIsParsed ==
  ASSUME NEW parsed, \A e \in parsed : e.line \in Nat, NEW d \in DOMAIN Rule!Built(parsed)
  PROVE  \E e \in parsed : /\ e.domain = d
                           /\ Rule!Built(parsed)[d].scope = e.scope
                           /\ Rule!Built(parsed)[d].line = e.line
<1> DEFINE entries == {e \in parsed : e.domain = d}
           wide == {e \in entries : e.scope = "Suffix"}
           kept == IF wide = {} THEN entries ELSE wide
<1>1. entries # {}
  BY DEF Rule!Built
<1>2. kept # {} /\ kept \subseteq entries /\ \A e \in kept : e.line \in Nat
  BY <1>1
<1>3. Rule!FirstWidest(entries) = CHOOSE e \in kept : \A o \in kept : e.line <= o.line
  BY DEF Rule!FirstWidest
<1> HIDE DEF kept
<1>4. \E e \in kept : \A o \in kept : e.line <= o.line
  <2> DEFINE numbers == {e.line : e \in kept}
  <2>1. PICK n \in numbers : \A k \in numbers : n <= k
    <3>1. numbers \subseteq Nat /\ numbers # {}
      BY <1>2
    <3>2. QED BY <3>1, LeastOfNats
  <2>2. QED BY <2>1
<1>5. Rule!FirstWidest(entries) \in kept
  BY <1>3, <1>4
<1>6. /\ Rule!Built(parsed)[d].scope = Rule!FirstWidest(entries).scope
      /\ Rule!Built(parsed)[d].line = Rule!FirstWidest(entries).line
  BY DEF Rule!Built
<1> HIDE DEF entries
<1>7. Rule!FirstWidest(entries) \in entries
  BY <1>2, <1>5
<1>8. QED BY <1>6, <1>7 DEF entries

NamesOf(line, format) == IF format = "hosts" THEN Rule!HostsOf(line) ELSE Rule!NameIn(line)

LEMMA ParsedIsWritten ==
  ASSUME NEW lines, NEW format, NEW e \in Rule!ParseList(lines, format)
  PROVE  /\ e.line \in DOMAIN lines /\ e.domain \in NamesOf(lines[e.line], format)
         /\ e.scope = IF format = "wildcard" THEN "Suffix" ELSE "Exact"
<1>1. PICK i \in DOMAIN lines : \E n \in NamesOf(lines[i], format) :
        e = [domain |-> n, scope |-> IF format = "wildcard" THEN "Suffix" ELSE "Exact", line |-> i]
  BY DEF Rule!ParseList, NamesOf
<1>2. QED BY <1>1

LEMMA NamesAreWords ==
  ASSUME NEW line, line.bang \in BOOLEAN, Listed(line.words), NEW format,
         NEW n \in NamesOf(line, format)
  PROVE  /\ ~line.bang
         /\ \E i \in DOMAIN line.words :
              \/ n \in Rule!Normalize(line.words[i])
              \/ format # "hosts" /\ n \in Rule!Normalize(Tail(line.words[i]))
<1> DEFINE words == Rule!Words(line)
<1>1. words = IF line.bang THEN <<>> ELSE line.words
  BY DEF Rule!Words
<1>2. CASE format = "hosts"
  <2>1. n \in Rule!HostsOf(line)
    BY <1>2 DEF NamesOf
  <2>2. words # <<>> /\ n \in UNION {Rule!Normalize(words[k]) : k \in 2 .. Len(words)}
    <3> DEFINE all == UNION {Rule!Normalize(words[k]) : k \in 2 .. Len(words)} \ Rule!Localhosts
    <3>1. Rule!HostsOf(line)
            = IF words = <<>> \/ Rule!Texts(words[1]) \notin Rule!SinkholeAddresses THEN {} ELSE all
      BY DEF Rule!HostsOf
    <3> HIDE DEF words
    <3>2. QED BY <2>1, <3>1
  <2>3. ~line.bang /\ words = line.words
    BY <1>1, <2>2
  <2>4. PICK k \in 2 .. Len(line.words) : n \in Rule!Normalize(line.words[k])
    BY <2>2, <2>3
  <2>5. k \in DOMAIN line.words
    BY DEF Listed
  <2>6. QED BY <2>3, <2>4, <2>5
<1>3. CASE format # "hosts"
  <2>1. n \in Rule!NameIn(line)
    BY <1>3 DEF NamesOf
  <2>2. Len(words) = 1 /\ (n \in Rule!Normalize(words[1]) \/ n \in Rule!Normalize(Tail(words[1])))
    <3> DEFINE star == words[1][1].text = "*" /\ Len(words[1]) > 1
    <3>1. Rule!NameIn(line) = IF Len(words) # 1 THEN {}
                              ELSE Rule!Normalize(IF star THEN Tail(words[1]) ELSE words[1])
      BY DEF Rule!NameIn
    <3> HIDE DEF words, star
    <3>2. QED BY <2>1, <3>1
  <2>3. ~line.bang /\ words = line.words
    BY <1>1, <2>2
  <2>4. 1 \in DOMAIN line.words
    BY <2>2, <2>3 DEF Listed
  <2>5. QED BY <1>3, <2>2, <2>3, <2>4
<1>4. QED BY <1>2, <1>3

LEMMA LineSays ==
  ASSUME NEW matcher, ReadFromLines(matcher), NEW name, NEW d \in Rule!Lookup(matcher, name)
  PROVE  Rule!Says(matcher.lines[matcher.entries[d].line], matcher.format, name)
<1> DEFINE parsed == Rule!ParseList(matcher.lines, matcher.format)
           lines == matcher.lines
           format == matcher.format
<1>1. /\ d \in DOMAIN matcher.entries /\ Rule!Within(name, d)
      /\ d = name \/ matcher.entries[d].scope = "Suffix"
  BY DEF Rule!Lookup, Rule!Deepest
<1>2. matcher.entries = Rule!Built(parsed) /\ DOMAIN lines \subseteq Nat
  BY DEF ReadFromLines, Listed
<1> HIDE DEF parsed
<1>3. \A e \in parsed : e.line \in Nat
  BY <1>2, ParsedIsWritten DEF parsed
<1>4. PICK e \in parsed : /\ e.domain = d
                          /\ matcher.entries[d].scope = e.scope /\ matcher.entries[d].line = e.line
  BY <1>1, <1>2, <1>3, KeptIsParsed
<1>5. /\ e.line \in DOMAIN lines /\ d \in NamesOf(lines[e.line], format)
      /\ e.scope = IF format = "wildcard" THEN "Suffix" ELSE "Exact"
  BY <1>4, ParsedIsWritten DEF parsed
<1> DEFINE line == lines[e.line]
<1>6. line.bang \in BOOLEAN /\ Listed(line.words)
  BY <1>5 DEF ReadFromLines
<1> HIDE DEF line
<1>7. ~line.bang /\ \E i \in DOMAIN line.words :
        \/ d \in Rule!Normalize(line.words[i])
        \/ format # "hosts" /\ d \in Rule!Normalize(Tail(line.words[i]))
  BY <1>5, <1>6, NamesAreWords DEF line
<1>8. IF format = "wildcard" THEN Rule!Within(name, d) ELSE name = d
  BY <1>1, <1>4, <1>5
<1>9. Rule!Says(line, format, name)
  <2> HIDE DEF format
  <2>1. PICK i \in DOMAIN line.words :
          \/ d \in Rule!Normalize(line.words[i])
          \/ format # "hosts" /\ d \in Rule!Normalize(Tail(line.words[i]))
    BY <1>7
  <2>2. CASE format = "hosts"
    BY <1>7, <1>8, <2>1, <2>2 DEF Rule!Says
  <2>3. CASE format # "hosts"
    BY <1>7, <1>8, <2>1, <2>3 DEF Rule!Says
  <2>4. QED BY <2>2, <2>3
<1>10. QED BY <1>4, <1>9 DEF line

(* The step that a list hit leaves names a list and a line of it. *)
OneOf(matchers, name, x) ==
  \E i \in 1 .. Len(matchers) :
    /\ matchers[i].list = x.list
    /\ Rule!Says(matchers[i].lines[x.line], matchers[i].format, name)

AreLists(matchers) ==
  Listed(matchers) /\ \A i \in DOMAIN matchers : ReadFromLines(matchers[i])

LEMMA ListHitSays ==
  ASSUME NEW matchers, AreLists(matchers), NEW name, NEW step
  PROVE  \/ Rule!ListHit(matchers, name, step) = <<>>
         \/ \E x : /\ Rule!ListHit(matchers, name, step) = <<x>>
                   /\ x.step = step /\ OneOf(matchers, name, x)
<1> DEFINE places == {j \in 1 .. Len(matchers) : Rule!Lookup(matchers[j], name) # {}}
           i == IF places # {} THEN Rule!Min(places) ELSE 0
           matched == CHOOSE d \in Rule!Lookup(matchers[i], name) : TRUE
           x == [step |-> step, list |-> matchers[i].list,
                 line |-> matchers[i].entries[matched].line, matched |-> matched]
<1>1. Rule!ListHit(matchers, name, step) = IF i = 0 THEN <<>> ELSE <<x>>
  BY DEF Rule!ListHit, Rule!SelectInSeq
<1>2. DOMAIN matchers = 1 .. Len(matchers) /\ Len(matchers) \in Nat
  BY DEF AreLists, Listed
<1>3. CASE places = {}
  BY <1>1, <1>3
<1>4. CASE places # {}
  <2>1. \E k \in places : \A j \in places : k <= j
    <3>1. places \subseteq Nat
      BY <1>2
    <3>2. QED BY <1>4, <3>1, LeastOfNats
  <2>2. Rule!Min(places) \in places
    BY <2>1 DEF Rule!Min
  <2>3. i \in places
    BY <1>4, <2>2
  <2> HIDE DEF i
  <2>4. i \in 1 .. Len(matchers) /\ Rule!Lookup(matchers[i], name) # {} /\ i # 0
    BY <1>2, <2>3
  <2>5. matched \in Rule!Lookup(matchers[i], name)
    BY <2>4
  <2> HIDE DEF matched, places
  <2>6. ReadFromLines(matchers[i])
    BY <1>2, <2>4 DEF AreLists
  <2>7. Rule!Says(matchers[i].lines[matchers[i].entries[matched].line], matchers[i].format, name)
    BY <2>5, <2>6, LineSays
  <2>8. OneOf(matchers, name, x)
    BY <2>4, <2>7 DEF OneOf
  <2>9. x.step = step
    OBVIOUS
  <2> HIDE DEF x
  <2>10. QED BY <1>1, <2>4, <2>8, <2>9
<1>5. QED BY <1>3, <1>4

Said(p, name, x) ==
  x.step \in {"BlocklistHit", "AllowlistHit"} =>
    \E m \in Rule!ToSet(p.blocklists \o p.allowlists) :
      m.list = x.list /\ Rule!Says(m.lines[x.line], m.format, name)

LEMMA EitherList ==
  ASSUME NEW s, NEW t, Listed(s), Listed(t)
  PROVE  /\ \A i \in 1 .. Len(s) : s[i] \in Rule!ToSet(s \o t)
         /\ \A i \in 1 .. Len(t) : t[i] \in Rule!ToSet(s \o t)
<1> DEFINE S == {s[i] : i \in DOMAIN s}
           T == {t[i] : i \in DOMAIN t}
           c == s \o t
           n == Len(s)
           m == Len(t)
<1>1. s \in Seq(S) /\ t \in Seq(T)
  BY DEF Listed
<1> HIDE DEF S, T
<1>2. /\ n \in Nat /\ m \in Nat /\ DOMAIN c = 1 .. n + m
      /\ \A i \in 1 .. n : c[i] = s[i]
      /\ \A i \in 1 .. m : c[n + i] = t[i]
  BY <1>1
<1> HIDE DEF c, n, m
<1>3. \A i \in DOMAIN c : c[i] \in Rule!ToSet(c)
  BY DEF Rule!ToSet
<1>4. \A i \in 1 .. n : i \in DOMAIN c
  BY <1>2
<1>5. \A i \in 1 .. m : n + i \in DOMAIN c
  BY <1>2
<1>6. /\ \A i \in 1 .. n : s[i] \in Rule!ToSet(c)
      /\ \A i \in 1 .. m : t[i] \in Rule!ToSet(c)
  BY <1>2, <1>3, <1>4, <1>5
<1>7. QED BY <1>6 DEF c, n, m

LEMMA RuleHitSays ==
  ASSUME NEW p, AreLists(p.allowlists), AreLists(p.blocklists), NEW name, NEW at
  PROVE  \/ Rule!RuleHit(p, name, at) = <<>>
         \/ \E x : /\ Rule!RuleHit(p, name, at) = <<x>>
                   /\ x.step \in RuleSteps /\ Said(p, name, x)
<1> DEFINE a == Rule!ListHit(p.allowlists, name, "AllowlistHit")
           b == Rule!ListHit(p.blocklists, name, "BlocklistHit")
           c == Rule!RegexHit(p, name)
           d == Rule!ScheduleHit(p, at)
           s == a \o b \o c \o d
           U == {x \in {a[1], b[1], c[1], d[1]} : x.step \in RuleSteps /\ Said(p, name, x)}
<1>1. /\ \A i \in 1 .. Len(p.blocklists) :
           p.blocklists[i] \in Rule!ToSet(p.blocklists \o p.allowlists)
      /\ \A i \in 1 .. Len(p.allowlists) :
           p.allowlists[i] \in Rule!ToSet(p.blocklists \o p.allowlists)
  BY EitherList DEF AreLists
<1>2. \A x : OneOf(p.blocklists, name, x) \/ OneOf(p.allowlists, name, x) => Said(p, name, x)
  BY <1>1 DEF Said, OneOf
<1>3. a = <<>> \/ (a = <<a[1]>> /\ a[1].step = "AllowlistHit" /\ Said(p, name, a[1]))
  <2>1. CASE a = <<>>
    BY <2>1
  <2>2. CASE a # <<>>
    <3>1. PICK x : a = <<x>> /\ x.step = "AllowlistHit" /\ OneOf(p.allowlists, name, x)
      BY <2>2, ListHitSays
    <3> HIDE DEF a
    <3>2. a[1] = x
      BY <3>1
    <3>3. QED BY <1>2, <3>1, <3>2
  <2>3. QED BY <2>1, <2>2
<1>4. b = <<>> \/ (b = <<b[1]>> /\ b[1].step = "BlocklistHit" /\ Said(p, name, b[1]))
  <2>1. CASE b = <<>>
    BY <2>1
  <2>2. CASE b # <<>>
    <3>1. PICK x : b = <<x>> /\ x.step = "BlocklistHit" /\ OneOf(p.blocklists, name, x)
      BY <2>2, ListHitSays
    <3> HIDE DEF b
    <3>2. b[1] = x
      BY <3>1
    <3>3. QED BY <1>2, <3>1, <3>2
  <2>3. QED BY <2>1, <2>2
<1>5. c = <<>> \/ (c = <<c[1]>> /\ c[1].step = "RegexHit")
  BY DEF Rule!RegexHit, Rule!SelectInSeq
<1>6. d = <<>> \/ (d = <<d[1]>> /\ d[1].step = "ScheduleHit")
  BY DEF Rule!ScheduleHit, Rule!SelectInSeq
<1>7. Rule!RuleHit(p, name, at) = IF s = <<>> THEN <<>> ELSE <<s[1]>>
  BY DEF Rule!RuleHit
<1> HIDE DEF a, b, c, d
<1>8. ASSUME NEW hit, hit = <<>> \/ (hit = <<hit[1]>> /\ hit[1] \in U) PROVE hit \in Seq(U)
  <2> HIDE DEF U
  <2>1. CASE hit = <<>>
    BY <2>1
  <2>2. CASE hit = <<hit[1]>> /\ hit[1] \in U
    <3> DEFINE x == hit[1]
    <3>1. x \in U /\ hit = <<x>>
      BY <2>2
    <3> HIDE DEF x
    <3>2. QED BY <3>1
  <2>3. QED BY <1>8, <2>1, <2>2
<1>9. \A x : x.step \in {"RegexHit", "ScheduleHit"} => Said(p, name, x)
  BY DEF Said
<1>10. /\ a = <<>> \/ (a = <<a[1]>> /\ a[1] \in U)
       /\ b = <<>> \/ (b = <<b[1]>> /\ b[1] \in U)
       /\ c = <<>> \/ (c = <<c[1]>> /\ c[1] \in U)
       /\ d = <<>> \/ (d = <<d[1]>> /\ d[1] \in U)
  BY <1>3, <1>4, <1>5, <1>6, <1>9 DEF RuleSteps
<1>11. a \in Seq(U) /\ b \in Seq(U) /\ c \in Seq(U) /\ d \in Seq(U)
  <2> HIDE DEF U
  <2>1. QED BY <1>8, <1>10
<1>12. s = <<>> \/ s[1] \in U
  <2> HIDE DEF U
  <2>1. s \in Seq(U)
    BY <1>11
  <2> HIDE DEF s
  <2>2. QED BY <2>1
<1>13. CASE s = <<>>
  BY <1>7, <1>13
<1>14. CASE s # <<>>
  <2> DEFINE x == s[1]
  <2>1. x.step \in RuleSteps /\ Said(p, name, x)
    BY <1>12, <1>14
  <2>2. Rule!RuleHit(p, name, at) = <<x>>
    BY <1>7, <1>14
  <2> HIDE DEF x
  <2>3. QED BY <2>1, <2>2
<1>15. QED BY <1>13, <1>14

LEMMA PoliciesHaveLists ==
  ASSUME NEW rules \in RuleRuleSets, NEW name
  PROVE  /\ AreLists(Rule!PolicyOf(rules, name).allowlists)
         /\ AreLists(Rule!PolicyOf(rules, name).blocklists)
<1>1. CASE name \in DOMAIN rules.policies
  BY <1>1, ListAssumption DEF Rule!PolicyOf, AreLists
<1>2. CASE name \notin DOMAIN rules.policies
  <2>1. AreLists(<<>>)
    BY DEF AreLists, Listed
  <2>2. Rule!NoPolicy.allowlists = <<>> /\ Rule!NoPolicy.blocklists = <<>>
    BY DEF Rule!NoPolicy
  <2>3. QED BY <1>2, <2>1, <2>2 DEF Rule!PolicyOf
<1>3. QED BY <1>1, <1>2

-----------------------------------------------------------------------------
(***************************************************************************)
(* An evaluation on its way.  What it has to say of the rules it was begun *)
(* with: their policy and, once they have spoken and nobody else has, what *)
(* they said.                                                              *)
(***************************************************************************)
Early == {"root", "granted?", "denied?", "ruled?"}
Spoken == {"odd?", "pass", "allow", "block", "blocked"}

Hit(p, name, moment) == IF name = Rule!Root THEN <<>> ELSE Rule!RuleHit(p, name, moment)
Ending(at) == IF at = "blocked" THEN <<Rule!Synthesized>> ELSE <<>>

Reached(at, hit) ==
  /\ at \in {"odd?", "pass"} => hit = <<>>
  /\ at = "allow" => hit = <<>> \/ hit[1].step = "AllowlistHit"
  /\ at \in {"block", "blocked"} => hit # <<>> /\ hit[1].step # "AllowlistHit"

Verdict(e, asked) ==
  \E moment \in RuleMoments :
    /\ Reached(e.at, Hit(e.policy, e.name, moment))
    /\ e.trace = (asked \o Hit(e.policy, e.name, moment)) \o Ending(e.at)

Begun(e, rules) ==
  e.policy = Rule!PolicyOf(rules, Rule!Identify(rules.clients, e.host).policy)

Opening(e, rules) == Rule!Asked(Rule!Identify(rules.clients, e.host), e.policy)

Speaks(e, asked) ==
  /\ e.at \in Early => e.trace = asked
  /\ e.at \in Spoken /\ ByRules(e.trace) => Verdict(e, asked)

Told(e) ==
  \E rules \in RuleRuleSets : Begun(e, rules) /\ Speaks(e, Opening(e, rules))

(* The root is let through at once, and nothing else is. *)
Rooted(e) ==
  /\ e.at = "root" => e.name = Rule!Root
  /\ e.at \in {"granted?", "denied?", "ruled?", "odd?", "pass", "block", "blocked"}
       => e.name # Rule!Root

AllSaid(e) == \A x \in Steps(e.trace) : Said(e.policy, e.name, x)

(* What holds for it, and where it cannot be for that reason. *)
Obeyed(e, h, g, d, n) ==
  /\ "grant" \in h =>
       /\ Rule!Holds(g, e.name, n)
       /\ e.at \notin {"denied?", "ruled?", "odd?", "pass", "block", "blocked"}
  /\ "denial" \in h =>
       /\ Rule!Holds(d, e.name, n)
       /\ e.at \notin {"ruled?", "odd?", "pass"}
       /\ e.at = "allow" /\ e.name # Rule!Root => Has(e.trace, "TemporaryAllow")
       /\ e.at \in {"block", "blocked"} => ~Has(e.trace, "BlocklistHit")

Good(e, h, g, d, n) == Told(e) /\ Rooted(e) /\ AllSaid(e) /\ Obeyed(e, h, g, d, n)

Obeying(th, h, g, d, n) ==
  /\ DOMAIN h = RuleThreads
  /\ \A t \in RuleThreads : th[t] = Rule!Idle \/ Good(th[t], h[t], g, d, n)

HumanInv ==
  /\ BooksInv /\ ruleSet \in RuleRuleSets
  /\ Obeying(ruleThread, ruleHeld, ruleGrants, ruleDenied, ruleNow)

(* An evaluation that goes on, once more. *)
Onward(e, f, where, steps) ==
  /\ f.at = where /\ f.kind = e.kind /\ f.host = e.host /\ f.name = e.name
  /\ f.policy = e.policy /\ f.trace = e.trace \o steps
  /\ Steps(f.trace) = Steps(e.trace) \cup Steps(steps)
  /\ IsTrail(e.trace)

LEMMA GoesOnward ==
  ASSUME BooksInv, NEW t \in RuleThreads, ruleThread[t] # Rule!Idle,
         NEW where, NEW steps, IsTrail(steps), Rule!At(t, where, steps)
  PROVE  /\ Others(ruleThread, ruleThread', t)
         /\ Onward(ruleThread[t], ruleThread'[t], where, steps)
<1> DEFINE e == ruleThread[t]
           f == ruleThread'[t]
<1>1. DOMAIN ruleThread = RuleThreads /\ Evaluation(e)
  BY DEF BooksInv, Threading
<1>2. DOMAIN e = {"at", "kind", "host", "name", "policy", "trace"} /\ IsTrail(e.trace)
  BY <1>1 DEF Evaluation
<1>3. ruleThread' = [ruleThread EXCEPT ![t].at = where, ![t].trace = @ \o steps]
  BY DEF Rule!At
<1>4. Others(ruleThread, ruleThread', t)
  BY <1>1, <1>3 DEF Others
<1>5. /\ f.at = where /\ f.kind = e.kind /\ f.host = e.host /\ f.name = e.name
      /\ f.policy = e.policy /\ f.trace = e.trace \o steps
  BY <1>1, <1>2, <1>3
<1> HIDE DEF e, f
<1>6. Steps(f.trace) = Steps(e.trace) \cup Steps(steps)
  BY <1>2, <1>5, StepsGrow
<1>7. Onward(e, f, where, steps)
  BY <1>2, <1>5, <1>6 DEF Onward
<1>8. QED BY <1>4, <1>7 DEF e, f

(* A step of one evaluation that is good stays so; it is nobody else's. *)
LEMMA GoodStep ==
  ASSUME HumanInv, BooksInv', NEW t \in RuleThreads, Others(ruleThread, ruleThread', t),
         UNCHANGED <<ruleSet, ruleGrants, ruleDenied, ruleNow>>,
         DOMAIN ruleHeld' = RuleThreads, \A u \in RuleThreads \ {t} : ruleHeld'[u] = ruleHeld[u],
         \/ ruleThread'[t] = Rule!Idle
         \/ Good(ruleThread'[t], ruleHeld'[t], ruleGrants, ruleDenied, ruleNow)
  PROVE  HumanInv'
<1>1. Obeying(ruleThread, ruleHeld, ruleGrants, ruleDenied, ruleNow) /\ ruleSet' \in RuleRuleSets
  BY DEF HumanInv
<1>2. ASSUME NEW u \in RuleThreads
      PROVE  \/ ruleThread'[u] = Rule!Idle
             \/ Good(ruleThread'[u], ruleHeld'[u], ruleGrants, ruleDenied, ruleNow)
  <2>1. CASE u = t
    BY <2>1
  <2>2. CASE u # t
    <3>1. ruleThread'[u] = ruleThread[u] /\ ruleHeld'[u] = ruleHeld[u]
      BY <2>2 DEF Others
    <3>2. QED BY <1>1, <3>1 DEF Obeying
  <2>3. QED BY <2>1, <2>2
<1>3. Obeying(ruleThread', ruleHeld', ruleGrants', ruleDenied', ruleNow')
  BY <1>2 DEF Obeying
<1>4. QED BY <1>1, <1>3 DEF HumanInv

LEMMA StillSaid ==
  ASSUME NEW e, NEW f, NEW where, NEW steps, AllSaid(e), Onward(e, f, where, steps),
         \A x \in Steps(steps) : Said(e.policy, e.name, x)
  PROVE  AllSaid(f)
<1>1. ASSUME NEW x \in Steps(f.trace) PROVE Said(e.policy, e.name, x)
  BY <1>1 DEF AllSaid, Onward
<1>2. QED BY <1>1 DEF AllSaid, Onward

LEMMA NoListsSaid ==
  ASSUME NEW p, NEW name, NEW x, x.step \notin {"BlocklistHit", "AllowlistHit"}
  PROVE  Said(p, name, x)
BY DEF Said

LEMMA AskedIs ==
  ASSUME NEW who, NEW p
  PROVE  /\ IsTrail(Rule!Asked(who, p))
         /\ \A x \in Steps(Rule!Asked(who, p)) : x.step \in {"ClientMatched", "PolicyApplied"}
<1> DEFINE a == [step |-> "ClientMatched", client |-> who.client, by |-> who.by]
           b == [step |-> "PolicyApplied", policy |-> p.name]
<1>1. Rule!Asked(who, p) = <<a, b>>
  BY DEF Rule!Asked
<1>2. a.step = "ClientMatched" /\ b.step = "PolicyApplied"
  OBVIOUS
<1> HIDE DEF a, b
<1>3. IsTrail(<<a, b>>) /\ Steps(<<a, b>>) = {a, b}
  BY <1>2, TwoSteps, StepsOf
<1>4. QED BY <1>1, <1>2, <1>3

LEMMA NothingMore ==
  ASSUME NEW a, IsTrail(a)
  PROVE  a \o <<>> = a
<1>1. PICK S : a \in Seq(S)
  BY DEF IsTrail
<1>2. QED BY <1>1

LEMMA DetectedSteps ==
  ASSUME NEW es, Entries(es), NEW sc
  PROVE  LET found == Rule!Inspected(es, sc)
             seen == Rule!Detected(found)
         IN  /\ \A x \in Steps(seen) : x.step = "Detected"
             /\ Steps(seen) = {} => seen = <<>> /\ ~Rule!Blocks(found)
<1> DEFINE found == Rule!Inspected(es, sc)
           seen == Rule!Detected(found)
<1>1. PICK F : found \in Seq(F)
  BY InspectedIs
<1> HIDE DEF found
<1>2. DOMAIN found = 1 .. Len(found) /\ Len(found) \in Nat
  BY <1>1
<1>3. seen = [i \in 1 .. Len(found) |->
                [step |-> "Detected", detector |-> found[i].detector, action |-> found[i].action]]
  BY <1>2 DEF Rule!Detected
<1> HIDE DEF seen
<1>4. Len(seen) = Len(found)
  BY <1>2, <1>3
<1>5. \A x \in Steps(seen) : x.step = "Detected"
  BY <1>3, <1>4 DEF Steps
<1>6. ASSUME Steps(seen) = {} PROVE seen = <<>> /\ ~Rule!Blocks(found)
  <2>1. 1 .. Len(found) = {}
    BY <1>4, <1>6 DEF Steps
  <2>2. ~Rule!Blocks(found)
    BY <1>2, <2>1 DEF Rule!Blocks
  <2>3. Len(found) = 0
    BY <1>2, <2>1
  <2>4. seen = <<>>
    BY <1>3, <2>1
  <2>5. QED BY <2>2, <2>4
<1>7. QED BY <1>5, <1>6 DEF found, seen

(* What an evaluation begins with says nothing but whose it is. *)
IsOpening(asked) ==
  /\ IsTrail(asked) /\ asked \o <<>> = asked
  /\ \A x \in Steps(asked) : x.step \in {"ClientMatched", "PolicyApplied"}

LEMMA ToldOn ==
  ASSUME NEW e, NEW f, NEW where, NEW steps, Told(e), Onward(e, f, where, steps),
         \A asked : IsOpening(asked) /\ Speaks(e, asked) => Speaks(f, asked)
  PROVE  Told(f)
<1>1. PICK rules \in RuleRuleSets : Begun(e, rules) /\ Speaks(e, Opening(e, rules))
  BY DEF Told
<1>2. IsOpening(Opening(e, rules))
  BY AskedIs, NothingMore DEF Opening, IsOpening
<1>3. Speaks(f, Opening(e, rules))
  BY <1>1, <1>2
<1>4. Begun(f, rules) /\ Opening(f, rules) = Opening(e, rules)
  BY <1>1 DEF Begun, Opening, Onward
<1>5. QED BY <1>3, <1>4 DEF Told

(* It is good if what it says, and where it is, is right. *)
LEMMA GoodOn ==
  ASSUME HumanInv, BooksInv', NEW t \in RuleThreads, ruleThread[t] # Rule!Idle,
         NEW where, NEW steps, IsTrail(steps), Rule!At(t, where, steps),
         UNCHANGED <<ruleSet, ruleGrants, ruleDenied, ruleNow, ruleHeld>>,
         \A x \in Steps(steps) : Said(ruleThread[t].policy, ruleThread[t].name, x),
         \A f : Onward(ruleThread[t], f, where, steps) =>
               /\ \A asked : IsOpening(asked) /\ Speaks(ruleThread[t], asked) => Speaks(f, asked)
               /\ Rooted(f)
               /\ Obeyed(f, ruleHeld[t], ruleGrants, ruleDenied, ruleNow)
  PROVE  HumanInv'
<1> DEFINE e == ruleThread[t]
           f == ruleThread'[t]
<1>1. Others(ruleThread, ruleThread', t) /\ Onward(e, f, where, steps)
  BY GoesOnward DEF HumanInv
<1>2. Good(e, ruleHeld[t], ruleGrants, ruleDenied, ruleNow) /\ DOMAIN ruleHeld = RuleThreads
  BY DEF HumanInv, Obeying
<1>3. /\ \A asked : IsOpening(asked) /\ Speaks(e, asked) => Speaks(f, asked)
      /\ Rooted(f) /\ Obeyed(f, ruleHeld[t], ruleGrants, ruleDenied, ruleNow)
      /\ \A x \in Steps(steps) : Said(e.policy, e.name, x)
  BY <1>1
<1> HIDE DEF e, f
<1>4. Told(f)
  BY <1>1, <1>2, <1>3, ToldOn DEF Good
<1>5. AllSaid(f)
  BY <1>1, <1>2, <1>3, StillSaid DEF Good
<1>6. Good(f, ruleHeld'[t], ruleGrants, ruleDenied, ruleNow)
  BY <1>3, <1>4, <1>5 DEF Good
<1>7. QED BY <1>1, <1>2, <1>6, GoodStep DEF f

LEMMA IsGood ==
  ASSUME HumanInv, NEW t \in RuleThreads, ruleThread[t] # Rule!Idle
  PROVE  Good(ruleThread[t], ruleHeld[t], ruleGrants, ruleDenied, ruleNow)
BY DEF HumanInv, Obeying

(* The steps of an evaluation, one by one. *)
LEMMA RootStays ==
  ASSUME HumanInv, BooksInv', NEW t \in RuleThreads, Rule!PassRoot(t)
  PROVE  HumanInv'
<1> DEFINE e == ruleThread[t]
           h == ruleHeld[t]
<1>1. /\ e.at = "root" /\ Rule!At(t, "allow", <<>>) /\ e # Rule!Idle
      /\ UNCHANGED <<ruleSet, ruleGrants, ruleDenied, ruleNow, ruleHeld>>
  BY DEF Rule!PassRoot, Rule!rules, Rule!orders, Rule!Idle
<1>2. Good(e, h, ruleGrants, ruleDenied, ruleNow)
  BY <1>1, IsGood
<1> HIDE DEF e, h
<1>3. e.name = Rule!Root
  BY <1>1, <1>2 DEF Good, Rooted
<1>4. ASSUME NEW f, Onward(e, f, "allow", <<>>)
      PROVE  /\ \A asked : IsOpening(asked) /\ Speaks(e, asked) => Speaks(f, asked)
             /\ Rooted(f) /\ Obeyed(f, h, ruleGrants, ruleDenied, ruleNow)
  <2>1. ASSUME NEW asked, IsOpening(asked), Speaks(e, asked) PROVE Speaks(f, asked)
    <3>1. e.trace = asked /\ f.trace = (asked \o <<>>) \o <<>> /\ f.at = "allow"
      BY <1>1, <1>4, <2>1 DEF Speaks, Early, Onward, IsOpening
    <3>2. PICK moment \in RuleMoments : TRUE
      BY ListAssumption
    <3>3. Hit(f.policy, f.name, moment) = <<>> /\ Ending(f.at) = <<>>
      BY <1>3, <1>4, <3>1 DEF Hit, Ending, Onward
    <3>4. Verdict(f, asked)
      BY <3>1, <3>3 DEF Verdict, Reached
    <3>5. QED BY <3>1, <3>4 DEF Speaks, Early
  <2>2. Rooted(f) /\ Obeyed(f, h, ruleGrants, ruleDenied, ruleNow)
    BY <1>2, <1>3, <1>4 DEF Good, Rooted, Obeyed, Onward
  <2>3. QED BY <2>1, <2>2
<1>5. QED BY <1>1, <1>4, StepsOf, NoStep, GoodOn DEF e, h

LEMMA GrantStays ==
  ASSUME HumanInv, BooksInv', NEW t \in RuleThreads, Rule!CheckGrant(t)
  PROVE  HumanInv'
<1> DEFINE e == ruleThread[t]
           h == ruleHeld[t]
           x == [step |-> "TemporaryAllow"]
<1>1. /\ e.at = "granted?" /\ e # Rule!Idle
      /\ UNCHANGED <<ruleSet, ruleGrants, ruleDenied, ruleNow, ruleHeld>>
      /\ Rule!Holds(ruleGrants, e.name, ruleNow) => Rule!At(t, "allow", <<x>>)
      /\ ~Rule!Holds(ruleGrants, e.name, ruleNow) => Rule!At(t, "denied?", <<>>)
  BY DEF Rule!CheckGrant, Rule!rules, Rule!orders, Rule!Idle
<1>2. Good(e, h, ruleGrants, ruleDenied, ruleNow)
  BY <1>1, IsGood
<1>3. x.step = "TemporaryAllow"
  OBVIOUS
<1> HIDE DEF e, h, x
<1>4. IsTrail(<<x>>) /\ Steps(<<x>>) = {x} /\ Said(e.policy, e.name, x)
  BY <1>3, OneStep, StepsOf, NoListsSaid
<1>5. CASE Rule!Holds(ruleGrants, e.name, ruleNow)
  <2>1. ASSUME NEW f, Onward(e, f, "allow", <<x>>)
        PROVE  /\ \A asked : IsOpening(asked) /\ Speaks(e, asked) => Speaks(f, asked)
               /\ Rooted(f) /\ Obeyed(f, h, ruleGrants, ruleDenied, ruleNow)
    <3>1. f.at = "allow" /\ x \in Steps(f.trace) /\ f.name = e.name
      BY <1>4, <2>1 DEF Onward
    <3>2. ~ByRules(f.trace) /\ Has(f.trace, "TemporaryAllow")
      BY <1>3, <3>1 DEF ByRules, Has
    <3>3. \A asked : Speaks(f, asked)
      BY <3>1, <3>2 DEF Speaks, Early
    <3>4. Rooted(f) /\ Obeyed(f, h, ruleGrants, ruleDenied, ruleNow)
      BY <1>2, <3>1, <3>2 DEF Good, Rooted, Obeyed
    <3>5. QED BY <3>3, <3>4
  <2>2. QED BY <1>1, <1>4, <1>5, <2>1, GoodOn DEF e, h
<1>6. CASE ~Rule!Holds(ruleGrants, e.name, ruleNow)
  <2>1. ASSUME NEW f, Onward(e, f, "denied?", <<>>)
        PROVE  /\ \A asked : IsOpening(asked) /\ Speaks(e, asked) => Speaks(f, asked)
               /\ Rooted(f) /\ Obeyed(f, h, ruleGrants, ruleDenied, ruleNow)
    <3>1. f.at = "denied?" /\ f.name = e.name /\ f.trace = e.trace \o <<>>
      BY <2>1 DEF Onward
    <3>2. ASSUME NEW asked, IsOpening(asked), Speaks(e, asked) PROVE Speaks(f, asked)
      BY <1>1, <3>1, <3>2 DEF Speaks, Early, Spoken, IsOpening
    <3>3. Rooted(f) /\ Obeyed(f, h, ruleGrants, ruleDenied, ruleNow)
      BY <1>1, <1>2, <1>6, <3>1 DEF Good, Rooted, Obeyed
    <3>4. QED BY <3>2, <3>3
  <2>2. QED BY <1>1, <1>6, <2>1, StepsOf, NoStep, GoodOn DEF e, h
<1>7. QED BY <1>5, <1>6

LEMMA DenialStays ==
  ASSUME HumanInv, BooksInv', NEW t \in RuleThreads, Rule!CheckDenial(t)
  PROVE  HumanInv'
<1> DEFINE e == ruleThread[t]
           h == ruleHeld[t]
           x == [step |-> "TemporaryDeny"]
<1>1. /\ e.at = "denied?" /\ e # Rule!Idle
      /\ UNCHANGED <<ruleSet, ruleGrants, ruleDenied, ruleNow, ruleHeld>>
      /\ Rule!Holds(ruleDenied, e.name, ruleNow) => Rule!At(t, "block", <<x>>)
      /\ ~Rule!Holds(ruleDenied, e.name, ruleNow) => Rule!At(t, "ruled?", <<>>)
  BY DEF Rule!CheckDenial, Rule!rules, Rule!orders, Rule!Idle
<1>2. Good(e, h, ruleGrants, ruleDenied, ruleNow)
  BY <1>1, IsGood
<1>3. x.step = "TemporaryDeny"
  OBVIOUS
<1> HIDE DEF e, h, x
<1>4. IsTrail(<<x>>) /\ Steps(<<x>>) = {x} /\ Said(e.policy, e.name, x)
  BY <1>3, OneStep, StepsOf, NoListsSaid
<1>5. ~Has(e.trace, "BlocklistHit")
  <2>1. PICK rules \in RuleRuleSets : Speaks(e, Opening(e, rules))
    BY <1>2 DEF Good, Told
  <2>2. e.trace = Opening(e, rules)
    BY <1>1, <2>1 DEF Speaks, Early
  <2>3. QED BY <2>2, AskedIs DEF Has, Opening
<1>6. CASE Rule!Holds(ruleDenied, e.name, ruleNow)
  <2>1. ASSUME NEW f, Onward(e, f, "block", <<x>>)
        PROVE  /\ \A asked : IsOpening(asked) /\ Speaks(e, asked) => Speaks(f, asked)
               /\ Rooted(f) /\ Obeyed(f, h, ruleGrants, ruleDenied, ruleNow)
    <3>1. f.at = "block" /\ Steps(f.trace) = Steps(e.trace) \cup {x} /\ f.name = e.name
      BY <1>4, <2>1 DEF Onward
    <3>2. ~ByRules(f.trace) /\ ~Has(f.trace, "BlocklistHit")
      BY <1>3, <1>5, <3>1 DEF ByRules, Has
    <3>3. \A asked : Speaks(f, asked)
      BY <3>1, <3>2 DEF Speaks, Early
    <3>4. Rooted(f) /\ Obeyed(f, h, ruleGrants, ruleDenied, ruleNow)
      BY <1>1, <1>2, <3>1, <3>2 DEF Good, Rooted, Obeyed
    <3>5. QED BY <3>3, <3>4
  <2>2. QED BY <1>1, <1>4, <1>6, <2>1, GoodOn DEF e, h
<1>7. CASE ~Rule!Holds(ruleDenied, e.name, ruleNow)
  <2>1. ASSUME NEW f, Onward(e, f, "ruled?", <<>>)
        PROVE  /\ \A asked : IsOpening(asked) /\ Speaks(e, asked) => Speaks(f, asked)
               /\ Rooted(f) /\ Obeyed(f, h, ruleGrants, ruleDenied, ruleNow)
    <3>1. f.at = "ruled?" /\ f.name = e.name /\ f.trace = e.trace \o <<>>
      BY <2>1 DEF Onward
    <3>2. ASSUME NEW asked, IsOpening(asked), Speaks(e, asked) PROVE Speaks(f, asked)
      BY <1>1, <3>1, <3>2 DEF Speaks, Early, Spoken, IsOpening
    <3>3. Rooted(f) /\ Obeyed(f, h, ruleGrants, ruleDenied, ruleNow)
      BY <1>1, <1>2, <1>7, <3>1 DEF Good, Rooted, Obeyed
    <3>4. QED BY <3>2, <3>3
  <2>2. QED BY <1>1, <1>7, <2>1, StepsOf, NoStep, GoodOn DEF e, h
<1>8. QED BY <1>6, <1>7

LEMMA RulesStay ==
  ASSUME HumanInv, BooksInv', NEW t \in RuleThreads, Rule!CheckRules(t)
  PROVE  HumanInv'
<1> DEFINE e == ruleThread[t]
           h == ruleHeld[t]
<1>1. /\ e.at = "ruled?" /\ e # Rule!Idle
      /\ UNCHANGED <<ruleSet, ruleGrants, ruleDenied, ruleNow, ruleHeld>>
  BY DEF Rule!CheckRules, Rule!rules, Rule!orders, Rule!Idle
<1>2. PICK moment \in RuleMoments :
        LET hit == Rule!RuleHit(e.policy, e.name, moment)
        IN  IF hit = <<>>
            THEN Rule!At(t, IF Rule!AsksDetectors(t) THEN "odd?" ELSE "pass", <<>>)
            ELSE IF hit[1].step = "AllowlistHit" THEN Rule!At(t, "allow", hit)
            ELSE Rule!At(t, "block", hit)
  BY DEF Rule!CheckRules
<1>3. Good(e, h, ruleGrants, ruleDenied, ruleNow)
  BY <1>1, IsGood
<1> DEFINE hit == Rule!RuleHit(e.policy, e.name, moment)
<1> HIDE DEF e, h
<1>4. hit = <<>> \/ \E x : hit = <<x>> /\ x.step \in RuleSteps /\ Said(e.policy, e.name, x)
  <2>1. PICK rules \in RuleRuleSets : Begun(e, rules)
    BY <1>3 DEF Good, Told
  <2>2. AreLists(e.policy.allowlists) /\ AreLists(e.policy.blocklists)
    BY <2>1, PoliciesHaveLists DEF Begun
  <2>3. QED BY <2>2, RuleHitSays
<1>5. e.name # Rule!Root /\ "grant" \notin h /\ "denial" \notin h
  BY <1>1, <1>3 DEF Good, Rooted, Obeyed
<1>6. hit = Hit(e.policy, e.name, moment)
  BY <1>5 DEF Hit
<1> HIDE DEF hit
<1>7. \A f : f.name = e.name /\ f.at \in {"odd?", "pass", "allow", "block"}
               => Rooted(f) /\ Obeyed(f, h, ruleGrants, ruleDenied, ruleNow)
  BY <1>5 DEF Rooted, Obeyed
<1>8. CASE hit = <<>>
  <2>1. PICK where \in {"odd?", "pass"} : Rule!At(t, where, <<>>)
    BY <1>2, <1>8 DEF hit
  <2>2. ASSUME NEW f, Onward(e, f, where, <<>>)
        PROVE  /\ \A asked : IsOpening(asked) /\ Speaks(e, asked) => Speaks(f, asked)
               /\ Rooted(f) /\ Obeyed(f, h, ruleGrants, ruleDenied, ruleNow)
    <3>1. /\ f.at \in {"odd?", "pass"} /\ f.name = e.name /\ f.policy = e.policy
          /\ f.trace = e.trace \o <<>>
      BY <2>2 DEF Onward
    <3>2. ASSUME NEW asked, IsOpening(asked), Speaks(e, asked) PROVE Speaks(f, asked)
      <4>1. f.trace = (asked \o <<>>) \o <<>>
        BY <1>1, <3>1, <3>2 DEF Speaks, Early, IsOpening
      <4>2. Hit(f.policy, f.name, moment) = <<>> /\ Ending(f.at) = <<>> /\ Reached(f.at, <<>>)
        BY <1>6, <1>8, <3>1 DEF Ending, Reached
      <4>3. Verdict(f, asked)
        BY <4>1, <4>2 DEF Verdict
      <4>4. QED BY <3>1, <4>3 DEF Speaks, Early
    <3>3. QED BY <1>7, <3>1, <3>2
  <2>3. QED BY <1>1, <2>1, <2>2, StepsOf, NoStep, GoodOn DEF e, h
<1>9. CASE hit # <<>>
  <2>1. PICK x : hit = <<x>> /\ x.step \in RuleSteps /\ Said(e.policy, e.name, x)
    BY <1>4, <1>9
  <2>2. hit[1] = x
    BY <2>1
  <2>3. IsTrail(hit) /\ Steps(hit) = {x}
    BY <2>1, OneStep, StepsOf DEF RuleSteps
  <2>4. PICK where \in {"allow", "block"} :
          /\ Rule!At(t, where, hit)
          /\ where = "allow" <=> hit[1].step = "AllowlistHit"
    BY <1>2, <1>9 DEF hit
  <2>5. ASSUME NEW f, Onward(e, f, where, hit)
        PROVE  /\ \A asked : IsOpening(asked) /\ Speaks(e, asked) => Speaks(f, asked)
               /\ Rooted(f) /\ Obeyed(f, h, ruleGrants, ruleDenied, ruleNow)
    <3>1. /\ f.at = where /\ f.name = e.name /\ f.policy = e.policy
          /\ f.trace = e.trace \o hit
      BY <2>5 DEF Onward
    <3>2. ASSUME NEW asked, IsOpening(asked), Speaks(e, asked) PROVE Speaks(f, asked)
      <4>1. f.trace = asked \o hit
        BY <1>1, <3>1, <3>2 DEF Speaks, Early
      <4>2. (asked \o hit) \o <<>> = asked \o hit
        <5>1. IsTrail(asked \o hit)
          BY <2>3, <3>2, TrailGrows DEF IsOpening
        <5>2. QED BY <5>1, NothingMore
      <4>3. Hit(f.policy, f.name, moment) = hit /\ Ending(f.at) = <<>> /\ Reached(f.at, hit)
        BY <1>6, <1>9, <2>4, <3>1 DEF Ending, Reached
      <4>4. Verdict(f, asked)
        BY <4>1, <4>2, <4>3 DEF Verdict
      <4>5. QED BY <2>4, <3>1, <4>4 DEF Speaks, Early
    <3>3. QED BY <1>7, <2>4, <3>1, <3>2
  <2>6. QED BY <1>1, <2>1, <2>3, <2>4, <2>5, GoodOn DEF e, h
<1>10. QED BY <1>8, <1>9

LEMMA NameStays ==
  ASSUME HumanInv, BooksInv', NEW t \in RuleThreads, NEW others, Rule!InspectName(t, others)
  PROVE  HumanInv'
<1> DEFINE e == ruleThread[t]
           h == ruleHeld[t]
<1>1. /\ e.at = "odd?" /\ e # Rule!Idle
      /\ UNCHANGED <<ruleSet, ruleGrants, ruleDenied, ruleNow, ruleHeld>>
  BY DEF Rule!InspectName, Rule!rules, Rule!orders, Rule!Idle
<1>2. PICK scores :
        LET found == Rule!Inspected(ruleDetectors.names, scores)
        IN  Rule!At(t, IF Rule!Blocks(found) THEN "block" ELSE "pass", Rule!Detected(found))
  BY DEF Rule!InspectName
<1> DEFINE found == Rule!Inspected(ruleDetectors.names, scores)
           steps == Rule!Detected(found)
           where == IF Rule!Blocks(found) THEN "block" ELSE "pass"
<1>3. Good(e, h, ruleGrants, ruleDenied, ruleNow)
  BY <1>1, IsGood
<1>4. Entries(ruleDetectors.names)
  BY DEF HumanInv, BooksInv
<1>5. IsTrail(steps)
  BY <1>4, DetectedIs
<1>6. /\ \A x \in Steps(steps) : x.step = "Detected"
      /\ Steps(steps) = {} => steps = <<>> /\ ~Rule!Blocks(found)
  BY <1>4, DetectedSteps
<1>7. Rule!At(t, where, steps)
  BY <1>2
<1>8. where \in {"pass", "block"} /\ (Steps(steps) = {} => where = "pass")
  BY <1>6
<1> HIDE DEF e, h, found, steps, where
<1>9. \A x \in Steps(steps) : Said(e.policy, e.name, x)
  BY <1>6, NoListsSaid
<1>10. e.name # Rule!Root /\ "grant" \notin h /\ "denial" \notin h
  BY <1>1, <1>3 DEF Good, Rooted, Obeyed
<1>11. ASSUME NEW f, Onward(e, f, where, steps)
       PROVE  /\ \A asked : IsOpening(asked) /\ Speaks(e, asked) => Speaks(f, asked)
              /\ Rooted(f) /\ Obeyed(f, h, ruleGrants, ruleDenied, ruleNow)
  <2>1. /\ f.at = where /\ f.name = e.name /\ f.policy = e.policy
        /\ f.trace = e.trace \o steps /\ Steps(f.trace) = Steps(e.trace) \cup Steps(steps)
        /\ IsTrail(e.trace)
    BY <1>11 DEF Onward
  <2>2. Rooted(f) /\ Obeyed(f, h, ruleGrants, ruleDenied, ruleNow)
    BY <1>8, <1>10, <2>1 DEF Rooted, Obeyed
  <2>3. ASSUME NEW asked, IsOpening(asked), Speaks(e, asked) PROVE Speaks(f, asked)
    <3>1. f.at \notin Early /\ e.at \in Spoken
      BY <1>1, <1>8, <2>1 DEF Early, Spoken
    <3>2. CASE Steps(steps) # {}
      <4>1. ~ByRules(f.trace)
        BY <1>6, <2>1, <3>2 DEF ByRules
      <4>2. QED BY <3>1, <4>1 DEF Speaks
    <3>3. CASE Steps(steps) = {}
      <4>1. steps = <<>> /\ f.at = "pass"
        BY <1>6, <1>8, <2>1, <3>3
      <4>2. f.trace = e.trace
        BY <2>1, <4>1, NothingMore
      <4>3. SUFFICES ASSUME ByRules(e.trace) PROVE Verdict(f, asked)
        BY <3>1, <4>2 DEF Speaks
      <4>4. Verdict(e, asked)
        BY <2>3, <3>1, <4>3 DEF Speaks
      <4>5. QED BY <1>1, <2>1, <4>1, <4>2, <4>4 DEF Verdict, Reached, Ending
    <3>4. QED BY <3>2, <3>3
  <2>4. QED BY <2>2, <2>3
<1>12. QED BY <1>1, <1>5, <1>7, <1>9, <1>11, GoodOn DEF e, h

LEMMA PassStays ==
  ASSUME HumanInv, BooksInv', NEW t \in RuleThreads, Rule!Pass(t)
  PROVE  HumanInv'
<1> DEFINE e == ruleThread[t]
           h == ruleHeld[t]
<1>1. /\ e.at = "pass" /\ Rule!At(t, "allow", <<>>) /\ e # Rule!Idle
      /\ UNCHANGED <<ruleSet, ruleGrants, ruleDenied, ruleNow, ruleHeld>>
  BY DEF Rule!Pass, Rule!rules, Rule!orders, Rule!Idle
<1>2. Good(e, h, ruleGrants, ruleDenied, ruleNow)
  BY <1>1, IsGood
<1> HIDE DEF e, h
<1>3. e.name # Rule!Root /\ "grant" \notin h /\ "denial" \notin h
  BY <1>1, <1>2 DEF Good, Rooted, Obeyed
<1>4. ASSUME NEW f, Onward(e, f, "allow", <<>>)
      PROVE  /\ \A asked : IsOpening(asked) /\ Speaks(e, asked) => Speaks(f, asked)
             /\ Rooted(f) /\ Obeyed(f, h, ruleGrants, ruleDenied, ruleNow)
  <2>1. f.at = "allow" /\ f.name = e.name /\ f.policy = e.policy /\ f.trace = e.trace
    BY <1>4, NothingMore DEF Onward
  <2>2. Rooted(f) /\ Obeyed(f, h, ruleGrants, ruleDenied, ruleNow)
    BY <1>3, <2>1 DEF Rooted, Obeyed
  <2>3. ASSUME NEW asked, IsOpening(asked), Speaks(e, asked) PROVE Speaks(f, asked)
    <3>1. f.at \notin Early /\ e.at \in Spoken
      BY <1>1, <2>1 DEF Early, Spoken
    <3>2. SUFFICES ASSUME ByRules(e.trace) PROVE Verdict(f, asked)
      BY <2>1, <3>1 DEF Speaks
    <3>3. Verdict(e, asked)
      BY <2>3, <3>1, <3>2 DEF Speaks
    <3>4. QED BY <1>1, <2>1, <3>3 DEF Verdict, Reached, Ending
  <2>4. QED BY <2>2, <2>3
<1>5. QED BY <1>1, <1>4, StepsOf, NoStep, GoodOn DEF e, h

LEMMA BlockStays ==
  ASSUME HumanInv, BooksInv', NEW t \in RuleThreads, Rule!Block(t)
  PROVE  HumanInv'
<1> DEFINE e == ruleThread[t]
           h == ruleHeld[t]
           x == Rule!Synthesized
<1>1. /\ e.at = "block" /\ Rule!At(t, "blocked", <<x>>) /\ e # Rule!Idle
      /\ UNCHANGED <<ruleSet, ruleGrants, ruleDenied, ruleNow, ruleHeld>>
  BY DEF Rule!Block, Rule!rules, Rule!orders, Rule!Idle
<1>2. Good(e, h, ruleGrants, ruleDenied, ruleNow)
  BY <1>1, IsGood
<1>3. x.step = "Synthesized"
  BY DEF Rule!Synthesized
<1> HIDE DEF e, h, x
<1>4. IsTrail(<<x>>) /\ Steps(<<x>>) = {x} /\ Said(e.policy, e.name, x)
  BY <1>3, OneStep, StepsOf, NoListsSaid
<1>5. ASSUME NEW f, Onward(e, f, "blocked", <<x>>)
      PROVE  /\ \A asked : IsOpening(asked) /\ Speaks(e, asked) => Speaks(f, asked)
             /\ Rooted(f) /\ Obeyed(f, h, ruleGrants, ruleDenied, ruleNow)
  <2>1. /\ f.at = "blocked" /\ f.name = e.name /\ f.policy = e.policy
        /\ f.trace = e.trace \o <<x>> /\ Steps(f.trace) = Steps(e.trace) \cup {x}
        /\ IsTrail(e.trace)
    BY <1>4, <1>5 DEF Onward
  <2>2. Has(f.trace, "BlocklistHit") => Has(e.trace, "BlocklistHit")
    BY <1>3, <2>1 DEF Has
  <2>3. Rooted(f) /\ Obeyed(f, h, ruleGrants, ruleDenied, ruleNow)
    BY <1>1, <1>2, <2>1, <2>2 DEF Good, Rooted, Obeyed
  <2>4. ASSUME NEW asked, IsOpening(asked), Speaks(e, asked) PROVE Speaks(f, asked)
    <3>1. f.at \notin Early /\ e.at \in Spoken
      BY <1>1, <2>1 DEF Early, Spoken
    <3>2. ByRules(f.trace) => ByRules(e.trace)
      BY <2>1 DEF ByRules
    <3>3. SUFFICES ASSUME ByRules(e.trace) PROVE Verdict(f, asked)
      BY <3>1, <3>2 DEF Speaks
    <3>4. Verdict(e, asked)
      BY <2>4, <3>1, <3>3 DEF Speaks
    <3>5. PICK moment \in RuleMoments :
            /\ Reached(e.at, Hit(e.policy, e.name, moment))
            /\ e.trace = (asked \o Hit(e.policy, e.name, moment)) \o Ending(e.at)
      BY <3>4 DEF Verdict
    <3> DEFINE hit == Hit(e.policy, e.name, moment)
    <3>6. IsHit(hit)
      <4>1. hit = <<>> \/ hit = Rule!RuleHit(e.policy, e.name, moment)
        BY DEF Hit
      <4>2. IsHit(<<>>)
        BY DEF IsHit
      <4>3. QED BY <4>1, <4>2, HitIs
    <3> HIDE DEF hit
    <3>7. (asked \o hit) \o <<>> = asked \o hit
      <4>1. IsTrail(hit)
        <5>1. CASE hit = <<>>
          BY <5>1, NoStep
        <5>2. CASE hit = <<hit[1]>> /\ hit[1].step \in RuleSteps
          <6> DEFINE y == hit[1]
          <6>1. hit = <<y>> /\ y.step # "Detected"
            BY <5>2 DEF RuleSteps
          <6> HIDE DEF y
          <6>2. QED BY <6>1, OneStep
        <5>3. QED BY <3>6, <5>1, <5>2 DEF IsHit
      <4>2. IsTrail(asked \o hit)
        BY <2>4, <4>1, TrailGrows DEF IsOpening
      <4>3. QED BY <4>2, NothingMore
    <3>8. Ending(e.at) = <<>> /\ Ending(f.at) = <<x>>
      BY <1>1, <2>1 DEF Ending, x
    <3>9. f.trace = (asked \o hit) \o Ending(f.at)
      BY <2>1, <3>5, <3>7, <3>8 DEF hit
    <3>10. Reached(f.at, hit) /\ hit = Hit(f.policy, f.name, moment)
      BY <1>1, <2>1, <3>5 DEF Reached, hit
    <3>11. QED BY <3>9, <3>10 DEF Verdict
  <2>5. QED BY <2>3, <2>4
<1>6. QED BY <1>1, <1>4, <1>5, GoodOn DEF e, h

(* What comes after the verdict, only the question's own business: *)
(* nothing that was found then names a list. *)
LEMMA AfterwardsStays ==
  ASSUME HumanInv, BooksInv', NEW t \in RuleThreads, ruleThread[t] # Rule!Idle,
         NEW where \in {"private?", "log"}, NEW steps, IsTrail(steps), Rule!At(t, where, steps),
         UNCHANGED <<ruleSet, ruleGrants, ruleDenied, ruleNow, ruleHeld>>,
         \A x \in Steps(steps) : x.step \notin {"BlocklistHit", "AllowlistHit"}
  PROVE  HumanInv'
<1> DEFINE e == ruleThread[t]
           h == ruleHeld[t]
<1>1. Good(e, h, ruleGrants, ruleDenied, ruleNow)
  BY IsGood
<1>2. \A x \in Steps(steps) : Said(e.policy, e.name, x)
  BY NoListsSaid
<1> HIDE DEF e, h
<1>3. ASSUME NEW f, Onward(e, f, where, steps)
      PROVE  /\ \A asked : IsOpening(asked) /\ Speaks(e, asked) => Speaks(f, asked)
             /\ Rooted(f) /\ Obeyed(f, h, ruleGrants, ruleDenied, ruleNow)
  <2>1. f.at \in {"private?", "log"} /\ f.name = e.name
    BY <1>3 DEF Onward
  <2>2. \A asked : Speaks(f, asked)
    BY <2>1 DEF Speaks, Early, Spoken
  <2>3. QED BY <1>1, <2>1, <2>2 DEF Good, Rooted, Obeyed
<1>4. QED BY <1>2, <1>3, GoodOn DEF e, h

LEMMA ResolveStays ==
  ASSUME HumanInv, BooksInv', NEW t \in RuleThreads, Rule!Resolve(t)
  PROVE  HumanInv'
<1>1. /\ ruleThread[t] # Rule!Idle
      /\ UNCHANGED <<ruleSet, ruleGrants, ruleDenied, ruleNow, ruleHeld>>
  BY DEF Rule!Resolve, Rule!rules, Rule!orders, Rule!Idle
<1>2. CASE Rule!At(t, "log", <<>>)
  BY <1>1, <1>2, NoStep, StepsOf, AfterwardsStays
<1>3. ASSUME NEW s \in Rule!Sources,
             Rule!At(t, IF s = "FailureCached" THEN "log" ELSE "private?", <<[step |-> s]>>)
      PROVE  HumanInv'
  <2> DEFINE x == [step |-> s]
             where == IF s = "FailureCached" THEN "log" ELSE "private?"
  <2>1. x.step \in Rule!Sources /\ where \in {"private?", "log"} /\ Rule!At(t, where, <<x>>)
    BY <1>3
  <2> HIDE DEF x, where
  <2>2. x.step \notin {"Detected", "BlocklistHit", "AllowlistHit"}
    BY <2>1 DEF Rule!Sources
  <2>3. IsTrail(<<x>>) /\ Steps(<<x>>) = {x}
    BY <2>2, OneStep, StepsOf
  <2>4. QED BY <1>1, <2>1, <2>2, <2>3, AfterwardsStays
<1>4. QED BY <1>2, <1>3 DEF Rule!Resolve

LEMMA AnswerStays ==
  ASSUME HumanInv, BooksInv', NEW t \in RuleThreads, NEW response,
         Rule!InspectAnswer(t, response)
  PROVE  HumanInv'
<1>1. /\ ruleThread[t] # Rule!Idle
      /\ UNCHANGED <<ruleSet, ruleGrants, ruleDenied, ruleNow, ruleHeld>>
  BY DEF Rule!InspectAnswer, Rule!rules, Rule!orders, Rule!Idle
<1>2. PICK scores :
        LET seen == Rule!Detected(Rule!Inspected(ruleDetectors.answers, scores))
        IN  \/ Rule!At(t, "log", Append(seen, Rule!Synthesized))
            \/ Rule!At(t, "log", seen)
  BY DEF Rule!InspectAnswer
<1> DEFINE seen == Rule!Detected(Rule!Inspected(ruleDetectors.answers, scores))
           x == Rule!Synthesized
<1>3. Entries(ruleDetectors.answers)
  BY DEF HumanInv, BooksInv
<1>4. IsTrail(seen) /\ \A y \in Steps(seen) : y.step = "Detected"
  BY <1>3, DetectedIs, DetectedSteps
<1>5. x.step = "Synthesized"
  BY DEF Rule!Synthesized
<1> HIDE DEF seen, x
<1>6. CASE Rule!At(t, "log", seen)
  BY <1>1, <1>4, <1>6, AfterwardsStays
<1>7. CASE Rule!At(t, "log", Append(seen, x))
  <2>1. IsTrail(<<x>>) /\ Steps(<<x>>) = {x}
    BY <1>5, OneStep, StepsOf
  <2>2. Append(seen, x) = seen \o <<x>>
    <3>1. PICK S : seen \in Seq(S)
      BY <1>4 DEF IsTrail
    <3>2. QED BY <3>1
  <2>3. IsTrail(seen \o <<x>>) /\ Steps(seen \o <<x>>) = Steps(seen) \cup {x}
    BY <1>4, <2>1, TrailGrows, StepsGrow
  <2> DEFINE steps == seen \o <<x>>
  <2>4. /\ IsTrail(steps) /\ Rule!At(t, "log", steps)
        /\ \A y \in Steps(steps) : y.step \notin {"BlocklistHit", "AllowlistHit"}
    BY <1>4, <1>5, <1>7, <2>2, <2>3
  <2> HIDE DEF steps
  <2>5. QED BY <1>1, <2>4, AfterwardsStays
<1>8. QED BY <1>2, <1>6, <1>7 DEF seen, x

LEMMA RefuseStays ==
  ASSUME HumanInv, BooksInv', NEW t \in RuleThreads, Rule!Refuse(t)
  PROVE  HumanInv'
<1>1. /\ ruleThread[t] # Rule!Idle /\ Rule!At(t, "log", <<>>)
      /\ UNCHANGED <<ruleSet, ruleGrants, ruleDenied, ruleNow, ruleHeld>>
  BY DEF Rule!Refuse, Rule!rules, Rule!orders, Rule!Idle
<1>2. QED BY <1>1, NoStep, StepsOf, AfterwardsStays

LEMMA EndStays ==
  ASSUME HumanInv, BooksInv', NEW t \in RuleThreads, Rule!Explained(t) \/ Rule!Log(t)
  PROVE  HumanInv'
<1>1. /\ ruleThread' = [ruleThread EXCEPT ![t] = Rule!Idle]
      /\ ruleHeld' = [ruleHeld EXCEPT ![t] = {}]
      /\ UNCHANGED <<ruleSet, ruleGrants, ruleDenied, ruleNow>>
  BY DEF Rule!Explained, Rule!Log, Rule!rules, Rule!orders
<1>2. DOMAIN ruleThread = RuleThreads /\ DOMAIN ruleHeld = RuleThreads
  BY DEF HumanInv, BooksInv, Threading, Obeying
<1>3. /\ Others(ruleThread, ruleThread', t) /\ ruleThread'[t] = Rule!Idle
      /\ DOMAIN ruleHeld' = RuleThreads /\ \A u \in RuleThreads \ {t} : ruleHeld'[u] = ruleHeld[u]
  BY <1>1, <1>2 DEF Others
<1>4. QED BY <1>1, <1>3, GoodStep

(* An evaluation begins with what holds for its name, and whose it is. *)
LEMMA BeginStays ==
  ASSUME HumanInv, BooksInv', NEW t \in RuleThreads, NEW kind, NEW host, NEW name,
         Rule!Begin(t, kind, host, name)
  PROVE  HumanInv'
<1> DEFINE who == Rule!Identify(ruleSet.clients, host)
           whose == Rule!PolicyOf(ruleSet, who.policy)
           f == ruleThread'[t]
           h == ruleHeld'[t]
<1>1. /\ ruleThread' = [ruleThread EXCEPT ![t] =
           [at |-> IF name = Rule!Root THEN "root" ELSE "granted?",
            kind |-> kind, host |-> host, name |-> name, policy |-> whose,
            trace |-> Rule!Asked(who, whose)]]
      /\ ruleHeld' = [ruleHeld EXCEPT ![t] =
           (IF Rule!Holds(ruleGrants, name, ruleNow) THEN {"grant"} ELSE {})
           \cup (IF Rule!Holds(ruleDenied, name, ruleNow) THEN {"denial"} ELSE {})]
      /\ UNCHANGED <<ruleSet, ruleGrants, ruleDenied, ruleNow>>
  BY DEF Rule!Begin, Rule!rules, Rule!orders
<1>2. DOMAIN ruleThread = RuleThreads /\ DOMAIN ruleHeld = RuleThreads /\ ruleSet \in RuleRuleSets
  BY DEF HumanInv, BooksInv, Threading, Obeying
<1> HIDE DEF whose
<1>3. /\ Others(ruleThread, ruleThread', t)
      /\ DOMAIN ruleHeld' = RuleThreads /\ \A u \in RuleThreads \ {t} : ruleHeld'[u] = ruleHeld[u]
  BY <1>1, <1>2 DEF Others
<1>4. /\ f.at = IF name = Rule!Root THEN "root" ELSE "granted?"
      /\ f.host = host /\ f.name = name /\ f.policy = whose /\ f.trace = Rule!Asked(who, whose)
  BY <1>1, <1>2
<1>5. /\ "grant" \in h => Rule!Holds(ruleGrants, name, ruleNow)
      /\ "denial" \in h => Rule!Holds(ruleDenied, name, ruleNow)
  BY <1>1, <1>2
<1> HIDE DEF f, h
<1>6. Told(f)
  <2>1. Begun(f, ruleSet) /\ Opening(f, ruleSet) = f.trace
    BY <1>4 DEF Begun, Opening, whose
  <2>2. Speaks(f, f.trace)
    BY <1>4 DEF Speaks, Spoken
  <2>3. QED BY <1>2, <2>1, <2>2 DEF Told
<1>7. Rooted(f)
  BY <1>4 DEF Rooted
<1>8. AllSaid(f)
  BY <1>4, AskedIs, NoListsSaid DEF AllSaid
<1>9. Obeyed(f, h, ruleGrants, ruleDenied, ruleNow)
  BY <1>4, <1>5 DEF Obeyed
<1>10. Good(f, h, ruleGrants, ruleDenied, ruleNow)
  BY <1>6, <1>7, <1>8, <1>9 DEF Good
<1>11. QED BY <1>1, <1>3, <1>10, GoodStep DEF f, h

(* The human, the clock, and the reload: what holds no longer is forgotten, *)
(* and the evaluations keep the rules they have.                            *)
LEMMA OrdersStay ==
  ASSUME HumanInv, BooksInv', ruleThread' = ruleThread, ruleSet' \in RuleRuleSets,
         Rule!StillHeld(ruleGrants', ruleDenied', ruleNow')
  PROVE  HumanInv'
<1>1. /\ DOMAIN ruleHeld' = RuleThreads
      /\ \A t \in RuleThreads : ruleThread[t] # Rule!Idle =>
           ruleHeld'[t] = {o \in ruleHeld[t] :
                             Rule!Holds(IF o = "grant" THEN ruleGrants' ELSE ruleDenied',
                                        ruleThread[t].name, ruleNow')}
  BY DEF Rule!StillHeld
<1>2. ASSUME NEW t \in RuleThreads, ruleThread[t] # Rule!Idle
      PROVE  Good(ruleThread'[t], ruleHeld'[t], ruleGrants', ruleDenied', ruleNow')
  <2> DEFINE e == ruleThread[t]
             h == ruleHeld[t]
             h2 == ruleHeld'[t]
  <2>1. Good(e, h, ruleGrants, ruleDenied, ruleNow)
    BY <1>2, IsGood
  <2>2. /\ h2 \subseteq h
        /\ "grant" \in h2 => Rule!Holds(ruleGrants', e.name, ruleNow')
        /\ "denial" \in h2 => Rule!Holds(ruleDenied', e.name, ruleNow')
    BY <1>1, <1>2
  <2> HIDE DEF e, h, h2
  <2>3. Obeyed(e, h2, ruleGrants', ruleDenied', ruleNow')
    BY <2>1, <2>2 DEF Good, Obeyed
  <2>4. Good(e, h2, ruleGrants', ruleDenied', ruleNow')
    BY <2>1, <2>3 DEF Good
  <2>5. QED BY <2>4 DEF e, h2
<1>3. Obeying(ruleThread', ruleHeld', ruleGrants', ruleDenied', ruleNow')
  BY <1>1, <1>2 DEF Obeying
<1>4. QED BY <1>3 DEF HumanInv

LEMMA NothingOrdered ==
  ASSUME HumanInv, BooksInv', ruleSet' \in RuleRuleSets,
         UNCHANGED <<ruleThread, ruleHeld, ruleGrants, ruleDenied, ruleNow>>
  PROVE  HumanInv'
<1>1. Obeying(ruleThread, ruleHeld, ruleGrants, ruleDenied, ruleNow)
  BY DEF HumanInv
<1>2. Obeying(ruleThread', ruleHeld', ruleGrants', ruleDenied', ruleNow')
  BY <1>1
<1>3. QED BY <1>2 DEF HumanInv

LEMMA HumanStep == HumanInv /\ [Rule!Next]_(Rule!vars) => HumanInv'
<1> SUFFICES ASSUME HumanInv, [Rule!Next]_(Rule!vars) PROVE HumanInv'
  OBVIOUS
<1>0. BooksInv' /\ ruleSet \in RuleRuleSets
  BY BooksStep DEF HumanInv
<1>1. CASE UNCHANGED Rule!vars
  BY <1>0, <1>1, NothingOrdered DEF Rule!vars
<1>2. CASE Rule!Tick
  BY <1>0, <1>2, OrdersStay DEF Rule!Tick, Rule!rules
<1>3. CASE Rule!Replace
  BY <1>0, <1>3, NothingOrdered DEF Rule!Replace, Rule!orders
<1>4. ASSUME NEW d \in RuleDomains, Rule!Grant(d) \/ Rule!Revoke(d) \/ Rule!Deny(d) \/ Rule!Undeny(d)
      PROVE  HumanInv'
  <2>1. /\ ruleThread' = ruleThread /\ ruleSet' = ruleSet
        /\ Rule!StillHeld(ruleGrants', ruleDenied', ruleNow')
    <3>1. CASE Rule!Grant(d)
      BY <3>1 DEF Rule!Grant, Rule!rules, Rule!StillHeld
    <3>2. CASE Rule!Revoke(d)
      BY <3>2 DEF Rule!Revoke, Rule!rules, Rule!StillHeld
    <3>3. CASE Rule!Deny(d)
      BY <3>3 DEF Rule!Deny, Rule!rules, Rule!StillHeld
    <3>4. CASE Rule!Undeny(d)
      BY <3>4 DEF Rule!Undeny, Rule!rules, Rule!StillHeld
    <3>5. QED BY <1>4, <3>1, <3>2, <3>3, <3>4
  <2>2. QED BY <1>0, <2>1, OrdersStay
<1>5. ASSUME NEW t \in RuleThreads, Rule!Evaluate(t) PROVE HumanInv'
  <2>1. CASE Rule!PassRoot(t)
    BY <1>0, <2>1, RootStays
  <2>2. CASE Rule!CheckGrant(t)
    BY <1>0, <2>2, GrantStays
  <2>3. CASE Rule!CheckDenial(t)
    BY <1>0, <2>3, DenialStays
  <2>4. CASE Rule!CheckRules(t)
    BY <1>0, <2>4, RulesStay
  <2>5. ASSUME NEW others \in RuleSuspicions, Rule!InspectName(t, others) PROVE HumanInv'
    BY <1>0, <2>5, NameStays
  <2>6. CASE Rule!Pass(t)
    BY <1>0, <2>6, PassStays
  <2>7. CASE Rule!Block(t)
    BY <1>0, <2>7, BlockStays
  <2>8. CASE Rule!Resolve(t)
    BY <1>0, <2>8, ResolveStays
  <2>9. ASSUME NEW response \in RuleResponses, Rule!InspectAnswer(t, response) PROVE HumanInv'
    BY <1>0, <2>9, AnswerStays
  <2>10. CASE Rule!Refuse(t)
    BY <1>0, <2>10, RefuseStays
  <2>11. CASE Rule!Explained(t) \/ Rule!Log(t)
    BY <1>0, <2>11, EndStays
  <2>12. QED
    BY <1>5, <2>1, <2>2, <2>3, <2>4, <2>5, <2>6, <2>7, <2>8, <2>9, <2>10, <2>11 DEF Rule!Evaluate
<1>6. ASSUME NEW t \in RuleThreads, NEW kind \in Rule!Kinds, NEW host \in RuleHosts,
             NEW name \in RuleQuestions, Rule!Begin(t, kind, host, name)
      PROVE  HumanInv'
  BY <1>0, <1>6, BeginStays
<1>7. QED BY <1>1, <1>2, <1>3, <1>4, <1>5, <1>6 DEF Rule!Next

(* What the invariant says of one evaluation. *)
LEMMA PageNamesNoList ==
  ASSUME NEW trace, IsTrail(trace), ~Has(trace, "BlocklistHit")
  PROVE  Rule!BlockCause(trace, TRUE) = "Rule"
<1>1. Len(trace) \in Nat /\ DOMAIN trace = 1 .. Len(trace)
  BY DEF IsTrail
<1> DEFINE places == {i \in DOMAIN trace : trace[i].step \in Rule!DecidingKinds}
           deciding == Rule!LastOf(trace, places)
<1>2. Rule!BlockCause(trace, TRUE)
        = IF \E s \in deciding : s.step = "BlocklistHit" THEN "List" ELSE "Rule"
  BY DEF Rule!BlockCause
<1>3. places \subseteq 1 .. Len(trace)
  BY <1>1
<1> HIDE DEF places
<1>4. CASE places = {}
  BY <1>2, <1>4 DEF Rule!LastOf
<1>5. CASE places # {}
  <2>1. Rule!Max(places) \in 1 .. Len(trace)
    BY <1>1, <1>3, <1>5, LastPlace
  <2> DEFINE m == Rule!Max(places)
  <2>2. deciding = {trace[m]}
    BY <1>5 DEF Rule!LastOf
  <2> HIDE DEF m, deciding
  <2>3. trace[m].step # "BlocklistHit"
    BY <2>1 DEF Has, Steps, m
  <2>4. QED BY <1>2, <2>2, <2>3
<1>6. QED BY <1>4, <1>5

LEMMA LinesNamed ==
  ASSUME NEW e, IsTrail(e.trace), AllSaid(e)
  PROVE  Rule!LinesAreNamed(e)
<1>1. DOMAIN e.trace = 1 .. Len(e.trace)
  BY DEF IsTrail
<1>2. \A i \in DOMAIN e.trace : Said(e.policy, e.name, e.trace[i])
  BY <1>1 DEF AllSaid, Steps
<1>3. QED BY <1>2 DEF Said, Rule!LinesAreNamed

LEMMA TestsAgree ==
  ASSUME NEW e, IsTrail(e.trace), Told(e)
  PROVE  Rule!TestedTheSame(e)
<1> SUFFICES ASSUME Rule!ByRulesAlone(e)
             PROVE  \E rules \in RuleRuleSets, moment \in RuleMoments :
                      Rule!Tested(rules, e.host, e.name, moment)
                        = [blocked |-> e.at = "blocked", steps |-> e.trace]
  BY DEF Rule!TestedTheSame
<1>1. e.at \in {"allow", "blocked"} /\ ByRules(e.trace)
  <2>1. DOMAIN e.trace = 1 .. Len(e.trace)
    BY DEF IsTrail
  <2>2. QED BY <2>1 DEF Rule!ByRulesAlone, ByRules, Steps
<1>2. PICK rules \in RuleRuleSets : Begun(e, rules) /\ Speaks(e, Opening(e, rules))
  BY DEF Told
<1> DEFINE asked == Opening(e, rules)
           who == Rule!Identify(rules.clients, e.host)
           whose == Rule!PolicyOf(rules, who.policy)
<1>3. Verdict(e, asked)
  BY <1>1, <1>2 DEF Speaks, Spoken
<1>4. PICK moment \in RuleMoments :
        /\ Reached(e.at, Hit(e.policy, e.name, moment))
        /\ e.trace = (asked \o Hit(e.policy, e.name, moment)) \o Ending(e.at)
  BY <1>3 DEF Verdict
<1> DEFINE hit == Hit(e.policy, e.name, moment)
           blocked == hit # <<>> /\ hit[1].step # "AllowlistHit"
<1>5. e.policy = whose /\ asked = Rule!Asked(who, whose)
  BY <1>2 DEF Begun, Opening
<1>6. hit = IF e.name = Rule!Root THEN <<>> ELSE Rule!RuleHit(whose, e.name, moment)
  BY <1>5 DEF Hit
<1>7. Rule!Tested(rules, e.host, e.name, moment)
        = [blocked |-> blocked,
           steps |-> (asked \o hit) \o (IF blocked THEN <<Rule!Synthesized>> ELSE <<>>)]
  BY <1>5, <1>6 DEF Rule!Tested
<1> HIDE DEF hit, asked, who, whose
<1>8. CASE e.at = "allow"
  <2>1. blocked = FALSE /\ (e.at = "blocked") = FALSE
    BY <1>4, <1>8 DEF Reached, hit
  <2>2. Ending(e.at) = <<>>
    BY <1>8 DEF Ending
  <2> HIDE DEF blocked
  <2>3. e.trace = (asked \o hit) \o (IF blocked THEN <<Rule!Synthesized>> ELSE <<>>)
    BY <1>4, <2>1, <2>2 DEF hit
  <2>4. QED BY <1>7, <2>1, <2>3
<1>9. CASE e.at = "blocked"
  <2>1. blocked = TRUE /\ (e.at = "blocked") = TRUE
    BY <1>4, <1>9 DEF Reached, hit
  <2>2. Ending(e.at) = <<Rule!Synthesized>>
    BY <1>9 DEF Ending
  <2> HIDE DEF blocked
  <2>3. e.trace = (asked \o hit) \o (IF blocked THEN <<Rule!Synthesized>> ELSE <<>>)
    BY <1>4, <2>1, <2>2 DEF hit
  <2>4. QED BY <1>7, <2>1, <2>3
<1>10. QED BY <1>1, <1>8, <1>9

(* policy/mod.rs:360, filter/parser.rs:76, main.rs:1381: what a human has  *)
(* ordered is stronger than any list, what is put down to a list stands in *)
(* the line that is named, and an explanation is what `policy test` says,  *)
(* for any rules, questions, orders and detectors, and however many        *)
(* evaluations there are at a time.                                        *)
THEOREM OrdersObeyed == Rule!Spec => []HumanDecisionsHold
<1>1. Rule!Init => HumanInv
  <2> SUFFICES ASSUME Rule!Init PROVE HumanInv
    OBVIOUS
  <2>1. BooksInv
    BY BooksStart
  <2>2. /\ \A t \in RuleThreads : ruleThread[t] = Rule!Idle
        /\ DOMAIN ruleHeld = RuleThreads /\ ruleSet \in RuleRuleSets
    BY DEF Rule!Init
  <2>3. QED BY <2>1, <2>2 DEF HumanInv, Obeying
<1>2. HumanInv /\ [Rule!Next]_(Rule!vars) => HumanInv'
  BY HumanStep
<1>3. HumanInv => HumanDecisionsHold
  <2> SUFFICES ASSUME HumanInv PROVE Rule!HumanDecisionsHold
    BY DEF HumanDecisionsHold
  <2> SUFFICES ASSUME NEW t \in RuleThreads
               PROVE  /\ "grant" \in ruleHeld[t] => ruleThread[t].at \notin {"block", "blocked"}
                      /\ "denial" \in ruleHeld[t] /\ ruleThread[t].at \in {"allow", "pass"}
                           /\ ruleThread[t].name # Rule!Root
                           => \E i \in DOMAIN ruleThread[t].trace :
                                ruleThread[t].trace[i].step = "TemporaryAllow"
                      /\ "denial" \in ruleHeld[t] /\ ruleThread[t].at = "blocked"
                           => Rule!BlockCause(ruleThread[t].trace, TRUE) = "Rule"
                      /\ ruleThread[t] # Rule!Idle
                           => Rule!LinesAreNamed(ruleThread[t]) /\ Rule!TestedTheSame(ruleThread[t])
    BY DEF Rule!HumanDecisionsHold
  <2> DEFINE e == ruleThread[t]
             h == ruleHeld[t]
  <2>1. CASE e = Rule!Idle
    <3>1. e.at = "idle"
      BY <2>1 DEF Rule!Idle
    <3>2. QED BY <2>1, <3>1
  <2>2. CASE e # Rule!Idle
    <3>1. Good(e, h, ruleGrants, ruleDenied, ruleNow)
      BY <2>2, IsGood
    <3>2. IsTrail(e.trace)
      BY <2>2 DEF HumanInv, BooksInv, Threading, Evaluation
    <3> HIDE DEF e, h
    <3>3. DOMAIN e.trace = 1 .. Len(e.trace)
      BY <3>2 DEF IsTrail
    <3>4. Rule!LinesAreNamed(e) /\ Rule!TestedTheSame(e)
      BY <3>1, <3>2, LinesNamed, TestsAgree DEF Good
    <3>5. "grant" \in h => e.at \notin {"block", "blocked"}
      BY <3>1 DEF Good, Obeyed
    <3>6. ASSUME "denial" \in h, e.at \in {"allow", "pass"}, e.name # Rule!Root
          PROVE  \E i \in DOMAIN e.trace : e.trace[i].step = "TemporaryAllow"
      <4>1. Has(e.trace, "TemporaryAllow")
        BY <3>1, <3>6 DEF Good, Obeyed
      <4>2. QED BY <3>3, <4>1 DEF Has, Steps
    <3>7. ASSUME "denial" \in h, e.at = "blocked"
          PROVE  Rule!BlockCause(e.trace, TRUE) = "Rule"
      BY <3>1, <3>2, <3>7, PageNamesNoList DEF Good, Obeyed
    <3>8. QED BY <3>4, <3>5, <3>6, <3>7 DEF e, h
  <2>3. QED BY <2>1, <2>2
<1>4. QED BY <1>1, <1>2, <1>3, PTL DEF Rule!Spec

-----------------------------------------------------------------------------
(***************************************************************************)
(* The answer times of the server.  First the buckets: a longer time is in *)
(* no lower one, and a bucket ends a sixteenth above what is in it at      *)
(* most.                                                                   *)
(***************************************************************************)
LEMMA Powers ==
  /\ \A e \in 0 .. 26 : Times!Power[e] \in Nat /\ Times!Power[e] > 0
  /\ \A e \in 0 .. 25 : Times!Power[e + 1] = 2 * Times!Power[e]
  /\ Times!Power[0] = 1
<1>1. \A e \in 0 .. 26 : Times!Power[e] = 2 ^ e
  BY DEF Times!Power, Times!Octaves
<1>2. /\ Times!Power[0] = 1 /\ Times!Power[1] = 2 /\ Times!Power[2] = 4
      /\ Times!Power[3] = 8 /\ Times!Power[4] = 16 /\ Times!Power[5] = 32
      /\ Times!Power[6] = 64 /\ Times!Power[7] = 128 /\ Times!Power[8] = 256
  <2>1. /\ 2 ^ 0 = 1 /\ 2 ^ 1 = 2 /\ 2 ^ 2 = 4 /\ 2 ^ 3 = 8 /\ 2 ^ 4 = 16 /\ 2 ^ 5 = 32
        /\ 2 ^ 6 = 64 /\ 2 ^ 7 = 128 /\ 2 ^ 8 = 256
    BY SMT
  <2>2. QED BY <1>1, <2>1, SMT
<1>3. /\ Times!Power[9] = 512 /\ Times!Power[10] = 1024 /\ Times!Power[11] = 2048
      /\ Times!Power[12] = 4096 /\ Times!Power[13] = 8192 /\ Times!Power[14] = 16384
      /\ Times!Power[15] = 32768 /\ Times!Power[16] = 65536 /\ Times!Power[17] = 131072
  <2>1. /\ 2 ^ 9 = 512 /\ 2 ^ 10 = 1024 /\ 2 ^ 11 = 2048 /\ 2 ^ 12 = 4096
        /\ 2 ^ 13 = 8192 /\ 2 ^ 14 = 16384 /\ 2 ^ 15 = 32768 /\ 2 ^ 16 = 65536
        /\ 2 ^ 17 = 131072
    BY SMT
  <2>2. QED BY <1>1, <2>1, SMT
<1>4. /\ Times!Power[18] = 262144 /\ Times!Power[19] = 524288 /\ Times!Power[20] = 1048576
      /\ Times!Power[21] = 2097152 /\ Times!Power[22] = 4194304 /\ Times!Power[23] = 8388608
      /\ Times!Power[24] = 16777216 /\ Times!Power[25] = 33554432
      /\ Times!Power[26] = 67108864
  <2>1. /\ 2 ^ 18 = 262144 /\ 2 ^ 19 = 524288 /\ 2 ^ 20 = 1048576 /\ 2 ^ 21 = 2097152
        /\ 2 ^ 22 = 4194304 /\ 2 ^ 23 = 8388608 /\ 2 ^ 24 = 16777216
        /\ 2 ^ 25 = 33554432 /\ 2 ^ 26 = 67108864
    BY SMT
  <2>2. QED BY <1>1, <2>1, SMT
<1>5. \A e \in 0 .. 26 : Times!Power[e] \in Nat /\ Times!Power[e] > 0
  BY <1>2, <1>3, <1>4, SMT
<1>6. \A e \in 0 .. 25 : Times!Power[e + 1] = 2 * Times!Power[e]
  BY <1>2, <1>3, <1>4, SMT
<1>7. QED BY <1>2, <1>5, <1>6

LEMMA PowersGrow ==
  /\ \A e \in 0 .. 26 : \A f \in 0 .. 26 : e < f => 2 * Times!Power[e] <= Times!Power[f]
  /\ \A e \in 4 .. 26 : Times!Power[e] = 16 * Times!Power[e - 4]
<1> DEFINE X == {n \in Nat : n \in 0 .. 26 =>
                   \A e \in 0 .. 26 : e < n => 2 * Times!Power[e] <= Times!Power[n]}
<1>1. 0 \in X
  OBVIOUS
<1>2. ASSUME NEW n \in Nat, n \in X PROVE n + 1 \in X
  <2> SUFFICES ASSUME n + 1 \in 0 .. 26, NEW e \in 0 .. 26, e < n + 1
               PROVE  2 * Times!Power[e] <= Times!Power[n + 1]
    OBVIOUS
  <2>1. n \in 0 .. 25 /\ n \in 0 .. 26
    OBVIOUS
  <2>2. Times!Power[n + 1] = 2 * Times!Power[n] /\ Times!Power[n] \in Nat /\ Times!Power[e] \in Nat
    BY <2>1, Powers
  <2>3. CASE e = n
    BY <2>2, <2>3
  <2>4. CASE e < n
    <3>1. 2 * Times!Power[e] <= Times!Power[n]
      BY <1>2, <2>1, <2>4
    <3>2. QED BY <2>2, <3>1
  <2>5. QED BY <2>3, <2>4
<1>3. Nat \subseteq X
  <2> HIDE DEF X
  <2>1. QED BY <1>1, <1>2, Inductive
<1>4. ASSUME NEW e \in 0 .. 26, NEW f \in 0 .. 26, e < f
      PROVE  2 * Times!Power[e] <= Times!Power[f]
  <2>1. f \in X
    BY <1>3
  <2>2. QED BY <1>4, <2>1
<1>5. ASSUME NEW e \in 4 .. 26 PROVE Times!Power[e] = 16 * Times!Power[e - 4]
  <2>1. /\ Times!Power[(e - 4) + 1] = 2 * Times!Power[e - 4]
        /\ Times!Power[(e - 3) + 1] = 2 * Times!Power[e - 3]
        /\ Times!Power[(e - 2) + 1] = 2 * Times!Power[e - 2]
        /\ Times!Power[(e - 1) + 1] = 2 * Times!Power[e - 1]
    BY Powers
  <2>2. (e - 4) + 1 = e - 3 /\ (e - 3) + 1 = e - 2 /\ (e - 2) + 1 = e - 1 /\ (e - 1) + 1 = e
    OBVIOUS
  <2>3. /\ Times!Power[e - 4] \in Nat /\ Times!Power[e - 3] \in Nat
        /\ Times!Power[e - 2] \in Nat /\ Times!Power[e - 1] \in Nat
    BY Powers
  <2>4. QED BY <2>1, <2>2, <2>3
<1>6. QED BY <1>4, <1>5

LEMMA MaxOfTwo ==
  ASSUME NEW a \in Int, NEW b \in Int
  PROVE  /\ Times!Max({a, b}) = IF a >= b THEN a ELSE b
         /\ Times!Min({a, b}) = IF a <= b THEN a ELSE b
<1>1. \E x \in {a, b} : \A y \in {a, b} : x >= y
  OBVIOUS
<1>2. \E x \in {a, b} : \A y \in {a, b} : x <= y
  OBVIOUS
<1>3. Times!Max({a, b}) \in {a, b} /\ \A y \in {a, b} : Times!Max({a, b}) >= y
  BY <1>1 DEF Times!Max
<1>4. Times!Min({a, b}) \in {a, b} /\ \A y \in {a, b} : Times!Min({a, b}) <= y
  BY <1>2 DEF Times!Min
<1>5. QED BY <1>3, <1>4

LEMMA ExponentIs ==
  ASSUME NEW v \in Nat, v > 0
  PROVE  /\ Times!Exponent(v) \in 0 .. 26
         /\ Times!Power[Times!Exponent(v)] <= v
         /\ \A e \in 0 .. 26 : e > Times!Exponent(v) => v < Times!Power[e]
<1> DEFINE S == {e \in 0 .. 26 : Times!Power[e] <= v}
           D == {26 - e : e \in S}
<1>1. 0 \in S
  BY Powers
<1>2. D \subseteq Nat /\ D # {}
  BY <1>1
<1>3. PICK d \in D : \A x \in D : d <= x
  BY <1>2, LeastOfNats
<1>4. PICK m \in S : d = 26 - m
  BY <1>3
<1>5. ASSUME NEW e \in S PROVE m >= e
  <2>1. 26 - e \in D /\ e \in Int /\ m \in Int
    OBVIOUS
  <2>2. d <= 26 - e
    BY <1>3, <2>1
  <2>3. QED BY <1>4, <2>1, <2>2
<1>6. Times!Exponent(v) = CHOOSE x \in S : \A y \in S : x >= y
  BY DEF Times!Exponent, Times!Octaves, Times!Max
<1>7. Times!Exponent(v) \in S /\ \A y \in S : Times!Exponent(v) >= y
  <2> HIDE DEF S
  <2>1. QED BY <1>4, <1>5, <1>6
<1>8. ASSUME NEW e \in 0 .. 26, e > Times!Exponent(v) PROVE v < Times!Power[e]
  <2>1. e \notin S /\ Times!Power[e] \in Nat
    BY <1>7, <1>8, Powers
  <2>2. QED BY <2>1
<1>9. QED BY <1>7, <1>8

(* A time in its bucket. *)
Worth(d) == IF d >= 1 THEN d ELSE 1
Octave(d) == Times!Exponent(Worth(d))
Offset(d) == (Worth(d) - Times!Power[Octave(d)]) \div Times!Step(Octave(d))
Place(d) == Octave(d) * 16 + Offset(d)

LEMMA StepIs ==
  ASSUME NEW e \in 0 .. 26
  PROVE  /\ Times!Step(e) \in Nat /\ Times!Step(e) > 0
         /\ e >= 4 => Times!Power[e] = 16 * Times!Step(e)
         /\ e < 4 => Times!Step(e) = 1 /\ Times!Power[e] <= 8
<1>1. Times!Step(e) = Times!Power[IF e - 4 >= 0 THEN e - 4 ELSE 0]
  BY MaxOfTwo DEF Times!Step
<1>2. CASE e >= 4
  <2>1. Times!Step(e) = Times!Power[e - 4] /\ e - 4 \in 0 .. 26 /\ e \in 4 .. 26
    BY <1>1, <1>2
  <2>2. Times!Power[e - 4] \in Nat /\ Times!Power[e - 4] > 0
    BY <2>1, Powers
  <2>3. Times!Power[e] = 16 * Times!Power[e - 4]
    BY <2>1, PowersGrow
  <2>4. QED BY <1>2, <2>1, <2>2, <2>3
<1>3. CASE e < 4
  <2>1. Times!Step(e) = 1
    BY <1>1, <1>3, Powers
  <2>2. 2 * Times!Power[e] <= Times!Power[4] /\ Times!Power[4] = 16 * Times!Power[4 - 4]
    BY <1>3, PowersGrow
  <2>3. Times!Power[e] \in Nat /\ Times!Power[4 - 4] = 1
    BY Powers
  <2>4. QED BY <1>3, <2>1, <2>2, <2>3
<1>4. QED BY <1>2, <1>3

(* Division by what is above nought. *)
LEMMA Divided ==
  ASSUME NEW x \in Nat, NEW s \in Nat, s > 0
  PROVE  x \div s \in Nat /\ s * (x \div s) <= x /\ x < s * (x \div s) + s
OBVIOUS

LEMMA Cancelled ==
  ASSUME NEW a \in Nat, NEW b \in Nat, NEW s \in Nat, s > 0
  PROVE  /\ s * a < s * b => a < b
         /\ s * a < s * b + s => a <= b
OBVIOUS

LEMMA BucketIs ==
  ASSUME NEW d \in Nat
  PROVE  /\ Worth(d) \in Nat /\ Worth(d) > 0 /\ Octave(d) \in 0 .. 26 /\ Offset(d) \in Nat
         /\ Times!Power[Octave(d)] <= Worth(d)
         /\ Times!Step(Octave(d)) * Offset(d) <= Worth(d) - Times!Power[Octave(d)]
         /\ Worth(d) - Times!Power[Octave(d)]
              < Times!Step(Octave(d)) * Offset(d) + Times!Step(Octave(d))
         /\ Octave(d) <= 25 => Offset(d) <= 15
         /\ Times!BucketOf(d) = IF Place(d) <= 415 THEN Place(d) ELSE 415
<1>1. Worth(d) \in Nat /\ Worth(d) > 0
  BY DEF Worth
<1> DEFINE e == Octave(d)
           s == Times!Step(e)
           p == Times!Power[e]
           x == Worth(d) - p
<1>2. /\ e \in 0 .. 26 /\ p <= Worth(d)
      /\ \A f \in 0 .. 26 : f > e => Worth(d) < Times!Power[f]
  BY <1>1, ExponentIs DEF Octave
<1> HIDE DEF e
<1>3. p \in Nat /\ s \in Nat /\ s > 0
  BY <1>2, Powers, StepIs
<1>4. x \in Nat
  BY <1>1, <1>2, <1>3
<1>5. Offset(d) = x \div s
  BY DEF Offset, e
<1> HIDE DEF s, p
<1>6. Offset(d) \in Nat /\ s * Offset(d) <= x /\ x < s * Offset(d) + s
  <2> HIDE DEF x
  <2>1. QED BY <1>3, <1>4, <1>5, Divided
<1>7. ASSUME e <= 25 PROVE Offset(d) <= 15
  <2>1. Worth(d) < Times!Power[e + 1] /\ Times!Power[e + 1] = 2 * p
    BY <1>2, <1>7, Powers DEF p
  <2>2. x < p
    BY <1>1, <1>3, <2>1
  <2>3. CASE e >= 4
    <3>1. p = 16 * s
      BY <1>2, <2>3, StepIs DEF p, s
    <3>2. s * Offset(d) < s * 16
      BY <1>1, <1>3, <1>4, <1>6, <2>2, <3>1
    <3>3. QED BY <1>3, <1>6, <3>2, Cancelled
  <2>4. CASE e < 4
    <3>1. s = 1 /\ p <= 8
      BY <1>2, <2>4, StepIs DEF p, s
    <3>2. QED BY <1>3, <1>4, <1>6, <2>2, <3>1
  <2>5. QED BY <1>2, <2>3, <2>4
<1>8. Times!BucketOf(d) = IF Place(d) <= 415 THEN Place(d) ELSE 415
  <2>1. Times!Max({d, 1}) = Worth(d)
    BY MaxOfTwo DEF Worth
  <2>2. Times!Buckets - 1 = 415
    BY DEF Times!PerOctave, Times!Octaves, Times!Buckets
  <2>0. Times!BucketOf(d) = Times!Min({Place(d), 415})
    BY <2>1, <2>2 DEF Times!BucketOf, Times!PerOctave, Place, Offset, Octave
  <2>3. Place(d) \in Int
    BY <1>2, <1>6 DEF Place, e
  <2>4. QED BY <2>0, <2>3, MaxOfTwo
<1>9. QED BY <1>1, <1>2, <1>6, <1>7, <1>8 DEF e, s, p

LEMMA BucketsGrow ==
  ASSUME NEW c \in Nat, NEW d \in Nat, c <= d
  PROVE  Times!BucketOf(c) <= Times!BucketOf(d)
<1>1. Worth(c) <= Worth(d)
  BY DEF Worth
<1>2. /\ Worth(c) \in Nat /\ Worth(d) \in Nat
      /\ Octave(c) \in 0 .. 26 /\ Octave(d) \in 0 .. 26
      /\ Offset(c) \in Nat /\ Offset(d) \in Nat
      /\ Times!Power[Octave(c)] <= Worth(c)
      /\ Times!Step(Octave(c)) * Offset(c) <= Worth(c) - Times!Power[Octave(c)]
      /\ Worth(d) - Times!Power[Octave(d)]
           < Times!Step(Octave(d)) * Offset(d) + Times!Step(Octave(d))
      /\ Octave(c) <= 25 => Offset(c) <= 15
  BY BucketIs
<1>3. Octave(c) <= Octave(d)
  <2> SUFFICES ASSUME Octave(d) < Octave(c) PROVE FALSE
    BY <1>2
  <2>1. Worth(d) < Times!Power[Octave(c)]
    <3>1. Worth(d) > 0
      BY BucketIs
    <3>2. QED BY <1>2, <3>1, ExponentIs DEF Octave
  <2>2. Times!Power[Octave(c)] \in Nat
    BY <1>2, Powers
  <2>3. QED BY <1>1, <1>2, <2>1, <2>2
<1>4. Place(c) <= Place(d)
  <2>1. CASE Octave(c) = Octave(d)
    <3> DEFINE s == Times!Step(Octave(d))
               p == Times!Power[Octave(d)]
    <3>1. s \in Nat /\ s > 0 /\ p \in Nat
      BY <1>2, StepIs, Powers
    <3>2. s * Offset(c) <= Worth(c) - p /\ Worth(d) - p < s * Offset(d) + s
      BY <1>2, <2>1
    <3> HIDE DEF s, p
    <3>3. s * Offset(c) \in Nat /\ s * Offset(d) \in Nat
      BY <1>2, <3>1
    <3>4. s * Offset(c) < s * Offset(d) + s
      BY <1>1, <1>2, <3>1, <3>2, <3>3
    <3>5. Offset(c) <= Offset(d)
      BY <1>2, <3>1, <3>4, Cancelled
    <3>6. QED BY <1>2, <2>1, <3>5 DEF Place
  <2>2. CASE Octave(c) < Octave(d)
    BY <1>2, <2>2 DEF Place
  <2>3. QED BY <1>2, <1>3, <2>1, <2>2
<1>5. Place(c) \in Nat /\ Place(d) \in Nat
  BY <1>2 DEF Place
<1>6. QED BY <1>4, <1>5, BucketIs

LEMMA LastEnds == Times!UpperMicros(415) = Times!Power[26]
<1>1. 415 \div 16 = 25 /\ 415 % 16 = 15
  OBVIOUS
<1>2. Times!UpperMicros(415) = Times!Power[25] + Times!Step(25) * 16
  BY <1>1 DEF Times!UpperMicros, Times!PerOctave
<1>3. /\ Times!Power[25] = 16 * Times!Step(25) /\ Times!Step(25) \in Nat
      /\ Times!Power[25 + 1] = 2 * Times!Power[25]
      /\ Times!Power[25] \in Nat
  BY StepIs, Powers
<1>4. QED BY <1>2, <1>3

LEMMA CloseIs ==
  ASSUME NEW d \in Nat
  PROVE  Times!Close(Times!UpperMicros(Times!BucketOf(d)), d)
<1> DEFINE v == Worth(d)
           e == Octave(d)
           k == Offset(d)
           s == Times!Step(e)
           p == Times!Power[e]
           last == Times!Power[26]
           real == IF v <= last - 1 THEN v ELSE last - 1
           upper == Times!UpperMicros(Times!BucketOf(d))
<1>0. last \in Nat /\ last > 0
  BY Powers
<1> HIDE DEF last
<1>1. /\ v \in Nat /\ v > 0 /\ e \in 0 .. 26 /\ k \in Nat /\ p <= v
      /\ s * k <= v - p /\ v - p < s * k + s
      /\ e <= 25 => k <= 15
      /\ Times!BucketOf(d) = IF e * 16 + k <= 415 THEN e * 16 + k ELSE 415
  BY BucketIs DEF Place
<1>2. p \in Nat /\ s \in Nat /\ s > 0 /\ (e >= 4 => p = 16 * s) /\ (e < 4 => s = 1)
  <2> HIDE DEF e
  <2>1. QED BY <1>1, StepIs, Powers
<1>3. /\ e <= 25 => v < last
      /\ e = 26 => v >= last
  <2>1. \A f \in 0 .. 26 : f > e => v < Times!Power[f]
    BY <1>1, ExponentIs DEF Octave
  <2>2. Times!Power[26] = last
    BY DEF last
  <2> HIDE DEF v, e
  <2>3. QED BY <1>1, <2>1, <2>2
<1>4. real = Times!Min({Times!Max({d, 1}), Times!UpperMicros(Times!Buckets - 1) - 1})
  <2>1. Times!Max({d, 1}) = v
    BY MaxOfTwo DEF Worth
  <2>2. Times!Buckets - 1 = 415
    BY DEF Times!Buckets, Times!PerOctave, Times!Octaves
  <2>3. Times!UpperMicros(Times!Buckets - 1) - 1 = last - 1
    BY <2>2, LastEnds DEF last
  <2>4. Times!Min({v, last - 1}) = real
    <3> DEFINE u == last - 1
    <3>1. u \in Int /\ v \in Int
      BY <1>0, <1>1
    <3>2. real = IF v <= u THEN v ELSE u
      BY DEF real
    <3> HIDE DEF u, v, real
    <3>3. Times!Min({v, u}) = real
      BY <3>1, <3>2, MaxOfTwo
    <3>4. QED BY <3>3 DEF u
  <2>5. QED BY <2>1, <2>3, <2>4
<1>5. real < upper /\ upper - real <= (IF real \div 16 >= 1 THEN real \div 16 ELSE 1)
  <2>1. CASE e <= 25
    <3>1. Times!BucketOf(d) = e * 16 + k
      BY <1>1, <2>1
    <3>2. (e * 16 + k) \div 16 = e /\ (e * 16 + k) % 16 = k
      <4> HIDE DEF e, k
      <4>1. QED BY <1>1, <2>1
    <3>3. upper = p + s * (k + 1)
      BY <3>1, <3>2 DEF Times!UpperMicros, Times!PerOctave
    <3> HIDE DEF upper, p, s, k, e, v
    <3>4. s * (k + 1) = s * k + s /\ s * k \in Nat
      BY <1>1, <1>2
    <3>5. real = v
      BY <1>0, <1>1, <1>3, <2>1 DEF real
    <3>6. v < upper /\ upper - v <= s
      BY <1>1, <1>2, <3>3, <3>4
    <3>7. e >= 4 => v \div 16 >= s
      BY <1>1, <1>2
    <3>8. e < 4 => s = 1
      BY <1>2
    <3>9. upper \in Nat
      BY <1>1, <1>2, <3>3, <3>4
    <3> HIDE DEF real
    <3>10. QED BY <1>1, <1>2, <3>5, <3>6, <3>7, <3>8, <3>9
  <2>2. CASE e = 26
    <3>1. Times!BucketOf(d) = 415
      <4> HIDE DEF e, k
      <4>1. QED BY <1>1, <2>2
    <3>2. upper = last
      BY <3>1, LastEnds DEF last
    <3>3. real = last - 1
      <4> HIDE DEF v
      <4>1. QED BY <1>0, <1>1, <1>3, <2>2 DEF real
    <3> HIDE DEF upper, real
    <3>4. (last - 1) \div 16 \in Nat
      BY <1>0
    <3>5. QED BY <1>0, <3>2, <3>3, <3>4
  <2>3. QED BY <1>1, <2>1, <2>2
<1>6. Times!Max({real \div 16, 1}) = IF real \div 16 >= 1 THEN real \div 16 ELSE 1
  <2>1. real \div 16 \in Int
    <3> HIDE DEF v
    <3>1. QED BY <1>0, <1>1
  <2> HIDE DEF real
  <2>2. QED BY <2>1, MaxOfTwo
<1> HIDE DEF real, upper
<1>7. QED BY <1>4, <1>5, <1>6 DEF Times!Close, Times!PerOctave, upper

-----------------------------------------------------------------------------
(***************************************************************************)
(* Then the two passes over the counters.                                  *)
(***************************************************************************)
(* What two sets without a common member add up to. *)
LEMMA SumApart ==
  ASSUME NEW S, IsFiniteSet(S), NEW T, IsFiniteSet(T), S \cap T = {},
         NEW f, \A x \in S \cup T : f[x] \in Int
  PROVE  SumOf(f, S \cup T) = SumOf(f, S) + SumOf(f, T)
<1> DEFINE Apart == {s \in SUBSET T : SumOf(f, S \cup s) = SumOf(f, S) + SumOf(f, s)}
<1>1. ASSUME NEW s \in SUBSET T, \A y \in s : s \ {y} \in Apart PROVE s \in Apart
  <2>1. /\ IsFiniteSet(s) /\ IsFiniteSet(S \cup s)
        /\ \A x \in s : f[x] \in Int
        /\ \A x \in S \cup s : f[x] \in Int
    BY FS_Subset, FS_Union
  <2>2. CASE s = {}
    <3>1. SumOf(f, S) \in Int /\ SumOf(f, {}) = 0 /\ S \cup {} = S
      BY SumLaws
    <3>2. SumOf(f, S \cup {}) = SumOf(f, S)
      BY <3>1
    <3>3. SumOf(f, S \cup {}) = SumOf(f, S) + SumOf(f, {})
      BY <3>1, <3>2
    <3>4. QED BY <2>2, <3>3
  <2>3. CASE s # {}
    <3>1. PICK y \in s : TRUE
      BY <2>3
    <3>2. SumOf(f, s) = f[y] + SumOf(f, s \ {y})
      BY <2>1, SumLaws
    <3>3. SumOf(f, S \cup s) = f[y] + SumOf(f, (S \cup s) \ {y})
      BY <2>1, <3>1, SumLaws
    <3>4. (S \cup s) \ {y} = S \cup (s \ {y})
      BY <3>1
    <3>5. SumOf(f, S \cup (s \ {y})) = SumOf(f, S) + SumOf(f, s \ {y})
      BY <1>1
    <3>6. SumOf(f, S) \in Int /\ SumOf(f, s \ {y}) \in Int /\ f[y] \in Int
      <4>1. IsFiniteSet(s \ {y})
        BY <2>1, FS_Subset
      <4>2. QED BY <2>1, <4>1, SumLaws
    <3>7. SumOf(f, (S \cup s) \ {y}) = SumOf(f, S \cup (s \ {y}))
      BY <3>4
    <3> HIDE DEF Apart
    <3>8. SumOf(f, S \cup s) = SumOf(f, S) + SumOf(f, s)
      BY <3>2, <3>3, <3>5, <3>6, <3>7
    <3>9. QED BY <3>8 DEF Apart
  <2>4. QED BY <2>2, <2>3
<1>2. SUBSET T \subseteq Apart
  <2> HIDE DEF Apart
  <2>1. QED BY <1>1, BySize
<1>3. T \in Apart
  BY <1>2
<1>4. QED BY <1>3

(* Naturals add up to a natural. *)
LEMMA SumIsNat ==
  ASSUME NEW S, IsFiniteSet(S), NEW f, \A x \in S : f[x] \in Nat
  PROVE  SumOf(f, S) \in Nat
<1>1. SumOf(f, {}) <= SumOf(f, S) /\ SumOf(f, S) \in Int /\ SumOf(f, {}) = 0
  BY SumOfPart, SumLaws
<1>2. QED BY <1>1

(* Where everything is at least as much, the sum is. *)
LEMMA SumGrows ==
  ASSUME NEW S, IsFiniteSet(S), NEW f, NEW g, \A x \in S : f[x] \in Int /\ g[x] \in Int,
         \A x \in S : f[x] <= g[x]
  PROVE  SumOf(f, S) <= SumOf(g, S)
<1> DEFINE More == {s \in SUBSET S : SumOf(f, s) <= SumOf(g, s)}
<1>1. ASSUME NEW s \in SUBSET S, \A y \in s : s \ {y} \in More PROVE s \in More
  <2>1. IsFiniteSet(s)
    BY FS_Subset
  <2>2. CASE s = {}
    <3>1. SumOf(f, s) = 0 /\ SumOf(g, s) = 0
      BY <2>1, <2>2, SumLaws
    <3>2. QED BY <3>1
  <2>3. CASE s # {}
    <3>1. PICK y \in s : TRUE
      BY <2>3
    <3>2. SumOf(f, s) = f[y] + SumOf(f, s \ {y}) /\ SumOf(g, s) = g[y] + SumOf(g, s \ {y})
      BY <2>1, SumLaws
    <3>3. IsFiniteSet(s \ {y})
      BY <2>1, FS_Subset
    <3>4. SumOf(f, s \ {y}) \in Int /\ SumOf(g, s \ {y}) \in Int
      BY <3>3, SumLaws
    <3>5. SumOf(f, s \ {y}) <= SumOf(g, s \ {y}) /\ f[y] <= g[y] /\ f[y] \in Int /\ g[y] \in Int
      BY <1>1
    <3>6. QED BY <3>2, <3>4, <3>5
  <2>4. QED BY <2>2, <2>3
<1>2. SUBSET S \subseteq More
  <2> HIDE DEF More
  <2>1. QED BY <1>1, BySize
<1>3. S \in More
  BY <1>2
<1>4. QED BY <1>3

TimesOf(b) == {d \in TimesDurations : Times!BucketOf(d) = b}
MeasuredIn(B) == {d \in TimesDurations : Times!BucketOf(d) \in B}
Upto(b) == {x \in Times!Used : x <= b}

(* The counters are the measurements. *)
CountersTell(bk, ms) ==
  /\ bk \in [Times!Used -> Nat] /\ ms \in [TimesDurations -> Nat]
  /\ \A b \in Times!Used : bk[b] = SumOf(ms, TimesOf(b))

LEMMA UsedIs ==
  /\ IsFiniteSet(Times!Used) /\ Times!Used \subseteq Nat
  /\ \A d \in TimesDurations : Times!BucketOf(d) \in Times!Used
  /\ \A B : IsFiniteSet(MeasuredIn(B)) /\ \A b : IsFiniteSet(TimesOf(b))
<1>1. \A d \in TimesDurations : Times!BucketOf(d) \in 0 .. 415
  <2>1. ASSUME NEW d \in TimesDurations PROVE Times!BucketOf(d) \in 0 .. 415
    <3>1. d \in Nat
      BY TimesAssumption
    <3>2. Octave(d) \in 0 .. 26 /\ Offset(d) \in Nat
          /\ Times!BucketOf(d) = IF Place(d) <= 415 THEN Place(d) ELSE 415
      BY <3>1, BucketIs
    <3>3. QED BY <3>2 DEF Place
  <2>2. QED BY <2>1
<1>2. Times!Used \in SUBSET (0 .. 415)
  BY <1>1 DEF Times!Used
<1>3. IsFiniteSet(0 .. 415)
  <2> DEFINE n == 415
  <2>1. n \in Nat
    OBVIOUS
  <2> HIDE DEF n
  <2>2. IsFiniteSet(0 .. n)
    BY <2>1, FS_Interval
  <2>3. QED BY <2>2 DEF n
<1>4. IsFiniteSet(Times!Used)
  BY <1>2, <1>3, FS_Subset
<1>5. \A B : IsFiniteSet(MeasuredIn(B))
  <2>1. \A B : MeasuredIn(B) \in SUBSET TimesDurations
    BY DEF MeasuredIn
  <2>2. QED BY <2>1, TimesAssumption, FS_Subset
<1>6. \A b : IsFiniteSet(TimesOf(b))
  <2>1. \A b : TimesOf(b) \in SUBSET TimesDurations
    BY DEF TimesOf
  <2>2. QED BY <2>1, TimesAssumption, FS_Subset
<1>7. QED BY <1>2, <1>4, <1>5, <1>6 DEF Times!Used

(* Counters of buckets and the measurements in them add up to the same. *)
LEMMA SameSums ==
  ASSUME NEW bk, NEW ms, CountersTell(bk, ms), NEW B \in SUBSET Times!Used
  PROVE  SumOf(bk, B) = SumOf(ms, MeasuredIn(B))
<1> DEFINE Same == {s \in SUBSET B : SumOf(bk, s) = SumOf(ms, MeasuredIn(s))}
<1>0. IsFiniteSet(B)
  BY UsedIs, FS_Subset
<1>a. (\A b \in B : bk[b] \in Int) /\ \A d \in TimesDurations : ms[d] \in Int
  BY DEF CountersTell
<1>1. ASSUME NEW s \in SUBSET B, \A y \in s : s \ {y} \in Same PROVE s \in Same
  <2>1. IsFiniteSet(s)
    BY <1>0, FS_Subset
  <2>2. CASE s = {}
    <3>1. MeasuredIn(s) = s
      BY <2>2 DEF MeasuredIn
    <3>2. SumOf(bk, s) = 0 /\ SumOf(ms, MeasuredIn(s)) = 0
      BY <2>1, <2>2, <3>1, SumLaws
    <3>3. QED BY <3>2
  <2>3. CASE s # {}
    <3>1. PICK y \in s : TRUE
      BY <2>3
    <3>2. SumOf(bk, s) = bk[y] + SumOf(bk, s \ {y})
      BY <1>a, <2>1, SumLaws
    <3>3. bk[y] = SumOf(ms, TimesOf(y)) /\ SumOf(bk, s \ {y}) = SumOf(ms, MeasuredIn(s \ {y}))
      BY <1>1, <3>1 DEF CountersTell
    <3>4. /\ MeasuredIn(s) = TimesOf(y) \cup MeasuredIn(s \ {y})
          /\ TimesOf(y) \cap MeasuredIn(s \ {y}) = {}
      BY <3>1 DEF MeasuredIn, TimesOf
    <3>5. SumOf(ms, TimesOf(y) \cup MeasuredIn(s \ {y}))
            = SumOf(ms, TimesOf(y)) + SumOf(ms, MeasuredIn(s \ {y}))
      <4>1. \A x \in TimesOf(y) \cup MeasuredIn(s \ {y}) : ms[x] \in Int
        BY <1>a DEF TimesOf, MeasuredIn
      <4>2. IsFiniteSet(TimesOf(y)) /\ IsFiniteSet(MeasuredIn(s \ {y}))
        BY UsedIs
      <4>3. QED BY <3>4, <4>1, <4>2, SumApart
    <3>6. SumOf(ms, MeasuredIn(s)) = SumOf(ms, TimesOf(y) \cup MeasuredIn(s \ {y}))
      BY <3>4
    <3> HIDE DEF Same
    <3>7. SumOf(bk, s) = SumOf(ms, MeasuredIn(s))
      BY <3>2, <3>3, <3>5, <3>6
    <3>8. QED BY <3>7 DEF Same
  <2>4. QED BY <2>2, <2>3
<1>2. SUBSET B \subseteq Same
  <2> HIDE DEF Same
  <2>1. QED BY <1>0, <1>1, BySize
<1>3. B \in Same
  BY <1>2
<1>4. QED BY <1>3

(* So many of the total are enough for a share of num in den. *)
Enough(c, tot, num, den) == c * den >= tot * num

LEMMA EnoughIs ==
  ASSUME NEW tot \in Nat, NEW num \in Nat, NEW den \in Nat, num > 0, num <= den
  PROVE  /\ Enough(tot, tot, num, den)
         /\ tot > 0 => ~Enough(0, tot, num, den)
         /\ \A c \in Nat : \A d \in Nat :
              c <= d => (Enough(c, tot, num, den) => Enough(d, tot, num, den))
<1>1. tot * den >= tot * num
  OBVIOUS
<1>2. tot > 0 => tot * num > 0
  OBVIOUS
<1>3. ASSUME NEW c \in Nat, NEW d \in Nat, c <= d PROVE c * den <= d * den
  BY <1>3
<1>4. \A c \in Nat : c * den \in Nat
  OBVIOUS
<1>5. tot * num \in Nat
  OBVIOUS
<1>6. Enough(tot, tot, num, den)
  BY <1>1 DEF Enough
<1>7. tot > 0 => ~Enough(0, tot, num, den)
  BY <1>2, <1>5 DEF Enough
<1>8. ASSUME NEW c \in Nat, NEW d \in Nat, c <= d, Enough(c, tot, num, den)
      PROVE  Enough(d, tot, num, den)
  <2>1. c * den <= d * den /\ c * den \in Nat /\ d * den \in Nat
    BY <1>3, <1>4, <1>8
  <2>2. c * den >= tot * num
    BY <1>8 DEF Enough
  <2> DEFINE x == c * den
             y == d * den
             z == tot * num
  <2> HIDE DEF x, y, z
  <2>3. y >= z
    BY <1>5, <2>1, <2>2 DEF x, y, z
  <2>4. QED BY <2>3 DEF Enough, y, z
<1>9. QED BY <1>6, <1>7, <1>8

(* The first bucket with which it is enough. *)
First(b, tot, num, den, bk) ==
  /\ Enough(SumOf(bk, Upto(b)), tot, num, den)
  /\ \A c \in Times!Used : c < b => ~Enough(SumOf(bk, Upto(c)), tot, num, den)

(* What a reader has found of a share, and where it may be. *)
FoundOf(p, num, den, rest, tot, sn, bk, q) ==
  /\ p = {} => ~Enough(sn, tot, num, den)
  /\ p # {} => \E b \in Times!Used \ rest :
                 p = {b} /\ bk[b] > 0 /\ (q => First(b, tot, num, den, bk))

Walked(rest, tot, sn, m, h, bk, q) ==
  /\ tot > 0 /\ tot <= sn + SumOf(bk, rest)
  /\ q => sn = SumOf(bk, Times!Used \ rest) /\ tot = SumOf(bk, Times!Used)
  /\ FoundOf(m, 1, 2, rest, tot, sn, bk, q) /\ FoundOf(h, 19, 20, rest, tot, sn, bk, q)
  /\ h # {} => m # {}
  /\ \A a \in m, b \in h : a <= b

Summing(rest, tot, sn, m, h, bk, q) ==
  /\ tot <= SumOf(bk, Times!Used \ rest) /\ (q => tot = SumOf(bk, Times!Used \ rest))
  /\ sn = 0 /\ m = {} /\ h = {}

Reading(ps, rest, tot, sn, m, h, bk, q) ==
  /\ rest \subseteq Times!Used /\ tot \in Nat /\ sn \in Nat /\ q \in BOOLEAN
  /\ \A a \in Times!Used \ rest, b \in rest : a < b
  /\ ps \in {"idle", "sum", "walk", "done"}
  /\ ps = "sum" => Summing(rest, tot, sn, m, h, bk, q)
  /\ ps \in {"walk", "done"} => Walked(rest, tot, sn, m, h, bk, q)
  /\ ps \in {"idle", "done"} => rest = {}
  /\ ps = "done" => m # {} /\ h # {}

TimesInv ==
  /\ CountersTell(timesBuckets, timesMeasured)
  /\ Reading(timesPass, timesUnread, timesTotal, timesSeen, timesP50, timesP95,
             timesBuckets, timesQuiet)

LEMMA TimesStart == Times!Init => TimesInv
<1> SUFFICES ASSUME Times!Init PROVE TimesInv
  OBVIOUS
<1>1. CountersTell(timesBuckets, timesMeasured)
  <2>1. \A b \in Times!Used : SumOf(timesMeasured, TimesOf(b)) = 0
    <3>1. ASSUME NEW b \in Times!Used PROVE SumOf(timesMeasured, TimesOf(b)) = 0
      <4>1. \A d \in TimesOf(b) : timesMeasured[d] = 0
        BY DEF Times!Init, TimesOf
      <4>2. QED BY <4>1, UsedIs, SumOfNought
    <3>2. QED BY <3>1
  <2>2. QED BY <2>1 DEF Times!Init, CountersTell
<1>2. QED BY <1>1 DEF Times!Init, TimesInv, Reading

(* Sums of parts of the counters. *)
LEMMA PartSums ==
  ASSUME NEW bk, bk \in [Times!Used -> Nat], NEW B \in SUBSET Times!Used
  PROVE  /\ IsFiniteSet(B) /\ SumOf(bk, B) \in Nat
         /\ \A C \in SUBSET B : SumOf(bk, C) \in Nat /\ SumOf(bk, C) <= SumOf(bk, B)
         /\ \A b \in B : SumOf(bk, B) = bk[b] + SumOf(bk, B \ {b})
<1>1. IsFiniteSet(B) /\ \A C \in SUBSET B : IsFiniteSet(C)
  BY UsedIs, FS_Subset
<1>2. (\A b \in B : bk[b] \in Nat) /\ (\A b \in B : bk[b] \in Int)
  OBVIOUS
<1>3. \A C \in SUBSET B : SumOf(bk, C) \in Nat /\ SumOf(bk, C) <= SumOf(bk, B)
  <2>1. ASSUME NEW C \in SUBSET B PROVE SumOf(bk, C) \in Nat /\ SumOf(bk, C) <= SumOf(bk, B)
    <3>1. \A b \in C : bk[b] \in Nat
      BY <1>2
    <3>2. QED BY <1>1, <1>2, <3>1, SumIsNat, SumOfPart
  <2>2. QED BY <2>1
<1>4. \A b \in B : SumOf(bk, B) = bk[b] + SumOf(bk, B \ {b})
  BY <1>1, <1>2, SumLaws
<1>5. QED BY <1>1, <1>3, <1>4

(* The next bucket is the lowest of those that are left. *)
LEMMA NextIs ==
  ASSUME NEW rest \in SUBSET Times!Used, rest # {}
  PROVE  Times!Min(rest) \in rest /\ \A b \in rest : Times!Min(rest) <= b
<1>1. \E x \in rest : \A b \in rest : x <= b
  BY UsedIs, LeastOfNats
<1>2. QED BY <1>1 DEF Times!Min

(* It is taken from them. *)
LEMMA RestShrinks ==
  ASSUME NEW rest \in SUBSET Times!Used, rest # {}, NEW bk \in [Times!Used -> Nat],
         \A a \in Times!Used \ rest, b \in rest : a < b
  PROVE  LET n == Times!Min(rest)
         IN  /\ \A a \in Times!Used \ (rest \ {n}), b \in rest \ {n} : a < b
             /\ SumOf(bk, rest) = bk[n] + SumOf(bk, rest \ {n})
             /\ SumOf(bk, Times!Used \ (rest \ {n})) = bk[n] + SumOf(bk, Times!Used \ rest)
             /\ Upto(n) = Times!Used \ (rest \ {n})
             /\ \A c \in Times!Used : c < n => Upto(c) \subseteq Times!Used \ rest
<1> DEFINE n == Times!Min(rest)
           Used == Times!Used
<1>1. n \in rest /\ (\A b \in rest : n <= b) /\ Used \subseteq Nat /\ n \in Used
  BY NextIs, UsedIs
<1> HIDE DEF n
<1>2. \A a \in Used \ (rest \ {n}), b \in rest \ {n} : a < b
  <2>1. \A b \in rest \ {n} : n < b
    BY <1>1
  <2>2. QED BY <2>1
<1>3. SumOf(bk, rest) = bk[n] + SumOf(bk, rest \ {n})
  BY <1>1, PartSums
<1>4. SumOf(bk, Used \ (rest \ {n})) = bk[n] + SumOf(bk, Used \ rest)
  <2>1. (Used \ (rest \ {n})) \ {n} = Used \ rest /\ n \in Used \ (rest \ {n})
    BY <1>1
  <2>2. SumOf(bk, Used \ (rest \ {n})) = bk[n] + SumOf(bk, (Used \ (rest \ {n})) \ {n})
    BY <2>1, PartSums
  <2>3. QED BY <2>1, <2>2
<1>5. Upto(n) = Used \ (rest \ {n})
  <2>1. \A x \in Used : x <= n <=> x \notin rest \ {n}
    <3>1. \A x \in Used \ rest : x < n /\ x \in Nat /\ n \in Nat
      BY <1>1
    <3>2. \A x \in rest \ {n} : x > n /\ x \in Nat /\ n \in Nat
      BY <1>1
    <3>3. QED BY <1>1, <3>1, <3>2
  <2>2. QED BY <2>1 DEF Upto
<1>6. ASSUME NEW c \in Used, c < n, NEW x \in Upto(c) PROVE x \in Used \ rest
  <2>1. x \in Used /\ x <= c /\ x \in Nat /\ c \in Nat /\ n \in Nat
    BY <1>1 DEF Upto
  <2>2. x \notin rest
    BY <1>1, <1>6, <2>1
  <2>3. QED BY <2>1, <2>2
<1>7. QED BY <1>2, <1>3, <1>4, <1>5, <1>6 DEF n

(* One bucket further, for either share. *)
Share(num, den) == num \in Nat /\ den \in Nat /\ num > 0 /\ num <= den
Taken(p, num, den, tot, c, n) == IF p = {} /\ Enough(c, tot, num, den) THEN {n} ELSE p
Before(rest, tot, sn, bk, q) ==
  /\ rest \in SUBSET Times!Used /\ rest # {} /\ tot \in Nat /\ sn \in Nat
  /\ bk \in [Times!Used -> Nat] /\ q \in BOOLEAN
  /\ \A a \in Times!Used \ rest, b \in rest : a < b
  /\ q => sn = SumOf(bk, Times!Used \ rest)

LEMMA ShareGoesOn ==
  ASSUME NEW p, NEW num, NEW den, Share(num, den),
         NEW rest, NEW tot, NEW sn, NEW bk, NEW q, Before(rest, tot, sn, bk, q),
         FoundOf(p, num, den, rest, tot, sn, bk, q),
         NEW n, n = Times!Min(rest), NEW c, c = sn + bk[n]
  PROVE  FoundOf(Taken(p, num, den, tot, c, n), num, den, rest \ {n}, tot, c, bk, q)
<1> DEFINE Used == Times!Used
<1>0. /\ num \in Nat /\ den \in Nat /\ num > 0 /\ num <= den
      /\ rest \in SUBSET Used /\ rest # {} /\ tot \in Nat /\ sn \in Nat
      /\ bk \in [Used -> Nat] /\ q \in BOOLEAN
      /\ \A a \in Used \ rest, b \in rest : a < b
      /\ q => sn = SumOf(bk, Used \ rest)
  BY DEF Share, Before
<1>1. n \in rest /\ n \in Used
  BY <1>0, NextIs
<1>2. bk[n] \in Nat /\ c \in Nat /\ sn <= c
  BY <1>0, <1>1
<1>3. /\ SumOf(bk, Upto(n)) = bk[n] + SumOf(bk, Used \ rest)
      /\ \A x \in Used : x < n => Upto(x) \subseteq Used \ rest
  BY <1>0, RestShrinks
<1>4. CASE p # {}
  <2>1. PICK b \in Used \ rest : p = {b} /\ bk[b] > 0 /\ (q => First(b, tot, num, den, bk))
    BY <1>4 DEF FoundOf
  <2>2. b \in Used \ (rest \ {n})
    BY <2>1
  <2>3. QED BY <1>4, <2>1, <2>2 DEF FoundOf, Taken
<1>5. CASE p = {} /\ ~Enough(c, tot, num, den)
  BY <1>5 DEF FoundOf, Taken
<1>6. CASE p = {} /\ Enough(c, tot, num, den)
  <2>1. ~Enough(sn, tot, num, den)
    BY <1>6 DEF FoundOf
  <2>2. bk[n] > 0
    <3>1. bk[n] # 0
      <4> SUFFICES ASSUME bk[n] = 0 PROVE FALSE
        OBVIOUS
      <4>1. c = sn
        BY <1>0, <1>2
      <4>2. QED BY <1>6, <2>1, <4>1
    <3>2. QED BY <1>2, <3>1
  <2>3. ASSUME q PROVE First(n, tot, num, den, bk)
    <3>1. sn = SumOf(bk, Used \ rest)
      BY <1>0, <2>3
    <3>2. SumOf(bk, Upto(n)) = c
      BY <1>0, <1>2, <1>3, <3>1
    <3>3. ASSUME NEW x \in Used, x < n PROVE ~Enough(SumOf(bk, Upto(x)), tot, num, den)
      <4>1. SumOf(bk, Upto(x)) \in Nat /\ SumOf(bk, Upto(x)) <= SumOf(bk, Used \ rest)
        <5>1. Upto(x) \in SUBSET (Used \ rest) /\ Used \ rest \in SUBSET Used
          BY <1>3, <3>3
        <5>2. QED BY <1>0, <5>1, PartSums
      <4>2. SumOf(bk, Upto(x)) <= sn
        BY <3>1, <4>1
      <4>3. QED BY <1>0, <2>1, <4>1, <4>2, EnoughIs
    <3>4. QED BY <1>6, <3>2, <3>3 DEF First
  <2>4. n \in Used \ (rest \ {n})
    BY <1>1
  <2>5. Taken(p, num, den, tot, c, n) = {n}
    BY <1>6 DEF Taken
  <2>6. QED BY <2>2, <2>3, <2>4, <2>5 DEF FoundOf
<1>7. QED BY <1>4, <1>5, <1>6

(* While nothing is measured the counters stand still. *)
LEMMA TimesRead ==
  ASSUME TimesInv, Times!Begin \/ Times!AddUp \/ Times!Summed \/ Times!Walk
                   \/ Times!Answer \/ Times!Leave
  PROVE  TimesInv'
<1> DEFINE Used == Times!Used
<1>0. /\ timesBuckets' = timesBuckets /\ timesMeasured' = timesMeasured
      /\ timesBuckets \in [Used -> Nat]
  BY DEF TimesInv, CountersTell, Times!Begin, Times!AddUp, Times!Summed, Times!Walk,
         Times!Answer, Times!Leave
<1>1. CountersTell(timesBuckets, timesMeasured)'
  BY <1>0 DEF TimesInv, CountersTell
<1>2. /\ timesUnread \in SUBSET Used /\ timesTotal \in Nat /\ timesSeen \in Nat
      /\ timesQuiet \in BOOLEAN
      /\ \A a \in Used \ timesUnread, b \in timesUnread : a < b
  BY DEF TimesInv, Reading
<1>3. CASE Times!Begin
  <2>1. Used \ Used = {} /\ SumOf(timesBuckets, {}) = 0
    BY FS_EmptySet, SumLaws
  <2>2. /\ timesPass' = "sum" /\ timesUnread' = Used /\ timesTotal' = 0 /\ timesSeen' = 0
        /\ timesP50' = {} /\ timesP95' = {} /\ timesQuiet' = TRUE
    BY <1>3 DEF Times!Begin
  <2>3. SumOf(timesBuckets, Used \ Used) = 0
    BY <2>1
  <2>4. QED BY <1>0, <1>1, <2>2, <2>3 DEF TimesInv, Reading, Summing
<1>4. CASE Times!AddUp
  <2> DEFINE n == Times!Min(timesUnread)
  <2>1. /\ timesUnread # {} /\ timesPass = "sum" /\ timesPass' = "sum"
        /\ timesUnread' = timesUnread \ {n} /\ timesTotal' = timesTotal + timesBuckets[n]
        /\ UNCHANGED <<timesSeen, timesP50, timesP95, timesQuiet>>
    BY <1>4 DEF Times!AddUp
  <2>2. Summing(timesUnread, timesTotal, timesSeen, timesP50, timesP95, timesBuckets, timesQuiet)
    BY <2>1 DEF TimesInv, Reading
  <2>3. /\ \A a \in Used \ (timesUnread \ {n}), b \in timesUnread \ {n} : a < b
        /\ SumOf(timesBuckets, Used \ (timesUnread \ {n}))
             = timesBuckets[n] + SumOf(timesBuckets, Used \ timesUnread)
    BY <1>0, <1>2, <2>1, RestShrinks
  <2>4. n \in Used
    BY <1>2, <2>1, NextIs
  <2>5. timesBuckets[n] \in Nat /\ SumOf(timesBuckets, Used \ timesUnread) \in Nat
    BY <1>0, <2>4, PartSums
  <2> HIDE DEF n, Used
  <2>6. Summing(timesUnread', timesTotal', timesSeen', timesP50', timesP95', timesBuckets',
                timesQuiet')
    BY <1>0, <1>2, <2>1, <2>2, <2>3, <2>5 DEF Summing, Used
  <2>7. timesTotal' \in Nat /\ timesUnread' \subseteq Used
    BY <1>2, <2>1, <2>5
  <2>8. QED BY <1>1, <1>2, <2>1, <2>3, <2>6, <2>7 DEF TimesInv, Reading, Used
<1>5. CASE Times!Summed
  <2>1. /\ timesUnread = {} /\ timesPass = "sum"
        /\ UNCHANGED <<timesTotal, timesSeen, timesP50, timesP95, timesQuiet>>
    BY <1>5 DEF Times!Summed
  <2>2. Summing({}, timesTotal, timesSeen, timesP50, timesP95, timesBuckets, timesQuiet)
    BY <2>1 DEF TimesInv, Reading
  <2>3. CASE timesTotal = 0
    <3>1. timesPass' = "idle" /\ timesUnread' = {}
      BY <1>5, <2>3 DEF Times!Summed
    <3>2. QED BY <1>0, <1>1, <1>2, <2>1, <3>1 DEF TimesInv, Reading
  <2>4. CASE timesTotal # 0
    <3>1. timesPass' = "walk" /\ timesUnread' = Used
      BY <1>5, <2>4 DEF Times!Summed
    <3>2. Used \ {} = Used /\ Used \ Used = {} /\ SumOf(timesBuckets, {}) = 0
      BY FS_EmptySet, SumLaws
    <3>3. SumOf(timesBuckets, Used \ Used) = 0 /\ SumOf(timesBuckets, Used) \in Nat
      BY <1>0, <3>2, PartSums
    <3>4. /\ timesTotal > 0 /\ timesTotal <= SumOf(timesBuckets, Used)
          /\ timesQuiet => timesTotal = SumOf(timesBuckets, Used)
          /\ timesSeen = 0 /\ timesP50 = {} /\ timesP95 = {}
      BY <1>2, <2>2, <2>4, <3>2 DEF Summing
    <3>5. ~Enough(0, timesTotal, 1, 2) /\ ~Enough(0, timesTotal, 19, 20)
      BY <1>2, <3>4 DEF Enough
    <3>6. Walked(Used, timesTotal, timesSeen, timesP50, timesP95, timesBuckets, timesQuiet)
      BY <1>2, <3>3, <3>4, <3>5 DEF Walked, FoundOf
    <3>7. QED BY <1>0, <1>1, <1>2, <2>1, <3>1, <3>6 DEF TimesInv, Reading
  <2>5. QED BY <2>3, <2>4
<1>6. CASE Times!Walk
  <2> DEFINE n == Times!Min(timesUnread)
             c == timesSeen + timesBuckets[n]
             m == IF timesP50 = {} /\ Enough(c, timesTotal, 1, 2) THEN {n} ELSE timesP50
             h == IF timesP95 = {} /\ Enough(c, timesTotal, 19, 20) THEN {n} ELSE timesP95
  <2>1. /\ timesUnread # {} /\ timesPass = "walk" /\ timesPass' = "walk"
        /\ timesUnread' = timesUnread \ {n} /\ timesSeen' = c
        /\ timesP50' = m /\ timesP95' = h
        /\ UNCHANGED <<timesTotal, timesQuiet>>
    BY <1>6 DEF Times!Walk, Times!Reached, Enough
  <2>2. Walked(timesUnread, timesTotal, timesSeen, timesP50, timesP95, timesBuckets, timesQuiet)
    BY <2>1 DEF TimesInv, Reading
  <2>3. /\ \A a \in Used \ (timesUnread \ {n}), b \in timesUnread \ {n} : a < b
        /\ SumOf(timesBuckets, timesUnread)
             = timesBuckets[n] + SumOf(timesBuckets, timesUnread \ {n})
        /\ SumOf(timesBuckets, Used \ (timesUnread \ {n}))
             = timesBuckets[n] + SumOf(timesBuckets, Used \ timesUnread)
    BY <1>0, <1>2, <2>1, RestShrinks
  <2>4. n \in timesUnread /\ n \in Used /\ timesBuckets[n] \in Nat /\ c \in Nat
    BY <1>0, <1>2, <2>1, NextIs
  <2>5. /\ SumOf(timesBuckets, Used \ timesUnread) \in Nat
        /\ SumOf(timesBuckets, timesUnread \ {n}) \in Nat
        /\ SumOf(timesBuckets, Used) \in Nat
    BY <1>0, <1>2, PartSums
  <2>6. /\ timesTotal > 0 /\ timesTotal <= timesSeen + SumOf(timesBuckets, timesUnread)
        /\ timesQuiet => /\ timesSeen = SumOf(timesBuckets, Used \ timesUnread)
                         /\ timesTotal = SumOf(timesBuckets, Used)
        /\ FoundOf(timesP50, 1, 2, timesUnread, timesTotal, timesSeen, timesBuckets, timesQuiet)
        /\ FoundOf(timesP95, 19, 20, timesUnread, timesTotal, timesSeen, timesBuckets, timesQuiet)
        /\ timesP95 # {} => timesP50 # {}
        /\ \A a \in timesP50, b \in timesP95 : a <= b
    BY <2>2 DEF Walked
  <2>7. FoundOf(m, 1, 2, timesUnread \ {n}, timesTotal, c, timesBuckets, timesQuiet)
    <3>1. n = Times!Min(timesUnread) /\ c = timesSeen + timesBuckets[n]
      OBVIOUS
    <3>2. m = Taken(timesP50, 1, 2, timesTotal, c, n)
      BY DEF Taken
    <3>3. Share(1, 2)
      BY DEF Share
    <3>4. Before(timesUnread, timesTotal, timesSeen, timesBuckets, timesQuiet)
      BY <1>0, <1>2, <2>1, <2>6 DEF Before
    <3>5. FoundOf(timesP50, 1, 2, timesUnread, timesTotal, timesSeen, timesBuckets,
                  timesQuiet)
      BY <2>6
    <3> HIDE DEF n, c, m, h
    <3>6. QED BY <3>1, <3>2, <3>3, <3>4, <3>5, ShareGoesOn
  <2>8. FoundOf(h, 19, 20, timesUnread \ {n}, timesTotal, c, timesBuckets, timesQuiet)
    <3>1. n = Times!Min(timesUnread) /\ c = timesSeen + timesBuckets[n]
      OBVIOUS
    <3>2. h = Taken(timesP95, 19, 20, timesTotal, c, n)
      BY DEF Taken
    <3>3. Share(19, 20)
      BY DEF Share
    <3>4. Before(timesUnread, timesTotal, timesSeen, timesBuckets, timesQuiet)
      BY <1>0, <1>2, <2>1, <2>6 DEF Before
    <3>5. FoundOf(timesP95, 19, 20, timesUnread, timesTotal, timesSeen, timesBuckets,
                  timesQuiet)
      BY <2>6
    <3> HIDE DEF n, c, m, h
    <3>6. QED BY <3>1, <3>2, <3>3, <3>4, <3>5, ShareGoesOn
  <2>9. Enough(c, timesTotal, 19, 20) => Enough(c, timesTotal, 1, 2)
    BY <1>2, <2>4 DEF Enough
  <2>10. h # {} => m # {}
    BY <2>6, <2>9
  <2>11. ASSUME NEW a \in m, NEW b \in h PROVE a <= b
    <3>1. \A x \in timesP50 : x < n /\ x \in Nat /\ n \in Nat
      <4>1. \A x \in timesP50 : x \in Used \ timesUnread
        BY <2>6 DEF FoundOf
      <4>2. QED BY <1>2, <2>4, <4>1, UsedIs
    <3>2. CASE b \in timesP95
      <4>1. a \in timesP50
        BY <2>6, <3>2
      <4>2. QED BY <2>6, <3>2, <4>1
    <3>3. CASE b \notin timesP95
      <4>1. b = n
        BY <3>3
      <4>2. a = n \/ a \in timesP50
        OBVIOUS
      <4>3. n \in Nat
        BY <2>4, UsedIs
      <4> HIDE DEF n
      <4>4. QED BY <3>1, <4>1, <4>2, <4>3
    <3>4. QED BY <3>2, <3>3
  <2> DEFINE sumRest == SumOf(timesBuckets, timesUnread \ {n})
             sumRead == SumOf(timesBuckets, Used \ timesUnread)
             more == timesBuckets[n]
  <2>12. timesTotal <= c + SumOf(timesBuckets, timesUnread \ {n})
    <3>1. /\ timesTotal <= timesSeen + (more + sumRest) /\ c = timesSeen + more
          /\ more \in Nat /\ sumRest \in Nat
      BY <2>3, <2>4, <2>5, <2>6
    <3>2. timesTotal <= c + sumRest
      <4> HIDE DEF c, more, sumRest
      <4>1. QED BY <1>2, <3>1
    <3>3. QED BY <3>2
  <2>13. timesQuiet => c = SumOf(timesBuckets, Used \ (timesUnread \ {n}))
    <3>1. timesQuiet => timesSeen = sumRead
      BY <2>6
    <3>2. SumOf(timesBuckets, Used \ (timesUnread \ {n})) = more + sumRead
      BY <2>3
    <3>3. more \in Nat /\ sumRead \in Nat
      BY <2>4, <2>5
    <3>4. QED BY <3>1, <3>2, <3>3
  <2> HIDE DEF n, c, m, h
  <2>14. Walked(timesUnread \ {n}, timesTotal, c, m, h, timesBuckets, timesQuiet)
    BY <2>6, <2>7, <2>8, <2>10, <2>11, <2>12, <2>13 DEF Walked
  <2>15. timesUnread \ {n} \subseteq Used
    BY <1>2
  <2>16. QED BY <1>0, <1>1, <1>2, <2>1, <2>3, <2>4, <2>14, <2>15 DEF TimesInv, Reading
<1>7. CASE Times!Answer
  <2>1. /\ timesUnread = {} /\ timesPass = "walk" /\ timesPass' = "done"
        /\ UNCHANGED <<timesUnread, timesTotal, timesSeen, timesQuiet>>
    BY <1>7 DEF Times!Answer
  <2>2. Walked({}, timesTotal, timesSeen, timesP50, timesP95, timesBuckets, timesQuiet)
    BY <2>1 DEF TimesInv, Reading
  <2>3. SumOf(timesBuckets, {}) = 0
    BY FS_EmptySet, SumLaws
  <2>4. timesTotal <= timesSeen
    BY <1>2, <2>2, <2>3 DEF Walked
  <2>5. Enough(timesSeen, timesTotal, 1, 2) /\ Enough(timesSeen, timesTotal, 19, 20)
    BY <1>2, <2>4 DEF Enough
  <2>6. timesP50 # {} /\ timesP95 # {}
    BY <2>2, <2>5 DEF Walked, FoundOf
  <2>7. timesP50' = timesP50 /\ timesP95' = timesP95
    BY <1>7, <2>6 DEF Times!Answer
  <2>8. QED BY <1>0, <1>1, <1>2, <2>1, <2>2, <2>6, <2>7 DEF TimesInv, Reading
<1>8. CASE Times!Leave
  BY <1>0, <1>1, <1>2, <1>8 DEF Times!Leave, TimesInv, Reading
<1>9. QED BY <1>3, <1>4, <1>5, <1>6, <1>7, <1>8

LEMMA TimesObserve ==
  ASSUME TimesInv, NEW d \in TimesDurations, Times!Observe(d)
  PROVE  TimesInv'
<1> DEFINE Used == Times!Used
           o == Times!BucketOf(d)
<1>1. /\ timesBuckets' = [timesBuckets EXCEPT ![o] = @ + 1]
      /\ timesMeasured' = [timesMeasured EXCEPT ![d] = @ + 1]
      /\ timesQuiet' = FALSE
      /\ UNCHANGED <<timesPass, timesUnread, timesTotal, timesSeen, timesP50, timesP95>>
  BY DEF Times!Observe, Times!reader
<1>2. /\ timesBuckets \in [Used -> Nat] /\ timesMeasured \in [TimesDurations -> Nat]
      /\ \A b \in Used : timesBuckets[b] = SumOf(timesMeasured, TimesOf(b))
      /\ o \in Used
  BY UsedIs DEF TimesInv, CountersTell
<1>3. timesBuckets' \in [Used -> Nat] /\ timesMeasured' \in [TimesDurations -> Nat]
  BY <1>1, <1>2
<1>4. ASSUME NEW b \in Used PROVE timesBuckets'[b] = SumOf(timesMeasured', TimesOf(b))
  <2>1. /\ IsFiniteSet(TimesOf(b)) /\ TimesOf(b) \subseteq TimesDurations
        /\ \A x \in TimesOf(b) : timesMeasured[x] \in Int /\ timesMeasured'[x] \in Int
    BY <1>2, <1>3, UsedIs DEF TimesOf
  <2>2. CASE b = o
    <3>1. d \in TimesOf(b) /\ timesMeasured'[d] = timesMeasured[d] + 1
          /\ \A x \in TimesOf(b) \ {d} : timesMeasured'[x] = timesMeasured[x]
      BY <1>1, <1>2, <2>1, <2>2 DEF TimesOf
    <3>6. IsFiniteSet(TimesOf(b)) /\ \A x \in TimesOf(b) : timesMeasured[x] \in Int
      BY <2>1
    <3>7. timesMeasured'[d] \in Int /\ \A x \in TimesOf(b) \ {d} : timesMeasured'[x] = timesMeasured[x]
      BY <2>1, <3>1
    <3>2. SumOf(timesMeasured', TimesOf(b))
            = SumOf(timesMeasured, TimesOf(b)) + timesMeasured'[d] - timesMeasured[d]
      <4> DEFINE g == timesMeasured'
      <4> HIDE DEF g
      <4>1. g[d] \in Int /\ \A x \in TimesOf(b) \ {d} : g[x] = timesMeasured[x]
        BY <3>7 DEF g
      <4>2. SumOf(g, TimesOf(b)) = SumOf(timesMeasured, TimesOf(b)) + g[d] - timesMeasured[d]
        BY <3>1, <3>6, <4>1, SumChanges
      <4>3. QED BY <4>2 DEF g
    <3>3. timesBuckets'[b] = timesBuckets[b] + 1
      BY <1>1, <1>2, <2>2
    <3>4. timesMeasured[d] \in Nat /\ timesBuckets[b] \in Nat
          /\ timesBuckets[b] = SumOf(timesMeasured, TimesOf(b))
      BY <1>2
    <3>5. QED BY <3>1, <3>2, <3>3, <3>4
  <2>3. CASE b # o
    <3>1. \A x \in TimesOf(b) : timesMeasured[x] \in Int /\ timesMeasured'[x] = timesMeasured[x]
      BY <1>1, <1>2, <2>1, <2>3 DEF TimesOf
    <3>2. SumOf(timesMeasured, TimesOf(b)) = SumOf(timesMeasured', TimesOf(b))
      BY <2>1, <3>1, SumSame
    <3>3. timesBuckets'[b] = timesBuckets[b]
      BY <1>1, <1>2, <2>3
    <3>4. QED BY <1>2, <3>2, <3>3
  <2>4. QED BY <2>2, <2>3
<1>5. CountersTell(timesBuckets', timesMeasured')
  BY <1>3, <1>4 DEF CountersTell
<1>6. ASSUME NEW B \in SUBSET Used
      PROVE  SumOf(timesBuckets, B) <= SumOf(timesBuckets', B)
             /\ SumOf(timesBuckets, B) \in Nat /\ SumOf(timesBuckets', B) \in Nat
  <2>1. IsFiniteSet(B) /\ SumOf(timesBuckets, B) \in Nat /\ SumOf(timesBuckets', B) \in Nat
    BY <1>2, <1>3, PartSums
  <2>2. \A x \in B : timesBuckets[x] \in Int /\ timesBuckets'[x] \in Int
                     /\ timesBuckets[x] <= timesBuckets'[x]
    BY <1>1, <1>2
  <2>3. QED BY <2>1, <2>2, SumGrows
<1>7. /\ timesUnread \in SUBSET Used /\ timesTotal \in Nat /\ timesSeen \in Nat
      /\ \A a \in Used \ timesUnread, b \in timesUnread : a < b
      /\ timesPass = "sum" => Summing(timesUnread, timesTotal, timesSeen, timesP50, timesP95,
                                      timesBuckets, timesQuiet)
      /\ timesPass \in {"walk", "done"}
           => Walked(timesUnread, timesTotal, timesSeen, timesP50, timesP95, timesBuckets,
                     timesQuiet)
  BY DEF TimesInv, Reading
<1>8. ASSUME timesPass = "sum"
      PROVE  Summing(timesUnread, timesTotal, timesSeen, timesP50, timesP95, timesBuckets', FALSE)
  <2>1. Used \ timesUnread \in SUBSET Used
    OBVIOUS
  <2>2. /\ SumOf(timesBuckets, Used \ timesUnread) <= SumOf(timesBuckets', Used \ timesUnread)
        /\ SumOf(timesBuckets, Used \ timesUnread) \in Nat
        /\ SumOf(timesBuckets', Used \ timesUnread) \in Nat
    BY <1>6, <2>1
  <2>3. QED BY <1>7, <1>8, <2>2 DEF Summing
<1>9. ASSUME NEW p, NEW num, NEW den,
             FoundOf(p, num, den, timesUnread, timesTotal, timesSeen, timesBuckets, timesQuiet)
      PROVE  FoundOf(p, num, den, timesUnread, timesTotal, timesSeen, timesBuckets', FALSE)
  <2>1. \A b \in Used : timesBuckets[b] > 0 => timesBuckets'[b] > 0
    BY <1>1, <1>2
  <2>2. QED BY <1>9, <2>1 DEF FoundOf
<1>10. ASSUME timesPass \in {"walk", "done"}
       PROVE  Walked(timesUnread, timesTotal, timesSeen, timesP50, timesP95, timesBuckets', FALSE)
  <2>1. Walked(timesUnread, timesTotal, timesSeen, timesP50, timesP95, timesBuckets, timesQuiet)
    BY <1>7, <1>10
  <2>2. /\ SumOf(timesBuckets, timesUnread) <= SumOf(timesBuckets', timesUnread)
        /\ SumOf(timesBuckets, timesUnread) \in Nat
        /\ SumOf(timesBuckets', timesUnread) \in Nat
    BY <1>6, <1>7
  <2>3. timesTotal <= timesSeen + SumOf(timesBuckets', timesUnread)
    BY <1>7, <2>1, <2>2 DEF Walked
  <2>4. /\ FoundOf(timesP50, 1, 2, timesUnread, timesTotal, timesSeen, timesBuckets', FALSE)
        /\ FoundOf(timesP95, 19, 20, timesUnread, timesTotal, timesSeen, timesBuckets', FALSE)
    BY <1>9, <2>1 DEF Walked
  <2>5. QED BY <2>1, <2>3, <2>4 DEF Walked
<1>11. QED BY <1>1, <1>5, <1>7, <1>8, <1>10 DEF TimesInv, Reading

LEMMA TimesStep == TimesInv /\ [Times!Next]_(Times!vars) => TimesInv'
<1> SUFFICES ASSUME TimesInv, [Times!Next]_(Times!vars) PROVE TimesInv'
  OBVIOUS
<1>1. CASE UNCHANGED Times!vars
  BY <1>1 DEF Times!vars, Times!reader, TimesInv, CountersTell, Reading
<1>2. CASE Times!Next
  BY <1>2, TimesRead, TimesObserve DEF Times!Next
<1>3. QED BY <1>1, <1>2

(* Finitely many naturals have a greatest one. *)
LEMMA GreatestOfNats ==
  ASSUME NEW S, IsFiniteSet(S), S \subseteq Nat, S # {}
  PROVE  \E x \in S : \A y \in S : y <= x
<1> DEFINE Topped == {s \in SUBSET S : s # {} => \E x \in s : \A y \in s : y <= x}
<1>1. ASSUME NEW s \in SUBSET S, \A y \in s : s \ {y} \in Topped PROVE s \in Topped
  <2> SUFFICES ASSUME NEW a \in s PROVE \E x \in s : \A y \in s : y <= x
    OBVIOUS
  <2>1. a \in Nat /\ s \ {a} \in Topped
    BY <1>1
  <2>2. CASE s \ {a} = {}
    BY <2>1, <2>2
  <2>3. CASE s \ {a} # {}
    <3>1. PICK x \in s \ {a} : \A y \in s \ {a} : y <= x
      BY <2>1, <2>3
    <3>2. CASE a <= x
      BY <3>1, <3>2
    <3>3. CASE x < a
      <4>1. \A y \in s : y \in Nat
        OBVIOUS
      <4>2. \A y \in s : y <= a
        BY <3>1, <3>3, <4>1
      <4>3. QED BY <4>2
    <3>4. QED BY <2>1, <3>2, <3>3
  <2>4. QED BY <2>2, <2>3
<1>2. SUBSET S \subseteq Topped
  <2> HIDE DEF Topped
  <2>1. QED BY <1>1, BySize
<1>3. S \in Topped
  BY <1>2
<1>4. QED BY <1>3

LEMMA SumThere ==
  ASSUME NEW f, NEW S
  PROVE  Times!Sum(f, S) = SumOf(f, S)
BY DEF Times!Sum, Times!MapThenSumSet, Times!MapThenFoldSet, SumOf, AddsUp, Chosen

(* What is measured up to a duration, as the property counts it. *)
LEMMA QuantileIs ==
  ASSUME NEW num \in Nat, NEW den \in Nat, num > 0, num <= den,
         timesMeasured \in [TimesDurations -> Nat],
         SumOf(timesMeasured, TimesDurations) > 0
  PROVE  LET q == Times!Quantile(num, den)
             tot == SumOf(timesMeasured, TimesDurations)
         IN  /\ q \in TimesDurations
             /\ Enough(SumOf(timesMeasured, Times!AtMost(q)), tot, num, den)
             /\ \A d \in TimesDurations :
                  Enough(SumOf(timesMeasured, Times!AtMost(d)), tot, num, den) => q <= d
<1> DEFINE tot == SumOf(timesMeasured, TimesDurations)
           S == {d \in TimesDurations :
                   Enough(SumOf(timesMeasured, Times!AtMost(d)), tot, num, den)}
<1>1. tot \in Nat
  BY TimesAssumption, SumIsNat
<1>2. S \subseteq Nat /\ IsFiniteSet(TimesDurations)
  BY TimesAssumption
<1>3. S # {}
  <2>1. TimesDurations # {}
    <3>1. SumOf(timesMeasured, {}) = 0
      BY FS_EmptySet, SumLaws
    <3>2. QED BY <3>1
  <2>2. PICK d \in TimesDurations : \A x \in TimesDurations : x <= d
    BY <2>1, TimesAssumption, GreatestOfNats
  <2>3. Times!AtMost(d) = TimesDurations
    BY <2>2 DEF Times!AtMost
  <2>4. Enough(tot, tot, num, den)
    BY <1>1, EnoughIs
  <2>5. d \in S
    BY <2>3, <2>4
  <2>6. QED BY <2>5
<1>4. Times!Quantile(num, den) = Times!Min(S)
  <2>1. \A d \in TimesDurations :
          Times!Sum(timesMeasured, Times!AtMost(d)) = SumOf(timesMeasured, Times!AtMost(d))
    BY SumThere
  <2>2. Times!Sum(timesMeasured, TimesDurations) = tot
    BY SumThere
  <2>3. QED BY <2>1, <2>2 DEF Times!Quantile, Enough
<1>5. Times!Min(S) \in S /\ \A d \in S : Times!Min(S) <= d
  <2>1. \E x \in S : \A y \in S : x <= y
    <3> HIDE DEF S
    <3>1. QED BY <1>2, <1>3, LeastOfNats
  <2> HIDE DEF S
  <2>2. QED BY <2>1 DEF Times!Min
<1>6. QED BY <1>4, <1>5

(* The first bucket with which it is enough is that of the quantile. *)
LEMMA FoundRightly ==
  ASSUME CountersTell(timesBuckets, timesMeasured), NEW num, NEW den, Share(num, den),
         NEW b \in Times!Used,
         First(b, SumOf(timesMeasured, TimesDurations), num, den, timesBuckets),
         SumOf(timesMeasured, TimesDurations) > 0
  PROVE  Times!Quantile(num, den) \in Nat /\ Times!BucketOf(Times!Quantile(num, den)) = b
<1> DEFINE tot == SumOf(timesMeasured, TimesDurations)
           q == Times!Quantile(num, den)
           k == Times!BucketOf(q)
<1>1. /\ num \in Nat /\ den \in Nat /\ num > 0 /\ num <= den
      /\ timesMeasured \in [TimesDurations -> Nat] /\ timesBuckets \in [Times!Used -> Nat]
      /\ IsFiniteSet(TimesDurations) /\ TimesDurations \subseteq Nat
  BY TimesAssumption DEF Share, CountersTell
<1>2. /\ q \in TimesDurations
      /\ Enough(SumOf(timesMeasured, Times!AtMost(q)), tot, num, den)
      /\ \A d \in TimesDurations :
           Enough(SumOf(timesMeasured, Times!AtMost(d)), tot, num, den) => q <= d
  BY <1>1, QuantileIs
<1> HIDE DEF q
<1>3. k \in Times!Used /\ q \in Nat /\ Times!Used \subseteq Nat
  BY <1>1, <1>2, UsedIs
<1>4. tot \in Nat
  BY <1>1, SumIsNat
<1>5. ASSUME NEW S \in SUBSET TimesDurations, NEW T \in SUBSET TimesDurations, S \subseteq T
      PROVE  /\ SumOf(timesMeasured, S) \in Nat /\ SumOf(timesMeasured, T) \in Nat
             /\ SumOf(timesMeasured, S) <= SumOf(timesMeasured, T)
             /\ Enough(SumOf(timesMeasured, S), tot, num, den)
                  => Enough(SumOf(timesMeasured, T), tot, num, den)
  <2>1. IsFiniteSet(S) /\ IsFiniteSet(T)
    BY <1>1, FS_Subset
  <2>2. SumOf(timesMeasured, S) \in Nat /\ SumOf(timesMeasured, T) \in Nat
    BY <1>1, <2>1, SumIsNat
  <2>3. \A x \in T : timesMeasured[x] \in Nat
    BY <1>1
  <2>4. SumOf(timesMeasured, S) <= SumOf(timesMeasured, T)
    BY <1>5, <2>1, <2>3, SumOfPart
  <2> HIDE DEF tot
  <2>5. QED BY <1>1, <1>4, <2>2, <2>4, EnoughIs
<1>6. \A c \in Times!Used :
        SumOf(timesBuckets, Upto(c)) = SumOf(timesMeasured, MeasuredIn(Upto(c)))
  <2>1. \A c \in Times!Used : Upto(c) \in SUBSET Times!Used
    BY DEF Upto
  <2>2. QED BY <2>1, SameSums
<1>7. Enough(SumOf(timesMeasured, MeasuredIn(Upto(b))), tot, num, den)
      /\ \A c \in Times!Used :
           c < b => ~Enough(SumOf(timesMeasured, MeasuredIn(Upto(c))), tot, num, den)
  BY <1>6 DEF First
<1>8. ~(k < b)
  <2>1. Times!AtMost(q) \subseteq MeasuredIn(Upto(k))
    <3>1. ASSUME NEW x \in TimesDurations, x <= q PROVE x \in MeasuredIn(Upto(k))
      <4>1. Times!BucketOf(x) <= k /\ Times!BucketOf(x) \in Times!Used
        BY <1>1, <1>3, <3>1, BucketsGrow, UsedIs
      <4>2. QED BY <4>1 DEF MeasuredIn, Upto
    <3>2. QED BY <3>1 DEF Times!AtMost
  <2>2. Times!AtMost(q) \in SUBSET TimesDurations
        /\ MeasuredIn(Upto(k)) \in SUBSET TimesDurations
    BY DEF Times!AtMost, MeasuredIn
  <2>3. Enough(SumOf(timesMeasured, MeasuredIn(Upto(k))), tot, num, den)
    BY <1>2, <1>5, <2>1, <2>2
  <2>4. QED BY <1>3, <1>7, <2>3
<1>9. ~(b < k)
  <2> SUFFICES ASSUME b < k PROVE FALSE
    OBVIOUS
  <2> DEFINE M == MeasuredIn(Upto(b))
  <2>1. M \in SUBSET TimesDurations /\ IsFiniteSet(M)
    BY UsedIs DEF MeasuredIn
  <2>2. M # {}
    <3>1. PICK d \in TimesDurations : b = Times!BucketOf(d)
      BY DEF Times!Used
    <3>2. b \in Upto(b)
      BY <1>3 DEF Upto
    <3>3. QED BY <3>1, <3>2 DEF MeasuredIn
  <2>3. PICK d \in M : \A x \in M : x <= d
    <3> HIDE DEF M
    <3>1. M \subseteq Nat
      BY <1>1, <2>1
    <3>2. QED BY <2>1, <2>2, <3>1, GreatestOfNats
  <2>4. M \subseteq Times!AtMost(d) /\ Times!AtMost(d) \in SUBSET TimesDurations
    BY <2>1, <2>3 DEF Times!AtMost
  <2>5. Enough(SumOf(timesMeasured, Times!AtMost(d)), tot, num, den)
    BY <1>5, <1>7, <2>1, <2>4
  <2>6. d \in TimesDurations /\ Times!BucketOf(d) <= b
    BY DEF MeasuredIn, Upto
  <2>7. q <= d /\ d \in Nat
    BY <1>1, <1>2, <2>5, <2>6
  <2>8. k <= Times!BucketOf(d) /\ Times!BucketOf(d) \in Times!Used
    BY <1>3, <2>6, <2>7, BucketsGrow, UsedIs
  <2> DEFINE l == Times!BucketOf(d)
  <2> HIDE DEF k, l
  <2>9. k \in Nat /\ l \in Nat /\ b \in Nat /\ k <= l /\ l <= b /\ b < k
    BY <1>3, <2>6, <2>8 DEF k, l
  <2>10. QED BY <2>9
<1>10. k = b
  <2> HIDE DEF k
  <2>1. QED BY <1>3, <1>8, <1>9
<1>11. QED BY <1>3, <1>10 DEF q

LEMMA TimesCover == TimesInv => Times!PercentilesCover
<1> SUFFICES ASSUME TimesInv, timesPass = "done",
                    NEW median \in timesP50, NEW high \in timesP95
             PROVE  /\ median <= high
                    /\ {median, high} \subseteq {b \in Times!Used : timesBuckets[b] > 0}
                    /\ timesQuiet =>
                         /\ Times!Close(Times!UpperMicros(median), Times!Quantile(1, 2))
                         /\ Times!Close(Times!UpperMicros(high), Times!Quantile(19, 20))
  BY DEF Times!PercentilesCover
<1>1. /\ CountersTell(timesBuckets, timesMeasured) /\ timesTotal \in Nat /\ timesUnread = {}
      /\ Walked(timesUnread, timesTotal, timesSeen, timesP50, timesP95, timesBuckets, timesQuiet)
  BY DEF TimesInv, Reading
<1>2. /\ median \in Times!Used /\ timesBuckets[median] > 0
      /\ timesQuiet => First(median, timesTotal, 1, 2, timesBuckets)
  BY <1>1 DEF Walked, FoundOf
<1>3. /\ high \in Times!Used /\ timesBuckets[high] > 0
      /\ timesQuiet => First(high, timesTotal, 19, 20, timesBuckets)
  BY <1>1 DEF Walked, FoundOf
<1>4. median <= high
  BY <1>1 DEF Walked
<1>5. ASSUME timesQuiet
      PROVE  /\ Times!Close(Times!UpperMicros(median), Times!Quantile(1, 2))
             /\ Times!Close(Times!UpperMicros(high), Times!Quantile(19, 20))
  <2>1. timesTotal = SumOf(timesBuckets, Times!Used) /\ timesTotal > 0
    BY <1>1, <1>5 DEF Walked
  <2>2. MeasuredIn(Times!Used) = TimesDurations
    BY UsedIs DEF MeasuredIn
  <2>3. timesTotal = SumOf(timesMeasured, TimesDurations)
    <3>1. SumOf(timesBuckets, Times!Used) = SumOf(timesMeasured, MeasuredIn(Times!Used))
      BY <1>1, SameSums
    <3>2. QED BY <2>1, <2>2, <3>1
  <2>4. Share(1, 2) /\ Share(19, 20)
    BY DEF Share
  <2>5. Times!Quantile(1, 2) \in Nat /\ Times!BucketOf(Times!Quantile(1, 2)) = median
    BY <1>1, <1>2, <1>5, <2>1, <2>3, <2>4, FoundRightly
  <2>6. Times!Quantile(19, 20) \in Nat /\ Times!BucketOf(Times!Quantile(19, 20)) = high
    BY <1>1, <1>3, <1>5, <2>1, <2>3, <2>4, FoundRightly
  <2>7. Times!Close(Times!UpperMicros(median), Times!Quantile(1, 2))
    BY <2>5, CloseIs
  <2>8. Times!Close(Times!UpperMicros(high), Times!Quantile(19, 20))
    BY <2>6, CloseIs
  <2>9. QED BY <2>7, <2>8
<1>6. QED BY <1>2, <1>3, <1>4, <1>5

-----------------------------------------------------------------------------
(***************************************************************************)
(* The answer times of an upstream.  The moving mean, and every mean that  *)
(* a query has read and not yet written back, lies among the times the     *)
(* upstream has taken; these only become more.                             *)
(***************************************************************************)
AmongTimes(m, T) == m \in Nat /\ \E a \in T, b \in T : a <= m /\ m <= b
MeanOf(m, T) == m = 0 \/ AmongTimes(m, T)

(* What a query has in its hands. *)
InHands(s, T) ==
  /\ s = [rtt |-> s.rtt, previous |-> s.previous]
  /\ s.rtt \in T /\ \A m \in s.previous : MeanOf(m, T)

(* Times have a least and a greatest. *)
Ranged(T) ==
  /\ T \subseteq Nat
  /\ T # {} => \E a \in T, b \in T : \A d \in T : a <= d /\ d <= b

MeanInv ==
  /\ meanWindow \in Seq(Nat) /\ Ranged(meanTimes)
  /\ meanWindow # <<>> => meanTimes # {}
  /\ MeanOf(meanMean, meanTimes)
  /\ DOMAIN meanWriting = MeanThreads
  /\ \A t \in MeanThreads : \A s \in meanWriting[t] : InHands(s, meanTimes)

LEMMA RangedMore ==
  ASSUME NEW T, Ranged(T), NEW d \in Nat
  PROVE  Ranged(T \cup {d})
<1>1. CASE T = {}
  BY <1>1 DEF Ranged
<1>2. CASE T # {}
  <2>1. PICK a \in T, b \in T : \A x \in T : a <= x /\ x <= b
    BY <1>2 DEF Ranged
  <2>2. a \in Nat /\ b \in Nat /\ T \subseteq Nat
    BY DEF Ranged
  <2>3. PICK low \in T \cup {d} : low <= a /\ low <= d
    BY <2>2
  <2>4. PICK high \in T \cup {d} : b <= high /\ d <= high
    BY <2>2
  <2>5. \A x \in T \cup {d} : low <= x /\ x <= high
    BY <2>1, <2>2, <2>3, <2>4
  <2>6. QED BY <2>2, <2>5 DEF Ranged
<1>3. QED BY <1>1, <1>2

LEMMA HandsMore ==
  ASSUME NEW T, NEW U, T \subseteq U
  PROVE  /\ \A m : MeanOf(m, T) => MeanOf(m, U)
         /\ \A s : InHands(s, T) => InHands(s, U)
BY DEF MeanOf, AmongTimes, InHands

LEMMA MeanStart == Mean!Init => MeanInv
BY DEF Mean!Init, MeanInv, Ranged, MeanOf

(* The new mean is between the old one and the time this answer took. *)
LEMMA MeanMoves ==
  ASSUME NEW T, Ranged(T), NEW d \in T, NEW m, MeanOf(m, T)
  PROVE  AmongTimes(Mean!Mean(d, m), T)
<1>1. d \in Nat /\ T \subseteq Nat
  BY DEF Ranged
<1>2. CASE m = 0
  BY <1>1, <1>2 DEF Mean!Mean, AmongTimes
<1>3. CASE m # 0
  <2>1. m \in Nat
    BY <1>3 DEF MeanOf, AmongTimes
  <2>2. PICK a \in T, b \in T : a <= m /\ m <= b
    BY <1>3 DEF MeanOf, AmongTimes
  <2> DEFINE n == (d + 3 * m) \div 4
  <2>3. Mean!Mean(d, m) = n /\ n \in Nat
    BY <1>1, <1>3, <2>1 DEF Mean!Mean
  <2>4. /\ d <= m => d <= n /\ n <= m
        /\ m <= d => m <= n /\ n <= d
    BY <1>1, <2>1
  <2> HIDE DEF n
  <2>5. a \in Nat /\ b \in Nat
    BY <1>1
  <2>6. CASE d <= m
    <3>1. d <= n /\ n <= b
      BY <1>1, <2>1, <2>2, <2>3, <2>4, <2>5, <2>6
    <3>2. QED BY <2>3, <3>1 DEF AmongTimes
  <2>7. CASE m <= d
    <3>1. a <= n /\ n <= d
      BY <1>1, <2>1, <2>2, <2>3, <2>4, <2>5, <2>7
    <3>2. QED BY <2>3, <3>1 DEF AmongTimes
  <2>8. QED BY <1>1, <2>1, <2>6, <2>7
<1>4. QED BY <1>2, <1>3

LEMMA MeanStep == MeanInv /\ [Mean!Next]_(Mean!vars) => MeanInv'
<1> SUFFICES ASSUME MeanInv, [Mean!Next]_(Mean!vars) PROVE MeanInv'
  OBVIOUS
<1>1. ASSUME NEW t \in MeanThreads, NEW d \in MeanDurations, Mean!Succeed(t, d)
      PROVE  MeanInv'
  <2>1. d \in Nat
    BY MeanAssumption
  <2>2. meanTimes' = meanTimes \cup {d} /\ meanMean' = meanMean
    BY <1>1 DEF Mean!Succeed
  <2>3. meanWindow' \in Seq(Nat)
    <3>1. meanWindow \in Seq(Nat)
      BY DEF MeanInv
    <3>2. Len(meanWindow) = MeanSamples => Tail(meanWindow) \in Seq(Nat)
      BY <3>1, MeanAssumption
    <3>3. QED BY <1>1, <2>1, <3>1, <3>2 DEF Mean!Succeed
  <2>4. Ranged(meanTimes')
    BY <2>1, <2>2, RangedMore DEF MeanInv
  <2>5. MeanOf(meanMean', meanTimes')
    BY <2>2, HandsMore DEF MeanInv
  <2>6. DOMAIN meanWriting' = MeanThreads
    BY <1>1 DEF Mean!Succeed, MeanInv
  <2>7. ASSUME NEW u \in MeanThreads, NEW s \in meanWriting'[u] PROVE InHands(s, meanTimes')
    <3>1. CASE u = t
      <4>1. s = [rtt |-> d, previous |-> {}]
        BY <1>1, <2>7, <3>1 DEF Mean!Succeed, MeanInv
      <4>2. QED BY <2>2, <4>1 DEF InHands
    <3>2. CASE u # t
      <4>1. s \in meanWriting[u]
        BY <1>1, <2>7, <3>2 DEF Mean!Succeed, MeanInv
      <4>2. QED BY <2>2, <4>1, HandsMore DEF MeanInv
    <3>3. QED BY <3>1, <3>2
  <2>8. QED BY <2>2, <2>3, <2>4, <2>5, <2>6, <2>7 DEF MeanInv
<1>2. ASSUME NEW t \in MeanThreads, Mean!LoadMean(t) PROVE MeanInv'
  <2>1. PICK s \in meanWriting[t] :
          /\ meanWriting' = [meanWriting EXCEPT ![t] = {[s EXCEPT !.previous = {meanMean}]}]
          /\ UNCHANGED <<meanWindow, meanMean, meanTimes, meanAnswers>>
    BY <1>2 DEF Mean!LoadMean
  <2>2. InHands(s, meanTimes) /\ MeanOf(meanMean, meanTimes)
    BY DEF MeanInv
  <2>3. InHands([s EXCEPT !.previous = {meanMean}], meanTimes)
    <3>1. [s EXCEPT !.previous = {meanMean}] = [rtt |-> s.rtt, previous |-> {meanMean}]
      BY <2>2 DEF InHands
    <3>2. QED BY <2>2, <3>1 DEF InHands
  <2>4. DOMAIN meanWriting' = MeanThreads
        /\ \A u \in MeanThreads : \A r \in meanWriting'[u] : InHands(r, meanTimes)
    BY <2>1, <2>3 DEF MeanInv
  <2>5. QED BY <2>1, <2>4 DEF MeanInv
<1>3. ASSUME NEW t \in MeanThreads, Mean!StoreMean(t) PROVE MeanInv'
  <2>1. PICK s \in meanWriting[t] : \E previous \in s.previous :
          /\ meanMean' = Mean!Mean(s.rtt, previous)
          /\ meanWriting' = [meanWriting EXCEPT ![t] = {}]
          /\ UNCHANGED <<meanWindow, meanTimes, meanAnswers>>
    BY <1>3 DEF Mean!StoreMean
  <2>2. PICK previous \in s.previous :
          /\ meanMean' = Mean!Mean(s.rtt, previous)
          /\ meanWriting' = [meanWriting EXCEPT ![t] = {}]
          /\ UNCHANGED <<meanWindow, meanTimes, meanAnswers>>
    BY <2>1
  <2>3. InHands(s, meanTimes) /\ Ranged(meanTimes)
    BY DEF MeanInv
  <2>4. AmongTimes(meanMean', meanTimes)
    BY <2>2, <2>3, MeanMoves DEF InHands
  <2>5. MeanOf(meanMean', meanTimes)
    BY <2>4 DEF MeanOf
  <2>6. QED BY <2>2, <2>5 DEF MeanInv
<1>4. CASE UNCHANGED Mean!vars
  BY <1>4 DEF MeanInv, Mean!vars
<1>5. QED BY <1>1, <1>2, <1>3, <1>4 DEF Mean!Next

(* There are as many numbers from one on as the last one says. *)
LEMMA FirstOnes == \A m \in Nat : Cardinality(1 .. m) = m
<1> SUFFICES ASSUME NEW m \in Nat PROVE Cardinality(1 .. m) = m
  OBVIOUS
<1>1. Cardinality(1 .. m) = IF 1 > m THEN 0 ELSE m - 1 + 1
  BY FS_Interval
<1>2. QED BY <1>1

(* A rank that the window has is that of a time in it. *)
LEMMA PickIs ==
  ASSUME NEW w \in Seq(Nat), NEW k \in Nat, k <= Len(w), w # <<>>
  PROVE  LET Fit == {d \in {w[i] : i \in DOMAIN w} :
                       Cardinality({i \in DOMAIN w : w[i] <= d}) >= k}
         IN  \E d \in Fit : \A x \in Fit : d <= x
<1> DEFINE OfWindow == {w[i] : i \in DOMAIN w}
           To(d) == {i \in DOMAIN w : w[i] <= d}
           Fit == {d \in OfWindow : Cardinality(To(d)) >= k}
<1>1. Fit \subseteq Nat
  OBVIOUS
<1>2. PICK high \in OfWindow : \A x \in OfWindow : x <= high
  <2> DEFINE S == 1 .. Len(w)
             Topped == {s \in SUBSET S : s # {} => \E h \in s : \A i \in s : w[i] <= w[h]}
  <2>0. IsFiniteSet(S)
    BY FS_Interval
  <2>1. DOMAIN w = S /\ \A i \in S : w[i] \in Nat
    OBVIOUS
  <2>2. ASSUME NEW s \in SUBSET S, \A y \in s : s \ {y} \in Topped PROVE s \in Topped
    <3> SUFFICES ASSUME s # {} PROVE \E h \in s : \A i \in s : w[i] <= w[h]
      OBVIOUS
    <3>1. PICK y \in s : TRUE
      OBVIOUS
    <3> HIDE DEF S
    <3>2. w[y] \in Nat /\ \A i \in s : w[i] \in Nat
      BY <2>1
    <3>3. CASE s \ {y} = {}
      <4>1. \A i \in s : i = y
        BY <3>3
      <4>2. QED BY <3>1, <3>2, <4>1
    <3>4. CASE s \ {y} # {}
      <4>1. PICK h \in s \ {y} : \A i \in s \ {y} : w[i] <= w[h]
        BY <2>2, <3>1, <3>4
      <4>2. CASE w[h] <= w[y]
        <5>1. \A i \in s : w[i] <= w[y]
          BY <3>2, <4>1, <4>2
        <5>2. QED BY <3>1, <5>1
      <4>3. CASE w[y] <= w[h]
        <5>1. \A i \in s : w[i] <= w[h]
          BY <3>2, <4>1, <4>3
        <5>2. QED BY <5>1
      <4>4. QED BY <3>2, <4>2, <4>3
    <3>5. QED BY <3>3, <3>4
  <2>3. SUBSET S \subseteq Topped
    <3> HIDE DEF Topped, S
    <3>1. \A s \in SUBSET S : (\A y \in s : s \ {y} \in Topped) => s \in Topped
      BY <2>2
    <3>2. QED BY <2>0, <3>1, BySize
  <2>4. S \in Topped /\ S # {}
    <3>1. 1 \in S
      OBVIOUS
    <3> HIDE DEF Topped
    <3>2. QED BY <2>3, <3>1
  <2>5. PICK h \in S : \A i \in S : w[i] <= w[h]
    BY <2>4
  <2> HIDE DEF S
  <2>6. w[h] \in OfWindow /\ \A x \in OfWindow : x <= w[h]
    BY <2>1, <2>5
  <2>7. QED BY <2>6
<1>3. To(high) = 1 .. Len(w)
  BY <1>2
<1>4. Cardinality(To(high)) = Len(w)
  <2>1. Len(w) \in Nat /\ Cardinality(1 .. Len(w)) = Len(w)
    <3>1. Len(w) \in Nat
      OBVIOUS
    <3>2. QED BY <3>1, FirstOnes
  <2> DEFINE all == 1 .. Len(w)
  <2> HIDE DEF To, all
  <2>2. To(high) = all /\ Cardinality(all) = Len(w)
    BY <1>3, <2>1 DEF all
  <2>3. QED BY <2>2
<1>5. high \in Fit
  BY <1>2, <1>4
<1> HIDE DEF Fit
<1>6. \E d \in Fit : \A x \in Fit : d <= x
  BY <1>1, <1>5, LeastOfNats
<1>7. QED BY <1>6 DEF Fit

LEMMA MeanIsRight == MeanInv => Mean!UpstreamTimesAreRight
<1> SUFFICES ASSUME MeanInv, meanWindow # <<>> PROVE Mean!UpstreamTimesAreRight
  BY DEF Mean!UpstreamTimesAreRight
<1> DEFINE w == meanWindow
           n == Len(w)
           Rank(p) == 1 + (2 * (n - 1) * p + 100) \div 200
           Fit(p) == {d \in {w[i] : i \in DOMAIN w} :
                        Cardinality({i \in DOMAIN w : w[i] <= d}) >= Rank(p)}
<1>1. w \in Seq(Nat) /\ n \in Nat \ {0} /\ w # <<>>
  BY DEF MeanInv
<1>2. /\ Rank(50) \in 1 .. n /\ Rank(95) \in 1 .. n
      /\ Rank(50) <= Rank(95) /\ 2 * Rank(50) >= n
  <2> HIDE DEF w, n
  <2>1. QED BY <1>1
<1>3. \A p : Mean!Pick(p) = CHOOSE d \in Fit(p) : \A x \in Fit(p) : d <= x
  BY DEF Mean!Pick, Mean!UpTo, Mean!Min, Mean!Range, Mean!Cardinality, Cardinality
<1> HIDE DEF Rank
<1>4. /\ \E d \in Fit(50) : \A x \in Fit(50) : d <= x
      /\ \E d \in Fit(95) : \A x \in Fit(95) : d <= x
  <2>1. Rank(50) \in Nat /\ Rank(95) \in Nat /\ Rank(50) <= n /\ Rank(95) <= n
    BY <1>1, <1>2
  <2> HIDE DEF w
  <2>2. QED BY <1>1, <2>1, PickIs
<1>5. /\ Mean!Pick(50) \in Fit(50) /\ \A x \in Fit(50) : Mean!Pick(50) <= x
      /\ Mean!Pick(95) \in Fit(95)
  <2> HIDE DEF Fit
  <2>1. QED BY <1>3, <1>4
<1>6. \A d \in {w[i] : i \in DOMAIN w} : Cardinality(Mean!UpTo(d)) \in Nat
  <2>1. IsFiniteSet(1 .. n)
    BY <1>1, FS_Interval
  <2>2. ASSUME NEW d PROVE Cardinality(Mean!UpTo(d)) \in Nat
    <3>1. Mean!UpTo(d) \in SUBSET (1 .. n)
      BY <1>1 DEF Mean!UpTo
    <3>2. QED BY <2>1, <3>1, FS_Subset, FS_CardinalityType
  <2>3. QED BY <2>2
<1>7. Mean!Pick(95) \in Fit(50)
  <2>1. Cardinality(Mean!UpTo(Mean!Pick(95))) >= Rank(95)
        /\ Mean!Pick(95) \in {w[i] : i \in DOMAIN w}
    BY <1>5 DEF Mean!UpTo
  <2>2. Cardinality(Mean!UpTo(Mean!Pick(95))) \in Nat
    BY <1>6, <2>1
  <2> DEFINE c == Cardinality(Mean!UpTo(Mean!Pick(95)))
             low == Rank(50)
             high == Rank(95)
  <2>3. c \in Nat /\ c >= high /\ low \in Nat /\ high \in Nat /\ low <= high
    BY <1>1, <1>2, <2>1, <2>2
  <2> HIDE DEF c, low, high
  <2>4. c >= low
    BY <2>3
  <2>5. QED BY <2>1, <2>4 DEF c, low, Mean!UpTo
<1>8. Mean!Pick(50) <= Mean!Pick(95)
  BY <1>5, <1>7
<1>9. 2 * Cardinality(Mean!UpTo(Mean!Pick(50))) >= Len(meanWindow)
  <2>1. Cardinality(Mean!UpTo(Mean!Pick(50))) >= Rank(50)
        /\ Mean!Pick(50) \in {w[i] : i \in DOMAIN w}
    BY <1>5 DEF Mean!UpTo
  <2>2. QED BY <1>1, <1>2, <1>6, <2>1
<1>10. ASSUME meanMean # 0 PROVE meanMean \in Mean!Min(meanTimes) .. Mean!Max(meanTimes)
  <2>1. AmongTimes(meanMean, meanTimes) /\ Ranged(meanTimes) /\ meanTimes # {}
    BY <1>10 DEF MeanInv, MeanOf
  <2>2. PICK a \in meanTimes, b \in meanTimes : a <= meanMean /\ meanMean <= b
    BY <2>1 DEF AmongTimes
  <2>3. \E low \in meanTimes : \A d \in meanTimes : low <= d
    BY <2>1 DEF Ranged
  <2>4. \E high \in meanTimes : \A d \in meanTimes : high >= d
    BY <2>1 DEF Ranged
  <2>5. Mean!Min(meanTimes) \in meanTimes /\ Mean!Min(meanTimes) <= a
    BY <2>3 DEF Mean!Min
  <2>6. Mean!Max(meanTimes) \in meanTimes /\ Mean!Max(meanTimes) >= b
    BY <2>4 DEF Mean!Max
  <2>7. meanTimes \subseteq Nat /\ meanMean \in Nat
    BY <2>1 DEF Ranged, AmongTimes
  <2>8. a \in Nat /\ b \in Nat /\ Mean!Min(meanTimes) \in Nat /\ Mean!Max(meanTimes) \in Nat
    BY <2>5, <2>6, <2>7
  <2> HIDE DEF w, n
  <2>9. QED BY <2>2, <2>5, <2>6, <2>7, <2>8
<1>11. QED BY <1>8, <1>9, <1>10 DEF Mean!UpstreamTimesAreRight, Mean!Cardinality, Cardinality

(***************************************************************************)
(* latency.rs:69, upstream/pool.rs:315: whatever is measured while the     *)
(* counters are read twice, both percentiles lie in buckets something was  *)
(* measured in, in their order, and are the true ones but for a sixteenth  *)
(* if nothing was.  However the threads that time an upstream overtake one *)
(* another, its median is at most its high percentile, half of its window  *)
(* is not above the median, and its mean lies among the times it took.     *)
(***************************************************************************)
THEOREM TimesTrue == Times!Spec /\ Mean!Spec => []TimesAreRight
<1>1. TimesInv /\ MeanInv => TimesAreRight
  BY TimesCover, MeanIsRight DEF TimesAreRight
<1>2. QED
  BY <1>1, TimesStart, TimesStep, MeanStart, MeanStep, PTL DEF Times!Spec, Mean!Spec
=============================================================================
