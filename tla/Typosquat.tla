------------------------------- MODULE Typosquat -------------------------------
(***************************************************************************)
(* Names that look like a domain worth protecting (detect/typosquat.rs).   *)
(* A name is a sequence of labels, a label one of characters; a character  *)
(* that looks like a Latin one is in the domain of Confusable.             *)
(***************************************************************************)
EXTENDS Integers, Names, FiniteSetsExt

CONSTANTS
  Confusable,  \* character -> the Latin one it looks like
  MinLength,   \* MIN_LENGTH
  MaxDistance, \* MAX_DISTANCE
  Protects,    \* what detection.typosquat.protect may hold
  Questions    \* names that are asked for

(* A name as it is written, label after label. *)
Text(name) ==
  LET text[i \in 0 .. Len(name)] ==
        IF i = 0 THEN <<>>
        ELSE LET before == text[i - 1]
             IN  IF before = <<>> THEN name[i] ELSE before \o <<".">> \o name[i]
  IN  text[Len(name)]

Latin(c) == IF c \in DOMAIN Confusable THEN Confusable[c] ELSE c
Skeleton(name) == [i \in DOMAIN name |-> [j \in DOMAIN name[i] |-> Latin(name[i][j])]]
HasNonAscii(name) == \E i \in DOMAIN name, c \in DOMAIN Confusable : c \in Range(name[i])

Registrable(name) == TrimTo(name, 2)

(* The protected domain as labels of the name, but not at its end. *)
Embeds(name, protected) ==
  /\ ~Within(name, protected)
  /\ \E i \in 1 .. Len(name) : IsPrefix(protected, SubSeq(name, i, Len(name)))

-----------------------------------------------------------------------------
(***************************************************************************)
(* distance: optimal string alignment, row by row, with the two rows       *)
(* before.  Rows are functions on 0 .. Len(right).                         *)
(***************************************************************************)
(* Mutation: a swap is counted from the row before, not from two before. *)
CellFromLastRow(left, right, prev2, prev, row, before, col) ==
  LET edits == {prev[col] + 1, before + 1,
                prev[col - 1] + (IF left[row] = right[col] THEN 0 ELSE 1)}
      swapped == /\ row > 1 /\ col > 1
                 /\ left[row] = right[col - 1] /\ right[col] = left[row - 1]
  IN  Min(edits \cup IF swapped THEN {prev[col - 2] + 1} ELSE {})

Cell(left, right, prev2, prev, row, before, col) ==
  LET edits == {prev[col] + 1, before + 1,
                prev[col - 1] + (IF left[row] = right[col] THEN 0 ELSE 1)}
      swapped == /\ row > 1 /\ col > 1
                 /\ left[row] = right[col - 1] /\ right[col] = left[row - 1]
  IN  Min(edits \cup IF swapped THEN {prev2[col - 2] + 1} ELSE {})

NextRow(left, right, prev2, prev, row) ==
  LET cells[col \in 0 .. Len(right)] ==
        IF col = 0 THEN row ELSE Cell(left, right, prev2, prev, row, cells[col - 1], col)
  IN  cells

(* What the rows are after all of left; one that is above the limit ends it. *)
LastRows(left, right, limit) ==
  LET width == 0 .. Len(right)
      rows[row \in 0 .. Len(left)] ==
        IF row = 0
        THEN [prev2 |-> [c \in width |-> 0], prev |-> [c \in width |-> c], ended |-> FALSE]
        ELSE LET last == rows[row - 1]
                 current == NextRow(left, right, last.prev2, last.prev, row)
             IN  IF last.ended THEN last
                 ELSE [prev2 |-> last.prev, prev |-> current,
                       ended |-> \A c \in width : current[c] > limit]
  IN  rows[Len(left)]

(* The distance, if it is no more than limit. *)
Distance(left, right, limit) ==
  LET end == LastRows(left, right, limit)
      apart == IF Len(left) > Len(right) THEN Len(left) - Len(right)
               ELSE Len(right) - Len(left)
  IN  IF apart > limit \/ end.ended \/ end.prev[Len(right)] > limit THEN {}
      ELSE {end.prev[Len(right)]}

(* What the distance is: the least number of edits, over all prefixes. *)
Reference(left, right) ==
  LET d[ij \in (0 .. Len(left)) \X (0 .. Len(right))] ==
        LET i == ij[1]
            j == ij[2]
        IN  IF i = 0 THEN j ELSE IF j = 0 THEN i
            ELSE Min({d[<<i - 1, j>>] + 1, d[<<i, j - 1>>] + 1,
                        d[<<i - 1, j - 1>>] + IF left[i] = right[j] THEN 0 ELSE 1}
                       \cup IF i > 1 /\ j > 1 /\ left[i] = right[j - 1] /\ left[i - 1] = right[j]
                            THEN {d[<<i - 2, j - 2>>] + 1} ELSE {})
  IN  d[<<Len(left), Len(right)>>]

-----------------------------------------------------------------------------
(* What one entry of the list says of the name: a score, or nothing. *)
Suspicion(name, protected) ==
  LET candidate == Registrable(name)
      far == Distance(Text(candidate), Text(protected), MaxDistance) \ {0}
  IN  CASE Embeds(name, protected) -> {950}
        [] Len(Text(candidate)) < MinLength \/ Len(candidate) < 2 -> {}
        [] Skeleton(candidate) = Skeleton(protected) /\ HasNonAscii(name) -> {1000}
        [] Head(candidate) = Head(protected) /\ Tail(candidate) # Tail(protected) -> {900}
        [] OTHER -> {IF d = 1 THEN 950 ELSE 850 : d \in far}

(* Typosquat::inspect: the best hit of all; a protected domain has none. *)
Inspect(protect, name) ==
  LET found == UNION {Suspicion(name, p) : p \in Range(protect)}
  IN  IF Registrable(name) \in Range(protect) \/ found = {} THEN {} ELSE {Max(found)}

-----------------------------------------------------------------------------
VARIABLES
  protect,  \* the list
  question, \* the name that was asked for
  score     \* what was found

vars == <<protect, question, score>>

Init == protect \in Protects /\ question = Root /\ score = {}

Ask(name) ==
  /\ question = Root
  /\ question' = name
  /\ score' = Inspect(protect, name)
  /\ UNCHANGED protect

Next == \E name \in Questions : Ask(name)

Spec == Init /\ [][Next]_vars

(***************************************************************************)
(* typosquat.rs:185: for a question and a protected domain, the distance   *)
(* that is computed with three rows and given up early is the one that is  *)
(* defined over all prefixes, if that is within the limit, and otherwise   *)
(* there is none.                                                          *)
(***************************************************************************)
DistanceIsRight ==
  \A p \in Range(protect), limit \in 0 .. MaxDistance :
    LET d == Reference(Text(question), Text(p))
    IN  Distance(Text(question), Text(p), limit) = (IF d <= limit THEN {d} ELSE {})

(***************************************************************************)
(* typosquat.rs:273: "Das Original selbst wird nie gemeldet": neither a    *)
(* protected domain nor a name below it is taken for a forgery.            *)
(***************************************************************************)
OriginalIsNeverReported ==
  (\E p \in Range(protect) : Within(question, p)) => score = {}
=============================================================================
