---------------------------- MODULE UpdaterProofs ----------------------------
(***************************************************************************)
(* What holds of the rules in effect, for any configurations and lists.    *)
(***************************************************************************)
EXTENDS Updater, TLAPS

USE UpdaterAssumption

(* A rule set that is whole: every list its policies refer to is there. *)
Whole(rules) ==
  /\ rules \in RuleSet
  /\ Used[rules.config] \subseteq rules.lists
  /\ rules.lists \subseteq Enabled[rules.config]

(* The rule set a cycle puts into effect once it has built it. *)
Built == [config |-> state, lists |-> fetched]

(***************************************************************************)
(* TypeOK is inductive as it stands.  That the rules are whole rests on    *)
(* the cycle having been checked when it was built, and on its state not   *)
(* having changed since; that the display is right, on how far the         *)
(* replacement has come.                                                   *)
(***************************************************************************)
Effective ==
  /\ Whole(engine) /\ Whole(shown)
  /\ updater \in {"replacing", "counting", "recording"} => Used[state] \subseteq fetched
  /\ updater \in {"counting", "recording"} => engine = Built
  /\ updater \notin {"counting", "recording"} => shown = engine
  /\ updater # "counting" => entries = engine

LEMMA InitTypeOK == Init => TypeOK /\ Effective
<1> SUFFICES ASSUME Init PROVE TypeOK /\ Effective
  OBVIOUS
<1>1. file \in Accepted /\ file \in Configs /\ Used[file] \subseteq Enabled[file]
  BY DEF Init, Accepted
<1>2. Enabled[file] \in SUBSET Lists
  BY <1>1
<1>3. engine = [config |-> file, lists |-> Enabled[file]]
  BY DEF Init
<1>4. engine \in RuleSet
  BY <1>1, <1>2, <1>3 DEF RuleSet
<1>5. entries = engine /\ shown = engine /\ updater = "waiting"
  BY DEF Init
<1>6. Effective
  BY <1>1, <1>3, <1>4, <1>5 DEF Effective, Whole
<1>7. {engine, entries, shown} \subseteq RuleSet
  BY <1>4, <1>5
<1>8. TypeOK
  BY <1>1, <1>7 DEF Init, TypeOK
<1>9. QED
  BY <1>6, <1>8

LEMMA BuiltIsARuleSet ==
  ASSUME TypeOK, updater \in {"replacing", "counting", "recording"}
  PROVE  Built \in RuleSet /\ Built.lists \subseteq Enabled[state] /\ Built.config = state
BY DEF TypeOK, Built, RuleSet, Accepted

LEMMA StepTypeOK == TypeOK /\ [Next]_vars => TypeOK'
<1> SUFFICES ASSUME TypeOK, [Next]_vars PROVE TypeOK'
  OBVIOUS
<1> USE DEF TypeOK, Accepted
<1>1. CASE EditFile
  BY <1>1 DEF EditFile, reloading, updating, effect
<1>2. CASE Hangup
  BY <1>2 DEF Hangup, reloading, updating, effect
<1>3. CASE Reload
  BY <1>3 DEF Reload, Receive, Reject, Parse, Store, Notify, updating, effect
<1>4. CASE Tick \/ Woken
  BY <1>4 DEF Tick, Woken, reloading, effect
<1>5. CASE TakeState
  BY <1>5 DEF TakeState, reloading, effect
<1>6. ASSUME NEW l \in Lists, Fetched(l) \/ NotFetched(l) PROVE TypeOK'
  BY <1>6 DEF Fetched, NotFetched, reloading, effect
<1>7. CASE BuildFails \/ Build
  BY <1>7 DEF BuildFails, Build, reloading, effect
<1>8. CASE Replace \/ Count \/ RecordLoaded
  <2>1. Built \in RuleSet
    BY <1>8, BuiltIsARuleSet DEF Replace, Count, RecordLoaded
  <2>2. QED
    BY <1>8, <2>1 DEF Replace, Count, RecordLoaded, Built, reloading, effect
<1>9. CASE UNCHANGED vars
  BY <1>9 DEF vars
<1>10. QED
  BY <1>1, <1>2, <1>3, <1>4, <1>5, <1>6, <1>7, <1>8, <1>9 DEF Next, Cycle

LEMMA StepEffective == TypeOK /\ Effective /\ [Next]_vars => Effective'
<1> SUFFICES ASSUME TypeOK, Effective, [Next]_vars PROVE Effective'
  OBVIOUS
<1> USE DEF Effective
<1>1. CASE EditFile \/ Hangup
  BY <1>1 DEF EditFile, Hangup, updating, effect, Whole, Built
<1>2. CASE Reload
  BY <1>2 DEF Reload, Receive, Reject, Parse, Store, Notify, updating, effect, Whole, Built
<1>3. CASE Tick \/ Woken
  BY <1>3 DEF Tick, Woken, effect, Whole, Built
<1>4. CASE TakeState
  BY <1>4 DEF TakeState, effect, Whole, TypeOK
<1>5. ASSUME NEW l \in Lists, Fetched(l) \/ NotFetched(l) PROVE Effective'
  BY <1>5 DEF Fetched, NotFetched, effect, Whole
<1>6. CASE BuildFails \/ Build
  BY <1>6 DEF BuildFails, Build, effect, Whole
<1>7. CASE Replace
  <2>1. Whole(Built)
    BY <1>7, BuiltIsARuleSet DEF Replace, Whole, Built
  <2>2. QED BY <1>7, <2>1 DEF Replace, Whole, Built
<1>8. CASE Count
  BY <1>8 DEF Count, Whole, Built
<1>9. CASE RecordLoaded
  BY <1>9 DEF RecordLoaded, Whole, Built
<1>10. CASE UNCHANGED vars
  BY <1>10 DEF vars, Whole, Built
<1>11. QED
  BY <1>1, <1>2, <1>3, <1>4, <1>5, <1>6, <1>7, <1>8, <1>9, <1>10 DEF Next, Cycle

(* The tasks keep their types, and a cycle works on the lists of the state *)
(* it took.                                                                *)
THEOREM TypeCorrect == Spec => []TypeOK
BY InitTypeOK, StepTypeOK, PTL DEF Spec

(* B.1 rule 6 for any configurations, lists, reloads and failed downloads: *)
(* the rules in effect are those of one configuration, with every list its *)
(* policies refer to.                                                      *)
THEOREM NeverUnfiltered == Spec => []RulesAreWhole
<1>1. Effective => RulesAreWhole
  BY DEF Effective, Whole, RulesAreWhole
<1>2. QED BY <1>1, InitTypeOK, StepTypeOK, StepEffective, PTL DEF Spec

(* The display is never ahead of the rules in effect, it has all the lists *)
(* they refer to, and it lacks nothing that can still be said of them.     *)
THEOREM DisplayIsTrue == Spec => []ShownIsInEffect
<1>1. Effective => ShownIsInEffect
  <2> SUFFICES ASSUME Effective PROVE ShownIsInEffect
    OBVIOUS
  <2>1. Used[shown.config] \subseteq {d.name : d \in Displayed}
    <3>1. ASSUME NEW l \in shown.lists PROVE l \in {d.name : d \in Displayed}
      <4> DEFINE d == [name |-> l, format |-> Known(l), age |-> Known(l)]
      <4>1. d \in Displayed
        BY Zenon DEF Displayed
      <4>2. d.name = l
        OBVIOUS
      <4> HIDE DEF d
      <4>3. QED BY <4>1, <4>2
    <3>2. QED BY <3>1 DEF Effective, Whole
  <2>2. ASSUME NEW d \in Displayed, source = shown.config PROVE d.format /\ d.age
    <3>1. PICK l \in shown.lists : d = [name |-> l, format |-> Known(l), age |-> Known(l)]
      BY Zenon DEF Displayed
    <3>2. Known(l) = TRUE
      BY <2>2 DEF Effective, Whole, Known
    <3>3. d = [name |-> l, format |-> TRUE, age |-> TRUE]
      BY <3>1, <3>2, Zenon
    <3>4. d.format = TRUE /\ d.age = TRUE
      BY <3>3
    <3>5. QED BY <3>4, Zenon
  <2>3. QED BY <2>1, <2>2, Zenon DEF Effective, ShownIsInEffect
<1>2. QED BY <1>1, InitTypeOK, StepTypeOK, StepEffective, PTL DEF Spec
=============================================================================
