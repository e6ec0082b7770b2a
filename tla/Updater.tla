------------------------------- MODULE Updater -------------------------------
(***************************************************************************)
(* How rules come into effect and change while the server runs: SIGHUP     *)
(* reloads the configuration (main.rs, reload_on_hangup), a task loads the *)
(* lists anew at every interval or when a reload wakes it (policy/mod.rs,  *)
(* run_updater), and the engine's rule set is replaced under the requests. *)
(* What the two tasks share is PolicySource (reload.rs): configuration and *)
(* list sources in one pointer, swapped as a whole.                        *)
(*                                                                         *)
(* A rule set is the configuration it was built from and the lists that    *)
(* were loaded for it.  What ListCache knows of one list is here whether   *)
(* its load ends well.  Shutdown, which ends both tasks, is left out.      *)
(***************************************************************************)
EXTENDS Integers, FiniteSets

CONSTANTS
  Configs,  \* contents the configuration file may have
  Rejected, \* those Config::load or Blueprint::from_config rejects
  Lists,    \* filter lists
  Enabled,  \* [Configs -> lists it configures and enables]
  Used,     \* [Configs -> lists its policies refer to]
  None

ASSUME UpdaterAssumption ==
  /\ Rejected \subseteq Configs
  /\ Configs \ Rejected # {}
  /\ Enabled \in [Configs -> SUBSET Lists]
  /\ Used \in [Configs -> SUBSET Lists]
  /\ None \notin Configs

Accepted == Configs \ Rejected
RuleSet == [config : Accepted, lists : SUBSET Lists]

VARIABLES
  file,       \* the configuration file
  hangup,     \* whether a SIGHUP is pending (several are one)
  reloader,   \* where reload_on_hangup is
  parsed,     \* the configuration it has built
  source,     \* PolicySource::state
  wake,       \* the permit of the Notify
  updater,    \* where run_updater is
  state,      \* the state its cycle works on
  waiting,    \* lists whose load has not ended
  fetched,    \* lists whose load ended well
  engine,     \* Engine::set
  entries,    \* Engine::entries, as the rule set they were counted in
  shown,      \* PolicySource::loaded
  attempted   \* history: the configuration of the last build

reloading == <<reloader, parsed>>
updating == <<updater, state, waiting, fetched>>
effect == <<engine, entries, shown>>
vars == <<file, hangup, reloader, parsed, source, wake, updater, state,
          waiting, fetched, engine, entries, shown, attempted>>

(* The process has come through its strict start: every list was loaded.   *)
Init ==
  /\ file \in Accepted
  /\ Used[file] \subseteq Enabled[file]
  /\ hangup = FALSE
  /\ reloader = "waiting"
  /\ parsed = None
  /\ source = file
  /\ wake = FALSE
  /\ updater = "waiting"
  /\ state = None
  /\ waiting = {}
  /\ fetched = {}
  /\ engine = [config |-> file, lists |-> Enabled[file]]
  /\ entries = engine
  /\ shown = engine
  /\ attempted = file

-----------------------------------------------------------------------------
(* The environment. *)

EditFile ==
  /\ file' \in Configs \ {file}
  /\ UNCHANGED <<hangup, reloading, source, wake, updating, effect, attempted>>

Hangup ==
  /\ hangup' = TRUE
  /\ UNCHANGED <<file, reloading, source, wake, updating, effect, attempted>>

-----------------------------------------------------------------------------
(* reload_on_hangup: the signal is taken, ... *)
Receive ==
  /\ reloader = "waiting"
  /\ hangup
  /\ hangup' = FALSE
  /\ reloader' = "loading"
  /\ UNCHANGED <<file, parsed, source, wake, updating, effect, attempted>>

(* ... a file that is rejected changes nothing, ... *)
Reject ==
  /\ reloader = "loading"
  /\ file \in Rejected
  /\ reloader' = "waiting"
  /\ UNCHANGED <<file, hangup, parsed, source, wake, updating, effect, attempted>>

(* ... any other is built first ... *)
Parse ==
  /\ reloader = "loading"
  /\ file \notin Rejected
  /\ parsed' = file
  /\ reloader' = "storing"
  /\ UNCHANGED <<file, hangup, source, wake, updating, effect, attempted>>

(* ... and then published in one step, ... *)
Store ==
  /\ reloader = "storing"
  /\ source' = parsed
  /\ parsed' = None
  /\ reloader' = "notifying"
  /\ UNCHANGED <<file, hangup, wake, updating, effect, attempted>>

(* Mutation: notify_waiters, which leaves no permit behind. *)
NotifyWaiters ==
  /\ reloader = "notifying"
  /\ wake' = (updater = "waiting")
  /\ reloader' = "waiting"
  /\ UNCHANGED <<file, hangup, parsed, source, updating, effect, attempted>>

(* ... and the updater is woken, or finds the permit when it waits again.  *)
Notify ==
  /\ reloader = "notifying"
  /\ wake' = TRUE
  /\ reloader' = "waiting"
  /\ UNCHANGED <<file, hangup, parsed, source, updating, effect, attempted>>

-----------------------------------------------------------------------------
(* run_updater: a tick of the interval or the permit starts a cycle, ...   *)
Tick ==
  /\ updater = "waiting"
  /\ updater' = "woken"
  /\ UNCHANGED <<file, hangup, reloading, source, wake, state, waiting,
                 fetched, effect, attempted>>

Woken ==
  /\ updater = "waiting"
  /\ wake
  /\ wake' = FALSE
  /\ updater' = "woken"
  /\ UNCHANGED <<file, hangup, reloading, source, state, waiting, fetched,
                 effect, attempted>>

(* ... which works on one state to its end: configuration and lists of one *)
(* reload.                                                                 *)
TakeState ==
  /\ updater = "woken"
  /\ state' = source
  /\ waiting' = Enabled[source]
  /\ fetched' = {}
  /\ updater' = "loading"
  /\ UNCHANGED <<file, hangup, reloading, source, wake, effect, attempted>>

(* Lists::load: the lists are fetched concurrently, each well or not. *)
Fetched(l) ==
  /\ updater = "loading"
  /\ l \in waiting
  /\ waiting' = waiting \ {l}
  /\ fetched' = fetched \cup {l}
  /\ UNCHANGED <<file, hangup, reloading, source, wake, updater, state, effect,
                 attempted>>

NotFetched(l) ==
  /\ updater = "loading"
  /\ l \in waiting
  /\ waiting' = waiting \ {l}
  /\ UNCHANGED <<file, hangup, reloading, source, wake, updater, state,
                 fetched, effect, attempted>>

(* Mutation: the error ends the task. *)
BuildFailsForGood ==
  /\ updater = "loading"
  /\ waiting = {}
  /\ ~(Used[state] \subseteq fetched)
  /\ attempted' = state
  /\ updater' = "ended"
  /\ state' = None
  /\ fetched' = {}
  /\ UNCHANGED <<file, hangup, reloading, source, wake, waiting, effect>>

(* Blueprint::build: a list that is missing is an error, and the old rules *)
(* stay in effect.                                                         *)
BuildFails ==
  /\ updater = "loading"
  /\ waiting = {}
  /\ ~(Used[state] \subseteq fetched)
  /\ attempted' = state
  /\ updater' = "waiting"
  /\ state' = None
  /\ fetched' = {}
  /\ UNCHANGED <<file, hangup, reloading, source, wake, waiting, effect>>

(* Mutation: a policy whose list is missing does without it. *)
BuildLeniently ==
  /\ updater = "loading"
  /\ waiting = {}
  /\ attempted' = state
  /\ updater' = "replacing"
  /\ UNCHANGED <<file, hangup, reloading, source, wake, state, waiting,
                 fetched, effect>>

(* Mutation: the blueprint comes from the source as it is now. *)
BuildFromSource ==
  /\ updater = "loading"
  /\ waiting = {}
  /\ Used[state] \subseteq fetched
  /\ attempted' = source
  /\ state' = source
  /\ updater' = "replacing"
  /\ UNCHANGED <<file, hangup, reloading, source, wake, waiting, fetched, effect>>

(* Mutation: the display is told before the rules are replaced. *)
BuildShown ==
  /\ updater = "loading"
  /\ waiting = {}
  /\ shown' = [config |-> state, lists |-> fetched]
  /\ Used[state] \subseteq fetched
  /\ attempted' = state
  /\ updater' = "replacing"
  /\ UNCHANGED <<file, hangup, reloading, source, wake, state, waiting,
                 fetched, engine, entries>>

Build ==
  /\ updater = "loading"
  /\ waiting = {}
  /\ Used[state] \subseteq fetched
  /\ attempted' = state
  /\ updater' = "replacing"
  /\ UNCHANGED <<file, hangup, reloading, source, wake, state, waiting,
                 fetched, effect>>

(* Engine::replace: the rules, then their number; ... *)
Replace ==
  /\ updater = "replacing"
  /\ engine' = [config |-> state, lists |-> fetched]
  /\ updater' = "counting"
  /\ UNCHANGED <<file, hangup, reloading, source, wake, state, waiting,
                 fetched, entries, shown, attempted>>

Count ==
  /\ updater = "counting"
  /\ entries' = [config |-> state, lists |-> fetched]
  /\ updater' = "recording"
  /\ UNCHANGED <<file, hangup, reloading, source, wake, state, waiting,
                 fetched, engine, shown, attempted>>

(* ... only then is it shown. *)
RecordLoaded ==
  /\ updater = "recording"
  /\ shown' = [config |-> state, lists |-> fetched]
  /\ updater' = "waiting"
  /\ state' = None
  /\ fetched' = {}
  /\ UNCHANGED <<file, hangup, reloading, source, wake, waiting, engine,
                 entries, attempted>>

-----------------------------------------------------------------------------
Reload == Receive \/ Reject \/ Parse \/ Store \/ Notify

Cycle ==
  \/ TakeState \/ BuildFails \/ Build \/ Replace \/ Count \/ RecordLoaded
  \/ \E l \in Lists : Fetched(l) \/ NotFetched(l)

Next == EditFile \/ Hangup \/ Reload \/ Tick \/ Woken \/ Cycle

(***************************************************************************)
(* Both tasks run when they can, and a download ends within its timeout.   *)
(* The interval (a day, by default) is not counted on.                     *)
(***************************************************************************)
Fairness == WF_vars(Reload) /\ WF_vars(Woken) /\ WF_vars(Cycle)

Spec == Init /\ [][Next]_vars
FairSpec == Spec /\ Fairness

-----------------------------------------------------------------------------
(* The type invariant; a cycle works on the lists of its own state. *)
TypeOK ==
  /\ file \in Configs
  /\ hangup \in BOOLEAN
  /\ reloader \in {"waiting", "loading", "storing", "notifying"}
  /\ IF reloader = "storing" THEN parsed \in Accepted ELSE parsed = None
  /\ source \in Accepted
  /\ wake \in BOOLEAN
  /\ attempted \in Accepted
  /\ {engine, entries, shown} \subseteq RuleSet
  /\ \/ /\ updater \in {"waiting", "woken"}
        /\ state = None
        /\ waiting = {} /\ fetched = {}
     \/ /\ updater \in {"loading", "replacing", "counting", "recording"}
        /\ state \in Accepted
        /\ waiting \cup fetched \subseteq Enabled[state]
        /\ waiting \cap fetched = {}
        /\ updater # "loading" => waiting = {}

(***************************************************************************)
(* B.1 rule 6, and reload.rs:19: whatever is reloaded and whatever cannot  *)
(* be downloaded while a cycle is under way, the rules in effect are those *)
(* of one configuration, with every list its policies refer to, loaded for *)
(* that configuration.                                                     *)
(***************************************************************************)
RulesAreWhole ==
  /\ Used[engine.config] \subseteq engine.lists
  /\ engine.lists \subseteq Enabled[engine.config]

(* Lists::ages, Lists::format_of: only what the published configuration    *)
(* still has can be asked for its age and its format.                      *)
Known(l) == l \in Enabled[source]

(* current_lists, list_ages, with_age: the lists of the display come from  *)
(* the set that was loaded, what is said of each from the configuration.   *)
Displayed == {[name |-> l, format |-> Known(l), age |-> Known(l)] : l \in shown.lists}

(***************************************************************************)
(* policy/mod.rs:744, main.rs:669: the display shows what is in effect.    *)
(* It may lag while a rule set is being replaced, but is never ahead, and  *)
(* a cycle that fails does not move it.  No list that a policy in effect   *)
(* refers to is missing from it, and one without a format or an age comes  *)
(* from a configuration that has been replaced since.                      *)
(***************************************************************************)
ShownIsInEffect ==
  /\ updater \notin {"counting", "recording"} => shown = engine
  /\ updater # "counting" => entries = engine
  /\ Used[shown.config] \subseteq {d.name : d \in Displayed}
  /\ \A d \in Displayed : (d.format /\ d.age) \/ source # shown.config

(***************************************************************************)
(* reload.rs, run_updater: a reload does not wait for the next tick.  Once *)
(* a configuration is published the updater comes to build it (or a later  *)
(* one), even if it was in the middle of a cycle when it was woken.        *)
(***************************************************************************)
ReloadIsAttempted ==
  \A c \in Accepted : source = c ~> attempted = c \/ source # c

(***************************************************************************)
(* When downloads succeed again and the interval goes on, the rules come   *)
(* to be those of the configuration that was published last, if they can   *)
(* be built from its enabled lists at all.                                 *)
(***************************************************************************)
RulesFollow ==
  WF_vars(Tick) /\ <>[][\A l \in Lists : ~NotFetched(l)]_vars =>
    \A c \in Accepted :
      Used[c] \subseteq Enabled[c] =>
        (source = c ~> engine.config = c \/ source # c)
=============================================================================
