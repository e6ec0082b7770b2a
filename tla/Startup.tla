------------------------------- MODULE Startup -------------------------------
(***************************************************************************)
(* The life of the process (main.rs): from reading the configuration over  *)
(* the lists, the rules and the sockets to the tasks that run beside the   *)
(* server, the signals, and the end.                                       *)
(*                                                                         *)
(* Each stage of the start runs to its end or ends the process.  Lists are *)
(* fetched by the name of their host, and the host may resolve through     *)
(* this server itself: the updater's fetch is a packet like the others.    *)
(***************************************************************************)
EXTENDS Config

CONSTANTS
  Configs,    \* what the file may hold at the start
  NewConfigs, \* what it may hold at a reload
  Packets,    \* queries of clients
  Own,        \* the query for the host of a list, from this machine
  MaxRounds,  \* bound on the updater's rounds
  MaxReloads \* bound on SIGHUP

VARIABLES
  stage,    \* what the start is about, "serve", or how the process ended
  cause,    \* why the start failed
  file,     \* the file at the start
  config,   \* what it comes to; after the first stage one that is right
  writable, \* directories that can be written to
  fetched,  \* lists that can be fetched or lie on the disk
  sockets,  \* what is bound: [proto, addr]
  queue,    \* packets in the sockets' buffers
  inflight, \* packets being answered
  answered, \* packets answered
  buffered, \* lines of the query log in memory
  written,  \* lines on the disk
  lost,     \* lines the disk has not taken
  tasks,    \* tasks that have been spawned
  signals,  \* signals somebody waits for; the others end the process
  cancelled, \* the shutdown token
  ended,    \* loops that have seen it
  hangups,  \* SIGHUP that was delivered and not handled yet
  reloads,  \* reloads so far
  active,   \* the configuration the rules come from
  round,    \* the updater: "waiting", "asking" or "refused"
  rounds    \* its rounds so far

vars == <<stage, cause, file, config, writable, fetched, sockets, queue, inflight, answered,
          buffered, written, lost, tasks, signals, cancelled, ended, hangups, reloads, active,
          round, rounds>>

starting == <<stage, cause, sockets, tasks>>
lines == <<buffered, written, lost>>
serving == <<queue, inflight, answered, lines>>
running == <<signals, cancelled, ended, hangups, reloads, active, round, rounds>>
given == <<file, config, writable, fetched>>

Directories == {"lists", "token", "log"}

Init ==
  /\ file \in Configs /\ config = Complete(file)
  /\ writable \in {Directories} \cup {Directories \ {d} : d \in Directories}
  /\ fetched \in {ListNames(config), {}}
  /\ stage = "load" /\ cause = "" /\ sockets = {} /\ tasks = {}
  /\ queue = {} /\ inflight = {} /\ answered = {} /\ buffered = 0 /\ written = 0 /\ lost = 0
  /\ signals = {} /\ cancelled = FALSE /\ ended = {} /\ hangups = 0 /\ reloads = 0
  /\ active = config /\ round = "waiting" /\ rounds = 0

-----------------------------------------------------------------------------
(* Mutation: the updater is started before the sockets are bound. *)
StagesUpdaterFirst ==
  <<"load", "assemble", "log", "lists", "rules", "updater", "dns", "tasks", "api",
    "metrics", "page", "hangup", "signals", "serve">>

(* The order of the start. *)
Stages ==
  <<"load", "assemble", "log", "lists", "rules", "dns", "tasks", "api", "metrics", "page",
    "updater", "hangup", "signals", "serve">>

After(s) == Stages[1 + CHOOSE i \in DOMAIN Stages : Stages[i] = s]

Fail(why) == /\ stage' = "failed" /\ cause' = why
             /\ UNCHANGED <<sockets, tasks>>

Go(s, bound, spawned) ==
  /\ stage' = After(s)
  /\ sockets' = sockets \cup bound
  /\ tasks' = tasks \cup spawned
  /\ UNCHANGED cause

Stage(s, ok, why, bound, spawned) ==
  /\ stage = s
  /\ IF ok THEN Go(s, bound, spawned) ELSE Fail(why)
  /\ UNCHANGED <<given, serving, running>>

(* Config::load, and the rules that can be compiled. *)
Accepted(f) == Load(f) /\ FromConfig(Complete(f)).compiles

LoadConfig == Stage("load", Accepted(file), "config", {}, {})

(* Detectors, transports, zones, and the loader with its directory. *)
Assemble ==
  Stage("assemble", "lists" \in writable /\ ~ZonesAreWrong(LocalZones(config)), "disk", {}, {})

KeepsLog(c) == c["privacy.logging"].mode = "full"

(* QueryLog::new: only the mode full opens a file. *)
OpenQueryLog ==
  Stage("log", KeepsLog(config) => "log" \in writable, "disk", {}, {})

(* The first load is strict: rather no DNS than one that does not filter.  *)
LoadLists == Stage("lists", Specs(config) \subseteq fetched, "lists", {}, {})

BuildRules == Stage("rules", Builds(config, Specs(config)), "rules", {}, {})

(* What the kernel refuses: an address that is taken, alone or by a wildcard *)
(* of the same family or of IPv6; port 0 is any that is free.              *)
Covers(a, b) == IsUnspecified(a) /\ (a.family = b.family \/ a.family = "v6")

Taken(a, b) ==
  /\ a.proto = b.proto /\ a.addr.port = b.addr.port /\ a.addr.port # 0
  /\ a.addr.ip = b.addr.ip \/ Covers(a.addr.ip, b.addr.ip) \/ Covers(b.addr.ip, a.addr.ip)

Sockets(proto, addrs) == [i \in DOMAIN addrs |-> [proto |-> proto, addr |-> addrs[i]]]

Binds(new) ==
  /\ \A i, j \in DOMAIN new : i < j => ~Taken(new[i], new[j])
  /\ \A i \in DOMAIN new, s \in sockets : ~Taken(new[i], s)

(* Server::bind: the sockets take packets from now on, nobody reads them.  *)
BindDns ==
  LET new == Sockets("udp", config.server.listen_udp)
               \o Sockets("tcp", config.server.listen_tcp)
  IN  Stage("dns", Binds(new), "bind", Range(new), {})

(* The flusher of the query log, the seeds, the report and the history.    *)
SpawnTasks == Stage("tasks", TRUE, "", {}, {"flusher", "seeds", "report", "history"})

(* An endpoint that is switched on, on a TCP socket of its own. *)
Endpoint(s, table, ready) ==
  LET new == Sockets("tcp", <<table.listen>>)
  IN  IF table.enabled
      THEN Stage(s, ready /\ Binds(new), IF ready THEN "bind" ELSE "disk", Range(new), {s})
      ELSE Stage(s, TRUE, "", {}, {})

(* read_or_create_token: the token may have to be written. *)
BindApi == Endpoint("api", config.api, "token" \in writable)
BindMetrics == Endpoint("metrics", config.metrics, TRUE)
BindPage == Endpoint("page", config.block_page, TRUE)

(* An interval of nought is a panic, which ends this task and nothing else. *)
SpawnUpdater == Stage("updater", TRUE, "", {}, {t \in {"updater"} : Refresh(config) > 0})

SpawnReload == Stage("hangup", TRUE, "", {}, {"hangup"})
SpawnSignals == Stage("signals", TRUE, "", {}, {"signals"})

-----------------------------------------------------------------------------
Alive == stage \in Range(Stages)
Listening == sockets # {}

(* A packet comes to a socket that is bound, read or not. *)
Arrive(p) ==
  /\ Alive /\ Listening /\ p \notin queue \cup inflight \cup answered
  /\ queue' = queue \cup {p}
  /\ UNCHANGED <<starting, given, running, inflight, answered, lines>>

(***************************************************************************)
(* The loops of the readers (Bound::run), the flusher, the updater and of  *)
(* the reload choose between the token and what else is ready in no fixed  *)
(* order: each may go on for a while after the token is cancelled, until   *)
(* it sees it.  The updater sees nothing while it fetches.                 *)
(***************************************************************************)
Loops == {"readers", "flusher", "updater", "hangup"}

EndsWithToken(loop) ==
  /\ Alive /\ cancelled /\ loop \notin ended
  /\ loop \in tasks \cup {"readers"}
  /\ loop = "updater" => round # "asking"
  /\ ended' = ended \cup {loop}
  /\ UNCHANGED <<starting, given, serving, signals, cancelled, hangups, reloads, active,
                 round, rounds>>

(* udp::serve *)
Take(p) ==
  /\ stage = "serve" /\ "readers" \notin ended /\ p \in queue
  /\ queue' = queue \ {p} /\ inflight' = inflight \cup {p}
  /\ UNCHANGED <<starting, given, running, answered, lines>>

(***************************************************************************)
(* QueryLog::record: a line goes to the buffer.  If that is full it is     *)
(* written out first, and if the disk does not take it the line is lost,   *)
(* what is in the buffer stays.                                            *)
(***************************************************************************)
Record ==
  \/ KeepsLog(config) /\ buffered' = buffered + 1 /\ UNCHANGED <<written, lost>>
  \/ /\ KeepsLog(config) /\ buffered > 0
     /\ written' = written + buffered /\ buffered' = 1 /\ UNCHANGED lost
  \/ /\ KeepsLog(config) /\ buffered > 0
     /\ lost' = lost + 1 /\ UNCHANGED <<buffered, written>>
  \/ ~KeepsLog(config) /\ UNCHANGED lines

(* What is answered is recorded; the updater goes on with the address. *)
Finish(p) ==
  /\ Alive /\ p \in inflight
  /\ inflight' = inflight \ {p} /\ answered' = answered \cup {p}
  /\ Record
  /\ round' = IF p = Own THEN "waiting" ELSE round
  /\ UNCHANGED <<starting, given, queue, signals, cancelled, ended, hangups, reloads,
                 active, rounds>>

(* run_flusher: the buffer goes to the disk from time to time; if the disk *)
(* does not take it, it stays where it is.                                 *)
Flush ==
  /\ Alive /\ "flusher" \in tasks \ ended /\ buffered > 0
  /\ written' = written + buffered /\ buffered' = 0
  /\ UNCHANGED <<starting, given, running, queue, inflight, answered, lost>>

(* run_updater: the first round comes at once, the others after Refresh.   *)
Fetch ==
  /\ Alive /\ "updater" \in tasks \ ended
  /\ round = "waiting" /\ rounds < MaxRounds /\ Specs(active) # {}
  /\ rounds' = rounds + 1
  /\ IF Listening
     THEN round' = "asking" /\ queue' = queue \cup {Own} /\ answered' = answered \ {Own}
     ELSE round' = "refused" /\ UNCHANGED <<queue, answered>>
  /\ UNCHANGED <<starting, given, inflight, lines, signals, cancelled, ended, hangups,
                 reloads, active>>

-----------------------------------------------------------------------------
(* The tasks subscribe to their signals when they first run. *)
Subscribe(task, signal) ==
  /\ Alive /\ task \in tasks /\ signal \notin signals
  /\ signals' = signals \cup {signal}
  /\ UNCHANGED <<starting, given, serving, cancelled, ended, hangups, reloads, active,
                 round, rounds>>

(* A signal nobody has subscribed to ends the process as it stands. *)
Kill(signal) ==
  /\ Alive /\ signal \notin signals
  /\ stage' = "killed"
  /\ UNCHANGED <<cause, sockets, tasks, given, serving, running>>

Hangup ==
  /\ Alive /\ "HUP" \in signals /\ hangups = 0 /\ reloads < MaxReloads
  /\ hangups' = 1
  /\ UNCHANGED <<starting, given, serving, signals, cancelled, ended, reloads, active,
                 round, rounds>>

(* reload_on_hangup: what cannot be read, or built from, changes nothing.  *)
Reload(new) ==
  /\ Alive /\ hangups = 1 /\ "hangup" \notin ended
  /\ hangups' = 0 /\ reloads' = reloads + 1
  /\ active' = IF Accepted(new) THEN Complete(new) ELSE active
  /\ UNCHANGED <<starting, given, serving, signals, cancelled, ended, round, rounds>>

(* wait_for_signal *)
Terminate ==
  /\ Alive /\ "TERM" \in signals /\ ~cancelled
  /\ cancelled' = TRUE
  /\ UNCHANGED <<starting, given, serving, signals, ended, hangups, reloads, active,
                 round, rounds>>

(* Bound::run returns when nobody reads and all answers are out; then the  *)
(* log is flushed, for the last time: what the disk does not take is gone. *)
Stop ==
  /\ stage = "serve" /\ "readers" \in ended /\ inflight = {}
  /\ stage' = "stopped"
  /\ sockets' = {} /\ queue' = {}
  /\ \/ written' = written + buffered /\ UNCHANGED lost
     \/ lost' = lost + buffered /\ UNCHANGED written
  /\ buffered' = 0
  /\ UNCHANGED <<cause, tasks, given, running, inflight, answered>>

Next ==
  \/ LoadConfig \/ Assemble \/ OpenQueryLog \/ LoadLists \/ BuildRules
  \/ BindDns \/ SpawnTasks \/ BindApi \/ BindMetrics \/ BindPage
  \/ SpawnUpdater \/ SpawnReload \/ SpawnSignals
  \/ \E p \in Packets : Arrive(p)
  \/ \E p \in Packets \cup {Own} : Take(p) \/ Finish(p)
  \/ Flush \/ Fetch \/ \E loop \in Loops : EndsWithToken(loop)
  \/ Subscribe("hangup", "HUP") \/ Subscribe("signals", "TERM")
  \/ Kill("HUP") \/ Kill("TERM")
  \/ Hangup \/ (\E new \in NewConfigs : Reload(new)) \/ Terminate \/ Stop

Spec == Init /\ [][Next]_vars

-----------------------------------------------------------------------------
(* The type invariant. *)
TypeOK ==
  /\ stage \in Range(Stages) \cup {"failed", "killed", "stopped"}
  /\ (stage = "failed") = (cause # "")
  /\ file \in Configs /\ config = Complete(file)
  /\ \E f \in Configs \cup NewConfigs : active = Complete(f)
  /\ queue \cap inflight = {} /\ inflight \cap answered = {}
  /\ buffered \in Nat /\ written \in Nat /\ lost \in Nat
  /\ ended # {} => cancelled

(* rotation_hint: names are kept, and nothing says for how long. *)
RotationHint(c, rotated) == IF KeepsLog(c) /\ ~rotated THEN {"rotation"} ELSE {}

(* time_sync_hint: signatures are judged by a clock that nobody sets. *)
TimeSyncHint(c, synchronized) == IF c.privacy.dnssec /\ ~synchronized THEN {"clock"} ELSE {}

(* The notes of `check`, which do not keep it from passing. *)
Notes(c, rotated, synchronized) ==
  LET open == PublicListeners(c) # {}
  IN  RotationHint(c, rotated) \cup TimeSyncHint(c, synchronized)
      \cup (IF open THEN {"open resolver"} ELSE {})
      \cup (IF open /\ ~c["server.rate_limit"].enabled THEN {"reflector"} ELSE {})
      \cup (IF c.block_page.enabled THEN {"block page"} ELSE {})

(* What `check` says of the reach is true of the process that starts: it is *)
(* said from four lists, of which some are bound only if switched on.  And  *)
(* who can be reached without a limit, keeps names for good, judges by his  *)
(* own clock or shows a page without a token has been told.                 *)
ReachIsAsTold ==
  LET page == [proto |-> "tcp", addr |-> config.block_page.listen]
      strange == {s \in sockets : ~IsLocalAddress(s.addr.ip)}
      untold(note) == note \notin Notes(config, FALSE, FALSE)
  IN  /\ ReachabilityVerdict(config) = "own network" => strange = {}
      /\ ReachabilityVerdict(config) = "only the block page" => strange \subseteq {page}
      /\ untold("reflector") => config["server.rate_limit"].enabled \/ strange \subseteq {page}
      /\ untold("rotation") => written = 0
      /\ untold("block page") => "page" \notin tasks
      /\ untold("clock") => ~config.privacy.dnssec

(* config.rs:334-338: nothing listens that the file does not ask for, and   *)
(* what `check` says of detectors that find nothing is so (config.rs:183).  *)
Says(table, key, value) ==
  table \in DOMAIN file /\ key \in DOMAIN file[table] /\ file[table][key] = value

NothingUnasked ==
  /\ \A s \in sockets :
       \/ s.addr \in Range(config.server.listen_udp \o config.server.listen_tcp)
       \/ \E e \in {"api", "metrics", "block_page"} :
            s.addr = config[e].listen /\ Says(e, "enabled", TRUE)
  /\ written > 0 => Says("privacy.logging", "mode", "full")
  /\ stage = "serve" =>
       LET found == NameDetectors(Detection(config))
       IN  Noted(config) \cap {found[i].detector : i \in DOMAIN found} = {}

(***************************************************************************)
(* main.rs:625-633: when the process has stopped, whatever it has answered *)
(* is in the query log on the disk, also what was taken after the token    *)
(* was cancelled or answered after the task that writes the log had ended; *)
(* but for lines the disk refused when the buffer was full or at the last, *)
(* of which nobody hears (logging/mod.rs:583, 598) -- what it refuses in   *)
(* between is written later.  What has come to the sockets before they     *)
(* were read (main.rs:590) is answered under rules whose lists are loaded, *)
(* the updater's own queries among it -- which is never turned away since  *)
(* nobody listens yet.  And no socket is open that `check` has not told of *)
(* (main.rs:1056) or nobody has asked for, and no list is left without the *)
(* task that updates it (config.rs:1275).                                  *)
(***************************************************************************)
StartsAndStopsInOrder ==
  /\ round # "refused"
  /\ stage = "stopped" =>
       /\ buffered = 0
       /\ KeepsLog(config) => Cardinality(answered) <= written + lost
  /\ answered # {} => Builds(config, fetched) /\ Specs(config) \subseteq fetched
  /\ stage = "serve" => "updater" \in tasks
  /\ ReachIsAsTold /\ NothingUnasked

(* `check`: the configuration, and whether the directories can be written. *)
Check(dirs) ==
  /\ Accepted(file)
  /\ "lists" \in dirs
  /\ config.api.enabled => "token" \in dirs
  /\ KeepsLog(config) => "log" \in dirs

(***************************************************************************)
(* main.rs:59: "Exit 0 means: this start will not fail on the              *)
(* configuration."  A start that `check` has passed fails only on lists    *)
(* that cannot be fetched.                                                 *)
(***************************************************************************)
CheckedConfigStarts == stage = "failed" /\ Check(writable) => cause = "lists"
=============================================================================
