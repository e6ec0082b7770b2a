------------------------------ MODULE QueryLog ------------------------------
(***************************************************************************)
(* What a query leaves behind (logging/mod.rs, counts.rs, ring.rs): the    *)
(* counters, the message on the live stream, the count of its name, the    *)
(* report of the names that are common enough to be shown, and the ring    *)
(* and the file of the modes that keep names.                              *)
(*                                                                         *)
(* QueryLog::record is called by many threads at once.  Each atomic and    *)
(* each mutex is a step of its own.  Left out: latencies, the counters by  *)
(* reason and response code (Policy has them), whether a name is shown as  *)
(* blocked, what a message says, the order of the file's lines, and two    *)
(* names with the same hash in Counts.                                     *)
(***************************************************************************)
EXTENDS Integers, FiniteSets, Sequences, FiniteSetsExt

CONSTANTS
  Threads,     \* tasks that have answered a query
  Names,       \* names that are asked for
  K,           \* privacy.logging.aggregate_k
  MaxTracked,  \* MAX_TRACKED
  StreamMax,   \* STREAM_MAX_PER_SECOND
  RingSeconds, \* privacy.logging.ring_seconds
  MaxEntries,  \* MAX_ENTRIES
  MaxTime,     \* bound on the clock, in seconds
  MaxQueries,  \* bound on the queries
  None

Modes == {"none", "aggregate", "ring", "full"}

VARIABLES
  mode,       \* privacy.logging.mode
  now,        \* the clock
  pc,         \* where a thread is in record
  event,      \* a thread's query, with what the steps before have found out
  stream,     \* window, sent, skipped: the budget of the live stream
  counts,     \* how often each name was asked for, under its hash
  total,      \* Counts::total
  reportable, \* the names that may be shown, with count and flag
  ring,       \* the last queries
  file,       \* lines: in the buffer, and written
  page,       \* what the last reader of `top` has read
  queries,    \* history: queries recorded so far, by name
  offered,    \* history: queries that came to ask the stream's budget
  told        \* history: queries the messages sent have told of

budget == <<stream, offered, told>>
tables == <<counts, total, reportable>>
kept == <<ring, file>>
vars == <<mode, now, pc, event, stream, counts, total, reportable,
          ring, file, page, queries, offered, told>>

KeepsNames == mode \in {"ring", "full"}
Sum(f) == FoldSet(LAMBDA x, acc : f[x] + acc, 0, DOMAIN f)
Nothing == [name |-> None, second |-> 0, count |-> 0]
NoPage == [named |-> {}, below |-> 0, total |-> 0, belowNames |-> 0]

Init ==
  /\ mode \in Modes
  /\ now = 0
  /\ pc = [t \in Threads |-> "idle"]
  /\ event = [t \in Threads |-> Nothing]
  /\ stream = [window |-> 0, sent |-> 0, skipped |-> 0]
  /\ counts = <<>> /\ total = 0 /\ reportable = <<>>
  /\ ring = <<>>
  /\ file = [buffered |-> {}, written |-> {}]
  /\ page = NoPage
  /\ queries = [n \in Names |-> 0]
  /\ offered = 0 /\ told = 0

-----------------------------------------------------------------------------
Tick ==
  /\ now < MaxTime
  /\ now' = now + 1
  /\ UNCHANGED <<mode, pc, event, budget, tables, kept, page, queries>>

(* A thread goes on with what it has found out, and forgets it at the end. *)
Goes(t, from, to, found) ==
  /\ pc[t] = from
  /\ pc' = [pc EXCEPT ![t] = to]
  /\ event' = [event EXCEPT ![t] = IF to = "idle" THEN Nothing ELSE found]

(* record: the counters first.  When nobody listens there is no message. *)
Record(t, name, listened) ==
  /\ Sum(queries) < MaxQueries
  /\ Goes(t, "idle", IF listened THEN "second" ELSE "counting",
          [Nothing EXCEPT !.name = name])
  /\ queries' = [queries EXCEPT ![name] = @ + 1]
  /\ UNCHANGED <<mode, now, budget, tables, kept, page>>

(* stream_budget: the second, ... *)
ReadSecond(t) ==
  /\ Goes(t, "second", "window", [event[t] EXCEPT !.second = now])
  /\ offered' = offered + 1
  /\ UNCHANGED <<mode, now, stream, told, tables, kept, page, queries>>

(* ... whether it is another than that of the query before, ... *)
SwapWindow(t) ==
  /\ Goes(t, "window", IF stream.window # event[t].second THEN "resetting" ELSE "taking",
          event[t])
  /\ stream' = [stream EXCEPT !.window = event[t].second]
  /\ UNCHANGED <<mode, now, offered, told, tables, kept, page, queries>>

ResetSent(t) ==
  /\ Goes(t, "resetting", "taking", event[t])
  /\ stream' = [stream EXCEPT !.sent = 0]
  /\ UNCHANGED <<mode, now, offered, told, tables, kept, page, queries>>

(* ... whether there is room in it, and if there is none, one more that    *)
(* was left out, ...                                                       *)
TakeBudget(t) ==
  /\ Goes(t, "taking", IF stream.sent >= StreamMax THEN "skipping" ELSE "sending",
          event[t])
  /\ stream' = [stream EXCEPT !.sent = @ + 1]
  /\ UNCHANGED <<mode, now, offered, told, tables, kept, page, queries>>

Skip(t) ==
  /\ Goes(t, "skipping", "counting", event[t])
  /\ stream' = [stream EXCEPT !.skipped = @ + 1]
  /\ UNCHANGED <<mode, now, offered, told, tables, kept, page, queries>>

(* Mutation: the number is sent and stays as it is. *)
SendKeepingSkipped(t) ==
  /\ Goes(t, "sending", "counting", event[t])
  /\ told' = told + 1 + stream.skipped
  /\ UNCHANGED <<mode, now, stream, offered, tables, kept, page, queries>>

(* ... or else a message, with the number of those left out before it. *)
Send(t) ==
  /\ Goes(t, "sending", "counting", event[t])
  /\ told' = told + 1 + stream.skipped
  /\ stream' = [stream EXCEPT !.skipped = 0]
  /\ UNCHANGED <<mode, now, offered, tables, kept, page, queries>>

(* Mutation: a name that no longer fits counts as one that does. *)
AddToFull(name) == IF name \in DOMAIN counts THEN counts[name] + 1 ELSE K

(* Counts::add: the name's new count, or 0 if the table is full. *)
Added(name) ==
  IF name \in DOMAIN counts THEN counts[name] + 1
  ELSE IF Cardinality(DOMAIN counts) >= MaxTracked THEN 0
  ELSE 1

(* An entry of a table: replaced, or one more. *)
Put(table, name, count) ==
  [n \in DOMAIN table \cup {name} |-> IF n = name THEN count ELSE table[n]]

CountName(t) ==
  LET name == event[t].name
  IN  /\ mode # "none"
      /\ Goes(t, "counting",
              IF K > 0 /\ Added(name) >= K THEN "reporting"
              ELSE IF KeepsNames THEN "keeping" ELSE "idle",
              [event[t] EXCEPT !.count = Added(name)])
      /\ total' = total + 1
      /\ counts' = IF Added(name) = 0 THEN counts ELSE Put(counts, name, Added(name))
      /\ UNCHANGED <<mode, now, budget, reportable, kept, page, queries>>

(* In the mode `none` nothing else is done. *)
KeepNothing(t) ==
  /\ mode = "none"
  /\ Goes(t, "counting", "idle", Nothing)
  /\ UNCHANGED <<mode, now, budget, tables, kept, page, queries>>

(* The report, under another mutex than the count. *)
Report(t) ==
  LET name == event[t].name
  IN  /\ Goes(t, "reporting", IF KeepsNames THEN "keeping" ELSE "idle", event[t])
      /\ reportable' = Put(reportable, name, event[t].count)
      /\ UNCHANGED <<mode, now, budget, counts, total, kept, page, queries>>

-----------------------------------------------------------------------------
(* Ring: what is older than the window is dropped from the front. *)
Expired(entries) ==
  LET live == {i \in 1 .. Len(entries) : now - entries[i].at <= RingSeconds}
  IN  IF live = {} THEN <<>> ELSE SubSeq(entries, Min(live), Len(entries))

Pushed(entries, e) ==
  LET rest == Expired(entries)
  IN  Append(IF Len(rest) >= MaxEntries THEN Tail(rest) ELSE rest, e)

(* The ring, and in the mode `full` a line in the file's buffer. *)
Keep(t) ==
  /\ Goes(t, "keeping", IF mode = "full" THEN "writing" ELSE "idle", event[t])
  /\ ring' = Pushed(ring, [at |-> now, name |-> event[t].name])
  /\ UNCHANGED <<mode, now, budget, tables, file, page, queries>>

WriteLine(t) ==
  /\ Goes(t, "writing", "idle", Nothing)
  /\ file' = [file EXCEPT !.buffered = @ \cup {event[t].name}]
  /\ UNCHANGED <<mode, now, budget, tables, ring, page, queries>>

(* run_flusher, once a second, and main at the end. *)
Flush ==
  /\ mode = "full" /\ file.buffered # {}
  /\ file' = [buffered |-> {}, written |-> file.written \cup file.buffered]
  /\ UNCHANGED <<mode, now, pc, event, budget, tables, ring, page, queries>>

(* recent and flagged: reading the ring drops what is too old. *)
Recent ==
  /\ KeepsNames /\ ring # Expired(ring)
  /\ ring' = Expired(ring)
  /\ UNCHANGED <<mode, now, pc, event, budget, tables, file, page, queries>>

-----------------------------------------------------------------------------
Difference(a, b) == IF a > b THEN a - b ELSE 0

Named(p) == FoldSet(LAMBDA e, acc : e.count + acc, 0, p.named)

(* top: the report is read first, ... *)
TopReport ==
  /\ mode # "none" /\ page = NoPage
  /\ page' = [NoPage EXCEPT
                !.named = {[name |-> n, count |-> reportable[n]] : n \in DOMAIN reportable},
                !.total = -1]
  /\ UNCHANGED <<mode, now, pc, event, budget, tables, kept, queries>>

(* ... then the counts, for what stays below the threshold. *)
TopRest ==
  /\ page.total = -1
  /\ page' = [page EXCEPT
                !.total = total,
                !.below = Difference(total, Named(page)),
                !.belowNames = Difference(Cardinality(DOMAIN counts), Cardinality(page.named))]
  /\ UNCHANGED <<mode, now, pc, event, budget, tables, kept, queries>>

TopDone ==
  /\ page.total > 0
  /\ page' = NoPage
  /\ UNCHANGED <<mode, now, pc, event, budget, tables, kept, queries>>

Publish(t) ==
  ReadSecond(t) \/ SwapWindow(t) \/ ResetSent(t) \/ TakeBudget(t) \/ Skip(t) \/ Send(t)

Next ==
  \/ Tick \/ Flush \/ Recent \/ TopReport \/ TopRest \/ TopDone
  \/ \E t \in Threads :
       \/ \E n \in Names, listened \in BOOLEAN : Record(t, n, listened)
       \/ Publish(t)
       \/ CountName(t) \/ KeepNothing(t) \/ Report(t) \/ Keep(t) \/ WriteLine(t)

Spec == Init /\ [][Next]_vars

-----------------------------------------------------------------------------
(* The type invariant. *)
TypeOK ==
  /\ mode \in Modes
  /\ DOMAIN counts \subseteq Names /\ Cardinality(DOMAIN counts) <= MaxTracked
  /\ DOMAIN reportable \subseteq Names
  /\ Len(ring) <= MaxEntries
  /\ \A t \in Threads : event[t].name \in Names \cup {None}

NamesIn(entries) == {entries[i].name : i \in 1 .. Len(entries)}

(***************************************************************************)
(* logging/mod.rs:539, ADR-0004: before a name has been asked for K times  *)
(* it is nowhere to be read in a mode that keeps no names, whichever       *)
(* thread's count comes to the report last and even when the table of      *)
(* counts is full; a name's count is never shown higher than it is.        *)
(***************************************************************************)
NamesStayHidden ==
  /\ \A n \in DOMAIN reportable :
       /\ K > 0 /\ queries[n] >= K
       /\ reportable[n] \in K .. queries[n]
  /\ ~KeepsNames => ring = <<>> /\ file.buffered = {} /\ file.written = {}
  /\ mode = "ring" => file.buffered = {} /\ file.written = {}
  /\ mode = "none" => reportable = <<>> /\ counts = <<>>

(***************************************************************************)
(* logging/mod.rs:391-396: what the report does not name is there as a     *)
(* sum.  The two tables are read one after the other while queries go on,  *)
(* and a name's count in the report may be behind; still the shares of a   *)
(* page add up to all the queries counted, and none of them is cut off at  *)
(* nought.                                                                 *)
(***************************************************************************)
SharesAddUp ==
  page.total > 0 =>
    /\ Named(page) + page.below = page.total
    /\ Cardinality(page.named) + page.belowNames <= Cardinality(DOMAIN counts)

(***************************************************************************)
(* logging/mod.rs:308-312: a query that does not get through to the live   *)
(* stream does not vanish: it has been told of, is in the number the next  *)
(* message will bring, or its thread is about to see to it.  No lock holds *)
(* the window, the budget and that number together.                        *)
(***************************************************************************)
UnderWay == {t \in Threads : pc[t] \in {"window", "resetting", "taking", "skipping", "sending"}}

SkippedAreTold == offered = told + stream.skipped + Cardinality(UnderWay)
=============================================================================
