------------------------------- MODULE Upstreams -------------------------------
(***************************************************************************)
(* The two upstreams that are no shared connection: the server of a        *)
(* forwarded zone, asked in the clear over UDP (upstream/mod.rs), and the  *)
(* oblivious target behind its proxy (upstream/odoh.rs).                   *)
(*                                                                         *)
(* The first remembers a cookie and whether the server mirrors the case of *)
(* a name; the second fetches the target's key when it is first needed,    *)
(* under an asynchronous mutex, and keeps it.  Queries run at the same     *)
(* time and share these.  What an answer says is left out.                 *)
(***************************************************************************)
EXTENDS Integers, FiniteSets, FiniteSetsExt

CONSTANTS
  Queries,   \* queries that may be under way at a time
  Requests,  \* messages as clients send them
  Settings,  \* [strip_ecs, padding, cookies, dns0x20]
  Block,     \* PADDING_BLOCK
  MaxKeys,   \* bound on the target's keys
  MaxAsked,  \* bound on the queries
  None

VARIABLES
  privacy,  \* the settings
  dns0x20,  \* ForwardBackend: whether names are sent in mixed case
  cookie,   \* ForwardBackend::server_cookie
  key,      \* OdohTransport::config
  lock,     \* who holds its mutex
  offered,  \* the key the target uses now
  pc,       \* where a query is
  client,   \* the client's message
  wire,     \* what has been sent for it last
  fetched,  \* history: keys that were fetched
  unmirrored, \* history: the server has sent a name back in another case
  late,     \* history: queries that were made ready for it since
  asked     \* queries so far

forward == <<dns0x20, cookie, unmirrored, late>>
oblivious == <<key, lock, fetched>>
vars == <<privacy, forward, oblivious, offered, pc, client, wire, asked>>

Init ==
  /\ privacy \in Settings
  /\ dns0x20 = privacy.dns0x20 /\ cookie = {} /\ unmirrored = FALSE /\ late = {}
  /\ key = {} /\ lock = None /\ offered = 1 /\ fetched = 0
  /\ pc = [q \in Queries |-> "idle"]
  /\ client = [q \in Queries |-> None]
  /\ wire = [q \in Queries |-> None]
  /\ asked = 0

-----------------------------------------------------------------------------
(***************************************************************************)
(* What is done to a message before it leaves, and how its answer is       *)
(* compared with it (privacy.rs, dns.rs).                                  *)
(*                                                                         *)
(* A message is its id, question, whether it has an EDNS record, the size  *)
(* of what else it holds, and those of its EDNS options that are changed   *)
(* here.  The library keeps options in a list: `insert' appends, `remove'  *)
(* takes all of a code away.  `options' gives for every code that occurs   *)
(* what its options measure together; `ours' counts the cookies that are   *)
(* our own.  A name is written as it was asked, or in a mixed case.        *)
(***************************************************************************)
EdnsHead == 11
OptionHead == 4

(* What the options of a code add to the message. *)
Cost(m, option) ==
  IF option \in DOMAIN m.options THEN m.options[option] ELSE 0

Size(m) ==
  m.base + (IF m.edns THEN EdnsHead ELSE 0)
    + Cost(m, "ecs") + Cost(m, "cookie") + Cost(m, "padding")

Without(m, option) ==
  [m EXCEPT !.options = [o \in DOMAIN @ \ {option} |-> @[o]]]

WithOption(m, option, size) ==
  [m EXCEPT !.edns = TRUE,
            !.options = [o \in DOMAIN @ \cup {option} |->
                           Cost(m, o) + (IF o = option THEN size + OptionHead ELSE 0)]]

(* strip_ecs *)
StripEcs(m) == Without(m, "ecs")

(* pad_to_block: what padding there is goes first; the head counts, too. *)
PadToBlock(m, block) ==
  LET bare == [Without(m, "padding") EXCEPT !.edns = TRUE]
      size == Size(bare) + OptionHead
  IN  IF block = 0 THEN m
      ELSE WithOption(bare, "padding", ((size + block - 1) \div block) * block - size)

(***************************************************************************)
(* set_cookie: the server's part only if it has given us one.  A cookie of *)
(* the client's own stays, and stands before ours.                         *)
(***************************************************************************)
ClientCookieLen == 8
SetCookie(m, server) ==
  LET length == ClientCookieLen + (IF server = {} THEN 0 ELSE Max(server))
  IN  [WithOption(m, "cookie", length) EXCEPT !.ours = @ + 1]

(***************************************************************************)
(* server_cookie: what comes after the first eight bytes of the answer's   *)
(* first cookie, if anything does, whoever's cookie it answers.            *)
(***************************************************************************)
ServerCookie(response) ==
  IF response.cookie > ClientCookieLen THEN {response.cookie - ClientCookieLen} ELSE {}

(* check_question: names are compared without regard to case. *)
CheckQuestion(request, response) ==
  /\ response.is_response /\ response.questions = 1
  /\ response.question = request.question

(* check_response: the id, too. *)
CheckResponse(request, response) ==
  response.id = request.id /\ CheckQuestion(request, response)

-----------------------------------------------------------------------------
Goes(q, from, to) == pc[q] = from /\ pc' = [pc EXCEPT ![q] = to]

(* A query ends, with an answer under the client's id and name, or not. *)
Ends(q, from) ==
  /\ Goes(q, from, "idle")
  /\ wire' = [wire EXCEPT ![q] = None]
  /\ client' = [client EXCEPT ![q] = None]

Ask(q, request, path) ==
  /\ Goes(q, "idle", path) /\ asked < MaxAsked
  /\ asked' = asked + 1
  /\ client' = [client EXCEPT ![q] = request]
  /\ UNCHANGED <<privacy, forward, oblivious, offered, wire>>

Stripped(m) == IF privacy.strip_ecs THEN StripEcs(m) ELSE m
Own(m) == [m EXCEPT !.id = "own"]

(* Mutation: the settings are looked at, not what has been found out. *)
PreparedAsSet(m) ==
  LET clean == Stripped(Own(m))
      known == IF privacy.cookies THEN SetCookie(clean, cookie) ELSE clean
  IN  [known EXCEPT !.mixed = privacy.dns0x20]

(* ForwardBackend::prepare *)
Prepared(m) ==
  LET clean == Stripped(Own(m))
      known == IF privacy.cookies THEN SetCookie(clean, cookie) ELSE clean
  IN  [known EXCEPT !.mixed = dns0x20]

Sends(q, m) == wire' = [wire EXCEPT ![q] = m]

SendPlain(q) ==
  /\ Goes(q, "forward", "plain") /\ Sends(q, Prepared(client[q]))
  /\ late' = IF unmirrored THEN late \cup {q} ELSE late
  /\ UNCHANGED <<privacy, dns0x20, cookie, unmirrored, oblivious, offered, client, asked>>

(* exchange: no answer in time, or none that fits. *)
PlainFails(q) ==
  /\ \E from \in {"plain", "again"} : Ends(q, from)
  /\ UNCHANGED <<privacy, forward, oblivious, offered, asked>>

(* resolve: the case has not come back; once more without, and for good.   *)
NotMirrored(q) ==
  /\ Goes(q, "plain", "again") /\ wire[q].mixed
  /\ dns0x20' = FALSE /\ unmirrored' = TRUE
  /\ Sends(q, [Prepared(client[q]) EXCEPT !.mixed = FALSE])
  /\ UNCHANGED <<privacy, cookie, late, oblivious, offered, client, asked>>

(* remember_server_cookie *)
PlainAnswer(q, response) ==
  /\ CheckResponse(wire[q], response)
  /\ \E from \in {"plain", "again"} : Ends(q, from)
  /\ cookie' = IF ServerCookie(response) = {} THEN cookie ELSE ServerCookie(response)
  /\ UNCHANGED <<privacy, dns0x20, unmirrored, late, oblivious, offered, asked>>

-----------------------------------------------------------------------------
(* target_config: the key that is there, ... *)
TargetConfig(q) ==
  /\ lock = None
  /\ Goes(q, "odoh", IF key = {} THEN "fetching" ELSE "sealing")
  /\ lock' = IF key = {} THEN q ELSE None
  /\ UNCHANGED <<privacy, forward, key, fetched, offered, client, wire, asked>>

(* ... or one that is fetched from the target itself, not by the proxy. *)
Fetched(q) ==
  /\ Goes(q, "fetching", "sealing")
  /\ key' = {offered} /\ lock' = None /\ fetched' = fetched + 1
  /\ UNCHANGED <<privacy, forward, offered, client, wire, asked>>

(* No answer, an error's status, or no key we support. *)
NotFetched(q) ==
  /\ Ends(q, "fetching")
  /\ lock' = None
  /\ UNCHANGED <<privacy, forward, key, fetched, offered, asked>>

(* OdohTransport::send and post: padded, then sealed for the target. *)
Sealed(m) ==
  LET clean == Stripped(Own(m))
  IN  [(IF privacy.padding THEN PadToBlock(clean, Block) ELSE clean)
         EXCEPT !.key = key]

Post(q) ==
  /\ Goes(q, "sealing", "posted") /\ Sends(q, Sealed(client[q]))
  /\ UNCHANGED <<privacy, forward, oblivious, offered, client, asked>>

(* The proxy or the target fails, or the answer cannot be read. *)
PostFails(q) ==
  /\ Ends(q, "posted")
  /\ UNCHANGED <<privacy, forward, oblivious, offered, asked>>

(* decrypt: only if the target still has the key. *)
PostAnswer(q, response) ==
  /\ Ends(q, "posted") /\ wire[q].key = {offered}
  /\ CheckResponse(wire[q], response)
  /\ UNCHANGED <<privacy, forward, oblivious, offered, asked>>

(* The target takes another key. *)
Rotate ==
  /\ offered < MaxKeys
  /\ offered' = offered + 1
  /\ UNCHANGED <<privacy, forward, oblivious, pc, client, wire, asked>>

(* What may come back: with our id or another, to the question or not. *)
Responses(q) ==
  [id : {"own", "client"}, question : {client[q].question, "other"}, is_response : BOOLEAN,
   questions : {1}, cookie : {0, ClientCookieLen, 2 * ClientCookieLen}]

Step(q) ==
  \/ \E m \in Requests, path \in {"forward", "odoh"} : Ask(q, m, path)
  \/ SendPlain(q) \/ PlainFails(q) \/ NotMirrored(q)
  \/ TargetConfig(q) \/ Fetched(q) \/ NotFetched(q) \/ Post(q) \/ PostFails(q)
  \/ /\ pc[q] \in {"plain", "again", "posted"}
     /\ \E response \in Responses(q) : PlainAnswer(q, response) \/ PostAnswer(q, response)

Next == Rotate \/ \E q \in Queries : Step(q)

Spec == Init /\ [][Next]_vars

-----------------------------------------------------------------------------
(* The type invariant: the mutex is held for as long as a fetch lasts. *)
TypeOK ==
  /\ lock \in Queries \cup {None}
  /\ key \subseteq 1 .. offered /\ offered \in 1 .. MaxKeys
  /\ \A q \in Queries :
       /\ (lock = q) <=> pc[q] = "fetching"
       /\ (wire[q] # None) <=> pc[q] \in {"plain", "again", "posted"}
       /\ (client[q] = None) <=> pc[q] = "idle"

(***************************************************************************)
(* odoh.rs:17, odoh.rs:116: the fetch of the key is the one connection     *)
(* that the target sees without the proxy.  However many queries come at   *)
(* once and however many fetches fail, one succeeds at most, and no two    *)
(* queries are sealed with different keys.                                 *)
(***************************************************************************)
KeyIsFetchedOnce ==
  /\ fetched <= 1
  /\ \A q, r \in Queries :
       (pc[q] = "posted" /\ pc[r] = "posted") => wire[q].key = wire[r].key

(***************************************************************************)
(* privacy.rs:1-14: what leaves is what the settings say, whatever the     *)
(* client has put into its message -- a subnet, a cookie or padding -- and *)
(* whatever other queries have found out meanwhile.  An id of our own, and *)
(* no client subnet.  What is sealed fills whole blocks and tells nothing  *)
(* by a cookie of ours or by a case.  What is in the clear has one cookie  *)
(* of ours, also when it is tried again, and none if cookies are off.  A   *)
(* name is mixed only if that is on, and no longer in what is made ready   *)
(* after the server has failed to mirror one, whoever asked that time.     *)
(***************************************************************************)
WhatLeavesIsClean ==
  \A q \in Queries :
    wire[q] # None =>
      /\ wire[q].id = "own"
      /\ privacy.strip_ecs => "ecs" \notin DOMAIN wire[q].options
      /\ pc[q] = "posted" => /\ privacy.padding => Size(wire[q]) % Block = 0
                             /\ wire[q].ours = 0 /\ ~wire[q].mixed
      /\ pc[q] # "posted" => wire[q].ours = (IF privacy.cookies THEN 1 ELSE 0)
      /\ wire[q].mixed => privacy.dns0x20 /\ pc[q] = "plain" /\ q \notin late
=============================================================================
