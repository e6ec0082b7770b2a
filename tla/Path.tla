--------------------------------- MODULE Path ---------------------------------
(***************************************************************************)
(* A question from the client's packet to the answer (server/mod.rs,       *)
(* handle_request): the cache that all clients share, the local zones, the *)
(* router, the servers of a forwarded zone in their order (resolve.rs,     *)
(* Failover) or the pool, the verdict, the guard against private addresses *)
(* under public names, and what the client is shown.                       *)
(*                                                                         *)
(* Caching, Pool, Policy and Ratelimit have the parts of this path in      *)
(* detail; here whether an answer is cached, how long, and which upstream  *)
(* is asked first is free.  One question is under way at a time: questions *)
(* meet in the cache only, and an answer enters it in one step.  The CD    *)
(* bit is no variable, because nothing in the code looks at it.            *)
(***************************************************************************)
EXTENDS Dnssec, Local, Detect

CONSTANTS
  Configs,    \* local zones as they are configured, forward zones with the
              \* number of their servers, whether answers are validated,
              \* and what is done about private addresses
  Ddr,        \* {resolver.arpa}
  Builtin,    \* RFC6303_ZONES
  Questions,  \* [name, type, class]
  Flags,      \* [do, ad] a client may set
  Outcomes,   \* what an upstream or its library may come up with
  Findable,   \* sets of addresses in the answer of a zone's server
  Direct,     \* the upstreams of the pool that are asked directly ...
  Oblivious,  \* ... and through a proxy
  MaxAsked    \* bound on the questions

VARIABLES
  zones,    \* the local zones, built
  config,   \* the rest of the configuration
  cache,    \* question -> message
  stage,    \* where the question is
  request,  \* what the client has asked
  left,     \* who is still to be asked
  reply,    \* the answer on its way back, and who is to blame
  asked,    \* questions so far
  sent      \* history: where the question has gone

settings == <<zones, config>>
vars == <<zones, config, cache, stage, request, left, reply, asked, sent>>

Nobody == [from |-> "nobody"]
ThePool == "pool"

(* validate_local_zones: the tables can be built, and no zone is in both    *)
(* lists.                                                                  *)
Accepted(c) ==
  /\ ~ZonesAreWrong(c.local)
  /\ \A i \in DOMAIN c.local : c.local[i].zone \notin DOMAIN c.forward

Init ==
  /\ config \in {c \in Configs : Accepted(c)}
  /\ zones = BuildZones(config.local)
  /\ cache = <<>>
  /\ stage = "idle" /\ request = Nobody /\ left = {} /\ reply = Nobody
  /\ asked = 0 /\ sent = {}

-----------------------------------------------------------------------------
(* error_response and format_error: nothing else is in them. *)
Message(code, from) ==
  [code |-> code, proofs |-> {}, sigs |-> FALSE, ad |-> FALSE, from |-> from,
   verdict |-> "none", addresses |-> {}, blocked |-> FALSE]

ErrorResponse(code) == Message(code, "server")

(* A packet that is dropped, cannot be read, or is no plain question.      *)
Refused == {"limited", "short", "garbled", "two questions", "not a query"}

ErrorTo(packet) ==
  CASE packet \in {"limited", "short"} -> Nobody
    [] packet \in {"garbled", "two questions"} -> ErrorResponse("FormErr")
    [] packet = "not a query" -> ErrorResponse("NotImp")

RefusePacket ==
  /\ stage = "idle" /\ asked < MaxAsked
  /\ asked' = asked + 1
  /\ \E packet \in Refused : reply' = ErrorTo(packet)
  /\ UNCHANGED <<settings, cache, stage, request, left, sent>>

Receive(q, flags) ==
  /\ stage = "idle" /\ asked < MaxAsked
  /\ asked' = asked + 1
  /\ request' = [q |-> q, do |-> flags.do, ad |-> flags.ad]
  /\ stage' = "cache" /\ reply' = Nobody
  /\ sent' = {}
  /\ UNCHANGED <<settings, cache, left>>

(* CachingBackend: the key is name, type and class. *)
FromCache ==
  /\ stage = "cache" /\ request.q \in DOMAIN cache
  /\ reply' = cache[request.q] /\ stage' = "reply"
  /\ UNCHANGED <<settings, cache, request, left, asked, sent>>

NotInCache ==
  /\ stage = "cache"
  /\ stage' = "local"
  /\ UNCHANGED <<settings, cache, request, left, reply, asked, sent>>

LocalAnswers == LocalAnswer(zones, DOMAIN config.forward, Ddr, Builtin, request.q)

Kept(q, message) ==
  [x \in DOMAIN cache \cup {q} |-> IF x = q THEN message ELSE cache[x]]

(* What comes back to the cache; it may be kept there. *)
Return(message) ==
  /\ reply' = message /\ stage' = "reply" /\ left' = {}
  /\ cache' \in {cache, Kept(request.q, message)}

(* The addresses of a household are private ones. *)
LocalAddresses(records) ==
  {[section |-> "answer", family |-> "v4", scope |-> "private"] :
     r \in {r \in records : r.type \in {"A", "AAAA"}}}

AnswerLocally ==
  /\ stage = "local"
  /\ \E answer \in LocalAnswers :
       Return([Message(answer.code, "local") EXCEPT !.addresses = LocalAddresses(answer.records)])
  /\ UNCHANGED <<settings, request, asked, sent>>

(* The router: the servers of a zone, or the pool. *)
PassOn ==
  /\ stage = "local" /\ LocalAnswers = {}
  /\ LET zone == Route(DOMAIN config.forward, request.q.name)
     IN  IF zone = {}
         THEN stage' = "pool" /\ left' = Direct \cup Oblivious
         ELSE stage' = "zone" /\ left' = UNION {1 .. config.forward[f] : f \in zone}
  /\ UNCHANGED <<settings, cache, request, reply, asked, sent>>

Failing(code) ==
  /\ reply' = ErrorResponse(code) /\ stage' = "reply" /\ left' = {}
  /\ UNCHANGED cache

(* Failover: one server after the other, in the clear, not validated; the  *)
(* request goes out with the client's own flags.                           *)
AskServer(ok, bits) ==
  /\ stage = "zone" /\ left # {}
  /\ sent' = sent \cup {Route(DOMAIN config.forward, request.q.name)}
  /\ IF ok
     THEN \E addresses \in Findable :
            Return([Message("NoError", "zone") EXCEPT !.ad = bits.ad,
                                                      !.sigs = bits.sigs /\ request.do,
                                                      !.addresses = addresses])
     ELSE IF Cardinality(left) = 1 THEN Failing("ServFail")
     ELSE /\ left' = left \ {CHOOSE s \in left : \A x \in left : s <= x}
          /\ UNCHANGED <<stage, reply, cache>>
  /\ UNCHANGED <<settings, request, asked>>

(* Without validation nobody sets DO, and there is no error with a proof.  *)
Possible(outcome) ==
  IF config.validate
  THEN outcome.kind = "answer" =>
         (outcome.message.sigs <=> "Secure" \in outcome.message.proofs)
  ELSE /\ outcome.kind # "nsec"
       /\ outcome.kind = "answer" => (outcome.message.sigs => request.do)

(* Pool::resolve: a bogus answer is the end of it.                         *)
AskUpstream(u, outcome) ==
  /\ stage = "pool" /\ u \in left /\ Possible(outcome)
  /\ sent' = sent \cup {{ThePool}}
  /\ LET result == IF u \in Direct THEN SendChecked(outcome, config.validate)
                   ELSE ObliviousChecked(outcome, config.validate)
     IN  IF ~IsError(result) THEN Return(result)
         ELSE IF result.error = "Bogus" \/ left = {u} THEN Failing("ServFail")
         ELSE left' = left \ {u} /\ UNCHANGED <<stage, reply, cache>>
  /\ UNCHANGED <<settings, request, asked>>

(* rebinding_allow_zones: the zones that are configured, those to be       *)
(* forwarded, and what is answered from the tables.                        *)
RebindingAllowZones ==
  config.allowZones \cup DOMAIN config.forward \cup UNION {RebindingExempt(z) : z \in zones}

(* synthesize: an address only for who asks for one. *)
Synthesize(mode, q, from) ==
  LET address == [section |-> "answer", family |-> "v4",
                  scope |-> IF mode = "sinkhole" THEN "private" ELSE "any"]
      Answer(code, addresses) ==
        [Message(code, from) EXCEPT !.blocked = TRUE, !.addresses = addresses]
  IN  IF mode = "nxdomain" THEN Answer("NXDomain", {})
      ELSE Answer("NoError", IF q.type \in {"A", "AAAA"} THEN {address} ELSE {})

(* PolicyBackend::resolve, once there is an answer: inspect_answer.        *)
Inspect(message) ==
  IF config.rebinding = "block"
       /\ RebindingScores(RebindingAllowZones, request.q.name, message) # {}
  THEN Synthesize(config.mode, request.q, message.from)
  ELSE message

(* Mutation: what one client is shown is what all are shown. *)
ReplyIntoCache ==
  /\ stage = "reply"
  /\ reply' = ForClient(request, reply)
  /\ cache' = IF request.q \in DOMAIN cache THEN Kept(request.q, reply') ELSE cache
  /\ stage' = "idle"
  /\ UNCHANGED <<settings, request, left, asked, sent>>

(* handle_request, behind the cache; an error is not looked at. *)
Reply ==
  /\ stage = "reply"
  /\ reply' = IF reply.from = "server" THEN reply ELSE ForClient(request, Inspect(reply))
  /\ stage' = "idle"
  /\ UNCHANGED <<settings, cache, request, left, asked, sent>>

(* An answer's time in the cache ends. *)
Expire ==
  /\ stage = "idle"
  /\ \E q \in DOMAIN cache : cache' = [x \in DOMAIN cache \ {q} |-> cache[x]]
  /\ UNCHANGED <<settings, stage, request, left, reply, asked, sent>>

Next ==
  \/ RefusePacket \/ FromCache \/ NotInCache \/ AnswerLocally \/ PassOn \/ Reply \/ Expire
  \/ \E q \in Questions, flags \in Flags : Receive(q, flags)
  \/ \E ok \in BOOLEAN, bits \in [ad : BOOLEAN, sigs : BOOLEAN] : AskServer(ok, bits)
  \/ \E u \in Direct \cup Oblivious, outcome \in Outcomes : AskUpstream(u, outcome)

Spec == Init /\ [][Next]_vars

-----------------------------------------------------------------------------
(* The type invariant: nothing is left to be asked unless it is asked. *)
TypeOK ==
  /\ stage \in {"idle", "cache", "local", "zone", "pool", "reply"}
  /\ DOMAIN cache \subseteq Questions
  /\ stage \in {"zone", "pool"} <=> left # {}
  /\ stage = "reply" => reply # Nobody

(***************************************************************************)
(* local.rs:373-451, ADR-0029, ADR-0032: where a name goes is settled by   *)
(* two layers that keep lists of their own.  A name of the household's     *)
(* goes out only where it was told to: never under resolver.arpa; not if a *)
(* table has it, or the deepest zone around it is a closed local one,      *)
(* unless a zone to be forwarded lies deeper than any local one; not       *)
(* if RFC 6303 names it and no zone has claimed it; then to the servers of *)
(* the deepest forwarded zone, and to the pool only if there is none.      *)
(* And `check` (main.rs:1120, 1178), which works it out for itself for     *)
(* every zone and every pair of zones, says the same of the names in them, *)
(* as long as no zone deeper than the one it speaks of has a say; except   *)
(* under resolver.arpa, where an open zone does not let its names go on.   *)
(***************************************************************************)
Deeper(name, as, bs) ==
  \E a \in Deepest(name, as) : \A b \in Deepest(name, bs) : Len(a) > Len(b)

MayLeave(name, to) ==
  LET forward == DOMAIN config.forward
      closed == {z.zone : z \in {y \in zones : y.closed}}
  IN  /\ Deepest(name, Ddr) = {}
      /\ \/ Deeper(name, forward, Apexes(zones)) /\ Deepest(name, Apexes(zones)) # {}
         \/ /\ \A z \in zones : name \notin DOMAIN z.entries
            /\ ~(Deepest(name, Apexes(zones)) \subseteq closed /\ Deepest(name, closed) # {})
            /\ Deepest(name, Builtin) # {} => Deepest(name, Apexes(zones) \cup forward) # {}
      /\ IF Deepest(name, forward) = {} THEN to = {ThePool} ELSE to = Deepest(name, forward)

CheckTellsTheWay(q) ==
  LET forward == DOMAIN config.forward
      stays == LocalAnswer(zones, forward, Ddr, Builtin, q) # {}
      to == Route(forward, q.name)
      has(z) == q.name \in DOMAIN z.entries
      none(apexes, zone) == \A a \in Deepest(q.name, apexes) : Len(a) <= Len(zone)
  IN  /\ \A z \in zones :
           /\ Within(q.name, z.zone) /\ ~z.closed /\ EntryIn(zones, q.name) = {}
           /\ none(Apexes(zones) \cup forward, z.zone)
           => ~stays /\ (to = {}) = (NamesGoOn(z.zone, forward, Ddr) = "upstream")
      /\ \A p \in ForwardInLocal(zones, forward, Ddr) :
           Within(q.name, p[1]) /\ none(Apexes(zones), p[1]) =>
             ~stays /\ \A f \in to : Within(f, p[1])
      /\ \A p \in LocalInForward(zones, forward, Ddr) :
           Within(q.name, p[2].zone) /\ none(forward, p[2].zone) =>
             /\ has(p[2]) => stays
             /\ EntryIn(zones, q.name) = {} /\ none(Apexes(zones), p[2].zone) =>
                  stays = p[2].closed

LocalNamesStayAtHome ==
  /\ \A to \in sent : request.q.class = "IN" => MayLeave(request.q.name, to)
  /\ asked = 0 => \A q \in Questions :
       q.class = "IN" /\ Deepest(q.name, Ddr) = {} => CheckTellsTheWay(q)

(***************************************************************************)
(* caching.rs:63, dnssec.rs:295, transport.rs:135: all clients share one   *)
(* answer, whoever asked first and with which flags.  With validation, no  *)
(* answer of the pool that is kept or shown is bogus; the AD bit is shown  *)
(* only to who asked for it, only on what was proven, and then always; and *)
(* who asks for the signatures gets them if the answer was proven, even if *)
(* it was brought for somebody who did not ask for them.                   *)
(***************************************************************************)
Shown ==
  /\ stage = "idle" /\ request # Nobody /\ reply # Nobody
  /\ reply.from = "pool" /\ ~reply.blocked

SecureMeansProven ==
  config.validate =>
    /\ \A q \in DOMAIN cache : cache[q].from = "pool" => cache[q].verdict \in Proofs \ {"Bogus"}
    /\ Shown =>
         /\ reply.verdict \in Proofs \ {"Bogus"}
         /\ reply.ad <=> (reply.verdict = "Secure" /\ (request.do \/ request.ad))
         /\ reply.sigs => request.do
         /\ (reply.proofs = {"Secure"} /\ request.do) => reply.sigs

(***************************************************************************)
(* policy/mod.rs:804, config.rs:1614: the guard against private addresses  *)
(* looks behind the cache and behind the layers that decide where a        *)
(* question goes, and knows of them only by the list it is given.  If it   *)
(* blocks, it never takes an answer of the household's own away, from the  *)
(* tables or from a forwarded zone; and of what the pool has brought, for  *)
(* whomever, no private address reaches a client in any section, except    *)
(* under a zone that is allowed, below an entry of an open local zone, and *)
(* in an open zone within a closed one, which the list lets pass whole     *)
(* although local.rs:150 says that nothing from there comes from outside.  *)
(***************************************************************************)
PrivateOnlyAtHome ==
  LET below(z) == {n \in DOMAIN z.entries : Within(request.q.name, n) /\ n # request.q.name}
  IN  /\ stage = "idle" /\ reply # Nobody /\ reply.blocked => reply.from = "pool"
      /\ Shown /\ config.rebinding = "block" /\ request.q.class = "IN"
           /\ (\E a \in reply.addresses : IsPrivate(a)) =>
           \/ Deepest(request.q.name, config.allowZones) # {}
           \/ \E z \in zones : ~z.closed /\ below(z) # {}
           \/ \E z, y \in zones : /\ z.closed /\ ~y.closed /\ Within(y.zone, z.zone)
                                 /\ Within(request.q.name, y.zone)
=============================================================================
