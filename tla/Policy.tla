------------------------------- MODULE Policy -------------------------------
(***************************************************************************)
(* A question on its way through the policies (policy/mod.rs) and into the *)
(* books: PolicyBackend in front of everything that resolves, the trace it *)
(* writes (trace.rs), the event the server makes of the trace              *)
(* (server/mod.rs, build_event) and the counters of the query log; beside  *)
(* it the human who allows or denies a name for a while (api/mod.rs,       *)
(* policy/temporary.rs), and the reload that replaces the rules.           *)
(*                                                                         *)
(* The same evaluation answers `explain` and the block page, which must    *)
(* leave the books alone.  The scores of the detectors that remember       *)
(* something are free, and so is what is behind the policies.              *)
(***************************************************************************)
EXTENDS Rules, Detect

CONSTANTS
  Threads,     \* evaluations that may be under way at a time
  Hosts,       \* addresses of clients
  Questions,   \* names that are asked for
  Domains,     \* names that are allowed or denied for a while
  RuleSets,    \* rules: clients, and policies by name
  Moments,     \* local times: day and minute
  Detections,  \* what the configuration may say of the detectors
  PublicSuffixes, \* the public suffixes, and whether they are private
  Labels,      \* what is measured of a label
  Today,       \* the day, for the names that are newly registered
  Suspicions,  \* scores of the detectors that remember something
  Responses,   \* the addresses an answer may hold
  Mode,        \* blocking.mode
  GrantTtl,    \* how long an order of the human holds
  MaxTime,     \* bound on the clock
  MaxOrders,   \* bound on the human's orders
  MaxAsked     \* bound on the evaluations

Kinds == {"dns", "explain", "page"}
Reasons == {"blocklist", "regex", "schedule", "temporary_deny", "other"} \cup Detectors

VARIABLES
  set,      \* the rules in effect
  detectors, \* the configuration of the detectors, and those that are on
  now,      \* the monotonic clock
  grants,   \* Temporary: name -> when it ends, for what is allowed ...
  denied,   \* ... and for what is denied
  thread,   \* an evaluation: where it is, its question, rules and trace
  policy,   \* the counters of the policies
  log,      \* the counters of the query log
  detections, \* the counters of the detectors
  ends,     \* history: how the questions ended
  held      \* history: what held for a thread's name ever since it began

rules == <<set, detectors>>
orders == <<now, grants, denied>>
books == <<policy, log, detections, ends>>
vars == <<set, detectors, now, grants, denied, thread, policy, log, detections, ends, held>>

Sum(f) == FoldSet(LAMBDA x, acc : f[x] + acc, 0, DOMAIN f)
Idle == [at |-> "idle"]

Init ==
  /\ set \in RuleSets
  /\ \E c \in Detections : detectors = [config |-> c, names |-> NameDetectors(c),
                                        answers |-> AnswerDetectors(c)]
  /\ detections = [d \in Detectors |-> 0]
  /\ now = 0 /\ grants = <<>> /\ denied = <<>>
  /\ thread = [t \in Threads |-> Idle]
  /\ policy = [passed |-> 0, allowed |-> 0, blocked |-> 0]
  /\ log = [queries |-> 0, blocked |-> 0, by_reason |-> [r \in Reasons |-> 0]]
  /\ ends = [asked |-> 0, orders |-> 0, question |-> 0, answer |-> 0,
             causes |-> [r \in Reasons |-> 0], found |-> [d \in Detectors |-> 0]]
  /\ held = [t \in Threads |-> {}]

-----------------------------------------------------------------------------
(* Temporary::check: the name and the names above it. *)
Holds(table, name, when) ==
  \E d \in DOMAIN table : Within(name, d) /\ table[d] > when

(* History: an order holds for a thread for as long as it is not undone.   *)
StillHeld(g, d, when) ==
  held' = [t \in Threads |->
             IF thread[t] = Idle THEN {}
             ELSE {o \in held[t] :
                     Holds(IF o = "grant" THEN g ELSE d, thread[t].name, when)}]

(* parse_grant and Temporary::grant: what has ended is cleared away. *)
Entered(table, domain) ==
  LET longer == (domain :> now + GrantTtl) @@ table
  IN  [d \in {x \in DOMAIN longer : longer[x] > now} |-> longer[d]]

Removed(table, domain) == [d \in DOMAIN table \ {domain} |-> table[d]]

Ordered == ends' = [ends EXCEPT !.orders = @ + 1]
MayOrder == ends.orders < MaxOrders

Grant(domain) ==
  /\ MayOrder /\ Ordered
  /\ grants' = Entered(grants, domain)
  /\ StillHeld(grants', denied, now)
  /\ UNCHANGED <<rules, now, denied, thread, policy, log, detections>>

Revoke(domain) ==
  /\ domain \in DOMAIN grants
  /\ grants' = Removed(grants, domain)
  /\ StillHeld(grants', denied, now)
  /\ UNCHANGED <<rules, now, denied, thread, books>>

Deny(domain) ==
  /\ MayOrder /\ Ordered
  /\ denied' = Entered(denied, domain)
  /\ StillHeld(grants, denied', now)
  /\ UNCHANGED <<rules, now, grants, thread, policy, log, detections>>

Undeny(domain) ==
  /\ domain \in DOMAIN denied
  /\ denied' = Removed(denied, domain)
  /\ StillHeld(grants, denied', now)
  /\ UNCHANGED <<rules, now, grants, thread, books>>

Tick ==
  /\ now < MaxTime
  /\ now' = now + 1
  /\ StillHeld(grants, denied, now + 1)
  /\ UNCHANGED <<rules, grants, denied, thread, books>>

(* Engine::replace *)
Replace ==
  /\ \E s \in RuleSets \ {set} : set' = s
  /\ UNCHANGED <<detectors, orders, thread, books, held>>

-----------------------------------------------------------------------------
(* Effects: only a question counts; the block page asks no detector. *)
Counts(t) == thread[t].kind = "dns"
AsksDetectors(t) == thread[t].kind # "page"

Counted(t, what) ==
  policy' = IF Counts(t) THEN [policy EXCEPT ![what] = @ + 1] ELSE policy

At(t, where, steps) ==
  thread' = [thread EXCEPT ![t].at = where, ![t].trace = @ \o steps]

Asked(who, whose) ==
  <<[step |-> "ClientMatched", client |-> who.client, by |-> who.by],
    [step |-> "PolicyApplied", policy |-> whose.name]>>

(* client_addrs: a client is explained by its first address, nobody by the *)
(* server's own.  The table is of the start, and not of the rules in effect. *)
Addresses(clients) == {"loopback"} \cup {clients[i].first : i \in DOMAIN clients}

(* evaluate_with loads the rules once; the root is let through at once. *)
Begin(t, kind, host, name) ==
  /\ thread[t] = Idle /\ ends.asked < MaxAsked
  /\ kind = "explain" => \E rule \in RuleSets : host \in Addresses(rule.clients)
  /\ LET who == Identify(set.clients, host)
         whose == PolicyOf(set, who.policy)
     IN  thread' = [thread EXCEPT ![t] =
           [at |-> IF name = Root THEN "root" ELSE "granted?",
            kind |-> kind, host |-> host, name |-> name, policy |-> whose,
            trace |-> Asked(who, whose)]]
  /\ ends' = [ends EXCEPT !.asked = @ + 1]
  /\ held' = [held EXCEPT ![t] =
                (IF Holds(grants, name, now) THEN {"grant"} ELSE {})
                \cup (IF Holds(denied, name, now) THEN {"denial"} ELSE {})]
  /\ UNCHANGED <<rules, orders, policy, log, detections>>

PassRoot(t) ==
  /\ thread[t].at = "root"
  /\ Counted(t, "passed") /\ At(t, "allow", <<>>)
  /\ UNCHANGED <<rules, orders, log, detections, ends, held>>

(* Mutation: what is allowed is allowed without the names below it. *)
CheckGrantExactly(t) ==
  /\ thread[t].at = "granted?"
  /\ IF thread[t].name \in DOMAIN grants /\ grants[thread[t].name] > now
     THEN Counted(t, "allowed") /\ At(t, "allow", <<[step |-> "TemporaryAllow"]>>)
     ELSE UNCHANGED policy /\ At(t, "denied?", <<>>)
  /\ UNCHANGED <<rules, orders, log, detections, ends, held>>

(* The grant is looked up first, under its own mutex, ... *)
CheckGrant(t) ==
  /\ thread[t].at = "granted?"
  /\ IF Holds(grants, thread[t].name, now)
     THEN Counted(t, "allowed") /\ At(t, "allow", <<[step |-> "TemporaryAllow"]>>)
     ELSE UNCHANGED policy /\ At(t, "denied?", <<>>)
  /\ UNCHANGED <<rules, orders, log, detections, ends, held>>

(* ... then the denial. *)
CheckDenial(t) ==
  /\ thread[t].at = "denied?"
  /\ At(t, IF Holds(denied, thread[t].name, now) THEN "block" ELSE "ruled?",
        IF Holds(denied, thread[t].name, now) THEN <<[step |-> "TemporaryDeny"]>> ELSE <<>>)
  /\ UNCHANGED <<rules, orders, books, held>>

(* The lists, the expressions and the schedule, at the local time. *)
CheckRules(t) ==
  /\ thread[t].at = "ruled?"
  /\ \E moment \in Moments :
       LET hit == RuleHit(thread[t].policy, thread[t].name, moment)
       IN  IF hit = <<>>
           THEN UNCHANGED policy
                /\ At(t, IF AsksDetectors(t) THEN "odd?" ELSE "pass", <<>>)
           ELSE IF hit[1].step = "AllowlistHit"
           THEN Counted(t, "allowed") /\ At(t, "allow", hit)
           ELSE UNCHANGED policy /\ At(t, "block", hit)
  /\ UNCHANGED <<rules, orders, log, detections, ends, held>>

(* record_findings: all of them are counted and in the trace, one is       *)
(* enough to block.                                                        *)
Detected(found) == [i \in DOMAIN found |->
  [step |-> "Detected", detector |-> found[i].detector, action |-> found[i].action]]

Blocks(found) == \E i \in DOMAIN found : found[i].action = "block"

OfDetector(trace, d) ==
  Cardinality({i \in DOMAIN trace : trace[i].step = "Detected" /\ trace[i].detector = d})

Record(found) ==
  detections' = [d \in Detectors |-> detections[d] + OfDetector(Detected(found), d)]

(* Engine::inspect: every detector looks at the name. *)
InspectName(t, others) ==
  LET name == thread[t].name
      scores == "dga" :> DgaScores(PublicSuffixes, Labels, name)
                @@ "nrd" :> NrdScores(detectors.config.nrd, name, Today)
                @@ others
      found == Inspected(detectors.names, scores)
  IN  /\ thread[t].at = "odd?"
      /\ At(t, IF Blocks(found) THEN "block" ELSE "pass", Detected(found))
      /\ Record(found)
      /\ UNCHANGED <<rules, orders, policy, log, ends, held>>

Pass(t) ==
  /\ thread[t].at = "pass"
  /\ Counted(t, "passed") /\ At(t, "allow", <<>>)
  /\ UNCHANGED <<rules, orders, log, detections, ends, held>>

Synthesized == [step |-> "Synthesized", mode |-> Mode]

(* Mutation: who explains a block counts it. *)
BlockCounting(t) ==
  /\ thread[t].at = "block"
  /\ policy' = [policy EXCEPT !.blocked = @ + 1]
  /\ At(t, "blocked", <<Synthesized>>)
  /\ UNCHANGED <<rules, orders, log, detections, ends, held>>

(* record_block *)
Block(t) ==
  /\ thread[t].at = "block"
  /\ Counted(t, "blocked") /\ At(t, "blocked", <<Synthesized>>)
  /\ UNCHANGED <<rules, orders, log, detections, ends, held>>

-----------------------------------------------------------------------------
(* What is behind the policies: a cache, a local zone, an upstream, a      *)
(* failure that is remembered, or one that is new.                         *)
Sources == {"CacheHit", "LocalAnswer", "UpstreamUsed", "FailureCached"}

Resolve(t) ==
  /\ thread[t].at = "allow" /\ Counts(t)
  /\ \/ \E s \in Sources : At(t, IF s = "FailureCached" THEN "log" ELSE "private?",
                               <<[step |-> s]>>)
     \/ At(t, "log", <<>>)
  /\ UNCHANGED <<rules, orders, books, held>>

(* inspect_answer: it may be dropped even though the name is allowed. *)
InspectAnswer(t, response) ==
  LET allowed == detectors.config.rebinding.allowZones
      found == Inspected(detectors.answers,
                 "rebinding" :> RebindingScores(allowed, thread[t].name, response))
  IN  /\ thread[t].at = "private?"
      /\ Record(found)
      /\ IF Blocks(found)
         THEN /\ policy' = [policy EXCEPT !.blocked = @ + 1]
              /\ At(t, "log", Append(Detected(found), Synthesized))
              /\ ends' = [ends EXCEPT !.answer = @ + 1]
         ELSE /\ At(t, "log", Detected(found))
              /\ UNCHANGED <<policy, ends>>
      /\ UNCHANGED <<rules, orders, log, held>>

(* A question that is blocked is answered here. *)
Refuse(t) ==
  /\ thread[t].at = "blocked" /\ Counts(t)
  /\ At(t, "log", <<>>)
  /\ ends' = [ends EXCEPT !.question = @ + 1]
  /\ UNCHANGED <<rules, orders, policy, log, detections, held>>

(* History: what a trace says the detectors have found. *)
Found(trace) == [d \in Detectors |-> ends.found[d] + OfDetector(trace, d)]

(* Nobody else's evaluation goes further: explain and block_cause. *)
Explained(t) ==
  /\ thread[t].at \in {"allow", "blocked"} /\ ~Counts(t)
  /\ ends' = [ends EXCEPT !.found = Found(thread[t].trace)]
  /\ thread' = [thread EXCEPT ![t] = Idle]
  /\ held' = [held EXCEPT ![t] = {}]
  /\ UNCHANGED <<rules, orders, policy, log, detections>>

-----------------------------------------------------------------------------
(* The last step of a trace among those at some places, if there is one. *)
LastOf(trace, places) == IF places = {} THEN {} ELSE {trace[Max(places)]}

(* deciding_step and block_cause: the page names a list, nothing else. *)
DecidingKinds == {"BlocklistHit", "AllowlistHit", "RegexHit", "ScheduleHit",
                  "TemporaryAllow", "TemporaryDeny", "Detected"}

BlockCause(trace, blocked) ==
  LET deciding == LastOf(trace, {i \in DOMAIN trace : trace[i].step \in DecidingKinds})
  IN  IF ~blocked THEN "NotBlocked"
      ELSE IF \E s \in deciding : s.step = "BlocklistHit" THEN "List" ELSE "Rule"

(* BlockReason::from_steps: the last step that blocks. *)
ReasonOf(step) ==
  CASE step.step = "BlocklistHit" -> "blocklist"
    [] step.step = "RegexHit" -> "regex"
    [] step.step = "ScheduleHit" -> "schedule"
    [] step.step = "TemporaryDeny" -> "temporary_deny"
    [] step.step = "Detected" /\ step.action = "block" -> step.detector
    [] OTHER -> "other"

Reason(trace) ==
  LET found == LastOf(trace, {i \in DOMAIN trace : ReasonOf(trace[i]) # "other"})
  IN  IF found = {} THEN "other" ELSE ReasonOf(CHOOSE s \in found : TRUE)

(* AnswerSource::from_steps *)
Source(trace) ==
  LET found == LastOf(trace, {i \in DOMAIN trace :
                                trace[i].step \in Sources \cup {"Synthesized"}})
  IN  IF found = {} THEN "Unknown" ELSE (CHOOSE s \in found : TRUE).step

(* Flagged::from_steps: what may be shown, in the order it was found. *)
Flagged(trace) ==
  LET shown == SelectSeq(trace, LAMBDA s : s.step = "Detected" /\ IsVisible(s.action))
  IN  [i \in DOMAIN shown |-> shown[i].detector]

(* build_event *)
Event(trace) ==
  LET blocked == \E i \in DOMAIN trace : trace[i].step = "Synthesized"
  IN  [blocked |-> blocked, reason |-> IF blocked THEN {Reason(trace)} ELSE {},
       source |-> Source(trace), findings |-> Flagged(trace)]

(* History: the only steps of a trace that can be why it was blocked. *)
Causes(trace) ==
  {r \in Reasons : \E i \in DOMAIN trace : ReasonOf(trace[i]) = r /\ r # "other"}

(* QueryLog::record, its counters; relaxed, but read when all is quiet. *)
Log(t) ==
  /\ thread[t].at = "log"
  /\ LET event == Event(thread[t].trace)
     IN  /\ log' = [queries |-> log.queries + 1,
                    blocked |-> log.blocked + (IF event.blocked THEN 1 ELSE 0),
                    by_reason |-> [r \in Reasons |->
                      log.by_reason[r] + (IF r \in event.reason THEN 1 ELSE 0)]]
         /\ ends' = [ends EXCEPT !.found = Found(thread[t].trace), !.causes = [r \in Reasons |->
              @[r] + (IF event.blocked /\ r \in Causes(thread[t].trace) THEN 1 ELSE 0)]]
  /\ thread' = [thread EXCEPT ![t] = Idle]
  /\ held' = [held EXCEPT ![t] = {}]
  /\ UNCHANGED <<rules, orders, policy, detections>>

Evaluate(t) ==
  \/ PassRoot(t) \/ CheckGrant(t) \/ CheckDenial(t) \/ CheckRules(t) \/ Pass(t) \/ Block(t)
  \/ \E others \in Suspicions : InspectName(t, others)
  \/ \E response \in Responses : InspectAnswer(t, response)
  \/ Resolve(t) \/ Refuse(t) \/ Explained(t) \/ Log(t)

Next ==
  \/ Tick \/ Replace
  \/ \E d \in Domains : Grant(d) \/ Revoke(d) \/ Deny(d) \/ Undeny(d)
  \/ \E t \in Threads :
       \/ \E k \in Kinds, h \in Hosts, n \in Questions : Begin(t, k, h, n)
       \/ Evaluate(t)

Spec == Init /\ [][Next]_vars

-----------------------------------------------------------------------------
(* policy_test: an engine of its own, with the rules and nothing else: no  *)
(* orders and no detectors.                                                *)
Tested(rule, host, name, moment) ==
  LET who == Identify(rule.clients, host)
      whose == PolicyOf(rule, who.policy)
      hit == IF name = Root THEN <<>> ELSE RuleHit(whose, name, moment)
      blocked == hit # <<>> /\ hit[1].step # "AllowlistHit"
  IN  [blocked |-> blocked,
       steps |-> Asked(who, whose) \o hit \o (IF blocked THEN <<Synthesized>> ELSE <<>>)]

-----------------------------------------------------------------------------
(* The type invariant. *)
TypeOK ==
  /\ set \in RuleSets /\ now \in 0 .. MaxTime
  /\ DOMAIN grants \subseteq Domains /\ DOMAIN denied \subseteq Domains
  /\ \A t \in Threads : thread[t] # Idle => thread[t].kind \in Kinds
  /\ \A t \in Threads : held[t] \subseteq {"grant", "denial"}

(***************************************************************************)
(* policy/mod.rs:471, logging/mod.rs:154: the two sets of books agree.     *)
(* They are kept in different places and from different sources, the       *)
(* policies' at each verdict and the log's from the trace at the end; when *)
(* nothing is under way, the log has as many blocked queries as the        *)
(* policies, every one of them under the reason that was there to block    *)
(* it, none under `other`; and the policies' sum exceeds the queries by    *)
(* those whose answer was dropped after their name had been let through.   *)
(* An explanation or a block page is in none of the books.  The detectors  *)
(* count for themselves, explanations as well: as often as they are in a   *)
(* trace, and never less often than they are the reason of a block.        *)
(***************************************************************************)
BooksAgree ==
  (\A t \in Threads : thread[t] = Idle) =>
    /\ policy.blocked = log.blocked
    /\ log.blocked = ends.question + ends.answer
    /\ Sum(log.by_reason) = log.blocked /\ log.by_reason["other"] = 0
    /\ \A r \in Reasons : log.by_reason[r] <= ends.causes[r]
    /\ policy.passed + policy.allowed + policy.blocked = log.queries + ends.answer
    /\ detections = ends.found
    /\ \A d \in Detectors : log.by_reason[d] <= detections[d]

(* The line a trace names is one of the list, and says so. *)
Says(line, format, name) ==
  /\ ~line.bang
  /\ \E i \in DOMAIN line.words :
       IF format = "hosts" THEN name \in Normalize(line.words[i])
       ELSE \E d \in Normalize(line.words[i]) \cup Normalize(Tail(line.words[i])) :
              IF format = "wildcard" THEN Within(name, d) ELSE name = d

LinesAreNamed(evaluation) ==
  \A i \in DOMAIN evaluation.trace :
    LET step == evaluation.trace[i]
    IN  step.step \in {"BlocklistHit", "AllowlistHit"} =>
          \E m \in ToSet(evaluation.policy.blocklists \o evaluation.policy.allowlists) :
            m.list = step.list /\ Says(m.lines[step.line], m.format, evaluation.name)

(* An explanation in which neither a human nor a detector has a part.      *)
ByRulesAlone(evaluation) ==
  /\ evaluation.kind = "explain" /\ evaluation.at \in {"allow", "blocked"}
  /\ \A i \in DOMAIN evaluation.trace :
       evaluation.trace[i].step \notin {"TemporaryAllow", "TemporaryDeny", "Detected"}

TestedTheSame(evaluation) ==
  ByRulesAlone(evaluation) =>
    \E rule \in RuleSets, moment \in Moments :
      Tested(rule, evaluation.host, evaluation.name, moment)
        = [blocked |-> evaluation.at = "blocked", steps |-> evaluation.trace]

(***************************************************************************)
(* policy/mod.rs:360, ARCHITECTURE.md section 1: what a human has ordered  *)
(* is stronger than any list.  A name that is allowed for a while, from    *)
(* before its question came until it is decided, is not blocked by its     *)
(* name; one that is denied for that time and not allowed is not let       *)
(* through -- however the rules are replaced and whatever else is allowed  *)
(* or denied meanwhile; and the block page does not put it down to a list. *)
(* What is put down to a list stands in the line of it that is named       *)
(* (filter/parser.rs:76), which is no comment: the name in question or, in *)
(* a list of wildcards only, one above it.  Where no human and no detector *)
(* has a part in it, the web UI explains a verdict as `policy test` would  *)
(* (main.rs:1381) for that address, by rules that were in effect at the    *)
(* same time of day.                                                       *)
(***************************************************************************)
HumanDecisionsHold ==
  \A t \in Threads :
    /\ "grant" \in held[t] => thread[t].at \notin {"block", "blocked"}
    /\ ("denial" \in held[t] /\ thread[t].at \in {"allow", "pass"} /\ thread[t].name # Root)
         => \E i \in DOMAIN thread[t].trace : thread[t].trace[i].step = "TemporaryAllow"
    /\ ("denial" \in held[t] /\ thread[t].at = "blocked")
         => BlockCause(thread[t].trace, TRUE) = "Rule"
    /\ thread[t] # Idle => LinesAreNamed(thread[t]) /\ TestedTheSame(thread[t])
=============================================================================
