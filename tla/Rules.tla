-------------------------------- MODULE Rules --------------------------------
(***************************************************************************)
(* What the rules say of a question: whose they are (policy/clients.rs),   *)
(* which list names a name (filter/matcher.rs), the regular expressions    *)
(* (policy/rules.rs), and the windows of time (policy/schedule.rs).        *)
(*                                                                         *)
(* A net is a set of hosts with the length of its prefix; an expression is *)
(* the set of names it matches; times are minutes of the day.  A line of a *)
(* list (filter/parser.rs) is its words before the first '#'; a word is    *)
(* what is between its dots, [text, length, plain], the text in small      *)
(* letters, and plain if it has none but letters, digits, '-' and '_'.     *)
(***************************************************************************)
EXTENDS Integers, Names, FiniteSetsExt, TLC

-----------------------------------------------------------------------------
(* Clients::new: rules are ordered by their most specific net; rules that  *)
(* are alike stay as they were.                                            *)
Precision(rule) == IF rule.nets = {} THEN 0 ELSE Max({n.prefix : n \in rule.nets})

Before(rules, i, j) ==
  \/ Precision(rules[i]) > Precision(rules[j])
  \/ Precision(rules[i]) = Precision(rules[j]) /\ i < j

Matches(rule, host) == \E n \in rule.nets : host \in n.hosts

(* Clients::identify *)
Identify(rules, host) ==
  LET found == {i \in DOMAIN rules : Matches(rules[i], host)}
  IN  IF found = {}
      THEN [client |-> "default", policy |-> "default", by |-> "Default"]
      ELSE LET first == CHOOSE i \in found : \A j \in found \ {i} : Before(rules, i, j)
           IN  [client |-> rules[first].name, policy |-> rules[first].policy,
                by |-> "Address"]

-----------------------------------------------------------------------------
MaxLabel == 63
MaxName == 253

Texts(word) == [i \in DOMAIN word |-> word[i].text]

(* trim_matches: the dots around a word. *)
Trimmed(word) ==
  LET filled == {i \in DOMAIN word : word[i].length > 0}
  IN  IF filled = {} THEN <<>> ELSE SubSeq(word, Min(filled), Max(filled))

(* normalize: the name a word stands for, if there is one. *)
Normalize(word) ==
  LET labels == Trimmed(word)
      length == SumFunction([i \in DOMAIN labels |-> labels[i].length]) + Len(labels) - 1
  IN  IF /\ labels # <<>> /\ length <= MaxName
         /\ \A i \in DOMAIN labels : labels[i].plain /\ labels[i].length \in 1 .. MaxLabel
      THEN {Texts(labels)} ELSE {}

(* strip_comment: '!' makes one of a whole line. *)
Words(line) == IF line.bang THEN <<>> ELSE line.words

SinkholeAddresses ==
  {<<"0", "0", "0", "0">>, <<"127", "0", "0", "1">>, <<"::">>, <<"::1">>, <<"0:0:0:0:0:0:0:0">>}

Localhosts ==
  {<<"localhost", "localdomain">>}
  \cup {<<n>> : n \in {"localhost", "local", "ip6-localhost", "ip6-loopback", "ip6-localnet",
                       "ip6-mcastprefix", "ip6-allnodes", "ip6-allrouters", "broadcasthost"}}

(* parse_hosts: the names of a line whose address leads nowhere. *)
HostsOf(line) ==
  LET words == Words(line)
  IN  IF words = <<>> \/ Texts(words[1]) \notin SinkholeAddresses THEN {}
      ELSE UNION {Normalize(words[k]) : k \in 2 .. Len(words)} \ Localhosts

(* parse_simple: a word alone; `*.` before it says no more than the scope. *)
NameIn(line) ==
  LET words == Words(line)
      word == words[1]
  IN  IF Len(words) # 1 THEN {}
      ELSE Normalize(IF word[1].text = "*" /\ Len(word) > 1 THEN Tail(word) ELSE word)

(* parse: what cannot be read is passed over, and only counted for the log. *)
ParseList(lines, format) ==
  LET names(i) == IF format = "hosts" THEN HostsOf(lines[i]) ELSE NameIn(lines[i])
      scope == IF format = "wildcard" THEN "Suffix" ELSE "Exact"
  IN  UNION {{[domain |-> n, scope |-> scope, line |-> i] : n \in names(i)} : i \in DOMAIN lines}

(***************************************************************************)
(* Builder::add, from the first line to the last: an entry for a name and  *)
(* all below it replaces one for the name alone; otherwise the first one   *)
(* stays.                                                                  *)
(***************************************************************************)
FirstWidest(entries) ==
  LET wide == {e \in entries : e.scope = "Suffix"}
      kept == IF wide = {} THEN entries ELSE wide
  IN  CHOOSE e \in kept : \A o \in kept : e.line <= o.line

Built(parsed) ==
  [d \in {e.domain : e \in parsed} |->
     LET kept == FirstWidest({e \in parsed : e.domain = d})
     IN  [scope |-> kept.scope, line |-> kept.line]]

(* Matcher::lookup: the most specific entry that covers the name. *)
Lookup(matcher, name) ==
  Deepest(name, {d \in DOMAIN matcher.entries :
                   d = name \/ matcher.entries[d].scope = "Suffix"})

(* The first of a policy's lists that names it, with the line. *)
ListHit(matchers, name, step) ==
  LET i == SelectInSeq(matchers, LAMBDA m : Lookup(m, name) # {})
  IN  IF i = 0 THEN <<>>
      ELSE LET matched == CHOOSE d \in Lookup(matchers[i], name) : TRUE
           IN  <<[step |-> step, list |-> matchers[i].list,
                  line |-> matchers[i].entries[matched].line, matched |-> matched]>>

(* RegexRules::matches: the first expression that matches. *)
RegexHit(policy, name) ==
  LET i == SelectInSeq(policy.regex, LAMBDA r : name \in r.matches)
  IN  IF i = 0 THEN <<>> ELSE <<[step |-> "RegexHit", pattern |-> policy.regex[i].pattern]>>

(* Schedule::is_active: a window over midnight belongs to the day on which *)
(* it opens.                                                               *)
Active(window, at) ==
  LET opened(day) == day \in window.days
      yesterday == (at.day + 6) % 7
  IN  IF window.from <= window.to
      THEN opened(at.day) /\ window.from <= at.time /\ at.time < window.to
      ELSE \/ opened(at.day) /\ window.from <= at.time
           \/ opened(yesterday) /\ at.time < window.to

ScheduleHit(policy, at) ==
  LET i == SelectInSeq(policy.schedules, LAMBDA w : Active(w, at))
  IN  IF i = 0 THEN <<>>
      ELSE <<[step |-> "ScheduleHit", schedule |-> policy.schedules[i].name]>>

(***************************************************************************)
(* evaluate_with, from the allowlists to the schedules: the first rule     *)
(* that says something, as a step of the trace; none says nothing.         *)
(***************************************************************************)
RuleHit(policy, name, at) ==
  LET hits == ListHit(policy.allowlists, name, "AllowlistHit")
              \o ListHit(policy.blocklists, name, "BlocklistHit")
              \o RegexHit(policy, name)
              \o ScheduleHit(policy, at)
  IN  IF hits = <<>> THEN <<>> ELSE <<hits[1]>>

(* PolicySet::policy: a policy that is not there blocks nothing. *)
NoPolicy ==
  [name |-> "(none)", allowlists |-> <<>>, blocklists |-> <<>>, regex |-> <<>>,
   schedules |-> <<>>]

PolicyOf(set, name) ==
  IF name \in DOMAIN set.policies THEN set.policies[name] ELSE NoPolicy

=============================================================================
