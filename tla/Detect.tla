-------------------------------- MODULE Detect --------------------------------
(***************************************************************************)
(* What is suspicious about a name or an answer (detect/): the detectors   *)
(* that are switched on, their thresholds, and the three of them that keep *)
(* nothing between two questions; Typosquat and Tunneling have modules of  *)
(* their own, and are a score here.                                        *)
(*                                                                         *)
(* Scores are in thousandths.  A label is the kinds of its letters and the *)
(* surprise the model has at them, a day is a number, and an address       *)
(* [section, family, scope].                                               *)
(***************************************************************************)
EXTENDS Integers, Names, FiniteSetsExt, TLC

Detectors == {"dga", "tunneling", "rebinding", "typosquat", "nrd"}

(* Action: `log` counts, `flag` shows as well, and `block` does both. *)
IsVisible(action) == action \in {"flag", "block"}

(* permille: a number that is none counts as nought. *)
Permille(score) == Max({0} \cup {Min({s, 1000}) : s \in score})

Configured(detector, action, threshold) ==
  [detector |-> detector, action |-> action, threshold |-> threshold]

(* with_name, with_answer: what is off is not even there. *)
With(entries, entry) == IF entry.action = "off" THEN entries ELSE Append(entries, entry)

Accepts(entry, score) == entry.action # "off" /\ score >= entry.threshold

-----------------------------------------------------------------------------
(* Newly registered domains.  parse: lines that are broken are skipped, of *)
(* two lines for a domain the last one holds.                              *)
Parse(lines) ==
  LET good == {i \in DOMAIN lines : lines[i].date # {}}
      last(d) == Max({i \in good : lines[i].domain = d})
  IN  [d \in {lines[i].domain : i \in good} |-> CHOOSE day \in lines[last(d)].date : TRUE]

(* Nrd::load: a file that is missing is an empty one. *)
NrdTable(file) == IF file.state = "missing" THEN <<>> ELSE Parse(file.lines)

(* from_config: no detector without a file that can be read and says something. *)
NrdLoads(nrd) == \E file \in nrd.source : file.state # "unreadable" /\ NrdTable(file) # <<>>

(* score_for: from 1000 today, or in the days to come, down to nothing.    *)
ScoreFor(age, max) ==
  IF max <= 0 \/ age >= max THEN 0 ELSE ((max - Max({age, 0})) * 1000) \div max

(* Nrd::inspect: by the name itself, or the nearest name above it.         *)
NrdScores(nrd, name, today) ==
  LET scores(table) == {ScoreFor(today - table[d], nrd.maxAge) :
                          d \in Deepest(name, DOMAIN table \ {Root})}
  IN  UNION {scores(NrdTable(file)) : file \in nrd.source} \ {0}

-----------------------------------------------------------------------------
(* Generated names.  psl::suffix: what is not in the list is a suffix of   *)
(* one label, and no private one.                                          *)
Suffix(suffixes, name) ==
  IF Deepest(name, DOMAIN suffixes) = {} THEN {TrimTo(name, 1)}
  ELSE Deepest(name, DOMAIN suffixes)

IsPrivateSuffix(suffixes, suffix) == suffix \in DOMAIN suffixes /\ suffixes[suffix] = "private"

(* scored_label: the first label of what can be registered; nothing below  *)
(* a suffix of which a provider hands out the names.                       *)
ScoredLabel(suffixes, name) ==
  {IF name = s THEN Head(name) ELSE Head(TrimTo(name, Len(s) + 1)) :
     s \in {s \in Suffix(suffixes, name) : ~IsPrivateSuffix(suffixes, s)}}

MinLength == 7

(* clamp01 *)
Share(n, full) == IF n <= 0 THEN 0 ELSE IF n >= full THEN 1000 ELSE (n * 1000) \div full

(* longest_consonant_run, digit_ratio: a label as the kinds of its letters. *)
ConsonantRun(kinds) ==
  LET runs == {r \in (1 .. Len(kinds)) \X (1 .. Len(kinds)) :
                 \A i \in r[1] .. r[2] : kinds[i] = "consonant"}
  IN  Max({0} \cup {r[2] - r[1] + 1 : r \in runs})

DigitRatio(kinds) ==
  (Cardinality({i \in DOMAIN kinds : kinds[i] = "digit"}) * 1000) \div Len(kinds)

(* score_label: from the surprise per triple of letters, which is what the *)
(* built-in table says, the longest run of consonants, and the digits.     *)
ScoreLabel(label) ==
  IF Len(label.kinds) < MinLength THEN 0
  ELSE (75 * Share(label.surprise - 5000, 1500)
          + 15 * Share(ConsonantRun(label.kinds) - 4, 3)
          + 10 * Share(DigitRatio(label.kinds) - 200, 400)) \div 100

(* Dga::inspect *)
DgaScores(suffixes, labels, name) ==
  {ScoreLabel(labels[l]) : l \in {l \in ScoredLabel(suffixes, name) : ~labels[l].punycode}} \ {0}

-----------------------------------------------------------------------------
(* is_private: where a device of the own network may be, but not where no  *)
(* device is at all.  A mapped address is the one that is in it.           *)
IsPrivate(address) ==
  address.scope \in {"loopback", "private", "link"}
                      \cup IF address.family = "v6" THEN {}
                           ELSE {"broadcast", "shared", "benchmark"}

(* Mutation: what comes along with an answer is not looked at. *)
AnswersOnly(response) == {a \in response.addresses : a.section = "answer"}

(* All three sections: a private address does not need to be the answer.   *)
AddressesOf(response) == response.addresses

(* Rebinding::inspect *)
RebindingScores(allowed, name, response) ==
  IF \E zone \in allowed : Within(name, zone) THEN {}
  ELSE {1000 : a \in {a \in AddressesOf(response) : IsPrivate(a)}}

-----------------------------------------------------------------------------
(***************************************************************************)
(* from_config: in this order, and without the detectors that lack what    *)
(* they work with.                                                         *)
(***************************************************************************)
NameDetectors(c) ==
  LET entry(d) == Configured(d, c[d].action, Permille(c[d].threshold))
      always == With(With(<<>>, entry("dga")), entry("tunneling"))
      guarded == IF c.typosquat.protect = {} THEN always ELSE With(always, entry("typosquat"))
  IN  IF NrdLoads(c.nrd) THEN With(guarded, Configured("nrd", c.nrd.action, 0)) ELSE guarded

AnswerDetectors(c) == With(<<>>, Configured("rebinding", c.rebinding.action, 0))

(* inspect_name, inspect_answer: what every detector has found, in their   *)
(* order; scores has for each detector at most one.                        *)
Inspected(entries, scores) ==
  LET found[n \in 0 .. Len(entries)] ==
        IF n = 0 THEN <<>>
        ELSE IF \E s \in scores[entries[n].detector] : Accepts(entries[n], s)
        THEN Append(found[n - 1],
                    [detector |-> entries[n].detector, action |-> entries[n].action])
        ELSE found[n - 1]
  IN  found[Len(entries)]

(* configured: what status and metrics say of a detector that is not there. *)
ActionOf(entries, detector) ==
  LET known == {i \in DOMAIN entries : entries[i].detector = detector}
  IN  IF known = {} THEN "off" ELSE entries[CHOOSE i \in known : TRUE].action
=============================================================================
