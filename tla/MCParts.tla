------------------------------- MODULE MCParts -------------------------------
(***************************************************************************)
(* The values that Parts is checked with.                                  *)
(***************************************************************************)
EXTENDS Parts, Rules, Config

CONSTANTS t1, t2 \* two tasks

Symmetry == Permutations({t1, t2})

-----------------------------------------------------------------------------
(***************************************************************************)
(* Values for Policy: two rule sets that are exchanged at runtime.  In the *)
(* first a host has a rule of its own beside the one of its network, whose *)
(* policy is not there, and the lists overlap; in the second there are no  *)
(* clients and a regular expression.  The detectors are on and block, or   *)
(* lack what they work with.                                               *)
(***************************************************************************)
AdsName == <<"ads", "com">>
BelowAds == <<"x", "ads", "com">>
OddName == <<"x7kqzvt", "com">>
OddTenant == <<"x7kqzvt", "cdn", "net">>

(* Lists as they are written. *)
Plain(text) == [text |-> text, length |-> 3, plain |-> TRUE]
Unusual(text, length) == [text |-> text, length |-> length, plain |-> FALSE]
Nothing == [text |-> "", length |-> 0, plain |-> TRUE]
Word(name) == [i \in DOMAIN name |-> Plain(name[i])]
Line(words) == [bang |-> FALSE, words |-> words]
Zero == Word(<<"0", "0", "0", "0">>)

ListOf(list, lines, format) ==
  [list |-> list, lines |-> lines, format |-> format, entries |-> Built(ParseList(lines, format))]

(* With a comment, a name of this host, one that is none, and addresses    *)
(* that lead somewhere; the name that counts comes with another.           *)
AdsHosts ==
  <<[bang |-> TRUE, words |-> <<Word(AdsName)>>],
    Line(<<Word(<<"127", "0", "0", "1">>), Word(<<"localhost">>)>>),
    Line(<<Word(<<"10", "0", "0", "1">>), Word(BelowAds)>>),
    Line(<<Zero, <<Unusual("a/b", 3)>>, Word(<<"new", "com">>), Append(Word(AdsName), Nothing)>>),
    Line(<<Zero, Word(AdsName)>>)>>

AdsWildcard ==
  <<Line(<<Word(AdsName), Word(BelowAds)>>), Line(<<<<Unusual("*", 1)>> \o Word(AdsName)>>)>>

SchoolDomains ==
  <<Line(<<>>), Line(<<<<Plain("x7kqzvt"), [Plain("long") EXCEPT !.length = 64]>>>>),
    Line(<<<<Nothing>> \o Word(AdsName)>>)>>

MCKids ==
  [name |-> "kids", allowlists |-> <<ListOf("school", SchoolDomains, "domains")>>,
   blocklists |-> <<ListOf("ads", AdsWildcard, "wildcard")>>, regex |-> <<>>,
   schedules |-> <<[name |-> "bed", days |-> {0}, from |-> 1260, to |-> 420]>>]

MCDefault ==
  [NoPolicy EXCEPT !.name = "default", !.blocklists =
     <<ListOf("hosts", AdsHosts, "hosts"), ListOf("ads", AdsWildcard, "wildcard")>>]

MCHome ==
  [clients |->
     <<[name |-> "home", first |-> "tv", nets |-> {[prefix |-> 24, hosts |-> {"kid", "tv"}]},
        policy |-> "gone"],
       [name |-> "kid", first |-> "kid", nets |-> {[prefix |-> 32, hosts |-> {"kid"}]},
        policy |-> "kids"]>>,
   policies |-> "default" :> MCDefault @@ "kids" :> MCKids]

MCPlain ==
  [clients |-> <<>>,
   policies |-> "default" :> [NoPolicy EXCEPT !.name = "default", !.regex =
                                <<[pattern |-> "^x", matches |-> {BelowAds}]>>]]

MCRuleSets == {MCHome, MCPlain}
MCHosts == {"kid", "loopback"}
MCNamesAsked == {Root, AdsName, BelowAds, OddName, OddTenant}
MCDomains == {AdsName, BelowAds}

(* In the evening, and in the morning before school. *)
MCMoments == {[day |-> 0, time |-> 1320], [day |-> 0, time |-> 360]}

MCSuffixes == <<"com">> :> "icann" @@ <<"net">> :> "icann" @@ <<"cdn", "net">> :> "private"

Label(kinds, surprise) == [kinds |-> kinds, surprise |-> surprise, punycode |-> FALSE]
MCLabels ==
  "x7kqzvt" :> Label(<<"consonant", "digit">> \o [i \in 1 .. 5 |-> "consonant"], 6500)
  @@ "ads" :> Label(<<"vowel", "consonant", "consonant">>, 7000)
  @@ "x" :> Label(<<"consonant">>, 0)

NrdFile(state) ==
  [state |-> state, lines |-> <<[domain |-> OddName, date |-> {8}],
                                [domain |-> AdsName, date |-> {}]>>]
Switched(action) == [action |-> action, threshold |-> {500}]
MCStrict ==
  [dga |-> Switched("block"), tunneling |-> Switched("flag"),
   typosquat |-> [Switched("block") EXCEPT !.threshold = {}] @@ [protect |-> {AdsName}],
   nrd |-> [action |-> "log", source |-> {NrdFile("file")}, maxAge |-> 4],
   rebinding |-> [action |-> "block", allowZones |-> {AdsName}]]
MCMute ==
  [MCStrict EXCEPT !.dga.action = "off", !.typosquat.protect = {},
                   !.nrd.source = {NrdFile("missing")}, !.rebinding.action = "flag"]
MCDetections == {MCStrict, MCMute}

MCSuspicions ==
  {"tunneling" :> {} @@ "typosquat" :> {}, "tunneling" :> {600} @@ "typosquat" :> {850}}

Carried(section, scope) == [section |-> section, family |-> "v4", scope |-> scope]
MCResponses ==
  {[addresses |-> {Carried("answer", "public")}],
   [addresses |-> {Carried("answer", "public"), Carried("additional", "shared")}]}

-----------------------------------------------------------------------------
(***************************************************************************)
(* Values for Path: local zones, open and closed, over and under zones to  *)
(* be forwarded and those of RFC 6303 and RFC 9462; three configurations   *)
(* that are rejected; and what an upstream may answer.                     *)
(***************************************************************************)
Arpa == <<"arpa">>
DdrZone == <<"resolver", "arpa">>
TenZone == <<"10", "in-addr", "arpa">>
MCDdr == {DdrZone}
MCBuiltin == {TenZone}
HomeZone == <<"home">>
DevZone == <<"dev", "home">>
Nas == <<"nas", "home">>
NasDev == <<"nas", "dev", "home">>

LocalZone(zone, closed, records) == [zone |-> zone, closed |-> closed, records |-> records]

LocalRecord(labels, absolute, type, value) ==
  [name |-> [labels |-> labels, absolute |-> absolute], type |-> type, value |-> value,
   parses |-> TRUE]

NasRecord == LocalRecord(<<"nas">>, FALSE, "A", "ip")
Alias(labels) == LocalRecord(labels, FALSE, "CNAME", [labels |-> <<"nas">>, absolute |-> FALSE])
ClosedHome == LocalZone(HomeZone, TRUE, <<NasRecord>>)

Household(local, forward, validate) ==
  [local |-> local, forward |-> forward, validate |-> validate,
   rebinding |-> "block", allowZones |-> {<<"nat", "com">>}, mode |-> "nxdomain"]

MCWrongHouseholds ==
  {Household(<<LocalZone(HomeZone, TRUE, <<NasRecord, Alias(<<"nas">>)>>)>>, <<>>, TRUE),
   Household(<<LocalZone(<<>>, TRUE, <<>>)>>, <<>>, TRUE),
   Household(<<ClosedHome, LocalZone(Nas, TRUE, <<LocalRecord(<<>>, FALSE, "A", "ip")>>)>>,
             <<>>, TRUE),
   Household(<<ClosedHome>>, HomeZone :> 1, TRUE)}

MCHouseholds ==
  MCWrongHouseholds \cup
  {Household(<<>>, <<>>, FALSE),
   [Household(<<>>, <<>>, TRUE) EXCEPT !.rebinding = "flag"],
   [Household(<<>>, <<>>, FALSE) EXCEPT !.mode = "sinkhole"],
   Household(<<>>, DevZone :> 2, TRUE),
   Household(<<ClosedHome>>, DevZone :> 2, TRUE),
   Household(<<LocalZone(DevZone, TRUE, <<NasRecord>>)>>, HomeZone :> 1, TRUE),
   Household(<<LocalZone(HomeZone, FALSE, <<NasRecord>>), LocalZone(DevZone, TRUE, <<>>)>>,
             NasDev :> 1 @@ TenZone :> 1, TRUE),
   Household(<<LocalZone(HomeZone, TRUE, <<NasRecord, Alias(<<"nas", "dev">>)>>),
               LocalZone(DevZone, FALSE, <<>>)>>, Arpa :> 1, TRUE),
   Household(<<LocalZone(Arpa, FALSE, <<LocalRecord(DdrZone, TRUE, "A", "ip")>>)>>,
             DdrZone :> 1, TRUE)}

Question(name, type, class) == [name |-> name, type |-> type, class |-> class]

MCPathQuestions ==
  {Question(Nas, "A", "IN"), Question(Nas, "ANY", "IN"), Question(NasDev, "A", "IN"),
   Question(<<"pc", "dev", "home">>, "A", "IN"), Question(<<"x", "home">>, "A", "IN"),
   Question(DdrZone, "A", "IN"), Question(<<"5", "10", "in-addr", "arpa">>, "PTR", "IN"),
   Question(<<"com">>, "A", "IN"), Question(<<"x", "nat", "com">>, "A", "IN"),
   Question(<<"x", "nas", "home">>, "A", "IN"), Question(Nas, "A", "CH")}

MCFlags == {[do |-> FALSE, ad |-> FALSE], [do |-> TRUE, ad |-> FALSE], [do |-> FALSE, ad |-> TRUE]}

-----------------------------------------------------------------------------
UpstreamMessage(code, proofs, sigs, ad) ==
  [code |-> code, proofs |-> proofs, sigs |-> sigs, ad |-> ad, from |-> "pool",
   verdict |-> "none", addresses |-> {}, blocked |-> FALSE]

PrivateAddress(section) == [section |-> section, family |-> "v4", scope |-> "private"]
MCFindable == {{PrivateAddress("answer")}}

WithAddress(outcome, section) == [outcome EXCEPT !.message.addresses = {PrivateAddress(section)}]

AnAnswer(proofs, sigs, ad) ==
  [kind |-> "answer", fits |-> TRUE, message |-> UpstreamMessage("NoError", proofs, sigs, ad)]

NotProven(proof, message) == [kind |-> "nsec", proof |-> proof, message |-> message]

MCOutcomes ==
  {WithAddress(AnAnswer({"Secure"}, TRUE, FALSE), "answer"), AnAnswer({"Secure"}, TRUE, FALSE),
   WithAddress(AnAnswer({"Insecure"}, FALSE, TRUE), "additional"),
   AnAnswer({"Secure", "Bogus"}, TRUE, TRUE), AnAnswer({}, FALSE, TRUE),
   AnAnswer({"Secure", "Insecure"}, TRUE, TRUE),
   [AnAnswer({}, TRUE, FALSE) EXCEPT !.fits = FALSE],
   NotProven("Bogus", UpstreamMessage("NXDomain", {"Indeterminate"}, TRUE, TRUE)),
   NotProven("Insecure", UpstreamMessage("NXDomain", {}, FALSE, TRUE)),
   NotProven("Bogus", UpstreamMessage("ServFail", {}, FALSE, TRUE)),
   [kind |-> "error"], [kind |-> "end"]}

-----------------------------------------------------------------------------
(***************************************************************************)
(* Values for Startup: configurations that start, some that a check lets   *)
(* pass and the kernel or the rules refuse, and for every part of          *)
(* Config::validate one that it refuses.                                   *)
(***************************************************************************)
Lan == Ip("v4", "private", 1)
Public == Ip("v4", "public", 1)
Any6 == Ip("v6", "any", 0)

Upstream(scheme, ip) == [scheme |-> scheme, ip |-> ip, port |-> {}]
Resolver(scheme, ip) ==
  [name |-> "one", addr |-> Upstream(scheme, {ip}), tls_name |-> {"dns.example"}]
PoolOf(resolvers) == <<[name |-> "main", resolver |-> resolvers]>>

AList(name) == [name |-> name, format |-> "hosts", url |-> {"https"}]
APolicy(name, lists) == [name |-> name, blocklists |-> lists]
AClient(ip, policy) == [name |-> "one", match |-> {ip}, policy |-> policy]
AForward(scheme, ip) ==
  [zone |-> <<"fritz", "box">>, upstream |-> <<Upstream(scheme, {ip})>>]
AZone(zone) == [zone |-> zone, fallback |-> "nxdomain"]

Weekend(from, to) ==
  [name |-> "late", days |-> {"sat", "sun"}, from |-> from, to |-> to,
   action |-> "block_all_except_allowlist"]

(* As little as possible. *)
Base ==
  [server |-> [listen_udp |-> <<Socket(Lan, 53)>>, listen_tcp |-> <<Socket(Lan, 53)>>],
   upstream_pool |-> PoolOf(<<Resolver("tls", Public)>>), blocklist |-> <<AList("ads")>>]

WithTable(f, table, keys) ==
  (table :> (keys @@ (IF table \in DOMAIN f THEN f[table] ELSE <<>>))) @@ f

Enabled == "enabled" :> TRUE

(* Everything is switched on. *)
Full ==
  "privacy.logging" :> [mode |-> "full"]
  @@ "privacy.odoh" :> [enabled |-> TRUE, proxy |-> {"https"}]
  @@ "server" :> [listen_udp |-> <<Socket(Lan, 53), Socket(Loopback, 53)>>,
                  listen_tcp |-> <<Socket(Lan, 53)>>]
  @@ "api" :> Enabled @@ "metrics" :> Enabled
  @@ "block_page" :> [enabled |-> TRUE, listen |-> Socket(Lan, 80)]
  @@ "blocking" :> [mode |-> "sinkhole", sinkhole_ipv4 |-> Lan]
  @@ "upstream_pool" :> PoolOf(<<Resolver("doh", Public)>>)
  @@ "allowlist" :> <<AList("kids")>>
  @@ "client" :> <<AClient("net", "kids")>>
  @@ "policy" :> <<APolicy("kids", {"kids"}) @@ "schedule" :> <<Weekend(1260, 420)>>,
                   APolicy("default", {"ads"})>>
  @@ "forward_zone" :> <<AForward("udp", Lan)>>
  @@ "local_zone" :> <<AZone(<<"home">>)>>
  @@ "detection.nrd" :> [source |-> {NrdFile("file")}]
  @@ Base

WithListen(f, table, socket) == WithTable(f, table, "listen" :> socket)
WithLists(f, lists) == "blocklist" :> lists @@ f

MCStarting ==
  {Base, Full, WithListen(Full, "metrics", Socket(Any4, 9153)),
   WithTable(WithTable(Base, "block_page", Enabled), "blocking", "mode" :> "sinkhole"),
   WithTable(WithTable(Base, "server", "listen_udp" :> <<Socket(Any4, 53)>>),
             "server.rate_limit", "enabled" :> FALSE)}

(* What validation does not see. *)
MCColliding ==
  {WithTable(Base, "server", "listen_udp" :> <<Socket(Any6, 53), Socket(Lan, 53)>>),
   WithListen(Full, "api", Socket(Any4, 80)),
   "policy" :> <<APolicy("default", {"ads"})>>
     @@ WithLists(Base, <<AList("ads") @@ "enabled" :> FALSE>>)}

MCRefused ==
  {"blockliste" :> <<>> @@ Base,
   WithTable(Base, "server", "upstreems" :> 1),
   WithTable(Base, "blocking", "mode" :> "refused"),
   WithTable(Base, "server", [listen_udp |-> <<>>, listen_tcp |-> <<>>]),
   WithTable(Base, "server", "max_inflight" :> 0),
   WithTable(Base, "server.rate_limit", "per_client_qps" :> 0),
   WithTable(Base, "cache", "max_ttl" :> 9),
   WithTable(Base, "cache", "prefetch_threshold" :> 101),
   WithLists(Base, <<AList("ads"), AList("ads")>>),
   WithLists(Base, <<AList("ads") @@ "path" :> {"file"}>>),
   WithLists(Base, <<AList("ads") @@ "refresh" :> 0>>),
   WithLists(Base, <<[name |-> "ads", url |-> {"https"}]>>),
   WithTable(Base, "detection.dga", "threshold" :> 101),
   WithTable(Base, "detection.tunneling", "window" :> 0),
   WithTable(Base, "detection.typosquat", "protect" :> {<<"bank">>}),
   WithTable(Base, "privacy.odoh", [enabled |-> TRUE, proxy |-> {"https"}]),
   WithTable(Full, "privacy.odoh", "proxy" :> {"http"}),
   "upstream_pool" :> <<>> @@ Base,
   "upstream_pool" :> PoolOf(<<>>) @@ Base,
   "upstream_pool" :> PoolOf(<<Resolver("udp", Public)>>) @@ Base,
   "upstream_pool" :> PoolOf(<<[Resolver("tls", Public) EXCEPT !.addr.ip = {}]>>) @@ Base,
   "upstream_pool" :> PoolOf(<<[name |-> "one", addr |-> Upstream("tls", {Public})]>>) @@ Base,
   "upstream_pool" :> <<PoolOf(<<Resolver("tls", Public)>>)[1] @@ "fanout" :> {2}>> @@ Base,
   "client" :> <<AClient("net", "default")>> @@ Base,
   "client" :> <<AClient("bad", "kids")>> @@ Full,
   "policy" :> <<APolicy("default", {"gone"})>> @@ Base,
   "policy" :> <<APolicy("default", {"ads"}) @@ "schedule" :> <<Weekend(600, 600)>>>> @@ Base,
   "policy" :> <<APolicy("default", {"ads"}) @@ "regex" :> <<"bad">>>> @@ Base,
   WithListen(Full, "api", Socket(Loopback, 9153)),
   WithTable(Full, "metrics", "path" :> [slash |-> FALSE]),
   WithListen(Full, "metrics", Socket(Lan, 80)),
   WithListen(Full, "block_page", Socket(Any4, 53)),
   WithTable(Full, "blocking", "mode" :> "nxdomain"),
   WithTable(Full, "blocking", "sinkhole_ipv4" :> Any4),
   "forward_zone" :> <<AForward("udp", Public)>> @@ Full,
   "local_zone" :> <<AZone(<<"home">>), AZone(<<"home">>)>> @@ Full,
   "local_zone" :> <<AZone(<<"fritz", "box">>)>> @@ Full}

MCStarts == MCStarting \cup MCColliding \cup MCRefused

(* At a reload the file holds the same, another one, one without lists, or *)
(* one that is refused.                                                    *)
MCNewConfigs == {Base, Full, WithLists(Base, <<>>), "blockliste" :> <<>> @@ Base}

-----------------------------------------------------------------------------
(***************************************************************************)
(* Values for Typosquat -- labels of one to three characters, of which one *)
(* looks like another, and protected domains that look like each other --  *)
(* and for Tunneling: three subdomains of one zone, one of another.        *)
(***************************************************************************)
MCConfusable == "O" :> "o"

A == <<"a">>
B == <<"b">>
AB == <<"a", "b">>
BA == <<"b", "a">>
OAB == <<"o", "a", "b">>
TypoLabels == {A, B, AB, BA, <<"o">>, <<"O">>, OAB, <<"b", "o", "a">>}

MCTypoQuestions ==
  {<<l>> : l \in TypoLabels} \cup {<<l, k>> : l, k \in TypoLabels}
  \cup {<<l, k, m>> : l, k, m \in {A, AB, B}}

(* One domain; two that are a swap apart; one of three labels. *)
MCProtects ==
  {<<<<l, k>>>> : l, k \in {A, AB, OAB}}
  \cup {<< <<AB, A>>, <<BA, A>> >>, << <<A, B, A>> >>}

Observed(name, entropy, txt) == [name |-> name, entropy |-> entropy, length |-> 20, txt |-> txt]

MCObservations ==
  {Observed(<<s, "x", "at">>, 4000, FALSE) : s \in {"s1", "s2", "s3"}}
  \cup {Observed(<<"s1", z, "at">>, 3000, TRUE) : z \in {"y", "ok"}}
  \cup {Observed(<<"x", "at">>, 1, FALSE)}

MCAllowed == {<<"ok", "at">>}

-----------------------------------------------------------------------------
(***************************************************************************)
(* Values for Api: a file of before, of another hand or none at all; and   *)
(* what people write.                                                      *)
(***************************************************************************)
TokenFile(is, text, open) == [is |-> is, was |-> is, text |-> text, open |-> open]
MCTokenFiles ==
  {TokenFile("missing", 0, FALSE), TokenFile("binary", 0, TRUE),
   TokenFile("text", 0, TRUE), TokenFile("text", 9, TRUE)}

MCWritten ==
  {[name |-> "a", blank |-> FALSE], [name |-> "b", blank |-> FALSE], [name |-> "", blank |-> TRUE]}
MCHostHeaders ==
  {[given |-> TRUE, parses |-> TRUE, name |-> n] : n \in {"a", ""}}
  \cup {[given |-> FALSE, parses |-> FALSE, name |-> ""]}
MCCauses == "a" :> "list"

-----------------------------------------------------------------------------
(***************************************************************************)
(* Values for Ratelimit: two hosts of one IPv6 network, and a host of IPv4 *)
(* with two addresses.                                                     *)
(***************************************************************************)
HomeAddress == [family |-> "v6", net |-> "home", host |-> "phone"]
OldAddress == [family |-> "v4", net |-> "old", host |-> "tv"]

MCAddresses ==
  {HomeAddress, [HomeAddress EXCEPT !.host = "laptop"],
   OldAddress, [OldAddress EXCEPT !.family = "mapped"]}

-----------------------------------------------------------------------------
(***************************************************************************)
(* Values for Upstreams: requests with and without options of the client's *)
(* own, each with its four bytes of head.                                  *)
(***************************************************************************)
ARequest(base, options) ==
  [id |-> "client", question |-> "x", edns |-> options # <<>>, base |-> base,
   options |-> options, ours |-> 0, mixed |-> FALSE, key |-> {}]

MCRequests ==
  {ARequest(29, <<>>), ARequest(30, "ecs" :> 11 @@ "padding" :> 7), ARequest(20, "cookie" :> 12)}

MCSettings ==
  [strip_ecs : BOOLEAN, padding : BOOLEAN, cookies : BOOLEAN, dns0x20 : BOOLEAN]
=============================================================================
