-------------------------------- MODULE Config --------------------------------
(***************************************************************************)
(* The configuration (config.rs): what its file may hold, what holds for   *)
(* what is not in it, how its texts are read, and what a configuration     *)
(* that is read may still get wrong.  Each operator of the last is one     *)
(* part of Config::validate; the order in which it looks only decides      *)
(* which message is shown first, and is left out.                          *)
(*                                                                         *)
(* A file is a function from the tables and the lists of tables in it; a   *)
(* table is a function from the keys in it.  Durations are in seconds,     *)
(* shares in percent, times of day in minutes; a text is a record of what  *)
(* is in it.  An IP address is [family, scope, host], a socket address     *)
(* [ip, port].                                                             *)
(***************************************************************************)
EXTENDS Integers, Sequences, TLC, Local, Detect

-----------------------------------------------------------------------------
(* The file, and what holds for what is not in it (the structures of       *)
(* config.rs, with those of local.rs for a local zone).                    *)
None == {}
OneDay == 24 * 60 * 60

Ip(family, scope, host) == [family |-> family, scope |-> scope, host |-> host]
Socket(ip, port) == [ip |-> ip, port |-> port]

Loopback == Ip("v4", "loopback", 1)
Loopback6 == Ip("v6", "loopback", 1)
Any4 == Ip("v4", "any", 0)

-----------------------------------------------------------------------------
RateLimitDefaults == [enabled |-> TRUE, per_client_qps |-> 100, burst |-> 200, max_clients |-> 8192]
EdnsDefaults == [udp_payload_size |-> 1232]

ServerDefaults ==
  [listen_udp |-> <<>>, listen_tcp |-> <<>>, max_inflight |-> 4096, query_timeout |-> 3]

CacheDefaults ==
  [max_entries |-> 100000, min_ttl |-> 10, max_ttl |-> OneDay, max_negative_ttl |-> 15 * 60,
   serve_stale |-> TRUE, serve_stale_max |-> 3600, prefetch |-> TRUE, prefetch_threshold |-> 85]

LoggingDefaults ==
  [mode |-> "aggregate", ring_seconds |-> 300, aggregate_k |-> 5,
   path |-> "/var/log/alpendns/queries.jsonl"]
OdohDefaults == [enabled |-> FALSE, proxy |-> None]

PrivacyDefaults ==
  [strip_ecs |-> TRUE, padding |-> TRUE, cookies |-> TRUE, dns0x20 |-> TRUE, dnssec |-> TRUE]

BlockingDefaults ==
  [mode |-> "nxdomain", sinkhole_ipv4 |-> Loopback, sinkhole_ipv6 |-> Loopback6,
   cache_dir |-> "/var/cache/alpendns/lists"]

(* The detectors: what is not said otherwise is reported, and not blocked. *)
DetectionDefaults ==
  [dga |-> [action |-> "flag", threshold |-> 75],
   tunneling |-> [action |-> "flag", threshold |-> 75, window |-> 300, allow_zones |-> {}],
   rebinding |-> [action |-> "flag", allow_zones |-> {}],
   typosquat |-> [action |-> "flag", threshold |-> 85, protect |-> {}],
   nrd |-> [action |-> "flag", max_age |-> 30 * OneDay, source |-> None]]

(* Where the table of a detector is in the file. *)
TableOf ==
  [dga |-> "detection.dga", tunneling |-> "detection.tunneling",
   rebinding |-> "detection.rebinding", typosquat |-> "detection.typosquat",
   nrd |-> "detection.nrd"]

ApiDefaults == [enabled |-> FALSE, listen |-> Socket(Loopback, 8053),
                token_file |-> "/etc/alpendns/api.token"]
MetricsDefaults == [enabled |-> FALSE, listen |-> Socket(Loopback, 9153), path |-> [slash |-> TRUE]]
BlockPageDefaults == [enabled |-> FALSE, listen |-> Socket(Any4, 80)]

Tables ==
  {"server", "server.edns", "server.rate_limit", "privacy", "privacy.logging", "privacy.odoh",
   "cache", "blocking", "api", "metrics", "block_page"} \cup {TableOf[d] : d \in Detectors}

TableDefaults == [key \in Tables |->
  CASE key = "server" -> ServerDefaults [] key = "server.edns" -> EdnsDefaults
    [] key = "server.rate_limit" -> RateLimitDefaults
    [] key = "privacy" -> PrivacyDefaults [] key = "privacy.logging" -> LoggingDefaults
    [] key = "privacy.odoh" -> OdohDefaults
    [] key = "cache" -> CacheDefaults [] key = "blocking" -> BlockingDefaults
    [] key = "api" -> ApiDefaults [] key = "metrics" -> MetricsDefaults
    [] key = "block_page" -> BlockPageDefaults
    [] OTHER -> DetectionDefaults[CHOOSE d \in Detectors : TableOf[d] = key]]

-----------------------------------------------------------------------------
(* What may be there several times: the keys with a default, ... *)
PoolDefaults == [strategy |-> "split_by_zone", seed_rotation |-> OneDay, fanout |-> None,
                 resolver |-> <<>>]
ResolverDefaults == [tls_name |-> None]
ZoneDefaults == [ttl |-> 300, fallback |-> "upstream", records |-> <<>>]
ListDefaults == [url |-> None, path |-> None, refresh |-> OneDay, enabled |-> TRUE]
PolicyDefaults == [blocklists |-> {}, allowlists |-> {}, regex |-> <<>>, schedule |-> <<>>]

EntryDefaults ==
  [upstream_pool |-> PoolDefaults, forward_zone |-> <<>>, local_zone |-> ZoneDefaults,
   blocklist |-> ListDefaults, allowlist |-> ListDefaults,
   client |-> <<>>, policy |-> PolicyDefaults]

(* ... and those without. *)
ResolverRequired == {"name", "addr"}
ForwardRequired == {"zone", "upstream"}
ListRequired == {"name", "format"}
ClientRequired == {"name", "match", "policy"}
ScheduleRequired == {"name", "days", "from", "to", "action"}

Required ==
  [upstream_pool |-> {"name"}, forward_zone |-> ForwardRequired, local_zone |-> {"zone"},
   blocklist |-> ListRequired, allowlist |-> ListRequired,
   client |-> ClientRequired, policy |-> {"name"}]

-----------------------------------------------------------------------------
Fits(table, defaults, required) ==
  /\ required \subseteq DOMAIN table
  /\ DOMAIN table \subseteq required \cup DOMAIN defaults

(* deny_unknown_fields: what no structure has is an error, as is what has  *)
(* no default and is not there; only [server] has to be in every file.     *)
FileFits(file) ==
  /\ "server" \in DOMAIN file
  /\ DOMAIN file \subseteq Tables \cup DOMAIN EntryDefaults
  /\ \A key \in DOMAIN file :
       IF key \in Tables THEN Fits(file[key], TableDefaults[key], {})
       ELSE \A i \in DOMAIN file[key] : Fits(file[key][i], EntryDefaults[key], Required[key])

Filled(table, defaults) ==
  [key \in DOMAIN table \cup DOMAIN defaults |->
     IF key \in DOMAIN table THEN table[key] ELSE defaults[key]]

Completed(tables, defaults) == [i \in DOMAIN tables |-> Filled(tables[i], defaults)]

(* What holds: a table that is not in the file is one without keys. *)
Complete(file) ==
  LET given(key) == IF key \in DOMAIN file THEN file[key] ELSE <<>>
  IN  [key \in Tables \cup DOMAIN EntryDefaults |->
         IF key \in Tables THEN Filled(given(key), TableDefaults[key])
         ELSE Completed(given(key), EntryDefaults[key])]

-----------------------------------------------------------------------------
(* is_local_network: where cleartext may go.  A mapped address is not.     *)
LocalScopes == {"loopback", "private", "link"}

IsLocalNetwork(ip) == ip.family # "mapped" /\ ip.scope \in LocalScopes

(* is_local_address: where a listener can be reached from. *)
IsLocalAddress(ip) == ip.scope \in LocalScopes

IsUnspecified(ip) == ip.family # "mapped" /\ ip.scope = "any"

ListenersCollide(a, b) ==
  a.port = b.port /\ (a.ip = b.ip \/ IsUnspecified(a.ip) \/ IsUnspecified(b.ip))

(* parse_host_port: only addresses; a port that is not given is standard.  *)
ParseHostPort(text, standard) ==
  IF text.ip = None THEN None
  ELSE {[ip |-> ip, port |-> IF text.port = None THEN standard
                             ELSE CHOOSE p \in text.port : TRUE] : ip \in text.ip}

StandardPort(scheme) ==
  CASE scheme = "udp" -> 53 [] scheme = "doh" -> 443 [] OTHER -> 853

Schemes == {"udp", "dot", "doh", "doq"}

Scheme(text) ==
  CASE text = "tls" -> "dot" [] text = "quic" -> "doq" [] text = "https" -> "doh"
    [] OTHER -> text

(* UpstreamAddr::try_from: the address, if there is one. *)
UpstreamAddr(text) ==
  LET scheme == Scheme(text.scheme)
  IN  IF scheme \notin Schemes THEN None
      ELSE {[scheme |-> scheme, addr |-> a] : a \in ParseHostPort(text, StandardPort(scheme))}

IsEncrypted(upstream) == upstream.scheme # "udp"

(* UpstreamList: one server or several, never none. *)
UpstreamListReads(texts) ==
  texts # <<>> /\ \A i \in DOMAIN texts : UpstreamAddr(texts[i]) # None

(* Strategy: the strategies that are gone are told apart only in the text. *)
StrategyReads(text) == text = "split_by_zone"

(* Format: what knows exceptions is gone. *)
FormatReads(text) == text \in {"hosts", "domains", "wildcard"}

(* Mode, BlockMode, Action: `refused` is gone, too. *)
ModesRead(c) ==
  /\ c["privacy.logging"].mode \in {"none", "aggregate", "ring", "full"}
  /\ c.blocking.mode \in {"nxdomain", "zero_ip", "sinkhole"}
  /\ \A d \in Detectors : c[TableOf[d]].action \in {"off", "log", "flag", "block"}

(* What serde rejects within a table: texts that are not what they should be, *)
(* and in the tables of a table what is unknown or not there.                 *)
Reads(c) ==
  /\ ModesRead(c)
  /\ \A i \in DOMAIN c.upstream_pool :
       /\ StrategyReads(c.upstream_pool[i].strategy)
       /\ \A r \in Range(c.upstream_pool[i].resolver) :
            Fits(r, ResolverDefaults, ResolverRequired) /\ UpstreamAddr(r.addr) # None
  /\ \A i \in DOMAIN c.forward_zone : UpstreamListReads(c.forward_zone[i].upstream)
  /\ \A list \in Range(c.blocklist \o c.allowlist) : FormatReads(list.format)
  /\ \A i \in DOMAIN c.policy : \A s \in Range(c.policy[i].schedule) :
       Fits(s, <<>>, ScheduleRequired) /\ s.action = "block_all_except_allowlist"

(* typo_hint: the nearest of the known keys, if two edits lead to it. *)
TypoHint(known, distance) ==
  LET near == {k \in known : distance[k] <= 2}
  IN  {k \in near : \A j \in near : distance[k] <= distance[j]}

-----------------------------------------------------------------------------
Distinct(seq) == Cardinality(ToSet(seq)) = Len(seq)

ListenersRight(c) == c.server.listen_udp # <<>> \/ c.server.listen_tcp # <<>>

LimitRight(limit) ==
  limit.enabled => limit.per_client_qps > 0 /\ limit.burst > 0 /\ limit.max_clients > 0

CacheRight(cache) ==
  /\ cache.max_entries > 0 /\ cache.min_ttl <= cache.max_ttl
  /\ cache.prefetch_threshold \in 0 .. 100

(* Mostly block lists and allow lists are gone over in one. *)
Lists(c) == c.blocklist \o c.allowlist

(* ListConfig::validate, and the interval the updater hands to tokio. *)
ListRight(list) ==
  /\ list.enabled => list.refresh > 0
  /\ IF list.url = None THEN list.path # None
     ELSE list.path = None /\ list.url \subseteq {"http", "https"}

ListsRight(lists) ==
  /\ \A i \in DOMAIN lists : ListRight(lists[i])
  /\ Distinct([i \in DOMAIN lists |-> lists[i].name])

(* DetectionConfig::validate *)
DetectionRight(c) ==
  LET tunneling == c["detection.tunneling"]
  IN  /\ \A d \in {"dga", "tunneling", "typosquat"} :
           c[TableOf[d]].threshold \in 0 .. 100
      /\ tunneling.window = 0 => tunneling.action = "off"
      /\ \A name \in c["detection.typosquat"].protect : Len(name) > 1

(* OdohConfig::validate, and that every resolver can be asked that way.    *)
OdohRight(odoh, pools) ==
  odoh.enabled =>
    /\ odoh.proxy = {"https"}
    /\ \A i \in DOMAIN pools : \A r \in Range(pools[i].resolver) :
         \A u \in UpstreamAddr(r.addr) : u.scheme = "doh"

(* UpstreamPool::validate, for the one pool there may be. *)
PoolsRight(pools) ==
  /\ Len(pools) = 1
  /\ \A i \in DOMAIN pools :
       /\ pools[i].resolver # <<>>
       /\ pools[i].fanout = None
       /\ \A r \in Range(pools[i].resolver) :
            /\ \A u \in UpstreamAddr(r.addr) : IsEncrypted(u)
            /\ "tls_name" \in DOMAIN r /\ r.tls_name \ {""} # None

PolicyNames(c) == {c.policy[i].name : i \in DOMAIN c.policy}
ListNames(c) == {list.name : list \in Range(Lists(c))}

(* parse_net: what is neither an address nor a net is "bad" here. *)
ClientsRight(c) ==
  /\ \A client \in Range(c.client) :
       /\ client.match # {} /\ "bad" \notin client.match
       /\ client.policy \in PolicyNames(c)
  /\ c.client # <<>> => "default" \in PolicyNames(c)

Weekdays == {"mon", "tue", "wed", "thu", "fri", "sat", "sun"}
ClockTimes == 0 .. 1439

(* ScheduleEntry::validate *)
ScheduleRight(s) ==
  /\ s.days # {} /\ s.days \subseteq Weekdays
  /\ s.from \in ClockTimes /\ s.to \in ClockTimes /\ s.from # s.to

PoliciesRight(c) ==
  \A policy \in Range(c.policy) :
    /\ policy.blocklists \cup policy.allowlists \subseteq ListNames(c)
    /\ \A s \in Range(policy.schedule) : ScheduleRight(s)

(* The endpoints for people; metrics.listen counts even if it is not used. *)
EndpointsRight(c) ==
  /\ c.metrics.enabled => c.metrics.path.slash
  /\ c.api.enabled => c.api.listen # c.metrics.listen

(* The page a browser is led to instead of a blocked name. *)
BlockPageRight(c) ==
  LET page == c.block_page
  IN  page.enabled =>
        /\ c.blocking.mode = "sinkhole"
        /\ page.listen.ip.family = "v4" /\ page.listen.port # 0
        /\ \A a \in Range(c.server.listen_udp \o c.server.listen_tcp) :
             ~ListenersCollide(page.listen, a)
        /\ c.api.enabled => page.listen # c.api.listen
        /\ c.metrics.enabled => page.listen # c.metrics.listen
        /\ ~IsUnspecified(c.blocking.sinkhole_ipv4) /\ ~IsUnspecified(c.blocking.sinkhole_ipv6)

(* Cleartext goes only to the household's own network. *)
ForwardRight(forward) ==
  \A zone \in Range(forward) : \A text \in Range(zone.upstream) :
    \A u \in UpstreamAddr(text) : ~IsEncrypted(u) /\ IsLocalNetwork(u.addr.ip)

(* A local zone as Local has it. *)
LocalZones(c) ==
  [i \in DOMAIN c.local_zone |->
     [zone |-> c.local_zone[i].zone, closed |-> c.local_zone[i].fallback = "nxdomain",
      records |-> c.local_zone[i].records]]

(* validate_local_zones *)
LocalZonesRight(c) ==
  /\ ~ZonesAreWrong(LocalZones(c))
  /\ \A l \in Range(c.local_zone), f \in Range(c.forward_zone) : l.zone # f.zone

(* Config::validate *)
Validate(c) ==
  /\ ListenersRight(c) /\ c.server.max_inflight > 0 /\ LimitRight(c["server.rate_limit"])
  /\ CacheRight(c.cache) /\ ListsRight(Lists(c)) /\ DetectionRight(c)
  /\ OdohRight(c["privacy.odoh"], c.upstream_pool) /\ PoolsRight(c.upstream_pool)
  /\ ClientsRight(c) /\ PoliciesRight(c)
  /\ EndpointsRight(c) /\ BlockPageRight(c)
  /\ ForwardRight(c.forward_zone) /\ LocalZonesRight(c)

(* Config::load *)
Load(file) == FileFits(file) /\ Reads(Complete(file)) /\ Validate(Complete(file))

-----------------------------------------------------------------------------
(* public_listeners, block_page_is_exposed: what `check` says of the reach. *)
PublicListeners(c) ==
  {a \in Range(c.server.listen_udp \o c.server.listen_tcp)
           \cup (IF c.api.enabled THEN {c.api.listen} ELSE {})
           \cup (IF c.metrics.enabled THEN {c.metrics.listen} ELSE {}) : ~IsLocalAddress(a.ip)}

BlockPageIsExposed(c) == c.block_page.enabled /\ ~IsLocalAddress(c.block_page.listen.ip)

ReachabilityVerdict(c) ==
  IF PublicListeners(c) # {} THEN "one note"
  ELSE IF BlockPageIsExposed(c) THEN "only the block page"
  ELSE "own network"

(* protect_note, nrd_note: detectors that are switched on and find nothing. *)
(* Of the file only the size is looked at.                                  *)
Noted(c) ==
  {d \in {"typosquat"} : c["detection.typosquat"].action # "off"
                            /\ c["detection.typosquat"].protect = {}}
  \cup {d \in {"nrd"} : /\ c["detection.nrd"].action # "off"
                         /\ \A file \in c["detection.nrd"].source :
                              file.state = "missing" \/ file.lines = <<>>}

(* The detectors, as Detect has them. *)
Detection(c) ==
  [d \in Detectors |->
     IF d = "nrd" THEN [action |-> c["detection.nrd"].action, maxAge |-> c["detection.nrd"].max_age,
                        source |-> c["detection.nrd"].source]
     ELSE IF d = "rebinding" THEN c["detection.rebinding"]
     ELSE [c[TableOf[d]] EXCEPT !.threshold = {10 * @}]]

-----------------------------------------------------------------------------
EnabledNames(lists) == {list.name : list \in {l \in Range(lists) : l.enabled}}

(* specs_from_config: lists that are switched off are not loaded at all.   *)
Specs(c) == EnabledNames(Lists(c))

(* The updater's interval: the shortest of the lists', or a day if there   *)
(* are none.                                                               *)
Refresh(c) ==
  LET intervals == {l.refresh : l \in {l \in Range(Lists(c)) : l.enabled}}
  IN  IF intervals = {} THEN OneDay ELSE Min(intervals)

(* RegexRules::compile and build_schedule, which may fail, too. *)
Compiles(policy) == \A p \in Range(policy.regex) : p # "bad"

BuildSchedule(s) ==
  [name |-> s.name, days |-> s.days, from |-> s.from, to |-> s.to]

(***************************************************************************)
(* Blueprint::from_config: without policies there is one that uses every   *)
(* list; of two of the same name the second is kept.                       *)
(***************************************************************************)
FromConfig(c) ==
  LET blueprint(block, allow, schedules) ==
        [blocklists |-> block, allowlists |-> allow, schedules |-> schedules]
      last(n) == CHOOSE i \in DOMAIN c.policy :
                   /\ c.policy[i].name = n
                   /\ \A j \in DOMAIN c.policy : c.policy[j].name = n => j <= i
      configured(p) ==
        blueprint(p.blocklists, p.allowlists,
                  [i \in DOMAIN p.schedule |-> BuildSchedule(p.schedule[i])])
  IN  [compiles |-> \A policy \in Range(c.policy) : Compiles(policy),
       clients |-> c.client,
       policies |->
         IF c.policy = <<>>
         THEN "default" :> blueprint(EnabledNames(c.blocklist), EnabledNames(c.allowlist), <<>>)
         ELSE [n \in PolicyNames(c) |-> configured(c.policy[last(n)])]]

(* Blueprint::build: a policy that names a list that is not loaded. *)
Builds(c, loaded) ==
  \A policy \in Range(c.policy) : policy.blocklists \cup policy.allowlists \subseteq loaded
=============================================================================
