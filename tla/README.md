# AlpenDNS verification

TLA+ modules for AlpenDNS, a filtering, caching DNS forwarder written in Rust
(`src/crates/alpendns/src`): what its parts do, what TLC checks of
them on small instances, and what TLAPS proves for every value of the constants.
Paths below are relative to `src/crates/alpendns/src` unless they begin with `src/`.

1. [The system](#1-the-system)
2. [The modules and the code](#2-the-modules-and-the-code)
3. [Runs, bounds and fairness](#3-runs-bounds-and-fairness)
4. [Proofs](#4-proofs)
5. [Findings](#5-findings)
6. [Disagreements seen while modelling](#6-disagreements-seen-while-modelling)
7. [Not modelled](#7-not-modelled)
8. [Plan](#8-plan)

## 1. The system

A query arrives over UDP or TCP (`server/`), passes the rate limiter, is decoded
and goes down a stack of layers that share one trait, `Resolver`: policies with
the detectors (`policy/mod.rs`, `detect/`), the answer cache (`caching.rs`), local
zones (`local.rs`), zone routing (`router.rs`), and below it either the servers of
a forwarded zone in their order (`resolve.rs`, `upstream/mod.rs`) or a pool of
upstreams (`upstream/pool.rs`), each with one shared connection
(`upstream/transport.rs`) or an oblivious target behind a proxy
(`upstream/odoh.rs`). The answer comes back up the same way with a DNSSEC verdict
(`dnssec.rs`); policies look at it once more, and the query log records the
outcome. Beside the queries run background tasks: the updater that downloads
filter lists, the task that reloads on SIGHUP, refreshes of cached answers, the
pool's rotation, the flush of the query log, the sampler of the history, and the
HTTP interfaces for people and for metrics.

All of it runs on tokio's multi-threaded runtime: between two critical sections
of one task any other may run, and at every `.await` a task may stop for long or
be dropped.

| Component | State it keeps | Operations | Meets others through | Hard behaviour | Correct when |
|---|---|---|---|---|---|
| Answer lifetime (`cache.rs`) | the entry of a key | `cacheable_ttl`, `validate`, what `get` and `with_ttl` make of an entry | clock, shard mutex | corner cases of three limits and several TTLs; the clock read before the lock | never panics, keeps within ceilings, tells no client more than was granted |
| Answer cache, failure memory, inflight table (`cache.rs`, `caching.rs`) | a sharded LRU; failures with lockouts; key -> broadcast sender | `get`, `insert`, `is_fresh`, `record`, `forget`, `claim`, `release`, `Drop` of the leader, refresh | three mutexes, never two at a time; broadcast channels | interleavings between critical sections, dropped futures, eviction | one resolution per key, every follower told, answers never go back, lockouts earned and bounded |
| Upstream pool (`upstream/pool.rs`, `strategy.rs`) | per upstream an atomic failure counter and a deadline behind a mutex; the zone seed | `resolve`, `order`, `record_success`, `record_failure`, `rotate_to` | shared health, called by the cache's leaders | two-step updates of the health, order fixed before it is used | no upstream left out, questions stay with their zone's upstream |
| Connection to an upstream (`upstream/transport.rs`) | one connection behind an async mutex | `exchange`, `connect`, `invalidate` | queries share connection and mutex | mutex held over an await, late failures, exchanges without a timeout | a failed connection is not used again, a query that has a timeout ends, one that hangs holds up nobody else |
| Plain and oblivious upstreams (`upstream/mod.rs`, `odoh.rs`) | cookie, whether a server mirrors case; the target's key | `resolve`, `config`, `fetch_config` | mutexes, one of them held over the fetch | many queries need the key at once; a target that changes its key | one fetch for all who wait, what leaves is what the settings say |
| Messages and privacy options (`dns.rs`, `privacy.rs`) | none | `strip_ecs`, `pad_to_block`, cookies, `check_response` | called by the upstreams | options of the client's own that are there already | what leaves is padded, without subnet, with the client's ids gone |
| List download and disk cache (`filter/source.rs`) | body, temporary and validators' file | `load`, `download`, `fall_back`, `write_cache` | the directory, also used by `alpendns policy test`; the publisher | kill between any two writes, two processes, 304 | no half list, a 304 confirms what is on disk, no older list |
| List parsing and matching (`filter/`) | none after the build | `parse`, `Builder::add`, `lookup` | the engine | three formats, subdomains, what a line is | the line named for a verdict is the one that did it |
| Reload and update (`reload.rs`, `main.rs`, `policy/mod.rs`) | policy source, engine, number of rules, display; a `Notify` | SIGHUP, `reload`, `run_updater`, `load`, `build`, `replace`, `record_loaded` | `ArcSwap`s, `Notify`, the loader | reload in the middle of a cycle, lists that fail, lost wake-ups | rules are of one configuration and whole, display true, reloads tried |
| Policies, clients, schedules, grants (`policy/`, `trace.rs`) | engine, grants and denials with their ends, counters | `evaluate_with`, `inspect_answer`, `explain`, `block_cause`, orders, schedules | `ArcSwap`, mutex of the orders | rules replaced and orders given in the middle of a question; one question counted twice | the human's word goes before the lists', books agree, explanations leave them alone |
| Detectors without state (`detect/dga`, `nrd`, `rebinding`) | tables | `inspect` | called by policies | boundaries of scores and thresholds | what they find is what is configured and there |
| Typosquatting (`detect/typosquat.rs`) | protected domains | `inspect`, `distance`, `skeleton` | called by policies | a distance given up early over three rows | the distance is right, the original is not reported |
| Tunnelling (`detect/tunneling.rs`) | windows per zone behind a mutex | `inspect` | clock, mutex | expiry and eviction, clock read before the lock, a full set | a zone is found only for subdomains it had |
| Listeners (`server/`) | permits, table of clients, tracked tasks, token | accept, admit, refuse, serve, drop guards, shutdown | `Semaphore`, `ClientSlots`, `CancellationToken`, `TaskTracker` | two guards per connection, `select!`, timeouts, shutdown | no place lost, limits kept, drained before return, nobody starved |
| Rate limiter (`ratelimit.rs`) | buckets per client in sharded LRUs | `allow` | clock, shard mutex | clock read before the lock, eviction | no client over its rate |
| Query log and counters (`logging/`) | counters, counts per name, report, ring, file, live stream | `record`, `flush`, `top`, `recent` | atomics and several mutexes, broadcast | count and report under two locks, budget of the stream, two-step reads | names below the threshold stay hidden, sums agree |
| History (`history.rs`) | ring of buckets, last sample | `sample`, `roll` | the counters | a pause of the sampler | growth is shown once and where it belongs |
| Answer times (`latency.rs`, `pool.rs`) | histogram of atomics; window and mean per upstream | `observe`, `percentiles` | atomics read while written, mutex | reads in two passes, lost updates | percentiles cover, a mean lies among its samples |
| A question's way (`server/mod.rs`, `router.rs`, `resolve.rs`, `local.rs`, `dnssec.rs`) | none after start, but the shared cache | `handle_request`, `zone_for`, `resolve`, `apply_verdict`, `for_client` | call the layer below | zones within zones, fallback after which failures, flags of the first who asked | local names stay at home, "secure" means proven |
| API, block page (`api/`) | token and its file, orders | HTTP handlers, `read_or_create_token` | orders, the engine's explanation | crash between writing and tightening a file, orders that end while others are given | the token survives and is closed to others, orders hold as long as told |
| Configuration (`config.rs`) | none | reading, `validate`, notes | everything is built from it | cross-checks between tables | what passes can start |
| Command line, start and end (`main.rs`) | stage of the process, sockets, tasks | `run`, signals, `check`, `policy test` | token, tracker, channels | the updater asks through its own server; signals at any stage; last log lines | nothing served before the rules are there, nothing answered is missing in the log but what the disk refused |
| Clock (`clock.rs`) | none | `now`, `time_sync_hint` | everything with time | - | - |
| Metrics (`metrics.rs`) | none | `render` | reads a snapshot | - | - |

`PROJECT.json` lists every component with its status, and under `hazards` the
places where the code is hard to test, each with the properties that watch it.

## 2. The modules and the code

Every module keeps the same shape: constants with a named assumption, variables,
`Init`, one action per critical section or handler step, `Next`, `Spec`, a type
invariant and the properties. Operators marked *Mutation* are plausible bugs:
each property is shown to fail when the operator it guards against takes the
place of the faithful one. `PROJECT.json` maps every definition to its lines.

| Module | Models | Extends or instantiates |
|---|---|---|
| `CacheTtl` | `cacheable_ttl`, which TTL a hit hands out, and the cache part of `Config::validate` | |
| `CacheTtlRun` | one key: `insert` and `get` by several threads, a clock finer than a second | `CacheTtl` |
| `Cache` | one shard of the LRU: `get`, `put`, freshness, staleness, prefetch | `CacheTtl` |
| `Caching` | `CachingBackend`: cache, failure memory, inflight table, refreshes | `Cache`, `SingleFlight` |
| `SingleFlight` | abstract specification of deduplication, implemented by `Caching` | |
| `Pool` | `Pool::resolve`, passive health, rotation | |
| `UpstreamTimes` | an upstream's window of answer times and its moving mean | |
| `Transport` | `send_checked`, the shared connection and its mutex | |
| `Upstreams` | the privacy options of messages; the plain upstream's cookie and 0x20, the oblivious one's key | |
| `ListCache` | `Loader::load` of one list with a URL, and its files on disk | |
| `Updater` | `reload_on_hangup`, `PolicySource::reload`, `run_updater` | |
| `Names`, `Rules` | names as sequences of labels; list lines, matching, clients' nets, schedules | `Rules` extends `Names` |
| `Detect` | generated names, new registrations, rebinding; which detectors are on | `Names` |
| `Policy` | a question's way through `evaluate_with`, orders, reload, books | `Rules`, `Detect` |
| `Typosquat`, `Tunneling` | the two detectors with an algorithm or a state of their own | `Names` |
| `Listeners` | `tcp::serve`, `handle_connection`, `udp::serve`, `Bound::run` | |
| `Ratelimit` | `allow` over one shard of buckets | |
| `QueryLog`, `History`, `Latency` | `record` with all it writes and what reads it; the sampler's ring; the histogram | |
| `Local`, `Dnssec`, `Path` | local and forwarded zones; verdicts; a packet's way through all layers | `Path` extends the others |
| `Api` | the token over crashes, orders, the block page | |
| `Config` | what the file may hold, its readings and defaults; `Config::validate` | `Local`, `Detect` |
| `Startup` | the process from the configuration to its end | `Config` |
| `Books` | instances of the parts that keep books, and of the times of answers | `QueryLog`, `History`, `Policy`, `Latency`, `UpstreamTimes` |
| `Guards` | with them, instances of the parts that stand between the household and others | `Ratelimit`, `Upstreams`, `Api`, `Tunneling`, `Path`, `Startup` |
| `Parts` | with all of these an instance of the look-alikes; the choice of one part and its behaviour | `Typosquat` |
| `MCListCache`, `MCSockets` | two directories of lists; the listeners beside an upstream's connection | `ListCache`; `Listeners` and `Transport` |
| the other `MC...` | values of the constants for TLC | the modules they are for |
| `...Proofs` | theorems | the module they name; `ListCacheProofs` extends `MCListCache`, `CachingProofs` also `CacheTtlRun` |

`Books`, `Guards` and `Parts` hold an instance of every component that shares no state
with the others. In `Parts` a behaviour belongs to one of these *parts*, and the variables of
all others stand at `Off`. In a run the properties are those of the parts under the
condition that it is their part's turn, so one run answers for twelve components without
multiplying their states. The instances are in three
modules because a proof is about the instances it needs: `BooksProofs`, `GuardsProofs`
and `PartsProofs` prove theorems about `Log!Spec`, `Life!Spec`, `Look!Spec` and so on,
that is, about every behaviour of the part, whatever the others do; and
`PartsAreThemselves` says that what `Parts` shows of a part is such a behaviour. What a
theorem needs of a part's constants is assumed where its instance is. `MCSockets` does the same for the listeners and
an upstream's connection, `MCListCache` for a directory the server has to itself and
one it shares. The prefixes (`limit`, `log`, `day`, `times`, `mean`, `rule`,
`way`, `up`, `web`, `life`, `look`, `flow`) tell whose a variable is.

### Caching

A client's question: `LookupHit`, `LookupHitAndRefresh` or `LookupMiss`
(`cache.get` under the shard's mutex); after a miss `AnswerCachedFailure` or
`PassLockout` (the failure memory's mutex); then `Lead` or `Follow`
(`Inflight::claim`, the table's mutex). A leader awaits the upstream
(`UpstreamAnswers`, `UpstreamFails`), then `ForgetFailure` and `StoreAnswer`, or
`RememberFailure`, and the drop of its `Leader`: `Release` (take the key out of
the table) and `Send` (one message to whoever is subscribed by now). A follower
waits for `Receive`. `Refreshers` are the tasks of `spawn_refresh`, which enter at
`claim` and skip when the key is taken; their number bounds how many exist at a
time. The code spawns without bound, so with all refreshers busy a hit that
would spawn one more waits in the model; nothing checked depends on that hit.

`AbortLeader` and `AbortFollower` drop a future at its `.await`. In the code
queries are not cancelled in normal operation; a future is dropped when the
runtime shuts down, or by a panic in builds that unwind (the release profile
aborts). `Abortable` names the tasks this may happen to.

An answer is its response and the moment the upstream gave it, so two answers to
a question can be told apart by age. `streak` is history: the failures in a row
since the last success. Hit counters and `adopt` (which copies a client's id and
the spelling of its question) are left out. The clock is read in the step that
uses it: for `get` and `is_fresh` the code reads it just before it takes the lock.

`SingleFlight` says what deduplication promises: settling a key frees it and
tells everybody who joined it in one moment. `Caching!Flight` is the refinement:
the code needs two critical sections for this, and followers whose leader is
between the two count as told.

### CacheTtl

Pure operators. `Response` keeps what `cacheable_ttl` reads: the kind of the
answer, the TTLs of the answer's records, TTL and MINIMUM of the SOA. `Panic` is
what `u32::clamp` does when its bounds are crossed. `CacheAssumption` asks for
`min_ttl <= max_negative_ttl`, as in the shipped configuration; without it the
cache panics (section 5). `HandedTtl` is what `get` and `with_ttl` tell a client: the
rest of a fresh entry's TTL, or `STALE_TTL` for one that serve_stale still allows.

`CacheTtlRun` lets threads insert and look up one key. Both operations read the clock
(`InsertStarts`, `GetStarts`) before they take the shard's mutex (`InsertEnds`,
`GetEnds`), so an entry may be younger than the clock of the lookup that meets it,
and an overtaken insert puts the older entry. `Second` is the number of ticks of the
clock in one of the cache's whole seconds. `handed` is the hit of the last step, with
the entry it came from.

### Pool

`Begin` fixes the order of attempts (all health is read at once; the code reads
one upstream after the other, each under its own mutex). `Try` asks the next, and
the upstream answers, fails, or says bogus (ends the walk) or unproven (asks the
next). Success: `ResetCounter` (atomic swap), then `ClearDown`; failure:
`CountFailure` (atomic add), then `MarkDown`: other requests run in between. Which
of the errors is returned is left out, as are latencies and lifetime counters.
`Order` is the zone's order with those that are down at its end (`Among` keeps the
order of some of a sequence's upstreams). `strategy::zone_index` (a hash of seed and zone) is any constant function.

### Transport

Connections are numbered as they are made. `Reuse` and `Connect` take the mutex
and find a connection or none; `Connected` and `NotConnected` end the connect
with the mutex held; `Answer` and `Fail` end the exchange without it;
`Invalidate` takes it again and throws away whatever is there. `known` is
history: the failures reported before a query was asked. `timed` says whether this
upstream is one over DoT, the only kind to whose connection the code gives its
timeout (`transport.rs:286-315`): only there attempts are taken to end. Over DoH and
DoQ a connect or an exchange may last for ever, and what `EveryQueryEnds` says of them
is who else is held up by that: all, by a connect, which has the mutex; nobody, by an
exchange.

### ListCache

One list with a URL. `published` is the publisher's version, `body`, `temp` and
`meta` are the three files, each loader has the validators it sent, the text it
received and where its open handle points. Opening a file cuts it off and is a
step apart from writing; a rename takes open handles of that file with it. Two
writers through different handles may leave a mixed file. `Crash` kills a process
anywhere and leaves the disk as it is: a killed process, not a power failure
(the code does not call fsync). `WriteErrors` says whether the disk may refuse.
Lists from local files, the size limit, the displayed age and the encoding of
file names are left out; two lists whose names differ only in replaced characters
(`a.b`, `a_b`) share one file (`filter/source.rs:177`).

### Updater

Reload task: `Receive`, `Parse` or `Reject`, `Store`, `Notify`; SIGHUPs coalesce.
Update task: `Tick` or `Woken` starts a cycle (`TakeState`, then each enabled list
is `Fetched` or `NotFetched` in any order, `Build` or `BuildFails`, `Replace`,
`Count`, `RecordLoaded`). `wake` is the permit of the `Notify`, which keeps one
notification for a task that is busy. A configuration is a name with the lists
it enables and those its policies refer to; the instance has one whose policies
refer to a disabled list, which validation accepts and every build refuses.
Shutdown of the two tasks is left out.

### Listeners

Per TCP listener a backlog, an accept loop (`Acquire` a permit, `Accept`, `Admit`
or `Refuse` by the client's number), and connections that wait for a prefix, a
body, the resolver and the client to take the answer, or end in every way the
code has: closed, timed out, shut down, write error. The client's slot is
dropped before the permit (`DropSlot`, `DropPermit`), as the guards are. UDP
shares one limit among all sockets. `handle_request` is one step with an answer
or without. `Silent` are clients whose connections may stay for ever: nobody reads what
is written there, or nothing below answers what they ask; neither a write nor a
query over DoH or DoQ has a timeout. That is within what the code bears as long as
they do not fill all places (for the shipped limits: fewer than eight such
addresses).

### Ratelimit

`ReadClock` and the critical section are two steps, as in `allow`: the clock is
read before the shard's mutex is asked for. A thread that is overtaken sets the
time of the last filling back, so that some time is credited twice; `late`, a
history variable, adds up exactly this, and `RateIsKept` says that nothing else
is given away. Fractions of a token are left out.

### QueryLog, History, Latency, UpstreamTimes

`record` is called by many threads; each atomic and each mutex it touches is a
step: `ReadSecond`, `SwapWindow`, `ResetSent`, `TakeBudget` and `Send` for the live
stream, `CountName` and `Report` for the threshold of ADR-0004, `Keep` and
`WriteLine` for the modes that keep names. `Recent` and the three steps of the top
list (`TopReport`, `TopRest`, `TopDone`) read beside them. `History` samples counters
at any distance up to `MaxPause` and rolls its ring. `Latency` is written to while
its percentiles are computed in two passes. `UpstreamTimes` has a mean that two
threads may read and write at once; an update may be lost, a value that is
no mean may not appear.

### Rules, Detect, Policy

Names are sequences of labels; a list is a set of lines in one of three formats,
read by `parse`'s rules for comments, hosts and wildcards. `Policy` follows one
question at a time through `evaluate_with` in the code's order: a grant for this
name or one above it, a denial, the rules, the detectors; then resolution and
`inspect_answer`. Between any two of these the engine may be replaced (`Replace`), the
time may pass, and a human may grant, deny or withdraw. The same evaluation serves
`explain` (which asks the detectors, whose own counters therefore move) and the
block page (which does not). `Log` makes of the trace what `build_event` and the
query log make of it. `held` is history: what a human had ordered for the whole
time a question was decided. `Tested` is `alpendns policy test`.

### Typosquat, Tunneling

`Distance` computes the three rows and gives up early, as the code does; `Reference`
is the definition over prefixes that it is compared with. `Tunneling` keeps windows per zone
with expiry and eviction; `seen` is history, the subdomains that really
fell into a zone's window. Scores are in thousandths.

### Local, Dnssec, Path

`Path` takes a packet from `handle_request`'s refusals through the cache, the local
zones (`LocalAnswer`: the table, DDR, the built-in zones of RFC 6303), the router,
the servers of a zone in their order or the pool, the verdict, the rebinding guard
and `for_client`. Questions meet in the cache only, and one is under way at a
time; `Caching`, `Pool` and `Policy` have the parts in their interleavings. What a
signature proves is external: an outcome comes with its proofs. `CheckTellsTheWay`
compares what `alpendns check` prints of a zone with where its questions go.

### Upstreams

A message is its sizes and options. The library keeps options in a list, to which
`insert` appends and from which `remove` takes all of a code: `pad_to_block` removes
first, `set_cookie` does not, so a cookie of the client's own stays on the wire, before
ours. `options` therefore holds what the options of a code measure together, `ours` how
many cookies are our own. `SendPlain` and `PlainAnswer` are
`ForwardBackend`; `TargetConfig`, `Fetched`, `NotFetched`, `Post` and `PostAnswer` are
`OdohTransport`, with the mutex held over the fetch. `Rotate` is the target changing
its key. `wire` is what a query has put on the wire; `unmirrored` and `late`
are history: whether the server has failed to mirror a name's case, and which queries
were made ready after that.

### Api

A process starts (`Start`), reads or creates the token (`Tighten`, `CutOff`,
`CreateServing`, `Create`, `Write`: one step per file operation, with the permissions
the file has by then), serves, and may be killed anywhere (`End`). An order is told
to its sender with an end (`promised`), and enters the table in a step of its own.

### Config, Startup

A file is a record of tables, which are records of keys; `Filled` and `Complete` fill in
what is not in it, and `Config` has one operator for each part of `validate`. `Startup` is the
order of stages in `run`: load, log, lists, rules, sockets, tasks, endpoints,
updater, signals, serve. A stage ends the process or goes on. Packets wait in the
sockets' queues from the moment they are bound; one of them is the updater's own
question for the host of a list. Until a task has subscribed to it a signal kills
the process. At the end the token is cancelled, and each loop goes on until its own
`select!`, which picks at random, shows it the token (`EndsWithToken`): the readers may
take packets until then, the flusher may be gone while answers are still under way. The
server returns when the readers have ended and nothing is being answered, and the log is
flushed once more (`Stop`). `Record`, `Flush` and `Stop` write to a disk that may refuse:
`lost` counts the lines that are gone for it.

## 3. Runs, bounds and fairness

| Run | Instance | States | Shows |
|---|---|---|---|
| `ttl_decision` | limits of 0 to 2 seconds in the shipped order, with and without serve_stale; 5 responses with TTLs from {1, 2, 3}; 2 threads, half seconds, 9 moments | 541,471 | no hit tells a client more than the upstream granted or min_ttl asks for, a stale one only what serve_stale allows |
| `ttl_panic` | limits in any order | violated | section 5 |
| `caching` | 3 clients, 1 refresh, 1 key, 3 moments | 216,038 | deduplication, wake-ups, monotonic reads, every task ends if the upstream comes back, refinement |
| `caching_full` | 2 clients, 3 keys, shard and memory of 2 | 1,269,546 | lockouts are earned, also with evictions and a full memory |
| `pool` | 2 requests, 2 upstreams, 2 seeds, threshold 2 | 1,773,834 | nobody left out, questions stay home |
| `pool_forgotten` | 1 request, threshold 3 | violated | section 5 |
| `list_cache_alone` | a server alone, 4 versions, any crash; and a directory of 2 processes, 2 versions, crashes, write errors | 127,943 | whole lists, 304s hold, never older, current in the end; in both a 304 has a copy |
| `updater` | 4 configurations, 2 lists | 38,160 | rules whole, display true, reloads tried and followed |
| `sockets` | 3 connections, 2 places, 1 per client, 1 datagram, one silent client; and 2 queries, 3 connections to an upstream with or without a timeout | 16,842 | places counted, drained before return, what can hold up the shutdown, no starvation; failed is not reused, queries with a timeout end, an exchange that hangs holds nobody up |
| `parts` | twelve parts, see below | 981,856 | 15 properties, one to three per part |
| `checked_config` | the part `startup` | violated | section 5 |
| `original` | the part `typosquat` | violated | section 5 |

What is in `parts`, each with its own instance:

| Part | Module | Instance | States | Property |
|---|---|---|---|---|
| `ratelimit` | `Ratelimit` | 2 threads, 4 addresses that share buckets, a shard of 1, burst 2, rate 1, 3 moments, 4 queries | 42,251 | `RateIsKept`: burst plus rate times time, and the time threads were held up |
| `log` | `QueryLog` | 2 threads, 2 names, threshold 2, 1 name counted exactly, 1 message a second, all four modes | 26,991 | `NamesStayHidden`; `ReportsAddUp`: shares of the top list, skipped messages |
| `history` | `History` | 3 buckets of 2, samples up to 6 apart, 11 moments | 2,121 | `BucketsTellTheTime` |
| `latency` | `Latency` | 4 of {0, 5, 1000, 1023, 2^27} microseconds | 10,782 | `TimesAreRight`: percentiles cover what they should |
| `upstream times` | `UpstreamTimes` | 2 threads, window of 2, 4 answers | 10,085 | `TimesAreRight`: window and mean are of answers that were given |
| `policy` | `Policy` | 2 rule sets, 2 hosts, the detectors in several settings, 2 orders, 3 moments | 356,782 | `BooksAgree`, `HumanDecisionsHold` |
| `path` | `Path` | several households of zones, 2 questions in a row | 291,756 | `LocalNamesStayAtHome`, `SecureMeansProven`, `PrivateOnlyAtHome` |
| `upstreams` | `Upstreams` | 2 queries at a time, 3 in all, 2 keys, all sixteen settings, messages with options of their own | 46,472 | `UpstreamsLearnLittle`: one fetch of the key, what leaves is what the settings say |
| `api` | `Api` | 2 requests at a time, 2 starts, 2 orders, files of every kind | 119,319 | `ApiKeepsItsWord`: the token survives, orders hold |
| `startup` | `Startup` | several configurations, 2 rounds of the updater, 1 reload of one of four files | 51,733 | `StartsAndStopsInOrder` |
| `typosquat` | `Typosquat` | protected lists, questions with look-alikes | 1,100 | `DistanceIsRight` |
| `tunneling` | `Tunneling` | 2 threads, 1 window, sets of 2 subdomains, 4 moments | 22,464 | `VolumeIsTrue` |

**Why the bounds are enough.** *ttl_decision*: two threads are an insert and a lookup that
overtake each other, or two inserts; half seconds tell what is cut off from what is not,
and nine moments let an entry be fresh, stale and gone. *caching*: what goes wrong with a key needs a leader,
a follower of it, and somebody who claims between release and send; the refresh
is a fourth task of the other kind. Three moments cover a fresh entry, one that is
fetched ahead and a stale one; entries that expire for good are in *caching_full*,
which does not serve stale answers.  *caching_full*: three keys over two places make every
insert of a third evict, and every failure of a third meet a full memory, with
both expired and running lockouts. *pool*: with two requests each two-step update
meets the other's; with two upstreams the walk has a home and a detour, and the
threshold is passed with `MaxFailures` 3. *list_cache_alone*: alone, four versions let the
disk, the load under way, the loaded list and the publisher all differ; with two
processes two versions suffice to have one on disk and another under way.
*updater*: two lists give a cycle that is part done, and four configurations one
that needs one list, one that needs both, one that cannot be built and one that
is refused. *sockets*: three connections over two places with one per client
reach refusal for the client, for want of a permit, and freed places; a second
listener shares nothing with the first but the token. Two queries
share an upstream's connection and two can be waiting for each other's; three connections
let a late failure throw away the new one and a third take its place.

In *parts* two threads make every pair of steps meet, and limits of one or two
(a shard, a window, a table of counts, a budget) are reached by two or three calls.
*log*: three queries would add a third name to a table already full. *history*: samples up to
the length of the ring apart; the sampler runs every half minute, with buckets of five
minutes.
*policy* has one question at a time, because questions share nothing but counters,
each of them an atomic; what they meet are the orders, the time and the reload, which
may come between any two of its steps. Its values hold a host with a rule of its own beside
its network's, a client whose policy is not there, lists that overlap, and detectors that
lack what they work with. *path*: two questions suffice for one to find in the cache
what the other brought with other flags; the households have local zones in
forwarded ones, forwarded in local, and open ones in closed. *api*: two
orders for a name, of which the later tidies up while the first still holds; two starts, with a crash
between any two steps of the first. *upstreams*: a third query is made ready after the
first two have found out what they can. *startup*: one configuration each for what a stage
can end on. `MaxTime`, `MaxFailures`, `MaxVersion`, `MaxMade`, `MaxAsked`, `MaxOrders`,
`MaxStarts`, `MaxRounds`, `MaxReloads`, `MaxQueries`, `MaxObserved`, `MaxAnswers`,
`MaxInspected`, `MaxCounter`, `MaxPause`, `MaxKeys` and `Refreshers` are bounds of the model, not of the
code; `MaxConnections`, `MaxPerClient` and `MaxInflight` of the listeners, `MaxTracked`,
`StreamMax`, `MaxEntries`, `MaxZones`, `MaxUniqueTracked` and `MaxGrant` are the code's limits with small values.

**Symmetry** is used in `ttl_decision` (threads), `caching_full` (clients, keys), `pool`
(requests) and `parts` (threads), which check invariants only.

**Deadlock** is checked except in `sockets`, where the server
has come to its end when it returned, in `parts` and the two runs of single parts of it,
where a process has stopped or a bound on the calls is reached, and in `ttl_panic`,
where the process has died.

**Fairness**, and why the code justifies it:

- `Caching`: `WF(Proceeds(t))` for every task: the runtime polls a task that can go on.
  That the upstream ever comes back is not assumed, since an exchange over DoH or DoQ
  has no timeout; it is a premise of `EveryTaskEnds`. Nothing
  makes clients ask, nothing makes the clock move.
- `ListCache`: `WF(Proceed(l))`; `SF(Answer(l))`: the publisher is not out of reach
  for ever. `EventuallyCurrent` has the premise that crashes end. It is asked of
  the directory of a server alone; of the shared one only safety is.
- `Updater`: `WF` of the reload task, of the wake-up and of the cycle's steps
  (downloads end within their timeout). Ticks of the interval, a day by
  default, are a premise of `RulesFollow` only; `ReloadIsAttempted` does not use them.
- `Listeners`: `WF` for what the tasks do by themselves. `select!` chooses at random
  among ready branches, so a token that stays cancelled is seen: `SF` of the
  branches for the token. Neither that a query is answered nor that a client takes its
  answer is assumed: `ShutdownEnds` names both as its premise (`NothingHangs`), and
  `QueuedIsAccepted` that the connections of all but the silent clients end.
- `Transport`: `SF(Locks(q))` because tokio's mutex is first come, first served, and
  `WF(timed /\ Ends(q))`: a connect and an exchange end where the code hands its timeout
  to the library, which is for DoT. The second half of `EveryQueryEnds` is about every
  upstream and has the premise that no connect hangs.
- The parts have no fairness: what is said of them is safety.

The type invariants that no theorem is about (`ListCache`, the parts) and
`ShardIsConsistent` hold in the same instances; they are kept beside the properties
of the runs.

## 4. Proofs

tlapm checks every proof to its leaves. The proofs use the named assumptions of the
modules, which say what the code's types and its accepted configuration guarantee,
and nothing else; TLC evaluates them in every run. Where a bound (`MaxTime`, ...) is a
constant it may be any natural number.

| Module | Theorem | For every value of the constants |
|---|---|---|
| `CachingProofs` | `HitsAreGranted`, `Ceilings` | any settings in the shipped order, responses, threads and clock (`TtlSpec`): what `ttl_decision` checks, and the two ceilings |
| | `CacheableTtlType` | the decision is a TTL or a refusal, never a panic, if `min_ttl <= max_negative_ttl` |
| | `TypeCorrect`, `Deduplication`, `NoLostWakeup`, `BoundedMemory` | any tasks, keys, capacities, settings |
| | `NeverGoesBack`, `MonotonicReads` | the cache never goes back, shared answers are cached |
| | `LockoutsEarned` | lockouts are as long as the failures in a row justify |
| | `FlightRefinement` | `Spec` implements `SingleFlight` |
| `PoolProofs` | `TypeCorrect`, `FailOpen`, `SplitByZone` | any upstreams, zones, seeds and courses of failures |
| `ListCacheProofs` | `CopyBehindEveryConfirmation` | any number of processes, crashes, write errors |
| | `WholeLists`, `ConfirmationsHold` | one process (`Alone`), crashes, write errors |
| | `NeverOlderRules` | one process, a disk that takes what is written |
| `UpdaterProofs` | `TypeCorrect`, `NeverUnfiltered`, `DisplayIsTrue` | any configurations and lists |
| `SocketsProofs` | `TypeCorrect`, `PlacesAreNeverLost`, `LimitPerClient`, `ReturnsWhenDrained` | any listeners, clients, connections and limits |
| | `NoFailedConnection` | any tasks and connections to an upstream |
| `BooksProofs` | `NamesHidden`, `ReportsTrue` | any threads, names, threshold, table and budget (`Log`) |
| | `HistoryIsTrue` | any ring and any pauses shorter than it (`Day`) |
| | `TimesTrue` | any durations, threads and size of the window (`Times`, `Mean`) |
| | `BooksTrue`, `OrdersObeyed` | any evaluations at a time, rules, lists, detectors, orders (`Rule`) |
| `GuardsProofs` | `SecureProven`, `GuardHolds`, `StaysAtHome` | any household, names, upstreams and flags (`Way`) |
| | `RateLimit` | any threads, addresses, burst and rate (`Limit`) |
| | `UpstreamsLearn` | any queries, messages and settings (`Up`) |
| | `ApiKeeps` | any requests, orders, files and starts (`Web`) |
| | `VolumeTrue` | any threads, zones and size of a window (`Flow`) |
| | `StartKeepsItsOrder` | any files, packets, signals and refusals (`Life`) |
| `PartsProofs` | `DistanceHolds` | any names, protected domains and limit (`Look`) |
| | `PartsAreThemselves` | `Spec` of `Parts` implements the specification of the part that runs |

The arguments:

- **Caching.** `OneLeaderPerKey` is inductive with `TypeOK`: a key enters the table with
  its leader and leaves it when that leader releases. Followers need `LocalsFit` (a task
  that does not wait has no leader and an empty inbox, so a `Send` reaches only those
  who wait) and then `FollowersWillBeTold` is inductive: a leader changes from `Leading`
  to `sending` and ends with the very step that fills the inboxes. `CacheNeverGoesBack`
  needs `AnswersInOrder`: while a leader holds an answer it has yet to store, no cached
  answer for its key is newer, because only the key's leader stores and there is only
  one. `SharedAnswersAreCached` rests on that, plus `StaysCached`: a step keeps an
  entry, drops it, or replaces it with a younger answer. `Deduplication`'s invariant is
  also what makes the refinement go: a `Release` maps to `Settle` because exactly the
  followers subscribed to this leader are those that have joined its key and have no
  outcome. `BoundedMemory` holds for infinitely many names too: `MemoryInBounds` carries
  finiteness of the remembered names beside their number.
- **Hits.** `Decided` says of an entry, in the shard or on its way there, that its TTL is
  the decision about its response under the settings of the process, and of a hit that it
  is what `get` makes of such an entry. What is left is arithmetic of rounding: whole
  seconds hide less than one second (`LessThanASecondHidden`).
- **Lockouts.** The length of a lockout is a recursive function of the failures in a
  row. That the function exists and grows is shown without an induction over operators:
  a number for which it fails would have a least one, and the order of the naturals is
  well founded.
- **Pool.** A request's `todo` and what it has asked are together all upstreams, as
  sets, so one that has nothing left to try has asked all. `Homely` says of a request's
  place that whom it has asked is passed by, has failed it, or is at work on it, and
  that its zone's own upstream, unless passed by, is still the first to be asked; the
  lemmas about `Among` say what the order begins with.
- **ListCache.** `TagsHaveACopy` (validators on disk or in a request imply a body) holds
  with any number of processes because a body, once there, is never removed
  (`BodyStays`); the theorem is about `Shared!Spec`, the directory of several in
  `MCListCache`. `Ordered`, for a process that is alone: the temporary file holds what
  this load wrote, the body is whole and never newer than what the publisher has, and
  validators are never newer than the body. A 304 says that the validators are the
  publisher's current ones, so body and validators must then be the same version.
  `Remembered`: what was loaded is not newer than what is on disk or about to be; write
  errors break exactly this.
- **Updater.** `Effective` ties `engine`, `entries` and `shown` to the cycle's place,
  and says that a rule set is whole wherever it is, in the display too; the type
  invariant says that a cycle's lists are those of the state it took. `DisplayIsTrue`
  then also says that no list the rules refer to is missing from the display, and that
  an entry lacks its format or age only after its configuration was replaced.
- **Sockets.** `Inv` has four parts: types with finiteness of the table, places counted,
  the limit, and `QueueFits` (a backlog holds each queued connection of its listener
  once), without which `Accept` might move a connection that already holds a place.
  `CountMore` and `CountLess` say what a table of counts is after one more and one less.
  `ReturnsWhenDrained` adds that nobody accepts or receives any more once the tracker is
  waited for. For an upstream's connection, `KnownIsGone`: a connection whose failure
  somebody has reported is not the shared one, because reporting it throws away whatever
  is there, and numbers are not given twice.
- **Sums.** `FoldSet` and its like take the members of a set in an order nobody knows.
  `SumOf` and its lemmas (that the sum exists, that one member may be taken out
  anywhere, what changes when one value does) are proved by induction over the size of a
  finite set, from a well-founded order again.
- **Query log.** `NamesHidden`: a name's count in the table is at most how often it was
  recorded (`CountInv`), and a thread that is about to report a name has it counted that
  far. `ReportsTrue`: what the page names is no more than what had been counted when its
  total was read, because counts are only ever raised and a query is counted in total
  before it is in its name; and for the stream, who was skipped is told, counted for the
  next message, or in the hands of one thread (`UnderWay`).
- **History.** The current bucket began less than a bucket's width before the last
  sample. As the sampler does not pause for longer than the ring, the ring is rolled on
  by exactly the buckets that have begun since, and each holds the sum of what grew in
  its own time.
- **Books.** Between a verdict and the line in the log a question is in one set of books
  and not yet in the other. `Balanced` says what they differ by: what the evaluations
  under way have still to bring, which can be read off their traces and places. What a
  trace is worth does not depend on the rules, so a reload leaves the balance alone.
- **Orders.** `OrdersObeyed` rests on `HumanInv`: of each evaluation, that it began under
  some rules and that its trace opens with what these said of its client (`Told`), that
  what its trace quotes is so of its name and policy (`AllSaid`), that the root goes its
  own way (`Rooted`), and that an order which has held since it began is still in the
  table and keeps it from every place the order forbids (`Obeyed`). A table changes only
  by an order or by time, and both take from `held` what no longer holds. That a quoted
  line says what it is quoted for follows from `FirstWidest`: what is kept of the entries
  for one name is one of them, and every entry was read from its line.
- **A question's way.** `SecureProven`: what is cached or on its way back from the pool
  was judged (`Trusted`), and only the last step takes flags off. `GuardHolds`: an
  answer that is not a server's of a forwarded zone is rightfully what the household
  says of the name or came through the guard (`Rightful`). `StaysAtHome`: a question
  that went out had nothing here that answers it, and went where the router sends it
  (`SentInv`); of nested zones, those that contain a name contain each other, so the
  deepest is one (`WithinEachOther`), and what `check` says of each zone is compared
  case by case.
- **Rate limit.** Per bucket, `Account`: what has passed plus what is in the bucket is
  at most the burst and the rate times the time since it began, with the time that
  threads were held up credited apart. A time read is never in the future, whoever
  overtakes whom.
- **Upstreams.** Who is fetching holds the mutex and there is no key yet (`KeyInv`), so
  there is one successful fetch. `CleanInv` says by a query's place what its message has
  lost and gained; `MixInv` that 0x20 is off for good once the server has failed to mirror a name,
  and that nothing made ready since is mixed.
- **API.** Once somebody has been let in, the file holds the token he has shown and no
  later start writes it (`TokenInv`). A promise that still holds is in the table as it
  was made, and nothing is entered for longer than may be asked for, so tidying up takes
  nothing away (`OrderInv`).
- **Tunnelling.** `Faithful`: the set a window keeps is one of subdomains it really had,
  and it overflows only when it is full.
- **Times.** `TimesInv`: a counter is the number of measurements that fall into its
  bucket (`CountersTell`), and what the reader has summed and walked so far is the sum
  over the buckets it has passed, or less if somebody counted behind it. Counters only
  grow, so the second pass finds at least what the first has summed, and no percentile
  falls back to the last bucket. Buckets are in the order of their times (`BucketOf` is
  monotonic: the table of powers doubles, and within a doubling the offset stays below
  sixteen), so the first bucket that reaches a share is that of the quantile, and its
  upper end is a sixteenth away at most (`CloseIs`). `MeanInv`: the window holds times
  of answers, and a mean that is stored or about to be is between two of them, because
  a quarter of the way from one to another is. A window has a greatest time, so every
  rank up to its length belongs to one of its times (`PickIs`).
- **Distance.** The rows and the table of the definition are recursive functions over
  finite domains; that each exists, and is one, is shown by counting up to the length
  (`Upwards`, `Recursion`) and not by an induction theorem with an operator. `RowIs` then
  says that a row computed from the two before it is the table's. What needs an argument
  is the early end: a swap reaches back two rows and so might undercut a row that is
  above the limit altogether. It cannot, for a cell is at most one more than its left
  upper neighbour; what a swap takes from two rows above is therefore no less than what
  the row between has there, and every cell is either more than the one above it or
  beside it, or not below that neighbour (`CellsLie`, `NoLower`). `FarApart` says the
  same of the check of the lengths.
- **Parts.** A step of another part leaves a part's variables as they are, and which
  part runs never changes; so `Spec` implies the specification of the part that runs
  (`PartsAreThemselves`), and the theorems about the parts are theorems about what the
  run `parts` checks.
- **Start.** A stage is reached only if what those before it are for is there: a file
  that is accepted, lists fetched, rules built, a socket bound, an updater with a
  positive interval (`LifeOrder`); and `LifeRecord`: what was answered is written,
  buffered or lost. `ReachIsAsTold` was stated too strongly at first: that a socket on the block
  page's address is the block page's. A listener of the DNS server may have that very
  address, and then it is not; the attempt at the proof showed it, and the clause now
  speaks of the task that serves the page.

**From what.** `CacheAssumption` and `CachingAssumption` (limits in the order of the
shipped configuration, positive capacities), `PoolAssumption`, `ListCacheAssumption`,
`SharedAssumption`, `UpdaterAssumption`, `ListenersAssumption`, `TransportAssumption`
(types and non-empty sets); `LogAssumption` and `RuleAssumption` (threads are finitely
many, as tasks are), `ListAssumption` (a policy's matchers are built from the lines of
their texts by the parser and nothing else, as `Engine` and `Blueprint` do, and there is
a time of day), `DayAssumption` (the sampler's pause is at most the ring, see
section 6 for what happens otherwise), `LimitAssumption`, `FlowAssumption` (the order of
the detector's constants), `TimesAssumption` and `MeanAssumption` (times are counted in
microseconds, the window has room for one), `UpAssumption` and `WebAssumption` (sizes and times are
unsigned, a file says of itself what it was at first), `WayAssumption` (what the DNSSEC
library hands over: no record is proven without a signature that came with it),
`NamesAssumption` and `LookAssumption` (names are sequences of labels, and these of
characters) and `LifeAssumption` (what a file
holds is read into booleans, lists and numbers).

**Only model-checked:** everything under fairness (`EveryTaskEnds`, `EventuallyCurrent`,
`ReloadIsAttempted`, `RulesFollow`, `ShutdownEnds`, `QueuedIsAccepted`,
`EveryQueryEnds`), since liveness under fairness is beyond the prover. Every safety
property that a run finds to hold is stated by a theorem above.

## 5. Findings

- **`ttl_panic`** (`cache.rs:274`). `soa_ttl.clamp(min_ttl, max_negative_ttl)`
  panics when `min_ttl > max_negative_ttl`. Validation compares `min_ttl` with
  `max_ttl` only. The check beside it (`config.rs:1275-1278`) refuses a setting
  precisely because it would panic later, which with `panic = "abort"` ends the
  whole process. `AcceptedConfigNeverPanics` is violated.
- **`pool_forgotten`** (`upstream/pool.rs:347`). An upstream is marked as down
  when its counter *equals* the threshold. When the window is over and it fails
  again, the counter is above and it is never marked again until it answers
  once. ADR-0012 says that it is skipped after three failed attempts.
  `FailingIsSkipped` is violated.
- **`checked_config`** (`main.rs:1066`). `main.rs:59` says of `alpendns check`: "Exit 0
  means: this start will not fail on the configuration." It loads and builds the
  outline, but neither binds a socket nor puts policies and lists together: two
  listeners on one address, or a policy that names a list that is switched off,
  pass it and end the start. `CheckedConfigStarts` is violated.
- **`original`** (`detect/typosquat.rs:276`). A protected entry of three labels is never
  equal to the registrable domain it is compared with: with `m.sparkasse.at`
  protected, `sparkasse.at` and all below it is reported as a forgery. The comment at 274
  says that the original is never reported. `OriginalIsNeverReported` is violated.

## 6. Disagreements seen while modelling

These are not runs; each is a behaviour of a model that is allowed because the
code has it, and that a comment or a document describes differently.

- `cache.rs:304` against its comment (301-303): one TTL is written into all records, the
  smallest of the answer section (for NXDOMAIN: of the SOA's two numbers). Records of
  the other sections, and CNAMEs before an NXDOMAIN, may be handed out with more time
  than they had, and so may all records of a stale hit (`cache.rs:200`) or under a
  `min_ttl`. `HitsTellNoMoreThanWasGranted` is about what governs the answer, and says
  of these two what they may be told.
- `caching.rs:101` against 169-171: a stale hit starts a refresh without asking
  the failure memory, so a name that is locked out is still asked for.
- `caching.rs:122` against `src/docs/ARCHITECTURE.md:262-263`: a client that missed before
  its leader stored and claims after the leader released asks the upstream again.
  The properties show that the second answer does no harm.
- `upstream/pool.rs:349` against 28-31: a success that falls between counting and
  marking is undone: the late mark puts a working upstream aside for one window.
- `filter/source.rs:492` against 490-491: server and `alpendns policy test` share
  the directory and the name of the temporary file, and together may publish half
  a list; at 503 against 431-432, validators may come to lie beside another list.
- `filter/source.rs:323` against 321-322: after a write that failed, a running
  server falls back to an older list than it has when the publisher is away.
- `filter/mod.rs:153` against `main.rs:673-674`: a list no policy uses that cannot be
  loaded disappears from the display.
- `server/tcp.rs:192` against 46-47 and `src/docs/OPERATIONS.md:704`: all places are served, none is
  kept for refusing; at 147 against `src/docs/OPERATIONS.md:703-704`: the limits are per listener.
- `server/udp.rs:38` against `server/mod.rs:127`: `select!` chooses at random, so
  queries may still be taken after the shutdown has begun. They are answered and logged
  (`StartsAndStopsInOrder`).
- `logging/mod.rs:583`, 598: errors of the query log's writes are thrown away. A line that
  comes when the buffer is full and the disk refuses is lost, as is the last buffer; what
  is refused in between is written later.
- `upstream/transport.rs:266` against 3-6: a query that failed on an old connection
  throws away the healthy new one.
- `policy/clients.rs:24` and 46, "die genaueste Regel gewinnt": rules are ordered by
  their most specific net alone; a rule with a host and a large net comes before others
  for that large net as well.
- `main.rs:186`: of two clients with one name, which validation accepts, `policy test`
  takes the first and the API the last, though the comment speaks of the same choice.
- `main.rs:190`, 894-905, 1351: a client is explained by its first address, and of a net
  by the address it is written with. Where that belongs to a more special client, what
  is explained is that client's policy, under the name of the other. After a reload the
  addresses are still those of the start.
- `main.rs:1264-1281`: `check` calls the server an open resolver also when only the API
  or the metrics listen in public.
- `local.rs:150`: nothing from a closed zone comes from upstream; but an open zone within a
  closed one is answered by the pool, and yet exempt from the rebinding guard.
- `main.rs:1120`: of an open zone at or under `resolver.arpa` it says that names without
  an entry go on to the upstream; they are answered without data (`local.rs`, DDR).
- `upstream/odoh.rs:105-108`: the target's key, once fetched, is kept for good; after the
  target has changed it, queries go on being sealed with the old one. A failed
  fetch is not shared: each who waited fetches anew. An empty failure answer of the
  target is counted against it, while `resolve.rs:46-49` says that such an upstream is passed over
  without a failed attempt to its name.
- `metrics.rs:277`: what is below the threshold is declared a counter and can fall when a
  name comes to be shown. A snapshot may show more blocked than asked (`history.rs`, `logging/`).
- `latency.rs`: the error of at most 6.25 % does not hold below 16 microseconds; values
  over 67 seconds are underestimated.
- `main.rs:610`, 1436: a SIGHUP before the reload task has subscribed kills the process.
- `config.rs:1373`: a policy `default` is asked for only if there are clients; without
  them a configuration whose one policy has another name filters nothing. Of two policies
  with one name the later wins.
- `main.rs:1381-1383`: `policy test` is to say what `/api/explain` says, but its engine
  is built without detectors.
- `policy/temporary.rs`, `api/mod.rs`: an order for a name that is no name (a Unicode
  spelling, any text without blanks) is accepted and never matches.
- `main.rs:972-1000`: a token's file that cannot be read as text is written over, and its
  permissions are tightened at the next start only.
- `detect/tunneling.rs`: zones of three labels among `allow_zones` never match.
  `detect/nrd.rs`: a date in the future is an age of 0; a file that cannot be read leaves
  the detector off without a note of `check`.
- `history.rs:148`: after a pause longer than the ring the start of the current bucket
  lags behind by what was cut off, and the next samples empty the ring again. The
  sampler comes every half minute and its clock is monotonic, which stands still while
  the machine sleeps: only a process that is halted for a day meets this. It is outside
  the model (`MaxPause`), and `BucketsTellTheTime` says nothing of it.
- `local.rs`: a class other than IN goes by the local zones. A forward zone's AD bit is passed on,
  and without validation a cached answer without signatures is given to a client with DO.
- `privacy.rs:222`: a cookie of the client's own stays in what is sent in the clear, and
  stands before ours; the server's cookie that comes back may then be for the client's,
  and is kept as the server's part of our own (`remember_server_cookie`). Over encrypted
  upstreams it passes through like other options of the client's that are neither subnet
  nor padding.
- `upstream/transport.rs:291`: a connect over DoH or DoQ has no timeout of this code's and
  holds the mutex, so one that hangs stops all queries to this upstream; an exchange that
  hangs stops its own query, whoever follows it in `caching.rs`, and a shutdown.
- `config.rs:1399`: with `metrics.enabled = false` its address still collides with the API's.

## 7. Not modelled

- **Metrics**: `render` writes a snapshot down line by line; it keeps no state and
  decides nothing.
- **Texts and wires**: the syntax of TOML, the encoding of messages and their
  truncation, the bytes of keys, HTML, JSON, CSV and what the program prints. Where
  their outcome decides a step it is a nondeterministic choice, or part of the value.
- **Cryptography and protocols of libraries** (DNSSEC validation, TLS, HTTP/2, QUIC,
  ODoH encryption): external. Their outcomes are choices in `Pool`, `Transport`,
  `Upstreams` and `Path`.
- **The UI page**, which is static, and handlers that only show what others keep.
- **Power failure** in `ListCache`; **panics in a task** everywhere but in `ttl_panic`.
- **The numbers of the detectors**: the triples of letters of a generated name are a number per label,
  the entropy of a label is part of what is observed.

More than half of the lines of the source files are unit tests beside the code and
comments; what the map leaves uncovered is mostly these, rendering, and
construction of values that never change.

## 8. Plan

Done, in this order: answer lifetime, cache and deduplication with their abstract
specification, pool, list cache, updater, listeners, connections; then rate limit, query log,
history, answer times, policies with rules and detectors, the way through the
layers, upstreams, the API, configuration, start and end.

Then the proofs, one component after the other, in the order of section 4.

Next, by weight:

1. Composition: `Caching` over `Pool`, with an upstream that is one step there and
   a walk here; `Updater` over `ListCache`, one list's loader per list.
2. An abstract specification of the rate limit (a client's answers in any stretch of time), with
   `Ratelimit` as its implementation.
