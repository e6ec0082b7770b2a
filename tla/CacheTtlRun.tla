---------------------------- MODULE CacheTtlRun ----------------------------
(***************************************************************************)
(* One key of the answer cache under every accepted configuration: threads *)
(* insert responses and look them up while a clock finer than the cache's  *)
(* whole seconds moves on.  Both operations read the clock before they     *)
(* take the shard's mutex, so that a lookup may meet an entry younger than *)
(* its own idea of the time.  What is asked is what a client is told.      *)
(***************************************************************************)
EXTENDS CacheTtl

CONSTANTS
  Configs,    \* the cache settings a config file may hold
  Delivered,  \* the responses an upstream may deliver
  Threads,    \* bound: calls of insert and get under way at a time
  Second,     \* ticks of the clock in a second
  MaxClock    \* bound: the clock stops here

ASSUME TtlAssumption ==
  /\ Configs \subseteq Config
  /\ Delivered \subseteq Response
  /\ NoTtl \notin Nat /\ Panic \notin Nat
  /\ Second \in Nat \ {0} /\ MaxClock \in Nat

VARIABLES
  config,   \* the settings this process runs with
  clock,    \* the monotonic clock, in ticks
  slot,     \* what the shard holds for the key: nothing or one entry
  looking,  \* thread -> the clock it read, on its way to the mutex in get
  placing,  \* thread -> the entry it made, on its way to the mutex in insert
  handed,   \* history: the hit that this step has handed out, if it has
  up        \* FALSE once a panic ended the process (profile release: abort)

ttlVars == <<config, clock, slot, looking, placing, handed, up>>

Kept == [response : Response, storedAt : Nat, ttl : Nat]

TtlInit ==
  /\ config \in {c \in Configs : Accepted(c)}
  /\ clock = 0
  /\ slot = {}
  /\ looking = [t \in Threads |-> {}]
  /\ placing = [t \in Threads |-> {}]
  /\ handed = {}
  /\ up = TRUE

Unoccupied(t) == looking[t] = {} /\ placing[t] = {}

ClockTicks ==
  /\ clock < MaxClock
  /\ clock' = clock + 1
  /\ handed' = {}
  /\ UNCHANGED <<config, slot, looking, placing, up>>

(* Cache::insert of response r, up to the mutex: its TTL is computed first.*)
InsertStarts(t, r) ==
  LET ttl == CacheableTtl(config, r)
      e == [response |-> r, storedAt |-> clock, ttl |-> ttl]
  IN  /\ Unoccupied(t)
      /\ placing' = IF ttl \in Nat THEN [placing EXCEPT ![t] = {e}] ELSE placing
      /\ up' = (ttl # Panic)
      /\ handed' = {}
      /\ UNCHANGED <<config, clock, slot, looking>>

(* ... and under it. *)
InsertEnds(t) ==
  /\ placing[t] # {}
  /\ slot' = placing[t]
  /\ placing' = [placing EXCEPT ![t] = {}]
  /\ handed' = {}
  /\ UNCHANGED <<config, clock, looking, up>>

(* Cache::get, up to the mutex ... *)
GetStarts(t) ==
  /\ Unoccupied(t)
  /\ looking' = [looking EXCEPT ![t] = {clock}]
  /\ handed' = {}
  /\ UNCHANGED <<config, clock, slot, placing, up>>

(* secs(now.saturating_duration_since(stored_at)) *)
WholeSeconds(at, storedAt) == IF at < storedAt THEN 0 ELSE (at - storedAt) \div Second

HitFor(e, at) ==
  [entry |-> e, at |-> at,
   told |-> HandedTtl(config, WholeSeconds(at, e.storedAt), e.ttl),
   stale |-> ~Fresh(WholeSeconds(at, e.storedAt), e.ttl)]

(* ... and under it: a hit, or nothing, and an expired entry is dropped. *)
GetEnds(t) ==
  LET hits == {HitFor(e, at) : e \in slot, at \in looking[t]}
  IN  /\ looking[t] # {}
      /\ handed' = {h \in hits : h.told # NoTtl}
      /\ slot' = IF handed' = {} THEN {} ELSE slot
      /\ looking' = [looking EXCEPT ![t] = {}]
      /\ UNCHANGED <<config, clock, placing, up>>

(* The put of another key of the shard pushes this one out. *)
Evicted ==
  /\ slot # {}
  /\ slot' = {}
  /\ handed' = {}
  /\ UNCHANGED <<config, clock, looking, placing, up>>

TtlNext ==
  /\ up
  /\ \/ ClockTicks \/ Evicted
     \/ \E t \in Threads :
          \/ \E r \in Delivered : InsertStarts(t, r)
          \/ InsertEnds(t) \/ GetStarts(t) \/ GetEnds(t)

TtlSpec == TtlInit /\ [][TtlNext]_ttlVars

-----------------------------------------------------------------------------
(* The type invariant of the state machine. *)
TtlTypeOK ==
  /\ config \in Config
  /\ clock \in Nat
  /\ slot \subseteq Kept
  /\ looking \in [Threads -> SUBSET Nat]
  /\ placing \in [Threads -> SUBSET Kept]
  /\ up \in BOOLEAN

IsNegative(r) == r.rcode = "NXDomain" \/ r.answers = {}

(***************************************************************************)
(* A negative answer never outlives max_negative_ttl, and nothing outlives *)
(* max_ttl: whatever the upstream claims, the operator's ceilings hold.    *)
(* The ceilings of the two branches of cacheable_ttl are easily swapped.   *)
(***************************************************************************)
CeilingsHold ==
  \A e \in slot :
    e.ttl <= (IF IsNegative(e.response) THEN config.maxNegativeTtl ELSE config.maxTtl)

(* For how many seconds the upstream lets the response be kept: the TTLs   *)
(* of its answer records or, of a negative answer (RFC 2308 section 5), the *)
(* SOA's own TTL and its MINIMUM.                                          *)
GrantedSeconds(r) ==
  IF IsNegative(r) THEN {Soa(r).ttl, Soa(r).minimum} ELSE RecordTtls(r)

(***************************************************************************)
(* What a client is told.  Each limit that the upstream has set, raised to *)
(* min_ttl where the operator wants more, counts from the insertion, and:  *)
(* a fresh hit tells no client that a record lives as long as a second     *)
(* beyond any of them (the rest of a second that has begun is not          *)
(* counted off); a stale hit exists only where serve_stale wants it, says  *)
(* STALE_TTL, and only before serve_stale_max has passed since the         *)
(* earliest of them.  Whatever the order of the clock readings and of the  *)
(* turns at the mutex (Cache::get, Cache::insert, with_ttl).               *)
(***************************************************************************)
ToldFor(h, granted) ==
  LET limit == IF granted < config.minTtl THEN config.minTtl ELSE granted
  IN  IF h.stale
      THEN /\ config.serveStale /\ h.told = StaleTtl
           /\ h.at < h.entry.storedAt + (limit + config.serveStaleMax) * Second
      ELSE h.at + h.told * Second < h.entry.storedAt + (limit + 1) * Second

HitsTellNoMoreThanWasGranted ==
  \A h \in handed : \A granted \in GrantedSeconds(h.entry.response) : ToldFor(h, granted)

(***************************************************************************)
(* A configuration that passed validation never ends the process: config.rs*)
(* rejects a setting that "would make the update scheduler panic", as a    *)
(* panic ends the whole process in the release profile.                    *)
(***************************************************************************)
AcceptedConfigNeverPanics == up
=============================================================================
