------------------------------- MODULE Cache -------------------------------
(***************************************************************************)
(* The answer cache of cache.rs: one shard of its sharded LRU.  The shards *)
(* share nothing, so one of them, with the keys that hash to it, is the    *)
(* whole behaviour.  Every operation runs under the shard's mutex and is   *)
(* one step.                                                               *)
(*                                                                         *)
(* An answer is the response together with the moment the upstream gave    *)
(* it, which stands for its contents: two answers to the same question     *)
(* differ only in when they were true.                                     *)
(***************************************************************************)
EXTENDS CacheTtl, Sequences, SequencesExt

CONSTANTS
  Keys,           \* cache::Key: name, type and class of a question
  Responses,      \* what an upstream may answer
  None,           \* no entry, no failure, nobody
  ShardCap,       \* entries per shard: max(ceil(max_entries / 16), 1)
  CacheConfig,    \* the TTL bounds, serve_stale and serve_stale_max
  PrefetchNum,    \* cache.prefetch_threshold, a fraction of the TTL:
  PrefetchDen,    \*   PrefetchNum / PrefetchDen
  MaxTime         \* bound: the clock stops here

ASSUME CacheAssumption ==
  /\ ShardCap \in Nat \ {0}
  /\ Responses \subseteq Response
  /\ CacheConfig \in Config
  /\ Accepted(CacheConfig)
  /\ CacheConfig.minTtl <= CacheConfig.maxNegativeTtl
  /\ NoTtl \notin Nat
  /\ PrefetchNum \in Nat /\ PrefetchDen \in Nat \ {0}
  /\ PrefetchNum <= PrefetchDen
  /\ MaxTime \in Nat

Answer == [response : Responses, at : 0..MaxTime]
Entry == [answer : Answer, storedAt : 0..MaxTime, ttl : Nat]

ASSUME NoneAssumption == None \notin Entry

VARIABLES
  now,      \* the clock (clock.rs), in whole seconds as secs() counts them
  entries,  \* the shard's map
  lru       \* its keys, the most recently used first

cacheVars == <<entries, lru>>

CacheInit ==
  /\ now = 0
  /\ entries = [k \in Keys |-> None]
  /\ lru = <<>>

Tick ==
  /\ now < MaxTime
  /\ now' = now + 1

-----------------------------------------------------------------------------
Elapsed(e) == now - e.storedAt

IsFresh(e) == Fresh(Elapsed(e), e.ttl)

IsStale(e) == Stale(CacheConfig, Elapsed(e), e.ttl)

Servable(k) == entries[k] # None /\ (IsFresh(entries[k]) \/ IsStale(entries[k]))

(* The share of its TTL a fresh entry has used reaches the threshold. *)
ShouldPrefetch(e) == Elapsed(e) * PrefetchDen >= PrefetchNum * e.ttl

-----------------------------------------------------------------------------
(* Cache::get finding something to serve: the entry becomes the youngest. *)
GetHit(k) ==
  /\ Servable(k)
  /\ lru' = Cons(k, Remove(lru, k))
  /\ UNCHANGED entries

(* Cache::get finding nothing: an entry past its last deadline is dropped. *)
GetMiss(k) ==
  /\ ~Servable(k)
  /\ entries' = [entries EXCEPT ![k] = None]
  /\ lru' = Remove(lru, k)

(* Mutation: the shard takes one entry too many before it evicts. *)
PutTooMany(k, e) ==
  LET full == entries[k] = None /\ Len(lru) > ShardCap
      kept == IF full THEN [entries EXCEPT ![Last(lru)] = None] ELSE entries
  IN  /\ entries' = [kept EXCEPT ![k] = e]
      /\ lru' = Cons(k, Remove(IF full THEN Front(lru) ELSE lru, k))

(* LruCache::put: a full shard gives up its oldest key for a new one. *)
Put(k, e) ==
  LET full == entries[k] = None /\ Len(lru) >= ShardCap
      kept == IF full THEN [entries EXCEPT ![Last(lru)] = None] ELSE entries
  IN  /\ entries' = [kept EXCEPT ![k] = e]
      /\ lru' = Cons(k, Remove(IF full THEN Front(lru) ELSE lru, k))

(* Cache::insert *)
Store(k, answer) ==
  LET ttl == CacheableTtl(CacheConfig, answer.response)
  IN  IF ttl = NoTtl
      THEN UNCHANGED cacheVars
      ELSE Put(k, [answer |-> answer, storedAt |-> now, ttl |-> ttl])

-----------------------------------------------------------------------------
CacheTypeOK ==
  /\ now \in 0..MaxTime
  /\ entries \in [Keys -> Entry \cup {None}]

(***************************************************************************)
(* The shard is what the lru crate promises: the recency list names each   *)
(* cached key exactly once, and there are never more than the shard holds. *)
(***************************************************************************)
ShardIsConsistent ==
  /\ \A k \in Keys : entries[k] # None <=> \E i \in DOMAIN lru : lru[i] = k
  /\ \A i, j \in DOMAIN lru : lru[i] = lru[j] => i = j
  /\ Len(lru) <= ShardCap
=============================================================================
