------------------------------ MODULE CacheTtl ------------------------------
(***************************************************************************)
(* How long the answer cache may keep a response (Cache::cacheable_ttl of  *)
(* cache.rs) and which TTL a hit hands out (Cache::get with with_ttl),     *)
(* together with the part of Config::validate (config.rs) that decides     *)
(* which cache settings the program starts with.  All of it is pure:       *)
(* CacheTtlRun drives it with a clock and every accepted configuration and *)
(* response of a small universe, Cache uses it as it is.                   *)
(*                                                                         *)
(* A response is reduced to what the decision reads: the TC bit, the rcode *)
(* (NoError, NXDomain or anything else), the type and TTL of the answer    *)
(* records and the first SOA of the authority section.                     *)
(***************************************************************************)
EXTENDS Integers, FiniteSetsExt

CONSTANTS
  NoTtl,   \* "do not cache": the None of cacheable_ttl
  Panic    \* u32::clamp with min > max: an assertion failure

Rcodes == {"NoError", "NXDomain", "Other"}

Response == [tc : BOOLEAN, rcode : Rcodes,
             answers : SUBSET [opt : BOOLEAN, ttl : Nat],
             soa : SUBSET [ttl : Nat, minimum : Nat]]

Config == [minTtl : Nat, maxTtl : Nat, maxNegativeTtl : Nat,
           serveStale : BOOLEAN, serveStaleMax : Nat]

(***************************************************************************)
(* Config::validate refuses min_ttl > max_ttl.  max_negative_ttl is not    *)
(* compared with anything.                                                 *)
(***************************************************************************)
Accepted(c) == c.minTtl <= c.maxTtl

(* u32::clamp asserts lo <= hi. *)
Clamp(x, lo, hi) ==
  IF lo > hi THEN Panic ELSE IF x < lo THEN lo ELSE IF x > hi THEN hi ELSE x

Smaller(x, y) == IF x < y THEN x ELSE y

RecordTtls(r) == {a.ttl : a \in {b \in r.answers : ~b.opt}}

(* A positive answer: the smallest TTL of its answer records. *)
PositiveTtl(c, r) == Clamp(Min(RecordTtls(r)), c.minTtl, c.maxTtl)

Soa(r) == CHOOSE s \in r.soa : TRUE

(* A negative answer: what the SOA of its zone grants. *)
NegativeTtl(c, r) ==
  Clamp(Smaller(Soa(r).ttl, Soa(r).minimum), c.minTtl, c.maxNegativeTtl)

CacheableTtl(c, r) ==
  IF r.tc \/ r.rcode = "Other" THEN NoTtl
  ELSE IF r.rcode = "NoError" /\ r.answers # {}
  THEN IF RecordTtls(r) = {} THEN NoTtl ELSE PositiveTtl(c, r)
  ELSE IF r.soa = {} THEN NoTtl ELSE NegativeTtl(c, r)

-----------------------------------------------------------------------------
(* What Cache::get does with an entry whose whole seconds are elapsed. *)

StaleTtl == 30

Fresh(elapsed, ttl) == elapsed < ttl

(* Expired, but still within serve_stale_max of its end. *)
Stale(c, elapsed, ttl) ==
  /\ c.serveStale
  /\ ~Fresh(elapsed, ttl)
  /\ elapsed < ttl + c.serveStaleMax

(* Mutation: every hit is told the TTL of the insertion. *)
InsertedTtl(c, elapsed, ttl) ==
  IF Fresh(elapsed, ttl) THEN ttl
  ELSE IF Stale(c, elapsed, ttl) THEN StaleTtl ELSE NoTtl

(* with_ttl writes this one TTL into every record, whatever it had. *)
HandedTtl(c, elapsed, ttl) ==
  IF Fresh(elapsed, ttl) THEN ttl - elapsed
  ELSE IF Stale(c, elapsed, ttl) THEN StaleTtl ELSE NoTtl
=============================================================================
