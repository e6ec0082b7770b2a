--------------------------- MODULE MCCacheTtlRun ---------------------------
(***************************************************************************)
(* Settings and responses for CacheTtlRun: every order of min_ttl, max_ttl *)
(* and max_negative_ttl, and TTLs below, between and above them, with and  *)
(* without serve_stale.                                                    *)
(***************************************************************************)
EXTENDS CacheTtlRun, TLC

Bounds == {0, 2}

MCConfigs ==
  [minTtl : Bounds, maxTtl : Bounds, maxNegativeTtl : Bounds \cup {1},
   serveStale : BOOLEAN, serveStaleMax : {1}]

(* Settings as they are shipped: min_ttl <= max_negative_ttl <= max_ttl. *)
MCOrderedConfigs ==
  {c \in MCConfigs : c.minTtl <= c.maxNegativeTtl /\ c.maxNegativeTtl <= c.maxTtl}

Reply(rcode, ttls, soa) ==
  [tc |-> FALSE, rcode |-> rcode,
   answers |-> {[opt |-> FALSE, ttl |-> t] : t \in ttls}, soa |-> soa]

(* Two records of different TTLs; a name that does not exist, with a CNAME *)
(* that leads to it; no data; and what is not kept at all.                 *)
MCResponses ==
  {Reply("NoError", {1, 3}, {}),
   Reply("NXDomain", {1}, {[ttl |-> 3, minimum |-> 2]}),
   Reply("NoError", {}, {[ttl |-> 1, minimum |-> 3]}),
   Reply("NoError", {}, {}),
   [Reply("NoError", {3}, {}) EXCEPT !.tc = TRUE]}

(* The calls are interchangeable. *)
Symmetry == Permutations(Threads)
=============================================================================
