----------------------------- MODULE MCCaching -----------------------------
(***************************************************************************)
(* Instances of Caching.  A positive answer whose TTL lasts two seconds,   *)
(* and a response that is not cached at all (SERVFAIL as an answer, not as *)
(* an error).                                                              *)
(***************************************************************************)
EXTENDS Caching, TLC

Positive ==
  [tc |-> FALSE, rcode |-> "NoError", answers |-> {[opt |-> FALSE, ttl |-> 2]},
   soa |-> {}]

ServFail ==
  [tc |-> FALSE, rcode |-> "Other", answers |-> {}, soa |-> {}]

MCResponses == {Positive, ServFail}

MCPositiveOnly == {Positive}

MCCacheConfig ==
  [minTtl |-> 1, maxTtl |-> 2, maxNegativeTtl |-> 1,
   serveStale |-> TRUE, serveStaleMax |-> 1]

MCFreshOnly == [MCCacheConfig EXCEPT !.serveStale = FALSE, !.serveStaleMax = 0]

(* Clients are interchangeable, and so are the slots of refreshes and keys. *)
Symmetry ==
  Permutations(Clients) \cup Permutations(Refreshers) \cup Permutations(Keys)
=============================================================================
