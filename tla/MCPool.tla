------------------------------- MODULE MCPool -------------------------------
(***************************************************************************)
(* Instances of Pool: one zone, which moves when the seed is redrawn.      *)
(***************************************************************************)
EXTENDS Pool, TLC

CONSTANTS s1, s2, zone

MCSeeds == {s1, s2}
MCZones == {zone}

MCZoneIndex ==
  s1 :> (zone :> 1) @@ s2 :> (zone :> 2)

(* Requests are interchangeable. *)
Symmetry == Permutations(Requests)
=============================================================================
