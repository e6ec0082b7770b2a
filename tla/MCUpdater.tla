------------------------------ MODULE MCUpdater ------------------------------
(***************************************************************************)
(* Two lists; configurations that use one list, that use the other and     *)
(* only enable the first, that use a list they have disabled, and one that *)
(* is rejected.                                                            *)
(***************************************************************************)
EXTENDS Updater, TLC

CONSTANTS ads, kids, simple, both, disabled, broken

MCConfigs == {simple, both, disabled, broken}
MCRejected == {broken}
MCLists == {ads, kids}

MCEnabled ==
  simple :> {ads} @@ both :> {ads, kids} @@ disabled :> {ads} @@ broken :> {}

MCUsed ==
  simple :> {ads} @@ both :> {kids} @@ disabled :> {kids} @@ broken :> {}
=============================================================================
