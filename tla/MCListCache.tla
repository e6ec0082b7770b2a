----------------------------- MODULE MCListCache -----------------------------
(***************************************************************************)
(* Two cache directories: one of the server alone, on a disk that takes    *)
(* what is written, and one that `alpendns policy test` writes to as well, *)
(* on a disk that may refuse.  A behaviour is one of one of them; the      *)
(* other's variables stay as they were at the start.                       *)
(***************************************************************************)
EXTENDS ListCache

CONSTANTS
  server, cli, \* two processes
  Sharers, SharedMaxVersion, SharedErrors \* those of the shared directory

ASSUME SharedAssumption ==
  /\ SharedMaxVersion \in Nat \ {0}
  /\ SharedErrors \in BOOLEAN

VARIABLES
  shared,  \* which directory it is
  onePublished, oneBody, oneTemp, oneMeta, onePc, oneTag, oneText, oneHandle, oneLoaded

sharedVars ==
  <<onePublished, oneBody, oneTemp, oneMeta, onePc, oneTag, oneText, oneHandle, oneLoaded>>

Shared == INSTANCE ListCache WITH
  Loaders <- Sharers, MaxVersion <- SharedMaxVersion, WriteErrors <- SharedErrors,
  published <- onePublished, body <- oneBody, temp <- oneTemp, meta <- oneMeta,
  pc <- onePc, tag <- oneTag, text <- oneText, handle <- oneHandle, loaded <- oneLoaded

MCInit == shared \in BOOLEAN /\ Init /\ Shared!Init

MCNext ==
  \/ ~shared /\ Next /\ UNCHANGED <<shared, sharedVars>>
  \/ shared /\ Shared!Next /\ UNCHANGED <<shared, vars>>

(* Fairness is asked of the server alone: of the shared directory only     *)
(* safety is, so its behaviours need not be fair.                          *)
MCSpec == MCInit /\ [][MCNext]_<<shared, vars, sharedVars>> /\ Fairness

-----------------------------------------------------------------------------
(* source.rs:431, of the shared directory: see ConfirmedHasACopy. *)
SharedListIsKept == Shared!ConfirmedHasACopy
=============================================================================
