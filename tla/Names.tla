-------------------------------- MODULE Names --------------------------------
(***************************************************************************)
(* Domain names: sequences of labels, the leftmost first, in small letters *)
(* and without the dot at the end.  The root is the empty sequence.        *)
(***************************************************************************)
EXTENDS Naturals, Sequences, FiniteSets, SequencesExt

Root == <<>>

(* Names and zones compare label by label: notads.com is not in ads.com. *)
Within(name, zone) == IsSuffix(zone, name)

(* The most specific of some zones that contain the name: one at most. *)
Deepest(name, zones) ==
  LET above == {z \in zones : Within(name, z)}
  IN  {z \in above : \A y \in above : Len(y) <= Len(z)}

(* Name::trim_to *)
TrimTo(name, labels) ==
  IF Len(name) <= labels THEN name
  ELSE SubSeq(name, Len(name) - labels + 1, Len(name))
=============================================================================
