--------------------------- MODULE MCChordLookup ---------------------------
(***************************************************************************)
(* Instances of ChordLookup for TLC.                                       *)
(***************************************************************************)
EXTENDS ChordLookup

\* Alone, two members, and three members of whom two are next to each other.
SomeRings == {{3}, {2, 7}, {2, 3, 7}}
=============================================================================
