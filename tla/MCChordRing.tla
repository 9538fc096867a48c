---------------------------- MODULE MCChordRing ----------------------------
(***************************************************************************)
(* ChordRing for TLC.  The configurations give the constants; identifiers  *)
(* are numbers with an order, so there is no symmetry to use.              *)
(***************************************************************************)
EXTENDS ChordRing
=============================================================================
