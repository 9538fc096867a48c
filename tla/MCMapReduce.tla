---------------------------- MODULE MCMapReduce ----------------------------
(***************************************************************************)
(* Instances of MapReduce for TLC.                                         *)
(***************************************************************************)
EXTENDS MapReduce, TLC

\* Both map tasks feed partition 0; only the second one feeds partition 1.
EmitsTwoByTwo == (0 :> {0}) @@ (1 :> {0, 1})

\* One map task with keys for the second of two partitions only.
EmitsOneByTwo == (0 :> {1})

Symmetry == Permutations(Workers)
=============================================================================
