--------------------------- MODULE MCShardCtrler ---------------------------
(***************************************************************************)
(* Instances of ShardCtrler for TLC.                                       *)
(***************************************************************************)
EXTENDS ShardCtrler

CONSTANTS s1, s2

\* Every clerk has the servers in the same order; the leader may be either.
SameOrder == [c \in Clients |-> <<s1, s2>>]
=============================================================================
