---------------------------- MODULE MCChordFiles ----------------------------
(***************************************************************************)
(* Instances of ChordFiles for TLC.                                        *)
(***************************************************************************)
EXTENDS ChordFiles

\* keyToLook(0, h) and keyToLook(200, h): 2^200 is a multiple of the key
\* space.  With one key less the list has four entries in place of six.
TwoKeys == <<1, 0>>

\* The key space of the smaller rings is too small for a second key to have
\* homes of its own: the first and the last of the three keys, taken as one.
OneKey == <<0>>
=============================================================================
