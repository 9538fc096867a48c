----------------------------- MODULE ChordKeys -----------------------------
(***************************************************************************)
(* The identifier arithmetic of Lab03/util.go.  An identifier is a [20]byte*)
(* read as a big-endian number, so bytes.Compare is the order of the       *)
(* numbers and the key space has 2^160 members; here it has KeySpace.      *)
(***************************************************************************)
EXTENDS Integers

CONSTANT KeySpace    \* mask of keyToLook: 2^(8*20)

ASSUME KeySpaceAssumption == KeySpace \in Nat \ {0}

Keys == 0 .. (KeySpace - 1)

\* KeyA is located after KeyB: the order of the numbers, not of the ring.
compareKeys(keyA, keyB) == keyA > keyB

sameKey(keyA, keyB) == keyA = keyB

\* Mutant: an interval that wraps around zero is the arc's complement.
BetweenNoWrap(leftBound, rightBound, key) ==
    \/ sameKey(leftBound, rightBound) /\ ~sameKey(key, leftBound)
    \/ compareKeys(rightBound, key) /\ compareKeys(key, leftBound)

\* Mutant: the test for a wrapped interval is used for every interval.
BetweenAlwaysWraps(leftBound, rightBound, key) ==
    compareKeys(key, leftBound) \/ compareKeys(rightBound, key)

keyInBetweenExclusive(leftBound, rightBound, key) ==
    \/ /\ compareKeys(leftBound, rightBound) \/ sameKey(leftBound, rightBound)
       /\ compareKeys(key, leftBound) \/ compareKeys(rightBound, key)
    \/ /\ compareKeys(rightBound, leftBound)
       /\ compareKeys(rightBound, key) /\ compareKeys(key, leftBound)

\* Mutant: the left bound is taken for the right one.
BetweenLeftInclusive(leftBound, rightBound, key) ==
    keyInBetweenExclusive(leftBound, rightBound, key) \/ sameKey(key, leftBound)

keyInBetweenRightInclusive(leftBound, rightBound, key) ==
    keyInBetweenExclusive(leftBound, rightBound, key) \/ sameKey(key, rightBound)

\* Mutant: fingers are counted from 1.
KeyToLookFromOne(index, identifier) == (identifier + 2 ^ (index + 1)) % KeySpace

\* identifier + 2^index, modulo the key space.
keyToLook(index, identifier) == (identifier + 2 ^ index) % KeySpace

-----------------------------------------------------------------------------
(***************************************************************************)
(* The reference: clockwise distances on the ring.                         *)
(***************************************************************************)

\* The steps from a clockwise to b, 0 if they are equal.
Distance(a, b) == IF b >= a THEN b - a ELSE b - a + KeySpace

\* The same, a whole turn if they are equal.
Turn(a, b) == IF a = b THEN KeySpace ELSE Distance(a, b)

\* k lies strictly inside the arc from a clockwise to b.
OnArc(a, b, k) == 0 < Distance(a, k) /\ Distance(a, k) < Turn(a, b)

\* m is the member of ring that is responsible for key h: the first one at or
\* after h.
IsOwner(ring, h, m) ==
    m \in ring /\ \A k \in ring : Distance(h, m) <= Distance(h, k)
=============================================================================
