------------------------- MODULE ChordLookupProofs -------------------------
(***************************************************************************)
(* Theorems about the identifier arithmetic and the routing of Chord, for  *)
(* every size of the key space, every ring, every length of the tables and *)
(* every content of the successor lists behind the first successor.        *)
(***************************************************************************)
EXTENDS ChordLookup, WellFoundedInduction, TLAPS

-----------------------------------------------------------------------------
(***************************************************************************)
(* Keys.                                                                   *)
(***************************************************************************)

\* The comparisons of keyInBetweenExclusive describe the inside of an arc of
\* the ring; equal bounds stand for the whole ring without the bound.
THEOREM BetweenIsArc ==
  ASSUME NEW a \in Keys, NEW b \in Keys, NEW k \in Keys
  PROVE  keyInBetweenExclusive(a, b, k) <=> OnArc(a, b, k)
  BY KeySpaceAssumption DEF Keys, keyInBetweenExclusive, compareKeys, sameKey,
     OnArc, Distance, Turn

\* If s is the next member after n, s answers for the keys of (n, s].
LEMMA SuccessorOwns ==
  ASSUME NEW R \in SUBSET Keys, NEW n \in R, NEW s \in R, NEW h \in Keys,
         \A k \in R : ~OnArc(n, s, k),
         keyInBetweenRightInclusive(n, s, h)
  PROVE  IsOwner(R, h, s)
<1> SUFFICES ASSUME NEW k \in R PROVE Distance(h, s) <= Distance(h, k)
  BY DEF IsOwner
<1>1. n \in Keys /\ s \in Keys /\ k \in Keys
  OBVIOUS
<1>2. OnArc(n, s, h) \/ h = s
  BY <1>1, BetweenIsArc DEF keyInBetweenRightInclusive, sameKey
<1>3. ~OnArc(n, s, k)
  OBVIOUS
<1> QED BY <1>1, <1>2, <1>3, KeySpaceAssumption DEF OnArc, Distance, Turn, Keys

\* A key that n's successor does not own lies beyond that successor.
LEMMA SuccessorPrecedes ==
  ASSUME NEW n \in Keys, NEW s \in Keys, NEW h \in Keys,
         ~keyInBetweenRightInclusive(n, s, h)
  PROVE  keyInBetweenExclusive(n, h, s) /\ s # n
  BY KeySpaceAssumption DEF keyInBetweenRightInclusive, keyInBetweenExclusive,
     compareKeys, sameKey, Keys

\* A node between n and the key is closer to the key than n.
LEMMA BetweenIsCloser ==
  ASSUME NEW n \in Keys, NEW h \in Keys, NEW k \in Keys,
         keyInBetweenExclusive(n, h, k)
  PROVE  k # n /\ Turn(k, h) < Turn(n, h)
  BY KeySpaceAssumption DEF keyInBetweenExclusive, compareKeys, sameKey, Keys,
     Turn, Distance

-----------------------------------------------------------------------------
(***************************************************************************)
(* findClosestPrecedingNode.                                               *)
(***************************************************************************)

\* A bounded set of integers that is not empty has a greatest element.
LEMMA Greatest ==
  ASSUME NEW lo \in Int, NEW hi \in Int, NEW C \in SUBSET (lo .. hi), C # {}
  PROVE  \E i \in C : \A j \in C : j <= i
<1> DEFINE T == {hi - i : i \in C}
<1>1. T \subseteq Nat /\ T # {}
  OBVIOUS
<1>2. PICK x \in T : \A y \in T : <<y, x>> \notin OpToRel(<, Nat)
  BY <1>1, WFMin, NatLessThanWellFounded
<1>3. \A y \in T : ~(y < x)
  BY <1>1, <1>2 DEF OpToRel
<1>4. PICK i \in C : x = hi - i
  OBVIOUS
<1>5. \A j \in C : j <= i
  <2> SUFFICES ASSUME NEW j \in C PROVE j <= i
    OBVIOUS
  <2>1. hi - j \in T /\ i \in Int /\ j \in Int
    OBVIOUS
  <2> QED BY <1>3, <1>4, <2>1
<1> QED BY <1>5

\* What is found in a table is a candidate of that table.
LEMMA LastCandidateIsCandidate ==
  ASSUME NEW n, NEW h, NEW table, NEW lo \in Int, NEW hi \in Int
  PROVE  LET k == LastCandidate(n, h, table, lo .. hi)
         IN  /\ k # NoNode
                  => Candidate(n, h, k) /\ \E i \in lo .. hi : k = table[i]
             /\ (\E i \in lo .. hi : Candidate(n, h, table[i])) => k # NoNode
<1> DEFINE C == {i \in lo .. hi : Candidate(n, h, table[i])}
           top == CHOOSE i \in C : \A j \in C : j <= i
<1>1. C # {} => top \in C
  BY Greatest
<1>2. LastCandidate(n, h, table, lo .. hi) = IF C = {} THEN NoNode ELSE table[top]
  BY DEF LastCandidate
<1> QED BY <1>1, <1>2 DEF Candidate

LEMMA RingKeys == TypeOK => ring # {} /\ ring \subseteq Keys
  BY LookupAssumption DEF TypeOK

\* With the first successor between n and the key, findClosestPrecedingNode
\* finds a member between n and the key.
LEMMA ClosestIsBetween ==
  ASSUME TypeOK, NEW n \in ring, NEW h \in Keys,
         succ[n][1] \in ring, keyInBetweenExclusive(n, h, succ[n][1])
  PROVE  /\ findClosestPrecedingNode(n, h) \in ring
         /\ keyInBetweenExclusive(n, h, findClosestPrecedingNode(n, h))
<1> DEFINE F == LastCandidate(n, h, finger[n], 0 .. (next[n] - 1))
           S == LastCandidate(n, h, succ[n], 1 .. NumSucc)
<1>1. next[n] \in Int /\ next[n] <= Fingers - 1 /\ Fingers \in Nat /\ NumSucc \in Nat \ {0}
  BY LookupAssumption DEF TypeOK
<1>2. NoNode \notin ring
  BY RingKeys, LookupAssumption DEF Keys
<1>3. F # NoNode => F \in ring /\ keyInBetweenExclusive(n, h, F)
  <2> SUFFICES ASSUME F # NoNode PROVE F \in ring /\ keyInBetweenExclusive(n, h, F)
    OBVIOUS
  <2>1. Candidate(n, h, F) /\ \E i \in 0 .. (next[n] - 1) : F = finger[n][i]
    BY <1>1, LastCandidateIsCandidate
  <2>2. \A i \in 0 .. (next[n] - 1) : finger[n][i] \in ring \cup {NoNode}
    BY <1>1 DEF TypeOK
  <2> QED BY <2>1, <2>2 DEF Candidate
<1>4. S \in ring /\ keyInBetweenExclusive(n, h, S)
  <2>1. Candidate(n, h, succ[n][1]) /\ 1 \in 1 .. NumSucc
    BY <1>1, <1>2 DEF Candidate
  <2>2. S # NoNode
    BY <1>1, <2>1, LastCandidateIsCandidate
  <2>3. Candidate(n, h, S) /\ \E i \in 1 .. NumSucc : S = succ[n][i]
    BY <1>1, <2>2, LastCandidateIsCandidate
  <2>4. \A i \in 1 .. NumSucc : succ[n][i] \in ring \cup {NoNode}
    BY DEF TypeOK
  <2> QED BY <2>2, <2>3, <2>4 DEF Candidate
<1>5. S # NoNode
  BY <1>2, <1>4
<1>6. findClosestPrecedingNode(n, h) =
         IF F = NoNode THEN S ELSE IF compareKeys(F, S) THEN F ELSE S
  BY <1>5 DEF findClosestPrecedingNode
<1> QED BY <1>3, <1>4, <1>6
-----------------------------------------------------------------------------
(***************************************************************************)
(* The inductive invariant.  FixerHash ties the key a fixer looks for to   *)
(* the slot it will fill; Stabilized is what Init grants.                  *)
(***************************************************************************)

FixerHash ==
    \A n \in ring : pc[<<n, "fix">>] \in {"find", "found"}
        => /\ next[n] \in 0 .. (Fingers - 1)
           /\ hash[<<n, "fix">>] = keyToLook(next[n], n)

RouteInv ==
    /\ TypeOK
    /\ Stabilized(ring, succ)
    /\ NoSelfCall
    /\ LookupCorrect
    /\ FixerHash
    /\ FingersCorrect

LEMMA RouteInit == Init => RouteInv
<1> SUFFICES ASSUME Init PROVE RouteInv
  OBVIOUS
<1>1. ring \subseteq Keys /\ 0 \in Keys /\ Fingers \in Nat \ {0}
  BY LookupAssumption, KeySpaceAssumption DEF Init, Keys
<1>2. \A c \in Callers : c[1] \in ring
  BY DEF Callers
<1>3. TypeOK
  <2>1. next \in [ring -> -1 .. (Fingers - 1)]
    BY <1>1 DEF Init
  <2> QED BY <1>1, <1>2, <2>1 DEF Init, TypeOK
<1>4. \A n \in ring : <<n, "fix">> \in Callers
  BY DEF Callers
<1> QED BY <1>3, <1>4 DEF Init, RouteInv, NoSelfCall, LookupCorrect, FixerHash,
     FingersCorrect

\* A forwarded call stays inside the ring and gets closer to its key.
LEMMA ForwardStep ==
  ASSUME RouteInv, NEW c \in Callers, Forward(c)
  PROVE  LET m == findClosestPrecedingNode(at[c], hash[c])
         IN  /\ m \in ring /\ at' = [at EXCEPT ![c] = m] /\ pc' = pc
             /\ Turn(m, hash[c]) < Turn(at[c], hash[c])
<1> DEFINE n == at[c]
           m == findClosestPrecedingNode(n, hash[c])
<1>1. TypeOK /\ n \in ring /\ hash[c] \in Keys /\ ring \subseteq Keys
  BY RingKeys DEF RouteInv, TypeOK
<1>2. succ[n][1] \in ring
  BY <1>1 DEF RouteInv, Stabilized
<1>3. keyInBetweenExclusive(n, hash[c], succ[n][1])
  BY <1>1, <1>2, SuccessorPrecedes DEF Forward
<1>4. m \in ring /\ keyInBetweenExclusive(n, hash[c], m)
  BY <1>1, <1>2, <1>3, ClosestIsBetween
<1>5. m # n /\ Turn(m, hash[c]) < Turn(n, hash[c])
  BY <1>1, <1>4, BetweenIsCloser
<1> QED BY <1>4, <1>5 DEF Forward, sameKey

LEMMA RouteNext == RouteInv /\ [Next]_vars => RouteInv'
<1> SUFFICES ASSUME RouteInv, [Next]_vars PROVE RouteInv'
  OBVIOUS
<1>0. /\ TypeOK /\ ring \subseteq Keys /\ KeySpace \in Nat \ {0}
      /\ Fingers \in Nat \ {0} /\ 0 \in Keys /\ NoNode \notin ring
      /\ \A n \in ring : <<n, "fix">> \in Callers
      /\ \A c \in Callers : c[1] \in ring
  BY RingKeys, LookupAssumption, KeySpaceAssumption DEF RouteInv, Keys, Callers
<1>1. ASSUME NEW c \in Callers, Answer(c) PROVE RouteInv'
  <2> DEFINE n == at[c]
  <2>1. n \in ring /\ succ[n][1] \in ring /\ \A k \in ring : ~OnArc(n, succ[n][1], k)
    BY <1>0 DEF RouteInv, Stabilized, TypeOK
  <2>2. IsOwner(ring, hash[c], succ[n][1])
    BY <1>0, <1>1, <2>1, SuccessorOwns DEF Answer, TypeOK
  <2>3. UNCHANGED <<ring, succ, finger, next, hash, at>> /\ Callers' = Callers
    BY <1>1 DEF Answer, Callers
  <2>4. TypeOK'
    BY <1>0, <1>1, <2>1, <2>3 DEF Answer, TypeOK
  <2>5. \A d \in Callers : d # c => pc'[d] = pc[d] /\ res'[d] = res[d]
    BY <1>0, <1>1 DEF Answer, TypeOK
  <2>6. pc[c] = "find" /\ pc'[c] = "found" /\ res'[c] = succ[n][1]
    BY <1>0, <1>1 DEF Answer, TypeOK
  <2>7. LookupCorrect' /\ NoSelfCall'
    BY <2>2, <2>3, <2>5, <2>6 DEF RouteInv, LookupCorrect, NoSelfCall, IsOwner
  <2>8. FixerHash'
    BY <1>0, <2>3, <2>5, <2>6 DEF RouteInv, FixerHash
  <2> QED BY <2>3, <2>4, <2>7, <2>8 DEF RouteInv, Stabilized, FingersCorrect, IsOwner
<1>2. ASSUME NEW c \in Callers, Forward(c) PROVE RouteInv'
  <2>1. UNCHANGED <<ring, succ, finger, next, hash, res, pc>> /\ Callers' = Callers
    BY <1>2, ForwardStep DEF Forward, Callers
  <2>2. TypeOK'
    BY <1>0, <1>2, <2>1, ForwardStep DEF TypeOK
  <2> QED BY <2>1, <2>2 DEF RouteInv, Stabilized, LookupCorrect, NoSelfCall,
       FixerHash, FingersCorrect, IsOwner
<1>3. ASSUME NEW n \in ring, FixFingerCall(n) PROVE RouteInv'
  <2> DEFINE c == <<n, "fix">>
  <2>1. UNCHANGED <<ring, succ, finger, at, res>> /\ Callers' = Callers /\ c \in Callers
    BY <1>0, <1>3 DEF FixFingerCall, Call, Callers
  <2>2. NextFinger(n) \in 0 .. (Fingers - 1)
    <3>1. next[n] \in -1 .. (Fingers - 1)
      BY <1>0 DEF TypeOK
    <3> QED BY <1>0, <3>1 DEF NextFinger
  <2>3. keyToLook(NextFinger(n), n) \in Keys
    <3> DEFINE p == 2 ^ NextFinger(n)
    <3>1. p \in Nat
      BY <2>2, PowerAssumption
    <3>2. n + p \in Nat
      BY <1>0, <3>1 DEF Keys
    <3> HIDE DEF p
    <3>3. (n + p) % KeySpace \in 0 .. (KeySpace - 1)
      BY <1>0, <3>2
    <3> QED BY <3>3 DEF keyToLook, Keys, p
  <2>4. /\ pc[c] = "idle" /\ pc' = [pc EXCEPT ![c] = "find"]
        /\ hash' = [hash EXCEPT ![c] = keyToLook(NextFinger(n), n)]
        /\ next' = [next EXCEPT ![n] = NextFinger(n)]
    BY <1>3 DEF FixFingerCall, Call
  <2>5. TypeOK'
    <3>1. next' \in [ring -> -1 .. (Fingers - 1)]
      <4>1. NextFinger(n) \in -1 .. (Fingers - 1)
        BY <1>0, <2>2
      <4> QED BY <1>0, <2>4, <4>1 DEF TypeOK
    <3>2. hash' \in [Callers -> Keys]
      BY <1>0, <2>3, <2>4 DEF TypeOK
    <3>3. pc' \in [Callers -> {"idle", "find", "found", "fatal"}]
      BY <1>0, <2>4 DEF TypeOK
    <3> QED BY <1>0, <2>1, <3>1, <3>2, <3>3 DEF TypeOK
  <2>6. \A d \in Callers : d # c => pc'[d] = pc[d] /\ hash'[d] = hash[d]
    BY <1>0, <2>4 DEF TypeOK
  <2>7. pc'[c] = "find" /\ hash'[c] = keyToLook(next'[n], n) /\ next'[n] = NextFinger(n)
    BY <1>0, <2>1, <2>4 DEF TypeOK
  <2>8. LookupCorrect' /\ NoSelfCall'
    BY <2>1, <2>6, <2>7 DEF RouteInv, LookupCorrect, NoSelfCall, IsOwner
  <2>9. FixerHash'
    <3> SUFFICES ASSUME NEW k \in ring, pc'[<<k, "fix">>] \in {"find", "found"}
                 PROVE  /\ next'[k] \in 0 .. (Fingers - 1)
                        /\ hash'[<<k, "fix">>] = keyToLook(next'[k], k)
      BY <2>1 DEF FixerHash
    <3>1. CASE k = n
      BY <2>2, <2>7, <3>1
    <3>2. CASE k # n
      <4>1. <<k, "fix">> # c /\ <<k, "fix">> \in Callers
        BY <1>0, <3>2
      <4>2. next'[k] = next[k]
        BY <1>0, <2>4, <3>2 DEF TypeOK
      <4> QED BY <2>6, <4>1, <4>2 DEF RouteInv, FixerHash
    <3> QED BY <3>1, <3>2
  <2> QED BY <2>1, <2>5, <2>8, <2>9 DEF RouteInv, Stabilized, FingersCorrect, IsOwner
<1>4. ASSUME NEW n \in ring, FixFingerStore(n) PROVE RouteInv'
  <2> DEFINE c == <<n, "fix">>
             i == next[n]
  <2>1. UNCHANGED <<ring, succ, next>> /\ Callers' = Callers /\ c \in Callers
    BY <1>0, <1>4 DEF FixFingerStore, Return, Callers
  <2>2. pc[c] = "found"
    BY <1>4 DEF FixFingerStore, Return
  <2>3. i \in 0 .. (Fingers - 1) /\ hash[c] = keyToLook(i, n)
    BY <2>2 DEF RouteInv, FixerHash
  <2>4. IsOwner(ring, keyToLook(i, n), res[c]) /\ res[c] \in ring
    BY <2>1, <2>2, <2>3 DEF RouteInv, LookupCorrect, IsOwner
  <2>5. finger' = [finger EXCEPT ![n] = [finger[n] EXCEPT ![i] = res[c]]]
    BY <1>0, <1>4 DEF FixFingerStore, TypeOK
  <2>6. [finger[n] EXCEPT ![i] = res[c]] \in [0 .. (Fingers - 1) -> ring \cup {NoNode}]
    BY <1>0, <2>4 DEF TypeOK
  <2>7. finger' \in [ring -> [0 .. (Fingers - 1) -> ring \cup {NoNode}]]
    BY <1>0, <2>5, <2>6 DEF TypeOK
  <2>8. /\ pc' = [pc EXCEPT ![c] = "idle"]
        /\ hash' = [hash EXCEPT ![c] = 0]
        /\ at' = [at EXCEPT ![c] = n]
        /\ res' = [res EXCEPT ![c] = NoNode]
    BY <1>4 DEF FixFingerStore, Return
  <2>9. TypeOK'
    BY <1>0, <2>1, <2>7, <2>8 DEF TypeOK
  <2>10. \A d \in Callers : d # c => pc'[d] = pc[d] /\ hash'[d] = hash[d] /\ res'[d] = res[d]
    BY <1>0, <2>8 DEF TypeOK
  <2>11. pc'[c] = "idle"
    BY <1>0, <2>1, <2>8 DEF TypeOK
  <2>12. LookupCorrect' /\ NoSelfCall' /\ FixerHash'
    BY <1>0, <2>1, <2>10, <2>11 DEF RouteInv, LookupCorrect, NoSelfCall, FixerHash, IsOwner
  <2>13. FingersCorrect'
    <3> SUFFICES ASSUME NEW k \in ring, NEW j \in 0 .. (Fingers - 1),
                        finger'[k][j] # NoNode
                 PROVE  IsOwner(ring, (k + 2 ^ j) % KeySpace, finger'[k][j])
      BY <2>1 DEF FingersCorrect, IsOwner
    <3>1. CASE k = n /\ j = i
      <4>1. finger'[k][j] = res[c]
        BY <1>0, <2>3, <2>5, <3>1 DEF TypeOK
      <4>2. IsOwner(ring, (k + 2 ^ j) % KeySpace, res[c])
        BY <2>4, <3>1 DEF keyToLook
      <4> QED BY <4>1, <4>2
    <3>2. CASE ~(k = n /\ j = i)
      <4>1. finger'[k][j] = finger[k][j]
        BY <1>0, <2>5, <3>2 DEF TypeOK
      <4> QED BY <4>1 DEF RouteInv, FingersCorrect
    <3> QED BY <3>1, <3>2
  <2> QED BY <2>1, <2>9, <2>12, <2>13 DEF RouteInv, Stabilized
<1>5. ASSUME NEW n \in ring \cap Users, NEW h \in Keys, UserCall(n, h) PROVE RouteInv'
  <2> DEFINE c == <<n, "user">>
  <2>1. UNCHANGED <<ring, succ, finger, next, at, res>> /\ Callers' = Callers /\ c \in Callers
    BY <1>5 DEF UserCall, Call, Callers
  <2>2. pc' = [pc EXCEPT ![c] = "find"] /\ hash' = [hash EXCEPT ![c] = h]
    BY <1>5 DEF UserCall, Call
  <2>3. TypeOK'
    BY <1>0, <2>1, <2>2 DEF TypeOK
  <2>4. \A d \in Callers : d # c => pc'[d] = pc[d] /\ hash'[d] = hash[d]
    BY <1>0, <2>2 DEF TypeOK
  <2>5. pc'[c] = "find" /\ \A k \in ring : <<k, "fix">> # c
    BY <1>0, <2>1, <2>2 DEF TypeOK
  <2>6. LookupCorrect' /\ NoSelfCall' /\ FixerHash'
    BY <1>0, <2>1, <2>4, <2>5 DEF RouteInv, LookupCorrect, NoSelfCall, FixerHash, IsOwner
  <2> QED BY <2>1, <2>3, <2>6 DEF RouteInv, Stabilized, FingersCorrect, IsOwner
<1>6. ASSUME NEW n \in ring \cap Users, UserReturn(n) PROVE RouteInv'
  <2> DEFINE c == <<n, "user">>
  <2>1. UNCHANGED <<ring, succ, finger, next>> /\ Callers' = Callers /\ c \in Callers
    BY <1>6 DEF UserReturn, Return, Callers
  <2>2. /\ pc' = [pc EXCEPT ![c] = "idle"] /\ hash' = [hash EXCEPT ![c] = 0]
        /\ at' = [at EXCEPT ![c] = n] /\ res' = [res EXCEPT ![c] = NoNode]
    BY <1>6 DEF UserReturn, Return
  <2>3. TypeOK'
    BY <1>0, <2>1, <2>2 DEF TypeOK
  <2>4. \A d \in Callers : d # c => pc'[d] = pc[d] /\ hash'[d] = hash[d] /\ res'[d] = res[d]
    BY <1>0, <2>2 DEF TypeOK
  <2>5. pc'[c] = "idle" /\ \A k \in ring : <<k, "fix">> # c
    BY <1>0, <2>1, <2>2 DEF TypeOK
  <2>6. LookupCorrect' /\ NoSelfCall' /\ FixerHash'
    BY <1>0, <2>1, <2>4, <2>5 DEF RouteInv, LookupCorrect, NoSelfCall, FixerHash, IsOwner
  <2> QED BY <2>1, <2>3, <2>6 DEF RouteInv, Stabilized, FingersCorrect, IsOwner
<1>7. ASSUME UNCHANGED vars PROVE RouteInv'
  BY <1>7 DEF vars, RouteInv, TypeOK, Stabilized, NoSelfCall, LookupCorrect,
     FixerHash, FingersCorrect, Callers, IsOwner
<1> QED
  BY <1>1, <1>2, <1>3, <1>4, <1>5, <1>6, <1>7 DEF Next, FindSuccessor

LEMMA RouteInvariant == Spec => []RouteInv
  BY RouteInit, RouteNext, PTL DEF Spec

\* The fields of the clients and the locals of findSuccessor keep their types,
\* for every ring and every length of the tables; next is always an index of the
\* finger table.
THEOREM LookupTypes == Spec => []TypeOK
<1>1. RouteInv => TypeOK
  BY DEF RouteInv
<1> QED BY <1>1, RouteInvariant, PTL

\* In every stabilized ring findSuccessor returns the member responsible for
\* the key, whatever the rest of the successor lists and the finger tables
\* hold when a node reads them.
THEOREM LookupIsCorrect == Spec => []LookupCorrect
<1>1. RouteInv => LookupCorrect
  BY DEF RouteInv
<1> QED BY <1>1, RouteInvariant, PTL

\* No node of a stabilized ring forwards a call to itself, so the log.Fatal in
\* ReqFindSuccessor is out of reach.
THEOREM NoNodeCallsItself == Spec => []NoSelfCall
<1>1. RouteInv => NoSelfCall
  BY DEF RouteInv
<1> QED BY <1>1, RouteInvariant, PTL

\* fixFinger only ever stores the member responsible for the finger's key.
THEOREM FingersAreCorrect == Spec => []FingersCorrect
<1>1. RouteInv => FingersCorrect
  BY DEF RouteInv
<1> QED BY <1>1, RouteInvariant, PTL

\* Every forwarding of a call is strictly clockwise towards its key.
THEOREM HopsMakeProgress == Spec => HopProgress
<1> DEFINE Closer == \A c \in Callers : pc[c] = "find" /\ at'[c] # at[c]
                        => Turn(at'[c], hash[c]) < Turn(at[c], hash[c])
<1>1. RouteInv /\ [Next]_vars => [Closer]_vars
  <2> SUFFICES ASSUME RouteInv, Next, NEW d \in Callers, pc[d] = "find", at'[d] # at[d]
               PROVE  Turn(at'[d], hash[d]) < Turn(at[d], hash[d])
    OBVIOUS
  <2>0. TypeOK
    BY DEF RouteInv
  <2>1. ASSUME NEW c \in Callers, Answer(c) PROVE FALSE
    BY <2>1 DEF Answer
  <2>2. ASSUME NEW c \in Callers, Forward(c)
        PROVE  Turn(at'[d], hash[d]) < Turn(at[d], hash[d])
    BY <2>0, <2>2, ForwardStep DEF TypeOK
  <2>3. ASSUME NEW n \in ring, FixFingerCall(n) PROVE FALSE
    BY <2>3 DEF FixFingerCall, Call
  <2>4. ASSUME NEW n \in ring, FixFingerStore(n) PROVE FALSE
    BY <2>0, <2>4 DEF FixFingerStore, Return, TypeOK
  <2>5. ASSUME NEW n \in ring \cap Users, UserReturn(n) PROVE FALSE
    BY <2>0, <2>5 DEF UserReturn, Return, TypeOK
  <2>6. ASSUME NEW n \in ring \cap Users, NEW h \in Keys, UserCall(n, h) PROVE FALSE
    BY <2>6 DEF UserCall, Call
  <2> QED BY <2>1, <2>2, <2>3, <2>4, <2>5, <2>6 DEF Next, FindSuccessor
<1> QED BY <1>1, RouteInvariant, PTL DEF Spec, HopProgress
=============================================================================
