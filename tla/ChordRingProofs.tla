-------------------------- MODULE ChordRingProofs --------------------------
(***************************************************************************)
(* Theorems about ChordRing, for every size of the key space, every ring,  *)
(* all sets of nodes that join it and every length of the successor lists. *)
(* Types; successorLock; who knows whom, if join's write is seen in one    *)
(* piece; what is known under the lock; and crashes in a ring that nobody  *)
(* joins.                                                                  *)
(***************************************************************************)
EXTENDS ChordRing, FiniteSetTheorems, WellFoundedInduction, TLAPS

-----------------------------------------------------------------------------
(***************************************************************************)
(* Types.  While a lookup is under way its path is not empty, and its last *)
(* node is where the lookup runs.                                          *)
(***************************************************************************)

LookupPcs == {"route", "closest", "retry", "check", "update", "answer"}

PathInv == \A j \in Joiners : pc[Join(j)] \in LookupPcs => path[j] # <<>>

TypeInv == TypeOK /\ PathInv

-----------------------------------------------------------------------------
(***************************************************************************)
(* While nobody has died, successors do not lie beyond a member.           *)
(***************************************************************************)

Safe(n, id) == \A m \in Members : ~OnArc(n, id, m)

-----------------------------------------------------------------------------
(***************************************************************************)
(* Keys and lists.                                                         *)
(***************************************************************************)

LEMMA NodeKeys == \A n \in Nodes : n \in Keys /\ n \in Int /\ n # NoNode
  BY RingAssumption, KeySpaceAssumption DEF Keys

LEMMA Fingers ==
  /\ NoFinger \in FingerType /\ NoFinger.Ip = NoNode /\ NoFinger.Id = 0
  /\ \A n \in Nodes : /\ Finger(n) \in FingerType /\ Finger(n) # NoFinger
                      /\ Finger(n).Ip = n /\ Finger(n).Id = n
<1>1. 0 \in Keys
  BY KeySpaceAssumption DEF Keys
<1>2. NoFinger \in FingerType /\ NoFinger.Ip = NoNode /\ NoFinger.Id = 0
  BY <1>1 DEF NoFinger, FingerType
<1>3. ASSUME NEW n \in Nodes
      PROVE  /\ Finger(n) \in FingerType
             /\ Finger(n).Ip = n /\ Finger(n).Id = n
  BY <1>3, NodeKeys DEF Finger, FingerType
<1> QED BY <1>2, <1>3, NodeKeys

\* A bounded set of integers that is not empty has a least and a greatest
\* element, which Min and Max are.
LEMMA Least ==
  ASSUME NEW lo \in Int, NEW hi \in Int, NEW C \in SUBSET (lo .. hi), C # {}
  PROVE  Min(C) \in C /\ \A j \in C : Min(C) <= j
<1> DEFINE T == {i - lo : i \in C}
<1>1. T \subseteq Nat /\ T # {}
  OBVIOUS
<1>2. PICK x \in T : \A y \in T : <<y, x>> \notin OpToRel(<, Nat)
  BY <1>1, WFMin, NatLessThanWellFounded
<1>3. \A y \in T : ~(y < x)
  BY <1>1, <1>2 DEF OpToRel
<1>4. PICK i \in C : x = i - lo
  OBVIOUS
<1>5. \A j \in C : i <= j
  <2> SUFFICES ASSUME NEW j \in C PROVE i <= j
    OBVIOUS
  <2>1. j - lo \in T /\ i \in Int /\ j \in Int
    OBVIOUS
  <2>2. ~(j - lo < i - lo)
    BY <1>3, <1>4, <2>1
  <2> HIDE DEF T
  <2> QED BY <2>1, <2>2
<1> QED BY <1>5 DEF Min

LEMMA Greatest ==
  ASSUME NEW lo \in Int, NEW hi \in Int, NEW C \in SUBSET (lo .. hi), C # {}
  PROVE  Max(C) \in C
<1> DEFINE T == {hi - i : i \in C}
<1>1. T \subseteq Nat /\ T # {}
  OBVIOUS
<1>2. PICK x \in T : \A y \in T : <<y, x>> \notin OpToRel(<, Nat)
  BY <1>1, WFMin, NatLessThanWellFounded
<1>3. \A y \in T : ~(y < x)
  BY <1>1, <1>2 DEF OpToRel
<1>4. PICK i \in C : x = hi - i
  OBVIOUS
<1>5. \A j \in C : i >= j
  <2> SUFFICES ASSUME NEW j \in C PROVE i >= j
    OBVIOUS
  <2>1. hi - j \in T /\ i \in Int /\ j \in Int
    OBVIOUS
  <2> QED BY <1>3, <1>4, <2>1
<1> QED BY <1>5 DEF Max

LEMMA FirstWorkingIs ==
  ASSUME NEW n
  PROVE  \/ FirstWorking(n) = Finger(n)
         \/ \E i \in 1 .. NumSucc : FirstWorking(n) = succ[n][i] /\ Alive(succ[n][i].Ip)
<1> DEFINE working == {i \in 1 .. NumSucc : Alive(succ[n][i].Ip)}
<1>0. 1 \in Int /\ NumSucc \in Int /\ working \in SUBSET (1 .. NumSucc)
  BY RingAssumption
<1>1. working # {} => Min(working) \in working
  <2> HIDE DEF working
  <2> QED BY <1>0, Least
<1>2. FirstWorking(n) = IF working = {} THEN Finger(n) ELSE succ[n][Min(working)]
  BY DEF FirstWorking
<1> QED BY <1>1, <1>2

LEMMA ClosestIs ==
  ASSUME NEW n, NEW h
  PROVE  \/ ClosestSuccessor(n, h) = n
         \/ \E i \in 1 .. NumSucc : /\ ClosestSuccessor(n, h) = succ[n][i].Ip
                                    /\ succ[n][i].Ip # NoNode
<1> DEFINE C == {i \in 1 .. NumSucc : /\ succ[n][i].Ip # NoNode
                                      /\ keyInBetweenExclusive(n, h, succ[n][i].Id)}
<1>0. 1 \in Int /\ NumSucc \in Int /\ C \in SUBSET (1 .. NumSucc)
  BY RingAssumption
<1>1. C # {} => Max(C) \in C
  <2> HIDE DEF C
  <2> QED BY <1>0, Greatest
<1>2. ClosestSuccessor(n, h) = IF C = {} THEN n ELSE succ[n][Max(C)].Ip
  BY DEF ClosestSuccessor
<1> QED BY <1>1, <1>2

\* Goroutines and where they run.
LEMMA Threads ==
  /\ \A n \in Nodes : Stab(n) \in Goroutines /\ Stab(n)[1] = n /\ Stab(n)[2] = "stab"
  /\ \A j \in Joiners : Join(j) \in Goroutines /\ Join(j)[1] = j /\ Join(j)[2] = "join" /\ j \in Nodes
  /\ \A n, j : Stab(n) # Join(j)
  /\ \A n, j : (Stab(n) = Stab(j) => n = j) /\ (Join(n) = Join(j) => n = j)
  /\ \A g \in Goroutines : (\E n \in Nodes : g = Stab(n)) \/ (\E j \in Joiners : g = Join(j))
  BY DEF Stab, Join, Goroutines, Nodes

LEMMA Hosts ==
  ASSUME TypeOK
  PROVE  /\ \A n \in Nodes : Host(Stab(n)) = n
         /\ \A j \in Joiners : /\ Host(Join(j)) = path[j][Len(path[j])]
                               /\ path[j] # <<>> => /\ Host(Join(j)) \in Nodes
                                                    /\ Len(path[j]) \in 1 .. Len(path[j])
<1>1. \A n \in Nodes : Host(Stab(n)) = n
  BY Threads DEF Host
<1>2. \A j \in Joiners : Host(Join(j)) = path[j][Len(path[j])]
  BY Threads DEF Host
<1>3. ASSUME NEW j \in Joiners, path[j] # <<>>
      PROVE  path[j][Len(path[j])] \in Nodes /\ Len(path[j]) \in 1 .. Len(path[j])
  <2>1. path[j] \in Seq(Nodes)
    BY DEF TypeOK
  <2>2. Len(path[j]) \in Nat /\ Len(path[j]) # 0
    BY <1>3, <2>1
  <2> QED BY <2>1, <2>2
<1> QED BY <1>1, <1>2, <1>3

-----------------------------------------------------------------------------
(***************************************************************************)
(* Types                                                                   *)
(***************************************************************************)

Statuses == {"down", "up", "crashed", "selfCall", "unconnected", "refused"}
Places   == {"idle", "check", "update", "unlock", "getPred", "recheck", "health", "notify",
             "start", "call", "route", "closest", "retry", "answer", "setIp", "setId",
             "written", "joined", "gone"}

LEMMA ListTypes ==
  ASSUME TypeOK, NEW n \in Nodes
  PROVE  /\ 1 \in 1 .. NumSucc
         /\ \A i \in 1 .. NumSucc : /\ succ[n][i] \in FingerType /\ succ[n][i].Ip \in Nodes \cup {NoNode}
                                    /\ succ[n][i].Id \in Keys
         /\ copy[n] \in FingerType /\ copy[n].Ip \in Nodes \cup {NoNode} /\ copy[n].Id \in Keys
<1>1. 1 \in 1 .. NumSucc
  BY RingAssumption
<1>2. copy[n] \in FingerType /\ \A i \in 1 .. NumSucc : succ[n][i] \in FingerType
  BY DEF TypeOK
<1>3. \A f \in FingerType : f.Ip \in Nodes \cup {NoNode} /\ f.Id \in Keys
  BY DEF FingerType
<1> QED BY <1>1, <1>2, <1>3

LEMMA GotoStep ==
  ASSUME TypeOK, NEW g \in Goroutines, NEW p \in Places, Goto(g, p)
  PROVE  /\ pc' \in [Goroutines -> Places] /\ pc'[g] = p
         /\ \A h \in Goroutines : h # g => pc'[h] = pc[h]
  BY DEF TypeOK, Goto, Places

LEMMA AskStep ==
  ASSUME TypeOK, NEW g \in Goroutines, NEW ip \in Nodes \cup {NoNode}, Ask(g, ip)
  PROVE  /\ asked' \in [Goroutines -> Nodes \cup {NoNode}] /\ asked'[g] = ip
         /\ \A h \in Goroutines : h # g => asked'[h] = asked[h]
  BY DEF TypeOK, Ask

LEMMA DiesTypes ==
  ASSUME TypeOK, NEW n \in Nodes, NEW how \in Statuses, Dies(n, how)
  PROVE  /\ status' \in [Nodes -> Statuses]
         /\ pred' \in [Nodes -> Nodes \cup {NoNode}]
         /\ succ' \in [Nodes -> [1 .. NumSucc -> FingerType]]
         /\ copy' \in [Nodes -> FingerType]
         /\ cur' \in [Nodes -> Nodes \cup {NoNode}]
  BY Fingers DEF TypeOK, Dies, Statuses

\* The first entry of a list is replaced.
LEMMA HeadTypes ==
  ASSUME TypeOK, NEW n \in Nodes, NEW f \in FingerType, succ' = [succ EXCEPT ![n][1] = f]
  PROVE  /\ succ' \in [Nodes -> [1 .. NumSucc -> FingerType]] /\ succ'[n][1] = f
         /\ \A i \in 1 .. NumSucc : i # 1 => succ'[n][i] = succ[n][i]
         /\ \A m \in Nodes : m # n => succ'[m] = succ[m]
<1>1. 1 \in 1 .. NumSucc
  BY RingAssumption
<1> QED BY <1>1 DEF TypeOK

\* The node a goroutine that runs on some node runs on.
Placed(g) == g[2] = "stab" \/ path[g[1]] # <<>>

LEMMA HostIs ==
  ASSUME TypeOK, NEW g \in Goroutines, Placed(g)
  PROVE  Host(g) \in Nodes
  BY Hosts, Threads DEF Placed

LEMMA ReturnsTypes ==
  ASSUME TypeInv, NEW g \in Goroutines, Placed(g), Returns(g)
  PROVE  /\ pc' \in [Goroutines -> Places] /\ level' \in [Goroutines -> 0 .. 3]
         /\ asked' \in [Goroutines -> Nodes \cup {NoNode}]
         /\ pc'[g] \in {"update", "notify"} \cup (IF g[2] = "stab" THEN {"unlock"} ELSE {"route"})
         /\ \A h \in Goroutines : h # g => pc'[h] = pc[h]
<1>0. TypeOK
  BY DEF TypeInv
<1>1. level' \in [Goroutines -> 0 .. 3]
  BY <1>0 DEF Returns, TypeOK
<1>2. PICK p \in {"update", "notify"} \cup (IF g[2] = "stab" THEN {"unlock"} ELSE {"route"}) :
          Goto(g, p)
  BY DEF Returns
<1>3. p \in Places
  BY <1>2 DEF Places
<1>4. PICK n \in Nodes : n = Host(g)
  BY <1>0, HostIs
<1>5. succ[n][1].Ip \in Nodes \cup {NoNode}
  BY <1>0, ListTypes
<1>6. PICK ip \in Nodes \cup {NoNode} : Ask(g, ip)
  BY <1>4, <1>5 DEF Returns
<1> QED BY <1>0, <1>1, <1>2, <1>3, <1>6, GotoStep, AskStep

\* Only the pc of goroutine g and the path of the lookup that g makes change.
LEMMA PathFrame ==
  ASSUME TypeInv, NEW g \in Goroutines, path' = path,
         \A h \in Goroutines : h # g => pc'[h] = pc[h],
         g[2] = "stab" \/ pc[g] \in LookupPcs \/ pc'[g] \notin LookupPcs \/ path[g[1]] # <<>>
  PROVE  PathInv'
<1>1. \A j \in Joiners : Join(j) \in Goroutines /\ Join(j)[1] = j /\ Join(j)[2] # "stab"
  BY Threads
<1> SUFFICES ASSUME NEW j \in Joiners, pc'[Join(j)] \in LookupPcs PROVE path[j] # <<>>
  BY DEF PathInv
<1>2. CASE g = Join(j)
  BY <1>1, <1>2 DEF TypeInv, PathInv
<1>3. CASE g # Join(j)
  BY <1>1, <1>3 DEF TypeInv, PathInv
<1> QED BY <1>2, <1>3

LEMMA CheckTypes ==
  ASSUME TypeInv, NEW g \in Goroutines, Placed(g), CheckSuccessor(g)
  PROVE  TypeInv'
<1>0. TypeOK
  BY DEF TypeInv
<1>1. PICK n \in Nodes : n = Host(g)
  BY <1>0, HostIs
<1>2. UNCHANGED <<status, pred, copy, cur, path, found>>
  BY DEF CheckSuccessor, stabVars, joinVars
<1>3. CASE Returns(g) /\ UNCHANGED succ
  <2>1. TypeOK'
    BY <1>0, <1>2, <1>3, ReturnsTypes DEF TypeOK, Places
  <2>2. PathInv'
    BY <1>2, <1>3, ReturnsTypes, PathFrame DEF CheckSuccessor, LookupPcs
  <2> QED BY <2>1, <2>2 DEF TypeInv
<1>4. CASE /\ succ' = [succ EXCEPT ![n][1] = FirstWorking(n)]
           /\ Goto(g, "update") /\ Ask(g, FirstWorking(n).Ip) /\ UNCHANGED level
  <2>1. FirstWorking(n) \in FingerType /\ FirstWorking(n).Ip \in Nodes \cup {NoNode}
    BY <1>0, FirstWorkingIs, Fingers, ListTypes
  <2>2. succ' \in [Nodes -> [1 .. NumSucc -> FingerType]]
    BY <1>0, <1>4, <2>1, HeadTypes
  <2>3. pc' \in [Goroutines -> Places] /\ \A h \in Goroutines : h # g => pc'[h] = pc[h]
    BY <1>0, <1>4, GotoStep DEF Places
  <2>4. TypeOK'
    BY <1>0, <1>2, <1>4, <2>1, <2>2, <2>3, AskStep DEF TypeOK, Places
  <2>5. PathInv'
    BY <1>2, <2>3, PathFrame DEF CheckSuccessor, LookupPcs
  <2> QED BY <2>4, <2>5 DEF TypeInv
<1> QED BY <1>1, <1>3, <1>4 DEF CheckSuccessor

LEMMA ShiftedTypes ==
  ASSUME TypeOK, NEW n \in Nodes, NEW m \in Nodes, succ' = [succ EXCEPT ![n] = Shifted(n, m)]
  PROVE  /\ succ' \in [Nodes -> [1 .. NumSucc -> FingerType]]
         /\ succ'[n][1] = succ[n][1]
         /\ \A i \in 1 .. NumSucc : i # 1 => i - 1 \in 1 .. NumSucc /\ succ'[n][i] = succ[m][i - 1]
         /\ \A k \in Nodes : k # n => succ'[k] = succ[k]
<1>0. 1 \in 1 .. NumSucc /\ \A i \in 1 .. NumSucc : i # 1 => i - 1 \in 1 .. NumSucc
  BY RingAssumption
<1>1. Shifted(n, m) \in [1 .. NumSucc -> FingerType]
  <2>1. \A i \in 1 .. NumSucc :
            (IF i = 1 THEN succ[n][1] ELSE succ[m][i - 1]) \in FingerType
    BY <1>0, ListTypes
  <2> QED BY <2>1 DEF Shifted
<1>2. /\ Shifted(n, m)[1] = succ[n][1]
      /\ \A i \in 1 .. NumSucc : i # 1 => Shifted(n, m)[i] = succ[m][i - 1]
  BY <1>0 DEF Shifted
<1>3. succ'[n] = Shifted(n, m) /\ \A k \in Nodes : k # n => succ'[k] = succ[k]
  BY DEF TypeOK
<1> QED BY <1>0, <1>1, <1>2, <1>3 DEF TypeOK

LEMMA UpdateTypes ==
  ASSUME TypeInv, NEW g \in Goroutines, Placed(g), UpdateSuccessorList(g)
  PROVE  TypeInv'
<1>0. TypeOK
  BY DEF TypeInv
<1>1. PICK n \in Nodes : n = Host(g)
  BY <1>0, HostIs
<1>2. UNCHANGED <<status, pred, copy, cur, path, found>>
  BY DEF UpdateSuccessorList, stabVars, joinVars
<1>3. CASE /\ Alive(asked[g]) /\ succ' = [succ EXCEPT ![n] = Shifted(n, asked[g])]
           /\ Returns(g)
  <2>1. asked[g] \in Nodes
    BY <1>0, <1>3 DEF Alive, TypeOK
  <2>2. succ' \in [Nodes -> [1 .. NumSucc -> FingerType]]
    BY <1>0, <1>3, <2>1, ShiftedTypes
  <2>3. TypeOK'
    BY <1>0, <1>2, <1>3, <2>2, ReturnsTypes DEF TypeOK, Places
  <2>4. PathInv'
    BY <1>2, <1>3, ReturnsTypes, PathFrame DEF UpdateSuccessorList, LookupPcs
  <2> QED BY <2>3, <2>4 DEF TypeInv
<1>4. CASE Goto(g, "check") /\ Ask(g, succ[n][1].Ip) /\ UNCHANGED <<succ, level>>
  <2>1. pc' \in [Goroutines -> Places] /\ \A h \in Goroutines : h # g => pc'[h] = pc[h]
    BY <1>0, <1>4, GotoStep DEF Places
  <2>2. TypeOK'
    BY <1>0, <1>2, <1>4, <2>1, ListTypes, AskStep DEF TypeOK, Places
  <2>3. PathInv'
    BY <1>2, <2>1, PathFrame DEF UpdateSuccessorList, LookupPcs
  <2> QED BY <2>2, <2>3 DEF TypeInv
<1> QED BY <1>1, <1>3, <1>4 DEF UpdateSuccessorList

\* The steps of stabilize other than the two above, and check_predecessor.
LEMMA StabTypes ==
  ASSUME TypeInv, NEW n \in Nodes,
         \/ StabilizeLock(n) \/ StabilizeUnlock(n) \/ GetPredecessor(n) \/ Recheck(n)
         \/ Adopt(n) \/ NotifySuccessor(n)
  PROVE  TypeInv'
<1>0. TypeOK /\ Stab(n) \in Goroutines /\ Stab(n)[2] = "stab"
  BY Threads DEF TypeInv
<1>1. \A p \in Places : Goto(Stab(n), p) =>
          pc' \in [Goroutines -> Places] /\ \A h \in Goroutines : h # Stab(n) => pc'[h] = pc[h]
  BY <1>0, GotoStep
<1>2. CASE StabilizeLock(n)
  <2>1. pc' \in [Goroutines -> Places] /\ \A h \in Goroutines : h # Stab(n) => pc'[h] = pc[h]
    BY <1>1, <1>2 DEF StabilizeLock, Places
  <2>2. TypeOK'
    <3>1. level' \in [Goroutines -> 0 .. 3]
      BY <1>0, <1>2 DEF StabilizeLock, TypeOK
    <3>2. asked' \in [Goroutines -> Nodes \cup {NoNode}]
      BY <1>0, <1>2, ListTypes, AskStep DEF StabilizeLock
    <3> QED BY <1>0, <1>2, <2>1, <3>1, <3>2 DEF TypeOK, StabilizeLock, nodeVars, stabVars, joinVars, Places
  <2>3. PathInv'
    BY <1>0, <1>2, <2>1, PathFrame DEF StabilizeLock, joinVars
  <2> QED BY <2>2, <2>3 DEF TypeInv
<1>3. CASE GetPredecessor(n)
  <2>1. pc' \in [Goroutines -> Places] /\ \A h \in Goroutines : h # Stab(n) => pc'[h] = pc[h]
    BY <1>1, <1>3 DEF GetPredecessor, Places
  <2>2. cur' \in [Nodes -> Nodes \cup {NoNode}]
    <3>1. CASE UNCHANGED cur
      BY <1>0, <3>1 DEF TypeOK
    <3>2. CASE Alive(copy[n].Ip) /\ cur' = [cur EXCEPT ![n] = pred[copy[n].Ip]]
      <4>1. pred[copy[n].Ip] \in Nodes \cup {NoNode}
        BY <1>0, <3>2, ListTypes DEF Alive, TypeOK
      <4> QED BY <1>0, <3>2, <4>1 DEF TypeOK
    <3> QED BY <1>3, <3>1, <3>2 DEF GetPredecessor
  <2>3. TypeOK'
    BY <1>0, <1>3, <2>1, <2>2 DEF TypeOK, GetPredecessor, nodeVars, joinVars, Places
  <2>4. PathInv'
    BY <1>0, <1>3, <2>1, PathFrame DEF GetPredecessor, joinVars
  <2> QED BY <2>3, <2>4 DEF TypeInv
<1>4. CASE Recheck(n)
  <2>1. pc' \in [Goroutines -> Places] /\ \A h \in Goroutines : h # Stab(n) => pc'[h] = pc[h]
    BY <1>1, <1>4 DEF Recheck, Places
  <2>2. cur' \in [Nodes -> Nodes \cup {NoNode}]
    BY <1>0, <1>4 DEF TypeOK, Recheck
  <2>3. TypeOK'
    BY <1>0, <1>4, <2>1, <2>2 DEF TypeOK, Recheck, nodeVars, joinVars, Places
  <2>4. PathInv'
    BY <1>0, <1>4, <2>1, PathFrame DEF Recheck, joinVars
  <2> QED BY <2>3, <2>4 DEF TypeInv
<1>6. CASE StabilizeUnlock(n)
  <2>1. pc' \in [Goroutines -> Places] /\ \A h \in Goroutines : h # Stab(n) => pc'[h] = pc[h]
    BY <1>1, <1>6 DEF StabilizeUnlock, Places
  <2>2. copy' \in [Nodes -> FingerType]
    BY <1>0, <1>6, ListTypes DEF TypeOK, StabilizeUnlock
  <2>3. TypeOK'
    BY <1>0, <1>6, <2>1, <2>2 DEF TypeOK, StabilizeUnlock, nodeVars, joinVars, Places
  <2>4. PathInv'
    BY <1>0, <1>6, <2>1, PathFrame DEF StabilizeUnlock, joinVars
  <2> QED BY <2>3, <2>4 DEF TypeInv
<1>7. CASE Adopt(n)
  <2>1. pc' \in [Goroutines -> Places] /\ \A h \in Goroutines : h # Stab(n) => pc'[h] = pc[h]
    BY <1>1, <1>7 DEF Adopt, Places
  <2>2. /\ succ' \in [Nodes -> [1 .. NumSucc -> FingerType]] /\ copy' \in [Nodes -> FingerType]
        /\ asked' \in [Goroutines -> Nodes \cup {NoNode}]
    <3>1. CASE UNCHANGED <<succ, copy, asked>>
      BY <1>0, <3>1 DEF TypeOK
    <3>2. CASE /\ Alive(cur[n]) /\ succ' = [succ EXCEPT ![n][1] = Finger(cur[n])]
               /\ copy' = [copy EXCEPT ![n] = Finger(cur[n])] /\ Ask(Stab(n), cur[n])
      <4>1. cur[n] \in Nodes
        BY <1>0, <3>2 DEF TypeOK, Alive
      <4>2. Finger(cur[n]) \in FingerType
        BY <4>1, Fingers
      <4>3. copy' \in [Nodes -> FingerType] /\ asked' \in [Goroutines -> Nodes \cup {NoNode}]
        BY <1>0, <3>2, <4>1, <4>2, AskStep DEF TypeOK
      <4> QED BY <1>0, <3>2, <4>2, <4>3, HeadTypes
    <3> QED BY <1>7, <3>1, <3>2 DEF Adopt
  <2>3. level' \in [Goroutines -> 0 .. 3] /\ cur' \in [Nodes -> Nodes \cup {NoNode}]
    <3>1. level' = level \/ level' = [level EXCEPT ![Stab(n)] = 3]
      BY <1>7 DEF Adopt
    <3>2. cur' = [cur EXCEPT ![n] = NoNode]
      BY <1>7 DEF Adopt
    <3> QED BY <1>0, <3>1, <3>2 DEF TypeOK
  <2>4. TypeOK'
    BY <1>0, <1>7, <2>1, <2>2, <2>3 DEF TypeOK, Adopt, joinVars, Places
  <2>5. PathInv'
    BY <1>0, <1>7, <2>1, PathFrame DEF Adopt, joinVars
  <2> QED BY <2>4, <2>5 DEF TypeInv
<1>5. CASE NotifySuccessor(n)
  <2>1. pc' \in [Goroutines -> Places] /\ \A h \in Goroutines : h # Stab(n) => pc'[h] = pc[h]
    BY <1>1, <1>5 DEF NotifySuccessor, Places
  <2>2. pred' \in [Nodes -> Nodes \cup {NoNode}]
    BY <1>0, <1>5 DEF NotifySuccessor, Notify, TypeOK
  <2>3. copy' \in [Nodes -> FingerType]
    BY <1>0, <1>5, Fingers DEF NotifySuccessor, TypeOK
  <2>4. TypeOK'
    BY <1>0, <1>5, <2>1, <2>2, <2>3 DEF TypeOK, NotifySuccessor, joinVars, Places
  <2>5. PathInv'
    BY <1>0, <1>5, <2>1, PathFrame DEF NotifySuccessor, joinVars
  <2> QED BY <2>4, <2>5 DEF TypeInv
<1> QED BY <1>2, <1>3, <1>4, <1>5, <1>6, <1>7

\* A step of join or of its lookup: what it does to its own path.
LEMMA JoinFrame ==
  ASSUME TypeInv, NEW j \in Joiners, NEW p \in Places, Goto(Join(j), p),
         path' \in [Joiners -> Seq(Nodes)],
         \A k \in Joiners : k # j => path'[k] = path[k],
         p \in LookupPcs => path'[j] # <<>>
  PROVE  pc' \in [Goroutines -> Places] /\ PathInv'
<1>0. TypeOK /\ Join(j) \in Goroutines
  BY Threads DEF TypeInv
<1>1. /\ pc' \in [Goroutines -> Places] /\ pc'[Join(j)] = p
      /\ \A h \in Goroutines : h # Join(j) => pc'[h] = pc[h]
  BY <1>0, GotoStep
<1>2. \A k \in Joiners : k # j => Join(k) # Join(j) /\ Join(k) \in Goroutines
  BY Threads
<1> QED BY <1>1, <1>2 DEF TypeInv, PathInv

LEMMA PathSet ==
  ASSUME TypeOK, NEW j \in Joiners, NEW s \in Seq(Nodes), path' = [path EXCEPT ![j] = s]
  PROVE  /\ path' \in [Joiners -> Seq(Nodes)] /\ path'[j] = s
         /\ \A k \in Joiners : k # j => path'[k] = path[k]
  BY DEF TypeOK

LEMMA ParamTypes ==
  ASSUME TypeInv
  PROVE  /\ TypeOK /\ \A j \in Joiners : /\ path[j] \in Seq(Nodes) /\ Join(j) \in Goroutines
                                         /\ j \in Nodes /\ found[j] \in FingerType
                                         /\ found[j].Ip \in Nodes \cup {NoNode}
                                         /\ found[j].Id \in Keys
  BY Threads DEF TypeInv, TypeOK, FingerType

LEMMA CreateTypes ==
  ASSUME TypeInv, NEW j \in Joiners, Create(j)
  PROVE  TypeInv'
<1>0. TypeOK /\ j \in Nodes
  BY ParamTypes
<1>1. pc' \in [Goroutines -> Places] /\ PathInv'
  BY <1>0, JoinFrame DEF Create, Places, LookupPcs, joinVars, TypeOK
<1>2. succ' \in [Nodes -> [1 .. NumSucc -> FingerType]]
  BY <1>0, HeadTypes, Fingers DEF Create
<1>3. status' \in [Nodes -> Statuses]
  BY <1>0 DEF TypeOK, Create, Statuses
<1>4. TypeOK'
  BY <1>0, <1>1, <1>2, <1>3 DEF TypeOK, Create, stabVars, joinVars, Places, Statuses
<1> QED BY <1>1, <1>4 DEF TypeInv

LEMMA CallTypes ==
  ASSUME TypeInv, NEW j \in Joiners, JoinCall(j)
  PROVE  TypeInv'
<1>0. TypeOK /\ j \in Nodes
  BY ParamTypes
<1>1. CASE \E m \in Members : /\ path' = [path EXCEPT ![j] = <<m>>] /\ Goto(Join(j), "route")
                              /\ UNCHANGED <<nodeVars, stabVars>>
  <2>1. PICK m \in Members : path' = [path EXCEPT ![j] = <<m>>]
    BY <1>1
  <2>2. PICK s : s = <<m>>
    OBVIOUS
  <2>3. s \in Seq(Nodes) /\ s # <<>>
    BY <2>1, <2>2 DEF Nodes
  <2>4. /\ path' \in [Joiners -> Seq(Nodes)] /\ path'[j] = s
        /\ \A k \in Joiners : k # j => path'[k] = path[k]
    BY <1>0, <2>1, <2>2, <2>3, PathSet
  <2>5. pc' \in [Goroutines -> Places] /\ PathInv'
    BY <1>1, <2>3, <2>4, JoinFrame DEF Places
  <2>6. TypeOK'
    BY <1>0, <1>1, <2>4, <2>5 DEF TypeOK, JoinCall, nodeVars, stabVars, Places
  <2> QED BY <2>5, <2>6 DEF TypeInv
<1>2. CASE Dies(j, "unconnected") /\ Goto(Join(j), "gone") /\ UNCHANGED path
  <2>1. pc' \in [Goroutines -> Places] /\ PathInv'
    BY <1>0, <1>2, JoinFrame DEF Places, LookupPcs, TypeOK
  <2>2. TypeOK'
    BY <1>0, <1>2, <2>1, DiesTypes DEF TypeOK, JoinCall, Places, Statuses
  <2> QED BY <2>1, <2>2 DEF TypeInv
<1> QED BY <1>1, <1>2 DEF JoinCall

LEMMA RouteTypes ==
  ASSUME TypeInv, NEW j \in Joiners, Route(j) \/ Retry(j)
  PROVE  TypeInv'
<1>0. TypeOK /\ j \in Nodes /\ Join(j) \in Goroutines
  BY ParamTypes
<1>1. path[j] # <<>> /\ path' = path /\ path \in [Joiners -> Seq(Nodes)]
  BY <1>0 DEF Route, Retry, TypeInv, PathInv, LookupPcs, joinVars, TypeOK
<1>2. PICK n \in Nodes : n = Host(Join(j))
  BY <1>0, <1>1, Hosts
<1>3. CASE Route(j)
  <2>1. pc' \in [Goroutines -> Places] /\ PathInv'
    BY <1>1, <1>3, JoinFrame DEF Route, Places
  <2>2. found' \in [Joiners -> FingerType]
    <3>1. succ[n][1] \in FingerType
      BY <1>0, ListTypes
    <3> QED BY <1>0, <1>2, <1>3, <3>1 DEF Route, TypeOK
  <2>3. TypeOK'
    BY <1>0, <1>3, <2>1, <2>2 DEF TypeOK, Route, nodeVars, stabVars, Places
  <2> QED BY <2>1, <2>3 DEF TypeInv
<1>4. CASE Retry(j)
  <2>1. pc' \in [Goroutines -> Places] /\ PathInv'
    BY <1>1, <1>4, JoinFrame DEF Retry, Places
  <2>2. TypeOK'
    <3>1. level' \in [Goroutines -> 0 .. 3]
      BY <1>0, <1>4 DEF Retry, TypeOK
    <3>2. asked' \in [Goroutines -> Nodes \cup {NoNode}]
      BY <1>0, <1>2, <1>4, ListTypes, AskStep DEF Retry
    <3> QED BY <1>0, <1>4, <2>1, <3>1, <3>2 DEF TypeOK, Retry, nodeVars, stabVars, joinVars, Places
  <2> QED BY <2>1, <2>2 DEF TypeInv
<1> QED BY <1>3, <1>4

LEMMA ForwardTypes ==
  ASSUME TypeInv, NEW j \in Joiners, Forward(j)
  PROVE  TypeInv'
<1>0. TypeOK /\ j \in Nodes /\ Join(j) \in Goroutines /\ path[j] \in Seq(Nodes)
  BY ParamTypes
<1>1. /\ path[j] # <<>> /\ path \in [Joiners -> Seq(Nodes)]
      /\ level' = level /\ found' = found /\ asked' = asked
  BY <1>0 DEF Forward, TypeInv, PathInv, LookupPcs, TypeOK
<1>2. PICK n \in Nodes : n = Host(Join(j))
  BY <1>0, <1>1, Hosts
<1>3. PICK m \in Nodes : m = ClosestSuccessor(n, j)
  BY <1>0, ClosestIs, ListTypes
<1>4. CASE Dies(n, "selfCall") /\ UNCHANGED <<pc, path>>
  <2>1. TypeOK'
    BY <1>0, <1>1, <1>4, DiesTypes DEF TypeOK, Statuses
  <2> QED BY <1>4, <2>1 DEF TypeInv, PathInv
<1>5. CASE /\ path' = [path EXCEPT ![j] = Append(@, m)] /\ Goto(Join(j), "route")
           /\ UNCHANGED <<nodeVars, stabVars>>
  <2>1. PICK s : s = Append(path[j], m)
    OBVIOUS
  <2>2. s \in Seq(Nodes) /\ s # <<>>
    BY <1>0, <2>1
  <2>3. path' = [path EXCEPT ![j] = s]
    BY <1>5, <2>1
  <2>4. /\ path' \in [Joiners -> Seq(Nodes)] /\ path'[j] = s
        /\ \A k \in Joiners : k # j => path'[k] = path[k]
    BY <1>0, <2>2, <2>3, PathSet
  <2>5. pc' \in [Goroutines -> Places] /\ PathInv'
    BY <1>5, <2>2, <2>4, JoinFrame DEF Places
  <2>6. TypeOK'
    BY <1>0, <1>1, <1>5, <2>4, <2>5 DEF TypeOK, nodeVars, stabVars, Places
  <2> QED BY <2>5, <2>6 DEF TypeInv
<1>6. CASE Goto(Join(j), "retry") /\ UNCHANGED <<nodeVars, stabVars, path>>
  <2>1. pc' \in [Goroutines -> Places] /\ PathInv'
    BY <1>1, <1>6, JoinFrame DEF Places
  <2>2. TypeOK'
    BY <1>0, <1>1, <1>6, <2>1 DEF TypeOK, nodeVars, stabVars, Places
  <2> QED BY <2>1, <2>2 DEF TypeInv
<1> QED BY <1>2, <1>3, <1>4, <1>5, <1>6 DEF Forward

\* The part of the path before the first dead node, which Broken keeps.
LEMMA Unbroken ==
  ASSUME TypeOK, NEW j \in Joiners, NEW k \in DOMAIN path[j], k > 1
  PROVE  /\ SubSeq(path[j], 1, k - 1) \in Seq(Nodes) /\ SubSeq(path[j], 1, k - 1) # <<>>
         /\ Len(SubSeq(path[j], 1, k - 1)) = k - 1
         /\ \A i \in 1 .. (k - 1) : /\ SubSeq(path[j], 1, k - 1)[i] = path[j][i]
                                    /\ i \in 1 .. Len(path[j])
<1>1. PICK s \in Seq(Nodes) : s = path[j]
  BY DEF TypeOK
<1>2. Len(s) \in Nat /\ k \in 1 .. Len(s) /\ k - 1 \in Nat /\ k - 1 >= 1
  BY <1>1
<1>3. Len(SubSeq(s, 1, k - 1)) = k - 1
  BY <1>2
<1>4. \A i \in 1 .. (k - 1) : SubSeq(s, 1, k - 1)[i] = s[i] /\ i \in 1 .. Len(s)
  BY <1>2
<1>5. SubSeq(s, 1, k - 1) \in Seq(Nodes)
  <2>1. \A i \in 1 .. (k - 1) : s[i] \in Nodes
    BY <1>2
  <2> QED BY <1>2, <2>1
<1>6. SubSeq(s, 1, k - 1) # <<>>
  BY <1>2, <1>3
<1> QED BY <1>1, <1>3, <1>4, <1>5, <1>6

LEMMA FirstDead ==
  ASSUME TypeOK, NEW j \in Joiners, NEW dead \in SUBSET DOMAIN path[j], dead # {}
  PROVE  /\ Min(dead) \in dead /\ Min(dead) \in Int /\ Min(dead) >= 1
         /\ \A i \in dead : Min(dead) <= i
<1>1. path[j] \in Seq(Nodes)
  BY DEF TypeOK
<1>2. 1 \in Int /\ Len(path[j]) \in Int /\ DOMAIN path[j] = 1 .. Len(path[j])
  BY <1>1
<1>3. Min(dead) \in dead /\ \A i \in dead : Min(dead) <= i
  BY <1>2, Least
<1> QED BY <1>2, <1>3

LEMMA BrokenTypes ==
  ASSUME TypeInv, NEW j \in Joiners, Broken(j)
  PROVE  TypeInv'
<1>0. TypeOK /\ j \in Nodes /\ Join(j) \in Goroutines /\ path[j] \in Seq(Nodes)
  BY ParamTypes
<1>1. PICK dead : dead = {i \in DOMAIN path[j] : ~Alive(path[j][i])}
  OBVIOUS
<1>2. dead # {} /\ dead \in SUBSET DOMAIN path[j]
  BY <1>1 DEF Broken
<1>3. PICK k : k = Min(dead) /\ k \in DOMAIN path[j] /\ k \in Int
  BY <1>0, <1>2, FirstDead
<1>4. /\ level' \in [Goroutines -> 0 .. 3] /\ found' \in [Joiners -> FingerType]
      /\ asked' \in [Goroutines -> Nodes \cup {NoNode}]
  BY <1>0, Fingers, AskStep DEF Broken, TypeOK
<1>5. CASE /\ k > 1 /\ path' = [path EXCEPT ![j] = SubSeq(@, 1, k - 1)]
           /\ Goto(Join(j), "retry") /\ UNCHANGED <<nodeVars, stabVars>>
  <2>1. PICK s : s = SubSeq(path[j], 1, k - 1)
    OBVIOUS
  <2>2. s \in Seq(Nodes) /\ s # <<>>
    BY <1>0, <1>3, <1>5, <2>1, Unbroken
  <2>3. path' = [path EXCEPT ![j] = s]
    BY <1>5, <2>1
  <2>4. /\ path' \in [Joiners -> Seq(Nodes)] /\ path'[j] = s
        /\ \A i \in Joiners : i # j => path'[i] = path[i]
    BY <1>0, <2>2, <2>3, PathSet
  <2>5. pc' \in [Goroutines -> Places] /\ PathInv'
    BY <1>5, <2>2, <2>4, JoinFrame DEF Places
  <2>6. TypeOK'
    BY <1>0, <1>4, <1>5, <2>4, <2>5 DEF TypeOK, nodeVars, stabVars, Places
  <2> QED BY <2>5, <2>6 DEF TypeInv
<1>6. CASE /\ path' = [path EXCEPT ![j] = <<>>] /\ Goto(Join(j), "gone")
           /\ Dies(j, "unconnected") \/ UNCHANGED <<nodeVars, stabVars>>
  <2>1. <<>> \in Seq(Nodes)
    OBVIOUS
  <2>2. path' \in [Joiners -> Seq(Nodes)] /\ \A i \in Joiners : i # j => path'[i] = path[i]
    BY <1>0, <1>6, <2>1, PathSet
  <2>3. pc' \in [Goroutines -> Places] /\ PathInv'
    BY <1>6, <2>2, JoinFrame DEF Places, LookupPcs
  <2>4. /\ status' \in [Nodes -> Statuses] /\ pred' \in [Nodes -> Nodes \cup {NoNode}]
        /\ succ' \in [Nodes -> [1 .. NumSucc -> FingerType]] /\ copy' \in [Nodes -> FingerType]
        /\ cur' \in [Nodes -> Nodes \cup {NoNode}]
    <3>1. CASE Dies(j, "unconnected")
      BY <1>0, <3>1, DiesTypes DEF Statuses
    <3>2. CASE UNCHANGED <<nodeVars, stabVars>>
      BY <1>0, <3>2 DEF TypeOK, nodeVars, stabVars, Statuses
    <3> QED BY <1>6, <3>1, <3>2
  <2>5. TypeOK'
    BY <1>4, <2>2, <2>3, <2>4 DEF TypeOK, Places, Statuses
  <2> QED BY <2>3, <2>5 DEF TypeInv
<1> QED BY <1>1, <1>3, <1>5, <1>6 DEF Broken

LEMMA JoinSuccessorTypes ==
  ASSUME TypeInv, NEW j \in Joiners, JoinSuccessor(j)
  PROVE  TypeInv'
<1>0. /\ TypeOK /\ j \in Nodes /\ Join(j) \in Goroutines
      /\ found[j] \in FingerType /\ found[j].Ip \in Nodes \cup {NoNode} /\ found[j].Id \in Keys
  BY ParamTypes
<1>1. <<>> \in Seq(Nodes)
  OBVIOUS
<1>2. path' \in [Joiners -> Seq(Nodes)] /\ \A i \in Joiners : i # j => path'[i] = path[i]
  BY <1>0, <1>1, PathSet DEF JoinSuccessor
<1>3. pc' \in [Goroutines -> Places] /\ PathInv'
  <2>1. PICK p \in {"gone", "written", "setIp", "setId"} : Goto(Join(j), p)
    BY DEF JoinSuccessor
  <2> QED BY <1>2, <2>1, JoinFrame DEF Places, LookupPcs
<1>4. succ' \in [Nodes -> [1 .. NumSucc -> FingerType]]
  <2>1. 1 \in 1 .. NumSucc /\ succ[j][1] \in FingerType
    BY <1>0, ListTypes
  <2>2. CASE succ' = succ
    BY <1>0, <2>2 DEF TypeOK
  <2>3. CASE succ' = [succ EXCEPT ![j][1] = found[j]]
    BY <1>0, <2>3, HeadTypes
  <2>4. CASE succ' = [succ EXCEPT ![j][1].Id = found[j].Id]
    <3>1. [succ[j][1] EXCEPT !.Id = found[j].Id] \in FingerType
      BY <1>0, <2>1 DEF FingerType
    <3>2. succ' = [succ EXCEPT ![j][1] = [succ[j][1] EXCEPT !.Id = found[j].Id]]
      BY <1>0, <2>1, <2>4 DEF TypeOK
    <3> QED BY <1>0, <3>1, <3>2, HeadTypes
  <2>5. CASE succ' = [succ EXCEPT ![j][1].Ip = found[j].Ip]
    <3>1. [succ[j][1] EXCEPT !.Ip = found[j].Ip] \in FingerType
      BY <1>0, <2>1 DEF FingerType
    <3>2. succ' = [succ EXCEPT ![j][1] = [succ[j][1] EXCEPT !.Ip = found[j].Ip]]
      BY <1>0, <2>1, <2>5 DEF TypeOK
    <3> QED BY <1>0, <3>1, <3>2, HeadTypes
  <2> QED BY <2>2, <2>3, <2>4, <2>5 DEF JoinSuccessor
<1>5. TypeOK'
  BY <1>0, <1>2, <1>3, <1>4 DEF TypeOK, JoinSuccessor, stabVars, Places
<1> QED BY <1>3, <1>5 DEF TypeInv

LEMMA OtherHalfTypes ==
  ASSUME TypeInv, NEW j \in Joiners, JoinOtherHalf(j)
  PROVE  TypeInv'
<1>0. /\ TypeOK /\ j \in Nodes /\ Join(j) \in Goroutines
      /\ found[j] \in FingerType /\ found[j].Ip \in Nodes \cup {NoNode} /\ found[j].Id \in Keys
  BY ParamTypes
<1>1. pc' \in [Goroutines -> Places] /\ PathInv'
  BY <1>0, JoinFrame DEF JoinOtherHalf, joinVars, TypeOK, Places, LookupPcs
<1>2. succ' \in [Nodes -> [1 .. NumSucc -> FingerType]]
  <2>1. 1 \in 1 .. NumSucc /\ succ[j][1] \in FingerType
    BY <1>0, ListTypes
  <2>2. CASE succ' = [succ EXCEPT ![j][1].Id = found[j].Id]
    <3>1. [succ[j][1] EXCEPT !.Id = found[j].Id] \in FingerType
      BY <1>0, <2>1 DEF FingerType
    <3>2. succ' = [succ EXCEPT ![j][1] = [succ[j][1] EXCEPT !.Id = found[j].Id]]
      BY <1>0, <2>1, <2>2 DEF TypeOK
    <3> QED BY <1>0, <3>1, <3>2, HeadTypes
  <2>3. CASE succ' = [succ EXCEPT ![j][1].Ip = found[j].Ip]
    <3>1. [succ[j][1] EXCEPT !.Ip = found[j].Ip] \in FingerType
      BY <1>0, <2>1 DEF FingerType
    <3>2. succ' = [succ EXCEPT ![j][1] = [succ[j][1] EXCEPT !.Ip = found[j].Ip]]
      BY <1>0, <2>1, <2>3 DEF TypeOK
    <3> QED BY <1>0, <3>1, <3>2, HeadTypes
  <2> QED BY <2>2, <2>3 DEF JoinOtherHalf
<1>3. TypeOK'
  BY <1>0, <1>1, <1>2 DEF TypeOK, JoinOtherHalf, stabVars, joinVars, Places
<1> QED BY <1>1, <1>3 DEF TypeInv

LEMMA JoinAskTypes ==
  ASSUME TypeInv, NEW j \in Joiners, JoinAsk(j)
  PROVE  TypeInv'
<1>0. TypeOK /\ j \in Nodes /\ Join(j) \in Goroutines
  BY ParamTypes
<1>1. pc' \in [Goroutines -> Places] /\ PathInv'
  BY <1>0, JoinFrame DEF JoinAsk, TypeOK, Places, LookupPcs
<1>2. asked' \in [Goroutines -> Nodes \cup {NoNode}]
  BY <1>0, ListTypes, AskStep DEF JoinAsk
<1>3. found' \in [Joiners -> FingerType]
  BY <1>0, Fingers DEF JoinAsk, TypeOK
<1>4. TypeOK'
  BY <1>0, <1>1, <1>2, <1>3 DEF TypeOK, JoinAsk, nodeVars, stabVars, Places
<1> QED BY <1>1, <1>4 DEF TypeInv

LEMMA JoinNotifyTypes ==
  ASSUME TypeInv, NEW j \in Joiners, JoinNotify(j)
  PROVE  TypeInv'
<1>0. TypeOK /\ j \in Nodes /\ Join(j) \in Goroutines
  BY ParamTypes
<1>1. pc' \in [Goroutines -> Places] /\ PathInv'
  <2>1. PICK p \in {"joined", "gone"} : Goto(Join(j), p)
    BY DEF JoinNotify
  <2> QED BY <1>0, <2>1, JoinFrame DEF JoinNotify, joinVars, TypeOK, Places, LookupPcs
<1>2. asked' \in [Goroutines -> Nodes \cup {NoNode}]
  BY <1>0, AskStep DEF JoinNotify
<1>3. /\ status' \in [Nodes -> Statuses] /\ pred' \in [Nodes -> Nodes \cup {NoNode}]
      /\ succ' \in [Nodes -> [1 .. NumSucc -> FingerType]] /\ copy' \in [Nodes -> FingerType]
      /\ cur' \in [Nodes -> Nodes \cup {NoNode}]
  <2>1. CASE Dies(j, "refused")
    BY <1>0, <2>1, DiesTypes DEF Statuses
  <2>2. CASE Notify(asked[Join(j)], j) /\ UNCHANGED <<status, succ, stabVars>>
    BY <1>0, <2>2 DEF TypeOK, Notify, stabVars, Statuses
  <2> QED BY <2>1, <2>2 DEF JoinNotify
<1>4. TypeOK'
  BY <1>0, <1>1, <1>2, <1>3 DEF TypeOK, JoinNotify, joinVars, Places, Statuses
<1> QED BY <1>1, <1>4 DEF TypeInv

LEMMA TypeNext == TypeInv /\ [Next]_vars => TypeInv'
<1> SUFFICES ASSUME TypeInv, [Next]_vars PROVE TypeInv'
  OBVIOUS
<1>0. TypeOK
  BY DEF TypeInv
<1>1. ASSUME NEW n \in Nodes, Stabilize(n) PROVE TypeInv'
  BY <1>1, StabTypes, CheckTypes, UpdateTypes, Threads DEF Stabilize, Placed
<1>2. ASSUME NEW n \in Nodes, CheckPredecessor(n) PROVE TypeInv'
  <2>1. pred' \in [Nodes -> Nodes \cup {NoNode}]
    BY <1>0, <1>2 DEF CheckPredecessor, TypeOK
  <2>2. TypeOK'
    BY <1>0, <1>2, <2>1 DEF TypeOK, CheckPredecessor, stabVars, joinVars
  <2> QED BY <1>2, <2>2 DEF TypeInv, PathInv, CheckPredecessor, joinVars
<1>3. ASSUME NEW n \in Nodes, Crash(n) PROVE TypeInv'
  <2>1. TypeOK'
    BY <1>0, <1>3, DiesTypes DEF TypeOK, Crash, joinVars, Statuses
  <2> QED BY <1>3, <2>1 DEF TypeInv, PathInv, Crash, joinVars
<1>4. ASSUME NEW j \in Joiners, JoinStep(j) PROVE TypeInv'
  <2>1. CASE path[j] # <<>> /\ (CheckSuccessor(Join(j)) \/ UpdateSuccessorList(Join(j)))
    BY <2>1, CheckTypes, UpdateTypes, Threads DEF Placed
  <2> QED BY <1>4, <2>1, CreateTypes, CallTypes, RouteTypes, ForwardTypes, BrokenTypes,
             JoinSuccessorTypes, OtherHalfTypes, JoinAskTypes, JoinNotifyTypes
          DEF JoinStep, FindSuccessor
<1>5. CASE UNCHANGED vars
  BY <1>5 DEF vars, nodeVars, stabVars, joinVars, TypeInv, TypeOK, PathInv
<1> QED BY <1>1, <1>2, <1>3, <1>4, <1>5 DEF Next

-----------------------------------------------------------------------------
(***************************************************************************)
(* The initial ring.  The members are numbered by their distance from n.   *)
(***************************************************************************)

Upto(n, m) == {x \in Members : Turn(n, x) <= Turn(n, m)}

LEMMA TurnIsOneToOne ==
  ASSUME NEW n \in Keys, NEW a \in Keys, NEW b \in Keys
  PROVE  /\ Turn(n, a) \in 1 .. KeySpace
         /\ Turn(n, a) = Turn(n, b) => a = b
  BY KeySpaceAssumption DEF Keys, Turn, Distance

LEMMA AfterIs ==
  ASSUME NEW n \in Nodes, NEW k \in 1 .. Cardinality(Members)
  PROVE  After(n, k) \in Members /\ Cardinality(Upto(n, After(n, k))) = k
<1>0. /\ IsFiniteSet(Members) /\ Members \subseteq Keys /\ n \in Keys
      /\ Cardinality(Members) \in Nat
  BY RingAssumption, FS_Subset, FS_CardinalityType DEF Nodes
<1>1. PICK N \in Nat : N = Cardinality(Members)
  BY <1>0
<1>2. \A m \in Members : /\ Upto(n, m) \subseteq Members /\ m \in Upto(n, m)
                         /\ IsFiniteSet(Upto(n, m)) /\ Cardinality(Upto(n, m)) \in 1 .. N
  <2> SUFFICES ASSUME NEW m \in Members
               PROVE  /\ Upto(n, m) \subseteq Members /\ m \in Upto(n, m)
                      /\ IsFiniteSet(Upto(n, m)) /\ Cardinality(Upto(n, m)) \in 1 .. N
    OBVIOUS
  <2>1. Upto(n, m) \subseteq Members /\ m \in Upto(n, m)
    BY <1>0, TurnIsOneToOne DEF Upto
  <2>2. /\ IsFiniteSet(Upto(n, m)) /\ Cardinality(Upto(n, m)) \in Nat
        /\ Cardinality(Upto(n, m)) <= N
    BY <1>0, <1>1, <2>1, FS_Subset, FS_CardinalityType
  <2>3. Cardinality(Upto(n, m)) # 0
    BY <2>1, <2>2, FS_EmptySet
  <2> QED BY <2>1, <2>2, <2>3
<1>3. ASSUME NEW a \in Members, NEW b \in Members, a # b,
             Cardinality(Upto(n, a)) = Cardinality(Upto(n, b))
      PROVE  FALSE
  <2>1. Turn(n, a) \in Int /\ Turn(n, b) \in Int /\ Turn(n, a) # Turn(n, b)
    BY <1>0, <1>3, TurnIsOneToOne
  <2>2. \A x \in Members : Turn(n, x) \in Int
    BY <1>0, TurnIsOneToOne
  <2>3. ASSUME NEW c \in Members, NEW d \in Members, Turn(n, c) < Turn(n, d),
               Cardinality(Upto(n, c)) = Cardinality(Upto(n, d))
        PROVE  FALSE
    <3>1. Upto(n, c) \subseteq Upto(n, d) /\ d \notin Upto(n, c)
      BY <2>2, <2>3 DEF Upto
    <3>2. Upto(n, c) = Upto(n, d)
      BY <1>2, <2>3, <3>1, FS_Subset
    <3> QED BY <1>2, <3>1, <3>2
  <2> QED BY <1>3, <2>1, <2>3
<1>4. PICK rank : rank = [m \in Members |-> Cardinality(Upto(n, m))]
  OBVIOUS
<1>5. rank \in [Members -> 1 .. N] /\ \A m \in Members : rank[m] = Cardinality(Upto(n, m))
  BY <1>2, <1>4
<1>6. rank \in Injection(Members, 1 .. N)
  BY <1>3, <1>5 DEF Injection, IsInjective
<1>7. IsFiniteSet(1 .. N) /\ Cardinality(1 .. N) = N
  <2>1. 1 \in Int /\ N \in Int
    OBVIOUS
  <2>2. IsFiniteSet(1 .. N) /\ Cardinality(1 .. N) = IF 1 > N THEN 0 ELSE N - 1 + 1
    BY <2>1, FS_Interval
  <2> QED BY <2>2
<1>8. rank \in Surjection(Members, 1 .. N)
  BY <1>1, <1>6, <1>7, FS_Injection
<1>9. \E m \in Members : Cardinality(Upto(n, m)) = k
  BY <1>1, <1>5, <1>8 DEF Surjection
<1> QED BY <1>9 DEF After, Upto

\* The first member after n: no other one lies between.
LEMMA FirstAfter ==
  ASSUME NEW n \in Nodes
  PROVE  After(n, 1) \in Members /\ Safe(n, After(n, 1))
<1>0. Members \subseteq Keys /\ n \in Keys /\ IsFiniteSet(Members) /\ Cardinality(Members) \in Nat
  BY RingAssumption, FS_Subset, FS_CardinalityType DEF Nodes
<1>1. 1 \in 1 .. Cardinality(Members)
  BY <1>0, RingAssumption, FS_EmptySet
<1>2. PICK a : a = After(n, 1)
  OBVIOUS
<1>3. a \in Members /\ Cardinality(Upto(n, a)) = 1
  BY <1>1, <1>2, AfterIs
<1>4. PICK y : Upto(n, a) = {y}
  BY <1>0, <1>3, FS_Singleton, FS_Subset DEF Upto
<1>5. Safe(n, a)
  <2> SUFFICES ASSUME NEW m \in Members, OnArc(n, a, m) PROVE FALSE
    BY DEF Safe
  <2>1. Turn(n, m) < Turn(n, a) /\ Turn(n, m) \in Int /\ Turn(n, a) \in Int
    BY <1>0, <1>3, KeySpaceAssumption DEF OnArc, Turn, Distance, Keys
  <2>2. m \in Upto(n, a) /\ a \in Upto(n, a) /\ m # a
    BY <1>3, <2>1 DEF Upto
  <2> QED BY <1>4, <2>2
<1> QED BY <1>2, <1>3, <1>5

LEMMA InitTypes == Init => TypeInv
<1> SUFFICES ASSUME Init PROVE TypeInv
  OBVIOUS
<1>0. /\ IsFiniteSet(Members) /\ Members \subseteq Nodes /\ Cardinality(Members) \in Nat \ {0}
  BY RingAssumption, FS_Subset, FS_CardinalityType, FS_EmptySet DEF Nodes
<1>1. PICK N \in Nat \ {0} : N = Cardinality(Members)
  BY <1>0
<1>2. \A n \in Nodes, k \in 1 .. N : After(n, k) \in Nodes
  BY <1>0, <1>1, AfterIs
<1>3. \A i \in 1 .. NumSucc : ((i - 1) % N) + 1 \in 1 .. N
  BY RingAssumption
<1>4. succ \in [Nodes -> [1 .. NumSucc -> FingerType]]
  BY <1>1, <1>2, <1>3, Fingers DEF Init
<1>5. pred \in [Nodes -> Nodes \cup {NoNode}]
  <2>1. N > 1 => N - 1 \in 1 .. N
    OBVIOUS
  <2> QED BY <1>1, <1>2, <2>1 DEF Init
<1>6. status \in [Nodes -> Statuses] /\ pc \in [Goroutines -> Places]
  BY DEF Init, Statuses, Places
<1>7. \A j \in Joiners : pc[Join(j)] = "start"
  BY Threads DEF Init
<1>8. TypeOK
  BY <1>4, <1>5, <1>6, Fingers DEF Init, TypeOK, Statuses, Places
<1> QED BY <1>7, <1>8 DEF TypeInv, PathInv, LookupPcs

LEMMA TypeInductive == Spec => []TypeInv
<1> QED BY InitTypes, TypeNext, PTL DEF Spec

\* Type correctness, however join's unlocked write is seen: no interleaving of
\* stabilize, lookups, retries, joins and crashes leaves an entry of a
\* successor list, a predecessor or a finger on its way that is not a node of
\* the ring or empty.
THEOREM RingTypes == Spec => []TypeOK
<1>1. TypeInv => TypeOK
  BY DEF TypeInv
<1> QED BY <1>1, TypeInductive, PTL

-----------------------------------------------------------------------------
(***************************************************************************)
(* successorLock: one goroutine at a time holds the lock of a node, also   *)
(* when the lookups of several joins are retried on it.                    *)
(***************************************************************************)

MutexInv == \A g, h \in Goroutines : Holding(g) /\ Holding(h) /\ Host(g) = Host(h) => g = h

IdleInv == \A n \in Nodes : status[n] = "down" => pc[Stab(n)] = "idle"

\* A step of g leaves the other goroutines where they are.
Acts(g) ==
    /\ \A h \in Goroutines : h # g => pc'[h] = pc[h] /\ asked'[h] = asked[h]
    /\ \A j \in Joiners : Join(j) # g => path'[j] = path[j]

\* If g holds a lock afterwards, it has held it before or the lock was free.
Enters(g) == Holding(g)' => Host(g)' = Host(g) /\ (Holding(g) \/ LockFree(Host(g)))

LEMMA OtherHosts ==
  ASSUME NEW g \in Goroutines, Acts(g)
  PROVE  \A h \in Goroutines : h # g => Host(h)' = Host(h) /\ (Holding(h)' <=> Holding(h))
<1> SUFFICES ASSUME NEW h \in Goroutines, h # g
             PROVE  Host(h)' = Host(h) /\ (Holding(h)' <=> Holding(h))
  OBVIOUS
<1>1. CASE h[2] = "stab"
  BY <1>1 DEF Host, Acts, Holding
<1>2. CASE h[2] # "stab"
  <2>1. PICK j \in Joiners : h = Join(j) /\ h[1] = j
    BY <1>2, Threads
  <2>2. path'[j] = path[j]
    BY <2>1 DEF Acts
  <2> QED BY <1>2, <2>1, <2>2 DEF Host, Acts, Holding
<1> QED BY <1>1, <1>2

LEMMA MutexStep ==
  ASSUME MutexInv, NEW g \in Goroutines, Acts(g), Enters(g)
  PROVE  MutexInv'
<1> SUFFICES ASSUME NEW a \in Goroutines, NEW b \in Goroutines, a # b,
                    Holding(a)', Holding(b)', Host(a)' = Host(b)'
             PROVE  FALSE
  BY DEF MutexInv
<1>1. \A h \in Goroutines : h # g => Host(h)' = Host(h) /\ (Holding(h)' <=> Holding(h))
  BY OtherHosts
<1>2. ASSUME NEW c \in Goroutines, NEW d \in Goroutines, c = g, d # g,
             Holding(c)', Holding(d)', Host(c)' = Host(d)'
      PROVE  FALSE
  <2>1. Host(d) = Host(g) /\ Holding(d)
    BY <1>1, <1>2 DEF Enters
  <2>2. CASE Holding(g)
    BY <1>2, <2>1, <2>2 DEF MutexInv
  <2>3. CASE LockFree(Host(g))
    BY <2>1, <2>3 DEF LockFree
  <2> QED BY <1>2, <2>2, <2>3 DEF Enters
<1>3. CASE a # g /\ b # g
  BY <1>1, <1>3 DEF MutexInv
<1> QED BY <1>2, <1>3

LEMMA SameHost ==
  ASSUME NEW g \in Goroutines, path' = path
  PROVE  Host(g)' = Host(g)
  BY DEF Host

LEMMA ListSteps ==
  ASSUME TypeOK, NEW g \in Goroutines, CheckSuccessor(g) \/ UpdateSuccessorList(g)
  PROVE  Acts(g) /\ Enters(g)
<1>1. /\ Holding(g) /\ path' = path
      /\ \E p, ip : Goto(g, p) /\ Ask(g, ip)
  BY DEF CheckSuccessor, UpdateSuccessorList, Returns, Holding, joinVars
<1>2. \A h \in Goroutines : h # g => pc'[h] = pc[h] /\ asked'[h] = asked[h]
  BY <1>1 DEF Goto, Ask, TypeOK
<1> QED BY <1>1, <1>2, SameHost DEF Acts, Enters

LEMMA StabSteps ==
  ASSUME TypeOK, NEW n \in Nodes, Stabilize(n)
  PROVE  Acts(Stab(n)) /\ Enters(Stab(n)) /\ Alive(n) /\ status' = status
<1>0. Stab(n) \in Goroutines /\ Host(Stab(n)) = n
  BY Threads, Hosts
<1>1. CASE CheckSuccessor(Stab(n)) \/ UpdateSuccessorList(Stab(n))
  BY <1>0, <1>1, ListSteps DEF CheckSuccessor, UpdateSuccessorList
<1>2. CASE ~(CheckSuccessor(Stab(n)) \/ UpdateSuccessorList(Stab(n)))
  <2>0. \/ StabilizeLock(n) \/ StabilizeUnlock(n) \/ GetPredecessor(n) \/ Recheck(n) \/ Adopt(n)
        \/ NotifySuccessor(n)
    BY <1>2 DEF Stabilize
  <2>1. path' = path /\ Alive(n) /\ status' = status
    BY <2>0 DEF StabilizeLock, StabilizeUnlock, GetPredecessor, Recheck, Adopt,
       NotifySuccessor, joinVars, nodeVars
  <2>2. \A p : Goto(Stab(n), p) => /\ \A h \in Goroutines : h # Stab(n) => pc'[h] = pc[h]
                                   /\ pc'[Stab(n)] = p
    BY <1>0 DEF Goto, TypeOK
  <2>3. \A h \in Goroutines : h # Stab(n) => asked'[h] = asked[h]
    <3>1. asked' = asked \/ \E ip : Ask(Stab(n), ip)
      BY <2>0 DEF StabilizeLock, StabilizeUnlock, GetPredecessor, Recheck, Adopt, NotifySuccessor
    <3> QED BY <1>0, <3>1 DEF Ask, TypeOK
  <2>4. \E p : Goto(Stab(n), p) /\ (p \in {"check", "update", "unlock", "health"} =>
                                        Holding(Stab(n)) \/ LockFree(n))
    BY <2>0 DEF StabilizeLock, StabilizeUnlock, GetPredecessor, Recheck, Adopt,
       NotifySuccessor, Holding
  <2>5. Acts(Stab(n))
    BY <2>1, <2>2, <2>3, <2>4 DEF Acts
  <2>6. Enters(Stab(n))
    BY <1>0, <2>1, <2>2, <2>4, SameHost DEF Enters, Holding
  <2> QED BY <2>1, <2>5, <2>6
<1> QED BY <1>1, <1>2

LEMMA JoinSteps ==
  ASSUME TypeOK, NEW j \in Joiners, JoinStep(j)
  PROVE  Acts(Join(j)) /\ Enters(Join(j))
<1>0. Join(j) \in Goroutines /\ \A k \in Joiners : k # j => Join(k) # Join(j)
  BY Threads
<1>1. CASE CheckSuccessor(Join(j)) \/ UpdateSuccessorList(Join(j))
  BY <1>0, <1>1, ListSteps
<1>2. CASE ~(CheckSuccessor(Join(j)) \/ UpdateSuccessorList(Join(j)))
  <2>0. \/ Create(j) \/ JoinCall(j) \/ Route(j) \/ Forward(j) \/ Broken(j) \/ Retry(j)
        \/ JoinSuccessor(j) \/ JoinOtherHalf(j) \/ JoinAsk(j) \/ JoinNotify(j)
    BY <1>2 DEF JoinStep, FindSuccessor
  <2>1. \A h \in Goroutines : h # Join(j) => asked'[h] = asked[h]
    <3>1. asked' = asked \/ \E ip : Ask(Join(j), ip)
      BY <2>0 DEF Create, JoinCall, Route, Forward, Broken, Retry, JoinSuccessor,
         JoinOtherHalf, JoinAsk, JoinNotify
    <3> QED BY <1>0, <3>1 DEF Ask, TypeOK
  <2>2. path' = path \/ \E p : path' = [path EXCEPT ![j] = p]
    BY <2>0 DEF Create, JoinCall, Route, Forward, Broken, Retry, JoinSuccessor,
       JoinOtherHalf, JoinAsk, JoinNotify, joinVars
  <2>3. \A k \in Joiners : k # j => path'[k] = path[k]
    BY <2>2 DEF TypeOK
  <2>4. \A p : Goto(Join(j), p) => /\ \A h \in Goroutines : h # Join(j) => pc'[h] = pc[h]
                                   /\ pc'[Join(j)] = p
    BY <1>0 DEF Goto, TypeOK
  <2>5. \/ pc' = pc /\ path' = path
        \/ Goto(Join(j), "check") /\ path' = path /\ LockFree(Host(Join(j)))
        \/ \E p : Goto(Join(j), p) /\ p \notin {"check", "update", "unlock", "health"}
    BY <2>0 DEF Create, JoinCall, Route, Forward, Broken, Retry, JoinSuccessor,
       JoinOtherHalf, JoinAsk, JoinNotify, joinVars
  <2>6. \A h \in Goroutines : h # Join(j) => pc'[h] = pc[h]
    BY <2>4, <2>5
  <2>7. Acts(Join(j))
    BY <1>0, <2>1, <2>3, <2>6 DEF Acts
  <2>8. Enters(Join(j))
    BY <1>0, <2>4, <2>5, SameHost DEF Enters, Holding
  <2> QED BY <2>7, <2>8
<1> QED BY <1>1, <1>2

LEMMA QuietActs ==
  ASSUME NEW g \in Goroutines, UNCHANGED <<pc, asked, path>>
  PROVE  Acts(g) /\ Enters(g)
  BY SameHost DEF Acts, Enters, Holding

\* A process goes on as before, or it ends.
Goes(x) ==
    status'[x] = status[x] \/ (status[x] = "up" /\ status'[x] \notin {"up", "down"})

\* A process starts in create; else processes only end.
LEMMA StatusStep ==
  ASSUME TypeOK, Next
  PROVE  \/ \E j \in Joiners : /\ Create(j) /\ status'[j] = "up"
                              /\ \A x \in Nodes : x # j => status'[x] = status[x]
         \/ \A x \in Nodes : Goes(x)
<1>1. ASSUME NEW n \in Nodes, Alive(n), NEW how, Dies(n, how),
             how \in {"crashed", "selfCall", "unconnected", "refused"}
      PROVE  \A x \in Nodes : Goes(x)
  BY <1>1 DEF Dies, TypeOK, Goes, Alive
<1>2. ASSUME NEW n \in Nodes, Stabilize(n) \/ CheckPredecessor(n)
      PROVE  \A x \in Nodes : Goes(x)
  BY <1>2, StabSteps DEF CheckPredecessor, Goes
<1>3. ASSUME NEW n \in Nodes, Crash(n)
      PROVE  \A x \in Nodes : Goes(x)
  BY <1>1, <1>3 DEF Crash
<1>4. ASSUME NEW j \in Joiners, Create(j)
      PROVE  /\ status'[j] = "up" /\ \A x \in Nodes : x # j => status'[x] = status[x]
  BY <1>4, Threads DEF Create, TypeOK
<1>5. ASSUME NEW j \in Joiners, JoinStep(j), ~Create(j)
      PROVE  \A x \in Nodes : Goes(x)
  <2>0. j \in Nodes
    BY Threads
  <2>1. CASE CheckSuccessor(Join(j)) \/ UpdateSuccessorList(Join(j))
    BY <2>1 DEF CheckSuccessor, UpdateSuccessorList, Goes
  <2>2. CASE Route(j) \/ Retry(j) \/ JoinSuccessor(j) \/ JoinOtherHalf(j) \/ JoinAsk(j)
    BY <2>2 DEF Route, Retry, JoinSuccessor, JoinOtherHalf, JoinAsk, nodeVars, Goes
  <2>3. CASE JoinCall(j) \/ Broken(j) \/ JoinNotify(j)
    <3>1. status' = status \/ (Alive(j) /\ (Dies(j, "unconnected") \/ Dies(j, "refused")))
      BY <2>3 DEF JoinCall, Broken, JoinNotify, nodeVars
    <3>2. CASE status' = status
      BY <3>2 DEF Goes
    <3> QED BY <1>1, <2>0, <3>1, <3>2
  <2>4. CASE Forward(j)
    <3>1. status' = status \/ (Alive(Host(Join(j))) /\ Dies(Host(Join(j)), "selfCall"))
      BY <2>4 DEF Forward, nodeVars
    <3>2. PICK h : h = Host(Join(j))
      OBVIOUS
    <3>3. CASE Alive(h) /\ Dies(h, "selfCall")
      BY <3>3 DEF Dies, TypeOK, Goes, Alive
    <3>4. CASE status' = status
      BY <3>4 DEF Goes
    <3> QED BY <3>1, <3>2, <3>3, <3>4
  <2> QED BY <1>5, <2>1, <2>2, <2>3, <2>4 DEF JoinStep, FindSuccessor
<1>6. CASE \E j \in Joiners : Create(j)
  BY <1>4, <1>6
<1>7. CASE ~ \E j \in Joiners : Create(j)
  BY <1>2, <1>3, <1>5, <1>7 DEF Next
<1> QED BY <1>6, <1>7

\* One goroutine at a time holds a lock, and a process that has not been
\* started runs none.
LockInv == MutexInv /\ IdleInv

LEMMA LockNext == TypeInv /\ LockInv /\ [Next]_vars => LockInv'
<1> SUFFICES ASSUME TypeInv, LockInv, [Next]_vars PROVE LockInv'
  OBVIOUS
<1>0. TypeOK
  BY DEF TypeInv
<1>1. CASE UNCHANGED vars
  <2>1. UNCHANGED <<pc, asked, path, status>>
    BY <1>1 DEF vars, nodeVars, joinVars
  <2> QED BY <2>1 DEF LockInv, MutexInv, IdleInv, Holding, Host
<1>2. CASE Next
  <2>0. \A x \in Nodes : status'[x] = "down" => status[x] = "down"
    BY <1>0, <1>2, StatusStep, Zenon DEF Goes
  <2>1. \E g \in Goroutines : /\ Acts(g) /\ Enters(g)
                              /\ \A n \in Nodes : g = Stab(n) => status'[n] # "down" \/ pc' = pc
    <3>1. ASSUME NEW n \in Nodes, Stabilize(n)
          PROVE  /\ Stab(n) \in Goroutines /\ Acts(Stab(n)) /\ Enters(Stab(n))
                 /\ \A k \in Nodes : Stab(n) = Stab(k) => status'[k] # "down"
      BY <1>0, <3>1, StabSteps, Threads DEF Alive
    <3>2. ASSUME NEW n \in Nodes, CheckPredecessor(n) \/ Crash(n)
          PROVE  Stab(n) \in Goroutines /\ Acts(Stab(n)) /\ Enters(Stab(n)) /\ pc' = pc
      BY <3>2, QuietActs, Threads DEF CheckPredecessor, Crash, joinVars
    <3>3. ASSUME NEW j \in Joiners, JoinStep(j)
          PROVE  /\ Join(j) \in Goroutines /\ Acts(Join(j)) /\ Enters(Join(j))
                 /\ \A k \in Nodes : Join(j) # Stab(k)
      BY <1>0, <3>3, JoinSteps, Threads
    <3> QED BY <1>2, <3>1, <3>2, <3>3 DEF Next
  <2>2. PICK g \in Goroutines : /\ Acts(g) /\ Enters(g)
                                /\ \A n \in Nodes : g = Stab(n) => status'[n] # "down" \/ pc' = pc
    BY <2>1
  <2>3. MutexInv'
    BY <2>2, MutexStep DEF LockInv
  <2>4. IdleInv'
    BY <2>0, <2>2, Threads DEF LockInv, IdleInv, Acts
  <2> QED BY <2>3, <2>4 DEF LockInv
<1> QED BY <1>1, <1>2

LEMMA LockInit == Init => LockInv
<1> SUFFICES ASSUME Init PROVE LockInv
  OBVIOUS
<1>1. \A g \in Goroutines : pc[g] \in {"idle", "start"}
  BY DEF Init
<1>2. MutexInv
  BY <1>1 DEF MutexInv, Holding
<1>3. IdleInv
  BY Threads DEF Init, IdleInv
<1> QED BY <1>2, <1>3 DEF LockInv

-----------------------------------------------------------------------------
(***************************************************************************)
(* Who knows whom.  A node that joins is not visible before it has written *)
(* its successor; until then it knows nobody but itself and nobody knows   *)
(* it.                                                                     *)
(***************************************************************************)

VisiblePcs == {"written", "notify", "joined", "gone"}
Visible == {n \in Nodes : n \in Joiners => pc[Join(n)] \in VisiblePcs}

\* The nodes n may know when V are visible, and their fingers; the identifier
\* and the address of a finger are of the same node.
Circle(V, n) == IF n \in V THEN V ELSE {n}
Contacts(V, n) == {NoFinger} \cup {Finger(x) : x \in Circle(V, n)}

KnownInv ==
    \A n \in Nodes :
        /\ \A i \in 1 .. NumSucc : succ[n][i] \in Contacts(Visible, n)
        /\ copy[n] \in Contacts(Visible, n)
        /\ cur[n] \in Circle(Visible, n) \cup {NoNode}
        /\ pred[n] \in Circle(Visible, n) \cup {NoNode}
        /\ asked[Stab(n)] \in Circle(Visible, n) \cup {NoNode}
        /\ status[n] = "up" => succ[n][1] # NoFinger

\* The lookup of a node that joins runs on visible nodes, asks visible nodes
\* and finds one.
LookupInv(j) ==
    /\ pc[Join(j)] \in {"start", "call"} \cup LookupPcs \cup VisiblePcs
    /\ path[j] # <<>> => pc[Join(j)] \in LookupPcs
    /\ \A i \in 1 .. Len(path[j]) : path[j][i] \in Visible
    /\ pc[Join(j)] = "answer" => \E x \in Visible : found[j] = Finger(x)
    /\ asked[Join(j)] \in Visible \cup {NoNode}
    /\ level[Join(j)] # 3
    /\ status[j] = "down" <=> pc[Join(j)] = "start"
    /\ pc[Join(j)] = "gone" => status[j] # "up"

MembersUp == \A n \in Nodes : status[n] = "down" => n \in Joiners

RingInv == TypeInv /\ KnownInv /\ (\A j \in Joiners : LookupInv(j)) /\ MembersUp

SafeInv ==
    AllWell =>
        /\ \A n \in Visible : Safe(n, succ[n][1].Id)
        /\ \A j \in Joiners : pc[Join(j)] = "answer" => Safe(j, found[j].Id)

-----------------------------------------------------------------------------
(***************************************************************************)
(* Circles of acquaintances.                                               *)
(***************************************************************************)

LEMMA CircleIs ==
  ASSUME NEW V, NEW n
  PROVE  /\ n \in Circle(V, n)
         /\ \A m \in Circle(V, n) : Circle(V, m) = Circle(V, n) /\ Contacts(V, m) = Contacts(V, n)
         /\ \A W : V \subseteq W => /\ Circle(V, n) \subseteq Circle(W, n)
                                    /\ Contacts(V, n) \subseteq Contacts(W, n)
<1>1. n \in Circle(V, n) /\ \A m \in Circle(V, n) : Circle(V, m) = Circle(V, n)
  BY DEF Circle
<1>2. \A W : V \subseteq W => Circle(V, n) \subseteq Circle(W, n)
  BY DEF Circle
<1> QED BY <1>1, <1>2 DEF Contacts

LEMMA VisibleNodes == /\ Visible \subseteq Nodes /\ Members \subseteq Visible
                      /\ \A n \in Nodes : Circle(Visible, n) \subseteq Nodes
                      /\ \A j \in Joiners : j \in Visible <=> pc[Join(j)] \in VisiblePcs
  BY RingAssumption DEF Visible, Circle, Nodes

\* A finger n has, when it is not the empty one.
LEMMA ContactIs ==
  ASSUME NEW n \in Nodes, NEW f \in Contacts(Visible, n), f # NoFinger \/ f.Ip # NoNode
  PROVE  \E x \in Nodes : /\ x \in Circle(Visible, n) /\ f = Finger(x)
                          /\ f.Ip = x /\ f.Id = x
<1>1. f # NoFinger
  BY Fingers
<1>2. PICK x \in Circle(Visible, n) : f = Finger(x)
  BY <1>1 DEF Contacts
<1>3. x \in Nodes
  BY <1>2, VisibleNodes
<1> QED BY <1>2, <1>3, Fingers

LEMMA KnownStep ==
  ASSUME KnownInv, NEW W, W = Visible', Visible \subseteq W,
         \A n \in Nodes :
             /\ \A i \in 1 .. NumSucc : succ'[n][i] = succ[n][i] \/ succ'[n][i] \in Contacts(W, n)
             /\ copy'[n] = copy[n] \/ copy'[n] \in Contacts(W, n)
             /\ cur'[n] = cur[n] \/ cur'[n] \in Circle(W, n) \cup {NoNode}
             /\ pred'[n] = pred[n] \/ pred'[n] \in Circle(W, n) \cup {NoNode}
             /\ asked'[Stab(n)] = asked[Stab(n)] \/ asked'[Stab(n)] \in Circle(W, n) \cup {NoNode}
             /\ status'[n] = "up" => \/ status[n] = "up" /\ succ'[n][1] = succ[n][1]
                                     \/ succ'[n][1] # NoFinger
  PROVE  KnownInv'
<1> SUFFICES ASSUME NEW n \in Nodes
             PROVE  /\ \A i \in 1 .. NumSucc : succ'[n][i] \in Contacts(W, n)
                    /\ copy'[n] \in Contacts(W, n)
                    /\ cur'[n] \in Circle(W, n) \cup {NoNode}
                    /\ pred'[n] \in Circle(W, n) \cup {NoNode}
                    /\ asked'[Stab(n)] \in Circle(W, n) \cup {NoNode}
                    /\ status'[n] = "up" => succ'[n][1] # NoFinger
  BY DEF KnownInv
<1>1. Contacts(Visible, n) \subseteq Contacts(W, n) /\ Circle(Visible, n) \subseteq Circle(W, n)
  BY CircleIs
<1> QED BY <1>1 DEF KnownInv

LEMMA LookupStep ==
  ASSUME NEW j \in Joiners, LookupInv(j), Visible \subseteq Visible',
         pc'[Join(j)] = pc[Join(j)], path'[j] = path[j], found'[j] = found[j],
         level'[Join(j)] = level[Join(j)], asked'[Join(j)] = asked[Join(j)],
         status'[j] = "down" <=> status[j] = "down", status'[j] = "up" => status[j] = "up"
  PROVE  LookupInv(j)'
  BY DEF LookupInv

LEMMA VisibleStab ==
  ASSUME TypeOK, NEW n \in Nodes, \A h \in Goroutines : h # Stab(n) => pc'[h] = pc[h]
  PROVE  Visible' = Visible /\ \A j \in Joiners : pc'[Join(j)] = pc[Join(j)]
<1>1. \A j \in Joiners : pc'[Join(j)] = pc[Join(j)]
  BY Threads
<1> QED BY <1>1 DEF Visible

LEMMA VisibleJoin ==
  ASSUME TypeOK, NEW j \in Joiners, \A h \in Goroutines : h # Join(j) => pc'[h] = pc[h]
  PROVE  /\ \A k \in Joiners : k # j => pc'[Join(k)] = pc[Join(k)]
         /\ pc'[Join(j)] \in VisiblePcs => Visible' = Visible \cup {j}
         /\ pc'[Join(j)] \notin VisiblePcs => Visible' = Visible \ {j}
<1>1. \A k \in Joiners : k # j => pc'[Join(k)] = pc[Join(k)]
  BY Threads
<1>2. \A k \in Nodes : k # j => (k \in Visible' <=> k \in Visible)
  BY <1>1 DEF Visible
<1>3. j \in Nodes /\ (j \in Visible' <=> pc'[Join(j)] \in VisiblePcs)
  BY Threads DEF Visible
<1>4. Visible \subseteq Nodes /\ Visible' \subseteq Nodes
  BY DEF Visible
<1> QED BY <1>1, <1>2, <1>3, <1>4

\* A step of stabilize leaves the lookups alone.
LEMMA StabLookups ==
  ASSUME RingInv, NEW n \in Nodes, \A h \in Goroutines : h # Stab(n) => pc'[h] = pc[h],
         \A h \in Goroutines : h # Stab(n) => level'[h] = level[h] /\ asked'[h] = asked[h],
         status' = status, path' = path, found' = found
  PROVE  /\ Visible' = Visible /\ (\A j \in Joiners : LookupInv(j)') /\ MembersUp'
         /\ \A j \in Joiners : pc'[Join(j)] = pc[Join(j)]
<1>1. Visible' = Visible /\ \A j \in Joiners : pc'[Join(j)] = pc[Join(j)]
  BY VisibleStab DEF RingInv, TypeInv
<1>2. \A j \in Joiners : level'[Join(j)] = level[Join(j)] /\ asked'[Join(j)] = asked[Join(j)]
  BY Threads
<1>3. ASSUME NEW j \in Joiners PROVE LookupInv(j)'
  BY <1>1, <1>2, LookupStep DEF RingInv
<1> QED BY <1>1, <1>3 DEF RingInv, MembersUp

\* What a node finds dead in its list, it does not keep in the first place.
LEMMA WorkingContact ==
  ASSUME KnownInv, NEW n \in Nodes
  PROVE  FirstWorking(n) \in Contacts(Visible, n) /\ FirstWorking(n) # NoFinger
<1>1. CASE FirstWorking(n) = Finger(n)
  BY <1>1, CircleIs, Fingers DEF Contacts
<1>2. CASE \E i \in 1 .. NumSucc : FirstWorking(n) = succ[n][i] /\ Alive(succ[n][i].Ip)
  BY <1>2, Fingers DEF KnownInv, Alive
<1> QED BY <1>1, <1>2, FirstWorkingIs

\* The list of a node that n asks is one of n's own circle.
LEMMA ShiftedContacts ==
  ASSUME RingInv, NEW n \in Nodes, NEW m \in Nodes, m \in Circle(Visible, n),
         succ' = [succ EXCEPT ![n] = Shifted(n, m)]
  PROVE  /\ succ'[n][1] = succ[n][1]
         /\ \A i \in 1 .. NumSucc : succ'[n][i] \in Contacts(Visible, n)
         /\ \A k \in Nodes : k # n => succ'[k] = succ[k]
<1>0. TypeOK /\ KnownInv /\ 1 \in 1 .. NumSucc
  BY RingAssumption DEF RingInv, TypeInv
<1>2. /\ succ'[n][1] = succ[n][1]
      /\ \A i \in 1 .. NumSucc : i # 1 => i - 1 \in 1 .. NumSucc /\ succ'[n][i] = succ[m][i - 1]
      /\ \A k \in Nodes : k # n => succ'[k] = succ[k]
  BY <1>0, ShiftedTypes
<1>3. Contacts(Visible, m) = Contacts(Visible, n)
  BY CircleIs
<1>4. \A i \in 1 .. NumSucc : succ'[n][i] \in Contacts(Visible, n)
  BY <1>0, <1>2, <1>3 DEF KnownInv
<1> QED BY <1>2, <1>4

-----------------------------------------------------------------------------
(***************************************************************************)
(* What a step keeps.                                                      *)
(***************************************************************************)

\* The dead stay dead.
StaysDead ==
    \A n \in Nodes : status[n] \notin {"up", "down"} => status'[n] \notin {"up", "down"}

\* Who becomes visible has a safe successor, and so does who gets an answer.
NewsIsSafe ==
    AllWell /\ AllWell' /\ SafeInv =>
        /\ \A n \in Visible' : n \notin Visible => Safe(n, succ'[n][1].Id)
        /\ \A j \in Joiners : pc'[Join(j)] = "answer" =>
               \/ pc[Join(j)] = "answer" /\ found'[j] = found[j]
               \/ Safe(j, found'[j].Id)

Kept == RingInv' /\ StaysDead /\ NewsIsSafe

\* While nobody has died, who is visible is up.
LEMMA VisibleIsUp ==
  ASSUME RingInv, AllWell, NEW n \in Visible
  PROVE  status[n] = "up"
<1>1. n \in Nodes /\ status[n] # "down"
  BY VisibleNodes DEF RingInv, LookupInv, MembersUp, Visible, VisiblePcs
<1> QED BY <1>1 DEF AllWell

LEMMA SuccessorIs ==
  ASSUME RingInv, NEW n \in Nodes, status[n] = "up"
  PROVE  \E x \in Nodes : /\ x \in Circle(Visible, n) /\ succ[n][1] = Finger(x)
                          /\ succ[n][1].Ip = x /\ succ[n][1].Id = x
<1>1. 1 \in 1 .. NumSucc
  BY RingAssumption
<1>2. succ[n][1] \in Contacts(Visible, n) /\ succ[n][1] # NoFinger
  BY <1>1 DEF RingInv, KnownInv
<1> QED BY <1>2, ContactIs

\* Its successor is up too, unless it has died.
LEMMA SuccessorIsUp ==
  ASSUME RingInv, AllWell, NEW n \in Nodes, status[n] = "up"
  PROVE  Alive(succ[n][1].Ip)
<1>1. PICK x \in Nodes : x \in Circle(Visible, n) /\ succ[n][1].Ip = x
  BY SuccessorIs
<1>2. status[x] = "up"
  BY <1>1, VisibleIsUp DEF Circle
<1> QED BY <1>1, <1>2, NodeKeys DEF Alive

LEMMA WellBefore ==
  ASSUME StaysDead, AllWell'
  PROVE  AllWell
  BY DEF StaysDead, AllWell

\* A step of stabilize.
LEMMA StabKept ==
  ASSUME RingInv, TypeInv', KnownInv', NEW n \in Nodes,
         \A h \in Goroutines : h # Stab(n) => pc'[h] = pc[h],
         \A h \in Goroutines : h # Stab(n) => level'[h] = level[h] /\ asked'[h] = asked[h],
         status' = status, path' = path, found' = found
  PROVE  Kept
<1>1. /\ Visible' = Visible /\ (\A j \in Joiners : LookupInv(j)') /\ MembersUp'
      /\ \A j \in Joiners : pc'[Join(j)] = pc[Join(j)]
  BY StabLookups
<1> QED BY <1>1 DEF Kept, RingInv, StaysDead, NewsIsSafe

\* A step of checkSuccessor or updateSuccessorList in a retried lookup.
LEMMA RetryKept ==
  ASSUME RingInv, TypeInv', KnownInv', NEW j \in Joiners,
         asked'[Join(j)] \in Visible \cup {NoNode},
         pc[Join(j)] \in {"check", "update", "retry"},
         pc'[Join(j)] \in {"check", "update", "route"}, level'[Join(j)] # 3,
         \A h \in Goroutines : h # Join(j) => pc'[h] = pc[h],
         \A h \in Goroutines : h # Join(j) => level'[h] = level[h] /\ asked'[h] = asked[h],
         status' = status, path' = path, found' = found
  PROVE  Visible' = Visible /\ Kept
<1>0. TypeOK
  BY DEF RingInv, TypeInv
<1>1. /\ \A k \in Joiners : k # j => /\ pc'[Join(k)] = pc[Join(k)]
                                     /\ level'[Join(k)] = level[Join(k)]
                                     /\ asked'[Join(k)] = asked[Join(k)]
      /\ Visible' = Visible
  <2>1. j \notin Visible
    BY VisibleNodes DEF VisiblePcs
  <2>2. \A k \in Joiners : k # j => Join(k) # Join(j) /\ Join(k) \in Goroutines
    BY Threads
  <2>3. Visible' = Visible \ {j}
    BY <1>0, VisibleJoin DEF VisiblePcs
  <2> QED BY <2>1, <2>2, <2>3
<1>2. ASSUME NEW k \in Joiners PROVE LookupInv(k)'
  <2>0. LookupInv(k)
    BY DEF RingInv
  <2>1. CASE k # j
    BY <1>1, <2>0, <2>1, LookupStep
  <2>2. CASE k = j
    BY <1>1, <2>0, <2>2 DEF LookupInv, LookupPcs
  <2> QED BY <2>1, <2>2
<1>3. \A k \in Joiners : pc'[Join(k)] = "answer" => pc[Join(k)] = "answer"
  BY <1>1
<1> QED BY <1>1, <1>2, <1>3 DEF Kept, RingInv, StaysDead, NewsIsSafe, MembersUp

-----------------------------------------------------------------------------
(***************************************************************************)
(* checkSuccessor and updateSuccessorList                                  *)
(***************************************************************************)

\* Where the two functions go on, in stabilize or in a lookup.
ListStep(g) ==
    /\ pc[g] \in {"check", "update"}
    /\ \A h \in Goroutines :
           h # g => pc'[h] = pc[h] /\ level'[h] = level[h] /\ asked'[h] = asked[h]
    /\ g[2] # "stab" => pc'[g] \in {"check", "update", "route"} /\ level'[g] # 3
    /\ asked'[g] \in Circle(Visible, Host(g)) \cup {NoNode}
    /\ UNCHANGED <<status, path, found, pred, copy, cur>>

\* The address of a node's successor, and the nodes it asks, are in its circle.
LEMMA AskedKnown ==
  ASSUME RingInv, NEW g \in Goroutines, Placed(g), pc[g] \in {"check", "update"}, NEW n, n = Host(g)
  PROVE  /\ n \in Nodes /\ asked[g] \in Circle(Visible, n) \cup {NoNode}
         /\ \A i \in 1 .. NumSucc : succ[n][i].Ip \in Circle(Visible, n) \cup {NoNode}
         /\ Circle(Visible, n) \subseteq Nodes
<1>0. TypeOK /\ KnownInv
  BY DEF RingInv, TypeInv
<1>1. n \in Nodes
  BY <1>0, HostIs
<1>2. asked[g] \in Circle(Visible, n) \cup {NoNode}
  <2>1. CASE g[2] = "stab"
    BY <1>0, <2>1, Threads, Hosts DEF KnownInv
  <2>2. CASE g[2] # "stab"
    <3>1. PICK j \in Joiners : g = Join(j)
      BY <2>2, Threads
    <3>2. LookupInv(j) /\ path[j] # <<>>
      BY <3>1 DEF RingInv, TypeInv, PathInv, LookupPcs
    <3>3. n = path[j][Len(path[j])] /\ Len(path[j]) \in 1 .. Len(path[j])
      BY <1>0, <3>1, <3>2, Hosts
    <3>4. n \in Visible /\ asked[g] \in Visible \cup {NoNode}
      BY <3>1, <3>2, <3>3 DEF LookupInv
    <3> QED BY <3>4 DEF Circle
  <2> QED BY <2>1, <2>2
<1>3. ASSUME NEW i \in 1 .. NumSucc PROVE succ[n][i].Ip \in Circle(Visible, n) \cup {NoNode}
  <2>1. succ[n][i] \in Contacts(Visible, n)
    BY <1>0, <1>1 DEF KnownInv
  <2>2. CASE succ[n][i] = NoFinger
    BY <2>2, Fingers
  <2>3. CASE succ[n][i] # NoFinger
    BY <1>1, <2>1, <2>3, ContactIs
  <2> QED BY <2>2, <2>3
<1> QED BY <1>1, <1>2, <1>3, VisibleNodes

LEMMA ReturnsIs ==
  ASSUME RingInv, NEW g \in Goroutines, Placed(g), pc[g] \in {"check", "update"}, Returns(g)
  PROVE  /\ \A h \in Goroutines :
                h # g => pc'[h] = pc[h] /\ level'[h] = level[h] /\ asked'[h] = asked[h]
         /\ g[2] # "stab" => pc'[g] \in {"check", "update", "route"} /\ level'[g] # 3
         /\ asked'[g] \in Circle(Visible, Host(g)) \cup {NoNode}
<1>0. TypeOK
  BY DEF RingInv, TypeInv
<1>1. \A h \in Goroutines : h # g => pc'[h] = pc[h] /\ level'[h] = level[h] /\ asked'[h] = asked[h]
  BY <1>0 DEF Returns, Goto, Ask, TypeOK
<1>2. ASSUME g[2] # "stab" PROVE pc'[g] \in {"check", "update", "route"} /\ level'[g] # 3
  <2>1. PICK j \in Joiners : g = Join(j)
    BY <1>2, Threads
  <2>2. level[g] # 3
    BY <2>1 DEF RingInv, LookupInv
  <2> QED BY <1>0, <1>2, <2>2 DEF Returns, Goto, TypeOK
<1>3. asked'[g] \in Circle(Visible, Host(g)) \cup {NoNode}
  <2>1. PICK n : n = Host(g)
    OBVIOUS
  <2>2. succ[n][1].Ip \in Circle(Visible, n) \cup {NoNode}
    BY <2>1, AskedKnown, RingAssumption
  <2>3. PICK ip : Ask(g, ip) /\ (ip = NoNode \/ ip = succ[n][1].Ip)
    BY <2>1 DEF Returns
  <2>4. asked'[g] = ip
    BY <1>0, <2>3 DEF Ask, TypeOK
  <2> QED BY <2>1, <2>2, <2>3, <2>4
<1> QED BY <1>1, <1>2, <1>3

LEMMA ListVisible ==
  ASSUME RingInv, NEW g \in Goroutines, ListStep(g)
  PROVE  Visible' = Visible
<1>0. TypeOK
  BY DEF RingInv, TypeInv
<1>1. CASE g[2] = "stab"
  BY <1>0, <1>1, VisibleStab, Threads DEF ListStep
<1>2. CASE g[2] # "stab"
  <2>1. PICK j \in Joiners : g = Join(j)
    BY <1>2, Threads
  <2>2. j \notin Visible
    BY <2>1, VisibleNodes DEF VisiblePcs, ListStep
  <2>3. Visible' = Visible \ {j}
    BY <1>0, <1>2, <2>1, VisibleJoin DEF VisiblePcs, ListStep
  <2> QED BY <2>2, <2>3
<1> QED BY <1>1, <1>2

\* The node a lookup runs on.
LEMMA LookupHost ==
  ASSUME RingInv, NEW j \in Joiners, pc[Join(j)] \in LookupPcs
  PROVE  /\ path[j] # <<>> /\ path[j] \in Seq(Nodes)
         /\ Host(Join(j)) \in Visible /\ Host(Join(j)) \in Nodes
         /\ j \notin Visible
<1>0. TypeOK /\ LookupInv(j) /\ PathInv
  BY DEF RingInv, TypeInv
<1>1. path[j] # <<>> /\ path[j] \in Seq(Nodes)
  BY <1>0 DEF PathInv, TypeOK
<1>2. /\ Host(Join(j)) = path[j][Len(path[j])] /\ Host(Join(j)) \in Nodes
      /\ Len(path[j]) \in 1 .. Len(path[j])
  BY <1>0, <1>1, Hosts
<1>3. Host(Join(j)) \in Visible
  BY <1>0, <1>2 DEF LookupInv
<1>4. j \notin Visible
  BY VisibleNodes DEF LookupPcs, VisiblePcs
<1> QED BY <1>1, <1>2, <1>3, <1>4

LEMMA ListKept ==
  ASSUME RingInv, NEW g \in Goroutines, Placed(g), ListStep(g), TypeInv',
         \A n \in Nodes :
             /\ \A i \in 1 .. NumSucc : succ'[n][i] = succ[n][i] \/ succ'[n][i] \in Contacts(Visible, n)
             /\ succ'[n][1] = succ[n][1] \/ succ'[n][1] # NoFinger
  PROVE  Kept
<1>0. TypeOK /\ PathInv
  BY DEF RingInv, TypeInv
<1>1. Visible' = Visible
  BY ListVisible
<1>2. KnownInv'
  <2>1. PICK W : W = Visible' /\ W = Visible
    BY <1>1
  <2>2. \A n \in Nodes : asked'[Stab(n)] = asked[Stab(n)]
                           \/ asked'[Stab(n)] \in Circle(W, n) \cup {NoNode}
    <3> SUFFICES ASSUME NEW n \in Nodes
                 PROVE  \/ asked'[Stab(n)] = asked[Stab(n)]
                        \/ asked'[Stab(n)] \in Circle(W, n) \cup {NoNode}
      OBVIOUS
    <3>1. CASE g = Stab(n)
      BY <1>0, <2>1, <3>1, Hosts DEF ListStep
    <3>2. CASE g # Stab(n)
      BY <3>2, Threads DEF ListStep
    <3> QED BY <3>1, <3>2
  <2> QED BY <2>1, <2>2, KnownStep DEF RingInv, ListStep
<1>3. CASE g[2] = "stab"
  BY <1>2, <1>3, StabKept, Threads DEF ListStep
<1>4. CASE g[2] # "stab"
  <2>1. PICK j \in Joiners : g = Join(j) /\ pc[Join(j)] \in LookupPcs
    BY <1>4, Threads DEF ListStep, LookupPcs
  <2>2. Host(g) \in Visible
    BY <2>1, LookupHost
  <2>3. asked'[Join(j)] \in Visible \cup {NoNode}
    BY <2>1, <2>2 DEF ListStep, Circle
  <2> QED BY <1>2, <1>4, <2>1, <2>3, RetryKept DEF ListStep
<1> QED BY <1>3, <1>4

LEMMA CheckKept ==
  ASSUME RingInv, NEW g \in Goroutines, Placed(g), CheckSuccessor(g)
  PROVE  Kept
<1>0. TypeInv /\ TypeOK /\ KnownInv /\ TypeInv'
  BY CheckTypes DEF RingInv, TypeInv
<1>1. PICK n \in Nodes : n = Host(g)
  BY <1>0, HostIs
<1>2. pc[g] = "check" /\ UNCHANGED <<status, path, found, pred, copy, cur>>
  BY DEF CheckSuccessor, stabVars, joinVars
<1>3. CASE Returns(g) /\ UNCHANGED succ
  <2>1. ListStep(g)
    BY <1>2, <1>3, ReturnsIs DEF ListStep
  <2> QED BY <1>0, <1>3, <2>1, ListKept
<1>4. CASE /\ succ' = [succ EXCEPT ![n][1] = FirstWorking(n)]
           /\ Goto(g, "update") /\ Ask(g, FirstWorking(n).Ip) /\ UNCHANGED level
  <2>1. FirstWorking(n) \in Contacts(Visible, n) /\ FirstWorking(n) # NoFinger
    BY <1>0, WorkingContact
  <2>2. FirstWorking(n) \in FingerType
    BY <1>0, FirstWorkingIs, Fingers, ListTypes
  <2>3. /\ succ'[n][1] = FirstWorking(n)
        /\ \A i \in 1 .. NumSucc : i # 1 => succ'[n][i] = succ[n][i]
        /\ \A m \in Nodes : m # n => succ'[m] = succ[m]
    BY <1>0, <1>4, <2>2, HeadTypes
  <2>4. pc'[g] = "update" /\ \A h \in Goroutines : h # g => pc'[h] = pc[h]
    BY <1>0, <1>4, GotoStep DEF Places
  <2>5. PICK x \in Nodes : x \in Circle(Visible, n) /\ FirstWorking(n).Ip = x
    BY <2>1, ContactIs
  <2>6. asked'[g] = x /\ \A h \in Goroutines : h # g => asked'[h] = asked[h]
    BY <1>0, <1>4, <2>5, AskStep
  <2>7. ListStep(g)
    <3>1. g[2] # "stab" => level[g] # 3
      BY Threads DEF RingInv, LookupInv
    <3> QED BY <1>1, <1>2, <1>4, <2>4, <2>5, <2>6, <3>1 DEF ListStep
  <2>8. \A k \in Nodes :
            /\ \A i \in 1 .. NumSucc : succ'[k][i] = succ[k][i] \/ succ'[k][i] \in Contacts(Visible, k)
            /\ succ'[k][1] = succ[k][1] \/ succ'[k][1] # NoFinger
    BY <2>1, <2>3
  <2> QED BY <1>0, <2>7, <2>8, ListKept
<1> QED BY <1>1, <1>3, <1>4 DEF CheckSuccessor

LEMMA UpdateKept ==
  ASSUME RingInv, NEW g \in Goroutines, Placed(g), UpdateSuccessorList(g)
  PROVE  Kept
<1>0. TypeInv /\ TypeOK /\ KnownInv /\ TypeInv'
  BY UpdateTypes DEF RingInv, TypeInv
<1>1. PICK n \in Nodes : n = Host(g)
  BY <1>0, HostIs
<1>2. pc[g] = "update" /\ UNCHANGED <<status, path, found, pred, copy, cur>>
  BY DEF UpdateSuccessorList, stabVars, joinVars
<1>3. CASE /\ Alive(asked[g]) /\ succ' = [succ EXCEPT ![n] = Shifted(n, asked[g])]
           /\ Returns(g)
  <2>1. ListStep(g)
    BY <1>2, <1>3, ReturnsIs DEF ListStep
  <2>2. PICK m \in Nodes : m = asked[g] /\ m \in Circle(Visible, n)
    BY <1>1, <1>2, <1>3, AskedKnown DEF Alive
  <2>3. /\ succ'[n][1] = succ[n][1]
        /\ \A i \in 1 .. NumSucc : succ'[n][i] \in Contacts(Visible, n)
        /\ \A k \in Nodes : k # n => succ'[k] = succ[k]
    BY <1>3, <2>2, ShiftedContacts
  <2> QED BY <1>0, <2>1, <2>3, ListKept
<1>4. CASE Goto(g, "check") /\ Ask(g, succ[n][1].Ip) /\ UNCHANGED <<succ, level>>
  <2>1. pc'[g] = "check" /\ \A h \in Goroutines : h # g => pc'[h] = pc[h]
    BY <1>0, <1>4, GotoStep DEF Places
  <2>2. succ[n][1].Ip \in Circle(Visible, n) \cup {NoNode} /\ succ[n][1].Ip \in Nodes \cup {NoNode}
    BY <1>0, <1>1, <1>2, AskedKnown, ListTypes
  <2>3. asked'[g] = succ[n][1].Ip /\ \A h \in Goroutines : h # g => asked'[h] = asked[h]
    BY <1>0, <1>4, <2>2, AskStep
  <2>4. ListStep(g)
    <3>1. g[2] # "stab" => level[g] # 3
      BY Threads DEF RingInv, LookupInv
    <3> QED BY <1>1, <1>2, <1>4, <2>1, <2>2, <2>3, <3>1 DEF ListStep
  <2> QED BY <1>0, <1>4, <2>4, ListKept
<1> QED BY <1>1, <1>3, <1>4 DEF UpdateSuccessorList

-----------------------------------------------------------------------------
(***************************************************************************)
(* stabilize, check_predecessor and crashes                                *)
(***************************************************************************)

LEMMA LockKept ==
  ASSUME RingInv, NEW n \in Nodes, StabilizeLock(n)
  PROVE  Kept
<1>0. TypeInv /\ TypeOK /\ KnownInv /\ TypeInv' /\ Stab(n) \in Goroutines
  BY StabTypes, Threads DEF RingInv, TypeInv
<1>1. /\ \A h \in Goroutines : h # Stab(n) => pc'[h] = pc[h]
      /\ \A h \in Goroutines : h # Stab(n) => level'[h] = level[h] /\ asked'[h] = asked[h]
      /\ asked'[Stab(n)] = succ[n][1].Ip
  BY <1>0 DEF StabilizeLock, Goto, Ask, TypeOK
<1>2. UNCHANGED <<status, succ, pred, copy, cur, path, found>> /\ status[n] = "up"
  BY DEF StabilizeLock, nodeVars, stabVars, joinVars, Alive
<1>3. PICK W : W = Visible' /\ W = Visible
  BY <1>0, <1>1, VisibleStab
<1>4. KnownInv'
  <2>1. succ[n][1].Ip \in Circle(W, n)
    BY <1>2, <1>3, SuccessorIs
  <2>2. \A k \in Nodes : k # n => asked'[Stab(k)] = asked[Stab(k)]
    BY <1>1, Threads
  <2> QED BY <1>0, <1>1, <1>2, <1>3, <2>1, <2>2, KnownStep
<1> QED BY <1>0, <1>1, <1>2, <1>4, StabKept

\* Steps of stabilize that ask nobody under the lock.
LEMMA UnlockKept ==
  ASSUME RingInv, NEW n \in Nodes, StabilizeUnlock(n)
  PROVE  Kept
<1>0. TypeInv /\ TypeOK /\ KnownInv /\ TypeInv' /\ Stab(n) \in Goroutines
  BY StabTypes, Threads DEF RingInv, TypeInv
<1>1. \A h \in Goroutines : h # Stab(n) => pc'[h] = pc[h]
  BY <1>0 DEF StabilizeUnlock, Goto, TypeOK
<1>2. /\ UNCHANGED <<status, succ, pred, level, asked, cur, path, found>>
      /\ copy' = [copy EXCEPT ![n] = succ[n][1]]
  BY DEF StabilizeUnlock, nodeVars, joinVars
<1>3. PICK W : W = Visible' /\ W = Visible
  BY <1>0, <1>1, VisibleStab
<1>4. \A k \in Nodes : copy'[k] = copy[k] \/ copy'[k] \in Contacts(W, k)
  BY <1>0, <1>2, <1>3, RingAssumption DEF TypeOK, KnownInv
<1>5. KnownInv'
  BY <1>0, <1>2, <1>3, <1>4, KnownStep
<1> QED BY <1>0, <1>1, <1>2, <1>5, StabKept

LEMMA GetPredecessorKept ==
  ASSUME RingInv, NEW n \in Nodes, GetPredecessor(n)
  PROVE  Kept
<1>0. TypeInv /\ TypeOK /\ KnownInv /\ TypeInv' /\ Stab(n) \in Goroutines
  BY StabTypes, Threads DEF RingInv, TypeInv
<1>1. \A h \in Goroutines : h # Stab(n) => pc'[h] = pc[h]
  BY <1>0 DEF GetPredecessor, Goto, TypeOK
<1>2. UNCHANGED <<status, succ, pred, level, asked, copy, path, found>>
  BY DEF GetPredecessor, nodeVars, joinVars
<1>3. PICK W : W = Visible' /\ W = Visible
  BY <1>0, <1>1, VisibleStab
<1>4. \A k \in Nodes : cur'[k] = cur[k] \/ cur'[k] \in Circle(W, k) \cup {NoNode}
  <2>1. CASE cur' = cur
    BY <2>1
  <2>2. CASE Alive(copy[n].Ip) /\ cur' = [cur EXCEPT ![n] = pred[copy[n].Ip]]
    <3>1. copy[n] \in Contacts(Visible, n) /\ copy[n].Ip # NoNode
      BY <1>0, <2>2 DEF KnownInv, Alive
    <3>2. PICK m \in Nodes : m \in Circle(Visible, n) /\ copy[n].Ip = m
      BY <3>1, ContactIs
    <3>3. pred[m] \in Circle(Visible, n) \cup {NoNode}
      BY <1>0, <3>2, CircleIs DEF KnownInv
    <3> QED BY <1>0, <1>3, <2>2, <3>2, <3>3 DEF TypeOK
  <2> QED BY <2>1, <2>2 DEF GetPredecessor
<1>5. KnownInv'
  BY <1>0, <1>2, <1>3, <1>4, KnownStep
<1> QED BY <1>0, <1>1, <1>2, <1>5, StabKept

LEMMA RecheckKept ==
  ASSUME RingInv, NEW n \in Nodes, Recheck(n)
  PROVE  Kept
<1>0. TypeInv /\ TypeOK /\ KnownInv /\ TypeInv' /\ Stab(n) \in Goroutines
  BY StabTypes, Threads DEF RingInv, TypeInv
<1>1. \A h \in Goroutines : h # Stab(n) => pc'[h] = pc[h]
  BY <1>0 DEF Recheck, Goto, TypeOK
<1>2. UNCHANGED <<status, succ, pred, level, asked, copy, path, found>>
  BY DEF Recheck, nodeVars, joinVars
<1>3. PICK W : W = Visible' /\ W = Visible
  BY <1>0, <1>1, VisibleStab
<1>4. \A k \in Nodes : cur'[k] = cur[k] \/ cur'[k] = NoNode
  BY <1>0 DEF TypeOK, Recheck
<1>5. KnownInv'
  BY <1>0, <1>2, <1>3, <1>4, KnownStep
<1> QED BY <1>0, <1>1, <1>2, <1>5, StabKept

LEMMA AdoptKept ==
  ASSUME RingInv, NEW n \in Nodes, Adopt(n)
  PROVE  Kept
<1>0. TypeInv /\ TypeOK /\ KnownInv /\ TypeInv' /\ Stab(n) \in Goroutines
  BY StabTypes, Threads DEF RingInv, TypeInv
<1>1. /\ \A h \in Goroutines : h # Stab(n) => pc'[h] = pc[h]
      /\ \A h \in Goroutines : h # Stab(n) => level'[h] = level[h] /\ asked'[h] = asked[h]
  <2>1. \E p : Goto(Stab(n), p)
    BY DEF Adopt
  <2>2. level' = level \/ level' = [level EXCEPT ![Stab(n)] = 3]
    BY DEF Adopt
  <2>3. asked' = asked \/ Ask(Stab(n), cur[n])
    BY DEF Adopt
  <2> QED BY <1>0, <2>1, <2>2, <2>3 DEF Goto, Ask, TypeOK
<1>2. UNCHANGED <<status, pred, path, found>> /\ cur' = [cur EXCEPT ![n] = NoNode]
  BY DEF Adopt, joinVars
<1>3. PICK W : W = Visible' /\ W = Visible
  BY <1>0, <1>1, VisibleStab
<1>4. \A k \in Nodes : cur'[k] = cur[k] \/ cur'[k] = NoNode
  BY <1>0, <1>2 DEF TypeOK
<1>5. \A k \in Nodes : k # n => asked'[Stab(k)] = asked[Stab(k)]
  BY <1>1, Threads
<1>6. CASE UNCHANGED <<succ, copy, asked>>
  <2>1. KnownInv'
    BY <1>0, <1>2, <1>3, <1>4, <1>6, KnownStep
  <2> QED BY <1>0, <1>1, <1>2, <2>1, StabKept
<1>7. CASE /\ Alive(cur[n]) /\ succ' = [succ EXCEPT ![n][1] = Finger(cur[n])]
           /\ copy' = [copy EXCEPT ![n] = Finger(cur[n])] /\ Ask(Stab(n), cur[n])
  <2>1. PICK m \in Nodes : m = cur[n] /\ m \in Circle(Visible, n)
    BY <1>0, <1>7, VisibleNodes DEF KnownInv, Alive
  <2>2. /\ Finger(m) \in FingerType /\ Finger(m) # NoFinger /\ Finger(m).Ip = m
        /\ Finger(m) \in Contacts(W, n)
    BY <1>3, <2>1, Fingers DEF Contacts
  <2>3. /\ succ'[n][1] = Finger(m)
        /\ \A i \in 1 .. NumSucc : i # 1 => succ'[n][i] = succ[n][i]
        /\ \A k \in Nodes : k # n => succ'[k] = succ[k]
    BY <1>0, <1>7, <2>1, <2>2, HeadTypes
  <2>4. copy'[n] = Finger(m) /\ \A k \in Nodes : k # n => copy'[k] = copy[k]
    BY <1>0, <1>7, <2>1 DEF TypeOK
  <2>5. asked'[Stab(n)] \in Circle(W, n)
    BY <1>0, <1>3, <1>7, <2>1, AskStep
  <2>6. KnownInv'
    BY <1>0, <1>2, <1>3, <1>4, <1>5, <2>2, <2>3, <2>4, <2>5, KnownStep
  <2> QED BY <1>0, <1>1, <1>2, <2>6, StabKept
<1> QED BY <1>6, <1>7 DEF Adopt

\* Both sides of a notify are visible.
LEMMA NotifyKnown ==
  ASSUME RingInv, NEW n \in Nodes, NEW m \in Circle(Visible, n), Notify(m, n)
  PROVE  \A k \in Nodes : pred'[k] = pred[k] \/ pred'[k] \in Circle(Visible, k)
<1>0. TypeOK
  BY DEF RingInv, TypeInv
<1>1. n \in Circle(Visible, m)
  BY CircleIs
<1>2. m \in Nodes
  BY VisibleNodes
<1> QED BY <1>0, <1>1, <1>2 DEF Notify, TypeOK

LEMMA NotifyKept ==
  ASSUME RingInv, NEW n \in Nodes, NotifySuccessor(n)
  PROVE  Kept
<1>0. TypeInv /\ TypeOK /\ KnownInv /\ TypeInv' /\ Stab(n) \in Goroutines
  BY StabTypes, Threads DEF RingInv, TypeInv
<1>1. \A h \in Goroutines : h # Stab(n) => pc'[h] = pc[h]
  BY <1>0 DEF NotifySuccessor, Goto, TypeOK
<1>2. UNCHANGED <<status, succ, level, asked, cur, path, found>> /\ copy' = [copy EXCEPT ![n] = NoFinger]
  BY DEF NotifySuccessor, joinVars
<1>3. PICK W : W = Visible' /\ W = Visible
  BY <1>0, <1>1, VisibleStab
<1>4. \A k \in Nodes : pred'[k] = pred[k] \/ pred'[k] \in Circle(W, k)
  <2>1. CASE UNCHANGED pred
    BY <2>1
  <2>2. CASE Alive(copy[n].Ip) /\ Notify(copy[n].Ip, n)
    <3>1. copy[n] \in Contacts(Visible, n) /\ copy[n].Ip # NoNode
      BY <1>0, <2>2 DEF KnownInv, Alive
    <3>2. PICK m \in Nodes : m \in Circle(Visible, n) /\ copy[n].Ip = m
      BY <3>1, ContactIs
    <3> QED BY <1>3, <2>2, <3>2, NotifyKnown
  <2> QED BY <2>1, <2>2 DEF NotifySuccessor
<1>5. \A k \in Nodes : copy'[k] = copy[k] \/ copy'[k] \in Contacts(W, k)
  BY <1>0, <1>2 DEF TypeOK, Contacts
<1>6. KnownInv'
  BY <1>0, <1>2, <1>3, <1>4, <1>5, KnownStep
<1> QED BY <1>0, <1>1, <1>2, <1>6, StabKept

LEMMA CheckPredecessorKept ==
  ASSUME RingInv, TypeInv', NEW n \in Nodes, CheckPredecessor(n)
  PROVE  Kept
<1>0. TypeInv /\ TypeOK /\ KnownInv
  BY DEF RingInv, TypeInv
<1>1. /\ UNCHANGED <<status, succ, pc, level, asked, copy, cur, path, found>>
      /\ pred' = [pred EXCEPT ![n] = NoNode]
  BY DEF CheckPredecessor, stabVars, joinVars
<1>2. PICK W : W = Visible' /\ W = Visible
  BY <1>1 DEF Visible
<1>3. \A k \in Nodes : pred'[k] = pred[k] \/ pred'[k] = NoNode
  BY <1>0, <1>1 DEF TypeOK
<1>4. KnownInv'
  BY <1>0, <1>1, <1>2, <1>3, KnownStep
<1> QED BY <1>0, <1>1, <1>4, StabKept

\* The end of a process.
LEMMA DiesKnown ==
  ASSUME RingInv, NEW n \in Nodes, NEW how, how \notin {"up", "down"}, Dies(n, how),
         Visible \subseteq Visible', \A k \in Nodes : asked'[Stab(k)] = asked[Stab(k)]
  PROVE  /\ KnownInv' /\ StaysDead /\ ~AllWell'
         /\ status'[n] = how /\ \A k \in Nodes : k # n => status'[k] = status[k]
<1>0. TypeOK /\ KnownInv
  BY DEF RingInv, TypeInv
<1>1. /\ status'[n] = how /\ \A k \in Nodes : k # n => status'[k] = status[k]
      /\ pred'[n] = NoNode /\ \A k \in Nodes : k # n => pred'[k] = pred[k]
      /\ copy'[n] = NoFinger /\ \A k \in Nodes : k # n => copy'[k] = copy[k]
      /\ cur'[n] = NoNode /\ \A k \in Nodes : k # n => cur'[k] = cur[k]
      /\ \A i \in 1 .. NumSucc : succ'[n][i] = NoFinger
      /\ \A k \in Nodes : k # n => succ'[k] = succ[k]
  BY <1>0 DEF TypeOK, Dies
<1>2. PICK W : W = Visible' /\ Visible \subseteq W
  OBVIOUS
<1>3. KnownInv'
  BY <1>0, <1>1, <1>2, KnownStep DEF Contacts
<1>4. StaysDead
  BY <1>1 DEF StaysDead
<1>5. ~AllWell'
  BY <1>1 DEF AllWell
<1> QED BY <1>1, <1>3, <1>4, <1>5

LEMMA CrashKept ==
  ASSUME RingInv, TypeInv', NEW n \in Nodes, NEW how, how \notin {"up", "down"}, Alive(n),
         Dies(n, how), UNCHANGED <<pc, level, asked, path, found>>
  PROVE  Kept
<1>1. Visible' = Visible
  BY DEF Visible
<1>2. /\ KnownInv' /\ StaysDead /\ ~AllWell'
      /\ status'[n] = how /\ \A k \in Nodes : k # n => status'[k] = status[k]
  BY <1>1, DiesKnown
<1>3. ASSUME NEW j \in Joiners PROVE LookupInv(j)'
  BY <1>1, <1>2, LookupStep, Threads DEF RingInv, Alive
<1>4. MembersUp'
  BY <1>2 DEF RingInv, MembersUp, Alive
<1> QED BY <1>2, <1>3, <1>4 DEF Kept, RingInv, NewsIsSafe

-----------------------------------------------------------------------------
(***************************************************************************)
(* create and join, if the write of the answer is not torn                 *)
(***************************************************************************)

\* A step of the goroutine of join, or of its lookup on another node.
LEMMA JoinKept ==
  ASSUME RingInv, TypeInv', KnownInv', StaysDead, NEW j \in Joiners, LookupInv(j)',
         Visible \subseteq Visible', \A k \in Visible' : k # j => k \in Visible,
         \A h \in Goroutines :
             h # Join(j) => pc'[h] = pc[h] /\ level'[h] = level[h] /\ asked'[h] = asked[h],
         \A k \in Joiners : k # j => path'[k] = path[k] /\ found'[k] = found[k],
         \A k \in Nodes : k # j => status'[k] = status[k],
         AllWell /\ AllWell' /\ SafeInv =>
             /\ j \in Visible' /\ j \notin Visible => Safe(j, succ'[j][1].Id)
             /\ pc'[Join(j)] = "answer" => Safe(j, found'[j].Id)
  PROVE  Kept
<1>0. \A k \in Joiners : k # j => Join(k) # Join(j) /\ Join(k) \in Goroutines /\ k \in Nodes
  BY Threads
<1>1. ASSUME NEW k \in Joiners PROVE LookupInv(k)'
  <2>1. CASE k = j
    BY <2>1
  <2>2. CASE k # j
    <3>1. LookupInv(k)
      BY DEF RingInv
    <3> QED BY <1>0, <2>2, <3>1, LookupStep
  <2> QED BY <2>1, <2>2
<1>2. MembersUp'
  BY DEF RingInv, MembersUp
<1>3. NewsIsSafe
  <2> SUFFICES ASSUME AllWell, AllWell', SafeInv
               PROVE  /\ \A n \in Visible' : n \notin Visible => Safe(n, succ'[n][1].Id)
                      /\ \A k \in Joiners : pc'[Join(k)] = "answer" =>
                             \/ pc[Join(k)] = "answer" /\ found'[k] = found[k]
                             \/ Safe(k, found'[k].Id)
    BY DEF NewsIsSafe
  <2> QED BY <1>0
<1> QED BY <1>1, <1>2, <1>3 DEF Kept, RingInv

\* The step leaves the lists of contacts alone.
LEMMA QuietStep ==
  ASSUME RingInv, Visible \subseteq Visible', UNCHANGED <<nodeVars, stabVars>>,
         \A n \in Nodes : asked'[Stab(n)] = asked[Stab(n)]
  PROVE  /\ KnownInv' /\ StaysDead
         /\ UNCHANGED <<status, succ, pred, copy, cur>>
<1>1. UNCHANGED <<status, succ, pred, copy, cur>>
  BY DEF nodeVars, stabVars
<1>2. PICK W : W = Visible' /\ Visible \subseteq W
  OBVIOUS
<1>3. KnownInv'
  BY <1>1, <1>2, KnownStep DEF RingInv
<1> QED BY <1>1, <1>3 DEF StaysDead

\* Where a goroutine of join is, and who is visible after its step.
LEMMA JoinGoto ==
  ASSUME RingInv, NEW j \in Joiners, NEW p \in Places, Goto(Join(j), p)
  PROVE  /\ pc'[Join(j)] = p /\ \A h \in Goroutines : h # Join(j) => pc'[h] = pc[h]
         /\ p \in VisiblePcs => Visible' = Visible \cup {j}
         /\ p \notin VisiblePcs => Visible' = Visible \ {j}
         /\ j \in Visible <=> pc[Join(j)] \in VisiblePcs
<1>0. TypeOK /\ Join(j) \in Goroutines
  BY Threads DEF RingInv, TypeInv
<1>1. pc'[Join(j)] = p /\ \A h \in Goroutines : h # Join(j) => pc'[h] = pc[h]
  BY <1>0, GotoStep
<1> QED BY <1>0, <1>1, VisibleJoin, VisibleNodes

LEMMA CreateKept ==
  ASSUME RingInv, NEW j \in Joiners, Create(j)
  PROVE  Kept
<1>0. TypeInv /\ TypeOK /\ KnownInv /\ LookupInv(j) /\ TypeInv' /\ j \in Nodes
  BY CreateTypes, Threads DEF RingInv, TypeInv
<1>1. /\ pc'[Join(j)] = "call" /\ \A h \in Goroutines : h # Join(j) => pc'[h] = pc[h]
      /\ Visible' = Visible
  BY JoinGoto DEF Create, Places, VisiblePcs
<1>2. /\ status'[j] = "up" /\ \A k \in Nodes : k # j => status'[k] = status[k]
      /\ status[j] = "down"
  BY <1>0 DEF Create, TypeOK, LookupInv
<1>3. /\ succ'[j][1] = Finger(j) /\ \A i \in 1 .. NumSucc : i # 1 => succ'[j][i] = succ[j][i]
      /\ \A m \in Nodes : m # j => succ'[m] = succ[m]
  BY <1>0, HeadTypes, Fingers DEF Create
<1>4. UNCHANGED <<pred, level, asked, copy, cur, path, found>>
  BY DEF Create, stabVars, joinVars
<1>5. KnownInv'
  <2>1. PICK W : W = Visible' /\ W = Visible
    BY <1>1
  <2>2. Finger(j) \in Contacts(W, j) /\ Finger(j) # NoFinger
    BY <1>0, CircleIs, Fingers DEF Contacts
  <2> QED BY <1>0, <1>2, <1>3, <1>4, <2>1, <2>2, KnownStep
<1>6. StaysDead
  BY <1>2, <1>3 DEF StaysDead
<1>7. path[j] = <<>>
  BY <1>0 DEF LookupInv, LookupPcs, Create
<1>8. LookupInv(j)'
  BY <1>0, <1>1, <1>2, <1>4, <1>7 DEF LookupInv
<1> QED BY <1>0, <1>1, <1>2, <1>4, <1>5, <1>6, <1>8, JoinKept

LEMMA JoinCallKept ==
  ASSUME RingInv, NEW j \in Joiners, JoinCall(j)
  PROVE  Kept
<1>0. TypeInv /\ TypeOK /\ KnownInv /\ LookupInv(j) /\ TypeInv' /\ j \in Nodes
  BY CallTypes, Threads DEF RingInv, TypeInv
<1>1. /\ level' = level /\ asked' = asked /\ found' = found /\ path[j] = <<>>
      /\ status[j] = "up" /\ pc[Join(j)] = "call"
  BY <1>0 DEF JoinCall, LookupInv, LookupPcs, Alive
<1>2. CASE \E m \in Members : /\ path' = [path EXCEPT ![j] = <<m>>] /\ Goto(Join(j), "route")
                              /\ UNCHANGED <<nodeVars, stabVars>>
  <2>1. PICK m \in Members : path' = [path EXCEPT ![j] = <<m>>]
    BY <1>2
  <2>2. PICK s : s = <<m>>
    OBVIOUS
  <2>3. s \in Seq(Nodes) /\ Len(s) = 1 /\ s[1] = m
    BY <2>1, <2>2 DEF Nodes
  <2>4. path'[j] = s /\ \A k \in Joiners : k # j => path'[k] = path[k]
    BY <1>0, <2>1, <2>2, <2>3, PathSet
  <2>5. /\ pc'[Join(j)] = "route" /\ \A h \in Goroutines : h # Join(j) => pc'[h] = pc[h]
        /\ Visible' = Visible
    BY <1>1, <1>2, JoinGoto DEF Places, VisiblePcs
  <2>6. KnownInv' /\ StaysDead /\ UNCHANGED <<status, succ, pred, copy, cur>>
    BY <1>1, <1>2, <2>5, QuietStep
  <2>7. \A i \in 1 .. Len(path'[j]) : path'[j][i] \in Visible'
    <3>1. m \in Visible
      BY VisibleNodes
    <3>2. \A i \in 1 .. Len(s) : s[i] \in Visible
      BY <2>3, <3>1
    <3> QED BY <2>4, <2>5, <3>2
  <2>8. LookupInv(j)'
    BY <1>0, <1>1, <2>5, <2>6, <2>7 DEF LookupInv, LookupPcs
  <2> QED BY <1>0, <1>1, <2>4, <2>5, <2>6, <2>8, JoinKept
<1>3. CASE Dies(j, "unconnected") /\ Goto(Join(j), "gone") /\ UNCHANGED path
  <2>1. /\ pc'[Join(j)] = "gone" /\ \A h \in Goroutines : h # Join(j) => pc'[h] = pc[h]
        /\ Visible' = Visible \cup {j}
    BY <1>3, JoinGoto DEF Places, VisiblePcs
  <2>2. /\ KnownInv' /\ StaysDead /\ ~AllWell'
        /\ status'[j] = "unconnected" /\ \A k \in Nodes : k # j => status'[k] = status[k]
    BY <1>0, <1>1, <1>3, <2>1, DiesKnown
  <2>3. LookupInv(j)'
    BY <1>0, <1>1, <1>3, <2>1, <2>2 DEF LookupInv, VisiblePcs
  <2> QED BY <1>0, <1>1, <1>3, <2>1, <2>2, <2>3, JoinKept
<1> QED BY <1>2, <1>3 DEF JoinCall

\* The lookup ends at the last node before j; no member is passed over.
LEMMA SafeRoute ==
  ASSUME NEW n \in Keys, NEW x \in Keys, NEW j \in Keys, Safe(n, x), j # x,
         keyInBetweenRightInclusive(n, x, j)
  PROVE  Safe(j, x)
<1> SUFFICES ASSUME NEW m \in Members, OnArc(j, x, m) PROVE FALSE
  BY DEF Safe
<1>1. m \in Keys
  BY NodeKeys DEF Nodes
<1>2. OnArc(n, x, m)
  BY <1>1, KeySpaceAssumption DEF OnArc, Distance, Turn, Keys, keyInBetweenRightInclusive,
     keyInBetweenExclusive, compareKeys, sameKey
<1> QED BY <1>2 DEF Safe

LEMMA RouteKept ==
  ASSUME RingInv, NEW j \in Joiners, Route(j)
  PROVE  Kept
<1>0. TypeInv /\ TypeOK /\ KnownInv /\ LookupInv(j) /\ TypeInv' /\ j \in Nodes
  BY RouteTypes, Threads DEF RingInv, TypeInv
<1>1. /\ pc[Join(j)] = "route" /\ level' = level /\ asked' = asked /\ path' = path
      /\ UNCHANGED <<nodeVars, stabVars>>
  BY DEF Route
<1>2. PICK n \in Nodes : /\ n = Host(Join(j)) /\ n \in Visible /\ j \notin Visible
                         /\ status[n] = "up"
  BY <1>1, LookupHost DEF LookupPcs, Route, Alive
<1>3. PICK x \in Nodes : x \in Visible /\ succ[n][1] = Finger(x) /\ succ[n][1].Id = x /\ Finger(x).Id = x
  BY <1>2, SuccessorIs, Fingers DEF Circle
<1>4. PICK p \in {"answer", "closest"} : Goto(Join(j), p)
  BY DEF Route
<1>5. /\ pc'[Join(j)] = p /\ \A h \in Goroutines : h # Join(j) => pc'[h] = pc[h]
      /\ Visible' = Visible
  BY <1>2, <1>4, JoinGoto DEF Places, VisiblePcs
<1>6. KnownInv' /\ StaysDead /\ UNCHANGED <<status, succ, pred, copy, cur>>
  BY <1>1, <1>5, QuietStep
<1>7. /\ \A k \in Joiners : k # j => found'[k] = found[k]
      /\ pc'[Join(j)] = "answer" => /\ found'[j] = Finger(x)
                                    /\ keyInBetweenRightInclusive(n, x, j)
  <2>1. CASE /\ found' = [found EXCEPT ![j] = succ[n][1]]
             /\ keyInBetweenRightInclusive(n, succ[n][1].Id, j)
    BY <1>0, <1>3, <2>1 DEF TypeOK
  <2>2. CASE found' = found /\ Goto(Join(j), "closest")
    <3>1. pc'[Join(j)] = "closest"
      BY <2>2, JoinGoto DEF Places
    <3> QED BY <2>2, <3>1
  <2> QED BY <1>2, <2>1, <2>2 DEF Route
<1>8. LookupInv(j)'
  BY <1>0, <1>1, <1>3, <1>5, <1>6, <1>7 DEF LookupInv, LookupPcs
<1>9. AllWell /\ SafeInv => (pc'[Join(j)] = "answer" => Safe(j, found'[j].Id))
  <2> SUFFICES ASSUME AllWell, SafeInv, pc'[Join(j)] = "answer" PROVE Safe(j, x)
    BY <1>3, <1>7
  <2>1. Safe(n, x)
    BY <1>2, <1>3 DEF SafeInv
  <2> QED BY <1>0, <1>2, <1>3, <1>7, <2>1, SafeRoute, NodeKeys
<1> QED BY <1>0, <1>1, <1>2, <1>5, <1>6, <1>7, <1>8, <1>9, JoinKept

LEMMA ForwardKept ==
  ASSUME RingInv, NEW j \in Joiners, Forward(j)
  PROVE  Kept
<1>0. TypeInv /\ TypeOK /\ KnownInv /\ LookupInv(j) /\ TypeInv' /\ j \in Nodes
  BY ForwardTypes, Threads DEF RingInv, TypeInv
<1>1. pc[Join(j)] = "closest" /\ level' = level /\ asked' = asked /\ found' = found
  BY DEF Forward
<1>2. PICK n \in Nodes : /\ n = Host(Join(j)) /\ n \in Visible /\ j \notin Visible
                         /\ Alive(n) /\ path[j] # <<>> /\ path[j] \in Seq(Nodes)
  BY <1>1, LookupHost DEF LookupPcs, Forward
<1>3. PICK m \in Nodes : m = ClosestSuccessor(n, j) /\ m \in Visible
  <2>1. CASE ClosestSuccessor(n, j) = n
    BY <1>2, <2>1
  <2>2. CASE \E i \in 1 .. NumSucc : /\ ClosestSuccessor(n, j) = succ[n][i].Ip
                                     /\ succ[n][i].Ip # NoNode
    <3>1. PICK i \in 1 .. NumSucc : /\ ClosestSuccessor(n, j) = succ[n][i].Ip
                                    /\ succ[n][i].Ip # NoNode
      BY <2>2
    <3>2. succ[n][i] \in Contacts(Visible, n)
      BY <1>0 DEF KnownInv
    <3>3. \E x \in Nodes : x \in Circle(Visible, n) /\ succ[n][i].Ip = x
      BY <3>1, <3>2, ContactIs
    <3> QED BY <1>2, <3>1, <3>3 DEF Circle
  <2> QED BY <2>1, <2>2, ClosestIs
<1>4. CASE Dies(n, "selfCall") /\ UNCHANGED <<pc, path>>
  BY <1>0, <1>1, <1>2, <1>4, CrashKept
<1>5. CASE /\ path' = [path EXCEPT ![j] = Append(@, m)] /\ Goto(Join(j), "route")
           /\ UNCHANGED <<nodeVars, stabVars>>
  <2>1. PICK s : s = Append(path[j], m)
    OBVIOUS
  <2>2. /\ s \in Seq(Nodes) /\ Len(s) = Len(path[j]) + 1 /\ Len(path[j]) \in Nat
        /\ s[Len(path[j]) + 1] = m /\ \A i \in 1 .. Len(path[j]) : s[i] = path[j][i]
    BY <1>2, <2>1
  <2>3. path'[j] = s /\ \A k \in Joiners : k # j => path'[k] = path[k]
    BY <1>0, <1>5, <2>1, <2>2, PathSet
  <2>4. /\ pc'[Join(j)] = "route" /\ \A h \in Goroutines : h # Join(j) => pc'[h] = pc[h]
        /\ Visible' = Visible
    BY <1>2, <1>5, JoinGoto DEF Places, VisiblePcs
  <2>5. KnownInv' /\ StaysDead /\ UNCHANGED <<status, succ, pred, copy, cur>>
    BY <1>1, <1>5, <2>4, QuietStep
  <2>6. \A i \in 1 .. Len(s) : s[i] \in Visible
    <3>1. \A i \in 1 .. Len(path[j]) : path[j][i] \in Visible
      BY <1>0 DEF LookupInv
    <3>2. \A i \in 1 .. Len(s) : i \in 1 .. Len(path[j]) \/ i = Len(path[j]) + 1
      BY <2>2
    <3> QED BY <1>3, <2>2, <3>1, <3>2
  <2>7. LookupInv(j)'
    BY <1>0, <1>1, <2>3, <2>4, <2>5, <2>6 DEF LookupInv, LookupPcs
  <2> QED BY <1>0, <1>1, <1>2, <2>3, <2>4, <2>5, <2>7, JoinKept
<1>6. CASE Goto(Join(j), "retry") /\ UNCHANGED <<nodeVars, stabVars, path>>
  <2>1. /\ pc'[Join(j)] = "retry" /\ \A h \in Goroutines : h # Join(j) => pc'[h] = pc[h]
        /\ Visible' = Visible
    BY <1>2, <1>6, JoinGoto DEF Places, VisiblePcs
  <2>2. KnownInv' /\ StaysDead /\ UNCHANGED <<status, succ, pred, copy, cur>>
    BY <1>1, <1>6, <2>1, QuietStep
  <2>3. LookupInv(j)'
    BY <1>0, <1>1, <1>6, <2>1, <2>2 DEF LookupInv, LookupPcs
  <2> QED BY <1>0, <1>1, <1>2, <1>6, <2>1, <2>2, <2>3, JoinKept
<1> QED BY <1>2, <1>3, <1>4, <1>5, <1>6 DEF Forward

LEMMA RetryStepKept ==
  ASSUME RingInv, NEW j \in Joiners, Retry(j)
  PROVE  Kept
<1>0. TypeOK /\ TypeInv' /\ Join(j) \in Goroutines
  BY RouteTypes, Threads DEF RingInv, TypeInv
<1>1. pc[Join(j)] = "retry" /\ UNCHANGED <<nodeVars, stabVars>> /\ path' = path /\ found' = found
  BY DEF Retry, joinVars
<1>2. PICK n \in Nodes : n = Host(Join(j)) /\ n \in Visible /\ status[n] = "up" /\ j \notin Visible
  BY <1>1, LookupHost DEF LookupPcs, Retry, Alive
<1>3. /\ pc'[Join(j)] = "check" /\ \A h \in Goroutines : h # Join(j) => pc'[h] = pc[h]
      /\ Visible' = Visible
  BY <1>2, JoinGoto DEF Retry, Places, VisiblePcs
<1>4. level'[Join(j)] = 1 /\ \A h \in Goroutines : h # Join(j) => level'[h] = level[h]
  BY <1>0 DEF Retry, TypeOK
<1>5. /\ asked'[Join(j)] = succ[n][1].Ip /\ \A h \in Goroutines : h # Join(j) => asked'[h] = asked[h]
  BY <1>0, <1>2 DEF Retry, Ask, TypeOK
<1>6. succ[n][1].Ip \in Visible
  BY <1>2, SuccessorIs DEF Circle
<1>7. KnownInv' /\ status' = status
  BY <1>1, <1>3, <1>5, QuietStep, Threads
<1> QED BY <1>0, <1>1, <1>3, <1>4, <1>5, <1>6, <1>7, RetryKept

LEMMA BrokenKept ==
  ASSUME RingInv, NEW j \in Joiners, Broken(j)
  PROVE  Kept
<1>0. /\ TypeInv /\ TypeOK /\ KnownInv /\ LookupInv(j) /\ TypeInv' /\ j \in Nodes
      /\ Join(j) \in Goroutines /\ path[j] \in Seq(Nodes)
  BY BrokenTypes, ParamTypes, Threads DEF RingInv, TypeInv
<1>1. PICK dead : dead = {i \in DOMAIN path[j] : ~Alive(path[j][i])}
  OBVIOUS
<1>2. dead # {} /\ dead \in SUBSET DOMAIN path[j]
  BY <1>1 DEF Broken
<1>3. PICK k : k = Min(dead) /\ k \in DOMAIN path[j] /\ k \in Int
  BY <1>0, <1>2, FirstDead
<1>4. pc[Join(j)] \in LookupPcs /\ j \notin Visible
  <2>1. path[j] # <<>>
    BY <1>2
  <2> QED BY <1>0, <2>1, LookupHost DEF LookupInv
<1>5. /\ level'[Join(j)] = 0 /\ asked'[Join(j)] = NoNode
      /\ \A h \in Goroutines : h # Join(j) => level'[h] = level[h] /\ asked'[h] = asked[h]
      /\ \A i \in Joiners : i # j => found'[i] = found[i]
      /\ \A n \in Nodes : asked'[Stab(n)] = asked[Stab(n)]
  BY <1>0, Threads DEF Broken, Ask, TypeOK
<1>6. CASE /\ k > 1 /\ path' = [path EXCEPT ![j] = SubSeq(@, 1, k - 1)]
           /\ Goto(Join(j), "retry") /\ UNCHANGED <<nodeVars, stabVars>>
  <2>1. PICK s : s = SubSeq(path[j], 1, k - 1)
    OBVIOUS
  <2>2. /\ s \in Seq(Nodes) /\ s # <<>> /\ Len(s) = k - 1
        /\ \A i \in 1 .. (k - 1) : s[i] = path[j][i] /\ i \in 1 .. Len(path[j])
    BY <1>0, <1>3, <1>6, <2>1, Unbroken
  <2>3. path'[j] = s /\ \A i \in Joiners : i # j => path'[i] = path[i]
    BY <1>0, <1>6, <2>1, <2>2, PathSet
  <2>4. /\ pc'[Join(j)] = "retry" /\ \A h \in Goroutines : h # Join(j) => pc'[h] = pc[h]
        /\ Visible' = Visible
    BY <1>4, <1>6, JoinGoto DEF Places, VisiblePcs
  <2>5. KnownInv' /\ StaysDead /\ UNCHANGED <<status, succ, pred, copy, cur>>
    BY <1>5, <1>6, <2>4, QuietStep
  <2>6. \A i \in 1 .. Len(s) : s[i] \in Visible
    BY <1>0, <2>2 DEF LookupInv
  <2>7. LookupInv(j)'
    BY <1>0, <1>4, <1>5, <2>3, <2>4, <2>5, <2>6 DEF LookupInv, LookupPcs
  <2> QED BY <1>0, <1>4, <1>5, <2>3, <2>4, <2>5, <2>7, JoinKept
<1>7. CASE /\ path' = [path EXCEPT ![j] = <<>>] /\ Goto(Join(j), "gone")
           /\ \/ Alive(j) /\ Dies(j, "unconnected")
              \/ ~Alive(j) /\ UNCHANGED <<nodeVars, stabVars>>
  <2>1. <<>> \in Seq(Nodes)
    OBVIOUS
  <2>2. path'[j] = <<>> /\ \A i \in Joiners : i # j => path'[i] = path[i]
    BY <1>0, <1>7, <2>1, PathSet
  <2>3. /\ pc'[Join(j)] = "gone" /\ \A h \in Goroutines : h # Join(j) => pc'[h] = pc[h]
        /\ Visible' = Visible \cup {j}
    BY <1>7, JoinGoto DEF Places, VisiblePcs
  <2>4. /\ KnownInv' /\ StaysDead /\ ~AllWell' /\ status'[j] \notin {"up", "down"}
        /\ \A i \in Nodes : i # j => status'[i] = status[i]
    <3>1. CASE Dies(j, "unconnected")
      BY <1>0, <1>5, <2>3, <3>1, DiesKnown
    <3>2. CASE ~Alive(j) /\ UNCHANGED <<nodeVars, stabVars>>
      <4>1. KnownInv' /\ StaysDead /\ status' = status
        BY <1>5, <2>3, <3>2, QuietStep
      <4>2. status[j] \notin {"up", "down"}
        BY <1>0, <1>4, <3>2, NodeKeys DEF Alive, LookupInv, LookupPcs
      <4> QED BY <1>0, <4>1, <4>2 DEF AllWell
    <3> QED BY <1>7, <3>1, <3>2
  <2>5. Len(path'[j]) = 0
    BY <2>2
  <2>6. LookupInv(j)'
    BY <1>0, <1>4, <1>5, <2>2, <2>3, <2>4, <2>5 DEF LookupInv, LookupPcs, VisiblePcs
  <2> QED BY <1>0, <1>5, <2>2, <2>3, <2>4, <2>6, JoinKept
<1> QED BY <1>1, <1>3, <1>6, <1>7 DEF Broken

\* j writes the answer, and is visible from then on.
LEMMA JoinSuccessorKept ==
  ASSUME ~TornWrites, RingInv, NEW j \in Joiners, JoinSuccessor(j)
  PROVE  Kept
<1>0. /\ TypeInv /\ TypeOK /\ KnownInv /\ LookupInv(j) /\ TypeInv' /\ j \in Nodes
      /\ pc[Join(j)] = "answer" /\ level' = level /\ asked' = asked /\ found' = found
      /\ status' = status
  BY JoinSuccessorTypes, Threads DEF RingInv, TypeInv, JoinSuccessor
<1>1. <<>> \in Seq(Nodes)
  OBVIOUS
<1>2. path'[j] = <<>> /\ Len(path'[j]) = 0 /\ \A i \in Joiners : i # j => path'[i] = path[i]
  BY <1>0, <1>1, PathSet DEF JoinSuccessor
<1>3. PICK x \in Visible : found[j] = Finger(x)
  BY <1>0 DEF LookupInv
<1>4. j \notin Visible /\ x \in Nodes /\ x # j
  BY <1>0, LookupHost, VisibleNodes DEF LookupPcs
<1>5. UNCHANGED <<pred, copy, cur>>
  BY DEF JoinSuccessor, stabVars
<1>6. CASE ~Alive(j) /\ Goto(Join(j), "gone") /\ UNCHANGED succ
  <2>1. /\ pc'[Join(j)] = "gone" /\ \A h \in Goroutines : h # Join(j) => pc'[h] = pc[h]
        /\ Visible' = Visible \cup {j}
    BY <1>6, JoinGoto DEF Places, VisiblePcs
  <2>2. status[j] \notin {"up", "down"}
    BY <1>0, <1>6, NodeKeys DEF Alive, LookupInv
  <2>3. KnownInv' /\ StaysDead /\ ~AllWell'
    <3>1. KnownInv' /\ StaysDead
      BY <1>0, <1>5, <1>6, <2>1, QuietStep DEF nodeVars, stabVars
    <3> QED BY <1>0, <2>2, <3>1 DEF AllWell
  <2>4. LookupInv(j)'
    BY <1>0, <1>2, <2>1, <2>2 DEF LookupInv, VisiblePcs
  <2> QED BY <1>0, <1>2, <2>1, <2>3, <2>4, JoinKept
<1>7. CASE /\ Alive(j) /\ succ' = [succ EXCEPT ![j][1] = found[j]]
           /\ Goto(Join(j), "written")
  <2>1. /\ pc'[Join(j)] = "written" /\ \A h \in Goroutines : h # Join(j) => pc'[h] = pc[h]
        /\ Visible' = Visible \cup {j}
    BY <1>7, JoinGoto DEF Places, VisiblePcs
  <2>2. /\ Finger(x) \in FingerType /\ Finger(x) # NoFinger /\ Finger(x).Ip = x
        /\ Finger(x).Id = x
    BY <1>4, Fingers
  <2>3. /\ succ'[j][1] = Finger(x) /\ \A i \in 1 .. NumSucc : i # 1 => succ'[j][i] = succ[j][i]
        /\ \A m \in Nodes : m # j => succ'[m] = succ[m]
    BY <1>0, <1>3, <1>7, <2>2, HeadTypes
  <2>4. KnownInv'
    <3>1. PICK W : W = Visible' /\ Visible \subseteq W /\ j \in W /\ x \in W
      BY <2>1
    <3>2. Finger(x) \in Contacts(W, j)
      BY <3>1 DEF Contacts, Circle
    <3> QED BY <1>0, <1>5, <2>2, <2>3, <3>1, <3>2, KnownStep
  <2>6. StaysDead
    BY <1>0 DEF StaysDead
  <2>7. AllWell /\ SafeInv => Safe(j, succ'[j][1].Id)
    BY <1>0, <1>3, <2>3 DEF SafeInv
  <2>8. LookupInv(j)'
    BY <1>0, <1>2, <2>1 DEF LookupInv, VisiblePcs
  <2> QED BY <1>0, <1>2, <2>1, <2>4, <2>6, <2>7, <2>8, JoinKept
<1> QED BY <1>6, <1>7 DEF JoinSuccessor

\* j reads back its successor, which stabilize may have replaced.
LEMMA JoinAskKept ==
  ASSUME RingInv, NEW j \in Joiners, JoinAsk(j)
  PROVE  Kept
<1>0. /\ TypeInv /\ TypeOK /\ KnownInv /\ LookupInv(j) /\ TypeInv' /\ j \in Nodes
      /\ pc[Join(j)] = "written" /\ status[j] = "up" /\ level' = level /\ path' = path
      /\ Join(j) \in Goroutines
  BY JoinAskTypes, Threads DEF RingInv, TypeInv, JoinAsk, Alive
<1>1. \A k \in Joiners : k # j => found'[k] = found[k]
  BY <1>0 DEF JoinAsk, TypeOK
<1>2. j \in Visible /\ path[j] = <<>>
  BY <1>0, VisibleNodes DEF LookupInv, LookupPcs, VisiblePcs
<1>3. /\ pc'[Join(j)] = "notify" /\ \A h \in Goroutines : h # Join(j) => pc'[h] = pc[h]
      /\ Visible' = Visible
  BY <1>2, JoinGoto DEF JoinAsk, Places, VisiblePcs
<1>4. asked'[Join(j)] = succ[j][1].Ip /\ \A h \in Goroutines : h # Join(j) => asked'[h] = asked[h]
  BY <1>0 DEF JoinAsk, Ask, TypeOK
<1>5. succ[j][1].Ip \in Visible
  BY <1>0, <1>2, SuccessorIs DEF Circle
<1>6. KnownInv' /\ StaysDead /\ status' = status
  BY <1>3, <1>4, QuietStep, Threads DEF JoinAsk
<1>7. LookupInv(j)'
  BY <1>0, <1>2, <1>3, <1>4, <1>5, <1>6 DEF LookupInv, VisiblePcs
<1> QED BY <1>0, <1>1, <1>2, <1>3, <1>4, <1>6, <1>7, JoinKept

LEMMA JoinNotifyKept ==
  ASSUME RingInv, NEW j \in Joiners, JoinNotify(j)
  PROVE  Kept
<1>0. /\ TypeInv /\ TypeOK /\ KnownInv /\ LookupInv(j) /\ TypeInv' /\ j \in Nodes
      /\ pc[Join(j)] = "notify" /\ level' = level /\ path' = path /\ found' = found
      /\ Join(j) \in Goroutines
  BY JoinNotifyTypes, Threads DEF RingInv, TypeInv, JoinNotify, joinVars
<1>1. asked'[Join(j)] = NoNode /\ \A h \in Goroutines : h # Join(j) => asked'[h] = asked[h]
  BY <1>0 DEF JoinNotify, Ask, TypeOK
<1>2. j \in Visible /\ path[j] = <<>> /\ \A n \in Nodes : asked'[Stab(n)] = asked[Stab(n)]
  BY <1>0, <1>1, VisibleNodes, Threads DEF LookupInv, LookupPcs, VisiblePcs
<1>3. CASE /\ Alive(asked[Join(j)]) /\ Notify(asked[Join(j)], j) /\ Goto(Join(j), "joined")
           /\ UNCHANGED <<status, succ, stabVars>>
  <2>1. /\ pc'[Join(j)] = "joined" /\ \A h \in Goroutines : h # Join(j) => pc'[h] = pc[h]
        /\ Visible' = Visible
    BY <1>2, <1>3, JoinGoto DEF Places, VisiblePcs
  <2>2. UNCHANGED <<status, succ, copy, cur>>
    BY <1>3 DEF stabVars
  <2>3. PICK m : m \in Circle(Visible, j) /\ asked[Join(j)] = m
    BY <1>0, <1>2, <1>3 DEF Alive, LookupInv, Circle
  <2>4. \A k \in Nodes : pred'[k] = pred[k] \/ pred'[k] \in Circle(Visible, k)
    BY <1>0, <1>3, <2>3, NotifyKnown
  <2>5. KnownInv'
    <3>1. PICK W : W = Visible' /\ W = Visible
      BY <2>1
    <3> QED BY <1>0, <1>2, <2>2, <2>4, <3>1, KnownStep
  <2>6. StaysDead
    BY <2>2 DEF StaysDead
  <2>7. LookupInv(j)'
    BY <1>0, <1>1, <1>2, <2>1, <2>2 DEF LookupInv, VisiblePcs
  <2> QED BY <1>0, <1>1, <1>2, <2>1, <2>2, <2>5, <2>6, <2>7, JoinKept
<1>4. CASE Dies(j, "refused") /\ Goto(Join(j), "gone")
  <2>1. /\ pc'[Join(j)] = "gone" /\ \A h \in Goroutines : h # Join(j) => pc'[h] = pc[h]
        /\ Visible' = Visible
    BY <1>2, <1>4, JoinGoto DEF Places, VisiblePcs
  <2>2. /\ KnownInv' /\ StaysDead /\ ~AllWell'
        /\ status'[j] = "refused" /\ \A k \in Nodes : k # j => status'[k] = status[k]
    BY <1>0, <1>2, <1>4, <2>1, DiesKnown
  <2>3. LookupInv(j)'
    BY <1>0, <1>1, <1>2, <2>1, <2>2 DEF LookupInv, VisiblePcs
  <2> QED BY <1>0, <1>1, <2>1, <2>2, <2>3, JoinKept
<1> QED BY <1>3, <1>4 DEF JoinNotify

-----------------------------------------------------------------------------
(***************************************************************************)
(* The ring from the beginning.                                            *)
(***************************************************************************)

LEMMA RingInit == Init => RingInv /\ SafeInv
<1> SUFFICES ASSUME Init PROVE RingInv /\ SafeInv
  OBVIOUS
<1>0. IsFiniteSet(Members) /\ Members \subseteq Nodes /\ Cardinality(Members) \in Nat \ {0}
  BY RingAssumption, FS_Subset, FS_CardinalityType, FS_EmptySet DEF Nodes
<1>1. PICK N \in Nat \ {0} : N = Cardinality(Members)
  BY <1>0
<1>2. \A n \in Nodes, k \in 1 .. N : After(n, k) \in Members
  BY <1>1, AfterIs
<1>3. \A j \in Joiners : pc[Join(j)] = "start" /\ j \in Nodes /\ j \notin Members
  BY Threads, RingAssumption DEF Init
<1>4. Visible = Members
  BY <1>0, <1>3 DEF Visible, VisiblePcs, Nodes
<1>5. /\ 1 \in 1 .. NumSucc /\ ((1 - 1) % N) + 1 = 1
      /\ \A i \in 1 .. NumSucc : ((i - 1) % N) + 1 \in 1 .. N
  BY RingAssumption
<1>6. ASSUME NEW n \in Members
      PROVE  /\ succ[n][1] = Finger(After(n, 1))
             /\ \A i \in 1 .. NumSucc : \E m \in Members : succ[n][i] = Finger(m)
  <2>1. \A i \in 1 .. NumSucc : succ[n][i] = Finger(After(n, ((i - 1) % N) + 1))
    BY <1>0, <1>1 DEF Init
  <2>2. succ[n][1] = Finger(After(n, ((1 - 1) % N) + 1))
    BY <1>5, <2>1
  <2>3. succ[n][1] = Finger(After(n, 1))
    BY <1>5, <2>2
  <2> QED BY <1>0, <1>2, <1>5, <2>1, <2>3
<1>7. KnownInv
  <2> SUFFICES ASSUME NEW n \in Nodes
               PROVE  /\ \A i \in 1 .. NumSucc : succ[n][i] \in Contacts(Members, n)
                      /\ copy[n] \in Contacts(Members, n)
                      /\ cur[n] \in Circle(Members, n) \cup {NoNode}
                      /\ pred[n] \in Circle(Members, n) \cup {NoNode}
                      /\ asked[Stab(n)] \in Circle(Members, n) \cup {NoNode}
                      /\ status[n] = "up" => succ[n][1] # NoFinger
    BY <1>4 DEF KnownInv
  <2>1. copy[n] = NoFinger /\ cur[n] = NoNode /\ asked[Stab(n)] = NoNode
    BY Threads DEF Init
  <2>2. CASE n \in Members
    <3>1. \A i \in 1 .. NumSucc : succ[n][i] \in Contacts(Members, n) /\ succ[n][i] # NoFinger
      BY <1>0, <1>6, <2>2, Fingers DEF Contacts, Circle
    <3>2. pred[n] \in Members \cup {NoNode}
      <4>1. N > 1 => N - 1 \in 1 .. N
        OBVIOUS
      <4> QED BY <1>1, <1>2, <4>1 DEF Init
    <3> QED BY <1>5, <2>1, <2>2, <3>1, <3>2 DEF Contacts, Circle
  <2>3. CASE n \notin Members
    BY <2>1, <2>3 DEF Init, Contacts
  <2> QED BY <2>2, <2>3
<1>8. ASSUME NEW j \in Joiners PROVE LookupInv(j)
  <2>1. /\ path[j] = <<>> /\ Len(path[j]) = 0 /\ level[Join(j)] = 0 /\ status[j] = "down"
        /\ asked[Join(j)] = NoNode
    BY <1>3, Threads DEF Init
  <2> QED BY <1>3, <2>1 DEF LookupInv
<1>9. MembersUp
  BY DEF Init, MembersUp, Nodes
<1>10. SafeInv
  <2>1. ASSUME NEW n \in Members PROVE Safe(n, succ[n][1].Id)
    <3>1. succ[n][1].Id = After(n, 1)
      BY <1>0, <1>6, FirstAfter, Fingers
    <3> QED BY <1>0, <3>1, FirstAfter
  <2> QED BY <1>3, <1>4, <2>1 DEF SafeInv
<1> QED BY <1>7, <1>8, <1>9, <1>10, InitTypes DEF RingInv

LEMMA RingNext ==
  ASSUME ~TornWrites, RingInv, Next
  PROVE  Kept
<1>0. TypeInv'
  BY TypeNext DEF RingInv
<1>1. ASSUME NEW n \in Nodes, Stabilize(n) PROVE Kept
  BY <1>1, LockKept, CheckKept, UpdateKept, UnlockKept, GetPredecessorKept, RecheckKept,
     AdoptKept, NotifyKept, Threads
     DEF Stabilize, Placed
<1>2. ASSUME NEW n \in Nodes, CheckPredecessor(n) PROVE Kept
  BY <1>0, <1>2, CheckPredecessorKept
<1>3. ASSUME NEW n \in Nodes, Crash(n) PROVE Kept
  BY <1>0, <1>3, CrashKept DEF Crash, joinVars
<1>4. ASSUME NEW j \in Joiners, JoinStep(j) PROVE Kept
  <2>1. ~JoinOtherHalf(j)
    BY DEF JoinOtherHalf, RingInv, LookupInv, LookupPcs, VisiblePcs
  <2>2. CASE path[j] # <<>> /\ (CheckSuccessor(Join(j)) \/ UpdateSuccessorList(Join(j)))
    BY <2>2, CheckKept, UpdateKept, Threads DEF Placed
  <2> QED BY <1>4, <2>1, <2>2, CreateKept, JoinCallKept, RouteKept, ForwardKept, BrokenKept,
             RetryStepKept, JoinSuccessorKept, JoinAskKept, JoinNotifyKept
          DEF JoinStep, FindSuccessor
<1> QED BY <1>1, <1>2, <1>3, <1>4 DEF Next

LEMMA RingStutters ==
  ASSUME RingInv, SafeInv, UNCHANGED vars
  PROVE  RingInv' /\ SafeInv'
<1>1. UNCHANGED <<status, succ, pred, pc, level, asked, copy, cur, path, found>>
  BY DEF vars, nodeVars, stabVars, joinVars
<1>2. Visible' = Visible /\ (AllWell' <=> AllWell)
  BY <1>1 DEF Visible, AllWell
<1>3. TypeInv'
  BY <1>1 DEF RingInv, TypeInv, TypeOK, PathInv
<1>4. KnownInv' /\ MembersUp' /\ \A j \in Joiners : LookupInv(j)'
  BY <1>1, <1>2 DEF RingInv, KnownInv, MembersUp, LookupInv
<1>5. SafeInv'
  BY <1>1, <1>2 DEF SafeInv, Safe
<1> QED BY <1>3, <1>4, <1>5 DEF RingInv

-----------------------------------------------------------------------------
(***************************************************************************)
(* What is known under the lock of a node: the call of checkSuccessor or   *)
(* updateSuccessorList goes to its successor, or on a node that joins to   *)
(* the node itself, and the predecessor whose health is checked is nearer  *)
(* than the successor.  For a node that joins this needs that its write is *)
(* not seen half done.                                                     *)
(***************************************************************************)

ListPcs == {"check", "update"}

AskedInv ==
    \A g \in Goroutines :
        pc[g] \in ListPcs /\ Host(g) \in Locked /\ status[Host(g)] = "up"
            => \/ asked[g] = succ[Host(g)][1].Ip
               \/ Host(g) \in Joiners /\ asked[g] = Host(g)

HealthInv ==
    \A n \in Locked :
        status[n] = "up" /\ pc[Stab(n)] = "health" /\ cur[n] # NoNode
            => Nearer(n, succ[n][1], cur[n])

\* A successor moves closer, or it was dead.
Moves ==
    \A n \in Locked :
        (status[n] = "up" /\ status'[n] = "up" /\ succ'[n][1] # succ[n][1])
            => \/ Turn(n, succ'[n][1].Id) < Turn(n, succ[n][1].Id)
               \/ ~Alive(succ[n][1].Ip)

\* A member that replaces its successor does so by a node that is up.
Finds ==
    \A n \in Members : status'[n] = "up" => \/ status[n] = "up" /\ succ'[n][1] = succ[n][1]
                                            \/ Alive(succ'[n][1].Ip)

Held == AskedInv' /\ HealthInv' /\ Moves /\ Finds

LEMMA LockedNodes == Locked \subseteq Nodes /\ Members \subseteq Locked /\ Members \subseteq Nodes
                     /\ (TornWrites => \A j \in Joiners : j \notin Locked)
                     /\ \A j \in Joiners : j \notin Members
  BY RingAssumption DEF Locked, Nodes

LEMMA SafeCloser ==
  ASSUME NEW n \in Keys, NEW a \in Keys, NEW b \in Keys, Safe(n, b), Turn(n, a) < Turn(n, b)
  PROVE  Safe(n, a)
<1> SUFFICES ASSUME NEW m \in Members, OnArc(n, a, m) PROVE FALSE
  BY DEF Safe
<1>1. m \in Keys
  BY NodeKeys DEF Nodes
<1>2. OnArc(n, b, m)
  BY <1>1, KeySpaceAssumption DEF OnArc, Distance, Turn, Keys
<1> QED BY <1>2 DEF Safe

\* keyInBetweenExclusive decides for the closer node.
LEMMA NearerIsCloser ==
  ASSUME NEW n \in Keys, NEW s \in Keys, NEW m \in Keys, keyInBetweenExclusive(n, s, m)
  PROVE  Turn(n, m) < Turn(n, s)
  BY KeySpaceAssumption DEF keyInBetweenExclusive, compareKeys, sameKey, Keys, Turn, Distance

LEMMA TurnSelf ==
  ASSUME NEW n \in Keys, NEW m \in Keys, m # n
  PROVE  Turn(n, m) < Turn(n, n) /\ ~keyInBetweenExclusive(n, n, n)
  BY KeySpaceAssumption DEF keyInBetweenExclusive, compareKeys, sameKey, Keys, Turn, Distance

\* A step that starts no goroutine and touches only nodes that are dead then.
LEMMA QuietHeld ==
  ASSUME AskedInv, HealthInv, UNCHANGED <<pc, asked, path>>,
         \A n \in Nodes : status'[n] = "up" => /\ status[n] = "up"
                                               /\ succ'[n][1] = succ[n][1] /\ cur'[n] = cur[n]
  PROVE  Held
<1>1. \A g \in Goroutines : Host(g)' = Host(g)
  BY SameHost
<1>2. AskedInv'
  <2> SUFFICES ASSUME NEW g \in Goroutines, pc'[g] \in ListPcs, Host(g)' \in Locked,
                      status'[Host(g)'] = "up"
               PROVE  \/ asked'[g] = succ'[Host(g)'][1].Ip
                      \/ Host(g)' \in Joiners /\ asked'[g] = Host(g)'
    BY DEF AskedInv, Locked
  <2>1. PICK n : n = Host(g)
    OBVIOUS
  <2>2. n \in Locked /\ n \in Nodes /\ Host(g)' = n
    BY <1>1, <2>1, LockedNodes
  <2> QED BY <2>1, <2>2 DEF AskedInv
<1>3. HealthInv'
  BY LockedNodes DEF HealthInv, Nearer, Locked
<1> QED BY <1>2, <1>3, LockedNodes DEF Held, Moves, Finds

\* A step of g that touches only node m.
LEMMA HeldStep ==
  ASSUME TypeOK, AskedInv, HealthInv, NEW g \in Goroutines, Acts(g), NEW m \in Nodes,
         \A n \in Nodes : n # m => /\ status'[n] = status[n]
                                   /\ succ'[n][1] = succ[n][1] /\ cur'[n] = cur[n],
         pc'[g] \in ListPcs => Host(g)' = m, pc'[g] = "health" => g = Stab(m),
         m \in Locked /\ status'[m] = "up" =>
             /\ \A h \in Goroutines : h # g /\ Host(h) = m /\ pc[h] \in ListPcs =>
                    status[m] = "up" /\ (succ'[m][1] = succ[m][1] \/ (m \in Joiners /\ asked[h] = m))
             /\ g # Stab(m) /\ pc[Stab(m)] = "health" =>
                    /\ status[m] = "up" /\ cur'[m] = cur[m]
                    /\ cur[m] = NoNode \/ succ'[m][1] = succ[m][1]
             /\ pc'[g] \in ListPcs => asked'[g] = succ'[m][1].Ip
             /\ pc'[g] = "health" => keyInBetweenExclusive(m, succ'[m][1].Id, cur'[m])
             /\ status[m] = "up" /\ succ'[m][1] # succ[m][1] =>
                    \/ Turn(m, succ'[m][1].Id) < Turn(m, succ[m][1].Id)
                    \/ ~Alive(succ[m][1].Ip)
             /\ m \in Members => \/ status[m] = "up" /\ succ'[m][1] = succ[m][1]
                                 \/ Alive(succ'[m][1].Ip)
  PROVE  Held
<1>1. \A h \in Goroutines : h # g => Host(h)' = Host(h) /\ pc'[h] = pc[h] /\ asked'[h] = asked[h]
  BY OtherHosts DEF Acts
<1>2. AskedInv'
  <2> SUFFICES ASSUME NEW h \in Goroutines, pc'[h] \in ListPcs, NEW n, n = Host(h)', n \in Locked,
                      status'[n] = "up"
               PROVE  asked'[h] = succ'[n][1].Ip \/ (n \in Joiners /\ asked'[h] = n)
    BY DEF AskedInv, Locked
  <2>0. n \in Nodes
    BY LockedNodes
  <2>1. CASE h = g
    BY <2>1
  <2>2. CASE h # g /\ n # m
    <3>1. Host(h) = n /\ pc[h] \in ListPcs /\ status[n] = "up" /\ succ'[n][1] = succ[n][1]
          /\ asked'[h] = asked[h]
      BY <1>1, <2>0, <2>2
    <3> QED BY <3>1 DEF AskedInv
  <2>3. CASE h # g /\ n = m
    <3>1. Host(h) = m /\ pc[h] \in ListPcs /\ asked'[h] = asked[h]
      BY <1>1, <2>3
    <3>2. status[m] = "up" /\ (succ'[m][1] = succ[m][1] \/ (m \in Joiners /\ asked[h] = m))
      BY <2>3, <3>1
    <3> QED BY <2>3, <3>1, <3>2 DEF AskedInv
  <2> QED BY <2>1, <2>2, <2>3
<1>3. HealthInv'
  <2> SUFFICES ASSUME NEW n \in Locked, status'[n] = "up", pc'[Stab(n)] = "health", cur'[n] # NoNode
               PROVE  keyInBetweenExclusive(n, succ'[n][1].Id, cur'[n])
    BY DEF HealthInv, Locked, Nearer
  <2>0. n \in Nodes /\ Stab(n) \in Goroutines /\ Stab(n) \in Goroutines
    BY LockedNodes, Threads
  <2>1. CASE Stab(n) = g
    <3>0. pc'[g] = "health"
      BY <2>1
    <3>1. Stab(n) = Stab(m) => n = m
      BY DEF Stab
    <3>2. n = m
      BY <2>1, <3>0, <3>1
    <3> QED BY <3>0, <3>2
  <2>2. CASE Stab(n) # g /\ n # m
    BY <1>1, <2>0, <2>2 DEF HealthInv, Nearer
  <2>3. CASE Stab(n) # g /\ n = m
    <3>1. pc[Stab(m)] = "health"
      BY <1>1, <2>0, <2>3
    <3> QED BY <2>3, <3>1 DEF HealthInv, Nearer
  <2> QED BY <2>1, <2>2, <2>3
<1>4. Moves
  BY LockedNodes DEF Moves
<1>5. Finds
  BY LockedNodes DEF Finds
<1> QED BY <1>2, <1>3, <1>4, <1>5 DEF Held

LEMMA ListHeld ==
  ASSUME TypeOK, MutexInv, AskedInv, HealthInv, NEW g \in Goroutines, Placed(g),
         CheckSuccessor(g) \/ UpdateSuccessorList(g)
  PROVE  Held
<1>1. PICK n \in Nodes : n = Host(g)
  BY HostIs
<1>2. /\ pc[g] \in ListPcs /\ Alive(n) /\ path' = path
      /\ status' = status /\ cur' = cur
  BY <1>1 DEF CheckSuccessor, UpdateSuccessorList, ListPcs, joinVars, stabVars
<1>3. Acts(g) /\ Host(g)' = n
  BY <1>1, <1>2, ListSteps, SameHost
<1>4. \A h \in Goroutines : Holding(h) /\ Host(h) = n => h = g
  BY <1>1, <1>2 DEF MutexInv, Holding, ListPcs
<1>5. Stab(n) \in Goroutines /\ Host(Stab(n)) = n
  BY Hosts, Threads
<1>6. /\ \A h \in Goroutines : h # g /\ Host(h) = n => pc[h] \notin ListPcs
      /\ g # Stab(n) => pc[Stab(n)] # "health"
  BY <1>4, <1>5 DEF Holding, ListPcs
<1>7. ASSUME Returns(g)
      PROVE  /\ pc'[g] \in ListPcs => asked'[g] = succ[n][1].Ip
             /\ pc'[g] # "health"
  BY <1>1, <1>7 DEF Returns, Goto, Ask, TypeOK, ListPcs
<1>8. ASSUME NEW ip, NEW p, Goto(g, p), Ask(g, ip) PROVE pc'[g] = p /\ asked'[g] = ip
  BY <1>8 DEF Goto, Ask, TypeOK
<1>9. CASE CheckSuccessor(g) /\ Alive(asked[g])
  <2>1. Returns(g) /\ succ' = succ
    BY <1>9 DEF CheckSuccessor
  <2> QED BY <1>1, <1>2, <1>3, <1>6, <1>7, <2>1, HeldStep DEF Alive
<1>10. CASE CheckSuccessor(g) /\ ~Alive(asked[g])
  <2>1. PICK f : f = FirstWorking(n)
    OBVIOUS
  <2>2. f \in FingerType /\ Alive(f.Ip)
    BY <1>2, <2>1, FirstWorkingIs, Fingers, ListTypes DEF Alive
  <2>3. succ' = [succ EXCEPT ![n][1] = f] /\ pc'[g] = "update" /\ asked'[g] = f.Ip
    BY <1>1, <1>8, <1>10, <2>1 DEF CheckSuccessor
  <2>4. succ'[n][1] = f /\ \A m \in Nodes : m # n => succ'[m] = succ[m]
    BY <2>2, <2>3, HeadTypes
  <2>5. n \in Locked => ~Alive(succ[n][1].Ip)
    BY <1>1, <1>2, <1>10 DEF AskedInv, Alive
  <2>6. Alive(succ'[n][1].Ip)
    BY <2>2, <2>4
  <2>7. asked'[g] = succ'[n][1].Ip /\ pc'[g] # "health" /\ pc'[g] \in ListPcs
    BY <2>3, <2>4 DEF ListPcs
  <2> QED BY <1>2, <1>3, <1>6, <2>4, <2>5, <2>6, <2>7, HeldStep
<1>11. CASE UpdateSuccessorList(g) /\ Alive(asked[g])
  <2>1. PICK m : m = asked[g]
    OBVIOUS
  <2>2. m \in Nodes
    BY <1>11, <2>1 DEF TypeOK, Alive
  <2>3. Returns(g) /\ succ' = [succ EXCEPT ![n] = Shifted(n, m)]
    BY <1>1, <1>11, <2>1 DEF UpdateSuccessorList
  <2>4. succ'[n][1] = succ[n][1] /\ \A k \in Nodes : k # n => succ'[k] = succ[k]
    BY <2>2, <2>3, ShiftedTypes
  <2> QED BY <1>1, <1>2, <1>3, <1>6, <1>7, <2>3, <2>4, HeldStep DEF Alive
<1>12. CASE UpdateSuccessorList(g) /\ ~Alive(asked[g])
  <2>1. succ' = succ /\ pc'[g] = "check" /\ asked'[g] = succ[n][1].Ip
    BY <1>1, <1>8, <1>12 DEF UpdateSuccessorList
  <2> QED BY <1>1, <1>2, <1>3, <1>6, <2>1, HeldStep DEF Alive
<1> QED BY <1>9, <1>10, <1>11, <1>12

LEMMA StabHeld ==
  ASSUME TypeOK, MutexInv, AskedInv, HealthInv, NEW n \in Nodes, Stabilize(n)
  PROVE  Held
<1>0. /\ Stab(n) \in Goroutines /\ Host(Stab(n)) = n /\ Placed(Stab(n))
      /\ Acts(Stab(n)) /\ Alive(n) /\ status' = status
  BY Threads, Hosts, StabSteps DEF Placed
<1>1. CASE CheckSuccessor(Stab(n)) \/ UpdateSuccessorList(Stab(n))
  BY <1>0, <1>1, ListHeld
<1>2. CASE Adopt(n) /\ Alive(cur[n])
  <2>1. PICK c \in Nodes : c = cur[n]
    BY <1>2 DEF Alive, TypeOK
  <2>2. /\ succ' = [succ EXCEPT ![n][1] = Finger(c)] /\ path' = path
        /\ pc'[Stab(n)] = "update" /\ asked'[Stab(n)] = c /\ pc[Stab(n)] = "health"
        /\ cur' = [cur EXCEPT ![n] = NoNode]
    BY <1>0, <1>2, <2>1 DEF Adopt, Goto, Ask, TypeOK, joinVars
  <2>3. succ'[n][1] = Finger(c) /\ \A m \in Nodes : m # n => succ'[m] = succ[m]
    BY <2>1, <2>2, HeadTypes, Fingers
  <2>4. \A h \in Goroutines : h # Stab(n) /\ Host(h) = n => pc[h] \notin ListPcs
    BY <1>0, <2>2 DEF MutexInv, Holding, ListPcs
  <2>5. succ'[n][1].Ip = c /\ succ'[n][1].Id = c /\ c # NoNode
    BY <2>1, <2>3, Fingers, NodeKeys
  <2>6. n \in Locked => Turn(n, succ'[n][1].Id) < Turn(n, succ[n][1].Id)
    <3>1. n \in Locked => keyInBetweenExclusive(n, succ[n][1].Id, c)
      BY <1>0, <2>1, <2>2, <2>5 DEF HealthInv, Nearer, Alive
    <3>2. succ[n][1].Id \in Keys /\ c \in Keys /\ n \in Keys
      BY <2>1, ListTypes, NodeKeys
    <3> QED BY <2>5, <3>1, <3>2, NearerIsCloser
  <2>7. /\ Alive(succ'[n][1].Ip) /\ asked'[Stab(n)] = succ'[n][1].Ip
        /\ pc'[Stab(n)] # "health" /\ Host(Stab(n))' = n
        /\ \A m \in Nodes : m # n => cur'[m] = cur[m]
    BY <1>0, <1>2, <2>1, <2>2, <2>5, SameHost DEF TypeOK
  <2> QED BY <1>0, <2>3, <2>4, <2>6, <2>7, HeldStep DEF ListPcs
<1>3. CASE \/ StabilizeLock(n) \/ StabilizeUnlock(n) \/ GetPredecessor(n) \/ Recheck(n)
           \/ (Adopt(n) /\ ~Alive(cur[n])) \/ NotifySuccessor(n)
  <2>1. /\ succ' = succ /\ path' = path
        /\ cur' = cur \/ \E c : cur' = [cur EXCEPT ![n] = c]
    BY <1>3 DEF StabilizeLock, StabilizeUnlock, GetPredecessor, Recheck, Adopt,
       NotifySuccessor, joinVars, nodeVars, stabVars
  <2>2. \A m \in Nodes : m # n => cur'[m] = cur[m]
    BY <2>1 DEF TypeOK
  <2>3. /\ pc'[Stab(n)] \in ListPcs => asked'[Stab(n)] = succ[n][1].Ip
        /\ pc'[Stab(n)] = "health" => keyInBetweenExclusive(n, succ[n][1].Id, cur'[n])
    BY <1>0, <1>3 DEF StabilizeLock, StabilizeUnlock, GetPredecessor, Recheck, Adopt,
       NotifySuccessor, Goto, Ask, TypeOK, ListPcs, Nearer, stabVars
  <2>4. Host(Stab(n))' = n
    BY <1>0, <2>1, SameHost
  <2> QED BY <1>0, <2>1, <2>2, <2>3, <2>4, HeldStep DEF Alive
<1> QED BY <1>1, <1>2, <1>3 DEF Stabilize

\* A step of join or of its lookup that writes no successor.
LEMMA JoinHeld ==
  ASSUME TypeOK, AskedInv, HealthInv, NEW j \in Joiners, Acts(Join(j)), NEW m \in Nodes,
         \A n \in Nodes : n # m => /\ status'[n] = status[n]
                                   /\ succ'[n][1] = succ[n][1] /\ cur'[n] = cur[n],
         status'[m] = "up" => status[m] = "up" /\ succ'[m][1] = succ[m][1] /\ cur'[m] = cur[m],
         pc'[Join(j)] # "health",
         pc'[Join(j)] \in ListPcs => Host(Join(j))' = m /\ asked'[Join(j)] = succ'[m][1].Ip
  PROVE  Held
<1>1. Join(j) \in Goroutines
  BY Threads
<1> QED BY <1>1, HeldStep

LEMMA DiesIs ==
  ASSUME TypeOK, NEW n \in Nodes, NEW how, how # "up", Dies(n, how)
  PROVE  /\ status'[n] # "up"
         /\ \A m \in Nodes : m # n => /\ status'[m] = status[m]
                                      /\ succ'[m][1] = succ[m][1] /\ cur'[m] = cur[m]
  BY DEF Dies, TypeOK

\* A lookup under way runs on nodes that do not join any more.
LEMMA NoLookupOn ==
  ASSUME RingInv, NEW j \in Joiners, j \notin Visible, NEW h \in Goroutines, Host(h) = j, Holding(h)
  PROVE  h = Stab(j)
<1>0. TypeOK
  BY DEF RingInv, TypeInv
<1>1. CASE \E k \in Joiners : h = Join(k)
  <2>1. PICK k \in Joiners : h = Join(k)
    BY <1>1
  <2>2. pc[Join(k)] \in LookupPcs
    BY <2>1 DEF RingInv, LookupInv, VisiblePcs, LookupPcs, Holding
  <2> QED BY <2>1, <2>2, LookupHost
<1>2. CASE \E n \in Nodes : h = Stab(n)
  BY <1>0, <1>2, Hosts
<1> QED BY <1>1, <1>2, Threads

LEMMA CreateHeld ==
  ASSUME TypeOK, IdleInv, AskedInv, HealthInv, TornWrites \/ RingInv, NEW j \in Joiners, Create(j)
  PROVE  Held
<1>0. j \in Nodes /\ Join(j) \in Goroutines /\ Stab(j) \in Goroutines /\ Join(j) # Stab(j)
  BY Threads
<1>1. /\ status' = [status EXCEPT ![j] = "up"] /\ succ' = [succ EXCEPT ![j][1] = Finger(j)]
      /\ cur' = cur /\ pc'[Join(j)] = "call" /\ pc[Join(j)] = "start"
  BY <1>0 DEF Create, Goto, TypeOK, stabVars
<1>2. \A n \in Nodes : n # j => /\ status'[n] = status[n]
                                /\ succ'[n][1] = succ[n][1] /\ cur'[n] = cur[n]
  BY <1>0, <1>1 DEF TypeOK
<1>3. Acts(Join(j))
  BY JoinSteps DEF JoinStep
<1>4. ASSUME j \in Locked
      PROVE  /\ status[j] # "up" /\ pc[Stab(j)] # "health" /\ j \notin Members
             /\ \A h \in Goroutines : Host(h) = j => pc[h] \notin ListPcs
  <2>1. RingInv /\ j \notin Members
    BY <1>4, LockedNodes
  <2>2. status[j] = "down" /\ j \notin Visible
    BY <1>1, <2>1, VisibleNodes DEF RingInv, LookupInv, VisiblePcs
  <2>3. pc[Stab(j)] = "idle"
    BY <1>0, <2>2 DEF IdleInv
  <2>4. \A h \in Goroutines : Host(h) = j /\ Holding(h) => h = Stab(j)
    BY <2>1, <2>2, NoLookupOn
  <2> QED BY <2>1, <2>2, <2>3, <2>4 DEF Holding, ListPcs
<1> QED BY <1>0, <1>1, <1>2, <1>3, <1>4, HeldStep DEF ListPcs

LEMMA JoinSuccessorHeld ==
  ASSUME TypeOK, AskedInv, HealthInv, TornWrites \/ RingInv, NEW j \in Joiners,
         JoinSuccessor(j) \/ JoinOtherHalf(j)
  PROVE  Held
<1>0. j \in Nodes /\ Join(j) \in Goroutines /\ Stab(j) \in Goroutines /\ Join(j) # Stab(j)
  BY Threads
<1>1. /\ status' = status /\ cur' = cur /\ pc'[Join(j)] \in {"gone", "written", "setIp", "setId"}
      /\ \E f : succ' = succ \/ succ' = [succ EXCEPT ![j][1] = f]
  <2>1. status' = status /\ cur' = cur /\ pc'[Join(j)] \in {"gone", "written", "setIp", "setId"}
    BY <1>0 DEF JoinSuccessor, JoinOtherHalf, Goto, TypeOK, stabVars
  <2>2. \/ succ' = succ \/ succ' = [succ EXCEPT ![j][1] = found[j]]
        \/ succ' = [succ EXCEPT ![j][1].Id = found[j].Id]
        \/ succ' = [succ EXCEPT ![j][1].Ip = found[j].Ip]
    BY DEF JoinSuccessor, JoinOtherHalf
  <2>3. \A n \in Nodes : n # j => succ'[n] = succ[n]
    BY <2>2 DEF TypeOK
  <2>4. \E f : succ' = succ \/ succ' = [succ EXCEPT ![j][1] = f]
    BY <2>2
  <2> QED BY <2>1, <2>4
<1>2. \A n \in Nodes : n # j => succ'[n] = succ[n]
  BY <1>1 DEF TypeOK
<1>3. Acts(Join(j))
  BY JoinSteps DEF JoinStep
<1>4. CASE j \notin Locked
  BY <1>0, <1>1, <1>2, <1>3, <1>4, HeldStep DEF ListPcs
<1>5. CASE j \in Locked /\ succ' = succ
  BY <1>0, <1>1, <1>2, <1>3, <1>5, HeldStep, LockedNodes DEF ListPcs
<1>6. CASE j \in Locked /\ succ' # succ
  <2>1. RingInv /\ ~TornWrites /\ j \notin Members
    BY <1>6, LockedNodes
  <2>2. ~JoinOtherHalf(j)
    BY <2>1 DEF JoinOtherHalf, RingInv, LookupInv, LookupPcs, VisiblePcs
  <2>3. pc[Join(j)] = "answer" /\ Alive(j) /\ succ' = [succ EXCEPT ![j][1] = found[j]]
    BY <1>6, <2>1, <2>2 DEF JoinSuccessor
  <2>4. j \notin Visible
    BY <2>3, VisibleNodes DEF VisiblePcs
  <2>5. PICK x \in Visible : found[j] = Finger(x)
    BY <2>1, <2>3 DEF RingInv, LookupInv
  <2>6. x \in Nodes /\ x # j
    BY <2>4, <2>5, VisibleNodes
  <2>7. succ'[j][1] = Finger(x)
    BY <1>0, <2>3, <2>5, <2>6, HeadTypes, Fingers
  <2>8. succ[j][1].Id = j /\ succ[j][1].Ip = j
    BY <1>0, <2>1, <2>3, <2>4, SuccessorIs DEF Alive, Circle
  <2>9. Turn(j, succ'[j][1].Id) < Turn(j, succ[j][1].Id) /\ ~keyInBetweenExclusive(j, j, j)
    BY <1>0, <2>6, <2>7, <2>8, Fingers, NodeKeys, TurnSelf
  <2>10. \A h \in Goroutines : Host(h) = j /\ pc[h] \in ListPcs => asked[h] = j
    BY <1>6, <2>3, <2>8 DEF AskedInv, Alive
  <2>11. pc[Stab(j)] = "health" => cur[j] = NoNode
    <3>1. cur[j] \in {j, NoNode}
      BY <1>0, <2>1, <2>4 DEF RingInv, KnownInv, Circle
    <3> QED BY <1>6, <2>3, <2>8, <2>9, <3>1 DEF HealthInv, Nearer, Alive
  <2>12. status[j] = "up"
    BY <2>3 DEF Alive
  <2> QED BY <1>0, <1>1, <1>2, <1>3, <2>1, <2>9, <2>10, <2>11, <2>12, HeldStep DEF ListPcs
<1> QED BY <1>4, <1>5, <1>6

LEMMA JoinStepHeld ==
  ASSUME TypeInv, LockInv, AskedInv, HealthInv, TornWrites \/ RingInv, NEW j \in Joiners, JoinStep(j)
  PROVE  Held
<1>0. /\ j \in Nodes /\ Join(j) \in Goroutines /\ TypeOK /\ MutexInv /\ IdleInv
      /\ Acts(Join(j))
  BY Threads, JoinSteps DEF LockInv, TypeInv
<1>1. CASE Create(j)
  BY <1>0, <1>1, CreateHeld
<1>2. CASE JoinSuccessor(j) \/ JoinOtherHalf(j)
  BY <1>0, <1>2, JoinSuccessorHeld
<1>3. CASE path[j] # <<>> /\ (CheckSuccessor(Join(j)) \/ UpdateSuccessorList(Join(j)))
  BY <1>0, <1>3, ListHeld, Threads DEF Placed
<1>4. CASE JoinCall(j) \/ Broken(j) \/ JoinNotify(j)
  <2>1. /\ \/ UNCHANGED <<status, succ, cur>>
           \/ Dies(j, "unconnected") \/ Dies(j, "refused")
        /\ pc'[Join(j)] \in {"route", "retry", "gone", "joined"}
    BY <1>0, <1>4 DEF JoinCall, Broken, JoinNotify, Goto, TypeOK, nodeVars, stabVars
  <2>2. /\ status'[j] # "up" \/ UNCHANGED <<status, succ, cur>>
        /\ \A m \in Nodes : m # j => /\ status'[m] = status[m]
                                     /\ succ'[m][1] = succ[m][1] /\ cur'[m] = cur[m]
    BY <1>0, <2>1, DiesIs
  <2> QED BY <1>0, <2>1, <2>2, JoinHeld DEF ListPcs
<1>5. CASE Route(j) \/ JoinAsk(j)
  <2>1. /\ UNCHANGED <<status, succ, cur>>
        /\ pc'[Join(j)] \in {"answer", "closest", "notify"}
    BY <1>0, <1>5 DEF Route, JoinAsk, Goto, TypeOK, nodeVars, stabVars
  <2> QED BY <1>0, <2>1, JoinHeld DEF ListPcs
<1>6. CASE Retry(j)
  <2>1. PICK n \in Nodes : n = Host(Join(j))
    BY <1>0, <1>6, Hosts DEF Retry, TypeInv, PathInv, LookupPcs
  <2>2. /\ UNCHANGED <<status, succ, cur, path>>
        /\ pc'[Join(j)] = "check" /\ asked'[Join(j)] = succ[n][1].Ip
    BY <1>0, <1>6, <2>1 DEF Retry, Goto, Ask, TypeOK, nodeVars, stabVars, joinVars
  <2>3. Host(Join(j))' = n
    BY <1>0, <2>1, <2>2, SameHost
  <2> QED BY <1>0, <2>2, <2>3, JoinHeld DEF ListPcs
<1>7. CASE Forward(j)
  <2>1. PICK n \in Nodes : n = Host(Join(j))
    BY <1>0, <1>7, Hosts DEF Forward, TypeInv, PathInv, LookupPcs
  <2>2. \/ UNCHANGED <<pc, asked, path>> /\ Dies(n, "selfCall")
        \/ UNCHANGED <<status, succ, cur>> /\ pc'[Join(j)] \in {"route", "retry"}
    BY <1>0, <1>7, <2>1 DEF Forward, Goto, TypeOK, nodeVars, stabVars
  <2>3. CASE UNCHANGED <<pc, asked, path>> /\ Dies(n, "selfCall")
    <3>1. \A m \in Nodes : status'[m] = "up" => /\ status[m] = "up"
                                                /\ succ'[m][1] = succ[m][1] /\ cur'[m] = cur[m]
      BY <1>0, <2>3, DiesIs
    <3> QED BY <2>3, <3>1, QuietHeld
  <2>4. CASE UNCHANGED <<status, succ, cur>> /\ pc'[Join(j)] \in {"route", "retry"}
    BY <1>0, <2>4, JoinHeld DEF ListPcs
  <2> QED BY <2>2, <2>3, <2>4
<1> QED BY <1>1, <1>2, <1>3, <1>4, <1>5, <1>6, <1>7 DEF JoinStep, FindSuccessor

LEMMA HeldNext ==
  ASSUME TypeInv, LockInv, AskedInv, HealthInv, TornWrites \/ RingInv, Next
  PROVE  Held
<1>0. TypeOK /\ MutexInv
  BY DEF TypeInv, LockInv
<1>1. ASSUME NEW n \in Nodes, CheckPredecessor(n) \/ Crash(n) PROVE Held
  <2>1. UNCHANGED <<pc, asked, path>>
    BY <1>1 DEF CheckPredecessor, Crash, joinVars
  <2>2. UNCHANGED <<status, succ, cur>> \/ Dies(n, "crashed")
    BY <1>1 DEF CheckPredecessor, Crash, stabVars
  <2>3. \A m \in Nodes : status'[m] = "up" => /\ status[m] = "up"
                                              /\ succ'[m][1] = succ[m][1] /\ cur'[m] = cur[m]
    BY <1>0, <2>2, DiesIs
  <2> QED BY <2>1, <2>3, QuietHeld
<1> QED BY <1>0, <1>1, StabHeld, JoinStepHeld DEF Next

-----------------------------------------------------------------------------
(***************************************************************************)
(* The members of the old ring.                                            *)
(***************************************************************************)

MemberInv ==
    \A n \in Members :
        /\ status[n] # "down"
        /\ status[n] = "up" => succ[n][1].Ip # NoNode /\ status[succ[n][1].Ip] # "down"
        /\ AllWell => Safe(n, succ[n][1].Id)

\* Processes are not started twice.
LEMMA NeverDownAgain ==
  ASSUME TypeOK, Next
  PROVE  /\ \A x \in Nodes : status'[x] = "down" => status[x] = "down"
         /\ \A x \in Members : status'[x] = "up" => status[x] = "up"
<1>1. CASE \A x \in Nodes : Goes(x)
  BY <1>1, LockedNodes DEF Goes
<1>2. CASE \E j \in Joiners : /\ status'[j] = "up"
                              /\ \A x \in Nodes : x # j => status'[x] = status[x]
  BY <1>2, LockedNodes
<1> QED BY <1>1, <1>2, StatusStep, Zenon


\* A process that has not been started is down.
StartInv == \A j \in Joiners : pc[Join(j)] = "start" => status[j] = "down"

LEMMA StartNext == TypeOK /\ StartInv /\ Next => StartInv' /\ StaysDead
<1> SUFFICES ASSUME TypeOK, StartInv, Next PROVE StartInv' /\ StaysDead
  OBVIOUS
<1>1. ASSUME NEW j \in Joiners, pc'[Join(j)] = "start" PROVE pc[Join(j)] = "start" /\ ~Create(j)
  <2>0. Join(j) \in Goroutines
    BY Threads
  <2>1. ASSUME NEW n \in Nodes, Stabilize(n) \/ CheckPredecessor(n) \/ Crash(n)
        PROVE  pc'[Join(j)] = pc[Join(j)]
    BY <2>0, <2>1, StabSteps, Threads DEF Acts, CheckPredecessor, Crash
  <2>2. ASSUME NEW k \in Joiners, k # j, JoinStep(k) PROVE pc'[Join(j)] = pc[Join(j)]
    BY <2>0, <2>2, JoinSteps, Threads DEF Acts
  <2>3. ASSUME NEW p, Goto(Join(j), p) PROVE pc'[Join(j)] = p
    BY <2>0, <2>3 DEF Goto, TypeOK
  <2>4. ASSUME JoinStep(j) PROVE pc' = pc \/ \E p : p # "start" /\ Goto(Join(j), p)
    BY <2>4 DEF JoinStep, FindSuccessor, Create, JoinCall, Route, Forward, Broken, Retry,
       JoinSuccessor, JoinOtherHalf, JoinAsk, JoinNotify, CheckSuccessor, UpdateSuccessorList,
       Returns
  <2>5. ~Create(j)
    BY <1>1, <2>3 DEF Create
  <2> QED BY <1>1, <2>1, <2>2, <2>3, <2>4, <2>5 DEF Next
<1>2. CASE \A x \in Nodes : Goes(x)
  <2>1. StartInv'
    BY <1>1, <1>2, Threads DEF StartInv, Goes
  <2> QED BY <1>2, <2>1 DEF Goes, StaysDead
<1>3. ASSUME NEW k \in Joiners, Create(k), \A x \in Nodes : x # k => status'[x] = status[x]
      PROVE  StartInv' /\ StaysDead
  <2>1. status[k] = "down"
    BY <1>3 DEF Create, StartInv
  <2>2. StaysDead
    BY <1>3, <2>1 DEF StaysDead
  <2>3. StartInv'
    BY <1>1, <1>3, Threads DEF StartInv
  <2> QED BY <2>2, <2>3
<1> QED BY <1>2, <1>3, StatusStep

LEMMA MemberNext ==
  ASSUME TypeInv, TypeInv', StartInv, MemberInv, Moves, Finds, Next
  PROVE  MemberInv'
<1>0. TypeOK /\ TypeOK' /\ StaysDead
  BY StartNext DEF TypeInv
<1> SUFFICES ASSUME NEW n \in Members
             PROVE  /\ status'[n] # "down"
                    /\ status'[n] = "up" => succ'[n][1].Ip # NoNode /\ status'[succ'[n][1].Ip] # "down"
                    /\ AllWell' => Safe(n, succ'[n][1].Id)
  BY DEF MemberInv, Safe
<1>1. n \in Nodes /\ n \in Locked /\ status[n] # "down" /\ status'[n] # "down"
  BY <1>0, LockedNodes, NeverDownAgain DEF MemberInv
<1>2. ASSUME status'[n] = "up"
      PROVE  succ'[n][1].Ip # NoNode /\ status'[succ'[n][1].Ip] # "down"
  <2>1. PICK ip : ip = succ'[n][1].Ip
    OBVIOUS
  <2>2. ip \in Nodes \cup {NoNode}
    <3>1. succ'[n][1] \in FingerType
      BY <1>0, <1>1, RingAssumption DEF TypeOK, FingerType
    <3> QED BY <2>1, <3>1 DEF FingerType
  <2>3. ip # NoNode /\ status[ip] # "down"
    BY <1>2, <2>1 DEF Finds, MemberInv, Alive
  <2> QED BY <1>0, <2>1, <2>2, <2>3, NeverDownAgain
<1>3. ASSUME AllWell' PROVE Safe(n, succ'[n][1].Id)
  <2>0. AllWell /\ Safe(n, succ[n][1].Id)
    BY <1>0, <1>3, WellBefore DEF MemberInv
  <2>1. status'[n] = "up" /\ status[n] = "up"
    BY <1>1, <1>3, <2>0 DEF AllWell
  <2>2. Alive(succ[n][1].Ip)
    <3>1. succ[n][1].Ip \in Nodes
      BY <1>0, <1>1, <2>1, ListTypes DEF MemberInv
    <3> QED BY <2>0, <2>1, <3>1 DEF MemberInv, AllWell, Alive
  <2>3. succ'[n][1] = succ[n][1] \/ Turn(n, succ'[n][1].Id) < Turn(n, succ[n][1].Id)
    BY <1>1, <2>1, <2>2 DEF Moves
  <2>4. succ[n][1].Id \in Keys /\ n \in Keys
    BY <1>0, <1>1, ListTypes, NodeKeys
  <2>5. succ'[n][1].Id \in Keys
    <3>1. succ'[n][1] \in FingerType
      BY <1>0, <1>1, RingAssumption DEF TypeOK, FingerType
    <3> QED BY <3>1 DEF FingerType
  <2> QED BY <2>0, <2>3, <2>4, <2>5, SafeCloser
<1> QED BY <1>1, <1>2, <1>3

LEMMA MemberInit == Init => MemberInv /\ StartInv /\ AskedInv /\ HealthInv
<1> SUFFICES ASSUME Init PROVE MemberInv /\ StartInv /\ AskedInv /\ HealthInv
  OBVIOUS
<1>1. \A g \in Goroutines : pc[g] \in {"idle", "start"}
  BY DEF Init
<1>2. AskedInv /\ HealthInv
  BY <1>1, LockedNodes, Threads DEF AskedInv, HealthInv, ListPcs
<1>3. StartInv
  BY Threads, LockedNodes DEF Init, StartInv
<1>4. RingInv /\ SafeInv
  BY RingInit
<1>5. ASSUME NEW n \in Members
      PROVE  /\ status[n] = "up" /\ succ[n][1].Ip # NoNode /\ status[succ[n][1].Ip] # "down"
             /\ AllWell => Safe(n, succ[n][1].Id)
  <2>1. status[n] = "up" /\ n \in Nodes /\ n \in Visible /\ AllWell
    BY LockedNodes, VisibleNodes DEF Init, AllWell
  <2>2. Alive(succ[n][1].Ip)
    BY <1>4, <2>1, SuccessorIsUp
  <2> QED BY <1>4, <2>1, <2>2 DEF Alive, SafeInv
<1> QED BY <1>2, <1>3, <1>5 DEF MemberInv

LEMMA SafeStep ==
  ASSUME RingInv, SafeInv, Kept, Moves, ~TornWrites
  PROVE  SafeInv'
<1> SUFFICES ASSUME AllWell'
             PROVE  /\ \A n \in Visible' : Safe(n, succ'[n][1].Id)
                    /\ \A j \in Joiners : pc'[Join(j)] = "answer" => Safe(j, found'[j].Id)
  BY DEF SafeInv, Safe
<1>1. AllWell
  BY WellBefore DEF Kept
<1>2. ASSUME NEW j \in Joiners, pc'[Join(j)] = "answer" PROVE Safe(j, found'[j].Id)
  BY <1>1, <1>2 DEF Kept, NewsIsSafe, SafeInv
<1>3. ASSUME NEW n \in Visible' PROVE Safe(n, succ'[n][1].Id)
  <2>1. CASE n \notin Visible
    BY <1>1, <2>1 DEF Kept, NewsIsSafe
  <2>2. CASE n \in Visible
    <3>1. status[n] = "up" /\ n \in Nodes /\ Safe(n, succ[n][1].Id)
      BY <1>1, <2>2, VisibleIsUp DEF SafeInv, Visible
    <3>2. Visible' \subseteq Nodes /\ RingInv'
      BY DEF Kept, Visible
    <3>3. status'[n] = "up"
      <4>1. n \in Joiners => status'[n] # "down"
        BY <1>3, <3>2 DEF RingInv, LookupInv, Visible, VisiblePcs
      <4>2. status'[n] # "down"
        BY <3>1, <3>2, <4>1 DEF RingInv, MembersUp
      <4> QED BY <3>1, <4>2 DEF AllWell
    <3>4. Alive(succ[n][1].Ip)
      BY <1>1, <3>1, SuccessorIsUp
    <3>5. succ'[n][1] = succ[n][1] \/ Turn(n, succ'[n][1].Id) < Turn(n, succ[n][1].Id)
      BY <3>1, <3>3, <3>4 DEF Moves, Locked
    <3>6. succ[n][1].Id \in Keys /\ n \in Keys
      BY <3>1, ListTypes, NodeKeys DEF RingInv, TypeInv
    <3>7. succ'[n][1].Id \in Keys
      <4>1. succ'[n][1] \in FingerType
        BY <3>1, <3>2, RingAssumption DEF RingInv, TypeInv, TypeOK, FingerType
      <4> QED BY <4>1 DEF FingerType
    <3> QED BY <3>1, <3>5, <3>6, <3>7, SafeCloser
  <2> QED BY <2>1, <2>2
<1> QED BY <1>2, <1>3

-----------------------------------------------------------------------------
(***************************************************************************)
(* The inductive invariant.  What it says of the nodes that join, RingInv  *)
(* and SafeInv, holds if join's write cannot be seen half done; the rest   *)
(* holds in any case.                                                      *)
(***************************************************************************)

SuccessorInv ==
    /\ TypeInv /\ LockInv /\ AskedInv /\ HealthInv /\ StartInv /\ MemberInv
    /\ TornWrites \/ (RingInv /\ SafeInv)

LEMMA SuccessorStutters ==
  ASSUME SuccessorInv, UNCHANGED vars
  PROVE  SuccessorInv'
<1>1. UNCHANGED <<status, succ, pred, pc, level, asked, copy, cur, path, found>>
  BY DEF vars, nodeVars, stabVars, joinVars
<1>2. TypeInv' /\ LockInv'
  BY TypeNext, LockNext DEF SuccessorInv
<1>3. AskedInv' /\ HealthInv'
  BY <1>1, QuietHeld DEF SuccessorInv, Held
<1>4. StartInv' /\ MemberInv'
  BY <1>1 DEF SuccessorInv, StartInv, MemberInv, AllWell, Safe
<1>5. RingInv /\ SafeInv => RingInv' /\ SafeInv'
  BY RingStutters
<1> QED BY <1>2, <1>3, <1>4, <1>5 DEF SuccessorInv

LEMMA SuccessorNext ==
  ASSUME SuccessorInv, Next
  PROVE  SuccessorInv' /\ Moves
<1>0. TypeInv /\ TypeOK /\ TypeInv' /\ LockInv'
  BY TypeNext, LockNext DEF SuccessorInv, TypeInv
<1>1. Held
  BY HeldNext DEF SuccessorInv
<1>2. StartInv' /\ MemberInv'
  BY <1>0, <1>1, StartNext, MemberNext DEF Held, SuccessorInv
<1>3. ~TornWrites => RingInv' /\ SafeInv'
  <2> SUFFICES ASSUME ~TornWrites PROVE RingInv' /\ SafeInv'
    OBVIOUS
  <2>1. RingInv /\ SafeInv
    BY DEF SuccessorInv
  <2>2. Kept
    BY <2>1, RingNext
  <2> QED BY <1>1, <2>1, <2>2, SafeStep DEF Kept, Held
<1> QED BY <1>0, <1>1, <1>2, <1>3 DEF SuccessorInv, Held

LEMMA SuccessorInductive == Spec => []SuccessorInv
<1>1. Init => SuccessorInv
  BY InitTypes, LockInit, MemberInit, RingInit DEF SuccessorInv
<1>2. SuccessorInv /\ [Next]_vars => SuccessorInv'
  BY SuccessorNext, SuccessorStutters
<1> QED BY <1>1, <1>2, PTL DEF Spec

\* While nobody has died, no member's successor lies beyond another member,
\* whoever joins, however stabilize, the joins and their retried lookups
\* interleave, and however halves of the fingers that join writes without the
\* lock (chord.go, join) spread in the ring.  The same is true of a new node
\* from when it has written its successor, if that write is in one piece.
THEOREM NoMemberIsSkipped == Spec => []NoMemberSkipped
<1>1. SuccessorInv => NoMemberSkipped
  <2> SUFFICES ASSUME SuccessorInv, AllWell, NEW n \in Locked, InRing(n)
               PROVE  \A m \in Members : ~OnArc(n, succ[n][1].Id, m)
    BY DEF NoMemberSkipped
  <2>1. CASE n \in Members
    BY <2>1 DEF SuccessorInv, MemberInv, Safe
  <2>2. CASE n \notin Members
    <3>1. RingInv /\ SafeInv /\ n \in Joiners /\ n \in Nodes
      BY <2>2 DEF SuccessorInv, Locked, Nodes
    <3>2. n \in Visible
      BY <3>1 DEF InRing, Visible, VisiblePcs
    <3> QED BY <3>1, <3>2 DEF SafeInv, Safe
  <2> QED BY <2>1, <2>2
<1> QED BY <1>1, SuccessorInductive, PTL

\* A member replaces its successor only by a closer one, unless it is dead: the
\* calls that stabilize and the retried lookups make under the lock, and the
\* health check before a successor is adopted, are answered about the successor
\* the node still has.  The same is true of a node that joins, if its write is
\* in one piece.
THEOREM SuccessorIsKept == Spec => SuccessorKept
<1>1. SuccessorInv /\ [Next]_vars =>
        [\A n \in Locked :
            (status[n] = "up" /\ status'[n] = "up" /\ succ'[n][1] # succ[n][1])
                => \/ Turn(n, succ'[n][1].Id) < Turn(n, succ[n][1].Id)
                   \/ ~Alive(succ[n][1].Ip)]_vars
  BY SuccessorNext DEF Moves
<1> QED BY <1>1, SuccessorInductive, PTL DEF Spec, SuccessorKept

-----------------------------------------------------------------------------
(***************************************************************************)
(* Crashes in a ring that nobody joins: as long as fewer nodes die than a  *)
(* successor list has entries, every live node has a live successor to     *)
(* fall back on, and none takes itself for alone.  S are the nodes that    *)
(* are up, and a the addresses of the successor list of n.                 *)
(***************************************************************************)

Lists == [1 .. NumSucc -> Nodes]

\* The list passes over nobody who is up.
Shown(S, n, a) ==
    \A i \in 1 .. NumSucc : \A x \in S :
        Turn(n, x) < Turn(n, a[i]) => \E j \in 1 .. (i - 1) : a[j] = x

\* Until it comes back to n, the list goes on around the ring.
Climbs(n, a) ==
    \A i, j \in 1 .. NumSucc :
        i < j /\ (\A k \in 1 .. j : a[k] # n) => Turn(n, a[i]) < Turn(n, a[j])

\* checkSuccessor replaces a dead successor by a later entry, so that the list
\* has an entry twice until updateSuccessorList has run.
Good(S, n, a, place, lev) ==
    /\ a \in Lists /\ Shown(S, n, a)
    /\ \/ Climbs(n, a)
       \/ /\ place \in {"check", "update"}
          /\ \E x \in Nodes \ S : Climbs(n, [a EXCEPT ![1] = x])
    /\ place = "check" => lev = 1 \/ a[1] \notin S

Addresses(n) == [i \in 1 .. NumSucc |-> succ[n][i].Ip]

Crashed == {n \in Nodes : status[n] = "crashed"}

CrashInv ==
    /\ \A n \in Nodes : status[n] \in {"up", "crashed"}
    /\ Cardinality(Crashed) <= MaxCrashes
    /\ \A n \in Up : /\ \A i \in 1 .. NumSucc : succ[n][i] = Finger(succ[n][i].Ip)
                     /\ Good(Up, n, Addresses(n), pc[Stab(n)], level[Stab(n)])

LEMMA TurnsAdd ==
  ASSUME NEW n \in Keys, NEW m \in Keys, m # n
  PROVE  /\ \A y \in Keys : Turn(m, y) < Turn(m, n) => Turn(n, y) = Turn(n, m) + Turn(m, y)
         /\ \A y \in Keys : y # n /\ y # m /\ Turn(n, m) <= Turn(n, y)
                                => Turn(n, y) = Turn(n, m) + Turn(m, y) /\ Turn(m, y) < Turn(m, n)
         /\ \A y \in Keys : y # n => Turn(n, y) < Turn(n, n)
         /\ \A y \in Keys : Turn(n, y) <= Turn(n, n)
BY KeySpaceAssumption DEF Turn, Distance, Keys

LEMMA TurnMost ==
  ASSUME NEW n \in Keys, NEW y \in Keys
  PROVE  Turn(n, y) \in Int /\ Turn(n, y) <= Turn(n, n) /\ (y # n => Turn(n, y) < Turn(n, n))
BY KeySpaceAssumption DEF Turn, Distance, Keys

LEMMA Entries ==
  ASSUME NEW a \in Lists
  PROVE  /\ 1 \in 1 .. NumSucc /\ NumSucc \in Nat
         /\ \A i \in 1 .. NumSucc : i \in Int /\ a[i] \in Nodes /\ a[i] \in Keys
<1>1. NumSucc \in Nat /\ 1 \in 1 .. NumSucc
  BY RingAssumption
<1>2. \A i \in 1 .. NumSucc : a[i] \in Nodes
  BY DEF Lists
<1> QED BY <1>1, <1>2, NodeKeys

\* Behind its successor m a node puts the list of m.
LEMMA ShiftShown ==
  ASSUME NEW S \in SUBSET Nodes, NEW n \in S, NEW m \in S, NEW a \in Lists, NEW b \in Lists, NEW c \in Lists,
         a[1] = m, Shown(S, n, a), Shown(S, m, b),
         c[1] = m, \A i \in 1 .. NumSucc : i # 1 => c[i] = b[i - 1]
  PROVE  Shown(S, n, c)
<1> SUFFICES ASSUME NEW i \in 1 .. NumSucc, NEW x \in S, Turn(n, x) < Turn(n, c[i])
             PROVE  \E j \in 1 .. (i - 1) : c[j] = x
  BY DEF Shown
<1>0. n \in Keys /\ m \in Keys /\ x \in Keys /\ c[i] \in Keys /\ 1 \in 1 .. NumSucc /\ NumSucc \in Nat
  BY Entries, NodeKeys
<1>1. ~(Turn(n, x) < Turn(n, m))
  BY <1>0 DEF Shown
<1>2. i # 1
  BY <1>1
<1>3. x # n
  BY <1>0, TurnMost
<1>4. m # n
  BY <1>0, <1>1, <1>3, TurnMost
<1>5. CASE x = m
  <2>1. 1 \in 1 .. (i - 1)
    BY <1>2
  <2> QED BY <1>5, <2>1
<1>6. CASE x # m
  <2>1. Turn(n, m) \in Int /\ Turn(n, x) \in Int /\ Turn(m, x) \in Int /\ Turn(m, c[i]) \in Int
        /\ Turn(n, c[i]) \in Int /\ Turn(m, n) \in Int
    BY <1>0, TurnMost
  <2>2. Turn(n, x) = Turn(n, m) + Turn(m, x) /\ Turn(m, x) < Turn(m, n)
    BY <1>0, <1>1, <1>3, <1>4, <1>6, <2>1, TurnsAdd
  <2>3. Turn(m, x) < Turn(m, c[i])
    <3>1. CASE Turn(m, c[i]) < Turn(m, n)
      <4>1. Turn(n, c[i]) = Turn(n, m) + Turn(m, c[i])
        BY <1>0, <1>4, <3>1, TurnsAdd
      <4> QED BY <2>1, <2>2, <4>1
    <3>2. CASE ~(Turn(m, c[i]) < Turn(m, n))
      BY <2>1, <2>2, <3>2
    <3> QED BY <3>1, <3>2
  <2>4. i - 1 \in 1 .. NumSucc /\ c[i] = b[i - 1]
    BY <1>0, <1>2
  <2>5. PICK j \in 1 .. ((i - 1) - 1) : b[j] = x
    BY <2>3, <2>4 DEF Shown
  <2>6. j + 1 \in 1 .. NumSucc /\ j + 1 # 1 /\ (j + 1) - 1 = j /\ j + 1 \in 1 .. (i - 1)
    BY <1>0
  <2>7. c[j + 1] = b[(j + 1) - 1]
    BY <2>6
  <2> QED BY <2>5, <2>6, <2>7
<1> QED BY <1>5, <1>6

LEMMA ShiftClimbs ==
  ASSUME NEW S \in SUBSET Nodes, NEW n \in S, NEW m \in S, NEW b \in Lists, NEW c \in Lists,
         Shown(S, m, b), Climbs(m, b),
         c[1] = m, \A i \in 1 .. NumSucc : i # 1 => c[i] = b[i - 1]
  PROVE  Climbs(n, c)
<1> SUFFICES ASSUME NEW i \in 1 .. NumSucc, NEW j \in 1 .. NumSucc, i < j,
                    \A k \in 1 .. j : c[k] # n
             PROVE  Turn(n, c[i]) < Turn(n, c[j])
  BY DEF Climbs
<1>0. n \in Keys /\ m \in Keys /\ c[i] \in Keys /\ c[j] \in Keys /\ 1 \in 1 .. NumSucc /\ NumSucc \in Nat
      /\ i \in Int /\ j \in Int /\ n \in Nodes /\ m \in Nodes
  BY Entries, NodeKeys
<1>1. m # n
  <2>1. 1 \in 1 .. j
    BY <1>0
  <2> QED BY <2>1
\* In the list of m, n would come first.
<1>2. ASSUME NEW k \in 1 .. (j - 1)
      PROVE  k \in 1 .. NumSucc /\ k + 1 \in 1 .. j /\ b[k] = c[k + 1] /\ b[k] # n /\ b[k] \in Keys
             /\ ~(Turn(m, n) < Turn(m, b[k]))
  <2>1. k \in 1 .. NumSucc /\ k + 1 \in 1 .. NumSucc /\ k + 1 # 1 /\ (k + 1) - 1 = k /\ k + 1 \in 1 .. j
    BY <1>0
  <2>2. b[k] = c[k + 1]
    BY <2>1
  <2>3. b[k] # n /\ b[k] \in Keys
    BY <2>1, <2>2, Entries
  <2>4. ASSUME Turn(m, n) < Turn(m, b[k]) PROVE FALSE
    <3>1. PICK l \in 1 .. (k - 1) : b[l] = n
      BY <2>1, <2>4 DEF Shown
    <3>2. l + 1 \in 1 .. NumSucc /\ l + 1 # 1 /\ (l + 1) - 1 = l /\ l + 1 \in 1 .. j
      BY <1>0
    <3>3. c[l + 1] = b[(l + 1) - 1]
      BY <3>2
    <3> QED BY <3>1, <3>2, <3>3
  <2> QED BY <2>1, <2>2, <2>3, <2>4
<1>3. ASSUME NEW k \in 1 .. (j - 1)
      PROVE  b[k] # m /\ Turn(m, b[k]) < Turn(m, n) /\ Turn(n, b[k]) = Turn(n, m) + Turn(m, b[k])
             /\ Turn(m, b[k]) \in Int
  <2>1. b[k] # n /\ b[k] \in Keys /\ ~(Turn(m, n) < Turn(m, b[k]))
    BY <1>2
  <2>2. Turn(m, b[k]) \in Int /\ Turn(m, n) \in Int /\ Turn(m, b[k]) # Turn(m, n)
    BY <1>0, <2>1, TurnIsOneToOne, TurnMost
  <2>3. Turn(m, b[k]) < Turn(m, n)
    BY <2>1, <2>2
  <2>4. b[k] # m
    BY <1>0, <1>1, <2>1, TurnMost
  <2> QED BY <1>0, <1>1, <2>1, <2>2, <2>3, <2>4, TurnsAdd
<1>4. j - 1 \in 1 .. (j - 1) /\ c[j] = b[j - 1]
  <2>1. j - 1 \in 1 .. (j - 1) /\ j # 1
    BY <1>0
  <2> QED BY <2>1
<1>5. Turn(n, m) \in Int /\ Turn(n, c[j]) = Turn(n, m) + Turn(m, b[j - 1]) /\ Turn(m, b[j - 1]) \in Int
      /\ Turn(m, b[j - 1]) >= 1
  <2>1. b[j - 1] \in Keys
    BY <1>2, <1>4
  <2> QED BY <1>0, <1>3, <1>4, <2>1, TurnIsOneToOne, TurnMost
<1>6. CASE i = 1
  BY <1>5, <1>6
<1>7. CASE i # 1
  <2>1. i - 1 \in 1 .. (j - 1) /\ i - 1 < j - 1 /\ c[i] = b[i - 1]
    BY <1>0, <1>7
  <2>2. i - 1 \in 1 .. NumSucc /\ j - 1 \in 1 .. NumSucc /\ \A k \in 1 .. (j - 1) : b[k] # m
    BY <1>2, <1>3, <1>4, <2>1
  <2>3. Turn(m, b[i - 1]) < Turn(m, b[j - 1])
    BY <2>1, <2>2 DEF Climbs
  <2>4. Turn(n, b[i - 1]) = Turn(n, m) + Turn(m, b[i - 1]) /\ Turn(m, b[i - 1]) \in Int
    BY <1>3, <2>1
  <2> QED BY <1>5, <2>1, <2>3, <2>4
<1> QED BY <1>6, <1>7

\* The first entry that works takes the place of a dead successor.
LEMMA FirstShown ==
  ASSUME NEW S \in SUBSET Nodes, NEW n \in S, NEW a \in Lists, Shown(S, n, a), a[1] \notin S,
         NEW w \in 1 .. NumSucc, a[w] \in S, \A j \in 1 .. NumSucc : a[j] \in S => w <= j,
         NEW c, c = [a EXCEPT ![1] = a[w]]
  PROVE  c \in Lists /\ Shown(S, n, c)
<1>0. 1 \in 1 .. NumSucc /\ NumSucc \in Nat
  BY Entries
<1>1. c \in Lists /\ c[1] = a[w] /\ \A i \in 1 .. NumSucc : i # 1 => c[i] = a[i]
  BY <1>0, Entries DEF Lists
<1>2. ASSUME NEW i \in 1 .. NumSucc, NEW x \in S, Turn(n, x) < Turn(n, c[i])
      PROVE  \E j \in 1 .. (i - 1) : c[j] = x
  <2>1. CASE i = 1
    <3>1. PICK j \in 1 .. (w - 1) : a[j] = x
      BY <1>1, <1>2, <2>1 DEF Shown
    <3>2. j \in 1 .. NumSucc /\ ~(w <= j)
      BY <1>0
    <3> QED BY <3>1, <3>2
  <2>2. CASE i # 1
    <3>1. PICK j \in 1 .. (i - 1) : a[j] = x
      BY <1>1, <1>2, <2>2 DEF Shown
    <3>2. j # 1 /\ j \in 1 .. NumSucc
      BY <1>0, <3>1
    <3> QED BY <1>1, <3>1, <3>2
  <2> QED BY <2>1, <2>2
<1> QED BY <1>1, <1>2 DEF Shown

\* A list without a live entry names NumSucc nodes that are not up.
LEMMA AllDead ==
  ASSUME NEW S \in SUBSET Nodes, NEW n \in S, NEW a \in Lists, Climbs(n, a),
         \A i \in 1 .. NumSucc : a[i] \notin S
  PROVE  Cardinality(Nodes \ S) >= NumSucc
<1>0. NumSucc \in Nat /\ n \in Keys
  BY Entries, NodeKeys
<1>1. a \in [1 .. NumSucc -> Nodes \ S]
  BY DEF Lists
<1>2. ASSUME NEW i \in 1 .. NumSucc, NEW j \in 1 .. NumSucc, i < j PROVE a[i] # a[j]
  <2>1. \A k \in 1 .. j : a[k] # n
    BY <1>0
  <2>2. Turn(n, a[i]) < Turn(n, a[j])
    BY <1>2, <2>1 DEF Climbs
  <2>3. Turn(n, a[i]) \in Int
    BY <1>0, Entries, TurnMost
  <2> QED BY <2>2, <2>3
<1>3. \A i, j \in 1 .. NumSucc : a[i] = a[j] => i = j
  BY <1>0, <1>2
<1>4. a \in Injection(1 .. NumSucc, Nodes \ S)
  BY <1>1, <1>3 DEF Injection, IsInjective
<1>5. IsFiniteSet(Nodes \ S)
  BY RingAssumption, FS_Subset
<1>6. Cardinality(1 .. NumSucc) <= Cardinality(Nodes \ S)
  BY <1>4, <1>5, FS_Injection
<1>7. Cardinality(1 .. NumSucc) = NumSucc
  <2>1. 1 \in Int /\ NumSucc \in Int
    BY <1>0
  <2>2. Cardinality(1 .. NumSucc) = IF 1 > NumSucc THEN 0 ELSE NumSucc - 1 + 1
    BY <2>1, FS_Interval
  <2> QED BY <1>0, <2>2
<1>8. Cardinality(Nodes \ S) \in Nat
  BY <1>5, FS_CardinalityType
<1> QED BY <1>0, <1>6, <1>7, <1>8

-----------------------------------------------------------------------------
(***************************************************************************)
(* The first lists: the members in their order, over and over again.       *)
(***************************************************************************)

LEMMA Wraps ==
  ASSUME NEW a \in Nat, NEW c \in Nat \ {0}
  PROVE  \E r \in 0 .. (c - 1) : r = a % c /\ r <= a /\ (a < c => r = a)
<1>1. PICK q \in Int, r \in 0 .. (c - 1) : a = q * c + r /\ q = a \div c /\ r = a % c
  OBVIOUS
<1>2. q >= 0
  <2>1. SUFFICES ASSUME q < 0 PROVE FALSE
    OBVIOUS
  <2>2. PICK b \in Nat : q = -1 - b
    BY <2>1, -1 - q \in Nat
  <2>3. q * c = -c - b * c /\ b * c \in Nat
    BY <2>2
  <2> QED BY <1>1, <2>3
<1>3. a = q * c + r
  BY <1>1
<1>4. q * c \in Nat
  BY <1>2
<1>5. q # 0 => q * c >= c
  <2>1. SUFFICES ASSUME q # 0 PROVE q * c >= c
    OBVIOUS
  <2>2. PICK b \in Nat : q = b + 1
    BY <1>2, <2>1, q - 1 \in Nat
  <2>3. q * c = b * c + c /\ b * c \in Nat
    BY <2>2
  <2> QED BY <2>3
<1>6. r <= a
  BY <1>3, <1>4
<1>7. a < c => r = a
  <2>1. SUFFICES ASSUME a < c PROVE r = a
    OBVIOUS
  <2>2. q = 0
    BY <1>3, <1>4, <1>5, <2>1
  <2>3. q * c = 0
    BY <2>2
  <2> QED BY <1>3, <2>3
<1>8. r = a % c
  BY <1>1
<1> QED BY <1>6, <1>7, <1>8, Zenon

LEMMA AfterClimbs ==
  ASSUME NEW n \in Members, NEW C, C = Cardinality(Members)
  PROVE  /\ C \in Nat \ {0}
         /\ \A k, l \in 1 .. C : k < l => Turn(n, After(n, k)) < Turn(n, After(n, l))
         /\ \A x \in Members : \E k \in 1 .. C : x = After(n, k)
         /\ After(n, C) = n
<1>0. /\ IsFiniteSet(Members) /\ Members \subseteq Nodes /\ Members \subseteq Keys /\ C \in Nat \ {0}
      /\ n \in Nodes
  BY RingAssumption, FS_Subset, FS_CardinalityType, FS_EmptySet DEF Nodes
<1>1. \A x \in Members : Turn(n, x) \in Int /\ Turn(n, x) <= Turn(n, n)
  BY <1>0, TurnMost
<1>2. \A x \in Members : /\ IsFiniteSet(Upto(n, x)) /\ Cardinality(Upto(n, x)) \in Nat
                         /\ Upto(n, x) \subseteq Members /\ Cardinality(Upto(n, x)) <= C
                         /\ x \in Upto(n, x)
  <2> SUFFICES ASSUME NEW x \in Members
               PROVE  /\ IsFiniteSet(Upto(n, x)) /\ Cardinality(Upto(n, x)) \in Nat
                      /\ Upto(n, x) \subseteq Members /\ Cardinality(Upto(n, x)) <= C
                      /\ x \in Upto(n, x)
    OBVIOUS
  <2>1. Upto(n, x) \subseteq Members /\ x \in Upto(n, x)
    BY <1>1 DEF Upto
  <2> QED BY <1>0, <2>1, FS_Subset, FS_CardinalityType
<1>3. ASSUME NEW x \in Members, NEW y \in Members, Turn(n, x) < Turn(n, y)
      PROVE  Cardinality(Upto(n, x)) < Cardinality(Upto(n, y))
  <2>1. Upto(n, x) \subseteq Upto(n, y) /\ y \notin Upto(n, x)
    BY <1>1, <1>3 DEF Upto
  <2>2. Upto(n, x) # Upto(n, y)
    BY <1>2, <2>1
  <2>3. Cardinality(Upto(n, x)) <= Cardinality(Upto(n, y)) /\ Cardinality(Upto(n, x)) # Cardinality(Upto(n, y))
    BY <1>2, <2>1, <2>2, FS_Subset
  <2> QED BY <1>2, <2>3
<1>4. \A k \in 1 .. C : After(n, k) \in Members /\ Cardinality(Upto(n, After(n, k))) = k
  BY <1>0, AfterIs
<1>5. ASSUME NEW k \in 1 .. C, NEW l \in 1 .. C, k < l
      PROVE  Turn(n, After(n, k)) < Turn(n, After(n, l))
  <2>1. PICK x, y : x = After(n, k) /\ y = After(n, l)
    OBVIOUS
  <2>2. x \in Members /\ y \in Members /\ Cardinality(Upto(n, x)) = k /\ Cardinality(Upto(n, y)) = l
    BY <1>4, <2>1
  <2>3. ~(Turn(n, y) < Turn(n, x))
    BY <1>0, <1>3, <1>5, <2>2
  <2>4. Turn(n, y) # Turn(n, x)
    <3>1. x # y
      BY <1>0, <1>5, <2>2
    <3> QED BY <1>0, <2>2, <3>1, TurnIsOneToOne
  <2> QED BY <1>1, <2>1, <2>2, <2>3, <2>4
<1>6. ASSUME NEW x \in Members
      PROVE  Cardinality(Upto(n, x)) \in 1 .. C /\ x = After(n, Cardinality(Upto(n, x)))
  <2>1. PICK k : k = Cardinality(Upto(n, x))
    OBVIOUS
  <2>2. k \in 1 .. C
    BY <1>0, <1>2, <2>1, FS_EmptySet
  <2>3. PICK y : y = After(n, k)
    OBVIOUS
  <2>4. y \in Members /\ Cardinality(Upto(n, y)) = k
    BY <1>4, <2>2, <2>3
  <2>5. ~(Turn(n, x) < Turn(n, y)) /\ ~(Turn(n, y) < Turn(n, x))
    BY <1>3, <2>1, <2>2, <2>4
  <2>6. x = y
    BY <1>0, <1>1, <2>4, <2>5, TurnIsOneToOne
  <2> QED BY <2>1, <2>2, <2>3, <2>6
<1>7. After(n, C) = n
  <2>1. Upto(n, n) = Members
    BY <1>1 DEF Upto
  <2> QED BY <1>6, <2>1
<1> QED BY <1>0, <1>5, <1>6, <1>7

LEMMA FirstLists ==
  ASSUME NEW n \in Members, Members = Nodes, NEW a,
         a = [i \in 1 .. NumSucc |-> After(n, ((i - 1) % Cardinality(Members)) + 1)]
  PROVE  a \in Lists /\ Shown(Nodes, n, a) /\ Climbs(n, a)
<1>0. PICK C : C = Cardinality(Members)
  OBVIOUS
<1>1. /\ C \in Nat \ {0}
      /\ \A k, l \in 1 .. C : k < l => Turn(n, After(n, k)) < Turn(n, After(n, l))
      /\ \A x \in Members : \E k \in 1 .. C : x = After(n, k)
      /\ After(n, C) = n
  BY <1>0, AfterClimbs
<1>2. ASSUME NEW i \in 1 .. NumSucc
      PROVE  \E k \in 1 .. C : a[i] = After(n, k) /\ k <= i /\ (i <= C => k = i)
  <2>1. i - 1 \in Nat
    BY RingAssumption
  <2>2. PICK r \in 0 .. (C - 1) : r = (i - 1) % C /\ r <= i - 1 /\ (i - 1 < C => r = i - 1)
    BY <1>1, <2>1, Wraps
  <2>3. a[i] = After(n, r + 1)
    BY <1>0, <2>2
  <2>4. r <= i - 1 /\ (i - 1 < C => r = i - 1)
    BY <2>2
  <2>5. r + 1 \in 1 .. C /\ r + 1 <= i /\ (i <= C => r + 1 = i)
    BY <1>1, <2>1, <2>4
  <2> QED BY <2>3, <2>5
<1>3. a \in Lists
  <2>1. \A k \in 1 .. C : After(n, k) \in Members
    BY <1>0, AfterIs
  <2>2. \A i \in 1 .. NumSucc : a[i] \in Nodes
    BY <1>2, <2>1
  <2> QED BY <2>2 DEF Lists
<1>4. \A k \in 1 .. C : After(n, k) \in Keys /\ Turn(n, After(n, k)) \in Int
  BY <1>0, AfterIs, NodeKeys, TurnMost
<1>5. ASSUME NEW i \in 1 .. NumSucc, NEW x \in Nodes, Turn(n, x) < Turn(n, a[i])
      PROVE  \E j \in 1 .. (i - 1) : a[j] = x
  <2>1. PICK k \in 1 .. C : a[i] = After(n, k) /\ k <= i
    BY <1>2
  <2>2. PICK l \in 1 .. C : x = After(n, l)
    BY <1>1
  <2>3. Turn(n, After(n, l)) < Turn(n, After(n, k))
    BY <1>5, <2>1, <2>2
  <2>4. l < k
    <3>1. SUFFICES ASSUME k <= l PROVE FALSE
      BY <1>1
    <3>2. k = l \/ k < l
      BY <1>1, <3>1
    <3>3. Turn(n, After(n, k)) <= Turn(n, After(n, l))
      BY <1>1, <1>4, <3>2
    <3>4. Turn(n, After(n, k)) \in Int /\ Turn(n, After(n, l)) \in Int
      BY <1>4
    <3> QED BY <2>3, <3>3, <3>4
  <2>5. l \in 1 .. NumSucc /\ l \in 1 .. (i - 1) /\ l <= C
    BY <1>1, <2>1, <2>4, RingAssumption
  <2>6. a[l] = After(n, l)
    BY <1>2, <2>5
  <2> QED BY <2>2, <2>5, <2>6
<1>6. ASSUME NEW i \in 1 .. NumSucc, NEW j \in 1 .. NumSucc, i < j, \A k \in 1 .. j : a[k] # n
      PROVE  Turn(n, a[i]) < Turn(n, a[j])
  <2>1. j < C
    <3>1. SUFFICES ASSUME C <= j PROVE FALSE
      BY <1>1, RingAssumption
    <3>2. C \in 1 .. NumSucc /\ C \in 1 .. j
      BY <1>1, <3>1, RingAssumption
    <3>3. a[C] = After(n, C)
      BY <1>1, <1>2, <3>2
    <3> QED BY <1>1, <1>6, <3>2, <3>3
  <2>2. i \in 1 .. C /\ j \in 1 .. C /\ i <= C /\ j <= C
    BY <1>1, <1>6, <2>1, RingAssumption
  <2>3. a[i] = After(n, i) /\ a[j] = After(n, j)
    BY <1>2, <2>2
  <2> QED BY <1>1, <1>6, <2>2, <2>3
<1> QED BY <1>3, <1>5, <1>6 DEF Shown, Climbs

-----------------------------------------------------------------------------
(***************************************************************************)
(* The steps, when nobody joins.                                           *)
(***************************************************************************)

LEMMA UpIs ==
  ASSUME TypeOK
  PROVE  /\ Up \subseteq Nodes /\ \A x \in Nodes : Alive(x) <=> x \in Up
         /\ \A ip : Alive(ip) <=> ip # NoNode /\ status[ip] = "up"
  BY NodeKeys DEF Up, Alive

\* When nodes crash, lists stay good.
LEMMA GoodFewer ==
  ASSUME NEW S, NEW T \in SUBSET S, NEW n, NEW a, NEW place, NEW lev, Good(S, n, a, place, lev)
  PROVE  Good(T, n, a, place, lev)
<1>1. Shown(T, n, a)
  BY DEF Good, Shown
<1>2. Nodes \ S \subseteq Nodes \ T
  OBVIOUS
<1> QED BY <1>1, <1>2 DEF Good

\* A step of stabilize on n changes at most the list of n.
LEMMA GoodStep ==
  ASSUME TypeOK, CrashInv, NEW n \in Nodes, status' = status,
         \A k \in Nodes : k # n => succ'[k] = succ[k],
         \A k \in Nodes : k # n => pc'[Stab(k)] = pc[Stab(k)] /\ level'[Stab(k)] = level[Stab(k)],
         n \in Up => /\ \A i \in 1 .. NumSucc : succ'[n][i] = Finger(succ'[n][i].Ip)
                     /\ Good(Up, n, Addresses(n)', pc'[Stab(n)], level'[Stab(n)])
  PROVE  CrashInv'
<1>1. Up' = Up /\ Crashed' = Crashed /\ Up \subseteq Nodes
  BY UpIs DEF Up, Crashed
<1>2. ASSUME NEW k \in Up
      PROVE  /\ \A i \in 1 .. NumSucc : succ'[k][i] = Finger(succ'[k][i].Ip)
             /\ Good(Up, k, Addresses(k)', pc'[Stab(k)], level'[Stab(k)])
  <2>1. CASE k = n
    BY <2>1
  <2>2. CASE k # n
    <3>1. k \in Nodes /\ succ'[k] = succ[k] /\ pc'[Stab(k)] = pc[Stab(k)] /\ level'[Stab(k)] = level[Stab(k)]
      BY <1>1, <2>2
    <3>2. Addresses(k)' = Addresses(k)
      BY <3>1 DEF Addresses
    <3> QED BY <3>1, <3>2 DEF CrashInv
  <2> QED BY <2>1, <2>2
<1>3. \A k \in Nodes : status'[k] \in {"up", "crashed"}
  BY DEF CrashInv
<1>4. Cardinality(Crashed') <= MaxCrashes
  BY <1>1 DEF CrashInv
<1> QED BY <1>1, <1>2, <1>3, <1>4 DEF CrashInv

\* The list and what is known about it.
LEMMA GoodList ==
  ASSUME TypeOK, CrashInv, NEW n \in Up, NEW a, a = Addresses(n)
  PROVE  /\ n \in Nodes /\ a \in Lists /\ Shown(Up, n, a)
         /\ \A i \in 1 .. NumSucc : succ[n][i].Ip = a[i] /\ succ[n][i] = Finger(a[i]) /\ succ[n][i].Id = a[i]
         /\ Good(Up, n, a, pc[Stab(n)], level[Stab(n)])
         /\ 1 \in 1 .. NumSucc
         /\ \A i \in 1 .. NumSucc : a[i] \in Nodes /\ (Alive(a[i]) <=> a[i] \in Up)
<1>1. n \in Nodes
  BY UpIs
<1>2. Good(Up, n, a, pc[Stab(n)], level[Stab(n)])
  BY DEF CrashInv
<1>3. a \in Lists /\ Shown(Up, n, a)
  BY <1>2 DEF Good
<1>4. \A i \in 1 .. NumSucc : a[i] \in Nodes /\ (Alive(a[i]) <=> a[i] \in Up)
  BY <1>3, Entries, UpIs
<1>5. \A i \in 1 .. NumSucc : succ[n][i].Ip = a[i] /\ succ[n][i] = Finger(a[i])
  BY DEF Addresses, CrashInv
<1>6. \A i \in 1 .. NumSucc : succ[n][i].Id = a[i]
  BY <1>4, <1>5, Fingers
<1> QED BY <1>1, <1>2, <1>3, <1>4, <1>5, <1>6, Entries

LEMMA ReturnsStab ==
  ASSUME TypeOK, NEW n \in Nodes, Returns(Stab(n))
  PROVE  /\ \A k \in Nodes : k # n => pc'[Stab(k)] = pc[Stab(k)] /\ level'[Stab(k)] = level[Stab(k)]
         /\ pc'[Stab(n)] # "check"
         /\ level[Stab(n)] = 1 => pc'[Stab(n)] = "update"
<1>1. Stab(n) \in Goroutines /\ \A k \in Nodes : k # n => Stab(k) # Stab(n) /\ Stab(k) \in Goroutines
  BY Threads
<1>2. PICK p : Goto(Stab(n), p) /\ p # "check" /\ (level[Stab(n)] = 1 => p = "update")
  BY DEF Returns
<1>3. pc'[Stab(n)] = p /\ \A k \in Nodes : k # n => pc'[Stab(k)] = pc[Stab(k)]
  BY <1>1, <1>2 DEF Goto, TypeOK
<1>4. \A k \in Nodes : k # n => level'[Stab(k)] = level[Stab(k)]
  BY <1>1 DEF Returns, TypeOK
<1> QED BY <1>2, <1>3, <1>4

LEMMA GotoStab ==
  ASSUME TypeOK, NEW n \in Nodes, NEW p, Goto(Stab(n), p)
  PROVE  pc'[Stab(n)] = p /\ \A k \in Nodes : k # n => pc'[Stab(k)] = pc[Stab(k)]
<1>1. Stab(n) \in Goroutines /\ \A k \in Nodes : k # n => Stab(k) # Stab(n) /\ Stab(k) \in Goroutines
  BY Threads
<1> QED BY <1>1 DEF Goto, TypeOK

\* Some entry of the list works, since fewer nodes crash than it has entries.
LEMMA SomeWorks ==
  ASSUME TypeOK, CrashInv, MaxCrashes < NumSucc, NEW n \in Up, NEW a, a = Addresses(n)
  PROVE  \E i \in 1 .. NumSucc : a[i] \in Up
<1>1. SUFFICES ASSUME \A i \in 1 .. NumSucc : a[i] \notin Up PROVE FALSE
  OBVIOUS
<1>2. a \in Lists /\ Good(Up, n, a, pc[Stab(n)], level[Stab(n)]) /\ 1 \in 1 .. NumSucc /\ Up \subseteq Nodes
  BY GoodList, UpIs
<1>3. PICK b \in Lists : Climbs(n, b) /\ \A i \in 1 .. NumSucc : b[i] \notin Up
  <2>1. CASE Climbs(n, a)
    BY <1>1, <1>2, <2>1
  <2>2. CASE ~Climbs(n, a)
    <3>1. PICK x \in Nodes \ Up : Climbs(n, [a EXCEPT ![1] = x])
      BY <1>2, <2>2 DEF Good
    <3>2. PICK b : b = [a EXCEPT ![1] = x]
      OBVIOUS
    <3>3. b \in Lists /\ \A i \in 1 .. NumSucc : b[i] = x \/ b[i] = a[i]
      BY <1>2, <3>1, <3>2 DEF Lists
    <3> QED BY <1>1, <3>1, <3>2, <3>3
  <2> QED BY <2>1, <2>2
<1>4. Cardinality(Nodes \ Up) >= NumSucc
  BY <1>2, <1>3, AllDead
<1>5. Nodes \ Up = Crashed
  BY DEF CrashInv, Up, Crashed
<1>6. IsFiniteSet(Crashed) /\ Cardinality(Crashed) \in Nat
  BY RingAssumption, FS_Subset, FS_CardinalityType DEF Crashed
<1>7. Cardinality(Crashed) <= MaxCrashes
  BY DEF CrashInv
<1>8. NumSucc \in Nat /\ MaxCrashes \in Nat
  BY RingAssumption
<1> QED BY <1>4, <1>5, <1>6, <1>7, <1>8

LEMMA StabAsks ==
  ASSUME TypeOK, Joiners = {}, AskedInv, NEW n \in Nodes, Alive(Host(Stab(n))),
         pc[Stab(n)] \in {"check", "update"}
  PROVE  Host(Stab(n)) = n /\ asked[Stab(n)] = succ[n][1].Ip
<1>1. Host(Stab(n)) = n /\ Stab(n) \in Goroutines /\ n \in Locked /\ status[n] = "up"
  BY Hosts, Threads DEF Locked, Nodes, Alive
<1> QED BY <1>1 DEF AskedInv, ListPcs

LEMMA CheckGood ==
  ASSUME TypeOK, Joiners = {}, AskedInv, CrashInv, MaxCrashes < NumSucc,
         NEW n \in Nodes, CheckSuccessor(Stab(n))
  PROVE  CrashInv'
<1>0. Host(Stab(n)) = n /\ asked[Stab(n)] = succ[n][1].Ip
  BY StabAsks DEF CheckSuccessor
<1>1. pc[Stab(n)] = "check" /\ n \in Up /\ status' = status
  BY <1>0, UpIs DEF CheckSuccessor
<1>2. PICK a : a = Addresses(n)
  OBVIOUS
<1>3. /\ a \in Lists /\ Shown(Up, n, a) /\ 1 \in 1 .. NumSucc
      /\ \A i \in 1 .. NumSucc : succ[n][i].Ip = a[i] /\ succ[n][i] = Finger(a[i])
      /\ Good(Up, n, a, pc[Stab(n)], level[Stab(n)])
      /\ \A i \in 1 .. NumSucc : a[i] \in Nodes /\ (Alive(a[i]) <=> a[i] \in Up)
  BY <1>1, <1>2, GoodList
<1>4. CASE Alive(succ[n][1].Ip) /\ Returns(Stab(n)) /\ UNCHANGED succ
  <2>1. a[1] \in Up /\ level[Stab(n)] = 1
    BY <1>1, <1>3, <1>4 DEF Good
  <2>2. /\ \A k \in Nodes : k # n => pc'[Stab(k)] = pc[Stab(k)] /\ level'[Stab(k)] = level[Stab(k)]
        /\ pc'[Stab(n)] = "update"
    BY <1>4, <2>1, ReturnsStab
  <2>3. Addresses(n)' = a /\ \A i \in 1 .. NumSucc : succ'[n][i] = Finger(succ'[n][i].Ip)
    BY <1>2, <1>3, <1>4 DEF Addresses
  <2>4. Good(Up, n, a, "update", level'[Stab(n)])
    BY <1>3 DEF Good
  <2> QED BY <1>1, <1>4, <2>2, <2>3, <2>4, GoodStep
<1>5. CASE /\ ~Alive(succ[n][1].Ip) /\ succ' = [succ EXCEPT ![n][1] = FirstWorking(n)]
           /\ Goto(Stab(n), "update") /\ UNCHANGED level
  <2> DEFINE working == {i \in 1 .. NumSucc : Alive(succ[n][i].Ip)}
  <2>1. working = {i \in 1 .. NumSucc : a[i] \in Up}
    BY <1>3
  <2>2. working # {} /\ working \in SUBSET (1 .. NumSucc) /\ NumSucc \in Int /\ 1 \in Int
    BY <1>1, <1>2, <2>1, SomeWorks, RingAssumption
  <2>3. PICK w : w = Min(working)
    OBVIOUS
  <2>4. w \in working /\ \A j \in working : w <= j
    <3> HIDE DEF working
    <3> QED BY <2>2, <2>3, Least
  <2>5. FirstWorking(n) = succ[n][w]
    BY <2>2, <2>3 DEF FirstWorking
  <2>6. w \in 1 .. NumSucc /\ a[w] \in Up /\ \A j \in 1 .. NumSucc : a[j] \in Up => w <= j
    BY <2>1, <2>4
  <2>7. a[1] \notin Up /\ FirstWorking(n) = Finger(a[w]) /\ a[w] \in Nodes /\ Finger(a[w]) \in FingerType
        /\ Finger(a[w]).Ip = a[w]
    BY <1>3, <1>5, <2>5, <2>6, Fingers
  <2>8. /\ succ'[n][1] = Finger(a[w])
        /\ \A i \in 1 .. NumSucc : i # 1 => succ'[n][i] = succ[n][i]
        /\ \A m \in Nodes : m # n => succ'[m] = succ[m]
    BY <1>5, <2>7, HeadTypes
  <2>9. PICK c : c = [a EXCEPT ![1] = a[w]]
    OBVIOUS
  <2>10. c[1] = a[w] /\ \A i \in 1 .. NumSucc : (i # 1 => c[i] = a[i])
    BY <1>3, <2>9 DEF Lists
  <2>11. c \in Lists /\ Shown(Up, n, c)
    BY <1>1, <1>3, <2>6, <2>7, <2>9, FirstShown, UpIs
  <2>12. \A i \in 1 .. NumSucc : succ'[n][i] = Finger(succ'[n][i].Ip) /\ succ'[n][i].Ip = c[i]
    BY <1>3, <2>7, <2>8, <2>10
  <2>13. Addresses(n)' = c
    BY <2>11, <2>12 DEF Addresses, Lists
  <2>14. \E x \in Nodes \ Up : Climbs(n, [c EXCEPT ![1] = x])
    <3>1. CASE Climbs(n, a)
      <4>1. [c EXCEPT ![1] = a[1]] = a
        BY <1>3, <2>9, <2>10, <2>11 DEF Lists
      <4> QED BY <1>3, <2>7, <3>1, <4>1
    <3>2. CASE ~Climbs(n, a)
      <4>1. PICK x \in Nodes \ Up : Climbs(n, [a EXCEPT ![1] = x])
        BY <1>3, <3>2 DEF Good
      <4>2. [c EXCEPT ![1] = x] = [a EXCEPT ![1] = x]
        BY <1>3, <2>9, <2>10, <2>11 DEF Lists
      <4> QED BY <4>1, <4>2
    <3> QED BY <3>1, <3>2
  <2>15. Good(Up, n, c, "update", level'[Stab(n)])
    BY <2>11, <2>14 DEF Good
  <2>16. pc'[Stab(n)] = "update" /\ \A k \in Nodes : k # n => pc'[Stab(k)] = pc[Stab(k)]
    BY <1>5, GotoStab
  <2> QED BY <1>1, <1>5, <2>8, <2>12, <2>13, <2>15, <2>16, GoodStep
<1> QED BY <1>0, <1>4, <1>5 DEF CheckSuccessor

LEMMA UpdateGood ==
  ASSUME TypeOK, Joiners = {}, AskedInv, CrashInv, NEW n \in Nodes, UpdateSuccessorList(Stab(n))
  PROVE  CrashInv'
<1>0. Host(Stab(n)) = n /\ asked[Stab(n)] = succ[n][1].Ip
  BY StabAsks DEF UpdateSuccessorList
<1>1. pc[Stab(n)] = "update" /\ n \in Up /\ status' = status
  BY <1>0, UpIs DEF UpdateSuccessorList
<1>2. PICK a, m : a = Addresses(n) /\ m = a[1]
  OBVIOUS
<1>3. /\ a \in Lists /\ Shown(Up, n, a) /\ 1 \in 1 .. NumSucc
      /\ \A i \in 1 .. NumSucc : succ[n][i].Ip = a[i] /\ succ[n][i] = Finger(a[i])
      /\ Good(Up, n, a, pc[Stab(n)], level[Stab(n)])
      /\ \A i \in 1 .. NumSucc : a[i] \in Nodes /\ (Alive(a[i]) <=> a[i] \in Up)
  BY <1>1, <1>2, GoodList
<1>4. m \in Nodes /\ succ[n][1].Ip = m /\ (Alive(m) <=> m \in Up)
  BY <1>2, <1>3
<1>5. CASE ~Alive(m) /\ Goto(Stab(n), "check") /\ UNCHANGED <<succ, level>>
  <2>1. pc'[Stab(n)] = "check" /\ \A k \in Nodes : k # n => pc'[Stab(k)] = pc[Stab(k)]
    BY <1>5, GotoStab
  <2>2. Addresses(n)' = a /\ \A i \in 1 .. NumSucc : succ'[n][i] = Finger(succ'[n][i].Ip)
    BY <1>2, <1>3, <1>5 DEF Addresses
  <2>3. Good(Up, n, a, "check", level[Stab(n)])
    BY <1>1, <1>2, <1>3, <1>4, <1>5 DEF Good
  <2> QED BY <1>1, <1>5, <2>1, <2>2, <2>3, GoodStep
<1>6. CASE Alive(m) /\ (m = n \/ LockFree(m)) /\ succ' = [succ EXCEPT ![n] = Shifted(n, m)] /\ Returns(Stab(n))
  <2>1. /\ \A k \in Nodes : k # n => pc'[Stab(k)] = pc[Stab(k)] /\ level'[Stab(k)] = level[Stab(k)]
        /\ pc'[Stab(n)] # "check"
    BY <1>6, ReturnsStab
  <2>2. m \in Up
    BY <1>4, <1>6
  <2>3. PICK b : b = Addresses(m)
    OBVIOUS
  <2>4. /\ b \in Lists /\ Shown(Up, m, b)
        /\ \A i \in 1 .. NumSucc : succ[m][i].Ip = b[i] /\ succ[m][i] = Finger(b[i])
        /\ Good(Up, m, b, pc[Stab(m)], level[Stab(m)])
    BY <2>2, <2>3, GoodList
  <2>5. /\ succ'[n][1] = succ[n][1]
        /\ \A i \in 1 .. NumSucc : i # 1 => i - 1 \in 1 .. NumSucc /\ succ'[n][i] = succ[m][i - 1]
        /\ \A k \in Nodes : k # n => succ'[k] = succ[k]
    BY <1>4, <1>6, ShiftedTypes
  <2>6. PICK c : c = [i \in 1 .. NumSucc |-> IF i = 1 THEN m ELSE b[i - 1]]
    OBVIOUS
  <2>7. c[1] = m /\ \A i \in 1 .. NumSucc : i # 1 => c[i] = b[i - 1]
    BY <1>3, <2>6
  <2>8. c \in Lists
    BY <1>4, <2>4, <2>5, <2>6 DEF Lists
  <2>9. \A i \in 1 .. NumSucc : succ'[n][i] = Finger(succ'[n][i].Ip) /\ succ'[n][i].Ip = c[i]
    BY <1>2, <1>3, <2>4, <2>5, <2>7
  <2>10. Addresses(n)' = c
    BY <2>8, <2>9 DEF Addresses, Lists
  <2>11. Shown(Up, n, c)
    BY <1>1, <1>2, <1>3, <2>2, <2>4, <2>7, <2>8, ShiftShown, UpIs
  <2>12. Climbs(n, c)
    <3>1. CASE m = n
      BY <2>7, <3>1, RingAssumption DEF Climbs
    <3>2. CASE m # n
      <4>1. LockFree(m)
        BY <1>6, <3>2
      <4>2. pc[Stab(m)] \notin {"check", "update"}
        BY <1>4, <4>1, Threads, Hosts DEF LockFree, Holding
      <4>3. Climbs(m, b)
        BY <2>4, <4>2 DEF Good
      <4> QED BY <1>1, <2>2, <2>4, <2>7, <2>8, <4>3, ShiftClimbs, UpIs
    <3> QED BY <3>1, <3>2
  <2>13. Good(Up, n, c, pc'[Stab(n)], level'[Stab(n)])
    BY <2>1, <2>8, <2>11, <2>12 DEF Good
  <2> QED BY <1>1, <2>1, <2>5, <2>9, <2>10, <2>13, GoodStep
<1> QED BY <1>0, <1>4, <1>5, <1>6 DEF UpdateSuccessorList

\* A step that leaves the list of n alone.
LEMMA QuietGood ==
  ASSUME TypeOK, CrashInv, NEW n \in Nodes, status' = status, succ' = succ,
         \A k \in Nodes : k # n => pc'[Stab(k)] = pc[Stab(k)] /\ level'[Stab(k)] = level[Stab(k)],
         pc[Stab(n)] \notin {"check", "update"} \/ pc'[Stab(n)] = pc[Stab(n)],
         pc'[Stab(n)] = "check" => level'[Stab(n)] = 1 \/ (level' = level /\ pc' = pc)
  PROVE  CrashInv'
<1>1. CASE n \notin Up
  BY <1>1, GoodStep
<1>2. CASE n \in Up
  <2>1. PICK a : a = Addresses(n)
    OBVIOUS
  <2>2. /\ Good(Up, n, a, pc[Stab(n)], level[Stab(n)])
        /\ \A i \in 1 .. NumSucc : succ[n][i].Ip = a[i] /\ succ[n][i] = Finger(a[i])
    BY <1>2, <2>1, GoodList
  <2>3. Addresses(n)' = a
    BY <2>1 DEF Addresses
  <2>4. Good(Up, n, a, pc'[Stab(n)], level'[Stab(n)])
    BY <2>2 DEF Good
  <2> QED BY <2>2, <2>3, <2>4, GoodStep
<1> QED BY <1>1, <1>2

LEMMA LockGood ==
  ASSUME TypeOK, CrashInv, NEW n \in Nodes, StabilizeLock(n)
  PROVE  CrashInv'
<1>1. pc'[Stab(n)] = "check" /\ \A k \in Nodes : k # n => pc'[Stab(k)] = pc[Stab(k)]
  BY GotoStab DEF StabilizeLock
<1>2. level'[Stab(n)] = 1 /\ \A k \in Nodes : k # n => level'[Stab(k)] = level[Stab(k)]
  BY Threads DEF StabilizeLock, TypeOK
<1>3. pc[Stab(n)] = "idle" /\ status' = status /\ succ' = succ
  BY DEF StabilizeLock, nodeVars
<1> QED BY <1>1, <1>2, <1>3, QuietGood

LEMMA GetPredecessorGood ==
  ASSUME TypeOK, CrashInv, NEW n \in Nodes, StabilizeUnlock(n) \/ GetPredecessor(n) \/ Recheck(n)
  PROVE  CrashInv'
<1>1. PICK p \in {"getPred", "recheck", "health", "notify"} : Goto(Stab(n), p)
  BY DEF StabilizeUnlock, GetPredecessor, Recheck
<1>2. pc'[Stab(n)] = p /\ \A k \in Nodes : k # n => pc'[Stab(k)] = pc[Stab(k)]
  BY <1>1, GotoStab
<1>3. pc[Stab(n)] \in {"unlock", "getPred", "recheck"} /\ status' = status /\ succ' = succ /\ level' = level
  BY DEF StabilizeUnlock, GetPredecessor, Recheck, nodeVars
<1> QED BY <1>1, <1>2, <1>3, QuietGood

\* No nearer node is up: the predecessor found is dead.
LEMMA AdoptGood ==
  ASSUME TypeOK, Joiners = {}, HealthInv, CrashInv, NEW n \in Nodes, Adopt(n)
  PROVE  CrashInv'
<1>1. n \in Up /\ pc[Stab(n)] = "health" /\ status' = status
  BY UpIs DEF Adopt
<1>2. PICK a : a = Addresses(n)
  OBVIOUS
<1>3. a \in Lists /\ Shown(Up, n, a) /\ 1 \in 1 .. NumSucc /\ succ[n][1].Id = a[1] /\ a[1] \in Nodes
  BY <1>1, <1>2, GoodList
<1>4. ~Alive(cur[n])
  <2>1. SUFFICES ASSUME Alive(cur[n]) PROVE FALSE
    OBVIOUS
  <2>2. cur[n] \in Up /\ cur[n] \in Nodes
    BY <2>1, UpIs DEF TypeOK
  <2>3. keyInBetweenExclusive(n, a[1], cur[n])
    BY <1>1, <1>3, <2>1 DEF HealthInv, Nearer, Locked, Nodes, Alive, Up
  <2>4. Turn(n, cur[n]) < Turn(n, a[1])
    BY <1>3, <2>2, <2>3, NodeKeys, NearerIsCloser
  <2>5. \E j \in 1 .. (1 - 1) : a[j] = cur[n]
    BY <1>3, <2>2, <2>4 DEF Shown
  <2> QED BY <2>5
<1>5. Goto(Stab(n), "notify") /\ UNCHANGED <<succ, level>>
  BY <1>4 DEF Adopt
<1>6. pc'[Stab(n)] = "notify" /\ \A k \in Nodes : k # n => pc'[Stab(k)] = pc[Stab(k)]
  BY <1>5, GotoStab
<1> QED BY <1>1, <1>5, <1>6, QuietGood

LEMMA NotifyGood ==
  ASSUME TypeOK, CrashInv, NEW n \in Nodes, NotifySuccessor(n) \/ CheckPredecessor(n)
  PROVE  CrashInv'
<1>1. CASE NotifySuccessor(n)
  <2>1. pc'[Stab(n)] = "idle" /\ \A k \in Nodes : k # n => pc'[Stab(k)] = pc[Stab(k)]
    BY <1>1, GotoStab DEF NotifySuccessor
  <2>2. pc[Stab(n)] = "notify" /\ status' = status /\ succ' = succ /\ level' = level
    BY <1>1 DEF NotifySuccessor
  <2> QED BY <2>1, <2>2, QuietGood
<1>2. CASE CheckPredecessor(n)
  <2>1. pc' = pc /\ level' = level /\ status' = status /\ succ' = succ
    BY <1>2 DEF CheckPredecessor
  <2> QED BY <2>1, QuietGood
<1> QED BY <1>1, <1>2

LEMMA CrashGood ==
  ASSUME TypeOK, CrashInv, NEW n \in Nodes, Crash(n)
  PROVE  CrashInv'
<1>1. /\ status' = [status EXCEPT ![n] = "crashed"]
      /\ succ' = [succ EXCEPT ![n] = [i \in 1 .. NumSucc |-> NoFinger]]
      /\ pc' = pc /\ level' = level /\ Cardinality(Crashed) < MaxCrashes /\ n \in Up
  BY UpIs DEF Crash, Dies, Crashed
<1>2. Up' = Up \ {n} /\ Crashed' = Crashed \cup {n} /\ Up \subseteq Nodes
  BY <1>1, UpIs DEF Up, Crashed, TypeOK
<1>3. \A k \in Nodes : status'[k] \in {"up", "crashed"}
  BY <1>1 DEF CrashInv, TypeOK
<1>4. Cardinality(Crashed') <= MaxCrashes
  <2>1. IsFiniteSet(Crashed) /\ Cardinality(Crashed) \in Nat
    BY RingAssumption, FS_Subset, FS_CardinalityType DEF Crashed
  <2>2. Cardinality(Crashed \cup {n}) = IF n \in Crashed THEN Cardinality(Crashed) ELSE Cardinality(Crashed) + 1
    BY <2>1, FS_AddElement
  <2> QED BY <1>1, <1>2, <2>1, <2>2, RingAssumption
<1>5. ASSUME NEW k \in Up \ {n}
      PROVE  /\ \A i \in 1 .. NumSucc : succ'[k][i] = Finger(succ'[k][i].Ip)
             /\ Good(Up \ {n}, k, Addresses(k)', pc[Stab(k)], level[Stab(k)])
  <2>1. k \in Nodes /\ succ'[k] = succ[k]
    BY <1>1, <1>2 DEF TypeOK
  <2>2. Addresses(k)' = Addresses(k)
    BY <2>1 DEF Addresses
  <2>3. Good(Up, k, Addresses(k), pc[Stab(k)], level[Stab(k)])
    BY DEF CrashInv
  <2>4. Good(Up \ {n}, k, Addresses(k), pc[Stab(k)], level[Stab(k)])
    BY <2>3, GoodFewer
  <2> QED BY <2>1, <2>2, <2>4 DEF CrashInv
<1> QED BY <1>1, <1>2, <1>3, <1>4, <1>5 DEF CrashInv

LEMMA CrashInit ==
  ASSUME Joiners = {}, Init
  PROVE  CrashInv
<1>0. Nodes = Members /\ TypeOK
  BY InitTypes DEF Nodes, TypeInv
<1>1. \A n \in Nodes : status[n] = "up"
  BY <1>0 DEF Init
<1>2. Up = Nodes /\ Crashed = {}
  BY <1>1 DEF Up, Crashed
<1>3. Cardinality(Crashed) <= MaxCrashes
  BY <1>2, FS_EmptySet, RingAssumption
<1>4. ASSUME NEW n \in Nodes
      PROVE  /\ \A i \in 1 .. NumSucc : succ[n][i] = Finger(succ[n][i].Ip)
             /\ Good(Up, n, Addresses(n), pc[Stab(n)], level[Stab(n)])
  <2>1. PICK a : a = [i \in 1 .. NumSucc |-> After(n, ((i - 1) % Cardinality(Members)) + 1)]
    OBVIOUS
  <2>2. a \in Lists /\ Shown(Nodes, n, a) /\ Climbs(n, a)
    BY <1>0, <2>1, FirstLists
  <2>3. \A i \in 1 .. NumSucc : succ[n][i] = Finger(After(n, ((i - 1) % Cardinality(Members)) + 1))
    BY <1>0 DEF Init
  <2>4. \A i \in 1 .. NumSucc : succ[n][i] = Finger(a[i]) /\ a[i] \in Nodes
    BY <2>1, <2>2, <2>3, Entries
  <2>5. \A i \in 1 .. NumSucc : succ[n][i].Ip = a[i]
    BY <2>4, Fingers
  <2>6. Addresses(n) = a
    BY <2>2, <2>5 DEF Addresses, Lists
  <2>7. pc[Stab(n)] = "idle"
    BY Threads DEF Init
  <2> QED BY <1>2, <2>2, <2>4, <2>5, <2>6, <2>7 DEF Good
<1> QED BY <1>1, <1>2, <1>3, <1>4 DEF CrashInv

LEMMA CrashNext ==
  ASSUME Joiners = {}, MaxCrashes < NumSucc, TypeOK, AskedInv, HealthInv, CrashInv, [Next]_vars
  PROVE  CrashInv'
<1>1. CASE UNCHANGED vars
  <2>1. UNCHANGED <<status, succ, pc, level>>
    BY <1>1 DEF vars, nodeVars
  <2> QED BY <2>1 DEF CrashInv, Up, Crashed, Addresses
<1>2. CASE Next
  <2>1. PICK n \in Nodes : Stabilize(n) \/ CheckPredecessor(n) \/ Crash(n)
    BY <1>2 DEF Next
  <2> QED BY <2>1, CheckGood, UpdateGood, LockGood, GetPredecessorGood, AdoptGood, NotifyGood,
             CrashGood
          DEF Stabilize
<1> QED BY <1>1, <1>2

LEMMA InvNotIsolated ==
  ASSUME Joiners = {}, TypeOK, CrashInv
  PROVE  NeverIsolated
<1> SUFFICES ASSUME NEW n \in Nodes, NEW m \in Nodes, m # n, InRing(n), InRing(m), succ[n][1].Ip = n
             PROVE  FALSE
  BY DEF NeverIsolated
<1>1. n \in Up /\ m \in Up
  BY DEF InRing, Up
<1>2. PICK a : a = Addresses(n)
  OBVIOUS
<1>3. Shown(Up, n, a) /\ 1 \in 1 .. NumSucc /\ a[1] = n
  BY <1>1, <1>2, GoodList
<1>4. Turn(n, m) < Turn(n, n)
  BY NodeKeys, TurnMost
<1>5. \E j \in 1 .. (1 - 1) : a[j] = m
  BY <1>1, <1>3, <1>4 DEF Shown
<1> QED BY <1>5

\* Without joins, and if fewer nodes crash than a successor list has entries, no
\* node takes itself for the only one left, whatever the number of nodes and
\* however the crashes fall between the steps of checkSuccessor and
\* updateSuccessorList.
THEOREM NobodyIsIsolated ==
  ASSUME Joiners = {}, MaxCrashes < NumSucc
  PROVE  Spec => []NeverIsolated
<1>1. Init => CrashInv
  BY CrashInit
<1>2. SuccessorInv /\ CrashInv /\ [Next]_vars => CrashInv'
  BY CrashNext DEF SuccessorInv, TypeInv
<1>3. SuccessorInv /\ CrashInv => NeverIsolated
  BY InvNotIsolated DEF SuccessorInv, TypeInv
<1> QED BY <1>1, <1>2, <1>3, SuccessorInductive, PTL DEF Spec
=============================================================================
