-------------------------- MODULE ChordFilesProofs --------------------------
(***************************************************************************)
(* Theorems about the file store of Chord, for every ring, every placement *)
(* of the file, every number of keys and users, every interleaving of the  *)
(* stabilize loops and any number of crashes, panics and joins: a node that*)
(* every lookup names keeps its copy, and in a ring that does not change   *)
(* the first home keeps the contents.                                      *)
(***************************************************************************)
EXTENDS ChordFiles, FiniteSetTheorems, WellFoundedInduction, TLAPS

-----------------------------------------------------------------------------
(***************************************************************************)
(* The owner of a key and its successor.                                   *)
(***************************************************************************)

LEMMA KeyFacts ==
    /\ Nodes \subseteq Keys /\ Hashes \subseteq Keys /\ Keys \subseteq Nat
    /\ IsFiniteSet(Nodes)
    /\ Members \in Rings
    /\ DOMAIN Powers = 1 .. Len(Powers) /\ Len(Powers) \in Nat \ {0}
<1>1. Nodes \subseteq Keys /\ Hashes \subseteq Keys /\ Keys \subseteq Nat
  BY FilesAssumption, KeySpaceAssumption DEF Nodes, Keys
<1>2. IsFiniteSet(Keys)
  BY KeySpaceAssumption, FS_Interval DEF Keys
<1>3. IsFiniteSet(Nodes)
  BY <1>1, <1>2, FS_Subset
<1>4. Members \in Rings
  BY FilesAssumption DEF Rings, Nodes
<1>5. DOMAIN Powers = 1 .. Len(Powers) /\ Len(Powers) \in Nat \ {0}
  BY FilesAssumption
<1> QED BY <1>1, <1>3, <1>4, <1>5

LEMMA Least ==
  ASSUME NEW S \in SUBSET Nat, S # {}
  PROVE  \E i \in S : \A j \in S : i <= j
<1>1. PICK x \in S : \A y \in S : <<y, x>> \notin OpToRel(<, Nat)
  BY WFMin, NatLessThanWellFounded
<1>2. \A y \in S : ~(y < x)
  BY <1>1 DEF OpToRel
<1> QED BY <1>2

LEMMA DistanceIsNat ==
  ASSUME NEW a \in Keys, NEW b \in Keys
  PROVE  Distance(a, b) \in Nat
  BY KeySpaceAssumption DEF Keys, Distance

\* Every key has an owner in a ring that is not empty, ...
LEMMA OwnerIs ==
  ASSUME NEW r \in Rings, NEW k \in Keys
  PROVE  IsOwner(r, k, Owner[r][k])
<1> DEFINE S == {Distance(k, m) : m \in r}
<1>1. r \subseteq Keys /\ r # {}
  BY KeyFacts DEF Rings
<1>2. S \in SUBSET Nat /\ S # {}
  BY <1>1, DistanceIsNat
<1>3. PICK d \in S : \A j \in S : d <= j
  BY <1>2, Least
<1>4. PICK m \in r : d = Distance(k, m)
  OBVIOUS
<1>5. IsOwner(r, k, m)
  BY <1>3, <1>4 DEF IsOwner
<1>6. Owner[r][k] = CHOOSE x \in r : IsOwner(r, k, x)
  BY DEF Owner
<1> QED BY <1>4, <1>5, <1>6

\* ... and only one.
LEMMA OwnerUnique ==
  ASSUME NEW r \in SUBSET Keys, NEW k \in Keys, NEW a, NEW b,
         IsOwner(r, k, a), IsOwner(r, k, b)
  PROVE  a = b
<1>1. a \in Keys /\ b \in Keys /\ Distance(k, a) <= Distance(k, b)
      /\ Distance(k, b) <= Distance(k, a)
  BY DEF IsOwner
<1> QED BY <1>1, KeySpaceAssumption DEF Distance, Keys

\* The second entry of an answer is the owner of the key once the first one is
\* gone.
LEMMA SecondIs ==
  ASSUME NEW r \in Rings, NEW k \in Keys, NEW a, a = Owner[r][k]
  PROVE  /\ Successor[r][a] \in r
         /\ r # {a} => IsOwner(r \ {a}, k, Successor[r][a])
<1>1. a \in r /\ IsOwner(r, k, a) /\ r \subseteq Keys
  BY OwnerIs, KeyFacts DEF IsOwner, Rings
<1>2. Successor[r][a] = IF r = {a} THEN a ELSE Owner[r \ {a}][a]
  BY <1>1 DEF Successor
<1>3. CASE r = {a}
  BY <1>2, <1>3
<1>4. CASE r # {a}
  <2>1. r \ {a} \in Rings /\ a \in Keys
    BY <1>1, <1>4 DEF Rings
  <2>2. PICK s : s = Successor[r][a]
    OBVIOUS
  <2>3. IsOwner(r \ {a}, a, s)
    BY <1>2, <1>4, <2>1, <2>2, OwnerIs
  <2>4. s \in r \ {a}
    BY <2>3 DEF IsOwner
  <2>5. ASSUME NEW x \in r \ {a} PROVE Distance(k, s) <= Distance(k, x)
    <3>1. Distance(a, s) <= Distance(a, x) /\ Distance(k, a) <= Distance(k, x)
          /\ Distance(k, a) <= Distance(k, s)
      BY <1>1, <2>3, <2>4 DEF IsOwner
    <3>2. s \in Keys /\ x \in Keys /\ a \in Keys /\ s # a /\ x # a
      BY <1>1, <2>4
    <3> QED BY <3>1, <3>2, KeySpaceAssumption DEF Distance, Keys
  <2> QED BY <2>2, <2>4, <2>5 DEF IsOwner
<1> QED BY <1>3, <1>4

-----------------------------------------------------------------------------
(***************************************************************************)
(* Who is named whatever a lookup sees: E is every node there has ever     *)
(* been, r and q are what two calls of a lookup see.                       *)
(***************************************************************************)

Pair(r, k) == {Owner[r][k], Successor[r][Owner[r][k]]}

LEMMA SmallerRing ==
  ASSUME NEW E \in SUBSET Keys, NEW k \in Keys, NEW x, IsOwner(E, k, x),
         NEW r, r \subseteq E, x \in r
  PROVE  IsOwner(r, k, x)
  BY DEF IsOwner

LEMMA FirstOrSecond ==
  ASSUME NEW E \in Rings, NEW r \in Rings, r \subseteq E, NEW k \in Keys,
         NEW x \in r, x \in Pair(E, k)
  PROVE  Owner[r][k] = x \/ Owner[r][k] = Owner[E][k]
<1>1. PICK a : a = Owner[E][k]
  OBVIOUS
<1>2. PICK h : h = Owner[r][k]
  OBVIOUS
<1>3. E \in SUBSET Keys /\ r \in SUBSET Keys /\ IsOwner(E, k, a) /\ IsOwner(r, k, h)
  BY <1>1, <1>2, OwnerIs, KeyFacts DEF Rings
<1>4. CASE a \in r
  <2>1. IsOwner(r, k, a)
    BY <1>3, <1>4, SmallerRing
  <2>2. h = a
    BY <1>3, <2>1, OwnerUnique
  <2> QED BY <1>1, <1>2, <2>2
<1>5. CASE a \notin r
  <2>1. x # a /\ x = Successor[E][a] /\ E # {a}
    BY <1>1, <1>5 DEF Pair
  <2>2. IsOwner(E \ {a}, k, x)
    BY <1>1, <2>1, SecondIs
  <2>3. E \ {a} \in SUBSET Keys /\ r \subseteq E \ {a}
    BY <1>3, <1>5
  <2>4. IsOwner(r, k, x)
    BY <2>2, <2>3, SmallerRing
  <2>5. h = x
    BY <1>3, <2>4, OwnerUnique
  <2> QED BY <1>2, <2>5
<1> QED BY <1>4, <1>5

LEMMA SecondNamed ==
  ASSUME NEW E \in Rings, NEW k \in Keys, NEW a, a = Owner[E][k],
         NEW Q \in Rings, Q \subseteq E, a \in Q,
         NEW x \in Q, x \in Pair(E, k), x # a
  PROVE  Successor[Q][a] = x
<1>1. E \in SUBSET Keys /\ IsOwner(E, k, a) /\ a \in E
  BY OwnerIs, KeyFacts DEF Rings, IsOwner
<1>3. Q \in Rings /\ Q \subseteq E /\ a \in Q /\ x \in Q /\ Q # {a} /\ Q \in SUBSET Keys
  BY <1>1
<1>4. IsOwner(Q, k, a)
  BY <1>1, <1>3, SmallerRing
<1>5. a = Owner[Q][k]
  <2>1. IsOwner(Q, k, Owner[Q][k])
    BY <1>3, OwnerIs
  <2> QED BY <1>3, <1>4, <2>1, OwnerUnique
<1>6. PICK s : s = Successor[Q][a]
  OBVIOUS
<1>7. IsOwner(Q \ {a}, k, s)
  BY <1>3, <1>5, <1>6, SecondIs
<1>8. x = Successor[E][a] /\ E # {a}
  BY <1>1, <1>3 DEF Pair
<1>9. IsOwner(E \ {a}, k, x)
  BY <1>8, SecondIs
<1>10. E \ {a} \in SUBSET Keys /\ Q \ {a} \subseteq E \ {a} /\ x \in Q \ {a}
       /\ Q \ {a} \in SUBSET Keys
  BY <1>1, <1>3
<1>11. IsOwner(Q \ {a}, k, x)
  BY <1>9, <1>10, SmallerRing
<1>12. s = x
  BY <1>7, <1>10, <1>11, OwnerUnique
<1> QED BY <1>6, <1>12

\* A node that stays on the list when the ring grows was on it before.
LEMMA PairShrinks ==
  ASSUME NEW E \in Rings, NEW r \in Rings, r \subseteq E, NEW k \in Keys,
         NEW x \in r, x \in Pair(E, k)
  PROVE  x \in Pair(r, k)
<1>1. CASE Owner[r][k] = x
  BY <1>1 DEF Pair
<1>2. CASE Owner[r][k] # x
  <2>1. PICK a : a = Owner[E][k]
    OBVIOUS
  <2>2. a = Owner[r][k] /\ x # a
    BY <1>2, <2>1, FirstOrSecond
  <2>3. a \in r
    BY <2>2, OwnerIs DEF IsOwner
  <2>4. Successor[r][a] = x
    BY <2>1, <2>2, <2>3, SecondNamed
  <2> QED BY <2>2, <2>4 DEF Pair
<1> QED BY <1>1, <1>2

LEMMA PairIn ==
  ASSUME NEW r \in Rings, NEW k \in Keys
  PROVE  Owner[r][k] \in r /\ Pair(r, k) \subseteq r
  BY OwnerIs, SecondIs DEF Pair, IsOwner

-----------------------------------------------------------------------------
(***************************************************************************)
(* The inductive invariants.                                               *)
(***************************************************************************)

PCs == {"idle", "lookup", "list", "read", "ask", "send", "wait"}

Tasks == [op : {"idle", "migrate", "store", "get"}, pc : PCs,
          dest : Seq(Nodes), correct : BOOLEAN, out : Contents]

Calls == [to : Nodes \cup {NoNode}, out : Contents]

\* How long the list is while lookup makes it.
ListOK(t) ==
    /\ Len(t.dest) <= 2 * Len(Powers)
    /\ t.pc = "lookup" => \E j \in 0 .. (Len(Powers) - 1) : Len(t.dest) = 2 * j
    /\ t.pc = "list" => \E j \in 0 .. (Len(Powers) - 1) : Len(t.dest) = 2 * j + 1

\* What a goroutine may rely on: its node is running, a copy that stabilize is
\* moving is still there, and it has read it when it sends it.
TaskOK(p, t) ==
    /\ t \in Tasks
    /\ ListOK(t)
    /\ t.pc # "idle" => p[1] \in live
    /\ t.op = "idle" => t.pc = "idle"
    /\ t.op = "migrate" => /\ t.pc # "idle" /\ p[2] = "stabilize"
                           /\ data[p[1]] # NoFile
                           /\ t.pc \in {"ask", "send", "wait"} => t.out # NoFile
    /\ t.op = "store" => t.pc \in {"lookup", "list", "send", "wait"} /\ t.out \in Versions
    /\ t.op = "get" => t.pc \in {"lookup", "list", "ask"} /\ stored
    /\ t.pc = "wait" => t.dest # <<>>

StateOK ==
    /\ live \subseteq Nodes /\ dead \subseteq Nodes
    /\ live \cap dead = {} /\ Members \subseteq live \cup dead
    /\ view \subseteq live \cup dead /\ Members \cap live \subseteq view
    /\ hash \in Hashes
    /\ data \in [Nodes -> Contents]
    /\ stores \in 0 .. MaxStores
    /\ stored \in BOOLEAN
    /\ got \in {"none", "found", "missing"}
    /\ call \in [Goroutines -> Calls]
    /\ \A p \in Goroutines : call[p].to \in live \cup {NoNode}

TypeInv ==
    /\ StateOK
    /\ task = [p \in Goroutines |-> task[p]]
    /\ \A p \in Goroutines : TaskOK(p, task[p])

\* Every node that has been in the ring.
Ever == live \cup dead

\* The anchors that the i-th key gives.
AnchorsOf(i) == Members \cap live \cap Pair(Ever, FileKey(i))

\* How a goroutine deals with such a node x: its lookup puts x on the list, a
\* store has reached it or will, a user's lookup has still to ask it, and its
\* own stabilize keeps its copy.
Keeps(i, x, p, t) ==
    /\ t.pc \in {"lookup", "list"} /\ Len(t.dest) >= 2 * i => x \in Range(t.dest)
    /\ t.pc = "list" /\ Len(t.dest) = 2 * i - 1 =>
         x \in Range(t.dest) \/ Last(t.dest) = Owner[Ever][FileKey(i)]
    /\ t.op = "store" /\ t.pc = "send" => data[x] # NoFile \/ x \in Range(t.dest)
    /\ t.op = "store" /\ t.pc = "wait" => data[x] # NoFile \/ x \in Range(Tail(t.dest))
    /\ t.op = "get" /\ t.pc = "ask" => x \in Range(t.dest)
    /\ t.op = "migrate" /\ t.pc \in {"read", "ask", "send", "wait"} /\ p[1] = x => t.correct

\* What is asked of one goroutine, and of the state.
KeepOK(p, t) == \A i \in DOMAIN Powers : \A x \in AnchorsOf(i) : Keeps(i, x, p, t)

CopiesOK ==
    /\ got = "missing" => \A i \in DOMAIN Powers : AnchorsOf(i) = {}
    /\ stored => \A i \in DOMAIN Powers : \A x \in AnchorsOf(i) : data[x] # NoFile

KeepInv == CopiesOK /\ \A p \in Goroutines : KeepOK(p, task[p])

FilesInv == TypeInv /\ KeepInv

-----------------------------------------------------------------------------
(***************************************************************************)
(* A step changes the task of one goroutine, or the membership.            *)
(***************************************************************************)

LEMMA GoroutineFacts ==
    /\ Users \subseteq Nodes
    /\ \A n \in Nodes : <<n, "stabilize">> \in Goroutines
    /\ \A n \in Users : <<n, "user">> \in Goroutines
    /\ \A p \in Goroutines : p[1] \in Nodes /\ p = <<p[1], p[2]>>
  BY FilesAssumption DEF Goroutines, Nodes

LEMMA ContentFacts ==
    /\ NoFile \in Contents /\ Empty \in Contents /\ Versions \subseteq Contents
    /\ NoFile \notin Versions /\ Empty \notin Versions /\ NoFile # Empty
    /\ NoNode \notin Nodes
<1>1. Nodes \subseteq Nat
  BY KeyFacts
<1> QED BY <1>1 DEF NoFile, Empty, Versions, Contents, NoNode

LEMMA KeyIs ==
  ASSUME StateOK, NEW i \in DOMAIN Powers
  PROVE  FileKey(i) \in Keys
<1>1. hash \in Nat /\ Powers[i] \in Nat /\ hash + Powers[i] \in Nat
  BY KeyFacts, FilesAssumption DEF StateOK
<1> QED BY <1>1, KeySpaceAssumption DEF FileKey, Keys

LEMMA EverIs ==
  ASSUME StateOK
  PROVE  /\ Ever \in Rings /\ Members \subseteq Ever
         /\ \A i \in DOMAIN Powers : AnchorsOf(i) \subseteq Nodes /\ AnchorsOf(i) \subseteq live
<1>1. Ever \subseteq Nodes /\ Members \subseteq Ever
  BY DEF StateOK, Ever
<1>2. Ever # {}
  BY <1>1, FilesAssumption
<1> QED BY <1>1, <1>2 DEF Rings, AnchorsOf, StateOK

\* A lookup sees every member from the beginning that runs.
LEMMA ViewsAre ==
  ASSUME StateOK, NEW r \in Views
  PROVE  r \in Rings /\ r \subseteq Ever /\ Members \cap live \subseteq r
<1>1. PICK c \in SUBSET ((view \cup live) \ (view \cap live)) : r = (view \cap live) \cup c
  BY DEF Views
<1>2. r # {}
  BY DEF Views
<1>3. r \subseteq Ever /\ Members \cap live \subseteq r
  BY <1>1 DEF StateOK, Ever
<1>4. Ever \subseteq Nodes
  BY DEF StateOK, Ever
<1> QED BY <1>2, <1>3, <1>4 DEF Rings

\* The anchors of a state in terms of the ring alone.
RingSame == UNCHANGED <<live, dead, hash>>

LEMMA RingSameKeeps ==
  ASSUME RingSame
  PROVE  /\ Ever' = Ever
         /\ \A i : FileKey(i)' = FileKey(i) /\ AnchorsOf(i)' = AnchorsOf(i)
  BY DEF RingSame, Ever, FileKey, AnchorsOf, Pair

\* Only stabilize on n itself takes away the copy of n, and never the copy of
\* an anchor.
CopiesKept(p) ==
    \A n \in Nodes : data[n] # NoFile =>
        \/ data'[n] # NoFile
        \/ p = <<n, "stabilize">> /\ \A i \in DOMAIN Powers : n \notin AnchorsOf(i)

LEMMA TaskStep ==
  ASSUME FilesInv, StateOK', RingSame, stored => stored',
         NEW p \in Goroutines, NEW t, task' = [task EXCEPT ![p] = t],
         CopiesKept(p), TaskOK(p, t)', KeepOK(p, t)', CopiesOK'
  PROVE  FilesInv'
<1>1. task' = [q \in Goroutines |-> IF q = p THEN t ELSE task[q]]
  BY DEF FilesInv, TypeInv
<1>2. ASSUME NEW q \in Goroutines, q # p
      PROVE  TaskOK(q, task[q])' /\ KeepOK(q, task[q])' /\ task'[q] = task[q]
  <2>1. PICK u : u = task[q] /\ u = task'[q]
    BY <1>1, <1>2
  <2>2. TaskOK(q, u) /\ KeepOK(q, u)
    BY <2>1 DEF FilesInv, TypeInv, KeepInv
  <2>3. u.op = "migrate" => data[q[1]] # NoFile /\ q = <<q[1], "stabilize">>
    BY <2>2, GoroutineFacts DEF TaskOK
  <2>4. u.op = "migrate" => data'[q[1]] # NoFile
    BY <1>2, <2>3, GoroutineFacts DEF CopiesKept
  <2>5. TaskOK(q, u)'
    BY <2>2, <2>4 DEF TaskOK, RingSame
  <2>6. ASSUME NEW i \in DOMAIN Powers, NEW x \in AnchorsOf(i)
        PROVE  data[x] # NoFile => data'[x] # NoFile
    <3>1. x \in Nodes
      BY EverIs DEF FilesInv, TypeInv
    <3> QED BY <2>6, <3>1 DEF CopiesKept
  <2>7. KeepOK(q, u)'
    <3> SUFFICES ASSUME NEW i \in DOMAIN Powers, NEW x \in AnchorsOf(i)'
                 PROVE  Keeps(i, x, q, u)'
      BY DEF KeepOK
    <3>1. x \in AnchorsOf(i)
      BY RingSameKeeps
    <3>2. Keeps(i, x, q, u)
      BY <2>2, <3>1 DEF KeepOK
    <3> QED BY <2>6, <3>1, <3>2, RingSameKeeps DEF Keeps
  <2> QED BY <2>1, <2>5, <2>7
<1>3. \A q \in Goroutines : TaskOK(q, task[q])' /\ KeepOK(q, task[q])'
  <2>1. task'[p] = t
    BY <1>1
  <2> QED BY <1>2, <2>1
<1> QED BY <1>1, <1>3 DEF FilesInv, TypeInv, KeepInv

\* What is left of a list after its first entry.
LEMMA TailIs ==
  ASSUME NEW s \in Seq(Nodes), s # <<>>
  PROVE  /\ Tail(s) \in Seq(Nodes) /\ Len(Tail(s)) <= Len(s) /\ Head(s) \in Nodes
         /\ \A x \in Range(s) : x = Head(s) \/ x \in Range(Tail(s))
<1>1. Tail(s) \in Seq(Nodes) /\ Len(Tail(s)) = Len(s) - 1 /\ Head(s) \in Nodes
      /\ Head(s) = s[1] /\ Len(s) \in Nat
  OBVIOUS
<1>2. ASSUME NEW x \in Range(s), x # Head(s) PROVE x \in Range(Tail(s))
  <2>1. PICK i \in 1 .. Len(s) : x = s[i]
    BY DEF Range
  <2>2. i # 1 /\ i - 1 \in 1 .. Len(Tail(s))
    BY <1>1, <1>2, <2>1
  <2>3. Tail(s)[i - 1] = s[i]
    BY <2>2
  <2>4. DOMAIN Tail(s) = 1 .. Len(Tail(s))
    BY <1>1
  <2> QED BY <2>1, <2>2, <2>3, <2>4 DEF Range
<1> QED BY <1>1, <1>2

LEMMA LastIs ==
  ASSUME NEW s \in Seq(Nodes), Len(s) \in Nat \ {0}
  PROVE  Last(s) \in Range(s) /\ Last(s) \in Nodes
<1>1. Len(s) \in 1 .. Len(s) /\ DOMAIN s = 1 .. Len(s) /\ s[Len(s)] \in Nodes
  OBVIOUS
<1>2. Last(s) = s[Len(s)]
  BY DEF Last
<1>3. Last(s) \in {s[e] : e \in DOMAIN s}
  BY <1>1, <1>2
<1> QED BY <1>1, <1>2, <1>3 DEF Range

\* A list that grows by one entry.
LEMMA AppendIs ==
  ASSUME NEW s \in Seq(Nodes), NEW y \in Nodes, NEW d, d = Append(s, y)
  PROVE  /\ d \in Seq(Nodes) /\ Len(d) = Len(s) + 1 /\ Len(s) \in Nat
         /\ Last(d) = y /\ y \in Range(d) /\ Range(s) \subseteq Range(d)
         /\ s # <<>> => Head(d) = Head(s)
<1>1. d \in Seq(Nodes) /\ Len(d) = Len(s) + 1 /\ Len(s) \in Nat
      /\ d[Len(s) + 1] = y /\ \A e \in 1 .. Len(s) : d[e] = s[e]
  OBVIOUS
<1>2. DOMAIN d = 1 .. (Len(s) + 1) /\ DOMAIN s = 1 .. Len(s)
  BY <1>1
<1>3. Last(d) = y
  BY <1>1 DEF Last
<1>4. y \in Range(d)
  BY <1>1, <1>2 DEF Range
<1>5. Range(s) \subseteq Range(d)
  BY <1>1, <1>2 DEF Range
<1>6. s # <<>> => Head(d) = Head(s)
  BY <1>1
<1> QED BY <1>1, <1>3, <1>4, <1>5, <1>6

\* A loop that goes on to its next entry.
LEMMA NextIs ==
  ASSUME NEW u \in Tasks, u.dest # <<>>, ListOK(u), NEW v, v = NextEntry(u)
  PROVE  /\ v \in Tasks /\ v.op = u.op /\ v.correct = u.correct /\ v.out = u.out
         /\ v.dest = Tail(u.dest) /\ ListOK(v)
         /\ v.pc = IF u.op = "migrate" THEN "ask" ELSE "send"
<1>1. u.dest \in Seq(Nodes) /\ Tail(u.dest) \in Seq(Nodes) /\ Len(Tail(u.dest)) <= Len(u.dest)
      /\ Len(Tail(u.dest)) \in Nat /\ Len(u.dest) \in Nat
  BY TailIs DEF Tasks
<1>2. /\ v \in Tasks /\ v.op = u.op /\ v.correct = u.correct /\ v.out = u.out
      /\ v.dest = Tail(u.dest)
      /\ v.pc = IF u.op = "migrate" THEN "ask" ELSE "send"
  BY <1>1 DEF NextEntry, Tasks, PCs
<1>3. Len(u.dest) <= 2 * Len(Powers) /\ Len(Powers) \in Nat
  BY KeyFacts DEF ListOK
<1>4. Len(v.dest) <= 2 * Len(Powers)
  BY <1>1, <1>2, <1>3
<1>5. v.pc \notin {"lookup", "list"}
  BY <1>2
<1> QED BY <1>2, <1>4, <1>5 DEF ListOK

\* A caller whose call ends goes on.
LEMMA ReturnKeeps ==
  ASSUME NEW q, NEW u, TaskOK(q, u), u.pc = "wait", NEW v, v = NextEntry(u)
  PROVE  /\ TaskOK(q, v)
         /\ \A i, x : Keeps(i, x, q, u) => Keeps(i, x, q, v)
<1>1. u \in Tasks /\ u.dest # <<>> /\ ListOK(u) /\ u.op \in {"migrate", "store"}
  BY DEF TaskOK, Tasks
<1>2. /\ v \in Tasks /\ v.op = u.op /\ v.correct = u.correct /\ v.out = u.out
      /\ v.dest = Tail(u.dest) /\ ListOK(v)
      /\ v.pc = IF u.op = "migrate" THEN "ask" ELSE "send"
  BY <1>1, NextIs
<1>3. TaskOK(q, v)
  BY <1>1, <1>2 DEF TaskOK
<1>4. ASSUME NEW i, NEW x, Keeps(i, x, q, u) PROVE Keeps(i, x, q, v)
  BY <1>1, <1>2, <1>4 DEF Keeps
<1> QED BY <1>3, <1>4

LEMMA IdleIs ==
  ASSUME NEW q, NEW t, t = Idle
  PROVE  /\ TaskOK(q, t) /\ \A i, x : Keeps(i, x, q, t)
         /\ TaskOK(q, t)' /\ \A i, x : Keeps(i, x, q, t)'
<1>1. t \in Tasks /\ t.op = "idle" /\ t.pc = "idle" /\ t.dest = <<>>
  BY ContentFacts DEF Idle, Tasks, PCs
<1>2. ListOK(t)
  BY <1>1, KeyFacts DEF ListOK
<1> QED BY <1>1, <1>2 DEF TaskOK, Keeps

-----------------------------------------------------------------------------
(***************************************************************************)
(* The steps of the ring.                                                  *)
(***************************************************************************)

LEMMA FilesInit == Init => FilesInv
<1> SUFFICES ASSUME Init PROVE FilesInv
  OBVIOUS
<1>1. StateOK
  <2>1. Members \subseteq Nodes /\ 0 \in 0 .. MaxStores
    BY FilesAssumption DEF Nodes
  <2>2. data \in [Nodes -> Contents] /\ call \in [Goroutines -> Calls]
        /\ \A p \in Goroutines : call[p].to = NoNode
    BY ContentFacts DEF Init, NoCall, Calls
  <2> QED BY <2>1, <2>2 DEF Init, StateOK
<1>2. \A p \in Goroutines : task[p] = Idle
  BY DEF Init
<1>3. ASSUME NEW p \in Goroutines PROVE TaskOK(p, task[p]) /\ KeepOK(p, task[p])
  BY <1>2, IdleIs DEF KeepOK
<1>4. CopiesOK
  BY DEF Init, CopiesOK
<1> QED BY <1>1, <1>3, <1>4 DEF Init, FilesInv, TypeInv, KeepInv

\* A node that dies takes its goroutines with it; those who wait for one of its
\* handlers go on.
LEMMA DiesKeeps ==
  ASSUME FilesInv, NEW n \in live, Dies(n),
         UNCHANGED <<view, hash, data, stores, stored, got>>
  PROVE  FilesInv'
<1>1. StateOK /\ n \in Nodes
  BY DEF FilesInv, TypeInv, StateOK
<1>2. live' = live \ {n} /\ dead' = dead \cup {n}
      /\ call' = [p \in Goroutines |-> IF call[p].to = n THEN NoCall ELSE call[p]]
  BY DEF Dies
<1>3. \A p \in Goroutines : call'[p] \in Calls /\ call'[p].to \in live' \cup {NoNode}
  <2> SUFFICES ASSUME NEW p \in Goroutines
               PROVE  call'[p] \in Calls /\ call'[p].to \in live' \cup {NoNode}
    OBVIOUS
  <2>1. call[p] \in Calls /\ call[p].to \in live \cup {NoNode}
    BY <1>1 DEF StateOK
  <2>2. CASE call[p].to = n
    BY <1>2, <2>2, ContentFacts DEF NoCall, Calls
  <2>3. CASE call[p].to # n
    BY <1>2, <2>1, <2>3
  <2> QED BY <2>2, <2>3
<1>4. StateOK'
  <2>1. call' \in [Goroutines -> Calls]
    BY <1>2, <1>3
  <2> QED BY <1>1, <1>2, <1>3, <2>1 DEF StateOK
<1>5. Ever' = Ever
  BY <1>1, <1>2 DEF Ever
<1>6. \A i : FileKey(i)' = FileKey(i) /\ AnchorsOf(i)' \subseteq AnchorsOf(i)
  BY <1>2, <1>5 DEF FileKey, AnchorsOf, Pair
<1>7. ASSUME NEW q \in Goroutines
      PROVE  \/ task'[q] = Idle
             \/ /\ q[1] # n
                /\ \/ task'[q] = task[q]
                   \/ task[q].pc = "wait" /\ task'[q] = NextEntry(task[q])
  BY DEF Dies
<1>8. ASSUME NEW q \in Goroutines, NEW u, TaskOK(q, u), KeepOK(q, u), q[1] # n
      PROVE  TaskOK(q, u)' /\ KeepOK(q, u)'
  <2>1. TaskOK(q, u)'
    BY <1>2, <1>8 DEF TaskOK
  <2>2. ASSUME NEW i \in DOMAIN Powers, NEW x \in AnchorsOf(i)' PROVE Keeps(i, x, q, u)'
    <3>1. Keeps(i, x, q, u)
      BY <1>6, <1>8 DEF KeepOK
    <3> QED BY <1>5, <1>6, <3>1 DEF Keeps
  <2> QED BY <2>1, <2>2 DEF KeepOK
<1>9. ASSUME NEW q \in Goroutines PROVE TaskOK(q, task[q])' /\ KeepOK(q, task[q])'
  <2>1. PICK u : u = task'[q]
    OBVIOUS
  <2>2. TaskOK(q, task[q]) /\ KeepOK(q, task[q])
    BY DEF FilesInv, TypeInv, KeepInv
  <2>3. CASE u = Idle
    BY <2>1, <2>3, IdleIs DEF KeepOK
  <2>4. CASE q[1] # n /\ u = task[q]
    BY <1>8, <2>1, <2>2, <2>4
  <2>5. CASE q[1] # n /\ task[q].pc = "wait" /\ u = NextEntry(task[q])
    <3>1. TaskOK(q, u) /\ KeepOK(q, u)
      BY <2>2, <2>5, ReturnKeeps DEF KeepOK
    <3> QED BY <1>8, <2>1, <2>5, <3>1
  <2> QED BY <1>7, <2>1, <2>3, <2>4, <2>5
<1>10. CopiesOK'
  BY <1>6 DEF FilesInv, KeepInv, CopiesOK
<1>11. task' = [q \in Goroutines |-> task'[q]]
  BY DEF Dies
<1> QED BY <1>4, <1>9, <1>10, <1>11 DEF FilesInv, TypeInv, KeepInv

\* A node that stays an anchor when another one joins was one before, and the
\* owner that a lookup has just found is still the first node for the key, or
\* the anchor itself.
LEMMA JoinKeeps ==
  ASSUME FilesInv, NEW n \in Nodes, Join(n)
  PROVE  FilesInv'
<1>1. StateOK
  BY DEF FilesInv, TypeInv
<1>2. live' = live \cup {n} /\ n \notin live \cup dead
      /\ UNCHANGED <<dead, view, hash, data, stores, stored, got, task, call>>
  BY DEF Join, Absent
<1>3. StateOK'
  BY <1>1, <1>2 DEF StateOK
<1>4. Ever' = Ever \cup {n}
  BY <1>2 DEF Ever
<1>5. PICK E : E = Ever'
  OBVIOUS
<1>6. PICK r : r = Ever
  OBVIOUS
<1>7. E \in Rings /\ r \in Rings /\ r \subseteq E /\ Members \subseteq r
  <2>1. r \in Rings /\ Members \subseteq r
    BY <1>1, <1>6, EverIs
  <2>2. E = r \cup {n}
    BY <1>4, <1>5, <1>6
  <2> QED BY <2>1, <2>2 DEF Rings
<1>8. ASSUME NEW i \in DOMAIN Powers, NEW x \in AnchorsOf(i)'
      PROVE  /\ x \in AnchorsOf(i) /\ FileKey(i)' = FileKey(i)
             /\ Owner[Ever][FileKey(i)] \in {x, Owner[Ever'][FileKey(i)']}
  <2>1. PICK k \in Keys : k = FileKey(i) /\ k = FileKey(i)'
    BY <1>1, <1>2, KeyIs DEF FileKey
  <2>2. x \in Pair(E, k) /\ x \in Members /\ x \in live'
    BY <1>5, <2>1 DEF AnchorsOf
  <2>3. x \in r
    BY <1>7, <2>2
  <2>4. x \in Pair(r, k)
    BY <1>7, <2>2, <2>3, PairShrinks
  <2>5. x \in live
    <3>1. x \in Ever /\ x # n
      BY <1>2, <1>6, <2>3 DEF Ever
    <3> QED BY <1>2, <2>2, <3>1
  <2>6. x \in AnchorsOf(i)
    BY <1>6, <2>1, <2>2, <2>4, <2>5 DEF AnchorsOf
  <2>7. Owner[r][k] = x \/ Owner[r][k] = Owner[E][k]
    BY <1>7, <2>2, <2>3, FirstOrSecond
  <2> QED BY <1>5, <1>6, <2>1, <2>6, <2>7
<1>9. ASSUME NEW q \in Goroutines PROVE TaskOK(q, task[q])' /\ KeepOK(q, task[q])'
  <2>1. PICK u : u = task'[q] /\ u = task[q]
    BY <1>2
  <2>2. TaskOK(q, u) /\ KeepOK(q, u)
    BY <2>1 DEF FilesInv, TypeInv, KeepInv
  <2>3. TaskOK(q, u)'
    BY <1>2, <2>2 DEF TaskOK
  <2>4. ASSUME NEW i \in DOMAIN Powers, NEW x \in AnchorsOf(i)' PROVE Keeps(i, x, q, u)'
    <3>1. Keeps(i, x, q, u)
      BY <1>8, <2>2 DEF KeepOK
    <3>2. u.pc = "list" /\ Len(u.dest) = 2 * i - 1 =>
            x \in Range(u.dest) \/ Last(u.dest) = Owner[Ever'][FileKey(i)']
      <4> SUFFICES ASSUME u.pc = "list", Len(u.dest) = 2 * i - 1, x \notin Range(u.dest)
                   PROVE  Last(u.dest) = Owner[Ever'][FileKey(i)']
        OBVIOUS
      <4>1. Last(u.dest) = Owner[Ever][FileKey(i)]
        BY <3>1 DEF Keeps
      <4>2. u.dest \in Seq(Nodes) /\ Len(u.dest) \in Nat \ {0}
        <5>1. u.dest \in Seq(Nodes) /\ i \in Nat \ {0}
          BY <2>2, KeyFacts DEF TaskOK, Tasks
        <5> QED BY <5>1
      <4>3. Last(u.dest) \in Range(u.dest)
        BY <4>2, LastIs
      <4> QED BY <1>8, <4>1, <4>3
    <3> QED BY <1>2, <3>1, <3>2 DEF Keeps
  <2> QED BY <2>1, <2>3, <2>4 DEF KeepOK
<1>10. CopiesOK'
  BY <1>2, <1>8 DEF FilesInv, KeepInv, CopiesOK
<1> QED BY <1>2, <1>3, <1>9, <1>10 DEF FilesInv, TypeInv, KeepInv

LEMMA SettleKeeps ==
  ASSUME FilesInv, Settle
  PROVE  FilesInv'
<1>1. RingSame /\ UNCHANGED <<data, stores, stored, got, task, call>> /\ view' = live
  BY DEF Settle, RingSame
<1>2. StateOK'
  BY <1>1 DEF FilesInv, TypeInv, StateOK, RingSame
<1>3. TypeInv'
  BY <1>1, <1>2 DEF FilesInv, TypeInv, TaskOK, RingSame
<1>4. KeepInv'
  BY <1>1, RingSameKeeps DEF FilesInv, KeepInv, CopiesOK, KeepOK, Keeps
<1> QED BY <1>3, <1>4 DEF FilesInv

LEMMA StutterKeeps ==
  ASSUME FilesInv, UNCHANGED vars
  PROVE  FilesInv'
<1>1. RingSame /\ UNCHANGED <<view, data, stores, stored, got, task, call>>
  BY DEF vars, RingSame
<1>2. TypeInv'
  BY <1>1 DEF FilesInv, TypeInv, TaskOK, StateOK, RingSame
<1>3. KeepInv'
  BY <1>1, RingSameKeeps DEF FilesInv, KeepInv, CopiesOK, KeepOK, Keeps
<1> QED BY <1>2, <1>3 DEF FilesInv

-----------------------------------------------------------------------------
(***************************************************************************)
(* The steps of the goroutines.                                            *)
(***************************************************************************)

\* What is known of the goroutine that makes a step.
LEMMA TaskFacts ==
  ASSUME FilesInv, NEW p \in Goroutines
  PROVE  /\ TaskOK(p, task[p]) /\ KeepOK(p, task[p]) /\ StateOK /\ CopiesOK
         /\ p[1] \in Nodes
  BY GoroutineFacts DEF FilesInv, TypeInv, KeepInv

\* Nothing happens to the copies.
LEMMA CopiesSame ==
  ASSUME FilesInv, RingSame, UNCHANGED <<data, stored, got>>
  PROVE  CopiesOK' /\ \A p : CopiesKept(p)
<1>1. CopiesOK'
  BY RingSameKeeps DEF FilesInv, KeepInv, CopiesOK
<1> QED BY <1>1 DEF CopiesKept

\* A goroutine that is idle again relies on nothing.
LEMMA IdleKeeps ==
  ASSUME FilesInv, StateOK', RingSame, stored => stored',
         NEW p \in Goroutines, task' = [task EXCEPT ![p] = Idle],
         CopiesKept(p), CopiesOK'
  PROVE  FilesInv'
<1>1. PICK t : t = Idle
  OBVIOUS
<1>2. TaskOK(p, t)' /\ KeepOK(p, t)'
  BY <1>1, IdleIs DEF KeepOK
<1> QED BY <1>1, <1>2, TaskStep

\* A command or a pass of stabilize begins.
LEMMA BeginKeeps ==
  ASSUME FilesInv, StateOK', RingSame, UNCHANGED <<data, stored, got>>,
         NEW p \in Goroutines, NEW op \in {"migrate", "store", "get"},
         NEW out \in Contents, Begin(p, op, out), p[1] \in live,
         op = "migrate" => p[2] = "stabilize" /\ data[p[1]] # NoFile,
         op = "store" => out \in Versions,
         op = "get" => stored
  PROVE  FilesInv'
<1>1. PICK t : t = [op |-> op, pc |-> "lookup", dest |-> <<>>, correct |-> FALSE, out |-> out]
  OBVIOUS
<1>2. task' = [task EXCEPT ![p] = t]
  BY <1>1 DEF Begin
<1>3. t.op = op /\ t.pc = "lookup" /\ t.dest = <<>> /\ t.out = out /\ t \in Tasks
  BY <1>1 DEF Tasks, PCs
<1>4. ListOK(t)
  <2>1. Len(t.dest) = 2 * 0 /\ 0 \in 0 .. (Len(Powers) - 1)
    BY <1>3, KeyFacts
  <2> QED BY <1>3, <2>1, KeyFacts DEF ListOK
<1>5. TaskOK(p, t)'
  BY <1>3, <1>4 DEF TaskOK, RingSame
<1>6. KeepOK(p, t)'
  <2>1. ASSUME NEW i \in DOMAIN Powers, NEW x PROVE Keeps(i, x, p, t)'
    <3>1. i \in Nat \ {0}
      BY KeyFacts
    <3>2. ~(Len(t.dest) >= 2 * i)
      BY <1>3, <3>1
    <3> QED BY <1>3, <3>2 DEF Keeps
  <2> QED BY <2>1 DEF KeepOK
<1> QED BY <1>2, <1>5, <1>6, CopiesSame, TaskStep

LEMMA MigrateKeeps ==
  ASSUME FilesInv, NEW n \in Nodes, Migrate(n)
  PROVE  FilesInv'
<1>1. PICK p : p = <<n, "stabilize">> /\ p \in Goroutines
  BY GoroutineFacts
<1>2. Begin(p, "migrate", NoFile) /\ p[1] \in live /\ p[2] = "stabilize" /\ data[p[1]] # NoFile
  BY <1>1 DEF Migrate
<1>3. RingSame /\ UNCHANGED <<data, stored, got>>
  BY DEF Migrate, RingSame
<1>4. StateOK'
  BY DEF FilesInv, TypeInv, StateOK, Migrate
<1> QED BY <1>1, <1>2, <1>3, <1>4, BeginKeeps, ContentFacts

LEMMA StoreFileKeeps ==
  ASSUME FilesInv, NEW n \in Users, StoreFile(n)
  PROVE  FilesInv'
<1>1. PICK p : p = <<n, "user">> /\ p \in Goroutines
  BY GoroutineFacts
<1>2. PICK v : v = stores + 1
  OBVIOUS
<1>3. v \in Versions /\ v \in 0 .. MaxStores /\ stores' = v
  BY <1>2, FilesAssumption DEF FilesInv, TypeInv, StateOK, StoreFile, Versions
<1>4. Begin(p, "store", v) /\ p[1] \in live
  BY <1>1, <1>2 DEF StoreFile
<1>5. RingSame /\ UNCHANGED <<view, data, stored, got, call>>
  BY DEF StoreFile, RingSame
<1>6. StateOK'
  BY <1>3, <1>5 DEF FilesInv, TypeInv, StateOK, RingSame
<1> QED BY <1>1, <1>3, <1>4, <1>5, <1>6, BeginKeeps, ContentFacts

LEMMA LookupFileKeeps ==
  ASSUME FilesInv, NEW n \in Users, LookupFile(n)
  PROVE  FilesInv'
<1>1. PICK p : p = <<n, "user">> /\ p \in Goroutines
  BY GoroutineFacts
<1>2. Begin(p, "get", NoFile) /\ p[1] \in live /\ stored
  BY <1>1 DEF LookupFile
<1>3. RingSame /\ UNCHANGED <<data, stored, got>>
  BY DEF LookupFile, RingSame
<1>4. StateOK'
  BY DEF FilesInv, TypeInv, StateOK, LookupFile
<1> QED BY <1>1, <1>2, <1>3, <1>4, BeginKeeps, ContentFacts

\* findSuccessor names an anchor of the key, or the first of all nodes that
\* have ever been there.
LEMMA FindSuccessorKeeps ==
  ASSUME FilesInv, NEW p \in Goroutines, FindSuccessor(p)
  PROVE  FilesInv'
<1>1. TaskOK(p, task[p]) /\ KeepOK(p, task[p]) /\ StateOK
  BY TaskFacts
<1>2. PICK u : u = task[p]
  OBVIOUS
<1>3. u \in Tasks /\ u.pc = "lookup" /\ TaskOK(p, u) /\ KeepOK(p, u) /\ u.dest \in Seq(Nodes)
      /\ u.op \in {"migrate", "store", "get"}
  BY <1>1, <1>2 DEF TaskOK, FindSuccessor, Tasks
<1>4. PICK j \in 0 .. (Len(Powers) - 1) : Len(u.dest) = 2 * j
  BY <1>3 DEF TaskOK, ListOK
<1>5. j \in Nat /\ j + 1 \in DOMAIN Powers /\ Len(u.dest) = 2 * j
  BY <1>4, KeyFacts
<1>6. Pass(p) = j + 1
  BY <1>2, <1>5 DEF Pass
<1>7. PICK k \in Keys : k = FileKey(j + 1)
  BY <1>1, <1>5, KeyIs
<1>8. PICK r \in Views : task' = [task EXCEPT ![p].dest = Append(@, Owner[r][FileKey(Pass(p))]),
                                               ![p].pc = "list"]
  BY DEF FindSuccessor
<1>9. r \in Rings /\ r \subseteq Ever /\ Members \cap live \subseteq r
  BY <1>1, ViewsAre
<1>10. PICK h : h = Owner[r][k]
  OBVIOUS
<1>11. h \in Nodes
  BY <1>9, <1>10, PairIn DEF Rings
<1>12. PICK d : d = Append(u.dest, h)
  OBVIOUS
<1>13. d \in Seq(Nodes) /\ Len(d) = 2 * j + 1 /\ Last(d) = h /\ h \in Range(d)
       /\ Range(u.dest) \subseteq Range(d)
  <2>1. PICK s \in Seq(Nodes) : s = u.dest
    BY <1>3
  <2>2. d = Append(s, h)
    BY <1>12, <2>1
  <2>3. d \in Seq(Nodes) /\ Len(d) = Len(s) + 1 /\ Last(d) = h /\ h \in Range(d)
        /\ Range(s) \subseteq Range(d)
    BY <1>11, <2>2, AppendIs
  <2> QED BY <1>5, <2>1, <2>3
<1>14. PICK t : t = [u EXCEPT !.dest = d, !.pc = "list"]
  OBVIOUS
<1>15. task' = [task EXCEPT ![p] = t]
  BY <1>2, <1>6, <1>7, <1>8, <1>10, <1>12, <1>14
<1>16. t \in Tasks /\ t.op = u.op /\ t.pc = "list" /\ t.dest = d /\ t.out = u.out
  BY <1>3, <1>13, <1>14 DEF Tasks, PCs
<1>17. RingSame /\ UNCHANGED <<view, data, stores, stored, got, call>>
  BY DEF FindSuccessor, RingSame
<1>18. TaskOK(p, t)'
  <2>1. ListOK(t)
    BY <1>4, <1>5, <1>13, <1>16, KeyFacts DEF ListOK
  <2> QED BY <1>3, <1>16, <1>17, <2>1 DEF TaskOK, RingSame
<1>19. ASSUME NEW i \in DOMAIN Powers, NEW x \in AnchorsOf(i)' PROVE Keeps(i, x, p, t)'
  <2>1. x \in AnchorsOf(i) /\ i \in Nat
    BY <1>17, KeyFacts, RingSameKeeps
  <2>2. Keeps(i, x, p, u)
    BY <1>3, <2>1 DEF KeepOK
  <2>3. Len(d) >= 2 * i => x \in Range(d)
    <3> SUFFICES ASSUME Len(d) >= 2 * i PROVE x \in Range(d)
      OBVIOUS
    <3>1. Len(u.dest) >= 2 * i
      BY <1>5, <1>13, <2>1
    <3>2. x \in Range(u.dest)
      BY <1>3, <2>2, <3>1 DEF Keeps
    <3> QED BY <1>13, <3>2
  <2>4. Len(d) = 2 * i - 1 => x \in Range(d) \/ Last(d) = Owner[Ever][FileKey(i)]
    <3> SUFFICES ASSUME Len(d) = 2 * i - 1
                 PROVE  x \in Range(d) \/ Last(d) = Owner[Ever][FileKey(i)]
      OBVIOUS
    <3>1. i = j + 1
      BY <1>5, <1>13, <2>1
    <3>2. x \in Pair(Ever, k) /\ x \in r
      BY <1>7, <1>9, <2>1, <3>1 DEF AnchorsOf
    <3>3. PICK E : E = Ever
      OBVIOUS
    <3>4. E \in Rings /\ r \subseteq E /\ x \in Pair(E, k)
      BY <1>1, <1>9, <3>2, <3>3, EverIs
    <3>5. Owner[r][k] = x \/ Owner[r][k] = Owner[E][k]
      BY <1>9, <3>2, <3>4, FirstOrSecond
    <3> QED BY <1>7, <1>10, <1>13, <3>1, <3>3, <3>5
  <2> QED BY <1>3, <1>16, <1>17, <2>3, <2>4, RingSameKeeps DEF Keeps
<1>20. KeepOK(p, t)'
  BY <1>19 DEF KeepOK
<1>21. StateOK'
  BY <1>1, <1>17 DEF StateOK, RingSame
<1> QED BY <1>15, <1>17, <1>18, <1>20, <1>21, CopiesSame, TaskStep

LEMMA SuccessorIn ==
  ASSUME NEW R \in Rings, NEW m \in R
  PROVE  Successor[R][m] \in R
<1>1. Successor[R][m] = IF R = {m} THEN m ELSE Owner[R \ {m}][m]
  BY DEF Successor
<1>2. CASE R # {m}
  <2>1. R \ {m} \in Rings /\ m \in Keys
    BY <1>2, KeyFacts DEF Rings
  <2>2. Owner[R \ {m}][m] \in R \ {m}
    BY <2>1, PairIn
  <2> QED BY <1>1, <1>2, <2>2
<1> QED BY <1>1, <1>2

\* When the owner has given its successor, the anchors of the key are on the
\* list; a complete list has the anchors of all keys.
LEMMA GrownKeeps ==
  ASSUME FilesInv, NEW p \in Goroutines, task[p].pc = "list", NEW r \in Views,
         NEW o, o = Last(task[p].dest), o \in live,
         task' = [task EXCEPT ![p] = Grown(p, Successor[r \cup {o}][o])],
         RingSame, UNCHANGED <<view, data, stores, stored, got, call>>
  PROVE  FilesInv'
<1>1. TaskOK(p, task[p]) /\ KeepOK(p, task[p]) /\ StateOK
  BY TaskFacts
<1>2. PICK u : u = task[p]
  OBVIOUS
<1>3. u \in Tasks /\ u.pc = "list" /\ TaskOK(p, u) /\ KeepOK(p, u)
      /\ u.op \in {"migrate", "store", "get"} /\ o = Last(u.dest)
  BY <1>1, <1>2 DEF TaskOK, Tasks
<1>4. PICK j \in 0 .. (Len(Powers) - 1) : Len(u.dest) = 2 * j + 1
  BY <1>3 DEF TaskOK, ListOK
<1>5. PICK N : N = Len(Powers)
  OBVIOUS
<1>6. j \in Nat /\ j <= N - 1 /\ N \in Nat \ {0} /\ DOMAIN Powers = 1 .. N
  BY <1>4, <1>5, KeyFacts
<1>7. PICK E : E = Ever
  OBVIOUS
<1>8. E \in Rings /\ r \in Rings /\ r \subseteq E /\ Members \cap live \subseteq r
  BY <1>1, <1>7, ViewsAre, EverIs
<1>9. PICK R : R = r \cup {o}
  OBVIOUS
<1>10. R \in Rings /\ R \subseteq E /\ o \in R /\ r \subseteq R
  <2>1. o \in E
    BY <1>7 DEF Ever
  <2> QED BY <1>8, <1>9, <2>1 DEF Rings
<1>11. PICK s : s = Successor[R][o]
  OBVIOUS
<1>12. s \in Nodes
  BY <1>10, <1>11, SuccessorIn DEF Rings
<1>13. PICK d : d = Append(u.dest, s)
  OBVIOUS
<1>14. d \in Seq(Nodes) /\ Len(d) = 2 * j + 2 /\ s \in Range(d)
       /\ Range(u.dest) \subseteq Range(d) /\ o \in Range(u.dest)
  <2>1. PICK c \in Seq(Nodes) : c = u.dest
    BY <1>3 DEF Tasks
  <2>2. d = Append(c, s)
    BY <1>13, <2>1
  <2>3. d \in Seq(Nodes) /\ Len(d) = Len(c) + 1 /\ s \in Range(d) /\ Range(c) \subseteq Range(d)
    BY <1>12, <2>2, AppendIs
  <2>4. Len(c) \in Nat \ {0}
    BY <1>4, <1>6, <2>1
  <2>5. Last(c) \in Range(c)
    BY <2>4, LastIs
  <2>6. Len(d) = 2 * j + 2
    BY <1>4, <1>6, <2>1, <2>3
  <2> QED BY <1>3, <2>1, <2>3, <2>5, <2>6
<1>15. ASSUME NEW i \in DOMAIN Powers, NEW x \in AnchorsOf(i), i <= j + 1
       PROVE  x \in Range(d)
  <2>1. i \in Nat /\ Keeps(i, x, p, u)
    BY <1>3, KeyFacts DEF KeepOK
  <2>2. CASE i <= j
    <3>1. Len(u.dest) >= 2 * i
      BY <1>4, <1>6, <2>1, <2>2
    <3>2. x \in Range(u.dest)
      BY <1>3, <2>1, <3>1 DEF Keeps
    <3> QED BY <1>14, <3>2
  <2>3. CASE i = j + 1
    <3>1. Len(u.dest) = 2 * i - 1
      BY <1>4, <1>6, <2>3
    <3>2. x \in Range(u.dest) \/ o = Owner[E][FileKey(i)]
      BY <1>3, <1>7, <2>1, <3>1 DEF Keeps
    <3>3. CASE x \in Range(u.dest) \/ x = o
      BY <1>14, <3>3
    <3>4. CASE o = Owner[E][FileKey(i)] /\ x # o
      <4>1. PICK k \in Keys : k = FileKey(i)
        BY <1>1, KeyIs
      <4>2. x \in Pair(E, k) /\ x \in R
        BY <1>7, <1>8, <1>10, <4>1 DEF AnchorsOf
      <4>3. o = Owner[E][k] /\ x # o
        BY <3>4, <4>1
      <4>4. Successor[R][o] = x
        BY <1>8, <1>10, <4>2, <4>3, SecondNamed
      <4> QED BY <1>11, <1>14, <4>4
    <3> QED BY <3>2, <3>3, <3>4
  <2> QED BY <1>6, <1>15, <2>1, <2>2, <2>3
<1>16. PICK t : t = [u EXCEPT !.dest = d,
                       !.correct = Len(d) = 2 * Len(Powers) /\ u.op = "migrate" /\ Correct(p[1], d),
                       !.pc = IF Len(d) = 2 * Len(Powers) THEN Looked(u.op) ELSE "lookup"]
  OBVIOUS
<1>17. task' = [task EXCEPT ![p] = t]
  BY <1>2, <1>9, <1>11, <1>13, <1>16 DEF Grown
<1>18. Looked(u.op) = IF u.op = "migrate" THEN "read" ELSE IF u.op = "store" THEN "send" ELSE "ask"
  BY <1>3 DEF Looked
<1>19. /\ t \in Tasks /\ t.op = u.op /\ t.dest = d /\ t.out = u.out
       /\ t.correct = (Len(d) = 2 * N /\ u.op = "migrate" /\ Correct(p[1], d))
       /\ t.pc = IF Len(d) = 2 * N THEN Looked(u.op) ELSE "lookup"
  <2>1. Looked(u.op) \in PCs
    BY <1>18 DEF PCs
  <2>2. (Len(d) = 2 * Len(Powers) /\ u.op = "migrate" /\ Correct(p[1], d)) \in BOOLEAN
    OBVIOUS
  <2> QED BY <1>3, <1>5, <1>14, <1>16, <2>1, <2>2 DEF Tasks, PCs
<1>20. Len(d) = 2 * N <=> j + 1 = N
  BY <1>6, <1>14
<1>21. ListOK(t)
  <2>1. Len(d) <= 2 * N
    BY <1>6, <1>14
  <2>2. Len(d) # 2 * N => j + 1 \in 0 .. (N - 1) /\ Len(d) = 2 * (j + 1)
    BY <1>6, <1>14
  <2>3. t.pc # "list" /\ (t.pc = "lookup" => Len(d) # 2 * N)
    BY <1>18, <1>19
  <2> QED BY <1>5, <1>19, <2>1, <2>2, <2>3 DEF ListOK
<1>22. TaskOK(p, t)'
  <2>1. t.pc \in {"lookup", Looked(u.op)} /\ TaskOK(p, u)
    BY <1>3, <1>19
  <2> QED BY <1>3, <1>18, <1>19, <1>21, <2>1 DEF TaskOK, RingSame
<1>23. ASSUME NEW i \in DOMAIN Powers, NEW x \in AnchorsOf(i)' PROVE Keeps(i, x, p, t)'
  <2>1. x \in AnchorsOf(i) /\ i \in Nat /\ i <= N
    BY <1>6, RingSameKeeps
  <2>2. CASE Len(d) = 2 * N
    <3>1. x \in Range(d)
      BY <1>15, <1>20, <2>1, <2>2
    <3>2. p[1] = x /\ u.op = "migrate" => t.correct
      BY <1>19, <2>2, <3>1 DEF Correct, sameKey, Range
    <3>3. t.pc \notin {"lookup", "list", "wait"}
      BY <1>18, <1>19, <2>2
    <3> QED BY <1>19, <3>1, <3>2, <3>3 DEF Keeps
  <2>3. CASE Len(d) # 2 * N
    <3>1. t.pc = "lookup" /\ t.dest = d
      BY <1>19, <2>3
    <3>2. Len(d) >= 2 * i => x \in Range(d)
      BY <1>6, <1>14, <1>15, <2>1
    <3> QED BY <3>1, <3>2 DEF Keeps
  <2> QED BY <2>2, <2>3
<1>24. KeepOK(p, t)'
  BY <1>23 DEF KeepOK
<1>25. StateOK'
  BY <1>1 DEF StateOK, RingSame
<1> QED BY <1>17, <1>22, <1>24, <1>25, CopiesSame, TaskStep

LEMMA AskSuccListKeeps ==
  ASSUME FilesInv, NEW p \in Goroutines, AskSuccList(p)
  PROVE  FilesInv'
<1>1. task[p].pc = "list" /\ UNCHANGED <<view, hash, data, stores, stored, got>>
  BY DEF AskSuccList
<1>2. p[1] \in live
  BY <1>1, TaskFacts DEF TaskOK
<1>3. CASE Dies(p[1])
  <2>1. PICK n \in live : n = p[1]
    BY <1>2
  <2> QED BY <1>1, <1>3, <2>1, DiesKeeps
<1>4. PICK o : o = Last(task[p].dest)
  OBVIOUS
<1>5. ASSUME NEW r \in Views, o \in live, UNCHANGED <<live, dead, call>>,
             task' = [task EXCEPT ![p] = Grown(p, Successor[r \cup {o}][o])]
      PROVE  FilesInv'
  <2>1. RingSame
    BY <1>1, <1>5 DEF RingSame
  <2> QED BY <1>1, <1>4, <1>5, <2>1, GrownKeeps
<1> QED BY <1>3, <1>4, <1>5 DEF AskSuccList

LEMMA ReadFileKeeps ==
  ASSUME FilesInv, NEW p \in Goroutines, ReadFile(p)
  PROVE  FilesInv'
<1>1. TaskOK(p, task[p]) /\ KeepOK(p, task[p]) /\ StateOK /\ p[1] \in Nodes
  BY TaskFacts
<1>2. PICK u : u = task[p]
  OBVIOUS
<1>3. u \in Tasks /\ u.pc = "read" /\ TaskOK(p, u) /\ KeepOK(p, u) /\ u.op = "migrate"
  BY <1>1, <1>2 DEF TaskOK, ReadFile, Tasks
<1>4. RingSame /\ UNCHANGED <<view, data, stores, stored, got, call>>
  BY DEF ReadFile, RingSame
<1>5. PICK t : t = [u EXCEPT !.out = data[p[1]], !.pc = "ask"]
  OBVIOUS
<1>6. task' = [task EXCEPT ![p] = t]
  BY <1>2, <1>5 DEF ReadFile
<1>7. data[p[1]] \in Contents /\ data[p[1]] # NoFile
  BY <1>1, <1>3 DEF StateOK, TaskOK
<1>8. t \in Tasks /\ t.op = "migrate" /\ t.pc = "ask" /\ t.out # NoFile
      /\ t.correct = u.correct /\ t.dest = u.dest
  BY <1>3, <1>5, <1>7 DEF Tasks, PCs
<1>9. TaskOK(p, t)'
  BY <1>3, <1>4, <1>8 DEF TaskOK, ListOK, RingSame
<1>10. ASSUME NEW i \in DOMAIN Powers, NEW x \in AnchorsOf(i)' PROVE Keeps(i, x, p, t)'
  <2>1. Keeps(i, x, p, u)
    BY <1>3, <1>4, RingSameKeeps DEF KeepOK
  <2> QED BY <1>3, <1>8, <2>1 DEF Keeps
<1>11. KeepOK(p, t)'
  BY <1>10 DEF KeepOK
<1>12. StateOK'
  BY <1>1, <1>4 DEF StateOK, RingSame
<1> QED BY <1>4, <1>6, <1>9, <1>11, <1>12, CopiesSame, TaskStep

LEMMA AskGetFileKeeps ==
  ASSUME FilesInv, NEW p \in Goroutines, AskGetFile(p)
  PROVE  FilesInv'
<1>1. TaskOK(p, task[p]) /\ KeepOK(p, task[p]) /\ StateOK /\ p[1] \in Nodes
  BY TaskFacts
<1>2. PICK u : u = task[p]
  OBVIOUS
<1>3. u \in Tasks /\ u.op = "migrate" /\ u.pc = "ask" /\ u.dest # <<>> /\ ListOK(u)
      /\ TaskOK(p, u) /\ KeepOK(p, u)
  BY <1>1, <1>2 DEF TaskOK, AskGetFile, AtEnd
<1>4. RingSame /\ UNCHANGED <<view, data, stores, stored, got, call>>
  BY DEF AskGetFile, RingSame
<1>5. PICK t : /\ t = NextEntry(u) \/ t = [u EXCEPT !.pc = "send"]
               /\ task' = [task EXCEPT ![p] = t]
  <2>1. CASE HasFile(Dest(p))
    BY <1>2, <2>1 DEF AskGetFile
  <2>2. CASE ~HasFile(Dest(p))
    BY <1>2, <2>2 DEF AskGetFile
  <2> QED BY <2>1, <2>2
<1>6. /\ t \in Tasks /\ t.op = "migrate" /\ t.pc \in {"ask", "send"} /\ ListOK(t)
      /\ t.correct = u.correct /\ t.out = u.out
  <2>1. CASE t = NextEntry(u)
    BY <1>3, <2>1, NextIs
  <2>2. CASE t = [u EXCEPT !.pc = "send"]
    <3>1. t \in Tasks /\ t.op = "migrate" /\ t.pc = "send" /\ t.dest = u.dest
          /\ t.correct = u.correct /\ t.out = u.out
      BY <1>3, <2>2 DEF Tasks, PCs
    <3> QED BY <1>3, <3>1 DEF ListOK
  <2> QED BY <1>5, <2>1, <2>2
<1>7. TaskOK(p, t)'
  BY <1>3, <1>4, <1>6 DEF TaskOK, RingSame
<1>8. ASSUME NEW i \in DOMAIN Powers, NEW x \in AnchorsOf(i)' PROVE Keeps(i, x, p, t)'
  <2>1. Keeps(i, x, p, u)
    BY <1>3, <1>4, RingSameKeeps DEF KeepOK
  <2> QED BY <1>3, <1>6, <2>1 DEF Keeps
<1>9. KeepOK(p, t)'
  BY <1>8 DEF KeepOK
<1>10. StateOK'
  BY <1>1, <1>4 DEF StateOK, RingSame
<1> QED BY <1>4, <1>5, <1>7, <1>9, <1>10, CopiesSame, TaskStep

\* A store leaves a file wherever it has been, be it empty.
LEMMA AskStoreFileKeeps ==
  ASSUME FilesInv, NEW p \in Goroutines, AskStoreFile(p)
  PROVE  FilesInv'
<1>1. TaskOK(p, task[p]) /\ KeepOK(p, task[p]) /\ StateOK /\ CopiesOK /\ p[1] \in Nodes
  BY TaskFacts
<1>2. PICK u : u = task[p]
  OBVIOUS
<1>3. u \in Tasks /\ u.pc = "send" /\ u.dest # <<>> /\ ListOK(u) /\ TaskOK(p, u) /\ KeepOK(p, u)
      /\ u.op \in {"migrate", "store"}
  BY <1>1, <1>2 DEF TaskOK, AskStoreFile, AtEnd, Tasks
<1>4. PICK n : n = Head(u.dest)
  OBVIOUS
<1>5. n \in Nodes /\ \A x \in Range(u.dest) : x = n \/ x \in Range(Tail(u.dest))
  BY <1>3, <1>4, TailIs DEF Tasks
<1>6. RingSame /\ UNCHANGED <<view, stores, stored, got>>
  BY DEF AskStoreFile, RingSame
<1>7. CASE n \in live
  <2>1. /\ data' = [data EXCEPT ![n] = Empty]
        /\ call' = [call EXCEPT ![p] = [to |-> n, out |-> u.out]]
        /\ task' = [task EXCEPT ![p].pc = "wait"]
    BY <1>2, <1>4, <1>7 DEF AskStoreFile, Dest
  <2>2. [to |-> n, out |-> u.out] \in Calls
    BY <1>3, <1>5 DEF Calls, Tasks
  <2>3. call' \in [Goroutines -> Calls]
        /\ \A q \in Goroutines : call'[q].to \in live \cup {NoNode}
    BY <1>1, <1>7, <2>1, <2>2 DEF StateOK
  <2>4. data' \in [Nodes -> Contents] /\ data'[n] # NoFile
        /\ \A m \in Nodes : data[m] # NoFile => data'[m] # NoFile
    BY <1>1, <1>5, <2>1, ContentFacts DEF StateOK
  <2>5. StateOK'
    BY <1>1, <1>6, <2>3, <2>4 DEF StateOK, RingSame
  <2>6. CopiesKept(p) /\ CopiesOK'
    <3>1. \A i \in DOMAIN Powers : AnchorsOf(i) \subseteq Nodes
      BY <1>1, EverIs
    <3> QED BY <1>1, <1>6, <2>4, <3>1, RingSameKeeps DEF CopiesKept, CopiesOK
  <2>7. PICK t : t = [u EXCEPT !.pc = "wait"]
    OBVIOUS
  <2>8. task' = [task EXCEPT ![p] = t]
    BY <1>2, <2>1, <2>7
  <2>9. t \in Tasks /\ t.op = u.op /\ t.pc = "wait" /\ t.dest = u.dest /\ t.out = u.out
        /\ t.correct = u.correct
    BY <1>3, <2>7 DEF Tasks, PCs
  <2>10. TaskOK(p, t)'
    <3>1. ListOK(t)
      BY <1>3, <2>9 DEF ListOK
    <3> QED BY <1>1, <1>3, <1>6, <2>4, <2>9, <3>1 DEF TaskOK, RingSame
  <2>11. ASSUME NEW i \in DOMAIN Powers, NEW x \in AnchorsOf(i)' PROVE Keeps(i, x, p, t)'
    <3>1. x \in AnchorsOf(i)
      BY <1>6, RingSameKeeps
    <3>2. Keeps(i, x, p, u) /\ x \in Nodes
      BY <1>1, <1>3, <3>1, EverIs DEF KeepOK
    <3>3. u.op = "store" => data'[x] # NoFile \/ x \in Range(Tail(u.dest))
      BY <1>3, <1>5, <2>4, <3>2 DEF Keeps
    <3> QED BY <1>3, <2>9, <3>2, <3>3 DEF Keeps
  <2>12. KeepOK(p, t)'
    BY <2>11 DEF KeepOK
  <2> QED BY <1>6, <2>5, <2>6, <2>8, <2>10, <2>12, TaskStep
<1>8. CASE n \notin live
  <2>1. task' = [task EXCEPT ![p] = NextEntry(u)] /\ UNCHANGED <<data, call>>
    BY <1>2, <1>4, <1>8 DEF AskStoreFile, Dest
  <2>2. PICK t : t = NextEntry(u)
    OBVIOUS
  <2>3. /\ t \in Tasks /\ t.op = u.op /\ t.correct = u.correct /\ t.out = u.out
        /\ t.dest = Tail(u.dest) /\ ListOK(t)
        /\ t.pc = IF u.op = "migrate" THEN "ask" ELSE "send"
    BY <1>3, <2>2, NextIs
  <2>4. TaskOK(p, t)'
    BY <1>3, <1>6, <2>1, <2>3 DEF TaskOK, RingSame
  <2>5. ASSUME NEW i \in DOMAIN Powers, NEW x \in AnchorsOf(i)' PROVE Keeps(i, x, p, t)'
    <3>1. x \in AnchorsOf(i)
      BY <1>6, RingSameKeeps
    <3>2. Keeps(i, x, p, u) /\ x \in live
      BY <1>1, <1>3, <3>1, EverIs DEF KeepOK
    <3>3. u.op = "store" => data'[x] # NoFile \/ x \in Range(Tail(u.dest))
      BY <1>3, <1>5, <1>8, <2>1, <3>2 DEF Keeps
    <3> QED BY <1>3, <2>3, <3>2, <3>3 DEF Keeps
  <2>6. KeepOK(p, t)'
    BY <2>5 DEF KeepOK
  <2>7. StateOK'
    BY <1>1, <1>6, <2>1 DEF StateOK, RingSame
  <2> QED BY <1>6, <2>1, <2>2, <2>4, <2>6, <2>7, CopiesSame, TaskStep
<1> QED BY <1>7, <1>8

LEMMA ReqStoreFileKeeps ==
  ASSUME FilesInv, NEW p \in Goroutines, ReqStoreFile(p)
  PROVE  FilesInv'
<1>1. TaskOK(p, task[p]) /\ KeepOK(p, task[p]) /\ StateOK /\ CopiesOK
  BY TaskFacts
<1>2. PICK n : n = call[p].to /\ n \in Nodes
  BY <1>1 DEF ReqStoreFile, StateOK, Calls
<1>3. RingSame /\ UNCHANGED <<view, stores, stored, got>>
  BY DEF ReqStoreFile, RingSame
<1>4. data' \in [Nodes -> Contents] /\ \A m \in Nodes : data[m] # NoFile => data'[m] # NoFile
  BY <1>1, <1>2, ContentFacts DEF StateOK, ReqStoreFile
<1>5. call' \in [Goroutines -> Calls] /\ \A q \in Goroutines : call'[q].to \in live \cup {NoNode}
  <2>1. call' = [call EXCEPT ![p] = NoCall] /\ NoCall \in Calls /\ NoCall.to = NoNode
    BY ContentFacts DEF ReqStoreFile, NoCall, Calls
  <2> QED BY <1>1, <2>1 DEF StateOK
<1>6. StateOK'
  BY <1>1, <1>3, <1>4, <1>5 DEF StateOK, RingSame
<1>7. CopiesKept(p) /\ CopiesOK'
  <2>1. \A i \in DOMAIN Powers : AnchorsOf(i) \subseteq Nodes
    BY <1>1, EverIs
  <2> QED BY <1>1, <1>3, <1>4, <2>1, RingSameKeeps DEF CopiesKept, CopiesOK
<1>8. PICK t : /\ t = IF task[p].pc = "wait" THEN NextEntry(task[p]) ELSE task[p]
               /\ task' = [task EXCEPT ![p] = t]
  BY DEF ReqStoreFile
<1>9. TaskOK(p, t) /\ KeepOK(p, t)
  <2>1. CASE task[p].pc = "wait"
    BY <1>1, <1>8, <2>1, ReturnKeeps DEF KeepOK
  <2>2. CASE task[p].pc # "wait"
    BY <1>1, <1>8, <2>2
  <2> QED BY <2>1, <2>2
<1>10. TaskOK(p, t)'
  <2>1. p[1] \in Nodes
    BY GoroutineFacts
  <2> QED BY <1>3, <1>4, <1>9, <2>1 DEF TaskOK, RingSame
<1>11. ASSUME NEW i \in DOMAIN Powers, NEW x \in AnchorsOf(i)' PROVE Keeps(i, x, p, t)'
  <2>1. x \in AnchorsOf(i)
    BY <1>3, RingSameKeeps
  <2>2. Keeps(i, x, p, t) /\ x \in Nodes
    BY <1>1, <1>9, <2>1, EverIs DEF KeepOK
  <2>3. data[x] # NoFile => data'[x] # NoFile
    BY <1>4, <2>2
  <2> QED BY <1>3, <2>2, <2>3, RingSameKeeps DEF Keeps
<1>12. KeepOK(p, t)'
  BY <1>11 DEF KeepOK
<1> QED BY <1>3, <1>6, <1>7, <1>8, <1>10, <1>12, TaskStep

LEMMA RemovalKeeps ==
  ASSUME FilesInv, NEW p \in Goroutines, Removal(p)
  PROVE  FilesInv'
<1>1. TaskOK(p, task[p]) /\ KeepOK(p, task[p]) /\ StateOK /\ CopiesOK /\ p[1] \in Nodes
  BY TaskFacts
<1>2. RingSame /\ UNCHANGED <<view, stores, stored, got>> /\ task' = [task EXCEPT ![p] = Idle]
      /\ task[p].op = "migrate" /\ task[p].pc = "ask"
  BY DEF Removal, RingSame
<1>3. data' \in [Nodes -> Contents]
  BY <1>1, ContentFacts DEF StateOK, Removal
<1>4. \A q \in Goroutines : call'[q] \in Calls /\ call'[q].to = call[q].to
  <2> SUFFICES ASSUME NEW q \in Goroutines PROVE call'[q] \in Calls /\ call'[q].to = call[q].to
    OBVIOUS
  <2>1. PICK c : c = call[q] /\ c \in Calls
    BY <1>1 DEF StateOK
  <2>2. call'[q] = c \/ call'[q] = [c EXCEPT !.out = NoFile]
    BY <2>1 DEF Removal, Unlinked
  <2> QED BY <2>1, <2>2, ContentFacts DEF Calls
<1>5. StateOK'
  <2>1. call' \in [Goroutines -> Calls]
    <3>1. call' = [q \in Goroutines |-> call'[q]]
      BY <1>1 DEF Removal, Unlinked, StateOK
    <3> QED BY <1>4, <3>1
  <2> QED BY <1>1, <1>2, <1>3, <1>4, <2>1 DEF StateOK, RingSame
<1>6. p = <<p[1], "stabilize">>
  BY <1>1, <1>2, GoroutineFacts DEF TaskOK
<1>7. ASSUME NEW n \in Nodes, data[n] # NoFile, data'[n] = NoFile
      PROVE  p = <<n, "stabilize">> /\ \A i \in DOMAIN Powers : n \notin AnchorsOf(i)
  <2>1. n = p[1] /\ ~task[p].correct
    BY <1>1, <1>7 DEF Removal, StateOK
  <2>2. \A i \in DOMAIN Powers : n \notin AnchorsOf(i)
    BY <1>1, <1>2, <2>1 DEF KeepOK, Keeps
  <2> QED BY <1>6, <2>1, <2>2
<1>8. CopiesKept(p)
  BY <1>7 DEF CopiesKept
<1>9. CopiesOK'
  <2>1. \A i \in DOMAIN Powers : AnchorsOf(i) \subseteq Nodes /\ AnchorsOf(i)' = AnchorsOf(i)
    BY <1>1, <1>2, EverIs, RingSameKeeps
  <2> QED BY <1>1, <1>2, <1>7, <2>1 DEF CopiesOK
<1> QED BY <1>2, <1>5, <1>8, <1>9, IdleKeeps

LEMMA StoreFileReturnsKeeps ==
  ASSUME FilesInv, NEW p \in Goroutines, StoreFileReturns(p)
  PROVE  FilesInv'
<1>1. TaskOK(p, task[p]) /\ KeepOK(p, task[p]) /\ StateOK /\ CopiesOK
  BY TaskFacts
<1>2. RingSame /\ UNCHANGED <<view, data, stores, got, call>> /\ task' = [task EXCEPT ![p] = Idle]
      /\ stored' = TRUE /\ task[p].op = "store" /\ task[p].pc = "send" /\ task[p].dest = <<>>
  BY DEF StoreFileReturns, RingSame, AtEnd
<1>3. StateOK' /\ CopiesKept(p)
  BY <1>1, <1>2 DEF StateOK, RingSame, CopiesKept
<1>4. Range(task[p].dest) = {}
  BY <1>2 DEF Range
<1>5. CopiesOK'
  <2>1. ASSUME NEW i \in DOMAIN Powers, NEW x \in AnchorsOf(i) PROVE data[x] # NoFile
    BY <1>1, <1>2, <1>4 DEF KeepOK, Keeps
  <2> QED BY <1>1, <1>2, <2>1, RingSameKeeps DEF CopiesOK
<1> QED BY <1>2, <1>3, <1>5, IdleKeeps

\* The loop over the hosts ends without a copy only if there is no anchor: an
\* anchor would be still to be asked.
LEMMA GetFileKeeps ==
  ASSUME FilesInv, NEW p \in Goroutines, GetFile(p)
  PROVE  FilesInv'
<1>1. TaskOK(p, task[p]) /\ KeepOK(p, task[p]) /\ StateOK /\ CopiesOK /\ p[1] \in Nodes
  BY TaskFacts
<1>2. PICK u : u = task[p]
  OBVIOUS
<1>3. u \in Tasks /\ u.op = "get" /\ u.pc = "ask" /\ TaskOK(p, u) /\ KeepOK(p, u)
      /\ stored /\ p[1] \in live /\ ListOK(u)
  BY <1>1, <1>2 DEF TaskOK, GetFile
<1>4. UNCHANGED <<view, hash, data, stores, stored>>
  BY DEF GetFile
<1>5. CASE got' = "found" /\ task' = [task EXCEPT ![p] = Idle] /\ UNCHANGED <<live, dead, call>>
  <2>1. RingSame
    BY <1>4, <1>5 DEF RingSame
  <2>2. StateOK' /\ CopiesKept(p) /\ CopiesOK'
    BY <1>1, <1>4, <1>5, <2>1, RingSameKeeps DEF StateOK, CopiesKept, CopiesOK
  <2> QED BY <1>4, <1>5, <2>1, <2>2, IdleKeeps
<1>6. CASE Dies(p[1]) /\ UNCHANGED got
  <2>1. PICK n \in live : n = p[1]
    BY <1>3
  <2> QED BY <1>4, <1>6, <2>1, DiesKeeps
<1>7. CASE ~AtEnd(p) /\ ~HasFile(Dest(p)) /\ task' = [task EXCEPT ![p].dest = Tail(@)]
           /\ UNCHANGED <<live, dead, got, call>>
  <2>1. PICK n : n = Head(u.dest)
    OBVIOUS
  <2>2. /\ u.dest \in Seq(Nodes) /\ Tail(u.dest) \in Seq(Nodes)
        /\ Len(Tail(u.dest)) <= Len(u.dest)
        /\ \A x \in Range(u.dest) : x = n \/ x \in Range(Tail(u.dest))
    BY <1>2, <1>3, <1>7, <2>1, TailIs DEF Tasks, AtEnd
  <2>3. ~(n \in live /\ data[n] # NoFile)
    BY <1>2, <1>7, <2>1 DEF HasFile, Dest
  <2>4. PICK t : t = [u EXCEPT !.dest = Tail(u.dest)]
    OBVIOUS
  <2>5. task' = [task EXCEPT ![p] = t]
    BY <1>2, <1>7, <2>4
  <2>6. t \in Tasks /\ t.op = "get" /\ t.pc = "ask" /\ t.dest = Tail(u.dest)
    BY <1>3, <2>2, <2>4 DEF Tasks
  <2>7. ListOK(t)
    <3>1. Len(u.dest) <= 2 * Len(Powers) /\ Len(Powers) \in Nat
      BY <1>3, KeyFacts DEF ListOK
    <3>2. Len(u.dest) \in Nat /\ Len(Tail(u.dest)) \in Nat
      BY <2>2
    <3>3. Len(t.dest) <= 2 * Len(Powers)
      BY <2>2, <2>6, <3>1, <3>2
    <3> QED BY <2>6, <3>3 DEF ListOK
  <2>8. RingSame
    BY <1>4, <1>7 DEF RingSame
  <2>9. TaskOK(p, t)'
    BY <1>3, <1>4, <2>6, <2>7, <2>8 DEF TaskOK, RingSame
  <2>10. ASSUME NEW i \in DOMAIN Powers, NEW x \in AnchorsOf(i)' PROVE Keeps(i, x, p, t)'
    <3>1. x \in AnchorsOf(i)
      BY <2>8, RingSameKeeps
    <3>2. x \in live /\ data[x] # NoFile /\ x \in Range(u.dest)
      BY <1>1, <1>3, <3>1, EverIs DEF CopiesOK, KeepOK, Keeps
    <3>3. x \in Range(Tail(u.dest))
      BY <2>2, <2>3, <3>2
    <3> QED BY <2>6, <3>3 DEF Keeps
  <2>11. KeepOK(p, t)'
    BY <2>10 DEF KeepOK
  <2>12. StateOK'
    BY <1>1, <1>4, <1>7 DEF StateOK
  <2> QED BY <1>4, <1>7, <2>5, <2>8, <2>9, <2>11, <2>12, CopiesSame, TaskStep
<1>8. CASE AtEnd(p) /\ got' = "missing" /\ task' = [task EXCEPT ![p] = Idle]
           /\ UNCHANGED <<live, dead, call>>
  <2>1. Range(u.dest) = {}
    BY <1>2, <1>8 DEF AtEnd, Range
  <2>2. \A i \in DOMAIN Powers : AnchorsOf(i) = {}
    BY <1>3, <2>1 DEF KeepOK, Keeps
  <2>3. RingSame
    BY <1>4, <1>8 DEF RingSame
  <2>4. StateOK' /\ CopiesKept(p) /\ CopiesOK'
    BY <1>1, <1>4, <1>8, <2>2, <2>3, RingSameKeeps DEF StateOK, CopiesKept, CopiesOK
  <2> QED BY <1>4, <1>8, <2>3, <2>4, IdleKeeps
<1> QED BY <1>5, <1>6, <1>7, <1>8 DEF GetFile

LEMMA FilesNext == FilesInv /\ [Next]_vars => FilesInv'
<1> SUFFICES ASSUME FilesInv, [Next]_vars PROVE FilesInv'
  OBVIOUS
<1>1. ASSUME NEW n \in Nodes, Crash(n) PROVE FilesInv'
  BY <1>1, DiesKeeps DEF Crash
<1>2. ASSUME NEW n \in Nodes, Join(n) PROVE FilesInv'
  BY <1>2, JoinKeeps
<1>3. ASSUME NEW n \in Nodes, Stabilize(n) PROVE FilesInv'
  BY <1>3, GoroutineFacts, MigrateKeeps, FindSuccessorKeeps, AskSuccListKeeps, ReadFileKeeps,
     AskGetFileKeeps, AskStoreFileKeeps, RemovalKeeps DEF Stabilize, Lookup
<1>4. ASSUME NEW n \in Users, User(n) PROVE FilesInv'
  BY <1>4, GoroutineFacts, StoreFileKeeps, LookupFileKeeps, FindSuccessorKeeps, AskSuccListKeeps,
     AskStoreFileKeeps, StoreFileReturnsKeeps, GetFileKeeps DEF User, Lookup
<1>5. ASSUME NEW p \in Goroutines, ReqStoreFile(p) PROVE FilesInv'
  BY <1>5, ReqStoreFileKeeps
<1>6. CASE Settle
  BY <1>6, SettleKeeps
<1>7. CASE UNCHANGED vars
  BY <1>7, StutterKeeps
<1> QED BY <1>1, <1>2, <1>3, <1>4, <1>5, <1>6, <1>7 DEF Next

-----------------------------------------------------------------------------
(***************************************************************************)
(* The first home in a ring that has not changed.                          *)
(***************************************************************************)

NeverChanged == live = Members /\ dead = {}

First == Owner[Members][FileKey(1)]

\* A list begins with the first home, and stabilize has nothing to send to it,
\* since nobody has the file unless the first home has.
FirstTask(t) ==
    /\ t.pc \in {"lookup", "list"} /\ t.dest # <<>> => Head(t.dest) = First
    /\ t.op = "migrate" /\ t.pc = "send" => Head(t.dest) # First
    /\ t.op = "store" /\ t.pc = "send" =>
         data[First] # NoFile \/ (t.dest # <<>> /\ Head(t.dest) = First)
    /\ t.op = "store" /\ t.pc = "wait" => data[First] # NoFile

\* Only StoreFile writes there.
FirstCall(t, c) == c.to = First => t.op = "store" /\ t.pc = "wait" /\ c.out \in Versions

FirstCopy ==
    /\ view = Members
    /\ \A n \in Nodes : data[n] # NoFile => data[First] # NoFile
    /\ \A p \in Goroutines : call[p].to # NoNode => data[First] # NoFile
    /\ data[First] = Empty => \E p \in Goroutines : call[p].to = First

FirstInv ==
    NeverChanged =>
        FirstCopy /\ \A p \in Goroutines : FirstTask(task[p]) /\ FirstCall(task[p], call[p])

LEMMA FirstIs ==
  ASSUME StateOK
  PROVE  /\ First \in Members /\ First \in Nodes
         /\ NeverChanged => First \in AnchorsOf(1) /\ 1 \in DOMAIN Powers
<1>1. 1 \in DOMAIN Powers
  BY KeyFacts
<1>2. FileKey(1) \in Keys
  BY <1>1, KeyIs
<1>3. First \in Members
  BY <1>2, KeyFacts, PairIn DEF First
<1>4. ASSUME NeverChanged PROVE First \in AnchorsOf(1)
  <2>1. Ever = Members
    BY <1>4 DEF NeverChanged, Ever
  <2>2. First \in Pair(Ever, FileKey(1))
    BY <2>1 DEF Pair, First
  <2> QED BY <1>3, <1>4, <2>2 DEF AnchorsOf, NeverChanged
<1> QED BY <1>1, <1>3, <1>4 DEF Nodes

LEMMA FirstInit == Init => FirstInv
<1> SUFFICES ASSUME Init PROVE FirstInv
  OBVIOUS
<1>1. StateOK
  BY FilesInit DEF FilesInv, TypeInv
<1>2. data[First] = NoFile /\ \A n \in Nodes : data[n] = NoFile
  BY <1>1, FirstIs DEF Init
<1>3. FirstCopy
  BY <1>2, ContentFacts DEF FirstCopy, Init, NoCall
<1>4. ASSUME NEW p \in Goroutines PROVE FirstTask(task[p]) /\ FirstCall(task[p], call[p])
  <2>1. task[p] = Idle /\ call[p] = NoCall
    BY DEF Init
  <2>2. Idle.pc = "idle" /\ NoCall.to = NoNode /\ NoNode # First
    BY <1>1, FirstIs, ContentFacts DEF Idle, NoCall
  <2> QED BY <2>1, <2>2 DEF FirstTask, FirstCall
<1> QED BY <1>3, <1>4 DEF FirstInv

\* A step of the ring ends the claim.
LEMMA FirstRing ==
  ASSUME FilesInv, NEW n \in Nodes, Dies(n) \/ Join(n)
  PROVE  FirstInv'
<1>1. CASE Dies(n)
  BY <1>1 DEF Dies, FirstInv, NeverChanged
<1>2. CASE Join(n)
  <2>1. n \notin Members /\ n \in live'
    BY <1>2 DEF Join, Absent, FilesInv, TypeInv, StateOK
  <2> QED BY <2>1 DEF FirstInv, NeverChanged
<1> QED BY <1>1, <1>2

LEMMA FirstStep ==
  ASSUME FilesInv, FirstInv, RingSame, NEW p \in Goroutines, NEW t,
         task' = [task EXCEPT ![p] = t],
         \A q \in Goroutines : q # p /\ call'[q].to = First => call'[q] = call[q],
         NeverChanged => /\ data[First] # NoFile => data'[First] # NoFile
                         /\ FirstTask(t)' /\ FirstCall(t, call[p])' /\ FirstCopy'
  PROVE  FirstInv'
<1> SUFFICES ASSUME NeverChanged'
             PROVE  FirstCopy' /\ \A q \in Goroutines :
                      FirstTask(task[q])' /\ FirstCall(task[q], call[q])'
  BY DEF FirstInv
<1>1. NeverChanged /\ First' = First
  BY DEF RingSame, NeverChanged, First, FileKey
<1>2. task' = [q \in Goroutines |-> IF q = p THEN t ELSE task[q]]
  BY DEF FilesInv, TypeInv
<1>3. ASSUME NEW q \in Goroutines PROVE FirstTask(task[q])' /\ FirstCall(task[q], call[q])'
  <2>1. CASE q = p
    BY <1>1, <1>2, <2>1
  <2>2. CASE q # p
    <3>1. PICK u : u = task[q] /\ u = task'[q]
      BY <1>2, <2>2
    <3>2. FirstTask(u) /\ FirstCall(u, call[q])
      BY <1>1, <3>1 DEF FirstInv
    <3>3. FirstTask(u)'
      BY <1>1, <3>2 DEF FirstTask
    <3>4. FirstCall(u, call[q])'
      BY <1>1, <2>2, <3>2 DEF FirstCall
    <3> QED BY <3>1, <3>3, <3>4
  <2> QED BY <2>1, <2>2
<1> QED BY <1>1, <1>3

\* The same for a step that writes no file and makes no call.
LEMMA FirstQuiet ==
  ASSUME FilesInv, FirstInv, RingSame, NEW p \in Goroutines, NEW t,
         task' = [task EXCEPT ![p] = t], UNCHANGED <<view, data, call>>,
         task[p].pc # "wait",
         NeverChanged => FirstTask(t)
  PROVE  FirstInv'
<1>1. First' = First
  BY DEF RingSame, First, FileKey
<1>2. ASSUME NeverChanged PROVE FirstTask(t)' /\ FirstCall(t, call[p])' /\ FirstCopy'
  <2>1. FirstCopy /\ FirstCall(task[p], call[p])
    BY <1>2 DEF FirstInv
  <2>2. call[p].to # First
    BY <2>1 DEF FirstCall
  <2> QED BY <1>1, <1>2, <2>1, <2>2 DEF FirstTask, FirstCall, FirstCopy
<1> QED BY <1>2, FirstStep

LEMMA FirstBegin ==
  ASSUME FilesInv, FirstInv, RingSame, NEW p \in Goroutines, NEW op, NEW out,
         Begin(p, op, out), UNCHANGED <<view, data, call>>, task[p].pc = "idle"
  PROVE  FirstInv'
<1>1. PICK t : t = [op |-> op, pc |-> "lookup", dest |-> <<>>, correct |-> FALSE, out |-> out]
  OBVIOUS
<1>2. task' = [task EXCEPT ![p] = t] /\ t.pc = "lookup" /\ t.dest = <<>>
  BY <1>1 DEF Begin
<1>3. FirstTask(t)
  BY <1>2 DEF FirstTask
<1> QED BY <1>2, <1>3, FirstQuiet

LEMMA FirstView ==
  ASSUME FilesInv, FirstInv, NeverChanged, NEW r \in Views
  PROVE  r = Members
<1>1. view = Members /\ live = Members
  BY DEF FirstInv, FirstCopy, NeverChanged
<1> QED BY <1>1 DEF Views

LEMMA FirstFind ==
  ASSUME FilesInv, FirstInv, NEW p \in Goroutines, FindSuccessor(p)
  PROVE  FirstInv'
<1>1. PICK u : u = task[p]
  OBVIOUS
<1>2. TaskOK(p, u) /\ StateOK
  BY <1>1, TaskFacts
<1>3. u.pc = "lookup" /\ u.dest \in Seq(Nodes) /\ u \in Tasks
  BY <1>1, <1>2 DEF TaskOK, FindSuccessor, Tasks
<1>4. PICK r \in Views : task' = [task EXCEPT ![p].dest = Append(@, Owner[r][FileKey(Pass(p))]),
                                               ![p].pc = "list"]
  BY DEF FindSuccessor
<1>5. PICK h : h = Owner[r][FileKey(Pass(p))]
  OBVIOUS
<1>6. PICK t : t = [u EXCEPT !.dest = Append(u.dest, h), !.pc = "list"]
  OBVIOUS
<1>7. task' = [task EXCEPT ![p] = t]
  BY <1>1, <1>4, <1>5, <1>6
<1>8. t.pc = "list" /\ t.dest = Append(u.dest, h)
  BY <1>3, <1>6 DEF Tasks
<1>9. RingSame /\ UNCHANGED <<view, data, call>>
  BY DEF FindSuccessor, RingSame
<1>10. ASSUME NeverChanged PROVE FirstTask(t)
  <2>1. FirstTask(u)
    BY <1>1, <1>10 DEF FirstInv
  <2>2. CASE u.dest = <<>>
    <3>1. Pass(p) = 1 /\ Head(Append(u.dest, h)) = h
      BY <1>1, <2>2 DEF Pass
    <3>2. h = First
      BY <1>5, <1>10, <3>1, FirstView DEF First
    <3> QED BY <1>8, <3>1, <3>2 DEF FirstTask
  <2>3. CASE u.dest # <<>>
    <3>1. Head(u.dest) = First
      BY <1>3, <2>1, <2>3 DEF FirstTask
    <3>2. Head(Append(u.dest, h)) = Head(u.dest)
      BY <1>3, <2>3
    <3> QED BY <1>8, <3>1, <3>2 DEF FirstTask
  <2> QED BY <2>2, <2>3
<1> QED BY <1>1, <1>3, <1>7, <1>9, <1>10, FirstQuiet

LEMMA FirstAsk ==
  ASSUME FilesInv, FirstInv, NEW p \in Goroutines, AskSuccList(p)
  PROVE  FirstInv'
<1>1. PICK u : u = task[p]
  OBVIOUS
<1>2. TaskOK(p, u) /\ StateOK /\ p[1] \in Nodes
  BY <1>1, TaskFacts
<1>3. u.pc = "list" /\ u.dest \in Seq(Nodes) /\ u \in Tasks /\ u.dest # <<>>
      /\ u.op \in {"migrate", "store", "get"}
  <2>1. u.pc = "list" /\ u.dest \in Seq(Nodes) /\ u \in Tasks /\ u.op \in {"migrate", "store", "get"}
    BY <1>1, <1>2 DEF TaskOK, AskSuccList, Tasks
  <2>2. PICK j \in Nat : Len(u.dest) = 2 * j + 1
    BY <1>2, <2>1, KeyFacts DEF TaskOK, ListOK
  <2>3. u.dest # <<>>
    BY <2>1, <2>2
  <2> QED BY <2>1, <2>3
<1>4. CASE Dies(p[1])
  BY <1>2, <1>4, FirstRing
<1>5. ASSUME NEW s, task' = [task EXCEPT ![p] = Grown(p, s)], UNCHANGED <<live, dead, call>>
      PROVE  FirstInv'
  <2>1. PICK t : t = Grown(p, s)
    OBVIOUS
  <2>2. task' = [task EXCEPT ![p] = t]
    BY <1>5, <2>1
  <2>3. t.op = u.op /\ t.dest = Append(u.dest, s)
        /\ t.pc \in {"lookup", Looked(u.op)}
    BY <1>1, <1>3, <2>1 DEF Grown, Tasks
  <2>4. Looked(u.op) \in {"read", "ask"} \/ (Looked(u.op) = "send" /\ u.op = "store")
    BY <1>3 DEF Looked
  <2>5. t.dest # <<>> /\ Head(t.dest) = Head(u.dest)
    BY <1>3, <2>3
  <2>6. RingSame /\ UNCHANGED <<view, data, call>>
    BY <1>5 DEF RingSame, AskSuccList
  <2>7. ASSUME NeverChanged PROVE FirstTask(t)
    <3>1. FirstTask(u)
      BY <1>1, <2>7 DEF FirstInv
    <3>2. Head(u.dest) = First
      BY <1>3, <3>1 DEF FirstTask
    <3> QED BY <2>3, <2>4, <2>5, <3>2 DEF FirstTask
  <2>8. task[p].pc # "wait"
    BY <1>1, <1>3
  <2> QED BY <2>2, <2>6, <2>7, <2>8, FirstQuiet
<1> QED BY <1>4, <1>5 DEF AskSuccList

LEMMA FirstRead ==
  ASSUME FilesInv, FirstInv, NEW p \in Goroutines, ReadFile(p)
  PROVE  FirstInv'
<1>1. PICK t : t = [task[p] EXCEPT !.out = data[p[1]], !.pc = "ask"]
  OBVIOUS
<1>2. task' = [task EXCEPT ![p] = t] /\ task[p].pc = "read"
      /\ RingSame /\ UNCHANGED <<view, data, call>>
  BY <1>1 DEF ReadFile, RingSame
<1>3. t.pc = "ask"
  BY <1>1, TaskFacts DEF TaskOK, Tasks
<1> QED BY <1>2, <1>3, FirstQuiet DEF FirstTask

\* stabilize runs where there is a copy, so the first home has one and says so.
LEMMA FirstAskGet ==
  ASSUME FilesInv, FirstInv, NEW p \in Goroutines, AskGetFile(p)
  PROVE  FirstInv'
<1>1. PICK u : u = task[p]
  OBVIOUS
<1>2. TaskOK(p, u) /\ StateOK /\ p[1] \in Nodes
  BY <1>1, TaskFacts
<1>3. u \in Tasks /\ u.op = "migrate" /\ u.pc = "ask" /\ u.dest # <<>> /\ ListOK(u)
      /\ data[p[1]] # NoFile
  BY <1>1, <1>2 DEF TaskOK, AskGetFile, AtEnd
<1>4. RingSame /\ UNCHANGED <<view, data, call>>
  BY DEF AskGetFile, RingSame
<1>5. CASE HasFile(Dest(p))
  <2>1. PICK t : t = NextEntry(u) /\ task' = [task EXCEPT ![p] = t]
    BY <1>1, <1>5 DEF AskGetFile
  <2>2. t.pc = "ask"
    BY <1>3, <2>1, NextIs
  <2> QED BY <1>1, <1>3, <1>4, <2>1, <2>2, FirstQuiet DEF FirstTask
<1>6. CASE ~HasFile(Dest(p))
  <2>1. PICK t : t = [u EXCEPT !.pc = "send"] /\ task' = [task EXCEPT ![p] = t]
    BY <1>1, <1>6 DEF AskGetFile
  <2>2. t.pc = "send" /\ t.op = "migrate" /\ t.dest = u.dest
    BY <1>3, <2>1 DEF Tasks
  <2>3. ASSUME NeverChanged PROVE Head(u.dest) # First
    <3>1. data[First] # NoFile /\ First \in live
      BY <1>2, <1>3, <2>3, FirstIs DEF FirstInv, FirstCopy, NeverChanged
    <3> QED BY <1>1, <1>6, <3>1 DEF HasFile, Dest
  <2> QED BY <1>1, <1>3, <1>4, <2>1, <2>2, <2>3, FirstQuiet DEF FirstTask
<1> QED BY <1>5, <1>6

\* A store creates the file at the first home before anywhere else; stabilize
\* sends it to other nodes only.
LEMMA FirstSend ==
  ASSUME FilesInv, FirstInv, NEW p \in Goroutines, AskStoreFile(p)
  PROVE  FirstInv'
<1>1. PICK u : u = task[p]
  OBVIOUS
<1>2. TaskOK(p, u) /\ StateOK /\ p[1] \in Nodes
  BY <1>1, TaskFacts
<1>3. u \in Tasks /\ u.pc = "send" /\ u.dest # <<>> /\ ListOK(u) /\ u.op \in {"migrate", "store"}
  BY <1>1, <1>2 DEF TaskOK, AskStoreFile, AtEnd, Tasks
<1>4. PICK n : n = Head(u.dest)
  OBVIOUS
<1>5. n \in Nodes
  BY <1>3, <1>4, TailIs DEF Tasks
<1>6. RingSame /\ UNCHANGED view
  BY DEF AskStoreFile, RingSame
<1>7. PICK f : f = First /\ f = First' /\ f \in Nodes /\ f \in Members
  BY <1>2, <1>6, FirstIs DEF RingSame, First, FileKey
<1>8. ASSUME NeverChanged
      PROVE  /\ FirstCopy /\ FirstTask(u) /\ FirstCall(u, call[p]) /\ call[p].to # f
             /\ u.op = "migrate" => n # f /\ data[f] # NoFile
             /\ n # f => data[f] # NoFile
  <2>1. FirstCopy /\ FirstTask(u) /\ FirstCall(u, call[p])
    BY <1>1, <1>8 DEF FirstInv
  <2>2. call[p].to # f
    BY <1>3, <1>7, <2>1 DEF FirstCall
  <2>3. u.op = "migrate" => n # f /\ data[f] # NoFile
    BY <1>2, <1>3, <1>4, <1>7, <2>1 DEF FirstTask, FirstCopy, TaskOK
  <2>4. u.op = "store" => data[f] # NoFile \/ n = f
    BY <1>3, <1>4, <1>7, <2>1 DEF FirstTask
  <2> QED BY <1>3, <2>1, <2>2, <2>3, <2>4
<1>9. CASE n \in live
  <2>1. /\ data' = [data EXCEPT ![n] = Empty]
        /\ call' = [call EXCEPT ![p] = [to |-> n, out |-> u.out]]
        /\ task' = [task EXCEPT ![p].pc = "wait"]
    BY <1>1, <1>4, <1>9 DEF AskStoreFile, Dest
  <2>2. PICK t : t = [u EXCEPT !.pc = "wait"]
    OBVIOUS
  <2>3. task' = [task EXCEPT ![p] = t]
    BY <1>1, <2>1, <2>2
  <2>4. t.op = u.op /\ t.pc = "wait"
    BY <1>3, <2>2 DEF Tasks
  <2>5. call'[p].to = n /\ call'[p].out = u.out
        /\ \A q \in Goroutines : q # p => call'[q] = call[q]
    BY <1>2, <2>1 DEF StateOK
  <2>6. ASSUME NEW m \in Nodes PROVE data'[m] = IF m = n THEN Empty ELSE data[m]
    BY <1>2, <1>5, <2>1 DEF StateOK
  <2>7. ASSUME NeverChanged
        PROVE  /\ data[First] # NoFile => data'[First] # NoFile
               /\ FirstTask(t)' /\ FirstCall(t, call[p])' /\ FirstCopy'
    <3>1. data'[f] # NoFile
      BY <1>7, <1>8, <2>6, <2>7, ContentFacts
    <3>2. FirstTask(t)'
      BY <1>7, <2>4, <3>1 DEF FirstTask
    <3>3. u.op = "store" => u.out \in Versions
      BY <1>2 DEF TaskOK
    <3>4. FirstCall(t, call[p])'
      BY <1>3, <1>7, <1>8, <2>4, <2>5, <2>7, <3>3 DEF FirstCall
    <3>5. data'[f] = Empty => \E q \in Goroutines : call'[q].to = f
      <4>1. CASE n = f
        BY <2>5, <4>1
      <4>2. CASE n # f
        <5> SUFFICES ASSUME data[f] = Empty PROVE \E q \in Goroutines : call'[q].to = f
          BY <1>7, <2>6, <4>2
        <5>1. PICK q \in Goroutines : call[q].to = f
          BY <1>7, <1>8, <2>7 DEF FirstCopy
        <5>2. q # p
          BY <1>8, <2>7, <5>1
        <5> QED BY <2>5, <5>1, <5>2
      <4> QED BY <4>1, <4>2
    <3>6. FirstCopy'
      BY <1>6, <1>7, <1>8, <2>7, <3>1, <3>5 DEF FirstCopy
    <3> QED BY <1>7, <3>1, <3>2, <3>4, <3>6
  <2> QED BY <1>6, <2>3, <2>5, <2>7, FirstStep
<1>10. CASE n \notin live
  <2>1. PICK t : t = NextEntry(u) /\ task' = [task EXCEPT ![p] = t] /\ UNCHANGED <<data, call>>
    BY <1>1, <1>4, <1>10 DEF AskStoreFile, Dest
  <2>2. t.op = u.op /\ t.pc = IF u.op = "migrate" THEN "ask" ELSE "send"
    BY <1>3, <2>1, NextIs
  <2>3. ASSUME NeverChanged PROVE FirstTask(t)
    <3>1. n # f
      BY <1>7, <1>10, <2>3 DEF NeverChanged
    <3>2. data[f] # NoFile
      BY <1>8, <2>3, <3>1
    <3> QED BY <1>7, <2>2, <3>2 DEF FirstTask
  <2>4. task[p].pc # "wait"
    BY <1>1, <1>3
  <2> QED BY <1>6, <2>1, <2>3, <2>4, FirstQuiet
<1> QED BY <1>9, <1>10

\* What a handler writes at the first home is a version of the file.
LEMMA FirstWrite ==
  ASSUME FilesInv, FirstInv, NEW p \in Goroutines, ReqStoreFile(p)
  PROVE  FirstInv'
<1>1. PICK u : u = task[p]
  OBVIOUS
<1>2. TaskOK(p, u) /\ StateOK
  BY <1>1, TaskFacts
<1>3. PICK c : c = call[p] /\ c \in Calls /\ c.to \in Nodes
  BY <1>2 DEF ReqStoreFile, StateOK, Calls
<1>4. RingSame /\ UNCHANGED view
  BY DEF ReqStoreFile, RingSame
<1>5. PICK f : f = First /\ f = First' /\ f \in Nodes
  BY <1>2, <1>4, FirstIs DEF RingSame, First, FileKey
<1>6. PICK t : t = (IF u.pc = "wait" THEN NextEntry(u) ELSE u) /\ task' = [task EXCEPT ![p] = t]
  BY <1>1 DEF ReqStoreFile
<1>7. ASSUME NEW m \in Nodes
      PROVE  data'[m] = IF m = c.to /\ c.out \in Versions THEN c.out ELSE data[m]
  BY <1>2, <1>3 DEF ReqStoreFile, StateOK
<1>8. call'[p].to = NoNode /\ \A q \in Goroutines : q # p => call'[q] = call[q]
  BY <1>2 DEF ReqStoreFile, StateOK, NoCall
<1>9. ASSUME NeverChanged
      PROVE  /\ data[First] # NoFile => data'[First] # NoFile
             /\ FirstTask(t)' /\ FirstCall(t, call[p])' /\ FirstCopy'
  <2>1. FirstCopy /\ FirstTask(u) /\ FirstCall(u, c)
    BY <1>1, <1>3, <1>9 DEF FirstInv
  <2>2. data[f] # NoFile => data'[f] # NoFile
    BY <1>5, <1>7, ContentFacts
  <2>3. FirstCall(t, call[p])'
    BY <1>5, <1>8, ContentFacts DEF FirstCall
  <2>4. FirstTask(t)'
    <3>1. CASE u.pc = "wait"
      <4>1. u \in Tasks /\ u.dest # <<>> /\ ListOK(u) /\ u.op \in {"migrate", "store"}
        BY <1>2, <3>1 DEF TaskOK, Tasks
      <4>2. t.op = u.op /\ t.pc = IF u.op = "migrate" THEN "ask" ELSE "send"
        BY <1>6, <3>1, <4>1, NextIs
      <4>3. u.op = "store" => data'[f] # NoFile
        BY <1>5, <2>1, <2>2, <3>1 DEF FirstTask
      <4> QED BY <1>5, <4>1, <4>2, <4>3 DEF FirstTask
    <3>2. CASE u.pc # "wait"
      BY <1>5, <1>6, <2>1, <2>2, <3>2 DEF FirstTask
    <3> QED BY <3>1, <3>2
  <2>6. data'[f] # NoFile
    BY <1>3, <1>5, <2>1, <2>2, ContentFacts DEF FirstCopy
  <2>7. data'[f] = Empty => \E q \in Goroutines : call'[q].to = f
    <3> SUFFICES ASSUME data'[f] = Empty PROVE \E q \in Goroutines : call'[q].to = f
      OBVIOUS
    <3>1. c.to # f /\ data[f] = Empty
      <4>1. c.to = f => c.out \in Versions
        BY <1>5, <2>1 DEF FirstCall
      <4> QED BY <1>5, <1>7, <4>1, ContentFacts
    <3>2. PICK q \in Goroutines : call[q].to = f
      BY <1>5, <2>1, <3>1 DEF FirstCopy
    <3> QED BY <1>3, <1>8, <3>1, <3>2
  <2>8. FirstCopy'
    BY <1>4, <1>5, <2>1, <2>6, <2>7 DEF FirstCopy
  <2> QED BY <1>5, <2>2, <2>3, <2>4, <2>8
<1> QED BY <1>4, <1>6, <1>8, <1>9, FirstStep

\* The first home is on every list, so stabilize does not remove its copy.
LEMMA FirstRemoval ==
  ASSUME FilesInv, FirstInv, NEW p \in Goroutines, Removal(p)
  PROVE  FirstInv'
<1>1. TaskOK(p, task[p]) /\ KeepOK(p, task[p]) /\ StateOK /\ p[1] \in Nodes
  BY TaskFacts
<1>2. task[p].op = "migrate" /\ task[p].pc = "ask" /\ RingSame /\ UNCHANGED view
  BY DEF Removal, RingSame
<1>3. PICK f : f = First /\ f = First' /\ f \in Nodes
  BY <1>1, <1>2, FirstIs DEF RingSame, First, FileKey
<1>4. PICK t : t = Idle /\ task' = [task EXCEPT ![p] = t]
  BY DEF Removal
<1>5. t.pc = "idle"
  BY <1>4 DEF Idle
<1>6. ASSUME NEW q \in Goroutines PROVE call'[q] = call[q] \/ (~task[p].correct /\ call'[q].to = p[1])
  <2>1. PICK c : c = call[q] /\ c \in Calls
    BY <1>1 DEF StateOK
  <2>2. call'[q] = c \/ (~task[p].correct /\ c.to = p[1] /\ call'[q] = [c EXCEPT !.out = NoFile])
    BY <2>1 DEF Removal, Unlinked
  <2> QED BY <2>1, <2>2 DEF Calls
<1>7. \A q \in Goroutines : call'[q].to = call[q].to
  <2> SUFFICES ASSUME NEW q \in Goroutines PROVE call'[q].to = call[q].to
    OBVIOUS
  <2>1. PICK c : c = call[q] /\ c \in Calls
    BY <1>1 DEF StateOK
  <2>2. call'[q] = c \/ call'[q] = [c EXCEPT !.out = NoFile]
    BY <2>1 DEF Removal, Unlinked
  <2> QED BY <2>1, <2>2 DEF Calls
<1>8. ASSUME NeverChanged
      PROVE  /\ data'[f] = data[f] /\ data[f] # NoFile
             /\ \A q \in Goroutines : call'[q].to = f => call'[q] = call[q]
  <2>1. p[1] = f => task[p].correct
    BY <1>1, <1>2, <1>3, <1>8, FirstIs DEF KeepOK, Keeps
  <2>2. data'[f] = data[f]
    BY <1>1, <1>3, <2>1 DEF Removal, StateOK
  <2>3. data[f] # NoFile
    BY <1>1, <1>2, <1>3, <1>8 DEF FirstInv, FirstCopy, TaskOK
  <2> QED BY <1>6, <2>1, <2>2, <2>3
<1>9. ASSUME NeverChanged
      PROVE  /\ data[First] # NoFile => data'[First] # NoFile
             /\ FirstTask(t)' /\ FirstCall(t, call[p])' /\ FirstCopy'
  <2>1. FirstCopy /\ FirstCall(task[p], call[p])
    BY <1>9 DEF FirstInv
  <2>2. call'[p].to # f
    BY <1>2, <1>3, <1>7, <2>1 DEF FirstCall
  <2>3. FirstCopy'
    BY <1>2, <1>3, <1>7, <1>8, <1>9, <2>1 DEF FirstCopy
  <2> QED BY <1>3, <1>5, <1>8, <1>9, <2>2, <2>3 DEF FirstTask, FirstCall
<1>10. CASE NeverChanged
  BY <1>2, <1>3, <1>4, <1>8, <1>9, <1>10, FirstStep
<1>11. CASE ~NeverChanged
  BY <1>2, <1>11 DEF FirstInv, NeverChanged, RingSame
<1> QED BY <1>10, <1>11

LEMMA FirstReturns ==
  ASSUME FilesInv, FirstInv, NEW p \in Goroutines, StoreFileReturns(p)
  PROVE  FirstInv'
<1>1. PICK t : t = Idle /\ task' = [task EXCEPT ![p] = t]
  BY DEF StoreFileReturns
<1>2. t.pc = "idle" /\ RingSame /\ UNCHANGED <<view, data, call>> /\ task[p].pc = "send"
  BY <1>1 DEF Idle, StoreFileReturns, RingSame
<1> QED BY <1>1, <1>2, FirstQuiet DEF FirstTask

LEMMA FirstGet ==
  ASSUME FilesInv, FirstInv, NEW p \in Goroutines, GetFile(p)
  PROVE  FirstInv'
<1>1. task[p].op = "get" /\ task[p].pc = "ask" /\ UNCHANGED <<view, hash, data>>
      /\ task[p] \in Tasks /\ p[1] \in Nodes
  BY TaskFacts DEF GetFile, TaskOK
<1>2. CASE Dies(p[1])
  BY <1>1, <1>2, FirstRing
<1>3. ASSUME NEW t, task' = [task EXCEPT ![p] = t], t.op \in {"idle", "get"},
             t.pc \in {"idle", "ask"}, UNCHANGED <<live, dead, call>>
      PROVE  FirstInv'
  <2>1. RingSame /\ FirstTask(t)
    BY <1>1, <1>3 DEF RingSame, FirstTask
  <2> QED BY <1>1, <1>3, <2>1, FirstQuiet
<1>4. CASE task' = [task EXCEPT ![p] = Idle] /\ UNCHANGED <<live, dead, call>>
  <2>1. PICK t : t = Idle
    OBVIOUS
  <2>2. t.op = "idle" /\ t.pc = "idle"
    BY <2>1 DEF Idle
  <2> QED BY <1>3, <1>4, <2>1, <2>2
<1>5. CASE task' = [task EXCEPT ![p].dest = Tail(@)] /\ UNCHANGED <<live, dead, call>>
  <2>1. PICK t : t = [task[p] EXCEPT !.dest = Tail(@)]
    OBVIOUS
  <2>2. t.op = "get" /\ t.pc = "ask" /\ task' = [task EXCEPT ![p] = t]
    BY <1>1, <1>5, <2>1 DEF Tasks
  <2> QED BY <1>3, <1>5, <2>2
<1> QED BY <1>2, <1>4, <1>5 DEF GetFile

LEMMA FirstNext == FilesInv /\ FirstInv /\ [Next]_vars => FirstInv'
<1> SUFFICES ASSUME FilesInv, FirstInv, [Next]_vars PROVE FirstInv'
  OBVIOUS
<1>1. ASSUME NEW n \in Nodes, Crash(n) \/ Join(n) PROVE FirstInv'
  BY <1>1, FirstRing DEF Crash
<1>2. ASSUME NEW n \in Nodes, Migrate(n) PROVE FirstInv'
  <2>1. PICK p : p = <<n, "stabilize">> /\ p \in Goroutines
    BY GoroutineFacts
  <2>2. Begin(p, "migrate", NoFile) /\ RingSame /\ UNCHANGED <<view, data, call>>
        /\ task[p].pc = "idle"
    BY <1>2, <2>1 DEF Migrate, RingSame
  <2> QED BY <2>1, <2>2, FirstBegin
<1>3. ASSUME NEW n \in Users, StoreFile(n) PROVE FirstInv'
  <2>1. PICK p : p = <<n, "user">> /\ p \in Goroutines
    BY GoroutineFacts
  <2>2. Begin(p, "store", stores + 1) /\ RingSame /\ UNCHANGED <<view, data, call>>
        /\ task[p].pc = "idle"
    BY <1>3, <2>1 DEF StoreFile, RingSame
  <2> QED BY <2>1, <2>2, FirstBegin
<1>4. ASSUME NEW n \in Users, LookupFile(n) PROVE FirstInv'
  <2>1. PICK p : p = <<n, "user">> /\ p \in Goroutines
    BY GoroutineFacts
  <2>2. Begin(p, "get", NoFile) /\ RingSame /\ UNCHANGED <<view, data, call>>
        /\ task[p].pc = "idle"
    BY <1>4, <2>1 DEF LookupFile, RingSame
  <2> QED BY <2>1, <2>2, FirstBegin
<1>5. ASSUME NEW n \in Nodes, Stabilize(n) PROVE FirstInv'
  BY <1>2, <1>5, GoroutineFacts, FirstFind, FirstAsk, FirstRead, FirstAskGet, FirstSend,
     FirstRemoval DEF Stabilize, Lookup
<1>6. ASSUME NEW n \in Users, User(n) PROVE FirstInv'
  BY <1>3, <1>4, <1>6, GoroutineFacts, FirstFind, FirstAsk, FirstSend, FirstReturns, FirstGet
     DEF User, Lookup
<1>7. ASSUME NEW p \in Goroutines, ReqStoreFile(p) PROVE FirstInv'
  BY <1>7, FirstWrite
<1>8. CASE Settle
  BY <1>8 DEF Settle, FirstInv, FirstCopy, NeverChanged
<1>9. CASE UNCHANGED vars
  BY <1>9 DEF vars, FirstInv, FirstCopy, FirstTask, FirstCall, NeverChanged, First, FileKey
<1> QED BY <1>1, <1>5, <1>6, <1>7, <1>8, <1>9 DEF Next

-----------------------------------------------------------------------------
(***************************************************************************)
(* The theorems.                                                           *)
(***************************************************************************)

LEMMA FilesInvariant == Spec => [](FilesInv /\ FirstInv)
  BY FilesInit, FilesNext, FirstInit, FirstNext, PTL DEF Spec

\* Type correctness, for every ring, every number of users, keys, stores and
\* changes of the membership: in particular the copy that stabilize moves is
\* there until it removes it, so AskStoreFile never sends what is not there.
\* (What it sends may be a file that was created and not yet written.)
THEOREM FilesTypes == Spec => []TypeOK
<1>1. ASSUME FilesInv PROVE TypeOK
  <2>1. StateOK
    BY <1>1 DEF FilesInv, TypeInv
  <2>2. ASSUME NEW p \in Goroutines
        PROVE  call[p].to \in live \cup {NoNode} /\ call[p].out \in Contents
    BY <2>1 DEF StateOK, Calls
  <2>3. ASSUME NEW p \in Goroutines
        PROVE  /\ task[p].op \in {"idle", "migrate", "store", "get"}
               /\ task[p].pc \in PCs
               /\ task[p].dest \in Seq(Nodes) /\ Len(task[p].dest) <= 2 * Len(Powers)
               /\ task[p].correct \in BOOLEAN
               /\ task[p].out \in Contents
               /\ task[p].pc = "send" => task[p].out # NoFile
    <3>1. TaskOK(p, task[p])
      BY <1>1 DEF FilesInv, TypeInv
    <3>2. task[p].pc = "send" => task[p].out # NoFile
      BY <3>1, ContentFacts DEF TaskOK, Tasks
    <3> QED BY <3>1, <3>2 DEF TaskOK, Tasks, ListOK
  <2>4. view \subseteq Nodes
    BY <2>1 DEF StateOK
  <2> QED BY <2>1, <2>2, <2>3, <2>4 DEF StateOK, TypeOK, PCs
<1> QED BY <1>1, FilesInvariant, PTL

LEMMA AnchorsAre ==
    Anchors = UNION {AnchorsOf(i) : i \in DOMAIN Powers}
  BY DEF Anchors, AnchorsOf, Homes, Pair, Ever

\* A file whose StoreFile has returned is on every anchor, however many nodes
\* crash, panic or join and however the stabilize loops copy and remove it
\* under old and new pointers.
THEOREM FileIsKeptAtHome == Spec => []KeptAtHome
<1>1. FilesInv => KeptAtHome
  BY AnchorsAre DEF FilesInv, KeepInv, CopiesOK, KeptAtHome
<1> QED BY <1>1, FilesInvariant, PTL

\* A user who looks up a stored file gets it as long as there is an anchor: it
\* has the file and is among the hosts that the loop has still to ask, whatever
\* the two calls for each key saw of the ring.
THEOREM StoredFileIsFound == Spec => []StoredIsFound
<1>1. FilesInv => StoredIsFound
  BY AnchorsAre DEF FilesInv, KeepInv, CopiesOK, StoredIsFound
<1> QED BY <1>1, FilesInvariant, PTL

\* In a ring that has not changed the first home has the contents of the file
\* whenever no StoreFile is under way: no stabilize loop that has read a
\* half-written copy ever sends it there.
THEOREM FirstCopyIsWhole == Spec => []FirstCopyWhole
<1>1. ASSUME FilesInv, FirstInv PROVE FirstCopyWhole
  <2> SUFFICES ASSUME stored, live = Members, dead = {},
                      \A p \in Goroutines : task[p].op # "store"
               PROVE  data[Owner[live][FileKey(1)]] \in Versions
    BY DEF FirstCopyWhole
  <2>1. StateOK /\ NeverChanged
    BY <1>1 DEF FilesInv, TypeInv, NeverChanged
  <2>2. PICK f : f = First /\ f \in Nodes /\ f = Owner[live][FileKey(1)]
    BY <2>1, FirstIs DEF First
  <2>3. data[f] # NoFile
    BY <1>1, <2>1, <2>2, FirstIs DEF FilesInv, KeepInv, CopiesOK
  <2>4. data[f] # Empty
    BY <1>1, <2>1, <2>2 DEF FirstInv, FirstCopy, FirstCall
  <2>5. data[f] \in Contents
    BY <2>1, <2>2 DEF StateOK
  <2> QED BY <2>2, <2>3, <2>4, <2>5 DEF Contents
<1> QED BY <1>1, FilesInvariant, PTL
=============================================================================
