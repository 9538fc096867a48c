-------------------------- MODULE PorcupineProofs --------------------------
(***************************************************************************)
(* The linked list and the stack of checkSingle, for every history, every  *)
(* way in which the sort leaves ties and every width of the words of a     *)
(* bitset.                                                                 *)
(***************************************************************************)
EXTENDS Porcupine, FiniteSetTheorems, FunctionTheorems, WellFoundedInduction, TLAPS

-----------------------------------------------------------------------------
(***************************************************************************)
(* Entries come in pairs: operation i of n has one call entry and, behind  *)
(* it, one return entry.                                                   *)
(***************************************************************************)

Paired(es, n) ==
    /\ Len(es) \in Nat /\ n \in Nat
    /\ \A k \in 1 .. Len(es) : es[k].id \in 1 .. n /\ es[k].kind \in {"call", "return"}
    /\ \A k \in 1 .. Len(es) :
           es[k].kind = "call" =>
               \E m \in 1 .. Len(es) : es[m].kind = "return" /\ es[m].id = es[k].id /\ k < m
    /\ \A j, k \in 1 .. Len(es) : es[j].id = es[k].id /\ es[j].kind = es[k].kind => j = k

-----------------------------------------------------------------------------
(***************************************************************************)
(* The list l holds L: what the pointers of node k ought to be.            *)
(***************************************************************************)

IsNext(L, k, x) ==
    \/ x = Nil /\ \A j \in L : j <= k
    \/ x \in L /\ k < x /\ \A j \in L : j <= k \/ x <= j

IsPrev(L, k, x) == x \in L /\ x < k /\ \A j \in L : j <= x \/ k <= j

Linked(l, L) ==
    \A k \in L : IsNext(L, k, l.next[k]) /\ (k # 0 => IsPrev(L, k, l.prev[k]))

\* The pointers of a node that is out of the list and belongs into L.
Fits(l, L, k) == IsNext(L, k, l.next[k]) /\ IsPrev(L, k, l.prev[k])

\* Lifted entries keep the pointers they had when they were lifted, e from L and
\* then m from the rest.
Saved(l, L, e, m) == Fits(l, L, e) /\ Fits(l, L \ {e}, m)

\* The operations at the bottom of the stack, and the nodes left when they had
\* been lifted.
Lifted(es, calls, i) == {es[calls[j].entry].id : j \in 1 .. i}
Left(es, calls, i) == {0} \cup {k \in 1 .. Len(es) : es[k].id \notin Lifted(es, calls, i)}

Words(n) == n \div ChunkBits + (IF n % ChunkBits # 0 THEN 1 ELSE 0)
Bitsets(n) == [1 .. Words(n) -> SUBSET (0 .. ChunkBits - 1)]

StackInv(es, calls) ==
    /\ \E S : calls \in Seq(S)
    /\ \A i \in 1 .. Len(calls) :
           /\ calls[i].entry \in 1 .. Len(es) /\ es[calls[i].entry].kind = "call"
           /\ es[calls[i].entry].id \notin Lifted(es, calls, i - 1)

\* The variables of a goroutine.
Fields == {"pc", "list", "entry", "state", "linearized", "cache", "calls", "longest", "result"}

Pointers(l, N) == l.next \in [0 .. N -> Int] /\ l.prev \in [0 .. N -> Int]

ListInv(es, n, g) ==
    /\ DOMAIN g = Fields
    /\ Pointers(g.list, Len(es))
    /\ g.linearized \in Bitsets(n)
    /\ StackInv(es, g.calls)
    /\ Elements(g.linearized) = Lifted(es, g.calls, Len(g.calls))
    /\ Linked(g.list, Left(es, g.calls, Len(g.calls)))
    /\ \A i \in 1 .. Len(g.calls) :
           Saved(g.list, Left(es, g.calls, i - 1), g.calls[i].entry, match(es, g.calls[i].entry))
    /\ g.pc = "run" /\ g.list.next[0] # Nil =>
           g.entry \in Left(es, g.calls, Len(g.calls)) \ {0}

CheckInv ==
    /\ DOMAIN single = DOMAIN parts
    /\ \A p \in DOMAIN parts :
           Paired(entries[p], Len(parts[p])) /\ ListInv(entries[p], Len(parts[p]), single[p])

-----------------------------------------------------------------------------
(***************************************************************************)
(* The stack c and the state s that its operations lead to.                *)
(***************************************************************************)

\* The entries are in the order of time, and none is missing.
Ordered(es, part) ==
    /\ \A i \in 1 .. Len(part), kind \in {"call", "return"} :
           \E k \in 1 .. Len(es) : es[k].kind = kind /\ es[k].id = i
    /\ \A j, k \in 1 .. Len(es) :
           es[j].kind = "return" /\ es[k].kind = "call" =>
               (j < k <=> part[es[j].id].ret < part[es[k].id].call)

OpOf(es, part, e) == part[es[e].id]

\* The state in front of operation i of the stack, and at the end.
StateAt(c, s, i) == IF i <= Len(c) THEN c[i].state ELSE s

\* Every operation of the stack fits the state in front of it and leads to the
\* next one.
Replays(es, part, c, s) ==
    /\ StateAt(c, s, 1) = KvInit
    /\ \A i \in 1 .. Len(c) :
           /\ KvOk(StateAt(c, s, i), OpOf(es, part, c[i].entry))
           /\ StateAt(c, s, i + 1) = KvStep(StateAt(c, s, i), OpOf(es, part, c[i].entry))

\* In the list L, calls only are in front of e.
OnlyCalls(es, L, e) == \A k \in L : 0 < k /\ k < e => es[k].kind = "call"

\* The goroutine is in its loop.
Looks(g) == g.pc = "run" /\ g.list.next[0] # Nil

\* The search passed over calls only to come to the entries it has lifted, and
\* to the one where it is.
Passed(es, g) ==
    /\ \A i \in 1 .. Len(g.calls) : OnlyCalls(es, Left(es, g.calls, i - 1), g.calls[i].entry)
    /\ Looks(g) => OnlyCalls(es, Left(es, g.calls, Len(g.calls)), g.entry)

ReplayInv ==
    \A p \in DOMAIN parts :
        /\ Ordered(entries[p], parts[p])
        /\ \A i \in 1 .. Len(parts[p]) : parts[p][i].key = p
        /\ Replays(entries[p], parts[p], single[p].calls, single[p].state)
        /\ Passed(entries[p], single[p])

-----------------------------------------------------------------------------
(***************************************************************************)
(* Taking one node out of a list, and putting it back.                     *)
(***************************************************************************)

Unlinks(l, r, x) ==
    /\ r.next = [l.next EXCEPT ![l.prev[x]] = l.next[x]]
    /\ r.prev = Set(l.prev, l.next[x], l.prev[x])

Relinks(l, r, x) ==
    /\ r.next = [l.next EXCEPT ![l.prev[x]] = x]
    /\ r.prev = Set(l.prev, l.next[x], x)

\* l and r have the same pointers at k.
Same(l, r, k) == r.next[k] = l.next[k] /\ r.prev[k] = l.prev[k]

LEMMA Unlink ==
  ASSUME NEW N \in Nat, NEW L \in SUBSET (0 .. N), 0 \in L, NEW x \in L, x # 0,
         NEW l, NEW r, Pointers(l, N), Linked(l, L), Unlinks(l, r, x)
  PROVE  /\ Pointers(r, N) /\ Linked(r, L \ {x})
         /\ Same(l, r, x)
         /\ \A k \in 0 .. N : k \notin L => Same(l, r, k)
<1> DEFINE a == l.prev[x]
           b == l.next[x]
<1>0. x \in 1 .. N /\ Nil = -1 /\ \A j \in L : j \in 0 .. N /\ j \in Int /\ 0 <= j /\ j <= N
  BY DEF Nil
<1>1. IsNext(L, x, b) /\ IsPrev(L, x, a) /\ a \in L /\ a < x
  BY <1>0 DEF Linked, IsPrev
<1>2. b = Nil \/ (b \in L /\ x < b /\ b # 0)
  BY <1>0, <1>1 DEF IsNext
<1> HIDE DEF a, b
<1>3. /\ l.next \in [0 .. N -> Int] /\ l.prev \in [0 .. N -> Int]
      /\ a \in 0 .. N /\ a \in Int /\ b \in Int
  <2>1. l.next \in [0 .. N -> Int] /\ l.prev \in [0 .. N -> Int]
    BY DEF Pointers
  <2>2. a \in Int /\ a \in 0 .. N
    BY <1>0, <1>1
  <2>3. b \in Int
    BY <2>1, <1>0 DEF b
  <2> QED BY <2>1, <2>2, <2>3
<1>4. r.next = [l.next EXCEPT ![a] = b] /\ r.prev = Set(l.prev, b, a)
  BY DEF a, b, Unlinks
<1>5. /\ r.next[a] = b /\ \A k \in 0 .. N : k # a => r.next[k] = l.next[k]
      /\ r.next \in [0 .. N -> Int]
  BY <1>3, <1>4
<1>6. /\ b # Nil => r.prev[b] = a
      /\ \A k \in 0 .. N : k # b => r.prev[k] = l.prev[k]
      /\ r.prev \in [0 .. N -> Int]
  <2>1. CASE b = Nil
    BY <1>0, <1>3, <1>4, <2>1 DEF Set
  <2>2. CASE b # Nil
    <3>1. b \in 0 .. N
      BY <1>0, <1>2, <2>2
    <3>2. r.prev = [l.prev EXCEPT ![b] = a]
      BY <1>4, <2>2 DEF Set
    <3> QED BY <1>0, <1>3, <3>1, <3>2
  <2> QED BY <2>1, <2>2
<1>7. ASSUME NEW k \in L \ {x} PROVE IsNext(L \ {x}, k, r.next[k])
  <2>1. IsNext(L, k, l.next[k]) /\ k \in 0 .. N
    BY DEF Linked
  <2>2. CASE k = a
    <3>1. \A j \in L \ {x} : j <= a \/ x < j
      BY <1>0, <1>1 DEF IsPrev
    <3>2. CASE b = Nil
      <4>1. \A j \in L : j <= x
        BY <1>0, <1>1, <3>2 DEF IsNext
      <4>2. \A j \in L \ {x} : j <= a
        BY <1>0, <3>1, <4>1
      <4> QED BY <1>5, <2>2, <3>2, <4>2 DEF IsNext
    <3>3. CASE b # Nil
      <4>1. b \in L \ {x} /\ a < b /\ \A j \in L : j <= x \/ b <= j
        <5>1. b \in L /\ x < b /\ \A j \in L : j <= x \/ b <= j
          BY <1>1, <3>3 DEF IsNext
        <5> QED BY <1>0, <1>1, <5>1
      <4>2. \A j \in L \ {x} : j <= a \/ b <= j
        BY <1>0, <3>1, <4>1
      <4> QED BY <1>5, <2>2, <4>1, <4>2 DEF IsNext
    <3> QED BY <3>2, <3>3
  <2>3. CASE k # a
    <3>1. l.next[k] # x
      BY <1>0, <1>1, <2>1, <2>3 DEF IsNext, IsPrev
    <3> QED BY <1>0, <1>5, <2>1, <2>3, <3>1 DEF IsNext
  <2> QED BY <2>2, <2>3
<1>8. ASSUME NEW k \in L \ {x}, k # 0 PROVE IsPrev(L \ {x}, k, r.prev[k])
  <2>1. IsPrev(L, k, l.prev[k]) /\ k \in 0 .. N
    BY <1>8 DEF Linked
  <2>2. CASE k = b
    <3>1. b # Nil
      BY <1>0, <2>1, <2>2
    <3> QED BY <1>0, <1>1, <1>6, <2>2, <3>1 DEF IsNext, IsPrev
  <2>3. CASE k # b
    <3>1. l.prev[k] # x
      <4> SUFFICES ASSUME l.prev[k] = x PROVE FALSE
        OBVIOUS
      <4>1. x < k /\ \A j \in L : j <= x \/ k <= j
        BY <2>1 DEF IsPrev
      <4>2. b # Nil
        BY <1>0, <1>1, <4>1 DEF IsNext
      <4>3. b \in L /\ x < b /\ (k <= x \/ b <= k)
        BY <1>1, <4>2 DEF IsNext
      <4> QED BY <1>0, <2>3, <4>1, <4>3
    <3> QED BY <1>6, <2>1, <2>3, <3>1 DEF IsPrev
  <2> QED BY <2>2, <2>3
<1>9. Linked(r, L \ {x})
  BY <1>7, <1>8 DEF Linked
<1>10. Same(l, r, x)
  BY <1>0, <1>1, <1>2, <1>5, <1>6 DEF Same, a, b
<1>11. \A k \in 0 .. N : k \notin L => Same(l, r, k)
  BY <1>0, <1>1, <1>2, <1>5, <1>6 DEF Same
<1> QED BY <1>5, <1>6, <1>9, <1>10, <1>11 DEF Pointers

LEMMA Relink ==
  ASSUME NEW N \in Nat, NEW L \in SUBSET (0 .. N), 0 \in L, NEW x \in L, x # 0,
         NEW l, NEW r, Pointers(l, N), Linked(l, L \ {x}),
         Fits(l, L, x), Relinks(l, r, x)
  PROVE  /\ Pointers(r, N) /\ Linked(r, L)
         /\ \A k \in 0 .. N : k \notin L \ {x} => Same(l, r, k)
<1> DEFINE a == l.prev[x]
           b == l.next[x]
<1>0. x \in 1 .. N /\ Nil = -1 /\ \A j \in L : j \in 0 .. N /\ j \in Int /\ 0 <= j /\ j <= N
  BY DEF Nil
<1>1. IsNext(L, x, b) /\ IsPrev(L, x, a) /\ a \in L /\ a < x
  BY <1>0 DEF IsPrev, Fits
<1>2. b = Nil \/ (b \in L /\ x < b /\ b # 0)
  BY <1>0, <1>1 DEF IsNext
<1> HIDE DEF a, b
<1>3. /\ l.next \in [0 .. N -> Int] /\ l.prev \in [0 .. N -> Int]
      /\ a \in 0 .. N /\ a \in Int /\ b \in Int
  <2>1. l.next \in [0 .. N -> Int] /\ l.prev \in [0 .. N -> Int]
    BY DEF Pointers
  <2>2. a \in Int /\ a \in 0 .. N
    BY <1>0, <1>1
  <2>3. b \in Int
    BY <2>1, <1>0 DEF b
  <2> QED BY <2>1, <2>2, <2>3
<1>4. r.next = [l.next EXCEPT ![a] = x] /\ r.prev = Set(l.prev, b, x)
  BY DEF a, b, Relinks
<1>5. /\ r.next[a] = x /\ \A k \in 0 .. N : k # a => r.next[k] = l.next[k]
      /\ r.next \in [0 .. N -> Int]
  BY <1>0, <1>1, <1>3, <1>4
<1>6. /\ b # Nil => r.prev[b] = x
      /\ \A k \in 0 .. N : k # b => r.prev[k] = l.prev[k]
      /\ r.prev \in [0 .. N -> Int]
  <2>1. CASE b = Nil
    BY <1>0, <1>3, <1>4, <2>1 DEF Set
  <2>2. CASE b # Nil
    <3>1. b \in 0 .. N
      BY <1>0, <1>2, <2>2
    <3>2. r.prev = [l.prev EXCEPT ![b] = x]
      BY <1>4, <2>2 DEF Set
    <3> QED BY <1>0, <1>3, <3>1, <3>2
  <2> QED BY <2>1, <2>2
<1>7. r.next[x] = b /\ r.prev[x] = a
  BY <1>0, <1>1, <1>2, <1>5, <1>6 DEF a, b
<1>8. ASSUME NEW k \in L PROVE IsNext(L, k, r.next[k])
  <2>1. CASE k = x
    BY <1>0, <1>1, <1>7, <2>1
  <2>2. CASE k = a
    BY <1>0, <1>1, <1>5, <2>2 DEF IsNext, IsPrev
  <2>3. CASE k # a /\ k # x
    <3>1. IsNext(L \ {x}, k, l.next[k]) /\ k \in 0 .. N
      BY <2>3 DEF Linked
    <3>2. x <= k \/ (l.next[k] \in L /\ l.next[k] < x)
      <4>0. k \in Int /\ x \in Int /\ a \in Int
        BY <1>0, <1>1
      <4> SUFFICES ASSUME k < x PROVE l.next[k] \in L /\ l.next[k] < x
        BY <4>0
      <4>1. k < a
        BY <1>0, <1>1, <2>3 DEF IsPrev
      <4>2. a \in L \ {x}
        BY <1>0, <1>1
      <4>3. l.next[k] # Nil
        BY <1>0, <3>1, <4>1, <4>2 DEF IsNext
      <4>4. l.next[k] \in L /\ l.next[k] <= a
        BY <1>0, <3>1, <4>1, <4>2, <4>3 DEF IsNext
      <4>5. l.next[k] \in Int
        BY <1>0, <4>4
      <4> QED BY <1>1, <4>0, <4>4, <4>5
    <3> QED BY <1>0, <1>1, <1>5, <2>3, <3>1, <3>2 DEF IsNext
  <2> QED BY <2>1, <2>2, <2>3
<1>9. ASSUME NEW k \in L, k # 0 PROVE IsPrev(L, k, r.prev[k])
  <2>1. CASE k = x
    BY <1>0, <1>1, <1>7, <2>1
  <2>2. CASE k = b
    <3>1. b # Nil
      BY <1>0, <2>2
    <3> QED BY <1>0, <1>1, <1>6, <2>2, <3>1 DEF IsNext, IsPrev
  <2>3. CASE k # b /\ k # x
    <3>1. IsPrev(L \ {x}, k, l.prev[k]) /\ k \in 0 .. N
      BY <1>9, <2>3 DEF Linked
    <3>2. k <= x \/ x < l.prev[k]
      <4>0. k \in Int /\ x \in Int
        BY <1>0
      <4> SUFFICES ASSUME x < k PROVE x < l.prev[k]
        BY <4>0
      <4>1. b # Nil
        BY <1>0, <1>1 DEF IsNext
      <4>2. b \in L \ {x} /\ x < b /\ b < k
        <5>1. b \in L /\ x < b /\ (k <= x \/ b <= k)
          BY <1>1, <4>1 DEF IsNext
        <5> QED BY <1>0, <2>3, <5>1
      <4>3. b <= l.prev[k] /\ l.prev[k] \in L
        <5>1. l.prev[k] \in L /\ (b <= l.prev[k] \/ k <= b)
          BY <3>1, <4>2 DEF IsPrev
        <5> QED BY <1>0, <4>2, <5>1
      <4>4. l.prev[k] \in Int /\ b \in Int
        BY <1>0, <4>2, <4>3
      <4> QED BY <4>0, <4>2, <4>3, <4>4
    <3> QED BY <1>0, <1>1, <1>6, <2>3, <3>1, <3>2 DEF IsPrev
  <2> QED BY <2>1, <2>2, <2>3
<1>10. Linked(r, L)
  BY <1>8, <1>9 DEF Linked
<1>11. \A k \in 0 .. N : k \notin L \ {x} => Same(l, r, k)
  <2>1. a # x /\ b # x
    BY <1>0, <1>1, <1>2
  <2>2. \A k \in 0 .. N : k \notin L \ {x} => k # a /\ k # b
    BY <1>0, <1>1, <1>2, <2>1
  <2> QED BY <1>5, <1>6, <2>2 DEF Same
<1> QED BY <1>5, <1>6, <1>10, <1>11 DEF Pointers

LEMMA BeforeAnother ==
  ASSUME NEW N \in Nat, NEW L \in SUBSET (0 .. N), NEW e \in L, NEW m \in L, e < m,
         NEW x, IsNext(L, e, x)
  PROVE  x # Nil /\ x \in L \ {0}
<1>1. e \in Int /\ m \in Int /\ e >= 0 /\ Nil = -1 /\ Nil \notin L
  BY DEF Nil
<1>2. ~(m <= e)
  BY <1>1
<1>3. x \in L /\ e < x
  BY <1>2 DEF IsNext
<1> QED BY <1>1, <1>3

\* lift takes a call entry and its return out.
LEMMA LiftIs ==
  ASSUME NEW N \in Nat, NEW L \in SUBSET (0 .. N), 0 \in L, NEW e \in L, NEW m \in L,
         e # 0, e < m, NEW l, Pointers(l, N), Linked(l, L), NEW r, r = lift(l, e, m)
  PROVE  /\ Pointers(r, N) /\ Linked(r, L \ {e, m}) /\ Saved(r, L, e, m)
         /\ \A k \in 0 .. N : k \notin L => Same(l, r, k)
<1>0. e \in 0 .. N /\ m \in 0 .. N /\ e \in Int /\ m \in Int /\ m # 0 /\ m # e
  OBVIOUS
<1>1. IsNext(L, e, l.next[e]) /\ IsPrev(L, e, l.prev[e]) /\ l.next[e] # Nil
  <2>1. IsNext(L, e, l.next[e]) /\ IsPrev(L, e, l.prev[e])
    BY DEF Linked
  <2> QED BY <2>1, BeforeAnother
<1>2. PICK r1 : r1 = [next |-> [l.next EXCEPT ![l.prev[e]] = l.next[e]],
                      prev |-> [l.prev EXCEPT ![l.next[e]] = l.prev[e]]]
  OBVIOUS
<1>3. /\ r1.next = [l.next EXCEPT ![l.prev[e]] = l.next[e]]
      /\ r1.prev = [l.prev EXCEPT ![l.next[e]] = l.prev[e]]
      /\ Unlinks(l, r1, e)
  BY <1>1, <1>2 DEF Unlinks, Set
<1>4. /\ Pointers(r1, N) /\ Linked(r1, L \ {e})
      /\ Same(l, r1, e)
      /\ \A k \in 0 .. N : k \notin L => Same(l, r1, k)
  BY <1>3, Unlink
<1>5. Unlinks(r1, r, m)
  BY <1>3 DEF Unlinks, lift
<1>6. PICK M : M = L \ {e}
  OBVIOUS
<1>7. M \in SUBSET (0 .. N) /\ 0 \in M /\ m \in M /\ Linked(r1, M)
  BY <1>0, <1>4, <1>6
<1>8. /\ Pointers(r, N) /\ Linked(r, M \ {m})
      /\ Same(r1, r, m)
      /\ \A k \in 0 .. N : k \notin M => Same(r1, r, k)
  BY <1>0, <1>4, <1>5, <1>7, Unlink
<1>9. Fits(r, M, m)
  BY <1>0, <1>7, <1>8 DEF Linked, Fits, Same
<1>10. Same(l, r, e)
  BY <1>0, <1>4, <1>6, <1>8 DEF Same
<1>11. M \ {m} = L \ {e, m}
  BY <1>6
<1>12. Saved(r, L, e, m)
  BY <1>1, <1>6, <1>9, <1>10 DEF Saved, Fits, Same
<1> QED BY <1>4, <1>6, <1>8, <1>11, <1>12 DEF Same

\* unlift undoes it, in the reverse order.
LEMMA UnliftIs ==
  ASSUME NEW N \in Nat, NEW L \in SUBSET (0 .. N), 0 \in L, NEW e \in L, NEW m \in L,
         e # 0, e < m, NEW l, Pointers(l, N), Linked(l, L \ {e, m}), Saved(l, L, e, m),
         NEW r, r = unlift(l, e, m)
  PROVE  /\ Pointers(r, N) /\ Linked(r, L) /\ r.next[e] # Nil
         /\ \A k \in 0 .. N : k \notin L => Same(l, r, k)
<1>0. e \in 0 .. N /\ m \in 0 .. N /\ e \in Int /\ m \in Int /\ m # 0 /\ m # e
  OBVIOUS
<1>1. PICK r1 : r1 = [next |-> [l.next EXCEPT ![l.prev[m]] = m], prev |-> Set(l.prev, l.next[m], m)]
  OBVIOUS
<1>2. Relinks(l, r1, m)
  BY <1>1 DEF Relinks
<1>3. PICK M : M = L \ {e}
  OBVIOUS
<1>4. /\ M \in SUBSET (0 .. N) /\ 0 \in M /\ m \in M /\ Linked(l, M \ {m})
      /\ Fits(l, M, m)
  <2>1. M \ {m} = L \ {e, m}
    BY <1>3
  <2> QED BY <1>0, <1>3, <2>1 DEF Saved
<1>5. /\ Pointers(r1, N) /\ Linked(r1, M)
      /\ \A k \in 0 .. N : k \notin M \ {m} => Same(l, r1, k)
  BY <1>0, <1>2, <1>4, Relink
<1>6. Same(l, r1, e)
  BY <1>0, <1>3, <1>5
<1>7. Relinks(r1, r, e)
  BY <1>2 DEF Relinks, unlift
<1>8. /\ Pointers(r, N) /\ Linked(r, L)
      /\ \A k \in 0 .. N : k \notin L \ {e} => Same(r1, r, k)
  <2>1. Linked(r1, L \ {e}) /\ Fits(r1, L, e)
    BY <1>3, <1>5, <1>6 DEF Saved, Fits, Same
  <2> QED BY <1>5, <1>7, <2>1, Relink
<1>9. r.next[e] # Nil
  BY <1>8, BeforeAnother DEF Linked
<1> QED BY <1>3, <1>5, <1>8, <1>9 DEF Same

-----------------------------------------------------------------------------
(***************************************************************************)
(* Bitsets                                                                 *)
(***************************************************************************)

LEMMA Divides ==
  ASSUME NEW a \in Nat, NEW c \in Nat \ {0}
  PROVE  \E q \in Nat, r \in 0 .. (c - 1) : a = q * c + r /\ q = a \div c /\ r = a % c
<1>1. PICK q \in Int, r \in 0 .. (c - 1) : a = q * c + r /\ q = a \div c /\ r = a % c
  OBVIOUS
<1>2. q \in Nat
  <2>1. SUFFICES ASSUME q < 0 PROVE FALSE
    OBVIOUS
  <2>2. PICK b \in Nat : q = -1 - b
    BY <2>1, -1 - q \in Nat
  <2>3. q * c = -c - b * c /\ b * c \in Nat
    BY <2>2
  <2> QED BY <1>1, <2>3
<1> QED BY <1>1, <1>2, Zenon

LEMMA MoreWords ==
  ASSUME NEW c \in Nat \ {0}, NEW v \in Nat, NEW w \in Nat, v < w
  PROVE  v * c + c <= w * c
<1>1. PICK d \in Nat : w = v + 1 + d
  BY w - v - 1 \in Nat
<1>2. w * c = v * c + c + d * c /\ d * c \in Nat /\ v * c \in Nat
  BY <1>1
<1> QED BY <1>2

LEMMA OneWord ==
  ASSUME NEW c \in Nat \ {0}, NEW v \in Nat, NEW w \in Nat, NEW i \in 0 .. (c - 1), NEW j \in 0 .. (c - 1),
         v * c + i = w * c + j
  PROVE  v = w /\ i = j
<1>0. v * c \in Nat /\ w * c \in Nat
  OBVIOUS
<1>1. ~(v < w)
  BY <1>0, MoreWords
<1>2. ~(w < v)
  BY <1>0, MoreWords
<1> QED BY <1>1, <1>2

\* The word and the bit of operation id.
At(n, id, w, i) ==
    /\ w \in 1 .. Words(n) /\ i \in 0 .. (ChunkBits - 1)
    /\ bitsetIndex(id)[1] = w /\ bitsetIndex(id)[2] = i
    /\ id = (w - 1) * ChunkBits + i + 1

LEMMA WordsAre ==
  ASSUME NEW n \in Nat
  PROVE  Words(n) \in Nat
<1>1. PICK Q \in Nat, R \in 0 .. (ChunkBits - 1) :
          n = Q * ChunkBits + R /\ Q = n \div ChunkBits /\ R = n % ChunkBits
  BY HistoriesAssumption, Divides
<1>2. n \div ChunkBits \in Nat
  BY <1>1, Zenon
<1> QED BY <1>2 DEF Words

LEMMA IndexIs ==
  ASSUME NEW n \in Nat, NEW id \in 1 .. n
  PROVE  \E w, i : At(n, id, w, i)
<1> DEFINE c == ChunkBits
<1>0. c \in Nat \ {0}
  BY HistoriesAssumption
<1> HIDE DEF c
<1>1. id - 1 \in Nat
  OBVIOUS
<1>2. PICK q \in Nat, r \in 0 .. (c - 1) : id - 1 = q * c + r /\ q = (id - 1) \div c /\ r = (id - 1) % c
  BY <1>0, <1>1, Divides
<1>3. PICK Q \in Nat, R \in 0 .. (c - 1) : n = Q * c + R /\ Q = n \div c /\ R = n % c
  BY <1>0, Divides
<1>4. bitsetIndex(id)[1] = q + 1 /\ bitsetIndex(id)[2] = r
  <2>1. bitsetIndex(id) = <<q + 1, r>>
    BY <1>2, Zenon DEF bitsetIndex, c
  <2> QED BY <2>1
<1>5. Words(n) = Q + (IF R # 0 THEN 1 ELSE 0)
  BY <1>3, Zenon DEF Words, c
<1>6. q * c \in Nat /\ Q * c \in Nat
  BY <1>0
<1>7. q <= Q
  <2>1. SUFFICES ASSUME Q < q PROVE FALSE
    OBVIOUS
  <2>2. Q * c + c <= q * c
    BY <1>0, <2>1, MoreWords
  <2>3. id - 1 = q * c + r /\ n = Q * c + R
    BY <1>2, <1>3
  <2> QED BY <1>0, <1>6, <2>2, <2>3
<1>8. q = Q => R # 0
  <2>1. SUFFICES ASSUME q = Q, R = 0 PROVE FALSE
    OBVIOUS
  <2>2. id - 1 = q * c + r /\ n = q * c + R
    BY <1>2, <1>3, <2>1
  <2> QED BY <1>6, <2>1, <2>2
<1>9. q + 1 \in 1 .. Words(n)
  BY <1>5, <1>7, <1>8
<1>10. id = q * c + r + 1
  <2>1. id - 1 = q * c + r
    BY <1>2
  <2> QED BY <1>6, <2>1
<1>11. id = ((q + 1) - 1) * c + r + 1
  <2>1. (q + 1) - 1 = q
    OBVIOUS
  <2> QED BY <1>10, <2>1, Zenon
<1>12. At(n, id, q + 1, r)
  BY <1>4, <1>9, <1>11 DEF At, c
<1> QED BY <1>12

LEMMA ElementsAre ==
  ASSUME NEW n \in Nat, NEW b \in Bitsets(n)
  PROVE  \A x : x \in Elements(b) <=>
                    \E v \in 1 .. Words(n) : \E j \in b[v] : x = (v - 1) * ChunkBits + j + 1
<1>1. DOMAIN b = 1 .. Words(n)
  BY DEF Bitsets
<1> QED BY <1>1 DEF Elements

LEMMA NewIs ==
  ASSUME NEW n \in Nat
  PROVE  newBitset(n) \in Bitsets(n) /\ Elements(newBitset(n)) = {}
<1>1. newBitset(n) = [w \in 1 .. Words(n) |-> {}]
  BY DEF newBitset, Words
<1>2. newBitset(n) \in Bitsets(n) /\ \A w \in 1 .. Words(n) : newBitset(n)[w] = {}
  BY <1>1 DEF Bitsets
<1>3. \A x : x \notin Elements(newBitset(n))
  BY <1>2, ElementsAre
<1> QED BY <1>2, <1>3

LEMMA SetIs ==
  ASSUME NEW n \in Nat, NEW b \in Bitsets(n), NEW id \in 1 .. n
  PROVE  set(b, id) \in Bitsets(n) /\ Elements(set(b, id)) = Elements(b) \cup {id}
<1>1. PICK w, i : At(n, id, w, i)
  BY IndexIs
<1>2. PICK r : r = set(b, id)
  OBVIOUS
<1>3. r = [b EXCEPT ![w] = b[w] \cup {i}]
  BY <1>1, <1>2 DEF At, set
<1>4. r \in Bitsets(n) /\ r[w] = b[w] \cup {i} /\ \A v \in 1 .. Words(n) : v # w => r[v] = b[v]
  BY <1>1, <1>3 DEF At, Bitsets
<1>5. ASSUME NEW x PROVE x \in Elements(r) <=> x \in Elements(b) \/ x = id
  <2>1. ASSUME x \in Elements(r) PROVE x \in Elements(b) \/ x = id
    <3>1. PICK v \in 1 .. Words(n) : \E j \in r[v] : x = (v - 1) * ChunkBits + j + 1
      BY <1>4, <2>1, ElementsAre
    <3>2. PICK j \in r[v] : x = (v - 1) * ChunkBits + j + 1
      BY <3>1
    <3>3. CASE j \in b[v]
      BY <3>2, <3>3, ElementsAre
    <3>4. CASE j \notin b[v]
      <4>1. v = w /\ j = i
        BY <1>4, <3>4
      <4> QED BY <1>1, <3>2, <4>1, Zenon DEF At
    <3> QED BY <3>3, <3>4
  <2>2. ASSUME x \in Elements(b) PROVE x \in Elements(r)
    <3>1. PICK v \in 1 .. Words(n) : \E j \in b[v] : x = (v - 1) * ChunkBits + j + 1
      BY <2>2, ElementsAre
    <3>2. b[v] \subseteq r[v]
      BY <1>4
    <3> QED BY <1>4, <3>1, <3>2, ElementsAre
  <2>3. id \in Elements(r)
    <3>1. w \in 1 .. Words(n) /\ i \in r[w] /\ id = (w - 1) * ChunkBits + i + 1
      BY <1>1, <1>4 DEF At
    <3> QED BY <1>4, <3>1, ElementsAre
  <2> QED BY <2>1, <2>2, <2>3
<1>6. Elements(r) = Elements(b) \cup {id}
  BY <1>5
<1> QED BY <1>2, <1>4, <1>6

LEMMA ClearIs ==
  ASSUME NEW n \in Nat, NEW b \in Bitsets(n), NEW id \in 1 .. n
  PROVE  clear(b, id) \in Bitsets(n) /\ Elements(clear(b, id)) = Elements(b) \ {id}
<1>1. PICK w, i : At(n, id, w, i)
  BY IndexIs
<1>2. PICK r : r = clear(b, id)
  OBVIOUS
<1>3. r = [b EXCEPT ![w] = b[w] \ {i}]
  BY <1>1, <1>2 DEF At, clear
<1>4. r \in Bitsets(n) /\ r[w] = b[w] \ {i} /\ \A v \in 1 .. Words(n) : v # w => r[v] = b[v]
  BY <1>1, <1>3 DEF At, Bitsets
<1>5. ASSUME NEW x PROVE x \in Elements(r) <=> x \in Elements(b) /\ x # id
  <2>1. ASSUME x \in Elements(r) PROVE x \in Elements(b) /\ x # id
    <3>1. PICK v \in 1 .. Words(n) : \E j \in r[v] : x = (v - 1) * ChunkBits + j + 1
      BY <1>4, <2>1, ElementsAre
    <3>2. PICK j \in r[v] : x = (v - 1) * ChunkBits + j + 1
      BY <3>1
    <3>3. j \in b[v] /\ (v = w => j # i)
      BY <1>4
    <3>4. x \in Elements(b)
      BY <3>2, <3>3, ElementsAre
    <3>5. ASSUME x = id PROVE FALSE
      <4>1. (v - 1) * ChunkBits + j + 1 = (w - 1) * ChunkBits + i + 1
        BY <1>1, <3>2, <3>5, Zenon DEF At
      <4>2. /\ v - 1 \in Nat /\ w - 1 \in Nat /\ j \in 0 .. (ChunkBits - 1) /\ i \in 0 .. (ChunkBits - 1)
            /\ ChunkBits \in Nat \ {0}
        <5>1. v - 1 \in Nat
          BY WordsAre
        <5>2. w - 1 \in Nat
          BY <1>1, WordsAre DEF At
        <5>3. j \in 0 .. (ChunkBits - 1)
          BY <3>3 DEF Bitsets
        <5> QED BY <1>1, <5>1, <5>2, <5>3, HistoriesAssumption DEF At
      <4>3. (v - 1) * ChunkBits \in Nat /\ (w - 1) * ChunkBits \in Nat
        BY <4>2
      <4>4. (v - 1) * ChunkBits + j = (w - 1) * ChunkBits + i
        <5>1. PICK s \in Nat, t \in Nat : s = (v - 1) * ChunkBits /\ t = (w - 1) * ChunkBits
          BY <4>3
        <5>2. s + j + 1 = t + i + 1
          BY <4>1, <5>1, Zenon
        <5>3. s + j = t + i
          BY <4>2, <5>2
        <5> QED BY <5>1, <5>3, Zenon
      <4>5. v - 1 = w - 1 /\ i = j
        BY <4>2, <4>4, OneWord
      <4>6. v = w
        BY <1>1, <4>5, WordsAre DEF At
      <4> QED BY <3>3, <4>5, <4>6
    <3> QED BY <3>4, <3>5
  <2>2. ASSUME x \in Elements(b), x # id PROVE x \in Elements(r)
    <3>1. PICK v \in 1 .. Words(n) : \E j \in b[v] : x = (v - 1) * ChunkBits + j + 1
      BY <2>2, ElementsAre
    <3>2. PICK j \in b[v] : x = (v - 1) * ChunkBits + j + 1
      BY <3>1
    <3>3. ~(v = w /\ j = i)
      BY <1>1, <2>2, <3>2, Zenon DEF At
    <3>4. j \in r[v]
      BY <1>4, <3>3
    <3> QED BY <1>4, <3>2, <3>4, ElementsAre
  <2> QED BY <2>1, <2>2
<1>6. Elements(r) = Elements(b) \ {id}
  BY <1>5
<1> QED BY <1>2, <1>4, <1>6

-----------------------------------------------------------------------------
(***************************************************************************)
(* The entries left as the stack grows and shrinks.                        *)
(***************************************************************************)

LEMMA MatchIs ==
  ASSUME NEW es, NEW n, Paired(es, n), NEW e \in 1 .. Len(es), es[e].kind = "call",
         NEW m, m = match(es, e)
  PROVE  /\ m \in 1 .. Len(es) /\ es[m].id = es[e].id /\ e < m
         /\ \A k \in 1 .. Len(es) : es[k].id = es[e].id => k = e \/ k = m
<1>1. \E k \in 1 .. Len(es) : es[k].kind = "return" /\ es[k].id = es[e].id /\ e < k
  BY DEF Paired
<1>2. m \in 1 .. Len(es) /\ es[m].kind = "return" /\ es[m].id = es[e].id
  BY <1>1 DEF match
<1>3. \A k \in 1 .. Len(es) : es[k].kind = "return" /\ es[k].id = es[e].id => k = m
  BY <1>2 DEF Paired
<1>4. e < m
  BY <1>1, <1>3
<1>5. \A k \in 1 .. Len(es) : es[k].id = es[e].id => k = e \/ k = m
  BY <1>3 DEF Paired
<1> QED BY <1>2, <1>4, <1>5

LEMMA LeftIs ==
  ASSUME NEW es, Len(es) \in Nat, NEW calls, NEW i
  PROVE  Left(es, calls, i) \in SUBSET (0 .. Len(es)) /\ 0 \in Left(es, calls, i)
BY DEF Left

\* Only the lower part of the stack matters.
LEMMA LeftSame ==
  ASSUME NEW es, NEW c, NEW d, NEW i \in Nat, \A j \in 1 .. i : c[j] = d[j]
  PROVE  Lifted(es, c, i) = Lifted(es, d, i) /\ Left(es, c, i) = Left(es, d, i)
<1>1. Lifted(es, c, i) = Lifted(es, d, i)
  BY DEF Lifted
<1> QED BY <1>1 DEF Left

EntryAt(c, i, e) == e = c[i].entry

\* What operation s on the stack, that of entry e, takes away.
Shrinks(es, c, i, s, e, m) ==
    /\ Lifted(es, c, s) = Lifted(es, c, i) \cup {es[e].id}
    /\ Left(es, c, s) = Left(es, c, i) \ {e, m}

LEMMA LeftMore ==
  ASSUME NEW es, NEW n, Paired(es, n), NEW c, NEW i \in Nat, NEW s, s = i + 1,
         NEW e \in 1 .. Len(es), EntryAt(c, s, e), es[e].kind = "call", NEW m, m = match(es, e)
  PROVE  Shrinks(es, c, i, s, e, m)
<1>1. 1 .. s = (1 .. i) \cup {s}
  OBVIOUS
<1>2. Lifted(es, c, s) = Lifted(es, c, i) \cup {es[e].id}
  BY <1>1 DEF Lifted, EntryAt
<1>3. /\ m \in 1 .. Len(es) /\ es[m].id = es[e].id
      /\ \A k \in 1 .. Len(es) : es[k].id = es[e].id => k = e \/ k = m
  BY MatchIs
<1>4. 0 # e /\ 0 # m
  <2>1. Len(es) \in Nat
    BY DEF Paired
  <2>2. m \in 1 .. Len(es)
    BY <1>3
  <2>3. \A x \in 1 .. Len(es) : 0 # x
    BY <2>1
  <2> QED BY <2>2, <2>3, Zenon
<1>5. \A k \in 1 .. Len(es) : es[k].id \notin Lifted(es, c, s)
                                <=> es[k].id \notin Lifted(es, c, i) /\ k # e /\ k # m
  BY <1>2, <1>3
<1> QED BY <1>2, <1>4, <1>5 DEF Left, Shrinks

\* What has been lifted is out of the list for good, until the stack shrinks.
LEMMA LiftedAreOut ==
  ASSUME NEW es, NEW n, Paired(es, n), NEW calls, StackInv(es, calls),
         NEW j \in Nat, NEW i \in 1 .. j, j <= Len(calls)
  PROVE  /\ calls[i].entry \in 0 .. Len(es) /\ match(es, calls[i].entry) \in 0 .. Len(es)
         /\ calls[i].entry \notin Left(es, calls, j)
         /\ match(es, calls[i].entry) \notin Left(es, calls, j)
<1>1. PICK e, m : e = calls[i].entry /\ m = match(es, e)
  OBVIOUS
<1>2. Len(calls) \in Nat
  BY DEF StackInv
<1>3. e \in 1 .. Len(es) /\ es[e].kind = "call"
  BY <1>1, <1>2 DEF StackInv
<1>4. m \in 1 .. Len(es) /\ es[m].id = es[e].id
  BY <1>1, <1>3, MatchIs
<1>5. es[e].id \in Lifted(es, calls, j)
  BY <1>1 DEF Lifted
<1>6. Len(es) \in Nat
  BY DEF Paired
<1>7. e # 0 /\ m # 0 /\ e \in 0 .. Len(es) /\ m \in 0 .. Len(es)
  BY <1>3, <1>4, <1>6
<1> QED BY <1>1, <1>4, <1>5, <1>7 DEF Left

\* A call in the list has its return there.
LEMMA BothLeft ==
  ASSUME NEW es, NEW n, Paired(es, n), NEW calls, NEW i, NEW e \in 1 .. Len(es),
         es[e].kind = "call", es[e].id \notin Lifted(es, calls, i), NEW m, m = match(es, e)
  PROVE  e \in Left(es, calls, i) /\ m \in Left(es, calls, i) /\ e # 0 /\ e < m
<1>1. m \in 1 .. Len(es) /\ es[m].id = es[e].id /\ e < m
  BY MatchIs
<1>2. e # 0
  BY DEF Paired
<1> QED BY <1>1, <1>2 DEF Left

LEMMA SavedKept ==
  ASSUME NEW l, NEW r, NEW L, NEW e, NEW m, Saved(l, L, e, m), Same(l, r, e), Same(l, r, m)
  PROVE  Saved(r, L, e, m)
BY DEF Saved, Fits, Same

-----------------------------------------------------------------------------
(***************************************************************************)
(* The steps of checkSingle.                                               *)
(***************************************************************************)

Lifts(es, g, r) ==
    /\ DOMAIN r = Fields /\ r.pc = g.pc
    /\ r.list = lift(g.list, g.entry, match(es, g.entry))
    /\ r.entry = r.list.next[0]
    /\ r.linearized = set(g.linearized, es[g.entry].id)
    /\ r.calls = Append(g.calls, [entry |-> g.entry, state |-> g.state])
    /\ r.cache = g.cache \cup {<<r.linearized, r.state>>}
    /\ r.result = g.result /\ r.longest = g.longest

\* The operation o fits the state and is applied to it.
Applies(o, g, r) == KvOk(g.state, o) /\ r.state = KvStep(g.state, o)

Skips(g, r) ==
    /\ DOMAIN r = Fields /\ r.pc = g.pc /\ r.list = g.list
    /\ r.entry = g.list.next[g.entry]
    /\ r.linearized = g.linearized /\ r.calls = g.calls /\ r.state = g.state
    /\ r.cache = g.cache /\ r.result = g.result /\ r.longest = g.longest

Unlifts(es, g, r) ==
    LET e == g.calls[Len(g.calls)].entry IN
    /\ DOMAIN r = Fields /\ r.pc = g.pc
    /\ r.list = unlift(g.list, e, match(es, e))
    /\ r.entry = r.list.next[e]
    /\ r.linearized = clear(g.linearized, es[e].id)
    /\ r.calls = SubSeq(g.calls, 1, Len(g.calls) - 1)
    /\ r.state = g.calls[Len(g.calls)].state
    /\ r.cache = g.cache /\ r.result = g.result

\* The operations on the stack.
IdsOn(es, c) == [i \in 1 .. Len(c) |-> es[c[i].entry].id]

\* The stack is recorded, if f says so.
Records(es, g, r, f) ==
    r.longest = IF f THEN Longer(g.longest, IdsOn(es, g.calls)) ELSE g.longest

Stops(g, r) ==
    /\ DOMAIN r = Fields /\ r.pc # "run" /\ r.list = g.list
    /\ r.linearized = g.linearized /\ r.calls = g.calls /\ r.state = g.state
    /\ r.cache = g.cache

AtCallEntry(es, g) == es[g.entry].kind = "call"

\* The operation o does not fit the state, or leads to what is in the cache.
Rejects(o, id, g) ==
    KvOk(g.state, o) => <<set(g.linearized, id), KvStep(g.state, o)>> \in g.cache

\* The loop is left, or the result sent; k is the flag kill.
Ends(es, g, r, k) ==
    /\ Stops(g, r)
    /\ \/ /\ g.pc = "run" /\ r.pc = "returned" /\ r.result = g.result /\ r.longest = g.longest
          /\ k \/ (Looks(g) /\ ~AtCallEntry(es, g) /\ g.calls = <<>>)
       \/ /\ g.pc = "run" /\ r.pc = "returned" /\ r.result = TRUE /\ g.list.next[0] = Nil
          /\ r.longest = [i \in DOMAIN g.longest |-> IdsOn(es, g.calls)]
       \/ g.pc = "returned" /\ r.pc = "sent" /\ r.result = g.result /\ r.longest = g.longest

Steps(es, part, g, r, k, f) ==
    \/ /\ Looks(g) /\ AtCallEntry(es, g)
       /\ Lifts(es, g, r) /\ Applies(OpOf(es, part, g.entry), g, r)
    \/ /\ Looks(g) /\ AtCallEntry(es, g)
       /\ Skips(g, r) /\ Rejects(OpOf(es, part, g.entry), es[g.entry].id, g)
    \/ /\ Looks(g) /\ ~AtCallEntry(es, g) /\ g.calls # <<>>
       /\ Unlifts(es, g, r) /\ Records(es, g, r, f)
    \/ Ends(es, g, r, k)

LEMMA StopsKeeps ==
  ASSUME NEW es, NEW n, NEW g, NEW r, ListInv(es, n, g), Stops(g, r)
  PROVE  ListInv(es, n, r)
BY DEF ListInv, Stops

LEMMA SkipKeeps ==
  ASSUME NEW es, NEW n, NEW g, NEW r, Paired(es, n), ListInv(es, n, g),
         Looks(g), AtCallEntry(es, g), Skips(g, r)
  PROVE  ListInv(es, n, r)
<1>1. PICK calls, L, e, m, l : /\ calls = g.calls /\ L = Left(es, calls, Len(calls)) /\ e = g.entry
                               /\ m = match(es, e) /\ l = g.list
  OBVIOUS
<1>2. L \in SUBSET (0 .. Len(es)) /\ 0 \in L /\ Len(es) \in Nat
  BY <1>1, LeftIs DEF Paired
<1>3. e \in L \ {0} /\ Linked(l, L)
  BY <1>1 DEF ListInv, Looks
<1>4. e \in 1 .. Len(es) /\ es[e].kind = "call" /\ es[e].id \notin Lifted(es, calls, Len(calls))
  BY <1>1, <1>2, <1>3 DEF AtCallEntry, Left
<1>5. m \in L /\ e < m
  BY <1>1, <1>4, BothLeft
<1>6. IsNext(L, e, l.next[e])
  BY <1>3 DEF Linked
<1>7. l.next[e] \in L \ {0}
  BY <1>2, <1>3, <1>5, <1>6, BeforeAnother
<1> QED BY <1>1, <1>7 DEF ListInv, Skips

LEMMA LiftKeeps ==
  ASSUME NEW es, NEW n, NEW g, NEW r, Paired(es, n), ListInv(es, n, g),
         Looks(g), AtCallEntry(es, g), Lifts(es, g, r)
  PROVE  ListInv(es, n, r)
<1>1. PICK c, d, N, L, e, m, l, k : /\ c = g.calls /\ d = r.calls /\ N = Len(c) /\ L = Left(es, c, N)
                                    /\ e = g.entry /\ m = match(es, e) /\ l = g.list /\ k = r.list
  OBVIOUS
<1>2. L \in SUBSET (0 .. Len(es)) /\ 0 \in L /\ Len(es) \in Nat
  BY <1>1, LeftIs DEF Paired
<1>3. e \in L \ {0} /\ Linked(l, L) /\ Pointers(l, Len(es))
  BY <1>1 DEF ListInv, Looks
<1>4. e \in 1 .. Len(es) /\ es[e].kind = "call" /\ es[e].id \notin Lifted(es, c, N)
  BY <1>1, <1>2, <1>3 DEF AtCallEntry, Left
<1>5. m \in L /\ e < m
  BY <1>1, <1>4, BothLeft
<1>6. /\ Pointers(k, Len(es)) /\ Linked(k, L \ {e, m}) /\ Saved(k, L, e, m)
      /\ \A j \in 0 .. Len(es) : j \notin L => Same(l, k, j)
  <2>1. k = lift(l, e, m)
    BY <1>1 DEF Lifts
  <2> QED BY <1>2, <1>3, <1>5, <2>1, LiftIs
<1>7. StackInv(es, c) /\ N \in Nat /\ N <= Len(c)
  BY <1>1 DEF ListInv, StackInv
<1>8. /\ \E S : d \in Seq(S)
      /\ Len(d) = N + 1 /\ d[N + 1].entry = e /\ \A j \in 1 .. N : d[j] = c[j]
  <2>1. PICK S : c \in Seq(S)
    BY <1>7 DEF StackInv
  <2>2. PICK x : x = [entry |-> g.entry, state |-> g.state]
    OBVIOUS
  <2>3. x.entry = e /\ d = Append(c, x)
    BY <1>1, <2>2 DEF Lifts
  <2>4. c \in Seq(S \cup {x})
    BY <2>1
  <2>5. d \in Seq(S \cup {x}) /\ Len(d) = N + 1 /\ d[N + 1] = x /\ \A j \in 1 .. N : d[j] = c[j]
    BY <1>1, <2>3, <2>4
  <2> QED BY <2>3, <2>5
<1>9. /\ Lifted(es, d, N + 1) = Lifted(es, c, N) \cup {es[e].id}
      /\ Left(es, d, N + 1) = L \ {e, m}
  <2>1. Lifted(es, d, N) = Lifted(es, c, N) /\ Left(es, d, N) = Left(es, c, N)
    BY <1>7, <1>8, LeftSame
  <2>2. EntryAt(d, N + 1, e)
    BY <1>8 DEF EntryAt
  <2>3. /\ Lifted(es, d, N + 1) = Lifted(es, d, N) \cup {es[e].id}
        /\ Left(es, d, N + 1) = Left(es, d, N) \ {e, m}
    <3>1. PICK s : s = N + 1
      OBVIOUS
    <3>2. EntryAt(d, s, e)
      BY <2>2, <3>1
    <3>3. m = match(es, e) /\ N \in Nat /\ e \in 1 .. Len(es) /\ es[e].kind = "call"
      BY <1>1, <1>4, <1>7
    <3>4. Shrinks(es, d, N, s, e, m)
      BY <3>1, <3>2, <3>3, LeftMore
    <3> QED BY <3>1, <3>4 DEF Shrinks
  <2> QED BY <1>1, <2>1, <2>3
<1>10. ASSUME NEW i \in 1 .. N + 1
       PROVE  /\ d[i].entry \in 1 .. Len(es) /\ es[d[i].entry].kind = "call"
              /\ es[d[i].entry].id \notin Lifted(es, d, i - 1)
              /\ Saved(k, Left(es, d, i - 1), d[i].entry, match(es, d[i].entry))
  <2>1. i - 1 \in Nat /\ \A j \in 1 .. (i - 1) : j \in 1 .. N
    BY <1>7
  <2>2. Lifted(es, d, i - 1) = Lifted(es, c, i - 1) /\ Left(es, d, i - 1) = Left(es, c, i - 1)
    BY <1>8, <2>1, LeftSame
  <2>3. CASE i = N + 1
    <3>1. i - 1 = N
      BY <1>7, <2>3
    <3> QED BY <1>1, <1>4, <1>6, <1>8, <2>2, <2>3, <3>1
  <2>4. CASE i # N + 1
    <3>1. i \in 1 .. N
      BY <1>7, <2>4
    <3>2. d[i] = c[i]
      BY <1>8, <3>1
    <3>3. /\ c[i].entry \in 1 .. Len(es) /\ es[c[i].entry].kind = "call"
          /\ es[c[i].entry].id \notin Lifted(es, c, i - 1)
      BY <1>1, <1>7, <3>1 DEF StackInv
    <3>4. Saved(l, Left(es, c, i - 1), c[i].entry, match(es, c[i].entry))
      BY <1>1, <3>1 DEF ListInv
    <3>5. PICK a, b : a = c[i].entry /\ b = match(es, a)
      OBVIOUS
    <3>6. a \in 0 .. Len(es) /\ b \in 0 .. Len(es) /\ a \notin L /\ b \notin L
      BY <1>1, <1>7, <3>1, <3>5, LiftedAreOut
    <3>7. Saved(k, Left(es, c, i - 1), a, b)
      BY <1>6, <3>4, <3>5, <3>6, SavedKept
    <3> QED BY <2>2, <3>2, <3>3, <3>5, <3>7
  <2> QED BY <2>3, <2>4
<1>11. StackInv(es, d)
  BY <1>8, <1>10 DEF StackInv
<1>12. r.linearized \in Bitsets(n) /\ Elements(r.linearized) = Lifted(es, d, N + 1)
  <2>1. es[e].id \in 1 .. n /\ n \in Nat
    BY <1>4 DEF Paired
  <2>2. PICK b : b = g.linearized
    OBVIOUS
  <2>3. b \in Bitsets(n) /\ Elements(b) = Lifted(es, c, N) /\ r.linearized = set(b, es[e].id)
    BY <1>1, <2>2 DEF ListInv, Lifts
  <2>4. set(b, es[e].id) \in Bitsets(n) /\ Elements(set(b, es[e].id)) = Elements(b) \cup {es[e].id}
    BY <2>1, <2>3, SetIs
  <2> QED BY <1>9, <2>3, <2>4
<1>13. k.next[0] # Nil => k.next[0] \in (L \ {e, m}) \ {0}
  <2>1. 0 \in L \ {e, m}
    BY <1>2, <1>3, <1>5
  <2>2. IsNext(L \ {e, m}, 0, k.next[0])
    BY <1>6, <2>1 DEF Linked
  <2>3. \A x \in L : x \in Int /\ (0 < x => x # 0)
    BY <1>2
  <2> QED BY <2>2, <2>3 DEF IsNext
<1>14. r.calls = d /\ r.list = k /\ r.entry = k.next[0] /\ DOMAIN r = Fields
  BY <1>1 DEF Lifts
<1> QED BY <1>6, <1>8, <1>9, <1>10, <1>11, <1>12, <1>13, <1>14 DEF ListInv

LEMMA UnliftKeeps ==
  ASSUME NEW es, NEW n, NEW g, NEW r, Paired(es, n), ListInv(es, n, g),
         Looks(g), g.calls # <<>>, Unlifts(es, g, r)
  PROVE  ListInv(es, n, r)
<1>1. PICK c, d, N, e, m, l, k : /\ c = g.calls /\ d = r.calls /\ N = Len(c) - 1
                                 /\ e = c[Len(c)].entry /\ m = match(es, e) /\ l = g.list /\ k = r.list
  OBVIOUS
<1>2. StackInv(es, c)
  BY <1>1 DEF ListInv
<1>3. N \in Nat /\ Len(c) = N + 1 /\ (\E S : d \in Seq(S)) /\ Len(d) = N /\ \A j \in 1 .. N : d[j] = c[j]
  <2>1. PICK S : c \in Seq(S)
    BY <1>2 DEF StackInv
  <2>2. c # <<>> /\ d = SubSeq(c, 1, Len(c) - 1)
    BY <1>1 DEF Unlifts
  <2>3. Len(c) \in Nat /\ Len(c) # 0
    BY <2>1, <2>2
  <2>4. d \in Seq(S) /\ Len(d) = N /\ \A j \in 1 .. N : d[j] = c[j]
    BY <1>1, <2>1, <2>2, <2>3
  <2> QED BY <1>1, <2>3, <2>4
<1>4. e = c[N + 1].entry /\ e \in 1 .. Len(es) /\ es[e].kind = "call" /\ es[e].id \notin Lifted(es, c, N)
  <2>1. N + 1 \in 1 .. Len(c) /\ (N + 1) - 1 = N
    BY <1>3
  <2> QED BY <1>1, <1>2, <1>3, <2>1 DEF StackInv
<1>5. PICK L : L = Left(es, c, N)
  OBVIOUS
<1>6. L \in SUBSET (0 .. Len(es)) /\ 0 \in L /\ Len(es) \in Nat
  BY <1>5, LeftIs DEF Paired
<1>7. e \in L /\ m \in L /\ e # 0 /\ e < m
  BY <1>1, <1>4, <1>5, BothLeft
<1>8. /\ Lifted(es, c, N + 1) = Lifted(es, c, N) \cup {es[e].id}
      /\ Left(es, c, N + 1) = L \ {e, m}
  <2>1. EntryAt(c, N + 1, e)
    BY <1>4 DEF EntryAt
  <2>2. PICK s : s = N + 1
    OBVIOUS
  <2>3. EntryAt(c, s, e)
    BY <2>1, <2>2
  <2>4. m = match(es, e) /\ N \in Nat /\ e \in 1 .. Len(es) /\ es[e].kind = "call"
    BY <1>1, <1>3, <1>4
  <2>5. Shrinks(es, c, N, s, e, m)
    BY <2>2, <2>3, <2>4, LeftMore
  <2> QED BY <1>5, <2>2, <2>5 DEF Shrinks
<1>9. Lifted(es, d, N) = Lifted(es, c, N) /\ Left(es, d, N) = L
  BY <1>3, <1>5, LeftSame
<1>10. Pointers(l, Len(es)) /\ Linked(l, L \ {e, m}) /\ Saved(l, L, e, m)
  <2>1. Linked(l, Left(es, c, N + 1)) /\ Pointers(l, Len(es))
    BY <1>1, <1>3 DEF ListInv
  <2>2. N + 1 \in 1 .. Len(c) /\ (N + 1) - 1 = N
    BY <1>3
  <2>3. Saved(l, Left(es, c, (N + 1) - 1), c[N + 1].entry, match(es, c[N + 1].entry))
    BY <1>1, <2>2 DEF ListInv
  <2> QED BY <1>1, <1>4, <1>5, <1>8, <2>1, <2>2, <2>3
<1>11. /\ Pointers(k, Len(es)) /\ Linked(k, L) /\ k.next[e] # Nil
       /\ \A j \in 0 .. Len(es) : j \notin L => Same(l, k, j)
  <2>1. k = unlift(l, e, m)
    BY <1>1 DEF Unlifts
  <2> QED BY <1>6, <1>7, <1>10, <2>1, UnliftIs
<1>12. ASSUME NEW i \in 1 .. N
       PROVE  /\ d[i].entry \in 1 .. Len(es) /\ es[d[i].entry].kind = "call"
              /\ es[d[i].entry].id \notin Lifted(es, d, i - 1)
              /\ Saved(k, Left(es, d, i - 1), d[i].entry, match(es, d[i].entry))
  <2>1. i - 1 \in Nat /\ i \in 1 .. Len(c) /\ \A j \in 1 .. (i - 1) : j \in 1 .. N
    BY <1>3
  <2>2. Lifted(es, d, i - 1) = Lifted(es, c, i - 1) /\ Left(es, d, i - 1) = Left(es, c, i - 1)
    BY <1>3, <2>1, LeftSame
  <2>3. /\ c[i].entry \in 1 .. Len(es) /\ es[c[i].entry].kind = "call"
        /\ es[c[i].entry].id \notin Lifted(es, c, i - 1)
    BY <1>2, <2>1 DEF StackInv
  <2>4. Saved(l, Left(es, c, i - 1), c[i].entry, match(es, c[i].entry))
    BY <1>1, <2>1 DEF ListInv
  <2>5. PICK a, b : a = c[i].entry /\ b = match(es, a)
    OBVIOUS
  <2>6. a \in 0 .. Len(es) /\ b \in 0 .. Len(es) /\ a \notin L /\ b \notin L
    <3>1. N <= Len(c)
      BY <1>3
    <3> QED BY <1>2, <1>3, <1>5, <2>5, <3>1, LiftedAreOut
  <2>7. Saved(k, Left(es, c, i - 1), a, b)
    BY <1>11, <2>4, <2>5, <2>6, SavedKept
  <2> QED BY <1>3, <2>2, <2>3, <2>5, <2>7
<1>13. StackInv(es, d)
  BY <1>3, <1>12 DEF StackInv
<1>14. r.linearized \in Bitsets(n) /\ Elements(r.linearized) = Lifted(es, d, N)
  <2>1. es[e].id \in 1 .. n /\ n \in Nat
    BY <1>4 DEF Paired
  <2>2. PICK b : b = g.linearized
    OBVIOUS
  <2>3. b \in Bitsets(n) /\ Elements(b) = Lifted(es, c, N + 1) /\ r.linearized = clear(b, es[e].id)
    BY <1>1, <1>3, <2>2 DEF ListInv, Unlifts
  <2>4. clear(b, es[e].id) \in Bitsets(n) /\ Elements(clear(b, es[e].id)) = Elements(b) \ {es[e].id}
    BY <2>1, <2>3, ClearIs
  <2> QED BY <1>4, <1>8, <1>9, <2>3, <2>4
<1>15. k.next[e] \in L \ {0}
  <2>1. IsNext(L, e, k.next[e])
    BY <1>7, <1>11 DEF Linked
  <2> QED BY <1>6, <1>7, <2>1, BeforeAnother
<1>16. r.calls = d /\ r.list = k /\ r.entry = k.next[e] /\ DOMAIN r = Fields
  BY <1>1 DEF Unlifts
<1> QED BY <1>3, <1>9, <1>11, <1>12, <1>13, <1>14, <1>15, <1>16 DEF ListInv

LEMMA StartKeeps ==
  ASSUME NEW es, NEW n, Paired(es, n), NEW r, r = StartSingle(es, n)
  PROVE  ListInv(es, n, r)
<1>1. Len(es) \in Nat /\ n \in Nat
  BY DEF Paired
<1>2. /\ DOMAIN r = Fields /\ r.calls = <<>> /\ r.linearized = newBitset(n) /\ r.entry = 1
      /\ r.list = makeLinkedEntries(es)
  BY DEF StartSingle, Fields
<1>3. PICK l, N : l = r.list /\ N = Len(es)
  OBVIOUS
<1>4. /\ l.next = [k \in 0 .. N |-> IF k = N THEN Nil ELSE k + 1]
      /\ l.prev = [k \in 0 .. N |-> k - 1]
      /\ N \in Nat /\ Nil = -1
  BY <1>1, <1>2, <1>3 DEF makeLinkedEntries, Nil
<1>5. Pointers(l, N)
  BY <1>4 DEF Pointers
<1>6. PICK L : L = 0 .. N
  OBVIOUS
<1>7. Linked(l, L)
  <2>1. ASSUME NEW k \in L PROVE IsNext(L, k, l.next[k])
    BY <1>4, <1>6 DEF IsNext
  <2>2. ASSUME NEW k \in L, k # 0 PROVE IsPrev(L, k, l.prev[k])
    BY <1>4, <1>6, <2>2 DEF IsPrev
  <2> QED BY <2>1, <2>2 DEF Linked
<1>8. PICK c : c = r.calls
  OBVIOUS
<1>9. Len(c) = 0 /\ (\E S : c \in Seq(S)) /\ StackInv(es, c)
  <2>1. c = <<>>
    BY <1>2, <1>8
  <2>2. c \in Seq({}) /\ Len(c) = 0
    BY <2>1
  <2> QED BY <2>2 DEF StackInv
<1>10. Lifted(es, c, 0) = {} /\ Left(es, c, 0) = L
  <2>1. Lifted(es, c, 0) = {}
    BY DEF Lifted
  <2> QED BY <1>3, <1>4, <1>6, <2>1 DEF Left
<1>11. r.linearized \in Bitsets(n) /\ Elements(r.linearized) = {}
  BY <1>1, <1>2, NewIs
<1>12. l.next[0] # Nil => r.entry \in L \ {0}
  BY <1>2, <1>4, <1>6
<1> QED BY <1>2, <1>3, <1>5, <1>7, <1>8, <1>9, <1>10, <1>11, <1>12 DEF ListInv

-----------------------------------------------------------------------------
(***************************************************************************)
(* The invariant is inductive, and it says that the list is intact.        *)
(***************************************************************************)

LEMMA GoesKeeps ==
  ASSUME CheckInv, NEW p \in DOMAIN parts, NEW r, single' = [single EXCEPT ![p] = r],
         UNCHANGED args, ListInv(entries[p], Len(parts[p]), r)
  PROVE  CheckInv'
<1>1. UNCHANGED <<parts, entries>> /\ DOMAIN single' = DOMAIN single /\ DOMAIN single = DOMAIN parts
  BY DEF args, CheckInv
<1>2. ASSUME NEW q \in DOMAIN parts
      PROVE  Paired(entries[q], Len(parts[q])) /\ ListInv(entries[q], Len(parts[q]), single'[q])
  <2>1. Paired(entries[q], Len(parts[q])) /\ ListInv(entries[q], Len(parts[q]), single[q])
    BY DEF CheckInv
  <2>2. q # p => single'[q] = single[q]
    BY <1>1
  <2>3. single'[p] = r
    BY <1>1
  <2> QED BY <2>1, <2>2, <2>3
<1> QED BY <1>1, <1>2 DEF CheckInv

LEMMA SingleIs ==
  ASSUME CheckInv, NEW p \in DOMAIN parts, checkSingle(p)
  PROVE  \E r : /\ single' = [single EXCEPT ![p] = r] /\ UNCHANGED args
                /\ Steps(entries[p], parts[p], single[p], r, kill, computeInfo)
<1>1. PICK es, g, o : es = entries[p] /\ g = single[p] /\ o = OpOf(es, parts[p], g.entry)
  OBVIOUS
<1>2. DOMAIN g = Fields
  BY <1>1 DEF CheckInv, ListInv
<1> SUFFICES \E r : /\ single' = [single EXCEPT ![p] = r] /\ UNCHANGED args
                    /\ Steps(es, parts[p], g, r, kill, computeInfo)
  BY <1>1
<1>0. o = OpAt(p)
  BY <1>1 DEF OpOf, OpAt
<1>3. CASE Killed(p)
  <2>1. PICK r : r = [g EXCEPT !.pc = "returned"]
    OBVIOUS
  <2>2. single' = [single EXCEPT ![p] = r] /\ UNCHANGED args
    BY <1>1, <1>3, <2>1 DEF Killed, Goes
  <2>3. Stops(g, r) /\ r.pc = "returned" /\ r.result = g.result /\ r.longest = g.longest
    BY <1>2, <2>1 DEF Stops, Fields
  <2>4. g.pc = "run" /\ kill
    BY <1>1, <1>3 DEF Killed, Running
  <2>5. Ends(es, g, r, kill)
    BY <2>3, <2>4, Zenon DEF Ends
  <2> QED BY <2>2, <2>5, Zenon DEF Steps
<1>4. CASE Linearize(p)
  <2> DEFINE list == lift(g.list, g.entry, match(es, g.entry))
             new  == KvStep(g.state, o)
  <2>1. PICK r : r = [g EXCEPT !.list = list, !.entry = list.next[0], !.state = new,
                               !.linearized = set(@, es[g.entry].id),
                               !.cache = @ \cup {<<set(g.linearized, es[g.entry].id), new>>},
                               !.calls = Append(@, [entry |-> g.entry, state |-> g.state])]
    OBVIOUS
  <2>2. single' = [single EXCEPT ![p] = r] /\ UNCHANGED args
    BY <1>0, <1>1, <1>4, <2>1, Zenon DEF Linearize, Goes
  <2> HIDE DEF list, new
  <2>3. /\ DOMAIN r = Fields /\ r.pc = g.pc /\ r.list = list /\ r.entry = list.next[0]
        /\ r.linearized = set(g.linearized, es[g.entry].id) /\ r.state = new
        /\ r.calls = Append(g.calls, [entry |-> g.entry, state |-> g.state])
        /\ r.cache = g.cache \cup {<<set(g.linearized, es[g.entry].id), new>>}
        /\ r.result = g.result /\ r.longest = g.longest
    BY <1>2, <2>1 DEF Fields
  <2>4. Lifts(es, g, r)
    BY <2>3 DEF Lifts, list
  <2>5. Looks(g) /\ AtCallEntry(es, g)
    BY <1>1, <1>4 DEF Linearize, Running, AtCall, Looks, AtCallEntry
  <2>6. KvOk(g.state, o)
    BY <1>0, <1>1, <1>4 DEF Linearize, CanLinearize
  <2>7. Applies(o, g, r)
    BY <2>3, <2>6 DEF Applies, new
  <2> QED BY <1>1, <2>2, <2>4, <2>5, <2>7, Zenon DEF Steps
<1>5. CASE Skip(p)
  <2>1. PICK r : r = [g EXCEPT !.entry = g.list.next[@]]
    OBVIOUS
  <2>2. single' = [single EXCEPT ![p] = r] /\ UNCHANGED args
    BY <1>1, <1>5, <2>1 DEF Skip, Goes
  <2>3. Skips(g, r)
    BY <1>2, <2>1 DEF Skips, Fields
  <2>4. Looks(g) /\ AtCallEntry(es, g)
    BY <1>1, <1>5 DEF Skip, Running, AtCall, Looks, AtCallEntry
  <2>5. Rejects(o, es[g.entry].id, g)
    BY <1>0, <1>1, <1>5 DEF Skip, CanLinearize, Rejects, cacheContains
  <2> QED BY <1>1, <2>2, <2>3, <2>4, <2>5, Zenon DEF Steps
<1>6. CASE Backtrack(p)
  <2> DEFINE e    == g.calls[Len(g.calls)].entry
             list == unlift(g.list, e, match(es, e))
             more == IF computeInfo THEN Longer(g.longest, CallIds(p, g.calls)) ELSE g.longest
  <2>1. PICK r : r = [g EXCEPT !.list = list, !.entry = list.next[e],
                               !.state = PoppedState(g),
                               !.linearized = clear(@, es[e].id),
                               !.calls = SubSeq(@, 1, Len(@) - 1),
                               !.longest = more]
    OBVIOUS
  <2>2. single' = [single EXCEPT ![p] = r] /\ UNCHANGED args
    BY <1>1, <1>6, <2>1, Zenon DEF Backtrack, Goes, Last, Front
  <2> HIDE DEF list, more, e
  <2>3. /\ DOMAIN r = Fields /\ r.pc = g.pc /\ r.list = list /\ r.entry = list.next[e]
        /\ r.linearized = clear(g.linearized, es[e].id) /\ r.state = PoppedState(g)
        /\ r.calls = SubSeq(g.calls, 1, Len(g.calls) - 1)
        /\ r.cache = g.cache /\ r.result = g.result /\ r.longest = more
    BY <1>2, <2>1 DEF Fields
  <2>4. Unlifts(es, g, r)
    BY <2>3 DEF Unlifts, list, e, PoppedState, Last
  <2>5. Looks(g) /\ g.calls # <<>> /\ ~AtCallEntry(es, g)
    BY <1>1, <1>6 DEF Backtrack, Running, AtCall, Looks, AtCallEntry
  <2>6. CallIds(p, g.calls) = IdsOn(es, g.calls)
    BY <1>1 DEF CallIds, IdsOn
  <2>7. Records(es, g, r, computeInfo)
    BY <2>3, <2>6 DEF Records, more
  <2> QED BY <2>2, <2>4, <2>5, <2>7, Zenon DEF Steps
<1>7. CASE GiveUp(p)
  <2>1. PICK r : r = [g EXCEPT !.pc = "returned"]
    OBVIOUS
  <2>2. single' = [single EXCEPT ![p] = r] /\ UNCHANGED args
    BY <1>1, <1>7, <2>1 DEF GiveUp, Goes
  <2>3. Stops(g, r) /\ r.pc = "returned" /\ r.result = g.result /\ r.longest = g.longest
    BY <1>2, <2>1 DEF Stops, Fields
  <2>4. g.pc = "run" /\ Looks(g) /\ g.calls = <<>> /\ ~AtCallEntry(es, g)
    BY <1>1, <1>7 DEF GiveUp, Running, AtCall, Looks, AtCallEntry
  <2>5. Ends(es, g, r, kill)
    BY <2>3, <2>4, Zenon DEF Ends
  <2> QED BY <2>2, <2>5, Zenon DEF Steps
<1>8. CASE Succeed(p)
  <2>1. PICK r : r = [g EXCEPT !.pc = "returned", !.result = TRUE,
                               !.longest = [i \in DOMAIN @ |-> CallIds(p, g.calls)]]
    OBVIOUS
  <2>2. single' = [single EXCEPT ![p] = r] /\ UNCHANGED args
    BY <1>1, <1>8, <2>1, Zenon DEF Succeed, Goes
  <2>3. /\ Stops(g, r) /\ r.pc = "returned" /\ r.result = TRUE
        /\ r.longest = [i \in DOMAIN g.longest |-> IdsOn(es, g.calls)]
    <3>1. CallIds(p, g.calls) = IdsOn(es, g.calls)
      BY <1>1 DEF CallIds, IdsOn
    <3> QED BY <1>2, <2>1, <3>1 DEF Stops, Fields
  <2>4. g.pc = "run" /\ g.list.next[0] = Nil
    BY <1>1, <1>8 DEF Succeed
  <2>5. Ends(es, g, r, kill)
    BY <2>3, <2>4, Zenon DEF Ends
  <2> QED BY <2>2, <2>5, Zenon DEF Steps
<1>9. CASE SendResult(p)
  <2>1. PICK r : r = [g EXCEPT !.pc = "sent"]
    OBVIOUS
  <2>2. single' = [single EXCEPT ![p] = r] /\ UNCHANGED args
    BY <1>1, <1>9, <2>1 DEF SendResult
  <2>3. Stops(g, r) /\ r.pc = "sent" /\ r.result = g.result /\ r.longest = g.longest
    BY <1>2, <2>1 DEF Stops, Fields
  <2>4. g.pc = "returned"
    BY <1>1, <1>9 DEF SendResult
  <2>5. Ends(es, g, r, kill)
    BY <2>3, <2>4, Zenon DEF Ends
  <2> QED BY <2>2, <2>5, Zenon DEF Steps
<1> QED BY <1>3, <1>4, <1>5, <1>6, <1>7, <1>8, <1>9 DEF checkSingle

LEMMA StepKeeps ==
  ASSUME NEW es, NEW part, NEW g, NEW r, NEW k, NEW f, Paired(es, Len(part)),
         ListInv(es, Len(part), g), Steps(es, part, g, r, k, f)
  PROVE  ListInv(es, Len(part), r)
BY LiftKeeps, SkipKeeps, UnliftKeeps, StopsKeeps DEF Steps, Ends

LEMMA SingleKeeps ==
  ASSUME CheckInv, NEW p \in DOMAIN parts, checkSingle(p)
  PROVE  CheckInv'
<1>1. PICK r : /\ single' = [single EXCEPT ![p] = r] /\ UNCHANGED args
               /\ Steps(entries[p], parts[p], single[p], r, kill, computeInfo)
  BY SingleIs
<1>2. PICK es, part, g, k, f : /\ es = entries[p] /\ part = parts[p] /\ g = single[p]
                               /\ k = kill /\ f = computeInfo
  OBVIOUS
<1>3. Paired(es, Len(part)) /\ ListInv(es, Len(part), g)
  BY <1>2 DEF CheckInv
<1>4. ListInv(es, Len(part), r)
  BY <1>1, <1>2, <1>3, StepKeeps
<1> QED BY <1>1, <1>2, <1>4, GoesKeeps

LEMMA CheckNext ==
  ASSUME CheckInv, [Next]_vars
  PROVE  CheckInv'
<1>1. CASE \E p \in DOMAIN parts : checkSingle(p)
  BY <1>1, SingleKeeps
<1>2. CASE checkParallel \/ UNCHANGED vars
  <2>1. UNCHANGED <<parts, entries, single>>
    BY <1>2 DEF checkParallel, CollectResult, TimerFires, Drain, Conclude, vars, args
  <2> QED BY <2>1 DEF CheckInv
<1> QED BY <1>1, <1>2 DEF Next

LEMMA InvIntact ==
  ASSUME CheckInv
  PROVE  ListIntact
<1> SUFFICES ASSUME NEW p \in DOMAIN parts,
                    NEW g, g = single[p], NEW es, es = entries[p], NEW left,
                    left = {0} \cup {k \in 1 .. Len(es) : es[k].id \notin Elements(g.linearized)},
                    NEW succ,
                    succ = [k \in left |-> LET later == {j \in left : j > k}
                                           IN  IF later = {} THEN Nil ELSE Min(later)]
             PROVE  /\ \A k \in left : /\ g.list.next[k] = succ[k]
                                       /\ succ[k] # Nil => g.list.prev[succ[k]] = k
                    /\ Running(p) => g.entry \in left \ {0}
  BY DEF ListIntact
<1>1. PICK n : n = Len(parts[p])
  OBVIOUS
<1>2. Paired(es, n) /\ ListInv(es, n, g)
  BY <1>1 DEF CheckInv
<1>3. left = Left(es, g.calls, Len(g.calls))
  BY <1>2 DEF ListInv, Left
<1>4. Linked(g.list, left) /\ (Running(p) => g.entry \in left \ {0})
  BY <1>2, <1>3 DEF ListInv, Running
<1>5. \A j \in left : j \in Int /\ 0 <= j
  BY <1>2 DEF Paired
<1>6. ASSUME NEW k \in left
      PROVE  g.list.next[k] = succ[k] /\ (succ[k] # Nil => g.list.prev[succ[k]] = k)
  <2>1. PICK x, later : x = g.list.next[k] /\ later = {j \in left : j > k}
    OBVIOUS
  <2>2. succ[k] = IF later = {} THEN Nil ELSE Min(later)
    BY <2>1
  <2>3. IsNext(left, k, x)
    BY <1>4, <2>1 DEF Linked
  <2>4. CASE x = Nil
    <3>1. x \notin left
      BY <1>5, <2>4 DEF Nil
    <3>2. later = {}
      BY <1>5, <2>1, <2>3, <3>1 DEF IsNext
    <3> QED BY <2>1, <2>2, <2>4, <3>2
  <2>5. CASE x # Nil
    <3>1. x \in left /\ k < x /\ \A j \in left : j <= k \/ x <= j
      BY <2>3, <2>5 DEF IsNext
    <3>2. x \in later /\ \A j \in later : x <= j /\ j \in Int
      BY <1>5, <2>1, <3>1
    <3>3. Min(later) = x
      BY <3>2 DEF Min
    <3>4. succ[k] = x /\ x # 0 /\ k \in Int /\ x \in Int
      BY <1>5, <2>2, <3>1, <3>2, <3>3
    <3>5. IsPrev(left, x, g.list.prev[x])
      BY <1>4, <3>1, <3>4 DEF Linked
    <3>6. g.list.prev[x] = k
      <4>1. PICK y : y = g.list.prev[x]
        OBVIOUS
      <4>2. y \in left /\ y < x /\ (k <= y \/ x <= k) /\ (y <= k \/ x <= y)
        BY <3>1, <3>5, <4>1 DEF IsPrev
      <4>3. y \in Int
        BY <1>5, <4>2
      <4> QED BY <3>1, <3>4, <4>1, <4>2, <4>3
    <3> QED BY <2>1, <3>4, <3>6
  <2> QED BY <2>4, <2>5
<1> QED BY <1>4, <1>6

-----------------------------------------------------------------------------
(***************************************************************************)
(* The stack stays a linearization.                                        *)
(***************************************************************************)

\* d is c with e and the state s on top.
Grown(c, d, e, s) ==
    /\ Len(c) \in Nat /\ Len(d) = Len(c) + 1 /\ \A j \in 1 .. Len(c) : d[j] = c[j]
    /\ d[Len(d)].entry = e /\ d[Len(d)].state = s

LEMMA AppendGrows ==
  ASSUME NEW S, NEW c \in Seq(S), NEW e, NEW s, NEW d,
         d = Append(c, [entry |-> e, state |-> s])
  PROVE  Grown(c, d, e, s)
<1>1. PICK x : x = [entry |-> e, state |-> s]
  OBVIOUS
<1>2. x.entry = e /\ x.state = s
  BY <1>1
<1>3. c \in Seq(S \cup {x})
  OBVIOUS
<1>4. d[Len(d)] = x /\ Len(c) \in Nat /\ Len(d) = Len(c) + 1 /\ \A j \in 1 .. Len(c) : d[j] = c[j]
  BY <1>1, <1>3
<1> QED BY <1>2, <1>4 DEF Grown

LEMMA FrontGrows ==
  ASSUME NEW S, NEW c \in Seq(S), c # <<>>, NEW d, d = SubSeq(c, 1, Len(c) - 1)
  PROVE  Grown(d, c, c[Len(c)].entry, c[Len(c)].state)
<1>1. Len(c) \in Nat /\ Len(c) # 0
  OBVIOUS
<1>2. PICK N : N = Len(c) - 1
  OBVIOUS
<1>3. N \in Nat /\ Len(d) = N /\ \A j \in 1 .. N : d[j] = c[j]
  BY <1>1, <1>2
<1> QED BY <1>1, <1>2, <1>3 DEF Grown

\* The states along both stacks are the same.
SameStates(c, s, d, t) ==
    /\ \A i \in 1 .. Len(d) : StateAt(d, t, i) = StateAt(c, s, i)
    /\ StateAt(d, t, Len(d) + 1) = t

LEMMA GrownStates ==
  ASSUME NEW c, NEW d, NEW e, NEW s, NEW t, Grown(c, d, e, s)
  PROVE  SameStates(c, s, d, t)
<1>1. ASSUME NEW i \in 1 .. Len(d) PROVE StateAt(d, t, i) = StateAt(c, s, i)
  <2>1. CASE i = Len(d)
    BY <2>1 DEF StateAt, Grown
  <2>2. CASE i # Len(d)
    BY <2>2 DEF StateAt, Grown
  <2> QED BY <2>1, <2>2
<1>2. ~(Len(d) + 1 <= Len(d))
  BY DEF Grown
<1> QED BY <1>1, <1>2 DEF StateAt, SameStates

LEMMA ReplayMore ==
  ASSUME NEW es, NEW part, NEW c, NEW d, NEW e, NEW s, NEW t, Grown(c, d, e, s),
         Replays(es, part, c, s),
         KvOk(s, OpOf(es, part, e)), t = KvStep(s, OpOf(es, part, e))
  PROVE  Replays(es, part, d, t)
<1>0. /\ \A i \in 1 .. Len(d) : StateAt(d, t, i) = StateAt(c, s, i)
      /\ StateAt(d, t, Len(d) + 1) = t
  BY GrownStates DEF SameStates
<1>1. Len(c) \in Nat /\ Len(d) = Len(c) + 1 /\ 1 \in 1 .. Len(d)
  BY DEF Grown
<1>2. StateAt(d, t, 1) = KvInit
  BY <1>1, <1>0 DEF Replays
<1>3. ASSUME NEW i \in 1 .. Len(d)
      PROVE  /\ KvOk(StateAt(d, t, i), OpOf(es, part, d[i].entry))
             /\ StateAt(d, t, i + 1) = KvStep(StateAt(d, t, i), OpOf(es, part, d[i].entry))
  <2>1. StateAt(d, t, i) = StateAt(c, s, i)
    BY <1>0
  <2>2. CASE i = Len(d)
    <3>1. StateAt(c, s, i) = s /\ d[i].entry = e
      BY <1>1, <2>2 DEF StateAt, Grown
    <3>2. StateAt(d, t, i + 1) = t
      BY <2>2, <1>0
    <3> QED BY <2>1, <3>1, <3>2
  <2>3. CASE i # Len(d)
    <3>1. i \in 1 .. Len(c) /\ i + 1 \in 1 .. Len(d)
      BY <1>1, <2>3
    <3>2. d[i] = c[i]
      BY <3>1 DEF Grown
    <3>3. StateAt(d, t, i + 1) = StateAt(c, s, i + 1)
      BY <3>1, <1>0
    <3> QED BY <2>1, <3>1, <3>2, <3>3 DEF Replays
  <2> QED BY <2>2, <2>3
<1> QED BY <1>2, <1>3 DEF Replays

LEMMA ReplayLess ==
  ASSUME NEW es, NEW part, NEW c, NEW d, NEW e, NEW s, NEW t, Grown(c, d, e, s),
         Replays(es, part, d, t)
  PROVE  Replays(es, part, c, s)
<1>4. SameStates(c, s, d, t)
  BY GrownStates
<1>0. \A i \in 1 .. Len(d) : StateAt(d, t, i) = StateAt(c, s, i)
  BY <1>4 DEF SameStates
<1>1. Len(c) \in Nat /\ Len(d) = Len(c) + 1 /\ 1 \in 1 .. Len(d)
  BY DEF Grown
<1>2. StateAt(c, s, 1) = KvInit
  BY <1>1, <1>0 DEF Replays
<1>3. ASSUME NEW i \in 1 .. Len(c)
      PROVE  /\ KvOk(StateAt(c, s, i), OpOf(es, part, c[i].entry))
             /\ StateAt(c, s, i + 1) = KvStep(StateAt(c, s, i), OpOf(es, part, c[i].entry))
  <2>1. i \in 1 .. Len(d) /\ i + 1 \in 1 .. Len(d)
    BY <1>1
  <2>2. StateAt(d, t, i) = StateAt(c, s, i) /\ StateAt(d, t, i + 1) = StateAt(c, s, i + 1)
    BY <2>1, <1>0
  <2>3. d[i] = c[i]
    BY DEF Grown
  <2> QED BY <2>1, <2>2, <2>3 DEF Replays
<1> QED BY <1>2, <1>3 DEF Replays

LEMMA StepReplays ==
  ASSUME NEW es, NEW part, NEW g, NEW r, NEW k, NEW f, StackInv(es, g.calls),
         Replays(es, part, g.calls, g.state), Steps(es, part, g, r, k, f)
  PROVE  Replays(es, part, r.calls, r.state)
<1>1. PICK S, c, d, s, t : /\ c = g.calls /\ d = r.calls /\ s = g.state /\ t = r.state
                           /\ c \in Seq(S)
  BY DEF StackInv
<1>2. CASE Lifts(es, g, r) /\ Applies(OpOf(es, part, g.entry), g, r)
  <2>1. PICK e : e = g.entry
    OBVIOUS
  <2>2. d = Append(c, [entry |-> e, state |-> s])
    BY <1>1, <1>2, <2>1 DEF Lifts
  <2>3. Grown(c, d, e, s)
    BY <1>1, <2>2, AppendGrows
  <2>4. KvOk(s, OpOf(es, part, e)) /\ t = KvStep(s, OpOf(es, part, e))
    BY <1>1, <1>2, <2>1 DEF Applies
  <2>5. Replays(es, part, d, t)
    BY <1>1, <2>3, <2>4, ReplayMore
  <2> QED BY <1>1, <2>5
<1>3. CASE g.calls # <<>> /\ Unlifts(es, g, r)
  <2>1. d = SubSeq(c, 1, Len(c) - 1) /\ t = c[Len(c)].state /\ c # <<>>
    BY <1>1, <1>3 DEF Unlifts
  <2>2. PICK e : e = c[Len(c)].entry
    OBVIOUS
  <2>3. Grown(d, c, e, t)
    BY <1>1, <2>1, <2>2, FrontGrows
  <2>4. Replays(es, part, d, t)
    BY <1>1, <2>3, ReplayLess
  <2> QED BY <1>1, <2>4
<1>4. CASE Skips(g, r) \/ Ends(es, g, r, k)
  BY <1>4 DEF Skips, Ends, Stops
<1> QED BY <1>2, <1>3, <1>4 DEF Steps

\* Where the search goes next, only calls are behind it.
LEMMA NextPasses ==
  ASSUME NEW es, NEW L, \A j \in L : j \in Int, NEW e \in L, NEW x, IsNext(L, e, x), x # Nil,
         OnlyCalls(es, L, e), e # 0 => es[e].kind = "call"
  PROVE  OnlyCalls(es, L, x)
<1> SUFFICES ASSUME NEW k \in L, 0 < k, k < x PROVE es[k].kind = "call"
  BY DEF OnlyCalls
<1>1. x \in L /\ (k <= e \/ x <= k)
  BY DEF IsNext
<1>2. k < e \/ k = e
  BY <1>1
<1> QED BY <1>2 DEF OnlyCalls

LEMMA StepPasses ==
  ASSUME NEW es, NEW part, NEW g, NEW r, NEW k, NEW f, NEW n, Paired(es, n), ListInv(es, n, g),
         ListInv(es, n, r), Passed(es, g), Steps(es, part, g, r, k, f)
  PROVE  Passed(es, r)
<1>1. PICK S, c, d, N : c = g.calls /\ d = r.calls /\ c \in Seq(S) /\ N = Len(c)
  BY DEF ListInv, StackInv
<1>2. N \in Nat /\ Len(es) \in Nat
  BY <1>1 DEF Paired
<1>3. \A i : Left(es, c, i) \in SUBSET (0 .. Len(es)) /\ 0 \in Left(es, c, i)
  BY <1>2, LeftIs
<1>4. CASE Looks(g) /\ AtCallEntry(es, g) /\ Lifts(es, g, r)
  <2>1. PICK e, s, x : e = g.entry /\ s = g.state /\ x = r.entry
    OBVIOUS
  <2>2. d = Append(c, [entry |-> e, state |-> s])
    BY <1>1, <1>4, <2>1 DEF Lifts
  <2>3. Grown(c, d, e, s)
    BY <1>1, <2>2, AppendGrows
  <2>4. ASSUME NEW i \in 1 .. Len(d) PROVE OnlyCalls(es, Left(es, d, i - 1), d[i].entry)
    <3>1. i - 1 \in Nat /\ \A j \in 1 .. (i - 1) : c[j] = d[j]
      BY <1>1, <2>3 DEF Grown
    <3>2. Left(es, d, i - 1) = Left(es, c, i - 1)
      BY <3>1, LeftSame
    <3>3. CASE i = Len(d)
      <4>1. d[i].entry = e /\ i - 1 = Len(c)
        BY <2>3, <3>3 DEF Grown
      <4>2. OnlyCalls(es, Left(es, c, Len(c)), e)
        BY <1>1, <1>4, <2>1 DEF Passed
      <4> QED BY <3>2, <4>1, <4>2
    <3>4. CASE i # Len(d)
      <4>1. i \in 1 .. Len(c) /\ d[i] = c[i]
        BY <2>3, <3>4 DEF Grown
      <4> QED BY <1>1, <3>2, <4>1 DEF Passed
    <3> QED BY <3>3, <3>4
  <2>5. ASSUME Looks(r) PROVE OnlyCalls(es, Left(es, d, Len(d)), x)
    <3>1. PICK L : L = Left(es, d, Len(d))
      OBVIOUS
    <3>2. L \in SUBSET (0 .. Len(es)) /\ 0 \in L
      BY <1>2, <3>1, LeftIs
    <3>3. x = r.list.next[0] /\ x # Nil
      BY <1>4, <2>1, <2>5 DEF Lifts, Looks
    <3>4. IsNext(L, 0, x)
      BY <1>1, <3>1, <3>2, <3>3 DEF ListInv, Linked
    <3>5. OnlyCalls(es, L, 0) /\ \A j \in L : j \in Int
      BY <3>2 DEF OnlyCalls
    <3> QED BY <3>1, <3>2, <3>3, <3>4, <3>5, NextPasses
  <2> QED BY <1>1, <2>1, <2>4, <2>5 DEF Passed
<1>5. CASE Looks(g) /\ AtCallEntry(es, g) /\ Skips(g, r)
  <2>1. PICK e, x, L : e = g.entry /\ x = r.entry /\ L = Left(es, c, N)
    OBVIOUS
  <2>2. d = c /\ x = g.list.next[e] /\ r.list = g.list /\ Looks(r)
    BY <1>1, <1>5, <2>1 DEF Skips, Looks
  <2>3. e \in L /\ x \in L \ {0} /\ Linked(g.list, L)
    BY <1>1, <1>5, <2>1, <2>2 DEF ListInv, Looks
  <2>4. \A j \in L : j \in Int /\ j # Nil
    BY <1>3, <2>1 DEF Nil
  <2>5. IsNext(L, e, x) /\ x # Nil
    BY <2>2, <2>3, <2>4 DEF Linked
  <2>6. OnlyCalls(es, L, e) /\ es[e].kind = "call"
    BY <1>1, <1>5, <2>1 DEF Passed, AtCallEntry
  <2>7. OnlyCalls(es, L, x)
    BY <2>3, <2>4, <2>5, <2>6, NextPasses
  <2> QED BY <1>1, <2>1, <2>2, <2>7 DEF Passed
<1>6. CASE Looks(g) /\ g.calls # <<>> /\ Unlifts(es, g, r)
  <2>1. d = SubSeq(c, 1, Len(c) - 1) /\ c # <<>>
    BY <1>1, <1>6 DEF Unlifts
  <2>2. PICK e, s, x : e = c[Len(c)].entry /\ s = c[Len(c)].state /\ x = r.entry
    OBVIOUS
  <2>3. Grown(d, c, e, s)
    BY <1>1, <2>1, <2>2, FrontGrows
  <2>4. \A i \in 1 .. Len(d) : i - 1 \in Nat /\ i \in 1 .. Len(c) /\ \A j \in 1 .. (i - 1) : d[j] = c[j]
    BY <2>3 DEF Grown
  <2>5. ASSUME NEW i \in 1 .. Len(d) PROVE OnlyCalls(es, Left(es, d, i - 1), d[i].entry)
    <3>1. Left(es, d, i - 1) = Left(es, c, i - 1)
      BY <2>4, LeftSame
    <3>2. d[i] = c[i]
      BY <2>3 DEF Grown
    <3> QED BY <1>1, <2>4, <3>1, <3>2 DEF Passed
  <2>6. PICK L : L = Left(es, d, Len(d))
    OBVIOUS
  <2>7. L = Left(es, c, Len(c) - 1) /\ Len(c) \in 1 .. Len(c) /\ Len(d) \in Nat
    <3>1. Len(d) \in Nat /\ Len(d) = Len(c) - 1 /\ \A j \in 1 .. Len(d) : d[j] = c[j]
      BY <2>3 DEF Grown
    <3>2. Left(es, d, Len(d)) = Left(es, c, Len(d))
      BY <3>1, LeftSame
    <3> QED BY <2>3, <2>6, <3>1, <3>2 DEF Grown
  <2>8. OnlyCalls(es, L, e) /\ es[e].kind = "call" /\ e \in 1 .. Len(es)
        /\ es[e].id \notin Lifted(es, c, Len(c) - 1)
    BY <1>1, <2>2, <2>7 DEF Passed, ListInv, StackInv
  <2>9. ASSUME Looks(r) PROVE OnlyCalls(es, L, x)
    <3>1. x \in L \ {0} /\ Linked(r.list, L)
      BY <1>1, <2>2, <2>6, <2>9 DEF ListInv, Looks
    <3>2. e \in L /\ \A j \in L : j \in Int /\ j # Nil
      BY <1>2, <1>3, <2>7, <2>8 DEF Left, Nil
    <3>3. x = r.list.next[e]
      BY <1>1, <1>6, <2>2 DEF Unlifts
    <3>4. IsNext(L, e, x) /\ x # Nil
      BY <3>1, <3>2, <3>3 DEF Linked
    <3> QED BY <2>8, <3>2, <3>4, NextPasses
  <2> QED BY <1>1, <2>2, <2>5, <2>6, <2>9 DEF Passed
<1>7. CASE Ends(es, g, r, k)
  BY <1>7 DEF Ends, Stops, Passed, Looks
<1> QED BY <1>4, <1>5, <1>6, <1>7 DEF Steps

-----------------------------------------------------------------------------
(***************************************************************************)
(* The numbers of a finite set in ascending order.                         *)
(***************************************************************************)

Rank(S, x) == Cardinality({y \in S : y <= x})

LEMMA NthIs ==
  ASSUME NEW S, S \subseteq Int, IsFiniteSet(S), NEW N, N = Cardinality(S)
  PROVE  /\ N \in Nat
         /\ \A n \in 1 .. N : Nth(S, n) \in S /\ Rank(S, Nth(S, n)) = n
         /\ \A x \in S : Rank(S, x) \in 1 .. N /\ Nth(S, Rank(S, x)) = x
         /\ \A x, y \in S : x < y => Rank(S, x) < Rank(S, y)
<1>1. N \in Nat
  BY FS_CardinalityType
<1>2. ASSUME NEW x \in S PROVE Rank(S, x) \in 1 .. N
  <2>1. PICK T : T = {y \in S : y <= x}
    OBVIOUS
  <2>2. T \subseteq S /\ x \in T
    BY <2>1
  <2>3. IsFiniteSet(T) /\ Cardinality(T) <= N
    BY <2>2, FS_Subset
  <2>4. Cardinality(T) \in Nat /\ Cardinality(T) # 0
    BY <2>2, <2>3, FS_CardinalityType, FS_EmptySet
  <2> QED BY <1>1, <2>1, <2>3, <2>4 DEF Rank
<1>3. ASSUME NEW x \in S, NEW y \in S, x < y PROVE Rank(S, x) < Rank(S, y)
  <2>1. PICK A, B : A = {z \in S : z <= x} /\ B = {z \in S : z <= y}
    OBVIOUS
  <2>2. x \in Int /\ y \in Int /\ \A z \in S : z \in Int
    OBVIOUS
  <2>7. \A z \in S : z <= x => z <= y
    BY <1>3, <2>2
  <2>8. y <= y /\ ~(y <= x)
    BY <1>3, <2>2
  <2>3. A \subseteq B /\ y \in B /\ y \notin A /\ B \subseteq S
    BY <2>1, <2>7, <2>8
  <2>4. IsFiniteSet(B)
    BY <2>3, FS_Subset
  <2>5. Cardinality(A) <= Cardinality(B) /\ Cardinality(A) # Cardinality(B)
    BY <2>3, <2>4, FS_Subset
  <2>6. Cardinality(A) \in Int /\ Cardinality(B) \in Int
    BY <1>1, <1>2, <2>1 DEF Rank
  <2> QED BY <2>1, <2>5, <2>6 DEF Rank
<1>4. ASSUME NEW x \in S, NEW y \in S, Rank(S, x) = Rank(S, y) PROVE x = y
  <2>1. Rank(S, x) \in Int /\ Rank(S, y) \in Int /\ x \in Int /\ y \in Int
    BY <1>1, <1>2
  <2>2. ~(x < y) /\ ~(y < x)
    BY <1>3, <1>4, <2>1
  <2> QED BY <2>1, <2>2
<1>5. PICK rank : rank = [x \in S |-> Rank(S, x)]
  OBVIOUS
<1>6. rank \in Injection(S, 1 .. N) /\ \A x \in S : rank[x] = Rank(S, x)
  <2>1. rank \in [S -> 1 .. N] /\ \A x \in S : rank[x] = Rank(S, x)
    BY <1>2, <1>5
  <2>2. \A x, y \in S : rank[x] = rank[y] => x = y
    BY <1>4, <2>1
  <2> QED BY <2>1, <2>2 DEF Injection, IsInjective
<1>7. IsFiniteSet(1 .. N) /\ Cardinality(1 .. N) = N
  <2>1. 1 \in Int /\ N \in Int
    BY <1>1
  <2>2. IsFiniteSet(1 .. N) /\ Cardinality(1 .. N) = IF 1 > N THEN 0 ELSE N - 1 + 1
    BY <2>1, FS_Interval
  <2> QED BY <1>1, <2>2
<1>8. rank \in Surjection(S, 1 .. N)
  BY <1>6, <1>7, FS_Injection
<1>9. ASSUME NEW n \in 1 .. N PROVE Nth(S, n) \in S /\ Rank(S, Nth(S, n)) = n
  <2>1. \E x \in S : Rank(S, x) = n
    BY <1>6, <1>8 DEF Surjection
  <2> QED BY <2>1 DEF Nth, Rank
<1>10. ASSUME NEW x \in S PROVE Nth(S, Rank(S, x)) = x
  BY <1>2, <1>4, <1>9
<1> QED BY <1>1, <1>2, <1>3, <1>9, <1>10

-----------------------------------------------------------------------------
(***************************************************************************)
(* makeEntries: the comparison orders the entries, so the k-th one exists, *)
(* and a call comes before its return.                                     *)
(***************************************************************************)

Timed(part) ==
    /\ Len(part) \in Nat
    /\ \A i \in 1 .. Len(part) :
           part[i].call \in Int /\ part[i].ret \in Int /\ part[i].call < part[i].ret

CallOf(part, i) == [kind |-> "call", id |-> i, time |-> part[i].call]
ReturnOf(part, i) == [kind |-> "return", id |-> i, time |-> part[i].ret]

\* The entries in front of e.
Ahead(part, tie, e) == {f \in EntriesOf(part) : Less(f, e, tie)}

LEMMA RangeIsFinite ==
  ASSUME NEW N \in Nat, NEW f, DOMAIN f = 1 .. N
  PROVE  IsFiniteSet({f[i] : i \in 1 .. N})
<1>1. PICK T, h : T = {f[i] : i \in 1 .. N} /\ h = [i \in 1 .. N |-> f[i]]
  OBVIOUS
<1>2. h \in Surjection(1 .. N, T)
  BY <1>1 DEF Surjection
<1>3. IsFiniteSet(1 .. N)
  BY FS_Interval
<1> QED BY <1>1, <1>2, <1>3, FS_Surjection

LEMMA EntriesAre ==
  ASSUME NEW part, Timed(part)
  PROVE  /\ IsFiniteSet(EntriesOf(part))
         /\ \A e \in EntriesOf(part) :
                /\ e.id \in 1 .. Len(part) /\ e.time \in Int /\ e.kind \in {"call", "return"}
                /\ e = IF e.kind = "call" THEN CallOf(part, e.id) ELSE ReturnOf(part, e.id)
         /\ \A i \in 1 .. Len(part) :
                /\ CallOf(part, i) \in EntriesOf(part) /\ ReturnOf(part, i) \in EntriesOf(part)
                /\ CallOf(part, i).time < ReturnOf(part, i).time
<1>0. PICK N \in Nat : N = Len(part)
  BY DEF Timed
<1>1. PICK C, R : C = [i \in 1 .. N |-> CallOf(part, i)] /\ R = [i \in 1 .. N |-> ReturnOf(part, i)]
  OBVIOUS
<1>2. EntriesOf(part) = {C[i] : i \in 1 .. N} \cup {R[i] : i \in 1 .. N}
  BY <1>0, <1>1 DEF EntriesOf, CallOf, ReturnOf
<1>3. IsFiniteSet({C[i] : i \in 1 .. N}) /\ IsFiniteSet({R[i] : i \in 1 .. N})
  BY <1>1, RangeIsFinite
<1>4. IsFiniteSet(EntriesOf(part))
  BY <1>2, <1>3, FS_Union
<1>5. ASSUME NEW e \in EntriesOf(part)
      PROVE  /\ e.id \in 1 .. Len(part) /\ e.time \in Int /\ e.kind \in {"call", "return"}
             /\ e = IF e.kind = "call" THEN CallOf(part, e.id) ELSE ReturnOf(part, e.id)
  <2>1. CASE \E i \in 1 .. N : e = CallOf(part, i)
    <3>1. PICK i \in 1 .. N : e = CallOf(part, i)
      BY <2>1
    <3>2. e.id = i /\ e.kind = "call" /\ e.time = part[i].call
      BY <3>1 DEF CallOf
    <3> QED BY <1>0, <3>1, <3>2 DEF Timed
  <2>2. CASE \E i \in 1 .. N : e = ReturnOf(part, i)
    <3>1. PICK i \in 1 .. N : e = ReturnOf(part, i)
      BY <2>2
    <3>2. e.id = i /\ e.kind = "return" /\ e.time = part[i].ret
      BY <3>1 DEF ReturnOf
    <3> QED BY <1>0, <3>1, <3>2 DEF Timed
  <2> QED BY <1>1, <1>2, <2>1, <2>2
<1>6. ASSUME NEW i \in 1 .. Len(part)
      PROVE  /\ CallOf(part, i) \in EntriesOf(part) /\ ReturnOf(part, i) \in EntriesOf(part)
             /\ CallOf(part, i).time < ReturnOf(part, i).time
  <2>1. CallOf(part, i) \in EntriesOf(part) /\ ReturnOf(part, i) \in EntriesOf(part)
    BY <1>0, <1>1, <1>2
  <2>2. CallOf(part, i).time < ReturnOf(part, i).time
    BY DEF Timed, CallOf, ReturnOf
  <2> QED BY <2>1, <2>2
<1> QED BY <1>4, <1>5, <1>6

LEMMA LessOrders ==
  ASSUME NEW part, Timed(part), NEW tie \in Ties(Len(part))
  PROVE  /\ \A a, b \in EntriesOf(part) : a = b \/ Less(a, b, tie) \/ Less(b, a, tie)
         /\ \A a \in EntriesOf(part) : ~Less(a, a, tie)
         /\ \A a, b, c \in EntriesOf(part) : Less(a, b, tie) /\ Less(b, c, tie) => Less(a, c, tie)
<1>0. \A e \in EntriesOf(part) :
          /\ e.id \in Int /\ e.time \in Int /\ e.kind \in {"call", "return"}
          /\ e = IF e.kind = "call" THEN CallOf(part, e.id) ELSE ReturnOf(part, e.id)
  BY EntriesAre DEF Timed
<1>4. PICK rank : rank = [e \in EntriesOf(part) |-> tie[e.kind][e.id]]
  OBVIOUS
<1>5. \A e \in EntriesOf(part) : rank[e] = tie[e.kind][e.id] /\ rank[e] \in Int
  <2> SUFFICES ASSUME NEW e \in EntriesOf(part) PROVE tie[e.kind][e.id] \in Int
    BY <1>4
  <2>1. e.id \in 1 .. Len(part) /\ e.kind \in {"call", "return"} /\ Len(part) \in Nat
    BY EntriesAre DEF Timed
  <2>2. tie[e.kind] \in [1 .. Len(part) -> 1 .. Len(part)]
    BY <2>1 DEF Ties
  <2> QED BY <2>1, <2>2
<1>6. \A a, b \in EntriesOf(part) : a.kind = b.kind /\ rank[a] = rank[b] => a.id = b.id
  <2> SUFFICES ASSUME NEW a \in EntriesOf(part), NEW b \in EntriesOf(part), a.kind = b.kind,
                      rank[a] = rank[b]
               PROVE  a.id = b.id
    OBVIOUS
  <2>1. a.id \in 1 .. Len(part) /\ b.id \in 1 .. Len(part) /\ a.kind \in {"call", "return"}
    BY EntriesAre
  <2>2. \A i, j \in 1 .. Len(part) : tie[a.kind][i] = tie[a.kind][j] => i = j
    BY <2>1 DEF Ties
  <2> QED BY <1>5, <2>1, <2>2
<1>1. ASSUME NEW a \in EntriesOf(part), NEW b \in EntriesOf(part)
      PROVE  a = b \/ Less(a, b, tie) \/ Less(b, a, tie)
  <2>1. a.kind = b.kind /\ a.id = b.id => a = b
    BY <1>0
  <2>2. a.kind = b.kind => a.id = b.id \/ rank[a] < rank[b] \/ rank[b] < rank[a]
    BY <1>5, <1>6
  <2>3. rank[a] = tie[a.kind][a.id] /\ rank[b] = tie[b.kind][b.id]
    BY <1>5
  <2> QED BY <1>0, <2>1, <2>2, <2>3 DEF Less
<1>2. ASSUME NEW a \in EntriesOf(part) PROVE ~Less(a, a, tie)
  <2>1. ~(tie[a.kind][a.id] < tie[a.kind][a.id]) /\ a.time \in Int
    BY <1>0, <1>5
  <2> QED BY <2>1 DEF Less
<1>3. ASSUME NEW a \in EntriesOf(part), NEW b \in EntriesOf(part), NEW c \in EntriesOf(part),
             Less(a, b, tie), Less(b, c, tie)
      PROVE  Less(a, c, tie)
  <2>1. tie[a.kind][a.id] < tie[b.kind][b.id] /\ tie[b.kind][b.id] < tie[c.kind][c.id]
            => tie[a.kind][a.id] < tie[c.kind][c.id]
    BY <1>5
  <2>2. /\ a.time \in Int /\ b.time \in Int /\ c.time \in Int
        /\ a.kind \in {"call", "return"} /\ b.kind \in {"call", "return"} /\ c.kind \in {"call", "return"}
    BY <1>0
  <2> QED BY <1>3, <2>1, <2>2 DEF Less
<1> QED BY <1>1, <1>2, <1>3

LEMMA RankIs ==
  ASSUME NEW part, Timed(part), NEW tie \in Ties(Len(part)), NEW N, N = Cardinality(EntriesOf(part))
  PROVE  /\ N \in Nat
         /\ \A e \in EntriesOf(part) : Cardinality(Ahead(part, tie, e)) \in 0 .. (N - 1)
         /\ \A a, b \in EntriesOf(part) :
                Less(a, b, tie) => Cardinality(Ahead(part, tie, a)) < Cardinality(Ahead(part, tie, b))
         /\ \A k \in 0 .. (N - 1) : \E e \in EntriesOf(part) : Cardinality(Ahead(part, tie, e)) = k
<1>0. PICK E : E = EntriesOf(part)
  OBVIOUS
<1>1. IsFiniteSet(E) /\ N \in Nat
  BY <1>0, EntriesAre, FS_CardinalityType
<1>2. ASSUME NEW e \in E
      PROVE  /\ Ahead(part, tie, e) \subseteq E /\ IsFiniteSet(Ahead(part, tie, e))
             /\ e \notin Ahead(part, tie, e)
             /\ Cardinality(Ahead(part, tie, e)) \in 0 .. (N - 1)
  <2>1. Ahead(part, tie, e) \subseteq E /\ e \notin Ahead(part, tie, e)
    BY <1>0, LessOrders DEF Ahead
  <2>2. IsFiniteSet(Ahead(part, tie, e)) /\ Cardinality(Ahead(part, tie, e)) <= N
        /\ Cardinality(Ahead(part, tie, e)) # N
    BY <1>0, <1>1, <2>1, FS_Subset
  <2>3. Cardinality(Ahead(part, tie, e)) \in Nat
    BY <2>2, FS_CardinalityType
  <2> QED BY <1>1, <2>1, <2>2, <2>3
<1>3. ASSUME NEW a \in E, NEW b \in E, Less(a, b, tie)
      PROVE  Cardinality(Ahead(part, tie, a)) < Cardinality(Ahead(part, tie, b))
  <2>1. PICK A, B : A = Ahead(part, tie, a) /\ B = Ahead(part, tie, b)
    OBVIOUS
  <2>2. a \in B
    BY <1>0, <1>3, <2>1 DEF Ahead
  <2>3. A \subseteq B
    BY <1>0, <1>3, <2>1, LessOrders DEF Ahead
  <2>4. A # B /\ IsFiniteSet(B)
    BY <1>2, <2>1, <2>2
  <2>5. Cardinality(A) <= Cardinality(B) /\ Cardinality(A) # Cardinality(B)
    BY <2>3, <2>4, FS_Subset
  <2>6. Cardinality(A) \in Nat /\ Cardinality(B) \in Nat
    BY <1>1, <1>2, <2>1
  <2> QED BY <2>1, <2>5, <2>6
<1>4. PICK rank : rank = [e \in E |-> Cardinality(Ahead(part, tie, e))]
  OBVIOUS
<1>5. rank \in [E -> 0 .. (N - 1)] /\ \A e \in E : rank[e] = Cardinality(Ahead(part, tie, e))
  BY <1>2, <1>4
<1>6. ASSUME NEW a \in E, NEW b \in E, rank[a] = rank[b] PROVE a = b
  <2>1. rank[a] \in Int /\ rank[b] \in Int
    BY <1>1, <1>5
  <2>2. ~Less(a, b, tie) /\ ~Less(b, a, tie)
    BY <1>3, <1>5, <1>6, <2>1
  <2> QED BY <1>0, <2>2, LessOrders
<1>7. rank \in Injection(E, 0 .. (N - 1))
  BY <1>5, <1>6 DEF Injection, IsInjective
<1>8. IsFiniteSet(0 .. (N - 1)) /\ Cardinality(0 .. (N - 1)) = N
  <2>1. 0 \in Int /\ N - 1 \in Int
    BY <1>1
  <2>2. IsFiniteSet(0 .. (N - 1)) /\ Cardinality(0 .. (N - 1)) = IF 0 > N - 1 THEN 0 ELSE (N - 1) - 0 + 1
    BY <2>1, FS_Interval
  <2> QED BY <1>1, <2>2
<1>9. rank \in Surjection(E, 0 .. (N - 1))
  BY <1>0, <1>7, <1>8, FS_Injection
<1>10. \A k \in 0 .. (N - 1) : \E e \in E : Cardinality(Ahead(part, tie, e)) = k
  BY <1>5, <1>9 DEF Surjection
<1> QED BY <1>0, <1>1, <1>2, <1>3, <1>10

LEMMA MadeIs ==
  ASSUME NEW part, Timed(part), NEW tie \in Ties(Len(part)), NEW es, es = makeEntries(part, tie)
  PROVE  /\ Len(es) \in Nat /\ DOMAIN es = 1 .. Len(es)
         /\ \A k \in 1 .. Len(es) : es[k] \in EntriesOf(part)
         /\ \A f \in EntriesOf(part) : \E k \in 1 .. Len(es) : es[k] = f
         /\ \A j, k \in 1 .. Len(es) : (Less(es[j], es[k], tie) => j < k) /\ (es[j] = es[k] => j = k)
<1>0. PICK E, N : E = EntriesOf(part) /\ N = Cardinality(E)
  OBVIOUS
<1>1. /\ N \in Nat
      /\ \A e \in E : Cardinality(Ahead(part, tie, e)) \in 0 .. (N - 1)
      /\ \A a, b \in E : Less(a, b, tie) => Cardinality(Ahead(part, tie, a)) < Cardinality(Ahead(part, tie, b))
      /\ \A k \in 0 .. (N - 1) : \E e \in E : Cardinality(Ahead(part, tie, e)) = k
  BY <1>0, RankIs
<1>2. es = [k \in 1 .. N |-> CHOOSE e \in E : Cardinality(Ahead(part, tie, e)) = k - 1]
  BY <1>0 DEF makeEntries, Ahead
<1>3. ASSUME NEW k \in 1 .. N PROVE es[k] \in E /\ Cardinality(Ahead(part, tie, es[k])) = k - 1
  <2>1. k - 1 \in 0 .. (N - 1)
    BY <1>1
  <2>2. \E e \in E : Cardinality(Ahead(part, tie, e)) = k - 1
    BY <1>1, <2>1
  <2> QED BY <1>2, <2>2
<1>4. Len(es) = N /\ DOMAIN es = 1 .. N
  BY <1>1, <1>2
<1>5. \A a, b \in E : Cardinality(Ahead(part, tie, a)) = Cardinality(Ahead(part, tie, b)) => a = b
  <2> SUFFICES ASSUME NEW a \in E, NEW b \in E,
                      Cardinality(Ahead(part, tie, a)) = Cardinality(Ahead(part, tie, b))
               PROVE  a = b
    OBVIOUS
  <2>1. Cardinality(Ahead(part, tie, a)) \in Int /\ Cardinality(Ahead(part, tie, b)) \in Int
    BY <1>1
  <2>2. ~Less(a, b, tie) /\ ~Less(b, a, tie)
    BY <1>1, <2>1
  <2> QED BY <1>0, <2>2, LessOrders
<1>6. ASSUME NEW f \in E PROVE \E k \in 1 .. N : es[k] = f
  <2>1. PICK t : t = Cardinality(Ahead(part, tie, f))
    OBVIOUS
  <2>2. t \in 0 .. (N - 1) /\ t + 1 \in 1 .. N /\ (t + 1) - 1 = t
    BY <1>1, <2>1
  <2>3. es[t + 1] \in E /\ Cardinality(Ahead(part, tie, es[t + 1])) = t
    BY <1>3, <2>2
  <2>4. es[t + 1] = f
    BY <1>5, <2>1, <2>3
  <2> QED BY <2>2, <2>4
<1>7. ASSUME NEW j \in 1 .. N, NEW k \in 1 .. N
      PROVE  (Less(es[j], es[k], tie) => j < k) /\ (es[j] = es[k] => j = k)
  <2>1. PICK a, b : a = es[j] /\ b = es[k]
    OBVIOUS
  <2>2. a \in E /\ b \in E /\ Cardinality(Ahead(part, tie, a)) = j - 1 /\ Cardinality(Ahead(part, tie, b)) = k - 1
    BY <1>3, <2>1
  <2>3. Less(a, b, tie) => j - 1 < k - 1
    BY <1>1, <2>2
  <2>4. a = b => j - 1 = k - 1
    BY <2>2
  <2> QED BY <1>1, <2>1, <2>3, <2>4
<1> QED BY <1>0, <1>1, <1>3, <1>4, <1>6, <1>7

LEMMA MadePaired ==
  ASSUME NEW part, Timed(part), NEW tie \in Ties(Len(part)), NEW es, es = makeEntries(part, tie)
  PROVE  Paired(es, Len(part)) /\ Ordered(es, part)
<1>0. PICK E, N : E = EntriesOf(part) /\ N = Len(es)
  OBVIOUS
<1>1. /\ N \in Nat
      /\ \A k \in 1 .. N : es[k] \in E
      /\ \A f \in E : \E k \in 1 .. N : es[k] = f
      /\ \A j, k \in 1 .. N : (Less(es[j], es[k], tie) => j < k) /\ (es[j] = es[k] => j = k)
  BY <1>0, MadeIs
<1>2. Len(part) \in Nat /\ \A k \in 1 .. N : es[k].id \in 1 .. Len(part) /\ es[k].kind \in {"call", "return"}
  BY <1>0, <1>1, EntriesAre DEF Timed
<1>3. ASSUME NEW k \in 1 .. N, es[k].kind = "call"
      PROVE  \E m \in 1 .. N : es[m].kind = "return" /\ es[m].id = es[k].id /\ k < m
  <2>1. PICK i, e : i = es[k].id /\ e = es[k]
    OBVIOUS
  <2>2. i \in 1 .. Len(part) /\ e \in E /\ e = CallOf(part, i)
    BY <1>0, <1>1, <1>2, <1>3, <2>1, EntriesAre
  <2>3. PICK f : f = ReturnOf(part, i)
    OBVIOUS
  <2>4. f \in E /\ e.time < f.time /\ f.kind = "return" /\ f.id = i
    <3>1. f \in E /\ e.time < f.time
      BY <1>0, <2>2, <2>3, EntriesAre
    <3> QED BY <2>3, <3>1 DEF ReturnOf
  <2>5. Less(e, f, tie)
    BY <2>4 DEF Less
  <2>6. PICK m \in 1 .. N : es[m] = f
    BY <1>1, <2>4
  <2>7. k < m
    BY <1>1, <2>1, <2>5, <2>6
  <2> QED BY <2>1, <2>4, <2>6, <2>7
<1>4. ASSUME NEW j \in 1 .. N, NEW k \in 1 .. N, es[j].id = es[k].id, es[j].kind = es[k].kind
      PROVE  j = k
  <2>1. PICK a, b : a = es[j] /\ b = es[k]
    OBVIOUS
  <2>2. a \in E /\ b \in E /\ a.id = b.id /\ a.kind = b.kind
    BY <1>1, <1>4, <2>1
  <2>3. a = b
    BY <1>0, <2>2, EntriesAre
  <2> QED BY <1>1, <2>1, <2>3
<1>5. Paired(es, Len(part))
  BY <1>0, <1>1, <1>2, <1>3, <1>4 DEF Paired
<1>6. ASSUME NEW i \in 1 .. Len(part), NEW kind \in {"call", "return"}
      PROVE  \E k \in 1 .. N : es[k].kind = kind /\ es[k].id = i
  <2>1. PICK f : f = IF kind = "call" THEN CallOf(part, i) ELSE ReturnOf(part, i)
    OBVIOUS
  <2>2. f \in E
    BY <1>0, <2>1, EntriesAre
  <2>3. f.kind = kind /\ f.id = i
    BY <2>1 DEF ReturnOf, CallOf
  <2>4. PICK k \in 1 .. N : es[k] = f
    BY <1>1, <2>2
  <2> QED BY <2>3, <2>4
<1>7. ASSUME NEW j \in 1 .. N, NEW k \in 1 .. N, es[j].kind = "return", es[k].kind = "call"
      PROVE  j < k <=> part[es[j].id].ret < part[es[k].id].call
  <2>1. PICK a, b : a = es[j] /\ b = es[k]
    OBVIOUS
  <2>2. a \in E /\ b \in E /\ a = ReturnOf(part, a.id) /\ b = CallOf(part, b.id)
    BY <1>0, <1>1, <1>7, <2>1, EntriesAre
  <2>3. a.time = part[a.id].ret /\ b.time = part[b.id].call
    BY <2>2 DEF ReturnOf, CallOf
  <2>4. a.id \in 1 .. Len(part) /\ b.id \in 1 .. Len(part)
    BY <1>2, <2>1
  <2>5. a.time \in Int /\ b.time \in Int
    BY <2>3, <2>4 DEF Timed
  <2>6. a.time < b.time => Less(a, b, tie)
    BY DEF Less
  <2>7. ~(a.time < b.time) => Less(b, a, tie)
    BY <1>7, <2>1, <2>5 DEF Less
  <2>8. (Less(a, b, tie) => j < k) /\ (Less(b, a, tie) => k < j)
    BY <1>1, <2>1
  <2> QED BY <2>1, <2>3, <2>6, <2>7, <2>8
<1>8. Ordered(es, part)
  BY <1>0, <1>6, <1>7 DEF Ordered
<1> QED BY <1>5, <1>8

-----------------------------------------------------------------------------
(***************************************************************************)
(* convertEntries after renumber: ids are counted by their calls, so no    *)
(* two of them become one.                                                 *)
(***************************************************************************)

\* What HistoriesAssumption says of a history of events.
Matched(ev) ==
    /\ Len(ev) \in Nat /\ DOMAIN ev = 1 .. Len(ev)
    /\ \A k \in DOMAIN ev :
           /\ DOMAIN ev[k] = {"kind", "id", "op", "value", "out"}
           /\ ev[k].kind \in {"call", "return"}
           /\ \E j \in DOMAIN ev : ev[j].id = ev[k].id /\ ev[j].kind # ev[k].kind
           /\ \A j \in DOMAIN ev :
                  /\ ev[j].id = ev[k].id /\ ev[j].kind = ev[k].kind => j = k
                  /\ ev[j].id = ev[k].id /\ ev[j].kind = "call" => j <= k

\* The ids seen when id is called, and the number it gets.
Seen(ev, id) == {ev[j].id : j \in 1 .. Position(ev, id, "call")}
Number(ev, id) == Cardinality(Seen(ev, id))

LEMMA CallIs ==
  ASSUME NEW ev, Matched(ev), NEW k \in DOMAIN ev, NEW c, c = Position(ev, ev[k].id, "call")
  PROVE  c \in DOMAIN ev /\ ev[c].id = ev[k].id /\ c <= k
<1>1. \E j \in DOMAIN ev : ev[j].id = ev[k].id /\ ev[j].kind = "call"
  BY DEF Matched
<1>2. c \in DOMAIN ev /\ ev[c].id = ev[k].id /\ ev[c].kind = "call"
  BY <1>1 DEF Position
<1>3. c <= k
  BY <1>2 DEF Matched
<1> QED BY <1>2, <1>3

LEMMA NumbersAre ==
  ASSUME NEW ev, Matched(ev)
  PROVE  /\ Cardinality(Ids(ev)) \in Nat
         /\ \A k \in DOMAIN ev : Number(ev, ev[k].id) \in 1 .. Cardinality(Ids(ev))
         /\ \A j, k \in DOMAIN ev :
                Number(ev, ev[j].id) = Number(ev, ev[k].id) => ev[j].id = ev[k].id
         /\ \A i \in 1 .. Cardinality(Ids(ev)) : \E k \in DOMAIN ev : Number(ev, ev[k].id) = i
<1>0. PICK N \in Nat : N = Len(ev)
  BY DEF Matched
<1>1. DOMAIN ev = 1 .. N /\ Ids(ev) = {ev[i].id : i \in 1 .. N}
  BY <1>0 DEF Matched, Ids
<1>2. IsFiniteSet(Ids(ev)) /\ Cardinality(Ids(ev)) \in Nat
  <2>1. PICK f : f = [i \in 1 .. N |-> ev[i].id]
    OBVIOUS
  <2>2. Ids(ev) = {f[i] : i \in 1 .. N} /\ DOMAIN f = 1 .. N
    BY <1>1, <2>1
  <2> QED BY <2>2, RangeIsFinite, FS_CardinalityType
<1>3. ASSUME NEW k \in DOMAIN ev
      PROVE  /\ Seen(ev, ev[k].id) \subseteq Ids(ev) /\ IsFiniteSet(Seen(ev, ev[k].id))
             /\ ev[k].id \in Seen(ev, ev[k].id)
             /\ Number(ev, ev[k].id) \in 1 .. Cardinality(Ids(ev))
  <2>1. PICK c : c = Position(ev, ev[k].id, "call")
    OBVIOUS
  <2>2. c \in 1 .. N /\ ev[c].id = ev[k].id
    BY <1>1, <2>1, CallIs
  <2>3. PICK S : S = Seen(ev, ev[k].id)
    OBVIOUS
  <2>4. S = {ev[j].id : j \in 1 .. c}
    BY <2>1, <2>3 DEF Seen
  <2>5. S \subseteq Ids(ev) /\ ev[k].id \in S
    BY <1>1, <2>2, <2>4
  <2>6. IsFiniteSet(S) /\ Cardinality(S) <= Cardinality(Ids(ev))
    BY <1>2, <2>5, FS_Subset
  <2>7. Cardinality(S) \in Nat /\ Cardinality(S) # 0
    BY <2>5, <2>6, FS_CardinalityType, FS_EmptySet
  <2> QED BY <1>2, <2>3, <2>5, <2>6, <2>7 DEF Number
<1>4. ASSUME NEW j \in DOMAIN ev, NEW k \in DOMAIN ev,
             Position(ev, ev[j].id, "call") < Position(ev, ev[k].id, "call"),
             Number(ev, ev[j].id) = Number(ev, ev[k].id)
      PROVE  FALSE
  <2>1. PICK c, d : c = Position(ev, ev[j].id, "call") /\ d = Position(ev, ev[k].id, "call")
    OBVIOUS
  <2>2. c \in 1 .. N /\ d \in 1 .. N /\ c < d
    BY <1>1, <1>4, <2>1, CallIs
  <2>3. PICK S, T : S = Seen(ev, ev[j].id) /\ T = Seen(ev, ev[k].id)
    OBVIOUS
  <2>4. S = {ev[i].id : i \in 1 .. c} /\ T = {ev[i].id : i \in 1 .. d}
    BY <2>1, <2>3 DEF Seen
  <2>5. S \subseteq T
    BY <2>2, <2>4
  <2>6. ev[k].id \notin S
    <3> SUFFICES ASSUME NEW i \in 1 .. c, ev[i].id = ev[k].id PROVE FALSE
      BY <2>4
    <3>1. i \in DOMAIN ev
      BY <1>1, <2>2
    <3>2. d <= i
      BY <2>1, <3>1, CallIs
    <3> QED BY <2>2, <3>2
  <2>7. S # T /\ IsFiniteSet(T)
    BY <1>3, <2>3, <2>6
  <2>8. Cardinality(S) # Cardinality(T)
    BY <2>5, <2>7, FS_Subset
  <2> QED BY <1>4, <2>3, <2>8 DEF Number
<1>5. ASSUME NEW j \in DOMAIN ev, NEW k \in DOMAIN ev, Number(ev, ev[j].id) = Number(ev, ev[k].id)
      PROVE  ev[j].id = ev[k].id
  <2>1. PICK c, d : c = Position(ev, ev[j].id, "call") /\ d = Position(ev, ev[k].id, "call")
    OBVIOUS
  <2>2. c \in 1 .. N /\ d \in 1 .. N /\ ev[c].id = ev[j].id /\ ev[d].id = ev[k].id
    BY <1>1, <2>1, CallIs
  <2>3. ~(c < d) /\ ~(d < c)
    BY <1>4, <1>5, <2>1
  <2>4. c = d
    BY <2>2, <2>3
  <2> QED BY <2>2, <2>4
<1>6. ASSUME NEW i \in 1 .. Cardinality(Ids(ev)) PROVE \E k \in DOMAIN ev : Number(ev, ev[k].id) = i
  <2>1. PICK I, M, f : I = Ids(ev) /\ M = Cardinality(I) /\ f = [x \in I |-> Number(ev, x)]
    OBVIOUS
  <2>2. \A x \in I : \E k \in DOMAIN ev : x = ev[k].id
    BY <2>1 DEF Ids
  <2>3. f \in [I -> 1 .. M] /\ \A x \in I : f[x] = Number(ev, x)
    BY <1>3, <2>1, <2>2
  <2>4. \A x, y \in I : f[x] = f[y] => x = y
    BY <1>5, <2>2, <2>3
  <2>5. f \in Injection(I, 1 .. M)
    BY <2>3, <2>4 DEF Injection, IsInjective
  <2>6. IsFiniteSet(1 .. M) /\ Cardinality(1 .. M) = M
    <3>1. 1 \in Int /\ M \in Int
      BY <1>2, <2>1
    <3>2. IsFiniteSet(1 .. M) /\ Cardinality(1 .. M) = IF 1 > M THEN 0 ELSE M - 1 + 1
      BY <3>1, FS_Interval
    <3> QED BY <1>2, <2>1, <3>2
  <2>7. f \in Surjection(I, 1 .. M)
    BY <1>2, <2>1, <2>5, <2>6, FS_Injection
  <2>8. PICK x \in I : f[x] = i
    BY <2>1, <2>7 DEF Surjection
  <2> QED BY <2>2, <2>3, <2>8
<1> QED BY <1>2, <1>3, <1>5, <1>6

LEMMA ConvertedPaired ==
  ASSUME NEW ev, Matched(ev), NEW es, es = convertEntries(renumber(ev)), NEW part,
         part = [i \in 1 .. Cardinality(Ids(ev)) |-> Operation(renumber(ev), i)]
  PROVE  Paired(es, Len(part)) /\ Ordered(es, part) /\ Len(part) = Cardinality(Ids(ev))
<1>0. PICK N \in Nat : N = Len(ev)
  BY DEF Matched
<1>1. DOMAIN ev = 1 .. N
  BY <1>0 DEF Matched
<1>2. PICK rn : rn = renumber(ev)
  OBVIOUS
<1>3. ASSUME NEW k \in 1 .. N PROVE rn[k].kind = ev[k].kind /\ rn[k].id = Number(ev, ev[k].id)
  <2>1. rn[k] = [ev[k] EXCEPT !.id = Number(ev, ev[k].id)]
    BY <1>1, <1>2 DEF renumber, Number, Seen
  <2>2. DOMAIN ev[k] = {"kind", "id", "op", "value", "out"}
    BY <1>1 DEF Matched
  <2> QED BY <2>1, <2>2
<1>4. DOMAIN rn = 1 .. N
  BY <1>1, <1>2 DEF renumber
<1>5. es = [k \in 1 .. N |-> [kind |-> rn[k].kind, id |-> rn[k].id, time |-> k]]
  BY <1>2, <1>4 DEF convertEntries
<1>6. Len(es) = N /\ \A k \in 1 .. N : es[k].kind = ev[k].kind /\ es[k].id = Number(ev, ev[k].id)
  BY <1>3, <1>5
<1>7. /\ Cardinality(Ids(ev)) \in Nat
      /\ \A k \in 1 .. N : Number(ev, ev[k].id) \in 1 .. Cardinality(Ids(ev))
      /\ \A j, k \in 1 .. N : Number(ev, ev[j].id) = Number(ev, ev[k].id) => ev[j].id = ev[k].id
      /\ \A i \in 1 .. Cardinality(Ids(ev)) : \E k \in 1 .. N : Number(ev, ev[k].id) = i
  BY <1>1, NumbersAre
<1>8. \A k \in 1 .. N : es[k].id \in 1 .. Cardinality(Ids(ev)) /\ es[k].kind \in {"call", "return"}
  <2>1. \A k \in 1 .. N : ev[k].kind \in {"call", "return"}
    BY <1>1 DEF Matched
  <2> QED BY <1>6, <1>7, <2>1
<1>9. ASSUME NEW k \in 1 .. N, es[k].kind = "call"
      PROVE  \E m \in 1 .. N : es[m].kind = "return" /\ es[m].id = es[k].id /\ k < m
  <2>1. PICK m \in 1 .. N : ev[m].id = ev[k].id /\ ev[m].kind # ev[k].kind
    BY <1>1 DEF Matched
  <2>2. ev[k].kind = "call" /\ ev[m].kind = "return" /\ k <= m /\ k # m
    BY <1>1, <1>6, <1>9, <2>1 DEF Matched
  <2> QED BY <1>6, <2>1, <2>2
<1>10. ASSUME NEW j \in 1 .. N, NEW k \in 1 .. N, es[j].id = es[k].id, es[j].kind = es[k].kind
       PROVE  j = k
  <2>1. ev[j].id = ev[k].id /\ ev[j].kind = ev[k].kind
    BY <1>6, <1>7, <1>10
  <2> QED BY <1>1, <2>1 DEF Matched
<1>11. PICK M : M = Cardinality(Ids(ev))
  OBVIOUS
<1>12. M \in Nat /\ Len(part) = M
  BY <1>7, <1>11
<1>13. Paired(es, Len(part))
  BY <1>0, <1>6, <1>7, <1>8, <1>9, <1>10, <1>11, <1>12 DEF Paired
<1>14. ASSUME NEW i \in 1 .. M, NEW kind \in {"call", "return"}
       PROVE  \E k \in 1 .. N : es[k].kind = kind /\ es[k].id = i
  <2>1. PICK j \in 1 .. N : Number(ev, ev[j].id) = i
    BY <1>7, <1>11
  <2>2. PICK m \in 1 .. N : ev[m].id = ev[j].id /\ ev[m].kind # ev[j].kind
    BY <1>1 DEF Matched
  <2>3. ev[j].kind \in {"call", "return"} /\ ev[m].kind \in {"call", "return"}
    BY <1>1 DEF Matched
  <2> QED BY <1>6, <2>1, <2>2, <2>3
<1>15. ASSUME NEW j \in 1 .. N
       PROVE  /\ es[j].kind = "return" => part[es[j].id].ret = j
              /\ es[j].kind = "call" => part[es[j].id].call = j
  <2>1. PICK i : i = es[j].id
    OBVIOUS
  <2>2. i \in 1 .. M /\ part[i] = Operation(rn, i)
    BY <1>2, <1>8, <1>11, <2>1
  <2>3. part[i].call = Position(rn, i, "call") /\ part[i].ret = Position(rn, i, "return")
    BY <2>2 DEF Operation
  <2>4. \A kind : es[j].kind = kind => Position(rn, i, kind) = j
    <3> SUFFICES ASSUME NEW kind, es[j].kind = kind PROVE Position(rn, i, kind) = j
      OBVIOUS
    <3>1. rn[j].id = i /\ rn[j].kind = kind
      BY <1>3, <1>6, <2>1
    <3>2. \A m \in 1 .. N : rn[m].id = i /\ rn[m].kind = kind => m = j
      BY <1>3, <1>6, <1>10, <2>1
    <3> QED BY <1>4, <3>1, <3>2 DEF Position
  <2> QED BY <2>1, <2>3, <2>4
<1>16. ASSUME NEW j \in 1 .. N, NEW k \in 1 .. N, es[j].kind = "return", es[k].kind = "call"
       PROVE  j < k <=> part[es[j].id].ret < part[es[k].id].call
  BY <1>15, <1>16
<1>17. Ordered(es, part)
  <2>1. N = Len(es) /\ M = Len(part)
    BY <1>6, <1>12
  <2>2. ASSUME NEW i \in 1 .. Len(part), NEW kind \in {"call", "return"}
        PROVE  \E k \in 1 .. Len(es) : es[k].kind = kind /\ es[k].id = i
    <3>1. i \in 1 .. M
      BY <2>1
    <3>2. PICK k \in 1 .. N : es[k].kind = kind /\ es[k].id = i
      BY <1>14, <3>1
    <3>3. k \in 1 .. Len(es)
      BY <2>1
    <3> QED BY <3>2, <3>3
  <2>3. \A j, k \in 1 .. Len(es) : es[j].kind = "return" /\ es[k].kind = "call" =>
            (j < k <=> part[es[j].id].ret < part[es[k].id].call)
    BY <1>16, <2>1
  <2> QED BY <2>2, <2>3 DEF Ordered
<1> QED BY <1>11, <1>12, <1>13, <1>17

-----------------------------------------------------------------------------

\* What HistoriesAssumption says of a history of operations.
Legal(h) ==
    /\ Len(h) \in Nat
    /\ \A i \in 1 .. Len(h) : h[i].call \in Int /\ h[i].ret \in Int /\ h[i].call < h[i].ret

LEMMA PositionsAre ==
  ASSUME NEW h, Len(h) \in Nat, NEW k, NEW S, S = Positions(h, k)
  PROVE  S \subseteq 1 .. Len(h) /\ S \subseteq Int /\ IsFiniteSet(S) /\ Cardinality(S) \in Nat
<1>1. S \subseteq 1 .. Len(h) /\ IsFiniteSet(1 .. Len(h))
  BY FS_Interval DEF Positions
<1> QED BY <1>1, FS_Subset, FS_CardinalityType

LEMMA PartIs ==
  ASSUME NEW h, Len(h) \in Nat, NEW k \in Keys(h), NEW S, S = Positions(h, k),
         NEW part, part = Partition(h)[k]
  PROVE  /\ Len(part) \in Nat /\ Len(part) = Cardinality(S)
         /\ \A n \in 1 .. Len(part) : part[n] = h[Nth(S, n)] /\ Nth(S, n) \in S
<1>1. S \subseteq Int /\ IsFiniteSet(S) /\ Cardinality(S) \in Nat
  BY PositionsAre
<1>2. part = [n \in 1 .. Cardinality(S) |-> h[Nth(S, n)]]
  BY DEF Partition
<1>3. Len(part) = Cardinality(S)
  BY <1>1, <1>2
<1> QED BY <1>1, <1>2, <1>3, NthIs

LEMMA PartLegal ==
  ASSUME NEW h, Legal(h), NEW k \in Keys(h), NEW part, part = Partition(h)[k]
  PROVE  Timed(part) /\ \A n \in 1 .. Len(part) : part[n].key = k
<1>1. PICK S : S = Positions(h, k)
  OBVIOUS
<1>2. /\ Len(part) \in Nat
      /\ \A n \in 1 .. Len(part) : part[n] = h[Nth(S, n)] /\ Nth(S, n) \in S
  BY <1>1, PartIs DEF Legal
<1>3. \A i \in S : i \in 1 .. Len(h) /\ h[i].key = k
  BY <1>1 DEF Positions
<1> QED BY <1>2, <1>3 DEF Timed, Legal

\* The entries and the operations a check starts with.
LEMMA PartsInit ==
  ASSUME Init, NEW p \in DOMAIN parts
  PROVE  /\ Paired(entries[p], Len(parts[p])) /\ Ordered(entries[p], parts[p])
         /\ \A i \in 1 .. Len(parts[p]) : parts[p][i].key = p
<1>1. CASE checkOperations
  <2>1. history \in Histories /\ parts = Partition(history) /\ DOMAIN parts = Keys(history)
    BY <1>1 DEF checkOperations, Partition
  <2>2. PICK tie \in Ties(Len(parts[p])) : entries[p] = makeEntries(parts[p], tie)
    BY <1>1 DEF checkOperations, Sorted
  <2>3. Legal(history)
    BY <2>1, HistoriesAssumption DEF Legal
  <2>4. Timed(parts[p]) /\ \A i \in 1 .. Len(parts[p]) : parts[p][i].key = p
    BY <2>1, <2>3, PartLegal
  <2> QED BY <2>2, <2>4, MadePaired
<1>2. CASE checkEvents
  <2>1. PICK ev \in EventHistories :
            /\ parts = [k \in {"all"} |-> [i \in 1 .. Cardinality(Ids(ev)) |-> Operation(renumber(ev), i)]]
            /\ entries = [k \in {"all"} |-> convertEntries(renumber(ev))]
    BY <1>2 DEF checkEvents
  <2>2. Matched(ev)
    BY HistoriesAssumption DEF Matched
  <2>3. PICK es, part : es = entries[p] /\ part = parts[p]
    OBVIOUS
  <2>4. /\ es = convertEntries(renumber(ev)) /\ p = "all"
        /\ part = [i \in 1 .. Cardinality(Ids(ev)) |-> Operation(renumber(ev), i)]
    BY <2>1, <2>3
  <2>5. Paired(es, Len(part)) /\ Ordered(es, part) /\ Len(part) = Cardinality(Ids(ev))
    BY <2>2, <2>4, ConvertedPaired
  <2>6. \A i \in 1 .. Len(part) : part[i].key = p
    BY <2>4, <2>5 DEF Operation
  <2> QED BY <2>3, <2>5, <2>6
<1> QED BY <1>1, <1>2 DEF Init

LEMMA CheckInit ==
  ASSUME Init
  PROVE  CheckInv
<1>1. single = [k \in DOMAIN parts |-> StartSingle(entries[k], Len(parts[k]))]
  BY DEF Init
<1>2. ASSUME NEW p \in DOMAIN parts
      PROVE  Paired(entries[p], Len(parts[p])) /\ ListInv(entries[p], Len(parts[p]), single[p])
  <2>1. single[p] = StartSingle(entries[p], Len(parts[p]))
    BY <1>1
  <2> QED BY <2>1, PartsInit, StartKeeps
<1> QED BY <1>1, <1>2 DEF CheckInv

\* For every history, every order of ties and every width of a bitset's words,
\* lift and unlift keep the list of checkSingle exact: the entries of the
\* operations that are not linearized, in order, linked both ways.
THEOREM ListIsIntact == Spec => []ListIntact
<1>1. Init => CheckInv
  BY CheckInit
<1>2. CheckInv /\ [Next]_vars => CheckInv'
  BY CheckNext
<1>3. CheckInv => ListIntact
  BY InvIntact
<1> QED BY <1>1, <1>2, <1>3, PTL DEF Spec

-----------------------------------------------------------------------------
(***************************************************************************)
(* What the stack says about the history.                                  *)
(***************************************************************************)

LEMMA SetInduction ==
  ASSUME NEW S, 0 \in S, \A n \in Nat : n \in S => n + 1 \in S
  PROVE  Nat \subseteq S
<1> SUFFICES ASSUME Nat \ S # {} PROVE FALSE
  OBVIOUS
<1>1. PICK x \in Nat \ S : \A y \in Nat \ S : <<y, x>> \notin OpToRel(<, Nat)
  BY WFMin, NatLessThanWellFounded
<1>2. x # 0 /\ x - 1 \in Nat /\ x = (x - 1) + 1
  OBVIOUS
<1>3. x - 1 \in Nat \ S
  BY <1>2
<1>4. x - 1 < x
  BY <1>2
<1> QED BY <1>1, <1>3, <1>4 DEF OpToRel

\* What a step of Values makes of the value v.
ValueAfter(h, q, k, n, v) == IF h[q[n]].key = k THEN KvStep(v, h[q[n]]) ELSE v

IsValues(h, q, k, N, f) ==
    f = [n \in 0 .. N |-> IF n = 0 THEN KvInit ELSE ValueAfter(h, q, k, n, f[n - 1])]

LEMMA ValuesExist ==
  ASSUME NEW h, NEW q, NEW k
  PROVE  \A N \in Nat : \E f : IsValues(h, q, k, N, f)
<1> DEFINE S == {N \in Nat : \E f : IsValues(h, q, k, N, f)}
<1>1. 0 \in S
  <2>1. IsValues(h, q, k, 0, [n \in 0 .. 0 |-> KvInit])
    BY DEF IsValues
  <2> QED BY <2>1
<1>2. ASSUME NEW N \in Nat, N \in S PROVE N + 1 \in S
  <2>1. PICK f : IsValues(h, q, k, N, f)
    BY <1>2
  <2>2. PICK x : x = ValueAfter(h, q, k, N + 1, f[N])
    OBVIOUS
  <2>3. PICK g : g = [n \in 0 .. (N + 1) |-> IF n = N + 1 THEN x ELSE f[n]]
    OBVIOUS
  <2>4. \A n \in 0 .. N : f[n] = IF n = 0 THEN KvInit ELSE ValueAfter(h, q, k, n, f[n - 1])
    BY <2>1 DEF IsValues
  <2>5. \A n \in 0 .. N : g[n] = f[n]
    BY <2>3
  <2>6. g[N + 1] = x
    BY <2>3
  <2>7. ASSUME NEW n \in 0 .. (N + 1)
        PROVE  g[n] = IF n = 0 THEN KvInit ELSE ValueAfter(h, q, k, n, g[n - 1])
    <3>1. CASE n = N + 1
      <4>1. n # 0 /\ n - 1 = N /\ g[n - 1] = f[N]
        BY <2>5, <3>1
      <4> QED BY <2>2, <2>6, <3>1, <4>1
    <3>2. CASE n # N + 1 /\ n # 0
      <4>1. n \in 0 .. N /\ n - 1 \in 0 .. N
        BY <3>2
      <4> QED BY <2>4, <2>5, <3>2, <4>1
    <3>3. CASE n = 0
      BY <2>4, <2>5, <3>3
    <3> QED BY <3>1, <3>2, <3>3
  <2>8. IsValues(h, q, k, N + 1, g)
    BY <2>3, <2>7 DEF IsValues
  <2> QED BY <2>8
<1> HIDE DEF S
<1>3. Nat \subseteq S
  BY <1>1, <1>2, SetInduction
<1> QED BY <1>3 DEF S

LEMMA ValuesAre ==
  ASSUME NEW h, NEW q, NEW k, Len(q) \in Nat, NEW v, v = Values(h, q, k)
  PROVE  /\ v[0] = KvInit
         /\ \A n \in 1 .. Len(q) : v[n] = ValueAfter(h, q, k, n, v[n - 1])
<1>1. \E f : IsValues(h, q, k, Len(q), f)
  BY ValuesExist
<1>2. v = CHOOSE f : IsValues(h, q, k, Len(q), f)
  BY DEF Values, IsValues, ValueAfter
<1>3. IsValues(h, q, k, Len(q), v)
  BY <1>1, <1>2
<1> QED BY <1>3 DEF IsValues

Keyed(part, p) == \A i \in 1 .. Len(part) : part[i].key = p

\* The states on the stack are the values along it.
LEMMA StatesAreValues ==
  ASSUME NEW es, NEW part, NEW c, NEW s, NEW p, NEW q, Len(c) \in Nat,
         Keyed(part, p), q = IdsOn(es, c), q \in [1 .. Len(c) -> 1 .. Len(part)],
         Replays(es, part, c, s)
  PROVE  \A n \in 0 .. Len(c) : Values(part, q, p)[n] = StateAt(c, s, n + 1)
<1>1. PICK v, N : v = Values(part, q, p) /\ N = Len(c)
  OBVIOUS
<1>2. Len(q) = N /\ N \in Nat /\ \A i \in 1 .. N : q[i] \in 1 .. Len(part)
  BY <1>1
<1>3. /\ v[0] = KvInit
      /\ \A n \in 1 .. N : v[n] = ValueAfter(part, q, p, n, v[n - 1])
  BY <1>1, <1>2, ValuesAre
<1> DEFINE S == {n \in Nat : n <= N => v[n] = StateAt(c, s, n + 1)}
<1>4. 0 \in S
  BY <1>3 DEF Replays
<1>5. ASSUME NEW n \in Nat, n \in S PROVE n + 1 \in S
  <2> SUFFICES ASSUME n + 1 <= N PROVE v[n + 1] = StateAt(c, s, (n + 1) + 1)
    OBVIOUS
  <2>1. n + 1 \in 1 .. N /\ n <= N /\ (n + 1) - 1 = n
    BY <1>2
  <2>2. v[n] = StateAt(c, s, n + 1)
    BY <1>5, <2>1
  <2>3. part[q[n + 1]].key = p /\ part[q[n + 1]] = OpOf(es, part, c[n + 1].entry)
    BY <1>1, <1>2, <2>1 DEF OpOf, IdsOn, Keyed
  <2>4. v[n + 1] = KvStep(v[n], part[q[n + 1]])
    BY <1>3, <2>1, <2>3 DEF ValueAfter
  <2> QED BY <1>1, <2>1, <2>2, <2>3, <2>4 DEF Replays
<1> HIDE DEF S
<1>6. Nat \subseteq S
  BY <1>4, <1>5, SetInduction
<1>7. ASSUME NEW n \in 0 .. N PROVE v[n] = StateAt(c, s, n + 1)
  BY <1>2, <1>6 DEF S
<1> QED BY <1>1, <1>7

LEMMA StackLinear ==
  ASSUME NEW es, NEW part, NEW g, NEW p, NEW q, Paired(es, Len(part)), Ordered(es, part),
         ListInv(es, Len(part), g), Keyed(part, p), Replays(es, part, g.calls, g.state),
         Passed(es, g), q = IdsOn(es, g.calls)
  PROVE  /\ Linearization(part, q)
         /\ Len(q) = Len(g.calls) /\ ToSet(q) = Lifted(es, g.calls, Len(g.calls))
         /\ g.state = Values(part, q, p)[Len(q)]
<1>1. PICK c, s, N : c = g.calls /\ s = g.state /\ N = Len(c)
  OBVIOUS
<1>2. StackInv(es, c) /\ N \in Nat
  BY <1>1 DEF ListInv, StackInv
<1>3. /\ Len(q) = N /\ DOMAIN q = 1 .. N
      /\ \A i \in 1 .. N : q[i] = es[c[i].entry].id /\ q[i] \in 1 .. Len(part) /\ c[i].entry \in 1 .. Len(es)
                           /\ es[c[i].entry].kind = "call"
  <2>1. Len(q) = N /\ DOMAIN q = 1 .. N /\ \A i \in 1 .. N : q[i] = es[c[i].entry].id
    BY <1>1, <1>2 DEF IdsOn
  <2>2. \A i \in 1 .. N : c[i].entry \in 1 .. Len(es) /\ es[c[i].entry].kind = "call"
    BY <1>1, <1>2 DEF StackInv
  <2> QED BY <2>1, <2>2 DEF Paired
<1>4. ToSet(q) = Lifted(es, c, N)
  <2>1. ToSet(q) = {q[i] : i \in 1 .. N}
    BY <1>3 DEF ToSet
  <2>2. ASSUME NEW x PROVE x \in {q[i] : i \in 1 .. N} <=> \E i \in 1 .. N : x = q[i]
    OBVIOUS
  <2>3. ASSUME NEW x PROVE x \in Lifted(es, c, N) <=> \E i \in 1 .. N : x = es[c[i].entry].id
    BY DEF Lifted
  <2>4. ASSUME NEW x PROVE x \in ToSet(q) <=> x \in Lifted(es, c, N)
    <3>1. x \in ToSet(q) <=> \E i \in 1 .. N : x = q[i]
      BY <2>1, <2>2, Zenon
    <3>2. \A i \in 1 .. N : q[i] = es[c[i].entry].id
      BY <1>3
    <3>3. x \in Lifted(es, c, N) <=> \E i \in 1 .. N : x = es[c[i].entry].id
      BY <2>3
    <3>4. ASSUME NEW i \in 1 .. N PROVE x = q[i] <=> x = es[c[i].entry].id
      BY <3>2
    <3> QED BY <3>1, <3>3, <3>4
  <2> QED BY <2>4
<1>5. \A n \in 0 .. N : Values(part, q, p)[n] = StateAt(c, s, n + 1)
  <2>1. q = IdsOn(es, c) /\ q \in [1 .. N -> 1 .. Len(part)]
    BY <1>1, <1>3 DEF IdsOn
  <2> QED BY <1>1, <1>2, <2>1, StatesAreValues
<1>6. s = Values(part, q, p)[N]
  <2>1. N \in 0 .. N /\ ~(N + 1 <= N)
    BY <1>2
  <2> QED BY <1>1, <1>5, <2>1 DEF StateAt
<1>7. ASSUME NEW n \in 1 .. N
      PROVE  KvOk(Values(part, q, part[q[n]].key)[n - 1], part[q[n]])
  <2>1. part[q[n]].key = p /\ part[q[n]] = OpOf(es, part, c[n].entry)
    BY <1>3 DEF OpOf, Keyed
  <2>2. n - 1 \in 0 .. N /\ (n - 1) + 1 = n
    BY <1>2
  <2>3. Values(part, q, p)[n - 1] = StateAt(c, s, n)
    BY <1>5, <2>2
  <2> QED BY <1>1, <2>1, <2>3 DEF Replays
<1>8. ASSUME NEW n \in 1 .. N, NEW i \in 1 .. Len(part), part[i].ret < part[q[n]].call
      PROVE  \E j \in 1 .. (n - 1) : q[j] = i
  <2>1. PICK k \in 1 .. Len(es) : es[k].kind = "return" /\ es[k].id = i
    BY DEF Ordered
  <2>2. PICK e : e = c[n].entry
    OBVIOUS
  <2>3. e \in 1 .. Len(es) /\ es[e].kind = "call" /\ q[n] = es[e].id
    BY <1>3, <2>2
  <2>4. k < e
    BY <1>8, <2>1, <2>3 DEF Ordered
  <2>5. OnlyCalls(es, Left(es, c, n - 1), e)
    BY <1>1, <2>2 DEF Passed
  <2>6. 0 < k
    BY DEF Paired
  <2>7. k \notin Left(es, c, n - 1)
    BY <2>1, <2>4, <2>5, <2>6 DEF OnlyCalls
  <2>8. i \in Lifted(es, c, n - 1)
    BY <2>1, <2>7 DEF Left
  <2>9. PICK j \in 1 .. (n - 1) : i = es[c[j].entry].id
    BY <2>8 DEF Lifted
  <2>10. j \in 1 .. N
    BY <1>2
  <2> QED BY <1>3, <2>9, <2>10
<1>9. Linearization(part, q)
  BY <1>3, <1>7, <1>8 DEF Linearization
<1> QED BY <1>1, <1>3, <1>4, <1>6, <1>9

LEMMA InvLinear ==
  ASSUME CheckInv, ReplayInv
  PROVE  StackIsLinearization
<1> SUFFICES ASSUME NEW p \in DOMAIN parts,
                    NEW g, g = single[p], NEW q, q = CallIds(p, g.calls)
             PROVE  /\ Linearization(parts[p], q)
                    /\ ToSet(q) = Elements(g.linearized)
                    /\ g.state = Values(parts[p], q, p)[Len(q)]
  BY DEF StackIsLinearization
<1>1. PICK es, part : es = entries[p] /\ part = parts[p]
  OBVIOUS
<1>2. /\ Paired(es, Len(part)) /\ ListInv(es, Len(part), g) /\ Ordered(es, part)
      /\ Keyed(part, p) /\ Replays(es, part, g.calls, g.state) /\ Passed(es, g)
  BY <1>1 DEF CheckInv, ReplayInv, Keyed
<1>3. q = IdsOn(es, g.calls)
  BY <1>1 DEF CallIds, IdsOn
<1>4. /\ Linearization(part, q) /\ ToSet(q) = Lifted(es, g.calls, Len(g.calls))
      /\ g.state = Values(part, q, p)[Len(q)]
  BY <1>2, <1>3, StackLinear
<1>5. Elements(g.linearized) = Lifted(es, g.calls, Len(g.calls))
  BY <1>2 DEF ListInv
<1> QED BY <1>1, <1>4, <1>5

LEMMA ReplayInit ==
  ASSUME Init
  PROVE  ReplayInv
<1> SUFFICES ASSUME NEW p \in DOMAIN parts
             PROVE  /\ Replays(entries[p], parts[p], single[p].calls, single[p].state)
                    /\ Passed(entries[p], single[p])
  BY PartsInit DEF ReplayInv
<1>1. PICK es, g : es = entries[p] /\ g = single[p]
  OBVIOUS
<1>2. g.calls = <<>> /\ g.state = KvInit /\ g.entry = 1
  BY <1>1 DEF Init, StartSingle
<1>3. Len(g.calls) = 0
  BY <1>2
<1>4. Replays(es, parts[p], g.calls, g.state)
  BY <1>2, <1>3 DEF Replays, StateAt
<1>5. Paired(es, Len(parts[p]))
  BY <1>1, PartsInit
<1>6. \A k \in Left(es, g.calls, 0) : k \in Int
  BY <1>5 DEF Left, Paired
<1>7. OnlyCalls(es, Left(es, g.calls, 0), g.entry)
  BY <1>2, <1>6 DEF OnlyCalls
<1> QED BY <1>1, <1>3, <1>4, <1>7 DEF Passed

LEMMA ReplayNext ==
  ASSUME CheckInv, CheckInv', ReplayInv, [Next]_vars
  PROVE  ReplayInv'
<1>1. CASE \E p \in DOMAIN parts : checkSingle(p)
  <2>1. PICK p \in DOMAIN parts : checkSingle(p)
    BY <1>1
  <2>2. PICK r : /\ single' = [single EXCEPT ![p] = r] /\ UNCHANGED args
                 /\ Steps(entries[p], parts[p], single[p], r, kill, computeInfo)
    BY <2>1, SingleIs
  <2>3. UNCHANGED <<parts, entries>> /\ DOMAIN single = DOMAIN parts
    BY <2>2 DEF args, CheckInv
  <2>4. PICK es, part, g, k, f : /\ es = entries[p] /\ part = parts[p] /\ g = single[p]
                               /\ k = kill /\ f = computeInfo
    OBVIOUS
  <2>5. single'[p] = r /\ \A q \in DOMAIN parts : q # p => single'[q] = single[q]
    BY <2>2, <2>3
  <2>6. /\ Paired(es, Len(part)) /\ ListInv(es, Len(part), g) /\ ListInv(es, Len(part), r)
        /\ Replays(es, part, g.calls, g.state) /\ Passed(es, g) /\ Steps(es, part, g, r, k, f)
    BY <2>2, <2>3, <2>4, <2>5 DEF CheckInv, ReplayInv
  <2>7. StackInv(es, g.calls)
    BY <2>6 DEF ListInv
  <2>8. Replays(es, part, r.calls, r.state)
    BY <2>6, <2>7, StepReplays
  <2>9. Passed(es, r)
    BY <2>6, StepPasses
  <2>10. ASSUME NEW q \in DOMAIN parts
         PROVE  /\ Replays(entries[q], parts[q], single'[q].calls, single'[q].state)
                /\ Passed(entries[q], single'[q])
    BY <2>4, <2>5, <2>8, <2>9 DEF ReplayInv
  <2> QED BY <2>3, <2>10 DEF ReplayInv
<1>2. CASE checkParallel \/ UNCHANGED vars
  <2>1. UNCHANGED <<parts, entries, single>>
    BY <1>2 DEF checkParallel, CollectResult, TimerFires, Drain, Conclude, vars, args
  <2> QED BY <2>1 DEF ReplayInv
<1> QED BY <1>1, <1>2 DEF Next

LEMMA CheckInductive == Spec => [](CheckInv /\ ReplayInv)
<1>1. Init => CheckInv /\ ReplayInv
  BY CheckInit, ReplayInit
<1>2. (CheckInv /\ ReplayInv) /\ [Next]_vars => (CheckInv /\ ReplayInv)'
  BY CheckNext, ReplayNext
<1> QED BY <1>1, <1>2, PTL DEF Spec

\* For every history, the stack of checkSingle is at all times a linearization
\* of a prefix of its part: of the operations in the bitset, leading to the
\* state, however often the search has gone back.
THEOREM StackIsALinearization == Spec => []StackIsLinearization
<1>1. CheckInv /\ ReplayInv => StackIsLinearization
  BY InvLinear
<1> QED BY <1>1, CheckInductive, PTL
=============================================================================
