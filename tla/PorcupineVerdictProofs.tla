----------------------- MODULE PorcupineVerdictProofs -----------------------
(***************************************************************************)
(* The verdict of the checker, and the longest prefixes it draws.          *)
(* - Linearizability is local: the history is linearizable if its parts    *)
(*   are, and Partition and renumber split it into such parts.             *)
(* - The search misses nothing: what it passes over, takes down from the   *)
(*   stack or finds in the cache cannot be completed, and longest has all  *)
(*   that it can be extended to.                                           *)
(* - checkParallel counts: no goroutine was killed whose answer matters.   *)
(***************************************************************************)
EXTENDS PorcupineProofs

-----------------------------------------------------------------------------
(***************************************************************************)
(* Linearizability without sequences: rank places the operations of h, and *)
(* val[i] is the value of its key that operation i finds.                  *)
(***************************************************************************)

\* i is the first operation on its key.
FirstOn(h, rank, i) == \A j \in 1 .. Len(h) : h[j].key = h[i].key => rank[i] <= rank[j]

\* j is the next operation on the key of i.
Follows(h, rank, i, j) ==
    /\ h[i].key = h[j].key /\ rank[i] < rank[j]
    /\ \A m \in 1 .. Len(h) : h[m].key = h[i].key => rank[m] <= rank[i] \/ rank[j] <= rank[m]

\* The operations on every key are in order.
KeyRanked(h, rank, val) ==
    /\ \A i \in 1 .. Len(h) :
           rank[i] \in Int /\ KvOk(val[i], h[i]) /\ (FirstOn(h, rank, i) => val[i] = KvInit)
    /\ \A i, j \in 1 .. Len(h) :
           /\ h[i].key = h[j].key =>
                  (rank[i] = rank[j] => i = j) /\ (h[i].ret < h[j].call => rank[i] < rank[j])
           /\ Follows(h, rank, i, j) => val[j] = KvStep(val[i], h[i])

Ranked(h, rank, val) ==
    /\ KeyRanked(h, rank, val)
    /\ \A i, j \in 1 .. Len(h) :
           (rank[i] = rank[j] => i = j) /\ (h[i].ret < h[j].call => rank[i] < rank[j])

\* v are the values of k along q: m finds what the last operation on k left.
LastOn(h, q, k, v, m) ==
    \/ v[m] = KvInit /\ \A n \in 1 .. m : h[q[n]].key # k
    \/ \E n \in 1 .. m : /\ h[q[n]].key = k /\ v[m] = KvStep(v[n - 1], h[q[n]])
                         /\ \A l \in 1 .. m : n < l => h[q[l]].key # k

LEMMA ValuesLast ==
  ASSUME NEW h, NEW q, NEW k, NEW N \in Nat, Len(q) = N, NEW v, v = Values(h, q, k)
  PROVE  \A m \in 0 .. N : LastOn(h, q, k, v, m)
<1>1. v[0] = KvInit /\ \A n \in 1 .. N : v[n] = ValueAfter(h, q, k, n, v[n - 1])
  BY ValuesAre
<1> DEFINE S == {m \in Nat : m <= N => LastOn(h, q, k, v, m)}
<1>2. 0 \in S
  BY <1>1 DEF LastOn
<1>3. ASSUME NEW m \in Nat, m \in S PROVE m + 1 \in S
  <2> SUFFICES ASSUME m + 1 <= N PROVE LastOn(h, q, k, v, m + 1)
    OBVIOUS
  <2>1. LastOn(h, q, k, v, m) /\ m + 1 \in 1 .. N /\ (m + 1) - 1 = m
    BY <1>3
  <2>2. v[m + 1] = ValueAfter(h, q, k, m + 1, v[m])
    BY <1>1, <2>1
  <2>3. CASE h[q[m + 1]].key = k
    <3>1. v[m + 1] = KvStep(v[m], h[q[m + 1]])
      BY <2>2, <2>3 DEF ValueAfter
    <3>2. \A l \in 1 .. (m + 1) : ~(m + 1 < l)
      OBVIOUS
    <3>3. m + 1 \in 1 .. (m + 1)
      OBVIOUS
    <3> QED BY <2>1, <2>3, <3>1, <3>2, <3>3 DEF LastOn
  <2>4. CASE h[q[m + 1]].key # k
    <3>1. v[m + 1] = v[m]
      BY <2>2, <2>4 DEF ValueAfter
    <3>2. \A l \in 1 .. (m + 1) : l \in 1 .. m \/ l = m + 1
      OBVIOUS
    <3>3. CASE v[m] = KvInit /\ \A n \in 1 .. m : h[q[n]].key # k
      BY <2>4, <3>1, <3>2, <3>3 DEF LastOn
    <3>4. CASE \E n \in 1 .. m : /\ h[q[n]].key = k /\ v[m] = KvStep(v[n - 1], h[q[n]])
                                 /\ \A l \in 1 .. m : n < l => h[q[l]].key # k
      <4>1. PICK n \in 1 .. m : /\ h[q[n]].key = k /\ v[m] = KvStep(v[n - 1], h[q[n]])
                                /\ \A l \in 1 .. m : n < l => h[q[l]].key # k
        BY <3>4
      <4>2. n \in 1 .. (m + 1) /\ \A l \in 1 .. (m + 1) : n < l => h[q[l]].key # k
        BY <2>4, <3>2, <4>1
      <4> QED BY <3>1, <4>1, <4>2 DEF LastOn
    <3> QED BY <2>1, <3>3, <3>4 DEF LastOn
  <2> QED BY <2>3, <2>4
<1> HIDE DEF S
<1>4. Nat \subseteq S
  BY <1>2, <1>3, SetInduction
<1> QED BY <1>4 DEF S

\* q has every number up to N once.
Permutes(q, N) ==
    /\ q \in [1 .. N -> 1 .. N] /\ Len(q) = N
    /\ \A i, j \in 1 .. N : q[i] = q[j] => i = j
    /\ \A i \in 1 .. N : \E m \in 1 .. N : q[m] = i

LEMMA SeqIs ==
  ASSUME NEW N \in Nat, NEW q
  PROVE  q \in SetToSeqs(1 .. N) <=> Permutes(q, N)
<1>1. IsFiniteSet(1 .. N) /\ Cardinality(1 .. N) = N
  BY FS_Interval
<1>2. q \in SetToSeqs(1 .. N) <=>
          q \in [1 .. N -> 1 .. N] /\ \A i, j \in 1 .. N : q[i] = q[j] => i = j
  BY <1>1 DEF SetToSeqs
<1>3. ASSUME q \in [1 .. N -> 1 .. N], \A i, j \in 1 .. N : q[i] = q[j] => i = j
      PROVE  Permutes(q, N)
  <2>1. q \in Injection(1 .. N, 1 .. N)
    BY <1>3 DEF Injection, IsInjective
  <2>2. q \in Surjection(1 .. N, 1 .. N)
    BY <1>1, <2>1, FS_Injection
  <2>3. \A i \in 1 .. N : \E m \in 1 .. N : q[m] = i
    BY <2>2 DEF Surjection
  <2>4. Len(q) = N
    BY <1>3
  <2> QED BY <1>3, <2>3, <2>4 DEF Permutes
<1> QED BY <1>2, <1>3 DEF Permutes

\* A linearization gives every operation a rank.
LEMMA SeqRanked ==
  ASSUME NEW h, NEW N \in Nat, Len(h) = N, NEW q \in SetToSeqs(1 .. N), Linearization(h, q)
  PROVE  \E rank, val : Ranked(h, rank, val)
<1>1. /\ q \in [1 .. N -> 1 .. N] /\ Len(q) = N
      /\ \A i, j \in 1 .. N : q[i] = q[j] => i = j
      /\ \A i \in 1 .. N : \E m \in 1 .. N : q[m] = i
  <2>1. Permutes(q, N)
    BY SeqIs
  <2> QED BY <2>1 DEF Permutes
<1>2. PICK rank : rank = [i \in 1 .. N |-> CHOOSE m \in 1 .. N : q[m] = i]
  OBVIOUS
<1>3. \A i \in 1 .. N : rank[i] \in 1 .. N /\ q[rank[i]] = i
  BY <1>1, <1>2
<1>4. \A m \in 1 .. N : rank[q[m]] = m
  BY <1>1, <1>3
<1>5. PICK val : val = [i \in 1 .. N |-> Values(h, q, h[i].key)[rank[i] - 1]]
  OBVIOUS
<1>6. \A i, j \in 1 .. N : (rank[i] = rank[j] => i = j) /\ (h[i].ret < h[j].call => rank[i] < rank[j])
  <2> SUFFICES ASSUME NEW i \in 1 .. N, NEW j \in 1 .. N
               PROVE  (rank[i] = rank[j] => i = j) /\ (h[i].ret < h[j].call => rank[i] < rank[j])
    OBVIOUS
  <2>1. rank[i] = rank[j] => i = j
    BY <1>3
  <2>2. ASSUME h[i].ret < h[j].call PROVE rank[i] < rank[j]
    <3>1. rank[j] \in 1 .. Len(q) /\ q[rank[j]] = j
      BY <1>1, <1>3
    <3>2. PICK l \in 1 .. (rank[j] - 1) : q[l] = i
      BY <2>2, <3>1 DEF Linearization
    <3>3. rank[j] \in 1 .. N
      BY <1>3
    <3>4. l \in 1 .. N /\ l < rank[j]
      BY <3>2, <3>3
    <3> QED BY <1>4, <3>2, <3>4
  <2> QED BY <2>1, <2>2
<1>7. ASSUME NEW i \in 1 .. N PROVE rank[i] \in Int /\ KvOk(val[i], h[i])
  <2>1. rank[i] \in 1 .. Len(q) /\ q[rank[i]] = i
    BY <1>1, <1>3
  <2>2. KvOk(Values(h, q, h[q[rank[i]]].key)[rank[i] - 1], h[q[rank[i]]])
    BY <2>1 DEF Linearization
  <2>3. val[i] = Values(h, q, h[i].key)[rank[i] - 1]
    BY <1>5
  <2>4. rank[i] \in Int
    BY <1>3
  <2>5. KvOk(val[i], h[i])
    BY <2>1, <2>2, <2>3, Zenon
  <2> QED BY <2>4, <2>5
\* What operation j finds was left by an operation before it on the same key.
<1>8. ASSUME NEW j \in 1 .. N
      PROVE  \/ val[j] = KvInit /\ \A i \in 1 .. N : h[i].key = h[j].key => ~(rank[i] < rank[j])
             \/ \E i \in 1 .. N : Follows(h, rank, i, j) /\ val[j] = KvStep(val[i], h[i])
  <2>1. PICK k, v, m : k = h[j].key /\ v = Values(h, q, k) /\ m = rank[j] - 1
    OBVIOUS
  <2>2. m \in 0 .. N /\ m + 1 \in 1 .. N /\ rank[j] = m + 1 /\ val[j] = v[m]
    BY <1>3, <1>5, <2>1
  <2>3. LastOn(h, q, k, v, m)
    BY <1>1, <2>1, <2>2, ValuesLast
  <2>4. \A i \in 1 .. N : rank[i] < rank[j] => rank[i] \in 1 .. m /\ q[rank[i]] = i
    BY <1>3, <2>2
  <2>5. CASE v[m] = KvInit /\ \A n \in 1 .. m : h[q[n]].key # k
    BY <2>1, <2>2, <2>4, <2>5
  <2>6. CASE \E n \in 1 .. m : /\ h[q[n]].key = k /\ v[m] = KvStep(v[n - 1], h[q[n]])
                               /\ \A l \in 1 .. m : n < l => h[q[l]].key # k
    <3>1. PICK n \in 1 .. m : /\ h[q[n]].key = k /\ v[m] = KvStep(v[n - 1], h[q[n]])
                              /\ \A l \in 1 .. m : n < l => h[q[l]].key # k
      BY <2>6
    <3>2. PICK i : i = q[n]
      OBVIOUS
    <3>3. n \in 1 .. N /\ i \in 1 .. N /\ rank[i] = n /\ h[i].key = k /\ n < rank[j]
      <4>1. n \in 1 .. N /\ n < rank[j]
        BY <2>2, <3>1
      <4>2. rank[q[n]] = n /\ q[n] \in 1 .. N
        BY <1>1, <1>4, <4>1
      <4> QED BY <3>1, <3>2, <4>1, <4>2
    <3>4. val[i] = v[n - 1]
      BY <1>5, <2>1, <3>3
    <3>5. \A o \in 1 .. N : h[o].key = k => rank[o] <= n \/ rank[j] <= rank[o]
      <4> SUFFICES ASSUME NEW o \in 1 .. N, h[o].key = k, ~(rank[j] <= rank[o]) PROVE rank[o] <= n
        OBVIOUS
      <4>1. rank[o] \in Int /\ rank[j] \in Int
        BY <1>3
      <4>2. rank[o] \in 1 .. m /\ h[q[rank[o]]].key = k
        BY <2>4, <4>1
      <4>3. ~(n < rank[o])
        BY <3>1, <4>2
      <4> QED BY <3>3, <4>1, <4>3
    <3>6. Follows(h, rank, i, j)
      BY <2>1, <3>3, <3>5 DEF Follows
    <3> QED BY <2>2, <3>1, <3>2, <3>3, <3>4, <3>6
  <2> QED BY <2>3, <2>5, <2>6 DEF LastOn
<1>9. ASSUME NEW j \in 1 .. N, FirstOn(h, rank, j) PROVE val[j] = KvInit
  <2>1. ASSUME NEW i \in 1 .. N PROVE ~Follows(h, rank, i, j)
    <3>1. rank[i] \in Int /\ rank[j] \in Int
      BY <1>3
    <3> QED BY <1>9, <3>1 DEF Follows, FirstOn
  <2> QED BY <1>8, <2>1
<1>10. ASSUME NEW i \in 1 .. N, NEW j \in 1 .. N, Follows(h, rank, i, j)
       PROVE  val[j] = KvStep(val[i], h[i])
  <2>1. h[i].key = h[j].key /\ rank[i] < rank[j]
    BY <1>10 DEF Follows
  <2>2. ASSUME NEW o \in 1 .. N, Follows(h, rank, o, j) PROVE o = i
    <3>1. rank[i] \in Int /\ rank[j] \in Int /\ rank[o] \in Int
      BY <1>3
    <3>2. rank[o] <= rank[i] /\ rank[i] <= rank[o]
      BY <1>10, <2>2, <3>1 DEF Follows
    <3> QED BY <1>6, <3>1, <3>2
  <2> QED BY <1>8, <2>1, <2>2
<1>11. KeyRanked(h, rank, val)
  BY <1>6, <1>7, <1>9, <1>10 DEF KeyRanked
<1> QED BY <1>6, <1>11 DEF Ranked

\* Ranks can be numbered without gaps.
LEMMA RankSeq ==
  ASSUME NEW N \in Nat, NEW rank, \A i \in 1 .. N : rank[i] \in Int,
         \A i, j \in 1 .. N : rank[i] = rank[j] => i = j
  PROVE  \E q : /\ Permutes(q, N)
                /\ \A m, n \in 1 .. N : rank[q[m]] < rank[q[n]] => m < n
<1>1. PICK S, f : S = {rank[i] : i \in 1 .. N} /\ f = [i \in 1 .. N |-> rank[i]]
  OBVIOUS
<1>2. f \in Bijection(1 .. N, S) /\ f \in Surjection(1 .. N, S)
  BY <1>1 DEF Bijection, Surjection, Injection, IsInjective
<1>3. S \subseteq Int /\ IsFiniteSet(S) /\ Cardinality(S) = N
  <2>1. IsFiniteSet(1 .. N) /\ Cardinality(1 .. N) = N
    BY FS_Interval
  <2>2. IsFiniteSet(S) /\ (Cardinality(S) = Cardinality(1 .. N) <=> f \in Injection(1 .. N, S))
    BY <1>2, <2>1, FS_Surjection
  <2> QED BY <1>1, <1>2, <2>1, <2>2 DEF Bijection
<1>4. /\ \A n \in 1 .. N : Nth(S, n) \in S /\ Rank(S, Nth(S, n)) = n
      /\ \A x \in S : Rank(S, x) \in 1 .. N /\ Nth(S, Rank(S, x)) = x
      /\ \A x, y \in S : x < y => Rank(S, x) < Rank(S, y)
  BY <1>3, NthIs
<1>5. PICK q : q = [m \in 1 .. N |-> CHOOSE i \in 1 .. N : rank[i] = Nth(S, m)]
  OBVIOUS
<1>6. ASSUME NEW m \in 1 .. N PROVE q[m] \in 1 .. N /\ rank[q[m]] = Nth(S, m)
  <2>1. \E i \in 1 .. N : rank[i] = Nth(S, m)
    BY <1>1, <1>4
  <2> QED BY <1>5, <2>1
<1>7. \A m \in 1 .. N : rank[q[m]] \in S /\ Rank(S, rank[q[m]]) = m
  BY <1>4, <1>6
<1>8. \A m, n \in 1 .. N : rank[q[m]] < rank[q[n]] => m < n
  BY <1>4, <1>7
<1>9. q \in SetToSeqs(1 .. N)
  <2>1. q \in [1 .. N -> 1 .. N]
    BY <1>5, <1>6
  <2>2. \A m, n \in 1 .. N : q[m] = q[n] => m = n
    BY <1>7
  <2>3. Cardinality(1 .. N) = N
    BY FS_Interval
  <2> QED BY <2>1, <2>2, <2>3 DEF SetToSeqs
<1>10. Permutes(q, N)
  BY <1>9, SeqIs
<1> QED BY <1>8, <1>10

\* Ranks give a linearization.
LEMMA RankedLinear ==
  ASSUME NEW h, NEW N \in Nat, Len(h) = N, NEW rank, NEW val, Ranked(h, rank, val)
  PROVE  Linearizable(h)
<1>1. /\ \A i \in 1 .. N : rank[i] \in Int /\ KvOk(val[i], h[i])
      /\ \A i, j \in 1 .. N : (rank[i] = rank[j] => i = j) /\ (h[i].ret < h[j].call => rank[i] < rank[j])
  BY DEF Ranked, KeyRanked
<1>2. PICK q : /\ Permutes(q, N)
               /\ \A m, n \in 1 .. N : rank[q[m]] < rank[q[n]] => m < n
  BY <1>1, RankSeq
<1>3. /\ q \in [1 .. N -> 1 .. N] /\ Len(q) = N
      /\ \A i, j \in 1 .. N : q[i] = q[j] => i = j
      /\ \A i \in 1 .. N : \E m \in 1 .. N : q[m] = i
  BY <1>2 DEF Permutes
<1>4. \A m, n \in 1 .. N : m < n => rank[q[m]] < rank[q[n]]
  <2> SUFFICES ASSUME NEW m \in 1 .. N, NEW n \in 1 .. N, m < n PROVE rank[q[m]] < rank[q[n]]
    OBVIOUS
  <2>1. q[m] \in 1 .. N /\ q[n] \in 1 .. N /\ q[m] # q[n]
    BY <1>3
  <2>2. rank[q[m]] \in Int /\ rank[q[n]] \in Int /\ rank[q[m]] # rank[q[n]]
    BY <1>1, <2>1
  <2>3. ~(rank[q[n]] < rank[q[m]])
    BY <1>2
  <2> QED BY <2>2, <2>3
\* Along q the operations find the values of the ranks.
<1> DEFINE Finds(m) == Values(h, q, h[q[m]].key)[m - 1] = val[q[m]]
           S == {x \in Nat : \A m \in 1 .. N : m <= x => Finds(m)}
<1>5. 0 \in S
  OBVIOUS
<1>6. ASSUME NEW x \in Nat, x \in S PROVE x + 1 \in S
  <2> SUFFICES ASSUME x + 1 \in 1 .. N PROVE Finds(x + 1)
    BY <1>6
  <2>1. PICK j, k, v : j = q[x + 1] /\ k = h[j].key /\ v = Values(h, q, k)
    OBVIOUS
  <2>2. x \in 0 .. N /\ (x + 1) - 1 = x /\ j \in 1 .. N
    BY <1>3, <2>1
  <2>3. LastOn(h, q, k, v, x)
    BY <1>3, <2>1, <2>2, ValuesLast
  <2>4. \A i \in 1 .. N : \E m \in 1 .. N : q[m] = i /\ (m \in 1 .. x \/ m = x + 1 \/ x + 1 < m)
    <3> SUFFICES ASSUME NEW i \in 1 .. N
                 PROVE  \E m \in 1 .. N : q[m] = i /\ (m \in 1 .. x \/ m = x + 1 \/ x + 1 < m)
      OBVIOUS
    <3>1. PICK m \in 1 .. N : q[m] = i
      BY <1>3
    <3>2. m \in 1 .. x \/ m = x + 1 \/ x + 1 < m
      OBVIOUS
    <3> QED BY <3>1, <3>2
  <2>5. CASE v[x] = KvInit /\ \A n \in 1 .. x : h[q[n]].key # k
    <3>1. ASSUME NEW i \in 1 .. N, h[i].key = k PROVE rank[j] <= rank[i]
      <4>1. PICK m \in 1 .. N : q[m] = i /\ (m \in 1 .. x \/ m = x + 1 \/ x + 1 < m)
        BY <2>4
      <4>2. m = x + 1 \/ x + 1 < m
        BY <2>5, <3>1, <4>1
      <4>3. x + 1 < m => rank[j] < rank[i]
        BY <1>4, <2>1, <4>1
      <4>4. rank[i] \in Int /\ rank[j] \in Int
        BY <1>1, <2>2
      <4> QED BY <2>1, <4>1, <4>2, <4>3, <4>4
    <3>2. FirstOn(h, rank, j)
      BY <2>1, <3>1 DEF FirstOn
    <3>3. val[j] = KvInit
      BY <2>2, <3>2 DEF Ranked, KeyRanked
    <3> QED BY <2>1, <2>2, <2>5, <3>3
  <2>6. CASE \E n \in 1 .. x : /\ h[q[n]].key = k /\ v[x] = KvStep(v[n - 1], h[q[n]])
                               /\ \A l \in 1 .. x : n < l => h[q[l]].key # k
    <3>1. PICK n \in 1 .. x : /\ h[q[n]].key = k /\ v[x] = KvStep(v[n - 1], h[q[n]])
                              /\ \A l \in 1 .. x : n < l => h[q[l]].key # k
      BY <2>6
    <3>2. n \in 1 .. N /\ n <= x /\ n < x + 1
      BY <2>2, <3>1
    <3>3. PICK i : i = q[n]
      OBVIOUS
    <3>4. i \in 1 .. N /\ h[i].key = k /\ rank[i] < rank[j]
      BY <1>3, <1>4, <2>1, <3>1, <3>2, <3>3
    <3>5. v[n - 1] = val[i]
      <4>1. Finds(n)
        BY <1>6, <3>2
      <4> QED BY <2>1, <3>3, <3>4, <4>1
    <3>6. ASSUME NEW o \in 1 .. N, h[o].key = k PROVE rank[o] <= rank[i] \/ rank[j] <= rank[o]
      <4>1. PICK m \in 1 .. N : q[m] = o /\ (m \in 1 .. x \/ m = x + 1 \/ x + 1 < m)
        BY <2>4
      <4>2. rank[o] \in Int /\ rank[i] \in Int /\ rank[j] \in Int
        BY <1>1, <2>2, <3>4
      <4>3. CASE m \in 1 .. x
        <5>1. ~(n < m)
          BY <3>1, <3>6, <4>1, <4>3
        <5>2. m < n \/ m = n
          BY <5>1, <3>2
        <5>3. m < n => rank[o] < rank[i]
          BY <1>4, <3>2, <3>3, <4>1
        <5> QED BY <3>3, <4>1, <4>2, <5>2, <5>3
      <4>4. CASE x + 1 < m
        <5>1. rank[j] < rank[o]
          BY <1>4, <2>1, <4>1, <4>4
        <5> QED BY <4>2, <5>1
      <4>5. CASE m = x + 1
        BY <2>1, <4>1, <4>2, <4>5
      <4> QED BY <4>1, <4>3, <4>4, <4>5
    <3>7. Follows(h, rank, i, j)
      BY <2>1, <3>4, <3>6 DEF Follows
    <3>8. val[j] = KvStep(val[i], h[i])
      BY <2>2, <3>4, <3>7 DEF Ranked, KeyRanked
    <3> QED BY <2>1, <2>2, <3>1, <3>3, <3>5, <3>8
  <2> QED BY <2>3, <2>5, <2>6 DEF LastOn
<1> HIDE DEF S
<1>7. Nat \subseteq S
  BY <1>5, <1>6, SetInduction
<1>8. \A m \in 1 .. N : Finds(m)
  BY <1>7 DEF S
<1>9. ASSUME NEW n \in 1 .. N
      PROVE  /\ KvOk(Values(h, q, h[q[n]].key)[n - 1], h[q[n]])
             /\ \A i \in 1 .. N : h[i].ret < h[q[n]].call => \E j \in 1 .. (n - 1) : q[j] = i
  <2>1. q[n] \in 1 .. N
    BY <1>3
  <2>2. KvOk(Values(h, q, h[q[n]].key)[n - 1], h[q[n]])
    BY <1>1, <1>8, <2>1
  <2>3. ASSUME NEW i \in 1 .. N, h[i].ret < h[q[n]].call
        PROVE  \E j \in 1 .. (n - 1) : q[j] = i
    <3>1. PICK m \in 1 .. N : q[m] = i
      BY <1>3
    <3>2. rank[q[m]] < rank[q[n]]
      BY <1>1, <2>1, <2>3, <3>1
    <3>3. m \in 1 .. (n - 1)
      BY <1>2, <3>2
    <3> QED BY <3>1, <3>3
  <2> QED BY <2>2, <2>3
<1>10. Linearization(h, q)
  BY <1>3, <1>9 DEF Linearization
<1>11. q \in SetToSeqs(1 .. N)
  BY <1>2, SeqIs
<1> QED BY <1>10, <1>11 DEF Linearizable

-----------------------------------------------------------------------------
(***************************************************************************)
(* Linearizability is local: a history is linearizable exactly when its    *)
(* parts are.                                                              *)
(***************************************************************************)

\* part has the operations of h on the key p; operation i of it is l[i] in h.
PartOf(h, part, p, l) ==
    /\ Len(part) \in Nat
    /\ \A i \in 1 .. Len(part) : l[i] \in 1 .. Len(h) /\ part[i] = h[l[i]] /\ part[i].key = p
    /\ \A i, j \in 1 .. Len(part) : l[i] = l[j] => i = j
    /\ \A m \in 1 .. Len(h) : h[m].key = p => \E i \in 1 .. Len(part) : l[i] = m

Splits(h, P) ==
    /\ Len(h) \in Nat
    /\ \A i \in 1 .. Len(h) : h[i].call \in Int /\ h[i].ret \in Int /\ h[i].key \in DOMAIN P
    /\ \A p \in DOMAIN P : \E l : PartOf(h, P[p], p, l)


\* r is rank, seen from the part.
Within(part, l, rank, r) == \A i \in 1 .. Len(part) : r[i] = rank[l[i]]

\* Operations follow each other in the part exactly when they do in h.
SameOrder(h, part, l, rank, r) ==
    /\ \A i \in 1 .. Len(part) : FirstOn(part, r, i) <=> FirstOn(h, rank, l[i])
    /\ \A i, j \in 1 .. Len(part) : Follows(part, r, i, j) <=> Follows(h, rank, l[i], l[j])

LEMMA PartFollows ==
  ASSUME NEW h, NEW part, NEW p, NEW l, PartOf(h, part, p, l), NEW rank, NEW r,
         Within(part, l, rank, r)
  PROVE  SameOrder(h, part, l, rank, r)
<1>1. \A i \in 1 .. Len(part) : l[i] \in 1 .. Len(h) /\ part[i] = h[l[i]] /\ part[i].key = p /\ h[l[i]].key = p
  BY DEF PartOf
<1>2. \A m \in 1 .. Len(h) : h[m].key = p => \E i \in 1 .. Len(part) : l[i] = m
  BY DEF PartOf
<1>3. ASSUME NEW i \in 1 .. Len(part) PROVE FirstOn(part, r, i) <=> FirstOn(h, rank, l[i])
  <2>1. ASSUME FirstOn(part, r, i) PROVE FirstOn(h, rank, l[i])
    <3> SUFFICES ASSUME NEW m \in 1 .. Len(h), h[m].key = h[l[i]].key PROVE rank[l[i]] <= rank[m]
      BY DEF FirstOn
    <3>1. PICK j \in 1 .. Len(part) : l[j] = m
      BY <1>1, <1>2
    <3>2. r[i] <= r[j]
      BY <1>1, <2>1 DEF FirstOn
    <3> QED BY <3>1, <3>2 DEF Within
  <2>2. ASSUME FirstOn(h, rank, l[i]) PROVE FirstOn(part, r, i)
    BY <1>1, <2>2 DEF FirstOn, Within
  <2> QED BY <2>1, <2>2
<1>4. ASSUME NEW i \in 1 .. Len(part), NEW j \in 1 .. Len(part)
      PROVE  Follows(part, r, i, j) <=> Follows(h, rank, l[i], l[j])
  <2>1. ASSUME Follows(part, r, i, j) PROVE Follows(h, rank, l[i], l[j])
    <3>1. h[l[i]].key = h[l[j]].key /\ rank[l[i]] < rank[l[j]]
      BY <1>1, <2>1 DEF Follows, Within
    <3>2. ASSUME NEW m \in 1 .. Len(h), h[m].key = h[l[i]].key
          PROVE  rank[m] <= rank[l[i]] \/ rank[l[j]] <= rank[m]
      <4>1. PICK o \in 1 .. Len(part) : l[o] = m
        BY <1>1, <1>2, <3>2
      <4>2. r[o] <= r[i] \/ r[j] <= r[o]
        BY <1>1, <2>1 DEF Follows
      <4> QED BY <4>1, <4>2 DEF Within
    <3> QED BY <3>1, <3>2 DEF Follows
  <2>2. ASSUME Follows(h, rank, l[i], l[j]) PROVE Follows(part, r, i, j)
    BY <1>1, <2>2 DEF Follows, Within
  <2> QED BY <2>1, <2>2
<1> QED BY <1>3, <1>4 DEF SameOrder

LEMMA Restricted ==
  ASSUME NEW h, NEW part, NEW p, NEW l, PartOf(h, part, p, l), NEW rank, NEW val,
         Ranked(h, rank, val)
  PROVE  \E r, v : Ranked(part, r, v)
<1>1. PICK r, v, n : /\ r = [i \in 1 .. Len(part) |-> rank[l[i]]]
                     /\ v = [i \in 1 .. Len(part) |-> val[l[i]]] /\ n = Len(part)
  OBVIOUS
<1>2. \A i \in 1 .. n : r[i] = rank[l[i]] /\ v[i] = val[l[i]]
  BY <1>1
<1>3. /\ \A i \in 1 .. n : l[i] \in 1 .. Len(h) /\ part[i] = h[l[i]]
      /\ \A i, j \in 1 .. n : l[i] = l[j] => i = j
  BY <1>1 DEF PartOf
<1>4. /\ \A i \in 1 .. n : FirstOn(part, r, i) => FirstOn(h, rank, l[i])
      /\ \A i, j \in 1 .. n : Follows(part, r, i, j) => Follows(h, rank, l[i], l[j])
  <2>1. Within(part, l, rank, r)
    BY <1>1, <1>2 DEF Within
  <2>2. SameOrder(h, part, l, rank, r)
    BY <2>1, PartFollows
  <2> QED BY <1>1, <2>2 DEF SameOrder
<1>5. ASSUME NEW i \in 1 .. n
      PROVE  r[i] \in Int /\ KvOk(v[i], part[i]) /\ (FirstOn(part, r, i) => v[i] = KvInit)
  BY <1>2, <1>3, <1>4 DEF Ranked, KeyRanked
<1>6. ASSUME NEW i \in 1 .. n, NEW j \in 1 .. n
      PROVE  /\ (r[i] = r[j] => i = j) /\ (part[i].ret < part[j].call => r[i] < r[j])
             /\ Follows(part, r, i, j) => v[j] = KvStep(v[i], part[i])
  <2>1. l[i] \in 1 .. Len(h) /\ l[j] \in 1 .. Len(h)
    BY <1>3
  <2>2. /\ rank[l[i]] = rank[l[j]] => l[i] = l[j]
        /\ h[l[i]].ret < h[l[j]].call => rank[l[i]] < rank[l[j]]
    BY <2>1 DEF Ranked
  <2>3. Follows(h, rank, l[i], l[j]) => val[l[j]] = KvStep(val[l[i]], h[l[i]])
    BY <2>1 DEF Ranked, KeyRanked
  <2> QED BY <1>2, <1>3, <1>4, <2>2, <2>3
<1>7. KeyRanked(part, r, v)
  BY <1>1, <1>5, <1>6 DEF KeyRanked
<1>8. Ranked(part, r, v)
  BY <1>1, <1>6, <1>7 DEF Ranked
<1> QED BY <1>8

\* The ranks of the parts, put together.
LEMMA Joined ==
  ASSUME NEW h, NEW P, Splits(h, P), \A p \in DOMAIN P : \E r, v : Ranked(P[p], r, v)
  PROVE  \E rank, val : KeyRanked(h, rank, val)
<1>1. PICK L, R, V :
          /\ L = [p \in DOMAIN P |-> CHOOSE l : PartOf(h, P[p], p, l)]
          /\ R = [p \in DOMAIN P |-> CHOOSE r : \E v : Ranked(P[p], r, v)]
          /\ V = [p \in DOMAIN P |-> CHOOSE v : Ranked(P[p], R[p], v)]
  OBVIOUS
<1>2. ASSUME NEW p \in DOMAIN P PROVE PartOf(h, P[p], p, L[p]) /\ Ranked(P[p], R[p], V[p])
  <2>1. \E l : PartOf(h, P[p], p, l)
    BY DEF Splits
  <2>2. PartOf(h, P[p], p, L[p])
    BY <1>1, <2>1
  <2>3. R[p] = CHOOSE r : \E v : Ranked(P[p], r, v)
    BY <1>1
  <2>4. \E v : Ranked(P[p], R[p], v)
    BY <2>3
  <2>5. V[p] = CHOOSE v : Ranked(P[p], R[p], v)
    BY <1>1
  <2> QED BY <2>2, <2>4, <2>5
<1>3. PICK N, at, rank, val :
          /\ N = Len(h)
          /\ at = [i \in 1 .. N |-> CHOOSE j \in 1 .. Len(P[h[i].key]) : L[h[i].key][j] = i]
          /\ rank = [i \in 1 .. N |-> R[h[i].key][at[i]]]
          /\ val = [i \in 1 .. N |-> V[h[i].key][at[i]]]
  OBVIOUS
<1>4. ASSUME NEW i \in 1 .. N
      PROVE  /\ h[i].key \in DOMAIN P
             /\ at[i] \in 1 .. Len(P[h[i].key]) /\ L[h[i].key][at[i]] = i
  <2>1. h[i].key \in DOMAIN P
    BY <1>3 DEF Splits
  <2>2. \E j \in 1 .. Len(P[h[i].key]) : L[h[i].key][j] = i
    BY <1>2, <1>3, <2>1 DEF PartOf
  <2> QED BY <1>3, <2>1, <2>2
<1>5. ASSUME NEW p \in DOMAIN P
      PROVE  Within(P[p], L[p], rank, R[p]) /\ Within(P[p], L[p], val, V[p])
  <2> SUFFICES ASSUME NEW j \in 1 .. Len(P[p])
               PROVE  R[p][j] = rank[L[p][j]] /\ V[p][j] = val[L[p][j]]
    BY DEF Within
  <2>1. PICK i : i = L[p][j]
    OBVIOUS
  <2>2. i \in 1 .. N /\ h[i].key = p
    BY <1>2, <1>3, <2>1 DEF PartOf
  <2>3. at[i] \in 1 .. Len(P[p]) /\ L[p][at[i]] = i
    BY <1>4, <2>2
  <2>4. at[i] = j
    BY <1>2, <2>1, <2>3 DEF PartOf
  <2> QED BY <1>3, <2>1, <2>2, <2>4
<1>6. ASSUME NEW p \in DOMAIN P PROVE SameOrder(h, P[p], L[p], rank, R[p])
  BY <1>2, <1>5, PartFollows
<1>7. ASSUME NEW i \in 1 .. N
      PROVE  rank[i] \in Int /\ KvOk(val[i], h[i]) /\ (FirstOn(h, rank, i) => val[i] = KvInit)
  <2>1. PICK p, j : p = h[i].key /\ j = at[i]
    OBVIOUS
  <2>2. p \in DOMAIN P /\ j \in 1 .. Len(P[p]) /\ L[p][j] = i
    BY <1>4, <2>1
  <2>3. rank[i] = R[p][j] /\ val[i] = V[p][j]
    BY <1>3, <2>1
  <2>4. P[p][j] = h[i] /\ (FirstOn(P[p], R[p], j) <=> FirstOn(h, rank, i))
    BY <1>2, <1>6, <2>2 DEF SameOrder, PartOf
  <2>5. R[p][j] \in Int /\ KvOk(V[p][j], P[p][j]) /\ (FirstOn(P[p], R[p], j) => V[p][j] = KvInit)
    BY <1>2, <2>2 DEF Ranked, KeyRanked
  <2> QED BY <2>3, <2>4, <2>5
<1>8. ASSUME NEW i \in 1 .. N, NEW m \in 1 .. N, h[i].key = h[m].key
      PROVE  /\ (rank[i] = rank[m] => i = m) /\ (h[i].ret < h[m].call => rank[i] < rank[m])
             /\ Follows(h, rank, i, m) => val[m] = KvStep(val[i], h[i])
  <2>1. PICK p, j, o : p = h[i].key /\ j = at[i] /\ o = at[m]
    OBVIOUS
  <2>2. p \in DOMAIN P /\ j \in 1 .. Len(P[p]) /\ L[p][j] = i /\ o \in 1 .. Len(P[p]) /\ L[p][o] = m
    BY <1>4, <1>8, <2>1
  <2>3. rank[i] = R[p][j] /\ val[i] = V[p][j] /\ rank[m] = R[p][o] /\ val[m] = V[p][o]
    BY <1>3, <1>8, <2>1
  <2>4. P[p][j] = h[i] /\ P[p][o] = h[m] /\ (Follows(P[p], R[p], j, o) <=> Follows(h, rank, i, m))
    BY <1>2, <1>6, <2>2 DEF SameOrder, PartOf
  <2>5. /\ (R[p][j] = R[p][o] => j = o) /\ (P[p][j].ret < P[p][o].call => R[p][j] < R[p][o])
        /\ Follows(P[p], R[p], j, o) => V[p][o] = KvStep(V[p][j], P[p][j])
    BY <1>2, <2>2 DEF Ranked, KeyRanked
  <2> QED BY <2>2, <2>3, <2>4, <2>5
<1>9. ASSUME NEW i \in 1 .. N, NEW m \in 1 .. N
      PROVE  /\ h[i].key = h[m].key =>
                    (rank[i] = rank[m] => i = m) /\ (h[i].ret < h[m].call => rank[i] < rank[m])
             /\ Follows(h, rank, i, m) => val[m] = KvStep(val[i], h[i])
  <2>1. Follows(h, rank, i, m) => h[i].key = h[m].key
    BY DEF Follows
  <2> QED BY <1>8, <2>1
<1>10. KeyRanked(h, rank, val)
  BY <1>3, <1>7, <1>9 DEF KeyRanked
<1> QED BY <1>10

-----------------------------------------------------------------------------
(***************************************************************************)
(* The ranks of different keys are merged by linearization points: an      *)
(* operation takes effect at the latest call up to it on its key.          *)
(***************************************************************************)

IsPoint(h, rank, i, x) ==
    /\ \E j \in 1 .. Len(h) : h[j].key = h[i].key /\ rank[j] <= rank[i] /\ x = h[j].call
    /\ \A j \in 1 .. Len(h) : h[j].key = h[i].key /\ rank[j] <= rank[i] => h[j].call <= x

\* i comes before j: by the points, then by the keys, then by the ranks.
Sooner(a, b, c, i, j) ==
    \/ a[i] < a[j]
    \/ a[i] = a[j] /\ b[i] < b[j]
    \/ a[i] = a[j] /\ b[i] = b[j] /\ c[i] < c[j]

LEMMA FiniteMax ==
  ASSUME NEW S, S \subseteq Int, IsFiniteSet(S), S # {}
  PROVE  \E x \in S : \A y \in S : y <= x
<1>1. PICK N : N = Cardinality(S)
  OBVIOUS
<1>2. N \in Nat /\ N # 0
  BY <1>1, FS_CardinalityType, FS_EmptySet
<1>3. PICK x \in S : Rank(S, x) = N
  <2>1. \A n \in 1 .. N : Nth(S, n) \in S /\ Rank(S, Nth(S, n)) = n
    BY <1>1, NthIs
  <2>2. N \in 1 .. N
    BY <1>2
  <2> QED BY <2>1, <2>2
<1>4. PICK T : T = {y \in S : y <= x}
  OBVIOUS
<1>5. T \in SUBSET S /\ Cardinality(T) = Cardinality(S)
  BY <1>1, <1>3, <1>4 DEF Rank
<1>6. T = S
  BY <1>5, FS_Subset
<1> QED BY <1>4, <1>6

\* Numbers a[i], b[i] and c[i] that differ somewhere put 1 .. N into an order.
LEMMA OrderRanks ==
  ASSUME NEW N \in Nat, NEW a, NEW b, NEW c,
         \A i \in 1 .. N : a[i] \in Int /\ b[i] \in Int /\ c[i] \in Int
  PROVE  \E r : /\ \A i \in 1 .. N : r[i] \in Int
                /\ \A i, j \in 1 .. N : Sooner(a, b, c, i, j) => r[i] < r[j]
<1>1. PICK r : r = [i \in 1 .. N |-> Cardinality({m \in 1 .. N : Sooner(a, b, c, m, i)})]
  OBVIOUS
<1>2. IsFiniteSet(1 .. N)
  BY FS_Interval
<1>3. ASSUME NEW i \in 1 .. N, NEW T, T = {m \in 1 .. N : Sooner(a, b, c, m, i)}
      PROVE  IsFiniteSet(T) /\ Cardinality(T) \in Nat /\ r[i] = Cardinality(T)
  <2>1. T \in SUBSET (1 .. N)
    BY <1>3
  <2>2. IsFiniteSet(T)
    BY <1>2, <2>1, FS_Subset
  <2> QED BY <1>1, <1>3, <2>2, FS_CardinalityType
<1>4. ASSUME NEW i \in 1 .. N, NEW j \in 1 .. N, Sooner(a, b, c, i, j) PROVE r[i] < r[j]
  <2>1. PICK T, U : /\ T = {m \in 1 .. N : Sooner(a, b, c, m, i)}
                    /\ U = {m \in 1 .. N : Sooner(a, b, c, m, j)}
    OBVIOUS
  <2>2. ASSUME NEW m \in T PROVE m \in U
    <3>1. m \in 1 .. N /\ Sooner(a, b, c, m, i)
      BY <2>1, <2>2
    <3>2. a[m] \in Int /\ b[m] \in Int /\ c[m] \in Int /\ a[i] \in Int /\ b[i] \in Int /\ c[i] \in Int
          /\ a[j] \in Int /\ b[j] \in Int /\ c[j] \in Int
      BY <3>1
    <3>3. Sooner(a, b, c, m, j)
      BY <1>4, <3>1, <3>2 DEF Sooner
    <3> QED BY <2>1, <3>1, <3>3
  <2>3. i \in U /\ i \notin T
    BY <1>4, <2>1 DEF Sooner
  <2>4. T \in SUBSET U /\ T # U
    BY <2>2, <2>3
  <2>5. IsFiniteSet(U) /\ Cardinality(U) \in Nat /\ Cardinality(T) \in Nat
        /\ r[i] = Cardinality(T) /\ r[j] = Cardinality(U)
    BY <1>3, <2>1
  <2>6. Cardinality(T) <= Cardinality(U) /\ Cardinality(T) # Cardinality(U)
    BY <2>4, <2>5, FS_Subset
  <2> QED BY <2>5, <2>6
<1>5. ASSUME NEW i \in 1 .. N PROVE r[i] \in Int
  <2>1. PICK T : T = {m \in 1 .. N : Sooner(a, b, c, m, i)}
    OBVIOUS
  <2> QED BY <1>3, <2>1
<1> QED BY <1>4, <1>5

LEMMA PointExists ==
  ASSUME NEW h, NEW N \in Nat, Len(h) = N, \A i \in 1 .. N : h[i].call \in Int, NEW rank,
         NEW i \in 1 .. N, rank[i] \in Int
  PROVE  \E x \in Int : IsPoint(h, rank, i, x)
<1>1. PICK J, f : /\ J = {m \in 1 .. N : h[m].key = h[i].key /\ rank[m] <= rank[i]}
                  /\ f = [m \in 1 .. N |-> h[m].call]
  OBVIOUS
<1>2. PICK S, g : S = {f[j] : j \in J} /\ g = [j \in J |-> f[j]]
  OBVIOUS
<1>3. J \in SUBSET (1 .. N) /\ IsFiniteSet(1 .. N)
  BY <1>1, FS_Interval
<1>4. IsFiniteSet(J)
  BY <1>3, FS_Subset
<1>5. g \in Surjection(J, S)
  BY <1>2 DEF Surjection
<1>6. IsFiniteSet(S)
  BY <1>4, <1>5, FS_Surjection
<1>7. i \in J
  BY <1>1
<1>8. S # {} /\ S \subseteq Int
  BY <1>1, <1>2, <1>3, <1>7
<1>9. PICK x \in S : \A y \in S : y <= x
  BY <1>6, <1>8, FiniteMax
<1>10. PICK j \in J : x = h[j].call
  BY <1>1, <1>2, <1>3
<1>11. \A m \in J : h[m].call <= x
  BY <1>1, <1>2, <1>3, <1>9
<1>12. IsPoint(h, rank, i, x)
  BY <1>1, <1>10, <1>11 DEF IsPoint
<1> QED BY <1>8, <1>12

\* An operation that returned before another was called has the earlier point,
\* whatever their keys are.
LEMMA Merged ==
  ASSUME NEW h, NEW N \in Nat, Len(h) = N, \A i \in 1 .. N : h[i].call \in Int /\ h[i].ret \in Int,
         NEW rank, NEW val, KeyRanked(h, rank, val)
  PROVE  \E r : Ranked(h, r, val)
<1>1. /\ \A i \in 1 .. N : rank[i] \in Int
      /\ \A i, j \in 1 .. N : h[i].key = h[j].key =>
             (rank[i] = rank[j] => i = j) /\ (h[i].ret < h[j].call => rank[i] < rank[j])
  BY DEF KeyRanked
<1>2. PICK a, b : /\ a = [i \in 1 .. N |-> CHOOSE x \in Int : IsPoint(h, rank, i, x)]
                  /\ b = [i \in 1 .. N |-> CHOOSE j \in 1 .. N : h[j].key = h[i].key]
  OBVIOUS
<1>3. ASSUME NEW i \in 1 .. N PROVE a[i] \in Int /\ IsPoint(h, rank, i, a[i])
  <2>1. \E x \in Int : IsPoint(h, rank, i, x)
    BY <1>1, PointExists
  <2> QED BY <1>2, <2>1
<1>4. ASSUME NEW i \in 1 .. N PROVE b[i] \in 1 .. N /\ b[i] \in Int /\ h[b[i]].key = h[i].key
  <2>1. \E j \in 1 .. N : h[j].key = h[i].key
    OBVIOUS
  <2> QED BY <1>2, <2>1
<1>5. \A i, j \in 1 .. N : h[i].key = h[j].key => b[i] = b[j]
  BY <1>2
<1>6. PICK r : /\ \A i \in 1 .. N : r[i] \in Int
               /\ \A i, j \in 1 .. N : Sooner(a, b, rank, i, j) => r[i] < r[j]
  BY <1>1, <1>3, <1>4, OrderRanks
\* On one key nothing changes places.
<1>7. ASSUME NEW i \in 1 .. N, NEW j \in 1 .. N, h[i].key = h[j].key
      PROVE  (rank[i] < rank[j] => r[i] < r[j]) /\ (rank[i] <= rank[j] <=> r[i] <= r[j])
  <2>1. ASSUME NEW m \in 1 .. N, NEW n \in 1 .. N, h[m].key = h[n].key, rank[m] < rank[n]
        PROVE  r[m] < r[n]
    <3>1. PICK o \in 1 .. N : h[o].key = h[m].key /\ rank[o] <= rank[m] /\ a[m] = h[o].call
      BY <1>3 DEF IsPoint
    <3>2. rank[o] <= rank[n]
      BY <1>1, <2>1, <3>1
    <3>3. a[m] <= a[n]
      BY <1>3, <2>1, <3>1, <3>2 DEF IsPoint
    <3>4. a[m] \in Int /\ a[n] \in Int /\ b[m] = b[n]
      BY <1>3, <1>5, <2>1
    <3>5. Sooner(a, b, rank, m, n)
      BY <2>1, <3>3, <3>4 DEF Sooner
    <3> QED BY <1>6, <3>5
  <2>2. rank[i] \in Int /\ rank[j] \in Int /\ r[i] \in Int /\ r[j] \in Int
    BY <1>1, <1>6
  <2>3. (rank[i] < rank[j] => r[i] < r[j]) /\ (rank[j] < rank[i] => r[j] < r[i])
    BY <1>7, <2>1
  <2>4. rank[i] = rank[j] => r[i] = r[j]
    BY <1>1, <1>7
  <2> QED BY <2>2, <2>3, <2>4
<1>8. ASSUME NEW i \in 1 .. N, NEW j \in 1 .. N PROVE r[i] = r[j] => i = j
  <2> SUFFICES ASSUME i # j PROVE r[i] # r[j]
    OBVIOUS
  <2>1. a[i] \in Int /\ a[j] \in Int /\ b[i] \in Int /\ b[j] \in Int /\ rank[i] \in Int /\ rank[j] \in Int
    BY <1>1, <1>3, <1>4
  <2>2. b[i] = b[j] => h[i].key = h[j].key
    BY <1>4
  <2>3. b[i] = b[j] => rank[i] # rank[j]
    BY <1>1, <2>2
  <2>4. Sooner(a, b, rank, i, j) \/ Sooner(a, b, rank, j, i)
    BY <2>1, <2>3 DEF Sooner
  <2>5. r[i] < r[j] \/ r[j] < r[i]
    BY <1>6, <2>4
  <2>6. r[i] \in Int /\ r[j] \in Int
    BY <1>6
  <2> QED BY <2>5, <2>6
<1>9. ASSUME NEW i \in 1 .. N, NEW j \in 1 .. N, h[i].ret < h[j].call PROVE r[i] < r[j]
  <2>1. PICK o \in 1 .. N : h[o].key = h[i].key /\ rank[o] <= rank[i] /\ a[i] = h[o].call
    BY <1>3 DEF IsPoint
  <2>2. ~(h[i].ret < h[o].call)
    <3>1. h[i].ret < h[o].call => rank[i] < rank[o]
      BY <1>1, <2>1
    <3>2. rank[i] \in Int /\ rank[o] \in Int
      BY <1>1
    <3> QED BY <2>1, <3>1, <3>2
  <2>3. h[j].call <= a[j]
    <3>1. rank[j] <= rank[j]
      BY <1>1
    <3> QED BY <1>3, <3>1 DEF IsPoint
  <2>4. h[i].ret \in Int /\ h[o].call \in Int /\ h[j].call \in Int /\ a[j] \in Int
    BY <1>3
  <2>5. a[i] < a[j]
    BY <1>9, <2>1, <2>2, <2>3, <2>4
  <2> QED BY <1>6, <2>5 DEF Sooner
<1>10. ASSUME NEW i \in 1 .. N, FirstOn(h, r, i) PROVE FirstOn(h, rank, i)
  BY <1>7, <1>10 DEF FirstOn
<1>11. ASSUME NEW i \in 1 .. N, NEW j \in 1 .. N, Follows(h, r, i, j) PROVE Follows(h, rank, i, j)
  <2>1. h[i].key = h[j].key /\ r[i] < r[j]
    BY <1>11 DEF Follows
  <2>2. rank[i] < rank[j]
    <3>1. rank[j] <= rank[i] => r[j] <= r[i]
      BY <1>7, <2>1
    <3>2. rank[i] \in Int /\ rank[j] \in Int /\ r[i] \in Int /\ r[j] \in Int
      BY <1>1, <1>6
    <3> QED BY <2>1, <3>1, <3>2
  <2>3. ASSUME NEW m \in 1 .. N, h[m].key = h[i].key PROVE rank[m] <= rank[i] \/ rank[j] <= rank[m]
    <3>1. r[m] <= r[i] \/ r[j] <= r[m]
      BY <1>11, <2>3 DEF Follows
    <3> QED BY <1>7, <2>1, <2>3, <3>1
  <2> QED BY <2>1, <2>2, <2>3 DEF Follows
<1>12. ASSUME NEW i \in 1 .. N
       PROVE  r[i] \in Int /\ KvOk(val[i], h[i]) /\ (FirstOn(h, r, i) => val[i] = KvInit)
  BY <1>6, <1>10 DEF KeyRanked
<1>13. ASSUME NEW i \in 1 .. N, NEW j \in 1 .. N, Follows(h, r, i, j) PROVE val[j] = KvStep(val[i], h[i])
  BY <1>11, <1>13 DEF KeyRanked
<1>14. KeyRanked(h, r, val)
  BY <1>8, <1>9, <1>12, <1>13 DEF KeyRanked
<1> QED BY <1>8, <1>9, <1>14 DEF Ranked

\* A history is linearizable exactly when each of its parts is.
LEMMA Local ==
  ASSUME NEW h, NEW P, Splits(h, P)
  PROVE  Linearizable(h) <=> \A p \in DOMAIN P : Linearizable(P[p])
<1>1. PICK N \in Nat : N = Len(h)
  BY DEF Splits
<1>2. \A p \in DOMAIN P : Len(P[p]) \in Nat
  BY DEF Splits, PartOf
<1>3. ASSUME Linearizable(h), NEW p \in DOMAIN P PROVE Linearizable(P[p])
  <2>1. PICK q \in SetToSeqs(1 .. N) : Linearization(h, q)
    BY <1>1, <1>3 DEF Linearizable
  <2>2. PICK rank, val : Ranked(h, rank, val)
    BY <1>1, <2>1, SeqRanked
  <2>3. PICK l : PartOf(h, P[p], p, l)
    BY DEF Splits
  <2>4. PICK r, v : Ranked(P[p], r, v)
    BY <2>2, <2>3, Restricted
  <2> QED BY <1>2, <2>4, RankedLinear
<1>4. ASSUME \A p \in DOMAIN P : Linearizable(P[p]) PROVE Linearizable(h)
  <2>1. ASSUME NEW p \in DOMAIN P PROVE \E r, v : Ranked(P[p], r, v)
    <3>1. PICK M \in Nat : M = Len(P[p])
      BY <1>2
    <3>2. PICK q \in SetToSeqs(1 .. M) : Linearization(P[p], q)
      BY <1>4, <3>1 DEF Linearizable
    <3> QED BY <3>1, <3>2, SeqRanked
  <2>2. PICK rank, val : KeyRanked(h, rank, val)
    BY <2>1, Joined
  <2>3. \A i \in 1 .. N : h[i].call \in Int /\ h[i].ret \in Int
    BY <1>1 DEF Splits
  <2>4. PICK r : Ranked(h, r, val)
    BY <1>1, <2>2, <2>3, Merged
  <2> QED BY <1>1, <2>4, RankedLinear
<1> QED BY <1>3, <1>4

-----------------------------------------------------------------------------
(***************************************************************************)
(* Partition and renumber split a history.                                 *)
(***************************************************************************)

LEMMA PartitionSplits ==
  ASSUME NEW h, Legal(h), NEW P, P = Partition(h)
  PROVE  Splits(h, P)
<1>1. Len(h) \in Nat /\ DOMAIN P = Keys(h)
  BY DEF Legal, Partition
<1>2. \A i \in 1 .. Len(h) : h[i].call \in Int /\ h[i].ret \in Int /\ h[i].key \in DOMAIN P
  BY <1>1 DEF Legal, Keys
<1>3. ASSUME NEW p \in DOMAIN P PROVE \E l : PartOf(h, P[p], p, l)
  <2>1. PICK S, part, n : S = Positions(h, p) /\ part = P[p] /\ n = Len(part)
    OBVIOUS
  <2>2. /\ n \in Nat /\ n = Cardinality(S)
        /\ \A i \in 1 .. n : part[i] = h[Nth(S, i)] /\ Nth(S, i) \in S
    BY <1>1, <2>1, PartIs
  <2>3. S \subseteq 1 .. Len(h) /\ S \subseteq Int /\ IsFiniteSet(S)
    BY <1>1, <2>1, PositionsAre
  <2>4. /\ \A i \in 1 .. n : Rank(S, Nth(S, i)) = i
        /\ \A x \in S : Rank(S, x) \in 1 .. n /\ Nth(S, Rank(S, x)) = x
    BY <2>2, <2>3, NthIs
  <2>5. PICK l : l = [i \in 1 .. n |-> Nth(S, i)]
    OBVIOUS
  <2>6. \A m \in S : h[m].key = p
    BY <2>1 DEF Positions
  <2>7. \A i \in 1 .. n : l[i] \in 1 .. Len(h) /\ part[i] = h[l[i]] /\ part[i].key = p
    BY <2>2, <2>3, <2>5, <2>6
  <2>8. \A i, j \in 1 .. n : l[i] = l[j] => i = j
    BY <2>4, <2>5
  <2>9. ASSUME NEW m \in 1 .. Len(h), h[m].key = p PROVE \E i \in 1 .. n : l[i] = m
    <3>1. m \in S
      BY <2>1, <2>9 DEF Positions
    <3> QED BY <2>4, <2>5, <3>1
  <2>10. PartOf(h, part, p, l)
    BY <2>1, <2>2, <2>7, <2>8, <2>9 DEF PartOf
  <2> QED BY <2>1, <2>10
<1> QED BY <1>1, <1>2, <1>3 DEF Splits

\* The two events of id, seen through new ids.
LEMMA OperationIs ==
  ASSUME NEW ev, Matched(ev), NEW k \in DOMAIN ev
  PROVE  /\ Operation(renumber(ev), Number(ev, ev[k].id)) = Operation(ev, ev[k].id)
         /\ Operation(ev, ev[k].id).call \in Int /\ Operation(ev, ev[k].id).ret \in Int
         /\ Operation(ev, ev[k].id).key = "all"
<1>0. PICK N \in Nat : N = Len(ev)
  BY DEF Matched
<1>1. DOMAIN ev = 1 .. N
  BY <1>0 DEF Matched
<1>2. PICK rn, id, i : rn = renumber(ev) /\ id = ev[k].id /\ i = Number(ev, id)
  OBVIOUS
<1>3. ASSUME NEW m \in 1 .. N
      PROVE  /\ rn[m].kind = ev[m].kind /\ rn[m].op = ev[m].op /\ rn[m].value = ev[m].value
             /\ rn[m].out = ev[m].out /\ rn[m].id = Number(ev, ev[m].id)
  <2>1. rn[m] = [ev[m] EXCEPT !.id = Number(ev, ev[m].id)]
    BY <1>1, <1>2 DEF renumber, Number, Seen
  <2>2. DOMAIN ev[m] = {"kind", "id", "op", "value", "out"}
    BY <1>1 DEF Matched
  <2> QED BY <2>1, <2>2
<1>4. DOMAIN rn = 1 .. N
  BY <1>1, <1>2 DEF renumber
<1>5. \A m \in 1 .. N : rn[m].id = i <=> ev[m].id = id
  <2>1. \A j, m \in DOMAIN ev : Number(ev, ev[j].id) = Number(ev, ev[m].id) => ev[j].id = ev[m].id
    BY NumbersAre
  <2> QED BY <1>1, <1>2, <1>3, <2>1
<1>6. ASSUME NEW kind \in {"call", "return"}
      PROVE  Position(rn, i, kind) = Position(ev, id, kind) /\ Position(ev, id, kind) \in 1 .. N
  <2>1. PICK m \in 1 .. N : ev[m].id = id /\ ev[m].kind = kind
    <3>1. PICK j \in 1 .. N : ev[j].id = ev[k].id /\ ev[j].kind # ev[k].kind
      BY <1>1 DEF Matched
    <3>2. ev[j].kind \in {"call", "return"} /\ ev[k].kind \in {"call", "return"}
      BY <1>1 DEF Matched
    <3> QED BY <1>1, <1>2, <3>1, <3>2
  <2>2. \A j \in 1 .. N : ev[j].id = id /\ ev[j].kind = kind => j = m
    BY <1>1, <2>1 DEF Matched
  <2>3. Position(ev, id, kind) = m
    BY <1>1, <2>1, <2>2 DEF Position
  <2>4. \A j \in 1 .. N : rn[j].id = i /\ rn[j].kind = kind <=> j = m
    BY <1>3, <1>5, <2>1, <2>2
  <2>5. Position(rn, i, kind) = m
    BY <1>4, <2>4 DEF Position
  <2> QED BY <2>3, <2>5
<1>7. PICK c, r : c = Position(ev, id, "call") /\ r = Position(ev, id, "return")
  OBVIOUS
<1>8. /\ c \in 1 .. N /\ r \in 1 .. N /\ Position(rn, i, "call") = c /\ Position(rn, i, "return") = r
  BY <1>6, <1>7
<1>9. Operation(ev, id) = [key |-> "all", op |-> ev[c].op, value |-> ev[c].value, out |-> ev[r].out,
                           call |-> c, ret |-> r]
  BY <1>7 DEF Operation
<1>10. Operation(rn, i) = [key |-> "all", op |-> rn[c].op, value |-> rn[c].value, out |-> rn[r].out,
                           call |-> c, ret |-> r]
  BY <1>8 DEF Operation
<1>11. Operation(rn, i) = Operation(ev, id)
  BY <1>3, <1>8, <1>9, <1>10
<1> QED BY <1>2, <1>8, <1>9, <1>11

LEMMA EventsSplit ==
  ASSUME NEW ev, Matched(ev), \A k \in DOMAIN ev : ev[k].id \in Int, NEW h, h = Operations(ev), NEW P,
         P = [k \in {"all"} |-> [i \in 1 .. Cardinality(Ids(ev)) |-> Operation(renumber(ev), i)]]
  PROVE  Splits(h, P)
<1>1. PICK S, N, part : S = Ids(ev) /\ N = Cardinality(S) /\ part = P["all"]
  OBVIOUS
<1>2. S \subseteq Int /\ IsFiniteSet(S) /\ N \in Nat
  <2>1. Len(ev) \in Nat /\ DOMAIN ev = 1 .. Len(ev)
    BY DEF Matched
  <2>2. PICK f : f = [k \in 1 .. Len(ev) |-> ev[k].id]
    OBVIOUS
  <2>3. S = {f[k] : k \in 1 .. Len(ev)} /\ DOMAIN f = 1 .. Len(ev)
    BY <1>1, <2>1, <2>2 DEF Ids
  <2>4. IsFiniteSet(S)
    BY <2>1, <2>3, RangeIsFinite
  <2>5. S \subseteq Int
    BY <1>1 DEF Ids
  <2> QED BY <1>1, <2>4, <2>5, FS_CardinalityType
<1>3. /\ \A n \in 1 .. N : Nth(S, n) \in S /\ Rank(S, Nth(S, n)) = n
      /\ \A x \in S : Rank(S, x) \in 1 .. N /\ Nth(S, Rank(S, x)) = x
  BY <1>1, <1>2, NthIs
<1>4. /\ \A k \in DOMAIN ev : Number(ev, ev[k].id) \in 1 .. N
      /\ \A j, k \in DOMAIN ev : Number(ev, ev[j].id) = Number(ev, ev[k].id) => ev[j].id = ev[k].id
      /\ \A i \in 1 .. N : \E k \in DOMAIN ev : Number(ev, ev[k].id) = i
  BY <1>1, NumbersAre
<1>5. /\ h = [i \in 1 .. N |-> Operation(ev, Nth(S, i))] /\ Len(h) = N
      /\ part = [i \in 1 .. N |-> Operation(renumber(ev), i)] /\ Len(part) = N
      /\ DOMAIN P = {"all"}
  BY <1>1, <1>2 DEF Operations
<1>6. ASSUME NEW i \in 1 .. N PROVE h[i].call \in Int /\ h[i].ret \in Int /\ h[i].key = "all"
  <2>1. PICK k \in DOMAIN ev : Nth(S, i) = ev[k].id
    BY <1>1, <1>3 DEF Ids
  <2>2. h[i] = Operation(ev, ev[k].id)
    BY <1>5, <2>1
  <2> QED BY <2>2, OperationIs
\* The id that becomes i, and its place in h.
<1>7. PICK at, l : /\ at = [i \in 1 .. N |-> CHOOSE k \in DOMAIN ev : Number(ev, ev[k].id) = i]
                   /\ l = [i \in 1 .. N |-> Rank(S, ev[at[i]].id)]
  OBVIOUS
<1>8. ASSUME NEW i \in 1 .. N
      PROVE  /\ at[i] \in DOMAIN ev /\ Number(ev, ev[at[i]].id) = i
             /\ ev[at[i]].id \in S /\ l[i] \in 1 .. N /\ Nth(S, l[i]) = ev[at[i]].id
  <2>1. at[i] \in DOMAIN ev /\ Number(ev, ev[at[i]].id) = i
    BY <1>4, <1>7
  <2>2. ev[at[i]].id \in S
    BY <1>1, <2>1 DEF Ids
  <2> QED BY <1>3, <1>7, <2>1, <2>2
<1>9. ASSUME NEW i \in 1 .. N PROVE l[i] \in 1 .. N /\ part[i] = h[l[i]] /\ part[i].key = "all"
  <2>1. PICK k : k = at[i]
    OBVIOUS
  <2>2. k \in DOMAIN ev /\ Number(ev, ev[k].id) = i /\ l[i] \in 1 .. N /\ Nth(S, l[i]) = ev[k].id
    BY <1>8, <2>1
  <2>3. part[i] = Operation(renumber(ev), Number(ev, ev[k].id)) /\ h[l[i]] = Operation(ev, ev[k].id)
    BY <1>5, <2>2
  <2>4. Operation(renumber(ev), Number(ev, ev[k].id)) = Operation(ev, ev[k].id)
        /\ Operation(ev, ev[k].id).key = "all"
    BY <2>2, OperationIs
  <2> QED BY <2>2, <2>3, <2>4
<1>10. \A i, j \in 1 .. N : l[i] = l[j] => i = j
  BY <1>8
<1>11. ASSUME NEW m \in 1 .. N PROVE \E i \in 1 .. N : l[i] = m
  <2>1. PICK k \in DOMAIN ev : Nth(S, m) = ev[k].id
    BY <1>1, <1>3 DEF Ids
  <2>2. PICK i : i = Number(ev, ev[k].id)
    OBVIOUS
  <2>3. i \in 1 .. N /\ ev[at[i]].id = ev[k].id
    BY <1>4, <1>8, <2>2
  <2>4. l[i] = Rank(S, Nth(S, m))
    BY <1>7, <2>1, <2>3
  <2> QED BY <1>3, <2>3, <2>4
<1>12. PartOf(h, part, "all", l)
  BY <1>2, <1>5, <1>9, <1>10, <1>11 DEF PartOf
<1> QED BY <1>1, <1>2, <1>5, <1>6, <1>12 DEF Splits

LEMMA SplitsInit ==
  ASSUME Init
  PROVE  Splits(history, parts)
<1>1. CASE checkOperations
  <2>1. history \in Histories /\ parts = Partition(history)
    BY <1>1 DEF checkOperations
  <2>2. Legal(history)
    BY <2>1, HistoriesAssumption DEF Legal
  <2> QED BY <2>1, <2>2, PartitionSplits
<1>2. CASE checkEvents
  <2>1. PICK ev \in EventHistories :
            /\ history = Operations(ev)
            /\ parts = [k \in {"all"} |-> [i \in 1 .. Cardinality(Ids(ev)) |-> Operation(renumber(ev), i)]]
    BY <1>2 DEF checkEvents
  <2>2. Matched(ev) /\ \A k \in DOMAIN ev : ev[k].id \in Int
    BY HistoriesAssumption DEF Matched
  <2> QED BY <2>1, <2>2, EventsSplit
<1> QED BY <1>1, <1>2 DEF Init

-----------------------------------------------------------------------------
(***************************************************************************)
(* The search misses nothing.                                              *)
(***************************************************************************)

\* The operations r[1] .. r[m] extend the set S, in the state s, to a larger
\* one; v are the states on the way.
Extends(part, S, s, m, r, v) ==
    /\ m \in Nat /\ v[0] = s
    /\ \A k \in 1 .. m : r[k] \in (1 .. Len(part)) \ S
    /\ \A j, k \in 1 .. m : r[j] = r[k] => j = k
    /\ \A k \in 1 .. m :
           /\ KvOk(v[k - 1], part[r[k]]) /\ v[k] = KvStep(v[k - 1], part[r[k]])
           /\ \A i \in 1 .. Len(part) :
                  part[i].ret < part[r[k]].call => i \in S \/ \E j \in 1 .. (k - 1) : r[j] = i

\* An operation is missing.
Misses(part, S, m, r) == \E i \in (1 .. Len(part)) \ S : \A k \in 1 .. m : r[k] # i

\* For each of the operations, l has a sequence at least as long.
Noted(part, S, m, r, l) ==
    \A i \in 1 .. Len(part) :
        i \in S \/ (\E k \in 1 .. m : r[k] = i) => Cardinality(S) + m <= Len(l[i])

\* S in the state s cannot be completed, and if f says that the longest
\* sequences are recorded, l has all that S can be extended to.
Dead(part, S, s, l, f) ==
    /\ Cardinality(S) \in Nat
    /\ \A m, r, v : Extends(part, S, s, m, r, v) =>
           Misses(part, S, m, r) /\ (f => Noted(part, S, m, r, l))

\* l2 is as good as l1.
Grows(part, l1, l2) ==
    \A i \in 1 .. Len(part) :
        Len(l1[i]) \in Nat /\ Len(l2[i]) \in Nat /\ Len(l1[i]) <= Len(l2[i])

LEMMA StaysDead ==
  ASSUME NEW part, NEW S, NEW s, NEW l1, NEW l2, NEW f, Grows(part, l1, l2), Dead(part, S, s, l1, f)
  PROVE  Dead(part, S, s, l2, f)
<1>1. Cardinality(S) \in Nat
  BY DEF Dead
<1>2. ASSUME NEW m, NEW r, NEW v, Extends(part, S, s, m, r, v)
      PROVE  Misses(part, S, m, r) /\ (f => Noted(part, S, m, r, l2))
  <2>1. m \in Nat
    BY <1>2 DEF Extends
  <2>2. Misses(part, S, m, r) /\ (f => Noted(part, S, m, r, l1))
    BY <1>2 DEF Dead
  <2>3. ASSUME Noted(part, S, m, r, l1), NEW i \in 1 .. Len(part), i \in S \/ (\E k \in 1 .. m : r[k] = i)
        PROVE  Cardinality(S) + m <= Len(l2[i])
    <3>1. Cardinality(S) + m <= Len(l1[i])
      BY <2>3 DEF Noted
    <3>2. Len(l1[i]) \in Nat /\ Len(l2[i]) \in Nat /\ Len(l1[i]) <= Len(l2[i])
      BY DEF Grows
    <3> QED BY <1>1, <2>1, <3>1, <3>2
  <2>4. Noted(part, S, m, r, l1) => Noted(part, S, m, r, l2)
    BY <2>3 DEF Noted
  <2> QED BY <2>2, <2>4
<1> QED BY <1>1, <1>2 DEF Dead

\* Operation x may come next.
May(part, S, x) ==
    /\ x \in (1 .. Len(part)) \ S
    /\ \A i \in 1 .. Len(part) : part[i].ret < part[x].call => i \in S

\* l has a sequence as long as S for every operation in it.
Recorded(S, l, f) == f => \A i \in S : Cardinality(S) <= Len(l[i])

\* Whatever comes next, it leads nowhere.
Hopeless(part, S, s, l, f) ==
    /\ S \in SUBSET (1 .. Len(part)) /\ (1 .. Len(part)) \ S # {} /\ Recorded(S, l, f)
    /\ \A x : May(part, S, x) /\ KvOk(s, part[x]) => Dead(part, S \cup {x}, KvStep(s, part[x]), l, f)

LEMMA HopelessIsDead ==
  ASSUME NEW part, Len(part) \in Nat, NEW S, NEW s, NEW l, NEW f, Hopeless(part, S, s, l, f)
  PROVE  Dead(part, S, s, l, f)
<1>1. IsFiniteSet(S) /\ Cardinality(S) \in Nat /\ S \in SUBSET (1 .. Len(part))
  <2>1. IsFiniteSet(1 .. Len(part)) /\ S \in SUBSET (1 .. Len(part))
    BY FS_Interval DEF Hopeless
  <2>2. IsFiniteSet(S)
    BY <2>1, FS_Subset
  <2> QED BY <2>1, <2>2, FS_CardinalityType
<1> SUFFICES ASSUME NEW m, NEW r, NEW v, Extends(part, S, s, m, r, v)
             PROVE  Misses(part, S, m, r) /\ (f => Noted(part, S, m, r, l))
  BY <1>1 DEF Dead
<1>2. m \in Nat
  BY DEF Extends
<1>3. CASE m = 0
  <2>1. Misses(part, S, m, r)
    BY <1>3 DEF Misses, Hopeless
  <2>2. ASSUME f, NEW i \in 1 .. Len(part), i \in S \/ (\E k \in 1 .. m : r[k] = i)
        PROVE  Cardinality(S) + m <= Len(l[i])
    <3>1. i \in S
      BY <1>3, <2>2
    <3>2. Cardinality(S) <= Len(l[i])
      BY <2>2, <3>1 DEF Hopeless, Recorded
    <3>3. Cardinality(S) + m = Cardinality(S)
      BY <1>1, <1>3
    <3> QED BY <3>2, <3>3
  <2> QED BY <2>1, <2>2 DEF Noted
<1>4. CASE m # 0
  <2>2. PICK x, t, M, u, w : /\ x = r[1] /\ t = KvStep(s, part[x]) /\ M = m - 1
                             /\ u = [k \in 1 .. M |-> r[k + 1]] /\ w = [k \in 0 .. M |-> v[k + 1]]
    OBVIOUS
  <2>3. M \in Nat /\ 1 \in 1 .. m /\ 1 - 1 = 0 /\ \A k \in 1 .. M : k + 1 \in 1 .. m /\ (k + 1) - 1 = k /\ k + 1 # 1
    BY <1>2, <1>4, <2>2
  <2>4. x \in (1 .. Len(part)) \ S /\ KvOk(s, part[x]) /\ v[1] = t
    BY <2>2, <2>3 DEF Extends
  <2>5. May(part, S, x)
    <3>1. ASSUME NEW i \in 1 .. Len(part), part[i].ret < part[x].call PROVE i \in S
      <4>1. i \in S \/ \E j \in 1 .. (1 - 1) : r[j] = i
        BY <2>2, <2>3, <3>1 DEF Extends
      <4> QED BY <4>1
    <3> QED BY <2>4, <3>1 DEF May
  <2>6. Dead(part, S \cup {x}, t, l, f)
    BY <2>2, <2>4, <2>5 DEF Hopeless
  <2>7. w[0] = t
    BY <2>2, <2>3, <2>4
  <2>8. ASSUME NEW k \in 1 .. M PROVE u[k] = r[k + 1] /\ u[k] \in (1 .. Len(part)) \ (S \cup {x})
    <3>1. u[k] = r[k + 1]
      BY <2>2
    <3>2. r[k + 1] \in (1 .. Len(part)) \ S
      BY <2>3 DEF Extends
    <3>3. r[k + 1] # r[1]
      BY <2>3 DEF Extends
    <3> QED BY <2>2, <3>1, <3>2, <3>3
  <2>9. ASSUME NEW j \in 1 .. M, NEW k \in 1 .. M, u[j] = u[k] PROVE j = k
    <3>1. r[j + 1] = r[k + 1] /\ j + 1 \in 1 .. m /\ k + 1 \in 1 .. m
      BY <2>3, <2>8, <2>9
    <3>2. j + 1 = k + 1
      BY <3>1 DEF Extends
    <3> QED BY <3>2
  <2>10. ASSUME NEW k \in 1 .. m, r[k] # x PROVE \E j \in 1 .. M : u[j] = r[k]
    <3>1. k # 1
      BY <2>2, <2>10
    <3>2. k - 1 \in 1 .. M /\ (k - 1) + 1 = k
      BY <1>2, <2>2, <3>1
    <3> QED BY <2>8, <3>2
  <2>11. ASSUME NEW k \in 1 .. M
         PROVE  /\ KvOk(w[k - 1], part[u[k]]) /\ w[k] = KvStep(w[k - 1], part[u[k]])
                /\ \A i \in 1 .. Len(part) :
                       part[i].ret < part[u[k]].call => i \in S \cup {x} \/ \E j \in 1 .. (k - 1) : u[j] = i
    <3>1. k - 1 \in 0 .. M /\ k \in 0 .. M /\ (k - 1) + 1 = k
      BY <2>3
    <3>2. w[k - 1] = v[k] /\ w[k] = v[k + 1]
      BY <2>2, <3>1
    <3>3. KvOk(v[k], part[r[k + 1]]) /\ v[k + 1] = KvStep(v[k], part[r[k + 1]])
      BY <2>3 DEF Extends
    <3>4. ASSUME NEW i \in 1 .. Len(part), part[i].ret < part[u[k]].call, i \notin S \cup {x}
          PROVE  \E j \in 1 .. (k - 1) : u[j] = i
      <4>1. PICK j \in 1 .. k : r[j] = i
        <5>1. i \in S \/ \E j \in 1 .. ((k + 1) - 1) : r[j] = i
          BY <2>3, <2>8, <3>4 DEF Extends
        <5> QED BY <2>3, <3>4, <5>1
      <4>2. j # 1
        BY <2>2, <3>4, <4>1
      <4>3. j - 1 \in 1 .. (k - 1) /\ j - 1 \in 1 .. M /\ (j - 1) + 1 = j
        BY <2>3, <4>2
      <4> QED BY <2>8, <4>1, <4>3
    <3> QED BY <2>8, <3>2, <3>3, <3>4
  <2>12. Extends(part, S \cup {x}, t, M, u, w)
    BY <2>3, <2>7, <2>8, <2>9, <2>11 DEF Extends
  <2>13. Misses(part, S \cup {x}, M, u) /\ (f => Noted(part, S \cup {x}, M, u, l))
    BY <2>6, <2>12 DEF Dead
  <2>14. Misses(part, S, m, r)
    <3>1. PICK i \in (1 .. Len(part)) \ (S \cup {x}) : \A k \in 1 .. M : u[k] # i
      BY <2>13 DEF Misses
    <3>2. \A k \in 1 .. m : r[k] # i
      BY <2>10, <3>1
    <3> QED BY <3>1, <3>2 DEF Misses
  <2>15. Cardinality(S \cup {x}) + M = Cardinality(S) + m
    <3>1. Cardinality(S \cup {x}) = Cardinality(S) + 1
      BY <1>1, <2>4, FS_AddElement
    <3> QED BY <1>1, <1>2, <2>2, <3>1
  <2>16. ASSUME f, NEW i \in 1 .. Len(part), i \in S \/ (\E k \in 1 .. m : r[k] = i)
         PROVE  Cardinality(S) + m <= Len(l[i])
    <3>1. i \in S \cup {x} \/ (\E k \in 1 .. M : u[k] = i)
      BY <2>10, <2>16
    <3>2. Cardinality(S \cup {x}) + M <= Len(l[i])
      BY <2>13, <2>16, <3>1 DEF Noted
    <3> QED BY <2>15, <3>2
  <2> QED BY <2>14, <2>16 DEF Noted
<1> QED BY <1>3, <1>4

\* q has every member of the set J once.
Orders(q, J, N) ==
    /\ q \in [1 .. N -> J] /\ Len(q) = N /\ Cardinality(J) = N
    /\ \A i, j \in 1 .. N : q[i] = q[j] => i = j
    /\ \A i \in J : \E m \in 1 .. N : q[m] = i

LEMMA SeqOrders ==
  ASSUME NEW J, IsFiniteSet(J), NEW q \in SetToSeqs(J), NEW N, N = Cardinality(J)
  PROVE  N \in Nat /\ Orders(q, J, N)
<1>1. N \in Nat /\ IsFiniteSet(1 .. N) /\ Cardinality(1 .. N) = N
  <2>1. N \in Nat
    BY FS_CardinalityType
  <2> QED BY <2>1, FS_Interval
<1>2. q \in [1 .. N -> J] /\ \A i, j \in 1 .. N : q[i] = q[j] => i = j
  BY DEF SetToSeqs
<1>3. q \in Injection(1 .. N, J)
  BY <1>2 DEF Injection, IsInjective
<1>4. q \in Surjection(1 .. N, J)
  BY <1>1, <1>3, FS_Injection
<1>5. \A i \in J : \E m \in 1 .. N : q[m] = i
  BY <1>4 DEF Surjection
<1>6. Len(q) = N
  BY <1>1, <1>2
<1> QED BY <1>1, <1>2, <1>5, <1>6 DEF Orders

LEMMA OrderedSeq ==
  ASSUME NEW J, NEW q, NEW N \in Nat, q \in [1 .. N -> J], \A i, j \in 1 .. N : q[i] = q[j] => i = j,
         \A i \in J : \E m \in 1 .. N : q[m] = i
  PROVE  q \in SetToSeqs(J) /\ Cardinality(J) = N /\ IsFiniteSet(J)
<1>1. q \in Bijection(1 .. N, J)
  BY DEF Bijection, Injection, Surjection, IsInjective
<1>2. IsFiniteSet(1 .. N) /\ Cardinality(1 .. N) = N
  BY FS_Interval
<1>3. ExistsBijection(1 .. N, J)
  BY <1>1 DEF ExistsBijection
<1>4. IsFiniteSet(J) /\ Cardinality(J) = N
  BY <1>2, <1>3, FS_Bijection
<1> QED BY <1>4 DEF SetToSeqs

\* A linearization of a prefix extends the empty set.
LEMMA PrefixExtends ==
  ASSUME NEW part, Len(part) \in Nat, NEW p, Keyed(part, p), NEW J \in SUBSET (1 .. Len(part)),
         NEW q \in SetToSeqs(J), Linearization(part, q), NEW N, N = Cardinality(J)
  PROVE  /\ N \in Nat /\ N <= Len(part) /\ Orders(q, J, N)
         /\ \E v : Extends(part, {}, KvInit, N, q, v)
<1>1. IsFiniteSet(J) /\ N \in Nat /\ N <= Len(part)
  <2>1. IsFiniteSet(1 .. Len(part)) /\ Cardinality(1 .. Len(part)) = Len(part)
    BY FS_Interval
  <2>2. IsFiniteSet(J) /\ Cardinality(J) <= Cardinality(1 .. Len(part))
    BY <2>1, FS_Subset
  <2> QED BY <2>1, <2>2, FS_CardinalityType
<1>2. Orders(q, J, N)
  BY <1>1, SeqOrders
<1>3. /\ q \in [1 .. N -> J] /\ Len(q) = N
      /\ \A i, j \in 1 .. N : q[i] = q[j] => i = j
  BY <1>2 DEF Orders
<1>4. PICK v : v = Values(part, q, p)
  OBVIOUS
<1>5. v[0] = KvInit /\ \A n \in 1 .. N : v[n] = ValueAfter(part, q, p, n, v[n - 1])
  BY <1>1, <1>3, <1>4, ValuesAre
<1>6. ASSUME NEW k \in 1 .. N
      PROVE  /\ KvOk(v[k - 1], part[q[k]]) /\ v[k] = KvStep(v[k - 1], part[q[k]])
             /\ \A i \in 1 .. Len(part) :
                    part[i].ret < part[q[k]].call => \E j \in 1 .. (k - 1) : q[j] = i
  <2>1. q[k] \in 1 .. Len(part) /\ part[q[k]].key = p
    BY <1>3 DEF Keyed
  <2>2. v[k] = KvStep(v[k - 1], part[q[k]])
    BY <1>5, <2>1 DEF ValueAfter
  <2>3. KvOk(Values(part, q, part[q[k]].key)[k - 1], part[q[k]])
    BY <1>3 DEF Linearization
  <2>4. \A i \in 1 .. Len(part) : part[i].ret < part[q[k]].call => \E j \in 1 .. (k - 1) : q[j] = i
    BY <1>3 DEF Linearization
  <2> QED BY <1>4, <2>1, <2>2, <2>3, <2>4
<1>7. \A k \in 1 .. N : q[k] \in (1 .. Len(part)) \ {}
  BY <1>3
<1>8. Extends(part, {}, KvInit, N, q, v)
  BY <1>1, <1>3, <1>5, <1>6, <1>7 DEF Extends
<1> QED BY <1>1, <1>2, <1>8

\* Nothing longer can be found than l has.
IsLongest(part, l) ==
    \A i \in 1 .. Len(part) : \A q \in LinearPrefixes(part, i) : Len(q) <= Len(l[i])

\* A linearization of a prefix orders some operations, i among them.
LEMMA PrefixIs ==
  ASSUME NEW part, NEW i, NEW q
  PROVE  q \in LinearPrefixes(part, i) <=>
             Linearization(part, q) /\ \E J \in SUBSET (1 .. Len(part)) : i \in J /\ q \in SetToSeqs(J)
BY DEF LinearPrefixes

\* A part that is dead from the start is not linearizable, and l has a longest
\* prefix for every operation.
LEMMA DeadPart ==
  ASSUME NEW part, Len(part) \in Nat, NEW p, Keyed(part, p), NEW l, NEW f,
         Dead(part, {}, KvInit, l, f)
  PROVE  ~Linearizable(part) /\ (f => IsLongest(part, l))
<1>1. ASSUME NEW q \in SetToSeqs(1 .. Len(part)), Linearization(part, q) PROVE FALSE
  <2>1. PICK J, N : J = 1 .. Len(part) /\ N = Cardinality(J)
    OBVIOUS
  <2>2. PICK v : Extends(part, {}, KvInit, N, q, v) /\ Orders(q, J, N)
    BY <1>1, <2>1, PrefixExtends
  <2>3. Misses(part, {}, N, q)
    BY <2>2 DEF Dead
  <2> QED BY <2>1, <2>2, <2>3 DEF Misses, Orders
<1>2. ASSUME f, NEW i \in 1 .. Len(part), NEW q \in LinearPrefixes(part, i)
      PROVE  Len(q) <= Len(l[i])
  <2>1. PICK J \in SUBSET (1 .. Len(part)) : i \in J /\ q \in SetToSeqs(J)
    BY <1>2, PrefixIs
  <2>2. PICK N : N = Cardinality(J)
    OBVIOUS
  <2>3. Linearization(part, q)
    BY <1>2, PrefixIs
  <2>4. N \in Nat /\ Orders(q, J, N) /\ \E v : Extends(part, {}, KvInit, N, q, v)
    BY <2>1, <2>2, <2>3, PrefixExtends
  <2>5. Noted(part, {}, N, q, l)
    BY <1>2, <2>4 DEF Dead
  <2>6. Len(q) = N /\ \E k \in 1 .. N : q[k] = i
    BY <2>1, <2>4 DEF Orders
  <2>7. Cardinality({}) + N <= Len(l[i])
    BY <2>5, <2>6 DEF Noted
  <2>8. Cardinality({}) + N = N
    BY <2>4, FS_EmptySet
  <2> QED BY <2>6, <2>7, <2>8
<1> QED BY <1>1, <1>2 DEF Linearizable, IsLongest

\* In the list L, with S linearized and the state s, every call in front of e
\* has been tried in vain.
TriedAt(es, part, L, S, s, e, l, f) ==
    \A k \in L :
        0 < k /\ k < e /\ es[k].kind = "call" /\ KvOk(s, OpOf(es, part, k)) =>
            Dead(part, S \cup {es[k].id}, KvStep(s, OpOf(es, part, k)), l, f)

\* At every level of the stack, and on top of it.
Tried(es, part, g, l, f) ==
    /\ \A i \in 1 .. Len(g.calls) :
           TriedAt(es, part, Left(es, g.calls, i - 1), Lifted(es, g.calls, i - 1),
                   StateAt(g.calls, g.state, i), g.calls[i].entry, l, f)
    /\ Looks(g) =>
           TriedAt(es, part, Left(es, g.calls, Len(g.calls)), Lifted(es, g.calls, Len(g.calls)),
                   g.state, g.entry, l, f)

\* S and t are a level of the stack.
OnStack(es, c, s, S, t) ==
    \E i \in 1 .. Len(c) : S = Lifted(es, c, i) /\ t = StateAt(c, s, i + 1)

\* What is in the cache is dead, or still on the stack.
Cached(es, part, g, l, f) ==
    \A b, t : <<b, t>> \in g.cache =>
        Dead(part, Elements(b), t, l, f) \/ OnStack(es, g.calls, g.state, Elements(b), t)

\* A return entry is reached only when nothing can come next any more: the
\* operation that returns there would have to be linearized first.
LEMMA ReturnIsDead ==
  ASSUME NEW es, NEW part, Paired(es, Len(part)), Ordered(es, part), NEW c, NEW i, NEW L, NEW S, NEW s,
         NEW l, NEW f, L = Left(es, c, i), S = Lifted(es, c, i), NEW e \in L, e # 0, es[e].kind # "call",
         S \in SUBSET (1 .. Len(part)), Recorded(S, l, f), TriedAt(es, part, L, S, s, e, l, f)
  PROVE  Dead(part, S, s, l, f)
<1>1. PICK y : y = es[e].id
  OBVIOUS
<1>2. e \in 1 .. Len(es) /\ y \notin S
  BY <1>1 DEF Left
<1>3. y \in 1 .. Len(part) /\ es[e].kind = "return"
  BY <1>1, <1>2 DEF Paired
<1>4. ASSUME NEW x, May(part, S, x), KvOk(s, part[x])
      PROVE  Dead(part, S \cup {x}, KvStep(s, part[x]), l, f)
  <2>1. x \in 1 .. Len(part) /\ x \notin S
    BY <1>4 DEF May
  <2>2. PICK k \in 1 .. Len(es) : es[k].kind = "call" /\ es[k].id = x
    BY <2>1 DEF Ordered
  <2>3. k \in L /\ OpOf(es, part, k) = part[x]
    BY <2>1, <2>2 DEF Left, OpOf
  <2>4. ~(e < k)
    <3>1. e < k => part[y].ret < part[x].call
      BY <1>1, <1>2, <1>3, <2>2 DEF Ordered
    <3> QED BY <1>2, <1>3, <1>4, <3>1 DEF May
  <2>5. 0 < k /\ k < e
    <3>1. e # k /\ Len(es) \in Nat
      BY <2>2 DEF Paired
    <3> QED BY <1>2, <2>4, <3>1
  <2> QED BY <1>4, <2>2, <2>3, <2>5 DEF TriedAt
<1>5. Hopeless(part, S, s, l, f)
  BY <1>2, <1>3, <1>4 DEF Hopeless
<1>6. Len(part) \in Nat
  BY DEF Paired
<1> QED BY <1>5, <1>6, HopelessIsDead

\* The search goes on from e, which leads nowhere, to the next entry x.
LEMMA NextTried ==
  ASSUME NEW es, NEW part, NEW L, NEW S, NEW s, NEW l, NEW f, \A j \in L : j \in Int, NEW e \in L, NEW x,
         IsNext(L, e, x), x # Nil, TriedAt(es, part, L, S, s, e, l, f),
         e # 0 /\ KvOk(s, OpOf(es, part, e)) =>
             Dead(part, S \cup {es[e].id}, KvStep(s, OpOf(es, part, e)), l, f)
  PROVE  TriedAt(es, part, L, S, s, x, l, f)
<1> SUFFICES ASSUME NEW k \in L, 0 < k, k < x, es[k].kind = "call", KvOk(s, OpOf(es, part, k))
             PROVE  Dead(part, S \cup {es[k].id}, KvStep(s, OpOf(es, part, k)), l, f)
  BY DEF TriedAt
<1>1. x \in L /\ (k <= e \/ x <= k)
  BY DEF IsNext
<1>2. k < e \/ k = e
  BY <1>1
<1> QED BY <1>2 DEF TriedAt

\* Where the stack c ends, nothing of it contains id.
LEMMA NotOnStack ==
  ASSUME NEW es, NEW c, NEW s, Len(c) \in Nat, NEW id, id \notin Lifted(es, c, Len(c)), NEW S, id \in S,
         NEW t
  PROVE  ~OnStack(es, c, s, S, t)
<1> SUFFICES ASSUME NEW i \in 1 .. Len(c), S = Lifted(es, c, i) PROVE FALSE
  BY DEF OnStack
<1>1. PICK j \in 1 .. i : id = es[c[j].entry].id
  BY DEF Lifted
<1>2. j \in 1 .. Len(c)
  OBVIOUS
<1> QED BY <1>1, <1>2 DEF Lifted

LEMMA LiftedAre ==
  ASSUME NEW es, NEW n, Paired(es, n), NEW c, StackInv(es, c)
  PROVE  Lifted(es, c, Len(c)) \in SUBSET (1 .. n)
<1> SUFFICES ASSUME NEW i \in 1 .. Len(c) PROVE es[c[i].entry].id \in 1 .. n
  BY DEF Lifted
<1>1. c[i].entry \in 1 .. Len(es)
  BY DEF StackInv
<1> QED BY <1>1 DEF Paired

LEMMA StepTried ==
  ASSUME NEW es, NEW part, NEW g, NEW r, NEW k, NEW l, NEW f, Paired(es, Len(part)), Ordered(es, part),
         ListInv(es, Len(part), g), ListInv(es, Len(part), r),
         Replays(es, part, g.calls, g.state), Tried(es, part, g, l, f), Cached(es, part, g, l, f),
         Steps(es, part, g, r, k, f),
         ~AtCallEntry(es, g) => Recorded(Lifted(es, g.calls, Len(g.calls)), l, f)
  PROVE  Tried(es, part, r, l, f) /\ Cached(es, part, r, l, f)
<1>1. PICK T, c, d, N, s, t : /\ c = g.calls /\ d = r.calls /\ c \in Seq(T) /\ N = Len(c)
                              /\ s = g.state /\ t = r.state
  BY DEF ListInv, StackInv
<1>2. N \in Nat /\ Len(es) \in Nat /\ Len(part) \in Nat
  BY <1>1 DEF Paired
<1>3. \A i : Left(es, c, i) \in SUBSET (0 .. Len(es)) /\ 0 \in Left(es, c, i)
  BY <1>2, LeftIs
<1>4. /\ \A i \in 1 .. N :
             TriedAt(es, part, Left(es, c, i - 1), Lifted(es, c, i - 1), StateAt(c, s, i), c[i].entry, l, f)
      /\ Looks(g) => TriedAt(es, part, Left(es, c, N), Lifted(es, c, N), s, g.entry, l, f)
  BY <1>1 DEF Tried
<1>5. CASE Looks(g) /\ AtCallEntry(es, g) /\ Lifts(es, g, r) /\ Applies(OpOf(es, part, g.entry), g, r)
  <2>1. PICK e, x : e = g.entry /\ x = r.entry
    OBVIOUS
  <2>2. d = Append(c, [entry |-> e, state |-> s])
    BY <1>1, <1>5, <2>1 DEF Lifts
  <2>3. Grown(c, d, e, s)
    BY <1>1, <2>2, AppendGrows
  <2>4. Len(d) = N + 1 /\ (\A j \in 1 .. N : d[j] = c[j]) /\ d[Len(d)].entry = e
    BY <1>1, <2>3 DEF Grown
  <2>5. \A i \in 1 .. Len(d) : StateAt(d, t, i) = StateAt(c, s, i)
    <3>1. SameStates(c, s, d, t)
      BY <2>3, GrownStates
    <3> QED BY <3>1 DEF SameStates
  <2>6. ASSUME NEW i \in 0 .. N PROVE Left(es, d, i) = Left(es, c, i) /\ Lifted(es, d, i) = Lifted(es, c, i)
    <3>1. i \in Nat /\ \A j \in 1 .. i : j \in 1 .. N
      BY <1>2
    <3>2. \A j \in 1 .. i : c[j] = d[j]
      BY <2>4, <3>1
    <3> QED BY <3>1, <3>2, LeftSame
  <2>7. ASSUME NEW i \in 1 .. Len(d)
        PROVE  TriedAt(es, part, Left(es, d, i - 1), Lifted(es, d, i - 1), StateAt(d, t, i), d[i].entry, l, f)
    <3>1. i - 1 \in 0 .. N
      BY <1>2, <2>4
    <3>2. Left(es, d, i - 1) = Left(es, c, i - 1) /\ Lifted(es, d, i - 1) = Lifted(es, c, i - 1)
          /\ StateAt(d, t, i) = StateAt(c, s, i)
      BY <2>5, <2>6, <3>1
    <3>3. CASE i = Len(d)
      <4>1. i - 1 = N /\ d[i].entry = e /\ ~(i <= Len(c))
        BY <1>1, <1>2, <2>4, <3>3
      <4>2. StateAt(c, s, i) = s
        BY <4>1 DEF StateAt
      <4> QED BY <1>4, <1>5, <2>1, <3>2, <4>1, <4>2
    <3>4. CASE i # Len(d)
      <4>1. i \in 1 .. N
        BY <1>2, <2>4, <3>4
      <4>2. d[i] = c[i]
        BY <2>4, <4>1
      <4> QED BY <1>4, <3>2, <4>1, <4>2
    <3> QED BY <3>3, <3>4
  <2>8. ASSUME Looks(r) PROVE TriedAt(es, part, Left(es, d, Len(d)), Lifted(es, d, Len(d)), t, x, l, f)
    <3>1. PICK L, S : L = Left(es, d, Len(d)) /\ S = Lifted(es, d, Len(d))
      OBVIOUS
    <3>2. L \in SUBSET (0 .. Len(es)) /\ 0 \in L
      BY <1>2, <3>1, LeftIs
    <3>3. x = r.list.next[0] /\ x # Nil
      BY <1>5, <2>1, <2>8 DEF Lifts, Looks
    <3>4. IsNext(L, 0, x)
      BY <1>1, <3>1, <3>2, <3>3 DEF ListInv, Linked
    <3>5. TriedAt(es, part, L, S, t, 0, l, f) /\ \A j \in L : j \in Int
      BY <3>2 DEF TriedAt
    <3> QED BY <3>1, <3>2, <3>3, <3>4, <3>5, NextTried
  <2>9. Tried(es, part, r, l, f)
    BY <1>1, <2>1, <2>7, <2>8 DEF Tried
  <2>10. ASSUME NEW b, NEW u, <<b, u>> \in r.cache
         PROVE  Dead(part, Elements(b), u, l, f) \/ OnStack(es, d, t, Elements(b), u)
    <3>1. CASE <<b, u>> \in g.cache
      <4>1. CASE OnStack(es, c, s, Elements(b), u)
        <5>1. PICK i \in 1 .. N : Elements(b) = Lifted(es, c, i) /\ u = StateAt(c, s, i + 1)
          BY <1>1, <4>1 DEF OnStack
        <5>2. i \in 1 .. Len(d) /\ i + 1 \in 1 .. Len(d) /\ i \in 0 .. N
          BY <1>2, <2>4
        <5>3. Elements(b) = Lifted(es, d, i) /\ u = StateAt(d, t, i + 1)
          BY <2>5, <2>6, <5>1, <5>2
        <5> QED BY <5>2, <5>3 DEF OnStack
      <4> QED BY <1>1, <3>1, <4>1 DEF Cached
    <3>2. CASE <<b, u>> = <<r.linearized, r.state>>
      <4>1. b = r.linearized /\ u = t
        BY <1>1, <3>2
      <4>2. Elements(b) = Lifted(es, d, Len(d))
        BY <1>1, <4>1 DEF ListInv
      <4>3. StateAt(d, t, Len(d) + 1) = t
        BY <2>3, GrownStates DEF SameStates
      <4>4. Len(d) \in 1 .. Len(d)
        BY <1>2, <2>4
      <4> QED BY <4>1, <4>2, <4>3, <4>4 DEF OnStack
    <3> QED BY <1>5, <2>10, <3>1, <3>2 DEF Lifts
  <2>11. Cached(es, part, r, l, f)
    BY <1>1, <2>10 DEF Cached
  <2> QED BY <2>9, <2>11
<1>6. CASE Looks(g) /\ AtCallEntry(es, g) /\ Skips(g, r) /\ Rejects(OpOf(es, part, g.entry), es[g.entry].id, g)
  <2>1. PICK e, x, L, S, o, id : /\ e = g.entry /\ x = r.entry /\ L = Left(es, c, N) /\ S = Lifted(es, c, N)
                                 /\ o = OpOf(es, part, e) /\ id = es[e].id
    OBVIOUS
  <2>2. d = c /\ t = s /\ x = g.list.next[e] /\ r.list = g.list /\ Looks(r) /\ r.cache = g.cache
    BY <1>1, <1>6, <2>1 DEF Skips, Looks
  <2>3. e \in L /\ e # 0 /\ x \in L \ {0} /\ Linked(g.list, L)
    BY <1>1, <1>6, <2>1, <2>2 DEF ListInv, Looks
  <2>4. \A j \in L : j \in Int /\ j # Nil
    BY <1>3, <2>1 DEF Nil
  <2>5. IsNext(L, e, x) /\ x # Nil
    BY <2>2, <2>3, <2>4 DEF Linked
  <2>6. e \in 1 .. Len(es) /\ id \notin S /\ id \in 1 .. Len(part)
    <3>1. e \in 1 .. Len(es) /\ id \notin S
      BY <2>1, <2>3 DEF Left
    <3> QED BY <2>1, <3>1 DEF Paired
  <2>7. ASSUME KvOk(s, o) PROVE Dead(part, S \cup {id}, KvStep(s, o), l, f)
    <3>1. PICK b, u : b = set(g.linearized, id) /\ u = KvStep(s, o)
      OBVIOUS
    <3>2. <<b, u>> \in g.cache
      BY <1>1, <1>6, <2>1, <2>7, <3>1 DEF Rejects
    <3>3. g.linearized \in Bitsets(Len(part)) /\ Elements(g.linearized) = S
      BY <1>1, <2>1 DEF ListInv
    <3>4. Elements(b) = S \cup {id}
      BY <1>2, <2>6, <3>1, <3>3, SetIs
    <3>5. ~OnStack(es, c, s, Elements(b), u)
      BY <1>1, <1>2, <2>1, <2>6, <3>4, NotOnStack
    <3>6. Dead(part, Elements(b), u, l, f)
      BY <1>1, <3>2, <3>5 DEF Cached
    <3> QED BY <3>1, <3>4, <3>6
  <2>8. TriedAt(es, part, L, S, s, e, l, f)
    BY <1>4, <1>6, <2>1
  <2>9. TriedAt(es, part, L, S, s, x, l, f)
    BY <2>1, <2>3, <2>4, <2>5, <2>7, <2>8, NextTried
  <2>10. Tried(es, part, r, l, f)
    BY <1>1, <1>4, <2>1, <2>2, <2>9 DEF Tried
  <2> QED BY <1>1, <2>2, <2>10 DEF Cached
<1>7. CASE Looks(g) /\ ~AtCallEntry(es, g) /\ g.calls # <<>> /\ Unlifts(es, g, r)
           /\ Records(es, g, r, f)
  <2>1. d = SubSeq(c, 1, Len(c) - 1) /\ c # <<>> /\ t = c[Len(c)].state /\ r.cache = g.cache
    BY <1>1, <1>7 DEF Unlifts
  <2>2. PICK e, x, M : e = c[Len(c)].entry /\ x = r.entry /\ M = Len(d)
    OBVIOUS
  <2>3. Grown(d, c, e, t)
    BY <1>1, <2>1, <2>2, FrontGrows
  <2>4. M \in Nat /\ N = M + 1 /\ (\A j \in 1 .. M : c[j] = d[j]) /\ N \in 1 .. N /\ N - 1 = M
    BY <1>1, <2>2, <2>3 DEF Grown
  <2>5. (\A i \in 1 .. N : StateAt(c, s, i) = StateAt(d, t, i)) /\ StateAt(c, s, N + 1) = s
    BY <1>1, <2>3, GrownStates DEF SameStates
  <2>6. ASSUME NEW i \in 0 .. M PROVE Left(es, d, i) = Left(es, c, i) /\ Lifted(es, d, i) = Lifted(es, c, i)
    <3>1. i \in Nat /\ \A j \in 1 .. i : c[j] = d[j]
      BY <2>4
    <3> QED BY <3>1, LeftSame
  \* The top of the stack was a wrong choice.
  <2>7. Dead(part, Lifted(es, c, N), s, l, f)
    <3>1. PICK L, S, z : L = Left(es, c, N) /\ S = Lifted(es, c, N) /\ z = g.entry
      OBVIOUS
    <3>2. z \in L /\ z # 0 /\ es[z].kind # "call"
      BY <1>1, <1>7, <3>1 DEF ListInv, Looks, AtCallEntry
    <3>3. TriedAt(es, part, L, S, s, z, l, f)
      BY <1>4, <1>7, <3>1
    <3>4. S \in SUBSET (1 .. Len(part)) /\ Recorded(S, l, f)
      BY <1>1, <1>7, <3>1, LiftedAre DEF ListInv
    <3> QED BY <3>1, <3>2, <3>3, <3>4, ReturnIsDead
  <2>8. PICK L, S, o, id : L = Left(es, d, M) /\ S = Lifted(es, d, M) /\ o = OpOf(es, part, e) /\ id = es[e].id
    OBVIOUS
  <2>9. L = Left(es, c, M) /\ S = Lifted(es, c, M)
    BY <2>4, <2>6, <2>8
  <2>10. e \in 1 .. Len(es) /\ es[e].kind = "call" /\ id \notin S
    BY <1>1, <2>2, <2>4, <2>8, <2>9 DEF ListInv, StackInv
  <2>11. Lifted(es, c, N) = S \cup {id}
    <3>1. EntryAt(c, N, e)
      BY <1>1, <2>2 DEF EntryAt
    <3>2. Shrinks(es, c, M, N, e, match(es, e))
      BY <2>4, <2>10, <3>1, LeftMore
    <3> QED BY <2>8, <2>9, <3>2 DEF Shrinks
  <2>12. s = KvStep(t, o)
    <3>1. /\ StateAt(c, s, N + 1) = KvStep(StateAt(c, s, N), OpOf(es, part, c[N].entry))
      BY <1>1, <2>4 DEF Replays
    <3>2. StateAt(c, s, N) = t
      <4>1. N <= Len(c) /\ c[N].state = t
        BY <1>1, <1>2, <2>1
      <4> QED BY <4>1 DEF StateAt
    <3> QED BY <1>1, <2>2, <2>5, <2>8, <3>1, <3>2
  <2>13. StateAt(c, s, N) = t /\ TriedAt(es, part, L, S, t, e, l, f)
    <3>1. TriedAt(es, part, Left(es, c, N - 1), Lifted(es, c, N - 1), StateAt(c, s, N), c[N].entry, l, f)
      BY <1>4, <2>4
    <3>2. StateAt(c, s, N) = t
      <4>1. N <= Len(c) /\ c[N].state = t
        BY <1>1, <1>2, <2>1
      <4> QED BY <4>1 DEF StateAt
    <3> QED BY <1>1, <2>2, <2>4, <2>9, <3>1, <3>2
  <2>14. ASSUME Looks(r) PROVE TriedAt(es, part, L, S, t, x, l, f)
    <3>1. x \in L \ {0} /\ Linked(r.list, L)
      BY <1>1, <2>2, <2>8, <2>14 DEF ListInv, Looks
    <3>2. e \in L /\ \A j \in L : j \in Int /\ j # Nil
      BY <1>2, <1>3, <2>8, <2>9, <2>10 DEF Left, Nil
    <3>3. x = r.list.next[e]
      BY <1>1, <1>7, <2>2 DEF Unlifts
    <3>4. IsNext(L, e, x) /\ x # Nil
      BY <3>1, <3>2, <3>3 DEF Linked
    <3>5. Dead(part, S \cup {es[e].id}, KvStep(t, OpOf(es, part, e)), l, f)
      BY <2>7, <2>8, <2>11, <2>12
    <3> QED BY <2>13, <3>2, <3>4, <3>5, NextTried
  <2>15. ASSUME NEW i \in 1 .. M
         PROVE  TriedAt(es, part, Left(es, d, i - 1), Lifted(es, d, i - 1), StateAt(d, t, i), d[i].entry, l, f)
    <3>1. i \in 1 .. N /\ i - 1 \in 0 .. M /\ c[i] = d[i]
      BY <2>4
    <3>2. Left(es, d, i - 1) = Left(es, c, i - 1) /\ Lifted(es, d, i - 1) = Lifted(es, c, i - 1)
          /\ StateAt(d, t, i) = StateAt(c, s, i)
      BY <2>5, <2>6, <3>1
    <3> QED BY <1>4, <3>1, <3>2
  <2>16. Tried(es, part, r, l, f)
    BY <1>1, <2>2, <2>8, <2>14, <2>15 DEF Tried
  <2>17. ASSUME NEW b, NEW u, <<b, u>> \in r.cache
         PROVE  Dead(part, Elements(b), u, l, f) \/ OnStack(es, d, t, Elements(b), u)
    <3>1. CASE OnStack(es, c, s, Elements(b), u)
      <4>1. PICK i \in 1 .. N : Elements(b) = Lifted(es, c, i) /\ u = StateAt(c, s, i + 1)
        BY <1>1, <3>1 DEF OnStack
      <4>2. CASE i = N
        BY <2>5, <2>7, <4>1, <4>2
      <4>3. CASE i # N
        <5>1. i \in 1 .. M /\ i \in 0 .. M /\ i + 1 \in 1 .. N
          BY <2>4, <4>3
        <5>2. Elements(b) = Lifted(es, d, i) /\ u = StateAt(d, t, i + 1)
          BY <2>5, <2>6, <4>1, <5>1
        <5> QED BY <2>2, <5>1, <5>2 DEF OnStack
      <4> QED BY <4>2, <4>3
    <3> QED BY <1>1, <2>1, <2>17, <3>1 DEF Cached
  <2>18. Cached(es, part, r, l, f)
    BY <1>1, <2>17 DEF Cached
  <2> QED BY <2>16, <2>18
<1>8. CASE Ends(es, g, r, k)
  <2>1. d = c /\ t = s /\ r.cache = g.cache /\ ~Looks(r)
    BY <1>1, <1>8 DEF Ends, Stops, Looks
  <2> QED BY <1>1, <1>4, <2>1 DEF Tried, Cached
<1> QED BY <1>5, <1>6, <1>7, <1>8 DEF Steps

\* What has been tried stays so when more is recorded.
LEMMA StaysTried ==
  ASSUME NEW es, NEW part, NEW g, NEW l1, NEW l2, NEW f, Grows(part, l1, l2),
         Tried(es, part, g, l1, f), Cached(es, part, g, l1, f)
  PROVE  Tried(es, part, g, l2, f) /\ Cached(es, part, g, l2, f)
<1>1. ASSUME NEW L, NEW S, NEW s, NEW e, TriedAt(es, part, L, S, s, e, l1, f)
      PROVE  TriedAt(es, part, L, S, s, e, l2, f)
  BY <1>1, StaysDead DEF TriedAt
<1>2. Tried(es, part, g, l2, f)
  BY <1>1 DEF Tried
<1>3. Cached(es, part, g, l2, f)
  BY StaysDead DEF Cached
<1> QED BY <1>2, <1>3

-----------------------------------------------------------------------------
(***************************************************************************)
(* The sequences in longest.                                               *)
(***************************************************************************)

\* What l has for an operation is a linearization of a prefix that contains it.
Prefixed(part, l) ==
    /\ DOMAIN l = 1 .. Len(part)
    /\ \A i \in 1 .. Len(part) :
           Len(l[i]) \in Nat /\ (l[i] # NotFound => l[i] \in LinearPrefixes(part, i))

\* q is such a sequence for the operations J.
PrefixOf(part, q, J) ==
    /\ J \in SUBSET (1 .. Len(part)) /\ q \in SetToSeqs(J)
    /\ Len(q) \in Nat /\ Cardinality(J) = Len(q)
    /\ \A i \in J : q \in LinearPrefixes(part, i)
    /\ \A i : Contains(q, i) <=> i \in J

LEMMA StackPrefix ==
  ASSUME NEW es, NEW part, NEW g, NEW p, Paired(es, Len(part)), Ordered(es, part),
         ListInv(es, Len(part), g), Keyed(part, p), Replays(es, part, g.calls, g.state), Passed(es, g)
  PROVE  /\ PrefixOf(part, IdsOn(es, g.calls), Lifted(es, g.calls, Len(g.calls)))
         /\ Linearization(part, IdsOn(es, g.calls))
<1>1. PICK c, N, n, q, J : /\ c = g.calls /\ N = Len(c) /\ n = Len(part) /\ q = IdsOn(es, c)
                           /\ J = Lifted(es, c, N)
  OBVIOUS
<1>2. Linearization(part, q) /\ Len(q) = N
  BY <1>1, StackLinear
<1>3. n \in Nat /\ Len(es) \in Nat
  BY <1>1 DEF Paired
<1>4. /\ N \in Nat /\ StackInv(es, c)
      /\ \A i \in 1 .. N : es[c[i].entry].id \notin Lifted(es, c, i - 1)
  BY <1>1 DEF ListInv, StackInv
<1>5. DOMAIN q = 1 .. N /\ \A i \in 1 .. N : q[i] = es[c[i].entry].id
  BY <1>1 DEF IdsOn
<1>6. J \in SUBSET (1 .. n)
  BY <1>1, <1>4, LiftedAre
<1>7. /\ \A i \in 1 .. N : q[i] \in J
      /\ \A i \in J : \E m \in 1 .. N : q[m] = i
  BY <1>1, <1>5 DEF Lifted
<1>8. q \in [1 .. N -> J]
  BY <1>1, <1>5, <1>7 DEF IdsOn
<1>9. ASSUME NEW i \in 1 .. N, NEW j \in 1 .. N, i < j PROVE q[i] # q[j]
  <2>1. i \in 1 .. (j - 1)
    BY <1>4, <1>9
  <2>2. q[i] \in Lifted(es, c, j - 1)
    BY <1>5, <2>1 DEF Lifted
  <2> QED BY <1>4, <1>5, <2>2
<1>10. \A i, j \in 1 .. N : q[i] = q[j] => i = j
  <2> SUFFICES ASSUME NEW i \in 1 .. N, NEW j \in 1 .. N, i # j PROVE q[i] # q[j]
    OBVIOUS
  <2>1. i < j \/ j < i
    BY <1>4
  <2> QED BY <1>9, <2>1
<1>11. q \in SetToSeqs(J) /\ Cardinality(J) = N
  BY <1>4, <1>7, <1>8, <1>10, OrderedSeq
<1>12. \A i \in J : q \in LinearPrefixes(part, i)
  BY <1>1, <1>2, <1>6, <1>11, PrefixIs
<1>13. \A i : Contains(q, i) <=> i \in J
  BY <1>2, <1>7 DEF Contains
<1>14. PrefixOf(part, q, J)
  BY <1>1, <1>2, <1>4, <1>6, <1>11, <1>12, <1>13 DEF PrefixOf
<1> QED BY <1>1, <1>2, <1>14

\* Longer keeps for every operation of q a sequence at least as long.
LEMMA LongerIs ==
  ASSUME NEW part, NEW q, NEW J, NEW l1, NEW l2, Prefixed(part, l1), PrefixOf(part, q, J),
         l2 = Longer(l1, q)
  PROVE  /\ Prefixed(part, l2) /\ Grows(part, l1, l2)
         /\ \A i \in J : Len(q) <= Len(l2[i])
<1>1. DOMAIN l2 = 1 .. Len(part) /\ DOMAIN l1 = 1 .. Len(part) /\ Len(q) \in Nat
  BY DEF Longer, Prefixed, PrefixOf
<1>2. ASSUME NEW i \in 1 .. Len(part)
      PROVE  /\ Len(l1[i]) \in Nat /\ Len(l2[i]) \in Nat /\ Len(l1[i]) <= Len(l2[i])
             /\ l2[i] # NotFound => l2[i] \in LinearPrefixes(part, i)
             /\ i \in J => Len(q) <= Len(l2[i])
  <2>1. Len(l1[i]) \in Nat /\ (l1[i] # NotFound => l1[i] \in LinearPrefixes(part, i))
    BY DEF Prefixed
  <2>2. l2[i] = IF i \in J /\ Len(q) > Len(l1[i]) THEN q ELSE l1[i]
    BY <1>1 DEF Longer, PrefixOf
  <2>3. i \in J => q \in LinearPrefixes(part, i)
    BY DEF PrefixOf
  <2>4. CASE i \in J /\ Len(q) > Len(l1[i])
    BY <1>1, <2>1, <2>2, <2>3, <2>4
  <2>5. CASE ~(i \in J /\ Len(q) > Len(l1[i]))
    BY <1>1, <2>1, <2>2, <2>5
  <2> QED BY <2>4, <2>5
<1>3. Prefixed(part, l2) /\ Grows(part, l1, l2)
  BY <1>1, <1>2 DEF Prefixed, Grows
<1> QED BY <1>2, <1>3 DEF PrefixOf

\* When the list is empty the stack is a linearization of the whole part.
LEMMA EmptyList ==
  ASSUME NEW es, NEW part, NEW g, NEW p, Paired(es, Len(part)), Ordered(es, part),
         ListInv(es, Len(part), g), Keyed(part, p), Replays(es, part, g.calls, g.state),
         Passed(es, g), g.list.next[0] = Nil
  PROVE  Linearizable(part) /\ PrefixOf(part, IdsOn(es, g.calls), 1 .. Len(part))
<1>1. PICK c, N, n, q : c = g.calls /\ N = Len(c) /\ n = Len(part) /\ q = IdsOn(es, c)
  OBVIOUS
<1>2. n \in Nat /\ Len(es) \in Nat
  BY <1>1 DEF Paired
<1>3. Linearization(part, q) /\ PrefixOf(part, q, Lifted(es, c, N))
  BY <1>1, StackPrefix
<1>4. Left(es, c, N) = {0}
  <2>1. PICK L : L = Left(es, c, N)
    OBVIOUS
  <2>2. L \in SUBSET (0 .. Len(es)) /\ 0 \in L
    BY <1>2, <2>1, LeftIs
  <2>3. IsNext(L, 0, Nil)
    BY <1>1, <2>1, <2>2 DEF ListInv, Linked
  <2>4. Nil \notin L
    BY <2>2 DEF Nil
  <2>5. \A j \in L : j <= 0
    BY <2>3, <2>4 DEF IsNext
  <2>6. \A j \in L : j = 0
    BY <2>2, <2>5
  <2> QED BY <2>1, <2>2, <2>6
<1>5. ASSUME NEW i \in 1 .. n PROVE i \in Lifted(es, c, N)
  <2>1. PICK k \in 1 .. Len(es) : es[k].kind = "call" /\ es[k].id = i
    BY <1>1 DEF Ordered
  <2>2. k \notin Left(es, c, N)
    BY <1>2, <1>4
  <2> QED BY <2>1, <2>2 DEF Left
<1>6. Lifted(es, c, N) = 1 .. n
  BY <1>1, <1>3, <1>5 DEF PrefixOf
<1>7. PrefixOf(part, q, 1 .. n)
  BY <1>3, <1>6
<1>8. Linearizable(part)
  BY <1>1, <1>3, <1>7 DEF PrefixOf, Linearizable
<1> QED BY <1>1, <1>7, <1>8

\* Nothing is longer than a linearization of the whole part.
LEMMA WholeIsLongest ==
  ASSUME NEW part, Len(part) \in Nat, NEW p, Keyed(part, p), NEW q, PrefixOf(part, q, 1 .. Len(part)),
         NEW l1, NEW l2, Prefixed(part, l1), l2 = [i \in DOMAIN l1 |-> q]
  PROVE  Prefixed(part, l2) /\ IsLongest(part, l2)
<1>1. DOMAIN l2 = 1 .. Len(part) /\ \A i \in 1 .. Len(part) : l2[i] = q
  BY DEF Prefixed
<1>2. Len(q) = Len(part)
  <2>1. Cardinality(1 .. Len(part)) = Len(part)
    BY FS_Interval
  <2>2. Cardinality(1 .. Len(part)) = Len(q)
    BY DEF PrefixOf
  <2> QED BY <2>1, <2>2
<1>3. Prefixed(part, l2)
  BY <1>1, <1>2 DEF Prefixed, PrefixOf
<1>4. ASSUME NEW i \in 1 .. Len(part), NEW u \in LinearPrefixes(part, i) PROVE Len(u) <= Len(l2[i])
  <2>1. PICK J \in SUBSET (1 .. Len(part)) : Linearization(part, u) /\ u \in SetToSeqs(J)
    BY <1>4, PrefixIs
  <2>2. PICK N : N = Cardinality(J)
    OBVIOUS
  <2>3. N <= Len(part) /\ Orders(u, J, N)
    BY <2>1, <2>2, PrefixExtends
  <2> QED BY <1>1, <1>2, <2>3 DEF Orders
<1> QED BY <1>3, <1>4 DEF IsLongest

\* While the search goes on, longest grows, and what is given up is in it.
LEMMA StepLongest ==
  ASSUME NEW es, NEW part, NEW g, NEW r, NEW k, NEW f, NEW p, Paired(es, Len(part)), Ordered(es, part),
         ListInv(es, Len(part), g), Keyed(part, p), Replays(es, part, g.calls, g.state),
         Passed(es, g), Prefixed(part, g.longest), Steps(es, part, g, r, k, f)
  PROVE  /\ Prefixed(part, r.longest)
         /\ r.pc = "run" => /\ g.pc = "run" /\ Grows(part, g.longest, r.longest)
                            /\ ~AtCallEntry(es, g) =>
                                   Recorded(Lifted(es, g.calls, Len(g.calls)), r.longest, f)
<1>1. PICK l1, l2, q, J : /\ l1 = g.longest /\ l2 = r.longest
                          /\ q = IdsOn(es, g.calls) /\ J = Lifted(es, g.calls, Len(g.calls))
  OBVIOUS
<1>2. Prefixed(part, l1) /\ PrefixOf(part, q, J) /\ Len(part) \in Nat
  BY <1>1, StackPrefix DEF Paired
<1>3. Grows(part, l1, l1)
  <2>1. \A i \in 1 .. Len(part) : Len(l1[i]) \in Nat
    BY <1>2 DEF Prefixed
  <2> QED BY <2>1 DEF Grows
<1>4. CASE Looks(g) /\ AtCallEntry(es, g) /\ (Lifts(es, g, r) \/ Skips(g, r))
  <2>1. l2 = l1 /\ g.pc = "run"
    BY <1>1, <1>4 DEF Lifts, Skips, Looks
  <2> QED BY <1>1, <1>2, <1>3, <1>4, <2>1
<1>5. CASE Looks(g) /\ Unlifts(es, g, r) /\ Records(es, g, r, f)
  <2>1. g.pc = "run" /\ l2 = IF f THEN Longer(l1, q) ELSE l1
    BY <1>1, <1>5 DEF Looks, Records
  <2>2. CASE f
    <3>1. l2 = Longer(l1, q)
      BY <2>1, <2>2
    <3>2. Prefixed(part, l2) /\ Grows(part, l1, l2) /\ \A i \in J : Len(q) <= Len(l2[i])
      BY <1>2, <3>1, LongerIs
    <3>3. Recorded(J, l2, f)
      BY <1>2, <3>2 DEF Recorded, PrefixOf
    <3> QED BY <1>1, <2>1, <3>2, <3>3
  <2>3. CASE ~f
    BY <1>1, <1>2, <1>3, <2>1, <2>3 DEF Recorded
  <2> QED BY <2>2, <2>3
<1>6. CASE Ends(es, g, r, k)
  <2>1. r.pc # "run"
    BY <1>6 DEF Ends, Stops
  <2>2. CASE r.longest = g.longest
    BY <1>1, <1>2, <2>1, <2>2
  <2>3. CASE g.list.next[0] = Nil /\ r.longest = [i \in DOMAIN g.longest |-> IdsOn(es, g.calls)]
    <3>1. PrefixOf(part, q, 1 .. Len(part))
      BY <1>1, <2>3, EmptyList
    <3>2. l2 = [i \in DOMAIN l1 |-> q]
      BY <1>1, <2>3
    <3>3. Prefixed(part, l2)
      BY <1>2, <3>1, <3>2, WholeIsLongest
    <3> QED BY <1>1, <2>1, <3>3
  <2> QED BY <1>6, <2>2, <2>3 DEF Ends
<1> QED BY <1>4, <1>5, <1>6 DEF Steps

-----------------------------------------------------------------------------
(***************************************************************************)
(* What a goroutine answers.                                               *)
(***************************************************************************)

\* A goroutine that has left its loop knows the answer, and has the longest
\* prefixes if it was to record them, or was killed.
Answers(part, g, k, f) ==
    /\ g.pc \in {"run", "returned", "sent"} /\ g.result \in BOOLEAN
    /\ g.pc = "run" => ~g.result
    /\ g.result => Linearizable(part)
    /\ g.pc # "run" /\ ~g.result => k \/ ~Linearizable(part)
    /\ g.pc # "run" /\ f => k \/ IsLongest(part, g.longest)

LEMMA StepAnswers ==
  ASSUME NEW es, NEW part, NEW g, NEW r, NEW k, NEW f, NEW p, Paired(es, Len(part)), Ordered(es, part),
         ListInv(es, Len(part), g), Keyed(part, p), Replays(es, part, g.calls, g.state),
         Passed(es, g), Prefixed(part, g.longest), g.pc = "run" => Tried(es, part, g, g.longest, f),
         Answers(part, g, k, f), Steps(es, part, g, r, k, f)
  PROVE  /\ Answers(part, r, k, f)
         /\ \/ g.pc = "run" /\ r.pc # "sent"
            \/ g.pc = "returned" /\ r.pc = "sent" /\ r.result = g.result
<1>1. CASE Looks(g) /\ (Lifts(es, g, r) \/ Skips(g, r) \/ Unlifts(es, g, r))
  <2>1. g.pc = "run" /\ r.pc = g.pc /\ r.result = g.result
    BY <1>1 DEF Looks, Lifts, Skips, Unlifts
  <2> QED BY <2>1 DEF Answers
<1>2. CASE g.pc = "run" /\ r.pc = "returned" /\ r.result = g.result /\ k
  BY <1>2 DEF Answers
<1>3. CASE /\ g.pc = "run" /\ r.pc = "returned" /\ r.result = g.result /\ r.longest = g.longest
           /\ Looks(g) /\ ~AtCallEntry(es, g) /\ g.calls = <<>>
  <2>1. PICK c, e, L, S, l : /\ c = g.calls /\ e = g.entry /\ L = Left(es, c, 0) /\ S = Lifted(es, c, 0)
                             /\ l = g.longest
    OBVIOUS
  <2>2. Len(c) = 0 /\ S = {} /\ Len(part) \in Nat
    <3>1. Len(c) = 0 /\ Len(part) \in Nat
      BY <1>3, <2>1 DEF Paired
    <3>2. S = {}
      BY <2>1 DEF Lifted
    <3> QED BY <3>1, <3>2
  <2>3. g.state = KvInit
    BY <2>1, <2>2 DEF Replays, StateAt
  <2>4. e \in L /\ e # 0 /\ es[e].kind # "call"
    BY <1>3, <2>1, <2>2 DEF ListInv, Looks, AtCallEntry
  <2>5. TriedAt(es, part, L, S, KvInit, e, l, f)
    BY <1>3, <2>1, <2>2, <2>3 DEF Tried
  <2>6. S \in SUBSET (1 .. Len(part)) /\ Recorded(S, l, f)
    BY <2>2 DEF Recorded
  <2>7. Dead(part, S, KvInit, l, f)
    BY <2>1, <2>4, <2>5, <2>6, ReturnIsDead
  <2>8. ~Linearizable(part) /\ (f => IsLongest(part, l))
    BY <2>2, <2>7, DeadPart
  <2> QED BY <1>3, <2>1, <2>8 DEF Answers
<1>4. CASE /\ g.pc = "run" /\ r.pc = "returned" /\ r.result = TRUE /\ g.list.next[0] = Nil
           /\ r.longest = [i \in DOMAIN g.longest |-> IdsOn(es, g.calls)]
  <2>1. PICK q, l1, l2 : q = IdsOn(es, g.calls) /\ l1 = g.longest /\ l2 = r.longest
    OBVIOUS
  <2>2. Linearizable(part) /\ PrefixOf(part, q, 1 .. Len(part)) /\ Len(part) \in Nat
    BY <1>4, <2>1, EmptyList DEF Paired
  <2>3. Prefixed(part, l1) /\ l2 = [i \in DOMAIN l1 |-> q]
    BY <1>4, <2>1
  <2>4. IsLongest(part, l2)
    BY <2>2, <2>3, WholeIsLongest
  <2> QED BY <1>4, <2>1, <2>2, <2>4 DEF Answers
<1>5. CASE g.pc = "returned" /\ r.pc = "sent" /\ r.result = g.result /\ r.longest = g.longest
  BY <1>5 DEF Answers
<1> QED BY <1>1, <1>2, <1>3, <1>4, <1>5 DEF Steps, Ends

-----------------------------------------------------------------------------
(***************************************************************************)
(* checkParallel counts the answers.                                       *)
(***************************************************************************)

\* What is known of a goroutine while it searches, and of what it records.
Searched(es, part, g, f) ==
    /\ Prefixed(part, g.longest)
    /\ g.pc = "run" => Tried(es, part, g, g.longest, f) /\ Cached(es, part, g, g.longest, f)

SearchInv ==
    /\ Splits(history, parts) /\ IsFiniteSet(DOMAIN parts)
    /\ \A p \in DOMAIN parts :
           /\ Searched(entries[p], parts[p], single[p], computeInfo)
           /\ Answers(parts[p], single[p], kill, computeInfo)

\* The parts whose results have been taken from the channel.
Collected == {p \in DOMAIN parts : single[p].pc = "sent" /\ p \notin sent}

CountInv ==
    /\ kill \in BOOLEAN /\ ok \in BOOLEAN /\ timedOut \in BOOLEAN
    /\ \A p \in sent : p \in DOMAIN parts /\ single[p].pc = "sent"
    /\ count = Cardinality(Collected)
    /\ kill => timedOut \/ (~ok /\ ~computeInfo)
    /\ ~ok => \E p \in DOMAIN parts : ~Linearizable(parts[p])
    /\ ok /\ ~timedOut => \A p \in Collected : single[p].result
    /\ verdict = "Ok" => \A p \in DOMAIN parts : Linearizable(parts[p])
    /\ verdict = "Illegal" => \E p \in DOMAIN parts : ~Linearizable(parts[p])
    /\ verdict = "Unknown" => timedOut
    /\ verdict # "none" /\ computeInfo => Collected = DOMAIN parts

LEMMA SearchInit ==
  ASSUME Init
  PROVE  SearchInv /\ CountInv
<1>1. single = [k \in DOMAIN parts |-> StartSingle(entries[k], Len(parts[k]))]
  BY DEF Init
<1>2. IsFiniteSet(DOMAIN parts)
  <2>1. CASE checkOperations
    <3>1. history \in Histories /\ DOMAIN parts = Keys(history)
      BY <2>1 DEF checkOperations, Partition
    <3>2. Len(history) \in Nat
      BY <3>1, HistoriesAssumption
    <3>3. PICK f : f = [i \in 1 .. Len(history) |-> history[i].key]
      OBVIOUS
    <3>4. Keys(history) = {f[i] : i \in 1 .. Len(history)} /\ DOMAIN f = 1 .. Len(history)
      BY <3>3 DEF Keys
    <3> QED BY <3>1, <3>2, <3>4, RangeIsFinite
  <2>2. CASE checkEvents
    <3>1. DOMAIN parts = {"all"}
      BY <2>2 DEF checkEvents
    <3> QED BY <3>1, FS_Singleton
  <2> QED BY <2>1, <2>2 DEF Init
<1>3. ASSUME NEW p \in DOMAIN parts
      PROVE  /\ Searched(entries[p], parts[p], single[p], computeInfo)
             /\ Answers(parts[p], single[p], kill, computeInfo) /\ single[p].pc = "run"
  <2>1. PICK es, g, l, f : es = entries[p] /\ g = single[p] /\ l = g.longest /\ f = computeInfo
    OBVIOUS
  <2>2. /\ g.calls = <<>> /\ g.state = KvInit /\ g.entry = 1 /\ g.cache = {} /\ g.pc = "run"
        /\ g.result = FALSE /\ l = [i \in 1 .. Len(parts[p]) |-> NotFound]
    BY <1>1, <2>1 DEF StartSingle
  <2>3. Len(g.calls) = 0 /\ Paired(es, Len(parts[p]))
    BY <2>1, <2>2, PartsInit
  <2>4. \A k \in Left(es, g.calls, 0) : k \in Int
    BY <2>3 DEF Left, Paired
  <2>5. \A S, s : TriedAt(es, parts[p], Left(es, g.calls, 0), S, s, 1, l, f)
    BY <2>4 DEF TriedAt
  <2>6. Tried(es, parts[p], g, l, f)
    BY <2>2, <2>3, <2>5 DEF Tried
  <2>7. Cached(es, parts[p], g, l, f)
    BY <2>2 DEF Cached
  <2>8. Prefixed(parts[p], l)
    BY <2>2 DEF Prefixed, NotFound
  <2> QED BY <2>1, <2>2, <2>6, <2>7, <2>8 DEF Searched, Answers
<1>4. SearchInv
  BY <1>2, <1>3, SplitsInit DEF SearchInv
<1>5. Collected = {}
  BY <1>3 DEF Collected
<1>6. Cardinality(Collected) = 0
  BY <1>5, FS_EmptySet
<1>7. kill = FALSE /\ sent = {} /\ count = 0 /\ ok = TRUE /\ timedOut = FALSE /\ verdict = "none"
  BY DEF Init
<1>8. CountInv
  BY <1>5, <1>6, <1>7 DEF CountInv
<1> QED BY <1>4, <1>8

LEMMA SingleCounts ==
  ASSUME NEW p \in DOMAIN parts, checkSingle(p)
  PROVE  /\ UNCHANGED <<kill, count, ok, timedOut, verdict>>
         /\ \/ single[p].pc = "run" /\ sent' = sent
            \/ single[p].pc = "returned" /\ sent' = sent \cup {p}
BY DEF checkSingle, Killed, Linearize, Skip, Backtrack, GiveUp, Succeed, SendResult, Goes, Running

LEMMA SearchSingle ==
  ASSUME CheckInv, CheckInv', ReplayInv, SearchInv, CountInv, NEW p \in DOMAIN parts, checkSingle(p)
  PROVE  SearchInv' /\ CountInv'
<1>1. PICK r : /\ single' = [single EXCEPT ![p] = r] /\ UNCHANGED args
               /\ Steps(entries[p], parts[p], single[p], r, kill, computeInfo)
  BY SingleIs
<1>2. UNCHANGED <<history, parts, entries, computeInfo>> /\ DOMAIN single = DOMAIN parts
  BY <1>1 DEF args, CheckInv
<1>3. PICK es, part, g, k, f : /\ es = entries[p] /\ part = parts[p] /\ g = single[p]
                               /\ k = kill /\ f = computeInfo
  OBVIOUS
<1>4. single'[p] = r /\ \A q \in DOMAIN parts : q # p => single'[q] = single[q]
  BY <1>1, <1>2
<1>5. /\ Paired(es, Len(part)) /\ ListInv(es, Len(part), g) /\ ListInv(es, Len(part), r)
      /\ Ordered(es, part) /\ Keyed(part, p) /\ Replays(es, part, g.calls, g.state) /\ Passed(es, g)
      /\ Searched(es, part, g, f) /\ Answers(part, g, k, f) /\ Steps(es, part, g, r, k, f)
  BY <1>1, <1>2, <1>3, <1>4 DEF CheckInv, ReplayInv, SearchInv, Keyed
<1>6. Searched(es, part, r, f)
  <2>1. /\ Prefixed(part, g.longest)
        /\ g.pc = "run" => Tried(es, part, g, g.longest, f) /\ Cached(es, part, g, g.longest, f)
    BY <1>5 DEF Searched
  <2>2. /\ Prefixed(part, r.longest)
        /\ r.pc = "run" => /\ g.pc = "run" /\ Grows(part, g.longest, r.longest)
                           /\ ~AtCallEntry(es, g) =>
                                  Recorded(Lifted(es, g.calls, Len(g.calls)), r.longest, f)
    BY <1>5, <2>1, StepLongest
  <2>3. ASSUME r.pc = "run"
        PROVE  Tried(es, part, r, r.longest, f) /\ Cached(es, part, r, r.longest, f)
    <3>1. Tried(es, part, g, r.longest, f) /\ Cached(es, part, g, r.longest, f)
      BY <2>1, <2>2, <2>3, StaysTried
    <3> QED BY <1>5, <2>2, <2>3, <3>1, StepTried
  <2> QED BY <2>2, <2>3 DEF Searched
<1>7. /\ Answers(part, r, k, f)
      /\ \/ g.pc = "run" /\ r.pc # "sent"
         \/ g.pc = "returned" /\ r.pc = "sent" /\ r.result = g.result
  BY <1>5, StepAnswers DEF Searched
<1>8. /\ UNCHANGED <<kill, count, ok, timedOut, verdict>>
      /\ \/ g.pc = "run" /\ sent' = sent
         \/ g.pc = "returned" /\ sent' = sent \cup {p}
  BY <1>3, SingleCounts
<1>9. SearchInv'
  <2>1. ASSUME NEW q \in DOMAIN parts
        PROVE  /\ Searched(entries[q], parts[q], single'[q], computeInfo)
               /\ Answers(parts[q], single'[q], kill, computeInfo)
    BY <1>3, <1>4, <1>6, <1>7 DEF SearchInv
  <2> QED BY <1>2, <1>8, <2>1 DEF SearchInv
<1>10. \A q \in DOMAIN parts : single'[q].pc = "sent" /\ q \notin sent' <=> single[q].pc = "sent" /\ q \notin sent
  <2>1. ASSUME NEW q \in DOMAIN parts, q # p
        PROVE  single'[q].pc = "sent" /\ q \notin sent' <=> single[q].pc = "sent" /\ q \notin sent
    BY <1>4, <1>8, <2>1
  <2>2. single'[p].pc = "sent" /\ p \notin sent' <=> single[p].pc = "sent" /\ p \notin sent
    BY <1>3, <1>4, <1>7, <1>8
  <2> QED BY <2>1, <2>2
<1>11. Collected' = Collected
  BY <1>2, <1>10 DEF Collected
<1>12. \A q \in Collected : single'[q] = single[q]
  BY <1>3, <1>4, <1>8 DEF Collected
<1>13. \A q \in sent' : q \in DOMAIN parts /\ single'[q].pc = "sent"
  <2>1. \A q \in sent : q \in DOMAIN parts /\ single[q].pc = "sent"
    BY DEF CountInv
  <2> QED BY <1>3, <1>4, <1>7, <1>8, <2>1
<1>14. CountInv'
  BY <1>2, <1>8, <1>11, <1>12, <1>13 DEF CountInv
<1> QED BY <1>9, <1>14

\* One more result is taken from the channel.
LEMMA TakesOne ==
  ASSUME SearchInv, CountInv, NEW p \in sent, sent' = sent \ {p}, UNCHANGED <<parts, single>>
  PROVE  /\ p \in DOMAIN parts /\ single[p].pc = "sent"
         /\ Collected' = Collected \cup {p} /\ Cardinality(Collected') = Cardinality(Collected) + 1
         /\ \A q \in sent' : q \in DOMAIN parts' /\ single'[q].pc = "sent"
<1>1. \A q \in sent : q \in DOMAIN parts /\ single[q].pc = "sent"
  BY DEF CountInv
<1>2. PICK C, D, P : C = Collected /\ D = Collected' /\ P = DOMAIN parts
  OBVIOUS
<1>3. D = C \cup {p} /\ p \notin C /\ C \in SUBSET P
  BY <1>1, <1>2 DEF Collected
<1>4. IsFiniteSet(C)
  BY <1>2, <1>3, FS_Subset DEF SearchInv
<1>5. Cardinality(C \cup {p}) = Cardinality(C) + 1
  BY <1>3, <1>4, FS_AddElement
<1> QED BY <1>1, <1>2, <1>3, <1>5

LEMMA SearchParallel ==
  ASSUME SearchInv, CountInv, checkParallel
  PROVE  SearchInv' /\ CountInv'
<1>1. UNCHANGED <<history, parts, entries, computeInfo, single>>
  BY DEF checkParallel, CollectResult, TimerFires, Drain, Conclude, args
<1>2. kill => kill'
  BY DEF checkParallel, CollectResult, TimerFires, Drain, Conclude
<1>3. SearchInv'
  <2>1. ASSUME NEW p \in DOMAIN parts PROVE Answers(parts[p], single[p], kill', computeInfo)
    <3>1. Answers(parts[p], single[p], kill, computeInfo)
      BY DEF SearchInv
    <3> QED BY <1>2, <3>1 DEF Answers
  <2> QED BY <1>1, <2>1 DEF SearchInv
<1>4. CASE CollectResult
  <2>1. PICK p \in sent : /\ sent' = sent \ {p} /\ count' = count + 1
                          /\ ok' = (ok /\ single[p].result)
    BY <1>4 DEF CollectResult
  <2>2. /\ kill' = (kill \/ (~ok' /\ ~computeInfo)) /\ timedOut' = timedOut /\ verdict' = verdict
        /\ verdict = "none" /\ ~timedOut /\ (ok \/ computeInfo)
    BY <1>4 DEF CollectResult, Collecting
  <2>3. /\ p \in DOMAIN parts /\ single[p].pc = "sent"
        /\ Collected' = Collected \cup {p} /\ Cardinality(Collected') = Cardinality(Collected) + 1
        /\ \A q \in sent' : q \in DOMAIN parts' /\ single'[q].pc = "sent"
    BY <1>1, <2>1, TakesOne
  <2>4. ~kill
    BY <2>2 DEF CountInv
  <2>5. single[p].result \in BOOLEAN /\ (~single[p].result => ~Linearizable(parts[p]))
    BY <2>3, <2>4 DEF SearchInv, Answers
  <2>6. ok' \in BOOLEAN /\ kill' \in BOOLEAN /\ timedOut' \in BOOLEAN /\ count' = Cardinality(Collected')
    BY <2>1, <2>2, <2>3 DEF CountInv
  <2>7. kill' => timedOut' \/ (~ok' /\ ~computeInfo')
    BY <1>1, <2>2, <2>4
  <2>8. ~ok' => \E q \in DOMAIN parts' : ~Linearizable(parts'[q])
    BY <1>1, <2>1, <2>3, <2>5 DEF CountInv
  <2>9. ASSUME ok', ~timedOut', NEW q \in Collected' PROVE single'[q].result
    <3>1. ok /\ single[p].result
      BY <2>1, <2>9
    <3>2. \A o \in Collected : single[o].result
      BY <2>2, <3>1 DEF CountInv
    <3> QED BY <1>1, <2>3, <2>9, <3>1, <3>2
  <2>10. verdict' = "none"
    BY <2>2
  <2> QED BY <1>3, <2>3, <2>6, <2>7, <2>8, <2>9, <2>10 DEF CountInv
<1>5. CASE TimerFires
  <2>1. /\ timedOut' = TRUE /\ kill' = TRUE /\ UNCHANGED <<sent, count, ok, verdict>>
    BY <1>5 DEF TimerFires
  <2>2. Collected' = Collected
    BY <1>1, <2>1 DEF Collected
  <2> QED BY <1>1, <1>3, <2>1, <2>2 DEF CountInv
<1>6. CASE Drain
  <2>1. PICK p \in sent : sent' = sent \ {p} /\ ok' = ok
    BY <1>6 DEF Drain, Drained
  <2>2. /\ count' = count + 1 /\ UNCHANGED <<kill, timedOut, verdict>>
        /\ verdict = "none" /\ timedOut
    BY <1>6 DEF Drain, Collecting, CountInv
  <2>3. /\ Cardinality(Collected') = Cardinality(Collected) + 1
        /\ \A q \in sent' : q \in DOMAIN parts' /\ single'[q].pc = "sent"
    BY <1>1, <2>1, TakesOne
  <2> QED BY <1>1, <1>3, <2>1, <2>2, <2>3 DEF CountInv
<1>7. CASE Conclude
  <2>1. /\ verdict = "none" /\ ~Collecting /\ UNCHANGED <<kill, sent, count, ok, timedOut>>
        /\ verdict' = IF ~ok THEN "Illegal" ELSE IF timedOut THEN "Unknown" ELSE "Ok"
    BY <1>7 DEF Conclude
  <2>2. Collected' = Collected
    BY <1>1, <2>1 DEF Collected
  <2>3. ASSUME computeInfo \/ (ok /\ ~timedOut) PROVE Collected = DOMAIN parts
    <3>1. PICK C, P, n, m : /\ C = Collected /\ P = DOMAIN parts
                            /\ n = Cardinality(C) /\ m = Cardinality(P)
      OBVIOUS
    <3>2. C \in SUBSET P /\ IsFiniteSet(P) /\ count = n
      BY <3>1 DEF Collected, SearchInv, CountInv
    <3>3. IsFiniteSet(C) /\ n <= m /\ (m = n => P = C)
      BY <3>1, <3>2, FS_Subset
    <3>4. n \in Nat /\ m \in Nat
      BY <3>1, <3>2, <3>3, FS_CardinalityType
    <3>5. ~(n < m)
      <4>1. CASE computeInfo
        <5>1. count >= All
          BY <1>7, <4>1 DEF Conclude
        <5> QED BY <3>1, <3>2, <3>4, <5>1 DEF All
      <4>2. CASE ok /\ ~timedOut
        BY <2>1, <3>1, <3>2, <4>2 DEF Collecting, All
      <4> QED BY <2>3, <4>1, <4>2
    <3>6. P = C
      BY <3>3, <3>4, <3>5
    <3> QED BY <3>1, <3>6
  <2>4. ASSUME verdict' = "Ok", NEW p \in DOMAIN parts PROVE Linearizable(parts[p])
    <3>1. ok /\ ~timedOut
      BY <2>1, <2>4 DEF CountInv
    <3>2. single[p].result
      BY <2>3, <3>1 DEF CountInv
    <3> QED BY <3>2 DEF SearchInv, Answers
  <2>5. verdict' = "Illegal" => ~ok
    BY <2>1
  <2>6. verdict' = "Unknown" => timedOut
    BY <2>1
  <2>7. computeInfo => Collected = DOMAIN parts
    BY <2>3
  <2> QED BY <1>1, <1>3, <2>1, <2>2, <2>4, <2>5, <2>6, <2>7 DEF CountInv
<1> QED BY <1>4, <1>5, <1>6, <1>7 DEF checkParallel

LEMMA SearchNext ==
  ASSUME CheckInv, CheckInv', ReplayInv, SearchInv, CountInv, [Next]_vars
  PROVE  SearchInv' /\ CountInv'
<1>1. CASE \E p \in DOMAIN parts : checkSingle(p)
  BY <1>1, SearchSingle
<1>2. CASE checkParallel
  BY <1>2, SearchParallel
<1>3. CASE UNCHANGED vars
  <2>1. UNCHANGED <<history, computeInfo, parts, entries, single, kill, sent, count, ok, timedOut, verdict>>
    BY <1>3 DEF vars, args
  <2>2. Collected' = Collected
    BY <2>1 DEF Collected
  <2> QED BY <2>1, <2>2 DEF SearchInv, CountInv
<1> QED BY <1>1, <1>2, <1>3 DEF Next

LEMMA SearchInductive == Spec => [](SearchInv /\ CountInv)
<1>1. Init => CheckInv /\ ReplayInv /\ SearchInv /\ CountInv
  BY CheckInit, ReplayInit, SearchInit
<1>2. /\ CheckInv /\ ReplayInv /\ SearchInv /\ CountInv /\ [Next]_vars
      => (CheckInv /\ ReplayInv /\ SearchInv /\ CountInv)'
  BY CheckNext, ReplayNext, SearchNext
<1> QED BY <1>1, <1>2, PTL DEF Spec

\* For every history of operations or events, every order in which the sort
\* leaves ties, every interleaving of the goroutines and whenever the timer
\* fires: Ok and Illegal are the truth about the whole history, and Unknown is
\* said only after the timer.
THEOREM VerdictIsRight == Spec => []VerdictRight
<1>1. SearchInv /\ CountInv => VerdictRight
  <2> SUFFICES ASSUME SearchInv, CountInv PROVE VerdictRight
    OBVIOUS
  <2>1. Linearizable(history) <=> \A p \in DOMAIN parts : Linearizable(parts[p])
    BY Local DEF SearchInv
  <2> QED BY <2>1 DEF CountInv, VerdictRight
<1> QED BY <1>1, SearchInductive, PTL

\* When the check with computeInfo is over, every goroutine has stored its
\* longest, what it has for an operation is a linearization of a prefix that
\* contains it and, unless the timer fired, there is none longer: although the
\* search backtracks, cuts branches off at the cache, and records a stack only
\* when it is taken down.
THEOREM LongestIsRight == Spec => []LongestRight
<1>1. SearchInv /\ CountInv => LongestRight
  <2> SUFFICES ASSUME SearchInv, CountInv, verdict # "none", computeInfo,
                      NEW p \in DOMAIN parts, NEW i \in 1 .. Len(parts[p])
               PROVE  LET q == single[p].longest[i] IN
                      /\ single[p].pc = "sent"
                      /\ q # NotFound => q \in LinearPrefixes(parts[p], i)
                      /\ ~timedOut => \A r \in LinearPrefixes(parts[p], i) : Len(r) <= Len(q)
    BY DEF LongestRight
  <2>1. single[p].pc = "sent"
    BY DEF CountInv, Collected
  <2>2. Prefixed(parts[p], single[p].longest) /\ Answers(parts[p], single[p], kill, computeInfo)
    BY DEF SearchInv, Searched
  <2>3. single[p].longest[i] # NotFound => single[p].longest[i] \in LinearPrefixes(parts[p], i)
    BY <2>2 DEF Prefixed
  <2>4. ASSUME ~timedOut PROVE IsLongest(parts[p], single[p].longest)
    <3>1. ~kill
      BY <2>4 DEF CountInv
    <3> QED BY <2>1, <2>2, <3>1 DEF Answers
  <2>5. ~timedOut => \A r \in LinearPrefixes(parts[p], i) : Len(r) <= Len(single[p].longest[i])
    BY <2>4 DEF IsLongest
  <2> QED BY <2>1, <2>3, <2>5
<1> QED BY <1>1, SearchInductive, PTL
=============================================================================
