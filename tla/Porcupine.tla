----------------------------- MODULE Porcupine -----------------------------
(***************************************************************************)
(* The linearizability checker: porcupine/checker.go with the key/value    *)
(* model of models/kv.go.  checkOperations splits a history of operations  *)
(* by key, checkEvents takes a history of events as one part; then         *)
(* checkParallel starts a checkSingle goroutine for every part and         *)
(* collects their results until all are in, one is negative, or the timer  *)
(* fires.                                                                  *)
(*                                                                         *)
(* checkSingle is modelled at the level of its data structures: the        *)
(* entries of a part form a doubly linked list from which the operations   *)
(* linearized so far are lifted, and into which they are put back, by      *)
(* pointer updates that rely on the order in which they were lifted.       *)
(***************************************************************************)
EXTENDS Integers, Sequences, FiniteSets, SequencesExt, FiniteSetsExt

CONSTANTS Histories,       \* sequences of operations [key, op, value, out, call, ret]
          EventHistories,  \* sequences of events [kind, id, op, value, out]
          ChunkBits        \* the bits of one word of a bitset

VARIABLES
    history, computeInfo, timeout,   \* the arguments; they do not change
    parts,      \* history split by key, or as a whole
    entries,    \* entries[p]: the sorted entries of a part
    single,     \* single[p]: the goroutine that runs checkSingle on p
    kill,
    sent,       \* the parts whose result is in the channel results
    count, ok, timedOut,
    verdict     \* "none" until checkParallel returns

args == <<history, computeInfo, timeout, parts, entries>>
vars == <<args, single, kill, sent, count, ok, timedOut, verdict>>

-----------------------------------------------------------------------------
(***************************************************************************)
(* models/kv.go: one key's value is the sequence of the values appended.   *)
(***************************************************************************)

KvInit == <<>>

KvOk(state, o) == o.op = "get" => o.out = state

KvStep(state, o) ==
    CASE o.op = "get"    -> state
      [] o.op = "put"    -> <<o.value>>
      [] o.op = "append" -> Append(state, o.value)

\* The n-th of the numbers in S.
Nth(S, n) == CHOOSE x \in S : Cardinality({y \in S : y <= x}) = n

\* Partition: the operations on each key, in the order of the history.
Keys(h) == {h[i].key : i \in 1 .. Len(h)}
Positions(h, k) == {i \in 1 .. Len(h) : h[i].key = k}
Partition(h) ==
    [k \in Keys(h) |->
        [n \in 1 .. Cardinality(Positions(h, k)) |-> h[Nth(Positions(h, k), n)]]]

\* An operation is called before it returns.  Every event has its counterpart,
\* once, and calls come first.
ASSUME HistoriesAssumption ==
    /\ \A h \in Histories :
           /\ Len(h) \in Nat
           /\ \A i \in 1 .. Len(h) :
                  /\ h[i].op \in {"get", "put", "append"}
                  /\ h[i].call \in Int /\ h[i].ret \in Int /\ h[i].call < h[i].ret
    /\ \A ev \in EventHistories :
           /\ Len(ev) \in Nat /\ DOMAIN ev = 1 .. Len(ev)
           /\ \A k \in DOMAIN ev :
                  /\ DOMAIN ev[k] = {"kind", "id", "op", "value", "out"}
                  /\ ev[k].id \in Int
                  /\ ev[k].op \in {"get", "put", "append"} /\ ev[k].kind \in {"call", "return"}
                  /\ \E j \in DOMAIN ev : ev[j].id = ev[k].id /\ ev[j].kind # ev[k].kind
                  /\ \A j \in DOMAIN ev :
                         /\ ev[j].id = ev[k].id /\ ev[j].kind = ev[k].kind => j = k
                         /\ ev[j].id = ev[k].id /\ ev[j].kind = "call" => j <= k
    /\ ChunkBits \in Nat \ {0}

-----------------------------------------------------------------------------
(***************************************************************************)
(* makeEntries: a call and a return entry for every operation, in the      *)
(* order of time.  sort.Sort is not stable: what the comparison leaves     *)
(* open, calls or returns at the same time, comes in any order, tie.       *)
(***************************************************************************)

EntriesOf(part) ==
    {[kind |-> "call", id |-> i, time |-> part[i].call] : i \in 1 .. Len(part)} \cup
    {[kind |-> "return", id |-> i, time |-> part[i].ret] : i \in 1 .. Len(part)}

Ties(n) ==
    [{"call", "return"} -> {r \in [1 .. n -> 1 .. n] : \A i, j \in 1 .. n : r[i] = r[j] => i = j}]

Less(a, b, tie) ==
    \/ a.time < b.time
    \/ a.time = b.time /\ a.kind = "call" /\ b.kind = "return"
    \/ a.time = b.time /\ a.kind = b.kind /\ tie[a.kind][a.id] < tie[b.kind][b.id]

makeEntries(part, tie) ==
    LET E == EntriesOf(part) IN
    [k \in 1 .. Cardinality(E) |->
        CHOOSE e \in E : Cardinality({f \in E : Less(f, e, tie)}) = k - 1]

\* What makeEntries may return.
Sorted(part) == {makeEntries(part, tie) : tie \in Ties(Len(part))}

-----------------------------------------------------------------------------
(***************************************************************************)
(* Histories of events, whose ids are arbitrary.                           *)
(***************************************************************************)

\* The positions of the events of id in ev: its call, then its return.
Position(ev, id, kind) == CHOOSE k \in DOMAIN ev : ev[k].id = id /\ ev[k].kind = kind
Ids(ev) == {ev[k].id : k \in DOMAIN ev}

\* The operation of id: the input of its call, the output of its return, and
\* their positions for times.  The key of its input makes no difference: KvModel
\* has no PartitionEvent and its Step does not look at the key, so that events
\* on several keys are judged as events on one, which is what "all" stands for.
Operation(ev, id) ==
    LET c == Position(ev, id, "call") r == Position(ev, id, "return")
    IN  [key |-> "all", op |-> ev[c].op, value |-> ev[c].value, out |-> ev[r].out,
         call |-> c, ret |-> r]

\* The operations in the order of their ids.
Operations(ev) ==
    [i \in 1 .. Cardinality(Ids(ev)) |-> Operation(ev, Nth(Ids(ev), i))]

\* Ids become 1, 2, ... in the order in which they appear first.
renumber(ev) ==
    [k \in DOMAIN ev |-> [ev[k] EXCEPT !.id =
        Cardinality({ev[j].id : j \in 1 .. Position(ev, ev[k].id, "call")})]]

convertEntries(ev) ==
    [k \in DOMAIN ev |-> [kind |-> ev[k].kind, id |-> ev[k].id, time |-> k]]

-----------------------------------------------------------------------------
(***************************************************************************)
(* The linked list: node 0 is headEntry, node k the k-th entry.            *)
(***************************************************************************)

Nil == -1

\* makeLinkedEntries, and headEntry before them.
makeLinkedEntries(es) ==
    [next |-> [k \in 0 .. Len(es) |-> IF k = Len(es) THEN Nil ELSE k + 1],
     prev |-> [k \in 0 .. Len(es) |-> k - 1]]

\* The return entry of the call entry e.
match(es, e) == CHOOSE k \in 1 .. Len(es) : es[k].kind = "return" /\ es[k].id = es[e].id

\* f[n] = v, where n may be nil.
Set(f, n, v) == IF n = Nil THEN f ELSE [f EXCEPT ![n] = v]

lift(l, e, m) ==
    LET n1 == [l.next EXCEPT ![l.prev[e]] = l.next[e]]
        p1 == [l.prev EXCEPT ![l.next[e]] = l.prev[e]]
    IN  [next |-> [n1 EXCEPT ![p1[m]] = n1[m]], prev |-> Set(p1, n1[m], p1[m])]

\* Mutant: the return entry is not put back.
unliftCallOnly(l, e, m) ==
    [next |-> [l.next EXCEPT ![l.prev[e]] = e], prev |-> Set(l.prev, l.next[e], e)]

unlift(l, e, m) ==
    LET n1 == [l.next EXCEPT ![l.prev[m]] = m]
        p1 == Set(l.prev, l.next[m], m)
    IN  [next |-> [n1 EXCEPT ![p1[e]] = e], prev |-> Set(p1, n1[e], e)]

-----------------------------------------------------------------------------
(***************************************************************************)
(* bitset: words of ChunkBits bits, each the set of the bits that are set. *)
(* Operation id has the position id - 1.                                   *)
(***************************************************************************)

newBitset(n) ==
    [w \in 1 .. n \div ChunkBits + (IF n % ChunkBits # 0 THEN 1 ELSE 0) |-> {}]

bitsetIndex(id) == <<(id - 1) \div ChunkBits + 1, (id - 1) % ChunkBits>>

set(b, id) == [b EXCEPT ![bitsetIndex(id)[1]] = @ \cup {bitsetIndex(id)[2]}]
clear(b, id) == [b EXCEPT ![bitsetIndex(id)[1]] = @ \ {bitsetIndex(id)[2]}]

\* The ids in a bitset.
Elements(b) == UNION {{(w - 1) * ChunkBits + i + 1 : i \in b[w]} : w \in DOMAIN b}

-----------------------------------------------------------------------------
(***************************************************************************)
(* checkSingle.  The cache is a set of pairs, looked up by equality (the   *)
(* hash only chooses the bucket).                                          *)
(***************************************************************************)

NotFound == <<>>   \* no entry of longest yet

StartSingle(es, n) ==
    [pc |-> "run", list |-> makeLinkedEntries(es), entry |-> 1, state |-> KvInit,
     linearized |-> newBitset(n), cache |-> {}, calls |-> <<>>,
     longest |-> [i \in 1 .. n |-> NotFound], result |-> FALSE]

checkOperations ==
    /\ history \in Histories
    /\ parts = Partition(history)
    /\ LET sorted == [k \in DOMAIN parts |-> Sorted(parts[k])]
       IN  entries \in {es \in [DOMAIN parts -> UNION {sorted[k] : k \in DOMAIN parts}] :
                           \A k \in DOMAIN parts : es[k] \in sorted[k]}

\* KvModel has no PartitionEvent, so the history is one part.
checkEvents ==
    \E ev \in EventHistories :
        /\ history = Operations(ev)
        /\ parts = [k \in {"all"} |-> [i \in 1 .. Cardinality(Ids(ev)) |-> Operation(renumber(ev), i)]]
        /\ entries = [k \in {"all"} |-> convertEntries(renumber(ev))]

\* The functions of porcupine.go fix verbose and timeout in every combination
\* (CheckOperationsVerbose and CheckEventsVerbose may be given no timeout).
Options == computeInfo \in BOOLEAN /\ timeout \in BOOLEAN

Init ==
    /\ checkOperations \/ checkEvents
    /\ Options
    /\ single = [k \in DOMAIN parts |-> StartSingle(entries[k], Len(parts[k]))]
    /\ kill = FALSE /\ sent = {} /\ count = 0
    /\ ok = TRUE /\ timedOut = FALSE /\ verdict = "none"

\* The goroutine's record becomes r.
Goes(p, r) ==
    /\ single' = [single EXCEPT ![p] = r]
    /\ UNCHANGED <<args, kill, sent, count, ok, timedOut, verdict>>

Running(p) == single[p].pc = "run" /\ single[p].list.next[0] # Nil

AtCall(p) == entries[p][single[p].entry].kind = "call"
OpAt(p) == parts[p][entries[p][single[p].entry].id]

cacheContains(cache, linearized, state) == <<linearized, state>> \in cache

\* The killed flag is read before every step.
Killed(p) ==
    /\ Running(p) /\ kill
    /\ Goes(p, [single[p] EXCEPT !.pc = "returned"])

\* The operation at entry can be next, and leads to something new: it is
\* linearized and the search goes on from the head of the list.
CanLinearize(p) ==
    LET g == single[p] id == entries[p][g.entry].id IN
    /\ KvOk(g.state, OpAt(p))
    /\ ~cacheContains(g.cache, set(g.linearized, id), KvStep(g.state, OpAt(p)))

Linearize(p) ==
    /\ Running(p) /\ ~kill /\ AtCall(p) /\ CanLinearize(p)
    /\ LET g    == single[p]
           id   == entries[p][g.entry].id
           list == lift(g.list, g.entry, match(entries[p], g.entry))
           new  == KvStep(g.state, OpAt(p))
       IN  Goes(p, [g EXCEPT !.list = list, !.entry = list.next[0], !.state = new,
                             !.linearized = set(@, id),
                             !.cache = @ \cup {<<set(g.linearized, id), new>>},
                             !.calls = Append(@, [entry |-> g.entry, state |-> g.state])])

Skip(p) ==
    /\ Running(p) /\ ~kill /\ AtCall(p) /\ ~CanLinearize(p)
    /\ Goes(p, [single[p] EXCEPT !.entry = single[p].list.next[@]])

\* The ids on the stack of calls.
CallIds(p, calls) == [i \in 1 .. Len(calls) |-> entries[p][calls[i].entry].id]

\* Mutant: only the first sequence found is kept.
LongerFirst(longest, seq) ==
    [i \in DOMAIN longest |->
        IF Contains(seq, i) /\ longest[i] = NotFound THEN seq ELSE longest[i]]

\* For every operation on the stack, the longest stack it has been part of.
Longer(longest, seq) ==
    [i \in DOMAIN longest |->
        IF Contains(seq, i) /\ Len(seq) > Len(longest[i]) THEN seq ELSE longest[i]]

\* Mutant: the state is not restored.
PoppedStateKept(g) == g.state

\* callsTop.state
PoppedState(g) == Last(g.calls).state

\* A return entry is reached: the last operation linearized was a wrong choice.
Backtrack(p) ==
    LET g == single[p] top == Last(g.calls) IN
    /\ Running(p) /\ ~kill /\ ~AtCall(p) /\ g.calls # <<>>
    /\ LET list == unlift(g.list, top.entry, match(entries[p], top.entry))
       IN  Goes(p, [g EXCEPT !.list = list, !.entry = list.next[top.entry],
                             !.state = PoppedState(g),
                             !.linearized = clear(@, entries[p][top.entry].id),
                             !.calls = Front(@),
                             !.longest = IF computeInfo
                                         THEN Longer(@, CallIds(p, g.calls)) ELSE @])

GiveUp(p) ==
    /\ Running(p) /\ ~kill /\ ~AtCall(p) /\ single[p].calls = <<>>
    /\ Goes(p, [single[p] EXCEPT !.pc = "returned"])

\* The list is empty: every operation has been linearized.
Succeed(p) ==
    LET g == single[p] IN
    /\ g.pc = "run" /\ g.list.next[0] = Nil
    /\ Goes(p, [g EXCEPT !.pc = "returned", !.result = TRUE,
                         !.longest = [i \in DOMAIN @ |-> CallIds(p, g.calls)]])

\* The goroutine stores longest and sends its result; results has room for all.
SendResult(p) ==
    /\ single[p].pc = "returned"
    /\ single' = [single EXCEPT ![p].pc = "sent"]
    /\ sent' = sent \cup {p}
    /\ UNCHANGED <<args, kill, count, ok, timedOut, verdict>>

checkSingle(p) ==
    \/ Killed(p) \/ Linearize(p) \/ Skip(p) \/ Backtrack(p)
    \/ GiveUp(p) \/ Succeed(p) \/ SendResult(p)

-----------------------------------------------------------------------------
(***************************************************************************)
(* checkParallel                                                           *)
(***************************************************************************)

All == Cardinality(DOMAIN parts)

\* Mutant: the loop waits for one result too many.
CollectingOneMore ==
    verdict = "none" /\ ~timedOut /\ count <= All /\ (ok \/ computeInfo)

\* The select loop has not been left.
Collecting ==
    verdict = "none" /\ ~timedOut /\ (count < All \/ All = 0) /\ (ok \/ computeInfo)

CollectResult ==
    /\ Collecting
    /\ \E p \in sent :
         /\ sent' = sent \ {p}
         /\ count' = count + 1
         /\ ok' = (ok /\ single[p].result)
    /\ kill' = (kill \/ (~ok' /\ ~computeInfo))
    /\ UNCHANGED <<args, single, timedOut, verdict>>

TimerFires ==
    /\ Collecting /\ timeout
    /\ timedOut' = TRUE /\ kill' = TRUE
    /\ UNCHANGED <<args, single, sent, count, ok, verdict>>

\* Mutant: the results that arrive after the loop count too.
DrainedCounts(res) == ok /\ res

\* <-results: the value is thrown away.
Drained(res) == ok

\* With computeInfo all goroutines are waited for.
Drain ==
    /\ verdict = "none" /\ ~Collecting /\ computeInfo /\ count < All
    /\ \E p \in sent : sent' = sent \ {p} /\ ok' = Drained(single[p].result)
    /\ count' = count + 1
    /\ UNCHANGED <<args, single, kill, timedOut, verdict>>

Conclude ==
    /\ verdict = "none" /\ ~Collecting
    /\ computeInfo => count >= All
    /\ verdict' = IF ~ok THEN "Illegal" ELSE IF timedOut THEN "Unknown" ELSE "Ok"
    /\ UNCHANGED <<args, single, kill, sent, count, ok, timedOut>>

checkParallel == CollectResult \/ TimerFires \/ Drain \/ Conclude

Next == checkParallel \/ \E p \in DOMAIN parts : checkSingle(p)

Spec == Init /\ [][Next]_vars

\* Goroutines are scheduled; the timer, when there is one, fires some day.
FairSpec ==
    /\ Spec
    /\ WF_vars(checkParallel)
    /\ \A k \in {"all"} \cup UNION {Keys(h) : h \in Histories} :
           WF_vars(k \in DOMAIN parts /\ checkSingle(k))

-----------------------------------------------------------------------------
(***************************************************************************)
(* What linearizability means, for the whole history and for one part.     *)
(***************************************************************************)

\* The values of key k along q, a sequence of operations of h: Values(h, q, k)[n]
\* after the first n of them.
Values(h, q, k) ==
    LET value[n \in 0 .. Len(q)] ==
            IF n = 0 THEN KvInit
            ELSE IF h[q[n]].key = k THEN KvStep(value[n - 1], h[q[n]]) ELSE value[n - 1]
    IN  value

\* q, a sequence of distinct operations of h, is a linearization of a prefix:
\* every get returns the value the operations before it leave, and nothing
\* comes after an operation that was called when it had returned already.
Linearization(h, q) ==
    \A n \in 1 .. Len(q) :
        /\ KvOk(Values(h, q, h[q[n]].key)[n - 1], h[q[n]])
        /\ \A i \in 1 .. Len(h) :
               h[i].ret < h[q[n]].call => \E j \in 1 .. (n - 1) : q[j] = i

Linearizable(h) == \E q \in SetToSeqs(1 .. Len(h)) : Linearization(h, q)

\* Every linearization of a prefix of h that contains the operation i.
LinearPrefixes(h, i) ==
    {q \in UNION {SetToSeqs(I) : I \in {J \in SUBSET (1 .. Len(h)) : i \in J}} :
        Linearization(h, q)}

-----------------------------------------------------------------------------
(***************************************************************************)
(* Properties                                                              *)
(***************************************************************************)

\* The list holds exactly the entries of the operations not linearized, in
\* their order and linked both ways, however often lift and unlift have run,
\* and entry is one of them: the search never follows a stale pointer or runs
\* off the end.
ListIntact ==
    \A p \in DOMAIN parts :
        LET g    == single[p]
            left == {0} \cup {k \in 1 .. Len(entries[p]) : entries[p][k].id \notin Elements(g.linearized)}
            succ == [k \in left |-> LET later == {j \in left : j > k}
                                    IN  IF later = {} THEN Nil ELSE Min(later)]
        IN  /\ \A k \in left : /\ g.list.next[k] = succ[k]
                               /\ succ[k] # Nil => g.list.prev[succ[k]] = k
            /\ Running(p) => g.entry \in left \ {0}

\* The stack of calls is a linearization of a prefix and state is the value it
\* leads to: what backtracking restores belongs together.
StackIsLinearization ==
    \A p \in DOMAIN parts :
        LET g == single[p] q == CallIds(p, g.calls) IN
        /\ Linearization(parts[p], q)
        /\ ToSet(q) = Elements(g.linearized)
        /\ g.state = Values(parts[p], q, p)[Len(q)]

\* Ok and Illegal are the truth about the whole history, across keys, even
\* when goroutines are killed, results race with the timer, and the cache cuts
\* branches off; only a check that timed out says Unknown.
VerdictRight ==
    /\ verdict = "Ok" => Linearizable(history)
    /\ verdict = "Illegal" => ~Linearizable(history)
    /\ verdict = "Unknown" => timedOut

\* What is drawn for a history: a longest linearizable prefix for every
\* operation that is in any, or some linearizable prefix if time ran out.
LongestRight ==
    verdict # "none" /\ computeInfo =>
        \A p \in DOMAIN parts : \A i \in 1 .. Len(parts[p]) :
            LET q == single[p].longest[i] IN
            /\ single[p].pc = "sent"
            /\ q # NotFound => q \in LinearPrefixes(parts[p], i)
            /\ ~timedOut => \A r \in LinearPrefixes(parts[p], i) : Len(r) <= Len(q)

\* The check comes to an end and leaves no goroutine behind, but for one case:
\* with no operations and no timer, checkParallel waits for a result that nobody
\* will send.
CheckEnds ==
    (parts # <<>> \/ timeout) =>
        <>(verdict # "none" /\ \A p \in DOMAIN parts : single[p].pc = "sent")
=============================================================================
