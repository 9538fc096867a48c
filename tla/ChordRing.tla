----------------------------- MODULE ChordRing -----------------------------
(***************************************************************************)
(* Membership of a Chord ring (Lab03/chord.go: create, join, stabilize,    *)
(* checkSuccessor, updateSuccessorList, notify, check_predecessor, the     *)
(* lookup of join with its retry, and the RPC handlers they call).         *)
(*                                                                         *)
(* Every node has a goroutine <<n, "stab">> that runs stabilize; a joining *)
(* node has a goroutine <<n, "join">>, whose lookup runs on other nodes.   *)
(* A step ends where a goroutine waits, for successorLock or for an RPC,   *)
(* and where the write of join, which takes no lock, can make a difference *)
(* to what it reads next.                                                  *)
(* successorLock is held across RPCs, and ReqSuccList needs the lock of    *)
(* the node it asks.  An RPC fails exactly if its destination is dead;     *)
(* there is no timeout.                                                    *)
(*                                                                         *)
(* Fingers are left out (module ChordLookup): a lookup is forwarded to the *)
(* last candidate of the successor list.                                   *)
(***************************************************************************)
EXTENDS ChordKeys, Sequences, FiniteSetsExt

CONSTANTS Members,     \* the nodes of the ring at the beginning
          Joiners,     \* the nodes that join it
          NumSucc,     \* numSucc, the length of the successor list
          MaxCrashes,  \* bound on the number of crashes
          TornWrites,  \* join's unlocked write can be seen half done
          NoNode       \* the address "" and the nil predecessor

Nodes == Members \cup Joiners

ASSUME RingAssumption ==
    /\ Nodes \subseteq Keys /\ IsFiniteSet(Nodes)
    /\ Members # {} /\ Members \cap Joiners = {}
    /\ NumSucc \in Nat \ {0}
    /\ MaxCrashes \in Nat
    /\ TornWrites \in BOOLEAN
    /\ NoNode \notin Int

VARIABLES
    status,   \* "down", "up", or how the process has ended
    succ,     \* succ[n]: the successor list, under successorLock
    pred,     \* pred[n]: the predecessor, under predecessorLock
    pc,       \* where each goroutine is
    level,    \* which call of checkSuccessor or updateSuccessorList it is in
    asked,    \* the address its call under the lock, or join's notify, goes to
    copy,     \* copy[n]: stabilize's successor
    cur,      \* cur[n]: stabilize's currentPredecessor
    path,     \* path[j]: the nodes the lookup of j has been forwarded to
    found     \* found[j]: join's fingerOfSuccessor

nodeVars == <<status, succ, pred>>
stabVars == <<copy, cur>>
joinVars == <<path, found>>
vars == <<nodeVars, pc, level, asked, stabVars, joinVars>>

Stab(n) == <<n, "stab">>
Join(n) == <<n, "join">>
Goroutines == {Stab(n) : n \in Nodes} \cup {Join(n) : n \in Joiners}

\* A finger; the zero finger has the identifier 0 and no address.
Finger(n) == [Id |-> n, Ip |-> n]
NoFinger  == [Id |-> 0, Ip |-> NoNode]

Alive(ip) == ip # NoNode /\ status[ip] = "up"

\* The members in clockwise order from n, n itself last.
After(n, k) ==
    CHOOSE m \in Members : Cardinality({x \in Members : Turn(n, x) <= Turn(n, m)}) = k

\* A ring that has stabilized, and nodes that have not been started.
Init ==
    /\ status = [n \in Nodes |-> IF n \in Members THEN "up" ELSE "down"]
    /\ succ = [n \in Nodes |-> [i \in 1 .. NumSucc |->
                 IF n \in Members
                 THEN Finger(After(n, ((i - 1) % Cardinality(Members)) + 1))
                 ELSE NoFinger]]
    /\ pred = [n \in Nodes |->
                 IF n \in Members /\ Cardinality(Members) > 1
                 THEN After(n, Cardinality(Members) - 1) ELSE NoNode]
    /\ pc = [g \in Goroutines |-> IF g[2] = "stab" THEN "idle" ELSE "start"]
    /\ level = [g \in Goroutines |-> 0]
    /\ asked = [g \in Goroutines |-> NoNode]
    /\ copy = [n \in Nodes |-> NoFinger]
    /\ cur = [n \in Nodes |-> NoNode]
    /\ path = [j \in Joiners |-> <<>>]
    /\ found = [j \in Joiners |-> NoFinger]

Goto(g, place) == pc' = [pc EXCEPT ![g] = place]
Ask(g, ip) == asked' = [asked EXCEPT ![g] = ip]

\* The node a goroutine runs on.
Host(g) == IF g[2] = "stab" THEN g[1] ELSE path[g[1]][Len(path[g[1]])]

\* successorLock is held from the first checkSuccessor until stabilize has
\* copied its successor, and from the second test to the end of
\* updateSuccessorList; its other sections are over within a step.
Holding(g) == pc[g] \in {"check", "update", "unlock", "health"}
LockFree(n) == \A g \in Goroutines : Holding(g) => Host(g) # n

\* The process of n ends; the goroutines that run on it end with it.
Dies(n, how) ==
    /\ status' = [status EXCEPT ![n] = how]
    /\ pred' = [pred EXCEPT ![n] = NoNode]
    /\ succ' = [succ EXCEPT ![n] = [i \in 1 .. NumSucc |-> NoFinger]]
    /\ copy' = [copy EXCEPT ![n] = NoFinger]
    /\ cur' = [cur EXCEPT ![n] = NoNode]

-----------------------------------------------------------------------------
(***************************************************************************)
(* checkSuccessor and updateSuccessorList call each other in tail position *)
(* until one of them succeeds, so only the call they started from matters: *)
(* level 1 and 2 are the two statements of stabilize (or of the retry),    *)
(* level 3 the call after a new successor was found.                       *)
(***************************************************************************)

\* The function returns to its caller.
Returns(g) ==
    \/ /\ level[g] = 1
       /\ Goto(g, "update")
       /\ level' = [level EXCEPT ![g] = 2]
       /\ Ask(g, succ[Host(g)][1].Ip)
    \/ /\ level[g] = 2
       /\ Goto(g, IF g[2] = "stab" THEN "unlock" ELSE "route")
       /\ level' = [level EXCEPT ![g] = 0]
       /\ Ask(g, NoNode)
    \/ /\ level[g] = 3
       /\ Goto(g, "notify")
       /\ level' = [level EXCEPT ![g] = 0]
       /\ Ask(g, NoNode)

\* Mutant: the dead successor is kept.
FirstWorkingKept(n) == succ[n][1]

\* The first entry of the list that answers; n itself if there is none.  A
\* dead node stays dead, and join has written the address of entry 1 before
\* that can be dead, so the health checks of the loop are one step.
FirstWorking(n) ==
    LET working == {i \in 1 .. NumSucc : Alive(succ[n][i].Ip)}
    IN  IF working = {} THEN Finger(n) ELSE succ[n][Min(working)]

CheckSuccessor(g) ==
    LET n == Host(g) IN
    /\ pc[g] = "check" /\ Alive(n)
    /\ \/ Alive(asked[g]) /\ Returns(g) /\ UNCHANGED succ
       \/ /\ ~Alive(asked[g])
          /\ succ' = [succ EXCEPT ![n][1] = FirstWorking(n)]
          /\ Goto(g, "update") /\ Ask(g, FirstWorking(n).Ip)
          /\ UNCHANGED level
    /\ UNCHANGED <<status, pred, stabVars, joinVars>>

\* Mutant: the successor's list is copied without making room for it.
ShiftedNot(n, m) == [i \in 1 .. NumSucc |-> IF i = 1 THEN succ[n][1] ELSE succ[m][i]]

\* Mutant: the list is put behind the successor and nothing is cut off.
ShiftedGrows(n, m) ==
    [i \in 1 .. NumSucc + 1 |-> IF i = 1 THEN succ[n][1] ELSE succ[m][i - 1]]

\* The list of m one place on, behind n's successor.
Shifted(n, m) == [i \in 1 .. NumSucc |-> IF i = 1 THEN succ[n][1] ELSE succ[m][i - 1]]

\* AskSuccList waits for the lock of the node it asks, except for its own.
\* The entries that the reply goes to are under the lock of n (join writes the
\* one before them), so the reply and its use are one step.
UpdateSuccessorList(g) ==
    LET n == Host(g)
        m == asked[g] IN
    /\ pc[g] = "update" /\ Alive(n)
    /\ \/ /\ Alive(m)
          /\ m = n \/ LockFree(m)
          /\ succ' = [succ EXCEPT ![n] = Shifted(n, m)]
          /\ Returns(g)
       \/ /\ ~Alive(m)
          /\ Goto(g, "check") /\ Ask(g, succ[n][1].Ip)
          /\ UNCHANGED <<succ, level>>
    /\ UNCHANGED <<status, pred, stabVars, joinVars>>

-----------------------------------------------------------------------------
(***************************************************************************)
(* stabilize and check_predecessor                                         *)
(***************************************************************************)

StabilizeLock(n) ==
    /\ pc[Stab(n)] = "idle" /\ Alive(n) /\ LockFree(n)
    /\ Goto(Stab(n), "check") /\ Ask(Stab(n), succ[n][1].Ip)
    /\ level' = [level EXCEPT ![Stab(n)] = 1]
    /\ UNCHANGED <<nodeVars, stabVars, joinVars>>

\* stabilize copies its successor and unlocks.
StabilizeUnlock(n) ==
    /\ pc[Stab(n)] = "unlock" /\ Alive(n)
    /\ copy' = [copy EXCEPT ![n] = succ[n][1]]
    /\ Goto(Stab(n), "getPred")
    /\ UNCHANGED <<nodeVars, level, asked, cur, joinVars>>

\* Mutant: a node that is its own successor keeps itself.
NearerNotAlone(n, s, m) == s.Id # n /\ keyInBetweenExclusive(n, s.Id, m)

\* m is a better successor of n than s.
Nearer(n, s, m) == keyInBetweenExclusive(n, s.Id, m)

\* askGetPredecessor of the copied successor, without the lock.
GetPredecessor(n) ==
    LET m == copy[n].Ip IN
    /\ pc[Stab(n)] = "getPred" /\ Alive(n)
    /\ IF Alive(m) /\ pred[m] # NoNode /\ Nearer(n, copy[n], pred[m])
       THEN cur' = [cur EXCEPT ![n] = pred[m]] /\ Goto(Stab(n), "recheck")
       ELSE Goto(Stab(n), "notify") /\ UNCHANGED cur
    /\ UNCHANGED <<nodeVars, level, asked, copy, joinVars>>

\* The condition is tested again under the lock.
Recheck(n) ==
    /\ pc[Stab(n)] = "recheck" /\ Alive(n) /\ LockFree(n)
    /\ IF Nearer(n, succ[n][1], cur[n])
       THEN Goto(Stab(n), "health") /\ UNCHANGED cur
       ELSE Goto(Stab(n), "notify") /\ cur' = [cur EXCEPT ![n] = NoNode]
    /\ UNCHANGED <<nodeVars, level, asked, copy, joinVars>>

\* The health check has come back: a node that is alive becomes the successor,
\* whatever the successor is by now.
Adopt(n) ==
    /\ pc[Stab(n)] = "health" /\ Alive(n)
    /\ IF Alive(cur[n])
       THEN /\ succ' = [succ EXCEPT ![n][1] = Finger(cur[n])]
            /\ copy' = [copy EXCEPT ![n] = Finger(cur[n])]
            /\ Goto(Stab(n), "update") /\ Ask(Stab(n), cur[n])
            /\ level' = [level EXCEPT ![Stab(n)] = 3]
       ELSE Goto(Stab(n), "notify") /\ UNCHANGED <<succ, copy, level, asked>>
    /\ cur' = [cur EXCEPT ![n] = NoNode]
    /\ UNCHANGED <<status, pred, joinVars>>

\* Mutant: a node without predecessor refuses the first one.
AcceptsNotNil(m, n) ==
    m # n /\ (pred[m] = n \/ (pred[m] # NoNode /\ keyInBetweenExclusive(pred[m], m, n)))

\* notify on m: n is taken as predecessor, again or instead of another.
Accepts(m, n) ==
    m # n /\ (pred[m] = NoNode \/ pred[m] = n \/ keyInBetweenExclusive(pred[m], m, n))

Notify(m, n) == pred' = IF Accepts(m, n) THEN [pred EXCEPT ![m] = n] ELSE pred

\* The end of stabilize; the files it would move are not modelled here.
NotifySuccessor(n) ==
    LET m == copy[n].Ip IN
    /\ pc[Stab(n)] = "notify" /\ Alive(n)
    /\ IF Alive(m) THEN Notify(m, n) ELSE UNCHANGED pred
    /\ Goto(Stab(n), "idle")
    /\ copy' = [copy EXCEPT ![n] = NoFinger]
    /\ UNCHANGED <<status, succ, level, asked, cur, joinVars>>

\* predecessorLock is held during the health check, so it is one step.
CheckPredecessor(n) ==
    /\ Alive(n) /\ pred[n] # NoNode /\ ~Alive(pred[n])
    /\ pred' = [pred EXCEPT ![n] = NoNode]
    /\ UNCHANGED <<status, succ, pc, level, asked, stabVars, joinVars>>

-----------------------------------------------------------------------------
(***************************************************************************)
(* create and join                                                         *)
(***************************************************************************)

Create(j) ==
    /\ pc[Join(j)] = "start"
    /\ status' = [status EXCEPT ![j] = "up"]
    /\ succ' = [succ EXCEPT ![j][1] = Finger(j)]
    /\ Goto(Join(j), "call")
    /\ UNCHANGED <<pred, level, asked, stabVars, joinVars>>

\* askFindSuccessor at a member of the ring.
JoinCall(j) ==
    /\ pc[Join(j)] = "call" /\ Alive(j)
    /\ \E m \in Members :
         \/ /\ Alive(m)
            /\ path' = [path EXCEPT ![j] = <<m>>]
            /\ Goto(Join(j), "route")
            /\ UNCHANGED <<nodeVars, stabVars>>
         \/ /\ ~Alive(m)
            /\ Dies(j, "unconnected")
            /\ Goto(Join(j), "gone")
            /\ UNCHANGED path
    /\ UNCHANGED <<level, asked, found>>

\* findSuccessor, first section: is the key between the node and its successor?
Route(j) ==
    LET n == Host(Join(j)) IN
    /\ pc[Join(j)] = "route" /\ Alive(n) /\ LockFree(n)
    /\ IF keyInBetweenRightInclusive(n, succ[n][1].Id, j)
       THEN found' = [found EXCEPT ![j] = succ[n][1]] /\ Goto(Join(j), "answer")
       ELSE Goto(Join(j), "closest") /\ UNCHANGED found
    /\ UNCHANGED <<nodeVars, level, asked, stabVars, path>>

\* findClosestPrecedingNode, without fingers.
ClosestSuccessor(n, h) ==
    LET C == {i \in 1 .. NumSucc : /\ succ[n][i].Ip # NoNode
                                   /\ keyInBetweenExclusive(n, h, succ[n][i].Id)}
    IN  IF C = {} THEN n ELSE succ[n][Max(C)].Ip

\* findSuccessor, second section: the lookup is forwarded.  A node that asks
\* itself ends in log.Fatal.
Forward(j) ==
    LET n == Host(Join(j))
        m == ClosestSuccessor(n, j) IN
    /\ pc[Join(j)] = "closest" /\ Alive(n) /\ LockFree(n)
    /\ \/ m = n /\ Dies(n, "selfCall") /\ UNCHANGED <<pc, path>>
       \/ /\ m # n /\ Alive(m)
          /\ path' = [path EXCEPT ![j] = Append(@, m)]
          /\ Goto(Join(j), "route")
          /\ UNCHANGED <<nodeVars, stabVars>>
       \/ /\ m # n /\ ~Alive(m)
          /\ Goto(Join(j), "retry")
          /\ UNCHANGED <<nodeVars, stabVars, path>>
    /\ UNCHANGED <<level, asked, found>>

\* After 10ms the list is checked and updated under the lock.
Retry(j) ==
    LET n == Host(Join(j)) IN
    /\ pc[Join(j)] = "retry" /\ Alive(n) /\ LockFree(n)
    /\ Goto(Join(j), "check") /\ Ask(Join(j), succ[n][1].Ip)
    /\ level' = [level EXCEPT ![Join(j)] = 1]
    /\ UNCHANGED <<nodeVars, stabVars, joinVars>>

\* A node on the path has died: the call of the node before it fails.
Broken(j) ==
    LET dead == {i \in DOMAIN path[j] : ~Alive(path[j][i])} IN
    /\ dead # {}
    /\ ~(Holding(Join(j)) /\ Alive(Host(Join(j))))
    /\ IF Min(dead) > 1
       THEN /\ path' = [path EXCEPT ![j] = SubSeq(@, 1, Min(dead) - 1)]
            /\ Goto(Join(j), "retry")
            /\ UNCHANGED <<nodeVars, stabVars>>
       ELSE /\ path' = [path EXCEPT ![j] = <<>>]
            /\ Goto(Join(j), "gone")
            /\ IF Alive(j) THEN Dies(j, "unconnected") ELSE UNCHANGED <<nodeVars, stabVars>>
    /\ level' = [level EXCEPT ![Join(j)] = 0]
    /\ Ask(Join(j), NoNode)
    /\ found' = [found EXCEPT ![j] = NoFinger]

\* The answer comes back along the path and is written without a lock.
JoinSuccessor(j) ==
    /\ pc[Join(j)] = "answer"
    /\ \A i \in DOMAIN path[j] : Alive(path[j][i])
    /\ path' = [path EXCEPT ![j] = <<>>]
    /\ \/ ~Alive(j) /\ Goto(Join(j), "gone") /\ UNCHANGED succ
       \/ /\ Alive(j)
          /\ succ' = [succ EXCEPT ![j][1] = found[j]]
          /\ Goto(Join(j), "written")
       \/ /\ Alive(j) /\ TornWrites
          /\ \/ succ' = [succ EXCEPT ![j][1].Id = found[j].Id] /\ Goto(Join(j), "setIp")
             \/ succ' = [succ EXCEPT ![j][1].Ip = found[j].Ip] /\ Goto(Join(j), "setId")
    /\ UNCHANGED <<status, pred, level, asked, stabVars, found>>

JoinOtherHalf(j) ==
    /\ Alive(j)
    /\ \/ pc[Join(j)] = "setIp" /\ succ' = [succ EXCEPT ![j][1].Ip = found[j].Ip]
       \/ pc[Join(j)] = "setId" /\ succ' = [succ EXCEPT ![j][1].Id = found[j].Id]
    /\ Goto(Join(j), "written")
    /\ UNCHANGED <<status, pred, level, asked, stabVars, joinVars>>

\* join reads its successor back; stabilize may have replaced it meanwhile.
JoinAsk(j) ==
    /\ pc[Join(j)] = "written" /\ Alive(j)
    /\ Goto(Join(j), "notify") /\ Ask(Join(j), succ[j][1].Ip)
    /\ found' = [found EXCEPT ![j] = NoFinger]
    /\ UNCHANGED <<nodeVars, level, stabVars, path>>

\* askUpdatePredecessor; join ends the process if it is refused.
JoinNotify(j) ==
    LET m == asked[Join(j)] IN
    /\ pc[Join(j)] = "notify" /\ Alive(j)
    /\ IF Alive(m) /\ Accepts(m, j)
       THEN /\ Notify(m, j)
            /\ Goto(Join(j), "joined")
            /\ UNCHANGED <<status, succ, stabVars>>
       ELSE Dies(j, "refused") /\ Goto(Join(j), "gone")
    /\ Ask(Join(j), NoNode)
    /\ UNCHANGED <<level, joinVars>>

-----------------------------------------------------------------------------
Crash(n) ==
    /\ Alive(n)
    /\ Cardinality({m \in Nodes : status[m] = "crashed"}) < MaxCrashes
    /\ Dies(n, "crashed")
    /\ UNCHANGED <<pc, level, asked, joinVars>>

Stabilize(n) ==
    \/ StabilizeLock(n) \/ CheckSuccessor(Stab(n)) \/ UpdateSuccessorList(Stab(n))
    \/ StabilizeUnlock(n) \/ GetPredecessor(n) \/ Recheck(n) \/ Adopt(n)
    \/ NotifySuccessor(n)

FindSuccessor(j) ==
    \/ Route(j) \/ Forward(j) \/ Broken(j) \/ Retry(j)
    \/ path[j] # <<>> /\ (CheckSuccessor(Join(j)) \/ UpdateSuccessorList(Join(j)))

JoinStep(j) ==
    \/ Create(j) \/ JoinCall(j) \/ FindSuccessor(j)
    \/ JoinSuccessor(j) \/ JoinOtherHalf(j) \/ JoinAsk(j) \/ JoinNotify(j)

Next ==
    \/ \E n \in Nodes : Stabilize(n) \/ CheckPredecessor(n) \/ Crash(n)
    \/ \E j \in Joiners : JoinStep(j)

Spec == Init /\ [][Next]_vars

\* Tickers fire and goroutines are scheduled; sync.Mutex is starvation free.
FairSpec ==
    /\ Spec
    /\ \A n \in Nodes : SF_vars(Stabilize(n)) /\ WF_vars(CheckPredecessor(n))
    /\ \A j \in Joiners : SF_vars(JoinStep(j))

-----------------------------------------------------------------------------
FingerType == [Id: Keys, Ip: Nodes \cup {NoNode}]

\* The types of the client's fields and of the locals.
TypeOK ==
    /\ status \in [Nodes -> {"down", "up", "crashed", "selfCall", "unconnected", "refused"}]
    /\ succ \in [Nodes -> [1 .. NumSucc -> FingerType]]
    /\ pred \in [Nodes -> Nodes \cup {NoNode}]
    /\ pc \in [Goroutines -> {"idle", "check", "update", "unlock", "getPred", "recheck",
                              "health", "notify", "start", "call", "route", "closest",
                              "retry", "answer", "setIp", "setId", "written", "joined",
                              "gone"}]
    /\ level \in [Goroutines -> 0 .. 3]
    /\ asked \in [Goroutines -> Nodes \cup {NoNode}]
    /\ copy \in [Nodes -> FingerType]
    /\ cur \in [Nodes -> Nodes \cup {NoNode}]
    /\ path \in [Joiners -> Seq(Nodes)]
    /\ found \in [Joiners -> FingerType]

\* The nodes whose successor is written under the lock only, or in one piece.
Locked == IF TornWrites THEN Members ELSE Nodes

\* A node replaces its successor only by a closer one, unless the successor is
\* dead: no interleaving of stabilize with a retried lookup on the same node,
\* whose calls under the lock were made for an older successor, moves a live
\* successor away.  For a node that is joining this also covers its unlocked
\* write, if that cannot be seen half done.
SuccessorKept ==
    [][\A n \in Locked :
          (status[n] = "up" /\ status'[n] = "up" /\ succ'[n][1] # succ[n][1])
              => \/ Turn(n, succ'[n][1].Id) < Turn(n, succ[n][1].Id)
                 \/ ~Alive(succ[n][1].Ip)]_vars

AllWell == \A n \in Nodes : status[n] \in {"up", "down"}

\* Members, and joiners that have been told their successor.
InRing(n) ==
    status[n] = "up" /\ (n \in Joiners => pc[Join(n)] \in {"written", "notify", "joined"})

\* While nobody has died, no node's successor lies beyond a member: whatever
\* joins are under way, however halves of their fingers spread, a lookup on a
\* member never passes over the nodes of the old ring, nor one on a new node
\* whose join was written in one piece.
NoMemberSkipped ==
    AllWell => \A n \in Locked, m \in Members :
                   InRing(n) => ~OnArc(n, succ[n][1].Id, m)

\* Without joins, as long as fewer nodes crash than a list has entries, no node
\* takes itself for the only one left.
NeverIsolated ==
    \A n \in Nodes :
        InRing(n) /\ (\E m \in Nodes : m # n /\ InRing(m)) => succ[n][1].Ip # n

\* Some goroutines that hold successorLock wait for each other's.
Deadlocked ==
    \E S \in SUBSET {g \in Goroutines : pc[g] = "update" /\ Alive(Host(g))} \ {{}} :
        \A g \in S : \E h \in S : /\ Host(h) # Host(g)
                                  /\ Host(h) = asked[g]

Up == {n \in Nodes : status[n] = "up"}

\* Every live node has its live neighbours as successor and predecessor.
Ideal ==
    \A n \in Up : Up # {n} =>
        /\ Alive(succ[n][1].Ip) /\ succ[n][1] # Finger(n)
        /\ Alive(pred[n])
        /\ \A m \in Up \ {n} : ~OnArc(n, succ[n][1].Id, m) /\ ~OnArc(pred[n], n, m)

\* Unless nodes deadlock, the ring becomes ideal and stays so: every joiner that
\* is not turned away is integrated, every dead node forgotten.
RingConverges == [](~Deadlocked) => <>[]Ideal

\* Unless nodes deadlock, join comes to an end, integrated or with a message,
\* however its lookup was interrupted by dead nodes and retried.
JoinEnds ==
    [](~Deadlocked) =>
        \A j \in Joiners : (pc[Join(j)] = "call")
                               ~> (pc[Join(j)] \in {"joined", "gone"} \/ ~Alive(j))

\* The comment of call: it waits for the response, and returns.
CallsReturn ==
    \A n \in Nodes : (pc[Stab(n)] = "update") ~> (pc[Stab(n)] # "update")
=============================================================================
