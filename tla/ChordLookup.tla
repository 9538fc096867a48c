---------------------------- MODULE ChordLookup ----------------------------
(***************************************************************************)
(* Routing in a Chord ring (Lab03/chord.go: findSuccessor,                 *)
(* findClosestPrecedingNode, fixFinger, and ReqFindSuccessor of rpc.go).   *)
(*                                                                         *)
(* All members have joined and stabilized: successor[0] of each is right.  *)
(* The rest of a successor list may still be empty or out of date, and the *)
(* finger tables are being filled: on every node the runFixFingers         *)
(* goroutine looks up one finger after the other while the user's          *)
(* goroutine looks up arbitrary keys.  A findSuccessor call is forwarded   *)
(* from node to node by synchronous RPCs that hand the answer back         *)
(* unchanged, so a call is represented by the node it has reached.         *)
(***************************************************************************)
EXTENDS ChordKeys, Sequences, FiniteSets

CONSTANTS Rings,     \* the possible memberships
          NumSucc,   \* numSucc, the length of the successor list
          Fingers,   \* length of the finger table: 160
          Users,     \* the members whose user looks up keys
          NoNode     \* the zero finger{}, IpAddress ""

ASSUME LookupAssumption ==
    /\ \A ring \in Rings : ring # {} /\ ring \subseteq Keys
    /\ NumSucc \in Nat \ {0}
    /\ Fingers \in Nat \ {0}
    /\ Users \subseteq Keys
    /\ NoNode \notin Int

\* The powers of two that keyToLook adds are numbers.
ASSUME PowerAssumption == \A i \in 0 .. (Fingers - 1) : 2 ^ i \in Nat

VARIABLES
    ring,     \* the identifiers of the members; it does not change
    succ,     \* succ[n]: the successor list of n; it does not change
    finger,   \* finger[n][i]: fingerTable[i] of n
    next,     \* next[n]
    pc,       \* where each call is: "idle", "find", "found" or "fatal"
    hash,     \* the key each call looks for
    at,       \* the node each call has reached
    res       \* the finger each call returns

vars == <<ring, succ, finger, next, pc, hash, at, res>>

\* The goroutines that call findSuccessor on their node.
Callers == (ring \X {"fix"}) \cup ((ring \cap Users) \X {"user"})

\* successor[0] is the next member clockwise.
Stabilized(r, s) ==
    \A n \in r : /\ s[n][1] \in r
                 /\ \A k \in r : ~OnArc(n, s[n][1], k)

Init ==
    /\ ring \in Rings
    /\ succ \in [ring -> [1 .. NumSucc -> ring \cup {NoNode}]]
    /\ Stabilized(ring, succ)
    /\ finger = [n \in ring |-> [i \in 0 .. (Fingers - 1) |-> NoNode]]
    /\ next = [n \in ring |-> -1]
    /\ pc = [c \in Callers |-> "idle"]
    /\ hash = [c \in Callers |-> 0]
    /\ at = [c \in Callers |-> c[1]]
    /\ res = [c \in Callers |-> NoNode]

-----------------------------------------------------------------------------
(***************************************************************************)
(* findClosestPrecedingNode                                                *)
(***************************************************************************)

\* Mutant: any finger will do.
CandidateAny(n, h, k) == k # NoNode

\* A known node between n and the key.
Candidate(n, h, k) == k # NoNode /\ keyInBetweenExclusive(n, h, k)

\* The entry with the highest index of the candidates among table's indices I.
LastCandidate(n, h, table, I) ==
    LET C == {i \in I : Candidate(n, h, table[i])}
    IN  IF C = {} THEN NoNode
        ELSE table[CHOOSE i \in C : \A j \in C : j <= i]

\* Only the fingers below next are searched.  The later of the two candidates
\* is the one with the greater number; n itself if there is none.
findClosestPrecedingNode(n, h) ==
    LET maxFingerTable   == LastCandidate(n, h, finger[n], 0 .. (next[n] - 1))
        maxSuccessorList == LastCandidate(n, h, succ[n], 1 .. NumSucc)
    IN  CASE maxFingerTable = NoNode /\ maxSuccessorList = NoNode -> n
          [] maxFingerTable = NoNode /\ maxSuccessorList # NoNode -> maxSuccessorList
          [] maxFingerTable # NoNode /\ maxSuccessorList = NoNode -> maxFingerTable
          [] OTHER -> IF compareKeys(maxFingerTable, maxSuccessorList)
                      THEN maxFingerTable ELSE maxSuccessorList

-----------------------------------------------------------------------------
(***************************************************************************)
(* findSuccessor.  The two successorLock sections and the fingerLock       *)
(* section of one call are one step: successor lists do not change here.   *)
(***************************************************************************)

\* The node is the predecessor of the key: its successor is the answer.
Answer(c) ==
    LET n == at[c] IN
    /\ pc[c] = "find"
    /\ keyInBetweenRightInclusive(n, succ[n][1], hash[c])
    /\ res' = [res EXCEPT ![c] = succ[n][1]]
    /\ pc' = [pc EXCEPT ![c] = "found"]
    /\ UNCHANGED <<ring, succ, finger, next, hash, at>>

\* The call is forwarded.  ReqFindSuccessor takes a request of its own node
\* for a bug and ends the process.
Forward(c) ==
    LET n == at[c]
        m == findClosestPrecedingNode(n, hash[c]) IN
    /\ pc[c] = "find"
    /\ ~keyInBetweenRightInclusive(n, succ[n][1], hash[c])
    /\ IF sameKey(n, m)
       THEN pc' = [pc EXCEPT ![c] = "fatal"] /\ UNCHANGED at
       ELSE at' = [at EXCEPT ![c] = m] /\ UNCHANGED pc
    /\ UNCHANGED <<ring, succ, finger, next, hash, res>>

Call(c, h) ==
    /\ pc[c] = "idle"
    /\ pc' = [pc EXCEPT ![c] = "find"]
    /\ hash' = [hash EXCEPT ![c] = h]
    /\ UNCHANGED <<at, res>>

\* The locals of the call are gone.
Return(c) ==
    /\ pc[c] = "found"
    /\ pc' = [pc EXCEPT ![c] = "idle"]
    /\ hash' = [hash EXCEPT ![c] = 0]
    /\ at' = [at EXCEPT ![c] = c[1]]
    /\ res' = [res EXCEPT ![c] = NoNode]

-----------------------------------------------------------------------------
\* Mutant: next does not wrap.
NextFingerNoWrap(n) == next[n] + 1

\* fixFinger: next advances before the lookup and wraps after the last finger.
NextFinger(n) == IF next[n] + 1 > Fingers - 1 THEN 0 ELSE next[n] + 1

FixFingerCall(n) ==
    /\ next' = [next EXCEPT ![n] = NextFinger(n)]
    /\ Call(<<n, "fix">>, keyToLook(NextFinger(n), n))
    /\ UNCHANGED <<ring, succ, finger>>

FixFingerStore(n) ==
    /\ Return(<<n, "fix">>)
    /\ finger' = [finger EXCEPT ![n][next[n]] = res[<<n, "fix">>]]
    /\ UNCHANGED <<ring, succ, next>>

\* client.go and lookup() ask for the successor of a file's keys.
UserCall(n, h) ==
    /\ Call(<<n, "user">>, h)
    /\ UNCHANGED <<ring, succ, finger, next>>

UserReturn(n) ==
    /\ Return(<<n, "user">>)
    /\ UNCHANGED <<ring, succ, finger, next>>

FindSuccessor(c) == Answer(c) \/ Forward(c)

Next ==
    \/ \E c \in Callers : FindSuccessor(c)
    \/ \E n \in ring : FixFingerCall(n) \/ FixFingerStore(n)
    \/ \E n \in ring \cap Users : UserReturn(n) \/ \E h \in Keys : UserCall(n, h)

Spec == Init /\ [][Next]_vars

AllCallers == ((UNION Rings) \X {"fix"}) \cup (Users \X {"user"})

\* The goroutine that serves a call is scheduled.
FairSpec ==
    Spec /\ \A c \in AllCallers : WF_vars(c \in Callers /\ FindSuccessor(c))

-----------------------------------------------------------------------------
\* The types of the client's fields and of findSuccessor's locals; in
\* particular next stays an index of the finger table.
TypeOK ==
    /\ ring \in Rings
    /\ succ \in [ring -> [1 .. NumSucc -> ring \cup {NoNode}]]
    /\ finger \in [ring -> [0 .. (Fingers - 1) -> ring \cup {NoNode}]]
    /\ next \in [ring -> -1 .. (Fingers - 1)]
    /\ pc \in [Callers -> {"idle", "find", "found", "fatal"}]
    /\ hash \in [Callers -> Keys]
    /\ at \in [Callers -> ring]
    /\ res \in [Callers -> ring \cup {NoNode}]

\* findSuccessor returns the member responsible for the key, whichever
\* members forwarded the call and however far their finger tables were.
LookupCorrect ==
    \A c \in Callers : pc[c] = "found" => IsOwner(ring, hash[c], res[c])

\* The log.Fatal of ReqFindSuccessor is never reached: no node asks itself.
NoSelfCall == \A c \in Callers : pc[c] # "fatal"

\* A finger that is filled points to the member responsible for its key.
FingersCorrect ==
    \A n \in ring, i \in 0 .. (Fingers - 1) :
        finger[n][i] # NoNode
            => IsOwner(ring, (n + 2 ^ i) % KeySpace, finger[n][i])

\* Every forwarding brings a call strictly closer to its key, so that the
\* chain of RPCs visits no node twice.
HopProgress ==
    [][\A c \in Callers :
          pc[c] = "find" /\ at'[c] # at[c]
              => Turn(at'[c], hash[c]) < Turn(at[c], hash[c])]_vars

\* Every call of findSuccessor returns.
LookupReturns ==
    \A c \in AllCallers : (c \in Callers /\ pc[c] = "find")
                              ~> (c \in Callers /\ pc[c] = "found")
=============================================================================
