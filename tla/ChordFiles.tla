---------------------------- MODULE ChordFiles ----------------------------
(***************************************************************************)
(* The file store of a Chord ring (Lab03): the tail of stabilize, lookup   *)
(* and StoreFile in chord.go, ReqStoreFile and ReqGetFile in rpc.go, and   *)
(* the commands Lookup and StoreFile of client.go.                         *)
(*                                                                         *)
(* One file is followed; files do not influence each other except by       *)
(* killing a node.  Routing is ChordLookup and the upkeep of the pointers  *)
(* is ChordRing: here the ring has a membership, live, and the membership  *)
(* the pointers still reflect, view.  While they differ a lookup may be    *)
(* answered according to any mixture of the two, so it may name a node     *)
(* that is dead or overlook one that has just joined.                      *)
(*                                                                         *)
(* On every node the runStabilize goroutine checks where the file belongs  *)
(* again and again; the users' goroutines store it and look it up.         *)
(***************************************************************************)
EXTENDS ChordKeys, SequencesExt, FiniteSets

CONSTANTS Members,     \* the first members
          Joiners,     \* the nodes that may join
          Users,       \* the nodes whose user stores the file
          Readers,     \* the users who also look it up
          Hashes,      \* the possible sha1 sums of the file's name
          Powers,      \* Powers[i]: what keyToLook((i-1)*100, _) adds
          MaxStores,   \* bound: how often the file is stored
          MaxChanges   \* bound: a node crashes or joins only while fewer
                       \* changes of the membership have happened

ASSUME FilesAssumption ==
    /\ Members \cup Joiners \subseteq Keys
    /\ Members # {}
    /\ Users \subseteq Members \cup Joiners /\ Readers \subseteq Users
    /\ Hashes \subseteq Keys /\ Hashes # {}
    /\ Powers \in Seq(Nat) /\ Powers # <<>>
    /\ MaxStores \in Nat /\ MaxChanges \in Nat

VARIABLES
    live,     \* the members that are running
    dead,     \* the members that crashed or panicked
    view,     \* the membership the successor pointers reflect
    hash,     \* sha1 of the file's name; it does not change
    data,     \* data[n]: what n's directory has under that name
    stores,   \* how many StoreFile commands were given
    stored,   \* a StoreFile command has returned
    got,      \* what the last Lookup command printed
    task,     \* task[p]: what the goroutine p is doing
    call      \* call[p]: the handler of ReqStoreFile that works for p

vars == <<live, dead, view, hash, data, stores, stored, got, task, call>>

Nodes == Members \cup Joiners
Goroutines == (Nodes \X {"stabilize"}) \cup (Users \X {"user"})

\* What a directory may have: no such file, a file that has been created and
\* not yet written, or a version of the file.
NoFile == -1
Empty == 0
Versions == 1 .. MaxStores
Contents == {NoFile, Empty} \cup Versions

\* The locals of a goroutine: the entries of lookup's list, of which its loop
\* drops those it has visited, whether its node is on the list, and the
\* contents it sends.
Idle == [op |-> "idle", pc |-> "idle", dest |-> <<>>, correct |-> FALSE,
         out |-> NoFile]

\* The handler has created the file of node "to" and has "out" to write into
\* it; NoFile if the file it has open was removed.
NoNode == -1
NoCall == [to |-> NoNode, out |-> NoFile]

Init ==
    /\ live = Members
    /\ dead = {}
    /\ view = Members
    /\ hash \in Hashes
    /\ data = [n \in Nodes |-> NoFile]
    /\ stores = 0
    /\ stored = FALSE
    /\ got = "none"
    /\ task = [p \in Goroutines |-> Idle]
    /\ call = [p \in Goroutines |-> NoCall]

-----------------------------------------------------------------------------
(***************************************************************************)
(* The ring.                                                               *)
(***************************************************************************)

\* The memberships that a lookup may be answered for: every change that the
\* pointers do not reflect yet is seen or not.
Views ==
    {(view \cap live) \cup c : c \in SUBSET ((view \cup live) \ (view \cap live))}
        \ {{}}

\* The first member at or after the key, and the one after member m.
Rings == (SUBSET Nodes) \ {{}}
Owner == [r \in Rings |-> [k \in Keys |-> CHOOSE m \in r : IsOwner(r, k, m)]]
Successor == [r \in Rings |-> [m \in r |->
    IF r = {m} THEN m ELSE Owner[r \ {m}][m]]]

\* The loop over the list goes on to the next entry.
NextEntry(t) == [t EXCEPT !.dest = Tail(@),
                     !.pc = IF t.op = "migrate" THEN "ask" ELSE "send"]

\* The process of n ends: its goroutines and handlers end with it, and those
\* who wait for one of the handlers go on.
Dies(n) ==
    /\ live' = live \ {n}
    /\ dead' = dead \cup {n}
    /\ task' = [p \in Goroutines |->
                   IF p[1] = n THEN Idle
                   ELSE IF task[p].pc = "wait" /\ call[p].to = n THEN NextEntry(task[p])
                   ELSE task[p]]
    /\ call' = [p \in Goroutines |-> IF call[p].to = n THEN NoCall ELSE call[p]]

\* The nodes that have not joined.
Absent == Nodes \ (live \cup dead)

\* Bound: crashes and joins stop when this many nodes have died or joined.
\* Panics are not bounded.
MayChange == Cardinality(dead) + Cardinality(Joiners \ Absent) < MaxChanges

Crash(n) ==
    /\ n \in live
    /\ MayChange
    /\ Dies(n)
    /\ UNCHANGED <<view, hash, data, stores, stored, got>>

Join(n) ==
    /\ n \in Absent
    /\ MayChange
    /\ live # {}
    /\ live' = live \cup {n}
    /\ UNCHANGED <<dead, view, hash, data, stores, stored, got, task, call>>

\* The stabilize goroutines have repaired the pointers.
Settle ==
    /\ view # live
    /\ view' = live
    /\ UNCHANGED <<live, dead, hash, data, stores, stored, got, task, call>>

-----------------------------------------------------------------------------
(***************************************************************************)
(* lookup                                                                  *)
(***************************************************************************)

\* The i-th key under which the file is kept.
FileKey(i) == (hash + Powers[i]) % KeySpace

\* The loop of p has still to find the owner of its i-th key.
Pass(p) == (Len(task[p].dest) \div 2) + 1

\* findSuccessor of the next key.
FindSuccessor(p) ==
    /\ task[p].pc = "lookup"
    /\ \E r \in Views :
         task' = [task EXCEPT
            ![p].dest = Append(@, Owner[r][FileKey(Pass(p))]),
            ![p].pc = "list"]
    /\ UNCHANGED <<live, dead, view, hash, data, stores, stored, got, call>>

\* Mutant: only the first entry of the list is compared with the node.
CorrectFirst(n, dest) == sameKey(n, dest[1])

\* Mutant: a copy is kept wherever it is.
CorrectAlways(n, dest) == TRUE

\* n is one of the nodes that should keep the file.
Correct(n, dest) == \E e \in DOMAIN dest : sameKey(n, dest[e])

\* Where a goroutine goes on when it has the whole list.
Looked(op) ==
    CASE op = "migrate" -> "read"
      [] op = "store"   -> "send"
      [] op = "get"     -> "ask"

\* The list grows by successor[0] of the owner; stabilize looks for its own
\* node on the whole list.
Grown(p, s) ==
    LET t    == task[p]
        dest == Append(t.dest, s)
        whole == Len(dest) = 2 * Len(Powers)
    IN  [t EXCEPT !.dest = dest,
                  !.correct = whole /\ t.op = "migrate" /\ Correct(p[1], dest),
                  !.pc = IF whole THEN Looked(t.op) ELSE "lookup"]

\* Mutant: the owner's list is not asked for, and the owner entered twice.
AskSuccListOwnerOnly(p) ==
    /\ task[p].pc = "list"
    /\ task' = [task EXCEPT ![p] = Grown(p, Last(@.dest))]
    /\ UNCHANGED <<live, dead, view, hash, data, stores, stored, got, call>>

\* The call to a dead owner returns nil; indexing nil panics, and a panic in
\* any goroutine ends the process.
AskSuccList(p) ==
    LET owner == Last(task[p].dest)
    IN  /\ task[p].pc = "list"
        /\ \/ /\ owner \notin live
              /\ Dies(p[1])
           \/ /\ owner \in live
              /\ \E r \in Views :
                   task' = [task EXCEPT ![p] = Grown(p, Successor[r \cup {owner}][owner])]
              /\ UNCHANGED <<live, dead, call>>
        /\ UNCHANGED <<view, hash, data, stores, stored, got>>

-----------------------------------------------------------------------------
(***************************************************************************)
(* stabilize                                                               *)
(***************************************************************************)

Begin(p, op, out) ==
    task' = [task EXCEPT ![p] =
        [op |-> op, pc |-> "lookup", dest |-> <<>>, correct |-> FALSE, out |-> out]]

\* ReadDir shows the file.
Migrate(n) ==
    LET p == <<n, "stabilize">>
    IN  /\ n \in live
        /\ task[p].pc = "idle"
        /\ data[n] # NoFile
        /\ Begin(p, "migrate", NoFile)
        /\ UNCHANGED <<live, dead, view, hash, data, stores, stored, got, call>>

\* Mutant: the file is sent unread.
ReadFileSkipped(p) ==
    /\ task[p].pc = "read"
    /\ task' = [task EXCEPT ![p].pc = "ask"]
    /\ UNCHANGED <<live, dead, view, hash, data, stores, stored, got, call>>

\* stabilize reads its copy after the lookup, and it may be empty.
ReadFile(p) ==
    /\ task[p].pc = "read"
    /\ task' = [task EXCEPT ![p].out = data[p[1]], ![p].pc = "ask"]
    /\ UNCHANGED <<live, dead, view, hash, data, stores, stored, got, call>>

AtEnd(p) == task[p].dest = <<>>

\* The node of the entry that the loop has reached.
Dest(p) == Head(task[p].dest)

\* Mutant: a half-written copy counts as none.
HasWholeFile(n) == n \in live /\ data[n] \in Versions

\* ReqGetFile; a call to a dead node fails and counts as "no".
HasFile(n) == n \in live /\ data[n] # NoFile

\* AskGetFile of the next entry.
AskGetFile(p) ==
    /\ task[p].op = "migrate" /\ task[p].pc = "ask"
    /\ ~AtEnd(p)
    /\ task' = [task EXCEPT ![p] = IF HasFile(Dest(p)) THEN NextEntry(@)
                                   ELSE [@ EXCEPT !.pc = "send"]]
    /\ UNCHANGED <<live, dead, view, hash, data, stores, stored, got, call>>

\* ReqStoreFile opens the file with os.Create, which truncates an old one; the
\* caller waits.  A call to a dead node fails.
AskStoreFile(p) ==
    /\ task[p].pc = "send"
    /\ ~AtEnd(p)
    /\ IF Dest(p) \in live
       THEN /\ data' = [data EXCEPT ![Dest(p)] = Empty]
            /\ call' = [call EXCEPT ![p] = [to |-> Dest(p), out |-> task[p].out]]
            /\ task' = [task EXCEPT ![p].pc = "wait"]
       ELSE /\ task' = [task EXCEPT ![p] = NextEntry(@)]
            /\ UNCHANGED <<data, call>>
    /\ UNCHANGED <<live, dead, view, hash, stores, stored, got>>

\* The handler writes, even if its caller is dead by now, and replies.  To
\* write nothing changes nothing.  (Versions are as long as each other.)
ReqStoreFile(p) ==
    LET n == call[p].to
    IN  /\ n # NoNode
        /\ data' = IF call[p].out \in Versions THEN [data EXCEPT ![n] = call[p].out] ELSE data
        /\ call' = [call EXCEPT ![p] = NoCall]
        /\ task' = [task EXCEPT ![p] = IF @.pc = "wait" THEN NextEntry(@) ELSE @]
        /\ UNCHANGED <<live, dead, view, hash, stores, stored, got>>

\* The handlers on node n that have its file open write into nothing once it
\* is removed.
Unlinked(n) == [p \in Goroutines |-> IF call[p].to = n THEN [call[p] EXCEPT !.out = NoFile]
                                     ELSE call[p]]

\* The end of the loop over the files: the copy is removed unless the node is
\* on the list.
Removal(p) ==
    /\ task[p].op = "migrate" /\ task[p].pc = "ask"
    /\ AtEnd(p)
    /\ IF task[p].correct THEN UNCHANGED <<data, call>>
       ELSE /\ data' = [data EXCEPT ![p[1]] = NoFile]
            /\ call' = Unlinked(p[1])
    /\ task' = [task EXCEPT ![p] = Idle]
    /\ UNCHANGED <<live, dead, view, hash, stores, stored, got>>

-----------------------------------------------------------------------------
(***************************************************************************)
(* The user's commands.                                                    *)
(***************************************************************************)

StoreFile(n) ==
    LET p == <<n, "user">>
    IN  /\ n \in live
        /\ task[p].pc = "idle"
        /\ stores < MaxStores
        /\ stores' = stores + 1
        /\ Begin(p, "store", stores + 1)
        /\ UNCHANGED <<live, dead, view, hash, data, stored, got, call>>

StoreFileReturns(p) ==
    /\ task[p].op = "store" /\ task[p].pc = "send"
    /\ AtEnd(p)
    /\ stored' = TRUE
    /\ task' = [task EXCEPT ![p] = Idle]
    /\ UNCHANGED <<live, dead, view, hash, data, stores, got, call>>

\* A user looks up the file after it has been stored.  Bound: one lookup.
LookupFile(n) ==
    LET p == <<n, "user">>
    IN  /\ n \in live \cap Readers
        /\ task[p].pc = "idle"
        /\ stored
        /\ got = "none"
        /\ Begin(p, "get", NoFile)
        /\ UNCHANGED <<live, dead, view, hash, data, stores, stored, got, call>>

\* One pass of the loop over the hosts: the first copy is printed.  An empty
\* one has no nonce, and decryptFile panics when it cuts it off.
GetFile(p) ==
    /\ task[p].op = "get" /\ task[p].pc = "ask"
    /\ \/ /\ ~AtEnd(p) /\ HasFile(Dest(p)) /\ data[Dest(p)] # Empty
          /\ got' = "found"
          /\ task' = [task EXCEPT ![p] = Idle]
          /\ UNCHANGED <<live, dead, call>>
       \/ /\ ~AtEnd(p) /\ HasFile(Dest(p)) /\ data[Dest(p)] = Empty
          /\ Dies(p[1])
          /\ UNCHANGED got
       \/ /\ ~AtEnd(p) /\ ~HasFile(Dest(p))
          /\ task' = [task EXCEPT ![p].dest = Tail(@)]
          /\ UNCHANGED <<live, dead, got, call>>
       \/ /\ AtEnd(p)
          /\ got' = "missing"
          /\ task' = [task EXCEPT ![p] = Idle]
          /\ UNCHANGED <<live, dead, call>>
    /\ UNCHANGED <<view, hash, data, stores, stored>>

-----------------------------------------------------------------------------
Lookup(p) == FindSuccessor(p) \/ AskSuccList(p)

Stabilize(n) ==
    \/ Migrate(n)
    \/ Lookup(<<n, "stabilize">>)
    \/ ReadFile(<<n, "stabilize">>)
    \/ AskGetFile(<<n, "stabilize">>)
    \/ AskStoreFile(<<n, "stabilize">>)
    \/ Removal(<<n, "stabilize">>)

User(n) ==
    \/ StoreFile(n)
    \/ LookupFile(n)
    \/ Lookup(<<n, "user">>)
    \/ AskStoreFile(<<n, "user">>)
    \/ StoreFileReturns(<<n, "user">>)
    \/ GetFile(<<n, "user">>)

Next ==
    \/ \E n \in Nodes : Crash(n) \/ Join(n) \/ Stabilize(n)
    \/ \E n \in Users : User(n)
    \/ \E p \in Goroutines : ReqStoreFile(p)
    \/ Settle

Spec == Init /\ [][Next]_vars

\* The pointers are repaired, runStabilize runs on every node for ever, and a
\* handler that has begun goes on.
FairSpec ==
    /\ Spec
    /\ WF_vars(Settle)
    /\ \A n \in Nodes : WF_vars(Stabilize(n))
    /\ \A p \in Goroutines : WF_vars(ReqStoreFile(p))

-----------------------------------------------------------------------------
(***************************************************************************)
(* Properties                                                              *)
(***************************************************************************)

\* Type correctness.  The copy that a stabilize loop is moving is there until
\* the loop itself removes it, so it never sends what it could not read
\* (os.ReadFile and os.Remove of chord.go do not fail); but it may have read,
\* and send on, a file that was only just created.
TypeOK ==
    /\ live \subseteq Nodes /\ dead \subseteq Nodes /\ view \subseteq Nodes
    /\ live \cap dead = {}
    /\ hash \in Hashes
    /\ data \in [Nodes -> Contents]
    /\ stores \in 0 .. MaxStores
    /\ stored \in BOOLEAN
    /\ got \in {"none", "found", "missing"}
    /\ \A p \in Goroutines :
         /\ task[p].op \in {"idle", "migrate", "store", "get"}
         /\ task[p].pc \in {"idle", "lookup", "list", "read", "ask", "send", "wait"}
         /\ task[p].dest \in Seq(Nodes) /\ Len(task[p].dest) <= 2 * Len(Powers)
         /\ task[p].correct \in BOOLEAN
         /\ task[p].out \in Contents
         /\ task[p].pc = "send" => task[p].out # NoFile
         /\ call[p].to \in live \cup {NoNode}
         /\ call[p].out \in Contents

\* The nodes where the file belongs.
Homes(r) == UNION {{Owner[r][FileKey(i)], Successor[r][Owner[r][FileKey(i)]]} : i \in DOMAIN Powers}

Holders == {n \in live : data[n] # NoFile}

\* The members from the beginning that still run, and that no node which has
\* ever been in the ring has pushed off the list of the file's homes.
Anchors == Members \cap live \cap Homes(live \cup dead)

\* However many nodes crash, panic or join, and however the stabilize loops
\* that copy and remove the file interleave under old and new pointers: once
\* StoreFile has returned, every anchor has a copy.  (A removal does not wait
\* for the copies to be acknowledged, and a store does not look at failures.)
\* Nothing more holds: see the README for the one crash that loses a file.
KeptAtHome ==
    stored => \A x \in Anchors : data[x] # NoFile

\* A lookup of a stored file that finds no copy has outlived every anchor: the
\* hosts it names and asks one after the other, while the ring changes under
\* it, are never all without a copy as long as there is one.
StoredIsFound ==
    got = "missing" => Anchors = {}

\* A copy of a half-written file never replaces the whole one everywhere: in
\* a ring that has not changed, the first home has the contents whenever no
\* StoreFile is under way, whatever the stabilize loops read between a
\* handler's os.Create and its Write and sent on.
FirstCopyWhole ==
    /\ stored /\ live = Members /\ dead = {}
    /\ \A p \in Goroutines : task[p].op # "store"
    => data[Owner[live][FileKey(1)]] \in Versions

\* Unless every copy is lost, the stabilize loops bring the file to exactly
\* the nodes that lookup names: missing copies are made, and misplaced ones are
\* removed.
EventuallyPlaced ==
    <>[](Holders = {} \/ (view = live /\ Holders = Homes(live)))
=============================================================================
