# A TLA+ development of DistributedSystemsLabs

The repository holds three laboratories of a distributed-systems course, in Go:
an HTTP server and proxy (Lab01), the MIT 6.5840 code base with a finished
MapReduce and unfinished Raft-based services (Lab02), and a Chord distributed
hash table with replicated files (Lab03).  This directory models the parts that
carry the repository's own logic, checks them with TLC and proves the main
results with TLAPS.

## 1. The system

| Part | State | Operations | Talks to |
|---|---|---|---|
| MapReduce coordinator (`Lab02/src/mr/coordinator.go`, `main/mrcoordinator.go`) | `workers`, `workDone`, `tasks[]` (done, issued, lastIssued, files), one mutex for each task, `idLock`, `workLock` | RPCs `AskTask`, `TaskDone`; `Done` polled once a second; exit one second after it returns true | workers, by RPC over a Unix socket |
| MapReduce worker (`mr/worker.go`) | id, current task, key/values | ask, map into `mr-tmp-id-task-part`, reduce into a file renamed to `mr-out-r.txt`, report | coordinator; other workers through the file system |
| Chord identifiers (`Lab03/util.go`) | none | comparison, intervals on the ring, `keyToLook` | used by everything in Lab03 |
| Chord routing (`Lab03/chord.go`, `rpc.go`) | successor list, finger table, `next` | `findSuccessor`, `findClosestPrecedingNode`, `fixFinger`, `ReqFindSuccessor` | recursive RPCs to other nodes |
| Chord membership | successor list, predecessor, three mutexes | `create`, `join`, `stabilize`, `checkSuccessor`, `updateSuccessorList`, `notify`, `check_predecessor` | RPCs to successor and predecessor, some while a mutex is held |
| Chord file store | a directory for each node | `StoreFile`, `lookup`, `ReqStoreFile`, `ReqGetFile`, the migration at the end of `stabilize` | routing and RPCs |
| HTTP server (`Lab01/http_server`) | a semaphore of ten places, the files below `public` | accept loop; one goroutine for each connection; GET, POST, error responses | clients, proxy |
| HTTP proxy (`Lab01/proxy`) | a semaphore of ten places | accept loop; forwards GET, copies the answer | clients, the server, itself if a URL names it |
| labrpc | end points, servers, `reliable`, `longDelays`, `longReordering` flags | `Call`, `processReq`, `AddServer`, `DeleteServer`, `Enable` | the test harnesses |
| Test harness of the shard controller (`shardctrler/config.go`) | servers, their `Persister`s, connections | `ShutdownServer`, `StartServer`, `ConnectClient`, `DisconnectClient`, `cleanup` | labrpc, `Persister` |
| Shard controller clerk (`shardctrler/client.go`) | a shuffled list of servers | `Query`, `Join`, `Leave`, `Move`: one retry loop | labrpc |
| porcupine | a history, a linked list of entries, a cache of configurations, an undo stack | `checkSingle`, `checkParallel` | the test harnesses |
| Raft, kvraft, shardctrler and shardkv servers | empty handlers; `Persister` keeps state and snapshot | `Persister.Save`, `Copy` | labrpc |

What is hard here:

* *MapReduce* relies on a phase barrier that nothing but a counter enforces.
  Reports come late and twice, tasks are executed by two workers at once,
  workers die with files half written, and `Done` never looks at all tasks at
  one instant.  The file lists of the reduce tasks are written under one lock
  and read under another.
* *Chord routing* is a chain of blocking RPCs through nodes whose finger tables
  change underneath it.  Interval tests wrap around zero, and a hop that does
  not come closer to its key would never end.
* *Chord membership* holds `successorLock` while it waits for other nodes, uses
  successors read before an RPC after it, and ends the process in cases that
  concurrent joins can produce.
* *The file store* copies and deletes files while the ring changes, on every
  node at once, after lookups that other nodes would answer differently by now.
* *The HTTP server* reads and writes files without locks; both servers give
  places away that every path through a handler must return, and the proxy keeps
  its place while it waits for another process, perhaps itself.
* *labrpc* must not pass on the answer of a server that the tester has deleted
  and perhaps restarted, and must not wait for one that never answers.
* *porcupine* undoes pointer updates in the right order, prunes with a cache,
  and mixes results of goroutines with a kill flag and a timer.

`PROJECT.json` lists each of these hazards at its line, with the properties
that cover it.

## 2. Modules

| Module | Models |
|---|---|
| `MapReduce` | coordinator, workers, file system, clock, crashes |
| `MRJob` | the abstract job the MapReduce library promises |
| `MapReduceProofs` | theorems about `MapReduce`: its locks, its counter, its files and the refinement of `MRJob` |
| `ChordKeys` | `util.go`, and clockwise distance as its reference |
| `ChordLookup` | routing and finger maintenance in a stabilized ring |
| `ChordLookupProofs` | theorems about `ChordKeys` and `ChordLookup` |
| `ChordRing` | membership: create, join, stabilize, failures |
| `ChordRingProofs` | theorems about `ChordRing`: joins; crashes |
| `ChordFiles` | the file store: `StoreFile`, `lookup`, the migration of `stabilize` |
| `ChordFilesProofs` | theorems about `ChordFiles` |
| `LabRPC` | the simulated network |
| `ShardCtrler` | clerks, tester and `Persister`s over `LabRPC` |
| `ShardCtrlerProofs` | theorem about `ShardCtrler` |
| `Porcupine` | the linearizability checker with the key/value model |
| `PorcupineProofs`, `PorcupineVerdictProofs` | theorems about `Porcupine`: its list and its stack; its verdict and its longest prefixes |
| `HttpServer` | the file server of Lab01 |
| `HttpProxy` | the proxy, the clients, and the composition with `HttpServer` |
| `HttpProxyProofs` | theorems about `HttpProxy` and `HttpServer` |
| `MC...` | instances for TLC |

Operators whose comment begins with *Mutant* are deliberately wrong variants of the definition
below them.  No specification uses them; they are substituted one at a time to
see that a property notices the mistake.

### MapReduce

The coordinator's main goroutine is `mpc`, with the loop index of `Done()` in
`mi`.  A worker blocks in `call()`, so at most one RPC goroutine serves it:
`hpc[w]` is where that goroutine is, `hi[w]` its loop index, `work[w]` and
`id[w]` its arguments or reply.  It goes on when the worker crashes.  A handler
is cut where another goroutine can observe it:

* `AskTask`: numbering under `idLock` (`AskTaskId`), choice of the phase under
  `workLock` (`AskTaskPhase`), and one `AskTaskScan` step for each task mutex;
* `TaskDone`: the first report takes the task's mutex (`TaskDoneLock`), takes
  `workLock` and counts (`TaskDoneCount`), and appends one file to each reduce
  task (`TaskDoneAppend`), with both locks held until the last append;
* `Done`: one step for each task it locks, then the sleep and the exit.

A mutex that is taken and released within a step needs no state.  `taskLock`
and `workLock`, which `TaskDone` keeps over several steps, are read off `hpc`.

`expired[i]` says that ten seconds have passed since task `i` was issued last;
`Expire` is the clock.  A worker's files are created and encoded in separate
steps, so that a crash leaves a half-written file (created, not in `written`).
A missing or half-written reduce input is fatal for the worker, as in the code.

Data are abstracted to blocks.  `Emits[m]` is the set of partitions for which
map task `m` has keys (`mapf` and `ihash` are deterministic), the block `<<m, r>>`
is the part of `m`'s output that goes to partition `r`, and an output file is
the sequence of blocks it was built from.  Sorting and grouping do not depend on
their order.

A worker whose call fails takes the job to be finished and exits.  `CallFails`
is that case after the coordinator's exit; a connection that breaks earlier
removes the worker for good and is one of the cases of `Crash`.

### MRJob

Map tasks finish in any order; a partition's result is published complete and
after all map tasks; a reduce task finishes when its result is there; the job
finishes when all of them are.  `MapReduce!Job` maps the detailed state to it:
tasks marked done, the set of blocks in `mr-out-r.txt`, `mpc # "polling"`.

### ChordKeys and ChordLookup

A `[20]byte` compared with `bytes.Compare` is a big-endian number, so the
identifiers are `0 .. KeySpace - 1` and the intervals keep the code's
disjunctions.  The reference is `Distance`, the number of steps clockwise.

In `ChordLookup` each member has a `runFixFingers` goroutine and, where the
instance says so, a user.  A lookup is forwarded by synchronous RPCs that hand
the answer back unchanged, so a call is the node it has reached (`at`).  The
membership is fixed and `successor[0]` of every member is right, the state
`stabilize` is there to produce; the tail of each successor list is arbitrary
members or empty entries, because it may lag behind.  `findSuccessor` on one
node is one step: nothing it reads changes between its lock sections except
finger tables, which it reads in one of them.  The retry after a failed RPC has
no counterpart, because members do not fail here.

### ChordRing

Each node has a goroutine `<<n, "stab">>` that runs `stabilize` for ever, and a
joining node a goroutine `<<n, "join">>`.  The lookup that `join` starts runs on
other nodes: `path[j]` is the stack of nodes whose `findSuccessor` is waiting for
the next one, and `Host` the node at its top.

A step ends where a goroutine waits, for `successorLock` or for an RPC, and where
the write of `join`, which takes no lock, can come between two reads.  So in
`stabilize` the copy of the successor before the lock is released
(`StabilizeUnlock`), the second test of the candidate (`Recheck`) and what follows
its health check (`Adopt`) are steps of their own, and the address that a call goes
to is kept in `asked` from the moment it is read.  `join` likewise reads its
successor back (`JoinAsk`) before it notifies it.

`successorLock` is held across RPCs by `stabilize` and by the retry of a lookup, in
`checkSuccessor` and `updateSuccessorList`.  These two functions call
each other in tail position, so `pc` (which of them) and `level` (the statement
that called the first) are enough.  `UpdateSuccessorList` includes the handler
`ReqSuccList`, which waits for the lock of the node it runs on, except when a
node asks itself.  RPCs whose handler takes `predecessorLock` only are one step,
because that lock is never kept while another one is awaited.

An RPC fails exactly if its destination has died, as a dial or an open connection
to a dead process does; there is no timeout in the code and none here.
`status[n]` tells how a process has ended: a crash, or one of the three
`log.Fatal` calls.  Nodes do not come back.  All nodes are started with the same
`numSucc`, greater than zero; the code indexes past its lists otherwise.

`join` writes `successor[0]` without a lock although `create` has started
`stabilize`.  That is a data race on a struct of two fields.  With `TornWrites`
the write may be seen after either half; without it, it is one step.

The initial state is a ring that has stabilized.  Fingers are left out: a lookup
is forwarded to the last candidate of the successor list.  When a node on a
lookup's path dies, what the nodes behind it still do for the lost lookup is not
followed, except for the section under a lock that the last of them has entered.

### ChordFiles

One file is followed.  `ChordLookup` and `ChordRing` are abstracted to two sets:
`live`, the members that run, and `view`, the membership the pointers reflect.
While they differ, each call that `lookup` makes may be answered according to
any mixture of both (`Views`), so it can name a dead node or overlook a new one;
`Settle` is the moment when `stabilize` has repaired the pointers.  A goroutine
`<<n, "stabilize">>` runs the loop over the directory, a goroutine `<<n, "user">>`
the commands `Lookup` and `StoreFile`.  Every RPC is a step, those of `lookup`
(`FindSuccessor`, `AskSuccList`) too.  `lookup` indexes the
nil list that `AskSuccList` returns for a dead node, and the panic ends the whole
process (`Dies`).  `os.Create` and `Write` of `ReqStoreFile` are two steps: `AskStoreFile`
leaves an empty file and a handler in `call`, `ReqStoreFile` writes it.  In between
`ReadFile` of another goroutine may read nothing and send nothing on, a `Lookup`
command that gets the empty file panics in `decryptFile`, a removal leaves the handler with
a file that is no longer in the directory, and the handler goes on when its caller dies.  Several
versions of the file are taken to be equally long, so that two handlers that
write at once leave one of them.

### LabRPC and ShardCtrler

A client has one `Call` at a time; `rpc[c]` is that call together with the
`processReq` goroutine that serves it, and keeps what was read before a delay
(`obj`, `rel`).  `handlers` are the goroutines that execute requests; one whose
`processReq` has stopped waiting lives on with `awaited = FALSE`.  Delays only say
when a step happens, so the flags for long delays and reordering leave no trace.
Servers are numbers behind a name, and a restart registers a new number.

`ShardCtrler` adds the clerk's loop (`Invoke`, `CallServer`, `CallReturns`), the
tester (`ShutdownServer` and `StartServer` are each cut where the network and the
`Persister` change), and the `Persister`s: `Copy` appends a new one, the instance
that was started with the k-th saves into the k-th.  The handlers of the
repository are empty.  `Serve` stands for every handler that keeps the rule the
comments of `labrpc.go` and `config.go` are about: save first, answer then.  `Elect`
is external.  Connections between servers matter only to Raft.

### Porcupine

`checkSingle` is modelled on its data structures.  The list is a pair of pointer
functions changed by `lift` and `unlift`, `linearized` a bitset of words of
`ChunkBits` bits, `calls` the stack, `cache` a set of configurations compared by
equality; the hash only chooses a bucket.  Each pass of the loop is one action.
`checkParallel` collects, is interrupted by the timer, drains and concludes.
`sort.Sort` is not stable, so entries that compare equal are taken in every
order (`Ties`, `Sorted`).  Histories enter through `checkOperations` (split by key) or `checkEvents`
(renumbered).  `HistoriesAssumption` says what a history has to be for the checker: an
operation is called before it returns, every call event has one return event
behind it, and the ids of events are numbers.  Events have no key: `KvModel` has no
`PartitionEvent` and its `Step` does not look at the key, so that a history of events
is judged as one register whatever keys it names (section 6).  The references are `Linearizable` and `LinearPrefixes`, written down
from the definition of linearizability for the whole history.

### HttpServer and HttpProxy

`held` is the connection `main` has accepted while it waits for the semaphore.  A
handler goes from `read` over the file system calls, each a step, to `respond`,
`release` and `close`; the deferred calls run in reverse order, so the server
releases its place before it closes the socket and the proxy does it the other
way round.  A path is a sequence of `/`, `.` and names, the extension one name,
which is enough for `getFileType` and `checkPath`; contents are sequences of
`Blocks`, so that a short POST over a long file leaves a rest.  Ghost fields record what a GET
ought to see: `alone` (nothing overlapped), `last` and `mixed`.  The proxy's dial
opens a connection to the server, to the proxy itself, or fails.  `broken` says what
goes wrong with a request: the client breaks off, the path cannot be made into a
request (`NewRequestFails`), or the answer cannot be read (`ReadResponseFails`).  After the
second the proxy has dialled and sent nothing; the server's handler waits, with its place,
until the deferred `serverConn.Close` of the proxy (`ProxyRespond`).

## 3. Runs

| Run | Instance | Shows |
|---|---|---|
| `mr_safety` | 2 map and 2 reduce tasks, 2 workers | all safety properties of `MapReduce`; it implements `MRJob` |
| `mr_liveness` | 1 map task, 2 reduce tasks, 2 workers | the job ends, then the workers |
| `chord_lookup` | 8 identifiers, rings {3}, {2,7}, {2,3,7}, one successor, 3 fingers, a user on 3 | lookups, fingers, progress, termination |
| `chord_ring_changes` | ring {0, 4}, 2 joins, one crash, torn writes | members skip nobody and keep live successors, `join` comes to an end |
| `chord_ring_crash` | ring {0, 2, 4, 6}, one crash | nobody is cut off, the ring closes |
| `chord_ring_grow` | ring {0}, 1 and 3 join | the ring becomes ideal |
| `chord_ring_deadlock` | ring of two | a violation, see section 6 |
| `chord_files` | ring {0, 3, 6}, two keys, two changes and the panics they cause | what is sent was read; half-written copies do not win; lookups find the file |
| `chord_files_placed` | ring {0, 3}, 5 joins or a node crashes | the file is kept at its old homes and ends up where `lookup` says |
| `shardctrler` | one clerk, two servers, one of them shut down and restarted | acknowledged means persisted; calls return; the leader is found |
| `porcupine` | 3 or 4 operations on one key, 2 on each of two keys, 3 operations as events | the checker agrees with the definition |
| `http_proxy` | three clients, 21 plans, two places in each semaphore | bounded sockets, consistent GETs, everyone answered |

Properties of `MapReduce`:

* `WorkDoneExact`: `workDone` is the number of tasks done and counted;
* `FilesRaceFree`: no file list is read while one is appended to;
* `ReduceInputComplete`: a reduce task is given one file of every map task that
  has keys for it;
* `InputsReadable`: no listed file is missing or half written;
* `OutputCorrect`: an output has every block of its partition once;
* `NoEarlyExit`: nobody exits before all outputs are in place;
* `OutputStable`: an output in place never changes, although late executions
  still rename over it;
* `JobSpec`, `JobCompletes`, `WorkersStop`.

Properties of `ChordLookup`: `LookupCorrect` (the answer is the responsible
member), `FingersCorrect`, `HopProgress` (each hop is strictly clockwise towards the key),
`LookupReturns`; the last two exclude that a node forwards to itself, and `NoSelfCall` (`log.Fatal` of
`ReqFindSuccessor` is unreachable) is stated as a theorem only.

Properties of `ChordRing`: `SuccessorKept` (a live successor is replaced only by a
closer node), `NoMemberSkipped` (no successor lies beyond a member of the old
ring while nobody has died), `NeverIsolated` (no node takes itself for the only
one), `RingConverges` (live neighbours become right and stay so), `JoinEnds`.  The first two
are about the nodes `Locked`: the members, whose successors only change under the
lock; and the joining nodes too where their one unlocked write is in one piece.

Properties of `ChordFiles`: `KeptAtHome` (after `StoreFile` has returned, every anchor
has a copy: a member from the beginning that still runs and that no node has ever
pushed off the list of the file's homes), `StoredIsFound` (a lookup of a stored file
comes back without it only if no anchor is left), `FirstCopyWhole` (in a ring that does not
change the first home has the whole file when no store is under way, though
empty copies are sent about), `EventuallyPlaced` (in the end exactly the nodes that
`lookup` names hold it).  The anchors say what the code guarantees and no more: a
single crash can lose a file (section 6).

Properties of `ShardCtrler`: `AckedPersisted` (what a clerk was told is done is in the
`Persister` from which the server restarts), `CallsReturn`, `ClerkFindsLeader`.

Properties of `Porcupine`: `ListIntact` (the list is exactly the entries not
linearized, linked both ways), `StackIsLinearization` (stack, bitset and state belong
together), `VerdictRight`, `LongestRight` (the partial linearizations are longest
ones), `CheckEnds` (a verdict, and no goroutine left behind, except for an empty history
without a timer, for which the code waits for ever).

Properties of `HttpProxy`: `ProxySocketsBounded`, `GetReturnsLastPost` (a GET that
nothing overlaps returns what the last POST wrote), `EveryoneAnswered`.

*Bounds.* Two workers are enough for a task to have a live owner, a crashed or
late one, and two executions at once; two map tasks for one to finish while the
other is out; two reduce tasks for a loop of appends that others can enter, with
a map task that emits to one of them only.  The number of expiries and
re-executions is not bounded.  Worker symmetry is used in the runs without
liveness; no definition distinguishes workers.  In the ring of eight identifiers
all three fingers of a member differ, intervals wrap, and the ring of one member
has equal bounds; with one successor per node every hop goes through fingers or
the successor itself.  In `ChordRing` two joiners are enough for a refused join, and
lists of two entries for a list that survives one crash; `MaxCrashes` bounds the
number of crashes.

`ChordFiles` uses two of the three keys of `lookup` (2^0 and 2^200, which is a
multiple of the key space) in the ring of three and one in the ring of two, where a second
would have the same homes.  `MaxChanges` bounds crashes and joins, and nothing bounds the
panics that follow from them.  With two changes in `chord_files`, at any moment of a store, a migration or
a lookup, the ring of three is left with one node or none; in the ring of two
one join or one crash, at any moment of a store or a migration, is enough for old and new pointers to
disagree about both homes.  The file
is stored once and looked up once; the theorems of section 4 hold for any number of
keys, stores and users.  In `ShardCtrler`, `MaxObject = 3` lets a server be shut down and
restarted once, with a `Persister` for each copy, and `ShutDown` names the server it
happens to; the leader may be either.  A clerk makes one request: requests do not
influence each other.  In `Porcupine`, four operations are enough for a cache hit on
a different order of the same operations, for backtracking over several levels, and,
with words of two bits, for bitsets of one and of two words, full and not full;
some operations on one key share a call or a return time, so that ties occur.  In
`HttpProxy` two places are fewer than the connections; at most one request loops
through the proxy (section 6 says why); POSTs of different length show what is left
of an older file, and the plans `Odd` go once through every error path of the handlers.
Errors of `ln.Accept` are logged and change nothing, and are left out.

*Fairness.* Weak fairness of the coordinator's main goroutine, of each RPC
goroutine and of each worker: the Go and the operating-system schedulers give it.
Weak fairness of `Expire`: the clock advances.  A mutex is never contended for
ever, because a holder of `taskLock` and `workLock` always runs on to its release
and a blocked handler becomes enabled again; weak fairness is enough since only
finitely many reports can take the locks before the job is over.  `Crash` has no
fairness.  `JobCompletes` therefore has a premise, that some worker does not
crash; no worker is restarted, as in the code.  In `ChordLookup` only the
goroutine that serves a lookup is fair; nothing obliges a user to ask.  In
`ChordRing` the tickers fire again and again and a goroutine that waits for a
mutex gets it, since Go's mutex hands itself to a waiter that has starved; that
is strong fairness of `stabilize` and `join`.  `RingConverges` and `JoinEnds` have
the premise that no goroutines deadlock on `successorLock`, because the code can
(section 6).  In `ChordFiles` the pointers settle, which `RingConverges` is about, and
`stabilize` runs for ever on every node; nothing obliges users.  In `ShardCtrler`
goroutines run, and since requests and replies are dropped at random and
independently, one that is sent to a server over and over gets through: strong
fairness of `PassRequest` and `PassReply` for each server.  Nothing is assumed of the
handlers of a deleted server, nor of the tester.  In `Porcupine` goroutines run and a
timer that is set may fire.  In `HttpProxy` goroutines run, and a client that has
connected sends its request or breaks off: the code sets no deadline, so one that
does neither keeps its place for ever.

`CHECK_DEADLOCK` is on in `MapReduce` and `ChordLookup`.  In the runs of `ChordRing`,
`stabilize` really can deadlock; the other systems come to rest when the commands,
requests or histories are done, and what must have happened by then is a liveness
property.  In `MapReduce`, `Terminated` stutters when the coordinator
and all workers have stopped, so that a deadlock of locks would still be
reported.

## 4. Proofs

TLC has checked every inductive invariant below on an instance of its run.  The
theorems hold for all values of the constants that satisfy the named assumptions.

### MapReduce

For any positive `NMap` and `NReduce`, any finite `Workers` and any `Emits`
(`ConstantsAssumption`).

`MapReduceProofs`: `TypeCorrect` (`TypeOK`), `WorkDoneIsExact` (`WorkDoneExact`),
`FilesAreRaceFree` (`FilesRaceFree`).  The inductive invariant `PhaseInv` has five
parts: `TypeOK`; `Control`, which relates the program counters of a worker and its
RPC goroutine to the task they hold; `LocksExclusive`, at most one goroutine in each
critical section; `Barrier`, nobody is beyond the phase choice with a reduce index
unless all map tasks are done and counted; and `WorkDoneExact`.  None of them is
inductive alone: the race freedom of the file lists needs the barrier, the barrier
needs the counter to be exact, the counter needs the locks, and the locks need to
know which task each goroutine works on.

The second half of the module: `ReduceInputIsComplete`, `InputsAreReadable`, `OutputIsCorrect`,
`NobodyExitsEarly`, `OutputIsStable`, and `ImplementsJob`: `Spec => JobSpec`.  `JobInv`
adds to `PhaseInv` that no two workers have the same id (`Ids`), that the file lists
have exactly the files of the map tasks done, those of a report in progress up to
its loop index (`FilesExact`), that what was reported has been written
(`WrittenInv`), what a reduce execution has read so far (`ReduceInv`), and how far
`Done` has got (`MainInv`).  The ids are what keeps a late execution from writing
into a file that another one has reported.  Each step of `Next` is then a step of
`MRJob` or leaves its state alone.

### Chord routing

`ChordLookupProofs`, for every key space, every ring and every successor list with a
right first entry (`LookupAssumption`): `BetweenIsArc` (`keyInBetweenExclusive` is
membership in an arc), `LookupTypes`, `LookupIsCorrect`, `NoNodeCallsItself`,
`FingersAreCorrect`, and `HopsMakeProgress`, an action property.  `RouteInv` says that a
call is at a member, that an answer is the owner of its key and that a filled finger
is the owner of its own.  A member that is not the predecessor of the key always has
a candidate, its own first successor, which is why no node asks itself.
`PowerAssumption` states that the powers of two are natural numbers, because the
provers do not interpret `^`; TLC evaluates it on each instance.

### Chord membership

`ChordRingProofs`, for every key space, ring, set of joining nodes and length of the
lists (`RingAssumption`):

* `RingTypes`: `TypeOK`;
* `NoMemberIsSkipped` (`NoMemberSkipped`) and `SuccessorIsKept` (`SuccessorKept`), with
  `TornWrites` or without, for any number of joins and crashes.

The first argument is about the lock and holds however the unlocked write is seen.
`MutexInv` says that at most one goroutine holds the `successorLock` of a node, and `IdleInv` that
one which is idle has nothing pending.  `AskedInv` and `HealthInv` say what a goroutine knows
under the lock: on a member, the call it waits for goes to the successor the member still has, and the
candidate whose health is checked is still nearer than the successor.  On a joining node
neither holds, because `join` writes in between (section 6).  `MemberInv` says that the successor of a member lies beyond no
member while nobody has died, `StartInv` what a node is before it joins.

The second argument is about joining nodes and supposes writes in one piece.
`RingInv` says who knows whom.  A node that joins is *visible* once it has written its
successor; before, it is in no list, no pointer and no answer on its way, and it
knows only itself.  Without that, a node could adopt a successor whose own list is
not there yet.  `LookupInv` says that the lookup of a joining node runs on visible
nodes and finds one.  `SafeInv` adds that, while nobody has died, no member of the old
ring lies between a visible node and its successor, nor between a joining node and
the answer of its lookup.  `SuccessorInv` is the conjunction, the second argument's part
under `~TornWrites`.

The last theorem of the module is `NobodyIsIsolated` (`NeverIsolated`), under `Joiners = {}` and
`MaxCrashes < NumSucc`, with any number of members.  Both hypotheses are needed: a
list can be used up by as many crashes as it has entries, and a new member has
itself in its list (section 6).  `CrashInv` says of the list of each live node
that it passes over nobody who is up (`Shown`) and that it goes on around the ring until it comes back to
the node (`Climbs`), so that its entries are distinct and at least one is up.
`checkSuccessor` breaks the second between the removal of a dead successor and
`updateSuccessorList`; then it holds of the list with some dead node in first place.

### Chord files

`ChordFilesProofs`, for every key space, ring, set of joining nodes and users, every
hash, any number of keys under which `lookup` looks, and any number of stores,
crashes, joins and panics (`FilesAssumption`): `FilesTypes` (`TypeOK`), `FileIsKeptAtHome`
(`KeptAtHome`), `StoredFileIsFound` (`StoredIsFound`) and `FirstCopyIsWhole` (`FirstCopyWhole`).

The argument is about `Anchors`.  An anchor is a home of the file in the ring of all nodes
that have ever been members, so it is one under every mixture of old and new
pointers that a lookup may be answered by: taking nodes away from a ring does
not push a node off the list of the owner of a key and its successor, as long as the node itself stays.
The set of anchors only shrinks.  `KeepInv` says of every
anchor that it has the file once a `StoreFile` has returned, that a store under way
has reached it or still has it on its list, that its own `stabilize` finds it on the
list and so does not remove its copy, and that a lookup under way has still to ask
it.  The last two are about lists that were made before a change.  `TypeInv` adds
that a goroutine runs only on a running node and that a copy which `stabilize` moves
is there until that goroutine removes it, so that `os.ReadFile` and `os.Remove` do not fail.
For `FirstCopyWhole` it is added that every loop visits the first home first, and finds
a file there as soon as a store has begun to write it: an empty copy can then go to
other homes only.

### Shard controller

`ShardCtrlerProofs`: `AckedIsPersisted` (`AckedPersisted`), for any finite sets of servers
and clerks and any number of restarts.  `AckInv`: the names under which servers
are registered belong to the instances on the newest `Persister`, and nothing is
registered while the tester copies one (`Registered`); what a handler answers Ok to
is saved in the `Persister` of its instance (`Handlers`); an Ok on its way to a clerk
was saved by the instance that sent it and, once labrpc has checked that this
instance is still registered, is in the newest one (`Calls`).  The proof rests on
`Persister`s that only grow and on copies that start from the newest (`Grows`).

### HTTP server and proxy

`HttpProxyProofs`, for any clients, plans and places (`HttpAssumption`): `HttpTypes`
(`TypeOK`), `ProxySocketsAreBounded` (`ProxySocketsBounded`), `GetReturnsTheLastPost`
(`GetReturnsLastPost`, an action property).  `HttpInv` counts the handlers that have a place
against each semaphore (`ServerInv`, `ProxyInv`), says that the proxy has not dialled
for a request it has not read (`NotDialed`), and relates the ghost fields to the files
(`FilesInv`): a POST that nothing overlaps is the only one on its file, a GET that
nothing overlaps has read the beginning of a file nobody writes to, and a file that
no overlap has spoilt is what the last POST wrote.

### Porcupine

`PorcupineProofs`: `ListIsIntact` (`ListIntact`), for every history, every order in which
the sort leaves ties, and every width of the words of a bitset.  `CheckInv` says that the
entries come in pairs, call before return, and of every goroutine (`ListInv`) that
the bitset has the operations on the stack, that the list is linked over the rest,
and that a lifted entry still has the pointers it had when it was lifted: with
respect to the operations *below* it on the stack.  That is why `unlift` is right only
in the opposite order, and why the invariant has to speak of every level of the
stack.  The proof starts at `makeEntries`, `renumber` and `convertEntries`, whose results
are shown to be paired.

`StackIsALinearization` (`StackIsLinearization`) goes on from there.  `ReplayInv` says that a part
has one key (`Keyed`), that an entry stands behind every return that came before its
call (`Ordered`), that each state saved on the stack follows from the one below by
the operation between them, which the model accepts (`Replays`), and that from
every level the search has passed over call entries only (`Passed`).  The last is
what gives the real-time order: an operation that returned earlier has its return
entry in front of the call, so it would have stopped the walk, unless it is on
the stack already.  The reference `Values` is a recursive function; that it is one,
and that it equals the saved states, is shown by `SetInduction`, an induction over the
numbers that uses the least counterexample and so needs no operator as a parameter.

`PorcupineVerdictProofs` has `VerdictIsRight` (`VerdictRight`) and `LongestIsRight` (`LongestRight`),
for every history of operations or events.  Three arguments meet in them.

*Linearizability is local* (`Local`).  `Ranked` says the same as `Linearizable` without
sequences: the operations have ranks, and each finds the value that the one before it
on its key leaves.  A ranking of the history restricts to its parts (`Restricted`).  The
other way, an operation of a part is given a point in time: the latest call among
the operations of its part up to it in rank.  Ordered by point first, and by rank within a part,
the parts merge to a ranking of the history (`Merged`).  `SplitsInit` shows that
`Partition`, and `renumber` for events, do split the history so.

*The search misses nothing.*  A set of operations and a state are `Dead` if no sequence of further
operations completes them and, with `computeInfo`, `longest` has for every operation something
as long as anything they can be extended to.  `Tried` says that from every level of
the stack each call in front of the one taken there is dead, and `Cached` that what is in the
cache is dead *or still on the stack*: the cache is written when a configuration is
entered, not when it is given up, and only the second half of the disjunction makes
skipping it sound, because a configuration on the stack cannot be reached again from
above it.  A return entry is reached only when every operation that may come next
has been tried (`ReturnIsDead`): an operation called behind it would have to follow the one
that returns there.  `Dead` is kept when `longest` grows (`StaysDead`), and `Longer` makes it grow just
when the stack is given up (`LongerIs`).

*The counting* (`CountInv`).  A goroutine that was killed sends false like one that found
its part illegal.  That does no harm because the flag is raised only by the timer,
after which `ok` is frozen, or, without `computeInfo`, by a negative answer that was true.
With `computeInfo` nothing is concluded before all results have been taken, so that every `longest` is in
place; and the flag is then raised by the timer only.

### Only model-checked

Every invariant and every action property of a passing run is stated by a theorem.
What is left to TLC:

* Liveness: `JobCompletes`, `WorkersStop`, `LookupReturns`, `RingConverges`, `JoinEnds`,
  `EventuallyPlaced`, `CallsReturn`, `ClerkFindsLeader`, `CheckEnds`, `EveryoneAnswered`.
  TLAPS does not reason about fairness.

## 5. Not modelled

* The applications of `mrapps` are pure functions and timing probes; the sort and
  the grouping loop of one reduce task do not depend on anything concurrent.
* labgob wraps an encoder.
* Raft, kvraft, shardctrler and shardkv servers have empty handlers: there is
  nothing to model.  The shardkv clerk never gets a configuration with groups from
  them.  The harnesses of raft, kvraft and shardkv repeat the functions of
  `shardctrler/config.go`, and their partitions matter to Raft only.
* In labrpc, `MakeEnd` and `Connect` (done once before a test), the reflection of
  `MakeService` and the counters.
* porcupine's HTML output, and how partial linearizations are arranged for it.
* Of Lab03 the flags, the printing and the encryption; finger tables in a changing
  ring; versions of a file of different length.
* The six front ends under `main/` for services the repository does not contain.

## 6. Where the code differs from what it says

`chord_ring_deadlock`: two neighbours that stabilize at the same time hold their
own `successorLock` and wait for the other's; `call` never returns, although its
comment says that it does.

What the models show besides, under bounds or properties other than those of the
runs:

* A node that joins while a nearer one does is refused by `notify` and ends with
  `log.Fatal`, although the reply field "should always be true" (`rpc.go:43`).
* `findSuccessor` looks at the successor list in two lock sections.  If a dead
  successor is replaced in between, the node finds no preceding node, calls itself
  and ends with "I should not be here" (`rpc.go:96`).
* A new member has itself in its list; when its successor dies it takes itself for
  alone and stays so (`chord.go:222`).
* `stabilize` tests under `successorLock` that the predecessor of its old successor is
  nearer than `successor[0]`, since the copy may be out of date ("Check that the condition
  is still true after acquiring the lock", `chord.go:329`), makes a health check and
  installs it.  `join` assigns `successor[0]` without the lock (`chord.go:160`).  In the ring {0, 4},
  with 1 joining, the address of its new successor 4 can be visible before the
  identifier: the stabilize goroutine of 1 asks 4, is given 0, and tests 0 against
  an identifier that is still its own, which makes the interval the whole ring.
  Then `join` writes the identifier and is accepted, and `stabilize` puts 0 in place
  of 4.  The new node has skipped a member; a later `stabilize` repairs it.  So, with `TornWrites`,
  what `NoMemberSkipped` and `SuccessorKept` say of members is not true of joining nodes
  (TLC shows it with `Locked` replaced by `Nodes`), and `RingConverges` fails.
* `findClosestPrecedingNode` compares its two candidates as numbers, so that across
  zero it prefers the farther one, although its comment promises the closest;
  answers stay right, lookups take more hops than they need.
* One crash can lose a stored file (`chord.go:475`).  In the ring {0, 3, 6} a file is on 6 and 0.
  6 crashes; the `stabilize` of 0, while it looks for the file's homes, is
  still told 6 by an old pointer, `AskSuccList` returns nil, and indexing it ends
  node 0 as well.  Of the same kind, a `Lookup` command that meets a file which was
  created and not yet written ends its node (`client.go:237`).
* A `stabilize` loop that read a file between `os.Create` and `Write` sends empty contents on
  (`rpc.go:164`).  It can empty a whole copy that another node got meanwhile; if
  the first home then crashes, an empty file is all that is left, and no loop replaces it,
  because `ReqGetFile` reports that it exists.
* A join and a crash together can lose or hide a file.  The keys
  of `lookup` are 2^0, 2^100 and 2^200 away from the hash, so that in a ring of
  realistic size all of them have the same owner and a file has two copies.
* The comment of `keyInBetweenExclusive` says "leftBound and rightBound included"
  (`util.go:18`); the code leaves both out, as its name says and its callers expect.
* `checkPath` counts the slash that begins a "/../" as one level down before it counts
  the level up, so only one at the very beginning of a path is refused, although
  the comment says that it checks whether a path "does not exit the root path"
  (`fileHandler.go:17`).  `HttpServer!checkPath` does the same.
* `kv.go` says of keys in its model "we're partitioning by key, so this is okay"; that is
  true of operations, while a history of events on several keys is judged as one register.
* Both HTTP servers accept a connection before they wait for a place, and the file
  server releases its place before it closes the socket: more sockets than
  `MAX_SOCKETS_WORKERS` can be open, although the comment says "to control the total
  number of open sockets" (`http_server.go:21`).
* As many requests through the proxy to itself as it has places block it for ever:
  each holds a place and waits for another.
* Of the two copies of a `Persister`, at shutdown and at start, each alone is enough
  for `AckedPersisted`.  A reply that labrpc delays after its last check is harmless,
  because the request was saved before.
* `CheckOperations` of an empty history without a timer waits for ever
  (`checker.go:302`); `CheckEnds` excepts exactly that case.

## 7. Plan

1. Partitioning, sort and grouping of one reduce task against `mrsequential.go`, as
   functions over bounded inputs.
2. `ChordFiles` with two versions of a file of different length.
