----------------------------- MODULE MapReduce -----------------------------
(***************************************************************************)
(* The MapReduce job of Lab02/src/mr: one coordinator process (its main    *)
(* goroutine polls Done(), every RPC runs in a goroutine of its own) and a *)
(* set of worker processes that ask for a task, execute it on the shared   *)
(* file system and report it.  Workers may crash at any step; a task whose *)
(* last issue is more than 10 seconds old is issued again.                 *)
(*                                                                         *)
(* A worker blocks in call(), so the goroutine that serves its outstanding *)
(* RPC is identified by the worker, and the worker's local variables are   *)
(* the arguments of the call.  The goroutine survives the worker's crash.  *)
(*                                                                         *)
(* Data: a map task m emits keys for the partitions Emits[m] (mapf and     *)
(* ihash are deterministic).  An intermediate file mr-tmp-k-m-r is the     *)
(* tuple <<k, m, r>>; its contents, once encoded, are the block <<m, r>>.  *)
(* A slice of key/values is the sequence of the blocks it was built from.  *)
(***************************************************************************)
EXTENDS Integers, Sequences, FiniteSets

CONSTANTS NMap,      \* nMap, the number of input files
          NReduce,   \* nReduce, the number of reduce tasks
          Workers,   \* the worker processes ever started
          Emits      \* Emits[m]: the partitions map task m has keys for

Maps    == 0 .. (NMap - 1)
Reduces == 0 .. (NReduce - 1)
Tasks   == 0 .. (NMap + NReduce - 1)

\* mrcoordinator.go refuses an empty list of input files and asks for 10
\* reduce tasks.
ASSUME ConstantsAssumption ==
    /\ NMap \in Nat \ {0}
    /\ NReduce \in Nat \ {0}
    /\ IsFiniteSet(Workers)
    /\ Emits \in [Maps -> SUBSET Reduces]

VARIABLES
    workers,   \* Coordinator.workers: the next worker id
    workDone,  \* Coordinator.workDone
    done,      \* done[i]: tasks[i].done
    issued,    \* issued[i]: tasks[i].issued
    expired,   \* expired[i]: time.Since(tasks[i].lastIssued) > 10s
    files,     \* files[r]: tasks[nMap+r].files
    mpc, mi,   \* the coordinator's main goroutine and Done()'s loop index
    hpc, hi,   \* the RPC goroutine of each worker and its loop index
    wpc,       \* where each worker is in Worker()
    id,        \* Worker()'s id, -1 until the first reply
    work,      \* Worker()'s work: the reply struct of its last AskTask
    wi,        \* Worker()'s loop index
    content,   \* Worker()'s contentData
    written,   \* the intermediate files whose Encode has finished
    out        \* out[r]: the contents of mr-out-r.txt

coordVars  == <<workers, workDone, done, issued, expired, files>>
mainVars   == <<mpc, mi>>
workerVars == <<wpc, id, work, wi, content>>
fileVars   == <<written, out>>
vars == <<coordVars, mainVars, hpc, hi, workerVars, fileVars>>

\* AskTaskReply{}: the zero value each call starts from.
EmptyReply == [Id |-> 0, TaskType |-> 0, TaskId |-> 0, Files |-> <<>>]

\* The reply to worker k until a task is found for it.
NoTask(k) == [Id |-> k, TaskType |-> 0, TaskId |-> -1, Files |-> <<>>]

\* mr-out-r.txt does not exist.  A reducer that renames one has read at least
\* one block, so no output is ever empty.
NoFile == <<>>

Init ==
    /\ workers = 0
    /\ workDone = 0
    /\ done = [i \in Tasks |-> FALSE]
    /\ issued = [i \in Tasks |-> FALSE]
    /\ expired = [i \in Tasks |-> FALSE]
    /\ files = [r \in Reduces |-> <<>>]
    /\ mpc = "polling" /\ mi = 0
    /\ hpc = [w \in Workers |-> "none"]
    /\ hi = [w \in Workers |-> 0]
    /\ wpc = [w \in Workers |-> "ask"]
    /\ id = [w \in Workers |-> -1]
    /\ work = [w \in Workers |-> EmptyReply]
    /\ wi = [w \in Workers |-> 0]
    /\ content = [w \in Workers |-> <<>>]
    /\ written = {}
    /\ out = [r \in Reduces |-> NoFile]

-----------------------------------------------------------------------------
(***************************************************************************)
(* Locks.  A mutex that is released in the step that takes it needs no     *)
(* state; only TaskDone keeps taskLock and workLock across steps.          *)
(***************************************************************************)

\* The index into tasks[] of the task a worker was given.
ActualTaskId(w) ==
    IF work[w].TaskType = 2 THEN work[w].TaskId + NMap ELSE work[w].TaskId

TaskLockFree(i) ==
    \A v \in Workers : hpc[v] \in {"count", "append"} => ActualTaskId(v) # i

\* Mutant: workDone is read and written without workLock.
WorkLockNotTaken == TRUE

WorkLockFree == \A v \in Workers : hpc[v] # "append"

Serving(w, pc) == mpc # "exited" /\ hpc[w] = pc

-----------------------------------------------------------------------------
(***************************************************************************)
(* Coordinator.AskTask: number the worker, choose the phase, scan.         *)
(***************************************************************************)

AskTaskId(w) ==
    /\ Serving(w, "askId")
    /\ \/ /\ id[w] = -1
          /\ work' = [work EXCEPT ![w] = NoTask(workers)]
          /\ workers' = workers + 1
       \/ /\ id[w] # -1
          /\ work' = [work EXCEPT ![w] = NoTask(id[w])]
          /\ UNCHANGED workers
    /\ hpc' = [hpc EXCEPT ![w] = "askPhase"]
    /\ UNCHANGED <<workDone, done, issued, expired, files, mainVars, hi,
                   wpc, id, wi, content, fileVars>>

\* Mutant: the reduce tasks start when one map task is still out.
PhaseStartEarly == IF workDone < NMap - 1 THEN 0 ELSE NMap

\* start, the first index of the scan: map tasks first, then reduce tasks.
PhaseStart == IF workDone < NMap THEN 0 ELSE NMap

AskTaskPhase(w) ==
    /\ Serving(w, "askPhase")
    /\ WorkLockFree
    /\ hi' = [hi EXCEPT ![w] = PhaseStart]
    /\ hpc' = [hpc EXCEPT ![w] = "scan"]
    /\ UNCHANGED <<coordVars, mainVars, workerVars, fileVars>>

\* Mutant: a task is given away only once.
IssuableOnce(i) == ~done[i] /\ ~issued[i]

Issuable(i) == ~done[i] /\ (~issued[i] \/ expired[i])

\* The reply for task i: the worker counts reduce tasks from 0.
TaskReply(w, i) ==
    IF i < NMap
    THEN [Id |-> work[w].Id, TaskType |-> 1, TaskId |-> i, Files |-> <<>>]
    ELSE [Id |-> work[w].Id, TaskType |-> 2, TaskId |-> i - NMap,
          Files |-> files[i - NMap]]

\* Mutant: the reduce scan's condition is i <= end.
LastOfPhaseLate(i) == i = NMap - 1 \/ i = NMap + NReduce

\* end: the loop runs over [0, nMap) or [nMap, nMap+nReduce).
LastOfPhase(i) == i = NMap - 1 \/ i = NMap + NReduce - 1

AskTaskScan(w) ==
    LET i == hi[w] IN
    /\ Serving(w, "scan")
    /\ TaskLockFree(i)
    /\ \/ /\ Issuable(i)
          /\ issued' = [issued EXCEPT ![i] = TRUE]
          /\ expired' = [expired EXCEPT ![i] = FALSE]
          /\ work' = [work EXCEPT ![w] = TaskReply(w, i)]
          /\ hpc' = [hpc EXCEPT ![w] = "replied"]
          /\ hi' = [hi EXCEPT ![w] = 0]
       \/ /\ ~Issuable(i)
          /\ IF LastOfPhase(i)
             THEN /\ hpc' = [hpc EXCEPT ![w] = "replied"]
                  /\ hi' = [hi EXCEPT ![w] = 0]
             ELSE hi' = [hi EXCEPT ![w] = i + 1] /\ UNCHANGED hpc
          /\ UNCHANGED <<issued, expired, work>>
    /\ UNCHANGED <<workers, workDone, done, files, mainVars,
                   wpc, id, wi, content, fileVars>>

\* The clock: the last issue of task i becomes more than 10 seconds old.
Expire(i) ==
    /\ mpc # "exited"
    /\ issued[i] /\ ~done[i] /\ ~expired[i]
    /\ expired' = [expired EXCEPT ![i] = TRUE]
    /\ UNCHANGED <<workers, workDone, done, issued, files, mainVars, hpc, hi,
                   workerVars, fileVars>>

-----------------------------------------------------------------------------
(***************************************************************************)
(* Coordinator.TaskDone: the first report of a task marks it done, counts  *)
(* it and, for a map task, appends its files to the reduce tasks.          *)
(***************************************************************************)

\* Mutant: every report of a task is taken for its first.
FirstReportAlways(i) == TRUE

FirstReport(i) == ~done[i]

\* taskLock is taken; a task already done by another worker is ignored.  The
\* error "task not found" before it does not occur: a worker reports only tasks
\* that AskTask has given it.
TaskDoneLock(w) ==
    LET i == ActualTaskId(w) IN
    /\ Serving(w, "lock")
    /\ TaskLockFree(i)
    /\ \/ /\ FirstReport(i)
          /\ done' = [done EXCEPT ![i] = TRUE]
          /\ hpc' = [hpc EXCEPT ![w] = "count"]
       \/ /\ ~FirstReport(i)
          /\ hpc' = [hpc EXCEPT ![w] = "replied"]
          /\ UNCHANGED done
    /\ UNCHANGED <<workers, workDone, issued, expired, files, mainVars, hi,
                   workerVars, fileVars>>

\* workLock is taken and, for a reduce task, released with taskLock.
TaskDoneCount(w) ==
    /\ Serving(w, "count")
    /\ WorkLockFree
    /\ workDone' = workDone + 1
    /\ IF work[w].TaskType = 1
       THEN /\ hpc' = [hpc EXCEPT ![w] = "append"]
            /\ hi' = [hi EXCEPT ![w] = NMap]
       ELSE hpc' = [hpc EXCEPT ![w] = "replied"] /\ UNCHANGED hi
    /\ UNCHANGED <<workers, done, issued, expired, files, mainVars,
                   workerVars, fileVars>>

\* Mutant: the name has no worker id, so two executions share the file.
TmpNameShared(w, r) == <<0, work[w].TaskId, r>>

\* The name of the file a worker writes for partition r of its map task.
TmpName(w, r) == <<id[w], work[w].TaskId, r>>

\* One iteration of the loop over the reduce tasks; args.Files has an entry
\* for the partitions the worker wrote.  The last one releases both locks.
TaskDoneAppend(w) ==
    LET r == hi[w] - NMap IN
    /\ Serving(w, "append")
    /\ files' = IF r \in Emits[work[w].TaskId]
                THEN [files EXCEPT ![r] = Append(@, TmpName(w, r))]
                ELSE files
    /\ IF r = NReduce - 1
       THEN /\ hpc' = [hpc EXCEPT ![w] = "replied"]
            /\ hi' = [hi EXCEPT ![w] = 0]
       ELSE hi' = [hi EXCEPT ![w] = @ + 1] /\ UNCHANGED hpc
    /\ UNCHANGED <<workers, workDone, done, issued, expired, mainVars,
                   workerVars, fileVars>>

-----------------------------------------------------------------------------
(***************************************************************************)
(* The coordinator's main goroutine: Done() locks one task after the other *)
(* until one is not done; the process exits a second after all are.        *)
(***************************************************************************)

\* Mutant: the loop leaves out the last task.
LastTaskEarly(i) == i >= NMap + NReduce - 2

LastTask(i) == i = NMap + NReduce - 1

Done ==
    /\ mpc = "polling"
    /\ TaskLockFree(mi)
    /\ \/ ~done[mi] /\ mi' = 0 /\ UNCHANGED mpc
       \/ /\ done[mi]
          /\ IF LastTask(mi)
             THEN mi' = 0 /\ mpc' = "exiting"
             ELSE mi' = mi + 1 /\ UNCHANGED mpc
    /\ UNCHANGED <<coordVars, hpc, hi, workerVars, fileVars>>

CoordinatorExit ==
    /\ mpc = "exiting"
    /\ mpc' = "exited"
    /\ UNCHANGED <<coordVars, mi, hpc, hi, workerVars, fileVars>>

-----------------------------------------------------------------------------
(***************************************************************************)
(* Worker                                                                  *)
(***************************************************************************)

CallAskTask(w) ==
    /\ wpc[w] = "ask"
    /\ mpc # "exited"
    /\ wpc' = [wpc EXCEPT ![w] = "asking"]
    /\ hpc' = [hpc EXCEPT ![w] = "askId"]
    /\ work' = [work EXCEPT ![w] = EmptyReply]
    /\ UNCHANGED <<coordVars, mainVars, hi, id, wi, content, fileVars>>

\* No task: sleep and ask again.  A reduce task without input files is
\* reported without writing an output file.
NextStep(reply) ==
    IF reply.TaskId = -1 THEN "ask"
    ELSE IF reply.TaskType = 1 THEN "create"
    ELSE IF reply.Files = <<>> THEN "report"
    ELSE "read"

AskTaskReturns(w) ==
    /\ wpc[w] = "asking" /\ hpc[w] = "replied"
    /\ id' = [id EXCEPT ![w] = work[w].Id]
    /\ wpc' = [wpc EXCEPT ![w] = NextStep(work[w])]
    /\ hpc' = [hpc EXCEPT ![w] = "none"]
    /\ UNCHANGED <<coordVars, mainVars, hi, work, wi, content, fileVars>>

\* The loop over the partitions: a file is created, then encoded.
AfterPartition(w) ==
    IF wi[w] = NReduce - 1
    THEN wpc' = [wpc EXCEPT ![w] = "report"] /\ wi' = [wi EXCEPT ![w] = 0]
    ELSE wpc' = [wpc EXCEPT ![w] = "create"] /\ wi' = [wi EXCEPT ![w] = @ + 1]

MapCreate(w) ==
    LET f == TmpName(w, wi[w]) IN
    /\ wpc[w] = "create"
    /\ \/ /\ wi[w] \in Emits[work[w].TaskId]
          /\ written' = written \ {f}
          /\ wpc' = [wpc EXCEPT ![w] = "encode"]
          /\ UNCHANGED wi
       \/ /\ wi[w] \notin Emits[work[w].TaskId]
          /\ AfterPartition(w)
          /\ UNCHANGED written
    /\ UNCHANGED <<coordVars, mainVars, hpc, hi, id, work, content, out>>

MapEncode(w) ==
    /\ wpc[w] = "encode"
    /\ written' = written \cup {TmpName(w, wi[w])}
    /\ AfterPartition(w)
    /\ UNCHANGED <<coordVars, mainVars, hpc, hi, id, work, content, out>>

\* One input file is opened and decoded; a missing or half-written file is
\* fatal.
ReduceRead(w) ==
    LET f == work[w].Files[wi[w] + 1] IN
    /\ wpc[w] = "read"
    /\ IF f \in written
       THEN /\ content' = [content EXCEPT ![w] = Append(@, <<f[2], f[3]>>)]
            /\ IF wi[w] + 1 = Len(work[w].Files)
               THEN /\ wpc' = [wpc EXCEPT ![w] = "rename"]
                    /\ wi' = [wi EXCEPT ![w] = 0]
               ELSE wi' = [wi EXCEPT ![w] = @ + 1] /\ UNCHANGED wpc
       ELSE /\ wpc' = [wpc EXCEPT ![w] = "fatal"]
            /\ UNCHANGED <<content, wi>>
    /\ UNCHANGED <<coordVars, mainVars, hpc, hi, id, work, fileVars>>

\* The sorted and grouped result goes to a file named after the worker and
\* the task, which nobody else touches, and is renamed into place.
ReduceRename(w) ==
    /\ wpc[w] = "rename"
    /\ out' = [out EXCEPT ![work[w].TaskId] = content[w]]
    /\ wpc' = [wpc EXCEPT ![w] = "report"]
    /\ content' = [content EXCEPT ![w] = <<>>]
    /\ UNCHANGED <<coordVars, mainVars, hpc, hi, id, work, wi, written>>

CallTaskDone(w) ==
    /\ wpc[w] = "report"
    /\ mpc # "exited"
    /\ wpc' = [wpc EXCEPT ![w] = "reporting"]
    /\ hpc' = [hpc EXCEPT ![w] = "lock"]
    /\ UNCHANGED <<coordVars, mainVars, hi, id, work, wi, content, fileVars>>

TaskDoneReturns(w) ==
    /\ wpc[w] = "reporting" /\ hpc[w] = "replied"
    /\ wpc' = [wpc EXCEPT ![w] = "ask"]
    /\ hpc' = [hpc EXCEPT ![w] = "none"]
    /\ UNCHANGED <<coordVars, mainVars, hi, id, work, wi, content, fileVars>>

\* Mutant: a worker that cannot dial tries again.
CallingOnly == {"asking", "reporting"}

Calling == {"ask", "asking", "report", "reporting"}

\* Dialling fails, or the connection breaks while the call is pending: the
\* worker takes the job to be finished and exits.
CallFails(w) ==
    /\ mpc = "exited"
    /\ wpc[w] \in Calling
    /\ wpc' = [wpc EXCEPT ![w] = "exited"]
    /\ UNCHANGED <<coordVars, mainVars, hpc, hi, id, work, wi, content,
                   fileVars>>

Stopped == {"exited", "crashed", "fatal"}

\* maybeCrash() of mrapps/crash.go, a failing input file or a killed process.
\* Of its locals only the arguments of a pending call live on.
Crash(w) ==
    /\ wpc[w] \notin Stopped
    /\ wpc' = [wpc EXCEPT ![w] = "crashed"]
    /\ wi' = [wi EXCEPT ![w] = 0]
    /\ content' = [content EXCEPT ![w] = <<>>]
    /\ IF hpc[w] = "none"
       THEN /\ id' = [id EXCEPT ![w] = -1]
            /\ work' = [work EXCEPT ![w] = EmptyReply]
       ELSE UNCHANGED <<id, work>>
    /\ UNCHANGED <<coordVars, mainVars, hpc, hi, fileVars>>

-----------------------------------------------------------------------------
Handler(w) ==
    \/ AskTaskId(w) \/ AskTaskPhase(w) \/ AskTaskScan(w)
    \/ TaskDoneLock(w) \/ TaskDoneCount(w) \/ TaskDoneAppend(w)

Worker(w) ==
    \/ CallAskTask(w) \/ AskTaskReturns(w)
    \/ MapCreate(w) \/ MapEncode(w)
    \/ ReduceRead(w) \/ ReduceRename(w)
    \/ CallTaskDone(w) \/ TaskDoneReturns(w)
    \/ CallFails(w)

Main == Done \/ CoordinatorExit

\* Every process has stopped.
Terminated ==
    /\ mpc = "exited"
    /\ \A w \in Workers : wpc[w] \in Stopped
    /\ UNCHANGED vars

Next ==
    \/ Main
    \/ \E i \in Tasks : Expire(i)
    \/ \E w \in Workers : Handler(w) \/ Worker(w) \/ Crash(w)
    \/ Terminated

Spec == Init /\ [][Next]_vars

\* Goroutines and processes are scheduled and the clock advances.
Fairness ==
    /\ WF_vars(Main)
    /\ \A i \in Tasks : WF_vars(Expire(i))
    /\ \A w \in Workers : WF_vars(Handler(w)) /\ WF_vars(Worker(w))

FairSpec == Spec /\ Fairness

-----------------------------------------------------------------------------
(***************************************************************************)
(* Properties                                                              *)
(***************************************************************************)

HandlerPc == {"none", "askId", "askPhase", "scan", "lock", "count", "append",
              "replied"}
WorkerPc  == {"ask", "asking", "create", "encode", "read", "rename", "report",
              "reporting"} \cup Stopped
Reply     == [Id: Nat, TaskType: 0 .. 2, TaskId: -1 .. (NMap + NReduce - 1),
              Files: Seq(Nat \X Maps \X Reduces)]

\* The types of the Go structs and locals.
TypeOK ==
    /\ workers \in Nat
    /\ workDone \in Nat
    /\ done \in [Tasks -> BOOLEAN]
    /\ issued \in [Tasks -> BOOLEAN]
    /\ expired \in [Tasks -> BOOLEAN]
    /\ files \in [Reduces -> Seq(Nat \X Maps \X Reduces)]
    /\ mpc \in {"polling", "exiting", "exited"}
    /\ mi \in Tasks
    /\ hpc \in [Workers -> HandlerPc]
    /\ hi \in [Workers -> Tasks]
    /\ wpc \in [Workers -> WorkerPc]
    /\ id \in [Workers -> Nat \cup {-1}]
    /\ work \in [Workers -> Reply]
    /\ wi \in [Workers -> Nat]
    /\ content \in [Workers -> Seq(Maps \X Reduces)]
    /\ written \subseteq Nat \X Maps \X Reduces
    /\ out \in [Reduces -> Seq(Maps \X Reduces)]

\* The map tasks that have keys for partition r.
InputsOf(r) == {m \in Maps : r \in Emits[m]}

\* The sequence of blocks has every block of partition r once and no other.
ExactBlocks(blocks, r) ==
    /\ {blocks[p] : p \in DOMAIN blocks} = InputsOf(r) \X {r}
    /\ \A p, q \in DOMAIN blocks : blocks[p] = blocks[q] => p = q

\* The tasks TaskDone has counted in workDone.
Counted ==
    {i \in Tasks : done[i] /\ \A w \in Workers :
                                 hpc[w] = "count" => ActualTaskId(w) # i}

\* workDone counts each finished task once, whatever reports arrive and in
\* whatever order: the phase AskTask chooses from it is never early.
WorkDoneExact == workDone = Cardinality(Counted)

\* AskTask reads tasks[j].files under taskLock, TaskDone appends to it under
\* workLock: the two goroutines never do so at the same time.
FilesRaceFree ==
    (\E v \in Workers : hpc[v] = "append")
        => \A w \in Workers : ~(hpc[w] = "scan" /\ hi[w] >= NMap)

\* A reduce task is handed out with one file of every map task that has keys
\* for it, however often the map task was executed.
ReduceInputComplete ==
    \A w \in Workers : work[w].TaskType = 2 =>
        LET fs == work[w].Files
        IN  ExactBlocks([p \in DOMAIN fs |-> <<fs[p][2], fs[p][3]>>],
                        work[w].TaskId)

\* No file a reduce task lists is missing or half written, not even while a
\* second execution of the map task is writing its own files: the worker's
\* log.Fatal on a reduce input is never reached.
InputsReadable ==
    /\ \A r \in Reduces : \A p \in DOMAIN files[r] : files[r][p] \in written
    /\ \A w \in Workers : wpc[w] # "fatal"

\* An output file holds every block of its partition exactly once.
OutputCorrect ==
    \A r \in Reduces : out[r] # NoFile => ExactBlocks(out[r], r)

\* test-mr.sh, early exit: when the coordinator is about to exit or a worker
\* has exited, every partition that has input has its output file.
NoEarlyExit ==
    (mpc # "polling" \/ \E w \in Workers : wpc[w] = "exited")
        => \A r \in Reduces : InputsOf(r) # {} => out[r] # NoFile

\* test-mr.sh, early exit: once an output file is in place it never changes,
\* although late executions of the task still rename theirs.
OutputStable ==
    [][\A r \in Reduces : out[r] # NoFile => out'[r] = out[r]]_out

\* What the job promises (MRJob): a map task counts when it is marked done,
\* a result when its file is renamed into place.
Job == INSTANCE MRJob WITH
          mapped   <- {m \in Maps : done[m]},
          reduced  <- {r \in Reduces : done[NMap + r]},
          result   <- [r \in Reduces |-> {out[r][p] : p \in DOMAIN out[r]}],
          finished <- mpc # "polling"

\* The coordinator and its workers implement the job: crashes, late reports
\* and second executions are invisible in what is marked done and published.
JobSpec == Job!Spec

SomeWorkerSurvives == [](\E w \in Workers : wpc[w] # "crashed")

\* As long as one worker does not crash, the job finishes and the coordinator
\* exits, whatever the others were given and did not report.
JobCompletes == SomeWorkerSurvives => <>(mpc = "exited")

\* After that every worker stops too.
WorkersStop == (mpc = "exited") ~> (\A w \in Workers : wpc[w] \in Stopped)
=============================================================================
