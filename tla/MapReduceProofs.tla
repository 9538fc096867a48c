-------------------------- MODULE MapReduceProofs --------------------------
(***************************************************************************)
(* Theorems about MapReduce, for every number of map and reduce tasks and  *)
(* every finite set of workers: control, locks and the barrier between the *)
(* phases (PhaseInv), and from these what a job computes: the files every  *)
(* reduce task is given, the output files, the end of the job and the      *)
(* refinement of MRJob.                                                    *)
(***************************************************************************)
EXTENDS MapReduce, FiniteSetTheorems, TLAPS

-----------------------------------------------------------------------------
(***************************************************************************)
(* Control: how the program counters of a worker and of its RPC goroutine  *)
(* fit together, and what the reply struct holds at each of them.          *)
(***************************************************************************)

Executing == {"create", "encode", "read", "rename", "report", "reporting"}
Idle      == {"ask", "create", "encode", "read", "rename", "report"}

MapReply(w)    == work[w].TaskType = 1 /\ work[w].TaskId \in Maps
ReduceReply(w) == work[w].TaskType = 2 /\ work[w].TaskId \in Reduces
ValidTask(w)   == MapReply(w) \/ ReduceReply(w)

CallControl(w) ==
    /\ wpc[w] \in Idle => hpc[w] = "none"
    /\ wpc[w] = "asking" => hpc[w] \in {"askId", "askPhase", "scan", "replied"}
    /\ wpc[w] = "reporting" => hpc[w] \in {"lock", "count", "append", "replied"}

ReplyControl(w) ==
    /\ hpc[w] \in {"askId", "askPhase", "scan"}
          => work[w].TaskType = 0 /\ work[w].Files = <<>>
    /\ hpc[w] \in {"askPhase", "scan"} => work[w].TaskId = -1
    /\ wpc[w] = "asking" /\ hpc[w] = "replied"
          => work[w].TaskId = -1 \/ ValidTask(w)

TaskControl(w) ==
    /\ hpc[w] \in {"lock", "count", "append"} => id[w] \in Nat /\ ValidTask(w)
    /\ wpc[w] \in Executing => id[w] \in Nat /\ ValidTask(w)
    /\ hpc[w] = "append" => MapReply(w) /\ hi[w] >= NMap
    /\ wpc[w] \in {"create", "encode"} => MapReply(w) /\ wi[w] \in Reduces
    /\ wpc[w] = "read" => ReduceReply(w) /\ wi[w] < Len(work[w].Files)
    /\ wpc[w] = "rename" => ReduceReply(w)
    /\ wpc[w] \notin {"create", "encode", "read", "fatal"} => wi[w] = 0

WorkerControl(w) == CallControl(w) /\ ReplyControl(w) /\ TaskControl(w)

Control == \A w \in Workers : WorkerControl(w)

-----------------------------------------------------------------------------
(***************************************************************************)
(* The barrier between the phases.                                         *)
(***************************************************************************)

\* Every map task is done, counted, and has its files appended.
AllMapped ==
    /\ \A m \in Maps : done[m]
    /\ \A w \in Workers : hpc[w] \in {"count", "append"} => work[w].TaskType = 2

\* Whoever holds the taskLock of a task across steps has marked it done, and
\* holds it alone.
LocksExclusive ==
    /\ \A w \in Workers : hpc[w] \in {"count", "append"} => done[ActualTaskId(w)]
    /\ \A v, w \in Workers :
          /\ hpc[v] \in {"count", "append"}
          /\ hpc[w] \in {"count", "append"}
          /\ ActualTaskId(v) = ActualTaskId(w)
          => v = w

\* The reduce phase is entered, and anything of it is visible, only once
\* every map task is finished.
Barrier ==
    /\ \A w \in Workers : hpc[w] = "scan" /\ hi[w] >= NMap => AllMapped
    /\ \A w \in Workers : work[w].TaskType = 2 => AllMapped
    /\ \A r \in Reduces : done[NMap + r] => AllMapped

PhaseInv == TypeOK /\ Control /\ LocksExclusive /\ Barrier /\ WorkDoneExact
-----------------------------------------------------------------------------
(***************************************************************************)
(* Type correctness.                                                       *)
(***************************************************************************)

LEMMA TypeInit == Init => TypeOK /\ Control
<1> SUFFICES ASSUME Init PROVE TypeOK /\ Control
  OBVIOUS
<1>1. TypeOK
  BY ConstantsAssumption DEF Init, TypeOK, Tasks, Reduces, Maps, HandlerPc,
     WorkerPc, Reply, EmptyReply, NoFile, Stopped
<1>2. Control
  BY DEF Init, Control, WorkerControl, CallControl, ReplyControl,
     TaskControl, Executing, Idle, EmptyReply
<1> QED BY <1>1, <1>2

LEMMA NoTaskType == \A k \in Nat : NoTask(k) \in Reply
  BY ConstantsAssumption DEF NoTask, Reply

LEMMA EmptyReplyType == EmptyReply \in Reply
  BY ConstantsAssumption DEF EmptyReply, Reply

\* The reply for a task has the task's type and its number within the type.
LEMMA TaskReplyType ==
  ASSUME TypeOK, NEW w \in Workers, NEW i \in Tasks
  PROVE  /\ TaskReply(w, i) \in Reply
         /\ TaskReply(w, i).TaskId # -1
         /\ i < NMap => /\ i \in Maps
                        /\ TaskReply(w, i).TaskType = 1
                        /\ TaskReply(w, i).TaskId = i
         /\ i >= NMap => /\ i - NMap \in Reduces
                         /\ TaskReply(w, i).TaskType = 2
                         /\ TaskReply(w, i).TaskId = i - NMap
                         /\ TaskReply(w, i).Files = files[i - NMap]
<1> USE ConstantsAssumption DEF Tasks, Maps, Reduces
<1>1. CASE i < NMap
  BY <1>1 DEF TaskReply, Reply, TypeOK
<1>2. CASE i >= NMap
  <2>1. i - NMap \in Reduces /\ i - NMap \in -1 .. (NMap + NReduce - 1)
    BY <1>2
  <2>2. files[i - NMap] \in Seq(Nat \X Maps \X Reduces) /\ work[w].Id \in Nat
    BY <2>1 DEF TypeOK, Reply
  <2> HIDE DEF Maps, Reduces
  <2> QED BY <1>2, <2>1, <2>2 DEF TaskReply, Reply
<1> QED BY <1>1, <1>2

\* What WorkerControl(v) says depends on v's own entries only.
LEMMA ControlFrame ==
  ASSUME NEW v \in Workers, WorkerControl(v),
         wpc'[v] = wpc[v], hpc'[v] = hpc[v], hi'[v] = hi[v], id'[v] = id[v],
         work'[v] = work[v], wi'[v] = wi[v]
  PROVE  WorkerControl(v)'
  BY DEF WorkerControl, CallControl, ReplyControl, TaskControl, MapReply,
     ReduceReply, ValidTask

LEMMA TypeNext == TypeOK /\ Control /\ [Next]_vars => TypeOK' /\ Control'
<1> SUFFICES ASSUME TypeOK, Control, [Next]_vars PROVE TypeOK' /\ Control'
  OBVIOUS
<1> USE DEF coordVars, mainVars, workerVars, fileVars
<1>0. 0 \in Tasks /\ NMap \in Tasks /\ 0 \in Reduces
  BY ConstantsAssumption DEF Tasks, Reduces
<1>1. ASSUME NEW w \in Workers, AskTaskId(w) PROVE TypeOK' /\ Control'
  <2>1. id[w] = -1 \/ id[w] \in Nat
    BY DEF TypeOK
  <2>2. PICK k \in Nat : work' = [work EXCEPT ![w] = NoTask(k)] /\ workers' \in Nat
    <3>1. CASE id[w] = -1
      BY <1>1, <3>1 DEF AskTaskId, TypeOK
    <3>2. CASE id[w] # -1
      BY <1>1, <2>1, <3>2 DEF AskTaskId, TypeOK
    <3> QED BY <3>1, <3>2
  <2>7. TypeOK'
    BY <1>1, <2>2, NoTaskType DEF AskTaskId, TypeOK, HandlerPc
  <2>8. WorkerControl(w)'
    BY <1>1, <2>2 DEF AskTaskId, NoTask, Serving, TypeOK, Control, WorkerControl, CallControl,
       ReplyControl, TaskControl, MapReply, ReduceReply, ValidTask, Executing,
       Idle
  <2>9. ASSUME NEW v \in Workers, v # w PROVE WorkerControl(v)'
    BY <1>1, <2>9, ControlFrame, <2>2 DEF AskTaskId, TypeOK, Control
  <2> QED BY <2>7, <2>8, <2>9 DEF Control
<1>2. ASSUME NEW w \in Workers, AskTaskPhase(w) PROVE TypeOK' /\ Control'
  <2>7. TypeOK'
    BY <1>2, <1>0 DEF AskTaskPhase, TypeOK, HandlerPc, PhaseStart
  <2>8. WorkerControl(w)'
    BY <1>2 DEF AskTaskPhase, Serving, TypeOK, Control, WorkerControl, CallControl,
       ReplyControl, TaskControl, MapReply, ReduceReply, ValidTask, Executing,
       Idle
  <2>9. ASSUME NEW v \in Workers, v # w PROVE WorkerControl(v)'
    BY <1>2, <2>9, ControlFrame DEF AskTaskPhase, TypeOK, Control
  <2> QED BY <2>7, <2>8, <2>9 DEF Control
<1>3. ASSUME NEW w \in Workers, AskTaskScan(w) PROVE TypeOK' /\ Control'
  <2>0. hi[w] \in Tasks
    BY DEF TypeOK
  <2>1. hi[w] \in Tasks /\ (~LastOfPhase(hi[w]) => hi[w] + 1 \in Tasks)
    BY <2>0, ConstantsAssumption DEF Tasks, LastOfPhase
  <2>2. TaskReply(w, hi[w]) \in Reply
    BY <2>1, TaskReplyType
  <2>3. \/ /\ work' = [work EXCEPT ![w] = TaskReply(w, hi[w])]
           /\ hpc' = [hpc EXCEPT ![w] = "replied"]
        \/ /\ work' = work
           /\ hpc' = [hpc EXCEPT ![w] = "replied"] \/ hpc' = hpc
    BY <1>3 DEF AskTaskScan
  <2>4. \/ work'[w] = TaskReply(w, hi[w]) /\ hpc'[w] = "replied"
        \/ work'[w] = work[w] /\ hpc'[w] \in {"scan", "replied"}
    BY <1>3, <2>3 DEF TypeOK, AskTaskScan, Serving
  <2>5. \/ TaskReply(w, hi[w]).TaskType = 1 /\ TaskReply(w, hi[w]).TaskId \in Maps
        \/ TaskReply(w, hi[w]).TaskType = 2 /\ TaskReply(w, hi[w]).TaskId \in Reduces
    <3>1. CASE hi[w] < NMap
      BY <2>1, <3>1, TaskReplyType
    <3>2. CASE hi[w] >= NMap
      BY <2>1, <3>2, TaskReplyType
    <3> QED BY <2>1, <3>1, <3>2, ConstantsAssumption DEF Tasks
  <2>7. TypeOK'
    <3>1. issued' \in [Tasks -> BOOLEAN] /\ expired' \in [Tasks -> BOOLEAN]
      BY <1>3 DEF AskTaskScan, TypeOK
    <3>2. hpc' \in [Workers -> HandlerPc] /\ work' \in [Workers -> Reply]
      BY <2>2, <2>3 DEF TypeOK, HandlerPc
    <3>3. hi' \in [Workers -> Tasks]
      BY <1>0, <1>3, <2>1 DEF AskTaskScan, TypeOK
    <3> QED BY <1>3, <3>1, <3>2, <3>3 DEF AskTaskScan, TypeOK
  <2>8. WorkerControl(w)'
    BY <1>3, <2>4, <2>5 DEF AskTaskScan, Serving, TypeOK, Control, WorkerControl, CallControl,
       ReplyControl, TaskControl, MapReply, ReduceReply, ValidTask, Executing,
       Idle
  <2>9. ASSUME NEW v \in Workers, v # w PROVE WorkerControl(v)'
    BY <1>3, <2>9, ControlFrame DEF AskTaskScan, TypeOK, Control
  <2> QED BY <2>7, <2>8, <2>9 DEF Control
<1>4. ASSUME NEW w \in Workers, TaskDoneLock(w) PROVE TypeOK' /\ Control'
  <2>7. TypeOK'
    BY <1>4 DEF TaskDoneLock, TypeOK, HandlerPc
  <2>8. WorkerControl(w)'
    BY <1>4 DEF TaskDoneLock, Serving, TypeOK, Control, WorkerControl, CallControl,
       ReplyControl, TaskControl, MapReply, ReduceReply, ValidTask, Executing,
       Idle
  <2>9. ASSUME NEW v \in Workers, v # w PROVE WorkerControl(v)'
    BY <1>4, <2>9, ControlFrame DEF TaskDoneLock, TypeOK, Control
  <2> QED BY <2>7, <2>8, <2>9 DEF Control
<1>5. ASSUME NEW w \in Workers, TaskDoneCount(w) PROVE TypeOK' /\ Control'
  <2>7. TypeOK'
    <3>1. hpc' \in [Workers -> HandlerPc]
      BY <1>5 DEF TaskDoneCount, TypeOK, HandlerPc
    <3>2. hi' \in [Workers -> Tasks]
      BY <1>0, <1>5 DEF TaskDoneCount, TypeOK
    <3>3. workDone' \in Nat
      BY <1>5 DEF TaskDoneCount, TypeOK
    <3> QED BY <1>5, <3>1, <3>2, <3>3 DEF TaskDoneCount, TypeOK
  <2>8. WorkerControl(w)'
    BY <1>5, ConstantsAssumption DEF TaskDoneCount, Serving, TypeOK, Control, WorkerControl, CallControl,
       ReplyControl, TaskControl, MapReply, ReduceReply, ValidTask, Executing,
       Idle
  <2>9. ASSUME NEW v \in Workers, v # w PROVE WorkerControl(v)'
    BY <1>5, <2>9, ControlFrame DEF TaskDoneCount, TypeOK, Control
  <2> QED BY <2>7, <2>8, <2>9 DEF Control
<1>6. ASSUME NEW w \in Workers, TaskDoneAppend(w) PROVE TypeOK' /\ Control'
  <2>1. MapReply(w) /\ id[w] \in Nat /\ hi[w] >= NMap /\ hi[w] \in Tasks
    BY <1>6 DEF TaskDoneAppend, Serving, Control, WorkerControl, TaskControl, TypeOK
  <2>2. hi[w] - NMap \in Reduces /\ (hi[w] - NMap # NReduce - 1 => hi[w] + 1 \in Tasks)
    BY <2>1, ConstantsAssumption DEF Tasks, Reduces
  <2>3. TmpName(w, hi[w] - NMap) \in Nat \X Maps \X Reduces
    BY <2>1, <2>2 DEF TmpName, MapReply
  <2>4. files' \in [Reduces -> Seq(Nat \X Maps \X Reduces)]
    BY <1>6, <2>2, <2>3 DEF TaskDoneAppend, TypeOK
  <2>7. TypeOK'
    BY <1>6, <1>0, <2>2, <2>4 DEF TaskDoneAppend, TypeOK, HandlerPc
  <2>8. WorkerControl(w)'
    BY <1>6, <2>1, ConstantsAssumption DEF TaskDoneAppend, Serving, Tasks, TypeOK, Control, WorkerControl, CallControl,
       ReplyControl, TaskControl, MapReply, ReduceReply, ValidTask, Executing,
       Idle
  <2>9. ASSUME NEW v \in Workers, v # w PROVE WorkerControl(v)'
    BY <1>6, <2>9, ControlFrame DEF TaskDoneAppend, TypeOK, Control
  <2> QED BY <2>7, <2>8, <2>9 DEF Control
<1>7. ASSUME NEW w \in Workers, CallAskTask(w) PROVE TypeOK' /\ Control'
  <2>7. TypeOK'
    BY <1>7, EmptyReplyType DEF CallAskTask, TypeOK, HandlerPc, WorkerPc
  <2>8. WorkerControl(w)'
    BY <1>7 DEF CallAskTask, EmptyReply, TypeOK, Control, WorkerControl, CallControl,
       ReplyControl, TaskControl, MapReply, ReduceReply, ValidTask, Executing,
       Idle
  <2>9. ASSUME NEW v \in Workers, v # w PROVE WorkerControl(v)'
    BY <1>7, <2>9, ControlFrame DEF CallAskTask, TypeOK, Control
  <2> QED BY <2>7, <2>8, <2>9 DEF Control
<1>8. ASSUME NEW w \in Workers, AskTaskReturns(w) PROVE TypeOK' /\ Control'
  <2>1. NextStep(work[w]) \in {"ask", "create", "read", "report"}
    BY DEF NextStep
  <2>2. work[w].Id \in Nat /\ work[w].Files \in Seq(Nat \X Maps \X Reduces)
    BY DEF TypeOK, Reply
  <2>3. work[w].Files # <<>> => 0 < Len(work[w].Files)
    BY <2>2
  <2>4. wpc'[w] = NextStep(work[w]) /\ hpc'[w] = "none" /\ work'[w] = work[w]
        /\ id'[w] = work[w].Id /\ wi'[w] = 0
    BY <1>8 DEF AskTaskReturns, TypeOK, Control, WorkerControl, TaskControl
  <2>5. work[w].TaskId = -1 \/ ValidTask(w)
    BY <1>8 DEF AskTaskReturns, Control, WorkerControl, ReplyControl
  <2>7. TypeOK'
    BY <1>8, <2>1, <2>2 DEF AskTaskReturns, TypeOK, HandlerPc, WorkerPc
  <2>8. WorkerControl(w)'
    BY <1>0, <2>2, <2>3, <2>4, <2>5 DEF NextStep, WorkerControl, CallControl,
       ReplyControl, TaskControl, MapReply, ReduceReply, ValidTask, Executing, Idle
  <2>9. ASSUME NEW v \in Workers, v # w PROVE WorkerControl(v)'
    BY <1>8, <2>9, ControlFrame DEF AskTaskReturns, TypeOK, Control
  <2> QED BY <2>7, <2>8, <2>9 DEF Control
<1>9. ASSUME NEW w \in Workers, MapCreate(w) PROVE TypeOK' /\ Control'
  <2>2. wi[w] \in Reduces /\ wi[w] \in Nat /\ MapReply(w) /\ hpc[w] = "none"
        /\ id[w] \in Nat /\ (wi[w] # NReduce - 1 => wi[w] + 1 \in Reduces)
    <3>1. wi[w] \in Reduces /\ MapReply(w) /\ hpc[w] = "none" /\ id[w] \in Nat
      BY <1>9 DEF MapCreate, Control, WorkerControl, CallControl, TaskControl, Executing, Idle
    <3> QED BY <3>1, ConstantsAssumption DEF Reduces
  <2>3. \/ wpc'[w] = "report" /\ wi'[w] = 0
        \/ wpc'[w] = "create" /\ wi'[w] = wi[w] + 1 /\ wi[w] # NReduce - 1
        \/ wpc'[w] = "encode" /\ wi'[w] = wi[w]
    BY <1>9 DEF MapCreate, AfterPartition, TypeOK
  <2>7. TypeOK'
    <3>1. wpc' \in [Workers -> WorkerPc]
      BY <1>9 DEF MapCreate, AfterPartition, TypeOK, WorkerPc
    <3>2. wi' \in [Workers -> Nat]
      <4>1. \/ wi' = wi \/ wi' = [wi EXCEPT ![w] = 0]
            \/ wi' = [wi EXCEPT ![w] = wi[w] + 1]
        BY <1>9 DEF MapCreate, AfterPartition
      <4>2. wi[w] + 1 \in Nat /\ wi \in [Workers -> Nat]
        BY DEF TypeOK
      <4> QED BY <4>1, <4>2
    <3>3. written' \subseteq Nat \X Maps \X Reduces
      BY <1>9 DEF MapCreate, TypeOK
    <3> QED BY <1>9, <3>1, <3>2, <3>3 DEF MapCreate, TypeOK
  <2>8. WorkerControl(w)'
    BY <1>9, <2>2, <2>3 DEF MapCreate, TypeOK, Control, WorkerControl, CallControl,
       ReplyControl, TaskControl, MapReply, ReduceReply, ValidTask, Executing,
       Idle
  <2>9. ASSUME NEW v \in Workers, v # w PROVE WorkerControl(v)'
    BY <1>9, <2>9, ControlFrame DEF MapCreate, TypeOK, Control, AfterPartition
  <2> QED BY <2>7, <2>8, <2>9 DEF Control
<1>10. ASSUME NEW w \in Workers, MapEncode(w) PROVE TypeOK' /\ Control'
  <2>1. TmpName(w, wi[w]) \in Nat \X Maps \X Reduces
    BY <1>10 DEF MapEncode, Control, WorkerControl, TaskControl, MapReply, TmpName,
       Executing
  <2>2. wi[w] \in Reduces /\ wi[w] \in Nat /\ MapReply(w) /\ hpc[w] = "none"
        /\ id[w] \in Nat /\ (wi[w] # NReduce - 1 => wi[w] + 1 \in Reduces)
    <3>1. wi[w] \in Reduces /\ MapReply(w) /\ hpc[w] = "none" /\ id[w] \in Nat
      BY <1>10 DEF MapEncode, Control, WorkerControl, CallControl, TaskControl, Executing, Idle
    <3> QED BY <3>1, ConstantsAssumption DEF Reduces
  <2>3. \/ wpc'[w] = "report" /\ wi'[w] = 0
        \/ wpc'[w] = "create" /\ wi'[w] = wi[w] + 1 /\ wi[w] # NReduce - 1
        \/ wpc'[w] = "encode" /\ wi'[w] = wi[w]
    BY <1>10 DEF MapEncode, AfterPartition, TypeOK
  <2>7. TypeOK'
    <3>1. wpc' \in [Workers -> WorkerPc]
      BY <1>10 DEF MapEncode, AfterPartition, TypeOK, WorkerPc
    <3>2. wi' \in [Workers -> Nat]
      <4>1. \/ wi' = wi \/ wi' = [wi EXCEPT ![w] = 0]
            \/ wi' = [wi EXCEPT ![w] = wi[w] + 1]
        BY <1>10 DEF MapEncode, AfterPartition
      <4>2. wi[w] + 1 \in Nat /\ wi \in [Workers -> Nat]
        BY DEF TypeOK
      <4> QED BY <4>1, <4>2
    <3>3. written' \subseteq Nat \X Maps \X Reduces
      BY <1>10, <2>1 DEF MapEncode, TypeOK
    <3> QED BY <1>10, <3>1, <3>2, <3>3 DEF MapEncode, TypeOK
  <2>8. WorkerControl(w)'
    BY <1>10, <2>2, <2>3 DEF MapEncode, TypeOK, Control, WorkerControl, CallControl,
       ReplyControl, TaskControl, MapReply, ReduceReply, ValidTask, Executing,
       Idle
  <2>9. ASSUME NEW v \in Workers, v # w PROVE WorkerControl(v)'
    BY <1>10, <2>9, ControlFrame DEF MapEncode, TypeOK, Control, AfterPartition
  <2> QED BY <2>7, <2>8, <2>9 DEF Control
<1>11. ASSUME NEW w \in Workers, ReduceRead(w) PROVE TypeOK' /\ Control'
  <2>1. ReduceReply(w) /\ wi[w] \in Nat /\ wi[w] < Len(work[w].Files)
    BY <1>11 DEF ReduceRead, Control, WorkerControl, TaskControl, TypeOK
  <2>2. work[w].Files \in Seq(Nat \X Maps \X Reduces)
    BY DEF TypeOK, Reply
  <2>3. work[w].Files[wi[w] + 1] \in Nat \X Maps \X Reduces
    BY <2>1, <2>2
  <2>4. LET f == work[w].Files[wi[w] + 1] IN <<f[2], f[3]>> \in Maps \X Reduces
    BY <2>3
  <2>5. content' \in [Workers -> Seq(Maps \X Reduces)]
    <3>1. CASE content' = content
      BY <3>1 DEF TypeOK
    <3>2. CASE content' # content
      <4> DEFINE f == work[w].Files[wi[w] + 1]
      <4>1. content' = [content EXCEPT ![w] = Append(content[w], <<f[2], f[3]>>)]
        BY <1>11, <3>2 DEF ReduceRead
      <4>2. content[w] \in Seq(Maps \X Reduces)
        BY DEF TypeOK
      <4>3. Append(content[w], <<f[2], f[3]>>) \in Seq(Maps \X Reduces)
        BY <2>4, <4>2
      <4> QED BY <4>1, <4>3 DEF TypeOK
    <3> QED BY <3>1, <3>2
  <2>6. \/ wpc'[w] = "rename" /\ wi'[w] = 0
        \/ wpc'[w] = "read" /\ wi'[w] = wi[w] + 1 /\ wi[w] + 1 # Len(work[w].Files)
        \/ wpc'[w] = "fatal"
    BY <1>11 DEF ReduceRead, TypeOK
  <2>7. TypeOK'
    <3>1. wpc' \in [Workers -> WorkerPc]
      BY <1>11 DEF ReduceRead, TypeOK, WorkerPc, Stopped
    <3>2. wi' \in [Workers -> Nat]
      <4>1. \/ wi' = wi \/ wi' = [wi EXCEPT ![w] = 0]
            \/ wi' = [wi EXCEPT ![w] = wi[w] + 1]
        BY <1>11 DEF ReduceRead
      <4> QED BY <2>1, <4>1 DEF TypeOK
    <3> QED BY <1>11, <2>5, <3>1, <3>2 DEF ReduceRead, TypeOK
  <2>8. WorkerControl(w)'
    <3>1. hpc'[w] = "none" /\ work'[w] = work[w] /\ id'[w] = id[w] /\ id[w] \in Nat
      BY <1>11 DEF ReduceRead, Control, WorkerControl, CallControl, TaskControl,
         Executing, Idle
    <3>2. wi[w] + 1 < Len(work[w].Files) \/ wi[w] + 1 = Len(work[w].Files)
      BY <2>1, <2>2
    <3> QED BY <2>1, <2>6, <3>1, <3>2 DEF WorkerControl, CallControl,
       ReplyControl, TaskControl, MapReply, ReduceReply, ValidTask, Executing, Idle
  <2>9. ASSUME NEW v \in Workers, v # w PROVE WorkerControl(v)'
    BY <1>11, <2>9, ControlFrame DEF ReduceRead, TypeOK, Control
  <2> QED BY <2>7, <2>8, <2>9 DEF Control
<1>12. ASSUME NEW w \in Workers, ReduceRename(w) PROVE TypeOK' /\ Control'
  <2>7. TypeOK'
    <3>1. wpc' \in [Workers -> WorkerPc]
      BY <1>12 DEF ReduceRename, TypeOK, WorkerPc
    <3>2. content[w] \in Seq(Maps \X Reduces) /\ <<>> \in Seq(Maps \X Reduces)
      BY DEF TypeOK
    <3>3. out' \in [Reduces -> Seq(Maps \X Reduces)]
      BY <1>12, <3>2 DEF ReduceRename, TypeOK
    <3>4. content' \in [Workers -> Seq(Maps \X Reduces)]
      BY <1>12, <3>2 DEF ReduceRename, TypeOK
    <3> QED BY <1>12, <3>1, <3>3, <3>4 DEF ReduceRename, TypeOK
  <2>8. WorkerControl(w)'
    BY <1>12 DEF ReduceRename, TypeOK, Control, WorkerControl, CallControl,
       ReplyControl, TaskControl, MapReply, ReduceReply, ValidTask, Executing,
       Idle
  <2>9. ASSUME NEW v \in Workers, v # w PROVE WorkerControl(v)'
    BY <1>12, <2>9, ControlFrame DEF ReduceRename, TypeOK, Control
  <2> QED BY <2>7, <2>8, <2>9 DEF Control
<1>13. ASSUME NEW w \in Workers, CallTaskDone(w) PROVE TypeOK' /\ Control'
  <2>7. TypeOK'
    BY <1>13 DEF CallTaskDone, TypeOK, HandlerPc, WorkerPc
  <2>8. WorkerControl(w)'
    BY <1>13 DEF CallTaskDone, TypeOK, Control, WorkerControl, CallControl,
       ReplyControl, TaskControl, MapReply, ReduceReply, ValidTask, Executing,
       Idle
  <2>9. ASSUME NEW v \in Workers, v # w PROVE WorkerControl(v)'
    BY <1>13, <2>9, ControlFrame DEF CallTaskDone, TypeOK, Control
  <2> QED BY <2>7, <2>8, <2>9 DEF Control
<1>14. ASSUME NEW w \in Workers, TaskDoneReturns(w) PROVE TypeOK' /\ Control'
  <2>7. TypeOK'
    BY <1>14 DEF TaskDoneReturns, TypeOK, HandlerPc, WorkerPc
  <2>8. WorkerControl(w)'
    BY <1>14 DEF TaskDoneReturns, TypeOK, Control, WorkerControl, CallControl,
       ReplyControl, TaskControl, MapReply, ReduceReply, ValidTask, Executing,
       Idle
  <2>9. ASSUME NEW v \in Workers, v # w PROVE WorkerControl(v)'
    BY <1>14, <2>9, ControlFrame DEF TaskDoneReturns, TypeOK, Control
  <2> QED BY <2>7, <2>8, <2>9 DEF Control
<1>15. ASSUME NEW w \in Workers, CallFails(w) PROVE TypeOK' /\ Control'
  <2>7. TypeOK'
    BY <1>15 DEF CallFails, TypeOK, WorkerPc, Stopped
  <2>8. WorkerControl(w)'
    BY <1>15 DEF CallFails, Calling, TypeOK, Control, WorkerControl, CallControl,
       ReplyControl, TaskControl, MapReply, ReduceReply, ValidTask, Executing,
       Idle
  <2>9. ASSUME NEW v \in Workers, v # w PROVE WorkerControl(v)'
    BY <1>15, <2>9, ControlFrame DEF CallFails, TypeOK, Control
  <2> QED BY <2>7, <2>8, <2>9 DEF Control
<1>16. ASSUME NEW w \in Workers, Crash(w) PROVE TypeOK' /\ Control'
  <2>7. TypeOK'
    <3>1. wpc' \in [Workers -> WorkerPc] /\ wi' \in [Workers -> Nat]
      BY <1>16 DEF Crash, TypeOK, WorkerPc, Stopped
    <3>2. content' \in [Workers -> Seq(Maps \X Reduces)]
      <4>1. <<>> \in Seq(Maps \X Reduces)
        OBVIOUS
      <4> QED BY <1>16, <4>1 DEF Crash, TypeOK
    <3>3. id' \in [Workers -> Nat \cup {-1}]
      BY <1>16 DEF Crash, TypeOK
    <3>4. work' \in [Workers -> Reply]
      BY <1>16, EmptyReplyType DEF Crash, TypeOK
    <3> QED BY <1>16, <3>1, <3>2, <3>3, <3>4 DEF Crash, TypeOK
  <2>8. WorkerControl(w)'
    BY <1>16 DEF Crash, EmptyReply, Stopped, TypeOK, Control, WorkerControl, CallControl,
       ReplyControl, TaskControl, MapReply, ReduceReply, ValidTask, Executing,
       Idle
  <2>9. ASSUME NEW v \in Workers, v # w PROVE WorkerControl(v)'
    BY <1>16, <2>9, ControlFrame DEF Crash, TypeOK, Control
  <2> QED BY <2>7, <2>8, <2>9 DEF Control
<1>17. ASSUME NEW i \in Tasks, Expire(i) PROVE TypeOK' /\ Control'
  <2>1. TypeOK'
    BY <1>17 DEF Expire, TypeOK
  <2>2. ASSUME NEW v \in Workers PROVE WorkerControl(v)'
    BY <1>17, ControlFrame DEF Expire, Control
  <2> QED BY <2>1, <2>2 DEF Control
<1>18. ASSUME Main PROVE TypeOK' /\ Control'
  <2>1. mi \in Tasks /\ (~LastTask(mi) => mi + 1 \in Tasks)
    BY ConstantsAssumption DEF TypeOK, Tasks, LastTask
  <2>2. TypeOK'
    BY <1>0, <1>18, <2>1 DEF Main, Done, CoordinatorExit, TypeOK
  <2>3. ASSUME NEW v \in Workers PROVE WorkerControl(v)'
    BY <1>18, ControlFrame DEF Main, Done, CoordinatorExit, Control
  <2> QED BY <2>2, <2>3 DEF Control
<1>19. ASSUME UNCHANGED vars PROVE TypeOK' /\ Control'
  <2>1. TypeOK'
    BY <1>19 DEF vars, TypeOK
  <2>2. ASSUME NEW v \in Workers PROVE WorkerControl(v)'
    BY <1>19, ControlFrame DEF vars, Control
  <2> QED BY <2>1, <2>2 DEF Control
<1> QED
  BY <1>1, <1>2, <1>3, <1>4, <1>5, <1>6, <1>7, <1>8, <1>9, <1>10,
     <1>11, <1>12, <1>13, <1>14, <1>15, <1>16, <1>17, <1>18, <1>19
     DEF Next, Handler, Worker, Terminated

\* Every variable keeps the type its Go declaration gives it, no index leaves
\* its slice, and a worker and its RPC goroutine agree on what they are doing.
THEOREM TypeCorrect == Spec => []TypeOK
<1>1. Init => TypeOK /\ Control
  BY TypeInit
<1>2. TypeOK /\ Control /\ [Next]_vars => (TypeOK /\ Control)'
  BY TypeNext
<1> QED BY <1>1, <1>2, PTL DEF Spec
-----------------------------------------------------------------------------
(***************************************************************************)
(* The phase barrier.                                                      *)
(***************************************************************************)

LEMMA CountedFinite == IsFiniteSet(Counted) /\ Counted \subseteq Tasks
<1>1. IsFiniteSet(Tasks)
  BY ConstantsAssumption, FS_Interval DEF Tasks
<1>2. Counted \subseteq Tasks
  BY DEF Counted
<1> QED BY <1>1, <1>2, FS_Subset

LEMMA ActualTaskIdType ==
  ASSUME NEW w \in Workers, ValidTask(w)
  PROVE  /\ ActualTaskId(w) \in Tasks
         /\ work[w].TaskType = 1 => ActualTaskId(w) \in Maps
         /\ work[w].TaskType = 2 => /\ ActualTaskId(w) \notin Maps
                                    /\ ActualTaskId(w) = NMap + work[w].TaskId
  BY ConstantsAssumption DEF ValidTask, MapReply, ReduceReply, ActualTaskId,
     Tasks, Maps, Reduces

\* AskTask enters the reduce phase only when every map task is finished:
\* before that no reduce task is done, so NMap counted tasks are the map tasks.
LEMMA PhaseBarrier ==
  ASSUME PhaseInv, WorkLockFree, workDone >= NMap
  PROVE  AllMapped
<1> SUFFICES ASSUME ~AllMapped PROVE FALSE
  OBVIOUS
<1>1. \A r \in Reduces : ~done[NMap + r]
  BY DEF PhaseInv, Barrier
<1>2. Counted \subseteq Maps
  <2> SUFFICES ASSUME NEW i \in Counted, i \notin Maps PROVE FALSE
    OBVIOUS
  <2>1. i \in Tasks /\ done[i]
    BY DEF Counted
  <2>2. i - NMap \in Reduces /\ i = NMap + (i - NMap)
    BY <2>1, ConstantsAssumption DEF Tasks, Maps, Reduces
  <2> QED BY <1>1, <2>1, <2>2
<1>3. IsFiniteSet(Maps) /\ Cardinality(Maps) = NMap
  BY ConstantsAssumption, FS_Interval DEF Maps
<1>4. Cardinality(Counted) = workDone /\ workDone \in Nat
  BY DEF PhaseInv, WorkDoneExact, TypeOK
<1>5. Counted = Maps
  <2>1. Cardinality(Counted) <= Cardinality(Maps)
    BY <1>2, <1>3, FS_Subset
  <2>2. Cardinality(Counted) = Cardinality(Maps)
    BY <1>3, <1>4, <2>1, ConstantsAssumption
  <2> QED BY <1>2, <1>3, <2>2, FS_Subset
<1>6. ASSUME NEW w \in Workers, hpc[w] \in {"count", "append"}
      PROVE  work[w].TaskType = 2
  <2>1. hpc[w] = "count"
    BY <1>6 DEF WorkLockFree
  <2>2. ValidTask(w)
    BY <2>1 DEF PhaseInv, Control, WorkerControl, TaskControl
  <2>3. ActualTaskId(w) \notin Counted
    BY <2>1 DEF Counted
  <2> QED BY <1>5, <2>2, <2>3, ActualTaskIdType DEF ValidTask, MapReply, ReduceReply
<1>7. \A m \in Maps : done[m]
  BY <1>5 DEF Counted
<1> QED BY <1>6, <1>7 DEF AllMapped

Locked(w) == hpc[w] \in {"count", "append"}

\* A step that marks nothing done, counts nothing and gives nobody a lock.
LEMMA PhaseFrame ==
  ASSUME PhaseInv, done' = done, workDone' = workDone,
         \A v \in Workers : Locked(v)' => hpc'[v] = hpc[v] /\ work'[v] = work[v],
         \A v \in Workers : hpc[v] = "count" => hpc'[v] = "count",
         \A v \in Workers : hpc'[v] = "scan" /\ hi'[v] >= NMap
                               => (hpc[v] = "scan" /\ hi[v] >= NMap) \/ AllMapped,
         \A v \in Workers : work'[v].TaskType = 2 => work[v].TaskType = 2 \/ AllMapped
  PROVE  LocksExclusive' /\ Barrier' /\ WorkDoneExact'
<1>1. \A v \in Workers : Locked(v)' => ActualTaskId(v)' = ActualTaskId(v) /\ Locked(v)
  BY DEF ActualTaskId, Locked
<1>2. LocksExclusive'
  BY <1>1 DEF PhaseInv, LocksExclusive, Locked
<1>3. AllMapped => AllMapped'
  BY DEF AllMapped, Locked
<1>4. Barrier'
  BY <1>3 DEF PhaseInv, Barrier
<1>5. Counted' = Counted
  <2>1. \A v \in Workers : hpc'[v] = "count" <=> hpc[v] = "count"
    BY DEF Locked
  <2>2. \A v \in Workers : hpc[v] = "count" => ActualTaskId(v)' = ActualTaskId(v)
    BY <1>1, <2>1 DEF Locked
  <2> QED BY <2>1, <2>2 DEF Counted
<1>6. WorkDoneExact'
  BY <1>5 DEF PhaseInv, WorkDoneExact
<1> QED BY <1>2, <1>4, <1>6

LEMMA PhaseTaskDoneLock ==
  ASSUME PhaseInv, NEW w \in Workers, TaskDoneLock(w)
  PROVE  LocksExclusive' /\ Barrier' /\ WorkDoneExact'
<1> DEFINE i == ActualTaskId(w)
<1>0. hpc[w] = "lock" /\ ValidTask(w) /\ TaskLockFree(i) /\ i \in Tasks
  BY ActualTaskIdType DEF TaskDoneLock, Serving, PhaseInv, Control,
     WorkerControl, TaskControl
<1>1. CASE done[i]
  <2>1. done' = done /\ workDone' = workDone /\ hi' = hi /\ work' = work
    BY <1>1 DEF TaskDoneLock, FirstReport, workerVars
  <2>2. hpc' = [hpc EXCEPT ![w] = "replied"]
    BY <1>1 DEF TaskDoneLock, FirstReport
  <2> QED BY <1>0, <2>1, <2>2, PhaseFrame DEF PhaseInv, TypeOK, Locked
<1>2. CASE ~done[i]
  <2>1. /\ done' = [done EXCEPT ![i] = TRUE]
        /\ hpc' = [hpc EXCEPT ![w] = "count"]
        /\ workDone' = workDone /\ hi' = hi /\ work' = work
    BY <1>2 DEF TaskDoneLock, FirstReport, workerVars
  <2>2. \A v \in Workers : ActualTaskId(v)' = ActualTaskId(v)
    BY <2>1 DEF ActualTaskId
  <2>3. \A v \in Workers : Locked(v)' <=> (v = w \/ Locked(v))
    BY <2>1 DEF Locked, PhaseInv, TypeOK
  <2>4. \A v \in Workers : Locked(v) => ActualTaskId(v) # i
    BY <1>0 DEF TaskLockFree, Locked
  <2>5. \A j : done[j] => done'[j]
    BY <1>0, <2>1 DEF PhaseInv, TypeOK
  <2>6. LocksExclusive'
    <3>1. \A v \in Workers : Locked(v) => done[ActualTaskId(v)]
      BY DEF PhaseInv, LocksExclusive, Locked
    <3>2. \A u, v \in Workers :
             Locked(u) /\ Locked(v) /\ ActualTaskId(u) = ActualTaskId(v) => u = v
      BY DEF PhaseInv, LocksExclusive, Locked
    <3>3. \A v \in Workers : Locked(v)' => done'[ActualTaskId(v)]
      BY <1>0, <2>1, <2>3, <2>5, <3>1 DEF PhaseInv, TypeOK
    <3>4. \A u, v \in Workers :
             Locked(u)' /\ Locked(v)' /\ ActualTaskId(u) = ActualTaskId(v) => u = v
      BY <2>3, <2>4, <3>2
    <3> QED BY <2>2, <3>3, <3>4 DEF LocksExclusive, Locked
  <2>7. AllMapped => AllMapped'
    <3> SUFFICES ASSUME AllMapped PROVE AllMapped'
      OBVIOUS
    <3>1. work[w].TaskType = 2
      BY <1>0, <1>2, ActualTaskIdType DEF AllMapped, ValidTask, MapReply, ReduceReply
    <3> QED BY <2>1, <2>3, <2>5, <3>1 DEF AllMapped, Locked
  <2>8. Barrier'
    <3>1. ASSUME NEW r \in Reduces, done'[NMap + r] PROVE AllMapped
      <4>1. CASE done[NMap + r]
        BY <4>1 DEF PhaseInv, Barrier
      <4>2. CASE ~done[NMap + r]
        <5>1. i = NMap + r
          BY <1>0, <2>1, <3>1, <4>2 DEF PhaseInv, TypeOK
        <5>2. work[w].TaskType = 2
          BY <1>0, <5>1, ConstantsAssumption DEF ValidTask, MapReply,
             ReduceReply, ActualTaskId, Maps, Reduces
        <5> QED BY <5>2 DEF PhaseInv, Barrier
      <4> QED BY <4>1, <4>2
    <3>2. \A v \in Workers : hpc'[v] = "scan" => hpc[v] = "scan"
      BY <2>1 DEF PhaseInv, TypeOK
    <3> QED BY <2>1, <2>7, <3>1, <3>2 DEF PhaseInv, Barrier
  <2>9. Counted' = Counted
    <3>1. \A v \in Workers : hpc'[v] = "count" <=> (v = w \/ hpc[v] = "count")
      BY <2>1 DEF PhaseInv, TypeOK
    <3>2. \A j \in Tasks : j # i => (done'[j] <=> done[j])
      BY <2>1 DEF PhaseInv, TypeOK
    <3> QED BY <1>2, <2>2, <3>1, <3>2 DEF Counted
  <2> QED BY <2>1, <2>6, <2>8, <2>9 DEF PhaseInv, WorkDoneExact
<1> QED BY <1>1, <1>2

LEMMA PhaseTaskDoneCount ==
  ASSUME PhaseInv, NEW w \in Workers, TaskDoneCount(w)
  PROVE  LocksExclusive' /\ Barrier' /\ WorkDoneExact'
<1> DEFINE i == ActualTaskId(w)
<1>1. hpc[w] = "count" /\ ValidTask(w) /\ i \in Tasks /\ done[i]
  BY ActualTaskIdType DEF TaskDoneCount, Serving, PhaseInv, Control,
     WorkerControl, TaskControl, LocksExclusive
<1>2. /\ done' = done /\ work' = work /\ workDone' = workDone + 1
      /\ \/ hpc' = [hpc EXCEPT ![w] = "append"] /\ work[w].TaskType = 1
         \/ hpc' = [hpc EXCEPT ![w] = "replied"] /\ work[w].TaskType # 1
  BY DEF TaskDoneCount, workerVars
<1>3. \A v \in Workers : ActualTaskId(v)' = ActualTaskId(v)
  BY <1>2 DEF ActualTaskId
<1>4. \A v \in Workers : Locked(v)' => Locked(v)
  BY <1>1, <1>2 DEF Locked, PhaseInv, TypeOK
<1>5. LocksExclusive'
  BY <1>2, <1>3, <1>4 DEF PhaseInv, LocksExclusive, Locked
<1>6. AllMapped => AllMapped'
  BY <1>2, <1>4 DEF AllMapped, Locked
<1>7. Barrier'
  <2>1. \A v \in Workers : hpc'[v] = "scan" => hpc[v] = "scan" /\ v # w
    BY <1>1, <1>2 DEF PhaseInv, TypeOK
  <2>2. \A v \in Workers : v # w => hi'[v] = hi[v]
    BY DEF TaskDoneCount, PhaseInv, TypeOK
  <2> QED BY <1>2, <1>6, <2>1, <2>2 DEF PhaseInv, Barrier
<1>8. Counted' = Counted \cup {i} /\ i \notin Counted
  <2>1. \A v \in Workers : hpc'[v] = "count" <=> (v # w /\ hpc[v] = "count")
    BY <1>1, <1>2 DEF PhaseInv, TypeOK
  <2>2. \A v \in Workers : hpc[v] = "count" /\ ActualTaskId(v) = i => v = w
    BY <1>1 DEF PhaseInv, LocksExclusive
  <2> QED BY <1>1, <1>2, <1>3, <2>1, <2>2 DEF Counted
<1>9. WorkDoneExact'
  <2>1. Cardinality(Counted \cup {i}) = Cardinality(Counted) + 1
    BY <1>8, CountedFinite, FS_AddElement
  <2> QED BY <1>2, <1>8, <2>1 DEF PhaseInv, WorkDoneExact
<1> QED BY <1>5, <1>7, <1>9

LEMMA PhaseNext == PhaseInv /\ [Next]_vars => PhaseInv'
<1> SUFFICES ASSUME PhaseInv, [Next]_vars
             PROVE  LocksExclusive' /\ Barrier' /\ WorkDoneExact'
  BY TypeNext DEF PhaseInv
<1> USE DEF coordVars, mainVars, workerVars, fileVars
<1>0. TypeOK /\ Control /\ NMap \in Nat \ {0}
  BY ConstantsAssumption DEF PhaseInv
<1>1. ASSUME NEW w \in Workers, AskTaskPhase(w)
      PROVE  LocksExclusive' /\ Barrier' /\ WorkDoneExact'
  <2>1. PhaseStart >= NMap => AllMapped
    BY <1>0, <1>1, PhaseBarrier DEF AskTaskPhase, PhaseStart, TypeOK
  <2> QED BY <1>0, <1>1, <2>1, PhaseFrame DEF AskTaskPhase, Serving, TypeOK, Locked
<1>2. ASSUME NEW w \in Workers, AskTaskScan(w)
      PROVE  LocksExclusive' /\ Barrier' /\ WorkDoneExact'
  <2>1. hpc[w] = "scan" /\ hi[w] \in Tasks /\ hi[w] \in Int
    BY <1>0, <1>2, ConstantsAssumption DEF AskTaskScan, Serving, TypeOK, Tasks
  <2>2. \A v \in Workers : v # w => hpc'[v] = hpc[v] /\ work'[v] = work[v] /\ hi'[v] = hi[v]
    BY <1>0, <1>2 DEF AskTaskScan, TypeOK
  <2>3. hpc'[w] \in {"scan", "replied"}
    BY <1>0, <1>2, <2>1 DEF AskTaskScan, TypeOK
  <2>4. hpc'[w] = "scan" => hi'[w] = hi[w] + 1 /\ ~LastOfPhase(hi[w])
    BY <1>0, <1>2, <2>1 DEF AskTaskScan, TypeOK
  <2>5. work'[w] = work[w] \/ work'[w] = TaskReply(w, hi[w])
    BY <1>0, <1>2 DEF AskTaskScan, TypeOK
  <2>6. hi[w] >= NMap => AllMapped
    BY <2>1 DEF PhaseInv, Barrier
  <2>7. work'[w].TaskType = 2 => work[w].TaskType = 2 \/ AllMapped
    <3>1. hi[w] < NMap => TaskReply(w, hi[w]).TaskType = 1
      BY <1>0, <2>1, TaskReplyType
    <3> QED BY <1>0, <2>1, <2>5, <2>6, <3>1
  <2>8. hpc'[w] = "scan" /\ hi'[w] >= NMap => AllMapped
    BY <1>0, <2>1, <2>4, <2>6 DEF LastOfPhase
  <2>9. done' = done /\ workDone' = workDone
    BY <1>2 DEF AskTaskScan
  <2> QED BY <2>1, <2>2, <2>3, <2>7, <2>8, <2>9, PhaseFrame DEF Locked
<1>3. ASSUME NEW w \in Workers, TaskDoneLock(w) \/ TaskDoneCount(w)
      PROVE  LocksExclusive' /\ Barrier' /\ WorkDoneExact'
  BY <1>3, PhaseTaskDoneLock, PhaseTaskDoneCount
<1>4. ASSUME NEW w \in Workers, TaskDoneAppend(w)
      PROVE  LocksExclusive' /\ Barrier' /\ WorkDoneExact'
  <2>1. /\ done' = done /\ workDone' = workDone /\ work' = work
        /\ hpc' = hpc \/ hpc' = [hpc EXCEPT ![w] = "replied"]
        /\ hpc[w] = "append"
        /\ \A v \in Workers : v # w => hi'[v] = hi[v]
    BY <1>0, <1>4 DEF TaskDoneAppend, Serving, TypeOK
  <2> QED BY <1>0, <2>1, PhaseFrame DEF TypeOK, Locked
<1>5. ASSUME NEW w \in Workers,
             \/ AskTaskId(w) \/ CallAskTask(w) \/ AskTaskReturns(w)
             \/ MapCreate(w) \/ MapEncode(w) \/ ReduceRead(w) \/ ReduceRename(w)
             \/ CallTaskDone(w) \/ TaskDoneReturns(w) \/ CallFails(w) \/ Crash(w)
      PROVE  LocksExclusive' /\ Barrier' /\ WorkDoneExact'
  <2>1. done' = done /\ workDone' = workDone /\ hi' = hi
    BY <1>5 DEF AskTaskId, CallAskTask, AskTaskReturns, MapCreate, MapEncode,
       ReduceRead, ReduceRename, CallTaskDone, TaskDoneReturns, CallFails, Crash
  <2>2. \/ hpc' = hpc
        \/ /\ hpc' \in {[hpc EXCEPT ![w] = pc] : pc \in {"none", "askId", "askPhase", "lock"}}
           /\ hpc[w] \in {"none", "askId", "replied"}
    BY <1>0, <1>5 DEF AskTaskId, CallAskTask, AskTaskReturns, MapCreate, MapEncode,
       ReduceRead, ReduceRename, CallTaskDone, TaskDoneReturns, CallFails, Crash,
       Serving, Control, WorkerControl, CallControl, Idle
  <2>3. \/ work' = work
        \/ /\ \E k : work' = [work EXCEPT ![w] = NoTask(k)]
           /\ hpc[w] = "askId"
        \/ work' = [work EXCEPT ![w] = EmptyReply] /\ hpc[w] = "none"
    BY <1>0, <1>5 DEF AskTaskId, CallAskTask, AskTaskReturns, MapCreate, MapEncode,
       ReduceRead, ReduceRename, CallTaskDone, TaskDoneReturns, CallFails, Crash,
       Serving, Control, WorkerControl, CallControl, Idle
  <2>4. \A v \in Workers : Locked(v)' => (hpc'[v] = hpc[v] /\ v # w) \/ hpc' = hpc
    BY <1>0, <2>2 DEF Locked, TypeOK
  <2>5. \A v \in Workers : Locked(v)' => hpc'[v] = hpc[v] /\ work'[v] = work[v]
    BY <1>0, <2>3, <2>4 DEF Locked, TypeOK
  <2>6. \A v \in Workers : work'[v].TaskType = 2 => work[v].TaskType = 2
    <3>1. work \in [Workers -> Reply]
      BY <1>0 DEF TypeOK
    <3>2. \A k : NoTask(k).TaskType = 0
      BY DEF NoTask
    <3>3. EmptyReply.TaskType = 0
      BY DEF EmptyReply
    <3> QED BY <2>3, <3>1, <3>2, <3>3
  <2>7. \A v \in Workers : /\ hpc[v] = "count" => hpc'[v] = "count"
                           /\ hpc'[v] = "scan" => hpc[v] = "scan"
    BY <1>0, <2>2 DEF TypeOK
  <2> QED BY <2>1, <2>5, <2>6, <2>7, PhaseFrame
<1>6. ASSUME (\E i \in Tasks : Expire(i)) \/ Main \/ UNCHANGED vars
      PROVE  LocksExclusive' /\ Barrier' /\ WorkDoneExact'
  <2>1. /\ done' = done /\ workDone' = workDone /\ hpc' = hpc /\ hi' = hi
        /\ work' = work
    BY <1>6 DEF Expire, Main, Done, CoordinatorExit, vars
  <2> QED BY <2>1, PhaseFrame DEF Locked
<1> QED
  BY <1>1, <1>2, <1>3, <1>4, <1>5, <1>6 DEF Next, Handler, Worker, Terminated

LEMMA PhaseInit == Init => PhaseInv
<1> SUFFICES ASSUME Init PROVE PhaseInv
  OBVIOUS
<1>1. TypeOK /\ Control
  BY TypeInit
<1>2. LocksExclusive
  BY DEF Init, LocksExclusive
<1>3. Barrier
  <2>1. \A r \in Reduces : NMap + r \in Tasks
    BY ConstantsAssumption DEF Tasks, Reduces
  <2> QED BY <2>1 DEF Init, Barrier, EmptyReply
<1>4. WorkDoneExact
  <2>1. Counted = {}
    BY DEF Init, Counted
  <2> QED BY <2>1, FS_EmptySet DEF Init, WorkDoneExact
<1> QED BY <1>1, <1>2, <1>3, <1>4 DEF PhaseInv

LEMMA PhaseInvariant == Spec => []PhaseInv
<1> QED BY PhaseInit, PhaseNext, PTL DEF Spec

\* TaskDone counts each finished task once in workDone, however many reports
\* of it arrive and however they interleave.
THEOREM WorkDoneIsExact == Spec => []WorkDoneExact
<1>1. PhaseInv => WorkDoneExact
  BY DEF PhaseInv
<1> QED BY <1>1, PhaseInvariant, PTL

\* AskTask never reads a reduce task's files while TaskDone appends to them,
\* although the two hold different locks.
THEOREM FilesAreRaceFree == Spec => []FilesRaceFree
<1>1. ASSUME PhaseInv PROVE FilesRaceFree
  <2> SUFFICES ASSUME NEW v \in Workers, hpc[v] = "append",
                      NEW w \in Workers, hpc[w] = "scan", hi[w] >= NMap
               PROVE  FALSE
    BY DEF FilesRaceFree
  <2>1. work[v].TaskType = 1
    BY <1>1 DEF PhaseInv, Control, WorkerControl, TaskControl, MapReply
  <2>2. AllMapped
    BY <1>1 DEF PhaseInv, Barrier
  <2> QED BY <2>1, <2>2 DEF AllMapped
<1> QED BY <1>1, PhaseInvariant, PTL

-----------------------------------------------------------------------------
(***************************************************************************)
(* Worker ids: no two workers ever share one, so the names of the files    *)
(* they write are their own.                                               *)
(***************************************************************************)

AskAnswered == {"askPhase", "scan", "replied"}

\* The worker has an id, or the goroutine that serves it has chosen one.
Named(w) == id[w] # -1 \/ hpc[w] \in AskAnswered
NameOf(w) == IF id[w] # -1 THEN id[w] ELSE work[w].Id

Ids ==
    /\ \A w \in Workers : Named(w) => NameOf(w) < workers
    /\ \A v, w \in Workers : Named(v) /\ Named(w) /\ NameOf(v) = NameOf(w) => v = w
    /\ \A w \in Workers : wpc[w] = "asking" /\ hpc[w] \in AskAnswered => NameOf(w) = work[w].Id

-----------------------------------------------------------------------------
(***************************************************************************)
(* Coordinator.tasks[].files                                               *)
(***************************************************************************)

Listed(m, r) == \E p \in DOMAIN files[r] : files[r][p][2] = m

\* TaskDone has yet to come to partition r of the finished map task m.
Pending(m, r) ==
    \E w \in Workers : /\ hpc[w] = "count" \/ (hpc[w] = "append" /\ hi[w] <= NMap + r)
                       /\ ActualTaskId(w) = m

FilesExact ==
    \A r \in Reduces :
        /\ \A p \in DOMAIN files[r] : files[r][p][3] = r
        /\ \A p, q \in DOMAIN files[r] : files[r][p][2] = files[r][q][2] => p = q
        /\ \A m \in Maps : Listed(m, r) <=> (r \in Emits[m] /\ done[m] /\ ~Pending(m, r))

-----------------------------------------------------------------------------
(***************************************************************************)
(* The intermediate files of a map task in execution.                      *)
(***************************************************************************)

\* The files of w's map task for the partitions below n are encoded.
Encoded(w, n) == \A r \in Emits[work[w].TaskId] : r < n => TmpName(w, r) \in written

\* No reduce task lists a file that w is going to write for its map task.
Unlisted(w) ==
    \A r \in Reduces : \A p \in DOMAIN files[r] :
        ~(files[r][p][1] = NameOf(w) /\ files[r][p][2] = work[w].TaskId)

MapFiles(w) ==
    work[w].TaskType = 1 =>
        /\ wpc[w] \in {"create", "encode"} => Encoded(w, wi[w])
        /\ wpc[w] = "report" \/ hpc[w] \in {"lock", "count", "append"}
              => Encoded(w, NReduce)
        /\ (wpc[w] = "asking" /\ hpc[w] = "replied") \/ wpc[w] \in {"create", "encode", "report"}
              => Unlisted(w)

FilesWritten == \A r \in Reduces : \A p \in DOMAIN files[r] : files[r][p] \in written

WrittenInv == FilesWritten /\ \A w \in Workers : MapFiles(w)

-----------------------------------------------------------------------------
(***************************************************************************)
(* The reduce tasks.                                                       *)
(***************************************************************************)

\* What the files listed for partition r hold, in their order.
BlocksOf(r) == [p \in DOMAIN files[r] |-> <<files[r][p][2], files[r][p][3]>>]

\* A reduce task in execution has the list of files as it is for ever, and has
\* read the first wi[w] of them.
ReduceTask(w) ==
    /\ work[w].TaskType = 2 =>
          /\ work[w].TaskId \in Reduces
          /\ work[w].Files = files[work[w].TaskId]
    /\ wpc[w] = "read" =>
          /\ Len(content[w]) = wi[w]
          /\ \A p \in 1 .. wi[w] : content[w][p] = BlocksOf(work[w].TaskId)[p]
    /\ wpc[w] = "rename" =>
          content[w] = BlocksOf(work[w].TaskId) /\ files[work[w].TaskId] # <<>>
    /\ wpc[w] \notin {"read", "rename"} => content[w] = <<>>
    /\ wpc[w] # "fatal"

\* Partition r has its output, or nothing to put into it.
Published(r) == out[r] # NoFile \/ files[r] = <<>>

Outputs ==
    /\ \A r \in Reduces : out[r] # NoFile => AllMapped /\ out[r] = BlocksOf(r)
    /\ \A r \in Reduces : done[NMap + r] => Published(r)
    /\ \A w \in Workers :
          /\ work[w].TaskType = 2
          /\ wpc[w] = "report" \/ hpc[w] \in {"lock", "count"}
          => Published(work[w].TaskId)

ReduceInv == (\A w \in Workers : ReduceTask(w)) /\ Outputs

\* The main goroutine has seen the tasks below mi done, and then all of them.
MainInv ==
    /\ \A i \in Tasks : i < mi \/ mpc # "polling" => done[i]
    /\ \A w \in Workers : wpc[w] = "exited" => mpc = "exited"

JobInv == PhaseInv /\ Ids /\ FilesExact /\ WrittenInv /\ ReduceInv /\ MainInv

-----------------------------------------------------------------------------
(***************************************************************************)
(* Worker ids.                                                             *)
(***************************************************************************)

\* A step that names nobody, and changes no name.
LEMMA IdsFrame ==
  ASSUME Ids, workers' = workers,
         \A v \in Workers : Named(v)' => Named(v) /\ NameOf(v)' = NameOf(v),
         \A v \in Workers : wpc'[v] = "asking" /\ hpc'[v] \in AskAnswered
             => wpc[v] = "asking" /\ hpc[v] \in AskAnswered /\ work'[v].Id = work[v].Id
  PROVE  Ids'
<1>1. \A v \in Workers : wpc'[v] = "asking" /\ hpc'[v] \in AskAnswered => NameOf(v)' = work'[v].Id
  BY DEF Ids, Named
<1> QED BY <1>1 DEF Ids

LEMMA IdsNext == PhaseInv /\ Ids /\ [Next]_vars => Ids'
<1> SUFFICES ASSUME PhaseInv, Ids, [Next]_vars PROVE Ids'
  OBVIOUS
<1> USE DEF coordVars, mainVars, workerVars, fileVars
<1>0. TypeOK /\ Control
  BY DEF PhaseInv
<1>1. ASSUME NEW w \in Workers, AskTaskId(w) PROVE Ids'
  <2>1. /\ hpc[w] = "askId" /\ hpc' = [hpc EXCEPT ![w] = "askPhase"]
        /\ id' = id /\ wpc' = wpc /\ workers \in Nat
        /\ \A v \in Workers : v # w => work'[v] = work[v]
    BY <1>0, <1>1 DEF AskTaskId, Serving, TypeOK
  <2>2. \A v \in Workers : v # w => /\ Named(v)' <=> Named(v)
                                    /\ NameOf(v)' = NameOf(v)
    BY <1>0, <2>1 DEF Named, NameOf, TypeOK
  <2>3. /\ Named(w)' /\ NameOf(w)' = work'[w].Id
        /\ \/ id[w] = -1 /\ workers' = workers + 1 /\ NameOf(w)' = workers
           \/ id[w] # -1 /\ workers' = workers /\ NameOf(w)' = id[w] /\ Named(w) /\ NameOf(w) = id[w]
    BY <1>0, <1>1, <2>1 DEF AskTaskId, Named, NameOf, NoTask, AskAnswered, TypeOK
  <2>4. \A v \in Workers : Named(v) => NameOf(v) \in Int
    BY <1>0 DEF NameOf, TypeOK, Reply
  <2>5. \A v \in Workers : Named(v)' => NameOf(v)' < workers'
    BY <2>1, <2>2, <2>3, <2>4 DEF Ids
  <2>6. \A u, v \in Workers : Named(u)' /\ Named(v)' /\ NameOf(u)' = NameOf(v)' => u = v
    BY <2>1, <2>2, <2>3, <2>4 DEF Ids
  <2>7. \A v \in Workers : wpc'[v] = "asking" /\ hpc'[v] \in AskAnswered => NameOf(v)' = work'[v].Id
    BY <1>0, <2>1, <2>2, <2>3 DEF Ids, TypeOK
  <2> QED BY <2>5, <2>6, <2>7 DEF Ids
<1>2. ASSUME NEW w \in Workers, AskTaskPhase(w) PROVE Ids'
  <2>1. /\ workers' = workers /\ id' = id /\ wpc' = wpc /\ work' = work
        /\ hpc[w] = "askPhase" /\ hpc' = [hpc EXCEPT ![w] = "scan"]
    BY <1>2 DEF AskTaskPhase, Serving
  <2> QED BY <1>0, <2>1, IdsFrame DEF Named, NameOf, AskAnswered, TypeOK
<1>3. ASSUME NEW w \in Workers, AskTaskScan(w) PROVE Ids'
  <2>1. /\ workers' = workers /\ id' = id /\ wpc' = wpc
        /\ hpc[w] = "scan" /\ hpc'[w] \in {"scan", "replied"}
        /\ \A v \in Workers : v # w => hpc'[v] = hpc[v] /\ work'[v] = work[v]
    BY <1>0, <1>3 DEF AskTaskScan, Serving, TypeOK
  <2>2. work'[w].Id = work[w].Id
    BY <1>0, <1>3 DEF AskTaskScan, TaskReply, TypeOK
  <2> QED BY <2>1, <2>2, IdsFrame DEF Named, NameOf, AskAnswered
<1>4. ASSUME NEW w \in Workers, TaskDoneLock(w) \/ TaskDoneCount(w) \/ TaskDoneAppend(w)
      PROVE  Ids'
  <2>1. /\ workers' = workers /\ id' = id /\ wpc' = wpc /\ work' = work
        /\ hpc[w] \in {"lock", "count", "append"}
        /\ \A v \in Workers : v # w => hpc'[v] = hpc[v]
    BY <1>0, <1>4 DEF TaskDoneLock, TaskDoneCount, TaskDoneAppend, Serving, TypeOK
  <2>2. id[w] \in Nat /\ wpc[w] # "asking"
    BY <1>0, <2>1 DEF Control, WorkerControl, TaskControl, CallControl
  <2> QED BY <2>1, <2>2, IdsFrame DEF Named, NameOf
<1>5. ASSUME NEW w \in Workers, CallAskTask(w) PROVE Ids'
  <2>1. /\ workers' = workers /\ id' = id /\ wpc' = [wpc EXCEPT ![w] = "asking"]
        /\ hpc' = [hpc EXCEPT ![w] = "askId"]
        /\ \A v \in Workers : v # w => work'[v] = work[v]
    BY <1>0, <1>5 DEF CallAskTask, TypeOK
  <2> QED BY <1>0, <2>1, IdsFrame DEF Named, NameOf, AskAnswered, TypeOK
<1>6. ASSUME NEW w \in Workers, AskTaskReturns(w) PROVE Ids'
  <2>1. /\ workers' = workers /\ work' = work /\ hpc' = [hpc EXCEPT ![w] = "none"]
        /\ wpc[w] = "asking" /\ hpc[w] = "replied"
        /\ id'[w] = work[w].Id
        /\ \A v \in Workers : v # w => id'[v] = id[v] /\ wpc'[v] = wpc[v]
    BY <1>0, <1>6 DEF AskTaskReturns, TypeOK
  <2>2. Named(w) /\ NameOf(w) = work[w].Id
    BY <2>1 DEF Ids, Named, AskAnswered
  <2>3. Named(w)' /\ NameOf(w)' = work[w].Id
    BY <1>0, <2>1 DEF Named, NameOf, TypeOK, Reply
  <2>4. \A v \in Workers : hpc'[v] \in AskAnswered => v # w /\ hpc'[v] = hpc[v]
    BY <1>0, <2>1 DEF AskAnswered, TypeOK
  <2>5. \A v \in Workers : v # w => (Named(v)' => Named(v)) /\ NameOf(v)' = NameOf(v)
    BY <2>1, <2>4 DEF Named, NameOf
  <2> QED BY <2>1, <2>2, <2>3, <2>4, <2>5, IdsFrame
<1>7. ASSUME NEW w \in Workers,
             \/ MapCreate(w) \/ MapEncode(w) \/ ReduceRead(w) \/ ReduceRename(w)
             \/ CallTaskDone(w) \/ TaskDoneReturns(w) \/ CallFails(w)
      PROVE  Ids'
  <2>1. /\ workers' = workers /\ work' = work /\ id' = id
        /\ \/ hpc' = hpc \/ hpc' = [hpc EXCEPT ![w] = "none"]
           \/ hpc' = [hpc EXCEPT ![w] = "lock"]
    BY <1>7 DEF MapCreate, MapEncode, ReduceRead, ReduceRename, CallTaskDone,
       TaskDoneReturns, CallFails
  <2>2. \A v \in Workers : hpc'[v] \in AskAnswered => hpc'[v] = hpc[v]
    BY <1>0, <2>1 DEF AskAnswered, TypeOK
  <2>3. \A v \in Workers : wpc'[v] = "asking" => wpc[v] = "asking"
    BY <1>0, <1>7 DEF MapCreate, MapEncode, ReduceRead, ReduceRename, CallTaskDone,
       TaskDoneReturns, CallFails, AfterPartition, TypeOK
  <2> QED BY <2>1, <2>2, <2>3, IdsFrame DEF Named, NameOf
<1>8. ASSUME NEW w \in Workers, Crash(w) PROVE Ids'
  <2>1. /\ workers' = workers /\ hpc' = hpc /\ wpc' = [wpc EXCEPT ![w] = "crashed"]
        /\ \A v \in Workers : v # w => id'[v] = id[v] /\ work'[v] = work[v]
        /\ \/ id'[w] = id[w] /\ work'[w] = work[w]
           \/ id'[w] = -1 /\ hpc[w] = "none"
    BY <1>0, <1>8 DEF Crash, TypeOK
  <2>2. \A v \in Workers : wpc'[v] = "asking" => wpc[v] = "asking" /\ v # w
    BY <1>0, <2>1 DEF TypeOK
  <2> QED BY <2>1, <2>2, IdsFrame DEF Named, NameOf, AskAnswered
<1>9. ASSUME (\E i \in Tasks : Expire(i)) \/ Main \/ UNCHANGED vars PROVE Ids'
  <2>1. /\ workers' = workers /\ hpc' = hpc /\ wpc' = wpc /\ id' = id /\ work' = work
    BY <1>9 DEF Expire, Main, Done, CoordinatorExit, vars
  <2> QED BY <2>1, IdsFrame DEF Named, NameOf
<1> QED
  BY <1>1, <1>2, <1>3, <1>4, <1>5, <1>6, <1>7, <1>8, <1>9
     DEF Next, Handler, Worker, Terminated

-----------------------------------------------------------------------------
(***************************************************************************)
(* The lists of files.                                                     *)
(***************************************************************************)

\* A step that marks nothing done, lists nothing and moves no TaskDone.
LEMMA FilesFrame ==
  ASSUME FilesExact, files' = files, done' = done,
         \A v \in Workers : Locked(v)' <=> Locked(v),
         \A v \in Workers : Locked(v) => /\ hpc'[v] = hpc[v] /\ hi'[v] = hi[v]
                                         /\ work'[v] = work[v]
  PROVE  FilesExact'
<1>1. ASSUME NEW m \in Maps, NEW r \in Reduces PROVE Pending(m, r)' <=> Pending(m, r)
  BY DEF Pending, Locked, ActualTaskId
<1>2. \A m, r : Listed(m, r)' <=> Listed(m, r)
  BY DEF Listed
<1> QED BY <1>1, <1>2 DEF FilesExact

LEMMA FilesTaskDoneLock ==
  ASSUME PhaseInv, FilesExact, NEW w \in Workers, TaskDoneLock(w), ~done[ActualTaskId(w)]
  PROVE  FilesExact'
<1> DEFINE i == ActualTaskId(w)
<1>0. TypeOK /\ Control
  BY DEF PhaseInv
<1>1. hpc[w] = "lock" /\ i \in Tasks
  BY <1>0, ActualTaskIdType DEF TaskDoneLock, Serving, Control, WorkerControl, TaskControl
<1>2. /\ files' = files /\ hi' = hi /\ work' = work
      /\ hpc' = [hpc EXCEPT ![w] = "count"] /\ done' = [done EXCEPT ![i] = TRUE]
  BY DEF TaskDoneLock, FirstReport, workerVars
<1>3. \A m, r : Listed(m, r)' <=> Listed(m, r)
  BY <1>2 DEF Listed
<1>4. ASSUME NEW m \in Maps, NEW r \in Reduces
      PROVE  Listed(m, r)' <=> (r \in Emits[m] /\ done'[m] /\ ~Pending(m, r)')
  <2>1. Listed(m, r) <=> (r \in Emits[m] /\ done[m] /\ ~Pending(m, r))
    BY DEF FilesExact
  <2>2. CASE m = i
    <3>1. Pending(m, r)'
      BY <1>0, <1>2, <2>2 DEF Pending, ActualTaskId, TypeOK
    <3> QED BY <1>3, <2>1, <2>2, <3>1
  <2>3. CASE m # i
    <3>1. done'[m] = done[m]
      BY <1>0, <1>2, <2>3, ConstantsAssumption DEF TypeOK, Maps, Tasks
    <3>2. \A v \in Workers : v # w => hpc'[v] = hpc[v]
      BY <1>0, <1>2 DEF TypeOK
    <3>3. \A v \in Workers : ActualTaskId(v)' = ActualTaskId(v)
      BY <1>2 DEF ActualTaskId
    <3>4. Pending(m, r)' <=> Pending(m, r)
      BY <1>1, <1>2, <2>3, <3>2, <3>3 DEF Pending
    <3> QED BY <1>3, <2>1, <3>1, <3>4
  <2> QED BY <2>2, <2>3
<1> QED BY <1>2, <1>4 DEF FilesExact

LEMMA FilesTaskDoneCount ==
  ASSUME PhaseInv, FilesExact, NEW w \in Workers, TaskDoneCount(w)
  PROVE  FilesExact'
<1>0. TypeOK /\ Control
  BY DEF PhaseInv
<1>1. hpc[w] = "count" /\ ValidTask(w)
  BY <1>0 DEF TaskDoneCount, Serving, Control, WorkerControl, TaskControl
<1>2. /\ files' = files /\ done' = done /\ work' = work
      /\ \A v \in Workers : v # w => hpc'[v] = hpc[v] /\ hi'[v] = hi[v]
      /\ \/ work[w].TaskType = 1 /\ hpc'[w] = "append" /\ hi'[w] = NMap
         \/ work[w].TaskType # 1 /\ hpc'[w] = "replied"
  BY <1>0 DEF TaskDoneCount, workerVars, TypeOK
<1>3. ASSUME NEW m \in Maps, NEW r \in Reduces
      PROVE  Pending(m, r)' <=> Pending(m, r)
  <2>1. \A v \in Workers : ActualTaskId(v)' = ActualTaskId(v)
    BY <1>2 DEF ActualTaskId
  <2>2. work[w].TaskType # 1 => ActualTaskId(w) # m
    BY <1>1, ActualTaskIdType DEF ValidTask, MapReply, ReduceReply
  <2>3. NMap <= NMap + r
    BY ConstantsAssumption DEF Reduces
  <2> QED BY <1>1, <1>2, <2>1, <2>2, <2>3 DEF Pending
<1>4. \A m, r : Listed(m, r)' <=> Listed(m, r)
  BY <1>2 DEF Listed
<1> QED BY <1>2, <1>3, <1>4 DEF FilesExact

LEMMA FilesTaskDoneAppend ==
  ASSUME PhaseInv, FilesExact, NEW w \in Workers, TaskDoneAppend(w)
  PROVE  FilesExact'
<1>0. TypeOK /\ Control
  BY DEF PhaseInv
<1>1. PICK s \in Reduces, k \in Maps :
         /\ hpc[w] = "append" /\ ActualTaskId(w) = k /\ work[w].TaskId = k
         /\ hi[w] - NMap = s /\ hi[w] = NMap + s /\ id[w] \in Nat
  <2>1. hpc[w] = "append" /\ MapReply(w) /\ hi[w] >= NMap /\ hi[w] \in Tasks /\ id[w] \in Nat
    BY <1>0 DEF TaskDoneAppend, Serving, Control, WorkerControl, TaskControl, TypeOK
  <2> QED BY <2>1, ConstantsAssumption DEF MapReply, ActualTaskId, Tasks, Reduces
<1>2. /\ done' = done /\ work' = work
      /\ \A v \in Workers : v # w => hpc'[v] = hpc[v] /\ hi'[v] = hi[v]
      /\ \/ s = NReduce - 1 /\ hpc'[w] = "replied"
         \/ s # NReduce - 1 /\ hpc'[w] = "append" /\ hi'[w] = hi[w] + 1
  BY <1>0, <1>1 DEF TaskDoneAppend, workerVars, TypeOK
<1>3. \A v \in Workers : ActualTaskId(v)' = ActualTaskId(v)
  BY <1>2 DEF ActualTaskId
<1>4. \A v \in Workers : Locked(v) /\ ActualTaskId(v) = k => v = w
  BY <1>1 DEF PhaseInv, LocksExclusive, Locked
<1>5. Pending(k, s) /\ ~Pending(k, s)'
  <2>0. hi[w] <= NMap + s
    BY <1>1, ConstantsAssumption DEF Reduces
  <2>1. Pending(k, s)
    BY <1>1, <2>0 DEF Pending
  <2>2. ~(hpc'[w] = "count" \/ (hpc'[w] = "append" /\ hi'[w] <= NMap + s))
    BY <1>1, <1>2, ConstantsAssumption DEF Reduces
  <2> QED BY <1>2, <1>3, <1>4, <2>1, <2>2 DEF Pending, Locked
<1>6. ASSUME NEW m \in Maps, NEW r \in Reduces, m # k \/ r # s
      PROVE  Pending(m, r)' <=> Pending(m, r)
  <2>1. CASE m # k
    BY <1>1, <1>2, <1>3, <2>1 DEF Pending
  <2>2. CASE m = k /\ r # s
    <3>1. (hpc'[w] = "append" /\ hi'[w] <= NMap + r) <=> hi[w] <= NMap + r
      BY <1>1, <1>2, <2>2, ConstantsAssumption DEF Reduces
    <3> QED BY <1>1, <1>2, <1>3, <1>4, <2>2, <3>1 DEF Pending, Locked
  <2> QED BY <1>6, <2>1, <2>2
<1>7. ~Listed(k, s)
  BY <1>1, <1>5 DEF FilesExact
<1>8. done[k]
  BY <1>1 DEF PhaseInv, LocksExclusive
<1> DEFINE Whole(r) ==
      /\ \A p \in DOMAIN files'[r] : files'[r][p][3] = r
      /\ \A p, q \in DOMAIN files'[r] : files'[r][p][2] = files'[r][q][2] => p = q
      /\ \A m \in Maps : Listed(m, r)' <=> (r \in Emits[m] /\ done'[m] /\ ~Pending(m, r)')
<1>9. ASSUME NEW r \in Reduces, files'[r] = files[r], r = s => s \notin Emits[k]
      PROVE  Whole(r)
  <2>1. \A m : Listed(m, r)' <=> Listed(m, r)
    BY <1>9 DEF Listed
  <2>2. ASSUME NEW m \in Maps
        PROVE  Listed(m, r)' <=> (r \in Emits[m] /\ done'[m] /\ ~Pending(m, r)')
    <3>1. CASE m = k /\ r = s
      BY <1>7, <1>9, <2>1, <3>1
    <3>2. CASE m # k \/ r # s
      BY <1>2, <1>6, <2>1, <3>2 DEF FilesExact
    <3> QED BY <3>1, <3>2
  <2> QED BY <1>9, <2>2 DEF FilesExact
<1>10. CASE s \notin Emits[k]
  <2>1. files' = files
    BY <1>1, <1>10 DEF TaskDoneAppend
  <2>2. \A r \in Reduces : Whole(r)
    BY <1>9, <1>10, <2>1
  <2> QED BY <2>2 DEF FilesExact
<1>11. CASE s \in Emits[k]
  <2> DEFINE f == TmpName(w, s)
  <2>1. /\ files'[s] = Append(files[s], f)
        /\ \A r \in Reduces : r # s => files'[r] = files[r]
    BY <1>0, <1>1, <1>11 DEF TaskDoneAppend, TypeOK
  <2>2. files[s] \in Seq(Nat \X Maps \X Reduces) /\ f \in Nat \X Maps \X Reduces
        /\ f[2] = k /\ f[3] = s
    BY <1>0, <1>1 DEF TypeOK, TmpName
  <2> HIDE DEF f
  <2>3. /\ DOMAIN files'[s] = 1 .. Len(files[s]) + 1
        /\ DOMAIN files[s] = 1 .. Len(files[s])
        /\ Len(files[s]) \in Nat
        /\ \A p \in DOMAIN files[s] : files'[s][p] = files[s][p]
        /\ files'[s][Len(files[s]) + 1] = f
    BY <2>1, <2>2
  <2>4. \A p \in DOMAIN files'[s] : p = Len(files[s]) + 1 \/ p \in DOMAIN files[s]
    BY <2>3
  <2>5. \A p \in DOMAIN files'[s] : files'[s][p][3] = s
    BY <1>1, <2>2, <2>3, <2>4 DEF FilesExact
  <2>6. \A p \in DOMAIN files[s] : files[s][p][2] # k
    BY <1>7 DEF Listed
  <2>7. \A p, q \in DOMAIN files'[s] : files'[s][p][2] = files'[s][q][2] => p = q
    <3>1. \A p, q \in DOMAIN files[s] : files[s][p][2] = files[s][q][2] => p = q
      BY DEF FilesExact
    <3> SUFFICES ASSUME NEW p \in DOMAIN files'[s], NEW q \in DOMAIN files'[s],
                        files'[s][p][2] = files'[s][q][2]
                 PROVE  p = q
      OBVIOUS
    <3>2. CASE p \in DOMAIN files[s] /\ q \in DOMAIN files[s]
      BY <2>3, <3>1, <3>2
    <3>3. CASE p \notin DOMAIN files[s] \/ q \notin DOMAIN files[s]
      BY <2>2, <2>3, <2>4, <2>6, <3>3
    <3> QED BY <3>2, <3>3
  <2>8. \A m : Listed(m, s)' <=> (m = k \/ Listed(m, s))
    <3>1. Len(files[s]) + 1 \in DOMAIN files'[s]
      BY <2>3
    <3>2. \A p \in DOMAIN files[s] : p \in DOMAIN files'[s]
      BY <2>3
    <3> QED BY <2>2, <2>3, <2>4, <3>1, <3>2 DEF Listed
  <2>9. \A m \in Maps : Listed(m, s)' <=> (s \in Emits[m] /\ done'[m] /\ ~Pending(m, s)')
    BY <1>1, <1>2, <1>5, <1>6, <1>8, <1>11, <2>8 DEF FilesExact
  <2>10. Whole(s)
    BY <2>5, <2>7, <2>9
  <2>11. \A r \in Reduces : Whole(r)
    BY <1>9, <2>1, <2>10
  <2> QED BY <2>11 DEF FilesExact
<1> QED BY <1>10, <1>11

LEMMA FilesNext == PhaseInv /\ FilesExact /\ [Next]_vars => FilesExact'
<1> SUFFICES ASSUME PhaseInv, FilesExact, [Next]_vars PROVE FilesExact'
  OBVIOUS
<1> USE DEF coordVars, mainVars, workerVars, fileVars
<1>0. TypeOK /\ Control
  BY DEF PhaseInv
<1>1. ASSUME NEW w \in Workers, TaskDoneLock(w) PROVE FilesExact'
  <2>1. CASE done[ActualTaskId(w)]
    <3>1. /\ files' = files /\ done' = done /\ hi' = hi /\ work' = work
          /\ hpc[w] = "lock" /\ hpc' = [hpc EXCEPT ![w] = "replied"]
      BY <1>1, <2>1 DEF TaskDoneLock, FirstReport, Serving
    <3> QED BY <1>0, <3>1, FilesFrame DEF Locked, TypeOK
  <2> QED BY <1>1, <2>1, FilesTaskDoneLock
<1>2. ASSUME NEW w \in Workers, TaskDoneCount(w) \/ TaskDoneAppend(w) PROVE FilesExact'
  BY <1>2, FilesTaskDoneCount, FilesTaskDoneAppend
<1>3. ASSUME NEW w \in Workers, AskTaskId(w) \/ AskTaskPhase(w) \/ AskTaskScan(w)
      PROVE  FilesExact'
  <2>1. /\ files' = files /\ done' = done
        /\ hpc[w] \in {"askId", "askPhase", "scan"}
        /\ hpc'[w] \in {"askPhase", "scan", "replied"}
        /\ \A v \in Workers : v # w => hpc'[v] = hpc[v] /\ hi'[v] = hi[v] /\ work'[v] = work[v]
    BY <1>0, <1>3 DEF AskTaskId, AskTaskPhase, AskTaskScan, Serving, TypeOK
  <2> QED BY <2>1, FilesFrame DEF Locked
<1>4. ASSUME NEW w \in Workers,
             \/ CallAskTask(w) \/ AskTaskReturns(w) \/ CallTaskDone(w) \/ TaskDoneReturns(w)
      PROVE  FilesExact'
  <2>1. /\ files' = files /\ done' = done
        /\ ~Locked(w) /\ ~Locked(w)'
        /\ \A v \in Workers : v # w => hpc'[v] = hpc[v] /\ hi'[v] = hi[v] /\ work'[v] = work[v]
    BY <1>0, <1>4 DEF CallAskTask, AskTaskReturns, CallTaskDone, TaskDoneReturns,
       Locked, TypeOK, Control, WorkerControl, CallControl, Idle
  <2> QED BY <2>1, FilesFrame DEF Locked
<1>5. ASSUME NEW w \in Workers,
             \/ MapCreate(w) \/ MapEncode(w) \/ ReduceRead(w) \/ ReduceRename(w)
             \/ CallFails(w) \/ Crash(w)
      PROVE  FilesExact'
  <2>1. /\ files' = files /\ done' = done /\ hpc' = hpc /\ hi' = hi
        /\ \A v \in Workers : hpc[v] # "none" => work'[v] = work[v]
    BY <1>0, <1>5 DEF MapCreate, MapEncode, ReduceRead, ReduceRename, CallFails, Crash, TypeOK
  <2> QED BY <2>1, FilesFrame DEF Locked
<1>6. ASSUME (\E i \in Tasks : Expire(i)) \/ Main \/ UNCHANGED vars PROVE FilesExact'
  <2>1. files' = files /\ done' = done /\ hpc' = hpc /\ hi' = hi /\ work' = work
    BY <1>6 DEF Expire, Main, Done, CoordinatorExit, vars
  <2> QED BY <2>1, FilesFrame DEF Locked
<1> QED
  BY <1>1, <1>2, <1>3, <1>4, <1>5, <1>6 DEF Next, Handler, Worker, Terminated

-----------------------------------------------------------------------------
(***************************************************************************)
(* The files a worker writes.                                              *)
(***************************************************************************)

Reporting == {"lock", "count", "append"}

\* A step that removes no file of v and lists none, and leaves v where it is
\* or takes it on to a state of which less is asked.
LEMMA MapFilesFrame ==
  ASSUME NEW v \in Workers, MapFiles(v), files' = files,
         work'[v] = work[v], id'[v] = id[v],
         wpc'[v] \in {"create", "encode"} => wi'[v] = wi[v],
         wpc'[v] \in {"create", "encode", "report", "asking"} => wpc'[v] = wpc[v],
         hpc'[v] \in Reporting => hpc[v] \in Reporting,
         wpc'[v] = "asking" /\ hpc'[v] = "replied" => hpc[v] = "replied",
         \A r \in Reduces : TmpName(v, r) \in written => TmpName(v, r) \in written',
         work[v].TaskType = 1 /\ (wpc[v] \in {"create", "encode", "report"} \/ hpc[v] \in Reporting)
             => Emits[work[v].TaskId] \subseteq Reduces
  PROVE  MapFiles(v)'
<1>1. NameOf(v)' = NameOf(v)
  BY DEF NameOf
<1>2. Unlisted(v) => Unlisted(v)'
  BY <1>1 DEF Unlisted
<1>3. ASSUME NEW n, Encoded(v, n), Emits[work[v].TaskId] \subseteq Reduces PROVE Encoded(v, n)'
  BY <1>3 DEF Encoded, TmpName
<1>4. ASSUME wpc[v] \in {"create", "encode"}, Encoded(v, wi[v]), wi'[v] = wi[v],
             Emits[work[v].TaskId] \subseteq Reduces
      PROVE  Encoded(v, wi[v])'
  BY <1>4 DEF Encoded, TmpName
<1> QED BY <1>2, <1>3, <1>4 DEF MapFiles, Reporting

\* A worker whose reply is no map task.
LEMMA MapFilesNoMap ==
  ASSUME NEW v \in Workers, work'[v].TaskType # 1 PROVE MapFiles(v)'
  BY DEF MapFiles

LEMMA EmitsOfTask ==
  ASSUME PhaseInv, NEW v \in Workers, work[v].TaskType = 1,
         wpc[v] \in {"create", "encode", "report"} \/ hpc[v] \in Reporting
  PROVE  /\ work[v].TaskId \in Maps /\ Emits[work[v].TaskId] \subseteq Reduces
         /\ id[v] \in Nat /\ Named(v) /\ NameOf(v) = id[v]
<1>1. ValidTask(v) /\ id[v] \in Nat
  BY DEF PhaseInv, Control, WorkerControl, TaskControl, Executing, Reporting
<1> QED BY <1>1, ConstantsAssumption DEF ValidTask, MapReply, ReduceReply, Named, NameOf

\* A step that changes neither files nor written, only the place of w.
LEMMA WrittenFrame ==
  ASSUME PhaseInv, WrittenInv, files' = files, written \subseteq written', NEW w \in Workers,
         \A v \in Workers : v # w => /\ work'[v] = work[v] /\ id'[v] = id[v] /\ wi'[v] = wi[v]
                                     /\ wpc'[v] = wpc[v] /\ hpc'[v] = hpc[v],
         MapFiles(w)'
  PROVE  WrittenInv'
<1>1. ASSUME NEW v \in Workers, v # w PROVE MapFiles(v)'
  BY <1>1, MapFilesFrame, EmitsOfTask DEF WrittenInv
<1> QED BY <1>1 DEF WrittenInv, FilesWritten

LEMMA WrittenScan ==
  ASSUME PhaseInv, FilesExact, WrittenInv, NEW w \in Workers, AskTaskScan(w)
  PROVE  WrittenInv'
<1>0. TypeOK /\ Control
  BY DEF PhaseInv
<1>1. hpc[w] = "scan" /\ work[w].TaskType = 0 /\ hi[w] \in Tasks
      /\ wpc[w] \notin {"create", "encode", "report"}
  BY <1>0 DEF AskTaskScan, Serving, Control, WorkerControl, ReplyControl, CallControl, Idle, TypeOK
<1>2. /\ files' = files /\ written' = written /\ wpc' = wpc /\ done' = done
      /\ \A v \in Workers : v # w => /\ work'[v] = work[v] /\ id'[v] = id[v] /\ wi'[v] = wi[v]
                                     /\ wpc'[v] = wpc[v] /\ hpc'[v] = hpc[v]
      /\ hpc'[w] \in {"scan", "replied"}
      /\ \/ work'[w] = work[w]
         \/ ~done[hi[w]] /\ work'[w] = TaskReply(w, hi[w])
  BY <1>0 DEF AskTaskScan, Serving, Issuable, fileVars, TypeOK
<1>3. ASSUME work'[w].TaskType = 1 PROVE Unlisted(w)'
  <2>1. ~done[hi[w]] /\ work'[w] = TaskReply(w, hi[w])
    BY <1>1, <1>2, <1>3
  <2>2. hi[w] \in Maps /\ work'[w].TaskId = hi[w]
    <3>1. hi[w] < NMap
      BY <1>0, <1>1, <1>3, <2>1, TaskReplyType, ConstantsAssumption DEF Tasks
    <3> QED BY <1>0, <1>1, <2>1, <3>1, TaskReplyType
  <2>3. \A r \in Reduces : ~Listed(hi[w], r)
    BY <2>1, <2>2 DEF FilesExact
  <2> QED BY <1>2, <2>2, <2>3 DEF Unlisted, Listed
<1>4. MapFiles(w)'
  BY <1>1, <1>2, <1>3 DEF MapFiles, Reporting
<1> QED BY <1>2, <1>4, WrittenFrame

LEMMA WrittenAppend ==
  ASSUME PhaseInv, Ids, WrittenInv, NEW w \in Workers, TaskDoneAppend(w)
  PROVE  WrittenInv'
<1>0. TypeOK /\ Control
  BY DEF PhaseInv
<1>1. PICK s \in Reduces, k \in Maps :
         /\ hpc[w] = "append" /\ work[w].TaskType = 1 /\ work[w].TaskId = k
         /\ hi[w] - NMap = s
  <2>1. hpc[w] = "append" /\ MapReply(w) /\ hi[w] >= NMap /\ hi[w] \in Tasks
    BY <1>0 DEF TaskDoneAppend, Serving, Control, WorkerControl, TaskControl, TypeOK
  <2> QED BY <2>1, ConstantsAssumption DEF MapReply, Tasks, Reduces
<1>2. id[w] \in Nat /\ Named(w) /\ NameOf(w) = id[w] /\ Emits[k] \subseteq Reduces
  BY <1>1, EmitsOfTask DEF Reporting
<1>3. /\ written' = written /\ work' = work /\ id' = id /\ wi' = wi /\ wpc' = wpc
      /\ hpc'[w] \in {"append", "replied"}
      /\ \A v \in Workers : v # w => hpc'[v] = hpc[v]
      /\ wpc[w] \notin {"create", "encode", "report", "asking"}
  BY <1>0, <1>1 DEF TaskDoneAppend, workerVars, fileVars, TypeOK, Control, WorkerControl,
     CallControl, Idle
<1>4. s \in Emits[k] => TmpName(w, s) \in written
  <2>1. Encoded(w, NReduce)
    BY <1>1 DEF WrittenInv, MapFiles
  <2>2. s < NReduce
    BY ConstantsAssumption DEF Reduces
  <2> QED BY <1>1, <2>1, <2>2 DEF Encoded
\* A new entry of a list is the file of w for partition s.
<1>5. ASSUME NEW r \in Reduces, NEW p \in DOMAIN files'[r]
      PROVE  \/ p \in DOMAIN files[r] /\ files'[r][p] = files[r][p]
             \/ s \in Emits[k] /\ files'[r][p] = <<id[w], k, s>>
  <2>1. CASE s \notin Emits[k] \/ r # s
    BY <1>0, <1>1, <2>1 DEF TaskDoneAppend, TypeOK
  <2>2. CASE s \in Emits[k] /\ r = s
    <3>1. files'[r] = Append(files[r], <<id[w], k, s>>)
      BY <1>0, <1>1, <2>2 DEF TaskDoneAppend, TmpName, TypeOK
    <3>2. files[r] \in Seq(Nat \X Maps \X Reduces)
      BY <1>0 DEF TypeOK
    <3>3. p \in 1 .. Len(files[r]) + 1 /\ DOMAIN files[r] = 1 .. Len(files[r])
      BY <3>1, <3>2
    <3>4. CASE p = Len(files[r]) + 1
      BY <2>2, <3>1, <3>2, <3>4
    <3>5. CASE p \in 1 .. Len(files[r])
      BY <3>1, <3>2, <3>5
    <3> QED BY <3>2, <3>3, <3>4, <3>5
  <2> QED BY <2>1, <2>2
<1>6. FilesWritten'
  BY <1>1, <1>3, <1>4, <1>5 DEF FilesWritten, WrittenInv, TmpName
<1>7. ASSUME NEW v \in Workers PROVE MapFiles(v)'
  <2>0. MapFiles(v)
    BY DEF WrittenInv
  <2>1. \A n : Encoded(v, n) => Encoded(v, n)'
    BY <1>3 DEF Encoded, TmpName
  <2>2. Encoded(v, wi[v])' <=> Encoded(v, wi[v])
    BY <1>3 DEF Encoded, TmpName
  <2>3. ASSUME v # w, work[v].TaskType = 1, Unlisted(v),
               \/ wpc[v] = "asking" /\ hpc[v] = "replied"
               \/ wpc[v] \in {"create", "encode", "report"}
        PROVE  Unlisted(v)'
    <3>1. Named(v)
      BY <2>3, EmitsOfTask DEF Named, AskAnswered
    <3>2. NameOf(v) # id[w]
      BY <1>2, <2>3, <3>1 DEF Ids
    <3>3. NameOf(v)' = NameOf(v)
      BY <1>3 DEF NameOf
    <3> QED BY <1>3, <1>5, <2>3, <3>2, <3>3 DEF Unlisted
  <2>4. CASE v = w
    BY <1>1, <1>3, <2>0, <2>1, <2>4 DEF MapFiles
  <2>5. CASE v # w
    BY <1>3, <2>0, <2>1, <2>2, <2>3, <2>5 DEF MapFiles
  <2> QED BY <2>4, <2>5
<1> QED BY <1>6, <1>7 DEF WrittenInv

LEMMA WrittenCreate ==
  ASSUME PhaseInv, Ids, WrittenInv, NEW w \in Workers, MapCreate(w)
  PROVE  WrittenInv'
<1> DEFINE f == TmpName(w, wi[w])
<1>0. TypeOK /\ Control
  BY DEF PhaseInv
<1>1. /\ wpc[w] = "create" /\ work[w].TaskType = 1 /\ wi[w] \in Reduces /\ hpc[w] = "none"
  BY <1>0 DEF MapCreate, Control, WorkerControl, CallControl, TaskControl, MapReply, Idle
<1>2. /\ id[w] \in Nat /\ Named(w) /\ NameOf(w) = id[w]
      /\ Emits[work[w].TaskId] \subseteq Reduces /\ work[w].TaskId \in Maps
  BY <1>1, EmitsOfTask
<1>3. /\ files' = files /\ work' = work /\ id' = id /\ hpc' = hpc
      /\ \A v \in Workers : v # w => wpc'[v] = wpc[v] /\ wi'[v] = wi[v]
  BY <1>0 DEF MapCreate, AfterPartition, coordVars, TypeOK
<1>4. Encoded(w, wi[w]) /\ Unlisted(w)
  BY <1>1 DEF WrittenInv, MapFiles
<1>5. Unlisted(w)'
  BY <1>3, <1>4 DEF Unlisted, NameOf
<1>6. CASE wi[w] \in Emits[work[w].TaskId]
  <2>1. written' = written \ {f} /\ wpc' = [wpc EXCEPT ![w] = "encode"] /\ wi' = wi
    BY <1>6 DEF MapCreate
  <2>2. \A r \in Reduces : \A p \in DOMAIN files[r] : files[r][p] # f
    BY <1>2, <1>4 DEF Unlisted, TmpName
  <2>3. FilesWritten'
    BY <1>3, <2>1, <2>2 DEF WrittenInv, FilesWritten
  <2>4. ASSUME NEW v \in Workers, v # w PROVE MapFiles(v)'
    <3>1. CASE /\ work[v].TaskType = 1
               /\ wpc[v] \in {"create", "encode", "report"} \/ hpc[v] \in Reporting
      <4>1. id[v] # id[w]
        BY <1>2, <2>4, <3>1, EmitsOfTask DEF Ids
      <4>2. \A r \in Reduces : TmpName(v, r) # f
        BY <4>1 DEF TmpName
      <4> QED BY <1>3, <2>1, <2>4, <3>1, <4>2, MapFilesFrame, EmitsOfTask DEF WrittenInv
    <3>2. CASE ~(/\ work[v].TaskType = 1
                 /\ wpc[v] \in {"create", "encode", "report"} \/ hpc[v] \in Reporting)
      <4>1. Unlisted(v)' <=> Unlisted(v)
        BY <1>3 DEF Unlisted, NameOf
      <4> QED BY <1>3, <2>4, <3>2, <4>1 DEF WrittenInv, MapFiles, Reporting
    <3> QED BY <3>1, <3>2
  <2>5. Encoded(w, wi[w])'
    <3>1. \A r \in Reduces : r < wi[w] => TmpName(w, r) # f
      BY <1>1, ConstantsAssumption DEF TmpName, Reduces
    <3> QED BY <1>2, <1>3, <1>4, <2>1, <3>1 DEF Encoded, TmpName
  <2>6. wpc'[w] = "encode"
    BY <1>0, <2>1 DEF TypeOK
  <2>7. MapFiles(w)'
    BY <1>1, <1>3, <1>5, <2>5, <2>6 DEF MapFiles, Reporting
  <2> QED BY <2>3, <2>4, <2>7 DEF WrittenInv
<1>7. CASE wi[w] \notin Emits[work[w].TaskId]
  <2>1. written' = written /\ AfterPartition(w)
    BY <1>7 DEF MapCreate
  <2>2. \A r \in Emits[work[w].TaskId] : r < wi[w] + 1 => r < wi[w]
    BY <1>1, <1>2, <1>7, ConstantsAssumption DEF Reduces
  <2>3. ASSUME NEW n, n = wi[w] + 1 PROVE Encoded(w, n)'
    BY <1>3, <1>4, <2>1, <2>2, <2>3 DEF Encoded, TmpName
  <2>4. MapFiles(w)'
    <3>1. PICK n : n = wi[w] + 1
      OBVIOUS
    <3>2. \/ wi[w] = NReduce - 1 /\ wpc'[w] = "report" /\ wi'[w] = 0 /\ n = NReduce
          \/ wpc'[w] = "create" /\ wi'[w] = n
      BY <1>0, <1>1, <2>1, <3>1, ConstantsAssumption DEF AfterPartition, TypeOK, Reduces
    <3> QED BY <1>1, <1>3, <1>5, <2>3, <3>1, <3>2 DEF MapFiles, Reporting
  <2> QED BY <1>3, <2>1, <2>4, WrittenFrame
<1> QED BY <1>6, <1>7

LEMMA WrittenEncode ==
  ASSUME PhaseInv, WrittenInv, NEW w \in Workers, MapEncode(w)
  PROVE  WrittenInv'
<1>0. TypeOK /\ Control
  BY DEF PhaseInv
<1>1. /\ wpc[w] = "encode" /\ work[w].TaskType = 1 /\ wi[w] \in Reduces /\ hpc[w] = "none"
  BY <1>0 DEF MapEncode, Control, WorkerControl, CallControl, TaskControl, MapReply, Idle
<1>2. Emits[work[w].TaskId] \subseteq Reduces
  BY <1>1, EmitsOfTask
<1>3. /\ files' = files /\ work' = work /\ id' = id /\ hpc' = hpc
      /\ written' = written \cup {TmpName(w, wi[w])}
      /\ \A v \in Workers : v # w => wpc'[v] = wpc[v] /\ wi'[v] = wi[v]
  BY <1>0 DEF MapEncode, AfterPartition, coordVars, TypeOK
<1>4. Encoded(w, wi[w]) /\ Unlisted(w)
  BY <1>1 DEF WrittenInv, MapFiles
<1>5. Unlisted(w)'
  BY <1>3, <1>4 DEF Unlisted, NameOf
<1>6. PICK n : n = wi[w] + 1
  OBVIOUS
<1>7. Encoded(w, n)'
  <2>1. \A r \in Emits[work[w].TaskId] : r < n => r < wi[w] \/ r = wi[w]
    BY <1>1, <1>2, <1>6, ConstantsAssumption DEF Reduces
  <2> QED BY <1>3, <1>4, <2>1 DEF Encoded, TmpName
<1>8. \/ wi[w] = NReduce - 1 /\ wpc'[w] = "report" /\ wi'[w] = 0 /\ n = NReduce
      \/ wpc'[w] = "create" /\ wi'[w] = n
  BY <1>0, <1>1, <1>6, ConstantsAssumption DEF MapEncode, AfterPartition, TypeOK, Reduces
<1>9. MapFiles(w)'
  BY <1>1, <1>3, <1>5, <1>7, <1>8 DEF MapFiles, Reporting
<1> QED BY <1>3, <1>9, WrittenFrame

LEMMA WrittenNext ==
  PhaseInv /\ Ids /\ FilesExact /\ WrittenInv /\ [Next]_vars => WrittenInv'
<1> SUFFICES ASSUME PhaseInv, Ids, FilesExact, WrittenInv, [Next]_vars PROVE WrittenInv'
  OBVIOUS
<1> USE DEF coordVars, mainVars, workerVars, fileVars
<1>0. TypeOK /\ Control
  BY DEF PhaseInv
<1>1. ASSUME NEW w \in Workers, AskTaskId(w) \/ AskTaskPhase(w) \/ CallAskTask(w)
      PROVE  WrittenInv'
  <2>1. /\ files' = files /\ written' = written
        /\ \A v \in Workers : v # w => /\ work'[v] = work[v] /\ id'[v] = id[v] /\ wi'[v] = wi[v]
                                       /\ wpc'[v] = wpc[v] /\ hpc'[v] = hpc[v]
    BY <1>0, <1>1 DEF AskTaskId, AskTaskPhase, CallAskTask, TypeOK
  <2>2. work'[w].TaskType = 0
    BY <1>0, <1>1 DEF AskTaskId, AskTaskPhase, CallAskTask, Serving, NoTask, EmptyReply, TypeOK,
       Control, WorkerControl, ReplyControl
  <2> QED BY <2>1, <2>2, MapFilesNoMap, WrittenFrame
<1>2. ASSUME NEW w \in Workers, TaskDoneLock(w) \/ TaskDoneCount(w) PROVE WrittenInv'
  <2>1. /\ files' = files /\ written' = written /\ work' = work /\ id' = id /\ wi' = wi
        /\ wpc' = wpc /\ \A v \in Workers : v # w => hpc'[v] = hpc[v]
        /\ hpc[w] \in Reporting /\ wpc[w] # "asking"
    BY <1>0, <1>2 DEF TaskDoneLock, TaskDoneCount, Serving, Reporting, TypeOK, Control,
       WorkerControl, CallControl
  <2>2. MapFiles(w)'
    BY <2>1, MapFilesFrame, EmitsOfTask DEF WrittenInv
  <2> QED BY <2>1, <2>2, WrittenFrame
<1>3. ASSUME NEW w \in Workers,
             AskTaskScan(w) \/ TaskDoneAppend(w) \/ MapCreate(w) \/ MapEncode(w)
      PROVE  WrittenInv'
  BY <1>3, WrittenScan, WrittenAppend, WrittenCreate, WrittenEncode
<1>4. ASSUME NEW w \in Workers, AskTaskReturns(w) PROVE WrittenInv'
  <2>1. /\ files' = files /\ written' = written /\ work' = work /\ wi' = wi
        /\ wpc[w] = "asking" /\ hpc[w] = "replied" /\ hpc'[w] = "none"
        /\ wpc'[w] = NextStep(work[w]) /\ id'[w] = work[w].Id
        /\ \A v \in Workers : v # w => id'[v] = id[v] /\ wpc'[v] = wpc[v] /\ hpc'[v] = hpc[v]
    BY <1>0, <1>4 DEF AskTaskReturns, TypeOK
  <2>2. ASSUME work[w].TaskType = 1 PROVE MapFiles(w)'
    <3>1. wpc'[w] \in {"ask", "create"} /\ wi[w] = 0
      BY <1>0, <2>1, <2>2 DEF NextStep, Control, WorkerControl, TaskControl
    <3>2. NameOf(w)' = NameOf(w)
      <4>1. NameOf(w) = work[w].Id
        BY <2>1 DEF Ids, AskAnswered
      <4>2. work[w].Id # -1
        BY <1>0 DEF TypeOK, Reply
      <4> QED BY <2>1, <4>1, <4>2 DEF NameOf
    <3>3. Unlisted(w)'
      <4>1. Unlisted(w)
        BY <2>1, <2>2 DEF WrittenInv, MapFiles
      <4> QED BY <2>1, <3>2, <4>1 DEF Unlisted
    <3>4. wpc'[w] = "create" => Encoded(w, wi[w])'
      <4> SUFFICES ASSUME wpc'[w] = "create" PROVE Encoded(w, wi[w])'
        OBVIOUS
      <4>1. work[w].TaskId \in Maps
        BY <1>0, <2>1, <2>2 DEF NextStep, Control, WorkerControl, ReplyControl, ValidTask,
           MapReply, ReduceReply
      <4>2. Emits[work[w].TaskId] \subseteq Reduces
        BY <4>1, ConstantsAssumption
      <4>3. \A r \in Reduces : ~(r < 0)
        BY ConstantsAssumption DEF Reduces
      <4> QED BY <2>1, <3>1, <4>2, <4>3 DEF Encoded
    <3> QED BY <2>1, <3>1, <3>3, <3>4 DEF MapFiles
  <2>3. MapFiles(w)'
    BY <2>1, <2>2, MapFilesNoMap
  <2> QED BY <2>1, <2>3, WrittenFrame
<1>5. ASSUME NEW w \in Workers, CallTaskDone(w) PROVE WrittenInv'
  <2>1. /\ files' = files /\ written' = written /\ work' = work /\ wi' = wi /\ id' = id
        /\ wpc[w] = "report" /\ wpc'[w] = "reporting" /\ hpc'[w] = "lock"
        /\ \A v \in Workers : v # w => wpc'[v] = wpc[v] /\ hpc'[v] = hpc[v]
    BY <1>0, <1>5 DEF CallTaskDone, TypeOK
  <2>2. Encoded(w, NReduce) => Encoded(w, NReduce)'
    BY <2>1 DEF Encoded, TmpName
  <2>3. MapFiles(w)'
    BY <2>1, <2>2 DEF WrittenInv, MapFiles
  <2> QED BY <2>1, <2>3, WrittenFrame
<1>6. ASSUME NEW w \in Workers,
             \/ ReduceRead(w) \/ ReduceRename(w) \/ TaskDoneReturns(w) \/ CallFails(w) \/ Crash(w)
      PROVE  WrittenInv'
  <2>1. /\ files' = files /\ written' = written
        /\ \A v \in Workers : v # w => /\ work'[v] = work[v] /\ id'[v] = id[v] /\ wi'[v] = wi[v]
                                       /\ wpc'[v] = wpc[v] /\ hpc'[v] = hpc[v]
    BY <1>0, <1>6 DEF ReduceRead, ReduceRename, TaskDoneReturns, CallFails, Crash, TypeOK
  <2>2. CASE ReduceRead(w) \/ ReduceRename(w)
    <3>1. work'[w].TaskType = 2
      BY <1>0, <2>2 DEF ReduceRead, ReduceRename, Control, WorkerControl, TaskControl, ReduceReply
    <3> QED BY <2>1, <3>1, MapFilesNoMap, WrittenFrame
  <2>3. CASE TaskDoneReturns(w) \/ CallFails(w) \/ (Crash(w) /\ hpc[w] # "none")
    <3>1. /\ work'[w] = work[w] /\ id'[w] = id[w]
          /\ wpc'[w] \in {"ask", "exited", "crashed"}
          /\ hpc'[w] = hpc[w] \/ hpc'[w] = "none"
      BY <1>0, <2>3 DEF TaskDoneReturns, CallFails, Crash, TypeOK
    <3>2. MapFiles(w)'
      BY <2>1, <3>1, MapFilesFrame, EmitsOfTask DEF WrittenInv, Reporting
    <3> QED BY <2>1, <3>2, WrittenFrame
  <2>4. CASE Crash(w) /\ hpc[w] = "none"
    <3>1. work'[w].TaskType = 0
      BY <1>0, <2>4 DEF Crash, EmptyReply, TypeOK
    <3> QED BY <2>1, <3>1, MapFilesNoMap, WrittenFrame
  <2> QED BY <1>6, <2>2, <2>3, <2>4
<1>7. ASSUME (\E i \in Tasks : Expire(i)) \/ Main \/ UNCHANGED vars PROVE WrittenInv'
  <2>1. /\ files' = files /\ written' = written /\ work' = work /\ id' = id /\ wi' = wi
        /\ wpc' = wpc /\ hpc' = hpc
    BY <1>7 DEF Expire, Main, Done, CoordinatorExit, vars
  <2>2. ASSUME NEW v \in Workers PROVE MapFiles(v)'
    BY <2>1, MapFilesFrame, EmitsOfTask DEF WrittenInv
  <2> QED BY <2>1, <2>2 DEF WrittenInv, FilesWritten
<1> QED
  BY <1>1, <1>2, <1>3, <1>4, <1>5, <1>6, <1>7 DEF Next, Handler, Worker, Terminated

-----------------------------------------------------------------------------
(***************************************************************************)
(* The reduce tasks and their outputs.                                     *)
(***************************************************************************)

\* A task that is done stays done, and no map task is marked done twice.
LEMMA DoneStable ==
  ASSUME PhaseInv, [Next]_vars
  PROVE  /\ \A i \in Tasks : done[i] => done'[i]
         /\ AllMapped => AllMapped'
<1> USE DEF coordVars, mainVars, workerVars, fileVars
<1>0. TypeOK /\ Control
  BY DEF PhaseInv
<1>1. ASSUME NEW w \in Workers, TaskDoneLock(w)
      PROVE  (\A i \in Tasks : done[i] => done'[i]) /\ (AllMapped => AllMapped')
  <2> DEFINE k == ActualTaskId(w)
  <2>1. hpc[w] = "lock" /\ ValidTask(w) /\ k \in Tasks
    BY <1>0, <1>1, ActualTaskIdType DEF TaskDoneLock, Serving, Control, WorkerControl, TaskControl
  <2>2. /\ work' = work /\ \A v \in Workers : v # w => hpc'[v] = hpc[v]
        /\ \/ done' = done /\ hpc'[w] = "replied"
           \/ ~done[k] /\ done' = [done EXCEPT ![k] = TRUE]
    BY <1>0, <1>1 DEF TaskDoneLock, FirstReport, TypeOK
  <2>3. \A i \in Tasks : done[i] => done'[i]
    BY <1>0, <2>1, <2>2 DEF TypeOK
  <2>4. Maps \subseteq Tasks
    BY ConstantsAssumption DEF Maps, Tasks
  <2>5. ASSUME AllMapped, ~done[k] PROVE work[w].TaskType = 2
    BY <2>1, <2>5, ActualTaskIdType DEF AllMapped, ValidTask, MapReply, ReduceReply
  <2> QED BY <2>2, <2>3, <2>4, <2>5 DEF AllMapped
<1>2. ASSUME \A w \in Workers : ~TaskDoneLock(w) PROVE done' = done /\ (AllMapped => AllMapped')
  <2>1. done' = done
    BY <1>2 DEF Next, Main, Done, CoordinatorExit, Expire, Handler, Worker, Crash, Terminated,
       AskTaskId, AskTaskPhase, AskTaskScan, TaskDoneCount, TaskDoneAppend, CallAskTask,
       AskTaskReturns, MapCreate, MapEncode, ReduceRead, ReduceRename, CallTaskDone,
       TaskDoneReturns, CallFails, vars
  <2>2. ASSUME NEW v \in Workers, Locked(v)' PROVE Locked(v) /\ work'[v] = work[v]
    <3>1. ASSUME NEW w \in Workers, AskTaskId(w) \/ AskTaskPhase(w) \/ AskTaskScan(w)
          PROVE  Locked(v) /\ work'[v] = work[v]
      <4>1. /\ hpc'[w] \in {"askPhase", "scan", "replied"}
            /\ v # w => hpc'[v] = hpc[v] /\ work'[v] = work[v]
        BY <1>0, <3>1 DEF AskTaskId, AskTaskPhase, AskTaskScan, Serving, TypeOK
      <4> QED BY <2>2, <4>1 DEF Locked
    <3>2. ASSUME NEW w \in Workers, TaskDoneCount(w) \/ TaskDoneAppend(w)
          PROVE  Locked(v) /\ work'[v] = work[v]
      <4>1. /\ work' = work /\ Locked(w)
            /\ v # w => hpc'[v] = hpc[v]
        BY <1>0, <3>2 DEF TaskDoneCount, TaskDoneAppend, Serving, Locked, TypeOK
      <4> QED BY <2>2, <4>1 DEF Locked
    <3>3. ASSUME NEW w \in Workers,
                 \/ CallAskTask(w) \/ AskTaskReturns(w) \/ CallTaskDone(w) \/ TaskDoneReturns(w)
          PROVE  Locked(v) /\ work'[v] = work[v]
      <4>1. /\ ~Locked(w)' /\ v # w => hpc'[v] = hpc[v] /\ work'[v] = work[v]
        BY <1>0, <3>3 DEF CallAskTask, AskTaskReturns, CallTaskDone, TaskDoneReturns, Locked, TypeOK
      <4>2. ~Locked(w)'
        BY <1>0, <3>3 DEF CallAskTask, AskTaskReturns, CallTaskDone, TaskDoneReturns, Locked, TypeOK
      <4> QED BY <2>2, <4>1, <4>2 DEF Locked
    <3>4. ASSUME NEW w \in Workers,
                 \/ MapCreate(w) \/ MapEncode(w) \/ ReduceRead(w) \/ ReduceRename(w)
                 \/ CallFails(w) \/ Crash(w)
          PROVE  Locked(v) /\ work'[v] = work[v]
      <4>1. hpc' = hpc /\ (hpc[v] # "none" => work'[v] = work[v])
        BY <1>0, <3>4 DEF MapCreate, MapEncode, ReduceRead, ReduceRename, CallFails, Crash, TypeOK
      <4> QED BY <2>2, <4>1 DEF Locked
    <3>5. ASSUME (\E i \in Tasks : Expire(i)) \/ Main \/ UNCHANGED vars
          PROVE  Locked(v) /\ work'[v] = work[v]
      <4>1. hpc' = hpc /\ work' = work
        BY <3>5 DEF Expire, Main, Done, CoordinatorExit, vars
      <4> QED BY <2>2, <4>1 DEF Locked
    <3> QED
      BY <1>2, <3>1, <3>2, <3>3, <3>4, <3>5 DEF Next, Handler, Worker, Terminated
  <2> QED BY <2>1, <2>2 DEF AllMapped, Locked
<1> QED BY <1>1, <1>2

\* While a map task's files are appended nothing of the reduce phase exists.
LEMMA AppendBeforeReduce ==
  ASSUME PhaseInv, ReduceInv, NEW w \in Workers, TaskDoneAppend(w)
  PROVE  /\ \A v \in Workers : work[v].TaskType # 2
         /\ \A r \in Reduces : ~done[NMap + r] /\ out[r] = NoFile
<1>1. hpc[w] = "append" /\ work[w].TaskType = 1
  BY DEF TaskDoneAppend, Serving, PhaseInv, Control, WorkerControl, TaskControl, MapReply
<1>2. ~AllMapped
  BY <1>1 DEF AllMapped
<1> QED BY <1>2 DEF PhaseInv, Barrier, ReduceInv, Outputs

\* A step that leaves v's reduce task as it is, or v without one.
LEMMA ReduceTaskFrame ==
  ASSUME NEW v \in Workers, ReduceTask(v), files' = files, work'[v] = work[v],
         wpc'[v] \in {"read", "rename"} =>
             wpc'[v] = wpc[v] /\ wi'[v] = wi[v] /\ content'[v] = content[v],
         wpc'[v] \notin {"read", "rename"} =>
             content'[v] = <<>> \/ (content'[v] = content[v] /\ wpc[v] \notin {"read", "rename"}),
         wpc'[v] # "fatal"
  PROVE  ReduceTask(v)'
<1>1. BlocksOf(work[v].TaskId)' = BlocksOf(work[v].TaskId)
  BY DEF BlocksOf
<1> QED BY <1>1 DEF ReduceTask

LEMMA ReduceTaskNone ==
  ASSUME NEW v \in Workers, work'[v].TaskType # 2, content'[v] = <<>>,
         wpc'[v] \notin {"read", "rename", "fatal"}
  PROVE  ReduceTask(v)'
  BY DEF ReduceTask

\* The worker has read one more file of its list, and perhaps the last one.
LEMMA ReduceTaskRead ==
  ASSUME PhaseInv, WrittenInv, ReduceInv, NEW w \in Workers, ReduceRead(w)
  PROVE  ReduceTask(w)'
<1>0. TypeOK /\ Control
  BY DEF PhaseInv
<1>1. /\ wpc[w] = "read" /\ ReduceReply(w) /\ wi[w] < Len(work[w].Files) /\ wi[w] \in Nat
  BY <1>0 DEF ReduceRead, Control, WorkerControl, TaskControl, TypeOK
<1>2. PICK t \in Reduces : work[w].TaskId = t
  BY <1>1 DEF ReduceReply
<1>3. PICK fs \in Seq(Nat \X Maps \X Reduces) : fs = files[t] /\ work[w].Files = fs
  BY <1>0, <1>1, <1>2 DEF TypeOK, ReduceInv, ReduceTask, ReduceReply
<1>4. /\ Len(content[w]) = wi[w] /\ content[w] \in Seq(Maps \X Reduces)
      /\ \A p \in 1 .. wi[w] : content[w][p] = <<fs[p][2], fs[p][3]>>
  <2>1. \A p \in 1 .. wi[w] : p \in DOMAIN fs
    BY <1>1, <1>3
  <2>2. /\ Len(content[w]) = wi[w]
        /\ \A p \in 1 .. wi[w] : content[w][p] = BlocksOf(t)[p]
    BY <1>1, <1>2 DEF ReduceInv, ReduceTask
  <2>3. \A p \in DOMAIN fs : BlocksOf(t)[p] = <<fs[p][2], fs[p][3]>>
    BY <1>3 DEF BlocksOf
  <2> QED BY <1>0, <2>1, <2>2, <2>3 DEF TypeOK
<1>5. wi[w] + 1 \in DOMAIN fs /\ fs[wi[w] + 1] \in written
  <2>1. wi[w] + 1 \in DOMAIN fs
    BY <1>1, <1>3
  <2> QED BY <1>3, <2>1 DEF WrittenInv, FilesWritten
<1>6. PICK b \in Maps \X Reduces : b = <<fs[wi[w] + 1][2], fs[wi[w] + 1][3]>>
  <2>1. fs[wi[w] + 1] \in Nat \X Maps \X Reduces
    BY <1>3, <1>5
  <2> QED BY <2>1
<1>7. /\ work' = work /\ files' = files
      /\ content'[w] = Append(content[w], b)
      /\ \/ wi[w] + 1 = Len(fs) /\ wpc'[w] = "rename"
         \/ wi[w] + 1 # Len(fs) /\ wpc'[w] = "read" /\ wi'[w] = wi[w] + 1
  BY <1>0, <1>1, <1>3, <1>5, <1>6 DEF ReduceRead, TypeOK, coordVars
<1>8. /\ Len(content'[w]) = wi[w] + 1
      /\ content'[w] \in Seq(Maps \X Reduces)
      /\ \A p \in 1 .. wi[w] + 1 : content'[w][p] = <<fs[p][2], fs[p][3]>>
  <2>1. Len(content'[w]) = wi[w] + 1 /\ content'[w] \in Seq(Maps \X Reduces)
    BY <1>1, <1>4, <1>7
  <2>2. \A p \in 1 .. wi[w] : content'[w][p] = content[w][p]
    BY <1>1, <1>4, <1>7
  <2>3. content'[w][wi[w] + 1] = b
    BY <1>1, <1>4, <1>7
  <2>4. \A p \in 1 .. wi[w] + 1 : p \in 1 .. wi[w] \/ p = wi[w] + 1
    BY <1>1
  <2> QED BY <1>4, <1>6, <2>1, <2>2, <2>3, <2>4
<1>9. BlocksOf(t)' = [p \in DOMAIN fs |-> <<fs[p][2], fs[p][3]>>]
  BY <1>3, <1>7 DEF BlocksOf
<1>10. CASE wpc'[w] = "rename"
  <2>1. wi[w] + 1 = Len(fs)
    BY <1>7, <1>10
  <2>2. DOMAIN content'[w] = DOMAIN fs
    BY <1>3, <1>8, <2>1
  <2>3. content'[w] = BlocksOf(t)'
    <3>1. content'[w] = [p \in DOMAIN fs |-> content'[w][p]]
      BY <1>8, <2>2
    <3>2. DOMAIN fs = 1 .. wi[w] + 1
      BY <1>3, <2>1
    <3> QED BY <1>8, <1>9, <3>1, <3>2
  <2>4. fs # <<>>
    BY <1>1, <1>3
  <2> QED BY <1>2, <1>3, <1>7, <1>10, <2>3, <2>4 DEF ReduceTask
<1>11. CASE wpc'[w] = "read"
  <2>1. wi'[w] = wi[w] + 1
    BY <1>7, <1>11
  <2>2. \A p \in 1 .. wi[w] + 1 : p \in DOMAIN fs
    BY <1>1, <1>3
  <2>3. \A p \in 1 .. wi'[w] : content'[w][p] = BlocksOf(t)'[p]
    BY <1>8, <1>9, <2>1, <2>2
  <2> QED BY <1>2, <1>3, <1>7, <1>8, <1>11, <2>1, <2>3 DEF ReduceTask
<1> QED BY <1>7, <1>10, <1>11

LEMMA ReduceTasksNext ==
  PhaseInv /\ WrittenInv /\ ReduceInv /\ [Next]_vars => \A v \in Workers : ReduceTask(v)'
<1> SUFFICES ASSUME PhaseInv, WrittenInv, ReduceInv, [Next]_vars, NEW v \in Workers
             PROVE  ReduceTask(v)'
  OBVIOUS
<1> USE DEF coordVars, mainVars, workerVars, fileVars
<1>0. TypeOK /\ Control /\ ReduceTask(v)
  BY DEF PhaseInv, ReduceInv
\* A step of another worker, or of nobody.
<1>1. ASSUME files' = files, work'[v] = work[v], wpc'[v] = wpc[v], wi'[v] = wi[v],
             content'[v] = content[v]
      PROVE  ReduceTask(v)'
  <2>1. wpc[v] # "fatal"
    BY <1>0 DEF ReduceTask
  <2> QED BY <1>0, <1>1, <2>1, ReduceTaskFrame
<1>2. ASSUME NEW w \in Workers, TaskDoneAppend(w) PROVE ReduceTask(v)'
  <2>1. work' = work /\ wpc' = wpc /\ content' = content
    BY <1>2 DEF TaskDoneAppend
  <2>2. work[v].TaskType # 2
    BY <1>2, AppendBeforeReduce
  <2>3. wpc[v] \notin {"read", "rename", "fatal"}
    BY <1>0, <2>2 DEF ReduceTask, Control, WorkerControl, TaskControl, ReduceReply
  <2>4. content[v] = <<>>
    BY <1>0, <2>3 DEF ReduceTask
  <2> QED BY <2>1, <2>2, <2>3, <2>4, ReduceTaskNone
<1>3. ASSUME NEW w \in Workers, TaskDoneLock(w) \/ TaskDoneCount(w) PROVE ReduceTask(v)'
  BY <1>1, <1>3 DEF TaskDoneLock, TaskDoneCount
<1>4. ASSUME NEW w \in Workers,
             AskTaskId(w) \/ AskTaskPhase(w) \/ AskTaskScan(w) \/ CallAskTask(w)
      PROVE  ReduceTask(v)'
  <2>1. /\ files' = files /\ wi' = wi /\ content' = content
        /\ wpc'[w] = wpc[w] \/ wpc'[w] = "asking"
        /\ v # w => work'[v] = work[v] /\ wpc'[v] = wpc[v]
    BY <1>0, <1>4 DEF AskTaskId, AskTaskPhase, AskTaskScan, CallAskTask, TypeOK
  <2>2. ReduceTask(w)
    BY DEF ReduceInv
  <2>3. wpc[w] \notin {"read", "rename", "fatal"} /\ content[w] = <<>>
    BY <1>0, <1>4, <2>2 DEF ReduceTask, AskTaskId, AskTaskPhase, AskTaskScan, CallAskTask, Serving,
       Control, WorkerControl, CallControl, Idle
  <2>4. CASE work'[w].TaskType # 2
    BY <1>1, <2>1, <2>3, <2>4, ReduceTaskNone
  <2>5. CASE work'[w].TaskType = 2
    <3>1. \/ work'[w] = work[w]
          \/ AskTaskScan(w) /\ work'[w] = TaskReply(w, hi[w])
      BY <1>0, <1>4, <2>5 DEF AskTaskId, AskTaskPhase, AskTaskScan, CallAskTask, NoTask, EmptyReply,
         TypeOK
    <3>2. CASE work'[w] = work[w]
      BY <1>1, <2>1, <2>2, <2>3, <3>2, ReduceTaskFrame
    <3>3. CASE AskTaskScan(w) /\ work'[w] = TaskReply(w, hi[w])
      <4>1. hi[w] \in Tasks /\ hi[w] >= NMap
        <5>1. hi[w] \in Tasks
          BY <1>0 DEF TypeOK
        <5> QED BY <1>0, <2>5, <3>3, <5>1, TaskReplyType, ConstantsAssumption DEF Tasks
      <4>2. work'[w].TaskId \in Reduces /\ work'[w].Files = files[work'[w].TaskId]
        BY <1>0, <3>3, <4>1, TaskReplyType
      <4>3. ReduceTask(w)'
        BY <2>1, <2>3, <4>2 DEF ReduceTask
      <4> QED BY <1>1, <2>1, <4>3
    <3> QED BY <3>1, <3>2, <3>3
  <2> QED BY <2>4, <2>5
<1>5. ASSUME NEW w \in Workers, AskTaskReturns(w) PROVE ReduceTask(v)'
  <2>1. /\ files' = files /\ wi' = wi /\ content' = content /\ work' = work
        /\ v # w => wpc'[v] = wpc[v]
        /\ wpc[w] = "asking" /\ hpc[w] = "replied" /\ wpc'[w] = NextStep(work[w])
    BY <1>0, <1>5 DEF AskTaskReturns, TypeOK
  <2>2. content[w] = <<>> /\ wi[w] = 0
    BY <1>0, <2>1 DEF ReduceInv, ReduceTask, Control, WorkerControl, TaskControl
  <2>3. CASE wpc'[w] = "read"
    <3>1. ReduceTask(w)'
      BY <2>1, <2>2, <2>3 DEF ReduceInv, ReduceTask
    <3> QED BY <1>1, <2>1, <3>1
  <2>4. CASE wpc'[w] # "read"
    <3>1. wpc'[w] \in {"ask", "create", "report"}
      BY <2>1, <2>4 DEF NextStep
    <3>2. ReduceTask(w)'
      BY <2>1, <2>2, <3>1, ReduceTaskFrame DEF ReduceInv
    <3> QED BY <1>1, <2>1, <3>2
  <2> QED BY <2>3, <2>4
<1>6. ASSUME NEW w \in Workers, ReduceRead(w) PROVE ReduceTask(v)'
  <2>1. CASE v = w
    BY <1>6, <2>1, ReduceTaskRead
  <2>2. CASE v # w
    BY <1>0, <1>1, <1>6, <2>2 DEF ReduceRead, TypeOK
  <2> QED BY <2>1, <2>2
<1>7. ASSUME NEW w \in Workers,
             \/ MapCreate(w) \/ MapEncode(w) \/ ReduceRename(w) \/ CallTaskDone(w)
             \/ TaskDoneReturns(w) \/ CallFails(w)
      PROVE  ReduceTask(v)'
  <2>1. /\ files' = files /\ work' = work
        /\ v # w => wpc'[v] = wpc[v] /\ content'[v] = content[v] /\ wi'[v] = wi[v]
        /\ wpc'[w] \in {"create", "encode", "report", "reporting", "ask", "exited"}
        /\ content'[w] = <<>> \/ (content'[w] = content[w] /\ wpc[w] \notin {"read", "rename"})
    BY <1>0, <1>7 DEF MapCreate, MapEncode, ReduceRename, CallTaskDone, TaskDoneReturns, CallFails,
       AfterPartition, Calling, TypeOK
  <2> QED BY <1>0, <1>1, <2>1, ReduceTaskFrame
<1>8. ASSUME NEW w \in Workers, Crash(w) PROVE ReduceTask(v)'
  <2>1. /\ files' = files
        /\ v # w => wpc'[v] = wpc[v] /\ content'[v] = content[v] /\ wi'[v] = wi[v] /\ work'[v] = work[v]
        /\ wpc'[w] = "crashed" /\ content'[w] = <<>>
        /\ work'[w] = work[w] \/ work'[w] = EmptyReply
    BY <1>0, <1>8 DEF Crash, TypeOK
  <2>2. EmptyReply.TaskType # 2
    BY DEF EmptyReply
  <2> QED BY <1>0, <1>1, <2>1, <2>2, ReduceTaskFrame, ReduceTaskNone
<1>9. ASSUME (\E i \in Tasks : Expire(i)) \/ Main \/ UNCHANGED vars PROVE ReduceTask(v)'
  BY <1>1, <1>9 DEF Expire, Main, Done, CoordinatorExit, vars
<1> QED
  BY <1>2, <1>3, <1>4, <1>5, <1>6, <1>7, <1>8, <1>9 DEF Next, Handler, Worker, Terminated

\* A step that publishes nothing, marks no task done and asks for no more
\* than is published already.
LEMMA OutputsFrame ==
  ASSUME PhaseInv, Outputs, [Next]_vars, files' = files, out' = out, done' = done,
         \A v \in Workers :
            /\ work'[v].TaskType = 2
            /\ wpc'[v] = "report" \/ hpc'[v] \in {"lock", "count"}
            => \/ files[work'[v].TaskId] = <<>>
               \/ /\ work'[v] = work[v]
                  /\ wpc[v] = "report" \/ hpc[v] \in {"lock", "count"}
  PROVE  Outputs'
<1>1. AllMapped => AllMapped'
  BY DoneStable
<1>2. \A r : BlocksOf(r)' = BlocksOf(r) /\ (Published(r)' <=> Published(r))
  BY DEF BlocksOf, Published
<1>3. \A v \in Workers :
         /\ work'[v].TaskType = 2
         /\ wpc'[v] = "report" \/ hpc'[v] \in {"lock", "count"}
         => Published(work'[v].TaskId)
  BY DEF Outputs, Published
<1>4. \A v \in Workers : work'[v].TaskType = 2 /\ (wpc'[v] = "report" \/ hpc'[v] \in {"lock", "count"})
         => (Published(work[v].TaskId))'
  BY <1>3 DEF Published
<1> QED BY <1>1, <1>2, <1>4 DEF Outputs

LEMMA OutputsRename ==
  ASSUME PhaseInv, ReduceInv, [Next]_vars, NEW w \in Workers, ReduceRename(w)
  PROVE  /\ Outputs'
         /\ \A r \in Reduces : out[r] # NoFile => out'[r] = out[r]
         /\ AllMapped /\ out' = [out EXCEPT ![work[w].TaskId] = BlocksOf(work[w].TaskId)]
<1>0. TypeOK /\ Control
  BY DEF PhaseInv
<1>1. wpc[w] = "rename" /\ ReduceReply(w) /\ hpc[w] = "none"
  BY <1>0 DEF ReduceRename, Control, WorkerControl, TaskControl, CallControl, Idle
<1>2. PICK t \in Reduces : work[w].TaskId = t
  BY <1>1 DEF ReduceReply
<1>3. content[w] = BlocksOf(t) /\ files[t] # <<>>
  BY <1>1, <1>2 DEF ReduceInv, ReduceTask
<1>4. BlocksOf(t) # NoFile
  <2>1. files[t] \in Seq(Nat \X Maps \X Reduces)
    BY <1>0 DEF TypeOK
  <2>2. DOMAIN BlocksOf(t) = 1 .. Len(files[t]) /\ Len(files[t]) > 0
    BY <1>3, <2>1 DEF BlocksOf
  <2> QED BY <2>1, <2>2 DEF NoFile
<1>5. AllMapped /\ AllMapped'
  BY <1>1, DoneStable DEF ReduceReply, PhaseInv, Barrier
<1>6. /\ files' = files /\ done' = done /\ work' = work /\ hpc' = hpc
      /\ out' = [out EXCEPT ![t] = BlocksOf(t)]
      /\ \A v \in Workers : v # w => wpc'[v] = wpc[v]
  BY <1>0, <1>2, <1>3 DEF ReduceRename, coordVars, TypeOK
<1>7. out'[t] = BlocksOf(t) /\ \A r \in Reduces : r # t => out'[r] = out[r]
  BY <1>0, <1>6 DEF TypeOK
<1>8. \A r \in Reduces : out[r] # NoFile => out'[r] = out[r]
  BY <1>7 DEF ReduceInv, Outputs
<1>9. \A r : BlocksOf(r)' = BlocksOf(r)
  BY <1>6 DEF BlocksOf
<1>10. \A r \in Reduces : Published(r) => Published(r)'
  BY <1>6, <1>8 DEF Published
<1>11. Published(t)'
  BY <1>4, <1>7 DEF Published
<1>12. ASSUME NEW v \in Workers, work'[v].TaskType = 2,
              wpc'[v] = "report" \/ hpc'[v] \in {"lock", "count"}
       PROVE  Published(work[v].TaskId)'
  <2>1. work[v].TaskId \in Reduces
    BY <1>6, <1>12 DEF ReduceInv, ReduceTask
  <2>2. PICK r \in Reduces : r = work[v].TaskId
    BY <2>1
  <2>3. Published(r)'
    BY <1>1, <1>2, <1>6, <1>10, <1>11, <1>12, <2>2 DEF ReduceInv, Outputs
  <2> QED BY <1>6, <2>2, <2>3 DEF Published
<1>13. Outputs'
  <2>1. \A r \in Reduces : out'[r] # NoFile => AllMapped' /\ out'[r] = BlocksOf(r)'
    BY <1>5, <1>7, <1>9 DEF ReduceInv, Outputs
  <2>2. \A r \in Reduces : done'[NMap + r] => Published(r)'
    BY <1>6, <1>10 DEF ReduceInv, Outputs
  <2> QED BY <1>12, <2>1, <2>2 DEF Outputs
<1> QED BY <1>2, <1>5, <1>6, <1>8, <1>13

LEMMA OutputsNext == PhaseInv /\ ReduceInv /\ [Next]_vars => Outputs'
<1> SUFFICES ASSUME PhaseInv, ReduceInv, [Next]_vars PROVE Outputs'
  OBVIOUS
<1> USE DEF coordVars, mainVars, workerVars, fileVars
<1>0. TypeOK /\ Control /\ Outputs /\ \A v \in Workers : ReduceTask(v)
  BY DEF PhaseInv, ReduceInv
<1>1. ASSUME NEW w \in Workers, TaskDoneLock(w) PROVE Outputs'
  <2>1. /\ files' = files /\ out' = out /\ work' = work /\ wpc' = wpc
        /\ \A v \in Workers : v # w => hpc'[v] = hpc[v]
        /\ hpc[w] = "lock"
    BY <1>0, <1>1 DEF TaskDoneLock, Serving, TypeOK
  <2>2. CASE done' = done
    BY <1>0, <2>1, <2>2, OutputsFrame
  <2>3. CASE done' # done
    <3>1. done' = [done EXCEPT ![ActualTaskId(w)] = TRUE] /\ ValidTask(w)
      BY <1>0, <1>1, <2>3 DEF TaskDoneLock, Serving, Control, WorkerControl, TaskControl
    <3>2. \A r : BlocksOf(r)' = BlocksOf(r) /\ (Published(r)' <=> Published(r))
      BY <2>1 DEF BlocksOf, Published
    <3>3. ASSUME NEW r \in Reduces, done'[NMap + r] PROVE Published(r)
      <4>1. CASE done[NMap + r]
        BY <1>0, <4>1 DEF Outputs
      <4>2. CASE ~done[NMap + r]
        <5>1. ActualTaskId(w) = NMap + r
          BY <1>0, <3>1, <3>3, <4>2 DEF TypeOK
        <5>2. work[w].TaskType = 2 /\ work[w].TaskId = r
          BY <3>1, <5>1, ConstantsAssumption DEF ValidTask, MapReply, ReduceReply,
             ActualTaskId, Maps, Reduces
        <5> QED BY <1>0, <2>1, <5>2 DEF Outputs
      <4> QED BY <4>1, <4>2
    <3>4. AllMapped => AllMapped'
      BY DoneStable
    <3>5. \A v \in Workers : hpc'[v] \in {"lock", "count"} => hpc[v] \in {"lock", "count"}
      BY <2>1
    <3>6. \A v \in Workers : Published(work[v].TaskId)' <=> Published(work[v].TaskId)
      BY <2>1 DEF Published
    <3> QED BY <1>0, <2>1, <3>2, <3>3, <3>4, <3>5, <3>6 DEF Outputs
  <2> QED BY <2>2, <2>3
<1>2. ASSUME NEW w \in Workers, TaskDoneAppend(w) PROVE Outputs'
  <2>1. done' = done /\ out' = out /\ work' = work
    BY <1>2 DEF TaskDoneAppend
  <2>2. /\ \A v \in Workers : work[v].TaskType # 2
        /\ \A r \in Reduces : ~done[NMap + r] /\ out[r] = NoFile
    BY <1>2, AppendBeforeReduce
  <2> QED BY <2>1, <2>2 DEF Outputs
<1>3. ASSUME NEW w \in Workers, ReduceRename(w) PROVE Outputs'
  BY <1>3, OutputsRename
<1>4. ASSUME NEW w \in Workers,
             \/ AskTaskId(w) \/ AskTaskPhase(w) \/ AskTaskScan(w) \/ TaskDoneCount(w)
             \/ CallAskTask(w) \/ TaskDoneReturns(w) \/ CallFails(w) \/ Crash(w)
      PROVE  Outputs'
  <2>1. /\ files' = files /\ out' = out /\ done' = done
        /\ \A v \in Workers : v # w => /\ work'[v] = work[v] /\ wpc'[v] = wpc[v]
                                       /\ hpc'[v] = hpc[v]
    BY <1>0, <1>4 DEF AskTaskId, AskTaskPhase, AskTaskScan, TaskDoneCount, CallAskTask,
       TaskDoneReturns, CallFails, Crash, TypeOK
  <2>2. /\ wpc'[w] # "report"
        /\ hpc'[w] \in {"lock", "count"} => hpc'[w] = hpc[w] /\ work'[w] = work[w]
    BY <1>0, <1>4 DEF AskTaskId, AskTaskPhase, AskTaskScan, TaskDoneCount, CallAskTask,
       TaskDoneReturns, CallFails, Crash, Serving, TypeOK, Control, WorkerControl,
       CallControl, Idle
  <2> QED BY <1>0, <2>1, <2>2, OutputsFrame
<1>5. ASSUME NEW w \in Workers, AskTaskReturns(w) PROVE Outputs'
  <2>1. /\ files' = files /\ out' = out /\ done' = done /\ work' = work
        /\ wpc'[w] = NextStep(work[w]) /\ hpc'[w] = "none"
        /\ \A v \in Workers : v # w => wpc'[v] = wpc[v] /\ hpc'[v] = hpc[v]
    BY <1>0, <1>5 DEF AskTaskReturns, TypeOK
  <2>2. work[w].TaskType = 2 /\ wpc'[w] = "report" => files[work[w].TaskId] = <<>>
    BY <1>0, <2>1 DEF NextStep, ReduceTask
  <2> QED BY <1>0, <2>1, <2>2, OutputsFrame
<1>6. ASSUME NEW w \in Workers,
             MapCreate(w) \/ MapEncode(w) \/ ReduceRead(w) \/ CallTaskDone(w)
      PROVE  Outputs'
  <2>1. /\ files' = files /\ out' = out /\ done' = done /\ work' = work
        /\ \A v \in Workers : v # w => wpc'[v] = wpc[v] /\ hpc'[v] = hpc[v]
    BY <1>0, <1>6 DEF MapCreate, MapEncode, AfterPartition, ReduceRead, CallTaskDone, TypeOK
  <2>2. CASE MapCreate(w) \/ MapEncode(w)
    <3>1. work[w].TaskType # 2
      BY <1>0, <2>2 DEF MapCreate, MapEncode, Control, WorkerControl, TaskControl, MapReply
    <3> QED BY <1>0, <2>1, <3>1, OutputsFrame
  <2>3. CASE ReduceRead(w)
    <3>1. hpc' = hpc /\ wpc'[w] # "report"
      BY <1>0, <2>3 DEF ReduceRead, TypeOK
    <3> QED BY <1>0, <2>1, <3>1, OutputsFrame
  <2>4. CASE CallTaskDone(w)
    <3>1. wpc[w] = "report"
      BY <2>4 DEF CallTaskDone
    <3> QED BY <1>0, <2>1, <3>1, OutputsFrame
  <2> QED BY <1>6, <2>2, <2>3, <2>4
<1>7. ASSUME (\E i \in Tasks : Expire(i)) \/ Main \/ UNCHANGED vars PROVE Outputs'
  <2>1. /\ files' = files /\ out' = out /\ done' = done /\ work' = work
        /\ wpc' = wpc /\ hpc' = hpc
    BY <1>7 DEF Expire, Main, Done, CoordinatorExit, vars
  <2> QED BY <1>0, <2>1, OutputsFrame
<1> QED
  BY <1>1, <1>2, <1>3, <1>4, <1>5, <1>6, <1>7 DEF Next, Handler, Worker, Terminated

LEMMA MainNext == PhaseInv /\ MainInv /\ [Next]_vars => MainInv'
<1> SUFFICES ASSUME PhaseInv, MainInv, [Next]_vars PROVE MainInv'
  OBVIOUS
<1> USE DEF coordVars, mainVars, workerVars, fileVars
<1>0. TypeOK
  BY DEF PhaseInv
<1>1. \A i \in Tasks : done[i] => done'[i]
  BY DoneStable
<1>2. CASE Main
  <2>1. done' = done /\ wpc' = wpc /\ mi \in Tasks
    BY <1>0, <1>2 DEF Main, Done, CoordinatorExit, TypeOK
  <2>2. CASE CoordinatorExit
    BY <2>1, <2>2 DEF CoordinatorExit, MainInv
  <2>3. CASE Done
    <3>1. \/ mi' = 0 /\ mpc' = mpc
          \/ LastTask(mi) /\ done[mi] /\ mi' = 0 /\ mpc' = "exiting"
          \/ done[mi] /\ mi' = mi + 1 /\ mpc' = mpc
      BY <2>3 DEF Done
    <3>2. mpc = "polling"
      BY <2>3 DEF Done
    <3>3. ASSUME NEW i \in Tasks, i < mi' \/ mpc' # "polling" PROVE done[i]
      <4>1. i < mi \/ (i = mi /\ done[mi])
        BY <2>1, <3>1, <3>2, <3>3, ConstantsAssumption DEF Tasks, LastTask
      <4> QED BY <4>1 DEF MainInv
    <3> QED BY <2>1, <3>2, <3>3 DEF MainInv
  <2> QED BY <1>2, <2>2, <2>3 DEF Main
<1>3. CASE ~Main
  <2>1. mi' = mi /\ mpc' = mpc
    BY <1>3 DEF Next, Expire, Handler, Worker, Crash, Terminated, AskTaskId, AskTaskPhase,
       AskTaskScan, TaskDoneLock, TaskDoneCount, TaskDoneAppend, CallAskTask, AskTaskReturns,
       MapCreate, MapEncode, ReduceRead, ReduceRename, CallTaskDone, TaskDoneReturns,
       CallFails, vars
  <2>2. ASSUME NEW v \in Workers, wpc'[v] = "exited", wpc[v] # "exited" PROVE mpc = "exited"
    <3>1. PICK w \in Workers :
             \/ CallFails(w)
             \/ AskTaskReturns(w) /\ wpc'[v] = NextStep(work[w])
      BY <1>0, <1>3, <2>2 DEF Next, Expire, Handler, Worker, Crash, Terminated, AskTaskId,
         AskTaskPhase, AskTaskScan, TaskDoneLock, TaskDoneCount, TaskDoneAppend, CallAskTask,
         AskTaskReturns, MapCreate, MapEncode, AfterPartition, ReduceRead, ReduceRename,
         CallTaskDone, TaskDoneReturns, vars, TypeOK
    <3> QED BY <2>2, <3>1 DEF CallFails, NextStep
  <2> QED BY <1>1, <2>1, <2>2 DEF MainInv
<1> QED BY <1>2, <1>3

-----------------------------------------------------------------------------
(***************************************************************************)
(* The inductive invariant and what it implies.                            *)
(***************************************************************************)

LEMMA JobInit == Init => JobInv
<1> SUFFICES ASSUME Init PROVE JobInv
  OBVIOUS
<1>0. PhaseInv
  BY PhaseInit
<1>1. Ids
  BY DEF Init, Ids, Named, AskAnswered
<1>2. FilesExact
  <2>1. \A m \in Maps : m \in Tasks
    BY ConstantsAssumption DEF Maps, Tasks
  <2> QED BY <2>1 DEF Init, FilesExact, Listed
<1>3. WrittenInv
  BY DEF Init, WrittenInv, FilesWritten, MapFiles, EmptyReply
<1>4. ReduceInv
  <2>1. \A r \in Reduces : NMap + r \in Tasks
    BY ConstantsAssumption DEF Reduces, Tasks
  <2>2. \A w \in Workers : ReduceTask(w)
    BY DEF Init, ReduceTask, EmptyReply
  <2>3. Outputs
    BY <2>1 DEF Init, Outputs, NoFile
  <2> QED BY <2>2, <2>3 DEF ReduceInv
<1>5. MainInv
  <2>1. \A i \in Tasks : ~(i < 0)
    BY ConstantsAssumption DEF Tasks
  <2> QED BY <2>1 DEF Init, MainInv
<1> QED BY <1>0, <1>1, <1>2, <1>3, <1>4, <1>5 DEF JobInv

LEMMA JobNext == JobInv /\ [Next]_vars => JobInv'
  BY PhaseNext, IdsNext, FilesNext, WrittenNext, ReduceTasksNext, OutputsNext, MainNext
     DEF JobInv, ReduceInv

LEMMA JobInvariant == Spec => []JobInv
<1> QED BY JobInit, JobNext, PTL DEF Spec

\* Once every map task is finished the list of a partition has one file of
\* every map task that feeds it.
LEMMA BlocksExact ==
  ASSUME JobInv, AllMapped, NEW r \in Reduces
  PROVE  /\ ExactBlocks(BlocksOf(r), r)
         /\ files[r] = <<>> => InputsOf(r) = {}
<1>0. files[r] \in Seq(Nat \X Maps \X Reduces)
  BY DEF JobInv, PhaseInv, TypeOK
<1>1. ASSUME NEW m \in Maps PROVE Listed(m, r) <=> r \in Emits[m]
  <2>1. ~Pending(m, r)
    <3> SUFFICES ASSUME NEW w \in Workers, Locked(w), ActualTaskId(w) = m PROVE FALSE
      BY DEF Pending, Locked
    <3>1. ValidTask(w) /\ work[w].TaskType = 2
      BY DEF JobInv, PhaseInv, Control, WorkerControl, TaskControl, Locked, AllMapped
    <3> QED BY <3>1, ActualTaskIdType
  <2> QED BY <2>1 DEF JobInv, FilesExact, AllMapped
<1>2. /\ DOMAIN BlocksOf(r) = DOMAIN files[r]
      /\ \A p \in DOMAIN files[r] : /\ files[r][p][2] \in Maps
                                    /\ BlocksOf(r)[p] = <<files[r][p][2], r>>
  <2>1. \A p \in DOMAIN files[r] : files[r][p] \in Nat \X Maps \X Reduces
    BY <1>0
  <2> QED BY <2>1 DEF BlocksOf, JobInv, FilesExact
<1>3. {BlocksOf(r)[p] : p \in DOMAIN BlocksOf(r)} \subseteq InputsOf(r) \X {r}
  <2> SUFFICES ASSUME NEW p \in DOMAIN files[r] PROVE BlocksOf(r)[p] \in InputsOf(r) \X {r}
    BY <1>2
  <2>1. PICK m \in Maps : m = files[r][p][2]
    BY <1>2
  <2>2. Listed(m, r)
    BY <2>1 DEF Listed
  <2>3. m \in InputsOf(r)
    BY <1>1, <2>2 DEF InputsOf
  <2> QED BY <1>2, <2>1, <2>3
<1>4. InputsOf(r) \X {r} \subseteq {BlocksOf(r)[p] : p \in DOMAIN BlocksOf(r)}
  <2> SUFFICES ASSUME NEW m \in Maps, r \in Emits[m]
               PROVE  <<m, r>> \in {BlocksOf(r)[p] : p \in DOMAIN BlocksOf(r)}
    BY DEF InputsOf
  <2>1. PICK p \in DOMAIN files[r] : files[r][p][2] = m
    BY <1>1 DEF Listed
  <2> QED BY <1>2, <2>1
<1>5. \A p, q \in DOMAIN BlocksOf(r) : BlocksOf(r)[p] = BlocksOf(r)[q] => p = q
  BY <1>2 DEF JobInv, FilesExact
<1>6. files[r] = <<>> => InputsOf(r) = {}
  BY <1>1 DEF Listed, InputsOf
<1> QED BY <1>3, <1>4, <1>5, <1>6 DEF ExactBlocks

-----------------------------------------------------------------------------
(***************************************************************************)
(* Theorems                                                                *)
(***************************************************************************)

\* Every reduce task AskTask hands out lists one file of every map task that
\* has keys for it and no other, however often the map tasks were executed
\* and however their reports interleaved.
THEOREM ReduceInputIsComplete == Spec => []ReduceInputComplete
<1>1. ASSUME JobInv PROVE ReduceInputComplete
  <2> SUFFICES ASSUME NEW w \in Workers, work[w].TaskType = 2
               PROVE  ExactBlocks([p \in DOMAIN work[w].Files |->
                                      <<work[w].Files[p][2], work[w].Files[p][3]>>],
                                  work[w].TaskId)
    BY DEF ReduceInputComplete
  <2>1. AllMapped
    BY <1>1 DEF JobInv, PhaseInv, Barrier
  <2>2. work[w].TaskId \in Reduces /\ work[w].Files = files[work[w].TaskId]
    BY <1>1 DEF JobInv, ReduceInv, ReduceTask
  <2>3. ExactBlocks(BlocksOf(work[w].TaskId), work[w].TaskId)
    BY <1>1, <2>1, <2>2, BlocksExact
  <2> QED BY <2>2, <2>3 DEF BlocksOf
<1> QED BY <1>1, JobInvariant, PTL

\* No file a reduce task lists is ever missing or half written: a worker
\* truncates only files that carry its own id and that nobody has listed, so
\* the log.Fatal on a reduce input is never reached.
THEOREM InputsAreReadable == Spec => []InputsReadable
<1>1. JobInv => InputsReadable
  BY DEF JobInv, WrittenInv, FilesWritten, ReduceInv, ReduceTask, InputsReadable
<1> QED BY <1>1, JobInvariant, PTL

\* Every mr-out file that exists holds each block of its partition once.
THEOREM OutputIsCorrect == Spec => []OutputCorrect
<1>1. ASSUME JobInv PROVE OutputCorrect
  <2> SUFFICES ASSUME NEW r \in Reduces, out[r] # NoFile PROVE ExactBlocks(out[r], r)
    BY DEF OutputCorrect
  <2>1. AllMapped /\ out[r] = BlocksOf(r)
    BY <1>1 DEF JobInv, ReduceInv, Outputs
  <2> QED BY <1>1, <2>1, BlocksExact
<1> QED BY <1>1, JobInvariant, PTL

\* The coordinator leaves its polling loop, and a worker exits, only when
\* every partition that has input has its output file.
THEOREM NobodyExitsEarly == Spec => []NoEarlyExit
<1>1. ASSUME JobInv PROVE NoEarlyExit
  <2> SUFFICES ASSUME mpc # "polling" \/ \E w \in Workers : wpc[w] = "exited",
                      NEW r \in Reduces, InputsOf(r) # {}
               PROVE  out[r] # NoFile
    BY DEF NoEarlyExit
  <2>1. mpc # "polling"
    BY <1>1 DEF JobInv, MainInv
  <2>2. NMap + r \in Tasks
    BY ConstantsAssumption DEF Reduces, Tasks
  <2>3. done[NMap + r]
    BY <1>1, <2>1, <2>2 DEF JobInv, MainInv
  <2>4. AllMapped /\ Published(r)
    BY <1>1, <2>3 DEF JobInv, PhaseInv, Barrier, ReduceInv, Outputs
  <2> QED BY <1>1, <2>4, BlocksExact DEF Published
<1> QED BY <1>1, JobInvariant, PTL

\* Only the rename of a reduce task's result touches an output file.
LEMMA OutChanges ==
  ASSUME [Next]_vars, out' # out
  PROVE  \E w \in Workers : ReduceRename(w)
  BY DEF Next, Main, Done, CoordinatorExit, Expire, Handler, Worker, Crash, Terminated,
     AskTaskId, AskTaskPhase, AskTaskScan, TaskDoneLock, TaskDoneCount, TaskDoneAppend,
     CallAskTask, AskTaskReturns, MapCreate, MapEncode, ReduceRead, CallTaskDone,
     TaskDoneReturns, CallFails, vars, fileVars

\* Once an output file is in place, the renames of late executions of the
\* same reduce task put the same contents there.
THEOREM OutputIsStable == Spec => OutputStable
<1>1. ASSUME JobInv, [Next]_vars
      PROVE  [\A r \in Reduces : out[r] # NoFile => out'[r] = out[r]]_out
  <2> SUFFICES ASSUME out' # out
               PROVE  \A r \in Reduces : out[r] # NoFile => out'[r] = out[r]
    OBVIOUS
  <2>1. PICK w \in Workers : ReduceRename(w)
    BY <1>1, OutChanges
  <2> QED BY <1>1, <2>1, OutputsRename DEF JobInv
<1> QED BY <1>1, JobInvariant, PTL DEF Spec, OutputStable

-----------------------------------------------------------------------------
(***************************************************************************)
(* The refinement of MRJob: the first TaskDone of a task finishes it, the  *)
(* rename of an output publishes it, the last iteration of Done() ends the *)
(* job, and every other step is invisible.                                 *)
(***************************************************************************)

ResultOf(r) == {out[r][p] : p \in DOMAIN out[r]}

\* What a finished reduce task leaves behind is what the job promises.
LEMMA ResultComplete ==
  ASSUME JobInv, AllMapped, NEW r \in Reduces, Published(r)
  PROVE  ResultOf(r) = InputsOf(r) \X {r}
<1>1. ExactBlocks(BlocksOf(r), r) /\ (files[r] = <<>> => InputsOf(r) = {})
  BY BlocksExact
<1>2. CASE out[r] # NoFile
  <2>1. out[r] = BlocksOf(r)
    BY <1>2 DEF JobInv, ReduceInv, Outputs
  <2> QED BY <1>1, <2>1 DEF ExactBlocks, ResultOf
<1>3. CASE out[r] = NoFile
  <2>1. InputsOf(r) = {}
    BY <1>1, <1>3 DEF Published
  <2>2. DOMAIN out[r] = {}
    BY <1>3 DEF NoFile
  <2> QED BY <2>1, <2>2 DEF ResultOf
<1> QED BY <1>2, <1>3

LEMMA JobComplete == \A r \in Reduces : Job!Complete(r) = InputsOf(r) \X {r}
  BY DEF Job!Complete, Job!Maps, Maps, InputsOf

LEMMA JobInitRefines == Init => Job!Init
<1> SUFFICES ASSUME Init PROVE Job!Init
  OBVIOUS
<1>1. {m \in Maps : done[m]} = {}
  <2>1. \A m \in Maps : m \in Tasks
    BY ConstantsAssumption DEF Maps, Tasks
  <2> QED BY <2>1 DEF Init
<1>2. {r \in Reduces : done[NMap + r]} = {}
  <2>1. \A r \in Reduces : NMap + r \in Tasks
    BY ConstantsAssumption DEF Reduces, Tasks
  <2> QED BY <2>1 DEF Init
<1>3. [r \in Reduces |-> {out[r][p] : p \in DOMAIN out[r]}] = [r \in Job!Reduces |-> {}]
  BY DEF Init, NoFile, Job!Reduces, Reduces
<1> QED BY <1>1, <1>2, <1>3 DEF Init, Job!Init

\* The first report of a map task or of a reduce task.
LEMMA FirstReportRefines ==
  ASSUME JobInv, NEW w \in Workers, TaskDoneLock(w), ~done[ActualTaskId(w)]
  PROVE  Job!Next
<1>0. TypeOK /\ Control
  BY DEF JobInv, PhaseInv
<1>1. hpc[w] = "lock" /\ ValidTask(w)
  BY <1>0 DEF TaskDoneLock, Serving, Control, WorkerControl, TaskControl
<1>2. /\ out' = out /\ mpc' = mpc
      /\ done' = [done EXCEPT ![ActualTaskId(w)] = TRUE]
  BY DEF TaskDoneLock, FirstReport, mainVars, fileVars
<1>3. (\A m \in Maps : m \in Tasks) /\ (\A r \in Reduces : NMap + r \in Tasks)
  BY ConstantsAssumption DEF Maps, Reduces, Tasks
<1>4. \A m \in Maps : \A r \in Reduces : m # NMap + r
  BY ConstantsAssumption DEF Maps, Reduces
<1>5. CASE MapReply(w)
  <2>1. PICK m \in Maps : ActualTaskId(w) = m
    BY <1>5 DEF MapReply, ActualTaskId
  <2>2. /\ {k \in Maps : done'[k]} = {k \in Maps : done[k]} \cup {m}
        /\ {r \in Reduces : done'[NMap + r]} = {r \in Reduces : done[NMap + r]}
        /\ m \notin {k \in Maps : done[k]}
    BY <1>0, <1>2, <1>3, <1>4, <2>1 DEF TypeOK
  <2>3. Job!FinishMap(m)
    BY <1>2, <2>2 DEF Job!FinishMap
  <2> QED BY <2>3 DEF Job!Next, Job!Maps, Maps
<1>6. CASE ReduceReply(w)
  <2>1. PICK t \in Reduces : work[w].TaskId = t /\ ActualTaskId(w) = NMap + t
    BY <1>6, ConstantsAssumption DEF ReduceReply, ActualTaskId, Reduces
  <2>2. AllMapped /\ Published(t)
    BY <1>1, <1>6, <2>1 DEF JobInv, PhaseInv, Barrier, ReduceInv, Outputs, ReduceReply
  <2>3. \A r \in Reduces : r # t => NMap + r # NMap + t
    BY ConstantsAssumption DEF Reduces
  <2>4. /\ {r \in Reduces : done'[NMap + r]} = {r \in Reduces : done[NMap + r]} \cup {t}
        /\ {k \in Maps : done'[k]} = {k \in Maps : done[k]}
        /\ t \notin {r \in Reduces : done[NMap + r]}
    BY <1>0, <1>2, <1>3, <1>4, <2>1, <2>3 DEF TypeOK
  <2>5. {k \in Maps : done[k]} = Job!Maps
    BY <2>2 DEF AllMapped, Job!Maps, Maps
  <2>6. {out[t][p] : p \in DOMAIN out[t]} = Job!Complete(t)
    BY <2>2, ResultComplete, JobComplete DEF ResultOf
  <2>7. Job!FinishReduce(t)
    BY <1>2, <2>4, <2>5, <2>6 DEF Job!FinishReduce
  <2> QED BY <2>7 DEF Job!Next, Job!Reduces, Reduces
<1> QED BY <1>1, <1>5, <1>6 DEF ValidTask

\* A rename of an output file.
LEMMA RenameRefines ==
  ASSUME JobInv, [Next]_vars, NEW w \in Workers, ReduceRename(w)
  PROVE  Job!Next
<1>0. TypeOK /\ Control
  BY DEF JobInv, PhaseInv
<1>1. PICK t \in Reduces : work[w].TaskId = t
  BY <1>0 DEF ReduceRename, Control, WorkerControl, TaskControl, ReduceReply
<1>2. AllMapped /\ out' = [out EXCEPT ![t] = BlocksOf(t)]
  BY <1>1, OutputsRename DEF JobInv
<1>3. done' = done /\ mpc' = mpc
  BY DEF ReduceRename, coordVars, mainVars
<1>4. ExactBlocks(BlocksOf(t), t)
  BY <1>2, BlocksExact
<1>5. {BlocksOf(t)[p] : p \in DOMAIN BlocksOf(t)} = Job!Complete(t)
  BY <1>4, JobComplete DEF ExactBlocks
<1>6. [r \in Reduces |-> {out'[r][p] : p \in DOMAIN out'[r]}]
      = [[r \in Reduces |-> {out[r][p] : p \in DOMAIN out[r]}] EXCEPT ![t] = Job!Complete(t)]
  <2>1. out'[t] = BlocksOf(t) /\ \A r \in Reduces : r # t => out'[r] = out[r]
    BY <1>0, <1>2 DEF TypeOK
  <2> DEFINE R0 == [r \in Reduces |-> {out[r][p] : p \in DOMAIN out[r]}]
             R1 == [r \in Reduces |-> {out'[r][p] : p \in DOMAIN out'[r]}]
  <2>2. R1[t] = Job!Complete(t)
    BY <1>5, <2>1
  <2>3. \A r \in Reduces : r # t => R1[r] = R0[r]
    BY <2>1
  <2>4. R1 = [r \in Reduces |-> R1[r]] /\ DOMAIN R0 = Reduces
    OBVIOUS
  <2>5. R1 = [R0 EXCEPT ![t] = Job!Complete(t)]
    <3> HIDE DEF R0, R1
    <3> QED BY <2>2, <2>3, <2>4
  <2> QED BY <2>5
<1>7. {k \in Maps : done[k]} = Job!Maps
  BY <1>2 DEF AllMapped, Job!Maps, Maps
<1>8. Job!Publish(t)
  BY <1>3, <1>6, <1>7 DEF Job!Publish
<1> QED BY <1>8 DEF Job!Next, Job!Reduces, Reduces

\* The main goroutine has seen the last task done.
LEMMA DoneRefines ==
  ASSUME JobInv, Done
  PROVE  [Job!Next]_(Job!vars)
<1>1. done' = done /\ out' = out
  BY DEF Done, coordVars, fileVars
<1>2. CASE mpc' = mpc
  BY <1>1, <1>2 DEF Job!vars
<1>3. CASE mpc' # mpc
  <2>1. /\ mpc = "polling" /\ mpc' = "exiting" /\ done[mi] /\ LastTask(mi)
    BY <1>3 DEF Done
  <2>2. \A i \in Tasks : done[i]
    <3>1. \A i \in Tasks : i < mi => done[i]
      BY DEF JobInv, MainInv
    <3>2. \A i \in Tasks : i < mi \/ i = mi
      BY <2>1, ConstantsAssumption DEF LastTask, Tasks
    <3> QED BY <2>1, <3>1, <3>2
  <2>3. {r \in Reduces : done[NMap + r]} = Job!Reduces
    BY <2>2, ConstantsAssumption DEF Reduces, Tasks, Job!Reduces
  <2>4. Job!Finish
    BY <1>1, <2>1, <2>3 DEF Job!Finish
  <2> QED BY <2>4 DEF Job!Next
<1> QED BY <1>2, <1>3

\* The coordinator and its workers implement the job of MRJob.
THEOREM ImplementsJob == Spec => JobSpec
<1>1. ASSUME JobInv, [Next]_vars PROVE [Job!Next]_(Job!vars)
  <2>1. CASE \E w \in Workers : TaskDoneLock(w) /\ ~done[ActualTaskId(w)]
    BY <1>1, <2>1, FirstReportRefines
  <2>2. CASE \E w \in Workers : ReduceRename(w)
    BY <1>1, <2>2, RenameRefines
  <2>3. CASE Done
    BY <1>1, <2>3, DoneRefines
  <2>4. CASE CoordinatorExit
    BY <2>4 DEF CoordinatorExit, Job!vars, coordVars, fileVars
  <2>5. CASE /\ ~\E w \in Workers : TaskDoneLock(w) /\ ~done[ActualTaskId(w)]
             /\ ~\E w \in Workers : ReduceRename(w)
             /\ ~Main
    <3>1. done' = done /\ mpc' = mpc
      BY <1>1, <2>5 DEF Next, Expire, Handler, Worker, Crash, Terminated, AskTaskId,
         AskTaskPhase, AskTaskScan, TaskDoneLock, FirstReport, TaskDoneCount, TaskDoneAppend,
         CallAskTask, AskTaskReturns, MapCreate, MapEncode, ReduceRead, CallTaskDone,
         TaskDoneReturns, CallFails, vars, coordVars, mainVars
    <3>2. out' = out
      BY <1>1, <2>5, OutChanges
    <3> QED BY <3>1, <3>2 DEF Job!vars
  <2> QED BY <2>1, <2>2, <2>3, <2>4, <2>5 DEF Main
<1> QED BY <1>1, JobInitRefines, JobInvariant, PTL DEF Spec, JobSpec, Job!Spec
=============================================================================
