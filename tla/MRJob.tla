------------------------------- MODULE MRJob -------------------------------
(***************************************************************************)
(* What a MapReduce job promises, without workers, RPCs, clocks or files:  *)
(* map tasks finish in any order, the result of a partition is published   *)
(* once, complete, after every map task has finished, a reduce task is     *)
(* finished when its result is there, and the job when all of them are.    *)
(***************************************************************************)
EXTENDS Integers

CONSTANTS NMap, NReduce, Emits

VARIABLES mapped,    \* the map tasks that are finished
          reduced,   \* the reduce tasks that are finished
          result,    \* result[r]: the blocks in the output of partition r
          finished   \* the coordinator has announced the end of the job

vars == <<mapped, reduced, result, finished>>

Maps    == 0 .. (NMap - 1)
Reduces == 0 .. (NReduce - 1)

\* What a sequential execution puts into the output of partition r.
Complete(r) == {m \in Maps : r \in Emits[m]} \X {r}

Init ==
    /\ mapped = {}
    /\ reduced = {}
    /\ result = [r \in Reduces |-> {}]
    /\ finished = FALSE

FinishMap(m) ==
    /\ m \notin mapped
    /\ mapped' = mapped \cup {m}
    /\ UNCHANGED <<reduced, result, finished>>

Publish(r) ==
    /\ mapped = Maps
    /\ result' = [result EXCEPT ![r] = Complete(r)]
    /\ UNCHANGED <<mapped, reduced, finished>>

FinishReduce(r) ==
    /\ mapped = Maps
    /\ r \notin reduced
    /\ result[r] = Complete(r)
    /\ reduced' = reduced \cup {r}
    /\ UNCHANGED <<mapped, result, finished>>

Finish ==
    /\ reduced = Reduces
    /\ finished' = TRUE
    /\ UNCHANGED <<mapped, reduced, result>>

Next ==
    \/ \E m \in Maps : FinishMap(m)
    \/ \E r \in Reduces : Publish(r) \/ FinishReduce(r)
    \/ Finish

Spec == Init /\ [][Next]_vars
=============================================================================
