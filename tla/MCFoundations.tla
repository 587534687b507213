--------------------------- MODULE MCFoundations ---------------------------
(***************************************************************************)
(* The foundations on small instances.  They share nothing: each behaviour *)
(* is one component's, chosen at the start, and the others stay as they    *)
(* begin.                                                                  *)
(***************************************************************************)
EXTENDS TaskPool, Harness, TableLayouts, ByteOrder

VARIABLE part

allVars == <<part, taskVars, benchVars, tableVars, byteVars>>

\* A part that does not run begins in some one state.
TasksIdle == TaskInit /\ limit = CHOOSE n \in Limits : TRUE
BenchIdle == /\ BenchInit
             /\ pattern = "random" /\ depth = CHOOSE n \in QueueDepths : TRUE
BytesIdle == /\ ByteInit
             /\ sent = CHOOSE r \in Record : TRUE

Init == /\ part \in {"tasks", "bench", "table", "bytes"}
        /\ IF part = "tasks" THEN TaskInit ELSE TasksIdle
        /\ IF part = "bench" THEN BenchInit ELSE BenchIdle
        /\ TableInit
        /\ IF part = "bytes" THEN ByteInit ELSE BytesIdle

Next == \/ /\ part = "tasks" /\ TaskNext
           /\ UNCHANGED <<part, benchVars, tableVars, byteVars>>
        \/ /\ part = "bench" /\ BenchNext
           /\ UNCHANGED <<part, taskVars, tableVars, byteVars>>
        \/ /\ part = "table" /\ TableNext
           /\ UNCHANGED <<part, taskVars, benchVars, byteVars>>
        \/ /\ part = "bytes" /\ Arrive
           /\ UNCHANGED <<part, taskVars, benchVars, tableVars>>

\* What does not run need not go on.
Spec == /\ Init /\ [][Next]_allVars
        /\ part = "tasks" => TaskFairness
        /\ part = "bench" => BenchFairness

-----------------------------------------------------------------------------
\* Liveness of the part that runs.

\* Every task of the task pool ends, and so does the call; so does a benchmark, also
\* when reads fail (TasksEnd, CallEnds, BenchEnds).
PartsEnd == /\ part = "tasks" => TasksEnd /\ CallEnds
            /\ part = "bench" => BenchEnds

\* Every part keeps its type.
TypeOK == TaskTypeOK /\ BenchTypeOK /\ TableTypeOK /\ ByteTypeOK
=============================================================================
