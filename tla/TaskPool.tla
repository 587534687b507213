------------------------------ MODULE TaskPool ------------------------------
(***************************************************************************)
(* run_with_limit (task_pool.rs): the caller spawns all tasks, each of     *)
(* which acquires a permit of one semaphore before it runs, and collects   *)
(* the results in the order of the tasks.  The semaphore and the join      *)
(* handles are tokio's, modelled from their use: a released permit goes to *)
(* the longest waiting task, and a panic ends its task after its permit    *)
(* was dropped.                                                            *)
(***************************************************************************)
EXTENDS Integers, Sequences, FiniteSets

CONSTANTS NumTasks,  \* tasks.len()
          Limits     \* the limits callers give

ASSUME TaskConstants == NumTasks \in Nat /\ Limits \subseteq Nat

Tasks == 1 .. NumTasks

VARIABLES
  limit,    \* limit
  permits,  \* the semaphore: permits nobody has
  waiting,  \* the semaphore: tasks that wait for one, the first longest
  task,     \* where each task is
  caller,   \* where the caller is
  results   \* results: the tasks whose output was pushed

taskVars == <<limit, permits, waiting, task, caller, results>>

\* A task is new until its first poll, and granted while a permit was given to
\* it that it has not run with yet.
TaskStates   == {"unborn", "new", "waiting", "granted", "running", "done", "panicked"}
CallerStates == {"spawning", "collecting", "returned", "panicked", "dropped"}

TaskTypeOK ==
  /\ limit \in Limits /\ permits \in 0 .. limit
  /\ waiting \in Seq(Tasks)
  /\ task \in [Tasks -> TaskStates]
  /\ caller \in CallerStates
  /\ results \in Seq(Tasks)

TaskInit ==
  /\ limit \in Limits /\ permits = limit
  /\ waiting = <<>>
  /\ task = [i \in Tasks |-> "unborn"]
  /\ caller = "spawning"
  /\ results = <<>>

Become(i, s) == task' = [task EXCEPT ![i] = s]

-----------------------------------------------------------------------------
\* The caller.

Spawned == Cardinality({i \in Tasks : task[i] # "unborn"})

Spawn ==
  /\ caller = "spawning" /\ Spawned < NumTasks
  /\ Become(Spawned + 1, "new")
  /\ UNCHANGED <<limit, permits, waiting, caller, results>>

StartCollecting ==
  /\ caller = "spawning" /\ Spawned = NumTasks
  /\ caller' = "collecting"
  /\ UNCHANGED <<limit, permits, waiting, task, results>>

\* The handle whose turn it is.  Mutant: any that is done.
AnyDone == {i \in Tasks : task[i] = "done" /\ \A k \in DOMAIN results : results[k] # i}
Awaited == IF Len(results) < NumTasks THEN {Len(results) + 1} ELSE {}

Collect ==
  /\ caller = "collecting"
  /\ \E i \in Awaited : task[i] = "done" /\ results' = Append(results, i)
  /\ UNCHANGED <<limit, permits, waiting, task, caller>>

\* handle.await.unwrap() of a task that panicked; the other tasks run on, detached.
CollectPanics ==
  /\ caller = "collecting"
  /\ \E i \in Awaited : task[i] = "panicked"
  /\ caller' = "panicked"
  /\ UNCHANGED <<limit, permits, waiting, task, results>>

ReturnResults ==
  /\ caller = "collecting" /\ Len(results) = NumTasks
  /\ caller' = "returned"
  /\ UNCHANGED <<limit, permits, waiting, task, results>>

\* Whoever awaits run_with_limit may drop it at an await; the tasks run on, too.
DropCall ==
  /\ caller = "collecting"
  /\ caller' = "dropped"
  /\ UNCHANGED <<limit, permits, waiting, task, results>>

-----------------------------------------------------------------------------
\* The tasks.

\* _permit lives as long as the task.  Mutant: "let _ =" drops it at once.
DropPermit == UNCHANGED permits
TakePermit == permits' = permits - 1

Acquire(i) ==
  /\ task[i] = "new"
  /\ IF permits > 0
     THEN TakePermit /\ Become(i, "running") /\ UNCHANGED waiting
     ELSE waiting' = Append(waiting, i) /\ Become(i, "waiting") /\ UNCHANGED permits
  /\ UNCHANGED <<limit, caller, results>>

Resume(i) ==
  /\ task[i] = "granted"
  /\ Become(i, "running")
  /\ UNCHANGED <<limit, permits, waiting, caller, results>>

\* _permit is dropped, then the task is over.
Release(i, s) ==
  IF waiting = <<>>
  THEN permits' = permits + 1 /\ Become(i, s) /\ UNCHANGED waiting
  ELSE /\ task' = [task EXCEPT ![i] = s, ![Head(waiting)] = "granted"]
       /\ waiting' = Tail(waiting)
       /\ UNCHANGED permits

Finish(i, s) ==
  /\ task[i] = "running" /\ s \in {"done", "panicked"}
  /\ Release(i, s)
  /\ UNCHANGED <<limit, caller, results>>

-----------------------------------------------------------------------------
CallerStep == Spawn \/ StartCollecting \/ Collect \/ CollectPanics \/ ReturnResults
TaskStep(i) == Acquire(i) \/ Resume(i) \/ \E s \in {"done", "panicked"} : Finish(i, s)

TaskNext == CallerStep \/ DropCall \/ \E i \in Tasks : TaskStep(i)

\* The runtime polls every task that is ready, and the tasks' futures end.
TaskFairness == /\ WF_taskVars(CallerStep)
                /\ \A i \in Tasks : WF_taskVars(TaskStep(i))

TaskSpec == TaskInit /\ [][TaskNext]_taskVars /\ TaskFairness

-----------------------------------------------------------------------------
HasPermit == {i \in Tasks : task[i] \in {"granted", "running"}}

\* "limit" tasks run at most, also after the caller panicked or went away; and no
\* permit is lost to a panic or idle while a task waits (task_pool.rs 16, 22).
LimitKept ==
  /\ permits + Cardinality(HasPermit) = limit
  /\ waiting # <<>> => permits = 0

\* Results come in the order of the tasks, whatever order the tasks end in, and a
\* caller that gets them gets all (27-31).
ResultsInOrder ==
  /\ results = [k \in 1 .. Len(results) |-> k]
  /\ caller = "returned" => Len(results) = NumTasks /\ \A i \in Tasks : task[i] = "done"

\* Every task that was spawned ends, detached or not, unless limit is 0; then it
\* waits for ever.
TasksEnd == \A i \in Tasks :
  limit > 0 /\ task[i] # "unborn" ~> task[i] \in {"done", "panicked"}

\* The call returns or panics, or its future was dropped.
CallEnds == limit > 0 => <>(caller \in {"returned", "panicked", "dropped"})
=============================================================================
