--------------------------- MODULE FoundationsProofs ---------------------------
(***************************************************************************)
(* Theorems about the foundations for all values of their constants: the   *)
(* task pool, the NVMe harness, the table layouts and byte order, each by  *)
(* itself, and then side by side as MCFoundations runs them.               *)
(***************************************************************************)
EXTENDS MCFoundations, NumberLemmas, FiniteSetTheorems, SequenceTheorems

-----------------------------------------------------------------------------
\* The task pool.

\* Tasks are spawned in their order.
SpawnedInOrder ==
  \E n \in 0 .. NumTasks : \A i \in Tasks : task[i] = "unborn" <=> i > n

\* The semaphore's queue holds tasks that wait, each once.
QueueOK ==
  /\ \A k \in DOMAIN waiting : task[waiting[k]] = "waiting"
  /\ \A j, k \in DOMAIN waiting : waiting[j] = waiting[k] => j = k

\* A task whose output was pushed is done, and stays so.
CollectedOK ==
  /\ Len(results) <= NumTasks
  /\ \A k \in DOMAIN results : results[k] = k /\ task[k] = "done"
  /\ caller = "returned" => Len(results) = NumTasks

\* The inductive invariant.
PoolInv == TaskTypeOK /\ SpawnedInOrder /\ QueueOK /\ CollectedOK /\ LimitKept

-----------------------------------------------------------------------------
\* There are finitely many tasks, and so of those with a permit.
LEMMA TasksFinite ==
  ASSUME NEW S \in SUBSET Tasks
  PROVE  IsFiniteSet(S) /\ Cardinality(S) \in Nat
<1>1. IsFiniteSet(Tasks)
  BY TaskConstants, FS_Interval DEF Tasks
<1>2. IsFiniteSet(S)
  BY <1>1, FS_Subset
<1> QED BY <1>2, FS_CardinalityType

\* Spawned counts the tasks that were spawned: the next one is unborn.
LEMMA NextIsUnborn ==
  ASSUME TaskTypeOK, SpawnedInOrder, Spawned < NumTasks
  PROVE  /\ Spawned + 1 \in Tasks /\ task[Spawned + 1] = "unborn"
         /\ \A i \in Tasks : task[i] = "unborn" <=> i > Spawned
<1>1. PICK n \in 0 .. NumTasks : \A i \in Tasks : task[i] = "unborn" <=> i > n
  BY DEF SpawnedInOrder
<1>2. {i \in Tasks : task[i] # "unborn"} = 1 .. n
  BY <1>1, TaskConstants DEF Tasks
<1>3. Spawned = n
  <2>1. n \in Nat /\ 0 <= n
    BY TaskConstants
  <2>2. Cardinality(1 .. n) = IF 1 > n THEN 0 ELSE n - 1 + 1
    BY <2>1, FS_Interval
  <2>3. Spawned = Cardinality(1 .. n)
    BY <1>2, Zenon DEF Spawned
  <2> QED BY <2>1, <2>2, <2>3
<1> QED BY <1>1, <1>3, TaskConstants DEF Tasks

\* The count of permits when one task gets a permit, or gives one up.
LEMMA OneMore ==
  ASSUME NEW S \in SUBSET Tasks, NEW i \in Tasks \ S
  PROVE  Cardinality(S \cup {i}) = Cardinality(S) + 1
BY TasksFinite, FS_AddElement

\* Without one task the count is one less.
LEMMA OneLess ==
  ASSUME NEW S \in SUBSET Tasks, NEW i \in S
  PROVE  Cardinality(S \ {i}) = Cardinality(S) - 1
BY TasksFinite, FS_RemoveElement

-----------------------------------------------------------------------------
\* One lemma for each kind of step.

\* The call begins with every permit free and no task spawned.
LEMMA InitInv == TaskInit => PoolInv
<1> SUFFICES ASSUME TaskInit PROVE PoolInv
  OBVIOUS
<1>1. TaskTypeOK
  BY TaskConstants DEF TaskInit, TaskTypeOK, TaskStates, CallerStates
<1>2. SpawnedInOrder
  <2>1. \A i \in Tasks : task[i] = "unborn" <=> i > 0
    BY TaskConstants DEF TaskInit, Tasks
  <2> QED BY <2>1, TaskConstants DEF SpawnedInOrder
<1>3. QueueOK /\ CollectedOK
  BY TaskConstants DEF TaskInit, QueueOK, CollectedOK
<1>4. LimitKept
  <2>1. HasPermit = {}
    BY DEF TaskInit, HasPermit
  <2> QED BY <2>1, <1>1, TaskConstants, FS_EmptySet DEF TaskInit, LimitKept, TaskTypeOK
<1> QED BY <1>1, <1>2, <1>3, <1>4 DEF PoolInv

\* A step of the caller that leaves the tasks alone.
LEMMA CallerInv ==
  ASSUME PoolInv, StartCollecting \/ Collect \/ CollectPanics \/ ReturnResults \/ DropCall
  PROVE  PoolInv'
<1> USE DEF PoolInv
<1>1. UNCHANGED <<limit, permits, waiting, task>>
  BY DEF StartCollecting, Collect, CollectPanics, ReturnResults, DropCall
<1>2. LimitKept' /\ QueueOK' /\ SpawnedInOrder'
  BY <1>1 DEF LimitKept, QueueOK, SpawnedInOrder, HasPermit
<1>3. TaskTypeOK' /\ CollectedOK'
  <2>1. CASE Collect
    <3>1. PICK i \in Awaited : task[i] = "done" /\ results' = Append(results, i)
      BY <2>1 DEF Collect
    <3>2. i = Len(results) + 1 /\ i \in Tasks
      BY <3>1, TaskConstants DEF Awaited, Tasks, TaskTypeOK
    <3>3. TaskTypeOK'
      BY <1>1, <2>1, <3>1, <3>2 DEF TaskTypeOK, Collect
    <3>4. Len(results') = i /\ i <= NumTasks
      BY <3>1, <3>2, TaskConstants DEF TaskTypeOK, Tasks
    <3>5. \A k \in DOMAIN results' : results'[k] = k /\ task'[k] = "done"
      BY <1>1, <3>1, <3>2 DEF TaskTypeOK, CollectedOK
    <3>6. caller' = "collecting"
      BY <2>1 DEF Collect
    <3> QED BY <3>3, <3>4, <3>5, <3>6 DEF CollectedOK
  <2>2. CASE StartCollecting \/ CollectPanics \/ ReturnResults \/ DropCall
    BY <1>1, <2>2 DEF StartCollecting, CollectPanics, ReturnResults, DropCall,
                      TaskTypeOK, CollectedOK, CallerStates
  <2> QED BY <2>1, <2>2
<1> QED BY <1>2, <1>3

\* Spawning makes the next task new; nobody gets a permit.
LEMMA SpawnInv == ASSUME PoolInv, Spawn PROVE PoolInv'
<1> USE DEF PoolInv
<1> DEFINE i == Spawned + 1
<1>1. /\ i \in Tasks /\ task[i] = "unborn"
      /\ \A j \in Tasks : task[j] = "unborn" <=> j > Spawned
  BY NextIsUnborn DEF Spawn
<1>2. /\ task' = [task EXCEPT ![i] = "new"]
      /\ UNCHANGED <<limit, permits, waiting, caller, results>>
  BY DEF Spawn, Become
<1>3. i \in 0 .. NumTasks /\ Spawned \in Int
  BY <1>1, TasksFinite, TaskConstants DEF Tasks, Spawned
<1> HIDE DEF i
<1>4. TaskTypeOK'
  BY <1>1, <1>2 DEF TaskTypeOK, TaskStates
<1>5. SpawnedInOrder'
  <2>1. \A j \in Tasks : task'[j] = "unborn" <=> j > i
    BY <1>1, <1>2, <1>3, TaskConstants DEF TaskTypeOK, Tasks, i
  <2> QED BY <2>1, <1>3 DEF SpawnedInOrder
<1>6. QueueOK' /\ CollectedOK'
  BY <1>1, <1>2, TaskConstants DEF QueueOK, CollectedOK, TaskTypeOK, Tasks
<1>7. LimitKept'
  <2>1. HasPermit' = HasPermit
    BY <1>1, <1>2 DEF HasPermit, TaskTypeOK
  <2> QED BY <1>2, <2>1 DEF LimitKept
<1> QED BY <1>4, <1>5, <1>6, <1>7

\* A step that moves task i between two states past its spawn, neither of which
\* is a wait or an end, keeps what is said of the others.
LEMMA MoveInv ==
  ASSUME PoolInv, NEW i \in Tasks, NEW s \in TaskStates \ {"unborn"},
         task[i] \notin {"unborn", "waiting", "done"},
         Become(i, s), UNCHANGED <<limit, waiting, caller, results>>
  PROVE  SpawnedInOrder' /\ QueueOK' /\ CollectedOK' /\ task' \in [Tasks -> TaskStates]
<1> USE DEF PoolInv, Become
<1>1. SpawnedInOrder'
  BY DEF SpawnedInOrder, TaskTypeOK
<1>2. QueueOK'
  BY DEF QueueOK, TaskTypeOK
<1>3. CollectedOK'
  BY DEF CollectedOK, TaskTypeOK
<1>4. task' \in [Tasks -> TaskStates]
  BY DEF TaskTypeOK
<1> QED BY <1>1, <1>2, <1>3, <1>4

\* A new task takes a free permit or joins the end of the queue.
LEMMA AcquireInv == ASSUME PoolInv, NEW i \in Tasks, Acquire(i) PROVE PoolInv'
<1> USE DEF PoolInv
<1>1. task[i] = "new" /\ UNCHANGED <<limit, caller, results>>
  BY DEF Acquire
<1>2. i \notin HasPermit
  BY <1>1 DEF HasPermit
<1>3. CASE permits > 0
  <2>1. /\ permits' = permits - 1 /\ Become(i, "running") /\ UNCHANGED waiting
    BY <1>3 DEF Acquire, TakePermit
  <2>2. SpawnedInOrder' /\ QueueOK' /\ CollectedOK' /\ task' \in [Tasks -> TaskStates]
    BY <1>1, <2>1, MoveInv DEF TaskStates
  <2>3. TaskTypeOK'
    BY <1>1, <1>3, <2>1, <2>2, TaskConstants DEF TaskTypeOK
  <2>4. HasPermit' = HasPermit \cup {i}
    BY <2>1 DEF HasPermit, Become, TaskTypeOK
  <2>5. Cardinality(HasPermit') = Cardinality(HasPermit) + 1
    BY <1>2, <2>4, OneMore DEF HasPermit
  <2>6. Cardinality(HasPermit) \in Nat
    BY TasksFinite DEF HasPermit
  <2>7. LimitKept'
    BY <1>1, <1>3, <2>1, <2>5, <2>6, TaskConstants DEF LimitKept, TaskTypeOK
  <2> QED BY <2>2, <2>3, <2>7
<1>4. CASE ~(permits > 0)
  <2>1. /\ waiting' = Append(waiting, i) /\ Become(i, "waiting") /\ UNCHANGED permits
    BY <1>4 DEF Acquire
  <2>2. TaskTypeOK'
    BY <1>1, <2>1 DEF TaskTypeOK, Become, TaskStates
  <2>3. SpawnedInOrder'
    BY <1>1, <2>1 DEF SpawnedInOrder, Become, TaskTypeOK
  <2>4. CollectedOK'
    BY <1>1, <2>1 DEF CollectedOK, Become, TaskTypeOK
  <2>5. QueueOK'
    <3>1. \A k \in DOMAIN waiting : waiting[k] # i
      BY <1>1 DEF QueueOK
    <3>2. /\ DOMAIN waiting' = 1 .. (Len(waiting) + 1)
          /\ DOMAIN waiting = 1 .. Len(waiting)
          /\ Len(waiting) \in Nat
          /\ \A k \in DOMAIN waiting : waiting'[k] = waiting[k] /\ waiting[k] \in Tasks
          /\ waiting'[Len(waiting) + 1] = i
      BY <2>1 DEF TaskTypeOK
    <3>3. \A k \in DOMAIN waiting' : task'[waiting'[k]] = "waiting"
      BY <2>1, <3>1, <3>2 DEF QueueOK, Become, TaskTypeOK
    <3>4. \A j, k \in DOMAIN waiting' : waiting'[j] = waiting'[k] => j = k
      BY <3>1, <3>2 DEF QueueOK
    <3> QED BY <3>3, <3>4 DEF QueueOK
  <2>6. LimitKept'
    <3>1. HasPermit' = HasPermit
      BY <1>1, <2>1 DEF HasPermit, Become, TaskTypeOK
    <3>2. permits' = 0
      BY <1>4, <2>1, TaskConstants DEF TaskTypeOK
    <3> QED BY <1>1, <2>1, <3>1, <3>2 DEF LimitKept
  <2> QED BY <2>2, <2>3, <2>4, <2>5, <2>6
<1> QED BY <1>3, <1>4

\* A task that was handed a permit runs, and keeps it.
LEMMA ResumeInv == ASSUME PoolInv, NEW i \in Tasks, Resume(i) PROVE PoolInv'
<1> USE DEF PoolInv
<1>1. /\ task[i] = "granted" /\ Become(i, "running")
      /\ UNCHANGED <<limit, permits, waiting, caller, results>>
  BY DEF Resume
<1>2. SpawnedInOrder' /\ QueueOK' /\ CollectedOK' /\ task' \in [Tasks -> TaskStates]
  BY <1>1, MoveInv DEF TaskStates
<1>3. TaskTypeOK'
  BY <1>1, <1>2 DEF TaskTypeOK
<1>4. HasPermit' = HasPermit
  BY <1>1 DEF HasPermit, Become, TaskTypeOK
<1> QED BY <1>1, <1>2, <1>3, <1>4 DEF LimitKept

\* The permit of a task that ended is free when no task waits, and the longest
\* waiting task's otherwise.
LEMMA FinishInv ==
  ASSUME PoolInv, NEW i \in Tasks, NEW s \in {"done", "panicked"}, Finish(i, s)
  PROVE  PoolInv'
<1> USE DEF PoolInv
<1>1. task[i] = "running" /\ Release(i, s) /\ UNCHANGED <<limit, caller, results>>
  BY DEF Finish
<1>2. i \in HasPermit /\ HasPermit \subseteq Tasks
  BY <1>1 DEF HasPermit
<1>3. Cardinality(HasPermit) \in Nat /\ Cardinality(HasPermit \ {i}) = Cardinality(HasPermit) - 1
  BY <1>2, TasksFinite, OneLess
<1>4. CASE waiting = <<>>
  <2>1. permits' = permits + 1 /\ Become(i, s) /\ UNCHANGED waiting
    BY <1>1, <1>4 DEF Release
  <2>2. SpawnedInOrder' /\ QueueOK' /\ CollectedOK' /\ task' \in [Tasks -> TaskStates]
    BY <1>1, <2>1, MoveInv DEF TaskStates
  <2>3. HasPermit' = HasPermit \ {i}
    BY <2>1 DEF HasPermit, Become, TaskTypeOK
  <2>4. LimitKept' /\ permits' \in 0 .. limit
    <3>1. Cardinality(HasPermit \ {i}) \in Nat
      BY <1>2, TasksFinite
    <3>2. permits' + Cardinality(HasPermit') = limit
      BY <1>3, <2>1, <2>3, TaskConstants DEF LimitKept, TaskTypeOK
    <3> QED BY <1>1, <1>4, <2>1, <2>3, <3>1, <3>2, TaskConstants DEF LimitKept, TaskTypeOK
  <2>5. TaskTypeOK'
    BY <1>1, <2>1, <2>2, <2>4 DEF TaskTypeOK
  <2> QED BY <2>2, <2>4, <2>5
<1>5. CASE waiting # <<>>
  <2> DEFINE h == Head(waiting)
  <2>1. /\ task' = [task EXCEPT ![i] = s, ![h] = "granted"]
        /\ waiting' = Tail(waiting) /\ UNCHANGED permits
    BY <1>1, <1>5 DEF Release
  <2>2. /\ Len(waiting) \in Nat \ {0} /\ h = waiting[1] /\ 1 \in DOMAIN waiting
        /\ waiting' \in Seq(Tasks) /\ Len(waiting') = Len(waiting) - 1
        /\ DOMAIN waiting' = 1 .. (Len(waiting) - 1) /\ DOMAIN waiting = 1 .. Len(waiting)
        /\ \A k \in DOMAIN waiting' : waiting'[k] = waiting[k + 1]
    BY <1>5, <2>1 DEF TaskTypeOK
  <2>3. h \in Tasks /\ task[h] = "waiting" /\ h # i /\ h \notin HasPermit
    <3>1. h \in Tasks
      BY <2>2 DEF TaskTypeOK
    <3>2. task[waiting[1]] = "waiting"
      BY <2>2 DEF QueueOK
    <3> QED BY <1>1, <2>2, <3>1, <3>2 DEF HasPermit
  <2> HIDE DEF h
  <2>4. /\ task'[i] = s /\ task'[h] = "granted"
        /\ \A j \in Tasks \ {h, i} : task'[j] = task[j]
        /\ task' \in [Tasks -> TaskStates]
    BY <2>1, <2>3 DEF TaskTypeOK, TaskStates
  <2>5. TaskTypeOK'
    BY <1>1, <2>1, <2>2, <2>4 DEF TaskTypeOK
  <2>6. SpawnedInOrder'
    BY <1>1, <2>3, <2>4 DEF SpawnedInOrder
  <2>7. CollectedOK'
    <3>1. \A k \in DOMAIN results : k \in Tasks
      BY DEF TaskTypeOK, CollectedOK
    <3> QED BY <1>1, <2>3, <2>4, <3>1 DEF CollectedOK
  <2>8. QueueOK'
    <3>1. \A k \in DOMAIN waiting' : k + 1 \in DOMAIN waiting /\ k + 1 # 1
      BY <2>2
    <3>2. \A k \in DOMAIN waiting' :
             waiting'[k] \in Tasks \ {h, i} /\ task[waiting'[k]] = "waiting"
      BY <1>1, <2>2, <3>1 DEF QueueOK, TaskTypeOK
    <3>3. \A j, k \in DOMAIN waiting' : waiting'[j] = waiting'[k] => j = k
      BY <2>2, <3>1 DEF QueueOK
    <3> QED BY <2>4, <3>2, <3>3 DEF QueueOK
  <2>9. LimitKept'
    <3>1. HasPermit' = (HasPermit \ {i}) \cup {h}
      BY <2>3, <2>4 DEF HasPermit
    <3>2. Cardinality(HasPermit') = Cardinality(HasPermit \ {i}) + 1
      BY <1>2, <2>3, <3>1, OneMore
    <3>3. permits = 0
      BY <1>5 DEF LimitKept
    <3> QED BY <1>1, <1>3, <2>1, <3>2, <3>3 DEF LimitKept
  <2> QED BY <2>5, <2>6, <2>7, <2>8, <2>9
<1> QED BY <1>4, <1>5

-----------------------------------------------------------------------------
\* The invariant is inductive.
LEMMA PoolNext == PoolInv /\ [TaskNext]_taskVars => PoolInv'
<1> SUFFICES ASSUME PoolInv, [TaskNext]_taskVars PROVE PoolInv'
  OBVIOUS
<1>1. CASE UNCHANGED taskVars
  BY <1>1 DEF PoolInv, TaskTypeOK, SpawnedInOrder, QueueOK, CollectedOK, LimitKept,
              HasPermit, taskVars
<1>2. CASE TaskNext
  <2>1. CASE Spawn
    BY <2>1, SpawnInv
  <2>2. CASE StartCollecting \/ Collect \/ CollectPanics \/ ReturnResults \/ DropCall
    BY <2>2, CallerInv
  <2>3. ASSUME NEW i \in Tasks, TaskStep(i) PROVE PoolInv'
    BY <2>3, AcquireInv, ResumeInv, FinishInv DEF TaskStep
  <2> QED BY <1>2, <2>1, <2>2, <2>3 DEF TaskNext, CallerStep
<1> QED BY <1>1, <1>2

\* run_with_limit keeps its limit, for every number of tasks and every limit: a
\* permit is free or one task's, whatever task panics and wherever the caller is,
\* and none is free while a task waits.
THEOREM LimitIsKept == TaskSpec => []LimitKept
<1>1. PoolInv => LimitKept
  BY DEF PoolInv
<1> QED BY <1>1, InitInv, PoolNext, PTL DEF TaskSpec

\* The invariant has the results in order, each of a task that is done.
LEMMA PoolInvInOrder == PoolInv => ResultsInOrder
<1> SUFFICES ASSUME PoolInv PROVE ResultsInOrder
  OBVIOUS
<1>1. results \in Seq(Tasks) /\ DOMAIN results = 1 .. Len(results)
  BY DEF PoolInv, TaskTypeOK
<1>2. results = [k \in 1 .. Len(results) |-> k]
  BY <1>1 DEF PoolInv, CollectedOK
<1>3. caller = "returned" => Len(results) = NumTasks /\ \A i \in Tasks : task[i] = "done"
  BY <1>1 DEF PoolInv, CollectedOK, Tasks
<1> QED BY <1>2, <1>3 DEF ResultsInOrder

\* The results come in the order of the tasks, and a call that returns returns all.
THEOREM ResultsAreInOrder == TaskSpec => []ResultsInOrder
BY PoolInvInOrder, InitInv, PoolNext, PTL DEF TaskSpec

-----------------------------------------------------------------------------
\* The NVMe harness.

\* The reads that hold a permit.
InFlight == {o \in Ops : read[o] \in {"reading", "ok", "error"}}

\* The inductive invariant: reads are issued in order, and a permit is free or a
\* read's.
DepthInv ==
  /\ BenchTypeOK
  /\ \A o \in Ops : o >= issued => read[o] = "none"
  /\ slots + Cardinality(InFlight) = depth

\* The reads are finitely many, and so is each set of them.
LEMMA FlightFinite ==
  ASSUME NEW S \in SUBSET Ops
  PROVE  IsFiniteSet(S) /\ Cardinality(S) \in Nat
<1>1. IsFiniteSet(Ops)
  BY HarnessConstants, FS_Interval DEF Ops
<1>2. IsFiniteSet(S)
  BY <1>1, FS_Subset
<1> QED BY <1>2, FS_CardinalityType

\* It holds initially: no read is in flight.
LEMMA DepthInit == BenchInit => DepthInv
<1> SUFFICES ASSUME BenchInit PROVE DepthInv
  OBVIOUS
<1>1. BenchTypeOK /\ \A o \in Ops : read[o] = "none"
  BY HarnessConstants DEF BenchInit, BenchTypeOK, ReadStates
<1>2. InFlight = {}
  BY <1>1 DEF InFlight
<1> QED BY <1>1, <1>2, HarnessConstants, FS_EmptySet DEF BenchInit, BenchTypeOK, DepthInv

\* A read takes a permit when it is issued.
LEMMA IssueDepth == ASSUME DepthInv, Issue PROVE DepthInv'
<1> USE DEF DepthInv
<1>1. issued \in Ops /\ read[issued] = "none" /\ issued \in Nat
  BY HarnessConstants DEF Issue, Ops, BenchTypeOK
<1>2. /\ read' = [read EXCEPT ![issued] = "reading"] /\ issued' = issued + 1
      /\ slots' = slots - 1 /\ slots > 0
      /\ UNCHANGED <<pattern, depth, summed, bytes, bench>>
  BY DEF Issue, MayIssue
<1>3. InFlight' = InFlight \cup {issued} /\ issued \notin InFlight
  BY <1>1, <1>2 DEF InFlight, BenchTypeOK
<1>4. Cardinality(InFlight') = Cardinality(InFlight) + 1 /\ Cardinality(InFlight) \in Nat
  <2>1. InFlight \subseteq Ops
    BY DEF InFlight
  <2>2. IsFiniteSet(InFlight) /\ Cardinality(InFlight) \in Nat
    BY <2>1, FlightFinite
  <2>3. Cardinality(InFlight \cup {issued}) = Cardinality(InFlight) + 1
    BY <1>3, <2>2, FS_AddElement
  <2> QED BY <1>3, <2>2, <2>3
<1>5. BenchTypeOK'
  BY <1>1, <1>2, HarnessConstants DEF BenchTypeOK, ReadStates, Ops
<1>6. \A o \in Ops : o >= issued' => read'[o] = "none"
  BY <1>1, <1>2, HarnessConstants DEF BenchTypeOK, Ops
<1>7. slots' + Cardinality(InFlight') = depth'
  BY <1>2, <1>4, HarnessConstants DEF BenchTypeOK
<1> QED BY <1>5, <1>6, <1>7

\* The blocking thread's read keeps it, whether it succeeds or fails.
LEMMA ReadDepth == ASSUME DepthInv, NEW o \in Ops, ReadBlock(o) PROVE DepthInv'
<1> USE DEF DepthInv
<1>1. PICK s \in {"ok", "error"} : read' = [read EXCEPT ![o] = s]
  BY DEF ReadBlock
<1>2. read[o] = "reading" /\ UNCHANGED <<pattern, depth, slots, issued, summed, bytes, bench>>
  BY DEF ReadBlock
<1>3. InFlight' = InFlight
  BY <1>1, <1>2 DEF InFlight, BenchTypeOK
<1>4. BenchTypeOK'
  BY <1>1, <1>2 DEF BenchTypeOK, ReadStates
<1>5. \A q \in Ops : q >= issued' => read'[q] = "none"
  BY <1>1, <1>2 DEF BenchTypeOK
<1> QED BY <1>2, <1>3, <1>4, <1>5

\* Its end gives it back.
LEMMA EndDepth == ASSUME DepthInv, NEW o \in Ops, EndRead(o) PROVE DepthInv'
<1> USE DEF DepthInv
<1>1. /\ read[o] \in {"ok", "error"}
      /\ read' = [read EXCEPT ![o] = IF @ = "ok" THEN "read" ELSE "failed"]
      /\ slots' = slots + 1
      /\ UNCHANGED <<pattern, depth, issued, summed, bytes, bench>>
  BY DEF EndRead, DropSlot
<1>2. InFlight' = InFlight \ {o} /\ o \in InFlight
  BY <1>1 DEF InFlight, BenchTypeOK
<1>3. /\ Cardinality(InFlight') = Cardinality(InFlight) - 1
      /\ Cardinality(InFlight) \in Nat /\ Cardinality(InFlight') \in Nat
  <2>1. InFlight \subseteq Ops /\ InFlight \ {o} \subseteq Ops
    BY DEF InFlight
  <2>2. Cardinality(InFlight \ {o}) = Cardinality(InFlight) - 1
    BY <1>2, <2>1, FlightFinite, FS_RemoveElement
  <2> QED BY <1>2, <2>1, <2>2, FlightFinite
<1>4. slots' + Cardinality(InFlight') = depth' /\ slots' \in 0 .. depth'
  BY <1>1, <1>3, HarnessConstants DEF BenchTypeOK
<1>5. BenchTypeOK'
  BY <1>1, <1>4 DEF BenchTypeOK, ReadStates
<1>6. \A q \in Ops : q >= issued' => read'[q] = "none"
  BY <1>1 DEF BenchTypeOK
<1> QED BY <1>4, <1>5, <1>6

\* What the loop does once all reads are issued leaves permits alone.
LEMMA SumDepth ==
  ASSUME DepthInv, StartSumming \/ SumNext \/ SumFails \/ BenchDone
  PROVE  DepthInv'
<1> USE DEF DepthInv
<1>1. UNCHANGED <<pattern, depth, slots, issued, read>>
  BY DEF StartSumming, SumNext, SumFails, BenchDone
<1>2. InFlight' = InFlight
  BY <1>1 DEF InFlight
<1>3. BenchTypeOK'
  BY <1>1, HarnessConstants
     DEF StartSumming, SumNext, SumFails, BenchDone, BenchTypeOK
<1> QED BY <1>1, <1>2, <1>3

\* Every step of the benchmark keeps it.
LEMMA DepthNext == DepthInv /\ [BenchNext]_benchVars => DepthInv'
<1> SUFFICES ASSUME DepthInv, [BenchNext]_benchVars PROVE DepthInv'
  OBVIOUS
<1>1. CASE UNCHANGED benchVars
  BY <1>1 DEF DepthInv, BenchTypeOK, InFlight, benchVars
<1>2. CASE BenchNext
  <2>1. CASE Issue
    BY <2>1, IssueDepth
  <2>2. CASE StartSumming \/ SumNext \/ SumFails \/ BenchDone
    BY <2>2, SumDepth
  <2>3. ASSUME NEW o \in Ops, ReadStep(o) PROVE DepthInv'
    BY <2>3, ReadDepth, EndDepth DEF ReadStep
  <2> QED BY <1>2, <2>1, <2>2, <2>3 DEF BenchNext, LoopStep
<1> QED BY <1>1, <1>2

\* The invariant bounds the reads in flight.
LEMMA DepthInvBounds == DepthInv => DepthKept
<1> SUFFICES ASSUME DepthInv PROVE DepthKept
  OBVIOUS
<1>1. Cardinality(InFlight) \in Nat /\ slots \in Nat /\ depth \in Nat
  BY FlightFinite, HarnessConstants DEF InFlight, DepthInv, BenchTypeOK
<1>2. slots + Cardinality(InFlight) = depth
  BY DEF DepthInv
<1>3. Cardinality(InFlight) <= depth
  BY <1>1, <1>2
<1> QED BY <1>2, <1>3, Zenon DEF DepthKept, InFlight

\* At most queue_depth reads are in flight, for every depth, and none keeps its
\* permit when it failed.
THEOREM DepthIsKept == BenchSpec => []DepthKept
BY DepthInvBounds, DepthInit, DepthNext, PTL DEF BenchSpec

-----------------------------------------------------------------------------
\* What the harness chooses: the stride, 7919, is odd, and FILE_SIZE / block_size is a
\* power of two, a number in every set that has 1 and the double of each member.
IsPowerOfTwo(n) ==
  \A S \in SUBSET Nat : 1 \in S /\ (\A m \in S : 2 * m \in S) => n \in S
StrideFits == Stride % 2 = 1 /\ IsPowerOfTwo(Blocks)

\* The stride has no factor in common with the number of blocks: it has an inverse.
Coprime == \E inverse \in Nat : (Stride * inverse) % Blocks = 1 % Blocks

\* The inductive invariant of the sum: what is summed was read, and the benchmark
\* ends with every read summed or at one that failed.
SumInv ==
  /\ BenchTypeOK
  /\ bytes = summed * BlockSize
  /\ \A o \in Ops : o < summed => read[o] = "read"
  /\ bench = "issuing" => summed = 0
  /\ bench = "done" => summed = Operations
  /\ bench = "failed" => \E o \in Ops : read[o] = "failed"

\* An odd stride has an inverse for every power of two.  One for m is one for 2 * m, or
\* becomes one when m is added to it.
LEMMA StrideIsCoprime == StrideFits => Coprime
<1> SUFFICES ASSUME StrideFits PROVE Coprime
  OBVIOUS
<1> DEFINE S == {m \in Nat \ {0} : \E inverse, q \in Nat : Stride * inverse = m * q + 1}
<1>1. PICK h \in Nat : Stride = 2 * h + 1
  <2>1. Stride \in Nat /\ Stride % 2 = 1
    BY HarnessConstants DEF StrideFits
  <2> QED BY <2>1, EvenOrOdd
<1>2. 1 \in S
  <2>1. Stride * 1 = 1 * (2 * h) + 1 /\ 2 * h \in Nat
    BY <1>1
  <2> QED BY <2>1
<1>3. ASSUME NEW m \in S PROVE 2 * m \in S
  <2>1. PICK inverse, q \in Nat : Stride * inverse = m * q + 1
    BY <1>3
  <2>2. m \in Nat \ {0} /\ 2 * m \in Nat \ {0}
    OBVIOUS
  <2>3. PICK t \in Nat : q = 2 * t + (q % 2) /\ q % 2 \in 0 .. 1
    BY EvenOrOdd
  <2>4. CASE q % 2 = 0
    <3>1. Stride * inverse = m * (2 * t) + 1
      BY <2>1, <2>3, <2>4
    <3>2. m * (2 * t) = (2 * m) * t
      BY <2>2
    <3> QED BY <2>2, <3>1, <3>2
  <2>5. CASE q % 2 = 1
    <3>1. Stride * (inverse + m) = m * (q + Stride) + 1 /\ inverse + m \in Nat
      <4>1. Stride * (inverse + m) = Stride * inverse + Stride * m
        BY <1>1, <2>2
      <4>2. m * (q + Stride) = m * q + Stride * m
        BY <1>1, <2>2
      <4>3. Stride * m \in Nat /\ m * q \in Nat
        BY <1>1, <2>2
      <4> QED BY <2>1, <2>2, <4>1, <4>2, <4>3
    <3>2. q + Stride = 2 * (t + h + 1) /\ t + h + 1 \in Nat
      BY <1>1, <2>3, <2>5
    <3>3. m * (2 * (t + h + 1)) = (2 * m) * (t + h + 1)
      BY <2>2, <3>2
    <3> QED BY <2>2, <3>1, <3>2, <3>3
  <2> QED BY <2>3, <2>4, <2>5
<1>4. Blocks \in S
  <2>1. S \in SUBSET Nat /\ \A m \in S : 2 * m \in S
    BY <1>3
  <2> HIDE DEF S
  <2> QED BY <1>2, <2>1 DEF StrideFits, IsPowerOfTwo
<1>5. PICK inverse, q \in Nat : Stride * inverse = Blocks * q + 1
  BY <1>4
<1>6. (Blocks * q + 1) % Blocks = 1 % Blocks
  <2>1. CASE Blocks = 1
    BY <2>1
  <2>2. CASE Blocks # 1
    <3>1. 1 \in 0 .. (Blocks - 1) /\ Blocks * 0 + 1 = 1 /\ 0 \in Int /\ Blocks \in Nat \ {0}
      BY <2>2, HarnessConstants
    <3>2. (Blocks * q + 1) % Blocks = 1
      <4>1. q \in Int
        OBVIOUS
      <4> QED BY <3>1, <4>1, Remainder
    <3>3. 1 % Blocks = 1
      BY <3>1, Remainder
    <3> QED BY <3>2, <3>3
  <2> QED BY <2>1, <2>2
<1> QED BY <1>5, <1>6 DEF Coprime

\* Reads one stride apart reach every block: block b is that of the read at b times
\* the stride's inverse.
LEMMA StrideReaches ==
  ASSUME Coprime, NEW b \in 0 .. (Blocks - 1)
  PROVE  \E o \in 0 .. (Blocks - 1) : (o * Stride) % Blocks = b
<1> USE HarnessConstants
<1>1. PICK inverse \in Nat : (Stride * inverse) % Blocks = 1 % Blocks
  BY DEF Coprime
<1>2. CASE Blocks = 1
  <2>1. b = 0 /\ Stride = Blocks * 0 + Stride /\ (0 * Stride) % Blocks = 0
    BY <1>2
  <2> QED BY <2>1, <1>2
<1>3. CASE Blocks # 1
  <2>1. Stride * inverse \in Nat /\ b * inverse \in Nat /\ b \in Nat
    OBVIOUS
  <2>2. PICK k \in Nat : Stride * inverse = Blocks * k + ((Stride * inverse) % Blocks)
    BY <2>1, Division
  <2>3. 1 % Blocks = 1
    <3>1. 1 \in 0 .. (Blocks - 1) /\ 0 \in Int /\ Blocks * 0 + 1 = 1
      BY <1>3
    <3> QED BY <3>1, Remainder
  <2>4. Stride * inverse = Blocks * k + 1
    BY <1>1, <2>2, <2>3
  <2>5. PICK m \in Nat : /\ b * inverse = Blocks * m + ((b * inverse) % Blocks)
                         /\ (b * inverse) % Blocks \in 0 .. (Blocks - 1)
    BY <2>1, Division
  <2> DEFINE o == (b * inverse) % Blocks
  <2>6. o \in 0 .. (Blocks - 1) /\ b * inverse = Blocks * m + o
    BY <2>5
  <2> HIDE DEF o
  <2>7. o * Stride = Blocks * (b * k - m * Stride) + b
    <3>1. o = b * inverse - Blocks * m
      BY <2>1, <2>6
    <3>2. o * Stride = b * (Stride * inverse) - Blocks * (m * Stride)
      BY <3>1, <2>1
    <3>3. b * (Stride * inverse) = Blocks * (b * k) + b
      BY <2>4, <2>1
    <3> QED BY <3>2, <3>3, <2>1
  <2>8. (o * Stride) % Blocks = b
    <3>1. b * k - m * Stride \in Int
      BY <2>1
    <3> QED BY <2>7, <3>1, Remainder
  <2> QED BY <2>6, <2>8
<1> QED BY <1>2, <1>3

\* As many reads as there are blocks cover the file, in both patterns.
LEMMA ReadsCover ==
  ASSUME Coprime, pattern \in Patterns, Operations >= Blocks
  PROVE  {BlockOf(o) : o \in Ops} = 0 .. (Blocks - 1)
<1> USE HarnessConstants
<1>1. ASSUME NEW o \in Ops PROVE BlockOf(o) \in 0 .. (Blocks - 1)
  <2>1. o \in Nat /\ o * Stride \in Nat
    BY DEF Ops
  <2>2. o % Blocks \in 0 .. (Blocks - 1) /\ (o * Stride) % Blocks \in 0 .. (Blocks - 1)
    BY <2>1, Division
  <2> QED BY <2>2 DEF BlockOf
<1>2. ASSUME NEW b \in 0 .. (Blocks - 1) PROVE \E o \in Ops : BlockOf(o) = b
  <2>1. 0 .. (Blocks - 1) \subseteq Ops
    BY DEF Ops
  <2>2. CASE pattern = "random"
    <3>1. PICK o \in 0 .. (Blocks - 1) : (o * Stride) % Blocks = b
      BY StrideReaches
    <3> QED BY <3>1, <2>1, <2>2 DEF BlockOf
  <2>3. CASE pattern # "random"
    <3>1. 0 \in Int /\ Blocks * 0 + b = b
      OBVIOUS
    <3>2. b % Blocks = b
      BY <3>1, Remainder
    <3> QED BY <3>2, <2>1, <2>3 DEF BlockOf
  <2> QED BY <2>2, <2>3
<1> QED BY <1>1, <1>2

\* It holds initially: nothing is summed.
LEMMA SumInit == BenchInit => SumInv
<1> SUFFICES ASSUME BenchInit PROVE SumInv
  OBVIOUS
<1>1. BenchTypeOK
  BY HarnessConstants DEF BenchInit, BenchTypeOK, ReadStates
<1> QED BY <1>1, HarnessConstants DEF BenchInit, SumInv, Ops

\* Every step keeps it; a read that has its result is never read again.
LEMMA SumNextKeeps == SumInv /\ BenchTypeOK' /\ [BenchNext]_benchVars => SumInv'
<1> SUFFICES ASSUME SumInv, BenchTypeOK', [BenchNext]_benchVars PROVE SumInv'
  OBVIOUS
<1> USE DEF SumInv
<1>1. CASE UNCHANGED benchVars
  BY <1>1 DEF benchVars
<1>2. CASE Issue
  <2>1. /\ read' = [read EXCEPT ![issued] = "reading"] /\ bench = "issuing"
        /\ UNCHANGED <<summed, bytes, bench>> /\ summed = 0
    BY <1>2, HarnessConstants DEF Issue, Ops, BenchTypeOK
  <2>2. \A o \in Ops : ~(o < summed')
    BY <2>1 DEF Ops
  <2> QED BY <2>1, <2>2
<1>3. ASSUME NEW q \in Ops, ReadStep(q) PROVE SumInv'
  <2>1. /\ UNCHANGED <<summed, bytes, bench>> /\ read[q] \notin {"read", "failed"}
        /\ \A o \in Ops : o # q => read'[o] = read[o]
    BY <1>3 DEF ReadStep, ReadBlock, EndRead, BenchTypeOK
  <2> QED BY <2>1
<1>4. CASE StartSumming
  BY <1>4 DEF StartSumming
<1>5. CASE SumNext
  <2>1. /\ summed' = summed + 1 /\ bytes' = bytes + BlockSize /\ read[summed] = "read"
        /\ UNCHANGED <<read, bench>> /\ bench = "summing" /\ summed \in Nat
    BY <1>5, HarnessConstants DEF SumNext, HasResult, BenchTypeOK
  <2>2. bytes' = summed' * BlockSize
    BY <2>1, HarnessConstants
  <2>3. ASSUME NEW o \in Ops, o < summed' PROVE read'[o] = "read"
    BY <2>1, <2>3 DEF Ops
  <2> QED BY <2>1, <2>2, <2>3
<1>6. CASE SumFails
  <2>1. /\ UNCHANGED <<read, summed, bytes>> /\ bench' = "failed" /\ read[summed] = "failed"
        /\ summed \in Ops
    BY <1>6, HarnessConstants DEF SumFails, BenchTypeOK, Ops
  <2> QED BY <2>1
<1>7. CASE BenchDone
  BY <1>7 DEF BenchDone
<1> QED BY <1>1, <1>2, <1>3, <1>4, <1>5, <1>6, <1>7 DEF BenchNext, LoopStep

\* The invariant makes a result complete.
LEMMA SumInvExact == Coprime /\ SumInv => BytesExact
<1> SUFFICES ASSUME Coprime, SumInv PROVE BytesExact
  OBVIOUS
<1>1. ASSUME bench = "done" PROVE \A o \in Ops : read[o] = "read"
  BY <1>1, HarnessConstants DEF SumInv, Ops
<1>2. ASSUME Operations >= Blocks PROVE {BlockOf(o) : o \in Ops} = 0 .. (Blocks - 1)
  BY <1>2, ReadsCover DEF SumInv, BenchTypeOK
<1> QED BY <1>1, <1>2 DEF SumInv, BytesExact

\* A result counts every read, and reads that are enough cover the file, in either
\* pattern; an error means that a read failed.
THEOREM BytesAreExact == StrideFits /\ BenchSpec => []BytesExact
<1> SUFFICES ASSUME StrideFits PROVE BenchSpec => []BytesExact
  OBVIOUS
<1>1. SumInv => BytesExact
  BY StrideIsCoprime, SumInvExact
<1>2. DepthInv => BenchTypeOK
  BY DEF DepthInv
<1> QED BY <1>1, <1>2, DepthInit, DepthNext, SumInit, SumNextKeeps, PTL DEF BenchSpec

-----------------------------------------------------------------------------
\* The table layouts.

\* Total is the loop its definition describes: it starts at 0 and adds the values.
LEMMA TotalIsLoop ==
  ASSUME NEW s \in Seq(Int)
  PROVE  \E f \in [0 .. Len(s) -> Int] :
           /\ f[0] = 0 /\ Total(s) = f[Len(s)]
           /\ \A i \in 1 .. Len(s) : f[i] = f[i - 1] + s[i]
<1> DEFINE n == Len(s)
           Is(f) == f = [i \in 0 .. n |-> IF i = 0 THEN 0 ELSE f[i - 1] + s[i]]
           step == [i \in 1 .. n |-> [v \in Int |-> v + s[i]]]
           total == CHOOSE f : Is(f)
<1>1. n \in Nat /\ \A i \in 1 .. n : s[i] \in Int
  OBVIOUS
<1>2. step \in [1 .. n -> [Int -> Int]]
  BY <1>1
<1>3. PICK f \in [0 .. n -> Int] : f[0] = 0 /\ \A i \in 1 .. n : f[i] = step[i][f[i - 1]]
  <2> DEFINE V == Int
             first == 0
  <2>1. n \in Nat /\ first \in V /\ step \in [1 .. n -> [V -> V]]
    BY <1>1, <1>2
  <2> HIDE DEF step, n, V, first
  <2>2. \E f : Recurs(f, n, V, first, step)
    BY <2>1, Recursion
  <2> QED BY <2>2 DEF Recurs, V, first
<1>4. ASSUME NEW i \in 1 .. n PROVE f[i] = f[i - 1] + s[i]
  <2>1. i - 1 \in 0 .. n /\ f[i - 1] \in Int
    BY SMTT(30), <1>1
  <2>2. f[i] = step[i][f[i - 1]]
    BY <1>3
  <2> HIDE DEF n
  <2> QED BY <2>1, <2>2
<1>5. Is(f)
  <2>1. \A i \in 0 .. n : f[i] = IF i = 0 THEN 0 ELSE f[i - 1] + s[i]
    BY <1>1, <1>3, <1>4
  <2>2. f = [i \in 0 .. n |-> f[i]]
    BY <1>3
  <2> QED BY <2>1, <2>2
<1>6. Is(total)
  <2> HIDE DEF Is
  <2> QED BY <1>5
<1>7. Total(s) = total[n]
  BY DEF Total
<1> HIDE DEF total
<1>8. total[0] = 0 /\ \A i \in 1 .. n : total[i] = total[i - 1] + s[i]
  BY SMTT(30), <1>1, <1>6
<1>9. \A i \in 0 .. n : total[i] = f[i]
  <2> DEFINE T == {i \in 0 .. n : total[i] = f[i]}
  <2>1. 0 \in T
    BY <1>1, <1>3, <1>8
  <2>2. \A k \in 0 .. (n - 1) : k \in T => k + 1 \in T
    BY <1>1, <1>4, <1>8
  <2>3. \A k \in 0 .. n : k \in T
    <3> HIDE DEF T, n
    <3> QED BY <1>1, <2>1, <2>2, Induction
  <2> QED BY <2>3
<1> QED BY SMTT(30), <1>1, <1>3, <1>4, <1>7, <1>9

\* One more value is added to the sum.
LEMMA TotalOfAppend ==
  ASSUME NEW s \in Seq(Int), NEW v \in Int
  PROVE  Total(s) \in Int /\ Total(Append(s, v)) = Total(s) + v
<1> DEFINE n == Len(s)
           t == Append(s, v)
<1>1. t \in Seq(Int) /\ Len(t) = n + 1 /\ n \in Nat
      /\ t[n + 1] = v /\ \A i \in 1 .. n : t[i] = s[i]
  OBVIOUS
<1>2. PICK f \in [0 .. n -> Int] : /\ f[0] = 0 /\ Total(s) = f[n]
                                   /\ \A i \in 1 .. n : f[i] = f[i - 1] + s[i]
  BY TotalIsLoop
<1> HIDE DEF t
<1>3. PICK g \in [0 .. Len(t) -> Int] : /\ g[0] = 0 /\ Total(t) = g[Len(t)]
                                        /\ \A i \in 1 .. Len(t) : g[i] = g[i - 1] + t[i]
  BY <1>1, TotalIsLoop
<1>4. \A i \in 0 .. n : f[i] = g[i]
  <2> DEFINE T == {i \in 0 .. n : f[i] = g[i]}
  <2>1. 0 \in T
    BY <1>1, <1>2, <1>3
  <2>2. \A k \in 0 .. (n - 1) : k \in T => k + 1 \in T
    BY <1>1, <1>2, <1>3
  <2>3. \A k \in 0 .. n : k \in T
    <3> HIDE DEF T, n
    <3> QED BY <1>1, <2>1, <2>2, Induction
  <2> QED BY <2>3
<1>5. g[n + 1] = g[n] + v
  <2>1. n + 1 \in 1 .. Len(t) /\ (n + 1) - 1 = n
    BY <1>1
  <2> QED BY <1>1, <1>3, <2>1
<1>6. f[n] = g[n] /\ f[n] \in Int /\ Total(t) = g[n + 1]
  BY <1>1, <1>2, <1>3, <1>4
<1> QED BY <1>2, <1>5, <1>6 DEF t

\* The sum of nothing, and of one value.
LEMMA TotalOfOne ==
  ASSUME NEW v \in Int PROVE Total(<<>>) = 0 /\ Total(Append(<<>>, v)) = v
<1>1. <<>> \in Seq(Int) /\ Len(<<>>) = 0
  OBVIOUS
<1>2. Total(<<>>) = 0
  BY <1>1, TotalIsLoop
<1>3. Total(Append(<<>>, v)) = Total(<<>>) + v
  BY <1>1, TotalOfAppend
<1> QED BY <1>2, <1>3

\* The last value of a sum is replaced.
LEMMA TotalOfLast ==
  ASSUME NEW s \in Seq(Int), NEW v \in Int, s # <<>>
  PROVE  Total([s EXCEPT ![Len(s)] = v]) = Total(s) - s[Len(s)] + v
<1> DEFINE n == Len(s)
           t == SubSeq(s, 1, n - 1)
<1>1. n \in Nat \ {0} /\ s[n] \in Int
  BY EmptySeq
<1>2. t \in Seq(Int) /\ Len(t) = n - 1 /\ \A i \in 1 .. (n - 1) : t[i] = s[i]
  <2>1. \A i \in 1 .. (n - 1) : s[i] \in Int
    BY <1>1
  <2>2. t = [i \in 1 .. (n - 1) |-> s[i]]
    BY <1>1
  <2>3. n - 1 \in Nat
    BY <1>1
  <2> DEFINE m == n - 1
  <2> HIDE DEF n, t, m
  <2>4. t \in Seq(Int) /\ Len(t) = m
    BY <2>1, <2>2, <2>3 DEF m
  <2> QED BY <2>2, <2>4 DEF m
<1> HIDE DEF t
<1>3. s = Append(t, s[n]) /\ [s EXCEPT ![n] = v] = Append(t, v)
  <2> DEFINE r == [s EXCEPT ![n] = v]
             a == Append(t, s[n])
             b == Append(t, v)
  <2>1. /\ a \in Seq(Int) /\ Len(a) = n /\ a[n] = s[n]
        /\ b \in Seq(Int) /\ Len(b) = n /\ b[n] = v
        /\ \A i \in 1 .. (n - 1) : a[i] = s[i] /\ b[i] = s[i]
    BY <1>1, <1>2
  <2>2. /\ r \in Seq(Int) /\ Len(r) = n /\ r[n] = v
        /\ \A i \in 1 .. (n - 1) : r[i] = s[i]
    BY <1>1
  <2> HIDE DEF r, a, b
  <2>3. \A i \in 1 .. n : s[i] = a[i] /\ r[i] = b[i]
    <3>1. \A i \in 1 .. n : i = n \/ i \in 1 .. (n - 1)
      BY <1>1
    <3> HIDE DEF n
    <3> QED BY <2>1, <2>2, <3>1
  <2>4. s = a /\ r = b
    BY <2>1, <2>2, <2>3, SeqEqual
  <2> QED BY <2>4 DEF r, a, b
<1>4. Total(s) = Total(t) + s[n] /\ Total([s EXCEPT ![n] = v]) = Total(t) + v /\ Total(t) \in Int
  BY <1>1, <1>2, <1>3, TotalOfAppend
<1> QED BY <1>1, <1>4

-----------------------------------------------------------------------------
\* The pages hold the rows in their order, PageRows to each but the last.
PageHolds(i) ==
  /\ i < Len(pages) => pages[i].rows = PageRows
  /\ i = Len(pages) => Len(rowData) = (i - 1) * PageRows + pages[i].rows
  /\ \A c \in ColumnIds :
       /\ Len(pages[i].columns[c]) = pages[i].rows
       /\ \A j \in 1 .. pages[i].rows :
            pages[i].columns[c][j] = rowData[(i - 1) * PageRows + j][c]

PagesHoldRows ==
  /\ pages \in Seq(PageType)
  /\ pages = <<>> => rowData = <<>>
  /\ \A i \in 1 .. Len(pages) : PageHolds(i)

\* The inductive invariant.
TableInv ==
  /\ rowData \in Seq(TableRow)
  /\ colData = [c \in ColumnIds |-> [r \in 1 .. Len(rowData) |-> rowData[r][c]]]
  /\ PagesHoldRows
  /\ \A c \in ColumnIds : PaxSum(c) = RowSum(c)

-----------------------------------------------------------------------------
\* A cell of a row is a value, and an integer.
LEMMA CellIsInt ==
  ASSUME NEW row \in TableRow, NEW c \in ColumnIds PROVE row[c] \in Values /\ row[c] \in Int
BY LayoutConstants DEF TableRow

\* The values of one column, row by row, and how a new row adds to them.
LEMMA ColumnOfRows ==
  ASSUME NEW rows \in Seq(TableRow), NEW row \in TableRow, NEW c \in ColumnIds
  PROVE  /\ [r \in DOMAIN rows |-> rows[r][c]] \in Seq(Int)
         /\ [r \in DOMAIN Append(rows, row) |-> Append(rows, row)[r][c]]
              = Append([r \in DOMAIN rows |-> rows[r][c]], row[c])
<1> DEFINE n == Len(rows)
           longer == Append(rows, row)
           s == [r \in DOMAIN rows |-> rows[r][c]]
           t == [r \in DOMAIN longer |-> longer[r][c]]
           a == Append(s, row[c])
<1>1. /\ n \in Nat /\ DOMAIN rows = 1 .. n /\ \A r \in 1 .. n : rows[r] \in TableRow
      /\ longer \in Seq(TableRow) /\ DOMAIN longer = 1 .. (n + 1) /\ Len(longer) = n + 1
      /\ longer[n + 1] = row /\ \A r \in 1 .. n : longer[r] = rows[r]
  OBVIOUS
<1>2. /\ \A r \in 1 .. n : rows[r][c] \in Int
      /\ \A r \in 1 .. (n + 1) : longer[r][c] \in Int
  BY <1>1, CellIsInt
<1> HIDE DEF longer
<1>3. s \in Seq(Int) /\ Len(s) = n /\ \A r \in 1 .. n : s[r] = rows[r][c]
  BY <1>1, <1>2
<1>4. t \in Seq(Int) /\ Len(t) = n + 1 /\ \A r \in 1 .. (n + 1) : t[r] = longer[r][c]
  BY <1>1, <1>2
<1> HIDE DEF s, t
<1>5. a \in Seq(Int) /\ Len(a) = n + 1 /\ a[n + 1] = row[c] /\ \A r \in 1 .. n : a[r] = s[r]
  BY <1>3, CellIsInt
<1> HIDE DEF a
<1>6. \A r \in 1 .. (n + 1) : t[r] = a[r]
  <2>1. \A r \in 1 .. (n + 1) : r = n + 1 \/ r \in 1 .. n
    BY <1>1
  <2>2. t[n + 1] = a[n + 1]
    BY <1>1, <1>4, <1>5
  <2>3. ASSUME NEW r \in 1 .. n PROVE t[r] = a[r]
    <3>1. r \in 1 .. (n + 1)
      BY <1>1
    <3>2. t[r] = longer[r][c] /\ longer[r] = rows[r] /\ a[r] = s[r] /\ s[r] = rows[r][c]
      BY <1>1, <1>3, <1>4, <1>5, <3>1
    <3> QED BY <3>2, Zenon
  <2> HIDE DEF n
  <2> QED BY <2>1, <2>2, <2>3
<1>7. t = a
  BY <1>1, <1>4, <1>5, <1>6, SeqEqual
<1> QED BY <1>3, <1>7 DEF s, t, a, longer

\* A row adds its cell to the sum of the row store.
LEMMA RowSumOfInsert ==
  ASSUME rowData \in Seq(TableRow), NEW row \in TableRow, NEW c \in ColumnIds,
         rowData' = Append(rowData, row)
  PROVE  RowSum(c) \in Int /\ RowSum(c)' = RowSum(c) + row[c]
<1> DEFINE s == [r \in DOMAIN rowData |-> rowData[r][c]]
<1>1. s \in Seq(Int) /\ RowSum(c)' = Total(Append(s, row[c]))
  <2>1. s \in Seq(Int)
    BY ColumnOfRows
  <2>2. RowSum(c)' = Total([r \in DOMAIN Append(rowData, row) |-> Append(rowData, row)[r][c]])
    BY Zenon DEF RowSum
  <2>3. [r \in DOMAIN Append(rowData, row) |-> Append(rowData, row)[r][c]] = Append(s, row[c])
    BY ColumnOfRows
  <2> QED BY <2>1, <2>2, <2>3, Zenon
<1>2. Total(s) \in Int /\ Total(Append(s, row[c])) = Total(s) + row[c]
  <2> HIDE DEF s
  <2> QED BY <1>1, CellIsInt, TotalOfAppend
<1> QED BY <1>1, <1>2 DEF RowSum

\* A row starts a page when there is none or the last is full, and goes to the end of the
\* last page otherwise.
LEMMA PaxInsertCases ==
  ASSUME pages \in Seq(PageType), NEW row \in TableRow
  PROVE  \/ /\ pages = <<>> \/ pages[Len(pages)].rows = PageRows
            /\ PaxInsert(row) = Append(pages, [columns |-> [c \in ColumnIds |-> Append(<<>>, row[c])],
                                               rows    |-> 1])
         \/ /\ pages # <<>> /\ pages[Len(pages)].rows < PageRows
            /\ PaxInsert(row) =
                 [pages EXCEPT ![Len(pages)] =
                    [columns |-> [c \in ColumnIds |-> Append(pages[Len(pages)].columns[c], row[c])],
                     rows    |-> pages[Len(pages)].rows + 1]]
<1> DEFINE n == Len(pages)
<1>1. CASE NeedsPage(pages)
  <2> DEFINE empty == [columns |-> EmptyColumns, rows |-> 0]
             page == [columns |-> [c \in ColumnIds |-> Append(<<>>, row[c])], rows |-> 1]
             open == Append(pages, empty)
  <2>1. Push(EmptyColumns, row) = [c \in ColumnIds |-> Append(<<>>, row[c])]
    BY DEF Push, EmptyColumns
  <2>2. /\ open \in Seq(PageType \cup {empty}) /\ Len(open) = n + 1 /\ open[n + 1] = empty
        /\ \A i \in 1 .. n : open[i] = pages[i]
    OBVIOUS
  <2>3. empty.columns = EmptyColumns /\ empty.rows = 0 /\ Last(open) = empty
    BY <2>2 DEF Last
  <2> HIDE DEF open, empty
  <2>4. PaxInsert(row) = [open EXCEPT ![n + 1] = page]
    <3>1. PaxInsert(row) = [open EXCEPT ![Len(open)] = [columns |-> Push(Last(open).columns, row),
                                                        rows    |-> Last(open).rows + 1]]
      BY <1>1, Zenon DEF PaxInsert, open, empty
    <3>2. Last(open).rows + 1 = 1
      BY <2>3
    <3> QED BY <2>1, <2>2, <2>3, <3>1, <3>2, Zenon
  <2> HIDE DEF page
  <2>5. [open EXCEPT ![n + 1] = page] = Append(pages, page)
    <3> DEFINE a == [open EXCEPT ![n + 1] = page]
               b == Append(pages, page)
               P == PageType \cup {empty, page}
    <3>1. n \in Nat /\ open \in Seq(P) /\ pages \in Seq(P) /\ page \in P
      BY <2>2
    <3> HIDE DEF P
    <3>2. /\ a \in Seq(P) /\ Len(a) = n + 1 /\ a[n + 1] = page
          /\ \A i \in 1 .. n : a[i] = open[i]
      BY <2>2, <3>1
    <3>3. /\ b \in Seq(P) /\ Len(b) = n + 1 /\ b[n + 1] = page
          /\ \A i \in 1 .. n : b[i] = pages[i]
      BY <3>1
    <3> HIDE DEF a, b
    <3>4. \A i \in 1 .. (n + 1) : i = n + 1 \/ i \in 1 .. n
      BY <3>1
    <3>5. \A i \in 1 .. (n + 1) : a[i] = b[i]
      <4> HIDE DEF n
      <4> QED BY <2>2, <3>2, <3>3, <3>4
    <3>6. a = b
      BY <3>2, <3>3, <3>5, SeqEqual
    <3> QED BY <3>6 DEF a, b
  <2>6. pages = <<>> \/ pages[n].rows = PageRows
    BY <1>1 DEF NeedsPage, Last
  <2> QED BY <2>4, <2>5, <2>6 DEF page
<1>2. CASE ~NeedsPage(pages)
  <2>1. pages # <<>> /\ pages[n].rows # PageRows /\ Last(pages) = pages[n]
    BY <1>2 DEF NeedsPage, Last
  <2>2. n \in 1 .. n /\ pages[n] \in PageType
    BY <2>1, EmptySeq
  <2>3. pages[n].rows \in 1 .. PageRows
    BY <2>2 DEF PageType
  <2>4. pages[n].rows < PageRows
    BY <2>1, <2>3, LayoutConstants
  <2>5. PaxInsert(row) =
          [pages EXCEPT ![n] = [columns |-> [c \in ColumnIds |-> Append(pages[n].columns[c], row[c])],
                                rows    |-> pages[n].rows + 1]]
    BY <1>2, <2>1 DEF PaxInsert, Push
  <2> QED BY <2>1, <2>4, <2>5
<1> QED BY <1>1, <1>2

\* A row adds its cell to the sum of the pages.
LEMMA PaxSumOfInsert ==
  ASSUME pages \in Seq(PageType), NEW row \in TableRow, NEW c \in ColumnIds,
         pages' = PaxInsert(row)
  PROVE  PaxSum(c)' = PaxSum(c) + row[c]
<1> DEFINE n == Len(pages)
           t == [i \in DOMAIN pages |-> Total(pages[i].columns[c])]
           u == [i \in DOMAIN pages' |-> Total(pages'[i].columns[c])]
<1>1. n \in Nat /\ DOMAIN pages = 1 .. n /\ row[c] \in Int
  BY CellIsInt
<1>2. ASSUME NEW i \in 1 .. n
      PROVE  pages[i].columns[c] \in Seq(Int) /\ Total(pages[i].columns[c]) \in Int
             /\ Total(Append(pages[i].columns[c], row[c])) = Total(pages[i].columns[c]) + row[c]
  <2>1. pages[i] \in PageType
    BY <1>2
  <2>2. pages[i].columns[c] \in Seq(Values)
    BY <2>1 DEF PageType
  <2>3. pages[i].columns[c] \in Seq(Int)
    BY <2>2, LayoutConstants, SeqMonotonic
  <2> HIDE DEF n
  <2> QED BY <1>1, <2>3, TotalOfAppend
<1>3. t \in Seq(Int) /\ Len(t) = n /\ \A i \in 1 .. n : t[i] = Total(pages[i].columns[c])
  BY <1>1, <1>2
<1>4. PaxSum(c) = Total(t) /\ PaxSum(c)' = Total(u)
  BY Zenon DEF PaxSum
<1>5. CASE pages' = Append(pages, [columns |-> [d \in ColumnIds |-> Append(<<>>, row[d])], rows |-> 1])
  <2> DEFINE page == [columns |-> [d \in ColumnIds |-> Append(<<>>, row[d])], rows |-> 1]
             a == Append(t, row[c])
  <2>1. DOMAIN pages' = 1 .. (n + 1) /\ pages'[n + 1] = page /\ \A i \in 1 .. n : pages'[i] = pages[i]
    BY <1>1, <1>5
  <2>2. Total(pages'[n + 1].columns[c]) = row[c]
    <3>1. pages'[n + 1].columns[c] = Append(<<>>, row[c])
      BY <2>1
    <3> QED BY <1>1, <3>1, TotalOfOne
  <2>3. \A i \in 1 .. (n + 1) : i = n + 1 \/ i \in 1 .. n
    BY <1>1
  <2>4. \A i \in 1 .. n : Total(pages'[i].columns[c]) = t[i] /\ t[i] \in Int
    BY <1>2, <1>3, <2>1
  <2>5. u \in Seq(Int) /\ Len(u) = n + 1 /\ u[n + 1] = row[c] /\ \A i \in 1 .. n : u[i] = t[i]
    <3>1. \A i \in 1 .. (n + 1) : Total(pages'[i].columns[c]) \in Int
      <4> HIDE DEF n, t
      <4> QED BY <1>1, <2>2, <2>3, <2>4
    <3>2. u = [i \in 1 .. (n + 1) |-> Total(pages'[i].columns[c])]
      BY <2>1, Zenon
    <3>3. \A i \in 1 .. n : i \in 1 .. (n + 1)
      BY <1>1
    <3>4. n + 1 \in Nat /\ n + 1 \in 1 .. (n + 1)
      BY <1>1
    <3> HIDE DEF u, n, t
    <3>5. \A i \in 1 .. (n + 1) : u[i] = Total(pages'[i].columns[c])
      BY <3>2
    <3>6. u \in Seq(Int) /\ Len(u) = n + 1
      BY <3>1, <3>2, <3>4
    <3> QED BY <2>2, <2>4, <3>3, <3>4, <3>5, <3>6
  <2>6. a \in Seq(Int) /\ Len(a) = n + 1 /\ a[n + 1] = row[c] /\ \A i \in 1 .. n : a[i] = t[i]
    <3> HIDE DEF t
    <3> QED BY <1>1, <1>3
  <2> HIDE DEF a, u, t
  <2>7. \A i \in 1 .. (n + 1) : u[i] = a[i]
    <3> HIDE DEF n
    <3> QED BY <2>3, <2>5, <2>6
  <2>8. u = a
    BY <2>5, <2>6, <2>7, SeqEqual
  <2>9. Total(a) = Total(t) + row[c]
    BY <1>1, <1>3, TotalOfAppend DEF a
  <2> QED BY <1>4, <2>8, <2>9
<1>6. CASE /\ pages # <<>>
           /\ pages' = [pages EXCEPT ![n] =
                          [columns |-> [d \in ColumnIds |-> Append(pages[n].columns[d], row[d])],
                           rows    |-> pages[n].rows + 1]]
  <2> DEFINE page == [columns |-> [d \in ColumnIds |-> Append(pages[n].columns[d], row[d])],
                      rows    |-> pages[n].rows + 1]
             a == [t EXCEPT ![n] = t[n] + row[c]]
  <2>1. n \in 1 .. n /\ n # 0
    BY <1>1, <1>6, EmptySeq
  <2>2. DOMAIN pages' = 1 .. n /\ pages'[n] = page /\ \A i \in 1 .. (n - 1) : pages'[i] = pages[i]
    BY <1>1, <1>6, <2>1
  <2>3. Total(pages'[n].columns[c]) = t[n] + row[c]
    <3>1. pages'[n].columns[c] = Append(pages[n].columns[c], row[c])
      BY SMTT(30), <2>2
    <3> HIDE DEF t, n
    <3> QED BY <1>2, <1>3, <2>1, <3>1
  <2>4. \A i \in 1 .. n : i = n \/ i \in 1 .. (n - 1)
    <3> HIDE DEF n
    <3> QED BY <1>1
  <2>5. \A i \in 1 .. (n - 1) : i \in 1 .. n /\ Total(pages'[i].columns[c]) = t[i]
    BY <1>1, <1>3, <2>2
  <2>6. \A i \in 1 .. n : Total(pages'[i].columns[c]) = a[i]
    <3>1. a[n] = t[n] + row[c] /\ \A i \in 1 .. (n - 1) : a[i] = t[i]
      <4> HIDE DEF t
      <4> QED BY <1>1, <1>3, <2>1
    <3> HIDE DEF a, t, n
    <3> QED BY <2>3, <2>4, <2>5, <3>1
  <2>7. a \in Seq(Int) /\ Len(a) = n
    <3> HIDE DEF t
    <3> QED BY <1>1, <1>3, <2>1
  <2>8. u = a
    <3>1. u = [i \in 1 .. n |-> Total(pages'[i].columns[c])]
      BY <2>2, Zenon
    <3>2. a = [i \in 1 .. n |-> a[i]]
      <4> HIDE DEF a
      <4> QED BY <2>7
    <3> HIDE DEF a, u, t, n
    <3> QED BY <2>6, <3>1, <3>2
  <2>9. t # <<>> /\ t[n] \in Int
    <3> HIDE DEF t
    <3> QED BY <1>3, <2>1
  <2> HIDE DEF t, u
  <2>10. Total(a) = Total(t) - t[n] + (t[n] + row[c])
    <3>1. t[n] + row[c] \in Int
      BY <1>1, <2>9
    <3> QED BY <1>3, <2>9, <3>1, TotalOfLast
  <2>11. Total(t) \in Int
    BY <1>1, <1>3, TotalOfAppend
  <2> HIDE DEF a, n
  <2> QED BY <1>1, <1>4, <2>8, <2>9, <2>10, <2>11
<1> QED BY <1>5, <1>6, PaxInsertCases

-----------------------------------------------------------------------------
\* The layouts begin empty.
LEMMA TableInitOK == ASSUME TableInit PROVE TableInv
<1>1. rowData \in Seq(TableRow) /\ Len(rowData) = 0 /\ DOMAIN rowData = 1 .. 0
  BY DEF TableInit
<1>2. pages \in Seq(PageType) /\ Len(pages) = 0 /\ DOMAIN pages = 1 .. 0 /\ rowData = <<>>
  BY DEF TableInit
<1>3. colData = [c \in ColumnIds |-> [r \in 1 .. Len(rowData) |-> rowData[r][c]]]
  <2>1. \A c \in ColumnIds : <<>> = [r \in 1 .. Len(rowData) |-> rowData[r][c]]
    BY <1>1
  <2> QED BY <2>1 DEF TableInit, EmptyColumns
<1>4. ASSUME NEW c \in ColumnIds PROVE PaxSum(c) = RowSum(c)
  <2>1. [r \in DOMAIN rowData |-> rowData[r][c]] = <<>>
    BY <1>1
  <2>2. [i \in DOMAIN pages |-> Total(pages[i].columns[c])] = <<>>
    BY <1>2
  <2> QED BY <2>1, <2>2 DEF PaxSum, RowSum
<1>5. PagesHoldRows
  BY <1>2 DEF PagesHoldRows
<1> QED BY <1>1, <1>3, <1>4, <1>5 DEF TableInv

\* A row goes behind the others, in the rows and in the pages.
LEMMA PagesAfterInsert ==
  ASSUME TableInv, NEW row \in TableRow, InsertRow(row)
  PROVE  PagesHoldRows'
<1> DEFINE n == Len(pages)
           m == Len(rowData)
<1>0. Len(pages) = n /\ Len(rowData) = m
  OBVIOUS
<1>1. /\ rowData \in Seq(TableRow) /\ m \in Nat /\ n \in Nat /\ pages \in Seq(PageType)
      /\ rowData' = Append(rowData, row) /\ rowData' \in Seq(TableRow)
      /\ Len(rowData)' = m + 1 /\ rowData'[m + 1] = row
      /\ \A r \in 1 .. m : rowData'[r] = rowData[r]
      /\ pages' = PaxInsert(row)
  BY DEF TableInv, PagesHoldRows, InsertRow
<1>2. ASSUME NEW i \in 1 .. n
      PROVE  /\ pages[i] \in PageType /\ pages[i].rows \in 1 .. PageRows /\ PageHolds(i)
             /\ i \in Nat \ {0} /\ (i - 1) * PageRows \in Nat
             /\ \A c \in ColumnIds : pages[i].columns[c] \in Seq(Values)
  <2>1. pages[i] \in PageType /\ PageHolds(i)
    BY <1>1 DEF TableInv, PagesHoldRows
  <2>2. i \in Nat \ {0} /\ i - 1 \in Nat
    OBVIOUS
  <2> QED BY <2>1, <2>2, LayoutConstants DEF PageType
\* A row that a page held is where it was.
<1>3. ASSUME NEW i \in 1 .. n
      PROVE  \A j \in 1 .. pages[i].rows :
               /\ (i - 1) * PageRows + j \in 1 .. m
               /\ rowData'[(i - 1) * PageRows + j] = rowData[(i - 1) * PageRows + j]
  <2>1. (i - 1) * PageRows + pages[i].rows <= m
    <3>1. n \in 1 .. n /\ PageHolds(n) /\ m = (n - 1) * PageRows + pages[n].rows
      <4>1. n \in 1 .. n
        <5> HIDE DEF n
        <5> QED BY <1>1
      <4> QED BY <1>2, <4>1 DEF PageHolds
    <3>2. CASE i = n
      BY <3>1, <3>2
    <3>3. CASE i < n
      <4>1. pages[i].rows = PageRows /\ pages[n].rows \in Nat
        BY <1>2, <3>1, <3>3 DEF PageHolds
      <4>2. (i - 1) * PageRows + PageRows <= (n - 1) * PageRows
        <5>1. i - 1 \in Nat /\ n - 1 \in Nat /\ PageRows \in Nat /\ (i - 1) + 1 <= n - 1
          BY <1>1, <3>3, LayoutConstants
        <5>2. \A a, b, k \in Nat : a + 1 <= b => a * k + k <= b * k
          OBVIOUS
        <5> QED BY <5>1, <5>2
      <4>3. (n - 1) * PageRows \in Nat /\ (i - 1) * PageRows \in Nat
        BY <1>2, <3>1
      <4>4. pages[i].rows = PageRows /\ PageRows \in Nat
        BY <4>1, LayoutConstants
      <4> HIDE DEF m, n
      <4> QED BY <3>1, <4>1, <4>2, <4>3, <4>4
    <3> QED BY <3>2, <3>3
  <2>2. TAKE j \in 1 .. pages[i].rows
  <2>3. (i - 1) * PageRows + j \in 1 .. m
    <3>1. (i - 1) * PageRows \in Nat /\ pages[i].rows \in Nat
      BY <1>2, LayoutConstants
    <3> HIDE DEF m, n
    <3> QED BY <1>1, <2>1, <3>1
  <2> QED BY <1>1, <2>3
<1>4. CASE /\ pages = <<>> \/ pages[n].rows = PageRows
           /\ pages' = Append(pages, [columns |-> [c \in ColumnIds |-> Append(<<>>, row[c])],
                                      rows    |-> 1])
  <2> DEFINE page == [columns |-> [c \in ColumnIds |-> Append(<<>>, row[c])], rows |-> 1]
  <2>1. page \in PageType
    <3>1. \A c \in ColumnIds : Append(<<>>, row[c]) \in Seq(Values)
      BY CellIsInt
    <3> QED BY <3>1, LayoutConstants DEF PageType
  <2>2. /\ pages' \in Seq(PageType) /\ Len(pages)' = n + 1 /\ pages'[n + 1] = page
        /\ \A i \in 1 .. n : pages'[i] = pages[i]
    <3> HIDE DEF page
    <3> QED BY <1>1, <1>4, <2>1 DEF page
  <2>3. m = n * PageRows
    <3>1. CASE pages = <<>>
      <4>1. rowData = <<>> /\ n = 0 /\ m = 0
        BY <3>1 DEF TableInv, PagesHoldRows
      <4> QED BY <4>1, LayoutConstants
    <3>2. CASE pages # <<>>
      <4>1. n \in 1 .. n
        BY <1>1, <3>2, EmptySeq
      <4>2. m = (n - 1) * PageRows + PageRows
        BY <1>2, <1>4, <3>2, <4>1 DEF PageHolds
      <4>3. (n - 1) * PageRows + PageRows = n * PageRows
        <5> HIDE DEF n
        <5> QED BY <1>1, <4>1, LayoutConstants
      <4> QED BY <4>2, <4>3
    <3> QED BY <3>1, <3>2
  <2>4. ASSUME NEW i \in 1 .. n PROVE PageHolds(i)'
    <3>1. pages'[i] = pages[i] /\ i < n + 1 /\ i # n + 1
      BY <1>1, <2>2
    <3>2. pages[i].rows = PageRows
      BY <1>1, <1>2, <1>4, <3>1, EmptySeq DEF PageHolds
    <3>3. \A c \in ColumnIds :
            /\ Len(pages[i].columns[c]) = pages[i].rows
            /\ \A j \in 1 .. pages[i].rows :
                 pages[i].columns[c][j] = rowData[(i - 1) * PageRows + j][c]
      BY <1>2 DEF PageHolds
    <3> HIDE DEF n
    <3> QED BY SMTT(30), <1>0, <1>3, <2>2, <3>1, <3>2, <3>3 DEF PageHolds
  <2>5. ASSUME NEW i, i = n + 1 PROVE PageHolds(i)'
    <3>1. Len(rowData)' = ((n + 1) - 1) * PageRows + 1
      <4> HIDE DEF n, m
      <4> QED BY <1>1, <2>3, LayoutConstants
    <3>2. ASSUME NEW c \in ColumnIds
          PROVE  Len(page.columns[c]) = 1 /\ page.columns[c][1] = row[c]
      BY CellIsInt
    <3>3. rowData'[((n + 1) - 1) * PageRows + 1] = row /\ page.rows = 1
      BY <1>1, <3>1
    <3>4. \A j \in 1 .. page.rows : j = 1
      OBVIOUS
    <3>5. pages'[i] = page /\ ~(i < Len(pages)')
      <4> HIDE DEF n, page
      <4> QED BY <1>1, <2>2, <2>5
    <3>6. Len(rowData)' = (i - 1) * PageRows + page.rows
      <4> HIDE DEF n, m, page
      <4> QED BY <2>5, <3>1, <3>3
    <3>7. ASSUME NEW c \in ColumnIds
          PROVE  /\ Len(page.columns[c]) = page.rows
                 /\ \A j \in 1 .. page.rows :
                      page.columns[c][j] = rowData'[(i - 1) * PageRows + j][c]
      <4> HIDE DEF n, m, page
      <4> QED BY <2>5, <3>2, <3>3, <3>4
    <3> HIDE DEF n, m, page
    <3> QED BY <3>5, <3>6, <3>7, Zenon DEF PageHolds
  <2>6. \A i \in 1 .. (n + 1) : i = n + 1 \/ i \in 1 .. n
    <3> HIDE DEF n
    <3> QED BY <1>1
  <2>7. pages' # <<>>
    BY <1>1, <2>2
  <2>8. ASSUME NEW i \in 1 .. (n + 1) PROVE PageHolds(i)'
    <3>1. CASE i = n + 1
      BY <2>5, <3>1
    <3>2. CASE i \in 1 .. n
      BY <2>4, <3>2, Zenon
    <3> QED BY <2>6, <3>1, <3>2
  <2> HIDE DEF n
  <2> QED BY <2>2, <2>7, <2>8, Zenon DEF PagesHoldRows
<1>5. CASE /\ pages # <<>> /\ pages[n].rows < PageRows
           /\ pages' = [pages EXCEPT ![n] =
                          [columns |-> [c \in ColumnIds |-> Append(pages[n].columns[c], row[c])],
                           rows    |-> pages[n].rows + 1]]
  <2> DEFINE k == pages[n].rows
             page == [columns |-> [c \in ColumnIds |-> Append(pages[n].columns[c], row[c])],
                      rows    |-> k + 1]
  <2>1. n \in 1 .. n
    BY <1>1, <1>5, EmptySeq
  <2>2. /\ k \in Nat \ {0} /\ k + 1 \in 1 .. PageRows /\ PageHolds(n)
        /\ \A c \in ColumnIds : pages[n].columns[c] \in Seq(Values)
    BY <1>2, <1>5, <2>1, LayoutConstants
  <2>3. page \in PageType
    <3>1. \A c \in ColumnIds : Append(pages[n].columns[c], row[c]) \in Seq(Values)
      BY <2>2, CellIsInt
    <3> HIDE DEF k
    <3> QED BY <2>2, <3>1 DEF PageType
  <2>4. /\ pages' \in Seq(PageType) /\ Len(pages)' = n /\ pages'[n] = page
        /\ \A i \in 1 .. n : i # n => pages'[i] = pages[i]
    <3>1. pages' = [pages EXCEPT ![n] = page]
      BY <1>5
    <3> HIDE DEF page
    <3> QED BY <1>1, <2>1, <2>3, <3>1
  <2>5. ASSUME NEW i \in 1 .. n, i # n PROVE PageHolds(i)'
    <3>1. pages'[i] = pages[i]
      BY <2>4, <2>5
    <3>2. PageHolds(i)
      BY <1>2
    <3> HIDE DEF n
    <3> QED BY ZenonT(30), <1>0, <1>3, <2>4, <2>5, <3>1, <3>2 DEF PageHolds
  <2>6. ASSUME NEW i, i = n PROVE PageHolds(i)'
    <3>1. m = (n - 1) * PageRows + k /\ (n - 1) * PageRows \in Nat
      BY <1>2, <2>1, <2>2 DEF PageHolds
    <3>2. Len(rowData)' = (n - 1) * PageRows + (k + 1)
      <4> HIDE DEF n, m, k
      <4> QED BY <1>1, <2>2, <3>1
    <3>3. rowData'[(n - 1) * PageRows + (k + 1)] = row
      BY <1>1, <3>2
    <3>4. ASSUME NEW c \in ColumnIds
          PROVE  /\ Len(page.columns[c]) = k + 1 /\ page.columns[c][k + 1] = row[c]
                 /\ \A j \in 1 .. k : page.columns[c][j] = pages[n].columns[c][j]
      <4> DEFINE q == pages[n].columns[c]
      <4>1. q \in Seq(Values) /\ Len(q) = k /\ page.columns[c] = Append(q, row[c])
        BY <2>1, <2>2 DEF PageHolds
      <4> HIDE DEF q, k, page
      <4> QED BY <2>2, <4>1, CellIsInt DEF q
    <3>5. ASSUME NEW c \in ColumnIds, NEW j \in 1 .. (k + 1)
          PROVE  page.columns[c][j] = rowData'[(n - 1) * PageRows + j][c]
      <4>1. CASE j = k + 1
        BY <3>3, <3>4, <4>1
      <4>2. CASE j # k + 1
        <5>1. j \in 1 .. k
          <6> HIDE DEF k
          <6> QED BY <2>2, <4>2
        <5>2. page.columns[c][j] = rowData[(n - 1) * PageRows + j][c]
          BY <2>2, <3>4, <5>1 DEF PageHolds
        <5>3. rowData'[(n - 1) * PageRows + j] = rowData[(n - 1) * PageRows + j]
          BY <1>3, <2>1, <5>1
        <5> QED BY <5>2, <5>3
      <4> QED BY <4>1, <4>2
    <3>6. page.rows = k + 1
      OBVIOUS
    <3>7. pages'[i] = page /\ ~(i < Len(pages)')
      <4> HIDE DEF n, page
      <4> QED BY <1>1, <2>4, <2>6
    <3>8. Len(rowData)' = (i - 1) * PageRows + page.rows
      <4> HIDE DEF n, m, k, page
      <4> QED BY <2>6, <3>2, <3>6
    <3>9. ASSUME NEW c \in ColumnIds
          PROVE  /\ Len(page.columns[c]) = page.rows
                 /\ \A j \in 1 .. page.rows :
                      page.columns[c][j] = rowData'[(i - 1) * PageRows + j][c]
      <4> HIDE DEF n, m, k, page
      <4> QED BY <2>6, <3>4, <3>5, <3>6
    <3> HIDE DEF n, m, k, page
    <3> QED BY <3>7, <3>8, <3>9, Zenon DEF PageHolds
  <2>7. pages' # <<>>
    BY <1>1, <2>1, <2>4
  <2>8. ASSUME NEW i \in 1 .. n PROVE PageHolds(i)'
    <3>1. CASE i = n
      BY <2>6, <3>1
    <3>2. CASE i # n
      BY <2>5, <3>2
    <3> QED BY <3>1, <3>2
  <2> HIDE DEF n
  <2> QED BY <2>4, <2>7, <2>8, Zenon DEF PagesHoldRows
<1> QED BY <1>1, <1>4, <1>5, PaxInsertCases

\* A row goes into every layout.
LEMMA TableStepOK ==
  ASSUME TableInv, [TableNext]_tableVars PROVE TableInv'
<1>1. CASE UNCHANGED tableVars
  <2>1. rowData' = rowData /\ colData' = colData /\ pages' = pages
    BY <1>1 DEF tableVars
  <2>2. PagesHoldRows'
    <3>1. PagesHoldRows
      BY DEF TableInv
    <3>2. ASSUME NEW i \in 1 .. Len(pages) PROVE PageHolds(i)'
      BY <2>1, <3>1 DEF PagesHoldRows, PageHolds
    <3> QED BY <2>1, <3>1, <3>2 DEF PagesHoldRows
  <2>3. \A c \in ColumnIds : PaxSum(c)' = RowSum(c)'
    <3>1. ASSUME NEW c \in ColumnIds PROVE PaxSum(c)' = PaxSum(c) /\ RowSum(c)' = RowSum(c)
      BY <2>1 DEF PaxSum, RowSum
    <3> QED BY <3>1 DEF TableInv
  <2> QED BY <2>1, <2>2, <2>3 DEF TableInv
<1>2. ASSUME NEW row \in TableRow, InsertRow(row) PROVE TableInv'
  <2> DEFINE n == Len(rowData)
  <2>1. /\ rowData \in Seq(TableRow) /\ n \in Nat /\ pages \in Seq(PageType)
        /\ rowData' = Append(rowData, row) /\ pages' = PaxInsert(row)
        /\ colData' = Push(colData, row)
    BY <1>2 DEF TableInv, PagesHoldRows, InsertRow
  <2>2. rowData' \in Seq(TableRow) /\ Len(rowData)' = n + 1 /\ DOMAIN rowData = 1 .. n
        /\ DOMAIN rowData' = 1 .. Len(rowData)'
    BY <2>1
  <2>3. colData' = [c \in ColumnIds |-> [r \in 1 .. Len(rowData)' |-> rowData'[r][c]]]
    <3>1. ASSUME NEW c \in ColumnIds
          PROVE  Append(colData[c], row[c]) = [r \in 1 .. Len(rowData)' |-> rowData'[r][c]]
      <4>1. colData[c] = [r \in DOMAIN rowData |-> rowData[r][c]]
        BY <2>2 DEF TableInv
      <4>2. [r \in DOMAIN Append(rowData, row) |-> Append(rowData, row)[r][c]]
              = Append([r \in DOMAIN rowData |-> rowData[r][c]], row[c])
        BY <2>1, ColumnOfRows
      <4>3. DOMAIN Append(rowData, row) = 1 .. Len(rowData)' /\ Append(rowData, row) = rowData'
        BY <2>1, <2>2, Zenon
      <4> QED BY <4>1, <4>2, <4>3, Zenon
    <3>2. colData' = [c \in ColumnIds |-> Append(colData[c], row[c])]
      BY <2>1 DEF Push
    <3> QED BY <3>1, <3>2, Zenon
  <2>4. PagesHoldRows'
    BY <1>2, PagesAfterInsert
  <2>5. ASSUME NEW c \in ColumnIds PROVE PaxSum(c)' = RowSum(c)'
    <3>1. PaxSum(c)' = PaxSum(c) + row[c] /\ PaxSum(c) = RowSum(c)
      BY <2>1, PaxSumOfInsert DEF TableInv
    <3>2. RowSum(c)' = RowSum(c) + row[c]
      BY <2>1, RowSumOfInsert
    <3> QED BY <3>1, <3>2
  <2> QED BY <2>2, <2>3, <2>4, <2>5 DEF TableInv
<1> QED BY <1>1, <1>2 DEF TableNext

\* A row's page and place follow from its number.
LEMMA TableInvAgrees == ASSUME TableInv PROVE LayoutsAgree
<1> DEFINE m == Len(rowData)
           n == Len(pages)
<1>1. m \in Nat /\ n \in Nat /\ DOMAIN rowData = 1 .. m /\ pages \in Seq(PageType)
  BY DEF TableInv, PagesHoldRows
<1>2. ASSUME NEW c \in ColumnIds PROVE ColSum(c) = RowSum(c) /\ PaxSum(c) = RowSum(c)
  <2>1. colData[c] = [r \in DOMAIN rowData |-> rowData[r][c]]
    BY <1>1 DEF TableInv
  <2> QED BY <2>1 DEF TableInv, ColSum, RowSum
<1>3. ASSUME NEW c \in ColumnIds, NEW r \in 0 .. (m - 1)
      PROVE  /\ ColGet(r, c) = RowGet(r, c)
             /\ r \div PageRows < n
             /\ r % PageRows < Len(pages[(r \div PageRows) + 1].columns[c])
             /\ PaxGet(r, c) = RowGet(r, c)
  <2> DEFINE p == r \div PageRows
             j == r % PageRows
  <2>1. p \in Nat /\ j \in 0 .. (PageRows - 1) /\ r = p * PageRows + j /\ p * PageRows \in Nat
    <3>1. r \in Nat
      BY <1>1
    <3>2. p \in Nat /\ r = PageRows * p + j /\ j \in 0 .. (PageRows - 1)
      BY <3>1, LayoutConstants
    <3> HIDE DEF p, j
    <3>3. PageRows * p = p * PageRows /\ p * PageRows \in Nat
      BY <3>2, LayoutConstants
    <3> QED BY <3>2, <3>3
  <2>2. r + 1 \in 1 .. m /\ r \in Nat /\ rowData # <<>>
    BY <1>1
  <2>3. ColGet(r, c) = RowGet(r, c)
    BY <2>2 DEF TableInv, ColGet, RowGet
  <2>4. n \in 1 .. n /\ PageHolds(n)
    <3>1. pages # <<>>
      BY <2>2 DEF TableInv, PagesHoldRows
    <3> QED BY <1>1, <3>1, EmptySeq DEF TableInv, PagesHoldRows
  <2>5. ASSUME NEW i \in 1 .. n PROVE pages[i].rows \in 1 .. PageRows /\ PageHolds(i)
    <3>1. pages[i] \in PageType
      BY <1>1
    <3> QED BY <3>1 DEF TableInv, PagesHoldRows, PageType
  <2>6. m = (n - 1) * PageRows + pages[n].rows
    BY <2>4 DEF PageHolds
  <2> HIDE DEF p, j, m, n
  <2>7. \A a, b, k \in Nat : a <= b => a * k <= b * k /\ b * k \in Nat
    OBVIOUS
  <2>8. n \in Nat /\ n - 1 \in Nat /\ PageRows \in Nat \ {0}
    BY <1>1, <2>4, LayoutConstants
  <2>9. p < n
    <3>1. CASE n <= p
      <4>1. n * PageRows <= p * PageRows /\ n * PageRows = (n - 1) * PageRows + PageRows
        BY <2>1, <2>7, <2>8, <3>1
      <4>2. (n - 1) * PageRows \in Nat /\ n * PageRows \in Nat
        BY <2>7, <2>8
      <4>3. r < m /\ pages[n].rows \in 1 .. PageRows
        BY <1>1, <2>2, <2>4, <2>5
      <4> DEFINE A == (n - 1) * PageRows
                 B == p * PageRows
      <4>4. A + PageRows <= B /\ m = A + pages[n].rows /\ r = B + j /\ A \in Nat /\ B \in Nat
        BY <2>1, <2>6, <4>1, <4>2
      <4> HIDE DEF A, B
      <4> QED BY SMTT(30), <1>1, <2>1, <2>2, <2>8, <4>3, <4>4
    <3> QED BY <2>1, <2>8, <3>1
  <2>10. j < pages[p + 1].rows /\ p + 1 \in 1 .. n /\ j + 1 \in 1 .. pages[p + 1].rows
    <3>1. p + 1 \in 1 .. n
      BY <2>1, <2>8, <2>9
    <3>2. CASE p + 1 = n
      <4>1. p = n - 1 /\ r = (n - 1) * PageRows + j /\ (n - 1) * PageRows \in Nat
        BY <2>1, <2>7, <2>8, <3>2
      <4>2. r < m /\ pages[n].rows \in 1 .. PageRows
        BY <1>1, <2>2, <2>4, <2>5
      <4>3. j < pages[n].rows
        BY SMTT(30), <1>1, <2>1, <2>2, <2>6, <4>1, <4>2
      <4> QED BY <2>1, <2>8, <3>1, <3>2, <4>2, <4>3
    <3>3. CASE p + 1 < n
      <4>1. pages[p + 1].rows = PageRows
        BY <2>5, <3>1, <3>3 DEF PageHolds, n
      <4> QED BY <2>1, <2>8, <3>1, <4>1
    <3> QED BY <2>1, <2>8, <2>9, <3>1, <3>2, <3>3
  <2>11. /\ Len(pages[p + 1].columns[c]) = pages[p + 1].rows
         /\ pages[p + 1].columns[c][j + 1] = rowData[((p + 1) - 1) * PageRows + (j + 1)][c]
    BY <2>5, <2>10 DEF PageHolds
  <2>12. ((p + 1) - 1) * PageRows + (j + 1) = r + 1
    <3>1. (p + 1) - 1 = p
      BY <2>1
    <3> QED BY <2>1, <3>1
  <2> QED BY <2>3, <2>9, <2>10, <2>11, <2>12 DEF PaxGet, RowGet, p, j
<1> QED BY <1>2, <1>3 DEF LayoutsAgree

\* The inductive invariant of the table layouts.
THEOREM TableIsHeld == TableSpec => []TableInv
<1>1. TableInit => TableInv
  BY TableInitOK
<1>2. TableInv /\ [TableNext]_tableVars => TableInv'
  BY TableStepOK
<1> QED BY <1>1, <1>2, PTL DEF TableSpec

\* Each layout gives every cell, and every column's sum, as the row store does
\* (row_vs_col.rs).
THEOREM LayoutsDoAgree == TableSpec => []LayoutsAgree
<1>1. TableInv => LayoutsAgree
  BY TableInvAgrees
<1> QED BY <1>1, TableIsHeld, PTL

-----------------------------------------------------------------------------
\* Byte order.

\* Weight is the recursion its definition describes.
LEMMA WeightIsLoop ==
  ASSUME NEW n \in Nat
  PROVE  \E f \in [0 .. n -> Nat \ {0}] :
           f[0] = 1 /\ Weight(n) = f[n] /\ \A i \in 1 .. n : f[i] = f[i - 1] * Radix
<1> DEFINE Is(f) == f = [i \in 0 .. n |-> IF i = 0 THEN 1 ELSE f[i - 1] * Radix]
           step == [i \in 1 .. n |-> [v \in Nat \ {0} |-> v * Radix]]
           weight == CHOOSE f : Is(f)
<1>1. step \in [1 .. n -> [Nat \ {0} -> Nat \ {0}]]
  <2>1. \A v \in Nat \ {0} : v * Radix \in Nat \ {0}
    BY RadixConstant
  <2> QED BY <2>1
<1>2. PICK f \in [0 .. n -> Nat \ {0}] : f[0] = 1 /\ \A i \in 1 .. n : f[i] = step[i][f[i - 1]]
  <2> DEFINE V == Nat \ {0}
             first == 1
  <2>1. first \in V /\ step \in [1 .. n -> [V -> V]]
    BY <1>1
  <2> HIDE DEF step, V, first
  <2>2. \E f : Recurs(f, n, V, first, step)
    BY <2>1, Recursion
  <2> QED BY <2>2 DEF Recurs, V, first
<1>3. ASSUME NEW i \in 1 .. n PROVE f[i] = f[i - 1] * Radix
  <2>1. i - 1 \in 0 .. n /\ f[i - 1] \in Nat \ {0}
    OBVIOUS
  <2> QED BY <1>2, <2>1
<1>4. Is(f)
  <2>1. \A i \in 0 .. n : f[i] = IF i = 0 THEN 1 ELSE f[i - 1] * Radix
    BY <1>2, <1>3
  <2>2. f = [i \in 0 .. n |-> f[i]]
    BY <1>2
  <2> QED BY <2>1, <2>2
<1>5. Is(weight)
  <2> HIDE DEF Is
  <2> QED BY <1>4
<1>6. Weight(n) = weight[n]
  BY DEF Weight
<1> HIDE DEF weight
<1>7. weight[0] = 1 /\ \A i \in 1 .. n : weight[i] = weight[i - 1] * Radix
  BY <1>5
<1>8. \A i \in 0 .. n : weight[i] = f[i]
  <2> DEFINE T == {i \in 0 .. n : weight[i] = f[i]}
  <2>1. 0 \in T
    BY <1>2, <1>7
  <2>2. ASSUME NEW k \in 0 .. (n - 1), k \in T PROVE k + 1 \in T
    <3>1. k + 1 \in 1 .. n /\ (k + 1) - 1 = k
      OBVIOUS
    <3> QED BY <1>3, <1>7, <2>2, <3>1
  <2>3. \A k \in 0 .. (n - 1) : k \in T => k + 1 \in T
    <3> HIDE DEF T
    <3> QED BY <2>2
  <2>4. \A k \in 0 .. n : k \in T
    <3> HIDE DEF T
    <3> QED BY <2>1, <2>3, Induction
  <2> QED BY <2>4
<1> QED BY <1>2, <1>3, <1>6, <1>8

\* The weight of a byte is Radix times that of the one before.
LEMMA WeightGrows ==
  ASSUME NEW n \in Nat
  PROVE  /\ Weight(0) = 1 /\ Weight(n) \in Nat \ {0}
         /\ Weight(n + 1) = Weight(n) * Radix
<1>1. Weight(0) = 1
  <2>1. 0 \in Nat
    OBVIOUS
  <2> QED BY <2>1, WeightIsLoop
<1>2. PICK f \in [0 .. n -> Nat \ {0}] :
        f[0] = 1 /\ Weight(n) = f[n] /\ \A i \in 1 .. n : f[i] = f[i - 1] * Radix
  BY WeightIsLoop
<1>3. PICK g \in [0 .. (n + 1) -> Nat \ {0}] :
        g[0] = 1 /\ Weight(n + 1) = g[n + 1] /\ \A i \in 1 .. (n + 1) : g[i] = g[i - 1] * Radix
  <2>1. n + 1 \in Nat
    OBVIOUS
  <2> QED BY <2>1, WeightIsLoop
<1>4. \A i \in 0 .. n : f[i] = g[i]
  <2> DEFINE T == {i \in 0 .. n : f[i] = g[i]}
  <2>1. 0 \in T
    BY <1>2, <1>3
  <2>2. ASSUME NEW k \in 0 .. (n - 1), k \in T PROVE k + 1 \in T
    <3>1. k + 1 \in 1 .. n /\ k + 1 \in 1 .. (n + 1) /\ (k + 1) - 1 = k
      OBVIOUS
    <3> QED BY <1>2, <1>3, <2>2, <3>1
  <2>3. \A k \in 0 .. (n - 1) : k \in T => k + 1 \in T
    <3> HIDE DEF T
    <3> QED BY <2>2
  <2>4. \A k \in 0 .. n : k \in T
    <3> HIDE DEF T
    <3> QED BY <2>1, <2>3, Induction
  <2> QED BY <2>4
<1>5. g[n + 1] = g[n] * Radix /\ g[n] = f[n] /\ f[n] \in Nat \ {0}
  <2>1. n + 1 \in 1 .. (n + 1) /\ (n + 1) - 1 = n /\ n \in 0 .. n
    OBVIOUS
  <2> QED BY <1>2, <1>3, <1>4, <2>1
<1> QED BY <1>1, <1>2, <1>3, <1>5

\* Number is the loop its definition describes.
LEMMA NumberIsLoop ==
  ASSUME NEW n \in Nat, NEW bs \in Seq(Int), Len(bs) = n,
         NEW f \in [0 .. n -> Int], f[0] = 0,
         \A i \in 1 .. n : f[i] = f[i - 1] * Radix + bs[i]
  PROVE  Number(bs) = f[n]
<1> DEFINE Is(g) == g = [i \in 0 .. n |-> IF i = 0 THEN 0 ELSE g[i - 1] * Radix + bs[i]]
           value == CHOOSE g : Is(g)
<1>1. Is(f)
  <2>1. \A i \in 0 .. n : f[i] = IF i = 0 THEN 0 ELSE f[i - 1] * Radix + bs[i]
    OBVIOUS
  <2>2. f = [i \in 0 .. n |-> f[i]]
    OBVIOUS
  <2> QED BY <2>1, <2>2
<1>2. Is(value)
  <2> HIDE DEF Is
  <2> QED BY <1>1
<1>3. Number(bs) = value[n]
  BY DEF Number
<1> HIDE DEF value
<1>4. value[0] = 0 /\ \A i \in 1 .. n : value[i] = value[i - 1] * Radix + bs[i]
  BY <1>2
<1> DEFINE T == {i \in 0 .. n : value[i] = f[i]}
<1>5. 0 \in T
  BY <1>4
<1>6. ASSUME NEW k \in 0 .. (n - 1), k \in T PROVE k + 1 \in T
  <2>1. k + 1 \in 1 .. n /\ (k + 1) - 1 = k
    OBVIOUS
  <2> QED BY <1>4, <1>6, <2>1
<1>7. \A k \in 0 .. (n - 1) : k \in T => k + 1 \in T
  <2> HIDE DEF T
  <2> QED BY <1>6
<1>8. \A k \in 0 .. n : k \in T
  <2> HIDE DEF T
  <2> QED BY <1>5, <1>7, Induction
<1> QED BY <1>3, <1>8

\* The bytes of a number are bytes.
LEMMA DigitsAreBytes ==
  ASSUME NEW n \in Nat, NEW v \in Nat
  PROVE  /\ \A k \in Nat : Digit(v, k) \in Bytes
         /\ ToBe(v, n) \in Seq(Bytes) /\ Len(ToBe(v, n)) = n
         /\ ToLe(v, n) \in Seq(Bytes) /\ Len(ToLe(v, n)) = n
<1>1. ASSUME NEW k \in Nat PROVE Digit(v, k) \in Bytes
  <2>1. Weight(k) \in Nat \ {0}
    BY WeightGrows
  <2>2. v \div Weight(k) \in Nat
    BY <2>1
  <2> QED BY <2>2, RadixConstant DEF Digit, Bytes
<1>2. \A i \in 1 .. n : i - 1 \in Nat /\ n - i \in Nat
  OBVIOUS
<1>3. (\A i \in 1 .. n : Digit(v, i - 1) \in Bytes) /\ (\A i \in 1 .. n : Digit(v, n - i) \in Bytes)
  BY <1>1, <1>2
<1> QED BY <1>1, <1>3 DEF ToBe, ToLe

\* The bytes of a number, the most significant first, are read as the number: the first
\* i of them are its quotient by the weight of the last of these.
LEMMA NumberOfDigits ==
  ASSUME NEW n \in Nat, NEW v \in 0 .. (Weight(n) - 1)
  PROVE  Number(ToBe(v, n)) = v
<1> DEFINE bs == ToBe(v, n)
           f == [i \in 0 .. n |-> v \div Weight(n - i)]
<1>1. v \in Nat /\ Weight(n) \in Nat \ {0} /\ v < Weight(n)
  BY WeightGrows
<1>2. \A i \in 0 .. n : Weight(n - i) \in Nat \ {0} /\ v \div Weight(n - i) \in Nat
  <2>1. \A w \in Nat \ {0} : v \div w \in Nat
    BY <1>1
  <2>2. \A i \in 0 .. n : n - i \in Nat
    OBVIOUS
  <2> QED BY <2>1, <2>2, WeightGrows
<1>3. f[0] = 0
  <2>1. \A w \in Nat \ {0} : v < w => v \div w = 0
    BY <1>1
  <2> QED BY <1>1, <2>1
<1>4. f[n] = v
  <2>1. Weight(n - n) = 1 /\ v \div 1 = v
    BY <1>1, WeightGrows
  <2> QED BY <2>1
<1>5. ASSUME NEW i \in 1 .. n PROVE f[i] = f[i - 1] * Radix + bs[i]
  <2> DEFINE w == Weight(n - i)
             q == v \div w
  <2>1. w \in Nat \ {0} /\ q \in Nat
    BY <1>2
  <2>2. Weight(n - (i - 1)) = w * Radix
    <3>1. n - i \in Nat /\ n - (i - 1) = (n - i) + 1
      OBVIOUS
    <3> QED BY <3>1, WeightGrows
  <2>3. f[i] = q /\ f[i - 1] = v \div (w * Radix) /\ bs[i] = q % Radix
    <3>1. i \in 0 .. n /\ i - 1 \in 0 .. n
      OBVIOUS
    <3>2. bs[i] = q % Radix
      BY DEF ToBe, Digit
    <3> QED BY <2>2, <3>1, <3>2
  <2> HIDE DEF w, q, f, bs
  <2>4. v \div (w * Radix) = q \div Radix
    BY <1>1, <2>1, QuotientOfQuotient, RadixConstant DEF q
  <2>5. q = Radix * (q \div Radix) + (q % Radix) /\ q \div Radix \in Nat
    BY <2>1, RadixConstant, QuotientAndRemainder
  <2> DEFINE d == q \div Radix
             e == q % Radix
  <2> HIDE DEF d, e
  <2>6. q = d * Radix + e
    BY <2>5, RadixConstant DEF d, e
  <2>7. f[i] = q /\ f[i - 1] = d /\ bs[i] = e
    BY <2>3, <2>4 DEF d, e
  <2> QED BY <2>6, <2>7
<1>6. bs \in Seq(Int) /\ Len(bs) = n
  <2>1. bs \in Seq(Bytes) /\ Len(bs) = n /\ Bytes \subseteq Int
    BY <1>1, DigitsAreBytes DEF Bytes
  <2> HIDE DEF bs
  <2> QED BY <2>1, SeqMonotonic
<1>7. f \in [0 .. n -> Int]
  BY <1>2
<1> HIDE DEF f, bs
<1>8. Number(bs) = f[n]
  BY <1>3, <1>5, <1>6, <1>7, NumberIsLoop
<1> QED BY <1>4, <1>8 DEF bs

\* The one order of bytes is the reverse of the other.
LEMMA OrdersAreReverse ==
  ASSUME NEW n \in Nat, NEW v \in Nat PROVE ToBe(v, n) = Reverse(ToLe(v, n))
<1>1. Len(ToLe(v, n)) = n
  BY DigitsAreBytes
<1>2. Reverse(ToLe(v, n)) = [i \in 1 .. n |-> ToLe(v, n)[(n - i) + 1]]
  BY <1>1 DEF Reverse
<1>3. ASSUME NEW i \in 1 .. n PROVE ToLe(v, n)[(n - i) + 1] = Digit(v, n - i)
  <2>1. (n - i) + 1 \in 1 .. n /\ ((n - i) + 1) - 1 = n - i
    OBVIOUS
  <2> QED BY <2>1 DEF ToLe
<1> QED BY <1>2, <1>3 DEF ToBe

\* A number is read back from the head of longer bytes, in either order.
LEMMA NumbersReadBack ==
  ASSUME NEW n \in Nat, NEW v \in 0 .. (Weight(n) - 1), NEW more \in Seq(Bytes)
  PROVE  /\ FromBe(ToBe(v, n) \o more, n) = v
         /\ FromLe(ToLe(v, n) \o more, n) = v
<1>1. v \in Nat
  BY WeightGrows
<1>2. ASSUME NEW s \in Seq(Bytes), Len(s) = n
      PROVE  /\ Len(s \o more) >= n /\ SubSeq(s \o more, 1, n) = s
             /\ \A i \in 1 .. n : (s \o more)[i] = s[i]
  <2> DEFINE c == s \o more
  <2>1. /\ c \in Seq(Bytes) /\ Len(c) = n + Len(more) /\ Len(more) \in Nat
        /\ \A i \in 1 .. n : c[i] = s[i]
    BY <1>2
  <2> HIDE DEF c
  <2>2. SubSeq(c, 1, n) = [i \in 1 .. n |-> c[i]]
    BY <2>1
  <2>3. s = [i \in 1 .. n |-> s[i]]
    BY <1>2
  <2>4. SubSeq(c, 1, n) = s
    BY <2>1, <2>2, <2>3
  <2> QED BY <2>1, <2>4 DEF c
<1>3. /\ ToBe(v, n) \in Seq(Bytes) /\ Len(ToBe(v, n)) = n
      /\ ToLe(v, n) \in Seq(Bytes) /\ Len(ToLe(v, n)) = n
  BY <1>1, DigitsAreBytes
<1>4. FromBe(ToBe(v, n) \o more, n) = v
  <2>1. Len(ToBe(v, n) \o more) >= n /\ SubSeq(ToBe(v, n) \o more, 1, n) = ToBe(v, n)
    BY <1>2, <1>3
  <2>2. ~(Len(ToBe(v, n) \o more) < n)
    BY <1>3, <2>1
  <2> QED BY <2>1, <2>2, NumberOfDigits DEF FromBe
<1>5. FromLe(ToLe(v, n) \o more, n) = v
  <2> DEFINE bs == ToLe(v, n) \o more
  <2>1. /\ Len(bs) >= n /\ Len(bs) \in Nat
        /\ \A i \in 1 .. n : bs[i] = ToLe(v, n)[i]
    BY <1>2, <1>3
  <2> HIDE DEF bs
  <2>2. [i \in 1 .. n |-> bs[n - i + 1]] = ToBe(v, n)
    <3>1. ASSUME NEW i \in 1 .. n PROVE bs[n - i + 1] = Digit(v, n - i)
      <4>1. n - i + 1 \in 1 .. n /\ (n - i + 1) - 1 = n - i
        OBVIOUS
      <4> QED BY <2>1, <4>1 DEF ToLe
    <3> QED BY <3>1 DEF ToBe
  <2>3. ~(Len(bs) < n)
    BY <2>1
  <2> QED BY <2>2, <2>3, NumberOfDigits DEF FromLe, bs
<1> QED BY <1>4, <1>5

-----------------------------------------------------------------------------
\* What arrived is the beginning of the record's bytes, twice.
ByteInv ==
  /\ sent \in Record /\ wire \in Seq(Bytes) /\ Len(wire) <= 9
  /\ \A i \in 1 .. Len(wire) : wire[i] = (Serialize(sent) \o Serialize(sent))[i]

\* A record's seven bytes, and the two that begin the next.
LEMMA RecordBytes ==
  ASSUME NEW r \in Record
  PROVE  /\ r.id \in 0 .. (Weight(4) - 1) /\ r.flags \in 0 .. (Weight(2) - 1) /\ r.kind \in Bytes
         /\ Serialize(r) \in Seq(Bytes) /\ Len(Serialize(r)) = 7
         /\ \A i \in 1 .. 4 : Serialize(r)[i] = ToLe(r.id, 4)[i]
         /\ \A i \in 5 .. 6 : Serialize(r)[i] = ToLe(r.flags, 2)[i - 4]
         /\ Serialize(r)[7] = r.kind
<1>1. r.id \in 0 .. (Weight(4) - 1) /\ r.flags \in 0 .. (Weight(2) - 1) /\ r.kind \in Bytes
  BY DEF Record, U32, U16
<1>2. r.id \in Nat /\ r.flags \in Nat
  <2>1. Weight(4) \in Nat /\ Weight(2) \in Nat
    BY WeightGrows
  <2> QED BY <1>1, <2>1
<1> DEFINE a == ToLe(r.id, 4)
           b == ToLe(r.flags, 2)
           k == r.kind
<1>3. a \in Seq(Bytes) /\ Len(a) = 4 /\ b \in Seq(Bytes) /\ Len(b) = 2 /\ k \in Bytes
  BY <1>1, <1>2, DigitsAreBytes
<1>4. Serialize(r) = (a \o b) \o <<k>>
  BY DEF Serialize
<1> HIDE DEF a, b, k
<1>5. /\ a \o b \in Seq(Bytes) /\ Len(a \o b) = 6
      /\ \A i \in 1 .. 4 : (a \o b)[i] = a[i]
      /\ \A i \in 5 .. 6 : (a \o b)[i] = b[i - 4]
  <2>1. /\ a \o b \in Seq(Bytes) /\ Len(a \o b) = Len(a) + Len(b)
        /\ \A i \in 1 .. Len(a) + Len(b) :
             (a \o b)[i] = IF i <= Len(a) THEN a[i] ELSE b[i - Len(a)]
    BY <1>3, ConcatProperties
  <2>2. /\ Len(a) + Len(b) = 6
        /\ \A i \in 1 .. 4 : i \in 1 .. 6 /\ i <= Len(a)
        /\ \A i \in 5 .. 6 : i \in 1 .. 6 /\ ~(i <= Len(a)) /\ i - Len(a) = i - 4
    BY <1>3
  <2> DEFINE ab == a \o b
  <2> HIDE DEF ab
  <2> QED BY <2>1, <2>2 DEF ab
<1> DEFINE ab == a \o b
           all == ab \o <<k>>
<1> HIDE DEF ab
<1>6. /\ all \in Seq(Bytes) /\ Len(all) = 7 /\ all[7] = k
      /\ \A i \in 1 .. 6 : all[i] = ab[i]
  BY <1>3, <1>5 DEF ab
<1> HIDE DEF all
<1>7. /\ \A i \in 1 .. 4 : all[i] = a[i]
      /\ \A i \in 5 .. 6 : all[i] = b[i - 4]
  <2>1. (\A i \in 1 .. 4 : i \in 1 .. 6) /\ (\A i \in 5 .. 6 : i \in 1 .. 6)
    OBVIOUS
  <2> QED BY <1>5, <1>6, <2>1 DEF ab
<1> QED BY <1>1, <1>4, <1>6, <1>7 DEF a, b, k, ab, all

\* The first bytes that arrive are those of the record.
LEMMA RecordArrives ==
  ASSUME ByteInv, NEW i \in 1 .. Len(wire), i <= 7
  PROVE  wire[i] = Serialize(sent)[i]
<1> DEFINE s == Serialize(sent)
<1>1. s \in Seq(Bytes) /\ Len(s) = 7
  BY RecordBytes DEF ByteInv
<1>2. wire[i] = (s \o s)[i]
  BY DEF ByteInv
<1>3. i \in 1 .. 7
  BY DEF ByteInv
<1> HIDE DEF s
<1>4. (s \o s)[i] = s[i]
  <2>1. \A k \in 1 .. Len(s) + Len(s) : (s \o s)[k] = IF k <= Len(s) THEN s[k] ELSE s[k - Len(s)]
    BY <1>1, ConcatProperties
  <2>2. i \in 1 .. Len(s) + Len(s) /\ i <= Len(s)
    BY <1>1, <1>3
  <2> QED BY <2>1, <2>2
<1> QED BY <1>2, <1>4 DEF s

\* Seven bytes or more that begin with a record's are read as the record.
LEMMA RecordReadsBack ==
  ASSUME ByteInv, Len(wire) >= 7 PROVE Deserialize(wire) = sent
<1>1. wire \in Seq(Bytes) /\ Len(wire) \in Nat /\ sent \in Record
  BY DEF ByteInv
<1> DEFINE idBytes == ToLe(sent.id, 4)
           flagBytes == ToLe(sent.flags, 2)
<1>2. sent.id \in Nat /\ sent.flags \in Nat
  BY <1>1, RecordBytes, WeightGrows
<1>3. ASSUME NEW m \in Nat, NEW n \in Nat, m + n <= Len(wire)
      PROVE  SubSeq(wire, m + 1, m + n) = [i \in 1 .. n |-> wire[m + i]]
  <2>1. SubSeq(wire, m + 1, m + n) = [i \in 1 .. (1 + (m + n) - (m + 1)) |-> wire[i + (m + 1) - 1]]
    BY <1>1, <1>3
  <2>2. 1 + (m + n) - (m + 1) = n /\ \A i \in 1 .. n : i + (m + 1) - 1 = m + i
    OBVIOUS
  <2> QED BY <2>1, <2>2
<1>4. SubSeq(wire, 1, 4) = idBytes
  <2>1. SubSeq(wire, 1, 4) = [i \in 1 .. 4 |-> wire[i]]
    BY <1>1
  <2>2. \A i \in 1 .. 4 : i \in 1 .. Len(wire) /\ i <= 7
    BY <1>1
  <2>3. \A i \in 1 .. 4 : wire[i] = idBytes[i]
    BY <1>1, <2>2, RecordArrives, RecordBytes
  <2>4. idBytes = [i \in 1 .. 4 |-> idBytes[i]]
    BY <1>2 DEF ToLe
  <2> HIDE DEF idBytes
  <2> QED BY <2>1, <2>3, <2>4
<1>5. SubSeq(wire, 5, 6) = flagBytes
  <2>1. SubSeq(wire, 5, 6) = [i \in 1 .. 2 |-> wire[i + 4]]
    BY <1>1
  <2>2. \A i \in 1 .. 2 : i + 4 \in 5 .. 6 /\ (i + 4) - 4 = i /\ i + 4 \in 1 .. Len(wire) /\ i + 4 <= 7
    BY <1>1
  <2>3. \A i \in 1 .. 2 : wire[i + 4] = flagBytes[i]
    <3>1. \A i \in 5 .. 6 : Serialize(sent)[i] = flagBytes[i - 4]
      BY <1>1, RecordBytes
    <3>2. \A i \in 1 .. 2 : wire[i + 4] = Serialize(sent)[i + 4]
      BY <2>2, RecordArrives
    <3> HIDE DEF flagBytes
    <3> QED BY <2>2, <3>1, <3>2
  <2>4. flagBytes = [i \in 1 .. 2 |-> flagBytes[i]]
    BY <1>2 DEF ToLe
  <2> HIDE DEF flagBytes
  <2> QED BY <2>1, <2>3, <2>4
<1>6. wire[7] = sent.kind
  <2>1. 7 \in 1 .. Len(wire) /\ 7 <= 7
    BY <1>1
  <2> QED BY <1>1, <2>1, RecordArrives, RecordBytes
<1>7. FromLe(idBytes, 4) = sent.id /\ FromLe(flagBytes, 2) = sent.flags
  <2>1. ASSUME NEW n \in Nat, NEW v \in 0 .. (Weight(n) - 1) PROVE FromLe(ToLe(v, n), n) = v
    <3>1. v \in Nat
      BY WeightGrows
    <3>2. ToLe(v, n) \in Seq(Bytes) /\ <<>> \in Seq(Bytes)
      BY <3>1, DigitsAreBytes
    <3>3. ToLe(v, n) \o <<>> = ToLe(v, n)
      BY <3>2, ConcatEmptySeq
    <3>4. FromLe(ToLe(v, n) \o <<>>, n) = v
      BY <3>2, NumbersReadBack
    <3> QED BY <3>3, <3>4
  <2>2. sent.id \in 0 .. (Weight(4) - 1) /\ sent.flags \in 0 .. (Weight(2) - 1)
    BY <1>1, RecordBytes
  <2>3. 4 \in Nat /\ 2 \in Nat
    OBVIOUS
  <2> QED BY <2>1, <2>2, <2>3
<1>8. Deserialize(wire) = [id |-> sent.id, flags |-> sent.flags, kind |-> sent.kind]
  <2>1. ~(Len(wire) < 7)
    BY <1>1
  <2> HIDE DEF idBytes, flagBytes
  <2> QED BY <1>4, <1>5, <1>6, <1>7, <2>1, Zenon DEF Deserialize
<1>9. sent = [id |-> sent.id, flags |-> sent.flags, kind |-> sent.kind]
  BY <1>1 DEF Record
<1> QED BY <1>8, <1>9, Zenon

\* The next byte is the next of the record's.
LEMMA ByteStepOK == ASSUME ByteInv, [Arrive]_byteVars PROVE ByteInv'
<1>1. CASE UNCHANGED byteVars
  BY <1>1 DEF ByteInv, byteVars
<1>2. CASE Arrive
  <2> DEFINE n == Len(wire)
             both == Serialize(sent) \o Serialize(sent)
  <2>1. /\ sent \in Record /\ wire \in Seq(Bytes) /\ n \in Nat /\ n < 9
        /\ sent' = sent /\ wire' = Append(wire, both[n + 1])
    BY <1>2 DEF ByteInv, Arrive
  <2>2. both \in Seq(Bytes) /\ Len(both) = 14
    <3> DEFINE s == Serialize(sent)
    <3>1. s \in Seq(Bytes) /\ Len(s) = 7
      BY <2>1, RecordBytes
    <3> HIDE DEF s
    <3>2. s \o s \in Seq(Bytes) /\ Len(s \o s) = Len(s) + Len(s)
      BY <3>1, ConcatProperties
    <3> QED BY <3>1, <3>2 DEF s
  <2>3. both' = both
    BY <2>1
  <2>4. \A i \in 1 .. n : wire[i] = both[i]
    BY DEF ByteInv
  <2> HIDE DEF both
  <2>5. both[n + 1] \in Bytes
    <3>1. n + 1 \in 1 .. Len(both)
      BY <2>1, <2>2
    <3> HIDE DEF n
    <3> QED BY <2>2, <3>1, ElementOfSeq
  <2>6. /\ wire' \in Seq(Bytes) /\ Len(wire)' = n + 1 /\ wire'[n + 1] = both[n + 1]
        /\ \A i \in 1 .. n : wire'[i] = wire[i]
    BY <2>1, <2>5
  <2>7. \A i \in 1 .. (n + 1) : i = n + 1 \/ i \in 1 .. n
    BY <2>1
  <2>8. \A i \in 1 .. Len(wire)' : wire'[i] = both'[i]
    <3> HIDE DEF n
    <3> QED BY <2>3, <2>4, <2>6, <2>7
  <2>9. Len(wire)' <= 9
    BY <2>1, <2>6
  <2> HIDE DEF n
  <2> QED BY <2>1, <2>6, <2>8, <2>9 DEF ByteInv, both
<1> QED BY <1>1, <1>2

\* The inductive invariant of the reader.
THEOREM BytesArriveInOrder == ByteSpec => []ByteInv
<1>1. ByteInit => ByteInv
  BY DEF ByteInit, ByteInv
<1>2. ByteInv /\ [Arrive]_byteVars => ByteInv'
  BY ByteStepOK
<1> QED BY <1>1, <1>2, PTL DEF ByteSpec

\* With the invariant, a reader gets the record.
LEMMA ByteInvReads == ASSUME ByteInv PROVE ReadBack
<1>1. wire \in Seq(Bytes) /\ Len(wire) \in Nat /\ sent \in Record
  BY DEF ByteInv
<1>2. /\ sent.id \in 0 .. (Weight(4) - 1) /\ sent.flags \in 0 .. (Weight(2) - 1)
      /\ sent.id \in Nat /\ sent.flags \in Nat /\ 4 \in Nat /\ 2 \in Nat
  BY <1>1, RecordBytes, WeightGrows
<1>3. Deserialize(wire) = IF Len(wire) < 7 THEN NoRecord ELSE sent
  <2>1. CASE Len(wire) < 7
    BY <2>1 DEF Deserialize
  <2>2. CASE Len(wire) >= 7
    BY <1>1, <2>2, RecordReadsBack
  <2> QED BY <1>1, <2>1, <2>2
<1>4. FromBe(ToBe(sent.id, 4) \o wire, 4) = sent.id
  BY <1>1, <1>2, NumbersReadBack
<1>5. FromBe(ToBe(sent.flags, 2) \o wire, 2) = sent.flags
  BY <1>1, <1>2, NumbersReadBack
<1>6. /\ ToBe(sent.id, 4) = Reverse(ToLe(sent.id, 4))
      /\ ToBe(sent.flags, 2) = Reverse(ToLe(sent.flags, 2))
  BY <1>2, OrdersAreReverse
<1> QED BY <1>3, <1>4, <1>5, <1>6 DEF ReadBack

\* A reader gets the record when all of it is there, and nothing before; numbers are read
\* back as they were written, in both byte orders (endianness.rs).
THEOREM BytesReadBack == ByteSpec => []ReadBack
<1>1. ByteInv => ReadBack
  BY ByteInvReads
<1> QED BY <1>1, BytesArriveInOrder, PTL

-----------------------------------------------------------------------------
\* The foundations side by side, as MCFoundations runs them.

\* A behaviour of all begins like one of each.
LEMMA PartsBegin ==
  Init => PoolInv /\ DepthInv /\ SumInv /\ TableInv /\ ByteInv
<1> SUFFICES ASSUME Init PROVE PoolInv /\ DepthInv /\ SumInv /\ TableInv /\ ByteInv
  OBVIOUS
<1>1. TaskInit /\ BenchInit /\ TableInit /\ ByteInit
  BY DEF Init, TasksIdle, BenchIdle, BytesIdle
<1> QED BY <1>1, InitInv, DepthInit, SumInit, TableInitOK DEF ByteInit, ByteInv

\* A step of all is a step of one and leaves the others as they are.
LEMMA PartsStep ==
  [Next]_allVars => /\ [TaskNext]_taskVars /\ [BenchNext]_benchVars
                    /\ [TableNext]_tableVars /\ [Arrive]_byteVars
BY DEF Next, allVars

\* Each part keeps its inductive invariant beside the others.
THEOREM PartsAreHeld == Spec => [](PoolInv /\ DepthInv /\ SumInv /\ TableInv /\ ByteInv)
<1>1. DepthInv => BenchTypeOK
  BY DEF DepthInv
<1>2. ByteInv /\ [Arrive]_byteVars => ByteInv'
  BY ByteStepOK
<1>3. TableInv /\ [TableNext]_tableVars => TableInv'
  BY TableStepOK
<1> QED BY <1>1, <1>2, <1>3, PartsBegin, PartsStep, PoolNext, DepthNext, SumNextKeeps, PTL
        DEF Spec

\* Every part keeps its type beside the others.
THEOREM PartsKeepTypes == Spec => []TypeOK
<1>1. PoolInv /\ DepthInv => TaskTypeOK /\ BenchTypeOK
  BY DEF PoolInv, DepthInv
<1>2. TableInv => TableTypeOK
  <2> SUFFICES ASSUME TableInv PROVE colData \in [ColumnIds -> Seq(Values)]
    BY DEF TableInv, PagesHoldRows, TableTypeOK
  <2>1. ASSUME NEW c \in ColumnIds PROVE colData[c] \in Seq(Values)
    <3>1. \A r \in 1 .. Len(rowData) : rowData[r][c] \in Values
      BY <2>1, CellIsInt DEF TableInv
    <3>2. colData[c] = [r \in 1 .. Len(rowData) |-> rowData[r][c]]
      BY <2>1 DEF TableInv
    <3>3. Len(rowData) \in Nat
      BY DEF TableInv
    <3> QED BY <3>1, <3>2, <3>3
  <2> QED BY <2>1 DEF TableInv
<1>3. ByteInv => ByteTypeOK
  BY DEF ByteInv, ByteTypeOK
<1>4. PoolInv /\ DepthInv /\ TableInv /\ ByteInv => TypeOK
  BY <1>1, <1>2, <1>3 DEF TypeOK
<1> QED BY <1>4, PartsAreHeld, PTL

\* Every part keeps its promise beside the others.
THEOREM PartsKeepPromises ==
  StrideFits /\ Spec =>
    [](/\ LimitKept /\ ResultsInOrder /\ DepthKept /\ BytesExact
       /\ LayoutsAgree /\ ReadBack)
<1> SUFFICES ASSUME StrideFits
             PROVE  Spec => [](/\ LimitKept /\ ResultsInOrder /\ DepthKept /\ BytesExact
                               /\ LayoutsAgree /\ ReadBack)
  OBVIOUS
<1>1. PoolInv => LimitKept
  BY DEF PoolInv
<1>2. SumInv => BytesExact
  BY StrideIsCoprime, SumInvExact
<1>3. TableInv => LayoutsAgree
  BY TableInvAgrees
<1>4. ByteInv => ReadBack
  BY ByteInvReads
<1> QED BY <1>1, <1>2, <1>3, <1>4, PoolInvInOrder, DepthInvBounds, PartsAreHeld, PTL
=============================================================================
