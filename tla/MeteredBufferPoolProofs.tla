----------------------- MODULE MeteredBufferPoolProofs -----------------------
(***************************************************************************)
(* The counters of the metered buffer pool add up, where nobody calls      *)
(* new_page, which counts nothing.  The argument: of the fetches begun,    *)
(* those going on that have not missed yet are neither hits nor misses;    *)
(* every other one is a hit, a miss or both; and a miss is used up by the  *)
(* page it brings in, or not at all.                                       *)
(***************************************************************************)
EXTENDS MeteredBufferPool, BufferPoolShapeProofs, FiniteSetTheorems

\* Fetches going on, those of them that have not missed yet, and those that have missed
\* and may still bring a page in.
Ongoing == {t \in Threads : loc[t].op = "fetch"}
Looking == {t \in Threads : loc[t].op = "fetch" /\ ~loc[t].missed}
Pending == {t \in Threads : loc[t].op = "fetch" /\ loc[t].missed /\ ~At(t, "notify")}
Resident == {p \in PageIds : IsMapped(table, p)}

\* A fetch past its first lookup has missed, unless it waits to look again.
MissedOK ==
  \A t \in Threads :
    /\ loc[t].op = "fetch" /\ pc[t] \notin {"lookup", "cvWait"} => loc[t].missed
    /\ loc[t].missed => loc[t].op = "fetch"
    /\ At(t, "notify") => loc[t].op = "fetch"

CountInv ==
  /\ fetches \in Nat /\ cacheHits \in Nat /\ cacheMisses \in Nat /\ evictions \in Nat
  /\ MissedOK
  /\ cacheHits + Cardinality(Ongoing) <= fetches
  /\ cacheMisses + Cardinality(Looking) <= fetches
  /\ fetches <= cacheHits + cacheMisses + Cardinality(Looking)
  /\ evictions + Cardinality(Resident) + Cardinality(Pending) <= cacheMisses

\* What a step means for the fetch of t.
HasLeft(t) == /\ loc[t].op = "fetch" /\ loc[t].missed
              /\ loc'[t] = NoLocals /\ ~At(t, "notify")'

Fetching(t) ==
  \/ \E p \in PageIds : CallFetch(t, p)
  \/ FetchHit(t) \/ PublishFree(t) \/ CommitEviction(t)
  \/ HasLeft(t)
  \/ /\ loc'[t].op = "fetch" <=> loc[t].op = "fetch"
     /\ loc[t].missed => loc'[t].missed
     /\ loc'[t].missed => loc'[t].op = "fetch"
     /\ loc'[t].op = "fetch" /\ pc'[t] \notin {"lookup", "cvWait"} => loc'[t].missed
     /\ ~At(t, "notify")
     /\ At(t, "notify")' => loc'[t].op = "fetch" 

\* Every step of a thread is one of these.
LEMMA FetchSteps ==
  ASSUME SafeCallers, ShapeInv, MissedOK, NEW t \in Threads,
         Call(t) \/ Step(t) \/ SpuriousWake(t)
  PROVE  Fetching(t)
<1> USE DEF At
<1>a. pc \in [Threads -> Locations] /\ loc \in [Threads -> Locals]
  BY DEF ShapeInv, LoaderInv, TypeOK
<1>b. /\ pc[t] \in {"lookup", "cvWait", "loadCheck", "loadSleep", "readFree", "publish",
                  "readNew", "notify"} => loc[t].op = "fetch"
      /\ pc[t] \in {"flushCopy", "flushWrite", "flushClear", "flushed"} =>
           loc[t].op \in {"flush", "delete"}
      /\ pc[t] = "install" => loc[t].op = "new"
      /\ pc[t] = "idle" => loc[t] = NoLocals
      /\ loc[t].op = "fetch" /\ pc[t] \notin {"lookup", "cvWait"} => loc[t].missed
      /\ loc[t].missed => loc[t].op = "fetch"
      /\ pc[t] = "notify" => loc[t].op = "fetch"
  BY DEF ShapeInv, LoaderInv, ControlOK, MissedOK, CallOK, FetchOnly, Flushing
<1>c. NoLocals.op = "none" /\ ~NoLocals.missed /\ NoLocals \in Locals
  BY DEF NoLocals, Locals, Ops
<1>1. ASSUME NEW p \in PageIds, CallFetch(t, p) PROVE Fetching(t)
  BY <1>1 DEF Fetching
<1>2. CASE FetchHit(t)
  BY <1>2 DEF Fetching
<1>3. CASE FetchBusy(t)
  BY <1>3, <1>a, <1>b, <1>c DEF Fetching, FetchBusy, GoTo, HasLeft
<1>4. CASE FetchJoin(t)
  <2>1. loc'[t] = [loc[t] EXCEPT !.missed = TRUE, !.cv = loads[loc[t].page]]
    BY <1>4, <1>a DEF FetchJoin
  <2>2. loc'[t].op = loc[t].op /\ loc'[t].missed
    BY <2>1, <1>a DEF Locals
  <2> QED BY <2>2, <1>4, <1>a, <1>b DEF Fetching, FetchJoin, GoTo
<1>5. CASE LoadCheck(t)
  <2>1. loc'[t] \in {loc[t], [loc[t] EXCEPT !.cv = None]}
    BY <1>5, <1>a DEF LoadCheck
  <2>2. loc'[t].op = loc[t].op /\ loc'[t].missed = loc[t].missed
    BY <2>1, <1>a DEF Locals
  <2> QED BY <2>2, <1>5, <1>a, <1>b DEF Fetching, LoadCheck, GoTo
<1>6. CASE FetchFromFree(t)
  <2>1. loc'[t] = [loc[t] EXCEPT !.missed = TRUE, !.loader = TRUE, !.frame = Head(freeList)]
    BY <1>6, <1>a DEF FetchFromFree
  <2>2. loc'[t].op = loc[t].op /\ loc'[t].missed
    BY <2>1, <1>a DEF Locals
  <2> QED BY <2>2, <1>6, <1>a, <1>b DEF Fetching, FetchFromFree, BecomeLoader, GoTo
<1>7. CASE ReadFree(t)
  BY <1>7, <1>a, <1>b, <1>c DEF Fetching, ReadFree, GoTo, HasLeft
<1>8. CASE PublishFree(t)
  BY <1>8 DEF Fetching
<1>9. CASE ReadFreeFails(t)
  BY <1>9, <1>a, <1>b, <1>c DEF Fetching, ReadFreeFails, WakeAll, HasLeft
<1>10. CASE NotifyLoaders(t)
  BY <1>10, <1>a, <1>b, <1>c DEF Fetching, NotifyLoaders, WakeLoaders, HasLeft
<1>11. CASE FetchScan(t)
  <2>1. loc'[t] = [loc[t] EXCEPT !.missed = TRUE, !.loader = TRUE]
    BY <1>11, <1>a DEF FetchScan
  <2>2. loc'[t].op = loc[t].op /\ loc'[t].missed
    BY <2>1, <1>a DEF Locals
  <2> QED BY <2>2, <1>11, <1>a, <1>b DEF Fetching, FetchScan, BecomeLoader, GoTo
<1>12. CASE FetchWait(t)
  BY <1>12, <1>a, <1>b, <1>c DEF Fetching, FetchWait, GoTo, HasLeft
<1>13. CASE FetchNoEvictable(t)
  BY <1>13, <1>a, <1>b, <1>c DEF Fetching, FetchNoEvictable, Return, GoTo, HasLeft
<1>14. CASE FetchWriteFails(t)
  BY <1>14, <1>a, <1>b, <1>c DEF Fetching, FetchWriteFails, AbandonFetch, WakeAll, HasLeft
<1>15. CASE FetchReadFails(t)
  BY <1>15, <1>a, <1>b, <1>c DEF Fetching, FetchReadFails, AbandonFetch, WakeAll, HasLeft
<1>16. CASE CommitEviction(t)
  BY <1>16 DEF Fetching
<1>17. CASE ClockSkip(t)
  BY <1>17, <1>a, <1>b, <1>c DEF Fetching, ClockSkip, PassFrame, GoTo, EndRevolution, HasLeft
<1>18. CASE ClockSecondChance(t)
  BY <1>18, <1>a, <1>b, <1>c DEF Fetching, ClockSecondChance, PassFrame, GoTo, EndRevolution,
    HasLeft
<1>19. CASE ClockVictim(t)
  BY <1>19, <1>a, <1>b, <1>c DEF Fetching, ClockVictim, AfterWrite, GoTo, HasLeft
<1>20. CASE WriteOld(t)
  BY <1>20, <1>a, <1>b, <1>c DEF Fetching, WriteOld, AfterWrite, GoTo, HasLeft
<1>21. CASE NewNoEvictable(t)
  BY <1>21, <1>a, <1>b, <1>c DEF Fetching, NewNoEvictable, Return, GoTo, HasLeft
<1>22. CASE NewWriteFails(t)
  BY <1>22, <1>a, <1>b, <1>c DEF Fetching, NewWriteFails, Return, GoTo, HasLeft
<1>23. CASE InstallNew(t)
  BY <1>23, <1>a, <1>b, <1>c DEF Fetching, InstallNew, Return, GoTo, HasLeft
<1>24. CASE FlushCopy(t)
  <2>1. loc'[t] \in {loc[t], [loc[t] EXCEPT !.old = frame[loc[t].frame].page]}
    BY <1>24, <1>a DEF FlushCopy
  <2>2. loc'[t].op = loc[t].op /\ loc'[t].missed = loc[t].missed
    BY <2>1, <1>a DEF Locals
  <2>3. pc'[t] \in {"flushWrite", "flushed"}
    BY <1>24, <1>a DEF FlushCopy, GoTo
  <2> QED BY <2>2, <2>3, <1>24, <1>a, <1>b DEF Fetching, FlushCopy
<1>25. CASE FlushWrite(t)
  BY <1>25, <1>a, <1>b, <1>c DEF Fetching, FlushWrite, GoTo, HasLeft
<1>26. CASE FlushWriteFails(t)
  BY <1>26, <1>a, <1>b, <1>c DEF Fetching, FlushWriteFails, FlushError, GoTo, Return, HasLeft
<1>27. CASE FlushClear(t)
  BY <1>27, <1>a, <1>b, <1>c DEF Fetching, FlushClear, GoTo, HasLeft
<1>28. CASE FlushDone(t)
  BY <1>28, <1>a, <1>b, <1>c DEF Fetching, FlushDone, Return, GoTo, HasLeft
<1>29. CASE DeleteDone(t)
  BY <1>29, <1>a, <1>b, <1>c DEF Fetching, DeleteDone, Return, GoTo, HasLeft
<1>30. ASSUME NEW p \in PageIds, UnpinPage(t, p) PROVE Fetching(t)
  BY <1>30, <1>a, <1>b, <1>c DEF Fetching, UnpinPage, HasLeft
<1>31. ASSUME NEW p \in PageIds, MarkDirtyPage(t, p) PROVE Fetching(t)
  BY <1>31, <1>a, <1>b, <1>c DEF Fetching, MarkDirtyPage, HasLeft
<1>32. ASSUME NEW p \in PageIds, FlushPage(t, p) PROVE Fetching(t)
  BY <1>32, <1>a, <1>b, <1>c DEF Fetching, FlushPage, BeginFlush, GoTo, HasLeft
<1>33. ASSUME NEW p \in PageIds, DeleteClean(t, p) PROVE Fetching(t)
  BY <1>33, <1>a, <1>b, <1>c DEF Fetching, DeleteClean, HasLeft
<1>34. ASSUME NEW p \in PageIds, DeleteDirty(t, p) PROVE Fetching(t)
  BY <1>34, <1>a, <1>b, <1>c DEF Fetching, DeleteDirty, BeginFlush, GoTo, HasLeft
<1>35. CASE FlushAll(t)
  BY <1>35, <1>a, <1>b, <1>c DEF Fetching, FlushAll, HasLeft
<1>36. CASE NewFromFree(t)
  BY <1>36, <1>a, <1>b, <1>c DEF Fetching, NewFromFree, HasLeft
<1>37. CASE NewScan(t)
  BY <1>37, <1>a, <1>b, <1>c DEF Fetching, NewScan, GoTo, HasLeft
<1>38. CASE SpuriousWake(t)
  BY <1>38, <1>a, <1>b, <1>c DEF Fetching, SpuriousWake, GoTo, HasLeft
<1>39. ASSUME NEW p \in PageIds, FlushClean(t, p) PROVE Fetching(t)
  BY <1>39, <1>a, <1>b, <1>c DEF Fetching, FlushClean, HasLeft
<1> QED BY <1>1, <1>2, <1>3, <1>4, <1>5, <1>6, <1>7, <1>8, <1>9, <1>10, <1>11, <1>12, <1>13,
  <1>14, <1>15, <1>16, <1>17, <1>18, <1>19, <1>20, <1>21, <1>22, <1>23, <1>24, <1>25, <1>26,
  <1>27, <1>28, <1>29, <1>30, <1>31, <1>32, <1>33, <1>34, <1>35, <1>36, <1>37, <1>38, <1>39,
  Unreached DEF Call, Step, FetchStep, EvictStep, FlushStep

\* A set that changes at one element grows or shrinks by one, or stays.
LEMMA OneMember ==
  ASSUME NEW T, IsFiniteSet(T), NEW A \in SUBSET T, NEW B \in SUBSET T, NEW x,
         \A y \in T \ {x} : y \in A <=> y \in B
  PROVE  /\ Cardinality(A) \in Nat /\ Cardinality(B) \in Nat
         /\ (x \in A <=> x \in B) => Cardinality(B) = Cardinality(A)
         /\ x \in B /\ x \notin A => Cardinality(B) = Cardinality(A) + 1
         /\ x \in A /\ x \notin B => Cardinality(A) = Cardinality(B) + 1
<1>1. IsFiniteSet(A) /\ IsFiniteSet(B)
  BY FS_Subset
<1>2. Cardinality(A) \in Nat /\ Cardinality(B) \in Nat
  BY <1>1, FS_CardinalityType
<1>3. (x \in A <=> x \in B) => A = B
  OBVIOUS
<1>4. x \in B /\ x \notin A => B = A \cup {x}
  OBVIOUS
<1>5. x \in A /\ x \notin B => A = B \cup {x}
  OBVIOUS
<1>6. x \in B /\ x \notin A => Cardinality(B) = Cardinality(A) + 1
  BY <1>1, <1>4, FS_AddElement
<1>7. x \in A /\ x \notin B => Cardinality(A) = Cardinality(B) + 1
  BY <1>1, <1>5, FS_AddElement
<1> QED BY <1>2, <1>3, <1>6, <1>7

\* The numbers of pages and calls are numbers.
LEMMA Counts ==
  ASSUME IsFiniteSet(Threads)
  PROVE  /\ IsFiniteSet(Resident) /\ Cardinality(Resident) \in Nat
         /\ Cardinality(Ongoing) \in Nat /\ Cardinality(Looking) \in Nat
         /\ Cardinality(Pending) \in Nat
<1>1. IsFiniteSet(PageIds)
  BY FS_Interval, FrameConstants DEF PageIds
<1>2. /\ Resident \in SUBSET PageIds /\ Ongoing \in SUBSET Threads
      /\ Looking \in SUBSET Threads /\ Pending \in SUBSET Threads
  BY DEF Resident, Ongoing, Looking, Pending
<1>3. /\ IsFiniteSet(Resident) /\ IsFiniteSet(Ongoing)
      /\ IsFiniteSet(Looking) /\ IsFiniteSet(Pending)
  BY <1>1, <1>2, FS_Subset
<1> QED BY <1>3, FS_CardinalityType

\* A step counts for its own thread only.
LEMMA OwnCounts ==
  ASSUME SafeCallers, ShapeInv, MissedOK, MeteredNext, NEW t \in Threads,
         Call(t) \/ Step(t) \/ SpuriousWake(t)
  PROVE  /\ fetches'     = Add(fetches, \E p \in PageIds : CallFetch(t, p))
         /\ cacheHits'   = Add(cacheHits, FetchHit(t))
         /\ cacheMisses' = Add(cacheMisses, ~loc[t].missed /\ loc'[t].missed)
         /\ evictions'   = Add(evictions, CommitEviction(t))
<1> USE DEF At
<1>a. pc \in [Threads -> Locations] /\ loc \in [Threads -> Locals]
  BY DEF ShapeInv, LoaderInv, TypeOK
<1>b. NoLocals.op = "none"
  BY DEF NoLocals
<1>1. ASSUME NEW u \in Threads \ {t}
      PROVE  /\ loc'[u] = loc[u]
             /\ pc'[u] = "notify" <=> pc[u] = "notify"
  BY OthersUse DEF Locations
<1>2. ASSUME NEW u \in Threads \ {t}, NEW p \in PageIds PROVE ~CallFetch(u, p)
  <2>1. CallFetch(u, p) => loc[u].op = "none"
    BY <1>b DEF CallFetch, ShapeInv, LoaderInv, ControlOK
  <2>2. CallFetch(u, p) => loc'[u] = [NoLocals EXCEPT !.op = "fetch", !.page = p]
    BY <1>a DEF CallFetch
  <2> QED BY <1>1, <2>1, <2>2, <1>b DEF NoLocals
<1>3. ASSUME NEW u \in Threads \ {t} PROVE ~FetchHit(u)
  <2>1. FetchHit(u) => loc[u].op = "fetch"
    BY DEF FetchHit, ShapeInv, CallOK, FetchOnly
  <2>2. FetchHit(u) => loc'[u] = NoLocals
    BY <1>a DEF FetchHit, Return
  <2> QED BY <1>1, <2>1, <2>2, <1>b
<1>4. ASSUME NEW u \in Threads \ {t} PROVE ~CommitEviction(u)
  <2>1. CommitEviction(u) => pc'[u] = "notify" /\ pc[u] = "readNew"
    BY <1>a DEF CommitEviction, WakeAll
  <2> QED BY <1>1, <2>1
<1>5. \A u \in Threads : ~FetchHitFails(u)
  BY Unreached
<1>6. RecordFetch <=> \E p \in PageIds : CallFetch(t, p)
  BY <1>2 DEF RecordFetch
<1>7. RecordHit <=> FetchHit(t)
  BY <1>3, <1>5 DEF RecordHit
<1>8. RecordEviction <=> CommitEviction(t)
  BY <1>4 DEF RecordEviction
<1>9. RecordMiss <=> ~loc[t].missed /\ loc'[t].missed
  BY <1>1 DEF RecordMiss
<1> QED BY <1>6, <1>7, <1>8, <1>9 DEF MeteredNext, Add

\* A page comes in when a load is published; an eviction puts one page in another's
\* place.  Without new_page there is no other way in.
LEMMA ResidentStep ==
  ASSUME SafeCallers, ShapeInv, IsFiniteSet(Threads), Creators = {}, NEW t \in Threads,
         Call(t) \/ Step(t) \/ SpuriousWake(t)
  PROVE  /\ Cardinality(Resident') \in Nat
         /\ Cardinality(Resident') <= Cardinality(Resident) + 1
         /\ ~PublishFree(t) => Cardinality(Resident') <= Cardinality(Resident)
<1> USE DEF At
<1>a. TypeOK /\ IsFiniteSet(Resident) /\ Cardinality(Resident) \in Nat
  BY Counts DEF ShapeInv, LoaderInv
<1>b. \A f \in FrameIds : f # None
  BY PoolSize DEF FrameIds, None
<1>1. CASE PublishFree(t)
  <2>1. PICK p \in PageIds, f \in FrameIds : p = loc[t].page /\ f = loc[t].frame
    BY <1>1, OwnFrame DEF PublishFree
  <2>2. Resident' = Resident \cup {p}
    BY <1>1, <1>a, <1>b, <2>1 DEF PublishFree, Resident, Insert, IsMapped, TypeOK
  <2>3. Cardinality(Resident \cup {p}) \in {Cardinality(Resident), Cardinality(Resident) + 1}
    BY <1>a, FS_AddElement
  <2> QED BY <1>1, <1>a, <2>2, <2>3
<1>2. CASE CommitEviction(t)
  <2>1. PICK p \in PageIds, f \in FrameIds, o \in PageIds :
          /\ p = loc[t].page /\ f = loc[t].frame /\ o = loc[t].old /\ table[o] = f
    BY <1>2, OwnFrame DEF CommitEviction, Reserving, ShapeInv, WorkOK, Evicting
  <2>2. ~IsMapped(table, p)
    BY <1>2, <2>1 DEF CommitEviction, CanReplace
  <2>3. table' = [table EXCEPT ![o] = None, ![p] = f]
    BY <1>2, <2>1 DEF CommitEviction, Replace
  <2>4. Resident' = (Resident \ {o}) \cup {p}
    BY <1>a, <1>b, <2>3 DEF Resident, IsMapped, TypeOK
  <2>5. o \in Resident /\ p \notin Resident \ {o}
    BY <1>b, <2>1, <2>2 DEF Resident, IsMapped
  <2>6. IsFiniteSet(Resident \ {o}) /\ Cardinality(Resident \ {o}) = Cardinality(Resident) - 1
    BY <1>a, <2>5, FS_RemoveElement
  <2>7. Cardinality((Resident \ {o}) \cup {p}) = Cardinality(Resident \ {o}) + 1
    BY <2>5, <2>6, FS_AddElement
  <2> QED BY <1>a, <2>4, <2>6, <2>7
<1>3. CASE ~PublishFree(t) /\ ~CommitEviction(t)
  <2>1. Silent(t) \/ Marks(t) \/ Transfers(t)
    BY Effects
  <2>2. \/ table' = table
        \/ DeleteDone(t) \/ \E p \in PageIds : DeleteClean(t, p)
    BY <1>3, <2>1
    DEF Silent, Marks, Transfers, ClockSecondChance, FlushClear, FlushAll, FlushClean,
        FetchFromFree, ReadFree, ReadFreeFails, ClockVictim, FetchWriteFails,
        FetchReadFails, AbandonFetch, NewWriteFails, FlushWriteFails, FlushDone,
        FlushPage, DeleteDirty, BeginFlush, FetchHit, UnpinPage, MarkDirtyPage,
        NewFromFree, InstallNew, ShapeInv, CallOK
  <2>3. \/ table' = table
        \/ \E p \in PageIds : table' = [table EXCEPT ![p] = None]
    BY <2>2, OwnFrame DEF DeleteDone, DeleteClean, Discard, Remove, Reserving
  <2>4. Resident' \subseteq Resident
    BY <1>a, <2>3 DEF Resident, IsMapped, TypeOK
  <2>5. IsFiniteSet(Resident') /\ Cardinality(Resident') <= Cardinality(Resident)
    BY <1>a, <2>4, FS_Subset
  <2>6. Cardinality(Resident') \in Nat
    BY <2>5, FS_CardinalityType
  <2> QED BY <1>a, <2>5, <2>6
<1> QED BY <1>1, <1>2, <1>3

\* MissedOK is kept, by the thread that steps and by those it wakes.
LEMMA MissedStep ==
  ASSUME SafeCallers, ShapeInv, MissedOK, NEW t \in Threads,
         Call(t) \/ Step(t) \/ SpuriousWake(t)
  PROVE  MissedOK'
<1> USE DEF At
<1>a. TypeOK /\ pc \in [Threads -> Locations] /\ loc \in [Threads -> Locals]
  BY DEF ShapeInv, LoaderInv, TypeOK
<1>b. NoLocals.op = "none" /\ ~NoLocals.missed
  BY DEF NoLocals
<1>c. /\ pc[t] \in {"lookup", "publish", "readNew"} => loc[t].op = "fetch"
      /\ pc[t] \in {"publish", "readNew"} => loc[t].missed
      /\ loc[t].missed => loc[t].op = "fetch"
  BY DEF ShapeInv, CallOK, FetchOnly, MissedOK
<1>1. ASSUME NEW u \in Threads \ {t}
      PROVE  /\ loc'[u] = loc[u]
             /\ \/ pc'[u] = pc[u]
                \/ pc[u] = "cvWait" /\ pc'[u] = "lookup"
                \/ pc[u] = "loadSleep" /\ pc'[u] = "loadCheck"
  BY <1>a, OthersKeep
<1>2. /\ loc'[t].op = "fetch" /\ pc'[t] \notin {"lookup", "cvWait"} => loc'[t].missed
      /\ loc'[t].missed => loc'[t].op = "fetch"
      /\ pc'[t] = "notify" => loc'[t].op = "fetch"
  <2>1. ASSUME NEW p \in PageIds, CallFetch(t, p)
        PROVE  pc'[t] = "lookup" /\ ~loc'[t].missed
    BY <2>1, <1>a DEF CallFetch, GoTo, NoLocals
  <2>2. CASE FetchHit(t)
    BY <2>2, <1>a, <1>b DEF FetchHit, Return, GoTo
  <2>3. CASE PublishFree(t) \/ CommitEviction(t)
    <3>1. loc'[t] = [loc[t] EXCEPT !.cv = loads[loc[t].page]]
      BY <2>3, <1>a DEF PublishFree, CommitEviction
    <3>2. loc'[t].op = loc[t].op /\ loc'[t].missed = loc[t].missed
      BY <3>1, <1>a DEF Locals
    <3> QED BY <2>3, <3>2, <1>c DEF PublishFree, CommitEviction
  <2>4. CASE HasLeft(t)
    BY <2>4, <1>b DEF HasLeft
  <2> QED BY <2>1, <2>2, <2>3, <2>4, FetchSteps DEF Fetching
<1> QED BY <1>1, <1>2 DEF MissedOK

\* How the sets of fetches change, by what the step means for t's.
LEMMA SetsStep ==
  ASSUME ShapeInv, IsFiniteSet(Threads), NEW t \in Threads,
         Call(t) \/ Step(t) \/ SpuriousWake(t), NEW a \in Nat, NEW b \in Nat, NEW c \in Nat,
         a = Cardinality(Ongoing), b = Cardinality(Looking), c = Cardinality(Pending)
  PROVE  /\ Cardinality(Ongoing') =
              a + (IF t \in Ongoing' THEN 1 ELSE 0) - (IF t \in Ongoing THEN 1 ELSE 0)
         /\ Cardinality(Looking') =
              b + (IF t \in Looking' THEN 1 ELSE 0)
                - (IF t \in Looking THEN 1 ELSE 0)
         /\ Cardinality(Pending') =
              c + (IF t \in Pending' THEN 1 ELSE 0) - (IF t \in Pending THEN 1 ELSE 0)
<1>1. ASSUME NEW u \in Threads \ {t}
      PROVE  /\ loc'[u] = loc[u]
             /\ At(u, "notify")' <=> At(u, "notify")
  BY OthersUse DEF Locations, At
<1>2. /\ Ongoing \in SUBSET Threads /\ Ongoing' \in SUBSET Threads
      /\ Looking \in SUBSET Threads /\ Looking' \in SUBSET Threads
      /\ Pending \in SUBSET Threads /\ Pending' \in SUBSET Threads
  BY DEF Ongoing, Looking, Pending
<1>3. \A u \in Threads \ {t} : /\ u \in Ongoing <=> u \in Ongoing'
                               /\ u \in Looking <=> u \in Looking'
                               /\ u \in Pending <=> u \in Pending'
  BY <1>1 DEF Ongoing, Looking, Pending
<1> HIDE DEF Ongoing, Looking, Pending
<1>4. Cardinality(Ongoing') =
        a + (IF t \in Ongoing' THEN 1 ELSE 0) - (IF t \in Ongoing THEN 1 ELSE 0)
  <2>1. \A u \in Threads \ {t} : u \in Ongoing <=> u \in Ongoing'
    BY <1>3
  <2>2. /\ Cardinality(Ongoing) \in Nat /\ Cardinality(Ongoing') \in Nat
        /\ (t \in Ongoing <=> t \in Ongoing') => Cardinality(Ongoing') = Cardinality(Ongoing)
        /\ t \in Ongoing' /\ t \notin Ongoing => Cardinality(Ongoing') = Cardinality(Ongoing) + 1
        /\ t \in Ongoing /\ t \notin Ongoing' => Cardinality(Ongoing) = Cardinality(Ongoing') + 1
    BY <1>2, <2>1, OneMember
  <2> QED BY <2>2
<1>5. Cardinality(Looking') =
        b + (IF t \in Looking' THEN 1 ELSE 0)
          - (IF t \in Looking THEN 1 ELSE 0)
  <2>1. \A u \in Threads \ {t} : u \in Looking <=> u \in Looking'
    BY <1>3
  <2>2. /\ Cardinality(Looking) \in Nat /\ Cardinality(Looking') \in Nat
        /\ (t \in Looking <=> t \in Looking') => Cardinality(Looking') = Cardinality(Looking)
        /\ t \in Looking' /\ t \notin Looking => Cardinality(Looking') = Cardinality(Looking) + 1
        /\ t \in Looking /\ t \notin Looking' => Cardinality(Looking) = Cardinality(Looking') + 1
    BY <1>2, <2>1, OneMember
  <2> QED BY <2>2
<1>6. Cardinality(Pending') =
        c + (IF t \in Pending' THEN 1 ELSE 0) - (IF t \in Pending THEN 1 ELSE 0)
  <2>1. \A u \in Threads \ {t} : u \in Pending <=> u \in Pending'
    BY <1>3
  <2>2. /\ Cardinality(Pending) \in Nat /\ Cardinality(Pending') \in Nat
        /\ (t \in Pending <=> t \in Pending') => Cardinality(Pending') = Cardinality(Pending)
        /\ t \in Pending' /\ t \notin Pending => Cardinality(Pending') = Cardinality(Pending) + 1
        /\ t \in Pending /\ t \notin Pending' => Cardinality(Pending) = Cardinality(Pending') + 1
    BY <1>2, <2>1, OneMember
  <2> QED BY <2>2
<1> QED BY <1>4, <1>5, <1>6

\* The numbers stay in step, however t's fetch goes on.
LEMMA CountStep ==
  ASSUME SafeCallers, ShapeInv, CountInv, IsFiniteSet(Threads), Creators = {}, MeteredNext,
         NEW t \in Threads, Call(t) \/ Step(t) \/ SpuriousWake(t)
  PROVE  CountInv'
<1> USE DEF At
<1>a. pc \in [Threads -> Locations] /\ loc \in [Threads -> Locals]
  BY DEF ShapeInv, LoaderInv, TypeOK
<1>b. NoLocals.op = "none" /\ ~NoLocals.missed
  BY DEF NoLocals
<1>c. /\ pc[t] \in {"lookup", "publish", "readNew"} => loc[t].op = "fetch"
      /\ pc[t] \in {"publish", "readNew"} => loc[t].missed
      /\ pc[t] = "idle" => loc[t].op = "none"
      /\ loc[t].missed => loc[t].op = "fetch"
  BY <1>b DEF ShapeInv, CallOK, FetchOnly, CountInv, MissedOK, LoaderInv, ControlOK
<1>1. PICK r \in Nat, a \in Nat, b \in Nat, c \in Nat :
        /\ r = Cardinality(Resident) /\ a = Cardinality(Ongoing)
        /\ b = Cardinality(Looking) /\ c = Cardinality(Pending)
  BY Counts
<1>2. PICK rr \in Nat, aa \in Int, bb \in Int, cc \in Int :
        /\ rr = Cardinality(Resident') /\ aa = Cardinality(Ongoing')
        /\ bb = Cardinality(Looking') /\ cc = Cardinality(Pending')
        /\ rr <= r + 1 /\ (~PublishFree(t) => rr <= r)
        /\ aa = a + (IF t \in Ongoing' THEN 1 ELSE 0) - (IF t \in Ongoing THEN 1 ELSE 0)
        /\ bb = b + (IF t \in Looking' THEN 1 ELSE 0) - (IF t \in Looking THEN 1 ELSE 0)
        /\ cc = c + (IF t \in Pending' THEN 1 ELSE 0) - (IF t \in Pending THEN 1 ELSE 0)
  <2>1. PICK rr \in Nat : /\ rr = Cardinality(Resident')
                          /\ rr <= r + 1 /\ (~PublishFree(t) => rr <= r)
    BY <1>1, ResidentStep
  <2>2. /\ Cardinality(Ongoing') =
             a + (IF t \in Ongoing' THEN 1 ELSE 0) - (IF t \in Ongoing THEN 1 ELSE 0)
        /\ Cardinality(Looking') =
             b + (IF t \in Looking' THEN 1 ELSE 0) - (IF t \in Looking THEN 1 ELSE 0)
        /\ Cardinality(Pending') =
             c + (IF t \in Pending' THEN 1 ELSE 0) - (IF t \in Pending THEN 1 ELSE 0)
    BY <1>1, SetsStep
  <2>3. /\ Cardinality(Ongoing') \in Int /\ Cardinality(Looking') \in Int
        /\ Cardinality(Pending') \in Int
    BY <1>1, <2>2
  <2> QED BY <2>1, <2>2, <2>3
<1>3. /\ t \in Ongoing <=> loc[t].op = "fetch"
      /\ t \in Looking <=> loc[t].op = "fetch" /\ ~loc[t].missed
      /\ t \in Pending <=> loc[t].op = "fetch" /\ loc[t].missed /\ pc[t] # "notify"
      /\ t \in Ongoing' <=> loc'[t].op = "fetch"
      /\ t \in Looking' <=> loc'[t].op = "fetch" /\ ~loc'[t].missed
      /\ t \in Pending' <=> loc'[t].op = "fetch" /\ loc'[t].missed /\ pc'[t] # "notify"
  BY DEF Ongoing, Looking, Pending
<1>4. /\ fetches \in Nat /\ cacheHits \in Nat /\ cacheMisses \in Nat /\ evictions \in Nat
      /\ cacheHits + a <= fetches
      /\ cacheMisses + b <= fetches
      /\ fetches <= cacheHits + cacheMisses + b
      /\ evictions + r + c <= cacheMisses
  BY <1>1 DEF CountInv
<1>5. /\ fetches'     = Add(fetches, \E p \in PageIds : CallFetch(t, p))
      /\ cacheHits'   = Add(cacheHits, FetchHit(t))
      /\ cacheMisses' = Add(cacheMisses, ~loc[t].missed /\ loc'[t].missed)
      /\ evictions'   = Add(evictions, CommitEviction(t))
  BY OwnCounts DEF CountInv
<1> DEFINE Numbers ==
      /\ fetches' \in Nat /\ cacheHits' \in Nat /\ cacheMisses' \in Nat /\ evictions' \in Nat
      /\ cacheHits' + aa <= fetches'
      /\ cacheMisses' + bb <= fetches'
      /\ fetches' <= cacheHits' + cacheMisses' + bb
      /\ evictions' + rr + cc <= cacheMisses'
<1>6. ASSUME NEW p \in PageIds, CallFetch(t, p) PROVE Numbers
  <2>1. loc'[t].op = "fetch" /\ ~loc'[t].missed /\ loc[t].op = "none" /\ ~loc[t].missed
    BY <1>6, <1>a, <1>b, <1>c DEF CallFetch, NoLocals
  <2>2. ~FetchHit(t) /\ ~CommitEviction(t) /\ ~PublishFree(t)
    BY <1>6 DEF CallFetch, FetchHit, CommitEviction, PublishFree
  <2>3. /\ fetches' = fetches + 1 /\ cacheHits' = cacheHits
        /\ cacheMisses' = cacheMisses /\ evictions' = evictions
    BY <1>5, <1>6, <2>1, <2>2 DEF Add
  <2>4. aa = a + 1 /\ bb = b + 1 /\ cc = c
    BY <1>2, <1>3, <2>1
  <2> QED BY <1>2, <1>4, <2>2, <2>3, <2>4
<1>7. ASSUME FetchHit(t) PROVE Numbers
  <2>1. loc'[t].op = "none" /\ ~loc'[t].missed /\ loc[t].op = "fetch" /\ pc[t] # "notify"
    BY <1>7, <1>a, <1>b, <1>c DEF FetchHit, Return
  <2>2. /\ ~\E p \in PageIds : CallFetch(t, p)
        /\ ~CommitEviction(t) /\ ~PublishFree(t)
    BY <1>7 DEF CallFetch, FetchHit, CommitEviction, PublishFree
  <2>3. /\ fetches' = fetches /\ cacheHits' = cacheHits + 1
        /\ cacheMisses' = cacheMisses /\ evictions' = evictions
    BY <1>5, <1>7, <2>1, <2>2 DEF Add
  <2>4. aa = a - 1 /\ (bb = b \/ bb = b - 1) /\ (cc = c \/ cc = c - 1)
    BY <1>2, <1>3, <2>1
  <2> QED BY <1>2, <1>4, <2>2, <2>3, <2>4
<1>8. ASSUME PublishFree(t) \/ CommitEviction(t) PROVE Numbers
  <2>1. loc'[t] = [loc[t] EXCEPT !.cv = loads[loc[t].page]] /\ pc'[t] = "notify"
    BY <1>8, <1>a DEF PublishFree, CommitEviction, WakeAll
  <2>2. loc'[t].op = loc[t].op /\ loc'[t].missed = loc[t].missed
    BY <2>1, <1>a DEF Locals
  <2>3. loc[t].op = "fetch" /\ loc[t].missed /\ pc[t] # "notify"
    BY <1>8, <1>c DEF PublishFree, CommitEviction
  <2>4. /\ ~\E p \in PageIds : CallFetch(t, p)
        /\ ~FetchHit(t) /\ ~(PublishFree(t) /\ CommitEviction(t))
    BY <1>8 DEF CallFetch, FetchHit, CommitEviction, PublishFree
  <2>5. /\ fetches' = fetches /\ cacheHits' = cacheHits /\ cacheMisses' = cacheMisses
        /\ evictions' = IF CommitEviction(t) THEN evictions + 1 ELSE evictions
    BY <1>5, <2>2, <2>3, <2>4 DEF Add
  <2>6. aa = a /\ bb = b /\ cc = c - 1
    BY <1>2, <1>3, <2>1, <2>2, <2>3
  <2> QED BY <1>2, <1>4, <1>8, <2>4, <2>5, <2>6
<1>9. ASSUME ~FetchHit(t), ~PublishFree(t), ~CommitEviction(t),
             \A p \in PageIds : ~CallFetch(t, p)
      PROVE  Numbers
  <2>1. fetches' = fetches /\ cacheHits' = cacheHits /\ evictions' = evictions
    BY <1>5, <1>9 DEF Add
  <2>2. CASE HasLeft(t)
    <3>1. loc'[t].op = "none" /\ ~loc'[t].missed /\ loc[t].op = "fetch" /\ loc[t].missed
      BY <2>2, <1>b DEF HasLeft
    <3>2. cacheMisses' = cacheMisses
      BY <1>5, <3>1 DEF Add
    <3>3. aa = a - 1 /\ bb = b /\ (cc = c \/ cc = c - 1)
      BY <1>2, <1>3, <3>1
    <3> QED BY <1>2, <1>4, <1>9, <2>1, <3>2, <3>3
  <2>3. CASE ~HasLeft(t)
    <3>1. /\ loc'[t].op = "fetch" <=> loc[t].op = "fetch"
          /\ loc[t].missed => loc'[t].missed
          /\ loc'[t].missed => loc'[t].op = "fetch"
          /\ pc[t] # "notify"
      BY <1>9, <2>3, FetchSteps DEF Fetching, CountInv
    <3>2. aa = a
      BY <1>2, <1>3, <3>1
    <3>3. CASE ~loc[t].missed /\ loc'[t].missed
      <4>1. cacheMisses' = cacheMisses + 1
        BY <1>5, <3>3 DEF Add
      <4>2. bb = b - 1 /\ (cc = c \/ cc = c + 1)
        BY <1>2, <1>3, <3>1, <3>3
      <4> QED BY <1>2, <1>4, <1>9, <2>1, <3>2, <4>1, <4>2
    <3>4. CASE ~(~loc[t].missed /\ loc'[t].missed)
      <4>1. cacheMisses' = cacheMisses
        BY <1>5, <3>4 DEF Add
      <4>2. bb = b /\ (cc = c \/ cc = c - 1)
        BY <1>2, <1>3, <3>1, <3>4
      <4> QED BY <1>2, <1>4, <1>9, <2>1, <3>2, <4>1, <4>2
    <3> QED BY <3>3, <3>4
  <2> QED BY <2>2, <2>3
<1>10. Numbers
  BY <1>6, <1>7, <1>8, <1>9
<1>11. MissedOK'
  BY MissedStep DEF CountInv
<1> QED BY <1>2, <1>10, <1>11 DEF CountInv

\* What CountInv rests on holds initially.
LEMMA CountInit == MeteredInit => CountInv
<1> SUFFICES ASSUME MeteredInit PROVE CountInv
  OBVIOUS
<1>1. \A t \in Threads : loc[t] = NoLocals /\ pc[t] = "idle"
  BY DEF MeteredInit, Init
<1>2. NoLocals.op = "none" /\ ~NoLocals.missed
  BY DEF NoLocals
<1>3. MissedOK
  BY <1>1, <1>2 DEF MissedOK, At
<1>4. Ongoing = {} /\ Looking = {} /\ Pending = {}
  BY <1>1, <1>2 DEF Ongoing, Looking, Pending
<1>5. Resident = {}
  BY DEF MeteredInit, Init, Resident, IsMapped, EmptyTable
<1>6. /\ Cardinality(Ongoing) = 0 /\ Cardinality(Looking) = 0
      /\ Cardinality(Pending) = 0 /\ Cardinality(Resident) = 0
  BY <1>4, <1>5, FS_EmptySet
<1> QED BY <1>3, <1>6 DEF CountInv, MeteredInit

\* What a call that is over says of the counters.
LEMMA CountsAtRest ==
  ASSUME ShapeInv, CountInv, IsFiniteSet(Threads) PROVE CountersAddUp
<1>1. PICK r \in Nat, a \in Nat, b \in Nat, c \in Nat :
        /\ r = Cardinality(Resident) /\ a = Cardinality(Ongoing)
        /\ b = Cardinality(Looking) /\ c = Cardinality(Pending)
  BY Counts
<1>2. /\ fetches \in Nat /\ cacheHits \in Nat /\ cacheMisses \in Nat /\ evictions \in Nat
      /\ cacheHits + a <= fetches
      /\ cacheMisses + b <= fetches
      /\ fetches <= cacheHits + cacheMisses + b
      /\ evictions + r + c <= cacheMisses
  BY <1>1 DEF CountInv
<1>3. ASSUME AtRest PROVE b = 0
  <2>1. \A t \in Threads : loc[t] = NoLocals
    BY <1>3 DEF AtRest, ShapeInv, LoaderInv, ControlOK
  <2>2. Looking = {}
    BY <2>1 DEF Looking, NoLocals
  <2> QED BY <1>1, <2>2, FS_EmptySet
<1>4. r = Cardinality({p \in PageIds : IsMapped(table, p)})
  BY <1>1 DEF Resident
<1> QED BY <1>2, <1>3, <1>4 DEF CountersAddUp

\* Every metered behaviour is one of the pool.
LEMMA MeteredIsPool == MeteredSpec => Spec
<1>1. MeteredInit => Init
  BY DEF MeteredInit
<1>2. [MeteredNext]_<<vars, counters>> => [Next]_vars
  BY DEF MeteredNext
<1> QED BY <1>1, <1>2, PTL DEF MeteredSpec, Spec

\* Once the calls are over, each fetch has counted a hit or a miss and at most one of
\* either, and the misses account for the evictions and the pages brought in: whatever
\* waits, retries, failures and deletions there were (fetch_page, where it adds to
\* metrics.rs's counters).
THEOREM CountsAddUp ==
  SafeCallers /\ IsFiniteSet(Threads) /\ Creators = {} /\ MeteredSpec => []CountersAddUp
<1> SUFFICES ASSUME SafeCallers, IsFiniteSet(Threads), Creators = {}
             PROVE  MeteredSpec => []CountersAddUp
  OBVIOUS
<1>1. MeteredSpec => []ShapeInv
  BY MeteredIsPool, ShapeHolds, PTL
<1>2. MeteredInit => CountInv
  BY CountInit
<1>3. ShapeInv /\ CountInv /\ [MeteredNext]_<<vars, counters>> => CountInv'
  <2> SUFFICES ASSUME ShapeInv, CountInv, [MeteredNext]_<<vars, counters>> PROVE CountInv'
    OBVIOUS
  <2>1. CASE MeteredNext
    BY <2>1, CountStep DEF MeteredNext, Next
  <2>2. CASE UNCHANGED <<vars, counters>>
    BY <2>2 DEF CountInv, MissedOK, Ongoing, Looking, Pending, Resident, At, IsMapped,
                vars, counters, clock
  <2> QED BY <2>1, <2>2
<1>4. ShapeInv /\ CountInv => CountersAddUp
  BY CountsAtRest
<1> QED BY <1>1, <1>2, <1>3, <1>4, PTL DEF MeteredSpec
=============================================================================
