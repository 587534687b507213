-------------------------- MODULE BufferPoolProofs --------------------------
(***************************************************************************)
(* Theorems about BufferPool for every number of threads, pages and frames,*)
(* whoever calls what, with or without disk faults.                        *)
(***************************************************************************)
EXTENDS BufferPoolInvariants, TLAPS

\* The operations on a frame yield frames.
LEMMA FrameOps ==
  ASSUME NEW fr \in FrameRecord, NEW p \in PageIds \cup {None}
  PROVE  /\ NewFrame \in FrameRecord
         /\ LoadPage(fr, p) \in FrameRecord
         /\ SetFree(fr) \in FrameRecord /\ SetResident(fr) \in FrameRecord
         /\ Reserve(fr) \in FrameRecord /\ Reset(fr) \in FrameRecord
         /\ Pin(fr) \in FrameRecord /\ Unpin(fr) \in FrameRecord
         /\ MarkDirty(fr) \in FrameRecord /\ ClearDirty(fr) \in FrameRecord
         /\ MarkReferenced(fr) \in FrameRecord /\ MarkUnreferenced(fr) \in FrameRecord
<1> USE FrameConstants DEF FrameRecord, FrameStates
<1>1. NewFrame \in FrameRecord /\ Reset(fr) \in FrameRecord
  BY DEF NewFrame, Reset
<1>2. LoadPage(fr, p) \in FrameRecord
  BY DEF LoadPage
<1>3. SetFree(fr) \in FrameRecord /\ SetResident(fr) \in FrameRecord /\ Reserve(fr) \in FrameRecord
  BY DEF SetFree, SetResident, Reserve
<1>4. Pin(fr) \in FrameRecord
  BY DEF Pin
<1>5. Unpin(fr) \in FrameRecord
  BY DEF Unpin
<1>6. MarkDirty(fr) \in FrameRecord /\ ClearDirty(fr) \in FrameRecord
  BY DEF MarkDirty, ClearDirty
<1>7. MarkReferenced(fr) \in FrameRecord /\ MarkUnreferenced(fr) \in FrameRecord
  BY DEF MarkReferenced, MarkUnreferenced
<1> QED BY <1>1, <1>2, <1>3, <1>4, <1>5, <1>6, <1>7

\* What a load leaves in a frame.
LEMMA LoadedFrame ==
  ASSUME NEW fr \in FrameRecord, NEW p \in PageIds \cup {None}
  PROVE  /\ MarkReferenced(Pin(LoadPage(fr, p))) \in FrameRecord
         /\ NewFrameFor(fr, p) \in FrameRecord
         /\ MarkReferenced(Pin(fr)) \in FrameRecord
BY FrameOps DEF NewFrameFor

\* The bookkeeping of what the disk holds stays bookkeeping.
LEMMA StoreOps ==
  ASSUME NEW s \in [PageIds -> StoreStates], NEW p
  PROVE  /\ Copy(s, p) \in [PageIds -> StoreStates]
         /\ Saved(s, p) \in [PageIds -> StoreStates]
         /\ Failed(s, p) \in [PageIds -> StoreStates]
BY DEF Copy, Saved, Failed, StoreStates

\* Wake-ups move threads between control points.
LEMMA Wakes ==
  ASSUME NEW pcs \in [Threads -> Locations], NEW c, pc \in [Threads -> Locations]
  PROVE  /\ WakeAll(pcs) \in [Threads -> Locations]
         /\ WakeLoaders(c) \in [Threads -> Locations]
BY DEF WakeAll, WakeLoaders, Locations

\* Updates of one field of a thread's locals.
LEMMA LocalOps ==
  ASSUME NEW l \in Locals
  PROVE  /\ \A q \in PageIds \cup {None} : [l EXCEPT !.old = q] \in Locals
         /\ \A f \in FrameIds \cup {None} : [l EXCEPT !.frame = f] \in Locals
         /\ \A c \in CvIds \cup {None} : [l EXCEPT !.cv = c] \in Locals
         /\ [l EXCEPT !.missed = TRUE] \in Locals
         /\ [l EXCEPT !.loader = TRUE] \in Locals
BY DEF Locals

\* The locals a call starts and ends with.
LEMMA FirstLocals ==
  /\ NoLocals \in Locals
  /\ \A o \in Ops, q \in PageIds : [NoLocals EXCEPT !.op = o, !.page = q] \in Locals
  /\ \A o \in Ops, q \in PageIds, f \in FrameIds :
       [NoLocals EXCEPT !.op = o, !.page = q, !.frame = f] \in Locals
BY DEF Locals, NoLocals, Ops

\* The hand and the scan's counter stay within the pool.
LEMMA HandOps ==
  /\ 0 \in FrameIds
  /\ \A h \in FrameIds : /\ (h + 1) % NumFrames \in FrameIds
                         /\ h + 1 < NumFrames => h + 1 \in FrameIds
BY PoolSize DEF FrameIds

\* Every operation, handler and wake-up keeps the types.
LEMMA TypeStep ==
  ASSUME TypeOK, ControlOK, NEW t \in Threads,
         Call(t) \/ Step(t) \/ SpuriousWake(t)
  PROVE  TypeOK'
<1> USE Callers, PoolConstants DEF TypeOK
<1>1. ASSUME NEW p \in PageIds, CallFetch(t, p) PROVE TypeOK'
  <2>1. pc' \in [Threads -> Locations]
    BY <1>1 DEF CallFetch, GoTo, Locations
  <2>2. loc' \in [Threads -> Locals]
    BY <1>1 DEF CallFetch, Locals, NoLocals, Ops
  <2> QED BY <1>1, <2>1, <2>2 DEF CallFetch, clock
<1>2. CASE FetchHit(t)
  <2>1. frame' \in [FrameIds -> FrameRecord]
    BY <1>2, FrameOps DEF FetchHit
  <2>2. pc' \in [Threads -> Locations]
    BY <1>2 DEF FetchHit, GoTo, Return, Locations
  <2>3. loc' \in [Threads -> Locals]
    BY <1>2 DEF FetchHit, Return, Locals, NoLocals, Ops
  <2>4. held' \in [Threads -> [PageIds -> Nat]]
    BY <1>2 DEF FetchHit, ControlOK, At
  <2> QED BY <1>2, <2>1, <2>2, <2>3, <2>4 DEF FetchHit, clock
<1>3. CASE FetchBusy(t)
  <2>1. pc' \in [Threads -> Locations]
    BY <1>3 DEF FetchBusy, GoTo, Locations
  <2> QED BY <1>3, <2>1 DEF FetchBusy, clock
<1>4. CASE FetchJoin(t)
  <2>1. pc' \in [Threads -> Locations]
    BY <1>4 DEF FetchJoin, GoTo, Locations
  <2>2. loc' \in [Threads -> Locals]
    <3>1. loc[t] \in Locals /\ loads[loc[t].page] \in CvIds \cup {None}
      BY <1>4 DEF FetchJoin, ControlOK, HoldsFrame, At
    <3>2. loc' = [loc EXCEPT ![t] = [[@ EXCEPT !.missed = TRUE] EXCEPT !.cv = loads[loc[t].page]]]
      BY <1>4 DEF FetchJoin
    <3> QED BY <3>1, <3>2, LocalOps
  <2> QED BY <1>4, <2>1, <2>2 DEF FetchJoin, clock
<1>5. CASE LoadCheck(t)
  <2>1. pc' \in [Threads -> Locations]
    BY <1>5 DEF LoadCheck, GoTo, Locations
  <2>2. loc' \in [Threads -> Locals]
    <3>1. loc' = loc \/ loc' = [loc EXCEPT ![t] = [@ EXCEPT !.cv = None]]
      BY <1>5 DEF LoadCheck
    <3>2. [loc[t] EXCEPT !.cv = None] \in Locals
      BY LocalOps
    <3> QED BY <3>1, <3>2
  <2> QED BY <1>5, <2>1, <2>2 DEF LoadCheck, clock
<1>6. CASE FetchFromFree(t)
  <2>1. frame' \in [FrameIds -> FrameRecord]
    BY <1>6, FrameOps DEF FetchFromFree
  <2>2. freeList' \in Seq(FrameIds)
    BY <1>6 DEF FetchFromFree
  <2>3. loads' \in [PageIds -> CvIds \cup {None}]
    BY <1>6 DEF FetchFromFree, BecomeLoader
  <2>4. pc' \in [Threads -> Locations]
    BY <1>6 DEF FetchFromFree, GoTo, Locations
  <2>5. loc' \in [Threads -> Locals]
    <3>1. loc[t] \in Locals /\ Head(freeList) \in FrameIds
      BY <1>6 DEF FetchFromFree
    <3>2. loc' = [loc EXCEPT ![t] = [[[@ EXCEPT !.missed = TRUE] EXCEPT !.loader = TRUE]
                                      EXCEPT !.frame = Head(freeList)]]
      BY <1>6 DEF FetchFromFree
    <3> QED BY <3>1, <3>2, LocalOps
  <2> QED BY <1>6, <2>1, <2>2, <2>3, <2>4, <2>5 DEF FetchFromFree, clock
<1>7. CASE FetchFreeReserved(t)
  <2>1. freeList' \in Seq(FrameIds)
    BY <1>7 DEF FetchFreeReserved
  <2>2. stateLock' \in Threads \cup {NoThread}
    BY <1>7 DEF FetchFreeReserved
  <2>3. loads' \in [PageIds -> CvIds \cup {None}]
    BY <1>7 DEF FetchFreeReserved, BecomeLoader
  <2>4. pc' \in [Threads -> Locations]
    BY <1>7 DEF FetchFreeReserved, GoTo, Locations
  <2>5. loc' \in [Threads -> Locals]
    <3>1. loc[t] \in Locals
      BY <1>7 DEF FetchFreeReserved
    <3>2. loc' = [loc EXCEPT ![t] = [[@ EXCEPT !.missed = TRUE] EXCEPT !.loader = TRUE]]
      BY <1>7 DEF FetchFreeReserved
    <3> QED BY <3>1, <3>2, LocalOps
  <2> QED BY <1>7, <2>1, <2>2, <2>3, <2>4, <2>5 DEF FetchFreeReserved, clock
<1>8. CASE FetchRefused(t)
  <2>1. stateLock' \in Threads \cup {NoThread}
    BY <1>8 DEF FetchRefused
  <2>2. loads' \in [PageIds -> CvIds \cup {None}]
    BY <1>8 DEF FetchRefused
  <2>3. pc' \in [Threads -> Locations]
    BY <1>8, Wakes DEF FetchRefused, Locations
  <2>4. loc' \in [Threads -> Locals]
    BY <1>8 DEF FetchRefused, Locals, NoLocals, Ops
  <2> QED BY <1>8, <2>1, <2>2, <2>3, <2>4 DEF FetchRefused, clock
<1>9. CASE ReadFree(t)
  <2>1. frame' \in [FrameIds -> FrameRecord]
    BY <1>9, FrameOps DEF ReadFree, ControlOK, HoldsFrame, At
  <2>2. pc' \in [Threads -> Locations]
    BY <1>9 DEF ReadFree, GoTo, Locations
  <2> QED BY <1>9, <2>1, <2>2 DEF ReadFree, clock
<1>10. CASE PublishFree(t)
  <2>1. table' \in [PageIds -> FrameIds \cup {None}]
    BY <1>10 DEF PublishFree, Insert, Locals
  <2>2. loads' \in [PageIds -> CvIds \cup {None}]
    BY <1>10 DEF PublishFree
  <2>3. pc' \in [Threads -> Locations]
    BY <1>10, Wakes DEF PublishFree, Locations
  <2>4. loc' \in [Threads -> Locals]
    <3>1. loc[t] \in Locals /\ loads[loc[t].page] \in CvIds \cup {None}
      BY <1>10 DEF PublishFree, ControlOK, HoldsFrame, At
    <3>2. loc' = [loc EXCEPT ![t] = [@ EXCEPT !.cv = loads[loc[t].page]]]
      BY <1>10 DEF PublishFree
    <3> QED BY <3>1, <3>2, LocalOps
  <2>5. held' \in [Threads -> [PageIds -> Nat]]
    BY <1>10 DEF PublishFree, ControlOK, At
  <2> QED BY <1>10, <2>1, <2>2, <2>3, <2>4, <2>5 DEF PublishFree, clock
<1>11. CASE ReadFreeFails(t)
  <2>1. frame' \in [FrameIds -> FrameRecord]
    BY <1>11, FrameOps DEF ReadFreeFails
  <2>2. freeList' \in Seq(FrameIds)
    BY <1>11 DEF ReadFreeFails, ControlOK, HoldsFrame, At, GiveBack
  <2>3. loads' \in [PageIds -> CvIds \cup {None}]
    BY <1>11 DEF ReadFreeFails
  <2>4. pc' \in [Threads -> Locations]
    BY <1>11, Wakes DEF ReadFreeFails, Locations
  <2>5. loc' \in [Threads -> Locals]
    <3>1. loc[t] \in Locals /\ loads[loc[t].page] \in CvIds \cup {None}
      BY <1>11 DEF ReadFreeFails, ControlOK, HoldsFrame, At
    <3>2. loc' = [loc EXCEPT ![t] = [@ EXCEPT !.cv = loads[loc[t].page]]]
      BY <1>11 DEF ReadFreeFails
    <3> QED BY <3>1, <3>2, LocalOps
  <2> QED BY <1>11, <2>1, <2>2, <2>3, <2>4, <2>5 DEF ReadFreeFails, clock
<1>12. CASE NotifyLoaders(t)
  <2>1. pc' \in [Threads -> Locations]
    BY <1>12, Wakes DEF NotifyLoaders, Locations
  <2>2. loc' \in [Threads -> Locals]
    BY <1>12 DEF NotifyLoaders, Locals, NoLocals, Ops
  <2> QED BY <1>12, <2>1, <2>2 DEF NotifyLoaders, clock
<1>13. CASE FetchScan(t)
  <2>1. stateLock' \in Threads \cup {NoThread}
    BY <1>13 DEF FetchScan
  <2>2. loads' \in [PageIds -> CvIds \cup {None}]
    BY <1>13 DEF FetchScan, BecomeLoader
  <2>3. pc' \in [Threads -> Locations]
    BY <1>13 DEF FetchScan, GoTo, Locations
  <2>4. loc' \in [Threads -> Locals]
    <3>1. loc[t] \in Locals
      BY <1>13 DEF FetchScan
    <3>2. loc' = [loc EXCEPT ![t] = [[@ EXCEPT !.missed = TRUE] EXCEPT !.loader = TRUE]]
      BY <1>13 DEF FetchScan
    <3> QED BY <3>1, <3>2, LocalOps
  <2> QED BY <1>13, <2>1, <2>2, <2>3, <2>4 DEF FetchScan, clock
<1>14. CASE FetchWait(t)
  <2>1. stateLock' \in Threads \cup {NoThread}
    BY <1>14 DEF FetchWait
  <2>2. pc' \in [Threads -> Locations]
    BY <1>14 DEF FetchWait, GoTo, Locations
  <2> QED BY <1>14, <2>1, <2>2 DEF FetchWait, clock
<1>15. CASE FetchNoEvictable(t)
  <2>1. stateLock' \in Threads \cup {NoThread}
    BY <1>15 DEF FetchNoEvictable
  <2>2. pc' \in [Threads -> Locations]
    BY <1>15 DEF FetchNoEvictable, GoTo, Return, Locations
  <2>3. loc' \in [Threads -> Locals]
    BY <1>15 DEF FetchNoEvictable, Return, Locals, NoLocals, Ops
  <2> QED BY <1>15, <2>1, <2>2, <2>3 DEF FetchNoEvictable, clock
<1>16. CASE FetchWriteFails(t)
  <2>1. frame' \in [FrameIds -> FrameRecord]
    BY <1>16, FrameOps DEF FetchWriteFails, AbandonFetch
  <2>2. loads' \in [PageIds -> CvIds \cup {None}]
    BY <1>16 DEF FetchWriteFails, AbandonFetch
  <2>3. pc' \in [Threads -> Locations]
    BY <1>16, Wakes DEF FetchWriteFails, AbandonFetch, Locations
  <2>4. loc' \in [Threads -> Locals]
    <3>1. loc[t] \in Locals /\ loads[loc[t].page] \in CvIds \cup {None}
      BY <1>16 DEF FetchWriteFails, AbandonFetch, ControlOK, HoldsFrame, At
    <3>2. loc' = [loc EXCEPT ![t] = [@ EXCEPT !.cv = loads[loc[t].page]]]
      BY <1>16 DEF FetchWriteFails, AbandonFetch
    <3> QED BY <3>1, <3>2, LocalOps
  <2>5. store' \in [PageIds -> StoreStates]
    BY <1>16, StoreOps DEF FetchWriteFails, AbandonFetch, StoreStates
  <2> QED BY <1>16, <2>1, <2>2, <2>3, <2>4, <2>5 DEF FetchWriteFails, AbandonFetch, clock
<1>17. CASE FetchReadFails(t)
  <2>1. frame' \in [FrameIds -> FrameRecord]
    BY <1>17, FrameOps DEF FetchReadFails, AbandonFetch
  <2>2. loads' \in [PageIds -> CvIds \cup {None}]
    BY <1>17 DEF FetchReadFails, AbandonFetch
  <2>3. pc' \in [Threads -> Locations]
    BY <1>17, Wakes DEF FetchReadFails, AbandonFetch, Locations
  <2>4. loc' \in [Threads -> Locals]
    <3>1. loc[t] \in Locals /\ loads[loc[t].page] \in CvIds \cup {None}
      BY <1>17 DEF FetchReadFails, AbandonFetch, ControlOK, HoldsFrame, At
    <3>2. loc' = [loc EXCEPT ![t] = [@ EXCEPT !.cv = loads[loc[t].page]]]
      BY <1>17 DEF FetchReadFails, AbandonFetch
    <3> QED BY <3>1, <3>2, LocalOps
  <2> QED BY <1>17, <2>1, <2>2, <2>3, <2>4 DEF FetchReadFails, AbandonFetch, clock
<1>18. CASE CommitEviction(t)
  <2>1. frame' \in [FrameIds -> FrameRecord]
    BY <1>18, FrameOps DEF CommitEviction, ControlOK, HoldsFrame, At
  <2>2. table' \in [PageIds -> FrameIds \cup {None}]
    BY <1>18 DEF CommitEviction, Replace, Locals
  <2>3. loads' \in [PageIds -> CvIds \cup {None}]
    BY <1>18 DEF CommitEviction
  <2>4. pc' \in [Threads -> Locations]
    BY <1>18, Wakes DEF CommitEviction, Locations
  <2>5. loc' \in [Threads -> Locals]
    <3>1. loc[t] \in Locals /\ loads[loc[t].page] \in CvIds \cup {None}
      BY <1>18 DEF CommitEviction, ControlOK, HoldsFrame, At
    <3>2. loc' = [loc EXCEPT ![t] = [@ EXCEPT !.cv = loads[loc[t].page]]]
      BY <1>18 DEF CommitEviction
    <3> QED BY <3>1, <3>2, LocalOps
  <2>6. held' \in [Threads -> [PageIds -> Nat]]
    BY <1>18 DEF CommitEviction, ControlOK, At
  <2> QED BY <1>18, <2>1, <2>2, <2>3, <2>4, <2>5, <2>6 DEF CommitEviction, clock
<1>19. CASE CommitRejected(t)
  <2>1. frame' \in [FrameIds -> FrameRecord]
    BY <1>19, FrameOps DEF CommitRejected, ControlOK, HoldsFrame, At
  <2>2. pc' \in [Threads -> Locations]
    BY <1>19 DEF CommitRejected, GoTo, Return, Locations
  <2>3. loc' \in [Threads -> Locals]
    BY <1>19 DEF CommitRejected, Return, Locals, NoLocals, Ops
  <2> QED BY <1>19, <2>1, <2>2, <2>3 DEF CommitRejected, clock
<1>20. CASE ClockSkip(t)
  <2>1. hand' \in FrameIds /\ scanned' \in FrameIds /\ found' \in BOOLEAN
    BY <1>20, HandOps DEF ClockSkip, PassFrame, AdvanceHand
  <2>2. pc' \in [Threads -> Locations]
    BY <1>20 DEF ClockSkip, PassFrame, AdvanceHand, GoTo, Locations, EndRevolution
  <2> QED BY <1>20, <2>1, <2>2 DEF ClockSkip, PassFrame, AdvanceHand
<1>21. CASE ClockSecondChance(t)
  <2>1. frame' \in [FrameIds -> FrameRecord]
    BY <1>21, FrameOps DEF ClockSecondChance
  <2>2. hand' \in FrameIds /\ scanned' \in FrameIds /\ found' \in BOOLEAN
    BY <1>21, HandOps DEF ClockSecondChance, PassFrame, AdvanceHand
  <2>3. pc' \in [Threads -> Locations]
    BY <1>21 DEF ClockSecondChance, PassFrame, AdvanceHand, EndRevolution
  <2> QED BY <1>21, <2>1, <2>2, <2>3 DEF ClockSecondChance, PassFrame, AdvanceHand
<1>22. CASE ClockVictim(t)
  <2>1. frame' \in [FrameIds -> FrameRecord]
    BY <1>22, FrameOps DEF ClockVictim
  <2>2. hand' \in FrameIds /\ scanned' \in FrameIds /\ found' \in BOOLEAN
    BY <1>22, HandOps DEF ClockVictim, AdvanceHand
  <2>3. stateLock' \in Threads \cup {NoThread}
    BY <1>22 DEF ClockVictim
  <2>4. pc' \in [Threads -> Locations]
    BY <1>22 DEF ClockVictim, AdvanceHand, AfterWrite, GoTo, Locations
  <2>5. loc' \in [Threads -> Locals]
    <3>1. frame[hand].page \in PageIds \cup {None}
      BY DEF FrameRecord
    <3>2. loc' = [loc EXCEPT ![t] = [[@ EXCEPT !.frame = hand]
                                       EXCEPT !.old = frame[hand].page]]
      BY <1>22 DEF ClockVictim
    <3> QED BY <3>1, <3>2, LocalOps
  <2>6. store' \in [PageIds -> StoreStates]
    <3>1. store' = store \/ store' = Copy(store, frame[hand].page)
      BY <1>22 DEF ClockVictim
    <3>2. Copy(store, frame[hand].page) \in [PageIds -> StoreStates]
      BY StoreOps
    <3> QED BY <3>1, <3>2
  <2> QED BY <1>22, <2>1, <2>2, <2>3, <2>4, <2>5, <2>6 DEF ClockVictim, AdvanceHand, AfterWrite
<1>23. CASE VictimWithoutPage(t)
  <2>1. frame' \in [FrameIds -> FrameRecord]
    BY <1>23, FrameOps DEF VictimWithoutPage
  <2>2. hand' \in FrameIds /\ scanned' \in FrameIds /\ found' \in BOOLEAN
    BY <1>23, HandOps DEF VictimWithoutPage, AdvanceHand
  <2>3. stateLock' \in Threads \cup {NoThread}
    BY <1>23 DEF VictimWithoutPage
  <2>4. pc' \in [Threads -> Locations]
    BY <1>23 DEF VictimWithoutPage, AdvanceHand, GoTo, Return, Locations
  <2>5. loc' \in [Threads -> Locals]
    BY <1>23 DEF VictimWithoutPage, Return, Locals, NoLocals, Ops
  <2> QED BY <1>23, <2>1, <2>2, <2>3, <2>4, <2>5 DEF VictimWithoutPage, AdvanceHand
<1>24. CASE WriteOld(t)
  <2>1. pc' \in [Threads -> Locations]
    BY <1>24 DEF WriteOld, AfterWrite, GoTo, Locations
  <2>2. store' \in [PageIds -> StoreStates]
    BY <1>24, StoreOps DEF WriteOld, StoreStates
  <2> QED BY <1>24, <2>1, <2>2 DEF WriteOld, AfterWrite, clock
<1>25. CASE NewNoEvictable(t)
  <2>1. stateLock' \in Threads \cup {NoThread}
    BY <1>25 DEF NewNoEvictable
  <2>2. pc' \in [Threads -> Locations]
    BY <1>25 DEF NewNoEvictable, GoTo, Return, Locations
  <2>3. loc' \in [Threads -> Locals]
    BY <1>25 DEF NewNoEvictable, Return, Locals, NoLocals, Ops
  <2> QED BY <1>25, <2>1, <2>2, <2>3 DEF NewNoEvictable, clock
<1>26. CASE NewWriteFails(t)
  <2>1. frame' \in [FrameIds -> FrameRecord]
    BY <1>26, FrameOps DEF NewWriteFails
  <2>2. pc' \in [Threads -> Locations]
    BY <1>26 DEF NewWriteFails, GoTo, Return, Locations
  <2>3. loc' \in [Threads -> Locals]
    BY <1>26 DEF NewWriteFails, Return, Locals, NoLocals, Ops
  <2>4. store' \in [PageIds -> StoreStates]
    BY <1>26, StoreOps DEF NewWriteFails, StoreStates
  <2> QED BY <1>26, <2>1, <2>2, <2>3, <2>4 DEF NewWriteFails, clock
<1>27. CASE InstallNew(t)
  <2>1. frame' \in [FrameIds -> FrameRecord]
    BY <1>27, LoadedFrame DEF InstallNew, ControlOK, HoldsFrame, At
  <2>2. table' \in [PageIds -> FrameIds \cup {None}]
    BY <1>27 DEF InstallNew, Replace, Locals
  <2>3. nextPage' \in PageIds
    <3>1. loc[t].page \in PageIds /\ loc[t].page < PageIdLimit
      BY <1>27 DEF InstallNew, ControlOK, At
    <3>2. nextPage' = loc[t].page + 1
      BY <1>27 DEF InstallNew, IssueId
    <3> HIDE DEF TypeOK
    <3> QED BY <3>1, <3>2, FrameConstants DEF PageIds
  <2>4. pc' \in [Threads -> Locations]
    BY <1>27 DEF InstallNew, GoTo, Return, Locations
  <2>5. loc' \in [Threads -> Locals]
    BY <1>27 DEF InstallNew, Return, Locals, NoLocals, Ops
  <2>6. held' \in [Threads -> [PageIds -> Nat]]
    BY <1>27 DEF InstallNew, ControlOK, At
  <2>7. store' \in [PageIds -> StoreStates]
    BY <1>27, StoreOps DEF InstallNew, StoreStates
  <2> QED BY <1>27, <2>1, <2>2, <2>3, <2>4, <2>5, <2>6, <2>7 DEF InstallNew, clock
<1>28. CASE InstallRejected(t)
  <2>1. frame' \in [FrameIds -> FrameRecord]
    BY <1>28, LoadedFrame DEF InstallRejected, ControlOK, HoldsFrame, At
  <2>2. pc' \in [Threads -> Locations]
    BY <1>28 DEF InstallRejected, GoTo, Return, Locations
  <2>3. loc' \in [Threads -> Locals]
    BY <1>28 DEF InstallRejected, Return, Locals, NoLocals, Ops
  <2> QED BY <1>28, <2>1, <2>2, <2>3 DEF InstallRejected, clock
<1>29. CASE FlushCopy(t)
  <2>1. pc' \in [Threads -> Locations]
    BY <1>29 DEF FlushCopy, GoTo, Locations
  <2>2. loc' \in [Threads -> Locals]
    <3>1. loc[t].frame \in FrameIds
      BY <1>29 DEF FlushCopy, ControlOK, HoldsFrame, At
    <3>2. frame[loc[t].frame].page \in PageIds \cup {None}
      BY <3>1 DEF FrameRecord
    <3>3. \/ loc' = loc
          \/ loc' = [loc EXCEPT ![t] = [@ EXCEPT !.old = frame[loc[t].frame].page]]
      BY <1>29 DEF FlushCopy
    <3>4. [loc[t] EXCEPT !.old = frame[loc[t].frame].page] \in Locals
      BY <3>2, LocalOps
    <3> QED BY <3>3, <3>4
  <2>3. store' \in [PageIds -> StoreStates]
    <3>1. store' = store \/ store' = Copy(store, frame[loc[t].frame].page)
      BY <1>29 DEF FlushCopy
    <3>2. Copy(store, frame[loc[t].frame].page) \in [PageIds -> StoreStates]
      BY StoreOps
    <3> QED BY <3>1, <3>2
  <2> QED BY <1>29, <2>1, <2>2, <2>3 DEF FlushCopy, clock
<1>30. CASE FlushNotReserved(t)
  <2>1. pc' \in [Threads -> Locations]
    BY <1>30 DEF FlushNotReserved, FlushError, GoTo, Return, Locations
  <2>2. loc' \in [Threads -> Locals]
    <3>1. loc' = loc \/ loc' = [loc EXCEPT ![t] = NoLocals]
      BY <1>30 DEF FlushNotReserved, FlushError, Return
    <3> QED BY <3>1, FirstLocals
  <2> QED BY <1>30, <2>1, <2>2 DEF FlushNotReserved, FlushError, clock
<1>31. CASE FlushWrite(t)
  <2>1. pc' \in [Threads -> Locations]
    BY <1>31 DEF FlushWrite, GoTo, Locations
  <2>2. store' \in [PageIds -> StoreStates]
    BY <1>31, StoreOps DEF FlushWrite, StoreStates
  <2> QED BY <1>31, <2>1, <2>2 DEF FlushWrite, clock
<1>32. CASE FlushWriteFails(t)
  <2>1. frame' \in [FrameIds -> FrameRecord]
    BY <1>32, FrameOps DEF FlushWriteFails, FlushError
  <2>2. pc' \in [Threads -> Locations]
    BY <1>32 DEF FlushWriteFails, FlushError, GoTo, Return, Locations
  <2>3. loc' \in [Threads -> Locals]
    <3>1. loc' = loc \/ loc' = [loc EXCEPT ![t] = NoLocals]
      BY <1>32 DEF FlushWriteFails, FlushError, Return
    <3> QED BY <3>1, FirstLocals
  <2>4. store' \in [PageIds -> StoreStates]
    BY <1>32, StoreOps DEF FlushWriteFails, FlushError, StoreStates
  <2> QED BY <1>32, <2>1, <2>2, <2>3, <2>4 DEF FlushWriteFails, FlushError, clock
<1>33. CASE FlushClear(t)
  <2>1. frame' \in [FrameIds -> FrameRecord]
    BY <1>33, FrameOps DEF FlushClear
  <2>2. pc' \in [Threads -> Locations]
    BY <1>33 DEF FlushClear, GoTo, Locations
  <2> QED BY <1>33, <2>1, <2>2 DEF FlushClear, clock
<1>34. CASE FlushClearFails(t)
  <2>1. frame' \in [FrameIds -> FrameRecord]
    BY <1>34, FrameOps DEF FlushClearFails, FlushError
  <2>2. pc' \in [Threads -> Locations]
    BY <1>34 DEF FlushClearFails, FlushError, GoTo, Return, Locations
  <2>3. loc' \in [Threads -> Locals]
    <3>1. loc' = loc \/ loc' = [loc EXCEPT ![t] = NoLocals]
      BY <1>34 DEF FlushClearFails, FlushError, Return
    <3> QED BY <3>1, FirstLocals
  <2> QED BY <1>34, <2>1, <2>2, <2>3 DEF FlushClearFails, FlushError, clock
<1>35. CASE FlushDone(t)
  <2>1. frame' \in [FrameIds -> FrameRecord]
    BY <1>35, FrameOps DEF FlushDone
  <2>2. pc' \in [Threads -> Locations]
    BY <1>35 DEF FlushDone, GoTo, Return, Locations
  <2>3. loc' \in [Threads -> Locals]
    BY <1>35 DEF FlushDone, Return, Locals, NoLocals, Ops
  <2> QED BY <1>35, <2>1, <2>2, <2>3 DEF FlushDone, clock
<1>36. CASE DeleteDone(t)
  <2>1. frame' \in [FrameIds -> FrameRecord]
    BY <1>36, FrameOps DEF DeleteDone, Discard
  <2>2. table' \in [PageIds -> FrameIds \cup {None}]
    BY <1>36 DEF DeleteDone, Discard, Remove
  <2>3. freeList' \in Seq(FrameIds)
    BY <1>36 DEF DeleteDone, Discard, ControlOK, HoldsFrame, At, GiveBack
  <2>4. pc' \in [Threads -> Locations]
    BY <1>36 DEF DeleteDone, Discard, GoTo, Return, Locations
  <2>5. loc' \in [Threads -> Locals]
    BY <1>36 DEF DeleteDone, Discard, Return, Locals, NoLocals, Ops
  <2> QED BY <1>36, <2>1, <2>2, <2>3, <2>4, <2>5 DEF DeleteDone, Discard, clock
<1>37. CASE DeleteUndo(t)
  <2>1. frame' \in [FrameIds -> FrameRecord]
    BY <1>37, FrameOps DEF DeleteUndo
  <2>2. pc' \in [Threads -> Locations]
    BY <1>37 DEF DeleteUndo, GoTo, Return, Locations
  <2>3. loc' \in [Threads -> Locals]
    BY <1>37 DEF DeleteUndo, Return, Locals, NoLocals, Ops
  <2> QED BY <1>37, <2>1, <2>2, <2>3 DEF DeleteUndo, clock
<1>38. ASSUME NEW p \in PageIds, UnpinPage(t, p) PROVE TypeOK'
  <2>1. frame' \in [FrameIds -> FrameRecord]
    BY <1>38, FrameOps DEF UnpinPage
  <2>2. held' \in [Threads -> [PageIds -> Nat]]
    BY <1>38 DEF UnpinPage
  <2> QED BY <1>38, <2>1, <2>2 DEF UnpinPage, clock
<1>39. ASSUME NEW p \in PageIds, MarkDirtyPage(t, p) PROVE TypeOK'
  <2>1. frame' \in [FrameIds -> FrameRecord]
    BY <1>39, FrameOps DEF MarkDirtyPage
  <2>2. store' \in [PageIds -> StoreStates]
    BY <1>39, StoreOps DEF MarkDirtyPage, StoreStates
  <2> QED BY <1>39, <2>1, <2>2 DEF MarkDirtyPage, clock
<1>40. ASSUME NEW p \in PageIds, FlushPage(t, p) PROVE TypeOK'
  <2>1. frame' \in [FrameIds -> FrameRecord]
    BY <1>40, FrameOps DEF FlushPage, BeginFlush
  <2>2. pc' \in [Threads -> Locations]
    BY <1>40 DEF FlushPage, BeginFlush, GoTo, Locations
  <2>3. loc' \in [Threads -> Locals]
    BY <1>40 DEF FlushPage, BeginFlush, Locals, NoLocals, Ops
  <2> QED BY <1>40, <2>1, <2>2, <2>3 DEF FlushPage, BeginFlush, clock
<1>41. ASSUME NEW p \in PageIds, DeleteClean(t, p) PROVE TypeOK'
  <2>1. frame' \in [FrameIds -> FrameRecord]
    BY <1>41, FrameOps DEF DeleteClean, Discard
  <2>2. table' \in [PageIds -> FrameIds \cup {None}]
    BY <1>41 DEF DeleteClean, Discard, Remove
  <2>3. freeList' \in Seq(FrameIds)
    <3>1. table[p] \in FrameIds
      BY <1>41 DEF DeleteClean, IsMapped
    <3> QED BY <1>41, <3>1 DEF DeleteClean, Discard, GiveBack
  <2> QED BY <1>41, <2>1, <2>2, <2>3 DEF DeleteClean, Discard, clock
<1>42. ASSUME NEW p \in PageIds, DeleteDirty(t, p) PROVE TypeOK'
  <2>1. frame' \in [FrameIds -> FrameRecord]
    BY <1>42, FrameOps DEF DeleteDirty, BeginFlush
  <2>2. pc' \in [Threads -> Locations]
    BY <1>42 DEF DeleteDirty, BeginFlush, GoTo, Locations
  <2>3. loc' \in [Threads -> Locals]
    BY <1>42 DEF DeleteDirty, BeginFlush, Locals, NoLocals, Ops
  <2> QED BY <1>42, <2>1, <2>2, <2>3 DEF DeleteDirty, BeginFlush, clock
<1>43. CASE FlushAll(t)
  <2>1. frame' \in [FrameIds -> FrameRecord]
    BY <1>43, FrameOps DEF FlushAll
  <2>2. store' \in [PageIds -> StoreStates]
    BY <1>43, StoreOps DEF FlushAll, StoreStates
  <2> QED BY <1>43, <2>1, <2>2 DEF FlushAll, clock
<1>44. CASE NewFromFree(t)
  <2>1. frame' \in [FrameIds -> FrameRecord]
    <3>1. Head(freeList) \in FrameIds /\ nextPage \in PageIds
      BY <1>44, FrameConstants DEF NewFromFree, PageIds
    <3> QED BY <1>44, <3>1, LoadedFrame DEF NewFromFree
  <2>2. table' \in [PageIds -> FrameIds \cup {None}]
    <3>1. Head(freeList) \in FrameIds /\ nextPage \in PageIds
      BY <1>44, FrameConstants DEF NewFromFree, PageIds
    <3> QED BY <1>44, <3>1 DEF NewFromFree, Insert
  <2>3. freeList' \in Seq(FrameIds)
    BY <1>44 DEF NewFromFree
  <2>4. nextPage' \in PageIds
    BY <1>44, FrameConstants DEF NewFromFree, MayIssue, PageIds, None, IssueId
  <2>5. held' \in [Threads -> [PageIds -> Nat]]
    <3>1. Head(freeList) \in FrameIds /\ nextPage \in PageIds
      BY <1>44, FrameConstants DEF NewFromFree, PageIds
    <3> QED BY <1>44, <3>1 DEF NewFromFree
  <2>6. store' \in [PageIds -> StoreStates]
    BY <1>44, StoreOps DEF NewFromFree, StoreStates
  <2> QED BY <1>44, <2>1, <2>2, <2>3, <2>4, <2>5, <2>6 DEF NewFromFree, clock
<1>45. CASE NewScan(t)
  <2>1. stateLock' \in Threads \cup {NoThread}
    BY <1>45 DEF NewScan
  <2>2. pc' \in [Threads -> Locations]
    BY <1>45 DEF NewScan, GoTo, Locations
  <2>3. loc' \in [Threads -> Locals]
    <3>1. nextPage \in PageIds
      BY <1>45, FrameConstants DEF NewScan, PageIds
    <3> QED BY <1>45, <3>1, FirstLocals DEF NewScan, Ops
  <2> QED BY <1>45, <2>1, <2>2, <2>3 DEF NewScan, clock
<1>46. CASE SpuriousWake(t)
  <2>1. pc' \in [Threads -> Locations]
    BY <1>46 DEF SpuriousWake, GoTo, Locations
  <2> QED BY <1>46, <2>1 DEF SpuriousWake, clock
<1>47. CASE FetchHitFails(t)
  <2>1. pc' \in [Threads -> Locations]
    BY <1>47 DEF FetchHitFails, GoTo, Return, Locations
  <2>2. loc' \in [Threads -> Locals]
    BY <1>47, FirstLocals DEF FetchHitFails, Return
  <2> QED BY <1>47, <2>1, <2>2 DEF FetchHitFails, clock
<1>48. ASSUME NEW p \in PageIds, FlushClean(t, p) PROVE TypeOK'
  <2>1. frame' \in [FrameIds -> FrameRecord]
    BY <1>48, FrameOps DEF FlushClean
  <2> QED BY <1>48, <2>1 DEF FlushClean, clock
<1> QED BY <1>1, <1>2, <1>3, <1>4, <1>5, <1>6, <1>7, <1>8, <1>9, <1>10, <1>11, <1>12, <1>13,
  <1>14, <1>15, <1>16, <1>17, <1>18, <1>19, <1>20, <1>21, <1>22, <1>23, <1>24, <1>25, <1>26,
  <1>27, <1>28, <1>29, <1>30, <1>31, <1>32, <1>33, <1>34, <1>35, <1>36, <1>37, <1>38, <1>39,
  <1>40, <1>41, <1>42, <1>43, <1>44, <1>45, <1>46, <1>47, <1>48 DEF Call, Step, FetchStep,
  EvictStep, FlushStep

-----------------------------------------------------------------------------
\* A step of t leaves the locals of every other thread alone, and moves it at
\* most from a wait to the look that follows it.
LEMMA OthersKeep ==
  ASSUME TypeOK, NEW t \in Threads, NEW u \in Threads \ {t},
         Call(t) \/ Step(t) \/ SpuriousWake(t)
  PROVE  /\ loc'[u] = loc[u]
         /\ \/ pc'[u] = pc[u]
            \/ pc[u] = "cvWait" /\ pc'[u] = "lookup"
            \/ pc[u] = "loadSleep" /\ pc'[u] = "loadCheck"
<1> DEFINE Keeps == /\ loc'[u] = loc[u]
                    /\ \/ pc'[u] = pc[u]
                       \/ pc[u] = "cvWait" /\ pc'[u] = "lookup"
                       \/ pc[u] = "loadSleep" /\ pc'[u] = "loadCheck"
<1> USE DEF TypeOK
<1>1. ASSUME NEW p \in PageIds, CallFetch(t, p) PROVE Keeps
  BY <1>1 DEF CallFetch, GoTo
<1>2. CASE FetchHit(t)
  BY <1>2 DEF FetchHit, Return, GoTo
<1>3. CASE FetchBusy(t)
  BY <1>3 DEF FetchBusy, GoTo
<1>4. CASE FetchJoin(t)
  BY <1>4 DEF FetchJoin, GoTo
<1>5. CASE LoadCheck(t)
  BY <1>5 DEF LoadCheck, GoTo
<1>6. CASE FetchFromFree(t)
  BY <1>6 DEF FetchFromFree, GoTo
<1>7. CASE FetchFreeReserved(t)
  BY <1>7 DEF FetchFreeReserved, GoTo
<1>8. CASE FetchRefused(t)
  BY <1>8 DEF FetchRefused, WakeLoaders
<1>9. CASE ReadFree(t)
  BY <1>9 DEF ReadFree, GoTo
<1>10. CASE PublishFree(t)
  BY <1>10 DEF PublishFree, WakeAll
<1>11. CASE ReadFreeFails(t)
  BY <1>11 DEF ReadFreeFails, WakeAll
<1>12. CASE NotifyLoaders(t)
  BY <1>12 DEF NotifyLoaders, WakeLoaders
<1>13. CASE FetchScan(t)
  BY <1>13 DEF FetchScan, GoTo
<1>14. CASE FetchWait(t)
  BY <1>14 DEF FetchWait, GoTo
<1>15. CASE FetchNoEvictable(t)
  BY <1>15 DEF FetchNoEvictable, Return, GoTo
<1>16. CASE FetchWriteFails(t)
  BY <1>16 DEF FetchWriteFails, AbandonFetch, WakeAll
<1>17. CASE FetchReadFails(t)
  BY <1>17 DEF FetchReadFails, AbandonFetch, WakeAll
<1>18. CASE CommitEviction(t)
  BY <1>18 DEF CommitEviction, WakeAll
<1>19. CASE CommitRejected(t)
  BY <1>19 DEF CommitRejected, Return, GoTo
<1>20. CASE ClockSkip(t)
  BY <1>20 DEF ClockSkip, PassFrame, GoTo, EndRevolution
<1>21. CASE ClockSecondChance(t)
  BY <1>21 DEF ClockSecondChance, PassFrame, GoTo, EndRevolution
<1>22. CASE ClockVictim(t)
  BY <1>22 DEF ClockVictim, AfterWrite, GoTo
<1>23. CASE VictimWithoutPage(t)
  BY <1>23 DEF VictimWithoutPage, Return, GoTo
<1>24. CASE WriteOld(t)
  BY <1>24 DEF WriteOld, AfterWrite, GoTo
<1>25. CASE NewNoEvictable(t)
  BY <1>25 DEF NewNoEvictable, Return, GoTo
<1>26. CASE NewWriteFails(t)
  BY <1>26 DEF NewWriteFails, Return, GoTo
<1>27. CASE InstallNew(t)
  BY <1>27 DEF InstallNew, Return, GoTo
<1>28. CASE InstallRejected(t)
  BY <1>28 DEF InstallRejected, Return, GoTo
<1>29. CASE FlushCopy(t)
  BY <1>29 DEF FlushCopy, GoTo
<1>30. CASE FlushNotReserved(t)
  BY <1>30 DEF FlushNotReserved, FlushError, GoTo, Return
<1>31. CASE FlushWrite(t)
  BY <1>31 DEF FlushWrite, GoTo
<1>32. CASE FlushWriteFails(t)
  BY <1>32 DEF FlushWriteFails, FlushError, GoTo, Return
<1>33. CASE FlushClear(t)
  BY <1>33 DEF FlushClear, GoTo
<1>34. CASE FlushClearFails(t)
  BY <1>34 DEF FlushClearFails, FlushError, GoTo, Return
<1>35. CASE FlushDone(t)
  BY <1>35 DEF FlushDone, Return, GoTo
<1>36. CASE DeleteDone(t)
  BY <1>36 DEF DeleteDone, Return, GoTo
<1>37. CASE DeleteUndo(t)
  BY <1>37 DEF DeleteUndo, Return, GoTo
<1>38. ASSUME NEW p \in PageIds, UnpinPage(t, p) PROVE Keeps
  BY <1>38 DEF UnpinPage
<1>39. ASSUME NEW p \in PageIds, MarkDirtyPage(t, p) PROVE Keeps
  BY <1>39 DEF MarkDirtyPage
<1>40. ASSUME NEW p \in PageIds, FlushPage(t, p) PROVE Keeps
  BY <1>40 DEF FlushPage, BeginFlush, GoTo
<1>41. ASSUME NEW p \in PageIds, DeleteClean(t, p) PROVE Keeps
  BY <1>41 DEF DeleteClean
<1>42. ASSUME NEW p \in PageIds, DeleteDirty(t, p) PROVE Keeps
  BY <1>42 DEF DeleteDirty, BeginFlush, GoTo
<1>43. CASE FlushAll(t)
  BY <1>43 DEF FlushAll
<1>44. CASE NewFromFree(t)
  BY <1>44 DEF NewFromFree
<1>45. CASE NewScan(t)
  BY <1>45 DEF NewScan, GoTo
<1>46. CASE SpuriousWake(t)
  BY <1>46 DEF SpuriousWake, GoTo
<1>47. CASE FetchHitFails(t)
  BY <1>47 DEF FetchHitFails, Return, GoTo
<1>48. ASSUME NEW p \in PageIds, FlushClean(t, p) PROVE Keeps
  BY <1>48 DEF FlushClean
<1> QED BY <1>1, <1>2, <1>3, <1>4, <1>5, <1>6, <1>7, <1>8, <1>9, <1>10, <1>11, <1>12, <1>13,
  <1>14, <1>15, <1>16, <1>17, <1>18, <1>19, <1>20, <1>21, <1>22, <1>23, <1>24, <1>25, <1>26,
  <1>27, <1>28, <1>29, <1>30, <1>31, <1>32, <1>33, <1>34, <1>35, <1>36, <1>37, <1>38, <1>39,
  <1>40, <1>41, <1>42, <1>43, <1>44, <1>45, <1>46, <1>47, <1>48 DEF Call, Step, FetchStep,
  EvictStep, FlushStep

\* Where a thread is still tells what its locals hold: OthersKeep leaves only the
\* thread that moved to look at.
LEMMA ControlStep ==
  ASSUME TypeOK, ControlOK, NEW t \in Threads,
         Call(t) \/ Step(t) \/ SpuriousWake(t)
  PROVE  ControlOK'
<1> DEFINE Fine(u) ==
      /\ At(u, "idle") => loc[u] = NoLocals
      /\ ~At(u, "idle") => loc[u].page \in PageIds
      /\ pc[u] \in HoldsFrame => loc[u].frame \in FrameIds
      /\ pc[u] \in {"lookup", "cvWait", "loadCheck", "loadSleep"} => loc[u].op = "fetch"
      /\ pc[u] \in {"readFree", "publish", "refused", "readNew"} => loc[u].loader
      /\ pc[u] \in {"scan", "noVictim", "writeOld"} =>
            IF loc[u].op = "fetch" THEN loc[u].loader ELSE loc[u].page < PageIdLimit
      /\ pc[u] = "install" => loc[u].page < PageIdLimit
<1>a. \A u \in Threads : Fine(u)
  BY DEF ControlOK
<1>b. \A u \in Threads \ {t} : Fine(u)'
  BY <1>a, OthersKeep DEF At, HoldsFrame
<1>c. SUFFICES Fine(t)'
  BY <1>b DEF ControlOK
<1> HIDE DEF Fine
<1> USE <1>a DEF TypeOK
<1>1. ASSUME NEW p \in PageIds, CallFetch(t, p) PROVE Fine(t)'
  BY <1>1 DEF CallFetch, GoTo, Fine, At, HoldsFrame, Locals, NoLocals
<1>2. CASE FetchHit(t)
  BY <1>2 DEF FetchHit, Return, GoTo, Fine, At, HoldsFrame, Locals, NoLocals
<1>3. CASE FetchBusy(t)
  BY <1>3 DEF FetchBusy, GoTo, Fine, At, HoldsFrame, Locals, NoLocals
<1>4. CASE FetchJoin(t)
  BY <1>4 DEF FetchJoin, GoTo, Fine, At, HoldsFrame, Locals, NoLocals
<1>5. CASE LoadCheck(t)
  <2>1. CASE loc' = loc
    BY <1>5, <2>1 DEF LoadCheck, GoTo, Fine, At, HoldsFrame
  <2>2. CASE loc' = [loc EXCEPT ![t].cv = None]
    BY <1>5, <2>2 DEF LoadCheck, GoTo, Fine, At, HoldsFrame, Locals
  <2> QED BY <1>5, <2>1, <2>2 DEF LoadCheck
<1>6. CASE FetchFromFree(t)
  BY <1>6 DEF FetchFromFree, GoTo, Fine, At, HoldsFrame, Locals, NoLocals, BecomeLoader
<1>7. CASE FetchFreeReserved(t)
  BY <1>7 DEF FetchFreeReserved, GoTo, Fine, At, HoldsFrame, Locals, NoLocals, BecomeLoader
<1>8. CASE FetchRefused(t)
  BY <1>8 DEF FetchRefused, WakeLoaders, Fine, At, HoldsFrame, Locals, NoLocals
<1>9. CASE ReadFree(t)
  BY <1>9 DEF ReadFree, GoTo, Fine, At, HoldsFrame, Locals, NoLocals
<1>10. CASE PublishFree(t)
  BY <1>10 DEF PublishFree, WakeAll, Fine, At, HoldsFrame, Locals, NoLocals
<1>11. CASE ReadFreeFails(t)
  BY <1>11 DEF ReadFreeFails, WakeAll, Fine, At, HoldsFrame, Locals, NoLocals
<1>12. CASE NotifyLoaders(t)
  BY <1>12 DEF NotifyLoaders, WakeLoaders, Fine, At, HoldsFrame, Locals, NoLocals
<1>13. CASE FetchScan(t)
  <2>1. pc[t] = "lookup" /\ pc'[t] = "scan"
    BY <1>13 DEF FetchScan, BecomeLoader, GoTo, At
  <2>2. loc'[t] = [loc[t] EXCEPT !.missed = TRUE, !.loader = TRUE]
    BY <1>13 DEF FetchScan, Locals
  <2>3. loc[t].page \in PageIds /\ loc'[t].page = loc[t].page /\ loc'[t].loader
    BY <2>1, <2>2 DEF Fine, At, Locals
  <2>4. loc'[t].op = "fetch"
    BY <2>1, <2>2 DEF Fine, Locals
  <2> QED BY <2>1, <2>3, <2>4 DEF Fine, At, HoldsFrame
<1>14. CASE FetchWait(t)
  BY <1>14 DEF FetchWait, GoTo, Fine, At, HoldsFrame, Locals, NoLocals
<1>15. CASE FetchNoEvictable(t)
  BY <1>15 DEF FetchNoEvictable, Return, GoTo, Fine, At, HoldsFrame, Locals, NoLocals
<1>16. CASE FetchWriteFails(t)
  BY <1>16 DEF FetchWriteFails, AbandonFetch, WakeAll, Fine, At, HoldsFrame, Locals, NoLocals
<1>17. CASE FetchReadFails(t)
  BY <1>17 DEF FetchReadFails, AbandonFetch, WakeAll, Fine, At, HoldsFrame, Locals, NoLocals
<1>18. CASE CommitEviction(t)
  BY <1>18 DEF CommitEviction, WakeAll, Fine, At, HoldsFrame, Locals, NoLocals
<1>19. CASE CommitRejected(t)
  BY <1>19 DEF CommitRejected, Return, GoTo, Fine, At, HoldsFrame, Locals, NoLocals
<1>20. CASE ClockSkip(t)
  BY <1>20 DEF ClockSkip, PassFrame, GoTo, Fine, At, HoldsFrame, Locals, NoLocals, EndRevolution
<1>21. CASE ClockSecondChance(t)
  BY <1>21 DEF ClockSecondChance, PassFrame, GoTo, Fine, At, HoldsFrame, Locals, NoLocals,
    EndRevolution
<1>22. CASE ClockVictim(t)
  BY <1>22 DEF ClockVictim, AfterWrite, GoTo, Fine, At, HoldsFrame, Locals, NoLocals
<1>23. CASE VictimWithoutPage(t)
  BY <1>23 DEF VictimWithoutPage, Return, GoTo, Fine, At, HoldsFrame, Locals, NoLocals
<1>24. CASE WriteOld(t)
  BY <1>24 DEF WriteOld, AfterWrite, GoTo, Fine, At, HoldsFrame, Locals, NoLocals
<1>25. CASE NewNoEvictable(t)
  BY <1>25 DEF NewNoEvictable, Return, GoTo, Fine, At, HoldsFrame, Locals, NoLocals
<1>26. CASE NewWriteFails(t)
  BY <1>26 DEF NewWriteFails, Return, GoTo, Fine, At, HoldsFrame, Locals, NoLocals
<1>27. CASE InstallNew(t)
  BY <1>27 DEF InstallNew, Return, GoTo, Fine, At, HoldsFrame, Locals, NoLocals
<1>28. CASE InstallRejected(t)
  BY <1>28 DEF InstallRejected, Return, GoTo, Fine, At, HoldsFrame, Locals, NoLocals
<1>29. CASE FlushCopy(t)
  <2>1. CASE loc' = loc
    BY <1>29, <2>1 DEF FlushCopy, GoTo, Fine, At, HoldsFrame
  <2>2. CASE loc' = [loc EXCEPT ![t].old = frame[loc[t].frame].page]
    BY <1>29, <2>2 DEF FlushCopy, GoTo, Fine, At, HoldsFrame, Locals
  <2> QED BY <1>29, <2>1, <2>2 DEF FlushCopy
<1>30. CASE FlushNotReserved(t)
  BY <1>30 DEF FlushNotReserved, FlushError, GoTo, Return, Fine, At, HoldsFrame, Locals, NoLocals
<1>31. CASE FlushWrite(t)
  BY <1>31 DEF FlushWrite, GoTo, Fine, At, HoldsFrame, Locals, NoLocals
<1>32. CASE FlushWriteFails(t)
  BY <1>32 DEF FlushWriteFails, FlushError, GoTo, Return, Fine, At, HoldsFrame, Locals, NoLocals
<1>33. CASE FlushClear(t)
  BY <1>33 DEF FlushClear, GoTo, Fine, At, HoldsFrame, Locals, NoLocals
<1>34. CASE FlushClearFails(t)
  BY <1>34 DEF FlushClearFails, FlushError, GoTo, Return, Fine, At, HoldsFrame, Locals, NoLocals
<1>35. CASE FlushDone(t)
  BY <1>35 DEF FlushDone, Return, GoTo, Fine, At, HoldsFrame, Locals, NoLocals
<1>36. CASE DeleteDone(t)
  BY <1>36 DEF DeleteDone, Return, GoTo, Fine, At, HoldsFrame, Locals, NoLocals
<1>37. CASE DeleteUndo(t)
  BY <1>37 DEF DeleteUndo, Return, GoTo, Fine, At, HoldsFrame, Locals, NoLocals
<1>38. ASSUME NEW p \in PageIds, UnpinPage(t, p) PROVE Fine(t)'
  BY <1>38 DEF UnpinPage, Fine, At, HoldsFrame, Locals, NoLocals
<1>39. ASSUME NEW p \in PageIds, MarkDirtyPage(t, p) PROVE Fine(t)'
  BY <1>39 DEF MarkDirtyPage, Fine, At, HoldsFrame, Locals, NoLocals
<1>40. ASSUME NEW p \in PageIds, FlushPage(t, p) PROVE Fine(t)'
  BY <1>40 DEF FlushPage, BeginFlush, IsMapped, GoTo, Fine, At, HoldsFrame, Locals, NoLocals
<1>41. ASSUME NEW p \in PageIds, DeleteClean(t, p) PROVE Fine(t)'
  BY <1>41 DEF DeleteClean, Fine, At, HoldsFrame, Locals, NoLocals
<1>42. ASSUME NEW p \in PageIds, DeleteDirty(t, p) PROVE Fine(t)'
  BY <1>42 DEF DeleteDirty, BeginFlush, IsMapped, GoTo, Fine, At, HoldsFrame, Locals, NoLocals
<1>43. CASE FlushAll(t)
  BY <1>43 DEF FlushAll, Fine, At, HoldsFrame, Locals, NoLocals
<1>44. CASE NewFromFree(t)
  BY <1>44 DEF NewFromFree, Fine, At, HoldsFrame, Locals, NoLocals
<1>45. CASE NewScan(t)
  BY <1>45, FrameConstants DEF NewScan, MayIssue, PageIds, GoTo, Fine, At, HoldsFrame, Locals, NoLocals
<1>46. CASE SpuriousWake(t)
  BY <1>46 DEF SpuriousWake, GoTo, Fine, At, HoldsFrame, Locals, NoLocals
<1>47. CASE FetchHitFails(t)
  BY <1>47 DEF FetchHitFails, Return, GoTo, Fine, At, HoldsFrame, Locals, NoLocals
<1>48. ASSUME NEW p \in PageIds, FlushClean(t, p) PROVE Fine(t)'
  BY <1>48 DEF FlushClean, Fine, At, HoldsFrame, Locals, NoLocals
<1> QED BY <1>1, <1>2, <1>3, <1>4, <1>5, <1>6, <1>7, <1>8, <1>9, <1>10, <1>11, <1>12, <1>13,
  <1>14, <1>15, <1>16, <1>17, <1>18, <1>19, <1>20, <1>21, <1>22, <1>23, <1>24, <1>25, <1>26,
  <1>27, <1>28, <1>29, <1>30, <1>31, <1>32, <1>33, <1>34, <1>35, <1>36, <1>37, <1>38, <1>39,
  <1>40, <1>41, <1>42, <1>43, <1>44, <1>45, <1>46, <1>47, <1>48 DEF Call, Step, FetchStep,
  EvictStep, FlushStep

-----------------------------------------------------------------------------
\* What a step of t does to the entries: nothing, insert one for the page it
\* becomes the loader of, or remove the one it owns.
Keeps(t) == /\ loads' = loads
            /\ Loading(t)' => Loading(t) /\ loc'[t].page = loc[t].page
Inserts(t) == /\ loads[loc[t].page] = None
              /\ ~IsMapped(table, loc[t].page) /\ table' = table
              /\ \E c \in CvIds : loads' = [loads EXCEPT ![loc[t].page] = c]
              /\ loc[t].page \in PageIds
              /\ loc'[t].page = loc[t].page
Removes(t) == /\ Loading(t) /\ ~Loading(t)'
              /\ loads' = [loads EXCEPT ![loc[t].page] = None]

\* in_flight_loads changes in these three ways only; a removal is by the owner.
LEMMA EntriesStep ==
  ASSUME TypeOK, ControlOK, NEW t \in Threads,
         Call(t) \/ Step(t) \/ SpuriousWake(t)
  PROVE  Keeps(t) \/ Inserts(t) \/ Removes(t)
<1> USE DEF TypeOK, ControlOK, Loading, At, Locals, NoLocals
<1>1. ASSUME NEW p \in PageIds, CallFetch(t, p) PROVE Keeps(t)
  BY <1>1 DEF CallFetch, GoTo, Keeps
<1>2. CASE FetchHit(t)
  BY <1>2 DEF FetchHit, Return, GoTo, Keeps
<1>3. CASE FetchBusy(t)
  BY <1>3 DEF FetchBusy, GoTo, Keeps
<1>4. CASE FetchJoin(t)
  BY <1>4 DEF FetchJoin, GoTo, Keeps
<1>5. CASE LoadCheck(t)
  <2>1. CASE loc' = loc
    BY <1>5, <2>1 DEF LoadCheck, GoTo, Keeps
  <2>2. CASE loc' = [loc EXCEPT ![t].cv = None]
    BY <1>5, <2>2 DEF LoadCheck, GoTo, Keeps
  <2> QED BY <1>5, <2>1, <2>2 DEF LoadCheck
<1>6. CASE FetchFromFree(t)
  <2>1. loc[t].page \in PageIds
    BY <1>6 DEF FetchFromFree, BecomeLoader
  <2>2. loc'[t].page = loc[t].page
    BY <1>6 DEF FetchFromFree
  <2> QED BY <1>6, <2>1, <2>2 DEF FetchFromFree, BecomeLoader, Inserts, NeedsLoad
<1>7. CASE FetchFreeReserved(t)
  <2>1. loc[t].page \in PageIds
    BY <1>7 DEF FetchFreeReserved, BecomeLoader
  <2>2. loc'[t].page = loc[t].page
    BY <1>7 DEF FetchFreeReserved
  <2> QED BY <1>7, <2>1, <2>2 DEF FetchFreeReserved, BecomeLoader, Inserts, NeedsLoad
<1>8. CASE FetchRefused(t)
  BY <1>8 DEF FetchRefused, WakeLoaders, Removes
<1>9. CASE ReadFree(t)
  BY <1>9 DEF ReadFree, GoTo, Keeps
<1>10. CASE PublishFree(t)
  BY <1>10 DEF PublishFree, WakeAll, Removes
<1>11. CASE ReadFreeFails(t)
  BY <1>11 DEF ReadFreeFails, WakeAll, Removes
<1>12. CASE NotifyLoaders(t)
  BY <1>12 DEF NotifyLoaders, WakeLoaders, Keeps
<1>13. CASE FetchScan(t)
  <2>1. loc[t].page \in PageIds
    BY <1>13 DEF FetchScan, BecomeLoader
  <2>2. loc'[t].page = loc[t].page
    BY <1>13 DEF FetchScan
  <2> QED BY <1>13, <2>1, <2>2 DEF FetchScan, BecomeLoader, Inserts, NeedsLoad
<1>14. CASE FetchWait(t)
  BY <1>14 DEF FetchWait, GoTo, Keeps
<1>15. CASE FetchNoEvictable(t)
  BY <1>15 DEF FetchNoEvictable, Return, GoTo, Keeps
<1>16. CASE FetchWriteFails(t)
  BY <1>16 DEF FetchWriteFails, AbandonFetch, WakeAll, Removes
<1>17. CASE FetchReadFails(t)
  BY <1>17 DEF FetchReadFails, AbandonFetch, WakeAll, Removes
<1>18. CASE CommitEviction(t)
  BY <1>18 DEF CommitEviction, WakeAll, Removes
<1>19. CASE CommitRejected(t)
  BY <1>19 DEF CommitRejected, Return, GoTo, Keeps
<1>20. CASE ClockSkip(t)
  BY <1>20 DEF ClockSkip, PassFrame, GoTo, Keeps
<1>21. CASE ClockSecondChance(t)
  BY <1>21 DEF ClockSecondChance, PassFrame, GoTo, Keeps
<1>22. CASE ClockVictim(t)
  BY <1>22 DEF ClockVictim, AfterWrite, GoTo, Keeps
<1>23. CASE VictimWithoutPage(t)
  BY <1>23 DEF VictimWithoutPage, Return, GoTo, Keeps
<1>24. CASE WriteOld(t)
  BY <1>24 DEF WriteOld, AfterWrite, GoTo, Keeps
<1>25. CASE NewNoEvictable(t)
  BY <1>25 DEF NewNoEvictable, Return, GoTo, Keeps
<1>26. CASE NewWriteFails(t)
  BY <1>26 DEF NewWriteFails, Return, GoTo, Keeps
<1>27. CASE InstallNew(t)
  BY <1>27 DEF InstallNew, Return, GoTo, Keeps
<1>28. CASE InstallRejected(t)
  BY <1>28 DEF InstallRejected, Return, GoTo, Keeps
<1>29. CASE FlushCopy(t)
  <2>1. CASE loc' = loc
    BY <1>29, <2>1 DEF FlushCopy, GoTo, Keeps
  <2>2. CASE loc' = [loc EXCEPT ![t].old = frame[loc[t].frame].page]
    BY <1>29, <2>2 DEF FlushCopy, GoTo, Keeps
  <2> QED BY <1>29, <2>1, <2>2 DEF FlushCopy
<1>30. CASE FlushNotReserved(t)
  BY <1>30 DEF FlushNotReserved, FlushError, GoTo, Return, Keeps
<1>31. CASE FlushWrite(t)
  BY <1>31 DEF FlushWrite, GoTo, Keeps
<1>32. CASE FlushWriteFails(t)
  BY <1>32 DEF FlushWriteFails, FlushError, GoTo, Return, Keeps
<1>33. CASE FlushClear(t)
  BY <1>33 DEF FlushClear, GoTo, Keeps
<1>34. CASE FlushClearFails(t)
  BY <1>34 DEF FlushClearFails, FlushError, GoTo, Return, Keeps
<1>35. CASE FlushDone(t)
  BY <1>35 DEF FlushDone, Return, GoTo, Keeps
<1>36. CASE DeleteDone(t)
  BY <1>36 DEF DeleteDone, Return, GoTo, Keeps
<1>37. CASE DeleteUndo(t)
  BY <1>37 DEF DeleteUndo, Return, GoTo, Keeps
<1>38. ASSUME NEW p \in PageIds, UnpinPage(t, p) PROVE Keeps(t)
  BY <1>38 DEF UnpinPage, Keeps
<1>39. ASSUME NEW p \in PageIds, MarkDirtyPage(t, p) PROVE Keeps(t)
  BY <1>39 DEF MarkDirtyPage, Keeps
<1>40. ASSUME NEW p \in PageIds, FlushPage(t, p) PROVE Keeps(t)
  BY <1>40 DEF FlushPage, BeginFlush, GoTo, Keeps
<1>41. ASSUME NEW p \in PageIds, DeleteClean(t, p) PROVE Keeps(t)
  BY <1>41 DEF DeleteClean, Keeps
<1>42. ASSUME NEW p \in PageIds, DeleteDirty(t, p) PROVE Keeps(t)
  BY <1>42 DEF DeleteDirty, BeginFlush, GoTo, Keeps
<1>43. CASE FlushAll(t)
  BY <1>43 DEF FlushAll, Keeps
<1>44. CASE NewFromFree(t)
  BY <1>44 DEF NewFromFree, Keeps
<1>45. CASE NewScan(t)
  BY <1>45 DEF NewScan, GoTo, Keeps
<1>46. CASE SpuriousWake(t)
  BY <1>46 DEF SpuriousWake, GoTo, Keeps
<1>47. CASE FetchHitFails(t)
  BY <1>47 DEF FetchHitFails, Return, GoTo, Keeps
<1>48. ASSUME NEW p \in PageIds, FlushClean(t, p) PROVE Keeps(t)
  BY <1>48 DEF FlushClean, Keeps
<1> QED BY <1>1, <1>2, <1>3, <1>4, <1>5, <1>6, <1>7, <1>8, <1>9, <1>10, <1>11, <1>12, <1>13,
  <1>14, <1>15, <1>16, <1>17, <1>18, <1>19, <1>20, <1>21, <1>22, <1>23, <1>24, <1>25, <1>26,
  <1>27, <1>28, <1>29, <1>30, <1>31, <1>32, <1>33, <1>34, <1>35, <1>36, <1>37, <1>38, <1>39,
  <1>40, <1>41, <1>42, <1>43, <1>44, <1>45, <1>46, <1>47, <1>48 DEF Call, Step, FetchStep,
  EvictStep, FlushStep

\* Each of the three keeps loaders unique: an insertion needs an absent entry, and
\* no other loader of the page exists then; a removal takes the only one away.
LEMMA UniqueStep ==
  ASSUME TypeOK, ControlOK, UniqueLoader, NEW t \in Threads,
         Call(t) \/ Step(t) \/ SpuriousWake(t)
  PROVE  UniqueLoader'
<1>1. \A u \in Threads \ {t} : /\ Loading(u)' <=> Loading(u)
                               /\ loc'[u].page = loc[u].page
  BY OthersKeep DEF Loading, At
<1>2. \A u \in Threads : Loading(u) => loc[u].page \in PageIds
  BY DEF Loading, ControlOK, NoLocals
<1>3. CASE Keeps(t)
  BY <1>1, <1>3 DEF Keeps, UniqueLoader
<1>4. CASE Inserts(t)
  <2>1. \A u \in Threads : Loading(u) => loc[u].page # loc[t].page
    BY <1>4 DEF Inserts, UniqueLoader
  <2>2. loads'[loc[t].page] # None
    BY <1>4, PoolConstants DEF Inserts, TypeOK, CvIds, None
  <2>3. \A q \in PageIds : q # loc[t].page => loads'[q] = loads[q]
    BY <1>4 DEF Inserts, TypeOK
  <2>4. \A u \in Threads \ {t} : Loading(u)' => /\ loads'[loc'[u].page] # None
                                               /\ loc'[u].page # loc'[t].page
    BY <1>1, <1>2, <1>4, <2>1, <2>3 DEF Inserts, UniqueLoader
  <2>5. \A u \in Threads : Loading(u)' => loads'[loc'[u].page] # None
    BY <1>4, <2>2, <2>4 DEF Inserts
  <2> QED BY <1>1, <2>4, <2>5 DEF UniqueLoader
<1>5. CASE Removes(t)
  <2>1. \A u \in Threads \ {t} : Loading(u) => loc[u].page # loc[t].page
    BY <1>5 DEF Removes, UniqueLoader
  <2> QED BY <1>1, <1>2, <1>5, <2>1 DEF Removes, UniqueLoader, TypeOK
<1> QED BY <1>3, <1>4, <1>5, EntriesStep

-----------------------------------------------------------------------------
\* The invariant holds of a new pool.
LEMMA LoaderInit == Init => LoaderInv
<1> SUFFICES ASSUME Init PROVE LoaderInv
  OBVIOUS
<1>1. TypeOK
  <2>1. freeList \in Seq(FrameIds)
    BY PoolSize DEF Init, FrameIds
  <2>2. frame \in [FrameIds -> FrameRecord]
    BY FrameConstants DEF Init, NewFrame, FrameRecord, FrameStates
  <2>3. nextPage \in PageIds /\ hand \in FrameIds /\ scanned \in FrameIds
    BY FrameConstants, PoolSize DEF Init, FrameIds, PageIds
  <2>4. loc \in [Threads -> Locals]
    BY FirstLocals DEF Init
  <2>5. pc \in [Threads -> Locations] /\ store \in [PageIds -> StoreStates]
    BY DEF Init, Locations, StoreStates
  <2> QED BY <2>1, <2>2, <2>3, <2>4, <2>5 DEF Init, TypeOK, EmptyTable
<1>2. ControlOK
  BY DEF Init, ControlOK, At, HoldsFrame
<1>3. UniqueLoader
  BY DEF Init, UniqueLoader, Loading, NoLocals
<1> QED BY <1>1, <1>2, <1>3 DEF LoaderInv

\* The invariant is inductive.
LEMMA LoaderNext == LoaderInv /\ [Next]_vars => LoaderInv'
<1> SUFFICES ASSUME LoaderInv, [Next]_vars PROVE LoaderInv'
  OBVIOUS
<1>1. CASE UNCHANGED vars
  BY <1>1 DEF LoaderInv, TypeOK, ControlOK, UniqueLoader, Loading, At, vars, clock
<1>2. CASE Next
  <2>1. PICK t \in Threads : Call(t) \/ Step(t) \/ SpuriousWake(t)
    BY <1>2 DEF Next
  <2> QED BY <2>1, TypeStep, ControlStep, UniqueStep DEF LoaderInv
<1> QED BY <1>1, <1>2

\* Whatever the threads do, every variable keeps its type: no frame index, page
\* id or condition variable the code unwraps is missing.
THEOREM TypeCorrect == Spec => []TypeOK
<1>1. LoaderInv => TypeOK
  BY DEF LoaderInv
<1> QED BY <1>1, LoaderInit, LoaderNext, PTL DEF Spec

\* Whoever calls what and whatever the disk answers, a page has at most one
\* loader, and its entry stays until that loader removes it.
THEOREM LoaderIsUnique == Spec => []UniqueLoader
<1>1. LoaderInv => UniqueLoader
  BY DEF LoaderInv
<1> QED BY <1>1, LoaderInit, LoaderNext, PTL DEF Spec
=============================================================================
