----------------------- MODULE BufferPoolShapeProofs -----------------------
(***************************************************************************)
(* Table, free list, frame states and threads agree, for the callers of    *)
(* SafeCallers and every number of threads, pages and frames.              *)
(*                                                                         *)
(* The argument.  A step either leaves frames, table and free list alone   *)
(* (Silent), or keeps every frame in its place (Stays), or moves one frame *)
(* that no other thread uses (Moves).  From these three facts follow both  *)
(* the invariants about the whole pool and that the work of the other      *)
(* threads goes on undisturbed; what remains is what the thread itself     *)
(* knows after its step.                                                   *)
(***************************************************************************)
EXTENDS BufferPoolProofs, FiniteSetTheorems

\* t is at work on frame f.
Uses(t, f) == Owns(t, f) \/ Fills(t, f)

\* Two threads are never at work on one frame.
LEMMA OneUser ==
  ASSUME ShapeInv, NEW s \in Threads, NEW t \in Threads, NEW f \in FrameIds,
         Uses(s, f), Uses(t, f)
  PROVE  s = t
<1>1. ASSUME NEW u \in Threads, Uses(u, f), ~Owns(u, f) PROVE ~IsReserved(frame[f])
  BY <1>1 DEF Uses, Fills, Owns, Reserving, ShapeInv, WorkOK, IsReserved
<1>2. ASSUME NEW u \in Threads, Owns(u, f) PROVE IsReserved(frame[f])
  BY <1>2 DEF ShapeInv, ReservedHasOwner
<1>3. CASE Owns(s, f)
  BY <1>1, <1>2, <1>3 DEF ShapeInv, ReservedHasOwner
<1>4. CASE ~Owns(s, f)
  BY <1>1, <1>2, <1>4 DEF ShapeInv, FramesAccounted, Uses
<1> QED BY <1>3, <1>4

\* A frame in the table or on the free list that is not reserved is nobody's work.
LEMMA NobodysFrame ==
  ASSUME ShapeInv, NEW f \in FrameIds, ~IsReserved(frame[f]), Mapped(f) \/ Listed(f),
         NEW t \in Threads
  PROVE  ~Uses(t, f)
BY DEF ShapeInv, ReservedHasOwner, FramesAccounted, Uses

\* A mapped page is in a frame, and that frame holds it.
LEMMA MappedFrame ==
  ASSUME ShapeInv, NEW p \in PageIds, IsMapped(table, p)
  PROVE  /\ table[p] \in FrameIds
         /\ frame[table[p]] \in FrameRecord
         /\ frame[table[p]].page = p
         /\ HasMeta(frame[table[p]])
         /\ frame[table[p]].st # "Free"
         /\ Mapped(table[p])
         /\ ~Listed(table[p])
         /\ p \in Askable
BY DEF ShapeInv, LoaderInv, TypeOK, IsMapped, MappingExact, Mapped, HasMeta, PageIds, None,
       FramesAccounted, ResidentAskable

\* The first free frame is Free, unmapped, and nobody's work.
LEMMA FirstFree ==
  ASSUME ShapeInv, freeList # <<>>
  PROVE  /\ Head(freeList) \in FrameIds
         /\ Listed(Head(freeList))
         /\ frame[Head(freeList)].st = "Free"
         /\ ~IsReserved(frame[Head(freeList)])
         /\ ~Mapped(Head(freeList))
         /\ \A u \in Threads : ~Uses(u, Head(freeList))
<1>1. /\ Head(freeList) \in FrameIds
      /\ 1 \in DOMAIN freeList
      /\ Head(freeList) = freeList[1]
  BY DEF ShapeInv, LoaderInv, TypeOK
<1>2. Listed(Head(freeList))
  BY <1>1 DEF Listed
<1>3. frame[Head(freeList)].st = "Free" /\ ~Mapped(Head(freeList))
  BY <1>1, <1>2 DEF ShapeInv, FramesAccounted
<1>4. ~IsReserved(frame[Head(freeList)])
  BY <1>3 DEF IsReserved
<1> QED BY <1>1, <1>2, <1>3, <1>4, NobodysFrame

\* The list without its first frame.
LEMMA ListTail ==
  ASSUME NEW l \in Seq(FrameIds), l # <<>>,
         \A i, j \in DOMAIN l : l[i] = l[j] => i = j
  PROVE  /\ \A i, j \in DOMAIN Tail(l) : Tail(l)[i] = Tail(l)[j] => i = j
         /\ \A f : (\E i \in DOMAIN Tail(l) : Tail(l)[i] = f)
                     <=> f # Head(l) /\ \E i \in DOMAIN l : l[i] = f
<1>1. DOMAIN l = 1 .. Len(l) /\ Len(l) \in Nat \ {0}
  OBVIOUS
<1>2. DOMAIN Tail(l) = 1 .. (Len(l) - 1)
  OBVIOUS
<1>3. \A i \in DOMAIN Tail(l) : Tail(l)[i] = l[i + 1] /\ i + 1 \in DOMAIN l
  OBVIOUS
<1>4. \A i \in DOMAIN l : i # 1 => i - 1 \in DOMAIN Tail(l) /\ Tail(l)[i - 1] = l[i]
  OBVIOUS
<1>5. Head(l) = l[1] /\ 1 \in DOMAIN l
  OBVIOUS
<1>6. \A i \in DOMAIN Tail(l) : i + 1 # 1 /\ i \in Int
  BY <1>2
<1>7. \A i, j \in DOMAIN Tail(l) : Tail(l)[i] = Tail(l)[j] => i = j
  <2>1. \A i, j \in DOMAIN Tail(l) : i + 1 = j + 1 => i = j
    BY <1>2
  <2> QED BY <1>3, <2>1
<1>8. ASSUME NEW f
      PROVE  (\E i \in DOMAIN Tail(l) : Tail(l)[i] = f)
               <=> f # Head(l) /\ \E i \in DOMAIN l : l[i] = f
  <2>1. ASSUME NEW i \in DOMAIN Tail(l), Tail(l)[i] = f PROVE f # Head(l)
    BY <1>3, <1>5, <1>6, <2>1
  <2>2. ASSUME NEW i \in DOMAIN l, l[i] = f, f # Head(l)
        PROVE  \E j \in DOMAIN Tail(l) : Tail(l)[j] = f
    BY <1>4, <1>5, <2>2
  <2> QED BY <1>3, <2>1, <2>2
<1> QED BY <1>7, <1>8

\* The list with one more frame at its end.
LEMMA ListAppend ==
  ASSUME NEW l \in Seq(FrameIds), NEW g \in FrameIds,
         \A i, j \in DOMAIN l : l[i] = l[j] => i = j,
         ~ \E i \in DOMAIN l : l[i] = g
  PROVE  /\ \A i, j \in DOMAIN Append(l, g) : Append(l, g)[i] = Append(l, g)[j] => i = j
         /\ \A f : (\E i \in DOMAIN Append(l, g) : Append(l, g)[i] = f)
                     <=> f = g \/ \E i \in DOMAIN l : l[i] = f
<1>1. DOMAIN l = 1 .. Len(l) /\ Len(l) \in Nat
  OBVIOUS
<1>2. DOMAIN Append(l, g) = 1 .. (Len(l) + 1)
  OBVIOUS
<1>3. \A i \in DOMAIN l : i \in DOMAIN Append(l, g) /\ Append(l, g)[i] = l[i]
  OBVIOUS
<1>4. Len(l) + 1 \in DOMAIN Append(l, g) /\ Append(l, g)[Len(l) + 1] = g
  OBVIOUS
<1>5. \A i \in DOMAIN Append(l, g) : i \in DOMAIN l \/ i = Len(l) + 1
  BY <1>1, <1>2
<1> QED BY <1>3, <1>4, <1>5

\* What a frame taken from the free list does to the list.
LEMMA FirstFreeTaken ==
  ASSUME ShapeInv, freeList # <<>>, freeList' = Tail(freeList)
  PROVE  /\ \A g : Listed(g)' <=> g # Head(freeList) /\ Listed(g)
         /\ \A i, j \in DOMAIN freeList' : freeList'[i] = freeList'[j] => i = j
<1>1. /\ freeList \in Seq(FrameIds)
      /\ \A i, j \in DOMAIN freeList : freeList[i] = freeList[j] => i = j
  BY DEF ShapeInv, FramesAccounted, LoaderInv, TypeOK
<1>2. /\ \A i, j \in DOMAIN Tail(freeList) : Tail(freeList)[i] = Tail(freeList)[j] => i = j
      /\ \A g : (\E i \in DOMAIN Tail(freeList) : Tail(freeList)[i] = g)
                 <=> g # Head(freeList) /\ Listed(g)
  BY <1>1, ListTail DEF Listed
<1> QED BY <1>2 DEF Listed

\* What a frame given back to the free list does to the list.
LEMMA FrameGivenBack ==
  ASSUME ShapeInv, NEW f \in FrameIds, ~Listed(f), freeList' = Append(freeList, f)
  PROVE  /\ \A g : Listed(g)' <=> g = f \/ Listed(g)
         /\ \A i, j \in DOMAIN freeList' : freeList'[i] = freeList'[j] => i = j
<1>1. /\ freeList \in Seq(FrameIds)
      /\ \A i, j \in DOMAIN freeList : freeList[i] = freeList[j] => i = j
  BY DEF ShapeInv, FramesAccounted, LoaderInv, TypeOK
<1> QED BY <1>1, ListAppend DEF Listed

\* A frame the scan finds unused is in the table: no frame is free then, and one that
\* is being filled is reserved or pinned.
LEMMA VictimMapped ==
  ASSUME ShapeInv, NEW t \in Threads, At(t, "scan"), Unused(frame[hand])
  PROVE  hand \in FrameIds /\ Mapped(hand) /\ HasMeta(frame[hand])
<1>1. freeList = <<>> /\ hand \in FrameIds
  BY Callers DEF At, ShapeInv, LockOK, LoaderInv, TypeOK
<1>2. ~Listed(hand)
  BY <1>1 DEF Listed
<1>3. Mapped(hand) => HasMeta(frame[hand])
  BY <1>1, MappedFrame, PoolSize DEF Mapped, IsMapped, FrameIds, None
<1>4. ASSUME NEW u \in Threads, Fills(u, hand) PROVE FALSE
  <2>1. Owns(u, hand) => IsReserved(frame[hand])
    BY <1>1 DEF ShapeInv, ReservedHasOwner
  <2>2. CASE pc[u] = "readFree"
    BY <1>4, <2>1, <2>2 DEF Unused, Fills, Owns, Reserving
  <2>3. CASE pc[u] = "publish"
    BY <1>4, <2>3 DEF Unused, IsPinned, Fills, ShapeInv, WorkOK
  <2> QED BY <1>4, <2>2, <2>3 DEF Fills
<1> QED BY <1>1, <1>2, <1>3, <1>4 DEF ShapeInv, FramesAccounted

-----------------------------------------------------------------------------
\* An id that new_page may still hand out belongs to no page of the pool.
LEMMA FreshId ==
  ASSUME SafeCallers, ShapeInv, NEW t \in Creators, nextPage < PageIdLimit
  PROVE  nextPage \notin Askable /\ ~IsMapped(table, nextPage)
<1>1. nextPage \in PageIds /\ nextPage \in Nat
  BY FrameConstants DEF ShapeInv, LoaderInv, TypeOK, PageIds
<1>2. nextPage \notin ForeignIds
  BY <1>1, FrameConstants DEF SafeCallers
<1>3. nextPage \notin Askable
  BY <1>1, <1>2 DEF Askable
<1> QED BY <1>1, <1>3 DEF ShapeInv, ResidentAskable

\* The error branches that would find a frame, a page or an entry otherwise than
\* the code expects are never taken: among them the two refusals of replace.
LEMMA Unreached ==
  ASSUME SafeCallers, ShapeInv, NEW t \in Threads
  PROVE  /\ ~FetchHitFails(t) /\ ~FetchFreeReserved(t) /\ ~FetchRefused(t)
         /\ ~VictimWithoutPage(t) /\ ~CommitRejected(t) /\ ~InstallRejected(t)
         /\ ~FlushNotReserved(t) /\ ~FlushClearFails(t) /\ ~DeleteUndo(t)
<1> USE DEF At
<1>1. ~FetchRefused(t) /\ ~DeleteUndo(t)
  BY DEF FetchRefused, DeleteUndo, ShapeInv, CallOK
<1>2. ~FetchHitFails(t)
  <2>1. At(t, "lookup") => loc[t].page \in PageIds
    BY DEF ShapeInv, LoaderInv, ControlOK
  <2> QED BY <2>1, MappedFrame DEF FetchHitFails
<1>3. ~FetchFreeReserved(t)
  BY FirstFree DEF FetchFreeReserved
<1>4. ~VictimWithoutPage(t)
  BY VictimMapped DEF VictimWithoutPage
<1>5. ~CommitRejected(t)
  <2>1. ASSUME At(t, "readNew") PROVE CanReplace(table, loc[t].old, loc[t].page, loc[t].frame)
    <3>1. ~IsMapped(table, loc[t].page)
      BY <2>1 DEF ShapeInv, LoaderInv, ControlOK, LoadingNotResident, Loading
    <3>2. loc[t].frame \in FrameIds /\ table[loc[t].old] = loc[t].frame
      BY <2>1 DEF ShapeInv, LoaderInv, ControlOK, HoldsFrame, WorkOK, Evicting
    <3> QED BY <3>1, <3>2, PoolSize DEF CanReplace, IsMapped, FrameIds, None
  <2> QED BY <2>1 DEF CommitRejected
<1>6. ~InstallRejected(t)
  <2>1. ASSUME At(t, "install") PROVE CanReplace(table, loc[t].old, loc[t].page, loc[t].frame)
    <3>1. loc[t].page = nextPage /\ t \in Creators
      BY <2>1 DEF ShapeInv, CallOK
    <3>2. loc[t].page < PageIdLimit
      BY <2>1 DEF ShapeInv, LoaderInv, ControlOK
    <3>3. ~IsMapped(table, loc[t].page)
      BY <3>1, <3>2, FreshId
    <3>4. loc[t].frame \in FrameIds /\ table[loc[t].old] = loc[t].frame
      BY <2>1 DEF ShapeInv, LoaderInv, ControlOK, HoldsFrame, WorkOK, Evicting
    <3> QED BY <3>3, <3>4, PoolSize DEF CanReplace, IsMapped, FrameIds, None
  <2> QED BY <2>1 DEF InstallRejected
<1>7. ~FlushNotReserved(t)
  BY DEF FlushNotReserved, ShapeInv, ReservedHasOwner, Owns, Reserving, LoaderInv, ControlOK,
         HoldsFrame
<1>8. ~FlushClearFails(t)
  <2>1. ASSUME At(t, "flushClear") PROVE HasMeta(frame[loc[t].frame])
    <3>1. /\ loc[t].page \in PageIds
          /\ loc[t].frame \in FrameIds
          /\ table[loc[t].page] = loc[t].frame
      BY <2>1 DEF ShapeInv, LoaderInv, ControlOK, HoldsFrame, WorkOK, Flushing
    <3> QED BY <3>1, MappedFrame, PoolSize DEF IsMapped, FrameIds, None
  <2> QED BY <2>1 DEF FlushClearFails
<1> QED BY <1>1, <1>2, <1>3, <1>4, <1>5, <1>6, <1>7, <1>8

-----------------------------------------------------------------------------
\* t is at work on the same frames before and after.
SameUse(t) == \A f \in FrameIds : /\ Owns(t, f)' <=> Owns(t, f)
                                  /\ Fills(t, f)' <=> Fills(t, f)

\* A step that moves t on and, at most, bytes to the disk.
Silent(t) == /\ SameUse(t)
             /\ UNCHANGED <<frame, table, freeList, nextPage, held>>
             /\ UNCHANGED store \/ WriteOld(t) \/ FlushCopy(t) \/ FlushWrite(t)

\* The steps that change frames and leave each in its place.
Marks(t) ==
  \/ FetchHit(t) \/ ClockSecondChance(t) \/ FlushClear(t) \/ FlushAll(t)
  \/ \E p \in PageIds : UnpinPage(t, p) \/ MarkDirtyPage(t, p) \/ FlushClean(t, p)

\* The steps that reserve a frame, end a reservation, or give a frame to a page.
Transfers(t) ==
  \/ FetchFromFree(t) \/ ReadFree(t) \/ PublishFree(t) \/ ReadFreeFails(t)
  \/ ClockVictim(t) \/ FetchWriteFails(t) \/ FetchReadFails(t) \/ NewWriteFails(t)
  \/ CommitEviction(t) \/ InstallNew(t) \/ NewFromFree(t)
  \/ FlushWriteFails(t) \/ FlushDone(t) \/ DeleteDone(t)
  \/ \E p \in PageIds : FlushPage(t, p) \/ DeleteClean(t, p) \/ DeleteDirty(t, p)

\* There are no other steps.
LEMMA Effects ==
  ASSUME SafeCallers, ShapeInv, NEW t \in Threads,
         Call(t) \/ Step(t) \/ SpuriousWake(t)
  PROVE  Silent(t) \/ Marks(t) \/ Transfers(t)
<1> USE DEF ShapeInv, LoaderInv, TypeOK, SameUse, Owns, Fills, Reserving, At, Locals
<1>1. ASSUME NEW p \in PageIds, CallFetch(t, p) PROVE Silent(t)
  BY <1>1 DEF Silent, CallFetch, GoTo
<1>2. CASE FetchBusy(t)
  BY <1>2 DEF Silent, FetchBusy, GoTo
<1>3. CASE FetchJoin(t)
  BY <1>3 DEF Silent, FetchJoin, GoTo
<1>4. CASE LoadCheck(t)
  <2>1. CASE loc' = loc
    BY <1>4, <2>1 DEF Silent, LoadCheck, GoTo
  <2>2. CASE loc' = [loc EXCEPT ![t].cv = None]
    BY <1>4, <2>2 DEF Silent, LoadCheck, GoTo
  <2> QED BY <1>4, <2>1, <2>2 DEF LoadCheck
<1>5. CASE NotifyLoaders(t)
  BY <1>5 DEF Silent, NotifyLoaders, WakeLoaders
<1>6. CASE FetchScan(t)
  BY <1>6 DEF Silent, FetchScan, BecomeLoader, GoTo
<1>7. CASE FetchWait(t)
  BY <1>7 DEF Silent, FetchWait, GoTo
<1>8. CASE FetchNoEvictable(t)
  BY <1>8 DEF Silent, FetchNoEvictable, Return, GoTo
<1>9. CASE NewNoEvictable(t)
  BY <1>9 DEF Silent, NewNoEvictable, Return, GoTo
<1>10. CASE ClockSkip(t)
  BY <1>10 DEF Silent, ClockSkip, PassFrame, EndRevolution, GoTo
<1>11. CASE SpuriousWake(t)
  BY <1>11 DEF Silent, SpuriousWake, GoTo
<1>12. CASE NewScan(t)
  BY <1>12 DEF Silent, NewScan, GoTo
<1>13. CASE WriteOld(t)
  BY <1>13 DEF Silent, WriteOld, AfterWrite, GoTo
<1>14. CASE FlushCopy(t)
  <2>1. CASE loc' = loc
    BY <1>14, <2>1 DEF Silent, FlushCopy, GoTo
  <2>2. CASE loc' = [loc EXCEPT ![t].old = frame[loc[t].frame].page]
    BY <1>14, <2>2 DEF Silent, FlushCopy, GoTo
  <2> QED BY <1>14, <2>1, <2>2 DEF FlushCopy
<1>15. CASE FlushWrite(t)
  BY <1>15 DEF Silent, FlushWrite, GoTo
<1> QED
  BY <1>1, <1>2, <1>3, <1>4, <1>5, <1>6, <1>7, <1>8, <1>9, <1>10, <1>11, <1>12, <1>13, <1>14,
    <1>15, Unreached
  DEF Marks, Transfers, Call, Step, FetchStep, EvictStep, FlushStep

\* Every frame keeps its place, its state and its page, and one whose pins or bits
\* change is not another thread's work.
Stays(t) ==
  /\ SameUse(t)
  /\ UNCHANGED <<table, freeList, nextPage>>
  /\ \A f \in FrameIds : /\ frame'[f] \in FrameRecord
                         /\ frame'[f].st = frame[f].st
                         /\ frame'[f].page = frame[f].page
                         /\ frame'[f] = frame[f] \/ \A u \in Threads \ {t} : ~Uses(u, f)

\* What the operations on a frame do to its state and its page.
LEMMA FrameMarks ==
  ASSUME NEW fr \in FrameRecord
  PROVE  \A r \in {Pin(fr), MarkReferenced(Pin(fr)), Unpin(fr), MarkDirty(fr), ClearDirty(fr),
                   MarkUnreferenced(fr)} :
           r \in FrameRecord /\ r.st = fr.st /\ r.page = fr.page
<1>1. \A r \in FrameRecord : /\ MarkReferenced(r) \in FrameRecord
                             /\ MarkReferenced(r).st = r.st
                             /\ MarkReferenced(r).page = r.page
  BY DEF MarkReferenced, FrameRecord
<1>2. Pin(fr) \in FrameRecord /\ Pin(fr).st = fr.st /\ Pin(fr).page = fr.page
  BY FrameConstants DEF Pin, FrameRecord
<1>3. Unpin(fr) \in FrameRecord /\ Unpin(fr).st = fr.st /\ Unpin(fr).page = fr.page
  BY FrameConstants DEF Unpin, FrameRecord
<1>4. /\ MarkDirty(fr) \in FrameRecord
      /\ MarkDirty(fr).st = fr.st
      /\ MarkDirty(fr).page = fr.page
  BY DEF MarkDirty, FrameRecord
<1>5. /\ ClearDirty(fr) \in FrameRecord
      /\ ClearDirty(fr).st = fr.st
      /\ ClearDirty(fr).page = fr.page
  BY DEF ClearDirty, FrameRecord
<1>6. /\ MarkUnreferenced(fr) \in FrameRecord
      /\ MarkUnreferenced(fr).st = fr.st
      /\ MarkUnreferenced(fr).page = fr.page
  BY DEF MarkUnreferenced, FrameRecord
<1> QED BY <1>1, <1>2, <1>3, <1>4, <1>5, <1>6

\* A frame that is neither free nor reserved is Resident.
LEMMA ResidentFrame ==
  ASSUME NEW fr \in FrameRecord, fr.st # "Free", ~IsReserved(fr)
  PROVE  fr.st = "Resident" /\ SetResident(fr) = fr
BY DEF FrameRecord, FrameStates, IsReserved, SetResident

\* Marking one frame that is not another thread's work.
LEMMA OneMark ==
  ASSUME ShapeInv, NEW t \in Threads, NEW f \in FrameIds, NEW r \in FrameRecord,
         SameUse(t), UNCHANGED <<table, freeList, nextPage>>,
         frame' = [frame EXCEPT ![f] = r],
         r.st = frame[f].st, r.page = frame[f].page,
         \A u \in Threads \ {t} : ~Uses(u, f)
  PROVE  Stays(t)
BY DEF Stays, ShapeInv, LoaderInv, TypeOK

\* Marks keep every frame in its place.
LEMMA MarksStay ==
  ASSUME ShapeInv, NEW t \in Threads, Marks(t)
  PROVE  Stays(t)
<1> USE DEF SameUse, Owns, Fills, Reserving, At
<1>1. CASE FetchHit(t)
  <2>1. loc[t].page \in PageIds
    BY <1>1 DEF FetchHit, ShapeInv, LoaderInv, ControlOK
  <2>2. SameUse(t)
    BY <1>1 DEF FetchHit, Return, GoTo, ShapeInv, LoaderInv, TypeOK
  <2> QED BY <1>1, <2>1, <2>2, MappedFrame, NobodysFrame, FrameMarks, OneMark DEF FetchHit
<1>2. CASE ClockSecondChance(t)
  <2>1. hand \in FrameIds /\ frame[hand] \in FrameRecord
    BY DEF ShapeInv, LoaderInv, TypeOK
  <2>2. SameUse(t)
    BY <1>2 DEF ClockSecondChance, PassFrame, EndRevolution, GoTo, ShapeInv, LoaderInv, TypeOK
  <2>3. \A u \in Threads : ~Uses(u, hand)
    <3>1. \A u \in Threads : ~Owns(u, hand)
      BY <1>2, <2>1 DEF ClockSecondChance, Unused, ShapeInv, ReservedHasOwner
    <3>2. \A u \in Threads : Fills(u, hand) /\ ~Owns(u, hand) => IsPinned(frame[hand])
      BY DEF ShapeInv, WorkOK, IsPinned
    <3> QED BY <1>2, <3>1, <3>2 DEF ClockSecondChance, Unused, Uses
  <2> QED BY <1>2, <2>1, <2>2, <2>3, FrameMarks, OneMark DEF ClockSecondChance
<1>3. CASE FlushClear(t)
  <2>1. loc[t].frame \in FrameIds /\ frame[loc[t].frame] \in FrameRecord
    BY <1>3 DEF FlushClear, ShapeInv, LoaderInv, TypeOK, ControlOK, HoldsFrame
  <2>2. SameUse(t)
    BY <1>3 DEF FlushClear, GoTo, ShapeInv, LoaderInv, TypeOK
  <2>3. \A u \in Threads \ {t} : ~Uses(u, loc[t].frame)
    BY <1>3, <2>1, OneUser DEF FlushClear, Uses
  <2> QED BY <1>3, <2>1, <2>2, <2>3, FrameMarks, OneMark DEF FlushClear
<1>4. CASE FlushAll(t)
  <2>1. PICK S \in SUBSET {p \in PageIds : IsMapped(table, p)} :
          /\ \A p \in S : IsOpen(frame[table[p]])
          /\ frame' = [f \in FrameIds |-> IF \E p \in S : table[p] = f
                                         THEN SetResident(ClearDirty(frame[f]))
                                         ELSE frame[f]]
    BY <1>4 DEF FlushAll
  <2>2. ASSUME NEW f \in FrameIds
        PROVE  /\ frame'[f] \in FrameRecord
               /\ frame'[f].st = frame[f].st
               /\ frame'[f].page = frame[f].page
    <3>1. CASE \E p \in S : table[p] = f
      <4>1. frame[f] \in FrameRecord /\ frame[f].st # "Free" /\ ~IsReserved(frame[f])
        BY <2>1, <3>1, MappedFrame DEF IsOpen
      <4>2. /\ ClearDirty(frame[f]) \in FrameRecord
            /\ ClearDirty(frame[f]).st = frame[f].st
            /\ ClearDirty(frame[f]).page = frame[f].page
        BY <4>1, FrameMarks
      <4>3. SetResident(ClearDirty(frame[f])) = ClearDirty(frame[f])
        BY <4>1, <4>2, ResidentFrame DEF IsReserved
      <4> QED BY <2>1, <3>1, <4>2, <4>3
    <3>2. CASE ~ \E p \in S : table[p] = f
      BY <2>1, <3>2 DEF ShapeInv, LoaderInv, TypeOK
    <3> QED BY <3>1, <3>2
  <2>3. \A u \in Threads, f \in FrameIds : ~Uses(u, f)
    BY <1>4 DEF FlushAll, Uses
  <2>4. SameUse(t) /\ UNCHANGED <<table, freeList, nextPage>>
    BY <1>4 DEF FlushAll
  <2> QED BY <2>2, <2>3, <2>4 DEF Stays
<1>5. ASSUME NEW p \in PageIds, UnpinPage(t, p) PROVE Stays(t)
  BY <1>5, MappedFrame, NobodysFrame, FrameMarks, OneMark DEF UnpinPage, IsOpen
<1>6. ASSUME NEW p \in PageIds, MarkDirtyPage(t, p) PROVE Stays(t)
  BY <1>6, MappedFrame, NobodysFrame, FrameMarks, OneMark DEF MarkDirtyPage, IsOpen
<1>7. ASSUME NEW p \in PageIds, FlushClean(t, p) PROVE Stays(t)
  <2>1. SetResident(frame[table[p]]) = frame[table[p]]
    BY <1>7, MappedFrame, ResidentFrame DEF FlushClean, IsOpen
  <2> QED BY <1>7, <2>1, MappedFrame, NobodysFrame, OneMark DEF FlushClean, IsOpen
<1> QED BY <1>1, <1>2, <1>3, <1>4, <1>5, <1>6, <1>7 DEF Marks

-----------------------------------------------------------------------------
\* After the step, f is in one place as far as t and the pool know.
Placed(t, f) ==
  /\ IsReserved(frame[f]) <=> Owns(t, f)
  /\ \/ Listed(f) /\ ~Mapped(f) /\ ~Fills(t, f) /\ frame[f].st = "Free"
     \/ ~Listed(f) /\ Mapped(f) /\ ~Fills(t, f)
     \/ ~Listed(f) /\ ~Mapped(f) /\ Fills(t, f)

\* All that the step of t changes is about frame f, which is nobody else's work.
Moves(t, f) ==
  /\ \A g \in FrameIds \ {f} : /\ frame'[g] = frame[g]
                               /\ Listed(g)' <=> Listed(g)
                               /\ Owns(t, g)' <=> Owns(t, g)
                               /\ Fills(t, g)' <=> Fills(t, g)
  /\ \A p \in PageIds : table'[p] = table[p] \/ {table[p], table'[p]} \subseteq {f, None}
  /\ \A u \in Threads \ {t} : ~Uses(u, f)
  /\ \A i, j \in DOMAIN freeList' : freeList'[i] = freeList'[j] => i = j
  /\ \A p \in PageIds : table'[p] = f => frame'[f].page = p /\ frame'[f].st # "Free"
  /\ Placed(t, f)'

\* A reservation of a mapped frame begins or ends.
LEMMA ReservationMoves ==
  ASSUME ShapeInv, NEW t \in Threads, NEW f \in FrameIds, NEW r,
         Mapped(f), \A u \in Threads \ {t} : ~Uses(u, f),
         UNCHANGED <<table, freeList>>, frame' = [frame EXCEPT ![f] = r],
         r.page = frame[f].page, r.st # "Free", IsReserved(r) <=> Owns(t, f)',
         \A g \in FrameIds \ {f} : Owns(t, g)' <=> Owns(t, g),
         \A g \in FrameIds : ~Fills(t, g) /\ ~Fills(t, g)'
  PROVE  Moves(t, f)
<1>1. frame'[f] = r /\ \A g \in FrameIds \ {f} : frame'[g] = frame[g]
  BY DEF ShapeInv, LoaderInv, TypeOK
<1>2. /\ \A g : (Listed(g)' <=> Listed(g)) /\ (Mapped(g)' <=> Mapped(g))
      /\ \A i, j \in DOMAIN freeList' : freeList'[i] = freeList'[j] => i = j
  BY DEF Listed, Mapped, ShapeInv, FramesAccounted
<1>3. \A p \in PageIds : table'[p] = f => frame'[f].page = p
  BY <1>1, MappedFrame, PoolSize DEF IsMapped, FrameIds, None
<1>4. Placed(t, f)'
  BY <1>1, <1>2 DEF Placed, ShapeInv, FramesAccounted
<1> QED BY <1>1, <1>2, <1>3, <1>4 DEF Moves

\* A victim, a flush and a deletion of a dirty page begin a reservation.
LEMMA ReservationBegins ==
  ASSUME ShapeInv, NEW t \in Threads, NEW f \in FrameIds,
         Mapped(f), ~IsReserved(frame[f]), pc[t] \notin Reserving \cup {"publish"},
         UNCHANGED <<table, freeList>>, frame' = [frame EXCEPT ![f] = Reserve(@)],
         pc'[t] \in Reserving \ {"readFree"}, loc'[t].frame = f
  PROVE  Moves(t, f)
<1>1. frame[f] \in FrameRecord
  BY DEF ShapeInv, LoaderInv, TypeOK
<1>2. /\ Reserve(frame[f]).page = frame[f].page
      /\ Reserve(frame[f]).st = "Reserved"
  BY <1>1 DEF Reserve, FrameRecord
<1>3. \A g \in FrameIds : /\ ~Owns(t, g) /\ (Owns(t, g)' <=> g = f)
                          /\ ~Fills(t, g) /\ ~Fills(t, g)'
  BY DEF Owns, Fills, Reserving
<1>4. \A u \in Threads : ~Uses(u, f)
  BY NobodysFrame
<1> QED BY <1>2, <1>3, <1>4, ReservationMoves DEF IsReserved

\* A failed eviction, a failed write and the end of a flush end one.
LEMMA ReservationOver ==
  ASSUME ShapeInv, NEW t \in Threads, NEW f, f = loc[t].frame,
         pc[t] \in Evicting \cup Flushing, pc'[t] \notin Reserving \cup {"publish"},
         UNCHANGED <<table, freeList>>,
         frame' = [frame EXCEPT ![f] = SetResident(@)]
  PROVE  Moves(t, f)
<1>1. f \in FrameIds /\ frame[f] \in FrameRecord
  BY DEF ShapeInv, LoaderInv, TypeOK, ControlOK, HoldsFrame, Evicting, Flushing
<1>2. Mapped(f)
  <2>1. CASE pc[t] \in Evicting
    BY <2>1 DEF Mapped, ShapeInv, WorkOK
  <2>2. CASE pc[t] \in Flushing
    BY <2>2 DEF Mapped, ShapeInv, WorkOK, LoaderInv, ControlOK, At, Flushing
  <2> QED BY <2>1, <2>2
<1>3. /\ SetResident(frame[f]).page = frame[f].page
      /\ SetResident(frame[f]).st = "Resident"
  BY <1>1 DEF SetResident, FrameRecord
<1>4. \A g \in FrameIds : /\ (Owns(t, g) <=> g = f) /\ ~Owns(t, g)'
                          /\ ~Fills(t, g) /\ ~Fills(t, g)'
  BY DEF Owns, Fills, Reserving, Evicting, Flushing
<1>5. \A u \in Threads \ {t} : ~Uses(u, f)
  BY <1>1, <1>4, OneUser DEF Uses
<1> QED BY <1>1, <1>2, <1>3, <1>4, <1>5, ReservationMoves DEF IsReserved

\* A frame t is at work on is in FrameIds and nobody else's.
LEMMA OwnFrame ==
  ASSUME ShapeInv, NEW t \in Threads, pc[t] \in Reserving \cup {"publish"}
  PROVE  /\ loc[t].frame \in FrameIds
         /\ frame[loc[t].frame] \in FrameRecord
         /\ loc[t].page \in PageIds
         /\ \A u \in Threads \ {t} : ~Uses(u, loc[t].frame)
<1>1. /\ loc[t].frame \in FrameIds
      /\ frame[loc[t].frame] \in FrameRecord
      /\ loc[t].page \in PageIds
  BY DEF ShapeInv, LoaderInv, TypeOK, ControlOK, HoldsFrame, Reserving, At
<1>2. Uses(t, loc[t].frame)
  BY DEF Uses, Owns, Fills
<1> QED BY <1>1, <1>2, OneUser

\* A frame that is loaded belongs to its page and is Resident.
LEMMA LoadedState ==
  ASSUME NEW fr \in FrameRecord, NEW p \in PageIds
  PROVE  \A r \in {MarkReferenced(Pin(LoadPage(fr, p))), NewFrameFor(fr, p)} :
           /\ r \in FrameRecord
           /\ r.st = "Resident" /\ r.page = p /\ r.pins = 1
           /\ r.dirty <=> r # MarkReferenced(Pin(LoadPage(fr, p)))
<1>1. /\ LoadPage(fr, p) \in FrameRecord /\ LoadPage(fr, p).st = "Resident"
      /\ LoadPage(fr, p).page = p /\ LoadPage(fr, p).pins = 0 /\ ~LoadPage(fr, p).dirty
  BY FrameConstants DEF LoadPage, FrameRecord, FrameStates
<1>2. /\ Pin(LoadPage(fr, p)) \in FrameRecord /\ Pin(LoadPage(fr, p)).st = "Resident"
      /\ Pin(LoadPage(fr, p)).page = p /\ Pin(LoadPage(fr, p)).pins = 1
      /\ ~Pin(LoadPage(fr, p)).dirty
  BY <1>1, FrameConstants DEF Pin, FrameRecord, HasMeta, PageIds, None
<1>3. \A r \in FrameRecord : /\ MarkReferenced(r).pins = r.pins
                             /\ MarkReferenced(r).st = r.st
                             /\ MarkReferenced(r).page = r.page
                             /\ MarkReferenced(r).dirty = r.dirty
                             /\ MarkReferenced(r) \in FrameRecord
                             /\ HasMeta(r) => MarkDirty(r).dirty
                             /\ MarkDirty(r).pins = r.pins
                             /\ MarkDirty(r).st = r.st
                             /\ MarkDirty(r).page = r.page
                             /\ MarkDirty(r) \in FrameRecord
  BY DEF MarkReferenced, MarkDirty, FrameRecord
<1>4. \A r \in FrameRecord : r.page = p => HasMeta(r)
  BY DEF HasMeta, PageIds, None
<1> QED BY <1>2, <1>3, <1>4 DEF NewFrameFor

\* A free frame is taken to load a page into it.
LEMMA TakeFreeMoves ==
  ASSUME ShapeInv, NEW t \in Threads, FetchFromFree(t),
         NEW f, f = Head(freeList)
  PROVE  Moves(t, f)
<1>1. /\ freeList # <<>> /\ freeList' = Tail(freeList) /\ table' = table
      /\ frame' = [frame EXCEPT ![f] = Reserve(@)]
      /\ pc[t] = "lookup" /\ pc'[t] = "readFree" /\ loc'[t].frame = f
  BY DEF FetchFromFree, BecomeLoader, At, GoTo, ShapeInv, LoaderInv, TypeOK, Locals
<1>2. /\ f \in FrameIds /\ ~Mapped(f)
      /\ \A u \in Threads : ~Uses(u, f)
  BY <1>1, FirstFree
<1>3. /\ \A g : Listed(g)' <=> g # f /\ Listed(g)
      /\ \A i, j \in DOMAIN freeList' : freeList'[i] = freeList'[j] => i = j
  BY <1>1, FirstFreeTaken
<1>4. \A g \in FrameIds : /\ ~Owns(t, g) /\ (Owns(t, g)' <=> g = f)
                          /\ ~Fills(t, g) /\ (Fills(t, g)' <=> g = f)
  BY <1>1 DEF Owns, Fills, Reserving
<1>5. /\ IsReserved(frame'[f])
      /\ \A g \in FrameIds \ {f} : frame'[g] = frame[g]
  BY <1>1, <1>2 DEF Reserve, IsReserved, ShapeInv, LoaderInv, TypeOK, FrameRecord
<1>6. ~Mapped(f)' /\ \A p \in PageIds : table'[p] # f
  BY <1>1, <1>2 DEF Mapped
<1>7. Placed(t, f)'
  BY <1>2, <1>3, <1>4, <1>5, <1>6 DEF Placed
<1> QED
  BY <1>1, <1>2, <1>3, <1>4, <1>5, <1>6, <1>7 DEF Moves

\* The page is read into the frame, which is no longer reserved.
LEMMA ReadMoves ==
  ASSUME ShapeInv, NEW t \in Threads, ReadFree(t),
         NEW f, f = loc[t].frame
  PROVE  Moves(t, f)
<1>1. /\ table' = table /\ freeList' = freeList /\ loc' = loc
      /\ frame' = [frame EXCEPT ![f] = MarkReferenced(Pin(LoadPage(@, loc[t].page)))]
      /\ pc[t] = "readFree" /\ pc'[t] = "publish"
  BY DEF ReadFree, At, GoTo, ShapeInv, LoaderInv, TypeOK
<1>2. /\ f \in FrameIds
      /\ frame'[f].st = "Resident"
      /\ \A g \in FrameIds \ {f} : frame'[g] = frame[g]
      /\ \A u \in Threads \ {t} : ~Uses(u, f)
  BY <1>1, OwnFrame, LoadedState DEF Reserving, ShapeInv, LoaderInv, TypeOK
<1>3. \A g \in FrameIds : /\ (Owns(t, g) <=> g = f) /\ ~Owns(t, g)'
                          /\ (Fills(t, g) <=> g = f) /\ (Fills(t, g)' <=> g = f)
  BY <1>1 DEF Owns, Fills, Reserving
<1>4. ~Listed(f) /\ ~Mapped(f)
  BY <1>2, <1>3 DEF ShapeInv, FramesAccounted
<1>5. \A g : (Listed(g)' <=> Listed(g)) /\ (Mapped(g)' <=> Mapped(g))
  BY <1>1 DEF Listed, Mapped
<1>6. Placed(t, f)'
  BY <1>2, <1>3, <1>4, <1>5 DEF Placed, IsReserved
<1>7. \A p \in PageIds : table'[p] # f
  BY <1>1, <1>4 DEF Mapped
<1>8. \A i, j \in DOMAIN freeList' : freeList'[i] = freeList'[j] => i = j
  BY <1>1 DEF ShapeInv, FramesAccounted
<1> QED
  BY <1>1, <1>2, <1>3, <1>5, <1>6, <1>7, <1>8 DEF Moves

\* The frame enters the table as the page's.
LEMMA PublishMoves ==
  ASSUME ShapeInv, NEW t \in Threads, PublishFree(t),
         NEW f, f = loc[t].frame, NEW p, p = loc[t].page
  PROVE  Moves(t, f)
<1>1. /\ table' = [table EXCEPT ![p] = f] /\ freeList' = freeList /\ frame' = frame
      /\ pc[t] = "publish" /\ pc'[t] = "notify"
  BY DEF PublishFree, Insert, WakeAll, At, ShapeInv, LoaderInv, TypeOK
<1>2. /\ f \in FrameIds /\ p \in PageIds
      /\ frame[f].st = "Resident" /\ frame[f].page = p
      /\ \A u \in Threads \ {t} : ~Uses(u, f)
  BY <1>1, OwnFrame DEF ShapeInv, WorkOK
<1>3. ~IsMapped(table, p)
  BY <1>1 DEF ShapeInv, LoaderInv, ControlOK, LoadingNotResident, Loading, At
<1>4. \A g \in FrameIds : /\ ~Owns(t, g) /\ ~Owns(t, g)'
                          /\ (Fills(t, g) <=> g = f) /\ ~Fills(t, g)'
  BY <1>1 DEF Owns, Fills, Reserving
<1>5. ~Listed(f) /\ ~Mapped(f)
  BY <1>2, <1>4 DEF ShapeInv, FramesAccounted
<1>6. \A q \in PageIds : table'[q] = IF q = p THEN f ELSE table[q]
  BY <1>1 DEF ShapeInv, LoaderInv, TypeOK
<1>7. \A q \in PageIds : table'[q] = f => q = p
  BY <1>5, <1>6 DEF Mapped
<1>8. Mapped(f)' /\ \A g : Listed(g)' <=> Listed(g)
  BY <1>1, <1>2, <1>6 DEF Mapped, Listed
<1>9. Placed(t, f)'
  BY <1>1, <1>2, <1>4, <1>5, <1>8 DEF Placed, IsReserved
<1>10. \A i, j \in DOMAIN freeList' : freeList'[i] = freeList'[j] => i = j
  BY <1>1 DEF ShapeInv, FramesAccounted
<1>11. \A q \in PageIds : table'[q] = table[q] \/ {table[q], table'[q]} \subseteq {f, None}
  BY <1>3, <1>6 DEF IsMapped
<1> QED
  BY <1>1, <1>2, <1>4, <1>7, <1>8, <1>9, <1>10, <1>11 DEF Moves

\* A read that fails gives the frame back.
LEMMA GiveBackMoves ==
  ASSUME ShapeInv, NEW t \in Threads, ReadFreeFails(t),
         NEW f, f = loc[t].frame
  PROVE  Moves(t, f)
<1>1. /\ table' = table /\ freeList' = Append(freeList, f)
      /\ frame' = [frame EXCEPT ![f] = SetFree(@)]
      /\ pc[t] = "readFree" /\ pc'[t] = "notify"
  BY DEF ReadFreeFails, GiveBack, WakeAll, At, ShapeInv, LoaderInv, TypeOK
<1>2. /\ f \in FrameIds
      /\ frame'[f].st = "Free"
      /\ \A g \in FrameIds \ {f} : frame'[g] = frame[g]
      /\ \A u \in Threads \ {t} : ~Uses(u, f)
  BY <1>1, OwnFrame DEF Reserving, SetFree, ShapeInv, LoaderInv, TypeOK, FrameRecord
<1>3. \A g \in FrameIds : /\ (Owns(t, g) <=> g = f) /\ ~Owns(t, g)'
                          /\ (Fills(t, g) <=> g = f) /\ ~Fills(t, g)'
  BY <1>1 DEF Owns, Fills, Reserving
<1>4. ~Listed(f) /\ ~Mapped(f)
  BY <1>2, <1>3 DEF ShapeInv, FramesAccounted
<1>5. /\ \A g : Listed(g)' <=> g = f \/ Listed(g)
      /\ \A i, j \in DOMAIN freeList' : freeList'[i] = freeList'[j] => i = j
  BY <1>1, <1>2, <1>4, FrameGivenBack
<1>6. ~Mapped(f)' /\ \A p \in PageIds : table'[p] # f
  BY <1>1, <1>4 DEF Mapped
<1>7. Placed(t, f)'
  BY <1>2, <1>3, <1>5, <1>6 DEF Placed, IsReserved
<1> QED
  BY <1>1, <1>2, <1>3, <1>5, <1>6, <1>7 DEF Moves

\* The victim's page leaves the table and the requested one enters it.
LEMMA ReplaceMoves ==
  ASSUME ShapeInv, NEW t \in Threads, pc[t] \in Evicting,
         pc'[t] \notin Reserving \cup {"publish"},
         NEW f, f = loc[t].frame, NEW p, p = loc[t].page, NEW r,
         ~IsMapped(table, p), table' = Replace(table, loc[t].old, p, f),
         freeList' = freeList, frame' = [frame EXCEPT ![f] = r],
         r.page = p, r.st = "Resident"
  PROVE  Moves(t, f)
<1>1. /\ f \in FrameIds /\ p \in PageIds
      /\ \A u \in Threads \ {t} : ~Uses(u, f)
  BY OwnFrame DEF Evicting, Reserving
<1>2. loc[t].old \in PageIds /\ table[loc[t].old] = f /\ IsMapped(table, loc[t].old)
  BY <1>1, PoolSize DEF ShapeInv, WorkOK, IsMapped, FrameIds, None
<1>3. /\ frame'[f] = r
      /\ \A g \in FrameIds \ {f} : frame'[g] = frame[g]
  BY <1>1 DEF ShapeInv, LoaderInv, TypeOK
<1>4. \A q \in PageIds : table'[q] = IF q = p THEN f ELSE IF q = loc[t].old THEN None ELSE table[q]
  BY DEF Replace, ShapeInv, LoaderInv, TypeOK
<1>5. \A q \in PageIds : table[q] = f => q = loc[t].old
  BY <1>1, <1>2, MappedFrame, PoolSize DEF IsMapped, FrameIds, None
<1>6. \A q \in PageIds : table'[q] = f => q = p
  BY <1>1, <1>4, <1>5, PoolSize DEF FrameIds, None
<1>7. \A g \in FrameIds : /\ (Owns(t, g) <=> g = f) /\ ~Owns(t, g)'
                          /\ ~Fills(t, g) /\ ~Fills(t, g)'
  BY DEF Owns, Fills, Evicting, Reserving
<1>8. ~Listed(f)
  BY <1>2, MappedFrame
<1>9. Mapped(f)' /\ \A g : Listed(g)' <=> Listed(g)
  BY <1>1, <1>4 DEF Mapped, Listed
<1>10. Placed(t, f)'
  BY <1>1, <1>3, <1>7, <1>8, <1>9 DEF Placed, IsReserved
<1>11. \A i, j \in DOMAIN freeList' : freeList'[i] = freeList'[j] => i = j
  BY DEF ShapeInv, FramesAccounted
<1>12. \A q \in PageIds : table'[q] = table[q] \/ {table[q], table'[q]} \subseteq {f, None}
  BY <1>2, <1>4 DEF IsMapped
<1> QED BY <1>1, <1>3, <1>6, <1>7, <1>9, <1>10, <1>11, <1>12 DEF Moves

\* A new page gets the first free frame.
LEMMA CreateMoves ==
  ASSUME SafeCallers, ShapeInv, NEW t \in Threads, NewFromFree(t),
         NEW f, f = Head(freeList), NEW p, p = nextPage
  PROVE  Moves(t, f)
<1>1. /\ freeList # <<>> /\ freeList' = Tail(freeList)
      /\ table' = [table EXCEPT ![p] = f]
      /\ frame' = [frame EXCEPT ![f] = NewFrameFor(@, p)]
      /\ pc[t] = "idle" /\ pc'[t] = "idle" /\ p \in PageIds /\ t \in Creators
      /\ nextPage < PageIdLimit
  BY FrameConstants DEF NewFromFree, MayIssue, Insert, At, ShapeInv, LoaderInv, TypeOK, PageIds
<1>2. /\ f \in FrameIds /\ ~Mapped(f)
      /\ \A u \in Threads : ~Uses(u, f)
  BY <1>1, FirstFree
<1>3. /\ \A g : Listed(g)' <=> g # f /\ Listed(g)
      /\ \A i, j \in DOMAIN freeList' : freeList'[i] = freeList'[j] => i = j
  BY <1>1, FirstFreeTaken
<1>4. \A g \in FrameIds : ~Owns(t, g) /\ ~Owns(t, g)' /\ ~Fills(t, g) /\ ~Fills(t, g)'
  BY <1>1 DEF Owns, Fills, Reserving
<1>5. /\ frame'[f].st = "Resident" /\ frame'[f].page = p
      /\ \A g \in FrameIds \ {f} : frame'[g] = frame[g]
  BY <1>1, <1>2, LoadedState DEF ShapeInv, LoaderInv, TypeOK
<1>6. ~IsMapped(table, p)
  BY <1>1, FreshId
<1>7. \A q \in PageIds : table'[q] = IF q = p THEN f ELSE table[q]
  BY <1>1 DEF ShapeInv, LoaderInv, TypeOK
<1>8. Mapped(f)' /\ \A q \in PageIds : table'[q] = f => q = p
  BY <1>1, <1>2, <1>7 DEF Mapped
<1>9. Placed(t, f)'
  BY <1>2, <1>3, <1>4, <1>5, <1>8 DEF Placed, IsReserved
<1>10. \A q \in PageIds : table'[q] = table[q] \/ {table[q], table'[q]} \subseteq {f, None}
  BY <1>6, <1>7 DEF IsMapped
<1> QED BY <1>2, <1>3, <1>4, <1>5, <1>8, <1>9, <1>10 DEF Moves

\* A page is deleted: its frame goes back to the free list.
LEMMA DiscardMoves ==
  ASSUME ShapeInv, NEW t \in Threads, NEW p \in PageIds, NEW f \in FrameIds, table[p] = f,
         Discard(f, p), \A u \in Threads \ {t} : ~Uses(u, f),
         \A g \in FrameIds \ {f} : ~Owns(t, g), \A g \in FrameIds : ~Fills(t, g),
         pc'[t] \notin Reserving \cup {"publish"}
  PROVE  Moves(t, f)
<1>1. ~Listed(f)
  BY MappedFrame, PoolSize DEF IsMapped, FrameIds, None
<1>2. /\ \A g : Listed(g)' <=> g = f \/ Listed(g)
      /\ \A i, j \in DOMAIN freeList' : freeList'[i] = freeList'[j] => i = j
  BY <1>1, FrameGivenBack DEF Discard, GiveBack
<1>3. \A q \in PageIds : table'[q] = IF q = p THEN None ELSE table[q]
  BY DEF Discard, Remove, ShapeInv, LoaderInv, TypeOK
<1>4. \A q \in PageIds : table[q] = f => q = p
  BY MappedFrame, PoolSize DEF IsMapped, FrameIds, None
<1>5. ~Mapped(f)' /\ \A q \in PageIds : table'[q] # f
  BY <1>3, <1>4, PoolSize DEF Mapped, FrameIds, None
<1>6. /\ frame'[f].st = "Free"
      /\ \A g \in FrameIds \ {f} : frame'[g] = frame[g]
  BY DEF Discard, Reset, NewFrame, ShapeInv, LoaderInv, TypeOK
<1>7. \A g \in FrameIds : ~Owns(t, g)' /\ ~Fills(t, g)'
  BY DEF Owns, Fills, Reserving
<1>8. Placed(t, f)'
  BY <1>2, <1>5, <1>6, <1>7 DEF Placed, IsReserved
<1>9. \A q \in PageIds : table'[q] = table[q] \/ {table[q], table'[q]} \subseteq {f, None}
  BY <1>3
<1> QED BY <1>2, <1>5, <1>6, <1>7, <1>8, <1>9 DEF Moves

\* Every transfer moves one frame, and it is nobody else's.
LEMMA TransfersMove ==
  ASSUME SafeCallers, ShapeInv, NEW t \in Threads, Transfers(t)
  PROVE  \E f \in FrameIds : Moves(t, f)
<1> USE DEF At
<1>1. CASE FetchFromFree(t)
  BY <1>1, FirstFree, TakeFreeMoves DEF FetchFromFree
<1>2. CASE ReadFree(t)
  BY <1>2, OwnFrame, ReadMoves DEF ReadFree, Reserving
<1>3. CASE PublishFree(t)
  BY <1>3, OwnFrame, PublishMoves DEF PublishFree
<1>4. CASE ReadFreeFails(t)
  BY <1>4, OwnFrame, GiveBackMoves DEF ReadFreeFails, Reserving
<1>5. CASE ClockVictim(t)
  <2>1. hand \in FrameIds /\ Mapped(hand) /\ ~IsReserved(frame[hand])
    BY <1>5, VictimMapped DEF ClockVictim, Unused
  <2>2. pc[t] = "scan" /\ pc'[t] \in {"writeOld", "readNew", "install"} /\ loc'[t].frame = hand
    BY <1>5 DEF ClockVictim, AfterWrite, GoTo, ShapeInv, LoaderInv, TypeOK, Locals
  <2>3. UNCHANGED <<table, freeList>> /\ frame' = [frame EXCEPT ![hand] = Reserve(@)]
    BY <1>5 DEF ClockVictim
  <2>4. PICK h : h = hand
    OBVIOUS
  <2>5. Moves(t, h)
    BY <2>1, <2>2, <2>3, <2>4, ReservationBegins DEF Reserving
  <2> QED BY <2>1, <2>4, <2>5
<1>6. CASE FetchWriteFails(t) \/ FetchReadFails(t)
  <2>1. /\ pc[t] \in Evicting /\ pc'[t] = "notify"
        /\ UNCHANGED <<table, freeList>>
        /\ frame' = [frame EXCEPT ![loc[t].frame] = SetResident(@)]
    BY <1>6 DEF FetchWriteFails, FetchReadFails, AbandonFetch, WakeAll, Evicting,
                ShapeInv, LoaderInv, TypeOK
  <2> QED BY <2>1, OwnFrame, ReservationOver DEF Evicting, Reserving
<1>7. CASE NewWriteFails(t)
  <2>1. /\ pc[t] \in Evicting /\ pc'[t] = "idle"
        /\ UNCHANGED <<table, freeList>>
        /\ frame' = [frame EXCEPT ![loc[t].frame] = SetResident(@)]
    BY <1>7 DEF NewWriteFails, Return, GoTo, Evicting, ShapeInv, LoaderInv, TypeOK
  <2> QED BY <2>1, OwnFrame, ReservationOver DEF Evicting, Reserving
<1>8. CASE FlushWriteFails(t) \/ FlushDone(t)
  <2>1. /\ pc[t] \in Flushing /\ pc'[t] \in {"idle", "undo"}
        /\ UNCHANGED <<table, freeList>>
        /\ frame' = [frame EXCEPT ![loc[t].frame] = SetResident(@)]
    BY <1>8 DEF FlushWriteFails, FlushDone, FlushError, Return, GoTo, Flushing,
                ShapeInv, LoaderInv, TypeOK
  <2> QED BY <2>1, OwnFrame, ReservationOver DEF Flushing, Reserving
<1>9. CASE CommitEviction(t) \/ InstallNew(t)
  <2>1. /\ pc[t] \in Evicting /\ pc'[t] \in {"idle", "notify"}
        /\ ~IsMapped(table, loc[t].page) /\ freeList' = freeList
        /\ table' = Replace(table, loc[t].old, loc[t].page, loc[t].frame)
    BY <1>9 DEF CommitEviction, InstallNew, CanReplace, WakeAll, Return, GoTo, Evicting,
                ShapeInv, LoaderInv, TypeOK
  <2>2. loc[t].frame \in FrameIds /\ frame[loc[t].frame] \in FrameRecord /\ loc[t].page \in PageIds
    BY <2>1, OwnFrame DEF Evicting, Reserving
  <2>3. PICK f \in FrameIds, p \in PageIds : f = loc[t].frame /\ p = loc[t].page
    BY <2>2
  <2>4. PICK r \in {MarkReferenced(Pin(LoadPage(frame[f], p))), NewFrameFor(frame[f], p)} :
          frame' = [frame EXCEPT ![f] = r]
    BY <1>9, <2>3 DEF CommitEviction, InstallNew
  <2>5. r.page = p /\ r.st = "Resident"
    BY <2>2, <2>3, LoadedState
  <2> QED BY <2>1, <2>3, <2>4, <2>5, ReplaceMoves DEF Reserving
<1>10. CASE NewFromFree(t)
  BY <1>10, FirstFree, CreateMoves DEF NewFromFree
<1>11. CASE DeleteDone(t)
  <2>1. /\ pc[t] \in Flushing /\ pc'[t] = "idle" /\ Discard(loc[t].frame, loc[t].page)
    BY <1>11 DEF DeleteDone, Return, GoTo, Flushing, ShapeInv, LoaderInv, TypeOK
  <2>2. PICK f \in FrameIds, p \in PageIds : f = loc[t].frame /\ p = loc[t].page
    BY <2>1, OwnFrame DEF Flushing, Reserving
  <2>3. /\ table[p] = f
        /\ \A u \in Threads \ {t} : ~Uses(u, f)
    BY <2>1, <2>2, OwnFrame DEF Flushing, Reserving, ShapeInv, WorkOK
  <2>4. /\ \A g \in FrameIds \ {f} : ~Owns(t, g)
        /\ \A g \in FrameIds : ~Fills(t, g)
    BY <2>1, <2>2 DEF Owns, Fills, Flushing
  <2> QED BY <2>1, <2>2, <2>3, <2>4, DiscardMoves DEF Reserving
<1>12. ASSUME NEW p \in PageIds, FlushPage(t, p) \/ DeleteDirty(t, p)
       PROVE  \E f \in FrameIds : Moves(t, f)
  <2>1. /\ IsMapped(table, p) /\ ~IsReserved(frame[table[p]]) /\ pc[t] = "idle"
        /\ UNCHANGED <<table, freeList>>
        /\ frame' = [frame EXCEPT ![table[p]] = Reserve(@)]
        /\ pc'[t] = "flushCopy" /\ loc'[t].frame = table[p]
    <3>1. PICK op \in {"flush", "delete"} : BeginFlush(t, p, op)
      BY <1>12 DEF FlushPage, DeleteDirty
    <3>2. loc'[t] = [NoLocals EXCEPT !.op = op, !.page = p, !.frame = table[p]]
      BY <3>1 DEF BeginFlush, ShapeInv, LoaderInv, TypeOK
    <3> QED BY <3>1, <3>2 DEF BeginFlush, MayFlush, IsOpen, GoTo, ShapeInv, LoaderInv, TypeOK,
                              NoLocals
  <2>2. PICK f \in FrameIds : f = table[p] /\ Mapped(f)
    BY <2>1, MappedFrame
  <2> QED BY <2>1, <2>2, ReservationBegins DEF Reserving
<1>13. ASSUME NEW p \in PageIds, DeleteClean(t, p)
       PROVE  \E f \in FrameIds : Moves(t, f)
  <2>1. PICK f \in FrameIds : /\ f = table[p] /\ Mapped(f) /\ ~IsReserved(frame[f])
                              /\ Discard(f, p)
    BY <1>13, MappedFrame DEF DeleteClean, Unused
  <2>2. pc[t] = "idle" /\ pc'[t] = "idle"
    BY <1>13 DEF DeleteClean
  <2>3. \A g \in FrameIds : ~Owns(t, g) /\ ~Fills(t, g)
    BY <2>2 DEF Owns, Fills, Reserving
  <2> QED BY <2>1, <2>2, <2>3, NobodysFrame, DiscardMoves DEF Reserving
<1> QED BY <1>1, <1>2, <1>3, <1>4, <1>5, <1>6, <1>7, <1>8, <1>9, <1>10, <1>11, <1>12, <1>13
        DEF Transfers

\* A step leaves all frames in their places, or moves one.
LEMMA HowFramesMove ==
  ASSUME SafeCallers, ShapeInv, NEW t \in Threads, Call(t) \/ Step(t) \/ SpuriousWake(t)
  PROVE  Stays(t) \/ \E f \in FrameIds : Moves(t, f)
<1>1. Silent(t) => Stays(t)
  BY DEF Silent, Stays, ShapeInv, LoaderInv, TypeOK
<1> QED BY <1>1, Effects, MarksStay, TransfersMove

-----------------------------------------------------------------------------
\* What follows for the pool as a whole.

\* The other threads stay where they are at work, on the frames they work on.
LEMMA OthersUse ==
  ASSUME ShapeInv, NEW t \in Threads, Call(t) \/ Step(t) \/ SpuriousWake(t),
         NEW u \in Threads \ {t}
  PROVE  /\ loc'[u] = loc[u]
         /\ Loading(u)' <=> Loading(u)
         /\ \A f : (Owns(u, f)' <=> Owns(u, f)) /\ (Fills(u, f)' <=> Fills(u, f))
         /\ \A l \in Locations \ {"cvWait", "lookup", "loadSleep", "loadCheck"} :
              pc'[u] = l <=> pc[u] = l
<1>1. TypeOK
  BY DEF ShapeInv, LoaderInv
<1>2. /\ loc'[u] = loc[u]
      /\ \/ pc'[u] = pc[u]
         \/ pc[u] = "cvWait" /\ pc'[u] = "lookup"
         \/ pc[u] = "loadSleep" /\ pc'[u] = "loadCheck"
  BY <1>1, OthersKeep
<1> QED BY <1>2 DEF Owns, Fills, Loading, Reserving, At

\* Frames in their places, or one frame moved: every frame is accounted for.
LEMMA FramesStep ==
  ASSUME ShapeInv, NEW t \in Threads, Call(t) \/ Step(t) \/ SpuriousWake(t),
         Stays(t) \/ \E f \in FrameIds : Moves(t, f)
  PROVE  MappingExact' /\ FramesAccounted' /\ ReservedHasOwner'
<1>1. \A u \in Threads \ {t}, f \in FrameIds : /\ Owns(u, f)' <=> Owns(u, f)
                                               /\ Fills(u, f)' <=> Fills(u, f)
  BY OthersUse
<1>2. CASE Stays(t)
  <2>1. \A u \in Threads, f \in FrameIds : /\ Owns(u, f)' <=> Owns(u, f)
                                           /\ Fills(u, f)' <=> Fills(u, f)
    BY <1>1, <1>2 DEF Stays, SameUse
  <2>2. \A f : (Listed(f)' <=> Listed(f)) /\ (Mapped(f)' <=> Mapped(f))
    BY <1>2 DEF Stays, Listed, Mapped
  <2>3. MappingExact'
    BY <1>2, MappedFrame DEF Stays, MappingExact, IsMapped
  <2>4. FramesAccounted'
    BY <1>2, <2>1, <2>2 DEF Stays, ShapeInv, FramesAccounted
  <2>5. ReservedHasOwner'
    BY <1>2, <2>1 DEF Stays, ShapeInv, ReservedHasOwner, IsReserved
  <2> QED BY <2>3, <2>4, <2>5
<1>3. ASSUME NEW f \in FrameIds, Moves(t, f)
      PROVE  MappingExact' /\ FramesAccounted' /\ ReservedHasOwner'
  <2>1. \A g \in FrameIds \ {f} : /\ frame'[g] = frame[g]
                                  /\ Listed(g)' <=> Listed(g)
    BY <1>3 DEF Moves
  <2>2. \A g \in FrameIds \ {f}, p \in PageIds : table'[p] = g <=> table[p] = g
    <3>1. \A g \in FrameIds : g # None
      BY PoolSize DEF FrameIds, None
    <3> QED BY <1>3, <3>1 DEF Moves
  <2>3. \A g \in FrameIds \ {f} : Mapped(g)' <=> Mapped(g)
    BY <2>2 DEF Mapped
  <2>4. \A g \in FrameIds \ {f}, u \in Threads : /\ Owns(u, g)' <=> Owns(u, g)
                                                 /\ Fills(u, g)' <=> Fills(u, g)
    BY <1>1, <1>3 DEF Moves
  <2>5. \A u \in Threads \ {t} : ~Owns(u, f)' /\ ~Fills(u, f)'
    BY <1>1, <1>3 DEF Moves, Uses
  <2>6. Placed(t, f)'
    BY <1>3 DEF Moves
  <2>7. MappingExact'
    <3>1. \A p \in PageIds : IsMapped(table, p)' => table'[p] = f \/ table'[p] = table[p]
      BY <1>3 DEF Moves, IsMapped
    <3>2. ASSUME NEW p \in PageIds, IsMapped(table, p)', table'[p] # f
          PROVE  frame'[table'[p]].page = p /\ frame'[table'[p]].st # "Free"
      BY <2>1, <3>1, <3>2, MappedFrame DEF IsMapped
    <3> QED BY <1>3, <3>2 DEF Moves, MappingExact
  <2>8. FramesAccounted'
    <3>1. \A i, j \in DOMAIN freeList' : freeList'[i] = freeList'[j] => i = j
      BY <1>3 DEF Moves
    <3>2. ASSUME NEW g \in FrameIds
          PROVE  /\ Listed(g)' \/ Mapped(g)' \/ \E u \in Threads : Fills(u, g)'
                 /\ Listed(g)' => ~Mapped(g)' /\ frame'[g].st = "Free"
                 /\ \A u \in Threads : Fills(u, g)' => ~Listed(g)' /\ ~Mapped(g)'
                 /\ \A s, u \in Threads : Fills(s, g)' /\ Fills(u, g)' => s = u
      <4>1. CASE g = f
        BY <2>5, <2>6, <4>1 DEF Placed
      <4>2. CASE g # f
        <5>1. /\ Listed(g) \/ Mapped(g) \/ \E u \in Threads : Fills(u, g)
              /\ Listed(g) => ~Mapped(g) /\ frame[g].st = "Free"
              /\ \A u \in Threads : Fills(u, g) => ~Listed(g) /\ ~Mapped(g)
              /\ \A s, u \in Threads : Fills(s, g) /\ Fills(u, g) => s = u
          BY DEF ShapeInv, FramesAccounted
        <5> QED BY <2>1, <2>3, <2>4, <4>2, <5>1
      <4> QED BY <4>1, <4>2
    <3> QED BY <3>1, <3>2 DEF FramesAccounted
  <2>9. ReservedHasOwner'
    <3>1. \A g \in FrameIds \ {f} : IsReserved(frame[g])' <=> \E u \in Threads : Owns(u, g)'
      BY <2>1, <2>4 DEF ShapeInv, ReservedHasOwner, IsReserved
    <3>2. IsReserved(frame[f])' <=> \E u \in Threads : Owns(u, f)'
      BY <2>5, <2>6 DEF Placed
    <3>3. \A g \in FrameIds : \A s, u \in Threads : Owns(s, g)' /\ Owns(u, g)' => s = u
      BY <2>4, <2>5 DEF ShapeInv, ReservedHasOwner
    <3> QED BY <3>1, <3>2, <3>3 DEF ReservedHasOwner
  <2> QED BY <2>7, <2>8, <2>9
<1> QED BY <1>2, <1>3

\* The work of the other threads goes on undisturbed.
LEMMA OthersWork ==
  ASSUME ShapeInv, NEW t \in Threads, Call(t) \/ Step(t) \/ SpuriousWake(t),
         Stays(t) \/ \E f \in FrameIds : Moves(t, f),
         NEW u \in Threads \ {t}
  PROVE  WorkOK(u)'
<1>1. SUFFICES ASSUME pc[u] \in Reserving \cup {"publish"}, pc'[u] = pc[u], loc'[u] = loc[u]
               PROVE  WorkOK(u)'
  BY OthersUse DEF WorkOK, Reserving, Evicting, Flushing, Locations
<1>2. PICK g \in FrameIds : g = loc[u].frame /\ Uses(u, g) /\ g # None
  BY <1>1, OwnFrame, PoolSize DEF Uses, Owns, Fills, FrameIds, None
<1>3. /\ frame'[g] = frame[g]
      /\ \A p \in PageIds : table[p] = g => table'[p] = g
  BY <1>2 DEF Stays, Moves
<1>4. WorkOK(u) /\ loc[u].page \in PageIds
  BY <1>1, OwnFrame DEF ShapeInv
<1> QED BY <1>1, <1>2, <1>3, <1>4 DEF WorkOK

\* Pages enter the table by the thread that loads them, which is then done, or with
\* the next page id, which is then used up.
PagesEnter(t) ==
  /\ \/ nextPage' = nextPage
     \/ /\ t \in Creators /\ nextPage < PageIdLimit
        /\ nextPage' = nextPage + 1 /\ At(t, "idle")'
  /\ \A p \in PageIds : IsMapped(table, p)' /\ ~IsMapped(table, p) =>
       \/ p = loc[t].page /\ Loading(t) /\ ~Loading(t)'
       \/ p = nextPage /\ t \in Creators /\ nextPage' = nextPage + 1

\* There is no other way for a page to enter the table.
LEMMA PagesStep ==
  ASSUME SafeCallers, ShapeInv, NEW t \in Threads, Silent(t) \/ Marks(t) \/ Transfers(t)
  PROVE  PagesEnter(t)
<1> USE DEF PagesEnter, At
<1>1. CASE Silent(t)
  BY <1>1 DEF Silent, IsMapped
<1>2. CASE Marks(t)
  BY <1>2, MarksStay DEF Stays, IsMapped
<1>3. CASE FetchFromFree(t) \/ ReadFree(t) \/ ReadFreeFails(t) \/ ClockVictim(t)
           \/ FetchWriteFails(t) \/ FetchReadFails(t) \/ NewWriteFails(t)
           \/ FlushWriteFails(t) \/ FlushDone(t)
  BY <1>3 DEF FetchFromFree, ReadFree, ReadFreeFails, ClockVictim, FetchWriteFails,
              FetchReadFails, AbandonFetch, NewWriteFails, FlushWriteFails, FlushDone, IsMapped
<1>4. CASE PublishFree(t)
  <2>1. Loading(t) /\ ~Loading(t)'
    BY <1>4 DEF PublishFree, WakeAll, Loading, ShapeInv, LoaderInv, TypeOK, ControlOK
  <2> QED BY <1>4, <2>1 DEF PublishFree, Insert, IsMapped, ShapeInv, LoaderInv, TypeOK
<1>5. CASE CommitEviction(t)
  <2>1. Loading(t) /\ ~Loading(t)'
    BY <1>5 DEF CommitEviction, WakeAll, Loading, ShapeInv, LoaderInv, TypeOK, ControlOK
  <2> QED BY <1>5, <2>1 DEF CommitEviction, Replace, IsMapped, ShapeInv, LoaderInv, TypeOK
<1>6. CASE InstallNew(t)
  <2>1. t \in Creators /\ loc[t].page = nextPage /\ nextPage < PageIdLimit
    BY <1>6 DEF InstallNew, ShapeInv, LoaderInv, ControlOK, CallOK
  <2>2. pc'[t] = "idle" /\ nextPage' = nextPage + 1
    BY <1>6, <2>1 DEF InstallNew, IssueId, Return, GoTo, ShapeInv, LoaderInv, TypeOK
  <2> QED BY <1>6, <2>1, <2>2 DEF InstallNew, Replace, IsMapped, ShapeInv, LoaderInv, TypeOK
<1>7. CASE NewFromFree(t)
  BY <1>7 DEF NewFromFree, MayIssue, IssueId, Insert, IsMapped, ShapeInv, LoaderInv, TypeOK
<1>8. CASE DeleteDone(t)
  BY <1>8 DEF DeleteDone, Discard, Remove, IsMapped, ShapeInv, LoaderInv, TypeOK
<1>9. ASSUME NEW p \in PageIds, FlushPage(t, p) \/ DeleteClean(t, p) \/ DeleteDirty(t, p)
      PROVE  PagesEnter(t)
  BY <1>9 DEF FlushPage, DeleteClean, DeleteDirty, BeginFlush, Discard, Remove, IsMapped,
              ShapeInv, LoaderInv, TypeOK
<1> QED BY <1>1, <1>2, <1>3, <1>4, <1>5, <1>6, <1>7, <1>8, <1>9 DEF Transfers

\* So a page being loaded is not resident, and callers can ask for every page that is.
LEMMA IdsStep ==
  ASSUME SafeCallers, ShapeInv, NEW t \in Threads, Call(t) \/ Step(t) \/ SpuriousWake(t),
         PagesEnter(t)
  PROVE  /\ LoadingNotResident'
         /\ \A p \in PageIds : IsMapped(table, p)' => p \in Askable'
         /\ Askable \subseteq Askable'
         /\ \A u \in Threads \ {t} : loc'[u].op = "new" => loc'[u].page = nextPage'
<1>1. nextPage \in Nat /\ (nextPage' = nextPage \/ nextPage' = nextPage + 1)
  BY FrameConstants DEF PagesEnter, ShapeInv, LoaderInv, TypeOK, PageIds
<1>2. Askable \subseteq Askable' /\ (nextPage' = nextPage + 1 => nextPage \in Askable')
  BY <1>1 DEF Askable
<1>3. ASSUME NEW u \in Threads, Loading(u)
      PROVE  loc[u].page \in PageIds \cap Askable /\ ~IsMapped(table, loc[u].page)
  <2>1. loc[u].op = "fetch" /\ ~At(u, "idle")
    BY <1>3 DEF ShapeInv, CallOK, Loading, LoaderInv, ControlOK, NoLocals
  <2> QED BY <1>3, <2>1 DEF ShapeInv, CallOK, LoaderInv, ControlOK, LoadingNotResident
<1>4. ASSUME NEW u \in Threads \ {t}, Loading(u)' PROVE ~IsMapped(table, loc[u].page)'
  <2>1. Loading(u) /\ loc'[u].page = loc[u].page
    BY <1>4, OthersUse
  <2>2. loc[u].page # loc[t].page \/ ~Loading(t)
    BY <2>1 DEF ShapeInv, LoaderInv, UniqueLoader
  <2>3. t \in Creators /\ nextPage < PageIdLimit => loc[u].page # nextPage
    BY <1>3, <2>1, FreshId
  <2> QED BY <1>1, <1>3, <2>1, <2>2, <2>3 DEF PagesEnter
<1>5. ASSUME Loading(t)' PROVE ~IsMapped(table, loc[t].page)'
  <2>1. CASE Keeps(t)
    <3>1. Loading(t) /\ loc'[t].page = loc[t].page
      BY <1>5, <2>1 DEF Keeps
    <3>2. t \in Creators /\ nextPage < PageIdLimit => loc[t].page # nextPage
      BY <1>3, <3>1, FreshId
    <3> QED BY <1>1, <1>3, <1>5, <3>1, <3>2 DEF PagesEnter
  <2>2. CASE Inserts(t)
    BY <2>2 DEF Inserts, IsMapped
  <2>3. Keeps(t) \/ Inserts(t)
    BY <1>5, EntriesStep DEF Removes, ShapeInv, LoaderInv
  <2> QED BY <2>1, <2>2, <2>3
<1>6. LoadingNotResident'
  BY <1>4, <1>5 DEF LoadingNotResident
<1>7. ASSUME NEW p \in PageIds, IsMapped(table, p)' PROVE p \in Askable'
  <2>1. CASE IsMapped(table, p)
    BY <1>2, <2>1 DEF ShapeInv, ResidentAskable
  <2>2. CASE ~IsMapped(table, p)
    BY <1>2, <1>3, <1>7, <2>2 DEF PagesEnter
  <2> QED BY <2>1, <2>2
<1>8. ASSUME NEW u \in Threads \ {t}, loc'[u].op = "new" PROVE loc'[u].page = nextPage'
  <2>1. loc'[u] = loc[u] /\ u \in Creators /\ loc[u].page = nextPage
    BY <1>8, OthersUse DEF ShapeInv, CallOK
  <2>2. t \notin Creators
    BY <2>1 DEF SafeCallers
  <2> QED BY <2>1, <2>2 DEF PagesEnter
<1> QED BY <1>2, <1>6, <1>7, <1>8

-----------------------------------------------------------------------------
\* What follows for the thread that moves.

\* state_lock is taken by a thread that finds no free frame, kept for its scan, and
\* given up after it; the free list changes under it only.
LockStep(t) ==
  /\ pc'[t] \in {"scan", "noVictim"} <=> stateLock' = t
  /\ \A u \in Threads \ {t} : stateLock' = u <=> stateLock = u
  /\ stateLock' # NoThread => freeList' = <<>>

\* The steps after which t has work in hand.
Works(t) ==
  \/ ReadFree(t) \/ ClockVictim(t) \/ WriteOld(t)
  \/ FlushCopy(t) \/ FlushWrite(t) \/ FlushClear(t)
  \/ \E p \in PageIds : FlushPage(t, p) \/ DeleteDirty(t, p)

WorkStep(t) == pc'[t] \in {"publish"} \cup Evicting \cup Flushing => Works(t)

\* A call that is to get a pin began with one to spare, and has the pin when it notifies.
PinCall(t) ==
  loc'[t].op \in {"fetch", "new"} =>
    \/ At(t, "notify")'
    \/ /\ held' = held
       /\ \/ MayPin(t)
          \/ loc[t].op \in {"fetch", "new"} /\ ~At(t, "notify")

CallStep(t) == CallOK(t)' /\ LockStep(t) /\ WorkStep(t) /\ PinCall(t)

\* A call keeps its kind and its page until it returns.
LEMMA OwnCall ==
  ASSUME SafeCallers, ShapeInv, NEW t \in Threads,
         Call(t) \/ Step(t) \/ SpuriousWake(t)
  PROVE  CallStep(t)
<1>a. TypeOK /\ CallOK(t)
  BY DEF ShapeInv, LoaderInv
<1>b. /\ At(t, "idle") => loc[t] = NoLocals
      /\ pc[t] \in {"readFree", "readNew"} => loc[t].loader
  BY DEF ShapeInv, LoaderInv, ControlOK
<1>c. /\ pc[t] \in {"scan", "noVictim"} <=> stateLock = t
      /\ stateLock # NoThread => freeList = <<>>
      /\ NoThread \notin Threads
  BY Callers DEF ShapeInv, LockOK
<1> USE <1>a, <1>b, <1>c
     DEF TypeOK, CallStep, CallOK, LockStep, WorkStep, PinCall, At, FetchOnly, Evicting,
         Flushing, Askable, LockFree, Locals
<1>1. ASSUME NEW p \in PageIds, CallFetch(t, p) PROVE CallStep(t)
  BY <1>1 DEF CallFetch, GoTo, NoLocals
<1>2. CASE FetchHit(t)
  BY <1>2 DEF FetchHit, Return, GoTo, NoLocals
<1>3. CASE FetchBusy(t)
  BY <1>3 DEF FetchBusy, GoTo, NoLocals
<1>4. CASE FetchJoin(t)
  BY <1>4 DEF FetchJoin, GoTo, NoLocals
<1>5. CASE LoadCheck(t)
  <2>1. CASE loc' = loc
    BY <1>5, <2>1 DEF LoadCheck, GoTo
  <2>2. CASE loc' = [loc EXCEPT ![t].cv = None]
    BY <1>5, <2>2 DEF LoadCheck, GoTo
  <2> QED BY <1>5, <2>1, <2>2 DEF LoadCheck
<1>6. CASE FetchFromFree(t)
  BY <1>6 DEF FetchFromFree, BecomeLoader, GoTo, NoLocals
<1>7. CASE ReadFree(t)
  BY <1>7 DEF ReadFree, Works, GoTo, NoLocals
<1>8. CASE PublishFree(t)
  BY <1>8 DEF PublishFree, WakeAll, NoLocals
<1>9. CASE ReadFreeFails(t)
  BY <1>9 DEF ReadFreeFails, WakeAll, NoLocals
<1>10. CASE NotifyLoaders(t)
  BY <1>10 DEF NotifyLoaders, WakeLoaders, NoLocals
<1>11. CASE FetchScan(t)
  BY <1>11 DEF FetchScan, BecomeLoader, GoTo, NoLocals
<1>12. CASE FetchWait(t)
  BY <1>12 DEF FetchWait, GoTo, NoLocals
<1>13. CASE FetchNoEvictable(t)
  BY <1>13 DEF FetchNoEvictable, Return, GoTo, NoLocals
<1>14. CASE FetchWriteFails(t)
  BY <1>14 DEF FetchWriteFails, AbandonFetch, WakeAll, NoLocals
<1>15. CASE FetchReadFails(t)
  BY <1>15 DEF FetchReadFails, AbandonFetch, WakeAll, NoLocals
<1>16. CASE CommitEviction(t)
  BY <1>16 DEF CommitEviction, WakeAll, NoLocals
<1>17. CASE ClockSkip(t)
  BY <1>17 DEF ClockSkip, PassFrame, EndRevolution, GoTo, NoLocals
<1>18. CASE ClockSecondChance(t)
  BY <1>18 DEF ClockSecondChance, PassFrame, EndRevolution, GoTo, NoLocals
<1>19. CASE ClockVictim(t)
  BY <1>19 DEF ClockVictim, Works, AfterWrite, GoTo, NoLocals
<1>20. CASE WriteOld(t)
  BY <1>20 DEF WriteOld, Works, AfterWrite, GoTo, NoLocals
<1>21. CASE NewNoEvictable(t)
  BY <1>21 DEF NewNoEvictable, Return, GoTo, NoLocals
<1>22. CASE NewWriteFails(t)
  BY <1>22 DEF NewWriteFails, Return, GoTo, NoLocals
<1>23. CASE InstallNew(t)
  BY <1>23 DEF InstallNew, Return, GoTo, NoLocals
<1>24. CASE FlushCopy(t)
  <2>1. CASE loc' = loc
    BY <1>24, <2>1 DEF FlushCopy, GoTo, Works
  <2>2. CASE loc' = [loc EXCEPT ![t].old = frame[loc[t].frame].page]
    BY <1>24, <2>2 DEF FlushCopy, GoTo, Works
  <2> QED BY <1>24, <2>1, <2>2 DEF FlushCopy
<1>25. CASE FlushWrite(t)
  BY <1>25 DEF FlushWrite, Works, GoTo, NoLocals
<1>26. CASE FlushWriteFails(t)
  BY <1>26 DEF FlushWriteFails, SafeCallers, FlushError, GoTo, Return, NoLocals
<1>27. CASE FlushClear(t)
  BY <1>27 DEF FlushClear, Works, GoTo, NoLocals
<1>28. CASE FlushDone(t)
  BY <1>28 DEF FlushDone, Return, GoTo, NoLocals
<1>29. CASE DeleteDone(t)
  BY <1>29 DEF DeleteDone, Return, GoTo, NoLocals
<1>30. ASSUME NEW p \in PageIds, UnpinPage(t, p) PROVE CallStep(t)
  BY <1>30 DEF UnpinPage, NoLocals
<1>31. ASSUME NEW p \in PageIds, MarkDirtyPage(t, p) PROVE CallStep(t)
  BY <1>31 DEF MarkDirtyPage, NoLocals
<1>32. ASSUME NEW p \in PageIds, FlushPage(t, p) PROVE CallStep(t)
  <2>1. p \in Askable
    BY <1>32, MappedFrame DEF FlushPage, BeginFlush
  <2> QED BY <1>32, <2>1 DEF FlushPage, Works, BeginFlush, GoTo, NoLocals
<1>33. ASSUME NEW p \in PageIds, DeleteClean(t, p) PROVE CallStep(t)
  BY <1>33 DEF DeleteClean, NoLocals
<1>34. ASSUME NEW p \in PageIds, DeleteDirty(t, p) PROVE CallStep(t)
  <2>1. p \in Askable
    BY <1>34, MappedFrame DEF DeleteDirty, BeginFlush
  <2> QED BY <1>34, <2>1 DEF DeleteDirty, Works, BeginFlush, GoTo, NoLocals
<1>35. CASE FlushAll(t)
  BY <1>35 DEF FlushAll, NoLocals
<1>36. CASE NewFromFree(t)
  BY <1>36 DEF NewFromFree, NoLocals
<1>37. CASE NewScan(t)
  BY <1>37 DEF NewScan, GoTo, NoLocals
<1>38. CASE SpuriousWake(t)
  BY <1>38 DEF SpuriousWake, GoTo, NoLocals
<1>39. ASSUME NEW p \in PageIds, FlushClean(t, p) PROVE CallStep(t)
  BY <1>39 DEF FlushClean, NoLocals
<1> QED BY <1>1, <1>2, <1>3, <1>4, <1>5, <1>6, <1>7, <1>8, <1>9, <1>10, <1>11, <1>12, <1>13,
  <1>14, <1>15, <1>16, <1>17, <1>18, <1>19, <1>20, <1>21, <1>22, <1>23, <1>24, <1>25, <1>26,
  <1>27, <1>28, <1>29, <1>30, <1>31, <1>32, <1>33, <1>34, <1>35, <1>36, <1>37, <1>38, <1>39,
  Unreached DEF Call, Step, FetchStep, EvictStep, FlushStep

\* What t knows of its frame after a step that leaves it with work in hand.
LEMMA OwnWork ==
  ASSUME SafeCallers, ShapeInv, NEW t \in Threads, Works(t)
  PROVE  WorkOK(t)'
<1>a. TypeOK /\ WorkOK(t) /\ CallOK(t)
  BY DEF ShapeInv, LoaderInv
<1> USE DEF At
<1>1. CASE ReadFree(t)
  <2>1. /\ loc' = loc /\ pc'[t] = "publish"
        /\ frame' = [frame EXCEPT ![loc[t].frame] = MarkReferenced(Pin(LoadPage(@, loc[t].page)))]
    BY <1>a, <1>1 DEF ReadFree, GoTo, TypeOK
  <2>2. loc[t].frame \in FrameIds /\ frame[loc[t].frame] \in FrameRecord /\ loc[t].page \in PageIds
    BY <1>1, OwnFrame DEF ReadFree, Reserving
  <2>3. frame'[loc'[t].frame] = MarkReferenced(Pin(LoadPage(frame[loc[t].frame], loc[t].page)))
    BY <1>a, <2>1, <2>2 DEF TypeOK
  <2> QED BY <2>1, <2>2, <2>3, LoadedState DEF WorkOK, Evicting, Flushing
<1>2. CASE ClockVictim(t)
  <2>1. /\ hand \in FrameIds /\ Mapped(hand) /\ frame[hand] \in FrameRecord
        /\ frame[hand].pins = 0
    BY <1>a, <1>2, VictimMapped DEF ClockVictim, Unused, IsPinned, TypeOK, FrameRecord
  <2>2. frame[hand].page \in PageIds /\ table[frame[hand].page] = hand
    BY <2>1, MappedFrame, PoolSize DEF Mapped, IsMapped, FrameIds, None
  <2>3. /\ pc'[t] \in Evicting /\ loc'[t].frame = hand /\ loc'[t].old = frame[hand].page
        /\ table' = table /\ frame' = [frame EXCEPT ![hand] = Reserve(@)]
    BY <1>a, <1>2 DEF ClockVictim, AfterWrite, GoTo, TypeOK, Locals, Evicting
  <2>4. frame'[hand].pins = 0
    BY <1>a, <2>1, <2>3 DEF Reserve, TypeOK, FrameRecord
  <2> QED BY <2>2, <2>3, <2>4 DEF WorkOK, Evicting, Flushing
<1>3. CASE WriteOld(t)
  BY <1>a, <1>3 DEF WriteOld, AfterWrite, GoTo, TypeOK, WorkOK, Evicting, Flushing
<1>4. CASE FlushCopy(t)
  <2>1. table[loc[t].page] = loc[t].frame /\ loc[t].page \in PageIds /\ loc[t].frame \in FrameIds
    BY <1>a, <1>4, OwnFrame DEF FlushCopy, WorkOK, Flushing, Reserving
  <2>2. frame[loc[t].frame].page = loc[t].page
    BY <2>1, MappedFrame, PoolSize DEF IsMapped, FrameIds, None
  <2>3. CASE loc' = loc /\ pc'[t] = "flushed"
    BY <1>a, <1>4, <2>3 DEF FlushCopy, WorkOK, Evicting, Flushing
  <2>4. CASE loc' = [loc EXCEPT ![t].old = frame[loc[t].frame].page] /\ pc'[t] = "flushWrite"
    BY <1>a, <1>4, <2>2, <2>4 DEF FlushCopy, WorkOK, Evicting, Flushing, TypeOK, Locals
  <2> QED BY <1>a, <1>4, <2>3, <2>4 DEF FlushCopy, GoTo, TypeOK
<1>5. CASE FlushWrite(t)
  BY <1>a, <1>5 DEF FlushWrite, GoTo, TypeOK, WorkOK, Evicting, Flushing
<1>6. CASE FlushClear(t)
  <2>1. loc[t].frame \in FrameIds /\ frame[loc[t].frame] \in FrameRecord
    BY <1>6, OwnFrame DEF FlushClear, Reserving
  <2>2. frame'[loc[t].frame].pins = frame[loc[t].frame].pins
    BY <1>a, <1>6, <2>1 DEF FlushClear, ClearDirty, TypeOK, FrameRecord
  <2> QED BY <1>a, <1>6, <2>2 DEF FlushClear, GoTo, TypeOK, WorkOK, Evicting, Flushing
<1>7. ASSUME NEW p \in PageIds, FlushPage(t, p) \/ DeleteDirty(t, p)
      PROVE  WorkOK(t)'
  <2>1. PICK op \in {"flush", "delete"} :
          /\ BeginFlush(t, p, op)
          /\ op = "delete" => Unused(frame[table[p]])
    BY <1>7 DEF FlushPage, DeleteDirty
  <2>2. /\ loc'[t].op = op /\ loc'[t].page = p /\ loc'[t].frame = table[p]
        /\ pc'[t] = "flushCopy" /\ table' = table
        /\ frame' = [frame EXCEPT ![table[p]] = Reserve(@)]
    BY <1>a, <2>1 DEF BeginFlush, GoTo, TypeOK, NoLocals
  <2>3. table[p] \in FrameIds /\ frame[table[p]] \in FrameRecord
    BY <2>1, MappedFrame DEF BeginFlush
  <2>4. op = "delete" => frame'[table[p]].pins = 0
    BY <1>a, <2>1, <2>2, <2>3 DEF Reserve, Unused, IsPinned, TypeOK, FrameRecord
  <2> QED BY <2>2, <2>4 DEF WorkOK, Evicting, Flushing
<1> QED BY <1>1, <1>2, <1>3, <1>4, <1>5, <1>6, <1>7 DEF Works

-----------------------------------------------------------------------------
\* The invariant holds of a new pool.
LEMMA ShapeInit == Init => ShapeInv
<1> SUFFICES ASSUME Init PROVE ShapeInv
  OBVIOUS
<1>1. LoaderInv
  BY LoaderInit
<1>2. \A t \in Threads : CallOK(t) /\ WorkOK(t)
  BY DEF Init, CallOK, WorkOK, NoLocals, FetchOnly, Evicting, Flushing
<1>3. LockOK
  BY Callers DEF Init, LockOK
<1>4. /\ DOMAIN freeList = 1 .. NumFrames
      /\ \A i \in 1 .. NumFrames : freeList[i] = i - 1
      /\ \A f \in FrameIds : f + 1 \in 1 .. NumFrames /\ f = (f + 1) - 1
      /\ \A i, j \in 1 .. NumFrames : i - 1 = j - 1 => i = j
  BY PoolSize DEF Init, FrameIds
<1>5. \A f \in FrameIds : Listed(f)
  BY <1>4 DEF Listed
<1>6. \A p \in PageIds : table[p] = None
  BY DEF Init, EmptyTable
<1>7. \A f \in FrameIds : ~Mapped(f) /\ frame[f].st = "Free"
  BY <1>6, PoolSize DEF Init, NewFrame, Mapped, FrameIds, None
<1>8. \A t \in Threads, f \in FrameIds : ~Owns(t, f) /\ ~Fills(t, f)
  BY DEF Init, Owns, Fills, Reserving
<1>9. FramesAccounted
  BY <1>4, <1>5, <1>7, <1>8 DEF FramesAccounted
<1>10. ReservedHasOwner
  BY <1>7, <1>8 DEF ReservedHasOwner, IsReserved
<1>11. MappingExact /\ LoadingNotResident /\ ResidentAskable
  BY <1>6 DEF Init, MappingExact, IsMapped, LoadingNotResident, Loading, ResidentAskable, NoLocals
<1> QED BY <1>1, <1>2, <1>3, <1>9, <1>10, <1>11 DEF ShapeInv

\* A step of a thread: how it moved frames, and what it knows after it.
LEMMA ShapeStep ==
  ASSUME SafeCallers, ShapeInv, NEW t \in Threads, Call(t) \/ Step(t) \/ SpuriousWake(t)
  PROVE  ShapeInv'
<1>1. Silent(t) \/ Marks(t) \/ Transfers(t)
  BY Effects
<1>2. Stays(t) \/ \E f \in FrameIds : Moves(t, f)
  BY HowFramesMove
<1>3. LoaderInv'
  BY LoaderNext DEF ShapeInv, Next
<1>4. CallOK(t)' /\ LockStep(t) /\ WorkStep(t) /\ PinCall(t)
  BY OwnCall DEF CallStep
<1>5. /\ LoadingNotResident'
      /\ \A p \in PageIds : IsMapped(table, p)' => p \in Askable'
      /\ Askable \subseteq Askable'
      /\ \A u \in Threads \ {t} : loc'[u].op = "new" => loc'[u].page = nextPage'
  BY <1>1, PagesStep, IdsStep
<1>6. MappingExact' /\ FramesAccounted' /\ ReservedHasOwner'
  BY <1>2, FramesStep
<1>7. ASSUME NEW u \in Threads \ {t} PROVE CallOK(u)' /\ WorkOK(u)'
  <2>1. WorkOK(u)'
    BY <1>2, OthersWork
  <2>2. CallOK(u) /\ loc'[u] = loc[u]
    BY OthersUse DEF ShapeInv
  <2>3. \A l \in Locations \ {"cvWait", "lookup", "loadSleep", "loadCheck"} :
          pc'[u] = l <=> pc[u] = l
    BY OthersUse
  <2>4. pc'[u] \in FetchOnly => pc[u] \in FetchOnly
    <3>1. \/ pc'[u] = pc[u]
          \/ pc[u] = "cvWait" /\ pc'[u] = "lookup"
          \/ pc[u] = "loadSleep" /\ pc'[u] = "loadCheck"
      BY OthersKeep DEF ShapeInv, LoaderInv
    <3> QED BY <3>1 DEF FetchOnly
  <2>5. CallOK(u)'
    BY <1>5, <2>2, <2>3, <2>4 DEF CallOK, Flushing, Locations
  <2> QED BY <2>1, <2>5
<1>8. CallOK(t)' /\ WorkOK(t)'
  <2>1. CASE Works(t)
    BY <1>4, <2>1, OwnWork
  <2>2. CASE pc'[t] \notin {"publish"} \cup Evicting \cup Flushing
    BY <1>4, <2>2 DEF WorkOK, Flushing
  <2> QED BY <1>4, <2>1, <2>2 DEF WorkStep
<1>9. LockOK'
  <2>1. ASSUME NEW u \in Threads \ {t} PROVE pc'[u] \in {"scan", "noVictim"} <=> stateLock' = u
    BY <1>4, OthersUse DEF LockStep, ShapeInv, LockOK, Locations
  <2> QED BY <1>4, <2>1 DEF LockStep, LockOK
<1>10. ResidentAskable'
  <2>1. ASSUME NEW u \in Threads, loc'[u].op = "new" PROVE loc'[u].page = nextPage'
    BY <1>5, <1>8, <2>1 DEF CallOK
  <2> QED BY <1>5, <2>1 DEF ResidentAskable
<1> QED BY <1>3, <1>5, <1>6, <1>7, <1>8, <1>9, <1>10 DEF ShapeInv

\* The invariant is inductive.
LEMMA ShapeNext == SafeCallers /\ ShapeInv /\ [Next]_vars => ShapeInv'
<1> SUFFICES ASSUME SafeCallers, ShapeInv, [Next]_vars PROVE ShapeInv'
  OBVIOUS
<1>1. CASE UNCHANGED vars
  <2>1. LoaderInv' /\ LockOK' /\ \A t \in Threads : CallOK(t)' /\ WorkOK(t)'
    BY <1>1, LoaderNext DEF ShapeInv, LockOK, CallOK, WorkOK, Askable, vars, clock
  <2>2. MappingExact' /\ LoadingNotResident' /\ ResidentAskable'
    BY <1>1 DEF ShapeInv, MappingExact, LoadingNotResident, ResidentAskable, Askable, IsMapped,
                Loading, At, vars, clock
  <2>3. FramesAccounted' /\ ReservedHasOwner'
    BY <1>1 DEF ShapeInv, FramesAccounted, ReservedHasOwner, Listed, Mapped, Owns, Fills,
                IsReserved, vars, clock
  <2> QED BY <2>1, <2>2, <2>3 DEF ShapeInv
<1>2. CASE Next
  BY <1>2, ShapeStep DEF Next
<1> QED BY <1>1, <1>2

\* ... and so holds throughout.
LEMMA ShapeHolds == SafeCallers /\ Spec => []ShapeInv
<1> SUFFICES ASSUME SafeCallers PROVE Spec => []ShapeInv
  OBVIOUS
<1>1. ShapeInv /\ [Next]_vars => ShapeInv'
  BY ShapeNext
<1> QED BY <1>1, ShapeInit, PTL DEF Spec

\* No frame serves two pages, and the table never names a frame that was reset or given
\* to another page.
THEOREM MappingIsExact == SafeCallers /\ Spec => []MappingExact
<1>1. ShapeInv => MappingExact
  BY DEF ShapeInv
<1> QED BY <1>1, ShapeHolds, PTL

\* No frame is lost, listed twice or given to two owners, whatever fails.
THEOREM FramesAreAccounted == SafeCallers /\ Spec => []FramesAccounted
<1>1. ShapeInv => FramesAccounted
  BY DEF ShapeInv
<1> QED BY <1>1, ShapeHolds, PTL

\* A reservation has one owner and no reservation is leaked.
THEOREM ReservedIsOwned == SafeCallers /\ Spec => []ReservedHasOwner
<1>1. ShapeInv => ReservedHasOwner
  BY DEF ShapeInv
<1> QED BY <1>1, ShapeHolds, PTL

\* A page being loaded is not in the table.
THEOREM LoadingIsNotResident == SafeCallers /\ Spec => []LoadingNotResident
<1>1. ShapeInv => LoadingNotResident
  BY DEF ShapeInv
<1> QED BY <1>1, ShapeHolds, PTL

\* page_table.replace never refuses a commit.
THEOREM EvictionsCommit == SafeCallers /\ Spec => EvictionCommits
<1> SUFFICES ASSUME SafeCallers PROVE Spec => EvictionCommits
  OBVIOUS
<1>1. ShapeInv => [\A t \in Threads : ~CommitRejected(t) /\ ~InstallRejected(t)]_vars
  BY Unreached
<1> QED BY <1>1, ShapeHolds, PTL DEF EvictionCommits
=============================================================================
