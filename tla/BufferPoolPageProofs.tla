------------------------ MODULE BufferPoolPageProofs ------------------------
(***************************************************************************)
(* What the pool keeps of a page: its newest bytes, and the pins its       *)
(* callers hold.                                                           *)
(*                                                                         *)
(* The bytes, for the callers of SafeCallers (DirtyNotLost).  A page is    *)
(* made newer only in a frame nobody works on, so the bytes a thread       *)
(* carries to the disk stay the newest; a frame is given to another page,  *)
(* or its dirty bit cleared, only by a thread that has written the page.   *)
(*                                                                         *)
(* The pins, where they also fit the counter (PinsExact, under PinsFit).   *)
(* A step leaves every page's pins alone, or adds or drops one pin of one  *)
(* page and the caller's history with it; an eviction or a deletion takes  *)
(* only frames whose count is zero.                                        *)
(*                                                                         *)
(* The clock's answer that every frame is pinned: a frame the hand passed  *)
(* stays pinned or reserved for as long as the scan holds state_lock.      *)
(***************************************************************************)
EXTENDS BufferPoolShapeProofs


\* u carries the bytes of page q to the disk, or has carried them there.
Saves(u, q) == \/ pc[u] \in Evicting /\ loc[u].old = q
               \/ pc[u] \in Flushing /\ loc[u].page = q

\* u has reserved the frame of the page it saves.
LEMMA SavedPage ==
  ASSUME ShapeInv, NEW u \in Threads, NEW q \in PageIds, Saves(u, q)
  PROVE  /\ table[q] \in FrameIds
         /\ IsMapped(table, q)
         /\ Owns(u, table[q])
<1>1. table[q] = loc[u].frame /\ pc[u] \in Reserving
  BY DEF Saves, ShapeInv, WorkOK, Evicting, Flushing, Reserving
<1>2. loc[u].frame \in FrameIds
  BY <1>1, OwnFrame
<1> QED BY <1>1, <1>2, PoolSize DEF Owns, IsMapped, FrameIds, None

\* What a step may do to the store of a page another thread saves.
StoreStep(t) ==
  \A q \in PageIds :
    \/ /\ store'[q] = "changed" => store[q] = "changed"
       /\ store[q] = "saved" => store'[q] = "saved"
    \/ \A u \in Threads \ {t} : ~Saves(u, q)

\* What the three transfers of bytes do to the store.
LEMMA Transferred ==
  ASSUME ShapeInv, NEW q \in PageIds
  PROVE  /\ \A s \in {Copy(store, q), Saved(store, q), Failed(store, q)} :
              /\ s \in [PageIds -> StoreStates]
              /\ \A p \in PageIds \ {q} : s[p] = store[p]
         /\ Copy(store, q)[q] = IF store[q] = "changed" THEN "copied" ELSE store[q]
         /\ Saved(store, q)[q] = IF store[q] = "copied" THEN "saved" ELSE store[q]
         /\ Failed(store, q)[q] = IF store[q] = "copied" THEN "changed" ELSE store[q]
BY DEF Copy, Saved, Failed, StoreStates, ShapeInv, LoaderInv, TypeOK

\* A page is made newer only in a frame that nobody else has reserved.
LEMMA StoreMoves ==
  ASSUME SafeCallers, ShapeInv, NEW t \in Threads, Silent(t) \/ Marks(t) \/ Transfers(t)
  PROVE  StoreStep(t)
<1> USE DEF At
<1>1. CASE UNCHANGED store
  BY <1>1 DEF StoreStep
<1>2. CASE WriteOld(t)
  <2>1. loc[t].old \in PageIds /\ store' = Saved(store, loc[t].old)
    BY <1>2 DEF WriteOld, ShapeInv, WorkOK, Evicting
  <2> QED BY <2>1, Transferred DEF StoreStep
<1>3. CASE FlushCopy(t)
  <2>1. \/ UNCHANGED store
        \/ store' = Copy(store, frame[loc[t].frame].page)
    BY <1>3 DEF FlushCopy
  <2>2. frame[loc[t].frame].page = loc[t].page /\ loc[t].page \in PageIds
    <3>1. /\ loc[t].page \in PageIds /\ loc[t].frame \in FrameIds
          /\ table[loc[t].page] = loc[t].frame
      BY <1>3, OwnFrame DEF FlushCopy, Reserving, ShapeInv, WorkOK, Flushing
    <3> QED BY <3>1, MappedFrame, PoolSize DEF IsMapped, FrameIds, None
  <2> QED BY <2>1, <2>2, Transferred DEF StoreStep
<1>4. CASE FlushWrite(t)
  <2>1. loc[t].old \in PageIds /\ store' = Saved(store, loc[t].old)
    BY <1>4, OwnFrame DEF FlushWrite, Reserving, ShapeInv, WorkOK, Flushing
  <2> QED BY <2>1, Transferred DEF StoreStep
<1>5. CASE ClockVictim(t)
  <2>1. frame[hand].page \in PageIds
    BY <1>5, VictimMapped, MappedFrame, PoolSize
    DEF ClockVictim, Mapped, IsMapped, FrameIds, None
  <2>2. PICK q \in PageIds : q = frame[hand].page
    BY <2>1
  <2>3. store' = Copy(store, q) \/ UNCHANGED store
    BY <1>5, <2>2 DEF ClockVictim
  <2> QED BY <2>3, Transferred DEF StoreStep
<1>6. CASE FetchWriteFails(t) \/ NewWriteFails(t) \/ FlushWriteFails(t)
  <2>1. PICK q \in PageIds : q = loc[t].old /\ store' = Failed(store, q) /\ Saves(t, q)
    BY <1>6, OwnFrame DEF FetchWriteFails, NewWriteFails, FlushWriteFails, Reserving, ShapeInv,
                          WorkOK, Evicting, Flushing, Saves
  <2>2. \A u \in Threads \ {t} : ~Saves(u, q)
    BY <2>1, SavedPage, OneUser DEF Uses
  <2> QED BY <2>1, <2>2, Transferred DEF StoreStep
<1>7. ASSUME NEW q \in PageIds, store' = [store EXCEPT ![q] = "changed"],
             IsMapped(table, q) => ~IsReserved(frame[table[q]])
      PROVE  StoreStep(t)
  <2>1. \A u \in Threads : ~Saves(u, q)
    BY <1>7, SavedPage DEF ShapeInv, ReservedHasOwner
  <2> QED BY <1>7, <2>1 DEF StoreStep, ShapeInv, LoaderInv, TypeOK
<1>8. ASSUME NEW p \in PageIds, MarkDirtyPage(t, p) PROVE StoreStep(t)
  BY <1>7, <1>8 DEF MarkDirtyPage, IsOpen
<1>9. CASE InstallNew(t)
  BY <1>7, <1>9, OwnFrame DEF InstallNew, CanReplace, Reserving
<1>10. CASE NewFromFree(t)
  <2>1. t \in Creators /\ nextPage \in PageIds /\ nextPage < PageIdLimit
    BY <1>10, FrameConstants DEF NewFromFree, MayIssue, ShapeInv, LoaderInv, TypeOK, PageIds
  <2> QED BY <1>7, <1>10, <2>1, FreshId DEF NewFromFree
<1>11. CASE FlushAll(t)
  BY <1>11 DEF FlushAll, StoreStep, Saves, Evicting, Flushing
<1> QED
  BY <1>1, <1>2, <1>3, <1>4, <1>5, <1>6, <1>8, <1>9, <1>10, <1>11
  DEF Silent, Marks, Transfers, FetchHit, ClockSecondChance, FlushClear, UnpinPage, FlushClean,
      FetchFromFree, ReadFree, PublishFree, ReadFreeFails, FetchReadFails, CommitEviction,
      FlushDone, DeleteDone, FlushPage, DeleteClean, DeleteDirty, BeginFlush

-----------------------------------------------------------------------------
\* Where the table stays and one frame changes, its page must stay dirty.
LEMMA OneDirty ==
  ASSUME ShapeInv, DirtyNotLost, NEW f \in FrameIds, NEW r, UNCHANGED table,
         frame' = [frame EXCEPT ![f] = r],
         \A p \in PageIds : store'[p] # "saved" => store[p] # "saved",
         \A p \in PageIds : table[p] = f /\ store'[p] # "saved" => r.dirty
  PROVE  DirtyNotLost'
<1>1. ASSUME NEW p \in PageIds, store'[p] # "saved"
      PROVE  IsMapped(table, p)' /\ frame'[table'[p]].dirty
  <2>1. IsMapped(table, p) /\ table[p] \in FrameIds /\ frame[table[p]].dirty
    BY <1>1, MappedFrame DEF DirtyNotLost
  <2> QED BY <1>1, <2>1 DEF IsMapped, ShapeInv, LoaderInv, TypeOK
<1> QED BY <1>1 DEF DirtyNotLost

\* It does when its dirty bit stays.
LEMMA SameDirty ==
  ASSUME ShapeInv, DirtyNotLost, NEW f \in FrameIds, NEW r, UNCHANGED table,
         frame' = [frame EXCEPT ![f] = r],
         \A p \in PageIds : store'[p] # "saved" => store[p] # "saved",
         r.dirty = frame[f].dirty
  PROVE  DirtyNotLost'
<1>1. \A p \in PageIds : table[p] = f /\ store'[p] # "saved" => r.dirty
  BY DEF DirtyNotLost
<1> QED BY <1>1, OneDirty

\* The dirty bit after the operations on a frame.
LEMMA FrameDirty ==
  ASSUME NEW fr \in FrameRecord
  PROVE  /\ \A r \in {Pin(fr), MarkReferenced(Pin(fr)), Unpin(fr), MarkUnreferenced(fr),
                      SetFree(fr), SetResident(fr), Reserve(fr)} : r.dirty = fr.dirty
         /\ HasMeta(fr) => MarkDirty(fr).dirty /\ ~ClearDirty(fr).dirty
<1>1. Pin(fr) \in FrameRecord /\ Pin(fr).dirty = fr.dirty
  BY FrameConstants DEF Pin, FrameRecord
<1>2. \A r \in FrameRecord : MarkReferenced(r).dirty = r.dirty
  BY DEF MarkReferenced, FrameRecord
<1>3. /\ Unpin(fr).dirty = fr.dirty
      /\ MarkUnreferenced(fr).dirty = fr.dirty
  BY FrameConstants DEF Unpin, MarkUnreferenced, FrameRecord
<1>4. SetFree(fr).dirty = fr.dirty /\ SetResident(fr).dirty = fr.dirty /\ Reserve(fr).dirty = fr.dirty
  BY DEF SetFree, SetResident, Reserve, FrameRecord
<1>5. HasMeta(fr) => MarkDirty(fr).dirty /\ ~ClearDirty(fr).dirty
  BY DEF MarkDirty, ClearDirty, FrameRecord
<1> QED BY <1>1, <1>2, <1>3, <1>4, <1>5

\* A new page is dirty.
LEMMA NewIsDirty ==
  ASSUME NEW fr \in FrameRecord, NEW p \in PageIds
  PROVE  NewFrameFor(fr, p).dirty
<1>1. PICK r \in FrameRecord : r = MarkReferenced(Pin(LoadPage(fr, p))) /\ r.page = p
  BY LoadedState
<1>2. HasMeta(r)
  BY <1>1 DEF HasMeta, PageIds, None
<1> QED BY <1>1, <1>2, FrameDirty DEF NewFrameFor

\* The pool writes a page before it clears the dirty bit ...
LEMMA MarksSave ==
  ASSUME ShapeInv, DataInv, NEW t \in Threads, Marks(t)
  PROVE  DirtyNotLost'
<1> USE DEF At
<1>a. DirtyNotLost /\ TypeOK
  BY DEF DataInv, ShapeInv, LoaderInv
<1>1. CASE FetchHit(t)
  <2>1. PICK f \in FrameIds : f = table[loc[t].page] /\ frame[f] \in FrameRecord
    BY <1>1, MappedFrame DEF FetchHit, ShapeInv, LoaderInv, ControlOK
  <2> QED BY <1>a, <1>1, <2>1, FrameDirty, SameDirty DEF FetchHit
<1>2. CASE ClockSecondChance(t)
  <2>1. PICK f \in FrameIds : f = hand /\ frame[f] \in FrameRecord
    BY <1>a DEF TypeOK
  <2> QED BY <1>a, <1>2, <2>1, FrameDirty, SameDirty DEF ClockSecondChance
<1>3. CASE FlushClear(t)
  <2>1. PICK f \in FrameIds : f = loc[t].frame
    BY <1>3, OwnFrame DEF FlushClear, Reserving
  <2>2. /\ table[loc[t].page] = f /\ loc[t].page \in PageIds
        /\ store[loc[t].page] = "saved"
    BY <1>3, <2>1, OwnFrame DEF FlushClear, Reserving, ShapeInv, WorkOK, Flushing, DataInv, SavingOK
  <2>3. \A p \in PageIds : table[p] = f => p = loc[t].page
    BY <2>2, MappedFrame, PoolSize DEF IsMapped, FrameIds, None
  <2> QED BY <1>a, <1>3, <2>1, <2>2, <2>3, OneDirty DEF FlushClear
<1>4. CASE FlushAll(t)
  <2>1. PICK S \in SUBSET {p \in PageIds : IsMapped(table, p)} :
          /\ \A p \in S : IsOpen(frame[table[p]])
          /\ frame' = [f \in FrameIds |-> IF \E p \in S : table[p] = f
                                         THEN SetResident(ClearDirty(frame[f]))
                                         ELSE frame[f]]
          /\ store' = [p \in PageIds |->
                         IF \E q \in S : LET fr == frame[table[q]]
                                        IN  fr.dirty /\ fr.page = p
                         THEN "saved" ELSE store[p]]
    BY <1>4 DEF FlushAll
  <2>2. ASSUME NEW p \in PageIds, store'[p] # "saved"
        PROVE  IsMapped(table, p)' /\ frame'[table'[p]].dirty
    <3>1. store[p] # "saved" /\ ~ \E q \in S : frame[table[q]].dirty /\ frame[table[q]].page = p
      BY <2>1, <2>2
    <3>2. IsMapped(table, p) /\ frame[table[p]].dirty /\ table[p] \in FrameIds
      BY <1>a, <3>1, MappedFrame DEF DirtyNotLost
    <3>3. ~ \E q \in S : table[q] = table[p]
      BY <2>1, <3>1, <3>2, MappedFrame
    <3> QED BY <1>4, <2>1, <3>2, <3>3 DEF FlushAll, IsMapped
  <2> QED BY <2>2 DEF DirtyNotLost
<1>5. ASSUME NEW p \in PageIds, UnpinPage(t, p) PROVE DirtyNotLost'
  <2>1. PICK f \in FrameIds : f = table[p] /\ frame[f] \in FrameRecord
    BY <1>5, MappedFrame DEF UnpinPage
  <2> QED BY <1>a, <1>5, <2>1, FrameDirty, SameDirty DEF UnpinPage
<1>6. ASSUME NEW p \in PageIds, MarkDirtyPage(t, p) PROVE DirtyNotLost'
  <2>1. PICK f \in FrameIds : f = table[p] /\ frame[f] \in FrameRecord
    BY <1>6, MappedFrame DEF MarkDirtyPage
  <2>2. /\ table' = table /\ f # None
        /\ \A g \in FrameIds : frame'[g] = IF g = f THEN MarkDirty(frame[f]) ELSE frame[g]
        /\ \A q \in PageIds : q # p => store'[q] = store[q]
    BY <1>a, <1>6, <2>1, PoolSize DEF MarkDirtyPage, TypeOK, FrameIds, None
  <2>3. MarkDirty(frame[f]).dirty
    BY <1>6, <2>1, FrameDirty DEF MarkDirtyPage
  <2>4. \A q \in PageIds : IsMapped(table, q) => table[q] \in FrameIds
    BY MappedFrame
  <2> QED BY <1>a, <2>1, <2>2, <2>3, <2>4 DEF DirtyNotLost, IsMapped
<1>7. ASSUME NEW p \in PageIds, FlushClean(t, p) PROVE DirtyNotLost'
  <2>1. PICK f \in FrameIds : f = table[p] /\ frame[f] \in FrameRecord
    BY <1>7, MappedFrame DEF FlushClean
  <2> QED BY <1>a, <1>7, <2>1, FrameDirty, SameDirty DEF FlushClean
<1> QED BY <1>1, <1>2, <1>3, <1>4, <1>5, <1>6, <1>7 DEF Marks

\* ... and before it gives the frame to another page; a page that enters the table
\* was not in it, and so is saved, unless it is a new one.
LEMMA TransfersSave ==
  ASSUME SafeCallers, ShapeInv, DataInv, NEW t \in Threads, Transfers(t)
  PROVE  DirtyNotLost'
<1> USE DEF At
<1>a. DirtyNotLost /\ TypeOK
  BY DEF DataInv, ShapeInv, LoaderInv
<1>b. \A p \in PageIds : store[p] # "saved" => IsMapped(table, p) /\ table[p] \in FrameIds
  BY <1>a, MappedFrame DEF DirtyNotLost
<1>1. CASE FetchFromFree(t)
  <2>1. PICK f \in FrameIds : f = Head(freeList) /\ frame[f] \in FrameRecord
    BY <1>a, <1>1, FirstFree DEF FetchFromFree, TypeOK
  <2> QED BY <1>a, <1>1, <2>1, FrameDirty, SameDirty DEF FetchFromFree
<1>2. CASE ReadFree(t)
  <2>1. PICK f \in FrameIds : f = loc[t].frame
    BY <1>2, OwnFrame DEF ReadFree, Reserving
  <2>2. \A p \in PageIds : table[p] # f
    BY <1>2, <2>1 DEF ReadFree, Fills, Mapped, ShapeInv, FramesAccounted
  <2> QED BY <1>a, <1>2, <2>1, <2>2, OneDirty DEF ReadFree
<1>3. CASE PublishFree(t)
  <2>1. ~IsMapped(table, loc[t].page)
    BY <1>3 DEF PublishFree, ShapeInv, LoaderInv, ControlOK, LoadingNotResident, Loading
  <2> QED BY <1>a, <1>b, <1>3, <2>1 DEF PublishFree, Insert, IsMapped, DirtyNotLost, TypeOK
<1>4. CASE ReadFreeFails(t)
  <2>1. PICK f \in FrameIds : f = loc[t].frame /\ frame[f] \in FrameRecord
    BY <1>4, OwnFrame DEF ReadFreeFails, Reserving
  <2> QED BY <1>a, <1>4, <2>1, FrameDirty, SameDirty DEF ReadFreeFails
<1>5. CASE ClockVictim(t)
  <2>1. PICK f \in FrameIds : f = hand /\ frame[f] \in FrameRecord /\ frame[f].page \in PageIds
    BY <1>a, <1>5, VictimMapped DEF ClockVictim, TypeOK, FrameRecord, HasMeta
  <2>2. \A p \in PageIds : store'[p] # "saved" => store[p] # "saved"
    BY <1>5, <2>1, Transferred DEF ClockVictim
  <2> QED BY <1>a, <1>5, <2>1, <2>2, FrameDirty, SameDirty DEF ClockVictim
<1>6. CASE FetchWriteFails(t) \/ NewWriteFails(t) \/ FlushWriteFails(t)
  <2>1. PICK f \in FrameIds : /\ f = loc[t].frame /\ frame[f] \in FrameRecord
                              /\ loc[t].old \in PageIds
    BY <1>6, OwnFrame DEF FetchWriteFails, NewWriteFails, FlushWriteFails, Reserving, ShapeInv,
                          WorkOK, Evicting, Flushing
  <2>2. PICK q \in PageIds : q = loc[t].old
    BY <2>1
  <2>3. store' = Failed(store, q)
    BY <1>6, <2>2 DEF FetchWriteFails, NewWriteFails, FlushWriteFails
  <2>4. \A p \in PageIds : store'[p] # "saved" => store[p] # "saved"
    BY <2>3, Transferred
  <2>5. UNCHANGED table /\ frame' = [frame EXCEPT ![f] = SetResident(frame[f])]
    BY <1>6, <2>1 DEF FetchWriteFails, AbandonFetch, NewWriteFails, FlushWriteFails
  <2>6. SetResident(frame[f]).dirty = frame[f].dirty
    BY <2>1, FrameDirty
  <2> QED BY <1>a, <2>4, <2>5, <2>6, SameDirty
<1>7. CASE FetchReadFails(t) \/ FlushDone(t)
  <2>1. PICK f \in FrameIds : f = loc[t].frame /\ frame[f] \in FrameRecord
    BY <1>7, OwnFrame DEF FetchReadFails, FlushDone, Reserving
  <2>2. /\ UNCHANGED <<table, store>>
        /\ frame' = [frame EXCEPT ![f] = SetResident(frame[f])]
    BY <1>7, <2>1 DEF FetchReadFails, AbandonFetch, FlushDone
  <2>3. SetResident(frame[f]).dirty = frame[f].dirty
    BY <2>1, FrameDirty
  <2> QED BY <1>a, <2>2, <2>3, SameDirty
<1>8. CASE CommitEviction(t) \/ InstallNew(t)
  <2>1. /\ loc[t].old \in PageIds /\ loc[t].page \in PageIds
        /\ table[loc[t].old] = loc[t].frame /\ loc[t].frame \in FrameIds
        /\ store[loc[t].old] = "saved"
        /\ ~IsMapped(table, loc[t].page)
    BY <1>8, OwnFrame DEF CommitEviction, InstallNew, CanReplace, Reserving, ShapeInv, WorkOK,
                          Evicting, DataInv, SavingOK
  <2>2. \A p \in PageIds : table[p] = loc[t].frame => p = loc[t].old
    BY <2>1, MappedFrame, PoolSize DEF IsMapped, FrameIds, None
  <2>3. /\ \A p \in PageIds \ {loc[t].page, loc[t].old} : table'[p] = table[p]
        /\ table'[loc[t].page] = loc[t].frame
        /\ \A g \in FrameIds \ {loc[t].frame} : frame'[g] = frame[g]
        /\ \A p \in PageIds \ {loc[t].page} : store'[p] = store[p]
    BY <1>a, <1>8, <2>1 DEF CommitEviction, InstallNew, Replace, TypeOK
  <2>4. ASSUME NEW p \in PageIds \ {loc[t].page}, store'[p] # "saved"
        PROVE  IsMapped(table, p)' /\ frame'[table'[p]].dirty
    <3>1. p # loc[t].old /\ IsMapped(table, p) /\ frame[table[p]].dirty /\ table[p] \in FrameIds
      BY <1>a, <1>b, <2>1, <2>3, <2>4 DEF DirtyNotLost
    <3> QED BY <2>1, <2>2, <2>3, <3>1 DEF IsMapped
  <2>5. ASSUME store'[loc[t].page] # "saved"
        PROVE  /\ table'[loc[t].page] # None
               /\ frame'[table'[loc[t].page]].dirty
    <3>1. CASE CommitEviction(t)
      BY <1>b, <2>1, <2>5, <3>1 DEF CommitEviction
    <3>2. CASE InstallNew(t)
      <4>1. PICK f \in FrameIds, p \in PageIds :
              f = loc[t].frame /\ p = loc[t].page /\ frame[f] \in FrameRecord
        BY <1>a, <2>1 DEF TypeOK
      <4>2. frame'[f] = NewFrameFor(frame[f], p)
        BY <1>a, <3>2, <4>1 DEF InstallNew, TypeOK
      <4> QED
        BY <2>1, <2>3, <4>1, <4>2, NewIsDirty, PoolSize DEF IsMapped, FrameIds, None
    <3> QED BY <1>8, <3>1, <3>2
  <2> QED BY <2>4, <2>5 DEF DirtyNotLost, IsMapped
<1>9. CASE NewFromFree(t)
  <2>1. PICK f \in FrameIds, p \in PageIds : /\ f = Head(freeList) /\ p = nextPage
                                             /\ ~Mapped(f) /\ frame[f] \in FrameRecord
    BY <1>a, <1>9, FirstFree, FrameConstants DEF NewFromFree, TypeOK, PageIds
  <2>2. /\ \A q \in PageIds : table'[q] = IF q = p THEN f ELSE table[q]
        /\ \A g \in FrameIds : frame'[g] = IF g = f THEN NewFrameFor(frame[f], p) ELSE frame[g]
        /\ \A q \in PageIds \ {p} : store'[q] = store[q]
    BY <1>a, <1>9, <2>1 DEF NewFromFree, Insert, TypeOK
  <2>3. NewFrameFor(frame[f], p).dirty
    BY <2>1, NewIsDirty
  <2> QED BY <1>a, <1>b, <2>1, <2>2, <2>3, PoolSize DEF DirtyNotLost, IsMapped, Mapped,
    FrameIds, None
<1>10. ASSUME NEW p \in PageIds, FlushPage(t, p) \/ DeleteDirty(t, p) PROVE DirtyNotLost'
  <2>1. PICK op : BeginFlush(t, p, op)
    BY <1>10 DEF FlushPage, DeleteDirty
  <2>2. PICK f \in FrameIds : f = table[p] /\ frame[f] \in FrameRecord
    BY <2>1, MappedFrame DEF BeginFlush
  <2> QED BY <1>a, <2>1, <2>2, FrameDirty, SameDirty DEF BeginFlush
<1>11. ASSUME NEW p \in PageIds, NEW f \in FrameIds, table[p] = f, Discard(f, p),
              store' = store, store[p] = "saved"
       PROVE  DirtyNotLost'
  <2>1. \A q \in PageIds : table[q] = f => q = p
    BY <1>11, MappedFrame, PoolSize DEF IsMapped, FrameIds, None
  <2>2. /\ \A q \in PageIds \ {p} : table'[q] = table[q]
        /\ \A g \in FrameIds \ {f} : frame'[g] = frame[g]
    BY <1>a, <1>11 DEF Discard, Remove, TypeOK
  <2> QED BY <1>a, <1>b, <1>11, <2>1, <2>2 DEF DirtyNotLost, IsMapped
<1>12. CASE DeleteDone(t)
  <2>1. PICK f \in FrameIds, p \in PageIds : f = loc[t].frame /\ p = loc[t].page
    BY <1>12, OwnFrame DEF DeleteDone, Reserving
  <2>2. table[p] = f /\ store[p] = "saved"
    BY <1>12, <2>1 DEF DeleteDone, ShapeInv, WorkOK, Flushing, DataInv, SavingOK
  <2> QED BY <1>11, <1>12, <2>1, <2>2 DEF DeleteDone
<1>13. ASSUME NEW p \in PageIds, DeleteClean(t, p) PROVE DirtyNotLost'
  <2>1. PICK f \in FrameIds : f = table[p]
    BY <1>13, MappedFrame DEF DeleteClean
  <2>2. store[p] = "saved"
    BY <1>a, <1>13 DEF DeleteClean, DirtyNotLost
  <2> QED BY <1>11, <1>13, <2>1, <2>2 DEF DeleteClean
<1> QED BY <1>1, <1>2, <1>3, <1>4, <1>5, <1>6, <1>7, <1>8, <1>9, <1>10, <1>12, <1>13
        DEF Transfers

-----------------------------------------------------------------------------
\* What the thread that moves knows of the bytes it saves.
LEMMA OwnSaving ==
  ASSUME SafeCallers, ShapeInv, DataInv, NEW t \in Threads, Works(t)
  PROVE  SavingOK(t)'
<1>a. TypeOK /\ WorkOK(t) /\ CallOK(t) /\ SavingOK(t) /\ DirtyNotLost
  BY DEF ShapeInv, LoaderInv, DataInv
<1> USE DEF At, Evicting, Flushing
<1>1. CASE ReadFree(t)
  BY <1>a, <1>1 DEF ReadFree, GoTo, TypeOK, SavingOK
<1>2. CASE ClockVictim(t)
  <2>1. PICK q \in PageIds : q = frame[hand].page /\ table[q] = hand
    <3>1. hand \in FrameIds /\ Mapped(hand)
      BY <1>2, VictimMapped DEF ClockVictim
    <3> QED BY <3>1, MappedFrame, PoolSize DEF Mapped, IsMapped, FrameIds, None
  <2>2. loc'[t].old = q
    BY <1>a, <1>2, <2>1 DEF ClockVictim, TypeOK, Locals
  <2>3. CASE frame[hand].dirty
    <3>1. pc'[t] = "writeOld" /\ store' = Copy(store, q)
      BY <1>a, <1>2, <2>1, <2>3 DEF ClockVictim, GoTo, TypeOK
    <3> QED BY <2>2, <3>1, Transferred DEF SavingOK
  <2>4. CASE ~frame[hand].dirty
    <3>1. pc'[t] \in {"readNew", "install"} /\ store' = store
      BY <1>a, <1>2, <2>4 DEF ClockVictim, AfterWrite, GoTo, TypeOK
    <3>2. store[q] = "saved"
      BY <1>a, <2>1, <2>4 DEF DirtyNotLost
    <3> QED BY <2>2, <3>1, <3>2 DEF SavingOK
  <2> QED BY <2>3, <2>4
<1>3. CASE WriteOld(t)
  <2>1. PICK q \in PageIds : q = loc[t].old
    BY <1>a, <1>3 DEF WriteOld, WorkOK
  <2>2. /\ pc'[t] \in {"readNew", "install"} /\ loc' = loc /\ store' = Saved(store, q)
        /\ store[q] \in {"saved", "copied"}
    BY <1>a, <1>3, <2>1 DEF WriteOld, AfterWrite, GoTo, TypeOK, SavingOK, StoreStates
  <2> QED BY <2>1, <2>2, Transferred DEF SavingOK
<1>4. CASE FlushCopy(t)
  <2>1. PICK q \in PageIds : q = loc[t].page /\ table[q] = loc[t].frame /\ loc[t].frame \in FrameIds
    BY <1>a, <1>4, OwnFrame DEF FlushCopy, WorkOK, Reserving
  <2>2. frame[loc[t].frame].page = q
    BY <2>1, MappedFrame, PoolSize DEF IsMapped, FrameIds, None
  <2>3. loc'[t].page = q
    BY <1>a, <1>4, <2>1 DEF FlushCopy, TypeOK, Locals
  <2>4. CASE frame[loc[t].frame].dirty
    <3>1. pc'[t] = "flushWrite" /\ store' = Copy(store, q)
      BY <1>a, <1>4, <2>2, <2>4 DEF FlushCopy, GoTo, TypeOK
    <3> QED BY <2>3, <3>1, Transferred DEF SavingOK
  <2>5. CASE ~frame[loc[t].frame].dirty
    <3>1. pc'[t] = "flushed" /\ store' = store /\ store[q] = "saved"
      BY <1>a, <1>4, <2>1, <2>5 DEF FlushCopy, GoTo, TypeOK, DirtyNotLost
    <3> QED BY <2>3, <3>1 DEF SavingOK
  <2> QED BY <2>4, <2>5
<1>5. CASE FlushWrite(t)
  <2>1. PICK q \in PageIds : q = loc[t].page /\ q = loc[t].old
    BY <1>a, <1>5, OwnFrame DEF FlushWrite, WorkOK, Reserving
  <2>2. /\ pc'[t] = "flushClear" /\ loc' = loc /\ store' = Saved(store, q)
        /\ store[q] \in {"saved", "copied"}
    BY <1>a, <1>5, <2>1 DEF FlushWrite, GoTo, TypeOK, SavingOK, StoreStates
  <2> QED BY <2>1, <2>2, Transferred DEF SavingOK
<1>6. CASE FlushClear(t)
  BY <1>a, <1>6 DEF FlushClear, GoTo, TypeOK, SavingOK
<1>7. ASSUME NEW p \in PageIds, FlushPage(t, p) \/ DeleteDirty(t, p) PROVE SavingOK(t)'
  BY <1>a, <1>7 DEF FlushPage, DeleteDirty, BeginFlush, GoTo, TypeOK, SavingOK
<1> QED BY <1>1, <1>2, <1>3, <1>4, <1>5, <1>6, <1>7 DEF Works

\* The invariant holds of a new pool.
LEMMA DataInit == Init => DataInv
BY DEF Init, DataInv, DirtyNotLost, SavingOK

\* A step of a thread preserves it ...
LEMMA DataStep ==
  ASSUME SafeCallers, ShapeInv, DataInv, NEW t \in Threads,
         Call(t) \/ Step(t) \/ SpuriousWake(t)
  PROVE  DataInv'
<1>1. Silent(t) \/ Marks(t) \/ Transfers(t)
  BY Effects
<1>2. StoreStep(t)
  BY <1>1, StoreMoves
<1>3. DirtyNotLost'
  <2>1. CASE Silent(t)
    <3>1. UNCHANGED <<frame, table>>
      BY <2>1 DEF Silent
    <3>2. \A p \in PageIds : store[p] = "saved" => store'[p] = "saved"
      <4>1. CASE WriteOld(t)
        BY <4>1, Transferred DEF WriteOld, At, ShapeInv, WorkOK, Evicting
      <4>2. CASE FlushWrite(t)
        BY <4>2, OwnFrame, Transferred DEF FlushWrite, At, Reserving, ShapeInv, WorkOK, Flushing
      <4>3. CASE FlushCopy(t)
        <5>1. frame[loc[t].frame].page \in PageIds
          <6>1. /\ loc[t].page \in PageIds /\ loc[t].frame \in FrameIds
                /\ table[loc[t].page] = loc[t].frame
            BY <4>3, OwnFrame DEF FlushCopy, At, Reserving, ShapeInv, WorkOK, Flushing
          <6> QED BY <6>1, MappedFrame, PoolSize DEF IsMapped, FrameIds, None
        <5>2. PICK q \in PageIds : q = frame[loc[t].frame].page
          BY <5>1
        <5>3. store' = store \/ store' = Copy(store, q)
          BY <4>3, <5>2 DEF FlushCopy
        <5> QED BY <5>3, Transferred
      <4> QED BY <2>1, <4>1, <4>2, <4>3 DEF Silent
    <3> QED BY <3>1, <3>2 DEF DataInv, DirtyNotLost, IsMapped
  <2> QED BY <1>1, <2>1, MarksSave, TransfersSave
<1>4. ASSUME NEW u \in Threads \ {t} PROVE SavingOK(u)'
  <2>1. /\ loc'[u] = loc[u]
        /\ \A l \in Evicting \cup Flushing : pc'[u] = l => pc[u] = l
    BY OthersUse DEF Evicting, Flushing, Locations
  <2>2. SavingOK(u) /\ WorkOK(u)
    BY DEF DataInv, ShapeInv
  <2>3. ASSUME pc[u] \in Evicting \cup Flushing PROVE loc[u].page \in PageIds
    BY <2>3, OwnFrame DEF Evicting, Flushing, Reserving
  <2>4. CASE pc'[u] \in Evicting
    <3>1. pc'[u] = pc[u] /\ loc[u].old \in PageIds /\ Saves(u, loc[u].old)
      BY <2>1, <2>2, <2>4 DEF WorkOK, Saves
    <3>2. /\ store'[loc[u].old] = "changed" => store[loc[u].old] = "changed"
          /\ store[loc[u].old] = "saved" => store'[loc[u].old] = "saved"
      BY <1>2, <3>1 DEF StoreStep
    <3> QED BY <2>1, <2>2, <2>4, <3>1, <3>2 DEF SavingOK, Evicting
  <2>5. CASE pc'[u] \in Flushing
    <3>1. pc'[u] = pc[u] /\ loc[u].page \in PageIds /\ Saves(u, loc[u].page)
      BY <2>1, <2>3, <2>5 DEF Saves
    <3>2. /\ store'[loc[u].page] = "changed" => store[loc[u].page] = "changed"
          /\ store[loc[u].page] = "saved" => store'[loc[u].page] = "saved"
      BY <1>2, <3>1 DEF StoreStep
    <3> QED BY <2>1, <2>2, <2>5, <3>1, <3>2 DEF SavingOK, Flushing
  <2> QED BY <2>4, <2>5 DEF SavingOK, Evicting, Flushing
<1>5. SavingOK(t)'
  <2>1. WorkStep(t)
    BY OwnCall DEF CallStep
  <2> QED BY <2>1, OwnSaving DEF WorkStep, SavingOK, Evicting, Flushing
<1> QED BY <1>3, <1>4, <1>5 DEF DataInv

\* ... and so does every step.
LEMMA DataNext == SafeCallers /\ ShapeInv /\ DataInv /\ [Next]_vars => DataInv'
<1> SUFFICES ASSUME SafeCallers, ShapeInv, DataInv, [Next]_vars PROVE DataInv'
  OBVIOUS
<1>1. CASE UNCHANGED vars
  BY <1>1 DEF DataInv, DirtyNotLost, SavingOK, IsMapped, vars
<1>2. CASE Next
  BY <1>2, DataStep DEF Next
<1> QED BY <1>1, <1>2

\* ... and it holds throughout.
LEMMA DataHolds == SafeCallers /\ Spec => []DataInv
<1> SUFFICES ASSUME SafeCallers PROVE Spec => []DataInv
  OBVIOUS
<1>1. ShapeInv /\ DataInv /\ [Next]_vars => DataInv'
  BY DataNext
<1> QED BY <1>1, DataInit, ShapeHolds, PTL DEF Spec

\* No change of a page is lost: through every eviction, flush, deletion and failed write
\* a page newer than the disk's copy is resident and dirty.
THEOREM NothingIsLost == SafeCallers /\ Spec => []DirtyNotLost
<1>1. DataInv => DirtyNotLost
  BY DEF DataInv
<1> QED BY <1>1, DataHolds, PTL

\* A loader reads the newest bytes of its page: it becomes one only when the page is in
\* no frame, and no page leaves its frame before its bytes have reached the disk.
THEOREM LoadsReadNewest == SafeCallers /\ Spec => []LoadReadsNewest
<1> SUFFICES ASSUME SafeCallers PROVE Spec => []LoadReadsNewest
  OBVIOUS
<1>1. ShapeInv /\ DataInv => LoadReadsNewest
  <2> SUFFICES ASSUME ShapeInv, DataInv, NEW t \in Threads, Loading(t)
               PROVE  store[loc[t].page] = "saved"
    BY DEF LoadReadsNewest
  <2>1. ~At(t, "idle")
    BY DEF Loading, ShapeInv, LoaderInv, ControlOK, NoLocals
  <2>2. loc[t].page \in PageIds
    BY <2>1 DEF ShapeInv, LoaderInv, ControlOK
  <2>3. ~IsMapped(table, loc[t].page)
    BY <2>2 DEF ShapeInv, LoadingNotResident
  <2> QED BY <2>2, <2>3 DEF DataInv, DirtyNotLost
<1> QED BY <1>1, ShapeHolds, DataHolds, PTL

-----------------------------------------------------------------------------
\* What pin_count says of page p.
PinsIn(p) == IF IsMapped(table, p) THEN frame[table[p]].pins ELSE 0

KeepsPins == /\ held' = held
             /\ \A p \in PageIds : PinsIn(p)' = PinsIn(p)

AddsPin(t, p) == /\ MayPin(t)
                 /\ held' = [held EXCEPT ![t][p] = @ + 1]
                 /\ PinsIn(p)' = PinsIn(p) + 1
                 /\ \A q \in PageIds \ {p} : PinsIn(q)' = PinsIn(q)

DropsPin(t, p) == /\ held[t][p] > 0
                  /\ held' = [held EXCEPT ![t][p] = @ - 1]
                  /\ PinsIn(p)' = PinsIn(p) - 1
                  /\ \A q \in PageIds \ {p} : PinsIn(q)' = PinsIn(q)

-----------------------------------------------------------------------------
\* Counting pins.

\* There are finitely many pins.
LEMMA PinsFinite ==
  ASSUME PinsFit, NEW p \in PageIds
  PROVE  /\ IsFiniteSet(PinsOn(p))
         /\ Cardinality(PinsOn(p)) \in Nat
         /\ IsFiniteSet(Threads \X (1 .. MaxHeld))
         /\ Cardinality(Threads \X (1 .. MaxHeld)) <= MaxPins
<1>1. IsFiniteSet(1 .. MaxHeld) /\ Cardinality(1 .. MaxHeld) = MaxHeld
  BY PoolConstants, FS_Interval
<1>2. /\ IsFiniteSet(Threads \X (1 .. MaxHeld))
      /\ Cardinality(Threads \X (1 .. MaxHeld)) = Cardinality(Threads) * MaxHeld
  BY <1>1, FS_Product DEF PinsFit
<1>3. PinsOn(p) \in SUBSET (Threads \X (1 .. MaxHeld))
  BY DEF PinsOn
<1>4. IsFiniteSet(PinsOn(p))
  BY <1>2, <1>3, FS_Subset
<1> QED BY <1>2, <1>4, FS_CardinalityType DEF PinsFit

\* A caller with a pin to spare does not hold all of them on one page.
LEMMA SparePin ==
  ASSUME TypeOK, NEW t \in Threads, NEW p \in PageIds, held[t][p] <= MaxHeld, MayPin(t)
  PROVE  held[t][p] < MaxHeld
<1> SUFFICES ASSUME held[t][p] >= MaxHeld PROVE FALSE
  BY PoolConstants DEF TypeOK
<1>1. MaxHeld \in Nat /\ \A i \in 1 .. MaxHeld : i <= held[t][p]
  BY PoolConstants DEF TypeOK
<1>2. IsFiniteSet(1 .. MaxHeld) /\ Cardinality(1 .. MaxHeld) = MaxHeld
  BY <1>1, FS_Interval
<1>3. IsFiniteSet(PageIds \X (1 .. MaxHeld))
  <2>1. IsFiniteSet(PageIds)
    BY FrameConstants, FS_Interval DEF PageIds
  <2> QED BY <1>2, <2>1, FS_Product
<1>4. IsFiniteSet(PinsOf(t))
  BY <1>3, FS_Subset DEF PinsOf
<1>5. {p} \X (1 .. MaxHeld) \in SUBSET PinsOf(t)
  BY <1>1 DEF PinsOf
<1>6. Cardinality({p} \X (1 .. MaxHeld)) = MaxHeld
  <2>1. IsFiniteSet({p}) /\ Cardinality({p}) = 1
    BY FS_Singleton
  <2>2. Cardinality({p} \X (1 .. MaxHeld)) = Cardinality({p}) * Cardinality(1 .. MaxHeld)
    BY <1>2, <2>1, FS_Product
  <2> QED BY <1>1, <1>2, <2>1, <2>2
<1>7. Cardinality({p} \X (1 .. MaxHeld)) <= Cardinality(PinsOf(t))
  BY <1>4, <1>5, FS_Subset
<1>8. Cardinality(PinsOf(t)) \in Nat
  BY <1>4, FS_CardinalityType
<1> QED BY <1>1, <1>6, <1>7, <1>8 DEF MayPin

\* A caller without a pin to spare on p still leaves the counter room.
LEMMA PinFits ==
  ASSUME PinsFit, TypeOK, NEW t \in Threads, NEW p \in PageIds, held[t][p] < MaxHeld
  PROVE  Cardinality(PinsOn(p)) < MaxPins
<1>1. <<t, held[t][p] + 1>> \in (Threads \X (1 .. MaxHeld)) \ PinsOn(p)
  BY PoolConstants DEF TypeOK, PinsOn
<1>2. PinsOn(p) \in SUBSET (Threads \X (1 .. MaxHeld)) /\ PinsOn(p) # Threads \X (1 .. MaxHeld)
  BY <1>1 DEF PinsOn
<1>3. /\ Cardinality(PinsOn(p)) <= Cardinality(Threads \X (1 .. MaxHeld))
      /\ Cardinality(PinsOn(p)) # Cardinality(Threads \X (1 .. MaxHeld))
  BY <1>2, PinsFinite, FS_Subset
<1>4. Cardinality(Threads \X (1 .. MaxHeld)) \in Nat
  BY PinsFinite, FS_CardinalityType
<1> QED BY <1>3, <1>4, PinsFinite, FrameConstants

\* One pin more.
LEMMA OnePinMore ==
  ASSUME PinsFit, TypeOK, NEW t \in Threads, NEW p \in PageIds, held[t][p] < MaxHeld,
         held' = [held EXCEPT ![t][p] = @ + 1]
  PROVE  /\ Cardinality(PinsOn(p))' = Cardinality(PinsOn(p)) + 1
         /\ \A q \in PageIds \ {p} : PinsOn(q)' = PinsOn(q)
<1>1. /\ \A u \in Threads : held[u] \in [PageIds -> Nat]
      /\ \A u \in Threads, q \in PageIds :
           held'[u][q] = IF u = t /\ q = p THEN held[t][p] + 1 ELSE held[u][q]
  BY DEF TypeOK
<1>2. <<t, held[t][p] + 1>> \in (Threads \X (1 .. MaxHeld)) \ PinsOn(p)
  BY <1>1, PoolConstants DEF PinsOn
<1>3. ASSUME NEW q \in Threads \X (1 .. MaxHeld)
      PROVE  q[2] <= held'[q[1]][p] <=> q[2] <= held[q[1]][p] \/ q = <<t, held[t][p] + 1>>
  <2>1. q[1] \in Threads /\ q[2] \in Nat /\ q = <<q[1], q[2]>>
    BY PoolConstants
  <2>2. CASE q[1] = t
    BY <1>1, <2>1, <2>2
  <2>3. CASE q[1] # t
    BY <1>1, <2>1, <2>3
  <2> QED BY <2>2, <2>3
<1>4. PinsOn(p)' = PinsOn(p) \cup {<<t, held[t][p] + 1>>}
  BY <1>2, <1>3 DEF PinsOn
<1>5. \A q \in PageIds \ {p} : PinsOn(q)' = PinsOn(q)
  BY <1>1 DEF PinsOn
<1>6. Cardinality(PinsOn(p) \cup {<<t, held[t][p] + 1>>}) = Cardinality(PinsOn(p)) + 1
  BY <1>2, PinsFinite, FS_AddElement
<1> QED BY <1>4, <1>5, <1>6

\* One pin less.
LEMMA OnePinLess ==
  ASSUME PinsFit, TypeOK, NEW t \in Threads, NEW p \in PageIds,
         held[t][p] > 0, held[t][p] <= MaxHeld,
         held' = [held EXCEPT ![t][p] = @ - 1]
  PROVE  /\ Cardinality(PinsOn(p))' = Cardinality(PinsOn(p)) - 1
         /\ \A q \in PageIds \ {p} : PinsOn(q)' = PinsOn(q)
<1>1. /\ \A u \in Threads : held[u] \in [PageIds -> Nat]
      /\ \A u \in Threads, q \in PageIds :
           held'[u][q] = IF u = t /\ q = p THEN held[t][p] - 1 ELSE held[u][q]
  BY DEF TypeOK
<1>2. <<t, held[t][p]>> \in PinsOn(p)
  BY <1>1, PoolConstants DEF PinsOn
<1>3. ASSUME NEW q \in Threads \X (1 .. MaxHeld)
      PROVE  q[2] <= held'[q[1]][p] <=> q[2] <= held[q[1]][p] /\ q # <<t, held[t][p]>>
  <2>1. q[1] \in Threads /\ q[2] \in Nat /\ q = <<q[1], q[2]>>
    BY PoolConstants
  <2>2. CASE q[1] = t
    BY <1>1, <2>1, <2>2
  <2>3. CASE q[1] # t
    BY <1>1, <2>1, <2>3
  <2> QED BY <2>2, <2>3
<1>4. PinsOn(p)' = PinsOn(p) \ {<<t, held[t][p]>>}
  BY <1>2, <1>3 DEF PinsOn
<1>5. \A q \in PageIds \ {p} : PinsOn(q)' = PinsOn(q)
  BY <1>1 DEF PinsOn
<1>6. Cardinality(PinsOn(p) \ {<<t, held[t][p]>>}) = Cardinality(PinsOn(p)) - 1
  BY <1>2, PinsFinite, FS_RemoveElement
<1> QED BY <1>4, <1>5, <1>6

-----------------------------------------------------------------------------
\* What a step does to the pins.

\* The pins after the operations on a frame.
LEMMA FramePins ==
  ASSUME NEW fr \in FrameRecord
  PROVE  /\ \A r \in {MarkReferenced(fr), MarkUnreferenced(fr), MarkDirty(fr), ClearDirty(fr),
                      SetFree(fr), SetResident(fr), Reserve(fr), SetResident(ClearDirty(fr))} :
              r.pins = fr.pins
         /\ HasMeta(fr) /\ fr.pins < MaxPins => MarkReferenced(Pin(fr)).pins = fr.pins + 1
         /\ HasMeta(fr) /\ fr.pins > 0 => Unpin(fr).pins = fr.pins - 1
<1>1. \A r \in FrameRecord : MarkReferenced(r).pins = r.pins
  BY DEF MarkReferenced, FrameRecord
<1>2. /\ MarkUnreferenced(fr).pins = fr.pins
      /\ MarkDirty(fr).pins = fr.pins
  BY DEF MarkUnreferenced, MarkDirty, FrameRecord
<1>3. ClearDirty(fr) \in FrameRecord /\ ClearDirty(fr).pins = fr.pins
  BY DEF ClearDirty, FrameRecord
<1>4. \A r \in FrameRecord : SetResident(r).pins = r.pins
  BY DEF SetResident, FrameRecord
<1>5. SetFree(fr).pins = fr.pins /\ Reserve(fr).pins = fr.pins
  BY DEF SetFree, Reserve, FrameRecord
<1>6. /\ HasMeta(fr) /\ fr.pins < MaxPins =>
           Pin(fr) \in FrameRecord /\ Pin(fr).pins = fr.pins + 1
      /\ HasMeta(fr) /\ fr.pins > 0 => Unpin(fr).pins = fr.pins - 1
  BY FrameConstants DEF Pin, Unpin, FrameRecord
<1> QED BY <1>1, <1>2, <1>3, <1>4, <1>5, <1>6

\* A frame that was given a page has one pin.
LEMMA LoadedPins ==
  ASSUME NEW fr \in FrameRecord, NEW p \in PageIds
  PROVE  /\ MarkReferenced(Pin(LoadPage(fr, p))).pins = 1
         /\ NewFrameFor(fr, p).pins = 1
BY LoadedState

\* A page's pins change with its own frame only.
LEMMA OneFramePins ==
  ASSUME ShapeInv, NEW f \in FrameIds, NEW r, UNCHANGED table,
         frame' = [frame EXCEPT ![f] = r]
  PROVE  /\ \A p \in PageIds : table[p] # f => PinsIn(p)' = PinsIn(p)
         /\ \A p \in PageIds : table[p] = f => PinsIn(p) = frame[f].pins /\ PinsIn(p)' = r.pins
         /\ \A p, q \in PageIds : table[p] = f /\ table[q] = f => p = q
<1>1. frame'[f] = r /\ \A g \in FrameIds \ {f} : frame'[g] = frame[g]
  BY DEF ShapeInv, LoaderInv, TypeOK
<1>2. \A p \in PageIds : IsMapped(table, p) => table[p] \in FrameIds
  BY MappedFrame
<1>3. \A p, q \in PageIds : table[p] = f /\ table[q] = f => p = q
  BY MappedFrame, PoolSize DEF IsMapped, FrameIds, None
<1> QED BY <1>1, <1>2, <1>3, PoolSize DEF PinsIn, IsMapped, FrameIds, None

\* Nor does a frame that keeps its count change any.
LEMMA SamePins ==
  ASSUME ShapeInv, NEW f \in FrameIds, NEW r, UNCHANGED <<table, held>>,
         frame' = [frame EXCEPT ![f] = r], r.pins = frame[f].pins \/ ~Mapped(f)
  PROVE  KeepsPins
BY OneFramePins DEF KeepsPins, Mapped

\* A page enters the table pinned once, into a frame without pins.
LEMMA PinEnters ==
  ASSUME ShapeInv, NEW f \in FrameIds, NEW p \in PageIds, ~IsMapped(table, p),
         frame'[f].pins = 1, table'[p] = f,
         \A g \in FrameIds \ {f} : frame'[g] = frame[g],
         \A q \in PageIds \ {p} : \/ table'[q] = table[q] /\ table[q] # f
                                  \/ table'[q] = None /\ table[q] = f /\ frame[f].pins = 0
  PROVE  PinsIn(p)' = PinsIn(p) + 1 /\ \A q \in PageIds \ {p} : PinsIn(q)' = PinsIn(q)
<1>1. PinsIn(p) = 0 /\ PinsIn(p)' = 1
  BY PoolSize DEF PinsIn, IsMapped, FrameIds, None
<1>2. ASSUME NEW q \in PageIds \ {p} PROVE PinsIn(q)' = PinsIn(q)
  <2>1. CASE table'[q] = table[q] /\ table[q] # f
    BY <2>1, MappedFrame DEF PinsIn, IsMapped
  <2>2. CASE table'[q] = None /\ table[q] = f /\ frame[f].pins = 0
    BY <2>2 DEF PinsIn, IsMapped
  <2> QED BY <2>1, <2>2
<1> QED BY <1>1, <1>2

\* A page without pins leaves the table.
LEMMA UnpinnedLeaves ==
  ASSUME ShapeInv, NEW f \in FrameIds, NEW p \in PageIds, table[p] = f, frame[f].pins = 0,
         Discard(f, p), held' = held
  PROVE  KeepsPins
<1>1. /\ \A g \in FrameIds \ {f} : frame'[g] = frame[g]
      /\ \A q \in PageIds : table'[q] = IF q = p THEN None ELSE table[q]
  BY DEF Discard, Remove, ShapeInv, LoaderInv, TypeOK
<1>2. \A q \in PageIds : table[q] = f => q = p
  BY MappedFrame, PoolSize DEF IsMapped, FrameIds, None
<1>3. \A q \in PageIds : IsMapped(table, q) => table[q] \in FrameIds
  BY MappedFrame
<1> QED BY <1>1, <1>2, <1>3 DEF KeepsPins, PinsIn, IsMapped

\* A hit pins the page's frame once more: the counter has room.
LEMMA HitPins ==
  ASSUME SafeCallers, PinsFit, ShapeInv, PinInv, NEW t \in Threads, FetchHit(t)
  PROVE  \E p \in PageIds : AddsPin(t, p)
<1> USE DEF At
<1>1. PICK p \in PageIds : p = loc[t].page /\ IsMapped(table, p)
  BY DEF FetchHit, ShapeInv, LoaderInv, ControlOK
<1>2. PICK f \in FrameIds : f = table[p] /\ frame[f] \in FrameRecord /\ HasMeta(frame[f])
  BY <1>1, MappedFrame
<1>3. MayPin(t)
  BY DEF FetchHit, PinInv, ShapeInv, CallOK, FetchOnly
<1>4. frame[f].pins < MaxPins
  <2>1. Cardinality(PinsOn(p)) = frame[f].pins /\ held[t][p] <= MaxHeld
    BY <1>1, <1>2 DEF PinInv, PinsExact
  <2> QED BY <1>3, <2>1, SparePin, PinFits DEF ShapeInv, LoaderInv
<1>5. /\ table' = table /\ held' = [held EXCEPT ![t][p] = @ + 1]
      /\ frame' = [frame EXCEPT ![f] = MarkReferenced(Pin(frame[f]))]
  BY <1>1, <1>2 DEF FetchHit
<1>6. MarkReferenced(Pin(frame[f])).pins = frame[f].pins + 1
  BY <1>2, <1>4, FramePins
<1>7. /\ PinsIn(p)' = PinsIn(p) + 1
      /\ \A q \in PageIds \ {p} : PinsIn(q)' = PinsIn(q)
  BY <1>2, <1>5, <1>6, OneFramePins
<1> QED BY <1>3, <1>5, <1>7 DEF AddsPin

\* A load that is published, an eviction that commits and a new page pin their page.
LEMMA EntryPins ==
  ASSUME SafeCallers, ShapeInv, PinInv, NEW t \in Threads,
         PublishFree(t) \/ CommitEviction(t) \/ InstallNew(t) \/ NewFromFree(t)
  PROVE  \E p \in PageIds : AddsPin(t, p)
<1> USE DEF At
<1>a. TypeOK
  BY DEF ShapeInv, LoaderInv
<1>1. CASE PublishFree(t)
  <2>1. PICK p \in PageIds, f \in FrameIds : p = loc[t].page /\ f = loc[t].frame
    BY <1>1, OwnFrame DEF PublishFree
  <2>2. /\ ~IsMapped(table, p) /\ frame[f].pins = 1 /\ MayPin(t)
        /\ \A q \in PageIds : table[q] # f
    BY <1>1, <2>1 DEF PublishFree, ShapeInv, LoaderInv, ControlOK, LoadingNotResident, Loading,
                      WorkOK, FramesAccounted, Fills, Mapped, CallOK, FetchOnly, PinInv
  <2>3. /\ frame' = frame /\ held' = [held EXCEPT ![t][p] = @ + 1]
        /\ \A q \in PageIds : table'[q] = IF q = p THEN f ELSE table[q]
    BY <1>a, <1>1, <2>1 DEF PublishFree, Insert, TypeOK
  <2>4. PinsIn(p)' = PinsIn(p) + 1 /\ \A q \in PageIds \ {p} : PinsIn(q)' = PinsIn(q)
    BY <2>2, <2>3, PinEnters
  <2> QED BY <2>2, <2>3, <2>4 DEF AddsPin
<1>2. CASE CommitEviction(t) \/ InstallNew(t)
  <2>1. PICK p \in PageIds, f \in FrameIds :
          p = loc[t].page /\ f = loc[t].frame /\ frame[f] \in FrameRecord
    BY <1>2, OwnFrame DEF CommitEviction, InstallNew, Reserving
  <2>2. PICK o \in PageIds : o = loc[t].old /\ table[o] = f /\ frame[f].pins = 0
    BY <1>2, <2>1 DEF CommitEviction, InstallNew, ShapeInv, WorkOK, Evicting
  <2>3. \A q \in PageIds : table[q] = f => q = o
    BY <2>2, MappedFrame, PoolSize DEF IsMapped, FrameIds, None
  <2>4. ~IsMapped(table, p) /\ MayPin(t)
    BY <1>2, <2>1 DEF CommitEviction, InstallNew, CanReplace, ShapeInv, CallOK, FetchOnly, PinInv
  <2>5. /\ held' = [held EXCEPT ![t][p] = @ + 1]
        /\ table' = [table EXCEPT ![o] = None, ![p] = f]
    BY <1>2, <2>1, <2>2 DEF CommitEviction, InstallNew, Replace
  <2>6. frame'[f].pins = 1 /\ \A g \in FrameIds \ {f} : frame'[g] = frame[g]
    <3>1. PICK r \in {MarkReferenced(Pin(LoadPage(frame[f], p))), NewFrameFor(frame[f], p)} :
            frame' = [frame EXCEPT ![f] = r]
      BY <1>2, <2>1 DEF CommitEviction, InstallNew
    <3>2. r.pins = 1
      BY <2>1, <3>1, LoadedPins
    <3> QED BY <1>a, <3>1, <3>2 DEF TypeOK
  <2>7. \A q \in PageIds : table'[q] = IF q = p THEN f ELSE IF q = o THEN None ELSE table[q]
    BY <1>a, <2>5 DEF TypeOK
  <2>8. PinsIn(p)' = PinsIn(p) + 1 /\ \A q \in PageIds \ {p} : PinsIn(q)' = PinsIn(q)
    BY <2>2, <2>3, <2>4, <2>6, <2>7, PinEnters
  <2> QED BY <2>4, <2>5, <2>8 DEF AddsPin
<1>3. CASE NewFromFree(t)
  <2>1. PICK p \in PageIds, f \in FrameIds :
          /\ p = nextPage /\ f = Head(freeList) /\ frame[f] \in FrameRecord
          /\ \A q \in PageIds : table[q] # f
    BY <1>a, <1>3, FirstFree, FrameConstants DEF NewFromFree, TypeOK, PageIds, Mapped
  <2>2. ~IsMapped(table, p) /\ MayPin(t)
    BY <1>3, <2>1, FreshId DEF NewFromFree, MayIssue
  <2>3. /\ held' = [held EXCEPT ![t][p] = @ + 1]
        /\ table' = [table EXCEPT ![p] = f]
        /\ frame' = [frame EXCEPT ![f] = NewFrameFor(frame[f], p)]
    BY <1>3, <2>1 DEF NewFromFree, Insert
  <2>4. frame'[f].pins = 1 /\ \A g \in FrameIds \ {f} : frame'[g] = frame[g]
    BY <1>a, <2>1, <2>3, LoadedState DEF TypeOK
  <2>5. \A q \in PageIds : table'[q] = IF q = p THEN f ELSE table[q]
    BY <1>a, <2>3 DEF TypeOK
  <2>6. PinsIn(p)' = PinsIn(p) + 1 /\ \A q \in PageIds \ {p} : PinsIn(q)' = PinsIn(q)
    BY <2>1, <2>2, <2>4, <2>5, PinEnters
  <2> QED BY <2>2, <2>3, <2>6 DEF AddsPin
<1> QED BY <1>1, <1>2, <1>3

\* unpin_page takes one away.
LEMMA UnpinDrops ==
  ASSUME ShapeInv, NEW t \in Threads, NEW p \in PageIds, UnpinPage(t, p)
  PROVE  DropsPin(t, p)
<1>1. PICK f \in FrameIds : f = table[p] /\ frame[f] \in FrameRecord /\ HasMeta(frame[f])
  BY MappedFrame DEF UnpinPage
<1>2. /\ table' = table /\ frame' = [frame EXCEPT ![f] = Unpin(frame[f])]
      /\ frame[f].pins > 0
  BY <1>1 DEF UnpinPage, IsPinned
<1>3. Unpin(frame[f]).pins = frame[f].pins - 1
  BY <1>1, <1>2, FramePins
<1>4. /\ PinsIn(p)' = PinsIn(p) - 1
      /\ \A q \in PageIds \ {p} : PinsIn(q)' = PinsIn(q)
  BY <1>1, <1>2, <1>3, OneFramePins
<1> QED BY <1>4 DEF UnpinPage, DropsPin

\* No other step changes the pins of a page.
LEMMA PinsMove ==
  ASSUME SafeCallers, PinsFit, ShapeInv, PinInv, NEW t \in Threads,
         Silent(t) \/ Marks(t) \/ Transfers(t)
  PROVE  KeepsPins \/ \E p \in PageIds : AddsPin(t, p) \/ DropsPin(t, p)
<1> USE DEF At
<1>a. TypeOK
  BY DEF ShapeInv, LoaderInv
<1>1. CASE Silent(t)
  BY <1>1 DEF Silent, KeepsPins, PinsIn, IsMapped
<1>2. CASE ClockSecondChance(t)
  <2>1. PICK f \in FrameIds : f = hand /\ frame[f] \in FrameRecord
    BY <1>a DEF TypeOK
  <2> QED BY <1>2, <2>1, FramePins, SamePins DEF ClockSecondChance
<1>3. CASE FlushClear(t)
  <2>1. PICK f \in FrameIds : f = loc[t].frame /\ frame[f] \in FrameRecord
    BY <1>3, OwnFrame DEF FlushClear, Reserving
  <2> QED BY <1>3, <2>1, FramePins, SamePins DEF FlushClear
<1>4. CASE FlushAll(t)
  <2>1. \A f \in FrameIds : frame'[f] \in {frame[f], SetResident(ClearDirty(frame[f]))}
    BY <1>4 DEF FlushAll
  <2>2. \A f \in FrameIds : frame'[f].pins = frame[f].pins
    BY <1>a, <2>1, FramePins DEF TypeOK
  <2> QED BY <1>4, <2>2, MappedFrame DEF FlushAll, KeepsPins, PinsIn, IsMapped
<1>5. ASSUME NEW p \in PageIds, MarkDirtyPage(t, p) \/ FlushClean(t, p) PROVE KeepsPins
  <2>1. PICK f \in FrameIds : f = table[p] /\ frame[f] \in FrameRecord
    BY <1>5, MappedFrame DEF MarkDirtyPage, FlushClean
  <2>2. PICK r \in {MarkDirty(frame[f]), SetResident(frame[f])} :
          frame' = [frame EXCEPT ![f] = r] /\ UNCHANGED <<table, held>>
    BY <1>5, <2>1 DEF MarkDirtyPage, FlushClean
  <2> QED BY <2>1, <2>2, FramePins, SamePins
<1>6. CASE FetchFromFree(t)
  <2>1. PICK f \in FrameIds : f = Head(freeList) /\ frame[f] \in FrameRecord
    BY <1>a, <1>6, FirstFree DEF FetchFromFree, TypeOK
  <2> QED BY <1>6, <2>1, FramePins, SamePins DEF FetchFromFree
<1>7. CASE ReadFree(t)
  <2>1. PICK f \in FrameIds : f = loc[t].frame /\ ~Mapped(f)
    BY <1>7, OwnFrame DEF ReadFree, Reserving, ShapeInv, FramesAccounted, Fills
  <2> QED BY <1>7, <2>1, SamePins DEF ReadFree
<1>8. CASE ReadFreeFails(t) \/ FetchWriteFails(t) \/ FetchReadFails(t) \/ NewWriteFails(t)
           \/ FlushWriteFails(t) \/ FlushDone(t)
  <2>1. PICK f \in FrameIds : f = loc[t].frame /\ frame[f] \in FrameRecord
    BY <1>8, OwnFrame DEF ReadFreeFails, FetchWriteFails, FetchReadFails, NewWriteFails,
                          FlushWriteFails, FlushDone, Reserving
  <2>2. PICK r \in {SetFree(frame[f]), SetResident(frame[f])} :
          frame' = [frame EXCEPT ![f] = r] /\ UNCHANGED <<table, held>>
    BY <1>8, <2>1 DEF ReadFreeFails, FetchWriteFails, FetchReadFails, AbandonFetch,
                      NewWriteFails, FlushWriteFails, FlushDone
  <2> QED BY <2>1, <2>2, FramePins, SamePins
<1>9. CASE ClockVictim(t)
  <2>1. PICK f \in FrameIds : f = hand /\ frame[f] \in FrameRecord
    BY <1>a DEF TypeOK
  <2> QED BY <1>9, <2>1, FramePins, SamePins DEF ClockVictim
<1>10. ASSUME NEW p \in PageIds, FlushPage(t, p) \/ DeleteDirty(t, p) PROVE KeepsPins
  <2>1. PICK op : BeginFlush(t, p, op)
    BY <1>10 DEF FlushPage, DeleteDirty
  <2>2. PICK f \in FrameIds : f = table[p] /\ frame[f] \in FrameRecord
    BY <2>1, MappedFrame DEF BeginFlush
  <2> QED BY <2>1, <2>2, FramePins, SamePins DEF BeginFlush
<1>11. CASE DeleteDone(t)
  <2>1. PICK f \in FrameIds, p \in PageIds : f = loc[t].frame /\ p = loc[t].page
    BY <1>11, OwnFrame DEF DeleteDone, Reserving
  <2> QED BY <1>11, <2>1, UnpinnedLeaves DEF DeleteDone, ShapeInv, WorkOK, Flushing
<1>12. ASSUME NEW p \in PageIds, DeleteClean(t, p) PROVE KeepsPins
  <2>1. PICK f \in FrameIds : f = table[p] /\ frame[f] \in FrameRecord
    BY <1>12, MappedFrame DEF DeleteClean
  <2> QED BY <1>12, <2>1, UnpinnedLeaves DEF DeleteClean, Unused, IsPinned, FrameRecord
<1> QED
  BY <1>1, <1>2, <1>3, <1>4, <1>5, <1>6, <1>7, <1>8, <1>9, <1>10, <1>11, <1>12,
     HitPins, EntryPins, UnpinDrops
  DEF Marks, Transfers

-----------------------------------------------------------------------------
\* The invariant holds of a new pool.
LEMMA PinInit == Init => PinInv
<1> SUFFICES ASSUME Init PROVE PinInv
  OBVIOUS
<1>1. \A t \in Threads, p \in PageIds : held[t][p] = 0 /\ held[t][p] <= MaxHeld
  BY PoolConstants DEF Init
<1>2. \A p \in PageIds : PinsOn(p) = {} /\ ~IsMapped(table, p)
  BY <1>1, PoolConstants DEF PinsOn, Init, EmptyTable, IsMapped
<1>3. PinsExact
  BY <1>1, <1>2, FS_EmptySet DEF PinsExact
<1>4. \A t \in Threads : loc[t].op \notin {"fetch", "new"}
  BY DEF Init, NoLocals
<1> QED BY <1>3, <1>4 DEF PinInv

\* Counter and callers stay in step.
LEMMA PinsStayExact ==
  ASSUME PinsFit, TypeOK, PinsExact, NEW t \in Threads,
         KeepsPins \/ \E p \in PageIds : AddsPin(t, p) \/ DropsPin(t, p)
  PROVE  PinsExact'
<1>a. \A p \in PageIds : /\ \A u \in Threads : held[u][p] <= MaxHeld
                         /\ Cardinality(PinsOn(p)) = PinsIn(p)
  BY DEF PinsExact, PinsIn
<1>b. SUFFICES \A p \in PageIds : /\ \A u \in Threads : held'[u][p] <= MaxHeld
                                  /\ Cardinality(PinsOn(p))' = PinsIn(p)'
  BY DEF PinsExact, PinsIn
<1>1. CASE KeepsPins
  BY <1>a, <1>1 DEF KeepsPins, PinsOn
<1>2. ASSUME NEW p \in PageIds, AddsPin(t, p)
      PROVE  \A q \in PageIds : /\ \A u \in Threads : held'[u][q] <= MaxHeld
                                /\ Cardinality(PinsOn(q))' = PinsIn(q)'
  <2>1. held[t][p] < MaxHeld
    BY <1>a, <1>2, SparePin DEF AddsPin
  <2>2. \A u \in Threads, q \in PageIds :
          held'[u][q] = IF u = t /\ q = p THEN held[t][p] + 1 ELSE held[u][q]
    BY <1>2 DEF AddsPin, TypeOK
  <2>3. held[t][p] \in Nat /\ MaxHeld \in Nat
    BY PoolConstants DEF TypeOK
  <2>4. \A q \in PageIds, u \in Threads : held'[u][q] <= MaxHeld
    BY <1>a, <2>1, <2>2, <2>3
  <2>5. /\ Cardinality(PinsOn(p))' = Cardinality(PinsOn(p)) + 1
        /\ \A q \in PageIds \ {p} : PinsOn(q)' = PinsOn(q)
    BY <1>2, <2>1, OnePinMore DEF AddsPin
  <2> QED BY <1>a, <1>2, <2>4, <2>5 DEF AddsPin
<1>3. ASSUME NEW p \in PageIds, DropsPin(t, p)
      PROVE  \A q \in PageIds : /\ \A u \in Threads : held'[u][q] <= MaxHeld
                                /\ Cardinality(PinsOn(q))' = PinsIn(q)'
  <2>1. \A u \in Threads, q \in PageIds :
          held'[u][q] = IF u = t /\ q = p THEN held[t][p] - 1 ELSE held[u][q]
    BY <1>3 DEF DropsPin, TypeOK
  <2>2. held[t][p] \in Nat /\ MaxHeld \in Nat
    BY PoolConstants DEF TypeOK
  <2>3. \A q \in PageIds, u \in Threads : held'[u][q] <= MaxHeld
    BY <1>a, <2>1, <2>2
  <2>4. /\ Cardinality(PinsOn(p))' = Cardinality(PinsOn(p)) - 1
        /\ \A q \in PageIds \ {p} : PinsOn(q)' = PinsOn(q)
    BY <1>a, <1>3, OnePinLess DEF DropsPin
  <2> QED BY <1>a, <1>3, <2>3, <2>4 DEF DropsPin
<1> QED BY <1>1, <1>2, <1>3

\* A step of a thread preserves the invariant ...
LEMMA PinStep ==
  ASSUME SafeCallers, PinsFit, ShapeInv, PinInv, NEW t \in Threads,
         Call(t) \/ Step(t) \/ SpuriousWake(t)
  PROVE  PinInv'
<1>1. KeepsPins \/ \E p \in PageIds : AddsPin(t, p) \/ DropsPin(t, p)
  BY Effects, PinsMove
<1>2. PinsExact'
  BY <1>1, PinsStayExact DEF PinInv, ShapeInv, LoaderInv
<1>3. ASSUME NEW u \in Threads \ {t}, loc'[u].op \in {"fetch", "new"}
      PROVE  MayPin(u)' \/ At(u, "notify")'
  <2>1. loc'[u] = loc[u] /\ (pc'[u] = "notify" <=> pc[u] = "notify")
    BY OthersUse DEF Locations
  <2>2. held'[u] = held[u]
    BY <1>1 DEF KeepsPins, AddsPin, DropsPin, ShapeInv, LoaderInv, TypeOK
  <2> QED BY <1>3, <2>1, <2>2 DEF PinInv, MayPin, PinsOf, At
<1>4. ASSUME loc'[t].op \in {"fetch", "new"}
      PROVE  MayPin(t)' \/ At(t, "notify")'
  <2>1. PinCall(t)
    BY OwnCall DEF CallStep
  <2>2. CASE At(t, "notify")'
    BY <2>2
  <2>3. CASE held' = held /\ MayPin(t)
    BY <2>3 DEF MayPin, PinsOf
  <2> QED BY <1>4, <2>1, <2>2, <2>3 DEF PinCall, PinInv
<1> QED BY <1>2, <1>3, <1>4 DEF PinInv

\* ... and so does every step.
LEMMA PinNext == SafeCallers /\ PinsFit /\ ShapeInv /\ PinInv /\ [Next]_vars => PinInv'
<1> SUFFICES ASSUME SafeCallers, PinsFit, ShapeInv, PinInv, [Next]_vars PROVE PinInv'
  OBVIOUS
<1>1. CASE UNCHANGED vars
  BY <1>1 DEF PinInv, PinsExact, PinsOn, MayPin, PinsOf, IsMapped, At, vars
<1>2. CASE Next
  BY <1>2, PinStep DEF Next
<1> QED BY <1>1, <1>2

\* ... and it holds throughout.
LEMMA PinHolds == SafeCallers /\ PinsFit /\ Spec => []PinInv
<1> SUFFICES ASSUME SafeCallers, PinsFit PROVE Spec => []PinInv
  OBVIOUS
<1>1. ShapeInv /\ PinInv /\ [Next]_vars => PinInv'
  BY PinNext
<1>2. Init => PinInv
  BY PinInit
<1> QED BY <1>1, <1>2, ShapeHolds, PTL DEF Spec

\* pin_count is the number of pins the callers hold; a page nobody can find has none.
THEOREM PinsAreExact == SafeCallers /\ PinsFit /\ Spec => []PinsExact
<1>1. PinInv => PinsExact
  BY DEF PinInv
<1> QED BY <1>1, PinHolds, PTL

\* A page somebody holds is in the table and its frame is pinned.
LEMMA HeldIsPinned ==
  ASSUME PinsFit, ShapeInv, PinInv, NEW t \in Threads, NEW p \in PageIds, held[t][p] > 0
  PROVE  /\ IsMapped(table, p)
         /\ table[p] \in FrameIds
         /\ frame[table[p]].pins # 0
<1>1. <<t, 1>> \in PinsOn(p)
  <2>1. held[t][p] \in Nat /\ held[t][p] <= MaxHeld
    BY DEF PinInv, PinsExact, ShapeInv, LoaderInv, TypeOK
  <2> QED BY <2>1, PoolConstants DEF PinsOn
<1>2. Cardinality(PinsOn(p)) # 0
  BY <1>1, PinsFinite, FS_EmptySet
<1> QED BY <1>2, MappedFrame DEF PinInv, PinsExact

\* A page that is held before and after a step stays in its frame.
LEMMA HeldStays ==
  ASSUME SafeCallers, PinsFit, ShapeInv, PinInv, ShapeInv', PinInv', [Next]_vars,
         NEW t \in Threads, NEW p \in PageIds, held[t][p] > 0, held'[t][p] > 0
  PROVE  table'[p] = table[p] /\ frame'[table[p]].page = p
<1>1. IsMapped(table, p) /\ table[p] \in FrameIds
  BY HeldIsPinned
<1>2. table'[p] # None /\ frame'[table'[p]].page = p
  <2>1. <<t, 1>> \in PinsOn(p)'
    <3>1. held'[t][p] \in Nat /\ held'[t][p] <= MaxHeld
      BY DEF PinInv, PinsExact, ShapeInv, LoaderInv, TypeOK
    <3> QED BY <3>1, PoolConstants DEF PinsOn
  <2>2. PinsOn(p)' # {}
    BY <2>1
  <2>3. Cardinality(PinsOn(p))' # 0
    <3>1. IsFiniteSet(Threads \X (1 .. MaxHeld)) /\ PinsOn(p)' \in SUBSET (Threads \X (1 .. MaxHeld))
      BY PinsFinite DEF PinsOn
    <3>2. IsFiniteSet(PinsOn(p)')
      BY <3>1, FS_Subset
    <3>3. Cardinality(PinsOn(p)') # 0
      BY <2>2, <3>2, FS_EmptySet
    <3> QED BY <3>3
  <2>4. table'[p] # None
    BY <2>3 DEF PinInv, PinsExact, IsMapped
  <2> QED BY <2>4 DEF ShapeInv, MappingExact, IsMapped
<1>3. CASE UNCHANGED vars
  BY <1>2, <1>3 DEF vars
<1>4. CASE Next
  <2>1. PICK u \in Threads : Call(u) \/ Step(u) \/ SpuriousWake(u)
    BY <1>4 DEF Next
  <2>2. Stays(u) \/ \E f \in FrameIds : Moves(u, f)
    BY <2>1, HowFramesMove
  <2>3. table'[p] = table[p]
    <3>1. CASE Stays(u)
      BY <3>1 DEF Stays
    <3>2. ASSUME NEW f \in FrameIds, Moves(u, f) PROVE table'[p] = table[p]
      BY <1>1, <1>2, <3>2 DEF Moves, IsMapped
    <3> QED BY <2>2, <3>1, <3>2
  <2> QED BY <1>2, <2>3
<1> QED BY <1>3, <1>4

\* The frame a caller got for a page stays that page's frame while the caller keeps a pin.
THEOREM PinnedStay == SafeCallers /\ PinsFit /\ Spec => PinnedStaysPut
<1> SUFFICES ASSUME SafeCallers, PinsFit PROVE Spec => PinnedStaysPut
  OBVIOUS
<1>1. ShapeInv /\ PinInv /\ ShapeInv' /\ PinInv' /\ [Next]_vars =>
        [\A t \in Threads, p \in PageIds :
           held[t][p] > 0 /\ held'[t][p] > 0 =>
             /\ table'[p] = table[p]
             /\ frame'[table[p]].page = p]_vars
  BY HeldStays
<1> QED BY <1>1, ShapeHolds, PinHolds, PTL DEF Spec, PinnedStaysPut

\* Where nobody flushes, a page somebody holds can be unpinned at any time: no eviction
\* and no deletion reserves its frame.
THEOREM HeldPagesUnpin ==
  SafeCallers /\ PinsFit /\ Flushers = {} /\ Spec => []HeldPageUnpins
<1> SUFFICES ASSUME SafeCallers, PinsFit, Flushers = {} PROVE Spec => []HeldPageUnpins
  OBVIOUS
<1>1. ShapeInv /\ PinInv => HeldPageUnpins
  <2> SUFFICES ASSUME ShapeInv, PinInv, NEW t \in Threads, NEW p \in PageIds, held[t][p] > 0
               PROVE  IsMapped(table, p) /\ ~IsReserved(frame[table[p]])
    BY DEF HeldPageUnpins
  <2>1. IsMapped(table, p) /\ table[p] \in FrameIds /\ frame[table[p]].pins # 0
    BY HeldIsPinned
  <2>2. ASSUME NEW u \in Threads, Owns(u, table[p]) PROVE FALSE
    <3>1. CASE pc[u] = "readFree"
      BY <2>1, <2>2, <3>1 DEF Owns, Fills, Mapped, ShapeInv, FramesAccounted
    <3>2. CASE pc[u] \in Evicting
      BY <2>1, <2>2, <3>2 DEF Owns, ShapeInv, WorkOK
    <3>3. CASE pc[u] \in Flushing
      BY <2>1, <2>2, <3>3 DEF Owns, ShapeInv, WorkOK, CallOK
    <3> QED BY <2>2, <3>1, <3>2, <3>3 DEF Owns, Reserving, Evicting, Flushing
  <2> QED BY <2>1, <2>2 DEF ShapeInv, ReservedHasOwner
<1> QED BY <1>1, ShapeHolds, PinHolds, PTL

-----------------------------------------------------------------------------
\* What a step does to the clock.

\* Only a scan moves the clock; it begins with state_lock and ends by giving it up.
ClockStep(t) ==
  \/ ClockSkip(t) \/ ClockSecondChance(t) \/ ClockVictim(t)
  \/ /\ UNCHANGED <<clock, stateLock>>
     /\ pc'[t] = "scan" <=> pc[t] = "scan"
     /\ pc'[t] = "noVictim" <=> pc[t] = "noVictim"
  \/ /\ UNCHANGED clock
     /\ LockFree /\ pc'[t] = "scan"
  \/ /\ UNCHANGED clock
     /\ At(t, "noVictim") /\ stateLock' = NoThread /\ pc'[t] \notin {"scan", "noVictim"}

\* Every step of a thread is one of these.
LEMMA ClockSteps ==
  ASSUME SafeCallers, ShapeInv, NEW t \in Threads, Call(t) \/ Step(t) \/ SpuriousWake(t)
  PROVE  ClockStep(t)
<1> USE DEF At
<1>a. pc \in [Threads -> Locations] /\ loc \in [Threads -> Locals]
  BY DEF ShapeInv, LoaderInv, TypeOK
<1>1. ASSUME NEW p \in PageIds, CallFetch(t, p) PROVE ClockStep(t)
  BY <1>1, <1>a DEF ClockStep, CallFetch, GoTo, clock, LockFree
<1>2. CASE FetchHit(t)
  BY <1>2, <1>a DEF ClockStep, FetchHit, Return, GoTo, clock, LockFree
<1>3. CASE FetchBusy(t)
  BY <1>3, <1>a DEF ClockStep, FetchBusy, GoTo, clock, LockFree
<1>4. CASE FetchJoin(t)
  BY <1>4, <1>a DEF ClockStep, FetchJoin, GoTo, clock, LockFree
<1>5. CASE LoadCheck(t)
  BY <1>5, <1>a DEF ClockStep, LoadCheck, GoTo, clock, LockFree
<1>6. CASE FetchFromFree(t)
  BY <1>6, <1>a DEF ClockStep, FetchFromFree, BecomeLoader, GoTo, clock, LockFree
<1>7. CASE ReadFree(t)
  BY <1>7, <1>a DEF ClockStep, ReadFree, GoTo, clock, LockFree
<1>8. CASE PublishFree(t)
  BY <1>8, <1>a DEF ClockStep, PublishFree, WakeAll, clock, LockFree
<1>9. CASE ReadFreeFails(t)
  BY <1>9, <1>a DEF ClockStep, ReadFreeFails, WakeAll, clock, LockFree
<1>10. CASE NotifyLoaders(t)
  BY <1>10, <1>a DEF ClockStep, NotifyLoaders, WakeLoaders, clock, LockFree
<1>11. CASE FetchScan(t)
  BY <1>11, <1>a DEF ClockStep, FetchScan, BecomeLoader, GoTo, clock, LockFree
<1>12. CASE FetchWait(t)
  BY <1>12, <1>a DEF ClockStep, FetchWait, GoTo, clock, LockFree
<1>13. CASE FetchNoEvictable(t)
  BY <1>13, <1>a DEF ClockStep, FetchNoEvictable, Return, GoTo, clock, LockFree
<1>14. CASE FetchWriteFails(t)
  BY <1>14, <1>a DEF ClockStep, FetchWriteFails, AbandonFetch, WakeAll, clock, LockFree
<1>15. CASE FetchReadFails(t)
  BY <1>15, <1>a DEF ClockStep, FetchReadFails, AbandonFetch, WakeAll, clock, LockFree
<1>16. CASE CommitEviction(t)
  BY <1>16, <1>a DEF ClockStep, CommitEviction, WakeAll, clock, LockFree
<1>17. CASE ClockSkip(t)
  BY <1>17 DEF ClockStep
<1>18. CASE ClockSecondChance(t)
  BY <1>18 DEF ClockStep
<1>19. CASE ClockVictim(t)
  BY <1>19 DEF ClockStep
<1>20. CASE WriteOld(t)
  BY <1>20, <1>a DEF ClockStep, WriteOld, AfterWrite, GoTo, clock, LockFree
<1>21. CASE NewNoEvictable(t)
  BY <1>21, <1>a DEF ClockStep, NewNoEvictable, Return, GoTo, clock, LockFree
<1>22. CASE NewWriteFails(t)
  BY <1>22, <1>a DEF ClockStep, NewWriteFails, Return, GoTo, clock, LockFree
<1>23. CASE InstallNew(t)
  BY <1>23, <1>a DEF ClockStep, InstallNew, Return, GoTo, clock, LockFree
<1>24. CASE FlushCopy(t)
  BY <1>24, <1>a DEF ClockStep, FlushCopy, GoTo, clock, LockFree
<1>25. CASE FlushWrite(t)
  BY <1>25, <1>a DEF ClockStep, FlushWrite, GoTo, clock, LockFree
<1>26. CASE FlushWriteFails(t)
  BY <1>26, <1>a DEF ClockStep, FlushWriteFails, FlushError, GoTo, Return, clock, LockFree
<1>27. CASE FlushClear(t)
  BY <1>27, <1>a DEF ClockStep, FlushClear, GoTo, clock, LockFree
<1>28. CASE FlushDone(t)
  BY <1>28, <1>a DEF ClockStep, FlushDone, Return, GoTo, clock, LockFree
<1>29. CASE DeleteDone(t)
  BY <1>29, <1>a DEF ClockStep, DeleteDone, Return, GoTo, clock, LockFree
<1>30. ASSUME NEW p \in PageIds, UnpinPage(t, p) PROVE ClockStep(t)
  BY <1>30, <1>a DEF ClockStep, UnpinPage, clock, LockFree
<1>31. ASSUME NEW p \in PageIds, MarkDirtyPage(t, p) PROVE ClockStep(t)
  BY <1>31, <1>a DEF ClockStep, MarkDirtyPage, clock, LockFree
<1>32. ASSUME NEW p \in PageIds, FlushPage(t, p) PROVE ClockStep(t)
  BY <1>32, <1>a DEF ClockStep, FlushPage, BeginFlush, GoTo, clock, LockFree
<1>33. ASSUME NEW p \in PageIds, DeleteClean(t, p) PROVE ClockStep(t)
  BY <1>33, <1>a DEF ClockStep, DeleteClean, clock, LockFree
<1>34. ASSUME NEW p \in PageIds, DeleteDirty(t, p) PROVE ClockStep(t)
  BY <1>34, <1>a DEF ClockStep, DeleteDirty, BeginFlush, GoTo, clock, LockFree
<1>35. CASE FlushAll(t)
  BY <1>35, <1>a DEF ClockStep, FlushAll, clock, LockFree
<1>36. CASE NewFromFree(t)
  BY <1>36, <1>a DEF ClockStep, NewFromFree, clock, LockFree
<1>37. CASE NewScan(t)
  BY <1>37, <1>a DEF ClockStep, NewScan, GoTo, clock, LockFree
<1>38. CASE SpuriousWake(t)
  BY <1>38, <1>a DEF ClockStep, SpuriousWake, GoTo, clock, LockFree
<1>39. ASSUME NEW p \in PageIds, FlushClean(t, p) PROVE ClockStep(t)
  BY <1>39, <1>a DEF ClockStep, FlushClean, clock, LockFree
<1> QED BY <1>1, <1>2, <1>3, <1>4, <1>5, <1>6, <1>7, <1>8, <1>9, <1>10, <1>11, <1>12, <1>13,
  <1>14, <1>15, <1>16, <1>17, <1>18, <1>19, <1>20, <1>21, <1>22, <1>23, <1>24, <1>25, <1>26,
  <1>27, <1>28, <1>29, <1>30, <1>31, <1>32, <1>33, <1>34, <1>35, <1>36, <1>37, <1>38, <1>39,
  Unreached DEF Call, Step, FetchStep, EvictStep, FlushStep

\* While a thread scans, a frame that is pinned or reserved stays so.
LEMMA BusyFramesStay ==
  ASSUME SafeCallers, NothingEndsUnlocked, ShapeInv, ~LockFree,
         NEW t \in Threads, Silent(t) \/ Marks(t) \/ Transfers(t),
         NEW f \in FrameIds, ~Unused(frame[f])
  PROVE  ~Unused(frame[f])'
<1> USE DEF At
<1>a. frame \in [FrameIds -> FrameRecord] /\ hand \in FrameIds
  BY DEF ShapeInv, LoaderInv, TypeOK
<1>1. CASE Silent(t)
  BY <1>1 DEF Silent
<1>2. CASE ClockSecondChance(t) \/ FlushClear(t)
  <2>1. PICK g \in FrameIds : \/ frame' = [frame EXCEPT ![g] = MarkUnreferenced(frame[g])]
                             \/ frame' = [frame EXCEPT ![g] = ClearDirty(frame[g])]
    BY <1>a, <1>2, OwnFrame DEF ClockSecondChance, FlushClear, Reserving
  <2>2. \A r \in {MarkUnreferenced(frame[g]), ClearDirty(frame[g])} :
          r.st = frame[g].st /\ r.pins = frame[g].pins
    BY <1>a, FrameMarks, FramePins
  <2>3. frame'[f].st = frame[f].st /\ frame'[f].pins = frame[f].pins
    BY <1>a, <2>1, <2>2
  <2> QED BY <2>3 DEF Unused, IsPinned, IsReserved
<1>3. CASE ReadFree(t)
  <2>1. PICK g \in FrameIds, p \in PageIds :
          frame' = [frame EXCEPT ![g] = MarkReferenced(Pin(LoadPage(frame[g], p)))]
    BY <1>3, OwnFrame DEF ReadFree, Reserving
  <2>2. MarkReferenced(Pin(LoadPage(frame[g], p))).pins = 1
    BY <1>a, LoadedPins
  <2>3. frame'[f] = frame[f] \/ frame'[f].pins = 1
    BY <1>a, <2>1, <2>2
  <2> QED BY <2>3 DEF Unused, IsPinned, IsReserved
<1>4. CASE ClockVictim(t)
  BY <1>a, <1>4 DEF ClockVictim
<1>5. CASE FlushAll(t) \/ NewWriteFails(t) \/ FlushWriteFails(t) \/ FlushDone(t)
  <2>1. loc[t].op \in {"flush", "delete"} => t \in Flushers \cup Deleters
    BY DEF ShapeInv, CallOK
  <2> QED
    BY <1>5, <2>1 DEF FlushAll, NewWriteFails, FlushWriteFails, FlushDone, SafeCallers,
                      NothingEndsUnlocked, ShapeInv, CallOK, Flushing
<1>6. CASE \/ FetchHit(t) \/ FetchFromFree(t) \/ PublishFree(t) \/ ReadFreeFails(t)
           \/ FetchWriteFails(t) \/ FetchReadFails(t) \/ CommitEviction(t)
           \/ InstallNew(t) \/ NewFromFree(t) \/ DeleteDone(t)
  BY <1>6 DEF FetchHit, FetchFromFree, BecomeLoader, PublishFree, ReadFreeFails,
              FetchWriteFails, FetchReadFails, AbandonFetch, CommitEviction, InstallNew,
              NewFromFree, DeleteDone
<1>7. ASSUME NEW p \in PageIds,
             \/ UnpinPage(t, p) \/ MarkDirtyPage(t, p) \/ FlushClean(t, p)
             \/ FlushPage(t, p) \/ DeleteClean(t, p) \/ DeleteDirty(t, p)
      PROVE  FALSE
  BY <1>7 DEF UnpinPage, MarkDirtyPage, FlushClean, FlushPage, DeleteClean, DeleteDirty,
              BeginFlush
<1> QED BY <1>1, <1>2, <1>3, <1>4, <1>5, <1>6, <1>7 DEF Marks, Transfers

\* The hand moves on by one, at the end to the first frame.
LEMMA HandMoves ==
  ASSUME NEW h \in FrameIds
  PROVE  (h + 1) % NumFrames = IF h + 1 = NumFrames THEN 0 ELSE h + 1
BY PoolSize DEF FrameIds

\* A frame the hand has passed after a step was passed before it or in it; before the
\* first step of a revolution none was, after the last one all are.
LEMMA HandPasses ==
  ASSUME hand \in FrameIds, scanned \in FrameIds, NEW f \in FrameIds
  PROVE  /\ scanned = 0 => ~Passed(f)
         /\ scanned + 1 = NumFrames => Passed(f) \/ f = hand
         /\ AdvanceHand /\ scanned' = scanned + 1 /\ Passed(f)' => Passed(f) \/ f = hand
         /\ AdvanceHand /\ scanned' = 0 => ~Passed(f)'
<1>1. /\ scanned = 0 => ~Passed(f)
      /\ scanned + 1 = NumFrames => Passed(f) \/ f = hand
  BY PoolSize DEF Passed, FrameIds
<1>2. AdvanceHand => hand' = IF hand + 1 = NumFrames THEN 0 ELSE hand + 1
  BY HandMoves DEF AdvanceHand
<1>3. CASE AdvanceHand
  BY <1>2, <1>3, PoolSize DEF Passed, FrameIds
<1> QED BY <1>1, <1>3

\* The invariant holds of a new pool.
LEMMA ScanInit == Init => ScanInv
BY DEF Init, ScanInv, At

\* A step of a thread preserves it.
LEMMA ScanStep ==
  ASSUME SafeCallers, NothingEndsUnlocked, ShapeInv, ShapeInv', ScanInv,
         NEW t \in Threads, Call(t) \/ Step(t) \/ SpuriousWake(t)
  PROVE  ScanInv'
<1> USE DEF At
<1>a. hand \in FrameIds /\ scanned \in FrameIds /\ pc \in [Threads -> Locations]
  BY DEF ShapeInv, LoaderInv, TypeOK
<1>b. \A u \in Threads : /\ pc[u] \in {"scan", "noVictim"} <=> stateLock = u
                         /\ pc'[u] \in {"scan", "noVictim"} <=> stateLock' = u
  BY DEF ShapeInv, LockOK
<1>c. \A u \in Threads \ {t} : /\ pc'[u] = "scan" <=> pc[u] = "scan"
                               /\ pc'[u] = "noVictim" <=> pc[u] = "noVictim"
  BY OthersUse DEF Locations
<1>d. NoThread \notin Threads
  BY Callers
<1>1. CASE ClockSkip(t)
  <2>1. /\ pc[t] = "scan" /\ stateLock' = t /\ stateLock = t /\ frame' = frame /\ AdvanceHand
        /\ ~Unused(frame[hand])
    BY <1>1, <1>b DEF ClockSkip, PassFrame
  <2>2. \A u \in Threads : pc'[u] \in {"scan", "noVictim"} => u = t
    BY <1>b, <2>1
  <2>3. CASE scanned + 1 < NumFrames
    <3>1. scanned' = scanned + 1 /\ found' = found /\ pc' = pc
      BY <1>1, <2>3 DEF ClockSkip, PassFrame
    <3>2. ~found => \A f \in FrameIds : Passed(f)' => ~Unused(frame[f])'
      BY <1>a, <2>1, <3>1, HandPasses DEF ScanInv
    <3> QED BY <1>d, <2>1, <2>2, <3>1, <3>2 DEF ScanInv
  <2>4. CASE ~(scanned + 1 < NumFrames)
    <3>1. scanned' = 0 /\ found' = FALSE /\ (pc'[t] = "noVictim" => ~found)
      BY <1>1, <2>1, <2>4 DEF ClockSkip, PassFrame, EndRevolution
    <3>2. scanned + 1 = NumFrames
      BY <1>a, <2>4, PoolSize DEF FrameIds
    <3>3. ~found => \A f \in FrameIds : ~Unused(frame[f])'
      BY <1>a, <2>1, <3>2, HandPasses DEF ScanInv
    <3>4. \A f \in FrameIds : ~Passed(f)'
      BY <1>a, <2>1, <3>1, HandPasses
    <3> QED BY <2>2, <3>1, <3>3, <3>4 DEF ScanInv
  <2> QED BY <2>3, <2>4
<1>2. CASE ClockSecondChance(t)
  <2>1. pc[t] = "scan" /\ stateLock' = t /\ pc'[t] = "scan" /\ AdvanceHand
    BY <1>2, <1>b DEF ClockSecondChance, PassFrame, EndRevolution
  <2>2. \A u \in Threads : pc'[u] # "noVictim"
    BY <1>b, <2>1
  <2>3. found' \/ scanned' = 0
    BY <1>2 DEF ClockSecondChance, PassFrame
  <2>4. \A f \in FrameIds : found' \/ ~Passed(f)'
    BY <1>a, <2>1, <2>3, HandPasses
  <2> QED BY <1>d, <2>1, <2>2, <2>4 DEF ScanInv
<1>3. CASE ClockVictim(t)
  <2>1. stateLock' = NoThread /\ scanned' = 0 /\ found' = FALSE
    BY <1>3 DEF ClockVictim
  <2> QED BY <1>b, <1>d, <2>1 DEF ScanInv
<1>4. CASE /\ UNCHANGED <<clock, stateLock>>
           /\ pc'[t] = "scan" <=> pc[t] = "scan"
           /\ pc'[t] = "noVictim" <=> pc[t] = "noVictim"
  <2>1. \A f \in FrameIds : Passed(f)' <=> Passed(f)
    BY <1>4 DEF Passed, clock
  <2>2. stateLock # NoThread => \A f \in FrameIds : ~Unused(frame[f]) => ~Unused(frame[f])'
    BY Effects, BusyFramesStay DEF LockFree
  <2>3. \A u \in Threads : /\ pc'[u] = "scan" <=> pc[u] = "scan"
                           /\ pc'[u] = "noVictim" <=> pc[u] = "noVictim"
    BY <1>c, <1>4
  <2>4. \A u \in Threads : pc[u] \in {"scan", "noVictim"} => stateLock # NoThread
    BY <1>b, <1>d
  <2>5. scanned' = scanned /\ found' = found /\ stateLock' = stateLock
    BY <1>4 DEF clock
  <2>6. stateLock' = NoThread => scanned' = 0 /\ ~found'
    BY <2>5 DEF ScanInv
  <2>7. ASSUME NEW u \in Threads, pc'[u] = "scan", ~found', NEW f \in FrameIds, Passed(f)'
        PROVE  ~Unused(frame[f])'
    <3>1. pc[u] = "scan" /\ ~found /\ Passed(f) /\ stateLock # NoThread
      BY <2>1, <2>3, <2>4, <2>5, <2>7
    <3>2. ~Unused(frame[f])
      BY <3>1 DEF ScanInv
    <3> QED BY <2>2, <3>1, <3>2
  <2>8. ASSUME NEW u \in Threads, pc'[u] = "noVictim"
        PROVE  scanned' = 0 /\ ~found' /\ \A f \in FrameIds : ~Unused(frame[f])'
    <3>1. pc[u] = "noVictim" /\ stateLock # NoThread
      BY <2>3, <2>4, <2>8
    <3>2. scanned = 0 /\ ~found /\ \A f \in FrameIds : ~Unused(frame[f])
      BY <3>1 DEF ScanInv
    <3> QED BY <2>2, <2>5, <3>1, <3>2
  <2> QED BY <2>6, <2>7, <2>8 DEF ScanInv
<1>5. CASE UNCHANGED clock /\ LockFree /\ pc'[t] = "scan"
  <2>1. scanned' = 0 /\ ~found' /\ scanned = 0 /\ UNCHANGED hand
    BY <1>5 DEF ScanInv, LockFree, clock
  <2>2. \A f \in FrameIds : ~Passed(f)'
    BY <1>a, <2>1, HandPasses DEF Passed
  <2>3. \A u \in Threads : pc'[u] # "noVictim"
    BY <1>b, <1>c, <1>d, <1>5 DEF LockFree
  <2> QED BY <2>1, <2>2, <2>3 DEF ScanInv
<1>6. CASE UNCHANGED clock /\ At(t, "noVictim") /\ stateLock' = NoThread
  <2>1. scanned' = 0 /\ ~found'
    BY <1>6 DEF ScanInv, clock
  <2> QED BY <1>b, <1>d, <1>6, <2>1 DEF ScanInv
<1> QED BY <1>1, <1>2, <1>3, <1>4, <1>5, <1>6, ClockSteps DEF ClockStep

\* The invariant holds throughout.
LEMMA ScanHolds == SafeCallers /\ NothingEndsUnlocked /\ Spec => []ScanInv
<1> SUFFICES ASSUME SafeCallers, NothingEndsUnlocked PROVE Spec => []ScanInv
  OBVIOUS
<1>1. ShapeInv /\ ShapeInv' /\ ScanInv /\ [Next]_vars => ScanInv'
  <2> SUFFICES ASSUME ShapeInv, ShapeInv', ScanInv, [Next]_vars PROVE ScanInv'
    OBVIOUS
  <2>1. CASE UNCHANGED vars
    BY <2>1 DEF ScanInv, At, Passed, vars, clock
  <2>2. CASE Next
    BY <2>2, ScanStep DEF Next
  <2> QED BY <2>1, <2>2
<1> QED BY <1>1, ScanInit, ShapeHolds, PTL DEF Spec

\* Where no reservation ends outside the lock, a fetch that fails for want of a frame is
\* right: every frame is pinned at that moment.
THEOREM NoEvictableIsRight ==
  SafeCallers /\ NothingEndsUnlocked /\ Spec => NoEvictableIsGenuine
<1> SUFFICES ASSUME SafeCallers, NothingEndsUnlocked PROVE Spec => NoEvictableIsGenuine
  OBVIOUS
<1>1. ScanInv => [\A t \in Threads : FetchNoEvictable(t) =>
                    \A f \in FrameIds : IsPinned(frame[f])]_vars
  BY DEF ScanInv, FetchNoEvictable, SomeReserved, Unused
<1> QED BY <1>1, ScanHolds, PTL DEF Spec, NoEvictableIsGenuine
=============================================================================
