--------------------- MODULE BufferPoolRefinementProofs ----------------------
(***************************************************************************)
(* The buffer pool implements PageCache, for the callers of SafeCallers    *)
(* whose pins fit the counter (PinsFit).  The argument: most steps leave   *)
(* the resident pages and their pins alone and save what they save; the    *)
(* others are one step of the cache each, with the page an eviction takes  *)
(* out and the page it brings in leaving and coming in that one step.      *)
(***************************************************************************)
EXTENDS BufferPoolRefinement, BufferPoolPageProofs

\* The cache's state, as the pool has it.
InPool  == {p \in PageIds : IsMapped(table, p)}
PoolPins == [p \in PageIds |-> IF IsMapped(table, p) THEN frame[table[p]].pins ELSE 0]
Newer   == {p \in PageIds : store[p] # "saved"}

-----------------------------------------------------------------------------
\* The cache counts as the pool does.
LEMMA SameCardinality == \A S : Cache!Cardinality(S) = Cardinality(S)
BY DEF Cache!Cardinality, Cardinality

\* The resident pages are in different frames, so there are at most NumFrames.
LEMMA RoomForAll == ShapeInv => IsFiniteSet(InPool) /\ Cardinality(InPool) <= NumFrames
<1> SUFFICES ASSUME ShapeInv PROVE IsFiniteSet(InPool) /\ Cardinality(InPool) <= NumFrames
  OBVIOUS
<1>1. IsFiniteSet(FrameIds) /\ Cardinality(FrameIds) = NumFrames
  BY PoolSize, FS_Interval DEF FrameIds
<1>2. \A p \in InPool : table[p] \in FrameIds /\ frame[table[p]].page = p
  BY MappedFrame DEF InPool
<1>3. [p \in InPool |-> table[p]] \in Injection(InPool, FrameIds)
  BY <1>2 DEF Injection, IsInjective
<1> QED BY <1>1, <1>3, FS_Injection

\* The pins of the pool are those the pin proofs count.
LEMMA PinsAgree ==
  /\ PoolPins = [p \in PageIds |-> PinsIn(p)]
  /\ PoolPins' = [p \in PageIds |-> PinsIn(p)']
BY DEF PoolPins, PinsIn

\* A step that keeps the callers' pins keeps the pins of every page.
LEMMA HeldKeepsPins ==
  ASSUME SafeCallers, PinsFit, ShapeInv, PinInv, NEW t \in Threads,
         Silent(t) \/ Marks(t) \/ Transfers(t), held' = held
  PROVE  KeepsPins
<1>1. \A p \in PageIds : held[t][p] \in Nat
  BY DEF ShapeInv, LoaderInv, TypeOK
<1>2. ASSUME NEW p \in PageIds, AddsPin(t, p) \/ DropsPin(t, p) PROVE FALSE
  <2>1. held'[t][p] \in {held[t][p] + 1, held[t][p] - 1}
    BY <1>2 DEF AddsPin, DropsPin, ShapeInv, LoaderInv, TypeOK
  <2> QED BY <1>1, <2>1
<1> QED BY <1>2, PinsMove

-----------------------------------------------------------------------------
\* The steps of the cache, from what a step of the pool does.

\* A step that saves pages, or none, and changes nothing else the callers see.
LEMMA OnlySaves ==
  ASSUME UNCHANGED <<table, nextPage>>, KeepsPins,
         \A p \in PageIds : store'[p] # "saved" => store[p] # "saved"
  PROVE  Cache!Next
<1>1. InPool' = InPool /\ PoolPins' = PoolPins /\ nextPage' = nextPage
  BY PinsAgree DEF InPool, IsMapped, KeepsPins
<1>2. PICK S \in SUBSET Newer : Newer' = Newer \ S
  <2>1. Newer' = Newer \ (Newer \ Newer')
    BY DEF Newer
  <2> QED BY <2>1
<1>3. Cache!Save(S)
  BY <1>1, <1>2 DEF Cache!Save, InPool, PoolPins, Newer
<1> QED BY <1>3 DEF Cache!Next, Newer

\* A page that was not there comes in with one pin; a page that goes for it had
\* none, and the disk has it.
LEMMA Brings ==
  ASSUME ShapeInv, ShapeInv', NEW t \in Threads, NEW p \in PageIds, AddsPin(t, p),
         ~IsMapped(table, p),
         NEW out \in SUBSET {q \in InPool : PinsIn(q) = 0 /\ q \notin Newer},
         Cardinality(out) <= 1,
         InPool' = (InPool \ out) \cup {p}
  PROVE  Cache!Bring(p)
<1>1. p \notin InPool
  BY DEF InPool
<1>2. out \in SUBSET ({q \in InPool : PoolPins[q] = 0} \ Newer)
  BY PinsAgree DEF InPool
<1>3. PoolPins' = [PoolPins EXCEPT ![p] = 1]
  <2>1. PinsIn(p)' = 1
    BY DEF PinsIn, AddsPin
  <2> QED BY <2>1, PinsAgree DEF AddsPin
<1>4. Cardinality(InPool') <= NumFrames
  <2>1. (Cardinality(InPool) <= NumFrames)'
    BY RoomForAll, PTL
  <2> QED BY <2>1
<1> QED
  BY <1>1, <1>2, <1>3, <1>4, SameCardinality
  DEF Cache!Bring, Cache!Evictable, InPool, PoolPins, Newer

\* fetch_page pins a resident page, unpin_page takes a pin away, mark_dirty_page makes
\* a page newer.
LEMMA HoldsReleasesChanges ==
  ASSUME SafeCallers, PinsFit, ShapeInv, PinInv, NEW t \in Threads,
         FetchHit(t) \/ \E p \in PageIds : UnpinPage(t, p) \/ MarkDirtyPage(t, p)
  PROVE  Cache!Next
<1>1. CASE FetchHit(t)
  <2>1. PICK p \in PageIds : AddsPin(t, p)
    BY <1>1, HitPins
  <2>2. p \in InPool
    <3>1. p = loc[t].page
      <4>1. loc[t].page \in PageIds /\ held' = [held EXCEPT ![t][loc[t].page] = @ + 1]
        BY <1>1 DEF FetchHit, At, ShapeInv, LoaderInv, ControlOK
      <4>2. held'[t][p] = held[t][p] + 1 /\ held[t][p] \in Nat
        BY <2>1 DEF AddsPin, ShapeInv, LoaderInv, TypeOK
      <4> QED BY <4>1, <4>2 DEF ShapeInv, LoaderInv, TypeOK
    <3> QED BY <1>1, <3>1 DEF FetchHit, InPool
  <2>3. /\ InPool' = InPool /\ Newer' = Newer /\ nextPage' = nextPage
        /\ PoolPins' = [PoolPins EXCEPT ![p] = @ + 1]
    BY <1>1, <2>1, PinsAgree DEF FetchHit, InPool, Newer, AddsPin
  <2>4. Cache!Hold(p)
    BY <2>2, <2>3 DEF Cache!Hold, InPool, PoolPins, Newer
  <2> QED BY <2>4 DEF Cache!Next, Cache!Pages, PageIds
<1>2. ASSUME NEW p \in PageIds, UnpinPage(t, p) PROVE Cache!Next
  <2>1. DropsPin(t, p)
    BY <1>2, UnpinDrops
  <2>2. p \in InPool /\ PoolPins[p] > 0
    BY <1>2 DEF UnpinPage, InPool, PoolPins, IsPinned
  <2>3. /\ InPool' = InPool /\ Newer' = Newer /\ nextPage' = nextPage
        /\ PoolPins' = [PoolPins EXCEPT ![p] = @ - 1]
    BY <1>2, <2>1, PinsAgree DEF UnpinPage, InPool, Newer, DropsPin
  <2>4. Cache!Release(p)
    BY <2>2, <2>3 DEF Cache!Release, InPool, PoolPins, Newer
  <2> QED BY <2>4 DEF Cache!Next, Cache!Pages, PageIds
<1>3. ASSUME NEW p \in PageIds, MarkDirtyPage(t, p) PROVE Cache!Next
  <2>1. KeepsPins
    BY <1>3, HeldKeepsPins DEF Marks, MarkDirtyPage
  <2>2. p \in InPool
    BY <1>3 DEF MarkDirtyPage, InPool
  <2>3. /\ InPool' = InPool /\ PoolPins' = PoolPins /\ nextPage' = nextPage
        /\ Newer' = Newer \cup {p}
    BY <1>3, <2>1, PinsAgree
    DEF MarkDirtyPage, InPool, Newer, KeepsPins, ShapeInv, LoaderInv, TypeOK
  <2>4. Cache!Change(p)
    BY <2>2, <2>3 DEF Cache!Change, InPool, PoolPins, Newer
  <2> QED BY <2>4 DEF Cache!Next, Cache!Pages, PageIds
<1> QED BY <1>1, <1>2, <1>3

\* delete_page takes out a page that is unpinned and saved.
LEMMA Drops ==
  ASSUME SafeCallers, PinsFit, ShapeInv, PinInv, DataInv, NEW t \in Threads,
         DeleteDone(t) \/ \E p \in PageIds : DeleteClean(t, p)
  PROVE  Cache!Next
<1>1. KeepsPins /\ nextPage' = nextPage /\ store' = store
  BY HeldKeepsPins DEF DeleteDone, DeleteClean, Transfers
<1>2. PICK p \in PageIds, f \in FrameIds :
        /\ table[p] = f /\ frame[f].pins = 0 /\ Discard(f, p) /\ store[p] = "saved"
  <2>1. CASE DeleteDone(t)
    <3>1. PICK f \in FrameIds, p \in PageIds : f = loc[t].frame /\ p = loc[t].page
      BY <2>1, OwnFrame DEF DeleteDone, Reserving, At
    <3> QED BY <2>1, <3>1 DEF DeleteDone, At, ShapeInv, WorkOK, Flushing, DataInv, SavingOK
  <2>2. ASSUME NEW p \in PageIds, DeleteClean(t, p)
        PROVE  \E f \in FrameIds :
                 /\ table[p] = f /\ frame[f].pins = 0 /\ Discard(f, p) /\ store[p] = "saved"
    <3>1. PICK f \in FrameIds : f = table[p] /\ frame[f] \in FrameRecord
      BY <2>2, MappedFrame DEF DeleteClean
    <3> QED BY <2>2, <3>1 DEF DeleteClean, Unused, IsPinned, FrameRecord, DataInv, DirtyNotLost
  <2> QED BY <2>1, <2>2
<1>3. p \in {q \in InPool : PoolPins[q] = 0} \ Newer
  BY <1>2, PoolSize DEF InPool, PoolPins, Newer, IsMapped, FrameIds, None
<1>4. InPool' = InPool \ {p} /\ PoolPins' = PoolPins /\ Newer' = Newer
  BY <1>1, <1>2, PinsAgree
  DEF InPool, Newer, KeepsPins, Discard, Remove, IsMapped, ShapeInv, LoaderInv, TypeOK
<1>5. Cache!Drop(p)
  BY <1>1, <1>3, <1>4 DEF Cache!Drop, Cache!Evictable, InPool, PoolPins, Newer
<1> QED BY <1>5 DEF Cache!Next, Cache!Pages, PageIds

\* A load that is published and an eviction that commits for a fetch load a page.
LEMMA Loads ==
  ASSUME SafeCallers, ShapeInv, ShapeInv', PinInv, DataInv, NEW t \in Threads,
         PublishFree(t) \/ CommitEviction(t)
  PROVE  Cache!Next
<1> USE DEF At
<1>a. TypeOK
  BY DEF ShapeInv, LoaderInv
<1>1. PICK p \in PageIds, f \in FrameIds : p = loc[t].page /\ f = loc[t].frame
  BY OwnFrame DEF PublishFree, CommitEviction, Reserving
<1>2. AddsPin(t, p)
  <2>1. PICK q \in PageIds : AddsPin(t, q)
    BY EntryPins
  <2>2. held' = [held EXCEPT ![t][p] = @ + 1]
    BY <1>1 DEF PublishFree, CommitEviction
  <2>3. held'[t][q] = held[t][q] + 1 /\ held[t][q] \in Nat
    BY <1>a, <2>1 DEF AddsPin, TypeOK
  <2>4. p = q
    BY <1>a, <2>2, <2>3 DEF TypeOK
  <2> QED BY <2>1, <2>4
<1>3. p \in Askable /\ ~IsMapped(table, p)
  BY <1>1 DEF PublishFree, CommitEviction, CanReplace, ShapeInv, CallOK, FetchOnly,
              LoadingNotResident, Loading, LoaderInv, ControlOK
<1>4. nextPage' = nextPage /\ Newer' = Newer
  BY DEF PublishFree, CommitEviction, Newer
<1>5. PICK out \in SUBSET {q \in InPool : PinsIn(q) = 0 /\ q \notin Newer} :
        Cardinality(out) <= 1 /\ InPool' = (InPool \ out) \cup {p}
  <2>1. CASE PublishFree(t)
    <3>1. InPool' = InPool \cup {p}
      BY <1>a, <1>1, <2>1, PoolSize
      DEF PublishFree, InPool, Insert, IsMapped, TypeOK, FrameIds, None
    <3>2. Cardinality({}) <= 1
      BY FS_EmptySet
    <3> QED BY <3>1, <3>2
  <2>2. CASE CommitEviction(t)
    <3>1. PICK o \in PageIds : /\ o = loc[t].old /\ table[o] = f /\ frame[f].pins = 0
                               /\ store[o] = "saved"
      BY <1>1, <2>2 DEF CommitEviction, ShapeInv, WorkOK, Evicting, DataInv, SavingOK
    <3>2. table' = [table EXCEPT ![o] = None, ![p] = f]
      BY <1>1, <2>2, <3>1 DEF CommitEviction, Replace
    <3>3. InPool' = (InPool \ {o}) \cup {p}
      BY <1>a, <3>2, PoolSize DEF InPool, IsMapped, TypeOK, FrameIds, None
    <3>4. o \in InPool /\ PinsIn(o) = 0 /\ o \notin Newer
      BY <3>1, PoolSize DEF InPool, PinsIn, Newer, IsMapped, FrameIds, None
    <3>5. Cardinality({o}) <= 1
      BY FS_Singleton
    <3> QED BY <3>3, <3>4, <3>5
  <2> QED BY <2>1, <2>2
<1>6. Cache!Bring(p)
  BY <1>2, <1>3, <1>5, Brings
<1>7. Cache!Load(p)
  BY <1>3, <1>4, <1>6 DEF Cache!Load, Askable, Newer, PageIds, ShapeInv, LoaderInv, TypeOK
<1> QED BY <1>7 DEF Cache!Next, Cache!Pages, PageIds

\* new_page creates the next page.
LEMMA Creates ==
  ASSUME SafeCallers, ShapeInv, ShapeInv', PinInv, DataInv, NEW t \in Threads,
         NewFromFree(t) \/ InstallNew(t)
  PROVE  Cache!Next
<1> USE DEF At
<1>a. TypeOK
  BY DEF ShapeInv, LoaderInv
<1>1. PICK p \in PageIds : /\ p = nextPage /\ t \in Creators
                           /\ InstallNew(t) => p = loc[t].page
                           /\ nextPage < PageIdLimit
  <2>1. CASE NewFromFree(t)
    BY <1>a, <2>1, FrameConstants DEF NewFromFree, MayIssue, TypeOK, PageIds, InstallNew
  <2>2. CASE InstallNew(t)
    BY <2>2, OwnFrame DEF InstallNew, Reserving, ShapeInv, CallOK, LoaderInv, ControlOK
  <2> QED BY <2>1, <2>2
<1>2. /\ held' = [held EXCEPT ![t][p] = @ + 1]
      /\ nextPage' = p + 1
      /\ store' = [store EXCEPT ![p] = "changed"]
  BY <1>1 DEF NewFromFree, InstallNew, IssueId
<1>3. ~IsMapped(table, p)
  BY <1>1, FreshId
<1>4. AddsPin(t, p)
  <2>1. PICK q \in PageIds : AddsPin(t, q)
    BY EntryPins
  <2>2. held'[t][q] = held[t][q] + 1 /\ held[t][q] \in Nat
    BY <1>a, <2>1 DEF AddsPin, TypeOK
  <2>3. p = q
    BY <1>a, <1>2, <2>2 DEF TypeOK
  <2> QED BY <2>1, <2>3
<1>5. Newer' = Newer \cup {p}
  BY <1>a, <1>2 DEF Newer, TypeOK
<1>6. PICK out \in SUBSET {q \in InPool : PinsIn(q) = 0 /\ q \notin Newer} :
        Cardinality(out) <= 1 /\ InPool' = (InPool \ out) \cup {p}
  <2>1. CASE NewFromFree(t)
    <3>1. PICK f \in FrameIds : f = Head(freeList)
      BY <2>1, FirstFree DEF NewFromFree
    <3>2. InPool' = InPool \cup {p}
      BY <1>a, <1>1, <2>1, <3>1, PoolSize
      DEF NewFromFree, InPool, Insert, IsMapped, TypeOK, FrameIds, None
    <3>3. Cardinality({}) <= 1
      BY FS_EmptySet
    <3> QED BY <3>2, <3>3
  <2>2. CASE InstallNew(t)
    <3>1. PICK f \in FrameIds : f = loc[t].frame
      BY <2>2, OwnFrame DEF InstallNew, Reserving
    <3>2. PICK o \in PageIds : /\ o = loc[t].old /\ table[o] = f /\ frame[f].pins = 0
                               /\ store[o] = "saved"
      BY <2>2, <3>1 DEF InstallNew, ShapeInv, WorkOK, Evicting, DataInv, SavingOK
    <3>3. table' = [table EXCEPT ![o] = None, ![p] = f]
      BY <1>1, <2>2, <3>1, <3>2 DEF InstallNew, Replace
    <3>4. InPool' = (InPool \ {o}) \cup {p}
      BY <1>a, <3>3, PoolSize DEF InPool, IsMapped, TypeOK, FrameIds, None
    <3>5. o \in InPool /\ PinsIn(o) = 0 /\ o \notin Newer
      BY <3>2, PoolSize DEF InPool, PinsIn, Newer, IsMapped, FrameIds, None
    <3>6. Cardinality({o}) <= 1
      BY FS_Singleton
    <3> QED BY <3>4, <3>5, <3>6
  <2> QED BY <2>1, <2>2
<1>7. Cache!Bring(p)
  BY <1>3, <1>4, <1>6, Brings
<1>8. nextPage < PageIdLimit
  BY <1>1
<1>9. Cache!Bring(nextPage)
  BY <1>1, <1>7 DEF Cache!Bring
<1>10. Cache!Create
  BY <1>1, <1>2, <1>5, <1>8, <1>9 DEF Cache!Create, Newer
<1> QED BY <1>10 DEF Cache!Next

\* The other steps change nothing but what the disk has.
LEMMA OthersSave ==
  ASSUME SafeCallers, ShapeInv, NEW t \in Threads,
         Silent(t) \/ Marks(t) \/ Transfers(t),
         UNCHANGED <<table, nextPage, held>>,
         \A p \in PageIds : ~MarkDirtyPage(t, p)
  PROVE  \A p \in PageIds : store'[p] # "saved" => store[p] # "saved"
<1> USE DEF At
<1>a. TypeOK
  BY DEF ShapeInv, LoaderInv
<1>1. CASE UNCHANGED store
  BY <1>1
<1>2. ASSUME NEW q \in PageIds, store' \in {Copy(store, q), Saved(store, q), Failed(store, q)}
      PROVE  \A p \in PageIds : store'[p] # "saved" => store[p] # "saved"
  BY <1>2, Transferred
<1>3. CASE WriteOld(t) \/ FetchWriteFails(t) \/ NewWriteFails(t)
  <2>1. loc[t].old \in PageIds
    BY <1>3 DEF WriteOld, FetchWriteFails, NewWriteFails, ShapeInv, WorkOK, Evicting
  <2> QED BY <1>2, <1>3, <2>1 DEF WriteOld, FetchWriteFails, NewWriteFails
<1>4. CASE FlushWrite(t) \/ FlushWriteFails(t)
  <2>1. loc[t].old \in PageIds
    BY <1>4, OwnFrame DEF FlushWrite, FlushWriteFails, ShapeInv, WorkOK, Flushing, Reserving
  <2> QED BY <1>2, <1>4, <2>1 DEF FlushWrite, FlushWriteFails
<1>5. CASE FlushCopy(t) /\ ~UNCHANGED store
  <2>1. PICK f \in FrameIds, q \in PageIds : /\ f = loc[t].frame /\ table[q] = f
                                             /\ store' = Copy(store, frame[f].page)
    BY <1>5, OwnFrame DEF FlushCopy, ShapeInv, WorkOK, Flushing, Reserving
  <2>2. frame[f].page = q
    BY <2>1, MappedFrame, PoolSize DEF IsMapped, FrameIds, None
  <2> QED BY <1>2, <2>1, <2>2
<1>6. CASE ClockVictim(t) /\ ~UNCHANGED store
  <2>1. store' = Copy(store, frame[hand].page) /\ frame[hand].page # None /\ hand \in FrameIds
    BY <1>a, <1>6 DEF ClockVictim, HasMeta, TypeOK
  <2>2. frame[hand].page \in PageIds
    BY <1>a, <2>1 DEF TypeOK, FrameRecord
  <2> QED BY <1>2, <2>1, <2>2
<1>7. CASE FlushAll(t)
  BY <1>7 DEF FlushAll
<1>8. ASSUME NewFromFree(t) \/ InstallNew(t) PROVE FALSE
  <2>1. nextPage' = nextPage + 1
    BY <1>8 DEF NewFromFree, InstallNew, IssueId, ShapeInv, CallOK
  <2> QED BY <1>a, <2>1 DEF TypeOK
<1>9. \/ UNCHANGED store
      \/ WriteOld(t) \/ FlushCopy(t) \/ FlushWrite(t) \/ FlushAll(t) \/ ClockVictim(t)
      \/ FetchWriteFails(t) \/ NewWriteFails(t) \/ FlushWriteFails(t)
  BY <1>8 DEF Silent, Marks, Transfers, FetchHit, ClockSecondChance, FlushClear, UnpinPage,
              FlushClean, FetchFromFree, ReadFree, PublishFree, ReadFreeFails, FetchReadFails,
              CommitEviction, FlushDone, DeleteDone, FlushPage, DeleteClean, DeleteDirty,
              BeginFlush
<1> QED BY <1>1, <1>3, <1>4, <1>5, <1>6, <1>7, <1>9

-----------------------------------------------------------------------------
\* Each step of a thread is a step of the cache ...
LEMMA CacheStep ==
  ASSUME SafeCallers, PinsFit, ShapeInv, ShapeInv', PinInv, DataInv, NEW t \in Threads,
         Call(t) \/ Step(t) \/ SpuriousWake(t)
  PROVE  Cache!Next
<1>1. Silent(t) \/ Marks(t) \/ Transfers(t)
  BY Effects
<1>2. CASE FetchHit(t) \/ \E p \in PageIds : UnpinPage(t, p) \/ MarkDirtyPage(t, p)
  BY <1>2, HoldsReleasesChanges
<1>3. CASE DeleteDone(t) \/ \E p \in PageIds : DeleteClean(t, p)
  BY <1>3, Drops
<1>4. CASE PublishFree(t) \/ CommitEviction(t)
  BY <1>4, Loads
<1>5. CASE NewFromFree(t) \/ InstallNew(t)
  BY <1>5, Creates
<1>6. CASE /\ UNCHANGED <<table, nextPage, held>>
           /\ \A p \in PageIds : ~MarkDirtyPage(t, p)
  BY <1>1, <1>6, OthersSave, HeldKeepsPins, OnlySaves
<1>7. \/ FetchHit(t) \/ DeleteDone(t) \/ PublishFree(t) \/ CommitEviction(t)
      \/ NewFromFree(t) \/ InstallNew(t)
      \/ \E p \in PageIds : UnpinPage(t, p) \/ MarkDirtyPage(t, p) \/ DeleteClean(t, p)
      \/ UNCHANGED <<table, nextPage, held>>
  BY <1>1 DEF Silent, Marks, Transfers, ClockSecondChance, FlushClear, FlushAll, FlushClean,
              FetchFromFree, ReadFree, ReadFreeFails, ClockVictim, FetchWriteFails,
              FetchReadFails, AbandonFetch, NewWriteFails, FlushWriteFails, FlushDone,
              FlushPage, DeleteDirty, BeginFlush
<1> QED BY <1>2, <1>3, <1>4, <1>5, <1>6, <1>7

\* ... or, like a step of nobody, none.
LEMMA CacheNext ==
  SafeCallers /\ PinsFit /\ ShapeInv /\ ShapeInv' /\ PinInv /\ DataInv /\ [Next]_vars
    => [Cache!Next]_Cache!cache
<1> SUFFICES ASSUME SafeCallers, PinsFit, ShapeInv, ShapeInv', PinInv, DataInv, [Next]_vars
             PROVE  [Cache!Next]_Cache!cache
  OBVIOUS
<1>1. CASE UNCHANGED vars
  BY <1>1 DEF vars, Cache!cache, IsMapped
<1>2. CASE Next
  BY <1>2, CacheStep DEF Next
<1> QED BY <1>1, <1>2

\* A new pool is an empty cache.
LEMMA CacheInit == Init => Cache!Init
<1> SUFFICES ASSUME Init PROVE Cache!Init
  OBVIOUS
<1>1. \A p \in PageIds : ~IsMapped(table, p) /\ store[p] = "saved"
  BY DEF Init, EmptyTable, IsMapped
<1> QED BY <1>1 DEF Cache!Init, Cache!Pages, PageIds, Init

\* For its callers the pool is a page cache: each step of its threads, whatever they
\* interleave, is one atomic step of the cache, or none.
THEOREM PoolIsAPageCache == SafeCallers /\ PinsFit /\ Spec => ImplementsPageCache
<1> SUFFICES ASSUME SafeCallers, PinsFit PROVE Spec => ImplementsPageCache
  OBVIOUS
<1>1. ShapeInv /\ ShapeInv' /\ PinInv /\ DataInv /\ [Next]_vars => [Cache!Next]_Cache!cache
  BY CacheNext
<1>2. Spec => []DataInv
  BY DataHolds
<1> QED
  BY <1>1, <1>2, CacheInit, ShapeHolds, PinHolds, PTL
  DEF Spec, Cache!Spec, ImplementsPageCache
=============================================================================
