----------------------------- MODULE BufferPool -----------------------------
(***************************************************************************)
(* The buffer pool manager (manager.rs) as the threads that call it run    *)
(* it: fetch_page, new_page, unpin_page, mark_dirty_page, flush_page,      *)
(* flush_all_pages and delete_page, over the frames, the page table, the   *)
(* free list, the CLOCK hand, the in-flight loads and the disk.            *)
(*                                                                         *)
(* Grain.  state_lock guards every structural decision, so a critical      *)
(* section that takes it and releases it is one action, enabled when the   *)
(* lock is free; the CLOCK scan, during which other threads may change     *)
(* frames under the frame locks alone, holds it over several actions.      *)
(* What the code does under a frame lock only (load a free frame, end a    *)
(* flush, undo a failed write) is an action of its own, and so is every    *)
(* disk transfer whose effect another thread can observe.  A failed        *)
(* transfer and the rollback that follows it are one action.               *)
(* Lock poisoning is left out: no code that holds a lock can panic.        *)
(***************************************************************************)
EXTENDS PageTable, Sequences, FiniteSets

CONSTANTS Threads,     \* the callers
          Fetchers,    \* those that call fetch_page
          Creators,    \* those that call new_page
          Writers,     \* those that call mark_dirty_page
          Flushers,    \* those that call flush_page and flush_all_pages
          Deleters,    \* those that call delete_page
          DiskFaults,  \* may a read or a write of the disk fail?
          ForeignIds,  \* page ids callers have from elsewhere than new_page
          NumCvs,      \* bound: condition variables alive at one time
          MaxHeld,     \* bound: pins one caller holds at one time
          NoThread

ASSUME Callers == /\ Fetchers \subseteq Threads
                  /\ Creators \subseteq Threads
                  /\ Writers \subseteq Threads
                  /\ Flushers \subseteq Threads
                  /\ Deleters \subseteq Threads
                  /\ NoThread \notin Threads
ASSUME PoolConstants == /\ DiskFaults \in BOOLEAN
                        /\ ForeignIds \subseteq PageIds
                        /\ NumCvs \in Nat
                        /\ MaxHeld \in Nat

VARIABLES
  frame,      \* frames: Vec<Arc<RwLock<Frame>>>
  table,      \* page_table
  freeList,   \* free_frames
  nextPage,   \* next_page_id
  hand,       \* clock_hand
  scanned,    \* find_victim's counter of frames seen in this revolution
  found,      \* find_victim's found_unpinned
  stateLock,  \* the thread that holds state_lock, or NoThread
  loads,      \* in_flight_loads: the condition variable of each entry, or None
  pc, loc,    \* where each thread is, and its local variables
  held,       \* history: the pins each caller owns
  store       \* history: what the disk holds of each page

clock == <<hand, scanned, found>>
vars == <<frame, table, freeList, nextPage, clock, stateLock, loads,
          pc, loc, held, store>>

CvIds == 0 .. (NumCvs - 1)
Ops   == {"none", "fetch", "new", "flush", "delete"}

\* "cvWait" is a wait on state_cv, "loadSleep" one on an in-flight load.
Locations == {"idle", "lookup", "cvWait", "loadCheck", "loadSleep",
              "readFree", "publish", "refused", "scan", "noVictim", "writeOld",
              "readNew", "install", "flushCopy", "flushWrite", "flushClear",
              "flushed", "undo", "notify"}

\* page is the argument (for new_page the id it read from next_page_id), old
\* the page whose bytes were copied out, cv a clone of a waiter's Arc<Condvar>,
\* missed is miss_recorded; loader (history) says that this call inserted the
\* entry for page.
Locals == [op : Ops, page : PageIds \cup {None}, frame : FrameIds \cup {None},
           old : PageIds \cup {None}, cv : CvIds \cup {None},
           missed : BOOLEAN, loader : BOOLEAN]

NoLocals == [op |-> "none", page |-> None, frame |-> None, old |-> None,
             cv |-> None, missed |-> FALSE, loader |-> FALSE]

\* A page mark_dirty_page or new_page made newer than the disk's copy is
\* "changed", and "copied" while the bytes copied out of it are its newest.
StoreStates == {"saved", "changed", "copied"}

TypeOK ==
  /\ frame \in [FrameIds -> FrameRecord]
  /\ table \in [PageIds -> FrameIds \cup {None}]
  /\ freeList \in Seq(FrameIds)
  /\ nextPage \in PageIds
  /\ hand \in FrameIds
  /\ scanned \in FrameIds
  /\ found \in BOOLEAN
  /\ stateLock \in Threads \cup {NoThread}
  /\ loads \in [PageIds -> CvIds \cup {None}]
  /\ pc \in [Threads -> Locations]
  /\ loc \in [Threads -> Locals]
  /\ held \in [Threads -> [PageIds -> Nat]]
  /\ store \in [PageIds -> StoreStates]

Init ==
  /\ frame = [f \in FrameIds |-> NewFrame]
  /\ table = EmptyTable
  /\ freeList = [i \in 1 .. NumFrames |-> i - 1]
  /\ nextPage = 0
  /\ hand = 0
  /\ scanned = 0
  /\ found = FALSE
  /\ stateLock = NoThread
  /\ loads = [p \in PageIds |-> None]
  /\ pc = [t \in Threads |-> "idle"]
  /\ loc = [t \in Threads |-> NoLocals]
  /\ held = [t \in Threads |-> [p \in PageIds |-> 0]]
  /\ store = [p \in PageIds |-> "saved"]

-----------------------------------------------------------------------------
\* Helpers.

LockFree == stateLock = NoThread

\* The pins t holds, numbered page by page; MaxHeld bounds the calls that add one.
PinsOf(t) == {q \in PageIds \X (1 .. MaxHeld) : q[2] <= held[t][q[1]]}
MayPin(t) == Cardinality(PinsOf(t)) < MaxHeld

\* An assumption about callers, which nothing in the pool enforces: the ids they
\* give to fetch_page are those new_page returned and those of ForeignIds.
\* fetch_page takes any u16; an id the file does not reach reads as zeros.
Askable == ForeignIds \cup 0 .. (nextPage - 1)

At(t, l) == pc[t] = l
GoTo(t, l) == pc' = [pc EXCEPT ![t] = l]
Return(t) == /\ GoTo(t, "idle")
             /\ loc' = [loc EXCEPT ![t] = NoLocals]

\* state_cv.notify_all(): every waiter will look its page up again.
WakeNone(pcs) == pcs  \* mutant
WakeAll(pcs) == [u \in Threads |-> IF pcs[u] = "cvWait" THEN "lookup" ELSE pcs[u]]

\* Mutant: notify_one.
WakeOneLoader(c) ==
  LET asleep == {u \in Threads : pc[u] = "loadSleep" /\ loc[u].cv = c}
      woken  == CHOOSE u \in asleep \cup {NoThread} : u = NoThread => asleep = {}
  IN  [u \in Threads |-> IF u = woken THEN "loadCheck" ELSE pc[u]]

\* notify_all() on an entry's condition variable: its sleepers look again.
WakeLoaders(c) == [u \in Threads |-> IF pc[u] = "loadSleep" /\ loc[u].cv = c
                                     THEN "loadCheck" ELSE pc[u]]

\* The bytes of p were copied out, reached the disk, or failed to.
Copy(s, p)   == IF s[p] = "changed" THEN [s EXCEPT ![p] = "copied"] ELSE s
Saved(s, p)  == IF s[p] = "copied" THEN [s EXCEPT ![p] = "saved"] ELSE s
Failed(s, p) == IF s[p] = "copied" THEN [s EXCEPT ![p] = "changed"] ELSE s

\* free_frames.add_frame.  Mutant: the frame is not put back.
DropFrame(f) == UNCHANGED freeList
GiveBack(f)  == freeList' = Append(freeList, f)

\* A condition variable nobody refers to.
FreshCv(c) == /\ \A p \in PageIds : loads[p] # c
              /\ \A u \in Threads : loc[u].cv # c

-----------------------------------------------------------------------------
\* fetch_page.

CallFetch(t, p) ==
  /\ At(t, "idle") /\ t \in Fetchers /\ p \in Askable /\ MayPin(t)
  /\ GoTo(t, "lookup")
  /\ loc' = [loc EXCEPT ![t] = [NoLocals EXCEPT !.op = "fetch", !.page = p]]
  /\ UNCHANGED <<frame, table, freeList, nextPage, clock, stateLock, loads, held, store>>

\* 1. The page is resident: pin it under the frame's lock.
FetchHit(t) ==
  LET p == loc[t].page
      f == table[p]
  IN  /\ At(t, "lookup") /\ LockFree
      /\ IsMapped(table, p) /\ ~IsReserved(frame[f]) /\ HasMeta(frame[f])
      /\ frame' = [frame EXCEPT ![f] = MarkReferenced(Pin(@))]
      /\ held' = [held EXCEPT ![t][p] = @ + 1]
      /\ Return(t)
      /\ UNCHANGED <<table, freeList, nextPage, clock, stateLock, loads, store>>

\* pin's error: the table names a frame that was reset.
FetchHitFails(t) ==
  LET p == loc[t].page
  IN  /\ At(t, "lookup") /\ LockFree
      /\ IsMapped(table, p)
      /\ ~IsReserved(frame[table[p]]) /\ ~HasMeta(frame[table[p]])
      /\ Return(t)
      /\ UNCHANGED <<frame, table, freeList, nextPage, clock, stateLock, loads,
                     held, store>>

\* The page's frame is being evicted or flushed: wait on state_cv.
FetchBusy(t) ==
  LET p == loc[t].page
  IN  /\ At(t, "lookup") /\ LockFree
      /\ IsMapped(table, p) /\ IsReserved(frame[table[p]])
      /\ GoTo(t, "cvWait")
      /\ UNCHANGED <<frame, table, freeList, nextPage, clock, stateLock, loads,
                     loc, held, store>>

\* 2. There is an entry for the page: clone its condition variable.
FetchJoin(t) ==
  LET p == loc[t].page
  IN  /\ At(t, "lookup") /\ LockFree
      /\ ~IsMapped(table, p) /\ loads[p] # None
      /\ loc' = [loc EXCEPT ![t].missed = TRUE, ![t].cv = loads[p]]
      /\ GoTo(t, "loadCheck")
      /\ UNCHANGED <<frame, table, freeList, nextPage, clock, stateLock, loads,
                     held, store>>

\* Mutants: an existing entry, or a page that is being evicted, does not stop
\* the caller from loading it.
NeedsLoadAlways(p)   == ~IsMapped(table, p)
NeedsLoadOfVictim(p) == /\ loads[p] = None
                        /\ IsMapped(table, p) => IsReserved(frame[table[p]])
NeedsLoad(p)         == ~IsMapped(table, p) /\ loads[p] = None

\* A miss without an entry makes the caller the loader of the page.
BecomeLoader(t) ==
  LET p == loc[t].page
  IN  /\ At(t, "lookup") /\ LockFree
      /\ NeedsLoad(p)
      /\ \E c \in CvIds : /\ FreshCv(c)
                          /\ \A d \in CvIds : d < c => ~FreshCv(d)
                          /\ loads' = [loads EXCEPT ![p] = c]

\* The waiter looks at in_flight_loads under its own mutex, and sleeps for as
\* long as some entry for the page is there.
LoadCheck(t) ==
  /\ At(t, "loadCheck")
  /\ \/ /\ loads[loc[t].page] # None
        /\ GoTo(t, "loadSleep")
        /\ UNCHANGED loc
     \/ /\ loads[loc[t].page] = None
        /\ GoTo(t, "lookup")
        /\ loc' = [loc EXCEPT ![t].cv = None]
  /\ UNCHANGED <<frame, table, freeList, nextPage, clock, stateLock, loads, held, store>>

\* 3. A free frame: reserve it and leave the critical section.
FetchFromFree(t) ==
  /\ BecomeLoader(t)
  /\ freeList # <<>>
  /\ LET f == Head(freeList)
     IN  /\ ~IsReserved(frame[f])
         /\ freeList' = Tail(freeList)
         /\ frame' = [frame EXCEPT ![f] = Reserve(@)]
         /\ loc' = [loc EXCEPT ![t].missed = TRUE, ![t].loader = TRUE,
                             ![t].frame = f]
  /\ GoTo(t, "readFree")
  /\ UNCHANGED <<table, nextPage, clock, stateLock, held, store>>

\* reserve refuses a frame that is Reserved already: it goes back to the list
\* and the entry, which waiters may have seen, is removed again.
FetchFreeReserved(t) ==
  /\ BecomeLoader(t)
  /\ freeList # <<>> /\ IsReserved(frame[Head(freeList)])
  /\ freeList' = Append(Tail(freeList), Head(freeList))
  /\ stateLock' = t
  /\ loc' = [loc EXCEPT ![t].missed = TRUE, ![t].loader = TRUE]
  /\ GoTo(t, "refused")
  /\ UNCHANGED <<frame, table, nextPage, clock, held, store>>

FetchRefused(t) ==
  LET p == loc[t].page
  IN  /\ At(t, "refused")
      /\ loads' = [loads EXCEPT ![p] = None]
      /\ stateLock' = NoThread
      /\ pc' = [WakeLoaders(loads[p]) EXCEPT ![t] = "idle"]
      /\ loc' = [loc EXCEPT ![t] = NoLocals]
      /\ UNCHANGED <<frame, table, freeList, nextPage, clock, held, store>>

\* The page is read (273-281), and loaded, pinned and marked (352, 378, 403) under
\* the frame's lock alone; none of the three can fail on a whole page ...
ReadFree(t) ==
  /\ At(t, "readFree")
  /\ frame' = [frame EXCEPT ![loc[t].frame] =
                 MarkReferenced(Pin(LoadPage(@, loc[t].page)))]
  /\ GoTo(t, "publish")
  /\ UNCHANGED <<table, freeList, nextPage, clock, stateLock, loads, loc, held, store>>

\* ... and published under state_lock.  The in-flight waiters are notified
\* after the lock is released.
PublishFree(t) ==
  LET p == loc[t].page
  IN  /\ At(t, "publish") /\ LockFree
      /\ table' = Insert(table, p, loc[t].frame)
      /\ loads' = [loads EXCEPT ![p] = None]
      /\ loc' = [loc EXCEPT ![t].cv = loads[p]]
      /\ pc' = WakeAll([pc EXCEPT ![t] = "notify"])
      /\ held' = [held EXCEPT ![t][p] = @ + 1]
      /\ UNCHANGED <<frame, freeList, nextPage, clock, stateLock, store>>

ReadFreeFails(t) ==
  LET p == loc[t].page
      f == loc[t].frame
  IN  /\ DiskFaults
      /\ At(t, "readFree") /\ LockFree
      /\ frame' = [frame EXCEPT ![f] = SetFree(@)]
      /\ GiveBack(f)
      /\ loads' = [loads EXCEPT ![p] = None]
      /\ loc' = [loc EXCEPT ![t].cv = loads[p]]
      /\ pc' = WakeAll([pc EXCEPT ![t] = "notify"])
      /\ UNCHANGED <<table, nextPage, clock, stateLock, held, store>>

\* waiter.notify_all(): wakes the threads asleep on this condition variable.
NotifyLoaders(t) ==
  /\ At(t, "notify")
  /\ pc' = [WakeLoaders(loc[t].cv) EXCEPT ![t] = "idle"]
  /\ loc' = [loc EXCEPT ![t] = NoLocals]
  /\ UNCHANGED <<frame, table, freeList, nextPage, clock, stateLock, loads, held, store>>

\* 4. No free frame: scan for a victim with state_lock held.
FetchScan(t) ==
  /\ BecomeLoader(t)
  /\ freeList = <<>>
  /\ stateLock' = t
  /\ loc' = [loc EXCEPT ![t].missed = TRUE, ![t].loader = TRUE]
  /\ GoTo(t, "scan")
  /\ UNCHANGED <<frame, table, freeList, nextPage, clock, held, store>>

-----------------------------------------------------------------------------
\* find_victim, one frame a step: other threads hold frame locks meanwhile.

HandPastEnd == hand' = hand + 1  \* mutant
AdvanceHand == hand' = (hand + 1) % NumFrames

\* After a whole revolution the scan starts another if it saw an unpinned frame,
\* and gives up if it saw none.  Mutant: it never gives up.
RevolveForever(t, unpinned) == UNCHANGED pc
EndRevolution(t, unpinned)  == IF unpinned THEN UNCHANGED pc ELSE GoTo(t, "noVictim")

\* A frame the scan passes.
PassFrame(t, unpinned) ==
  /\ AdvanceHand
  /\ IF scanned + 1 < NumFrames
     THEN /\ scanned' = scanned + 1
          /\ found' = unpinned
          /\ UNCHANGED pc
     ELSE /\ scanned' = 0
          /\ found' = FALSE
          /\ EndRevolution(t, unpinned)

ClockSkip(t) ==
  /\ At(t, "scan")
  /\ ~Unused(frame[hand])
  /\ PassFrame(t, found)
  /\ UNCHANGED <<frame, table, freeList, nextPage, stateLock, loads, loc, held, store>>

ClockSecondChance(t) ==
  /\ At(t, "scan")
  /\ Unused(frame[hand]) /\ frame[hand].ref
  /\ frame' = [frame EXCEPT ![hand] = MarkUnreferenced(@)]
  /\ PassFrame(t, TRUE)
  /\ UNCHANGED <<table, freeList, nextPage, stateLock, loads, loc, held, store>>

\* Where a thread with a clean copy of its victim goes on.
AfterWrite(t) == IF loc[t].op = "fetch" THEN "readNew" ELSE "install"

\* 5. The victim is reserved and, if dirty, copied; state_lock is released.
ClockVictim(t) ==
  LET fr == frame[hand]
  IN  /\ At(t, "scan")
      /\ Unused(fr) /\ ~fr.ref /\ HasMeta(fr)
      /\ AdvanceHand
      /\ scanned' = 0
      /\ found' = FALSE
      /\ frame' = [frame EXCEPT ![hand] = Reserve(@)]
      /\ loc' = [loc EXCEPT ![t].frame = hand, ![t].old = fr.page]
      /\ stateLock' = NoThread
      /\ IF fr.dirty
         THEN GoTo(t, "writeOld") /\ store' = Copy(store, fr.page)
         ELSE GoTo(t, AfterWrite(t)) /\ UNCHANGED store
      /\ UNCHANGED <<table, freeList, nextPage, loads, held>>

\* get_page_id fails after the victim was reserved: the error leaves it so.
VictimWithoutPage(t) ==
  /\ At(t, "scan")
  /\ Unused(frame[hand]) /\ ~HasMeta(frame[hand])
  /\ AdvanceHand
  /\ scanned' = 0
  /\ found' = FALSE
  /\ frame' = [frame EXCEPT ![hand] = Reserve(@)]
  /\ stateLock' = NoThread
  /\ Return(t)
  /\ UNCHANGED <<table, freeList, nextPage, loads, held, store>>

\* has_reserved_frame.  Mutant: the frames are not looked at.
IgnoreReserved == FALSE
SomeReserved   == \E f \in FrameIds : IsReserved(frame[f])

\* No victim, but a reserved frame: wait on state_cv.  The caller's own entry
\* stays in in_flight_loads.
FetchWait(t) ==
  /\ At(t, "noVictim") /\ loc[t].op = "fetch"
  /\ SomeReserved
  /\ stateLock' = NoThread
  /\ GoTo(t, "cvWait")
  /\ UNCHANGED <<frame, table, freeList, nextPage, clock, loads, loc, held, store>>

\* No victim and nothing reserved: NoEvictableFrame.  The entry stays as well.
FetchNoEvictable(t) ==
  /\ At(t, "noVictim") /\ loc[t].op = "fetch"
  /\ ~SomeReserved
  /\ stateLock' = NoThread
  /\ Return(t)
  /\ UNCHANGED <<frame, table, freeList, nextPage, clock, loads, held, store>>

NewNoEvictable(t) ==
  /\ At(t, "noVictim") /\ loc[t].op = "new"
  /\ stateLock' = NoThread
  /\ Return(t)
  /\ UNCHANGED <<frame, table, freeList, nextPage, clock, loads, held, store>>

-----------------------------------------------------------------------------
\* Eviction: the same for fetch_page and new_page up to the commit.

\* 6. The dirty victim's bytes reach the disk.
WriteOld(t) ==
  /\ At(t, "writeOld")
  /\ store' = Saved(store, loc[t].old)
  /\ GoTo(t, AfterWrite(t))
  /\ UNCHANGED <<frame, table, freeList, nextPage, clock, stateLock, loads, loc, held>>

\* fetch_page gives up an eviction: Reserved back to Resident, the entry
\* removed and state_cv notified, all under state_lock.
AbandonFetch(t) ==
  LET p == loc[t].page
  IN  /\ DiskFaults /\ loc[t].op = "fetch" /\ LockFree
      /\ frame' = [frame EXCEPT ![loc[t].frame] = SetResident(@)]
      /\ loads' = [loads EXCEPT ![p] = None]
      /\ loc' = [loc EXCEPT ![t].cv = loads[p]]
      /\ pc' = WakeAll([pc EXCEPT ![t] = "notify"])
      /\ UNCHANGED <<table, freeList, nextPage, clock, stateLock, held>>

FetchWriteFails(t) ==
  /\ At(t, "writeOld") /\ AbandonFetch(t)
  /\ store' = Failed(store, loc[t].old)

FetchReadFails(t) ==
  /\ At(t, "readNew") /\ AbandonFetch(t)
  /\ UNCHANGED store

\* new_page gives up under the frame's lock alone and notifies nobody.
NewWriteFails(t) ==
  /\ DiskFaults
  /\ At(t, "writeOld") /\ loc[t].op = "new"
  /\ frame' = [frame EXCEPT ![loc[t].frame] = SetResident(@)]
  /\ store' = Failed(store, loc[t].old)
  /\ Return(t)
  /\ UNCHANGED <<table, freeList, nextPage, clock, stateLock, loads, held>>

\* 7, 8. Read the requested page and commit the eviction.
CommitEviction(t) ==
  LET p == loc[t].page
      f == loc[t].frame
  IN  /\ At(t, "readNew") /\ LockFree
      /\ CanReplace(table, loc[t].old, p, f)
      /\ frame' = [frame EXCEPT ![f] = MarkReferenced(Pin(LoadPage(@, p)))]
      /\ table' = Replace(table, loc[t].old, p, f)
      /\ loads' = [loads EXCEPT ![p] = None]
      /\ loc' = [loc EXCEPT ![t].cv = loads[p]]
      /\ pc' = WakeAll([pc EXCEPT ![t] = "notify"])
      /\ held' = [held EXCEPT ![t][p] = @ + 1]
      /\ UNCHANGED <<freeList, nextPage, clock, stateLock, store>>

\* page_table.replace refuses after the frame was loaded and pinned: the
\* error leaves the frame, the entry and the waiters as they are.
CommitRejected(t) ==
  LET f == loc[t].frame
  IN  /\ At(t, "readNew") /\ LockFree
      /\ ~CanReplace(table, loc[t].old, loc[t].page, f)
      /\ frame' = [frame EXCEPT ![f] = MarkReferenced(Pin(LoadPage(@, loc[t].page)))]
      /\ Return(t)
      /\ UNCHANGED <<table, freeList, nextPage, clock, stateLock, loads, held, store>>

-----------------------------------------------------------------------------
\* new_page.  NoPageIdAvailable is an early return that changes nothing.

\* Mutant: u16::MAX is handed out as well.
MayIssueLast(p) == p <= PageIdLimit
MayIssue(p)     == p < PageIdLimit

\* next_page_id after p was handed out.
IssueId(p) == nextPage' = p + 1

NewFrameFor(fr, p) == MarkDirty(MarkReferenced(Pin(LoadPage(fr, p))))

NewFromFree(t) ==
  /\ At(t, "idle") /\ t \in Creators /\ MayPin(t) /\ LockFree
  /\ MayIssue(nextPage)
  /\ freeList # <<>>
  /\ LET f == Head(freeList)
     IN  /\ freeList' = Tail(freeList)
         /\ frame' = [frame EXCEPT ![f] = NewFrameFor(@, nextPage)]
         /\ table' = Insert(table, nextPage, f)
  /\ IssueId(nextPage)
  /\ held' = [held EXCEPT ![t][nextPage] = @ + 1]
  /\ store' = [store EXCEPT ![nextPage] = "changed"]
  /\ UNCHANGED <<clock, stateLock, loads, pc, loc>>

NewScan(t) ==
  /\ At(t, "idle") /\ t \in Creators /\ MayPin(t) /\ LockFree
  /\ MayIssue(nextPage)
  /\ freeList = <<>>
  /\ stateLock' = t
  /\ loc' = [loc EXCEPT ![t] = [NoLocals EXCEPT !.op = "new", !.page = nextPage]]
  /\ GoTo(t, "scan")
  /\ UNCHANGED <<frame, table, freeList, nextPage, clock, loads, held, store>>

\* The page id is the one read before the eviction began.
InstallNew(t) ==
  LET p == loc[t].page
      f == loc[t].frame
  IN  /\ At(t, "install") /\ LockFree
      /\ CanReplace(table, loc[t].old, p, f)
      /\ frame' = [frame EXCEPT ![f] = NewFrameFor(@, p)]
      /\ table' = Replace(table, loc[t].old, p, f)
      /\ IssueId(p)
      /\ held' = [held EXCEPT ![t][p] = @ + 1]
      /\ store' = [store EXCEPT ![p] = "changed"]
      /\ Return(t)
      /\ UNCHANGED <<freeList, clock, stateLock, loads>>

InstallRejected(t) ==
  LET f == loc[t].frame
  IN  /\ At(t, "install") /\ LockFree
      /\ ~CanReplace(table, loc[t].old, loc[t].page, f)
      /\ frame' = [frame EXCEPT ![f] = NewFrameFor(@, loc[t].page)]
      /\ Return(t)
      /\ UNCHANGED <<table, freeList, nextPage, clock, stateLock, loads, held, store>>

-----------------------------------------------------------------------------
\* unpin_page, mark_dirty_page.  A page that is not resident, a frame that is
\* reserved and a pin count of zero are errors that change nothing.  A caller
\* unpins the pages it pinned.

UnpinPage(t, p) ==
  /\ At(t, "idle") /\ held[t][p] > 0 /\ LockFree
  /\ IsMapped(table, p)
  /\ LET f == table[p]
     IN  /\ IsOpen(frame[f]) /\ IsPinned(frame[f])
         /\ frame' = [frame EXCEPT ![f] = Unpin(@)]
  /\ held' = [held EXCEPT ![t][p] = @ - 1]
  /\ UNCHANGED <<table, freeList, nextPage, clock, stateLock, loads, pc, loc, store>>

\* mark_dirty_page asks for no pin.
MarkDirtyPage(t, p) ==
  /\ At(t, "idle") /\ t \in Writers /\ LockFree
  /\ IsMapped(table, p) /\ IsOpen(frame[table[p]]) /\ HasMeta(frame[table[p]])
  /\ frame' = [frame EXCEPT ![table[p]] = MarkDirty(@)]
  /\ store' = [store EXCEPT ![p] = "changed"]
  /\ UNCHANGED <<table, freeList, nextPage, clock, stateLock, loads, pc, loc, held>>

-----------------------------------------------------------------------------
\* flush_page and the dirty case of delete_page: reserve the frame, then run
\* flush_reserved_frame without state_lock.

\* Mutant: the Reserved check is dropped.
MayFlushReserved(fr) == fr.dirty
MayFlush(fr)         == IsOpen(fr) /\ fr.dirty

BeginFlush(t, p, op) ==
  LET f == table[p]
  IN  /\ At(t, "idle") /\ LockFree
      /\ IsMapped(table, p) /\ MayFlush(frame[f])
      /\ frame' = [frame EXCEPT ![f] = Reserve(@)]
      /\ loc' = [loc EXCEPT ![t] = [NoLocals EXCEPT !.op = op, !.page = p, !.frame = f]]
      /\ GoTo(t, "flushCopy")
      /\ UNCHANGED <<table, freeList, nextPage, clock, stateLock, loads, held, store>>

FlushPage(t, p) == t \in Flushers /\ BeginFlush(t, p, "flush")

\* A clean page's frame is reserved and set Resident in one critical section.
FlushClean(t, p) ==
  /\ At(t, "idle") /\ t \in Flushers /\ LockFree
  /\ IsMapped(table, p)
  /\ IsOpen(frame[table[p]]) /\ ~frame[table[p]].dirty
  /\ frame' = [frame EXCEPT ![table[p]] = SetResident(@)]
  /\ UNCHANGED <<table, freeList, nextPage, clock, stateLock, loads, pc, loc, held, store>>

\* An error of flush_reserved_frame: flush_page returns it at once, delete_page
\* first sets the frame Resident, in a step of its own.
FlushError(t) == IF loc[t].op = "delete"
                 THEN GoTo(t, "undo") /\ UNCHANGED loc
                 ELSE Return(t)

FlushCopy(t) ==
  LET fr == frame[loc[t].frame]
  IN  /\ At(t, "flushCopy")
      /\ IsReserved(fr)
      /\ IF fr.dirty
         THEN /\ store' = Copy(store, fr.page)
              /\ loc' = [loc EXCEPT ![t].old = fr.page]
              /\ GoTo(t, "flushWrite")
         ELSE GoTo(t, "flushed") /\ UNCHANGED <<store, loc>>
      /\ UNCHANGED <<frame, table, freeList, nextPage, clock, stateLock, loads, held>>

FlushNotReserved(t) ==
  /\ At(t, "flushCopy")
  /\ ~IsReserved(frame[loc[t].frame])
  /\ FlushError(t)
  /\ UNCHANGED <<frame, table, freeList, nextPage, clock, stateLock, loads, held, store>>

FlushWrite(t) ==
  /\ At(t, "flushWrite")
  /\ store' = Saved(store, loc[t].old)
  /\ GoTo(t, "flushClear")
  /\ UNCHANGED <<frame, table, freeList, nextPage, clock, stateLock, loads, loc, held>>

FlushWriteFails(t) ==
  /\ DiskFaults
  /\ At(t, "flushWrite")
  /\ store' = Failed(store, loc[t].old)
  /\ frame' = [frame EXCEPT ![loc[t].frame] = SetResident(@)]
  /\ FlushError(t)
  /\ UNCHANGED <<table, freeList, nextPage, clock, stateLock, loads, held>>

FlushClear(t) ==
  LET f == loc[t].frame
  IN  /\ At(t, "flushClear") /\ HasMeta(frame[f])
      /\ frame' = [frame EXCEPT ![f] = ClearDirty(@)]
      /\ GoTo(t, "flushed")
      /\ UNCHANGED <<table, freeList, nextPage, clock, stateLock, loads, loc, held, store>>

\* clear_dirty's error: the frame was reset in the meantime.
FlushClearFails(t) ==
  LET f == loc[t].frame
  IN  /\ At(t, "flushClear") /\ ~HasMeta(frame[f])
      /\ frame' = [frame EXCEPT ![f] = SetResident(@)]
      /\ FlushError(t)
      /\ UNCHANGED <<table, freeList, nextPage, clock, stateLock, loads, held, store>>

\* flush_page ends under the frame's lock alone and notifies nobody.
FlushDone(t) ==
  /\ At(t, "flushed") /\ loc[t].op = "flush"
  /\ frame' = [frame EXCEPT ![loc[t].frame] = SetResident(@)]
  /\ Return(t)
  /\ UNCHANGED <<table, freeList, nextPage, clock, stateLock, loads, held, store>>

\* flush_all_pages borrows the manager exclusively, so no other call runs.  It
\* flushes the pages in the hash map's order and stops at the first error: at a
\* page whose frame is Reserved, or whose bytes the disk refuses.
FlushAll(t) ==
  LET mapped == {p \in PageIds : IsMapped(table, p)}
      Stops(p) == \/ ~IsOpen(frame[table[p]])
                  \/ DiskFaults /\ frame[table[p]].dirty
  IN  /\ t \in Flushers /\ \A u \in Threads : At(u, "idle")
      /\ \E S \in SUBSET mapped :
           /\ \A p \in S : IsOpen(frame[table[p]])
           /\ S = mapped \/ \E p \in mapped \ S : Stops(p)
           /\ frame' = [f \in FrameIds |-> IF \E p \in S : table[p] = f
                                          THEN SetResident(ClearDirty(frame[f]))
                                          ELSE frame[f]]
           /\ store' = [p \in PageIds |->
                          IF \E q \in S : LET fr == frame[table[q]]
                                         IN  fr.dirty /\ fr.page = p
                          THEN "saved" ELSE store[p]]
      /\ UNCHANGED <<table, freeList, nextPage, clock, stateLock, loads, pc, loc, held>>

-----------------------------------------------------------------------------
\* delete_page.  A pinned or reserved page is an error that changes nothing.

Discard(f, p) == /\ table' = Remove(table, p)
                 /\ frame' = [frame EXCEPT ![f] = Reset(@)]
                 /\ GiveBack(f)

DeleteClean(t, p) ==
  /\ At(t, "idle") /\ t \in Deleters /\ LockFree
  /\ IsMapped(table, p)
  /\ LET fr == frame[table[p]]
     IN  Unused(fr) /\ ~fr.dirty
  /\ Discard(table[p], p)
  /\ UNCHANGED <<nextPage, clock, stateLock, loads, pc, loc, held, store>>

DeleteDirty(t, p) ==
  /\ t \in Deleters
  /\ IsMapped(table, p) /\ Unused(frame[table[p]])
  /\ BeginFlush(t, p, "delete")

DeleteDone(t) ==
  /\ At(t, "flushed") /\ loc[t].op = "delete" /\ LockFree
  /\ Discard(loc[t].frame, loc[t].page)
  /\ Return(t)
  /\ UNCHANGED <<nextPage, clock, stateLock, loads, held, store>>

DeleteUndo(t) ==
  /\ At(t, "undo")
  /\ frame' = [frame EXCEPT ![loc[t].frame] = SetResident(@)]
  /\ Return(t)
  /\ UNCHANGED <<table, freeList, nextPage, clock, stateLock, loads, held, store>>

-----------------------------------------------------------------------------
\* A condition variable may wake a waiter without a notification.
SpuriousWake(t) ==
  /\ \/ At(t, "cvWait") /\ GoTo(t, "lookup")
     \/ At(t, "loadSleep") /\ GoTo(t, "loadCheck")
  /\ UNCHANGED <<frame, table, freeList, nextPage, clock, stateLock, loads,
                 loc, held, store>>

\* A caller starts a call, or makes one that is a single critical section.
Call(t) ==
  \/ \E p \in PageIds : \/ CallFetch(t, p)
                         \/ UnpinPage(t, p)
                         \/ MarkDirtyPage(t, p)
                         \/ FlushPage(t, p)
                         \/ FlushClean(t, p)
                         \/ DeleteClean(t, p)
                         \/ DeleteDirty(t, p)
  \/ FlushAll(t)
  \/ NewFromFree(t)
  \/ NewScan(t)

\* A call in progress takes its next step.
FetchStep(t) ==
  \/ FetchHit(t) \/ FetchHitFails(t) \/ FetchBusy(t) \/ FetchJoin(t) \/ LoadCheck(t)
  \/ FetchFromFree(t) \/ FetchFreeReserved(t) \/ FetchRefused(t)
  \/ ReadFree(t) \/ PublishFree(t) \/ ReadFreeFails(t) \/ NotifyLoaders(t) \/ FetchScan(t)
  \/ FetchWait(t) \/ FetchNoEvictable(t)
  \/ FetchWriteFails(t) \/ FetchReadFails(t)
  \/ CommitEviction(t) \/ CommitRejected(t)

EvictStep(t) ==
  \/ ClockSkip(t) \/ ClockSecondChance(t) \/ ClockVictim(t) \/ VictimWithoutPage(t)
  \/ WriteOld(t) \/ NewNoEvictable(t) \/ NewWriteFails(t)
  \/ InstallNew(t) \/ InstallRejected(t)

FlushStep(t) ==
  \/ FlushCopy(t) \/ FlushNotReserved(t) \/ FlushWrite(t) \/ FlushWriteFails(t)
  \/ FlushClear(t) \/ FlushClearFails(t) \/ FlushDone(t)
  \/ DeleteDone(t) \/ DeleteUndo(t)

Step(t) == FetchStep(t) \/ EvictStep(t) \/ FlushStep(t)

Next == \E t \in Threads : Call(t) \/ Step(t) \/ SpuriousWake(t)

Spec == Init /\ [][Next]_vars
=============================================================================
