------------------------ MODULE BufferPoolProperties ------------------------
(***************************************************************************)
(* What the buffer pool promises its callers and its own steps, stated     *)
(* over the state of BufferPool.  Which of these hold depends on who calls *)
(* (Creators, Deleters, ForeignIds) and on the disk (DiskFaults);          *)
(* the runs and the README say for which callers each one is checked.      *)
(***************************************************************************)
EXTENDS BufferPool

\* The steps between a reservation and the end of the work it protects.
Reserving == {"readFree", "writeOld", "readNew", "install",
              "flushCopy", "flushWrite", "flushClear", "flushed"}

Owns(t, f)  == pc[t] \in Reserving /\ loc[t].frame = f
Fills(t, f) == pc[t] \in {"readFree", "publish"} /\ loc[t].frame = f

\* t's call inserted the entry for its page and has not removed it.
Loading(t) == loc[t].loader /\ ~At(t, "notify")

\* The pins of page p, one by one: the i-th that caller t holds.
PinsOn(p) == {q \in Threads \X (1 .. MaxHeld) : q[2] <= held[q[1]][p]}

Mapped(f) == \E p \in PageIds : table[p] = f
Listed(f) == \E i \in DOMAIN freeList : freeList[i] = f

-----------------------------------------------------------------------------
\* Safety.

\* A mapped page is in the frame the table names: no frame serves two pages and
\* no lookup returns a frame that was reset or given away (fetch 93-141).
MappingExact ==
  \A p \in PageIds :
    IsMapped(table, p) => frame[table[p]].page = p /\ frame[table[p]].st # "Free"

\* Every frame is in one place: on the free list (once, in state Free), mapped, or
\* in the hands of one thread that fills it.  Neither an error nor a race loses a
\* frame or gives it to two owners.
FramesAccounted ==
  /\ \A i, j \in DOMAIN freeList : freeList[i] = freeList[j] => i = j
  /\ \A f \in FrameIds :
       /\ Listed(f) \/ Mapped(f) \/ \E t \in Threads : Fills(t, f)
       /\ Listed(f) => ~Mapped(f) /\ frame[f].st = "Free"
       /\ \A t \in Threads : Fills(t, f) => ~Listed(f) /\ ~Mapped(f)
       /\ \A s, t \in Threads : Fills(s, f) /\ Fills(t, f) => s = t

\* A frame is Reserved exactly while one thread works on it: a reservation is
\* neither leaked nor ended by another thread (flush_reserved_frame, eviction).
ReservedHasOwner ==
  /\ \A f \in FrameIds : IsReserved(frame[f]) <=> \E t \in Threads : Owns(t, f)
  /\ \A f \in FrameIds : \A s, t \in Threads : Owns(s, f) /\ Owns(t, f) => s = t

\* pin_count is the number of pins callers hold, and a page nobody can find
\* has none (pin in fetch_page and new_page, unpin_page).
PinsExact ==
  \A p \in PageIds :
    /\ \A t \in Threads : held[t][p] <= MaxHeld
    /\ Cardinality(PinsOn(p)) = IF IsMapped(table, p) THEN frame[table[p]].pins ELSE 0

\* A page newer than the disk's copy is resident and dirty, through every
\* eviction, flush, deletion and failed write.
DirtyNotLost ==
  \A p \in PageIds :
    store[p] # "saved" => IsMapped(table, p) /\ frame[table[p]].dirty

\* "Only one thread is allowed to load a particular PageId" (manager.rs:159), and
\* it has an entry others can wait on for as long as it loads.
UniqueLoader ==
  \A t \in Threads : Loading(t) =>
    /\ loads[loc[t].page] # None
    /\ \A s \in Threads : Loading(s) /\ loc[s].page = loc[t].page => s = t

\* A page is resident or being loaded, never both.
LoadingNotResident ==
  \A t \in Threads : Loading(t) => ~IsMapped(table, loc[t].page)

\* While a call loads a page, the file holds the page's newest bytes: nobody reads
\* a page whose bytes another thread's eviction, flush or deletion still has on the
\* way to the disk, or that new_page has just made (103-125, 281, 627).
LoadReadsNewest == \A t \in Threads : Loading(t) => store[loc[t].page] = "saved"

\* The comment where a fetch joins a load, "Another thread is already loading this
\* PageId" (manager.rs:179): while a thread waits for an entry of its page to go,
\* another thread's call owns that entry.
AnotherThreadLoads ==
  \A t \in Threads :
    pc[t] \in {"loadCheck", "loadSleep"} /\ loads[loc[t].page] # None =>
      \E s \in Threads \ {t} : Loading(s) /\ loc[s].page = loc[t].page

\* unpin_page succeeds for a caller that holds a pin: no eviction, whether it
\* commits or fails, touches a pinned page (761-781).  A flush does: the callers
\* of this property flush nothing.
HeldPageUnpins ==
  \A t \in Threads, p \in PageIds : held[t][p] > 0 =>
    IsMapped(table, p) /\ ~IsReserved(frame[table[p]])

-----------------------------------------------------------------------------
\* Action properties.

\* NoEvictableFrame means that every frame is pinned (490-492, 520-524).  A flush
\* that ends between the scan and has_reserved_frame makes it untrue: the
\* callers of this property only fetch.
NoEvictableIsGenuine ==
  [][\A t \in Threads : FetchNoEvictable(t) =>
       \A f \in FrameIds : IsPinned(frame[f])]_vars

\* The frame a caller got for a page stays that page's frame while the caller
\* keeps a pin on it: neither eviction nor deletion takes it.
PinnedStaysPut ==
  [][\A t \in Threads, p \in PageIds :
       held[t][p] > 0 /\ held'[t][p] > 0 =>
         /\ table'[p] = table[p]
         /\ frame'[table[p]].page = p]_vars

\* An eviction that reached its commit commits: replace never refuses a frame
\* that was already overwritten and pinned (670-725, 1047-1058).
EvictionCommits ==
  [][\A t \in Threads : ~CommitRejected(t) /\ ~InstallRejected(t)]_vars

-----------------------------------------------------------------------------
\* Fairness.  A thread inside a call keeps running; the operating system's
\* mutexes are not fair, so nothing is assumed of a thread that loses a lock
\* again and again.  Instead callers make finitely many calls, as the tests'
\* workers do, and spurious wakeups are finitely many.

Quiet == [][\A t \in Threads : ~Call(t) /\ ~SpuriousWake(t)]_vars

FairSpec == /\ Spec
            /\ \A t \in Threads : WF_vars(Step(t))
            /\ <>Quiet

\* Every reservation ends: evictions of fetch_page and new_page, loads and flushes all
\* give the frame back, whatever the disk answers.
ReservationEnds ==
  \A f \in FrameIds : IsReserved(frame[f]) ~> ~IsReserved(frame[f])

\* find_victim's loop ends, with a victim or without.
ScanEnds == \A t \in Threads : At(t, "scan") ~> ~At(t, "scan")

\* "Wait until the structural state changes and retry the lookup" (107-109): a
\* wait on state_cv ends.
StateWaitEnds == \A t \in Threads : At(t, "cvWait") ~> ~At(t, "cvWait")

\* A wait for another thread's load ends once the load has.
LoadWaitEnds == \A t \in Threads : At(t, "loadSleep") ~> ~At(t, "loadSleep")

\* Every fetch returns: a waiter of a load is woken and finds the page.
FetchReturns == \A t \in Threads : loc[t].op = "fetch" ~> At(t, "idle")
=============================================================================
