# A verification development of task_pool

`task_pool` is a Rust crate with the storage layer of a small database (a buffer
pool over a page file, slotted pages, a free-space map, a heap file) and a few
foundations (a bounded task runner, table layouts, byte order). This directory
holds TLA+ models of it, the TLC configurations that check them, and proofs
checked by TLAPS. Paths below are relative to the crate: `manager.rs` is
`src/storage/buffer_pool/manager.rs`.

Run a configuration with `tlc -workers 2 -config X.cfg M`, where `M` is the module the
table of section 3 names, and the proofs with `tlapm M.tla`, where `M` is `NumberLemmas` or one
of the seven modules whose names end in `Proofs`.

## 1. The system

| Component | State | Operations | Correct when |
|---|---|---|---|
| Buffer pool manager (`manager.rs`) | `state_lock`, `state_cv`, `in_flight_loads` (a condition variable a page), `next_page_id`, and the parts below | `fetch_page`, `new_page`, `unpin_page`, `mark_dirty_page`, `flush_page`, `flush_all_pages`, `delete_page` | a page is in the frame the table names; a frame has one owner; a pinned page stays; a change reaches the disk before its frame is reused; one loader a page; every wait ends |
| Frame (`frame.rs`) | bytes, state Free/Reserved/Resident, optional metadata: page id, pin count, dirty and reference bit | load, reserve, pin, mark, reset | the metadata follows the page |
| Page table (`page_table.rs`) | map from page ids to frames | lookup, `insert`, `replace`, `remove_page` | one frame for a page |
| Free list (`free_frames.rs`) | queue of frames | `get_frame`, `add_frame` | each frame at most once, and not mapped |
| CLOCK replacer (`clock_replacer.rs`) | the hand | `find_victim` | a victim is unpinned and not reserved; ends |
| Disk manager (`disk.rs`) | a file | `read_page`, `write_page` | - |
| Metrics (`metrics.rs`) | four atomic counters | record, snapshot, reset | hits + misses = fetches |
| Slotted page (`slotted_page.rs`) | 4096 bytes: slots grow up, records down | insert, get, delete, compact | slots and live records never overlap; a record is read back as written |
| Free-space map (`fsm/tree.rs`) | a tree of bucket maxima over page leaves | register, update, find (excluding) | an inner node is the maximum of its children; find returns a page of a sufficient bucket when there is one |
| Heap file and scan (`heap/`, `access/`) | pages and their map; a cursor | create, insert, scan | an insert lands in a page with room; the scan returns every live record once |
| Task pool (`task_pool.rs`) | a semaphore, spawned tasks | `run_with_limit` | at most `limit` tasks at once; results in order of the tasks |
| Table layouts (`row_vs_col.rs`) | rows, columns or pages of columns | insert, get, column sum | the three agree |
| Endianness (`endianness.rs`) | none | conversions | the inverse of each other |
| NVMe harness (`bin/nvme_harness.rs`) | a semaphore, blocking reads | benchmark loop | at most `queue_depth` reads at once |

How they interact. Callers (threads) share one manager behind an `Arc`. Every call
takes `state_lock` for its structural decision, touches frames under their own
`RwLock`, and gives `state_lock` up for disk transfers; so a fetch or an eviction is
several critical sections with other calls in between. The frame state Reserved is
what protects a frame in that gap. Two kinds of condition variable wake waiters:
`state_cv`, for a frame that was reserved, and one per in-flight load. The heap file
keeps its own pages in memory and does not use the buffer pool; the free-space map is
its index. The task pool and the harness share only the semaphore idiom.

What is hard here: decisions made before `state_lock` is given up and used after;
rollbacks when a transfer fails half-way; transitions that happen under a frame lock
only and that nobody is told of; two families of condition variables; a scan that
runs while frames change; a pin count that is reset by a reload. `PROJECT.json` lists
each hazard at its line with the properties that watch it.

## 2. Modules

| Module | Models |
|---|---|
| `Frame` | a frame as a record, and the operations of `frame.rs` on it |
| `PageTable` | the page table as a total function with `None` entries |
| `BufferPool` | the manager with free list, CLOCK hand, in-flight loads and disk: threads as `pc` and `loc`, one action per critical section or step |
| `BufferPoolProperties` | safety, action and liveness properties, fairness |
| `PageCache` | the abstract specification: what a pool is to its callers, without frames, threads, locks and failures |
| `BufferPoolRefinement` | the mapping under which `BufferPool` implements `PageCache` |
| `MeteredBufferPool` | the pool with the four counters of `metrics.rs` |
| `SlottedPage` | a page as its slots, `free_end` and, for every byte, who wrote it last |
| `FreeSpaceMap` | the array of nodes; registration, update and search as operators |
| `HeapFile` | the heap file over `SlottedPage` and `FreeSpaceMap`, and its scan |
| `HeapFileProperties` | its properties and fairness |
| `TaskPool` | `run_with_limit`: caller, tasks, semaphore |
| `Harness` | `run_benchmark`: loop, blocking reads, semaphore |
| `TableLayouts` | the three stores of `row_vs_col.rs` side by side |
| `ByteOrder` | byte order and the record format over a stream |
| `MCBufferPool`, `MCMeteredBufferPool`, `MCHeapFile`, `MCFoundations` | model values and bounds of the TLC runs |
| `BufferPoolInvariants` | the inductive invariants of the pool, and for which callers they hold |
| `BufferPoolProofs`, `BufferPoolShapeProofs`, `BufferPoolPageProofs`, `BufferPoolRefinementProofs`, `MeteredBufferPoolProofs` | theorems about the pool: loaders; tables and frames; bytes, pins and scans; the page cache; counters |
| `HeapFileProofs` | theorems about pages, map, inserts and scans |
| `FoundationsProofs` | theorems about the four foundations, each by itself and side by side |
| `NumberLemmas` | induction, recursive functions and division, for the proofs about the heap file and the foundations |

`PageTable` EXTENDS `Frame`, `BufferPool` EXTENDS `PageTable`, `BufferPoolProperties` EXTENDS
`BufferPool`, and `MeteredBufferPool`, `BufferPoolRefinement` and `BufferPoolInvariants` EXTEND that; `BufferPoolRefinement` has
`PageCache` as an INSTANCE. A module of proofs EXTENDS what it is about and the proofs it builds on. `HeapFile` EXTENDS `SlottedPage` and `FreeSpaceMap`, as the file holds pages
and their map. The four foundations know nothing of each other; `MCFoundations` EXTENDS all
four, and each of its behaviours is one of them (`part`).
Operators commented as mutants are the definitions the mutants of `PROJECT.json`
replace others by; nothing else uses them.

### How state and actions correspond to the code: the buffer pool

`frame`, `table`, `freeList`, `nextPage`, `hand` and `loads` are the fields of
`BufferPoolManager` and its parts. `stateLock` is the owner of `state_lock` where a
critical section takes more than one action. `scanned` and `found` are the locals of
`find_victim`. `pc[t]` and `loc[t]` are where thread `t` is and its locals. `held`,
`store` and the field `loader` are history: the pins each caller owns, whether the disk has a
page's newest bytes, and whether the call inserted its page's entry. No action reads
them, except that a caller unpins only what it pinned and takes no more pins than
`MaxHeld`.

Grain. Two threads can only see each other through `state_lock`, a frame lock, the
mutex of `in_flight_loads`, or the disk. A critical section of `state_lock` is one
action, with two exceptions, because steps under other locks fall into it: the CLOCK
scan (one action a frame, then a separate look for reserved frames; the locks of
single frames are free in between) and the refused reservation (an entry that
waiters see under their own mutex is there for a moment). Steps under a frame lock
alone (`ReadFree`, `FlushCopy`, `FlushClear`, `FlushDone`, `NewWriteFails`,
`DeleteUndo`) and disk writes are actions of their own. A read that succeeds is
merged with the step that uses its bytes, which nobody sees earlier. A failed
transfer and its rollback are one action. The choice of a victim and its reservation
are one action: only steps that end a reservation can fall between them.

Calls that fail without changing anything (`PageNotFound`, `PagePinned`,
`FrameReserved`, `NoPageIdAvailable`, unpin of a zero count) are not steps. Error branches that
need a poisoned lock or a buffer of the wrong length cannot be reached: no code that holds a lock panics,
and every buffer is `[0u8; PAGE_SIZE]`.

Waiting. A wait on `state_cv` is the location `cvWait`; `notify_all` moves every
such thread to `lookup`. A wait on an in-flight load is `loadSleep` with the
condition variable the thread cloned in `loc[t].cv`; a notification moves the threads
asleep on that very variable to `loadCheck`, where they look for an entry of
their page, whoever inserted it. Condition variables are numbers; a new entry takes the
least that nothing refers to. `SpuriousWake` wakes a thread for no reason, as
`std::sync::Condvar` may.

Which ids callers fetch. `fetch_page` takes any `u16`, whether `new_page` returned it or not; `read_page` gives zeros past
the end of the file. That callers ask for ids of pages only is an assumption about them (`Askable`), which no line of the code
enforces and which guards `CallFetch` alone: they have the ids `new_page` returned and those of the constant `ForeignIds`, which
come from elsewhere, such as a file left by an earlier process. `ForeignIds` may hold `u16::MAX`, which `new_page` never hands out.
It lets runs fetch without creating pages first.

The abstract page cache. A page is resident when the page table maps it, `pins` and the pages
newer than the disk are those of its frame, and `issued` is `next_page_id`. So a load is
the step that publishes its page, an eviction the `replace` that swaps two pages (the
victim stays resident until then), and everything between is a stutter.

Metrics. `MeteredNext` is a step of the pool together with what it adds to the counters:
`fetches` when a call begins, `cacheHits` in the hit branch, before the pin that may fail, `cacheMisses` at the
first lookup of a call that misses (`miss_recorded`), `evictions` once a fetch has
replaced a page. `new_page` counts nothing. The counters are read when no call is going on, as in the tests.

### The heap file

`capacity`, `pages` and `fsm` are the fields of `HeapFile`; `call`, `size` and `excluded` the locals of
`insert`, `cursor` those of `HeapFileScan`. `touched`, `compacted` and `seen` are history: the
pages whose free space changed through `get_page_mut`, those compacted, and what the scan returned.
Every method borrows the file, so calls do not overlap. `insert` is one action a round of
its loop (`InsertHere`, `InsertElsewhere`, `InsertInNew`, `InsertFull`); what a caller does with
`get_page_mut` is `PageInsert`, `PageDelete` or `PageCompact`, each of which is the whole method of
`SlottedPage`; the scan is one action a round of the loop in `next`, and may be dropped at any time.

A page's bytes are the name of their last writer: the directory, the record of a slot, or
nobody. This tells apart everything a record could lose: `Get` returns a record's own bytes only if nobody wrote
over any of them. Slots are kept decoded, which is right as long as `DirectoriesIntact` holds.
A compaction whose copy leaves the page is a panic; the model has no step for it, and
`CompactStaysInPage` says where it happens: in the second compaction of a page at the earliest (`FirstCompactStays`).

`CompactSteps` holds the page and the destination after each round of `compact`'s loop, each round a `MoveSlot`.
The map is a function on the nodes `0 .. 2c - 2`. `Recomputed` holds the map after each of the calls of `recompute_ancestors` along
the path `Above` a leaf, `Finds` what `find_page_recursive` returns for each node; both are recursive functions, which can be
proved about. A search is compared with the leftmost suitable page by the places of leaves in the tree (`LeftOf`, from `Paths`). `None` is -1, which is less than every bucket as `None < Some(b)` is in Rust.

### The foundations

`TaskPool`: a spawned task is `new` until it is polled, then it runs with a permit or waits in the semaphore's
queue; a permit that is given back goes to the longest waiting task (tokio's semaphore is fair). A task may
panic, which drops its permit, and then the caller panics at `handle.await.unwrap()`; the caller's own future may be dropped
at an await. In both cases the tasks run on, detached, with their permits.
`Harness` has the same idiom with the permit taken by the loop and given back by a blocking thread, and stops at the first failed read.
`TableLayouts` gives every row to all three stores and compares them cell by cell.
Its column sums are loops that add one value after another (`Total`).
`ByteOrder` lets a record's bytes arrive one by one, with those of a next record behind them. A shift by 8 bits a byte is a
product with `Weight`, and the `|` of shifted bytes their sum (`Number`), as they share no bit.
The semaphore and the join handles are tokio's and are modelled from their use here; the map marks them external.

## 3. What is checked

Threads per run are the callers; `Fetchers`, `Creators`, `Writers`, `Flushers` and `Deleters`
say who calls what. A run explores every interleaving of its callers.

| Run (module) | Instance | Question |
|---|---|---|
| `pool_safety` (`MCBufferPool`) | 2 threads, 3 page ids, the third of them `u16::MAX`, 2 frames, all operations, two pins a caller, reliable disk, one creator | all safety properties; the pool implements the page cache |
| `pool_faults` (`MCMeteredBufferPool`) | 2 threads, 3 pages, 2 frames, fetches only, fair, disk may fail, 4 fetches | what a failed transfer leaves behind, the counters, and the meaning of NoEvictableFrame |
| `pool_waiters` (`MCBufferPool`) | 3 threads, 2 pages, 2 frames, fair | every fetch returns when all pages fit |
| `pool_progress` (`MCBufferPool`) | 2 threads, 2 pages, 1 frame, fair, disk may fail, a flusher and a creator | reservations and scans end; no change is lost |
| `pool_deletes` (`MCBufferPool`) | 2 threads, 2 pages, 1 frame, two deleters, disk may fail | one loader a page in every error branch |
| `heap_file` (`MCHeapFile`) | capacities 1 to 3, pages of 8 bytes, three record lengths, one page changed behind the map | pages, map, inserts and scans together |
| `foundations` (`MCFoundations`) | 4 tasks with limits 0 to 2; 5 reads with depths 1 and 2; 5 rows, 2 a page; all records of one-bit bytes | the four foundations, each on its own |

The properties of the pool, in `BufferPoolProperties`, `BufferPoolRefinement` and `MeteredBufferPool`:

- `MappingExact`, `FramesAccounted`, `ReservedHasOwner`: table, free list, frame states and
  threads agree; no frame is lost or has two owners.
- `PinsExact`, `PinnedStaysPut`: the count is the number of pins held, and no step of
  anyone moves a page that stays pinned.
- `DirtyNotLost`: a page newer than the disk's copy is resident and dirty.
- `UniqueLoader`, `LoadingNotResident`: a page is loaded by at most one call, which
  has an entry, and not while it is resident.
- `LoadReadsNewest`: whoever loads a page finds its newest bytes in the file, also when an eviction, a
  flush or a deletion of that page was under way when it was asked for.
- `EvictionCommits`: the victim and its page, read before `state_lock` was released, are still each
  other's when the eviction commits, and the requested page has not arrived otherwise.
- `ImplementsPageCache`: whatever overlaps, each step is one atomic step of the page cache or
  none; a page leaves only unpinned and saved, in the step that brings the page it makes room for.
- `HeldPageUnpins`: a caller that holds a pin can give it back (no flushes).
- `NoEvictableIsGenuine`: NoEvictableFrame only when every frame is pinned (fetches only).
- `CountersAddUp`: at rest each fetch counted a hit or a miss, at most one of either, and every page
  brought in or replaced was a miss.
- `ReservationEnds`, `ScanEnds`, `StateWaitEnds`, `FetchReturns`: liveness.

Of the heap file, in `HeapFileProperties`:

- `RecordsReadBack`, `DirectoriesIntact`: no insert writes over a live record or the directory.
- `MapFollowsPages`, `MapFindsFirst`: the map is a tree of maxima with a leaf a page, never below the page's bucket; the search
  returns the leftmost suitable page that is not excluded, and none only if there is none.
- `InsertAddsOne`, `FullIsGenuine`: an insert adds one record to one page and leaves no
  empty page behind; HeapFileFull only if no page has room, although buckets are coarse and stale.
- `ScanComplete`, `CallsEnd`: a scan returns each live record once, in order; inserts and scans end.

Of the foundations, in their modules: `LimitKept`, `ResultsInOrder`, `DepthKept`, `BytesExact`,
`LayoutsAgree`, `ReadBack`, and `PartsEnd` (in `MCFoundations`): every task ends, and so does the call or the benchmark.

### Where they hold, and where they do not

The code keeps its safety properties for some callers and not for others, and each run says for whom:

- One creator. Two concurrent `new_page` calls that both evict read the same
  `next_page_id` (947); the second one's `replace` fails after it has overwritten and
  pinned its frame (1047-1058), or succeeds with an id handed out before, if that page was evicted
  meanwhile. Nothing in the repository speaks of concurrent `new_page` calls. With one creator nothing else changes
  `next_page_id`, so that no property here says anything about that race.
- Deletions or disk faults, not both. `delete_page` undoes a failed flush twice, the second
  time when the frame may already be somebody else's (903-908). In `pool_deletes`, where both
  are allowed, only `UniqueLoader` is claimed; frames do end up on the free list
  twice there, and the run takes the error branches that exist for such states
  (`FetchFreeReserved`, `FetchHitFails`, `VictimWithoutPage`, `CommitRejected`, `InstallRejected`,
  `FlushNotReserved`, `FlushClearFails`).
- Beside a creator nobody asks for an id that `new_page` may still hand out: one of an earlier process, or
  one guessed. If such a page is resident, `new_page` enters its id over it when it takes a free frame (985; the
  other frame is lost), and its `replace` is refused when it evicts (1056). Runs with a creator have
  `ForeignIds = {}` or `{u16::MAX}`.
- Fewer pins of a page than `MaxPins` (255 in the code).
- No flushes for `HeldPageUnpins` and `NoEvictableIsGenuine`. A flush reserves a pinned frame, so its
  holder's `unpin_page` fails with FrameReserved meanwhile (774-776; the workers of
  `tests/concurrent_buffer_pool.rs:270-277` flush pages others hold and expect no such failure). And a
  flush that ends between the CLOCK scan and the look for reserved frames leaves
  `fetch_page` with a NoEvictableFrame that is not genuine (494-526).
- `RecordsReadBack` and `FullIsGenuine` speak of pages `compact` was not called on: it leaves `free_end`
  behind the records it moved, so the space it reports is theirs (`heap_compact` below). The first `compact` of a page
  stays in the page. It keeps the records if they all fit between the directory and `free_end`; if not, a record may be
  copied over another that was not moved yet: on a page of 8 bytes with the slots (7, 1) and (5, 2), as (offset, length), record 0 is copied
  to offset 5, over the first byte of record 1. Nothing in the repository says that `compact` keeps the records, so
  no run claims it.
- A record of length 0 reads as deleted in `ScanComplete`, as in `scan.rs:44`.
- Limits above 0 for `PartsEnd`: with a limit of 0 every task waits for ever, as nothing releases a first permit.

### Where the code departs from what it says

| Run | Property | The code |
|---|---|---|
| `own_load` | `AnotherThreadLoads` | a fetch leaves its in-flight entry behind on two exits: one that waits on `state_cv` for a victim (512-517) then finds its own entry and waits for itself, one that fails with NoEvictableFrame (526) leaves an entry later fetches wait for |
| `lost_wakeup` | `StateWaitEnds` | `flush_page` (860-863), `delete_page` and `new_page` end a reservation without notifying `state_cv` |
| `stale_condvar` | `LoadWaitEnds` | a waiter re-checks by page id but sleeps on the condition variable it cloned (196-199) |
| `hit_and_miss` | `HitsAndMissesAreFetches` | a fetch that missed, waited and then found its page counts as both (129, 150) |
| `heap_compact` | `CompactStaysInPage` | after a compaction an insert writes over live records, and the next compaction copies past the end of the page (85-99) |

Each run checks that property alone, and `PROJECT.json` quotes the line that says otherwise.

### Bounds

Two threads are enough for every pair of critical sections to interleave, and three for a
loader with two waiters or an evictor between two fetchers. With more pages than
frames every fetch can meet eviction; three pages over one or two frames let an
evicted page be asked for while it leaves, and a third one replace it. `MaxHeld`
bounds the pins a caller holds, `MaxPins` stands for 255 and is at least threads times
`MaxHeld`, `NumCvs` is at least one less than the pages asked for plus threads, so that a fresh condition variable
always exists. `PageIdLimit` stands for `u16::MAX`: ids go up to it, and `new_page` stops below it. Where
callers have ids of their own and nobody creates pages it is one more of them; in `pool_progress`, `pool_deletes` and
`lost_wakeup` nobody asks for it. `FreeListBound` (only in `pool_deletes`)
cuts states in which repeated double deletions have put a frame on the list more than
twice. No run uses symmetry, as most check liveness or name callers by their role.
Deadlock is not checked: callers may stop, for instance at the
last page id with everything pinned; that waits end is checked by the liveness properties instead. The same is true of a heap file that is full and a call that has returned.

`MaxFetches` bounds the fetches of `pool_faults`, so that the counters are finite; with four
calls each of two threads can miss, wait, meet a failure and try again. Without a bound
`pool_safety` covers the same steps on a reliable disk.

A page of 8 bytes, 7 behind the header, with slots of 2 holds two records of one byte or one of three, never both
kinds; a record of six is refused at once. Four buckets of 2
make a right bucket with too little room a common case. Capacities up to 3 have trees with
leaves on one and on two levels. `MutablePages` bounds the pages changed behind the map's back: the first is the one every
search meets first. `heap_compact` needs one page only.

Four tasks under a limit of 2 leave two in the queue; five reads over four blocks at a depth of 2 let reads end out of order, wrap the block
number, and reach every block. Five rows at two a page fill two pages and open a third. With `Radix` 2 a record has 7 bytes of one bit,
and all 128 records are read from every prefix of their stream; order mistakes do not depend on the radix.

### Fairness

`FairSpec` asks of each thread that a call it has begun goes on (weak fairness of
`Step(t)`), and that callers make finitely many calls and spurious wake-ups are finite
(`<>Quiet`), as in the tests, whose workers run a fixed number of iterations. Nothing is
assumed about who gets `state_lock`: `std::sync::Mutex` is not fair, and with
endless calls a thread may lose the lock for ever. `FairMeteredSpec` is the same with counters.

The heap file has one thread; its `FairSpec` says that an insert or a scan that has begun goes on
unless the caller drops it. `TaskFairness` and `BenchFairness` say that the runtime polls every task that is ready, that blocking threads run, and that a task's
future ends, well or by a panic: the closures of the tests and the reads of the harness are finite. In `MCFoundations` each is
assumed only in behaviours of its part.

## 4. What is proved

Every theorem is about the full specification, for every value of the constants that the named
assumptions (`ASSUME`) allow: any number of threads, pages, frames, tasks and reads, any page size,
capacity and record length, with or without disk faults. Every safety property of the passing runs has one, the action
properties and the refinement included; what is left to TLC is liveness (the end of this section).

### The buffer pool

| Module | Theorems (property) | Hypotheses |
|---|---|---|
| `BufferPoolProofs` | `TypeCorrect` (`TypeOK`), `LoaderIsUnique` (`UniqueLoader`) | none |
| `BufferPoolShapeProofs` | `MappingIsExact`, `FramesAreAccounted`, `ReservedIsOwned`, `LoadingIsNotResident`, `EvictionsCommit` | `SafeCallers` |
| `BufferPoolPageProofs` | `NothingIsLost` (`DirtyNotLost`), `LoadsReadNewest` | `SafeCallers` |
| | `PinsAreExact`, `PinnedStay` (`PinnedStaysPut`) | `SafeCallers`, `PinsFit` |
| | `HeldPagesUnpin` (`HeldPageUnpins`) | the same, `Flushers = {}` |
| | `NoEvictableIsRight` (`NoEvictableIsGenuine`) | `SafeCallers`, `NothingEndsUnlocked` |
| `BufferPoolRefinementProofs` | `PoolIsAPageCache` (`ImplementsPageCache`) | `SafeCallers`, `PinsFit` |
| `MeteredBufferPoolProofs` | `CountsAddUp` (`CountersAddUp`) | `SafeCallers`, `Creators = {}`, finitely many threads |

The hypotheses are about who calls what, and each is one the code needs ("Where they hold" in section 3
has the behaviour that breaks the property without it; the constants of the runs satisfy them):

- `SafeCallers`: one creator at most, beside which callers have no ids from elsewhere but `u16::MAX`; deletions or a
  failing disk, not both.
- `PinsFit`: the threads are finitely many and cannot hold more pins than `pin_count` counts.
- `Flushers = {}` for `HeldPagesUnpin`: a flush reserves a frame that others have pinned.
- `NothingEndsUnlocked` for `NoEvictableIsRight`: nobody flushes, and a creator has a reliable disk. It is weaker than
  the fetches-only setting of the run. A flush, and a `new_page` whose write fails, end a reservation outside `state_lock`, between
  the scan and the look for reserved frames.
- `Creators = {}` for `CountsAddUp`: `new_page` counts nothing, so that what it brings in would be no miss.

The inductive invariants are in `BufferPoolInvariants`, in layers, each inductive given those before it:

1. `LoaderInv == TypeOK /\ ControlOK /\ UniqueLoader`. `UniqueLoader` alone is not inductive: a removal of an
   entry must be by its loader, which the state does not show. `ControlOK` says what a thread's location implies for its
   locals; among others that whoever is about to remove an entry owns one. `TypeStep` has one case an action;
   `OthersKeep` says that a step moves other threads at most from a wait to the look that follows it, so that only the
   thread that moves matters for `ControlOK`; `EntriesStep` that it inserts an entry where there was none, or removes its own.
2. `ShapeInv`: the holder of `state_lock` is the thread that scans, for want of a free frame (`LockOK`); which call a location belongs
   to, and that the error branches for broken states are never reached (`CallOK`); what a thread knows of the frame it
   works on: the victim is still mapped to its old page and unpinned, the frame to be published is loaded (`WorkOK`); and
   the four safety properties about tables, frames and loads, with `ResidentAskable`: no page is resident but those callers could ask for, so
   that a new page's id is in no frame. What a call read before it released `state_lock` is in `WorkOK` and
   `CallOK`: that it is still true when the call commits is what makes this invariant inductive.
3. `DataInv`: a page newer than the disk is resident and dirty, and bytes on their way to the disk are the newest (`SavingOK`).
4. `PinInv`: the counts are the pins held, and a call that is to get a pin has one to spare.
5. `ScanInv`, beside 3 and 4: a scan has found busy all the frames the hand passed.

The argument for `ShapeInv` avoids a case for every pair of actions and conjuncts. A step leaves frames, table and free list
alone (`Silent`), or keeps every frame in its place (`Stays`), or moves one frame that no other thread works on (`Moves`);
`HowFramesMove` shows that there are no others. From these three descriptions follow the properties of the pool as
a whole (`FramesStep`, `PagesStep`, `IdsStep`) and that the work of all other threads goes on undisturbed
(`OthersWork`). What is left, per action, is what the thread that moved knows afterwards (`OwnCall`, `OwnWork`). The pins are argued alike: a step
leaves every page's pins alone or adds or drops one of one page, with the caller's history.

The refinement uses layers 2 to 4: most steps leave the resident pages and their pins alone (`OthersSave`, which maps them to a
stutter or a `Save` of the cache); each of the others is one step of `PageCache`, an eviction with the page that goes
and the page that comes in one step. At most `NumFrames` pages are resident, as they are in different frames.

The counters: `CountInv` divides the fetches begun into those going on that have not missed and those that counted a hit, a miss
or both, and the misses into those used up by a page brought in, those pending, and those that came to nothing.

### The heap file

`HeapFileProofs`, without hypotheses: `TypesHold` (`TypeOK`), `LiveRecordsReadBack`, `DirectoriesStayIntact`, `MapIsExact`
(`MapFollowsPages`), `SearchFindsFirst` (`MapFindsFirst`), `InsertsAddOne`, `FullMeansFull` (`FullIsGenuine`),
`ScansAreComplete`; and, beyond what the runs check, `FirstCompactStays`, `FirstCompactKeeps` and `RoundsAdvance`.

- Pages. `PageOK` says that the directory, which nothing wrote over, and each slot's extent lie within the page; `RecordsOK` that live records
  lie behind `free_end` and hold their own bytes. Inserting and deleting keep both. Compaction keeps `PageOK` only: `Moving` is what holds while it copies, as
  long as it stays in the page.
- The first compaction. Where `RecordsOK` holds the records are disjoint (`RecordsApart`), so that the bytes moved are no more than lie behind
  `free_end` (`DestinationCounts`, by the cardinality of the records' bytes), and `compact` stays in the page (`FirstCompactStays`). While the destination is
  below `free_end` too, no byte of a record still to come was written over (`Copied`), so that all of them survive (`FirstCompactKeeps`).
- Map. `LeafWritten`: a leaf is written, and then the tree is one of maxima but for one node, the leaf's parent. `NodeRecomputed` moves
  that exception up to the parent; at the root there is none left. This holds for every capacity, with leaves on one or two levels.
- Search. What `find_page_recursive` returns below a node is a page it may return with its leaf below that node (`FindsAreGood`), and below a node with such a leaf it
  returns one (`GoodAreFound`); both by induction over the nodes, from the leaves up. `SearchIsRight` puts them together: as left children
  are searched first, the page found is the leftmost one.
- File. `FileOK` is all of this for every page, with its leaf in the map as precise as `touched` and `compacted` allow; `HeapInv` adds the types.
  `InsertInv`: the pages an insert excluded have no room. `ScanInv`: a scan has seen, in order, the live records before its cursor.
- Progress. `RoundsAdvance`: a round of `insert` that goes on leaves fewer pages to try, as the search returns none that is excluded,
  and a round of a scan ends it or moves its cursor forward within the file. These are the variants behind `CallsEnd`, which itself is
  liveness.

Recursive functions (`CompactSteps`, `Above`, `Recomputed`, `Paths`, `Finds`) have to be shown to be what their definitions
say (`CompactStepsExist`, ...). The library's theorems on this take operators as parameters, which the installed provers cannot
instantiate; so `NumberLemmas` does induction over sets of numbers (`LeastNumber`, `Induction`, `GreatestNumber`), and the set is that of the
lengths for which a function with the recursion's equations exists. Its `Recursion` does this once for functions that recur on the number
before, from a step given as a function; the foundations use it.

### The foundations

All in `FoundationsProofs`.

- Task pool: `LimitIsKept`, `ResultsAreInOrder`, for every number of tasks and every set of limits (0 among them).
  The invariant is `PoolInv`: the types; tasks are spawned in order, so that the one `Spawn` makes new
  was unborn; the queue holds waiting tasks, each once, so that a permit handed over goes to a task that
  has none and leaves the rest of the queue waiting; and a collected task is done for good.
- Harness: `DepthIsKept`, for every queue depth and number of reads, with
  `DepthInv`: reads not issued yet are in state `none`, so that issuing one adds exactly one to those in flight. `BytesAreExact`, where
  `StrideFits`: the stride (7919 in the code) is odd and the number of blocks (4 GiB divided by 512 bytes, 4 KiB or 64 KiB) a power of two. Then the stride has an inverse modulo the number of
  blocks (`StrideIsCoprime`, from each power of two to the next), and `StrideReaches` names the read that reaches a block: the block's number times that
  inverse. `SumInv` says that what is summed was read.
- Table layouts: `LayoutsDoAgree`, for every number of rows, columns and rows a page. The invariant, `TableInv`: every page but the last is full and the last one is
  not empty, and each store's cells are the rows'. So row `r` is in page `r \div PageRows` at place `r % PageRows`, and a page's share of a column is a run of its values: the total of the
  pages' totals is the column's.
- Byte order: `BytesReadBack`, for every radix. `ByteInv`: the bytes that arrived are the first ones of the record's and the next record's.
  A number is that of its digits as `Weight(k + 1)` is `Weight(k) * Radix` and a quotient by both is that of a quotient (`QuotientOfQuotient`); the little-endian bytes are the big-endian ones reversed.
- Side by side: `PartsKeepTypes` (`TypeOK` of `MCFoundations`, the types of all four) and `PartsKeepPromises`: each part keeps its promises in the composition the
  run checks.

### Only model-checked

- Liveness (`ReservationEnds`, `ScanEnds`, `StateWaitEnds`, `FetchReturns`, `CallsEnd`, `PartsEnd`): fairness and ENABLED
  are out of the prover's reach.
- The runs that expect a violation, as a trace refutes for good.

TLC finds the inductive invariants true of the runs' instances too (`ShapeInv`, `DataInv` and `PinInv` under the constants of
`pool_safety`, these, `ScanInv` and `CountInv` under those of `pool_faults`, `HeapInv`, `InsertInv` and the heap file's `ScanInv` under those of
`heap_file`, `TableInv` under those of `foundations`).

## 5. Not modelled

- Lock poisoning (no code that holds a lock panics); page bytes in the buffer pool; file offsets, short reads and `sync_all`;
  `modify_data`, which nothing calls.
- `Metrics::reset`, which nothing calls, and a snapshot taken while calls run: nothing says what it promises.
- What a page file means to the next process: `next_page_id` starts at 0 again, and the repository has no recovery.
- A 256th pin of one page (`MaxPins`): out of TLC's reach.
- `find_leaf` and the getters of the free-space map, which only its tests call; the owned scan adapter, which copies what the scan returns.
- The 16-bit arithmetic of slot offsets: a page has 4096 bytes, far below 2^16.
- `fetch_url` of the task pool (a stub for demonstrations); preparation of the harness's file, time and
  printing; overflow of a column sum.
- `main.rs`, the benchmarks and the fuzz target are drivers without state. The file named `;` at the root is an
  early draft of `fsm/tree.rs`. `heap/mod.rs:7` imports `access::filter::FilterScan`, which the repository does not hold.

## 6. Plan

Done: the buffer pool, the page cache and the refinement; metrics; slotted pages, free-space map and heap
file; the foundations; and theorems for every safety property of the runs.

Left: liveness stays with TLC, as the prover has neither fairness nor ENABLED; variants like those of `RoundsAdvance` could be stated for
the scan of the CLOCK hand and for the waits of the pool, which depend on the callers making finitely many calls.
