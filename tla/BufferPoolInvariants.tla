------------------------ MODULE BufferPoolInvariants ------------------------
(***************************************************************************)
(* The inductive invariants behind the theorems about the buffer pool, in  *)
(* layers: what a thread's location says about its call and its frame      *)
(* (ShapeInv), what the disk holds of the pages in flight (DataInv), and   *)
(* who holds the pins (PinInv).  Each of these is inductive given those    *)
(* before it; ScanInv, what a scan has seen, needs the first only.         *)
(***************************************************************************)
EXTENDS BufferPoolProperties

\* The callers for whom the pool is safe, those of the runs: one creator, beside
\* which nobody asks for an id that new_page may still hand out (u16::MAX it never
\* does), and deletions or a failing disk, not both.  README section 3 says what the
\* code does for other callers.
SafeCallers ==
  /\ \A s, t \in Creators : s = t
  /\ Creators = {} \/ ForeignIds \subseteq {PageIdLimit}
  /\ Deleters = {} \/ ~DiskFaults

\* No page is pinned so often that pin_count saturates.
PinsFit == /\ IsFiniteSet(Threads)
           /\ Cardinality(Threads) * MaxHeld <= MaxPins

-----------------------------------------------------------------------------
\* What the control point of a thread says about its locals: where the code
\* unwraps a page, a frame or an entry, it has one.
HoldsFrame == {"readFree", "publish", "writeOld", "readNew", "install",
               "flushCopy", "flushWrite", "flushClear", "flushed", "undo"}

ControlOK ==
  \A t \in Threads :
    /\ At(t, "idle") => loc[t] = NoLocals
    /\ ~At(t, "idle") => loc[t].page \in PageIds
    /\ pc[t] \in HoldsFrame => loc[t].frame \in FrameIds
    /\ pc[t] \in {"lookup", "cvWait", "loadCheck", "loadSleep"} => loc[t].op = "fetch"
    /\ pc[t] \in {"readFree", "publish", "refused", "readNew"} => loc[t].loader
    /\ pc[t] \in {"scan", "noVictim", "writeOld"} =>
          IF loc[t].op = "fetch" THEN loc[t].loader ELSE loc[t].page < PageIdLimit
    /\ pc[t] = "install" => loc[t].page < PageIdLimit

\* A page has one loader: needs no hypothesis on the callers.
LoaderInv == TypeOK /\ ControlOK /\ UniqueLoader

-----------------------------------------------------------------------------
\* Layer 1: table, free list, frame states and threads agree.

FetchOnly == {"lookup", "cvWait", "loadCheck", "loadSleep", "readFree", "publish",
              "readNew", "notify"}
Evicting  == {"writeOld", "readNew", "install"}
Flushing  == {"flushCopy", "flushWrite", "flushClear", "flushed"}

\* state_lock has one holder, which scans or has scanned, for want of a free frame.
LockOK ==
  /\ \A t \in Threads : pc[t] \in {"scan", "noVictim"} <=> stateLock = t
  /\ stateLock # NoThread => freeList = <<>>

\* The call t is in, and what it read before it gave state_lock up.  The two
\* error branches are never reached.
CallOK(t) ==
  /\ pc[t] \notin {"refused", "undo"}
  /\ pc[t] \in FetchOnly => loc[t].op = "fetch"
  /\ pc[t] \in {"scan", "noVictim", "writeOld"} => loc[t].op \in {"fetch", "new"}
  /\ pc[t] = "install" => loc[t].op = "new"
  /\ pc[t] \in Flushing => loc[t].op \in {"flush", "delete"}
  /\ loc[t].op = "new" => t \in Creators /\ loc[t].page = nextPage
  /\ loc[t].op = "flush" => t \in Flushers
  /\ loc[t].op = "delete" => t \in Deleters
  /\ loc[t].op \in {"fetch", "flush", "delete"} => loc[t].page \in Askable
  /\ loc[t].loader => loc[t].op = "fetch"

\* The frame t works on: one it is about to publish is loaded and pinned once, a
\* victim still has its old page, a flush its page, and nobody holds a pin on a frame
\* that will be given to another page.
WorkOK(t) ==
  LET fr == frame[loc[t].frame]
  IN  /\ pc[t] = "publish" =>
           fr.st = "Resident" /\ fr.page = loc[t].page /\ fr.pins = 1 /\ ~fr.dirty
      /\ pc[t] \in Evicting =>
           /\ loc[t].old \in PageIds
           /\ table[loc[t].old] = loc[t].frame
           /\ fr.pins = 0
      /\ pc[t] \in Flushing => table[loc[t].page] = loc[t].frame
      /\ pc[t] \in Flushing /\ loc[t].op = "delete" => fr.pins = 0
      /\ pc[t] = "flushWrite" => loc[t].old = loc[t].page

\* No page is resident but those callers could ask for.
ResidentAskable == \A p \in PageIds : IsMapped(table, p) => p \in Askable

ShapeInv ==
  /\ LoaderInv
  /\ LockOK
  /\ \A t \in Threads : CallOK(t) /\ WorkOK(t)
  /\ MappingExact
  /\ FramesAccounted
  /\ ReservedHasOwner
  /\ LoadingNotResident
  /\ ResidentAskable

-----------------------------------------------------------------------------
\* Layer 2: the bytes on the way to the disk are the newest, and a page whose
\* frame is about to be reused has been written.

SavingOK(t) ==
  /\ pc[t] = "writeOld" => store[loc[t].old] # "changed"
  /\ pc[t] \in {"readNew", "install"} => store[loc[t].old] = "saved"
  /\ pc[t] = "flushWrite" => store[loc[t].page] # "changed"
  /\ pc[t] \in {"flushClear", "flushed"} => store[loc[t].page] = "saved"

DataInv == DirtyNotLost /\ \A t \in Threads : SavingOK(t)

-----------------------------------------------------------------------------
\* Layer 3: a caller that is to get a pin has not used up its pins.

PinInv == /\ PinsExact
          /\ \A t \in Threads : loc[t].op \in {"fetch", "new"} => MayPin(t) \/ At(t, "notify")

-----------------------------------------------------------------------------
\* What the CLOCK scan knows.

\* No reservation ends, with the frame unpinned, while another thread scans: nobody
\* flushes, and a new_page that gives up an eviction would need a failing disk.
NothingEndsUnlocked == Flushers = {} /\ (Creators = {} \/ ~DiskFaults)

\* The frames the hand has passed in this revolution.
Passed(f) == IF f < hand THEN hand - f <= scanned ELSE hand + NumFrames - f <= scanned

\* A scan that has found no frame it may take is right, about the frames it has
\* passed, and in the end about all.
ScanInv ==
  /\ stateLock = NoThread => scanned = 0 /\ ~found
  /\ \A t \in Threads : At(t, "scan") /\ ~found =>
        \A f \in FrameIds : Passed(f) => ~Unused(frame[f])
  /\ \A t \in Threads : At(t, "noVictim") =>
        /\ scanned = 0 /\ ~found
        /\ \A f \in FrameIds : ~Unused(frame[f])
=============================================================================
