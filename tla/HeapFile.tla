------------------------------ MODULE HeapFile ------------------------------
(***************************************************************************)
(* The heap file (heap/mod.rs) over slotted pages and a free-space map,    *)
(* and its scan (heap/scan.rs, access/owned.rs).  Every operation borrows  *)
(* the file, exclusively to change it and shared to scan it, so calls do   *)
(* not overlap.  create_page and the operations a caller reaches through   *)
(* get_page_mut are one action each; insert is one action for each round   *)
(* of its loop, a scan one for each call of next.                          *)
(***************************************************************************)
EXTENDS SlottedPage, FreeSpaceMap

CONSTANTS Capacities,  \* the capacities a file may be created with
          RecordSizes, \* the lengths of the records callers insert
          Mutations,   \* what callers do through get_page_mut
          MutablePages \* bound: the pages they reach

ASSUME HeapConstants ==
  /\ Capacities \subseteq Nat \ {0}
  /\ RecordSizes \subseteq Nat
  /\ Mutations \subseteq {"insert", "delete", "compact"}
  /\ MutablePages \subseteq Nat
  /\ BucketSize * BucketCount = PageSize  \* get_bucket_id's 512 * 8

VARIABLES
  capacity,  \* capacity
  pages,     \* pages: Vec<SlottedPage>; page id p is pages[p + 1]
  fsm,       \* fsm: FreeSpaceMap
  call,      \* the operation that is going on
  size,      \* its record's length
  excluded,  \* excluded_page_ids
  touched,   \* history: pages whose free space changed behind the map's back
  compacted, \* history: pages that compact was called on
  cursor,    \* HeapFileScan's page_id and slot_id
  seen       \* history: what next returned to the caller of the scan

vars == <<capacity, pages, fsm, call, size, excluded, touched, compacted, cursor, seen>>

PageIds  == 0 .. (Len(pages) - 1)
PageOf(p) == pages[p + 1]
Calls    == {"none", "insert", "scan", "scanned"}
Start    == [page |-> 0, slot |-> 0]

TypeOK ==
  /\ capacity \in Capacities
  /\ pages \in Seq(Page) /\ Len(pages) <= capacity
  /\ fsm \in Map(capacity)
  /\ call \in Calls
  /\ size \in RecordSizes \cup {0}
  /\ excluded \subseteq PageIds
  /\ touched \subseteq PageIds /\ compacted \subseteq PageIds
  /\ cursor \in [page : Nat, slot : Nat]
  /\ seen \in Seq([page : PageIds, slot : Nat])

Init ==
  /\ capacity \in Capacities
  /\ pages = <<>>
  /\ fsm = EmptyMap(capacity)
  /\ call = "none" /\ size = 0 /\ excluded = {} /\ touched = {} /\ compacted = {}
  /\ cursor = Start /\ seen = <<>>

Idle == call = "none"
Return == /\ call' = "none" /\ size' = 0 /\ excluded' = {}

-----------------------------------------------------------------------------
\* create_page.

IsFull == Len(pages) >= capacity

WithNewPage == Append(pages, NewPage)
MapWithNewPage == RegisterPage(capacity, fsm, Len(pages), FreeSpace(NewPage))

CreatePage ==
  /\ Idle /\ ~IsFull
  /\ pages' = WithNewPage
  /\ fsm' = MapWithNewPage
  /\ UNCHANGED <<capacity, call, size, excluded, touched, compacted, cursor, seen>>

-----------------------------------------------------------------------------
\* insert_page(p, size) of a file with pages ps and the map tr: the record goes
\* into the page, then the map is told.  A page that refuses it leaves both.
InsertPage(ps, tr, p) ==
  IF Fits(ps[p + 1], size)
  THEN LET pg == InsertRecord(ps[p + 1], size)
       IN  /\ pages' = [ps EXCEPT ![p + 1] = pg]
           /\ fsm' = UpdatePage(capacity, tr, p, FreeSpace(pg))
           /\ touched' = touched \ {p}
  ELSE pages' = ps /\ fsm' = tr /\ UNCHANGED touched

\* insert.  A record no page can hold is refused at once: InsufficientPageSpace.
\* Mutant: the slot it needs is forgotten.
AcceptsWithoutSlot(len) == len <= MaxAvailable
Accepts(len)            == len + SlotSize <= MaxAvailable

Insert(len) ==
  /\ Idle /\ Accepts(len)
  /\ call' = "insert" /\ size' = len
  /\ UNCHANGED <<capacity, pages, fsm, excluded, touched, compacted, cursor, seen>>

\* The candidate of this round of the loop.
Candidate == FindPageExcluding(capacity, fsm, size + SlotSize, excluded)
Suits(p)  == FreeSpace(PageOf(p)) >= size + SlotSize

\* Mutant: the page is not excluded.
SkipNothing(p) == UNCHANGED excluded
SkipPage(p)    == excluded' = excluded \cup {p}

InsertHere ==
  /\ call = "insert" /\ Candidate # NoPage /\ Suits(Candidate)
  /\ InsertPage(pages, fsm, Candidate)
  /\ Return
  /\ UNCHANGED <<capacity, compacted, cursor, seen>>

\* The bucket was right and the page is too small.
InsertElsewhere ==
  /\ call = "insert" /\ Candidate # NoPage /\ ~Suits(Candidate)
  /\ SkipPage(Candidate)
  /\ UNCHANGED <<capacity, pages, fsm, call, size, touched, compacted, cursor, seen>>

\* create_page, then insert_page.
InsertInNew ==
  /\ call = "insert" /\ Candidate = NoPage /\ ~IsFull
  /\ InsertPage(WithNewPage, MapWithNewPage, Len(pages))
  /\ Return
  /\ UNCHANGED <<capacity, compacted, cursor, seen>>

\* create_page's error.
InsertFull ==
  /\ call = "insert" /\ Candidate = NoPage /\ IsFull
  /\ Return
  /\ UNCHANGED <<capacity, pages, fsm, touched, compacted, cursor, seen>>

-----------------------------------------------------------------------------
\* get_page_mut hands out the page; the map is not told of what happens to it.

Mutate(what, p, pg) ==
  /\ Idle /\ what \in Mutations
  /\ pages' = [pages EXCEPT ![p + 1] = pg]
  /\ touched' = IF FreeSpace(pg) # FreeSpace(PageOf(p)) THEN touched \cup {p}
                ELSE touched
  /\ compacted' = IF what = "compact" THEN compacted \cup {p} ELSE compacted
  /\ UNCHANGED <<capacity, fsm, call, size, excluded, cursor, seen>>

PageInsert(p, len) == /\ Fits(PageOf(p), len)
                      /\ Mutate("insert", p, InsertRecord(PageOf(p), len))

PageDelete(p, s) == Mutate("delete", p, DeleteSlot(PageOf(p), s))

\* The panic ends the program.
PageCompact(p) == /\ ~CompactPanics(PageOf(p))
                  /\ Mutate("compact", p, Compacted(PageOf(p)))

-----------------------------------------------------------------------------
\* A scan: one action for each round of the loop in next.

Scan ==
  /\ Idle
  /\ call' = "scan"
  /\ UNCHANGED <<capacity, pages, fsm, size, excluded, touched, compacted, cursor, seen>>

AtPage == call = "scan" /\ cursor.page < Len(pages)
AtSlot == AtPage /\ cursor.slot < SlotCount(PageOf(cursor.page))

\* Mutant: slot_id is not reset.
SamePlace(cur) == [cur EXCEPT !.page = @ + 1]
NextPage(cur)  == [page |-> cur.page + 1, slot |-> 0]

ScanPage ==
  /\ AtPage /\ cursor.slot >= SlotCount(PageOf(cursor.page))
  /\ cursor' = NextPage(cursor)
  /\ UNCHANGED <<capacity, pages, fsm, call, size, excluded, touched, compacted, seen>>

\* A slot without bytes is passed over, another one is returned.
ScanSlot ==
  /\ AtSlot
  /\ cursor' = [cursor EXCEPT !.slot = @ + 1]
  /\ seen' = IF IsLive(PageOf(cursor.page), cursor.slot)
             THEN Append(seen, cursor) ELSE seen
  /\ UNCHANGED <<capacity, pages, fsm, call, size, excluded, touched, compacted>>

ScanEnd ==
  /\ call = "scan" /\ cursor.page >= Len(pages)
  /\ call' = "scanned"
  /\ UNCHANGED <<capacity, pages, fsm, size, excluded, touched, compacted, cursor, seen>>

\* The caller drops the scan, at its end or before.
ScanDrop ==
  /\ call \in {"scan", "scanned"}
  /\ call' = "none" /\ cursor' = Start /\ seen' = <<>>
  /\ UNCHANGED <<capacity, pages, fsm, size, excluded, touched, compacted>>

-----------------------------------------------------------------------------
InsertStep == InsertHere \/ InsertElsewhere \/ InsertInNew \/ InsertFull
ScanStep   == ScanPage \/ ScanSlot \/ ScanEnd

Next ==
  \/ CreatePage
  \/ \E len \in RecordSizes : Insert(len)
  \/ InsertStep
  \/ \E p \in PageIds \cap MutablePages :
                        \/ \E len \in RecordSizes : PageInsert(p, len)
                        \/ \E s \in SlotIds(PageOf(p)) : PageDelete(p, s)
                        \/ PageCompact(p)
  \/ Scan \/ ScanStep \/ ScanDrop

Spec == Init /\ [][Next]_vars
=============================================================================
