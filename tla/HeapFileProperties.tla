------------------------- MODULE HeapFileProperties -------------------------
(***************************************************************************)
(* What the heap file promises, stated over its pages, their map and a     *)
(* scan.  compact leaves free_end behind the records it moved to the front *)
(* of the page, so that the free space reported from then on is made of    *)
(* live records: what depends on it is claimed for the pages compact was   *)
(* not called on, and CompactStaysInPage, which the code violates, says    *)
(* where it leads.                                                         *)
(***************************************************************************)
EXTENDS HeapFile

\* A record is read back as it was inserted, whatever was inserted and deleted
\* since: no insert writes over a live record or over the directory, and the
\* two never meet (slotted_page.rs 54-72); on the pages compact was not called on.
RecordsReadBack == \A p \in PageIds \ compacted : ReadsBack(PageOf(p))

\* "free_end <= PAGE_SIZE" (fuzz/fuzz_targets/slotted_page.rs:18) after a compact
\* of any page: the records it moves to the front, and with them the free_end it
\* sets behind them, stay in the page.  A copy past the end is a panic.
CompactStaysInPage == \A p \in PageIds : ~CompactPanics(PageOf(p))

\* "slot_directory_end <= free_end" (fuzz/fuzz_targets/slotted_page.rs), so that
\* free_space never subtracts below zero, and no record lies in the directory.
DirectoriesIntact == \A p \in PageIds : DirectoryIntact(PageOf(p))

\* The map is a tree of maxima, whatever order pages were registered and updated
\* in, also with leaves on two levels (recompute_ancestors).
\* Every page has a leaf with the bucket of its free space, and no other page
\* has one; a page changed behind the map's back has at least that bucket, unless
\* it was compacted, until the heap file inserts into it (create_page, insert_page).
MapFollowsPages ==
  /\ IsMaxTree(capacity, fsm)
  /\ \A p \in 0 .. (capacity - 1) :
       IF p \in PageIds
       THEN LET leaf == fsm[Leaf(capacity, p)]
                own  == BucketOf(FreeSpace(PageOf(p)))
            IN  /\ leaf.page = p
                /\ p \notin touched   => leaf.max = own
                /\ p \notin compacted => leaf.max >= own
       ELSE fsm[Leaf(capacity, p)] = [max |-> NoBucket, page |-> NoPage]

\* find_page_excluding returns the leftmost page of a sufficient bucket that is
\* not excluded, and none only if there is none.
MapFindsFirst ==
  \A b \in Buckets, ex \in SUBSET PageIds : FindsFirst(capacity, fsm, b, ex)

\* An insert that ends well adds one record of its length at the end of one
\* page's directory and changes no other slot; in particular a page created
\* for a record takes it, so that none stays behind empty.
InsertAddsOne ==
  [][InsertHere \/ InsertInNew =>
       \E p \in 0 .. (Len(pages') - 1) :
         LET old(q) == IF q \in PageIds THEN PageOf(q).slots ELSE <<>>
             new(q) == pages'[q + 1].slots
         IN  /\ new(p) = Append(old(p), [off |-> pages'[p + 1].freeEnd, len |-> size])
             /\ \A q \in 0 .. (Len(pages') - 1) : q # p => new(q) = old(q)]_vars

\* HeapFileFull: no page of the file has room for the record, although the map
\* knows buckets only and an insert skips the pages they are wrong about.  The map
\* does not learn of the space compact wins.
FullIsGenuine ==
  [][InsertFull => \A p \in PageIds \ compacted : ~Fits(PageOf(p), size)]_vars

\* A scan that ended returned every live record once, in order of pages and slots, and
\* nothing else.  Records of length 0 are not returned: the scan takes them for
\* deleted ones.
Before(r, s) == r.page < s.page \/ (r.page = s.page /\ r.slot < s.slot)
IsRecord(r)  == /\ r.page \in PageIds /\ r.slot \in SlotIds(PageOf(r.page))
                /\ IsLive(PageOf(r.page), r.slot)
ScanComplete ==
  call = "scanned" =>
    /\ \A i, j \in DOMAIN seen : i < j => Before(seen[i], seen[j])
    /\ \A i \in DOMAIN seen : IsRecord(seen[i])
    /\ \A p \in PageIds : \A s \in SlotIds(PageOf(p)) :
         LET r == [page |-> p, slot |-> s]
         IN  IsRecord(r) => \E i \in DOMAIN seen : seen[i] = r

-----------------------------------------------------------------------------
\* Fairness: a call that has begun goes on; there is one thread.
FairSpec == Spec /\ WF_vars(InsertStep) /\ WF_vars(ScanStep)

\* An insert ends: each round of its loop finds a page or excludes one more.  So
\* does a scan.
CallsEnd == /\ call = "insert" ~> call = "none"
            /\ call = "scan" ~> call # "scan"
=============================================================================
