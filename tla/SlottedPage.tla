---------------------------- MODULE SlottedPage ----------------------------
(***************************************************************************)
(* A slotted page (slotted_page.rs): a header with the number of slots and *)
(* the end of the free space, a directory of slots that grows upwards      *)
(* behind it, and records that grow downwards from the end of the page.    *)
(*                                                                         *)
(* Bytes are abstracted to who wrote them last: Directory, the record of a *)
(* slot (the slot's id), or nobody.  A slot's offset and length are kept   *)
(* decoded in slots, which is right for as long as no record is written    *)
(* over the directory (DirectoryIntact below).  The 16-bit header fields   *)
(* are decoded likewise; PageSize is far below 2^16.                       *)
(***************************************************************************)
EXTENDS Integers, Sequences

CONSTANTS PageSize,    \* PAGE_SIZE
          HeaderSize,  \* HEADER_SIZE
          SlotSize     \* SLOT_SIZE

ASSUME PageConstants ==
  /\ PageSize \in Nat /\ HeaderSize \in Nat \ {0} /\ SlotSize \in Nat \ {0}
  /\ HeaderSize < PageSize

MaxAvailable == PageSize - HeaderSize

Nobody    == -1
Directory == -2
Offsets   == 0 .. (PageSize - 1)
Lengths   == 0 .. PageSize

Slot == [off : 0 .. PageSize, len : Lengths]
Page == [slots : Seq(Slot), freeEnd : 0 .. PageSize,
         bytes : [Offsets -> Nat \cup {Nobody, Directory}]]

NewPage == [slots |-> <<>>, freeEnd |-> PageSize,
            bytes |-> [o \in Offsets |-> Nobody]]

SlotCount(pg) == Len(pg.slots)
SlotIds(pg)   == 0 .. (SlotCount(pg) - 1)

\* read_slot; slot ids start at 0.
ReadSlot(pg, s) == pg.slots[s + 1]

SlotOffset(s) == HeaderSize + s * SlotSize
FreeSpace(pg) == pg.freeEnd - SlotOffset(SlotCount(pg))

Extent(off, len) == off .. (off + len - 1)

\* write_slot(s, off, len) of a page that has s slots or more.
WriteSlot(pg, s, off, len) ==
  LET slot == [off |-> off, len |-> len]
  IN  [pg EXCEPT !.slots = IF s = Len(@) THEN Append(@, slot)
                                         ELSE [@ EXCEPT ![s + 1] = slot],
                 !.bytes = [o \in Offsets |->
                              IF o \in Extent(SlotOffset(s), SlotSize)
                              THEN Directory ELSE @[o]]]

\* Mutant of the check in insert: the slot is forgotten.
FitsWithoutSlot(pg, len) == FreeSpace(pg) >= len
Fits(pg, len)            == FreeSpace(pg) >= len + SlotSize

\* Mutant: free_end is not moved.
InsertInPlace(pg, len) ==
  LET off == pg.freeEnd - len
      s   == SlotCount(pg)
  IN  WriteSlot([pg EXCEPT !.bytes = [o \in Offsets |->
                   IF o \in Extent(off, len) THEN s ELSE @[o]]], s, off, len)

\* insert, where the record fits; it returns the slot id SlotCount(pg).
InsertRecord(pg, len) ==
  LET off == pg.freeEnd - len
      s   == SlotCount(pg)
  IN  WriteSlot([pg EXCEPT !.freeEnd = off,
                           !.bytes = [o \in Offsets |->
                              IF o \in Extent(off, len) THEN s ELSE @[o]]],
                s, off, len)

\* get, as the bytes' writers.
Get(pg, s) == LET slot == ReadSlot(pg, s)
              IN  [i \in 1 .. slot.len |-> pg.bytes[slot.off + i - 1]]

\* delete: the slot stays, the bytes too.
DeleteSlot(pg, s) == WriteSlot(pg, s, 0, 0)

\* One round of compact's loop: the record of slot s, if it has one, is copied to
\* the destination, whatever lies there, and its slot written.
MoveSlot(done, s) ==
  LET slot  == ReadSlot(done.page, s)
      moved == [done.page EXCEPT !.bytes =
                  [o \in Offsets |-> IF o \in Extent(done.dest, slot.len)
                                     THEN @[slot.off + o - done.dest] ELSE @[o]]]
  IN  IF slot.len = 0 THEN done
      ELSE [page |-> WriteSlot(moved, s, done.dest, slot.len), dest |-> done.dest + slot.len]

\* compact moves the live records, in the order of their slots, one behind another
\* and behind the directory, and sets free_end behind the last one.  step[i] is the
\* page and the destination after the first i slots.  A copy that would leave the
\* page is an index out of range: CompactPanics.
CompactSteps(pg) ==
  LET step[i \in 0 .. SlotCount(pg)] ==
        IF i = 0 THEN [page |-> pg, dest |-> SlotOffset(SlotCount(pg))]
        ELSE MoveSlot(step[i - 1], i - 1)
  IN  step

Compacted(pg) == LET last == CompactSteps(pg)[SlotCount(pg)]
                 IN  [last.page EXCEPT !.freeEnd = last.dest]

CompactPanics(pg) == CompactSteps(pg)[SlotCount(pg)].dest > PageSize

-----------------------------------------------------------------------------
\* What a page promises.

IsLive(pg, s) == ReadSlot(pg, s).len > 0

\* The bytes get returns for a live slot are those insert stored for it.
ReadsBack(pg) ==
  \A s \in SlotIds(pg) : IsLive(pg, s) =>
    Get(pg, s) = [i \in 1 .. ReadSlot(pg, s).len |-> s]

\* The directory ends before the free space, and nothing was written over it.
DirectoryIntact(pg) ==
  /\ SlotOffset(SlotCount(pg)) <= pg.freeEnd
  /\ \A o \in HeaderSize .. (SlotOffset(SlotCount(pg)) - 1) : pg.bytes[o] = Directory
=============================================================================
