---------------------------- MODULE HeapFileProofs ----------------------------
(***************************************************************************)
(* Theorems about the heap file for every page size, number of pages and   *)
(* caller: what its pages hold, what its map knows and finds, what an      *)
(* insert does and what a scan returns.  The recursive functions of the    *)
(* model (CompactSteps, Above, Recomputed, Paths, Finds) are shown to      *)
(* exist, and their values found, by induction over sets of numbers.       *)
(***************************************************************************)
EXTENDS HeapFileProperties, NumberLemmas, FiniteSetTheorems, SequenceTheorems

-----------------------------------------------------------------------------
\* Pages.

\* Slots lie one behind another.
LEMMA SlotOffsets ==
  ASSUME NEW s \in Nat
  PROVE  /\ SlotOffset(s) \in Nat /\ SlotOffset(s) >= HeaderSize
         /\ SlotOffset(s + 1) = SlotOffset(s) + SlotSize
         /\ \A r \in 0 .. s : SlotOffset(r) <= SlotOffset(s)
<1>1. s * SlotSize \in Nat /\ (s + 1) * SlotSize = s * SlotSize + SlotSize
  BY PageConstants
<1>2. ASSUME NEW r \in 0 .. s PROVE r * SlotSize <= s * SlotSize
  <2>1. (s - r) * SlotSize \in Nat /\ s * SlotSize = r * SlotSize + (s - r) * SlotSize
    BY PageConstants
  <2>2. r * SlotSize \in Nat
    BY PageConstants
  <2> QED BY <1>1, <2>1, <2>2
<1>3. \A r \in 0 .. s : r * SlotSize \in Nat
  BY PageConstants
<1> QED BY <1>1, <1>2, <1>3, PageConstants DEF SlotOffset

\* What every page keeps: the directory and each slot's extent lie within the page.
PageOK(pg) ==
  /\ pg \in Page
  /\ DirectoryIntact(pg)
  /\ \A s \in SlotIds(pg) : ReadSlot(pg, s).off + ReadSlot(pg, s).len <= PageSize

\* What a page keeps until it is compacted: the live records lie behind free_end.
RecordsOK(pg) ==
  \A s \in SlotIds(pg) : IsLive(pg, s) =>
    /\ pg.freeEnd <= ReadSlot(pg, s).off
    /\ \A o \in Extent(ReadSlot(pg, s).off, ReadSlot(pg, s).len) : pg.bytes[o] = s

\* A slot has an offset and a length within the page.
LEMMA SlotRead ==
  ASSUME NEW pg \in Page, NEW r \in SlotIds(pg)
  PROVE  /\ r \in Nat /\ ReadSlot(pg, r) \in Slot
         /\ ReadSlot(pg, r).off \in 0 .. PageSize /\ ReadSlot(pg, r).len \in 0 .. PageSize
<1>1. pg.slots \in Seq(Slot)
  BY DEF Page
<1>2. r \in Nat /\ r + 1 \in 1 .. Len(pg.slots)
  BY <1>1 DEF SlotIds, SlotCount
<1>3. pg.slots[r + 1] \in Slot
  BY <1>1, <1>2
<1> QED BY <1>2, <1>3 DEF ReadSlot, Slot, Lengths

\* write_slot changes one slot, and the bytes it lies in.
LEMMA SlotWritten ==
  ASSUME NEW pg \in Page, NEW s \in 0 .. SlotCount(pg), NEW off \in 0 .. PageSize,
         NEW len \in Lengths, NEW w, w = WriteSlot(pg, s, off, len)
  PROVE  /\ w \in Page
         /\ w.freeEnd = pg.freeEnd
         /\ SlotCount(w) = IF s = SlotCount(pg) THEN SlotCount(pg) + 1 ELSE SlotCount(pg)
         /\ ReadSlot(w, s) = [off |-> off, len |-> len]
         /\ \A r \in SlotIds(pg) \ {s} : ReadSlot(w, r) = ReadSlot(pg, r)
         /\ w.bytes = [o \in Offsets |-> IF o \in Extent(SlotOffset(s), SlotSize)
                                         THEN Directory ELSE pg.bytes[o]]
<1> DEFINE slot  == [off |-> off, len |-> len]
           slots == IF s = Len(pg.slots) THEN Append(pg.slots, slot)
                    ELSE [pg.slots EXCEPT ![s + 1] = slot]
           bytes == [o \in Offsets |-> IF o \in Extent(SlotOffset(s), SlotSize)
                                       THEN Directory ELSE pg.bytes[o]]
<1>1. pg = [slots |-> pg.slots, freeEnd |-> pg.freeEnd, bytes |-> pg.bytes]
  BY DEF Page
<1>2. pg.slots \in Seq(Slot) /\ pg.freeEnd \in 0 .. PageSize
      /\ pg.bytes \in [Offsets -> Nat \cup {Nobody, Directory}]
  BY DEF Page
<1>3. w = [slots |-> slots, freeEnd |-> pg.freeEnd, bytes |-> bytes]
  BY <1>1 DEF WriteSlot
<1>4. slot \in Slot /\ bytes \in [Offsets -> Nat \cup {Nobody, Directory}]
  BY <1>2 DEF Slot
<1>5. /\ slots \in Seq(Slot)
      /\ Len(slots) = IF s = Len(pg.slots) THEN Len(pg.slots) + 1 ELSE Len(pg.slots)
      /\ slots[s + 1] = slot
      /\ \A r \in 0 .. (Len(pg.slots) - 1) : r # s => slots[r + 1] = pg.slots[r + 1]
  <2>1. CASE s = Len(pg.slots)
    BY <1>2, <1>4, <2>1 DEF SlotCount
  <2>2. CASE s # Len(pg.slots)
    <3>1. slots = [pg.slots EXCEPT ![s + 1] = slot]
      BY <2>2
    <3>2. s + 1 \in 1 .. Len(pg.slots)
      BY <1>2, <2>2 DEF SlotCount
    <3> QED BY <1>2, <1>4, <2>2, <3>1, <3>2
  <2> QED BY <2>1, <2>2
<1>6. w.slots = slots /\ w.freeEnd = pg.freeEnd /\ w.bytes = bytes
  BY <1>3
<1> HIDE DEF slots, bytes, slot
<1>7. w \in Page
  BY <1>2, <1>3, <1>4, <1>5 DEF Page
<1>8. /\ SlotCount(w) = IF s = SlotCount(pg) THEN SlotCount(pg) + 1 ELSE SlotCount(pg)
      /\ ReadSlot(w, s) = slot
      /\ \A r \in SlotIds(pg) \ {s} : ReadSlot(w, r) = ReadSlot(pg, r)
  BY <1>2, <1>5, <1>6 DEF SlotCount, ReadSlot, SlotIds
<1> QED BY <1>6, <1>7, <1>8 DEF slot, bytes

\* insert puts the record before free_end, and its slot at the end of the directory.
LEMMA RecordInserted ==
  ASSUME NEW pg \in Page, NEW len \in Nat, Fits(pg, len), DirectoryIntact(pg),
         NEW w, w = InsertRecord(pg, len)
  PROVE  /\ w \in Page
         /\ w.freeEnd = pg.freeEnd - len
         /\ SlotOffset(SlotCount(pg) + 1) <= w.freeEnd
         /\ SlotCount(w) = SlotCount(pg) + 1
         /\ ReadSlot(w, SlotCount(pg)) = [off |-> pg.freeEnd - len, len |-> len]
         /\ \A r \in SlotIds(pg) : ReadSlot(w, r) = ReadSlot(pg, r)
         /\ w.bytes = [o \in Offsets |->
                         IF o \in Extent(SlotOffset(SlotCount(pg)), SlotSize) THEN Directory
                         ELSE IF o \in Extent(pg.freeEnd - len, len) THEN SlotCount(pg)
                         ELSE pg.bytes[o]]
<1> DEFINE s   == SlotCount(pg)
           off == pg.freeEnd - len
           mid == [pg EXCEPT !.freeEnd = off,
                             !.bytes = [o \in Offsets |->
                                IF o \in Extent(off, len) THEN s ELSE @[o]]]
           bytes == [o \in Offsets |-> IF o \in Extent(off, len) THEN s ELSE pg.bytes[o]]
<1>1. pg = [slots |-> pg.slots, freeEnd |-> pg.freeEnd, bytes |-> pg.bytes]
  BY DEF Page
<1>2. pg.slots \in Seq(Slot) /\ pg.freeEnd \in 0 .. PageSize /\ s \in Nat
      /\ pg.bytes \in [Offsets -> Nat \cup {Nobody, Directory}]
  BY DEF Page, SlotCount
<1>3. /\ SlotOffset(s) \in Nat /\ SlotOffset(s + 1) = SlotOffset(s) + SlotSize
  BY <1>2, SlotOffsets
<1>4. off \in 0 .. PageSize /\ SlotOffset(s + 1) <= off /\ len \in Lengths
  BY <1>2, <1>3, PageConstants DEF Fits, FreeSpace, Lengths
<1>5. mid = [slots |-> pg.slots, freeEnd |-> off, bytes |-> bytes]
  <2>1. mid = [[pg EXCEPT !.freeEnd = off] EXCEPT !.bytes = bytes]
    BY <1>1
  <2> HIDE DEF mid, bytes
  <2> QED BY <1>1, <2>1
<1>6. bytes \in [Offsets -> Nat \cup {Nobody, Directory}]
  BY <1>2
<1>7. mid \in Page /\ SlotCount(mid) = s /\ mid.freeEnd = off /\ mid.bytes = bytes
      /\ mid.slots = pg.slots
  BY <1>2, <1>4, <1>5, <1>6 DEF Page, SlotCount
<1>8. w = WriteSlot(mid, s, off, len)
  BY DEF InsertRecord
<1> HIDE DEF mid, bytes
<1>9. /\ w \in Page /\ w.freeEnd = off /\ SlotCount(w) = s + 1
      /\ ReadSlot(w, s) = [off |-> off, len |-> len]
      /\ \A r \in SlotIds(mid) \ {s} : ReadSlot(w, r) = ReadSlot(mid, r)
      /\ w.bytes = [o \in Offsets |-> IF o \in Extent(SlotOffset(s), SlotSize)
                                      THEN Directory ELSE bytes[o]]
  BY SMTT(30), <1>2, <1>4, <1>7, <1>8, SlotWritten
<1>10. \A r \in SlotIds(pg) : ReadSlot(w, r) = ReadSlot(pg, r)
  <2>1. ASSUME NEW r \in SlotIds(pg) PROVE r \in SlotIds(mid) \ {s}
    BY <1>2, <1>7 DEF SlotIds
  <2> QED BY <1>7, <1>9, <2>1 DEF ReadSlot
<1>11. \A o \in Offsets : bytes[o] = IF o \in Extent(off, len) THEN s ELSE pg.bytes[o]
  BY DEF bytes
<1> QED BY <1>4, <1>9, <1>10, <1>11

\* Inserting keeps what a page keeps ...
LEMMA InsertKeeps ==
  ASSUME NEW pg, PageOK(pg), NEW len \in Nat, Fits(pg, len)
  PROVE  /\ PageOK(InsertRecord(pg, len))
         /\ RecordsOK(pg) => RecordsOK(InsertRecord(pg, len))
<1> DEFINE w == InsertRecord(pg, len)
           s == SlotCount(pg)
<1>1. pg \in Page /\ DirectoryIntact(pg)
  BY DEF PageOK
<1>2. /\ w \in Page
      /\ w.freeEnd = pg.freeEnd - len
      /\ SlotOffset(s + 1) <= w.freeEnd
      /\ SlotCount(w) = s + 1
      /\ ReadSlot(w, s) = [off |-> pg.freeEnd - len, len |-> len]
      /\ \A r \in SlotIds(pg) : ReadSlot(w, r) = ReadSlot(pg, r)
      /\ w.bytes = [o \in Offsets |->
                      IF o \in Extent(SlotOffset(s), SlotSize) THEN Directory
                      ELSE IF o \in Extent(pg.freeEnd - len, len) THEN s
                      ELSE pg.bytes[o]]
  BY <1>1, RecordInserted
<1> HIDE DEF w
<1>3. s \in Nat /\ pg.freeEnd \in 0 .. PageSize /\ w.freeEnd \in 0 .. PageSize
  BY <1>1, <1>2 DEF Page, SlotCount
<1>4. /\ SlotOffset(s) \in Nat /\ SlotOffset(s) >= HeaderSize
      /\ SlotOffset(s + 1) = SlotOffset(s) + SlotSize
  BY <1>3, SlotOffsets
<1>5. SlotIds(w) = SlotIds(pg) \cup {s} /\ SlotIds(pg) = 0 .. (s - 1)
  BY <1>2, <1>3 DEF SlotIds
<1>6. \A r \in SlotIds(pg) : ReadSlot(pg, r).off \in 0 .. PageSize /\ ReadSlot(pg, r).len \in 0 .. PageSize
  BY <1>1, SlotRead
<1>7. DirectoryIntact(w)
  <2>1. ASSUME NEW o \in HeaderSize .. (SlotOffset(s + 1) - 1) PROVE w.bytes[o] = Directory
    <3>1. o \in Offsets
      BY <1>2, <1>3, <1>4, PageConstants DEF Offsets
    <3>2. o \notin Extent(pg.freeEnd - len, len)
      BY <1>2, <1>3, <1>4, PageConstants DEF Extent
    <3>3. o \notin Extent(SlotOffset(s), SlotSize) => pg.bytes[o] = Directory
      BY <1>1, <1>3, <1>4, PageConstants DEF Extent, DirectoryIntact
    <3> QED BY <1>2, <3>1, <3>2, <3>3
  <2> QED BY <1>2, <2>1 DEF DirectoryIntact
<1>8. \A r \in SlotIds(w) : ReadSlot(w, r).off + ReadSlot(w, r).len <= PageSize
  BY <1>2, <1>3, <1>5 DEF PageOK
<1>9. ASSUME RecordsOK(pg), NEW r \in SlotIds(w), IsLive(w, r)
      PROVE  /\ w.freeEnd <= ReadSlot(w, r).off
             /\ \A o \in Extent(ReadSlot(w, r).off, ReadSlot(w, r).len) : w.bytes[o] = r
  <2>1. CASE r = s
    <3>1. ReadSlot(w, r).off = w.freeEnd /\ ReadSlot(w, r).len = len
      BY <1>2, <2>1
    <3>2. ASSUME NEW o \in Extent(w.freeEnd, len) PROVE w.bytes[o] = s
      <4>0. o \in Int /\ w.freeEnd <= o /\ o < pg.freeEnd
        BY <1>2, <1>3 DEF Extent
      <4>. /\ SlotOffset(s) + SlotSize <= w.freeEnd
        BY <1>2, <1>4
      <4>1. o \in Offsets /\ o \notin Extent(SlotOffset(s), SlotSize)
        BY <1>3, <1>4, <4>0, PageConstants DEF Extent, Offsets
      <4> QED BY <1>2, <4>1
    <3> QED BY <1>3, <2>1, <3>1, <3>2
  <2>2. CASE r # s
    <3>1. r \in SlotIds(pg) /\ ReadSlot(w, r) = ReadSlot(pg, r)
      BY <1>2, <1>5, <2>2
    <3>2. IsLive(pg, r) /\ ReadSlot(pg, r).off + ReadSlot(pg, r).len <= PageSize
      BY <1>9, <3>1 DEF IsLive, PageOK
    <3>3. pg.freeEnd <= ReadSlot(pg, r).off
          /\ \A o \in Extent(ReadSlot(pg, r).off, ReadSlot(pg, r).len) : pg.bytes[o] = r
      BY <1>9, <3>1, <3>2 DEF RecordsOK
    <3>4. ASSUME NEW o \in Extent(ReadSlot(pg, r).off, ReadSlot(pg, r).len) PROVE w.bytes[o] = r
      <4>1. o \in Int /\ pg.freeEnd <= o /\ o < PageSize
        BY <1>3, <1>6, <3>1, <3>2, <3>3, PageConstants DEF Extent
      <4>2. /\ o \in Offsets /\ o \notin Extent(SlotOffset(s), SlotSize)
            /\ o \notin Extent(pg.freeEnd - len, len)
        BY SMTT(30), <1>2, <1>3, <1>4, <4>1, PageConstants DEF Extent, Offsets
      <4> QED BY <1>2, <3>3, <4>2
    <3> QED BY <1>2, <1>3, <1>6, <3>1, <3>3, <3>4
  <2> QED BY <2>1, <2>2
<1>10. PageOK(w)
  BY <1>2, <1>7, <1>8 DEF PageOK
<1>11. RecordsOK(pg) => RecordsOK(w)
  BY <1>9 DEF RecordsOK
<1> QED BY <1>10, <1>11 DEF w

\* ... so does deleting a slot ...
LEMMA DeleteKeeps ==
  ASSUME NEW pg, PageOK(pg), NEW d \in SlotIds(pg)
  PROVE  /\ PageOK(DeleteSlot(pg, d))
         /\ FreeSpace(DeleteSlot(pg, d)) = FreeSpace(pg)
         /\ RecordsOK(pg) => RecordsOK(DeleteSlot(pg, d))
<1> DEFINE w == DeleteSlot(pg, d)
           s == SlotCount(pg)
<1>1. pg \in Page /\ DirectoryIntact(pg)
  BY DEF PageOK
<1>2. s \in Nat /\ pg.freeEnd \in 0 .. PageSize /\ SlotIds(pg) = 0 .. (s - 1)
  BY <1>1 DEF Page, SlotCount, SlotIds
<1>3. /\ w \in Page /\ w.freeEnd = pg.freeEnd /\ SlotCount(w) = s
      /\ ReadSlot(w, d) = [off |-> 0, len |-> 0]
      /\ \A r \in SlotIds(pg) \ {d} : ReadSlot(w, r) = ReadSlot(pg, r)
      /\ w.bytes = [o \in Offsets |-> IF o \in Extent(SlotOffset(d), SlotSize)
                                      THEN Directory ELSE pg.bytes[o]]
  <2>1. 0 \in 0 .. PageSize /\ 0 \in Lengths /\ d \in 0 .. s /\ d # s
    BY <1>2, PageConstants DEF Lengths
  <2> QED BY <1>1, <2>1, SlotWritten DEF DeleteSlot
<1> HIDE DEF w
<1>4. SlotIds(w) = SlotIds(pg)
  BY <1>3 DEF SlotIds
<1>5. /\ SlotOffset(s) \in Nat /\ SlotOffset(d) \in Nat
      /\ SlotOffset(d) + SlotSize <= SlotOffset(s)
  <2>1. d \in Nat /\ d + 1 \in 0 .. s
    BY <1>2
  <2> QED BY <1>2, <2>1, SlotOffsets
<1>6. \A r \in SlotIds(pg) : ReadSlot(pg, r).off \in 0 .. PageSize /\ ReadSlot(pg, r).len \in 0 .. PageSize
  BY <1>1, SlotRead
<1>7. DirectoryIntact(w)
  <2>1. ASSUME NEW o \in HeaderSize .. (SlotOffset(s) - 1) PROVE w.bytes[o] = Directory
    <3>1. o \in Offsets /\ pg.bytes[o] = Directory
      BY <1>1, <1>2, <1>5, PageConstants DEF Offsets, DirectoryIntact
    <3> QED BY <1>3, <3>1
  <2> QED BY <1>1, <1>3, <2>1 DEF DirectoryIntact
<1>8. \A r \in SlotIds(w) : ReadSlot(w, r).off + ReadSlot(w, r).len <= PageSize
  BY <1>3, <1>4, PageConstants DEF PageOK
<1>9. ASSUME RecordsOK(pg), NEW r \in SlotIds(w), IsLive(w, r)
      PROVE  /\ w.freeEnd <= ReadSlot(w, r).off
             /\ \A o \in Extent(ReadSlot(w, r).off, ReadSlot(w, r).len) : w.bytes[o] = r
  <2>1. r \in SlotIds(pg) /\ r # d
    BY <1>3, <1>4, <1>9 DEF IsLive
  <2>2. ReadSlot(w, r) = ReadSlot(pg, r) /\ IsLive(pg, r)
    BY <1>3, <1>9, <2>1 DEF IsLive
  <2>3. /\ pg.freeEnd <= ReadSlot(pg, r).off
        /\ \A o \in Extent(ReadSlot(pg, r).off, ReadSlot(pg, r).len) : pg.bytes[o] = r
        /\ ReadSlot(pg, r).off + ReadSlot(pg, r).len <= PageSize
    BY <1>9, <2>1, <2>2 DEF RecordsOK, PageOK
  <2>4. ASSUME NEW o \in Extent(ReadSlot(pg, r).off, ReadSlot(pg, r).len) PROVE w.bytes[o] = r
    <3>0. o \in Int /\ ReadSlot(pg, r).off <= o /\ o < PageSize
      BY <1>6, <2>1, <2>3, PageConstants DEF Extent
    <3>1. o \in Int /\ SlotOffset(s) <= o /\ o < PageSize
      BY <1>1, <1>2, <1>5, <1>6, <2>1, <2>3, <3>0 DEF DirectoryIntact
    <3>2. o \in Offsets /\ o \notin Extent(SlotOffset(d), SlotSize)
      BY <1>5, <3>1, PageConstants DEF Extent, Offsets
    <3> QED BY <1>3, <2>3, <3>2
  <2> QED BY <1>3, <2>2, <2>3, <2>4
<1>10. PageOK(w) /\ FreeSpace(w) = FreeSpace(pg)
  BY <1>3, <1>7, <1>8 DEF PageOK, FreeSpace
<1>11. RecordsOK(pg) => RecordsOK(w)
  BY <1>9 DEF RecordsOK
<1> QED BY <1>10, <1>11 DEF w

\* ... and a new page has it.
LEMMA NewPageOK == PageOK(NewPage) /\ RecordsOK(NewPage) /\ FreeSpace(NewPage) = MaxAvailable
<1>1. NewPage.slots = <<>> /\ NewPage.freeEnd = PageSize
      /\ NewPage.bytes = [o \in Offsets |-> Nobody]
  BY DEF NewPage
<1>2. SlotCount(NewPage) = 0 /\ SlotIds(NewPage) = {} /\ SlotOffset(0) = HeaderSize
  BY <1>1, PageConstants DEF SlotCount, SlotIds, SlotOffset
<1>3. NewPage \in Page
  BY PageConstants DEF NewPage, Page
<1>4. DirectoryIntact(NewPage)
  BY <1>1, <1>2, PageConstants DEF DirectoryIntact
<1> QED BY <1>1, <1>2, <1>3, <1>4 DEF PageOK, RecordsOK, FreeSpace, MaxAvailable

\* What RecordsOK is for.
LEMMA RecordsAreRead ==
  ASSUME NEW pg, PageOK(pg), RecordsOK(pg) PROVE ReadsBack(pg)
<1> SUFFICES ASSUME NEW s \in SlotIds(pg), IsLive(pg, s)
             PROVE  Get(pg, s) = [i \in 1 .. ReadSlot(pg, s).len |-> s]
  BY DEF ReadsBack
<1>1. ReadSlot(pg, s).off \in Nat /\ ReadSlot(pg, s).len \in Nat
  BY SlotRead DEF PageOK
<1>2. \A i \in 1 .. ReadSlot(pg, s).len :
        ReadSlot(pg, s).off + i - 1 \in Extent(ReadSlot(pg, s).off, ReadSlot(pg, s).len)
  BY <1>1 DEF Extent
<1>3. \A i \in 1 .. ReadSlot(pg, s).len : pg.bytes[ReadSlot(pg, s).off + i - 1] = s
  BY <1>2 DEF RecordsOK
<1> QED BY <1>3 DEF Get

-----------------------------------------------------------------------------
\* Compaction.

\* CompactSteps is the function its definition describes.
LEMMA CompactStepsExist ==
  ASSUME NEW pg, SlotCount(pg) \in Nat
  PROVE  /\ CompactSteps(pg)[0] = [page |-> pg, dest |-> SlotOffset(SlotCount(pg))]
         /\ \A i \in 0 .. (SlotCount(pg) - 1) :
              CompactSteps(pg)[i + 1] = MoveSlot(CompactSteps(pg)[i], i)
<1> DEFINE n == SlotCount(pg)
           First == [page |-> pg, dest |-> SlotOffset(SlotCount(pg))]
           Is(f, k) == f = [i \in 0 .. k |-> IF i = 0 THEN First ELSE MoveSlot(f[i - 1], i - 1)]
           T == {k \in 0 .. n : \E f : Is(f, k)}
<1>1. 0 \in T
  <2>1. Is([i \in 0 .. 0 |-> First], 0)
    OBVIOUS
  <2> HIDE DEF Is
  <2> QED BY <2>1
<1>2. ASSUME NEW k \in 0 .. (n - 1), k \in T PROVE k + 1 \in T
  <2>1. PICK f : Is(f, k)
    BY <1>2
  <2> DEFINE g == [i \in 0 .. (k + 1) |-> IF i <= k THEN f[i] ELSE MoveSlot(f[k], k)]
  <2>2. ASSUME NEW i \in 0 .. (k + 1)
        PROVE  g[i] = IF i = 0 THEN First ELSE MoveSlot(g[i - 1], i - 1)
    <3>1. CASE i = 0
      BY <2>1, <3>1
    <3>2. CASE i \in 1 .. k
      <4>1. f[i] = MoveSlot(f[i - 1], i - 1)
        BY <2>1, <3>2
      <4>2. g[i] = f[i] /\ g[i - 1] = f[i - 1]
        BY <3>2
      <4> QED BY <3>2, <4>1, <4>2
    <3>3. CASE i = k + 1
      <4>1. g[i] = MoveSlot(f[k], k) /\ g[k] = f[k] /\ i - 1 = k /\ i # 0
        BY <3>3
      <4> QED BY <4>1
    <3> QED BY <3>1, <3>2, <3>3
  <2>3. Is(g, k + 1)
    <3>1. g = [i \in 0 .. (k + 1) |-> g[i]]
      OBVIOUS
    <3> HIDE DEF g
    <3> QED BY <2>2, <3>1
  <2> HIDE DEF g, Is
  <2> QED BY <2>3
<1>3. n \in T
  <2> HIDE DEF T
  <2> QED BY <1>1, <1>2, Induction
<1>4. \E f : Is(f, n)
  BY <1>3
<1>5. CompactSteps(pg) = CHOOSE f : Is(f, n)
  BY DEF CompactSteps
<1>6. Is(CompactSteps(pg), n)
  <2> HIDE DEF Is
  <2> QED BY <1>4, <1>5
<1> HIDE DEF First
<1>7. \A i \in 0 .. n : CompactSteps(pg)[i] =
        IF i = 0 THEN First ELSE MoveSlot(CompactSteps(pg)[i - 1], i - 1)
  BY <1>6
<1>8. ASSUME NEW i \in 0 .. (n - 1)
      PROVE  CompactSteps(pg)[i + 1] = MoveSlot(CompactSteps(pg)[i], i)
  <2>1. i + 1 \in 0 .. n /\ i + 1 # 0 /\ (i + 1) - 1 = i
    OBVIOUS
  <2> QED BY <1>7, <2>1
<1> QED BY <1>7, <1>8 DEF First

\* The page while compact moves its records: the slots still to come are the old ones,
\* and while the records fit, the page is sound but for free_end.
Moving(pg, done, i) ==
  /\ done.dest \in Nat /\ SlotOffset(SlotCount(pg)) <= done.dest
  /\ done.page = [slots |-> done.page.slots, freeEnd |-> pg.freeEnd,
                  bytes |-> done.page.bytes]
  /\ done.page.slots \in Seq([off : Nat, len : Lengths])
  /\ SlotCount(done.page) = SlotCount(pg)
  /\ \A r \in i .. (SlotCount(pg) - 1) : ReadSlot(done.page, r) = ReadSlot(pg, r)
  /\ done.dest <= PageSize =>
       /\ done.page \in Page
       /\ \A r \in SlotIds(pg) :
            ReadSlot(done.page, r).off + ReadSlot(done.page, r).len <= PageSize
       /\ \A o \in HeaderSize .. (SlotOffset(SlotCount(pg)) - 1) :
            done.page.bytes[o] = Directory

\* What a round of compact's loop writes for a live record: its slot, and its bytes at the
\* destination.
LEMMA MoveWrites ==
  ASSUME NEW pg, PageOK(pg), NEW s \in SlotIds(pg), NEW done, Moving(pg, done, s),
         ReadSlot(pg, s).len # 0, NEW next, next = MoveSlot(done, s)
  PROVE  LET slot == ReadSlot(pg, s)
         IN  /\ slot.off \in 0 .. PageSize /\ slot.len \in 1 .. PageSize
             /\ slot.off + slot.len <= PageSize
             /\ next.dest = done.dest + slot.len
             /\ next.page.slots = [done.page.slots EXCEPT ![s + 1] = [off |-> done.dest, len |-> slot.len]]
             /\ next.page.freeEnd = pg.freeEnd
             /\ next.page.bytes = [o \in Offsets |->
                  IF o \in Extent(SlotOffset(s), SlotSize) THEN Directory
                  ELSE IF o \in Extent(done.dest, slot.len)
                       THEN done.page.bytes[slot.off + o - done.dest]
                       ELSE done.page.bytes[o]]
             /\ next.page = [slots |-> next.page.slots, freeEnd |-> next.page.freeEnd,
                             bytes |-> next.page.bytes]
<1> DEFINE n     == SlotCount(pg)
           slot  == ReadSlot(pg, s)
           bytes == [o \in Offsets |-> IF o \in Extent(done.dest, slot.len)
                                       THEN done.page.bytes[slot.off + o - done.dest]
                                       ELSE done.page.bytes[o]]
           moved == [done.page EXCEPT !.bytes =
                       [o \in Offsets |-> IF o \in Extent(done.dest, slot.len)
                                          THEN @[slot.off + o - done.dest] ELSE @[o]]]
           new == [off |-> done.dest, len |-> slot.len]
           w   == WriteSlot(moved, s, done.dest, slot.len)
           wbytes == [o \in Offsets |->
                        IF o \in Extent(SlotOffset(s), SlotSize) THEN Directory
                        ELSE IF o \in Extent(done.dest, slot.len)
                             THEN done.page.bytes[slot.off + o - done.dest]
                             ELSE done.page.bytes[o]]
<1>1. pg \in Page /\ n \in Nat /\ s \in 0 .. (n - 1)
  BY DEF PageOK, Page, SlotCount, SlotIds
<1>2. slot = ReadSlot(done.page, s)
  BY <1>1 DEF Moving
<1>3. slot.off \in 0 .. PageSize /\ slot.len \in 1 .. PageSize /\ slot.off + slot.len <= PageSize
  <2>1. slot.off \in 0 .. PageSize /\ slot.len \in 0 .. PageSize /\ slot.off + slot.len <= PageSize
    BY <1>1, SlotRead DEF PageOK
  <2> HIDE DEF slot
  <2> QED BY <2>1, PageConstants DEF slot
<1>4. /\ done.page.slots \in Seq([off : Nat, len : Lengths]) /\ Len(done.page.slots) = n
      /\ done.page = [slots |-> done.page.slots, freeEnd |-> pg.freeEnd,
                      bytes |-> done.page.bytes]
  BY DEF Moving, SlotCount
<1>5. next = [page |-> w, dest |-> done.dest + slot.len]
  BY <1>2 DEF MoveSlot
<1>6. next.page = w /\ next.dest = done.dest + slot.len
  BY <1>5
<1>7. moved = [slots |-> done.page.slots, freeEnd |-> pg.freeEnd, bytes |-> bytes]
  BY <1>4
<1>8. moved.slots = done.page.slots /\ moved.freeEnd = pg.freeEnd /\ moved.bytes = bytes
  BY <1>7
<1> HIDE DEF moved
<1>9. w = [slots |-> [done.page.slots EXCEPT ![s + 1] = new], freeEnd |-> pg.freeEnd,
           bytes |-> wbytes]
  <2>1. s # Len(moved.slots)
    BY <1>1, <1>4, <1>8
  <2>2. w = [[moved EXCEPT !.slots = [done.page.slots EXCEPT ![s + 1] = new]]
               EXCEPT !.bytes = wbytes]
    BY <1>7, <1>8, <2>1 DEF WriteSlot
  <2> HIDE DEF new, wbytes, w, bytes
  <2> QED BY <1>7, <2>2
<1>10. /\ w.slots = [done.page.slots EXCEPT ![s + 1] = new] /\ w.bytes = wbytes
       /\ w.freeEnd = pg.freeEnd
  BY <1>9
<1> HIDE DEF w, bytes
<1> QED BY <1>3, <1>6, <1>9, <1>10

\* One record is moved.
LEMMA SlotMoves ==
  ASSUME NEW pg, PageOK(pg), NEW s \in SlotIds(pg), NEW done, Moving(pg, done, s),
         NEW next, next = MoveSlot(done, s)
  PROVE  Moving(pg, next, s + 1) /\ done.dest <= next.dest
<1> DEFINE n    == SlotCount(pg)
           slot == ReadSlot(pg, s)
<1>1. pg \in Page /\ n \in Nat /\ s \in 0 .. (n - 1) /\ SlotIds(pg) = 0 .. (n - 1)
      /\ pg.freeEnd \in 0 .. PageSize /\ slot = ReadSlot(done.page, s)
  BY DEF PageOK, Page, SlotCount, SlotIds, Moving
<1>2. /\ done.dest \in Nat /\ SlotOffset(n) <= done.dest
      /\ done.page.slots \in Seq([off : Nat, len : Lengths])
      /\ Len(done.page.slots) = n
      /\ done.page = [slots |-> done.page.slots, freeEnd |-> pg.freeEnd,
                      bytes |-> done.page.bytes]
  BY DEF Moving, SlotCount
<1>3. CASE slot.len = 0
  <2>1. next = done
    BY <1>1, <1>3 DEF MoveSlot
  <2> QED BY <1>1, <1>2, <2>1 DEF Moving
<1>4. CASE slot.len # 0
  <2> DEFINE new == [off |-> done.dest, len |-> slot.len]
             w   == next.page
  <2>1. /\ slot.off \in 0 .. PageSize /\ slot.len \in 1 .. PageSize
        /\ slot.off + slot.len <= PageSize
        /\ next.dest = done.dest + slot.len
        /\ w.slots = [done.page.slots EXCEPT ![s + 1] = new]
        /\ w.freeEnd = pg.freeEnd
        /\ w.bytes = [o \in Offsets |->
             IF o \in Extent(SlotOffset(s), SlotSize) THEN Directory
             ELSE IF o \in Extent(done.dest, slot.len)
                  THEN done.page.bytes[slot.off + o - done.dest]
                  ELSE done.page.bytes[o]]
        /\ w = [slots |-> w.slots, freeEnd |-> w.freeEnd, bytes |-> w.bytes]
    BY <1>4, MoveWrites
  <2>2. /\ w.slots \in Seq([off : Nat, len : Lengths]) /\ Len(w.slots) = n
        /\ w.slots[s + 1] = new
        /\ \A r \in 0 .. (n - 1) : r # s => w.slots[r + 1] = done.page.slots[r + 1]
    <3>1. s + 1 \in 1 .. n /\ new \in [off : Nat, len : Lengths]
      <4>1. s + 1 \in 1 .. n
        BY <1>1
      <4>2. done.dest \in Nat /\ slot.len \in Lengths
        <5> HIDE DEF slot
        <5> QED BY <1>2, <2>1, PageConstants DEF Lengths
      <4> HIDE DEF slot, n
      <4> QED BY <4>1, <4>2
    <3> HIDE DEF new
    <3> QED BY SMTT(30), <1>1, <1>2, <2>1, <3>1
  <2>3. next.dest \in Nat /\ done.dest <= next.dest /\ SlotOffset(n) <= next.dest
    <3>1. SlotOffset(n) \in Nat
      BY <1>1, SlotOffsets
    <3> HIDE DEF slot
    <3> QED BY <1>2, <2>1, <3>1, PageConstants
  <2>4. \A r \in (s + 1) .. (n - 1) : ReadSlot(w, r) = ReadSlot(pg, r)
    <3>1. \A r \in (s + 1) .. (n - 1) : /\ r \in 0 .. (n - 1) /\ r # s /\ r \in s .. (n - 1)
      BY <1>1
    <3> QED BY <2>2, <3>1 DEF Moving, ReadSlot
  <2>5. ASSUME next.dest <= PageSize
        PROVE  /\ w \in Page
               /\ \A r \in SlotIds(pg) : ReadSlot(w, r).off + ReadSlot(w, r).len <= PageSize
               /\ \A o \in HeaderSize .. (SlotOffset(n) - 1) : w.bytes[o] = Directory
    <3>1. done.dest <= PageSize /\ done.dest + slot.len <= PageSize
      <4> HIDE DEF slot
      <4> QED BY <1>2, <2>1, <2>3, <2>5, PageConstants
    <3>2. /\ done.page \in Page
          /\ \A r \in SlotIds(pg) :
               ReadSlot(done.page, r).off + ReadSlot(done.page, r).len <= PageSize
          /\ \A o \in HeaderSize .. (SlotOffset(n) - 1) : done.page.bytes[o] = Directory
      BY <3>1 DEF Moving
    <3>3. done.page.slots \in Seq(Slot)
          /\ done.page.bytes \in [Offsets -> Nat \cup {Nobody, Directory}]
      BY <3>2 DEF Page
    <3>4. w.bytes \in [Offsets -> Nat \cup {Nobody, Directory}]
      <4>1. ASSUME NEW o \in Offsets, o \in Extent(done.dest, slot.len)
            PROVE  slot.off + o - done.dest \in Offsets
        <5> DEFINE d   == done.dest
                   off == slot.off
                   len == slot.len
        <5>1. d \in Nat /\ off \in Nat /\ len \in Nat /\ off + len <= PageSize
          BY <1>2, <2>1, PageConstants
        <5>2. o \in d .. (d + len - 1)
          BY <4>1 DEF Extent
        <5> HIDE DEF d, off, len
        <5>3. off + o - d \in 0 .. (PageSize - 1)
          BY <5>1, <5>2, PageConstants
        <5> QED BY <5>3 DEF Offsets, d, off
      <4> HIDE DEF slot, w
      <4> QED BY <2>1, <3>3, <4>1
    <3>5. w.slots \in Seq(Slot)
      <4>1. new \in Slot /\ s + 1 \in 1 .. n
        <5> HIDE DEF slot
        <5>1. done.dest \in 0 .. PageSize /\ slot.len \in 0 .. PageSize
          BY <1>2, <2>1, <3>1, PageConstants
        <5> QED BY <1>1, <5>1 DEF Slot, Lengths
      <4> HIDE DEF new, w
      <4> QED BY <1>2, <2>1, <3>3, <4>1
    <3>6. w \in Page
      <4> HIDE DEF w
      <4> QED BY <1>1, <2>1, <3>4, <3>5 DEF Page
    <3>7. ASSUME NEW r \in SlotIds(pg)
          PROVE  ReadSlot(w, r).off + ReadSlot(w, r).len <= PageSize
      <4>1. CASE r = s
        BY <2>2, <3>1, <4>1 DEF ReadSlot
      <4>2. CASE r # s
        <5>1. ReadSlot(w, r) = ReadSlot(done.page, r)
          BY <1>1, <2>2, <4>2 DEF ReadSlot
        <5> QED BY <3>2, <5>1
      <4> QED BY <4>1, <4>2
    <3>8. ASSUME NEW o \in HeaderSize .. (SlotOffset(n) - 1) PROVE w.bytes[o] = Directory
      <4>1. SlotOffset(n) \in Nat
        BY <1>1, SlotOffsets
      <4>2. o \in Offsets /\ o \notin Extent(done.dest, slot.len)
        BY <1>2, <2>1, <3>1, <4>1, PageConstants DEF Offsets, Extent
      <4> HIDE DEF slot, w
      <4> QED BY <2>1, <3>2, <4>2
    <3> QED BY <3>6, <3>7, <3>8
  <2> HIDE DEF slot
  <2> QED BY <2>1, <2>2, <2>3, <2>4, <2>5 DEF Moving, SlotCount
<1> QED BY <1>3, <1>4

\* After each round, also one that left the page, the page is as Moving says.
LEMMA CompactMoves ==
  ASSUME NEW pg, PageOK(pg)
  PROVE  /\ SlotCount(pg) \in Nat /\ CompactSteps(pg)[0].page = pg
         /\ CompactSteps(pg)[0].dest = SlotOffset(SlotCount(pg))
         /\ \A i \in 0 .. SlotCount(pg) : Moving(pg, CompactSteps(pg)[i], i)
<1> DEFINE n == SlotCount(pg)
           st == CompactSteps(pg)
           T  == {i \in 0 .. n : Moving(pg, st[i], i)}
<1>1. pg \in Page /\ n \in Nat /\ SlotIds(pg) = 0 .. (n - 1)
  BY DEF PageOK, Page, SlotCount, SlotIds
<1>2. /\ st[0] = [page |-> pg, dest |-> SlotOffset(n)]
      /\ \A i \in 0 .. (n - 1) : st[i + 1] = MoveSlot(st[i], i)
  BY <1>1, CompactStepsExist
<1>3. st[0].page = pg /\ st[0].dest = SlotOffset(n)
  BY <1>2
<1>4. Moving(pg, st[0], 0)
  <2>1. SlotOffset(n) \in Nat
    BY <1>1, SlotOffsets
  <2>2. pg.slots \in Seq(Slot) /\ pg.slots \in Seq([off : Nat, len : Lengths])
    <3>1. pg.slots \in Seq(Slot)
      BY <1>1 DEF Page
    <3>2. Slot \subseteq [off : Nat, len : Lengths]
      BY PageConstants DEF Slot
    <3> QED BY <3>1, <3>2, SeqMonotonic
  <2>3. pg = [slots |-> pg.slots, freeEnd |-> pg.freeEnd, bytes |-> pg.bytes]
    BY <1>1 DEF Page
  <2> QED BY <1>1, <1>3, <2>1, <2>2, <2>3 DEF Moving, PageOK, DirectoryIntact
<1> HIDE DEF st
<1>5. ASSUME NEW i \in 0 .. (n - 1), i \in T PROVE i + 1 \in T
  <2>1. i \in SlotIds(pg) /\ Moving(pg, st[i], i) /\ i + 1 \in 0 .. n
    BY <1>1, <1>5
  <2>2. st[i + 1] = MoveSlot(st[i], i)
    BY <1>2, <2>1
  <2>3. Moving(pg, st[i + 1], i + 1)
    BY <2>1, <2>2, SlotMoves
  <2> QED BY <2>1, <2>3
<1>6. \A i \in 0 .. n : i \in T
  <2>1. 0 \in T
    BY <1>1, <1>4
  <2> HIDE DEF T
  <2> QED BY <1>1, <1>5, <2>1, Induction
<1> QED BY <1>1, <1>3, <1>6 DEF st

\* A compaction that does not panic leaves a sound page.
LEMMA CompactKeeps ==
  ASSUME NEW pg, PageOK(pg), ~CompactPanics(pg)
  PROVE  PageOK(Compacted(pg))
<1> DEFINE n == SlotCount(pg)
           st == CompactSteps(pg)
           w  == Compacted(pg)
<1>1. pg \in Page /\ n \in Nat /\ SlotIds(pg) = 0 .. (n - 1) /\ n \in 0 .. n
  BY DEF PageOK, Page, SlotCount, SlotIds
<1>2. Moving(pg, st[n], n)
  BY <1>1, CompactMoves
<1> HIDE DEF st
<1>3. Moving(pg, st[n], n) /\ st[n].dest <= PageSize
  <2>1. st[n].dest \in Nat /\ ~(st[n].dest > PageSize)
    BY <1>2 DEF CompactPanics, Moving, st
  <2> QED BY <1>2, <2>1, PageConstants
<1>4. w = [slots |-> st[n].page.slots, freeEnd |-> st[n].dest, bytes |-> st[n].page.bytes]
  BY <1>3 DEF Compacted, Moving, st
<1> HIDE DEF w
<1>5. w.slots = st[n].page.slots /\ w.freeEnd = st[n].dest /\ w.bytes = st[n].page.bytes
  BY <1>4
<1>6. st[n].page \in Page /\ st[n].dest \in 0 .. PageSize
  BY <1>3, PageConstants DEF Moving
<1>7. w \in Page
  BY <1>4, <1>6 DEF Page
<1>8. SlotCount(w) = n /\ SlotIds(w) = SlotIds(pg)
      /\ \A r : ReadSlot(w, r) = ReadSlot(st[n].page, r)
  BY <1>3, <1>5 DEF Moving, SlotCount, SlotIds, ReadSlot
<1> QED BY <1>3, <1>5, <1>7, <1>8 DEF PageOK, Moving, DirectoryIntact, w

-----------------------------------------------------------------------------
\* A compaction of a page that was not compacted before.

\* The bytes of a slot's record, and of the records of the first i slots.
RecordOf(pg, s) == Extent(ReadSlot(pg, s).off, ReadSlot(pg, s).len)
RecordsBefore(pg, i) == UNION {RecordOf(pg, r) : r \in 0 .. (i - 1)}

\* The records are apart, and behind the free space.
LEMMA RecordsApart ==
  ASSUME NEW pg, PageOK(pg), RecordsOK(pg), NEW s \in SlotIds(pg)
  PROVE  /\ RecordOf(pg, s) \subseteq pg.freeEnd .. (PageSize - 1)
         /\ IsFiniteSet(RecordOf(pg, s))
         /\ Cardinality(RecordOf(pg, s)) = ReadSlot(pg, s).len
         /\ \A o \in RecordOf(pg, s) : pg.bytes[o] = s
<1> DEFINE off == ReadSlot(pg, s).off
           len == ReadSlot(pg, s).len
<1>1. off \in Nat /\ len \in Nat /\ off + len <= PageSize /\ pg.freeEnd \in Nat
  <2>1. pg \in Page
    BY DEF PageOK
  <2> QED BY <2>1, SlotRead, PageConstants DEF PageOK, Page
<1>2. IsFiniteSet(RecordOf(pg, s)) /\ Cardinality(RecordOf(pg, s)) = len
  <2> HIDE DEF off, len
  <2>1. off \in Int /\ off + len - 1 \in Int
    BY <1>1
  <2>2. /\ IsFiniteSet(off .. (off + len - 1))
        /\ Cardinality(off .. (off + len - 1)) = IF off > off + len - 1 THEN 0 ELSE (off + len - 1) - off + 1
    BY <2>1, FS_Interval
  <2>3. (IF off > off + len - 1 THEN 0 ELSE (off + len - 1) - off + 1) = len
    BY <1>1
  <2> QED BY <2>2, <2>3 DEF RecordOf, Extent, off, len
<1>3. CASE len = 0
  <2>1. RecordOf(pg, s) = {}
    BY <1>1, <1>3 DEF RecordOf, Extent
  <2> QED BY <1>2, <2>1
<1>4. CASE len # 0
  <2>1. pg.freeEnd <= off /\ \A o \in RecordOf(pg, s) : pg.bytes[o] = s
    BY <1>1, <1>4 DEF RecordsOK, IsLive, RecordOf
  <2>2. RecordOf(pg, s) \subseteq pg.freeEnd .. (PageSize - 1)
    BY <1>1, <2>1, PageConstants DEF RecordOf, Extent
  <2> QED BY <1>2, <2>1, <2>2
<1> QED BY <1>3, <1>4

\* Up to a round, compact has moved as many bytes as the records before have.
LEMMA DestinationCounts ==
  ASSUME NEW pg, PageOK(pg), RecordsOK(pg)
  PROVE  \A i \in 0 .. SlotCount(pg) :
           /\ IsFiniteSet(RecordsBefore(pg, i))
           /\ CompactSteps(pg)[i].dest = SlotOffset(SlotCount(pg)) + Cardinality(RecordsBefore(pg, i))
<1> DEFINE n == SlotCount(pg)
           st == CompactSteps(pg)
           B(i) == RecordsBefore(pg, i)
           T == {i \in 0 .. n : /\ IsFiniteSet(B(i))
                                /\ st[i].dest = SlotOffset(n) + Cardinality(B(i))}
<1>1. /\ n \in Nat /\ SlotIds(pg) = 0 .. (n - 1) /\ SlotOffset(n) \in Nat
      /\ st[0].dest = SlotOffset(n)
      /\ \A i \in 0 .. n : Moving(pg, st[i], i)
      /\ \A i \in 0 .. (n - 1) : st[i + 1] = MoveSlot(st[i], i)
  <2>1. n \in Nat /\ SlotIds(pg) = 0 .. (n - 1)
    BY CompactMoves DEF SlotIds
  <2>2. \A i \in 0 .. n : Moving(pg, st[i], i)
    BY CompactMoves
  <2>3. st[0].dest = SlotOffset(n)
    BY CompactMoves
  <2>4. \A i \in 0 .. (n - 1) : st[i + 1] = MoveSlot(st[i], i)
    BY <2>1, CompactStepsExist
  <2>5. SlotOffset(n) \in Nat
    BY <2>1, SlotOffsets
  <2> QED BY <2>1, <2>2, <2>3, <2>4, <2>5
<1> HIDE DEF st
<1>2. 0 \in T
  <2>1. B(0) = {}
    BY DEF RecordsBefore
  <2>2. IsFiniteSet({}) /\ Cardinality({}) = 0
    BY FS_EmptySet
  <2>3. IsFiniteSet(B(0)) /\ Cardinality(B(0)) = 0
    BY <2>1, <2>2
  <2> DEFINE c == Cardinality(B(0))
  <2>4. c = 0
    BY <2>3
  <2> HIDE DEF c
  <2>5. 0 \in 0 .. n /\ st[0].dest = SlotOffset(n) + c
    BY <1>1, <2>4
  <2> QED BY <2>3, <2>5 DEF c
<1>3. ASSUME NEW i \in 0 .. (n - 1), i \in T PROVE i + 1 \in T
  <2> DEFINE R == RecordOf(pg, i)
             len == ReadSlot(pg, i).len
  <2>1. i \in SlotIds(pg) /\ i \in 0 .. n /\ i + 1 \in 0 .. n
    BY <1>1
  <2>2. IsFiniteSet(R) /\ Cardinality(R) = len /\ \A o \in R : pg.bytes[o] = i
    BY <2>1, RecordsApart
  <2>3. \A r \in 0 .. (i - 1) : \A o \in RecordOf(pg, r) : pg.bytes[o] = r /\ r # i
    <3>1. \A r \in 0 .. (i - 1) : r \in SlotIds(pg) /\ r # i
      BY <1>1
    <3> QED BY <3>1, RecordsApart
  <2>4. B(i) \cap R = {}
    BY <2>2, <2>3 DEF RecordsBefore
  <2>5. B(i + 1) = B(i) \cup R
    <3>1. 0 .. ((i + 1) - 1) = (0 .. (i - 1)) \cup {i}
      BY <1>1
    <3> QED BY <3>1 DEF RecordsBefore
  <2>6. IsFiniteSet(B(i)) /\ st[i].dest = SlotOffset(n) + Cardinality(B(i))
    BY <1>3
  <2>7. st[i + 1].dest = st[i].dest + len
    <3>1. Moving(pg, st[i], i) /\ st[i + 1] = MoveSlot(st[i], i) /\ len \in Nat
      <4>1. pg \in Page
        BY DEF PageOK
      <4> QED BY <1>1, <2>1, <4>1, SlotRead
    <3>2. CASE len = 0
      <4>1. ReadSlot(st[i].page, i) = ReadSlot(pg, i)
        BY <1>1, <3>1 DEF Moving
      <4>2. st[i + 1] = st[i]
        BY <3>1, <3>2, <4>1 DEF MoveSlot
      <4>3. st[i].dest \in Nat
        BY <3>1 DEF Moving
      <4> QED BY <3>2, <4>2, <4>3
    <3>3. CASE len # 0
      <4>1. ReadSlot(st[i].page, i) = ReadSlot(pg, i)
        BY <1>1, <3>1 DEF Moving
      <4> QED BY <3>1, <3>3, <4>1 DEF MoveSlot
    <3> QED BY <3>2, <3>3
  <2> HIDE DEF B, R, len
  <2>8. /\ IsFiniteSet(B(i) \cup R)
        /\ Cardinality(B(i) \cup R) = Cardinality(B(i)) + Cardinality(R) - Cardinality(B(i) \cap R)
    BY <2>2, <2>6, FS_Union
  <2>9. Cardinality(B(i) \cap R) = 0 /\ Cardinality(B(i)) \in Nat /\ Cardinality(R) \in Nat
    BY <2>2, <2>4, <2>6, FS_EmptySet, FS_CardinalityType
  <2>10. st[i + 1].dest = SlotOffset(n) + Cardinality(B(i + 1))
    <3> DEFINE before == Cardinality(B(i))
               both   == Cardinality(B(i) \cup R)
               off    == SlotOffset(n)
               d      == st[i].dest
    <3>1. both = before + len - 0 /\ d = off + before /\ before \in Nat /\ off \in Nat
          /\ len \in Nat
      BY <1>1, <2>2, <2>6, <2>8, <2>9
    <3>2. st[i + 1].dest = d + len /\ Cardinality(B(i + 1)) = both
      BY <2>5, <2>7
    <3> HIDE DEF before, both, off, d
    <3>3. d + len = off + both
      BY <3>1
    <3> QED BY <3>2, <3>3 DEF off
  <2> QED BY <2>1, <2>5, <2>8, <2>10
<1>4. \A i \in 0 .. n : i \in T
  <2> HIDE DEF T
  <2> QED BY <1>1, <1>2, <1>3, Induction
<1> QED BY <1>4 DEF st

\* The records of such a page are no longer than what lies behind the directory.
LEMMA FirstCompactFits ==
  ASSUME NEW pg, PageOK(pg), RecordsOK(pg) PROVE ~CompactPanics(pg)
<1> DEFINE n == SlotCount(pg)
           U == RecordsBefore(pg, n)
           behind == pg.freeEnd .. (PageSize - 1)
<1>1. /\ n \in Nat /\ n \in 0 .. n /\ SlotIds(pg) = 0 .. (n - 1) /\ SlotOffset(n) \in Nat
      /\ pg.freeEnd \in Nat /\ pg.freeEnd <= PageSize /\ SlotOffset(n) <= pg.freeEnd
  <2>1. n \in Nat /\ SlotIds(pg) = 0 .. (n - 1)
    BY CompactMoves DEF SlotIds
  <2>2. SlotOffset(n) \in Nat
    BY <2>1, SlotOffsets
  <2>3. pg.freeEnd \in Nat /\ pg.freeEnd <= PageSize /\ SlotOffset(n) <= pg.freeEnd
    BY PageConstants DEF PageOK, Page, DirectoryIntact
  <2> QED BY <2>1, <2>2, <2>3
<1>2. U \subseteq behind
  <2>1. \A r \in 0 .. (n - 1) : RecordOf(pg, r) \subseteq behind
    BY <1>1, RecordsApart
  <2> QED BY <2>1 DEF RecordsBefore
<1>3. IsFiniteSet(behind) /\ Cardinality(behind) = PageSize - pg.freeEnd
  <2> DEFINE a == pg.freeEnd
             b == PageSize - 1
  <2>1. a \in Int /\ b \in Int
    BY <1>1, PageConstants
  <2> HIDE DEF a, b
  <2>2. IsFiniteSet(a .. b) /\ Cardinality(a .. b) = IF a > b THEN 0 ELSE b - a + 1
    BY <2>1, FS_Interval
  <2>3. (IF a > b THEN 0 ELSE b - a + 1) = PageSize - pg.freeEnd
    BY <1>1, <2>1, PageConstants DEF a, b
  <2> QED BY <2>2, <2>3 DEF a, b
<1>4. CompactSteps(pg)[n].dest = SlotOffset(n) + Cardinality(U) /\ IsFiniteSet(U)
  BY <1>1, DestinationCounts
<1> HIDE DEF U, behind
<1>5. Cardinality(U) <= Cardinality(behind) /\ Cardinality(U) \in Nat
  BY <1>2, <1>3, <1>4, FS_Subset, FS_CardinalityType
<1>6. CompactSteps(pg)[n].dest <= PageSize
  BY <1>1, <1>3, <1>4, <1>5, PageConstants
<1> QED BY <1>1, <1>4, <1>5, <1>6, PageConstants DEF CompactPanics

\* The page while compact has not reached the records still to come: the records it has
\* moved, with the lengths they had, lie behind the directory and before the destination,
\* and from the end of the free space on the page is as it was.
Copied(pg, done, i) ==
  /\ \A r \in 0 .. (i - 1) :
       LET slot == ReadSlot(done.page, r)
       IN  /\ slot.len = ReadSlot(pg, r).len
           /\ slot.len # 0 => /\ SlotOffset(SlotCount(pg)) <= slot.off
                              /\ slot.off + slot.len <= done.dest
                              /\ \A o \in Extent(slot.off, slot.len) : done.page.bytes[o] = r
  /\ \A o \in pg.freeEnd .. (PageSize - 1) : done.page.bytes[o] = pg.bytes[o]

\* A record is copied from behind the free space, where nothing was written yet, to the free
\* space.
LEMMA RecordIsCopied ==
  ASSUME NEW pg, PageOK(pg), RecordsOK(pg), NEW s \in SlotIds(pg), NEW done,
         Moving(pg, done, s), Copied(pg, done, s),
         NEW next, next = MoveSlot(done, s), next.dest <= pg.freeEnd
  PROVE  Copied(pg, next, s + 1)
<1> DEFINE n    == SlotCount(pg)
           slot == ReadSlot(pg, s)
<1>1. /\ n \in Nat /\ s \in 0 .. (n - 1) /\ SlotIds(pg) = 0 .. (n - 1)
      /\ pg.freeEnd \in 0 .. PageSize
      /\ 0 .. ((s + 1) - 1) = (0 .. (s - 1)) \cup {s} /\ \A r \in 0 .. (s - 1) : r # s
      /\ ReadSlot(done.page, s) = slot
  <2>1. n \in Nat /\ s \in 0 .. (n - 1) /\ SlotIds(pg) = 0 .. (n - 1) /\ pg.freeEnd \in 0 .. PageSize
    BY DEF PageOK, Page, SlotCount, SlotIds
  <2>2. 0 .. ((s + 1) - 1) = (0 .. (s - 1)) \cup {s} /\ \A r \in 0 .. (s - 1) : r # s
    <3> HIDE DEF n
    <3> QED BY <2>1
  <2>3. ReadSlot(done.page, s) = slot
    BY <2>1 DEF Moving
  <2> QED BY <2>1, <2>2, <2>3
<1>2. done.dest \in Nat /\ SlotOffset(n) <= done.dest
  BY DEF Moving
<1>3. CASE slot.len = 0
  <2>1. next = done
    BY <1>1, <1>3 DEF MoveSlot
  <2> QED BY <1>1, <1>3, <2>1 DEF Copied
<1>4. CASE slot.len # 0
  <2> DEFINE w    == next.page
             here == [off |-> done.dest, len |-> slot.len]
  <2>1. /\ slot.off \in 0 .. PageSize /\ slot.len \in 1 .. PageSize
        /\ slot.off + slot.len <= PageSize
        /\ next.dest = done.dest + slot.len
        /\ w.slots = [done.page.slots EXCEPT ![s + 1] = here]
        /\ w.freeEnd = pg.freeEnd
        /\ w.bytes = [o \in Offsets |->
             IF o \in Extent(SlotOffset(s), SlotSize) THEN Directory
             ELSE IF o \in Extent(done.dest, slot.len)
                  THEN done.page.bytes[slot.off + o - done.dest]
                  ELSE done.page.bytes[o]]
        /\ w = [slots |-> w.slots, freeEnd |-> w.freeEnd, bytes |-> w.bytes]
    BY <1>4, MoveWrites
  <2>2. /\ ReadSlot(w, s) = here
        /\ \A r \in 0 .. (s - 1) : ReadSlot(w, r) = ReadSlot(done.page, r)
    <3>1. Len(done.page.slots) = n /\ done.page.slots \in Seq([off : Nat, len : Lengths])
      BY DEF Moving, SlotCount
    <3>2. s + 1 \in 1 .. n /\ \A r \in 0 .. (s - 1) : r + 1 \in 1 .. n /\ r + 1 # s + 1
      <4> HIDE DEF n
      <4> QED BY <1>1
    <3> HIDE DEF here, n
    <3>3. w.slots[s + 1] = here /\ \A r \in 0 .. (s - 1) : w.slots[r + 1] = done.page.slots[r + 1]
      BY <2>1, <3>1, <3>2
    <3> QED BY <3>3 DEF ReadSlot
  <2>3. SlotOffset(s) \in Nat /\ SlotOffset(n) \in Nat /\ SlotOffset(s) + SlotSize <= SlotOffset(n)
    BY SMTT(30), <1>1, SlotOffsets
  <2>4. pg.freeEnd <= slot.off /\ \A o \in Extent(slot.off, slot.len) : pg.bytes[o] = s
    <3>1. slot.len > 0
      <4> HIDE DEF slot
      <4> QED BY <2>1
    <3> QED BY <3>1 DEF RecordsOK, IsLive
  <2> HIDE DEF w, slot
  <2>5. ASSUME NEW o \in Offsets, SlotOffset(n) <= o, o < done.dest \/ pg.freeEnd <= o
        PROVE  w.bytes[o] = done.page.bytes[o]
    <3>1. o \notin Extent(SlotOffset(s), SlotSize) /\ o \notin Extent(done.dest, slot.len)
      <4> DEFINE front == SlotOffset(s)
                 behind == SlotOffset(n)
      <4>1. front \in Nat /\ behind \in Nat /\ front + SlotSize <= behind /\ behind <= o
            /\ done.dest + slot.len <= pg.freeEnd
        BY <2>1, <2>3, <2>5
      <4> HIDE DEF front, behind
      <4>2. o \notin Extent(front, SlotSize)
        BY <4>1, PageConstants DEF Extent, Offsets
      <4> DEFINE d   == done.dest
                 len == slot.len
                 end == pg.freeEnd
      <4>3. d \in Nat /\ len \in Nat /\ end \in Nat /\ o \in Nat /\ d + len <= end
            /\ (o < d \/ end <= o)
        BY SMTT(30), <1>1, <1>2, <2>1, <2>5, <4>1, PageConstants DEF Offsets
      <4> HIDE DEF d, len, end
      <4>4. o \notin Extent(d, len)
        BY <4>3 DEF Extent
      <4> QED BY <4>2, <4>4 DEF front, d, len
    <3> QED BY <2>1, <3>1
  <2>6. ASSUME NEW r \in 0 .. (s - 1)
        PROVE  LET moved == ReadSlot(w, r)
               IN  /\ moved.len = ReadSlot(pg, r).len
                   /\ moved.len # 0 => /\ SlotOffset(n) <= moved.off
                                       /\ moved.off + moved.len <= next.dest
                                       /\ \A o \in Extent(moved.off, moved.len) : w.bytes[o] = r
    <3> DEFINE moved == ReadSlot(done.page, r)
    <3>1. /\ ReadSlot(w, r) = moved /\ moved.len = ReadSlot(pg, r).len
          /\ moved.len # 0 => /\ SlotOffset(n) <= moved.off
                              /\ moved.off + moved.len <= done.dest
                              /\ \A o \in Extent(moved.off, moved.len) : done.page.bytes[o] = r
      BY <2>2 DEF Copied
    <3>2. moved.off \in Nat /\ moved.len \in Nat
      <4>1. Len(done.page.slots) = n /\ done.page.slots \in Seq([off : Nat, len : Lengths])
        BY DEF Moving, SlotCount
      <4>2. r + 1 \in 1 .. n
        <5> HIDE DEF n
        <5> QED BY <1>1
      <4> DEFINE S == [off : Nat, len : Lengths]
      <4> HIDE DEF n, S
      <4>3. done.page.slots[r + 1] \in S
        BY <4>1, <4>2, ElementOfSeq DEF S
      <4> QED BY <4>3, PageConstants DEF ReadSlot, Lengths, S
    <3> HIDE DEF moved
    <3>3. ASSUME moved.len # 0
          PROVE  /\ moved.off + moved.len <= next.dest
                 /\ \A o \in Extent(moved.off, moved.len) : w.bytes[o] = r
      <4> DEFINE behind == SlotOffset(n)
      <4>1. behind \in Nat /\ behind <= moved.off /\ moved.off + moved.len <= done.dest
            /\ done.dest + slot.len <= pg.freeEnd /\ next.dest = done.dest + slot.len
        BY <2>1, <2>3, <3>1, <3>3
      <4> HIDE DEF behind
      <4>2. moved.off + moved.len <= next.dest
        BY <1>2, <2>1, <3>2, <4>1
      <4>3. ASSUME NEW o \in Extent(moved.off, moved.len) PROVE w.bytes[o] = r
        <5>1. o \in Offsets /\ behind <= o /\ o < done.dest
          <6> DEFINE d   == done.dest
                     len == slot.len
                     end == pg.freeEnd
                     a   == moved.off
                     l   == moved.len
          <6>1. a \in Nat /\ l \in Nat /\ behind \in Nat /\ behind <= a
            BY <3>2, <4>1
          <6>2. a + l <= d /\ d + len <= end
            BY <4>1
          <6>3. d \in Nat /\ end \in 0 .. PageSize
            BY <1>1, <1>2
          <6>4. len \in 1 .. PageSize
            BY <2>1
          <6>5. o \in a .. (a + l - 1)
            BY <4>3 DEF Extent
          <6> HIDE DEF d, len, end, a, l
          <6>6. o \in 0 .. (PageSize - 1) /\ behind <= o /\ o < d
            BY <6>1, <6>2, <6>3, <6>4, <6>5, PageConstants
          <6> QED BY <6>6 DEF d, Offsets
        <5>2. done.page.bytes[o] = r
          BY <3>1, <3>3
        <5> QED BY <2>5, <5>1, <5>2 DEF behind
      <4> QED BY <4>2, <4>3
    <3> QED BY <3>1, <3>3
  <2>7. ASSUME NEW o \in Extent(done.dest, slot.len) PROVE w.bytes[o] = s
    <3> DEFINE front  == SlotOffset(s)
               behind == SlotOffset(n)
               from   == slot.off + o - done.dest
    <3>1. front \in Nat /\ behind \in Nat /\ front + SlotSize <= behind /\ behind <= done.dest
          /\ done.dest + slot.len <= pg.freeEnd
      BY <1>2, <2>1, <2>3
    <3> HIDE DEF front, behind
    <3> DEFINE d   == done.dest
               len == slot.len
               off == slot.off
               end == pg.freeEnd
    <3>2. /\ d \in Nat /\ len \in Nat /\ off \in Nat /\ end \in 0 .. PageSize
          /\ off + len <= PageSize /\ d + len <= end /\ behind <= d /\ end <= off
          /\ o \in d .. (d + len - 1) /\ from = off + o - d
      BY SMTT(30), <1>1, <1>2, <2>1, <2>4, <2>7, <3>1, PageConstants DEF Extent
    <3> HIDE DEF from, d, len, off, end
    <3>3. /\ o \in 0 .. (PageSize - 1) /\ o \notin front .. (front + SlotSize - 1)
          /\ from \in off .. (off + len - 1) /\ from \in end .. (PageSize - 1)
      BY <3>1, <3>2, PageConstants
    <3>6. o \in Offsets /\ o \notin Extent(front, SlotSize) /\ o \in Extent(done.dest, slot.len)
          /\ from \in Extent(slot.off, slot.len) /\ from \in pg.freeEnd .. (PageSize - 1)
      BY <2>7, <3>3 DEF Extent, Offsets, off, len, end
    <3>4. done.page.bytes[from] = pg.bytes[from] /\ pg.bytes[from] = s
      BY <2>4, <3>6 DEF Copied
    <3>5. w.bytes[o] = done.page.bytes[from]
      BY <2>1, <3>6 DEF front, from
    <3> QED BY <3>4, <3>5
  <2>8. ASSUME NEW o \in pg.freeEnd .. (PageSize - 1) PROVE w.bytes[o] = pg.bytes[o]
    <3> DEFINE behind == SlotOffset(n)
    <3>1. behind \in Nat /\ behind <= pg.freeEnd
      BY <2>3 DEF PageOK, DirectoryIntact
    <3> HIDE DEF behind
    <3>2. o \in Offsets /\ behind <= o /\ pg.freeEnd <= o
      BY <1>1, <3>1, PageConstants DEF Offsets
    <3>3. w.bytes[o] = done.page.bytes[o]
      BY <2>5, <3>2 DEF behind
    <3> QED BY <3>3 DEF Copied
  <2>9. ReadSlot(w, s).off = done.dest /\ ReadSlot(w, s).len = slot.len
    BY <2>2
  <2>10. done.dest + slot.len <= next.dest /\ SlotOffset(n) <= done.dest
    BY <1>2, <2>1
  <2> QED BY <1>1, <2>6, <2>7, <2>8, <2>9, <2>10 DEF Copied, w, slot
<1> QED BY <1>3, <1>4

\* The records of such a page survive when they fit its free space all together.
LEMMA FirstCompactCopies ==
  ASSUME NEW pg, PageOK(pg), RecordsOK(pg), Compacted(pg).freeEnd <= pg.freeEnd
  PROVE  /\ SlotCount(Compacted(pg)) = SlotCount(pg)
         /\ \A r \in SlotIds(pg) : ReadSlot(Compacted(pg), r).len = ReadSlot(pg, r).len
         /\ ReadsBack(Compacted(pg))
<1> DEFINE n  == SlotCount(pg)
           st == CompactSteps(pg)
           w  == Compacted(pg)
           T  == {i \in 0 .. n : st[i].dest <= pg.freeEnd => Copied(pg, st[i], i)}
<1>1. /\ n \in Nat /\ SlotIds(pg) = 0 .. (n - 1) /\ n \in 0 .. n /\ pg.freeEnd \in 0 .. PageSize
      /\ st[0].page = pg
      /\ \A i \in 0 .. n : Moving(pg, st[i], i)
      /\ \A i \in 0 .. (n - 1) : st[i + 1] = MoveSlot(st[i], i)
  <2>1. n \in Nat /\ st[0].page = pg /\ \A i \in 0 .. n : Moving(pg, st[i], i)
    BY CompactMoves
  <2>2. pg.freeEnd \in 0 .. PageSize
    BY DEF PageOK, Page
  <2>3. \A i \in 0 .. (n - 1) : st[i + 1] = MoveSlot(st[i], i)
    BY <2>1, CompactStepsExist
  <2>4. SlotIds(pg) = 0 .. (n - 1) /\ n \in 0 .. n
    BY <2>1 DEF SlotIds
  <2> QED BY <2>1, <2>2, <2>3, <2>4
<1> HIDE DEF st
<1>2. w = [slots |-> st[n].page.slots, freeEnd |-> st[n].dest, bytes |-> st[n].page.bytes]
  <2>1. Moving(pg, st[n], n)
    BY <1>1
  <2> QED BY <2>1 DEF Compacted, Moving, st
<1>3. 0 \in T
  <2>1. Copied(pg, st[0], 0)
    <3>1. 0 .. (0 - 1) = {}
      OBVIOUS
    <3> QED BY <1>1, <3>1 DEF Copied
  <2> QED BY <1>1, <2>1
<1>4. ASSUME NEW i \in 0 .. (n - 1), i \in T PROVE i + 1 \in T
  <2>1. i \in SlotIds(pg) /\ i \in 0 .. n /\ i + 1 \in 0 .. n
    BY <1>1
  <2>2. Moving(pg, st[i], i) /\ Moving(pg, st[i + 1], i + 1) /\ st[i + 1] = MoveSlot(st[i], i)
    BY <1>1, <2>1
  <2>3. st[i].dest <= st[i + 1].dest
    BY <2>1, <2>2, SlotMoves
  <2>4. ASSUME st[i + 1].dest <= pg.freeEnd PROVE Copied(pg, st[i + 1], i + 1)
    <3>1. st[i].dest <= pg.freeEnd
      BY <1>1, <2>2, <2>3, <2>4, PageConstants DEF Moving
    <3>2. Copied(pg, st[i], i)
      BY <1>4, <3>1
    <3> QED BY <2>1, <2>2, <2>4, <3>2, RecordIsCopied
  <2> QED BY <2>1, <2>4
<1>5. \A i \in 0 .. n : i \in T
  <2> HIDE DEF T
  <2> QED BY <1>1, <1>3, <1>4, Induction
<1> HIDE DEF w
<1>6. w.slots = st[n].page.slots /\ w.freeEnd = st[n].dest /\ w.bytes = st[n].page.bytes
  BY <1>2
<1>7. Copied(pg, st[n], n) /\ Moving(pg, st[n], n)
  <2>1. st[n].dest <= pg.freeEnd
    BY <1>6 DEF w
  <2> QED BY <1>1, <1>5, <2>1
<1>8. SlotCount(w) = n /\ SlotIds(w) = SlotIds(pg)
      /\ \A r : ReadSlot(w, r) = ReadSlot(st[n].page, r)
  BY <1>6, <1>7 DEF Moving, SlotCount, SlotIds, ReadSlot
<1>9. \A r \in SlotIds(pg) :
        /\ ReadSlot(w, r).len = ReadSlot(pg, r).len
        /\ ReadSlot(w, r).len # 0 =>
             \A o \in Extent(ReadSlot(w, r).off, ReadSlot(w, r).len) : w.bytes[o] = r
  BY <1>1, <1>6, <1>7, <1>8 DEF Copied
<1>10. ASSUME NEW r \in SlotIds(w), IsLive(w, r)
       PROVE  Get(w, r) = [k \in 1 .. ReadSlot(w, r).len |-> r]
  <2> DEFINE off == ReadSlot(w, r).off
             len == ReadSlot(w, r).len
  <2>1. off \in Nat /\ len \in Nat
    <3>1. Len(w.slots) = n /\ w.slots \in Seq([off : Nat, len : Lengths]) /\ r + 1 \in 1 .. n
      <4>1. Len(w.slots) = n
        BY <1>8 DEF SlotCount
      <4>2. w.slots \in Seq([off : Nat, len : Lengths])
        BY <1>6, <1>7 DEF Moving
      <4>3. r \in 0 .. (n - 1) /\ n \in Nat
        BY <1>1, <1>8
      <4>4. r + 1 \in 1 .. n
        <5> HIDE DEF n
        <5> QED BY <4>3
      <4> QED BY <4>1, <4>2, <4>4
    <3> DEFINE S == [off : Nat, len : Lengths]
    <3> HIDE DEF n, S
    <3>2. w.slots[r + 1] \in S
      BY <3>1, ElementOfSeq DEF S
    <3> QED BY <3>2, PageConstants DEF ReadSlot, Lengths, S
  <2>2. len # 0
    BY <1>10 DEF IsLive
  <2>3. \A o \in Extent(off, len) : w.bytes[o] = r
    BY <1>8, <1>9, <2>2
  <2> HIDE DEF off, len
  <2>4. \A k \in 1 .. len : off + k - 1 \in Extent(off, len)
    BY <2>1 DEF Extent
  <2> QED BY <2>3, <2>4 DEF Get, off, len
<1> QED BY <1>8, <1>9, <1>10 DEF ReadsBack, w

-----------------------------------------------------------------------------
\* Buckets.

\* A bucket is a number, below BucketCount for an amount of space below a page's.
LEMMA BucketsOrdered ==
  ASSUME NEW a \in Nat, NEW b \in Nat, a <= b
  PROVE  /\ BucketOf(a) \in Nat /\ BucketOf(a) <= BucketOf(b)
         /\ a < PageSize => BucketOf(a) \in Buckets
<1> DEFINE i == BucketOf(a)
           j == BucketOf(b)
<1>1. i \in Int /\ j \in Int /\ BucketSize \in Nat \ {0} /\ BucketCount \in Nat \ {0}
  BY BucketConstants DEF BucketOf
<1>2. /\ BucketSize * i <= a /\ a < BucketSize * i + BucketSize
      /\ BucketSize * j <= b /\ b < BucketSize * j + BucketSize
  BY <1>1 DEF BucketOf
<1> HIDE DEF i, j
<1>3. i >= 0
  <2> SUFFICES ASSUME i <= -1 PROVE FALSE
    BY <1>1
  <2>1. BucketSize * i <= -BucketSize
    BY <1>1
  <2> QED BY <1>1, <1>2, <2>1
<1>4. i <= j
  <2> SUFFICES ASSUME j + 1 <= i PROVE FALSE
    BY <1>1
  <2>1. BucketSize * (j + 1) <= BucketSize * i /\ BucketSize * (j + 1) = BucketSize * j + BucketSize
    BY <1>1
  <2> QED BY <1>1, <1>2, <2>1
<1>5. ASSUME a < PageSize PROVE i < BucketCount
  <2> SUFFICES ASSUME BucketCount <= i PROVE FALSE
    BY <1>1
  <2>1. BucketSize * BucketCount <= BucketSize * i
    BY <1>1
  <2>2. BucketSize * BucketCount \in Int /\ BucketSize * i \in Int
    BY <1>1
  <2> QED BY <1>2, <1>5, <2>1, <2>2, HeapConstants
<1> QED BY <1>1, <1>3, <1>4, <1>5 DEF i, j, Buckets

-----------------------------------------------------------------------------
\* The tree.

\* A node and its parent.
LEMMA ParentsAndChildren ==
  ASSUME NEW n \in Nat
  PROVE  /\ Parent(n) \in Int /\ Parent(n) >= -1 /\ Parent(n) < n
         /\ n > 0 => Parent(n) \in Nat /\ (n = Left(Parent(n)) \/ n = Right(Parent(n)))
         /\ Parent(Left(n)) = n /\ Parent(Right(n)) = n
         /\ Left(n) \in Nat /\ Right(n) \in Nat /\ Left(n) > n /\ Right(n) > n
         /\ Left(n) # Right(n)
         /\ Parent(0) = -1 /\ Parent(-1) = -1
<1>1. Parent(n) \in Int /\ Parent(n) >= -1 /\ Parent(n) < n
  BY DEF Parent
<1>2. n > 0 => Parent(n) \in Nat /\ (n = Left(Parent(n)) \/ n = Right(Parent(n)))
  BY DEF Parent, Left, Right
<1>3. Parent(Left(n)) = n /\ Parent(Right(n)) = n
  BY DEF Parent, Left, Right
<1>4. /\ Left(n) \in Nat /\ Right(n) \in Nat /\ Left(n) > n /\ Right(n) > n
      /\ Left(n) # Right(n)
  BY DEF Left, Right
<1>5. \A x \in {0, -1} : Parent(x) = -1
  <2>1. \A x \in Int : x \in {0, -1} => (x - 1) \div 2 = -1
    OBVIOUS
  <2> QED BY <2>1 DEF Parent
<1> QED BY <1>1, <1>2, <1>3, <1>4, <1>5

\* An inner node has both children, a node with a child is an inner node.
LEMMA InnerNodes ==
  ASSUME NEW c \in Nat \ {0}, NEW n \in Nodes(c)
  PROVE  /\ n \in Nat /\ c \in Nat
         /\ ~IsLeaf(c, n) => Left(n) \in Nodes(c) /\ Right(n) \in Nodes(c)
         /\ Left(n) \in Nodes(c) => ~IsLeaf(c, n)
         /\ Right(n) \in Nodes(c) => ~IsLeaf(c, n)
         /\ n > 0 => Parent(n) \in Nodes(c) /\ ~IsLeaf(c, Parent(n))
BY DEF Nodes, IsLeaf, Left, Right, Parent

\* The leaf of a page.
LEMMA Leaves ==
  ASSUME NEW c \in Nat \ {0}, NEW p \in 0 .. (c - 1)
  PROVE  /\ Leaf(c, p) \in Nodes(c) /\ IsLeaf(c, Leaf(c, p))
         /\ \A q \in 0 .. (c - 1) : Leaf(c, q) = Leaf(c, p) => q = p
BY DEF Leaf, Nodes, IsLeaf

\* Above is the function its definition describes.
LEMMA AboveExists ==
  ASSUME NEW n \in Nat
  PROVE  /\ Above(n)[0] = n
         /\ \A i \in 0 .. (n - 1) : Above(n)[i + 1] = Parent(Above(n)[i])
<1> DEFINE Is(f, k) == f = [i \in 0 .. k |-> IF i = 0 THEN n ELSE Parent(f[i - 1])]
           T == {k \in 0 .. n : \E f : Is(f, k)}
<1>1. 0 \in T
  <2>1. Is([i \in 0 .. 0 |-> n], 0)
    OBVIOUS
  <2> HIDE DEF Is
  <2> QED BY <2>1
<1>2. ASSUME NEW k \in 0 .. (n - 1), k \in T PROVE k + 1 \in T
  <2>1. PICK f : Is(f, k)
    BY <1>2
  <2> DEFINE g == [i \in 0 .. (k + 1) |-> IF i <= k THEN f[i] ELSE Parent(f[k])]
  <2>2. ASSUME NEW i \in 0 .. (k + 1)
        PROVE  g[i] = IF i = 0 THEN n ELSE Parent(g[i - 1])
    <3>1. CASE i = 0
      BY <2>1, <3>1
    <3>2. CASE i \in 1 .. k
      <4>1. f[i] = Parent(f[i - 1])
        BY <2>1, <3>2
      <4>2. g[i] = f[i] /\ g[i - 1] = f[i - 1]
        BY <3>2
      <4> QED BY <3>2, <4>1, <4>2
    <3>3. CASE i = k + 1
      <4>1. g[i] = Parent(f[k]) /\ g[k] = f[k] /\ i - 1 = k /\ i # 0
        BY <3>3
      <4> QED BY <4>1
    <3> QED BY <3>1, <3>2, <3>3
  <2>3. Is(g, k + 1)
    <3>1. g = [i \in 0 .. (k + 1) |-> g[i]]
      OBVIOUS
    <3> HIDE DEF g
    <3> QED BY <2>2, <3>1
  <2> HIDE DEF g, Is
  <2> QED BY <2>3
<1>3. n \in T
  <2> HIDE DEF T
  <2> QED BY <1>1, <1>2, Induction
<1>4. Above(n) = CHOOSE f : Is(f, n)
  BY DEF Above
<1>5. Is(Above(n), n)
  <2> HIDE DEF Is
  <2> QED BY <1>3, <1>4
<1>6. \A i \in 0 .. n : Above(n)[i] = IF i = 0 THEN n ELSE Parent(Above(n)[i - 1])
  BY <1>5
<1>7. ASSUME NEW i \in 0 .. (n - 1) PROVE Above(n)[i + 1] = Parent(Above(n)[i])
  <2>1. i + 1 \in 0 .. n /\ i + 1 # 0 /\ (i + 1) - 1 = i
    OBVIOUS
  <2> QED BY <1>6, <2>1
<1> QED BY <1>6, <1>7

\* k steps up from n the path is above the root or at n - k at most.
LEMMA AboveClimbs ==
  ASSUME NEW n \in Nat
  PROVE  \A k \in 0 .. n : Above(n)[k] \in -1 .. (n - k)
<1> DEFINE T == {k \in 0 .. n : Above(n)[k] \in -1 .. (n - k)}
<1>1. 0 \in T
  BY AboveExists
<1>2. ASSUME NEW k \in 0 .. (n - 1), k \in T PROVE k + 1 \in T
  <2>1. Above(n)[k] \in -1 .. (n - k) /\ Above(n)[k + 1] = Parent(Above(n)[k])
    BY <1>2, AboveExists
  <2>2. CASE Above(n)[k] = -1
    <3>1. Above(n)[k + 1] = -1
      BY <2>1, <2>2, ParentsAndChildren
    <3> QED BY <3>1
  <2>3. CASE Above(n)[k] \in Nat
    <3>1. Above(n)[k + 1] \in Int /\ Above(n)[k + 1] >= -1 /\ Above(n)[k + 1] < Above(n)[k]
      BY <2>1, <2>3, ParentsAndChildren
    <3> QED BY <2>1, <2>3, <3>1
  <2> QED BY <2>1, <2>2, <2>3
<1>3. \A k \in 0 .. n : k \in T
  <2> HIDE DEF T
  <2> QED BY <1>1, <1>2, Induction
<1> QED BY <1>3

\* Recomputed is the function its definition describes.
LEMMA RecomputedExists ==
  ASSUME NEW tr, NEW n \in Nat
  PROVE  /\ Recomputed(tr, n)[0] = tr
         /\ \A i \in 0 .. (n - 1) :
              Recomputed(tr, n)[i + 1] =
                IF Above(n)[i + 1] < 0 THEN Recomputed(tr, n)[i]
                ELSE RecomputeNode(Recomputed(tr, n)[i], Above(n)[i + 1])
<1> DEFINE Then(t, i) == IF Above(n)[i] < 0 THEN t ELSE RecomputeNode(t, Above(n)[i])
           Is(f, k) == f = [i \in 0 .. k |-> IF i = 0 THEN tr ELSE Then(f[i - 1], i)]
           T == {k \in 0 .. n : \E f : Is(f, k)}
<1>4. Recomputed(tr, n) = CHOOSE f : Is(f, n)
  BY DEF Recomputed
<1> HIDE DEF Then
<1>1. 0 \in T
  <2>1. Is([i \in 0 .. 0 |-> tr], 0)
    OBVIOUS
  <2> HIDE DEF Is
  <2> QED BY <2>1
<1>2. ASSUME NEW k \in 0 .. (n - 1), k \in T PROVE k + 1 \in T
  <2>1. PICK f : Is(f, k)
    BY <1>2
  <2> DEFINE g == [i \in 0 .. (k + 1) |-> IF i <= k THEN f[i] ELSE Then(f[k], k + 1)]
  <2>2. ASSUME NEW i \in 0 .. (k + 1)
        PROVE  g[i] = IF i = 0 THEN tr ELSE Then(g[i - 1], i)
    <3>1. CASE i = 0
      BY <2>1, <3>1
    <3>2. CASE i \in 1 .. k
      <4>1. f[i] = Then(f[i - 1], i)
        BY <2>1, <3>2
      <4>2. g[i] = f[i] /\ g[i - 1] = f[i - 1]
        BY <3>2
      <4> QED BY <3>2, <4>1, <4>2
    <3>3. CASE i = k + 1
      <4>1. g[i] = Then(f[k], i) /\ g[k] = f[k] /\ i - 1 = k /\ i # 0
        BY <3>3
      <4> QED BY <4>1
    <3> QED BY <3>1, <3>2, <3>3
  <2>3. Is(g, k + 1)
    <3>1. g = [i \in 0 .. (k + 1) |-> g[i]]
      OBVIOUS
    <3> HIDE DEF g
    <3> QED BY <2>2, <3>1
  <2> HIDE DEF g, Is
  <2> QED BY <2>3
<1>3. n \in T
  <2> HIDE DEF T
  <2> QED BY <1>1, <1>2, Induction
<1>5. Is(Recomputed(tr, n), n)
  <2> HIDE DEF Is
  <2> QED BY <1>3, <1>4
<1>6. \A i \in 0 .. n :
        Recomputed(tr, n)[i] = IF i = 0 THEN tr ELSE Then(Recomputed(tr, n)[i - 1], i)
  BY <1>5
<1>7. ASSUME NEW i \in 0 .. (n - 1)
      PROVE  Recomputed(tr, n)[i + 1] = Then(Recomputed(tr, n)[i], i + 1)
  <2>1. i + 1 \in 0 .. n /\ i + 1 # 0 /\ (i + 1) - 1 = i
    OBVIOUS
  <2> QED BY <1>6, <2>1
<1>8. Recomputed(tr, n)[0] = tr
  BY <1>6
<1> QED BY <1>7, <1>8 DEF Then

\* Every inner node but one holds the greatest bucket of its children.
MaxTreeBut(c, tr, but) ==
  \A m \in Nodes(c) : ~IsLeaf(c, m) /\ m # but => tr[m].max = GreaterChild(tr, m)

\* The leaves of two maps are the same.
SameLeaves(c, tr, old) == \A m \in Nodes(c) : IsLeaf(c, m) => tr[m] = old[m]

\* One node is recomputed: the exception moves to its parent.
LEMMA NodeRecomputed ==
  ASSUME NEW c \in Nat \ {0}, NEW tr \in Map(c), NEW a \in Nodes(c), ~IsLeaf(c, a),
         MaxTreeBut(c, tr, a), NEW new, new = RecomputeNode(tr, a)
  PROVE  new \in Map(c) /\ MaxTreeBut(c, new, Parent(a)) /\ SameLeaves(c, new, tr)
<1>1. tr \in [Nodes(c) -> Node] /\ a \in Nat
      /\ Left(a) \in Nodes(c) /\ Right(a) \in Nodes(c) /\ Left(a) # a /\ Right(a) # a
  BY InnerNodes, ParentsAndChildren DEF Map
<1> DEFINE g == GreaterChild(tr, a)
<1>2. g \in Buckets \cup {NoBucket}
  BY <1>1 DEF GreaterChild, Node
<1> HIDE DEF g
<1>3. new = [tr EXCEPT ![a] = [tr[a] EXCEPT !.max = g]]
  BY <1>1 DEF RecomputeNode, g
<1>4. [tr[a] EXCEPT !.max = g] \in Node /\ [tr[a] EXCEPT !.max = g].max = g
  BY <1>1, <1>2 DEF Node
<1>5. /\ new \in [Nodes(c) -> Node] /\ new[a].max = g
      /\ \A m \in Nodes(c) : m # a => new[m] = tr[m]
  BY <1>1, <1>3, <1>4
<1>6. ASSUME NEW m \in Nodes(c), ~IsLeaf(c, m), m # Parent(a)
      PROVE  new[m].max = GreaterChild(new, m)
  <2>1. Left(m) \in Nodes(c) /\ Right(m) \in Nodes(c) /\ Left(m) # a /\ Right(m) # a
    BY <1>6, InnerNodes, ParentsAndChildren
  <2>2. GreaterChild(new, m) = GreaterChild(tr, m)
    BY <1>5, <2>1 DEF GreaterChild
  <2>3. CASE m = a
    BY <1>5, <2>2, <2>3 DEF g
  <2>4. CASE m # a
    BY <1>5, <1>6, <2>2, <2>4 DEF MaxTreeBut
  <2> QED BY <2>3, <2>4
<1>7. SameLeaves(c, new, tr)
  BY <1>5 DEF SameLeaves
<1> QED BY <1>5, <1>6, <1>7 DEF Map, MaxTreeBut

\* recompute_ancestors makes a tree of maxima of one that is right but for the parent
\* of the node it starts at, and leaves the leaves alone.
LEMMA AncestorsRecomputed ==
  ASSUME NEW c \in Nat \ {0}, NEW tr \in Map(c), NEW n \in Nodes(c),
         MaxTreeBut(c, tr, Parent(n))
  PROVE  /\ RecomputeAncestors(tr, n) \in Map(c)
         /\ IsMaxTree(c, RecomputeAncestors(tr, n))
         /\ SameLeaves(c, RecomputeAncestors(tr, n), tr)
<1> DEFINE up == Above(n)
           st == Recomputed(tr, n)
           T  == {k \in 0 .. n : /\ st[k] \in Map(c) /\ MaxTreeBut(c, st[k], Parent(up[k]))
                                 /\ SameLeaves(c, st[k], tr)}
<1>1. n \in Nat /\ 2 * c - 2 \in Nat /\ n <= 2 * c - 2
  BY DEF Nodes
<1>2. /\ up[0] = n /\ st[0] = tr
      /\ \A k \in 0 .. n : up[k] \in -1 .. (n - k)
      /\ \A k \in 0 .. (n - 1) : /\ up[k + 1] = Parent(up[k])
                                 /\ st[k + 1] = IF up[k + 1] < 0 THEN st[k]
                                                ELSE RecomputeNode(st[k], up[k + 1])
  BY <1>1, AboveExists, AboveClimbs, RecomputedExists
<1> HIDE DEF up, st
<1>3. 0 \in T
  BY <1>1, <1>2 DEF SameLeaves
<1>4. ASSUME NEW k \in 0 .. (n - 1), k \in T PROVE k + 1 \in T
  <2>1. /\ st[k] \in Map(c) /\ MaxTreeBut(c, st[k], up[k + 1]) /\ SameLeaves(c, st[k], tr)
        /\ up[k] \in -1 .. (n - k) /\ up[k + 1] = Parent(up[k])
        /\ up[k + 1] \in -1 .. (n - (k + 1)) /\ k + 1 \in 0 .. n
    BY <1>1, <1>2, <1>4
  <2>2. CASE up[k + 1] < 0
    <3>1. st[k + 1] = st[k] /\ up[k + 1] = -1 /\ Parent(up[k + 1]) = -1
      BY <1>2, <2>1, <2>2, ParentsAndChildren
    <3> QED BY <2>1, <3>1
  <2>3. CASE up[k + 1] >= 0
    <3>1. st[k + 1] = RecomputeNode(st[k], up[k + 1])
      BY <1>2, <2>1, <2>3
    <3>2. up[k] \in Nodes(c) /\ up[k] > 0
      <4>1. up[k] # -1 /\ up[k] # 0
        BY <2>1, <2>3, ParentsAndChildren
      <4> QED BY <1>1, <2>1, <4>1 DEF Nodes
    <3>3. up[k + 1] \in Nodes(c) /\ ~IsLeaf(c, up[k + 1])
      BY <2>1, <3>2, InnerNodes
    <3>4. /\ st[k + 1] \in Map(c) /\ MaxTreeBut(c, st[k + 1], Parent(up[k + 1]))
          /\ SameLeaves(c, st[k + 1], st[k])
      BY <2>1, <3>1, <3>3, NodeRecomputed
    <3>5. SameLeaves(c, st[k + 1], tr)
      BY <2>1, <3>4 DEF SameLeaves
    <3> QED BY <2>1, <3>4, <3>5
  <2> QED BY <2>1, <2>2, <2>3
<1>5. n \in T
  <2> HIDE DEF T
  <2> QED BY <1>1, <1>3, <1>4, Induction
<1>6. /\ st[n] \in Map(c) /\ MaxTreeBut(c, st[n], Parent(up[n])) /\ SameLeaves(c, st[n], tr)
  BY <1>5
<1>7. Parent(up[n]) = -1
  <2>1. up[n] = -1 \/ up[n] = 0
    BY <1>1, <1>2
  <2> QED BY <2>1, ParentsAndChildren
<1>8. IsMaxTree(c, st[n])
  BY <1>1, <1>6, <1>7 DEF IsMaxTree, MaxTreeBut, Nodes
<1> QED BY <1>6, <1>8 DEF st, RecomputeAncestors

\* A leaf is written and its ancestors are recomputed.
LEMMA LeafWritten ==
  ASSUME NEW c \in Nat \ {0}, NEW tr \in Map(c), IsMaxTree(c, tr), NEW p \in 0 .. (c - 1),
         NEW v \in Node,
         NEW new, new = RecomputeAncestors([tr EXCEPT ![Leaf(c, p)] = v], Leaf(c, p))
  PROVE  /\ new \in Map(c) /\ IsMaxTree(c, new)
         /\ new[Leaf(c, p)] = v
         /\ \A q \in 0 .. (c - 1) : q # p => new[Leaf(c, q)] = tr[Leaf(c, q)]
<1> DEFINE n   == Leaf(c, p)
           mid == [tr EXCEPT ![n] = v]
<1>1. n \in Nodes(c) /\ IsLeaf(c, n) /\ \A q \in 0 .. (c - 1) : Leaf(c, q) = n => q = p
  BY Leaves
<1>2. \A q \in 0 .. (c - 1) : Leaf(c, q) \in Nodes(c) /\ IsLeaf(c, Leaf(c, q))
  BY Leaves
<1> HIDE DEF n
<1>3. mid \in Map(c) /\ mid[n] = v /\ \A m \in Nodes(c) : m # n => mid[m] = tr[m]
  BY <1>1 DEF Map
<1> HIDE DEF mid
<1>4. MaxTreeBut(c, mid, Parent(n))
  <2> SUFFICES ASSUME NEW m \in Nodes(c), ~IsLeaf(c, m), m # Parent(n)
               PROVE  mid[m].max = GreaterChild(mid, m)
    BY DEF MaxTreeBut
  <2>1. /\ Left(m) \in Nodes(c) /\ Right(m) \in Nodes(c) /\ Left(m) # n /\ Right(m) # n
        /\ m # n
    BY <1>1, InnerNodes, ParentsAndChildren
  <2>2. GreaterChild(mid, m) = GreaterChild(tr, m) /\ mid[m] = tr[m]
    BY <1>3, <2>1 DEF GreaterChild
  <2> QED BY <2>2 DEF IsMaxTree
<1>5. new \in Map(c) /\ IsMaxTree(c, new) /\ SameLeaves(c, new, mid)
  <2>1. new = RecomputeAncestors(mid, n)
    BY DEF mid, n
  <2> QED BY <1>1, <1>3, <1>4, <2>1, AncestorsRecomputed
<1>6. \A q \in 0 .. (c - 1) : q # p => Leaf(c, q) # n
  BY <1>1
<1> QED BY <1>1, <1>2, <1>3, <1>5, <1>6 DEF SameLeaves, n

\* register_page and update_page: the page's leaf gets the bucket, and the tree stays right.
LEMMA MapUpdated ==
  ASSUME NEW c \in Nat \ {0}, NEW tr \in Map(c), IsMaxTree(c, tr), NEW p \in 0 .. (c - 1),
         NEW space \in Nat, space < PageSize,
         NEW new, \/ new = RegisterPage(c, tr, p, space)
                  \/ new = UpdatePage(c, tr, p, space) /\ tr[Leaf(c, p)].page = p
  PROVE  /\ new \in Map(c) /\ IsMaxTree(c, new)
         /\ new[Leaf(c, p)] = [max |-> BucketOf(space), page |-> p]
         /\ \A q \in 0 .. (c - 1) : q # p => new[Leaf(c, q)] = tr[Leaf(c, q)]
<1> DEFINE v == [max |-> BucketOf(space), page |-> p]
<1>1. BucketOf(space) \in Buckets /\ p \in Nat /\ Leaf(c, p) \in Nodes(c)
  BY BucketsOrdered, Leaves
<1>2. v \in Node
  BY <1>1 DEF Node
<1>3. tr[Leaf(c, p)] \in Node
  BY <1>1 DEF Map
<1>4. new = RecomputeAncestors([tr EXCEPT ![Leaf(c, p)] = v], Leaf(c, p))
  <2>1. CASE new = RegisterPage(c, tr, p, space)
    BY <2>1 DEF RegisterPage
  <2>2. CASE new = UpdatePage(c, tr, p, space) /\ tr[Leaf(c, p)].page = p
    <3>1. [tr[Leaf(c, p)] EXCEPT !.max = BucketOf(space)] = v
      BY <1>3, <2>2 DEF Node
    <3>2. [tr EXCEPT ![Leaf(c, p)].max = BucketOf(space)] = [tr EXCEPT ![Leaf(c, p)] = v]
      <4> HIDE DEF v
      <4> QED BY <3>1
    <3> HIDE DEF v
    <3> QED BY <2>2, <3>2 DEF UpdatePage
  <2> QED BY <2>1, <2>2
<1> HIDE DEF v
<1>5. /\ new \in Map(c) /\ IsMaxTree(c, new) /\ new[Leaf(c, p)] = v
      /\ \A q \in 0 .. (c - 1) : q # p => new[Leaf(c, q)] = tr[Leaf(c, q)]
  <2>1. new \in Map(c)
    BY <1>2, <1>4, LeafWritten
  <2>2. IsMaxTree(c, new)
    BY <1>2, <1>4, LeafWritten
  <2>3. new[Leaf(c, p)] = v
    BY <1>2, <1>4, LeafWritten
  <2>4. \A q \in 0 .. (c - 1) : q # p => new[Leaf(c, q)] = tr[Leaf(c, q)]
    BY <1>2, <1>4, LeafWritten
  <2> QED BY <2>1, <2>2, <2>3, <2>4
<1> QED BY <1>5 DEF v

-----------------------------------------------------------------------------
\* The search.

\* Paths is the function its definition describes.
LEMMA PathsExist ==
  ASSUME NEW c \in Nat \ {0}
  PROVE  /\ Paths(c)[0] = {0}
         /\ \A n \in Nodes(c) \ {0} : Paths(c)[n] = {n} \cup Paths(c)[Parent(n)]
<1> DEFINE N == 2 * c - 2
           Is(f, k) == f = [n \in 0 .. k |-> IF n = 0 THEN {0} ELSE {n} \cup f[Parent(n)]]
           T == {k \in 0 .. N : \E f : Is(f, k)}
<1>0. N \in Nat /\ Nodes(c) = 0 .. N
  BY DEF Nodes
<1>4. Paths(c) = CHOOSE f : Is(f, N)
  BY <1>0 DEF Paths
<1> HIDE DEF N
<1>1. 0 \in T
  <2>1. Is([n \in 0 .. 0 |-> {0}], 0)
    OBVIOUS
  <2> HIDE DEF Is
  <2> QED BY <1>0, <2>1
<1>2. ASSUME NEW k \in 0 .. (N - 1), k \in T PROVE k + 1 \in T
  <2>1. PICK f : Is(f, k)
    BY <1>2
  <2> DEFINE g == [n \in 0 .. (k + 1) |->
                     IF n <= k THEN f[n] ELSE {k + 1} \cup f[Parent(k + 1)]]
  <2>2. ASSUME NEW n \in 0 .. (k + 1)
        PROVE  g[n] = IF n = 0 THEN {0} ELSE {n} \cup g[Parent(n)]
    <3>1. CASE n = 0
      BY <1>0, <2>1, <3>1
    <3>2. CASE n # 0
      <4>1. Parent(n) \in 0 .. k
        <5>1. n \in Nat /\ n > 0 /\ n <= k + 1 /\ k \in Nat
          BY <1>0, <3>2
        <5>2. Parent(n) \in Nat /\ Parent(n) < n
          BY <5>1, ParentsAndChildren
        <5> QED BY <5>1, <5>2
      <4>2. g[Parent(n)] = f[Parent(n)]
        BY <1>0, <4>1
      <4>3. n \in 1 .. k => g[n] = f[n] /\ f[n] = {n} \cup f[Parent(n)]
        <5>1. n \in 1 .. k => g[n] = f[n]
          BY <1>0
        <5>2. n \in 1 .. k => n \in 0 .. k /\ n # 0
          BY <1>0
        <5>3. n \in 0 .. k => f[n] = IF n = 0 THEN {0} ELSE {n} \cup f[Parent(n)]
          BY <2>1
        <5> HIDE DEF g
        <5> QED BY <5>1, <5>2, <5>3
      <4>4. n = k + 1 => g[n] = {n} \cup f[Parent(n)]
        BY <1>0
      <4>5. n \in 1 .. k \/ n = k + 1
        BY <1>0, <3>2
      <4> HIDE DEF g
      <4> QED BY <3>2, <4>2, <4>3, <4>4, <4>5
    <3> QED BY <3>1, <3>2
  <2>3. Is(g, k + 1)
    <3>1. g = [n \in 0 .. (k + 1) |-> g[n]]
      OBVIOUS
    <3> HIDE DEF g
    <3> QED BY <2>2, <3>1
  <2>4. k + 1 \in 0 .. N
    BY <1>0
  <2> HIDE DEF g, Is
  <2> QED BY <2>3, <2>4
<1>3. N \in T
  <2> HIDE DEF T
  <2> QED BY SMTT(30), <1>0, <1>1, <1>2, Induction
<1>5. Is(Paths(c), N)
  <2> HIDE DEF Is
  <2> QED BY <1>3, <1>4
<1>6. \A n \in 0 .. N : Paths(c)[n] = IF n = 0 THEN {0} ELSE {n} \cup Paths(c)[Parent(n)]
  BY <1>5
<1>7. Paths(c)[0] = {0}
  <2>1. 0 \in 0 .. N
    BY <1>0
  <2> QED BY <1>6, <2>1
<1>8. \A n \in Nodes(c) \ {0} : Paths(c)[n] = {n} \cup Paths(c)[Parent(n)]
  <2> SUFFICES ASSUME NEW n \in 0 .. N, n # 0
               PROVE  Paths(c)[n] = {n} \cup Paths(c)[Parent(n)]
    BY <1>0
  <2> QED BY <1>6
<1> QED BY <1>7, <1>8

\* A path goes from a node up to the root, along parents and down along children.
LEMMA PathsClimb ==
  ASSUME NEW c \in Nat \ {0}, NEW m \in Nodes(c)
  PROVE  /\ m \in Paths(c)[m] /\ 0 \in Paths(c)[m]
         /\ \A a \in Paths(c)[m] :
              /\ a \in Nodes(c)
              /\ a # 0 => Parent(a) \in Paths(c)[m]
              /\ a # m => ~IsLeaf(c, a) /\ (Left(a) \in Paths(c)[m] \/ Right(a) \in Paths(c)[m])
<1> DEFINE path == Paths(c)
           N == 2 * c - 2
           Good(n) == /\ n \in path[n] /\ 0 \in path[n]
                      /\ \A a \in path[n] :
                           /\ a \in Nodes(c)
                           /\ a # 0 => Parent(a) \in path[n]
                           /\ a # n => ~IsLeaf(c, a) /\ (Left(a) \in path[n] \/ Right(a) \in path[n])
           Bad == {n \in Nodes(c) : ~Good(n)}
<1>1. path[0] = {0} /\ \A n \in Nodes(c) \ {0} : path[n] = {n} \cup path[Parent(n)]
  BY PathsExist
<1>2. N \in Nat /\ Nodes(c) = 0 .. N
  BY DEF Nodes
<1> HIDE DEF path, N
<1>3. SUFFICES ASSUME Bad # {} PROVE FALSE
  BY DEF path
<1>4. PICK n \in Bad : \A k \in Bad : n <= k
  <2>1. Bad \in SUBSET Nat
    BY <1>2
  <2> HIDE DEF Bad
  <2> QED BY <1>3, <2>1, LeastNumber
<1>5. n \in Nodes(c) /\ ~Good(n)
  BY <1>4
<1>6. n # 0
  <2>1. 0 \in Nodes(c)
    BY <1>2
  <2>2. Good(0)
    BY <1>1, <2>1
  <2> HIDE DEF Good
  <2> QED BY <1>5, <2>2
<1>7. /\ n \in Nat /\ Parent(n) \in Nodes(c) /\ ~IsLeaf(c, Parent(n)) /\ Parent(n) < n
      /\ n = Left(Parent(n)) \/ n = Right(Parent(n))
  <2>1. n \in Nat /\ n > 0
    BY <1>2, <1>5, <1>6
  <2>2. Parent(n) \in Nodes(c) /\ ~IsLeaf(c, Parent(n))
    BY <1>5, <2>1, InnerNodes
  <2>3. Parent(n) < n /\ (n = Left(Parent(n)) \/ n = Right(Parent(n)))
    BY <2>1, ParentsAndChildren
  <2> QED BY <2>1, <2>2, <2>3
<1>8. Good(Parent(n))
  <2>1. Parent(n) \notin Bad
    BY <1>2, <1>4, <1>7
  <2> HIDE DEF Good
  <2> QED BY <1>7, <2>1
<1>9. path[n] = {n} \cup path[Parent(n)]
  BY <1>1, <1>5, <1>6
<1>10. Good(n)
  <2>1. n \in path[n] /\ 0 \in path[n]
    BY <1>8, <1>9
  <2>2. ASSUME NEW a \in path[n]
        PROVE  /\ a \in Nodes(c)
               /\ a # 0 => Parent(a) \in path[n]
               /\ a # n => ~IsLeaf(c, a) /\ (Left(a) \in path[n] \/ Right(a) \in path[n])
    <3>1. CASE a = n
      BY <1>5, <1>8, <1>9, <3>1
    <3>2. CASE a = Parent(n)
      BY <1>7, <1>8, <1>9, <3>2
    <3>3. CASE a # n /\ a # Parent(n)
      BY <1>8, <1>9, <3>3
    <3> QED BY <3>1, <3>2, <3>3
  <2> QED BY <2>1, <2>2
<1> QED BY <1>5, <1>10

\* What find_page_recursive returns for each node.
IsSearch(c, tr, b, ex, f) ==
  \A n \in Nodes(c) :
    f[n] = IF tr[n].max < b THEN NoPage
           ELSE IF IsLeaf(c, n) THEN IF tr[n].page \in ex THEN NoPage ELSE tr[n].page
                ELSE IF f[Left(n)] # NoPage THEN f[Left(n)] ELSE f[Right(n)]

\* Finds is the function its definition describes; it is made from the leaves up.
LEMMA FindsExist ==
  ASSUME NEW c \in Nat \ {0}, NEW tr, NEW b, NEW ex, NEW f, f = Finds(c, tr, b, ex)
  PROVE  IsSearch(c, tr, b, ex, f)
<1> DEFINE N == 2 * c - 2
           Body(n, l, r) ==
             IF tr[n].max < b THEN NoPage
             ELSE IF IsLeaf(c, n) THEN IF tr[n].page \in ex THEN NoPage ELSE tr[n].page
                  ELSE IF l # NoPage THEN l ELSE r
           Is(g, k) == g = [n \in k .. N |-> Body(n, g[Left(n)], g[Right(n)])]
           T == {j \in 0 .. (N + 1) : \E g : Is(g, N + 1 - j)}
<1>0. N \in Nat /\ Nodes(c) = 0 .. N
  BY DEF Nodes
<1>4. f = CHOOSE g : Is(g, 0)
  BY <1>0 DEF Finds
<1>5. \A n \in Nodes(c) : IsLeaf(c, n) => \A l, r, l2, r2 : Body(n, l, r) = Body(n, l2, r2)
  OBVIOUS
<1> HIDE DEF N, Body
<1>1. 0 \in T
  <2>1. Is([n \in (N + 1) .. N |-> Body(n, 0, 0)], N + 1)
    BY <1>0
  <2>2. 0 \in 0 .. (N + 1) /\ N + 1 - 0 = N + 1
    BY <1>0
  <2> HIDE DEF Is
  <2> QED BY <2>1, <2>2
<1>2. ASSUME NEW j \in 0 .. N, j \in T PROVE j + 1 \in T
  <2>1. PICK k \in 0 .. N : k = N - j
    BY <1>0
  <2>2. N + 1 - j = k + 1 /\ N + 1 - (j + 1) = k /\ j + 1 \in 0 .. (N + 1)
    BY <1>0, <2>1
  <2>3. PICK g : Is(g, k + 1)
    BY <1>2, <2>2
  <2> DEFINE h == [n \in k .. N |-> IF n > k THEN g[n] ELSE Body(k, g[Left(k)], g[Right(k)])]
  <2>4. ASSUME NEW n \in k .. N PROVE h[n] = Body(n, h[Left(n)], h[Right(n)])
    <3>1. n \in Nodes(c) /\ n \in Nat /\ k \in Nat
      BY <1>0
    <3>2. h[n] = Body(n, g[Left(n)], g[Right(n)])
      <4>1. CASE n > k
        <5>1. n \in (k + 1) .. N /\ h[n] = g[n]
          BY <1>0, <4>1
        <5>2. g[n] = Body(n, g[Left(n)], g[Right(n)])
          BY <2>3, <5>1
        <5> QED BY <5>1, <5>2
      <4>2. CASE n = k
        BY <1>0, <4>2
      <4> QED BY <1>0, <4>1, <4>2
    <3>3. CASE IsLeaf(c, n)
      <4>1. Body(n, g[Left(n)], g[Right(n)]) = Body(n, h[Left(n)], h[Right(n)])
        <5> HIDE DEF h
        <5> QED BY <1>5, <3>1, <3>3
      <4> HIDE DEF h
      <4> QED BY <3>2, <4>1
    <3>4. CASE ~IsLeaf(c, n)
      <4>1. /\ Left(n) \in 0 .. N /\ Right(n) \in 0 .. N /\ Left(n) > n /\ Right(n) > n
        BY <1>0, <3>1, <3>4, InnerNodes, ParentsAndChildren
      <4>2. /\ Left(n) \in k .. N /\ Left(n) > k /\ Right(n) \in k .. N /\ Right(n) > k
        BY <1>0, <3>1, <4>1
      <4>3. h[Left(n)] = g[Left(n)] /\ h[Right(n)] = g[Right(n)]
        BY <4>2
      <4> HIDE DEF h
      <4> QED BY <3>2, <4>3
    <3> QED BY <3>3, <3>4
  <2>5. Is(h, k)
    <3>1. h = [n \in k .. N |-> h[n]]
      OBVIOUS
    <3> HIDE DEF h
    <3> QED BY <2>4, <3>1
  <2> HIDE DEF h, Is
  <2> QED BY <2>2, <2>5
<1>3. N + 1 \in T
  <2>1. N + 1 \in Nat /\ N + 1 \in 0 .. (N + 1) /\ \A j \in 0 .. ((N + 1) - 1) : j \in 0 .. N
    BY <1>0
  <2>2. \A j \in 0 .. ((N + 1) - 1) : j \in T => j + 1 \in T
    <3> HIDE DEF T
    <3> QED BY <1>2, <2>1
  <2> HIDE DEF T
  <2> QED BY <1>1, <2>1, <2>2, Induction
<1>6. \E g : Is(g, 0)
  <2>1. N + 1 - (N + 1) = 0
    BY <1>0
  <2> HIDE DEF Is
  <2> QED BY <1>3, <2>1
<1>7. Is(f, 0)
  <2> HIDE DEF Is
  <2> QED BY <1>4, <1>6
<1>8. \A n \in 0 .. N : f[n] = Body(n, f[Left(n)], f[Right(n)])
  BY <1>7
<1> QED BY <1>0, <1>8 DEF Body, IsSearch

\* Each leaf is a registered page's own or empty.
LeavesOwned(c, tr) ==
  \A p \in 0 .. (c - 1) : /\ tr[Leaf(c, p)].page \in {p, NoPage}
                          /\ tr[Leaf(c, p)].page = NoPage => tr[Leaf(c, p)].max = NoBucket

\* The pages a search may return.
Good(c, tr, b, ex) ==
  {p \in 0 .. (c - 1) : IsRegistered(c, tr, p) /\ tr[Leaf(c, p)].max >= b /\ p \notin ex}

\* What a search finds below a node is a page it may return, with its leaf there.
LEMMA FindsAreGood ==
  ASSUME NEW c \in Nat \ {0}, NEW tr \in Map(c), LeavesOwned(c, tr), NEW b \in Nat, NEW ex,
         NEW f, f = Finds(c, tr, b, ex), NEW n \in Nodes(c), f[n] # NoPage
  PROVE  f[n] \in Good(c, tr, b, ex) /\ n \in Paths(c)[Leaf(c, f[n])]
<1> DEFINE N == 2 * c - 2
           Right1(m) == f[m] \in Good(c, tr, b, ex) /\ m \in Paths(c)[Leaf(c, f[m])]
           Bad == {m \in Nodes(c) : f[m] # NoPage /\ ~Right1(m)}
<1>0. N \in Nat /\ Nodes(c) = 0 .. N
  BY DEF Nodes
<1> HIDE DEF N
<1>1. SUFFICES ASSUME Bad # {} PROVE FALSE
  OBVIOUS
<1>2. PICK m \in Bad : \A k \in Bad : k <= m
  <2>1. Bad \in SUBSET (0 .. N)
    BY <1>0
  <2> HIDE DEF Bad
  <2> QED BY <1>0, <1>1, <2>1, GreatestNumber
<1>3. m \in Nodes(c) /\ m \in Nat /\ f[m] # NoPage /\ ~Right1(m)
  BY <1>0, <1>2
<1>4. f[m] = IF tr[m].max < b THEN NoPage
             ELSE IF IsLeaf(c, m) THEN IF tr[m].page \in ex THEN NoPage ELSE tr[m].page
                  ELSE IF f[Left(m)] # NoPage THEN f[Left(m)] ELSE f[Right(m)]
  BY <1>3, FindsExist DEF IsSearch
<1>5. CASE IsLeaf(c, m)
  <2>1. PICK p \in 0 .. (c - 1) : m = Leaf(c, p)
    <3>1. m - (c - 1) \in 0 .. (c - 1) /\ m = (c - 1) + (m - (c - 1))
      BY <1>3, <1>5 DEF Nodes, IsLeaf
    <3> QED BY <3>1 DEF Leaf
  <2>2. f[m] = tr[m].page /\ tr[m].page \notin ex /\ ~(tr[m].max < b) /\ tr[m].page # NoPage
    BY <1>3, <1>4, <1>5
  <2>3. tr[m].page = p
    BY <2>1, <2>2 DEF LeavesOwned
  <2>4. tr[m].max \in Int
    BY <1>3 DEF Map, Node, Buckets, NoBucket
  <2>5. f[m] \in Good(c, tr, b, ex)
    BY <2>1, <2>2, <2>3, <2>4 DEF Good, IsRegistered
  <2>6. m \in Paths(c)[Leaf(c, f[m])]
    BY <1>3, <2>1, <2>2, <2>3, PathsClimb
  <2> QED BY <1>3, <2>5, <2>6
<1>6. CASE ~IsLeaf(c, m)
  <2>1. /\ Left(m) \in Nodes(c) /\ Right(m) \in Nodes(c) /\ Left(m) > m /\ Right(m) > m
        /\ Parent(Left(m)) = m /\ Parent(Right(m)) = m
        /\ Left(m) \in Nat /\ Right(m) \in Nat
    BY <1>3, <1>6, InnerNodes, ParentsAndChildren
  <2>2. PICK x \in {Left(m), Right(m)} : f[m] = f[x]
    BY <1>3, <1>4, <1>6
  <2>3. x \notin Bad /\ x \in Nodes(c) /\ Parent(x) = m /\ x # 0
    BY <1>2, <1>3, <2>1
  <2>4. Right1(x)
    <3> HIDE DEF Right1
    <3> QED BY <1>3, <2>2, <2>3
  <2>5. f[m] \in Good(c, tr, b, ex) /\ x \in Paths(c)[Leaf(c, f[m])]
    BY <2>2, <2>4
  <2>6. Leaf(c, f[m]) \in Nodes(c)
    BY <2>5, Leaves DEF Good
  <2>7. m \in Paths(c)[Leaf(c, f[m])]
    BY <2>3, <2>5, <2>6, PathsClimb
  <2> QED BY <1>3, <2>5, <2>7
<1> QED BY <1>5, <1>6

\* Above the leaf of a page it may return a search finds something.
LEMMA GoodAreFound ==
  ASSUME NEW c \in Nat \ {0}, NEW tr \in Map(c), IsMaxTree(c, tr), NEW b \in Nat, NEW ex,
         NEW f, f = Finds(c, tr, b, ex), NEW p \in Good(c, tr, b, ex),
         NEW n \in Paths(c)[Leaf(c, p)]
  PROVE  f[n] # NoPage /\ (n = Leaf(c, p) => f[n] = p)
<1> DEFINE N == 2 * c - 2
           path == Paths(c)[Leaf(c, p)]
           Bad == {m \in path : ~(tr[m].max >= b /\ f[m] # NoPage)}
<1>0. N \in Nat /\ Nodes(c) = 0 .. N
  BY DEF Nodes
<1> HIDE DEF N
<1>1. p \in 0 .. (c - 1) /\ Leaf(c, p) \in Nodes(c) /\ IsLeaf(c, Leaf(c, p))
  BY Leaves DEF Good
<1>2. \A m \in path : /\ m \in Nodes(c)
                      /\ m # Leaf(c, p) => ~IsLeaf(c, m) /\ (Left(m) \in path \/ Right(m) \in path)
  BY <1>1, PathsClimb
<1> HIDE DEF path
<1>3. \A m \in Nodes(c) :
        f[m] = IF tr[m].max < b THEN NoPage
               ELSE IF IsLeaf(c, m) THEN IF tr[m].page \in ex THEN NoPage ELSE tr[m].page
                    ELSE IF f[Left(m)] # NoPage THEN f[Left(m)] ELSE f[Right(m)]
  <2>1. IsSearch(c, tr, b, ex, f)
    BY FindsExist
  <2> QED BY <2>1 DEF IsSearch
<1>4. \A m \in Nodes(c) : tr[m].max \in Int
  BY DEF Map, Node, Buckets, NoBucket
<1>5. f[Leaf(c, p)] = p /\ tr[Leaf(c, p)].max >= b /\ p # NoPage
  BY <1>1, <1>3, <1>4 DEF Good, IsRegistered, NoPage
<1>6. Bad = {}
  <2> SUFFICES ASSUME Bad # {} PROVE FALSE
    OBVIOUS
  <2>1. PICK m \in Bad : \A k \in Bad : k <= m
    <3>1. Bad \in SUBSET (0 .. N)
      BY <1>0, <1>2
    <3> HIDE DEF Bad
    <3> QED BY <1>0, <3>1, GreatestNumber
  <2>2. m \in path /\ m \in Nodes(c) /\ m \in Nat /\ ~(tr[m].max >= b /\ f[m] # NoPage)
    BY <1>0, <1>2, <2>1
  <2>3. m # Leaf(c, p)
    BY <1>5, <2>2
  <2>4. ~IsLeaf(c, m) /\ Left(m) \in Nodes(c) /\ Right(m) \in Nodes(c) /\ Left(m) > m /\ Right(m) > m
        /\ Left(m) \in Nat /\ Right(m) \in Nat
    BY <1>2, <2>2, <2>3, InnerNodes, ParentsAndChildren
  <2>5. PICK x \in {Left(m), Right(m)} : x \in path
    BY <1>2, <2>2, <2>3
  <2>6. x \notin Bad
    BY <2>1, <2>2, <2>4
  <2>7. tr[x].max >= b /\ f[x] # NoPage
    BY <2>5, <2>6
  <2>8. tr[m].max = GreaterChild(tr, m)
    BY <2>2, <2>4 DEF IsMaxTree
  <2>9. tr[m].max >= tr[x].max
    BY <1>4, <2>4, <2>8 DEF GreaterChild
  <2>10. tr[m].max >= b /\ ~(tr[m].max < b) /\ x \in Nodes(c)
    BY <1>4, <2>2, <2>4, <2>7, <2>9
  <2>11. f[m] # NoPage
    BY <1>3, <2>2, <2>4, <2>7, <2>10
  <2> QED BY <2>2, <2>10, <2>11
<1> QED BY <1>5, <1>6 DEF path

\* find_page_excluding returns the first page it may return, and none only if there is none.
LEMMA SearchIsRight ==
  ASSUME NEW c \in Nat \ {0}, NEW tr \in Map(c), IsMaxTree(c, tr), LeavesOwned(c, tr),
         NEW b \in Nat, NEW ex
  PROVE  /\ FindPage(c, tr, b, ex) = NoPage <=> Good(c, tr, b, ex) = {}
         /\ FindPage(c, tr, b, ex) # NoPage => FindPage(c, tr, b, ex) \in Good(c, tr, b, ex)
         /\ \A p \in Good(c, tr, b, ex) \ {FindPage(c, tr, b, ex)} :
              LeftOf(c, Leaf(c, FindPage(c, tr, b, ex)), Leaf(c, p))
<1> DEFINE good == Good(c, tr, b, ex)
           found == FindPage(c, tr, b, ex)
           N == 2 * c - 2
<1>0. N \in Nat /\ Nodes(c) = 0 .. N /\ 0 \in Nodes(c)
  BY DEF Nodes
<1> HIDE DEF N
<1>1. PICK f : f = Finds(c, tr, b, ex)
  OBVIOUS
<1>2. found = f[0]
  BY <1>1 DEF FindPage
<1> HIDE DEF good, found
<1>3. \A n \in Nodes(c) : f[n] # NoPage => f[n] \in good /\ n \in Paths(c)[Leaf(c, f[n])]
  BY <1>1, FindsAreGood DEF good
<1>4. ASSUME NEW p \in good
      PROVE  /\ Leaf(c, p) \in Nodes(c) /\ IsLeaf(c, Leaf(c, p))
             /\ \A n \in Paths(c)[Leaf(c, p)] : f[n] # NoPage
             /\ f[Leaf(c, p)] = p
             /\ Leaf(c, p) \in Paths(c)[Leaf(c, p)] /\ 0 \in Paths(c)[Leaf(c, p)]
             /\ \A a \in Paths(c)[Leaf(c, p)] :
                  /\ a \in Nodes(c)
                  /\ a # Leaf(c, p) => /\ ~IsLeaf(c, a)
                                       /\ Left(a) \in Paths(c)[Leaf(c, p)]
                                          \/ Right(a) \in Paths(c)[Leaf(c, p)]
  <2>1. p \in 0 .. (c - 1)
    BY DEF good, Good
  <2>2. Leaf(c, p) \in Nodes(c) /\ IsLeaf(c, Leaf(c, p))
    BY <2>1, Leaves
  <2>3. \A n \in Paths(c)[Leaf(c, p)] : f[n] # NoPage /\ (n = Leaf(c, p) => f[n] = p)
    BY <1>1, GoodAreFound DEF good
  <2> QED BY <2>2, <2>3, PathsClimb
<1>5. found # NoPage => found \in good
  BY <1>0, <1>2, <1>3
<1>6. ASSUME NEW p \in good PROVE found # NoPage
  BY <1>2, <1>4
<1>7. ASSUME NEW p \in good, p # found PROVE LeftOf(c, Leaf(c, found), Leaf(c, p))
  <2> DEFINE path == Paths(c)[Leaf(c, p)]
             Same == {a \in path : f[a] = found}
  <2>1. PICK a \in Same : \A k \in Same : k <= a
    <3>1. 0 \in Same
      BY <1>2, <1>4
    <3>2. Same \in SUBSET (0 .. N)
      BY <1>0, <1>4
    <3> HIDE DEF Same
    <3> QED BY <1>0, <3>1, <3>2, GreatestNumber
  <2>2. a \in path /\ a \in Nodes(c) /\ a \in Nat /\ f[a] = found /\ found # NoPage
    BY <1>0, <1>4, <1>6, <2>1
  <2>3. a # Leaf(c, p)
    BY <1>4, <1>7, <2>2
  <2>4. ~IsLeaf(c, a) /\ (Left(a) \in path \/ Right(a) \in path)
    BY <1>4, <2>2, <2>3
  <2>5. /\ Left(a) > a /\ Right(a) > a /\ Left(a) \in Nat /\ Right(a) \in Nat
        /\ Left(a) \in Nodes(c) /\ Right(a) \in Nodes(c)
    BY <2>2, <2>4, InnerNodes, ParentsAndChildren
  <2>6. \A x \in {Left(a), Right(a)} : x \in path => f[x] # found /\ f[x] # NoPage
    BY <1>4, <2>1, <2>2, <2>5
  <2>7. f[a] = IF f[Left(a)] # NoPage THEN f[Left(a)] ELSE f[Right(a)]
    <3>1. f[a] = IF tr[a].max < b THEN NoPage
                 ELSE IF IsLeaf(c, a) THEN IF tr[a].page \in ex THEN NoPage ELSE tr[a].page
                      ELSE IF f[Left(a)] # NoPage THEN f[Left(a)] ELSE f[Right(a)]
      BY <1>1, <2>2, FindsExist DEF IsSearch
    <3> QED BY <2>2, <2>4, <3>1
  <2>8. Right(a) \in path /\ f[Left(a)] = found
    BY <2>2, <2>4, <2>6, <2>7
  <2>9. Left(a) \in Paths(c)[Leaf(c, found)]
    BY <1>3, <2>2, <2>5, <2>8
  <2> QED BY <2>2, <2>8, <2>9 DEF LeftOf, Below
<1> QED BY <1>5, <1>6, <1>7 DEF good, found

-----------------------------------------------------------------------------
\* The file: its pages, and its map of them.

\* The free space of a page is that of a bucket.
LEMMA FreeSpaceBounded ==
  ASSUME NEW pg, PageOK(pg) PROVE FreeSpace(pg) \in Nat /\ FreeSpace(pg) < PageSize
<1>1. pg.freeEnd \in 0 .. PageSize /\ SlotCount(pg) \in Nat
  BY DEF PageOK, Page, SlotCount
<1>2. SlotOffset(SlotCount(pg)) \in Nat /\ SlotOffset(SlotCount(pg)) >= HeaderSize
  BY <1>1, SlotOffsets
<1>3. SlotOffset(SlotCount(pg)) <= pg.freeEnd
  BY DEF PageOK, DirectoryIntact
<1> QED BY <1>1, <1>2, <1>3, PageConstants DEF FreeSpace

\* What the map's leaf for page p says of the page.
LeafOK(tr, c, ps, p, tou, com) ==
  LET leaf == tr[Leaf(c, p)]
      own  == BucketOf(FreeSpace(ps[p + 1]))
  IN  IF p < Len(ps)
      THEN leaf.page = p /\ (p \notin tou => leaf.max = own) /\ (p \notin com => leaf.max >= own)
      ELSE leaf = [max |-> NoBucket, page |-> NoPage]

\* What a heap file of capacity c keeps of its pages ps and its map tr, with the pages
\* tou touched and com compacted behind the map's back.
FileOK(c, ps, tr, tou, com) ==
  /\ c \in Nat \ {0}
  /\ ps \in Seq(Page) /\ Len(ps) <= c
  /\ tr \in Map(c) /\ IsMaxTree(c, tr)
  /\ \A p \in 0 .. (Len(ps) - 1) : PageOK(ps[p + 1]) /\ (p \notin com => RecordsOK(ps[p + 1]))
  /\ \A p \in 0 .. (c - 1) : LeafOK(tr, c, ps, p, tou, com)

\* One page of the file is replaced.
LEMMA PageReplaced ==
  ASSUME NEW ps \in Seq(Page), NEW p \in 0 .. (Len(ps) - 1), NEW pg, pg \in Page,
         NEW new, new = [ps EXCEPT ![p + 1] = pg]
  PROVE  /\ new \in Seq(Page) /\ Len(new) = Len(ps) /\ new[p + 1] = pg
         /\ \A q \in 0 .. (Len(ps) - 1) : q # p => new[q + 1] = ps[q + 1]
<1>1. p + 1 \in 1 .. Len(ps) /\ Len(ps) \in Nat
  OBVIOUS
<1>2. \A q \in 0 .. (Len(ps) - 1) : q + 1 \in 1 .. Len(ps) /\ (q # p => q + 1 # p + 1)
  OBVIOUS
<1> QED BY <1>1, <1>2

\* create_page keeps it.
LEMMA PageAdded ==
  ASSUME NEW c \in Nat, NEW ps \in Seq(Page), NEW tr, NEW tou, NEW com,
         FileOK(c, ps, tr, tou, com), Len(ps) < c, Len(ps) \notin tou, Len(ps) \notin com
  PROVE  FileOK(c, Append(ps, NewPage), RegisterPage(c, tr, Len(ps), FreeSpace(NewPage)), tou, com)
<1> DEFINE new == Append(ps, NewPage)
           map == RegisterPage(c, tr, Len(ps), FreeSpace(NewPage))
<1>1. /\ c \in Nat \ {0} /\ ps \in Seq(Page) /\ tr \in Map(c) /\ IsMaxTree(c, tr)
      /\ Len(ps) \in 0 .. (c - 1)
  BY DEF FileOK
<1>2. /\ PageOK(NewPage) /\ RecordsOK(NewPage) /\ NewPage \in Page
      /\ FreeSpace(NewPage) \in Nat /\ FreeSpace(NewPage) < PageSize
  BY NewPageOK, FreeSpaceBounded DEF PageOK
<1>3. /\ new \in Seq(Page) /\ Len(new) = Len(ps) + 1 /\ new[Len(ps) + 1] = NewPage
      /\ \A q \in 0 .. (Len(ps) - 1) : new[q + 1] = ps[q + 1]
  BY <1>1, <1>2
<1>4. /\ map \in Map(c) /\ IsMaxTree(c, map)
      /\ map[Leaf(c, Len(ps))] = [max |-> BucketOf(FreeSpace(NewPage)), page |-> Len(ps)]
      /\ \A q \in 0 .. (c - 1) : q # Len(ps) => map[Leaf(c, q)] = tr[Leaf(c, q)]
  BY <1>1, <1>2, MapUpdated
<1> HIDE DEF new, map
<1>5. \A q \in 0 .. (Len(new) - 1) : PageOK(new[q + 1]) /\ (q \notin com => RecordsOK(new[q + 1]))
  <2> SUFFICES ASSUME NEW q \in 0 .. (Len(new) - 1)
               PROVE  PageOK(new[q + 1]) /\ (q \notin com => RecordsOK(new[q + 1]))
    OBVIOUS
  <2>1. CASE q = Len(ps)
    BY <1>2, <1>3, <2>1
  <2>2. CASE q # Len(ps)
    <3>1. q \in 0 .. (Len(ps) - 1)
      BY <1>1, <1>3, <2>2
    <3> QED BY <1>3, <3>1 DEF FileOK
  <2> QED BY <2>1, <2>2
<1>6. ASSUME NEW q \in 0 .. (c - 1) PROVE LeafOK(map, c, new, q, tou, com)
  <2>1. CASE q = Len(ps)
    <3>1. q < Len(new) /\ new[q + 1] = NewPage
      BY <1>1, <1>3, <2>1
    <3>2. BucketOf(FreeSpace(NewPage)) \in Nat
      BY <1>2, BucketsOrdered
    <3> QED BY <1>4, <2>1, <3>1, <3>2 DEF LeafOK
  <2>2. CASE q # Len(ps)
    <3>1. LeafOK(tr, c, ps, q, tou, com) /\ map[Leaf(c, q)] = tr[Leaf(c, q)]
      BY <1>4, <2>2 DEF FileOK
    <3>2. q < Len(new) <=> q < Len(ps)
      BY <1>1, <1>3, <2>2
    <3>3. q < Len(ps) => new[q + 1] = ps[q + 1]
      BY <1>1, <1>3
    <3> QED BY <3>1, <3>2, <3>3 DEF LeafOK
  <2> QED BY <2>1, <2>2
<1>7. FileOK(c, new, map, tou, com)
  BY <1>1, <1>3, <1>4, <1>5, <1>6 DEF FileOK
<1> QED BY <1>7 DEF new, map

\* insert_page keeps it.
LEMMA RecordPut ==
  ASSUME NEW c \in Nat, NEW ps \in Seq(Page), NEW tr, NEW tou, NEW com, FileOK(c, ps, tr, tou, com),
         NEW p \in 0 .. (Len(ps) - 1), NEW len \in Nat, Fits(ps[p + 1], len),
         NEW pg, pg = InsertRecord(ps[p + 1], len),
         NEW new, new = [ps EXCEPT ![p + 1] = pg],
         NEW map, map = UpdatePage(c, tr, p, FreeSpace(pg))
  PROVE  FileOK(c, new, map, tou \ {p}, com)
<1>1. /\ c \in Nat \ {0} /\ ps \in Seq(Page) /\ tr \in Map(c) /\ IsMaxTree(c, tr)
      /\ Len(ps) <= c /\ Len(ps) \in Nat /\ p \in 0 .. (c - 1)
  BY DEF FileOK
<1>2. PageOK(ps[p + 1]) /\ (p \notin com => RecordsOK(ps[p + 1]))
  BY DEF FileOK
<1>3. PageOK(pg) /\ (p \notin com => RecordsOK(pg))
  BY <1>2, InsertKeeps
<1>4. /\ new \in Seq(Page) /\ Len(new) = Len(ps) /\ new[p + 1] = pg
      /\ \A q \in 0 .. (Len(ps) - 1) : q # p => new[q + 1] = ps[q + 1]
  <2>1. pg \in Page
    BY <1>3 DEF PageOK
  <2> QED BY <1>1, <2>1, PageReplaced
<1>5. FreeSpace(pg) \in Nat /\ FreeSpace(pg) < PageSize
  BY <1>3, FreeSpaceBounded
<1>6. tr[Leaf(c, p)].page = p
  <2>1. LeafOK(tr, c, ps, p, tou, com) /\ p < Len(ps)
    BY <1>1 DEF FileOK
  <2> QED BY <2>1 DEF LeafOK
<1>7. /\ map \in Map(c) /\ IsMaxTree(c, map)
      /\ map[Leaf(c, p)] = [max |-> BucketOf(FreeSpace(pg)), page |-> p]
      /\ \A q \in 0 .. (c - 1) : q # p => map[Leaf(c, q)] = tr[Leaf(c, q)]
  BY <1>1, <1>5, <1>6, MapUpdated
<1>8. \A q \in 0 .. (Len(new) - 1) : PageOK(new[q + 1]) /\ (q \notin com => RecordsOK(new[q + 1]))
  BY <1>3, <1>4 DEF FileOK
<1>9. ASSUME NEW q \in 0 .. (c - 1) PROVE LeafOK(map, c, new, q, tou \ {p}, com)
  <2>1. CASE q = p
    <3>1. BucketOf(FreeSpace(pg)) \in Nat
      BY <1>5, BucketsOrdered
    <3> QED BY <1>1, <1>4, <1>7, <2>1, <3>1 DEF LeafOK
  <2>2. CASE q # p
    <3>1. LeafOK(tr, c, ps, q, tou, com) /\ map[Leaf(c, q)] = tr[Leaf(c, q)]
      BY <1>7, <2>2 DEF FileOK
    <3>2. q < Len(ps) => new[q + 1] = ps[q + 1]
      BY <1>1, <1>4, <2>2
    <3> QED BY <1>4, <2>2, <3>1, <3>2 DEF LeafOK
  <2> QED BY <2>1, <2>2
<1> QED BY <1>1, <1>4, <1>7, <1>8, <1>9 DEF FileOK

\* What a caller of get_page_mut makes of page p: it may be compacted, or has no more
\* space than before; the page is touched when its space changed.
IsMutation(ps, p, pg, tou, com, tou2, com2) ==
  /\ PageOK(pg)
  /\ com2 \in {com, com \cup {p}} /\ tou2 \in {tou, tou \cup {p}}
  /\ p \notin com2 => RecordsOK(pg) /\ FreeSpace(pg) <= FreeSpace(ps[p + 1])
  /\ p \notin tou2 => FreeSpace(pg) = FreeSpace(ps[p + 1])

\* get_page_mut keeps it.
LEMMA PageMutated ==
  ASSUME NEW c \in Nat, NEW ps \in Seq(Page), NEW tr, NEW tou, NEW com,
         FileOK(c, ps, tr, tou, com), NEW p \in 0 .. (Len(ps) - 1), NEW pg, NEW tou2, NEW com2,
         IsMutation(ps, p, pg, tou, com, tou2, com2)
  PROVE  FileOK(c, [ps EXCEPT ![p + 1] = pg], tr, tou2, com2)
<1>0. /\ PageOK(pg)
      /\ com2 \in {com, com \cup {p}} /\ tou2 \in {tou, tou \cup {p}}
      /\ p \notin com2 => RecordsOK(pg) /\ FreeSpace(pg) <= FreeSpace(ps[p + 1])
      /\ p \notin tou2 => FreeSpace(pg) = FreeSpace(ps[p + 1])
  BY DEF IsMutation
<1> DEFINE new == [ps EXCEPT ![p + 1] = pg]
<1>1. /\ c \in Nat \ {0} /\ ps \in Seq(Page) /\ Len(ps) <= c /\ Len(ps) \in Nat
      /\ p \in 0 .. (c - 1) /\ tr \in Map(c)
  BY DEF FileOK
<1>2. /\ new \in Seq(Page) /\ Len(new) = Len(ps) /\ new[p + 1] = pg
      /\ \A q \in 0 .. (Len(ps) - 1) : q # p => new[q + 1] = ps[q + 1]
  <2>1. pg \in Page
    BY <1>0 DEF PageOK
  <2> QED BY <1>1, <2>1, PageReplaced
<1> HIDE DEF new
<1>3. \A q : q # p => (q \in com2 <=> q \in com) /\ (q \in tou2 <=> q \in tou)
  BY <1>0
<1>4. \A q \in 0 .. (Len(new) - 1) : PageOK(new[q + 1]) /\ (q \notin com2 => RecordsOK(new[q + 1]))
  BY <1>0, <1>2, <1>3 DEF FileOK
<1>5. ASSUME NEW q \in 0 .. (c - 1) PROVE LeafOK(tr, c, new, q, tou2, com2)
  <2>0. LeafOK(tr, c, ps, q, tou, com)
    BY DEF FileOK
  <2>1. CASE q = p
    <3>1. q < Len(ps) /\ q < Len(new) /\ new[q + 1] = pg
      BY <1>1, <1>2, <2>1
    <3>2. tr[Leaf(c, q)].page = q
      BY <2>0, <3>1 DEF LeafOK
    <3>3. ASSUME q \notin tou2 PROVE tr[Leaf(c, q)].max = BucketOf(FreeSpace(pg))
      <4>1. FreeSpace(pg) = FreeSpace(ps[q + 1]) /\ q \notin tou
        BY <1>0, <2>1, <3>3
      <4> QED BY <2>0, <3>1, <4>1 DEF LeafOK
    <3>4. ASSUME q \notin com2 PROVE tr[Leaf(c, q)].max >= BucketOf(FreeSpace(pg))
      <4>1. FreeSpace(pg) <= FreeSpace(ps[q + 1]) /\ q \notin com
        BY <1>0, <2>1, <3>4
      <4>2. tr[Leaf(c, q)].max >= BucketOf(FreeSpace(ps[q + 1]))
        BY <2>0, <3>1, <4>1 DEF LeafOK
      <4>3. FreeSpace(pg) \in Nat /\ FreeSpace(ps[q + 1]) \in Nat
        BY <1>0, <2>1, FreeSpaceBounded DEF FileOK
      <4>4. /\ BucketOf(FreeSpace(pg)) <= BucketOf(FreeSpace(ps[q + 1]))
            /\ BucketOf(FreeSpace(pg)) \in Nat /\ BucketOf(FreeSpace(ps[q + 1])) \in Nat
        BY <4>1, <4>3, BucketsOrdered
      <4>5. tr[Leaf(c, q)].max \in Int
        BY <1>1, Leaves DEF Map, Node, Buckets, NoBucket
      <4> QED BY <4>2, <4>4, <4>5
    <3> QED BY <3>1, <3>2, <3>3, <3>4 DEF LeafOK
  <2>2. CASE q # p
    <3>1. q < Len(ps) => new[q + 1] = ps[q + 1]
      BY <1>1, <1>2, <2>2
    <3>2. (q \in com2 <=> q \in com) /\ (q \in tou2 <=> q \in tou)
      BY <1>3, <2>2
    <3> QED BY <1>2, <2>0, <3>1, <3>2 DEF LeafOK
  <2> QED BY <2>1, <2>2
<1>6. FileOK(c, new, tr, tou2, com2)
  <2>1. IsMaxTree(c, tr)
    BY DEF FileOK
  <2> QED BY <1>1, <1>2, <1>4, <1>5, <2>1 DEF FileOK
<1> QED BY <1>6 DEF new

\* A record takes space.
LEMMA InsertTakesSpace ==
  ASSUME NEW pg, PageOK(pg), NEW len \in Nat, Fits(pg, len)
  PROVE  FreeSpace(InsertRecord(pg, len)) <= FreeSpace(pg)
<1>1. pg \in Page /\ DirectoryIntact(pg) /\ pg.freeEnd \in 0 .. PageSize /\ SlotCount(pg) \in Nat
  BY DEF PageOK, Page, SlotCount
<1>2. PICK w : w = InsertRecord(pg, len)
  OBVIOUS
<1>3. w.freeEnd = pg.freeEnd - len /\ SlotCount(w) = SlotCount(pg) + 1
  BY <1>1, <1>2, RecordInserted
<1>4. SlotOffset(SlotCount(pg)) \in Nat
      /\ SlotOffset(SlotCount(pg) + 1) = SlotOffset(SlotCount(pg)) + SlotSize
  BY <1>1, SlotOffsets
<1> QED BY <1>1, <1>2, <1>3, <1>4, PageConstants DEF FreeSpace

\* The pages a map knows are those of the file.
LEMMA LeavesAreOwned ==
  ASSUME NEW c, NEW ps, NEW tr, NEW tou, NEW com, FileOK(c, ps, tr, tou, com)
  PROVE  LeavesOwned(c, tr) /\ \A p \in 0 .. (c - 1) : IsRegistered(c, tr, p) <=> p < Len(ps)
<1>1. c \in Nat \ {0} /\ Len(ps) \in Nat
  BY DEF FileOK
<1>2. ASSUME NEW p \in 0 .. (c - 1)
      PROVE  /\ tr[Leaf(c, p)].page \in {p, NoPage}
             /\ tr[Leaf(c, p)].page = NoPage => tr[Leaf(c, p)].max = NoBucket
             /\ IsRegistered(c, tr, p) <=> p < Len(ps)
  <2>1. LeafOK(tr, c, ps, p, tou, com)
    BY DEF FileOK
  <2>2. p # NoPage /\ p < c
    BY <1>1 DEF NoPage
  <2>3. CASE p < Len(ps)
    BY <2>1, <2>2, <2>3 DEF LeafOK, IsRegistered
  <2>4. CASE ~(p < Len(ps))
    BY <2>1, <2>2, <2>4 DEF LeafOK, IsRegistered
  <2> QED BY <2>3, <2>4
<1> QED BY <1>2 DEF LeavesOwned

\* What a search returns is a page of the file; it may return every page whose leaf has
\* the bucket and that is not excluded.
LEMMA SearchInFile ==
  ASSUME NEW c, NEW ps, NEW tr, NEW tou, NEW com, FileOK(c, ps, tr, tou, com),
         NEW b \in Nat, NEW ex, NEW found, found = FindPage(c, tr, b, ex)
  PROVE  /\ found # NoPage => found \in 0 .. (Len(ps) - 1)
         /\ found = NoPage =>
              \A p \in 0 .. (Len(ps) - 1) : tr[Leaf(c, p)].max >= b => p \in ex
         /\ FindsFirst(c, tr, b, ex)
<1>1. c \in Nat \ {0} /\ Len(ps) \in Nat /\ tr \in Map(c) /\ IsMaxTree(c, tr) /\ Len(ps) <= c
  BY DEF FileOK
<1>2. LeavesOwned(c, tr) /\ \A p \in 0 .. (c - 1) : IsRegistered(c, tr, p) <=> p < Len(ps)
  BY LeavesAreOwned
<1>3. PICK good : good = Good(c, tr, b, ex)
  OBVIOUS
<1>4. /\ found = NoPage <=> good = {}
      /\ found # NoPage => found \in good
      /\ \A p \in good \ {found} : LeftOf(c, Leaf(c, found), Leaf(c, p))
  BY <1>1, <1>2, <1>3, SearchIsRight
<1>5. good \subseteq 0 .. (Len(ps) - 1)
  BY <1>1, <1>2, <1>3 DEF Good
<1>6. \A p \in 0 .. (Len(ps) - 1) : tr[Leaf(c, p)].max >= b /\ p \notin ex => p \in good
  BY <1>1, <1>2, <1>3 DEF Good
<1>7. FindsFirst(c, tr, b, ex)
  <2>1. good = {p \in 0 .. (c - 1) : /\ IsRegistered(c, tr, p)
                                     /\ tr[Leaf(c, p)].max >= b
                                     /\ p \notin ex}
    BY <1>3 DEF Good
  <2>2. IF good = {} THEN found = NoPage
        ELSE /\ found \in good
             /\ \A p \in good \ {found} : LeftOf(c, Leaf(c, found), Leaf(c, p))
    BY <1>4
  <2> QED BY <2>1, <2>2 DEF FindsFirst
<1> QED BY <1>4, <1>5, <1>6, <1>7

-----------------------------------------------------------------------------
\* The inductive invariants.

\* The file is sound, and the other variables have their types.
HeapInv ==
  /\ FileOK(capacity, pages, fsm, touched, compacted)
  /\ capacity \in Capacities
  /\ call \in Calls
  /\ size \in RecordSizes \cup {0}
  /\ excluded \subseteq PageIds
  /\ touched \subseteq PageIds /\ compacted \subseteq PageIds
  /\ cursor \in [page : Nat, slot : Nat]
  /\ seen \in Seq([page : PageIds, slot : Nat])

\* An insert goes on for a record that fits into a new page, past the pages it found
\* too small for it.
InsertInv ==
  /\ call # "insert" => excluded = {}
  /\ call = "insert" => Accepts(size)
  /\ \A p \in excluded : ~Suits(p)

\* A scan returned the records before its cursor, in order, and began when it was called.
ScanInv ==
  /\ call \notin {"scan", "scanned"} => cursor = Start /\ seen = <<>>
  /\ \A i, j \in DOMAIN seen : i < j => Before(seen[i], seen[j])
  /\ \A i \in DOMAIN seen : IsRecord(seen[i]) /\ Before(seen[i], cursor)
  /\ \A p \in PageIds : \A s \in SlotIds(PageOf(p)) :
       LET r == [page |-> p, slot |-> s]
       IN  IsRecord(r) /\ Before(r, cursor) => \E i \in DOMAIN seen : seen[i] = r
  /\ call = "scanned" => cursor.page >= Len(pages)

\* A step that keeps the file sound and does not take pages away.
LEMMA TypesStay ==
  ASSUME HeapInv, FileOK(capacity, pages, fsm, touched, compacted)', capacity' = capacity,
         Len(pages') >= Len(pages), call' \in Calls, size' \in RecordSizes \cup {0},
         excluded' \subseteq PageIds, touched' \subseteq PageIds', compacted' \subseteq PageIds',
         cursor' \in [page : Nat, slot : Nat], seen' \in Seq([page : PageIds, slot : Nat])
  PROVE  HeapInv'
<1>1. Len(pages) \in Nat /\ Len(pages') \in Nat
  BY DEF HeapInv, FileOK
<1>2. PageIds \subseteq PageIds'
  BY <1>1 DEF PageIds
<1>3. seen' \in Seq([page : PageIds', slot : Nat])
  <2>1. [page : PageIds, slot : Nat] \subseteq [page : PageIds', slot : Nat]
    BY <1>2
  <2> QED BY <2>1, SeqMonotonic
<1> QED BY <1>2, <1>3 DEF HeapInv

\* The candidate of a round is a page of the file; without one every page with the
\* bucket was tried.
LEMMA CandidateKnown ==
  ASSUME HeapInv
  PROVE  /\ size \in Nat /\ BucketOf(size + SlotSize) \in Nat
         /\ Candidate # NoPage => Candidate \in PageIds
         /\ Candidate = NoPage =>
              \A p \in PageIds :
                fsm[Leaf(capacity, p)].max >= BucketOf(size + SlotSize) => p \in excluded
<1>1. size \in Nat
  BY HeapConstants DEF HeapInv
<1>2. BucketOf(size + SlotSize) \in Nat
  <2>1. size + SlotSize \in Nat
    BY <1>1, PageConstants
  <2> QED BY <2>1, BucketsOrdered
<1>3. Candidate = FindPage(capacity, fsm, BucketOf(size + SlotSize), excluded)
  BY DEF Candidate, FindPageExcluding
<1>4. FileOK(capacity, pages, fsm, touched, compacted)
  BY DEF HeapInv
<1>5. /\ Candidate # NoPage => Candidate \in 0 .. (Len(pages) - 1)
      /\ Candidate = NoPage =>
              \A p \in 0 .. (Len(pages) - 1) :
                fsm[Leaf(capacity, p)].max >= BucketOf(size + SlotSize) => p \in excluded
      /\ FindsFirst(capacity, fsm, BucketOf(size + SlotSize), excluded)
  BY <1>2, <1>3, <1>4, SearchInFile
<1> QED BY <1>1, <1>2, <1>5 DEF PageIds

\* The file is sound in the beginning.
LEMMA HeapInvInit == Init => HeapInv
<1> SUFFICES ASSUME Init PROVE HeapInv
  OBVIOUS
<1>1. /\ capacity \in Capacities /\ capacity \in Nat \ {0}
      /\ pages = <<>> /\ fsm = EmptyMap(capacity)
  BY HeapConstants DEF Init
<1>2. pages \in Seq(Page) /\ Len(pages) = 0 /\ PageIds = {}
  BY <1>1 DEF PageIds
<1>3. /\ fsm \in Map(capacity)
      /\ \A n \in Nodes(capacity) : fsm[n] = [max |-> NoBucket, page |-> NoPage]
  BY <1>1 DEF EmptyMap, Map, Node
<1>4. IsMaxTree(capacity, fsm)
  <2> SUFFICES ASSUME NEW n \in Nodes(capacity), ~IsLeaf(capacity, n)
               PROVE  fsm[n].max = GreaterChild(fsm, n)
    BY DEF IsMaxTree
  <2>1. Left(n) \in Nodes(capacity) /\ Right(n) \in Nodes(capacity)
    BY <1>1, InnerNodes
  <2> QED BY <1>3, <2>1 DEF GreaterChild
<1>5. ASSUME NEW p \in 0 .. (capacity - 1)
      PROVE  LeafOK(fsm, capacity, pages, p, touched, compacted)
  <2>1. Leaf(capacity, p) \in Nodes(capacity) /\ ~(p < Len(pages))
    BY <1>1, <1>2, Leaves
  <2> QED BY <1>3, <2>1 DEF LeafOK
<1>6. FileOK(capacity, pages, fsm, touched, compacted)
  BY <1>1, <1>2, <1>3, <1>4, <1>5 DEF FileOK
<1>7. seen \in Seq([page : PageIds, slot : Nat]) /\ cursor \in [page : Nat, slot : Nat]
  BY DEF Init, Start
<1> QED BY <1>1, <1>6, <1>7 DEF HeapInv, Init, Calls

\* Every step keeps the file sound.
LEMMA HeapInvStep == HeapInv /\ [Next]_vars => HeapInv'
<1> SUFFICES ASSUME HeapInv, [Next]_vars PROVE HeapInv'
  OBVIOUS
<1> USE DEF Calls
<1>1. /\ FileOK(capacity, pages, fsm, touched, compacted)
      /\ capacity \in Nat \ {0} /\ pages \in Seq(Page) /\ Len(pages) \in Nat
      /\ touched \subseteq PageIds /\ compacted \subseteq PageIds /\ excluded \subseteq PageIds
      /\ call \in Calls /\ size \in RecordSizes \cup {0} /\ size \in Nat
      /\ cursor \in [page : Nat, slot : Nat] /\ seen \in Seq([page : PageIds, slot : Nat])
  BY CandidateKnown DEF HeapInv, FileOK
<1>2. ASSUME UNCHANGED <<capacity, pages, fsm, touched, compacted>>, call' \in Calls,
             size' \in RecordSizes \cup {0}, excluded' \subseteq PageIds,
             cursor' \in [page : Nat, slot : Nat], seen' \in Seq([page : PageIds, slot : Nat])
      PROVE  HeapInv'
  <2>1. /\ FileOK(capacity, pages, fsm, touched, compacted)' /\ Len(pages') >= Len(pages)
        /\ PageIds' = PageIds /\ capacity' = capacity
    BY <1>1, <1>2 DEF PageIds
  <2> QED BY <1>1, <1>2, <2>1, TypesStay
<1>3. ASSUME Len(pages) < capacity
      PROVE  /\ FileOK(capacity, WithNewPage, MapWithNewPage, touched, compacted)
             /\ WithNewPage \in Seq(Page) /\ Len(WithNewPage) = Len(pages) + 1
             /\ WithNewPage[Len(pages) + 1] = NewPage
  <2>1. Len(pages) \notin touched /\ Len(pages) \notin compacted
    BY <1>1 DEF PageIds
  <2>2. PICK new, map : new = WithNewPage /\ map = MapWithNewPage
    OBVIOUS
  <2>3. new = Append(pages, NewPage)
        /\ map = RegisterPage(capacity, fsm, Len(pages), FreeSpace(NewPage))
    BY <2>2 DEF WithNewPage, MapWithNewPage
  <2>4. /\ FileOK(capacity, new, map, touched, compacted)
        /\ Len(new) = Len(pages) + 1 /\ new[Len(pages) + 1] = NewPage
        /\ \A q \in 0 .. (Len(pages) - 1) : new[q + 1] = pages[q + 1]
    <3>1. FileOK(capacity, pages, fsm, touched, compacted)
      BY <1>1
    <3>2. FileOK(capacity, new, map, touched, compacted)
      <4>1. FileOK(capacity, Append(pages, NewPage),
                   RegisterPage(capacity, fsm, Len(pages), FreeSpace(NewPage)), touched, compacted)
        BY <1>1, <1>3, <2>1, <3>1, PageAdded
      <4> QED BY <2>3, <4>1
    <3>3. Len(new) = Len(pages) + 1 /\ new[Len(pages) + 1] = NewPage
      BY <1>1, <2>3
    <3>4. \A q \in 0 .. (Len(pages) - 1) : new[q + 1] = pages[q + 1]
      BY <1>1, <2>3
    <3> QED BY <3>2, <3>3, <3>4
  <2>5. new \in Seq(Page)
    BY <2>4 DEF FileOK
  <2> QED BY <2>2, <2>4, <2>5
<1>4. ASSUME NEW ps, NEW tr, NEW p, FileOK(capacity, ps, tr, touched, compacted),
             p \in 0 .. (Len(ps) - 1), ps \in Seq(Page), Len(ps) >= Len(pages),
             InsertPage(ps, tr, p), Return,
             UNCHANGED <<capacity, compacted, cursor, seen>>
      PROVE  HeapInv'
  <2>1. /\ FileOK(capacity, pages', fsm', touched', compacted)
        /\ Len(pages') = Len(ps) /\ touched' \subseteq touched
    <3>1. CASE Fits(ps[p + 1], size)
      <4>1. PICK pg : pg = InsertRecord(ps[p + 1], size)
        OBVIOUS
      <4>2. /\ pages' = [ps EXCEPT ![p + 1] = pg]
            /\ fsm' = UpdatePage(capacity, tr, p, FreeSpace(pg))
            /\ touched' = touched \ {p}
        BY <1>4, <3>1, <4>1 DEF InsertPage
      <4>3. FileOK(capacity, pages', fsm', touched \ {p}, compacted)
        BY <1>1, <1>4, <3>1, <4>1, <4>2, RecordPut
      <4>4. Len(pages') = Len(ps)
        BY <1>4, <4>2
      <4> QED BY <4>2, <4>3, <4>4
    <3>2. CASE ~Fits(ps[p + 1], size)
      BY <1>4, <3>2 DEF InsertPage
    <3> QED BY <3>1, <3>2
  <2>2. FileOK(capacity, pages, fsm, touched, compacted)'
    BY <1>4, <2>1
  <2>3. PageIds \subseteq PageIds'
    <3>1. Len(pages') \in Nat /\ Len(pages') >= Len(pages)
      BY <1>1, <1>4, <2>1
    <3> QED BY <1>1, <3>1 DEF PageIds
  <2>4. touched' \subseteq PageIds' /\ compacted' \subseteq PageIds'
    BY <1>1, <1>4, <2>1, <2>3
  <2>5. call' \in Calls /\ size' \in RecordSizes \cup {0} /\ excluded' \subseteq PageIds
    BY <1>4 DEF Return
  <2> QED BY <1>1, <1>4, <2>1, <2>2, <2>4, <2>5, TypesStay
<1>5. ASSUME NEW what, NEW p \in PageIds, NEW pg, Mutate(what, p, pg), PageOK(pg),
             \/ what = "compact"
             \/ /\ p \notin compacted => RecordsOK(pg)
                /\ FreeSpace(pg) <= FreeSpace(PageOf(p))
      PROVE  HeapInv'
  <2>1. /\ pages' = [pages EXCEPT ![p + 1] = pg]
        /\ touched' = IF FreeSpace(pg) # FreeSpace(pages[p + 1]) THEN touched \cup {p} ELSE touched
        /\ compacted' \in {compacted, compacted \cup {p}}
        /\ what = "compact" => p \in compacted'
        /\ what # "compact" => compacted' = compacted
        /\ UNCHANGED <<capacity, fsm, call, size, excluded, cursor, seen>>
    BY <1>5 DEF Mutate, PageOf
  <2>2. p \in 0 .. (Len(pages) - 1)
    BY DEF PageIds
  <2>3. p \notin compacted' => RecordsOK(pg) /\ FreeSpace(pg) <= FreeSpace(pages[p + 1])
    BY <1>5, <2>1 DEF PageOf
  <2>4. PICK tou2, com2 : tou2 = touched' /\ com2 = compacted'
    OBVIOUS
  <2>5. FileOK(capacity, [pages EXCEPT ![p + 1] = pg], fsm, tou2, com2)
    <3>1. FileOK(capacity, pages, fsm, touched, compacted) /\ PageOK(pg)
      BY <1>1, <1>5
    <3>2. IsMutation(pages, p, pg, touched, compacted, tou2, com2)
      BY <1>5, <2>1, <2>3, <2>4 DEF IsMutation
    <3> QED BY <1>1, <2>2, <3>1, <3>2, PageMutated
  <2>6. FileOK(capacity, pages, fsm, touched, compacted)'
    BY <2>1, <2>4, <2>5
  <2>7. Len(pages') = Len(pages) /\ PageIds' = PageIds
    BY <1>1, <2>1 DEF PageIds
  <2>8. touched' \subseteq PageIds' /\ compacted' \subseteq PageIds'
    BY <1>1, <1>5, <2>1, <2>7
  <2> QED BY <1>1, <2>1, <2>6, <2>7, <2>8, TypesStay
<1>6. \A p \in PageIds : PageOK(PageOf(p)) /\ (p \notin compacted => RecordsOK(PageOf(p)))
  BY <1>1 DEF FileOK, PageIds, PageOf
<1>10. CASE CreatePage
  <2>1. /\ Len(pages) < capacity /\ pages' = WithNewPage /\ fsm' = MapWithNewPage
        /\ UNCHANGED <<capacity, call, size, excluded, touched, compacted, cursor, seen>>
    BY <1>1, <1>10 DEF CreatePage, IsFull
  <2>2. FileOK(capacity, pages, fsm, touched, compacted)'
        /\ Len(pages') = Len(pages) + 1
    BY <1>3, <2>1
  <2>3. PageIds \subseteq PageIds'
    BY <1>1, <2>2 DEF PageIds
  <2>4. touched' \subseteq PageIds' /\ compacted' \subseteq PageIds' /\ Len(pages') >= Len(pages)
    BY <1>1, <2>1, <2>2, <2>3
  <2> QED BY <1>1, <2>1, <2>2, <2>4, TypesStay
<1>11. ASSUME NEW len \in RecordSizes, Insert(len) PROVE HeapInv'
  BY <1>1, <1>2, <1>11 DEF Insert
<1>12. CASE InsertHere
  <2>1. Candidate \in 0 .. (Len(pages) - 1)
    BY <1>12, CandidateKnown DEF InsertHere, PageIds
  <2>2. PICK ps, tr, p : ps = pages /\ tr = fsm /\ p = Candidate
    OBVIOUS
  <2>3. /\ FileOK(capacity, ps, tr, touched, compacted)
        /\ p \in 0 .. (Len(ps) - 1) /\ ps \in Seq(Page) /\ Len(ps) >= Len(pages)
    BY <1>1, <2>1, <2>2
  <2>4. InsertPage(ps, tr, p)
    BY <1>12, <2>2 DEF InsertHere, InsertPage
  <2> QED BY <1>4, <1>12, <2>3, <2>4 DEF InsertHere
<1>13. CASE InsertElsewhere
  <2>1. Candidate \in PageIds
    BY <1>13, CandidateKnown DEF InsertElsewhere
  <2>2. excluded' \subseteq PageIds
    BY <1>1, <1>13, <2>1 DEF InsertElsewhere, SkipPage
  <2> QED BY <1>1, <1>2, <1>13, <2>2 DEF InsertElsewhere
<1>14. CASE InsertInNew
  <2>1. Len(pages) < capacity
    BY <1>1, <1>14 DEF InsertInNew, IsFull
  <2>2. /\ FileOK(capacity, WithNewPage, MapWithNewPage, touched, compacted)
        /\ WithNewPage \in Seq(Page) /\ Len(WithNewPage) = Len(pages) + 1
    BY <1>3, <2>1
  <2>3. Len(pages) \in 0 .. (Len(WithNewPage) - 1) /\ Len(WithNewPage) >= Len(pages)
    BY <1>1, <2>2
  <2> QED BY <1>4, <1>14, <2>2, <2>3 DEF InsertInNew
<1>15. CASE InsertFull
  BY <1>1, <1>2, <1>15 DEF InsertFull, Return
<1>16. ASSUME NEW p \in PageIds, NEW len \in RecordSizes, PageInsert(p, len) PROVE HeapInv'
  <2>1. Fits(PageOf(p), len) /\ Mutate("insert", p, InsertRecord(PageOf(p), len)) /\ len \in Nat
    BY <1>16, HeapConstants DEF PageInsert
  <2>2. /\ PageOK(InsertRecord(PageOf(p), len))
        /\ p \notin compacted => RecordsOK(InsertRecord(PageOf(p), len))
    BY <1>6, <2>1, InsertKeeps
  <2>3. FreeSpace(InsertRecord(PageOf(p), len)) <= FreeSpace(PageOf(p))
    BY <1>6, <2>1, InsertTakesSpace
  <2> QED BY <1>5, <2>1, <2>2, <2>3
<1>17. ASSUME NEW p \in PageIds, NEW s \in SlotIds(PageOf(p)), PageDelete(p, s) PROVE HeapInv'
  <2>1. /\ PageOK(DeleteSlot(PageOf(p), s))
        /\ FreeSpace(DeleteSlot(PageOf(p), s)) = FreeSpace(PageOf(p))
        /\ p \notin compacted => RecordsOK(DeleteSlot(PageOf(p), s))
    BY <1>6, DeleteKeeps
  <2>2. FreeSpace(PageOf(p)) \in Nat
    BY <1>6, FreeSpaceBounded
  <2> QED BY <1>5, <1>17, <2>1, <2>2 DEF PageDelete
<1>18. ASSUME NEW p \in PageIds, PageCompact(p) PROVE HeapInv'
  <2>1. PageOK(Compacted(PageOf(p)))
    BY <1>6, <1>18, CompactKeeps DEF PageCompact
  <2> QED BY <1>5, <1>18, <2>1 DEF PageCompact
<1>19. CASE Scan
  BY <1>1, <1>2, <1>19 DEF Scan
<1>20. CASE ScanPage
  <2>1. cursor' \in [page : Nat, slot : Nat]
    BY <1>1, <1>20 DEF ScanPage, NextPage
  <2> QED BY <1>1, <1>2, <1>20, <2>1 DEF ScanPage
<1>21. CASE ScanSlot
  <2>1. cursor' \in [page : Nat, slot : Nat]
    BY SMTT(30), <1>1, <1>21 DEF ScanSlot
  <2>2. cursor \in [page : PageIds, slot : Nat]
    BY <1>1, <1>21 DEF ScanSlot, AtSlot, AtPage, PageIds
  <2>3. seen' \in Seq([page : PageIds, slot : Nat])
    <3> DEFINE S == [page : PageIds, slot : Nat]
    <3>1. seen \in Seq(S) /\ cursor \in S
      BY <1>1, <2>2
    <3> HIDE DEF S
    <3>2. Append(seen, cursor) \in Seq(S)
      BY <3>1
    <3> QED BY <1>21, <3>1, <3>2 DEF ScanSlot, S
  <2> QED BY <1>1, <1>2, <1>21, <2>1, <2>3 DEF ScanSlot
<1>22. CASE ScanEnd
  BY <1>1, <1>2, <1>22 DEF ScanEnd
<1>23. CASE ScanDrop
  <2>1. cursor' \in [page : Nat, slot : Nat] /\ seen' \in Seq([page : PageIds, slot : Nat])
    BY <1>23 DEF ScanDrop, Start
  <2> QED BY <1>1, <1>2, <1>23, <2>1 DEF ScanDrop
<1>24. CASE UNCHANGED vars
  BY <1>1, <1>2, <1>24 DEF vars
<1> QED BY <1>10, <1>11, <1>12, <1>13, <1>14, <1>15, <1>16, <1>17, <1>18, <1>19, <1>20, <1>21,
           <1>22, <1>23, <1>24 DEF Next, InsertStep, ScanStep

\* The file is sound in every state.
THEOREM HeapIsSound == Spec => []HeapInv
<1> QED BY HeapInvInit, HeapInvStep, PTL DEF Spec

\* Every variable has its type: a page never overflows, a leaf's bucket is one of the
\* BucketCount, and pages excluded, touched and seen are pages of the file.
THEOREM TypesHold == Spec => []TypeOK
<1>1. ASSUME HeapInv PROVE TypeOK
  BY <1>1 DEF HeapInv, FileOK, TypeOK
<1> QED BY <1>1, HeapIsSound, PTL

\* The bytes get returns for a live slot are those insert stored for it, whatever was
\* inserted and deleted since, on the pages compact was not called on.
THEOREM LiveRecordsReadBack == Spec => []RecordsReadBack
<1>1. ASSUME HeapInv PROVE RecordsReadBack
  <2>1. \A p \in PageIds : PageOK(PageOf(p)) /\ (p \notin compacted => RecordsOK(PageOf(p)))
    BY <1>1 DEF HeapInv, FileOK, PageIds, PageOf
  <2> QED BY <2>1, RecordsAreRead DEF RecordsReadBack
<1> QED BY <1>1, HeapIsSound, PTL

\* The directory of every page, compacted or not, ends before the free space and is never
\* written over, so that free_space does not underflow.
THEOREM DirectoriesStayIntact == Spec => []DirectoriesIntact
<1>1. ASSUME HeapInv PROVE DirectoriesIntact
  BY <1>1 DEF HeapInv, FileOK, PageIds, PageOf, PageOK, DirectoriesIntact
<1> QED BY <1>1, HeapIsSound, PTL

\* compact of a page it was not called on before never leaves the page, whatever was inserted
\* and deleted: the slices it copies (slotted_page.rs 94-95) are within bounds.  (Once it was
\* called, records are inserted over live ones, and a later call may panic.)
THEOREM FirstCompactStays == Spec => [](\A p \in PageIds \ compacted : ~CompactPanics(PageOf(p)))
<1>1. ASSUME HeapInv PROVE \A p \in PageIds \ compacted : ~CompactPanics(PageOf(p))
  <2>1. \A p \in PageIds : PageOK(PageOf(p)) /\ (p \notin compacted => RecordsOK(PageOf(p)))
    BY <1>1 DEF HeapInv, FileOK, PageIds, PageOf
  <2> QED BY <2>1, FirstCompactFits
<1> QED BY <1>1, HeapIsSound, PTL

\* Such a call keeps every live record, its slot and its bytes, when the live records fit
\* between the directory and free_end.  (Otherwise a record may be copied over another one
\* that was not moved yet: slotted_page.rs 88-98.)
THEOREM FirstCompactKeeps ==
  Spec => [][\A p \in PageIds \ compacted :
               PageCompact(p) /\ Compacted(PageOf(p)).freeEnd <= PageOf(p).freeEnd =>
                 /\ SlotCount(PageOf(p)') = SlotCount(PageOf(p))
                 /\ \A r \in SlotIds(PageOf(p)) : ReadSlot(PageOf(p)', r).len = ReadSlot(PageOf(p), r).len
                 /\ ReadsBack(PageOf(p)')]_vars
<1> DEFINE Keeps == \A p \in PageIds \ compacted :
               PageCompact(p) /\ Compacted(PageOf(p)).freeEnd <= PageOf(p).freeEnd =>
                 /\ SlotCount(PageOf(p)') = SlotCount(PageOf(p))
                 /\ \A r \in SlotIds(PageOf(p)) : ReadSlot(PageOf(p)', r).len = ReadSlot(PageOf(p), r).len
                 /\ ReadsBack(PageOf(p)')
<1>1. ASSUME HeapInv PROVE Keeps
  <2> SUFFICES ASSUME NEW p \in PageIds, p \notin compacted, PageCompact(p),
                      Compacted(PageOf(p)).freeEnd <= PageOf(p).freeEnd
               PROVE  /\ SlotCount(PageOf(p)') = SlotCount(PageOf(p))
                      /\ \A r \in SlotIds(PageOf(p)) :
                           ReadSlot(PageOf(p)', r).len = ReadSlot(PageOf(p), r).len
                      /\ ReadsBack(PageOf(p)')
    OBVIOUS
  <2> DEFINE pg == PageOf(p)
             w  == PageOf(p)'
  <2>1. PageOK(pg) /\ RecordsOK(pg) /\ Compacted(pg).freeEnd <= pg.freeEnd
    BY <1>1 DEF HeapInv, FileOK, PageIds, PageOf
  <2>2. w = Compacted(pg)
    <3>1. pages' = [pages EXCEPT ![p + 1] = Compacted(pg)]
      BY DEF PageCompact, Mutate
    <3>2. pages \in Seq(Page) /\ p + 1 \in 1 .. Len(pages)
      BY <1>1 DEF HeapInv, FileOK, PageIds
    <3> HIDE DEF pg
    <3>3. pages'[p + 1] = Compacted(pg)
      BY <3>1, <3>2
    <3> QED BY <3>3 DEF PageOf
  <2> HIDE DEF pg, w
  <2>3. /\ SlotCount(Compacted(pg)) = SlotCount(pg)
        /\ \A r \in SlotIds(pg) : ReadSlot(Compacted(pg), r).len = ReadSlot(pg, r).len
        /\ ReadsBack(Compacted(pg))
    BY <2>1, FirstCompactCopies
  <2>4. /\ SlotCount(w) = SlotCount(pg)
        /\ \A r \in SlotIds(pg) : ReadSlot(w, r).len = ReadSlot(pg, r).len
        /\ ReadsBack(w)
    BY <2>2, <2>3
  <2> QED BY <2>4 DEF pg, w
<1> QED BY <1>1, HeapIsSound, PTL

\* The map is a tree of maxima over one leaf for each page of the file, with the bucket of
\* the page's free space but for what get_page_mut's callers did.
THEOREM MapIsExact == Spec => []MapFollowsPages
<1>1. ASSUME HeapInv PROVE MapFollowsPages
  <2>1. FileOK(capacity, pages, fsm, touched, compacted) /\ Len(pages) \in Nat
    BY <1>1 DEF HeapInv, FileOK
  <2>2. IsMaxTree(capacity, fsm)
    BY <2>1 DEF FileOK
  <2>3. \A p \in 0 .. (capacity - 1) : LeafOK(fsm, capacity, pages, p, touched, compacted)
    BY <2>1 DEF FileOK
  <2>4. \A p \in 0 .. (capacity - 1) : p < Len(pages) <=> p \in PageIds
    BY <2>1 DEF PageIds
  <2> QED BY <2>2, <2>3, <2>4 DEF MapFollowsPages, LeafOK, PageOf
<1> QED BY <1>1, HeapIsSound, PTL

\* For every bucket and every set of excluded pages, find_page_excluding returns the
\* leftmost page it may, and none only if there is none.
THEOREM SearchFindsFirst == Spec => []MapFindsFirst
<1>1. ASSUME HeapInv PROVE MapFindsFirst
  <2> SUFFICES ASSUME NEW b \in Buckets, NEW ex \in SUBSET PageIds
               PROVE  FindsFirst(capacity, fsm, b, ex)
    BY DEF MapFindsFirst
  <2>1. FileOK(capacity, pages, fsm, touched, compacted) /\ b \in Nat
    BY <1>1 DEF HeapInv, Buckets
  <2>2. PICK found : found = FindPage(capacity, fsm, b, ex)
    OBVIOUS
  <2>3. /\ found # NoPage => found \in 0 .. (Len(pages) - 1)
        /\ found = NoPage =>
             \A p \in 0 .. (Len(pages) - 1) : fsm[Leaf(capacity, p)].max >= b => p \in ex
        /\ FindsFirst(capacity, fsm, b, ex)
    BY <2>1, <2>2, SearchInFile
  <2> QED BY <2>3
<1> QED BY <1>1, HeapIsSound, PTL

-----------------------------------------------------------------------------
\* Inserts.

\* An insert goes on past the pages it found too small.
LEMMA InsertInvStep == HeapInv /\ InsertInv /\ [Next]_vars => InsertInv'
<1> SUFFICES ASSUME HeapInv, InsertInv, [Next]_vars PROVE InsertInv'
  OBVIOUS
<1>1. ASSUME excluded' = {}, call' # "insert" \/ Accepts(size') PROVE InsertInv'
  <2>1. Accepts(size)' <=> Accepts(size')
    BY DEF Accepts
  <2> QED BY <1>1, <2>1 DEF InsertInv
<1>2. Idle => excluded = {}
  BY DEF Idle, InsertInv
<1>3. CASE CreatePage
  BY <1>1, <1>2, <1>3 DEF CreatePage, Idle
<1>4. ASSUME NEW len \in RecordSizes, Insert(len) PROVE InsertInv'
  BY <1>1, <1>2, <1>4 DEF Insert, Idle
<1>5. CASE InsertHere \/ InsertInNew \/ InsertFull
  BY <1>1, <1>5 DEF InsertHere, InsertInNew, InsertFull, Return
<1>6. CASE InsertElsewhere
  <2>1. /\ excluded' = excluded \cup {Candidate} /\ ~Suits(Candidate)
        /\ call' = call /\ call = "insert" /\ UNCHANGED <<pages, size>>
    BY <1>6 DEF InsertElsewhere, SkipPage
  <2>2. \A p : Suits(p)' <=> Suits(p)
    BY <2>1 DEF Suits, PageOf
  <2>3. \A p \in excluded' : ~Suits(p)'
    BY <2>1, <2>2 DEF InsertInv
  <2>4. Accepts(size)'
    BY <2>1 DEF InsertInv, Accepts
  <2> QED BY <2>1, <2>3, <2>4 DEF InsertInv
<1>7. ASSUME NEW p \in PageIds,
             \/ \E len \in RecordSizes : PageInsert(p, len)
             \/ \E s \in SlotIds(PageOf(p)) : PageDelete(p, s)
             \/ PageCompact(p)
      PROVE  InsertInv'
  BY <1>1, <1>2, <1>7 DEF PageInsert, PageDelete, PageCompact, Mutate, Idle
<1>8. CASE Scan \/ ScanStep \/ ScanDrop
  <2>1. excluded' = {} /\ call' # "insert"
    BY <1>8 DEF Scan, ScanStep, ScanPage, ScanSlot, ScanEnd, ScanDrop, InsertInv, Idle, AtSlot, AtPage
  <2> QED BY <1>1, <2>1
<1>9. CASE UNCHANGED vars
  BY <1>9 DEF vars, InsertInv, Suits, PageOf, Accepts
<1> QED BY <1>3, <1>4, <1>5, <1>6, <1>7, <1>8, <1>9 DEF Next, InsertStep

\* It does so in every state.
LEMMA InsertsGoOn == Spec => []InsertInv
<1>1. Init => InsertInv
  BY DEF Init, InsertInv
<1> QED BY <1>1, HeapIsSound, InsertInvStep, PTL DEF Spec

\* A page that takes a record has one more slot, the record's.
LEMMA OneSlotAdded ==
  ASSUME NEW pg, PageOK(pg), NEW len \in Nat, Fits(pg, len), NEW w, w = InsertRecord(pg, len)
  PROVE  w.slots = Append(pg.slots, [off |-> w.freeEnd, len |-> len])
<1>1. pg \in Page /\ DirectoryIntact(pg)
  BY DEF PageOK
<1>2. /\ w \in Page
      /\ w.freeEnd = pg.freeEnd - len
      /\ SlotOffset(SlotCount(pg) + 1) <= w.freeEnd
      /\ SlotCount(w) = SlotCount(pg) + 1
      /\ ReadSlot(w, SlotCount(pg)) = [off |-> pg.freeEnd - len, len |-> len]
      /\ \A r \in SlotIds(pg) : ReadSlot(w, r) = ReadSlot(pg, r)
      /\ w.bytes = [o \in Offsets |->
                      IF o \in Extent(SlotOffset(SlotCount(pg)), SlotSize) THEN Directory
                      ELSE IF o \in Extent(pg.freeEnd - len, len) THEN SlotCount(pg)
                      ELSE pg.bytes[o]]
  BY <1>1, RecordInserted
<1>3. /\ pg.slots \in Seq(Slot) /\ w.slots \in Seq(Slot) /\ Len(w.slots) = Len(pg.slots) + 1
      /\ Len(pg.slots) \in Nat
  BY <1>1, <1>2 DEF Page, SlotCount
<1> DEFINE n   == Len(pg.slots)
           new == [off |-> w.freeEnd, len |-> len]
<1>4. w.slots[n + 1] = new
  BY <1>2 DEF ReadSlot, SlotCount
<1>5. new \in Slot
  <2>1. n + 1 \in 1 .. Len(w.slots)
    BY <1>3
  <2> HIDE DEF new
  <2> QED BY <1>3, <1>4, <2>1
<1>6. ASSUME NEW i \in 1 .. n PROVE w.slots[i] = pg.slots[i]
  <2>1. i - 1 \in SlotIds(pg) /\ (i - 1) + 1 = i
    BY <1>3 DEF SlotIds, SlotCount
  <2>2. ReadSlot(w, i - 1) = ReadSlot(pg, i - 1)
    BY <1>2, <2>1
  <2> QED BY <2>1, <2>2 DEF ReadSlot
<1> HIDE DEF new
<1>7. Append(pg.slots, new) \in Seq(Slot) /\ Len(Append(pg.slots, new)) = n + 1
      /\ \A i \in 1 .. (n + 1) : Append(pg.slots, new)[i] = IF i = n + 1 THEN new ELSE pg.slots[i]
  BY <1>3, <1>5
<1>8. \A i \in 1 .. Len(w.slots) : w.slots[i] = Append(pg.slots, new)[i]
  BY <1>3, <1>4, <1>6, <1>7
<1>9. w.slots = Append(pg.slots, new)
  BY <1>3, <1>7, <1>8, SeqEqual
<1> QED BY <1>9 DEF new

\* An insert that ends well adds its record at the end of one page's directory and changes
\* no other slot of the file.
THEOREM InsertsAddOne == Spec => InsertAddsOne
<1> DEFINE Adds ==
      InsertHere \/ InsertInNew =>
       \E p \in 0 .. (Len(pages') - 1) :
         LET old(q) == IF q \in PageIds THEN PageOf(q).slots ELSE <<>>
             new(q) == pages'[q + 1].slots
         IN  /\ new(p) = Append(old(p), [off |-> pages'[p + 1].freeEnd, len |-> size])
             /\ \A q \in 0 .. (Len(pages') - 1) : q # p => new(q) = old(q)
<1>1. ASSUME HeapInv, InsertInv, [Next]_vars PROVE Adds
  <2>1. /\ FileOK(capacity, pages, fsm, touched, compacted)
        /\ pages \in Seq(Page) /\ Len(pages) \in Nat /\ size \in Nat
        /\ \A p \in PageIds : PageOK(PageOf(p))
    <3>1. size \in Nat
      BY <1>1, CandidateKnown
    <3>2. FileOK(capacity, pages, fsm, touched, compacted)
      BY <1>1 DEF HeapInv
    <3>3. pages \in Seq(Page) /\ Len(pages) \in Nat
      BY <3>2 DEF FileOK
    <3>4. \A p \in 0 .. (Len(pages) - 1) : PageOK(pages[p + 1])
      BY <3>2 DEF FileOK
    <3> QED BY <3>1, <3>2, <3>3, <3>4 DEF PageIds, PageOf
  <2>2. ASSUME NEW ps \in Seq(Page), NEW p \in 0 .. (Len(ps) - 1), PageOK(ps[p + 1]),
               Fits(ps[p + 1], size), pages' = [ps EXCEPT ![p + 1] = InsertRecord(ps[p + 1], size)]
        PROVE  /\ Len(pages') = Len(ps)
               /\ pages'[p + 1].slots =
                    Append(ps[p + 1].slots, [off |-> pages'[p + 1].freeEnd, len |-> size])
               /\ \A q \in 0 .. (Len(ps) - 1) : q # p => pages'[q + 1] = ps[q + 1]
    <3>1. PICK pg, new : pg = InsertRecord(ps[p + 1], size) /\ new = pages'
      OBVIOUS
    <3>2. PageOK(pg) /\ pg \in Page
      BY <2>1, <2>2, <3>1, InsertKeeps DEF PageOK
    <3>3. /\ new \in Seq(Page) /\ Len(new) = Len(ps) /\ new[p + 1] = pg
          /\ \A q \in 0 .. (Len(ps) - 1) : q # p => new[q + 1] = ps[q + 1]
      BY <2>2, <3>1, <3>2, PageReplaced
    <3>4. pg.slots = Append(ps[p + 1].slots, [off |-> pg.freeEnd, len |-> size])
      BY <2>1, <2>2, <3>1, OneSlotAdded
    <3> QED BY <3>1, <3>3, <3>4
  <2>3. CASE InsertHere
    <3>1. PICK p \in PageIds : p = Candidate
      BY <1>1, <2>3, CandidateKnown DEF InsertHere
    <3>2. p \in 0 .. (Len(pages) - 1) /\ PageOK(pages[p + 1]) /\ Fits(pages[p + 1], size)
      BY <2>1, <2>3, <3>1 DEF PageIds, PageOf, InsertHere, Suits, Fits
    <3>3. pages' = [pages EXCEPT ![p + 1] = InsertRecord(pages[p + 1], size)]
      BY <2>3, <3>1, <3>2 DEF InsertHere, InsertPage
    <3>4. /\ Len(pages') = Len(pages)
          /\ pages'[p + 1].slots =
               Append(pages[p + 1].slots, [off |-> pages'[p + 1].freeEnd, len |-> size])
          /\ \A q \in 0 .. (Len(pages) - 1) : q # p => pages'[q + 1] = pages[q + 1]
      BY <2>1, <2>2, <3>2, <3>3
    <3> QED BY <3>2, <3>4 DEF PageIds, PageOf
  <2>4. CASE InsertInNew
    <3>1. PICK ps : ps = WithNewPage
      OBVIOUS
    <3>2. /\ ps \in Seq(Page) /\ Len(ps) = Len(pages) + 1 /\ ps[Len(pages) + 1] = NewPage
          /\ \A q \in 0 .. (Len(pages) - 1) : ps[q + 1] = pages[q + 1]
      <4>1. NewPage \in Page
        BY NewPageOK DEF PageOK
      <4> QED BY <2>1, <3>1, <4>1 DEF WithNewPage
    <3>3. Fits(NewPage, size) /\ PageOK(NewPage) /\ NewPage.slots = <<>>
      <4>1. Accepts(size)
        BY <1>1, <2>4 DEF InsertInNew, InsertInv
      <4> QED BY <2>1, <4>1, NewPageOK, PageConstants DEF Accepts, Fits, MaxAvailable, NewPage
    <3>4. Len(pages) \in 0 .. (Len(ps) - 1)
      BY <2>1, <3>2
    <3>5. pages' = [ps EXCEPT ![Len(pages) + 1] = InsertRecord(ps[Len(pages) + 1], size)]
      BY <2>4, <3>1, <3>2, <3>3 DEF InsertInNew, InsertPage
    <3>6. /\ Len(pages') = Len(ps)
          /\ pages'[Len(pages) + 1].slots =
               Append(ps[Len(pages) + 1].slots,
                      [off |-> pages'[Len(pages) + 1].freeEnd, len |-> size])
          /\ \A q \in 0 .. (Len(ps) - 1) : q # Len(pages) => pages'[q + 1] = ps[q + 1]
      BY <2>2, <3>2, <3>3, <3>4, <3>5
    <3>7. \A q \in 0 .. (Len(ps) - 1) : q # Len(pages) => q \in PageIds /\ q \in 0 .. (Len(pages) - 1)
      BY <2>1, <3>2 DEF PageIds
    <3>8. Len(pages) \notin PageIds /\ Len(pages) \in 0 .. (Len(pages') - 1)
      BY <2>1, <3>2, <3>6 DEF PageIds
    <3> QED BY <3>2, <3>3, <3>6, <3>7, <3>8 DEF PageOf
  <2> QED BY <2>3, <2>4
<1>2. HeapInv /\ InsertInv /\ [Next]_vars => [Adds]_vars
  <2> HIDE DEF Adds
  <2> QED BY <1>1
<1>3. Spec => [][Adds]_vars
  <2> HIDE DEF Adds
  <2> QED BY <1>2, HeapIsSound, InsertsGoOn, PTL DEF Spec
<1> QED BY <1>3 DEF InsertAddsOne

\* HeapFileFull is reported when no page has room for the record, compacted pages aside,
\* although the search knows buckets only and the insert skips pages.
THEOREM FullMeansFull == Spec => FullIsGenuine
<1> DEFINE Genuine == InsertFull => \A p \in PageIds \ compacted : ~Fits(PageOf(p), size)
<1>1. ASSUME HeapInv, InsertInv PROVE Genuine
  <2> SUFFICES ASSUME InsertFull, NEW p \in PageIds, p \notin compacted, Fits(PageOf(p), size)
               PROVE  FALSE
    OBVIOUS
  <2>1. Candidate = NoPage /\ size \in Nat /\ Suits(p)
    BY <1>1, CandidateKnown DEF InsertFull, Suits, Fits
  <2>2. p \notin excluded
    BY <1>1, <2>1 DEF InsertInv
  <2>3. PageOK(PageOf(p)) /\ FreeSpace(PageOf(p)) \in Nat
    BY <1>1, FreeSpaceBounded DEF HeapInv, FileOK, PageIds, PageOf
  <2>4. /\ BucketOf(size + SlotSize) \in Nat /\ BucketOf(FreeSpace(PageOf(p))) \in Nat
        /\ BucketOf(size + SlotSize) <= BucketOf(FreeSpace(PageOf(p)))
    <3>1. size + SlotSize \in Nat /\ size + SlotSize <= FreeSpace(PageOf(p))
      BY <2>1, <2>3, PageConstants DEF Suits
    <3> QED BY <2>3, <3>1, BucketsOrdered
  <2>5. fsm[Leaf(capacity, p)].max >= BucketOf(FreeSpace(PageOf(p)))
        /\ fsm[Leaf(capacity, p)].max \in Int
    <3>1. /\ FileOK(capacity, pages, fsm, touched, compacted) /\ capacity \in Nat \ {0}
          /\ p \in 0 .. (capacity - 1) /\ p < Len(pages) /\ fsm \in Map(capacity)
      BY <1>1 DEF HeapInv, FileOK, PageIds
    <3>2. LeafOK(fsm, capacity, pages, p, touched, compacted)
      BY <3>1 DEF FileOK
    <3>3. fsm[Leaf(capacity, p)].max \in Int
      BY <3>1, Leaves DEF Map, Node, Buckets, NoBucket
    <3> QED BY <3>1, <3>2, <3>3 DEF LeafOK, PageOf
  <2>6. fsm[Leaf(capacity, p)].max >= BucketOf(size + SlotSize)
    BY <2>4, <2>5
  <2> QED BY <1>1, <2>1, <2>2, <2>6, CandidateKnown
<1>2. HeapInv /\ InsertInv => [Genuine]_vars
  <2> HIDE DEF Genuine
  <2> QED BY <1>1
<1>3. Spec => [][Genuine]_vars
  <2> HIDE DEF Genuine
  <2> QED BY <1>2, HeapIsSound, InsertsGoOn, PTL DEF Spec
<1> QED BY <1>3 DEF FullIsGenuine

-----------------------------------------------------------------------------
\* Scans.

\* Before a scan begins nothing was seen.
LEMMA ScanFresh == cursor = Start /\ seen = <<>> /\ call # "scanned" => ScanInv
<1> SUFFICES ASSUME cursor = Start, seen = <<>>, call # "scanned" PROVE ScanInv
  OBVIOUS
<1>1. \A p \in PageIds : \A s \in SlotIds(PageOf(p)) : ~Before([page |-> p, slot |-> s], cursor)
  BY DEF Start, Before, PageIds, SlotIds
<1>2. DOMAIN seen = {}
  OBVIOUS
<1> QED BY <1>1, <1>2 DEF ScanInv

\* A scan has seen what lies before its cursor.
LEMMA ScanInvStep == HeapInv /\ ScanInv /\ [Next]_vars => ScanInv'
<1> SUFFICES ASSUME HeapInv, ScanInv, [Next]_vars PROVE ScanInv'
  OBVIOUS
<1>1. ASSUME cursor' = Start, seen' = <<>>, call' # "scanned" PROVE ScanInv'
  <2>1. (cursor = Start /\ seen = <<>> /\ call # "scanned" => ScanInv)'
    BY ScanFresh, PTL
  <2> QED BY <1>1, <2>1 DEF Start
<1>2. call \notin {"scan", "scanned"} => cursor = Start /\ seen = <<>>
  BY DEF ScanInv
<1>3. CASE CreatePage
  BY <1>1, <1>2, <1>3 DEF CreatePage, Idle
<1>4. ASSUME NEW len \in RecordSizes, Insert(len) PROVE ScanInv'
  BY <1>1, <1>2, <1>4 DEF Insert, Idle
<1>5. CASE InsertStep
  BY <1>1, <1>2, <1>5
     DEF InsertStep, InsertHere, InsertElsewhere, InsertInNew, InsertFull, Return
<1>6. ASSUME NEW p \in PageIds,
             \/ \E len \in RecordSizes : PageInsert(p, len)
             \/ \E s \in SlotIds(PageOf(p)) : PageDelete(p, s)
             \/ PageCompact(p)
      PROVE  ScanInv'
  BY <1>1, <1>2, <1>6 DEF PageInsert, PageDelete, PageCompact, Mutate, Idle
<1>7. CASE Scan
  BY <1>1, <1>2, <1>7 DEF Scan, Idle
<1>8. CASE ScanDrop
  BY <1>1, <1>8 DEF ScanDrop
<1>9. CASE UNCHANGED vars
  BY <1>9 DEF vars, ScanInv, IsRecord, PageIds, PageOf
<1>10. /\ cursor \in [page : Nat, slot : Nat] /\ seen \in Seq([page : PageIds, slot : Nat])
       /\ Len(pages) \in Nat /\ \A p \in PageIds : SlotCount(PageOf(p)) \in Nat
       /\ DOMAIN seen = 1 .. Len(seen) /\ Len(seen) \in Nat
  <2>1. Len(pages) \in Nat /\ \A p \in PageIds : PageOf(p) \in Page
    BY DEF HeapInv, FileOK, PageOK, PageIds, PageOf
  <2> QED BY <2>1 DEF HeapInv, Page, SlotCount
<1>11. ASSUME NEW i \in DOMAIN seen
       PROVE  /\ seen[i] = [page |-> seen[i].page, slot |-> seen[i].slot]
              /\ seen[i].page \in PageIds /\ seen[i].page \in Nat /\ seen[i].slot \in Nat
  <2> DEFINE S == [page : PageIds, slot : Nat]
  <2>1. seen[i] \in S
    <3> HIDE DEF S
    <3>1. seen \in Seq(S) /\ i \in 1 .. Len(seen)
      BY <1>10 DEF S
    <3> QED BY <3>1, ElementOfSeq
  <2> QED BY <1>10, <2>1 DEF PageIds
<1>12. CASE ScanPage \/ ScanSlot \/ ScanEnd
  <2>1. /\ UNCHANGED pages /\ call = "scan" /\ call' \in {"scan", "scanned"}
        /\ call' = "scanned" => cursor' = cursor /\ cursor.page >= Len(pages)
    BY <1>12 DEF ScanPage, ScanSlot, ScanEnd, AtPage, AtSlot
  <2>2. /\ PageIds' = PageIds /\ \A r : IsRecord(r)' <=> IsRecord(r)
        /\ \A p : SlotIds(PageOf(p))' = SlotIds(PageOf(p))
        /\ \A p : SlotIds(pages'[p + 1]) = SlotIds(PageOf(p))
    BY <2>1 DEF PageIds, IsRecord, PageOf
  <2>3. SUFFICES
          /\ \A i, j \in DOMAIN seen' : i < j => Before(seen'[i], seen'[j])
          /\ \A i \in DOMAIN seen' : IsRecord(seen'[i]) /\ Before(seen'[i], cursor')
          /\ \A p \in PageIds : \A s \in SlotIds(PageOf(p)) :
               IsRecord([page |-> p, slot |-> s]) /\ Before([page |-> p, slot |-> s], cursor')
                 => \E i \in DOMAIN seen' : seen'[i] = [page |-> p, slot |-> s]
    BY <2>1, <2>2 DEF ScanInv, IsRecord, PageIds, PageOf, Before
  <2>4. CASE ScanEnd
    BY <2>4 DEF ScanEnd, ScanInv
  <2>5. CASE ScanPage
    <3>1. /\ seen' = seen /\ cursor' = [page |-> cursor.page + 1, slot |-> 0]
          /\ cursor.page \in PageIds /\ cursor.slot >= SlotCount(PageOf(cursor.page))
      BY <1>10, <2>5 DEF ScanPage, NextPage, AtPage, PageIds
    <3>2. ASSUME NEW p \in PageIds, NEW s \in SlotIds(PageOf(p))
          PROVE  Before([page |-> p, slot |-> s], cursor')
                   <=> Before([page |-> p, slot |-> s], cursor)
      <4>1. p \in Nat /\ s \in Nat /\ s < SlotCount(PageOf(p)) /\ SlotCount(PageOf(p)) \in Nat
            /\ cursor.page \in Nat /\ cursor.slot \in Nat
        BY <1>10 DEF PageIds, SlotIds
      <4>2. p = cursor.page => s < cursor.slot
        BY <3>1, <4>1
      <4> QED BY <3>1, <4>1, <4>2 DEF Before
    <3>3. ASSUME NEW i \in DOMAIN seen PROVE IsRecord(seen[i]) /\ Before(seen[i], cursor')
      <4>1. IsRecord(seen[i]) /\ Before(seen[i], cursor)
        BY DEF ScanInv
      <4>2. seen[i] = [page |-> seen[i].page, slot |-> seen[i].slot]
        BY <1>11
      <4>3. seen[i].page \in PageIds /\ seen[i].slot \in SlotIds(PageOf(seen[i].page))
        BY <4>1 DEF IsRecord
      <4>4. Before([page |-> seen[i].page, slot |-> seen[i].slot], cursor)
        BY <4>1, <4>2
      <4> QED BY <3>2, <4>1, <4>2, <4>3, <4>4
    <3> QED BY <3>1, <3>2, <3>3 DEF ScanInv
  <2>6. CASE ScanSlot
    <3>1. /\ cursor.page \in PageIds /\ cursor.slot \in SlotIds(PageOf(cursor.page))
          /\ cursor' = [page |-> cursor.page, slot |-> cursor.slot + 1]
          /\ cursor = [page |-> cursor.page, slot |-> cursor.slot]
          /\ cursor.page \in Nat /\ cursor.slot \in Nat
      BY <1>10, <2>6 DEF ScanSlot, AtSlot, AtPage, PageIds, SlotIds
    <3>2. ASSUME NEW r, r.page \in Nat, r.slot \in Nat
          PROVE  Before(r, cursor') <=>
                   Before(r, cursor) \/ (r.page = cursor.page /\ r.slot = cursor.slot)
      BY <3>1, <3>2 DEF Before
    <3>3. \A i \in DOMAIN seen : seen[i].page \in Nat /\ seen[i].slot \in Nat
      BY <1>11
    <3>4. \A i \in DOMAIN seen :
            IsRecord(seen[i]) /\ Before(seen[i], cursor) /\ Before(seen[i], cursor')
      BY <3>2, <3>3 DEF ScanInv
    <3>5. CASE IsLive(PageOf(cursor.page), cursor.slot)
      <4>1. seen' = Append(seen, cursor)
        BY <2>6, <3>5 DEF ScanSlot
      <4>2. IsRecord(cursor) /\ Before(cursor, cursor')
        BY <3>1, <3>2, <3>5 DEF IsRecord
      <4>3. /\ DOMAIN seen' = 1 .. (Len(seen) + 1)
            /\ \A i \in DOMAIN seen : i \in DOMAIN seen' /\ seen'[i] = seen[i]
            /\ seen'[Len(seen) + 1] = cursor
            /\ \A i \in DOMAIN seen' : i \in DOMAIN seen \/ i = Len(seen) + 1
        <5> DEFINE S == [page : PageIds, slot : Nat]
        <5>1. seen \in Seq(S) /\ cursor \in S
          BY <1>10, <3>1
        <5> HIDE DEF S
        <5> QED BY <1>10, <4>1, <5>1
      <4>4. ASSUME NEW i \in DOMAIN seen', NEW j \in DOMAIN seen', i < j
            PROVE  Before(seen'[i], seen'[j])
        <5>1. i \in DOMAIN seen
          BY <1>10, <4>3, <4>4
        <5>2. CASE j \in DOMAIN seen
          BY <4>3, <4>4, <5>1, <5>2 DEF ScanInv
        <5>3. CASE j = Len(seen) + 1
          BY <3>4, <4>3, <5>1, <5>3
        <5> QED BY <4>3, <5>2, <5>3
      <4>5. \A i \in DOMAIN seen' : IsRecord(seen'[i]) /\ Before(seen'[i], cursor')
        BY <3>4, <4>2, <4>3
      <4>6. ASSUME NEW p \in PageIds, NEW s \in SlotIds(PageOf(p)),
                   IsRecord([page |-> p, slot |-> s]), Before([page |-> p, slot |-> s], cursor')
            PROVE  \E i \in DOMAIN seen' : seen'[i] = [page |-> p, slot |-> s]
        <5>1. p \in Nat /\ s \in Nat
          BY <1>10 DEF PageIds, SlotIds
        <5>2. Before([page |-> p, slot |-> s], cursor) \/ (p = cursor.page /\ s = cursor.slot)
          BY <3>2, <4>6, <5>1
        <5>3. CASE Before([page |-> p, slot |-> s], cursor)
          <6>1. PICK i \in DOMAIN seen : seen[i] = [page |-> p, slot |-> s]
            BY <4>6, <5>3 DEF ScanInv
          <6> QED BY <4>3, <6>1
        <5>4. CASE p = cursor.page /\ s = cursor.slot
          <6>1. Len(seen) + 1 \in DOMAIN seen'
            BY <1>10, <4>3
          <6> QED BY <3>1, <4>3, <5>4, <6>1
        <5> QED BY <5>2, <5>3, <5>4
      <4> QED BY <4>4, <4>5, <4>6
    <3>6. CASE ~IsLive(PageOf(cursor.page), cursor.slot)
      <4>1. seen' = seen
        BY <2>6, <3>6 DEF ScanSlot
      <4>2. ASSUME NEW p \in PageIds, NEW s \in SlotIds(PageOf(p)),
                   IsRecord([page |-> p, slot |-> s]), Before([page |-> p, slot |-> s], cursor')
            PROVE  \E i \in DOMAIN seen : seen[i] = [page |-> p, slot |-> s]
        <5>1. p \in Nat /\ s \in Nat
          BY <1>10 DEF PageIds, SlotIds
        <5>2. Before([page |-> p, slot |-> s], cursor) \/ (p = cursor.page /\ s = cursor.slot)
          BY <3>2, <4>2, <5>1
        <5>3. ~(p = cursor.page /\ s = cursor.slot)
          BY <3>6, <4>2 DEF IsRecord
        <5> QED BY <4>2, <5>2, <5>3 DEF ScanInv
      <4>3. \A i, j \in DOMAIN seen : i < j => Before(seen[i], seen[j])
        BY DEF ScanInv
      <4> QED BY <3>4, <4>1, <4>2, <4>3
    <3> QED BY <3>5, <3>6
  <2> QED BY <1>12, <2>4, <2>5, <2>6
<1> QED BY <1>3, <1>4, <1>5, <1>6, <1>7, <1>8, <1>9, <1>12 DEF Next, ScanStep

\* A scan that ended returned every live record of the file once, in order of pages and
\* slots, and nothing else.
THEOREM ScansAreComplete == Spec => []ScanComplete
<1>1. Init => ScanInv
  <2>1. Init => cursor = Start /\ seen = <<>> /\ call # "scanned"
    BY DEF Init
  <2> QED BY <2>1, ScanFresh
<1>2. ASSUME HeapInv, ScanInv PROVE ScanComplete
  <2> SUFFICES ASSUME call = "scanned" PROVE ScanComplete
    BY DEF ScanComplete
  <2>1. cursor.page \in Nat /\ cursor.page >= Len(pages) /\ Len(pages) \in Nat
    BY <1>2 DEF HeapInv, FileOK, ScanInv
  <2>2. ASSUME NEW p \in PageIds, NEW s \in SlotIds(PageOf(p))
        PROVE  Before([page |-> p, slot |-> s], cursor)
    BY <2>1 DEF PageIds, Before
  <2> QED BY <1>2, <2>2 DEF ScanComplete, ScanInv
<1> QED BY <1>1, <1>2, HeapIsSound, HeapInvStep, ScanInvStep, PTL DEF Spec

\* Why calls end: a round of insert that goes on leaves fewer pages to try than there were,
\* and a round of a scan ends it or moves its cursor forward within the file.
THEOREM RoundsAdvance ==
  Spec => [][/\ InsertElsewhere =>
                  /\ IsFiniteSet(PageIds) /\ PageIds' = PageIds /\ size' = size
                  /\ Cardinality(PageIds \ excluded') < Cardinality(PageIds \ excluded)
             /\ ScanStep =>
                  \/ call' = "scanned"
                  \/ /\ pages' = pages /\ Before(cursor, cursor') /\ cursor'.page <= Len(pages)
                     /\ cursor'.page < Len(pages) => cursor'.slot <= SlotCount(PageOf(cursor'.page))]_vars
<1> DEFINE Round == InsertElsewhere =>
                      /\ IsFiniteSet(PageIds) /\ PageIds' = PageIds /\ size' = size
                      /\ Cardinality(PageIds \ excluded') < Cardinality(PageIds \ excluded)
           Pass  == ScanStep =>
                      \/ call' = "scanned"
                      \/ /\ pages' = pages /\ Before(cursor, cursor') /\ cursor'.page <= Len(pages)
                         /\ cursor'.page < Len(pages) => cursor'.slot <= SlotCount(PageOf(cursor'.page))
<1>1. ASSUME HeapInv, InsertElsewhere
      PROVE  /\ IsFiniteSet(PageIds) /\ PageIds' = PageIds /\ size' = size
             /\ Cardinality(PageIds \ excluded') < Cardinality(PageIds \ excluded)
  <2> DEFINE c    == Candidate
             left == PageIds \ excluded
  <2>1. c \in PageIds /\ c \notin excluded
    <3>1. c # NoPage /\ c \in PageIds /\ BucketOf(size + SlotSize) \in Nat
      BY <1>1, CandidateKnown DEF InsertElsewhere
    <3>2. c = FindPage(capacity, fsm, BucketOf(size + SlotSize), excluded)
      BY DEF FindPageExcluding, Candidate
    <3>3. FileOK(capacity, pages, fsm, touched, compacted)
      BY <1>1 DEF HeapInv
    <3>4. FindsFirst(capacity, fsm, BucketOf(size + SlotSize), excluded)
      BY <3>1, <3>2, <3>3, SearchInFile
    <3> HIDE DEF c
    <3> QED BY <3>1, <3>2, <3>4 DEF FindsFirst
  <2>2. excluded' = excluded \cup {c} /\ pages' = pages /\ size' = size
    BY <1>1 DEF InsertElsewhere, SkipPage
  <2>3. IsFiniteSet(PageIds)
    <3> DEFINE b == Len(pages) - 1
    <3>1. b \in Int
      BY <1>1 DEF HeapInv, FileOK
    <3> HIDE DEF b
    <3>2. IsFiniteSet(0 .. b)
      BY <3>1, FS_Interval
    <3> QED BY <3>2 DEF PageIds, b
  <2>4. PageIds' = PageIds
    BY <2>2 DEF PageIds
  <2>5. PageIds \ excluded' = left \ {c} /\ c \in left
    BY <2>1, <2>2
  <2>6. IsFiniteSet(left)
    BY <2>3, FS_Subset
  <2> HIDE DEF left, c
  <2>7. Cardinality(left \ {c}) = Cardinality(left) - 1 /\ Cardinality(left) \in Nat
    BY <2>5, <2>6, FS_RemoveElement, FS_CardinalityType
  <2>8. Cardinality(left \ {c}) < Cardinality(left)
    BY <2>7
  <2> QED BY <2>2, <2>3, <2>4, <2>5, <2>8 DEF left
<1>2. ASSUME HeapInv, ScanStep
      PROVE  \/ call' = "scanned"
             \/ /\ pages' = pages /\ Before(cursor, cursor') /\ cursor'.page <= Len(pages)
                /\ cursor'.page < Len(pages) => cursor'.slot <= SlotCount(PageOf(cursor'.page))
  <2>1. /\ cursor \in [page : Nat, slot : Nat] /\ Len(pages) \in Nat
        /\ \A p \in PageIds : SlotCount(PageOf(p)) \in Nat
    BY <1>2 DEF HeapInv, FileOK, PageIds, PageOf, PageOK, Page, SlotCount
  <2>2. CASE ScanPage
    <3>1. /\ cursor' = [page |-> cursor.page + 1, slot |-> 0] /\ pages' = pages
          /\ cursor.page < Len(pages)
      BY <2>2 DEF ScanPage, NextPage, AtPage
    <3>2. cursor'.page < Len(pages) => cursor'.page \in PageIds
      BY <2>1, <3>1 DEF PageIds
    <3> QED BY <2>1, <3>1, <3>2 DEF Before
  <2>3. CASE ScanSlot
    <3>1. /\ cursor' = [page |-> cursor.page, slot |-> cursor.slot + 1] /\ pages' = pages
          /\ cursor.page < Len(pages) /\ cursor.slot < SlotCount(PageOf(cursor.page))
      BY <2>1, <2>3 DEF ScanSlot, AtSlot, AtPage
    <3>2. cursor.page \in PageIds
      BY <2>1, <3>1 DEF PageIds
    <3> QED BY <2>1, <3>1, <3>2 DEF Before
  <2>4. CASE ScanEnd
    BY <2>4 DEF ScanEnd
  <2> QED BY <1>2, <2>2, <2>3, <2>4 DEF ScanStep
<1>3. HeapInv => Round /\ Pass
  BY <1>1, <1>2
<1> QED BY <1>3, HeapIsSound, PTL
=============================================================================
