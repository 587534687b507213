------------------------------- MODULE Frame -------------------------------
(***************************************************************************)
(* One frame of the buffer pool (frame.rs): the page it holds, the bits    *)
(* the pool keeps about it, and the operations on them, as operators on a  *)
(* record.  PageMeta is an Option in the code: page = None stands for      *)
(* "no metadata", and the other metadata fields then have their least      *)
(* value.  The page's bytes are left out: a caller reaches a frame only    *)
(* through the manager, which never hands out a reference to the bytes.    *)
(***************************************************************************)
EXTENDS Integers

CONSTANTS PageIdLimit,  \* u16::MAX, an id new_page never hands out
          MaxPins       \* u8::MAX: pin_count saturates there

ASSUME FrameConstants == /\ PageIdLimit \in Nat \ {0}
                         /\ MaxPins \in Nat \ {0}

None == -1
PageIds == 0 .. PageIdLimit

FrameStates == {"Free", "Reserved", "Resident"}

FrameRecord == [st    : FrameStates,
                page  : PageIds \cup {None},
                pins  : 0 .. MaxPins,
                dirty : BOOLEAN,
                ref   : BOOLEAN]

NewFrame == [st |-> "Free", page |-> None, pins |-> 0,
             dirty |-> FALSE, ref |-> FALSE]

HasMeta(fr)    == fr.page # None
IsReserved(fr) == fr.st = "Reserved"
IsPinned(fr)   == fr.pins > 0

\* Every caller but the owner of a reservation leaves a Reserved frame alone.
\* Mutant: the check is dropped.
AlwaysOpen(fr) == TRUE
IsOpen(fr)     == ~IsReserved(fr)

\* The clock and delete_page take a frame that is neither.  Mutant: the pin
\* check is dropped.
UnusedOrPinned(fr) == ~IsReserved(fr)
Unused(fr)         == ~IsPinned(fr) /\ ~IsReserved(fr)

\* load_page replaces the metadata as a whole and ends in set_resident.
LoadPage(fr, p) == [st |-> "Resident", page |-> p, pins |-> 0,
                    dirty |-> FALSE, ref |-> FALSE]

\* Mutants: the state is left as it is; the dirty bit goes with it.
KeepState(fr)        == fr
SetResidentClean(fr) == [fr EXCEPT !.st = "Resident", !.dirty = FALSE]

SetFree(fr)     == [fr EXCEPT !.st = "Free"]
SetResident(fr) == [fr EXCEPT !.st = "Resident"]
Reserve(fr)     == [fr EXCEPT !.st = "Reserved"]
Reset(fr)       == NewFrame

\* Mutants: a pin bit in place of a count.
PinBit(fr)   == IF HasMeta(fr) THEN [fr EXCEPT !.pins = 1] ELSE fr
UnpinBit(fr) == IF HasMeta(fr) THEN [fr EXCEPT !.pins = 0] ELSE fr

\* pin saturates; each of these is an error without metadata and then
\* leaves the frame as it is.
Pin(fr) == IF HasMeta(fr) /\ fr.pins < MaxPins
           THEN [fr EXCEPT !.pins = @ + 1] ELSE fr
Unpin(fr) == IF HasMeta(fr) /\ fr.pins > 0
             THEN [fr EXCEPT !.pins = @ - 1] ELSE fr
MarkDirty(fr)        == IF HasMeta(fr) THEN [fr EXCEPT !.dirty = TRUE] ELSE fr
ClearDirty(fr)       == IF HasMeta(fr) THEN [fr EXCEPT !.dirty = FALSE] ELSE fr
MarkReferenced(fr)   == IF HasMeta(fr) THEN [fr EXCEPT !.ref = TRUE] ELSE fr
MarkUnreferenced(fr) == IF HasMeta(fr) THEN [fr EXCEPT !.ref = FALSE] ELSE fr
=============================================================================
