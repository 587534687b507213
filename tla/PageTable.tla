----------------------------- MODULE PageTable -----------------------------
(***************************************************************************)
(* The page table (page_table.rs): a partial map from page ids to frames,  *)
(* kept as a total function whose absent entries are None.                 *)
(***************************************************************************)
EXTENDS Frame

CONSTANT NumFrames  \* pool_size

ASSUME PoolSize == NumFrames \in Nat \ {0}

FrameIds == 0 .. (NumFrames - 1)

EmptyTable == [p \in PageIds |-> None]

IsMapped(tb, p)  == tb[p] # None
Insert(tb, p, f) == [tb EXCEPT ![p] = f]
Remove(tb, p)    == [tb EXCEPT ![p] = None]

\* replace checks three things, in this order, and changes nothing when one
\* of them fails: OldPageMissing, PoisonedMapping, PageAlreadyExist.
CanReplace(tb, old, new, f) == /\ IsMapped(tb, old)
                               /\ tb[old] = f
                               /\ ~IsMapped(tb, new)

\* Mutant: the old page stays in the table.
ReplaceKeepsOld(tb, old, new, f) == [tb EXCEPT ![new] = f]

Replace(tb, old, new, f) == [tb EXCEPT ![old] = None, ![new] = f]
=============================================================================
