----------------------------- MODULE PageCache -----------------------------
(***************************************************************************)
(* What a buffer pool is to its callers: a bounded set of resident pages,  *)
(* each pinned some number of times, some of them newer than the disk.     *)
(* There are no frames, locks, threads, loads in flight or failures; a     *)
(* page comes and goes in one step.  BufferPool implements this module     *)
(* under the mapping of BufferPoolRefinement.                              *)
(***************************************************************************)
EXTENDS Integers, FiniteSets

CONSTANTS Limit,     \* the last id; Create hands out those below it
          Capacity,  \* pages resident at one time
          Foreign    \* ids that may be loaded without having been issued

VARIABLES
  resident,  \* the pages in the pool
  pins,      \* how often each of them is pinned
  unsaved,   \* the pages newer than the disk's copy
  issued     \* the ids handed out are those below

cache == <<resident, pins, unsaved, issued>>

Pages == 0 .. Limit

Init == /\ resident = {}
        /\ pins = [p \in Pages |-> 0]
        /\ unsaved = {}
        /\ issued = 0

\* The pages that may leave: nobody holds them and the disk has them.
Evictable == {p \in resident : pins[p] = 0} \ unsaved

\* Page p comes in and is pinned once; at most one page leaves for it, and one
\* does when the pool is full.
Bring(p) ==
  /\ p \notin resident
  /\ \E out \in SUBSET Evictable :
       /\ Cardinality(out) <= 1
       /\ resident' = (resident \ out) \cup {p}
  /\ Cardinality(resident') <= Capacity
  /\ pins' = [pins EXCEPT ![p] = 1]

Load(p)   == /\ p \in Foreign \/ p < issued
             /\ Bring(p)
             /\ UNCHANGED <<unsaved, issued>>

Create    == /\ issued < Limit
             /\ Bring(issued)
             /\ unsaved' = unsaved \cup {issued}
             /\ issued' = issued + 1

Hold(p)   == /\ p \in resident
             /\ pins' = [pins EXCEPT ![p] = @ + 1]
             /\ UNCHANGED <<resident, unsaved, issued>>

Release(p) == /\ p \in resident /\ pins[p] > 0
              /\ pins' = [pins EXCEPT ![p] = @ - 1]
              /\ UNCHANGED <<resident, unsaved, issued>>

Change(p) == /\ p \in resident
             /\ unsaved' = unsaved \cup {p}
             /\ UNCHANGED <<resident, pins, issued>>

\* Pages are written back: one by an eviction or a flush, several by a flush of
\* all; they stay.
Save(S)   == /\ S \subseteq unsaved
             /\ unsaved' = unsaved \ S
             /\ UNCHANGED <<resident, pins, issued>>

Drop(p)   == /\ p \in Evictable
             /\ resident' = resident \ {p}
             /\ UNCHANGED <<pins, unsaved, issued>>

Next == \/ Create
        \/ \E p \in Pages : Load(p) \/ Hold(p) \/ Release(p) \/ Change(p) \/ Drop(p)
        \/ \E S \in SUBSET unsaved : Save(S)

Spec == Init /\ [][Next]_cache
=============================================================================
