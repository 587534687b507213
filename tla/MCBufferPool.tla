---------------------------- MODULE MCBufferPool ----------------------------
(***************************************************************************)
(* The buffer pool on small instances.  Each configuration names the       *)
(* callers of its run.                                                     *)
(***************************************************************************)
EXTENDS BufferPoolRefinement

CONSTANTS t1, t2, t3

\* Concurrent deletions on a failing disk may put a frame on the free list again
\* and again: bound for that run.
FreeListBound == Len(freeList) <= NumFrames + 1
=============================================================================
