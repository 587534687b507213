------------------------ MODULE BufferPoolRefinement ------------------------
(***************************************************************************)
(* BufferPool implements PageCache.  A page is resident from the moment    *)
(* the page table has it; while it is loaded into a reserved frame, or its *)
(* victim is written back and not yet replaced, callers see nothing of it. *)
(***************************************************************************)
EXTENDS BufferPoolProperties

Cache == INSTANCE PageCache WITH
  Limit    <- PageIdLimit,
  Capacity <- NumFrames,
  Foreign  <- ForeignIds,
  resident <- {p \in PageIds : IsMapped(table, p)},
  pins     <- [p \in PageIds |-> IF IsMapped(table, p) THEN frame[table[p]].pins ELSE 0],
  unsaved  <- {p \in PageIds : store[p] # "saved"},
  issued   <- nextPage

\* For its callers the pool is a page cache: whatever evictions, loads, flushes and
\* deletions of several threads overlap, each step is one atomic step of the cache,
\* or none; in particular a page leaves only unpinned and saved, in the very step
\* that brings the page it makes room for (replace, 723-725 and 1058).
ImplementsPageCache == Cache!Spec
=============================================================================
