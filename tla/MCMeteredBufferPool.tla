------------------------ MODULE MCMeteredBufferPool ------------------------
(***************************************************************************)
(* The metered buffer pool on small instances: callers fetch, change and   *)
(* unpin pages that are on disk.                                           *)
(***************************************************************************)
EXTENDS MeteredBufferPool

CONSTANTS t1, t2, t3
=============================================================================
