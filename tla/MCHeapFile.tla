----------------------------- MODULE MCHeapFile -----------------------------
(***************************************************************************)
(* The heap file on small pages: configurations give the sizes.            *)
(***************************************************************************)
EXTENDS HeapFileProperties
=============================================================================
