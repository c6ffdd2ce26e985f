----------------------------- MODULE MCHeapFile -----------------------------
(***************************************************************************)
(* A file of at most MaxPages pages with two images.                       *)
(***************************************************************************)
EXTENDS HeapFile

CONSTANTS v0, v1, torn, absent
=============================================================================
