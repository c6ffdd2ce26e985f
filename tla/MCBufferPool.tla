--------------------------- MODULE MCBufferPool -----------------------------
(***************************************************************************)
(* Small instances of BufferPool for TLC.                                  *)
(***************************************************************************)
EXTENDS BufferPool, TLC

CONSTANTS v0, v1, torn, absent, g1, g2, g3

\* Guard objects are interchangeable.
GuardSymmetry == Permutations(Guards)
=============================================================================
