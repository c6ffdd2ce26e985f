---------------------------- MODULE MCBPlusTree -----------------------------
(***************************************************************************)
(* Small instances of BPlusTree: one key with as many record ids as fill   *)
(* more than a leaf, among keys with a single one.                         *)
(***************************************************************************)
EXTENDS BPlusTree

MCUniverse == {<<1, 1>>, <<2, 1>>, <<2, 2>>, <<2, 3>>, <<3, 1>>, <<4, 1>>}
=============================================================================
