-------------------------- MODULE MCBPlusTreeCrash --------------------------
(***************************************************************************)
(* Small instances of BPlusTreeCrash, with one record id per key.          *)
(***************************************************************************)
EXTENDS BPlusTreeCrash

MCUniverse == {<<1, 1>>, <<2, 1>>, <<3, 1>>, <<4, 1>>}
=============================================================================
