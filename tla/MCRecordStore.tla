--------------------------- MODULE MCRecordStore ----------------------------
(***************************************************************************)
(* Small instances of RecordStore: pages that hold two small records or    *)
(* one large one, a record too large for any page, and two cursors.         *)
(***************************************************************************)
EXTENDS RecordStore

CONSTANTS c1, c2
=============================================================================
