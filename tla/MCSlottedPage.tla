--------------------------- MODULE MCSlottedPage ----------------------------
(***************************************************************************)
(* A page of PageSize bytes with records of one, two and three bytes.      *)
(***************************************************************************)
EXTENDS SlottedPage

CONSTANTS a, b1, b2, c1, c2, c3

MCRecords == {<<a>>, <<b1, b2>>, <<c1, c2, c3>>}
=============================================================================
