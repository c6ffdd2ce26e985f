-------------------------------- MODULE Space ---------------------------------
(***************************************************************************)
(* The space records take together, counted byte by byte: the sum of the   *)
(* sizes of a family of records, as SlottedPage::reclaimable_space and     *)
(* replace add it up (src/page.cpp).  The sum is the number of the bytes,  *)
(* so that it can be reasoned about without induction.                     *)
(***************************************************************************)
EXTENDS Integers, FiniteSets

\* The bytes of records of the given sizes: byte i of record s is <<s, i>>.
BytesOf(size) == UNION {{s} \X (1 .. size[s]) : s \in DOMAIN size}

\* The sum of size[s] over all s.
Total(size) == Cardinality(BytesOf(size))
=============================================================================
