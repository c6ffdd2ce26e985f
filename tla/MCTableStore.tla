---------------------------- MODULE MCTableStore ----------------------------
(***************************************************************************)
(* Small instances of TableStore: two tables, so that a record id can pass *)
(* from one to the other, two indexes that may be on either table and      *)
(* column, two keys, and rows with a key in one column or different keys   *)
(* in both.                                                                *)
(***************************************************************************)
EXTENDS TableStore, TLC

FewValues == {values \in [Columns -> Keys \cup {Null}] :
                /\ \A c, d \in Columns : c # d => values[c] # values[d]
                /\ \E c \in Columns : values[c] = 2}

Symmetries == Permutations(Indexes) \cup Permutations(Columns)
                \cup Permutations(Ids) \cup Permutations(Tables)
=============================================================================
