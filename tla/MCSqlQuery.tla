----------------------------- MODULE MCSqlQuery ------------------------------
(***************************************************************************)
(* Small instances of SqlQuery: a table with two integer columns, a text   *)
(* and a boolean, in which keys repeat, are null, and come in no order,    *)
(* with one page without a row; and keys at both ends of the range of the  *)
(* integers.                                                               *)
(***************************************************************************)
EXTENDS SqlQuery

MCNames == {"id", "ID", "Age", "age", "Note", "flag", "people", "People", "none"}
MCFold == [name \in MCNames |-> CASE name = "ID" -> "id" [] name = "Age" -> "age"
                                  [] name = "Note" -> "note" [] name = "People" -> "people"
                                  [] OTHER -> name]
Column(name, type) == [name |-> name, type |-> type]
MCSchema == <<Column("id", "integer"), Column("Age", "integer"), Column("Note", "text"),
              Column("flag", "boolean")>>

\* The text differs where the id does, in the other direction.
Values(id, age) ==
  <<id, age, IF id = Null THEN Null ELSE 2 - id,
    IF age = Null THEN Null ELSE IF age = 1 THEN 1 ELSE 0>>
MCRows == <<Values(2, 1), Values(1, 0), Values(1, Null), Gone, Values(0, 1), Values(Null, 2),
            Values(1, 1)>>
MCNewRows == {Values(1, 1)}

All == [from |-> "People", all |-> TRUE, columns |-> <<>>]
Some(columns) == [from |-> "people", all |-> FALSE, columns |-> columns]
By(column, descending) == [column |-> column, descending |-> descending]
Statement(indexes, selects, orders, limits) ==
  [indexed : indexes, select : selects, order : orders, limit : limits]

\* Sets of indexes, orders and limits with all columns; orders by a text;
\* columns chosen, repeated and swapped; and what the binder refuses.
MCStatements ==
  Statement({{1}, {1, 2}}, {All}, {Absent, By("ID", FALSE), By("id", TRUE)}, {Absent, 2})
    \cup Statement({{1, 2}}, {All}, {By("age", FALSE)}, {Absent, 1})
    \cup Statement({{}}, {All}, {Absent, By("ID", TRUE)}, {Absent, 2})
    \cup Statement({{1}}, {All}, {Absent, By("id", TRUE)}, {1})
    \cup Statement({{1}}, {All}, {By("Note", TRUE)}, {2})
    \cup Statement({{2}}, {Some(<<"age", "ID", "age">>)}, {By("Note", FALSE)}, {Absent, 0, 1})
    \cup Statement({{}}, {Some(<<"id", "none">>), Some(<<>>), [All EXCEPT !.from = "none"],
                          [All EXCEPT !.columns = <<"id">>]}, {Absent}, {Absent})
    \cup Statement({{}}, {All}, {By("none", FALSE)}, {Absent})

Comparison(column, comparisons, literals, type) ==
  [kind : {"comparison"}, column : {column}, comparison : comparisons, literal : literals,
   type : {type}]

\* Comparisons that tighten, contradict and cross one another on the id, at both
\* ends of the range of integers and inside it, with a few on the other columns,
\* nulls, and those the binder refuses.
MCPredicates ==
  Comparison("id", {"=", "<", ">"}, {0, 2}, "integer")
    \cup Comparison("ID", {"!="}, {1}, "integer") \cup Comparison("ID", {"<="}, {0}, "integer")
    \cup Comparison("id", {">="}, {2}, "integer") \cup Comparison("id", {"="}, {1, Null}, "integer")
    \cup Comparison("age", {"=", ">", "<="}, {1}, "integer")
    \cup Comparison("Note", {">"}, {0}, "text") \cup Comparison("flag", {"="}, {1}, "boolean")
    \cup {[kind |-> "is null", column |-> "ID"], [kind |-> "is not null", column |-> "Age"]}
    \cup Comparison("flag", {"<"}, {1}, "boolean") \cup Comparison("id", {"="}, {1}, "text")
    \cup Comparison("none", {"="}, {1}, "integer")

\* Clauses executed: none, and one of two filters, one of which may be a range.
Is(column, comparison, literal) ==
  [kind |-> "comparison", column |-> column, comparison |-> comparison, literal |-> literal,
   type |-> "integer"]
MCRunClauses ==
  {<<>>, <<Is("age", "<=", 1), Is("id", ">", 0)>>}
=============================================================================
