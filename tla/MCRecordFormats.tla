--------------------------- MODULE MCRecordFormats ----------------------------
(***************************************************************************)
(* Values for RecordFormats, valid and not: a byte has two bits, so that a *)
(* schema of three columns needs two bytes of null bits, integers are      *)
(* -8 .. 7, and names and schemas have at most three characters and        *)
(* columns.  2 is the capital of 1.                                        *)
(***************************************************************************)
EXTENDS RecordFormats

Column(name, type, nullable) == [name |-> name, type |-> type, nullable |-> nullable]
Schemas ==
  {<<Column(<<1>>, type, nullable)>> : type \in Range(Types), nullable \in BOOLEAN}
    \cup {<<Column(<<1>>, "integer", FALSE), Column(<<3>>, "boolean", TRUE)>>,
          <<Column(<<1>>, "boolean", TRUE), Column(<<3>>, "integer", TRUE), Column(<<0>>, "text", TRUE)>>}
Values == {<<"null">>, <<"integer", -8>>, <<"integer", 7>>, <<"text", <<>>>>, <<"text", <<1, 2>>>>,
           <<"boolean", TRUE>>}
Rows ==
  UNION {[kind : {"row"}, table : {[name |-> <<1>>, version |-> 4, schema |-> schema]},
          values : [1 .. Len(schema) -> Values] \cup {<<>>}] : schema \in Schemas}

Names == {<<>>, <<1>>, <<2>>, <<1, 3>>, <<1, 1, 1, 1>>}
Tables ==
  [kind : {"table"},
   table : [name : Names, version : {0, 5}, schema : {<<>>, <<Column(<<3>>, "text", TRUE)>>}]
             \cup [name : {<<2>>}, version : {1},
                   schema : {<<Column(n, "integer", FALSE), Column(m, "boolean", TRUE)>> : n, m \in Names}]]
Indexes ==
  [kind : {"index"}, index : [name : Names, table : {<<1>>}, column : {<<>>, <<3>>}, page : {6}, slot : {3}]]

Instances == Rows \cup Tables \cup Indexes
=============================================================================
