------------------------------ MODULE SqlParser -------------------------------
(***************************************************************************)
(* The SQL parser (src/sql_parser.cpp): the tokens of a text that was read *)
(* to its end are taken one after the other into a plan, by one procedure  *)
(* per phrase.  `place` is where in the procedures the parser stands.      *)
(*                                                                         *)
(* A keyword is one letter:                                                *)
(*   E EXPLAIN  S SELECT  F FROM  W WHERE  A AND  O ORDER  B BY  U ASC     *)
(*   D DESC     L LIMIT   I IS    N NOT    Z NULL T TRUE   X FALSE         *)
(* and it may be written as a small letter.  Integers are signed and have  *)
(* MaxInteger for their largest value, sizes and magnitudes twice that and *)
(* one.                                                                    *)
(***************************************************************************)
EXTENDS SqlLexer

CONSTANTS
  Small,       \* Small[c]: the keyword the small letter c is
  MaxInteger,  \* numeric_limits<int64_t>::max(), scaled down
  Absent       \* no value

ASSUME KeywordsAssumption == DOMAIN Small \subseteq Letters
ASSUME IntegersAssumption == MaxInteger \in Nat

VARIABLES
  entry,  \* the phrase parsed: a statement (parse_sql_statement), a select (parse_select)
  index,  \* index_, from 1
  place,
  plan,   \* SelectPlan, and whether it is wrapped in an ExplainPlan
  first   \* parse_literal's start: where the literal begins

parserVars == <<entry, index, place, plan, first>>
vars == <<lexerVars, parserVars>>

NoPlan == [explain |-> FALSE, all |-> FALSE, columns |-> <<>>, table |-> <<>>,
           predicates |-> <<>>, order |-> Absent, limit |-> Absent]
MaxSize == 2 * MaxInteger + 1

Init ==
  /\ LexInit
  /\ index = 1 /\ first = 1 /\ plan = NoPlan
  /\ entry = Absent /\ place = "lexing"

Current == tokens[index]
Fold(c) == IF c \in DOMAIN Small THEN Small[c] ELSE c
IsKeyword(token, k) ==
  token.kind = "identifier" /\ Len(token.text) = 1 /\ Fold(token.text[1]) = k

Parsing(p) == mode = "lexed" /\ place = p
Go(n, next) == index' = index + n /\ place' = next
Stay == UNCHANGED <<lexerVars, entry, first>>
Build(new) == plan' = new
FailAt(i) == index' = i /\ place' = "parse_error"

\* expect_keyword, and match_keyword with what follows without it
ExpectKeyword(p, k, next) ==
  /\ Parsing(p)
  /\ IF IsKeyword(Current, k) THEN Go(1, next) ELSE FailAt(index)
  /\ Stay /\ UNCHANGED plan
MatchKeyword(p, k, next, otherwise) ==
  /\ Parsing(p)
  /\ IF IsKeyword(Current, k) THEN Go(1, next) ELSE Go(0, otherwise)
  /\ Stay /\ UNCHANGED plan
\* expect_identifier takes keywords, too.
ExpectIdentifier(p, next, new) ==
  /\ Parsing(p)
  /\ IF Current.kind = "identifier"
     THEN Go(1, next) /\ Build(new)
     ELSE FailAt(index) /\ UNCHANGED plan
  /\ Stay

-----------------------------------------------------------------------------
\* parse_sql_statement and parse_select: a parser for the tokens of the text.
StartParser(phrase) ==
  /\ Parsing("lexing")
  /\ entry' = phrase /\ Go(0, phrase)
  /\ UNCHANGED <<lexerVars, first, plan>>

MatchExplain ==
  /\ Parsing("statement")
  /\ IF IsKeyword(Current, "E")
     THEN Go(1, "select") /\ Build([plan EXCEPT !.explain = TRUE])
     ELSE Go(0, "select") /\ UNCHANGED plan
  /\ Stay

ExpectSelect == ExpectKeyword("select", "S", "projection")
MatchStar ==
  /\ Parsing("projection")
  /\ IF Current.kind = "star"
     THEN Go(1, "from") /\ Build([plan EXCEPT !.all = TRUE])
     ELSE Go(0, "column") /\ UNCHANGED plan
  /\ Stay
ExpectColumn == ExpectIdentifier("column", "columns", [plan EXCEPT !.columns = Append(@, Current.text)])
MatchComma ==
  /\ Parsing("columns")
  /\ IF Current.kind = "comma" THEN Go(1, "column") ELSE Go(0, "from")
  /\ Stay /\ UNCHANGED plan
ExpectFrom == ExpectKeyword("from", "F", "table")
ExpectTable == ExpectIdentifier("table", "where", [plan EXCEPT !.table = Current.text])
MatchWhere == MatchKeyword("where", "W", "predicate", "order")
MatchAnd == MatchKeyword("and", "A", "predicate", "order")

-----------------------------------------------------------------------------
\* parse_predicate.  The predicate is in the plan from its column on.
Predicate(column) == [column |-> column, kind |-> "comparison", comparison |-> "equal", literal |-> Absent]
Newest == Len(plan.predicates)
ExpectPredicate ==
  ExpectIdentifier("predicate", "is", [plan EXCEPT !.predicates = Append(@, Predicate(Current.text))])
MatchIs == MatchKeyword("is", "I", "not", "comparison")
MatchNot == MatchKeyword("not", "N", "not null", "null")
ExpectNull(p, kind) ==
  /\ Parsing(p)
  /\ IF IsKeyword(Current, "Z")
     THEN /\ Go(1, "and")
          /\ Build([plan EXCEPT !.predicates[Newest].kind = kind, !.predicates[Newest].literal = <<"null">>])
     ELSE FailAt(index) /\ UNCHANGED plan
  /\ Stay

Comparisons == {"equal", "not_equal", "less", "less_equal", "greater", "greater_equal"}
ParseComparison ==
  /\ Parsing("comparison")
  /\ IF Current.kind \in Comparisons
     THEN Go(1, "literal") /\ Build([plan EXCEPT !.predicates[Newest].comparison = Current.kind])
     ELSE FailAt(index) /\ UNCHANGED plan
  /\ Stay

\* parse_literal
WithLiteral(literal) == [plan EXCEPT !.predicates[Newest].literal = literal]
Word(token) ==
  CASE token.kind = "string" -> <<"string", token.text>>
    [] IsKeyword(token, "T") -> <<"boolean", TRUE>>
    [] IsKeyword(token, "X") -> <<"boolean", FALSE>>
    [] IsKeyword(token, "Z") -> <<"null">>
    [] OTHER -> Absent
ParseWord ==
  /\ Parsing("literal") /\ Word(Current) # Absent
  /\ Go(1, "and") /\ Build(WithLiteral(Word(Current)))
  /\ Stay
MatchSign ==
  /\ Parsing("literal") /\ Word(Current) = Absent
  /\ CASE Current.kind = "plus" -> Go(1, "positive")
       [] Current.kind = "minus" -> Go(1, "negative")
       [] OTHER -> Go(0, "positive")
  /\ first' = index
  /\ UNCHANGED <<lexerVars, entry, plan>>

DigitValue == [d \in Digits |-> CHOOSE n \in 0 .. 9 : ToString(n) = d]
Magnitude(text) == FoldLeft(LAMBDA value, d : 10 * value + DigitValue[d], 0, text)
\* Mutant: the smallest integer is refused.
RangeSymmetric(p, magnitude) == magnitude <= MaxInteger
\* The smallest integer has no positive counterpart.
InRange(p, magnitude) == magnitude <= (IF p = "negative" THEN MaxInteger + 1 ELSE MaxInteger)
Signed(p, magnitude) == IF p = "negative" THEN -magnitude ELSE magnitude
ParseInteger(p) ==
  /\ Parsing(p)
  /\ LET magnitude == Magnitude(Current.text) IN
     IF Current.kind # "integer" THEN FailAt(index) /\ UNCHANGED plan
     ELSE IF ~InRange(p, magnitude) THEN FailAt(first) /\ UNCHANGED plan
     ELSE Go(1, "and") /\ Build(WithLiteral(<<"integer", Signed(p, magnitude)>>))
  /\ Stay

-----------------------------------------------------------------------------
MatchOrder == MatchKeyword("order", "O", "by", "limit")
ExpectBy == ExpectKeyword("by", "B", "sort column")
ExpectSortColumn ==
  ExpectIdentifier("sort column", "direction",
                   [plan EXCEPT !.order = [column |-> Current.text, descending |-> FALSE]])
MatchDirection ==
  /\ Parsing("direction")
  /\ IF IsKeyword(Current, "D") THEN Go(1, "limit") /\ Build([plan EXCEPT !.order.descending = TRUE])
     ELSE Go(IF IsKeyword(Current, "U") THEN 1 ELSE 0, "limit") /\ UNCHANGED plan
  /\ Stay
MatchLimit == MatchKeyword("limit", "L", "count", "semicolon")
\* Mutant: a size that does not fit is taken.
ParseAnyLimit ==
  /\ Parsing("count")
  /\ IF Current.kind = "integer"
     THEN Go(1, "semicolon") /\ Build([plan EXCEPT !.limit = Magnitude(Current.text)])
     ELSE FailAt(index) /\ UNCHANGED plan
  /\ Stay
ParseLimit ==
  /\ Parsing("count")
  /\ IF Current.kind = "integer" /\ Magnitude(Current.text) <= MaxSize
     THEN Go(1, "semicolon") /\ Build([plan EXCEPT !.limit = Magnitude(Current.text)])
     ELSE FailAt(index) /\ UNCHANGED plan
  /\ Stay
MatchSemicolon ==
  /\ Parsing("semicolon")
  /\ Go(IF Current.kind = "semicolon" THEN 1 ELSE 0, "end")
  /\ Stay /\ UNCHANGED plan
\* Mutant: what follows the statement is not looked at.
EndAnywhere ==
  /\ Parsing("end")
  /\ Go(0, "parsed")
  /\ Stay /\ UNCHANGED plan
ExpectEnd ==
  /\ Parsing("end")
  /\ IF Current.kind = "end" THEN Go(0, "parsed") ELSE FailAt(index)
  /\ Stay /\ UNCHANGED plan

Parse ==
  \/ StartParser("statement") \/ StartParser("select")
  \/ MatchExplain \/ ExpectSelect \/ MatchStar \/ ExpectColumn \/ MatchComma \/ ExpectFrom \/ ExpectTable
  \/ MatchWhere \/ MatchAnd \/ ExpectPredicate \/ MatchIs \/ MatchNot
  \/ ExpectNull("null", "is_null") \/ ExpectNull("not null", "is_not_null")
  \/ ParseComparison \/ ParseWord \/ MatchSign \/ ParseInteger("positive") \/ ParseInteger("negative")
  \/ MatchOrder \/ ExpectBy \/ ExpectSortColumn \/ MatchDirection
  \/ MatchLimit \/ ParseLimit \/ MatchSemicolon \/ ExpectEnd

Next ==
  \/ LexNext /\ UNCHANGED parserVars
  \/ Parse
Spec == Init /\ [][Next]_vars

-----------------------------------------------------------------------------
Outcomes == {"parsed", "parse_error"}
TypeOK ==
  /\ LexerTypeOK
  /\ index \in 1 .. Len(tokens) + 1 /\ (mode = "lexed" => index \in DOMAIN tokens)
  /\ first \in 1 .. index + 1
  /\ plan.limit \in 0 .. MaxSize \cup {Absent}
=============================================================================
