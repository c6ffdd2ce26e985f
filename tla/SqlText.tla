------------------------------- MODULE SqlText --------------------------------
(***************************************************************************)
(* What the lexer and the parser together promise of a text: how a text is *)
(* made of tokens, the grammar (docs/SQL_PARSER.md) as a predicate on      *)
(* token sequences, the text a plan stands for, and the properties that    *)
(* relate them to what parse_select and parse_sql_statement do.            *)
(***************************************************************************)
EXTENDS SqlParser

\* The text has been read and nothing parsed yet.
LexingEnds == mode \in {"lexed", "lex_error"} /\ place = "lexing"

\* Where a reader of the text finds offset o: a CR, and an LF that does not
\* follow one, begins a new line.
Breaks(o) == {k \in 1 .. o : \/ source[k] = "CR"
                             \/ source[k] = "LF" /\ (k > 1 => source[k - 1] # "CR")}
LineAt(o) == 1 + Cardinality(Breaks(o))
ColumnAt(o) == 1 + o - Max({0} \cup {k \in 1 .. o : source[k] \in Newlines})
Placed(mark) == mark.line = LineAt(mark.offset) /\ mark.column = ColumnAt(mark.offset)

\* Every token, the end and every error is reported in the line and column
\* where it stands, across comments and strings that contain line breaks of any
\* kind.
PositionsAreRight ==
  LexingEnds => Placed(at) /\ Placed(start) /\ \A i \in DOMAIN tokens : Placed(tokens[i])

-----------------------------------------------------------------------------
\* How a token is written.
Doubled(text) == FoldLeft(LAMBDA s, c : s \o (IF c = Quote THEN <<Quote, Quote>> ELSE <<c>>), <<>>, text)
Written(token) ==
  IF token.kind = "string" THEN <<Quote>> \o Doubled(token.text) \o <<Quote>> ELSE token.text
EndOf(token) == token.offset + Len(Written(token))

\* Text without tokens: white space, comments to the end of a line or of the
\* source, and block comments up to the first end mark.
RECURSIVE Ignorable(_, _)
Ignorable(from, to) ==
  LET Has(k, c, d) == k + 1 <= to /\ source[k] = c /\ source[k + 1] = d IN
  \/ from > to
  \/ source[from] \in Spaces /\ Ignorable(from + 1, to)
  \/ /\ Has(from, "-", "-")
     /\ LET ends == {k \in from + 2 .. Len(source) : source[k] \in Newlines} \cup {Len(source) + 1}
        IN Min(ends) <= to + 1 /\ Ignorable(Min(ends), to)
  \/ /\ Has(from, "/", "*")
     /\ LET ends == {k \in from + 2 .. to : Has(k, "*", "/")}
        IN ends # {} /\ Ignorable(Min(ends) + 2, to)

\* Each token is of its kind.
WellFormed(token) ==
  CASE token.kind = "identifier" ->
         token.text[1] \in Letters /\ \A i \in DOMAIN token.text : token.text[i] \in Letters \cup Digits
    [] token.kind = "integer" -> \A i \in DOMAIN token.text : token.text[i] \in Digits
    [] token.kind = "string" -> \A i \in DOMAIN token.text : token.text[i] # "NUL"
    [] OTHER -> TRUE
\* No token could have been longer.
Longest(token) ==
  LET next == IF EndOf(token) < Len(source) THEN source[EndOf(token) + 1] ELSE "NUL" IN
  CASE token.kind = "identifier" -> next \notin Letters \cup Digits
    [] token.kind = "integer" -> next \notin Digits
    [] token.kind = "string" -> next # Quote
    [] token.kind = "less" -> next \notin {"=", ">"}
    [] token.kind = "greater" -> next # "="
    [] token.kind = "minus" -> next # "-"
    [] OTHER -> TRUE

\* The text splits into its tokens, each as long as it can be, and text that is
\* to be ignored, with nothing left out and nothing read twice; and a text that
\* is refused has, after the tokens before, no such continuation.
TokensTileSource ==
  LexingEnds =>
  /\ \A i \in DOMAIN tokens :
       LET token == tokens[i]
           before == IF i = 1 THEN 0 ELSE EndOf(tokens[i - 1])
       IN /\ SubSeq(source, token.offset + 1, EndOf(token)) = Written(token)
          /\ Ignorable(before + 1, token.offset)
          /\ WellFormed(token) /\ Longest(token)
  /\ mode = "lexed" => Last(tokens).kind = "end" /\ EndOf(Last(tokens)) = Len(source)
  /\ mode = "lex_error" =>
       LET rest == SubSeq(source, start.offset + 1, Len(source)) IN
       CASE rest[1] = Quote ->
              \A n \in 1 .. Len(rest) - 1 :
                \/ Cardinality({k \in 1 .. n + 1 : rest[k] = Quote}) % 2 = 1
                \/ n + 1 < Len(rest) /\ rest[n + 2] = Quote
                \/ rest[n + 1] # Quote
         [] rest[1] = "NUL" -> TRUE
         [] rest[1] = "/" /\ Len(rest) > 1 /\ rest[2] = "*" ->
              \A k \in 3 .. Len(rest) - 1 : ~(rest[k] = "*" /\ rest[k + 1] = "/")
         [] rest[1] = "!" -> Len(rest) = 1 \/ rest[2] # "="
         [] OTHER -> rest[1] \notin Letters \cup Digits \cup Spaces \cup DOMAIN Single
-----------------------------------------------------------------------------
\* Each phrase of the grammar, for the tokens ts[a] to ts[b].
Kind(ts, a, kinds) == a \in DOMAIN ts /\ ts[a].kind \in kinds
Key(ts, a, k) == a \in DOMAIN ts /\ IsKeyword(ts[a], k)
Name(ts, a) == Kind(ts, a, {"identifier"})

IsColumns(ts, a, b) ==
  /\ b \in DOMAIN ts /\ (b - a) % 2 = 0
  /\ \A i \in a .. b : Kind(ts, i, {IF (i - a) % 2 = 0 THEN "identifier" ELSE "comma"})
IsInteger(ts, a, largest) == Kind(ts, a, {"integer"}) /\ Magnitude(ts[a].text) <= largest
IsLiteral(ts, a, b) ==
  \/ b = a /\ (Kind(ts, a, {"string"}) \/ \E k \in {"T", "X", "Z"} : Key(ts, a, k))
  \/ b = a /\ IsInteger(ts, a, MaxInteger)
  \/ b = a + 1 /\ Kind(ts, a, {"plus"}) /\ IsInteger(ts, b, MaxInteger)
  \/ b = a + 1 /\ Kind(ts, a, {"minus"}) /\ IsInteger(ts, b, MaxInteger + 1)
IsPredicate(ts, a, b) ==
  /\ Name(ts, a)
  /\ \/ b = a + 2 /\ Key(ts, a + 1, "I") /\ Key(ts, b, "Z")
     \/ b = a + 3 /\ Key(ts, a + 1, "I") /\ Key(ts, a + 2, "N") /\ Key(ts, b, "Z")
     \/ Kind(ts, a + 1, Comparisons) /\ IsLiteral(ts, a + 2, b)
RECURSIVE IsConjunction(_, _, _)
IsConjunction(ts, a, b) ==
  \/ IsPredicate(ts, a, b)
  \/ \E m \in a + 3 .. b : Key(ts, m, "A") /\ IsPredicate(ts, a, m - 1) /\ IsConjunction(ts, m + 1, b)

IsWhere(ts, a, b) == b = a - 1 \/ (Key(ts, a, "W") /\ IsConjunction(ts, a + 1, b))
IsOrder(ts, a, b) ==
  \/ b = a - 1
  \/ /\ Key(ts, a, "O") /\ Key(ts, a + 1, "B") /\ Name(ts, a + 2)
     /\ b = a + 2 \/ (b = a + 3 /\ \E k \in {"U", "D"} : Key(ts, b, k))
IsLimit(ts, a, b) == b = a - 1 \/ (b = a + 1 /\ Key(ts, a, "L") /\ IsInteger(ts, b, MaxSize))
IsSelect(ts, a, b) ==
  /\ Key(ts, a, "S")
  /\ \E f \in a + 2 .. b - 1 :
       /\ IsColumns(ts, a + 1, f - 1) \/ (f = a + 2 /\ Kind(ts, a + 1, {"star"}))
       /\ Key(ts, f, "F") /\ Name(ts, f + 1)
       /\ \E w, o \in f + 1 .. b : IsWhere(ts, f + 2, w) /\ IsOrder(ts, w + 1, o) /\ IsLimit(ts, o + 1, b)
IsStatement(ts) ==
  LET a == IF entry = "statement" /\ Key(ts, 1, "E") THEN 2 ELSE 1
      b == IF Kind(ts, Len(ts), {"semicolon"}) THEN Len(ts) - 1 ELSE Len(ts)
  IN IsSelect(ts, a, b)

\* The ends that complete some beginning of a statement, whatever it is.
Made(kind, text) == [kind |-> kind, text |-> text, offset |-> 0, line |-> 0, column |-> 0]
Named(c) == Made("identifier", <<c>>)
FromTable == <<Named("F"), Named("F")>>
IsZero == <<Made("equal", <<"=">>), Made("integer", <<"0">>)>>
Closings ==
  {<<>>, <<Named("F")>>, FromTable, <<Named("F")>> \o FromTable, <<Named("B"), Named("F")>>,
   <<Made("star", <<"*">>)>> \o FromTable, <<Named("S"), Made("star", <<"*">>)>> \o FromTable,
   <<Named("Z")>>, IsZero, <<Named("F")>> \o IsZero, <<Made("integer", <<"0">>)>>}

\* A statement is refused only when the grammar does not have it, and at the
\* first token that no statement can have there; an integer out of range is
\* reported at its sign.  Keywords used for names never lead the parser astray.
RefusesAtFirstWrongToken ==
  place = "parse_error" =>
    LET signed == tokens[index].kind \in {"plus", "minus"} /\ tokens[index + 1].kind = "integer"
        read == SubSeq(tokens, 1, IF signed THEN index + 1 ELSE index)
    IN IF tokens[index].kind = "end"
       THEN ~IsStatement(Front(tokens))
       ELSE \A rest \in Closings : ~IsStatement(read \o rest)

-----------------------------------------------------------------------------
\* The text of a plan, token by token: a keyword, a name, a kind of token, or a
\* literal.
Keyword(k) == <<[is |-> "keyword", keyword |-> k]>>
Identifier(text) == <<[is |-> "name", text |-> text]>>
Symbol(kind) == <<[is |-> "kind", kind |-> kind]>>
Number(n) == <<[is |-> "number", number |-> n]>>
Literal(literal) ==
  CASE literal[1] = "null" -> Keyword("Z")
    [] literal[1] = "boolean" -> Keyword(IF literal[2] THEN "T" ELSE "X")
    [] literal[1] = "string" -> <<[is |-> "string", text |-> literal[2]]>>
    [] literal[1] = "integer" ->
         IF literal[2] < 0 THEN Symbol("minus") \o Number(-literal[2]) ELSE Number(literal[2])
Condition(p) ==
  Identifier(p.column) \o
  CASE p.kind = "is_null" -> Keyword("I") \o Keyword("Z")
    [] p.kind = "is_not_null" -> Keyword("I") \o Keyword("N") \o Keyword("Z")
    [] p.kind = "comparison" -> Symbol(p.comparison) \o Literal(p.literal)
Joined(phrases, separator) ==
  FoldLeft(LAMBDA text, phrase : IF text = <<>> THEN phrase ELSE text \o separator \o phrase, <<>>, phrases)
Each(Phrase(_), items) == [i \in DOMAIN items |-> Phrase(items[i])]
TextOf(p, ascending) ==
  (IF p.explain THEN Keyword("E") ELSE <<>>) \o Keyword("S")
  \o (IF p.all THEN Symbol("star") ELSE Joined(Each(Identifier, p.columns), Symbol("comma")))
  \o Keyword("F") \o Identifier(p.table)
  \o (IF p.predicates = <<>> THEN <<>>
      ELSE Keyword("W") \o Joined(Each(Condition, p.predicates), Keyword("A")))
  \o (IF p.order = Absent THEN <<>>
      ELSE Keyword("O") \o Keyword("B") \o Identifier(p.order.column)
           \o (IF p.order.descending THEN Keyword("D") ELSE ascending))
  \o (IF p.limit = Absent THEN <<>> ELSE Keyword("L") \o Number(p.limit))

Says(token, word) ==
  CASE word.is = "keyword" -> IsKeyword(token, word.keyword)
    [] word.is = "name" -> token.kind = "identifier" /\ token.text = word.text
    [] word.is = "kind" -> token.kind = word.kind
    [] word.is = "string" -> token.kind = "string" /\ token.text = word.text
    [] word.is = "number" -> token.kind = "integer" /\ Magnitude(token.text) = word.number
\* What carries no meaning: a plus sign, the sign of a zero, and what ends the
\* statement.
Meaningless(i) ==
  \/ tokens[i].kind \in {"plus", "semicolon", "end"}
  \/ tokens[i].kind = "minus" /\ Magnitude(tokens[i + 1].text) = 0
Meaning ==
  LET kept == SelectSeq([i \in DOMAIN tokens |-> i], LAMBDA i : ~Meaningless(i))
  IN [i \in DOMAIN kept |-> tokens[kept[i]]]

\* A plan holds everything the statement says and nothing else: names as they
\* are spelled, in their order, every predicate with its own operator and value,
\* the smallest integer as well as the largest, and its text is in the grammar.
PlanSaysTheStatement ==
  place = "parsed" =>
    /\ IsStatement(Front(tokens))
    /\ \E ascending \in {<<>>, Keyword("U")} :
         LET text == TextOf(plan, ascending) IN
         Len(text) = Len(Meaning) /\ \A i \in DOMAIN text : Says(Meaning[i], text[i])
=============================================================================
