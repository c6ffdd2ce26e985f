------------------------------ MODULE MCSqlText -------------------------------
(***************************************************************************)
(* Texts for SqlText: every text of up to three characters that can meet   *)
(* in a token, a comment or a string, of four of those that open or close  *)
(* something, and longer comments and strings; and statements with one     *)
(* word left out, put twice, or exchanged for another.                     *)
(***************************************************************************)
EXTENDS SqlText

TextCharacters == {"a", "1", Quote, "-", "/", "*", "<", "=", ">", "!", " ", "LF", "CR", "NUL"}
Marks == {"1", Quote, "-", "/", "*", "<", "=", "LF", "CR"}
ShortTexts == UNION {[1 .. n -> TextCharacters] : n \in 0 .. 3} \cup [1 .. 4 -> Marks]
Inside == UNION {[1 .. n -> {Quote, "*", "/", "LF", "CR", "NUL"}] : n \in 0 .. 3}
LongTexts ==
  {<<"/", "*">> \o inside \o <<"*", "/", "a">> : inside \in Inside}
    \cup {<<Quote>> \o inside \o <<Quote, "a">> : inside \in Inside}
    \cup {<<"-", "-">> \o inside \o <<"a">> : inside \in Inside}

\* Statements as sequences of words, with keywords for names.
Selections == {<<"S", "*", "F", "a">>, <<"E", "S", "a", ",", "F", "F", "W">>}
Filters == {<<>>, <<"W", "a", "=", "-8">>, <<"W", "a", "I", "Z", "A", "I", ">=", "+7">>}
Orders == {<<>>, <<"O", "B", "D", "d">>}
Limits == {<<>>, <<"L", "15">>}
Statements == {s \o f \o o \o l : s \in Selections, f \in Filters, o \in Orders, l \in Limits}
Words == {"S", "F", "W", "A", "O", "B", "D", "U", "L", "I", "N", "Z", "T", "X", "E", "a", "*", ",", ";",
          "<>", "-8", "8", "'q'", "16", "("}
Edited ==
  UNION {{ReplaceAt(s, i, w) : w \in Words} \cup {RemoveAt(s, i), InsertAt(s, i, s[i])}
           : <<s, i>> \in {<<s, i>> \in Statements \X (1 .. 20) : i \in DOMAIN s}}
Spelled(w) ==
  CASE w = "-8" -> <<"-", "8">> [] w = "+7" -> <<"+", "7">> [] w = "15" -> <<"1", "5">>
    [] w = "16" -> <<"1", "6">> [] w = "<>" -> <<"<", ">">> [] w = ">=" -> <<">", "=">>
    [] w = "'q'" -> <<Quote, "q", Quote>> [] OTHER -> <<w>>
Spaced(words) == FoldLeft(LAMBDA text, w : text \o Spelled(w) \o <<" ">>, <<>>, words)
Glued(words) == FoldLeft(LAMBDA text, w : text \o Spelled(w), <<>>, words)

Texts == ShortTexts \cup LongTexts \cup {Spaced(s) : s \in Edited} \cup {Glued(s) : s \in Statements}
SmallLetters == [c \in {"d"} |-> "D"]
=============================================================================
