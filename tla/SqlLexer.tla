------------------------------- MODULE SqlLexer -------------------------------
(***************************************************************************)
(* The SQL lexer (src/sql_lexer.cpp): one pass over a text, character by   *)
(* character, that skips white space and comments and makes a token of     *)
(* everything else, with the place where it starts.  A character is a      *)
(* string; CR, LF, FF, TAB and NUL have their names.  The digits are those *)
(* of the program; of the letters there are a few, and a keyword is one    *)
(* letter (SqlParser.tla).                                                 *)
(***************************************************************************)
EXTENDS Integers, SequencesExt

CONSTANTS Letters, Sources  \* letters; texts to be read

ASSUME SourcesAssumption == \A text \in Sources : text \in Seq(STRING)

VARIABLES
  source,
  at,      \* offset_, line_, column_
  mode,    \* what the lexer is in the middle of
  start,   \* at, where the token or comment begins
  decoded, \* string_literal: the content so far
  tokens

lexerVars == <<source, at, mode, start, decoded, tokens>>

Digits == {"0", "1", "2", "3", "4", "5", "6", "7", "8", "9"}
Spaces == {" ", "TAB", "LF", "CR", "FF"}
Newlines == {"LF", "CR"}
Quote == "'"

LexInit ==
  /\ source \in Sources
  /\ at = [offset |-> 0, line |-> 1, column |-> 1]
  /\ start = at
  /\ mode = "between" /\ decoded = <<>> /\ tokens = <<>>

AtEnd == at.offset = Len(source)
Peek(ahead) == IF at.offset + ahead < Len(source) THEN source[at.offset + ahead + 1] ELSE "NUL"
Sees(first, second) == Peek(0) = first /\ Peek(1) = second

\* Mutant: CRLF is two line breaks.
AfterEachBreak(mark) ==
  IF source[mark.offset + 1] \in Newlines
  THEN [offset |-> mark.offset + 1, line |-> mark.line + 1, column |-> 1]
  ELSE [mark EXCEPT !.offset = @ + 1, !.column = @ + 1]
\* advance()
After(mark) ==
  LET value == source[mark.offset + 1]
      continues == value = "LF" /\ mark.offset > 0 /\ source[mark.offset] = "CR"
  IN IF value \in Newlines
     THEN [offset |-> mark.offset + 1, line |-> mark.line + (IF continues THEN 0 ELSE 1), column |-> 1]
     ELSE [mark EXCEPT !.offset = @ + 1, !.column = @ + 1]
AfterBoth(mark) == After(After(mark))
To(mark, next) == at' = mark /\ mode' = next
Begin(mark, next) == start' = at /\ To(mark, next)
Token(kind, text, mark) ==
  Append(tokens, [kind |-> kind, text |-> text,
                  offset |-> mark.offset, line |-> mark.line, column |-> mark.column])
LexError == mode' = "lex_error"
Text == SubSeq(source, start.offset + 1, at.offset)

-----------------------------------------------------------------------------
\* skip_ignored
SkipSpace ==
  /\ mode = "between" /\ ~AtEnd /\ Peek(0) \in Spaces
  /\ To(After(at), "between")
  /\ UNCHANGED <<source, start, decoded, tokens>>

OpenComment ==
  /\ mode = "between"
  /\ \/ Sees("-", "-") /\ Begin(AfterBoth(at), "line_comment")
     \/ Sees("/", "*") /\ Begin(AfterBoth(at), "block_comment")
  /\ UNCHANGED <<source, decoded, tokens>>

SkipLineComment ==
  /\ mode = "line_comment"
  /\ IF AtEnd \/ Peek(0) \in Newlines THEN To(at, "between") ELSE To(After(at), mode)
  /\ UNCHANGED <<source, start, decoded, tokens>>

SkipBlockComment ==
  /\ mode = "block_comment" /\ ~AtEnd
  /\ IF Sees("*", "/") THEN To(AfterBoth(at), "between") ELSE To(After(at), mode)
  /\ UNCHANGED <<source, start, decoded, tokens>>

\* The error is at the start of the comment.
UnterminatedComment ==
  /\ mode = "block_comment" /\ AtEnd
  /\ LexError
  /\ UNCHANGED <<source, at, start, decoded, tokens>>

-----------------------------------------------------------------------------
\* Tokens of more than one character.
BeginToken ==
  /\ mode = "between" /\ ~AtEnd
  /\ \/ Peek(0) \in Letters /\ Begin(at, "identifier")
     \/ Peek(0) \in Digits /\ Begin(at, "integer")
     \/ Peek(0) = Quote /\ Begin(After(at), "string")
  /\ decoded' = <<>>
  /\ UNCHANGED <<source, tokens>>

\* Mutant: an integer goes on over letters.
WordCharacters(kind) == Letters \cup Digits
Characters(kind) == IF kind = "identifier" THEN Letters \cup Digits ELSE Digits
ReadWord ==
  /\ mode \in {"identifier", "integer"} /\ ~AtEnd /\ Peek(0) \in Characters(mode)
  /\ To(After(at), mode)
  /\ UNCHANGED <<source, start, decoded, tokens>>
EndWord ==
  /\ mode \in {"identifier", "integer"} /\ (AtEnd \/ Peek(0) \notin Characters(mode))
  /\ tokens' = Token(mode, Text, start)
  /\ mode' = "between"
  /\ UNCHANGED <<source, at, start, decoded>>

\* Mutant: the second apostrophe of a pair is left to be read.
ReadPairHalf ==
  /\ mode = "string" /\ Sees(Quote, Quote)
  /\ decoded' = Append(decoded, Quote)
  /\ To(After(at), mode)
  /\ UNCHANGED <<source, start, tokens>>
ReadPair ==
  /\ mode = "string" /\ Sees(Quote, Quote)
  /\ decoded' = Append(decoded, Quote)
  /\ To(AfterBoth(at), mode)
  /\ UNCHANGED <<source, start, tokens>>
ReadString ==
  /\ mode = "string" /\ ~AtEnd /\ Peek(0) \notin {Quote, "NUL"}
  /\ decoded' = Append(decoded, Peek(0))
  /\ To(After(at), mode)
  /\ UNCHANGED <<source, start, tokens>>
EndString ==
  /\ mode = "string" /\ Peek(0) = Quote /\ Peek(1) # Quote
  /\ tokens' = Token("string", decoded, start)
  /\ To(After(at), "between")
  /\ UNCHANGED <<source, start, decoded>>
\* A NUL byte in a string, reported where it is, or no closing apostrophe,
\* reported where the string starts.
BadString ==
  /\ mode = "string"
  /\ \/ AtEnd /\ UNCHANGED start
     \/ ~AtEnd /\ Peek(0) = "NUL" /\ start' = at
  /\ LexError
  /\ UNCHANGED <<source, at, decoded, tokens>>

-----------------------------------------------------------------------------
\* symbol()
Single == [c \in {",", ".", "(", ")", "*", ";", "+", "-", "=", "<", ">"} |->
             CASE c = "," -> "comma" [] c = "." -> "dot" [] c = "(" -> "left_paren"
               [] c = ")" -> "right_paren" [] c = "*" -> "star" [] c = ";" -> "semicolon"
               [] c = "+" -> "plus" [] c = "-" -> "minus" [] c = "=" -> "equal"
               [] c = "<" -> "less" [] c = ">" -> "greater"]
Double == [pair \in {<<"<", "=">>, <<"<", ">">>, <<">", "=">>, <<"!", "=">>} |->
             CASE pair = <<"<", "=">> -> "less_equal" [] pair = <<">", "=">> -> "greater_equal"
               [] OTHER -> "not_equal"]
Pair == <<Peek(0), Peek(1)>>
OpensSymbol ==
  /\ mode = "between" /\ ~AtEnd /\ ~Sees("-", "-") /\ ~Sees("/", "*")
  /\ Peek(0) \notin Spaces \cup Letters \cup Digits \cup {Quote}
ReadDouble ==
  /\ OpensSymbol /\ Pair \in DOMAIN Double
  /\ tokens' = Token(Double[Pair], Pair, at)
  /\ To(AfterBoth(at), mode)
  /\ UNCHANGED <<source, start, decoded>>
ReadSingle ==
  /\ OpensSymbol /\ Pair \notin DOMAIN Double /\ Peek(0) \in DOMAIN Single
  /\ tokens' = Token(Single[Peek(0)], <<Peek(0)>>, at)
  /\ To(After(at), mode)
  /\ UNCHANGED <<source, start, decoded>>
UnexpectedCharacter ==
  /\ OpensSymbol /\ Pair \notin DOMAIN Double /\ Peek(0) \notin DOMAIN Single
  /\ start' = at
  /\ LexError
  /\ UNCHANGED <<source, at, decoded, tokens>>

EndSource ==
  /\ mode = "between" /\ AtEnd
  /\ tokens' = Token("end", <<>>, at)
  /\ mode' = "lexed"
  /\ UNCHANGED <<source, at, start, decoded>>

LexNext ==
  \/ SkipSpace \/ OpenComment \/ SkipLineComment \/ SkipBlockComment \/ UnterminatedComment
  \/ BeginToken \/ ReadWord \/ EndWord
  \/ ReadPair \/ ReadString \/ EndString \/ BadString
  \/ ReadDouble \/ ReadSingle \/ UnexpectedCharacter \/ EndSource

-----------------------------------------------------------------------------
LexerTypeOK ==
  /\ at.offset \in 0 .. Len(source)
  /\ mode \in {"between", "line_comment", "block_comment", "identifier", "integer", "string",
               "lexed", "lex_error"}
  /\ \A i \in DOMAIN tokens : tokens[i].offset \in 0 .. Len(source)
=============================================================================
