------------------------------- MODULE Lexical -------------------------------
(***************************************************************************)
(* Characters, and the tables that the lexer looks them up in.             *)
(***************************************************************************)
EXTENDS Integers, SequencesExt

CONSTANTS
  Alpha,      \* letters and the underscore
  Digit,
  Keyword     \* jsKeywords: a function from words to kinds of tokens

AlphaNumeric == Alpha \cup Digit

\* Tokens of one character.
Single ==
  [c \in {"(", ")", "{", "}", "[", "]", ",", ".", ";", "-", "+", "*", "/"} |->
     CASE c = "(" -> "LParen"   [] c = ")" -> "RParen"   [] c = "{" -> "LBrace"
       [] c = "}" -> "RBrace"   [] c = "[" -> "LBracket" [] c = "]" -> "RBracket"
       [] c = "," -> "Comma"    [] c = "." -> "Dot"      [] c = ";" -> "Semicolon"
       [] c = "-" -> "Minus"    [] c = "+" -> "Plus"     [] c = "*" -> "Star"
       [] c = "/" -> "Slash"]

\* Characters that begin a token of one or of two characters: the second
\* character, the token with it, the token without.  A lone & or | is none.
Double ==
  [c \in {"!", "=", "<", ">", "&", "|"} |->
     CASE c = "!" -> <<"=", "BangEqual", "Bang">>
       [] c = "=" -> <<"=", "EqualEqual", "Equal">>
       [] c = "<" -> <<"=", "LessEqual", "Less">>
       [] c = ">" -> <<"=", "GreaterEqual", "Greater">>
       [] c = "&" -> <<"&", "And", "none">>
       [] c = "|" -> <<"|", "Or", "none">>]

Quote == "\""
Newline == "\n"

\* Letters and digits are no other characters, and not the null character.
ASSUME LexicalAssumption ==
  /\ Alpha \cap Digit = {}
  /\ AlphaNumeric \cap ({Quote, Newline, "none"} \cup DOMAIN Single \cup DOMAIN Double) = {}
  /\ DOMAIN Keyword \subseteq Seq(Alpha)

WordKind(word) == IF word \in DOMAIN Keyword THEN Keyword[word] ELSE "Identifier"

\* A token with the text that matters: of a word or a number the lexeme, of a
\* string the characters between the quotes.
Token(kind, text) == [kind |-> kind, text |-> text]

===============================================================================
