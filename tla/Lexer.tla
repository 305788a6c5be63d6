-------------------------------- MODULE Lexer --------------------------------
(***************************************************************************)
(* The lexer: a cursor over the characters of the source, moved by one     *)
(* scanning function after the other, character by character.              *)
(***************************************************************************)
EXTENDS Lexical

CONSTANT Input     \* the sources to scan: sequences of characters

ASSUME InputAssumption == Input \subseteq Seq(STRING)

VARIABLES
  source,
  start,        \* index of the first character of the current token
  current,      \* index of the next character; both count from 0
  tokens,
  line,
  mode          \* the function that is scanning, or "done"

vars == <<source, start, current, tokens, line, mode>>

IsAtEnd == current >= Len(source)

\* The character `ahead' places behind the next one.  The null character that
\* peek returns past the end is in no class.
At(ahead) ==
  IF current + ahead < Len(source) THEN source[current + ahead + 1] ELSE "none"

Peek == At(0)
PeekNext == At(1)

\* source.substr(start, current - start)
Lexeme == SubSeq(source, start + 1, current)

Init ==
  /\ source \in Input
  /\ start = 0
  /\ current = 0
  /\ tokens = <<>>
  /\ line = 0
  /\ mode = "token"

Scanning(function) == mode = function /\ UNCHANGED source

AddToken(kind, text) == tokens' = Append(tokens, Token(kind, text))

Advance == current' = current + 1 /\ UNCHANGED <<start, tokens, mode>>

\* The scanning function returns to scanTokens.
Return == mode' = "token"

(***************************************************************************)
(* Mistakes: see GC for what this section is for.                          *)
(***************************************************************************)

\* A dot behind digits is taken whatever follows it.
ScanDotAlways ==
  /\ Scanning("digits")
  /\ Peek \notin Digit
  /\ mode' = "fraction"
  /\ current' = IF Peek = "." THEN current + 1 ELSE current
  /\ UNCHANGED <<start, tokens, line>>

\* The string's loop does not count lines.
ScanStringNoLine ==
  /\ Scanning("string")
  /\ Peek # Quote /\ ~IsAtEnd
  /\ Advance
  /\ UNCHANGED line

\* The closing quote is looked for past the end of the input.
ScanStringPastEnd ==
  /\ Scanning("string")
  /\ Peek # Quote
  /\ line' = IF Peek = Newline THEN line + 1 ELSE line
  /\ Advance

\* An unterminated string is reported without leaving the function.
ScanStringUnterminatedStays ==
  /\ Scanning("string")
  /\ IsAtEnd
  /\ UNCHANGED <<start, current, tokens, line, mode>>

(***************************************************************************)
(* scanToken: one character decides.                                       *)
(***************************************************************************)

ScanSymbol ==
  /\ Scanning("token")
  /\ Peek \in DOMAIN Single
  /\ start' = current
  /\ current' = current + 1
  /\ AddToken(Single[Peek], <<>>)
  /\ UNCHANGED <<line, mode>>

ScanDouble ==
  /\ Scanning("token")
  /\ Peek \in DOMAIN Double
  /\ start' = current
  /\ IF PeekNext = Double[Peek][1]
     THEN current' = current + 2 /\ AddToken(Double[Peek][2], <<>>)
     ELSE /\ current' = current + 1
          /\ IF Double[Peek][3] = "none" THEN UNCHANGED tokens
                                         ELSE AddToken(Double[Peek][3], <<>>)
  /\ UNCHANGED <<line, mode>>

\* The first character of a string, a number or a word.
ScanFirst ==
  /\ Scanning("token")
  /\ Peek \in {Quote} \cup AlphaNumeric
  /\ start' = current
  /\ current' = current + 1
  /\ mode' = CASE Peek = Quote   -> "string"
               [] Peek \in Digit -> "digits"
               [] Peek \in Alpha -> "identifier"
  /\ UNCHANGED <<tokens, line>>

\* Blanks, line ends and characters that the lexer does not know.
ScanOther ==
  /\ Scanning("token")
  /\ ~IsAtEnd
  /\ Peek \notin DOMAIN Single \cup DOMAIN Double \cup {Quote} \cup AlphaNumeric
  /\ start' = current
  /\ current' = current + 1
  /\ line' = IF Peek = Newline THEN line + 1 ELSE line
  /\ UNCHANGED <<tokens, mode>>

\* scanTokens behind its loop.
ScanEof ==
  /\ Scanning("token")
  /\ IsAtEnd
  /\ AddToken("Eof", <<>>)
  /\ mode' = "done"
  /\ UNCHANGED <<start, current, line>>

(***************************************************************************)
(* scanIdentifier                                                          *)
(***************************************************************************)

ScanLetter ==
  Scanning("identifier") /\ Peek \in AlphaNumeric /\ Advance /\ UNCHANGED line

ScanWordEnd ==
  /\ Scanning("identifier")
  /\ Peek \notin AlphaNumeric
  /\ AddToken(WordKind(Lexeme), Lexeme)
  /\ Return
  /\ UNCHANGED <<start, current, line>>

(***************************************************************************)
(* scanNumeric                                                             *)
(***************************************************************************)

ScanDigit ==
  (Scanning("digits") \/ Scanning("fraction")) /\ Peek \in Digit /\ Advance /\ UNCHANGED line

\* A dot belongs to the number when a digit follows.
ScanDot ==
  /\ Scanning("digits")
  /\ Peek \notin Digit
  /\ mode' = "fraction"
  /\ current' = IF Peek = "." /\ PeekNext \in Digit THEN current + 1 ELSE current
  /\ UNCHANGED <<start, tokens, line>>

ScanNumberEnd ==
  /\ Scanning("fraction")
  /\ Peek \notin Digit
  /\ AddToken("Numeric", Lexeme)
  /\ Return
  /\ UNCHANGED <<start, current, line>>

(***************************************************************************)
(* scanString                                                              *)
(***************************************************************************)

ScanStringChar ==
  /\ Scanning("string")
  /\ Peek # Quote /\ ~IsAtEnd
  /\ line' = IF Peek = Newline THEN line + 1 ELSE line
  /\ Advance

ScanUnterminated ==
  /\ Scanning("string")
  /\ IsAtEnd
  /\ Return
  /\ UNCHANGED <<start, current, tokens, line>>

\* The literal is what is between the quotes: substr(start + 1, len) with len
\* computed behind the closing one.
ScanStringEnd ==
  /\ Scanning("string")
  /\ Peek = Quote
  /\ current' = current + 1
  /\ LET len == (current' - 1) - (start + 1)
     IN  AddToken("String", SubSeq(source, start + 2, start + 1 + len))
  /\ Return
  /\ UNCHANGED <<start, line>>

Next ==
  \/ ScanSymbol \/ ScanDouble \/ ScanFirst \/ ScanOther \/ ScanEof
  \/ ScanLetter \/ ScanWordEnd
  \/ ScanDigit \/ ScanDot \/ ScanNumberEnd
  \/ ScanStringChar \/ ScanUnterminated \/ ScanStringEnd

\* The lexer is one thread in a loop of its own: it takes its next step.
Spec == Init /\ [][Next]_vars /\ WF_vars(Next)

(***************************************************************************)
(* Properties.                                                             *)
(***************************************************************************)

\* The cursor stays on the source, behind the start of the token.
TypeOK ==
  /\ start \in 0 .. Len(source)
  /\ current \in start .. Len(source)
  /\ mode \in {"token", "identifier", "digits", "fraction", "string", "done"}
  /\ mode \in {"identifier", "digits", "fraction", "string"} => start < current
  /\ line \in Nat

\* The line is that of the cursor, also inside of strings and behind one that
\* never ends.
LineCounted ==
  line = Cardinality({i \in 1 .. current : source[i] = Newline})

\* The abstract tokenizer sees whole lexemes only.
T == INSTANCE Tokenizer WITH
       text <- source,
       pos <- IF mode \in {"token", "done"} THEN current ELSE start,
       out <- tokens,
       ended <- mode = "done"

\* Scanning with one or two characters of lookahead finds, at every position,
\* the longest lexeme there is, and the text of every token is the right part
\* of the source.
ImplementsTokenizer == T!Spec

\* Every source is scanned to its end.
LexEnds == <>(mode = "done")

===============================================================================
