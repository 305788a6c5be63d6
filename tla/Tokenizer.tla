------------------------------ MODULE Tokenizer ------------------------------
(***************************************************************************)
(* What the lexer promises: at every position the longest lexeme that      *)
(* begins there becomes a token, and a character with which none begins is *)
(* dropped.  A quote that is never closed takes the rest of the text with  *)
(* it.                                                                     *)
(***************************************************************************)
EXTENDS Lexical

VARIABLES
  text,     \* the source
  pos,      \* characters dealt with
  out,      \* tokens found
  ended     \* whether the end-of-file token has been added

Sub(i, j) == SubSeq(text, i, j)

IsWord(s) == s # <<>> /\ Head(s) \in Alpha /\ \A i \in DOMAIN s : s[i] \in AlphaNumeric

IsDigits(s) == s # <<>> /\ \A i \in DOMAIN s : s[i] \in Digit

IsNumber(s) ==
  \/ IsDigits(s)
  \/ \E i \in DOMAIN s : /\ s[i] = "."
                         /\ IsDigits(SubSeq(s, 1, i - 1))
                         /\ IsDigits(SubSeq(s, i + 1, Len(s)))

IsString(s) ==
  /\ Len(s) >= 2
  /\ {i \in DOMAIN s : s[i] = Quote} = {1, Len(s)}

\* Operators and punctuation, by the characters they are made of.
Symbol ==
  [s \in {<<c>> : c \in DOMAIN Single}
           \cup {<<c, Double[c][1]>> : c \in DOMAIN Double}
           \cup {<<c>> : c \in {d \in DOMAIN Double : Double[d][3] # "none"}} |->
     CASE s[1] \in DOMAIN Single                 -> Single[s[1]]
       [] s[1] \in DOMAIN Double /\ Len(s) = 2 -> Double[s[1]][2]
       [] s[1] \in DOMAIN Double /\ Len(s) = 1 -> Double[s[1]][3]]

IsLexeme(s) == IsWord(s) \/ IsNumber(s) \/ IsString(s) \/ s \in DOMAIN Symbol

TokenOf(s) ==
  CASE IsWord(s)   -> Token(WordKind(s), s)
    [] IsNumber(s) -> Token("Numeric", s)
    [] IsString(s) -> Token("String", SubSeq(s, 2, Len(s) - 1))
    [] OTHER       -> Token(Symbol[s], <<>>)

Init ==
  /\ pos = 0
  /\ out = <<>>
  /\ ended = FALSE

\* The last positions of the lexemes that begin here.
Ends == {j \in pos + 1 .. Len(text) : IsLexeme(Sub(pos + 1, j))}

Munch ==
  /\ Ends # {}
  /\ pos' = Max(Ends)
  /\ out' = Append(out, TokenOf(Sub(pos + 1, Max(Ends))))
  /\ UNCHANGED <<text, ended>>

Skip ==
  /\ pos < Len(text)
  /\ Ends = {}
  /\ pos' = IF text[pos + 1] = Quote THEN Len(text) ELSE pos + 1
  /\ UNCHANGED <<text, out, ended>>

End ==
  /\ pos = Len(text)
  /\ ~ended
  /\ out' = Append(out, Token("Eof", <<>>))
  /\ ended' = TRUE
  /\ UNCHANGED <<text, pos>>

Next == Munch \/ Skip \/ End

Spec == Init /\ [][Next]_<<text, pos, out, ended>>

===============================================================================
