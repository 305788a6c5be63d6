----------------------------- MODULE LexerProofs -----------------------------
(***************************************************************************)
(* Theorems about the lexer, for every set of letters, digits and keywords *)
(* and every source.                                                       *)
(***************************************************************************)
EXTENDS Lexer, ProofBasics, FiniteSetTheorems

(***************************************************************************)
(* The tables.                                                             *)
(***************************************************************************)

LEMMA Tables ==
  /\ DOMAIN Single \cap DOMAIN Double = {}
  /\ {"none", Quote, Newline} \cap (DOMAIN Single \cup DOMAIN Double) = {}
  /\ \A c \in DOMAIN Double : Double[c][1] \in {"=", "&", "|"}
  /\ Quote # Newline /\ "none" \notin {Quote, Newline, "=", "&", "|"}
  /\ Newline \notin {"=", "&", "|"}
  BY DEF Single, Double, Quote, Newline

LEMMA Letters ==
  /\ Alpha \cap Digit = {}
  /\ AlphaNumeric \cap ({Quote, Newline, "none"} \cup DOMAIN Single \cup DOMAIN Double) = {}
  BY LexicalAssumption

(***************************************************************************)
(* The cursor and the line.                                                *)
(***************************************************************************)

SourceOK == source \in Seq(STRING)

CursorInv == SourceOK /\ TypeOK /\ LineCounted

\* The line ends among the first n characters of the source.
LineEnds(n) == {i \in 1 .. n : source[i] = Newline}

LEMMA LineEndsFinite ==
  ASSUME NEW n \in Nat
  PROVE  IsFiniteSet(LineEnds(n)) /\ Cardinality(LineEnds(n)) \in Nat
<1>1. IsFiniteSet(1 .. n)
  BY FS_Interval
<1>2. IsFiniteSet(LineEnds(n))
  BY <1>1, FS_Subset DEF LineEnds
<1> QED
  BY <1>2, FS_CardinalityType

\* A character that is passed counts if it is a line end.
LEMMA LineEndsStep ==
  ASSUME NEW n \in Nat
  PROVE  Cardinality(LineEnds(n + 1)) =
           IF source[n + 1] = Newline THEN Cardinality(LineEnds(n)) + 1
                                      ELSE Cardinality(LineEnds(n))
<1>1. CASE source[n + 1] = Newline
  <2>1. LineEnds(n + 1) = LineEnds(n) \cup {n + 1} /\ n + 1 \notin LineEnds(n)
    BY <1>1 DEF LineEnds
  <2> QED
    BY <1>1, <2>1, LineEndsFinite, FS_AddElement
<1>2. CASE source[n + 1] # Newline
  <2>1. LineEnds(n + 1) = LineEnds(n)
    BY <1>2 DEF LineEnds
  <2> QED
    BY <1>2, <2>1
<1> QED
  BY <1>1, <1>2

LEMMA LineCountedByEnds == LineCounted <=> line = Cardinality(LineEnds(current))
  BY DEF LineCounted, LineEnds

\* What is known of the next character.
LEMMA PeekFacts ==
  ASSUME CursorInv
  PROVE  /\ Peek # "none" => current < Len(source) /\ Peek = source[current + 1]
         /\ PeekNext # "none" => current + 1 < Len(source) /\ PeekNext = source[current + 2]
         /\ ~IsAtEnd => current < Len(source) /\ Peek = source[current + 1]
         /\ IsAtEnd => current = Len(source)
         /\ current \in Nat
  BY DEF CursorInv, SourceOK, TypeOK, Peek, PeekNext, At, IsAtEnd

LEMMA CursorInit == Init => CursorInv
<1> SUFFICES ASSUME Init
             PROVE  CursorInv
  OBVIOUS
<1>1. SourceOK /\ TypeOK
  BY InputAssumption DEF Init, SourceOK, TypeOK
<1>2. {i \in 1 .. 0 : source[i] = Newline} = {}
  OBVIOUS
<1>3. LineCounted
  BY <1>2, FS_EmptySet DEF Init, LineCounted
<1> QED
  BY <1>1, <1>3 DEF CursorInv

\* The cursor passes one character, and the line follows.
LEMMA PassOne ==
  ASSUME CursorInv, UNCHANGED source, current' = current + 1,
         line' = IF source[current + 1] = Newline THEN line + 1 ELSE line
  PROVE  LineCounted' /\ line' \in Nat
<1>1. current \in Nat /\ line \in Nat
  BY DEF CursorInv, SourceOK, TypeOK
<1>2. line = Cardinality(LineEnds(current))
  BY LineCountedByEnds DEF CursorInv
<1>3. line' = Cardinality(LineEnds(current + 1))
  BY <1>1, <1>2, LineEndsStep
<1>4. LineEnds(current + 1) = {i \in 1 .. current' : source'[i] = Newline}
  BY DEF LineEnds
<1> QED
  BY <1>1, <1>3, <1>4 DEF LineCounted

LEMMA PassNone ==
  ASSUME CursorInv, UNCHANGED <<source, current, line>>
  PROVE  LineCounted' /\ line' \in Nat
  BY DEF CursorInv, TypeOK, LineCounted

LEMMA PassTwo ==
  ASSUME CursorInv, UNCHANGED <<source, line>>, current' = current + 2,
         source[current + 1] # Newline, source[current + 2] # Newline
  PROVE  LineCounted' /\ line' \in Nat
<1>1. current \in Nat /\ line \in Nat
  BY DEF CursorInv, SourceOK, TypeOK
<1>2. line = Cardinality(LineEnds(current))
  BY LineCountedByEnds DEF CursorInv
<1>3. line = Cardinality(LineEnds(current + 1))
  BY <1>1, <1>2, LineEndsStep
<1>4. current + 1 \in Nat /\ (current + 1) + 1 = current + 2
  BY <1>1
<1>5. Cardinality(LineEnds((current + 1) + 1)) = Cardinality(LineEnds(current + 1))
  BY <1>4, LineEndsStep
<1>6. line' = Cardinality(LineEnds(current + 2))
  BY <1>3, <1>4, <1>5
<1>7. LineEnds(current + 2) = {i \in 1 .. current' : source'[i] = Newline}
  BY DEF LineEnds
<1> QED
  BY <1>1, <1>6, <1>7 DEF LineCounted

LEMMA CursorStep == CursorInv /\ [Next]_vars => CursorInv'
<1> SUFFICES ASSUME CursorInv, [Next]_vars
             PROVE  CursorInv'
  OBVIOUS
<1> USE DEF Scanning, Return
<1>t. /\ SourceOK /\ TypeOK /\ Len(source) \in Nat
      /\ start \in Nat /\ current \in Nat /\ line \in Nat
      /\ start <= current /\ current <= Len(source)
      /\ mode \in {"token", "identifier", "digits", "fraction", "string", "done"}
      /\ mode \in {"identifier", "digits", "fraction", "string"} => start < current
  BY DEF CursorInv, SourceOK, TypeOK
<1>p. /\ Peek # "none" => current < Len(source) /\ Peek = source[current + 1]
      /\ PeekNext # "none" => current + 1 < Len(source) /\ PeekNext = source[current + 2]
      /\ ~IsAtEnd => current < Len(source) /\ Peek = source[current + 1]
      /\ IsAtEnd => current = Len(source)
  BY PeekFacts
<1>s. ASSUME UNCHANGED source, LineCounted', line' \in Nat,
             start' \in Nat, current' \in Nat,
             start' <= current', current' <= Len(source),
             mode' \in {"token", "identifier", "digits", "fraction", "string", "done"},
             mode' \in {"identifier", "digits", "fraction", "string"} => start' < current'
      PROVE  CursorInv'
  BY <1>t, <1>s DEF CursorInv, SourceOK, TypeOK
\* The cursor passes one character that is no line end.
<1>o. ASSUME UNCHANGED <<source, line>>, current' = current + 1,
             Peek # "none", Peek # Newline
      PROVE  LineCounted' /\ line' \in Nat
  BY <1>o, <1>p, PassOne
<1>1. CASE ScanSymbol
  <2>1. Peek # "none" /\ Peek # Newline
    BY <1>1, Tables DEF ScanSymbol
  <2>2. LineCounted' /\ line' \in Nat
    BY <1>1, <1>o, <2>1 DEF ScanSymbol
  <2> QED
    BY <1>1, <1>p, <1>s, <1>t, <2>1, <2>2 DEF ScanSymbol
<1>2. CASE ScanDouble
  <2>1. Peek # "none" /\ Peek # Newline
    BY <1>2, Tables DEF ScanDouble
  <2>2. CASE PeekNext = Double[Peek][1]
    <3>1. PeekNext # "none" /\ PeekNext # Newline
      BY <1>2, <2>2, Tables DEF ScanDouble
    <3>2. LineCounted' /\ line' \in Nat
      BY <1>2, <1>p, <2>1, <2>2, <3>1, PassTwo DEF ScanDouble
    <3> QED
      BY <1>2, <1>p, <1>s, <1>t, <2>2, <3>1, <3>2 DEF ScanDouble
  <2>3. CASE PeekNext # Double[Peek][1]
    <3>1. LineCounted' /\ line' \in Nat
      BY <1>2, <1>o, <2>1, <2>3 DEF ScanDouble
    <3> QED
      BY <1>2, <1>p, <1>s, <1>t, <2>1, <2>3, <3>1 DEF ScanDouble
  <2> QED
    BY <2>2, <2>3
<1>3. CASE ScanFirst
  <2>1. Peek # "none" /\ Peek # Newline
    BY <1>3, Tables, Letters DEF ScanFirst
  <2>2. LineCounted' /\ line' \in Nat
    BY <1>3, <1>o, <2>1 DEF ScanFirst
  <2>3. mode' \in {"identifier", "digits", "string"}
    BY <1>3 DEF ScanFirst, AlphaNumeric
  <2>4. UNCHANGED source /\ start' = current /\ current' = current + 1
    BY <1>3 DEF ScanFirst
  <2> QED
    BY <1>p, <1>s, <1>t, <2>1, <2>2, <2>3, <2>4
<1>4. CASE ScanOther
  <2>1. current < Len(source) /\ Peek = source[current + 1]
    BY <1>4, <1>p DEF ScanOther
  <2>2. LineCounted' /\ line' \in Nat
    BY <1>4, <2>1, PassOne DEF ScanOther
  <2> QED
    BY <1>4, <1>s, <1>t, <2>1, <2>2 DEF ScanOther
<1>5. CASE ScanEof
  <2>1. LineCounted' /\ line' \in Nat
    BY <1>5, PassNone DEF ScanEof
  <2> QED
    BY <1>5, <1>s, <1>t, <2>1 DEF ScanEof
<1>6. CASE ScanLetter
  <2>1. Peek # "none" /\ Peek # Newline
    BY <1>6, Letters DEF ScanLetter
  <2>2. LineCounted' /\ line' \in Nat
    BY <1>6, <1>o, <2>1 DEF ScanLetter, Advance
  <2> QED
    BY <1>6, <1>p, <1>s, <1>t, <2>1, <2>2 DEF ScanLetter, Advance
<1>7. CASE ScanWordEnd
  <2>1. LineCounted' /\ line' \in Nat
    BY <1>7, PassNone DEF ScanWordEnd
  <2> QED
    BY <1>7, <1>s, <1>t, <2>1 DEF ScanWordEnd
<1>8. CASE ScanDigit
  <2>1. Peek # "none" /\ Peek # Newline
    BY <1>8, Letters DEF ScanDigit, AlphaNumeric
  <2>2. LineCounted' /\ line' \in Nat
    BY <1>8, <1>o, <2>1 DEF ScanDigit, Advance
  <2> QED
    BY <1>8, <1>p, <1>s, <1>t, <2>1, <2>2 DEF ScanDigit, Advance
<1>9. CASE ScanDot
  <2>1. CASE Peek = "." /\ PeekNext \in Digit
    <3>1. Peek # "none" /\ Peek # Newline
      BY <2>1 DEF Newline
    <3>2. LineCounted' /\ line' \in Nat
      BY <1>9, <1>o, <2>1, <3>1 DEF ScanDot
    <3> QED
      BY <1>9, <1>p, <1>s, <1>t, <2>1, <3>1, <3>2 DEF ScanDot
  <2>2. CASE ~(Peek = "." /\ PeekNext \in Digit)
    <3>1. LineCounted' /\ line' \in Nat
      BY <1>9, <2>2, PassNone DEF ScanDot
    <3> QED
      BY <1>9, <1>s, <1>t, <2>2, <3>1 DEF ScanDot
  <2> QED
    BY <2>1, <2>2
<1>10. CASE ScanNumberEnd
  <2>1. LineCounted' /\ line' \in Nat
    BY <1>10, PassNone DEF ScanNumberEnd
  <2> QED
    BY <1>10, <1>s, <1>t, <2>1 DEF ScanNumberEnd
<1>11. CASE ScanStringChar
  <2>1. current < Len(source) /\ Peek = source[current + 1]
    BY <1>11, <1>p DEF ScanStringChar
  <2>2. LineCounted' /\ line' \in Nat
    BY <1>11, <2>1, PassOne DEF ScanStringChar, Advance
  <2> QED
    BY <1>11, <1>s, <1>t, <2>1, <2>2 DEF ScanStringChar, Advance
<1>12. CASE ScanUnterminated
  <2>1. LineCounted' /\ line' \in Nat
    BY <1>12, PassNone DEF ScanUnterminated
  <2> QED
    BY <1>12, <1>s, <1>t, <2>1 DEF ScanUnterminated
<1>13. CASE ScanStringEnd
  <2>1. Peek # "none" /\ Peek # Newline
    BY <1>13, Tables DEF ScanStringEnd
  <2>2. LineCounted' /\ line' \in Nat
    BY <1>13, <1>o, <2>1 DEF ScanStringEnd
  <2> QED
    BY <1>13, <1>p, <1>s, <1>t, <2>1, <2>2 DEF ScanStringEnd
<1>14. CASE UNCHANGED vars
  <2>1. LineCounted' /\ line' \in Nat
    BY <1>14, PassNone DEF vars
  <2> QED
    BY <1>14, <1>s, <1>t, <2>1 DEF vars
<1> QED
  BY <1>1, <1>2, <1>3, <1>4, <1>5, <1>6, <1>7, <1>8, <1>9, <1>10, <1>11, <1>12,
     <1>13, <1>14 DEF Next

LEMMA CursorInvHolds == Spec => []CursorInv
<1>1. Init => CursorInv
  BY CursorInit
<1>2. CursorInv /\ [Next]_vars => CursorInv'
  BY CursorStep
<1> QED
  BY <1>1, <1>2, PTL DEF Spec

\* The cursor never leaves the source, however a token ends, and stays behind
\* the start of the token: the lexer reads no character that is not there.
THEOREM TypeCorrect == Spec => []TypeOK
<1>1. CursorInv => TypeOK
  BY DEF CursorInv
<1> QED
  BY <1>1, CursorInvHolds, PTL

\* Every line end before the cursor has been counted once, by whichever loop
\* passed it.
THEOREM LineCountedHolds == Spec => []LineCounted
<1>1. CursorInv => LineCounted
  BY DEF CursorInv
<1> QED
  BY <1>1, CursorInvHolds, PTL

(***************************************************************************)
(* How many steps a source takes at most.                                  *)
(***************************************************************************)

\* What the functions do that can still be called on the character at hand.
Rest(m) == CASE m = "done" -> 0 [] m = "token" -> 1 [] m = "digits" -> 3 [] OTHER -> 2

StepsLeft == 3 * (Len(source) - current) + Rest(mode)

LEMMA StepsLeftNat == CursorInv => StepsLeft \in Nat
<1> SUFFICES ASSUME CursorInv PROVE StepsLeft \in Nat
  OBVIOUS
<1>1. Rest(mode) \in Nat
  BY DEF Rest
<1>2. PICK n \in Nat : n = Len(source) - current
  BY DEF CursorInv, SourceOK, TypeOK
<1> QED
  BY <1>1, <1>2 DEF StepsLeft

LEMMA OneStepLess == CursorInv /\ Next => StepsLeft' < StepsLeft
<1> SUFFICES ASSUME CursorInv, Next PROVE StepsLeft' < StepsLeft
  OBVIOUS
<1>1. PICK n \in Int, c \in Int : n = Len(source) /\ c = current
  BY DEF CursorInv, SourceOK, TypeOK
<1>2. Len(source') = n /\ source' = source
  BY <1>1 DEF Next, Scanning, ScanSymbol, ScanDouble, ScanFirst, ScanOther, ScanEof, ScanLetter,
     ScanWordEnd, ScanDigit, ScanDot, ScanNumberEnd, ScanStringChar, ScanUnterminated, ScanStringEnd
<1>3. Rest(mode) \in Int /\ Rest(mode') \in Int
  BY DEF Rest
<1>4. ASSUME NEW d \in Int, current' = c + d, Rest(mode') < Rest(mode) + 3 * d
      PROVE  StepsLeft' < StepsLeft
  <2>1. StepsLeft = 3 * (n - c) + Rest(mode)
    BY <1>1 DEF StepsLeft
  <2>2. StepsLeft' = 3 * (n - (c + d)) + Rest(mode')
    BY <1>2, <1>4 DEF StepsLeft
  <2>3. PICK x \in Int, y \in Int : x = Rest(mode) /\ y = Rest(mode')
    BY <1>3
  <2>4. 3 * (n - (c + d)) + y < 3 * (n - c) + x
    BY <1>1, <1>4, <2>3
  <2> QED
    BY <2>1, <2>2, <2>3, <2>4
<1>5. ASSUME NEW d \in {1, 2}, current' = c + d, mode # "done" PROVE StepsLeft' < StepsLeft
  <2>1. Rest(mode') \in 0 .. 3 /\ Rest(mode) \in 1 .. 3
    BY <1>5 DEF Rest
  <2>2. Rest(mode') < Rest(mode) + 3 * d /\ d \in Int
    BY <2>1
  <2> QED
    BY <1>4, <1>5, <2>2
<1>6. ASSUME current' = c, Rest(mode') < Rest(mode) PROVE StepsLeft' < StepsLeft
  <2>1. current' = c + 0 /\ Rest(mode') < Rest(mode) + 3 * 0
    BY <1>1, <1>3, <1>6
  <2> QED
    BY <1>4, <2>1
<1>7. CASE ScanSymbol \/ ScanFirst \/ ScanOther \/ ScanLetter \/ ScanDigit \/ ScanStringChar
           \/ ScanStringEnd
  <2>1. current' = c + 1 /\ mode # "done"
    BY <1>1, <1>7 DEF Scanning, ScanSymbol, ScanFirst, ScanOther, ScanLetter, ScanDigit,
       ScanStringChar, ScanStringEnd, Advance
  <2> QED
    BY <1>5, <2>1
<1>8. CASE ScanDouble
  <2>1. (current' = c + 1 \/ current' = c + 2) /\ mode # "done"
    BY <1>1, <1>8 DEF Scanning, ScanDouble
  <2> QED
    BY <1>5, <2>1
<1>9. CASE ScanDot
  <2>1. mode = "digits" /\ mode' = "fraction" /\ (current' = c + 1 \/ current' = c)
    BY <1>1, <1>9 DEF Scanning, ScanDot
  <2>2. Rest(mode') < Rest(mode)
    BY <2>1 DEF Rest
  <2> QED
    BY <1>5, <1>6, <2>1, <2>2
<1>10. CASE ScanEof \/ ScanWordEnd \/ ScanNumberEnd \/ ScanUnterminated
  <2>1. /\ current' = c
        /\ \/ mode = "token" /\ mode' = "done"
           \/ mode \in {"identifier", "fraction", "string"} /\ mode' = "token"
    BY <1>1, <1>10 DEF Scanning, ScanEof, ScanWordEnd, ScanNumberEnd, ScanUnterminated, Return
  <2>2. Rest(mode') < Rest(mode)
    BY <2>1 DEF Rest
  <2> QED
    BY <1>6, <2>1, <2>2
<1> QED
  BY <1>7, <1>8, <1>9, <1>10 DEF Next

\* Each step leaves fewer to do, so a source is scanned in three times as many
\* as it has characters, and one: no function hands a character to another that
\* hands it back.  (LexEnds rests on this and on the fairness of Next.)
THEOREM LexerDescends == Spec => [](StepsLeft \in Nat) /\ [][StepsLeft' < StepsLeft]_vars
<1>1. CursorInv /\ [Next]_vars => [StepsLeft' < StepsLeft]_vars
  BY OneStepLess
<1> QED
  BY <1>1, StepsLeftNat, CursorInvHolds, PTL DEF Spec

(***************************************************************************)
(* The lexemes, by their characters in the source.                         *)
(***************************************************************************)

LEMMA SameTables ==
  /\ T!Single = Single /\ T!Double = Double /\ T!Quote = Quote
  /\ T!AlphaNumeric = AlphaNumeric
  /\ \A w : T!WordKind(w) = WordKind(w)
  /\ \A k, w : T!Token(k, w) = Token(k, w)
  BY DEF T!Single, Single, T!Double, Double, T!Quote, Quote, T!AlphaNumeric, AlphaNumeric,
         T!WordKind, WordKind, T!Token, Token

\* The characters from position a to position b are digits, one at least.
DigitsIn(s, a, b) == a <= b /\ \A i \in a .. b : s[i] \in Digit

LEMMA PartFacts ==
  ASSUME NEW s \in Seq(STRING), NEW a \in Nat, NEW b \in Nat, 1 <= a, b <= Len(s)
  PROVE  /\ SubSeq(s, a, b) \in Seq(STRING)
         /\ a <= b => Len(SubSeq(s, a, b)) = b - a + 1
         /\ a > b => SubSeq(s, a, b) = <<>>
         /\ \A i \in 1 .. b - a + 1 : SubSeq(s, a, b)[i] = s[a + i - 1]
  OBVIOUS

LEMMA DigitsFacts ==
  ASSUME NEW s \in Seq(STRING), NEW a \in Nat, NEW b \in Nat, 1 <= a, b <= Len(s)
  PROVE  T!IsDigits(SubSeq(s, a, b)) <=> DigitsIn(s, a, b)
<1> DEFINE t == SubSeq(s, a, b)
<1>1. CASE a > b
  BY <1>1, PartFacts DEF T!IsDigits, DigitsIn
<1>2. CASE a <= b
  <2>0. /\ t \in Seq(STRING) /\ Len(t) = b - a + 1
        /\ \A i \in 1 .. b - a + 1 : t[i] = s[a + i - 1]
    BY <1>2, PartFacts
  <2> HIDE DEF t
  <2>1. /\ t # <<>> /\ DOMAIN t = 1 .. b - a + 1
        /\ \A i \in 1 .. b - a + 1 : t[i] = s[a + i - 1]
    BY <1>2, <2>0
  <2>2. ASSUME \A i \in DOMAIN t : t[i] \in Digit, NEW i \in a .. b
        PROVE  s[i] \in Digit
    <3>1. i - a + 1 \in 1 .. b - a + 1 /\ a + (i - a + 1) - 1 = i
      OBVIOUS
    <3> QED
      BY <2>1, <2>2, <3>1
  <2>3. ASSUME \A i \in a .. b : s[i] \in Digit, NEW i \in DOMAIN t
        PROVE  t[i] \in Digit
    <3>1. a + i - 1 \in a .. b
      BY <2>1
    <3> QED
      BY <2>1, <2>3, <3>1
  <2>4. T!IsDigits(t) <=> \A i \in DOMAIN t : t[i] \in Digit
    BY <2>1 DEF T!IsDigits
  <2>5. DigitsIn(s, a, b) <=> \A i \in a .. b : s[i] \in Digit
    BY <1>2 DEF DigitsIn
  <2>6. T!IsDigits(t) <=> DigitsIn(s, a, b)
    BY <2>2, <2>3, <2>4, <2>5
  <2> QED
    BY <2>6 DEF t
<1> QED
  BY <1>1, <1>2

\* A lexeme that begins behind position p and ends at position j.
LEMMA Part ==
  ASSUME NEW s \in Seq(STRING), NEW p \in Nat, NEW j \in Nat, p < j, j <= Len(s)
  PROVE  /\ SubSeq(s, p + 1, j) \in Seq(STRING)
         /\ Len(SubSeq(s, p + 1, j)) = j - p
         /\ DOMAIN SubSeq(s, p + 1, j) = 1 .. j - p
         /\ SubSeq(s, p + 1, j) # <<>>
         /\ Head(SubSeq(s, p + 1, j)) = s[p + 1]
         /\ \A i \in 1 .. j - p : SubSeq(s, p + 1, j)[i] = s[p + i]
<1>1. /\ SubSeq(s, p + 1, j) \in Seq(STRING)
      /\ Len(SubSeq(s, p + 1, j)) = j - p
      /\ \A i \in 1 .. j - p : SubSeq(s, p + 1, j)[i] = s[p + i]
  OBVIOUS
<1> DEFINE t == SubSeq(s, p + 1, j)
<1> HIDE DEF t
<1>2. t \in Seq(STRING) /\ Len(t) = j - p /\ \A i \in 1 .. j - p : t[i] = s[p + i]
  BY <1>1 DEF t
<1>3. DOMAIN t = 1 .. j - p /\ t # <<>> /\ Head(t) = t[1] /\ t[1] = s[p + 1]
  BY <1>2
<1> QED
  BY <1>2, <1>3 DEF t

LEMMA WordFacts ==
  ASSUME NEW s \in Seq(STRING), NEW p \in Nat, NEW j \in Nat, p < j, j <= Len(s)
  PROVE  T!IsWord(SubSeq(s, p + 1, j)) <=>
           s[p + 1] \in Alpha /\ \A i \in p + 1 .. j : s[i] \in AlphaNumeric
<1> DEFINE t == SubSeq(s, p + 1, j)
<1>1. /\ t # <<>> /\ Head(t) = s[p + 1] /\ DOMAIN t = 1 .. j - p
      /\ \A i \in 1 .. j - p : t[i] = s[p + i]
  BY Part
<1>2. T!IsWord(t) <=> s[p + 1] \in Alpha /\ \A i \in DOMAIN t : t[i] \in AlphaNumeric
  BY <1>1, SameTables DEF T!IsWord
<1> HIDE DEF t
<1>3. ASSUME \A i \in DOMAIN t : t[i] \in AlphaNumeric, NEW i \in p + 1 .. j
      PROVE  s[i] \in AlphaNumeric
  <2>1. i - p \in 1 .. j - p /\ p + (i - p) = i
    OBVIOUS
  <2> QED
    BY <1>1, <1>3, <2>1
<1>4. ASSUME \A i \in p + 1 .. j : s[i] \in AlphaNumeric, NEW i \in DOMAIN t
      PROVE  t[i] \in AlphaNumeric
  <2>1. p + i \in p + 1 .. j
    BY <1>1
  <2> QED
    BY <1>1, <1>4, <2>1
<1> QED
  BY <1>2, <1>3, <1>4 DEF t

LEMMA NumberFacts ==
  ASSUME NEW s \in Seq(STRING), NEW p \in Nat, NEW j \in Nat, p < j, j <= Len(s)
  PROVE  T!IsNumber(SubSeq(s, p + 1, j)) <=>
           \/ DigitsIn(s, p + 1, j)
           \/ \E k \in p + 1 .. j : /\ s[k] = "."
                                    /\ DigitsIn(s, p + 1, k - 1)
                                    /\ DigitsIn(s, k + 1, j)
<1> DEFINE t == SubSeq(s, p + 1, j)
<1>1. /\ t \in Seq(STRING) /\ Len(t) = j - p /\ DOMAIN t = 1 .. j - p
      /\ \A i \in 1 .. j - p : t[i] = s[p + i]
  BY Part
<1>2. T!IsDigits(t) <=> DigitsIn(s, p + 1, j)
  BY DigitsFacts
<1> HIDE DEF t
\* A dot at position i of the lexeme.
<1>3. ASSUME NEW i \in 1 .. j - p
      PROVE  /\ T!IsDigits(SubSeq(t, 1, i - 1)) <=> DigitsIn(s, p + 1, p + i - 1)
             /\ T!IsDigits(SubSeq(t, i + 1, Len(t))) <=> DigitsIn(s, p + i + 1, j)
             /\ t[i] = s[p + i]
             /\ p + i \in p + 1 .. j
  <2>1. T!IsDigits(SubSeq(t, 1, i - 1)) <=> DigitsIn(t, 1, i - 1)
    BY <1>1, DigitsFacts
  <2>2. T!IsDigits(SubSeq(t, i + 1, Len(t))) <=> DigitsIn(t, i + 1, j - p)
    BY <1>1, DigitsFacts
  <2>3. ASSUME NEW a \in 1 .. j - p + 1, NEW b \in 0 .. j - p
        PROVE  DigitsIn(t, a, b) <=> DigitsIn(s, p + a, p + b)
    <3>1. ASSUME DigitsIn(t, a, b), NEW n \in p + a .. p + b
          PROVE  s[n] \in Digit
      <4>1. n - p \in a .. b /\ n - p \in 1 .. j - p /\ p + (n - p) = n
        OBVIOUS
      <4> QED
        BY <1>1, <3>1, <4>1 DEF DigitsIn
    <3>2. ASSUME DigitsIn(s, p + a, p + b), NEW n \in a .. b
          PROVE  t[n] \in Digit
      <4>1. p + n \in p + a .. p + b /\ n \in 1 .. j - p
        OBVIOUS
      <4> QED
        BY <1>1, <3>2, <4>1 DEF DigitsIn
    <3>3. a <= b <=> p + a <= p + b
      OBVIOUS
    <3> QED
      BY <3>1, <3>2, <3>3 DEF DigitsIn
  <2>4. DigitsIn(t, 1, i - 1) <=> DigitsIn(s, p + 1, p + (i - 1))
    BY <2>3
  <2>5. DigitsIn(t, i + 1, j - p) <=> DigitsIn(s, p + (i + 1), p + (j - p))
    BY <2>3
  <2>6. p + (i - 1) = p + i - 1 /\ p + (i + 1) = p + i + 1 /\ p + (j - p) = j
    OBVIOUS
  <2> QED
    BY <1>1, <2>1, <2>2, <2>4, <2>5, <2>6
<1>4. ASSUME NEW k \in p + 1 .. j
      PROVE  k - p \in 1 .. j - p /\ p + (k - p) = k
  OBVIOUS
<1>5. T!IsNumber(t) <=>
        \/ T!IsDigits(t)
        \/ \E i \in 1 .. j - p : /\ t[i] = "."
                                 /\ T!IsDigits(SubSeq(t, 1, i - 1))
                                 /\ T!IsDigits(SubSeq(t, i + 1, Len(t)))
  BY <1>1 DEF T!IsNumber
<1>6. (\E i \in 1 .. j - p : /\ t[i] = "."
                             /\ T!IsDigits(SubSeq(t, 1, i - 1))
                             /\ T!IsDigits(SubSeq(t, i + 1, Len(t))))
        <=> \E i \in 1 .. j - p : /\ s[p + i] = "."
                                  /\ DigitsIn(s, p + 1, p + i - 1)
                                  /\ DigitsIn(s, p + i + 1, j)
  BY <1>3
<1>7. (\E i \in 1 .. j - p : /\ s[p + i] = "."
                             /\ DigitsIn(s, p + 1, p + i - 1)
                             /\ DigitsIn(s, p + i + 1, j))
        <=> \E k \in p + 1 .. j : /\ s[k] = "."
                                  /\ DigitsIn(s, p + 1, k - 1)
                                  /\ DigitsIn(s, k + 1, j)
  <2>1. ASSUME NEW i \in 1 .. j - p, s[p + i] = ".",
               DigitsIn(s, p + 1, p + i - 1), DigitsIn(s, p + i + 1, j)
        PROVE  \E k \in p + 1 .. j : /\ s[k] = "."
                                     /\ DigitsIn(s, p + 1, k - 1)
                                     /\ DigitsIn(s, k + 1, j)
    BY <1>3, <2>1
  <2>2. ASSUME NEW k \in p + 1 .. j, s[k] = ".",
               DigitsIn(s, p + 1, k - 1), DigitsIn(s, k + 1, j)
        PROVE  \E i \in 1 .. j - p : /\ s[p + i] = "."
                                     /\ DigitsIn(s, p + 1, p + i - 1)
                                     /\ DigitsIn(s, p + i + 1, j)
    <3>1. k - p \in 1 .. j - p /\ p + (k - p) = k
      BY <1>4
    <3>2. p + (k - p) - 1 = k - 1 /\ p + (k - p) + 1 = k + 1
      BY <3>1
    <3>3. /\ s[p + (k - p)] = "."
          /\ DigitsIn(s, p + 1, p + (k - p) - 1)
          /\ DigitsIn(s, p + (k - p) + 1, j)
      BY <2>2, <3>1, <3>2
    <3> QED
      BY <3>1, <3>3
  <2> QED
    BY <2>1, <2>2
<1> QED
  BY <1>2, <1>5, <1>6, <1>7 DEF t

LEMMA StringFacts ==
  ASSUME NEW s \in Seq(STRING), NEW p \in Nat, NEW j \in Nat, p < j, j <= Len(s)
  PROVE  T!IsString(SubSeq(s, p + 1, j)) <=>
           /\ p + 2 <= j
           /\ s[p + 1] = Quote /\ s[j] = Quote
           /\ \A i \in p + 2 .. j - 1 : s[i] # Quote
<1> DEFINE t == SubSeq(s, p + 1, j)
           quotes == {i \in DOMAIN t : t[i] = Quote}
<1>1. /\ Len(t) = j - p /\ DOMAIN t = 1 .. j - p
      /\ \A i \in 1 .. j - p : t[i] = s[p + i]
  BY Part
<1> HIDE DEF t
<1>0. T!IsString(t) <=> Len(t) >= 2 /\ quotes = {1, Len(t)}
  BY SameTables DEF T!IsString
<1>2. T!IsString(t) <=> p + 2 <= j /\ quotes = {1, j - p}
  <2> HIDE DEF quotes
  <2> QED
    BY <1>0, <1>1
<1>3. \A i \in 1 .. j - p : i \in quotes <=> s[p + i] = Quote
  BY <1>1
<1>4. quotes \subseteq 1 .. j - p
  BY <1>1
<1> HIDE DEF quotes
<1>5. ASSUME p + 2 <= j, quotes = {1, j - p}
      PROVE  /\ s[p + 1] = Quote /\ s[j] = Quote
             /\ \A i \in p + 2 .. j - 1 : s[i] # Quote
  <2>1. 1 \in 1 .. j - p /\ j - p \in 1 .. j - p /\ p + (j - p) = j
    BY <1>5
  <2>2. s[p + 1] = Quote /\ s[j] = Quote
    BY <1>3, <1>5, <2>1
  <2>3. ASSUME NEW i \in p + 2 .. j - 1
        PROVE  s[i] # Quote
    <3>1. i - p \in 1 .. j - p /\ i - p \notin {1, j - p} /\ p + (i - p) = i
      OBVIOUS
    <3> QED
      BY <1>3, <1>5, <3>1
  <2> QED
    BY <2>2, <2>3
<1>6. ASSUME p + 2 <= j, s[p + 1] = Quote, s[j] = Quote,
             \A i \in p + 2 .. j - 1 : s[i] # Quote
      PROVE  quotes = {1, j - p}
  <2>1. 1 \in 1 .. j - p /\ j - p \in 1 .. j - p /\ p + (j - p) = j
    BY <1>6
  <2>2. 1 \in quotes /\ j - p \in quotes
    BY <1>3, <1>6, <2>1
  <2>3. ASSUME NEW i \in quotes, i \notin {1, j - p}
        PROVE  FALSE
    <3>1. i \in 1 .. j - p /\ p + i \in p + 2 .. j - 1
      BY <1>4, <2>3
    <3> QED
      BY <1>3, <1>6, <3>1
  <2> QED
    BY <2>2, <2>3
<1> QED
  BY <1>2, <1>5, <1>6 DEF t

LEMMA ShortSequences ==
  ASSUME NEW t \in Seq(STRING)
  PROVE  /\ Len(t) = 1 => t = <<t[1]>>
         /\ Len(t) = 2 => t = <<t[1], t[2]>>
<1>1. ASSUME Len(t) = 1 PROVE t = <<t[1]>>
  <2>1. t[1] \in STRING
    BY <1>1
  <2>2. <<t[1]>> \in Seq(STRING) /\ Len(<<t[1]>>) = 1
    BY <2>1
  <2>3. \A i \in 1 .. 1 : t[i] = <<t[1]>>[i]
    OBVIOUS
  <2> QED
    BY <1>1, <2>2, <2>3, SeqEqual
<1>2. ASSUME Len(t) = 2 PROVE t = <<t[1], t[2]>>
  <2>1. t[1] \in STRING /\ t[2] \in STRING
    BY <1>2
  <2>2. <<t[1], t[2]>> \in Seq(STRING) /\ Len(<<t[1], t[2]>>) = 2
    BY <2>1
  <2>3. \A i \in 1 .. 2 : t[i] = <<t[1], t[2]>>[i]
    OBVIOUS
  <2> QED
    BY <1>2, <2>2, <2>3, SeqEqual
<1> QED
  BY <1>1, <1>2

\* A symbol is one character or two.
LEMMA SymbolFacts ==
  ASSUME NEW s \in Seq(STRING), NEW p \in Nat, NEW j \in Nat, p < j, j <= Len(s)
  PROVE  SubSeq(s, p + 1, j) \in DOMAIN T!Symbol <=>
           \/ j = p + 1 /\ s[p + 1] \in DOMAIN Single
           \/ j = p + 1 /\ s[p + 1] \in DOMAIN Double /\ Double[s[p + 1]][3] # "none"
           \/ j = p + 2 /\ s[p + 1] \in DOMAIN Double /\ s[p + 2] = Double[s[p + 1]][1]
<1> DEFINE t == SubSeq(s, p + 1, j)
<1>1. /\ t \in Seq(STRING) /\ Len(t) = j - p
      /\ \A i \in 1 .. j - p : t[i] = s[p + i]
  BY Part
<1>2. t \in DOMAIN T!Symbol <=>
        \/ \E c \in DOMAIN Single : t = <<c>>
        \/ \E c \in DOMAIN Double : t = <<c, Double[c][1]>>
        \/ \E c \in DOMAIN Double : Double[c][3] # "none" /\ t = <<c>>
  BY SameTables DEF T!Symbol
<1> HIDE DEF t
<1>8. t[1] = s[p + 1] /\ (p + 2 <= j => t[2] = s[p + 2])
  BY <1>1
<1>3. ASSUME NEW c PROVE t = <<c>> <=> j = p + 1 /\ s[p + 1] = c
  <2>1. t = <<c>> => Len(t) = 1 /\ t[1] = c
    OBVIOUS
  <2>2. Len(t) = 1 => t = <<t[1]>>
    BY <1>1, ShortSequences
  <2> QED
    BY <1>1, <1>8, <2>1, <2>2
<1>4. ASSUME NEW c, NEW d PROVE t = <<c, d>> <=> j = p + 2 /\ s[p + 1] = c /\ s[p + 2] = d
  <2>1. t = <<c, d>> => Len(t) = 2 /\ t[1] = c /\ t[2] = d
    OBVIOUS
  <2>2. Len(t) = 2 => t = <<t[1], t[2]>>
    BY <1>1, ShortSequences
  <2> QED
    BY <1>1, <1>8, <2>1, <2>2
<1>5. (\E c \in DOMAIN Single : t = <<c>>) <=> j = p + 1 /\ s[p + 1] \in DOMAIN Single
  BY <1>3
<1>6. (\E c \in DOMAIN Double : t = <<c, Double[c][1]>>) <=>
        j = p + 2 /\ s[p + 1] \in DOMAIN Double /\ s[p + 2] = Double[s[p + 1]][1]
  BY <1>4
<1>7. (\E c \in DOMAIN Double : Double[c][3] # "none" /\ t = <<c>>) <=>
        j = p + 1 /\ s[p + 1] \in DOMAIN Double /\ Double[s[p + 1]][3] # "none"
  BY <1>3
<1> QED
  BY <1>2, <1>5, <1>6, <1>7 DEF t

\* The token of a symbol.
LEMMA SymbolValues ==
  ASSUME NEW s \in Seq(STRING), NEW p \in Nat, NEW j \in Nat, p < j, j <= Len(s),
         SubSeq(s, p + 1, j) \in DOMAIN T!Symbol
  PROVE  T!Symbol[SubSeq(s, p + 1, j)] =
           IF s[p + 1] \in DOMAIN Single THEN Single[s[p + 1]]
           ELSE IF j = p + 2 THEN Double[s[p + 1]][2] ELSE Double[s[p + 1]][3]
<1> DEFINE t == SubSeq(s, p + 1, j)
<1>1. Len(t) = j - p /\ t[1] = s[p + 1]
  BY Part
<1>2. T!Symbol[t] = CASE t[1] \in DOMAIN Single -> Single[t[1]]
                      [] t[1] \in DOMAIN Double /\ Len(t) = 2 -> Double[t[1]][2]
                      [] t[1] \in DOMAIN Double /\ Len(t) = 1 -> Double[t[1]][3]
  BY SameTables DEF T!Symbol
<1>3. \/ j = p + 1 /\ s[p + 1] \in DOMAIN Single
      \/ j = p + 1 /\ s[p + 1] \in DOMAIN Double
      \/ j = p + 2 /\ s[p + 1] \in DOMAIN Double
  BY SymbolFacts
<1>4. s[p + 1] \in DOMAIN Single => s[p + 1] \notin DOMAIN Double
  BY Tables
<1> HIDE DEF t
<1>5. CASE s[p + 1] \in DOMAIN Single
  <2>1. T!Symbol[t] = Single[s[p + 1]]
    BY <1>1, <1>2, <1>4, <1>5
  <2> QED
    BY <1>5, <2>1 DEF t
<1>6. CASE s[p + 1] \in DOMAIN Double /\ j = p + 2
  <2>1. Len(t) = 2
    BY <1>1, <1>6
  <2>2. T!Symbol[t] = Double[s[p + 1]][2]
    BY <1>1, <1>2, <1>4, <1>6, <2>1
  <2> QED
    BY <1>4, <1>6, <2>2 DEF t
<1>7. CASE s[p + 1] \in DOMAIN Double /\ j = p + 1
  <2>1. Len(t) = 1 /\ j # p + 2
    BY <1>1, <1>7
  <2>2. T!Symbol[t] = Double[s[p + 1]][3]
    BY <1>1, <1>2, <1>4, <1>7, <2>1
  <2> QED
    BY <1>4, <1>7, <2>1, <2>2 DEF t
<1> QED
  BY <1>3, <1>5, <1>6, <1>7

(***************************************************************************)
(* What a lexeme is, by its first character.                               *)
(***************************************************************************)

LEMMA WordLexeme ==
  ASSUME NEW s \in Seq(STRING), NEW p \in Nat, NEW j \in Nat, p < j, j <= Len(s),
         s[p + 1] \in Alpha
  PROVE  /\ T!IsLexeme(SubSeq(s, p + 1, j)) <=> \A i \in p + 1 .. j : s[i] \in AlphaNumeric
         /\ T!IsLexeme(SubSeq(s, p + 1, j)) =>
              T!TokenOf(SubSeq(s, p + 1, j)) =
                Token(WordKind(SubSeq(s, p + 1, j)), SubSeq(s, p + 1, j))
<1> DEFINE t == SubSeq(s, p + 1, j)
<1>1. s[p + 1] \notin Digit \cup {Quote} \cup DOMAIN Single \cup DOMAIN Double
  BY Letters DEF AlphaNumeric
<1>2. T!IsWord(t) <=> \A i \in p + 1 .. j : s[i] \in AlphaNumeric
  BY WordFacts
<1>3. ~T!IsNumber(t)
  <2>1. ASSUME NEW b \in Int
        PROVE  ~DigitsIn(s, p + 1, b)
    BY <1>1 DEF DigitsIn
  <2> QED
    BY <2>1, NumberFacts
<1>4. ~T!IsString(t)
  BY <1>1, StringFacts
<1>5. t \notin DOMAIN T!Symbol
  BY <1>1, SymbolFacts
<1> HIDE DEF t
<1>6. T!IsLexeme(t) <=> T!IsWord(t)
  BY <1>3, <1>4, <1>5 DEF T!IsLexeme
<1>7. T!IsWord(t) => T!TokenOf(t) = T!Token(T!WordKind(t), t)
  BY <1>3, <1>4 DEF T!TokenOf
<1> QED
  BY <1>2, <1>6, <1>7, SameTables DEF t

LEMMA NumberLexeme ==
  ASSUME NEW s \in Seq(STRING), NEW p \in Nat, NEW j \in Nat, p < j, j <= Len(s),
         s[p + 1] \in Digit
  PROVE  /\ T!IsLexeme(SubSeq(s, p + 1, j)) <=>
              \/ DigitsIn(s, p + 1, j)
              \/ \E k \in p + 1 .. j : /\ s[k] = "."
                                       /\ DigitsIn(s, p + 1, k - 1)
                                       /\ DigitsIn(s, k + 1, j)
         /\ T!IsLexeme(SubSeq(s, p + 1, j)) =>
              T!TokenOf(SubSeq(s, p + 1, j)) = Token("Numeric", SubSeq(s, p + 1, j))
<1> DEFINE t == SubSeq(s, p + 1, j)
<1>1. s[p + 1] \notin Alpha \cup {Quote} \cup DOMAIN Single \cup DOMAIN Double
  BY Letters DEF AlphaNumeric
<1>2. ~T!IsWord(t)
  BY <1>1, WordFacts
<1>4. ~T!IsString(t)
  BY <1>1, StringFacts
<1>5. t \notin DOMAIN T!Symbol
  BY <1>1, SymbolFacts
<1>8. T!IsNumber(t) <=>
        \/ DigitsIn(s, p + 1, j)
        \/ \E k \in p + 1 .. j : /\ s[k] = "."
                                 /\ DigitsIn(s, p + 1, k - 1)
                                 /\ DigitsIn(s, k + 1, j)
  BY NumberFacts
<1> HIDE DEF t
<1>6. T!IsLexeme(t) <=> T!IsNumber(t)
  BY <1>2, <1>4, <1>5 DEF T!IsLexeme
<1>7. T!IsNumber(t) => T!TokenOf(t) = T!Token("Numeric", t)
  BY <1>2, <1>4 DEF T!TokenOf
<1> QED
  BY <1>6, <1>7, <1>8, SameTables DEF t

LEMMA StringLexeme ==
  ASSUME NEW s \in Seq(STRING), NEW p \in Nat, NEW j \in Nat, p < j, j <= Len(s),
         s[p + 1] = Quote
  PROVE  /\ T!IsLexeme(SubSeq(s, p + 1, j)) <=>
              /\ p + 2 <= j
              /\ s[j] = Quote
              /\ \A i \in p + 2 .. j - 1 : s[i] # Quote
         /\ T!IsLexeme(SubSeq(s, p + 1, j)) =>
              T!TokenOf(SubSeq(s, p + 1, j)) = Token("String", SubSeq(s, p + 2, j - 1))
<1> DEFINE t == SubSeq(s, p + 1, j)
<1>1. s[p + 1] \notin AlphaNumeric \cup DOMAIN Single \cup DOMAIN Double
  BY Letters, Tables
<1>2. ~T!IsWord(t)
  BY <1>1, WordFacts DEF AlphaNumeric
<1>3. ~T!IsNumber(t)
  <2>1. ASSUME NEW b \in Int
        PROVE  ~DigitsIn(s, p + 1, b)
    BY <1>1 DEF DigitsIn, AlphaNumeric
  <2> QED
    BY <2>1, NumberFacts
<1>5. t \notin DOMAIN T!Symbol
  BY <1>1, SymbolFacts
<1>8. T!IsString(t) <=> /\ p + 2 <= j
                        /\ s[j] = Quote
                        /\ \A i \in p + 2 .. j - 1 : s[i] # Quote
  BY StringFacts
<1>9. Len(t) = j - p /\ t \in Seq(STRING) /\ \A i \in 1 .. j - p : t[i] = s[p + i]
  BY Part
<1>10. p + 2 <= j => SubSeq(t, 2, Len(t) - 1) = SubSeq(s, p + 2, j - 1)
  <2> HIDE DEF t
  <2> SUFFICES ASSUME p + 2 <= j
               PROVE  SubSeq(t, 2, Len(t) - 1) = SubSeq(s, p + 2, j - 1)
    OBVIOUS
  <2>1. /\ SubSeq(t, 2, Len(t) - 1) \in Seq(STRING)
        /\ SubSeq(s, p + 2, j - 1) \in Seq(STRING)
        /\ Len(SubSeq(t, 2, Len(t) - 1)) = j - p - 2
        /\ Len(SubSeq(s, p + 2, j - 1)) = j - p - 2
    BY <1>9
  <2>2. ASSUME NEW i \in 1 .. j - p - 2
        PROVE  SubSeq(t, 2, Len(t) - 1)[i] = SubSeq(s, p + 2, j - 1)[i]
    BY <1>9
  <2> QED
    BY <2>1, <2>2, SeqEqual
<1> HIDE DEF t
<1>6. T!IsLexeme(t) <=> T!IsString(t)
  BY <1>2, <1>3, <1>5 DEF T!IsLexeme
<1>7. T!IsString(t) => T!TokenOf(t) = T!Token("String", SubSeq(t, 2, Len(t) - 1))
  BY <1>2, <1>3 DEF T!TokenOf
<1> QED
  BY <1>6, <1>7, <1>8, <1>10, SameTables DEF t

LEMMA SymbolLexeme ==
  ASSUME NEW s \in Seq(STRING), NEW p \in Nat, NEW j \in Nat, p < j, j <= Len(s),
         s[p + 1] \notin AlphaNumeric \cup {Quote}
  PROVE  /\ T!IsLexeme(SubSeq(s, p + 1, j)) <=> SubSeq(s, p + 1, j) \in DOMAIN T!Symbol
         /\ T!TokenOf(SubSeq(s, p + 1, j)) = Token(T!Symbol[SubSeq(s, p + 1, j)], <<>>)
<1> DEFINE t == SubSeq(s, p + 1, j)
<1>2. ~T!IsWord(t)
  BY WordFacts DEF AlphaNumeric
<1>3. ~T!IsNumber(t)
  <2>1. ASSUME NEW b \in Int
        PROVE  ~DigitsIn(s, p + 1, b)
    BY DEF DigitsIn, AlphaNumeric
  <2> QED
    BY <2>1, NumberFacts
<1>4. ~T!IsString(t)
  BY StringFacts
<1> HIDE DEF t
<1>6. T!IsLexeme(t) <=> t \in DOMAIN T!Symbol
  BY <1>2, <1>3, <1>4 DEF T!IsLexeme
<1>7. T!TokenOf(t) = T!Token(T!Symbol[t], <<>>)
  BY <1>2, <1>3, <1>4 DEF T!TokenOf
<1> QED
  BY <1>6, <1>7, SameTables DEF t

(***************************************************************************)
(* What the scanning functions know of the characters they have passed.    *)
(***************************************************************************)

WordScanned ==
  source[start + 1] \in Alpha /\ \A i \in start + 1 .. current : source[i] \in AlphaNumeric

DigitsScanned == DigitsIn(source, start + 1, current)

\* No dot, for none that a digit follows comes next; or a dot at position k.
FractionScanned ==
  \/ /\ DigitsScanned
     /\ current < Len(source) => source[current + 1] \notin Digit
     /\ ~ (/\ current + 1 < Len(source)
           /\ source[current + 1] = "." /\ source[current + 2] \in Digit)
  \/ \E k \in start + 2 .. current :
       /\ source[k] = "."
       /\ DigitsIn(source, start + 1, k - 1)
       /\ k < Len(source) /\ source[k + 1] \in Digit
       /\ \A i \in k + 1 .. current : source[i] \in Digit

StringScanned ==
  source[start + 1] = Quote /\ \A i \in start + 2 .. current : source[i] # Quote

Scanned ==
  /\ mode = "identifier" => WordScanned
  /\ mode = "digits" => DigitsScanned
  /\ mode = "fraction" => FractionScanned
  /\ mode = "string" => StringScanned

LexInv == CursorInv /\ Scanned

\* The state without its primes' types, for the leaves below.
LEMMA CursorFacts ==
  ASSUME CursorInv
  PROVE  /\ source \in Seq(STRING) /\ Len(source) \in Nat
         /\ start \in Nat /\ current \in Nat
         /\ start <= current /\ current <= Len(source)
         /\ mode \in {"identifier", "digits", "fraction", "string"} => start < current
         /\ Peek # "none" => current < Len(source) /\ Peek = source[current + 1]
         /\ PeekNext # "none" => current + 1 < Len(source) /\ PeekNext = source[current + 2]
         /\ current < Len(source) => ~IsAtEnd /\ Peek = source[current + 1]
         /\ current + 1 < Len(source) => PeekNext = source[current + 2]
         /\ IsAtEnd => current = Len(source)
  BY DEF CursorInv, SourceOK, TypeOK, Peek, PeekNext, At, IsAtEnd

LEMMA ScannedInit == Init => Scanned
  BY DEF Init, Scanned

LEMMA ScannedStep == LexInv /\ [Next]_vars => Scanned'
<1> SUFFICES ASSUME LexInv, [Next]_vars
             PROVE  Scanned'
  OBVIOUS
<1>i. CursorInv /\ Scanned
  BY DEF LexInv
<1>t. /\ Len(source) \in Nat
      /\ start \in Nat /\ current \in Nat
      /\ start <= current /\ current <= Len(source)
      /\ mode \in {"identifier", "digits", "fraction", "string"} => start < current
      /\ Peek # "none" => current < Len(source) /\ Peek = source[current + 1]
      /\ PeekNext # "none" => current + 1 < Len(source) /\ PeekNext = source[current + 2]
      /\ current < Len(source) => Peek = source[current + 1]
      /\ current + 1 < Len(source) => PeekNext = source[current + 2]
  BY <1>i, CursorFacts
<1> USE DEF Scanning, Return
<1>1. ASSUME mode' \in {"token", "done"} PROVE Scanned'
  BY <1>1 DEF Scanned
<1>2. CASE ScanSymbol \/ ScanDouble \/ ScanOther \/ ScanEof \/ ScanWordEnd
           \/ ScanNumberEnd \/ ScanUnterminated \/ ScanStringEnd
  <2>1. mode' \in {"token", "done"}
    BY <1>2 DEF ScanSymbol, ScanDouble, ScanOther, ScanEof, ScanWordEnd,
                ScanNumberEnd, ScanUnterminated, ScanStringEnd
  <2> QED
    BY <1>1, <2>1
<1>3. CASE ScanFirst
  <2>1. /\ source' = source /\ start' = current /\ current' = current + 1
        /\ Peek \in {Quote} \cup AlphaNumeric
        /\ mode' = CASE Peek = Quote   -> "string"
                     [] Peek \in Digit -> "digits"
                     [] Peek \in Alpha -> "identifier"
    BY <1>3 DEF ScanFirst
  <2>2. /\ Quote \notin Digit /\ Quote \notin Alpha /\ Alpha \cap Digit = {}
        /\ Peek = source[current + 1]
    BY <1>t, <2>1, Letters, Tables DEF AlphaNumeric
  <2>3. CASE Peek = Quote
    <3>1. mode' = "string"
      BY <2>1, <2>2, <2>3
    <3>2. StringScanned'
      BY <1>t, <2>1, <2>2, <2>3 DEF StringScanned
    <3> QED
      BY <3>1, <3>2 DEF Scanned
  <2>4. CASE Peek \in Digit
    <3>1. mode' = "digits"
      BY <2>1, <2>2, <2>4
    <3>2. DigitsScanned'
      BY <1>t, <2>1, <2>2, <2>4 DEF DigitsScanned, DigitsIn
    <3> QED
      BY <3>1, <3>2 DEF Scanned
  <2>5. CASE Peek \in Alpha
    <3>1. mode' = "identifier"
      BY <2>1, <2>2, <2>5
    <3>2. WordScanned'
      BY <1>t, <2>1, <2>2, <2>5 DEF WordScanned, AlphaNumeric
    <3> QED
      BY <3>1, <3>2 DEF Scanned
  <2> QED
    BY <2>1, <2>3, <2>4, <2>5 DEF AlphaNumeric
<1>4. CASE ScanLetter
  <2>1. /\ mode = "identifier" /\ mode' = mode /\ source' = source /\ start' = start
        /\ current' = current + 1 /\ Peek \in AlphaNumeric
    BY <1>4 DEF ScanLetter, Advance
  <2>2. Peek = source[current + 1]
    BY <1>t, <2>1, Letters
  <2>3. WordScanned'
    BY <1>i, <1>t, <2>1, <2>2 DEF Scanned, WordScanned
  <2> QED
    BY <2>1, <2>3 DEF Scanned
<1>5. CASE ScanDigit
  <2>1. /\ mode \in {"digits", "fraction"} /\ mode' = mode /\ source' = source
        /\ start' = start /\ current' = current + 1 /\ Peek \in Digit
    BY <1>5 DEF ScanDigit, Advance
  <2>2. Peek = source[current + 1] /\ current < Len(source)
    BY <1>t, <2>1, Letters DEF AlphaNumeric
  <2>3. CASE mode = "digits"
    <3>1. DigitsScanned'
      BY <1>i, <1>t, <2>1, <2>2, <2>3 DEF Scanned, DigitsScanned, DigitsIn
    <3> QED
      BY <2>1, <2>3, <3>1 DEF Scanned
  <2>4. CASE mode = "fraction"
    <3>1. PICK k \in start + 2 .. current :
             /\ source[k] = "."
             /\ DigitsIn(source, start + 1, k - 1)
             /\ k < Len(source) /\ source[k + 1] \in Digit
             /\ \A i \in k + 1 .. current : source[i] \in Digit
      BY <1>i, <2>1, <2>2, <2>4 DEF Scanned, FractionScanned
    <3>2. /\ k \in start + 2 .. current + 1
          /\ \A i \in k + 1 .. current + 1 : source[i] \in Digit
      BY <1>t, <2>1, <2>2, <3>1
    <3>3. FractionScanned'
      BY <2>1, <3>1, <3>2 DEF FractionScanned
    <3> QED
      BY <2>1, <2>4, <3>3 DEF Scanned
  <2> QED
    BY <2>1, <2>3, <2>4
<1>6. CASE ScanDot
  <2>1. /\ mode = "digits" /\ mode' = "fraction" /\ source' = source /\ start' = start
        /\ Peek \notin Digit
        /\ current' = IF Peek = "." /\ PeekNext \in Digit THEN current + 1 ELSE current
    BY <1>6 DEF ScanDot
  <2>2. DigitsIn(source, start + 1, current)
    BY <1>i, <2>1 DEF Scanned, DigitsScanned
  <2>3. CASE Peek = "." /\ PeekNext \in Digit
    <3>1. /\ current + 1 < Len(source)
          /\ source[current + 1] = "." /\ source[current + 2] \in Digit
      BY <1>t, <2>3, Letters DEF AlphaNumeric
    <3>2. current + 1 \in start + 2 .. current + 1 /\ (current + 1) - 1 = current
          /\ (current + 1) + 1 = current + 2
      BY <1>t, <2>1
    <3>3. \E k \in start + 2 .. current + 1 :
            /\ source[k] = "."
            /\ DigitsIn(source, start + 1, k - 1)
            /\ k < Len(source) /\ source[k + 1] \in Digit
            /\ \A i \in k + 1 .. current + 1 : source[i] \in Digit
      <4>1. \A i \in (current + 1) + 1 .. current + 1 : source[i] \in Digit
        BY <1>t
      <4> QED
        BY <2>2, <3>1, <3>2, <4>1
    <3>4. FractionScanned'
      BY <2>1, <2>3, <3>3 DEF FractionScanned
    <3> QED
      BY <2>1, <3>4 DEF Scanned
  <2>4. CASE ~(Peek = "." /\ PeekNext \in Digit)
    <3>1. /\ current < Len(source) => source[current + 1] \notin Digit
          /\ ~ (/\ current + 1 < Len(source)
                /\ source[current + 1] = "." /\ source[current + 2] \in Digit)
      BY <1>t, <2>1, <2>4
    <3>2. FractionScanned'
      BY <2>1, <2>2, <2>4, <3>1 DEF FractionScanned, DigitsScanned
    <3> QED
      BY <2>1, <3>2 DEF Scanned
  <2> QED
    BY <2>3, <2>4
<1>7. CASE ScanStringChar
  <2>1. /\ mode = "string" /\ mode' = mode /\ source' = source /\ start' = start
        /\ current' = current + 1 /\ Peek # Quote /\ ~IsAtEnd
    BY <1>7 DEF ScanStringChar, Advance
  <2>2. Peek = source[current + 1]
    BY <1>t, <2>1 DEF IsAtEnd
  <2>3. StringScanned'
    BY <1>i, <1>t, <2>1, <2>2 DEF Scanned, StringScanned
  <2> QED
    BY <2>1, <2>3 DEF Scanned
<1>8. CASE UNCHANGED vars
  BY <1>i, <1>8 DEF vars, Scanned, WordScanned, DigitsScanned, FractionScanned, StringScanned
<1> QED
  BY <1>2, <1>3, <1>4, <1>5, <1>6, <1>7, <1>8 DEF Next

\* Wherever the lexer stands in the middle of a token, the characters behind it
\* are those that its scanning function passes, and no others.
THEOREM LexInvHolds == Spec => []LexInv
<1>1. Init => LexInv
  BY CursorInit, ScannedInit DEF LexInv
<1>2. LexInv /\ [Next]_vars => LexInv'
  BY CursorStep, ScannedStep DEF LexInv
<1> QED
  BY <1>1, <1>2, PTL DEF Spec

(***************************************************************************)
(* Where a token ends, a longest lexeme does.                              *)
(***************************************************************************)

\* The refinement mapping's position.
Pos == IF mode \in {"token", "done"} THEN current ELSE start

\* Position m is the end of the longest lexeme behind position p.
Longest(p, m) ==
  /\ p < m /\ m <= Len(source)
  /\ T!IsLexeme(SubSeq(source, p + 1, m))
  /\ \A j \in m + 1 .. Len(source) : ~T!IsLexeme(SubSeq(source, p + 1, j))

LEMMA MunchStep ==
  ASSUME SourceOK, Pos \in Nat, NEW m \in Nat, Longest(Pos, m),
         Pos' = m, source' = source, (mode' = "done") = (mode = "done"),
         tokens' = Append(tokens, T!TokenOf(SubSeq(source, Pos + 1, m)))
  PROVE  T!Munch
<1>1. T!Ends = {j \in Pos + 1 .. Len(source) : T!IsLexeme(SubSeq(source, Pos + 1, j))}
  BY DEF T!Ends, T!Sub, Pos
<1>2. m \in T!Ends
  BY <1>1 DEF Longest
<1>3. Len(source) \in Nat /\ T!Ends \in SUBSET (0 .. Len(source))
  BY <1>1 DEF SourceOK
<1>4. Max(T!Ends) \in T!Ends /\ \A j \in T!Ends : j <= Max(T!Ends)
  BY <1>2, <1>3, MaxFacts
<1>5. \A j \in T!Ends : j <= m
  BY <1>1 DEF Longest, SourceOK
<1>11. \A j \in T!Ends : j \in Nat
  BY <1>3
<1>6. Max(T!Ends) \in Nat
  BY <1>4, <1>11
<1>7. Max(T!Ends) = m
  <2>1. m <= Max(T!Ends)
    BY <1>2, <1>4
  <2>2. Max(T!Ends) <= m
    BY <1>4, <1>5
  <2> QED
    BY <1>6, <2>1, <2>2
<1>8. T!Max(T!Ends) = m
  BY <1>7 DEF T!Max, Max
<1>9. Pos' = T!Max(T!Ends) /\ T!Ends # {} /\ UNCHANGED <<source, mode = "done">>
  BY <1>2, <1>8
<1>10. tokens' = Append(tokens, T!TokenOf(T!Sub(Pos + 1, T!Max(T!Ends))))
  BY <1>8 DEF T!Sub
<1> QED
  BY <1>9, <1>10 DEF T!Munch, Pos

LEMMA SkipStep ==
  ASSUME Pos < Len(source),
         \A j \in Pos + 1 .. Len(source) : ~T!IsLexeme(SubSeq(source, Pos + 1, j)),
         Pos' = IF source[Pos + 1] = Quote THEN Len(source) ELSE Pos + 1,
         source' = source, tokens' = tokens, (mode' = "done") = (mode = "done")
  PROVE  T!Skip
<1>1. T!Ends = {}
  BY DEF T!Ends, T!Sub, Pos
<1> QED
  BY <1>1, SameTables DEF T!Skip, Pos

LEMMA SymbolMunch == LexInv /\ ScanSymbol => T!Munch
<1> SUFFICES ASSUME LexInv, ScanSymbol
             PROVE  T!Munch
  OBVIOUS
<1>1. /\ mode = "token" /\ mode' = mode /\ source' = source
      /\ Peek \in DOMAIN Single /\ current' = current + 1
      /\ tokens' = Append(tokens, Token(Single[Peek], <<>>))
  BY DEF ScanSymbol, Scanning, AddToken
<1>2. /\ source \in Seq(STRING) /\ current \in Nat /\ Len(source) \in Nat
      /\ current < Len(source) /\ Peek = source[current + 1]
  BY <1>1, CursorFacts, Tables DEF LexInv
<1>3. /\ source[current + 1] \in DOMAIN Single
      /\ source[current + 1] \notin AlphaNumeric \cup {Quote} \cup DOMAIN Double
  BY <1>1, <1>2, Letters, Tables
<1>4. ASSUME NEW j \in Nat, current < j, j <= Len(source)
      PROVE  T!IsLexeme(SubSeq(source, current + 1, j)) <=> j = current + 1
  BY <1>2, <1>3, <1>4, SymbolLexeme, SymbolFacts
<1>5. current + 1 \in Nat /\ current < current + 1 /\ current + 1 <= Len(source)
  BY <1>2
<1>6. Longest(current, current + 1)
  <2>1. ASSUME NEW j \in current + 1 + 1 .. Len(source)
        PROVE  ~T!IsLexeme(SubSeq(source, current + 1, j))
    BY <1>2, <1>4
  <2> QED
    BY <1>4, <1>5, <2>1 DEF Longest
<1>7. T!TokenOf(SubSeq(source, current + 1, current + 1)) = Token(Single[Peek], <<>>)
  <2>1. SubSeq(source, current + 1, current + 1) \in DOMAIN T!Symbol
    BY <1>2, <1>3, <1>5, SymbolFacts
  <2>2. T!Symbol[SubSeq(source, current + 1, current + 1)] = Single[Peek]
    BY <1>2, <1>3, <1>5, <2>1, SymbolValues
  <2> QED
    BY <1>2, <1>3, <1>5, <2>2, SymbolLexeme
<1>8. Pos = current /\ Pos' = current + 1
  BY <1>1 DEF Pos
<1> QED
  BY <1>1, <1>2, <1>5, <1>6, <1>7, <1>8, MunchStep DEF SourceOK

LEMMA DoubleStep == LexInv /\ ScanDouble => T!Munch \/ T!Skip
<1> SUFFICES ASSUME LexInv, ScanDouble
             PROVE  T!Munch \/ T!Skip
  OBVIOUS
<1>1. /\ mode = "token" /\ mode' = mode /\ source' = source /\ Peek \in DOMAIN Double
      /\ IF PeekNext = Double[Peek][1]
         THEN current' = current + 2 /\ tokens' = Append(tokens, Token(Double[Peek][2], <<>>))
         ELSE /\ current' = current + 1
              /\ IF Double[Peek][3] = "none"
                 THEN tokens' = tokens
                 ELSE tokens' = Append(tokens, Token(Double[Peek][3], <<>>))
  BY DEF ScanDouble, Scanning, AddToken
<1>2. /\ source \in Seq(STRING) /\ current \in Nat /\ Len(source) \in Nat
      /\ current < Len(source) /\ Peek = source[current + 1]
      /\ PeekNext # "none" => current + 1 < Len(source) /\ PeekNext = source[current + 2]
      /\ current + 1 < Len(source) => PeekNext = source[current + 2]
  BY <1>1, CursorFacts, Tables DEF LexInv
<1>3. /\ source[current + 1] \in DOMAIN Double
      /\ source[current + 1] \notin AlphaNumeric \cup {Quote} \cup DOMAIN Single
  BY <1>1, <1>2, Letters, Tables
<1>4. ASSUME NEW j \in Nat, current < j, j <= Len(source)
      PROVE  /\ T!IsLexeme(SubSeq(source, current + 1, j)) <=>
                  \/ j = current + 1 /\ Double[Peek][3] # "none"
                  \/ j = current + 2 /\ PeekNext = Double[Peek][1]
             /\ T!IsLexeme(SubSeq(source, current + 1, j)) =>
                  T!TokenOf(SubSeq(source, current + 1, j)) =
                    Token(IF j = current + 2 THEN Double[Peek][2] ELSE Double[Peek][3], <<>>)
  <2>1. /\ T!IsLexeme(SubSeq(source, current + 1, j)) <=>
             SubSeq(source, current + 1, j) \in DOMAIN T!Symbol
        /\ T!TokenOf(SubSeq(source, current + 1, j)) =
             Token(T!Symbol[SubSeq(source, current + 1, j)], <<>>)
    BY <1>2, <1>3, <1>4, SymbolLexeme
  <2>2. SubSeq(source, current + 1, j) \in DOMAIN T!Symbol <=>
          \/ j = current + 1 /\ Double[Peek][3] # "none"
          \/ j = current + 2 /\ source[current + 2] = Double[Peek][1]
    BY <1>2, <1>3, <1>4, SymbolFacts
  <2>3. j = current + 2 => PeekNext = source[current + 2]
    BY <1>2, <1>4
  <2>4. SubSeq(source, current + 1, j) \in DOMAIN T!Symbol =>
          T!Symbol[SubSeq(source, current + 1, j)] =
            IF j = current + 2 THEN Double[Peek][2] ELSE Double[Peek][3]
    BY <1>2, <1>3, <1>4, SymbolValues
  <2> QED
    BY <2>1, <2>2, <2>3, <2>4
<1>5. Pos = current /\ Pos' = current'
  BY <1>1 DEF Pos
<1>6. CASE PeekNext = Double[Peek][1]
  <2>1. current + 1 < Len(source)
    BY <1>1, <1>2, <1>6, Tables
  <2>2. current + 2 \in Nat /\ current < current + 2 /\ current + 2 <= Len(source)
    BY <1>2, <2>1
  <2>3. Longest(current, current + 2)
    <3>1. ASSUME NEW j \in current + 2 + 1 .. Len(source)
          PROVE  ~T!IsLexeme(SubSeq(source, current + 1, j))
      BY <1>2, <1>4
    <3> QED
      BY <1>4, <1>6, <2>2, <3>1 DEF Longest
  <2>4. T!TokenOf(SubSeq(source, current + 1, current + 2)) = Token(Double[Peek][2], <<>>)
    BY <1>4, <1>6, <2>2
  <2>5. tokens' = Append(tokens, T!TokenOf(SubSeq(source, Pos + 1, current + 2)))
    BY <1>1, <1>5, <1>6, <2>4
  <2> QED
    BY <1>1, <1>2, <1>5, <1>6, <2>2, <2>3, <2>5, MunchStep DEF SourceOK
<1>7. CASE PeekNext # Double[Peek][1] /\ Double[Peek][3] # "none"
  <2>2. current + 1 \in Nat /\ current < current + 1 /\ current + 1 <= Len(source)
        /\ current + 1 # current + 2
    BY <1>2
  <2>3. Longest(current, current + 1)
    <3>1. ASSUME NEW j \in current + 1 + 1 .. Len(source)
          PROVE  ~T!IsLexeme(SubSeq(source, current + 1, j))
      BY <1>2, <1>4, <1>7
    <3> QED
      BY <1>4, <1>7, <2>2, <3>1 DEF Longest
  <2>4. T!TokenOf(SubSeq(source, current + 1, current + 1)) = Token(Double[Peek][3], <<>>)
    BY <1>4, <1>7, <2>2
  <2>5. tokens' = Append(tokens, T!TokenOf(SubSeq(source, Pos + 1, current + 1)))
    BY <1>1, <1>5, <1>7, <2>4
  <2> QED
    BY <1>1, <1>2, <1>5, <1>7, <2>2, <2>3, <2>5, MunchStep DEF SourceOK
<1>8. CASE PeekNext # Double[Peek][1] /\ Double[Peek][3] = "none"
  <2>1. ASSUME NEW j \in current + 1 .. Len(source)
        PROVE  ~T!IsLexeme(SubSeq(source, current + 1, j))
    BY <1>2, <1>4, <1>8
  <2>2. Pos' = IF source[Pos + 1] = Quote THEN Len(source) ELSE Pos + 1
    BY <1>1, <1>3, <1>5, <1>8
  <2> QED
    BY <1>1, <1>2, <1>5, <1>8, <2>1, <2>2, SkipStep
<1> QED
  BY <1>6, <1>7, <1>8

LEMMA OtherSkip == LexInv /\ ScanOther => T!Skip
<1> SUFFICES ASSUME LexInv, ScanOther
             PROVE  T!Skip
  OBVIOUS
<1>1. /\ mode = "token" /\ mode' = mode /\ source' = source /\ tokens' = tokens
      /\ ~IsAtEnd /\ current' = current + 1
      /\ Peek \notin DOMAIN Single \cup DOMAIN Double \cup {Quote} \cup AlphaNumeric
  BY DEF ScanOther, Scanning
<1>2. /\ source \in Seq(STRING) /\ current \in Nat /\ Len(source) \in Nat
      /\ current < Len(source) /\ Peek = source[current + 1]
  BY <1>1, CursorFacts DEF LexInv, IsAtEnd
<1>3. ASSUME NEW j \in current + 1 .. Len(source)
      PROVE  ~T!IsLexeme(SubSeq(source, current + 1, j))
  <2>1. j \in Nat /\ current < j /\ j <= Len(source)
    BY <1>2
  <2> QED
    BY <1>1, <1>2, <2>1, SymbolLexeme, SymbolFacts
<1>4. Pos = current /\ Pos' = current'
  BY <1>1 DEF Pos
<1>5. Pos' = IF source[Pos + 1] = Quote THEN Len(source) ELSE Pos + 1
  BY <1>1, <1>2, <1>4
<1> QED
  BY <1>1, <1>2, <1>3, <1>4, <1>5, SkipStep

LEMMA WordMunch == LexInv /\ ScanWordEnd => T!Munch
<1> SUFFICES ASSUME LexInv, ScanWordEnd
             PROVE  T!Munch
  OBVIOUS
<1>1. /\ mode = "identifier" /\ mode' = "token" /\ source' = source /\ current' = current
      /\ Peek \notin AlphaNumeric
      /\ tokens' = Append(tokens, Token(WordKind(Lexeme), Lexeme))
  BY DEF ScanWordEnd, Scanning, AddToken, Return
<1>2. /\ source \in Seq(STRING) /\ Len(source) \in Nat
      /\ start \in Nat /\ current \in Nat /\ start < current /\ current <= Len(source)
      /\ current < Len(source) => Peek = source[current + 1]
      /\ WordScanned
  BY <1>1, CursorFacts DEF LexInv, Scanned
<1>3. T!IsLexeme(SubSeq(source, start + 1, current))
  BY <1>2, WordLexeme DEF WordScanned
<1>4. ASSUME NEW j \in current + 1 .. Len(source)
      PROVE  ~T!IsLexeme(SubSeq(source, start + 1, j))
  <2>1. /\ j \in Nat /\ start < j /\ j <= Len(source)
        /\ current + 1 \in start + 1 .. j /\ source[current + 1] \notin AlphaNumeric
    BY <1>1, <1>2
  <2> QED
    BY <1>2, <2>1, WordLexeme DEF WordScanned
<1>5. Longest(start, current)
  BY <1>2, <1>3, <1>4 DEF Longest
<1>6. T!TokenOf(SubSeq(source, start + 1, current)) = Token(WordKind(Lexeme), Lexeme)
  BY <1>2, <1>3, WordLexeme DEF WordScanned, Lexeme
<1>7. Pos = start /\ Pos' = current
  BY <1>1 DEF Pos
<1> QED
  BY <1>1, <1>2, <1>5, <1>6, <1>7, MunchStep DEF SourceOK

LEMMA NumberMunch == LexInv /\ ScanNumberEnd => T!Munch
<1> SUFFICES ASSUME LexInv, ScanNumberEnd
             PROVE  T!Munch
  OBVIOUS
<1>1. /\ mode = "fraction" /\ mode' = "token" /\ source' = source /\ current' = current
      /\ Peek \notin Digit
      /\ tokens' = Append(tokens, Token("Numeric", Lexeme))
  BY DEF ScanNumberEnd, Scanning, AddToken, Return
<1>2. /\ source \in Seq(STRING) /\ Len(source) \in Nat
      /\ start \in Nat /\ current \in Nat /\ start < current /\ current <= Len(source)
      /\ current < Len(source) => Peek = source[current + 1]
      /\ FractionScanned
  BY <1>1, CursorFacts DEF LexInv, Scanned
<1>3. "." \notin Digit
  BY Letters DEF AlphaNumeric, Single
<1>4. source[start + 1] \in Digit
  BY <1>2 DEF FractionScanned, DigitsScanned, DigitsIn
\* A longer one would be digits past the cursor, or have its dot elsewhere.
<1>5. ASSUME NEW j \in Nat, start < j, j <= Len(source),
             T!IsLexeme(SubSeq(source, start + 1, j))
      PROVE  \/ DigitsIn(source, start + 1, j)
             \/ \E k \in start + 1 .. j : /\ source[k] = "."
                                          /\ DigitsIn(source, start + 1, k - 1)
                                          /\ DigitsIn(source, k + 1, j)
  BY <1>2, <1>4, <1>5, NumberLexeme
<1>6. ASSUME DigitsScanned,
             current < Len(source) => source[current + 1] \notin Digit,
             ~ (/\ current + 1 < Len(source)
                /\ source[current + 1] = "." /\ source[current + 2] \in Digit)
      PROVE  Longest(start, current)
  <2>1. T!IsLexeme(SubSeq(source, start + 1, current))
    BY <1>2, <1>4, <1>6, NumberLexeme DEF DigitsScanned
  <2>2. ASSUME NEW j \in current + 1 .. Len(source),
               T!IsLexeme(SubSeq(source, start + 1, j))
        PROVE  FALSE
    <3>1. j \in Nat /\ start < j /\ current + 1 \in start + 1 .. j /\ current < Len(source)
      BY <1>2
    <3>2. ~DigitsIn(source, start + 1, j)
      BY <1>6, <3>1 DEF DigitsIn
    <3>3. PICK k \in start + 1 .. j : /\ source[k] = "."
                                      /\ DigitsIn(source, start + 1, k - 1)
                                      /\ DigitsIn(source, k + 1, j)
      BY <1>5, <2>2, <3>1, <3>2
    <3>4. CASE k <= current
      BY <1>2, <1>3, <1>6, <3>3, <3>4 DEF DigitsScanned, DigitsIn
    <3>5. CASE k = current + 1
      <4>1. current + 2 <= j /\ current + 2 \in k + 1 .. j /\ current + 1 < Len(source)
        BY <1>2, <3>3, <3>5 DEF DigitsIn
      <4> QED
        BY <1>6, <3>3, <3>5, <4>1 DEF DigitsIn
    <3>6. CASE k > current + 1
      <4>1. current + 1 \in start + 1 .. k - 1
        BY <1>2, <3>6
      <4> QED
        BY <1>6, <3>1, <3>3, <4>1 DEF DigitsIn
    <3> QED
      BY <1>2, <3>4, <3>5, <3>6
  <2> QED
    BY <1>2, <2>1, <2>2 DEF Longest
<1>7. ASSUME NEW d \in start + 2 .. current,
             source[d] = ".",
             DigitsIn(source, start + 1, d - 1),
             d < Len(source), source[d + 1] \in Digit,
             \A i \in d + 1 .. current : source[i] \in Digit
      PROVE  Longest(start, current)
  <2>1. d # current
    BY <1>1, <1>2, <1>7
  <2>2. DigitsIn(source, d + 1, current) /\ d \in start + 1 .. current
    BY <1>2, <1>7, <2>1 DEF DigitsIn
  <2>3. T!IsLexeme(SubSeq(source, start + 1, current))
    BY <1>2, <1>4, <1>7, <2>2, NumberLexeme
  <2>4. ASSUME NEW j \in current + 1 .. Len(source),
               T!IsLexeme(SubSeq(source, start + 1, j))
        PROVE  FALSE
    <3>1. /\ j \in Nat /\ start < j /\ current + 1 \in d + 1 .. j
          /\ d \in start + 1 .. j /\ source[current + 1] \notin Digit
      BY <1>1, <1>2
    <3>2. ~DigitsIn(source, start + 1, j)
      BY <1>3, <1>7, <3>1 DEF DigitsIn
    <3>3. PICK k \in start + 1 .. j : /\ source[k] = "."
                                      /\ DigitsIn(source, start + 1, k - 1)
                                      /\ DigitsIn(source, k + 1, j)
      BY <1>5, <2>4, <3>1, <3>2
    <3>4. CASE k < d
      <4>1. d \in k + 1 .. j
        BY <3>1, <3>4
      <4> QED
        BY <1>3, <1>7, <3>3, <4>1 DEF DigitsIn
    <3>5. CASE k = d
      BY <3>1, <3>3, <3>5 DEF DigitsIn
    <3>6. CASE k > d
      <4>1. d \in start + 1 .. k - 1
        BY <1>2, <3>6
      <4> QED
        BY <1>3, <1>7, <3>3, <4>1 DEF DigitsIn
    <3> QED
      BY <1>2, <3>4, <3>5, <3>6
  <2> QED
    BY <1>2, <2>3, <2>4 DEF Longest
<1>8. Longest(start, current)
  BY <1>2, <1>6, <1>7 DEF FractionScanned
<1>9. T!TokenOf(SubSeq(source, start + 1, current)) = Token("Numeric", Lexeme)
  BY <1>2, <1>4, <1>8, NumberLexeme DEF Longest, Lexeme
<1>10. Pos = start /\ Pos' = current
  BY <1>1 DEF Pos
<1> QED
  BY <1>1, <1>2, <1>8, <1>9, <1>10, MunchStep DEF SourceOK

LEMMA StringMunch == LexInv /\ ScanStringEnd => T!Munch
<1> SUFFICES ASSUME LexInv, ScanStringEnd
             PROVE  T!Munch
  OBVIOUS
<1>1. /\ mode = "string" /\ mode' = "token" /\ source' = source /\ current' = current + 1
      /\ Peek = Quote
      /\ tokens' = Append(tokens,
           Token("String",
                 SubSeq(source, start + 2, start + 1 + ((current' - 1) - (start + 1)))))
  BY DEF ScanStringEnd, Scanning, AddToken, Return
<1>2. /\ source \in Seq(STRING) /\ Len(source) \in Nat
      /\ start \in Nat /\ current \in Nat /\ start < current
      /\ current < Len(source) /\ source[current + 1] = Quote
      /\ StringScanned
  BY <1>1, CursorFacts, Tables DEF LexInv, Scanned
<1>3. /\ current + 1 \in Nat /\ start < current + 1 /\ current + 1 <= Len(source)
      /\ start + 2 <= current + 1
      /\ start + 1 + ((current' - 1) - (start + 1)) = (current + 1) - 1
  BY <1>1, <1>2
<1>4. T!IsLexeme(SubSeq(source, start + 1, current + 1))
  <2>1. \A i \in start + 2 .. (current + 1) - 1 : source[i] # Quote
    BY <1>2 DEF StringScanned
  <2> QED
    BY <1>2, <1>3, <2>1, StringLexeme DEF StringScanned
<1>5. ASSUME NEW j \in current + 1 + 1 .. Len(source)
      PROVE  ~T!IsLexeme(SubSeq(source, start + 1, j))
  <2>1. j \in Nat /\ start < j /\ j <= Len(source) /\ current + 1 \in start + 2 .. j - 1
    BY <1>2
  <2> QED
    BY <1>2, <2>1, StringLexeme DEF StringScanned
<1>6. Longest(start, current + 1)
  BY <1>3, <1>4, <1>5 DEF Longest
<1>7. T!TokenOf(SubSeq(source, start + 1, current + 1)) =
        Token("String", SubSeq(source, start + 2, (current + 1) - 1))
  BY <1>2, <1>3, <1>4, StringLexeme DEF StringScanned
<1>8. Pos = start /\ Pos' = current + 1
  BY <1>1 DEF Pos
<1> QED
  BY <1>1, <1>2, <1>3, <1>6, <1>7, <1>8, MunchStep DEF SourceOK

LEMMA UnterminatedSkip == LexInv /\ ScanUnterminated => T!Skip
<1> SUFFICES ASSUME LexInv, ScanUnterminated
             PROVE  T!Skip
  OBVIOUS
<1>1. /\ mode = "string" /\ mode' = "token" /\ source' = source /\ current' = current
      /\ tokens' = tokens /\ IsAtEnd
  BY DEF ScanUnterminated, Scanning, Return
<1>2. /\ source \in Seq(STRING) /\ Len(source) \in Nat
      /\ start \in Nat /\ current = Len(source) /\ start < current
      /\ StringScanned
  BY <1>1, CursorFacts DEF LexInv, Scanned
<1>3. ASSUME NEW j \in start + 1 .. Len(source)
      PROVE  ~T!IsLexeme(SubSeq(source, start + 1, j))
  <2>1. j \in Nat /\ start < j /\ j <= Len(source)
        /\ (start + 2 <= j => j \in start + 2 .. current)
    BY <1>2
  <2> QED
    BY <1>2, <2>1, StringLexeme DEF StringScanned
<1>4. Pos = start /\ Pos' = Len(source)
  BY <1>1, <1>2 DEF Pos
<1> QED
  BY <1>1, <1>2, <1>3, <1>4, SkipStep DEF StringScanned

LEMMA EofEnd == LexInv /\ ScanEof => T!End
<1> SUFFICES ASSUME LexInv, ScanEof
             PROVE  T!End
  OBVIOUS
<1>1. /\ mode = "token" /\ mode' = "done" /\ source' = source /\ current' = current
      /\ tokens' = Append(tokens, Token("Eof", <<>>)) /\ IsAtEnd
  BY DEF ScanEof, Scanning, AddToken
<1>2. current = Len(source)
  BY <1>1, CursorFacts DEF LexInv
<1> QED
  BY <1>1, <1>2, SameTables DEF T!End

(***************************************************************************)
(* The lexer implements the tokenizer.                                     *)
(***************************************************************************)

\* Between the ends of tokens nothing of the tokenizer changes.
LEMMA Stutters ==
  ASSUME ScanFirst \/ ScanLetter \/ ScanDigit \/ ScanDot \/ ScanStringChar \/ UNCHANGED vars
  PROVE  UNCHANGED <<source, Pos, tokens, mode = "done">>
<1> USE DEF Scanning, Pos
<1>1. CASE ScanFirst
  <2>1. /\ mode = "token" /\ source' = source /\ tokens' = tokens /\ start' = current
        /\ mode' \in {"string", "digits", "identifier"}
    BY <1>1 DEF ScanFirst, AlphaNumeric
  <2> QED
    BY <2>1
<1>2. CASE ScanLetter
  BY <1>2 DEF ScanLetter, Advance
<1>3. CASE ScanDigit
  BY <1>3 DEF ScanDigit, Advance
<1>4. CASE ScanDot
  BY <1>4 DEF ScanDot
<1>5. CASE ScanStringChar
  BY <1>5 DEF ScanStringChar, Advance
<1>6. CASE UNCHANGED vars
  BY <1>6 DEF vars
<1> QED
  BY <1>1, <1>2, <1>3, <1>4, <1>5, <1>6

\* The lexer, with one or two characters of lookahead and whatever letters,
\* digits and keywords there are, finds at every position of every source the
\* longest lexeme, and gives its token the right kind and text.
THEOREM TokenizerImplemented == Spec => ImplementsTokenizer
<1>1. Init => T!Init
  BY DEF Init, T!Init
<1>2. LexInv /\ [Next]_vars =>
        [T!Next]_<<source, IF mode \in {"token", "done"} THEN current ELSE start,
                   tokens, mode = "done">>
  <2> SUFFICES ASSUME LexInv, [Next]_vars
               PROVE  \/ T!Next
                      \/ UNCHANGED <<source, Pos, tokens, mode = "done">>
    BY DEF Pos
  <2>1. CASE ScanFirst \/ ScanLetter \/ ScanDigit \/ ScanDot \/ ScanStringChar \/ UNCHANGED vars
    BY <2>1, Stutters
  <2>2. CASE ScanSymbol \/ ScanDouble \/ ScanOther \/ ScanEof \/ ScanWordEnd
             \/ ScanNumberEnd \/ ScanUnterminated \/ ScanStringEnd
    BY <2>2, SymbolMunch, DoubleStep, OtherSkip, EofEnd, WordMunch, NumberMunch,
       UnterminatedSkip, StringMunch DEF T!Next
  <2> QED
    BY <2>1, <2>2 DEF Next
<1> QED
  BY <1>1, <1>2, LexInvHolds, PTL DEF Spec, ImplementsTokenizer, T!Spec
===============================================================================
