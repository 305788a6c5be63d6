----------------------------- MODULE ReadingProofs -----------------------------
(***************************************************************************)
(* The tree reads back: whatever the tokens are, the statements parsed so  *)
(* far are made of exactly the tokens consumed so far.  And it goes on: at *)
(* no token that begins a statement does the parser go round for ever.     *)
(***************************************************************************)
EXTENDS ParserProofs

(***************************************************************************)
(* Joined sequences.                                                       *)
(***************************************************************************)

\* f[i] joins the first i.
Joins(f, s) ==
  f = [i \in 1 .. Len(s) |-> IF i = 1 THEN s[i] ELSE f[i - 1] \o s[i]]

\* One sequence more.
LEMMA JoinsOneMore ==
  ASSUME NEW S, NEW s \in Seq(Seq(S)), NEW y \in Seq(S), NEW f, Joins(f, s)
  PROVE  LET n == Len(s)
             z == IF n = 0 THEN y ELSE f[n] \o y
         IN  Joins([i \in 1 .. n + 1 |-> IF i <= n THEN f[i] ELSE z], Append(s, y))
<1> DEFINE n == Len(s)
           z == IF n = 0 THEN y ELSE f[n] \o y
           g == [i \in 1 .. n + 1 |-> IF i <= n THEN f[i] ELSE z]
           t == Append(s, y)
<1>1. /\ n \in Nat /\ Len(t) = n + 1 /\ t[n + 1] = y /\ \A i \in 1 .. n : t[i] = s[i]
  BY AppendProperties
<1> HIDE DEF n, t
<1>2. ASSUME NEW i \in 1 .. n + 1
      PROVE  g[i] = IF i = 1 THEN t[i] ELSE g[i - 1] \o t[i]
  <2>1. CASE i <= n
    <3>1. i \in 1 .. n /\ (i # 1 => i - 1 \in 1 .. n /\ i - 1 \in 1 .. n + 1 /\ i - 1 <= n)
      BY <1>1, <2>1
    <3>2. f[i] = IF i = 1 THEN s[i] ELSE f[i - 1] \o s[i]
      BY <3>1 DEF Joins, n
    <3>3. g[i] = f[i] /\ t[i] = s[i] /\ (i # 1 => g[i - 1] = f[i - 1])
      BY <1>1, <2>1, <3>1
    <3> HIDE DEF g
    <3> QED
      BY <3>2, <3>3
  <2>2. CASE ~ (i <= n)
    <3>1. i = n + 1 /\ (i = 1 <=> n = 0) /\ (i # 1 => i - 1 = n /\ n \in 1 .. n + 1)
      BY <1>1, <2>2
    <3>2. g[i] = z /\ t[i] = y /\ (i # 1 => g[i - 1] = f[n])
      BY <1>1, <2>2, <3>1
    <3> HIDE DEF g
    <3> QED
      BY <3>1, <3>2
  <2> QED
    BY <2>1, <2>2
<1>3. g = [i \in 1 .. Len(t) |-> IF i = 1 THEN t[i] ELSE g[i - 1] \o t[i]]
  BY <1>1, <1>2, Zenon
<1> QED
  BY <1>3 DEF Joins, n, t, z

\* A prefix is the one before it and an element.
LEMMA PrefixAppend ==
  ASSUME NEW S, NEW s \in Seq(S), NEW m \in 1 .. Len(s)
  PROVE  /\ SubSeq(s, 1, m - 1) \in Seq(S) /\ s[m] \in S
         /\ SubSeq(s, 1, m) = Append(SubSeq(s, 1, m - 1), s[m])
<1> DEFINE a == SubSeq(s, 1, m - 1)
           b == SubSeq(s, 1, m)
<1>1. m - 1 \in 0 .. Len(s) /\ m \in 0 .. Len(s) /\ m \in 1 .. m /\ (m - 1) + 1 = m
      /\ \A i \in 1 .. m - 1 : i \in 1 .. m
  OBVIOUS
<1>2. /\ a \in Seq(S) /\ Len(a) = m - 1 /\ \A i \in 1 .. m - 1 : a[i] = s[i]
      /\ b \in Seq(S) /\ Len(b) = m /\ \A i \in 1 .. m : b[i] = s[i]
  BY <1>1, PrefixFacts
<1>3. s[m] \in S
  OBVIOUS
<1> HIDE DEF a, b
<1>4. Len(b) = Len(a) + 1 /\ (\A i \in 1 .. Len(a) : b[i] = a[i]) /\ b[Len(a) + 1] = s[m]
  BY <1>1, <1>2
<1>5. Append(a, s[m]) = b
  BY <1>2, <1>3, <1>4, AppendIs
<1> QED
  BY <1>2, <1>3, <1>5 DEF a, b

LEMMA JoinsExist ==
  ASSUME NEW S, NEW s \in Seq(Seq(S))
  PROVE  \E f : Joins(f, s)
<1> DEFINE N == Len(s)
           Bad == {n \in Nat : n <= N /\ \A f : ~ Joins(f, SubSeq(s, 1, n))}
<1>1. N \in Nat
  OBVIOUS
<1>2. ASSUME Bad # {} PROVE FALSE
  <2>1. PICK m \in Bad : \A k \in Bad : m <= k
    BY <1>2, LeastNatural
  <2>2. m \in Nat /\ m <= N /\ \A f : ~ Joins(f, SubSeq(s, 1, m))
    OBVIOUS
  <2>3. CASE m = 0
    <3> DEFINE f == [i \in 1 .. 0 |-> <<>>]
    <3>1. SubSeq(s, 1, 0) = <<>> /\ Len(<<>>) = 0
      OBVIOUS
    <3>2. Joins(f, <<>>)
      BY <3>1 DEF Joins
    <3> QED
      BY <2>2, <2>3, <3>1, <3>2
  <2>4. CASE m # 0
    <3>1. m - 1 \in Nat /\ m - 1 <= N /\ ~ (m <= m - 1)
      BY <2>2, <2>4
    <3>2. m - 1 \notin Bad
      BY <2>1, <3>1
    <3>3. PICK f : Joins(f, SubSeq(s, 1, m - 1))
      BY <3>1, <3>2
    <3>4. /\ SubSeq(s, 1, m - 1) \in Seq(Seq(S)) /\ s[m] \in Seq(S)
          /\ SubSeq(s, 1, m) = Append(SubSeq(s, 1, m - 1), s[m])
      <4>1. m \in 1 .. Len(s)
        BY <2>2, <2>4
      <4> QED
        BY <4>1, PrefixAppend
    <3>5. \E g : Joins(g, Append(SubSeq(s, 1, m - 1), s[m]))
      BY <3>3, <3>4, JoinsOneMore
    <3> QED
      BY <2>2, <3>4, <3>5
  <2> QED
    BY <2>3, <2>4
<1>3. SubSeq(s, 1, N) = s
  OBVIOUS
<1>4. N \notin Bad
  BY <1>2
<1>5. \E f : Joins(f, SubSeq(s, 1, N))
  BY <1>1, <1>4
<1> HIDE DEF N
<1> QED
  BY <1>3, <1>5

LEMMA JoinsUnique ==
  ASSUME NEW S, NEW s \in Seq(Seq(S)), NEW f, NEW g, Joins(f, s), Joins(g, s)
  PROVE  /\ \A i \in 1 .. Len(s) : f[i] = g[i]
         /\ \A i \in 1 .. Len(s) : f[i] \in Seq(S)
<1> DEFINE Bad == {n \in 1 .. Len(s) : ~ (f[n] = g[n] /\ f[n] \in Seq(S))}
<1>1. Bad \in SUBSET Nat
  OBVIOUS
<1>2. ASSUME Bad # {} PROVE FALSE
  <2>1. PICK m \in Bad : \A k \in Bad : m <= k
    BY <1>1, <1>2, LeastNatural
  <2>2. m \in 1 .. Len(s) /\ ~ (f[m] = g[m] /\ f[m] \in Seq(S)) /\ s[m] \in Seq(S)
    OBVIOUS
  <2>3. /\ f[m] = IF m = 1 THEN s[m] ELSE f[m - 1] \o s[m]
        /\ g[m] = IF m = 1 THEN s[m] ELSE g[m - 1] \o s[m]
    BY <2>2 DEF Joins
  <2>4. m # 1
    BY <2>2, <2>3
  <2>5. m - 1 \in 1 .. Len(s) /\ ~ (m <= m - 1)
    BY <2>2, <2>4
  <2>6. f[m - 1] = g[m - 1] /\ f[m - 1] \in Seq(S)
    BY <2>1, <2>5
  <2>7. f[m - 1] \o s[m] \in Seq(S)
    BY <2>2, <2>6, ConcatProperties
  <2> HIDE DEF Bad
  <2> QED
    BY <2>2, <2>3, <2>4, <2>6, <2>7
<1> QED
  BY <1>2

LEMMA FlattenIs ==
  ASSUME NEW S, NEW s \in Seq(Seq(S)), NEW f, Joins(f, s)
  PROVE  FlattenSeq(s) = IF Len(s) = 0 THEN <<>> ELSE f[Len(s)]
<1> DEFINE g == CHOOSE g : g = [i \in 1 .. Len(s) |-> IF i = 1 THEN s[i] ELSE g[i - 1] \o s[i]]
<1>1. Joins(g, s)
  BY Zenon DEF Joins
<1>2. FlattenSeq(s) = IF Len(s) = 0 THEN s ELSE g[Len(s)]
  BY DEF FlattenSeq
<1> HIDE DEF g
<1>3. Len(s) # 0 => Len(s) \in 1 .. Len(s)
  OBVIOUS
<1>4. Len(s) # 0 => g[Len(s)] = f[Len(s)]
  BY <1>1, <1>3, JoinsUnique
<1>5. Len(s) = 0 => s = <<>>
  BY EmptySeq
<1> QED
  BY <1>2, <1>4, <1>5

LEMMA FlattenFacts ==
  ASSUME NEW S
  PROVE  /\ FlattenSeq(<<>>) = <<>>
         /\ \A s \in Seq(Seq(S)) : FlattenSeq(s) \in Seq(S)
         /\ \A s \in Seq(Seq(S)), y \in Seq(S) :
              FlattenSeq(Append(s, y)) = FlattenSeq(s) \o y
<1>1. FlattenSeq(<<>>) = <<>>
  <2>1. Len(<<>>) = 0
    OBVIOUS
  <2> QED
    BY <2>1 DEF FlattenSeq
<1>2. ASSUME NEW s \in Seq(Seq(S)) PROVE FlattenSeq(s) \in Seq(S)
  <2>1. PICK f : Joins(f, s)
    BY JoinsExist
  <2>2. Len(s) # 0 => Len(s) \in 1 .. Len(s)
    OBVIOUS
  <2>3. Len(s) # 0 => f[Len(s)] \in Seq(S)
    BY <2>1, <2>2, JoinsUnique
  <2>4. FlattenSeq(s) = IF Len(s) = 0 THEN <<>> ELSE f[Len(s)]
    BY <2>1, FlattenIs
  <2> QED
    BY <2>3, <2>4
<1>3. ASSUME NEW s \in Seq(Seq(S)), NEW y \in Seq(S)
      PROVE  FlattenSeq(Append(s, y)) = FlattenSeq(s) \o y
  <2> DEFINE n == Len(s)
  <2>1. PICK f : Joins(f, s)
    BY JoinsExist
  <2> DEFINE z == IF n = 0 THEN y ELSE f[n] \o y
             g == [i \in 1 .. n + 1 |-> IF i <= n THEN f[i] ELSE z]
             t == Append(s, y)
  <2>2. Joins(g, t)
    BY <2>1, JoinsOneMore
  <2>3. t \in Seq(Seq(S)) /\ Len(t) = n + 1 /\ n \in Nat
    BY AppendProperties
  <2>4. g[n + 1] = z
    BY <2>3
  <2> HIDE DEF g, t
  <2>5. FlattenSeq(t) = IF Len(t) = 0 THEN <<>> ELSE g[Len(t)]
    BY <2>2, <2>3, FlattenIs
  <2>6. FlattenSeq(t) = z
    <3>1. Len(t) # 0
      BY <2>3
    <3> QED
      BY <2>3, <2>4, <2>5, <3>1
  <2>7. FlattenSeq(s) = IF Len(s) = 0 THEN <<>> ELSE f[Len(s)]
    BY <2>1, FlattenIs
  <2>8. <<>> \o y = y
    BY ConcatEmptySeq
  <2> QED
    BY <2>6, <2>7, <2>8 DEF t
<1> QED
  BY <1>1, <1>2, <1>3

LEMMA FlattenPrefix ==
  ASSUME NEW S, NEW s \in Seq(Seq(S)), NEW i \in 1 .. Len(s)
  PROVE  FlattenSeq(SubSeq(s, 1, i)) = FlattenSeq(SubSeq(s, 1, i - 1)) \o s[i]
<1>1. /\ SubSeq(s, 1, i - 1) \in Seq(Seq(S)) /\ s[i] \in Seq(S)
      /\ SubSeq(s, 1, i) = Append(SubSeq(s, 1, i - 1), s[i])
  BY PrefixAppend
<1> QED
  BY <1>1, FlattenFacts

\* An empty sequence among them makes no difference.
LEMMA FlattenSkips ==
  ASSUME NEW S, NEW s \in Seq(Seq(S)), NEW t \in Seq(Seq(S)), NEW m \in 1 .. Len(t),
         Len(t) = Len(s) + 1, t[m] = <<>>,
         \A i \in 1 .. m - 1 : t[i] = s[i],
         \A i \in m .. Len(s) : t[i + 1] = s[i]
  PROVE  FlattenSeq(t) = FlattenSeq(s)
<1> DEFINE A(i) == FlattenSeq(SubSeq(s, 1, i))
           B(i) == FlattenSeq(SubSeq(t, 1, i))
           Bad == {i \in Nat : i \in m - 1 .. Len(s) /\ A(i) # B(i + 1)}
<1>1. /\ Len(s) \in Nat /\ SubSeq(s, 1, Len(s)) = s /\ SubSeq(t, 1, Len(t)) = t
      /\ m - 1 \in 0 .. Len(s)
  OBVIOUS
<1>2. /\ \A i \in 0 .. Len(s) : A(i) \in Seq(S)
      /\ \A i \in 0 .. Len(t) : B(i) \in Seq(S)
  BY PrefixFacts, FlattenFacts
<1>3. ASSUME NEW i \in 1 .. Len(s) PROVE A(i) = A(i - 1) \o s[i]
  BY FlattenPrefix
<1>4. ASSUME NEW i \in 1 .. Len(t) PROVE B(i) = B(i - 1) \o t[i]
  BY FlattenPrefix
<1>5. SubSeq(t, 1, m - 1) = SubSeq(s, 1, m - 1)
  <2> DEFINE a == SubSeq(s, 1, m - 1)
             b == SubSeq(t, 1, m - 1)
  <2>1. m - 1 \in 0 .. Len(s) /\ m - 1 \in 0 .. Len(t)
    BY <1>1
  <2>2. /\ a \in Seq(Seq(S)) /\ Len(a) = m - 1 /\ \A i \in 1 .. m - 1 : a[i] = s[i]
        /\ b \in Seq(Seq(S)) /\ Len(b) = m - 1 /\ \A i \in 1 .. m - 1 : b[i] = t[i]
    BY <2>1, PrefixFacts
  <2> HIDE DEF a, b
  <2>3. \A i \in 1 .. Len(b) : b[i] = a[i]
    BY <2>2
  <2>4. b = a
    BY <2>2, <2>3, SeqEqual
  <2> QED
    BY <2>4 DEF a, b
<1>6. A(m - 1) = B(m - 1)
  BY <1>5
<1>7. B(m) = B(m - 1)
  <2>1. B(m) = B(m - 1) \o <<>>
    BY <1>4
  <2>2. m - 1 \in 0 .. Len(t)
    BY <1>1
  <2>3. B(m - 1) \in Seq(S)
    BY <1>2, <2>2
  <2> HIDE DEF B
  <2> QED
    BY <2>1, <2>3, ConcatEmptySeq
<1> HIDE DEF A, B
<1>8. ASSUME Bad # {} PROVE FALSE
  <2>1. PICK i \in Bad : \A k \in Bad : i <= k
    BY <1>8, LeastNatural
  <2>2. i \in Nat /\ i \in m - 1 .. Len(s) /\ A(i) # B(i + 1)
    OBVIOUS
  <2>3. CASE i = m - 1
    <3>1. i + 1 = m
      BY <2>3
    <3> QED
      BY <1>6, <1>7, <2>2, <2>3, <3>1
  <2>4. CASE i # m - 1
    <3>1. /\ i - 1 \in Nat /\ i - 1 \in m - 1 .. Len(s) /\ ~ (i <= i - 1)
          /\ i \in 1 .. Len(s) /\ i \in m .. Len(s) /\ i + 1 \in 1 .. Len(t)
          /\ (i + 1) - 1 = i /\ (i - 1) + 1 = i
      BY <1>1, <2>2, <2>4
    <3>2. i - 1 \notin Bad
      BY <2>1, <3>1
    <3>3. A(i - 1) = B(i)
      BY <3>1, <3>2
    <3>4. A(i) = A(i - 1) \o s[i] /\ B(i + 1) = B(i) \o t[i + 1] /\ t[i + 1] = s[i]
      BY <1>3, <1>4, <3>1
    <3> QED
      BY <2>2, <3>3, <3>4
  <2> QED
    BY <2>3, <2>4
<1>9. A(Len(s)) = B(Len(s) + 1)
  <2>1. Len(s) \in Nat /\ Len(s) \in m - 1 .. Len(s)
    BY <1>1
  <2>2. Len(s) \notin Bad
    BY <1>8
  <2> QED
    BY <2>1, <2>2
<1> QED
  BY <1>1, <1>9 DEF A, B

(***************************************************************************)
(* Lines of words, and when it makes no difference which of two is part of *)
(* another.                                                                *)
(***************************************************************************)

\* Words, by the kinds that a node is spelled with.
Spelled ==
  Operator \cup {"True", "False", "Null", "Undefined", "Boolean", "Number", "Numeric", "String",
    "Identifier", "LParen", "RParen", "LBrace", "RBrace", "Equal", "Comma", "Semicolon",
    "Var", "Function", "Return", "If", "Else", "While", "For", "Eof", ""}

Words == [kind : STRING \cup Spelled, literal : Value \cup {Str(n) : n \in Nat}]

LEMMA WordFacts ==
  /\ \A kind \in STRING \cup Spelled : Mark(kind) \in Words /\ Mark(kind).kind = kind
  /\ \A kind \in STRING \cup Spelled, v \in Value : Word(kind, v) \in Words
  /\ \A n \in Nat : Named(n) \in Words /\ Named(n).kind = "Identifier"
  /\ \A v \in Value : LiteralWord(v) \in Words
<1>1. \A kind \in STRING \cup Spelled, v \in Value \cup {Str(n) : n \in Nat} :
        Word(kind, v) \in Words /\ Word(kind, v).kind = kind
  BY DEF Word, Words
<1>2. \A kind \in STRING \cup Spelled : Mark(kind) \in Words /\ Mark(kind).kind = kind
  BY <1>1 DEF Mark
<1>3. "Identifier" \in Spelled
  BY DEF Spelled
<1>4. \A n \in Nat : Named(n) \in Words /\ Named(n).kind = "Identifier"
  BY <1>1, <1>3 DEF Named
<1>5. ASSUME NEW v \in Value PROVE LiteralWord(v) \in Words
  <2>1. v.kind \in {"Number", "Boolean", "String", "Null", "Undefined"}
    BY DEF Value, Null, Undefined
  <2>2. {"Number", "Boolean", "String", "Null", "Undefined", "Numeric", "True", "False"} \subseteq Spelled
    BY DEF Spelled
  <2> QED
    BY <1>1, <1>2, <2>1, <2>2 DEF LiteralWord
<1> QED
  BY <1>1, <1>2, <1>4, <1>5

Lines == Seq(Words)

Cat(x, y) == x \o y

LEMMA CatClosed == \A x, y \in Lines : Cat(x, y) \in Lines
  BY ConcatProperties DEF Cat, Lines

LEMMA CatAssoc == \A x, y, z \in Lines : Cat(Cat(x, y), z) = Cat(x, Cat(y, z))
  BY ConcatAssociative DEF Cat, Lines

LEMMA CatNothing == <<>> \in Lines /\ \A x \in Lines : Cat(<<>>, x) = x /\ Cat(x, <<>>) = x
  BY ConcatEmptySeq DEF Cat, Lines

LEMMA CatFacts ==
  ASSUME NEW x \in Lines, NEW y \in Lines
  PROVE  /\ Len(x) \in Nat /\ Len(y) \in Nat /\ Len(Cat(x, y)) = Len(x) + Len(y)
         /\ \A i \in 1 .. Len(x) + Len(y) :
              Cat(x, y)[i] = IF i <= Len(x) THEN x[i] ELSE y[i - Len(x)]
  BY ConcatProperties DEF Cat, Lines

\* Each token of a text, or nothing for an equals sign before a semicolon.
Kept(seq) ==
  [i \in DOMAIN seq |->
    IF seq[i].kind = "Equal" /\ i < Len(seq) /\ seq[i + 1].kind = "Semicolon"
    THEN <<>> ELSE <<seq[i]>>]

LEMMA KeptFacts ==
  ASSUME NEW x \in Lines
  PROVE  /\ Kept(x) \in Seq(Lines) /\ Len(Kept(x)) = Len(x)
         /\ \A i \in 1 .. Len(x) :
              Kept(x)[i] = IF x[i].kind = "Equal" /\ i < Len(x) /\ x[i + 1].kind = "Semicolon"
                           THEN <<>> ELSE <<x[i]>>
         /\ NoEmptyInit(x) = FlattenSeq(Kept(x))
<1>1. DOMAIN x = 1 .. Len(x) /\ Len(x) \in Nat
  OBVIOUS
<1>2. \A i \in 1 .. Len(x) : x[i] \in Words /\ <<x[i]>> \in Lines
  BY DEF Lines
<1>3. \A i \in 1 .. Len(x) :
        Kept(x)[i] = IF x[i].kind = "Equal" /\ i < Len(x) /\ x[i + 1].kind = "Semicolon"
                     THEN <<>> ELSE <<x[i]>>
  BY <1>1 DEF Kept
<1>4. Kept(x) \in [1 .. Len(x) -> Lines]
  BY <1>1, <1>2 DEF Kept, Lines
<1>5. Kept(x) \in Seq(Lines) /\ Len(Kept(x)) = Len(x)
  BY <1>1, <1>4
<1> QED
  BY <1>3, <1>5 DEF NoEmptyInit, Kept

LEMMA KeptWords ==
  \A x \in Lines : NoEmptyInit(x) \in Lines
  BY KeptFacts, FlattenFacts DEF Lines

LEMMA EqualSkipped ==
  ASSUME NEW x \in Lines, NEW y \in Lines, NEW m \in 2 .. Len(x) - 1,
         Len(x) = Len(y) + 1,
         x[m].kind = "Equal", x[m + 1].kind = "Semicolon", x[m - 1].kind # "Equal",
         \A i \in 1 .. m - 1 : x[i] = y[i],
         \A i \in m .. Len(y) : x[i + 1] = y[i]
  PROVE  NoEmptyInit(x) = NoEmptyInit(y)
<1> DEFINE s == Kept(y)
           t == Kept(x)
<1>1. /\ s \in Seq(Lines) /\ Len(s) = Len(y) /\ t \in Seq(Lines) /\ Len(t) = Len(x)
      /\ \A i \in 1 .. Len(y) :
           s[i] = IF y[i].kind = "Equal" /\ i < Len(y) /\ y[i + 1].kind = "Semicolon"
                  THEN <<>> ELSE <<y[i]>>
      /\ \A i \in 1 .. Len(x) :
           t[i] = IF x[i].kind = "Equal" /\ i < Len(x) /\ x[i + 1].kind = "Semicolon"
                  THEN <<>> ELSE <<x[i]>>
      /\ NoEmptyInit(x) = FlattenSeq(t) /\ NoEmptyInit(y) = FlattenSeq(s)
  BY KeptFacts
<1>2. Len(x) \in Nat /\ Len(y) \in Nat
  BY DEF Lines
<1> HIDE DEF s, t
<1>3. m \in 1 .. Len(t) /\ t[m] = <<>>
  <2>1. m \in 1 .. Len(x) /\ m < Len(x)
    BY <1>2
  <2> QED
    BY <1>1, <2>1
<1>4. ASSUME NEW i \in 1 .. m - 1 PROVE t[i] = s[i]
  <2>1. i \in 1 .. Len(x) /\ i \in 1 .. Len(y) /\ i < Len(x) /\ i < Len(y) /\ x[i] = y[i]
    BY <1>2
  <2>2. CASE i = m - 1
    BY <1>1, <2>1, <2>2
  <2>3. CASE i # m - 1
    <3>1. i + 1 \in 1 .. m - 1
      BY <2>3
    <3>2. x[i + 1] = y[i + 1]
      BY <3>1
    <3> QED
      BY <1>1, <2>1, <3>2
  <2> QED
    BY <2>2, <2>3
<1>5. ASSUME NEW i \in m .. Len(y) PROVE t[i + 1] = s[i]
  <2>1. /\ i + 1 \in 1 .. Len(x) /\ i \in 1 .. Len(y) /\ (i + 1 < Len(x) <=> i < Len(y))
        /\ i \in m .. Len(y)
    BY <1>2
  <2>2. x[i + 1] = y[i]
    BY <2>1
  <2>3. i < Len(y) => i + 1 \in m .. Len(y)
    BY <1>2, <2>1
  <2>4. i < Len(y) => x[(i + 1) + 1] = y[i + 1]
    BY <2>3
  <2> QED
    BY <1>1, <2>1, <2>2, <2>4
<1>6. /\ s \in Seq(Seq(Words)) /\ t \in Seq(Seq(Words)) /\ Len(t) = Len(s) + 1
      /\ m \in 1 .. Len(t) /\ t[m] = <<>>
      /\ \A i \in 1 .. m - 1 : t[i] = s[i]
      /\ \A i \in m .. Len(s) : t[i + 1] = s[i]
  BY <1>1, <1>3, <1>4, <1>5 DEF Lines
<1>7. FlattenSeq(t) = FlattenSeq(s)
  BY <1>6, FlattenSkips
<1> QED
  BY <1>1, <1>7

\* Neither of the two makes a difference where the other does not.
Same(x, y) ==
  \A p, q \in Lines : NoEmptyInit(Cat(Cat(p, x), q)) = NoEmptyInit(Cat(Cat(p, y), q))

LEMMA SameFacts ==
  /\ \A x : Same(x, x)
  /\ \A x, y : Same(x, y) => Same(y, x)
  /\ \A x, y, z : Same(x, y) /\ Same(y, z) => Same(x, z)
  BY Zenon DEF Same

LEMMA SameCat ==
  ASSUME NEW x \in Lines, NEW y \in Lines, NEW u \in Lines, NEW v \in Lines,
         Same(x, y), Same(u, v)
  PROVE  Same(Cat(x, u), Cat(y, v))
<1> SUFFICES ASSUME NEW p \in Lines, NEW q \in Lines
             PROVE  NoEmptyInit(Cat(Cat(p, Cat(x, u)), q)) = NoEmptyInit(Cat(Cat(p, Cat(y, v)), q))
  BY DEF Same
<1>1. Cat(u, q) \in Lines /\ Cat(p, y) \in Lines /\ Cat(p, x) \in Lines
  BY CatClosed
<1>2. Cat(Cat(p, Cat(x, u)), q) = Cat(Cat(p, x), Cat(u, q))
  BY <1>1, CatAssoc
<1>3. NoEmptyInit(Cat(Cat(p, x), Cat(u, q))) = NoEmptyInit(Cat(Cat(p, y), Cat(u, q)))
  BY <1>1 DEF Same
<1>4. Cat(Cat(p, y), Cat(u, q)) = Cat(Cat(Cat(p, y), u), q)
  BY <1>1, CatAssoc
<1>5. NoEmptyInit(Cat(Cat(Cat(p, y), u), q)) = NoEmptyInit(Cat(Cat(Cat(p, y), v), q))
  BY <1>1 DEF Same
<1>6. Cat(Cat(p, y), v) = Cat(p, Cat(y, v))
  BY CatAssoc
<1> QED
  BY <1>2, <1>3, <1>4, <1>5, <1>6

\* A declaration without an initializer reads the same with an equals sign.
LEMMA EmptyInitSame ==
  ASSUME NEW a \in Words, a.kind # "Equal"
  PROVE  Same(<<a, Mark("Equal"), Mark("Semicolon")>>, <<a, Mark("Semicolon")>>)
<1> DEFINE e == Mark("Equal")
           z == Mark("Semicolon")
           u == <<a, e, z>>
           v == <<a, z>>
<1> SUFFICES ASSUME NEW p \in Lines, NEW q \in Lines
             PROVE  NoEmptyInit(Cat(Cat(p, u), q)) = NoEmptyInit(Cat(Cat(p, v), q))
  BY DEF Same
<1>1. e \in Words /\ z \in Words /\ e.kind = "Equal" /\ z.kind = "Semicolon"
  BY WordFacts DEF Spelled
<1> HIDE DEF e, z
<1>2. /\ u \in Lines /\ Len(u) = 3 /\ u[1] = a /\ u[2] = e /\ u[3] = z
      /\ v \in Lines /\ Len(v) = 2 /\ v[1] = a /\ v[2] = z
  BY <1>1 DEF Lines
<1> HIDE DEF u, v
<1> DEFINE pu == Cat(p, u)
           pv == Cat(p, v)
           x == Cat(pu, q)
           y == Cat(pv, q)
           m == Len(p) + 2
<1>3. /\ pu \in Lines /\ Len(pu) = Len(p) + 3
      /\ \A i \in 1 .. Len(p) + 3 : pu[i] = IF i <= Len(p) THEN p[i] ELSE u[i - Len(p)]
  <2>1. /\ Len(pu) = Len(p) + Len(u)
        /\ \A i \in 1 .. Len(p) + Len(u) : pu[i] = IF i <= Len(p) THEN p[i] ELSE u[i - Len(p)]
    BY <1>2, CatFacts
  <2>2. pu \in Lines
    BY <1>2, CatClosed
  <2> HIDE DEF pu
  <2> QED
    BY <1>2, <2>1, <2>2
<1>4. /\ pv \in Lines /\ Len(pv) = Len(p) + 2
      /\ \A i \in 1 .. Len(p) + 2 : pv[i] = IF i <= Len(p) THEN p[i] ELSE v[i - Len(p)]
  <2>1. /\ Len(pv) = Len(p) + Len(v)
        /\ \A i \in 1 .. Len(p) + Len(v) : pv[i] = IF i <= Len(p) THEN p[i] ELSE v[i - Len(p)]
    BY <1>2, CatFacts
  <2>2. pv \in Lines
    BY <1>2, CatClosed
  <2> HIDE DEF pv
  <2> QED
    BY <1>2, <2>1, <2>2
<1> HIDE DEF pu, pv
<1>5. /\ x \in Lines /\ Len(x) = (Len(p) + 3) + Len(q)
      /\ \A i \in 1 .. (Len(p) + 3) + Len(q) :
           x[i] = IF i <= Len(p) + 3 THEN pu[i] ELSE q[i - (Len(p) + 3)]
  <2>1. /\ Len(x) = Len(pu) + Len(q)
        /\ \A i \in 1 .. Len(pu) + Len(q) : x[i] = IF i <= Len(pu) THEN pu[i] ELSE q[i - Len(pu)]
    BY <1>3, CatFacts
  <2>2. x \in Lines
    BY <1>3, CatClosed
  <2> HIDE DEF x
  <2> QED
    BY <1>3, <2>1, <2>2
<1>6. /\ y \in Lines /\ Len(y) = (Len(p) + 2) + Len(q)
      /\ \A i \in 1 .. (Len(p) + 2) + Len(q) :
           y[i] = IF i <= Len(p) + 2 THEN pv[i] ELSE q[i - (Len(p) + 2)]
  <2>1. /\ Len(y) = Len(pv) + Len(q)
        /\ \A i \in 1 .. Len(pv) + Len(q) : y[i] = IF i <= Len(pv) THEN pv[i] ELSE q[i - Len(pv)]
    BY <1>4, CatFacts
  <2>2. y \in Lines
    BY <1>4, CatClosed
  <2> HIDE DEF y
  <2> QED
    BY <1>4, <2>1, <2>2
<1>7. Len(p) \in Nat /\ Len(q) \in Nat
  BY DEF Lines
<1> HIDE DEF x, y
<1>8. m \in 2 .. Len(x) - 1 /\ Len(x) = Len(y) + 1
  BY <1>5, <1>6, <1>7
<1>9. x[m] = e /\ x[m + 1] = z /\ x[m - 1] = a
  <2>1. /\ m \in 1 .. (Len(p) + 3) + Len(q) /\ m <= Len(p) + 3 /\ m \in 1 .. Len(p) + 3
        /\ ~ (m <= Len(p)) /\ m - Len(p) = 2
    BY <1>7
  <2>2. /\ m + 1 \in 1 .. (Len(p) + 3) + Len(q) /\ m + 1 <= Len(p) + 3 /\ m + 1 \in 1 .. Len(p) + 3
        /\ ~ (m + 1 <= Len(p)) /\ (m + 1) - Len(p) = 3
    BY <1>7
  <2>3. /\ m - 1 \in 1 .. (Len(p) + 3) + Len(q) /\ m - 1 <= Len(p) + 3 /\ m - 1 \in 1 .. Len(p) + 3
        /\ ~ (m - 1 <= Len(p)) /\ (m - 1) - Len(p) = 1
    BY <1>7
  <2> HIDE DEF m
  <2>4. x[m] = pu[m] /\ x[m + 1] = pu[m + 1] /\ x[m - 1] = pu[m - 1]
    BY <1>5, <2>1, <2>2, <2>3
  <2>5. pu[m] = u[2] /\ pu[m + 1] = u[3] /\ pu[m - 1] = u[1]
    BY <1>3, <2>1, <2>2, <2>3
  <2> QED
    BY <1>2, <2>4, <2>5
<1>10. ASSUME NEW i \in 1 .. m - 1 PROVE x[i] = y[i]
  <2>1. /\ i \in 1 .. (Len(p) + 3) + Len(q) /\ i <= Len(p) + 3 /\ i \in 1 .. Len(p) + 3
        /\ i \in 1 .. (Len(p) + 2) + Len(q) /\ i <= Len(p) + 2 /\ i \in 1 .. Len(p) + 2
        /\ (~ (i <= Len(p)) => i - Len(p) = 1)
    BY <1>7
  <2>2. x[i] = pu[i] /\ y[i] = pv[i]
    BY <1>5, <1>6, <2>1
  <2>3. pu[i] = pv[i]
    BY <1>2, <1>3, <1>4, <2>1
  <2> QED
    BY <2>2, <2>3
<1>11. ASSUME NEW i \in m .. Len(y) PROVE x[i + 1] = y[i]
  <2>1. CASE i = m
    <3>1. /\ m \in 1 .. (Len(p) + 2) + Len(q) /\ m <= Len(p) + 2 /\ m \in 1 .. Len(p) + 2
          /\ ~ (m <= Len(p)) /\ m - Len(p) = 2
      BY <1>7
    <3>2. y[m] = pv[m] /\ pv[m] = v[2]
      BY <1>4, <1>6, <3>1
    <3> QED
      BY <1>2, <1>9, <2>1, <3>2
  <2>2. CASE i # m
    <3>1. /\ i \in 1 .. (Len(p) + 2) + Len(q) /\ ~ (i <= Len(p) + 2)
          /\ i + 1 \in 1 .. (Len(p) + 3) + Len(q) /\ ~ (i + 1 <= Len(p) + 3)
          /\ (i + 1) - (Len(p) + 3) = i - (Len(p) + 2)
      BY <1>6, <1>7, <2>2
    <3> QED
      BY <1>5, <1>6, <3>1
  <2> QED
    BY <2>1, <2>2
<1> HIDE DEF m
<1>12. NoEmptyInit(x) = NoEmptyInit(y)
  BY <1>1, <1>5, <1>6, <1>8, <1>9, <1>10, <1>11, EqualSkipped
<1> QED
  BY <1>12 DEF x, y, pu, pv

(***************************************************************************)
(* Lists.                                                                  *)
(***************************************************************************)

Tok(kind) == <<Mark(kind)>>
Nm(n) == <<Named(n)>>

LEMMA Lined ==
  /\ \A w \in Words : <<w>> \in Lines
  /\ \A kind \in STRING \cup Spelled : Tok(kind) \in Lines
  /\ \A n \in Nat : Nm(n) \in Lines
<1>1. \A w \in Words : <<w>> \in Lines
  BY DEF Lines
<1> QED
  BY <1>1, WordFacts DEF Tok, Nm

\* The image of a sequence.
Image(f, p) == [i \in DOMAIN p |-> f[p[i]]]

LEMMA ImageFacts ==
  ASSUME NEW f \in [Nat -> Lines], NEW p \in Seq(Nat)
  PROVE  /\ Image(f, p) \in Seq(Lines) /\ Len(Image(f, p)) = Len(p)
         /\ \A i \in 1 .. Len(p) : Image(f, p)[i] = f[p[i]]
         /\ \A k \in Nat : Image(f, Append(p, k)) = Append(Image(f, p), f[k])
<1>1. ASSUME NEW q \in Seq(Nat)
      PROVE  /\ Image(f, q) \in Seq(Lines) /\ Len(Image(f, q)) = Len(q)
             /\ \A i \in 1 .. Len(q) : Image(f, q)[i] = f[q[i]]
  <2>1. DOMAIN q = 1 .. Len(q) /\ Len(q) \in Nat /\ \A i \in 1 .. Len(q) : f[q[i]] \in Lines
    OBVIOUS
  <2>2. Image(f, q) = [i \in 1 .. Len(q) |-> f[q[i]]]
    BY <2>1 DEF Image
  <2>3. Image(f, q) \in Seq(Lines) /\ Len(Image(f, q)) = Len(q)
    BY <2>1, <2>2, IsASeq
  <2> QED
    BY <2>2, <2>3
<1>2. ASSUME NEW k \in Nat PROVE Image(f, Append(p, k)) = Append(Image(f, p), f[k])
  <2> DEFINE q == Append(p, k)
  <2>1. /\ q \in Seq(Nat) /\ Len(q) = Len(p) + 1 /\ q[Len(p) + 1] = k /\ Len(p) \in Nat
        /\ \A i \in 1 .. Len(p) : q[i] = p[i]
    BY AppendProperties
  <2> HIDE DEF q
  <2>2. /\ Image(f, q) \in Seq(Lines) /\ Len(Image(f, q)) = Len(q)
        /\ \A i \in 1 .. Len(q) : Image(f, q)[i] = f[q[i]]
    BY <1>1, <2>1
  <2>3. /\ Image(f, p) \in Seq(Lines) /\ Len(Image(f, p)) = Len(p)
        /\ \A i \in 1 .. Len(p) : Image(f, p)[i] = f[p[i]]
    BY <1>1
  <2>4. f[k] \in Lines /\ Len(p) + 1 \in 1 .. Len(q)
    BY <2>1
  <2>5. Len(Image(f, q)) = Len(Image(f, p)) + 1 /\ Image(f, q)[Len(Image(f, p)) + 1] = f[k]
    BY <2>1, <2>2, <2>3, <2>4
  <2>6. ASSUME NEW i \in 1 .. Len(Image(f, p)) PROVE Image(f, q)[i] = Image(f, p)[i]
    <3>1. i \in 1 .. Len(p) /\ i \in 1 .. Len(q)
      BY <2>1, <2>3
    <3>2. Image(f, q)[i] = f[q[i]] /\ Image(f, p)[i] = f[p[i]] /\ q[i] = p[i]
      BY <2>1, <2>2, <2>3, <3>1
    <3> QED
      BY <3>2
  <2>7. Append(Image(f, p), f[k]) = Image(f, q)
    BY <2>2, <2>3, <2>4, <2>5, <2>6, AppendIs
  <2> QED
    BY <2>7 DEF q
<1> QED
  BY <1>1, <1>2

\* The text of each position; the null pointer has none.
Total == {text \in [Nat -> Lines] : text[0] = <<>>}

Flat(text, p) == FlattenSeq(Image(text, p))

LEMMA FlatFacts ==
  ASSUME NEW text \in [Nat -> Lines]
  PROVE  /\ Flat(text, <<>>) = <<>>
         /\ \A p \in Seq(Nat) : Flat(text, p) \in Lines
         /\ \A p \in Seq(Nat), k \in Nat : Flat(text, Append(p, k)) = Cat(Flat(text, p), text[k])
<1>1. Flat(text, <<>>) = <<>>
  <2>1. <<>> \in Seq(Nat) /\ Len(<<>>) = 0
    OBVIOUS
  <2>2. Image(text, <<>>) \in Seq(Lines) /\ Len(Image(text, <<>>)) = 0
    BY <2>1, ImageFacts
  <2>3. Image(text, <<>>) = <<>>
    BY <2>2, EmptySeq
  <2> QED
    BY <2>3, FlattenFacts DEF Flat
<1>2. ASSUME NEW p \in Seq(Nat) PROVE Flat(text, p) \in Lines
  BY ImageFacts, FlattenFacts DEF Flat, Lines
<1>3. ASSUME NEW p \in Seq(Nat), NEW k \in Nat
      PROVE  Flat(text, Append(p, k)) = Cat(Flat(text, p), text[k])
  <2>1. Image(text, p) \in Seq(Lines) /\ Image(text, Append(p, k)) = Append(Image(text, p), text[k])
    BY ImageFacts
  <2>2. text[k] \in Lines
    OBVIOUS
  <2>3. FlattenSeq(Append(Image(text, p), text[k])) = FlattenSeq(Image(text, p)) \o text[k]
    BY <2>1, <2>2, FlattenFacts DEF Lines
  <2> QED
    BY <2>1, <2>3 DEF Flat, Cat
<1> QED
  BY <1>1, <1>2, <1>3

\* With a comma before each but the first.
Parted(s) == [i \in DOMAIN s |-> (IF i = 1 THEN <<>> ELSE <<Mark("Comma")>>) \o s[i]]

LEMMA ListedFacts ==
  /\ Listed(<<>>) = <<>>
  /\ \A s \in Seq(Lines) : Listed(s) \in Lines
  /\ \A s \in Seq(Lines), y \in Lines :
       Listed(Append(s, y)) =
         Cat(IF s = <<>> THEN Listed(s) ELSE Cat(Listed(s), Tok("Comma")), y)
<1> DEFINE Lead(i) == IF i = 1 THEN <<>> ELSE <<Mark("Comma")>>
<1>1. \A i : Lead(i) \in Lines
  BY Lined, CatNothing DEF Tok, Spelled
<1> HIDE DEF Lead
<1>2. ASSUME NEW s \in Seq(Lines)
      PROVE  /\ Parted(s) \in Seq(Lines) /\ Len(Parted(s)) = Len(s)
             /\ \A i \in 1 .. Len(s) : Parted(s)[i] = Cat(Lead(i), s[i])
  <2>1. DOMAIN s = 1 .. Len(s) /\ Len(s) \in Nat /\ \A i \in 1 .. Len(s) : s[i] \in Lines
    OBVIOUS
  <2>2. Parted(s) = [i \in 1 .. Len(s) |-> Cat(Lead(i), s[i])]
    BY <2>1 DEF Parted, Cat, Lead
  <2>3. \A i \in 1 .. Len(s) : Cat(Lead(i), s[i]) \in Lines
    BY <1>1, <2>1, CatClosed
  <2>4. Parted(s) \in Seq(Lines) /\ Len(Parted(s)) = Len(s)
    BY <2>1, <2>2, <2>3, IsASeq
  <2> QED
    BY <2>2, <2>4
<1>3. \A s : Listed(s) = FlattenSeq(Parted(s))
  BY DEF Listed, Parted
<1>4. Listed(<<>>) = <<>>
  <2>1. <<>> \in Seq(Lines) /\ Len(<<>>) = 0
    OBVIOUS
  <2>2. Parted(<<>>) \in Seq(Lines) /\ Len(Parted(<<>>)) = 0
    BY <1>2, <2>1
  <2>3. Parted(<<>>) = <<>>
    BY <2>2, EmptySeq
  <2> QED
    BY <1>3, <2>3, FlattenFacts
<1>5. ASSUME NEW s \in Seq(Lines) PROVE Listed(s) \in Lines
  BY <1>2, <1>3, FlattenFacts DEF Lines
<1>6. ASSUME NEW s \in Seq(Lines), NEW y \in Lines
      PROVE  Listed(Append(s, y)) =
               Cat(IF s = <<>> THEN Listed(s) ELSE Cat(Listed(s), Tok("Comma")), y)
  <2> DEFINE t == Append(s, y)
             z == Cat(Lead(Len(s) + 1), y)
  <2>1. /\ t \in Seq(Lines) /\ Len(t) = Len(s) + 1 /\ t[Len(s) + 1] = y /\ Len(s) \in Nat
        /\ \A i \in 1 .. Len(s) : t[i] = s[i]
    BY AppendProperties
  <2>2. z \in Lines
    BY <1>1, CatClosed
  <2> HIDE DEF t
  <2>3. /\ Parted(t) \in Seq(Lines) /\ Len(Parted(t)) = Len(t)
        /\ \A i \in 1 .. Len(t) : Parted(t)[i] = Cat(Lead(i), t[i])
    BY <1>2, <2>1
  <2>4. /\ Parted(s) \in Seq(Lines) /\ Len(Parted(s)) = Len(s)
        /\ \A i \in 1 .. Len(s) : Parted(s)[i] = Cat(Lead(i), s[i])
    BY <1>2
  <2>5. Len(Parted(t)) = Len(Parted(s)) + 1 /\ Parted(t)[Len(Parted(s)) + 1] = z
    <3>1. Len(s) + 1 \in 1 .. Len(t)
      BY <2>1
    <3> QED
      BY <2>1, <2>3, <2>4, <3>1
  <2>6. \A i \in 1 .. Len(Parted(s)) : Parted(t)[i] = Parted(s)[i]
    BY <2>1, <2>3, <2>4
  <2> HIDE DEF z
  <2>7. Append(Parted(s), z) = Parted(t)
    BY <2>2, <2>3, <2>4, <2>5, <2>6, AppendIs
  <2>8. FlattenSeq(Append(Parted(s), z)) = Cat(FlattenSeq(Parted(s)), z)
    BY <2>2, <2>4, FlattenFacts DEF Lines, Cat
  <2>9. Listed(t) = Cat(Listed(s), z)
    BY <1>3, <2>7, <2>8
  <2>10. CASE s = <<>>
    <3>1. Len(s) + 1 = 1
      BY <2>10
    <3>2. z = y
      BY <3>1, CatNothing DEF z, Lead
    <3> QED
      BY <2>9, <2>10, <3>2 DEF t
  <2>11. CASE s # <<>>
    <3>1. Len(s) # 0
      BY <2>11, EmptySeq
    <3>2. Len(s) + 1 # 1
      BY <2>1, <3>1
    <3>3. z = Cat(Tok("Comma"), y)
      BY <3>2 DEF z, Lead, Tok
    <3>4. Listed(s) \in Lines /\ Tok("Comma") \in Lines
      BY <1>5, Lined DEF Spelled
    <3>5. Cat(Listed(s), Cat(Tok("Comma"), y)) = Cat(Cat(Listed(s), Tok("Comma")), y)
      BY <3>4, CatAssoc
    <3> QED
      BY <2>9, <2>11, <3>3, <3>5 DEF t
  <2> QED
    BY <2>10, <2>11
<1> QED
  BY <1>4, <1>5, <1>6

(***************************************************************************)
(* What an activation record reads.                                        *)
(***************************************************************************)

\* The node that ParseBuild makes of these parts.
NodeOf(item, p) ==
  CASE item.kind = "Grouping" -> Grouping(p[1])
    [] item.kind = "Unary"    -> Unary(item.op, p[1])
    [] item.kind = "Binary"   -> Binary(item.op, p[1], p[2])
    [] item.kind = "Logical"  -> Logical(item.op, p[1], p[2])
    [] item.kind = "Call"     -> CallExpr(p[1], Tail(p))
    [] item.kind = "VarDecl"  -> VarDecl(p[1], p[2])
    [] item.kind = "FuncDecl" -> FuncDecl(p[1], Front(Tail(p)), Last(p))
    [] item.kind = "Return"   -> ReturnStmt(p[1])
    [] item.kind = "Block"    -> BlockStmt(p)
    [] item.kind = "If"       -> IfStmt(p[1], p[2], p[3])
    [] item.kind = "While"    -> WhileStmt(p[1], p[2])
    [] item.kind = "For"      -> ForStmt(p[1], p[2], p[3], p[4])

Names == [n \in Nat |-> Nm(n)]

\* A call up to its last argument, or a function up to its last parameter.
Opening(text, of, p) ==
  Cat(Cat(IF of = "params" THEN Cat(Tok("Function"), Nm(p[1])) ELSE text[p[1]], Tok("LParen")),
      Listed(Image(IF of = "params" THEN Names ELSE text, Tail(p))))

\* How many results a record takes.
Takes(item) ==
  CASE item.do \in {"more", "calls", "assign", "exprStmt", "params", "args"} -> 1
    [] item.do = "assignTo"          -> 2
    [] item.do = "statements"        -> item.count
    [] item.do \in {"item", "comma"} -> item.count + 1
    [] item.do = "build"             -> Arity(item)
    [] OTHER                         -> 0

\* What it has read for them.
Before(text, item, p) ==
  CASE item.do \in {"more", "calls", "assign", "exprStmt"} -> text[p[1]]
    [] item.do = "assignTo"   -> Cat(Cat(text[p[1]], Tok("Equal")), text[p[2]])
    [] item.do = "statements" -> IF item.of = "Program" THEN Flat(text, p)
                                 ELSE Cat(Tok("LBrace"), Flat(text, p))
    [] item.do \in {"params", "args"} -> Opening(text, item.do, p)
    [] item.do = "comma" \/ (item.do = "item" /\ item.count = 0) -> Opening(text, item.of, p)
    [] item.do = "item" /\ item.count # 0 -> Cat(Opening(text, item.of, p), Tok("Comma"))
    [] item.do = "build"      -> Wording(NodeOf(item, p), text)
    [] OTHER                  -> <<>>

\* What it reads before its result begins.
Lead(item) ==
  CASE item.do = "initializer" -> Tok("Equal")
    [] item.do = "else"        -> Tok("Else")
    [] OTHER                   -> <<>>

\* What it reads if it returns the null pointer for what is not there.
Skipped(item) ==
  CASE item.do = "forInit"                -> {Tok("Semicolon")}
    [] item.do \in {"initializer", "else"} -> {<<>>}
    [] OTHER                              -> {}

\* Whether it returns a node otherwise.
Made(item) ==
  \/ item.do \in {"decl", "stmt", "forInit", "else", "exprStmt", "statements", "params", "build"}
  \/ item.do \in {"item", "comma"} /\ item.of = "params"

\* Having read y more it may return k for the results p.
Stands(text, item, p, y, k) ==
  \/ (Made(item) => k # 0) /\ Same(Cat(Before(text, item, p), y), Cat(Lead(item), text[k]))
  \/ k = 0 /\ y \in Skipped(item)

\* It leaves r in place of the results p, which lie on others.
Leaves(text, item, base, p, y, r) ==
  CASE item.do = "consume" ->
         IF item.kind = "Identifier" THEN \E n \in Nat : y = Nm(n) /\ r = Append(base, n)
                                     ELSE y = Tok(item.kind) /\ r = base
    [] item.do = "statements" /\ item.of = "Program" ->
         \E q \in Seq(Nat) : r = base \o q /\ Same(Cat(Flat(text, p), y), Flat(text, q))
    \* A comma comes behind an item.
    [] item.do = "comma" /\ item.count = 0 -> TRUE
    [] OTHER -> \E k \in Nat : r = Append(base, k) /\ Stands(text, item, p, y, k)

\* What has been read, and the results.
Point == Lines \X Seq(Nat)

Act(text, item, s, e) ==
  \E base, p \in Seq(Nat), y \in Lines :
    /\ s[2] = base \o p /\ Len(p) = Takes(item)
    /\ e[1] = Cat(s[1], y)
    /\ Leaves(text, item, base, p, y, e[2])

Run(text, items, s, e) ==
  \E w \in [1 .. Len(items) + 1 -> Point] :
    /\ w[1] = s /\ w[Len(items) + 1] = e
    /\ \A k \in 1 .. Len(items) : Act(text, items[k], w[k], w[k + 1])

LEMMA RunNothing ==
  ASSUME NEW text, NEW s, NEW e, Run(text, <<>>, s, e)
  PROVE  e = s
<1>1. Len(<<>>) = 0 /\ 0 + 1 = 1
  OBVIOUS
<1> QED
  BY <1>1 DEF Run

LEMMA RunHead ==
  ASSUME NEW text, NEW items \in Seq(Record), items # <<>>, NEW s, NEW e, Run(text, items, s, e)
  PROVE  \E m \in Point : Act(text, Head(items), s, m) /\ Run(text, Tail(items), m, e)
<1> DEFINE n == Len(items)
<1>1. n \in Nat \ {0}
  BY EmptySeq
<1>2. PICK w \in [1 .. n + 1 -> Point] :
        /\ w[1] = s /\ w[n + 1] = e
        /\ \A k \in 1 .. n : Act(text, items[k], w[k], w[k + 1])
  BY DEF Run
<1>3. /\ Tail(items) \in Seq(Record) /\ Len(Tail(items)) = n - 1 /\ Head(items) = items[1]
      /\ \A k \in 1 .. n - 1 : Tail(items)[k] = items[k + 1]
  BY <1>1
<1> DEFINE u == [k \in 1 .. n |-> w[k + 1]]
<1> HIDE DEF n
<1>4. u \in [1 .. (n - 1) + 1 -> Point] /\ \A k \in 1 .. n : u[k] = w[k + 1]
  <2>1. (n - 1) + 1 = n /\ \A k \in 1 .. n : k + 1 \in 1 .. n + 1
    BY <1>1
  <2> QED
    BY <2>1
<1> HIDE DEF u
<1>5. \A k \in 1 .. n - 1 : Act(text, Tail(items)[k], u[k], u[k + 1])
  <2> TAKE k \in 1 .. n - 1
  <2>1. k \in 1 .. n /\ k + 1 \in 1 .. n
    BY <1>1
  <2>2. Act(text, items[k + 1], w[k + 1], w[(k + 1) + 1])
    BY <1>2, <2>1
  <2>3. Tail(items)[k] = items[k + 1] /\ u[k] = w[k + 1] /\ u[k + 1] = w[(k + 1) + 1]
    BY <1>3, <1>4, <2>1
  <2> QED
    BY <2>2, <2>3
<1>6. u[1] = w[2] /\ u[(n - 1) + 1] = e /\ w[2] \in Point /\ Act(text, Head(items), s, w[2])
  <2>1. 1 \in 1 .. n /\ n \in 1 .. n /\ (n - 1) + 1 = n /\ 1 + 1 = 2 /\ 2 \in 1 .. n + 1
    BY <1>1
  <2>2. Act(text, items[1], w[1], w[2])
    BY <1>2, <2>1
  <2>3. u[1] = w[2] /\ u[n] = w[n + 1]
    BY <1>4, <2>1
  <2> QED
    BY <1>2, <1>3, <2>1, <2>2, <2>3
<1>7. Run(text, Tail(items), w[2], e)
  BY <1>3, <1>4, <1>5, <1>6 DEF Run
<1> QED
  BY <1>6, <1>7

LEMMA RunFirst ==
  ASSUME NEW text, NEW items \in Seq(Record), items # <<>>, NEW s \in Point, NEW m, NEW e,
         Act(text, Head(items), s, m), Run(text, Tail(items), m, e)
  PROVE  Run(text, items, s, e)
<1> DEFINE n == Len(items)
<1>1. n \in Nat \ {0}
  BY EmptySeq
<1>2. /\ Tail(items) \in Seq(Record) /\ Len(Tail(items)) = n - 1 /\ Head(items) = items[1]
      /\ \A k \in 1 .. n - 1 : Tail(items)[k] = items[k + 1]
  BY <1>1
<1>3. PICK u \in [1 .. (n - 1) + 1 -> Point] :
        /\ u[1] = m /\ u[(n - 1) + 1] = e
        /\ \A k \in 1 .. n - 1 : Act(text, Tail(items)[k], u[k], u[k + 1])
  BY <1>2 DEF Run
<1> DEFINE w == [k \in 1 .. n + 1 |-> IF k = 1 THEN s ELSE u[k - 1]]
<1> HIDE DEF n
<1>4. w \in [1 .. n + 1 -> Point] /\ w[1] = s /\ \A k \in 1 .. n : w[k + 1] = u[k]
  <2>1. /\ (n - 1) + 1 = n /\ 1 \in 1 .. n + 1
        /\ \A k \in 1 .. n + 1 : k # 1 => k - 1 \in 1 .. n
        /\ \A k \in 1 .. n : k + 1 \in 1 .. n + 1 /\ k + 1 # 1 /\ (k + 1) - 1 = k
    BY <1>1
  <2> QED
    BY <1>3, <2>1
<1> HIDE DEF w
<1>5. ASSUME NEW k \in 1 .. n PROVE Act(text, items[k], w[k], w[k + 1])
  <2>1. CASE k = 1
    BY <1>2, <1>3, <1>4, <2>1
  <2>2. CASE k # 1
    <3>1. k - 1 \in 1 .. n - 1 /\ k - 1 \in 1 .. n /\ (k - 1) + 1 = k
      BY <1>1, <2>2
    <3>2. Act(text, Tail(items)[k - 1], u[k - 1], u[k])
      BY <1>3, <3>1
    <3>3. Tail(items)[k - 1] = items[k] /\ w[k] = u[k - 1] /\ w[k + 1] = u[k]
      BY <1>2, <1>4, <3>1
    <3> QED
      BY <3>2, <3>3
  <2> QED
    BY <2>1, <2>2
<1>6. w[n + 1] = e
  <2>1. n \in 1 .. n /\ (n - 1) + 1 = n
    BY <1>1
  <2> QED
    BY <1>3, <1>4, <2>1
<1> QED
  BY <1>4, <1>5, <1>6 DEF Run, n

LEMMA RunSplit ==
  ASSUME NEW text, NEW a \in Seq(Record), NEW b \in Seq(Record), NEW s, NEW e,
         Run(text, a \o b, s, e)
  PROVE  \E m \in Point : Run(text, a, s, m) /\ Run(text, b, m, e)
<1> DEFINE j == Len(a)
           n == Len(b)
<1>1. j \in Nat /\ n \in Nat
  OBVIOUS
<1>2. /\ Len(a \o b) = j + n
      /\ \A i \in 1 .. j + n : (a \o b)[i] = IF i <= j THEN a[i] ELSE b[i - j]
  BY ConcatProperties
<1>3. PICK w \in [1 .. (j + n) + 1 -> Point] :
        /\ w[1] = s /\ w[(j + n) + 1] = e
        /\ \A k \in 1 .. j + n : Act(text, (a \o b)[k], w[k], w[k + 1])
  BY <1>2 DEF Run
<1> DEFINE u == [k \in 1 .. j + 1 |-> w[k]]
           v == [k \in 1 .. n + 1 |-> w[j + k]]
<1> HIDE DEF j, n
<1>4. /\ u \in [1 .. j + 1 -> Point] /\ \A k \in 1 .. j + 1 : u[k] = w[k]
      /\ v \in [1 .. n + 1 -> Point] /\ \A k \in 1 .. n + 1 : v[k] = w[j + k]
  <2>1. /\ \A k \in 1 .. j + 1 : k \in 1 .. (j + n) + 1
        /\ \A k \in 1 .. n + 1 : j + k \in 1 .. (j + n) + 1
    BY <1>1
  <2> QED
    BY <1>3, <2>1
<1> HIDE DEF u, v
<1>5. ASSUME NEW k \in 1 .. j PROVE Act(text, a[k], u[k], u[k + 1])
  <2>1. k \in 1 .. j + n /\ k <= j /\ k \in 1 .. j + 1 /\ k + 1 \in 1 .. j + 1
    BY <1>1
  <2>2. Act(text, (a \o b)[k], w[k], w[k + 1]) /\ (a \o b)[k] = a[k]
    BY <1>2, <1>3, <2>1
  <2> QED
    BY <1>4, <2>1, <2>2
<1>6. ASSUME NEW k \in 1 .. n PROVE Act(text, b[k], v[k], v[k + 1])
  <2>1. /\ j + k \in 1 .. j + n /\ ~ (j + k <= j) /\ (j + k) - j = k
        /\ k \in 1 .. n + 1 /\ k + 1 \in 1 .. n + 1 /\ (j + k) + 1 = j + (k + 1)
    BY <1>1
  <2>2. Act(text, (a \o b)[j + k], w[j + k], w[(j + k) + 1]) /\ (a \o b)[j + k] = b[k]
    BY <1>2, <1>3, <2>1
  <2> QED
    BY <1>4, <2>1, <2>2
<1>7. u[1] = s /\ u[j + 1] = v[1] /\ v[n + 1] = e /\ v[1] \in Point
  <2>1. /\ 1 \in 1 .. j + 1 /\ j + 1 \in 1 .. j + 1 /\ 1 \in 1 .. n + 1 /\ n + 1 \in 1 .. n + 1
        /\ j + (n + 1) = (j + n) + 1
    BY <1>1
  <2> QED
    BY <1>3, <1>4, <2>1
<1>8. Run(text, a, s, v[1]) /\ Run(text, b, v[1], e)
  BY <1>4, <1>5, <1>6, <1>7 DEF Run, j, n
<1> QED
  BY <1>7, <1>8

(***************************************************************************)
(* Having read b and gone on from x to z, one has read t.                  *)
(***************************************************************************)

Track(x, b, z, t) ==
  /\ x \in Lines /\ b \in Lines /\ t \in Lines
  /\ \E y \in Lines : z = Cat(x, y) /\ Same(Cat(b, y), t)

LEMMA TrackStart ==
  ASSUME NEW x \in Lines, NEW b \in Lines
  PROVE  Track(x, b, x, b)
<1>1. <<>> \in Lines /\ x = Cat(x, <<>>) /\ Cat(b, <<>>) = b
  BY CatNothing
<1>2. Same(Cat(b, <<>>), b)
  BY <1>1, SameFacts
<1> QED
  BY <1>1, <1>2 DEF Track

LEMMA TrackThen ==
  ASSUME NEW x, NEW b, NEW z, NEW t, Track(x, b, z, t),
         NEW y \in Lines, NEW u \in Lines, Same(y, u)
  PROVE  Track(x, b, Cat(z, y), Cat(t, u))
<1>1. x \in Lines /\ b \in Lines /\ t \in Lines
  BY DEF Track
<1>2. PICK v \in Lines : z = Cat(x, v) /\ Same(Cat(b, v), t)
  BY DEF Track
<1>3. Cat(v, y) \in Lines /\ Cat(b, v) \in Lines /\ Cat(t, u) \in Lines
  BY <1>1, CatClosed
<1>4. Cat(z, y) = Cat(x, Cat(v, y)) /\ Cat(Cat(b, v), y) = Cat(b, Cat(v, y))
  BY <1>1, <1>2, CatAssoc
<1>5. Same(Cat(Cat(b, v), y), Cat(t, u))
  BY <1>1, <1>2, <1>3, SameCat
<1> QED
  BY <1>1, <1>3, <1>4, <1>5 DEF Track

LEMMA TrackSame ==
  ASSUME NEW x, NEW b, NEW z, NEW t, Track(x, b, z, t), NEW u \in Lines, Same(t, u)
  PROVE  Track(x, b, z, u)
<1>1. PICK v \in Lines : z = Cat(x, v) /\ Same(Cat(b, v), t)
  BY DEF Track
<1>2. Same(Cat(b, v), u)
  BY <1>1, SameFacts
<1> QED
  BY <1>1, <1>2 DEF Track

LEMMA TrackInto ==
  ASSUME NEW x, NEW b, NEW z, NEW t, Track(x, b, z, t),
         NEW y \in Lines, NEW u \in Lines, Same(Cat(t, y), u)
  PROVE  Track(x, b, Cat(z, y), u)
<1>1. Same(y, y)
  BY SameFacts
<1>2. Track(x, b, Cat(z, y), Cat(t, y))
  BY <1>1, TrackThen
<1> QED
  BY <1>2, TrackSame

(***************************************************************************)
(* The results as a sequence on others.                                    *)
(***************************************************************************)

LEMMA ConcatCancel ==
  ASSUME NEW r \in Seq(Nat), NEW p \in Seq(Nat), NEW q \in Seq(Nat), NEW t \in Seq(Nat),
         r \o p = q \o t, Len(p) = Len(t)
  PROVE  r = q /\ p = t
<1> DEFINE j == Len(r)
           l == Len(q)
           n == Len(p)
<1>1. j \in Nat /\ l \in Nat /\ n \in Nat
  OBVIOUS
<1>2. /\ Len(r \o p) = j + n
      /\ \A i \in 1 .. j + n : (r \o p)[i] = IF i <= j THEN r[i] ELSE p[i - j]
  BY ConcatProperties
<1>3. /\ Len(q \o t) = l + n
      /\ \A i \in 1 .. l + n : (q \o t)[i] = IF i <= l THEN q[i] ELSE t[i - l]
  BY ConcatProperties
<1> HIDE DEF j, n, l
<1>4. j = l
  BY <1>1, <1>2, <1>3
<1>5. \A i \in 1 .. j : r[i] = q[i]
  <2> TAKE i \in 1 .. j
  <2>1. i \in 1 .. j + n /\ i <= j
    BY <1>1
  <2> QED
    BY <1>2, <1>3, <1>4, <2>1
<1>6. \A i \in 1 .. n : p[i] = t[i]
  <2> TAKE i \in 1 .. n
  <2>1. j + i \in 1 .. j + n /\ ~ (j + i <= j) /\ (j + i) - j = i
    BY <1>1
  <2> QED
    BY <1>2, <1>3, <1>4, <2>1
<1>7. r = q
  BY <1>4, <1>5, SeqEqual DEF j, l
<1>8. p = t
  BY <1>6, SeqEqual DEF n
<1> QED
  BY <1>7, <1>8

LEMMA Pushed ==
  ASSUME NEW r \in Seq(Nat)
  PROVE  /\ r = r \o <<>> /\ <<>> \in Seq(Nat) /\ Len(<<>>) = 0
         /\ \A a \in Nat : /\ Append(r, a) = r \o <<a>> /\ <<a>> \in Seq(Nat) /\ Len(<<a>>) = 1
                           /\ Append(r, a) \in Seq(Nat)
         /\ \A p \in Seq(Nat), a \in Nat : Append(r \o p, a) = r \o Append(p, a)
<1>1. \A p \in Seq(Nat), a \in Nat : Append(r \o p, a) = r \o Append(p, a)
  <2> TAKE p \in Seq(Nat), a \in Nat
  <2>1. <<a>> \in Seq(Nat) /\ r \o p \in Seq(Nat)
    BY ConcatProperties
  <2>2. Append(r \o p, a) = (r \o p) \o <<a>> /\ Append(p, a) = p \o <<a>>
    BY <2>1, AppendIsConcat
  <2>3. (r \o p) \o <<a>> = r \o (p \o <<a>>)
    BY <2>1, ConcatAssociative
  <2> QED
    BY <2>2, <2>3
<1>2. r = r \o <<>>
  BY ConcatEmptySeq
<1>3. \A a \in Nat : Append(r, a) = r \o <<a>>
  BY AppendIsConcat
<1>4. \A a \in Nat : <<a>> \in Seq(Nat) /\ Len(<<a>>) = 1 /\ Append(r, a) \in Seq(Nat)
  OBVIOUS
<1>5. <<>> \in Seq(Nat) /\ Len(<<>>) = 0
  OBVIOUS
<1> QED
  BY <1>1, <1>2, <1>3, <1>4, <1>5, Zenon

(***************************************************************************)
(* What a record does, in terms of tracks.                                 *)
(***************************************************************************)

\* The records that return one result, whatever happens.
Single(item) ==
  /\ item.do # "consume"
  /\ ~ (item.do = "statements" /\ item.of = "Program")
  /\ ~ (item.do = "comma" /\ item.count = 0)

LEMMA SingleLeaves ==
  ASSUME NEW text, NEW item, Single(item), NEW base, NEW p, NEW y, NEW r
  PROVE  Leaves(text, item, base, p, y, r)
           <=> \E k \in Nat : r = Append(base, k) /\ Stands(text, item, p, y, k)
  BY DEF Single, Leaves

\* It has taken p from the results and left something in their place.
Took(text, item, s, e, base, p) ==
  \E y \in Lines, k \in Nat :
    e[1] = Cat(s[1], y) /\ e[2] = Append(base, k) /\ Stands(text, item, p, y, k)

LEMMA ActTakes ==
  ASSUME NEW text, NEW item, Single(item), NEW s, NEW e, Act(text, item, s, e),
         NEW base \in Seq(Nat), NEW p \in Seq(Nat), s[2] = base \o p, Len(p) = Takes(item)
  PROVE  Took(text, item, s, e, base, p)
<1>1. PICK r \in Seq(Nat), q \in Seq(Nat), y \in Lines :
        /\ s[2] = r \o q /\ Len(q) = Takes(item) /\ e[1] = Cat(s[1], y)
        /\ Leaves(text, item, r, q, y, e[2])
  BY DEF Act
<1>2. /\ r \in Seq(Nat) /\ q \in Seq(Nat) /\ base \in Seq(Nat) /\ p \in Seq(Nat)
      /\ r \o q = base \o p /\ Len(q) = Len(p)
  BY <1>1
<1>3. r = base /\ q = p
  BY ONLY <1>2, ConcatCancel, ZenonT(30)
<1> QED
  BY <1>1, <1>3, SingleLeaves DEF Took

LEMMA ActGives ==
  ASSUME NEW text, NEW item, Single(item), NEW s, NEW e,
         NEW base \in Seq(Nat), NEW p \in Seq(Nat), s[2] = base \o p, Len(p) = Takes(item),
         NEW k \in Nat, e[2] = Append(base, k), Made(item) => k # 0,
         Track(s[1], Before(text, item, p), e[1], Cat(Lead(item), text[k]))
  PROVE  Act(text, item, s, e)
<1>1. PICK y \in Lines : e[1] = Cat(s[1], y)
                         /\ Same(Cat(Before(text, item, p), y), Cat(Lead(item), text[k]))
  BY DEF Track
<1>2. Leaves(text, item, base, p, y, e[2])
  BY <1>1, SingleLeaves DEF Stands
<1> QED
  BY <1>1, <1>2 DEF Act

\* A record that begins with its result, and one that needs no results for it.
Plain(item) == Single(item) /\ Skipped(item) = {} /\ Lead(item) = <<>>
Pushes(item) == Plain(item) /\ Takes(item) = 0 /\ \A text, p : Before(text, item, p) = <<>>

\* It has come to e with one result more than base, which stands for what has
\* been read beyond t, or for all of it.
Adds(text, item, base, e, x, b, t) ==
  \E k \in Nat : /\ e[2] = Append(base, k) /\ (Made(item) => k # 0)
                 /\ Track(x, b, e[1], Cat(t, text[k]))
Turns(text, item, base, e, x, b) ==
  \E k \in Nat : /\ e[2] = Append(base, k) /\ (Made(item) => k # 0)
                 /\ Track(x, b, e[1], text[k])

LEMMA PushGoes ==
  ASSUME NEW text \in Total, NEW item, Pushes(item),
         NEW s \in Point, NEW e \in Point, Act(text, item, s, e),
         NEW x, NEW b, NEW t, Track(x, b, s[1], t)
  PROVE  Adds(text, item, s[2], e, x, b, t)
<1>0. /\ Single(item) /\ Takes(item) = 0 /\ Skipped(item) = {} /\ Lead(item) = <<>>
      /\ Before(text, item, <<>>) = <<>>
  BY DEF Pushes, Plain
<1>1. s[2] \in Seq(Nat) /\ s[2] = s[2] \o <<>> /\ <<>> \in Seq(Nat) /\ Len(<<>>) = Takes(item)
  <2>1. s[2] \in Seq(Nat)
    BY DEF Point
  <2> QED
    BY <1>0, <2>1, Pushed
<1>2. PICK y \in Lines, k \in Nat :
        e[1] = Cat(s[1], y) /\ e[2] = Append(s[2], k) /\ Stands(text, item, <<>>, y, k)
  <2>1. Took(text, item, s, e, s[2], <<>>)
    BY <1>0, <1>1, ActTakes
  <2> QED
    BY <2>1 DEF Took
<1>3. (Made(item) => k # 0) /\ Same(Cat(<<>>, y), Cat(<<>>, text[k]))
  BY <1>0, <1>2 DEF Stands
<1>4. text[k] \in Lines
  BY DEF Total
<1>5. Same(y, text[k])
  BY <1>3, <1>4, CatNothing
<1> QED
  BY <1>2, <1>3, <1>4, <1>5, TrackThen DEF Adds

\* A record that takes results and goes on with what they stand for.
LEMMA TakeGoes ==
  ASSUME NEW text \in Total, NEW item, Plain(item),
         NEW s \in Point, NEW e \in Point, Act(text, item, s, e),
         NEW base \in Seq(Nat), NEW p \in Seq(Nat), s[2] = base \o p, Len(p) = Takes(item),
         NEW x, NEW b, NEW t, Track(x, b, s[1], t),
         Before(text, item, p) = t
  PROVE  Turns(text, item, base, e, x, b)
<1>1. Single(item) /\ Skipped(item) = {} /\ Lead(item) = <<>>
  BY DEF Plain
<1>2. PICK y \in Lines, k \in Nat :
        e[1] = Cat(s[1], y) /\ e[2] = Append(base, k) /\ Stands(text, item, p, y, k)
  <2>1. Took(text, item, s, e, base, p)
    BY <1>1, ActTakes
  <2> QED
    BY <2>1 DEF Took
<1>3. (Made(item) => k # 0) /\ Same(Cat(t, y), Cat(<<>>, text[k]))
  BY <1>1, <1>2 DEF Stands
<1>4. text[k] \in Lines
  BY DEF Total
<1>5. Same(Cat(t, y), text[k])
  BY <1>3, <1>4, CatNothing
<1> QED
  BY <1>2, <1>3, <1>4, <1>5, TrackInto DEF Turns

\* The tokens that are consumed, a name and an operator apart.
Fixed ==
  {"LParen", "RParen", "LBrace", "RBrace", "Equal", "Comma", "Semicolon", "Var", "Function",
   "Return", "If", "Else", "While", "For"}

LEMMA FixedFacts ==
  /\ \A kind \in Fixed : kind \in STRING \cup Spelled /\ kind # "Identifier"
  /\ \A op \in Operator : op \in STRING \cup Spelled
  /\ "LParen" \in Fixed /\ "RParen" \in Fixed /\ "LBrace" \in Fixed /\ "RBrace" \in Fixed
  /\ "Equal" \in Fixed /\ "Comma" \in Fixed /\ "Semicolon" \in Fixed /\ "Var" \in Fixed
  /\ "Function" \in Fixed /\ "Return" \in Fixed /\ "If" \in Fixed /\ "Else" \in Fixed
  /\ "While" \in Fixed /\ "For" \in Fixed
  BY DEF Fixed, Spelled

\* A token is consumed.
Passes(kind, s, e, x, b, t) == e[2] = s[2] /\ Track(x, b, e[1], Cat(t, Tok(kind)))

LEMMA ConsumeGoes ==
  ASSUME NEW text, NEW kind \in Fixed,
         NEW s \in Point, NEW e \in Point, Act(text, Consume(kind), s, e),
         NEW x, NEW b, NEW t, Track(x, b, s[1], t)
  PROVE  Passes(kind, s, e, x, b, t)
<1>0. kind \in STRING \cup Spelled /\ kind # "Identifier"
  BY FixedFacts
<1>1. Consume(kind).do = "consume" /\ Consume(kind).kind = kind
  BY DEF Consume
<1>2. Takes(Consume(kind)) = 0
  BY <1>1 DEF Takes
<1>3. PICK r \in Seq(Nat), q \in Seq(Nat), y \in Lines :
        /\ s[2] = r \o q /\ Len(q) = 0 /\ e[1] = Cat(s[1], y)
        /\ Leaves(text, Consume(kind), r, q, y, e[2])
  BY <1>2 DEF Act
<1>4. y = Tok(kind) /\ e[2] = r
  BY <1>0, <1>1, <1>3 DEF Leaves
<1>5. q = <<>>
  BY <1>3, EmptySeq
<1>6. s[2] = r
  BY <1>3, <1>5, ConcatEmptySeq
<1>7. Tok(kind) \in Lines /\ Same(Tok(kind), Tok(kind))
  BY <1>0, Lined, SameFacts
<1> QED
  BY <1>3, <1>4, <1>6, <1>7, TrackThen DEF Passes

Spells(s, e, x, b, t) ==
  \E n \in Nat : e[2] = Append(s[2], n) /\ Track(x, b, e[1], Cat(t, Nm(n)))

LEMMA NameGoes ==
  ASSUME NEW text,
         NEW s \in Point, NEW e \in Point, Act(text, Consume("Identifier"), s, e),
         NEW x, NEW b, NEW t, Track(x, b, s[1], t)
  PROVE  Spells(s, e, x, b, t)
<1> DEFINE item == Consume("Identifier")
<1>1. item.do = "consume" /\ item.kind = "Identifier"
  BY DEF Consume
<1>2. Takes(item) = 0
  BY <1>1 DEF Takes
<1>3. PICK r \in Seq(Nat), q \in Seq(Nat), y \in Lines :
        /\ s[2] = r \o q /\ Len(q) = 0 /\ e[1] = Cat(s[1], y)
        /\ Leaves(text, item, r, q, y, e[2])
  BY <1>2 DEF Act
<1>4. PICK n \in Nat : y = Nm(n) /\ e[2] = Append(r, n)
  BY <1>1, <1>3 DEF Leaves
<1>5. q = <<>>
  BY <1>3, EmptySeq
<1>6. s[2] = r
  BY <1>3, <1>5, ConcatEmptySeq
<1>7. Nm(n) \in Lines /\ Same(Nm(n), Nm(n))
  BY Lined, SameFacts
<1>8. Track(x, b, e[1], Cat(t, Nm(n)))
  BY <1>3, <1>4, <1>7, TrackThen
<1> QED
  BY <1>4, <1>6, <1>8 DEF Spells

(***************************************************************************)
(* What the nodes are spelled like, from left to right.                    *)
(***************************************************************************)

LEMMA Spellings ==
  /\ Tok("LParen") \in Lines /\ Tok("RParen") \in Lines /\ Tok("LBrace") \in Lines
  /\ Tok("RBrace") \in Lines /\ Tok("Equal") \in Lines /\ Tok("Comma") \in Lines
  /\ Tok("Semicolon") \in Lines /\ Tok("Var") \in Lines /\ Tok("Function") \in Lines
  /\ Tok("Return") \in Lines /\ Tok("If") \in Lines /\ Tok("Else") \in Lines
  /\ Tok("While") \in Lines /\ Tok("For") \in Lines
  /\ \A op \in Operator : Tok(op) \in Lines
  /\ <<>> \in Lines
<1>1. \A kind \in Spelled : Tok(kind) \in Lines
  BY Lined
<1> QED
  BY <1>1, CatNothing DEF Spelled

LEMMA Marks ==
  /\ Mark("Equal") \in Words /\ Mark("LParen") \in Words /\ Mark("Var") \in Words
  /\ Mark("For") \in Words /\ Mark("Function") \in Words
  /\ \A n \in Nat : Named(n) \in Words
<1>1. \A kind \in Spelled : Mark(kind) \in Words
  BY WordFacts
<1> QED
  BY <1>1, WordFacts DEF Spelled

LEMMA CatAround ==
  ASSUME NEW w \in Lines, NEW x \in Lines, NEW y \in Lines, NEW z \in Lines
  PROVE  Cat(w, Cat(Cat(x, y), z)) = Cat(Cat(Cat(w, x), y), z)
<1>1. Cat(x, y) \in Lines
  BY CatClosed
<1>2. Cat(w, Cat(Cat(x, y), z)) = Cat(Cat(w, Cat(x, y)), z)
  BY <1>1, CatAssoc
<1>3. Cat(w, Cat(x, y)) = Cat(Cat(w, x), y)
  BY CatAssoc
<1> QED
  BY <1>2, <1>3

LEMMA TokPairs ==
  /\ \A v, w \in Words : <<v, w>> = Cat(<<v>>, <<w>>)
  /\ \A u, v, w \in Words : <<u, v, w>> = Cat(Cat(<<u>>, <<v>>), <<w>>)
<1>1. ASSUME NEW v \in Words, NEW w \in Words PROVE <<v, w>> = Cat(<<v>>, <<w>>)
  <2>1. Append(<<v>>, w) = <<v, w>>
    BY AppendTuple
  <2>2. <<v>> \in Seq(Words)
    OBVIOUS
  <2>3. Append(<<v>>, w) = <<v>> \o <<w>>
    BY <2>2, AppendIsConcat
  <2> QED
    BY <2>1, <2>3 DEF Cat
<1>2. ASSUME NEW u \in Words, NEW v \in Words, NEW w \in Words
      PROVE  <<u, v, w>> = Cat(Cat(<<u>>, <<v>>), <<w>>)
  <2>1. Append(<<u, v>>, w) = <<u, v, w>>
    BY AppendTuple
  <2>2. <<u, v>> \in Seq(Words)
    OBVIOUS
  <2>3. Append(<<u, v>>, w) = <<u, v>> \o <<w>>
    BY <2>2, AppendIsConcat
  <2>4. <<u, v>> = Cat(<<u>>, <<v>>)
    BY <1>1
  <2> QED
    BY <2>1, <2>3, <2>4 DEF Cat
<1> QED
  BY <1>1, <1>2

LEMMA NamesFacts ==
  /\ Names \in [Nat -> Lines]
  /\ \A p \in Seq(Nat) : [i \in DOMAIN p |-> <<Named(p[i])>>] = Image(Names, p)
<1>1. Names \in [Nat -> Lines]
  BY Lined DEF Names
<1>2. ASSUME NEW p \in Seq(Nat)
      PROVE  [i \in DOMAIN p |-> <<Named(p[i])>>] = Image(Names, p)
  <2>1. \A i \in DOMAIN p : p[i] \in Nat
    OBVIOUS
  <2>2. \A i \in DOMAIN p : Names[p[i]] = <<Named(p[i])>>
    BY <2>1 DEF Names, Nm
  <2> QED
    BY <2>2 DEF Image
<1> QED
  BY <1>1, <1>2

LEMMA OpeningLines ==
  ASSUME NEW text \in Total, NEW of \in {"params", "args"}, NEW p \in Seq(Nat), p # <<>>
  PROVE  Opening(text, of, p) \in Lines
<1>1. p[1] \in Nat /\ Tail(p) \in Seq(Nat)
  BY HeadTailProperties, EmptySeq
<1>2. text \in [Nat -> Lines] /\ text[p[1]] \in Lines
  BY <1>1 DEF Total
<1>3. /\ Listed(Image(Names, Tail(p))) \in Lines /\ Listed(Image(text, Tail(p))) \in Lines
  BY <1>1, <1>2, ImageFacts, ListedFacts, NamesFacts
<1>4. Cat(Tok("Function"), Nm(p[1])) \in Lines
  BY <1>1, Spellings, Lined, CatClosed
<1>5. /\ Cat(Cat(Tok("Function"), Nm(p[1])), Tok("LParen")) \in Lines
      /\ Cat(text[p[1]], Tok("LParen")) \in Lines
  BY <1>2, <1>4, Spellings, CatClosed
<1> QED
  BY <1>3, <1>5, CatClosed DEF Opening

LEMMA ExpressionWords ==
  ASSUME NEW text \in Total
  PROVE  /\ \A v : Wording(Literal(v), text) = <<LiteralWord(v)>>
         /\ \A n : Wording(VarExpr(n), text) = Nm(n)
         /\ \A j : Wording(Grouping(j), text) = Cat(Cat(Tok("LParen"), text[j]), Tok("RParen"))
         /\ \A op, j : Wording(Unary(op, j), text) = Cat(Tok(op), text[j])
         /\ \A op, i, j : Wording(Binary(op, i, j), text) = Cat(Cat(text[i], Tok(op)), text[j])
         /\ \A op, i, j : Wording(Logical(op, i, j), text) = Cat(Cat(text[i], Tok(op)), text[j])
         /\ \A n \in Nat : \A j : Wording(AssignExpr(n, j), text) = Cat(Cat(Nm(n), Tok("Equal")), text[j])
         /\ \A j, q : Wording(CallExpr(j, q), text)
                        = Cat(Cat(Cat(text[j], Tok("LParen")), Listed(Image(text, q))), Tok("RParen"))
<1>1. \A v : Wording(Literal(v), text) = <<LiteralWord(v)>>
  BY DEF Wording, Literal
<1>2. \A n : Wording(VarExpr(n), text) = Nm(n)
  BY DEF Wording, VarExpr, Nm
<1>3. \A j : Wording(Grouping(j), text) = Cat(Cat(Tok("LParen"), text[j]), Tok("RParen"))
  BY DEF Wording, Grouping, Tok, Cat
<1>4. \A op, j : Wording(Unary(op, j), text) = Cat(Tok(op), text[j])
  BY DEF Wording, Unary, Tok, Cat
<1>5. ASSUME NEW op, NEW i, NEW j
      PROVE  Wording(Binary(op, i, j), text) = Cat(Cat(text[i], Tok(op)), text[j])
  <2> DEFINE node == Binary(op, i, j)
  <2>1. node.kind = "Binary" /\ node.op = op /\ node.left = i /\ node.right = j
    BY DEF Binary
  <2> HIDE DEF node
  <2>2. Wording(node, text) = Cat(Cat(text[node.left], Tok(node.op)), text[node.right])
    BY <2>1 DEF Wording, Tok, Cat
  <2> QED
    BY <2>1, <2>2 DEF node
<1>6. ASSUME NEW op, NEW i, NEW j
      PROVE  Wording(Logical(op, i, j), text) = Cat(Cat(text[i], Tok(op)), text[j])
  <2> DEFINE node == Logical(op, i, j)
  <2>1. node.kind = "Logical" /\ node.op = op /\ node.left = i /\ node.right = j
    BY DEF Logical
  <2> HIDE DEF node
  <2>2. Wording(node, text) = Cat(Cat(text[node.left], Tok(node.op)), text[node.right])
    BY <2>1 DEF Wording, Tok, Cat
  <2> QED
    BY <2>1, <2>2 DEF node
<1>7. \A n \in Nat : \A j : Wording(AssignExpr(n, j), text) = Cat(Cat(Nm(n), Tok("Equal")), text[j])
  <2>1. \A n, j : Wording(AssignExpr(n, j), text) = Cat(<<Named(n), Mark("Equal")>>, text[j])
    BY DEF Wording, AssignExpr, Cat
  <2>2. \A n \in Nat : <<Named(n), Mark("Equal")>> = Cat(<<Named(n)>>, <<Mark("Equal")>>)
    BY Marks, TokPairs
  <2> QED
    BY <2>1, <2>2 DEF Tok, Nm
<1>8. \A j, q : Wording(CallExpr(j, q), text)
                  = Cat(Cat(Cat(text[j], Tok("LParen")), Listed(Image(text, q))), Tok("RParen"))
  BY DEF Wording, CallExpr, Tok, Cat, Image
<1> QED
  BY <1>1, <1>2, <1>3, <1>4, <1>5, <1>6, <1>7, <1>8

LEMMA StatementWords ==
  ASSUME NEW text \in Total
  PROVE  /\ \A n \in Nat : \A i : Wording(VarDecl(n, i), text)
              = Cat(Cat(Cat(Tok("Var"), Nm(n)),
                        IF i = 0 THEN <<>> ELSE Cat(Tok("Equal"), text[i])), Tok("Semicolon"))
         /\ \A j : Wording(ExprStmt(j), text)
              = Cat(text[j], IF j = 0 THEN <<>> ELSE Tok("Semicolon"))
         /\ \A j : Wording(ReturnStmt(j), text) = Cat(Cat(Tok("Return"), text[j]), Tok("Semicolon"))
         /\ \A q : Wording(BlockStmt(q), text) = Cat(Cat(Tok("LBrace"), Flat(text, q)), Tok("RBrace"))
         /\ \A i, j, k \in Nat : Wording(IfStmt(i, j, k), text)
              = Cat(Cat(Cat(Cat(Cat(Tok("If"), Tok("LParen")), text[i]), Tok("RParen")), text[j]),
                    IF k = 0 THEN <<>> ELSE Cat(Tok("Else"), text[k]))
         /\ \A i, j \in Nat : Wording(WhileStmt(i, j), text)
              = Cat(Cat(Cat(Cat(Tok("While"), Tok("LParen")), text[i]), Tok("RParen")), text[j])
         /\ \A i, j, k, l : Wording(ForStmt(i, j, k, l), text)
              = Cat(Cat(Cat(Cat(Cat(Cat(Cat(Tok("For"), Tok("LParen")),
                                         IF i = 0 THEN Tok("Semicolon") ELSE text[i]),
                                     text[j]), Tok("Semicolon")), text[k]), Tok("RParen")), text[l])
         /\ \A n \in Nat, q \in Seq(Nat) : \A j : Wording(FuncDecl(n, q, j), text)
              = Cat(Cat(Cat(Cat(Cat(Tok("Function"), Nm(n)), Tok("LParen")), Listed(Image(Names, q))),
                        Tok("RParen")), text[j])
<1>0. /\ Tok("If") \in Lines /\ Tok("While") \in Lines /\ Tok("LParen") \in Lines /\ Tok("RParen") \in Lines
      /\ \A i \in Nat : text[i] \in Lines
  BY Spellings DEF Total
<1>1. ASSUME NEW n \in Nat, NEW i
      PROVE  Wording(VarDecl(n, i), text)
               = Cat(Cat(Cat(Tok("Var"), Nm(n)),
                         IF i = 0 THEN <<>> ELSE Cat(Tok("Equal"), text[i])), Tok("Semicolon"))
  <2>1. Wording(VarDecl(n, i), text)
          = Cat(Cat(<<Mark("Var"), Named(n)>>,
                    IF i = 0 THEN <<>> ELSE Cat(Tok("Equal"), text[i])), Tok("Semicolon"))
    BY DEF Wording, VarDecl, Cat, Tok
  <2>2. <<Mark("Var"), Named(n)>> = Cat(<<Mark("Var")>>, <<Named(n)>>)
    BY Marks, TokPairs
  <2> QED
    BY <2>1, <2>2 DEF Tok, Nm
<1>2. \A j : Wording(ExprStmt(j), text)
               = Cat(text[j], IF j = 0 THEN <<>> ELSE Tok("Semicolon"))
  BY DEF Wording, ExprStmt, Cat, Tok
<1>3. \A j : Wording(ReturnStmt(j), text) = Cat(Cat(Tok("Return"), text[j]), Tok("Semicolon"))
  BY DEF Wording, ReturnStmt, Cat, Tok
<1>4. \A q : Wording(BlockStmt(q), text) = Cat(Cat(Tok("LBrace"), Flat(text, q)), Tok("RBrace"))
  BY DEF Wording, BlockStmt, Cat, Tok, Flat, Image
<1>5. ASSUME NEW i \in Nat, NEW j \in Nat, NEW k \in Nat
      PROVE  Wording(IfStmt(i, j, k), text)
               = Cat(Cat(Cat(Cat(Cat(Tok("If"), Tok("LParen")), text[i]), Tok("RParen")), text[j]),
                     IF k = 0 THEN <<>> ELSE Cat(Tok("Else"), text[k]))
  <2>1. Wording(IfStmt(i, j, k), text)
          = Cat(Cat(Cat(Tok("If"), Cat(Cat(Tok("LParen"), text[i]), Tok("RParen"))), text[j]),
                IF k = 0 THEN <<>> ELSE Cat(Tok("Else"), text[k]))
    BY DEF Wording, IfStmt, Cat, Tok
  <2>2. Cat(Tok("If"), Cat(Cat(Tok("LParen"), text[i]), Tok("RParen")))
          = Cat(Cat(Cat(Tok("If"), Tok("LParen")), text[i]), Tok("RParen"))
    BY <1>0, CatAround
  <2> QED
    BY <2>1, <2>2
<1>6. ASSUME NEW i \in Nat, NEW j \in Nat
      PROVE  Wording(WhileStmt(i, j), text)
               = Cat(Cat(Cat(Cat(Tok("While"), Tok("LParen")), text[i]), Tok("RParen")), text[j])
  <2>1. Wording(WhileStmt(i, j), text)
          = Cat(Cat(Tok("While"), Cat(Cat(Tok("LParen"), text[i]), Tok("RParen"))), text[j])
    BY DEF Wording, WhileStmt, Cat, Tok
  <2>2. Cat(Tok("While"), Cat(Cat(Tok("LParen"), text[i]), Tok("RParen")))
          = Cat(Cat(Cat(Tok("While"), Tok("LParen")), text[i]), Tok("RParen"))
    BY <1>0, CatAround
  <2> QED
    BY <2>1, <2>2
<1>7. ASSUME NEW i, NEW j, NEW k, NEW l
      PROVE  Wording(ForStmt(i, j, k, l), text)
               = Cat(Cat(Cat(Cat(Cat(Cat(Cat(Tok("For"), Tok("LParen")),
                                          IF i = 0 THEN Tok("Semicolon") ELSE text[i]),
                                      text[j]), Tok("Semicolon")), text[k]), Tok("RParen")), text[l])
  <2>1. Wording(ForStmt(i, j, k, l), text)
          = Cat(Cat(Cat(Cat(Cat(Cat(<<Mark("For"), Mark("LParen")>>,
                                     IF i = 0 THEN Tok("Semicolon") ELSE text[i]),
                                 text[j]), Tok("Semicolon")), text[k]), Tok("RParen")), text[l])
    BY DEF Wording, ForStmt, Cat, Tok
  <2>2. <<Mark("For"), Mark("LParen")>> = Cat(<<Mark("For")>>, <<Mark("LParen")>>)
    BY Marks, TokPairs
  <2> QED
    BY <2>1, <2>2 DEF Tok
<1>8. ASSUME NEW n \in Nat, NEW q \in Seq(Nat), NEW j
      PROVE  Wording(FuncDecl(n, q, j), text)
               = Cat(Cat(Cat(Cat(Cat(Tok("Function"), Nm(n)), Tok("LParen")), Listed(Image(Names, q))),
                         Tok("RParen")), text[j])
  <2>1. Wording(FuncDecl(n, q, j), text)
          = Cat(Cat(Cat(<<Mark("Function"), Named(n), Mark("LParen")>>,
                        Listed([i \in DOMAIN q |-> <<Named(q[i])>>])),
                    Tok("RParen")), text[j])
    BY DEF Wording, FuncDecl, Cat, Tok
  <2>2. <<Mark("Function"), Named(n), Mark("LParen")>>
          = Cat(Cat(<<Mark("Function")>>, <<Named(n)>>), <<Mark("LParen")>>)
    BY Marks, TokPairs
  <2>3. [i \in DOMAIN q |-> <<Named(q[i])>>] = Image(Names, q)
    BY NamesFacts
  <2> QED
    BY <2>1, <2>2, <2>3 DEF Tok, Nm
<1> QED
  BY <1>1, <1>2, <1>3, <1>4, <1>5, <1>6, <1>7, <1>8

(***************************************************************************)
(* The records.                                                            *)
(***************************************************************************)

LEMMA PushFacts ==
  /\ Pushes(Do("unary")) /\ Pushes(Do("primary")) /\ Pushes(Do("decl")) /\ Pushes(Do("stmt"))
  /\ \A kind : Pushes(Unless(kind)) /\ ~Made(Unless(kind))
  /\ ~Made(Do("unary")) /\ ~Made(Do("primary")) /\ Made(Do("decl")) /\ Made(Do("stmt"))
<1>1. Pushes(Do("unary")) /\ Pushes(Do("primary")) /\ Pushes(Do("decl")) /\ Pushes(Do("stmt"))
  BY DEF Pushes, Plain, Single, Skipped, Lead, Takes, Before, Do
<1>2. \A kind : Pushes(Unless(kind)) /\ ~Made(Unless(kind))
  BY DEF Pushes, Plain, Single, Skipped, Lead, Takes, Before, Unless, Made
<1>3. ~Made(Do("unary")) /\ ~Made(Do("primary")) /\ Made(Do("decl")) /\ Made(Do("stmt"))
  BY DEF Made, Do
<1> QED
  BY <1>1, <1>2, <1>3

LEMMA TakeFacts ==
  ASSUME NEW text, NEW p
  PROVE  /\ \A what \in {"calls", "assign", "exprStmt"} :
              /\ Plain(Do(what)) /\ Takes(Do(what)) = 1 /\ Before(text, Do(what), p) = text[p[1]]
              /\ Made(Do(what)) <=> what = "exprStmt"
         /\ \A l : /\ Plain(More(l)) /\ Takes(More(l)) = 1 /\ Before(text, More(l), p) = text[p[1]]
                   /\ ~Made(More(l))
         /\ \A of \in {"params", "args"} :
              /\ Plain(Do(of)) /\ Takes(Do(of)) = 1 /\ Before(text, Do(of), p) = Opening(text, of, p)
              /\ Made(Do(of)) <=> of = "params"
         /\ /\ Plain(Do("assignTo")) /\ Takes(Do("assignTo")) = 2 /\ ~Made(Do("assignTo"))
            /\ Before(text, Do("assignTo"), p) = Cat(Cat(text[p[1]], Tok("Equal")), text[p[2]])
<1>1. \A what \in {"calls", "assign", "exprStmt"} :
        /\ Plain(Do(what)) /\ Takes(Do(what)) = 1 /\ Before(text, Do(what), p) = text[p[1]]
        /\ Made(Do(what)) <=> what = "exprStmt"
  BY DEF Plain, Single, Skipped, Lead, Takes, Before, Do, Made
<1>2. \A l : /\ Plain(More(l)) /\ Takes(More(l)) = 1 /\ Before(text, More(l), p) = text[p[1]]
             /\ ~Made(More(l))
  BY DEF Plain, Single, Skipped, Lead, Takes, Before, More, Made
<1>3. \A of \in {"params", "args"} :
        /\ Plain(Do(of)) /\ Takes(Do(of)) = 1 /\ Before(text, Do(of), p) = Opening(text, of, p)
        /\ Made(Do(of)) <=> of = "params"
  BY DEF Plain, Single, Skipped, Lead, Takes, Before, Do, Made
<1>4. /\ Plain(Do("assignTo")) /\ Takes(Do("assignTo")) = 2 /\ ~Made(Do("assignTo"))
      /\ Before(text, Do("assignTo"), p) = Cat(Cat(text[p[1]], Tok("Equal")), text[p[2]])
  BY DEF Plain, Single, Skipped, Lead, Takes, Before, Do, Made
<1> QED
  BY <1>1, <1>2, <1>3, <1>4

LEMMA OptionFacts ==
  /\ \A what \in {"initializer", "else", "forInit"} :
       /\ Single(Do(what)) /\ Takes(Do(what)) = 0 /\ \A text, p : Before(text, Do(what), p) = <<>>
       /\ Made(Do(what)) <=> what # "initializer"
  /\ Lead(Do("initializer")) = Tok("Equal") /\ Skipped(Do("initializer")) = {<<>>}
  /\ Lead(Do("else")) = Tok("Else") /\ Skipped(Do("else")) = {<<>>}
  /\ Lead(Do("forInit")) = <<>> /\ Skipped(Do("forInit")) = {Tok("Semicolon")}
<1>1. \A what \in {"initializer", "else", "forInit"} :
        /\ Single(Do(what)) /\ Takes(Do(what)) = 0 /\ \A text, p : Before(text, Do(what), p) = <<>>
        /\ Made(Do(what)) <=> what # "initializer"
  BY DEF Single, Takes, Before, Do, Made
<1>2. /\ Lead(Do("initializer")) = Tok("Equal") /\ Skipped(Do("initializer")) = {<<>>}
      /\ Lead(Do("else")) = Tok("Else") /\ Skipped(Do("else")) = {<<>>}
      /\ Lead(Do("forInit")) = <<>> /\ Skipped(Do("forInit")) = {Tok("Semicolon")}
  BY DEF Lead, Skipped, Do
<1> QED
  BY <1>1, <1>2

LEMMA ListFacts ==
  ASSUME NEW text, NEW p, NEW n
  PROVE  /\ \A of \in {"params", "args"} :
              /\ Plain(Item(of, n)) /\ Takes(Item(of, n)) = n + 1 /\ Takes(Comma(of, n)) = n + 1
              /\ Made(Item(of, n)) <=> of = "params"
              /\ Made(Comma(of, n)) <=> of = "params"
              /\ n # 0 => Plain(Comma(of, n))
              /\ Before(text, Item(of, n), p) = IF n = 0 THEN Opening(text, of, p)
                                                ELSE Cat(Opening(text, of, p), Tok("Comma"))
              /\ Before(text, Comma(of, n), p) = Opening(text, of, p)
         /\ \A of \in {"Program", "Block"} :
              /\ Takes(Statements(of, n)) = n /\ Made(Statements(of, n))
         /\ Plain(Statements("Block", n))
         /\ Before(text, Statements("Block", n), p) = Cat(Tok("LBrace"), Flat(text, p))
<1>1. \A of \in {"params", "args"} :
        /\ Plain(Item(of, n)) /\ Takes(Item(of, n)) = n + 1 /\ Takes(Comma(of, n)) = n + 1
        /\ Made(Item(of, n)) <=> of = "params"
        /\ Made(Comma(of, n)) <=> of = "params"
        /\ n # 0 => Plain(Comma(of, n))
  BY DEF Plain, Single, Skipped, Lead, Takes, Item, Comma, Made
<1>2. \A of \in {"params", "args"} :
        /\ Before(text, Item(of, n), p) = IF n = 0 THEN Opening(text, of, p)
                                          ELSE Cat(Opening(text, of, p), Tok("Comma"))
        /\ Before(text, Comma(of, n), p) = Opening(text, of, p)
  BY DEF Before, Item, Comma
<1>3. \A of \in {"Program", "Block"} :
        /\ Takes(Statements(of, n)) = n /\ Made(Statements(of, n))
  BY DEF Takes, Statements, Made
<1>4. /\ Plain(Statements("Block", n))
      /\ Before(text, Statements("Block", n), p) = Cat(Tok("LBrace"), Flat(text, p))
  BY DEF Plain, Single, Skipped, Lead, Before, Statements
<1> QED
  BY <1>1, <1>2, <1>3, <1>4

LEMMA BuildFacts ==
  ASSUME NEW item, item.do = "build", NEW text, NEW p
  PROVE  /\ Plain(item) /\ Made(item) /\ Takes(item) = Arity(item)
         /\ Before(text, item, p) = Wording(NodeOf(item, p), text)
<1>1. Plain(item)
  BY DEF Plain, Single, Skipped, Lead
<1>2. Made(item)
  BY DEF Made
<1>3. Takes(item) = Arity(item)
  BY DEF Takes
<1>4. Before(text, item, p) = Wording(NodeOf(item, p), text)
  BY DEF Before
<1> QED
  BY <1>1, <1>2, <1>3, <1>4

(***************************************************************************)
(* Runs of a few records, and of those of an expression.                   *)
(***************************************************************************)

LEMMA RunOne ==
  ASSUME NEW text, NEW a \in Record, NEW s, NEW e, Run(text, <<a>>, s, e)
  PROVE  Act(text, a, s, e)
<1>1. <<a>> \in Seq(Record) /\ <<a>> # <<>> /\ Head(<<a>>) = a /\ Tail(<<a>>) = <<>>
  OBVIOUS
<1>2. PICK m \in Point : Act(text, a, s, m) /\ Run(text, <<>>, m, e)
  BY <1>1, RunHead
<1> QED
  BY <1>2, RunNothing

LEMMA RunTwo ==
  ASSUME NEW text, NEW a \in Record, NEW b \in Record, NEW s, NEW e, Run(text, <<a, b>>, s, e)
  PROVE  \E m \in Point : Act(text, a, s, m) /\ Act(text, b, m, e)
<1>1. /\ <<a, b>> \in Seq(Record) /\ <<a, b>> # <<>> /\ Head(<<a, b>>) = a
      /\ Tail(<<a, b>>) = <<b>>
  OBVIOUS
<1>2. PICK m \in Point : Act(text, a, s, m) /\ Run(text, <<b>>, m, e)
  BY <1>1, RunHead
<1> QED
  BY <1>2, RunOne

LEMMA RunThree ==
  ASSUME NEW text, NEW a \in Record, NEW b \in Record, NEW c \in Record, NEW s, NEW e,
         Run(text, <<a, b, c>>, s, e)
  PROVE  \E m, n \in Point : Act(text, a, s, m) /\ Act(text, b, m, n) /\ Act(text, c, n, e)
<1>1. /\ <<a, b, c>> \in Seq(Record) /\ <<a, b, c>> # <<>> /\ Head(<<a, b, c>>) = a
      /\ Tail(<<a, b, c>>) = <<b, c>>
  OBVIOUS
<1>2. PICK m \in Point : Act(text, a, s, m) /\ Run(text, <<b, c>>, m, e)
  BY <1>1, RunHead
<1>3. PICK n \in Point : Act(text, b, m, n) /\ Act(text, c, n, e)
  BY <1>2, RunTwo
<1> QED
  BY <1>2, <1>3

LEMMA RunFour ==
  ASSUME NEW text, NEW a \in Record, NEW b \in Record, NEW c \in Record, NEW d \in Record,
         NEW s, NEW e, Run(text, <<a, b, c, d>>, s, e)
  PROVE  \E m, n, o \in Point :
           Act(text, a, s, m) /\ Act(text, b, m, n) /\ Act(text, c, n, o) /\ Act(text, d, o, e)
<1>1. /\ <<a, b, c, d>> \in Seq(Record) /\ <<a, b, c, d>> # <<>> /\ Head(<<a, b, c, d>>) = a
      /\ Tail(<<a, b, c, d>>) = <<b, c, d>>
  OBVIOUS
<1>2. PICK m \in Point : Act(text, a, s, m) /\ Run(text, <<b, c, d>>, m, e)
  BY <1>1, RunHead
<1>3. PICK n, o \in Point : Act(text, b, m, n) /\ Act(text, c, n, o) /\ Act(text, d, o, e)
  BY <1>2, RunThree
<1> QED
  BY <1>2, <1>3

\* One result has come on top, and what it stands for has been read.
Valued(text, s, e) ==
  \E k \in Nat : e[2] = Append(s[2], k) /\ Track(s[1], <<>>, e[1], text[k])

Gains(text, base, e, x, b, t) ==
  \E k \in Nat : e[2] = Append(base, k) /\ Track(x, b, e[1], Cat(t, text[k]))

LEMMA ValuedGoes ==
  ASSUME NEW text, NEW s, NEW e, Valued(text, s, e), NEW x, NEW b, NEW t, Track(x, b, s[1], t)
  PROVE  Gains(text, s[2], e, x, b, t)
<1>1. PICK k \in Nat : e[2] = Append(s[2], k) /\ Track(s[1], <<>>, e[1], text[k])
  BY DEF Valued
<1>2. PICK y \in Lines : e[1] = Cat(s[1], y) /\ Same(Cat(<<>>, y), text[k])
  BY <1>1 DEF Track
<1>3. Cat(<<>>, y) = y /\ text[k] \in Lines
  BY <1>1, CatNothing DEF Track
<1>4. Track(x, b, Cat(s[1], y), Cat(t, text[k]))
  BY <1>2, <1>3, TrackThen
<1> QED
  BY <1>1, <1>2, <1>4 DEF Gains

LEMMA PointFacts ==
  ASSUME NEW s \in Point
  PROVE  s[1] \in Lines /\ s[2] \in Seq(Nat)
  BY DEF Point

LEMMA TotalFacts ==
  ASSUME NEW text \in Total
  PROVE  /\ text \in [Nat -> Lines] /\ text[0] = <<>> /\ \A k \in Nat : text[k] \in Lines
  BY DEF Total

LEMMA FirstValued ==
  ASSUME NEW text \in Total, NEW item, Pushes(item),
         NEW s \in Point, NEW e \in Point, Act(text, item, s, e)
  PROVE  Valued(text, s, e)
<1>1. Track(s[1], <<>>, s[1], <<>>)
  BY PointFacts, CatNothing, TrackStart
<1>2. PICK k \in Nat : e[2] = Append(s[2], k) /\ Track(s[1], <<>>, e[1], Cat(<<>>, text[k]))
  <2>1. Adds(text, item, s[2], e, s[1], <<>>, <<>>)
    BY <1>1, PushGoes
  <2> QED
    BY <2>1 DEF Adds
<1>3. Cat(<<>>, text[k]) = text[k]
  BY TotalFacts, CatNothing
<1> QED
  BY <1>2, <1>3 DEF Valued

\* A record that goes on with one result.
LEMMA NextValued ==
  ASSUME NEW text \in Total, NEW item, Plain(item), Takes(item) = 1,
         \A p : Before(text, item, p) = text[p[1]],
         NEW s \in Point, NEW m \in Point, NEW e \in Point,
         Valued(text, s, m), Act(text, item, m, e)
  PROVE  Valued(text, s, e)
<1>1. PICK k \in Nat : m[2] = Append(s[2], k) /\ Track(s[1], <<>>, m[1], text[k])
  BY DEF Valued
<1>2. /\ s[2] \in Seq(Nat) /\ m[2] = s[2] \o <<k>> /\ <<k>> \in Seq(Nat)
      /\ Len(<<k>>) = Takes(item)
  BY <1>1, PointFacts, Pushed
<1>3. Before(text, item, <<k>>) = text[k]
  <2>1. <<k>>[1] = k
    OBVIOUS
  <2> QED
    BY <2>1
<1>4. Turns(text, item, s[2], e, s[1], <<>>)
  BY <1>1, <1>2, <1>3, TakeGoes
<1> QED
  BY <1>4 DEF Valued, Turns

LEMMA LoopsGo ==
  ASSUME NEW text \in Total, NEW items \in Seq(Record),
         \A i \in 1 .. Len(items) : \E l : items[i] = More(l),
         NEW s \in Point, NEW m \in Point, NEW e \in Point,
         Valued(text, s, m), Run(text, items, m, e)
  PROVE  Valued(text, s, e)
<1> DEFINE n == Len(items)
<1>1. n \in Nat
  OBVIOUS
<1>2. PICK w \in [1 .. n + 1 -> Point] :
        /\ w[1] = m /\ w[n + 1] = e
        /\ \A k \in 1 .. n : Act(text, items[k], w[k], w[k + 1])
  BY DEF Run
<1> HIDE DEF n
<1> DEFINE Bad == {i \in Nat : i \in 1 .. n + 1 /\ ~Valued(text, s, w[i])}
<1>3. ASSUME Bad # {} PROVE FALSE
  <2>1. PICK j \in Bad : \A i \in Bad : j <= i
    BY <1>3, LeastNatural
  <2>2. j # 1
    BY <1>2
  <2>3. j - 1 \in 1 .. n /\ j - 1 \in Nat /\ j - 1 \in 1 .. n + 1 /\ (j - 1) + 1 = j /\ ~ (j <= j - 1)
    BY <1>1, <2>2
  <2>4. Valued(text, s, w[j - 1])
    BY <2>1, <2>3
  <2>5. Act(text, items[j - 1], w[j - 1], w[j])
    BY <1>2, <2>3
  <2>6. PICK l : items[j - 1] = More(l)
    BY <2>3 DEF n
  <2>7. w[j - 1] \in Point /\ w[j] \in Point
    BY <1>2, <2>3
  <2>8. Plain(More(l)) /\ Takes(More(l)) = 1 /\ \A p : Before(text, More(l), p) = text[p[1]]
    BY TakeFacts
  <2>9. Valued(text, s, w[j])
    BY <2>4, <2>5, <2>6, <2>7, <2>8, NextValued
  <2> QED
    BY <2>1, <2>9
<1>4. n + 1 \notin Bad
  BY <1>3
<1>5. n + 1 \in Nat /\ n + 1 \in 1 .. n + 1
  BY <1>1
<1> QED
  BY <1>2, <1>4, <1>5

LEMMA OperandGoes ==
  ASSUME NEW text \in Total, NEW l \in 1 .. 7, NEW s \in Point, NEW e \in Point,
         Run(text, Operand(l), s, e)
  PROVE  Valued(text, s, e)
<1> DEFINE n == 7 - l
           loops == [i \in 1 .. Len(Level) + 1 - l |-> More(Len(Level) + 1 - i)]
<1>1. Len(Level) = 6
  BY DEF Level
<1>2. loops = [i \in 1 .. n |-> More(7 - i)]
  BY <1>1
<1>3. n \in Nat
  OBVIOUS
<1> HIDE DEF loops
<1>4. loops \in Seq(Record) /\ Len(loops) = n /\ \A i \in 1 .. n : loops[i] = More(7 - i)
  <2>1. \A i \in 1 .. n : 7 - i \in Nat
    OBVIOUS
  <2>2. \A i \in 1 .. n : More(7 - i) \in Record
    BY <2>1, RecordFacts
  <2>3. loops \in Seq(Record) /\ Len(loops) = n
    BY <1>2, <1>3, <2>2, IsASeq
  <2> QED
    BY <1>2, <2>3
<1>5. Operand(l) = <<Do("unary")>> \o loops /\ <<Do("unary")>> \in Seq(Record)
  BY DoRecords DEF Operand, loops
<1>6. PICK m \in Point : Run(text, <<Do("unary")>>, s, m) /\ Run(text, loops, m, e)
  BY <1>4, <1>5, RunSplit
<1>7. Act(text, Do("unary"), s, m)
  BY <1>6, DoRecords, RunOne
<1>8. Valued(text, s, m)
  BY <1>7, PushFacts, FirstValued
<1>9. \A i \in 1 .. Len(loops) : \E j : loops[i] = More(j)
  BY <1>4
<1> QED
  BY <1>4, <1>6, <1>8, <1>9, LoopsGo

LEMMA ExprSeq ==
  /\ Expr \in Seq(Record) /\ Operand(1) \in Seq(Record) /\ Expr = Operand(1) \o <<Do("assign")>>
  /\ \A l \in 1 .. 7 : Operand(l) \in Seq(Record)
  BY OperandDoes, ExprDoes DEF Expr, Does

LEMMA ExprGoes ==
  ASSUME NEW text \in Total, NEW s \in Point, NEW e \in Point, Run(text, Expr, s, e)
  PROVE  Valued(text, s, e)
<1>1. <<Do("assign")>> \in Seq(Record)
  BY DoRecords
<1>2. PICK m \in Point : Run(text, Operand(1), s, m) /\ Run(text, <<Do("assign")>>, m, e)
  BY <1>1, ExprSeq, RunSplit
<1>3. Valued(text, s, m)
  BY <1>2, OperandGoes
<1>4. Act(text, Do("assign"), m, e)
  BY <1>2, DoRecords, RunOne
<1>5. /\ Plain(Do("assign")) /\ Takes(Do("assign")) = 1
      /\ \A p : Before(text, Do("assign"), p) = text[p[1]]
  BY TakeFacts
<1> QED
  BY <1>3, <1>4, <1>5, NextValued

(***************************************************************************)
(* Runs of several records do what one does.                               *)
(***************************************************************************)

LEMMA Stacked ==
  ASSUME NEW r \in Seq(Nat)
  PROVE  /\ \A i \in Nat : /\ Append(r, i) = r \o <<i>> /\ <<i>> \in Seq(Nat)
                           /\ Len(<<i>>) = 1 /\ <<i>>[1] = i
         /\ \A i, j \in Nat : /\ Append(Append(r, i), j) = r \o <<i, j>> /\ <<i, j>> \in Seq(Nat)
                              /\ Len(<<i, j>>) = 2 /\ <<i, j>>[1] = i /\ <<i, j>>[2] = j
         /\ \A i, j, k \in Nat :
              /\ Append(Append(Append(r, i), j), k) = r \o <<i, j, k>> /\ <<i, j, k>> \in Seq(Nat)
              /\ Len(<<i, j, k>>) = 3
<1>1. \A i \in Nat : Append(r, i) = r \o <<i>>
  BY Pushed
<1>2. \A p \in Seq(Nat), a \in Nat : Append(r \o p, a) = r \o Append(p, a)
  BY Pushed
<1>3. \A i, j \in Nat : Append(Append(r, i), j) = r \o <<i, j>>
  <2> TAKE i, j \in Nat
  <2>1. <<i>> \in Seq(Nat)
    OBVIOUS
  <2>2. Append(<<i>>, j) = <<i, j>>
    BY AppendTuple
  <2> QED
    BY <1>1, <1>2, <2>1, <2>2
<1>4. \A i, j, k \in Nat : Append(Append(Append(r, i), j), k) = r \o <<i, j, k>>
  <2> TAKE i, j, k \in Nat
  <2>1. <<i, j>> \in Seq(Nat)
    OBVIOUS
  <2>2. Append(<<i, j>>, k) = <<i, j, k>>
    BY AppendTuple
  <2> QED
    BY <1>2, <1>3, <2>1, <2>2
<1>6. \A i \in Nat : <<i>> \in Seq(Nat) /\ Len(<<i>>) = 1 /\ <<i>>[1] = i
  OBVIOUS
<1>7. \A i, j \in Nat :
        <<i, j>> \in Seq(Nat) /\ Len(<<i, j>>) = 2 /\ <<i, j>>[1] = i /\ <<i, j>>[2] = j
  OBVIOUS
<1>8. \A i, j, k \in Nat : <<i, j, k>> \in Seq(Nat) /\ Len(<<i, j, k>>) = 3
  OBVIOUS
<1>10. \A i \in Nat : /\ Append(r, i) = r \o <<i>> /\ <<i>> \in Seq(Nat)
                      /\ Len(<<i>>) = 1 /\ <<i>>[1] = i
  BY <1>1, <1>6
<1>11. \A i, j \in Nat : /\ Append(Append(r, i), j) = r \o <<i, j>> /\ <<i, j>> \in Seq(Nat)
                         /\ Len(<<i, j>>) = 2 /\ <<i, j>>[1] = i /\ <<i, j>>[2] = j
  BY <1>3, <1>7
<1>12. \A i, j, k \in Nat :
         /\ Append(Append(Append(r, i), j), k) = r \o <<i, j, k>> /\ <<i, j, k>> \in Seq(Nat)
         /\ Len(<<i, j, k>>) = 3
  BY <1>4, <1>8
<1> QED
  BY ONLY <1>10, <1>11, <1>12

LEMMA StackedTwo ==
  ASSUME NEW r \in Seq(Nat), NEW i \in Nat, NEW j \in Nat
  PROVE  Append(Append(r, i), j) = r \o <<i, j>> /\ <<i, j>> \in Seq(Nat) /\ Len(<<i, j>>) = 2
<1>1. Append(Append(r, i), j) = r \o <<i, j>>
  BY Stacked
<1>2. <<i, j>> \in Seq(Nat) /\ Len(<<i, j>>) = 2
  OBVIOUS
<1> QED
  BY <1>1, <1>2

LEMMA StackedFour ==
  ASSUME NEW r \in Seq(Nat), NEW i \in Nat, NEW j \in Nat, NEW k \in Nat, NEW l \in Nat
  PROVE  /\ Append(Append(Append(Append(r, i), j), k), l) = r \o <<i, j, k, l>>
         /\ <<i, j, k, l>> \in Seq(Nat) /\ Len(<<i, j, k, l>>) = 4
<1>1. Append(r \o <<i, j, k>>, l) = r \o Append(<<i, j, k>>, l)
  <2>1. <<i, j, k>> \in Seq(Nat)
    OBVIOUS
  <2> QED
    BY <2>1, Pushed
<1>2. Append(<<i, j, k>>, l) = <<i, j, k, l>>
  BY AppendFourth
<1>3. Append(Append(Append(r, i), j), k) = r \o <<i, j, k>>
  BY Stacked, SMTT(20)
<1>4. <<i, j, k, l>> \in Seq(Nat) /\ Len(<<i, j, k, l>>) = 4
  OBVIOUS
<1> QED
  BY ONLY <1>1, <1>2, <1>3, <1>4

LEMMA TurnsGives ==
  ASSUME NEW text \in Total, NEW item, Single(item), Lead(item) = <<>>,
         NEW s \in Point, NEW e \in Point,
         NEW base \in Seq(Nat), NEW p \in Seq(Nat), s[2] = base \o p, Len(p) = Takes(item),
         NEW last, Made(item) => Made(last),
         Turns(text, last, base, e, s[1], Before(text, item, p))
  PROVE  Act(text, item, s, e)
<1>1. PICK k \in Nat : /\ e[2] = Append(base, k) /\ (Made(last) => k # 0)
                       /\ Track(s[1], Before(text, item, p), e[1], text[k])
  BY DEF Turns
<1>2. Cat(Lead(item), text[k]) = text[k]
  BY TotalFacts, CatNothing
<1> QED
  BY <1>1, <1>2, ActGives

\* The same of a record that has read nothing before.
LEMMA WholeGives ==
  ASSUME NEW text \in Total, NEW item, Single(item), Lead(item) = <<>>, Takes(item) = 0,
         Before(text, item, <<>>) = <<>>, NEW s \in Point, NEW e \in Point,
         NEW last, Made(item) => Made(last), Turns(text, last, s[2], e, s[1], <<>>)
  PROVE  Act(text, item, s, e)
<1>1. s[2] \in Seq(Nat) /\ s[2] = s[2] \o <<>> /\ <<>> \in Seq(Nat) /\ Len(<<>>) = Takes(item)
  BY PointFacts, Pushed
<1>2. Turns(text, last, s[2], e, s[1], Before(text, item, <<>>))
  OBVIOUS
<1> QED
  BY <1>1, <1>2, TurnsGives

LEMMA ValuedGives ==
  ASSUME NEW text \in Total, NEW item, Single(item), Lead(item) = <<>>, Takes(item) = 0,
         Before(text, item, <<>>) = <<>>, ~Made(item), NEW s \in Point, NEW e \in Point,
         Valued(text, s, e)
  PROVE  Act(text, item, s, e)
<1>1. Turns(text, item, s[2], e, s[1], <<>>)
  BY DEF Valued, Turns
<1> QED
  BY <1>1, WholeGives

LEMMA TokenRead ==
  ASSUME NEW x \in Lines, NEW kind \in STRING \cup Spelled
  PROVE  /\ Track(x, <<>>, Cat(x, Tok(kind)), Tok(kind))
         /\ \A b \in Lines : Track(x, b, Cat(x, Tok(kind)), Cat(b, Tok(kind)))
<1>1. Tok(kind) \in Lines /\ <<>> \in Lines /\ Same(Tok(kind), Tok(kind))
  BY Lined, CatNothing, SameFacts
<1>2. \A b \in Lines : Track(x, b, Cat(x, Tok(kind)), Cat(b, Tok(kind)))
  BY <1>1, TrackStart, TrackThen
<1>3. Cat(<<>>, Tok(kind)) = Tok(kind)
  BY <1>1, CatNothing
<1> QED
  BY <1>1, <1>2, <1>3

LEMMA BuildGoes ==
  ASSUME NEW text \in Total, NEW item, item.do = "build",
         NEW s \in Point, NEW e \in Point, Act(text, item, s, e),
         NEW base \in Seq(Nat), NEW p \in Seq(Nat), s[2] = base \o p, Len(p) = Arity(item),
         NEW x, NEW b, NEW t, Track(x, b, s[1], t),
         NEW u \in Lines, Wording(NodeOf(item, p), text) = u, Same(t, u)
  PROVE  Turns(text, item, base, e, x, b)
<1>1. Plain(item) /\ Takes(item) = Arity(item) /\ Before(text, item, p) = u
  BY BuildFacts
<1>2. Track(x, b, s[1], u)
  BY TrackSame
<1> QED
  BY <1>1, <1>2, TakeGoes

LEMMA BuildNodes ==
  /\ Arity(Build("Grouping")) = 1 /\ Arity(Build("Return")) = 1 /\ Arity(Build("VarDecl")) = 2
  /\ Arity(Build("While")) = 2 /\ Arity(Build("If")) = 3 /\ Arity(Build("For")) = 4
  /\ \A i : /\ NodeOf(Build("Grouping"), <<i>>) = Grouping(i)
            /\ NodeOf(Build("Return"), <<i>>) = ReturnStmt(i)
  /\ \A i, j : /\ NodeOf(Build("VarDecl"), <<i, j>>) = VarDecl(i, j)
               /\ NodeOf(Build("While"), <<i, j>>) = WhileStmt(i, j)
  /\ \A i, j, k : NodeOf(Build("If"), <<i, j, k>>) = IfStmt(i, j, k)
  /\ \A i, j, k, l : NodeOf(Build("For"), <<i, j, k, l>>) = ForStmt(i, j, k, l)
<1>1. /\ Arity(Build("Grouping")) = 1 /\ Arity(Build("Return")) = 1 /\ Arity(Build("VarDecl")) = 2
      /\ Arity(Build("While")) = 2 /\ Arity(Build("If")) = 3 /\ Arity(Build("For")) = 4
  BY BuildFields DEF Arity
<1>2. \A i : /\ NodeOf(Build("Grouping"), <<i>>) = Grouping(i)
             /\ NodeOf(Build("Return"), <<i>>) = ReturnStmt(i)
  BY BuildFields DEF NodeOf
<1>3. \A i, j : /\ NodeOf(Build("VarDecl"), <<i, j>>) = VarDecl(i, j)
                /\ NodeOf(Build("While"), <<i, j>>) = WhileStmt(i, j)
  BY BuildFields DEF NodeOf
<1>4. \A i, j, k : NodeOf(Build("If"), <<i, j, k>>) = IfStmt(i, j, k)
  BY BuildFields DEF NodeOf
<1>5. \A i, j, k, l : NodeOf(Build("For"), <<i, j, k, l>>) = ForStmt(i, j, k, l)
  BY BuildFields DEF NodeOf
<1> QED
  BY <1>1, <1>2, <1>3, <1>4, <1>5

LEMMA OperatorNodes ==
  ASSUME NEW op, NEW i, NEW j
  PROVE  /\ Arity(BuildOp("Unary", op)) = 1 /\ NodeOf(BuildOp("Unary", op), <<i>>) = Unary(op, i)
         /\ Arity(BuildOp("Binary", op)) = 2
         /\ NodeOf(BuildOp("Binary", op), <<i, j>>) = Binary(op, i, j)
         /\ Arity(BuildOp("Logical", op)) = 2
         /\ NodeOf(BuildOp("Logical", op), <<i, j>>) = Logical(op, i, j)
<1>1. /\ BuildOp("Unary", op).kind = "Unary" /\ BuildOp("Unary", op).op = op
      /\ BuildOp("Binary", op).kind = "Binary" /\ BuildOp("Binary", op).op = op
      /\ BuildOp("Logical", op).kind = "Logical" /\ BuildOp("Logical", op).op = op
  BY BuildFields
<1>2. Arity(BuildOp("Unary", op)) = 1 /\ NodeOf(BuildOp("Unary", op), <<i>>) = Unary(op, i)
  BY <1>1 DEF Arity, NodeOf
<1>3. /\ Arity(BuildOp("Binary", op)) = 2
      /\ NodeOf(BuildOp("Binary", op), <<i, j>>) = Binary(op, i, j)
  BY <1>1 DEF Arity, NodeOf
<1>4. /\ Arity(BuildOp("Logical", op)) = 2
      /\ NodeOf(BuildOp("Logical", op), <<i, j>>) = Logical(op, i, j)
  BY <1>1 DEF Arity, NodeOf
<1> QED
  BY <1>2, <1>3, <1>4

LEMMA ListNodes ==
  ASSUME NEW n, NEW p
  PROVE  /\ Arity(BuildList("Block", n)) = n /\ NodeOf(BuildList("Block", n), p) = BlockStmt(p)
         /\ Arity(BuildList("Call", n)) = 1 + n
         /\ NodeOf(BuildList("Call", n), p) = CallExpr(p[1], Tail(p))
         /\ Arity(BuildList("FuncDecl", n)) = 2 + n
         /\ NodeOf(BuildList("FuncDecl", n), p) = FuncDecl(p[1], Front(Tail(p)), Last(p))
<1>1. /\ BuildList("Block", n).kind = "Block" /\ BuildList("Block", n).count = n
      /\ BuildList("Call", n).kind = "Call" /\ BuildList("Call", n).count = n
      /\ BuildList("FuncDecl", n).kind = "FuncDecl" /\ BuildList("FuncDecl", n).count = n
  BY BuildFields
<1>2. Arity(BuildList("Block", n)) = n /\ NodeOf(BuildList("Block", n), p) = BlockStmt(p)
  BY <1>1 DEF Arity, NodeOf
<1>3. /\ Arity(BuildList("Call", n)) = 1 + n
      /\ NodeOf(BuildList("Call", n), p) = CallExpr(p[1], Tail(p))
  BY <1>1 DEF Arity, NodeOf
<1>4. /\ Arity(BuildList("FuncDecl", n)) = 2 + n
      /\ NodeOf(BuildList("FuncDecl", n), p) = FuncDecl(p[1], Front(Tail(p)), Last(p))
  BY <1>1 DEF Arity, NodeOf
<1> QED
  BY <1>2, <1>3, <1>4

LEMMA WhileGoes ==
  ASSUME NEW text \in Total, NEW s \in Point, NEW z \in Point, NEW e \in Point,
         z[1] = Cat(s[1], Tok("While")), z[2] = s[2], Run(text, Rule.While, z, e)
  PROVE  Turns(text, Build("While"), s[2], e, s[1], <<>>)
<1> DEFINE a == <<Consume("LParen")>>
           b == <<Consume("RParen"), Do("stmt"), Build("While")>>
<1>1. /\ Rule.While = (a \o Expr) \o b /\ a \in Seq(Record) /\ b \in Seq(Record)
      /\ a \o Expr \in Seq(Record)
  <2>1. Rule.While = (a \o Expr) \o b
    BY DEF Rule
  <2>2. a \in Seq(Record) /\ b \in Seq(Record)
    BY TokenRecords, DoRecords, BuildRecords
  <2> QED
    BY <2>1, <2>2, ExprSeq, ConcatProperties
<1>2. PICK m2 \in Point : Run(text, a \o Expr, z, m2) /\ Run(text, b, m2, e)
  BY <1>1, RunSplit
<1>3. PICK m1 \in Point : Run(text, a, z, m1) /\ Run(text, Expr, m1, m2)
  BY <1>1, <1>2, ExprSeq, RunSplit
<1>4. Act(text, Consume("LParen"), z, m1)
  BY <1>3, TokenRecords, RunOne
<1>5. PICK m3, m4 \in Point : /\ Act(text, Consume("RParen"), m2, m3)
                              /\ Act(text, Do("stmt"), m3, m4)
                              /\ Act(text, Build("While"), m4, e)
  BY <1>2, TokenRecords, DoRecords, BuildRecords, RunThree
<1>6. s[2] \in Seq(Nat) /\ Track(s[1], <<>>, z[1], Tok("While"))
  BY PointFacts, TokenRead, FixedFacts
<1> DEFINE t1 == Cat(Tok("While"), Tok("LParen"))
<1>7. m1[2] = s[2] /\ Track(s[1], <<>>, m1[1], t1)
  <2>1. Passes("LParen", z, m1, s[1], <<>>, Tok("While"))
    BY <1>4, <1>6, ConsumeGoes, FixedFacts
  <2> QED
    BY <2>1 DEF Passes
<1> HIDE DEF t1
<1>8. PICK i \in Nat : m2[2] = Append(s[2], i) /\ Track(s[1], <<>>, m2[1], Cat(t1, text[i]))
  <2>1. Valued(text, m1, m2)
    BY <1>3, ExprGoes
  <2>2. Gains(text, m1[2], m2, s[1], <<>>, t1)
    BY <1>7, <2>1, ValuedGoes
  <2> QED
    BY <1>7, <2>2 DEF Gains
<1> DEFINE t2 == Cat(t1, text[i])
           t3 == Cat(t2, Tok("RParen"))
<1> HIDE DEF t2
<1>9. m3[2] = Append(s[2], i) /\ Track(s[1], <<>>, m3[1], t3)
  <2>1. Track(s[1], <<>>, m2[1], t2)
    BY <1>8 DEF t2
  <2>2. Passes("RParen", m2, m3, s[1], <<>>, t2)
    BY <1>5, <2>1, ConsumeGoes, FixedFacts
  <2> QED
    BY <1>8, <2>2 DEF Passes
<1> HIDE DEF t3
<1>10. PICK j \in Nat : /\ m4[2] = Append(Append(s[2], i), j)
                        /\ Track(s[1], <<>>, m4[1], Cat(t3, text[j]))
  <2>1. Adds(text, Do("stmt"), m3[2], m4, s[1], <<>>, t3)
    BY <1>5, <1>9, PushGoes, PushFacts
  <2> QED
    BY <1>9, <2>1 DEF Adds
<1>11. Wording(NodeOf(Build("While"), <<i, j>>), text) = Cat(t3, text[j])
  BY StatementWords, BuildNodes DEF t1, t2, t3
<1>12. Cat(t3, text[j]) \in Lines /\ Same(Cat(t3, text[j]), Cat(t3, text[j]))
  BY <1>10, SameFacts DEF Track
<1>13. m4[2] = s[2] \o <<i, j>> /\ <<i, j>> \in Seq(Nat) /\ Len(<<i, j>>) = Arity(Build("While"))
  <2>1. m4[2] = s[2] \o <<i, j>> /\ <<i, j>> \in Seq(Nat) /\ Len(<<i, j>>) = 2
    <3>1. s[2] \in Seq(Nat) /\ m4[2] = Append(Append(s[2], i), j) /\ i \in Nat /\ j \in Nat
      BY <1>6, <1>10
    <3> QED
      BY ONLY <3>1, StackedTwo
  <2>2. Arity(Build("While")) = 2
    BY BuildNodes
  <2> QED
    BY <2>1, <2>2
<1>14. Build("While").do = "build"
  BY BuildFields
<1> QED
  BY <1>5, <1>6, <1>10, <1>11, <1>12, <1>13, <1>14, BuildGoes

\* The part that an `if', a `for' or a declaration may lack.
ElseOf(text) == [k \in Nat |-> IF k = 0 THEN <<>> ELSE Cat(Tok("Else"), text[k])]
FirstOf(text) == [k \in Nat |-> IF k = 0 THEN Tok("Semicolon") ELSE text[k]]
InitOf(text) == [k \in Nat |-> IF k = 0 THEN <<>> ELSE Cat(Tok("Equal"), text[k])]

LEMMA ElseGoes ==
  ASSUME NEW text \in Total, NEW s \in Point, NEW e \in Point, Act(text, Do("else"), s, e),
         NEW x, NEW b, NEW t, Track(x, b, s[1], t)
  PROVE  Gains(ElseOf(text), s[2], e, x, b, t)
<1>1. /\ Single(Do("else")) /\ Takes(Do("else")) = 0 /\ Before(text, Do("else"), <<>>) = <<>>
      /\ Made(Do("else")) /\ Lead(Do("else")) = Tok("Else") /\ Skipped(Do("else")) = {<<>>}
  BY OptionFacts
<1>2. /\ s[2] \in Seq(Nat) /\ s[2] = s[2] \o <<>> /\ <<>> \in Seq(Nat)
      /\ Len(<<>>) = Takes(Do("else"))
  BY <1>1, PointFacts, Pushed
<1>3. Took(text, Do("else"), s, e, s[2], <<>>)
  BY <1>1, <1>2, ActTakes
<1>4. PICK y \in Lines, k \in Nat : /\ e[1] = Cat(s[1], y) /\ e[2] = Append(s[2], k)
                                    /\ Stands(text, Do("else"), <<>>, y, k)
  BY <1>3 DEF Took
<1>5. \/ k # 0 /\ Same(Cat(<<>>, y), Cat(Tok("Else"), text[k]))
      \/ k = 0 /\ y = <<>>
  BY <1>1, <1>4 DEF Stands
<1>6. Cat(<<>>, y) = y /\ Cat(Tok("Else"), text[k]) \in Lines /\ <<>> \in Lines
  BY CatNothing, CatClosed, Spellings, TotalFacts
<1>7. ElseOf(text)[k] \in Lines /\ Same(y, ElseOf(text)[k])
  BY <1>5, <1>6, SameFacts DEF ElseOf
<1>8. Track(x, b, e[1], Cat(t, ElseOf(text)[k]))
  BY <1>4, <1>7, TrackThen
<1> QED
  BY <1>4, <1>8 DEF Gains

LEMMA FirstGoes ==
  ASSUME NEW text \in Total, NEW s \in Point, NEW e \in Point, Act(text, Do("forInit"), s, e),
         NEW x, NEW b, NEW t, Track(x, b, s[1], t)
  PROVE  Gains(FirstOf(text), s[2], e, x, b, t)
<1> DEFINE item == Do("forInit")
<1>1. /\ Single(item) /\ Takes(item) = 0 /\ Before(text, item, <<>>) = <<>>
      /\ Made(item) /\ Lead(item) = <<>> /\ Skipped(item) = {Tok("Semicolon")}
  BY OptionFacts
<1>2. s[2] \in Seq(Nat) /\ s[2] = s[2] \o <<>> /\ <<>> \in Seq(Nat) /\ Len(<<>>) = Takes(item)
  BY <1>1, PointFacts, Pushed
<1>3. Took(text, item, s, e, s[2], <<>>)
  BY <1>1, <1>2, ActTakes
<1>4. PICK y \in Lines, k \in Nat : /\ e[1] = Cat(s[1], y) /\ e[2] = Append(s[2], k)
                                    /\ Stands(text, item, <<>>, y, k)
  BY <1>3 DEF Took
<1>5. \/ k # 0 /\ Same(Cat(<<>>, y), Cat(<<>>, text[k]))
      \/ k = 0 /\ y = Tok("Semicolon")
  BY <1>1, <1>4 DEF Stands
<1>6. /\ Cat(<<>>, y) = y /\ Cat(<<>>, text[k]) = text[k] /\ text[k] \in Lines
      /\ Tok("Semicolon") \in Lines
  BY CatNothing, Spellings, TotalFacts
<1>7. FirstOf(text)[k] \in Lines /\ Same(y, FirstOf(text)[k])
  BY <1>5, <1>6, SameFacts DEF FirstOf
<1>8. Track(x, b, e[1], Cat(t, FirstOf(text)[k]))
  BY <1>4, <1>7, TrackThen
<1> QED
  BY <1>4, <1>8 DEF Gains

\* An initializer whose value is missing reads an equals sign all the same.
LEMMA InitGoes ==
  ASSUME NEW text \in Total, NEW s \in Point, NEW e \in Point, Act(text, Do("initializer"), s, e),
         NEW x, NEW b, NEW t, Track(x, b, s[1], t)
  PROVE  \/ Gains(InitOf(text), s[2], e, x, b, t)
         \/ e[2] = Append(s[2], 0) /\ Track(x, b, e[1], Cat(t, Tok("Equal")))
<1> DEFINE item == Do("initializer")
<1>1. /\ Single(item) /\ Takes(item) = 0 /\ Before(text, item, <<>>) = <<>>
      /\ Lead(item) = Tok("Equal") /\ Skipped(item) = {<<>>}
  BY OptionFacts
<1>2. s[2] \in Seq(Nat) /\ s[2] = s[2] \o <<>> /\ <<>> \in Seq(Nat) /\ Len(<<>>) = Takes(item)
  BY <1>1, PointFacts, Pushed
<1>3. Took(text, item, s, e, s[2], <<>>)
  BY <1>1, <1>2, ActTakes
<1>4. PICK y \in Lines, k \in Nat : /\ e[1] = Cat(s[1], y) /\ e[2] = Append(s[2], k)
                                    /\ Stands(text, item, <<>>, y, k)
  BY <1>3 DEF Took
<1>5. \/ Same(Cat(<<>>, y), Cat(Tok("Equal"), text[k]))
      \/ k = 0 /\ y = <<>>
  BY <1>1, <1>4 DEF Stands
<1>6. /\ Cat(<<>>, y) = y /\ Cat(Tok("Equal"), text[k]) \in Lines /\ <<>> \in Lines
      /\ Tok("Equal") \in Lines /\ (k = 0 => Cat(Tok("Equal"), text[k]) = Tok("Equal"))
  BY CatNothing, CatClosed, Spellings, TotalFacts
<1>7. CASE k = 0 /\ Same(y, Tok("Equal"))
  <2>1. Track(x, b, e[1], Cat(t, Tok("Equal")))
    BY <1>4, <1>6, <1>7, TrackThen
  <2> QED
    BY <1>4, <1>7, <2>1
<1>8. CASE ~ (k = 0 /\ Same(y, Tok("Equal")))
  <2>1. InitOf(text)[k] \in Lines /\ Same(y, InitOf(text)[k])
    BY <1>5, <1>6, <1>8, SameFacts DEF InitOf
  <2>2. Track(x, b, e[1], Cat(t, InitOf(text)[k]))
    BY <1>4, <2>1, TrackThen
  <2> QED
    BY <1>4, <2>2 DEF Gains
<1> QED
  BY <1>7, <1>8

LEMMA IfGoes ==
  ASSUME NEW text \in Total, NEW s \in Point, NEW z \in Point, NEW e \in Point,
         z[1] = Cat(s[1], Tok("If")), z[2] = s[2], Run(text, Rule.If, z, e)
  PROVE  Turns(text, Build("If"), s[2], e, s[1], <<>>)
<1> DEFINE a == <<Consume("LParen")>>
           b == <<Consume("RParen"), Do("stmt"), Do("else"), Build("If")>>
<1>1. /\ Rule.If = (a \o Expr) \o b /\ a \in Seq(Record) /\ b \in Seq(Record)
      /\ a \o Expr \in Seq(Record)
  <2>1. Rule.If = (a \o Expr) \o b
    BY DEF Rule
  <2>2. a \in Seq(Record) /\ b \in Seq(Record)
    BY TokenRecords, DoRecords, BuildRecords
  <2> QED
    BY <2>1, <2>2, ExprSeq, ConcatProperties
<1>2. PICK m2 \in Point : Run(text, a \o Expr, z, m2) /\ Run(text, b, m2, e)
  BY <1>1, RunSplit
<1>3. PICK m1 \in Point : Run(text, a, z, m1) /\ Run(text, Expr, m1, m2)
  BY <1>1, <1>2, ExprSeq, RunSplit
<1>4. Act(text, Consume("LParen"), z, m1)
  BY <1>3, TokenRecords, RunOne
<1>5. PICK m3, m4, m5 \in Point :
        /\ Act(text, Consume("RParen"), m2, m3) /\ Act(text, Do("stmt"), m3, m4)
        /\ Act(text, Do("else"), m4, m5) /\ Act(text, Build("If"), m5, e)
  BY <1>2, TokenRecords, DoRecords, BuildRecords, RunFour
<1> DEFINE t0 == Tok("If")
<1>6. /\ s[2] \in Seq(Nat) /\ z[2] = s[2] /\ Track(s[1], <<>>, z[1], t0)
  BY PointFacts, TokenRead, FixedFacts
<1> HIDE DEF t0
<1> DEFINE t1 == Cat(t0, Tok("LParen"))
<1>7. m1[2] = s[2] /\ Track(s[1], <<>>, m1[1], t1)
  <2>1. Passes("LParen", z, m1, s[1], <<>>, t0)
    BY <1>4, <1>6, ConsumeGoes, FixedFacts
  <2> QED
    BY <1>6, <2>1 DEF Passes
<1> HIDE DEF t1
<1>8. PICK i \in Nat : /\ m2[2] = Append(s[2], i)
                       /\ Track(s[1], <<>>, m2[1], Cat(t1, text[i]))
  <2>1. Valued(text, m1, m2)
    BY <1>3, ExprGoes
  <2>2. Gains(text, m1[2], m2, s[1], <<>>, t1)
    BY <1>7, <2>1, ValuedGoes
  <2> QED
    BY <1>7, <2>2 DEF Gains
<1> DEFINE t2 == Cat(t1, text[i])
<1>9. m2[2] = Append(s[2], i) /\ Track(s[1], <<>>, m2[1], t2)
  BY <1>8 DEF t2
<1> HIDE DEF t2
<1> DEFINE t3 == Cat(t2, Tok("RParen"))
<1>10. m3[2] = Append(s[2], i) /\ Track(s[1], <<>>, m3[1], t3)
  <2>1. Passes("RParen", m2, m3, s[1], <<>>, t2)
    BY <1>5, <1>9, ConsumeGoes, FixedFacts
  <2> QED
    BY <1>9, <2>1 DEF Passes
<1> HIDE DEF t3
<1>11. PICK j \in Nat : /\ m4[2] = Append(Append(s[2], i), j)
                        /\ Track(s[1], <<>>, m4[1], Cat(t3, text[j]))
  <2>1. Adds(text, Do("stmt"), m3[2], m4, s[1], <<>>, t3)
    BY <1>5, <1>10, PushGoes, PushFacts
  <2> QED
    BY <1>10, <2>1 DEF Adds
<1> DEFINE t4 == Cat(t3, text[j])
<1>12. m4[2] = Append(Append(s[2], i), j) /\ Track(s[1], <<>>, m4[1], t4)
  BY <1>11 DEF t4
<1> HIDE DEF t4
<1>13. PICK k \in Nat : /\ m5[2] = Append(Append(Append(s[2], i), j), k)
                        /\ Track(s[1], <<>>, m5[1], Cat(t4, ElseOf(text)[k]))
  <2>1. Gains(ElseOf(text), m4[2], m5, s[1], <<>>, t4)
    BY <1>5, <1>12, ElseGoes
  <2> QED
    BY <1>12, <2>1 DEF Gains
<1> DEFINE t5 == Cat(t4, ElseOf(text)[k])
<1>14. m5[2] = Append(Append(Append(s[2], i), j), k) /\ Track(s[1], <<>>, m5[1], t5)
  BY <1>13 DEF t5
<1> HIDE DEF t5
<1>15. Wording(NodeOf(Build("If"), <<i, j, k>>), text) = t5
  BY StatementWords, BuildNodes DEF t0, t1, t2, t3, t4, t5, ElseOf
<1>16. t5 \in Lines /\ Same(t5, t5)
  BY <1>14, SameFacts DEF Track
<1>17. /\ m5[2] = s[2] \o <<i, j, k>> /\ <<i, j, k>> \in Seq(Nat)
      /\ Len(<<i, j, k>>) = Arity(Build("If"))
  <2>1. /\ Append(Append(Append(s[2], i), j), k) = s[2] \o <<i, j, k>> /\ <<i, j, k>> \in Seq(Nat)
        /\ Len(<<i, j, k>>) = 3
    BY <1>6, Stacked
  <2> QED
    BY <1>14, <2>1, BuildNodes
<1>18. Build("If").do = "build"
  BY BuildFields
<1> QED
  BY <1>6, <1>14, <1>5, <1>15, <1>16, <1>17, <1>18, BuildGoes

LEMMA ReturnGoes ==
  ASSUME NEW text \in Total, NEW s \in Point, NEW z \in Point, NEW e \in Point,
         z[1] = Cat(s[1], Tok("Return")), z[2] = s[2], Run(text, Rule.Return, z, e)
  PROVE  Turns(text, Build("Return"), s[2], e, s[1], <<>>)
<1>1. PICK m1, m2 \in Point :
        /\ Act(text, Unless("Semicolon"), z, m1) /\ Act(text, Consume("Semicolon"), m1, m2)
        /\ Act(text, Build("Return"), m2, e)
  <2>1. Rule.Return = <<Unless("Semicolon"), Consume("Semicolon"), Build("Return")>>
    BY DEF Rule
  <2> QED
    BY <2>1, TokenRecords, BuildRecords, RunThree
<1> DEFINE t0 == Tok("Return")
<1>2. /\ s[2] \in Seq(Nat) /\ z[2] = s[2] /\ Track(s[1], <<>>, z[1], t0)
  BY PointFacts, TokenRead, FixedFacts
<1> HIDE DEF t0
<1>3. PICK i \in Nat : /\ m1[2] = Append(s[2], i)
                       /\ Track(s[1], <<>>, m1[1], Cat(t0, text[i]))
  <2>1. Adds(text, Unless("Semicolon"), z[2], m1, s[1], <<>>, t0)
    BY <1>1, <1>2, PushGoes, PushFacts
  <2> QED
    BY <1>2, <2>1 DEF Adds
<1> DEFINE t1 == Cat(t0, text[i])
<1>4. m1[2] = Append(s[2], i) /\ Track(s[1], <<>>, m1[1], t1)
  BY <1>3 DEF t1
<1> HIDE DEF t1
<1> DEFINE t2 == Cat(t1, Tok("Semicolon"))
<1>5. m2[2] = Append(s[2], i) /\ Track(s[1], <<>>, m2[1], t2)
  <2>1. Passes("Semicolon", m1, m2, s[1], <<>>, t1)
    BY <1>1, <1>4, ConsumeGoes, FixedFacts
  <2> QED
    BY <1>4, <2>1 DEF Passes
<1> HIDE DEF t2
<1>6. Wording(NodeOf(Build("Return"), <<i>>), text) = t2
  BY StatementWords, BuildNodes DEF t0, t1, t2
<1>7. t2 \in Lines /\ Same(t2, t2)
  BY <1>5, SameFacts DEF Track
<1>8. /\ m2[2] = s[2] \o <<i>> /\ <<i>> \in Seq(Nat)
      /\ Len(<<i>>) = Arity(Build("Return"))
  BY <1>2, <1>5, Stacked, BuildNodes
<1>9. Build("Return").do = "build"
  BY BuildFields
<1> QED
  BY <1>2, <1>5, <1>1, <1>6, <1>7, <1>8, <1>9, BuildGoes

LEMMA ForGoes ==
  ASSUME NEW text \in Total, NEW s \in Point, NEW z \in Point, NEW e \in Point,
         z[1] = Cat(s[1], Tok("For")), z[2] = s[2], Run(text, Rule.For, z, e)
  PROVE  Turns(text, Build("For"), s[2], e, s[1], <<>>)
<1> DEFINE a == <<Consume("LParen"), Do("forInit"), Unless("Semicolon"), Consume("Semicolon")>>
           b == <<Unless("RParen"), Consume("RParen"), Do("stmt"), Build("For")>>
<1>1. Rule.For = a \o b /\ a \in Seq(Record) /\ b \in Seq(Record)
  <2>1. /\ Consume("LParen") \in Record /\ Do("forInit") \in Record /\ Unless("Semicolon") \in Record
        /\ Consume("Semicolon") \in Record /\ Unless("RParen") \in Record
        /\ Consume("RParen") \in Record /\ Do("stmt") \in Record /\ Build("For") \in Record
    BY TokenRecords, DoRecords, BuildRecords
  <2>2. Rule.For = <<Consume("LParen"), Do("forInit"), Unless("Semicolon"), Consume("Semicolon"),
                     Unless("RParen"), Consume("RParen"), Do("stmt"), Build("For")>>
    BY DEF Rule
  <2>3. Rule.For = a \o b
    BY <2>1, <2>2, TupleHalves
  <2> QED
    BY <2>1, <2>3
<1>2. PICK m4 \in Point : Run(text, a, z, m4) /\ Run(text, b, m4, e)
  BY <1>1, RunSplit
<1>3. PICK m1, m2, m3 \in Point :
        /\ Act(text, Consume("LParen"), z, m1) /\ Act(text, Do("forInit"), m1, m2)
        /\ Act(text, Unless("Semicolon"), m2, m3) /\ Act(text, Consume("Semicolon"), m3, m4)
  BY <1>2, TokenRecords, DoRecords, RunFour
<1>4. PICK m5, m6, m7 \in Point :
        /\ Act(text, Unless("RParen"), m4, m5) /\ Act(text, Consume("RParen"), m5, m6)
        /\ Act(text, Do("stmt"), m6, m7) /\ Act(text, Build("For"), m7, e)
  BY <1>2, TokenRecords, DoRecords, BuildRecords, RunFour
<1> DEFINE t0 == Tok("For")
<1>5. /\ s[2] \in Seq(Nat) /\ z[2] = s[2] /\ Track(s[1], <<>>, z[1], t0)
  BY PointFacts, TokenRead, FixedFacts
<1> HIDE DEF t0
<1> DEFINE t1 == Cat(t0, Tok("LParen"))
<1>6. m1[2] = s[2] /\ Track(s[1], <<>>, m1[1], t1)
  <2>1. Passes("LParen", z, m1, s[1], <<>>, t0)
    BY <1>3, <1>5, ConsumeGoes, FixedFacts
  <2> QED
    BY <1>5, <2>1 DEF Passes
<1> HIDE DEF t1
<1>7. PICK i \in Nat : /\ m2[2] = Append(s[2], i)
                       /\ Track(s[1], <<>>, m2[1], Cat(t1, FirstOf(text)[i]))
  <2>1. Gains(FirstOf(text), m1[2], m2, s[1], <<>>, t1)
    BY <1>3, <1>6, FirstGoes
  <2> QED
    BY <1>6, <2>1 DEF Gains
<1> DEFINE t2 == Cat(t1, FirstOf(text)[i])
<1>8. m2[2] = Append(s[2], i) /\ Track(s[1], <<>>, m2[1], t2)
  BY <1>7 DEF t2
<1> HIDE DEF t2
<1>9. PICK j \in Nat : /\ m3[2] = Append(Append(s[2], i), j)
                       /\ Track(s[1], <<>>, m3[1], Cat(t2, text[j]))
  <2>1. Adds(text, Unless("Semicolon"), m2[2], m3, s[1], <<>>, t2)
    BY <1>3, <1>8, PushGoes, PushFacts
  <2> QED
    BY <1>8, <2>1 DEF Adds
<1> DEFINE t3 == Cat(t2, text[j])
<1>10. m3[2] = Append(Append(s[2], i), j) /\ Track(s[1], <<>>, m3[1], t3)
  BY <1>9 DEF t3
<1> HIDE DEF t3
<1> DEFINE t4 == Cat(t3, Tok("Semicolon"))
<1>11. m4[2] = Append(Append(s[2], i), j) /\ Track(s[1], <<>>, m4[1], t4)
  <2>1. Passes("Semicolon", m3, m4, s[1], <<>>, t3)
    BY <1>3, <1>10, ConsumeGoes, FixedFacts
  <2> QED
    BY <1>10, <2>1 DEF Passes
<1> HIDE DEF t4
<1>12. PICK k \in Nat : /\ m5[2] = Append(Append(Append(s[2], i), j), k)
                        /\ Track(s[1], <<>>, m5[1], Cat(t4, text[k]))
  <2>1. Adds(text, Unless("RParen"), m4[2], m5, s[1], <<>>, t4)
    BY <1>4, <1>11, PushGoes, PushFacts
  <2> QED
    BY <1>11, <2>1 DEF Adds
<1> DEFINE t5 == Cat(t4, text[k])
<1>13. m5[2] = Append(Append(Append(s[2], i), j), k) /\ Track(s[1], <<>>, m5[1], t5)
  BY <1>12 DEF t5
<1> HIDE DEF t5
<1> DEFINE t6 == Cat(t5, Tok("RParen"))
<1>14. m6[2] = Append(Append(Append(s[2], i), j), k) /\ Track(s[1], <<>>, m6[1], t6)
  <2>1. Passes("RParen", m5, m6, s[1], <<>>, t5)
    BY <1>4, <1>13, ConsumeGoes, FixedFacts
  <2> QED
    BY <1>13, <2>1 DEF Passes
<1> HIDE DEF t6
<1>15. PICK l \in Nat : /\ m7[2] = Append(Append(Append(Append(s[2], i), j), k), l)
                        /\ Track(s[1], <<>>, m7[1], Cat(t6, text[l]))
  <2>1. Adds(text, Do("stmt"), m6[2], m7, s[1], <<>>, t6)
    BY <1>4, <1>14, PushGoes, PushFacts
  <2> QED
    BY <1>14, <2>1 DEF Adds
<1> DEFINE t7 == Cat(t6, text[l])
<1>16. m7[2] = Append(Append(Append(Append(s[2], i), j), k), l) /\ Track(s[1], <<>>, m7[1], t7)
  BY <1>15 DEF t7
<1> HIDE DEF t7
<1>17. Wording(NodeOf(Build("For"), <<i, j, k, l>>), text) = t7
  BY StatementWords, BuildNodes DEF t0, t1, t2, t3, t4, t5, t6, t7, FirstOf
<1>18. t7 \in Lines /\ Same(t7, t7)
  BY <1>16, SameFacts DEF Track
<1>19. /\ m7[2] = s[2] \o <<i, j, k, l>> /\ <<i, j, k, l>> \in Seq(Nat)
      /\ Len(<<i, j, k, l>>) = Arity(Build("For"))
  <2>1. /\ Append(Append(Append(Append(s[2], i), j), k), l) = s[2] \o <<i, j, k, l>>
        /\ <<i, j, k, l>> \in Seq(Nat) /\ Len(<<i, j, k, l>>) = 4
    <3>1. /\ s[2] \in Seq(Nat) /\ i \in Nat /\ j \in Nat /\ k \in Nat /\ l \in Nat
      BY <1>5
    <3> QED
      BY ONLY <3>1, StackedFour
  <2> QED
    BY <1>16, <2>1, BuildNodes
<1>20. Build("For").do = "build"
  BY BuildFields
<1> QED
  BY <1>5, <1>16, <1>4, <1>17, <1>18, <1>19, <1>20, BuildGoes

LEMMA EmptyInit ==
  ASSUME NEW t \in Lines, NEW n \in Nat
  PROVE  Same(Cat(Cat(Cat(t, Nm(n)), Tok("Equal")), Tok("Semicolon")),
              Cat(Cat(Cat(t, Nm(n)), <<>>), Tok("Semicolon")))
<1> DEFINE a == Nm(n)
           e == Tok("Equal")
           z == Tok("Semicolon")
<1>1. /\ a \in Lines /\ e \in Lines /\ z \in Lines /\ Cat(a, e) \in Lines /\ Cat(Cat(a, e), z) \in Lines
      /\ Cat(a, z) \in Lines /\ Cat(t, a) \in Lines
  BY Spellings, Lined, CatClosed
<1>2. Same(Cat(Cat(a, e), z), Cat(a, z))
  <2>1. Named(n) \in Words /\ Named(n).kind # "Equal"
    BY WordFacts
  <2>2. Mark("Equal") \in Words /\ Mark("Semicolon") \in Words
    <3>1. "Semicolon" \in Spelled
      BY DEF Spelled
    <3> QED
      BY <3>1, Marks, WordFacts
  <2>3. <<Named(n), Mark("Equal"), Mark("Semicolon")>> = Cat(Cat(a, e), z)
    BY <2>1, <2>2, TokPairs DEF Nm, Tok
  <2>4. <<Named(n), Mark("Semicolon")>> = Cat(a, z)
    BY <2>1, <2>2, TokPairs DEF Nm, Tok
  <2> QED
    BY <2>1, <2>3, <2>4, EmptyInitSame
<1> HIDE DEF a, e, z
<1>3. Cat(Cat(Cat(t, a), e), z) = Cat(t, Cat(Cat(a, e), z))
  <2>1. Cat(Cat(t, a), e) = Cat(t, Cat(a, e))
    BY <1>1, CatAssoc
  <2>2. Cat(Cat(t, Cat(a, e)), z) = Cat(t, Cat(Cat(a, e), z))
    BY <1>1, CatAssoc
  <2> QED
    BY <2>1, <2>2
<1>4. Cat(Cat(Cat(t, a), <<>>), z) = Cat(t, Cat(a, z))
  <2>1. Cat(Cat(t, a), <<>>) = Cat(t, a)
    BY <1>1, CatNothing
  <2>2. Cat(Cat(t, a), z) = Cat(t, Cat(a, z))
    BY <1>1, CatAssoc
  <2> QED
    BY <2>1, <2>2
<1>5. Same(Cat(t, Cat(Cat(a, e), z)), Cat(t, Cat(a, z)))
  <2>1. Same(t, t)
    BY SameFacts
  <2> QED
    BY <1>1, <1>2, <2>1, SameCat
<1> QED
  BY <1>3, <1>4, <1>5 DEF a, e, z

LEMMA VarGoes ==
  ASSUME NEW text \in Total, NEW s \in Point, NEW z \in Point, NEW e \in Point,
         z[1] = Cat(s[1], Tok("Var")), z[2] = s[2], Run(text, Rule.Var, z, e)
  PROVE  Turns(text, Build("VarDecl"), s[2], e, s[1], <<>>)
<1>1. PICK m1, m2, m3 \in Point :
        /\ Act(text, Consume("Identifier"), z, m1) /\ Act(text, Do("initializer"), m1, m2)
        /\ Act(text, Consume("Semicolon"), m2, m3) /\ Act(text, Build("VarDecl"), m3, e)
  <2>1. Rule.Var = <<Consume("Identifier"), Do("initializer"), Consume("Semicolon"), Build("VarDecl")>>
    BY DEF Rule
  <2> QED
    <3>1. /\ {Consume("Identifier"), Do("initializer"), Consume("Semicolon"), Build("VarDecl")}
               \subseteq Record
          /\ Run(text, <<Consume("Identifier"), Do("initializer"), Consume("Semicolon"),
                        Build("VarDecl")>>, z, e)
      BY <2>1, TokenRecords, DoRecords, BuildRecords
    <3> QED
      BY ONLY <3>1, RunFour, Zenon
<1> DEFINE t0 == Tok("Var")
<1>2. /\ s[2] \in Seq(Nat) /\ z[2] = s[2] /\ Track(s[1], <<>>, z[1], t0)
  BY PointFacts, TokenRead, FixedFacts
<1>3. PICK i \in Nat : m1[2] = Append(s[2], i) /\ Track(s[1], <<>>, m1[1], Cat(t0, Nm(i)))
  <2> HIDE DEF t0
  <2>1. Spells(z, m1, s[1], <<>>, t0)
    BY <1>1, <1>2, NameGoes
  <2> QED
    BY <1>2, <2>1 DEF Spells
<1> DEFINE t1 == Cat(t0, Nm(i))
<1>4. Append(s[2], i) \in Seq(Nat) /\ Track(s[1], <<>>, m1[1], t1)
  BY <1>2, <1>3, Pushed
<1>5. t0 \in Lines /\ t1 \in Lines
  BY <1>2, <1>3 DEF Track
<1> HIDE DEF t0, t1
<1>6. \/ Gains(InitOf(text), m1[2], m2, s[1], <<>>, t1)
      \/ m2[2] = Append(m1[2], 0) /\ Track(s[1], <<>>, m2[1], Cat(t1, Tok("Equal")))
  BY <1>1, <1>4, InitGoes
<1>7. ASSUME NEW j \in Nat, NEW t, m2[2] = Append(m1[2], j), Track(s[1], <<>>, m2[1], t),
             Wording(VarDecl(i, j), text) \in Lines,
             Same(Cat(t, Tok("Semicolon")), Wording(VarDecl(i, j), text))
      PROVE  Turns(text, Build("VarDecl"), s[2], e, s[1], <<>>)
  <2>1. m3[2] = m2[2] /\ Track(s[1], <<>>, m3[1], Cat(t, Tok("Semicolon")))
    <3>1. Passes("Semicolon", m2, m3, s[1], <<>>, t)
      BY <1>1, <1>7, ConsumeGoes, FixedFacts
    <3> QED
      BY <3>1 DEF Passes
  <2>2. /\ m3[2] = s[2] \o <<i, j>> /\ <<i, j>> \in Seq(Nat)
        /\ Len(<<i, j>>) = Arity(Build("VarDecl"))
    <3>1. /\ Append(Append(s[2], i), j) = s[2] \o <<i, j>> /\ <<i, j>> \in Seq(Nat)
          /\ Len(<<i, j>>) = 2
      BY <1>2, Stacked
    <3> QED
      BY <1>3, <1>7, <2>1, <3>1, BuildNodes
  <2>3. NodeOf(Build("VarDecl"), <<i, j>>) = VarDecl(i, j) /\ Build("VarDecl").do = "build"
    BY BuildNodes, BuildFields
  <2> QED
    BY <1>1, <1>2, <1>7, <2>1, <2>2, <2>3, BuildGoes
<1>8. CASE Gains(InitOf(text), m1[2], m2, s[1], <<>>, t1)
  <2>1. PICK j \in Nat : m2[2] = Append(m1[2], j) /\ Track(s[1], <<>>, m2[1], Cat(t1, InitOf(text)[j]))
    BY <1>8 DEF Gains
  <2>2. Wording(VarDecl(i, j), text) = Cat(Cat(t1, InitOf(text)[j]), Tok("Semicolon"))
    BY StatementWords DEF t0, t1, InitOf
  <2>3. Cat(t1, InitOf(text)[j]) \in Lines
    BY <2>1 DEF Track
  <2>4. Cat(Cat(t1, InitOf(text)[j]), Tok("Semicolon")) \in Lines
    BY <2>3, Spellings, CatClosed
  <2>5. Same(Cat(Cat(t1, InitOf(text)[j]), Tok("Semicolon")), Wording(VarDecl(i, j), text))
    BY <2>2, SameFacts
  <2> QED
    BY <1>7, <2>1, <2>2, <2>4, <2>5
<1>9. CASE m2[2] = Append(m1[2], 0) /\ Track(s[1], <<>>, m2[1], Cat(t1, Tok("Equal")))
  <2>1. Wording(VarDecl(i, 0), text) = Cat(Cat(t1, <<>>), Tok("Semicolon"))
    BY StatementWords DEF t0, t1
  <2>2. Cat(Cat(t1, <<>>), Tok("Semicolon")) \in Lines
    BY <1>5, CatNothing, Spellings, CatClosed
  <2>3. Same(Cat(Cat(t1, Tok("Equal")), Tok("Semicolon")), Cat(Cat(t1, <<>>), Tok("Semicolon")))
    BY <1>5, EmptyInit DEF t1
  <2>4. 0 \in Nat
    OBVIOUS
  <2> QED
    BY <1>7, <1>9, <2>1, <2>2, <2>3, <2>4
<1> QED
  BY <1>6, <1>8, <1>9

LEMMA OpeningFirst ==
  ASSUME NEW text \in Total, NEW i \in Nat
  PROVE  /\ Opening(text, "params", <<i>>) = Cat(Cat(Tok("Function"), Nm(i)), Tok("LParen"))
         /\ Opening(text, "args", <<i>>) = Cat(text[i], Tok("LParen"))
<1>1. <<i>>[1] = i /\ Tail(<<i>>) = <<>>
  OBVIOUS
<1>2. \A f : Image(f, <<>>) = <<>>
  BY DEF Image
<1>3. /\ Cat(Cat(Tok("Function"), Nm(i)), Tok("LParen")) \in Lines
      /\ Cat(text[i], Tok("LParen")) \in Lines
  BY TotalFacts, Spellings, Lined, CatClosed
<1> QED
  BY <1>1, <1>2, <1>3, ListedFacts, CatNothing DEF Opening

LEMMA FunctionGoes ==
  ASSUME NEW text \in Total, NEW s \in Point, NEW z \in Point, NEW e \in Point,
         z[1] = Cat(s[1], Tok("Function")), z[2] = s[2], Run(text, Rule.Function, z, e)
  PROVE  Turns(text, Do("params"), s[2], e, s[1], <<>>)
<1>1. PICK m1, m2 \in Point :
        /\ Act(text, Consume("Identifier"), z, m1) /\ Act(text, Consume("LParen"), m1, m2)
        /\ Act(text, Do("params"), m2, e)
  <2>1. Rule.Function = <<Consume("Identifier"), Consume("LParen"), Do("params")>>
    BY DEF Rule
  <2> QED
    BY <2>1, TokenRecords, DoRecords, RunThree
<1> DEFINE t0 == Tok("Function")
<1>2. /\ s[2] \in Seq(Nat) /\ z[2] = s[2] /\ Track(s[1], <<>>, z[1], t0)
  BY PointFacts, TokenRead, FixedFacts
<1>3. PICK i \in Nat : m1[2] = Append(s[2], i) /\ Track(s[1], <<>>, m1[1], Cat(t0, Nm(i)))
  <2> HIDE DEF t0
  <2>1. Spells(z, m1, s[1], <<>>, t0)
    BY <1>1, <1>2, NameGoes
  <2> QED
    BY <1>2, <2>1 DEF Spells
<1> DEFINE t1 == Cat(t0, Nm(i))
<1>4. m2[2] = Append(s[2], i) /\ Track(s[1], <<>>, m2[1], Cat(t1, Tok("LParen")))
  <2> HIDE DEF t1
  <2>1. Track(s[1], <<>>, m1[1], t1)
    BY <1>3 DEF t1
  <2>2. Passes("LParen", m1, m2, s[1], <<>>, t1)
    BY <1>1, <2>1, ConsumeGoes, FixedFacts
  <2> QED
    BY <1>3, <2>2 DEF Passes
<1>5. /\ Plain(Do("params")) /\ Takes(Do("params")) = 1
      /\ Before(text, Do("params"), <<i>>) = Cat(t1, Tok("LParen"))
  <2>1. /\ Plain(Do("params")) /\ Takes(Do("params")) = 1
        /\ Before(text, Do("params"), <<i>>) = Opening(text, "params", <<i>>)
    BY TakeFacts
  <2> QED
    BY <2>1, OpeningFirst
<1>6. /\ m2[2] = s[2] \o <<i>> /\ <<i>> \in Seq(Nat) /\ Len(<<i>>) = Takes(Do("params"))
  BY <1>2, <1>4, <1>5, Stacked
<1> HIDE DEF t1
<1> QED
  BY <1>1, <1>2, <1>4, <1>5, <1>6, TakeGoes

LEMMA BlockGoes ==
  ASSUME NEW text \in Total, NEW s \in Point, NEW z \in Point, NEW e \in Point,
         z[1] = Cat(s[1], Tok("LBrace")), z[2] = s[2], Run(text, Rule.LBrace, z, e)
  PROVE  Turns(text, Statements("Block", 0), s[2], e, s[1], <<>>)
<1> DEFINE item == Statements("Block", 0)
<1>1. Act(text, item, z, e)
  <2>1. Rule.LBrace = <<item>>
    BY DEF Rule
  <2>2. item \in Record
    BY RecordFacts
  <2> HIDE DEF item
  <2> QED
    BY <2>1, <2>2, RunOne
<1>2. /\ s[2] \in Seq(Nat) /\ z[2] = s[2] /\ Track(s[1], <<>>, z[1], Tok("LBrace"))
  BY PointFacts, TokenRead, FixedFacts
<1>3. Plain(item) /\ Takes(item) = 0 /\ Before(text, item, <<>>) = Cat(Tok("LBrace"), Flat(text, <<>>))
  BY ListFacts
<1>4. Cat(Tok("LBrace"), Flat(text, <<>>)) = Tok("LBrace")
  BY TotalFacts, FlatFacts, Spellings, CatNothing
<1>5. z[2] = s[2] \o <<>> /\ <<>> \in Seq(Nat) /\ Len(<<>>) = Takes(item)
  BY <1>2, <1>3, Pushed
<1> HIDE DEF item
<1> QED
  BY <1>1, <1>2, <1>3, <1>4, <1>5, TakeGoes DEF item

LEMMA ExprStatementGoes ==
  ASSUME NEW text \in Total, NEW s \in Point, NEW e \in Point, Run(text, ExprStatement, s, e)
  PROVE  Turns(text, Do("exprStmt"), s[2], e, s[1], <<>>)
<1>1. <<Do("exprStmt")>> \in Seq(Record) /\ ExprStatement = Expr \o <<Do("exprStmt")>>
  BY DoRecords DEF ExprStatement
<1>2. PICK m \in Point : Run(text, Expr, s, m) /\ Run(text, <<Do("exprStmt")>>, m, e)
  BY <1>1, ExprSeq, RunSplit
<1>3. Valued(text, s, m)
  BY <1>2, ExprGoes
<1>4. Act(text, Do("exprStmt"), m, e)
  BY <1>2, DoRecords, RunOne
<1>5. PICK k \in Nat : m[2] = Append(s[2], k) /\ Track(s[1], <<>>, m[1], text[k])
  BY <1>3 DEF Valued
<1>6. /\ s[2] \in Seq(Nat) /\ m[2] = s[2] \o <<k>> /\ <<k>> \in Seq(Nat) /\ Len(<<k>>) = 1
      /\ <<k>>[1] = k
  BY <1>5, PointFacts, Stacked
<1>7. /\ Plain(Do("exprStmt")) /\ Takes(Do("exprStmt")) = 1
      /\ Before(text, Do("exprStmt"), <<k>>) = text[k]
  BY <1>6, TakeFacts
<1> QED
  BY <1>4, <1>5, <1>6, <1>7, TakeGoes

(***************************************************************************)
(* Expressions.                                                            *)
(***************************************************************************)

LEMMA ActHas ==
  ASSUME NEW text, NEW item, NEW s, NEW e, Act(text, item, s, e)
  PROVE  \E base, p \in Seq(Nat) : s[2] = base \o p /\ Len(p) = Takes(item)
  BY DEF Act

LEMMA SeqOne ==
  ASSUME NEW p \in Seq(Nat), Len(p) = 1
  PROVE  \E a \in Nat : p = <<a>>
<1>1. PICK a \in Nat : a = p[1]
  OBVIOUS
<1>2. <<a>> \in Seq(Nat) /\ Len(<<a>>) = 1 /\ <<a>>[1] = a
  OBVIOUS
<1>3. \A i \in 1 .. 1 : i = 1
  OBVIOUS
<1>4. \A i \in 1 .. Len(p) : p[i] = <<a>>[i]
  BY <1>1, <1>2, <1>3
<1>5. p = <<a>>
  BY <1>2, <1>4, SeqEqual
<1> QED
  BY <1>5

\* Without k on top of r, p is left of the n + 1 on base.
Popped(r, k, base, q, n) ==
  \E p \in Seq(Nat) : q = Append(p, k) /\ r = base \o p /\ Len(p) = n

LEMMA PopOne ==
  ASSUME NEW r \in Seq(Nat), NEW k \in Nat, NEW base \in Seq(Nat), NEW q \in Seq(Nat),
         NEW n \in Nat, Append(r, k) = base \o q, Len(q) = n + 1
  PROVE  Popped(r, k, base, q, n)
<1> DEFINE p == SubSeq(q, 1, n)
           j == q[n + 1]
<1>1. p \in Seq(Nat) /\ j \in Nat /\ q = Append(p, j) /\ Len(p) = n
  <2>1. n + 1 \in 1 .. Len(q) /\ (n + 1) - 1 = n
    OBVIOUS
  <2>2. /\ SubSeq(q, 1, (n + 1) - 1) \in Seq(Nat) /\ q[n + 1] \in Nat
        /\ SubSeq(q, 1, n + 1) = Append(SubSeq(q, 1, (n + 1) - 1), q[n + 1])
    BY <2>1, PrefixAppend
  <2>3. SubSeq(q, 1, n + 1) = q
    BY SubSeqFull
  <2>4. p \in Seq(Nat) /\ j \in Nat /\ q = Append(p, j)
    BY <2>1, <2>2, <2>3
  <2>5. Len(Append(p, j)) = Len(p) + 1 /\ Len(p) \in Nat
    BY <2>4, AppendProperties
  <2> HIDE DEF p, j
  <2>6. Len(p) = n
    BY <2>4, <2>5
  <2> QED
    BY <2>4, <2>6
<1> HIDE DEF p, j
<1>2. base \o q = Append(base \o p, j) /\ base \o p \in Seq(Nat)
  <2>1. base \o p \in Seq(Nat)
    BY <1>1, ConcatProperties
  <2>2. Append(base \o p, j) = base \o Append(p, j)
    <3>1. base \in Seq(Nat) /\ p \in Seq(Nat) /\ j \in Nat
      BY <1>1
    <3> QED
      BY ONLY <3>1, Pushed
  <2> QED
    BY <1>1, <2>1, <2>2
<1>3. r \o <<k>> = (base \o p) \o <<j>>
  <2>1. Append(r, k) = r \o <<k>> /\ Append(base \o p, j) = (base \o p) \o <<j>>
    BY <1>1, <1>2, AppendIsConcat
  <2> QED
    BY <1>2, <2>1
<1>4. <<k>> \in Seq(Nat) /\ <<j>> \in Seq(Nat) /\ Len(<<k>>) = Len(<<j>>)
  BY <1>1
<1>5. r = base \o p /\ <<k>> = <<j>>
  <2> DEFINE a == <<k>>
             b == <<j>>
             c == base \o p
  <2>1. c \in Seq(Nat) /\ a \in Seq(Nat) /\ b \in Seq(Nat) /\ Len(a) = Len(b) /\ r \o a = c \o b
    BY <1>2, <1>3, <1>4
  <2> HIDE DEF a, b, c
  <2>2. r = c /\ a = b
    BY <2>1, ConcatCancel
  <2> QED
    BY <2>2 DEF a, b, c
<1>6. k = j
  BY <1>5
<1> QED
  BY <1>1, <1>5, <1>6 DEF Popped

\* The two latest results.
PoppedTwo(r, k, base, q) == \E a \in Nat : q = <<a, k>> /\ r = base \o <<a>>

LEMMA PopTwo ==
  ASSUME NEW r \in Seq(Nat), NEW k \in Nat, NEW base \in Seq(Nat), NEW q \in Seq(Nat),
         Append(r, k) = base \o q, Len(q) = 2
  PROVE  PoppedTwo(r, k, base, q)
<1>1. PICK p \in Seq(Nat) : q = Append(p, k) /\ r = base \o p /\ Len(p) = 1
  <2>1. 1 \in Nat /\ Len(q) = 1 + 1
    OBVIOUS
  <2>2. Popped(r, k, base, q, 1)
    BY <2>1, PopOne
  <2> QED
    BY <2>2 DEF Popped
<1>2. PICK a \in Nat : p = <<a>>
  BY <1>1, SeqOne
<1>3. Append(<<a>>, k) = <<a, k>>
  BY AppendTuple
<1> QED
  BY <1>1, <1>2, <1>3 DEF PoppedTwo

LEMMA MoreGoes ==
  ASSUME NEW text \in Total, NEW s \in Point, NEW z \in Point, NEW e \in Point,
         NEW level \in 1 .. 6, NEW op \in Level[level],
         z[1] = Cat(s[1], Tok(op)), z[2] = s[2],
         Run(text, Operand(level + 1) \o <<BuildOp(KindOf(op), op), More(level)>>, z, e)
  PROVE  Act(text, More(level), s, e)
<1> DEFINE item == BuildOp(KindOf(op), op)
           b == <<item, More(level)>>
<1>1. /\ op \in Operator
      /\ \/ KindOf(op) = "Binary" \/ KindOf(op) = "Logical"
      /\ item \in Record /\ More(level) \in Record /\ b \in Seq(Record)
  <2>1. op \in BinaryOp \cup LogicalOp
    BY LevelOperators
  <2>2. op \in Operator
    BY <2>1 DEF Operator
  <2>3. KindOf(op) = "Binary" \/ KindOf(op) = "Logical"
    BY DEF KindOf
  <2>4. KindOf(op) \in Constructed
    BY <2>3 DEF Constructed
  <2>5. item \in Record /\ More(level) \in Record
    BY <2>2, <2>4, RecordFacts
  <2> QED
    BY <2>2, <2>3, <2>5
<1> HIDE DEF item
<1>2. PICK m1 \in Point : Run(text, Operand(level + 1), z, m1) /\ Run(text, b, m1, e)
  <2>1. level + 1 \in 1 .. 7
    OBVIOUS
  <2> QED
    BY <1>1, <2>1, ExprSeq, RunSplit DEF item
<1>3. PICK m2 \in Point : Act(text, item, m1, m2) /\ Act(text, More(level), m2, e)
  BY <1>1, <1>2, RunTwo
<1>4. Valued(text, z, m1)
  <2>1. level + 1 \in 1 .. 7
    OBVIOUS
  <2> QED
    BY <1>2, <2>1, OperandGoes
<1>5. PICK c0 \in Nat : m1[2] = Append(s[2], c0)
  BY <1>4 DEF Valued
<1>6. item.do = "build" /\ Arity(item) = 2
  <2>1. item.do = "build"
    BY BuildFields DEF item
  <2>2. /\ Arity(BuildOp("Binary", op)) = 2
        /\ Arity(BuildOp("Logical", op)) = 2
    BY OperatorNodes
  <2> QED
    BY <1>1, <2>1, <2>2 DEF item
<1>7. PICK base \in Seq(Nat), a \in Nat : s[2] = base \o <<a>>
  <2>1. PICK base \in Seq(Nat), q \in Seq(Nat) : m1[2] = base \o q /\ Len(q) = Takes(item)
    BY ONLY <1>3, ActHas
  <2>2. Len(q) = 2
    BY <1>6, <2>1, BuildFacts
  <2>3. s[2] \in Seq(Nat)
    BY PointFacts
  <2>4. PoppedTwo(s[2], c0, base, q)
    BY <1>5, <2>1, <2>2, <2>3, PopTwo
  <2> QED
    BY <2>4 DEF PoppedTwo
<1>8. text[a] \in Lines /\ s[1] \in Lines /\ s[2] \in Seq(Nat)
  BY TotalFacts, PointFacts
<1> DEFINE t1 == Cat(text[a], Tok(op))
<1>9. Track(s[1], text[a], z[1], t1)
  BY <1>1, <1>8, TokenRead, FixedFacts
<1> HIDE DEF t1
<1>10. PICK c \in Nat : m1[2] = Append(s[2], c) /\ Track(s[1], text[a], m1[1], Cat(t1, text[c]))
  <2>1. Gains(text, z[2], m1, s[1], text[a], t1)
    BY <1>4, <1>9, ValuedGoes
  <2> QED
    BY <2>1 DEF Gains
<1>11. m1[2] = base \o <<a, c>> /\ <<a, c>> \in Seq(Nat) /\ Len(<<a, c>>) = Arity(item)
  <2>1. <<a>> \in Seq(Nat) /\ Append(<<a>>, c) = <<a, c>>
    <3>1. Append(<<a>>, c) = <<a, c>>
      BY AppendTuple
    <3> QED
      BY <3>1
  <2>2. Append(base \o <<a>>, c) = base \o Append(<<a>>, c)
    BY <2>1, Pushed
  <2>3. <<a, c>> \in Seq(Nat) /\ Len(<<a, c>>) = 2
    OBVIOUS
  <2> QED
    BY <1>6, <1>7, <1>10, <2>1, <2>2, <2>3
<1>12. Wording(NodeOf(item, <<a, c>>), text) = Cat(t1, text[c])
  <2>1. CASE KindOf(op) = "Binary"
    <3>1. NodeOf(item, <<a, c>>) = Binary(op, a, c)
      BY <2>1, OperatorNodes DEF item
    <3> QED
      BY <3>1, ExpressionWords DEF t1
  <2>2. CASE KindOf(op) = "Logical"
    <3>1. NodeOf(item, <<a, c>>) = Logical(op, a, c)
      BY <2>2, OperatorNodes DEF item
    <3> QED
      BY <3>1, ExpressionWords DEF t1
  <2> QED
    BY <1>1, <2>1, <2>2
<1>13. Cat(t1, text[c]) \in Lines /\ Same(Cat(t1, text[c]), Cat(t1, text[c]))
  BY <1>10, SameFacts DEF Track
<1>14. Turns(text, item, base, m2, s[1], text[a])
  BY <1>3, <1>6, <1>10, <1>11, <1>12, <1>13, BuildGoes
<1>15. PICK k \in Nat : m2[2] = Append(base, k) /\ Track(s[1], text[a], m2[1], text[k])
  BY <1>14 DEF Turns
<1>16. /\ Plain(More(level)) /\ Takes(More(level)) = 1 /\ ~Made(More(level))
       /\ \A p : Before(text, More(level), p) = text[p[1]]
  <2>1. \A p : /\ Plain(More(level)) /\ Takes(More(level)) = 1
               /\ Before(text, More(level), p) = text[p[1]] /\ ~Made(More(level))
    BY TakeFacts
  <2> QED
    BY <2>1, Zenon
<1>17. /\ m2[2] = base \o <<k>> /\ <<k>> \in Seq(Nat) /\ Len(<<k>>) = Takes(More(level))
       /\ <<k>>[1] = k
  BY <1>15, <1>16, Stacked
<1>18. Turns(text, More(level), base, e, s[1], text[a])
  BY <1>3, <1>15, <1>16, <1>17, TakeGoes
<1>19. <<a>> \in Seq(Nat) /\ Len(<<a>>) = Takes(More(level)) /\ <<a>>[1] = a
  BY <1>16
<1>20. Single(More(level)) /\ Lead(More(level)) = <<>>
  BY <1>16 DEF Plain
<1>21. Before(text, More(level), <<a>>) = text[a]
  BY <1>16, <1>19
<1> QED
  BY <1>7, <1>18, <1>19, <1>20, <1>21, TurnsGives

LEMMA UnaryGoes ==
  ASSUME NEW text \in Total, NEW s \in Point, NEW z \in Point, NEW e \in Point,
         NEW op \in UnaryOp, z[1] = Cat(s[1], Tok(op)), z[2] = s[2],
         Run(text, <<Do("unary"), BuildOp("Unary", op)>>, z, e)
  PROVE  Act(text, Do("unary"), s, e)
<1> DEFINE item == BuildOp("Unary", op)
<1>1. op \in Operator /\ item \in Record /\ op \in STRING \cup Spelled
  <2>1. op \in Operator
    BY DEF Operator
  <2>2. "Unary" \in Constructed
    BY DEF Constructed
  <2> QED
    BY <2>1, <2>2, RecordFacts, FixedFacts
<1>2. PICK m \in Point : Act(text, Do("unary"), z, m) /\ Act(text, item, m, e)
  BY <1>1, DoRecords, RunTwo
<1> DEFINE t0 == Tok(op)
<1>3. s[2] \in Seq(Nat) /\ s[1] \in Lines /\ Track(s[1], <<>>, z[1], t0)
  BY <1>1, PointFacts, TokenRead
<1> HIDE DEF t0, item
<1>4. PICK i \in Nat : m[2] = Append(s[2], i) /\ Track(s[1], <<>>, m[1], Cat(t0, text[i]))
  <2>1. Adds(text, Do("unary"), z[2], m, s[1], <<>>, t0)
    BY <1>2, <1>3, PushGoes, PushFacts
  <2> QED
    BY <2>1 DEF Adds
<1>5. /\ Arity(item) = 1 /\ NodeOf(item, <<i>>) = Unary(op, i) /\ item.do = "build"
  BY OperatorNodes, BuildFields DEF item
<1>6. Wording(NodeOf(item, <<i>>), text) = Cat(t0, text[i])
  BY <1>5, ExpressionWords DEF t0
<1>7. Cat(t0, text[i]) \in Lines /\ Same(Cat(t0, text[i]), Cat(t0, text[i]))
  BY <1>4, SameFacts DEF Track
<1>8. m[2] = s[2] \o <<i>> /\ <<i>> \in Seq(Nat) /\ Len(<<i>>) = Arity(item)
  BY <1>3, <1>4, <1>5, Stacked
<1>9. Turns(text, item, s[2], e, s[1], <<>>)
  BY <1>2, <1>3, <1>4, <1>5, <1>6, <1>7, <1>8, BuildGoes
<1>10. /\ Single(Do("unary")) /\ Lead(Do("unary")) = <<>> /\ Takes(Do("unary")) = 0
       /\ Before(text, Do("unary"), <<>>) = <<>> /\ ~Made(Do("unary"))
  BY PushFacts DEF Pushes, Plain
<1> QED
  BY <1>9, <1>10, WholeGives

LEMMA OperandFirst ==
  ASSUME NEW text \in Total, NEW s \in Point, NEW e \in Point,
         Run(text, <<Do("primary"), Do("calls")>>, s, e)
  PROVE  Act(text, Do("unary"), s, e)
<1>1. PICK m \in Point : Act(text, Do("primary"), s, m) /\ Act(text, Do("calls"), m, e)
  BY DoRecords, RunTwo
<1>2. Valued(text, s, m)
  BY <1>1, PushFacts, FirstValued
<1>3. /\ Plain(Do("calls")) /\ Takes(Do("calls")) = 1
      /\ \A p : Before(text, Do("calls"), p) = text[p[1]]
  BY TakeFacts
<1>4. Valued(text, s, e)
  BY <1>1, <1>2, <1>3, NextValued
<1>5. /\ Single(Do("unary")) /\ Lead(Do("unary")) = <<>> /\ Takes(Do("unary")) = 0
      /\ Before(text, Do("unary"), <<>>) = <<>> /\ ~Made(Do("unary"))
  BY PushFacts DEF Pushes, Plain
<1> QED
  BY <1>4, <1>5, ValuedGives

LEMMA GroupGoes ==
  ASSUME NEW text \in Total, NEW s \in Point, NEW z \in Point, NEW e \in Point,
         z[1] = Cat(s[1], Tok("LParen")), z[2] = s[2],
         Run(text, Expr \o <<Consume("RParen"), Build("Grouping")>>, z, e)
  PROVE  Act(text, Do("primary"), s, e)
<1> DEFINE item == Build("Grouping")
<1>1. <<Consume("RParen"), item>> \in Seq(Record)
  BY TokenRecords, BuildRecords
<1>2. PICK m1 \in Point : Run(text, Expr, z, m1) /\ Run(text, <<Consume("RParen"), item>>, m1, e)
  BY <1>1, ExprSeq, RunSplit
<1>3. PICK m2 \in Point : Act(text, Consume("RParen"), m1, m2) /\ Act(text, item, m2, e)
  BY <1>2, TokenRecords, BuildRecords, RunTwo
<1> DEFINE t0 == Tok("LParen")
<1>4. s[2] \in Seq(Nat) /\ Track(s[1], <<>>, z[1], t0)
  BY PointFacts, TokenRead, FixedFacts
<1> HIDE DEF t0, item
<1>5. PICK i \in Nat : m1[2] = Append(s[2], i) /\ Track(s[1], <<>>, m1[1], Cat(t0, text[i]))
  <2>1. Valued(text, z, m1)
    BY <1>2, ExprGoes
  <2>2. Gains(text, z[2], m1, s[1], <<>>, t0)
    BY <1>4, <2>1, ValuedGoes
  <2> QED
    BY <2>2 DEF Gains
<1> DEFINE t1 == Cat(t0, text[i])
<1>6. m2[2] = m1[2] /\ Track(s[1], <<>>, m2[1], Cat(t1, Tok("RParen")))
  <2>1. Passes("RParen", m1, m2, s[1], <<>>, t1)
    BY <1>3, <1>5, ConsumeGoes, FixedFacts
  <2> QED
    BY <2>1 DEF Passes
<1>7. /\ Arity(item) = 1 /\ NodeOf(item, <<i>>) = Grouping(i) /\ item.do = "build"
  BY BuildNodes, BuildFields DEF item
<1>8. Wording(NodeOf(item, <<i>>), text) = Cat(t1, Tok("RParen"))
  BY <1>7, ExpressionWords DEF t0
<1> HIDE DEF t1
<1>9. Cat(t1, Tok("RParen")) \in Lines /\ Same(Cat(t1, Tok("RParen")), Cat(t1, Tok("RParen")))
  BY <1>6, SameFacts DEF Track
<1>10. m2[2] = s[2] \o <<i>> /\ <<i>> \in Seq(Nat) /\ Len(<<i>>) = Arity(item)
  BY <1>4, <1>5, <1>6, <1>7, Stacked
<1>11. Turns(text, item, s[2], e, s[1], <<>>)
  BY <1>3, <1>4, <1>6, <1>7, <1>8, <1>9, <1>10, BuildGoes
<1>12. /\ Single(Do("primary")) /\ Lead(Do("primary")) = <<>> /\ Takes(Do("primary")) = 0
       /\ Before(text, Do("primary"), <<>>) = <<>> /\ ~Made(Do("primary"))
  BY PushFacts DEF Pushes, Plain
<1> QED
  BY <1>11, <1>12, WholeGives

LEMMA CallGoes ==
  ASSUME NEW text \in Total, NEW s \in Point, NEW z \in Point, NEW e \in Point,
         z[1] = Cat(s[1], Tok("LParen")), z[2] = s[2], Run(text, <<Do("args")>>, z, e)
  PROVE  Act(text, Do("calls"), s, e)
<1>1. Act(text, Do("args"), z, e)
  BY DoRecords, RunOne
<1>2. Plain(Do("args")) /\ Takes(Do("args")) = 1
  BY TakeFacts
<1>3. PICK base \in Seq(Nat), p \in Seq(Nat) : s[2] = base \o p /\ Len(p) = 1
  <2>1. PICK base \in Seq(Nat), p \in Seq(Nat) : z[2] = base \o p /\ Len(p) = Takes(Do("args"))
    BY ONLY <1>1, ActHas
  <2> QED
    BY <1>2, <2>1
<1>4. PICK a \in Nat : p = <<a>>
  BY <1>3, SeqOne
<1>5. Before(text, Do("args"), p) = Cat(text[a], Tok("LParen"))
  BY <1>4, TakeFacts, OpeningFirst
<1>6. s[1] \in Lines /\ text[a] \in Lines
  BY PointFacts, TotalFacts
<1>7. Track(s[1], text[a], z[1], Cat(text[a], Tok("LParen")))
  BY <1>6, TokenRead, FixedFacts
<1>8. Turns(text, Do("args"), base, e, s[1], text[a])
  BY <1>1, <1>2, <1>3, <1>5, <1>7, TakeGoes
<1>9. /\ Plain(Do("calls")) /\ Takes(Do("calls")) = 1 /\ ~Made(Do("calls"))
      /\ Before(text, Do("calls"), p) = text[a]
  <2>1. p[1] = a
    BY <1>4
  <2> QED
    BY <2>1, TakeFacts
<1>10. Single(Do("calls")) /\ Lead(Do("calls")) = <<>>
  BY <1>9 DEF Plain
<1> QED
  BY <1>3, <1>8, <1>9, <1>10, TurnsGives

LEMMA AssignGoes ==
  ASSUME NEW text \in Total, NEW s \in Point, NEW z \in Point, NEW e \in Point,
         z[1] = Cat(s[1], Tok("Equal")), z[2] = s[2], Run(text, Expr \o <<Do("assignTo")>>, z, e)
  PROVE  Act(text, Do("assign"), s, e)
<1> DEFINE item == Do("assignTo")
<1>1. <<item>> \in Seq(Record)
  BY DoRecords
<1>2. PICK m \in Point : Run(text, Expr, z, m) /\ Run(text, <<item>>, m, e)
  BY <1>1, ExprSeq, RunSplit
<1>3. Act(text, item, m, e)
  BY <1>2, DoRecords, RunOne
<1>4. Valued(text, z, m)
  BY <1>2, ExprGoes
<1>5. PICK c0 \in Nat : m[2] = Append(s[2], c0)
  BY <1>4 DEF Valued
<1>6. Plain(item) /\ Takes(item) = 2
  BY TakeFacts
<1> HIDE DEF item
<1>7. PICK base \in Seq(Nat), a \in Nat : s[2] = base \o <<a>>
  <2>1. PICK base \in Seq(Nat), q \in Seq(Nat) : m[2] = base \o q /\ Len(q) = Takes(item)
    BY ONLY <1>3, ActHas
  <2>2. s[2] \in Seq(Nat)
    BY PointFacts
  <2>3. PoppedTwo(s[2], c0, base, q)
    BY <1>5, <1>6, <2>1, <2>2, PopTwo
  <2> QED
    BY <2>3 DEF PoppedTwo
<1>8. text[a] \in Lines /\ s[1] \in Lines
  BY TotalFacts, PointFacts
<1> DEFINE t1 == Cat(text[a], Tok("Equal"))
<1>9. Track(s[1], text[a], z[1], t1)
  BY <1>8, TokenRead, FixedFacts
<1> HIDE DEF t1
<1>10. PICK c \in Nat : m[2] = Append(s[2], c) /\ Track(s[1], text[a], m[1], Cat(t1, text[c]))
  <2>1. Gains(text, z[2], m, s[1], text[a], t1)
    BY <1>4, <1>9, ValuedGoes
  <2> QED
    BY <2>1 DEF Gains
<1>11. m[2] = base \o <<a, c>> /\ <<a, c>> \in Seq(Nat) /\ Len(<<a, c>>) = Takes(item)
  <2>1. <<a>> \in Seq(Nat) /\ Append(<<a>>, c) = <<a, c>>
    <3>1. Append(<<a>>, c) = <<a, c>>
      BY AppendTuple
    <3> QED
      BY <3>1
  <2>2. Append(base \o <<a>>, c) = base \o Append(<<a>>, c)
    BY <2>1, Pushed
  <2>3. <<a, c>> \in Seq(Nat) /\ Len(<<a, c>>) = 2
    OBVIOUS
  <2> QED
    BY <1>6, <1>7, <1>10, <2>1, <2>2, <2>3
<1>12. Before(text, item, <<a, c>>) = Cat(t1, text[c])
  <2>1. <<a, c>>[1] = a /\ <<a, c>>[2] = c
    OBVIOUS
  <2> QED
    BY <2>1, TakeFacts DEF item, t1
<1>13. Turns(text, item, base, e, s[1], text[a])
  BY <1>3, <1>6, <1>10, <1>11, <1>12, TakeGoes
<1>14. /\ Plain(Do("assign")) /\ Takes(Do("assign")) = 1 /\ ~Made(Do("assign"))
       /\ Before(text, Do("assign"), <<a>>) = text[a] /\ <<a>> \in Seq(Nat) /\ Len(<<a>>) = 1
  <2>1. <<a>>[1] = a /\ <<a>> \in Seq(Nat) /\ Len(<<a>>) = 1
    OBVIOUS
  <2> QED
    BY <2>1, TakeFacts
<1>15. Single(Do("assign")) /\ Lead(Do("assign")) = <<>>
  BY <1>14 DEF Plain
<1> QED
  BY <1>7, <1>13, <1>14, <1>15, TurnsGives

(***************************************************************************)
(* Arguments and parameters.                                               *)
(***************************************************************************)

\* A record that asks for no more than another one does.
LEMMA LikeAct ==
  ASSUME NEW text, NEW a, NEW b, Single(a), Single(b), Takes(a) = Takes(b),
         \A p : Before(text, a, p) = Before(text, b, p), Made(b) => Made(a),
         Lead(a) = Lead(b), Skipped(a) = {}, NEW s, NEW e, Act(text, a, s, e)
  PROVE  Act(text, b, s, e)
<1>1. PICK base \in Seq(Nat), p \in Seq(Nat), y \in Lines :
        /\ s[2] = base \o p /\ Len(p) = Takes(a) /\ e[1] = Cat(s[1], y)
        /\ Leaves(text, a, base, p, y, e[2])
  BY DEF Act
<1>2. PICK k \in Nat : e[2] = Append(base, k) /\ Stands(text, a, p, y, k)
  BY <1>1, SingleLeaves
<1>3. Stands(text, b, p, y, k)
  BY <1>2 DEF Stands
<1>4. Leaves(text, b, base, p, y, e[2])
  BY <1>2, <1>3, SingleLeaves
<1> QED
  BY <1>1, <1>4 DEF Act

LEMMA OpeningMore ==
  ASSUME NEW text \in Total, NEW of \in {"params", "args"}, NEW p \in Seq(Nat), NEW n \in Nat,
         Len(p) = n + 1, NEW k \in Nat
  PROVE  /\ Append(p, k)[1] = p[1]
         /\ Tail(p) \in Seq(Nat) /\ Tail(Append(p, k)) = Append(Tail(p), k)
         /\ Opening(text, of, p) \in Lines
         /\ Before(text, Item(of, n), p) \in Lines
         /\ Opening(text, of, Append(p, k)) =
              Cat(Before(text, Item(of, n), p), IF of = "params" THEN Nm(k) ELSE text[k])
<1>1. p # <<>>
  <2>1. Len(<<>>) = 0 /\ n + 1 # 0
    OBVIOUS
  <2> QED
    BY <2>1
<1>2. Tail(p) \in Seq(Nat) /\ Tail(Append(p, k)) = Append(Tail(p), k) /\ Len(Tail(p)) = n
  <2>1. Tail(Append(p, k)) = Append(Tail(p), k)
    BY <1>1, HeadTailAppend
  <2>2. Tail(p) \in Seq(Nat) /\ Len(Tail(p)) = Len(p) - 1
    BY <1>1, HeadTailProperties
  <2> QED
    BY <2>1, <2>2
<1>3. Append(p, k)[1] = p[1]
  <2>1. 1 \in 1 .. Len(p)
    OBVIOUS
  <2> QED
    BY <2>1, AppendProperties
<1>4. Opening(text, of, p) \in Lines
  BY <1>1, OpeningLines
<1>5. Before(text, Item(of, n), p) = IF n = 0 THEN Opening(text, of, p)
                                     ELSE Cat(Opening(text, of, p), Tok("Comma"))
  BY ListFacts
<1>6. Before(text, Item(of, n), p) \in Lines
  BY <1>4, <1>5, Spellings, CatClosed
<1> DEFINE f == IF of = "params" THEN Names ELSE text
           v == IF of = "params" THEN Nm(k) ELSE text[k]
           h == Cat(IF of = "params" THEN Cat(Tok("Function"), Nm(p[1])) ELSE text[p[1]], Tok("LParen"))
           l == Listed(Image(f, Tail(p)))
<1>7. f \in [Nat -> Lines] /\ f[k] = v
  BY NamesFacts, TotalFacts DEF Names
<1>8. h \in Lines
  <2>1. p[1] \in Nat
    BY <1>1, HeadTailProperties
  <2>2. Nm(p[1]) \in Lines /\ text[p[1]] \in Lines
    BY <2>1, Lined, TotalFacts
  <2>3. Cat(Tok("Function"), Nm(p[1])) \in Lines
    BY <2>2, Spellings, CatClosed
  <2> QED
    BY <2>2, <2>3, Spellings, CatClosed
<1>9. Opening(text, of, p) = Cat(h, l)
  BY DEF Opening
<1>10. Opening(text, of, Append(p, k)) = Cat(h, Listed(Image(f, Append(Tail(p), k))))
  BY <1>2, <1>3 DEF Opening
<1> HIDE DEF f, h
<1>11. /\ Image(f, Append(Tail(p), k)) = Append(Image(f, Tail(p)), v)
       /\ Image(f, Tail(p)) \in Seq(Lines) /\ Len(Image(f, Tail(p))) = n
  <2> HIDE DEF v
  <2> DEFINE q == Tail(p)
  <2>1. q \in Seq(Nat) /\ Len(q) = n
    BY <1>2
  <2> HIDE DEF q
  <2>2. Image(f, Append(q, k)) = Append(Image(f, q), f[k])
    BY <1>7, <2>1, ImageFacts
  <2>3. Image(f, q) \in Seq(Lines) /\ Len(Image(f, q)) = Len(q)
    BY <1>7, <2>1, ImageFacts
  <2> QED
    BY <1>7, <2>1, <2>2, <2>3 DEF q
<1>12. v \in Lines /\ l \in Lines
  BY <1>7, <1>11, ListedFacts
<1> HIDE DEF v
<1>13. Listed(Append(Image(f, Tail(p)), v))
         = Cat(IF Image(f, Tail(p)) = <<>> THEN l ELSE Cat(l, Tok("Comma")), v)
  BY <1>11, <1>12, ListedFacts
<1>14. Image(f, Tail(p)) = <<>> <=> n = 0
  BY <1>11, EmptySeq
<1> HIDE DEF l
<1>15. CASE n = 0
  <2>1. Cat(h, Cat(l, v)) = Cat(Cat(h, l), v)
    BY <1>8, <1>12, CatAssoc
  <2> QED
    BY <1>2, <1>3, <1>4, <1>5, <1>6, <1>9, <1>10, <1>11, <1>13, <1>14, <1>15, <2>1 DEF v
<1>16. CASE n # 0
  <2>1. Cat(l, Tok("Comma")) \in Lines /\ Tok("Comma") \in Lines
    BY <1>12, Spellings, CatClosed
  <2>2. Cat(h, Cat(Cat(l, Tok("Comma")), v)) = Cat(Cat(h, Cat(l, Tok("Comma"))), v)
    BY <1>8, <1>12, <2>1, CatAssoc
  <2>3. Cat(h, Cat(l, Tok("Comma"))) = Cat(Cat(h, l), Tok("Comma"))
    BY <1>8, <1>12, <2>1, CatAssoc
  <2> QED
    BY <1>2, <1>3, <1>4, <1>5, <1>6, <1>9, <1>10, <1>11, <1>13, <1>14, <1>16, <2>2, <2>3 DEF v
<1> QED
  BY <1>15, <1>16

LEMMA FrontAppend ==
  ASSUME NEW q \in Seq(Nat), NEW k \in Nat
  PROVE  Front(Append(q, k)) = q /\ Last(Append(q, k)) = k
<1> DEFINE s == Append(q, k)
<1>1. s \in Seq(Nat) /\ Len(s) = Len(q) + 1 /\ s[Len(q) + 1] = k
      /\ \A i \in 1 .. Len(q) : s[i] = q[i]
  BY AppendProperties
<1> HIDE DEF s
<1>2. s # <<>> /\ Len(q) \in Nat
  BY <1>1
<1>3. Last(s) = k
  BY <1>1 DEF Last
<1>4. Front(s) = q
  <2>1. Front(s) \in Seq(Nat) /\ Len(Front(s)) = Len(s) - 1 /\ \A i \in 1 .. Len(s) - 1 : Front(s)[i] = s[i]
    BY <1>1, <1>2, FrontFacts
  <2> QED
    BY <1>1, <1>2, <2>1, SeqEqual
<1> QED
  BY <1>3, <1>4 DEF s

\* The list has come to its end, and what is made of it has been read.
Ended(text, of, n, s, e) ==
  \E base, p \in Seq(Nat), last \in Record :
    /\ s[2] = base \o p /\ Len(p) = n + 1
    /\ of = "params" => Made(last)
    /\ Turns(text, last, base, e, s[1], Opening(text, of, p))

LEMMA ArgsEnd ==
  ASSUME NEW text \in Total, NEW s \in Point, NEW e \in Point, NEW n \in Nat,
         Run(text, <<Consume("RParen"), BuildList("Call", n), Do("calls")>>, s, e)
  PROVE  Ended(text, "args", n, s, e)
<1> DEFINE item == BuildList("Call", n)
<1>1. PICK m1, m2 \in Point : /\ Act(text, Consume("RParen"), s, m1) /\ Act(text, item, m1, m2)
                              /\ Act(text, Do("calls"), m2, e)
  BY TokenRecords, BuildRecords, DoRecords, RunThree
<1>2. item.do = "build" /\ Arity(item) = 1 + n
  BY BuildFields, ListNodes
<1>3. \A p : NodeOf(item, p) = CallExpr(p[1], Tail(p))
  BY ListNodes
<1> HIDE DEF item
<1>4. PICK base \in Seq(Nat), p \in Seq(Nat) : m1[2] = base \o p /\ Len(p) = Takes(item)
  BY ONLY <1>1, ActHas
<1>5. Len(p) = n + 1 /\ Len(p) = Arity(item)
  <2>1. Takes(item) = Arity(item)
    BY <1>2, BuildFacts
  <2> QED
    BY <1>2, <1>4, <2>1
<1>6. p # <<>>
  BY <1>5
<1> DEFINE t0 == Opening(text, "args", p)
<1>7. t0 \in Lines /\ s[1] \in Lines
  BY <1>6, OpeningLines, PointFacts
<1>8. Track(s[1], t0, s[1], t0)
  BY <1>7, TrackStart
<1>9. m1[2] = s[2] /\ Track(s[1], t0, m1[1], Cat(t0, Tok("RParen")))
  <2> HIDE DEF t0
  <2>1. Passes("RParen", s, m1, s[1], t0, t0)
    BY <1>1, <1>8, ConsumeGoes, FixedFacts
  <2> QED
    BY <2>1 DEF Passes
<1>10. Wording(NodeOf(item, p), text) = Cat(t0, Tok("RParen"))
  BY <1>3, ExpressionWords DEF Opening
<1> HIDE DEF t0
<1>11. Cat(t0, Tok("RParen")) \in Lines /\ Same(Cat(t0, Tok("RParen")), Cat(t0, Tok("RParen")))
  BY <1>9, SameFacts DEF Track
<1>12. Turns(text, item, base, m2, s[1], t0)
  BY <1>1, <1>2, <1>4, <1>5, <1>9, <1>10, <1>11, BuildGoes
<1>13. PICK k \in Nat : m2[2] = Append(base, k) /\ Track(s[1], t0, m2[1], text[k])
  BY <1>12 DEF Turns
<1>14. /\ m2[2] = base \o <<k>> /\ <<k>> \in Seq(Nat) /\ Len(<<k>>) = 1 /\ <<k>>[1] = k
  BY <1>13, Stacked
<1>15. /\ Plain(Do("calls")) /\ Takes(Do("calls")) = 1
       /\ Before(text, Do("calls"), <<k>>) = text[k]
  BY <1>14, TakeFacts
<1>16. Turns(text, Do("calls"), base, e, s[1], t0)
  BY <1>1, <1>13, <1>14, <1>15, TakeGoes
<1>17. Do("calls") \in Record /\ "args" # "params"
  BY DoRecords
<1> QED
  BY <1>4, <1>5, <1>9, <1>16, <1>17 DEF Ended, t0

LEMMA ParamsEnd ==
  ASSUME NEW text \in Total, NEW s \in Point, NEW e \in Point, NEW n \in Nat,
         Run(text, <<Consume("RParen"), Consume("LBrace"), Statements("Block", 0),
                     BuildList("FuncDecl", n)>>, s, e)
  PROVE  Ended(text, "params", n, s, e)
<1> DEFINE item == BuildList("FuncDecl", n)
           block == Statements("Block", 0)
<1>0. item \in Record /\ block \in Record
  BY BuildRecords, RecordFacts
<1>1. PICK m1, m2, m3 \in Point :
        /\ Act(text, Consume("RParen"), s, m1) /\ Act(text, Consume("LBrace"), m1, m2)
        /\ Act(text, block, m2, m3) /\ Act(text, item, m3, e)
  BY <1>0, TokenRecords, RunFour
<1>2. item.do = "build" /\ Arity(item) = 2 + n
  BY BuildFields, ListNodes
<1>3. \A p : NodeOf(item, p) = FuncDecl(p[1], Front(Tail(p)), Last(p))
  BY ListNodes
<1>4. Plain(block) /\ Takes(block) = 0 /\ Before(text, block, <<>>) = Tok("LBrace")
  <2>1. Before(text, block, <<>>) = Cat(Tok("LBrace"), Flat(text, <<>>))
    BY ListFacts
  <2>2. Cat(Tok("LBrace"), Flat(text, <<>>)) = Tok("LBrace")
    BY TotalFacts, FlatFacts, Spellings, CatNothing
  <2> QED
    BY <2>1, <2>2, ListFacts
<1> HIDE DEF item, block
<1>5. m1[2] = s[2] /\ m2[2] = s[2] /\ s[2] \in Seq(Nat) /\ s[1] \in Lines /\ m1[1] \in Lines
  <2>1. s[2] \in Seq(Nat) /\ s[1] \in Lines /\ m1[1] \in Lines
    BY PointFacts
  <2>2. Track(s[1], <<>>, s[1], <<>>) /\ Track(m1[1], <<>>, m1[1], <<>>)
    BY <2>1, CatNothing, TrackStart
  <2>3. Passes("RParen", s, m1, s[1], <<>>, <<>>)
    BY <1>1, <2>2, ConsumeGoes, FixedFacts
  <2>4. Passes("LBrace", m1, m2, m1[1], <<>>, <<>>)
    BY <1>1, <2>2, ConsumeGoes, FixedFacts
  <2> QED
    BY <2>1, <2>3, <2>4 DEF Passes
<1>6. Valued(text, m1, m3)
  <2>1. Track(m1[1], <<>>, m1[1], <<>>)
    BY <1>5, CatNothing, TrackStart
  <2>2. Track(m1[1], <<>>, m2[1], Cat(<<>>, Tok("LBrace")))
    <3>1. Passes("LBrace", m1, m2, m1[1], <<>>, <<>>)
      BY <1>1, <2>1, ConsumeGoes, FixedFacts
    <3> QED
      BY <3>1 DEF Passes
  <2>3. Cat(<<>>, Tok("LBrace")) = Tok("LBrace")
    BY Spellings, CatNothing
  <2>4. m2[2] = m1[2] \o <<>> /\ <<>> \in Seq(Nat) /\ Len(<<>>) = Takes(block) /\ m1[2] \in Seq(Nat)
    BY <1>4, <1>5, Pushed
  <2>5. Turns(text, block, m1[2], m3, m1[1], <<>>)
    BY <1>1, <1>4, <2>2, <2>3, <2>4, TakeGoes
  <2> QED
    BY <2>5 DEF Turns, Valued
<1>7. PICK j0 \in Nat : m3[2] = Append(s[2], j0)
  BY <1>5, <1>6 DEF Valued
<1>8. PICK base \in Seq(Nat), q \in Seq(Nat) : m3[2] = base \o q /\ Len(q) = Takes(item)
  BY ONLY <1>1, ActHas
<1>9. Len(q) = Arity(item) /\ Len(q) = (n + 1) + 1 /\ n + 1 \in Nat
  BY <1>2, <1>8, BuildFacts, SMTT(20)
<1>10. PICK p \in Seq(Nat) : q = Append(p, j0) /\ s[2] = base \o p /\ Len(p) = n + 1
  <2>1. Popped(s[2], j0, base, q, n + 1)
    BY <1>5, <1>7, <1>8, <1>9, PopOne
  <2> QED
    BY <2>1 DEF Popped
<1> DEFINE t0 == Opening(text, "params", p)
<1>11. t0 \in Lines
  BY <1>10, OpeningMore
<1>12. Track(s[1], t0, m1[1], Cat(t0, Tok("RParen")))
  <2> HIDE DEF t0
  <2>1. Track(s[1], t0, s[1], t0)
    BY <1>5, <1>11, TrackStart
  <2>2. Passes("RParen", s, m1, s[1], t0, t0)
    BY <1>1, <2>1, ConsumeGoes, FixedFacts
  <2> QED
    BY <2>2 DEF Passes
<1> DEFINE t1 == Cat(t0, Tok("RParen"))
<1> HIDE DEF t0
<1>13. PICK j \in Nat : m3[2] = Append(m1[2], j) /\ Track(s[1], t0, m3[1], Cat(t1, text[j]))
  <2>1. Gains(text, m1[2], m3, s[1], t0, t1)
    BY <1>6, <1>12, ValuedGoes
  <2> QED
    BY <2>1 DEF Gains
<1>14. m3[2] = base \o Append(p, j) /\ Append(p, j) \in Seq(Nat) /\ Len(Append(p, j)) = Arity(item)
  <2>1. Append(base \o p, j) = base \o Append(p, j)
    BY Pushed
  <2>2. Append(p, j) \in Seq(Nat) /\ Len(Append(p, j)) = Len(p) + 1
    BY AppendProperties
  <2> QED
    BY <1>5, <1>9, <1>10, <1>13, <2>1, <2>2
<1>15. Wording(NodeOf(item, Append(p, j)), text) = Cat(t1, text[j])
  <2>1. /\ Append(p, j)[1] = p[1] /\ Tail(Append(p, j)) = Append(Tail(p), j)
        /\ Tail(p) \in Seq(Nat)
    BY <1>10, OpeningMore
  <2>2. Front(Append(Tail(p), j)) = Tail(p) /\ Last(Append(p, j)) = j
    BY <1>10, <2>1, FrontAppend
  <2>3. p[1] \in Nat
    <3>1. 1 \in 1 .. Len(p)
      BY <1>10
    <3> QED
      BY <3>1
  <2>4. NodeOf(item, Append(p, j)) = FuncDecl(p[1], Tail(p), j)
    BY <1>3, <2>1, <2>2
  <2>5. t0 = Cat(Cat(Cat(Tok("Function"), Nm(p[1])), Tok("LParen")), Listed(Image(Names, Tail(p))))
    BY DEF t0, Opening
  <2>6. Wording(FuncDecl(p[1], Tail(p), j), text)
          = Cat(Cat(Cat(Cat(Cat(Tok("Function"), Nm(p[1])), Tok("LParen")),
                        Listed(Image(Names, Tail(p)))), Tok("RParen")), text[j])
    <3> DEFINE m == p[1]
               q1 == Tail(p)
    <3>1. m \in Nat /\ q1 \in Seq(Nat)
      BY <2>1, <2>3
    <3> HIDE DEF m, q1
    <3>2. \A i \in Nat, r \in Seq(Nat) : \A b : Wording(FuncDecl(i, r, b), text)
            = Cat(Cat(Cat(Cat(Cat(Tok("Function"), Nm(i)), Tok("LParen")), Listed(Image(Names, r))),
                      Tok("RParen")), text[b])
      BY StatementWords
    <3>3. Wording(FuncDecl(m, q1, j), text)
            = Cat(Cat(Cat(Cat(Cat(Tok("Function"), Nm(m)), Tok("LParen")), Listed(Image(Names, q1))),
                      Tok("RParen")), text[j])
      BY <3>1, <3>2
    <3> QED
      BY <3>3 DEF m, q1
  <2> QED
    BY <2>4, <2>5, <2>6 DEF t1
<1> HIDE DEF t1
<1>16. Cat(t1, text[j]) \in Lines /\ Same(Cat(t1, text[j]), Cat(t1, text[j]))
  BY <1>13, SameFacts DEF Track
<1>17. Turns(text, item, base, e, s[1], t0)
  BY <1>1, <1>2, <1>13, <1>14, <1>15, <1>16, BuildGoes
<1>18. Made(item)
  BY <1>2, BuildFacts
<1> QED
  BY <1>0, <1>10, <1>17, <1>18 DEF Ended, t0

LEMMA RestGoes ==
  ASSUME NEW text \in Total, NEW of \in {"params", "args"}, NEW n \in Nat,
         NEW s \in Point, NEW e \in Point, Run(text, Rest(of, n), s, e)
  PROVE  Ended(text, of, n, s, e)
<1>1. CASE of = "params"
  <2>1. Rest(of, n) = <<Consume("RParen"), Consume("LBrace"), Statements("Block", 0),
                        BuildList("FuncDecl", n)>>
    BY <1>1 DEF Rest
  <2>2. Run(text, <<Consume("RParen"), Consume("LBrace"), Statements("Block", 0),
                    BuildList("FuncDecl", n)>>, s, e)
    BY <2>1
  <2> QED
    BY <1>1, <2>2, ParamsEnd
<1>2. CASE of = "args"
  <2>1. Rest(of, n) = <<Consume("RParen"), BuildList("Call", n), Do("calls")>>
    BY <1>2 DEF Rest
  <2>2. Run(text, <<Consume("RParen"), BuildList("Call", n), Do("calls")>>, s, e)
    BY <2>1
  <2> QED
    BY <1>2, <2>2, ArgsEnd
<1> QED
  BY <1>1, <1>2

\* There were no arguments or parameters.
LEMMA NoneGoes ==
  ASSUME NEW text \in Total, NEW of \in {"params", "args"},
         NEW s \in Point, NEW e \in Point, Run(text, Rest(of, 0), s, e)
  PROVE  Act(text, Do(of), s, e)
<1>1. Ended(text, of, 0, s, e)
  BY RestGoes
<1>2. PICK base \in Seq(Nat), p \in Seq(Nat), last \in Record :
        /\ s[2] = base \o p /\ Len(p) = 1
        /\ of = "params" => Made(last)
        /\ Turns(text, last, base, e, s[1], Opening(text, of, p))
  <2>1. 0 + 1 = 1
    OBVIOUS
  <2> QED
    BY <1>1, <2>1, Zenon DEF Ended
<1>3. /\ Plain(Do(of)) /\ Takes(Do(of)) = 1 /\ Before(text, Do(of), p) = Opening(text, of, p)
      /\ (Made(Do(of)) <=> of = "params")
  BY TakeFacts
<1>4. Single(Do(of)) /\ Lead(Do(of)) = <<>>
  BY <1>3 DEF Plain
<1> QED
  BY <1>2, <1>3, <1>4, TurnsGives

\* The last of them has been read.
LEMMA EndGoes ==
  ASSUME NEW text \in Total, NEW of \in {"params", "args"}, NEW n \in Nat,
         NEW s \in Point, NEW e \in Point, Run(text, Rest(of, n), s, e)
  PROVE  Act(text, Comma(of, n), s, e)
<1>1. Ended(text, of, n, s, e)
  BY RestGoes
<1>2. PICK base \in Seq(Nat), p \in Seq(Nat), last \in Record :
        /\ s[2] = base \o p /\ Len(p) = n + 1
        /\ of = "params" => Made(last)
        /\ Turns(text, last, base, e, s[1], Opening(text, of, p))
  BY <1>1 DEF Ended
<1>3. /\ Takes(Comma(of, n)) = n + 1 /\ (Made(Comma(of, n)) <=> of = "params")
      /\ Before(text, Comma(of, n), p) = Opening(text, of, p)
      /\ n # 0 => Plain(Comma(of, n))
  BY ListFacts, SMTT(20)
<1>4. CASE n # 0
  <2>1. Single(Comma(of, n)) /\ Lead(Comma(of, n)) = <<>>
    BY <1>3, <1>4 DEF Plain
  <2> QED
    BY <1>2, <1>3, <2>1, TurnsGives
<1>5. CASE n = 0
  <2>1. PICK y \in Lines : e[1] = Cat(s[1], y)
    BY <1>2 DEF Turns, Track
  <2>2. Leaves(text, Comma(of, n), base, p, y, e[2])
    BY <1>5 DEF Leaves, Comma
  <2> QED
    BY <1>2, <1>3, <2>1, <2>2 DEF Act
<1> QED
  BY <1>4, <1>5

LEMMA ItemFirst ==
  ASSUME NEW text \in Total, NEW of \in {"params", "args"},
         NEW s \in Point, NEW e \in Point, Run(text, <<Item(of, 0)>>, s, e)
  PROVE  Act(text, Do(of), s, e)
<1> DEFINE item == Item(of, 0)
           call == Do(of)
<1>1. Act(text, item, s, e)
  BY RecordFacts, RunOne
<1>2. /\ Plain(item) /\ Takes(item) = 1 /\ (Made(item) <=> of = "params")
      /\ \A p : Before(text, item, p) = Opening(text, of, p)
  BY ListFacts
<1>3. /\ Plain(call) /\ Takes(call) = 1 /\ (Made(call) <=> of = "params")
      /\ \A p : Before(text, call, p) = Opening(text, of, p)
  BY TakeFacts
<1> HIDE DEF item, call
<1>4. /\ Single(item) /\ Lead(item) = <<>> /\ Skipped(item) = {}
      /\ Single(call) /\ Lead(call) = <<>>
  BY <1>2, <1>3 DEF Plain
<1>5. Act(text, call, s, e)
  BY <1>1, <1>2, <1>3, <1>4, LikeAct
<1> QED
  BY <1>5 DEF call

LEMMA CommaGoes ==
  ASSUME NEW text \in Total, NEW of \in {"params", "args"}, NEW n \in Nat,
         NEW s \in Point, NEW z \in Point, NEW e \in Point,
         z[1] = Cat(s[1], Tok("Comma")), z[2] = s[2], Run(text, <<Item(of, n)>>, z, e)
  PROVE  Act(text, Comma(of, n), s, e)
<1> DEFINE item == Item(of, n)
           comma == Comma(of, n)
<1>1. Act(text, item, z, e)
  BY RecordFacts, RunOne
<1>2. /\ Plain(item) /\ Takes(item) = n + 1 /\ Takes(comma) = n + 1
      /\ (Made(item) <=> of = "params")
      /\ (Made(comma) <=> of = "params")
      /\ n # 0 => Plain(comma)
  BY ListFacts
<1>3. PICK base \in Seq(Nat), p \in Seq(Nat) : s[2] = base \o p /\ Len(p) = n + 1
  <2> HIDE DEF item
  <2>1. PICK base \in Seq(Nat), p \in Seq(Nat) : z[2] = base \o p /\ Len(p) = Takes(item)
    BY ONLY <1>1, ActHas
  <2> QED
    BY <1>2, <2>1
<1>4. s[1] \in Lines /\ Tok("Comma") \in Lines
  BY PointFacts, Spellings
<1>5. CASE n # 0
  <2> DEFINE t0 == Opening(text, of, p)
  <2>1. Before(text, item, p) = Cat(t0, Tok("Comma")) /\ Before(text, comma, p) = t0
    BY <1>5, ListFacts
  <2>2. t0 \in Lines
    <3>1. p # <<>>
      BY <1>3
    <3> QED
      BY <3>1, OpeningLines
  <2> HIDE DEF t0, item, comma
  <2>3. Track(s[1], t0, z[1], Cat(t0, Tok("Comma")))
    BY <1>4, <2>2, TokenRead, FixedFacts
  <2>4. Turns(text, item, base, e, s[1], t0)
    BY <1>1, <1>2, <1>3, <2>1, <2>3, TakeGoes
  <2>5. Single(comma) /\ Lead(comma) = <<>>
    BY <1>2, <1>5 DEF Plain
  <2>6. Act(text, comma, s, e)
    BY <1>2, <1>3, <2>1, <2>4, <2>5, TurnsGives
  <2> QED
    BY <2>6 DEF comma
<1>6. CASE n = 0
  <2>1. PICK y \in Lines : e[1] = Cat(z[1], y)
    BY <1>1 DEF Act
  <2>2. e[1] = Cat(s[1], Cat(Tok("Comma"), y)) /\ Cat(Tok("Comma"), y) \in Lines
    <3>1. Cat(Cat(s[1], Tok("Comma")), y) = Cat(s[1], Cat(Tok("Comma"), y))
      BY <1>4, CatAssoc
    <3> QED
      BY <1>4, <2>1, <3>1, CatClosed
  <2>3. Leaves(text, comma, base, p, Cat(Tok("Comma"), y), e[2])
    BY <1>6 DEF Leaves, Comma
  <2> QED
    BY <1>2, <1>3, <2>2, <2>3 DEF Act
<1> QED
  BY <1>5, <1>6

\* An argument, or the name of a parameter, is read.
Heard(text, of, s, e, x, b, t) ==
  \E k \in Nat : /\ e[2] = Append(s[2], k)
                 /\ Track(x, b, e[1], Cat(t, IF of = "params" THEN Nm(k) ELSE text[k]))

LEMMA HeardGoes ==
  ASSUME NEW text \in Total, NEW of \in {"params", "args"}, NEW s \in Point, NEW e \in Point,
         Run(text, IF of = "params" THEN <<Consume("Identifier")>> ELSE Expr, s, e),
         NEW x, NEW b, NEW t, Track(x, b, s[1], t)
  PROVE  Heard(text, of, s, e, x, b, t)
<1>1. CASE of = "params"
  <2>1. Run(text, <<Consume("Identifier")>>, s, e)
    BY <1>1
  <2>2. Act(text, Consume("Identifier"), s, e)
    BY <2>1, TokenRecords, RunOne
  <2>3. Spells(s, e, x, b, t)
    BY <2>2, NameGoes
  <2> QED
    BY <1>1, <2>3 DEF Spells, Heard
<1>2. CASE of = "args"
  <2>1. Run(text, Expr, s, e)
    BY <1>2
  <2>2. Valued(text, s, e)
    BY <2>1, ExprGoes
  <2>3. Gains(text, s[2], e, x, b, t)
    BY <2>2, ValuedGoes
  <2> QED
    BY <1>2, <2>3 DEF Gains, Heard
<1> QED
  BY <1>1, <1>2

LEMMA ItemGoes ==
  ASSUME NEW text \in Total, NEW of \in {"params", "args"}, NEW n \in Nat,
         NEW s \in Point, NEW e \in Point,
         Run(text, (IF of = "params" THEN <<Consume("Identifier")>> ELSE Expr)
                     \o <<Comma(of, n + 1)>>, s, e)
  PROVE  Act(text, Item(of, n), s, e)
<1> DEFINE item == Item(of, n)
           comma == Comma(of, n + 1)
           first == IF of = "params" THEN <<Consume("Identifier")>> ELSE Expr
<1>1. comma \in Record /\ n + 1 # 0 /\ n + 1 \in Nat
  BY RecordFacts
<1>2. first \in Seq(Record) /\ <<comma>> \in Seq(Record)
  <2>1. <<Consume("Identifier")>> \in Seq(Record)
    BY TokenRecords
  <2> HIDE DEF comma
  <2> QED
    BY <1>1, <2>1, ExprSeq
<1>3. /\ Plain(comma) /\ Takes(comma) = (n + 1) + 1 /\ (Made(comma) <=> of = "params")
      /\ \A p : Before(text, comma, p) = Opening(text, of, p)
  BY <1>1, ListFacts, SMTT(20)
<1>4. Plain(item) /\ Takes(item) = n + 1 /\ (Made(item) <=> of = "params")
  BY ListFacts
<1> HIDE DEF comma
<1>5. PICK m \in Point : Run(text, first, s, m) /\ Act(text, comma, m, e)
  <2> HIDE DEF first
  <2>1. Run(text, first \o <<comma>>, s, e)
    BY DEF first, comma
  <2>2. PICK m \in Point : Run(text, first, s, m) /\ Run(text, <<comma>>, m, e)
    BY <1>2, <2>1, RunSplit
  <2> QED
    BY <1>1, <2>2, RunOne
<1>6. s[1] \in Lines /\ s[2] \in Seq(Nat)
  BY PointFacts
<1>7. PICK k0 \in Nat : m[2] = Append(s[2], k0)
  <2>1. Track(s[1], <<>>, s[1], <<>>)
    BY <1>6, CatNothing, TrackStart
  <2>2. Heard(text, of, s, m, s[1], <<>>, <<>>)
    BY <1>5, <2>1, HeardGoes
  <2> QED
    BY <2>2 DEF Heard
<1>8. PICK base \in Seq(Nat), p \in Seq(Nat) : s[2] = base \o p /\ Len(p) = n + 1
  <2>1. PICK base \in Seq(Nat), q \in Seq(Nat) : m[2] = base \o q /\ Len(q) = Takes(comma)
    BY ONLY <1>5, ActHas
  <2>2. Popped(s[2], k0, base, q, n + 1)
    BY <1>1, <1>3, <1>6, <1>7, <2>1, PopOne
  <2> QED
    BY <2>2 DEF Popped
<1> DEFINE t0 == Before(text, item, p)
<1>9. t0 \in Lines
  <2>1. Before(text, Item(of, n), p) \in Lines
    BY <1>7, <1>8, OpeningMore
  <2> QED
    BY <2>1
<1> HIDE DEF t0
<1>10. PICK k \in Nat : /\ m[2] = Append(s[2], k)
                        /\ Track(s[1], t0, m[1], Cat(t0, IF of = "params" THEN Nm(k) ELSE text[k]))
  <2>1. Track(s[1], t0, s[1], t0)
    BY <1>6, <1>9, TrackStart
  <2>2. Heard(text, of, s, m, s[1], t0, t0)
    BY <1>5, <2>1, HeardGoes
  <2> QED
    BY <2>2 DEF Heard
<1>11. m[2] = base \o Append(p, k) /\ Append(p, k) \in Seq(Nat) /\ Len(Append(p, k)) = Takes(comma)
  <2>1. Append(base \o p, k) = base \o Append(p, k)
    BY Pushed
  <2>2. Append(p, k) \in Seq(Nat) /\ Len(Append(p, k)) = Len(p) + 1
    BY AppendProperties
  <2> QED
    BY <1>3, <1>8, <1>10, <2>1, <2>2
<1>12. Before(text, comma, Append(p, k)) = Cat(t0, IF of = "params" THEN Nm(k) ELSE text[k])
  <2>1. Opening(text, of, Append(p, k))
          = Cat(Before(text, Item(of, n), p), IF of = "params" THEN Nm(k) ELSE text[k])
    <3>1. /\ p \in Seq(Nat) /\ Len(p) = n + 1 /\ k \in Nat /\ n \in Nat
          /\ text \in Total /\ of \in {"params", "args"}
      BY <1>8
    <3> QED
      BY ONLY <3>1, OpeningMore
  <2> QED
    BY <1>3, <2>1 DEF t0, item
<1> HIDE DEF item
<1>13. Turns(text, comma, base, e, s[1], t0)
  BY <1>3, <1>5, <1>10, <1>11, <1>12, TakeGoes
<1>14. Single(item) /\ Lead(item) = <<>>
  BY <1>4 DEF Plain
<1>15. Act(text, item, s, e)
  BY <1>3, <1>4, <1>8, <1>13, <1>14, TurnsGives DEF t0
<1> QED
  BY <1>15 DEF item

(***************************************************************************)
(* Lists of statements.                                                    *)
(***************************************************************************)

\* A declaration more, on top of n statements.
LEMMA DeclTop ==
  ASSUME NEW text \in Total, NEW n \in Nat, NEW list, Takes(list) = n + 1,
         NEW s \in Point, NEW m \in Point, NEW e \in Point,
         Act(text, Do("decl"), s, m), Act(text, list, m, e)
  PROVE  \E base, p \in Seq(Nat) : s[2] = base \o p /\ Len(p) = n
<1>1. s[2] \in Seq(Nat)
  BY PointFacts
<1>2. PICK k0 \in Nat : m[2] = Append(s[2], k0)
  <2>1. Valued(text, s, m)
    BY PushFacts, FirstValued
  <2> QED
    BY <2>1 DEF Valued
<1>3. PICK base \in Seq(Nat), q \in Seq(Nat) : m[2] = base \o q /\ Len(q) = Takes(list)
  BY ActHas, Zenon
<1>4. Popped(s[2], k0, base, q, n)
  BY <1>1, <1>2, <1>3, PopOne
<1> QED
  BY <1>4 DEF Popped

\* What the declaration adds.
LEMMA DeclAdds ==
  ASSUME NEW text \in Total, NEW s \in Point, NEW m \in Point, Act(text, Do("decl"), s, m),
         NEW base \in Seq(Nat), NEW p \in Seq(Nat), s[2] = base \o p, NEW t \in Lines
  PROVE  \E k \in Nat : /\ m[2] = base \o Append(p, k) /\ Append(p, k) \in Seq(Nat)
                        /\ Len(Append(p, k)) = Len(p) + 1
                        /\ Track(s[1], t, m[1], Cat(t, text[k]))
<1>1. Track(s[1], t, s[1], t)
  BY PointFacts, TrackStart
<1>2. Adds(text, Do("decl"), s[2], m, s[1], t, t)
  BY <1>1, PushFacts, PushGoes
<1>3. PICK k \in Nat : m[2] = Append(s[2], k) /\ Track(s[1], t, m[1], Cat(t, text[k]))
  BY <1>2 DEF Adds
<1>4. Append(base \o p, k) = base \o Append(p, k)
  BY Pushed
<1>5. Append(p, k) \in Seq(Nat) /\ Len(Append(p, k)) = Len(p) + 1
  BY AppendProperties
<1> QED
  BY <1>3, <1>4, <1>5

LEMMA BlockMore ==
  ASSUME NEW text \in Total, NEW n \in Nat, NEW s \in Point, NEW e \in Point,
         Run(text, <<Do("decl"), Statements("Block", n + 1)>>, s, e)
  PROVE  Act(text, Statements("Block", n), s, e)
<1> DEFINE item == Statements("Block", n)
           list == Statements("Block", n + 1)
<1>1. Do("decl") \in Record /\ list \in Record /\ n + 1 \in Nat
  BY DoRecords, RecordFacts
<1>2. Plain(item) /\ Takes(item) = n /\ Made(item)
  BY ListFacts
<1>3. Plain(list) /\ Takes(list) = n + 1 /\ Made(list)
  BY <1>1, ListFacts
<1> DEFINE body(p) == Cat(Tok("LBrace"), Flat(text, p))
<1>4. \A p : Before(text, item, p) = body(p) /\ Before(text, list, p) = body(p)
  BY ListFacts
<1> HIDE DEF item, list
<1>5. PICK m \in Point : Act(text, Do("decl"), s, m) /\ Act(text, list, m, e)
  BY <1>1, RunTwo DEF list
<1>6. PICK base \in Seq(Nat), p \in Seq(Nat) : s[2] = base \o p /\ Len(p) = n
  BY <1>3, <1>5, DeclTop, Zenon
<1>7. Flat(text, p) \in Lines /\ \A k \in Nat : Flat(text, Append(p, k)) = Cat(Flat(text, p), text[k])
  BY TotalFacts, FlatFacts
<1>8. body(p) \in Lines
  BY <1>7, Spellings, CatClosed
<1>9. PICK k \in Nat : /\ m[2] = base \o Append(p, k) /\ Append(p, k) \in Seq(Nat)
                       /\ Len(Append(p, k)) = Len(p) + 1
                       /\ Track(s[1], body(p), m[1], Cat(body(p), text[k]))
  <2> HIDE DEF body
  <2> QED
    BY <1>5, <1>6, <1>8, DeclAdds
<1>10. Before(text, list, Append(p, k)) = Cat(body(p), text[k])
  <2>1. text[k] \in Lines /\ Tok("LBrace") \in Lines
    BY TotalFacts, Spellings
  <2>2. Cat(Tok("LBrace"), Cat(Flat(text, p), text[k])) = Cat(Cat(Tok("LBrace"), Flat(text, p)), text[k])
    BY <1>7, <2>1, CatAssoc
  <2> QED
    BY <1>4, <1>7, <2>2
<1>11. Before(text, item, p) = body(p)
  BY <1>4
<1> HIDE DEF body
<1>12. Turns(text, list, base, e, s[1], body(p))
  BY <1>3, <1>5, <1>6, <1>9, <1>10, TakeGoes
<1>13. Single(item) /\ Lead(item) = <<>>
  BY <1>2 DEF Plain
<1>14. Act(text, item, s, e)
  BY <1>2, <1>3, <1>6, <1>11, <1>12, <1>13, TurnsGives
<1> QED
  BY <1>14 DEF item

Statement(text, base, p, y, r) ==
  \E q \in Seq(Nat) : r = base \o q /\ Same(Cat(Flat(text, p), y), Flat(text, q))

LEMMA ProgramLeaves ==
  ASSUME NEW text, NEW n, NEW base, NEW p, NEW y, NEW r
  PROVE  Leaves(text, Statements("Program", n), base, p, y, r) <=> Statement(text, base, p, y, r)
BY DEF Leaves, Statements, Statement

LEMMA ProgramMore ==
  ASSUME NEW text \in Total, NEW n \in Nat, NEW s \in Point, NEW e \in Point,
         Run(text, <<Do("decl"), Statements("Program", n + 1)>>, s, e)
  PROVE  Act(text, Statements("Program", n), s, e)
<1> DEFINE list == Statements("Program", n + 1)
<1>1. Do("decl") \in Record /\ list \in Record /\ n + 1 \in Nat
  BY DoRecords, RecordFacts
<1>2. Takes(Statements("Program", n)) = n
  BY ListFacts
<1>3. Takes(list) = n + 1
  BY <1>1, ListFacts
<1> HIDE DEF list
<1>5. PICK m \in Point : Act(text, Do("decl"), s, m) /\ Act(text, list, m, e)
  BY <1>1, RunTwo DEF list
<1>6. PICK base \in Seq(Nat), p \in Seq(Nat) : s[2] = base \o p /\ Len(p) = n
  BY <1>3, <1>5, DeclTop, Zenon
<1>7. /\ Flat(text, p) \in Lines /\ \A q \in Seq(Nat) : Flat(text, q) \in Lines
      /\ \A k \in Nat : Flat(text, Append(p, k)) = Cat(Flat(text, p), text[k])
  BY TotalFacts, FlatFacts
<1>9. PICK k \in Nat : /\ m[2] = base \o Append(p, k) /\ Append(p, k) \in Seq(Nat)
                       /\ Len(Append(p, k)) = Len(p) + 1
                       /\ Track(s[1], Flat(text, p), m[1], Cat(Flat(text, p), text[k]))
  BY <1>5, <1>6, <1>7, DeclAdds, Zenon
<1>10. PICK b1 \in Seq(Nat), p1 \in Seq(Nat), y \in Lines :
         /\ m[2] = b1 \o p1 /\ Len(p1) = Takes(list)
         /\ e[1] = Cat(m[1], y)
         /\ Leaves(text, list, b1, p1, y, e[2])
  BY <1>5 DEF Act
<1>11. b1 = base /\ p1 = Append(p, k)
  <2> DEFINE p0 == Append(p, k)
  <2>1. m[2] = base \o p0 /\ p0 \in Seq(Nat) /\ Len(p0) = Len(p1)
    BY <1>3, <1>6, <1>9, <1>10
  <2> HIDE DEF p0
  <2>2. b1 \o p1 = base \o p0
    BY <1>10, <2>1
  <2>3. b1 = base /\ p1 = p0
    <3>1. Len(p1) = Len(p0)
      BY <2>1
    <3> QED
      BY <1>10, <2>1, <2>2, <3>1, ConcatCancel
  <2> QED
    BY <2>3 DEF p0
<1>12. PICK q \in Seq(Nat) : e[2] = base \o q /\ Same(Cat(Flat(text, p1), y), Flat(text, q))
  <2>1. Leaves(text, Statements("Program", n + 1), b1, p1, y, e[2])
    BY <1>10 DEF list
  <2>2. PICK q \in Seq(Nat) : e[2] = b1 \o q /\ Same(Cat(Flat(text, p1), y), Flat(text, q))
    <3>1. Statement(text, b1, p1, y, e[2])
      BY <2>1, ProgramLeaves
    <3> QED
      BY <3>1 DEF Statement
  <2> QED
    BY <1>11, <2>2
<1>13. Same(Cat(Cat(Flat(text, p), text[k]), y), Flat(text, q))
  BY <1>7, <1>11, <1>12
<1>14. Track(s[1], Flat(text, p), Cat(m[1], y), Flat(text, q))
  BY <1>7, <1>9, <1>10, <1>12, <1>13, TrackInto
<1>15. PICK u \in Lines : e[1] = Cat(s[1], u) /\ Same(Cat(Flat(text, p), u), Flat(text, q))
  BY <1>10, <1>14 DEF Track
<1>16. Leaves(text, Statements("Program", n), base, p, u, e[2])
  <2>1. Statement(text, base, p, u, e[2])
    BY <1>12, <1>15 DEF Statement
  <2> QED
    BY <2>1, ProgramLeaves
<1> QED
  BY <1>2, <1>6, <1>15, <1>16 DEF Act

LEMMA StatementsMore ==
  ASSUME NEW text \in Total, NEW of \in {"Program", "Block"}, NEW n \in Nat,
         NEW s \in Point, NEW e \in Point, Run(text, <<Do("decl"), Statements(of, n + 1)>>, s, e)
  PROVE  Act(text, Statements(of, n), s, e)
<1>1. CASE of = "Program"
  BY <1>1, ProgramMore
<1>2. CASE of = "Block"
  BY <1>2, BlockMore
<1> QED
  BY <1>1, <1>2

\* A statement that stands for nothing makes no difference.
LEMMA StatementsForget ==
  ASSUME NEW text \in Total, NEW of \in {"Program", "Block"}, NEW n \in Nat,
         NEW s \in Point, NEW z \in Point, NEW e, NEW k \in Nat,
         z[1] = s[1], s[2] = Append(z[2], k), text[k] = <<>>,
         Act(text, Statements(of, n), z, e)
  PROVE  Act(text, Statements(of, n + 1), s, e)
<1> DEFINE short == Statements(of, n)
           long == Statements(of, n + 1)
<1>1. PICK base \in Seq(Nat), p \in Seq(Nat), y \in Lines :
        /\ z[2] = base \o p /\ Len(p) = Takes(short)
        /\ e[1] = Cat(z[1], y)
        /\ Leaves(text, short, base, p, y, e[2])
  BY DEF Act
<1>2. Takes(short) = n /\ Takes(long) = n + 1 /\ Made(short) /\ Made(long)
  BY ListFacts
<1> DEFINE q == Append(p, k)
<1>3. s[2] = base \o q /\ q \in Seq(Nat) /\ Len(q) = n + 1
  <2>1. Append(base \o p, k) = base \o Append(p, k)
    BY Pushed
  <2>2. Append(p, k) \in Seq(Nat) /\ Len(Append(p, k)) = Len(p) + 1
    BY AppendProperties
  <2> QED
    BY <1>1, <1>2, <2>1, <2>2
<1>4. Flat(text, q) = Flat(text, p)
  <2>1. Flat(text, q) = Cat(Flat(text, p), text[k]) /\ Flat(text, p) \in Lines
    BY TotalFacts, FlatFacts
  <2> QED
    BY <2>1, CatNothing
<1> HIDE DEF q
<1>5. Leaves(text, long, base, q, y, e[2])
  <2>1. CASE of = "Program"
    <3>1. Leaves(text, Statements("Program", n), base, p, y, e[2])
      BY <1>1, <2>1
    <3>2. Statement(text, base, p, y, e[2])
      BY <3>1, ProgramLeaves
    <3>3. Statement(text, base, q, y, e[2])
      BY <1>4, <3>2 DEF Statement
    <3>4. Leaves(text, Statements("Program", n + 1), base, q, y, e[2])
      BY <3>3, ProgramLeaves
    <3> QED
      BY <2>1, <3>4
  <2>2. CASE of = "Block"
    <3>1. /\ Plain(short) /\ Plain(long)
          /\ Before(text, short, p) = Cat(Tok("LBrace"), Flat(text, p))
          /\ Before(text, long, q) = Cat(Tok("LBrace"), Flat(text, q))
      BY <2>2, ListFacts
    <3> HIDE DEF short, long
    <3>2. /\ Single(short) /\ Single(long) /\ Lead(short) = <<>> /\ Lead(long) = <<>>
          /\ Skipped(short) = {}
      BY <3>1 DEF Plain
    <3>3. PICK j \in Nat : e[2] = Append(base, j) /\ Stands(text, short, p, y, j)
      BY <1>1, <3>2, SingleLeaves
    <3>4. Stands(text, long, q, y, j)
      BY <1>2, <1>4, <3>1, <3>2, <3>3 DEF Stands
    <3> QED
      BY <3>2, <3>3, <3>4, SingleLeaves
  <2> QED
    BY <2>1, <2>2
<1> HIDE DEF long
<1>6. Act(text, long, s, e)
  BY <1>1, <1>2, <1>3, <1>5 DEF Act
<1> QED
  BY <1>6 DEF long

LEMMA BlockEnd ==
  ASSUME NEW text \in Total, NEW n \in Nat, NEW s \in Point, NEW e \in Point,
         Run(text, <<Consume("RBrace"), BuildList("Block", n)>>, s, e)
  PROVE  Act(text, Statements("Block", n), s, e)
<1> DEFINE item == Statements("Block", n)
           node == BuildList("Block", n)
<1>1. PICK m \in Point : Act(text, Consume("RBrace"), s, m) /\ Act(text, node, m, e)
  <2>1. node \in Record
    BY BuildRecords
  <2> HIDE DEF node
  <2> QED
    BY <2>1, TokenRecords, RunTwo DEF node
<1>2. Plain(item) /\ Takes(item) = n /\ Made(item)
  BY ListFacts
<1>3. node.do = "build" /\ Arity(node) = n
  BY BuildFields, ListNodes
<1>4. \A p : NodeOf(node, p) = BlockStmt(p) /\ Before(text, item, p) = Cat(Tok("LBrace"), Flat(text, p))
  BY ListNodes, ListFacts
<1> HIDE DEF item, node
<1>5. Made(node) /\ Takes(node) = n
  BY <1>3, BuildFacts
<1>6. PICK base \in Seq(Nat), p \in Seq(Nat) : m[2] = base \o p /\ Len(p) = Takes(node)
  BY ONLY <1>1, ActHas
<1> DEFINE t0 == Cat(Tok("LBrace"), Flat(text, p))
<1>7. t0 \in Lines /\ s[1] \in Lines
  <2>1. Flat(text, p) \in Lines
    BY TotalFacts, FlatFacts
  <2> QED
    BY <2>1, Spellings, CatClosed, PointFacts
<1>8. Wording(NodeOf(node, p), text) = Cat(t0, Tok("RBrace")) /\ Before(text, item, p) = t0
  BY <1>4, StatementWords
<1> HIDE DEF t0
<1>9. m[2] = s[2] /\ Track(s[1], t0, m[1], Cat(t0, Tok("RBrace")))
  <2>1. Track(s[1], t0, s[1], t0)
    BY <1>7, TrackStart
  <2>2. Passes("RBrace", s, m, s[1], t0, t0)
    BY <1>1, <2>1, ConsumeGoes, FixedFacts
  <2> QED
    BY <2>2 DEF Passes
<1>10. Cat(t0, Tok("RBrace")) \in Lines /\ Same(Cat(t0, Tok("RBrace")), Cat(t0, Tok("RBrace")))
  BY <1>9, SameFacts DEF Track
<1>11. Turns(text, node, base, e, s[1], t0)
  BY <1>1, <1>3, <1>5, <1>6, <1>8, <1>9, <1>10, BuildGoes
<1>12. Single(item) /\ Lead(item) = <<>>
  BY <1>2 DEF Plain
<1>13. Act(text, item, s, e)
  BY <1>2, <1>5, <1>6, <1>8, <1>9, <1>11, <1>12, TurnsGives
<1> QED
  BY <1>13 DEF item

(***************************************************************************)
(* Statements.                                                             *)
(***************************************************************************)

\* A record that has read nothing before, and whose result is a node.
LEMMA NodeGives ==
  ASSUME NEW text \in Total, NEW what \in {"decl", "stmt", "forInit"},
         NEW s \in Point, NEW e \in Point,
         NEW last, Made(last), Turns(text, last, s[2], e, s[1], <<>>)
  PROVE  Act(text, Do(what), s, e)
<1> DEFINE item == Do(what)
<1>1. /\ Single(item) /\ Lead(item) = <<>> /\ Takes(item) = 0
      /\ Before(text, item, <<>>) = <<>>
  <2>1. CASE what = "forInit"
    BY <2>1, OptionFacts
  <2>2. CASE what # "forInit"
    <3>1. Pushes(item)
      BY <2>2, PushFacts
    <3> HIDE DEF item
    <3> QED
      BY <3>1 DEF Pushes, Plain
  <2> QED
    BY <2>1, <2>2
<1> HIDE DEF item
<1>2. Act(text, item, s, e)
  BY <1>1, WholeGives
<1> QED
  BY <1>2 DEF item

LEMMA MadeBuild == \A kind : Made(Build(kind))
<1> SUFFICES ASSUME NEW kind
             PROVE  Made(Build(kind))
  OBVIOUS
<1> QED
  BY BuildFields DEF Made

LEMMA VarGives ==
  ASSUME NEW text \in Total, NEW what \in {"decl", "forInit"},
         NEW s \in Point, NEW z \in Point, NEW e \in Point,
         z[1] = Cat(s[1], Tok("Var")), z[2] = s[2], Run(text, Rule.Var, z, e)
  PROVE  Act(text, Do(what), s, e)
<1>1. Turns(text, Build("VarDecl"), s[2], e, s[1], <<>>)
  BY VarGoes
<1> QED
  BY <1>1, MadeBuild, NodeGives

LEMMA StatementGives ==
  ASSUME NEW text \in Total, NEW kind \in DOMAIN Rule \ {"Var"},
         NEW s \in Point, NEW z \in Point, NEW e \in Point,
         z[1] = Cat(s[1], Tok(kind)), z[2] = s[2], Run(text, Rule[kind], z, e)
  PROVE  Act(text, Do("stmt"), s, e)
<1>1. kind \in {"Function", "If", "While", "For", "Return", "LBrace"}
  BY DEF Rule
<1>2. CASE kind = "Function"
  <2>1. Turns(text, Do("params"), s[2], e, s[1], <<>>)
    BY <1>2, FunctionGoes
  <2>2. Made(Do("params"))
    BY TakeFacts
  <2> QED
    BY <2>1, <2>2, NodeGives
<1>3. CASE kind = "If"
  <2>1. Turns(text, Build("If"), s[2], e, s[1], <<>>)
    BY <1>3, IfGoes
  <2> QED
    BY <2>1, MadeBuild, NodeGives
<1>4. CASE kind = "While"
  <2>1. Turns(text, Build("While"), s[2], e, s[1], <<>>)
    BY <1>4, WhileGoes
  <2> QED
    BY <2>1, MadeBuild, NodeGives
<1>5. CASE kind = "For"
  <2>1. Turns(text, Build("For"), s[2], e, s[1], <<>>)
    BY <1>5, ForGoes
  <2> QED
    BY <2>1, MadeBuild, NodeGives
<1>6. CASE kind = "Return"
  <2>1. Turns(text, Build("Return"), s[2], e, s[1], <<>>)
    BY <1>6, ReturnGoes
  <2> QED
    BY <2>1, MadeBuild, NodeGives
<1>7. CASE kind = "LBrace"
  <2>1. Turns(text, Statements("Block", 0), s[2], e, s[1], <<>>)
    BY <1>7, BlockGoes
  <2>2. Made(Statements("Block", 0))
    BY ListFacts
  <2> QED
    BY <2>1, <2>2, NodeGives
<1> QED
  BY <1>1, <1>2, <1>3, <1>4, <1>5, <1>6, <1>7

LEMMA ExprStatementGives ==
  ASSUME NEW text \in Total, NEW what \in {"stmt", "forInit"},
         NEW s \in Point, NEW e \in Point, Run(text, ExprStatement, s, e)
  PROVE  Act(text, Do(what), s, e)
<1>1. Turns(text, Do("exprStmt"), s[2], e, s[1], <<>>)
  BY ExprStatementGoes
<1>2. Made(Do("exprStmt"))
  BY TakeFacts
<1> QED
  BY <1>1, <1>2, NodeGives

LEMMA DeclGives ==
  ASSUME NEW text \in Total, NEW s \in Point, NEW e \in Point, Run(text, <<Do("stmt")>>, s, e)
  PROVE  Act(text, Do("decl"), s, e)
<1>1. Act(text, Do("stmt"), s, e)
  BY DoRecords, RunOne
<1>2. /\ Pushes(Do("stmt")) /\ Pushes(Do("decl")) /\ Made(Do("stmt"))
  BY PushFacts
<1>3. /\ Plain(Do("stmt")) /\ Takes(Do("stmt")) = 0 /\ \A p : Before(text, Do("stmt"), p) = <<>>
      /\ Plain(Do("decl")) /\ Takes(Do("decl")) = 0 /\ \A p : Before(text, Do("decl"), p) = <<>>
  BY <1>2 DEF Pushes
<1>4. /\ Single(Do("stmt")) /\ Lead(Do("stmt")) = <<>> /\ Skipped(Do("stmt")) = {}
      /\ Single(Do("decl")) /\ Lead(Do("decl")) = <<>>
  BY <1>3 DEF Plain
<1> QED
  BY <1>1, <1>2, <1>3, <1>4, LikeAct

LEMMA UnlessGives ==
  ASSUME NEW text \in Total, NEW kind, NEW s \in Point, NEW e \in Point, Run(text, Expr, s, e)
  PROVE  Act(text, Unless(kind), s, e)
<1>1. Valued(text, s, e)
  BY ExprGoes
<1>2. Pushes(Unless(kind)) /\ ~Made(Unless(kind))
  BY PushFacts
<1>3. /\ Single(Unless(kind)) /\ Lead(Unless(kind)) = <<>> /\ Takes(Unless(kind)) = 0
      /\ Before(text, Unless(kind), <<>>) = <<>>
  BY <1>2 DEF Pushes, Plain
<1> QED
  BY <1>1, <1>2, <1>3, ValuedGives

LEMMA InitGives ==
  ASSUME NEW text \in Total, NEW s \in Point, NEW z \in Point, NEW e \in Point,
         z[1] = Cat(s[1], Tok("Equal")), z[2] = s[2], Run(text, Expr, z, e)
  PROVE  Act(text, Do("initializer"), s, e)
<1>1. Valued(text, z, e)
  BY ExprGoes
<1>2. s[1] \in Lines /\ s[2] \in Seq(Nat)
  BY PointFacts
<1>3. Track(s[1], <<>>, z[1], Tok("Equal"))
  BY <1>2, TokenRead, FixedFacts
<1>4. Gains(text, z[2], e, s[1], <<>>, Tok("Equal"))
  BY <1>1, <1>3, ValuedGoes
<1>5. PICK k \in Nat : e[2] = Append(s[2], k) /\ Track(s[1], <<>>, e[1], Cat(Tok("Equal"), text[k]))
  BY <1>4 DEF Gains
<1>6. /\ Single(Do("initializer")) /\ Takes(Do("initializer")) = 0 /\ ~Made(Do("initializer"))
      /\ Before(text, Do("initializer"), <<>>) = <<>> /\ Lead(Do("initializer")) = Tok("Equal")
  BY OptionFacts
<1>7. s[2] = s[2] \o <<>> /\ <<>> \in Seq(Nat) /\ Len(<<>>) = Takes(Do("initializer"))
  BY <1>2, <1>6, Pushed
<1> QED
  BY <1>2, <1>5, <1>6, <1>7, ActGives

LEMMA ElseGives ==
  ASSUME NEW text \in Total, NEW s \in Point, NEW z \in Point, NEW e \in Point,
         z[1] = Cat(s[1], Tok("Else")), z[2] = s[2], Run(text, <<Do("stmt")>>, z, e)
  PROVE  Act(text, Do("else"), s, e)
<1>1. Act(text, Do("stmt"), z, e)
  BY DoRecords, RunOne
<1>2. s[1] \in Lines /\ s[2] \in Seq(Nat)
  BY PointFacts
<1>3. Track(s[1], <<>>, z[1], Tok("Else"))
  BY <1>2, TokenRead, FixedFacts
<1>4. Adds(text, Do("stmt"), z[2], e, s[1], <<>>, Tok("Else"))
  BY <1>1, <1>3, PushFacts, PushGoes
<1>5. PICK k \in Nat : /\ e[2] = Append(s[2], k) /\ k # 0
                       /\ Track(s[1], <<>>, e[1], Cat(Tok("Else"), text[k]))
  BY <1>4, PushFacts DEF Adds
<1>6. /\ Single(Do("else")) /\ Takes(Do("else")) = 0
      /\ Before(text, Do("else"), <<>>) = <<>> /\ Lead(Do("else")) = Tok("Else")
  BY OptionFacts
<1>7. s[2] = s[2] \o <<>> /\ <<>> \in Seq(Nat) /\ Len(<<>>) = Takes(Do("else"))
  BY <1>2, <1>6, Pushed
<1> QED
  BY <1>2, <1>5, <1>6, <1>7, ActGives

(***************************************************************************)
(* Records that are done.                                                  *)
(***************************************************************************)

LEMMA LeafGives ==
  ASSUME NEW text \in Total, NEW item, Single(item), Lead(item) = <<>>, NEW s \in Point, NEW e \in Point,
         NEW base \in Seq(Nat), NEW p \in Seq(Nat), s[2] = base \o p, Len(p) = Takes(item),
         NEW k \in Nat, e[2] = Append(base, k), Made(item) => k # 0,
         NEW y \in Lines, e[1] = Cat(s[1], y), Cat(Before(text, item, p), y) = text[k]
  PROVE  Act(text, item, s, e)
<1>1. Cat(<<>>, text[k]) = text[k]
  BY TotalFacts, CatNothing
<1>2. Same(Cat(Before(text, item, p), y), Cat(Lead(item), text[k]))
  BY <1>1, SameFacts
<1>3. Stands(text, item, p, y, k)
  BY <1>2 DEF Stands
<1>4. Leaves(text, item, base, p, y, e[2])
  BY <1>3, SingleLeaves
<1> QED
  BY <1>4 DEF Act

\* Nothing is there, and the null pointer stands for it.
LEMMA SkipGives ==
  ASSUME NEW text \in Total, NEW item, Single(item), Takes(item) = 0, NEW s \in Point, NEW e \in Point,
         e[2] = Append(s[2], 0), NEW y \in Skipped(item), y \in Lines, e[1] = Cat(s[1], y)
  PROVE  Act(text, item, s, e)
<1>1. Stands(text, item, <<>>, y, 0)
  BY DEF Stands
<1>2. Leaves(text, item, s[2], <<>>, y, e[2])
  <2>1. \E k \in Nat : e[2] = Append(s[2], k) /\ Stands(text, item, <<>>, y, k)
    BY <1>1
  <2> QED
    BY <2>1, SingleLeaves
<1>3. s[2] \in Seq(Nat) /\ s[2] = s[2] \o <<>> /\ <<>> \in Seq(Nat) /\ Len(<<>>) = Takes(item)
  <2>1. s[2] \in Seq(Nat)
    BY PointFacts
  <2> QED
    BY <2>1, Pushed
<1> QED
  BY <1>2, <1>3 DEF Act

LEMMA NullGives ==
  ASSUME NEW text \in Total, NEW item, Pushes(item), ~Made(item), NEW s \in Point, NEW e \in Point,
         e[1] = s[1], e[2] = Append(s[2], 0)
  PROVE  Act(text, item, s, e)
<1>1. /\ Single(item) /\ Lead(item) = <<>> /\ Takes(item) = 0 /\ Before(text, item, <<>>) = <<>>
  BY DEF Pushes, Plain
<1>2. s[1] \in Lines /\ s[2] \in Seq(Nat)
  BY PointFacts
<1>3. s[2] = s[2] \o <<>> /\ <<>> \in Seq(Nat) /\ Len(<<>>) = Takes(item)
  BY <1>1, <1>2, Pushed
<1>4. <<>> \in Lines /\ e[1] = Cat(s[1], <<>>) /\ Cat(<<>>, <<>>) = text[0]
  BY <1>2, CatNothing, TotalFacts
<1> QED
  BY <1>1, <1>2, <1>3, <1>4, LeafGives

\* What was there is the result.
LEMMA DoneGives ==
  ASSUME NEW text \in Total, NEW item, Plain(item), Takes(item) = 1, ~Made(item),
         \A p : Before(text, item, p) = text[p[1]],
         NEW s \in Point, NEW base \in Seq(Nat), NEW k \in Nat, s[2] = Append(base, k)
  PROVE  Act(text, item, s, s)
<1>1. Single(item) /\ Lead(item) = <<>>
  BY DEF Plain
<1>2. s[2] = base \o <<k>> /\ <<k>> \in Seq(Nat) /\ Len(<<k>>) = 1 /\ <<k>>[1] = k
  BY Stacked
<1>3. s[1] \in Lines /\ text[k] \in Lines
  BY PointFacts, TotalFacts
<1>4. <<>> \in Lines /\ s[1] = Cat(s[1], <<>>) /\ Cat(Before(text, item, <<k>>), <<>>) = text[k]
  BY <1>2, <1>3, CatNothing
<1> QED
  BY <1>1, <1>2, <1>4, LeafGives

LEMMA ConsumeGives ==
  ASSUME NEW text, NEW kind \in Fixed, NEW s \in Point, NEW e \in Point,
         e[1] = Cat(s[1], Tok(kind)), e[2] = s[2]
  PROVE  Act(text, Consume(kind), s, e)
<1>1. kind # "Identifier" /\ Tok(kind) \in Lines
  BY FixedFacts, Lined
<1>2. /\ s[2] \in Seq(Nat) /\ s[2] = s[2] \o <<>> /\ <<>> \in Seq(Nat) /\ Len(<<>>) = 0
  <2>1. s[2] \in Seq(Nat)
    BY PointFacts
  <2> QED
    BY <2>1, Pushed
<1>3. Takes(Consume(kind)) = 0
  BY DEF Takes, Consume
<1>4. Leaves(text, Consume(kind), s[2], <<>>, Tok(kind), e[2])
  BY <1>1 DEF Leaves, Consume
<1> QED
  BY <1>1, <1>2, <1>3, <1>4 DEF Act

LEMMA NameGives ==
  ASSUME NEW text, NEW n \in Nat, NEW s \in Point, NEW e \in Point,
         e[1] = Cat(s[1], Nm(n)), e[2] = Append(s[2], n)
  PROVE  Act(text, Consume("Identifier"), s, e)
<1>1. Nm(n) \in Lines
  BY Lined
<1>2. /\ s[2] \in Seq(Nat) /\ s[2] = s[2] \o <<>> /\ <<>> \in Seq(Nat) /\ Len(<<>>) = 0
  <2>1. s[2] \in Seq(Nat)
    BY PointFacts
  <2> QED
    BY <2>1, Pushed
<1>3. Takes(Consume("Identifier")) = 0
  BY DEF Takes, Consume
<1>4. Leaves(text, Consume("Identifier"), s[2], <<>>, Nm(n), e[2])
  BY DEF Leaves, Consume
<1> QED
  BY <1>1, <1>2, <1>3, <1>4 DEF Act

\* A literal or a name.
LEMMA AtomGives ==
  ASSUME NEW text \in Total, NEW s \in Point, NEW e \in Point,
         NEW k \in Nat, e[2] = Append(s[2], k), e[1] = Cat(s[1], text[k])
  PROVE  Act(text, Do("primary"), s, e)
<1>1. Pushes(Do("primary")) /\ ~Made(Do("primary"))
  BY PushFacts
<1>2. /\ Single(Do("primary")) /\ Lead(Do("primary")) = <<>> /\ Takes(Do("primary")) = 0
      /\ Before(text, Do("primary"), <<>>) = <<>>
  BY <1>1 DEF Pushes, Plain
<1>3. text[k] \in Lines /\ s[2] \in Seq(Nat)
  BY TotalFacts, PointFacts
<1>4. s[2] = s[2] \o <<>> /\ <<>> \in Seq(Nat) /\ Len(<<>>) = Takes(Do("primary"))
  BY <1>2, <1>3, Pushed
<1>5. Cat(<<>>, text[k]) = text[k]
  BY <1>3, CatNothing
<1> QED
  BY <1>1, <1>2, <1>3, <1>4, <1>5, LeafGives

\* The node k is made of the results p.
LEMMA BuildGives ==
  ASSUME NEW text \in Total, NEW item, item.do = "build", NEW s \in Point, NEW e \in Point,
         NEW base \in Seq(Nat), NEW p \in Seq(Nat), s[2] = base \o p, Len(p) = Arity(item),
         NEW k \in Nat \ {0}, e[2] = Append(base, k), e[1] = s[1],
         text[k] = Wording(NodeOf(item, p), text)
  PROVE  Act(text, item, s, e)
<1>1. /\ Plain(item) /\ Takes(item) = Arity(item)
      /\ Before(text, item, p) = Wording(NodeOf(item, p), text)
  BY BuildFacts
<1>2. Single(item) /\ Lead(item) = <<>>
  BY <1>1 DEF Plain
<1>3. s[1] \in Lines /\ text[k] \in Lines
  BY PointFacts, TotalFacts
<1>4. <<>> \in Lines /\ e[1] = Cat(s[1], <<>>) /\ Cat(text[k], <<>>) = text[k]
  BY <1>3, CatNothing
<1> QED
  BY <1>1, <1>2, <1>4, LeafGives

LEMMA AssignToGives ==
  ASSUME NEW text \in Total, NEW s \in Point, NEW e \in Point,
         NEW base \in Seq(Nat), NEW a \in Nat, NEW j \in Nat, s[2] = base \o <<a, j>>,
         NEW n \in Nat, text[a] = Nm(n),
         NEW k \in Nat, e[2] = Append(base, k), e[1] = s[1],
         text[k] = Wording(AssignExpr(n, j), text)
  PROVE  Act(text, Do("assignTo"), s, e)
<1> DEFINE item == Do("assignTo")
           p == <<a, j>>
<1>1. p \in Seq(Nat) /\ Len(p) = 2 /\ p[1] = a /\ p[2] = j
  OBVIOUS
<1> HIDE DEF p
<1>2. /\ Plain(item) /\ Takes(item) = 2 /\ ~Made(item)
      /\ Before(text, item, p) = Cat(Cat(text[a], Tok("Equal")), text[j])
  BY <1>1, TakeFacts
<1>3. text[k] = Cat(Cat(text[a], Tok("Equal")), text[j])
  BY ExpressionWords
<1> HIDE DEF item
<1>4. Single(item) /\ Lead(item) = <<>>
  BY <1>2 DEF Plain
<1>5. s[1] \in Lines /\ text[k] \in Lines
  BY PointFacts, TotalFacts
<1>6. <<>> \in Lines /\ e[1] = Cat(s[1], <<>>) /\ Cat(text[k], <<>>) = text[k]
  BY <1>5, CatNothing
<1>7. s[2] = base \o p
  BY DEF p
<1>8. Act(text, item, s, e)
  BY <1>1, <1>2, <1>3, <1>4, <1>6, <1>7, LeafGives
<1> QED
  BY <1>8 DEF item

\* An expression and its semicolon, or neither.
LEMMA ExprStmtGives ==
  ASSUME NEW text \in Total, NEW s \in Point, NEW e \in Point,
         NEW base \in Seq(Nat), NEW j \in Nat, s[2] = Append(base, j),
         NEW k \in Nat \ {0}, e[2] = Append(base, k),
         e[1] = IF j = 0 THEN s[1] ELSE Cat(s[1], Tok("Semicolon")),
         text[k] = Wording(ExprStmt(j), text)
  PROVE  Act(text, Do("exprStmt"), s, e)
<1> DEFINE item == Do("exprStmt")
           p == <<j>>
           y == IF j = 0 THEN <<>> ELSE Tok("Semicolon")
<1>1. p \in Seq(Nat) /\ Len(p) = 1 /\ p[1] = j /\ s[2] = base \o p
  BY Stacked
<1> HIDE DEF p
<1>2. Plain(item) /\ Takes(item) = 1 /\ Before(text, item, p) = text[j]
  BY <1>1, TakeFacts
<1>3. text[k] = Cat(text[j], y)
  BY StatementWords
<1> HIDE DEF item
<1>4. Single(item) /\ Lead(item) = <<>>
  BY <1>2 DEF Plain
<1>5. y \in Lines /\ e[1] = Cat(s[1], y)
  <2>1. s[1] \in Lines
    BY PointFacts
  <2> QED
    BY <2>1, CatNothing, Spellings
<1> HIDE DEF y
<1>6. Act(text, item, s, e)
  BY <1>1, <1>2, <1>3, <1>4, <1>5, LeafGives
<1> QED
  BY <1>6 DEF item

(***************************************************************************)
(* What the parser has at hand: enough results for the innermost record,   *)
(* and the tokens it has taken.                                            *)
(***************************************************************************)

LEMMA RecordIs ==
  ASSUME NEW item \in Record
  PROVE  /\ item.do = "consume" => item = Consume(item.kind) /\ item.kind \in Consumed
         /\ item.do = "unless" => item = Unless(item.kind) /\ item.kind \in Consumed
         /\ item.do = "statements" =>
              item = Statements(item.of, item.count) /\ item.of \in {"Program", "Block"} /\ item.count \in Nat
         /\ item.do = "item" =>
              item = Item(item.of, item.count) /\ item.of \in {"params", "args"} /\ item.count \in Nat
         /\ item.do = "comma" =>
              item = Comma(item.of, item.count) /\ item.of \in {"params", "args"} /\ item.count \in Nat
         /\ item.do = "more" => item = More(item.level) /\ item.level \in Nat
         /\ item.do \in Calls => item = Do(item.do)
<1>1. CASE item \in [do : {"consume", "unless"}, kind : Consumed]
  BY <1>1 DEF Calls, Consume, Unless
<1>2. CASE item \in [do : {"statements"}, of : {"Program", "Block"}, count : Nat]
  BY <1>2 DEF Calls, Statements
<1>3. CASE item \in [do : {"item", "comma"}, of : {"params", "args"}, count : Nat]
  BY <1>3 DEF Calls, Item, Comma
<1>4. CASE item \in [do : {"more"}, level : Nat]
  BY <1>4 DEF Calls, More
<1>5. CASE item \in [do : {"build"}, kind : Constructed, op : Operator \cup {""}, count : Nat]
  BY <1>5 DEF Calls
<1>6. CASE item \in [do : Calls]
  BY <1>6 DEF Calls, Do
<1> QED
  BY <1>1, <1>2, <1>3, <1>4, <1>5, <1>6 DEF Record

\* A signature takes as many results as the node is made of.
LEMMA BuildTakes ==
  ASSUME NEW item \in Record, item.do = "build", NEW sig \in BuildSignature(item)
  PROVE  Arity(item) \in Nat /\ Len(sig.takes) = Arity(item)
<1>1. item.kind \in Constructed /\ item.count \in Nat
  BY DEF Record, Calls
<1>2. CASE item.kind \in {"Grouping", "Unary", "Return"}
  <2>1. Arity(item) = 1
    BY <1>2 DEF Arity
  <2>2. \E a, b : sig = Sig(<<a>>, <<b>>)
    <3>1. CASE item.kind = "Grouping"
      BY <3>1 DEF BuildSignature
    <3>2. CASE item.kind = "Unary"
      BY <3>2 DEF BuildSignature
    <3>3. CASE item.kind = "Return"
      BY <3>3 DEF BuildSignature
    <3> QED
      BY <1>2, <3>1, <3>2, <3>3
  <2> QED
    BY <2>1, <2>2 DEF Sig
<1>3. CASE item.kind \in {"Binary", "Logical"}
  BY <1>3, SMTT(20) DEF BuildSignature, OperatorSignature, Arity, Sig
<1>4. CASE item.kind \in {"VarDecl", "While", "If", "For"}
  <2>1. CASE item.kind = "VarDecl"
    BY <2>1 DEF BuildSignature, Arity, Sig
  <2>2. CASE item.kind = "While"
    BY <2>2 DEF BuildSignature, Arity, Sig
  <2>3. CASE item.kind = "If"
    BY <2>3 DEF BuildSignature, Arity, Sig
  <2>4. CASE item.kind = "For"
    BY <2>4 DEF BuildSignature, Arity, Sig
  <2> QED
    BY <1>4, <2>1, <2>2, <2>3, <2>4
<1>5. CASE item.kind = "Block"
  <2>1. sig = Sig(Times(item.count, AnyStmt), <<Body>>) /\ Arity(item) = item.count
    BY <1>1, <1>5 DEF BuildSignature, Arity
  <2> QED
    BY <1>1, <2>1, TimesFacts DEF Sig
<1>6. CASE item.kind = "Call"
  <2>1. sig = Sig(Items("args", item.count), <<Ex(8)>>) /\ Arity(item) = 1 + item.count
    BY <1>1, <1>6 DEF BuildSignature, Arity
  <2>2. Len(Items("args", item.count)) = item.count + 1
    BY <1>1, ItemsFacts
  <2> QED
    BY <1>1, <2>1, <2>2 DEF Sig
<1>7. CASE item.kind = "FuncDecl"
  <2> DEFINE t == Items("params", item.count)
  <2>1. sig = Sig(Append(t, Body), <<Fresh>>) /\ Arity(item) = 2 + item.count
    BY <1>1, <1>7 DEF BuildSignature, Arity
  <2>2. t \in Seq(Sorts) /\ Len(t) = item.count + 1
    BY <1>1, ItemsFacts
  <2> HIDE DEF t
  <2>3. Len(Append(t, Body)) = Len(t) + 1
    BY <2>2, SomeSorts, AppendProperties
  <2> QED
    BY <1>1, <2>1, <2>2, <2>3 DEF Sig
<1> QED
  BY <1>1, <1>2, <1>3, <1>4, <1>5, <1>6, <1>7 DEF Constructed

\* The latest n results on the others.
Split(n) ==
  LET base == SubSeq(results, 1, Len(results) - n)
  IN  /\ base \in Seq(Nat) /\ Parts(n) \in Seq(Nat) /\ Len(Parts(n)) = n
      /\ results = base \o Parts(n)

LEMMA Enough ==
  ASSUME ParserInv, NEW n \in Nat, \A sig \in Signature(Head(todo)) : Len(sig.takes) = n
  PROVE  Split(n)
<1>1. PICK open, base, x, y : \E sig \in Signature(Head(todo)) :
        /\ Below(x, sig.takes) /\ Below(sig.gives, y)
        /\ Pending(open, base, x, y)
  BY HeadPending DEF ParserInv
<1>2. Len(x) = n
  BY <1>1 DEF Below
<1>3. Given(open, x)
  BY <1>1, PartsFit
<1>4. Parts(n) \in Seq(Nat) /\ Len(Parts(n)) = n
  BY <1>2, <1>3 DEF Given
<1>5. results \in Seq(Nat) /\ Len(base \o x) = Len(results) /\ base \in Seq(Sorts) /\ x \in Seq(Sorts)
  BY <1>1, FirmSeq DEF Pending, Fit
<1>6. Len(base \o x) = Len(base) + Len(x) /\ Len(base) \in Nat
  BY <1>5, ConcatProperties
<1> DEFINE h == Len(results) - n
<1>7. h \in 0 .. Len(results) /\ Len(results) \in Nat
  BY <1>2, <1>5, <1>6
<1>8. h + 1 = Len(results) - n + 1
  OBVIOUS
<1> HIDE DEF h
<1>9. SubSeq(results, 1, h) \in Seq(Nat)
  BY <1>5, <1>7, PrefixFacts
<1>10. SubSeq(results, 1, h) \o SubSeq(results, h + 1, Len(results)) = results
  <2>1. /\ 1 \in 1 .. Len(results) + 1 /\ h \in 1 - 1 .. Len(results)
        /\ Len(results) \in h .. Len(results)
    BY <1>7
  <2>2. SubSeq(results, 1, h) \o SubSeq(results, h + 1, Len(results)) = SubSeq(results, 1, Len(results))
    BY <1>5, <2>1, ConcatAdjacentSubSeq
  <2> QED
    BY <1>5, <2>2, SubSeqFull
<1>11. Parts(n) = SubSeq(results, h + 1, Len(results))
  BY <1>8 DEF Parts
<1> QED
  BY <1>4, <1>9, <1>10, <1>11 DEF Split, h

\* The tokens taken so far.
Taken == [i \in 1 .. current |-> AsRead(tokens[i])]

LEMMA ReadWords ==
  ASSUME NEW token \in Token \cup {Eof}
  PROVE  AsRead(token) \in Words
<1>1. token.kind \in STRING \cup Spelled /\ token.literal \in Value \cup {Str(n) : n \in Nat}
      /\ token \in Words
  <2>1. CASE token = Eof
    <3>1. 0 \in Nat /\ "Eof" \in STRING \cup Spelled
      BY DEF Spelled
    <3> QED
      BY <2>1, <3>1 DEF Eof, Words
  <2>2. CASE token \in Token
    BY <2>2 DEF Token, Words
  <2> QED
    BY <2>1, <2>2
<1>2. CASE token.kind \in {"Identifier", "Numeric", "String"}
  BY <1>1, <1>2 DEF AsRead
<1>3. CASE token.kind = "Undefined"
  <2>1. "String" \in STRING \cup Spelled
    BY DEF Spelled
  <2>2. AsRead(token) = Word("String", token.literal)
    BY <1>3 DEF AsRead
  <2> QED
    BY <1>1, <2>1, <2>2 DEF Word, Words
<1>4. CASE token.kind = "Let"
  BY <1>4, Marks DEF AsRead
<1>5. CASE token.kind \notin {"Identifier", "Numeric", "String", "Undefined", "Let"}
  <2>1. AsRead(token) = Mark(token.kind)
    BY <1>5 DEF AsRead
  <2> QED
    BY <1>1, <2>1, WordFacts
<1> QED
  BY <1>2, <1>3, <1>4, <1>5

LEMMA ReadLine ==
  ASSUME NEW toks \in Seq(Token \cup {Eof}), NEW n \in 0 .. Len(toks)
  PROVE  /\ [i \in 1 .. n |-> AsRead(toks[i])] \in Lines
         /\ Len([i \in 1 .. n |-> AsRead(toks[i])]) = n
<1>1. \A i \in 1 .. n : toks[i] \in Token \cup {Eof}
  <2>1. \A i \in 1 .. n : i \in 1 .. Len(toks)
    OBVIOUS
  <2> QED
    BY <2>1
<1>2. \A i \in 1 .. n : AsRead(toks[i]) \in Words
  BY <1>1, ReadWords
<1>3. n \in Nat
  OBVIOUS
<1> QED
  BY <1>2, <1>3, IsASeq DEF Lines

LEMMA TakenLine ==
  ASSUME ParserInv
  PROVE  Taken \in Lines /\ Len(Taken) = current /\ <<Taken, results>> \in Point
<1>1. tokens \in Seq(Token \cup {Eof}) /\ current \in 0 .. Len(tokens)
  BY DEF ParserInv, CursorFits
<1>2. Taken \in Lines /\ Len(Taken) = current
  BY <1>1, ReadLine DEF Taken
<1>3. results \in Seq(Nat)
  BY DEF ParserInv, WellTyped, Fit
<1> QED
  BY <1>2, <1>3 DEF Point

LEMMA TakenNext ==
  ASSUME ParserInv'
  PROVE  Taken' \in Lines /\ Len(Taken') = current' /\ <<Taken', results'>> \in Point
<1>1. tokens' \in Seq(Token \cup {Eof}) /\ current' \in 0 .. Len(tokens')
  BY DEF ParserInv, CursorFits
<1>2. Taken' \in Lines /\ Len(Taken') = current'
  BY <1>1, ReadLine DEF Taken
<1>3. results' \in Seq(Nat)
  BY DEF ParserInv, WellTyped, Fit
<1> QED
  BY <1>2, <1>3 DEF Point

LEMMA TakenStays ==
  ASSUME tokens' = tokens, current' = current
  PROVE  Taken' = Taken
BY DEF Taken

LEMMA TakenMoves ==
  ASSUME ParserInv, ParserInv', tokens' = tokens, Advance
  PROVE  Taken' = Cat(Taken, <<AsRead(Peek)>>) /\ <<AsRead(Peek)>> \in Lines
<1>1. Taken \in Lines /\ Len(Taken) = current
  BY TakenLine
<1>2. Taken' \in Lines /\ Len(Taken') = current'
  BY TakenNext
<1>3. current \in Nat /\ current' = current + 1
  BY DEF Advance, ParserInv, CursorFits
<1>4. AsRead(Peek) \in Words
  <2>1. Peek \in Token \cup {Eof}
    <3>1. current + 1 \in 1 .. Len(tokens) /\ tokens \in Seq(Token \cup {Eof})
      BY DEF ParserInv, CursorFits
    <3> QED
      BY <3>1 DEF Peek
  <2> QED
    BY <2>1, ReadWords
<1>5. Taken' = [i \in 1 .. current + 1 |-> AsRead(tokens[i])]
  BY <1>3 DEF Taken
<1>6. /\ \A i \in 1 .. Len(Taken) : Taken'[i] = Taken[i]
      /\ Taken'[Len(Taken) + 1] = AsRead(Peek)
  <2>1. \A i \in 1 .. current : i \in 1 .. current + 1
    BY <1>3
  <2>2. current + 1 \in 1 .. current + 1
    BY <1>3
  <2>3. \A i \in 1 .. current : Taken[i] = AsRead(tokens[i])
    BY DEF Taken
  <2>4. \A i \in 1 .. current + 1 : Taken'[i] = AsRead(tokens[i])
    BY <1>5
  <2> QED
    BY <1>1, <2>1, <2>2, <2>3, <2>4 DEF Peek
<1> DEFINE t == Taken
           u == Taken'
           w == AsRead(Peek)
<1>7. t \in Lines /\ u \in Lines /\ w \in Words /\ Len(u) = Len(t) + 1
  BY <1>1, <1>2, <1>3, <1>4
<1>8. \A i \in 1 .. Len(t) : u[i] = t[i]
  BY <1>6
<1>9. u[Len(t) + 1] = w
  BY <1>6
<1> HIDE DEF t, u, w
<1>10. Append(t, w) = u
  BY <1>7, <1>8, <1>9, AppendIs DEF Lines
<1>11. t \o <<w>> = Append(t, w) /\ <<w>> \in Lines
  BY <1>7, AppendIsConcat DEF Lines
<1> QED
  BY <1>10, <1>11 DEF Cat, t, u, w

\* Most tokens read as what they are.
LEMMA PlainRead ==
  ASSUME NEW kind, Peek.kind = kind,
         kind \notin {"Identifier", "Numeric", "String", "Undefined", "Let"}
  PROVE  <<AsRead(Peek)>> = Tok(kind)
BY DEF AsRead, Tok

LEMMA LetRead ==
  ASSUME Peek.kind = "Let"
  PROVE  <<AsRead(Peek)>> = Tok("Var")
BY DEF AsRead, Tok

(***************************************************************************)
(* The texts of the tree's nodes, and the invariant: whatever the records  *)
(* still read, it belongs behind what has been read.                       *)
(***************************************************************************)

Readings(nds) ==
  {text \in Total : \A k \in 1 .. Len(nds) : text[k] = Wording(nds[k], text)}

ReadsOn(text) ==
  \A e \in Point : Run(text, todo, <<Taken, results>>, e) => Same(e[1], Flat(text, e[2]))

Reading == \A text \in Readings(nodes) : ReadsOn(text)

\* A step that leaves the innermost record these to do in its place.
Replaces(records) ==
  /\ records \in Seq(Record) /\ Become(records)
  /\ \A text \in Readings(nodes') :
       /\ text \in Readings(nodes)
       /\ \A m \in Point : Run(text, records, <<Taken', results'>>, m)
                             => Act(text, Head(todo), <<Taken, results>>, m)

Goes == (\E records : Replaces(records)) \/ UNCHANGED <<tokens, current, todo, results, nodes>>

LEMMA ReadingGoes ==
  ASSUME ParserInv, ParserInv', Reading, Goes
  PROVE  Reading'
<1>1. CASE UNCHANGED <<tokens, current, todo, results, nodes>>
  <2>1. Taken' = Taken
    BY <1>1 DEF Taken
  <2> QED
    BY <1>1, <2>1 DEF Reading, ReadsOn
<1>2. ASSUME NEW records, Replaces(records) PROVE Reading'
  <2>1. todo \in Seq(Record) /\ todo # <<>>
    BY NeverEmpty DEF ParserInv
  <2>2. Tail(todo) \in Seq(Record) /\ records \in Seq(Record) /\ todo' = records \o Tail(todo)
    BY <1>2, <2>1, HeadTailProperties DEF Replaces, Become
  <2>3. <<Taken, results>> \in Point /\ <<Taken', results'>> \in Point
    BY TakenLine, TakenNext
  <2> DEFINE s == <<Taken, results>>
             z == <<Taken', results'>>
  <2>4. ASSUME NEW text \in Readings(nodes'), NEW e \in Point, Run(text, todo', z, e)
        PROVE  Same(e[1], Flat(text, e[2]))
    <3> HIDE DEF s, z
    <3>1. Run(text, records \o Tail(todo), z, e)
      BY <2>2, <2>4
    <3>2. PICK m \in Point : Run(text, records, z, m) /\ Run(text, Tail(todo), m, e)
      BY <2>2, <3>1, RunSplit
    <3>3. text \in Readings(nodes) /\ Act(text, Head(todo), s, m)
      BY <1>2, <3>2 DEF Replaces, s, z
    <3>4. s \in Point
      BY <2>3 DEF s
    <3>5. Run(text, todo, s, e)
      BY <2>1, <3>2, <3>3, <3>4, RunFirst
    <3> QED
      BY <3>3, <3>5 DEF Reading, ReadsOn, s
  <2> QED
    BY <2>4 DEF Reading, ReadsOn, s, z
<1> QED
  BY <1>1, <1>2 DEF Goes

LEMMA ReadingTotal ==
  ASSUME NEW nds, NEW text \in Readings(nds)
  PROVE  text \in Total
BY DEF Readings

\* A record becomes others and takes no token.
LEMMA CallReads ==
  ASSUME ParserInv, ParserInv', NEW records \in Seq(Record), Become(records), Calling, Stay,
         \A text \in Total : \A s, e \in Point :
           Run(text, records, s, e) => Act(text, Head(todo), s, e)
  PROVE  Goes
<1>1. UNCHANGED <<tokens, results, nodes>> /\ current' = current
  BY DEF Calling, Stay
<1>2. Taken' = Taken
  BY <1>1, TakenStays
<1>3. <<Taken, results>> \in Point
  BY TakenLine
<1>4. ASSUME NEW text \in Readings(nodes'), NEW m \in Point,
             Run(text, records, <<Taken', results'>>, m)
      PROVE  Act(text, Head(todo), <<Taken, results>>, m)
  <2>1. text \in Total /\ Run(text, records, <<Taken, results>>, m)
    BY <1>1, <1>2, <1>4, ReadingTotal
  <2> QED
    BY <1>3, <2>1
<1>5. \A text \in Readings(nodes') : text \in Readings(nodes)
  BY <1>1
<1>6. Replaces(records)
  BY <1>4, <1>5 DEF Replaces
<1> QED
  BY <1>6 DEF Goes

\* A record takes a token and becomes others.
LEMMA PassReads ==
  ASSUME ParserInv, ParserInv', NEW records \in Seq(Record), Become(records), Calling, Advance,
         NEW kind, <<AsRead(Peek)>> = Tok(kind),
         \A text \in Total : \A s, z, e \in Point :
           z[1] = Cat(s[1], Tok(kind)) /\ z[2] = s[2] /\ Run(text, records, z, e)
             => Act(text, Head(todo), s, e)
  PROVE  Goes
<1>1. UNCHANGED <<tokens, results, nodes>>
  BY DEF Calling
<1>2. Taken' = Cat(Taken, Tok(kind))
  BY <1>1, TakenMoves
<1>3. <<Taken, results>> \in Point /\ <<Taken', results'>> \in Point
  BY TakenLine, TakenNext
<1>4. ASSUME NEW text \in Readings(nodes'), NEW m \in Point,
             Run(text, records, <<Taken', results'>>, m)
      PROVE  Act(text, Head(todo), <<Taken, results>>, m)
  <2> DEFINE s == <<Taken, results>>
             z == <<Taken', results'>>
  <2>1. z[1] = Cat(s[1], Tok(kind)) /\ z[2] = s[2] /\ s \in Point /\ z \in Point
    BY <1>1, <1>2, <1>3
  <2>2. text \in Total
    BY ReadingTotal
  <2>3. Run(text, records, z, m)
    BY <1>4
  <2> HIDE DEF s, z
  <2>4. Act(text, Head(todo), s, m)
    BY <2>1, <2>2, <2>3
  <2> QED
    BY <2>4 DEF s
<1>5. \A text \in Readings(nodes') : text \in Readings(nodes)
  BY <1>1
<1>6. Replaces(records)
  BY <1>4, <1>5 DEF Replaces
<1> QED
  BY <1>6 DEF Goes

\* A record is done.
LEMMA DoneReads ==
  ASSUME ParserInv, ParserInv', Become(<<>>),
         \A text \in Readings(nodes') :
           /\ text \in Readings(nodes)
           /\ Act(text, Head(todo), <<Taken, results>>, <<Taken', results'>>)
  PROVE  Goes
<1>1. <<>> \in Seq(Record)
  OBVIOUS
<1>2. Replaces(<<>>)
  BY <1>1, RunNothing DEF Replaces
<1> QED
  BY <1>2 DEF Goes

\* The node that is made, and what it reads like.
Places(n, node) ==
  \E at \in Nat \ {0} :
    /\ results' = Append(SubSeq(results, 1, Len(results) - n), at)
    /\ \A text \in Readings(nodes') : text \in Readings(nodes) /\ text[at] = Wording(node, text)

LEMMA MakingReads ==
  ASSUME ParserInv, NEW n, NEW node, Making(n, node)
  PROVE  Places(n, node)
<1> DEFINE same == {i \in DOMAIN nodes : nodes[i] = node}
           at == IF same = {} THEN Len(nodes) + 1 ELSE CHOOSE i \in same : TRUE
<1>1. /\ nodes' = IF same = {} THEN Append(nodes, node) ELSE nodes
      /\ results' = Append(SubSeq(results, 1, Len(results) - n), at)
  BY DEF Making
<1> DEFINE S == ASTNode(String, Value)
<1>a. nodes \in Seq(S)
  BY DEF ParserInv, WellTyped, IsTree
<1> HIDE DEF S
<1>2. /\ nodes \in Seq(S \cup {node}) /\ Len(nodes) \in Nat
      /\ DOMAIN nodes = 1 .. Len(nodes) /\ node \in S \cup {node}
  BY <1>a
<1>3. CASE same = {}
  <2>1. nodes' = Append(nodes, node) /\ at = Len(nodes) + 1
    BY <1>1, <1>3
  <2> HIDE DEF same, at
  <2>2. /\ Len(nodes') = Len(nodes) + 1 /\ nodes'[Len(nodes) + 1] = node
        /\ \A k \in 1 .. Len(nodes) : nodes'[k] = nodes[k]
    BY <1>2, <2>1, AppendProperties
  <2>3. at \in 1 .. Len(nodes') /\ at \in Nat \ {0} /\ nodes'[at] = node
    BY <1>2, <2>1, <2>2
  <2>4. \A k \in 1 .. Len(nodes) : k \in 1 .. Len(nodes')
    BY <1>2, <2>2
  <2>5. \A text \in Readings(nodes') : text \in Readings(nodes) /\ text[at] = Wording(node, text)
    BY <2>2, <2>3, <2>4 DEF Readings
  <2> QED
    BY <1>1, <2>3, <2>5 DEF Places
<1>4. CASE same # {}
  <2>1. at \in same /\ nodes' = nodes
    BY <1>1, <1>4
  <2>2. at \in 1 .. Len(nodes) /\ nodes[at] = node /\ at \in Nat \ {0}
    BY <1>2, <2>1
  <2> HIDE DEF at, same
  <2>3. \A text \in Readings(nodes') : text \in Readings(nodes) /\ text[at] = Wording(node, text)
    BY <2>1, <2>2 DEF Readings
  <2> QED
    BY <1>1, <2>2, <2>3 DEF Places
<1> QED
  BY <1>3, <1>4

(***************************************************************************)
(* The steps.                                                              *)
(***************************************************************************)

LEMMA HeadDo ==
  ASSUME ParserInv, NEW what \in Calls, Head(todo).do = what
  PROVE  Head(todo) = Do(what)
<1>1. Head(todo) \in Record
  BY HeadSigned DEF ParserInv
<1> QED
  BY <1>1, RecordIs

LEMMA RuleSeq == \A kind \in DOMAIN Rule : Rule[kind] \in Seq(Record)
<1> SUFFICES ASSUME NEW kind \in DOMAIN Rule
             PROVE  Rule[kind] \in Seq(Record)
  OBVIOUS
<1>1. Fresh \in Sorts /\ Sub(Fresh, Fresh)
  BY SomeSorts, SubFacts
<1>2. Does(Rule[kind], <<>>, <<Fresh>>)
  BY <1>1, RuleDoes
<1> QED
  BY <1>2 DEF Does

LEMMA DeclReads ==
  ASSUME ParserInv, ParserInv', ParseDecl
  PROVE  Goes
<1>1. Head(todo) = Do("decl")
  <2>1. "decl" \in Calls
    BY DEF Calls
  <2> QED
    BY <2>1, HeadDo DEF ParseDecl, At
<1>2. CASE Check("Var") \/ Check("Let")
  <2>1. Advance /\ Become(Rule.Var) /\ Calling
    BY <1>2 DEF ParseDecl
  <2>2. Rule.Var \in Seq(Record)
    <3>1. "Var" \in DOMAIN Rule
      BY DEF Rule
    <3> QED
      BY <3>1, RuleSeq
  <2>3. <<AsRead(Peek)>> = Tok("Var")
    BY <1>2, PlainRead, LetRead DEF Check
  <2>4. ASSUME NEW text \in Total, NEW s \in Point, NEW z \in Point, NEW e \in Point,
               z[1] = Cat(s[1], Tok("Var")), z[2] = s[2], Run(text, Rule.Var, z, e)
        PROVE  Act(text, Head(todo), s, e)
    BY <1>1, <2>4, VarGives
  <2> QED
    BY <2>1, <2>2, <2>3, <2>4, PassReads
<1>3. CASE ~ (Check("Var") \/ Check("Let"))
  <2>1. Stay /\ Become(<<Do("stmt")>>) /\ Calling
    BY <1>3 DEF ParseDecl
  <2>2. <<Do("stmt")>> \in Seq(Record)
    BY DoRecords
  <2>3. ASSUME NEW text \in Total, NEW s \in Point, NEW e \in Point, Run(text, <<Do("stmt")>>, s, e)
        PROVE  Act(text, Head(todo), s, e)
    BY <1>1, <2>3, DeclGives
  <2> QED
    BY <2>1, <2>2, <2>3, CallReads
<1> QED
  BY <1>2, <1>3

LEMMA ExprStatementSeq == ExprStatement \in Seq(Record)
<1>1. <<Do("exprStmt")>> \in Seq(Record) /\ Expr \in Seq(Record)
  BY DoRecords, ExprSeq
<1> QED
  BY <1>1, ConcatProperties DEF ExprStatement

LEMMA StmtReads ==
  ASSUME ParserInv, ParserInv', ParseStmt
  PROVE  Goes
<1>1. Head(todo) = Do("stmt")
  <2>1. "stmt" \in Calls
    BY DEF Calls
  <2> QED
    BY <2>1, HeadDo DEF ParseStmt, At
<1>2. CASE Peek.kind \in DOMAIN Rule \ {"Var"}
  <2> DEFINE kind == Peek.kind
  <2>1. Advance /\ Become(Rule[kind]) /\ Calling
    BY <1>2 DEF ParseStmt
  <2>2. Rule[kind] \in Seq(Record)
    BY <1>2, RuleSeq
  <2>3. <<AsRead(Peek)>> = Tok(kind)
    BY <1>2, PlainRead DEF Rule
  <2>4. kind \in DOMAIN Rule \ {"Var"}
    BY <1>2
  <2> HIDE DEF kind
  <2>5. ASSUME NEW text \in Total, NEW s \in Point, NEW z \in Point, NEW e \in Point,
               z[1] = Cat(s[1], Tok(kind)), z[2] = s[2], Run(text, Rule[kind], z, e)
        PROVE  Act(text, Head(todo), s, e)
    BY <1>1, <2>4, <2>5, StatementGives
  <2> QED
    BY <2>1, <2>2, <2>3, <2>5, PassReads
<1>3. CASE ~ (Peek.kind \in DOMAIN Rule \ {"Var"})
  <2>1. Stay /\ Become(ExprStatement) /\ Calling
    BY <1>3 DEF ParseStmt
  <2>2. ASSUME NEW text \in Total, NEW s \in Point, NEW e \in Point, Run(text, ExprStatement, s, e)
        PROVE  Act(text, Head(todo), s, e)
    BY <1>1, <2>2, ExprStatementGives
  <2> QED
    BY <2>1, <2>2, ExprStatementSeq, CallReads
<1> QED
  BY <1>2, <1>3

LEMMA ForInitReads ==
  ASSUME ParserInv, ParserInv', ParseForInit
  PROVE  Goes
<1>1. Head(todo) = Do("forInit")
  <2>1. "forInit" \in Calls
    BY DEF Calls
  <2> QED
    BY <2>1, HeadDo DEF ParseForInit, At
<1>2. CASE Check("Semicolon")
  <2>1. Advance /\ Become(<<>>) /\ Returning(0)
    BY <1>2 DEF ParseForInit, Check
  <2>2. nodes' = nodes /\ tokens' = tokens /\ results' = Append(results, 0)
    BY <2>1 DEF Returning
  <2>3. <<AsRead(Peek)>> = Tok("Semicolon")
    BY <1>2, PlainRead DEF Check
  <2>4. Taken' = Cat(Taken, Tok("Semicolon"))
    BY <2>1, <2>2, <2>3, TakenMoves
  <2>5. <<Taken, results>> \in Point /\ <<Taken', results'>> \in Point
    BY TakenLine, TakenNext
  <2>6. ASSUME NEW text \in Readings(nodes')
        PROVE  /\ text \in Readings(nodes)
               /\ Act(text, Head(todo), <<Taken, results>>, <<Taken', results'>>)
    <3> DEFINE s == <<Taken, results>>
               e == <<Taken', results'>>
               item == Do("forInit")
    <3>1. /\ Single(item) /\ Takes(item) = 0 /\ Tok("Semicolon") \in Skipped(item)
      BY OptionFacts
    <3>2. /\ s \in Point /\ e \in Point /\ e[2] = Append(s[2], 0) /\ e[1] = Cat(s[1], Tok("Semicolon"))
      BY <2>2, <2>4, <2>5
    <3>3. text \in Total /\ text \in Readings(nodes)
      BY <2>2, ReadingTotal
    <3> HIDE DEF s, e, item
    <3>4. Act(text, item, s, e)
      BY <3>1, <3>2, <3>3, Spellings, SkipGives
    <3> QED
      BY <1>1, <3>3, <3>4 DEF s, e, item
  <2> QED
    BY <2>1, <2>6, DoneReads
<1>3. CASE Check("Var") /\ ~Check("Semicolon")
  <2>1. Advance /\ Become(Rule.Var) /\ Calling
    BY <1>3 DEF ParseForInit, Check
  <2>2. Rule.Var \in Seq(Record)
    <3>1. "Var" \in DOMAIN Rule
      BY DEF Rule
    <3> QED
      BY <3>1, RuleSeq
  <2>3. <<AsRead(Peek)>> = Tok("Var")
    BY <1>3, PlainRead DEF Check
  <2>4. ASSUME NEW text \in Total, NEW s \in Point, NEW z \in Point, NEW e \in Point,
               z[1] = Cat(s[1], Tok("Var")), z[2] = s[2], Run(text, Rule.Var, z, e)
        PROVE  Act(text, Head(todo), s, e)
    BY <1>1, <2>4, VarGives
  <2> QED
    BY <2>1, <2>2, <2>3, <2>4, PassReads
<1>4. CASE ~Check("Var") /\ ~Check("Semicolon")
  <2>1. Stay /\ Become(ExprStatement) /\ Calling
    BY <1>4 DEF ParseForInit
  <2>2. ASSUME NEW text \in Total, NEW s \in Point, NEW e \in Point, Run(text, ExprStatement, s, e)
        PROVE  Act(text, Head(todo), s, e)
    BY <1>1, <2>2, ExprStatementGives
  <2> QED
    BY <2>1, <2>2, ExprStatementSeq, CallReads
<1> QED
  BY <1>2, <1>3, <1>4

LEMMA NameRead ==
  ASSUME ParserInv, Peek.kind = "Identifier"
  PROVE  Peek.literal.val \in Nat /\ <<AsRead(Peek)>> = Nm(Peek.literal.val)
<1>1. Peek \in Token \cup {Eof}
  <2>1. current + 1 \in 1 .. Len(tokens) /\ tokens \in Seq(Token \cup {Eof})
    BY DEF ParserInv, CursorFits
  <2> QED
    BY <2>1 DEF Peek
<1>2. Peek \in Token
  BY <1>1 DEF Eof
<1>3. Peek.literal.kind = "String" /\ Peek.literal \in Value
  <2>1. current + 1 \in 1 .. Len(tokens)
    BY DEF ParserInv, CursorFits
  <2> QED
    BY <2>1 DEF ParserInv, CursorFits, Peek
<1>4. Peek.literal = Str(Peek.literal.val) /\ Peek.literal.val \in Nat
  <2> DEFINE v == Peek.literal
  <2> HIDE DEF v
  <2>1. v.kind = "String" /\ v \in Value
    BY <1>3 DEF v
  <2>2. v \in [kind : {"String"}, val : String]
    BY <2>1 DEF Value, Null, Undefined
  <2>3. v = Str(v.val) /\ v.val \in String
    BY <2>2 DEF Str
  <2> QED
    BY <2>3, StringAssumption DEF v
<1>5. Peek = Named(Peek.literal.val)
  BY <1>2, <1>4 DEF Token, Named, Word
<1>6. AsRead(Peek) = Peek
  BY DEF AsRead
<1> QED
  BY <1>4, <1>5, <1>6 DEF Nm

LEMMA ConsumeReads ==
  ASSUME ParserInv, ParserInv', ParseConsume
  PROVE  Goes
<1> DEFINE kind == Head(todo).kind
<1>1. Head(todo) = Consume(kind) /\ kind \in Consumed
  BY HeadSigned, RecordIs DEF ParseConsume, At, ParserInv
<1>2. CASE ~Check(kind)
  BY <1>2 DEF ParseConsume, Fail, Goes
<1>3. CASE Check(kind)
  <2>1. /\ Advance /\ Become(<<>>) /\ Peek.kind = kind
        /\ IF kind = "Identifier" THEN Returning(Peek.literal.val) ELSE Calling
    BY <1>3 DEF ParseConsume, Check
  <2>2. nodes' = nodes /\ tokens' = tokens
    BY <2>1 DEF Returning, Calling
  <2>3. Taken' = Cat(Taken, <<AsRead(Peek)>>)
    BY <2>1, <2>2, TakenMoves
  <2>4. <<Taken, results>> \in Point /\ <<Taken', results'>> \in Point
    BY TakenLine, TakenNext
  <2> HIDE DEF kind
  <2>5. ASSUME NEW text \in Readings(nodes')
        PROVE  /\ text \in Readings(nodes)
               /\ Act(text, Head(todo), <<Taken, results>>, <<Taken', results'>>)
    <3> DEFINE s == <<Taken, results>>
               e == <<Taken', results'>>
    <3>1. CASE kind = "Identifier"
      <4> DEFINE n == Peek.literal.val
      <4>1. n \in Nat /\ <<AsRead(Peek)>> = Nm(n)
        BY <2>1, <3>1, NameRead
      <4>2. results' = Append(results, n)
        BY <2>1, <3>1 DEF Returning
      <4> HIDE DEF n
      <4>3. s \in Point /\ e \in Point /\ e[1] = Cat(s[1], Nm(n)) /\ e[2] = Append(s[2], n)
        BY <2>3, <2>4, <4>1, <4>2
      <4> HIDE DEF s, e
      <4>4. Act(text, Consume("Identifier"), s, e)
        BY <4>1, <4>3, NameGives
      <4> QED
        BY <1>1, <2>2, <3>1, <4>4 DEF s, e
    <3>2. CASE kind # "Identifier"
      <4>1. kind \in Fixed
        BY <1>1, <3>2 DEF Consumed, Fixed
      <4>2. <<AsRead(Peek)>> = Tok(kind)
        BY <2>1, <4>1, PlainRead DEF Fixed
      <4>3. results' = results
        BY <2>1, <3>2 DEF Calling
      <4>4. s \in Point /\ e \in Point /\ e[1] = Cat(s[1], Tok(kind)) /\ e[2] = s[2]
        BY <2>3, <2>4, <4>2, <4>3
      <4> HIDE DEF s, e
      <4>5. Act(text, Consume(kind), s, e)
        BY <4>1, <4>4, ConsumeGives
      <4> QED
        BY <1>1, <2>2, <4>5 DEF s, e
    <3> QED
      BY <3>1, <3>2
  <2> QED
    BY <2>1, <2>5, DoneReads
<1> QED
  BY <1>2, <1>3

\* A record that takes nothing returns the null pointer.
LEMMA NullReads ==
  ASSUME ParserInv, ParserInv', Stay, Become(<<>>), Returning(0),
         \A text \in Total : \A s, e \in Point :
           e[1] = s[1] /\ e[2] = Append(s[2], 0) => Act(text, Head(todo), s, e)
  PROVE  Goes
<1>1. nodes' = nodes /\ tokens' = tokens /\ results' = Append(results, 0) /\ current' = current
  BY DEF Returning, Stay
<1>2. Taken' = Taken
  BY <1>1, TakenStays
<1>3. <<Taken, results>> \in Point /\ <<Taken', results'>> \in Point
  BY TakenLine, TakenNext
<1>4. ASSUME NEW text \in Readings(nodes')
      PROVE  /\ text \in Readings(nodes)
             /\ Act(text, Head(todo), <<Taken, results>>, <<Taken', results'>>)
  <2> DEFINE s == <<Taken, results>>
             e == <<Taken', results'>>
  <2>1. s \in Point /\ e \in Point /\ e[1] = s[1] /\ e[2] = Append(s[2], 0)
    BY <1>1, <1>2, <1>3
  <2>2. text \in Total /\ text \in Readings(nodes)
    BY <1>1, ReadingTotal
  <2> HIDE DEF s, e
  <2>3. Act(text, Head(todo), s, e)
    BY <2>1, <2>2
  <2> QED
    BY <2>2, <2>3 DEF s, e
<1> QED
  BY <1>4, DoneReads

LEMMA UnlessReads ==
  ASSUME ParserInv, ParserInv', ParseUnless
  PROVE  Goes
<1> DEFINE kind == Head(todo).kind
<1>1. Head(todo) = Unless(kind)
  BY HeadSigned, RecordIs DEF ParseUnless, At, ParserInv
<1>2. CASE Check(kind)
  <2>1. Stay /\ Become(<<>>) /\ Returning(0)
    BY <1>2 DEF ParseUnless
  <2>2. Pushes(Unless(kind)) /\ ~Made(Unless(kind))
    BY PushFacts
  <2>3. ASSUME NEW text \in Total, NEW s \in Point, NEW e \in Point,
               e[1] = s[1], e[2] = Append(s[2], 0)
        PROVE  Act(text, Head(todo), s, e)
    BY <1>1, <2>2, <2>3, NullGives
  <2> QED
    BY <2>1, <2>3, NullReads
<1>3. CASE ~Check(kind)
  <2>1. Stay /\ Become(Expr) /\ Calling
    BY <1>3 DEF ParseUnless
  <2>2. ASSUME NEW text \in Total, NEW s \in Point, NEW e \in Point, Run(text, Expr, s, e)
        PROVE  Act(text, Head(todo), s, e)
    BY <1>1, <2>2, UnlessGives
  <2> QED
    BY <2>1, <2>2, ExprSeq, CallReads
<1> QED
  BY <1>2, <1>3

LEMMA OptionGives ==
  ASSUME NEW what \in {"initializer", "else"}, NEW text \in Total, NEW s \in Point, NEW e \in Point,
         e[1] = s[1], e[2] = Append(s[2], 0)
  PROVE  Act(text, Do(what), s, e)
<1> DEFINE item == Do(what)
<1>1. Single(item) /\ Takes(item) = 0 /\ <<>> \in Skipped(item)
  BY OptionFacts
<1>2. <<>> \in Lines /\ e[1] = Cat(s[1], <<>>)
  BY PointFacts, CatNothing
<1> HIDE DEF item
<1>3. Act(text, item, s, e)
  BY <1>1, <1>2, SkipGives
<1> QED
  BY <1>3 DEF item

LEMMA InitializerReads ==
  ASSUME ParserInv, ParserInv', At("initializer"),
         IF Check("Equal") THEN Advance /\ Become(Expr) /\ Calling
                           ELSE Stay /\ Become(<<>>) /\ Returning(0)
  PROVE  Goes
<1>1. Head(todo) = Do("initializer")
  <2>1. "initializer" \in Calls
    BY DEF Calls
  <2> QED
    BY <2>1, HeadDo DEF At
<1>2. CASE Check("Equal")
  <2>1. Advance /\ Become(Expr) /\ Calling /\ Peek.kind = "Equal"
    BY <1>2 DEF Check
  <2>2. <<AsRead(Peek)>> = Tok("Equal")
    BY <2>1, PlainRead
  <2>3. ASSUME NEW text \in Total, NEW s \in Point, NEW z \in Point, NEW e \in Point,
               z[1] = Cat(s[1], Tok("Equal")), z[2] = s[2], Run(text, Expr, z, e)
        PROVE  Act(text, Head(todo), s, e)
    BY <1>1, <2>3, InitGives
  <2> QED
    BY <2>1, <2>2, <2>3, ExprSeq, PassReads
<1>3. CASE ~Check("Equal")
  <2>1. Stay /\ Become(<<>>) /\ Returning(0)
    BY <1>3
  <2>2. ASSUME NEW text \in Total, NEW s \in Point, NEW e \in Point,
               e[1] = s[1], e[2] = Append(s[2], 0)
        PROVE  Act(text, Head(todo), s, e)
    BY <1>1, <2>2, OptionGives
  <2> QED
    BY <2>1, <2>2, NullReads
<1> QED
  BY <1>2, <1>3

LEMMA ElseReads ==
  ASSUME ParserInv, ParserInv', At("else"),
         IF Check("Else") THEN Advance /\ Become(<<Do("stmt")>>) /\ Calling
                          ELSE Stay /\ Become(<<>>) /\ Returning(0)
  PROVE  Goes
<1>1. Head(todo) = Do("else")
  <2>1. "else" \in Calls
    BY DEF Calls
  <2> QED
    BY <2>1, HeadDo DEF At
<1>2. CASE Check("Else")
  <2>1. Advance /\ Become(<<Do("stmt")>>) /\ Calling /\ Peek.kind = "Else"
    BY <1>2 DEF Check
  <2>2. <<AsRead(Peek)>> = Tok("Else")
    BY <2>1, PlainRead
  <2>3. ASSUME NEW text \in Total, NEW s \in Point, NEW z \in Point, NEW e \in Point,
               z[1] = Cat(s[1], Tok("Else")), z[2] = s[2], Run(text, <<Do("stmt")>>, z, e)
        PROVE  Act(text, Head(todo), s, e)
    BY <1>1, <2>3, ElseGives
  <2>4. <<Do("stmt")>> \in Seq(Record)
    BY DoRecords
  <2> QED
    BY <2>1, <2>2, <2>3, <2>4, PassReads
<1>3. CASE ~Check("Else")
  <2>1. Stay /\ Become(<<>>) /\ Returning(0)
    BY <1>3
  <2>2. ASSUME NEW text \in Total, NEW s \in Point, NEW e \in Point,
               e[1] = s[1], e[2] = Append(s[2], 0)
        PROVE  Act(text, Head(todo), s, e)
    BY <1>1, <2>2, OptionGives
  <2> QED
    BY <2>1, <2>2, NullReads
<1> QED
  BY <1>2, <1>3

LEMMA OptionalReads ==
  ASSUME ParserInv, ParserInv', ParseOptional
  PROVE  Goes
<1>1. CASE /\ At("initializer")
           /\ IF Check("Equal") THEN Advance /\ Become(Expr) /\ Calling
                                ELSE Stay /\ Become(<<>>) /\ Returning(0)
  BY <1>1, InitializerReads
<1>2. CASE /\ At("else")
           /\ IF Check("Else") THEN Advance /\ Become(<<Do("stmt")>>) /\ Calling
                               ELSE Stay /\ Become(<<>>) /\ Returning(0)
  BY <1>2, ElseReads
<1> QED
  BY <1>1, <1>2 DEF ParseOptional

(***************************************************************************)
(* The lists of arguments and parameters.                                  *)
(***************************************************************************)

LEMMA ListRecords ==
  ASSUME NEW of \in {"params", "args"}, NEW n \in Nat
  PROVE  /\ Rest(of, n) \in Seq(Record) /\ <<Item(of, n)>> \in Seq(Record)
         /\ (IF of = "params" THEN <<Consume("Identifier")>> ELSE Expr) \o <<Comma(of, n + 1)>>
              \in Seq(Record)
<1>1. ASSUME of = "params"
      PROVE  Rest(of, n) \in Seq(Record)
  <2>1. Rest(of, n) = <<Consume("RParen"), Consume("LBrace"), Statements("Block", 0),
                        BuildList("FuncDecl", n)>>
    BY <1>1 DEF Rest
  <2>2. Statements("Block", 0) \in Record /\ BuildList("FuncDecl", n) \in Record
    BY RecordFacts, BuildRecords
  <2>3. \A a, b, c, d \in Record : <<a, b, c, d>> \in Seq(Record)
    OBVIOUS
  <2>4. Consume("RParen") \in Record /\ Consume("LBrace") \in Record
    BY TokenRecords
  <2>5. <<Consume("RParen"), Consume("LBrace"), Statements("Block", 0), BuildList("FuncDecl", n)>>
          \in Seq(Record)
    BY <2>2, <2>3, <2>4, Zenon
  <2> QED
    BY <2>1, <2>5
<1>2. ASSUME of = "args"
      PROVE  Rest(of, n) \in Seq(Record)
  <2>1. Rest(of, n) = <<Consume("RParen"), BuildList("Call", n), Do("calls")>>
    BY <1>2 DEF Rest
  <2>2. \A a, b, c \in Record : <<a, b, c>> \in Seq(Record)
    OBVIOUS
  <2>3. Consume("RParen") \in Record /\ BuildList("Call", n) \in Record /\ Do("calls") \in Record
    BY TokenRecords, BuildRecords, DoRecords
  <2>4. <<Consume("RParen"), BuildList("Call", n), Do("calls")>> \in Seq(Record)
    BY <2>2, <2>3, Zenon
  <2> QED
    BY <2>1, <2>4
<1>3. Rest(of, n) \in Seq(Record)
  BY <1>1, <1>2
<1>4. Item(of, n) \in Record /\ Comma(of, n + 1) \in Record
  <2>1. n + 1 \in Nat
    OBVIOUS
  <2> QED
    BY <2>1, RecordFacts
<1>5. <<Item(of, n)>> \in Seq(Record) /\ <<Comma(of, n + 1)>> \in Seq(Record)
  BY <1>4
<1>6. (IF of = "params" THEN <<Consume("Identifier")>> ELSE Expr) \in Seq(Record)
  BY TokenRecords, ExprSeq
<1>7. (IF of = "params" THEN <<Consume("Identifier")>> ELSE Expr) \o <<Comma(of, n + 1)>>
        \in Seq(Record)
  BY <1>5, <1>6, ConcatProperties
<1> QED
  BY <1>3, <1>5, <1>7

LEMMA ItemsReads ==
  ASSUME ParserInv, ParserInv', ParseItems
  PROVE  Goes
<1>1. PICK of \in {"params", "args"} :
        /\ At(of) /\ Stay /\ Calling
        /\ Become(IF Check("RParen") THEN Rest(of, 0) ELSE <<Item(of, 0)>>)
  BY DEF ParseItems
<1>2. Head(todo) = Do(of)
  BY <1>1, HeadDo DEF At, Calls
<1>3. CASE Check("RParen")
  <2>1. Become(Rest(of, 0))
    BY <1>1, <1>3
  <2>2. Rest(of, 0) \in Seq(Record)
    BY ListRecords
  <2>3. ASSUME NEW text \in Total, NEW s \in Point, NEW e \in Point, Run(text, Rest(of, 0), s, e)
        PROVE  Act(text, Head(todo), s, e)
    BY <1>2, <2>3, NoneGoes
  <2> QED
    BY <1>1, <2>1, <2>2, <2>3, CallReads
<1>4. CASE ~Check("RParen")
  <2>1. Become(<<Item(of, 0)>>)
    BY <1>1, <1>4
  <2>2. <<Item(of, 0)>> \in Seq(Record)
    BY ListRecords
  <2>3. ASSUME NEW text \in Total, NEW s \in Point, NEW e \in Point, Run(text, <<Item(of, 0)>>, s, e)
        PROVE  Act(text, Head(todo), s, e)
    BY <1>2, <2>3, ItemFirst
  <2> QED
    BY <1>1, <2>1, <2>2, <2>3, CallReads
<1> QED
  BY <1>3, <1>4

\* The parser stops.
LEMMA FailReads ==
  ASSUME NEW why, Fail(why)
  PROVE  Goes
  BY DEF Fail, Goes

LEMMA ItemReads ==
  ASSUME ParserInv, ParserInv', ParseItem
  PROVE  Goes
<1> DEFINE of == Head(todo).of
           n == Head(todo).count
<1>1. Head(todo) = Item(of, n) /\ of \in {"params", "args"} /\ n \in Nat
  BY HeadSigned, RecordIs DEF ParseItem, At, ParserInv
<1> DEFINE records == (IF of = "params" THEN <<Consume("Identifier")>> ELSE Expr)
                         \o <<Comma(of, n + 1)>>
<1>2. CASE n >= MaxArgs
  BY <1>2, FailReads DEF ParseItem
<1>3. CASE ~(n >= MaxArgs)
  <2>1. Stay /\ Calling /\ Become(records)
    BY <1>3 DEF ParseItem
  <2>2. records \in Seq(Record)
    BY <1>1, ListRecords
  <2>3. ASSUME NEW text \in Total, NEW s \in Point, NEW e \in Point, Run(text, records, s, e)
        PROVE  Act(text, Head(todo), s, e)
    BY <1>1, <2>3, ItemGoes
  <2> HIDE DEF records
  <2> QED
    BY <2>1, <2>2, <2>3, CallReads
<1> QED
  BY <1>2, <1>3

LEMMA CommaReads ==
  ASSUME ParserInv, ParserInv', ParseComma
  PROVE  Goes
<1> DEFINE of == Head(todo).of
           n == Head(todo).count
<1>1. Head(todo) = Comma(of, n) /\ of \in {"params", "args"} /\ n \in Nat
  BY HeadSigned, RecordIs DEF ParseComma, At, ParserInv
<1>2. CASE Check("Comma")
  <2>1. Advance /\ Calling /\ Become(<<Item(of, n)>>)
    BY <1>2 DEF ParseComma
  <2>2. <<Item(of, n)>> \in Seq(Record)
    BY <1>1, ListRecords
  <2>3. <<AsRead(Peek)>> = Tok("Comma")
    BY <1>2, PlainRead DEF Check
  <2>4. ASSUME NEW text \in Total, NEW s \in Point, NEW z \in Point, NEW e \in Point,
               z[1] = Cat(s[1], Tok("Comma")), z[2] = s[2], Run(text, <<Item(of, n)>>, z, e)
        PROVE  Act(text, Head(todo), s, e)
    BY <1>1, <2>4, CommaGoes
  <2> QED
    BY <2>1, <2>2, <2>3, <2>4, PassReads
<1>3. CASE ~Check("Comma")
  <2>1. Stay /\ Calling /\ Become(Rest(of, n))
    BY <1>3 DEF ParseComma
  <2>2. Rest(of, n) \in Seq(Record)
    BY <1>1, ListRecords
  <2>3. ASSUME NEW text \in Total, NEW s \in Point, NEW e \in Point, Run(text, Rest(of, n), s, e)
        PROVE  Act(text, Head(todo), s, e)
    BY <1>1, <2>3, EndGoes
  <2> QED
    BY <2>1, <2>2, <2>3, CallReads
<1> QED
  BY <1>2, <1>3

(***************************************************************************)
(* Expressions.                                                            *)
(***************************************************************************)

\* The latest result on the others.
Topped(base, k) == base \in Seq(Nat) /\ k \in Nat /\ results = Append(base, k)

LEMMA OneSplit ==
  ASSUME ParserInv, \A sig \in Signature(Head(todo)) : Len(sig.takes) = 1
  PROVE  \E k \in Nat : Topped(SubSeq(results, 1, Len(results) - 1), k) /\ Parts(1) = <<k>>
<1> DEFINE base == SubSeq(results, 1, Len(results) - 1)
<1>1. base \in Seq(Nat) /\ Parts(1) \in Seq(Nat) /\ Len(Parts(1)) = 1 /\ results = base \o Parts(1)
  BY Enough DEF Split
<1> HIDE DEF base
<1>2. PICK k \in Nat : Parts(1) = <<k>>
  BY <1>1, SeqOne
<1>3. Append(base, k) = base \o <<k>>
  BY <1>1, Stacked
<1>4. Topped(base, k)
  BY <1>1, <1>2, <1>3 DEF Topped
<1> QED
  BY <1>2, <1>4 DEF base

\* A loop that ends returns what it has.
LEMMA StopReads ==
  ASSUME ParserInv, ParserInv', Stay, Become(<<>>), Calling,
         NEW item, Head(todo) = item, Plain(item), Takes(item) = 1, ~Made(item),
         \A text, p : Before(text, item, p) = text[p[1]],
         \A sig \in Signature(item) : Len(sig.takes) = 1
  PROVE  Goes
<1>1. PICK k \in Nat : Topped(SubSeq(results, 1, Len(results) - 1), k)
  BY OneSplit
<1>2. PICK base \in Seq(Nat) : results = Append(base, k)
  BY <1>1 DEF Topped
<1>3. nodes' = nodes /\ results' = results /\ tokens' = tokens /\ current' = current
  BY DEF Calling, Stay
<1>4. Taken' = Taken
  BY <1>3, TakenStays
<1>5. <<Taken, results>> \in Point
  BY TakenLine
<1>6. ASSUME NEW text \in Readings(nodes')
      PROVE  /\ text \in Readings(nodes)
             /\ Act(text, Head(todo), <<Taken, results>>, <<Taken', results'>>)
  <2>1. text \in Total /\ text \in Readings(nodes)
    BY <1>3, ReadingTotal
  <2> DEFINE s == <<Taken, results>>
  <2>2. s \in Point /\ s[2] = Append(base, k) /\ <<Taken', results'>> = s
    BY <1>2, <1>3, <1>4, <1>5
  <2> HIDE DEF s
  <2>3. Act(text, item, s, s)
    BY <1>1, <2>1, <2>2, DoneGives
  <2> QED
    BY <2>1, <2>2, <2>3 DEF s
<1> QED
  BY <1>6, DoneReads

LEMMA MoreReads ==
  ASSUME ParserInv, ParserInv', ParseMore
  PROVE  Goes
<1> DEFINE l == Head(todo).level
           op == Peek.kind
<1>1. Head(todo) = More(l) /\ Head(todo).do = "more" /\ Signature(Head(todo)) # {}
  BY HeadSigned, RecordIs DEF ParseMore, At, ParserInv
<1>2. Signature(Head(todo)) = {Sig(<<Ex(k)>>, <<Ex(k)>>) : k \in {l} \cap DOMAIN Level}
  BY <1>1 DEF Signature
<1>3. l \in 1 .. 6 /\ l + 1 \in 1 .. 7
  BY <1>1, <1>2 DEF Level
<1>4. \A sig \in Signature(Head(todo)) : Len(sig.takes) = 1
  BY <1>2 DEF Sig
<1> HIDE DEF l
<1>5. CASE op \in Level[l]
  <2> DEFINE records == Operand(l + 1) \o <<BuildOp(KindOf(op), op), More(l)>>
  <2>1. Advance /\ Calling /\ Become(records)
    BY <1>5 DEF ParseMore, l
  <2>2. records \in Seq(Record)
    <3>1. op \in Operator /\ KindOf(op) \in Constructed
      BY <1>3, <1>5, LevelOperators
    <3>2. BuildOp(KindOf(op), op) \in Record /\ More(l) \in Record
      BY <1>3, <3>1, RecordFacts
    <3>3. <<BuildOp(KindOf(op), op), More(l)>> \in Seq(Record)
      BY <3>2
    <3>4. Operand(l + 1) \in Seq(Record)
      BY <1>3, ExprSeq
    <3> QED
      BY <3>3, <3>4, ConcatProperties
  <2>3. op \in BinaryOp \cup LogicalOp
    BY <1>3, <1>5, LevelOperators
  <2>4. <<AsRead(Peek)>> = Tok(op)
    BY <2>3, PlainRead DEF BinaryOp, LogicalOp
  <2>5. ASSUME NEW text \in Total, NEW s \in Point, NEW z \in Point, NEW e \in Point,
               z[1] = Cat(s[1], Tok(op)), z[2] = s[2], Run(text, records, z, e)
        PROVE  Act(text, Head(todo), s, e)
    BY <1>1, <1>3, <1>5, <2>5, MoreGoes
  <2> HIDE DEF records, op
  <2> QED
    BY <2>1, <2>2, <2>4, <2>5, PassReads
<1>6. CASE op \notin Level[l]
  <2>1. Stay /\ Become(<<>>) /\ Calling
    BY <1>6 DEF ParseMore, l
  <2>2. /\ Plain(More(l)) /\ Takes(More(l)) = 1 /\ ~Made(More(l))
        /\ \A text, p : Before(text, More(l), p) = text[p[1]]
    BY TakeFacts
  <2> QED
    BY <1>1, <1>4, <2>1, <2>2, StopReads
<1> QED
  BY <1>5, <1>6

LEMMA UnaryReads ==
  ASSUME ParserInv, ParserInv', ParseUnary
  PROVE  Goes
<1>1. Head(todo) = Do("unary")
  BY HeadDo DEF ParseUnary, At, Calls
<1> DEFINE op == Peek.kind
<1>2. CASE op \in UnaryOp
  <2> DEFINE records == <<Do("unary"), BuildOp("Unary", op)>>
  <2>1. Advance /\ Calling /\ Become(records)
    BY <1>2 DEF ParseUnary
  <2>2. records \in Seq(Record)
    <3>1. op \in Operator /\ "Unary" \in Constructed
      BY <1>2 DEF Operator, Constructed
    <3>2. BuildOp("Unary", op) \in Record /\ Do("unary") \in Record
      BY <3>1, RecordFacts, DoRecords
    <3> QED
      BY <3>2
  <2>3. <<AsRead(Peek)>> = Tok(op)
    BY <1>2, PlainRead DEF UnaryOp
  <2>4. ASSUME NEW text \in Total, NEW s \in Point, NEW z \in Point, NEW e \in Point,
               z[1] = Cat(s[1], Tok(op)), z[2] = s[2], Run(text, records, z, e)
        PROVE  Act(text, Head(todo), s, e)
    BY <1>1, <1>2, <2>4, UnaryGoes
  <2> HIDE DEF records, op
  <2> QED
    BY <2>1, <2>2, <2>3, <2>4, PassReads
<1>3. CASE op \notin UnaryOp
  <2> DEFINE records == <<Do("primary"), Do("calls")>>
  <2>1. Stay /\ Calling /\ Become(records)
    BY <1>3 DEF ParseUnary
  <2>2. records \in Seq(Record)
    BY DoRecords
  <2>3. ASSUME NEW text \in Total, NEW s \in Point, NEW e \in Point, Run(text, records, s, e)
        PROVE  Act(text, Head(todo), s, e)
    BY <1>1, <2>3, OperandFirst
  <2> HIDE DEF records
  <2> QED
    BY <2>1, <2>2, <2>3, CallReads
<1> QED
  BY <1>2, <1>3

LEMMA CallsReads ==
  ASSUME ParserInv, ParserInv', ParseCalls
  PROVE  Goes
<1>1. Head(todo) = Do("calls")
  BY HeadDo DEF ParseCalls, At, Calls
<1>2. CASE Check("LParen")
  <2>1. Advance /\ Calling /\ Become(<<Do("args")>>)
    BY <1>2 DEF ParseCalls
  <2>2. <<Do("args")>> \in Seq(Record)
    BY DoRecords
  <2>3. <<AsRead(Peek)>> = Tok("LParen")
    BY <1>2, PlainRead DEF Check
  <2>4. ASSUME NEW text \in Total, NEW s \in Point, NEW z \in Point, NEW e \in Point,
               z[1] = Cat(s[1], Tok("LParen")), z[2] = s[2], Run(text, <<Do("args")>>, z, e)
        PROVE  Act(text, Head(todo), s, e)
    BY <1>1, <2>4, CallGoes
  <2> QED
    BY <2>1, <2>2, <2>3, <2>4, PassReads
<1>3. CASE ~Check("LParen")
  <2>1. Stay /\ Become(<<>>) /\ Calling
    BY <1>3 DEF ParseCalls
  <2>2. /\ Plain(Do("calls")) /\ Takes(Do("calls")) = 1 /\ ~Made(Do("calls"))
        /\ \A text, p : Before(text, Do("calls"), p) = text[p[1]]
    BY TakeFacts
  <2>3. \A sig \in Signature(Do("calls")) : Len(sig.takes) = 1
    BY DEF Signature, Do, Sig
  <2> QED
    BY <1>1, <2>1, <2>2, <2>3, StopReads
<1> QED
  BY <1>2, <1>3

LEMMA AssignmentReads ==
  ASSUME ParserInv, ParserInv', ParseAssignment
  PROVE  Goes
<1>1. Head(todo) = Do("assign")
  BY HeadDo DEF ParseAssignment, At, Calls
<1>2. CASE Check("Equal")
  <2> DEFINE records == Expr \o <<Do("assignTo")>>
  <2>1. Advance /\ Calling /\ Become(records)
    BY <1>2 DEF ParseAssignment
  <2>2. records \in Seq(Record)
    <3>1. <<Do("assignTo")>> \in Seq(Record)
      BY DoRecords
    <3> QED
      BY <3>1, ExprSeq, ConcatProperties
  <2>3. <<AsRead(Peek)>> = Tok("Equal")
    BY <1>2, PlainRead DEF Check
  <2>4. ASSUME NEW text \in Total, NEW s \in Point, NEW z \in Point, NEW e \in Point,
               z[1] = Cat(s[1], Tok("Equal")), z[2] = s[2], Run(text, records, z, e)
        PROVE  Act(text, Head(todo), s, e)
    BY <1>1, <2>4, AssignGoes
  <2> HIDE DEF records
  <2> QED
    BY <2>1, <2>2, <2>3, <2>4, PassReads
<1>3. CASE ~Check("Equal")
  <2>1. Stay /\ Become(<<>>) /\ Calling
    BY <1>3 DEF ParseAssignment
  <2>2. /\ Plain(Do("assign")) /\ Takes(Do("assign")) = 1 /\ ~Made(Do("assign"))
        /\ \A text, p : Before(text, Do("assign"), p) = text[p[1]]
    BY TakeFacts
  <2>3. \A sig \in Signature(Do("assign")) : Len(sig.takes) = 1
    BY DEF Signature, Do, Sig
  <2> QED
    BY <1>1, <2>1, <2>2, <2>3, StopReads
<1> QED
  BY <1>2, <1>3

\* The tokens of literals have the values that the lexer gives them.
Spoken ==
  \A i \in 1 .. Len(tokens) :
    /\ tokens[i].kind \in {"String", "Undefined"} => tokens[i].literal.kind = "String"
    /\ tokens[i].kind = "Numeric" => tokens[i].literal.kind = "Number"

LEMMA PeekToken ==
  ASSUME ParserInv, Peek.kind # "Eof"
  PROVE  Peek \in Token /\ current + 1 \in 1 .. Len(tokens)
<1>1. current + 1 \in 1 .. Len(tokens) /\ tokens \in Seq(Token \cup {Eof})
  BY DEF ParserInv, CursorFits
<1>2. Peek \in Token \cup {Eof}
  BY <1>1 DEF Peek
<1> QED
  BY <1>1, <1>2 DEF Eof

LEMMA LiteralRead ==
  ASSUME ParserInv, Spoken, Peek.kind \in LiteralKind
  PROVE  <<AsRead(Peek)>> = <<LiteralWord(LiteralOf(Peek))>>
<1>1. Peek \in Token /\ current + 1 \in 1 .. Len(tokens)
  BY PeekToken DEF LiteralKind
<1>2. /\ Peek.kind \in {"String", "Undefined"} => Peek.literal.kind = "String"
      /\ Peek.kind = "Numeric" => Peek.literal.kind = "Number"
  BY <1>1 DEF Spoken, Peek
<1> DEFINE t == Peek
<1>3. t \in [kind : STRING, literal : Value] /\ t.kind \in LiteralKind
      /\ (t.kind \in {"String", "Undefined"} => t.literal.kind = "String")
      /\ (t.kind = "Numeric" => t.literal.kind = "Number")
  BY <1>1, <1>2 DEF Token
<1> HIDE DEF t
<1>4. t = Word(t.kind, t.literal)
  BY <1>3 DEF Word
<1>5. AsRead(t) = LiteralWord(LiteralOf(t))
  <2>1. CASE t.kind \in {"True", "False"}
    BY <2>1 DEF AsRead, LiteralWord, LiteralOf, Bool
  <2>2. CASE t.kind = "Null"
    BY <2>2 DEF AsRead, LiteralWord, LiteralOf, Null
  <2>3. CASE t.kind = "Numeric"
    <3>1. LiteralOf(t) = t.literal /\ AsRead(t) = t /\ LiteralWord(t.literal) = Word("Numeric", t.literal)
      BY <1>3, <2>3 DEF AsRead, LiteralWord, LiteralOf
    <3> QED
      BY <1>4, <2>3, <3>1
  <2>4. CASE t.kind = "String"
    <3>1. LiteralOf(t) = t.literal /\ AsRead(t) = t /\ LiteralWord(t.literal) = Word("String", t.literal)
      BY <1>3, <2>4 DEF AsRead, LiteralWord, LiteralOf
    <3> QED
      BY <1>4, <2>4, <3>1
  <2>5. CASE t.kind = "Undefined"
    <3>1. /\ LiteralOf(t) = t.literal /\ AsRead(t) = Word("String", t.literal)
          /\ LiteralWord(t.literal) = Word("String", t.literal)
      BY <1>3, <2>5 DEF AsRead, LiteralWord, LiteralOf
    <3> QED
      BY <3>1
  <2> QED
    BY <1>3, <2>1, <2>2, <2>3, <2>4, <2>5 DEF LiteralKind
<1> QED
  BY <1>5 DEF t

\* A node made of a token.
LEMMA AtomReads ==
  ASSUME ParserInv, ParserInv', Head(todo) = Do("primary"), Advance, Become(<<>>),
         NEW node, Making(0, node), \A text \in Total : Wording(node, text) = <<AsRead(Peek)>>
  PROVE  Goes
<1>1. PICK at \in Nat \ {0} :
        /\ results' = Append(SubSeq(results, 1, Len(results) - 0), at)
        /\ \A text \in Readings(nodes') : text \in Readings(nodes) /\ text[at] = Wording(node, text)
  BY MakingReads DEF Places
<1>2. results' = Append(results, at)
  <2>1. results \in Seq(Nat) /\ Len(results) - 0 = Len(results)
    BY TakenLine DEF Point
  <2>2. SubSeq(results, 1, Len(results)) = results
    BY <2>1, SubSeqFull
  <2> QED
    BY <1>1, <2>1, <2>2
<1>3. Taken' = Cat(Taken, <<AsRead(Peek)>>)
  BY TakenMoves DEF Making
<1>4. <<Taken, results>> \in Point /\ <<Taken', results'>> \in Point
  BY TakenLine, TakenNext
<1>5. ASSUME NEW text \in Readings(nodes')
      PROVE  /\ text \in Readings(nodes)
             /\ Act(text, Head(todo), <<Taken, results>>, <<Taken', results'>>)
  <2>1. text \in Total /\ text \in Readings(nodes) /\ text[at] = <<AsRead(Peek)>>
    BY <1>1, ReadingTotal
  <2> DEFINE s == <<Taken, results>>
             e == <<Taken', results'>>
  <2>2. s \in Point /\ e \in Point /\ e[2] = Append(s[2], at) /\ e[1] = Cat(s[1], text[at])
    BY <1>2, <1>3, <1>4, <2>1
  <2> HIDE DEF s, e
  <2>3. Act(text, Do("primary"), s, e)
    BY <2>1, <2>2, AtomGives
  <2> QED
    BY <2>1, <2>3 DEF s, e
<1> QED
  BY <1>5, DoneReads

LEMMA PrimaryReads ==
  ASSUME ParserInv, ParserInv', Spoken, ParsePrimary
  PROVE  Goes
<1>1. Head(todo) = Do("primary")
  BY HeadDo DEF ParsePrimary, At, Calls
<1>2. CASE Peek.kind \in LiteralKind
  <2>1. /\ Advance /\ Become(<<>>) /\ Making(0, Literal(LiteralOf(Peek)))
    BY <1>2 DEF ParsePrimary, LiteralKind
  <2>2. \A text \in Total : Wording(Literal(LiteralOf(Peek)), text) = <<AsRead(Peek)>>
    BY <1>2, LiteralRead, ExpressionWords
  <2> QED
    BY <1>1, <2>1, <2>2, AtomReads
<1>3. CASE Peek.kind = "Identifier"
  <2>1. /\ Advance /\ Become(<<>>) /\ Making(0, VarExpr(Peek.literal.val))
    BY <1>3 DEF ParsePrimary, LiteralKind
  <2>2. \A text \in Total : Wording(VarExpr(Peek.literal.val), text) = <<AsRead(Peek)>>
    BY <1>3, NameRead, ExpressionWords
  <2> QED
    BY <1>1, <2>1, <2>2, AtomReads
<1>4. CASE Peek.kind = "LParen"
  <2> DEFINE records == Expr \o <<Consume("RParen"), Build("Grouping")>>
  <2>1. Advance /\ Calling /\ Become(records)
    BY <1>4 DEF ParsePrimary, LiteralKind
  <2>2. records \in Seq(Record)
    <3>1. <<Consume("RParen"), Build("Grouping")>> \in Seq(Record)
      BY TokenRecords, BuildRecords
    <3> QED
      BY <3>1, ExprSeq, ConcatProperties
  <2>3. <<AsRead(Peek)>> = Tok("LParen")
    BY <1>4, PlainRead
  <2>4. ASSUME NEW text \in Total, NEW s \in Point, NEW z \in Point, NEW e \in Point,
               z[1] = Cat(s[1], Tok("LParen")), z[2] = s[2], Run(text, records, z, e)
        PROVE  Act(text, Head(todo), s, e)
    BY <1>1, <2>4, GroupGoes
  <2> HIDE DEF records
  <2> QED
    BY <2>1, <2>2, <2>3, <2>4, PassReads
<1>5. CASE Peek.kind \notin LiteralKind /\ Peek.kind # "Identifier" /\ Peek.kind # "LParen"
  <2>1. Stay /\ Become(<<>>) /\ Returning(0)
    BY <1>5 DEF ParsePrimary
  <2>2. Pushes(Do("primary")) /\ ~Made(Do("primary"))
    BY PushFacts
  <2>3. ASSUME NEW text \in Total, NEW s \in Point, NEW e \in Point,
               e[1] = s[1], e[2] = Append(s[2], 0)
        PROVE  Act(text, Head(todo), s, e)
    BY <1>1, <2>2, <2>3, NullGives
  <2> QED
    BY <2>1, <2>3, NullReads
<1> QED
  BY <1>2, <1>3, <1>4, <1>5

(***************************************************************************)
(* Nodes.                                                                  *)
(***************************************************************************)

\* With k in the place of p a record has done what it does.
Gives(text, item, p, node) ==
  \A s, e \in Point, base \in Seq(Nat), k \in Nat \ {0} :
    (/\ s[2] = base \o p /\ e[2] = Append(base, k) /\ e[1] = s[1]
     /\ text[k] = Wording(node, text)) => Act(text, item, s, e)

\* A node in the place of its parts, without a token.
LEMMA MadeReads ==
  ASSUME ParserInv, ParserInv', Stay, Become(<<>>), NEW n, NEW node, Making(n, node), Split(n),
         \A text \in Readings(nodes) : Gives(text, Head(todo), Parts(n), node)
  PROVE  Goes
<1> DEFINE base == SubSeq(results, 1, Len(results) - n)
           p == Parts(n)
<1>1. base \in Seq(Nat) /\ results = base \o p
  BY DEF Split
<1>2. PICK k \in Nat \ {0} :
        /\ results' = Append(base, k)
        /\ \A text \in Readings(nodes') : text \in Readings(nodes) /\ text[k] = Wording(node, text)
  BY MakingReads DEF Places
<1> HIDE DEF base, p
<1>3. Taken' = Taken
  BY TakenStays DEF Making, Stay
<1>4. <<Taken, results>> \in Point /\ <<Taken', results'>> \in Point
  BY TakenLine, TakenNext
<1>5. ASSUME NEW text \in Readings(nodes')
      PROVE  /\ text \in Readings(nodes)
             /\ Act(text, Head(todo), <<Taken, results>>, <<Taken', results'>>)
  <2>1. text \in Readings(nodes) /\ text[k] = Wording(node, text)
    BY <1>2
  <2> DEFINE s == <<Taken, results>>
             e == <<Taken', results'>>
  <2>2. /\ s \in Point /\ e \in Point /\ s[2] = base \o p
        /\ e[2] = Append(base, k) /\ e[1] = s[1]
    BY <1>1, <1>2, <1>3, <1>4
  <2> HIDE DEF s, e
  <2>3. Act(text, Head(todo), s, e)
    <3>1. Gives(text, Head(todo), p, node)
      BY <2>1 DEF p
    <3> QED
      BY <1>1, <1>2, <2>1, <2>2, <3>1 DEF Gives
  <2> QED
    BY <2>1, <2>3 DEF s, e
<1> QED
  BY <1>5, DoneReads

LEMMA BuildReads ==
  ASSUME ParserInv, ParserInv', ParseBuild
  PROVE  Goes
<1> DEFINE item == Head(todo)
           n == Arity(item)
<1>1. item.do = "build" /\ item \in Record
  BY HeadSigned DEF ParseBuild, At, ParserInv
<1>2. Signature(item) = BuildSignature(item) /\ BuildSignature(item) # {}
  BY AtBuild
<1>3. n \in Nat /\ \A sig \in Signature(item) : Len(sig.takes) = n
  BY <1>1, <1>2, BuildTakes
<1>4. CASE item.kind = "Unary" /\ Last(results) = 0
  BY <1>4, FailReads DEF ParseBuild
<1>5. CASE ~(item.kind = "Unary" /\ Last(results) = 0)
  <2>1. Stay /\ Become(<<>>) /\ Making(n, Built(item))
    BY <1>5 DEF ParseBuild
  <2>2. Built(item) = NodeOf(item, Parts(n))
    BY DEF Built, NodeOf
  <2> HIDE DEF n
  <2>3. Split(n) /\ Parts(n) \in Seq(Nat) /\ Len(Parts(n)) = n
    BY <1>3, Enough DEF Split
  <2>4. ASSUME NEW text \in Readings(nodes)
        PROVE  Gives(text, item, Parts(n), Built(item))
    <3> DEFINE p == Parts(n)
               node == Built(item)
    <3>1. text \in Total
      BY ReadingTotal
    <3>2. p \in Seq(Nat) /\ Len(p) = Arity(item) /\ node = NodeOf(item, p)
      BY <2>2, <2>3 DEF n
    <3> HIDE DEF p, item, node
    <3>3. ASSUME NEW s \in Point, NEW e \in Point, NEW base \in Seq(Nat), NEW k \in Nat \ {0},
                 s[2] = base \o p, e[2] = Append(base, k), e[1] = s[1],
                 text[k] = Wording(node, text)
          PROVE  Act(text, item, s, e)
      BY <1>1, <3>1, <3>2, <3>3, BuildGives
    <3>4. Gives(text, item, p, node)
      BY <3>3 DEF Gives
    <3> QED
      BY <3>4 DEF p, node
  <2> HIDE DEF item
  <2>5. \A text \in Readings(nodes) : Gives(text, Head(todo), Parts(n), Built(item))
    BY <2>4 DEF item
  <2> QED
    BY <2>1, <2>3, <2>5, MadeReads
<1> QED
  BY <1>4, <1>5

LEMMA FrontLast ==
  ASSUME NEW r \in Seq(Nat), r # <<>>
  PROVE  Front(r) \in Seq(Nat) /\ Last(r) \in Nat /\ r = Append(Front(r), Last(r))
<1>1. /\ Front(r) \in Seq(Nat) /\ Len(Front(r)) = Len(r) - 1
      /\ \A i \in 1 .. Len(r) - 1 : Front(r)[i] = r[i]
  BY FrontFacts
<1>2. Len(r) \in Nat \ {0}
  BY EmptySeq
<1>3. Last(r) = r[Len(r)] /\ Last(r) \in Nat
  BY <1>2 DEF Last
<1>4. Append(Front(r), Last(r)) = r
  BY <1>1, <1>2, <1>3, AppendIs
<1> QED
  BY <1>1, <1>3, <1>4

LEMMA SeqTwo ==
  ASSUME NEW p \in Seq(Nat), Len(p) = 2
  PROVE  \E a, b \in Nat : p = <<a, b>>
<1>1. p[1] \in Nat /\ p[2] \in Nat
  <2>1. 1 \in 1 .. Len(p) /\ 2 \in 1 .. Len(p)
    OBVIOUS
  <2> QED
    BY <2>1, ElementOfSeq
<1> DEFINE a == p[1]
           b == p[2]
<1>2. a \in Nat /\ b \in Nat /\ p[1] = a /\ p[2] = b
  BY <1>1
<1> HIDE DEF a, b
<1>3. <<a, b>> \in Seq(Nat) /\ Len(<<a, b>>) = 2 /\ <<a, b>>[1] = a /\ <<a, b>>[2] = b
  BY <1>2
<1>4. \A i \in 1 .. 2 : i = 1 \/ i = 2
  OBVIOUS
<1>5. p = <<a, b>>
  BY <1>2, <1>3, <1>4, SeqEqual
<1> QED
  BY <1>2, <1>5

LEMMA TwoSplit ==
  ASSUME ParserInv, \A sig \in Signature(Head(todo)) : Len(sig.takes) = 2
  PROVE  Split(2) /\ \E a, j \in Nat : Parts(2) = <<a, j>> /\ Last(results) = j
<1> DEFINE base == SubSeq(results, 1, Len(results) - 2)
           p == Parts(2)
<1>1. Split(2) /\ base \in Seq(Nat) /\ p \in Seq(Nat) /\ Len(p) = 2 /\ results = base \o p
  BY Enough DEF Split
<1> HIDE DEF base, p
<1>2. PICK a, j \in Nat : p = <<a, j>>
  BY <1>1, SeqTwo
<1>4. results = Append(Append(base, a), j) /\ Append(base, a) \in Seq(Nat)
  BY <1>1, <1>2, Stacked, Pushed, SMTT(20)
<1>5. Last(results) = j
  BY <1>2, <1>4, FrontAppend
<1> QED
  BY <1>1, <1>2, <1>5 DEF p

LEMMA AssignToReads ==
  ASSUME ParserInv, ParserInv', ParseAssignTo
  PROVE  Goes
<1>1. Head(todo) = Do("assignTo")
  BY HeadDo DEF ParseAssignTo, At, Calls
<1> DEFINE target == Parts(2)[1]
           t == <<Ex(0), Ex(0)>>
<1>2. \A sig \in Signature(Head(todo)) : sig = Sig(t, <<Ex(0)>>)
  BY DEF ParseAssignTo, At, Signature
<1>3. t \in Seq(Sorts) /\ Len(t) = 2 /\ t # <<>> /\ t[1] = Ex(0)
  BY SomeSorts, SmallStacks
<1> HIDE DEF t
<1>4. \A sig \in Signature(Head(todo)) : Len(sig.takes) = 2
  BY <1>2, <1>3 DEF Sig
<1>5. PICK a, j \in Nat : Parts(2) = <<a, j>> /\ Last(results) = j
  BY <1>4, TwoSplit
<1>6. Split(2) /\ target = a
  BY <1>4, <1>5, TwoSplit
<1>7. target \in 0 .. Len(nodes) /\ nodes \in Seq(ASTNode(String, Value))
  <2>1. PICK open, base : \E b \in Sorts : Pending(open, base, t, <<b>>)
    BY <1>2, <1>3, HeadOne DEF ParserInv
  <2>2. Given(open, t) /\ IsTree(nodes, open)
    BY <2>1, PartsFit DEF Pending
  <2>3. Fits(nodes, open, Calm, Ex(0), target)
    <3>1. 1 \in 1 .. 2
      OBVIOUS
    <3> QED
      BY <1>3, <2>2, <3>1 DEF Given
  <2> QED
    BY <2>2, <2>3, SortNames DEF Fits, IsTree
<1>8. CASE target = 0
  BY <1>8, FailReads DEF ParseAssignTo
<1>9. CASE target # 0 /\ nodes[target].kind # "Var"
  BY <1>9, FailReads DEF ParseAssignTo
<1>10. CASE target # 0 /\ nodes[target].kind = "Var"
  <2> DEFINE n == nodes[target].name
  <2>1. Stay /\ Become(<<>>) /\ Making(2, AssignExpr(n, j))
    BY <1>5, <1>10 DEF ParseAssignTo
  <2>2. nodes[target] \in [kind : {"Var"}, name : String] /\ target \in 1 .. Len(nodes)
    <3>1. nodes[target] \in ASTNode(String, Value) /\ target \in 1 .. Len(nodes)
      BY <1>7, <1>10
    <3> QED
      BY <1>10, <3>1 DEF ASTNode
  <2>3. nodes[target] = VarExpr(n) /\ n \in Nat
    BY <2>2, StringAssumption DEF VarExpr
  <2> HIDE DEF n
  <2>4. ASSUME NEW text \in Readings(nodes)
        PROVE  Gives(text, Head(todo), Parts(2), AssignExpr(n, j))
    <3>1. text \in Total
      BY ReadingTotal
    <3>2. text[a] = Nm(n)
      BY <1>6, <2>2, <2>3, <3>1, ExpressionWords DEF Readings
    <3>3. ASSUME NEW s \in Point, NEW e \in Point, NEW base \in Seq(Nat), NEW k \in Nat \ {0},
                 s[2] = base \o <<a, j>>, e[2] = Append(base, k), e[1] = s[1],
                 text[k] = Wording(AssignExpr(n, j), text)
          PROVE  Act(text, Do("assignTo"), s, e)
      BY <2>3, <3>1, <3>2, <3>3, AssignToGives
    <3>4. Gives(text, Do("assignTo"), <<a, j>>, AssignExpr(n, j))
      BY <3>3 DEF Gives
    <3> QED
      BY <1>1, <1>5, <3>4
  <2> QED
    BY <1>6, <2>1, <2>4, MadeReads
<1> QED
  BY <1>8, <1>9, <1>10

(***************************************************************************)
(* Statements again.                                                       *)
(***************************************************************************)

LEMMA ExprStmtReads ==
  ASSUME ParserInv, ParserInv', ParseExprStmt
  PROVE  Goes
<1>1. Head(todo) = Do("exprStmt")
  BY HeadDo DEF ParseExprStmt, At, Calls
<1>2. \A sig \in Signature(Head(todo)) : Len(sig.takes) = 1
  BY <1>1 DEF Signature, Do, Sig
<1> DEFINE base == SubSeq(results, 1, Len(results) - 1)
<1>3. PICK j \in Nat : Topped(base, j)
  BY <1>2, OneSplit
<1>4. base \in Seq(Nat) /\ results = Append(base, j) /\ Last(results) = j
  BY <1>3, FrontAppend DEF Topped
<1>5. ASSUME Become(<<>>), Making(1, ExprStmt(j)),
             Taken' = IF j = 0 THEN Taken ELSE Cat(Taken, Tok("Semicolon"))
      PROVE  Goes
  <2>1. PICK k \in Nat \ {0} :
          /\ results' = Append(base, k)
          /\ \A text \in Readings(nodes') :
               text \in Readings(nodes) /\ text[k] = Wording(ExprStmt(j), text)
    BY <1>5, MakingReads DEF Places
  <2>2. <<Taken, results>> \in Point /\ <<Taken', results'>> \in Point
    BY TakenLine, TakenNext
  <2> HIDE DEF base
  <2>3. ASSUME NEW text \in Readings(nodes')
        PROVE  /\ text \in Readings(nodes)
               /\ Act(text, Head(todo), <<Taken, results>>, <<Taken', results'>>)
    <3>1. text \in Total /\ text \in Readings(nodes) /\ text[k] = Wording(ExprStmt(j), text)
      BY <2>1, ReadingTotal
    <3> DEFINE s == <<Taken, results>>
               e == <<Taken', results'>>
    <3>2. /\ s \in Point /\ e \in Point /\ s[2] = Append(base, j) /\ e[2] = Append(base, k)
          /\ e[1] = IF j = 0 THEN s[1] ELSE Cat(s[1], Tok("Semicolon"))
      BY <1>4, <1>5, <2>1, <2>2
    <3> HIDE DEF s, e
    <3>3. Act(text, Do("exprStmt"), s, e)
      BY <1>4, <3>1, <3>2, ExprStmtGives
    <3> QED
      BY <1>1, <3>1, <3>3 DEF s, e
  <2> QED
    BY <1>5, <2>3, DoneReads
<1> HIDE DEF base
<1>6. CASE j = 0
  <2>1. Stay /\ Become(<<>>) /\ Making(1, ExprStmt(j))
    BY <1>4, <1>6 DEF ParseExprStmt
  <2>2. Taken' = Taken
    BY <2>1, TakenStays DEF Making, Stay
  <2> QED
    BY <1>5, <1>6, <2>1, <2>2
<1>7. CASE j # 0 /\ current + 1 >= Len(tokens)
  <2>1. Fail("undefined")
    BY <1>4, <1>7 DEF ParseExprStmt
  <2> QED
    BY <2>1, FailReads
<1>8. CASE j # 0 /\ ~(current + 1 >= Len(tokens)) /\ ~Check("Semicolon")
  <2>1. Fail("invalid_argument")
    BY <1>4, <1>8 DEF ParseExprStmt
  <2> QED
    BY <2>1, FailReads
<1>9. CASE j # 0 /\ ~(current + 1 >= Len(tokens)) /\ Check("Semicolon")
  <2>1. Advance /\ Become(<<>>) /\ Making(1, ExprStmt(j))
    BY <1>4, <1>9 DEF ParseExprStmt
  <2>2. <<AsRead(Peek)>> = Tok("Semicolon")
    BY <1>9, PlainRead DEF Check
  <2>3. Taken' = Cat(Taken, Tok("Semicolon"))
    BY <2>1, <2>2, TakenMoves DEF Making
  <2> QED
    BY <1>5, <1>9, <2>1, <2>3
<1> QED
  BY <1>6, <1>7, <1>8, <1>9

\* A list that is not empty has its latest statement on top.
LEMMA LatestStatement ==
  ASSUME ParserInv, NEW of \in {"Program", "Block"}, NEW n \in Nat, n # 0,
         Head(todo) = Statements(of, n)
  PROVE  Last(results) \in 1 .. Len(nodes) /\ results \in Seq(Nat) /\ results # <<>>
<1> DEFINE t == Times(n, AnyStmt)
           g == IF of = "Program" THEN Never ELSE Body
<1>1. t \in Seq(Sorts) /\ Len(t) = n /\ \A i \in 1 .. n : t[i] = AnyStmt
  BY TimesFacts
<1>2. \A sig \in Signature(Head(todo)) : sig = Sig(t, <<g>>)
  BY DEF Signature, Statements
<1> HIDE DEF t, g
<1>3. PICK open, base : \E b \in Sorts : Pending(open, base, t, <<b>>)
  BY <1>1, <1>2, HeadOne DEF ParserInv
<1>4. Given(open, t) /\ t # <<>>
  BY <1>1, <1>3, PartsFit
<1>5. Last(results) = Parts(n)[n]
  BY <1>1, <1>3, <1>4, PartsFit
<1>6. n \in 1 .. n /\ t[n] = AnyStmt
  BY <1>1
<1>7. Fits(nodes, open, Calm, AnyStmt, Last(results))
  BY <1>1, <1>4, <1>5, <1>6 DEF Given
<1>8. Last(results) \in 1 .. Len(nodes)
  BY <1>7, SortNames DEF Fits
<1>9. \A sig \in Signature(Head(todo)) : Len(sig.takes) = n
  BY <1>1, <1>2 DEF Sig
<1>10. results \in Seq(Nat) /\ results # <<>>
  <2> DEFINE b == SubSeq(results, 1, Len(results) - n)
             p == Parts(n)
  <2>1. b \in Seq(Nat) /\ p \in Seq(Nat) /\ Len(p) = n /\ results = b \o p
    BY <1>9, Enough DEF Split
  <2> HIDE DEF b, p
  <2>2. b \o p \in Seq(Nat) /\ Len(b \o p) = Len(b) + Len(p)
    BY <2>1, ConcatProperties
  <2>3. Len(b) \in Nat /\ Len(<<>>) = 0
    BY <2>1
  <2> QED
    BY <2>1, <2>2, <2>3
<1> QED
  BY <1>8, <1>10

\* An empty statement is forgotten: it reads like nothing.
LEMMA ForgetReads ==
  ASSUME ParserInv, ParserInv', NEW of \in {"Program", "Block"}, NEW n \in Nat, n # 0,
         Head(todo) = Statements(of, n), nodes[Last(results)] = ExprStmt(0),
         Stay, UNCHANGED <<tokens, nodes, parsed>>,
         Become(<<Do("decl"), Statements(of, n)>>), results' = Front(results)
  PROVE  Goes
<1> DEFINE records == <<Do("decl"), Statements(of, n)>>
           k == Last(results)
<1>1. records \in Seq(Record)
  <2>1. Statements(of, n) \in Record /\ Do("decl") \in Record
    BY RecordFacts, DoRecords
  <2> QED
    BY <2>1
<1>2. k \in 1 .. Len(nodes) /\ results \in Seq(Nat) /\ results # <<>>
  BY LatestStatement
<1>3. results = Append(results', k) /\ k \in Nat
  BY <1>2, FrontLast
<1>4. Taken' = Taken
  BY TakenStays DEF Stay
<1>5. <<Taken, results>> \in Point /\ <<Taken', results'>> \in Point
  BY TakenLine, TakenNext
<1>6. ASSUME NEW text \in Readings(nodes), NEW m \in Point,
             Run(text, records, <<Taken', results'>>, m)
      PROVE  Act(text, Head(todo), <<Taken, results>>, m)
  <2>1. text \in Total
    BY ReadingTotal
  <2>2. text[k] = <<>>
    <3>1. text[k] = Wording(ExprStmt(0), text)
      BY <1>2 DEF Readings
    <3>2. Wording(ExprStmt(0), text) = Cat(text[0], <<>>)
      BY <2>1, StatementWords
    <3>3. text[0] = <<>> /\ Cat(<<>>, <<>>) = <<>>
      BY <2>1, TotalFacts, CatNothing
    <3> QED
      BY <3>1, <3>2, <3>3
  <2> DEFINE s == <<Taken, results>>
             z == <<Taken', results'>>
  <2>3. s \in Point /\ z \in Point /\ z[1] = s[1] /\ s[2] = Append(z[2], k)
    BY <1>3, <1>4, <1>5
  <2> HIDE DEF s, z, k
  <2>4. n - 1 \in Nat /\ (n - 1) + 1 = n
    OBVIOUS
  <2>5. Run(text, <<Do("decl"), Statements(of, (n - 1) + 1)>>, z, m)
    BY <1>6, <2>4 DEF z
  <2>6. Act(text, Statements(of, n - 1), z, m)
    BY <2>1, <2>3, <2>4, <2>5, StatementsMore
  <2>7. Act(text, Statements(of, (n - 1) + 1), s, m)
    BY <1>3, <2>1, <2>2, <2>3, <2>4, <2>6, StatementsForget
  <2> QED
    BY <2>4, <2>7 DEF s
<1>7. Replaces(records)
  <2> HIDE DEF records
  <2> QED
    BY <1>1, <1>6 DEF Replaces, records
<1> QED
  BY <1>7 DEF Goes

LEMMA StatementsReads ==
  ASSUME ParserInv, ParserInv', ParseStatements
  PROVE  Goes
<1> DEFINE list == Head(todo)
           of == list.of
           n == list.count
<1>1. list = Statements(of, n) /\ of \in {"Program", "Block"} /\ n \in Nat
  BY HeadSigned, RecordIs DEF ParseStatements, At, ParserInv
<1> DEFINE more == Peek.kind # "Eof" /\ ~(of = "Block" /\ Check("RBrace"))
           keep == n < MaxStmts \/ nodes[Last(results)] # ExprStmt(0)
<1>2. CASE more /\ keep
  <2>1. Stay /\ Calling /\ Become(<<Do("decl"), Statements(of, n + 1)>>)
    BY <1>2 DEF ParseStatements, Calling
  <2>2. <<Do("decl"), Statements(of, n + 1)>> \in Seq(Record)
    <3>1. n + 1 \in Nat
      BY <1>1
    <3>2. Statements(of, n + 1) \in Record /\ Do("decl") \in Record
      BY <1>1, <3>1, RecordFacts, DoRecords
    <3> QED
      BY <3>2
  <2>3. ASSUME NEW text \in Total, NEW s \in Point, NEW e \in Point,
               Run(text, <<Do("decl"), Statements(of, n + 1)>>, s, e)
        PROVE  Act(text, Head(todo), s, e)
    BY <1>1, <2>3, StatementsMore
  <2> QED
    BY <2>1, <2>2, <2>3, CallReads
<1>3. CASE more /\ ~keep
  <2>1. Stay /\ UNCHANGED <<tokens, nodes, parsed>> /\ Become(<<Do("decl"), list>>)
        /\ results' = Front(results) /\ nodes[Last(results)] = ExprStmt(0)
    BY <1>3 DEF ParseStatements
  <2>2. n # 0
    BY <1>1, <1>3 DEF ParserInv, CursorFits, MaxStmts
  <2> HIDE DEF of, n, more, keep
  <2> QED
    BY <1>1, <2>1, <2>2, ForgetReads
<1>4. CASE ~more /\ of = "Block"
  <2>1. Stay /\ Calling /\ Become(<<Consume("RBrace"), BuildList("Block", n)>>)
    BY <1>4 DEF ParseStatements
  <2>2. <<Consume("RBrace"), BuildList("Block", n)>> \in Seq(Record)
    BY <1>1, TokenRecords, BuildRecords
  <2>3. ASSUME NEW text \in Total, NEW s \in Point, NEW e \in Point,
               Run(text, <<Consume("RBrace"), BuildList("Block", n)>>, s, e)
        PROVE  Act(text, Head(todo), s, e)
    BY <1>1, <1>4, <2>3, BlockEnd
  <2> QED
    BY <2>1, <2>2, <2>3, CallReads
<1>5. CASE ~more /\ of # "Block"
  <2>1. UNCHANGED <<tokens, current, todo, results, nodes>>
    BY <1>5 DEF ParseStatements
  <2> QED
    BY <2>1 DEF Goes
<1> QED
  BY <1>2, <1>3, <1>4, <1>5

(***************************************************************************)
(* The invariant.                                                          *)
(***************************************************************************)

LEMMA SpokenInit ==
  ASSUME ParserInit
  PROVE  Spoken
<1>1. PICK source \in Source : tokens = Append(source, Eof)
  BY DEF ParserInit
<1>2. /\ source \in Seq(Token)
      /\ \A i \in DOMAIN source :
           /\ source[i].kind = "String" => source[i].literal.kind = "String"
           /\ source[i].kind = "Undefined" => source[i].literal.kind = "String"
           /\ source[i].kind = "Numeric" => source[i].literal.kind = "Number"
  <2>1. /\ {"String", "Undefined", "Numeric"} \subseteq DOMAIN LiteralType
        /\ LiteralType["String"] = "String" /\ LiteralType["Undefined"] = "String"
        /\ LiteralType["Numeric"] = "Number"
    BY DEF LiteralType
  <2> QED
    BY <2>1, ParserAssumption
<1>3. Eof.kind = "Eof"
  BY DEF Eof
<1>4. /\ source \in Seq(Token \cup {Eof}) /\ Len(source) \in Nat
      /\ \A i \in 1 .. Len(source) : i \in DOMAIN source
  <2>1. Token \subseteq Token \cup {Eof}
    OBVIOUS
  <2> QED
    BY <1>2, <2>1, SeqMonotonic
<1>5. /\ Len(tokens) = Len(source) + 1
      /\ tokens[Len(source) + 1] = Eof /\ \A i \in 1 .. Len(source) : tokens[i] = source[i]
  BY <1>1, <1>4, AppendProperties
<1>6. \A i \in 1 .. Len(tokens) : i \in 1 .. Len(source) \/ i = Len(source) + 1
  BY <1>4, <1>5
<1> QED
  BY <1>2, <1>3, <1>4, <1>5, <1>6 DEF Spoken

\* No step changes the tokens.
LEMMA SpokenKeeps ==
  ASSUME Spoken, [ParserNext]_parserVars
  PROVE  Spoken'
<1>1. tokens' = tokens
  <2>1. CASE UNCHANGED parserVars
    BY <2>1 DEF parserVars
  <2>2. CASE ParserNext
    BY <2>2 DEF ParserNext, ParseStatements, ParseDecl, ParseStmt, ParseExprStmt, ParseConsume,
       ParseUnless, ParseOptional, ParseForInit, ParseItems, ParseItem, ParseComma, ParseMore,
       ParseUnary, ParsePrimary, ParseCalls, ParseAssignment, ParseAssignTo, ParseBuild,
       Calling, Returning, Making, Fail
  <2> QED
    BY <2>1, <2>2
<1> QED
  BY <1>1 DEF Spoken

LEMMA ReadingInit ==
  ASSUME ParserInit
  PROVE  Reading
<1>1. /\ current = 0 /\ todo = <<Statements("Program", 0)>> /\ results = <<>>
  BY DEF ParserInit
<1>2. Taken \in Lines /\ Len(Taken) = 0 /\ <<Taken, results>> \in Point
  BY <1>1, InitFits, TakenLine
<1>3. Taken = <<>>
  BY <1>2, EmptySeq DEF Lines
<1>4. Statements("Program", 0) \in Record
  BY RecordFacts
<1>5. ASSUME NEW text \in Readings(nodes), NEW e \in Point, Run(text, todo, <<Taken, results>>, e)
      PROVE  Same(e[1], Flat(text, e[2]))
  <2> DEFINE s == <<Taken, results>>
             item == Statements("Program", 0)
  <2>a. s[1] = <<>> /\ s[2] = <<>>
    BY <1>1, <1>3
  <2>b. item.do = "statements" /\ item.count = 0
    BY DEF Statements
  <2> HIDE DEF s
  <2>1. Act(text, item, s, e)
    BY <1>1, <1>4, <1>5, RunOne DEF s
  <2>2. PICK base \in Seq(Nat), p \in Seq(Nat), y \in Lines :
          /\ s[2] = base \o p /\ Len(p) = Takes(item)
          /\ e[1] = Cat(s[1], y)
          /\ Leaves(text, item, base, p, y, e[2])
    BY <2>1 DEF Act
  <2>3. Takes(item) = 0
    BY <2>b DEF Takes
  <2>4. p = <<>>
    BY <2>2, <2>3, EmptySeq
  <2>5. base = <<>>
    BY <2>a, <2>2, <2>4, ConcatEmptySeq
  <2>6. Statement(text, base, p, y, e[2])
    BY <2>2, ProgramLeaves
  <2>7. PICK q \in Seq(Nat) : e[2] = base \o q /\ Same(Cat(Flat(text, p), y), Flat(text, q))
    BY <2>6 DEF Statement
  <2>8. e[2] = q
    BY <2>5, <2>7, ConcatEmptySeq
  <2>9. text \in [Nat -> Lines]
    BY ReadingTotal DEF Total
  <2>10. Cat(Flat(text, p), y) = y
    BY <2>4, <2>9, FlatFacts, CatNothing
  <2>11. e[1] = y
    BY <2>a, <2>2, CatNothing
  <2> QED
    BY <2>7, <2>8, <2>10, <2>11
<1> QED
  BY <1>5 DEF Reading, ReadsOn

LEMMA ReadingNext ==
  ASSUME ParserInv, Spoken, Reading, [ParserNext]_parserVars
  PROVE  Reading'
<1>1. ParserInv'
  BY NextKeeps
<1>2. CASE UNCHANGED parserVars
  <2>1. Goes
    BY <1>2 DEF Goes, parserVars
  <2> QED
    BY <1>1, <2>1, ReadingGoes
<1>3. CASE ParserNext
  <2>1. Goes
    BY <1>1, <1>3, StatementsReads, DeclReads, StmtReads, ExprStmtReads, ConsumeReads, UnlessReads,
       OptionalReads, ForInitReads, ItemsReads, ItemReads, CommaReads, MoreReads, UnaryReads,
       PrimaryReads, CallsReads, AssignmentReads, AssignToReads, BuildReads DEF ParserNext
  <2> QED
    BY <1>1, <2>1, ReadingGoes
<1> QED
  BY <1>2, <1>3

\* Throughout a parse, whatever the pending calls still read belongs behind
\* what they have read (JSParser.cpp).
LEMMA ReadingInvariant == ParserSpec => [](ParserInv /\ Spoken /\ Reading)
<1>1. ParserInit => ParserInv /\ Spoken /\ Reading
  BY InitFits, SpokenInit, ReadingInit
<1>2. ParserInv /\ Spoken /\ Reading /\ [ParserNext]_parserVars => (ParserInv /\ Spoken /\ Reading)'
  BY NextKeeps, SpokenKeeps, ReadingNext
<1> QED
  BY <1>1, <1>2, PTL DEF ParserSpec

(***************************************************************************)
(* The texts exist: what a node reads like depends on its children, which  *)
(* come before it.                                                         *)
(***************************************************************************)

LEMMA NodeParts ==
  ASSUME NEW node \in ASTNode(String, Value)
  PROVE  /\ node.kind = "Literal" => node = Literal(node.value) /\ node.value \in Value
         /\ node.kind = "Var" => node = VarExpr(node.name) /\ node.name \in String
         /\ node.kind = "Grouping" => node = Grouping(node.expr) /\ node.expr \in Nat
         /\ node.kind = "ExprStmt" => node = ExprStmt(node.expr) /\ node.expr \in Nat
         /\ node.kind = "Unary" =>
              node = Unary(node.op, node.right) /\ node.op \in UnaryOp /\ node.right \in Nat
         /\ node.kind = "Binary" =>
              /\ node = Binary(node.op, node.left, node.right) /\ node.op \in BinaryOp
              /\ node.left \in Nat /\ node.right \in Nat
         /\ node.kind = "Logical" =>
              /\ node = Logical(node.op, node.left, node.right) /\ node.op \in LogicalOp
              /\ node.left \in Nat /\ node.right \in Nat
         /\ node.kind = "Assign" =>
              node = AssignExpr(node.name, node.value) /\ node.name \in String /\ node.value \in Nat
         /\ node.kind = "Call" =>
              node = CallExpr(node.callee, node.args) /\ node.callee \in Nat /\ node.args \in Seq(Nat)
         /\ node.kind = "VarDecl" =>
              node = VarDecl(node.name, node.init) /\ node.name \in String /\ node.init \in Nat
         /\ node.kind = "FuncDecl" =>
              /\ node = FuncDecl(node.name, node.params, node.body)
              /\ node.name \in String /\ node.params \in Seq(String) /\ node.body \in Nat
         /\ node.kind = "Return" => node = ReturnStmt(node.value) /\ node.value \in Nat
         /\ node.kind = "Block" => node = BlockStmt(node.stmts) /\ node.stmts \in Seq(Nat)
         /\ node.kind = "If" =>
              /\ node = IfStmt(node.cond, node.then, node.else)
              /\ node.cond \in Nat /\ node.then \in Nat /\ node.else \in Nat
         /\ node.kind = "While" =>
              node = WhileStmt(node.cond, node.body) /\ node.cond \in Nat /\ node.body \in Nat
         /\ node.kind = "For" =>
              /\ node = ForStmt(node.init, node.cond, node.step, node.body)
              /\ node.init \in Nat /\ node.cond \in Nat /\ node.step \in Nat /\ node.body \in Nat
         /\ node.kind \in {"Literal", "Var", "Grouping", "ExprStmt", "Unary", "Binary", "Logical",
              "Assign", "Call", "VarDecl", "FuncDecl", "Return", "Block", "If", "While", "For"}
<1>1. /\ node.kind = "Literal" => node = Literal(node.value) /\ node.value \in Value
      /\ node.kind = "Var" => node = VarExpr(node.name) /\ node.name \in String
      /\ node.kind = "Grouping" => node = Grouping(node.expr) /\ node.expr \in Nat
      /\ node.kind = "ExprStmt" => node = ExprStmt(node.expr) /\ node.expr \in Nat
  BY DEF ASTNode, Literal, VarExpr, Grouping, ExprStmt
<1>2. /\ node.kind = "Unary" =>
           node = Unary(node.op, node.right) /\ node.op \in UnaryOp /\ node.right \in Nat
      /\ node.kind = "Binary" =>
           /\ node = Binary(node.op, node.left, node.right) /\ node.op \in BinaryOp
           /\ node.left \in Nat /\ node.right \in Nat
      /\ node.kind = "Logical" =>
           /\ node = Logical(node.op, node.left, node.right) /\ node.op \in LogicalOp
           /\ node.left \in Nat /\ node.right \in Nat
  BY DEF ASTNode, Unary, Binary, Logical
<1>3. /\ node.kind = "Assign" =>
           node = AssignExpr(node.name, node.value) /\ node.name \in String /\ node.value \in Nat
      /\ node.kind = "Call" =>
           node = CallExpr(node.callee, node.args) /\ node.callee \in Nat /\ node.args \in Seq(Nat)
      /\ node.kind = "VarDecl" =>
           node = VarDecl(node.name, node.init) /\ node.name \in String /\ node.init \in Nat
      /\ node.kind = "FuncDecl" =>
           /\ node = FuncDecl(node.name, node.params, node.body)
           /\ node.name \in String /\ node.params \in Seq(String) /\ node.body \in Nat
  BY DEF ASTNode, AssignExpr, CallExpr, VarDecl, FuncDecl
<1>4. /\ node.kind = "Return" => node = ReturnStmt(node.value) /\ node.value \in Nat
      /\ node.kind = "Block" => node = BlockStmt(node.stmts) /\ node.stmts \in Seq(Nat)
      /\ node.kind = "If" =>
           /\ node = IfStmt(node.cond, node.then, node.else)
           /\ node.cond \in Nat /\ node.then \in Nat /\ node.else \in Nat
      /\ node.kind = "While" =>
           node = WhileStmt(node.cond, node.body) /\ node.cond \in Nat /\ node.body \in Nat
      /\ node.kind = "For" =>
           /\ node = ForStmt(node.init, node.cond, node.step, node.body)
           /\ node.init \in Nat /\ node.cond \in Nat /\ node.step \in Nat /\ node.body \in Nat
  BY DEF ASTNode, ReturnStmt, BlockStmt, IfStmt, WhileStmt, ForStmt
<1>5. node.kind \in {"Literal", "Var", "Grouping", "ExprStmt", "Unary", "Binary", "Logical",
        "Assign", "Call", "VarDecl", "FuncDecl", "Return", "Block", "If", "While", "For"}
  BY DEF ASTNode
<1> QED
  BY <1>1, <1>2, <1>3, <1>4, <1>5

LEMMA WordingLine ==
  ASSUME NEW text \in Total, NEW node \in ASTNode(String, Value)
  PROVE  Wording(node, text) \in Lines
<1>1. /\ text \in [Nat -> Lines] /\ \A k \in Nat : text[k] \in Lines
      /\ \A n \in String : n \in Nat /\ Nm(n) \in Lines
      /\ BinaryOp \subseteq Operator /\ LogicalOp \subseteq Operator /\ UnaryOp \subseteq Operator
  BY Lined, StringAssumption DEF Total, Operator
<1>2. CASE node.kind \in {"Literal", "Var", "Grouping", "Unary", "Binary", "Logical", "Assign"}
  <2>1. node.kind = "Literal" => Wording(node, text) \in Lines
    <3>1. \A v \in Value : <<LiteralWord(v)>> \in Lines
      BY WordFacts, Lined
    <3> QED
      BY <3>1, NodeParts, ExpressionWords
  <2>2. node.kind = "Var" => Wording(node, text) \in Lines
    BY <1>1, NodeParts, ExpressionWords
  <2>3. node.kind = "Grouping" => Wording(node, text) \in Lines
    <3>1. \A j \in Nat : Cat(Cat(Tok("LParen"), text[j]), Tok("RParen")) \in Lines
      BY <1>1, Spellings, CatClosed
    <3> QED
      BY <3>1, NodeParts, ExpressionWords
  <2>4. node.kind = "Unary" => Wording(node, text) \in Lines
    <3>1. \A op \in UnaryOp, j \in Nat : Cat(Tok(op), text[j]) \in Lines
      BY <1>1, Spellings, CatClosed
    <3> QED
      BY <3>1, NodeParts, ExpressionWords
  <2>5. node.kind \in {"Binary", "Logical"} => Wording(node, text) \in Lines
    <3>1. \A op \in BinaryOp \cup LogicalOp : \A i, j \in Nat :
            Cat(Cat(text[i], Tok(op)), text[j]) \in Lines
      BY <1>1, Spellings, CatClosed
    <3> QED
      BY <3>1, NodeParts, ExpressionWords
  <2>6. node.kind = "Assign" => Wording(node, text) \in Lines
    <3>1. \A n \in String, j \in Nat : Cat(Cat(Nm(n), Tok("Equal")), text[j]) \in Lines
      BY <1>1, Spellings, CatClosed
    <3> QED
      BY <1>1, <3>1, NodeParts, ExpressionWords
  <2> QED
    BY <1>2, <2>1, <2>2, <2>3, <2>4, <2>5, <2>6
<1>3. CASE node.kind = "Call"
  <2>1. ASSUME NEW q \in Seq(Nat) PROVE Listed(Image(text, q)) \in Lines
    BY <1>1, ImageFacts, ListedFacts
  <2>2. \A j \in Nat, q \in Seq(Nat) :
          Cat(Cat(Cat(text[j], Tok("LParen")), Listed(Image(text, q))), Tok("RParen")) \in Lines
    BY <1>1, <2>1, Spellings, CatClosed
  <2> QED
    BY <1>3, <2>2, NodeParts, ExpressionWords
<1>4. CASE node.kind \in {"VarDecl", "ExprStmt", "Return", "Block"}
  <2>1. node.kind = "VarDecl" => Wording(node, text) \in Lines
    <3>1. \A i \in Nat : (IF i = 0 THEN <<>> ELSE Cat(Tok("Equal"), text[i])) \in Lines
      BY <1>1, Spellings, CatClosed
    <3>2. \A n \in String, i \in Nat :
            Cat(Cat(Cat(Tok("Var"), Nm(n)), IF i = 0 THEN <<>> ELSE Cat(Tok("Equal"), text[i])),
                Tok("Semicolon")) \in Lines
      <4> TAKE n \in String, i \in Nat
      <4> DEFINE init == IF i = 0 THEN <<>> ELSE Cat(Tok("Equal"), text[i])
      <4>1. init \in Lines
        BY <3>1
      <4> HIDE DEF init
      <4>2. Cat(Tok("Var"), Nm(n)) \in Lines
        BY <1>1, Spellings, CatClosed
      <4>3. Cat(Cat(Tok("Var"), Nm(n)), init) \in Lines
        BY <4>1, <4>2, CatClosed
      <4>4. Cat(Cat(Cat(Tok("Var"), Nm(n)), init), Tok("Semicolon")) \in Lines
        BY <4>3, Spellings, CatClosed
      <4> QED
        BY <4>4 DEF init
    <3>3. ASSUME NEW n \in String, NEW i \in Nat PROVE Wording(VarDecl(n, i), text) \in Lines
      BY <1>1, <3>2, StatementWords
    <3> QED
      BY <3>3, NodeParts
  <2>2. node.kind = "ExprStmt" => Wording(node, text) \in Lines
    <3>1. \A j \in Nat : Cat(text[j], IF j = 0 THEN <<>> ELSE Tok("Semicolon")) \in Lines
      BY <1>1, Spellings, CatClosed
    <3> QED
      BY <3>1, NodeParts, StatementWords
  <2>3. node.kind = "Return" => Wording(node, text) \in Lines
    <3>1. \A j \in Nat : Cat(Cat(Tok("Return"), text[j]), Tok("Semicolon")) \in Lines
      BY <1>1, Spellings, CatClosed
    <3> QED
      BY <3>1, NodeParts, StatementWords
  <2>4. node.kind = "Block" => Wording(node, text) \in Lines
    <3>1. \A q \in Seq(Nat) : Cat(Cat(Tok("LBrace"), Flat(text, q)), Tok("RBrace")) \in Lines
      BY <1>1, FlatFacts, Spellings, CatClosed
    <3> QED
      BY <3>1, NodeParts, StatementWords
  <2> QED
    BY <1>4, <2>1, <2>2, <2>3, <2>4
<1>5. CASE node.kind = "If"
  <2>1. \A k \in Nat : (IF k = 0 THEN <<>> ELSE Cat(Tok("Else"), text[k])) \in Lines
    BY <1>1, Spellings, CatClosed
  <2>2. ASSUME NEW i \in Nat, NEW j \in Nat, NEW k \in Nat
        PROVE  Wording(IfStmt(i, j, k), text) \in Lines
    <3> DEFINE rest == IF k = 0 THEN <<>> ELSE Cat(Tok("Else"), text[k])
               x == Cat(Cat(Cat(Cat(Tok("If"), Tok("LParen")), text[i]), Tok("RParen")), text[j])
    <3>1. rest \in Lines /\ x \in Lines
      BY <1>1, <2>1, Spellings, CatClosed
    <3>2. Wording(IfStmt(i, j, k), text) = Cat(x, rest)
      BY StatementWords
    <3> HIDE DEF rest, x
    <3> QED
      BY <3>1, <3>2, CatClosed
  <2> QED
    BY <1>5, <2>2, NodeParts
<1>6. CASE node.kind = "While"
  <2>1. \A i, j \in Nat :
          Cat(Cat(Cat(Cat(Tok("While"), Tok("LParen")), text[i]), Tok("RParen")), text[j]) \in Lines
    BY <1>1, Spellings, CatClosed
  <2> QED
    BY <1>6, <2>1, NodeParts, StatementWords
<1>7. CASE node.kind = "For"
  <2>1. ASSUME NEW i \in Nat, NEW j \in Nat, NEW k \in Nat, NEW l \in Nat
        PROVE  Wording(ForStmt(i, j, k, l), text) \in Lines
    <3> DEFINE init == IF i = 0 THEN Tok("Semicolon") ELSE text[i]
    <3>1. init \in Lines /\ Cat(Tok("For"), Tok("LParen")) \in Lines
      BY <1>1, Spellings, CatClosed
    <3>2. Wording(ForStmt(i, j, k, l), text)
            = Cat(Cat(Cat(Cat(Cat(Cat(Cat(Tok("For"), Tok("LParen")), init), text[j]),
                              Tok("Semicolon")), text[k]), Tok("RParen")), text[l])
      BY StatementWords
    <3> HIDE DEF init
    <3>3. Cat(Cat(Cat(Cat(Tok("For"), Tok("LParen")), init), text[j]), Tok("Semicolon")) \in Lines
      BY <1>1, <3>1, Spellings, CatClosed
    <3>4. Cat(Cat(Cat(Cat(Cat(Cat(Cat(Tok("For"), Tok("LParen")), init), text[j]),
                          Tok("Semicolon")), text[k]), Tok("RParen")), text[l]) \in Lines
      BY <1>1, <3>3, Spellings, CatClosed
    <3> QED
      BY <3>2, <3>4
  <2> QED
    BY <1>7, <2>1, NodeParts
<1>8. CASE node.kind = "FuncDecl"
  <2>1. ASSUME NEW n \in String, NEW q \in Seq(String), NEW j \in Nat
        PROVE  Wording(FuncDecl(n, q, j), text) \in Lines
    <3>1. q \in Seq(Nat)
      BY StringAssumption, SeqMonotonic
    <3>2. Listed(Image(Names, q)) \in Lines
      BY <3>1, NamesFacts, ImageFacts, ListedFacts
    <3>3. Cat(Cat(Cat(Cat(Cat(Tok("Function"), Nm(n)), Tok("LParen")), Listed(Image(Names, q))),
                  Tok("RParen")), text[j]) \in Lines
      BY <1>1, <3>2, Spellings, CatClosed
    <3>4. n \in Nat
      BY <1>1
    <3> QED
      BY <3>1, <3>3, <3>4, StatementWords
  <2> QED
    BY <1>8, <2>1, NodeParts
<1> QED
  BY <1>2, <1>3, <1>4, <1>5, <1>6, <1>7, <1>8, NodeParts

LEMMA WordingLocal ==
  ASSUME NEW f, NEW g, NEW node \in ASTNode(String, Value), \A k \in Children(node) : f[k] = g[k]
  PROVE  Wording(node, f) = Wording(node, g)
<1>1. CASE node.kind \in {"Literal", "Var"}
  BY <1>1 DEF Wording
<1>2. CASE node.kind \in {"Grouping", "ExprStmt", "Unary", "Assign", "Return"}
  <2>1. CASE node.kind \in {"Grouping", "ExprStmt"}
    <3>1. f[node.expr] = g[node.expr]
      BY <2>1 DEF Children
    <3> QED
      BY <2>1, <3>1 DEF Wording
  <2>2. CASE node.kind = "Unary"
    <3>1. f[node.right] = g[node.right]
      BY <2>2 DEF Children
    <3> QED
      BY <2>2, <3>1 DEF Wording
  <2>3. CASE node.kind \in {"Assign", "Return"}
    <3>1. f[node.value] = g[node.value]
      BY <2>3 DEF Children
    <3> QED
      BY <2>3, <3>1 DEF Wording
  <2> QED
    BY <1>2, <2>1, <2>2, <2>3
<1>3. CASE node.kind \in {"Binary", "Logical"}
  <2>1. f[node.left] = g[node.left] /\ f[node.right] = g[node.right]
    BY <1>3 DEF Children
  <2> QED
    BY <1>3, <2>1 DEF Wording
<1>4. CASE node.kind = "Call"
  <2>1. f[node.callee] = g[node.callee] /\ \A k \in ToSet(node.args) : f[k] = g[k]
    BY <1>4 DEF Children
  <2>2. Image(f, node.args) = Image(g, node.args)
    BY <2>1 DEF Image, ToSet
  <2>3. \A h : Wording(node, h) = h[node.callee] \o <<Mark("LParen")>> \o Listed(Image(h, node.args))
                                    \o <<Mark("RParen")>>
    BY <1>4 DEF Wording, Image
  <2> QED
    BY <2>1, <2>2, <2>3
<1>5. CASE node.kind = "VarDecl"
  <2>1. f[node.init] = g[node.init]
    BY <1>5 DEF Children
  <2> QED
    BY <1>5, <2>1 DEF Wording
<1>6. CASE node.kind = "Block"
  <2>1. \A k \in ToSet(node.stmts) : f[k] = g[k]
    BY <1>6 DEF Children
  <2>2. Image(f, node.stmts) = Image(g, node.stmts)
    BY <2>1 DEF Image, ToSet
  <2>3. \A h : Wording(node, h) = <<Mark("LBrace")>> \o Flat(h, node.stmts) \o <<Mark("RBrace")>>
    BY <1>6 DEF Wording, Image, Flat
  <2> QED
    BY <2>2, <2>3 DEF Flat
<1>7. CASE node.kind = "If"
  <2>1. f[node.cond] = g[node.cond] /\ f[node.then] = g[node.then] /\ f[node.else] = g[node.else]
    BY <1>7 DEF Children
  <2> QED
    BY <1>7, <2>1 DEF Wording
<1>8. CASE node.kind = "While"
  <2>1. f[node.cond] = g[node.cond] /\ f[node.body] = g[node.body]
    BY <1>8 DEF Children
  <2> QED
    BY <1>8, <2>1 DEF Wording
<1>9. CASE node.kind = "For"
  <2>1. /\ f[node.init] = g[node.init] /\ f[node.cond] = g[node.cond]
        /\ f[node.step] = g[node.step] /\ f[node.body] = g[node.body]
    BY <1>9 DEF Children
  <2> QED
    BY <1>9, <2>1 DEF Wording
<1>10. CASE node.kind = "FuncDecl"
  <2>1. f[node.body] = g[node.body]
    BY <1>10 DEF Children
  <2> QED
    BY <1>10, <2>1 DEF Wording
<1> QED
  BY <1>1, <1>2, <1>3, <1>4, <1>5, <1>6, <1>7, <1>8, <1>9, <1>10, NodeParts

\* text has the first n nodes read like their children do.
Texts(nds, text, n) == \A k \in 1 .. n : text[k] = Wording(nds[k], text)

LEMMA TextsExist ==
  ASSUME NEW nds \in Seq(ASTNode(String, Value)),
         \A i \in 1 .. Len(nds) : Children(nds[i]) \subseteq 0 .. i - 1
  PROVE  \E text : text \in Readings(nds)
<1> DEFINE N == Len(nds)
           Bad == {n \in Nat : n <= N /\ \A text \in Total : ~ Texts(nds, text, n)}
<1>1. N \in Nat /\ \A i \in 1 .. N : nds[i] \in ASTNode(String, Value)
  OBVIOUS
<1>2. ASSUME Bad # {} PROVE FALSE
  <2>1. PICK m \in Bad : \A k \in Bad : m <= k
    BY <1>2, LeastNatural
  <2>2. CASE m = 0
    <3> DEFINE none == [k \in Nat |-> <<>>]
    <3>1. none \in Total
      BY CatNothing DEF Total
    <3>2. Texts(nds, none, 0)
      BY DEF Texts
    <3> QED
      BY <2>1, <2>2, <3>1, <3>2
  <2>3. CASE m # 0
    <3>1. m - 1 \in Nat /\ m \in 1 .. N /\ m - 1 \notin Bad
      BY <1>1, <2>1, <2>3
    <3>2. PICK f \in Total : Texts(nds, f, m - 1)
      BY <1>1, <3>1
    <3> DEFINE line == Wording(nds[m], f)
               g == [k \in Nat |-> IF k = m THEN line ELSE f[k]]
    <3>3. line \in Lines
      BY <1>1, <3>1, WordingLine
    <3>4. f \in [Nat -> Lines] /\ f[0] = <<>>
      BY DEF Total
    <3> HIDE DEF line
    <3>5. g \in Total /\ g[m] = line /\ \A k \in Nat : k # m => g[k] = f[k]
      BY <2>3, <3>1, <3>3, <3>4 DEF Total
    <3> HIDE DEF g
    <3>6. ASSUME NEW k \in 1 .. m PROVE g[k] = Wording(nds[k], g)
      <4>1. k \in 1 .. N
        BY <1>1, <3>1
      <4>2. \A j \in Children(nds[k]) : j \in 0 .. k - 1
        BY <4>1
      <4>3. \A j \in 0 .. k - 1 : f[j] = g[j]
        BY <3>1, <3>5
      <4>4. Wording(nds[k], f) = Wording(nds[k], g)
        BY <1>1, <4>1, <4>2, <4>3, WordingLocal
      <4>5. g[k] = Wording(nds[k], f)
        <5>1. CASE k = m
          BY <3>5, <5>1 DEF line
        <5>2. CASE k # m
          <6>1. k \in 1 .. m - 1
            BY <3>1, <5>2
          <6> QED
            BY <3>2, <3>5, <5>2, <6>1 DEF Texts
        <5> QED
          BY <5>1, <5>2
      <4> QED
        BY <4>4, <4>5
    <3>7. Texts(nds, g, m)
      BY <3>6 DEF Texts
    <3> QED
      BY <2>1, <3>5, <3>7
  <2> QED
    BY <2>2, <2>3
<1>3. PICK text \in Total : Texts(nds, text, N)
  BY <1>1, <1>2
<1> QED
  BY <1>3 DEF Readings, Texts

\* The recursive function is one of them, on the nodes.
LEMMA PhrasesRead ==
  ASSUME NEW nds \in Seq(ASTNode(String, Value)),
         \A i \in 1 .. Len(nds) : Children(nds[i]) \subseteq 0 .. i - 1
  PROVE  \E text \in Readings(nds) : \A k \in 0 .. Len(nds) : Phrases(nds)[k] = text[k]
<1> DEFINE N == Len(nds)
           Is(f) == f = [k \in 0 .. N |-> IF k = 0 THEN <<>> ELSE Wording(nds[k], f)]
           g == CHOOSE f : Is(f)
<1>1. Phrases(nds) = g
  BY DEF Phrases
<1>2. N \in Nat /\ \A i \in 1 .. N : nds[i] \in ASTNode(String, Value)
  OBVIOUS
<1>3. PICK text : text \in Readings(nds)
  BY TextsExist
<1>4. /\ text \in [Nat -> Lines] /\ text[0] = <<>>
      /\ \A k \in 1 .. N : text[k] = Wording(nds[k], text)
  BY <1>3 DEF Readings, Total
<1> DEFINE h == [k \in 0 .. N |-> text[k]]
<1>5. Is(h)
  <2> HIDE DEF h
  <2>1. h = [k \in 0 .. N |-> text[k]]
    BY DEF h
  <2>2. ASSUME NEW k \in 0 .. N
        PROVE  text[k] = IF k = 0 THEN <<>> ELSE Wording(nds[k], h)
    <3>1. CASE k = 0
      BY <1>4, <3>1
    <3>2. CASE k # 0
      <4>1. k \in 1 .. N
        BY <1>2, <3>2
      <4>2. \A j \in Children(nds[k]) : j \in 0 .. N
        <5>1. Children(nds[k]) \subseteq 0 .. k - 1
          BY <4>1
        <5>2. \A j \in 0 .. k - 1 : j \in 0 .. N
          BY <1>2, <4>1
        <5> QED
          BY <5>1, <5>2
      <4>3. \A j \in Children(nds[k]) : text[j] = h[j]
        BY <2>1, <4>2
      <4>4. Wording(nds[k], text) = Wording(nds[k], h)
        BY <1>2, <4>1, <4>3, WordingLocal
      <4> QED
        BY <1>4, <3>2, <4>1, <4>4
    <3> QED
      BY <3>1, <3>2
  <2>3. [k \in 0 .. N |-> text[k]]
          = [k \in 0 .. N |-> IF k = 0 THEN <<>> ELSE Wording(nds[k], h)]
    BY <2>2
  <2> QED
    BY <2>1, <2>3
<1>6. Is(g)
  BY <1>5
<1> HIDE DEF g, h
<1>7. ASSUME NEW k \in 0 .. N, g[k] # text[k] PROVE FALSE
  <2> DEFINE Bad == {j \in Nat : j \in 0 .. N /\ g[j] # text[j]}
  <2>1. Bad \in SUBSET Nat /\ k \in Bad
    BY <1>2, <1>7
  <2>2. PICK m \in Bad : \A j \in Bad : m <= j
    BY <2>1, LeastNatural
  <2>3. m \in 0 .. N /\ g[m] # text[m] /\ \A j \in 0 .. m - 1 : g[j] = text[j]
    BY <1>2, <2>2
  <2>4. g[m] = IF m = 0 THEN <<>> ELSE Wording(nds[m], g)
    BY <1>6, <2>3
  <2>5. CASE m = 0
    BY <1>4, <2>3, <2>4, <2>5
  <2>6. CASE m # 0
    <3>1. m \in 1 .. N
      BY <1>2, <2>3, <2>6
    <3>2. \A j \in Children(nds[m]) : g[j] = text[j]
      BY <2>3, <3>1
    <3>3. Wording(nds[m], g) = Wording(nds[m], text)
      BY <1>2, <3>1, <3>2, WordingLocal
    <3> QED
      BY <1>4, <2>3, <2>4, <2>6, <3>1, <3>3
  <2> QED
    BY <2>5, <2>6
<1> QED
  BY <1>1, <1>3, <1>7

(***************************************************************************)
(* Between statements nothing else is pending.                             *)
(***************************************************************************)

LEMMA BetweenList ==
  ASSUME ParserInv, BetweenStatements
  PROVE  /\ Head(todo).count = Len(results) /\ Tail(todo) = <<>>
         /\ \A i \in 1 .. Len(results) : results[i] \in 1 .. Len(nodes)
<1> DEFINE n == Head(todo).count
           t == Times(n, AnyStmt)
<1>1. Head(todo).do = "statements" /\ Head(todo).of = "Program" /\ Head(todo) \in Record
  BY HeadSigned DEF BetweenStatements, ParserInv
<1>2. n \in Nat
  BY <1>1 DEF Record, Calls
<1>3. \A sig \in Signature(Head(todo)) : sig = Sig(t, <<Never>>)
  BY <1>1 DEF Signature
<1>4. t \in Seq(Sorts) /\ Len(t) = n /\ \A i \in 1 .. n : t[i] = AnyStmt
  BY <1>2, TimesFacts
<1> HIDE DEF t, n
<1>5. PICK open, base : \E b \in Sorts : Sub(Never, b) /\ Pending(open, base, t, <<b>>)
  BY <1>3, <1>4, HeadOne DEF ParserInv
<1>6. PICK b \in Sorts : Sub(Never, b) /\ Pending(open, base, t, <<b>>)
  BY <1>5
<1>7. b = Never
  BY <1>6, SubFacts
<1>8. base \in Seq(Firm) /\ Does(Tail(todo), base \o <<Never>>, <<Never>>)
      /\ Fit(nodes, open, Calm, base \o t, results)
  BY <1>6, <1>7 DEF Pending
<1>9. Never \in Sorts /\ base \in Seq(Sorts)
  BY <1>8, FirmSeq DEF Sorts
<1>10. base \o <<Never>> = Append(base, Never)
  BY <1>9, FramePush
<1>11. base = <<>> /\ Tail(todo) = <<>>
  BY <1>8, <1>10, NeverLast
<1>12. base \o t = t
  BY <1>4, <1>11, ConcatEmptySeq
<1>13. Fit(nodes, open, Calm, t, results)
  BY <1>8, <1>12
<1>14. Len(results) = n
  BY <1>4, <1>13 DEF Fit
<1>15. ASSUME NEW i \in 1 .. Len(results)
       PROVE  results[i] \in 1 .. Len(nodes)
  <2>1. i \in 1 .. n /\ Fits(nodes, open, Calm, t[i], results[i])
    BY <1>4, <1>13 DEF Fit
  <2>2. t[i] = AnyStmt
    BY <1>4, <2>1
  <2> QED
    BY <2>1, <2>2, SortNames DEF Fits
<1> QED
  BY <1>11, <1>14, <1>15 DEF n

LEMMA TextsRead ==
  ASSUME ParserInv, Reading, BetweenStatements, NEW text \in Readings(nodes)
  PROVE  Same(Taken, Flat(text, results))
<1> DEFINE s == <<Taken, results>>
           item == Head(todo)
<1>1. s \in Point /\ s[1] = Taken /\ s[2] = results /\ results \in Seq(Nat) /\ Taken \in Lines
  BY TakenLine DEF ParserInv, WellTyped, Fit
<1>2. /\ todo \in Seq(Record) /\ todo # <<>> /\ item \in Record /\ Tail(todo) = <<>>
      /\ item.do = "statements" /\ item.of = "Program" /\ item.count = Len(results)
  <2>1. todo \in Seq(Record) /\ todo # <<>> /\ item \in Record
    BY NeverEmpty, HeadSigned DEF ParserInv
  <2> QED
    BY <2>1, BetweenList DEF BetweenStatements
<1> HIDE DEF s, item
<1>3. Takes(item) = Len(results)
  BY <1>2 DEF Takes
<1>4. text \in [Nat -> Lines]
  BY ReadingTotal DEF Total
<1>5. Flat(text, results) \in Lines
  BY <1>1, <1>4, FlatFacts
<1>6. Act(text, item, s, s)
  <2>1. <<>> \in Seq(Nat) /\ <<>> \in Lines /\ results = <<>> \o results
    BY <1>1, CatNothing, ConcatEmptySeq
  <2>2. Cat(Taken, <<>>) = Taken /\ Cat(Flat(text, results), <<>>) = Flat(text, results)
    BY <1>1, <1>5, CatNothing
  <2>3. Same(Cat(Flat(text, results), <<>>), Flat(text, results))
    BY <2>2, SameFacts
  <2>4. Leaves(text, item, <<>>, results, <<>>, results)
    BY <1>1, <1>2, <2>1, <2>3 DEF Leaves
  <2> QED
    BY <1>1, <1>3, <2>1, <2>2, <2>4 DEF Act
<1>7. Run(text, <<>>, s, s)
  <2> DEFINE w == [k \in 1 .. 0 + 1 |-> s]
  <2>1. w \in [1 .. 0 + 1 -> Point] /\ w[1] = s /\ w[0 + 1] = s
    BY <1>1
  <2>2. Len(<<>>) = 0 /\ 1 .. 0 = {}
    OBVIOUS
  <2> HIDE DEF w
  <2> QED
    BY <2>1, <2>2 DEF Run
<1>8. Run(text, todo, s, s)
  BY <1>1, <1>2, <1>6, <1>7, RunFirst DEF item
<1>9. Same(s[1], Flat(text, s[2]))
  BY <1>1, <1>8 DEF Reading, ReadsOn, s
<1> QED
  BY <1>1, <1>9

LEMMA TextRead ==
  ASSUME ParserInv, Reading
  PROVE  ReadsBack
<1> SUFFICES ASSUME BetweenStatements
             PROVE  NoEmptyInit(FlattenSeq([s \in DOMAIN results |-> Phrase[results[s]]]))
                      = NoEmptyInit([i \in 1 .. current |-> AsRead(tokens[i])])
  BY DEF ReadsBack
<1>1. /\ nodes \in Seq(ASTNode(String, Value))
      /\ \A i \in 1 .. Len(nodes) : Children(nodes[i]) \subseteq 0 .. i - 1
  BY DEF ParserInv, WellTyped, IsTree
<1>2. PICK text \in Readings(nodes) : \A k \in 0 .. Len(nodes) : Phrase[k] = text[k]
  BY <1>1, PhrasesRead DEF Phrase
<1>3. results \in Seq(Nat) /\ Taken \in Lines
  BY TakenLine DEF ParserInv, WellTyped, Fit
<1>4. \A s \in DOMAIN results : Phrase[results[s]] = text[results[s]]
  <2>1. \A s \in DOMAIN results : results[s] \in 1 .. Len(nodes)
    BY <1>3, BetweenList
  <2>2. \A k \in 1 .. Len(nodes) : k \in 0 .. Len(nodes)
    BY <1>1
  <2> QED
    BY <1>2, <2>1, <2>2
<1>5. [s \in DOMAIN results |-> Phrase[results[s]]] = Image(text, results)
  BY <1>4 DEF Image
<1> DEFINE line == Flat(text, results)
<1>6. line \in Lines
  BY <1>3, FlatFacts, ReadingTotal DEF Total
<1>7. FlattenSeq([s \in DOMAIN results |-> Phrase[results[s]]]) = line
  BY <1>5 DEF Flat
<1>8. Same(Taken, line)
  BY TextsRead
<1> HIDE DEF line
<1>9. NoEmptyInit(Cat(Cat(<<>>, Taken), <<>>)) = NoEmptyInit(Cat(Cat(<<>>, line), <<>>))
  BY <1>8, CatNothing DEF Same
<1>10. Cat(Cat(<<>>, Taken), <<>>) = Taken /\ Cat(Cat(<<>>, line), <<>>) = line
  BY <1>3, <1>6, CatNothing
<1>11. NoEmptyInit(Taken) = NoEmptyInit(line)
  BY <1>9, <1>10
<1> QED
  BY <1>7, <1>11 DEF Taken

\* Whatever the tokens, the statements that JSParser::parse has so far are made
\* of exactly the tokens that it has taken, in their order: none is lost, taken
\* twice or put under the wrong node.
THEOREM ReadsBackHolds == ParserSpec => []ReadsBack
<1>1. ParserInv /\ Reading => ReadsBack
  BY TextRead
<1> QED
  BY <1>1, ReadingInvariant, PTL

(***************************************************************************)
(* What there is to do until the next token is taken.                      *)
(***************************************************************************)

\* A record before what the others have to do.
Added(item, kind, rest) == Weight(item) + IF kind \in Wanted(item) THEN 0 ELSE rest

\* w[n] is what the last n of the records have to do.
Works(items, kind, w) ==
  w = [n \in 0 .. Len(items) |->
        IF n = 0 THEN 0 ELSE Added(items[Len(items) - n + 1], kind, w[n - 1])]

LEMMA WeightNat == \A item : Weight(item) \in Nat \ {0}
  BY DEF Weight

LEMMA AddedNat ==
  ASSUME NEW item, NEW kind, NEW rest \in Nat
  PROVE  Added(item, kind, rest) \in Nat
  BY WeightNat DEF Added

LEMMA WorksNat ==
  ASSUME NEW items \in Seq(Record), NEW kind, NEW w, Works(items, kind, w)
  PROVE  \A n \in 0 .. Len(items) : w[n] \in Nat
<1> DEFINE Bad == {n \in 0 .. Len(items) : w[n] \notin Nat}
<1>1. Bad \in SUBSET Nat
  OBVIOUS
<1>2. ASSUME Bad # {} PROVE FALSE
  <2>1. PICK m \in Bad : \A k \in Bad : m <= k
    BY <1>1, <1>2, LeastNatural
  <2>2. m \in 0 .. Len(items) /\ w[m] \notin Nat
    OBVIOUS
  <2>3. w[m] = IF m = 0 THEN 0 ELSE Added(items[Len(items) - m + 1], kind, w[m - 1])
    BY <2>2 DEF Works
  <2>4. m # 0
    BY <2>2, <2>3
  <2>5. m - 1 \in 0 .. Len(items) /\ ~ (m <= m - 1)
    BY <2>2, <2>4
  <2>6. w[m - 1] \in Nat
    BY <2>1, <2>5
  <2> QED
    BY <2>2, <2>3, <2>4, <2>6, AddedNat
<1> QED
  BY <1>2

LEMMA WorksUnique ==
  ASSUME NEW items \in Seq(Record), NEW kind, NEW v, NEW w,
         Works(items, kind, v), Works(items, kind, w)
  PROVE  \A n \in 0 .. Len(items) : v[n] = w[n]
<1> DEFINE Bad == {n \in 0 .. Len(items) : v[n] # w[n]}
<1>1. Bad \in SUBSET Nat
  OBVIOUS
<1>2. ASSUME Bad # {} PROVE FALSE
  <2>1. PICK m \in Bad : \A k \in Bad : m <= k
    BY <1>1, <1>2, LeastNatural
  <2>2. m \in 0 .. Len(items) /\ v[m] # w[m]
    OBVIOUS
  <2>3. /\ v[m] = IF m = 0 THEN 0 ELSE Added(items[Len(items) - m + 1], kind, v[m - 1])
        /\ w[m] = IF m = 0 THEN 0 ELSE Added(items[Len(items) - m + 1], kind, w[m - 1])
    BY <2>2 DEF Works
  <2>4. m # 0
    BY <2>2, <2>3
  <2>5. m - 1 \in 0 .. Len(items) /\ ~ (m <= m - 1)
    BY <2>2, <2>4
  <2>6. v[m - 1] = w[m - 1]
    BY <2>1, <2>5
  <2> QED
    BY <2>2, <2>3, <2>4, <2>6
<1> QED
  BY <1>2

\* One record more in front.
LEMMA WorksOneMore ==
  ASSUME NEW a \in Record, NEW s \in Seq(Record), NEW kind, NEW w, Works(s, kind, w)
  PROVE  LET n == Len(s)
         IN  /\ n \in Nat /\ Len(<<a>> \o s) = n + 1 /\ <<a>> \o s \in Seq(Record)
             /\ Works(<<a>> \o s, kind,
                      [i \in 0 .. n + 1 |-> IF i <= n THEN w[i] ELSE Added(a, kind, w[n])])
<1> DEFINE n == Len(s)
           t == <<a>> \o s
           v == [i \in 0 .. n + 1 |-> IF i <= n THEN w[i] ELSE Added(a, kind, w[n])]
<1>1. /\ n \in Nat /\ Len(t) = n + 1 /\ t \in Seq(Record) /\ t[1] = a
      /\ \A i \in 1 .. n : t[i + 1] = s[i]
  <2>1. <<a>> \in Seq(Record) /\ Len(<<a>>) = 1 /\ <<a>>[1] = a /\ s \in Seq(Record) /\ Len(s) \in Nat
    OBVIOUS
  <2>2. /\ t \in Seq(Record) /\ Len(t) = 1 + n
        /\ \A i \in 1 .. 1 + n : t[i] = IF i <= 1 THEN <<a>>[i] ELSE s[i - 1]
    BY <2>1, ConcatProperties
  <2>3. ASSUME NEW i \in 1 .. n PROVE t[i + 1] = s[i]
    <3>1. i + 1 \in 1 .. 1 + n /\ ~ (i + 1 <= 1) /\ (i + 1) - 1 = i
      OBVIOUS
    <3> QED
      BY <2>2, <3>1
  <2> HIDE DEF t
  <2> QED
    BY <2>1, <2>2, <2>3
<1> HIDE DEF n, t
<1>2. ASSUME NEW i \in 0 .. n + 1
      PROVE  v[i] = IF i = 0 THEN 0 ELSE Added(t[Len(t) - i + 1], kind, v[i - 1])
  <2>1. CASE i <= n
    <3>1. i \in 0 .. n /\ (i # 0 => i - 1 \in 0 .. n + 1 /\ i - 1 <= n)
      BY <1>1, <2>1
    <3>2. w[i] = IF i = 0 THEN 0 ELSE Added(s[n - i + 1], kind, w[i - 1])
      BY <3>1 DEF Works, n
    <3>3. v[i] = w[i] /\ (i # 0 => v[i - 1] = w[i - 1])
      BY <1>1, <2>1, <3>1
    <3>4. i # 0 => t[Len(t) - i + 1] = s[n - i + 1]
      <4>1. i # 0 => n - i + 1 \in 1 .. n /\ Len(t) - i + 1 = (n - i + 1) + 1
        BY <1>1, <3>1
      <4> QED
        BY <1>1, <4>1
    <3> HIDE DEF v
    <3> QED
      BY <3>2, <3>3, <3>4
  <2>2. CASE ~ (i <= n)
    <3>1. i = n + 1 /\ i # 0 /\ i - 1 = n /\ n \in 0 .. n + 1 /\ Len(t) - i + 1 = 1
      BY <1>1, <2>2
    <3>2. v[i] = Added(a, kind, w[n]) /\ v[i - 1] = w[n]
      BY <1>1, <2>2, <3>1
    <3> HIDE DEF v
    <3> QED
      BY <1>1, <3>1, <3>2
  <2> QED
    BY <2>1, <2>2
<1>3. v = [i \in 0 .. Len(t) |-> IF i = 0 THEN 0 ELSE Added(t[Len(t) - i + 1], kind, v[i - 1])]
  BY <1>1, <1>2, Zenon
<1>4. Works(t, kind, v)
  BY <1>3 DEF Works
<1> QED
  BY <1>1, <1>4 DEF n, t

LEMMA WorksExist ==
  ASSUME NEW items \in Seq(Record), NEW kind
  PROVE  \E w : Works(items, kind, w)
<1> DEFINE Bad == {n \in Nat : \E s \in Seq(Record) : Len(s) = n /\ \A w : ~ Works(s, kind, w)}
<1>1. ASSUME Bad # {} PROVE FALSE
  <2>1. PICK m \in Bad : \A k \in Bad : m <= k
    BY <1>1, LeastNatural
  <2>2. PICK s \in Seq(Record) : Len(s) = m /\ \A w : ~ Works(s, kind, w)
    OBVIOUS
  <2>3. CASE s = <<>>
    <3> DEFINE w == [n \in 0 .. 0 |-> 0]
    <3>1. Len(<<>>) = 0 /\ \A n \in 0 .. 0 : n = 0
      OBVIOUS
    <3>2. Works(<<>>, kind, w)
      BY <3>1 DEF Works
    <3> QED
      BY <2>2, <2>3, <3>2
  <2>4. CASE s # <<>>
    <3>1. Head(s) \in Record /\ Tail(s) \in Seq(Record) /\ Len(Tail(s)) = m - 1 /\ m - 1 \in Nat
      BY <2>2, <2>4, HeadTailProperties, EmptySeq
    <3>2. s = <<Head(s)>> \o Tail(s)
      BY <2>4, HeadAndTail
    <3>3. ~ (m <= m - 1)
      BY <2>1
    <3>4. m - 1 \notin Bad
      BY <2>1, <3>3
    <3>5. PICK w : Works(Tail(s), kind, w)
      BY <3>1, <3>4
    <3>6. \E v : Works(<<Head(s)>> \o Tail(s), kind, v)
      BY <3>1, <3>5, WorksOneMore
    <3> QED
      BY <2>2, <3>2, <3>6
  <2> QED
    BY <2>3, <2>4
<1>2. Len(items) \in Nat /\ Len(items) \notin Bad
  BY <1>1
<1> QED
  BY <1>2

LEMMA WorkIs ==
  ASSUME NEW items \in Seq(Record), NEW kind, NEW w, Works(items, kind, w)
  PROVE  Work(items, kind) = w[Len(items)] /\ Work(items, kind) \in Nat
<1> DEFINE v == CHOOSE v : v = [n \in 0 .. Len(items) |->
                  IF n = 0 THEN 0
                  ELSE LET item == items[Len(items) - n + 1]
                       IN  Weight(item) + IF kind \in Wanted(item) THEN 0 ELSE v[n - 1]]
<1>1. Works(items, kind, v)
  BY Zenon DEF Works, Added
<1>2. Work(items, kind) = v[Len(items)]
  BY DEF Work
<1> HIDE DEF v
<1>3. Len(items) \in 0 .. Len(items)
  OBVIOUS
<1> QED
  BY <1>1, <1>2, <1>3, WorksUnique, WorksNat

LEMMA WorkFacts ==
  ASSUME NEW s \in Seq(Record), NEW kind
  PROVE  /\ Work(s, kind) \in Nat
         /\ \A a \in Record : Work(<<a>> \o s, kind) = Added(a, kind, Work(s, kind))
<1>1. PICK w : Works(s, kind, w)
  BY WorksExist
<1>2. Work(s, kind) = w[Len(s)] /\ Work(s, kind) \in Nat
  BY <1>1, WorkIs
<1>3. ASSUME NEW a \in Record
      PROVE  Work(<<a>> \o s, kind) = Added(a, kind, Work(s, kind))
  <2> DEFINE n == Len(s)
             v == [i \in 0 .. n + 1 |-> IF i <= n THEN w[i] ELSE Added(a, kind, w[n])]
  <2>1. n \in Nat /\ Len(<<a>> \o s) = n + 1 /\ <<a>> \o s \in Seq(Record)
        /\ Works(<<a>> \o s, kind, v)
    BY <1>1, WorksOneMore
  <2>2. v[n + 1] = Added(a, kind, w[n])
    BY <2>1
  <2> HIDE DEF v, n
  <2>3. Work(<<a>> \o s, kind) = v[n + 1]
    BY <2>1, WorkIs
  <2> QED
    BY <1>2, <2>2, <2>3 DEF n
<1> QED
  BY <1>2, <1>3

\* The records before s have no more to do than b, and if they take the token,
\* those in s have nothing.
AtMost(items, b, kinds) ==
  /\ items \in Seq(Record)
  /\ \A s \in Seq(Record) : \A kind :
       Work(items \o s, kind) <= b + IF kind \in kinds THEN 0 ELSE Work(s, kind)

LEMMA AtMostNothing == AtMost(<<>>, 0, {})
<1>1. <<>> \in Seq(Record)
  OBVIOUS
<1>2. ASSUME NEW s \in Seq(Record), NEW kind
      PROVE  Work(<<>> \o s, kind) <= 0 + Work(s, kind)
  <2>1. <<>> \o s = s /\ Work(s, kind) \in Nat
    BY ConcatEmptySeq, WorkFacts
  <2> QED
    BY <2>1
<1> QED
  BY <1>1, <1>2 DEF AtMost

LEMMA AtMostOne ==
  ASSUME NEW a \in Record
  PROVE  AtMost(<<a>>, Weight(a), Wanted(a))
<1>1. <<a>> \in Seq(Record) /\ Weight(a) \in Nat
  BY WeightNat
<1>2. ASSUME NEW s \in Seq(Record), NEW kind
      PROVE  Work(<<a>> \o s, kind)
               <= Weight(a) + IF kind \in Wanted(a) THEN 0 ELSE Work(s, kind)
  <2>1. Work(s, kind) \in Nat /\ Work(<<a>> \o s, kind) = Added(a, kind, Work(s, kind))
    BY WorkFacts
  <2> QED
    BY <1>1, <2>1 DEF Added
<1> QED
  BY <1>1, <1>2 DEF AtMost

LEMMA AtMostBoth ==
  ASSUME NEW x, NEW y, NEW b \in Nat, NEW c \in Nat, NEW K, NEW L,
         AtMost(x, b, K), AtMost(y, c, L)
  PROVE  AtMost(x \o y, b + c, K \cup L)
<1>1. x \in Seq(Record) /\ y \in Seq(Record) /\ x \o y \in Seq(Record)
  BY ConcatProperties DEF AtMost
<1>2. ASSUME NEW s \in Seq(Record), NEW kind
      PROVE  Work((x \o y) \o s, kind)
               <= b + c + IF kind \in K \cup L THEN 0 ELSE Work(s, kind)
  <2>1. (x \o y) \o s = x \o (y \o s) /\ y \o s \in Seq(Record)
    BY <1>1, ConcatAssociative, ConcatProperties
  <2>2. /\ Work(s, kind) \in Nat /\ Work(y \o s, kind) \in Nat
        /\ Work(x \o (y \o s), kind) \in Nat
    <3>1. x \o (y \o s) \in Seq(Record)
      BY <1>1, <2>1, ConcatProperties
    <3> QED
      BY <2>1, <3>1, WorkFacts
  <2>3. /\ Work(y \o s, kind) <= c + IF kind \in L THEN 0 ELSE Work(s, kind)
        /\ Work(x \o (y \o s), kind) <= b + IF kind \in K THEN 0 ELSE Work(y \o s, kind)
    BY <2>1 DEF AtMost
  <2> DEFINE m == Work(s, kind)
             n == Work(y \o s, kind)
             o == Work(x \o (y \o s), kind)
  <2>4. o <= b + c + IF kind \in K \cup L THEN 0 ELSE m
    <3>1. m \in Nat /\ n \in Nat /\ o \in Nat /\ n <= c + (IF kind \in L THEN 0 ELSE m)
          /\ o <= b + (IF kind \in K THEN 0 ELSE n)
      BY <2>2, <2>3
    <3> HIDE DEF m, n, o
    <3> QED
      BY <3>1
  <2> QED
    BY <2>1, <2>4
<1> QED
  BY <1>1, <1>2 DEF AtMost

LEMMA AtMostLess ==
  ASSUME NEW x, NEW b \in Nat, NEW c \in Nat, b <= c, NEW K, NEW L, L \subseteq K,
         AtMost(x, b, K)
  PROVE  AtMost(x, c, L)
<1>1. x \in Seq(Record)
  BY DEF AtMost
<1>2. ASSUME NEW s \in Seq(Record), NEW kind
      PROVE  Work(x \o s, kind) <= c + IF kind \in L THEN 0 ELSE Work(s, kind)
  <2>1. /\ Work(s, kind) \in Nat /\ Work(x \o s, kind) \in Nat
        /\ Work(x \o s, kind) <= b + IF kind \in K THEN 0 ELSE Work(s, kind)
    <3>1. x \o s \in Seq(Record)
      BY <1>1, ConcatProperties
    <3> QED
      BY <3>1, WorkFacts DEF AtMost
  <2> QED
    BY <2>1
<1> QED
  BY <1>1, <1>2 DEF AtMost

(***************************************************************************)
(* What the records are worth.                                             *)
(***************************************************************************)

Operators == UNION ToSet(Level)

\* The tokens that an expression takes if it comes to them first.
ExprStarter == UnaryOp \cup LiteralKind \cup {"Identifier", "LParen", "Equal"} \cup Operators

LEMMA OperatorsAre ==
  Len(Level) = 6 /\ Operators = UNION {Level[l] : l \in 1 .. 6}
<1> DEFINE level == Level
<1>1. Len(level) = 6 /\ DOMAIN level = 1 .. 6
  BY DEF Level
<1> HIDE DEF level
<1>2. ToSet(level) = {level[i] : i \in 1 .. 6}
  BY <1>1 DEF ToSet
<1> QED
  BY <1>1, <1>2 DEF level, Operators

LEMMA StarterIs ==
  Starter = ExprStarter \cup {"Var", "Let", "Function", "If", "While", "For", "Return", "LBrace"}
<1>1. DOMAIN Rule = {"Var", "Function", "If", "While", "For", "Return", "LBrace"}
  BY DEF Rule
<1> QED
  BY <1>1 DEF Starter, ExprStarter, Operators

\* The first n of the loops behind an operand, and what they look for.
Loops(n) == [i \in 1 .. n |-> More(7 - i)]
Sought(n) == UNION {Level[l] : l \in 7 - n .. 6}

LEMMA LoopsOneMore ==
  ASSUME NEW n \in 0 .. 5, AtMost(Loops(n), n, Sought(n))
  PROVE  AtMost(Loops(n + 1), n + 1, Sought(n + 1))
<1> DEFINE a == More(6 - n)
<1>1. n \in Nat /\ n + 1 \in Nat /\ 6 - n \in Nat
  OBVIOUS
<1>2. a \in Record /\ Weight(a) = 1 /\ Wanted(a) = Level[6 - n]
  BY <1>1, RecordFacts DEF Weight, Wanted, More
<1>3. AtMost(<<a>>, 1, Level[6 - n])
  BY <1>2, AtMostOne
<1>4. AtMost(Loops(n) \o <<a>>, n + 1, Sought(n) \cup Level[6 - n])
  BY <1>1, <1>3, AtMostBoth
<1>5. Sought(n) \cup Level[6 - n] = Sought(n + 1)
  <2>1. \A l : l \in 7 - (n + 1) .. 6 <=> l \in 7 - n .. 6 \/ l = 6 - n
    OBVIOUS
  <2> QED
    BY <2>1 DEF Sought
<1>6. Loops(n) \o <<a>> = Loops(n + 1)
  <2>1. \A i \in 1 .. n + 1 : 7 - i \in Nat
    OBVIOUS
  <2>2. \A i \in 1 .. n + 1 : More(7 - i) \in Record
    BY <2>1, RecordFacts
  <2>3. Loops(n) \in Seq(Record) /\ Len(Loops(n)) = n /\ \A i \in 1 .. n : Loops(n)[i] = More(7 - i)
    BY <1>1, <2>2, IsASeq DEF Loops
  <2>4. /\ Loops(n + 1) \in Seq(Record) /\ Len(Loops(n + 1)) = n + 1
        /\ \A i \in 1 .. n + 1 : Loops(n + 1)[i] = More(7 - i)
    BY <1>1, <2>2, IsASeq DEF Loops
  <2>5. (\A i \in 1 .. n : Loops(n + 1)[i] = Loops(n)[i]) /\ Loops(n + 1)[n + 1] = a
    BY <1>1, <2>3, <2>4
  <2>6. Append(Loops(n), a) = Loops(n + 1)
    BY <1>2, <2>3, <2>4, <2>5, AppendIs
  <2> QED
    BY <1>2, <2>3, <2>6, AppendIsConcat
<1> QED
  BY <1>4, <1>5, <1>6

LEMMA AllLoops == AtMost(Loops(6), 6, Operators)
<1> DEFINE Fine(n) == AtMost(Loops(n), n, Sought(n))
<1>1. Fine(0)
  <2>1. Loops(0) = <<>> /\ Sought(0) = {}
    BY DEF Loops, Sought
  <2> QED
    BY <2>1, AtMostNothing
<1>2. \A n \in 0 .. 5 : Fine(n) => Fine(n + 1)
  BY LoopsOneMore
<1> HIDE DEF Fine
<1>3. Fine(6)
  <2>1. Fine(1)
    BY <1>1, <1>2
  <2>2. Fine(2)
    BY <1>2, <2>1
  <2>3. Fine(3)
    BY <1>2, <2>2
  <2>4. Fine(4)
    BY <1>2, <2>3
  <2>5. Fine(5)
    BY <1>2, <2>4
  <2> QED
    BY <1>2, <2>5
<1>4. Sought(6) = Operators
  BY OperatorsAre DEF Sought
<1> QED
  BY <1>3, <1>4 DEF Fine

LEMMA ExprAtMost == AtMost(Expr, 10, ExprStarter)
<1>1. /\ Do("unary") \in Record /\ Weight(Do("unary")) = 3
      /\ Wanted(Do("unary")) = UnaryOp \cup LiteralKind \cup {"Identifier", "LParen"}
      /\ Do("assign") \in Record /\ Weight(Do("assign")) = 1 /\ Wanted(Do("assign")) = {"Equal"}
  BY DoRecords DEF Weight, Wanted, Do
<1>2. /\ AtMost(<<Do("unary")>>, 3, UnaryOp \cup LiteralKind \cup {"Identifier", "LParen"})
      /\ AtMost(<<Do("assign")>>, 1, {"Equal"})
  BY <1>1, AtMostOne
<1>3. Operand(1) = <<Do("unary")>> \o Loops(6)
  BY OperatorsAre DEF Operand, Loops
<1>4. AtMost(Operand(1), 9, (UnaryOp \cup LiteralKind \cup {"Identifier", "LParen"}) \cup Operators)
  <2> DEFINE K == UnaryOp \cup LiteralKind \cup {"Identifier", "LParen"}
             x == <<Do("unary")>>
             y == Loops(6)
  <2>1. AtMost(x, 3, K) /\ AtMost(y, 6, Operators) /\ 3 \in Nat /\ 6 \in Nat /\ 3 + 6 = 9
    BY <1>2, AllLoops
  <2> HIDE DEF K, x, y
  <2>2. AtMost(x \o y, 9, K \cup Operators)
    BY <2>1, AtMostBoth
  <2> QED
    BY <1>3, <2>2 DEF K, x, y
<1>5. AtMost(Expr, 10, ((UnaryOp \cup LiteralKind \cup {"Identifier", "LParen"}) \cup Operators)
                         \cup {"Equal"})
  <2>1. 9 + 1 = 10
    OBVIOUS
  <2> QED
    BY <1>2, <1>4, <2>1, AtMostBoth DEF Expr
<1>6. ((UnaryOp \cup LiteralKind \cup {"Identifier", "LParen"}) \cup Operators) \cup {"Equal"}
        = ExprStarter
  BY DEF ExprStarter
<1> QED
  BY <1>5, <1>6

LEMMA ExprStatementAtMost == AtMost(ExprStatement, 11, ExprStarter)
<1>1. Do("exprStmt") \in Record /\ Weight(Do("exprStmt")) = 1 /\ Wanted(Do("exprStmt")) = {}
  BY DoRecords DEF Weight, Wanted, Do
<1>2. AtMost(<<Do("exprStmt")>>, 1, {})
  BY <1>1, AtMostOne
<1>3. 10 + 1 = 11 /\ ExprStarter \cup {} = ExprStarter
  OBVIOUS
<1> QED
  BY <1>2, <1>3, ExprAtMost, AtMostBoth DEF ExprStatement

LEMMA AtMostFirst ==
  ASSUME NEW a \in Record, NEW s \in Seq(Record), s # <<>>, Head(s) = a,
         NEW b \in Nat, NEW K, AtMost(Tail(s), b, K)
  PROVE  AtMost(s, Weight(a) + b, Wanted(a) \cup K)
<1>1. Weight(a) \in Nat /\ AtMost(<<a>>, Weight(a), Wanted(a))
  BY WeightNat, AtMostOne
<1>2. <<a>> \o Tail(s) = s
  BY HeadAndTail
<1>3. AtMost(<<a>> \o Tail(s), Weight(a) + b, Wanted(a) \cup K)
  BY <1>1, AtMostBoth
<1> QED
  BY <1>2, <1>3

LEMMA AtMostTwo ==
  ASSUME NEW a \in Record, NEW b \in Record
  PROVE  AtMost(<<a, b>>, Weight(a) + Weight(b), Wanted(a) \cup Wanted(b))
<1>1. /\ <<a, b>> \in Seq(Record) /\ <<a, b>> # <<>> /\ Head(<<a, b>>) = a
      /\ Tail(<<a, b>>) = <<b>>
  OBVIOUS
<1>2. AtMost(<<b>>, Weight(b), Wanted(b)) /\ Weight(b) \in Nat
  BY AtMostOne, WeightNat
<1> QED
  BY <1>1, <1>2, AtMostFirst

LEMMA AtMostThree ==
  ASSUME NEW a \in Record, NEW b \in Record, NEW c \in Record
  PROVE  AtMost(<<a, b, c>>, Weight(a) + (Weight(b) + Weight(c)),
                Wanted(a) \cup (Wanted(b) \cup Wanted(c)))
<1>1. /\ <<a, b, c>> \in Seq(Record) /\ <<a, b, c>> # <<>> /\ Head(<<a, b, c>>) = a
      /\ Tail(<<a, b, c>>) = <<b, c>>
  OBVIOUS
<1>2. /\ AtMost(<<b, c>>, Weight(b) + Weight(c), Wanted(b) \cup Wanted(c))
      /\ Weight(b) + Weight(c) \in Nat
  BY AtMostTwo, WeightNat
<1> QED
  BY <1>1, <1>2, AtMostFirst

LEMMA AtMostFour ==
  ASSUME NEW a \in Record, NEW b \in Record, NEW c \in Record, NEW d \in Record
  PROVE  AtMost(<<a, b, c, d>>, Weight(a) + (Weight(b) + (Weight(c) + Weight(d))),
                Wanted(a) \cup (Wanted(b) \cup (Wanted(c) \cup Wanted(d))))
<1>1. /\ <<a, b, c, d>> \in Seq(Record) /\ <<a, b, c, d>> # <<>> /\ Head(<<a, b, c, d>>) = a
      /\ Tail(<<a, b, c, d>>) = <<b, c, d>>
  OBVIOUS
<1>2. /\ AtMost(<<b, c, d>>, Weight(b) + (Weight(c) + Weight(d)),
                Wanted(b) \cup (Wanted(c) \cup Wanted(d)))
      /\ Weight(b) + (Weight(c) + Weight(d)) \in Nat
  BY AtMostThree, WeightNat
<1> QED
  BY <1>1, <1>2, AtMostFirst

LEMMA RecordWeights ==
  /\ \A kind : /\ Weight(Consume(kind)) = 1 /\ Wanted(Consume(kind)) = {}
               /\ Weight(Unless(kind)) = 11 /\ Wanted(Unless(kind)) = {}
  /\ \A of, n : /\ Weight(Statements(of, n)) = 14 /\ Wanted(Statements(of, n)) = {}
                /\ Weight(Item(of, n)) = 29 /\ Wanted(Item(of, n)) = {}
                /\ Weight(Comma(of, n)) = 18 /\ Wanted(Comma(of, n)) = {}
  /\ \A l : Weight(More(l)) = 1 /\ Wanted(More(l)) = Level[l]
  /\ \A kind, n : Weight(BuildList(kind, n)) = 1 /\ Wanted(BuildList(kind, n)) = {}
<1>1. \A kind : /\ Weight(Consume(kind)) = 1 /\ Wanted(Consume(kind)) = {}
                /\ Weight(Unless(kind)) = 11 /\ Wanted(Unless(kind)) = {}
  BY DEF Weight, Wanted, Consume, Unless
<1>2. \A of, n : /\ Weight(Statements(of, n)) = 14 /\ Wanted(Statements(of, n)) = {}
                 /\ Weight(Item(of, n)) = 29 /\ Wanted(Item(of, n)) = {}
                 /\ Weight(Comma(of, n)) = 18 /\ Wanted(Comma(of, n)) = {}
  BY DEF Weight, Wanted, Statements, Item, Comma
<1>3. \A l : Weight(More(l)) = 1 /\ Wanted(More(l)) = Level[l]
  BY DEF Weight, Wanted, More
<1>4. \A kind, n : Weight(BuildList(kind, n)) = 1 /\ Wanted(BuildList(kind, n)) = {}
  <2>1. \A kind, n : BuildList(kind, n).do = "build"
    BY DEF BuildList, Build
  <2> QED
    BY <2>1 DEF Weight, Wanted
<1> QED
  BY <1>1, <1>2, <1>3, <1>4

LEMMA CallWeights ==
  /\ Weight(Do("decl")) = 13 /\ Wanted(Do("decl")) = Starter
  /\ Weight(Do("stmt")) = 12 /\ Wanted(Do("stmt")) = Starter \ {"Var", "Let"}
  /\ Weight(Do("unary")) = 3
  /\ Wanted(Do("unary")) = UnaryOp \cup LiteralKind \cup {"Identifier", "LParen"}
  /\ Weight(Do("primary")) = 1
  /\ Wanted(Do("primary")) = LiteralKind \cup {"Identifier", "LParen"}
  /\ Weight(Do("calls")) = 1 /\ Wanted(Do("calls")) = {}
  /\ Weight(Do("forInit")) = 12 /\ Wanted(Do("forInit")) = {}
  /\ Weight(Do("params")) = 30 /\ Wanted(Do("params")) = {}
  /\ Weight(Do("args")) = 30 /\ Wanted(Do("args")) = {}
  BY DEF Weight, Wanted, Do

LEMMA RestAtMost ==
  ASSUME NEW of \in {"params", "args"}, NEW n \in Nat
  PROVE  AtMost(Rest(of, n), 17, {})
<1>1. CASE of = "params"
  <2> DEFINE a == Consume("RParen")
             b == Consume("LBrace")
             c == Statements("Block", 0)
             d == BuildList("FuncDecl", n)
  <2>1. /\ a \in Record /\ b \in Record /\ c \in Record /\ d \in Record
        /\ Rest(of, n) = <<a, b, c, d>>
    BY <1>1, TokenRecords, RecordFacts, BuildRecords DEF Rest
  <2>2. /\ Weight(a) = 1 /\ Weight(b) = 1 /\ Weight(c) = 14 /\ Weight(d) = 1
        /\ Wanted(a) = {} /\ Wanted(b) = {} /\ Wanted(c) = {} /\ Wanted(d) = {}
    BY RecordWeights
  <2> HIDE DEF a, b, c, d
  <2>3. AtMost(<<a, b, c, d>>, 1 + (1 + (14 + 1)), {} \cup ({} \cup ({} \cup {})))
    BY <2>1, <2>2, AtMostFour
  <2>4. 1 + (1 + (14 + 1)) = 17 /\ {} \cup ({} \cup ({} \cup {})) = {}
    OBVIOUS
  <2> QED
    BY <2>1, <2>3, <2>4
<1>2. CASE of = "args"
  <2> DEFINE a == Consume("RParen")
             b == BuildList("Call", n)
             c == Do("calls")
  <2>1. /\ a \in Record /\ b \in Record /\ c \in Record
        /\ Rest(of, n) = <<a, b, c>>
    BY <1>2, TokenRecords, DoRecords, BuildRecords DEF Rest
  <2>2. /\ Weight(a) = 1 /\ Weight(b) = 1 /\ Weight(c) = 1
        /\ Wanted(a) = {} /\ Wanted(b) = {} /\ Wanted(c) = {}
    BY RecordWeights, CallWeights
  <2> HIDE DEF a, b, c
  <2>3. AtMost(<<a, b, c>>, 1 + (1 + 1), {} \cup ({} \cup {}))
    BY <2>1, <2>2, AtMostThree
  <2>4. 1 + (1 + 1) = 3 /\ {} \cup ({} \cup {}) = {} /\ 3 \in Nat /\ 17 \in Nat /\ 3 <= 17
        /\ {} \subseteq {}
    OBVIOUS
  <2>5. AtMost(<<a, b, c>>, 3, {})
    BY <2>3, <2>4
  <2> QED
    BY <2>1, <2>4, <2>5, AtMostLess
<1> QED
  BY <1>1, <1>2

\* The records that the next item of a list becomes.
LEMMA ItemAtMost ==
  ASSUME NEW of \in {"params", "args"}, NEW n \in Nat
  PROVE  AtMost((IF of = "params" THEN <<Consume("Identifier")>> ELSE Expr)
                  \o <<Comma(of, n + 1)>>, 28, {})
<1> DEFINE x == IF of = "params" THEN <<Consume("Identifier")>> ELSE Expr
           y == <<Comma(of, n + 1)>>
<1>1. AtMost(x, 10, {})
  <2>1. CASE of = "params"
    <3>1. AtMost(<<Consume("Identifier")>>, 1, {})
      <4>1. Consume("Identifier") \in Record
        BY TokenRecords
      <4> QED
        BY <4>1, AtMostOne, RecordWeights
    <3>2. 1 \in Nat /\ 10 \in Nat /\ 1 <= 10 /\ {} \subseteq {}
      OBVIOUS
    <3> QED
      BY <2>1, <3>1, <3>2, AtMostLess
  <2>2. CASE of # "params"
    <3>1. 10 \in Nat /\ 10 <= 10 /\ {} \subseteq ExprStarter
      OBVIOUS
    <3> QED
      BY <2>2, <3>1, ExprAtMost, AtMostLess
  <2> QED
    BY <2>1, <2>2
<1>2. AtMost(y, 18, {})
  <2>1. Comma(of, n + 1) \in Record
    <3>1. n + 1 \in Nat
      OBVIOUS
    <3> QED
      BY <3>1, RecordFacts
  <2> QED
    BY <2>1, AtMostOne, RecordWeights
<1> HIDE DEF x, y
<1>3. AtMost(x \o y, 10 + 18, {} \cup {})
  BY <1>1, <1>2, AtMostBoth
<1>4. 10 + 18 = 28 /\ {} \cup {} = {}
  OBVIOUS
<1>5. AtMost(x \o y, 28, {})
  BY <1>3, <1>4
<1> QED
  BY <1>5 DEF x, y

(***************************************************************************)
(* The steps.                                                              *)
(***************************************************************************)

Nearer ==
  \/ parsed' # "parsing" \/ current' > current
  \/ Work(todo', Peek.kind) < Work(todo, Peek.kind)

LEMMA AdvanceNearer ==
  ASSUME ParserInv, Advance
  PROVE  Nearer
<1>1. current \in Nat
  BY DEF ParserInv, CursorFits
<1> QED
  BY <1>1 DEF Advance, Nearer

LEMMA FailNearer ==
  ASSUME NEW why, Fail(why), why # "parsing"
  PROVE  Nearer
  BY DEF Fail, Nearer

\* The records that replace the first are lighter, and one of them takes the
\* token if that would have.
LEMMA LessNearer ==
  ASSUME ParserInv, NEW records, Become(records), NEW b \in Nat, NEW K, AtMost(records, b, K),
         b < Weight(Head(todo)), Peek.kind \in Wanted(Head(todo)) => Peek.kind \in K
  PROVE  Nearer
<1> DEFINE a == Head(todo)
           s == Tail(todo)
           kind == Peek.kind
<1>1. /\ todo \in Seq(Record) /\ todo # <<>>
  BY NeverEmpty DEF ParserInv
<1>2. a \in Record /\ s \in Seq(Record) /\ todo = <<a>> \o s
  BY <1>1, HeadTailProperties, HeadAndTail
<1>3. todo' = records \o s
  BY DEF Become
<1> HIDE DEF a, s, kind
<1>4. /\ Work(s, kind) \in Nat /\ Work(todo, kind) = Added(a, kind, Work(s, kind))
  BY <1>2, WorkFacts
<1>5. /\ Work(records \o s, kind) \in Nat
      /\ Work(records \o s, kind) <= b + IF kind \in K THEN 0 ELSE Work(s, kind)
  <2>1. records \o s \in Seq(Record)
    BY <1>2, ConcatProperties DEF AtMost
  <2> QED
    BY <1>2, <2>1, WorkFacts DEF AtMost
<1>6. Weight(a) \in Nat /\ b < Weight(a) /\ (kind \in Wanted(a) => kind \in K)
  BY WeightNat DEF a, kind
<1>7. Work(records \o s, kind) < Work(todo, kind)
  <2> DEFINE m == Work(s, kind)
             n == Work(records \o s, kind)
  <2>1. Work(todo, kind) = Weight(a) + IF kind \in Wanted(a) THEN 0 ELSE m
    BY <1>4 DEF Added
  <2>2. m \in Nat /\ n \in Nat /\ n <= b + IF kind \in K THEN 0 ELSE m
    BY <1>4, <1>5
  <2> HIDE DEF m, n
  <2>3. n < Weight(a) + IF kind \in Wanted(a) THEN 0 ELSE m
    BY <1>6, <2>2
  <2> QED
    BY <2>1, <2>3 DEF n
<1> QED
  BY <1>3, <1>7 DEF Nearer, kind

LEMMA GoneNearer ==
  ASSUME ParserInv, Become(<<>>), Peek.kind \notin Wanted(Head(todo))
  PROVE  Nearer
<1>1. Weight(Head(todo)) \in Nat \ {0}
  BY WeightNat
<1>2. 0 \in Nat /\ 0 < Weight(Head(todo))
  BY <1>1
<1> QED
  BY <1>2, AtMostNothing, LessNearer

LEMMA StatementsNearer ==
  ASSUME ParserInv, ParseStatements, Peek.kind \in Starter \cup {"Eof"}
  PROVE  Nearer
<1> DEFINE list == Head(todo)
<1>1. At("statements") /\ list \in Record /\ list.do = "statements"
  BY HeadSigned DEF ParseStatements, At, ParserInv
<1>2. list.of \in {"Program", "Block"} /\ list.count \in Nat
  BY <1>1, RecordIs
<1>3. Weight(list) = 14 /\ Wanted(list) = {}
  BY <1>1 DEF Weight, Wanted
<1>4. CASE Peek.kind # "Eof" /\ ~(list.of = "Block" /\ Check("RBrace"))
  <2>1. PICK n \in Nat : Become(<<Do("decl"), Statements(list.of, n)>>)
    <3>1. Become(<<Do("decl"), Statements(list.of, list.count + 1)>>)
            \/ Become(<<Do("decl"), list>>)
      BY <1>4 DEF ParseStatements
    <3>2. list = Statements(list.of, list.count) /\ list.count + 1 \in Nat
      BY <1>1, <1>2, RecordIs
    <3> QED
      BY <1>2, <3>1, <3>2
  <2>2. Peek.kind \in Starter
    <3>1. Peek.kind # "Eof"
      BY <1>4
    <3> QED
      BY <3>1
  <2>3. /\ todo \in Seq(Record) /\ todo # <<>> /\ Tail(todo) \in Seq(Record)
        /\ todo = <<list>> \o Tail(todo)
    <3>1. todo \in Seq(Record) /\ todo # <<>>
      BY NeverEmpty DEF ParserInv
    <3> QED
      BY <3>1, HeadTailProperties, HeadAndTail
  <2> DEFINE a == Do("decl")
             b == Statements(list.of, n)
             s == Tail(todo)
             kind == Peek.kind
  <2>4. a \in Record /\ b \in Record /\ Weight(a) = 13 /\ kind \in Wanted(a)
    BY <1>2, <2>2, DoRecords, RecordFacts, CallWeights
  <2>5. todo' = <<a, b>> \o s
    BY <2>1 DEF Become
  <2> HIDE DEF a, b, s, kind, list
  <2>6. <<a, b>> \o s = <<a>> \o (<<b>> \o s) /\ <<b>> \o s \in Seq(Record)
    <3>1. <<a>> \in Seq(Record) /\ <<b>> \in Seq(Record) /\ s \in Seq(Record)
      BY <2>3, <2>4 DEF s
    <3>2. <<a, b>> = <<a>> \o <<b>>
      <4>1. /\ <<a, b>> \in Seq(Record) /\ <<a, b>> # <<>> /\ Head(<<a, b>>) = a
            /\ Tail(<<a, b>>) = <<b>>
        BY <2>4
      <4> QED
        BY <4>1, HeadAndTail
    <3> QED
      BY <3>1, <3>2, ConcatAssociative, ConcatProperties
  <2>7. Work(todo', kind) = 13
    <3>1. Work(<<a>> \o (<<b>> \o s), kind) = Added(a, kind, Work(<<b>> \o s, kind))
      BY <2>4, <2>6, WorkFacts
    <3>2. Added(a, kind, Work(<<b>> \o s, kind)) = 13
      <4>1. 13 + 0 = 13
        OBVIOUS
      <4> QED
        BY <2>4, <4>1 DEF Added
    <3> QED
      BY <2>5, <2>6, <3>1, <3>2, Zenon
  <2>8. Work(todo, kind) >= 14
    <3>1. Work(s, kind) \in Nat /\ Work(<<list>> \o s, kind) = Added(list, kind, Work(s, kind))
      BY <1>1, <2>3, WorkFacts DEF s
    <3>2. Added(list, kind, Work(s, kind)) = 14 + Work(s, kind)
      BY <1>3 DEF Added
    <3>3. Work(todo, kind) = Work(<<list>> \o s, kind)
      BY <2>3, Zenon DEF s
    <3>4. Work(todo, kind) = 14 + Work(s, kind)
      BY <3>1, <3>2, <3>3, Zenon
    <3> DEFINE m == Work(s, kind)
               all == Work(todo, kind)
    <3>5. m \in Nat /\ all = 14 + m
      BY <3>1, <3>4
    <3> HIDE DEF m, all
    <3>6. all >= 14
      BY <3>5
    <3> QED
      BY <3>6 DEF all
  <2>9. Work(todo, kind) \in Nat
    BY <2>3, WorkFacts
  <2> QED
    BY <2>7, <2>8, <2>9 DEF Nearer, kind
<1>5. CASE ~(Peek.kind # "Eof" /\ ~(list.of = "Block" /\ Check("RBrace"))) /\ list.of = "Block"
  <2> DEFINE a == Consume("RBrace")
             b == BuildList("Block", list.count)
  <2>1. Become(<<a, b>>)
    BY <1>5 DEF ParseStatements
  <2>2. a \in Record /\ b \in Record /\ Weight(a) = 1 /\ Weight(b) = 1
        /\ Wanted(a) = {} /\ Wanted(b) = {}
    BY <1>2, TokenRecords, BuildRecords, RecordWeights
  <2> HIDE DEF a, b
  <2>3. AtMost(<<a, b>>, 1 + 1, {} \cup {})
    BY <2>2, AtMostTwo
  <2>4. 1 + 1 \in Nat /\ 1 + 1 < Weight(list) /\ Peek.kind \notin Wanted(list)
    BY <1>3
  <2> QED
    BY <2>1, <2>3, <2>4, LessNearer
<1>6. CASE ~(Peek.kind # "Eof" /\ ~(list.of = "Block" /\ Check("RBrace"))) /\ list.of # "Block"
  <2>1. parsed' = "done"
    BY <1>6 DEF ParseStatements
  <2> QED
    BY <2>1 DEF Nearer
<1> QED
  BY <1>4, <1>5, <1>6

LEMMA DeclNearer ==
  ASSUME ParserInv, ParseDecl
  PROVE  Nearer
<1>1. CASE Check("Var") \/ Check("Let")
  BY <1>1, AdvanceNearer DEF ParseDecl
<1>2. CASE ~(Check("Var") \/ Check("Let"))
  <2>1. Become(<<Do("stmt")>>) /\ Head(todo).do = "decl"
    BY <1>2 DEF ParseDecl, At
  <2>2. Weight(Head(todo)) = 13 /\ Wanted(Head(todo)) = Starter
    BY <2>1 DEF Weight, Wanted
  <2>3. AtMost(<<Do("stmt")>>, 12, Starter \ {"Var", "Let"})
    BY DoRecords, AtMostOne, CallWeights
  <2>4. Peek.kind \notin {"Var", "Let"} /\ 12 \in Nat /\ 12 < 13
    BY <1>2 DEF Check
  <2> QED
    BY <2>1, <2>2, <2>3, <2>4, LessNearer
<1> QED
  BY <1>1, <1>2

LEMMA StmtNearer ==
  ASSUME ParserInv, ParseStmt
  PROVE  Nearer
<1>1. CASE Peek.kind \in DOMAIN Rule \ {"Var"}
  BY <1>1, AdvanceNearer DEF ParseStmt
<1>2. CASE Peek.kind \notin DOMAIN Rule \ {"Var"}
  <2>1. Become(ExprStatement) /\ Head(todo).do = "stmt"
    BY <1>2 DEF ParseStmt, At
  <2>2. Weight(Head(todo)) = 12 /\ Wanted(Head(todo)) = Starter \ {"Var", "Let"}
    BY <2>1 DEF Weight, Wanted
  <2>3. Peek.kind \in Starter \ {"Var", "Let"} => Peek.kind \in ExprStarter
    <3>1. DOMAIN Rule = {"Var", "Function", "If", "While", "For", "Return", "LBrace"}
      BY DEF Rule
    <3> QED
      BY <1>2, <3>1, StarterIs
  <2>4. 11 \in Nat /\ 11 < 12
    OBVIOUS
  <2> QED
    BY <2>1, <2>2, <2>3, <2>4, ExprStatementAtMost, LessNearer
<1> QED
  BY <1>1, <1>2

LEMMA ExprStmtNearer ==
  ASSUME ParserInv, ParseExprStmt
  PROVE  Nearer
<1>1. Head(todo).do = "exprStmt"
  BY DEF ParseExprStmt, At
<1>2. Wanted(Head(todo)) = {}
  BY <1>1 DEF Wanted
<1>3. \/ Become(<<>>) \/ Advance
      \/ Fail("undefined") \/ Fail("invalid_argument")
  BY DEF ParseExprStmt
<1> QED
  BY <1>2, <1>3, GoneNearer, AdvanceNearer, FailNearer

LEMMA ConsumeNearer ==
  ASSUME ParserInv, ParseConsume
  PROVE  Nearer
<1>1. Advance \/ Fail("invalid_argument")
  BY DEF ParseConsume
<1> QED
  BY <1>1, AdvanceNearer, FailNearer

LEMMA UnlessNearer ==
  ASSUME ParserInv, ParseUnless
  PROVE  Nearer
<1>1. Head(todo).do = "unless" /\ (Become(<<>>) \/ Become(Expr))
  BY DEF ParseUnless, At
<1>2. Weight(Head(todo)) = 11 /\ Wanted(Head(todo)) = {}
  BY <1>1 DEF Weight, Wanted
<1>3. CASE Become(<<>>)
  BY <1>2, <1>3, GoneNearer
<1>4. CASE Become(Expr)
  <2>1. 10 \in Nat /\ 10 < 11
    OBVIOUS
  <2> QED
    BY <1>2, <1>4, <2>1, ExprAtMost, LessNearer
<1> QED
  BY <1>1, <1>3, <1>4

LEMMA OptionalNearer ==
  ASSUME ParserInv, ParseOptional
  PROVE  Nearer
<1>1. Head(todo).do \in {"initializer", "else"} /\ (Advance \/ Become(<<>>))
  BY DEF ParseOptional, At
<1>2. Wanted(Head(todo)) = {}
  BY <1>1 DEF Wanted
<1> QED
  BY <1>1, <1>2, AdvanceNearer, GoneNearer

LEMMA ForInitNearer ==
  ASSUME ParserInv, ParseForInit
  PROVE  Nearer
<1>1. Head(todo).do = "forInit" /\ (Advance \/ Become(ExprStatement))
  BY DEF ParseForInit, At
<1>2. Weight(Head(todo)) = 12 /\ Wanted(Head(todo)) = {}
  BY <1>1 DEF Weight, Wanted
<1>3. 11 \in Nat /\ 11 < 12
  OBVIOUS
<1>4. CASE Become(ExprStatement)
  BY <1>2, <1>3, <1>4, ExprStatementAtMost, LessNearer
<1> QED
  BY <1>1, <1>4, AdvanceNearer

LEMMA ItemsNearer ==
  ASSUME ParserInv, ParseItems
  PROVE  Nearer
<1>1. PICK of \in {"params", "args"} :
        At(of) /\ (Become(Rest(of, 0)) \/ Become(<<Item(of, 0)>>))
  BY DEF ParseItems
<1>2. Weight(Head(todo)) = 30 /\ Wanted(Head(todo)) = {}
  BY <1>1 DEF At, Weight, Wanted
<1>3. 17 \in Nat /\ 17 < 30 /\ 29 \in Nat /\ 29 < 30 /\ 0 \in Nat
  OBVIOUS
<1>4. CASE Become(Rest(of, 0))
  BY <1>2, <1>3, <1>4, RestAtMost, LessNearer
<1>5. CASE Become(<<Item(of, 0)>>)
  <2>1. AtMost(<<Item(of, 0)>>, 29, {})
    <3>1. Item(of, 0) \in Record
      BY <1>3, RecordFacts
    <3> QED
      BY <3>1, AtMostOne, RecordWeights
  <2> QED
    BY <1>2, <1>3, <1>5, <2>1, LessNearer
<1> QED
  BY <1>1, <1>4, <1>5

LEMMA ItemNearer ==
  ASSUME ParserInv, ParseItem
  PROVE  Nearer
<1> DEFINE item == Head(todo)
           records == (IF item.of = "params" THEN <<Consume("Identifier")>> ELSE Expr)
                        \o <<Comma(item.of, item.count + 1)>>
<1>1. item.do = "item" /\ item \in Record
  BY HeadSigned DEF ParseItem, At, ParserInv
<1>2. item.of \in {"params", "args"} /\ item.count \in Nat
  BY <1>1, RecordIs
<1>3. Weight(item) = 29 /\ Wanted(item) = {}
  BY <1>1 DEF Weight, Wanted
<1>4. Fail("runtime_error") \/ Become(records)
  BY DEF ParseItem
<1>5. CASE Become(records)
  <2>1. AtMost(records, 28, {}) /\ 28 \in Nat /\ 28 < 29
    BY <1>2, ItemAtMost
  <2> HIDE DEF records
  <2> QED
    BY <1>3, <1>5, <2>1, LessNearer
<1> QED
  BY <1>4, <1>5, FailNearer

LEMMA CommaNearer ==
  ASSUME ParserInv, ParseComma
  PROVE  Nearer
<1> DEFINE item == Head(todo)
<1>1. item.do = "comma" /\ item \in Record
  BY HeadSigned DEF ParseComma, At, ParserInv
<1>2. item.of \in {"params", "args"} /\ item.count \in Nat
  BY <1>1, RecordIs
<1>3. Weight(item) = 18 /\ Wanted(item) = {}
  BY <1>1 DEF Weight, Wanted
<1>4. Advance \/ Become(Rest(item.of, item.count))
  BY DEF ParseComma
<1>5. CASE Become(Rest(item.of, item.count))
  <2>1. AtMost(Rest(item.of, item.count), 17, {}) /\ 17 \in Nat /\ 17 < 18
    BY <1>2, RestAtMost
  <2> QED
    BY <1>3, <1>5, <2>1, LessNearer
<1> QED
  BY <1>4, <1>5, AdvanceNearer

LEMMA MoreNearer ==
  ASSUME ParserInv, ParseMore
  PROVE  Nearer
<1>1. Head(todo).do = "more"
  BY DEF ParseMore, At
<1>2. Wanted(Head(todo)) = Level[Head(todo).level]
  BY <1>1 DEF Wanted
<1>3. Advance \/ (Peek.kind \notin Level[Head(todo).level] /\ Become(<<>>))
  BY DEF ParseMore
<1> QED
  BY <1>2, <1>3, AdvanceNearer, GoneNearer

LEMMA UnaryNearer ==
  ASSUME ParserInv, ParseUnary
  PROVE  Nearer
<1>1. CASE Peek.kind \in UnaryOp
  BY <1>1, AdvanceNearer DEF ParseUnary
<1>2. CASE Peek.kind \notin UnaryOp
  <2> DEFINE a == Do("primary")
             b == Do("calls")
             K == LiteralKind \cup {"Identifier", "LParen"}
  <2>1. Become(<<a, b>>) /\ Head(todo).do = "unary"
    BY <1>2 DEF ParseUnary, At
  <2>2. Weight(Head(todo)) = 3 /\ Wanted(Head(todo)) = UnaryOp \cup K
    BY <2>1 DEF Weight, Wanted
  <2>3. /\ a \in Record /\ b \in Record /\ Weight(a) = 1 /\ Weight(b) = 1
        /\ Wanted(a) = K /\ Wanted(b) = {}
    BY DoRecords, CallWeights
  <2> HIDE DEF a, b, K
  <2>4. AtMost(<<a, b>>, 1 + 1, K \cup {})
    BY <2>3, AtMostTwo
  <2>5. 1 + 1 \in Nat /\ 1 + 1 < 3 /\ (Peek.kind \in UnaryOp \cup K => Peek.kind \in K \cup {})
    BY <1>2
  <2> QED
    BY <2>1, <2>2, <2>4, <2>5, LessNearer
<1> QED
  BY <1>1, <1>2

LEMMA PrimaryNearer ==
  ASSUME ParserInv, ParsePrimary
  PROVE  Nearer
<1>1. Head(todo).do = "primary"
  BY DEF ParsePrimary, At
<1>2. Wanted(Head(todo)) = LiteralKind \cup {"Identifier", "LParen"}
  BY <1>1 DEF Wanted
<1>3. CASE Peek.kind \in LiteralKind \cup {"Identifier", "LParen"}
  <2>1. Advance
    BY <1>3 DEF ParsePrimary, LiteralKind
  <2> QED
    BY <2>1, AdvanceNearer
<1>4. CASE Peek.kind \notin LiteralKind \cup {"Identifier", "LParen"}
  <2>1. Become(<<>>)
    BY <1>4 DEF ParsePrimary
  <2> QED
    BY <1>2, <1>4, <2>1, GoneNearer
<1> QED
  BY <1>3, <1>4

LEMMA CallsNearer ==
  ASSUME ParserInv, ParseCalls
  PROVE  Nearer
<1>1. Head(todo).do = "calls" /\ (Advance \/ Become(<<>>))
  BY DEF ParseCalls, At
<1>2. Wanted(Head(todo)) = {}
  BY <1>1 DEF Wanted
<1> QED
  BY <1>1, <1>2, AdvanceNearer, GoneNearer

LEMMA AssignmentNearer ==
  ASSUME ParserInv, ParseAssignment
  PROVE  Nearer
<1>1. Head(todo).do = "assign" /\ (Advance \/ (Peek.kind # "Equal" /\ Become(<<>>)))
  BY DEF ParseAssignment, At, Check
<1>2. Wanted(Head(todo)) = {"Equal"}
  BY <1>1 DEF Wanted
<1> QED
  BY <1>1, <1>2, AdvanceNearer, GoneNearer

LEMMA AssignToNearer ==
  ASSUME ParserInv, ParseAssignTo
  PROVE  Nearer
<1>1. Head(todo).do = "assignTo"
  BY DEF ParseAssignTo, At
<1>2. Wanted(Head(todo)) = {}
  BY <1>1 DEF Wanted
<1>3. Become(<<>>) \/ Fail("undefined") \/ Fail("runtime_error")
  BY DEF ParseAssignTo
<1> QED
  BY <1>2, <1>3, GoneNearer, FailNearer

LEMMA BuildNearer ==
  ASSUME ParserInv, ParseBuild
  PROVE  Nearer
<1>1. Head(todo).do = "build"
  BY DEF ParseBuild, At
<1>2. Wanted(Head(todo)) = {}
  BY <1>1 DEF Wanted
<1>3. Become(<<>>) \/ Fail("undefined")
  BY DEF ParseBuild
<1> QED
  BY <1>2, <1>3, GoneNearer, FailNearer

LEMMA EveryStepNearer ==
  ASSUME ParserInv, ParserNext, Peek.kind \in Starter \cup {"Eof"}
  PROVE  Nearer
<1>1. \/ ParseStatements \/ ParseDecl \/ ParseStmt \/ ParseExprStmt \/ ParseConsume
      \/ ParseUnless \/ ParseOptional \/ ParseForInit
      \/ ParseItems \/ ParseItem \/ ParseComma
      \/ ParseMore \/ ParseUnary \/ ParsePrimary \/ ParseCalls
      \/ ParseAssignment \/ ParseAssignTo \/ ParseBuild
  BY DEF ParserNext
<1> QED
  BY <1>1, StatementsNearer, DeclNearer, StmtNearer, ExprStmtNearer, ConsumeNearer,
     UnlessNearer, OptionalNearer, ForInitNearer, ItemsNearer, ItemNearer, CommaNearer,
     MoreNearer, UnaryNearer, PrimaryNearer, CallsNearer, AssignmentNearer,
     AssignToNearer, BuildNearer

\* The safety part of EndsOrHangs.  Whatever the tokens, at each that a statement
\* can begin with, and at the end of the input, every step takes it or leaves
\* less to do until it is taken: the calls of JSParser.cpp come back and its
\* loops come to an end, but for the two over statements, and these go on for
\* ever at another token only.
THEOREM StepsDescendHolds == ParserSpec => StepsDescend
<1>1. ParserInv /\ [ParserNext]_parserVars
        => [Peek.kind \in Starter \cup {"Eof"} => Nearer]_parserVars
  BY EveryStepNearer
<1> QED
  BY <1>1, ParserInvariant, PTL DEF ParserSpec, StepsDescend, Nearer

===============================================================================
