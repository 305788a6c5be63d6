----------------------------- MODULE ParserProofs -----------------------------
(***************************************************************************)
(* Theorems about the parser, for every set of token sequences: its cursor *)
(* stays on the tokens, its results are what the pending calls take them   *)
(* for, and the trees it builds have the shape the grammar prescribes.     *)
(***************************************************************************)
EXTENDS Parser, ProofBasics

(***************************************************************************)
(* What a result is.  The parser keeps no types for its results; these are *)
(* the ones that the calls still to come rely on.                          *)
(***************************************************************************)

\* An expression, or the null pointer, that holds together at least this
\* tightly.
Ex(l) == [of |-> "expr", at |-> l]

Sort(of) == [of |-> of, at |-> 0]

Name     == Sort("name")
AnyStmt  == Sort("stmt")
\* A statement, or the null pointer.
Perhaps  == Sort("perhaps")
\* A statement that no `else' can belong to.
Shut     == Sort("shut")
\* A statement just parsed: if an `else' could belong to it, none comes.
Fresh    == Sort("fresh")
\* No statement behind an `else', which does not come.
Absent  == Sort("absent")
\* A block, as the body of a function is.
Body    == Sort("body")
\* What the parser would leave when it has nothing to do any more.
Never   == Sort("never")

Sorts == {Ex(l) : l \in 0 .. 8} \cup {Name, AnyStmt, Perhaps, Shut, Fresh, Absent, Body, Never}

\* What remains true when the parser goes on.
Firm == Sorts \ {Fresh, Absent, Never}

\* Each a is a b.
Sub(a, b) ==
  \/ a = b
  \/ a.of = "expr" /\ b.of = "expr" /\ b.at <= a.at
  \/ a \in {Fresh, Shut} /\ b \in {AnyStmt, Perhaps}
  \/ a = AnyStmt /\ b = Perhaps
  \/ a = Body /\ b \in {AnyStmt, Perhaps, Fresh}

Below(x, y) == Len(x) = Len(y) /\ \A i \in 1 .. Len(x) : Sub(x[i], y[i])

(***************************************************************************)
(* What an activation record takes from the results and what it leaves in  *)
(* their place, once it and all it becomes has been done.                  *)
(***************************************************************************)

Sig(takes, gives) == [takes |-> takes, gives |-> gives]

Times(n, a) == [i \in 1 .. n |-> a]

\* A callee and n arguments, or a name and n parameters.
Items(of, n) ==
  [i \in 1 .. n + 1 |-> IF of = "params" THEN Name ELSE IF i = 1 THEN Ex(8) ELSE Ex(0)]

Whole(of) == IF of = "params" THEN <<Fresh>> ELSE <<Ex(8)>>

OperatorSignature(op) ==
  {Sig(<<Ex(l), Ex(l + 1)>>, <<Ex(l)>>) : l \in {i \in DOMAIN Level : op \in Level[i]}}

BuildSignature(item) ==
  CASE item.kind = "Grouping" -> {Sig(<<Ex(0)>>, <<Ex(8)>>)}
    [] item.kind = "Unary"    -> {Sig(<<Ex(7)>>, <<Ex(7)>>) : op \in {item.op} \cap UnaryOp}
    [] item.kind \in {"Binary", "Logical"} /\ item.kind = KindOf(item.op) -> OperatorSignature(item.op)
    [] item.kind = "Call"     -> {Sig(Items("args", n), <<Ex(8)>>) : n \in {item.count} \cap Nat}
    [] item.kind = "VarDecl"  -> {Sig(<<Name, Ex(0)>>, <<Fresh>>)}
    [] item.kind = "FuncDecl" ->
         {Sig(Append(Items("params", n), Body), <<Fresh>>) : n \in {item.count} \cap Nat}
    [] item.kind = "Return"   -> {Sig(<<Ex(0)>>, <<Fresh>>)}
    [] item.kind = "Block"    -> {Sig(Times(n, AnyStmt), <<Body>>) : n \in {item.count} \cap Nat}
    [] item.kind = "If"       -> {Sig(<<Ex(0), AnyStmt, Absent>>, <<Fresh>>),
                                  Sig(<<Ex(0), Shut, Fresh>>, <<Fresh>>)}
    [] item.kind = "While"    -> {Sig(<<Ex(0), Fresh>>, <<Fresh>>)}
    [] item.kind = "For"      -> {Sig(<<Perhaps, Ex(0), Ex(0), Fresh>>, <<Fresh>>)}
    [] OTHER                  -> {}

Signature(item) ==
  CASE item.do = "consume"    ->
         {Sig(<<>>, IF item.kind = "Identifier" THEN <<Name>> ELSE <<>>)}
    [] item.do \in {"unless", "initializer"} -> {Sig(<<>>, <<Ex(0)>>)}
    [] item.do = "statements" ->
         {Sig(Times(n, AnyStmt), IF item.of = "Program" THEN <<Never>> ELSE <<Body>>) :
            n \in {item.count} \cap Nat}
    [] item.do \in {"item", "comma"} ->
         {Sig(Items(item.of, n), Whole(item.of)) : n \in {item.count} \cap Nat}
    [] item.do \in {"params", "args"} -> {Sig(Items(item.do, 0), Whole(item.do))}
    [] item.do = "more"       ->
         {Sig(<<Ex(l)>>, <<Ex(l)>>) : l \in {item.level} \cap DOMAIN Level}
    [] item.do = "build"      -> BuildSignature(item)
    [] item.do = "unary"      -> {Sig(<<>>, <<Ex(7)>>)}
    [] item.do = "primary"    -> {Sig(<<>>, <<Ex(8)>>)}
    [] item.do = "calls"      -> {Sig(<<Ex(8)>>, <<Ex(8)>>)}
    [] item.do = "assign"     -> {Sig(<<Ex(1)>>, <<Ex(0)>>)}
    [] item.do = "assignTo"   -> {Sig(<<Ex(0), Ex(0)>>, <<Ex(0)>>)}
    [] item.do = "exprStmt"   -> {Sig(<<Ex(0)>>, <<Fresh>>)}
    [] item.do \in {"decl", "stmt"} -> {Sig(<<>>, <<Fresh>>)}
    [] item.do = "forInit"    -> {Sig(<<>>, <<Perhaps>>)}
    [] item.do = "else"       -> {Sig(<<Fresh>>, <<AnyStmt, Absent>>)}
    [] OTHER                  -> {}

\* Steps from results of the sorts s to results of the sorts m.
Step(item, s, m) ==
  \E base \in Seq(Firm), x, y \in Seq(Sorts) : \E sig \in Signature(item) :
    /\ s = base \o x /\ m = base \o y
    /\ Below(x, sig.takes) /\ Below(sig.gives, y)

Consumed == {"Identifier", "Semicolon", "LParen", "RParen", "LBrace", "RBrace"}

Calls == {"decl", "stmt", "exprStmt", "initializer", "else", "forInit", "params", "args",
          "unary", "primary", "calls", "assign", "assignTo"}

Operator == BinaryOp \cup LogicalOp \cup UnaryOp

Constructed == {"Grouping", "Unary", "Binary", "Logical", "Call", "VarDecl", "FuncDecl",
                "Return", "Block", "If", "While", "For"}

Record ==
  [do : {"consume", "unless"}, kind : Consumed]
    \cup [do : {"statements"}, of : {"Program", "Block"}, count : Nat]
    \cup [do : {"item", "comma"}, of : {"params", "args"}, count : Nat]
    \cup [do : {"more"}, level : Nat]
    \cup [do : {"build"}, kind : Constructed, op : Operator \cup {""}, count : Nat]
    \cup [do : Calls]

\* A list of records takes the results from s to e.
Does(items, s, e) ==
  /\ items \in Seq(Record)
  /\ \E w \in [1 .. Len(items) + 1 -> Seq(Sorts)] :
       /\ w[1] = s /\ w[Len(items) + 1] = e
       /\ \A k \in 1 .. Len(items) : Step(items[k], w[k], w[k + 1])

LEMMA DoesNothing ==
  ASSUME NEW s \in Seq(Sorts)
  PROVE  Does(<<>>, s, s)
<1> DEFINE w == [k \in 1 .. 1 |-> s]
<1>1. Len(<<>>) = 0 /\ <<>> \in Seq(Record)
  OBVIOUS
<1>2. w \in [1 .. 1 -> Seq(Sorts)] /\ w[1] = s
  OBVIOUS
<1> HIDE DEF w
<1>3. \A k \in 1 .. 0 : Step(<<>>[k], w[k], w[k + 1])
  OBVIOUS
<1> QED
  BY <1>1, <1>2, <1>3 DEF Does

LEMMA DoesOne ==
  ASSUME NEW item \in Record, NEW s \in Seq(Sorts), NEW m \in Seq(Sorts), Step(item, s, m)
  PROVE  Does(<<item>>, s, m)
<1> DEFINE w == [k \in 1 .. 2 |-> IF k = 1 THEN s ELSE m]
<1>1. <<item>> \in Seq(Record) /\ Len(<<item>>) = 1 /\ <<item>>[1] = item
  OBVIOUS
<1>2. w \in [1 .. 2 -> Seq(Sorts)] /\ w[1] = s /\ w[2] = m
  OBVIOUS
<1> HIDE DEF w
<1>3. \A k \in 1 .. 1 : Step(<<item>>[k], w[k], w[k + 1])
  BY <1>1, <1>2
<1> QED
  BY <1>1, <1>2, <1>3 DEF Does

LEMMA DoesConcat ==
  ASSUME NEW a, NEW b, NEW s, NEW m, NEW e, Does(a, s, m), Does(b, m, e)
  PROVE  Does(a \o b, s, e)
<1> DEFINE j == Len(a)
           n == Len(b)
<1>1. /\ a \in Seq(Record) /\ b \in Seq(Record) /\ j \in Nat /\ n \in Nat
  BY DEF Does
<1>2. /\ a \o b \in Seq(Record) /\ Len(a \o b) = j + n
      /\ \A i \in 1 .. j + n : (a \o b)[i] = IF i <= j THEN a[i] ELSE b[i - j]
  BY <1>1, ConcatProperties
<1>3. PICK v \in [1 .. j + 1 -> Seq(Sorts)] :
        /\ v[1] = s /\ v[j + 1] = m
        /\ \A k \in 1 .. j : Step(a[k], v[k], v[k + 1])
  BY DEF Does
<1>4. PICK u \in [1 .. n + 1 -> Seq(Sorts)] :
        /\ u[1] = m /\ u[n + 1] = e
        /\ \A k \in 1 .. n : Step(b[k], u[k], u[k + 1])
  BY DEF Does
<1> DEFINE w == [k \in 1 .. (j + n) + 1 |-> IF k <= j THEN v[k] ELSE u[k - j]]
<1> HIDE DEF j, n
<1>5. w \in [1 .. (j + n) + 1 -> Seq(Sorts)]
  <2> SUFFICES ASSUME NEW k \in 1 .. (j + n) + 1
               PROVE  (IF k <= j THEN v[k] ELSE u[k - j]) \in Seq(Sorts)
    OBVIOUS
  <2>1. k <= j => k \in 1 .. j + 1
    BY <1>1
  <2>2. ~ (k <= j) => k - j \in 1 .. n + 1
    BY <1>1
  <2> QED
    BY <1>3, <1>4, <2>1, <2>2
<1>6. /\ \A k \in 1 .. j + 1 : w[k] = v[k]
      /\ \A k \in 1 .. n + 1 : w[k + j] = u[k]
  <2>1. ASSUME NEW k \in 1 .. j PROVE w[k] = v[k]
    BY <1>1
  <2>2. ASSUME NEW k \in 1 .. n + 1 PROVE w[k + j] = u[k]
    <3>1. k + j \in 1 .. (j + n) + 1 /\ ~ (k + j <= j) /\ (k + j) - j = k
      BY <1>1
    <3> QED
      BY <3>1
  <2>3. w[j + 1] = v[j + 1]
    BY <1>1, <1>3, <1>4, <2>2
  <2>4. \A k \in 1 .. j + 1 : k \in 1 .. j \/ k = j + 1
    BY <1>1
  <2> QED
    BY <2>1, <2>2, <2>3, <2>4
<1> HIDE DEF w
<1>7. ASSUME NEW k \in 1 .. j + n PROVE Step((a \o b)[k], w[k], w[k + 1])
  <2>1. CASE k <= j
    <3>1. k \in 1 .. j /\ k \in 1 .. j + 1 /\ k + 1 \in 1 .. j + 1
      BY <1>1, <2>1
    <3> QED
      BY <1>2, <1>3, <1>6, <2>1, <3>1
  <2>2. CASE ~ (k <= j)
    <3>1. /\ k - j \in 1 .. n /\ k - j \in 1 .. n + 1 /\ (k - j) + 1 \in 1 .. n + 1
          /\ (k - j) + j = k /\ ((k - j) + 1) + j = k + 1
      BY <1>1, <2>2
    <3>2. w[k] = u[k - j] /\ w[k + 1] = u[(k - j) + 1]
      BY <1>6, <3>1
    <3> QED
      BY <1>2, <1>4, <2>2, <3>1, <3>2
  <2> QED
    BY <2>1, <2>2
<1>8. w[1] = s /\ w[(j + n) + 1] = e
  <2>1. 1 \in 1 .. j + 1 /\ n + 1 \in 1 .. n + 1 /\ (n + 1) + j = (j + n) + 1
    BY <1>1
  <2> QED
    BY <1>3, <1>4, <1>6, <2>1
<1> QED
  BY <1>2, <1>5, <1>7, <1>8 DEF Does

\* The first record, and the others.
LEMMA DoesHead ==
  ASSUME NEW items, NEW s, NEW e, Does(items, s, e), items # <<>>
  PROVE  \E m \in Seq(Sorts) : Step(Head(items), s, m) /\ Does(Tail(items), m, e)
<1> DEFINE n == Len(items)
<1>1. items \in Seq(Record) /\ n \in Nat \ {0}
  BY DEF Does
<1>2. PICK w \in [1 .. n + 1 -> Seq(Sorts)] :
        /\ w[1] = s /\ w[n + 1] = e
        /\ \A k \in 1 .. n : Step(items[k], w[k], w[k + 1])
  BY DEF Does
<1>3. /\ Tail(items) \in Seq(Record) /\ Len(Tail(items)) = n - 1 /\ Head(items) = items[1]
      /\ \A k \in 1 .. n - 1 : Tail(items)[k] = items[k + 1]
  BY <1>1
<1> DEFINE u == [k \in 1 .. n |-> w[k + 1]]
<1> HIDE DEF n
<1>4. u \in [1 .. (n - 1) + 1 -> Seq(Sorts)] /\ \A k \in 1 .. n : u[k] = w[k + 1]
  <2>1. (n - 1) + 1 = n /\ \A k \in 1 .. n : k + 1 \in 1 .. n + 1
    BY <1>1
  <2> QED
    BY <2>1
<1> HIDE DEF u
<1>5. \A k \in 1 .. n - 1 : Step(Tail(items)[k], u[k], u[k + 1])
  <2> TAKE k \in 1 .. n - 1
  <2>1. k \in 1 .. n /\ k + 1 \in 1 .. n
    BY <1>1
  <2>2. Step(items[k + 1], w[k + 1], w[(k + 1) + 1])
    BY <1>2, <2>1
  <2>3. Tail(items)[k] = items[k + 1] /\ u[k] = w[k + 1] /\ u[k + 1] = w[(k + 1) + 1]
    BY <1>3, <1>4, <2>1
  <2> QED
    BY <2>2, <2>3
<1>6. u[1] = w[2] /\ u[(n - 1) + 1] = e /\ w[2] \in Seq(Sorts) /\ Step(Head(items), s, w[2])
  <2>1. 1 \in 1 .. n /\ n \in 1 .. n /\ (n - 1) + 1 = n /\ 1 + 1 = 2 /\ 2 \in 1 .. n + 1
    BY <1>1
  <2>2. Step(items[1], w[1], w[2])
    BY <1>2, <2>1
  <2>3. u[1] = w[2] /\ u[n] = w[n + 1]
    BY <1>4, <2>1
  <2> QED
    BY <1>2, <1>3, <2>1, <2>2, <2>3
<1>7. Does(Tail(items), w[2], e)
  BY <1>3, <1>4, <1>5, <1>6 DEF Does
<1> QED
  BY <1>6, <1>7


LEMMA ConcatIs ==
  ASSUME NEW S, NEW s \in Seq(S), NEW t \in Seq(S), NEW u \in Seq(S),
         Len(u) = Len(s) + Len(t),
         \A i \in 1 .. Len(s) : u[i] = s[i],
         \A i \in 1 .. Len(t) : u[Len(s) + i] = t[i]
  PROVE  s \o t = u
<1>1. /\ s \o t \in Seq(S) /\ Len(s \o t) = Len(s) + Len(t)
      /\ \A i \in 1 .. Len(s) + Len(t) : (s \o t)[i] = IF i <= Len(s) THEN s[i] ELSE t[i - Len(s)]
  BY ConcatProperties
<1>2. Len(s) \in Nat /\ Len(t) \in Nat
  OBVIOUS
<1>3. ASSUME NEW i \in 1 .. Len(s \o t) PROVE (s \o t)[i] = u[i]
  <2>1. CASE i <= Len(s)
    BY <1>1, <1>2, <2>1
  <2>2. CASE ~ (i <= Len(s))
    <3>1. i - Len(s) \in 1 .. Len(t) /\ Len(s) + (i - Len(s)) = i
      BY <1>1, <1>2, <2>2
    <3> QED
      BY <1>1, <2>2, <3>1
  <2> QED
    BY <2>1, <2>2
<1> QED
  BY <1>1, <1>3, SeqEqual

(***************************************************************************)
(* Sorts, and steps among results that no step concerns.                   *)
(***************************************************************************)

LEMMA SortFacts ==
  /\ \A l \in 0 .. 8 : Ex(l) \in Firm /\ Ex(l) \in Sorts
  /\ {Name, AnyStmt, Perhaps, Shut, Body} \subseteq Firm
  /\ {Name, AnyStmt, Perhaps, Shut, Fresh, Absent, Body, Never} \subseteq Sorts
  /\ Firm \subseteq Sorts
  /\ \A a : Sub(a, a)
  /\ Sub(Fresh, AnyStmt) /\ Sub(Shut, AnyStmt) /\ Sub(Fresh, Perhaps)
  /\ \A i, j \in 0 .. 8 : j <= i => Sub(Ex(i), Ex(j))
<1>1. Firm \subseteq Sorts /\ \A l \in 0 .. 8 : Ex(l) \in Sorts
  BY DEF Firm, Sorts
<1>2. \A l \in 0 .. 8 : Ex(l) # Fresh /\ Ex(l) # Absent /\ Ex(l) # Never
  BY DEF Ex, Fresh, Absent, Never, Sort
<1>3. {Name, AnyStmt, Perhaps, Shut, Fresh, Absent, Body, Never} \subseteq Sorts
  BY DEF Sorts
<1>4. {Name, AnyStmt, Perhaps, Shut, Body} \cap {Fresh, Absent, Never} = {}
  BY DEF Name, AnyStmt, Perhaps, Shut, Fresh, Absent, Body, Never, Sort
<1>5. /\ \A a : Sub(a, a)
      /\ Sub(Fresh, AnyStmt) /\ Sub(Shut, AnyStmt) /\ Sub(Fresh, Perhaps)
  BY DEF Sub
<1>6. \A i, j \in 0 .. 8 : j <= i => Sub(Ex(i), Ex(j))
  BY DEF Sub, Ex
<1> QED
  BY <1>1, <1>2, <1>3, <1>4, <1>5, <1>6 DEF Firm

\* What is below a sort.
LEMMA SubFacts ==
  ASSUME NEW a \in Sorts
  PROVE  /\ \A l \in 0 .. 8 : Sub(a, Ex(l)) => \E i \in l .. 8 : a = Ex(i)
         /\ Sub(a, Name) => a = Name
         /\ Sub(a, AnyStmt) => a \in {AnyStmt, Fresh, Shut, Body}
         /\ Sub(a, Perhaps) => a \in {Perhaps, AnyStmt, Fresh, Shut, Body}
         /\ Sub(a, Shut) => a = Shut
         /\ Sub(a, Fresh) => a \in {Fresh, Body}
         /\ Sub(a, Body) => a = Body
         /\ Sub(a, Absent) => a = Absent
         /\ Sub(Fresh, a) => a \in {Fresh, AnyStmt, Perhaps} /\ Sub(Body, a)
         /\ Sub(Body, a) => a \in {Body, Fresh, AnyStmt, Perhaps}
         /\ Sub(Perhaps, a) => a = Perhaps
         /\ Sub(Name, a) => a = Name
         /\ Sub(Absent, a) => a = Absent
         /\ Sub(Never, a) => a = Never
         /\ \A l \in 0 .. 8 : Sub(Ex(l), a) => \E i \in 0 .. l : a = Ex(i)
<1>1. a.of # "expr" => a \in {Name, AnyStmt, Perhaps, Shut, Fresh, Absent, Body, Never}
  BY DEF Sorts, Ex
<1>2. a.of = "expr" => \E i \in 0 .. 8 : a = Ex(i)
  BY DEF Sorts, Name, AnyStmt, Perhaps, Shut, Fresh, Absent, Body, Never, Sort
<1>3. /\ Name.of = "name" /\ AnyStmt.of = "stmt" /\ Perhaps.of = "perhaps" /\ Shut.of = "shut"
      /\ Fresh.of = "fresh" /\ Absent.of = "absent" /\ Body.of = "body" /\ Never.of = "never"
      /\ \A l : Ex(l).of = "expr" /\ Ex(l).at = l
  BY DEF Name, AnyStmt, Perhaps, Shut, Fresh, Absent, Body, Never, Sort, Ex
<1>4. \A l \in 0 .. 8 : Sub(a, Ex(l)) => \E i \in l .. 8 : a = Ex(i)
  BY <1>2, <1>3 DEF Sub
<1>5. \A l \in 0 .. 8 : Sub(Ex(l), a) => \E i \in 0 .. l : a = Ex(i)
  BY <1>2, <1>3 DEF Sub
<1>6. /\ Sub(a, Name) => a = Name
      /\ Sub(a, AnyStmt) => a \in {AnyStmt, Fresh, Shut, Body}
      /\ Sub(a, Perhaps) => a \in {Perhaps, AnyStmt, Fresh, Shut, Body}
      /\ Sub(a, Shut) => a = Shut
  BY <1>3 DEF Sub
<1>7. /\ Sub(a, Fresh) => a \in {Fresh, Body}
      /\ Sub(a, Body) => a = Body
      /\ Sub(a, Absent) => a = Absent
      /\ Sub(Fresh, a) => a \in {Fresh, AnyStmt, Perhaps} /\ Sub(Body, a)
      /\ Sub(Body, a) => a \in {Body, Fresh, AnyStmt, Perhaps}
      /\ Sub(Perhaps, a) => a = Perhaps
      /\ Sub(Name, a) => a = Name
      /\ Sub(Absent, a) => a = Absent
      /\ Sub(Never, a) => a = Never
  BY <1>3 DEF Sub
<1> QED
  BY <1>4, <1>5, <1>6, <1>7

LEMMA FrameConcat ==
  ASSUME NEW base \in Seq(Firm), NEW x \in Seq(Sorts)
  PROVE  base \in Seq(Sorts) /\ base \o x \in Seq(Sorts)
<1>1. base \in Seq(Sorts)
  BY SortFacts, SeqMonotonic
<1> QED
  BY <1>1, ConcatProperties

LEMMA StepFrame ==
  ASSUME NEW item, NEW base \in Seq(Firm), NEW s, NEW m, Step(item, s, m)
  PROVE  Step(item, base \o s, base \o m)
<1>1. PICK b \in Seq(Firm), x \in Seq(Sorts), y \in Seq(Sorts) : \E sig \in Signature(item) :
        /\ s = b \o x /\ m = b \o y
        /\ Below(x, sig.takes) /\ Below(sig.gives, y)
  BY DEF Step
<1>2. base \o b \in Seq(Firm)
  BY ConcatProperties
<1>3. base \in Seq(Sorts) /\ b \in Seq(Sorts)
  BY FrameConcat, EmptySeq
<1>4. \A z \in Seq(Sorts) : (base \o b) \o z = base \o (b \o z)
  BY <1>3, ConcatAssociative
<1> QED
  BY <1>1, <1>2, <1>4 DEF Step

LEMMA DoesFrame ==
  ASSUME NEW items, NEW base \in Seq(Firm), NEW s, NEW e, Does(items, s, e)
  PROVE  Does(items, base \o s, base \o e)
<1> DEFINE n == Len(items)
<1>1. items \in Seq(Record) /\ n \in Nat
  BY DEF Does
<1>2. PICK w \in [1 .. n + 1 -> Seq(Sorts)] :
        /\ w[1] = s /\ w[n + 1] = e
        /\ \A k \in 1 .. n : Step(items[k], w[k], w[k + 1])
  BY DEF Does
<1> DEFINE u == [k \in 1 .. n + 1 |-> base \o w[k]]
<1> HIDE DEF n
<1>3. u \in [1 .. n + 1 -> Seq(Sorts)]
  BY FrameConcat
<1>4. \A k \in 1 .. n + 1 : u[k] = base \o w[k]
  OBVIOUS
<1> HIDE DEF u
<1>5. \A k \in 1 .. n : Step(items[k], u[k], u[k + 1])
  <2> TAKE k \in 1 .. n
  <2>1. k \in 1 .. n + 1 /\ k + 1 \in 1 .. n + 1
    BY <1>1
  <2> QED
    BY <1>2, <1>4, <2>1, StepFrame
<1>6. u[1] = base \o s /\ u[n + 1] = base \o e
  <2>1. 1 \in 1 .. n + 1 /\ n + 1 \in 1 .. n + 1
    BY <1>1
  <2> QED
    BY <1>2, <1>4, <2>1
<1> QED
  BY <1>1, <1>3, <1>5, <1>6 DEF Does, n

\* A step place by place: the first h results stay.
LEMMA StepAt ==
  ASSUME NEW item, NEW t \in Seq(Sorts), NEW g \in Seq(Sorts), Sig(t, g) \in Signature(item),
         NEW s \in Seq(Sorts), NEW m \in Seq(Sorts), NEW h \in Nat,
         Len(s) = h + Len(t), Len(m) = h + Len(g),
         \A i \in 1 .. h : s[i] \in Firm /\ m[i] = s[i],
         \A i \in 1 .. Len(t) : Sub(s[h + i], t[i]),
         \A i \in 1 .. Len(g) : Sub(g[i], m[h + i])
  PROVE  Step(item, s, m)
<1> DEFINE base == [i \in 1 .. h |-> s[i]]
           x == [i \in 1 .. Len(t) |-> s[h + i]]
           y == [i \in 1 .. Len(g) |-> m[h + i]]
<1>1. Len(t) \in Nat /\ Len(g) \in Nat
  OBVIOUS
<1>2. base \in Seq(Firm) /\ Len(base) = h
  BY IsASeq
<1>3. x \in Seq(Sorts) /\ Len(x) = Len(t)
  <2>1. \A i \in 1 .. Len(t) : h + i \in 1 .. Len(s) /\ s[h + i] \in Sorts
    BY <1>1
  <2> QED
    BY <1>1, <2>1
<1>4. y \in Seq(Sorts) /\ Len(y) = Len(g)
  <2>1. \A i \in 1 .. Len(g) : h + i \in 1 .. Len(m) /\ m[h + i] \in Sorts
    BY <1>1
  <2> QED
    BY <1>1, <2>1
<1>5. base \in Seq(Sorts)
  BY <1>2, FrameConcat, EmptySeq
<1>6. /\ \A i \in 1 .. h : base[i] = s[i] /\ base[i] = m[i]
      /\ \A i \in 1 .. Len(t) : x[i] = s[h + i]
      /\ \A i \in 1 .. Len(g) : y[i] = m[h + i]
  OBVIOUS
<1> HIDE DEF base, x, y
<1>7. base \o x = s
  <2>1. /\ Len(s) = Len(base) + Len(x)
        /\ \A i \in 1 .. Len(base) : s[i] = base[i]
        /\ \A i \in 1 .. Len(x) : s[Len(base) + i] = x[i]
    BY <1>2, <1>3, <1>6
  <2> QED
    BY <1>3, <1>5, <2>1, ConcatIs
<1>8. base \o y = m
  <2>1. /\ Len(m) = Len(base) + Len(y)
        /\ \A i \in 1 .. Len(base) : m[i] = base[i]
        /\ \A i \in 1 .. Len(y) : m[Len(base) + i] = y[i]
    BY <1>2, <1>4, <1>6
  <2> QED
    BY <1>4, <1>5, <2>1, ConcatIs
<1>9. Below(x, t) /\ Below(g, y)
  BY <1>3, <1>4, <1>6 DEF Below
<1>10. Sig(t, g).takes = t /\ Sig(t, g).gives = g
  BY DEF Sig
<1> QED
  BY <1>2, <1>3, <1>4, <1>7, <1>8, <1>9, <1>10 DEF Step

LEMMA DoesTwo ==
  ASSUME NEW r1 \in Record, NEW r2 \in Record,
         NEW s1 \in Seq(Sorts), NEW s2 \in Seq(Sorts), NEW s3 \in Seq(Sorts),
         Step(r1, s1, s2), Step(r2, s2, s3)
  PROVE  Does(<<r1, r2>>, s1, s3)
<1> DEFINE w == <<s1, s2, s3>>
           r == <<r1, r2>>
<1>1. /\ r \in Seq(Record) /\ Len(r) = 2 /\ r[1] = r1 /\ r[2] = r2
      /\ w \in [1 .. 2 + 1 -> Seq(Sorts)] /\ w[1] = s1 /\ w[2] = s2 /\ w[3] = s3
  OBVIOUS
<1> HIDE DEF w, r
<1>2. ASSUME NEW k \in 1 .. 2 PROVE Step(r[k], w[k], w[k + 1])
  <2>1. k = 1 \/ k = 2
    OBVIOUS
  <2> QED
    BY <1>1, <2>1
<1>3. Does(r, s1, s3)
  BY <1>1, <1>2 DEF Does
<1> QED
  BY <1>3 DEF r

LEMMA DoesThree ==
  ASSUME NEW r1 \in Record, NEW r2 \in Record, NEW r3 \in Record,
         NEW s1 \in Seq(Sorts), NEW s2 \in Seq(Sorts), NEW s3 \in Seq(Sorts),
         NEW s4 \in Seq(Sorts),
         Step(r1, s1, s2), Step(r2, s2, s3), Step(r3, s3, s4)
  PROVE  Does(<<r1, r2, r3>>, s1, s4)
<1> DEFINE w == <<s1, s2, s3, s4>>
           r == <<r1, r2, r3>>
<1>1. /\ r \in Seq(Record) /\ Len(r) = 3 /\ r[1] = r1 /\ r[2] = r2 /\ r[3] = r3
      /\ w \in [1 .. 3 + 1 -> Seq(Sorts)] /\ w[1] = s1 /\ w[2] = s2 /\ w[3] = s3 /\ w[4] = s4
  OBVIOUS
<1> HIDE DEF w, r
<1>2. ASSUME NEW k \in 1 .. 3 PROVE Step(r[k], w[k], w[k + 1])
  <2>1. k = 1 \/ k = 2 \/ k = 3
    OBVIOUS
  <2> QED
    BY <1>1, <2>1
<1>3. w \in [1 .. Len(r) + 1 -> Seq(Sorts)] /\ w[Len(r) + 1] = s4
  BY <1>1
<1>4. \A k \in 1 .. Len(r) : Step(r[k], w[k], w[k + 1])
  BY <1>1, <1>2
<1>5. r \in Seq(Record) /\ w[1] = s1
  BY <1>1
<1>6. Does(r, s1, s4)
  BY <1>3, <1>4, <1>5 DEF Does
<1> QED
  BY <1>6 DEF r

LEMMA DoesFour ==
  ASSUME NEW r1 \in Record, NEW r2 \in Record, NEW r3 \in Record, NEW r4 \in Record,
         NEW s1 \in Seq(Sorts), NEW s2 \in Seq(Sorts), NEW s3 \in Seq(Sorts),
         NEW s4 \in Seq(Sorts), NEW s5 \in Seq(Sorts),
         Step(r1, s1, s2), Step(r2, s2, s3), Step(r3, s3, s4), Step(r4, s4, s5)
  PROVE  Does(<<r1, r2, r3, r4>>, s1, s5)
<1> DEFINE w == <<s1, s2, s3, s4, s5>>
           r == <<r1, r2, r3, r4>>
<1>1. /\ r \in Seq(Record) /\ Len(r) = 4 /\ r[1] = r1 /\ r[2] = r2 /\ r[3] = r3 /\ r[4] = r4
      /\ w \in [1 .. 4 + 1 -> Seq(Sorts)]
      /\ w[1] = s1 /\ w[2] = s2 /\ w[3] = s3 /\ w[4] = s4 /\ w[5] = s5
  OBVIOUS
<1> HIDE DEF w, r
<1>2. ASSUME NEW k \in 1 .. 4 PROVE Step(r[k], w[k], w[k + 1])
  <2>1. k = 1 \/ k = 2 \/ k = 3 \/ k = 4
    OBVIOUS
  <2> QED
    BY <1>1, <2>1
<1>3. w \in [1 .. Len(r) + 1 -> Seq(Sorts)] /\ w[Len(r) + 1] = s5
  BY <1>1
<1>4. \A k \in 1 .. Len(r) : Step(r[k], w[k], w[k + 1])
  BY <1>1, <1>2
<1>5. r \in Seq(Record) /\ w[1] = s1
  BY <1>1
<1>6. Does(r, s1, s5)
  BY <1>3, <1>4, <1>5 DEF Does
<1> QED
  BY <1>6 DEF r

LEMMA TupleHalves ==
  ASSUME NEW S, NEW a \in S, NEW b \in S, NEW c \in S, NEW d \in S,
         NEW e \in S, NEW f \in S, NEW g \in S, NEW h \in S
  PROVE  <<a, b, c, d>> \o <<e, f, g, h>> = <<a, b, c, d, e, f, g, h>>
<1> DEFINE s == <<a, b, c, d>>
           t == <<e, f, g, h>>
           u == <<a, b, c, d, e, f, g, h>>
<1>1. /\ s \in Seq(S) /\ Len(s) = 4 /\ s[1] = a /\ s[2] = b /\ s[3] = c /\ s[4] = d
      /\ t \in Seq(S) /\ Len(t) = 4 /\ t[1] = e /\ t[2] = f /\ t[3] = g /\ t[4] = h
      /\ u \in Seq(S) /\ Len(u) = 8 /\ u[1] = a /\ u[2] = b /\ u[3] = c /\ u[4] = d
      /\ u[5] = e /\ u[6] = f /\ u[7] = g /\ u[8] = h
  OBVIOUS
<1> HIDE DEF s, t, u
<1>2. \A i \in 1 .. 4 : i = 1 \/ i = 2 \/ i = 3 \/ i = 4
  OBVIOUS
<1>3. \A i \in 1 .. Len(s) : u[i] = s[i]
  BY <1>1, <1>2
<1>4. \A i \in 1 .. Len(t) : u[Len(s) + i] = t[i]
  BY <1>1, <1>2
<1>5. s \in Seq(S) /\ t \in Seq(S) /\ u \in Seq(S) /\ Len(u) = Len(s) + Len(t)
  BY <1>1
<1>6. s \o t = u
  BY <1>3, <1>4, <1>5, ConcatIs
<1> QED
  BY <1>6 DEF s, t, u

LEMMA BelowFacts ==
  ASSUME NEW x \in Seq(Sorts)
  PROVE  Below(x, x)
  BY SortFacts DEF Below

LEMMA FirmSeq ==
  ASSUME NEW s \in Seq(Firm)
  PROVE  s \in Seq(Sorts) /\ Len(s) \in Nat /\ \A i \in 1 .. Len(s) : s[i] \in Firm
<1>1. s \in Seq(Sorts)
  BY SortFacts, SeqMonotonic
<1> QED
  BY <1>1

LEMMA StepSkip ==
  ASSUME NEW item, Sig(<<>>, <<>>) \in Signature(item), NEW s \in Seq(Firm)
  PROVE  Step(item, s, s)
<1>1. s \in Seq(Sorts) /\ <<>> \in Seq(Sorts) /\ Len(<<>>) = 0 /\ Len(s) \in Nat
  BY FirmSeq
<1>2. \A i \in 1 .. Len(s) : s[i] \in Firm
  OBVIOUS
<1>3. Len(s) = Len(s) + Len(<<>>)
  BY <1>1
<1>4. /\ \A i \in 1 .. Len(<<>>) : Sub(s[Len(s) + i], <<>>[i])
      /\ \A i \in 1 .. Len(<<>>) : Sub(<<>>[i], s[Len(s) + i])
  BY <1>1
<1> QED
  BY <1>1, <1>2, <1>3, <1>4, StepAt

LEMMA StepPush ==
  ASSUME NEW item, NEW g \in Sorts, Sig(<<>>, <<g>>) \in Signature(item),
         NEW s \in Seq(Firm), NEW a \in Sorts, Sub(g, a)
  PROVE  Step(item, s, Append(s, a))
<1> DEFINE m == Append(s, a)
<1>1. s \in Seq(Sorts) /\ <<>> \in Seq(Sorts) /\ Len(<<>>) = 0 /\ Len(s) \in Nat
  BY FirmSeq
<1>2. /\ m \in Seq(Sorts) /\ Len(m) = Len(s) + 1 /\ m[Len(s) + 1] = a
      /\ \A i \in 1 .. Len(s) : m[i] = s[i]
  BY <1>1, AppendProperties
<1>3. \A i \in 1 .. Len(s) : s[i] \in Firm
  OBVIOUS
<1>4. /\ <<g>> \in Seq(Sorts) /\ Len(<<g>>) = 1 /\ <<g>>[1] = g
  OBVIOUS
<1> HIDE DEF m
<1>5. \A i \in 1 .. Len(<<g>>) : Sub(<<g>>[i], m[Len(s) + i])
  BY <1>2, <1>4
<1>6. Len(s) = Len(s) + Len(<<>>) /\ Len(m) = Len(s) + Len(<<g>>)
  BY <1>1, <1>2, <1>4
<1>7. \A i \in 1 .. Len(<<>>) : Sub(s[Len(s) + i], <<>>[i])
  BY <1>1
<1>8. Step(item, s, m)
  BY <1>1, <1>2, <1>3, <1>4, <1>5, <1>6, <1>7, StepAt
<1> QED
  BY <1>8 DEF m

LEMMA StepWhole ==
  ASSUME NEW item, NEW t, NEW g, Sig(t, g) \in Signature(item),
         NEW x \in Seq(Sorts), Below(x, t), NEW y \in Seq(Sorts), Below(g, y)
  PROVE  Step(item, x, y)
<1>1. <<>> \in Seq(Firm) /\ <<>> \o x = x /\ <<>> \o y = y
  BY ConcatEmptySeq
<1>2. Sig(t, g).takes = t /\ Sig(t, g).gives = g
  BY DEF Sig
<1> QED
  BY <1>1, <1>2 DEF Step

LEMMA AppendIs ==
  ASSUME NEW S, NEW s \in Seq(S), NEW a \in S, NEW u \in Seq(S), Len(u) = Len(s) + 1,
         \A i \in 1 .. Len(s) : u[i] = s[i], u[Len(s) + 1] = a
  PROVE  Append(s, a) = u
<1>1. /\ Append(s, a) \in Seq(S) /\ Len(Append(s, a)) = Len(s) + 1
      /\ \A i \in 1 .. Len(s) : Append(s, a)[i] = s[i]
      /\ Append(s, a)[Len(s) + 1] = a
  BY AppendProperties
<1>2. \A i \in 1 .. Len(s) + 1 : i \in 1 .. Len(s) \/ i = Len(s) + 1
  OBVIOUS
<1>3. \A i \in 1 .. Len(Append(s, a)) : Append(s, a)[i] = u[i]
  BY <1>1, <1>2
<1> QED
  BY <1>1, <1>3, SeqEqual

LEMMA AppendTuple ==
  ASSUME NEW S, NEW a \in S, NEW b \in S, NEW c \in S
  PROVE  /\ Append(<<>>, a) = <<a>> /\ Append(<<a>>, b) = <<a, b>>
         /\ Append(<<a, b>>, c) = <<a, b, c>>
<1>1. Append(<<>>, a) = <<a>>
  OBVIOUS
<1>2. Append(<<a>>, b) = <<a, b>>
  <2> DEFINE s == <<a>>
             u == <<a, b>>
  <2>1. /\ s \in Seq(S) /\ Len(s) = 1 /\ u \in Seq(S) /\ Len(u) = 2 /\ u[2] = b
        /\ s[1] = a /\ u[1] = a
    OBVIOUS
  <2> HIDE DEF s, u
  <2>2. \A i \in 1 .. Len(s) : u[i] = s[i]
    BY <2>1
  <2>3. s \in Seq(S) /\ u \in Seq(S) /\ Len(u) = Len(s) + 1 /\ u[Len(s) + 1] = b
    BY <2>1
  <2>4. Append(s, b) = u
    BY <2>2, <2>3, AppendIs
  <2> QED
    BY <2>4 DEF s, u
<1>3. Append(<<a, b>>, c) = <<a, b, c>>
  <2> DEFINE s == <<a, b>>
             u == <<a, b, c>>
  <2>1. /\ s \in Seq(S) /\ Len(s) = 2 /\ u \in Seq(S) /\ Len(u) = 3 /\ u[3] = c
        /\ s[1] = a /\ u[1] = a /\ s[2] = b /\ u[2] = b
    OBVIOUS
  <2> HIDE DEF s, u
  <2>2. \A i \in 1 .. Len(s) : u[i] = s[i]
    BY <2>1
  <2>3. s \in Seq(S) /\ u \in Seq(S) /\ Len(u) = Len(s) + 1 /\ u[Len(s) + 1] = c
    BY <2>1
  <2>4. Append(s, c) = u
    BY <2>2, <2>3, AppendIs
  <2> QED
    BY <2>4 DEF s, u
<1> QED
  BY <1>1, <1>2, <1>3

LEMMA AppendFourth ==
  ASSUME NEW S, NEW a \in S, NEW b \in S, NEW c \in S, NEW d \in S
  PROVE  Append(<<a, b, c>>, d) = <<a, b, c, d>>
<1> DEFINE s == <<a, b, c>>
           u == <<a, b, c, d>>
<1>1. /\ s \in Seq(S) /\ Len(s) = 3 /\ u \in Seq(S) /\ Len(u) = 4 /\ u[4] = d
      /\ s[1] = a /\ u[1] = a /\ s[2] = b /\ u[2] = b /\ s[3] = c /\ u[3] = c
  OBVIOUS
<1> HIDE DEF s, u
<1>2. \A i \in 1 .. Len(s) : u[i] = s[i]
  BY <1>1
<1>3. s \in Seq(S) /\ u \in Seq(S) /\ Len(u) = Len(s) + 1 /\ u[Len(s) + 1] = d
  BY <1>1
<1>4. Append(s, d) = u
  BY <1>2, <1>3, AppendIs
<1> QED
  BY <1>4 DEF s, u

LEMMA RecordFacts ==
  /\ \A kind \in Consumed : Consume(kind) \in Record /\ Unless(kind) \in Record
  /\ \A of \in {"Program", "Block"}, n \in Nat : Statements(of, n) \in Record
  /\ \A of \in {"params", "args"}, n \in Nat : Item(of, n) \in Record /\ Comma(of, n) \in Record
  /\ \A l \in Nat : More(l) \in Record
  /\ \A kind \in Constructed : Build(kind) \in Record
  /\ \A kind \in Constructed, op \in Operator : BuildOp(kind, op) \in Record
  /\ \A kind \in Constructed, n \in Nat : BuildList(kind, n) \in Record
  /\ \A what \in Calls : Do(what) \in Record
<1>1. \A kind \in Consumed : Consume(kind) \in Record /\ Unless(kind) \in Record
  BY DEF Record, Consume, Unless
<1>2. \A of \in {"Program", "Block"}, n \in Nat : Statements(of, n) \in Record
  BY DEF Record, Statements
<1>3. \A of \in {"params", "args"}, n \in Nat : Item(of, n) \in Record /\ Comma(of, n) \in Record
  BY DEF Record, Item, Comma
<1>4. \A l \in Nat : More(l) \in Record
  BY DEF Record, More
<1>5. \A kind \in Constructed : Build(kind) \in Record
  BY DEF Record, Build
<1>6. \A kind \in Constructed, op \in Operator : BuildOp(kind, op) \in Record
  BY DEF Record, Build, BuildOp
<1>7. \A kind \in Constructed, n \in Nat : BuildList(kind, n) \in Record
  BY DEF Record, Build, BuildList
<1>8. \A what \in Calls : Do(what) \in Record
  BY DEF Record, Do
<1> QED
  BY <1>1, <1>2, <1>3, <1>4, <1>5, <1>6, <1>7, <1>8

LEMMA DoRecords ==
  /\ Do("unary") \in Record /\ Do("primary") \in Record /\ Do("calls") \in Record
  /\ Do("assign") \in Record /\ Do("assignTo") \in Record /\ Do("exprStmt") \in Record
  /\ Do("decl") \in Record /\ Do("stmt") \in Record /\ Do("forInit") \in Record
  /\ Do("initializer") \in Record /\ Do("else") \in Record /\ Do("params") \in Record
  /\ Do("args") \in Record
<1>1. \A what \in Calls : Do(what) \in Record
  BY RecordFacts
<1> QED
  BY <1>1 DEF Calls

LEMMA BuildFields ==
  /\ \A kind : Build(kind).do = "build" /\ Build(kind).kind = kind
  /\ \A kind, op : /\ BuildOp(kind, op).do = "build" /\ BuildOp(kind, op).kind = kind
                   /\ BuildOp(kind, op).op = op
  /\ \A kind, n : /\ BuildList(kind, n).do = "build" /\ BuildList(kind, n).kind = kind
                  /\ BuildList(kind, n).count = n
  BY DEF Build, BuildOp, BuildList

LEMMA CallSignatures ==
  /\ Sig(<<>>, <<Name>>) \in Signature(Consume("Identifier"))
  /\ \A kind : kind # "Identifier" => Sig(<<>>, <<>>) \in Signature(Consume(kind))
  /\ \A kind : Sig(<<>>, <<Ex(0)>>) \in Signature(Unless(kind))
  /\ \A n \in Nat : /\ Sig(Times(n, AnyStmt), <<Never>>) \in Signature(Statements("Program", n))
                    /\ Sig(Times(n, AnyStmt), <<Body>>) \in Signature(Statements("Block", n))
  /\ \A of, n : n \in Nat => /\ Sig(Items(of, n), Whole(of)) \in Signature(Item(of, n))
                             /\ Sig(Items(of, n), Whole(of)) \in Signature(Comma(of, n))
  /\ \A l \in 1 .. 6 : Sig(<<Ex(l)>>, <<Ex(l)>>) \in Signature(More(l))
<1>1. /\ Sig(<<>>, <<Name>>) \in Signature(Consume("Identifier"))
      /\ \A kind : kind # "Identifier" => Sig(<<>>, <<>>) \in Signature(Consume(kind))
  BY DEF Signature, Consume
<1>2. \A kind : Sig(<<>>, <<Ex(0)>>) \in Signature(Unless(kind))
  BY DEF Signature, Unless
<1>3. \A n \in Nat : /\ Sig(Times(n, AnyStmt), <<Never>>) \in Signature(Statements("Program", n))
                     /\ Sig(Times(n, AnyStmt), <<Body>>) \in Signature(Statements("Block", n))
  BY DEF Signature, Statements
<1>4. \A of, n : n \in Nat => /\ Sig(Items(of, n), Whole(of)) \in Signature(Item(of, n))
                              /\ Sig(Items(of, n), Whole(of)) \in Signature(Comma(of, n))
  BY DEF Signature, Item, Comma
<1>5. DOMAIN Level = 1 .. 6
  BY DEF Level
<1>6. \A l \in 1 .. 6 : Sig(<<Ex(l)>>, <<Ex(l)>>) \in Signature(More(l))
  BY <1>5 DEF Signature, More
<1> QED
  BY <1>1, <1>2, <1>3, <1>4, <1>6

LEMMA DoSignatures ==
  /\ Sig(<<>>, <<Ex(7)>>) \in Signature(Do("unary"))
  /\ Sig(<<>>, <<Ex(8)>>) \in Signature(Do("primary"))
  /\ Sig(<<Ex(8)>>, <<Ex(8)>>) \in Signature(Do("calls"))
  /\ Sig(<<Ex(1)>>, <<Ex(0)>>) \in Signature(Do("assign"))
  /\ Sig(<<Ex(0), Ex(0)>>, <<Ex(0)>>) \in Signature(Do("assignTo"))
  /\ Sig(<<Ex(0)>>, <<Fresh>>) \in Signature(Do("exprStmt"))
  /\ Sig(<<>>, <<Fresh>>) \in Signature(Do("decl"))
  /\ Sig(<<>>, <<Fresh>>) \in Signature(Do("stmt"))
  /\ Sig(<<>>, <<Perhaps>>) \in Signature(Do("forInit"))
  /\ Sig(<<>>, <<Ex(0)>>) \in Signature(Do("initializer"))
  /\ Sig(<<Fresh>>, <<AnyStmt, Absent>>) \in Signature(Do("else"))
  /\ Sig(Items("params", 0), <<Fresh>>) \in Signature(Do("params"))
  /\ Sig(Items("args", 0), <<Ex(8)>>) \in Signature(Do("args"))
<1>1. /\ Sig(<<>>, <<Ex(7)>>) \in Signature(Do("unary"))
      /\ Sig(<<>>, <<Ex(8)>>) \in Signature(Do("primary"))
      /\ Sig(<<Ex(8)>>, <<Ex(8)>>) \in Signature(Do("calls"))
  BY DEF Signature, Do
<1>2. /\ Sig(<<Ex(1)>>, <<Ex(0)>>) \in Signature(Do("assign"))
      /\ Sig(<<Ex(0), Ex(0)>>, <<Ex(0)>>) \in Signature(Do("assignTo"))
      /\ Sig(<<Ex(0)>>, <<Fresh>>) \in Signature(Do("exprStmt"))
  BY DEF Signature, Do
<1>3. /\ Sig(<<>>, <<Fresh>>) \in Signature(Do("decl"))
      /\ Sig(<<>>, <<Fresh>>) \in Signature(Do("stmt"))
      /\ Sig(<<>>, <<Perhaps>>) \in Signature(Do("forInit"))
      /\ Sig(<<>>, <<Ex(0)>>) \in Signature(Do("initializer"))
  BY DEF Signature, Do
<1>4. /\ Sig(<<Fresh>>, <<AnyStmt, Absent>>) \in Signature(Do("else"))
      /\ Sig(Items("params", 0), <<Fresh>>) \in Signature(Do("params"))
      /\ Sig(Items("args", 0), <<Ex(8)>>) \in Signature(Do("args"))
  BY DEF Signature, Do, Whole
<1> QED
  BY <1>1, <1>2, <1>3, <1>4

LEMMA BuildSignatures ==
  /\ Sig(<<Ex(0)>>, <<Ex(8)>>) \in Signature(Build("Grouping"))
  /\ \A op \in UnaryOp : Sig(<<Ex(7)>>, <<Ex(7)>>) \in Signature(BuildOp("Unary", op))
  /\ \A l \in 1 .. 6 : \A op \in Level[l] :
       Sig(<<Ex(l), Ex(l + 1)>>, <<Ex(l)>>) \in Signature(BuildOp(KindOf(op), op))
  /\ \A n \in Nat : Sig(Items("args", n), <<Ex(8)>>) \in Signature(BuildList("Call", n))
  /\ Sig(<<Name, Ex(0)>>, <<Fresh>>) \in Signature(Build("VarDecl"))
  /\ \A n \in Nat :
       Sig(Append(Items("params", n), Body), <<Fresh>>) \in Signature(BuildList("FuncDecl", n))
  /\ Sig(<<Ex(0)>>, <<Fresh>>) \in Signature(Build("Return"))
  /\ \A n \in Nat : Sig(Times(n, AnyStmt), <<Body>>) \in Signature(BuildList("Block", n))
  /\ Sig(<<Ex(0), AnyStmt, Absent>>, <<Fresh>>) \in Signature(Build("If"))
  /\ Sig(<<Ex(0), Shut, Fresh>>, <<Fresh>>) \in Signature(Build("If"))
  /\ Sig(<<Ex(0), Fresh>>, <<Fresh>>) \in Signature(Build("While"))
  /\ Sig(<<Perhaps, Ex(0), Ex(0), Fresh>>, <<Fresh>>) \in Signature(Build("For"))
<1>1. \A item : item.do = "build" => Signature(item) = BuildSignature(item)
  BY DEF Signature
<1>2. /\ Sig(<<Ex(0)>>, <<Ex(8)>>) \in Signature(Build("Grouping"))
      /\ \A op \in UnaryOp : Sig(<<Ex(7)>>, <<Ex(7)>>) \in Signature(BuildOp("Unary", op))
  BY <1>1, BuildFields DEF BuildSignature
<1>3. \A l \in 1 .. 6 : \A op \in Level[l] :
        Sig(<<Ex(l), Ex(l + 1)>>, <<Ex(l)>>) \in Signature(BuildOp(KindOf(op), op))
  <2> TAKE l \in 1 .. 6
  <2> TAKE op \in Level[l]
  <2>1. DOMAIN Level = 1 .. 6
    BY DEF Level
  <2>2. KindOf(op) \in {"Binary", "Logical"}
    BY DEF KindOf
  <2>3. BuildSignature(BuildOp(KindOf(op), op)) = OperatorSignature(op)
    BY <2>2, BuildFields DEF BuildSignature
  <2>4. Sig(<<Ex(l), Ex(l + 1)>>, <<Ex(l)>>) \in OperatorSignature(op)
    BY <2>1 DEF OperatorSignature
  <2> QED
    BY <1>1, <2>3, <2>4, BuildFields
<1>4. \A n \in Nat :
        /\ Sig(Items("args", n), <<Ex(8)>>) \in Signature(BuildList("Call", n))
        /\ Sig(Append(Items("params", n), Body), <<Fresh>>)
             \in Signature(BuildList("FuncDecl", n))
        /\ Sig(Times(n, AnyStmt), <<Body>>) \in Signature(BuildList("Block", n))
  <2> TAKE n \in Nat
  <2>1. Sig(Items("args", n), <<Ex(8)>>) \in Signature(BuildList("Call", n))
    BY <1>1, BuildFields DEF BuildSignature
  <2>2. Sig(Append(Items("params", n), Body), <<Fresh>>) \in Signature(BuildList("FuncDecl", n))
    BY <1>1, BuildFields DEF BuildSignature
  <2>3. Sig(Times(n, AnyStmt), <<Body>>) \in Signature(BuildList("Block", n))
    BY <1>1, BuildFields DEF BuildSignature
  <2> QED
    BY <2>1, <2>2, <2>3
<1>5. /\ Sig(<<Name, Ex(0)>>, <<Fresh>>) \in Signature(Build("VarDecl"))
      /\ Sig(<<Ex(0)>>, <<Fresh>>) \in Signature(Build("Return"))
  BY <1>1, BuildFields DEF BuildSignature
<1>6. /\ Sig(<<Ex(0), AnyStmt, Absent>>, <<Fresh>>) \in Signature(Build("If"))
      /\ Sig(<<Ex(0), Shut, Fresh>>, <<Fresh>>) \in Signature(Build("If"))
  BY <1>1, BuildFields DEF BuildSignature
<1>7. Sig(<<Ex(0), Fresh>>, <<Fresh>>) \in Signature(Build("While"))
  BY <1>1, BuildFields DEF BuildSignature
<1>8. Sig(<<Perhaps, Ex(0), Ex(0), Fresh>>, <<Fresh>>) \in Signature(Build("For"))
  <2>1. BuildSignature(Build("For")) = {Sig(<<Perhaps, Ex(0), Ex(0), Fresh>>, <<Fresh>>)}
    BY BuildFields DEF BuildSignature
  <2> QED
    BY <1>1, <2>1, BuildFields
<1> QED
  BY <1>2, <1>3, <1>4, <1>5, <1>6, <1>7, <1>8

(***************************************************************************)
(* The lists of records that the calls become do what the calls do.        *)
(***************************************************************************)

LEMMA SmallStacks ==
  /\ <<>> \in Seq(Firm) /\ <<>> \in Seq(Sorts)
  /\ \A a \in Sorts : <<a>> \in Seq(Sorts) /\ Len(<<a>>) = 1 /\ <<a>>[1] = a
  /\ \A a \in Firm : <<a>> \in Seq(Firm)
  /\ \A a, b \in Sorts : <<a, b>> \in Seq(Sorts)
  /\ \A a, b \in Firm : <<a, b>> \in Seq(Firm)
  /\ \A a, b, c \in Sorts : <<a, b, c>> \in Seq(Sorts)
  /\ \A a, b, c \in Firm : <<a, b, c>> \in Seq(Firm)
  /\ \A a, b, c, d \in Sorts : <<a, b, c, d>> \in Seq(Sorts)
  OBVIOUS

LEMMA OneBelow ==
  ASSUME NEW a, NEW b, Sub(a, b)
  PROVE  Below(<<a>>, <<b>>)
  BY DEF Below

LEMMA FramePush ==
  ASSUME NEW base \in Seq(Firm), NEW a \in Sorts
  PROVE  base \o <<>> = base /\ base \o <<a>> = Append(base, a)
<1>1. base \in Seq(Sorts)
  BY FirmSeq
<1> QED
  BY <1>1, ConcatEmptySeq, AppendIsConcat

LEMMA DoesWhole ==
  ASSUME NEW r \in Record, NEW t, NEW g, Sig(t, g) \in Signature(r),
         NEW x \in Seq(Sorts), Below(x, t), NEW y \in Seq(Sorts), Below(g, y)
  PROVE  Does(<<r>>, x, y)
<1>1. Step(r, x, y)
  BY StepWhole
<1> QED
  BY <1>1, DoesOne

LEMMA ExpressionSorts ==
  /\ \A l \in 0 .. 8 : Ex(l) \in Sorts /\ <<Ex(l)>> \in Seq(Sorts)
  /\ \A l, k \in 0 .. 8 : k <= l => Below(<<Ex(l)>>, <<Ex(k)>>)
<1>1. \A l, k \in 0 .. 8 : k <= l => Sub(Ex(l), Ex(k))
  BY DEF Sub, Ex
<1>2. \A l \in 0 .. 8 : Ex(l) \in Sorts
  BY SortFacts
<1>3. \A l \in 0 .. 8 : <<Ex(l)>> \in Seq(Sorts)
  BY <1>2, SmallStacks
<1> QED
  BY <1>1, <1>2, <1>3, OneBelow

LEMMA NothingBelow == Below(<<>>, <<>>)
  BY DEF Below

LEMMA OperandDoes ==
  ASSUME NEW l \in 1 .. 7
  PROVE  Does(Operand(l), <<>>, <<Ex(l)>>)
<1> DEFINE n == 7 - l
           loops == [i \in 1 .. Len(Level) + 1 - l |-> More(Len(Level) + 1 - i)]
           w == [k \in 1 .. n + 1 |-> <<Ex(8 - k)>>]
<1>1. Len(Level) = 6
  BY DEF Level
<1>2. loops = [i \in 1 .. n |-> More(7 - i)]
  BY <1>1
<1>3. n \in Nat /\ n + 1 = 8 - l
  OBVIOUS
<1> HIDE DEF loops
<1>4. loops \in Seq(Record) /\ Len(loops) = n /\ \A i \in 1 .. n : loops[i] = More(7 - i)
  <2>1. \A i \in 1 .. n : 7 - i \in Nat
    OBVIOUS
  <2>2. \A i \in 1 .. n : More(7 - i) \in Record
    BY <2>1, RecordFacts
  <2>3. loops \in Seq(Record) /\ Len(loops) = n
    BY <1>2, <1>3, <2>2, IsASeq
  <2> QED
    BY <1>2, <2>3
<1>5. w \in [1 .. n + 1 -> Seq(Sorts)]
  <2>1. \A k \in 1 .. n + 1 : 8 - k \in 0 .. 8
    OBVIOUS
  <2> QED
    BY <2>1, ExpressionSorts
<1>6. w[1] = <<Ex(7)>> /\ w[n + 1] = <<Ex(l)>> /\ \A k \in 1 .. n + 1 : w[k] = <<Ex(8 - k)>>
  <2>1. 8 - 1 = 7 /\ 8 - (n + 1) = l /\ 1 \in 1 .. n + 1 /\ n + 1 \in 1 .. n + 1
    OBVIOUS
  <2> QED
    BY <2>1
<1> HIDE DEF w
<1>7. ASSUME NEW k \in 1 .. n PROVE Step(loops[k], w[k], w[k + 1])
  <2>1. /\ k \in 1 .. n + 1 /\ k + 1 \in 1 .. n + 1 /\ 8 - (k + 1) = 7 - k
        /\ 7 - k \in 1 .. 6 /\ 7 - k \in 0 .. 8 /\ 8 - k \in 0 .. 8 /\ 7 - k <= 8 - k
        /\ 7 - k <= 7 - k
    OBVIOUS
  <2>2. loops[k] = More(7 - k) /\ w[k] = <<Ex(8 - k)>> /\ w[k + 1] = <<Ex(7 - k)>>
    BY <1>4, <1>6, <2>1
  <2>3. <<Ex(8 - k)>> \in Seq(Sorts) /\ <<Ex(7 - k)>> \in Seq(Sorts)
    BY <2>1, ExpressionSorts
  <2>4. Below(<<Ex(8 - k)>>, <<Ex(7 - k)>>) /\ Below(<<Ex(7 - k)>>, <<Ex(7 - k)>>)
    BY <2>1, ExpressionSorts
  <2>5. Sig(<<Ex(7 - k)>>, <<Ex(7 - k)>>) \in Signature(More(7 - k))
    BY <2>1, CallSignatures
  <2>6. Step(More(7 - k), <<Ex(8 - k)>>, <<Ex(7 - k)>>)
    BY <2>3, <2>4, <2>5, StepWhole
  <2> QED
    BY <2>2, <2>6
<1>8. Does(loops, <<Ex(7)>>, <<Ex(l)>>)
  BY <1>4, <1>5, <1>6, <1>7 DEF Does
<1>9. Does(<<Do("unary")>>, <<>>, <<Ex(7)>>)
  <2>1. <<Ex(7)>> \in Seq(Sorts) /\ Below(<<Ex(7)>>, <<Ex(7)>>) /\ <<>> \in Seq(Sorts)
    BY ExpressionSorts
  <2>2. Do("unary") \in Record /\ Sig(<<>>, <<Ex(7)>>) \in Signature(Do("unary"))
    BY DoRecords, DoSignatures
  <2> QED
    BY <2>1, <2>2, NothingBelow, DoesWhole
<1>10. Operand(l) = <<Do("unary")>> \o loops
  BY DEF Operand, loops
<1> QED
  BY <1>8, <1>9, <1>10, DoesConcat

LEMMA ExprDoes == Does(Expr, <<>>, <<Ex(0)>>)
<1>1. /\ <<Ex(0)>> \in Seq(Sorts) /\ <<Ex(1)>> \in Seq(Sorts)
      /\ Below(<<Ex(0)>>, <<Ex(0)>>) /\ Below(<<Ex(1)>>, <<Ex(1)>>)
  BY ExpressionSorts
<1>2. Do("assign") \in Record /\ Sig(<<Ex(1)>>, <<Ex(0)>>) \in Signature(Do("assign"))
  BY DoRecords, DoSignatures
<1>3. Does(<<Do("assign")>>, <<Ex(1)>>, <<Ex(0)>>)
  BY <1>1, <1>2, DoesWhole
<1>4. Does(Operand(1), <<>>, <<Ex(1)>>)
  BY OperandDoes
<1> QED
  BY <1>3, <1>4, DoesConcat DEF Expr

LEMMA ExprStatementDoes ==
  ASSUME NEW a \in Sorts, Sub(Fresh, a)
  PROVE  Does(ExprStatement, <<>>, <<a>>)
<1>1. <<Ex(0)>> \in Seq(Sorts) /\ Below(<<Ex(0)>>, <<Ex(0)>>)
  BY ExpressionSorts
<1>2. <<a>> \in Seq(Sorts) /\ Below(<<Fresh>>, <<a>>)
  BY SmallStacks, OneBelow
<1>3. Do("exprStmt") \in Record /\ Sig(<<Ex(0)>>, <<Fresh>>) \in Signature(Do("exprStmt"))
  BY DoRecords, DoSignatures
<1>4. Does(<<Do("exprStmt")>>, <<Ex(0)>>, <<a>>)
  BY <1>1, <1>2, <1>3, DoesWhole
<1> QED
  BY <1>4, ExprDoes, DoesConcat DEF ExprStatement

LEMMA TokenRecords ==
  /\ Consume("Identifier") \in Record /\ Consume("Semicolon") \in Record
  /\ Consume("LParen") \in Record /\ Consume("RParen") \in Record
  /\ Consume("LBrace") \in Record /\ Consume("RBrace") \in Record
  /\ Unless("Semicolon") \in Record /\ Unless("RParen") \in Record
<1>1. \A kind \in Consumed : Consume(kind) \in Record /\ Unless(kind) \in Record
  BY RecordFacts
<1> QED
  BY <1>1 DEF Consumed

LEMMA BuildRecords ==
  /\ Build("Grouping") \in Record /\ Build("VarDecl") \in Record /\ Build("Return") \in Record
  /\ Build("If") \in Record /\ Build("While") \in Record /\ Build("For") \in Record
  /\ \A n \in Nat : /\ BuildList("Call", n) \in Record /\ BuildList("FuncDecl", n) \in Record
                    /\ BuildList("Block", n) \in Record
<1>1. \A kind \in Constructed : Build(kind) \in Record
  BY RecordFacts
<1>2. \A kind \in Constructed, n \in Nat : BuildList(kind, n) \in Record
  BY RecordFacts
<1> QED
  BY <1>1, <1>2 DEF Constructed

\* A token that is no identifier leaves the results alone.
LEMMA SkipTokens ==
  ASSUME NEW s \in Seq(Firm)
  PROVE  /\ Step(Consume("Semicolon"), s, s) /\ Step(Consume("LParen"), s, s)
         /\ Step(Consume("RParen"), s, s) /\ Step(Consume("LBrace"), s, s)
         /\ Step(Consume("RBrace"), s, s)
<1>1. \A kind : kind # "Identifier" => Sig(<<>>, <<>>) \in Signature(Consume(kind))
  BY CallSignatures
<1>2. \A kind : kind # "Identifier" => Step(Consume(kind), s, s)
  BY <1>1, StepSkip
<1> QED
  BY <1>2

LEMMA StepPushes ==
  ASSUME NEW item, NEW g \in Sorts, Sig(<<>>, <<g>>) \in Signature(item),
         NEW a \in Sorts, Sub(g, a)
  PROVE  /\ Step(item, <<>>, <<a>>)
         /\ \A b \in Firm : Step(item, <<b>>, <<b, a>>)
         /\ \A b, c \in Firm : Step(item, <<b, c>>, <<b, c, a>>)
         /\ \A b, c, d \in Firm : Step(item, <<b, c, d>>, <<b, c, d, a>>)
<1>1. Firm \subseteq Sorts
  BY SortFacts
<1>2. \A s \in Seq(Firm) : Step(item, s, Append(s, a))
  BY StepPush
<1>3. Step(item, <<>>, <<a>>)
  BY <1>2, SmallStacks, AppendTuple
<1>4. ASSUME NEW b \in Firm PROVE Step(item, <<b>>, <<b, a>>)
  <2>1. Append(<<b>>, a) = <<b, a>>
    BY <1>1, AppendTuple
  <2> QED
    BY <1>2, <2>1, SmallStacks
<1>5. ASSUME NEW b \in Firm, NEW c \in Firm PROVE Step(item, <<b, c>>, <<b, c, a>>)
  <2>1. Append(<<b, c>>, a) = <<b, c, a>>
    BY <1>1, AppendTuple
  <2> QED
    BY <1>2, <2>1, SmallStacks
<1>6. ASSUME NEW b \in Firm, NEW c \in Firm, NEW d \in Firm
      PROVE  Step(item, <<b, c, d>>, <<b, c, d, a>>)
  <2> b \in Sorts /\ c \in Sorts /\ d \in Sorts
    BY <1>1
  <2>1. Append(<<b, c, d>>, a) = <<b, c, d, a>>
    BY AppendFourth
  <2> QED
    BY <1>2, <2>1, SmallStacks
<1> QED
  BY <1>3, <1>4, <1>5, <1>6

LEMMA SomeSorts ==
  /\ Name \in Firm /\ AnyStmt \in Firm /\ Perhaps \in Firm /\ Shut \in Firm /\ Ex(0) \in Firm
  /\ Name \in Sorts /\ AnyStmt \in Sorts /\ Perhaps \in Sorts /\ Ex(0) \in Sorts
  /\ Shut \in Sorts /\ Fresh \in Sorts /\ Absent \in Sorts /\ Ex(8) \in Sorts /\ Ex(8) \in Firm
  /\ Body \in Firm /\ Body \in Sorts
  /\ \A a : Sub(a, a)
<1>1. \A a : Sub(a, a)
  BY DEF Sub
<1> QED
  BY <1>1, SortFacts

LEMMA VarDoes ==
  ASSUME NEW a \in Sorts, Sub(Fresh, a)
  PROVE  Does(Rule.Var, <<>>, <<a>>)
<1>1. Step(Consume("Identifier"), <<>>, <<Name>>)
  BY CallSignatures, SomeSorts, StepPushes
<1>2. Step(Do("initializer"), <<Name>>, <<Name, Ex(0)>>)
  BY DoSignatures, SomeSorts, StepPushes
<1>3. <<Name, Ex(0)>> \in Seq(Firm) /\ <<Name, Ex(0)>> \in Seq(Sorts)
  BY SomeSorts, SmallStacks
<1>4. Step(Consume("Semicolon"), <<Name, Ex(0)>>, <<Name, Ex(0)>>)
  BY <1>3, SkipTokens
<1>5. /\ <<a>> \in Seq(Sorts) /\ Below(<<Fresh>>, <<a>>) /\ <<Name>> \in Seq(Sorts)
      /\ <<>> \in Seq(Sorts)
  BY SmallStacks, SomeSorts, OneBelow
<1>6. Step(Build("VarDecl"), <<Name, Ex(0)>>, <<a>>)
  <2>1. Below(<<Name, Ex(0)>>, <<Name, Ex(0)>>)
    BY <1>3, BelowFacts
  <2>2. Sig(<<Name, Ex(0)>>, <<Fresh>>) \in Signature(Build("VarDecl"))
    BY BuildSignatures
  <2> QED
    BY <1>3, <1>5, <2>1, <2>2, StepWhole
<1>7. /\ Consume("Identifier") \in Record /\ Do("initializer") \in Record
      /\ Consume("Semicolon") \in Record /\ Build("VarDecl") \in Record
  BY TokenRecords, DoRecords, BuildRecords
<1>8. Does(<<Consume("Identifier"), Do("initializer"), Consume("Semicolon"), Build("VarDecl")>>,
           <<>>, <<a>>)
  BY <1>1, <1>2, <1>3, <1>4, <1>5, <1>6, <1>7, DoesFour
<1> QED
  BY <1>8 DEF Rule

LEMMA NoItems ==
  /\ Items("params", 0) = <<Name>> /\ Items("args", 0) = <<Ex(8)>> /\ Times(0, AnyStmt) = <<>>
<1>1. 1 .. 0 = {}
  OBVIOUS
<1>2. Times(0, AnyStmt) \in Seq(Sorts) /\ Len(Times(0, AnyStmt)) = 0
  BY IsASeq, SomeSorts DEF Times
<1>3. Times(0, AnyStmt) = <<>>
  BY <1>2, EmptySeq
<1>4. Items("params", 0) = <<Name>>
  BY DEF Items
<1>5. Items("args", 0) = <<Ex(8)>>
  BY DEF Items
<1> QED
  BY <1>3, <1>4, <1>5

LEMMA FunctionDoes ==
  ASSUME NEW a \in Sorts, Sub(Fresh, a)
  PROVE  Does(Rule.Function, <<>>, <<a>>)
<1>1. Step(Consume("Identifier"), <<>>, <<Name>>)
  BY CallSignatures, SomeSorts, StepPushes
<1>2. <<Name>> \in Seq(Firm) /\ <<Name>> \in Seq(Sorts) /\ <<>> \in Seq(Sorts)
  BY SomeSorts, SmallStacks
<1>3. Step(Consume("LParen"), <<Name>>, <<Name>>)
  BY <1>2, SkipTokens
<1>4. <<a>> \in Seq(Sorts) /\ Below(<<Fresh>>, <<a>>) /\ Below(<<Name>>, <<Name>>)
  BY <1>2, SmallStacks, OneBelow, BelowFacts
<1>5. Sig(<<Name>>, <<Fresh>>) \in Signature(Do("params"))
  BY DoSignatures, NoItems
<1>6. Step(Do("params"), <<Name>>, <<a>>)
  BY <1>2, <1>4, <1>5, StepWhole
<1>7. Consume("Identifier") \in Record /\ Consume("LParen") \in Record /\ Do("params") \in Record
  BY TokenRecords, DoRecords
<1>8. Does(<<Consume("Identifier"), Consume("LParen"), Do("params")>>, <<>>, <<a>>)
  BY <1>1, <1>2, <1>3, <1>4, <1>6, <1>7, DoesThree
<1> QED
  BY <1>8 DEF Rule

\* The rest of a rule, behind its condition.
LEMMA BodySteps ==
  ASSUME NEW a \in Sorts, Sub(Fresh, a), NEW b \in Firm
  PROVE  /\ <<b>> \in Seq(Sorts) /\ <<b, Fresh>> \in Seq(Sorts) /\ <<a>> \in Seq(Sorts)
         /\ Step(Consume("RParen"), <<b>>, <<b>>)
         /\ Step(Do("stmt"), <<b>>, <<b, Fresh>>)
         /\ Below(<<Fresh>>, <<a>>)
<1>1. b \in Sorts /\ <<b>> \in Seq(Firm)
  BY SortFacts, SmallStacks
<1>2. Step(Do("stmt"), <<b>>, <<b, Fresh>>)
  BY DoSignatures, SomeSorts, StepPushes
<1> QED
  BY <1>1, <1>2, SmallStacks, SomeSorts, SkipTokens, OneBelow

LEMMA WhileDoes ==
  ASSUME NEW a \in Sorts, Sub(Fresh, a)
  PROVE  Does(Rule.While, <<>>, <<a>>)
<1> DEFINE rest == <<Consume("RParen"), Do("stmt"), Build("While")>>
<1>1. /\ <<Ex(0)>> \in Seq(Sorts) /\ <<Ex(0), Fresh>> \in Seq(Sorts) /\ <<a>> \in Seq(Sorts)
      /\ Step(Consume("RParen"), <<Ex(0)>>, <<Ex(0)>>)
      /\ Step(Do("stmt"), <<Ex(0)>>, <<Ex(0), Fresh>>)
      /\ Below(<<Fresh>>, <<a>>)
  BY SomeSorts, BodySteps
<1>2. Step(Build("While"), <<Ex(0), Fresh>>, <<a>>)
  <2>1. Below(<<Ex(0), Fresh>>, <<Ex(0), Fresh>>)
    BY <1>1, BelowFacts
  <2>2. Sig(<<Ex(0), Fresh>>, <<Fresh>>) \in Signature(Build("While"))
    BY BuildSignatures
  <2> QED
    BY <1>1, <2>1, <2>2, StepWhole
<1>3. /\ Consume("RParen") \in Record /\ Do("stmt") \in Record /\ Build("While") \in Record
      /\ Consume("LParen") \in Record
  BY TokenRecords, DoRecords, BuildRecords
<1>4. Does(rest, <<Ex(0)>>, <<a>>)
  BY <1>1, <1>2, <1>3, DoesThree
<1>5. Does(<<Consume("LParen")>>, <<>>, <<>>)
  BY <1>3, SmallStacks, SkipTokens, DoesOne
<1> HIDE DEF rest
<1>6. Does(<<Consume("LParen")>> \o Expr, <<>>, <<Ex(0)>>)
  BY <1>5, ExprDoes, DoesConcat
<1>7. Does((<<Consume("LParen")>> \o Expr) \o rest, <<>>, <<a>>)
  BY <1>4, <1>6, DoesConcat
<1> QED
  BY <1>7 DEF Rule, rest

LEMMA ElseStep ==
  ASSUME NEW b \in Firm
  PROVE  /\ Step(Do("else"), <<b, Fresh>>, <<b, AnyStmt, Absent>>)
         /\ <<b, AnyStmt, Absent>> \in Seq(Sorts)
<1>1. <<b>> \in Seq(Firm) /\ b \in Sorts
  BY SmallStacks, SortFacts
<1>2. /\ <<Fresh>> \in Seq(Sorts) /\ <<AnyStmt, Absent>> \in Seq(Sorts)
      /\ <<b, AnyStmt, Absent>> \in Seq(Sorts) /\ <<b>> \in Seq(Sorts)
      /\ <<b, Fresh>> \in Seq(Sorts)
  BY <1>1, SmallStacks, SomeSorts
<1>3. Step(Do("else"), <<Fresh>>, <<AnyStmt, Absent>>)
  <2>1. Below(<<Fresh>>, <<Fresh>>) /\ Below(<<AnyStmt, Absent>>, <<AnyStmt, Absent>>)
    BY <1>2, BelowFacts
  <2>2. Sig(<<Fresh>>, <<AnyStmt, Absent>>) \in Signature(Do("else"))
    BY DoSignatures
  <2> QED
    BY <1>2, <2>1, <2>2, StepWhole
<1>4. <<b>> \o <<Fresh>> = <<b, Fresh>>
  <2> DEFINE u == <<b, Fresh>>
             t == <<Fresh>>
             s == <<b>>
  <2>1. /\ s \in Seq(Sorts) /\ t \in Seq(Sorts) /\ u \in Seq(Sorts) /\ Len(s) = 1 /\ Len(t) = 1
        /\ Len(u) = 2 /\ s[1] = b /\ t[1] = Fresh /\ u[1] = b /\ u[2] = Fresh
    BY <1>2
  <2> HIDE DEF s, t, u
  <2>2. \A i \in 1 .. Len(s) : u[i] = s[i]
    BY <2>1
  <2>3. \A i \in 1 .. Len(t) : u[Len(s) + i] = t[i]
    BY <2>1
  <2>4. Len(u) = Len(s) + Len(t)
    BY <2>1
  <2>5. s \o t = u
    BY <2>1, <2>2, <2>3, <2>4, ConcatIs
  <2> QED
    BY <2>5 DEF s, t, u
<1>5. <<b>> \o <<AnyStmt, Absent>> = <<b, AnyStmt, Absent>>
  <2> DEFINE u == <<b, AnyStmt, Absent>>
             t == <<AnyStmt, Absent>>
             s == <<b>>
  <2>1. /\ s \in Seq(Sorts) /\ t \in Seq(Sorts) /\ u \in Seq(Sorts) /\ Len(s) = 1 /\ Len(t) = 2
        /\ Len(u) = 3 /\ s[1] = b /\ t[1] = AnyStmt /\ t[2] = Absent
        /\ u[1] = b /\ u[2] = AnyStmt /\ u[3] = Absent
    BY <1>2
  <2> HIDE DEF s, t, u
  <2>2. \A i \in 1 .. Len(s) : u[i] = s[i]
    BY <2>1
  <2>3. \A i \in 1 .. Len(t) : u[Len(s) + i] = t[i]
    <3>1. \A i \in 1 .. 2 : i = 1 \/ i = 2
      OBVIOUS
    <3> QED
      BY <2>1, <3>1
  <2>4. Len(u) = Len(s) + Len(t)
    BY <2>1
  <2>5. s \o t = u
    BY <2>1, <2>2, <2>3, <2>4, ConcatIs
  <2> QED
    BY <2>5 DEF s, t, u
<1>6. Step(Do("else"), <<b>> \o <<Fresh>>, <<b>> \o <<AnyStmt, Absent>>)
  BY <1>1, <1>3, StepFrame
<1> QED
  BY <1>2, <1>4, <1>5, <1>6

LEMMA IfDoes ==
  ASSUME NEW a \in Sorts, Sub(Fresh, a)
  PROVE  Does(Rule.If, <<>>, <<a>>)
<1> DEFINE rest == <<Consume("RParen"), Do("stmt"), Do("else"), Build("If")>>
<1>1. /\ <<Ex(0)>> \in Seq(Sorts) /\ <<Ex(0), Fresh>> \in Seq(Sorts) /\ <<a>> \in Seq(Sorts)
      /\ Step(Consume("RParen"), <<Ex(0)>>, <<Ex(0)>>)
      /\ Step(Do("stmt"), <<Ex(0)>>, <<Ex(0), Fresh>>)
      /\ Below(<<Fresh>>, <<a>>)
  BY SomeSorts, BodySteps
<1>2. /\ Step(Do("else"), <<Ex(0), Fresh>>, <<Ex(0), AnyStmt, Absent>>)
      /\ <<Ex(0), AnyStmt, Absent>> \in Seq(Sorts)
  BY SomeSorts, ElseStep
<1>3. Step(Build("If"), <<Ex(0), AnyStmt, Absent>>, <<a>>)
  <2>1. Below(<<Ex(0), AnyStmt, Absent>>, <<Ex(0), AnyStmt, Absent>>)
    BY <1>2, BelowFacts
  <2>2. Sig(<<Ex(0), AnyStmt, Absent>>, <<Fresh>>) \in Signature(Build("If"))
    BY BuildSignatures
  <2> QED
    BY <1>1, <1>2, <2>1, <2>2, StepWhole
<1>4. /\ Consume("RParen") \in Record /\ Do("stmt") \in Record /\ Build("If") \in Record
      /\ Consume("LParen") \in Record /\ Do("else") \in Record
  BY TokenRecords, DoRecords, BuildRecords
<1>5. Does(rest, <<Ex(0)>>, <<a>>)
  BY <1>1, <1>2, <1>3, <1>4, DoesFour
<1>6. Does(<<Consume("LParen")>>, <<>>, <<>>)
  BY <1>4, SmallStacks, SkipTokens, DoesOne
<1> HIDE DEF rest
<1>7. Does(<<Consume("LParen")>> \o Expr, <<>>, <<Ex(0)>>)
  BY <1>6, ExprDoes, DoesConcat
<1>8. Does((<<Consume("LParen")>> \o Expr) \o rest, <<>>, <<a>>)
  BY <1>5, <1>7, DoesConcat
<1> QED
  BY <1>8 DEF Rule, rest

LEMMA ForDoes ==
  ASSUME NEW a \in Sorts, Sub(Fresh, a)
  PROVE  Does(Rule.For, <<>>, <<a>>)
<1> DEFINE first == <<Consume("LParen"), Do("forInit"), Unless("Semicolon"), Consume("Semicolon")>>
           second == <<Unless("RParen"), Consume("RParen"), Do("stmt"), Build("For")>>
           s2 == <<Perhaps, Ex(0)>>
           s3 == <<Perhaps, Ex(0), Ex(0)>>
           s4 == <<Perhaps, Ex(0), Ex(0), Fresh>>
<1>1. /\ <<>> \in Seq(Firm) /\ <<>> \in Seq(Sorts) /\ <<Perhaps>> \in Seq(Sorts)
      /\ s2 \in Seq(Firm) /\ s2 \in Seq(Sorts) /\ s3 \in Seq(Firm) /\ s3 \in Seq(Sorts)
      /\ s4 \in Seq(Sorts) /\ <<a>> \in Seq(Sorts)
  BY SomeSorts, SmallStacks
<1>2. Step(Do("forInit"), <<>>, <<Perhaps>>)
  BY DoSignatures, SomeSorts, StepPushes
<1>3. Step(Unless("Semicolon"), <<Perhaps>>, s2)
  BY CallSignatures, SomeSorts, StepPushes
<1>4. Step(Unless("RParen"), s2, s3)
  BY CallSignatures, SomeSorts, StepPushes
<1>5. Step(Do("stmt"), s3, s4)
  BY DoSignatures, SomeSorts, StepPushes
<1>6. Sig(s4, <<Fresh>>) \in Signature(Build("For"))
  BY BuildSignatures
<1> HIDE DEF s2, s3, s4
<1>7. Step(Consume("LParen"), <<>>, <<>>) /\ Step(Consume("Semicolon"), s2, s2)
  BY <1>1, SkipTokens
<1>8. Step(Consume("RParen"), s3, s3)
  BY <1>1, SkipTokens
<1>9. Step(Build("For"), s4, <<a>>)
  <2>1. Below(s4, s4) /\ Below(<<Fresh>>, <<a>>)
    BY <1>1, BelowFacts, OneBelow
  <2> QED
    BY <1>1, <1>6, <2>1, StepWhole
<1>10. /\ Consume("LParen") \in Record /\ Do("forInit") \in Record /\ Unless("Semicolon") \in Record
       /\ Consume("Semicolon") \in Record /\ Unless("RParen") \in Record
       /\ Consume("RParen") \in Record /\ Do("stmt") \in Record /\ Build("For") \in Record
  BY TokenRecords, DoRecords, BuildRecords
<1>11. Does(first, <<>>, s2)
  BY <1>1, <1>2, <1>3, <1>7, <1>10, DoesFour
<1>12. Does(second, s2, <<a>>)
  BY <1>1, <1>4, <1>5, <1>8, <1>9, <1>10, DoesFour
<1>13. first \o second
         = <<Consume("LParen"), Do("forInit"), Unless("Semicolon"), Consume("Semicolon"),
             Unless("RParen"), Consume("RParen"), Do("stmt"), Build("For")>>
  BY <1>10, TupleHalves
<1> HIDE DEF first, second
<1>14. Does(first \o second, <<>>, <<a>>)
  BY <1>11, <1>12, DoesConcat
<1> QED
  BY <1>13, <1>14 DEF Rule

LEMMA ReturnDoes ==
  ASSUME NEW a \in Sorts, Sub(Fresh, a)
  PROVE  Does(Rule.Return, <<>>, <<a>>)
<1>1. /\ <<>> \in Seq(Sorts) /\ <<Ex(0)>> \in Seq(Firm) /\ <<Ex(0)>> \in Seq(Sorts)
      /\ <<a>> \in Seq(Sorts) /\ Below(<<Ex(0)>>, <<Ex(0)>>) /\ Below(<<Fresh>>, <<a>>)
  BY SomeSorts, SmallStacks, OneBelow
<1>2. Step(Unless("Semicolon"), <<>>, <<Ex(0)>>)
  BY CallSignatures, SomeSorts, StepPushes
<1>3. Step(Consume("Semicolon"), <<Ex(0)>>, <<Ex(0)>>)
  BY <1>1, SkipTokens
<1>4. Sig(<<Ex(0)>>, <<Fresh>>) \in Signature(Build("Return"))
  BY BuildSignatures
<1>5. Step(Build("Return"), <<Ex(0)>>, <<a>>)
  BY <1>1, <1>4, StepWhole
<1>6. /\ Unless("Semicolon") \in Record /\ Consume("Semicolon") \in Record
      /\ Build("Return") \in Record
  BY TokenRecords, BuildRecords
<1>7. Does(<<Unless("Semicolon"), Consume("Semicolon"), Build("Return")>>, <<>>, <<a>>)
  BY <1>1, <1>2, <1>3, <1>5, <1>6, DoesThree
<1> QED
  BY <1>7 DEF Rule

LEMMA BlockDoes ==
  ASSUME NEW a \in Sorts, Sub(Body, a)
  PROVE  Does(<<Statements("Block", 0)>>, <<>>, <<a>>)
<1>1. Sig(<<>>, <<Body>>) \in Signature(Statements("Block", 0))
  BY CallSignatures, NoItems
<1>2. Statements("Block", 0) \in Record
  BY RecordFacts
<1>3. <<>> \in Seq(Sorts) /\ <<a>> \in Seq(Sorts) /\ Below(<<Body>>, <<a>>)
  BY SmallStacks, OneBelow
<1> QED
  BY <1>1, <1>2, <1>3, NothingBelow, DoesWhole

\* A statement that begins with a keyword or a brace, behind it.
LEMMA RuleDoes ==
  ASSUME NEW a \in Sorts, Sub(Fresh, a), NEW kind \in DOMAIN Rule
  PROVE  Does(Rule[kind], <<>>, <<a>>)
<1>1. kind \in {"Var", "Function", "If", "While", "For", "Return", "LBrace"}
  BY DEF Rule
<1>2. Rule.LBrace = <<Statements("Block", 0)>>
  BY DEF Rule
<1>3. Sub(Body, a)
  BY SubFacts
<1> QED
  BY <1>1, <1>2, <1>3, VarDoes, FunctionDoes, IfDoes, WhileDoes, ForDoes, ReturnDoes, BlockDoes

LEMMA TimesFacts ==
  ASSUME NEW n \in Nat
  PROVE  /\ Times(n, AnyStmt) \in Seq(Firm) /\ Times(n, AnyStmt) \in Seq(Sorts)
         /\ Len(Times(n, AnyStmt)) = n /\ \A i \in 1 .. n : Times(n, AnyStmt)[i] = AnyStmt
         /\ Append(Times(n, AnyStmt), AnyStmt) = Times(n + 1, AnyStmt)
<1> DEFINE t == Times(n, AnyStmt)
           u == Times(n + 1, AnyStmt)
<1>1. /\ t \in Seq(Firm) /\ Len(t) = n /\ \A i \in 1 .. n : t[i] = AnyStmt
  BY SomeSorts, IsASeq DEF Times
<1>2. /\ u \in Seq(Firm) /\ Len(u) = n + 1 /\ \A i \in 1 .. n + 1 : u[i] = AnyStmt
  BY SomeSorts, IsASeq DEF Times
<1> HIDE DEF t, u
<1>3. t \in Seq(Sorts) /\ u \in Seq(Sorts)
  BY <1>1, <1>2, FirmSeq
<1>4. u[Len(t) + 1] = AnyStmt /\ Len(u) = Len(t) + 1
  BY <1>1, <1>2
<1>5. \A i \in 1 .. Len(t) : u[i] = t[i]
  BY <1>1, <1>2
<1>6. Append(t, AnyStmt) = u
  BY <1>3, <1>4, <1>5, SomeSorts, AppendIs
<1> QED
  BY <1>1, <1>3, <1>6 DEF t, u

LEMMA ItemsFacts ==
  ASSUME NEW n \in Nat, NEW of \in {"params", "args"}
  PROVE  /\ Items(of, n) \in Seq(Firm) /\ Items(of, n) \in Seq(Sorts)
         /\ Len(Items(of, n)) = n + 1
         /\ \A i \in 1 .. n + 1 :
              Items(of, n)[i] = IF of = "params" THEN Name ELSE IF i = 1 THEN Ex(8) ELSE Ex(0)
         /\ Append(Items(of, n), IF of = "params" THEN Name ELSE Ex(0)) = Items(of, n + 1)
<1> DEFINE t == Items(of, n)
           u == Items(of, n + 1)
           a == IF of = "params" THEN Name ELSE Ex(0)
           f(i) == IF of = "params" THEN Name ELSE IF i = 1 THEN Ex(8) ELSE Ex(0)
<1>1. \A i : f(i) \in Firm
  BY SomeSorts
<1>2. a \in Sorts /\ a = f((n + 1) + 1)
  BY SomeSorts
<1>3. t = [i \in 1 .. n + 1 |-> f(i)] /\ u = [i \in 1 .. (n + 1) + 1 |-> f(i)]
  BY DEF Items
<1> HIDE DEF t, u, a, f
<1>4. t \in Seq(Firm) /\ Len(t) = n + 1 /\ \A i \in 1 .. n + 1 : t[i] = f(i)
  BY <1>1, <1>3, IsASeq
<1>5. u \in Seq(Firm) /\ Len(u) = (n + 1) + 1 /\ \A i \in 1 .. (n + 1) + 1 : u[i] = f(i)
  BY <1>1, <1>3, IsASeq
<1>6. t \in Seq(Sorts) /\ u \in Seq(Sorts)
  BY <1>4, <1>5, FirmSeq
<1>7. u[Len(t) + 1] = a /\ Len(u) = Len(t) + 1
  BY <1>2, <1>4, <1>5
<1>8. \A i \in 1 .. Len(t) : u[i] = t[i]
  BY <1>4, <1>5
<1>9. Append(t, a) = u
  BY <1>2, <1>6, <1>7, <1>8, AppendIs
<1> QED
  BY <1>4, <1>6, <1>9 DEF t, u, a, f

LEMMA ExprPushes ==
  ASSUME NEW s \in Seq(Firm)
  PROVE  Does(Expr, s, Append(s, Ex(0)))
<1>1. Does(Expr, s \o <<>>, s \o <<Ex(0)>>)
  BY ExprDoes, DoesFrame
<1>2. s \o <<>> = s /\ s \o <<Ex(0)>> = Append(s, Ex(0))
  BY SomeSorts, FramePush
<1> QED
  BY <1>1, <1>2

\* One more statement of a list.
LEMMA StatementsGoOn ==
  ASSUME NEW of \in {"Program", "Block"}, NEW n \in Nat, NEW y \in Seq(Sorts),
         Below(IF of = "Program" THEN <<Never>> ELSE <<Body>>, y)
  PROVE  Does(<<Do("decl"), Statements(of, n + 1)>>, Times(n, AnyStmt), y)
<1>1. /\ Times(n, AnyStmt) \in Seq(Firm) /\ Times(n, AnyStmt) \in Seq(Sorts)
      /\ Append(Times(n, AnyStmt), AnyStmt) = Times(n + 1, AnyStmt)
  BY TimesFacts
<1>2. n + 1 \in Nat
  OBVIOUS
<1>3. Times(n + 1, AnyStmt) \in Seq(Sorts)
  BY <1>2, TimesFacts
<1>4. Step(Do("decl"), Times(n, AnyStmt), Times(n + 1, AnyStmt))
  <2>1. Sub(Fresh, AnyStmt)
    BY SortFacts
  <2>2. Sig(<<>>, <<Fresh>>) \in Signature(Do("decl"))
    BY DoSignatures
  <2>3. Step(Do("decl"), Times(n, AnyStmt), Append(Times(n, AnyStmt), AnyStmt))
    BY <1>1, <2>1, <2>2, SomeSorts, StepPush
  <2> QED
    BY <1>1, <2>3
<1>5. Sig(Times(n + 1, AnyStmt), IF of = "Program" THEN <<Never>> ELSE <<Body>>)
        \in Signature(Statements(of, n + 1))
  BY <1>2, CallSignatures
<1>6. Step(Statements(of, n + 1), Times(n + 1, AnyStmt), y)
  <2>1. Below(Times(n + 1, AnyStmt), Times(n + 1, AnyStmt))
    BY <1>3, BelowFacts
  <2> QED
    BY <1>3, <1>5, <2>1, StepWhole
<1>7. Do("decl") \in Record /\ Statements(of, n + 1) \in Record
  BY <1>2, DoRecords, RecordFacts
<1> QED
  BY <1>1, <1>3, <1>4, <1>6, <1>7, DoesTwo

LEMMA BlockEnds ==
  ASSUME NEW n \in Nat, NEW a \in Sorts, Sub(Body, a)
  PROVE  Does(<<Consume("RBrace"), BuildList("Block", n)>>, Times(n, AnyStmt), <<a>>)
<1>1. Times(n, AnyStmt) \in Seq(Firm) /\ Times(n, AnyStmt) \in Seq(Sorts)
  BY TimesFacts
<1>2. Step(Consume("RBrace"), Times(n, AnyStmt), Times(n, AnyStmt))
  BY <1>1, SkipTokens
<1>3. <<a>> \in Seq(Sorts) /\ Below(<<Body>>, <<a>>)
  BY SmallStacks, OneBelow
<1>4. Below(Times(n, AnyStmt), Times(n, AnyStmt))
  BY <1>1, BelowFacts
<1>5. Sig(Times(n, AnyStmt), <<Body>>) \in Signature(BuildList("Block", n))
  BY BuildSignatures
<1>6. Step(BuildList("Block", n), Times(n, AnyStmt), <<a>>)
  BY <1>1, <1>3, <1>4, <1>5, StepWhole
<1>7. Consume("RBrace") \in Record /\ BuildList("Block", n) \in Record
  BY TokenRecords, BuildRecords
<1> QED
  BY <1>1, <1>2, <1>3, <1>6, <1>7, DoesTwo

\* Behind the last parameter or argument.
LEMMA RestDoes ==
  ASSUME NEW of \in {"params", "args"}, NEW n \in Nat, NEW a \in Sorts,
         of = "params" => Sub(Fresh, a), of = "args" => Sub(Ex(8), a)
  PROVE  Does(Rest(of, n), Items(of, n), <<a>>)
<1> DEFINE t == Items(of, n)
<1>1. t \in Seq(Firm) /\ t \in Seq(Sorts) /\ <<a>> \in Seq(Sorts)
  BY ItemsFacts, SmallStacks
<1>2. /\ Consume("RParen") \in Record /\ Consume("LBrace") \in Record
      /\ Statements("Block", 0) \in Record /\ BuildList("FuncDecl", n) \in Record
      /\ BuildList("Call", n) \in Record /\ Do("calls") \in Record
  BY TokenRecords, RecordFacts, BuildRecords, DoRecords
<1> HIDE DEF t
<1>3. Step(Consume("RParen"), t, t) /\ Step(Consume("LBrace"), t, t)
  BY <1>1, SkipTokens
<1>4. CASE of = "params"
  <2> DEFINE u == Append(t, Body)
  <2>1. u \in Seq(Sorts)
    BY <1>1, SomeSorts, AppendProperties
  <2>2. Step(Statements("Block", 0), t, u)
    <3>1. Sig(<<>>, <<Body>>) \in Signature(Statements("Block", 0))
      BY CallSignatures, NoItems
    <3>2. Sub(Body, Body)
      BY SortFacts
    <3> QED
      BY <1>1, <3>1, <3>2, SomeSorts, StepPush
  <2>3. Sig(u, <<Fresh>>) \in Signature(BuildList("FuncDecl", n))
    BY <1>4, BuildSignatures DEF t
  <2> HIDE DEF u
  <2>4. Below(u, u) /\ Below(<<Fresh>>, <<a>>)
    BY <1>4, <2>1, BelowFacts, OneBelow
  <2>5. Step(BuildList("FuncDecl", n), u, <<a>>)
    BY <1>1, <2>1, <2>3, <2>4, StepWhole
  <2>6. Does(<<Consume("RParen"), Consume("LBrace"), Statements("Block", 0),
               BuildList("FuncDecl", n)>>, t, <<a>>)
    BY <1>1, <1>2, <1>3, <2>1, <2>2, <2>5, DoesFour
  <2> QED
    BY <1>4, <2>6 DEF Rest, t
<1>5. CASE of = "args"
  <2>1. <<Ex(8)>> \in Seq(Sorts) /\ Below(<<Ex(8)>>, <<Ex(8)>>)
    BY ExpressionSorts
  <2>2. Sig(t, <<Ex(8)>>) \in Signature(BuildList("Call", n))
    BY <1>5, BuildSignatures DEF t
  <2>3. Below(t, t) /\ Below(<<Ex(8)>>, <<a>>)
    BY <1>1, <1>5, BelowFacts, OneBelow
  <2>4. Step(BuildList("Call", n), t, <<Ex(8)>>)
    BY <1>1, <2>1, <2>2, <2>3, StepWhole
  <2>5. Sig(<<Ex(8)>>, <<Ex(8)>>) \in Signature(Do("calls"))
    BY DoSignatures
  <2>6. Step(Do("calls"), <<Ex(8)>>, <<a>>)
    BY <1>1, <2>1, <2>3, <2>5, StepWhole
  <2>7. Does(<<Consume("RParen"), BuildList("Call", n), Do("calls")>>, t, <<a>>)
    BY <1>1, <1>2, <1>3, <2>1, <2>4, <2>6, DoesThree
  <2> QED
    BY <1>5, <2>7 DEF Rest, t
<1> QED
  BY <1>4, <1>5

LEMMA WholeBelow ==
  ASSUME NEW of \in {"params", "args"}, NEW a \in Sorts,
         of = "params" => Sub(Fresh, a), of = "args" => Sub(Ex(8), a)
  PROVE  Below(Whole(of), <<a>>)
<1>1. CASE of = "params"
  BY <1>1, OneBelow DEF Whole
<1>2. CASE of = "args"
  BY <1>2, OneBelow DEF Whole
<1> QED
  BY <1>1, <1>2

LEMMA ItemDoes ==
  ASSUME NEW of \in {"params", "args"}, NEW n \in Nat, NEW a \in Sorts,
         of = "params" => Sub(Fresh, a), of = "args" => Sub(Ex(8), a)
  PROVE  /\ Does(<<Item(of, n)>>, Items(of, n), <<a>>)
         /\ Does((IF of = "params" THEN <<Consume("Identifier")>> ELSE Expr)
                   \o <<Comma(of, n + 1)>>, Items(of, n), <<a>>)
<1> DEFINE t == Items(of, n)
           u == Items(of, n + 1)
<1>1. t \in Seq(Firm) /\ t \in Seq(Sorts) /\ <<a>> \in Seq(Sorts)
  BY ItemsFacts, SmallStacks
<1>2. n + 1 \in Nat
  OBVIOUS
<1>3. u \in Seq(Sorts)
  BY <1>2, ItemsFacts
<1>4. Append(t, IF of = "params" THEN Name ELSE Ex(0)) = u
  BY ItemsFacts
<1>5. Below(Whole(of), <<a>>)
  BY WholeBelow
<1>6. Sig(t, Whole(of)) \in Signature(Item(of, n))
  BY CallSignatures
<1>7. Sig(u, Whole(of)) \in Signature(Comma(of, n + 1))
  BY <1>2, CallSignatures
<1> HIDE DEF t, u
<1>8. Below(t, t) /\ Below(u, u)
  BY <1>1, <1>3, BelowFacts
<1>9. Item(of, n) \in Record /\ Comma(of, n + 1) \in Record
  BY <1>2, RecordFacts
<1>10. Does(<<Item(of, n)>>, t, <<a>>)
  BY <1>1, <1>5, <1>6, <1>8, <1>9, DoesWhole
<1>11. Does(<<Comma(of, n + 1)>>, u, <<a>>)
  BY <1>1, <1>3, <1>5, <1>7, <1>8, <1>9, DoesWhole
<1>12. Does(IF of = "params" THEN <<Consume("Identifier")>> ELSE Expr, t, u)
  <2>1. CASE of = "params"
    <3>1. Step(Consume("Identifier"), t, Append(t, Name))
      BY <1>1, CallSignatures, SomeSorts, StepPush
    <3>2. Consume("Identifier") \in Record /\ Append(t, Name) = u
      BY <1>4, <2>1, TokenRecords
    <3>3. Does(<<Consume("Identifier")>>, t, u)
      BY <1>1, <1>3, <3>1, <3>2, DoesOne
    <3> QED
      BY <2>1, <3>3
  <2>2. CASE of # "params"
    BY <1>1, <1>4, <2>2, ExprPushes
  <2> QED
    BY <2>1, <2>2
<1>13. Does((IF of = "params" THEN <<Consume("Identifier")>> ELSE Expr)
             \o <<Comma(of, n + 1)>>, t, <<a>>)
  BY <1>11, <1>12, DoesConcat
<1> QED
  BY <1>10, <1>13 DEF t

LEMMA LevelOperators ==
  ASSUME NEW l \in 1 .. 6, NEW op \in Level[l]
  PROVE  /\ op \in BinaryOp \cup LogicalOp /\ op \in Operator /\ KindOf(op) \in Constructed
         /\ KindOf(op) \in {"Binary", "Logical"}
         /\ KindOf(op) = "Binary" => op \in BinaryOp
         /\ KindOf(op) = "Logical" => op \in LogicalOp
<1>1. l = 1 \/ l = 2 \/ l = 3 \/ l = 4 \/ l = 5 \/ l = 6
  OBVIOUS
<1>2. op \in BinaryOp \cup LogicalOp
  BY <1>1 DEF Level, BinaryOp, LogicalOp
<1> QED
  BY <1>2 DEF KindOf, Constructed, Operator

\* One more operator of a level, and its right operand.
LEMMA MoreDoes ==
  ASSUME NEW l \in 1 .. 6, NEW op \in Level[l], NEW a \in Sorts, Sub(Ex(l), a)
  PROVE  Does(Operand(l + 1) \o <<BuildOp(KindOf(op), op), More(l)>>, <<Ex(l)>>, <<a>>)
<1>1. l \in 0 .. 8 /\ l + 1 \in 0 .. 8 /\ l + 1 \in 1 .. 7 /\ l \in Nat
  OBVIOUS
<1>2. Ex(l) \in Firm /\ Ex(l) \in Sorts /\ Ex(l + 1) \in Sorts
  BY <1>1, SortFacts
<1>3. /\ <<Ex(l)>> \in Seq(Firm) /\ <<Ex(l)>> \in Seq(Sorts) /\ <<a>> \in Seq(Sorts)
      /\ <<Ex(l), Ex(l + 1)>> \in Seq(Sorts)
  BY <1>2, SmallStacks
<1>4. Does(Operand(l + 1), <<Ex(l)>>, <<Ex(l), Ex(l + 1)>>)
  <2>1. Does(Operand(l + 1), <<>>, <<Ex(l + 1)>>)
    BY <1>1, OperandDoes
  <2>2. Does(Operand(l + 1), <<Ex(l)>> \o <<>>, <<Ex(l)>> \o <<Ex(l + 1)>>)
    BY <1>3, <2>1, DoesFrame
  <2>3. <<Ex(l)>> \o <<>> = <<Ex(l)>> /\ <<Ex(l)>> \o <<Ex(l + 1)>> = Append(<<Ex(l)>>, Ex(l + 1))
    BY <1>2, <1>3, FramePush
  <2>4. Append(<<Ex(l)>>, Ex(l + 1)) = <<Ex(l), Ex(l + 1)>>
    BY <1>2, AppendTuple
  <2> QED
    BY <2>2, <2>3, <2>4
<1>5. Below(<<Ex(l), Ex(l + 1)>>, <<Ex(l), Ex(l + 1)>>) /\ Below(<<Ex(l)>>, <<Ex(l)>>)
  BY <1>3, BelowFacts
<1>6. Below(<<Ex(l)>>, <<a>>)
  BY OneBelow
<1>7. Sig(<<Ex(l), Ex(l + 1)>>, <<Ex(l)>>) \in Signature(BuildOp(KindOf(op), op))
  BY BuildSignatures
<1>8. Sig(<<Ex(l)>>, <<Ex(l)>>) \in Signature(More(l))
  BY CallSignatures
<1>9. Step(BuildOp(KindOf(op), op), <<Ex(l), Ex(l + 1)>>, <<Ex(l)>>)
  BY <1>3, <1>5, <1>7, StepWhole
<1>10. Step(More(l), <<Ex(l)>>, <<a>>)
  BY <1>3, <1>5, <1>6, <1>8, StepWhole
<1>11. BuildOp(KindOf(op), op) \in Record /\ More(l) \in Record
  BY <1>1, LevelOperators, RecordFacts
<1>12. Does(<<BuildOp(KindOf(op), op), More(l)>>, <<Ex(l), Ex(l + 1)>>, <<a>>)
  BY <1>3, <1>9, <1>10, <1>11, DoesTwo
<1> QED
  BY <1>4, <1>12, DoesConcat

LEMMA UnaryDoes ==
  ASSUME NEW a \in Sorts, Sub(Ex(7), a)
  PROVE  /\ \A op \in UnaryOp : Does(<<Do("unary"), BuildOp("Unary", op)>>, <<>>, <<a>>)
         /\ Does(<<Do("primary"), Do("calls")>>, <<>>, <<a>>)
<1>1. /\ Ex(7) \in Sorts /\ Ex(8) \in Sorts /\ <<Ex(7)>> \in Seq(Sorts) /\ <<Ex(8)>> \in Seq(Sorts)
      /\ Below(<<Ex(7)>>, <<Ex(7)>>) /\ Below(<<Ex(8)>>, <<Ex(8)>>)
  BY ExpressionSorts
<1>2. <<>> \in Seq(Sorts) /\ <<a>> \in Seq(Sorts) /\ Below(<<Ex(7)>>, <<a>>)
  BY SmallStacks, OneBelow
<1>3. Sub(Ex(8), a)
  <2>1. \E i \in 0 .. 7 : a = Ex(i)
    BY SubFacts
  <2> QED
    BY <2>1, SortFacts
<1>4. Below(<<Ex(8)>>, <<a>>)
  BY <1>3, OneBelow
<1>5. ASSUME NEW op \in UnaryOp PROVE Does(<<Do("unary"), BuildOp("Unary", op)>>, <<>>, <<a>>)
  <2>1. Sig(<<>>, <<Ex(7)>>) \in Signature(Do("unary"))
    BY DoSignatures
  <2>2. Step(Do("unary"), <<>>, <<Ex(7)>>)
    BY <1>1, <1>2, <2>1, NothingBelow, StepWhole
  <2>3. Sig(<<Ex(7)>>, <<Ex(7)>>) \in Signature(BuildOp("Unary", op))
    BY BuildSignatures
  <2>4. Step(BuildOp("Unary", op), <<Ex(7)>>, <<a>>)
    BY <1>1, <1>2, <2>3, StepWhole
  <2>5. "Unary" \in Constructed /\ op \in Operator
    BY DEF Constructed, Operator
  <2>6. Do("unary") \in Record /\ BuildOp("Unary", op) \in Record
    BY <2>5, DoRecords, RecordFacts
  <2> QED
    BY <1>1, <1>2, <2>2, <2>4, <2>6, DoesTwo
<1>6. Does(<<Do("primary"), Do("calls")>>, <<>>, <<a>>)
  <2>1. Sig(<<>>, <<Ex(8)>>) \in Signature(Do("primary"))
    BY DoSignatures
  <2>2. Step(Do("primary"), <<>>, <<Ex(8)>>)
    BY <1>1, <1>2, <2>1, NothingBelow, StepWhole
  <2>3. Sig(<<Ex(8)>>, <<Ex(8)>>) \in Signature(Do("calls"))
    BY DoSignatures
  <2>4. Step(Do("calls"), <<Ex(8)>>, <<a>>)
    BY <1>1, <1>2, <1>4, <2>3, StepWhole
  <2> QED
    BY <1>1, <1>2, <2>2, <2>4, DoRecords, DoesTwo
<1> QED
  BY <1>5, <1>6

LEMMA GroupDoes ==
  ASSUME NEW a \in Sorts, Sub(Ex(8), a)
  PROVE  Does(Expr \o <<Consume("RParen"), Build("Grouping")>>, <<>>, <<a>>)
<1>1. /\ <<Ex(0)>> \in Seq(Firm) /\ <<Ex(0)>> \in Seq(Sorts) /\ Below(<<Ex(0)>>, <<Ex(0)>>)
      /\ <<a>> \in Seq(Sorts) /\ Below(<<Ex(8)>>, <<a>>)
  BY SomeSorts, SmallStacks, OneBelow
<1>2. Step(Consume("RParen"), <<Ex(0)>>, <<Ex(0)>>)
  BY <1>1, SkipTokens
<1>3. Sig(<<Ex(0)>>, <<Ex(8)>>) \in Signature(Build("Grouping"))
  BY BuildSignatures
<1>4. Step(Build("Grouping"), <<Ex(0)>>, <<a>>)
  BY <1>1, <1>3, StepWhole
<1>5. Consume("RParen") \in Record /\ Build("Grouping") \in Record
  BY TokenRecords, BuildRecords
<1>6. Does(<<Consume("RParen"), Build("Grouping")>>, <<Ex(0)>>, <<a>>)
  BY <1>1, <1>2, <1>4, <1>5, DoesTwo
<1> QED
  BY <1>6, ExprDoes, DoesConcat

LEMMA ArgsDoes ==
  ASSUME NEW a \in Sorts, Sub(Ex(8), a)
  PROVE  Does(<<Do("args")>>, <<Ex(8)>>, <<a>>)
<1>1. /\ <<Ex(8)>> \in Seq(Sorts) /\ Below(<<Ex(8)>>, <<Ex(8)>>)
      /\ <<a>> \in Seq(Sorts) /\ Below(<<Ex(8)>>, <<a>>)
  BY SomeSorts, SmallStacks, OneBelow
<1>2. Sig(<<Ex(8)>>, <<Ex(8)>>) \in Signature(Do("args"))
  BY DoSignatures, NoItems
<1> QED
  BY <1>1, <1>2, DoRecords, DoesWhole

LEMMA AssignDoes ==
  ASSUME NEW a \in Sorts, Sub(Ex(0), a)
  PROVE  Does(Expr \o <<Do("assignTo")>>, <<Ex(1)>>, <<a>>)
<1>1. /\ Ex(1) \in Firm /\ Ex(1) \in Sorts /\ Ex(0) \in Sorts
      /\ Sub(Ex(1), Ex(0)) /\ Sub(Ex(0), Ex(0))
  BY SortFacts
<1>2. /\ <<Ex(1)>> \in Seq(Firm) /\ <<Ex(1), Ex(0)>> \in Seq(Sorts)
      /\ <<a>> \in Seq(Sorts) /\ Below(<<Ex(0)>>, <<a>>)
  BY <1>1, SmallStacks, OneBelow
<1>3. Append(<<Ex(1)>>, Ex(0)) = <<Ex(1), Ex(0)>>
  BY <1>1, AppendTuple
<1>4. Does(Expr, <<Ex(1)>>, <<Ex(1), Ex(0)>>)
  BY <1>2, <1>3, ExprPushes
<1>5. Below(<<Ex(1), Ex(0)>>, <<Ex(0), Ex(0)>>)
  <2> DEFINE u == <<Ex(1), Ex(0)>>
             v == <<Ex(0), Ex(0)>>
  <2>1. /\ Len(u) = 2 /\ Len(v) = 2 /\ u[1] = Ex(1) /\ u[2] = Ex(0) /\ v[1] = Ex(0)
        /\ v[2] = Ex(0)
    OBVIOUS
  <2> HIDE DEF u, v
  <2>2. \A i \in 1 .. Len(u) : i = 1 \/ i = 2
    BY <2>1
  <2>3. \A i \in 1 .. Len(u) : Sub(u[i], v[i])
    BY <1>1, <2>1, <2>2
  <2>4. Below(u, v)
    BY <2>1, <2>3 DEF Below
  <2> QED
    BY <2>4 DEF u, v
<1>6. Sig(<<Ex(0), Ex(0)>>, <<Ex(0)>>) \in Signature(Do("assignTo"))
  BY DoSignatures
<1>7. Does(<<Do("assignTo")>>, <<Ex(1), Ex(0)>>, <<a>>)
  BY <1>2, <1>5, <1>6, DoRecords, DoesWhole
<1> QED
  BY <1>4, <1>7, DoesConcat

(***************************************************************************)
(* The tree.                                                               *)
(***************************************************************************)

LevelOf(op) == CHOOSE l \in DOMAIN Level : op \in Level[l]

\* Tightness in any tree.
Tight(nds, k) ==
  IF k = 0 THEN 8
  ELSE CASE nds[k].kind = "Assign" -> 0
         [] nds[k].kind \in {"Binary", "Logical"} -> LevelOf(nds[k].op)
         [] nds[k].kind = "Unary" -> 7
         [] OTHER -> 8

\* Whether an `else' behind a node would belong to it, when `open' are those of
\* its children for which that is so.
TakesOne(node, open) ==
  \/ node.kind = "If" /\ (node.else = 0 \/ node.else \in open)
  \/ node.kind \in {"While", "For"} /\ node.body \in open

\* Expressions and statements, or the null pointer.
IsExpr(nds, k) == k = 0 \/ nds[k].kind \in ExprKind
IsStmt(nds, k) == k = 0 \/ nds[k].kind \notin ExprKind

ExprChildren(node) ==
  CASE node.kind \in {"Grouping", "Unary", "Binary", "Logical", "Assign", "Call",
                      "ExprStmt", "Return", "VarDecl"} -> Children(node)
    [] node.kind \in {"If", "While"}                   -> {node.cond}
    [] node.kind = "For"                               -> {node.cond, node.step}
    [] OTHER                                           -> {}

StmtChildren(node) ==
  CASE node.kind \in {"FuncDecl", "Block"} -> Children(node)
    [] node.kind = "If"                    -> {node.then, node.else}
    [] node.kind = "While"                 -> {node.body}
    [] node.kind = "For"                   -> {node.init, node.body}
    [] OTHER                               -> {}

\* The children are what the classes of AST.h declare them as.
Sorted(nds, node) ==
  /\ \A k \in ExprChildren(node) : IsExpr(nds, k)
  /\ \A k \in StmtChildren(node) : IsStmt(nds, k)
  /\ node.kind = "FuncDecl" => node.body # 0 /\ nds[node.body].kind = "Block"

\* GroupedByPrecedence and NearestElse for one node, and its sort.
Shaped(nds, open, node) ==
  /\ Sorted(nds, node)
  /\ node.kind \in {"Binary", "Logical"} =>
       Tight(nds, node.left) >= LevelOf(node.op) /\ Tight(nds, node.right) > LevelOf(node.op)
  /\ node.kind = "Unary" => Tight(nds, node.right) >= 7
  /\ node.kind = "Call" => Tight(nds, node.callee) >= 8
  /\ node.kind = "If" /\ node.else # 0 => node.then \notin open

\* A tree, and the nodes in it that would take an `else'.
IsTree(nds, open) ==
  /\ nds \in Seq(ASTNode(String, Value))
  /\ open \in SUBSET (1 .. Len(nds))
  /\ \A i \in 1 .. Len(nds) :
       /\ Children(nds[i]) \subseteq 0 .. i - 1
       /\ i \in open <=> TakesOne(nds[i], open)
       /\ Shaped(nds, open, nds[i])

Grown(nds, open, nds2, open2) ==
  /\ Len(nds) <= Len(nds2)
  /\ \A i \in 1 .. Len(nds) : nds2[i] = nds[i] /\ (i \in open2 <=> i \in open)
  /\ 0 \notin open /\ 0 \notin open2

LEMMA LevelFacts ==
  /\ \A l \in 1 .. 6 : \A op \in Level[l] : LevelOf(op) = l
  /\ \A op \in BinaryOp \cup LogicalOp : LevelOf(op) \in 1 .. 6 /\ op \in Level[LevelOf(op)]
<1>1. DOMAIN Level = 1 .. 6
  BY DEF Level
<1>2. ASSUME NEW l \in 1 .. 6, NEW k \in 1 .. 6, NEW op \in Level[l], op \in Level[k]
      PROVE  k = l
  <2>1. /\ Level[1] = {"Or"} /\ Level[2] = {"And"} /\ Level[3] = {"BangEqual", "EqualEqual"}
        /\ Level[4] = {"Greater", "GreaterEqual", "Less", "LessEqual"}
        /\ Level[5] = {"Minus", "Plus"} /\ Level[6] = {"Slash", "Star"}
    BY DEF Level
  <2>2. /\ l = 1 \/ l = 2 \/ l = 3 \/ l = 4 \/ l = 5 \/ l = 6
        /\ k = 1 \/ k = 2 \/ k = 3 \/ k = 4 \/ k = 5 \/ k = 6
    OBVIOUS
  <2> QED
    BY <1>2, <2>1, <2>2
<1>3. ASSUME NEW op \in BinaryOp \cup LogicalOp PROVE \E l \in 1 .. 6 : op \in Level[l]
  <2>1. /\ Level[1] = {"Or"} /\ Level[2] = {"And"} /\ Level[3] = {"BangEqual", "EqualEqual"}
        /\ Level[4] = {"Greater", "GreaterEqual", "Less", "LessEqual"}
        /\ Level[5] = {"Minus", "Plus"} /\ Level[6] = {"Slash", "Star"}
    BY DEF Level
  <2> QED
    BY <2>1 DEF BinaryOp, LogicalOp
<1>4. ASSUME NEW op, NEW l \in 1 .. 6, op \in Level[l]
      PROVE  LevelOf(op) \in 1 .. 6 /\ op \in Level[LevelOf(op)]
  BY <1>1, <1>4 DEF LevelOf
<1>5. ASSUME NEW l \in 1 .. 6, NEW op \in Level[l] PROVE LevelOf(op) = l
  BY <1>2, <1>4
<1> QED
  BY <1>3, <1>4, <1>5

LEMMA ChildFields ==
  ASSUME NEW node
  PROVE  /\ node.kind \in {"Binary", "Logical"} => {node.left, node.right} \subseteq Children(node)
         /\ node.kind = "Unary" => node.right \in Children(node)
         /\ node.kind = "Call" => node.callee \in Children(node)
         /\ node.kind = "If" => node.then \in Children(node) /\ node.else \in Children(node)
         /\ node.kind \in {"While", "For"} => node.body \in Children(node)
         /\ node.kind = "FuncDecl" => node.body \in Children(node)
         /\ ExprChildren(node) \subseteq Children(node)
         /\ StmtChildren(node) \subseteq Children(node)
<1>1. /\ node.kind \in {"Binary", "Logical"} => {node.left, node.right} \subseteq Children(node)
      /\ node.kind = "Unary" => node.right \in Children(node)
      /\ node.kind = "Call" => node.callee \in Children(node)
      /\ node.kind = "If" => /\ {node.cond, node.then, node.else} \subseteq Children(node)
      /\ node.kind = "While" => {node.cond, node.body} \subseteq Children(node)
      /\ node.kind = "For" => {node.init, node.cond, node.step, node.body} \subseteq Children(node)
      /\ node.kind = "FuncDecl" => node.body \in Children(node)
  BY DEF Children
<1>2. ExprChildren(node) \subseteq Children(node)
  BY <1>1 DEF ExprChildren
<1>3. StmtChildren(node) \subseteq Children(node)
  BY <1>1 DEF StmtChildren
<1> QED
  BY <1>1, <1>2, <1>3

LEMMA TightGrown ==
  ASSUME NEW nds, NEW open, NEW nds2, NEW open2, Grown(nds, open, nds2, open2),
         Len(nds) \in Nat, NEW k \in 0 .. Len(nds)
  PROVE  Tight(nds2, k) = Tight(nds, k)
<1>1. k # 0 => nds2[k] = nds[k]
  BY DEF Grown
<1> QED
  BY <1>1 DEF Tight

LEMMA SortedGrown ==
  ASSUME NEW nds, NEW open, NEW nds2, NEW open2, Grown(nds, open, nds2, open2),
         Len(nds) \in Nat, NEW node, Children(node) \subseteq 0 .. Len(nds),
         Sorted(nds, node)
  PROVE  Sorted(nds2, node)
<1>1. \A k \in 0 .. Len(nds) : /\ IsExpr(nds, k) => IsExpr(nds2, k)
                               /\ IsStmt(nds, k) => IsStmt(nds2, k)
                               /\ k # 0 => nds2[k] = nds[k]
  BY DEF Grown, IsExpr, IsStmt
<1>2. ExprChildren(node) \subseteq Children(node) /\ StmtChildren(node) \subseteq Children(node)
  BY ChildFields
<1>3. ASSUME NEW k \in ExprChildren(node) PROVE IsExpr(nds2, k)
  <2>1. k \in 0 .. Len(nds) /\ IsExpr(nds, k)
    BY <1>2 DEF Sorted
  <2> QED
    BY <1>1, <2>1
<1>4. ASSUME NEW k \in StmtChildren(node) PROVE IsStmt(nds2, k)
  <2>1. k \in 0 .. Len(nds) /\ IsStmt(nds, k)
    BY <1>2 DEF Sorted
  <2> QED
    BY <1>1, <2>1
<1>5. ASSUME node.kind = "FuncDecl" PROVE node.body # 0 /\ nds2[node.body].kind = "Block"
  <2>1. node.body \in 0 .. Len(nds) /\ node.body # 0 /\ nds[node.body].kind = "Block"
    BY <1>5, ChildFields DEF Sorted
  <2> QED
    BY <1>1, <2>1
<1> QED
  BY <1>3, <1>4, <1>5 DEF Sorted

LEMMA ShapedGrown ==
  ASSUME NEW nds, NEW open, NEW nds2, NEW open2, Grown(nds, open, nds2, open2),
         Len(nds) \in Nat, NEW node, Children(node) \subseteq 0 .. Len(nds),
         Shaped(nds, open, node)
  PROVE  Shaped(nds2, open2, node)
<1>1. \A k \in 0 .. Len(nds) : Tight(nds2, k) = Tight(nds, k)
  BY TightGrown
<1>2. \A k \in 0 .. Len(nds) : k \in open2 <=> k \in open
  BY DEF Grown
<1>3. Sorted(nds2, node)
  BY SortedGrown DEF Shaped
<1> QED
  BY <1>1, <1>2, <1>3, ChildFields DEF Shaped

LEMMA TakesGrown ==
  ASSUME NEW nds, NEW open, NEW nds2, NEW open2, Grown(nds, open, nds2, open2),
         Len(nds) \in Nat, NEW node, Children(node) \subseteq 0 .. Len(nds)
  PROVE  TakesOne(node, open2) <=> TakesOne(node, open)
<1>1. \A k \in 0 .. Len(nds) : k \in open2 <=> k \in open
  BY DEF Grown
<1> QED
  BY <1>1, ChildFields DEF TakesOne

LEMMA TreeAppended ==
  ASSUME NEW nds, NEW open, IsTree(nds, open), NEW node \in ASTNode(String, Value),
         Children(node) \subseteq 0 .. Len(nds), Shaped(nds, open, node)
  PROVE  \E open2 : /\ IsTree(Append(nds, node), open2)
                    /\ Grown(nds, open, Append(nds, node), open2)
<1> DEFINE n == Len(nds)
           nds2 == Append(nds, node)
           open2 == open \cup {i \in {n + 1} : TakesOne(node, open)}
<1>1. nds \in Seq(ASTNode(String, Value)) /\ n \in Nat /\ open \in SUBSET (1 .. n)
  BY DEF IsTree
<1>2. /\ nds2 \in Seq(ASTNode(String, Value)) /\ Len(nds2) = n + 1 /\ nds2[n + 1] = node
      /\ \A i \in 1 .. n : nds2[i] = nds[i]
  BY <1>1, AppendProperties
<1>3. /\ open2 \in SUBSET (1 .. n + 1) /\ (n + 1 \in open2 <=> TakesOne(node, open))
      /\ \A i \in 1 .. n : i \in open2 <=> i \in open
      /\ 0 \notin open /\ 0 \notin open2
  <2>1. \A i \in open : i \in 1 .. n /\ i \in 1 .. n + 1 /\ i # 0 /\ i # n + 1
    BY <1>1
  <2>2. n + 1 \in 1 .. n + 1 /\ n + 1 # 0 /\ \A i \in 1 .. n : i # n + 1
    BY <1>1
  <2> HIDE DEF n
  <2>3. \A i : i \in open2 <=> (i \in open \/ (i = n + 1 /\ TakesOne(node, open)))
    OBVIOUS
  <2> HIDE DEF open2
  <2> QED
    BY <2>1, <2>2, <2>3
<1> HIDE DEF nds2, open2
<1>4. Grown(nds, open, nds2, open2)
  BY <1>1, <1>2, <1>3 DEF Grown, n
<1>5. ASSUME NEW i \in 1 .. n + 1
      PROVE  /\ Children(nds2[i]) \subseteq 0 .. i - 1
             /\ i \in open2 <=> TakesOne(nds2[i], open2)
             /\ Shaped(nds2, open2, nds2[i])
  <2>1. CASE i \in 1 .. n
    <3>1. /\ Children(nds[i]) \subseteq 0 .. i - 1
          /\ i \in open <=> TakesOne(nds[i], open)
          /\ Shaped(nds, open, nds[i])
      BY <2>1 DEF IsTree
    <3>2. Children(nds[i]) \subseteq 0 .. n
      BY <1>1, <2>1, <3>1
    <3>3. Shaped(nds2, open2, nds[i]) /\ (TakesOne(nds[i], open2) <=> TakesOne(nds[i], open))
      BY <1>1, <1>4, <3>1, <3>2, ShapedGrown, TakesGrown
    <3> QED
      BY <1>2, <1>3, <2>1, <3>1, <3>3
  <2>2. CASE i = n + 1
    <3>1. i - 1 = n
      BY <1>1, <2>2
    <3>2. Shaped(nds2, open2, node) /\ (TakesOne(node, open2) <=> TakesOne(node, open))
      BY <1>1, <1>4, ShapedGrown, TakesGrown
    <3> QED
      BY <1>2, <1>3, <2>2, <3>1, <3>2
  <2> QED
    BY <1>1, <2>1, <2>2
<1>6. IsTree(nds2, open2)
  BY <1>2, <1>3, <1>5 DEF IsTree
<1> QED
  BY <1>4, <1>6 DEF nds2

\* Making a node: an old one or a new one.
LEMMA NodeMade ==
  ASSUME NEW open, IsTree(nodes, open), NEW node \in ASTNode(String, Value),
         Children(node) \subseteq 0 .. Len(nodes), Shaped(nodes, open, node),
         NEW n, Making(n, node)
  PROVE  \E at \in 1 .. Len(nodes') : \E open2 :
           /\ nodes'[at] = node
           /\ results' = Append(SubSeq(results, 1, Len(results) - n), at)
           /\ IsTree(nodes', open2) /\ Grown(nodes, open, nodes', open2)
<1> DEFINE same == {i \in DOMAIN nodes : nodes[i] = node}
           at == IF same = {} THEN Len(nodes) + 1 ELSE CHOOSE i \in same : TRUE
<1>1. /\ nodes' = IF same = {} THEN Append(nodes, node) ELSE nodes
      /\ results' = Append(SubSeq(results, 1, Len(results) - n), at)
  BY DEF Making
<1>2. /\ nodes \in Seq(ASTNode(String, Value)) /\ Len(nodes) \in Nat
      /\ DOMAIN nodes = 1 .. Len(nodes) /\ open \in SUBSET (1 .. Len(nodes))
  BY DEF IsTree
<1>3. CASE same = {}
  <2>1. nodes' = Append(nodes, node) /\ at = Len(nodes) + 1
    BY <1>1, <1>3
  <2> HIDE DEF same, at
  <2>2. Len(nodes') = Len(nodes) + 1 /\ nodes'[at] = node /\ at \in 1 .. Len(nodes')
    BY <1>2, <2>1, AppendProperties
  <2>3. PICK open2 : IsTree(Append(nodes, node), open2)
                     /\ Grown(nodes, open, Append(nodes, node), open2)
    BY TreeAppended
  <2> QED
    BY <1>1, <2>1, <2>2, <2>3
<1>4. CASE same # {}
  <2>1. at \in same /\ nodes' = nodes
    BY <1>1, <1>4
  <2>2. at \in 1 .. Len(nodes) /\ nodes[at] = node
    BY <1>2, <2>1
  <2>3. Grown(nodes, open, nodes, open)
    BY <1>2 DEF Grown
  <2> HIDE DEF at, same
  <2> QED
    BY <1>1, <2>1, <2>2, <2>3
<1> QED
  BY <1>3, <1>4

(***************************************************************************)
(* Results and their sorts.  No `else' comes next when it is calm.         *)
(***************************************************************************)

Fits(nds, open, calm, a, k) ==
  /\ k \in Nat
  /\ a.of = "name"    => k \in String
  /\ a.of = "expr"    => k \in 0 .. Len(nds) /\ IsExpr(nds, k) /\ Tight(nds, k) >= a.at
  /\ a.of = "stmt"    => k \in 1 .. Len(nds) /\ IsStmt(nds, k)
  /\ a.of = "perhaps" => k \in 0 .. Len(nds) /\ IsStmt(nds, k)
  /\ a.of = "shut"    => k \in 1 .. Len(nds) /\ IsStmt(nds, k) /\ k \notin open
  /\ a.of = "fresh"   => k \in 1 .. Len(nds) /\ IsStmt(nds, k) /\ (k \in open => calm)
  /\ a.of = "body"    => k \in 1 .. Len(nds) /\ nds[k].kind = "Block"
  /\ a.of = "absent"  => k = 0 /\ calm
  /\ a.of # "never"

Fit(nds, open, calm, s, r) ==
  /\ r \in Seq(Nat)
  /\ Len(s) = Len(r)
  /\ \A i \in 1 .. Len(s) : Fits(nds, open, calm, s[i], r[i])

Calm == Peek.kind # "Else"

\* The results are what the pending calls take them for.
WellTyped ==
  \E open : /\ IsTree(nodes, open)
            /\ \E s \in Seq(Sorts) : /\ Fit(nodes, open, Calm, s, results)
                                     /\ Does(todo, s, <<Never>>)

\* The same with the results that the innermost call takes, of the sorts t,
\* apart from the others; it leaves some of the sorts y.
Pending(open, base, t, y) ==
  /\ IsTree(nodes, open)
  /\ base \in Seq(Firm) /\ t \in Seq(Sorts) /\ y \in Seq(Sorts)
  /\ Fit(nodes, open, Calm, base \o t, results)
  /\ Does(Tail(todo), base \o y, <<Never>>)

LEMMA SortNames ==
  /\ Name.of = "name" /\ AnyStmt.of = "stmt" /\ Perhaps.of = "perhaps" /\ Shut.of = "shut"
  /\ Fresh.of = "fresh" /\ Absent.of = "absent" /\ Body.of = "body" /\ Never.of = "never"
  /\ \A l : Ex(l).of = "expr" /\ Ex(l).at = l
  BY DEF Name, AnyStmt, Perhaps, Shut, Fresh, Absent, Body, Never, Sort, Ex

LEMMA FitsSub ==
  ASSUME NEW nds, NEW open, NEW calm, NEW a \in Sorts, NEW b \in Sorts, NEW k,
         IsTree(nds, open), Fits(nds, open, calm, a, k), Sub(a, b)
  PROVE  Fits(nds, open, calm, b, k)
<1>1. CASE a = b
  BY <1>1
<1>2. CASE a.of = "expr" /\ b.of = "expr" /\ b.at <= a.at
  <2>1. \A x \in Sorts : x.of = "expr" => x.at \in Int
    BY DEF Sorts, Ex, Name, AnyStmt, Perhaps, Shut, Fresh, Absent, Body, Never, Sort
  <2>2. Tight(nds, k) \in Int
    <3>1. nds \in Seq(ASTNode(String, Value)) /\ k \in 0 .. Len(nds)
      BY <1>2 DEF IsTree, Fits
    <3>2. ASSUME NEW i \in 1 .. Len(nds), nds[i].kind \in {"Binary", "Logical"}
          PROVE  LevelOf(nds[i].op) \in Int
      <4>1. nds[i] \in ASTNode(String, Value)
        BY <3>1
      <4>2. nds[i].op \in BinaryOp \cup LogicalOp
        BY <3>2, <4>1 DEF ASTNode
      <4> QED
        BY <4>2, LevelFacts
    <3>3. k # 0 => k \in 1 .. Len(nds)
      BY <3>1
    <3> QED
      BY <3>2, <3>3 DEF Tight
  <2>3. Tight(nds, k) >= b.at
    BY <1>2, <2>1, <2>2 DEF Fits
  <2> QED
    BY <1>2, <2>3 DEF Fits
<1>3. CASE (a \in {Fresh, Shut} /\ b \in {AnyStmt, Perhaps}) \/ (a = AnyStmt /\ b = Perhaps)
  <2>1. a.of \in {"fresh", "shut", "stmt"} /\ b.of \in {"stmt", "perhaps"}
    BY <1>3, SortNames
  <2>2. k \in Nat /\ k \in 1 .. Len(nds)
    BY <2>1 DEF Fits
  <2>3. k \in 0 .. Len(nds)
    BY <2>2 DEF IsTree
  <2>4. IsStmt(nds, k)
    BY <2>1 DEF Fits
  <2> QED
    BY <2>1, <2>2, <2>3, <2>4 DEF Fits
<1>4. CASE a = Body /\ b \in {AnyStmt, Perhaps, Fresh}
  <2>1. a.of = "body" /\ b.of \in {"stmt", "perhaps", "fresh"}
    BY <1>4, SortNames
  <2>2. k \in Nat /\ k \in 1 .. Len(nds) /\ nds[k].kind = "Block"
    BY <2>1 DEF Fits
  <2>3. k \in 0 .. Len(nds)
    BY <2>2 DEF IsTree
  <2>4. IsStmt(nds, k)
    BY <2>2 DEF IsStmt, ExprKind
  <2>5. k \notin open
    BY <2>2 DEF IsTree, TakesOne
  <2> QED
    BY <2>1, <2>2, <2>3, <2>4, <2>5 DEF Fits
<1> QED
  BY <1>1, <1>2, <1>3, <1>4 DEF Sub

\* What is firm survives growth of the tree and moves of the cursor.
LEMMA FirmFits ==
  ASSUME NEW nds, NEW open, NEW calm, NEW nds2, NEW open2, NEW calm2, NEW a \in Firm, NEW k,
         IsTree(nds, open), IsTree(nds2, open2), Grown(nds, open, nds2, open2),
         Fits(nds, open, calm, a, k)
  PROVE  Fits(nds2, open2, calm2, a, k)
<1>1. /\ Len(nds) \in Nat /\ Len(nds2) \in Nat /\ Len(nds) <= Len(nds2)
      /\ \A i \in 1 .. Len(nds) : i \in open2 <=> i \in open
  BY DEF IsTree, Grown
<1>2. a.of # "fresh" /\ a.of # "absent"
  <2>1. \A l : Ex(l).of = "expr"
    BY SortNames
  <2>2. a \in Sorts /\ a # Fresh /\ a # Absent
    BY DEF Firm
  <2> QED
    BY <2>1, <2>2, SortNames DEF Sorts
<1>3. \A i \in 0 .. Len(nds) : Tight(nds2, i) = Tight(nds, i)
  BY <1>1, TightGrown
<1>4. 0 .. Len(nds) \subseteq 0 .. Len(nds2) /\ 1 .. Len(nds) \subseteq 1 .. Len(nds2)
  BY <1>1
<1>5. \A i \in 1 .. Len(nds) : nds2[i] = nds[i]
  BY DEF Grown
<1>6. /\ \A i \in 1 .. Len(nds) : IsStmt(nds, i) => IsStmt(nds2, i)
      /\ \A i \in 0 .. Len(nds) : (IsStmt(nds, i) => IsStmt(nds2, i))
                                 /\ (IsExpr(nds, i) => IsExpr(nds2, i))
  BY <1>1, <1>5 DEF IsStmt, IsExpr
<1> QED
  BY <1>1, <1>2, <1>3, <1>4, <1>5, <1>6 DEF Fits

LEMMA FitWeaker ==
  ASSUME NEW nds, NEW open, NEW calm, IsTree(nds, open),
         NEW base \in Seq(Sorts), NEW x \in Seq(Sorts), NEW t \in Seq(Sorts), Below(x, t),
         NEW r, Fit(nds, open, calm, base \o x, r)
  PROVE  Fit(nds, open, calm, base \o t, r)
<1>1. /\ base \o x \in Seq(Sorts) /\ Len(base \o x) = Len(base) + Len(x)
      /\ \A i \in 1 .. Len(base) + Len(x) :
           (base \o x)[i] = IF i <= Len(base) THEN base[i] ELSE x[i - Len(base)]
  BY ConcatProperties
<1>2. /\ base \o t \in Seq(Sorts) /\ Len(base \o t) = Len(base) + Len(t)
      /\ \A i \in 1 .. Len(base) + Len(t) :
           (base \o t)[i] = IF i <= Len(base) THEN base[i] ELSE t[i - Len(base)]
  BY ConcatProperties
<1>3. Len(x) = Len(t) /\ Len(x) \in Nat /\ Len(base) \in Nat
  BY DEF Below
<1>4. ASSUME NEW i \in 1 .. Len(base \o t) PROVE Fits(nds, open, calm, (base \o t)[i], r[i])
  <2>1. Fits(nds, open, calm, (base \o x)[i], r[i]) /\ i \in 1 .. Len(base) + Len(x)
    BY <1>1, <1>2, <1>3 DEF Fit
  <2>2. CASE i <= Len(base)
    BY <1>1, <1>2, <1>3, <2>1, <2>2
  <2>3. CASE ~ (i <= Len(base))
    <3>1. i - Len(base) \in 1 .. Len(x)
      BY <1>3, <2>1, <2>3
    <3>2. /\ x[i - Len(base)] \in Sorts /\ t[i - Len(base)] \in Sorts
          /\ Sub(x[i - Len(base)], t[i - Len(base)])
      BY <1>3, <3>1 DEF Below
    <3>3. (base \o x)[i] = x[i - Len(base)] /\ (base \o t)[i] = t[i - Len(base)]
      BY <1>1, <1>2, <1>3, <2>1, <2>3
    <3> QED
      BY <2>1, <3>2, <3>3, FitsSub
  <2> QED
    BY <2>2, <2>3
<1> QED
  BY <1>1, <1>2, <1>3, <1>4 DEF Fit

LEMMA FirmFit ==
  ASSUME NEW nds, NEW open, NEW calm, NEW nds2, NEW open2, NEW calm2,
         IsTree(nds, open), IsTree(nds2, open2), Grown(nds, open, nds2, open2),
         NEW s \in Seq(Firm), NEW r, Fit(nds, open, calm, s, r)
  PROVE  Fit(nds2, open2, calm2, s, r)
<1>1. \A i \in 1 .. Len(s) : s[i] \in Firm
  OBVIOUS
<1>2. \A i \in 1 .. Len(s) : Fits(nds, open, calm, s[i], r[i])
  BY DEF Fit
<1>3. \A i \in 1 .. Len(s) : Fits(nds2, open2, calm2, s[i], r[i])
  BY <1>1, <1>2, FirmFits
<1> QED
  BY <1>3 DEF Fit

LEMMA SameTree ==
  ASSUME NEW nds, NEW open, IsTree(nds, open)
  PROVE  Grown(nds, open, nds, open)
  BY DEF IsTree, Grown

(***************************************************************************)
(* Steps of the parser, by what they do to the records and the results.    *)
(***************************************************************************)

LEMMA NeverEmpty ==
  ASSUME WellTyped
  PROVE  todo \in Seq(Record) /\ todo # <<>>
<1>1. PICK open : /\ IsTree(nodes, open)
                  /\ \E s \in Seq(Sorts) : /\ Fit(nodes, open, Calm, s, results)
                                           /\ Does(todo, s, <<Never>>)
  BY DEF WellTyped
<1>2. PICK s \in Seq(Sorts) : Fit(nodes, open, Calm, s, results) /\ Does(todo, s, <<Never>>)
  BY <1>1
<1>3. ASSUME todo = <<>> PROVE FALSE
  <2>1. s = <<Never>>
    <3>1. Len(todo) = 0
      BY <1>3
    <3> QED
      BY <1>2, <3>1 DEF Does
  <2>2. Fits(nodes, open, Calm, Never, results[1])
    <3>1. Len(s) = 1 /\ s[1] = Never /\ 1 \in 1 .. Len(s)
      BY <2>1
    <3> QED
      BY <1>2, <3>1 DEF Fit
  <2> QED
    BY <2>2, SortNames DEF Fits
<1> QED
  BY <1>2, <1>3 DEF Does

LEMMA HeadPending ==
  ASSUME WellTyped
  PROVE  /\ Head(todo) \in Record
         /\ \E open, base, x, y : \E sig \in Signature(Head(todo)) :
              /\ Below(x, sig.takes) /\ Below(sig.gives, y)
              /\ Pending(open, base, x, y)
<1>1. PICK open : /\ IsTree(nodes, open)
                  /\ \E s \in Seq(Sorts) : /\ Fit(nodes, open, Calm, s, results)
                                           /\ Does(todo, s, <<Never>>)
  BY DEF WellTyped
<1>2. PICK s \in Seq(Sorts) : Fit(nodes, open, Calm, s, results) /\ Does(todo, s, <<Never>>)
  BY <1>1
<1>3. todo \in Seq(Record) /\ todo # <<>>
  BY NeverEmpty
<1>4. PICK m \in Seq(Sorts) : Step(Head(todo), s, m) /\ Does(Tail(todo), m, <<Never>>)
  BY <1>2, <1>3, DoesHead
<1>5. PICK base \in Seq(Firm), x \in Seq(Sorts), y \in Seq(Sorts) :
        \E sig \in Signature(Head(todo)) :
          /\ s = base \o x /\ m = base \o y
          /\ Below(x, sig.takes) /\ Below(sig.gives, y)
  BY <1>4 DEF Step
<1>6. Pending(open, base, x, y)
  BY <1>1, <1>2, <1>4, <1>5 DEF Pending
<1>7. Head(todo) \in Record
  BY <1>3
<1> QED
  BY <1>5, <1>6, <1>7

LEMMA PendingWeaker ==
  ASSUME NEW open, NEW base, NEW x, NEW y, Pending(open, base, x, y),
         NEW t \in Seq(Sorts), Below(x, t)
  PROVE  Pending(open, base, t, y)
<1>1. base \in Seq(Sorts) /\ x \in Seq(Sorts)
  BY FirmSeq DEF Pending
<1> QED
  BY <1>1, FitWeaker DEF Pending

LEMMA BelowOne ==
  ASSUME NEW g, NEW y \in Seq(Sorts), Below(<<g>>, y)
  PROVE  \E b \in Sorts : y = <<b>> /\ Sub(g, b)
<1>1. Len(y) = 1 /\ Sub(g, y[1])
  <2>1. Len(<<g>>) = 1 /\ <<g>>[1] = g /\ 1 \in 1 .. Len(<<g>>)
    OBVIOUS
  <2> QED
    BY <2>1 DEF Below
<1>2. y[1] \in Sorts /\ y = <<y[1]>>
  BY <1>1
<1> QED
  BY <1>1, <1>2

\* A call with one signature, that leaves one result.
LEMMA HeadOne ==
  ASSUME WellTyped, NEW t \in Seq(Sorts), NEW g,
         \A sig \in Signature(Head(todo)) : sig = Sig(t, <<g>>)
  PROVE  \E open, base : \E b \in Sorts : Sub(g, b) /\ Pending(open, base, t, <<b>>)
<1>1. PICK open, base, x, y : \E sig \in Signature(Head(todo)) :
        /\ Below(x, sig.takes) /\ Below(sig.gives, y)
        /\ Pending(open, base, x, y)
  BY HeadPending
<1>2. Below(x, t) /\ Below(<<g>>, y)
  BY <1>1 DEF Sig
<1>3. Pending(open, base, t, y) /\ y \in Seq(Sorts)
  BY <1>1, <1>2, PendingWeaker DEF Pending
<1>4. PICK b \in Sorts : y = <<b>> /\ Sub(g, b)
  BY <1>2, <1>3, BelowOne
<1> QED
  BY <1>3, <1>4

LEMMA HeadSigned ==
  ASSUME WellTyped
  PROVE  Head(todo) \in Record /\ Signature(Head(todo)) # {}
  BY HeadPending

\* The call becomes others, which take the same results.
LEMMA Called ==
  ASSUME NEW open, NEW base, NEW t, NEW y, Pending(open, base, t, y),
         NEW records, Does(records, t, y), Become(records),
         UNCHANGED <<tokens, nodes, results>>,
         current' = current \/ t \in Seq(Firm)
  PROVE  WellTyped'
<1>1. /\ IsTree(nodes, open) /\ base \in Seq(Firm) /\ t \in Seq(Sorts)
      /\ Fit(nodes, open, Calm, base \o t, results)
      /\ Does(Tail(todo), base \o y, <<Never>>)
  BY DEF Pending
<1>2. Does(records, base \o t, base \o y)
  BY <1>1, DoesFrame
<1>3. Does(records \o Tail(todo), base \o t, <<Never>>)
  BY <1>1, <1>2, DoesConcat
<1>4. base \o t \in Seq(Sorts)
  BY <1>1, FrameConcat
<1>5. Fit(nodes, open, Calm', base \o t, results)
  <2>1. CASE current' = current
    <3>1. Calm' <=> Calm
      BY <2>1 DEF Calm, Peek
    <3> QED
      BY <1>1, <3>1 DEF Fit, Fits
  <2>2. CASE t \in Seq(Firm)
    <3>1. base \o t \in Seq(Firm)
      BY <1>1, <2>2, ConcatProperties
    <3> QED
      BY <1>1, <3>1, SameTree, FirmFit
  <2> QED
    BY <2>1, <2>2
<1>6. IsTree(nodes', open) /\ Fit(nodes', open, Calm', base \o t, results')
  BY <1>1, <1>5
<1>7. Does(todo', base \o t, <<Never>>)
  BY <1>3 DEF Become
<1> QED
  BY <1>4, <1>6, <1>7 DEF WellTyped

\* The call returns a result in the place of those it takes.
LEMMA Returned ==
  ASSUME NEW open, NEW base, NEW t, NEW b \in Sorts, Pending(open, base, t, <<b>>),
         NEW g \in Sorts, Sub(g, b), NEW open2, IsTree(nodes', open2),
         Grown(nodes, open, nodes', open2),
         NEW k \in Nat, Fits(nodes', open2, Calm', g, k),
         results' = Append(SubSeq(results, 1, Len(results) - Len(t)), k),
         Become(<<>>)
  PROVE  WellTyped'
<1>1. /\ IsTree(nodes, open) /\ base \in Seq(Firm) /\ t \in Seq(Sorts)
      /\ Fit(nodes, open, Calm, base \o t, results)
      /\ Does(Tail(todo), base \o <<b>>, <<Never>>)
  BY DEF Pending
<1>2. base \in Seq(Sorts) /\ Len(base) \in Nat /\ Len(t) \in Nat
  BY <1>1, FirmSeq
<1>3. /\ Len(base \o t) = Len(base) + Len(t)
      /\ \A i \in 1 .. Len(base) : (base \o t)[i] = base[i]
  <2>1. /\ Len(base \o t) = Len(base) + Len(t)
        /\ \A i \in 1 .. Len(base) + Len(t) :
             (base \o t)[i] = IF i <= Len(base) THEN base[i] ELSE t[i - Len(base)]
    BY <1>1, <1>2, ConcatProperties
  <2> QED
    BY <1>2, <2>1
<1>4. results \in Seq(Nat) /\ Len(results) - Len(t) = Len(base) /\ Len(base) \in 0 .. Len(results)
  BY <1>1, <1>2, <1>3 DEF Fit
<1> DEFINE kept == SubSeq(results, 1, Len(base))
<1>5. /\ kept \in Seq(Nat) /\ Len(kept) = Len(base)
      /\ \A i \in 1 .. Len(base) : kept[i] = results[i]
  BY <1>4, PrefixFacts
<1> HIDE DEF kept
<1>6. Fit(nodes, open, Calm, base, kept)
  <2>1. \A i \in 1 .. Len(base) : i \in 1 .. Len(base \o t)
    BY <1>2, <1>3
  <2>2. \A i \in 1 .. Len(base) : Fits(nodes, open, Calm, base[i], kept[i])
    BY <1>1, <1>3, <1>5, <2>1 DEF Fit
  <2> QED
    BY <1>5, <2>2 DEF Fit
<1>7. Fit(nodes', open2, Calm', base, kept)
  BY <1>1, <1>6, FirmFit
<1>8. Fits(nodes', open2, Calm', b, k)
  BY FitsSub
<1>9. results' = Append(kept, k)
  BY <1>4 DEF kept
<1>10. /\ Append(base, b) \in Seq(Sorts) /\ Len(Append(base, b)) = Len(base) + 1
       /\ Append(base, b)[Len(base) + 1] = b
       /\ \A i \in 1 .. Len(base) : Append(base, b)[i] = base[i]
  BY <1>2, AppendProperties
<1>11. /\ Append(kept, k) \in Seq(Nat) /\ Len(Append(kept, k)) = Len(base) + 1
       /\ Append(kept, k)[Len(base) + 1] = k
       /\ \A i \in 1 .. Len(base) : Append(kept, k)[i] = kept[i]
  BY <1>5, AppendProperties
<1>12. Fit(nodes', open2, Calm', Append(base, b), results')
  <2>1. \A i \in 1 .. Len(base) + 1 : i \in 1 .. Len(base) \/ i = Len(base) + 1
    BY <1>2
  <2>2. \A i \in 1 .. Len(base) : Fits(nodes', open2, Calm', base[i], kept[i])
    BY <1>7 DEF Fit
  <2>3. \A i \in 1 .. Len(base) + 1 :
          Fits(nodes', open2, Calm', Append(base, b)[i], Append(kept, k)[i])
    BY <1>8, <1>10, <1>11, <2>1, <2>2
  <2> QED
    BY <1>9, <1>10, <1>11, <2>3 DEF Fit
<1>13. Does(todo', Append(base, b), <<Never>>)
  <2>1. Tail(todo) \in Seq(Record)
    BY <1>1 DEF Does
  <2>2. todo' = Tail(todo)
    BY <2>1, ConcatEmptySeq DEF Become
  <2>3. base \o <<b>> = Append(base, b)
    BY <1>1, FramePush
  <2> QED
    BY <1>1, <2>2, <2>3
<1> QED
  BY <1>10, <1>12, <1>13 DEF WellTyped

(***************************************************************************)
(* The inductive invariant.                                                *)
(***************************************************************************)

CursorFits ==
  /\ tokens \in Seq(Token \cup {Eof})
  /\ Len(tokens) \in Nat \ {0} /\ tokens[Len(tokens)].kind = "Eof"
  /\ \A i \in 1 .. Len(tokens) :
       /\ tokens[i].literal \in Value
       /\ tokens[i].kind = "Identifier" => tokens[i].literal.kind = "String"
  /\ current \in 0 .. Len(tokens) - 1

Outcome == {"parsing", "done", "invalid_argument", "runtime_error", "undefined"}

ParserInv == CursorFits /\ parsed \in Outcome /\ WellTyped

LEMMA CursorMoves ==
  ASSUME CursorFits, tokens' = tokens,
         current' = current \/ (current' = current + 1 /\ Peek.kind # "Eof")
  PROVE  CursorFits'
<1>1. Len(tokens) \in Nat \ {0} /\ current \in 0 .. Len(tokens) - 1
  BY DEF CursorFits
<1>2. current' \in 0 .. Len(tokens) - 1
  <2>1. CASE current' = current
    BY <1>1, <2>1
  <2>2. CASE current' = current + 1 /\ Peek.kind # "Eof"
    <3>1. current + 1 # Len(tokens)
      BY <2>2 DEF CursorFits, Peek
    <3> QED
      BY <1>1, <2>2, <3>1
  <2> QED
    BY <2>1, <2>2
<1> QED
  BY <1>2 DEF CursorFits

\* What the next token stands for.
LEMMA PeekFacts ==
  ASSUME CursorFits
  PROVE  /\ Peek.literal \in Value
         /\ Peek.kind = "Identifier" => Peek.literal.val \in String
<1>1. current + 1 \in 1 .. Len(tokens)
  BY DEF CursorFits
<1>2. /\ Peek.literal \in Value
      /\ Peek.kind = "Identifier" => Peek.literal.kind = "String"
  BY <1>1 DEF CursorFits, Peek
<1>3. \A v \in Value : v.kind = "String" => v.val \in String
  BY DEF Value, Null, Undefined
<1> QED
  BY <1>2, <1>3

LEMMA FailKeeps ==
  ASSUME ParserInv, NEW why \in Outcome, Fail(why)
  PROVE  ParserInv'
<1>1. WellTyped'
  BY DEF ParserInv, Fail, WellTyped, Calm, Peek
<1>2. CursorFits'
  BY DEF ParserInv, Fail, CursorFits
<1> QED
  BY <1>1, <1>2 DEF Fail, ParserInv

\* A call that becomes others.
LEMMA CallKeeps ==
  ASSUME ParserInv, NEW open, NEW base, NEW t, NEW y, Pending(open, base, t, y),
         NEW records, Does(records, t, y), Become(records), Calling,
         Stay \/ (Advance /\ Peek.kind # "Eof" /\ t \in Seq(Firm))
  PROVE  ParserInv'
<1>1. /\ UNCHANGED <<tokens, nodes, results>> /\ parsed' = parsed
      /\ current' = current \/ t \in Seq(Firm)
      /\ current' = current \/ (current' = current + 1 /\ Peek.kind # "Eof")
  BY DEF Calling, Stay, Advance
<1>2. WellTyped'
  BY <1>1, Called
<1>3. CursorFits'
  BY <1>1, CursorMoves DEF ParserInv
<1> QED
  BY <1>1, <1>2, <1>3 DEF ParserInv

\* A call that returns a result that was there before.
LEMMA ReturnKeeps ==
  ASSUME ParserInv, NEW open, NEW base, NEW b \in Sorts, Pending(open, base, <<>>, <<b>>),
         NEW g \in Sorts, Sub(g, b), NEW k, Fits(nodes, open, Calm', g, k),
         Returning(k), Become(<<>>),
         Stay \/ (Advance /\ Peek.kind # "Eof")
  PROVE  ParserInv'
<1>1. /\ UNCHANGED <<tokens, nodes>> /\ parsed' = parsed /\ results' = Append(results, k)
      /\ current' = current \/ (current' = current + 1 /\ Peek.kind # "Eof")
  BY DEF Returning, Stay, Advance
<1>2. IsTree(nodes', open) /\ Grown(nodes, open, nodes', open)
  BY <1>1, SameTree DEF Pending
<1>3. Fits(nodes', open, Calm', g, k) /\ k \in Nat
  BY <1>1 DEF Fits
<1>4. results' = Append(SubSeq(results, 1, Len(results) - Len(<<>>)), k)
  <2>1. results \in Seq(Nat)
    BY DEF Pending, Fit
  <2>2. Len(results) - Len(<<>>) = Len(results) /\ SubSeq(results, 1, Len(results)) = results
    BY <2>1, SubSeqFull
  <2> QED
    BY <1>1, <2>2
<1>5. WellTyped'
  BY <1>2, <1>3, <1>4, Returned
<1>6. CursorFits'
  BY <1>1, CursorMoves DEF ParserInv
<1> QED
  BY <1>1, <1>5, <1>6 DEF ParserInv

\* A call that returns a node.
LEMMA MakeKeeps ==
  ASSUME ParserInv, NEW open, NEW base, NEW t, NEW b \in Sorts, Pending(open, base, t, <<b>>),
         NEW g \in Sorts, Sub(g, b),
         NEW node \in ASTNode(String, Value),
         Children(node) \subseteq 0 .. Len(nodes), Shaped(nodes, open, node),
         Making(Len(t), node), Become(<<>>),
         Stay \/ (Advance /\ Peek.kind # "Eof"),
         \A at \in 1 .. Len(nodes') : \A open2 :
           nodes'[at] = node /\ IsTree(nodes', open2) /\ Grown(nodes, open, nodes', open2)
             => Fits(nodes', open2, Calm', g, at)
  PROVE  ParserInv'
<1>1. UNCHANGED <<tokens, parsed>>
  BY DEF Making
<1>2. IsTree(nodes, open)
  BY DEF Pending
<1>3. PICK at \in 1 .. Len(nodes') : \E open2 :
        /\ nodes'[at] = node
        /\ results' = Append(SubSeq(results, 1, Len(results) - Len(t)), at)
        /\ IsTree(nodes', open2) /\ Grown(nodes, open, nodes', open2)
  BY <1>2, NodeMade
<1>4. PICK open2 :
        /\ nodes'[at] = node
        /\ results' = Append(SubSeq(results, 1, Len(results) - Len(t)), at)
        /\ IsTree(nodes', open2) /\ Grown(nodes, open, nodes', open2)
  BY <1>3
<1>5. Fits(nodes', open2, Calm', g, at) /\ at \in Nat
  BY <1>4
<1>6. WellTyped'
  BY <1>4, <1>5, Returned
<1>7. current' = current \/ (current' = current + 1 /\ Peek.kind # "Eof")
  BY DEF Stay, Advance
<1>8. CursorFits'
  BY <1>1, <1>7, CursorMoves DEF ParserInv
<1> QED
  BY <1>1, <1>6, <1>8 DEF ParserInv

(***************************************************************************)
(* Every step keeps the invariant.  First statements.                      *)
(***************************************************************************)

\* A list of statements that forgets its last one.
LEMMA PopKeeps ==
  ASSUME ParserInv, NEW open, NEW base, NEW t \in Seq(Firm), NEW a \in Sorts, NEW y,
         Pending(open, base, Append(t, a), y),
         NEW records, Does(records, t, y), Become(records), Stay,
         results' = Front(results), UNCHANGED <<tokens, nodes, parsed>>
  PROVE  ParserInv'
<1>1. /\ IsTree(nodes, open) /\ base \in Seq(Firm) /\ Append(t, a) \in Seq(Sorts)
      /\ Fit(nodes, open, Calm, base \o Append(t, a), results)
      /\ Does(Tail(todo), base \o y, <<Never>>)
  BY DEF Pending
<1>2. base \in Seq(Sorts) /\ t \in Seq(Sorts) /\ Len(base) \in Nat /\ Len(t) \in Nat
  BY <1>1, FirmSeq
<1> DEFINE s == base \o t
           u == Append(t, a)
<1>3. /\ Len(u) = Len(t) + 1 /\ \A i \in 1 .. Len(t) : u[i] = t[i]
  BY <1>2, AppendProperties
<1>4. /\ Len(base \o u) = Len(base) + Len(u)
      /\ \A i \in 1 .. Len(base) + Len(u) :
           (base \o u)[i] = IF i <= Len(base) THEN base[i] ELSE u[i - Len(base)]
  BY <1>1, <1>2, ConcatProperties
<1>5. /\ s \in Seq(Sorts) /\ Len(s) = Len(base) + Len(t)
      /\ \A i \in 1 .. Len(base) + Len(t) :
           s[i] = IF i <= Len(base) THEN base[i] ELSE t[i - Len(base)]
  BY <1>2, ConcatProperties
<1>6. Fit(nodes, open, Calm, base \o u, results)
  BY <1>1
<1>7. results \in Seq(Nat) /\ Len(results) = Len(base) + Len(t) + 1
  BY <1>2, <1>3, <1>4, <1>6 DEF Fit
<1>8. results # <<>>
  BY <1>2, <1>7
<1>9. /\ Front(results) \in Seq(Nat) /\ Len(Front(results)) = Len(results) - 1
      /\ \A i \in 1 .. Len(results) - 1 : Front(results)[i] = results[i]
  BY <1>7, <1>8, FrontFacts
<1> HIDE DEF s, u
<1>10. ASSUME NEW i \in 1 .. Len(s) PROVE Fits(nodes, open, Calm, s[i], Front(results)[i])
  <2>1. /\ i \in 1 .. Len(base) + Len(u) /\ i \in 1 .. Len(base) + Len(t)
        /\ i \in 1 .. Len(results) - 1
    BY <1>2, <1>3, <1>5, <1>7
  <2>2. Fits(nodes, open, Calm, (base \o u)[i], results[i])
    BY <1>4, <1>6, <2>1 DEF Fit
  <2>3. (base \o u)[i] = s[i]
    <3>1. CASE i <= Len(base)
      BY <1>4, <1>5, <2>1, <3>1
    <3>2. CASE ~ (i <= Len(base))
      <4>1. i - Len(base) \in 1 .. Len(t)
        BY <1>2, <2>1, <3>2
      <4> QED
        BY <1>3, <1>4, <1>5, <2>1, <3>2, <4>1
    <3> QED
      BY <3>1, <3>2
  <2> QED
    BY <1>9, <2>1, <2>2, <2>3
<1>11. Fit(nodes, open, Calm, s, Front(results))
  BY <1>2, <1>5, <1>7, <1>9, <1>10 DEF Fit
<1>12. Calm' <=> Calm
  BY DEF Calm, Peek, Stay
<1>13. Fit(nodes', open, Calm', s, results')
  BY <1>11, <1>12 DEF Fit, Fits
<1>14. Does(records \o Tail(todo), base \o t, <<Never>>)
  BY <1>1, DoesFrame, DoesConcat
<1>15. Does(todo', s, <<Never>>)
  BY <1>14 DEF Become, s
<1>16. WellTyped'
  BY <1>1, <1>5, <1>13, <1>15 DEF WellTyped
<1>17. CursorFits'
  BY CursorMoves DEF ParserInv, Stay
<1> QED
  BY <1>16, <1>17 DEF ParserInv

LEMMA StatementsKeep ==
  ASSUME ParserInv, ParseStatements
  PROVE  ParserInv'
<1> DEFINE list == Head(todo)
           n == list.count
           g == IF list.of = "Program" THEN Never ELSE Body
           t == Times(n, AnyStmt)
<1>1. list.do = "statements" /\ list \in Record
  BY HeadSigned DEF ParseStatements, At, ParserInv
<1>2. /\ list.of \in {"Program", "Block"} /\ n \in Nat /\ list = Statements(list.of, n)
  BY <1>1 DEF Record, Calls, Statements
<1>3. t \in Seq(Firm) /\ t \in Seq(Sorts)
  BY <1>2, TimesFacts
<1>4. \A sig \in Signature(list) : sig = Sig(t, <<g>>)
  BY <1>1 DEF Signature
<1> HIDE DEF t, g
<1>5. PICK open, base : \E b \in Sorts : Sub(g, b) /\ Pending(open, base, t, <<b>>)
  BY <1>3, <1>4, HeadOne DEF ParserInv
<1>6. PICK b \in Sorts : Sub(g, b) /\ Pending(open, base, t, <<b>>)
  BY <1>5
<1>7. <<b>> \in Seq(Sorts) /\ Below(IF list.of = "Program" THEN <<Never>> ELSE <<Body>>, <<b>>)
  BY <1>6, SmallStacks, OneBelow DEF g
<1>8. CASE Peek.kind # "Eof" /\ ~(list.of = "Block" /\ Check("RBrace"))
  <2>1. Stay /\ UNCHANGED <<tokens, nodes, parsed>>
    BY <1>8 DEF ParseStatements
  <2>2. CASE n < MaxStmts \/ nodes[Last(results)] # ExprStmt(0)
    <3>1. Become(<<Do("decl"), Statements(list.of, n + 1)>>) /\ results' = results
      BY <1>8, <2>2 DEF ParseStatements
    <3>2. Does(<<Do("decl"), Statements(list.of, n + 1)>>, t, <<b>>)
      BY <1>2, <1>7, StatementsGoOn DEF t
    <3> QED
      BY <1>6, <2>1, <3>1, <3>2, CallKeeps DEF Calling
  <2>3. CASE ~ (n < MaxStmts \/ nodes[Last(results)] # ExprStmt(0))
    <3>1. Become(<<Do("decl"), list>>) /\ results' = Front(results)
      BY <1>8, <2>3 DEF ParseStatements
    <3>2. n - 1 \in Nat /\ (n - 1) + 1 = n
      BY <1>2, <2>3 DEF ParserInv, CursorFits, MaxStmts
    <3>3. /\ Times(n - 1, AnyStmt) \in Seq(Firm)
          /\ Append(Times(n - 1, AnyStmt), AnyStmt) = t
      BY <3>2, TimesFacts DEF t
    <3>4. Does(<<Do("decl"), Statements(list.of, (n - 1) + 1)>>, Times(n - 1, AnyStmt), <<b>>)
      BY <1>2, <1>7, <3>2, StatementsGoOn
    <3>5. Does(<<Do("decl"), list>>, Times(n - 1, AnyStmt), <<b>>)
      BY <1>2, <3>2, <3>4
    <3> QED
      BY <1>6, <2>1, <3>1, <3>3, <3>5, SomeSorts, PopKeeps
  <2> QED
    BY <2>2, <2>3
<1>9. CASE ~(Peek.kind # "Eof" /\ ~(list.of = "Block" /\ Check("RBrace"))) /\ list.of = "Block"
  <2>1. Stay /\ Become(<<Consume("RBrace"), BuildList("Block", n)>>) /\ Calling
    BY <1>9 DEF ParseStatements
  <2>2. Does(<<Consume("RBrace"), BuildList("Block", n)>>, t, <<b>>)
    BY <1>2, <1>6, <1>9, BlockEnds DEF t, g
  <2> QED
    BY <1>6, <2>1, <2>2, CallKeeps
<1>10. CASE ~(Peek.kind # "Eof" /\ ~(list.of = "Block" /\ Check("RBrace"))) /\ list.of # "Block"
  <2>1. Fail("done")
    BY <1>10 DEF ParseStatements, Fail
  <2> QED
    BY <2>1, FailKeeps DEF Outcome
<1> QED
  BY <1>8, <1>9, <1>10

LEMMA DeclKeeps ==
  ASSUME ParserInv, ParseDecl
  PROVE  ParserInv'
<1>1. \A sig \in Signature(Head(todo)) : sig = Sig(<<>>, <<Fresh>>)
  BY DEF ParseDecl, At, Signature
<1>2. PICK open, base : \E b \in Sorts : Sub(Fresh, b) /\ Pending(open, base, <<>>, <<b>>)
  BY <1>1, SmallStacks, HeadOne DEF ParserInv
<1>3. PICK b \in Sorts : Sub(Fresh, b) /\ Pending(open, base, <<>>, <<b>>)
  BY <1>2
<1>4. CASE Check("Var") \/ Check("Let")
  <2>1. Advance /\ Become(Rule.Var) /\ Calling /\ Peek.kind # "Eof"
    BY <1>4 DEF ParseDecl, Check
  <2>2. Does(Rule.Var, <<>>, <<b>>)
    BY <1>3, VarDoes
  <2> QED
    BY <1>3, <2>1, <2>2, SmallStacks, CallKeeps
<1>5. CASE ~ (Check("Var") \/ Check("Let"))
  <2>1. Stay /\ Become(<<Do("stmt")>>) /\ Calling
    BY <1>5 DEF ParseDecl
  <2>2. Does(<<Do("stmt")>>, <<>>, <<b>>)
    <3>1. Step(Do("stmt"), <<>>, <<b>>)
      BY <1>3, DoSignatures, SomeSorts, StepPushes
    <3> QED
      BY <3>1, DoRecords, SmallStacks, DoesOne
  <2> QED
    BY <1>3, <2>1, <2>2, CallKeeps
<1> QED
  BY <1>4, <1>5

LEMMA StmtKeeps ==
  ASSUME ParserInv, ParseStmt
  PROVE  ParserInv'
<1>1. \A sig \in Signature(Head(todo)) : sig = Sig(<<>>, <<Fresh>>)
  BY DEF ParseStmt, At, Signature
<1>2. PICK open, base : \E b \in Sorts : Sub(Fresh, b) /\ Pending(open, base, <<>>, <<b>>)
  BY <1>1, SmallStacks, HeadOne DEF ParserInv
<1>3. PICK b \in Sorts : Sub(Fresh, b) /\ Pending(open, base, <<>>, <<b>>)
  BY <1>2
<1>4. CASE Peek.kind \in DOMAIN Rule \ {"Var"}
  <2>1. Advance /\ Become(Rule[Peek.kind]) /\ Calling
    BY <1>4 DEF ParseStmt
  <2>2. Peek.kind # "Eof" /\ Peek.kind \in DOMAIN Rule
    BY <1>4 DEF Rule
  <2>3. Does(Rule[Peek.kind], <<>>, <<b>>)
    BY <1>3, <2>2, RuleDoes
  <2> QED
    BY <1>3, <2>1, <2>2, <2>3, SmallStacks, CallKeeps
<1>5. CASE ~ (Peek.kind \in DOMAIN Rule \ {"Var"})
  <2>1. Stay /\ Become(ExprStatement) /\ Calling
    BY <1>5 DEF ParseStmt
  <2>2. Does(ExprStatement, <<>>, <<b>>)
    BY <1>3, ExprStatementDoes
  <2> QED
    BY <1>3, <2>1, <2>2, CallKeeps
<1> QED
  BY <1>4, <1>5

LEMMA ConsumeKeeps ==
  ASSUME ParserInv, ParseConsume
  PROVE  ParserInv'
<1> DEFINE kind == Head(todo).kind
<1>1. Head(todo).do = "consume" /\ Head(todo) \in Record
  BY HeadSigned DEF ParseConsume, At, ParserInv
<1>2. CASE ~Check(kind)
  <2>1. Fail("invalid_argument")
    BY <1>2 DEF ParseConsume
  <2> QED
    BY <2>1, FailKeeps DEF Outcome
<1>3. CASE Check(kind) /\ kind = "Identifier"
  <2>1. Advance /\ Become(<<>>) /\ Returning(Peek.literal.val) /\ Peek.kind = "Identifier"
    BY <1>3 DEF ParseConsume, Check
  <2>2. \A sig \in Signature(Head(todo)) : sig = Sig(<<>>, <<Name>>)
    BY <1>1, <1>3 DEF Signature
  <2>3. PICK open, base : \E b \in Sorts : Sub(Name, b) /\ Pending(open, base, <<>>, <<b>>)
    BY <2>2, SmallStacks, HeadOne DEF ParserInv
  <2>4. PICK b \in Sorts : Sub(Name, b) /\ Pending(open, base, <<>>, <<b>>)
    BY <2>3
  <2>5. Fits(nodes, open, Calm', Name, Peek.literal.val)
    <3>1. Peek.literal.val \in String /\ Peek.literal.val \in Nat
      BY <2>1, PeekFacts, StringAssumption DEF ParserInv
    <3> QED
      BY <3>1, SortNames DEF Fits
  <2> QED
    BY <2>1, <2>4, <2>5, SomeSorts, ReturnKeeps
<1>4. CASE Check(kind) /\ kind # "Identifier"
  <2>1. Advance /\ Become(<<>>) /\ Calling /\ Peek.kind # "Eof"
    BY <1>4 DEF ParseConsume, Check
  <2>2. \A sig \in Signature(Head(todo)) : sig = Sig(<<>>, <<>>)
    BY <1>1, <1>4 DEF Signature
  <2>3. PICK open, base, x, y : \E sig \in Signature(Head(todo)) :
          /\ Below(x, sig.takes) /\ Below(sig.gives, y)
          /\ Pending(open, base, x, y)
    BY HeadPending DEF ParserInv
  <2>4. Below(x, <<>>) /\ Below(<<>>, y) /\ x \in Seq(Sorts) /\ y \in Seq(Sorts)
    BY <2>2, <2>3 DEF Sig, Pending
  <2>5. x = <<>> /\ y = <<>>
    <3>1. Len(x) = 0 /\ Len(y) = 0
      BY <2>4 DEF Below
    <3> QED
      BY <2>4, <3>1, EmptySeq
  <2>6. Does(<<>>, <<>>, <<>>)
    BY SmallStacks, DoesNothing
  <2> QED
    BY <2>1, <2>3, <2>5, <2>6, SmallStacks, CallKeeps
<1> QED
  BY <1>2, <1>3, <1>4

\* Null is an expression, and a statement that may be missing.
LEMMA NullFits ==
  ASSUME NEW open, NEW calm, IsTree(nodes, open)
  PROVE  Fits(nodes, open, calm, Ex(0), 0) /\ Fits(nodes, open, calm, Ex(8), 0)
         /\ Fits(nodes, open, calm, Perhaps, 0)
<1>1. 0 \in 0 .. Len(nodes) /\ Tight(nodes, 0) = 8
  BY DEF IsTree, Tight
<1> QED
  BY <1>1, SortNames DEF Fits, IsExpr, IsStmt

LEMMA ExprSingle ==
  ASSUME NEW b \in Sorts, Sub(Ex(0), b)
  PROVE  Does(Expr, <<>>, <<b>>)
<1>1. \E i \in 0 .. 0 : b = Ex(i)
  BY SubFacts
<1>2. b = Ex(0)
  BY <1>1
<1> QED
  BY <1>2, ExprDoes

LEMMA UnlessKeeps ==
  ASSUME ParserInv, ParseUnless
  PROVE  ParserInv'
<1>1. \A sig \in Signature(Head(todo)) : sig = Sig(<<>>, <<Ex(0)>>)
  BY DEF ParseUnless, At, Signature
<1>2. PICK open, base : \E b \in Sorts : Sub(Ex(0), b) /\ Pending(open, base, <<>>, <<b>>)
  BY <1>1, SmallStacks, HeadOne DEF ParserInv
<1>3. PICK b \in Sorts : Sub(Ex(0), b) /\ Pending(open, base, <<>>, <<b>>)
  BY <1>2
<1>4. CASE Check(Head(todo).kind)
  <2>1. Stay /\ Become(<<>>) /\ Returning(0)
    BY <1>4 DEF ParseUnless
  <2>2. Fits(nodes, open, Calm', Ex(0), 0)
    BY <1>3, NullFits DEF Pending
  <2> QED
    BY <1>3, <2>1, <2>2, SomeSorts, ReturnKeeps
<1>5. CASE ~Check(Head(todo).kind)
  <2>1. Stay /\ Become(Expr) /\ Calling
    BY <1>5 DEF ParseUnless
  <2> QED
    BY <1>3, <2>1, ExprSingle, CallKeeps
<1> QED
  BY <1>4, <1>5

LEMMA InitializerKeeps ==
  ASSUME ParserInv, At("initializer"),
         IF Check("Equal") THEN Advance /\ Become(Expr) /\ Calling
                           ELSE Stay /\ Become(<<>>) /\ Returning(0)
  PROVE  ParserInv'
<1>1. \A sig \in Signature(Head(todo)) : sig = Sig(<<>>, <<Ex(0)>>)
  BY DEF At, Signature
<1>2. PICK open, base : \E b \in Sorts : Sub(Ex(0), b) /\ Pending(open, base, <<>>, <<b>>)
  BY <1>1, SmallStacks, HeadOne DEF ParserInv
<1>3. PICK b \in Sorts : Sub(Ex(0), b) /\ Pending(open, base, <<>>, <<b>>)
  BY <1>2
<1>4. CASE Check("Equal")
  <2>1. Advance /\ Become(Expr) /\ Calling /\ Peek.kind # "Eof"
    BY <1>4 DEF Check
  <2> QED
    BY <1>3, <2>1, SmallStacks, ExprSingle, CallKeeps
<1>5. CASE ~Check("Equal")
  <2>1. Stay /\ Become(<<>>) /\ Returning(0)
    BY <1>5
  <2>2. Fits(nodes, open, Calm', Ex(0), 0)
    BY <1>3, NullFits DEF Pending
  <2> QED
    BY <1>3, <2>1, <2>2, SomeSorts, ReturnKeeps
<1> QED
  BY <1>4, <1>5

LEMMA ForInitKeeps ==
  ASSUME ParserInv, ParseForInit
  PROVE  ParserInv'
<1>1. \A sig \in Signature(Head(todo)) : sig = Sig(<<>>, <<Perhaps>>)
  BY DEF ParseForInit, At, Signature
<1>2. PICK open, base : \E b \in Sorts : Sub(Perhaps, b) /\ Pending(open, base, <<>>, <<b>>)
  BY <1>1, SmallStacks, HeadOne DEF ParserInv
<1>3. PICK b \in Sorts : Sub(Perhaps, b) /\ Pending(open, base, <<>>, <<b>>)
  BY <1>2
<1>4. b = Perhaps /\ Sub(Fresh, b)
  BY <1>3, SubFacts, SortFacts
<1>5. CASE Check("Semicolon")
  <2>1. Advance /\ Become(<<>>) /\ Returning(0) /\ Peek.kind # "Eof"
    BY <1>5 DEF ParseForInit, Check
  <2>2. Fits(nodes, open, Calm', Perhaps, 0)
    BY <1>3, NullFits DEF Pending
  <2> QED
    BY <1>3, <2>1, <2>2, SomeSorts, ReturnKeeps
<1>6. CASE ~Check("Semicolon") /\ Check("Var")
  <2>1. Advance /\ Become(Rule.Var) /\ Calling /\ Peek.kind # "Eof"
    BY <1>6 DEF ParseForInit, Check
  <2>2. Does(Rule.Var, <<>>, <<b>>)
    BY <1>4, VarDoes
  <2> QED
    BY <1>3, <2>1, <2>2, SmallStacks, CallKeeps
<1>7. CASE ~Check("Semicolon") /\ ~Check("Var")
  <2>1. Stay /\ Become(ExprStatement) /\ Calling
    BY <1>7 DEF ParseForInit
  <2>2. Does(ExprStatement, <<>>, <<b>>)
    BY <1>4, ExprStatementDoes
  <2> QED
    BY <1>3, <2>1, <2>2, CallKeeps
<1> QED
  BY <1>5, <1>6, <1>7

\* What a list of items leaves.
WholeSort(of) == IF of = "params" THEN Fresh ELSE Ex(8)

LEMMA WholeFacts ==
  ASSUME NEW of \in {"params", "args"}
  PROVE  /\ Whole(of) = <<WholeSort(of)>>
         /\ \A b \in Sorts : Sub(WholeSort(of), b) =>
              (of = "params" => Sub(Fresh, b)) /\ (of = "args" => Sub(Ex(8), b))
<1>1. CASE of = "params"
  BY <1>1 DEF Whole, WholeSort
<1>2. CASE of = "args"
  BY <1>2 DEF Whole, WholeSort
<1> QED
  BY <1>1, <1>2

LEMMA ItemsKeep ==
  ASSUME ParserInv, ParseItems
  PROVE  ParserInv'
<1>1. PICK of \in {"params", "args"} :
        /\ At(of)
        /\ Stay
        /\ Become(IF Check("RParen") THEN Rest(of, 0) ELSE <<Item(of, 0)>>)
        /\ Calling
  BY DEF ParseItems
<1> DEFINE t == Items(of, 0)
<1>2. t \in Seq(Sorts)
  BY ItemsFacts
<1>3. \A sig \in Signature(Head(todo)) : sig = Sig(t, <<WholeSort(of)>>)
  BY <1>1, WholeFacts DEF At, Signature
<1> HIDE DEF t
<1>4. PICK open, base : \E b \in Sorts : Sub(WholeSort(of), b) /\ Pending(open, base, t, <<b>>)
  BY <1>2, <1>3, HeadOne DEF ParserInv
<1>5. PICK b \in Sorts : Sub(WholeSort(of), b) /\ Pending(open, base, t, <<b>>)
  BY <1>4
<1>6. (of = "params" => Sub(Fresh, b)) /\ (of = "args" => Sub(Ex(8), b))
  BY <1>5, WholeFacts
<1>7. Does(Rest(of, 0), t, <<b>>) /\ Does(<<Item(of, 0)>>, t, <<b>>)
  BY <1>6, RestDoes, ItemDoes DEF t
<1>8. Does(IF Check("RParen") THEN Rest(of, 0) ELSE <<Item(of, 0)>>, t, <<b>>)
  BY <1>7
<1> QED
  BY <1>1, <1>5, <1>8, CallKeeps

LEMMA ItemKeeps ==
  ASSUME ParserInv, ParseItem
  PROVE  ParserInv'
<1> DEFINE item == Head(todo)
           of == item.of
           n == item.count
           t == Items(of, n)
<1>1. item.do = "item" /\ item \in Record
  BY HeadSigned DEF ParseItem, At, ParserInv
<1>2. of \in {"params", "args"} /\ n \in Nat
  BY <1>1 DEF Record, Calls
<1>3. t \in Seq(Sorts)
  BY <1>2, ItemsFacts
<1>4. \A sig \in Signature(item) : sig = Sig(t, <<WholeSort(of)>>)
  BY <1>1, <1>2, WholeFacts DEF Signature
<1> HIDE DEF t
<1>5. PICK open, base : \E b \in Sorts : Sub(WholeSort(of), b) /\ Pending(open, base, t, <<b>>)
  BY <1>3, <1>4, HeadOne DEF ParserInv
<1>6. PICK b \in Sorts : Sub(WholeSort(of), b) /\ Pending(open, base, t, <<b>>)
  BY <1>5
<1>7. (of = "params" => Sub(Fresh, b)) /\ (of = "args" => Sub(Ex(8), b))
  BY <1>2, <1>6, WholeFacts
<1>8. CASE n >= MaxArgs
  <2>1. Fail("runtime_error")
    BY <1>8 DEF ParseItem
  <2> QED
    BY <2>1, FailKeeps DEF Outcome
<1>9. CASE ~ (n >= MaxArgs)
  <2>1. /\ Stay
        /\ Become((IF of = "params" THEN <<Consume("Identifier")>> ELSE Expr)
                    \o <<Comma(of, n + 1)>>)
        /\ Calling
    BY <1>9 DEF ParseItem
  <2>2. Does((IF of = "params" THEN <<Consume("Identifier")>> ELSE Expr)
               \o <<Comma(of, n + 1)>>, t, <<b>>)
    BY <1>2, <1>7, ItemDoes DEF t
  <2> QED
    BY <1>6, <2>1, <2>2, CallKeeps
<1> QED
  BY <1>8, <1>9

LEMMA CommaKeeps ==
  ASSUME ParserInv, ParseComma
  PROVE  ParserInv'
<1> DEFINE item == Head(todo)
           of == item.of
           n == item.count
           t == Items(of, n)
<1>1. item.do = "comma" /\ item \in Record
  BY HeadSigned DEF ParseComma, At, ParserInv
<1>2. of \in {"params", "args"} /\ n \in Nat
  BY <1>1 DEF Record, Calls
<1>3. t \in Seq(Sorts) /\ t \in Seq(Firm)
  BY <1>2, ItemsFacts
<1>4. \A sig \in Signature(item) : sig = Sig(t, <<WholeSort(of)>>)
  BY <1>1, <1>2, WholeFacts DEF Signature
<1> HIDE DEF t
<1>5. PICK open, base : \E b \in Sorts : Sub(WholeSort(of), b) /\ Pending(open, base, t, <<b>>)
  BY <1>3, <1>4, HeadOne DEF ParserInv
<1>6. PICK b \in Sorts : Sub(WholeSort(of), b) /\ Pending(open, base, t, <<b>>)
  BY <1>5
<1>7. (of = "params" => Sub(Fresh, b)) /\ (of = "args" => Sub(Ex(8), b))
  BY <1>2, <1>6, WholeFacts
<1>8. CASE Check("Comma")
  <2>1. Advance /\ Become(<<Item(of, n)>>) /\ Calling /\ Peek.kind # "Eof"
    BY <1>8 DEF ParseComma, Check
  <2>2. Does(<<Item(of, n)>>, t, <<b>>)
    BY <1>2, <1>7, ItemDoes DEF t
  <2> QED
    BY <1>3, <1>6, <2>1, <2>2, CallKeeps
<1>9. CASE ~Check("Comma")
  <2>1. Stay /\ Become(Rest(of, n)) /\ Calling
    BY <1>9 DEF ParseComma
  <2>2. Does(Rest(of, n), t, <<b>>)
    BY <1>2, <1>7, RestDoes DEF t
  <2> QED
    BY <1>6, <2>1, <2>2, CallKeeps
<1> QED
  BY <1>8, <1>9

(***************************************************************************)
(* The test for an `else'.                                                 *)
(***************************************************************************)

\* Only an `if' waits for what may follow an `else'.
LEMMA AbsentTaken ==
  ASSUME NEW item \in Record, NEW sig \in Signature(item),
         Len(sig.takes) \in Nat \ {0}, sig.takes[Len(sig.takes)] = Absent
  PROVE  /\ sig = Sig(<<Ex(0), AnyStmt, Absent>>, <<Fresh>>)
         /\ Sig(<<Ex(0), Shut, Fresh>>, <<Fresh>>) \in Signature(item)
<1> DEFINE Ends(u) == Len(u.takes) \in Nat \ {0} /\ u.takes[Len(u.takes)] = Absent
<1>1. \A g : ~Ends(Sig(<<>>, g))
  BY DEF Sig
<1>2. \A a, g : a # Absent => ~Ends(Sig(<<a>>, g))
  BY DEF Sig
<1>3. \A a, b, g : b # Absent => ~Ends(Sig(<<a, b>>, g))
  BY DEF Sig
<1>4. \A a, b, c, g : c # Absent => ~Ends(Sig(<<a, b, c>>, g))
  BY DEF Sig
<1>5. \A a, b, c, d, g : d # Absent => ~Ends(Sig(<<a, b, c, d>>, g))
  BY DEF Sig
<1>6. /\ Name # Absent /\ AnyStmt # Absent /\ Fresh # Absent /\ Body # Absent /\ \A l : Ex(l) # Absent
  BY SortNames
<1>7. ASSUME NEW n \in Nat, NEW g PROVE ~Ends(Sig(Times(n, AnyStmt), g))
  <2>1. Len(Times(n, AnyStmt)) = n /\ \A i \in 1 .. n : Times(n, AnyStmt)[i] = AnyStmt
    BY TimesFacts
  <2> QED
    BY <1>6, <2>1 DEF Sig
<1>8. ASSUME NEW of \in {"params", "args"}, NEW n \in Nat
      PROVE  /\ \A g : ~Ends(Sig(Items(of, n), g))
             /\ \A g : ~Ends(Sig(Append(Items(of, n), Body), g))
  <2> DEFINE t == Items(of, n)
  <2>1. /\ t \in Seq(Sorts) /\ Len(t) = n + 1
        /\ \A i \in 1 .. n + 1 : t[i] = IF of = "params" THEN Name ELSE IF i = 1 THEN Ex(8) ELSE Ex(0)
    BY ItemsFacts
  <2> HIDE DEF t
  <2>2. t[n + 1] # Absent
    BY <1>6, <2>1
  <2>3. Len(Append(t, Body)) = Len(t) + 1 /\ Append(t, Body)[Len(t) + 1] = Body
    BY <2>1, SomeSorts, AppendProperties
  <2>4. \A g : ~Ends(Sig(t, g))
    BY <2>1, <2>2 DEF Sig
  <2>5. \A g : ~Ends(Sig(Append(t, Body), g))
    BY <1>6, <2>3 DEF Sig
  <2> QED
    BY <2>4, <2>5 DEF t
<1>9. Ends(sig)
  OBVIOUS
<1> HIDE DEF Ends
<1>10. item.do # "consume"
  BY <1>1, <1>9 DEF Signature
<1>11. item.do \notin {"unless", "initializer", "decl", "stmt", "forInit", "unary", "primary"}
  BY <1>1, <1>9 DEF Signature
<1>12. item.do \notin {"calls", "assign", "exprStmt", "else", "more"}
  BY <1>2, <1>6, <1>9 DEF Signature
<1>13. item.do # "assignTo"
  BY <1>3, <1>6, <1>9 DEF Signature
<1>14. item.do # "statements"
  BY <1>7, <1>9 DEF Signature
<1>15. item.do \notin {"params", "args"}
  BY <1>8, <1>9 DEF Signature
<1>16. item.do \notin {"item", "comma"}
  <2>1. item.do \in {"item", "comma"} => item.of \in {"params", "args"}
    BY DEF Record, Calls
  <2> QED
    BY <1>8, <1>9, <2>1 DEF Signature
<1>17. item.do = "build"
  BY <1>10, <1>11, <1>12, <1>13, <1>14, <1>15, <1>16 DEF Record, Calls
<1>18. Signature(item) = BuildSignature(item)
  BY <1>17 DEF Signature
<1>19. item.kind \notin {"Grouping", "Return", "Unary"}
  BY <1>2, <1>6, <1>9, <1>18 DEF BuildSignature
<1>20. item.kind \notin {"Binary", "Logical"}
  <2>1. item.kind \in {"Binary", "Logical"} => sig \in OperatorSignature(item.op)
    BY <1>18 DEF BuildSignature
  <2>2. sig \notin OperatorSignature(item.op)
    BY <1>3, <1>6, <1>9 DEF OperatorSignature
  <2> QED
    BY <2>1, <2>2
<1>21. item.kind \notin {"VarDecl", "While"}
  BY <1>3, <1>6, <1>9, <1>18 DEF BuildSignature
<1>22. item.kind \notin {"Call", "FuncDecl"}
  BY <1>8, <1>9, <1>18 DEF BuildSignature
<1>23. item.kind # "Block"
  BY <1>7, <1>9, <1>18 DEF BuildSignature
<1>24. item.kind # "For"
  BY <1>5, <1>6, <1>9, <1>18 DEF BuildSignature
<1>25. item.kind = "If"
  BY <1>18, <1>19, <1>20, <1>21, <1>22, <1>23, <1>24 DEF BuildSignature
<1>26. sig \in {Sig(<<Ex(0), AnyStmt, Absent>>, <<Fresh>>), Sig(<<Ex(0), Shut, Fresh>>, <<Fresh>>)}
       /\ Sig(<<Ex(0), Shut, Fresh>>, <<Fresh>>) \in Signature(item)
  BY <1>18, <1>25 DEF BuildSignature
<1>27. ~Ends(Sig(<<Ex(0), Shut, Fresh>>, <<Fresh>>))
  BY <1>4, <1>6
<1> QED
  BY <1>9, <1>26, <1>27

LEMMA HeadAndTail ==
  ASSUME NEW S, NEW s \in Seq(S), s # <<>>
  PROVE  <<Head(s)>> \o Tail(s) = s
<1> DEFINE h == <<Head(s)>>
           u == Tail(s)
<1>1. h \in Seq(S) /\ Len(h) = 1 /\ h[1] = s[1]
  OBVIOUS
<1>2. u \in Seq(S) /\ Len(u) = Len(s) - 1 /\ \A i \in 1 .. Len(u) : u[i] = s[i + 1]
  BY HeadTailProperties
<1> HIDE DEF h, u
<1>3. Len(s) \in Nat /\ Len(s) = Len(h) + Len(u)
  BY <1>1, <1>2
<1>4. \A i \in 1 .. Len(h) : s[i] = h[i]
  BY <1>1
<1>5. \A i \in 1 .. Len(u) : s[Len(h) + i] = u[i]
  <2> TAKE i \in 1 .. Len(u)
  <2>1. Len(h) + i = i + 1
    BY <1>1, <1>2
  <2> QED
    BY <1>2, <2>1
<1>6. h \o u = s
  BY <1>1, <1>2, <1>3, <1>4, <1>5, ConcatIs
<1> QED
  BY <1>6 DEF h, u

\* Two results on top of others.
LEMMA TwoOnTop ==
  ASSUME NEW base \in Seq(Firm), NEW a \in Sorts, NEW b \in Sorts
  PROVE  /\ base \o <<a, b>> \in Seq(Sorts)
         /\ Len(base) \in Nat /\ Len(base \o <<a, b>>) = Len(base) + 2
         /\ \A i \in 1 .. Len(base) : (base \o <<a, b>>)[i] = base[i] /\ base[i] \in Firm
         /\ (base \o <<a, b>>)[Len(base) + 1] = a
         /\ (base \o <<a, b>>)[Len(base) + 2] = b
<1> DEFINE u == <<a, b>>
<1>1. u \in Seq(Sorts) /\ Len(u) = 2 /\ u[1] = a /\ u[2] = b
  OBVIOUS
<1>2. base \in Seq(Sorts) /\ Len(base) \in Nat /\ \A i \in 1 .. Len(base) : base[i] \in Firm
  BY FirmSeq
<1> HIDE DEF u
<1>3. /\ base \o u \in Seq(Sorts) /\ Len(base \o u) = Len(base) + 2
      /\ \A i \in 1 .. Len(base) + 2 :
           (base \o u)[i] = IF i <= Len(base) THEN base[i] ELSE u[i - Len(base)]
  <2>1. /\ base \o u \in Seq(Sorts) /\ Len(base \o u) = Len(base) + Len(u)
        /\ \A i \in 1 .. Len(base) + Len(u) :
             (base \o u)[i] = IF i <= Len(base) THEN base[i] ELSE u[i - Len(base)]
    BY <1>1, <1>2, ConcatProperties
  <2> QED
    BY <1>1, <2>1
<1>4. \A i \in 1 .. Len(base) : (base \o u)[i] = base[i]
  BY <1>2, <1>3
<1>5. (base \o u)[Len(base) + 1] = a
  <2>1. /\ Len(base) + 1 \in 1 .. Len(base) + 2 /\ ~ (Len(base) + 1 <= Len(base))
        /\ (Len(base) + 1) - Len(base) = 1
    BY <1>2
  <2> QED
    BY <1>1, <1>3, <2>1
<1>6. (base \o u)[Len(base) + 2] = b
  <2>1. /\ Len(base) + 2 \in 1 .. Len(base) + 2 /\ ~ (Len(base) + 2 <= Len(base))
        /\ (Len(base) + 2) - Len(base) = 2
    BY <1>2
  <2> QED
    BY <1>1, <1>3, <2>1
<1> QED
  BY <1>2, <1>3, <1>4, <1>5, <1>6 DEF u

\* What would go on without an `else' goes on with one, if the statement before
\* it takes no other `else'.
LEMMA ElseChanges ==
  ASSUME NEW rest, NEW base \in Seq(Firm), NEW b \in Sorts,
         Does(rest, base \o <<b, Absent>>, <<Never>>)
  PROVE  Does(rest, base \o <<Shut, Fresh>>, <<Never>>)
<1> DEFINE m == base \o <<b, Absent>>
           s == base \o <<Shut, Fresh>>
           L == Len(base)
<1>1. /\ L \in Nat /\ m \in Seq(Sorts) /\ Len(m) = L + 2 /\ m[L + 2] = Absent
      /\ \A i \in 1 .. L : m[i] = base[i] /\ base[i] \in Firm
  BY SomeSorts, TwoOnTop
<1>2. /\ s \in Seq(Sorts) /\ Len(s) = L + 2 /\ s[L + 1] = Shut /\ s[L + 2] = Fresh
      /\ \A i \in 1 .. L : s[i] = base[i]
  BY SomeSorts, TwoOnTop
<1>3. Does(rest, m, <<Never>>)
  OBVIOUS
<1> HIDE DEF m, s, L
<1>4. rest \in Seq(Record) /\ rest # <<>>
  <2>1. ASSUME rest = <<>> PROVE FALSE
    <3>1. Len(rest) = 0 /\ Len(<<Never>>) = 1
      BY <2>1
    <3>2. m = <<Never>>
      BY <1>3, <3>1 DEF Does
    <3> QED
      BY <1>1, <3>1, <3>2
  <2> QED
    BY <1>3, <2>1 DEF Does
<1>5. PICK m2 \in Seq(Sorts) : Step(Head(rest), m, m2) /\ Does(Tail(rest), m2, <<Never>>)
  BY <1>3, <1>4, DoesHead
<1>6. PICK base2 \in Seq(Firm), x \in Seq(Sorts), y \in Seq(Sorts) :
        \E sig \in Signature(Head(rest)) :
          /\ m = base2 \o x /\ m2 = base2 \o y
          /\ Below(x, sig.takes) /\ Below(sig.gives, y)
  BY <1>5 DEF Step
<1>7. PICK sig \in Signature(Head(rest)) :
        /\ m = base2 \o x /\ m2 = base2 \o y
        /\ Below(x, sig.takes) /\ Below(sig.gives, y)
  BY <1>6
<1> DEFINE h == Len(base2)
<1>8. h \in Nat /\ base2 \in Seq(Sorts) /\ \A i \in 1 .. h : base2[i] \in Firm
  BY FirmSeq
<1>9. /\ L + 2 = h + Len(x) /\ Len(x) \in Nat
      /\ \A i \in 1 .. h + Len(x) : m[i] = IF i <= h THEN base2[i] ELSE x[i - h]
  BY <1>1, <1>7, <1>8, ConcatProperties
<1>10. /\ Len(m2) = h + Len(y) /\ Len(y) \in Nat
       /\ \A i \in 1 .. h + Len(y) : m2[i] = IF i <= h THEN base2[i] ELSE y[i - h]
  BY <1>7, <1>8, ConcatProperties
<1> HIDE DEF h
<1>11. Absent \notin Firm
  BY DEF Firm
<1>12. Len(x) # 0
  <2>1. ASSUME Len(x) = 0 PROVE FALSE
    <3>1. L + 2 \in 1 .. h + Len(x) /\ L + 2 <= h /\ L + 2 \in 1 .. h
      BY <1>1, <1>8, <1>9, <2>1
    <3>2. m[L + 2] = base2[L + 2]
      BY <1>9, <3>1
    <3> QED
      BY <1>1, <1>8, <1>11, <3>1, <3>2
  <2> QED
    BY <2>1
<1>13. x[Len(x)] = Absent
  <2>1. L + 2 \in 1 .. h + Len(x) /\ ~ (L + 2 <= h) /\ (L + 2) - h = Len(x)
    BY <1>1, <1>8, <1>9, <1>12
  <2> QED
    BY <1>1, <1>9, <2>1
<1>14. Len(sig.takes) = Len(x) /\ Sub(Absent, sig.takes[Len(x)])
  <2>1. Len(x) \in 1 .. Len(x)
    BY <1>9, <1>12
  <2> QED
    BY <1>7, <1>13, <2>1 DEF Below
<1>15. sig.takes[Len(sig.takes)] = Absent
  BY <1>14, SortNames DEF Sub
<1>16. Head(rest) \in Record
  BY <1>4
<1>17. /\ sig = Sig(<<Ex(0), AnyStmt, Absent>>, <<Fresh>>)
       /\ Sig(<<Ex(0), Shut, Fresh>>, <<Fresh>>) \in Signature(Head(rest))
  BY <1>9, <1>12, <1>14, <1>15, <1>16, AbsentTaken
<1>18. /\ Len(x) = 3 /\ Sub(x[1], Ex(0)) /\ Len(y) = 1 /\ Sub(Fresh, y[1])
  <2>1. Below(x, <<Ex(0), AnyStmt, Absent>>) /\ Below(<<Fresh>>, y)
    BY <1>7, <1>17 DEF Sig
  <2>2. Len(<<Ex(0), AnyStmt, Absent>>) = 3 /\ Len(<<Fresh>>) = 1
    OBVIOUS
  <2>3. 1 \in 1 .. 3 /\ 1 \in 1 .. 1
    OBVIOUS
  <2> QED
    BY <2>1, <2>2, <2>3 DEF Below
<1>19. L \in Nat /\ h \in Nat /\ h = L - 1 /\ Len(x) = 3 /\ Len(y) = 1
  <2>1. L \in Nat /\ h \in Nat /\ L + 2 = h + 3
    BY <1>1, <1>8, <1>9, <1>18
  <2> QED
    BY <1>18, <2>1
<1> DEFINE t == <<Ex(0), Shut, Fresh>>
           g == <<Fresh>>
<1>20. /\ t \in Seq(Sorts) /\ Len(t) = 3 /\ t[1] = Ex(0) /\ t[2] = Shut /\ t[3] = Fresh
       /\ g \in Seq(Sorts) /\ Len(g) = 1 /\ g[1] = Fresh /\ Sig(t, g) \in Signature(Head(rest))
  BY <1>17, SomeSorts
<1> HIDE DEF t, g
<1>21. Len(s) = h + Len(t) /\ Len(m2) = h + Len(g)
  BY <1>1, <1>2, <1>10, <1>18, <1>19, <1>20
<1>22. \A i \in 1 .. h : s[i] \in Firm /\ m2[i] = s[i]
  <2> TAKE i \in 1 .. h
  <2>1. i \in 1 .. L /\ i \in 1 .. h + Len(x) /\ i \in 1 .. h + Len(y) /\ i <= h
    BY <1>19
  <2>2. m[i] = base2[i] /\ m2[i] = base2[i]
    BY <1>9, <1>10, <2>1
  <2> QED
    BY <1>1, <1>2, <2>1, <2>2
<1>23. s[h + 1] = x[1]
  <2>1. /\ h + 1 \in 1 .. L /\ h + 1 \in 1 .. h + Len(x) /\ ~ (h + 1 <= h) /\ (h + 1) - h = 1
    BY <1>19
  <2>2. m[h + 1] = x[1]
    BY <1>9, <2>1
  <2> QED
    BY <1>1, <1>2, <2>1, <2>2
<1>24. h + 2 = L + 1 /\ h + 3 = L + 2
  BY <1>1, <1>8, <1>19
<1>25. \A i \in 1 .. Len(t) : Sub(s[h + i], t[i])
  <2>1. Sub(s[h + 1], t[1]) /\ Sub(s[h + 2], t[2]) /\ Sub(s[h + 3], t[3])
    BY <1>2, <1>18, <1>20, <1>23, <1>24 DEF Sub
  <2>2. \A i \in 1 .. 3 : i = 1 \/ i = 2 \/ i = 3
    OBVIOUS
  <2> QED
    BY <1>20, <2>1, <2>2
<1>26. \A i \in 1 .. Len(g) : Sub(g[i], m2[h + i])
  <2>1. h + 1 \in 1 .. h + Len(y) /\ ~ (h + 1 <= h) /\ (h + 1) - h = 1
    BY <1>8, <1>18
  <2>2. m2[h + 1] = y[1]
    BY <1>10, <2>1
  <2>3. \A i \in 1 .. 1 : i = 1
    OBVIOUS
  <2> QED
    BY <1>18, <1>20, <2>2, <2>3
<1>27. Step(Head(rest), s, m2)
  BY <1>2, <1>5, <1>8, <1>20, <1>21, <1>22, <1>25, <1>26, StepAt
<1>28. Does(<<Head(rest)>>, s, m2)
  BY <1>2, <1>5, <1>16, <1>27, DoesOne
<1>29. Does(<<Head(rest)>> \o Tail(rest), s, <<Never>>)
  BY <1>5, <1>28, DoesConcat
<1>30. <<Head(rest)>> \o Tail(rest) = rest
  BY <1>4, HeadAndTail
<1> QED
  BY <1>29, <1>30 DEF s

LEMMA FitAppend ==
  ASSUME NEW nds, NEW open, NEW calm, NEW s \in Seq(Sorts), NEW a \in Sorts, NEW r, NEW k,
         Fit(nds, open, calm, s, r), Fits(nds, open, calm, a, k)
  PROVE  Fit(nds, open, calm, Append(s, a), Append(r, k))
<1>1. r \in Seq(Nat) /\ Len(s) = Len(r) /\ Len(s) \in Nat /\ k \in Nat
  BY DEF Fit, Fits
<1>2. /\ Len(Append(s, a)) = Len(s) + 1 /\ Append(s, a)[Len(s) + 1] = a
      /\ \A i \in 1 .. Len(s) : Append(s, a)[i] = s[i]
  BY AppendProperties
<1>3. /\ Append(r, k) \in Seq(Nat) /\ Len(Append(r, k)) = Len(s) + 1
      /\ Append(r, k)[Len(s) + 1] = k
      /\ \A i \in 1 .. Len(s) : Append(r, k)[i] = r[i]
  BY <1>1, AppendProperties
<1>4. \A i \in 1 .. Len(s) + 1 : i \in 1 .. Len(s) \/ i = Len(s) + 1
  BY <1>1
<1>5. \A i \in 1 .. Len(s) : Fits(nds, open, calm, s[i], r[i])
  BY DEF Fit
<1>6. \A i \in 1 .. Len(s) + 1 : Fits(nds, open, calm, Append(s, a)[i], Append(r, k)[i])
  BY <1>2, <1>3, <1>4, <1>5
<1> QED
  BY <1>2, <1>3, <1>6 DEF Fit

LEMMA ElseKeeps ==
  ASSUME ParserInv, At("else"),
         IF Check("Else") THEN Advance /\ Become(<<Do("stmt")>>) /\ Calling
                          ELSE Stay /\ Become(<<>>) /\ Returning(0)
  PROVE  ParserInv'
<1>1. \A sig \in Signature(Head(todo)) : sig = Sig(<<Fresh>>, <<AnyStmt, Absent>>)
  BY DEF At, Signature
<1>2. PICK open, base, x, y : \E sig \in Signature(Head(todo)) :
        /\ Below(x, sig.takes) /\ Below(sig.gives, y)
        /\ Pending(open, base, x, y)
  BY HeadPending DEF ParserInv
<1>3. Below(x, <<Fresh>>) /\ Below(<<AnyStmt, Absent>>, y)
  BY <1>1, <1>2 DEF Sig
<1>4. Pending(open, base, <<Fresh>>, y)
  BY <1>2, <1>3, SomeSorts, SmallStacks, PendingWeaker
<1>5. /\ IsTree(nodes, open) /\ base \in Seq(Firm) /\ y \in Seq(Sorts)
      /\ Fit(nodes, open, Calm, base \o <<Fresh>>, results)
      /\ Does(Tail(todo), base \o y, <<Never>>)
  BY <1>4 DEF Pending
<1> DEFINE b == y[1]
<1>6. Len(y) = 2 /\ Sub(AnyStmt, y[1]) /\ Sub(Absent, y[2])
  <2>1. Len(<<AnyStmt, Absent>>) = 2
    OBVIOUS
  <2>2. 1 \in 1 .. 2 /\ 2 \in 1 .. 2 /\ <<AnyStmt, Absent>>[1] = AnyStmt
        /\ <<AnyStmt, Absent>>[2] = Absent
    OBVIOUS
  <2> QED
    BY <1>3, <2>1, <2>2 DEF Below
<1>7. b \in {AnyStmt, Perhaps} /\ y[2] = Absent
  BY <1>6, SortNames DEF Sub
<1>8. y = <<b, Absent>> /\ b \in Firm /\ b \in Sorts /\ Sub(Fresh, b) /\ b # Fresh
  BY <1>5, <1>6, <1>7, SomeSorts, SortFacts, SortNames
<1> HIDE DEF b
<1>9. CASE Check("Else")
  <2>1. Advance /\ Become(<<Do("stmt")>>) /\ Calling /\ Peek.kind = "Else"
    BY <1>9 DEF Check
  <2>2. ~Calm
    BY <2>1 DEF Calm
  <2>3. Does(Tail(todo), base \o <<Shut, Fresh>>, <<Never>>)
    BY <1>5, <1>8, ElseChanges
  <2>4. Fit(nodes, open, Calm, base \o <<Shut>>, results)
    <3>1. base \o <<Fresh>> = Append(base, Fresh) /\ base \o <<Shut>> = Append(base, Shut)
      BY <1>5, SomeSorts, FramePush
    <3> DEFINE s == Append(base, Fresh)
               u == Append(base, Shut)
    <3>2. base \in Seq(Sorts) /\ Len(base) \in Nat
      BY <1>5, FirmSeq
    <3>3. /\ Len(s) = Len(base) + 1 /\ s[Len(base) + 1] = Fresh
          /\ \A i \in 1 .. Len(base) : s[i] = base[i]
      BY <3>2, SomeSorts, AppendProperties
    <3>4. /\ Len(u) = Len(base) + 1 /\ u[Len(base) + 1] = Shut
          /\ \A i \in 1 .. Len(base) : u[i] = base[i]
      BY <3>2, SomeSorts, AppendProperties
    <3>5. Fit(nodes, open, Calm, s, results)
      BY <1>5, <3>1
    <3> HIDE DEF s, u
    <3>6. \A i \in 1 .. Len(base) + 1 : i \in 1 .. Len(base) \/ i = Len(base) + 1
      BY <3>2
    <3>7. \A i \in 1 .. Len(base) + 1 : Fits(nodes, open, Calm, s[i], results[i])
      BY <3>3, <3>5 DEF Fit
    <3>8. \A k : Fits(nodes, open, Calm, Fresh, k) => Fits(nodes, open, Calm, Shut, k)
      BY <2>2, SortNames DEF Fits
    <3>9. \A i \in 1 .. Len(base) + 1 : Fits(nodes, open, Calm, u[i], results[i])
      BY <3>3, <3>4, <3>6, <3>7, <3>8
    <3>10. results \in Seq(Nat) /\ Len(results) = Len(base) + 1
      BY <3>3, <3>5 DEF Fit
    <3> QED
      BY <3>1, <3>4, <3>9, <3>10 DEF Fit, u
  <2>5. Pending(open, base, <<Shut>>, <<Shut, Fresh>>)
    BY <1>5, <2>3, <2>4, SomeSorts, SmallStacks DEF Pending
  <2>6. Does(<<Do("stmt")>>, <<Shut>>, <<Shut, Fresh>>)
    <3>1. Step(Do("stmt"), <<Shut>>, <<Shut, Fresh>>)
      BY DoSignatures, SomeSorts, StepPushes
    <3> QED
      BY <3>1, DoRecords, SomeSorts, SmallStacks, DoesOne
  <2>7. <<Shut>> \in Seq(Firm) /\ Peek.kind # "Eof"
    BY <2>1, SomeSorts
  <2> QED
    BY <2>1, <2>5, <2>6, <2>7, CallKeeps
<1>10. CASE ~Check("Else")
  <2>1. Stay /\ Become(<<>>) /\ Returning(0) /\ Peek.kind # "Else"
    BY <1>10 DEF Check
  <2>2. Calm /\ Calm'
    BY <2>1 DEF Calm, Peek, Stay, Returning
  <2>3. Fit(nodes, open, Calm, base \o <<b>>, results)
    <3>1. base \in Seq(Sorts) /\ Below(<<Fresh>>, <<b>>)
      BY <1>5, <1>8, FirmSeq, OneBelow
    <3> QED
      BY <1>5, <1>8, <3>1, SomeSorts, SmallStacks, FitWeaker
  <2> DEFINE s == base \o <<b>>
             m == base \o <<b, Absent>>
  <2>4. s \in Seq(Sorts)
    BY <1>5, <1>8, SmallStacks, FrameConcat
  <2>5. Append(s, Absent) = m
    <3>1. /\ m \in Seq(Sorts) /\ Len(m) = Len(base) + 2 /\ Len(base) \in Nat
          /\ m[Len(base) + 1] = b /\ m[Len(base) + 2] = Absent
          /\ \A i \in 1 .. Len(base) : m[i] = base[i]
      BY <1>5, <1>8, SomeSorts, TwoOnTop
    <3>2. s = Append(base, b) /\ base \in Seq(Sorts)
      BY <1>5, <1>8, FramePush, FirmSeq
    <3>3. /\ Len(s) = Len(base) + 1 /\ s[Len(base) + 1] = b
          /\ \A i \in 1 .. Len(base) : s[i] = base[i]
      BY <1>8, <3>2, AppendProperties
    <3> HIDE DEF s, m
    <3>4. /\ \A i \in 1 .. Len(s) : i \in 1 .. Len(base) \/ i = Len(base) + 1
          /\ Len(m) = Len(s) + 1 /\ Len(s) + 1 = Len(base) + 2
      BY <3>1, <3>3
    <3>5. \A i \in 1 .. Len(s) : m[i] = s[i]
      BY <3>1, <3>3, <3>4
    <3>6. m[Len(s) + 1] = Absent
      BY <3>1, <3>4
    <3> QED
      BY <2>4, <3>1, <3>4, <3>5, <3>6, SomeSorts, AppendIs
  <2>6. Fits(nodes, open, Calm, Absent, 0)
    BY <2>2, SortNames DEF Fits
  <2>7. Fit(nodes, open, Calm, m, Append(results, 0))
    <3> HIDE DEF s, m
    <3>1. Fit(nodes, open, Calm, s, results)
      BY <2>3 DEF s
    <3> QED
      BY <2>4, <2>5, <2>6, <3>1, SomeSorts, FitAppend
  <2>8. m \in Seq(Sorts) /\ Does(Tail(todo), m, <<Never>>)
    BY <1>5, <1>8, SomeSorts, TwoOnTop
  <2> HIDE DEF s, m
  <2>9. todo' = Tail(todo)
    <3>1. Tail(todo) \in Seq(Record)
      BY <1>5 DEF Does
    <3> QED
      BY <2>1, <3>1, ConcatEmptySeq DEF Become
  <2>10. /\ nodes' = nodes /\ tokens' = tokens /\ parsed' = parsed
         /\ results' = Append(results, 0) /\ current' = current
    BY <2>1 DEF Returning, Stay
  <2>11. Calm' <=> Calm
    BY <2>2
  <2>12. Fit(nodes', open, Calm', m, results')
    BY <2>7, <2>10, <2>11 DEF Fit, Fits
  <2>13. WellTyped'
    BY <1>5, <2>8, <2>9, <2>10, <2>12 DEF WellTyped
  <2>14. CursorFits'
    BY <2>10, CursorMoves DEF ParserInv
  <2> QED
    BY <2>10, <2>13, <2>14 DEF ParserInv
<1> QED
  BY <1>9, <1>10

LEMMA OptionalKeeps ==
  ASSUME ParserInv, ParseOptional
  PROVE  ParserInv'
<1>1. CASE /\ At("initializer")
           /\ IF Check("Equal") THEN Advance /\ Become(Expr) /\ Calling
                                ELSE Stay /\ Become(<<>>) /\ Returning(0)
  BY <1>1, InitializerKeeps
<1>2. CASE /\ At("else")
           /\ IF Check("Else") THEN Advance /\ Become(<<Do("stmt")>>) /\ Calling
                               ELSE Stay /\ Become(<<>>) /\ Returning(0)
  BY <1>2, ElseKeeps
<1> QED
  BY <1>1, <1>2 DEF ParseOptional

(***************************************************************************)
(* Expressions.                                                            *)
(***************************************************************************)

LEMMA MoreKeeps ==
  ASSUME ParserInv, ParseMore
  PROVE  ParserInv'
<1> DEFINE l == Head(todo).level
           op == Peek.kind
<1>1. Head(todo).do = "more" /\ Signature(Head(todo)) # {}
  BY HeadSigned DEF ParseMore, At, ParserInv
<1>2. Signature(Head(todo)) = {Sig(<<Ex(k)>>, <<Ex(k)>>) : k \in {l} \cap DOMAIN Level}
  BY <1>1 DEF Signature
<1>3. l \in 1 .. 6 /\ DOMAIN Level = 1 .. 6
  BY <1>1, <1>2 DEF Level
<1>4. \A sig \in Signature(Head(todo)) : sig = Sig(<<Ex(l)>>, <<Ex(l)>>)
  BY <1>2
<1>5. <<Ex(l)>> \in Seq(Sorts) /\ <<Ex(l)>> \in Seq(Firm) /\ Ex(l) \in Sorts
  BY <1>3, SortFacts, SmallStacks
<1> HIDE DEF l
<1>6. PICK open, base : \E b \in Sorts : Sub(Ex(l), b) /\ Pending(open, base, <<Ex(l)>>, <<b>>)
  BY <1>4, <1>5, HeadOne DEF ParserInv
<1>7. PICK b \in Sorts : Sub(Ex(l), b) /\ Pending(open, base, <<Ex(l)>>, <<b>>)
  BY <1>6
<1>8. CASE op \in Level[l]
  <2>1. /\ Advance /\ Calling
        /\ Become(Operand(l + 1) \o <<BuildOp(KindOf(op), op), More(l)>>)
    BY <1>8 DEF ParseMore, l
  <2>2. Does(Operand(l + 1) \o <<BuildOp(KindOf(op), op), More(l)>>, <<Ex(l)>>, <<b>>)
    BY <1>3, <1>7, <1>8, MoreDoes
  <2>3. Peek.kind # "Eof"
    BY <1>3, <1>8, LevelOperators DEF BinaryOp, LogicalOp
  <2> QED
    BY <1>5, <1>7, <2>1, <2>2, <2>3, CallKeeps
<1>9. CASE op \notin Level[l]
  <2>1. Stay /\ Become(<<>>) /\ Calling
    BY <1>9 DEF ParseMore, l
  <2>2. <<b>> \in Seq(Sorts) /\ Below(<<Ex(l)>>, <<b>>)
    BY <1>7, SmallStacks, OneBelow
  <2>3. Pending(open, base, <<b>>, <<b>>)
    BY <1>7, <2>2, PendingWeaker
  <2>4. Does(<<>>, <<b>>, <<b>>)
    BY <2>2, DoesNothing
  <2> QED
    BY <2>1, <2>3, <2>4, CallKeeps
<1> QED
  BY <1>8, <1>9

LEMMA UnaryKeeps ==
  ASSUME ParserInv, ParseUnary
  PROVE  ParserInv'
<1>1. \A sig \in Signature(Head(todo)) : sig = Sig(<<>>, <<Ex(7)>>)
  BY DEF ParseUnary, At, Signature
<1>2. PICK open, base : \E b \in Sorts : Sub(Ex(7), b) /\ Pending(open, base, <<>>, <<b>>)
  BY <1>1, SmallStacks, HeadOne DEF ParserInv
<1>3. PICK b \in Sorts : Sub(Ex(7), b) /\ Pending(open, base, <<>>, <<b>>)
  BY <1>2
<1>4. CASE Peek.kind \in UnaryOp
  <2>1. /\ Advance /\ Become(<<Do("unary"), BuildOp("Unary", Peek.kind)>>) /\ Calling
        /\ Peek.kind # "Eof"
    BY <1>4 DEF ParseUnary, UnaryOp
  <2>2. Does(<<Do("unary"), BuildOp("Unary", Peek.kind)>>, <<>>, <<b>>)
    BY <1>3, <1>4, UnaryDoes
  <2> QED
    BY <1>3, <2>1, <2>2, SmallStacks, CallKeeps
<1>5. CASE Peek.kind \notin UnaryOp
  <2>1. Stay /\ Become(<<Do("primary"), Do("calls")>>) /\ Calling
    BY <1>5 DEF ParseUnary
  <2>2. Does(<<Do("primary"), Do("calls")>>, <<>>, <<b>>)
    BY <1>3, UnaryDoes
  <2> QED
    BY <1>3, <2>1, <2>2, CallKeeps
<1> QED
  BY <1>4, <1>5

LEMMA CallsKeep ==
  ASSUME ParserInv, ParseCalls
  PROVE  ParserInv'
<1>1. \A sig \in Signature(Head(todo)) : sig = Sig(<<Ex(8)>>, <<Ex(8)>>)
  BY DEF ParseCalls, At, Signature
<1>2. PICK open, base : \E b \in Sorts : Sub(Ex(8), b) /\ Pending(open, base, <<Ex(8)>>, <<b>>)
  BY <1>1, SomeSorts, SmallStacks, HeadOne DEF ParserInv
<1>3. PICK b \in Sorts : Sub(Ex(8), b) /\ Pending(open, base, <<Ex(8)>>, <<b>>)
  BY <1>2
<1>4. CASE Check("LParen")
  <2>1. Advance /\ Become(<<Do("args")>>) /\ Calling /\ Peek.kind # "Eof"
    BY <1>4 DEF ParseCalls, Check
  <2>2. Does(<<Do("args")>>, <<Ex(8)>>, <<b>>)
    BY <1>3, ArgsDoes
  <2> QED
    BY <1>3, <2>1, <2>2, SomeSorts, SmallStacks, CallKeeps
<1>5. CASE ~Check("LParen")
  <2>1. Stay /\ Become(<<>>) /\ Calling
    BY <1>5 DEF ParseCalls
  <2>2. <<b>> \in Seq(Sorts) /\ Below(<<Ex(8)>>, <<b>>)
    BY <1>3, SmallStacks, OneBelow
  <2>3. Pending(open, base, <<b>>, <<b>>)
    BY <1>3, <2>2, PendingWeaker
  <2>4. Does(<<>>, <<b>>, <<b>>)
    BY <2>2, DoesNothing
  <2> QED
    BY <2>1, <2>3, <2>4, CallKeeps
<1> QED
  BY <1>4, <1>5

LEMMA AssignmentKeeps ==
  ASSUME ParserInv, ParseAssignment
  PROVE  ParserInv'
<1>1. \A sig \in Signature(Head(todo)) : sig = Sig(<<Ex(1)>>, <<Ex(0)>>)
  BY DEF ParseAssignment, At, Signature
<1>2. Ex(1) \in Sorts /\ Ex(1) \in Firm /\ Ex(0) \in Sorts /\ Sub(Ex(1), Ex(0))
  BY SortFacts
<1>3. PICK open, base : \E b \in Sorts : Sub(Ex(0), b) /\ Pending(open, base, <<Ex(1)>>, <<b>>)
  BY <1>1, <1>2, SmallStacks, HeadOne DEF ParserInv
<1>4. PICK b \in Sorts : Sub(Ex(0), b) /\ Pending(open, base, <<Ex(1)>>, <<b>>)
  BY <1>3
<1>5. CASE Check("Equal")
  <2>1. Advance /\ Become(Expr \o <<Do("assignTo")>>) /\ Calling /\ Peek.kind # "Eof"
    BY <1>5 DEF ParseAssignment, Check
  <2>2. Does(Expr \o <<Do("assignTo")>>, <<Ex(1)>>, <<b>>)
    BY <1>4, AssignDoes
  <2> QED
    BY <1>2, <1>4, <2>1, <2>2, SmallStacks, CallKeeps
<1>6. CASE ~Check("Equal")
  <2>1. Stay /\ Become(<<>>) /\ Calling
    BY <1>6 DEF ParseAssignment
  <2>2. Sub(Ex(1), b)
    <3>1. \E i \in 0 .. 0 : b = Ex(i)
      BY <1>4, SubFacts
    <3>2. b = Ex(0)
      BY <3>1
    <3> QED
      BY <1>2, <3>2
  <2>3. <<b>> \in Seq(Sorts) /\ Below(<<Ex(1)>>, <<b>>)
    BY <1>4, <2>2, SmallStacks, OneBelow
  <2>4. Pending(open, base, <<b>>, <<b>>)
    BY <1>4, <2>3, PendingWeaker
  <2>5. Does(<<>>, <<b>>, <<b>>)
    BY <2>3, DoesNothing
  <2> QED
    BY <2>1, <2>4, <2>5, CallKeeps
<1> QED
  BY <1>5, <1>6

\* Nodes as they are made.
LEMMA LeavesTyped ==
  /\ \A v \in Value : Literal(v) \in ASTNode(String, Value) /\ Children(Literal(v)) = {}
  /\ \A n \in String : VarExpr(n) \in ASTNode(String, Value) /\ Children(VarExpr(n)) = {}
<1>1. \A v \in Value : Literal(v) \in ASTNode(String, Value)
  BY DEF Literal, ASTNode
<1>2. \A n \in String : VarExpr(n) \in ASTNode(String, Value)
  BY DEF VarExpr, ASTNode
<1>3. \A v : Children(Literal(v)) = {} /\ Children(VarExpr(v)) = {}
  BY DEF Literal, VarExpr, Children
<1> QED
  BY <1>1, <1>2, <1>3

\* An expression is as tight as its node.
LEMMA ExprFits ==
  ASSUME NEW nds, NEW open, NEW calm, IsTree(nds, open), NEW at \in 1 .. Len(nds),
         NEW l \in 0 .. 8, Tight(nds, at) >= l, nds[at].kind \in ExprKind
  PROVE  Fits(nds, open, calm, Ex(l), at)
<1>1. at \in Nat /\ at \in 0 .. Len(nds)
  OBVIOUS
<1> QED
  BY <1>1, SortNames DEF Fits, IsExpr

\* What the children of a node have to be.
LEMMA SortedNodes ==
  ASSUME NEW nds, NEW node
  PROVE  /\ node.kind \in {"Literal", "Var"} => Sorted(nds, node)
         /\ /\ node.kind \in {"Grouping", "Unary", "Binary", "Logical", "Assign", "Call",
                              "ExprStmt", "Return", "VarDecl"}
            /\ \A k \in Children(node) : IsExpr(nds, k)
            => Sorted(nds, node)
         /\ node.kind = "Block" /\ (\A k \in Children(node) : IsStmt(nds, k)) => Sorted(nds, node)
         /\ node.kind = "FuncDecl" /\ node.body # 0 /\ nds[node.body].kind = "Block"
            => Sorted(nds, node)
         /\ /\ node.kind = "If"
            /\ IsExpr(nds, node.cond) /\ IsStmt(nds, node.then) /\ IsStmt(nds, node.else)
            => Sorted(nds, node)
         /\ node.kind = "While" /\ IsExpr(nds, node.cond) /\ IsStmt(nds, node.body)
            => Sorted(nds, node)
         /\ /\ node.kind = "For"
            /\ IsExpr(nds, node.cond) /\ IsExpr(nds, node.step)
            /\ IsStmt(nds, node.init) /\ IsStmt(nds, node.body)
            => Sorted(nds, node)
<1>1. node.kind \in {"Literal", "Var"} => Sorted(nds, node)
  BY DEF Sorted, ExprChildren, StmtChildren
<1>2. /\ node.kind \in {"Grouping", "Unary", "Binary", "Logical", "Assign", "Call",
                        "ExprStmt", "Return", "VarDecl"}
      /\ \A k \in Children(node) : IsExpr(nds, k)
      => Sorted(nds, node)
  BY DEF Sorted, ExprChildren, StmtChildren
<1>3. node.kind = "Block" /\ (\A k \in Children(node) : IsStmt(nds, k)) => Sorted(nds, node)
  BY DEF Sorted, ExprChildren, StmtChildren
<1>4. node.kind = "FuncDecl" /\ node.body # 0 /\ nds[node.body].kind = "Block"
      => Sorted(nds, node)
  BY DEF Sorted, ExprChildren, StmtChildren, Children, IsStmt, ExprKind
<1>5. /\ node.kind = "If"
      /\ IsExpr(nds, node.cond) /\ IsStmt(nds, node.then) /\ IsStmt(nds, node.else)
      => Sorted(nds, node)
  BY DEF Sorted, ExprChildren, StmtChildren
<1>6. node.kind = "While" /\ IsExpr(nds, node.cond) /\ IsStmt(nds, node.body)
      => Sorted(nds, node)
  BY DEF Sorted, ExprChildren, StmtChildren
<1>7. /\ node.kind = "For"
      /\ IsExpr(nds, node.cond) /\ IsExpr(nds, node.step)
      /\ IsStmt(nds, node.init) /\ IsStmt(nds, node.body)
      => Sorted(nds, node)
  BY DEF Sorted, ExprChildren, StmtChildren
<1> QED
  BY <1>1, <1>2, <1>3, <1>4, <1>5, <1>6, <1>7

LEMMA PrimaryKeeps ==
  ASSUME ParserInv, ParsePrimary
  PROVE  ParserInv'
<1>1. \A sig \in Signature(Head(todo)) : sig = Sig(<<>>, <<Ex(8)>>)
  BY DEF ParsePrimary, At, Signature
<1>2. PICK open, base : \E b \in Sorts : Sub(Ex(8), b) /\ Pending(open, base, <<>>, <<b>>)
  BY <1>1, SmallStacks, HeadOne DEF ParserInv
<1>3. PICK b \in Sorts : Sub(Ex(8), b) /\ Pending(open, base, <<>>, <<b>>)
  BY <1>2
<1>4. ASSUME NEW node \in ASTNode(String, Value), node.kind \in {"Literal", "Var"},
             Children(node) = {}, Making(0, node), Become(<<>>), Advance, Peek.kind # "Eof"
      PROVE  ParserInv'
  <2>1. Shaped(nodes, open, node)
    BY <1>4, SortedNodes DEF Shaped
  <2>2. Children(node) \subseteq 0 .. Len(nodes) /\ Making(Len(<<>>), node)
    BY <1>4
  <2>3. ASSUME NEW at \in 1 .. Len(nodes'), NEW open2,
               nodes'[at] = node, IsTree(nodes', open2), Grown(nodes, open, nodes', open2)
        PROVE  Fits(nodes', open2, Calm', Ex(8), at)
    <3>1. Tight(nodes', at) = 8 /\ nodes'[at].kind \in ExprKind
      BY <1>4, <2>3 DEF Tight, ExprKind
    <3> QED
      BY <2>3, <3>1, ExprFits
  <2> QED
    BY <1>3, <1>4, <2>1, <2>2, <2>3, SomeSorts, MakeKeeps
<1>5. CASE Peek.kind \in LiteralKind
  <2>1. /\ Advance /\ Become(<<>>) /\ Making(0, Literal(LiteralOf(Peek))) /\ Peek.kind # "Eof"
    BY <1>5 DEF ParsePrimary, LiteralKind
  <2>2. LiteralOf(Peek) \in Value
    <3>1. Peek.literal \in Value
      BY PeekFacts DEF ParserInv
    <3>2. Bool(TRUE) \in Value /\ Bool(FALSE) \in Value /\ Null \in Value
      BY DEF Value, Bool
    <3> QED
      BY <3>1, <3>2 DEF LiteralOf
  <2>3. Literal(LiteralOf(Peek)).kind = "Literal"
    BY DEF Literal
  <2> QED
    BY <1>4, <2>1, <2>2, <2>3, LeavesTyped
<1>6. CASE Peek.kind = "Identifier"
  <2>1. /\ Advance /\ Become(<<>>) /\ Making(0, VarExpr(Peek.literal.val)) /\ Peek.kind # "Eof"
    BY <1>6 DEF ParsePrimary, LiteralKind
  <2>2. Peek.literal.val \in String
    BY <1>6, PeekFacts DEF ParserInv
  <2>3. VarExpr(Peek.literal.val).kind = "Var"
    BY DEF VarExpr
  <2> QED
    BY <1>4, <2>1, <2>2, <2>3, LeavesTyped
<1>7. CASE Peek.kind = "LParen"
  <2>1. /\ Advance /\ Become(Expr \o <<Consume("RParen"), Build("Grouping")>>) /\ Calling
        /\ Peek.kind # "Eof"
    BY <1>7 DEF ParsePrimary, LiteralKind
  <2>2. Does(Expr \o <<Consume("RParen"), Build("Grouping")>>, <<>>, <<b>>)
    BY <1>3, GroupDoes
  <2> QED
    BY <1>3, <2>1, <2>2, SmallStacks, CallKeeps
<1>8. CASE Peek.kind \notin LiteralKind /\ Peek.kind # "Identifier" /\ Peek.kind # "LParen"
  <2>1. Stay /\ Become(<<>>) /\ Returning(0)
    BY <1>8 DEF ParsePrimary
  <2>2. Fits(nodes, open, Calm', Ex(8), 0)
    BY <1>3, NullFits DEF Pending
  <2> QED
    BY <1>3, <2>1, <2>2, SomeSorts, ReturnKeeps
<1> QED
  BY <1>5, <1>6, <1>7, <1>8

(***************************************************************************)
(* Nodes.                                                                  *)
(***************************************************************************)

\* The results that a call takes have the sorts it takes.
Given(open, t) ==
  /\ IsTree(nodes, open)
  /\ Parts(Len(t)) \in Seq(Nat) /\ Len(Parts(Len(t))) = Len(t)
  /\ \A i \in 1 .. Len(t) : Fits(nodes, open, Calm, t[i], Parts(Len(t))[i])

\* How tightly a node holds together.
TightAs(node) ==
  CASE node.kind = "Assign" -> 0
    [] node.kind \in {"Binary", "Logical"} -> LevelOf(node.op)
    [] node.kind = "Unary" -> 7
    [] OTHER -> 8

\* A node that can be made, of this sort.
Good(open, node, g) ==
  /\ node \in ASTNode(String, Value)
  /\ Children(node) \subseteq 0 .. Len(nodes)
  /\ Shaped(nodes, open, node)
  /\ \/ g = Fresh /\ node.kind \notin ExprKind /\ (TakesOne(node, open) => Calm)
     \/ g = Body /\ node.kind = "Block"
     \/ \E l \in 0 .. 8 : g = Ex(l) /\ node.kind \in ExprKind /\ TightAs(node) >= l

LEMMA PartsFit ==
  ASSUME NEW open, NEW base, NEW t, NEW y, Pending(open, base, t, y)
  PROVE  /\ Given(open, t)
         /\ t # <<>> => Last(results) = Parts(Len(t))[Len(t)]
<1> DEFINE n == Len(t)
           s == base \o t
           h == Len(base)
           N == Len(results)
<1>1. /\ IsTree(nodes, open) /\ base \in Seq(Firm) /\ t \in Seq(Sorts)
      /\ Fit(nodes, open, Calm, s, results)
  BY DEF Pending
<1>2. base \in Seq(Sorts) /\ h \in Nat /\ n \in Nat
  BY <1>1, FirmSeq
<1>3. /\ Len(s) = h + n
      /\ \A i \in 1 .. h + n : s[i] = IF i <= h THEN base[i] ELSE t[i - h]
  BY <1>1, <1>2, ConcatProperties
<1>4. /\ results \in Seq(Nat) /\ Len(s) = N
      /\ \A i \in 1 .. Len(s) : Fits(nodes, open, Calm, s[i], results[i])
  BY <1>1 DEF Fit
<1> HIDE DEF n, h, s, N
<1>5. N = h + n /\ N \in Nat /\ N - n + 1 = h + 1
  BY <1>2, <1>3, <1>4
<1> DEFINE p == SubSeq(results, h + 1, N)
<1>6. p = Parts(n)
  BY <1>5 DEF Parts, N
<1>7. /\ p \in Seq(Nat) /\ Len(p) = n /\ \A i \in 1 .. n : p[i] = results[h + i]
  <2>1. \A i \in h + 1 .. N : results[i] \in Nat
    <3>1. \A i \in h + 1 .. N : i \in 1 .. Len(results)
      BY <1>2, <1>5 DEF N
    <3> QED
      BY <1>4, <3>1
  <2>2. /\ p \in Seq(Nat)
        /\ Len(p) = IF h + 1 <= N THEN N - (h + 1) + 1 ELSE 0
        /\ \A i \in 1 .. N - (h + 1) + 1 : p[i] = results[(h + 1) + i - 1]
    <3>1. h + 1 \in Int /\ N \in Int
      BY <1>2, <1>5
    <3> QED
      BY <2>1, <3>1, SubSeqProperties
  <2>3. N - (h + 1) + 1 = n /\ (~ (h + 1 <= N) => n = 0)
    BY <1>2, <1>5
  <2>4. \A i \in 1 .. n : (h + 1) + i - 1 = h + i
    BY <1>2
  <2> HIDE DEF p
  <2>5. Len(p) = n
    BY <1>2, <2>2, <2>3
  <2>6. \A i \in 1 .. n : p[i] = results[h + i]
    BY <2>2, <2>3, <2>4
  <2> QED
    BY <2>2, <2>5, <2>6
<1> HIDE DEF p
<1>8. \A i \in 1 .. n : s[h + i] = t[i] /\ h + i \in 1 .. Len(s)
  <2> TAKE i \in 1 .. n
  <2>1. h + i \in 1 .. h + n /\ ~ (h + i <= h) /\ (h + i) - h = i
    BY <1>2
  <2> QED
    BY <1>3, <2>1
<1>9. \A i \in 1 .. n : Fits(nodes, open, Calm, t[i], p[i])
  BY <1>4, <1>7, <1>8
<1>10. Given(open, t)
  BY <1>1, <1>6, <1>7, <1>9 DEF Given, n
<1>11. ASSUME t # <<>> PROVE Last(results) = p[n]
  <2>1. n # 0
    BY <1>1, <1>11, EmptySeq DEF n
  <2>2. n \in 1 .. n
    BY <1>2, <2>1
  <2>3. Last(results) = results[h + n]
    BY <1>5 DEF Last, N
  <2> QED
    BY <1>7, <2>2, <2>3
<1> QED
  BY <1>6, <1>10, <1>11 DEF n

LEMMA MadeKeeps ==
  ASSUME ParserInv, NEW open, NEW base, NEW t, NEW b \in Sorts, Pending(open, base, t, <<b>>),
         NEW g, Sub(g, b), NEW node, Good(open, node, g),
         Making(Len(t), node), Become(<<>>),
         Stay \/ (Advance /\ Peek.kind # "Eof" /\ ~TakesOne(node, open))
  PROVE  ParserInv'
<1>1. /\ node \in ASTNode(String, Value) /\ Children(node) \subseteq 0 .. Len(nodes)
      /\ Shaped(nodes, open, node)
  BY DEF Good
<1>2. g \in Sorts
  BY SomeSorts, SortFacts DEF Good
<1>3. tokens' = tokens
  BY DEF Making
<1>4. g = Fresh => (TakesOne(node, open) => Calm')
  <2>1. CASE Stay
    <3>1. Calm' <=> Calm
      BY <1>3, <2>1 DEF Calm, Peek, Stay
    <3>2. Fresh # Body /\ \A l : Fresh # Ex(l)
      BY SortNames
    <3> QED
      BY <3>1, <3>2 DEF Good
  <2>2. CASE ~TakesOne(node, open)
    BY <2>2
  <2> QED
    BY <2>1, <2>2
<1>5. Len(nodes) \in Nat
  BY DEF Pending, IsTree
<1>6. ASSUME NEW at \in 1 .. Len(nodes'), NEW open2,
             nodes'[at] = node, IsTree(nodes', open2), Grown(nodes, open, nodes', open2)
      PROVE  Fits(nodes', open2, Calm', g, at)
  <2>1. CASE g = Fresh
    <3>1. TakesOne(node, open2) <=> TakesOne(node, open)
      BY <1>1, <1>5, <1>6, TakesGrown
    <3>2. at \in open2 <=> TakesOne(node, open2)
      BY <1>6 DEF IsTree
    <3>3. at \in Nat
      OBVIOUS
    <3>4. IsStmt(nodes', at)
      <4>1. Fresh # Body /\ \A l : Fresh # Ex(l)
        BY SortNames
      <4> QED
        BY <1>6, <2>1, <4>1 DEF Good, IsStmt
    <3> QED
      BY <1>4, <2>1, <3>1, <3>2, <3>3, <3>4, SortNames DEF Fits
  <2>2. CASE g = Body /\ node.kind = "Block"
    <3>1. at \in Nat /\ nodes'[at].kind = "Block"
      BY <1>6, <2>2
    <3> QED
      BY <2>2, <3>1, SortNames DEF Fits
  <2>3. CASE \E l \in 0 .. 8 : g = Ex(l) /\ node.kind \in ExprKind /\ TightAs(node) >= l
    <3>1. PICK l \in 0 .. 8 : g = Ex(l) /\ node.kind \in ExprKind /\ TightAs(node) >= l
      BY <2>3
    <3>2. Tight(nodes', at) = TightAs(node)
      BY <1>6 DEF Tight, TightAs
    <3> QED
      BY <1>6, <3>1, <3>2, ExprFits
  <2> QED
    BY <2>1, <2>2, <2>3 DEF Good
<1> QED
  BY <1>1, <1>2, <1>6, MakeKeeps

\* What the results of a sort are good for.
LEMMA GivenFacts ==
  ASSUME NEW open, NEW calm, NEW a, NEW k, IsTree(nodes, open), Fits(nodes, open, calm, a, k)
  PROVE  /\ k \in Nat
         /\ a = Name => k \in String
         /\ a # Name /\ a.of # "never" /\ a \in Sorts => k \in 0 .. Len(nodes)
         /\ \A l : a = Ex(l) => Tight(nodes, k) >= l /\ IsExpr(nodes, k)
         /\ a \in {AnyStmt, Perhaps, Shut, Fresh} => IsStmt(nodes, k)
         /\ a = Shut => k \notin open
         /\ a = Absent => k = 0 /\ calm
         /\ a = Fresh /\ k \in open => calm
<1>1. /\ \A l : a = Ex(l) => Tight(nodes, k) >= l /\ IsExpr(nodes, k)
      /\ a \in {AnyStmt, Perhaps, Shut, Fresh} => IsStmt(nodes, k)
  BY SortNames DEF Fits
<1>2. 0 \in 0 .. Len(nodes) /\ \A i \in 1 .. Len(nodes) : i \in 0 .. Len(nodes)
  BY DEF IsTree
<1>3. a \in Sorts /\ a # Name => a.of \in {"expr", "stmt", "perhaps", "shut", "fresh", "absent", "body", "never"}
  BY SortNames DEF Sorts
<1>4. a \in Sorts /\ a # Name /\ a.of # "never" => k \in 0 .. Len(nodes)
  BY <1>2, <1>3 DEF Fits
<1> QED
  BY <1>1, <1>4, SortNames DEF Fits

LEMMA NodesTyped ==
  /\ \A k \in Nat : /\ Grouping(k) \in ASTNode(String, Value)
                    /\ ExprStmt(k) \in ASTNode(String, Value)
                    /\ ReturnStmt(k) \in ASTNode(String, Value)
  /\ \A op \in UnaryOp, k \in Nat : Unary(op, k) \in ASTNode(String, Value)
  /\ \A op \in BinaryOp : \A j, k \in Nat : Binary(op, j, k) \in ASTNode(String, Value)
  /\ \A op \in LogicalOp : \A j, k \in Nat : Logical(op, j, k) \in ASTNode(String, Value)
  /\ \A n \in String, k \in Nat : /\ AssignExpr(n, k) \in ASTNode(String, Value)
                                  /\ VarDecl(n, k) \in ASTNode(String, Value)
  /\ \A k \in Nat, args \in Seq(Nat) : CallExpr(k, args) \in ASTNode(String, Value)
  /\ \A n \in String, params \in Seq(String), k \in Nat :
       FuncDecl(n, params, k) \in ASTNode(String, Value)
  /\ \A stmts \in Seq(Nat) : BlockStmt(stmts) \in ASTNode(String, Value)
  /\ \A i, j, k \in Nat : IfStmt(i, j, k) \in ASTNode(String, Value)
  /\ \A j, k \in Nat : WhileStmt(j, k) \in ASTNode(String, Value)
  /\ \A i, j, k, l \in Nat : ForStmt(i, j, k, l) \in ASTNode(String, Value)
<1>1. \A k \in Nat : Grouping(k) \in ASTNode(String, Value)
  BY DEF Grouping, ASTNode
<1>2. \A k \in Nat : ExprStmt(k) \in ASTNode(String, Value)
  BY DEF ExprStmt, ASTNode
<1>3. \A k \in Nat : ReturnStmt(k) \in ASTNode(String, Value)
  BY DEF ReturnStmt, ASTNode
<1>4. \A op \in UnaryOp, k \in Nat : Unary(op, k) \in ASTNode(String, Value)
  BY DEF Unary, ASTNode
<1>5. \A op \in BinaryOp : \A j, k \in Nat : Binary(op, j, k) \in ASTNode(String, Value)
  BY DEF Binary, ASTNode
<1>6. \A op \in LogicalOp : \A j, k \in Nat : Logical(op, j, k) \in ASTNode(String, Value)
  BY DEF Logical, ASTNode
<1>7. \A n \in String, k \in Nat : AssignExpr(n, k) \in ASTNode(String, Value)
  BY DEF AssignExpr, ASTNode
<1>8. \A n \in String, k \in Nat : VarDecl(n, k) \in ASTNode(String, Value)
  BY DEF VarDecl, ASTNode
<1>9. \A k \in Nat, args \in Seq(Nat) : CallExpr(k, args) \in ASTNode(String, Value)
  BY DEF CallExpr, ASTNode
<1>10. \A n \in String, params \in Seq(String), k \in Nat :
         FuncDecl(n, params, k) \in ASTNode(String, Value)
  BY DEF FuncDecl, ASTNode
<1>11. \A stmts \in Seq(Nat) : BlockStmt(stmts) \in ASTNode(String, Value)
  BY DEF BlockStmt, ASTNode
<1>12. \A i, j, k \in Nat : IfStmt(i, j, k) \in ASTNode(String, Value)
  BY DEF IfStmt, ASTNode
<1>13. \A j, k \in Nat : WhileStmt(j, k) \in ASTNode(String, Value)
  BY DEF WhileStmt, ASTNode
<1>14. \A i, j, k, l \in Nat : ForStmt(i, j, k, l) \in ASTNode(String, Value)
  BY DEF ForStmt, ASTNode
<1> QED
  BY <1>1, <1>2, <1>3, <1>4, <1>5, <1>6, <1>7, <1>8, <1>9, <1>10, <1>11, <1>12, <1>13, <1>14

\* Nodes that no `else' can belong to, and whose operands need not be tight.
LEMMA PlainNodes ==
  ASSUME NEW open, NEW node, Sorted(nodes, node),
         node.kind \in {"Literal", "Var", "Grouping", "Assign", "VarDecl",
                        "FuncDecl", "ExprStmt", "Return", "Block"}
  PROVE  ~TakesOne(node, open) /\ Shaped(nodes, open, node)
  BY DEF TakesOne, Shaped

\* What a step of make_shared makes of results of these sorts.
LEMMA BuildFrom ==
  ASSUME ParserInv, ParseBuild,
         NEW open, NEW base, NEW t, NEW b \in Sorts, Pending(open, base, t, <<b>>),
         NEW g, Sub(g, b), Arity(Head(todo)) = Len(t),
         Good(open, Built(Head(todo)), g)
  PROVE  ParserInv'
<1>1. CASE Head(todo).kind = "Unary" /\ Last(results) = 0
  <2>1. Fail("undefined")
    BY <1>1 DEF ParseBuild
  <2> QED
    BY <2>1, FailKeeps DEF Outcome
<1>2. CASE ~ (Head(todo).kind = "Unary" /\ Last(results) = 0)
  <2>1. Stay /\ Become(<<>>) /\ Making(Len(t), Built(Head(todo)))
    BY <1>2 DEF ParseBuild
  <2> QED
    BY <2>1, MadeKeeps
<1> QED
  BY <1>1, <1>2

\* The same where the call has one signature.
LEMMA BuildOne ==
  ASSUME ParserInv, ParseBuild, NEW t \in Seq(Sorts), NEW g,
         \A sig \in Signature(Head(todo)) : sig = Sig(t, <<g>>),
         Arity(Head(todo)) = Len(t),
         \A open : Given(open, t) => Good(open, Built(Head(todo)), g)
  PROVE  ParserInv'
<1>1. PICK open, base : \E b \in Sorts : Sub(g, b) /\ Pending(open, base, t, <<b>>)
  BY HeadOne DEF ParserInv
<1>2. PICK b \in Sorts : Sub(g, b) /\ Pending(open, base, t, <<b>>)
  BY <1>1
<1>3. Given(open, t)
  BY <1>2, PartsFit
<1> QED
  BY <1>2, <1>3, BuildFrom

LEMMA GoodStatement ==
  ASSUME NEW open, NEW node \in ASTNode(String, Value), Children(node) \subseteq 0 .. Len(nodes),
         Shaped(nodes, open, node), TakesOne(node, open) => Calm, node.kind \notin ExprKind
  PROVE  Good(open, node, Fresh)
  BY DEF Good

LEMMA GoodExpression ==
  ASSUME NEW open, NEW node \in ASTNode(String, Value), Children(node) \subseteq 0 .. Len(nodes),
         Shaped(nodes, open, node), NEW l \in 0 .. 8, TightAs(node) >= l,
         node.kind \in ExprKind
  PROVE  Good(open, node, Ex(l))
  BY DEF Good

LEMMA ExprStmtKeeps ==
  ASSUME ParserInv, ParseExprStmt
  PROVE  ParserInv'
<1> DEFINE k == Last(results)
           t == <<Ex(0)>>
<1>1. \A sig \in Signature(Head(todo)) : sig = Sig(t, <<Fresh>>)
  BY DEF ParseExprStmt, At, Signature
<1>2. t \in Seq(Sorts) /\ Len(t) = 1 /\ t # <<>> /\ t[1] = Ex(0)
  BY SomeSorts, SmallStacks
<1> HIDE DEF t
<1>3. PICK open, base : \E b \in Sorts : Sub(Fresh, b) /\ Pending(open, base, t, <<b>>)
  BY <1>1, <1>2, HeadOne DEF ParserInv
<1>4. PICK b \in Sorts : Sub(Fresh, b) /\ Pending(open, base, t, <<b>>)
  BY <1>3
<1>5. /\ k \in Nat /\ k \in 0 .. Len(nodes) /\ 0 \in 0 .. Len(nodes)
      /\ IsExpr(nodes, k) /\ IsExpr(nodes, 0)
  <2>1. Given(open, t) /\ k = Parts(1)[1]
    BY <1>2, <1>4, PartsFit
  <2>2. Fits(nodes, open, Calm, Ex(0), k) /\ IsTree(nodes, open)
    BY <1>2, <2>1 DEF Given
  <2> QED
    BY <2>2, SortNames DEF Fits, IsTree, IsExpr
<1>6. \A j \in 0 .. Len(nodes) :
        j \in Nat /\ IsExpr(nodes, j) => Good(open, ExprStmt(j), Fresh) /\ ~TakesOne(ExprStmt(j), open)
  <2> TAKE j \in 0 .. Len(nodes)
  <2> HAVE j \in Nat /\ IsExpr(nodes, j)
  <2>1. ExprStmt(j) \in ASTNode(String, Value)
    BY NodesTyped
  <2>2. ExprStmt(j).kind = "ExprStmt" /\ Children(ExprStmt(j)) = {j}
    BY DEF ExprStmt, Children
  <2>3. ~TakesOne(ExprStmt(j), open) /\ Shaped(nodes, open, ExprStmt(j))
    BY <2>2, SortedNodes, PlainNodes
  <2>4. "ExprStmt" \notin ExprKind
    BY DEF ExprKind
  <2> QED
    BY <2>1, <2>2, <2>3, <2>4, GoodStatement
<1>7. CASE k = 0
  <2>1. Stay /\ Become(<<>>) /\ Making(Len(t), ExprStmt(0))
    BY <1>2, <1>7 DEF ParseExprStmt
  <2>2. Good(open, ExprStmt(0), Fresh)
    BY <1>5, <1>6
  <2> QED
    BY <1>4, <2>1, <2>2, MadeKeeps
<1>8. CASE k # 0 /\ current + 1 >= Len(tokens)
  <2>1. Fail("undefined")
    BY <1>8 DEF ParseExprStmt
  <2> QED
    BY <2>1, FailKeeps DEF Outcome
<1>9. CASE k # 0 /\ ~ (current + 1 >= Len(tokens)) /\ Check("Semicolon")
  <2>1. Advance /\ Become(<<>>) /\ Making(Len(t), ExprStmt(k)) /\ Peek.kind # "Eof"
    BY <1>2, <1>9 DEF ParseExprStmt, Check
  <2>2. Good(open, ExprStmt(k), Fresh) /\ ~TakesOne(ExprStmt(k), open)
    BY <1>5, <1>6
  <2> QED
    BY <1>4, <2>1, <2>2, MadeKeeps
<1>10. CASE k # 0 /\ ~ (current + 1 >= Len(tokens)) /\ ~Check("Semicolon")
  <2>1. Fail("invalid_argument")
    BY <1>10 DEF ParseExprStmt
  <2> QED
    BY <2>1, FailKeeps DEF Outcome
<1> QED
  BY <1>7, <1>8, <1>9, <1>10

LEMMA AssignToKeeps ==
  ASSUME ParserInv, ParseAssignTo
  PROVE  ParserInv'
<1> DEFINE t == <<Ex(0), Ex(0)>>
           target == Parts(2)[1]
           k == Last(results)
           node == AssignExpr(nodes[target].name, k)
<1>1. \A sig \in Signature(Head(todo)) : sig = Sig(t, <<Ex(0)>>)
  BY DEF ParseAssignTo, At, Signature
<1>2. t \in Seq(Sorts) /\ Len(t) = 2 /\ t # <<>> /\ t[1] = Ex(0) /\ t[2] = Ex(0)
  BY SomeSorts, SmallStacks
<1> HIDE DEF t
<1>3. PICK open, base : \E b \in Sorts : Sub(Ex(0), b) /\ Pending(open, base, t, <<b>>)
  BY <1>1, <1>2, HeadOne DEF ParserInv
<1>4. PICK b \in Sorts : Sub(Ex(0), b) /\ Pending(open, base, t, <<b>>)
  BY <1>3
<1>5. /\ target \in 0 .. Len(nodes) /\ k \in 0 .. Len(nodes) /\ k \in Nat
      /\ IsExpr(nodes, k)
  <2>1. Given(open, t) /\ k = Parts(2)[2]
    BY <1>2, <1>4, PartsFit
  <2>2. Fits(nodes, open, Calm, Ex(0), target) /\ Fits(nodes, open, Calm, Ex(0), k)
    <3>1. 1 \in 1 .. 2 /\ 2 \in 1 .. 2
      OBVIOUS
    <3> QED
      BY <1>2, <2>1, <3>1 DEF Given
  <2> QED
    BY <2>2, SortNames DEF Fits
<1>6. CASE target = 0
  <2>1. Fail("undefined")
    BY <1>6 DEF ParseAssignTo
  <2> QED
    BY <2>1, FailKeeps DEF Outcome
<1>7. CASE target # 0 /\ nodes[target].kind # "Var"
  <2>1. Fail("runtime_error")
    BY <1>7 DEF ParseAssignTo
  <2> QED
    BY <2>1, FailKeeps DEF Outcome
<1>8. CASE target # 0 /\ nodes[target].kind = "Var"
  <2>1. Stay /\ Become(<<>>) /\ Making(Len(t), node)
    BY <1>2, <1>8 DEF ParseAssignTo
  <2>2. nodes[target] \in ASTNode(String, Value)
    BY <1>4, <1>5, <1>8 DEF Pending, IsTree
  <2>3. nodes[target].name \in String
    BY <1>8, <2>2 DEF ASTNode
  <2>4. node \in ASTNode(String, Value)
    BY <1>5, <2>3, NodesTyped
  <2>5. node.kind = "Assign" /\ Children(node) = {k}
    BY DEF AssignExpr, Children
  <2>6. Shaped(nodes, open, node) /\ TightAs(node) = 0
    BY <1>5, <2>5, SortedNodes, PlainNodes DEF TightAs
  <2>7. Good(open, node, Ex(0))
    <3>1. TightAs(node) >= 0 /\ Children(node) \subseteq 0 .. Len(nodes) /\ node.kind \in ExprKind
      BY <1>5, <2>5, <2>6 DEF ExprKind
    <3> QED
      BY <2>4, <2>6, <3>1, GoodExpression
  <2> QED
    BY <1>4, <2>1, <2>7, MadeKeeps
<1> QED
  BY <1>6, <1>7, <1>8

LEMMA AtBuild ==
  ASSUME ParserInv, ParseBuild
  PROVE  /\ Signature(Head(todo)) = BuildSignature(Head(todo))
         /\ BuildSignature(Head(todo)) # {}
         /\ Head(todo).kind \in Constructed /\ Head(todo).count \in Nat
<1>1. Head(todo).do = "build" /\ Head(todo) \in Record /\ Signature(Head(todo)) # {}
  BY HeadSigned DEF ParseBuild, At, ParserInv
<1>2. Signature(Head(todo)) = BuildSignature(Head(todo))
  BY <1>1 DEF Signature
<1>3. Head(todo).kind \in Constructed /\ Head(todo).count \in Nat
  BY <1>1 DEF Record, Calls
<1> QED
  BY <1>1, <1>2, <1>3

\* The latest results, one by one.
LEMMA GivenSmall ==
  ASSUME NEW open
  PROVE  /\ \A a : Given(open, <<a>>) => Fits(nodes, open, Calm, a, Parts(1)[1])
         /\ \A a, b : Given(open, <<a, b>>) =>
              Fits(nodes, open, Calm, a, Parts(2)[1]) /\ Fits(nodes, open, Calm, b, Parts(2)[2])
         /\ \A a, b, c : Given(open, <<a, b, c>>) =>
              /\ Fits(nodes, open, Calm, a, Parts(3)[1])
              /\ Fits(nodes, open, Calm, b, Parts(3)[2])
              /\ Fits(nodes, open, Calm, c, Parts(3)[3])
         /\ \A a, b, c, d : Given(open, <<a, b, c, d>>) =>
              /\ Fits(nodes, open, Calm, a, Parts(4)[1])
              /\ Fits(nodes, open, Calm, b, Parts(4)[2])
              /\ Fits(nodes, open, Calm, c, Parts(4)[3])
              /\ Fits(nodes, open, Calm, d, Parts(4)[4])
<1>1. ASSUME NEW a, Given(open, <<a>>) PROVE Fits(nodes, open, Calm, a, Parts(1)[1])
  <2> DEFINE t == <<a>>
  <2>1. Len(t) = 1 /\ t[1] = a /\ 1 \in 1 .. 1
    OBVIOUS
  <2>2. Given(open, t)
    BY <1>1
  <2> HIDE DEF t
  <2> QED
    BY <2>1, <2>2 DEF Given
<1>2. ASSUME NEW a, NEW b, Given(open, <<a, b>>)
      PROVE  Fits(nodes, open, Calm, a, Parts(2)[1]) /\ Fits(nodes, open, Calm, b, Parts(2)[2])
  <2> DEFINE t == <<a, b>>
  <2>1. Len(t) = 2 /\ t[1] = a /\ t[2] = b /\ 1 \in 1 .. 2 /\ 2 \in 1 .. 2
    OBVIOUS
  <2>2. Given(open, t)
    BY <1>2
  <2> HIDE DEF t
  <2> QED
    BY <2>1, <2>2 DEF Given
<1>3. ASSUME NEW a, NEW b, NEW c, Given(open, <<a, b, c>>)
      PROVE  /\ Fits(nodes, open, Calm, a, Parts(3)[1]) /\ Fits(nodes, open, Calm, b, Parts(3)[2])
             /\ Fits(nodes, open, Calm, c, Parts(3)[3])
  <2> DEFINE t == <<a, b, c>>
  <2>1. /\ Len(t) = 3 /\ t[1] = a /\ t[2] = b /\ t[3] = c
        /\ 1 \in 1 .. 3 /\ 2 \in 1 .. 3 /\ 3 \in 1 .. 3
    OBVIOUS
  <2>2. Given(open, t)
    BY <1>3
  <2> HIDE DEF t
  <2> QED
    BY <2>1, <2>2 DEF Given
<1>4. ASSUME NEW a, NEW b, NEW c, NEW d, Given(open, <<a, b, c, d>>)
      PROVE  /\ Fits(nodes, open, Calm, a, Parts(4)[1]) /\ Fits(nodes, open, Calm, b, Parts(4)[2])
             /\ Fits(nodes, open, Calm, c, Parts(4)[3]) /\ Fits(nodes, open, Calm, d, Parts(4)[4])
  <2> DEFINE t == <<a, b, c, d>>
  <2>1. /\ Len(t) = 4 /\ t[1] = a /\ t[2] = b /\ t[3] = c /\ t[4] = d
        /\ 1 \in 1 .. 4 /\ 2 \in 1 .. 4 /\ 3 \in 1 .. 4 /\ 4 \in 1 .. 4
    OBVIOUS
  <2>2. Given(open, t)
    BY <1>4
  <2> HIDE DEF t
  <2> QED
    BY <2>1, <2>2 DEF Given
<1> QED
  BY <1>1, <1>2, <1>3, <1>4

LEMMA BuildGroupingKeeps ==
  ASSUME ParserInv, ParseBuild, Head(todo).kind = "Grouping"
  PROVE  ParserInv'
<1> DEFINE t == <<Ex(0)>>
           node == Grouping(Parts(1)[1])
<1>1. \A sig \in Signature(Head(todo)) : sig = Sig(t, <<Ex(8)>>)
  BY AtBuild DEF BuildSignature
<1>2. t \in Seq(Sorts) /\ Len(t) = 1
  BY SomeSorts, SmallStacks
<1>3. Arity(Head(todo)) = Len(t)
  BY <1>2 DEF Arity
<1>4. Built(Head(todo)) = node
  BY DEF Built, Arity
<1>5. ASSUME NEW open, Given(open, t) PROVE Good(open, node, Ex(8))
  <2>1. Fits(nodes, open, Calm, Ex(0), Parts(1)[1])
    BY <1>5, GivenSmall
  <2>2. /\ Parts(1)[1] \in 0 .. Len(nodes) /\ Parts(1)[1] \in Nat
        /\ IsExpr(nodes, Parts(1)[1])
    BY <2>1, SortNames DEF Fits
  <2>3. node \in ASTNode(String, Value) /\ node.kind = "Grouping" /\ Children(node) = {Parts(1)[1]}
    <3>1. node \in ASTNode(String, Value)
      BY <2>2, NodesTyped
    <3> QED
      BY <3>1 DEF Grouping, Children
  <2>4. Shaped(nodes, open, node) /\ TightAs(node) = 8
    BY <2>2, <2>3, SortedNodes, PlainNodes DEF TightAs
  <2> HIDE DEF node
  <2>5. /\ TightAs(node) >= 8 /\ 8 \in 0 .. 8 /\ Children(node) \subseteq 0 .. Len(nodes)
        /\ node.kind \in ExprKind
    BY <2>2, <2>3, <2>4 DEF ExprKind
  <2> QED
    BY <2>3, <2>4, <2>5, GoodExpression
<1> HIDE DEF t, node
<1> QED
  BY <1>1, <1>2, <1>3, <1>4, <1>5, BuildOne

LEMMA BuildUnaryKeeps ==
  ASSUME ParserInv, ParseBuild, Head(todo).kind = "Unary"
  PROVE  ParserInv'
<1> DEFINE t == <<Ex(7)>>
           op == Head(todo).op
           node == Unary(op, Parts(1)[1])
<1>1. BuildSignature(Head(todo)) = {Sig(t, t) : o \in {op} \cap UnaryOp}
  BY DEF BuildSignature
<1>2. op \in UnaryOp
  BY <1>1, AtBuild
<1>3. \A sig \in Signature(Head(todo)) : sig = Sig(t, <<Ex(7)>>)
  BY <1>1, AtBuild
<1>4. t \in Seq(Sorts) /\ Len(t) = 1
  BY ExpressionSorts
<1>5. Arity(Head(todo)) = Len(t)
  BY <1>4 DEF Arity
<1>6. Built(Head(todo)) = node
  BY DEF Built, Arity
<1>7. ASSUME NEW open, Given(open, t) PROVE Good(open, node, Ex(7))
  <2>1. Fits(nodes, open, Calm, Ex(7), Parts(1)[1])
    BY <1>7, GivenSmall
  <2>2. /\ Parts(1)[1] \in 0 .. Len(nodes) /\ Parts(1)[1] \in Nat
        /\ Tight(nodes, Parts(1)[1]) >= 7 /\ IsExpr(nodes, Parts(1)[1])
    BY <2>1, SortNames DEF Fits
  <2>3. /\ node.kind = "Unary" /\ node.right = Parts(1)[1] /\ Children(node) = {Parts(1)[1]}
    BY DEF Unary, Children
  <2>4. node \in ASTNode(String, Value)
    BY <1>2, <2>2, NodesTyped
  <2> HIDE DEF node
  <2>5. Shaped(nodes, open, node) /\ TightAs(node) = 7
    BY <2>2, <2>3, SortedNodes DEF TightAs, Shaped
  <2>6. /\ TightAs(node) >= 7 /\ 7 \in 0 .. 8 /\ Children(node) \subseteq 0 .. Len(nodes)
        /\ node.kind \in ExprKind
    BY <2>2, <2>3, <2>5 DEF ExprKind
  <2> QED
    BY <2>4, <2>5, <2>6, GoodExpression
<1> HIDE DEF t, node
<1> QED
  BY <1>3, <1>4, <1>5, <1>6, <1>7, BuildOne

LEMMA BuildBinaryKeeps ==
  ASSUME ParserInv, ParseBuild, Head(todo).kind \in {"Binary", "Logical"}
  PROVE  ParserInv'
<1> DEFINE op == Head(todo).op
           j == Parts(2)[1]
           k == Parts(2)[2]
           node == IF Head(todo).kind = "Binary" THEN Binary(op, j, k) ELSE Logical(op, j, k)
<1>1. Head(todo).kind = KindOf(op) /\ BuildSignature(Head(todo)) = OperatorSignature(op)
  BY AtBuild DEF BuildSignature
<1>2. PICK l \in 1 .. 6 : op \in Level[l]
  <2>1. OperatorSignature(op) # {}
    BY <1>1, AtBuild
  <2>2. \E l \in DOMAIN Level : op \in Level[l]
    BY <2>1 DEF OperatorSignature
  <2>3. DOMAIN Level = 1 .. 6
    BY DEF Level
  <2> QED
    BY <2>2, <2>3
<1> DEFINE t == <<Ex(l), Ex(l + 1)>>
<1>3. \A sig \in Signature(Head(todo)) : sig = Sig(t, <<Ex(l)>>)
  <2>1. \A i \in DOMAIN Level : op \in Level[i] => i = l
    <3>1. DOMAIN Level = 1 .. 6
      BY DEF Level
    <3> QED
      BY <1>2, <3>1, LevelFacts
  <2> QED
    BY <1>1, <2>1, AtBuild DEF OperatorSignature
<1>4. t \in Seq(Sorts) /\ Len(t) = 2
  <2>1. l \in 0 .. 8 /\ l + 1 \in 0 .. 8
    OBVIOUS
  <2> QED
    BY <2>1, SortFacts, SmallStacks
<1>5. Arity(Head(todo)) = Len(t)
  BY <1>4 DEF Arity
<1>6. Built(Head(todo)) = node
  BY DEF Built, Arity
<1>7. ASSUME NEW open, Given(open, t) PROVE Good(open, node, Ex(l))
  <2>1. Fits(nodes, open, Calm, Ex(l), j) /\ Fits(nodes, open, Calm, Ex(l + 1), k)
    BY <1>7, GivenSmall
  <2>2. /\ j \in 0 .. Len(nodes) /\ j \in Nat /\ Tight(nodes, j) >= l
        /\ k \in 0 .. Len(nodes) /\ k \in Nat /\ Tight(nodes, k) >= l + 1
        /\ IsExpr(nodes, j) /\ IsExpr(nodes, k)
    BY <2>1, SortNames DEF Fits
  <2> HIDE DEF j, k
  <2>3. /\ node.kind \in {"Binary", "Logical"} /\ node.left = j /\ node.right = k
        /\ node.op = op /\ Children(node) = {j, k}
    BY DEF Binary, Logical, Children
  <2>4. node \in ASTNode(String, Value)
    <3>1. CASE Head(todo).kind = "Binary"
      <4>1. op \in BinaryOp
        BY <1>1, <1>2, <3>1, LevelOperators
      <4> QED
        BY <2>2, <3>1, <4>1, NodesTyped
    <3>2. CASE Head(todo).kind = "Logical"
      <4>1. op \in LogicalOp
        BY <1>1, <1>2, <3>2, LevelOperators
      <4> QED
        BY <2>2, <3>2, <4>1, NodesTyped
    <3> QED
      BY <3>1, <3>2
  <2>5. LevelOf(op) = l
    BY <1>2, LevelFacts
  <2>6. Tight(nodes, k) > l
    <3>1. Tight(nodes, k) \in Int
      <4>1. CASE k = 0
        BY <4>1 DEF Tight
      <4>2. CASE k # 0
        <5>1. nodes[k] \in ASTNode(String, Value)
          BY <1>7, <2>2, <4>2 DEF Given, IsTree
        <5>2. nodes[k].kind \in {"Binary", "Logical"} => nodes[k].op \in BinaryOp \cup LogicalOp
          BY <5>1 DEF ASTNode
        <5>3. nodes[k].kind \in {"Binary", "Logical"} => LevelOf(nodes[k].op) \in 1 .. 6
          BY <5>2, LevelFacts
        <5> QED
          BY <4>2, <5>3 DEF Tight
      <4> QED
        BY <4>1, <4>2
    <3> QED
      BY <2>2, <3>1
  <2> HIDE DEF node
  <2>7. Shaped(nodes, open, node)
    BY <2>2, <2>3, <2>5, <2>6, SortedNodes DEF Shaped
  <2>8. TightAs(node) = l
    BY <2>3, <2>5 DEF TightAs
  <2>9. /\ TightAs(node) >= l /\ l \in 0 .. 8 /\ Children(node) \subseteq 0 .. Len(nodes)
        /\ node.kind \in ExprKind
    BY <2>2, <2>3, <2>8 DEF ExprKind
  <2> QED
    BY <2>4, <2>7, <2>9, GoodExpression
<1> HIDE DEF t, node
<1> QED
  BY <1>3, <1>4, <1>5, <1>6, <1>7, BuildOne

LEMMA BuildCallKeeps ==
  ASSUME ParserInv, ParseBuild, Head(todo).kind = "Call"
  PROVE  ParserInv'
<1> DEFINE n == Head(todo).count
           t == Items("args", n)
           p == Parts(1 + n)
           node == CallExpr(p[1], Tail(p))
<1>1. n \in Nat
  BY AtBuild
<1>2. \A sig \in Signature(Head(todo)) : sig = Sig(t, <<Ex(8)>>)
  BY AtBuild DEF BuildSignature
<1>3. /\ t \in Seq(Sorts) /\ Len(t) = n + 1 /\ t[1] = Ex(8)
      /\ \A i \in 1 .. n + 1 : t[i] = Ex(0) \/ t[i] = Ex(8)
  <2>1. 1 \in 1 .. n + 1
    BY <1>1
  <2> QED
    BY <1>1, <2>1, ItemsFacts
<1> HIDE DEF n, t
<1>4. Arity(Head(todo)) = 1 + n /\ 1 + n = Len(t)
  BY <1>1, <1>3 DEF Arity, n
<1>5. Built(Head(todo)) = node
  BY <1>4 DEF Built
<1>6. ASSUME NEW open, Given(open, t) PROVE Good(open, node, Ex(8))
  <2>1. p \in Seq(Nat) /\ Len(p) = n + 1 /\ \A i \in 1 .. n + 1 : Fits(nodes, open, Calm, t[i], p[i])
    BY <1>3, <1>4, <1>6 DEF Given
  <2> HIDE DEF p
  <2>2. \A i \in 1 .. n + 1 : p[i] \in 0 .. Len(nodes) /\ IsExpr(nodes, p[i])
    BY <1>3, <2>1, SortNames DEF Fits
  <2>3. p # <<>> /\ 1 \in 1 .. n + 1
    BY <1>1, <2>1
  <2>4. p[1] \in Nat /\ p[1] \in 0 .. Len(nodes) /\ Tight(nodes, p[1]) >= 8
    BY <1>3, <2>1, <2>2, <2>3, SortNames DEF Fits
  <2>5. /\ Tail(p) \in Seq(Nat) /\ Len(Tail(p)) = n
        /\ \A i \in 1 .. n : Tail(p)[i] = p[i + 1] /\ i + 1 \in 1 .. n + 1
    <3>1. /\ Tail(p) \in Seq(Nat) /\ Len(Tail(p)) = Len(p) - 1
          /\ \A i \in 1 .. Len(Tail(p)) : Tail(p)[i] = p[i + 1]
      BY <2>1, <2>3, HeadTailProperties
    <3>2. Len(Tail(p)) = n
      BY <1>1, <2>1, <3>1
    <3>3. \A i \in 1 .. n : i + 1 \in 1 .. n + 1
      BY <1>1
    <3> QED
      BY <3>1, <3>2, <3>3
  <2> DEFINE args == Tail(p)
  <2> HIDE DEF args
  <2>6. ToSet(args) \subseteq 0 .. Len(nodes) /\ \A k \in ToSet(args) : IsExpr(nodes, k)
    <3>1. DOMAIN args = 1 .. n
      BY <2>5 DEF args
    <3>2. \A i \in 1 .. n : args[i] \in 0 .. Len(nodes) /\ IsExpr(nodes, args[i])
      BY <2>2, <2>5 DEF args
    <3> QED
      BY <3>1, <3>2 DEF ToSet
  <2>7. node = CallExpr(p[1], args)
    BY DEF args
  <2>8. node \in ASTNode(String, Value)
    BY <2>4, <2>5, NodesTyped
  <2>9. node.kind = "Call" /\ node.callee = p[1] /\ Children(node) = {p[1]} \cup ToSet(args)
    BY <2>7 DEF CallExpr, Children
  <2> HIDE DEF node
  <2>10. Shaped(nodes, open, node) /\ TightAs(node) = 8
    <3>1. \A k \in Children(node) : IsExpr(nodes, k)
      BY <2>2, <2>3, <2>6, <2>9
    <3>2. Sorted(nodes, node)
      BY <2>9, <3>1, SortedNodes
    <3> QED
      BY <2>4, <2>9, <3>2 DEF Shaped, TightAs
  <2>11. /\ TightAs(node) >= 8 /\ 8 \in 0 .. 8 /\ Children(node) \subseteq 0 .. Len(nodes)
         /\ node.kind \in ExprKind
    BY <2>4, <2>6, <2>9, <2>10 DEF ExprKind
  <2> QED
    BY <2>8, <2>10, <2>11, GoodExpression
<1> HIDE DEF node
<1>7. Arity(Head(todo)) = Len(t)
  BY <1>4
<1> QED
  BY <1>2, <1>3, <1>5, <1>6, <1>7, BuildOne

LEMMA BuildVarDeclKeeps ==
  ASSUME ParserInv, ParseBuild, Head(todo).kind = "VarDecl"
  PROVE  ParserInv'
<1> DEFINE t == <<Name, Ex(0)>>
           j == Parts(2)[1]
           k == Parts(2)[2]
           node == VarDecl(j, k)
<1>1. \A sig \in Signature(Head(todo)) : sig = Sig(t, <<Fresh>>)
  <2>1. BuildSignature(Head(todo)) = {Sig(t, <<Fresh>>)}
    BY DEF BuildSignature
  <2> QED
    BY <2>1, AtBuild
<1>2. t \in Seq(Sorts) /\ Len(t) = 2
  BY SomeSorts, SmallStacks
<1>3. Arity(Head(todo)) = Len(t)
  BY <1>2 DEF Arity
<1>4. Built(Head(todo)) = node
  BY DEF Built, Arity
<1>5. ASSUME NEW open, Given(open, t) PROVE Good(open, node, Fresh)
  <2>1. Fits(nodes, open, Calm, Name, j) /\ Fits(nodes, open, Calm, Ex(0), k)
    BY <1>5, GivenSmall
  <2>2. j \in String /\ k \in 0 .. Len(nodes) /\ k \in Nat /\ IsExpr(nodes, k)
    BY <2>1, SortNames DEF Fits
  <2> HIDE DEF j, k
  <2>3. node \in ASTNode(String, Value)
    BY <2>2, NodesTyped
  <2>4. node.kind = "VarDecl" /\ Children(node) = {k}
    BY DEF VarDecl, Children
  <2> HIDE DEF node
  <2>5. Children(node) \subseteq 0 .. Len(nodes)
    BY <2>2, <2>4
  <2>6. Sorted(nodes, node) /\ node.kind \notin ExprKind
    BY <2>2, <2>4, SortedNodes DEF ExprKind
  <2> QED
    BY <2>3, <2>4, <2>5, <2>6, PlainNodes, GoodStatement
<1> HIDE DEF t, node
<1> QED
  BY <1>1, <1>2, <1>3, <1>4, <1>5, BuildOne

LEMMA BuildFuncDeclKeeps ==
  ASSUME ParserInv, ParseBuild, Head(todo).kind = "FuncDecl"
  PROVE  ParserInv'
<1> DEFINE n == Head(todo).count
           names == Items("params", n)
           t == Append(names, Body)
           p == Parts(2 + n)
           params == Front(Tail(p))
           node == FuncDecl(p[1], params, Last(p))
<1>1. n \in Nat
  BY AtBuild
<1>2. \A sig \in Signature(Head(todo)) : sig = Sig(t, <<Fresh>>)
  BY AtBuild DEF BuildSignature
<1>3. names \in Seq(Sorts) /\ Len(names) = n + 1 /\ \A i \in 1 .. n + 1 : names[i] = Name
  BY <1>1, ItemsFacts
<1> HIDE DEF names
<1>4. /\ t \in Seq(Sorts) /\ Len(t) = 2 + n /\ t[2 + n] = Body
      /\ \A i \in 1 .. n + 1 : t[i] = Name
  <2>1. /\ t \in Seq(Sorts) /\ Len(t) = Len(names) + 1 /\ t[Len(names) + 1] = Body
        /\ \A i \in 1 .. Len(names) : t[i] = names[i]
    BY <1>3, SomeSorts, AppendProperties
  <2>2. Len(names) + 1 = 2 + n
    BY <1>1, <1>3
  <2> QED
    BY <1>3, <2>1, <2>2
<1> HIDE DEF n, t
<1>5. Arity(Head(todo)) = 2 + n
  BY DEF Arity, n
<1>6. Built(Head(todo)) = node
  BY <1>5 DEF Built
<1>7. ASSUME NEW open, Given(open, t) PROVE Good(open, node, Fresh)
  <2>1. p \in Seq(Nat) /\ Len(p) = 2 + n /\ \A i \in 1 .. 2 + n : Fits(nodes, open, Calm, t[i], p[i])
    BY <1>4, <1>7 DEF Given
  <2> HIDE DEF p
  <2>2. \A i \in 1 .. n + 1 : i \in 1 .. 2 + n
    BY <1>1
  <2>3. \A i \in 1 .. n + 1 : p[i] \in String
    BY <1>4, <2>1, <2>2, SortNames DEF Fits
  <2>4. /\ Last(p) \in 0 .. Len(nodes) /\ Last(p) \in Nat /\ Last(p) # 0
        /\ nodes[Last(p)].kind = "Block"
    <3>1. 2 + n \in 1 .. 2 + n
      BY <1>1
    <3>2. Fits(nodes, open, Calm, Body, p[2 + n])
      BY <1>4, <2>1, <3>1
    <3>3. Last(p) = p[2 + n]
      BY <2>1 DEF Last
    <3>4. p[2 + n] \in 1 .. Len(nodes) /\ nodes[p[2 + n]].kind = "Block"
      BY <3>2, SortNames DEF Fits
    <3> QED
      BY <3>3, <3>4
  <2>5. p # <<>>
    BY <1>1, <2>1
  <2>6. /\ Tail(p) \in Seq(Nat) /\ Len(Tail(p)) = n + 1
        /\ \A i \in 1 .. n + 1 : Tail(p)[i] = p[i + 1]
    <3>1. /\ Tail(p) \in Seq(Nat) /\ Len(Tail(p)) = Len(p) - 1
          /\ \A i \in 1 .. Len(Tail(p)) : Tail(p)[i] = p[i + 1]
      BY <2>1, <2>5, HeadTailProperties
    <3>2. Len(Tail(p)) = n + 1
      BY <1>1, <2>1, <3>1
    <3> QED
      BY <3>1, <3>2
  <2> DEFINE rest == Tail(p)
  <2> HIDE DEF rest
  <2>7. rest # <<>> /\ rest \in Seq(Nat) /\ Len(rest) = n + 1
    <3>1. rest \in Seq(Nat) /\ Len(rest) = n + 1
      BY <2>6 DEF rest
    <3>2. n + 1 # 0 /\ Len(<<>>) = 0
      BY <1>1
    <3> QED
      BY <3>1, <3>2
  <2>8. /\ Front(rest) \in Seq(Nat) /\ Len(Front(rest)) = n
        /\ \A i \in 1 .. n : Front(rest)[i] = rest[i]
    <3>1. /\ Front(rest) \in Seq(Nat) /\ Len(Front(rest)) = Len(rest) - 1
          /\ \A i \in 1 .. Len(rest) - 1 : Front(rest)[i] = rest[i]
      BY <2>7, FrontFacts
    <3>2. Len(rest) - 1 = n
      BY <1>1, <2>7
    <3> QED
      BY <3>1, <3>2
  <2>9. \A i \in 1 .. n : Front(rest)[i] \in String
    <3> TAKE i \in 1 .. n
    <3>1. i \in 1 .. n + 1 /\ i + 1 \in 1 .. n + 1
      BY <1>1
    <3>2. Front(rest)[i] = p[i + 1]
      BY <2>6, <2>8, <3>1 DEF rest
    <3> QED
      BY <2>3, <3>1, <3>2
  <2>10. params \in Seq(String)
    <3> DEFINE f == Front(rest)
    <3>1. f \in Seq(Nat) /\ Len(f) = n /\ \A i \in 1 .. n : f[i] \in String
      BY <2>8, <2>9
    <3> HIDE DEF f
    <3>2. f = [i \in 1 .. n |-> f[i]]
      BY <3>1
    <3>3. f \in [1 .. n -> String]
      BY <3>1, <3>2
    <3>4. f \in Seq(String)
      BY <1>1, <3>3, SeqDef
    <3> QED
      BY <3>4 DEF f, rest
  <2>11. p[1] \in String
    <3>1. 1 \in 1 .. n + 1
      BY <1>1
    <3> QED
      BY <2>3, <3>1
  <2> HIDE DEF params
  <2>12. node \in ASTNode(String, Value)
    BY <2>4, <2>10, <2>11, NodesTyped
  <2>13. node.kind = "FuncDecl" /\ Children(node) = {Last(p)} /\ node.body = Last(p)
    BY DEF FuncDecl, Children
  <2> HIDE DEF node
  <2>14. Children(node) \subseteq 0 .. Len(nodes)
    BY <2>4, <2>13
  <2>15. Sorted(nodes, node) /\ node.kind \notin ExprKind
    BY <2>4, <2>13, SortedNodes DEF ExprKind
  <2> QED
    BY <2>12, <2>13, <2>14, <2>15, PlainNodes, GoodStatement
<1> HIDE DEF node
<1>8. Arity(Head(todo)) = Len(t)
  BY <1>4, <1>5
<1> QED
  BY <1>2, <1>4, <1>6, <1>7, <1>8, BuildOne

LEMMA BuildReturnKeeps ==
  ASSUME ParserInv, ParseBuild, Head(todo).kind = "Return"
  PROVE  ParserInv'
<1> DEFINE t == <<Ex(0)>>
           k == Parts(1)[1]
           node == ReturnStmt(k)
<1>1. \A sig \in Signature(Head(todo)) : sig = Sig(t, <<Fresh>>)
  <2>1. BuildSignature(Head(todo)) = {Sig(t, <<Fresh>>)}
    BY DEF BuildSignature
  <2> QED
    BY <2>1, AtBuild
<1>2. t \in Seq(Sorts) /\ Len(t) = 1
  BY SomeSorts, SmallStacks
<1>3. Arity(Head(todo)) = Len(t)
  BY <1>2 DEF Arity
<1>4. Built(Head(todo)) = node
  BY DEF Built, Arity
<1>5. ASSUME NEW open, Given(open, t) PROVE Good(open, node, Fresh)
  <2>1. Fits(nodes, open, Calm, Ex(0), k)
    BY <1>5, GivenSmall
  <2>2. k \in 0 .. Len(nodes) /\ k \in Nat /\ IsExpr(nodes, k)
    BY <2>1, SortNames DEF Fits
  <2> HIDE DEF k
  <2>3. node \in ASTNode(String, Value)
    BY <2>2, NodesTyped
  <2>4. node.kind = "Return" /\ Children(node) = {k}
    BY DEF ReturnStmt, Children
  <2> HIDE DEF node
  <2>5. Children(node) \subseteq 0 .. Len(nodes)
    BY <2>2, <2>4
  <2>6. Sorted(nodes, node) /\ node.kind \notin ExprKind
    BY <2>2, <2>4, SortedNodes DEF ExprKind
  <2> QED
    BY <2>3, <2>4, <2>5, <2>6, PlainNodes, GoodStatement
<1> HIDE DEF t, node
<1> QED
  BY <1>1, <1>2, <1>3, <1>4, <1>5, BuildOne

LEMMA BuildBlockKeeps ==
  ASSUME ParserInv, ParseBuild, Head(todo).kind = "Block"
  PROVE  ParserInv'
<1> DEFINE n == Head(todo).count
           t == Times(n, AnyStmt)
           p == Parts(n)
           node == BlockStmt(p)
<1>1. n \in Nat
  BY AtBuild
<1>2. \A sig \in Signature(Head(todo)) : sig = Sig(t, <<Body>>)
  BY AtBuild DEF BuildSignature
<1>3. t \in Seq(Sorts) /\ Len(t) = n /\ \A i \in 1 .. n : t[i] = AnyStmt
  BY <1>1, TimesFacts
<1>4. Arity(Head(todo)) = n
  BY DEF Arity
<1> HIDE DEF n, t
<1>5. Built(Head(todo)) = node
  BY <1>4 DEF Built
<1>6. ASSUME NEW open, Given(open, t) PROVE Good(open, node, Body)
  <2>1. p \in Seq(Nat) /\ Len(p) = n /\ \A i \in 1 .. n : Fits(nodes, open, Calm, AnyStmt, p[i])
    BY <1>3, <1>6 DEF Given
  <2> HIDE DEF p
  <2>2. \A i \in 1 .. n : p[i] \in 0 .. Len(nodes) /\ IsStmt(nodes, p[i])
    <3>1. \A i \in 1 .. n : p[i] \in 1 .. Len(nodes) /\ IsStmt(nodes, p[i])
      BY <2>1, SortNames DEF Fits
    <3> QED
      BY <3>1
  <2>3. node \in ASTNode(String, Value)
    BY <2>1, NodesTyped
  <2>4. node.kind = "Block" /\ Children(node) = ToSet(p)
    BY DEF BlockStmt, Children
  <2>5. ToSet(p) \subseteq 0 .. Len(nodes) /\ \A k \in ToSet(p) : IsStmt(nodes, k)
    <3>1. DOMAIN p = 1 .. n
      BY <2>1
    <3> QED
      BY <2>2, <3>1 DEF ToSet
  <2> HIDE DEF node
  <2>6. Children(node) \subseteq 0 .. Len(nodes)
    BY <2>4, <2>5
  <2>7. Sorted(nodes, node)
    BY <2>4, <2>5, SortedNodes
  <2>8. Shaped(nodes, open, node)
    BY <2>4, <2>7, PlainNodes
  <2> QED
    BY <2>3, <2>4, <2>6, <2>8 DEF Good
<1> HIDE DEF node
<1>7. Arity(Head(todo)) = Len(t)
  BY <1>3, <1>4
<1> QED
  BY <1>2, <1>3, <1>5, <1>6, <1>7, BuildOne

\* An `if' without an `else', and one with an `else': its first branch takes no
\* other one.
LEMMA BuildIfKeeps ==
  ASSUME ParserInv, ParseBuild, Head(todo).kind = "If"
  PROVE  ParserInv'
<1> DEFINE i == Parts(3)[1]
           j == Parts(3)[2]
           k == Parts(3)[3]
           node == IfStmt(i, j, k)
<1>1. PICK open, base, x, y : \E sig \in Signature(Head(todo)) :
        /\ Below(x, sig.takes) /\ Below(sig.gives, y)
        /\ Pending(open, base, x, y)
  BY HeadPending DEF ParserInv
<1>2. PICK sig \in Signature(Head(todo)) :
        /\ Below(x, sig.takes) /\ Below(sig.gives, y)
        /\ Pending(open, base, x, y)
  BY <1>1
<1>3. sig \in {Sig(<<Ex(0), AnyStmt, Absent>>, <<Fresh>>), Sig(<<Ex(0), Shut, Fresh>>, <<Fresh>>)}
  BY AtBuild DEF BuildSignature
<1>4. Below(<<Fresh>>, y) /\ y \in Seq(Sorts)
  BY <1>2, <1>3 DEF Sig, Pending
<1>5. PICK b \in Sorts : y = <<b>> /\ Sub(Fresh, b)
  BY <1>4, BelowOne
<1>6. Built(Head(todo)) = node /\ Arity(Head(todo)) = 3
  BY DEF Built, Arity
<1>7. IsTree(nodes, open)
  BY <1>2 DEF Pending
<1>8. ASSUME NEW a \in Sorts, NEW c \in Sorts, NEW t, t = <<Ex(0), a, c>>, Below(x, t),
             \/ a = AnyStmt /\ c = Absent
             \/ a = Shut /\ c = Fresh
      PROVE  ParserInv'
  <2>1. t \in Seq(Sorts) /\ Len(t) = 3
    BY <1>8, SomeSorts, SmallStacks
  <2>2. Pending(open, base, t, <<b>>)
    BY <1>2, <1>5, <1>8, <2>1, PendingWeaker
  <2>3. Given(open, <<Ex(0), a, c>>)
    BY <1>8, <2>2, PartsFit
  <2>4. /\ Fits(nodes, open, Calm, Ex(0), i) /\ Fits(nodes, open, Calm, a, j)
        /\ Fits(nodes, open, Calm, c, k)
    BY <2>3, GivenSmall
  <2> HIDE DEF i, j, k
  <2>5. /\ i \in Nat /\ j \in Nat /\ k \in Nat
        /\ i \in 0 .. Len(nodes) /\ j \in 0 .. Len(nodes) /\ k \in 0 .. Len(nodes)
    <3>1. /\ Ex(0) # Name /\ a # Name /\ c # Name
          /\ Ex(0).of # "never" /\ a.of # "never" /\ c.of # "never"
      BY <1>8, SortNames
    <3> QED
      BY <1>7, <1>8, <2>4, <3>1, SomeSorts, GivenFacts
  <2>6. node \in ASTNode(String, Value)
    BY <2>5, NodesTyped
  <2>7. /\ node.kind = "If" /\ node.cond = i /\ node.then = j /\ node.else = k
        /\ Children(node) = {i, j, k}
    BY DEF IfStmt, Children
  <2> HIDE DEF node
  <2>8. a = AnyStmt => k = 0 /\ Calm
    BY <1>7, <1>8, <2>4, SortNames, GivenFacts
  <2>9. a = Shut => j \notin open /\ (k \in open => Calm) /\ k # 0
    <3>1. a = Shut => c = Fresh
      BY <1>8, SortNames
    <3> QED
      BY <1>7, <2>4, <3>1, SortNames DEF Fits
  <2>10. Shaped(nodes, open, node)
    <3>1. /\ IsExpr(nodes, i) /\ IsStmt(nodes, j)
          /\ c = Fresh => IsStmt(nodes, k)
      BY <1>7, <1>8, <2>4, GivenFacts
    <3>2. k = 0 => IsStmt(nodes, k)
      BY DEF IsStmt
    <3>3. Sorted(nodes, node)
      BY <1>8, <2>7, <2>8, <3>1, <3>2, SortedNodes
    <3> QED
      BY <1>8, <2>7, <2>8, <2>9, <3>3 DEF Shaped
  <2>11. TakesOne(node, open) => Calm
    BY <1>8, <2>7, <2>8, <2>9 DEF TakesOne
  <2>12. Children(node) \subseteq 0 .. Len(nodes)
    BY <2>5, <2>7
  <2>13. Good(open, node, Fresh)
    <3>1. "If" \notin ExprKind
      BY DEF ExprKind
    <3> QED
      BY <2>6, <2>7, <2>10, <2>11, <2>12, <3>1, GoodStatement
  <2> QED
    BY <1>5, <1>6, <2>1, <2>2, <2>13, BuildFrom
<1>9. CASE sig = Sig(<<Ex(0), AnyStmt, Absent>>, <<Fresh>>)
  <2>1. Below(x, <<Ex(0), AnyStmt, Absent>>)
    BY <1>2, <1>9 DEF Sig
  <2> QED
    BY <1>8, <2>1, SomeSorts
<1>10. CASE sig = Sig(<<Ex(0), Shut, Fresh>>, <<Fresh>>)
  <2>1. Below(x, <<Ex(0), Shut, Fresh>>)
    BY <1>2, <1>10 DEF Sig
  <2> QED
    BY <1>8, <2>1, SomeSorts
<1> QED
  BY <1>3, <1>9, <1>10

LEMMA BuildWhileKeeps ==
  ASSUME ParserInv, ParseBuild, Head(todo).kind = "While"
  PROVE  ParserInv'
<1> DEFINE t == <<Ex(0), Fresh>>
           j == Parts(2)[1]
           k == Parts(2)[2]
           node == WhileStmt(j, k)
<1>1. \A sig \in Signature(Head(todo)) : sig = Sig(t, <<Fresh>>)
  BY AtBuild DEF BuildSignature
<1>2. t \in Seq(Sorts) /\ Len(t) = 2
  BY SomeSorts, SmallStacks
<1>3. Arity(Head(todo)) = Len(t)
  BY <1>2 DEF Arity
<1>4. Built(Head(todo)) = node
  BY DEF Built, Arity
<1>5. ASSUME NEW open, Given(open, t) PROVE Good(open, node, Fresh)
  <2>1. Fits(nodes, open, Calm, Ex(0), j) /\ Fits(nodes, open, Calm, Fresh, k)
    BY <1>5, GivenSmall
  <2>2. /\ j \in 0 .. Len(nodes) /\ j \in Nat /\ k \in 1 .. Len(nodes) /\ k \in Nat
        /\ k \in open => Calm
        /\ IsExpr(nodes, j) /\ IsStmt(nodes, k)
    BY <2>1, SortNames DEF Fits
  <2> HIDE DEF j, k
  <2>3. node \in ASTNode(String, Value)
    BY <2>2, NodesTyped
  <2>4. node.kind = "While" /\ node.cond = j /\ node.body = k /\ Children(node) = {j, k}
    BY DEF WhileStmt, Children
  <2> HIDE DEF node
  <2>5. Children(node) \subseteq 0 .. Len(nodes)
    BY <2>2, <2>4
  <2>6. Shaped(nodes, open, node) /\ (TakesOne(node, open) => Calm)
    BY <2>2, <2>4, SortedNodes DEF Shaped, TakesOne
  <2>7. node.kind \notin ExprKind
    BY <2>4 DEF ExprKind
  <2> QED
    BY <2>3, <2>5, <2>6, <2>7, GoodStatement
<1> HIDE DEF t, node
<1> QED
  BY <1>1, <1>2, <1>3, <1>4, <1>5, BuildOne

LEMMA BuildForKeeps ==
  ASSUME ParserInv, ParseBuild, Head(todo).kind = "For"
  PROVE  ParserInv'
<1> DEFINE t == <<Perhaps, Ex(0), Ex(0), Fresh>>
           h == Parts(4)[1]
           i == Parts(4)[2]
           j == Parts(4)[3]
           k == Parts(4)[4]
           node == ForStmt(h, i, j, k)
<1>1. \A sig \in Signature(Head(todo)) : sig = Sig(t, <<Fresh>>)
  BY AtBuild DEF BuildSignature
<1>2. t \in Seq(Sorts) /\ Len(t) = 4
  BY SomeSorts, SmallStacks
<1>3. Arity(Head(todo)) = Len(t)
  BY <1>2 DEF Arity
<1>4. Built(Head(todo)) = node
  BY DEF Built, Arity
<1>5. ASSUME NEW open, Given(open, t) PROVE Good(open, node, Fresh)
  <2>1. /\ Fits(nodes, open, Calm, Perhaps, h) /\ Fits(nodes, open, Calm, Ex(0), i)
        /\ Fits(nodes, open, Calm, Ex(0), j) /\ Fits(nodes, open, Calm, Fresh, k)
    BY <1>5, GivenSmall
  <2>2. /\ h \in 0 .. Len(nodes) /\ h \in Nat /\ i \in 0 .. Len(nodes) /\ i \in Nat
        /\ j \in 0 .. Len(nodes) /\ j \in Nat /\ k \in 1 .. Len(nodes) /\ k \in Nat
        /\ k \in open => Calm
        /\ IsStmt(nodes, h) /\ IsExpr(nodes, i) /\ IsExpr(nodes, j) /\ IsStmt(nodes, k)
    BY <2>1, SortNames DEF Fits
  <2> HIDE DEF h, i, j, k
  <2>3. node \in ASTNode(String, Value)
    BY <2>2, NodesTyped
  <2>4. /\ node.kind = "For" /\ Children(node) = {h, i, j, k}
        /\ node.init = h /\ node.cond = i /\ node.step = j /\ node.body = k
    BY DEF ForStmt, Children
  <2> HIDE DEF node
  <2>5. Children(node) \subseteq 0 .. Len(nodes)
    BY <2>2, <2>4
  <2>6. Shaped(nodes, open, node) /\ (TakesOne(node, open) => Calm)
    BY <2>2, <2>4, SortedNodes DEF Shaped, TakesOne
  <2>7. node.kind \notin ExprKind
    BY <2>4 DEF ExprKind
  <2> QED
    BY <2>3, <2>5, <2>6, <2>7, GoodStatement
<1> HIDE DEF t, node
<1> QED
  BY <1>1, <1>2, <1>3, <1>4, <1>5, BuildOne

LEMMA BuildKeeps ==
  ASSUME ParserInv, ParseBuild
  PROVE  ParserInv'
<1>1. Head(todo).kind \in Constructed
  BY AtBuild
<1> QED
  BY <1>1, BuildGroupingKeeps, BuildUnaryKeeps, BuildBinaryKeeps, BuildCallKeeps,
     BuildVarDeclKeeps, BuildFuncDeclKeeps, BuildReturnKeeps, BuildBlockKeeps, BuildIfKeeps,
     BuildWhileKeeps, BuildForKeeps DEF Constructed

(***************************************************************************)
(* The specification.                                                      *)
(***************************************************************************)

LEMMA InitFits ==
  ASSUME ParserInit
  PROVE  ParserInv
<1>1. PICK source \in Source : tokens = Append(source, Eof)
  BY DEF ParserInit
<1>2. /\ current = 0 /\ todo = <<Statements("Program", 0)>> /\ results = <<>> /\ nodes = <<>>
      /\ parsed = "parsing"
  BY DEF ParserInit
<1>3. /\ source \in Seq(Token)
      /\ \A i \in DOMAIN source :
           source[i].kind = "Identifier" => source[i].literal.kind = "String"
  <2>1. "Identifier" \in DOMAIN LiteralType /\ LiteralType["Identifier"] = "String"
    BY DEF LiteralType
  <2> QED
    BY <2>1, ParserAssumption
<1>4. Eof.kind = "Eof" /\ Eof.literal \in Value
  BY StringAssumption DEF Eof, Str, Value
<1>5. /\ source \in Seq(Token \cup {Eof}) /\ Len(source) \in Nat
      /\ \A i \in 1 .. Len(source) : source[i] \in Token /\ i \in DOMAIN source
  <2>1. Token \subseteq Token \cup {Eof}
    OBVIOUS
  <2> QED
    BY <1>3, <2>1, SeqMonotonic
<1>6. /\ tokens \in Seq(Token \cup {Eof}) /\ Len(tokens) = Len(source) + 1
      /\ tokens[Len(source) + 1] = Eof /\ \A i \in 1 .. Len(source) : tokens[i] = source[i]
  BY <1>1, <1>5, AppendProperties
<1>7. CursorFits
  <2>1. Len(tokens) \in Nat \ {0} /\ current \in 0 .. Len(tokens) - 1
    BY <1>2, <1>5, <1>6
  <2>2. \A token \in Token : token.literal \in Value
    BY DEF Token
  <2>3. \A i \in 1 .. Len(tokens) : i \in 1 .. Len(source) \/ i = Len(source) + 1
    BY <1>5, <1>6
  <2>4. \A i \in 1 .. Len(tokens) :
          /\ tokens[i].literal \in Value
          /\ tokens[i].kind = "Identifier" => tokens[i].literal.kind = "String"
    BY <1>3, <1>4, <1>5, <1>6, <2>2, <2>3
  <2>5. tokens[Len(tokens)].kind = "Eof"
    BY <1>4, <1>6
  <2> QED
    BY <1>6, <2>1, <2>4, <2>5 DEF CursorFits
<1>8. IsTree(nodes, {})
  <2>1. <<>> \in Seq(ASTNode(String, Value)) /\ Len(<<>>) = 0
    OBVIOUS
  <2> QED
    BY <1>2, <2>1 DEF IsTree
<1>9. Fit(nodes, {}, Calm, <<>>, results)
  <2>1. <<>> \in Seq(Nat) /\ Len(<<>>) = 0
    OBVIOUS
  <2> QED
    BY <1>2, <2>1 DEF Fit
<1>10. Does(todo, <<>>, <<Never>>)
  <2>1. Statements("Program", 0) \in Record
    BY RecordFacts
  <2>2. Sig(<<>>, <<Never>>) \in Signature(Statements("Program", 0))
    BY CallSignatures, NoItems
  <2>3. <<Never>> \in Seq(Sorts) /\ Below(<<Never>>, <<Never>>)
    <3>1. Never \in Sorts
      BY SortFacts
    <3> QED
      BY <3>1, SmallStacks, BelowFacts
  <2> QED
    BY <1>2, <2>1, <2>2, <2>3, SmallStacks, NothingBelow, DoesWhole
<1>11. WellTyped
  BY <1>8, <1>9, <1>10, SmallStacks DEF WellTyped
<1> QED
  BY <1>2, <1>7, <1>11 DEF ParserInv, Outcome

LEMMA NextKeeps ==
  ASSUME ParserInv, [ParserNext]_parserVars
  PROVE  ParserInv'
<1>1. CASE UNCHANGED parserVars
  BY <1>1 DEF parserVars, ParserInv, CursorFits, WellTyped, Calm, Peek
<1>2. CASE ParserNext
  BY <1>2, StatementsKeep, DeclKeeps, StmtKeeps, ExprStmtKeeps, ConsumeKeeps, UnlessKeeps,
     OptionalKeeps, ForInitKeeps, ItemsKeep, ItemKeeps, CommaKeeps, MoreKeeps, UnaryKeeps,
     PrimaryKeeps, CallsKeep, AssignmentKeeps, AssignToKeeps, BuildKeeps DEF ParserNext
<1> QED
  BY <1>1, <1>2

\* Throughout a parse the cursor stays on the tokens, and what the finished
\* calls have returned is what the pending ones (parseIfStmt, parseCallExpr and
\* the others) take it for.
THEOREM ParserInvariant == ParserSpec => []ParserInv
<1>1. ParserInit => ParserInv
  BY InitFits
<1>2. ParserInv /\ [ParserNext]_parserVars => ParserInv'
  BY NextKeeps
<1> QED
  BY <1>1, <1>2, PTL DEF ParserSpec

\* The parser's cursor and tree are well-formed at every step.
LEMMA TypesFollow ==
  ASSUME ParserInv
  PROVE  TypeOK
<1>1. PICK open : /\ IsTree(nodes, open)
                  /\ \E s \in Seq(Sorts) : Fit(nodes, open, Calm, s, results)
  BY DEF ParserInv, WellTyped
<1>2. results \in Seq(Nat)
  BY <1>1 DEF Fit
<1>3. nodes \in Seq(ASTNode(String, Value)) /\ \A i \in 1 .. Len(nodes) : Children(nodes[i]) \subseteq 0 .. i - 1
  BY <1>1 DEF IsTree
<1>4. WellFormed([nodes |-> nodes, stmts |-> <<>>])
  <2>1. DOMAIN nodes = 1 .. Len(nodes) /\ DOMAIN <<>> = {}
    BY <1>3
  <2> QED
    BY <1>3, <2>1 DEF WellFormed
<1> QED
  BY <1>2, <1>3, <1>4 DEF ParserInv, CursorFits, Outcome, TypeOK

\* Whatever the tokens, the cursor stays on them, and every node has its
\* children before it (JSParser with its cursor, and the pointers of AST.h).
THEOREM ParserTypeCorrect == ParserSpec => []TypeOK
<1>1. ParserInv => TypeOK
  BY TypesFollow
<1> QED
  BY <1>1, ParserInvariant, PTL

LEMMA TightIs ==
  ASSUME NEW k
  PROVE  Tightness(k) = Tight(nodes, k)
<1>1. Len(Level) = 6
  BY DEF Level
<1> QED
  BY <1>1 DEF Tightness, Tight, LevelOf

LEMMA GroupingFollows ==
  ASSUME ParserInv
  PROVE  GroupedByPrecedence
<1>1. PICK open : IsTree(nodes, open)
  BY DEF ParserInv, WellTyped
<1>2. ASSUME NEW i \in DOMAIN nodes
      PROVE  LET node == nodes[i]
             IN  /\ node.kind \in {"Binary", "Logical"} =>
                      Tightness(node.left) >= Tightness(i) /\ Tightness(node.right) > Tightness(i)
                 /\ node.kind = "Unary" => Tightness(node.right) >= Tightness(i)
                 /\ node.kind = "Call" => Tightness(node.callee) >= Tightness(i)
  <2> DEFINE node == nodes[i]
  <2>1. i \in 1 .. Len(nodes) /\ i # 0
    BY <1>1 DEF IsTree
  <2>2. Shaped(nodes, open, node)
    BY <1>1, <2>1 DEF IsTree
  <2>3. /\ node.kind \in {"Binary", "Logical"} => Tight(nodes, i) = LevelOf(node.op)
        /\ node.kind = "Unary" => Tight(nodes, i) = 7
        /\ node.kind = "Call" => Tight(nodes, i) = 8
    BY <2>1 DEF Tight
  <2> HIDE DEF node
  <2>4. /\ node.kind \in {"Binary", "Logical"} =>
             /\ Tight(nodes, node.left) >= Tight(nodes, i)
             /\ Tight(nodes, node.right) > Tight(nodes, i)
        /\ node.kind = "Unary" => Tight(nodes, node.right) >= Tight(nodes, i)
        /\ node.kind = "Call" => Tight(nodes, node.callee) >= Tight(nodes, i)
    BY <2>2, <2>3 DEF Shaped
  <2> QED
    BY <2>4, TightIs DEF node
<1> QED
  BY <1>2 DEF GroupedByPrecedence

\* Whatever the tokens, operators group by precedence, and to the left within a
\* level: parseOrExpr down to parseCallExpr nest in this order.
THEOREM GroupedByPrecedenceHolds == ParserSpec => []GroupedByPrecedence
<1>1. ParserInv => GroupedByPrecedence
  BY GroupingFollows
<1> QED
  BY <1>1, ParserInvariant, PTL

\* TakesElse, one node at a time.
TakesAs(takes, k) ==
  IF k = 0 THEN FALSE
  ELSE CASE nodes[k].kind = "If" -> nodes[k].else = 0 \/ takes[nodes[k].else]
         [] nodes[k].kind \in {"While", "For"} -> takes[nodes[k].body]
         [] OTHER -> FALSE

LEMMA TakesOpen ==
  ASSUME NEW open, IsTree(nodes, open), NEW k \in 0 .. Len(nodes), NEW takes,
         \A j \in 0 .. Len(nodes) : j < k => takes[j] = (j \in open)
  PROVE  TakesAs(takes, k) = (k \in open)
<1>1. CASE k = 0
  <2>1. (k \in open) = FALSE
    BY <1>1 DEF IsTree
  <2>2. TakesAs(takes, k) = FALSE
    BY <1>1 DEF TakesAs
  <2> QED
    BY <2>1, <2>2
<1>2. CASE k # 0
  <2> DEFINE node == nodes[k]
  <2>1. k \in 1 .. Len(nodes)
    BY <1>2
  <2>2. Children(node) \subseteq 0 .. k - 1 /\ (k \in open <=> TakesOne(node, open))
    BY <2>1 DEF IsTree
  <2>3. TakesAs(takes, k) =
          CASE node.kind = "If" -> node.else = 0 \/ takes[node.else]
            [] node.kind \in {"While", "For"} -> takes[node.body]
            [] OTHER -> FALSE
    BY <1>2 DEF TakesAs
  <2> HIDE DEF node
  <2>4. \A j \in Children(node) : j \in 0 .. Len(nodes) /\ j < k
    BY <2>1, <2>2
  <2>5. \A j \in Children(node) : takes[j] = (j \in open)
    BY <2>4
  <2>6. CASE node.kind = "If"
    <3>1. node.else \in Children(node)
      BY <2>6, ChildFields
    <3>2. TakesAs(takes, k) = (node.else = 0 \/ node.else \in open)
      BY <2>3, <2>5, <2>6, <3>1
    <3>3. TakesOne(node, open) <=> (node.else = 0 \/ node.else \in open)
      BY <2>6 DEF TakesOne
    <3> QED
      BY <2>2, <3>2, <3>3
  <2>7. CASE node.kind \in {"While", "For"}
    <3>1. node.body \in Children(node)
      BY <2>7, ChildFields
    <3>2. TakesAs(takes, k) = takes[node.body]
      BY <2>3, <2>7
    <3>3. TakesAs(takes, k) = (node.body \in open)
      BY <2>5, <3>1, <3>2
    <3>4. TakesOne(node, open) <=> node.body \in open
      BY <2>7 DEF TakesOne
    <3> QED
      BY <2>2, <3>3, <3>4
  <2>8. CASE node.kind \notin {"If", "While", "For"}
    <3>1. TakesAs(takes, k) = FALSE
      BY <2>3, <2>8
    <3>2. (k \in open) = FALSE
      BY <2>2, <2>8 DEF TakesOne
    <3> QED
      BY <3>1, <3>2
  <2> QED
    BY <2>6, <2>7, <2>8
<1> QED
  BY <1>1, <1>2

\* The statements that an `else' would belong to are the open ones.
LEMMA TakesElseIs ==
  ASSUME NEW open, IsTree(nodes, open)
  PROVE  \A k \in 0 .. Len(nodes) : TakesElse[k] = (k \in open)
<1> DEFINE Is(f) == f = [k \in 0 .. Len(nodes) |-> TakesAs(f, k)]
           takes == CHOOSE f : Is(f)
<1>1. TakesElse = takes
  BY DEF TakesElse, TakesAs
<1>2. Is(takes)
  <2> DEFINE f == [k \in 0 .. Len(nodes) |-> k \in open]
  <2>1. \A k \in 0 .. Len(nodes) : f[k] = (k \in open)
    OBVIOUS
  <2>2. f = [k \in 0 .. Len(nodes) |-> f[k]]
    OBVIOUS
  <2> HIDE DEF f
  <2>3. \A k \in 0 .. Len(nodes) : TakesAs(f, k) = f[k]
    BY <2>1, TakesOpen
  <2>4. Is(f)
    BY <2>2, <2>3
  <2> QED
    BY <2>4
<1> HIDE DEF takes
<1>3. \A k \in 0 .. Len(nodes) : takes[k] = TakesAs(takes, k)
  BY <1>2
<1> DEFINE Bad == {k \in 0 .. Len(nodes) : takes[k] # (k \in open)}
<1>4. ASSUME Bad # {} PROVE FALSE
  <2>1. Bad \in SUBSET Nat
    BY DEF IsTree
  <2>2. PICK k \in Bad : \A j \in Bad : k <= j
    BY <1>4, <2>1, LeastNatural
  <2>3. k \in 0 .. Len(nodes) /\ takes[k] # (k \in open)
    BY <2>2
  <2>4. \A j \in 0 .. Len(nodes) : j < k => takes[j] = (j \in open)
    <3> TAKE j \in 0 .. Len(nodes)
    <3> HAVE j < k
    <3>1. j \notin Bad
      BY <2>2, <2>3
    <3> QED
      BY <3>1
  <2> HIDE DEF Bad
  <2>5. TakesAs(takes, k) = (k \in open)
    BY <2>3, <2>4, TakesOpen
  <2> QED
    BY <1>3, <2>3, <2>5
<1> QED
  BY <1>1, <1>4

LEMMA NearestFollows ==
  ASSUME ParserInv
  PROVE  NearestElse
<1>1. PICK open : IsTree(nodes, open)
  BY DEF ParserInv, WellTyped
<1>2. ASSUME NEW i \in DOMAIN nodes, nodes[i].kind = "If", nodes[i].else # 0
      PROVE  ~TakesElse[nodes[i].then]
  <2> DEFINE node == nodes[i]
  <2>1. i \in 1 .. Len(nodes)
    BY <1>1 DEF IsTree
  <2>2. Shaped(nodes, open, node) /\ Children(node) \subseteq 0 .. i - 1
    BY <1>1, <2>1 DEF IsTree
  <2>3. node.kind = "If" /\ node.else # 0
    BY <1>2
  <2> HIDE DEF node
  <2>4. node.then \notin open
    BY <2>2, <2>3 DEF Shaped
  <2>5. node.then \in 0 .. Len(nodes)
    <3>1. node.then \in Children(node)
      BY <2>3, ChildFields
    <3> QED
      BY <2>1, <2>2, <3>1
  <2>6. TakesElse[node.then] = (node.then \in open)
    BY <1>1, <2>5, TakesElseIs
  <2> QED
    BY <2>4, <2>6 DEF node
<1> QED
  BY <1>2 DEF NearestElse

\* Whatever the tokens, an `else' belongs to the nearest `if' that can have it:
\* parseIfStmt looks for one as soon as its first branch is done.
THEOREM NearestElseHolds == ParserSpec => []NearestElse
<1>1. ParserInv => NearestElse
  BY NearestFollows
<1> QED
  BY <1>1, ParserInvariant, PTL

(***************************************************************************)
(* The kinds of the children, and of what parse returns.                   *)
(***************************************************************************)

\* Nothing takes what is left at the end.
LEMMA TakesNoNever ==
  ASSUME NEW item \in Record, NEW sig \in Signature(item)
  PROVE  \A i \in 1 .. Len(sig.takes) : sig.takes[i] # Never
<1> DEFINE Fine(u) == \A i \in 1 .. Len(u.takes) : u.takes[i] # Never
<1>1. /\ Name # Never /\ AnyStmt # Never /\ Fresh # Never /\ Body # Never /\ Absent # Never
      /\ Shut # Never /\ Perhaps # Never /\ \A l : Ex(l) # Never
  BY SortNames
<1>2. \A g : Fine(Sig(<<>>, g))
  BY DEF Sig
<1>3. \A a, g : a # Never => Fine(Sig(<<a>>, g))
  BY DEF Sig
<1>4. \A a, b, g : a # Never /\ b # Never => Fine(Sig(<<a, b>>, g))
  BY DEF Sig
<1>5. \A a, b, c, g : a # Never /\ b # Never /\ c # Never => Fine(Sig(<<a, b, c>>, g))
  BY DEF Sig
<1>6. \A a, b, c, d, g :
        a # Never /\ b # Never /\ c # Never /\ d # Never => Fine(Sig(<<a, b, c, d>>, g))
  BY DEF Sig
<1>7. ASSUME NEW n \in Nat, NEW g PROVE Fine(Sig(Times(n, AnyStmt), g))
  <2>1. Len(Times(n, AnyStmt)) = n /\ \A i \in 1 .. n : Times(n, AnyStmt)[i] = AnyStmt
    BY TimesFacts
  <2> QED
    BY <1>1, <2>1 DEF Sig
<1>8. ASSUME NEW of \in {"params", "args"}, NEW n \in Nat
      PROVE  /\ \A g : Fine(Sig(Items(of, n), g))
             /\ \A g : Fine(Sig(Append(Items(of, n), Body), g))
  <2> DEFINE t == Items(of, n)
  <2>1. /\ t \in Seq(Sorts) /\ Len(t) = n + 1
        /\ \A i \in 1 .. n + 1 : t[i] = IF of = "params" THEN Name ELSE IF i = 1 THEN Ex(8) ELSE Ex(0)
    BY ItemsFacts
  <2> HIDE DEF t
  <2>2. \A i \in 1 .. Len(t) : t[i] # Never
    BY <1>1, <2>1
  <2>3. /\ Len(Append(t, Body)) = Len(t) + 1 /\ Append(t, Body)[Len(t) + 1] = Body
        /\ \A i \in 1 .. Len(t) : Append(t, Body)[i] = t[i]
    BY <2>1, SomeSorts, AppendProperties
  <2>4. \A i \in 1 .. Len(t) + 1 : i \in 1 .. Len(t) \/ i = Len(t) + 1
    BY <2>1
  <2>5. \A i \in 1 .. Len(Append(t, Body)) : Append(t, Body)[i] # Never
    BY <1>1, <2>2, <2>3, <2>4
  <2>6. \A g : Fine(Sig(t, g))
    BY <2>2 DEF Sig
  <2> DEFINE u == Append(t, Body)
  <2>7. \A i \in 1 .. Len(u) : u[i] # Never
    BY <2>5
  <2> HIDE DEF u
  <2>8. \A g : Fine(Sig(u, g))
    BY <2>7 DEF Sig
  <2> QED
    BY <2>6, <2>8 DEF t, u
<1> HIDE DEF Fine
<1>9. item.do \in {"consume", "unless", "initializer", "decl", "stmt", "forInit", "unary", "primary"}
      => Fine(sig)
  BY <1>2 DEF Signature
<1>10. item.do \in {"calls", "assign", "exprStmt", "else", "more"} => Fine(sig)
  BY <1>1, <1>3 DEF Signature
<1>11. item.do = "assignTo" => Fine(sig)
  BY <1>1, <1>4 DEF Signature
<1>12. item.do = "statements" => Fine(sig)
  BY <1>7 DEF Signature
<1>13. item.do \in {"params", "args"} => Fine(sig)
  BY <1>8 DEF Signature
<1>14. item.do \in {"item", "comma"} => Fine(sig)
  <2>1. item.do \in {"item", "comma"} => item.of \in {"params", "args"}
    BY DEF Record, Calls
  <2> QED
    BY <1>8, <2>1 DEF Signature
<1>15. ASSUME item.do = "build" PROVE Fine(sig)
  <2>1. sig \in BuildSignature(item) /\ item.kind \in Constructed
    BY <1>15 DEF Signature, Record, Calls
  <2>2. item.kind \in {"Grouping", "Return", "Unary"} => Fine(sig)
    BY <1>1, <1>3, <2>1 DEF BuildSignature
  <2>3. item.kind \in {"Binary", "Logical"} => Fine(sig)
    <3>1. item.kind \in {"Binary", "Logical"} => sig \in OperatorSignature(item.op)
      BY <2>1 DEF BuildSignature
    <3>2. sig \in OperatorSignature(item.op) => Fine(sig)
      BY <1>1, <1>4 DEF OperatorSignature
    <3> QED
      BY <3>1, <3>2
  <2>4. item.kind \in {"VarDecl", "While"} => Fine(sig)
    BY <1>1, <1>4, <2>1 DEF BuildSignature
  <2>5. item.kind \in {"Call", "FuncDecl"} => Fine(sig)
    BY <1>8, <2>1 DEF BuildSignature
  <2>6. item.kind = "Block" => Fine(sig)
    BY <1>7, <2>1 DEF BuildSignature
  <2>7. item.kind = "If" => Fine(sig)
    BY <1>1, <1>5, <2>1 DEF BuildSignature
  <2>8. item.kind = "For" => Fine(sig)
    BY <1>1, <1>6, <2>1 DEF BuildSignature
  <2> QED
    BY <2>1, <2>2, <2>3, <2>4, <2>5, <2>6, <2>7, <2>8 DEF Constructed
<1>16. Fine(sig)
  BY <1>9, <1>10, <1>11, <1>12, <1>13, <1>14, <1>15 DEF Record, Calls
<1> QED
  BY <1>16 DEF Fine

\* So nothing is left to do once it is there.
LEMMA NeverLast ==
  ASSUME NEW items, NEW base \in Seq(Firm), Does(items, Append(base, Never), <<Never>>)
  PROVE  base = <<>> /\ items = <<>>
<1> DEFINE s == Append(base, Never)
           n == Len(base) + 1
<1>1. /\ Len(s) = n /\ s[n] = Never /\ s \in Seq(Sorts)
      /\ base \in Seq(Sorts) /\ Len(base) \in Nat
  <2>1. base \in Seq(Sorts) /\ Never \in Sorts
    BY FirmSeq DEF Sorts
  <2> QED
    BY <2>1, AppendProperties
<1> HIDE DEF s
<1>2. ASSUME items # <<>> PROVE FALSE
  <2>1. PICK m \in Seq(Sorts) : Step(Head(items), s, m)
    BY <1>2, DoesHead DEF s
  <2>2. PICK b \in Seq(Firm), x \in Seq(Sorts), y \in Seq(Sorts) :
          \E sig \in Signature(Head(items)) : s = b \o x /\ Below(x, sig.takes)
    BY <2>1 DEF Step
  <2>3. PICK sig \in Signature(Head(items)) : s = b \o x /\ Below(x, sig.takes)
    BY <2>2
  <2>4. b \in Seq(Sorts)
    BY FirmSeq
  <2>5. /\ Len(s) = Len(b) + Len(x) /\ Len(b) \in Nat /\ Len(x) \in Nat
        /\ \A i \in 1 .. Len(b) + Len(x) : s[i] = IF i <= Len(b) THEN b[i] ELSE x[i - Len(b)]
    BY <2>3, <2>4, ConcatProperties
  <2>6. n \in 1 .. Len(b) + Len(x) /\ n = Len(b) + Len(x)
    BY <1>1, <2>5
  <2>7. CASE n <= Len(b)
    <3>1. n \in 1 .. Len(b)
      BY <2>6, <2>7
    <3>2. b[n] \in Firm /\ b[n] = Never
      BY <1>1, <2>5, <2>6, <3>1
    <3> QED
      BY <3>2 DEF Firm
  <2>8. CASE ~ (n <= Len(b))
    <3>1. n - Len(b) \in 1 .. Len(x) /\ x[n - Len(b)] = Never
      BY <1>1, <2>5, <2>6, <2>8
    <3> DEFINE i == n - Len(b)
    <3>2. Sub(Never, sig.takes[i]) /\ i \in 1 .. Len(sig.takes)
      BY <2>3, <3>1 DEF Below
    <3>3. sig.takes[i] = Never
      BY <3>2, SortNames DEF Sub
    <3>4. Head(items) \in Record
      <4>1. items \in Seq(Record)
        BY DEF Does
      <4> QED
        BY <1>2, <4>1
    <3> QED
      BY <3>2, <3>3, <3>4, TakesNoNever
  <2> QED
    BY <2>7, <2>8
<1>3. ASSUME Len(items) = 0 PROVE s = <<Never>>
  <2>1. Does(items, s, <<Never>>)
    BY DEF s
  <2>2. PICK w : w[1] = s /\ w[Len(items) + 1] = <<Never>>
    BY <2>1 DEF Does
  <2> QED
    BY <1>3, <2>2
<1>4. s = <<Never>> /\ items = <<>>
  <2>1. items = <<>>
    BY <1>2
  <2> QED
    BY <1>3, <2>1
<1>5. Len(s) = 1
  BY <1>4
<1> QED
  BY <1>1, <1>4, <1>5, EmptySeq

\* What parse returns are statements.
Delivered ==
  parsed = "done" =>
    \A i \in 1 .. Len(results) : results[i] \in 1 .. Len(nodes) /\ IsStmt(nodes, results[i])

LEMMA AtTheEnd ==
  ASSUME ParserInv, At("statements"), Head(todo).of = "Program"
  PROVE  \A i \in 1 .. Len(results) : results[i] \in 1 .. Len(nodes) /\ IsStmt(nodes, results[i])
<1> DEFINE n == Head(todo).count
           t == Times(n, AnyStmt)
<1>1. Head(todo).do = "statements" /\ Head(todo) \in Record
  BY HeadSigned DEF At, ParserInv
<1>2. n \in Nat
  BY <1>1 DEF Record, Calls
<1>3. \A sig \in Signature(Head(todo)) : sig = Sig(t, <<Never>>)
  BY <1>1 DEF Signature
<1>4. t \in Seq(Sorts) /\ Len(t) = n /\ \A i \in 1 .. n : t[i] = AnyStmt
  BY <1>2, TimesFacts
<1> HIDE DEF t, n
<1>5. PICK open, base : \E b \in Sorts : Sub(Never, b) /\ Pending(open, base, t, <<b>>)
  BY <1>3, <1>4, HeadOne DEF ParserInv
<1>6. PICK b \in Sorts : Sub(Never, b) /\ Pending(open, base, t, <<b>>)
  BY <1>5
<1>7. b = Never
  BY <1>6, SubFacts
<1>8. base \in Seq(Firm) /\ Does(Tail(todo), base \o <<Never>>, <<Never>>)
      /\ Fit(nodes, open, Calm, base \o t, results)
  BY <1>6, <1>7 DEF Pending
<1>9. Never \in Sorts /\ base \in Seq(Sorts)
  BY <1>8, FirmSeq DEF Sorts
<1>10. base \o <<Never>> = Append(base, Never)
  BY <1>9, FramePush
<1>11. base = <<>>
  BY <1>8, <1>10, NeverLast
<1>12. base \o t = t
  BY <1>4, <1>11, ConcatEmptySeq
<1>13. Fit(nodes, open, Calm, t, results)
  BY <1>8, <1>12
<1>14. ASSUME NEW i \in 1 .. Len(results)
       PROVE  results[i] \in 1 .. Len(nodes) /\ IsStmt(nodes, results[i])
  <2>1. i \in 1 .. n /\ Fits(nodes, open, Calm, t[i], results[i])
    BY <1>4, <1>13 DEF Fit
  <2>2. t[i] = AnyStmt
    BY <1>4, <2>1
  <2> QED
    BY <2>1, <2>2, SortNames DEF Fits
<1> QED
  BY <1>14

LEMMA OthersGoOn ==
  ASSUME ParserNext, ~ParseStatements
  PROVE  parsed' # "done"
<1>1. CASE ParseDecl
  BY <1>1 DEF ParseDecl, At, Calling
<1>2. CASE ParseStmt
  BY <1>2 DEF ParseStmt, At, Calling
<1>3. CASE ParseExprStmt
  BY <1>3 DEF ParseExprStmt, At, Making, Fail
<1>4. CASE ParseConsume
  BY <1>4 DEF ParseConsume, At, Fail, Returning, Calling
<1>5. CASE ParseUnless
  BY <1>5 DEF ParseUnless, At, Returning, Calling
<1>6. CASE ParseOptional
  BY <1>6 DEF ParseOptional, At, Returning, Calling
<1>7. CASE ParseForInit
  BY <1>7 DEF ParseForInit, At, Returning, Calling
<1>8. CASE ParseItems
  BY <1>8 DEF ParseItems, At, Calling
<1>9. CASE ParseItem
  BY <1>9 DEF ParseItem, At, Fail, Calling
<1>10. CASE ParseComma
  BY <1>10 DEF ParseComma, At, Calling
<1>11. CASE ParseMore
  BY <1>11 DEF ParseMore, At, Calling
<1>12. CASE ParseUnary
  BY <1>12 DEF ParseUnary, At, Calling
<1>13. CASE ParsePrimary
  BY <1>13 DEF ParsePrimary, At, Calling, Making, Returning
<1>14. CASE ParseCalls
  BY <1>14 DEF ParseCalls, At, Calling
<1>15. CASE ParseAssignment
  BY <1>15 DEF ParseAssignment, At, Calling
<1>16. CASE ParseAssignTo
  BY <1>16 DEF ParseAssignTo, At, Fail, Making
<1>17. CASE ParseBuild
  BY <1>17 DEF ParseBuild, At, Fail, Making
<1> QED
  BY <1>1, <1>2, <1>3, <1>4, <1>5, <1>6, <1>7, <1>8, <1>9, <1>10, <1>11, <1>12, <1>13, <1>14,
     <1>15, <1>16, <1>17 DEF ParserNext

LEMMA DeliveredKeeps ==
  ASSUME ParserInv, Delivered, [ParserNext]_parserVars
  PROVE  Delivered'
<1>1. CASE ParseStatements /\ parsed' = "done"
  <2>1. /\ At("statements") /\ Head(todo).of = "Program"
        /\ UNCHANGED <<nodes, results>>
    <3>1. At("statements") /\ parsed = "parsing"
      BY <1>1 DEF ParseStatements, At
    <3>2. Head(todo) \in Record /\ Head(todo).do = "statements"
      BY <3>1, HeadSigned DEF At, ParserInv
    <3>3. Head(todo).of \in {"Program", "Block"}
      BY <3>2 DEF Record, Calls
    <3> QED
      BY <1>1, <3>1, <3>3 DEF ParseStatements, Calling
  <2>2. \A i \in 1 .. Len(results) : results[i] \in 1 .. Len(nodes) /\ IsStmt(nodes, results[i])
    BY <2>1, AtTheEnd
  <2> QED
    BY <2>1, <2>2 DEF Delivered, IsStmt
<1>2. CASE ParserNext /\ parsed' # "done"
  BY <1>2 DEF Delivered
<1>3. CASE UNCHANGED parserVars
  BY <1>3 DEF Delivered, IsStmt, parserVars
<1> QED
  BY <1>1, <1>2, <1>3, OthersGoOn

\* Every child is an expression or a statement, as the types of the pointers
\* in AST.h promise, a function's body is a block, and what parse returns are
\* statements.  In the model, where a node is a position, it takes a proof.
Classed ==
  /\ \A i \in DOMAIN nodes : Sorted(nodes, nodes[i])
  /\ Delivered

LEMMA SortedTree ==
  ASSUME ParserInv
  PROVE  \A i \in DOMAIN nodes : Sorted(nodes, nodes[i])
<1>1. PICK open : IsTree(nodes, open)
  BY DEF ParserInv, WellTyped
<1> QED
  BY <1>1 DEF IsTree, Shaped

\* Whatever the tokens, the parser puts every node where the classes of AST.h
\* allow one of its kind (the results of the functions of JSParser.cpp).
THEOREM ChildrenClassed == ParserSpec => []Classed
<1>1. ParserInit => Delivered
  BY DEF ParserInit, Delivered
<1>2. ParserInv /\ Delivered /\ [ParserNext]_parserVars => Delivered'
  BY DeliveredKeeps
<1>3. ParserInv /\ Delivered => Classed
  BY SortedTree DEF Classed
<1> QED
  BY <1>1, <1>2, <1>3, ParserInvariant, PTL DEF ParserSpec

===============================================================================
