---------------------------- MODULE MinijscProofs ----------------------------
(***************************************************************************)
(* Theorems about the program minijsc, for every set of sources.           *)
(***************************************************************************)
EXTENDS Minijsc, ParserProofs

(***************************************************************************)
(* The frames of a list of records.                                        *)
(***************************************************************************)

\* The interpreter's activation records.
Activation ==
  [do : {"execute", "evaluate", "resume"}, node : Nat]
    \cup [do : {"checkCallee", "copyArg", "discard"}]
    \cup [do : {"block", "call"}, saved : Int, base : Nat, held : Nat]

ActiveFrame == [kind : {"block", "call"}, saved : Int, base : Nat]

LEMMA EndFrame ==
  ASSUME NEW item \in Activation, IsEnd(item)
  PROVE  FrameOf(item) \in ActiveFrame /\ FrameOf(item).kind = item.do
  BY DEF Activation, IsEnd, FrameOf, ActiveFrame

\* The frames of the last n records, for every n.
IsTable(t, c) ==
  t = [n \in 0 .. Len(c) |->
         IF n = 0 THEN <<>>
         ELSE LET item == c[Len(c) - n + 1]
              IN  IF IsEnd(item) THEN Append(t[n - 1], FrameOf(item)) ELSE t[n - 1]]

LEMMA TableUnique ==
  ASSUME NEW c, Len(c) \in Nat, NEW t, NEW u, IsTable(t, c), IsTable(u, c)
  PROVE  t = u
<1> DEFINE bad == {n \in 0 .. Len(c) : t[n] # u[n]}
<1>1. DOMAIN t = 0 .. Len(c) /\ DOMAIN u = 0 .. Len(c)
  BY DEF IsTable
<1>2. /\ \A n \in 0 .. Len(c) : t[n] = IF n = 0 THEN <<>>
             ELSE IF IsEnd(c[Len(c) - n + 1]) THEN Append(t[n - 1], FrameOf(c[Len(c) - n + 1]))
                                              ELSE t[n - 1]
      /\ \A n \in 0 .. Len(c) : u[n] = IF n = 0 THEN <<>>
             ELSE IF IsEnd(c[Len(c) - n + 1]) THEN Append(u[n - 1], FrameOf(c[Len(c) - n + 1]))
                                              ELSE u[n - 1]
  BY DEF IsTable
<1>3. ASSUME bad # {} PROVE FALSE
  <2>1. bad \in SUBSET Nat
    OBVIOUS
  <2>2. PICK m \in bad : \A k \in bad : m <= k
    BY <1>3, <2>1, LeastNatural
  <2>3. m \in 0 .. Len(c) /\ t[m] # u[m]
    BY <2>2
  <2>4. m # 0
    BY <1>2, <2>3
  <2>5. m - 1 \in 0 .. Len(c) /\ ~ (m <= m - 1)
    BY <2>3, <2>4
  <2>6. t[m - 1] = u[m - 1]
    BY <2>2, <2>5
  <2> QED
    BY <1>2, <2>3, <2>4, <2>6
<1>4. \A n \in 0 .. Len(c) : t[n] = u[n]
  BY <1>3
<1>5. t = [n \in 0 .. Len(c) |-> t[n]] /\ u = [n \in 0 .. Len(c) |-> u[n]]
  BY DEF IsTable
<1> QED
  BY <1>4, <1>5

LEMMA TableExists ==
  ASSUME NEW c \in Seq(Activation)
  PROVE  \E t : IsTable(t, c) /\ \A n \in 0 .. Len(c) : t[n] \in Seq(ActiveFrame)
<1> DEFINE Next1(f, n) ==
             IF IsEnd(c[Len(c) - n + 1]) THEN Append(f[n - 1], FrameOf(c[Len(c) - n + 1]))
                                         ELSE f[n - 1]
           Upto(f, m) == /\ f[0] = <<>>
                         /\ \A n \in 1 .. m : f[n] = Next1(f, n)
                         /\ \A n \in 0 .. m : f[n] \in Seq(ActiveFrame)
           bad == {m \in 0 .. Len(c) : ~ \E f : Upto(f, m)}
<1>1. Len(c) \in Nat
  OBVIOUS
<1>2. ASSUME bad # {} PROVE FALSE
  <2>1. bad \in SUBSET Nat
    BY <1>1
  <2>2. PICK m \in bad : \A k \in bad : m <= k
    BY <1>2, <2>1, LeastNatural
  <2>3. m \in 0 .. Len(c) /\ ~ \E f : Upto(f, m)
    BY <2>2
  <2>4. m # 0
    <3>1. Upto([n \in 0 .. 0 |-> <<>>], 0)
      OBVIOUS
    <3> QED
      BY <2>3, <3>1
  <2>5. m - 1 \in 0 .. Len(c) /\ ~ (m <= m - 1) /\ m \in Nat
    BY <1>1, <2>3, <2>4
  <2>6. PICK f : Upto(f, m - 1)
    BY <2>2, <2>5
  <2> DEFINE g == [n \in 0 .. m |-> IF n = m THEN Next1(f, m) ELSE f[n]]
  <2>7. g[0] = <<>> /\ \A n \in 0 .. m - 1 : g[n] = f[n]
    BY <2>4, <2>5, <2>6
  <2>8. g[m] = Next1(f, m)
    BY <2>5
  <2> HIDE DEF g
  <2>9. \A n \in 1 .. m : g[n] = Next1(g, n)
    <3>1. ASSUME NEW n \in 1 .. m PROVE g[n] = Next1(g, n)
      <4>1. n - 1 \in 0 .. m - 1 /\ g[n - 1] = f[n - 1]
        BY <2>5, <2>7
      <4>2. CASE n = m
        BY <2>8, <4>1, <4>2
      <4>3. CASE n # m
        <5>1. n \in 1 .. m - 1 /\ n \in 0 .. m - 1
          BY <2>5, <4>3
        <5> QED
          BY <2>6, <2>7, <4>1, <5>1
      <4> QED
        BY <4>2, <4>3
    <3> QED
      BY <3>1
  <2>10. \A n \in 0 .. m : g[n] \in Seq(ActiveFrame)
    <3>1. f[m - 1] \in Seq(ActiveFrame)
      BY <2>5, <2>6
    <3>2. c[Len(c) - m + 1] \in Activation
      <4>1. Len(c) - m + 1 \in 1 .. Len(c)
        BY <1>1, <2>3, <2>4
      <4> QED
        BY <4>1
    <3>3. Next1(f, m) \in Seq(ActiveFrame)
      BY <3>1, <3>2, EndFrame
    <3>4. \A n \in 0 .. m : n = m \/ n \in 0 .. m - 1
      BY <2>5
    <3> QED
      BY <2>6, <2>7, <2>8, <3>3, <3>4
  <2>11. Upto(g, m)
    BY <2>7, <2>9, <2>10
  <2> QED
    BY <2>3, <2>11
<1>3. PICK f : Upto(f, Len(c))
  BY <1>1, <1>2
<1> DEFINE t == [n \in 0 .. Len(c) |-> f[n]]
<1>4. \A n \in 0 .. Len(c) : t[n] = f[n]
  OBVIOUS
<1> HIDE DEF t
<1>5. t = [n \in 0 .. Len(c) |-> IF n = 0 THEN <<>> ELSE Next1(t, n)]
  <2>1. ASSUME NEW n \in 0 .. Len(c) PROVE t[n] = IF n = 0 THEN <<>> ELSE Next1(t, n)
    <3>1. CASE n = 0
      BY <1>3, <1>4, <3>1
    <3>2. CASE n # 0
      <4>1. n \in 1 .. Len(c) /\ n - 1 \in 0 .. Len(c)
        BY <1>1, <3>2
      <4> QED
        BY <1>3, <1>4, <3>2, <4>1
    <3> QED
      BY <3>1, <3>2
  <2> QED
    BY <2>1 DEF t
<1>6. IsTable(t, c)
  BY <1>5 DEF IsTable
<1> QED
  BY <1>3, <1>4, <1>6

LEMMA ActiveIs ==
  ASSUME NEW c \in Seq(Activation), NEW t, IsTable(t, c)
  PROVE  Active(c) = t[Len(c)] /\ Active(c) \in Seq(ActiveFrame)
<1>1. PICK u : IsTable(u, c) /\ \A n \in 0 .. Len(c) : u[n] \in Seq(ActiveFrame)
  BY TableExists
<1>2. Len(c) \in Nat
  OBVIOUS
<1>3. t = u
  BY <1>1, <1>2, TableUnique
<1>4. Active(c) = (CHOOSE a : IsTable(a, c))[Len(c)]
  BY DEF Active, IsTable
<1>5. IsTable(CHOOSE a : IsTable(a, c), c)
  BY <1>1
<1>6. (CHOOSE a : IsTable(a, c)) = t
  BY <1>2, <1>5, TableUnique
<1>7. Len(c) \in 0 .. Len(c)
  BY <1>2
<1> QED
  BY <1>1, <1>3, <1>4, <1>6, <1>7

LEMMA ActiveEmpty == Active(<<>>) = <<>>
<1>1. <<>> \in Seq(Activation) /\ Len(<<>>) = 0
  OBVIOUS
<1>2. PICK t : IsTable(t, <<>>)
  BY <1>1, TableExists
<1>3. t[0] = <<>>
  BY <1>1, <1>2 DEF IsTable
<1> QED
  BY <1>1, <1>2, <1>3, ActiveIs

\* The first record, and the others.
LEMMA ActiveHead ==
  ASSUME NEW c \in Seq(Activation), c # <<>>
  PROVE  /\ Active(Tail(c)) \in Seq(ActiveFrame)
         /\ Active(c) = IF IsEnd(Head(c)) THEN Append(Active(Tail(c)), FrameOf(Head(c)))
                                          ELSE Active(Tail(c))
<1> DEFINE m == Len(c) - 1
<1>1. /\ Len(c) \in Nat /\ m \in Nat /\ Len(c) = m + 1
      /\ Tail(c) \in Seq(Activation) /\ Len(Tail(c)) = m /\ Head(c) = c[1]
      /\ \A k \in 1 .. m : Tail(c)[k] = c[k + 1]
  BY EmptySeq
<1> HIDE DEF m
<1>2. PICK t : IsTable(t, c)
  BY TableExists
<1>3. \A n \in 0 .. m + 1 :
        t[n] = IF n = 0 THEN <<>>
               ELSE IF IsEnd(c[(m + 1) - n + 1])
                    THEN Append(t[n - 1], FrameOf(c[(m + 1) - n + 1])) ELSE t[n - 1]
  BY <1>1, <1>2 DEF IsTable
<1> DEFINE u == [n \in 0 .. m |-> t[n]]
<1>4. \A n \in 0 .. m : u[n] = t[n]
  OBVIOUS
<1>5. IsTable(u, Tail(c))
  <2>1. ASSUME NEW n \in 0 .. m
        PROVE  t[n] = IF n = 0 THEN <<>>
                      ELSE IF IsEnd(Tail(c)[m - n + 1])
                           THEN Append(u[n - 1], FrameOf(Tail(c)[m - n + 1])) ELSE u[n - 1]
    <3>1. CASE n = 0
      BY <1>1, <1>3, <3>1
    <3>2. CASE n # 0
      <4>1. /\ n \in 0 .. m + 1 /\ n - 1 \in 0 .. m /\ m - n + 1 \in 1 .. m
            /\ (m - n + 1) + 1 = (m + 1) - n + 1
        BY <1>1, <3>2
      <4>2. Tail(c)[m - n + 1] = c[(m + 1) - n + 1]
        BY <1>1, <4>1
      <4> QED
        BY <1>3, <1>4, <3>2, <4>1, <4>2
    <3> QED
      BY <3>1, <3>2
  <2> QED
    BY <1>1, <2>1 DEF IsTable
<1> HIDE DEF u
<1>6. Active(Tail(c)) = u[m] /\ u[m] \in Seq(ActiveFrame)
  BY <1>1, <1>5, ActiveIs
<1>7. m + 1 \in 0 .. m + 1 /\ m \in 0 .. m /\ (m + 1) - (m + 1) + 1 = 1 /\ (m + 1) - 1 = m
      /\ m + 1 # 0
  BY <1>1
<1>8. t[m + 1] = IF IsEnd(c[1]) THEN Append(t[m], FrameOf(c[1])) ELSE t[m]
  BY <1>3, <1>7
<1>9. Active(c) = t[m + 1]
  BY <1>1, <1>2, ActiveIs
<1> QED
  BY <1>1, <1>4, <1>6, <1>7, <1>8, <1>9

\* Records that end nothing stand for no frame.
LEMMA ActivePlain ==
  ASSUME NEW c \in Seq(Activation), NEW r \in Seq(Activation),
         \A i \in 1 .. Len(r) : ~ IsEnd(r[i])
  PROVE  Active(r \o c) = Active(c)
<1> DEFINE Plain(q) == q \in Seq(Activation) /\ \A i \in 1 .. Len(q) : ~ IsEnd(q[i])
           bad == {n \in Nat : \E q : Plain(q) /\ Len(q) = n /\ Active(q \o c) # Active(c)}
<1>1. ASSUME bad # {} PROVE FALSE
  <2>1. bad \in SUBSET Nat
    OBVIOUS
  <2>2. PICK m \in bad : \A k \in bad : m <= k
    BY <1>1, <2>1, LeastNatural
  <2>3. PICK q : Plain(q) /\ Len(q) = m /\ Active(q \o c) # Active(c)
    BY <2>2
  <2>4. q # <<>>
    <3>1. <<>> \o c = c
      OBVIOUS
    <3> QED
      BY <2>3, <3>1
  <2> DEFINE p == Tail(q)
  <2>5. /\ p \in Seq(Activation) /\ Len(p) = m - 1 /\ m \in Nat /\ m # 0
        /\ \A i \in 1 .. m - 1 : p[i] = q[i + 1] /\ i + 1 \in 1 .. m
    BY <2>3, <2>4, EmptySeq
  <2>6. Plain(p)
    BY <2>3, <2>5
  <2>7. q \o c \in Seq(Activation) /\ q \o c # <<>> /\ Head(q \o c) = q[1] /\ Tail(q \o c) = p \o c
    BY <2>3, <2>4
  <2>8. ~ IsEnd(q[1])
    BY <2>3, <2>5
  <2> HIDE DEF p
  <2>9. Active(q \o c) = Active(p \o c)
    BY <2>7, <2>8, ActiveHead
  <2>10. m - 1 \notin bad /\ m - 1 \in Nat
    BY <2>2, <2>5
  <2>11. Active(p \o c) = Active(c)
    BY <2>5, <2>6, <2>10
  <2> QED
    BY <2>3, <2>9, <2>11
<1>2. Plain(r) /\ Len(r) \in Nat
  OBVIOUS
<1> QED
  BY <1>1, <1>2

LEMMA PieceFacts ==
  ASSUME NEW T, NEW q \in Seq(T), NEW m \in Nat \ {0}, NEW n \in 0 .. Len(q)
  PROVE  /\ SubSeq(q, m, n) \in Seq(T)
         /\ Len(SubSeq(q, m, n)) = IF m <= n THEN n - m + 1 ELSE 0
         /\ \A i \in 1 .. Len(SubSeq(q, m, n)) : SubSeq(q, m, n)[i] = q[i + m - 1]
<1>1. \A i \in m .. n : q[i] \in T
  OBVIOUS
<1>2. /\ SubSeq(q, m, n) \in Seq(T)
      /\ Len(SubSeq(q, m, n)) = IF m <= n THEN n - m + 1 ELSE 0
      /\ \A i \in 1 .. n - m + 1 : SubSeq(q, m, n)[i] = q[m + i - 1]
  BY <1>1, SubSeqProperties
<1> QED
  BY <1>2

\* Leaving out the first element, and those up to m.
LEMMA TailSub ==
  ASSUME NEW T, NEW q \in Seq(T), q # <<>>, NEW m \in 1 .. Len(q)
  PROVE  SubSeq(Tail(q), m, Len(Tail(q))) = SubSeq(q, m + 1, Len(q))
<1>1. /\ Len(q) \in Nat /\ Tail(q) \in Seq(T) /\ Len(Tail(q)) = Len(q) - 1 /\ m \in Nat
      /\ \A i \in 1 .. Len(q) - 1 : Tail(q)[i] = q[i + 1]
  BY EmptySeq
<1> DEFINE n == Len(q)
           u == Tail(q)
           a == SubSeq(u, m, n - 1)
           z == SubSeq(q, m + 1, n)
<1>2. /\ n \in Nat /\ m \in Nat \ {0} /\ m <= n /\ m + 1 \in Nat \ {0}
      /\ n - 1 \in 0 .. Len(u) /\ n \in 0 .. Len(q) /\ u \in Seq(T)
      /\ \A i \in 1 .. n - 1 : u[i] = q[i + 1]
  BY <1>1
<1> HIDE DEF n, u
<1>3. /\ a \in Seq(T) /\ Len(a) = IF m <= n - 1 THEN (n - 1) - m + 1 ELSE 0
      /\ \A i \in 1 .. Len(a) : a[i] = u[i + m - 1]
  BY <1>2, PieceFacts
<1>4. /\ z \in Seq(T) /\ Len(z) = IF m + 1 <= n THEN n - (m + 1) + 1 ELSE 0
      /\ \A i \in 1 .. Len(z) : z[i] = q[i + (m + 1) - 1]
  BY <1>2, PieceFacts
<1> HIDE DEF a, z
<1>5. Len(a) = Len(z) /\ Len(a) = n - m
  BY <1>2, <1>3, <1>4
<1>6. \A i \in 1 .. Len(a) : a[i] = z[i]
  <2>1. ASSUME NEW i \in 1 .. Len(a) PROVE a[i] = z[i]
    <3>1. i + m - 1 \in 1 .. n - 1 /\ (i + m - 1) + 1 = i + (m + 1) - 1
      BY <1>2, <1>5
    <3> QED
      BY <1>2, <1>3, <1>4, <1>5, <3>1
  <2> QED
    BY <2>1
<1>7. a = z
  BY <1>3, <1>4, <1>5, <1>6, SeqEqual
<1> QED
  BY <1>1, <1>7 DEF a, z, n, u

\* Every record of an end has its frame.
LEMMA ActiveHas ==
  ASSUME NEW c \in Seq(Activation), NEW at \in 1 .. Len(c), IsEnd(c[at])
  PROVE  /\ Active(c) \in Seq(ActiveFrame)
         /\ \E k \in 1 .. Len(Active(c)) : Active(c)[k] = FrameOf(c[at])
<1> DEFINE EndAt(q, n) == q \in Seq(Activation) /\ n \in 1 .. Len(q) /\ IsEnd(q[n])
           Has(f, x) == f \in Seq(ActiveFrame) /\ \E k \in 1 .. Len(f) : f[k] = x
           bad == {n \in Nat : \E q : EndAt(q, n) /\ ~ Has(Active(q), FrameOf(q[n]))}
<1>1. ASSUME bad # {} PROVE FALSE
  <2>1. bad \in SUBSET Nat
    OBVIOUS
  <2>2. PICK n \in bad : \A k \in bad : n <= k
    <3> HIDE DEF bad
    <3> QED
      BY <1>1, <2>1, LeastNatural
  <2>3. PICK q : EndAt(q, n) /\ ~ Has(Active(q), FrameOf(q[n]))
    BY <2>2
  <2> DEFINE p == Tail(q)
  <2>4. q # <<>> /\ Len(q) \in Nat /\ n \in Nat /\ n >= 1
    BY <2>3
  <2>5. /\ p \in Seq(Activation) /\ Len(p) = Len(q) - 1 /\ Head(q) = q[1]
        /\ Head(q) \in Activation
        /\ \A i \in 1 .. Len(q) - 1 : p[i] = q[i + 1]
    BY <2>3, <2>4, EmptySeq
  <2> HIDE DEF p
  <2>6. /\ Active(p) \in Seq(ActiveFrame)
        /\ Active(q) = IF IsEnd(Head(q)) THEN Append(Active(p), FrameOf(Head(q))) ELSE Active(p)
    BY <2>3, <2>4, ActiveHead DEF p
  <2>7. IsEnd(Head(q)) => FrameOf(Head(q)) \in ActiveFrame
    BY <2>5, EndFrame
  <2> DEFINE u == Active(p)
             x == FrameOf(Head(q))
             y == FrameOf(q[n])
  <2>8. CASE n = 1
    <3>1. IsEnd(Head(q)) /\ x = y
      BY <2>3, <2>5, <2>8
    <3>2. u \in Seq(ActiveFrame) /\ x \in ActiveFrame
      BY <2>6, <2>7, <3>1
    <3> HIDE DEF u, x, y
    <3>3. Has(Append(u, x), y)
      BY <3>1, <3>2
    <3>4. Active(q) = Append(u, x)
      BY <2>6, <3>1 DEF u, x
    <3> QED
      BY <2>3, <3>3, <3>4 DEF y
  <2>9. CASE n # 1
    <3>1. n - 1 \in Nat /\ n - 1 \in 1 .. Len(p) /\ ~ (n <= n - 1) /\ (n - 1) + 1 = n
      BY <2>3, <2>4, <2>5, <2>9
    <3>2. p[n - 1] = q[n]
      BY <2>5, <3>1
    <3>3. EndAt(p, n - 1)
      BY <2>3, <2>5, <3>1, <3>2
    <3>4. Has(Active(p), FrameOf(p[n - 1]))
      <4> HIDE DEF EndAt, Has
      <4>1. n - 1 \notin bad
        <5> HIDE DEF bad
        <5> QED
          BY <2>2, <3>1
      <4> QED
        BY <3>1, <3>3, <4>1
    <3>5. Has(u, y)
      BY <3>2, <3>4
    <3>6. IsEnd(Head(q)) => x \in ActiveFrame
      BY <2>7
    <3> HIDE DEF u, x, y
    <3>7. ASSUME IsEnd(Head(q)) PROVE Has(Append(u, x), y)
      <4>1. PICK k \in 1 .. Len(u) : u[k] = y
        BY <3>5
      <4>2. /\ Append(u, x) \in Seq(ActiveFrame) /\ Len(Append(u, x)) = Len(u) + 1
            /\ Append(u, x)[k] = u[k] /\ k \in 1 .. Len(u) + 1
        BY <3>5, <3>6, <3>7, <4>1
      <4> QED
        BY <4>1, <4>2
    <3>8. Has(Active(q), y)
      BY <2>6, <3>5, <3>7 DEF u, x
    <3> QED
      BY <2>3, <3>8 DEF y
  <2> QED
    BY <2>8, <2>9
<1>2. EndAt(c, at) /\ at \in Nat
  OBVIOUS
<1>3. Has(Active(c), FrameOf(c[at]))
  <2> HIDE DEF EndAt, Has
  <2> QED
    BY <1>1, <1>2
<1> QED
  BY <1>3

\* The frames up to the innermost call.
LEMMA ActiveCut ==
  ASSUME NEW c \in Seq(Activation), NEW at \in 1 .. Len(c), c[at].do = "call",
         \A i \in 1 .. at - 1 : c[i].do # "call"
  PROVE  LET below == Active(SubSeq(c, at + 1, Len(c)))
         IN  /\ below \in Seq(ActiveFrame)
             /\ Active(c) \in Seq(ActiveFrame)
             /\ Len(below) + 1 <= Len(Active(c))
             /\ \A j \in 1 .. Len(below) : Active(c)[j] = below[j]
             /\ Active(c)[Len(below) + 1].kind = "call"
             /\ \A j \in Len(below) + 2 .. Len(Active(c)) : Active(c)[j].kind = "block"
<1> DEFINE First(q, n) == /\ q \in Seq(Activation) /\ n \in 1 .. Len(q) /\ q[n].do = "call"
                          /\ \A i \in 1 .. n - 1 : q[i].do # "call"
           Rest1(q, n) == Active(SubSeq(q, n + 1, Len(q)))
           Divided(f, u) == /\ u \in Seq(ActiveFrame) /\ f \in Seq(ActiveFrame)
                            /\ Len(u) + 1 <= Len(f)
                            /\ \A j \in 1 .. Len(u) : f[j] = u[j]
                            /\ f[Len(u) + 1].kind = "call"
                            /\ \A j \in Len(u) + 2 .. Len(f) : f[j].kind = "block"
           bad == {n \in Nat : \E q : First(q, n) /\ ~ Divided(Active(q), Rest1(q, n))}
<1>1. ASSUME bad # {} PROVE FALSE
  <2>1. bad \in SUBSET Nat
    OBVIOUS
  <2>2. PICK n \in bad : \A k \in bad : n <= k
    <3> HIDE DEF bad
    <3> QED
      BY <1>1, <2>1, LeastNatural
  <2>3. PICK q : First(q, n) /\ ~ Divided(Active(q), Rest1(q, n))
    BY <2>2
  <2> DEFINE p == Tail(q)
  <2>4. q # <<>> /\ Len(q) \in Nat /\ n \in Nat /\ n >= 1
    BY <2>3
  <2>5. /\ p \in Seq(Activation) /\ Len(p) = Len(q) - 1 /\ Head(q) = q[1]
        /\ Head(q) \in Activation
        /\ \A i \in 1 .. Len(q) - 1 : p[i] = q[i + 1]
    BY <2>3, <2>4, EmptySeq
  <2> HIDE DEF p
  <2>6. /\ Active(p) \in Seq(ActiveFrame)
        /\ Active(q) = IF IsEnd(Head(q)) THEN Append(Active(p), FrameOf(Head(q))) ELSE Active(p)
    BY <2>3, <2>4, ActiveHead DEF p
  <2>7. IsEnd(Head(q)) => FrameOf(Head(q)) \in ActiveFrame /\ FrameOf(Head(q)).kind = Head(q).do
    BY <2>5, EndFrame
  <2>8. CASE n = 1
    <3>1. Tail(q) = SubSeq(q, 2, Len(q)) /\ n + 1 = 2
      BY <2>3, <2>4, <2>8, TailIsSubSeq
    <3>2. IsEnd(Head(q)) /\ Head(q).do = "call"
      BY <2>3, <2>5, <2>8 DEF IsEnd
    <3>3. Rest1(q, n) = Active(p)
      BY <3>1 DEF p
    <3> DEFINE u == Active(p)
               x == FrameOf(Head(q))
    <3>4. u \in Seq(ActiveFrame) /\ x \in ActiveFrame /\ x.kind = "call"
      BY <2>6, <2>7, <3>2
    <3> HIDE DEF u, x
    <3>5. Divided(Append(u, x), u)
      BY <3>4
    <3> QED
      BY <2>3, <2>6, <3>2, <3>3, <3>5 DEF u, x
  <2>9. CASE n # 1
    <3>1. n - 1 \in Nat /\ n - 1 \in 1 .. Len(p) /\ ~ (n <= n - 1) /\ 1 \in 1 .. n - 1
      BY <2>3, <2>4, <2>5, <2>9
    <3>2. p[n - 1] = q[n] /\ \A i \in 1 .. (n - 1) - 1 : p[i] = q[i + 1] /\ i + 1 \in 1 .. n - 1
      BY <2>3, <2>4, <2>5, <3>1
    <3>3. First(p, n - 1)
      <4>1. \A i \in 1 .. (n - 1) - 1 : p[i].do # "call"
        BY <2>3, <3>2
      <4> QED
        BY <2>3, <2>5, <3>1, <3>2, <4>1
    <3>4. Divided(Active(p), Rest1(p, n - 1))
      <4> HIDE DEF First, Divided, Rest1
      <4>1. n - 1 \notin bad
        <5> HIDE DEF bad
        <5> QED
          BY <2>2, <3>1
      <4> QED
        BY <3>1, <3>3, <4>1
    <3>5. SubSeq(p, (n - 1) + 1, Len(p)) = SubSeq(q, n + 1, Len(q))
      BY <2>3, <2>4, <2>5, <3>1, TailSub DEF p
    <3>6. Rest1(p, n - 1) = Rest1(q, n)
      BY <3>5
    <3>7. Head(q).do # "call"
      BY <2>3, <2>5, <3>1
    <3>8. CASE IsEnd(Head(q))
      <4>1. FrameOf(Head(q)) \in ActiveFrame /\ FrameOf(Head(q)).kind = "block"
        BY <2>7, <3>7, <3>8 DEF IsEnd
      <4> DEFINE f == Active(p)
                 u == Rest1(q, n)
                 x == FrameOf(Head(q))
      <4>2. Divided(f, u) /\ x \in ActiveFrame /\ x.kind = "block"
        BY <3>4, <3>6, <4>1
      <4> HIDE DEF f, u, x
      <4>3. Divided(Append(f, x), u)
        BY <4>2, SMTT(40)
      <4> QED
        BY <2>3, <2>6, <3>8, <4>3 DEF f, u, x
    <3>9. CASE ~ IsEnd(Head(q))
      BY <2>3, <2>6, <3>4, <3>6, <3>9
    <3> QED
      BY <3>8, <3>9
  <2> QED
    BY <2>8, <2>9
<1>2. First(c, at) /\ at \in Nat
  OBVIOUS
<1>3. Divided(Active(c), Rest1(c, at))
  <2> HIDE DEF First, Divided
  <2> QED
    BY <1>1, <1>2
<1> QED
  BY <1>3

\* No call, no frame of one.
LEMMA ActiveNoCall ==
  ASSUME NEW c \in Seq(Activation), \A i \in 1 .. Len(c) : c[i].do # "call"
  PROVE  \A j \in 1 .. Len(Active(c)) : Active(c)[j].kind # "call"
<1> DEFINE Free(q) == q \in Seq(Activation) /\ \A i \in 1 .. Len(q) : q[i].do # "call"
           Clean(f) == \A j \in 1 .. Len(f) : f[j].kind # "call"
           bad == {n \in Nat : \E q : Free(q) /\ Len(q) = n /\ ~ Clean(Active(q))}
<1>1. ASSUME bad # {} PROVE FALSE
  <2>1. bad \in SUBSET Nat
    OBVIOUS
  <2>2. PICK n \in bad : \A k \in bad : n <= k
    <3> HIDE DEF bad
    <3> QED
      BY <1>1, <2>1, LeastNatural
  <2>3. PICK q : Free(q) /\ Len(q) = n /\ ~ Clean(Active(q))
    BY <2>2
  <2>4. q # <<>>
    BY <2>3, ActiveEmpty
  <2> DEFINE p == Tail(q)
  <2>5. /\ p \in Seq(Activation) /\ Len(p) = n - 1 /\ Head(q) = q[1] /\ n \in Nat /\ n >= 1
        /\ Head(q) \in Activation
        /\ \A i \in 1 .. n - 1 : p[i] = q[i + 1] /\ i + 1 \in 1 .. n
    BY <2>3, <2>4, EmptySeq
  <2> HIDE DEF p
  <2>6. /\ Active(p) \in Seq(ActiveFrame)
        /\ Active(q) = IF IsEnd(Head(q)) THEN Append(Active(p), FrameOf(Head(q))) ELSE Active(p)
    BY <2>3, <2>4, ActiveHead DEF p
  <2>7. Free(p)
    BY <2>3, <2>5
  <2>8. Clean(Active(p))
    <3>1. n - 1 \in Nat /\ ~ (n <= n - 1)
      BY <2>5
    <3> QED
      BY <2>2, <2>5, <2>7, <3>1
  <2>9. Head(q).do # "call"
    BY <2>3, <2>5
  <2>10. IsEnd(Head(q)) => FrameOf(Head(q)) \in ActiveFrame /\ FrameOf(Head(q)).kind # "call"
    BY <2>5, <2>9, EndFrame
  <2> DEFINE f == Active(p)
             x == FrameOf(Head(q))
  <2>11. Clean(f) /\ f \in Seq(ActiveFrame)
    BY <2>6, <2>8
  <2> HIDE DEF f, x
  <2>12. ASSUME x.kind # "call", x \in ActiveFrame PROVE Clean(Append(f, x))
    BY <2>11, <2>12
  <2> QED
    BY <2>3, <2>6, <2>8, <2>10, <2>12 DEF f, x
<1>2. Free(c) /\ Len(c) \in Nat
  OBVIOUS
<1>3. Clean(Active(c))
  <2> HIDE DEF Free, Clean
  <2> QED
    BY <1>1, <1>2
<1> QED
  BY <1>3

(***************************************************************************)
(* What the records take from the end of the locals and leave there:       *)
(* anything, the null pointer included, or a primitive value.              *)
(***************************************************************************)

Kinds == {"any", "basic"}

Anything == <<"any">>

\* A callee, and the first k of its arguments.
CalleeAnd(k) == Anything \o [j \in 1 .. k |-> "basic"]

Resumed == {"If", "While", "For", "VarDecl", "Return",
            "Unary", "Binary", "Logical", "Assign", "Call"}

StmtAt(nds, k) == k \in 0 .. Len(nds) /\ IsStmt(nds, k)
ExprAt(nds, k) == k \in 0 .. Len(nds) /\ IsExpr(nds, k)

\* Records for the nodes of a tree, each where its class allows it.
Placed(nds, item) ==
  /\ item.do = "execute"  => StmtAt(nds, item.node)
  /\ item.do = "evaluate" => ExprAt(nds, item.node)
  /\ item.do = "resume"   => item.node \in 1 .. Len(nds) /\ nds[item.node].kind \in Resumed

Records(nds) == {item \in Activation : Placed(nds, item)}

Pops(nds, item) ==
  CASE item.do \in {"discard", "checkCallee", "copyArg"} -> Anything
    [] item.do = "resume" ->
         CASE nds[item.node].kind = "Binary" -> <<"any", "any">>
           [] nds[item.node].kind = "Call"   -> CalleeAnd(Len(nds[item.node].args))
           [] OTHER                          -> Anything
    [] OTHER -> <<>>

Pushes(nds, item) ==
  CASE item.do \in {"evaluate", "checkCallee", "call"} -> Anything
    [] item.do = "copyArg" -> <<"basic">>
    [] item.do = "resume" -> IF nds[item.node].kind \in ExprKind THEN Anything ELSE <<>>
    [] OTHER -> <<>>

\* A tree that the interpreter can be given.
Runnable(nds) ==
  /\ nds \in Seq(ASTNode(String, Value))
  /\ \A i \in 1 .. Len(nds) : Children(nds[i]) \subseteq 0 .. i - 1 /\ Sorted(nds, nds[i])

\* The records in turn: before each the locals are of the kinds w, of which it
\* leaves those in b alone.  A call will cut the locals down to what its
\* callers hold, f locals and more; nothing before its end takes one of those.
Chained(nds, f, items, b, w) ==
  /\ b \in [1 .. Len(items) -> Seq(Kinds)]
  /\ w \in [1 .. Len(items) + 1 -> Seq(Kinds)]
  /\ \A i \in 1 .. Len(items) :
       /\ w[i] = b[i] \o Pops(nds, items[i])
       /\ w[i + 1] = b[i] \o Pushes(nds, items[i])
  /\ \A at \in 1 .. Len(items) : items[at].do = "call" =>
       /\ items[at].held = f + Len(b[at])
       /\ \A i \in 1 .. at : \E d \in Seq(Kinds) : b[i] = b[at] \o d

\* From locals of these kinds to locals of those.
Leads(nds, f, items, s, e) ==
  \E b, w : Chained(nds, f, items, b, w) /\ w[1] = s /\ w[Len(items) + 1] = e

LEMMA NodeFields ==
  ASSUME NEW nds, Runnable(nds), NEW k \in 1 .. Len(nds)
  PROVE  /\ nds[k].kind = "Call" => nds[k].callee \in Nat /\ nds[k].args \in Seq(Nat)
         /\ nds[k].kind = "Block" => nds[k].stmts \in Seq(Nat)
         /\ nds[k].kind \in {"Var", "Assign", "VarDecl", "FuncDecl"} => nds[k].name \in String
         /\ nds[k].kind = "FuncDecl" => nds[k].params \in Seq(String) /\ nds[k].body \in Nat
         /\ nds[k].kind = "Literal" => nds[k].value \in Value
         /\ nds[k].kind \in {"Logical"} => nds[k].op \in LogicalOp
         /\ nds[k].kind \in {"Binary"} => nds[k].op \in BinaryOp
         /\ nds[k].kind \in ExprKind \cup {"VarDecl", "FuncDecl", "ExprStmt", "Return", "Block",
                                           "If", "While", "For"}
<1>1. nds[k] \in ASTNode(String, Value)
  BY DEF Runnable
<1> QED
  BY <1>1 DEF ASTNode, ExprKind

LEMMA CalleeFacts ==
  ASSUME NEW k \in Nat
  PROVE  /\ CalleeAnd(k) \in Seq(Kinds) /\ Len(CalleeAnd(k)) = k + 1
         /\ CalleeAnd(k)[1] = "any"
         /\ \A j \in 2 .. k + 1 : CalleeAnd(k)[j] = "basic"
<1> DEFINE t == [j \in 1 .. k |-> "basic"]
<1>1. t \in Seq(Kinds) /\ Len(t) = k /\ \A j \in 1 .. k : t[j] = "basic"
  BY DEF Kinds
<1>2. Anything \in Seq(Kinds) /\ Len(Anything) = 1 /\ Anything[1] = "any"
  BY DEF Anything, Kinds
<1>3. CalleeAnd(k) = Anything \o t
  BY DEF CalleeAnd
<1> HIDE DEF t
<1>4. /\ Anything \o t \in Seq(Kinds) /\ Len(Anything \o t) = Len(Anything) + Len(t)
      /\ \A i \in 1 .. Len(Anything) + Len(t) :
           (Anything \o t)[i] = IF i <= Len(Anything) THEN Anything[i] ELSE t[i - Len(Anything)]
  BY <1>1, <1>2, ConcatProperties
<1>5. ASSUME NEW j \in 2 .. k + 1 PROVE (Anything \o t)[j] = "basic"
  <2>1. j \in 1 .. Len(Anything) + Len(t) /\ ~ (j <= Len(Anything)) /\ j - 1 \in 1 .. k
    BY <1>1, <1>2
  <2> QED
    BY <1>1, <1>2, <1>4, <2>1
<1>6. 1 \in 1 .. Len(Anything) + Len(t) /\ 1 <= Len(Anything)
  BY <1>1, <1>2
<1> QED
  BY <1>1, <1>2, <1>3, <1>4, <1>5, <1>6

LEMMA CalleeNext ==
  ASSUME NEW k \in Nat
  PROVE  CalleeAnd(k) \o <<"basic">> = CalleeAnd(k + 1)
<1>1. k + 1 \in Nat
  OBVIOUS
<1> DEFINE a == CalleeAnd(k)
           z == CalleeAnd(k + 1)
           t == <<"basic">>
<1>2. /\ a \in Seq(Kinds) /\ Len(a) = k + 1 /\ a[1] = "any"
      /\ \A j \in 2 .. k + 1 : a[j] = "basic"
  BY CalleeFacts
<1>3. /\ z \in Seq(Kinds) /\ Len(z) = k + 2 /\ z[1] = "any"
      /\ \A j \in 2 .. k + 2 : z[j] = "basic"
  BY <1>1, CalleeFacts
<1>4. t \in Seq(Kinds) /\ Len(t) = 1 /\ t[1] = "basic"
  BY DEF Kinds
<1> HIDE DEF a, z, t
<1>5. ASSUME NEW j \in 1 .. Len(a) PROVE z[j] = a[j]
  <2>1. CASE j = 1
    BY <1>2, <1>3, <2>1
  <2>2. CASE j # 1
    <3>1. j \in 2 .. k + 1 /\ j \in 2 .. k + 2
      BY <1>2, <2>2
    <3> QED
      BY <1>2, <1>3, <3>1
  <2> QED
    BY <2>1, <2>2
<1>6. ASSUME NEW j \in 1 .. Len(t) PROVE z[Len(a) + j] = t[j]
  <2>1. j = 1 /\ Len(a) + j \in 2 .. k + 2
    BY <1>2, <1>4
  <2> QED
    BY <1>3, <1>4, <2>1
<1>7. Len(z) = Len(a) + Len(t)
  BY <1>2, <1>3, <1>4
<1>8. a \o t = z
  BY <1>2, <1>3, <1>4, <1>5, <1>6, <1>7, ConcatIs
<1> QED
  BY <1>8 DEF a, z, t

LEMMA NoArguments == CalleeAnd(0) = Anything
<1>1. Anything \in Seq(Kinds) /\ Len(Anything) = 1 /\ Anything[1] = "any"
  BY DEF Anything, Kinds
<1>2. CalleeAnd(0) \in Seq(Kinds) /\ Len(CalleeAnd(0)) = 0 + 1 /\ CalleeAnd(0)[1] = "any"
  <2>1. 0 \in Nat
    OBVIOUS
  <2> QED
    BY <2>1, CalleeFacts
<1>3. \A j \in 1 .. Len(Anything) : CalleeAnd(0)[j] = Anything[j]
  BY <1>1, <1>2
<1> QED
  BY <1>1, <1>2, <1>3, SeqEqual

LEMMA EffectKinds ==
  ASSUME NEW nds, Runnable(nds), NEW item \in Records(nds)
  PROVE  Pops(nds, item) \in Seq(Kinds) /\ Pushes(nds, item) \in Seq(Kinds)
<1>1. Anything \in Seq(Kinds) /\ <<"any", "any">> \in Seq(Kinds) /\ <<"basic">> \in Seq(Kinds)
      /\ <<>> \in Seq(Kinds)
  BY DEF Anything, Kinds
<1>2. Pushes(nds, item) \in Seq(Kinds)
  BY <1>1 DEF Pushes
<1>3. Pops(nds, item) \in Seq(Kinds)
  <2>1. CASE item.do = "resume" /\ nds[item.node].kind = "Call"
    <3>1. item.node \in 1 .. Len(nds)
      BY <2>1 DEF Records, Placed
    <3>2. Len(nds[item.node].args) \in Nat
      BY <2>1, <3>1, NodeFields
    <3> QED
      BY <2>1, <3>2, CalleeFacts DEF Pops
  <2>2. CASE item.do = "resume" /\ nds[item.node].kind # "Call"
    BY <1>1, <2>2 DEF Pops
  <2>3. CASE item.do # "resume"
    BY <1>1, <2>3 DEF Pops
  <2> QED
    BY <2>1, <2>2, <2>3
<1> QED
  BY <1>2, <1>3

LEMMA LeadsNil ==
  ASSUME NEW nds, NEW f \in Nat, NEW s \in Seq(Kinds)
  PROVE  Leads(nds, f, <<>>, s, s)
<1> DEFINE none == <<>>
           b == [i \in 1 .. 0 |-> s]
           w == [i \in 1 .. 1 |-> s]
<1>1. none = <<>> /\ Len(none) = 0
  OBVIOUS
<1> HIDE DEF none
<1>2. Chained(nds, f, none, b, w) /\ w[1] = s /\ w[Len(none) + 1] = s
  BY <1>1 DEF Chained
<1> HIDE DEF b, w
<1> QED
  BY <1>1, <1>2 DEF Leads

LEMMA LeadsOne ==
  ASSUME NEW nds, Runnable(nds), NEW f \in Nat, NEW item \in Records(nds),
         item.do # "call", NEW base \in Seq(Kinds)
  PROVE  Leads(nds, f, <<item>>, base \o Pops(nds, item), base \o Pushes(nds, item))
<1> DEFINE one == <<item>>
           s == base \o Pops(nds, item)
           e == base \o Pushes(nds, item)
           b == [i \in 1 .. 1 |-> base]
           w == [i \in 1 .. 2 |-> IF i = 1 THEN s ELSE e]
<1>1. s \in Seq(Kinds) /\ e \in Seq(Kinds)
  BY EffectKinds, ConcatProperties
<1>2. Len(one) = 1 /\ one[1] = item
  OBVIOUS
<1>3. /\ b \in [1 .. 1 -> Seq(Kinds)] /\ w \in [1 .. 2 -> Seq(Kinds)]
      /\ b[1] = base /\ w[1] = s /\ w[2] = e
  BY <1>1
<1> HIDE DEF one, b, w
<1>4. Chained(nds, f, one, b, w)
  BY <1>2, <1>3 DEF Chained
<1>5. w[Len(one) + 1] = e
  BY <1>2, <1>3
<1> QED
  BY <1>3, <1>4, <1>5 DEF Leads, one

\* One list of records behind another, which has no call of its own.
LEMMA LeadsConcat ==
  ASSUME NEW nds, NEW f \in Nat, NEW r \in Seq(Records(nds)), NEW t \in Seq(Records(nds)),
         \A i \in 1 .. Len(t) : t[i].do # "call",
         NEW s, NEW x, NEW e, Leads(nds, f, r, s, x), Leads(nds, f, t, x, e)
  PROVE  Leads(nds, f, r \o t, s, e)
<1>1. PICK rb, rw : Chained(nds, f, r, rb, rw) /\ rw[1] = s /\ rw[Len(r) + 1] = x
  BY DEF Leads
<1>2. PICK tb, tw : Chained(nds, f, t, tb, tw) /\ tw[1] = x /\ tw[Len(t) + 1] = e
  BY DEF Leads
<1> DEFINE m == Len(r)
           n == Len(t)
           both == r \o t
           b == [i \in 1 .. m + n |-> IF i <= m THEN rb[i] ELSE tb[i - m]]
           w == [i \in 1 .. m + n + 1 |-> IF i <= m THEN rw[i] ELSE tw[i - m]]
<1>3. m \in Nat /\ n \in Nat /\ Len(both) = m + n
  OBVIOUS
<1>4. \A i \in 1 .. m + n : both[i] = IF i <= m THEN r[i] ELSE t[i - m]
  BY ConcatProperties
<1>5. /\ rb \in [1 .. m -> Seq(Kinds)] /\ rw \in [1 .. m + 1 -> Seq(Kinds)]
      /\ tb \in [1 .. n -> Seq(Kinds)] /\ tw \in [1 .. n + 1 -> Seq(Kinds)]
  BY <1>1, <1>2 DEF Chained
<1>6. /\ \A i \in 1 .. m : rw[i] = rb[i] \o Pops(nds, r[i]) /\ rw[i + 1] = rb[i] \o Pushes(nds, r[i])
      /\ \A i \in 1 .. n : tw[i] = tb[i] \o Pops(nds, t[i]) /\ tw[i + 1] = tb[i] \o Pushes(nds, t[i])
  BY <1>1, <1>2 DEF Chained
<1>7. \A at \in 1 .. m : r[at].do = "call" =>
       /\ r[at].held = f + Len(rb[at])
       /\ \A i \in 1 .. at : \E d \in Seq(Kinds) : rb[i] = rb[at] \o d
  BY <1>1 DEF Chained
<1>8. rw[m + 1] = tw[1] /\ rw[1] = s /\ tw[n + 1] = e
  BY <1>1, <1>2
<1>9. \A i \in 1 .. n : t[i].do # "call"
  OBVIOUS
<1>10. /\ \A i \in 1 .. m + n : b[i] = IF i <= m THEN rb[i] ELSE tb[i - m]
       /\ \A i \in 1 .. m + n + 1 : w[i] = IF i <= m THEN rw[i] ELSE tw[i - m]
  OBVIOUS
<1>11. b \in [1 .. m + n -> Seq(Kinds)] /\ w \in [1 .. m + n + 1 -> Seq(Kinds)]
  <2> HIDE DEF m, n
  <2>1. \A i \in 1 .. m + n : ~ (i <= m) => i - m \in 1 .. n
    BY <1>3
  <2>2. \A i \in 1 .. m + n + 1 : ~ (i <= m) => i - m \in 1 .. n + 1
    BY <1>3
  <2> QED
    BY <1>3, <1>5, <2>1, <2>2
<1> HIDE DEF m, n, both, b, w
<1>12. ASSUME NEW i \in 1 .. m + n
       PROVE  w[i] = b[i] \o Pops(nds, both[i]) /\ w[i + 1] = b[i] \o Pushes(nds, both[i])
  <2>1. i \in 1 .. m + n + 1 /\ i + 1 \in 1 .. m + n + 1
    BY <1>3
  <2>2. CASE i <= m
    <3>1. i \in 1 .. m
      BY <1>3, <2>2
    <3>2. w[i + 1] = rw[i + 1]
      <4>1. CASE i = m
        <5>1. ~ (i + 1 <= m) /\ i + 1 - m = 1
          BY <1>3, <4>1
        <5> QED
          BY <1>8, <1>10, <2>1, <4>1, <5>1
      <4>2. CASE i # m
        <5>1. i + 1 <= m
          BY <1>3, <2>2, <4>2
        <5> QED
          BY <1>10, <2>1, <5>1
      <4> QED
        BY <4>1, <4>2
    <3> QED
      BY <1>4, <1>6, <1>10, <2>1, <2>2, <3>1, <3>2
  <2>3. CASE ~ (i <= m)
    <3>1. i - m \in 1 .. n /\ ~ (i + 1 <= m) /\ (i + 1) - m = (i - m) + 1
      BY <1>3, <2>3
    <3>2. w[i] = tw[i - m] /\ w[i + 1] = tw[(i - m) + 1] /\ b[i] = tb[i - m]
      BY <1>10, <2>1, <2>3, <3>1
    <3>3. both[i] = t[i - m]
      BY <1>4, <2>3
    <3>4. PICK j \in 1 .. n : j = i - m
      BY <3>1
    <3>5. tw[j] = tb[j] \o Pops(nds, t[j]) /\ tw[j + 1] = tb[j] \o Pushes(nds, t[j])
      BY <1>6
    <3> QED
      BY <3>2, <3>3, <3>4, <3>5
  <2> QED
    BY <2>2, <2>3
<1>13. ASSUME NEW at \in 1 .. m + n, both[at].do = "call"
       PROVE  /\ both[at].held = f + Len(b[at])
              /\ \A i \in 1 .. at : \E d \in Seq(Kinds) : b[i] = b[at] \o d
  <2>1. CASE at <= m
    <3>1. at \in 1 .. m /\ \A i \in 1 .. at : i \in 1 .. m + n /\ i <= m
      BY <1>3, <2>1
    <3>2. r[at].do = "call" /\ both[at] = r[at] /\ b[at] = rb[at] /\ \A i \in 1 .. at : b[i] = rb[i]
      BY <1>4, <1>10, <1>13, <2>1, <3>1
    <3> QED
      BY <1>7, <3>1, <3>2
  <2>2. CASE ~ (at <= m)
    <3>1. at - m \in 1 .. n
      BY <1>3, <2>2
    <3> QED
      BY <1>4, <1>9, <1>13, <2>2, <3>1
  <2> QED
    BY <2>1, <2>2
<1>14. Chained(nds, f, both, b, w)
  BY <1>3, <1>11, <1>12, <1>13 DEF Chained
<1>15. w[1] = s /\ w[Len(both) + 1] = e
  <2>1. 1 \in 1 .. m + n + 1 /\ m + n + 1 \in 1 .. m + n + 1 /\ ~ (m + n + 1 <= m)
        /\ m + n + 1 - m = n + 1
    BY <1>3
  <2>2. w[m + n + 1] = e
    <3>1. \A i \in 1 .. m + n + 1 : ~ (i <= m) => w[i] = tw[i - m]
      BY <1>10
    <3>2. PICK z \in 1 .. m + n + 1 : z = m + n + 1
      BY <2>1
    <3>3. w[z] = tw[z - m] /\ z - m = n + 1
      BY <1>3, <3>1, <3>2
    <3> QED
      BY <1>8, <3>2, <3>3
  <2>3. CASE m = 0
    <3>1. ~ (1 <= m) /\ 1 - m = 1 /\ m + 1 = 1
      BY <2>3
    <3> QED
      BY <1>3, <1>8, <1>10, <2>1, <2>2, <3>1
  <2>4. CASE m # 0
    <3>1. 1 <= m
      BY <1>3, <2>4
    <3> QED
      BY <1>3, <1>8, <1>10, <2>1, <2>2, <3>1
  <2> QED
    BY <2>3, <2>4
<1> QED
  BY <1>14, <1>15 DEF Leads, both

\* Statements take nothing and leave nothing, up to the end of their block.
LEMMA LeadsBody ==
  ASSUME NEW nds, NEW f \in Nat, NEW q \in Seq(Records(nds)),
         \A i \in 1 .. Len(q) : q[i].do = "execute",
         NEW item \in Records(nds), IsEnd(item), item.do = "call" => item.held = f
  PROVE  Leads(nds, f, q \o <<item>>, <<>>, Pushes(nds, item))
<1> DEFINE m == Len(q)
           body == q \o <<item>>
           none == <<>>
           e == Pushes(nds, item)
           b == [i \in 1 .. m + 1 |-> none]
           w == [i \in 1 .. m + 2 |-> IF i <= m + 1 THEN none ELSE e]
<1>1. m \in Nat /\ body \in Seq(Records(nds)) /\ Len(body) = m + 1
      /\ \A i \in 1 .. m + 1 : body[i] = IF i <= m THEN q[i] ELSE item
  OBVIOUS
<1>2. none \in Seq(Kinds) /\ Len(none) = 0 /\ none \o none = none
  OBVIOUS
<1>3. e \in Seq(Kinds) /\ none \o e = e
  <2>1. item.do \in {"block", "call"}
    BY DEF IsEnd
  <2>2. Anything \in Seq(Kinds) /\ <<>> \in Seq(Kinds) /\ (e = Anything \/ e = <<>>)
    BY <2>1 DEF Anything, Kinds, Pushes
  <2>3. e \in Seq(Kinds)
    BY <2>2
  <2> QED
    BY <2>3, ConcatEmptySeq
<1>4. Pops(nds, item) = none
  BY DEF IsEnd, Pops
<1>5. \A i \in 1 .. m : Pops(nds, q[i]) = none /\ Pushes(nds, q[i]) = none
  BY DEF Pops, Pushes
<1>6. /\ \A i \in 1 .. m + 1 : b[i] = none
      /\ \A i \in 1 .. m + 2 : w[i] = IF i <= m + 1 THEN none ELSE e
      /\ b \in [1 .. m + 1 -> Seq(Kinds)] /\ w \in [1 .. m + 2 -> Seq(Kinds)]
  BY <1>2, <1>3
<1>7. \A i \in 1 .. m : q[i].do = "execute"
  OBVIOUS
<1> HIDE DEF m, body, none, e, b, w
<1>8. ASSUME NEW i \in 1 .. m + 1
      PROVE  w[i] = b[i] \o Pops(nds, body[i]) /\ w[i + 1] = b[i] \o Pushes(nds, body[i])
  <2>1. i \in 1 .. m + 2 /\ i + 1 \in 1 .. m + 2 /\ i <= m + 1
    BY <1>1
  <2>2. CASE i <= m
    <3>1. i \in 1 .. m /\ i + 1 <= m + 1
      BY <1>1, <2>2
    <3> QED
      BY <1>1, <1>2, <1>5, <1>6, <2>1, <2>2, <3>1
  <2>3. CASE ~ (i <= m)
    <3>1. i = m + 1 /\ ~ (i + 1 <= m + 1)
      BY <1>1, <2>3
    <3>2. Pushes(nds, item) = e
      BY DEF e
    <3> QED
      BY <1>1, <1>2, <1>3, <1>4, <1>6, <2>1, <2>3, <3>1, <3>2
  <2> QED
    BY <2>2, <2>3
<1>9. ASSUME NEW at \in 1 .. m + 1, body[at].do = "call"
      PROVE  /\ body[at].held = f + Len(b[at])
             /\ \A i \in 1 .. at : \E d \in Seq(Kinds) : b[i] = b[at] \o d
  <2>1. body[at] = item
    <3>1. ~ (at <= m)
      BY <1>1, <1>7, <1>9
    <3> QED
      BY <1>1, <3>1
  <2>2. \A i \in 1 .. at : i \in 1 .. m + 1
    BY <1>1
  <2>3. b[at] = none /\ \A i \in 1 .. at : b[i] = none
    BY <1>6, <2>2
  <2>4. item.do = "call" /\ item.held = f /\ f + Len(none) = f
    BY <1>2, <1>9, <2>1
  <2> QED
    BY <1>2, <2>1, <2>3, <2>4
<1>10. Chained(nds, f, body, b, w)
  <2>1. (m + 1) + 1 = m + 2
    BY <1>1
  <2> QED
    BY <1>1, <1>6, <1>8, <1>9, <2>1 DEF Chained
<1>11. w[1] = none /\ w[Len(body) + 1] = e
  <2>1. 1 \in 1 .. m + 2 /\ 1 <= m + 1 /\ m + 2 \in 1 .. m + 2 /\ ~ (m + 2 <= m + 1)
        /\ (m + 1) + 1 = m + 2
    BY <1>1
  <2> QED
    BY <1>1, <1>6, <2>1
<1> QED
  BY <1>10, <1>11 DEF Leads, body, none, e

LEMMA KindsConcat ==
  /\ \A x, y \in Seq(Kinds) : x \o y \in Seq(Kinds) /\ Len(x \o y) = Len(x) + Len(y)
  /\ \A x, y, z \in Seq(Kinds) : (x \o y) \o z = x \o (y \o z)
  BY ConcatProperties, ConcatAssociative

\* The first record may be replaced by others that do the same.
LEMMA Replaced ==
  ASSUME NEW nds, Runnable(nds), NEW items \in Seq(Records(nds)), items # <<>>,
         NEW s, NEW e, Leads(nds, 0, items, s, e)
  PROVE  \E base \in Seq(Kinds) :
           /\ s = base \o Pops(nds, Head(items))
           /\ Head(items).do = "call" => Head(items).held = Len(base)
           /\ \A r \in Seq(Records(nds)), x \in Seq(Kinds) :
                Leads(nds, Len(base), r, x, Pushes(nds, Head(items)))
                => Leads(nds, 0, r \o Tail(items), base \o x, e)
<1>1. PICK b, w : Chained(nds, 0, items, b, w) /\ w[1] = s /\ w[Len(items) + 1] = e
  BY DEF Leads
<1> DEFINE n == Len(items)
           head == Head(items)
           tail == Tail(items)
           base == b[1]
<1>2. /\ n \in Nat /\ n >= 1 /\ Len(tail) = n - 1 /\ tail \in Seq(Records(nds))
      /\ head = items[1] /\ head \in Records(nds)
      /\ \A i \in 1 .. n - 1 : tail[i] = items[i + 1]
      /\ \A i \in 1 .. n : items[i] \in Records(nds)
  BY EmptySeq
<1>3. /\ b \in [1 .. n -> Seq(Kinds)] /\ w \in [1 .. n + 1 -> Seq(Kinds)]
      /\ \A i \in 1 .. n : w[i] = b[i] \o Pops(nds, items[i]) /\ w[i + 1] = b[i] \o Pushes(nds, items[i])
      /\ \A at \in 1 .. n : items[at].do = "call" =>
           /\ items[at].held = 0 + Len(b[at])
           /\ \A i \in 1 .. at : \E d \in Seq(Kinds) : b[i] = b[at] \o d
  BY <1>1 DEF Chained
<1>4. w[1] = s /\ w[n + 1] = e
  BY <1>1
<1> HIDE DEF n, head, tail
<1>5. 1 \in 1 .. n /\ base \in Seq(Kinds) /\ Len(base) \in Nat
  BY <1>2, <1>3
<1>6. s = base \o Pops(nds, head) /\ w[2] = base \o Pushes(nds, head)
  <2>1. w[1] = base \o Pops(nds, items[1]) /\ w[1 + 1] = base \o Pushes(nds, items[1]) /\ 1 + 1 = 2
    BY <1>3, <1>5
  <2> QED
    BY <1>2, <1>4, <2>1
<1>7. head.do = "call" => head.held = Len(base)
  BY <1>2, <1>3, <1>5, SMTT(40)
<1> HIDE DEF base
<1>8. ASSUME NEW r \in Seq(Records(nds)), NEW x \in Seq(Kinds),
             Leads(nds, Len(base), r, x, Pushes(nds, head))
      PROVE  Leads(nds, 0, r \o tail, base \o x, e)
  <2>1. PICK rb, rw : /\ Chained(nds, Len(base), r, rb, rw)
                      /\ rw[1] = x /\ rw[Len(r) + 1] = Pushes(nds, head)
    BY <1>8 DEF Leads
  <2> DEFINE m == Len(r)
             all == r \o tail
             nb == [i \in 1 .. m + n - 1 |-> IF i <= m THEN base \o rb[i] ELSE b[i - m + 1]]
             nw == [i \in 1 .. m + n |-> IF i <= m THEN base \o rw[i] ELSE w[i - m + 1]]
  <2>2. /\ rb \in [1 .. m -> Seq(Kinds)] /\ rw \in [1 .. m + 1 -> Seq(Kinds)]
        /\ \A i \in 1 .. m : rw[i] = rb[i] \o Pops(nds, r[i]) /\ rw[i + 1] = rb[i] \o Pushes(nds, r[i])
        /\ \A at \in 1 .. m : r[at].do = "call" =>
             /\ r[at].held = Len(base) + Len(rb[at])
             /\ \A i \in 1 .. at : \E d \in Seq(Kinds) : rb[i] = rb[at] \o d
    BY <2>1 DEF Chained
  <2>3. rw[1] = x /\ rw[m + 1] = Pushes(nds, head)
    BY <2>1
  <2>4. /\ m \in Nat /\ all \in Seq(Records(nds)) /\ Len(all) = m + n - 1
        /\ \A i \in 1 .. m : all[i] = r[i] /\ r[i] \in Records(nds)
        /\ \A i \in m + 1 .. m + n - 1 : all[i] = items[i - m + 1] /\ i - m + 1 \in 2 .. n
    <3>1. m \in Nat /\ \A i \in 1 .. m : r[i] \in Records(nds)
      OBVIOUS
    <3>2. /\ all \in Seq(Records(nds)) /\ Len(all) = Len(r) + Len(tail)
          /\ \A i \in 1 .. Len(r) + Len(tail) : all[i] = IF i <= Len(r) THEN r[i] ELSE tail[i - Len(r)]
      BY <1>2, ConcatProperties
    <3> HIDE DEF all
    <3>3. \A i \in 1 .. m : i \in 1 .. Len(r) + Len(tail) /\ i <= Len(r)
      BY <1>2
    <3>4. ASSUME NEW i \in m + 1 .. m + n - 1
          PROVE  all[i] = items[i - m + 1] /\ i - m + 1 \in 2 .. n
      <4>1. i \in 1 .. Len(r) + Len(tail) /\ ~ (i <= Len(r)) /\ i - m \in 1 .. n - 1
            /\ (i - m) + 1 \in 2 .. n
        BY <1>2, <3>1
      <4> QED
        BY <1>2, <3>2, <4>1
    <3> QED
      BY <1>2, <3>1, <3>2, <3>3, <3>4
  <2> HIDE DEF m, all
  <2>5. \A i \in 1 .. m : /\ rb[i] \in Seq(Kinds) /\ base \o rb[i] \in Seq(Kinds)
                          /\ Len(base \o rb[i]) = Len(base) + Len(rb[i])
    BY <1>5, <2>2, KindsConcat
  <2>6. \A i \in 1 .. m + 1 : rw[i] \in Seq(Kinds) /\ base \o rw[i] \in Seq(Kinds)
    BY <1>5, <2>2, KindsConcat
  <2>7. \A i \in m + 1 .. m + n : i - m + 1 \in 2 .. n + 1 /\ w[i - m + 1] \in Seq(Kinds)
    BY <1>2, <1>3, <2>4
  <2>8. \A i \in m + 1 .. m + n - 1 : i - m + 1 \in 2 .. n /\ b[i - m + 1] \in Seq(Kinds)
    BY <1>2, <1>3, <2>4
  <2>9. nb \in [1 .. m + n - 1 -> Seq(Kinds)] /\ nw \in [1 .. m + n -> Seq(Kinds)]
    <3>1. \A i \in 1 .. m + n - 1 : (i <= m /\ i \in 1 .. m) \/ (~ (i <= m) /\ i \in m + 1 .. m + n - 1)
      BY <1>2, <2>4
    <3>2. \A i \in 1 .. m + n : (i <= m /\ i \in 1 .. m + 1) \/ (~ (i <= m) /\ i \in m + 1 .. m + n)
      BY <1>2, <2>4
    <3> QED
      BY <2>5, <2>6, <2>7, <2>8, <3>1, <3>2
  <2>10. /\ \A i \in 1 .. m : nb[i] = base \o rb[i]
         /\ \A i \in m + 1 .. m + n - 1 : nb[i] = b[i - m + 1]
         /\ \A i \in m + 1 .. m + n : nw[i] = w[i - m + 1]
         /\ \A i \in 1 .. m : nw[i] = base \o rw[i]
    BY <1>2, <2>4, SMTT(40)
  <2> HIDE DEF nb, nw
  <2>11. nw[m + 1] = base \o rw[m + 1]
    <3>1. m + 1 \in m + 1 .. m + n /\ (m + 1) - m + 1 = 2
      BY <1>2, <2>4
    <3> QED
      BY <1>6, <2>3, <2>10, <3>1
  <2>12. ASSUME NEW i \in 1 .. m + n - 1
         PROVE  nw[i] = nb[i] \o Pops(nds, all[i]) /\ nw[i + 1] = nb[i] \o Pushes(nds, all[i])
    <3>1. CASE i \in 1 .. m
      <4>1. Pops(nds, r[i]) \in Seq(Kinds) /\ Pushes(nds, r[i]) \in Seq(Kinds)
        BY <2>4, <3>1, EffectKinds
      <4>2. base \o rw[i] = (base \o rb[i]) \o Pops(nds, r[i])
        <5>1. rw[i] = rb[i] \o Pops(nds, r[i]) /\ rb[i] \in Seq(Kinds)
          BY <2>2, <2>5, <3>1
        <5>2. (base \o rb[i]) \o Pops(nds, r[i]) = base \o (rb[i] \o Pops(nds, r[i]))
          BY <1>5, <4>1, <5>1, KindsConcat
        <5> QED
          BY <5>1, <5>2
      <4>3. base \o rw[i + 1] = (base \o rb[i]) \o Pushes(nds, r[i])
        <5>1. rw[i + 1] = rb[i] \o Pushes(nds, r[i]) /\ rb[i] \in Seq(Kinds)
          BY <2>2, <2>5, <3>1
        <5>2. (base \o rb[i]) \o Pushes(nds, r[i]) = base \o (rb[i] \o Pushes(nds, r[i]))
          BY <1>5, <4>1, <5>1, KindsConcat
        <5> QED
          BY <5>1, <5>2
      <4>4. nw[i + 1] = base \o rw[i + 1]
        <5>1. i + 1 = m + 1 \/ i + 1 \in 1 .. m
          BY <2>4, <3>1
        <5> QED
          BY <2>10, <2>11, <5>1
      <4> QED
        BY <2>4, <2>10, <3>1, <4>2, <4>3, <4>4
    <3>2. CASE i \notin 1 .. m
      <4>1. i \in m + 1 .. m + n - 1 /\ i \in m + 1 .. m + n /\ i + 1 \in m + 1 .. m + n
            /\ (i + 1) - m + 1 = (i - m + 1) + 1 /\ i - m + 1 \in 1 .. n
        BY <1>2, <2>4, <3>2
      <4>2. nw[i] = w[i - m + 1] /\ nw[i + 1] = w[(i - m + 1) + 1] /\ nb[i] = b[i - m + 1]
        BY <2>10, <4>1
      <4>3. all[i] = items[i - m + 1]
        BY <2>4, <4>1
      <4>4. PICK j \in 1 .. n : j = i - m + 1
        BY <4>1
      <4>5. w[j] = b[j] \o Pops(nds, items[j]) /\ w[j + 1] = b[j] \o Pushes(nds, items[j])
        BY <1>3
      <4> QED
        BY <4>2, <4>3, <4>4, <4>5
    <3> QED
      BY <3>1, <3>2
  <2>13. ASSUME NEW at \in 1 .. m + n - 1, all[at].do = "call"
         PROVE  /\ all[at].held = 0 + Len(nb[at])
                /\ \A i \in 1 .. at : \E d \in Seq(Kinds) : nb[i] = nb[at] \o d
    <3>1. CASE at \in 1 .. m
      <4>1. r[at].do = "call" /\ all[at] = r[at] /\ nb[at] = base \o rb[at]
        BY <2>4, <2>10, <2>13, <3>1
      <4>2. all[at].held = 0 + Len(nb[at])
        <5>1. Len(base) \in Nat /\ Len(rb[at]) \in Nat /\ r[at].held = Len(base) + Len(rb[at])
          BY <1>5, <2>2, <2>5, <3>1, <4>1
        <5>2. Len(nb[at]) = Len(base) + Len(rb[at])
          BY <2>5, <3>1, <4>1
        <5> QED
          BY <4>1, <5>1, <5>2
      <4>3. ASSUME NEW i \in 1 .. at PROVE \E d \in Seq(Kinds) : nb[i] = nb[at] \o d
        <5>1. i \in 1 .. m /\ nb[i] = base \o rb[i]
          BY <2>4, <2>10, <3>1
        <5>2. PICK d \in Seq(Kinds) : rb[i] = rb[at] \o d
          BY <2>2, <3>1, <4>1
        <5>3. base \o (rb[at] \o d) = (base \o rb[at]) \o d
          BY <1>5, <2>5, <3>1, KindsConcat
        <5> QED
          BY <4>1, <5>1, <5>2, <5>3
      <4> QED
        BY <4>2, <4>3
    <3>2. CASE at \notin 1 .. m
      <4> DEFINE k == at - m + 1
      <4>1. at \in m + 1 .. m + n - 1 /\ k \in 1 .. n
        BY <1>2, <2>4, <3>2
      <4>2. items[k].do = "call" /\ all[at] = items[k] /\ nb[at] = b[k] /\ b[k] \in Seq(Kinds)
        BY <1>3, <2>4, <2>10, <2>13, <4>1
      <4> HIDE DEF k
      <4>3. items[k].held = 0 + Len(b[k]) /\ \A i \in 1 .. k : \E d \in Seq(Kinds) : b[i] = b[k] \o d
        BY <1>3, <4>1, <4>2
      <4>4. ASSUME NEW i \in 1 .. at PROVE \E d \in Seq(Kinds) : nb[i] = nb[at] \o d
        <5>1. CASE i \in 1 .. m
          <6>1. 1 \in 1 .. k
            BY <1>2, <4>1
          <6>2. PICK d \in Seq(Kinds) : base = b[k] \o d
            BY <4>3, <6>1 DEF base
          <6>3. (b[k] \o d) \o rb[i] = b[k] \o (d \o rb[i]) /\ d \o rb[i] \in Seq(Kinds)
            BY <2>5, <4>2, <5>1, KindsConcat
          <6> QED
            BY <2>10, <4>2, <5>1, <6>2, <6>3
        <5>2. CASE i \notin 1 .. m
          <6>1. i \in m + 1 .. m + n - 1 /\ i - m + 1 \in 1 .. k
            BY <1>2, <2>4, <4>1, <5>2 DEF k
          <6> QED
            BY <2>10, <4>2, <4>3, <6>1
        <5> QED
          BY <5>1, <5>2
      <4> QED
        BY <4>2, <4>3, <4>4
    <3> QED
      BY <3>1, <3>2
  <2>14. Chained(nds, 0, all, nb, nw)
    <3>1. (m + n - 1) + 1 = m + n
      BY <1>2, <2>4
    <3> QED
      BY <2>4, <2>9, <2>12, <2>13, <3>1 DEF Chained
  <2>15. nw[1] = base \o x
    <3>1. 1 = m + 1 \/ 1 \in 1 .. m
      BY <2>4
    <3> QED
      BY <2>3, <2>10, <2>11, <3>1
  <2>16. nw[Len(all) + 1] = e
    <3>1. m + n \in m + 1 .. m + n /\ (m + n) - m + 1 = n + 1 /\ (m + n - 1) + 1 = m + n
      BY <1>2, <2>4
    <3>2. nw[m + n] = w[n + 1]
      BY <2>10, <3>1
    <3> QED
      BY <1>4, <2>4, <3>1, <3>2
  <2> QED
    BY <2>14, <2>15, <2>16 DEF Leads, all
<1> QED
  BY <1>5, <1>6, <1>7, <1>8 DEF head, tail

\* A return drops the records up to the end of a call.
LEMMA CutAt ==
  ASSUME NEW nds, Runnable(nds), NEW items \in Seq(Records(nds)),
         NEW s, NEW e, Leads(nds, 0, items, s, e),
         NEW at \in 1 .. Len(items), items[at].do = "call"
  PROVE  \E base \in Seq(Kinds), d \in Seq(Kinds) :
           /\ s = base \o d
           /\ items[at].held = Len(base)
           /\ Leads(nds, 0, SubSeq(items, at + 1, Len(items)), base \o Anything, e)
<1>1. PICK b, w : Chained(nds, 0, items, b, w) /\ w[1] = s /\ w[Len(items) + 1] = e
  BY DEF Leads
<1> DEFINE n == Len(items)
           rest == SubSeq(items, at + 1, n)
           base == b[at]
           nb == [i \in 1 .. n - at |-> b[i + at]]
           nw == [i \in 1 .. n - at + 1 |-> w[i + at]]
<1>2. /\ b \in [1 .. n -> Seq(Kinds)] /\ w \in [1 .. n + 1 -> Seq(Kinds)]
      /\ \A i \in 1 .. n : w[i] = b[i] \o Pops(nds, items[i]) /\ w[i + 1] = b[i] \o Pushes(nds, items[i])
      /\ \A k \in 1 .. n : items[k].do = "call" =>
           /\ items[k].held = 0 + Len(b[k])
           /\ \A i \in 1 .. k : \E d \in Seq(Kinds) : b[i] = b[k] \o d
      /\ w[1] = s /\ w[n + 1] = e
  BY <1>1 DEF Chained
<1>3. n \in Nat /\ at \in Nat /\ at >= 1 /\ at <= n /\ items[1] \in Records(nds)
  OBVIOUS
<1>4. /\ rest \in Seq(Records(nds)) /\ Len(rest) = n - at
      /\ \A i \in 1 .. n - at : rest[i] = items[i + at]
  <2>1. at + 1 \in Nat \ {0} /\ n \in 0 .. Len(items)
    BY <1>3
  <2>2. /\ rest \in Seq(Records(nds)) /\ Len(rest) = IF at + 1 <= n THEN n - (at + 1) + 1 ELSE 0
        /\ \A i \in 1 .. Len(rest) : rest[i] = items[i + (at + 1) - 1]
    BY <2>1, PieceFacts
  <2> HIDE DEF rest, n
  <2>3. Len(rest) = n - at
    BY <1>3, <2>2
  <2>4. \A i \in 1 .. n - at : i + (at + 1) - 1 = i + at
    BY <1>3
  <2> QED
    BY <2>2, <2>3, <2>4
<1> HIDE DEF n, rest
<1>5. /\ nb \in [1 .. n - at -> Seq(Kinds)] /\ nw \in [1 .. n - at + 1 -> Seq(Kinds)]
      /\ \A i \in 1 .. n - at : nb[i] = b[i + at]
      /\ \A i \in 1 .. n - at + 1 : nw[i] = w[i + at]
  <2>1. \A i \in 1 .. n - at : i + at \in 1 .. n
    BY <1>3
  <2>2. \A i \in 1 .. n - at + 1 : i + at \in 1 .. n + 1
    BY <1>3
  <2> QED
    BY <1>2, <2>1, <2>2
<1> HIDE DEF nb, nw
<1>6. base \in Seq(Kinds) /\ items[at].held = Len(base)
  <2>1. at \in 1 .. n
    BY <1>3
  <2>2. base \in Seq(Kinds) /\ items[at].held = 0 + Len(base)
    BY <1>2, <2>1
  <2> QED
    BY <2>2
<1>7. \E d \in Seq(Kinds) : s = base \o d
  <2>1. 1 \in 1 .. at /\ at \in 1 .. n /\ 1 \in 1 .. n
    BY <1>3
  <2>2. PICK d \in Seq(Kinds) : b[1] = base \o d
    BY <1>2, <2>1
  <2>3. Pops(nds, items[1]) \in Seq(Kinds)
    BY <1>3, EffectKinds
  <2>4. s = b[1] \o Pops(nds, items[1])
    BY <1>2, <2>1
  <2>5. (base \o d) \o Pops(nds, items[1]) = base \o (d \o Pops(nds, items[1]))
        /\ d \o Pops(nds, items[1]) \in Seq(Kinds)
    BY <1>6, <2>3, KindsConcat
  <2> QED
    BY <2>2, <2>4, <2>5
<1>8. Chained(nds, 0, rest, nb, nw)
  <2>1. ASSUME NEW i \in 1 .. n - at
        PROVE  nw[i] = nb[i] \o Pops(nds, rest[i]) /\ nw[i + 1] = nb[i] \o Pushes(nds, rest[i])
    <3>1. i + at \in 1 .. n /\ i \in 1 .. n - at + 1 /\ i + 1 \in 1 .. n - at + 1
          /\ (i + 1) + at = (i + at) + 1
      BY <1>3
    <3> QED
      BY <1>2, <1>4, <1>5, <3>1
  <2>2. ASSUME NEW k \in 1 .. n - at, rest[k].do = "call"
        PROVE  /\ rest[k].held = 0 + Len(nb[k])
               /\ \A i \in 1 .. k : \E d \in Seq(Kinds) : nb[i] = nb[k] \o d
    <3>1. k + at \in 1 .. n
      BY <1>3
    <3>2. rest[k] = items[k + at] /\ nb[k] = b[k + at]
      BY <1>4, <1>5
    <3>3. /\ items[k + at].held = 0 + Len(b[k + at])
          /\ \A i \in 1 .. k + at : \E d \in Seq(Kinds) : b[i] = b[k + at] \o d
      BY <1>2, <2>2, <3>1, <3>2
    <3>4. ASSUME NEW i \in 1 .. k PROVE \E d \in Seq(Kinds) : nb[i] = nb[k] \o d
      <4>1. i \in 1 .. n - at /\ i + at \in 1 .. k + at
        BY <1>3
      <4> QED
        BY <1>5, <3>2, <3>3, <4>1
    <3> QED
      BY <3>2, <3>3, <3>4
  <2> QED
    BY <1>4, <1>5, <2>1, <2>2 DEF Chained
<1>9. nw[1] = base \o Anything /\ nw[Len(rest) + 1] = e
  <2>1. /\ 1 \in 1 .. n - at + 1 /\ 1 + at = at + 1 /\ at \in 1 .. n
        /\ n - at + 1 \in 1 .. n - at + 1 /\ (n - at + 1) + at = n + 1
    BY <1>3
  <2>2. Pushes(nds, items[at]) = Anything
    BY DEF Pushes
  <2>3. nw[1] = w[at + 1] /\ w[at + 1] = base \o Anything
    BY <1>2, <1>5, <2>1, <2>2
  <2>4. nw[n - at + 1] = w[n + 1]
    BY <1>5, <2>1
  <2> QED
    BY <1>2, <1>4, <2>3, <2>4
<1>10. Leads(nds, 0, rest, base \o Anything, e)
  BY <1>8, <1>9 DEF Leads
<1> QED
  BY <1>6, <1>7, <1>10 DEF rest, n

(***************************************************************************)
(* Locals.                                                                 *)
(***************************************************************************)

\* What a local can hold once these functions have been declared.
Local(funcs) == Value \cup {NoValue} \cup {Function(k) : k \in funcs}

Filled(funcs, s, vs) ==
  /\ vs \in Seq(Local(funcs)) /\ Len(vs) = Len(s)
  /\ \A i \in 1 .. Len(s) : s[i] = "basic" => Basic(vs[i])

LEMMA ValueKinds ==
  ASSUME NEW v \in Value
  PROVE  v.kind \in {"Number", "Boolean", "String", "Null", "Undefined"} /\ Basic(v)
  BY DEF Value, Null, Undefined, Basic

LEMMA LocalFacts ==
  ASSUME NEW funcs, NEW v \in Local(funcs)
  PROVE  /\ Basic(v) => v \in Value
         /\ v.kind = "Function" => v.val \in funcs /\ v = Function(v.val)
         /\ v = NoValue \/ v.kind = "Function" \/ v \in Value
  BY ValueKinds DEF Local, Basic, NoValue, Function

LEMMA FilledConcat ==
  ASSUME NEW funcs, NEW s \in Seq(Kinds), NEW t \in Seq(Kinds), NEW vs, NEW us,
         Filled(funcs, s, vs), Filled(funcs, t, us)
  PROVE  Filled(funcs, s \o t, vs \o us)
<1> DEFINE m == Len(s)
           n == Len(t)
           a == s \o t
           z == vs \o us
           L == Local(funcs)
<1>1. /\ vs \in Seq(L) /\ us \in Seq(L) /\ Len(vs) = m /\ Len(us) = n /\ m \in Nat /\ n \in Nat
      /\ \A i \in 1 .. m : s[i] = "basic" => Basic(vs[i])
      /\ \A i \in 1 .. n : t[i] = "basic" => Basic(us[i])
  BY DEF Filled
<1>2. /\ Len(a) = m + n
      /\ \A i \in 1 .. m + n : a[i] = IF i <= m THEN s[i] ELSE t[i - m]
  BY ConcatProperties
<1> HIDE DEF m, n, L
<1>3. /\ z \in Seq(L) /\ Len(z) = m + n
      /\ \A i \in 1 .. m + n : z[i] = IF i <= m THEN vs[i] ELSE us[i - m]
  BY <1>1, ConcatProperties
<1> HIDE DEF m, n, a, z, L
<1>4. ASSUME NEW i \in 1 .. m + n, a[i] = "basic" PROVE Basic(z[i])
  <2>1. CASE i <= m
    <3>1. i \in 1 .. m
      BY <1>1, <2>1
    <3> QED
      BY <1>1, <1>2, <1>3, <1>4, <2>1, <3>1
  <2>2. CASE ~ (i <= m)
    <3>1. i - m \in 1 .. n
      BY <1>1, <2>2
    <3> QED
      BY <1>1, <1>2, <1>3, <1>4, <2>2, <3>1
  <2> QED
    BY <2>1, <2>2
<1> QED
  BY <1>2, <1>3, <1>4 DEF Filled, a, z, L

LEMMA FilledSplit ==
  ASSUME NEW funcs, NEW s \in Seq(Kinds), NEW t \in Seq(Kinds), NEW vs, Filled(funcs, s \o t, vs)
  PROVE  LET m == Len(vs) - Len(t)
         IN  /\ m = Len(s) /\ m \in Nat /\ Len(vs) \in Nat
             /\ Filled(funcs, s, SubSeq(vs, 1, m))
             /\ Filled(funcs, t, SubSeq(vs, m + 1, Len(vs)))
             /\ vs = SubSeq(vs, 1, m) \o SubSeq(vs, m + 1, Len(vs))
             /\ \A i \in 1 .. Len(t) : SubSeq(vs, m + 1, Len(vs))[i] = vs[m + i]
<1> DEFINE m == Len(vs) - Len(t)
           n == Len(t)
           len == Len(vs)
           st == s \o t
           a == SubSeq(vs, 1, m)
           z == SubSeq(vs, m + 1, len)
           L == Local(funcs)
<1>1. /\ n \in Nat /\ Len(s) \in Nat /\ Len(st) = Len(s) + n
      /\ \A i \in 1 .. Len(s) + n : st[i] = IF i <= Len(s) THEN s[i] ELSE t[i - Len(s)]
  BY ConcatProperties
<1>2. /\ vs \in Seq(L) /\ len = Len(st) /\ \A i \in 1 .. Len(st) : st[i] = "basic" => Basic(vs[i])
  BY DEF Filled
<1>3. m = Len(s) /\ m \in Nat /\ len = m + n
  BY <1>1, <1>2
<1>4. /\ a \in Seq(L) /\ Len(a) = m /\ \A i \in 1 .. m : a[i] = vs[i]
  <2>1. 1 \in Nat \ {0} /\ m \in 0 .. Len(vs)
    BY <1>1, <1>3
  <2>2. /\ a \in Seq(L) /\ Len(a) = IF 1 <= m THEN m - 1 + 1 ELSE 0
        /\ \A i \in 1 .. Len(a) : a[i] = vs[i + 1 - 1]
    BY <1>2, <2>1, PieceFacts
  <2> HIDE DEF a, m
  <2> QED
    BY <1>3, <2>2
<1>5. /\ z \in Seq(L) /\ Len(z) = n /\ \A i \in 1 .. n : z[i] = vs[m + i]
  <2>1. m + 1 \in Nat \ {0} /\ len \in 0 .. Len(vs)
    BY <1>1, <1>2, <1>3
  <2>2. /\ z \in Seq(L) /\ Len(z) = IF m + 1 <= len THEN len - (m + 1) + 1 ELSE 0
        /\ \A i \in 1 .. Len(z) : z[i] = vs[i + (m + 1) - 1]
    BY <1>2, <2>1, PieceFacts
  <2> HIDE DEF z, m, len, n
  <2>3. Len(z) = n
    BY <1>1, <1>3, <2>2
  <2>4. \A i \in 1 .. n : i + (m + 1) - 1 = m + i
    BY <1>1, <1>3
  <2> QED
    BY <2>2, <2>3, <2>4
<1> HIDE DEF m, n, len, st, a, z, L
<1>6. ASSUME NEW i \in 1 .. Len(s), s[i] = "basic" PROVE Basic(a[i])
  <2>1. i \in 1 .. Len(s) + n /\ i <= Len(s) /\ i \in 1 .. m
    BY <1>1, <1>3
  <2> QED
    BY <1>1, <1>2, <1>4, <1>6, <2>1
<1>7. ASSUME NEW i \in 1 .. n, t[i] = "basic" PROVE Basic(z[i])
  <2>1. m + i \in 1 .. Len(s) + n /\ ~ (m + i <= Len(s)) /\ (m + i) - Len(s) = i
    BY <1>1, <1>3
  <2> QED
    BY <1>1, <1>2, <1>5, <1>7, <2>1
<1>8. vs = a \o z
  <2>1. \A i \in 1 .. Len(a) : vs[i] = a[i]
    BY <1>4
  <2>2. \A i \in 1 .. Len(z) : vs[Len(a) + i] = z[i]
    BY <1>4, <1>5
  <2>3. Len(vs) = Len(a) + Len(z)
    BY <1>3, <1>4, <1>5 DEF len
  <2> QED
    BY <1>2, <1>4, <1>5, <2>1, <2>2, <2>3, ConcatIs
<1>9. Filled(funcs, s, a)
  BY <1>3, <1>4, <1>6 DEF Filled, L
<1>10. Filled(funcs, t, z)
  BY <1>1, <1>5, <1>7 DEF Filled, L, n
<1>11. len \in Nat
  BY <1>1, <1>3
<1> QED
  BY <1>3, <1>5, <1>8, <1>9, <1>10, <1>11 DEF m, n, a, z, len

LEMMA FilledOne ==
  ASSUME NEW funcs, NEW v \in Local(funcs)
  PROVE  Filled(funcs, Anything, <<v>>)
<1>1. Len(Anything) = 1 /\ Anything[1] = "any"
  BY DEF Anything
<1>2. <<v>> \in Seq(Local(funcs)) /\ Len(<<v>>) = 1
  OBVIOUS
<1> QED
  BY <1>1, <1>2 DEF Filled

LEMMA FilledNone == \A funcs : Filled(funcs, <<>>, <<>>)
  BY DEF Filled

LEMMA FilledGrown ==
  ASSUME NEW funcs, NEW more, funcs \subseteq more, NEW s, NEW vs, Filled(funcs, s, vs)
  PROVE  Filled(more, s, vs)
<1>1. Local(funcs) \subseteq Local(more)
  BY DEF Local
<1>2. vs \in Seq(Local(more))
  BY <1>1, SeqMonotonic DEF Filled
<1> QED
  BY <1>2 DEF Filled

(***************************************************************************)
(* The records that take the place of one.                                 *)
(***************************************************************************)

LEMMA ChildClasses ==
  ASSUME NEW nds, Runnable(nds), NEW k \in 1 .. Len(nds)
  PROVE  LET node == nds[k]
         IN  /\ node.kind \in {"Grouping", "ExprStmt"} => ExprAt(nds, node.expr)
             /\ node.kind = "Unary" => ExprAt(nds, node.right)
             /\ node.kind \in {"Binary", "Logical"} =>
                  ExprAt(nds, node.left) /\ ExprAt(nds, node.right)
             /\ node.kind \in {"Assign", "Return"} => ExprAt(nds, node.value)
             /\ node.kind = "Call" =>
                  ExprAt(nds, node.callee) /\ \A i \in 1 .. Len(node.args) : ExprAt(nds, node.args[i])
             /\ node.kind = "VarDecl" => ExprAt(nds, node.init)
             /\ node.kind = "FuncDecl" => node.body \in 1 .. Len(nds) /\ nds[node.body].kind = "Block"
             /\ node.kind = "Block" => \A i \in 1 .. Len(node.stmts) : StmtAt(nds, node.stmts[i])
             /\ node.kind = "If" =>
                  ExprAt(nds, node.cond) /\ StmtAt(nds, node.then) /\ StmtAt(nds, node.else)
             /\ node.kind = "While" => ExprAt(nds, node.cond) /\ StmtAt(nds, node.body)
             /\ node.kind = "For" => /\ StmtAt(nds, node.init) /\ ExprAt(nds, node.cond)
                                     /\ ExprAt(nds, node.step) /\ StmtAt(nds, node.body)
<1> DEFINE node == nds[k]
<1>1. Len(nds) \in Nat /\ k \in Nat /\ k <= Len(nds)
  BY DEF Runnable
<1>2. Children(node) \subseteq 0 .. Len(nds)
  BY <1>1, SMTT(40) DEF Runnable
<1>3. Sorted(nds, node)
  BY DEF Runnable
<1>4. /\ node.kind = "Call" => node.args \in Seq(Nat)
      /\ node.kind = "Block" => node.stmts \in Seq(Nat)
  BY NodeFields
<1> HIDE DEF node
<1>5. \A j \in ExprChildren(node) : j \in Children(node) => ExprAt(nds, j)
  BY <1>2, <1>3 DEF Sorted, ExprAt
<1>6. \A j \in StmtChildren(node) : j \in Children(node) => StmtAt(nds, j)
  BY <1>2, <1>3 DEF Sorted, StmtAt
<1>7. node.kind \in {"Grouping", "ExprStmt"} => ExprAt(nds, node.expr)
  BY <1>5 DEF ExprChildren, Children
<1>8. node.kind = "Unary" => ExprAt(nds, node.right)
  BY <1>5 DEF ExprChildren, Children
<1>9. node.kind \in {"Binary", "Logical"} => ExprAt(nds, node.left) /\ ExprAt(nds, node.right)
  BY <1>5 DEF ExprChildren, Children
<1>10. node.kind \in {"Assign", "Return"} => ExprAt(nds, node.value)
  BY <1>5 DEF ExprChildren, Children
<1>11. node.kind = "Call" =>
         ExprAt(nds, node.callee) /\ \A i \in 1 .. Len(node.args) : ExprAt(nds, node.args[i])
  <2>1. node.kind = "Call" => \A i \in 1 .. Len(node.args) : node.args[i] \in ToSet(node.args)
    BY <1>4 DEF ToSet
  <2> QED
    BY <1>5, <2>1 DEF ExprChildren, Children
<1>12. node.kind = "VarDecl" => ExprAt(nds, node.init)
  BY <1>5 DEF ExprChildren, Children
<1>13. node.kind = "FuncDecl" => node.body \in 1 .. Len(nds) /\ nds[node.body].kind = "Block"
  <2>1. node.kind = "FuncDecl" => node.body \in 0 .. Len(nds)
    BY <1>2 DEF Children
  <2> QED
    BY <1>1, <1>3, <2>1 DEF Sorted
<1>14. node.kind = "Block" => \A i \in 1 .. Len(node.stmts) : StmtAt(nds, node.stmts[i])
  <2>1. node.kind = "Block" => \A i \in 1 .. Len(node.stmts) : node.stmts[i] \in ToSet(node.stmts)
    BY <1>4 DEF ToSet
  <2> QED
    BY <1>6, <2>1 DEF StmtChildren, Children
<1>15. node.kind = "If" => ExprAt(nds, node.cond) /\ StmtAt(nds, node.then) /\ StmtAt(nds, node.else)
  BY <1>5, <1>6 DEF ExprChildren, StmtChildren, Children
<1>16. node.kind = "While" => ExprAt(nds, node.cond) /\ StmtAt(nds, node.body)
  BY <1>5, <1>6 DEF ExprChildren, StmtChildren, Children
<1>17. node.kind = "For" => /\ StmtAt(nds, node.init) /\ ExprAt(nds, node.cond)
                            /\ ExprAt(nds, node.step) /\ StmtAt(nds, node.body)
  BY <1>5, <1>6 DEF ExprChildren, StmtChildren, Children
<1> QED
  BY <1>7, <1>8, <1>9, <1>10, <1>11, <1>12, <1>13, <1>14, <1>15, <1>16, <1>17 DEF node

LEMMA RecordsMade ==
  ASSUME NEW nds, Runnable(nds), NEW k \in Nat
  PROVE  /\ StmtAt(nds, k) => /\ Execute(k) \in Records(nds) /\ Execute(k).do = "execute"
                              /\ Pops(nds, Execute(k)) = <<>> /\ Pushes(nds, Execute(k)) = <<>>
         /\ ExprAt(nds, k) => /\ Evaluate(k) \in Records(nds) /\ Evaluate(k).do = "evaluate"
                              /\ Pops(nds, Evaluate(k)) = <<>> /\ Pushes(nds, Evaluate(k)) = Anything
         /\ k \in 1 .. Len(nds) /\ nds[k].kind \in Resumed =>
              Resume(k) \in Records(nds) /\ Resume(k).do = "resume" /\ Resume(k).node = k
  BY DEF Execute, Evaluate, Resume, Records, Activation, Placed, Pops, Pushes

LEMMA RecordsPlain ==
  ASSUME NEW nds
  PROVE  /\ Discard \in Records(nds) /\ Discard.do = "discard"
         /\ Pops(nds, Discard) = Anything /\ Pushes(nds, Discard) = <<>>
         /\ CheckCallee \in Records(nds) /\ CheckCallee.do = "checkCallee"
         /\ Pops(nds, CheckCallee) = Anything /\ Pushes(nds, CheckCallee) = Anything
         /\ CopyArg \in Records(nds) /\ CopyArg.do = "copyArg"
         /\ Pops(nds, CopyArg) = Anything /\ Pushes(nds, CopyArg) = <<"basic">>
  BY DEF Discard, CheckCallee, CopyArg, Records, Activation, Placed, Pops, Pushes

LEMMA TwoJoined ==
  ASSUME NEW T, NEW a \in T, NEW b \in T
  PROVE  <<a>> \o <<b>> = <<a, b>>
<1> DEFINE s == <<a>>
           t == <<b>>
           u == <<a, b>>
<1>1. /\ s \in Seq(T) /\ t \in Seq(T) /\ u \in Seq(T)
      /\ Len(s) = 1 /\ Len(t) = 1 /\ Len(u) = 2
      /\ s[1] = a /\ t[1] = b
      /\ u[1] = a /\ u[2] = b
  OBVIOUS
<1> HIDE DEF s, t, u
<1>2. \A i \in 1 .. 1 : u[i] = s[i]
  BY <1>1
<1>3. \A i \in 1 .. 1 : u[1 + i] = t[i]
  <2>1. \A i \in 1 .. 1 : i = 1
    OBVIOUS
  <2> QED
    BY <1>1, <2>1
<1>4. s \o t = u
  <2>1. \A i \in 1 .. Len(s) : u[i] = s[i]
    BY <1>1, <1>2
  <2>2. \A i \in 1 .. Len(t) : u[Len(s) + i] = t[i]
    BY <1>1, <1>3
  <2>3. Len(u) = Len(s) + Len(t)
    BY <1>1
  <2> QED
    BY <1>1, <2>1, <2>2, <2>3, ConcatIs
<1> QED
  BY <1>4 DEF s, t, u

LEMMA ThreeJoined ==
  ASSUME NEW T, NEW a \in T, NEW b \in T, NEW c \in T
  PROVE  <<a>> \o <<b, c>> = <<a, b, c>>
<1> DEFINE s == <<a>>
           t == <<b, c>>
           u == <<a, b, c>>
<1>1. /\ s \in Seq(T) /\ t \in Seq(T) /\ u \in Seq(T)
      /\ Len(s) = 1 /\ Len(t) = 2 /\ Len(u) = 3
      /\ s[1] = a /\ t[1] = b /\ t[2] = c
      /\ u[1] = a /\ u[2] = b /\ u[3] = c
  OBVIOUS
<1> HIDE DEF s, t, u
<1>2. \A i \in 1 .. 1 : u[i] = s[i]
  BY <1>1
<1>3. \A i \in 1 .. 2 : u[1 + i] = t[i]
  <2>1. \A i \in 1 .. 2 : i = 1 \/ i = 2
    OBVIOUS
  <2> QED
    BY <1>1, <2>1
<1>4. s \o t = u
  <2>1. \A i \in 1 .. Len(s) : u[i] = s[i]
    BY <1>1, <1>2
  <2>2. \A i \in 1 .. Len(t) : u[Len(s) + i] = t[i]
    BY <1>1, <1>3
  <2>3. Len(u) = Len(s) + Len(t)
    BY <1>1
  <2> QED
    BY <1>1, <2>1, <2>2, <2>3, ConcatIs
<1> QED
  BY <1>4 DEF s, t, u

LEMMA FourJoined ==
  ASSUME NEW T, NEW a \in T, NEW b \in T, NEW c \in T, NEW d \in T
  PROVE  <<a>> \o <<b, c, d>> = <<a, b, c, d>>
<1> DEFINE s == <<a>>
           t == <<b, c, d>>
           u == <<a, b, c, d>>
<1>1. /\ s \in Seq(T) /\ t \in Seq(T) /\ u \in Seq(T)
      /\ Len(s) = 1 /\ Len(t) = 3 /\ Len(u) = 4
      /\ s[1] = a /\ t[1] = b /\ t[2] = c /\ t[3] = d
      /\ u[1] = a /\ u[2] = b /\ u[3] = c /\ u[4] = d
  OBVIOUS
<1> HIDE DEF s, t, u
<1>2. \A i \in 1 .. 1 : u[i] = s[i]
  BY <1>1
<1>3. \A i \in 1 .. 3 : u[1 + i] = t[i]
  <2>1. \A i \in 1 .. 3 : i = 1 \/ i = 2 \/ i = 3
    OBVIOUS
  <2> QED
    BY <1>1, <2>1
<1>4. s \o t = u
  <2>1. \A i \in 1 .. Len(s) : u[i] = s[i]
    BY <1>1, <1>2
  <2>2. \A i \in 1 .. Len(t) : u[Len(s) + i] = t[i]
    BY <1>1, <1>3
  <2>3. Len(u) = Len(s) + Len(t)
    BY <1>1
  <2> QED
    BY <1>1, <2>1, <2>2, <2>3, ConcatIs
<1> QED
  BY <1>4 DEF s, t, u

LEMMA FiveJoined ==
  ASSUME NEW T, NEW a \in T, NEW b \in T, NEW c \in T, NEW d \in T, NEW e \in T
  PROVE  <<a>> \o <<b, c, d, e>> = <<a, b, c, d, e>>
<1> DEFINE s == <<a>>
           t == <<b, c, d, e>>
           u == <<a, b, c, d, e>>
<1>1. /\ s \in Seq(T) /\ t \in Seq(T) /\ u \in Seq(T)
      /\ Len(s) = 1 /\ Len(t) = 4 /\ Len(u) = 5
      /\ s[1] = a /\ t[1] = b /\ t[2] = c /\ t[3] = d /\ t[4] = e
      /\ u[1] = a /\ u[2] = b /\ u[3] = c /\ u[4] = d /\ u[5] = e
  OBVIOUS
<1> HIDE DEF s, t, u
<1>2. \A i \in 1 .. 1 : u[i] = s[i]
  BY <1>1
<1>3. \A i \in 1 .. 4 : u[1 + i] = t[i]
  <2>1. \A i \in 1 .. 4 : i = 1 \/ i = 2 \/ i = 3 \/ i = 4
    OBVIOUS
  <2> QED
    BY <1>1, <2>1
<1>4. s \o t = u
  <2>1. \A i \in 1 .. Len(s) : u[i] = s[i]
    BY <1>1, <1>2
  <2>2. \A i \in 1 .. Len(t) : u[Len(s) + i] = t[i]
    BY <1>1, <1>3
  <2>3. Len(u) = Len(s) + Len(t)
    BY <1>1
  <2> QED
    BY <1>1, <2>1, <2>2, <2>3, ConcatIs
<1> QED
  BY <1>4 DEF s, t, u

LEMMA NoKinds ==
  /\ <<>> \in Seq(Kinds) /\ Anything \in Seq(Kinds) /\ Len(Anything) = 1 /\ Len(<<>>) = 0
  /\ \A x \in Seq(Kinds) : x \o <<>> = x /\ <<>> \o x = x
  BY ConcatEmptySeq DEF Anything, Kinds

(***************************************************************************)
(* Records and locals that fit each other, and how a visitor goes on.      *)
(***************************************************************************)

Fitted(nds, funcs, items, vs) ==
  /\ items \in Seq(Records(nds))
  /\ \E s \in Seq(Kinds) : Leads(nds, 0, items, s, <<>>) /\ Filled(funcs, s, vs)

LEMMA SplitAt ==
  ASSUME NEW T, NEW q \in Seq(T), NEW n \in 0 .. Len(q)
  PROVE  q = SubSeq(q, 1, n) \o SubSeq(q, n + 1, Len(q))
<1> DEFINE a == SubSeq(q, 1, n)
           z == SubSeq(q, n + 1, Len(q))
<1>1. n \in Nat /\ Len(q) \in Nat /\ n <= Len(q) /\ n + 1 \in Nat \ {0} /\ Len(q) \in 0 .. Len(q)
  OBVIOUS
<1>2. a \in Seq(T) /\ Len(a) = n /\ \A i \in 1 .. n : a[i] = q[i]
  BY PrefixFacts
<1>3. /\ z \in Seq(T) /\ Len(z) = IF n + 1 <= Len(q) THEN Len(q) - (n + 1) + 1 ELSE 0
      /\ \A i \in 1 .. Len(z) : z[i] = q[i + (n + 1) - 1]
  BY <1>1, PieceFacts
<1> HIDE DEF a, z
<1>4. Len(z) = Len(q) - n
  BY <1>1, <1>3
<1>5. \A i \in 1 .. Len(z) : q[Len(a) + i] = z[i]
  <2>1. \A i \in 1 .. Len(z) : i + (n + 1) - 1 = Len(a) + i
    BY <1>1, <1>2, <1>4
  <2> QED
    BY <1>3, <2>1
<1>6. Len(q) = Len(a) + Len(z) /\ \A i \in 1 .. Len(a) : q[i] = a[i]
  BY <1>1, <1>2, <1>4
<1>7. a \o z = q
  BY <1>2, <1>3, <1>5, <1>6, ConcatIs
<1> QED
  BY <1>7 DEF a, z

\* The innermost visitor's locals are the latest ones.
LEMMA HeadTaken ==
  ASSUME NEW nds, Runnable(nds), NEW funcs, NEW items, NEW vs,
         Fitted(nds, funcs, items, vs), items # <<>>
  PROVE  LET head == Head(items)
             p == Len(Pops(nds, head))
             m == Len(vs) - p
             held == SubSeq(vs, m + 1, Len(vs))
         IN  /\ head \in Records(nds) /\ Tail(items) \in Seq(Records(nds))
             /\ items \in Seq(Records(nds))
             /\ p \in Nat /\ m \in Nat /\ Len(vs) \in Nat /\ vs \in Seq(Local(funcs))
             /\ Filled(funcs, Pops(nds, head), held)
             /\ \A i \in 1 .. p : held[i] = vs[m + i]
             /\ vs = SubSeq(vs, 1, m) \o held
             /\ head.do = "call" => head.held = m
             /\ \A r \in Seq(Records(nds)), x \in Seq(Kinds) : \A more, us :
                  /\ funcs \subseteq more
                  /\ Leads(nds, m, r, x, Pushes(nds, head))
                  /\ Filled(more, x, us)
                  => Fitted(nds, more, r \o Tail(items), SubSeq(vs, 1, m) \o us)
<1> DEFINE head == Head(items)
           pops == Pops(nds, head)
           p == Len(pops)
           m == Len(vs) - p
           held == SubSeq(vs, m + 1, Len(vs))
           under == SubSeq(vs, 1, m)
<1>1. items \in Seq(Records(nds)) /\ head \in Records(nds) /\ Tail(items) \in Seq(Records(nds))
  BY EmptySeq DEF Fitted
<1>2. PICK s \in Seq(Kinds) : Leads(nds, 0, items, s, <<>>) /\ Filled(funcs, s, vs)
  BY DEF Fitted
<1>3. pops \in Seq(Kinds) /\ p \in Nat
  BY <1>1, EffectKinds
<1>4. PICK base \in Seq(Kinds) :
           /\ s = base \o pops
           /\ head.do = "call" => head.held = Len(base)
           /\ \A r \in Seq(Records(nds)), x \in Seq(Kinds) :
                Leads(nds, Len(base), r, x, Pushes(nds, head))
                => Leads(nds, 0, r \o Tail(items), base \o x, <<>>)
  BY <1>1, <1>2, Replaced
<1>5. /\ m = Len(base) /\ m \in Nat /\ Len(vs) \in Nat
      /\ Filled(funcs, base, under) /\ Filled(funcs, pops, held)
      /\ vs = under \o held
      /\ \A i \in 1 .. p : held[i] = vs[m + i]
  <2>1. Filled(funcs, base \o pops, vs) /\ pops \in Seq(Kinds) /\ base \in Seq(Kinds)
    BY <1>2, <1>3, <1>4
  <2> HIDE DEF pops
  <2>2. Len(vs) - Len(pops) = Len(base) /\ Len(vs) - Len(pops) \in Nat /\ Len(vs) \in Nat
    <3>1. Len(vs) = Len(base) + Len(pops)
      BY <2>1, KindsConcat DEF Filled
    <3> QED
      BY <2>1, <3>1
  <2>3. Filled(funcs, base, SubSeq(vs, 1, Len(vs) - Len(pops)))
    BY <2>1, FilledSplit
  <2>4. Filled(funcs, pops, SubSeq(vs, Len(vs) - Len(pops) + 1, Len(vs)))
    BY <2>1, FilledSplit
  <2>5. vs = SubSeq(vs, 1, Len(vs) - Len(pops)) \o SubSeq(vs, Len(vs) - Len(pops) + 1, Len(vs))
    <3>1. Len(vs) - Len(pops) \in 0 .. Len(vs) /\ vs \in Seq(Local(funcs))
      BY <2>1, <2>2 DEF Filled
    <3> QED
      BY <3>1, SplitAt
  <2>6. \A i \in 1 .. Len(pops) : SubSeq(vs, Len(vs) - Len(pops) + 1, Len(vs))[i] = vs[Len(vs) - Len(pops) + i]
    BY <2>1, FilledSplit
  <2> QED
    BY <2>2, <2>3, <2>4, <2>5, <2>6
<1>6. vs \in Seq(Local(funcs))
  BY <1>2 DEF Filled
<1> HIDE DEF head, pops, p, m, held, under
<1>7. ASSUME NEW more, NEW us, NEW r \in Seq(Records(nds)), NEW x \in Seq(Kinds),
             funcs \subseteq more, Leads(nds, m, r, x, Pushes(nds, head)), Filled(more, x, us)
      PROVE  Fitted(nds, more, r \o Tail(items), under \o us)
  <2>1. Leads(nds, 0, r \o Tail(items), base \o x, <<>>)
    BY <1>4, <1>5, <1>7
  <2>2. Filled(more, base, under)
    BY <1>5, <1>7, FilledGrown
  <2>3. Filled(more, base \o x, under \o us) /\ base \o x \in Seq(Kinds)
    BY <1>7, <2>2, FilledConcat, KindsConcat
  <2>4. r \o Tail(items) \in Seq(Records(nds))
    BY <1>1, ConcatProperties
  <2> QED
    BY <2>1, <2>3, <2>4 DEF Fitted
<1> QED
  BY <1>1, <1>3, <1>4, <1>5, <1>6, <1>7 DEF head, pops, p, m, held, under

\* What Continue does, where the locals replaced are all the visitor's.
LEMMA GoesOn ==
  ASSUME NEW nds, Runnable(nds), NEW funcs, NEW items, NEW vs,
         Fitted(nds, funcs, items, vs), items # <<>>,
         NEW more, funcs \subseteq more, NEW n, n = Len(Pops(nds, Head(items))),
         NEW r \in Seq(Records(nds)), NEW x \in Seq(Kinds), NEW us, Filled(more, x, us),
         \A f \in Nat : Leads(nds, f, r, x, Pushes(nds, Head(items)))
  PROVE  Fitted(nds, more, r \o Tail(items), SubSeq(vs, 1, Len(vs) - n) \o us)
<1> DEFINE e == Pushes(nds, Head(items))
           m == Len(vs) - n
<1>1. m \in Nat
  BY HeadTaken
<1>2. \A q \in Seq(Records(nds)), z \in Seq(Kinds) : \A now, ws :
        /\ funcs \subseteq now
        /\ Leads(nds, m, q, z, e)
        /\ Filled(now, z, ws)
        => Fitted(nds, now, q \o Tail(items), SubSeq(vs, 1, m) \o ws)
  BY HeadTaken
<1> HIDE DEF m, e
<1>3. Leads(nds, m, r, x, e)
  BY <1>1 DEF e
<1>4. Fitted(nds, more, r \o Tail(items), SubSeq(vs, 1, m) \o us)
  BY <1>2, <1>3
<1> QED
  BY <1>4 DEF m

\* And where they stay, what they are given as.
LEMMA HandsOn ==
  ASSUME NEW nds, Runnable(nds), NEW funcs, NEW items, NEW vs,
         Fitted(nds, funcs, items, vs), items # <<>>,
         NEW more, funcs \subseteq more,
         LET m == Len(vs) - Len(Pops(nds, Head(items)))
         IN  Filled(more, Pushes(nds, Head(items)), SubSeq(vs, m + 1, Len(vs)))
  PROVE  Fitted(nds, more, <<>> \o Tail(items), SubSeq(vs, 1, Len(vs) - 0) \o <<>>)
<1> DEFINE head == Head(items)
           m == Len(vs) - Len(Pops(nds, head))
           held == SubSeq(vs, m + 1, Len(vs))
           under == SubSeq(vs, 1, m)
           x == Pushes(nds, head)
<1>1. /\ head \in Records(nds) /\ m \in Nat /\ Len(vs) \in Nat /\ vs \in Seq(Local(funcs))
      /\ vs = under \o held
      /\ \A r \in Seq(Records(nds)), z \in Seq(Kinds) :
           /\ Leads(nds, m, r, z, x) /\ Filled(more, z, held)
           => Fitted(nds, more, r \o Tail(items), under \o held)
  <2>1. \A q \in Seq(Records(nds)), z \in Seq(Kinds) : \A now, ws :
          /\ funcs \subseteq now
          /\ Leads(nds, m, q, z, x)
          /\ Filled(now, z, ws)
          => Fitted(nds, now, q \o Tail(items), under \o ws)
    BY HeadTaken
  <2>2. /\ head \in Records(nds) /\ m \in Nat /\ Len(vs) \in Nat /\ vs \in Seq(Local(funcs))
    BY HeadTaken
  <2>3. vs = under \o held
    <3>1. Len(Pops(nds, head)) \in Nat
      BY HeadTaken
    <3> HIDE DEF head
    <3>2. m \in 0 .. Len(vs)
      BY <2>2, <3>1
    <3> HIDE DEF m
    <3> QED
      BY <2>2, <3>2, SplitAt
  <2> HIDE DEF head, m, held, under, x
  <2> QED
    BY <2>1, <2>2, <2>3
<1>2. Filled(more, x, held)
  OBVIOUS
<1> HIDE DEF head, m, held, under, x
<1>3. x \in Seq(Kinds)
  BY <1>1, EffectKinds DEF x
<1>4. Leads(nds, m, <<>>, x, x)
  BY <1>1, <1>3, LeadsNil
<1>5. <<>> \in Seq(Records(nds))
  OBVIOUS
<1>6. Fitted(nds, more, <<>> \o Tail(items), vs)
  BY <1>1, <1>2, <1>3, <1>4, <1>5
<1>7. SubSeq(vs, 1, Len(vs) - 0) \o <<>> = vs
  BY <1>1
<1> QED
  BY <1>6, <1>7

(***************************************************************************)
(* The records of the visitors.  No list here ends a call or a block.      *)
(***************************************************************************)

Passes(nds, r, x, e) ==
  /\ r \in Seq(Records(nds)) /\ x \in Seq(Kinds)
  /\ \A i \in 1 .. Len(r) : ~ IsEnd(r[i])
  /\ \A f \in Nat : Leads(nds, f, r, x, e)

LEMMA PassesNone ==
  ASSUME NEW nds, NEW x \in Seq(Kinds)
  PROVE  Passes(nds, <<>>, x, x)
<1>1. <<>> \in Seq(Records(nds)) /\ \A i \in 1 .. Len(<<>>) : ~ IsEnd(<<>>[i])
  OBVIOUS
<1>2. \A f \in Nat : Leads(nds, f, <<>>, x, x)
  BY LeadsNil
<1> QED
  BY <1>1, <1>2 DEF Passes

LEMMA PassesOne ==
  ASSUME NEW nds, Runnable(nds), NEW item \in Records(nds), ~ IsEnd(item),
         NEW base \in Seq(Kinds)
  PROVE  Passes(nds, <<item>>, base \o Pops(nds, item), base \o Pushes(nds, item))
<1> DEFINE one == <<item>>
<1>1. one \in Seq(Records(nds)) /\ \A i \in 1 .. Len(one) : ~ IsEnd(one[i])
  OBVIOUS
<1>2. \A f \in Nat : Leads(nds, f, one, base \o Pops(nds, item), base \o Pushes(nds, item))
  BY LeadsOne DEF IsEnd
<1> HIDE DEF one
<1>3. base \o Pops(nds, item) \in Seq(Kinds)
  BY EffectKinds, KindsConcat
<1>4. Passes(nds, one, base \o Pops(nds, item), base \o Pushes(nds, item))
  BY <1>1, <1>2, <1>3 DEF Passes
<1> QED
  BY <1>4 DEF one

LEMMA PassesConcat ==
  ASSUME NEW nds, NEW r, NEW t, NEW s, NEW x, NEW e, Passes(nds, r, s, x), Passes(nds, t, x, e)
  PROVE  Passes(nds, r \o t, s, e)
<1>1. /\ r \in Seq(Records(nds)) /\ s \in Seq(Kinds) /\ t \in Seq(Records(nds))
      /\ \A i \in 1 .. Len(r) : ~ IsEnd(r[i])
      /\ \A i \in 1 .. Len(t) : ~ IsEnd(t[i])
  BY DEF Passes
<1>2. ASSUME NEW f \in Nat PROVE Leads(nds, f, r \o t, s, e)
  <2>1. Leads(nds, f, r, s, x) /\ Leads(nds, f, t, x, e)
    BY DEF Passes
  <2>2. \A i \in 1 .. Len(t) : t[i].do # "call"
    BY <1>1 DEF IsEnd
  <2> QED
    BY <1>1, <2>1, <2>2, LeadsConcat
<1> DEFINE both == r \o t
<1>3. /\ both \in Seq(Records(nds)) /\ Len(both) = Len(r) + Len(t)
      /\ \A i \in 1 .. Len(r) + Len(t) : both[i] = IF i <= Len(r) THEN r[i] ELSE t[i - Len(r)]
  BY <1>1, ConcatProperties
<1>4. Len(r) \in Nat /\ Len(t) \in Nat
  BY <1>1
<1> HIDE DEF both
<1>5. ASSUME NEW i \in 1 .. Len(both) PROVE ~ IsEnd(both[i])
  <2>1. CASE i <= Len(r)
    <3>1. i \in 1 .. Len(r) /\ i \in 1 .. Len(r) + Len(t)
      BY <1>3, <1>4, <2>1
    <3> QED
      BY <1>1, <1>3, <2>1, <3>1
  <2>2. CASE ~ (i <= Len(r))
    <3>1. i - Len(r) \in 1 .. Len(t) /\ i \in 1 .. Len(r) + Len(t)
      BY <1>3, <1>4, <2>2
    <3> QED
      BY <1>1, <1>3, <2>2, <3>1
  <2> QED
    BY <2>1, <2>2
<1>6. \A f \in Nat : Leads(nds, f, both, s, e)
  BY <1>2 DEF both
<1>7. Passes(nds, both, s, e)
  BY <1>1, <1>3, <1>5, <1>6 DEF Passes
<1> QED
  BY <1>7 DEF both

\* One record more, in front.
LEMMA PassesCons ==
  ASSUME NEW nds, Runnable(nds), NEW item \in Records(nds), ~ IsEnd(item),
         NEW base \in Seq(Kinds), NEW t, NEW e, Passes(nds, t, base \o Pushes(nds, item), e)
  PROVE  Passes(nds, <<item>> \o t, base \o Pops(nds, item), e)
  BY PassesOne, PassesConcat

LEMMA PassesEvaluate ==
  ASSUME NEW nds, Runnable(nds), NEW k \in Nat, ExprAt(nds, k), NEW base \in Seq(Kinds), NEW t, NEW e,
         Passes(nds, t, base \o Anything, e)
  PROVE  Passes(nds, <<Evaluate(k)>> \o t, base, e)
<1> DEFINE eval == Evaluate(k)
<1>1. /\ eval \in Records(nds) /\ ~ IsEnd(eval)
      /\ Pops(nds, eval) = <<>> /\ Pushes(nds, eval) = Anything
  BY RecordsMade DEF IsEnd
<1> HIDE DEF eval
<1>2. Passes(nds, <<eval>> \o t, base \o Pops(nds, eval), e)
  BY <1>1, PassesCons
<1> QED
  BY <1>1, <1>2, NoKinds DEF eval

LEMMA PassesExecute ==
  ASSUME NEW nds, Runnable(nds), NEW k \in Nat, StmtAt(nds, k), NEW base \in Seq(Kinds), NEW t, NEW e,
         Passes(nds, t, base, e)
  PROVE  Passes(nds, <<Execute(k)>> \o t, base, e)
<1> DEFINE exec == Execute(k)
<1>1. /\ exec \in Records(nds) /\ ~ IsEnd(exec)
      /\ Pops(nds, exec) = <<>> /\ Pushes(nds, exec) = <<>>
  BY RecordsMade DEF IsEnd
<1> HIDE DEF exec
<1>2. Passes(nds, <<exec>> \o t, base \o Pops(nds, exec), e)
  BY <1>1, PassesCons, NoKinds
<1> QED
  BY <1>1, <1>2, NoKinds DEF exec

\* One node's record alone.
LEMMA PassesAlone ==
  ASSUME NEW nds, Runnable(nds), NEW k \in Nat
  PROVE  /\ ExprAt(nds, k) => Passes(nds, <<Evaluate(k)>>, <<>>, Anything)
         /\ StmtAt(nds, k) => Passes(nds, <<Execute(k)>>, <<>>, <<>>)
         /\ k \in 1 .. Len(nds) /\ nds[k].kind \in Resumed =>
              Passes(nds, <<Resume(k)>>, Pops(nds, Resume(k)), Pushes(nds, Resume(k)))
<1>1. ASSUME ExprAt(nds, k) PROVE Passes(nds, <<Evaluate(k)>>, <<>>, Anything)
  <2> DEFINE eval == Evaluate(k)
  <2>1. /\ eval \in Records(nds) /\ ~ IsEnd(eval)
        /\ Pops(nds, eval) = <<>> /\ Pushes(nds, eval) = Anything
    BY <1>1, RecordsMade DEF IsEnd
  <2> HIDE DEF eval
  <2>2. Passes(nds, <<eval>>, <<>> \o Pops(nds, eval), <<>> \o Pushes(nds, eval))
    BY <2>1, PassesOne, NoKinds
  <2> QED
    BY <2>1, <2>2, NoKinds DEF eval
<1>2. ASSUME StmtAt(nds, k) PROVE Passes(nds, <<Execute(k)>>, <<>>, <<>>)
  <2> DEFINE exec == Execute(k)
  <2>1. /\ exec \in Records(nds) /\ ~ IsEnd(exec)
        /\ Pops(nds, exec) = <<>> /\ Pushes(nds, exec) = <<>>
    BY <1>2, RecordsMade DEF IsEnd
  <2> HIDE DEF exec
  <2>2. Passes(nds, <<exec>>, <<>> \o Pops(nds, exec), <<>> \o Pushes(nds, exec))
    BY <2>1, PassesOne, NoKinds
  <2> QED
    BY <2>1, <2>2, NoKinds DEF exec
<1>3. ASSUME k \in 1 .. Len(nds), nds[k].kind \in Resumed
      PROVE  Passes(nds, <<Resume(k)>>, Pops(nds, Resume(k)), Pushes(nds, Resume(k)))
  <2> DEFINE back == Resume(k)
  <2>1. back \in Records(nds) /\ ~ IsEnd(back)
    BY <1>3, RecordsMade DEF IsEnd
  <2> HIDE DEF back
  <2>2. Passes(nds, <<back>>, <<>> \o Pops(nds, back), <<>> \o Pushes(nds, back))
    BY <2>1, PassesOne, NoKinds
  <2>3. Pops(nds, back) \in Seq(Kinds) /\ Pushes(nds, back) \in Seq(Kinds)
    BY <2>1, EffectKinds
  <2> QED
    BY <2>2, <2>3, NoKinds DEF back
<1> QED
  BY <1>1, <1>2, <1>3

\* What a visitor has still to do, by the kind of its node.
LEMMA ResumeEffect ==
  ASSUME NEW nds, NEW k, nds[k].kind \in Resumed
  PROVE  /\ nds[k].kind \notin {"Binary", "Call"} => Pops(nds, Resume(k)) = Anything
         /\ nds[k].kind = "Binary" => Pops(nds, Resume(k)) = <<"any", "any">>
         /\ nds[k].kind = "Call" => Pops(nds, Resume(k)) = CalleeAnd(Len(nds[k].args))
         /\ nds[k].kind \in ExprKind => Pushes(nds, Resume(k)) = Anything
         /\ nds[k].kind \notin ExprKind => Pushes(nds, Resume(k)) = <<>>
  BY DEF Resume, Pops, Pushes

LEMMA PassesVisit ==
  ASSUME NEW nds, Runnable(nds), NEW k \in 1 .. Len(nds)
  PROVE  LET node == nds[k]
             back == Resume(k)
         IN  /\ node.kind = "ExprStmt" => Passes(nds, <<Evaluate(node.expr), Discard>>, <<>>, <<>>)
             /\ node.kind \in {"If", "While"} => Passes(nds, <<Evaluate(node.cond), back>>, <<>>, <<>>)
             /\ node.kind = "VarDecl" => Passes(nds, <<Evaluate(node.init), back>>, <<>>, <<>>)
             /\ node.kind = "Return" => Passes(nds, <<Evaluate(node.value), back>>, <<>>, <<>>)
             /\ node.kind = "For" =>
                  Passes(nds, <<Execute(node.init), Evaluate(node.cond), back>>, <<>>, <<>>)
             /\ node.kind = "Grouping" => Passes(nds, <<Evaluate(node.expr)>>, <<>>, Anything)
             /\ node.kind = "Unary" => Passes(nds, <<Evaluate(node.right), back>>, <<>>, Anything)
             /\ node.kind = "Assign" => Passes(nds, <<Evaluate(node.value), back>>, <<>>, Anything)
             /\ node.kind = "Logical" => Passes(nds, <<Evaluate(node.left), back>>, <<>>, Anything)
             /\ node.kind = "Binary" =>
                  Passes(nds, <<Evaluate(node.left), Evaluate(node.right), back>>, <<>>, Anything)
<1> DEFINE node == nds[k]
           back == Resume(k)
           L == {Evaluate(j) : j \in Nat} \cup {Execute(j) : j \in Nat} \cup {Discard, back}
<1>1. k \in Nat /\ node \in ASTNode(String, Value)
  BY DEF Runnable
<1>2. /\ \A j : ExprAt(nds, j) => j \in Nat
      /\ \A j : StmtAt(nds, j) => j \in Nat
  BY DEF ExprAt, StmtAt
<1>3. ASSUME NEW j, ExprAt(nds, j), NEW t, NEW x \in {<<>>, Anything}, NEW e, t \in L,
             Passes(nds, <<t>>, x \o Anything, e)
      PROVE  Passes(nds, <<Evaluate(j), t>>, x, e)
  <2>1. j \in Nat /\ Evaluate(j) \in L /\ x \in Seq(Kinds)
    BY <1>2, <1>3, NoKinds
  <2>2. Passes(nds, <<Evaluate(j)>> \o <<t>>, x, e)
    BY <1>3, <2>1, PassesEvaluate
  <2> HIDE DEF L
  <2>3. <<Evaluate(j)>> \o <<t>> = <<Evaluate(j), t>>
    BY <1>3, <2>1, TwoJoined
  <2> QED
    BY <2>2, <2>3
<1>4. Passes(nds, <<Discard>>, Anything, <<>>)
  <2> DEFINE drop == Discard
  <2>1. /\ drop \in Records(nds) /\ ~ IsEnd(drop)
        /\ Pops(nds, drop) = Anything /\ Pushes(nds, drop) = <<>>
    BY RecordsPlain DEF IsEnd
  <2> HIDE DEF drop
  <2>2. Passes(nds, <<drop>>, <<>> \o Pops(nds, drop), <<>> \o Pushes(nds, drop))
    BY <2>1, PassesOne, NoKinds
  <2> QED
    BY <2>1, <2>2, NoKinds DEF drop
<1>5. Discard \in L /\ back \in L
  OBVIOUS
<1>6. /\ node.kind \in {"If", "While", "VarDecl", "Return", "For"} =>
           Passes(nds, <<back>>, Anything, <<>>)
      /\ node.kind \in {"Unary", "Assign", "Logical"} => Passes(nds, <<back>>, Anything, Anything)
      /\ node.kind = "Binary" => Passes(nds, <<back>>, <<"any", "any">>, Anything)
  <2>1. node.kind \in Resumed => Passes(nds, <<back>>, Pops(nds, back), Pushes(nds, back))
    BY <1>1, PassesAlone
  <2>2. node.kind \in Resumed =>
          /\ node.kind \notin {"Binary", "Call"} => Pops(nds, back) = Anything
          /\ node.kind = "Binary" => Pops(nds, back) = <<"any", "any">>
          /\ node.kind \in ExprKind => Pushes(nds, back) = Anything
          /\ node.kind \notin ExprKind => Pushes(nds, back) = <<>>
    BY ResumeEffect
  <2> HIDE DEF node, back
  <2> QED
    BY <2>1, <2>2 DEF Resumed, ExprKind
<1>7. <<>> \o Anything = Anything /\ Anything \o Anything = <<"any", "any">>
  <2>1. "any" \in Kinds
    BY DEF Kinds
  <2>2. <<"any">> \o <<"any">> = <<"any", "any">>
    BY <2>1, TwoJoined
  <2> QED
    BY <2>2, NoKinds DEF Anything
<1> HIDE DEF L, back
<1>8. /\ node.kind \in {"Grouping", "ExprStmt"} => ExprAt(nds, node.expr)
      /\ node.kind = "Unary" => ExprAt(nds, node.right)
      /\ node.kind \in {"Binary", "Logical"} => ExprAt(nds, node.left) /\ ExprAt(nds, node.right)
      /\ node.kind \in {"Assign", "Return"} => ExprAt(nds, node.value)
      /\ node.kind = "VarDecl" => ExprAt(nds, node.init)
      /\ node.kind \in {"If", "While", "For"} => ExprAt(nds, node.cond)
      /\ node.kind = "For" => StmtAt(nds, node.init)
  BY ChildClasses
<1> HIDE DEF node
<1>9. ASSUME NEW j, ExprAt(nds, j), NEW t, NEW e, t \in L, Passes(nds, <<t>>, Anything, e)
      PROVE  Passes(nds, <<Evaluate(j), t>>, <<>>, e)
  BY <1>3, <1>7, <1>9
<1>10. node.kind = "For" =>
         Passes(nds, <<Execute(node.init), Evaluate(node.cond), back>>, <<>>, <<>>)
  <2>1. SUFFICES ASSUME node.kind = "For"
                 PROVE  Passes(nds, <<Execute(node.init), Evaluate(node.cond), back>>, <<>>, <<>>)
    OBVIOUS
  <2>2. Passes(nds, <<Evaluate(node.cond), back>>, <<>>, <<>>)
    BY <1>5, <1>6, <1>8, <1>9, <2>1
  <2>3. Passes(nds, <<Execute(node.init)>> \o <<Evaluate(node.cond), back>>, <<>>, <<>>)
    BY <1>2, <1>8, <2>1, <2>2, PassesExecute, NoKinds
  <2>4. Execute(node.init) \in L /\ Evaluate(node.cond) \in L
    BY <1>2, <1>8, <2>1 DEF L
  <2> QED
    BY <1>5, <2>3, <2>4, ThreeJoined
<1>11. node.kind = "Binary" =>
         Passes(nds, <<Evaluate(node.left), Evaluate(node.right), back>>, <<>>, Anything)
  <2>1. SUFFICES ASSUME node.kind = "Binary"
                 PROVE  Passes(nds, <<Evaluate(node.left), Evaluate(node.right), back>>, <<>>, Anything)
    OBVIOUS
  <2>2. Passes(nds, <<Evaluate(node.right), back>>, Anything, Anything)
    BY <1>3, <1>5, <1>6, <1>7, <1>8, <2>1
  <2>3. Passes(nds, <<Evaluate(node.left)>> \o <<Evaluate(node.right), back>>, <<>>, Anything)
    BY <1>2, <1>7, <1>8, <2>1, <2>2, PassesEvaluate, NoKinds
  <2>4. Evaluate(node.left) \in L /\ Evaluate(node.right) \in L
    BY <1>2, <1>8, <2>1 DEF L
  <2> QED
    BY <1>5, <2>3, <2>4, ThreeJoined
<1>12. node.kind = "Grouping" => Passes(nds, <<Evaluate(node.expr)>>, <<>>, Anything)
  BY <1>2, <1>8, PassesAlone
<1>13. node.kind = "ExprStmt" => Passes(nds, <<Evaluate(node.expr), Discard>>, <<>>, <<>>)
  BY <1>4, <1>5, <1>8, <1>9
<1>14. /\ node.kind \in {"If", "While"} => Passes(nds, <<Evaluate(node.cond), back>>, <<>>, <<>>)
       /\ node.kind = "VarDecl" => Passes(nds, <<Evaluate(node.init), back>>, <<>>, <<>>)
       /\ node.kind = "Return" => Passes(nds, <<Evaluate(node.value), back>>, <<>>, <<>>)
       /\ node.kind = "Unary" => Passes(nds, <<Evaluate(node.right), back>>, <<>>, Anything)
       /\ node.kind = "Assign" => Passes(nds, <<Evaluate(node.value), back>>, <<>>, Anything)
       /\ node.kind = "Logical" => Passes(nds, <<Evaluate(node.left), back>>, <<>>, Anything)
  BY <1>5, <1>6, <1>8, <1>9
<1> QED
  BY <1>10, <1>11, <1>12, <1>13, <1>14 DEF node, back

\* The same, where the visitor goes on.
LEMMA PassesBack ==
  ASSUME NEW nds, Runnable(nds), NEW k \in 1 .. Len(nds)
  PROVE  LET node == nds[k]
             back == Resume(k)
         IN  /\ node.kind = "If" =>
                  /\ Passes(nds, <<Execute(node.then)>>, <<>>, <<>>)
                  /\ Passes(nds, <<Execute(node.else)>>, <<>>, <<>>)
             /\ node.kind = "While" =>
                  Passes(nds, <<Execute(node.body), Evaluate(node.cond), back>>, <<>>, <<>>)
             /\ node.kind = "For" =>
                  Passes(nds, <<Execute(node.body), Evaluate(node.step), Discard,
                                Evaluate(node.cond), back>>, <<>>, <<>>)
             /\ node.kind = "Logical" => Passes(nds, <<Evaluate(node.right)>>, <<>>, Anything)
<1> DEFINE node == nds[k]
           back == Resume(k)
           L == {Evaluate(j) : j \in Nat} \cup {Execute(j) : j \in Nat} \cup {Discard, back}
<1>1. k \in Nat
  OBVIOUS
<1>2. /\ \A j : ExprAt(nds, j) => j \in Nat /\ Evaluate(j) \in L
      /\ \A j : StmtAt(nds, j) => j \in Nat /\ Execute(j) \in L
      /\ Discard \in L /\ back \in L
  BY DEF ExprAt, StmtAt
<1>3. node.kind \in {"While", "For"} => Passes(nds, <<back>>, Anything, <<>>)
  <2>1. node.kind \in Resumed => Passes(nds, <<back>>, Pops(nds, back), Pushes(nds, back))
    BY <1>1, PassesAlone
  <2>2. node.kind \in Resumed =>
          /\ node.kind \notin {"Binary", "Call"} => Pops(nds, back) = Anything
          /\ node.kind \notin ExprKind => Pushes(nds, back) = <<>>
    BY ResumeEffect
  <2> HIDE DEF node, back
  <2> QED
    BY <2>1, <2>2 DEF Resumed, ExprKind
<1>4. Passes(nds, <<Discard>>, Anything, <<>>)
  <2> DEFINE drop == Discard
  <2>1. /\ drop \in Records(nds) /\ ~ IsEnd(drop)
        /\ Pops(nds, drop) = Anything /\ Pushes(nds, drop) = <<>>
    BY RecordsPlain DEF IsEnd
  <2> HIDE DEF drop
  <2>2. Passes(nds, <<drop>>, <<>> \o Pops(nds, drop), <<>> \o Pushes(nds, drop))
    BY <2>1, PassesOne, NoKinds
  <2> QED
    BY <2>1, <2>2, NoKinds DEF drop
<1> HIDE DEF L, back
<1>5. /\ node.kind = "If" => StmtAt(nds, node.then) /\ StmtAt(nds, node.else)
      /\ node.kind \in {"While", "For"} => ExprAt(nds, node.cond) /\ StmtAt(nds, node.body)
      /\ node.kind = "For" => ExprAt(nds, node.step)
      /\ node.kind = "Logical" => ExprAt(nds, node.right)
  BY ChildClasses
<1> HIDE DEF node
<1>6. node.kind = "If" => /\ Passes(nds, <<Execute(node.then)>>, <<>>, <<>>)
                          /\ Passes(nds, <<Execute(node.else)>>, <<>>, <<>>)
  BY <1>2, <1>5, PassesAlone
<1>7. node.kind = "Logical" => Passes(nds, <<Evaluate(node.right)>>, <<>>, Anything)
  BY <1>2, <1>5, PassesAlone
<1>8. node.kind \in {"While", "For"} => Passes(nds, <<Evaluate(node.cond)>> \o <<back>>, <<>>, <<>>)
  BY <1>2, <1>3, <1>5, PassesEvaluate, NoKinds
<1>9. node.kind = "While" =>
        Passes(nds, <<Execute(node.body), Evaluate(node.cond), back>>, <<>>, <<>>)
  <2>1. SUFFICES ASSUME node.kind = "While"
                 PROVE  Passes(nds, <<Execute(node.body), Evaluate(node.cond), back>>, <<>>, <<>>)
    OBVIOUS
  <2>2. Evaluate(node.cond) \in L /\ back \in L /\ Execute(node.body) \in L
    BY <1>2, <1>5, <2>1
  <2>3. Passes(nds, <<Execute(node.body)>> \o (<<Evaluate(node.cond)>> \o <<back>>), <<>>, <<>>)
    BY <1>2, <1>5, <1>8, <2>1, PassesExecute, NoKinds
  <2> DEFINE a == Execute(node.body)
             d == Evaluate(node.cond)
             e == back
  <2>4. a \in L /\ d \in L /\ e \in L /\ Passes(nds, <<a>> \o (<<d>> \o <<e>>), <<>>, <<>>)
    BY <2>2, <2>3
  <2> HIDE DEF a, d, e
  <2>5. <<d>> \o <<e>> = <<d, e>>
    BY <2>4, TwoJoined
  <2>6. <<a>> \o <<d, e>> = <<a, d, e>>
    BY <2>4, ThreeJoined
  <2>7. Passes(nds, <<a, d, e>>, <<>>, <<>>)
    BY <2>4, <2>5, <2>6
  <2> QED
    BY <2>7 DEF a, d, e
<1>10. node.kind = "For" =>
         Passes(nds, <<Execute(node.body), Evaluate(node.step), Discard,
                       Evaluate(node.cond), back>>, <<>>, <<>>)
  <2>1. SUFFICES ASSUME node.kind = "For"
                 PROVE  Passes(nds, <<Execute(node.body), Evaluate(node.step), Discard,
                                      Evaluate(node.cond), back>>, <<>>, <<>>)
    OBVIOUS
  <2> DEFINE a == Execute(node.body)
             b == Evaluate(node.step)
             c == Discard
             d == Evaluate(node.cond)
             e == back
  <2>2. a \in L /\ b \in L /\ c \in L /\ d \in L /\ e \in L
    BY <1>2, <1>5, <2>1
  <2>3. Passes(nds, <<d>> \o <<e>>, <<>>, <<>>)
    BY <1>8, <2>1
  <2>4. Passes(nds, <<b>> \o <<c>>, <<>>, <<>>)
    BY <1>2, <1>4, <1>5, <2>1, PassesEvaluate, NoKinds
  <2>5. ASSUME NEW t, Passes(nds, t, <<>>, <<>>) PROVE Passes(nds, <<a>> \o t, <<>>, <<>>)
    BY <1>2, <1>5, <2>1, <2>5, PassesExecute, NoKinds
  <2> HIDE DEF a, b, c, d, e
  <2>6. Passes(nds, (<<b>> \o <<c>>) \o (<<d>> \o <<e>>), <<>>, <<>>)
    BY <2>3, <2>4, PassesConcat
  <2>7. (<<b>> \o <<c>>) \o (<<d>> \o <<e>>) = <<b, c, d, e>>
    <3>1. <<b>> \in Seq(L) /\ <<c>> \in Seq(L) /\ <<d, e>> \in Seq(L)
      BY <2>2
    <3>2. (<<b>> \o <<c>>) \o <<d, e>> = <<b>> \o (<<c>> \o <<d, e>>)
      BY <3>1, ConcatAssociative
    <3>3. <<b>> \o <<c, d, e>> = <<b, c, d, e>>
      BY <2>2, FourJoined
    <3>4. <<c>> \o <<d, e>> = <<c, d, e>>
      BY <2>2, ThreeJoined
    <3>5. <<d>> \o <<e>> = <<d, e>>
      BY <2>2, TwoJoined
    <3> QED
      BY <3>2, <3>3, <3>4, <3>5
  <2>8. Passes(nds, <<a>> \o <<b, c, d, e>>, <<>>, <<>>)
    BY <2>5, <2>6, <2>7
  <2>9. Passes(nds, <<a, b, c, d, e>>, <<>>, <<>>)
    <3>1. <<a>> \o <<b, c, d, e>> = <<a, b, c, d, e>>
      BY <2>2, FiveJoined
    <3> QED
      BY <2>8, <3>1
  <2> QED
    BY <2>9 DEF a, b, c, d, e
<1> QED
  BY <1>6, <1>7, <1>9, <1>10 DEF node, back

\* The arguments of a call, each evaluated and copied.
LEMMA PassesArguments ==
  ASSUME NEW nds, Runnable(nds), NEW args \in Seq(Nat),
         \A i \in 1 .. Len(args) : ExprAt(nds, args[i])
  PROVE  Passes(nds, Arguments(args), Anything, CalleeAnd(Len(args)))
<1> DEFINE n == Len(args)
           r == Arguments(args)
           b == [i \in 1 .. 2 * n |-> CalleeAnd((i - 1) \div 2)]
           w == [i \in 1 .. 2 * n + 1 |-> IF i % 2 = 1 THEN CalleeAnd((i - 1) \div 2)
                                                     ELSE CalleeAnd((i - 1) \div 2) \o Anything]
<1>1. n \in Nat /\ 2 * n \in Nat
  OBVIOUS
<1>2. ASSUME NEW i \in 1 .. 2 * n
      PROVE  /\ i % 2 = 1 => (i + 1) \div 2 \in 1 .. n
             /\ (i - 1) \div 2 \in Nat
             /\ i % 2 = 1 => (i + 1) % 2 # 1 /\ ((i + 1) - 1) \div 2 = (i - 1) \div 2
             /\ i % 2 # 1 => (i + 1) % 2 = 1 /\ ((i + 1) - 1) \div 2 = (i - 1) \div 2 + 1
  BY <1>1
<1>3. /\ \A i \in 1 .. 2 * n : r[i] = IF i % 2 = 1 THEN Evaluate(args[(i + 1) \div 2]) ELSE CopyArg
      /\ DOMAIN r = 1 .. 2 * n
  BY DEF Arguments
<1>4. \A i \in 1 .. 2 * n :
        /\ r[i] \in Records(nds) /\ ~ IsEnd(r[i])
        /\ i % 2 = 1 => Pops(nds, r[i]) = <<>> /\ Pushes(nds, r[i]) = Anything
        /\ i % 2 # 1 => Pops(nds, r[i]) = Anything /\ Pushes(nds, r[i]) = <<"basic">>
  <2>1. ASSUME NEW i \in 1 .. 2 * n
        PROVE  /\ r[i] \in Records(nds) /\ ~ IsEnd(r[i])
               /\ i % 2 = 1 => Pops(nds, r[i]) = <<>> /\ Pushes(nds, r[i]) = Anything
               /\ i % 2 # 1 => Pops(nds, r[i]) = Anything /\ Pushes(nds, r[i]) = <<"basic">>
    <3> HIDE DEF r
    <3>1. CASE i % 2 = 1
      <4>1. ExprAt(nds, args[(i + 1) \div 2]) /\ args[(i + 1) \div 2] \in Nat
        BY <1>2, <3>1
      <4>2. r[i] = Evaluate(args[(i + 1) \div 2])
        BY <1>3, <3>1
      <4> QED
        BY <3>1, <4>1, <4>2, RecordsMade DEF IsEnd
    <3>2. CASE i % 2 # 1
      <4>1. r[i] = CopyArg
        BY <1>3, <3>2
      <4> QED
        BY <3>2, <4>1, RecordsPlain DEF IsEnd
    <3> QED
      BY <3>1, <3>2
  <2> QED
    BY <2>1
<1>5. r \in Seq(Records(nds)) /\ Len(r) = 2 * n
  <2>1. r \in [1 .. 2 * n -> Records(nds)]
    BY <1>4 DEF Arguments
  <2> HIDE DEF r
  <2> QED
    BY <1>1, <2>1, LenProperties
<1> HIDE DEF r, n
<1>6. /\ \A i \in 1 .. 2 * n : b[i] = CalleeAnd((i - 1) \div 2) /\ b[i] \in Seq(Kinds)
      /\ b \in [1 .. 2 * n -> Seq(Kinds)]
  BY <1>2, CalleeFacts
<1>7. /\ \A i \in 1 .. 2 * n + 1 : w[i] = IF i % 2 = 1 THEN CalleeAnd((i - 1) \div 2)
                                          ELSE CalleeAnd((i - 1) \div 2) \o Anything
      /\ w \in [1 .. 2 * n + 1 -> Seq(Kinds)]
  <2>1. \A i \in 1 .. 2 * n + 1 : (i - 1) \div 2 \in Nat
    BY <1>1
  <2>2. \A i \in 1 .. 2 * n + 1 : /\ CalleeAnd((i - 1) \div 2) \in Seq(Kinds)
                                  /\ CalleeAnd((i - 1) \div 2) \o Anything \in Seq(Kinds)
    BY <2>1, CalleeFacts, KindsConcat, NoKinds
  <2> QED
    BY <2>2
<1> HIDE DEF b, w
<1>8. ASSUME NEW i \in 1 .. 2 * n
      PROVE  w[i] = b[i] \o Pops(nds, r[i]) /\ w[i + 1] = b[i] \o Pushes(nds, r[i])
  <2>1. i \in 1 .. 2 * n + 1 /\ i + 1 \in 1 .. 2 * n + 1 /\ (i - 1) \div 2 \in Nat
    BY <1>1, <1>2
  <2>2. CASE i % 2 = 1
    <3>1. w[i] = b[i] /\ w[i + 1] = b[i] \o Anything
      BY <1>2, <1>6, <1>7, <2>1, <2>2
    <3> QED
      BY <1>4, <1>6, <2>2, <3>1, NoKinds
  <2>3. CASE i % 2 # 1
    <3>1. w[i] = b[i] \o Anything /\ w[i + 1] = CalleeAnd((i - 1) \div 2 + 1)
      BY <1>2, <1>6, <1>7, <2>1, <2>3
    <3> QED
      BY <1>4, <1>6, <2>1, <2>3, <3>1, CalleeNext
  <2> QED
    BY <2>2, <2>3
<1>9. \A f \in Nat : Chained(nds, f, r, b, w)
  <2>1. \A i \in 1 .. Len(r) : r[i].do # "call"
    BY <1>4, <1>5 DEF IsEnd
  <2> QED
    BY <1>5, <1>6, <1>7, <1>8, <2>1 DEF Chained
<1>10. w[1] = Anything /\ w[Len(r) + 1] = CalleeAnd(n)
  <2>1. /\ 1 \in 1 .. 2 * n + 1 /\ 1 % 2 = 1 /\ (1 - 1) \div 2 = 0
        /\ 2 * n + 1 \in 1 .. 2 * n + 1 /\ (2 * n + 1) % 2 = 1 /\ ((2 * n + 1) - 1) \div 2 = n
    BY <1>1
  <2>2. PICK z \in 1 .. 2 * n + 1 : z = 2 * n + 1
    BY <2>1
  <2> QED
    BY <1>5, <1>7, <2>1, <2>2, NoArguments
<1>11. \A f \in Nat : Leads(nds, f, r, Anything, CalleeAnd(n))
  BY <1>9, <1>10 DEF Leads
<1>12. Passes(nds, r, Anything, CalleeAnd(n))
  BY <1>4, <1>5, <1>11, NoKinds DEF Passes
<1> QED
  BY <1>12 DEF r, n

LEMMA PassesCall ==
  ASSUME NEW nds, Runnable(nds), NEW k \in 1 .. Len(nds), nds[k].kind = "Call"
  PROVE  Passes(nds, <<Evaluate(nds[k].callee), CheckCallee>> \o Arguments(nds[k].args) \o <<Resume(k)>>,
                <<>>, Anything)
<1> DEFINE node == nds[k]
           first == <<Evaluate(node.callee), CheckCallee>>
           list == Arguments(node.args)
           last == <<Resume(k)>>
<1>1. /\ node.kind = "Call" /\ ExprAt(nds, node.callee) /\ node.callee \in Nat
      /\ node.args \in Seq(Nat) /\ \A i \in 1 .. Len(node.args) : ExprAt(nds, node.args[i])
  BY ChildClasses, NodeFields
<1>2. k \in Nat
  OBVIOUS
<1>3. Passes(nds, last, CalleeAnd(Len(node.args)), Anything)
  <2>1. node.kind \in Resumed /\ node.kind \in ExprKind
    BY <1>1 DEF Resumed, ExprKind
  <2>2. Passes(nds, last, Pops(nds, Resume(k)), Pushes(nds, Resume(k)))
    BY <1>2, <2>1, PassesAlone
  <2> QED
    BY <1>1, <2>1, <2>2, ResumeEffect
<1> HIDE DEF node
<1>4. Passes(nds, list, Anything, CalleeAnd(Len(node.args)))
  BY <1>1, PassesArguments
<1>5. Passes(nds, first, <<>>, Anything)
  <2> DEFINE check == CheckCallee
             eval == Evaluate(node.callee)
  <2>1. /\ check \in Records(nds) /\ ~ IsEnd(check)
        /\ Pops(nds, check) = Anything /\ Pushes(nds, check) = Anything
    BY RecordsPlain DEF IsEnd
  <2> HIDE DEF check
  <2>2. Passes(nds, <<check>>, <<>> \o Pops(nds, check), <<>> \o Pushes(nds, check))
    BY <2>1, PassesOne, NoKinds
  <2>3. Passes(nds, <<check>>, <<>> \o Anything, Anything)
    BY <2>1, <2>2, NoKinds
  <2>4. Passes(nds, <<eval>> \o <<check>>, <<>>, Anything)
    BY <1>1, <2>3, PassesEvaluate, NoKinds
  <2>5. <<eval>> \o <<check>> = <<eval, check>>
    <3>1. eval \in {eval, check} /\ check \in {eval, check}
      OBVIOUS
    <3> HIDE DEF eval
    <3> QED
      BY <3>1, TwoJoined
  <2> QED
    BY <2>4, <2>5 DEF check
<1> HIDE DEF first, list, last
<1>6. Passes(nds, (first \o list) \o last, <<>>, Anything)
  BY <1>3, <1>4, <1>5, PassesConcat
<1> QED
  BY <1>6 DEF first, list, last, node

(***************************************************************************)
(* Environments, and what ScopeStack sees of them.                         *)
(***************************************************************************)

Declarations(nds) == {k \in 1 .. Len(nds) : nds[k].kind = "FuncDecl"}

\* What a name can be bound to once these functions have been declared.
Kept(funcs) == Value \cup {Function(k) : k \in funcs}

Tabled(V) == UNION {[bound -> V] : bound \in SUBSET String}

Environments(V) == [values : Tabled(V), parent : Int]

\* The functions that a program can declare.
Signatures == [name : String, params : Seq(String)]

SigIn(nds, k) == [name |-> nds[k].name, params |-> nds[k].params]

Shown(nds, v) == IF v.kind = "Function" THEN SigIn(nds, v.val) ELSE v

ShownIn(nds, values) == [n \in DOMAIN values |-> Shown(nds, values[n])]

ShownScope(nds, scope) == [scope EXCEPT !.values = ShownIn(nds, @)]

Picture(nds, tables) == [i \in DOMAIN tables |-> ShownScope(nds, tables[i])]

Seen == Value \cup Signatures

LEMMA SigFacts ==
  ASSUME NEW nds, Runnable(nds), NEW k \in Declarations(nds)
  PROVE  SigIn(nds, k) \in Signatures
  BY NodeFields DEF SigIn, Signatures, Declarations

LEMMA ShownFacts ==
  ASSUME NEW nds, Runnable(nds), NEW funcs, funcs \subseteq Declarations(nds), NEW v \in Kept(funcs)
  PROVE  /\ Shown(nds, v) \in Seen
         /\ v \in Value => Shown(nds, v) = v
         /\ v \in Local(funcs)
<1>1. CASE v \in Value
  BY <1>1, ValueKinds DEF Shown, Seen, Local
<1>2. CASE v \notin Value
  <2>1. PICK k \in funcs : v = Function(k)
    BY <1>2 DEF Kept
  <2>2. SigIn(nds, k) \in Signatures
    BY SigFacts
  <2> QED
    BY <1>2, <2>1, <2>2 DEF Function, Shown, Seen, Local
<1> QED
  BY <1>1, <1>2

LEMMA ShownInFacts ==
  ASSUME NEW nds, Runnable(nds), NEW funcs, funcs \subseteq Declarations(nds),
         NEW values \in Tabled(Kept(funcs))
  PROVE  /\ ShownIn(nds, values) \in Tabled(Seen)
         /\ DOMAIN ShownIn(nds, values) = DOMAIN values
         /\ DOMAIN values \in SUBSET String
         /\ \A n \in DOMAIN values : /\ values[n] \in Kept(funcs)
                                     /\ ShownIn(nds, values)[n] = Shown(nds, values[n])
<1>1. PICK bound \in SUBSET String : values \in [bound -> Kept(funcs)]
  BY DEF Tabled
<1>2. \A n \in bound : values[n] \in Kept(funcs) /\ Shown(nds, values[n]) \in Seen
  BY <1>1, ShownFacts
<1>3. ShownIn(nds, values) \in [bound -> Seen]
  BY <1>1, <1>2 DEF ShownIn
<1>4. ShownIn(nds, values) \in Tabled(Seen)
  BY <1>3 DEF Tabled
<1> QED
  BY <1>1, <1>2, <1>4 DEF ShownIn

LEMMA ShownScopeFacts ==
  ASSUME NEW nds, Runnable(nds), NEW funcs, funcs \subseteq Declarations(nds),
         NEW scope \in Environments(Kept(funcs))
  PROVE  /\ ShownScope(nds, scope) = [values |-> ShownIn(nds, scope.values), parent |-> scope.parent]
         /\ ShownScope(nds, scope) \in Environments(Seen)
<1>1. scope = [values |-> scope.values, parent |-> scope.parent]
      /\ scope.values \in Tabled(Kept(funcs)) /\ scope.parent \in Int
  BY DEF Environments
<1>2. ShownIn(nds, scope.values) \in Tabled(Seen)
  BY <1>1, ShownInFacts
<1>3. ShownScope(nds, scope) = [values |-> ShownIn(nds, scope.values), parent |-> scope.parent]
  BY <1>1 DEF ShownScope
<1> QED
  BY <1>1, <1>2, <1>3 DEF Environments

LEMMA PictureFacts ==
  ASSUME NEW nds, Runnable(nds), NEW funcs, funcs \subseteq Declarations(nds),
         NEW tables \in Seq(Environments(Kept(funcs)))
  PROVE  /\ Picture(nds, tables) \in Seq(Environments(Seen))
         /\ Len(Picture(nds, tables)) = Len(tables)
         /\ \A i \in 1 .. Len(tables) :
              /\ tables[i] \in Environments(Kept(funcs))
              /\ Picture(nds, tables)[i] = ShownScope(nds, tables[i])
              /\ Picture(nds, tables)[i].parent = tables[i].parent
              /\ DOMAIN Picture(nds, tables)[i].values = DOMAIN tables[i].values
<1> DEFINE n == Len(tables)
           p == Picture(nds, tables)
<1>1. n \in Nat /\ DOMAIN tables = 1 .. n /\ \A i \in 1 .. n : tables[i] \in Environments(Kept(funcs))
  OBVIOUS
<1>2. \A i \in 1 .. n : ShownScope(nds, tables[i]) \in Environments(Seen)
  BY <1>1, ShownScopeFacts
<1>3. p \in [1 .. n -> Environments(Seen)] /\ \A i \in 1 .. n : p[i] = ShownScope(nds, tables[i])
  BY <1>1, <1>2 DEF Picture
<1> HIDE DEF p
<1>4. p \in Seq(Environments(Seen)) /\ Len(p) = n
  BY <1>1, <1>3, LenProperties
<1>5. ASSUME NEW i \in 1 .. n
      PROVE  p[i].parent = tables[i].parent /\ DOMAIN p[i].values = DOMAIN tables[i].values
  <2>1. p[i] = [values |-> ShownIn(nds, tables[i].values), parent |-> tables[i].parent]
    BY <1>1, <1>3, ShownScopeFacts
  <2> QED
    BY <2>1 DEF ShownIn
<1> QED
  BY <1>1, <1>3, <1>4, <1>5 DEF p

LEMMA BindFacts ==
  ASSUME NEW nds, Runnable(nds), NEW funcs, funcs \subseteq Declarations(nds),
         NEW values \in Tabled(Kept(funcs)), NEW n \in String, NEW v \in Kept(funcs)
  PROVE  /\ Bind(values, n, v) \in Tabled(Kept(funcs))
         /\ ShownIn(nds, Bind(values, n, v)) = Bind(ShownIn(nds, values), n, Shown(nds, v))
<1>1. /\ DOMAIN values \in SUBSET String /\ DOMAIN ShownIn(nds, values) = DOMAIN values
      /\ \A m \in DOMAIN values : /\ values[m] \in Kept(funcs)
                                  /\ ShownIn(nds, values)[m] = Shown(nds, values[m])
  BY ShownInFacts
<1> DEFINE bound == DOMAIN values \cup {n}
<1>2. Bind(values, n, v) \in [bound -> Kept(funcs)] /\ bound \in SUBSET String
  BY <1>1 DEF Bind
<1>3. Bind(values, n, v) \in Tabled(Kept(funcs))
  BY <1>2 DEF Tabled
<1>4. ShownIn(nds, Bind(values, n, v)) = [m \in bound |-> Shown(nds, Bind(values, n, v)[m])]
  BY <1>2 DEF ShownIn
<1>5. Bind(ShownIn(nds, values), n, Shown(nds, v))
        = [m \in bound |-> IF m = n THEN Shown(nds, v) ELSE ShownIn(nds, values)[m]]
  BY <1>1 DEF Bind
<1>6. \A m \in bound : Shown(nds, Bind(values, n, v)[m])
                         = IF m = n THEN Shown(nds, v) ELSE ShownIn(nds, values)[m]
  BY <1>1 DEF Bind
<1> HIDE DEF bound
<1> QED
  BY <1>3, <1>4, <1>5, <1>6

\* A name is bound in the i-th scope.
Rebound(tables, i, n, v) == [tables EXCEPT ![i].values = Bind(@, n, v)]

LEMMA PictureBind ==
  ASSUME NEW nds, Runnable(nds), NEW funcs, funcs \subseteq Declarations(nds),
         NEW tables \in Seq(Environments(Kept(funcs))), NEW i \in 1 .. Len(tables),
         NEW n \in String, NEW v \in Kept(funcs)
  PROVE  /\ Rebound(tables, i, n, v) \in Seq(Environments(Kept(funcs)))
         /\ Picture(nds, Rebound(tables, i, n, v))
              = Rebound(Picture(nds, tables), i, n, Shown(nds, v))
<1> DEFINE new == [tables[i] EXCEPT !.values = Bind(@, n, v)]
           bound == [tables EXCEPT ![i].values = Bind(@, n, v)]
           p == Picture(nds, tables)
           q == Picture(nds, bound)
           E == Environments(Kept(funcs))
<1>1. /\ Len(tables) \in Nat /\ DOMAIN tables = 1 .. Len(tables) /\ tables[i] \in E
      /\ tables \in Seq(E)
  OBVIOUS
<1>2. /\ tables[i].values \in Tabled(Kept(funcs)) /\ tables[i].parent \in Int
      /\ tables[i] = [values |-> tables[i].values, parent |-> tables[i].parent]
  BY <1>1 DEF Environments
<1>3. new = [values |-> Bind(tables[i].values, n, v), parent |-> tables[i].parent] /\ new \in E
  BY <1>2, BindFacts DEF Environments
<1>4. bound = [tables EXCEPT ![i] = new]
  OBVIOUS
<1> HIDE DEF new, bound, E
<1>5. /\ bound \in Seq(E) /\ Len(bound) = Len(tables) /\ bound[i] = new
      /\ \A j \in 1 .. Len(tables) : j # i => bound[j] = tables[j]
  BY <1>1, <1>3, <1>4
<1>6. /\ p \in Seq(Environments(Seen)) /\ Len(p) = Len(tables)
      /\ \A j \in 1 .. Len(tables) : p[j] = ShownScope(nds, tables[j])
  BY PictureFacts
<1>7. /\ q \in Seq(Environments(Seen)) /\ Len(q) = Len(tables)
      /\ \A j \in 1 .. Len(tables) : q[j] = ShownScope(nds, bound[j])
  BY <1>5, PictureFacts DEF E
<1> HIDE DEF p, q
<1>8. q[i] = [p[i] EXCEPT !.values = Bind(@, n, Shown(nds, v))]
  <2>1. p[i] = [values |-> ShownIn(nds, tables[i].values), parent |-> tables[i].parent]
    BY <1>1, <1>6, ShownScopeFacts DEF E
  <2>2. q[i] = [values |-> ShownIn(nds, new.values), parent |-> new.parent]
    BY <1>3, <1>5, <1>7, ShownScopeFacts DEF E
  <2>3. new.values = Bind(tables[i].values, n, v) /\ new.parent = tables[i].parent
    BY <1>3
  <2>4. ShownIn(nds, new.values) = Bind(ShownIn(nds, tables[i].values), n, Shown(nds, v))
    BY <1>2, <2>3, BindFacts
  <2> QED
    BY <2>1, <2>2, <2>3, <2>4
<1> DEFINE r == [p EXCEPT ![i].values = Bind(@, n, Shown(nds, v))]
<1>9. r = [p EXCEPT ![i] = q[i]]
  BY <1>8
<1> HIDE DEF r
<1>10. \A j \in 1 .. Len(tables) : j # i => q[j] = p[j]
  BY <1>5, <1>6, <1>7
<1>11. q = r
  <2>1. DOMAIN p = 1 .. Len(tables) /\ DOMAIN q = 1 .. Len(tables)
    BY <1>6, <1>7
  <2>2. DOMAIN r = 1 .. Len(tables) /\ \A j \in 1 .. Len(tables) : r[j] = q[j]
    BY <1>9, <1>10, <2>1
  <2>3. r = [j \in 1 .. Len(tables) |-> r[j]]
    BY <2>1 DEF r
  <2>4. q = [j \in 1 .. Len(tables) |-> q[j]]
    BY <1>7
  <2> QED
    BY <2>2, <2>3, <2>4
<1> QED
  BY <1>5, <1>11 DEF bound, p, q, r, E, Rebound

\* Bindings of primitive values are seen as they are.
LEMMA PlainIn ==
  ASSUME NEW nds, NEW funcs, NEW bound \in SUBSET String, NEW values \in [bound -> Value]
  PROVE  values \in Tabled(Kept(funcs)) /\ ShownIn(nds, values) = values
<1>1. values \in [bound -> Kept(funcs)]
  BY DEF Kept
<1>2. values \in Tabled(Kept(funcs))
  BY <1>1 DEF Tabled
<1>3. \A n \in bound : Shown(nds, values[n]) = values[n]
  BY ValueKinds DEF Shown
<1>4. ShownIn(nds, values) = [n \in bound |-> values[n]]
  BY <1>3 DEF ShownIn
<1> QED
  BY <1>2, <1>4

LEMMA PictureEntered ==
  ASSUME NEW nds, Runnable(nds), NEW funcs, funcs \subseteq Declarations(nds),
         NEW tables \in Seq(Environments(Kept(funcs))),
         NEW values \in Tabled(Kept(funcs)), NEW parent \in Int
  PROVE  /\ Entered(tables, values, parent) \in Seq(Environments(Kept(funcs)))
         /\ Picture(nds, Entered(tables, values, parent))
              = Append(Picture(nds, tables), [values |-> ShownIn(nds, values), parent |-> parent])
<1> DEFINE E == Environments(Kept(funcs))
           V == Environments(Seen)
           env == [values |-> values, parent |-> parent]
           seen == [values |-> ShownIn(nds, values), parent |-> parent]
           bound == Append(tables, env)
           p == Picture(nds, tables)
           q == Picture(nds, bound)
           r == Append(p, seen)
           n == Len(tables)
<1>1. env \in E /\ seen = ShownScope(nds, env) /\ seen \in V
  <2>1. env \in E /\ env.values = values /\ env.parent = parent
    BY DEF Environments
  <2> QED
    BY <2>1, ShownScopeFacts
<1>2. tables \in Seq(E) /\ n \in Nat
  OBVIOUS
<1>3. p \in Seq(V) /\ Len(p) = n /\ \A i \in 1 .. n : p[i] = ShownScope(nds, tables[i])
  BY PictureFacts
<1> HIDE DEF env, seen
<1>4. /\ bound \in Seq(E) /\ Len(bound) = n + 1 /\ bound[n + 1] = env
      /\ \A i \in 1 .. n : bound[i] = tables[i]
  BY <1>1, <1>2, AppendProperties
<1> HIDE DEF bound
<1>5. q \in Seq(V) /\ Len(q) = n + 1 /\ \A i \in 1 .. n + 1 : q[i] = ShownScope(nds, bound[i])
  BY <1>4, PictureFacts
<1> HIDE DEF p, q
<1>6. /\ r \in Seq(V) /\ Len(r) = n + 1 /\ r[n + 1] = seen
      /\ \A i \in 1 .. n : r[i] = p[i]
  BY <1>1, <1>3, AppendProperties
<1> HIDE DEF r, n, E, V
<1>7. \A i \in 1 .. n + 1 : q[i] = r[i]
  <2>1. ASSUME NEW i \in 1 .. n + 1 PROVE q[i] = r[i]
    <3>1. i \in 1 .. n \/ i = n + 1
      BY <1>2
    <3> QED
      BY <1>1, <1>3, <1>4, <1>5, <1>6, <3>1
  <2> QED
    BY <2>1
<1>8. q = r
  BY <1>5, <1>6, <1>7, SeqEqual
<1> QED
  BY <1>4, <1>8 DEF Entered, env, seen, bound, p, q, r, E

LEMMA PictureFront ==
  ASSUME NEW nds, Runnable(nds), NEW funcs, funcs \subseteq Declarations(nds),
         NEW tables \in Seq(Environments(Kept(funcs))), tables # <<>>
  PROVE  /\ Front(tables) \in Seq(Environments(Kept(funcs)))
         /\ Len(Front(tables)) = Len(tables) - 1
         /\ Picture(nds, Front(tables)) = Front(Picture(nds, tables))
<1> DEFINE E == Environments(Kept(funcs))
           V == Environments(Seen)
           f == Front(tables)
           p == Picture(nds, tables)
           q == Picture(nds, f)
           r == Front(p)
           n == Len(tables)
<1>1. n \in Nat /\ n # 0
  BY EmptySeq
<1>2. f \in Seq(E) /\ Len(f) = n - 1 /\ \A i \in 1 .. n - 1 : f[i] = tables[i]
  BY FrontFacts
<1>3. p \in Seq(V) /\ Len(p) = n /\ \A i \in 1 .. n : p[i] = ShownScope(nds, tables[i])
  BY PictureFacts
<1> HIDE DEF f, p
<1>4. q \in Seq(V) /\ Len(q) = n - 1 /\ \A i \in 1 .. n - 1 : q[i] = ShownScope(nds, f[i])
  BY <1>2, PictureFacts
<1>5. p # <<>>
  BY <1>1, <1>3
<1>6. r \in Seq(V) /\ Len(r) = n - 1 /\ \A i \in 1 .. n - 1 : r[i] = p[i]
  BY <1>3, <1>5, FrontFacts
<1> HIDE DEF q, r, n, E, V
<1>7. \A i \in 1 .. n - 1 : q[i] = r[i]
  <2>1. \A i \in 1 .. n - 1 : i \in 1 .. n
    BY <1>1
  <2> QED
    BY <1>2, <1>3, <1>4, <1>6, <2>1
<1>8. q = r
  BY <1>4, <1>6, <1>7, SeqEqual
<1> QED
  BY <1>2, <1>8 DEF f, p, q, r, n, E

(***************************************************************************)
(* The scopes of the interpreter as a run of ScopeStack, where any function *)
(* may be declared and no number of scopes is too many.                    *)
(***************************************************************************)

SeenTables == [i \in DOMAIN symTables |-> Abstracted(symTables[i])]

SeenFrames == Active(control)

SeenDeclared == {SignatureOf(k) : k \in declared}

SeenStatus == IF status = "done" THEN "running" ELSE status

SeenHeight == Len(valueStack)

SP == INSTANCE ScopeStackProofs WITH
        Name       <- String,
        Data       <- Value,
        Func       <- Signatures,
        MaxScopes  <- MaxScopes,
        symTables  <- SeenTables,
        currIdx    <- currIdx,
        valueStack <- SeenHeight,
        frames     <- SeenFrames,
        declared   <- SeenDeclared,
        status     <- SeenStatus

LEMMA NoSignatureIsValue == Value \cap Signatures = {}
<1>1. ASSUME NEW v \in Value, v \in Signatures PROVE FALSE
  <2>1. v.kind \in {"Number", "Boolean", "String", "Null", "Undefined"}
    BY <1>1, ValueKinds
  <2>2. DOMAIN v = {"name", "params"}
    BY <1>1 DEF Signatures
  <2>3. DOMAIN v = {"kind", "val"}
    BY <1>1 DEF Value, Null, Undefined
  <2> QED
    BY <2>2, <2>3
<1> QED
  BY <1>1

LEMMA ScopeAssumed == SP!ScopeAssumption
  BY NoSignatureIsValue, SessionAssumption DEF SP!ScopeAssumption, Signatures

LEMMA SeenNow ==
  /\ SeenTables = Picture(nodes, symTables)
  /\ SeenDeclared = {SigIn(nodes, k) : k \in declared}
  BY DEF SeenTables, Picture, Abstracted, ShownScope, ShownIn, Shown, SignatureOf, SigIn, SeenDeclared

LEMMA SeenNext ==
  ASSUME UNCHANGED nodes
  PROVE  /\ SeenTables' = Picture(nodes, symTables')
         /\ SeenDeclared' = {SigIn(nodes, k) : k \in declared'}
  BY DEF SeenTables, Picture, Abstracted, ShownScope, ShownIn, Shown, SignatureOf, SigIn, SeenDeclared

(***************************************************************************)
(* What holds whenever the interpreter runs, or has run, on a tree.        *)
(***************************************************************************)

Sane ==
  /\ Runnable(nodes)
  /\ declared \subseteq Declarations(nodes)
  /\ Fitted(nodes, declared, control, locals)
  /\ symTables \in Seq(Environments(Kept(declared)))
  /\ valueStack \in Seq(Value)
  /\ status \in {"running", "done", "error", "crashed", "terminated"}

InterpreterInv == Sane /\ SP!IndInv

LEMMA RecordsActive ==
  ASSUME NEW nds, NEW items \in Seq(Records(nds))
  PROVE  items \in Seq(Activation)
<1>1. Records(nds) \subseteq Activation
  BY DEF Records
<1> HIDE DEF Records
<1> QED
  BY <1>1

LEMMA FramesNow ==
  ASSUME Sane, control # <<>>
  PROVE  /\ Active(Tail(control)) \in Seq(ActiveFrame)
         /\ SeenFrames = IF IsEnd(Head(control))
                         THEN Append(Active(Tail(control)), FrameOf(Head(control)))
                         ELSE Active(Tail(control))
<1>1. control \in Seq(Activation)
  BY RecordsActive DEF Sane, Fitted
<1> QED
  BY <1>1, ActiveHead DEF SeenFrames

\* The visitor in control goes on, or hands on what it found.
LEMMA WentOn ==
  ASSUME Sane, control # <<>>, ~ IsEnd(Head(control)), declared \subseteq declared',
         NEW n, n = Len(Pops(nodes, Head(control))), NEW r, NEW x, NEW us,
         Passes(nodes, r, x, Pushes(nodes, Head(control))), Filled(declared', x, us),
         Continue(r, n, us)
  PROVE  /\ Fitted(nodes', declared', control', locals') /\ SeenFrames' = SeenFrames
         /\ nodes' = nodes /\ status' = status
<1>1. /\ nodes' = nodes /\ status' = status
      /\ control' = r \o Tail(control) /\ locals' = SubSeq(locals, 1, Len(locals) - n) \o us
  BY DEF Continue
<1>2. /\ r \in Seq(Records(nodes)) /\ x \in Seq(Kinds)
      /\ \A i \in 1 .. Len(r) : ~ IsEnd(r[i])
      /\ \A f \in Nat : Leads(nodes, f, r, x, Pushes(nodes, Head(control)))
  BY DEF Passes
<1>3. Runnable(nodes) /\ Fitted(nodes, declared, control, locals)
  BY DEF Sane
<1>4. Fitted(nodes, declared', r \o Tail(control), SubSeq(locals, 1, Len(locals) - n) \o us)
  BY <1>2, <1>3, GoesOn
<1>5. Tail(control) \in Seq(Activation) /\ r \in Seq(Activation)
  BY <1>2, <1>3, HeadTaken, RecordsActive
<1>6. SeenFrames' = SeenFrames
  BY <1>1, <1>2, <1>5, ActivePlain, FramesNow DEF SeenFrames
<1> QED
  BY <1>1, <1>4, <1>6

LEMMA HandedOn ==
  ASSUME Sane, control # <<>>, ~ IsEnd(Head(control)), declared \subseteq declared',
         LET m == Len(locals) - Len(Pops(nodes, Head(control)))
         IN  Filled(declared', Pushes(nodes, Head(control)), SubSeq(locals, m + 1, Len(locals))),
         Continue(<<>>, 0, <<>>)
  PROVE  /\ Fitted(nodes', declared', control', locals') /\ SeenFrames' = SeenFrames
         /\ nodes' = nodes /\ status' = status
<1>1. /\ nodes' = nodes /\ status' = status
      /\ control' = <<>> \o Tail(control) /\ locals' = SubSeq(locals, 1, Len(locals) - 0) \o <<>>
  BY DEF Continue
<1>2. Runnable(nodes) /\ Fitted(nodes, declared, control, locals)
  BY DEF Sane
<1>3. Fitted(nodes, declared', <<>> \o Tail(control), SubSeq(locals, 1, Len(locals) - 0) \o <<>>)
  BY <1>2, HandsOn
<1>4. Tail(control) \in Seq(Activation)
  BY <1>2, HeadTaken, RecordsActive
<1>5. control' = Tail(control)
  BY <1>1, <1>4
<1>6. SeenFrames' = SeenFrames
  BY <1>5, FramesNow DEF SeenFrames
<1> QED
  BY <1>1, <1>3, <1>6

\* Where the scopes are as before, ScopeStack sees no step.
LEMMA ScopesSame ==
  ASSUME Sane, InSameScopes, UNCHANGED <<nodes, status>>, Fitted(nodes', declared', control', locals')
  PROVE  /\ Sane'
         /\ UNCHANGED <<SeenTables, currIdx, SeenHeight, SeenDeclared, SeenStatus>>
<1>1. UNCHANGED <<valueStack, symTables, currIdx, declared>>
  BY DEF InSameScopes, scopes
<1>2. Sane'
  BY <1>1 DEF Sane
<1>3. SeenTables' = SeenTables /\ SeenDeclared' = SeenDeclared
  BY <1>1, SeenNow, SeenNext
<1> QED
  BY <1>1, <1>2, <1>3 DEF SeenHeight, SeenStatus

Quiet == Sane' /\ UNCHANGED SP!vars

LEMMA QuietStep ==
  ASSUME Sane, control # <<>>, ~ IsEnd(Head(control)),
         NEW n, n = Len(Pops(nodes, Head(control))), NEW r, NEW x, NEW us,
         Passes(nodes, r, x, Pushes(nodes, Head(control))), Filled(declared, x, us),
         Same(r, n, us)
  PROVE  Quiet
<1>1. declared' = declared /\ InSameScopes /\ Continue(r, n, us)
  BY DEF Same, InSameScopes
<1>2. /\ Fitted(nodes', declared', control', locals') /\ SeenFrames' = SeenFrames
      /\ nodes' = nodes /\ status' = status
  BY <1>1, WentOn
<1> QED
  BY <1>1, <1>2, ScopesSame DEF Quiet, SP!vars

LEMMA HandOnStep ==
  ASSUME Sane, control # <<>>, ~ IsEnd(Head(control)),
         LET m == Len(locals) - Len(Pops(nodes, Head(control)))
         IN  Filled(declared, Pushes(nodes, Head(control)), SubSeq(locals, m + 1, Len(locals))),
         Same(<<>>, 0, <<>>)
  PROVE  Quiet
<1>1. declared' = declared /\ InSameScopes /\ Continue(<<>>, 0, <<>>)
  BY DEF Same, InSameScopes
<1>2. /\ Fitted(nodes', declared', control', locals') /\ SeenFrames' = SeenFrames
      /\ nodes' = nodes /\ status' = status
  BY <1>1, HandedOn
<1> QED
  BY <1>1, <1>2, ScopesSame DEF Quiet, SP!vars

\* What every step of the interpreter has to be.
Simulated == Sane' /\ [SP!Unbounded]_(SP!vars)

LEMMA QuietSimulated == Quiet => Simulated
  BY DEF Quiet, Simulated

LEMMA AtRestFitted == \A nds, funcs : Fitted(nds, funcs, <<>>, <<>>)
<1> SUFFICES ASSUME NEW nds, NEW funcs PROVE Fitted(nds, funcs, <<>>, <<>>)
  OBVIOUS
<1>1. <<>> \in Seq(Kinds) /\ <<>> \in Seq(Records(nds))
  OBVIOUS
<1>2. Leads(nds, 0, <<>>, <<>>, <<>>) /\ Filled(funcs, <<>>, <<>>)
  BY <1>1, LeadsNil, FilledNone
<1> QED
  BY <1>1, <1>2 DEF Fitted

LEMMA CrashStep ==
  ASSUME Sane, Running, Crash
  PROVE  Simulated
<1>1. /\ UNCHANGED <<nodes, control, locals, valueStack, symTables, currIdx, declared>>
      /\ status = "running" /\ status' = "crashed"
  BY DEF Crash, Running, scopes
<1>2. Sane'
  BY <1>1 DEF Sane
<1>3. SeenTables' = SeenTables /\ SeenDeclared' = SeenDeclared
  BY <1>1, SeenNow, SeenNext
<1>4. SP!NullDereference
  BY <1>1, <1>3 DEF SP!NullDereference, SP!Running, SeenStatus, SeenFrames, SeenHeight
<1> QED
  BY <1>2, <1>4 DEF Simulated, SP!Unbounded, SP!Next

LEMMA Thrown ==
  ASSUME Sane, Running, NEW how \in {"error", "terminated"}, Throw(how)
  PROVE  /\ Sane' /\ SeenStatus = "running" /\ SeenStatus' = how /\ SeenFrames' = <<>>
         /\ UNCHANGED <<SeenTables, currIdx, SeenHeight, SeenDeclared>>
<1>1. /\ UNCHANGED <<nodes, valueStack, symTables, currIdx, declared>>
      /\ control' = <<>> /\ locals' = <<>> /\ status = "running" /\ status' = how
  BY DEF Throw, InSameScopes, Running, scopes
<1>2. Fitted(nodes', declared', control', locals')
  BY <1>1, AtRestFitted
<1>3. Sane'
  BY <1>1, <1>2 DEF Sane
<1>4. SeenTables' = SeenTables /\ SeenDeclared' = SeenDeclared
  BY <1>1, SeenNow, SeenNext
<1>5. SeenFrames' = <<>>
  BY <1>1, ActiveEmpty DEF SeenFrames
<1> QED
  BY <1>1, <1>3, <1>4, <1>5 DEF SeenStatus, SeenHeight

LEMMA ErrorStep ==
  ASSUME Sane, Running, Throw("error")
  PROVE  Simulated
<1>1. /\ Sane' /\ SeenStatus = "running" /\ SeenStatus' = "error" /\ SeenFrames' = <<>>
      /\ UNCHANGED <<SeenTables, currIdx, SeenHeight, SeenDeclared>>
  BY Thrown
<1>2. SP!TypeError
  BY <1>1 DEF SP!TypeError, SP!Running
<1> QED
  BY <1>1, <1>2 DEF Simulated, SP!Unbounded, SP!Next

LEMMA LeftStep ==
  ASSUME Sane, Running, \A i \in 1 .. Len(control) : control[i].do # "call", Throw("terminated")
  PROVE  Simulated
<1>1. /\ Sane' /\ SeenStatus = "running" /\ SeenStatus' = "terminated" /\ SeenFrames' = <<>>
      /\ UNCHANGED <<SeenTables, currIdx, SeenHeight, SeenDeclared>>
  BY Thrown
<1>2. control \in Seq(Activation)
  BY RecordsActive DEF Sane, Fitted
<1>3. SP!CallFrames = {}
  <2>1. \A j \in 1 .. Len(Active(control)) : Active(control)[j].kind # "call"
    BY <1>2, ActiveNoCall
  <2>2. SeenFrames \in Seq(ActiveFrame)
    <3>1. \E t : IsTable(t, control)
      BY <1>2, TableExists
    <3> QED
      BY <1>2, <3>1, ActiveIs DEF SeenFrames
  <2>3. DOMAIN SeenFrames = 1 .. Len(SeenFrames)
    BY <2>2
  <2> QED
    BY <2>1, <2>3 DEF SP!CallFrames, SeenFrames
<1>4. SP!TopLevelReturn
  BY <1>1, <1>3 DEF SP!TopLevelReturn, SP!Running
<1> QED
  BY <1>1, <1>4 DEF Simulated, SP!Unbounded, SP!Next

(***************************************************************************)
(* Visitors that touch no scope.                                           *)
(***************************************************************************)

LEMMA HeadFacts ==
  ASSUME Sane, control # <<>>
  PROVE  LET head == Head(control)
         IN  /\ head \in Activation /\ head \in Records(nodes) /\ Runnable(nodes)
             /\ head.do \in {"execute", "evaluate", "resume"} => head.node \in Nat
             /\ head.do = "execute" => StmtAt(nodes, head.node)
             /\ head.do = "evaluate" => ExprAt(nodes, head.node)
             /\ head.do = "resume" => /\ head.node \in 1 .. Len(nodes)
                                      /\ nodes[head.node].kind \in Resumed
                                      /\ head = Resume(head.node)
<1>1. Runnable(nodes) /\ Fitted(nodes, declared, control, locals)
  BY DEF Sane
<1>2. Head(control) \in Records(nodes)
  BY <1>1, HeadTaken
<1>3. Head(control) \in Activation /\ Placed(nodes, Head(control))
  BY <1>2 DEF Records
<1> QED
  BY <1>1, <1>2, <1>3 DEF Activation, Placed, Resume

\* A visitor that begins.
LEMMA VisitFacts ==
  ASSUME Sane, NEW kind, Visit(kind)
  PROVE  LET head == Head(control)
         IN  /\ control # <<>> /\ ~ IsEnd(head) /\ Running /\ Runnable(nodes)
             /\ head.node \in 1 .. Len(nodes) /\ nodes[head.node].kind = kind /\ Self = nodes[head.node]
             /\ Pops(nodes, head) = <<>>
             /\ Pushes(nodes, head) = IF kind \in ExprKind THEN Anything ELSE <<>>
<1>1. /\ control # <<>> /\ Running /\ Head(control).do \in {"execute", "evaluate"}
      /\ Head(control).node # 0 /\ Self.kind = kind /\ Self = nodes[Head(control).node]
  BY DEF Visit, Doing, Self
<1>2. CASE Head(control).do = "execute"
  <2>1. StmtAt(nodes, Head(control).node)
    BY <1>1, <1>2, HeadFacts
  <2>2. Head(control).node \in 1 .. Len(nodes) /\ kind \notin ExprKind
    BY <1>1, <2>1 DEF StmtAt, IsStmt
  <2> QED
    BY <1>1, <1>2, <2>2, HeadFacts DEF IsEnd, Pops, Pushes
<1>3. CASE Head(control).do = "evaluate"
  <2>1. ExprAt(nodes, Head(control).node)
    BY <1>1, <1>3, HeadFacts
  <2>2. Head(control).node \in 1 .. Len(nodes) /\ kind \in ExprKind
    BY <1>1, <2>1 DEF ExprAt, IsExpr
  <2> QED
    BY <1>1, <1>3, <2>2, HeadFacts DEF IsEnd, Pops, Pushes
<1> QED
  BY <1>1, <1>2, <1>3

\* A visitor that goes on, with what its operands left in the locals.
LEMMA BackFacts ==
  ASSUME Sane, NEW kind, Back(kind)
  PROVE  LET head == Head(control)
         IN  /\ control # <<>> /\ ~ IsEnd(head) /\ Running /\ Runnable(nodes)
             /\ head.node \in 1 .. Len(nodes) /\ nodes[head.node].kind = kind /\ Self = nodes[head.node]
             /\ head = Resume(head.node) /\ kind \in Resumed
             /\ kind \notin {"Binary", "Call"} => Pops(nodes, head) = Anything
             /\ kind = "Binary" => Pops(nodes, head) = <<"any", "any">>
             /\ kind = "Call" => Pops(nodes, head) = CalleeAnd(Len(Self.args))
             /\ Pushes(nodes, head) = IF kind \in ExprKind THEN Anything ELSE <<>>
<1>1. /\ control # <<>> /\ Running /\ Head(control).do = "resume"
      /\ Self.kind = kind /\ Self = nodes[Head(control).node]
  BY DEF Back, Doing, Self
<1>2. /\ Head(control).node \in 1 .. Len(nodes) /\ kind \in Resumed /\ Runnable(nodes)
      /\ Head(control) = Resume(Head(control).node)
  BY <1>1, HeadFacts
<1>3. ~ IsEnd(Head(control))
  BY <1>1 DEF IsEnd
<1> QED
  BY <1>1, <1>2, <1>3, ResumeEffect

\* The value that the visitor of an operand left last.
LEMMA LastHeld ==
  ASSUME Sane, control # <<>>, Pops(nodes, Head(control)) = Anything
  PROVE  /\ locals # <<>> /\ Last(locals) \in Local(declared) /\ Len(locals) \in Nat
         /\ Len(locals) - 1 \in Nat
         /\ LET m == Len(locals) - Len(Pops(nodes, Head(control)))
            IN  /\ Filled(declared, Anything, SubSeq(locals, m + 1, Len(locals)))
                /\ SubSeq(locals, m + 1, Len(locals))[1] = Last(locals)
<1>1. Runnable(nodes) /\ Fitted(nodes, declared, control, locals)
  BY DEF Sane
<1> DEFINE m == Len(locals) - 1
           held == SubSeq(locals, m + 1, Len(locals))
<1>2. /\ m \in Nat /\ Len(locals) \in Nat /\ locals \in Seq(Local(declared))
      /\ Filled(declared, Anything, held) /\ \A i \in 1 .. 1 : held[i] = locals[m + i]
  <2> DEFINE p == Len(Pops(nodes, Head(control)))
             l == Len(locals) - p
             rest == SubSeq(locals, l + 1, Len(locals))
  <2>1. l \in Nat /\ Len(locals) \in Nat /\ locals \in Seq(Local(declared))
    BY <1>1, HeadTaken
  <2>2. Filled(declared, Pops(nodes, Head(control)), rest)
    BY <1>1, HeadTaken
  <2>3. \A i \in 1 .. p : rest[i] = locals[l + i]
    BY <1>1, HeadTaken
  <2>4. p = 1
    BY NoKinds
  <2> QED
    BY <2>1, <2>2, <2>3, <2>4
<1>3. held[1] = locals[Len(locals)]
  BY <1>2
<1> HIDE DEF held
<1>4. locals # <<>> /\ Last(locals) = locals[Len(locals)] /\ locals[Len(locals)] \in Local(declared)
  BY <1>2 DEF Last
<1> QED
  BY <1>2, <1>3, <1>4, NoKinds DEF held

LEMMA VisitStep ==
  ASSUME Sane, NEW kind, Visit(kind), NEW r,
         Passes(nodes, r, <<>>, IF kind \in ExprKind THEN Anything ELSE <<>>), Same(r, 0, <<>>)
  PROVE  Simulated
<1>1. /\ control # <<>> /\ ~ IsEnd(Head(control)) /\ Pops(nodes, Head(control)) = <<>>
      /\ Pushes(nodes, Head(control)) = IF kind \in ExprKind THEN Anything ELSE <<>>
  BY VisitFacts
<1>2. 0 = Len(Pops(nodes, Head(control))) /\ Filled(declared, <<>>, <<>>)
  BY <1>1, FilledNone, NoKinds
<1> QED
  BY <1>1, <1>2, QuietStep, QuietSimulated

\* The visitor of a constant, or of a variable.
LEMMA FoundStep ==
  ASSUME Sane, NEW kind \in ExprKind, Visit(kind), NEW v \in Local(declared), Same(<<>>, 0, <<v>>)
  PROVE  Simulated
<1>1. /\ control # <<>> /\ ~ IsEnd(Head(control)) /\ Pops(nodes, Head(control)) = <<>>
      /\ Pushes(nodes, Head(control)) = Anything
  BY VisitFacts
<1>2. 0 = Len(Pops(nodes, Head(control))) /\ Filled(declared, Anything, <<v>>)
  BY <1>1, FilledOne, NoKinds
<1>3. Passes(nodes, <<>>, Anything, Anything)
  BY PassesNone, NoKinds
<1> QED
  BY <1>1, <1>2, <1>3, QuietStep, QuietSimulated

LEMMA BackStep ==
  ASSUME Sane, NEW kind, Back(kind), kind \notin {"Binary", "Call"}, NEW r, NEW x, NEW us,
         Passes(nodes, r, x, IF kind \in ExprKind THEN Anything ELSE <<>>),
         Filled(declared, x, us), Same(r, 1, us)
  PROVE  Simulated
<1>1. /\ control # <<>> /\ ~ IsEnd(Head(control)) /\ Pops(nodes, Head(control)) = Anything
      /\ Pushes(nodes, Head(control)) = IF kind \in ExprKind THEN Anything ELSE <<>>
  BY BackFacts
<1>2. 1 = Len(Pops(nodes, Head(control)))
  BY <1>1, NoKinds
<1> QED
  BY <1>1, <1>2, QuietStep, QuietSimulated

\* The visitor that goes on with one value of its own.
LEMMA AnswerStep ==
  ASSUME Sane, NEW kind \in ExprKind \ {"Binary", "Call"}, Back(kind), NEW v \in Local(declared),
         Same(<<>>, 1, <<v>>)
  PROVE  Simulated
<1>1. Passes(nodes, <<>>, Anything, Anything)
  BY PassesNone, NoKinds
<1>2. Filled(declared, Anything, <<v>>)
  BY FilledOne
<1> QED
  BY <1>1, <1>2, BackStep

\* The visitor that goes on with these records.
LEMMA FollowStep ==
  ASSUME Sane, NEW kind, Back(kind), kind \notin {"Binary", "Call"}, NEW r,
         Passes(nodes, r, <<>>, IF kind \in ExprKind THEN Anything ELSE <<>>), Same(r, 1, <<>>)
  PROVE  Simulated
  BY FilledNone, BackStep

LEMMA VisitNullStep == Sane /\ VisitNull => Simulated
<1> SUFFICES ASSUME Sane, VisitNull PROVE Simulated
  OBVIOUS
<1> DEFINE head == Head(control)
           us == IF head.do = "evaluate" THEN <<NoValue>> ELSE <<>>
           x == IF head.do = "evaluate" THEN Anything ELSE <<>>
<1>1. control # <<>> /\ head.do \in {"execute", "evaluate"} /\ Same(<<>>, 0, us)
  BY DEF VisitNull, Doing
<1>2. ~ IsEnd(head) /\ Pops(nodes, head) = <<>> /\ Pushes(nodes, head) = x
  BY <1>1 DEF IsEnd, Pops, Pushes
<1>3. Filled(declared, x, us)
  BY FilledOne, FilledNone DEF Local
<1>4. x \in Seq(Kinds) /\ 0 = Len(Pops(nodes, head))
  BY <1>2, NoKinds
<1>5. Passes(nodes, <<>>, x, x)
  BY <1>4, PassesNone
<1> HIDE DEF x, us
<1> QED
  BY <1>1, <1>2, <1>3, <1>4, <1>5, QuietStep, QuietSimulated

LEMMA VisitExprStmtStep == Sane /\ VisitExprStmt => Simulated
<1> SUFFICES ASSUME Sane, VisitExprStmt PROVE Simulated
  OBVIOUS
<1>1. Visit("ExprStmt") /\ Same(<<Evaluate(Self.expr), Discard>>, 0, <<>>)
  BY DEF VisitExprStmt
<1>2. Passes(nodes, <<Evaluate(Self.expr), Discard>>, <<>>, <<>>)
  BY <1>1, VisitFacts, PassesVisit
<1> QED
  BY <1>1, <1>2, VisitStep DEF ExprKind

LEMMA DiscardValueStep == Sane /\ DiscardValue => Simulated
<1> SUFFICES ASSUME Sane, DiscardValue PROVE Simulated
  OBVIOUS
<1>1. control # <<>> /\ Head(control).do = "discard" /\ Same(<<>>, 1, <<>>)
  BY DEF DiscardValue, Doing
<1>2. /\ ~ IsEnd(Head(control)) /\ Pops(nodes, Head(control)) = Anything
      /\ Pushes(nodes, Head(control)) = <<>>
  BY <1>1 DEF IsEnd, Pops, Pushes
<1>3. /\ 1 = Len(Pops(nodes, Head(control))) /\ Passes(nodes, <<>>, <<>>, <<>>)
      /\ Filled(declared, <<>>, <<>>)
  BY <1>2, NoKinds, PassesNone, FilledNone
<1> QED
  BY <1>1, <1>2, <1>3, QuietStep, QuietSimulated

LEMMA VisitIfStmtStep == Sane /\ VisitIfStmt => Simulated
<1>1. ASSUME Sane, Visit("If"), Same(<<Evaluate(Self.cond), Resume(Head(control).node)>>, 0, <<>>)
      PROVE  Simulated
  <2>1. Passes(nodes, <<Evaluate(Self.cond), Resume(Head(control).node)>>, <<>>, <<>>)
    BY <1>1, VisitFacts, PassesVisit
  <2> QED
    BY <1>1, <2>1, VisitStep DEF ExprKind
<1>2. ASSUME Sane, Back("If"), NEW to \in {Self.then, Self.else}, Same(<<Execute(to)>>, 1, <<>>)
      PROVE  Simulated
  <2>1. /\ Passes(nodes, <<Execute(Self.then)>>, <<>>, <<>>)
        /\ Passes(nodes, <<Execute(Self.else)>>, <<>>, <<>>)
    BY <1>2, BackFacts, PassesBack
  <2>2. Passes(nodes, <<Execute(to)>>, <<>>, <<>>)
    BY <1>2, <2>1
  <2> QED
    BY <1>2, <2>2, FollowStep DEF ExprKind
<1>3. ASSUME Sane, Back("If"), Crash PROVE Simulated
  BY <1>3, BackFacts, CrashStep
<1> QED
  BY <1>1, <1>2, <1>3 DEF VisitIfStmt

LEMMA VisitWhileStmtStep == Sane /\ VisitWhileStmt => Simulated
<1>1. ASSUME Sane, Visit("While"), Same(<<Evaluate(Self.cond), Resume(Head(control).node)>>, 0, <<>>)
      PROVE  Simulated
  <2>1. Passes(nodes, <<Evaluate(Self.cond), Resume(Head(control).node)>>, <<>>, <<>>)
    BY <1>1, VisitFacts, PassesVisit
  <2> QED
    BY <1>1, <2>1, VisitStep DEF ExprKind
<1>2. ASSUME Sane, Back("While"), Same(<<>>, 1, <<>>)
      PROVE  Simulated
  <2>1. Passes(nodes, <<>>, <<>>, <<>>)
    BY PassesNone, NoKinds
  <2> QED
    BY <1>2, <2>1, FollowStep DEF ExprKind
<1>3. ASSUME Sane, Back("While"),
             Same(<<Execute(Self.body), Evaluate(Self.cond), Head(control)>>, 1, <<>>)
      PROVE  Simulated
  <2>1. Passes(nodes, <<Execute(Self.body), Evaluate(Self.cond), Resume(Head(control).node)>>, <<>>, <<>>)
    BY <1>3, BackFacts, PassesBack
  <2>2. Head(control) = Resume(Head(control).node)
    BY <1>3, BackFacts
  <2>3. Passes(nodes, <<Execute(Self.body), Evaluate(Self.cond), Head(control)>>, <<>>, <<>>)
    BY <2>1, <2>2
  <2> QED
    BY <1>3, <2>3, FollowStep DEF ExprKind
<1>4. ASSUME Sane, Back("While"), Crash PROVE Simulated
  BY <1>4, BackFacts, CrashStep
<1> QED
  BY <1>1, <1>2, <1>3, <1>4 DEF VisitWhileStmt

LEMMA VisitForStmtStep == Sane /\ VisitForStmt => Simulated
<1>1. ASSUME Sane, Visit("For"),
             Same(<<Execute(Self.init), Evaluate(Self.cond), Resume(Head(control).node)>>, 0, <<>>)
      PROVE  Simulated
  <2>1. Passes(nodes, <<Execute(Self.init), Evaluate(Self.cond), Resume(Head(control).node)>>, <<>>, <<>>)
    BY <1>1, VisitFacts, PassesVisit
  <2> QED
    BY <1>1, <2>1, VisitStep DEF ExprKind
<1>2. ASSUME Sane, Back("For"), Same(<<>>, 1, <<>>)
      PROVE  Simulated
  <2>1. Passes(nodes, <<>>, <<>>, <<>>)
    BY PassesNone, NoKinds
  <2> QED
    BY <1>2, <2>1, FollowStep DEF ExprKind
<1>3. ASSUME Sane, Back("For"),
             Same(<<Execute(Self.body), Evaluate(Self.step), Discard,
                    Evaluate(Self.cond), Head(control)>>, 1, <<>>)
      PROVE  Simulated
  <2>1. Passes(nodes, <<Execute(Self.body), Evaluate(Self.step), Discard,
                        Evaluate(Self.cond), Resume(Head(control).node)>>, <<>>, <<>>)
    BY <1>3, BackFacts, PassesBack
  <2>2. Head(control) = Resume(Head(control).node)
    BY <1>3, BackFacts
  <2>3. Passes(nodes, <<Execute(Self.body), Evaluate(Self.step), Discard,
                        Evaluate(Self.cond), Head(control)>>, <<>>, <<>>)
    BY <2>1, <2>2
  <2> QED
    BY <1>3, <2>3, FollowStep DEF ExprKind
<1>4. ASSUME Sane, Back("For"), Crash PROVE Simulated
  BY <1>4, BackFacts, CrashStep
<1> QED
  BY <1>1, <1>2, <1>3, <1>4 DEF VisitForStmt

LEMMA VisitLiteralExprStep == Sane /\ VisitLiteralExpr => Simulated
<1> SUFFICES ASSUME Sane, VisitLiteralExpr PROVE Simulated
  OBVIOUS
<1>1. Visit("Literal") /\ Same(<<>>, 0, <<Self.value>>)
  BY DEF VisitLiteralExpr
<1>2. Self.value \in Local(declared)
  BY <1>1, VisitFacts, NodeFields DEF Local
<1> QED
  BY <1>1, <1>2, FoundStep DEF ExprKind

LEMMA VisitGroupingExprStep == Sane /\ VisitGroupingExpr => Simulated
<1> SUFFICES ASSUME Sane, VisitGroupingExpr PROVE Simulated
  OBVIOUS
<1>1. Visit("Grouping") /\ Same(<<Evaluate(Self.expr)>>, 0, <<>>)
  BY DEF VisitGroupingExpr
<1>2. Passes(nodes, <<Evaluate(Self.expr)>>, <<>>, Anything)
  BY <1>1, VisitFacts, PassesVisit
<1> QED
  BY <1>1, <1>2, VisitStep DEF ExprKind

\* The value of an operator is a primitive one, or there is none.
LEMMA OperatorsGive ==
  /\ \A b \in BOOLEAN : Bool(b) \in Value
  /\ \A v \in Value : Negated(v) \in Value
  /\ \A v, w \in Value, op \in BinaryOp : InterpreterBinary(op, v, w) \in Value \cup {TypeError}
<1>1. \A n \in Number : Num(n) \in Value
  BY DEF Num, Value
<1>2. \A s \in String : Str(s) \in Value
  BY DEF Str, Value
<1>3. ASSUME NEW b PROVE Bool(b) \in Value
  BY DEF Bool, Value
<1>4. \A v \in Value : AsNumber(v) \in Number /\ (v.kind = "String" => v.val \in String)
  BY NumberAssumption DEF Value, AsNumber, Null, Undefined
<1>5. \A v, w \in Value, op \in ArithOp : Arithmetic(op, v, w) \in Value
  BY <1>1, <1>4, NumberAssumption DEF Arithmetic
<1>6. \A v \in Value : Negated(v) \in Value
  BY <1>1, <1>4, NumberAssumption DEF Negated, ArithOp
<1>7. ASSUME NEW v \in Value, NEW w \in Value
      PROVE  InterpreterPlus(v, w) \in Value \cup {TypeError}
  <2>1. CASE {v.kind, w.kind} = {"Number"}
    BY <1>5, <2>1 DEF InterpreterPlus, ArithOp
  <2>2. CASE {v.kind, w.kind} # {"Number"} /\ "String" \in {v.kind, w.kind}
    <3> DEFINE s == IF v.kind = "String" THEN v.val ELSE Text(v)
               t == IF w.kind = "String" THEN w.val ELSE Text(w)
    <3>1. s \in String /\ t \in String
      BY <1>4, StringAssumption
    <3>2. Concat(s, t) \in String
      BY <3>1, StringAssumption
    <3>3. InterpreterPlus(v, w) = Str(Concat(s, t))
      BY <2>2 DEF InterpreterPlus
    <3> QED
      BY <1>2, <3>2, <3>3
  <2>3. CASE {v.kind, w.kind} # {"Number"} /\ "String" \notin {v.kind, w.kind}
    BY <2>3 DEF InterpreterPlus
  <2> QED
    BY <2>1, <2>2, <2>3
<1>8. ASSUME NEW v \in Value, NEW w \in Value, NEW op \in BinaryOp
      PROVE  InterpreterBinary(op, v, w) \in Value \cup {TypeError}
  <2>1. CASE op = "Plus"
    BY <1>7, <2>1 DEF InterpreterBinary
  <2>2. CASE op \in ArithOp \ {"Plus"}
    BY <1>5, <2>2 DEF InterpreterBinary, ArithOp
  <2>3. CASE op \notin ArithOp
    BY <1>3, <2>3 DEF InterpreterBinary, ArithOp, BinaryOp
  <2> QED
    BY <2>1, <2>2, <2>3 DEF ArithOp
<1> QED
  BY <1>3, <1>6, <1>8

LEMMA VisitUnaryExprStep == Sane /\ VisitUnaryExpr => Simulated
<1>1. ASSUME Sane, Visit("Unary"), Same(<<Evaluate(Self.right), Resume(Head(control).node)>>, 0, <<>>)
      PROVE  Simulated
  <2>1. Passes(nodes, <<Evaluate(Self.right), Resume(Head(control).node)>>, <<>>, Anything)
    BY <1>1, VisitFacts, PassesVisit
  <2> QED
    BY <1>1, <2>1, VisitStep DEF ExprKind
<1>2. ASSUME Sane, Back("Unary"), Crash PROVE Simulated
  BY <1>2, BackFacts, CrashStep
<1>3. ASSUME Sane, Back("Unary"), Same(<<>>, 1, <<Bool(~ Truthy(Last(locals)))>>) PROVE Simulated
  <2>1. Bool(~ Truthy(Last(locals))) \in Local(declared)
    BY OperatorsGive DEF Local, Truthy, IsTruthy
  <2> QED
    BY <1>3, <2>1, AnswerStep DEF ExprKind
<1>4. ASSUME Sane, Back("Unary"), Basic(Last(locals)), Same(<<>>, 1, <<Negated(Last(locals))>>)
      PROVE  Simulated
  <2>1. Last(locals) \in Local(declared)
    BY <1>4, BackFacts, LastHeld
  <2>2. Last(locals) \in Value
    BY <1>4, <2>1, LocalFacts
  <2>3. Negated(Last(locals)) \in Local(declared)
    BY <2>2, OperatorsGive DEF Local
  <2> QED
    BY <1>4, <2>3, AnswerStep DEF ExprKind
<1> QED
  BY <1>1, <1>2, <1>3, <1>4 DEF VisitUnaryExpr

\* The operands of a binary operator.
LEMMA TwoHeld ==
  ASSUME Sane, Back("Binary")
  PROVE  Held(2)[1] \in Local(declared) /\ Held(2)[2] \in Local(declared)
<1>1. control # <<>> /\ Pops(nodes, Head(control)) = <<"any", "any">>
  BY BackFacts
<1>2. Runnable(nodes) /\ Fitted(nodes, declared, control, locals)
  BY DEF Sane
<1> DEFINE p == Len(Pops(nodes, Head(control)))
           l == Len(locals) - p
           rest == SubSeq(locals, l + 1, Len(locals))
<1>3. l \in Nat /\ Len(locals) \in Nat /\ locals \in Seq(Local(declared))
  BY <1>1, <1>2, HeadTaken
<1>4. \A i \in 1 .. p : rest[i] = locals[l + i]
  BY <1>1, <1>2, HeadTaken
<1>5. p = 2
  BY <1>1
<1>6. Held(2) = rest
  BY <1>5 DEF Held
<1> HIDE DEF p, l, rest
<1>7. rest[1] = locals[l + 1] /\ rest[2] = locals[l + 2]
  BY <1>4, <1>5
<1>8. l + 1 \in 1 .. Len(locals) /\ l + 2 \in 1 .. Len(locals)
  <2>1. Len(locals) = l + 2
    BY <1>3, <1>5 DEF l
  <2> QED
    BY <1>3, <2>1
<1>9. locals[l + 1] \in Local(declared) /\ locals[l + 2] \in Local(declared)
  BY <1>3, <1>8, ElementOfSeq
<1> QED
  BY <1>6, <1>7, <1>9

LEMMA VisitBinaryExprStep == Sane /\ VisitBinaryExpr => Simulated
<1> DEFINE r == <<Evaluate(Self.left), Evaluate(Self.right), Resume(Head(control).node)>>
           v == Held(2)[1]
           w == Held(2)[2]
           z == InterpreterBinary(Self.op, v, w)
<1>1. ASSUME Sane, Visit("Binary"), Same(r, 0, <<>>) PROVE Simulated
  <2>1. Passes(nodes, r, <<>>, Anything)
    BY <1>1, VisitFacts, PassesVisit
  <2> QED
    BY <1>1, <2>1, VisitStep DEF ExprKind
<1>2. ASSUME Sane, Back("Binary"), Crash PROVE Simulated
  BY <1>2, BackFacts, CrashStep
<1>3. ASSUME Sane, Back("Binary"), Throw("error") PROVE Simulated
  BY <1>3, BackFacts, ErrorStep
<1>4. ASSUME Sane, Back("Binary"), Basic(v), Basic(w), z # TypeError, Same(<<>>, 2, <<z>>)
      PROVE  Simulated
  <2>1. v \in Value /\ w \in Value
    BY <1>4, TwoHeld, LocalFacts
  <2>2. Self.op \in BinaryOp
    BY <1>4, BackFacts, NodeFields
  <2>3. z \in Local(declared)
    BY <1>4, <2>1, <2>2, OperatorsGive DEF Local
  <2>4. /\ control # <<>> /\ ~ IsEnd(Head(control)) /\ Pops(nodes, Head(control)) = <<"any", "any">>
        /\ Pushes(nodes, Head(control)) = Anything
    BY <1>4, BackFacts DEF ExprKind
  <2>5. 2 = Len(Pops(nodes, Head(control)))
    BY <2>4
  <2>6. Passes(nodes, <<>>, Anything, Anything)
    BY PassesNone, NoKinds
  <2> HIDE DEF z
  <2>7. Filled(declared, Anything, <<z>>)
    BY <2>3, FilledOne
  <2> QED
    BY <1>4, <2>4, <2>5, <2>6, <2>7, QuietStep, QuietSimulated
<1> QED
  BY <1>1, <1>2, <1>3, <1>4 DEF VisitBinaryExpr

LEMMA VisitLogicalExprStep == Sane /\ VisitLogicalExpr => Simulated
<1>1. ASSUME Sane, Visit("Logical"), Same(<<Evaluate(Self.left), Resume(Head(control).node)>>, 0, <<>>)
      PROVE  Simulated
  <2>1. Passes(nodes, <<Evaluate(Self.left), Resume(Head(control).node)>>, <<>>, Anything)
    BY <1>1, VisitFacts, PassesVisit
  <2> QED
    BY <1>1, <2>1, VisitStep DEF ExprKind
<1>2. ASSUME Sane, Back("Logical"), Crash PROVE Simulated
  BY <1>2, BackFacts, CrashStep
<1>3. ASSUME Sane, Back("Logical"), Same(<<>>, 1, <<Last(locals)>>) PROVE Simulated
  <2>1. Last(locals) \in Local(declared)
    BY <1>3, BackFacts, LastHeld
  <2> QED
    BY <1>3, <2>1, AnswerStep DEF ExprKind
<1>4. ASSUME Sane, Back("Logical"), Same(<<Evaluate(Self.right)>>, 1, <<>>) PROVE Simulated
  <2>1. Passes(nodes, <<Evaluate(Self.right)>>, <<>>, Anything)
    BY <1>4, BackFacts, PassesBack
  <2> QED
    BY <1>4, <2>1, FollowStep DEF ExprKind
<1> QED
  BY <1>1, <1>2, <1>3, <1>4 DEF VisitLogicalExpr

LEMMA AssertCalleeStep == Sane /\ AssertCallee => Simulated
<1> SUFFICES ASSUME Sane, AssertCallee PROVE Simulated
  OBVIOUS
<1>1. control # <<>> /\ Running /\ Head(control).do = "checkCallee" /\ (Crash \/ Same(<<>>, 0, <<>>))
  BY DEF AssertCallee, Doing
<1>2. /\ ~ IsEnd(Head(control)) /\ Pops(nodes, Head(control)) = Anything
      /\ Pushes(nodes, Head(control)) = Anything
  BY <1>1 DEF IsEnd, Pops, Pushes
<1>3. LET m == Len(locals) - Len(Pops(nodes, Head(control)))
      IN  Filled(declared, Pushes(nodes, Head(control)), SubSeq(locals, m + 1, Len(locals)))
  BY <1>1, <1>2, LastHeld
<1> QED
  BY <1>1, <1>2, <1>3, CrashStep, HandOnStep, QuietSimulated

LEMMA CopyArgumentStep == Sane /\ CopyArgument => Simulated
<1> SUFFICES ASSUME Sane, CopyArgument PROVE Simulated
  OBVIOUS
<1>1. /\ control # <<>> /\ Running /\ Head(control).do = "copyArg"
      /\ Crash \/ (Basic(Last(locals)) /\ Same(<<>>, 0, <<>>))
  BY DEF CopyArgument, Doing
<1>2. /\ ~ IsEnd(Head(control)) /\ Pops(nodes, Head(control)) = Anything
      /\ Pushes(nodes, Head(control)) = <<"basic">>
  BY <1>1 DEF IsEnd, Pops, Pushes
<1> DEFINE m == Len(locals) - Len(Pops(nodes, Head(control)))
           held == SubSeq(locals, m + 1, Len(locals))
<1>3. Filled(declared, Anything, held) /\ held[1] = Last(locals)
  BY <1>1, <1>2, LastHeld
<1> HIDE DEF held
<1>4. ASSUME Basic(Last(locals)) PROVE Filled(declared, Pushes(nodes, Head(control)), held)
  <2>1. held \in Seq(Local(declared)) /\ Len(held) = 1
    BY <1>3, NoKinds DEF Filled
  <2>2. \A i \in 1 .. Len(<<"basic">>) : i = 1
    OBVIOUS
  <2>3. Filled(declared, <<"basic">>, held)
    BY <1>3, <1>4, <2>1, <2>2 DEF Filled
  <2> QED
    BY <1>2, <2>3
<1> QED
  BY <1>1, <1>2, <1>4, CrashStep, HandOnStep, QuietSimulated DEF held

(***************************************************************************)
(* Visitors that read and write scopes.                                    *)
(***************************************************************************)

LEMMA TablesNow ==
  ASSUME InterpreterInv
  PROVE  /\ symTables # <<>> /\ currIdx \in Nat /\ Len(symTables) = currIdx + 1
         /\ Scope(currIdx).parent = currIdx - 1
         /\ SeenTables # <<>> /\ Len(SeenTables) = Len(symTables)
         /\ SeenTables \in Seq(Environments(Seen))
<1>1. Sane /\ SP!IndInv
  BY DEF InterpreterInv
<1>2. /\ SeenTables # <<>> /\ currIdx \in Nat /\ Len(SeenTables) = currIdx + 1
      /\ SP!Scope(currIdx).parent = currIdx - 1
  BY <1>1, ScopeAssumed, SP!CurrentScope
<1>3. /\ Runnable(nodes) /\ declared \subseteq Declarations(nodes)
      /\ symTables \in Seq(Environments(Kept(declared)))
  BY <1>1 DEF Sane
<1>4. /\ SeenTables = Picture(nodes, symTables) /\ Len(SeenTables) = Len(symTables)
      /\ SeenTables \in Seq(Environments(Seen))
      /\ \A i \in 1 .. Len(symTables) : SeenTables[i].parent = symTables[i].parent
  BY <1>3, PictureFacts, SeenNow
<1>5. currIdx + 1 \in 1 .. Len(symTables)
  BY <1>2, <1>4
<1>6. Scope(currIdx).parent = currIdx - 1
  BY <1>2, <1>4, <1>5 DEF Scope, SP!Scope
<1>7. symTables # <<>>
  BY <1>2, <1>4
<1> QED
  BY <1>2, <1>4, <1>6, <1>7

\* The walk of assign and resolve is ScopeStack's.
LEMMA HomeSeen ==
  ASSUME Sane, NEW n
  PROVE  SP!Home(n) = Home(n)
<1> DEFINE l == Len(symTables) - 1
           Walk(w) == w = [i \in -1 .. l |->
                             IF i = -1 \/ n \in DOMAIN Scope(i).values THEN i ELSE w[Scope(i).parent]]
           SeenWalk(w) == w = [i \in -1 .. Len(SeenTables) - 1 |->
                                 IF i = -1 \/ n \in DOMAIN SP!Scope(i).values THEN i
                                                                            ELSE w[SP!Scope(i).parent]]
<1>1. /\ Runnable(nodes) /\ declared \subseteq Declarations(nodes)
      /\ symTables \in Seq(Environments(Kept(declared)))
  BY DEF Sane
<1>2. /\ SeenTables = Picture(nodes, symTables) /\ Len(SeenTables) = Len(symTables)
      /\ \A i \in 1 .. Len(symTables) :
           /\ SeenTables[i].parent = symTables[i].parent
           /\ DOMAIN SeenTables[i].values = DOMAIN symTables[i].values
  BY <1>1, PictureFacts, SeenNow
<1>3. \A i \in -1 .. l : i # -1 => i + 1 \in 1 .. Len(symTables)
  BY <1>1
<1>4. \A i \in -1 .. l : i # -1 => /\ SP!Scope(i).parent = Scope(i).parent
                                   /\ DOMAIN SP!Scope(i).values = DOMAIN Scope(i).values
  BY <1>2, <1>3 DEF Scope, SP!Scope
<1>5. \A w : SeenWalk(w) <=> Walk(w)
  BY <1>2, <1>4
<1>6. (CHOOSE w : SeenWalk(w)) = (CHOOSE w : Walk(w))
  <2> HIDE DEF SeenWalk, Walk
  <2> QED
    BY <1>5
<1>7. Home(n) = (CHOOSE w : Walk(w))[currIdx]
  BY DEF Home
<1>8. SP!Home(n) = (CHOOSE w : SeenWalk(w))[currIdx]
  BY DEF SP!Home
<1> QED
  BY <1>6, <1>7, <1>8

LEMMA HomeFacts ==
  ASSUME InterpreterInv, NEW n \in String
  PROVE  /\ Home(n) \in Int /\ (Home(n) = -1 \/ Home(n) + 1 \in 1 .. Len(symTables))
         /\ Home(n) # -1 => n \in DOMAIN Scope(Home(n)).values
<1>1. Sane /\ SP!IndInv
  BY DEF InterpreterInv
<1>2. Home(n) = SP!Newest(n, currIdx)
  BY <1>1, ScopeAssumed, SP!HomeIsNewest, HomeSeen
<1> DEFINE I == SP!BindingScopes(n, currIdx)
<1>3. I \in SUBSET (0 .. Len(SeenTables) - 1) /\ \A b \in I : n \in DOMAIN SP!Scope(b).values
  BY DEF SP!BindingScopes
<1>4. Len(SeenTables) - 1 \in Nat /\ Len(SeenTables) = Len(symTables) /\ Len(symTables) \in Nat
  BY TablesNow
<1>5. CASE I = {}
  BY <1>2, <1>5 DEF SP!Newest
<1>6. CASE I # {}
  <2> HIDE DEF I
  <2>1. Max(I) \in I
    BY <1>3, <1>4, <1>6, MaxFacts
  <2>2. Home(n) \in I
    <3>1. SP!Newest(n, currIdx) = SP!Max(I)
      BY <1>6 DEF SP!Newest, I
    <3>2. SP!Max(I) = Max(I)
      BY DEF SP!Max, Max
    <3> QED
      BY <1>2, <2>1, <3>1, <3>2
  <2>3. Home(n) \in Int /\ Home(n) + 1 \in 1 .. Len(symTables)
    <3>1. Home(n) \in 0 .. Len(SeenTables) - 1
      BY <1>3, <2>2
    <3>2. PICK h \in 0 .. Len(SeenTables) - 1 : h = Home(n)
      BY <3>1
    <3>3. h \in Int /\ h + 1 \in 1 .. Len(symTables)
      BY <1>4
    <3> QED
      BY <3>2, <3>3
  <2>4. /\ Runnable(nodes) /\ declared \subseteq Declarations(nodes)
        /\ symTables \in Seq(Environments(Kept(declared)))
    BY <1>1 DEF Sane
  <2>5. DOMAIN SeenTables[Home(n) + 1].values = DOMAIN symTables[Home(n) + 1].values
    BY <2>3, <2>4, PictureFacts, SeenNow
  <2>6. n \in DOMAIN SeenTables[Home(n) + 1].values
    BY <1>3, <2>2 DEF SP!Scope
  <2> QED
    BY <2>3, <2>5, <2>6 DEF Scope
<1> QED
  BY <1>5, <1>6

LEMMA VisitVarExprStep == InterpreterInv /\ VisitVarExpr => Simulated
<1> SUFFICES ASSUME InterpreterInv, VisitVarExpr PROVE Simulated
  OBVIOUS
<1> DEFINE n == Self.name
<1>1. /\ Visit("Var") /\ Sane
      /\ Home(n) = -1 => Throw("error")
      /\ Home(n) # -1 => Same(<<>>, 0, <<Scope(Home(n)).values[n]>>)
  BY DEF VisitVarExpr, InterpreterInv
<1>2. Running /\ n \in String
  BY <1>1, VisitFacts, NodeFields
<1>3. CASE Home(n) = -1
  BY <1>1, <1>2, <1>3, ErrorStep
<1>4. CASE Home(n) # -1
  <2> DEFINE v == Scope(Home(n)).values[n]
  <2>1. Home(n) + 1 \in 1 .. Len(symTables) /\ n \in DOMAIN symTables[Home(n) + 1].values
    BY <1>2, <1>4, HomeFacts DEF Scope
  <2>2. /\ Runnable(nodes) /\ declared \subseteq Declarations(nodes)
        /\ symTables \in Seq(Environments(Kept(declared)))
    BY <1>1 DEF Sane
  <2>3. symTables[Home(n) + 1].values \in Tabled(Kept(declared))
    <3>1. PICK h \in 1 .. Len(symTables) : h = Home(n) + 1
      BY <2>1
    <3>2. symTables[h] \in Environments(Kept(declared))
      BY <2>2
    <3> QED
      BY <3>1, <3>2 DEF Environments
  <2>4. v \in Kept(declared)
    BY <2>1, <2>2, <2>3, ShownInFacts DEF Scope
  <2> HIDE DEF v
  <2>5. v \in Local(declared)
    BY <2>4 DEF Kept, Local
  <2>6. Same(<<>>, 0, <<v>>)
    BY <1>1, <1>4 DEF v
  <2> QED
    BY <1>1, <2>5, <2>6, FoundStep DEF ExprKind
<1> QED
  BY <1>3, <1>4

LEMMA KeptGrown ==
  ASSUME NEW funcs, NEW more, funcs \subseteq more
  PROVE  Seq(Environments(Kept(funcs))) \subseteq Seq(Environments(Kept(more)))
<1>1. Kept(funcs) \subseteq Kept(more)
  BY DEF Kept
<1>2. Tabled(Kept(funcs)) \subseteq Tabled(Kept(more))
  <2> SUFFICES ASSUME NEW values \in Tabled(Kept(funcs)) PROVE values \in Tabled(Kept(more))
    OBVIOUS
  <2>1. PICK bound \in SUBSET String : values \in [bound -> Kept(funcs)]
    BY DEF Tabled
  <2>2. values \in [bound -> Kept(more)]
    BY <1>1, <2>1
  <2> QED
    BY <2>2 DEF Tabled
<1>3. Environments(Kept(funcs)) \subseteq Environments(Kept(more))
  BY <1>2 DEF Environments
<1> HIDE DEF Environments
<1> QED
  BY <1>3

\* A name is bound in the scope at C++ index i.
LEMMA BoundSeen ==
  ASSUME Sane, UNCHANGED nodes, declared \subseteq declared', declared' \subseteq Declarations(nodes),
         NEW i \in Int, i + 1 \in 1 .. Len(symTables), NEW n \in String, NEW v \in Kept(declared'),
         symTables' = [symTables EXCEPT ![i + 1].values = Bind(@, n, v)]
  PROVE  /\ symTables' \in Seq(Environments(Kept(declared')))
         /\ SeenTables' = [SeenTables EXCEPT ![i + 1].values = SP!Bind(@, n, Shown(nodes, v))]
<1>1. Runnable(nodes) /\ symTables \in Seq(Environments(Kept(declared)))
  BY DEF Sane
<1>2. symTables \in Seq(Environments(Kept(declared')))
  BY <1>1, KeptGrown
<1>3. /\ symTables' \in Seq(Environments(Kept(declared')))
      /\ Picture(nodes, symTables') = Rebound(Picture(nodes, symTables), i + 1, n, Shown(nodes, v))
  <2>1. symTables' = Rebound(symTables, i + 1, n, v)
    BY DEF Rebound
  <2>2. PICK j \in 1 .. Len(symTables) : j = i + 1
    OBVIOUS
  <2>3. /\ Rebound(symTables, j, n, v) \in Seq(Environments(Kept(declared')))
        /\ Picture(nodes, Rebound(symTables, j, n, v))
             = Rebound(Picture(nodes, symTables), j, n, Shown(nodes, v))
    BY <1>1, <1>2, PictureBind
  <2> QED
    BY <2>1, <2>2, <2>3
<1>4. SeenTables' = [SeenTables EXCEPT ![i + 1].values = Bind(@, n, Shown(nodes, v))]
  BY <1>3, SeenNow, SeenNext DEF Rebound
<1> QED
  BY <1>3, <1>4 DEF Bind, SP!Bind

\* define, with a value or a function.
LEMMA DefineSeen ==
  ASSUME InterpreterInv, UNCHANGED nodes, declared \subseteq declared',
         declared' \subseteq Declarations(nodes), NEW n \in String, NEW v \in Kept(declared'),
         Running, SeenFrames' = SeenFrames, status' = status, DefineInScope(n, v)
  PROVE  /\ symTables' \in Seq(Environments(Kept(declared'))) /\ valueStack' = valueStack
         /\ SP!Define(n, Shown(nodes, v))
<1>1. /\ symTables' = [symTables EXCEPT ![currIdx + 1].values = Bind(@, n, v)]
      /\ currIdx' = currIdx /\ valueStack' = valueStack
  BY DEF DefineInScope
<1>2. Sane /\ currIdx \in Int /\ currIdx + 1 \in 1 .. Len(symTables)
  BY TablesNow DEF InterpreterInv
<1>3. /\ symTables' \in Seq(Environments(Kept(declared')))
      /\ SeenTables' = [SeenTables EXCEPT ![currIdx + 1].values = SP!Bind(@, n, Shown(nodes, v))]
  BY <1>1, <1>2, BoundSeen
<1>4. SP!Define(n, Shown(nodes, v))
  BY <1>1, <1>3 DEF SP!Define, SP!Running, Running, SeenStatus, SeenHeight
<1> QED
  BY <1>1, <1>3, <1>4

LEMMA VisitVarDeclStep == InterpreterInv /\ VisitVarDecl => Simulated
<1>1. ASSUME Sane, Visit("VarDecl"), Same(<<Evaluate(Self.init), Resume(Head(control).node)>>, 0, <<>>)
      PROVE  Simulated
  <2>1. Passes(nodes, <<Evaluate(Self.init), Resume(Head(control).node)>>, <<>>, <<>>)
    BY <1>1, VisitFacts, PassesVisit
  <2> QED
    BY <1>1, <2>1, VisitStep DEF ExprKind
<1>2. ASSUME Sane, Back("VarDecl"), Crash PROVE Simulated
  BY <1>2, BackFacts, CrashStep
<1>3. ASSUME InterpreterInv, Back("VarDecl"), Basic(Last(locals)),
             DefineInScope(Self.name, Last(locals)), Continue(<<>>, 1, <<>>), UNCHANGED declared
      PROVE  Simulated
  <2> DEFINE v == Last(locals)
  <2>1. Sane
    BY <1>3 DEF InterpreterInv
  <2>2. /\ control # <<>> /\ ~ IsEnd(Head(control)) /\ Running /\ Runnable(nodes)
        /\ Pops(nodes, Head(control)) = Anything /\ Pushes(nodes, Head(control)) = <<>>
    BY <1>3, <2>1, BackFacts DEF ExprKind
  <2>3. Self.name \in String
    BY <1>3, <2>1, BackFacts, NodeFields
  <2>4. v \in Value /\ v \in Kept(declared)
    BY <1>3, <2>1, <2>2, LastHeld, LocalFacts DEF Kept
  <2>5. /\ Passes(nodes, <<>>, <<>>, <<>>) /\ Filled(declared', <<>>, <<>>)
        /\ 1 = Len(Pops(nodes, Head(control))) /\ declared \subseteq declared'
    BY <1>3, <2>2, PassesNone, FilledNone, NoKinds
  <2> HIDE DEF v
  <2>6. /\ Fitted(nodes', declared', control', locals') /\ SeenFrames' = SeenFrames
        /\ nodes' = nodes /\ status' = status
    BY <1>3, <2>1, <2>2, <2>5, WentOn
  <2>7. declared' \subseteq Declarations(nodes) /\ v \in Kept(declared')
    BY <1>3, <2>1, <2>4 DEF Sane
  <2>8. DefineInScope(Self.name, v)
    BY <1>3 DEF v
  <2>9. /\ symTables' \in Seq(Environments(Kept(declared'))) /\ valueStack' = valueStack
        /\ SP!Define(Self.name, Shown(nodes, v))
    BY <1>3, <2>2, <2>3, <2>5, <2>6, <2>7, <2>8, DefineSeen
  <2>10. Shown(nodes, v) = v
    BY <2>1, <2>2, <2>4, ShownFacts DEF Sane
  <2>11. Sane'
    BY <1>3, <2>1, <2>6, <2>9 DEF Sane
  <2>12. SeenDeclared' = SeenDeclared
    BY <1>3, <2>6, SeenNow, SeenNext
  <2>13. SP!VarDecl(Self.name, v)
    BY <2>4, <2>9, <2>10, <2>12 DEF SP!VarDecl
  <2> QED
    BY <2>3, <2>4, <2>11, <2>13 DEF Simulated, SP!Unbounded, SP!Next
<1> QED
  BY <1>1, <1>2, <1>3 DEF VisitVarDecl, InterpreterInv

LEMMA VisitFuncDeclStep == InterpreterInv /\ VisitFuncDecl => Simulated
<1> SUFFICES ASSUME InterpreterInv, VisitFuncDecl PROVE Simulated
  OBVIOUS
<1> DEFINE k == Head(control).node
           v == Function(k)
           f == SigIn(nodes, k)
<1>1. /\ Visit("FuncDecl") /\ DefineInScope(Self.name, v) /\ Continue(<<>>, 0, <<>>)
      /\ declared' = declared \cup {k} /\ Sane
  BY DEF VisitFuncDecl, InterpreterInv
<1>2. /\ control # <<>> /\ ~ IsEnd(Head(control)) /\ Running /\ Runnable(nodes)
      /\ k \in 1 .. Len(nodes) /\ nodes[k].kind = "FuncDecl" /\ Self = nodes[k]
      /\ Pops(nodes, Head(control)) = <<>> /\ Pushes(nodes, Head(control)) = <<>>
  BY <1>1, VisitFacts DEF ExprKind
<1>3. Self.name \in String /\ k \in Declarations(nodes)
  BY <1>2, NodeFields DEF Declarations
<1> HIDE DEF k
<1>4. declared' \subseteq Declarations(nodes) /\ declared \subseteq declared' /\ v \in Kept(declared')
  BY <1>1, <1>3 DEF Sane, Kept
<1>5. /\ Passes(nodes, <<>>, <<>>, <<>>) /\ Filled(declared', <<>>, <<>>)
      /\ 0 = Len(Pops(nodes, Head(control)))
  BY <1>2, PassesNone, FilledNone, NoKinds
<1>6. /\ Fitted(nodes', declared', control', locals') /\ SeenFrames' = SeenFrames
      /\ nodes' = nodes /\ status' = status
  BY <1>1, <1>2, <1>4, <1>5, WentOn
<1> HIDE DEF v
<1>7. /\ symTables' \in Seq(Environments(Kept(declared'))) /\ valueStack' = valueStack
      /\ SP!Define(Self.name, Shown(nodes, v))
  BY <1>1, <1>2, <1>3, <1>4, <1>6, DefineSeen
<1>8. Shown(nodes, v) = f /\ f.name = Self.name /\ f \in Signatures
  BY <1>2, <1>3, SigFacts DEF v, Shown, Function, SigIn
<1>9. Sane'
  BY <1>1, <1>4, <1>6, <1>7 DEF Sane
<1>10. SeenDeclared' = SeenDeclared \cup {f}
  BY <1>1, <1>6, SeenNow, SeenNext
<1>11. SP!FuncDecl(f)
  BY <1>7, <1>8, <1>10 DEF SP!FuncDecl
<1> QED
  BY <1>8, <1>9, <1>11 DEF Simulated, SP!Unbounded, SP!Next

LEMMA VisitAssignExprStep == InterpreterInv /\ VisitAssignExpr => Simulated
<1>1. ASSUME Sane, Visit("Assign"), Same(<<Evaluate(Self.value), Resume(Head(control).node)>>, 0, <<>>)
      PROVE  Simulated
  <2>1. Passes(nodes, <<Evaluate(Self.value), Resume(Head(control).node)>>, <<>>, Anything)
    BY <1>1, VisitFacts, PassesVisit
  <2> QED
    BY <1>1, <2>1, VisitStep DEF ExprKind
<1>2. ASSUME Sane, Back("Assign"), Crash PROVE Simulated
  BY <1>2, BackFacts, CrashStep
<1>3. ASSUME Sane, Back("Assign"), Throw("error") PROVE Simulated
  BY <1>3, BackFacts, ErrorStep
<1>4. ASSUME InterpreterInv, Back("Assign"), Basic(Last(locals)), Home(Self.name) # -1,
             symTables' = [symTables EXCEPT ![Home(Self.name) + 1].values =
                             Bind(@, Self.name, Last(locals))],
             Continue(<<>>, 0, <<>>), UNCHANGED <<currIdx, valueStack, declared>>
      PROVE  Simulated
  <2> DEFINE v == Last(locals)
             n == Self.name
             h == Home(n)
             m == Len(locals) - Len(Pops(nodes, Head(control)))
  <2>1. Sane
    BY <1>4 DEF InterpreterInv
  <2>2. /\ control # <<>> /\ ~ IsEnd(Head(control)) /\ Running /\ Runnable(nodes)
        /\ Pops(nodes, Head(control)) = Anything /\ Pushes(nodes, Head(control)) = Anything
    BY <1>4, <2>1, BackFacts DEF ExprKind
  <2>3. n \in String
    BY <1>4, <2>1, BackFacts, NodeFields
  <2>4. v \in Value /\ v \in Kept(declared)
    BY <1>4, <2>1, <2>2, LastHeld, LocalFacts DEF Kept
  <2>5. Filled(declared', Pushes(nodes, Head(control)), SubSeq(locals, m + 1, Len(locals)))
    BY <1>4, <2>1, <2>2, LastHeld
  <2>6. /\ Fitted(nodes', declared', control', locals') /\ SeenFrames' = SeenFrames
        /\ nodes' = nodes /\ status' = status
    BY <1>4, <2>1, <2>2, <2>5, HandedOn
  <2> HIDE DEF v, n, m
  <2>7. h \in Int /\ h + 1 \in 1 .. Len(symTables)
    <3>1. h + 1 \in 1 .. Len(symTables) /\ h \in Int
      BY <1>4, <2>3, HomeFacts DEF n
    <3> QED
      BY <3>1
  <2>8. /\ declared \subseteq declared' /\ declared' \subseteq Declarations(nodes)
        /\ v \in Kept(declared')
    BY <1>4, <2>1, <2>4 DEF Sane
  <2> HIDE DEF h
  <2>9. symTables' = [symTables EXCEPT ![h + 1].values = Bind(@, n, v)]
    BY <1>4 DEF n, v, h
  <2>10. /\ symTables' \in Seq(Environments(Kept(declared')))
         /\ SeenTables' = [SeenTables EXCEPT ![h + 1].values = SP!Bind(@, n, Shown(nodes, v))]
    BY <2>1, <2>3, <2>6, <2>7, <2>8, <2>9, BoundSeen
  <2>11. Shown(nodes, v) = v
    BY <2>1, <2>2, <2>4, ShownFacts DEF Sane
  <2>12. Sane'
    BY <1>4, <2>1, <2>6, <2>10 DEF Sane
  <2>13. SeenDeclared' = SeenDeclared
    BY <1>4, <2>6, SeenNow, SeenNext
  <2>14. SP!Home(n) = h /\ h # -1
    BY <1>4, <2>1, HomeSeen DEF h, n
  <2>15. SP!AssignExpr(n, v)
    BY <1>4, <2>2, <2>6, <2>10, <2>11, <2>13, <2>14
    DEF SP!AssignExpr, SP!Running, Running, SeenStatus, SeenHeight
  <2> QED
    BY <2>3, <2>4, <2>12, <2>15 DEF Simulated, SP!Unbounded, SP!Next
<1> QED
  BY <1>1, <1>2, <1>3, <1>4 DEF VisitAssignExpr, InterpreterInv

(***************************************************************************)
(* Blocks and calls.                                                       *)
(***************************************************************************)

\* A body, with the record that ends it.
LEMMA ActiveBody ==
  ASSUME NEW c \in Seq(Activation), NEW q \in Seq(Activation),
         \A i \in 1 .. Len(q) : ~ IsEnd(q[i]), NEW item \in Activation, IsEnd(item)
  PROVE  Active((q \o <<item>>) \o c) = Append(Active(c), FrameOf(item))
<1> DEFINE one == <<item>>
           rest == one \o c
<1>1. /\ one \in Seq(Activation) /\ rest \in Seq(Activation) /\ rest # <<>>
      /\ Head(rest) = item /\ Tail(rest) = c
  OBVIOUS
<1>2. (q \o one) \o c = q \o rest
  OBVIOUS
<1> HIDE DEF one, rest
<1>3. Active(q \o rest) = Active(rest)
  BY <1>1, ActivePlain
<1>4. Active(rest) = Append(Active(c), FrameOf(item))
  BY <1>1, ActiveHead
<1> QED
  BY <1>2, <1>3, <1>4 DEF one

LEMMA ExecutesFacts ==
  ASSUME NEW nds, Runnable(nds), NEW stmts \in Seq(Nat), \A i \in 1 .. Len(stmts) : StmtAt(nds, stmts[i])
  PROVE  /\ Executes(stmts) \in Seq(Records(nds)) /\ Executes(stmts) \in Seq(Activation)
         /\ \A i \in 1 .. Len(Executes(stmts)) : /\ Executes(stmts)[i].do = "execute"
                                                 /\ ~ IsEnd(Executes(stmts)[i])
<1> DEFINE q == Executes(stmts)
<1>1. \A i \in 1 .. Len(stmts) : Execute(stmts[i]) \in Records(nds) /\ Execute(stmts[i]).do = "execute"
  BY RecordsMade
<1>2. DOMAIN stmts = 1 .. Len(stmts) /\ Len(stmts) \in Nat
  OBVIOUS
<1>3. q \in [1 .. Len(stmts) -> Records(nds)] /\ \A i \in 1 .. Len(stmts) : q[i] = Execute(stmts[i])
  BY <1>1, <1>2 DEF Executes
<1> HIDE DEF q
<1>4. q \in Seq(Records(nds)) /\ Len(q) = Len(stmts)
  BY <1>2, <1>3, LenProperties
<1>5. q \in Seq(Activation)
  BY <1>4, RecordsActive
<1>6. \A i \in 1 .. Len(q) : q[i].do = "execute" /\ ~ IsEnd(q[i])
  BY <1>1, <1>3, <1>4 DEF IsEnd
<1> QED
  BY <1>4, <1>5, <1>6 DEF q

\* The body of a block or a function begins in control.
LEMMA BodyEntered ==
  ASSUME Sane, control # <<>>, ~ IsEnd(Head(control)),
         NEW stmts \in Seq(Nat), \A i \in 1 .. Len(stmts) : StmtAt(nodes, stmts[i]),
         NEW item \in Activation, IsEnd(item), Pushes(nodes, item) = Pushes(nodes, Head(control)),
         NEW m \in Nat, m = Len(locals) - Len(Pops(nodes, Head(control))),
         item.do = "call" => item.held = m
  PROVE  /\ Fitted(nodes, declared, (Executes(stmts) \o <<item>>) \o Tail(control), SubSeq(locals, 1, m))
         /\ Active((Executes(stmts) \o <<item>>) \o Tail(control)) = Append(SeenFrames, FrameOf(item))
<1> DEFINE q == Executes(stmts)
           r == q \o <<item>>
<1>1. Runnable(nodes) /\ Fitted(nodes, declared, control, locals)
  BY DEF Sane
<1>2. /\ q \in Seq(Records(nodes)) /\ q \in Seq(Activation)
      /\ \A i \in 1 .. Len(q) : q[i].do = "execute" /\ ~ IsEnd(q[i])
  BY <1>1, ExecutesFacts
<1>3. item \in Records(nodes)
  BY DEF Records, Placed, IsEnd
<1> HIDE DEF q
<1>4. Leads(nodes, m, r, <<>>, Pushes(nodes, Head(control)))
  BY <1>2, <1>3, LeadsBody
<1>5. r \in Seq(Records(nodes))
  <2>1. <<item>> \in Seq(Records(nodes))
    BY <1>3
  <2> QED
    BY <1>2, <2>1, ConcatProperties
<1> HIDE DEF r
<1>6. Fitted(nodes, declared, r \o Tail(control), SubSeq(locals, 1, m) \o <<>>)
  <2> DEFINE head == Head(control)
             p == Len(Pops(nodes, head))
             l == Len(locals) - p
  <2>1. \A t \in Seq(Records(nodes)), x \in Seq(Kinds) : \A more, us :
          /\ declared \subseteq more
          /\ Leads(nodes, l, t, x, Pushes(nodes, head))
          /\ Filled(more, x, us)
          => Fitted(nodes, more, t \o Tail(control), SubSeq(locals, 1, l) \o us)
    BY <1>1, HeadTaken
  <2>2. l = m /\ Filled(declared, <<>>, <<>>) /\ <<>> \in Seq(Kinds)
    BY FilledNone, NoKinds
  <2> HIDE DEF l
  <2> QED
    BY <1>4, <1>5, <2>1, <2>2
<1>7. SubSeq(locals, 1, m) \o <<>> = SubSeq(locals, 1, m)
  <2>1. locals \in Seq(Local(declared)) /\ m \in 0 .. Len(locals)
    <3> DEFINE p == Len(Pops(nodes, Head(control)))
    <3>1. locals \in Seq(Local(declared)) /\ p \in Nat /\ Len(locals) \in Nat
      BY <1>1, HeadTaken
    <3> QED
      BY <3>1
  <2>2. SubSeq(locals, 1, m) \in Seq(Local(declared))
    BY <2>1, PrefixFacts
  <2> QED
    BY <2>2
<1>8. Tail(control) \in Seq(Activation)
  BY <1>1, HeadTaken, RecordsActive
<1>9. Active((q \o <<item>>) \o Tail(control)) = Append(Active(Tail(control)), FrameOf(item))
  BY <1>2, <1>8, ActiveBody
<1>10. SeenFrames = Active(Tail(control))
  BY FramesNow
<1> QED
  BY <1>6, <1>7, <1>9, <1>10 DEF q, r

LEMMA FreshScope ==
  ASSUME NEW nds, NEW funcs
  PROVE  /\ NoBindings \in Tabled(Kept(funcs)) /\ ShownIn(nds, NoBindings) = NoBindings
         /\ SP!NoBindings = NoBindings
<1>1. NoBindings \in [{} -> Value]
  BY DEF NoBindings
<1>2. {} \in SUBSET String
  OBVIOUS
<1>3. SP!NoBindings = NoBindings
  BY DEF SP!NoBindings, NoBindings
<1> QED
  BY <1>1, <1>2, <1>3, PlainIn

LEMMA VisitBlockStmtStep == InterpreterInv /\ VisitBlockStmt => Simulated
<1> SUFFICES ASSUME InterpreterInv, VisitBlockStmt PROVE Simulated
  OBVIOUS
<1> DEFINE stmts == Self.stmts
           item == End("block")
           r == Executes(stmts) \o <<item>>
<1>1. /\ Visit("Block") /\ Sane /\ symTables' = Entered(symTables, NoBindings, currIdx)
      /\ currIdx' = currIdx + 1 /\ Continue(r, 0, <<>>) /\ UNCHANGED <<valueStack, declared>>
  BY DEF VisitBlockStmt, InterpreterInv
<1>2. /\ control # <<>> /\ ~ IsEnd(Head(control)) /\ Running /\ Runnable(nodes)
      /\ Pops(nodes, Head(control)) = <<>> /\ Pushes(nodes, Head(control)) = <<>>
  BY <1>1, VisitFacts DEF ExprKind
<1>3. stmts \in Seq(Nat) /\ \A i \in 1 .. Len(stmts) : StmtAt(nodes, stmts[i])
  BY <1>1, VisitFacts, NodeFields, ChildClasses
<1>4. /\ Fitted(nodes, declared, control, locals) /\ declared \subseteq Declarations(nodes)
      /\ symTables \in Seq(Environments(Kept(declared))) /\ valueStack \in Seq(Value)
  BY <1>1 DEF Sane
<1>5. Len(locals) \in Nat /\ locals \in Seq(Local(declared))
  BY <1>2, <1>4, HeadTaken
<1>6. currIdx \in Nat
  BY TablesNow
<1>7. /\ item \in Activation /\ IsEnd(item) /\ item.do = "block"
      /\ FrameOf(item) = [kind |-> "block", saved |-> currIdx, base |-> SeenHeight]
  <2>1. Len(valueStack) \in Nat
    BY <1>4
  <2> QED
    BY <1>5, <1>6, <2>1 DEF End, Activation, IsEnd, FrameOf, SeenHeight
<1> HIDE DEF item, stmts
<1>8. Pushes(nodes, item) = <<>>
  BY <1>7 DEF Pushes
<1>9. Len(locals) = Len(locals) - Len(Pops(nodes, Head(control)))
  BY <1>2, <1>5
<1>10. /\ Fitted(nodes, declared, r \o Tail(control), SubSeq(locals, 1, Len(locals)))
       /\ Active(r \o Tail(control)) = Append(SeenFrames, FrameOf(item))
  BY <1>1, <1>2, <1>3, <1>5, <1>7, <1>8, <1>9, BodyEntered
<1> HIDE DEF r
<1>11. /\ control' = r \o Tail(control) /\ locals' = SubSeq(locals, 1, Len(locals))
       /\ nodes' = nodes /\ status' = status /\ declared' = declared /\ valueStack' = valueStack
  <2>1. SubSeq(locals, 1, Len(locals) - 0) \o <<>> = SubSeq(locals, 1, Len(locals))
    BY <1>5
  <2> QED
    BY <1>1, <2>1 DEF Continue
<1>12. /\ symTables' \in Seq(Environments(Kept(declared)))
       /\ Picture(nodes, symTables')
            = Append(Picture(nodes, symTables), [values |-> SP!NoBindings, parent |-> currIdx])
  BY <1>1, <1>2, <1>4, <1>6, PictureEntered, FreshScope
<1>13. Sane'
  BY <1>1, <1>10, <1>11, <1>12 DEF Sane
<1>14. /\ SeenTables' = Append(SeenTables, [values |-> SP!NoBindings, parent |-> currIdx])
       /\ SeenDeclared' = SeenDeclared
  BY <1>11, <1>12, SeenNow, SeenNext
<1>15. SeenFrames' = Append(SeenFrames, SP!NewFrame("block"))
  BY <1>7, <1>10, <1>11 DEF SeenFrames, SP!NewFrame
<1>16. SP!BlockPushed
  BY <1>1, <1>2, <1>11, <1>14, <1>15 DEF SP!BlockPushed, SP!Running, Running, SeenStatus, SeenHeight
<1> QED
  BY <1>13, <1>16 DEF Simulated, SP!Unbounded

LEMMA FrontOfAppend ==
  ASSUME NEW T, NEW q \in Seq(T), NEW last \in T
  PROVE  /\ Append(q, last) \in Seq(T) /\ Append(q, last) # <<>>
         /\ Last(Append(q, last)) = last /\ Front(Append(q, last)) = q
<1> DEFINE whole == Append(q, last)
<1>1. /\ whole \in Seq(T) /\ Len(whole) = Len(q) + 1 /\ Len(q) \in Nat
      /\ whole[Len(q) + 1] = last /\ \A i \in 1 .. Len(q) : whole[i] = q[i]
  BY AppendProperties
<1> HIDE DEF whole
<1>2. whole # <<>>
  BY <1>1
<1>3. Front(whole) \in Seq(T) /\ Len(Front(whole)) = Len(q) /\ \A i \in 1 .. Len(q) : Front(whole)[i] = q[i]
  BY <1>1, <1>2, FrontFacts
<1>4. Front(whole) = q
  BY <1>3, SeqEqual
<1> QED
  BY <1>1, <1>2, <1>4 DEF whole, Last

\* A block or a call ends, leaving these locals.
LEMMA EndStep ==
  ASSUME InterpreterInv, NEW kind \in {"block", "call"}, Doing(kind), NEW us,
         Filled(declared, IF kind = "call" THEN Anything ELSE <<>>, us),
         Continue(<<>>, 0, us), UNCHANGED <<valueStack, declared>>,
         symTables' \in Seq(Environments(Kept(declared)))
  PROVE  /\ Sane' /\ nodes' = nodes /\ SeenStatus' = SeenStatus /\ SeenStatus = "running"
         /\ SeenHeight' = SeenHeight /\ SeenDeclared' = SeenDeclared
         /\ SP!TopIs(kind) /\ SeenFrames' = SP!Front(SeenFrames)
<1>1. Sane /\ control # <<>> /\ Head(control).do = kind /\ status = "running"
  BY DEF InterpreterInv, Doing, Running
<1>2. /\ Runnable(nodes) /\ Fitted(nodes, declared, control, locals)
      /\ IsEnd(Head(control)) /\ Pops(nodes, Head(control)) = <<>>
      /\ Pushes(nodes, Head(control)) = IF kind = "call" THEN Anything ELSE <<>>
  BY <1>1 DEF Sane, IsEnd, Pops, Pushes
<1>3. /\ control' = <<>> \o Tail(control) /\ locals' = SubSeq(locals, 1, Len(locals) - 0) \o us
      /\ nodes' = nodes /\ status' = status /\ declared' = declared /\ valueStack' = valueStack
  BY DEF Continue
<1> DEFINE x == Pushes(nodes, Head(control))
<1>4. x \in Seq(Kinds) /\ 0 = Len(Pops(nodes, Head(control))) /\ <<>> \in Seq(Records(nodes))
  <2>1. x = Anything \/ x = <<>>
    BY <1>2
  <2>2. x \in Seq(Kinds)
    BY <2>1, NoKinds
  <2> QED
    BY <1>2, <2>2
<1>5. Filled(declared, x, us)
  BY <1>2
<1>6. \A f \in Nat : Leads(nodes, f, <<>>, x, x)
  BY <1>4, LeadsNil
<1>7. Fitted(nodes, declared, <<>> \o Tail(control), SubSeq(locals, 1, Len(locals) - 0) \o us)
  <2> HIDE DEF x
  <2>1. \A f \in Nat : Leads(nodes, f, <<>>, x, Pushes(nodes, Head(control)))
    BY <1>6 DEF x
  <2> QED
    BY <1>1, <1>2, <1>4, <1>5, <2>1, GoesOn
<1>8. Sane'
  BY <1>1, <1>3, <1>7 DEF Sane
<1>9. Tail(control) \in Seq(Activation) /\ Head(control) \in Activation
  BY <1>1, <1>2, HeadTaken, HeadFacts, RecordsActive
<1>10. control' = Tail(control)
  BY <1>3, <1>9
<1> DEFINE below == Active(Tail(control))
           last == FrameOf(Head(control))
<1>11. below \in Seq(ActiveFrame) /\ SeenFrames = Append(below, last) /\ SeenFrames' = below
  BY <1>1, <1>2, <1>10, FramesNow DEF SeenFrames
<1>12. last \in ActiveFrame /\ last.kind = kind
  BY <1>1, <1>2, <1>9, EndFrame
<1> HIDE DEF below, last
<1>13. SP!TopIs(kind) /\ SP!Front(SeenFrames) = below
  <2>1. /\ SeenFrames \in Seq(ActiveFrame) /\ SeenFrames # <<>> /\ Last(SeenFrames) = last
        /\ Front(SeenFrames) = below
    BY <1>11, <1>12, FrontOfAppend
  <2>2. SP!Last(SeenFrames) = Last(SeenFrames) /\ SP!Front(SeenFrames) = Front(SeenFrames)
    BY DEF SP!Last, Last, SP!Front, Front
  <2> QED
    BY <1>12, <2>1, <2>2 DEF SP!TopIs
<1>14. SeenDeclared' = SeenDeclared
  BY <1>3, SeenNow, SeenNext
<1> QED
  BY <1>1, <1>3, <1>8, <1>11, <1>13, <1>14 DEF SeenStatus, SeenHeight

\* The last scope is dropped.
LEMMA DroppedSeen ==
  ASSUME InterpreterInv
  PROVE  /\ Front(symTables) \in Seq(Environments(Kept(declared)))
         /\ Picture(nodes, Front(symTables)) = Front(SeenTables)
         /\ Len(Front(symTables)) = Len(symTables) - 1
         /\ SP!Scope(currIdx).parent = Scope(currIdx).parent
<1>1. /\ Runnable(nodes) /\ declared \subseteq Declarations(nodes)
      /\ symTables \in Seq(Environments(Kept(declared)))
  BY DEF InterpreterInv, Sane
<1>2. symTables # <<>> /\ currIdx + 1 \in 1 .. Len(symTables)
  BY TablesNow
<1>3. SP!Scope(currIdx).parent = Scope(currIdx).parent
  <2>1. PICK i \in 1 .. Len(symTables) : i = currIdx + 1
    BY <1>2
  <2>2. SeenTables[i].parent = symTables[i].parent
    BY <1>1, PictureFacts, SeenNow
  <2> QED
    BY <2>1, <2>2 DEF Scope, SP!Scope
<1> QED
  BY <1>1, <1>2, <1>3, PictureFront, SeenNow

LEMMA BlockEndSeen == InterpreterInv /\ BlockEnd => Sane' /\ SP!BlockExit
<1> SUFFICES ASSUME InterpreterInv, BlockEnd PROVE Sane' /\ SP!BlockExit
  OBVIOUS
<1>1. /\ Doing("block") /\ symTables' = Front(symTables) /\ currIdx' = Scope(currIdx).parent
      /\ Continue(<<>>, 0, <<>>) /\ UNCHANGED <<valueStack, declared>>
  BY DEF BlockEnd
<1>2. /\ Sane' /\ nodes' = nodes /\ SeenStatus' = SeenStatus /\ SeenStatus = "running"
      /\ SeenHeight' = SeenHeight /\ SeenDeclared' = SeenDeclared
      /\ SP!TopIs("block") /\ SeenFrames' = SP!Front(SeenFrames)
  <2>1. symTables' \in Seq(Environments(Kept(declared)))
    BY <1>1, DroppedSeen
  <2>2. Filled(declared, IF "block" = "call" THEN Anything ELSE <<>>, <<>>)
    BY FilledNone
  <2> QED
    BY <1>1, <2>1, <2>2, EndStep
<1>3. SeenTables' = Front(SeenTables)
  BY <1>1, <1>2, DroppedSeen, SeenNext
<1>4. SP!BlockExit
  BY <1>1, <1>2, <1>3, DroppedSeen DEF SP!BlockExit, SP!Running, SP!Front, Front
<1> QED
  BY <1>2, <1>4

LEMMA BlockEndStep == InterpreterInv /\ BlockEnd => Simulated
  BY BlockEndSeen DEF Simulated, SP!Unbounded, SP!Next

LEMMA CallEndSeen == InterpreterInv /\ CallEnd => Sane' /\ SP!CallFinish
<1> SUFFICES ASSUME InterpreterInv, CallEnd PROVE Sane' /\ SP!CallFinish
  OBVIOUS
<1>1. /\ Doing("call") /\ symTables' = Front(Front(symTables))
      /\ currIdx' = Scope(currIdx).parent - 1
      /\ Continue(<<>>, 0, <<Undefined>>) /\ UNCHANGED <<valueStack, declared>>
  BY DEF CallEnd
<1>2. Len(symTables) >= 2
  <2>1. Sane /\ control # <<>> /\ Head(control).do = "call" /\ SP!IndInv
    BY <1>1 DEF InterpreterInv, Doing
  <2>2. Head(control) \in Activation /\ IsEnd(Head(control))
    BY <2>1, HeadFacts DEF IsEnd
  <2>3. /\ Active(Tail(control)) \in Seq(ActiveFrame)
        /\ SeenFrames = Append(Active(Tail(control)), FrameOf(Head(control)))
        /\ FrameOf(Head(control)) \in ActiveFrame
    BY <2>1, <2>2, FramesNow, EndFrame
  <2>4. SeenFrames # <<>>
    BY <2>3, FrontOfAppend
  <2>5. currIdx >= SP!Own(SP!Last(SeenFrames))
    BY <2>1, <2>4, ScopeAssumed, SP!LastFrame
  <2>6. SP!Own(SP!Last(SeenFrames)) >= 1
    BY DEF SP!Own
  <2>7. SP!Own(SP!Last(SeenFrames)) \in {1, 2}
    BY DEF SP!Own
  <2>8. currIdx \in Nat /\ Len(symTables) = currIdx + 1
    BY TablesNow
  <2> QED
    BY <2>5, <2>6, <2>7, <2>8
<1>3. /\ Runnable(nodes) /\ declared \subseteq Declarations(nodes)
  BY DEF InterpreterInv, Sane
<1> DEFINE front == Front(symTables)
<1>4. /\ front \in Seq(Environments(Kept(declared))) /\ Picture(nodes, front) = Front(SeenTables)
      /\ Len(front) = Len(symTables) - 1
  BY DroppedSeen
<1> HIDE DEF front
<1>5. front # <<>>
  <2>1. Len(front) # 0
    BY <1>2, <1>4, TablesNow
  <2> QED
    BY <2>1
<1>6. /\ Front(front) \in Seq(Environments(Kept(declared)))
      /\ Picture(nodes, Front(front)) = Front(Picture(nodes, front))
  BY <1>3, <1>4, <1>5, PictureFront
<1>7. symTables' \in Seq(Environments(Kept(declared))) /\ symTables' = Front(front)
  BY <1>1, <1>6 DEF front
<1>8. /\ Sane' /\ nodes' = nodes /\ SeenStatus' = SeenStatus /\ SeenStatus = "running"
      /\ SeenHeight' = SeenHeight /\ SeenDeclared' = SeenDeclared
      /\ SP!TopIs("call") /\ SeenFrames' = SP!Front(SeenFrames)
  <2>1. Undefined \in Local(declared)
    BY DEF Local, Value
  <2>2. Filled(declared, IF "call" = "call" THEN Anything ELSE <<>>, <<Undefined>>)
    BY <2>1, FilledOne
  <2> QED
    BY <1>1, <1>7, <2>2, EndStep
<1>9. SeenTables' = Front(Front(SeenTables))
  BY <1>4, <1>6, <1>7, <1>8, SeenNext
<1>10. SP!CallFinish
  BY <1>1, <1>8, <1>9, DroppedSeen DEF SP!CallFinish, SP!Running, SP!Front, Front
<1> QED
  BY <1>8, <1>10

LEMMA CallEndStep == InterpreterInv /\ CallEnd => Simulated
  BY CallEndSeen DEF Simulated, SP!Unbounded, SP!Next

LEMMA FinishStep == InterpreterInv /\ Finish => Simulated
<1> SUFFICES ASSUME InterpreterInv, Finish PROVE Simulated
  OBVIOUS
<1>1. /\ status = "running" /\ status' = "done" /\ Sane
      /\ UNCHANGED <<nodes, control, locals, valueStack, symTables, currIdx, declared>>
  BY DEF Finish, Running, InSameScopes, scopes, InterpreterInv
<1>2. Sane'
  BY <1>1 DEF Sane
<1>3. SeenTables' = SeenTables /\ SeenDeclared' = SeenDeclared
  BY <1>1, SeenNow, SeenNext
<1>4. UNCHANGED SP!vars
  BY <1>1, <1>3 DEF SP!vars, SeenFrames, SeenHeight, SeenStatus
<1> QED
  BY <1>2, <1>4 DEF Simulated

\* Parameters that all have an argument.
LEMMA ParamsGiven ==
  ASSUME NEW params \in Seq(String), NEW args, \A i \in 1 .. Len(params) : args[i] \in Value
  PROVE  /\ ParamBindings(params, args) \in [ToSet(params) -> Value] /\ ToSet(params) \in SUBSET String
         /\ \A f : f.params = params =>
              SP!ParamBindings(f, [i \in DOMAIN params |-> args[i]]) = ParamBindings(params, args)
<1>1. /\ DOMAIN params = 1 .. Len(params) /\ Len(params) \in Nat
      /\ ToSet(params) = {params[i] : i \in 1 .. Len(params)}
  BY DEF ToSet
<1> DEFINE Places(p) == {i \in 1 .. Len(params) : params[i] = p}
<1>2. ASSUME NEW p \in ToSet(params) PROVE Max(Places(p)) \in 1 .. Len(params)
  <2>1. Places(p) \in SUBSET (0 .. Len(params)) /\ Places(p) # {} /\ Places(p) \subseteq 1 .. Len(params)
    BY <1>1
  <2> HIDE DEF Places
  <2>2. Max(Places(p)) \in Places(p)
    BY <1>1, <2>1, MaxFacts
  <2> QED
    BY <2>1, <2>2
<1>3. ParamBindings(params, args) = [p \in ToSet(params) |-> args[Max(Places(p))]]
  BY <1>1 DEF ParamBindings
<1> HIDE DEF Places
<1>4. \A p \in ToSet(params) : args[Max(Places(p))] \in Value
  BY <1>2
<1>5. ToSet(params) \in SUBSET String
  BY <1>1
<1>6. ASSUME NEW f, f.params = params
      PROVE  SP!ParamBindings(f, [i \in DOMAIN params |-> args[i]]) = ParamBindings(params, args)
  <2> DEFINE few == [i \in DOMAIN params |-> args[i]]
  <2>1. \A p \in ToSet(params) : few[Max(Places(p))] = args[Max(Places(p))]
    BY <1>1, <1>2
  <2> HIDE DEF few
  <2>2. SP!ParamBindings(f, few) = [p \in ToSet(params) |-> few[Max(Places(p))]]
    BY <1>1, <1>6 DEF SP!ParamBindings, SP!ToSet, ToSet, SP!Max, Max, Places
  <2>3. SP!ParamBindings(f, few) = ParamBindings(params, args)
    BY <1>3, <2>1, <2>2
  <2> QED
    BY <2>3 DEF few
<1> QED
  BY <1>3, <1>4, <1>5, <1>6

\* The callee and the arguments, when the call begins.
LEMMA CallHeld ==
  ASSUME Sane, Back("Call")
  PROVE  LET n == Len(Self.args)
             held == Held(n + 1)
         IN  /\ n \in Nat /\ Len(locals) \in Nat /\ Len(locals) - (n + 1) \in Nat
             /\ Head(held) \in Local(declared)
             /\ Len(Tail(held)) = n
             /\ \A i \in 1 .. n : Tail(held)[i] \in Value
<1> DEFINE n == Len(Self.args)
           held == Held(n + 1)
<1>1. /\ control # <<>> /\ Pops(nodes, Head(control)) = CalleeAnd(n) /\ n \in Nat
  BY BackFacts, NodeFields
<1>2. Runnable(nodes) /\ Fitted(nodes, declared, control, locals)
  BY DEF Sane
<1> HIDE DEF n
<1>3. Len(CalleeAnd(n)) = n + 1 /\ \A j \in 2 .. n + 1 : CalleeAnd(n)[j] = "basic"
  BY <1>1, CalleeFacts
<1>4. /\ Len(locals) \in Nat /\ Len(locals) - (n + 1) \in Nat
      /\ Filled(declared, CalleeAnd(n), held)
  <2> DEFINE p == Len(Pops(nodes, Head(control)))
             l == Len(locals) - p
             rest == SubSeq(locals, l + 1, Len(locals))
  <2>1. l \in Nat /\ Len(locals) \in Nat
    BY <1>1, <1>2, HeadTaken
  <2>2. Filled(declared, Pops(nodes, Head(control)), rest)
    BY <1>1, <1>2, HeadTaken
  <2>3. p = n + 1
    BY <1>1, <1>3
  <2>4. held = rest
    BY <2>3 DEF Held
  <2> HIDE DEF held, rest
  <2> QED
    BY <1>1, <2>1, <2>2, <2>3, <2>4
<1> HIDE DEF held
<1>5. /\ held \in Seq(Local(declared)) /\ Len(held) = n + 1
      /\ \A j \in 2 .. n + 1 : Basic(held[j])
  BY <1>1, <1>3, <1>4 DEF Filled
<1>6. \A j \in 1 .. n + 1 : held[j] \in Local(declared)
  BY <1>5
<1>7. \A j \in 2 .. n + 1 : held[j] \in Value
  <2> SUFFICES ASSUME NEW j \in 2 .. n + 1 PROVE held[j] \in Value
    OBVIOUS
  <2>1. held[j] \in Local(declared) /\ Basic(held[j])
    BY <1>1, <1>5, <1>6
  <2> QED
    BY <2>1, LocalFacts
<1>8. /\ Head(held) = held[1] /\ Len(Tail(held)) = n
      /\ \A i \in 1 .. n : Tail(held)[i] = held[i + 1] /\ i + 1 \in 2 .. n + 1
  BY <1>1, <1>5, EmptySeq
<1>9. 1 \in 1 .. n + 1
  BY <1>1
<1> QED
  BY <1>1, <1>4, <1>6, <1>7, <1>8, <1>9 DEF n, held

LEMMA TwoAppended ==
  ASSUME NEW T, NEW q \in Seq(T), NEW a \in T, NEW b \in T
  PROVE  Append(Append(q, a), b) = q \o <<a, b>>
<1>1. Append(q, a) = q \o <<a>> /\ Append(q, a) \in Seq(T)
  OBVIOUS
<1>2. Append(Append(q, a), b) = Append(q, a) \o <<b>>
  BY <1>1
<1>3. (q \o <<a>>) \o <<b>> = q \o (<<a>> \o <<b>>)
  OBVIOUS
<1> QED
  BY <1>1, <1>2, <1>3, TwoJoined

LEMMA CallStep ==
  ASSUME InterpreterInv, Back("Call"),
         LET n == Len(Self.args)
             callee == Head(Held(n + 1))
         IN  /\ callee.kind = "Function" /\ ~ (Len(nodes[callee.val].params) > n)
             /\ Call(nodes[callee.val], Tail(Held(n + 1)))
  PROVE  Simulated
<1> DEFINE n == Len(Self.args)
           callee == Head(Held(n + 1))
           args == Tail(Held(n + 1))
           k == callee.val
           f == SigIn(nodes, k)
           decl == nodes[k]
           stmts == nodes[decl.body].stmts
           values == ParamBindings(decl.params, args)
           few == [i \in DOMAIN decl.params |-> args[i]]
           m == Len(locals) - Len(args) - 1
           item == [End("call") EXCEPT !.held = m]
           r == Executes(stmts) \o <<item>>
<1>1. Sane /\ callee.kind = "Function" /\ ~ (Len(decl.params) > n) /\ Call(decl, args)
  BY DEF InterpreterInv
<1>2. /\ n \in Nat /\ Len(locals) \in Nat /\ Len(locals) - (n + 1) \in Nat
      /\ callee \in Local(declared) /\ Len(args) = n
      /\ \A i \in 1 .. n : args[i] \in Value
  BY <1>1, CallHeld
<1> HIDE DEF n, callee, args
<1>3. /\ Runnable(nodes) /\ declared \subseteq Declarations(nodes)
      /\ symTables \in Seq(Environments(Kept(declared))) /\ valueStack \in Seq(Value)
  BY <1>1 DEF Sane
<1>4. /\ control # <<>> /\ ~ IsEnd(Head(control)) /\ Running
      /\ Pops(nodes, Head(control)) = CalleeAnd(n) /\ Pushes(nodes, Head(control)) = Anything
  BY <1>1, BackFacts DEF ExprKind, n
<1>5. k \in declared /\ k \in 1 .. Len(nodes) /\ k \in Declarations(nodes) /\ decl.kind = "FuncDecl"
  BY <1>1, <1>2, <1>3, LocalFacts DEF Declarations
<1> HIDE DEF k
<1>6. /\ decl.params \in Seq(String) /\ decl.body \in 1 .. Len(nodes) /\ nodes[decl.body].kind = "Block"
      /\ Len(decl.params) \in Nat
  BY <1>3, <1>5, NodeFields, ChildClasses
<1>7. stmts \in Seq(Nat) /\ \A i \in 1 .. Len(stmts) : StmtAt(nodes, stmts[i])
  BY <1>3, <1>6, NodeFields, ChildClasses
<1>8. f \in Signatures /\ f.params = decl.params /\ DOMAIN decl.params = 1 .. Len(decl.params)
  BY <1>3, <1>5, <1>6, SigFacts DEF SigIn
<1> HIDE DEF decl, stmts, f
<1>9. \A i \in 1 .. Len(decl.params) : i \in 1 .. n /\ args[i] \in Value
  BY <1>1, <1>2, <1>6
<1>10. /\ values \in [ToSet(decl.params) -> Value] /\ ToSet(decl.params) \in SUBSET String
       /\ SP!ParamBindings(f, few) = values
  BY <1>6, <1>8, <1>9, ParamsGiven
<1>11. few \in [DOMAIN f.params -> Value]
  BY <1>8, <1>9
<1> HIDE DEF values, few
<1>12. currIdx \in Nat /\ m \in Nat /\ m = Len(locals) - Len(Pops(nodes, Head(control)))
  <2>1. Len(CalleeAnd(n)) = n + 1
    BY <1>2, CalleeFacts
  <2>2. currIdx \in Nat
    BY TablesNow
  <2> QED
    BY <1>2, <1>4, <2>1, <2>2
<1> HIDE DEF m
<1>13. /\ item \in Activation /\ IsEnd(item) /\ item.do = "call" /\ item.held = m
       /\ FrameOf(item) = [kind |-> "call", saved |-> currIdx, base |-> SeenHeight]
  <2>1. Len(valueStack) \in Nat
    BY <1>3
  <2> QED
    BY <1>12, <2>1 DEF End, Activation, IsEnd, FrameOf, SeenHeight
<1>14. /\ control' = r \o Tail(control) /\ locals' = SubSeq(locals, 1, m)
       /\ symTables' = Entered(Entered(symTables, values, currIdx), values, currIdx + 1)
       /\ currIdx' = currIdx + 2
       /\ nodes' = nodes /\ status' = status /\ declared' = declared /\ valueStack' = valueStack
  BY <1>1 DEF Call, values, m, decl, stmts
<1> HIDE DEF item
<1>15. Pushes(nodes, item) = Anything
  BY <1>13 DEF Pushes
<1>16. /\ Fitted(nodes, declared, r \o Tail(control), SubSeq(locals, 1, m))
       /\ Active(r \o Tail(control)) = Append(SeenFrames, FrameOf(item))
  BY <1>1, <1>4, <1>7, <1>12, <1>13, <1>15, BodyEntered
<1> HIDE DEF r
<1>17. values \in Tabled(Kept(declared)) /\ ShownIn(nodes, values) = values
  BY <1>10, PlainIn
<1> DEFINE outer == [values |-> values, parent |-> currIdx]
           inner == [values |-> values, parent |-> currIdx + 1]
           once == Entered(symTables, values, currIdx)
<1>18. /\ once \in Seq(Environments(Kept(declared)))
       /\ Picture(nodes, once) = Append(Picture(nodes, symTables), outer)
  BY <1>3, <1>12, <1>17, PictureEntered
<1> HIDE DEF once
<1>19. /\ Entered(once, values, currIdx + 1) \in Seq(Environments(Kept(declared)))
       /\ Picture(nodes, Entered(once, values, currIdx + 1)) = Append(Picture(nodes, once), inner)
  <2>1. PICK next \in Int : next = currIdx + 1
    BY <1>12
  <2>2. /\ Entered(once, values, next) \in Seq(Environments(Kept(declared)))
        /\ Picture(nodes, Entered(once, values, next))
             = Append(Picture(nodes, once), [values |-> ShownIn(nodes, values), parent |-> next])
    BY <1>3, <1>17, <1>18, PictureEntered
  <2> QED
    BY <1>17, <2>1, <2>2
<1>20. /\ symTables' \in Seq(Environments(Kept(declared)))
       /\ SeenTables' = Append(Append(SeenTables, outer), inner)
  BY <1>14, <1>18, <1>19, SeenNow, SeenNext DEF once
<1>21. SeenTables' = SeenTables \o <<outer, inner>>
  <2>1. outer \in Environments(Seen) /\ inner \in Environments(Seen)
    <3>1. values \in Tabled(Seen)
      BY <1>3, <1>17, ShownInFacts
    <3> QED
      BY <1>12, <3>1 DEF Environments
  <2>2. SeenTables \in Seq(Environments(Seen))
    BY TablesNow
  <2> HIDE DEF outer, inner
  <2> QED
    BY <1>20, <2>1, <2>2, TwoAppended
<1>22. Sane'
  BY <1>1, <1>14, <1>16, <1>20 DEF Sane
<1>23. SeenFrames' = Append(SeenFrames, SP!NewFrame("call"))
  BY <1>13, <1>14, <1>16 DEF SeenFrames, SP!NewFrame
<1>24. f \in SeenDeclared /\ SeenDeclared' = SeenDeclared
  BY <1>5, <1>14, SeenNow, SeenNext DEF f
<1>25. SP!CallPushed(f, few)
  BY <1>4, <1>10, <1>14, <1>21, <1>23, <1>24
  DEF SP!CallPushed, SP!Running, Running, SeenStatus, SeenHeight
<1> QED
  BY <1>8, <1>11, <1>22, <1>25 DEF Simulated, SP!Unbounded

LEMMA VisitCallExprStep == InterpreterInv /\ VisitCallExpr => Simulated
<1> DEFINE r == <<Evaluate(Self.callee), CheckCallee>> \o Arguments(Self.args)
                  \o <<Resume(Head(control).node)>>
<1>1. ASSUME Sane, Visit("Call"), Same(r, 0, <<>>) PROVE Simulated
  <2>1. Passes(nodes, r, <<>>, Anything)
    BY <1>1, VisitFacts, PassesCall
  <2> HIDE DEF r
  <2> QED
    BY <1>1, <2>1, VisitStep DEF ExprKind
<1>2. ASSUME Sane, Back("Call"), Crash PROVE Simulated
  BY <1>2, BackFacts, CrashStep
<1> QED
  BY <1>1, <1>2, CallStep DEF VisitCallExpr, InterpreterInv

LEMMA MinFacts ==
  ASSUME NEW I \in SUBSET Nat, I # {}
  PROVE  Min(I) \in I /\ \A i \in I : Min(I) <= i
<1>1. \E m \in I : \A k \in I : m <= k
  BY LeastNatural
<1> QED
  BY <1>1 DEF Min

\* Dropping the records up to one of FinishFunctionCall leaves it the result of the call.
LEMMA ReturnFitted ==
  ASSUME NEW nds, Runnable(nds), NEW funcs, NEW items, NEW vs, Fitted(nds, funcs, items, vs),
         NEW at \in 1 .. Len(items), items[at].do = "call", NEW v \in Value
  PROVE  Fitted(nds, funcs, SubSeq(items, at + 1, Len(items)),
                Append(SubSeq(vs, 1, items[at].held), v))
<1> DEFINE left == SubSeq(items, at + 1, Len(items))
<1>1. items \in Seq(Records(nds))
  BY DEF Fitted
<1>2. PICK s \in Seq(Kinds) : Leads(nds, 0, items, s, <<>>) /\ Filled(funcs, s, vs)
  BY DEF Fitted
<1>3. \E base \in Seq(Kinds), d \in Seq(Kinds) :
        /\ s = base \o d
        /\ items[at].held = Len(base)
        /\ Leads(nds, 0, SubSeq(items, at + 1, Len(items)), base \o Anything, <<>>)
  BY <1>1, <1>2, CutAt
<1>4. PICK base \in Seq(Kinds), d \in Seq(Kinds) :
        /\ s = base \o d
        /\ items[at].held = Len(base)
        /\ Leads(nds, 0, left, base \o Anything, <<>>)
  BY <1>3
<1> DEFINE kept == SubSeq(vs, 1, Len(base))
<1>5. Filled(funcs, base, kept)
  <2>1. Filled(funcs, base \o d, vs)
    BY <1>2, <1>4
  <2>2. Len(vs) - Len(d) = Len(base)
    <3>1. Len(vs) = Len(base) + Len(d)
      BY <2>1, KindsConcat DEF Filled
    <3> QED
      BY <3>1
  <2>3. Filled(funcs, base, SubSeq(vs, 1, Len(vs) - Len(d)))
    BY <2>1, FilledSplit
  <2> QED
    BY <2>2, <2>3
<1>6. v \in Local(funcs) /\ Filled(funcs, Anything, <<v>>)
  BY FilledOne DEF Local
<1>7. kept \in Seq(Local(funcs))
  BY <1>5 DEF Filled
<1> HIDE DEF kept
<1>8. Filled(funcs, base \o Anything, kept \o <<v>>) /\ base \o Anything \in Seq(Kinds)
  BY <1>5, <1>6, FilledConcat, KindsConcat, NoKinds
<1>9. Append(kept, v) = kept \o <<v>>
  BY <1>6, <1>7, AppendIsConcat
<1>10. left \in Seq(Records(nds))
  <2>1. at + 1 \in Nat \ {0} /\ Len(items) \in 0 .. Len(items)
    BY <1>1
  <2> QED
    BY <1>1, <2>1, PieceFacts
<1> HIDE DEF left
<1>11. Fitted(nds, funcs, left, kept \o <<v>>)
  BY <1>4, <1>8, <1>10 DEF Fitted
<1>12. items[at].held = Len(base)
  BY <1>4
<1> QED
  BY <1>9, <1>11, <1>12 DEF left, kept

\* JSReturn reaches the innermost call.
LEMMA ReturnedStep ==
  ASSUME InterpreterInv, Running, NEW v \in Value, NEW at \in 1 .. Len(control),
         control[at].do = "call", \A i \in 1 .. at - 1 : control[i].do # "call",
         control' = SubSeq(control, at + 1, Len(control)),
         locals' = Append(SubSeq(locals, 1, control[at].held), v),
         valueStack' = Append(valueStack, v),
         symTables' = Front(symTables), currIdx' = currIdx - 1,
         UNCHANGED <<nodes, declared, status>>
  PROVE  Simulated
<1>1. /\ Sane /\ Runnable(nodes) /\ declared \subseteq Declarations(nodes) /\ valueStack \in Seq(Value)
      /\ control \in Seq(Records(nodes))
  BY DEF InterpreterInv, Sane, Fitted
<1>2. Fitted(nodes, declared, control, locals)
  BY <1>1 DEF Sane
<1> DEFINE left == SubSeq(control, at + 1, Len(control))
<1>3. Fitted(nodes, declared, left, Append(SubSeq(locals, 1, control[at].held), v))
  BY <1>1, <1>2, ReturnFitted
<1> HIDE DEF left
<1>10. /\ Front(symTables) \in Seq(Environments(Kept(declared)))
       /\ Picture(nodes, Front(symTables)) = Front(SeenTables)
  BY DroppedSeen
<1>11. valueStack' \in Seq(Value) /\ SeenHeight' = SeenHeight + 1
  BY <1>1 DEF SeenHeight
<1>12. Sane'
  BY <1>1, <1>3, <1>10, <1>11 DEF Sane, left
<1>13. SeenTables' = Front(SeenTables) /\ SeenDeclared' = SeenDeclared
  BY <1>10, SeenNow, SeenNext
<1> DEFINE below == Active(left)
           top == Len(below) + 1
<1>14. /\ below \in Seq(ActiveFrame) /\ SeenFrames \in Seq(ActiveFrame)
       /\ top <= Len(SeenFrames)
       /\ \A j \in 1 .. Len(below) : SeenFrames[j] = below[j]
       /\ SeenFrames[top].kind = "call"
       /\ \A j \in Len(below) + 2 .. Len(SeenFrames) : SeenFrames[j].kind = "block"
  <2>1. control \in Seq(Activation)
    BY <1>1, RecordsActive
  <2> QED
    BY <2>1, ActiveCut DEF left, SeenFrames
<1>15. SeenFrames' = below
  BY DEF SeenFrames, left
<1> HIDE DEF below
<1>16. top \in Nat /\ Len(below) \in Nat /\ Len(SeenFrames) \in Nat /\ top \in 1 .. Len(SeenFrames)
  BY <1>14
<1>17. SP!CallFrames # {} /\ Max(SP!CallFrames) = top
  <2> DEFINE I == SP!CallFrames
  <2>1. I = {j \in 1 .. Len(SeenFrames) : SeenFrames[j].kind = "call"}
    BY <1>14 DEF SP!CallFrames
  <2>2. top \in I /\ I \in SUBSET (0 .. Len(SeenFrames))
    BY <1>14, <1>16, <2>1
  <2>3. \A j \in I : j <= top
    <3> SUFFICES ASSUME NEW j \in I, ~ (j <= top) PROVE FALSE
      BY <2>1, <1>16
    <3>1. j \in 1 .. Len(SeenFrames) /\ SeenFrames[j].kind = "call"
      BY <2>1
    <3>2. j \in Len(below) + 2 .. Len(SeenFrames)
      BY <1>16, <3>1
    <3> QED
      BY <1>14, <3>1, <3>2
  <2> HIDE DEF I
  <2>4. Max(I) \in I /\ \A i \in I : i <= Max(I)
    BY <1>16, <2>2, MaxFacts
  <2>5. Max(I) \in 0 .. Len(SeenFrames) /\ top <= Max(I) /\ Max(I) <= top
    <3>1. Max(I) \in 0 .. Len(SeenFrames)
      BY <2>2, <2>4
    <3>2. top <= Max(I)
      BY <2>2, <2>4
    <3>3. Max(I) <= top
      BY <2>3, <2>4
    <3> QED
      BY <3>1, <3>2, <3>3
  <2>6. Max(I) = top
    <3> DEFINE x == Max(I)
    <3>1. x \in 0 .. Len(SeenFrames) /\ top <= x /\ x <= top
      BY <2>5
    <3> HIDE DEF x
    <3>2. x = top
      BY <1>16, <3>1
    <3> QED
      BY <3>2 DEF x
  <2> QED
    BY <2>2, <2>6 DEF I
<1>18. SubSeq(SeenFrames, 1, top - 1) = below
  <2> DEFINE b == SubSeq(SeenFrames, 1, Len(below))
  <2>1. Len(below) \in 0 .. Len(SeenFrames)
    BY <1>16
  <2>2. b \in Seq(ActiveFrame) /\ Len(b) = Len(below) /\ \A j \in 1 .. Len(below) : b[j] = SeenFrames[j]
    BY <1>14, <2>1, PrefixFacts
  <2> HIDE DEF b
  <2>3. b = below
    BY <1>14, <2>2, SeqEqual
  <2>4. top - 1 = Len(below)
    BY <1>16
  <2> QED
    BY <2>3, <2>4 DEF b
<1> HIDE DEF top
<1>19. SP!ReturnStmt
  <2>1. SP!Max(SP!CallFrames) = top
    BY <1>17 DEF SP!Max, Max
  <2> QED
    BY <1>11, <1>13, <1>15, <1>17, <1>18, <2>1
    DEF SP!ReturnStmt, SP!Running, Running, SeenStatus, SP!Front, Front
<1> QED
  BY <1>12, <1>19 DEF Simulated, SP!Unbounded, SP!Next

LEMMA VisitReturnStmtStep == InterpreterInv /\ VisitReturnStmt => Simulated
<1>1. ASSUME Sane, Visit("Return"), Same(<<Evaluate(Self.value), Resume(Head(control).node)>>, 0, <<>>)
      PROVE  Simulated
  <2>1. Passes(nodes, <<Evaluate(Self.value), Resume(Head(control).node)>>, <<>>, <<>>)
    BY <1>1, VisitFacts, PassesVisit
  <2> QED
    BY <1>1, <2>1, VisitStep DEF ExprKind
<1>2. ASSUME InterpreterInv, Back("Return"), Return(Last(locals)) PROVE Simulated
  <2> DEFINE v == Last(locals)
             ends == {i \in DOMAIN control : control[i].do = "call"}
             at == Min(ends)
  <2>1. Sane
    BY <1>2 DEF InterpreterInv
  <2>2. /\ control # <<>> /\ Running /\ v \in Local(declared)
    BY <1>2, <2>1, BackFacts, LastHeld
  <2>3. control \in Seq(Records(nodes))
    BY <2>1 DEF Sane, Fitted
  <2>4. DOMAIN control = 1 .. Len(control) /\ Len(control) \in Nat
    BY <2>3
  <2>5. CASE ends = {}
    <3>1. Throw("terminated")
      BY <1>2, <2>5 DEF Return
    <3>2. \A i \in 1 .. Len(control) : control[i].do # "call"
      BY <2>4, <2>5
    <3> QED
      BY <2>1, <2>2, <3>1, <3>2, LeftStep
  <2>6. CASE ends # {} /\ ~ Basic(v)
    <3>1. Crash
      BY <1>2, <2>6 DEF Return
    <3> QED
      BY <2>1, <2>2, <3>1, CrashStep
  <2>7. CASE ends # {} /\ Basic(v)
    <3>1. v \in Value
      BY <2>2, <2>7, LocalFacts
    <3>2. /\ control' = SubSeq(control, at + 1, Len(control))
          /\ locals' = Append(SubSeq(locals, 1, control[at].held), v)
          /\ valueStack' = Append(valueStack, v)
          /\ symTables' = Front(symTables) /\ currIdx' = currIdx - 1
          /\ UNCHANGED <<nodes, declared, status>>
      BY <1>2, <2>7 DEF Return
    <3>3. ends \in SUBSET Nat
      BY <2>4
    <3>4. at \in ends /\ \A i \in ends : at <= i
      BY <2>7, <3>3, MinFacts
    <3>5. at \in 1 .. Len(control) /\ control[at].do = "call"
      BY <2>4, <3>4
    <3>6. ASSUME NEW i \in 1 .. at - 1 PROVE control[i].do # "call"
      <4>1. i \in 1 .. Len(control) /\ ~ (at <= i)
        BY <2>4, <3>5
      <4> QED
        BY <2>4, <3>4, <4>1
    <3> HIDE DEF v, at, ends
    <3> QED
      BY <1>2, <2>2, <3>1, <3>2, <3>5, <3>6, ReturnedStep
  <2> QED
    BY <2>5, <2>6, <2>7
<1> QED
  BY <1>1, <1>2 DEF VisitReturnStmt, InterpreterInv

(***************************************************************************)
(* The invariant of the interpreter.                                       *)
(***************************************************************************)

LEMMA InterpreterSimulated == InterpreterInv /\ InterpreterNext => Simulated
  BY VisitNullStep, VisitExprStmtStep, DiscardValueStep, VisitIfStmtStep, VisitWhileStmtStep,
     VisitForStmtStep, VisitBlockStmtStep, BlockEndStep, VisitVarDeclStep, VisitFuncDeclStep,
     VisitReturnStmtStep, VisitLiteralExprStep, VisitGroupingExprStep, VisitVarExprStep,
     VisitUnaryExprStep, VisitBinaryExprStep, VisitLogicalExprStep, VisitAssignExprStep,
     AssertCalleeStep, CopyArgumentStep, VisitCallExprStep, CallEndStep, FinishStep, Zenon
  DEF InterpreterNext, InterpreterInv

\* A step of the interpreter keeps the invariant and is one of ScopeStack's.
LEMMA InterpreterKeeps ==
  InterpreterInv /\ InterpreterNext => InterpreterInv' /\ [SP!Unbounded]_(SP!vars)
<1> SUFFICES ASSUME InterpreterInv, InterpreterNext
             PROVE  InterpreterInv' /\ [SP!Unbounded]_(SP!vars)
  OBVIOUS
<1>1. Sane' /\ [SP!Unbounded]_(SP!vars)
  BY InterpreterSimulated DEF Simulated
<1>2. SP!IndInv /\ SP!ScopeAssumption
  BY ScopeAssumed DEF InterpreterInv
<1>3. SP!IndInv'
  BY <1>1, <1>2, SP!UnboundedIndInv
<1> QED
  BY <1>1, <1>3 DEF InterpreterInv

(***************************************************************************)
(* The beginning of a run.                                                 *)
(***************************************************************************)

\* The interpreter before its first step.
Started(stmts) ==
  /\ control = Executes(stmts)
  /\ locals = <<>> /\ valueStack = <<>>
  /\ symTables = Entered(<<>>, NoBindings, -1) /\ currIdx = 0
  /\ declared = {} /\ status = "running"

AtRest == Started(<<>>)

LEMMA NothingExecuted == Executes(<<>>) = <<>>
<1>1. DOMAIN Executes(<<>>) = {}
  BY DEF Executes
<1>2. Executes(<<>>) \in [1 .. 0 -> {}]
  BY <1>1 DEF Executes
<1> DEFINE q == Executes(<<>>)
<1>3. q \in [1 .. 0 -> {}]
  BY <1>2
<1> HIDE DEF q
<1>4. q \in Seq({}) /\ Len(q) = 0
  BY <1>3, LenProperties
<1>5. q = <<>>
  BY <1>4, EmptySeq
<1> QED
  BY <1>5 DEF q

LEMMA ExecutesFitted ==
  ASSUME NEW nds, Runnable(nds), NEW stmts \in Seq(Nat), \A i \in 1 .. Len(stmts) : StmtAt(nds, stmts[i])
  PROVE  \A funcs : Fitted(nds, funcs, Executes(stmts), <<>>)
<1> DEFINE q == Executes(stmts)
           m == Len(q)
           none == <<>>
           b == [i \in 1 .. m |-> none]
           w == [i \in 1 .. m + 1 |-> none]
<1>1. q \in Seq(Records(nds)) /\ m \in Nat /\ \A i \in 1 .. m : q[i].do = "execute"
  BY ExecutesFacts
<1>2. none \in Seq(Kinds) /\ none \o none = none
  OBVIOUS
<1>3. \A i \in 1 .. m : Pops(nds, q[i]) = none /\ Pushes(nds, q[i]) = none
  BY <1>1 DEF Pops, Pushes
<1>4. /\ b \in [1 .. m -> Seq(Kinds)] /\ w \in [1 .. m + 1 -> Seq(Kinds)]
      /\ \A i \in 1 .. m : b[i] = none
      /\ \A i \in 1 .. m + 1 : w[i] = none
  BY <1>2
<1>5. \A i \in 1 .. m : i \in 1 .. m + 1 /\ i + 1 \in 1 .. m + 1
  BY <1>1
<1>6. 1 \in 1 .. m + 1 /\ m + 1 \in 1 .. m + 1
  BY <1>1
<1> HIDE DEF none, b, w
<1>7. Chained(nds, 0, q, b, w)
  <2> HIDE DEF q
  <2>1. \A i \in 1 .. m : w[i] = b[i] \o Pops(nds, q[i]) /\ w[i + 1] = b[i] \o Pushes(nds, q[i])
    BY <1>2, <1>3, <1>4, <1>5
  <2>2. \A at \in 1 .. m : q[at].do # "call"
    BY <1>1
  <2> QED
    BY <1>4, <2>1, <2>2 DEF Chained
<1>8. Leads(nds, 0, q, none, none)
  BY <1>4, <1>6, <1>7 DEF Leads
<1>9. \A funcs : Filled(funcs, none, none)
  BY FilledNone DEF none
<1> HIDE DEF q
<1> QED
  BY <1>1, <1>2, <1>8, <1>9 DEF Fitted, q, none

LEMMA StartSeen ==
  ASSUME NEW stmts \in Seq(Nat), Runnable(nodes), \A i \in 1 .. Len(stmts) : StmtAt(nodes, stmts[i]),
         Started(stmts)
  PROVE  Sane /\ SP!Init
<1>1. /\ control = Executes(stmts) /\ locals = <<>> /\ valueStack = <<>>
      /\ symTables = Entered(<<>>, NoBindings, -1) /\ currIdx = 0
      /\ declared = {} /\ status = "running"
  BY DEF Started
<1>2. Fitted(nodes, declared, control, locals)
  BY <1>1, ExecutesFitted
<1>3. declared \subseteq Declarations(nodes)
  BY <1>1
<1>4. <<>> \in Seq(Environments(Kept(declared))) /\ -1 \in Int
  OBVIOUS
<1>5. /\ symTables \in Seq(Environments(Kept(declared)))
      /\ Picture(nodes, symTables)
           = Append(Picture(nodes, <<>>), [values |-> NoBindings, parent |-> -1])
  <2> DEFINE none == <<>>
             over == -1
  <2>1. /\ NoBindings \in Tabled(Kept(declared)) /\ ShownIn(nodes, NoBindings) = NoBindings
        /\ none \in Seq(Environments(Kept(declared))) /\ over \in Int
    BY <1>4, FreshScope
  <2>2. symTables = Entered(none, NoBindings, over)
    BY <1>1
  <2> HIDE DEF none, over
  <2>3. /\ Entered(none, NoBindings, over) \in Seq(Environments(Kept(declared)))
        /\ Picture(nodes, Entered(none, NoBindings, over))
             = Append(Picture(nodes, none), [values |-> ShownIn(nodes, NoBindings), parent |-> over])
    BY <1>3, <2>1, PictureEntered
  <2> QED
    BY <2>1, <2>2, <2>3 DEF none, over
<1>6. Sane
  BY <1>1, <1>2, <1>3, <1>5 DEF Sane
<1>7. Picture(nodes, <<>>) = <<>>
  <2>1. Picture(nodes, <<>>) \in Seq(Environments(Seen)) /\ Len(Picture(nodes, <<>>)) = Len(<<>>)
    BY <1>3, <1>4, PictureFacts
  <2>2. Len(<<>>) = 0
    OBVIOUS
  <2> QED
    BY <2>1, <2>2, EmptySeq
<1>8. SeenTables = <<[values |-> SP!NoBindings, parent |-> -1]>>
  <2> DEFINE env == [values |-> NoBindings, parent |-> -1]
  <2>1. SeenTables = Append(<<>>, env)
    BY <1>5, <1>7, SeenNow
  <2> HIDE DEF env
  <2>2. Append(<<>>, env) = <<env>>
    OBVIOUS
  <2> QED
    BY <2>1, <2>2, FreshScope DEF env
<1>9. SeenFrames = <<>>
  <2> DEFINE q == Executes(stmts)
  <2>1. q \in Seq(Activation) /\ \A i \in 1 .. Len(q) : ~ IsEnd(q[i])
    BY ExecutesFacts
  <2> HIDE DEF q
  <2>2. <<>> \in Seq(Activation)
    OBVIOUS
  <2>3. Active(q \o <<>>) = Active(<<>>)
    BY <2>1, <2>2, ActivePlain
  <2>4. q \o <<>> = q
    BY <2>1, ConcatEmptySeq
  <2>5. Active(q) = <<>>
    BY <2>3, <2>4, ActiveEmpty
  <2> QED
    BY <1>1, <2>5 DEF SeenFrames, q
<1>10. SeenDeclared = {} /\ SeenStatus = "running" /\ SeenHeight = 0
  BY <1>1 DEF SeenDeclared, SeenStatus, SeenHeight
<1>11. SP!Init
  BY <1>1, <1>8, <1>9, <1>10 DEF SP!Init
<1> QED
  BY <1>6, <1>11

\* An interpreter that has been made for some statements of the tree.
Begun ==
  \E stmts \in Seq(Nat) : (\A i \in 1 .. Len(stmts) : StmtAt(nodes, stmts[i])) /\ Started(stmts)

LEMMA BegunHolds == Runnable(nodes) /\ Begun => InterpreterInv /\ SP!Init
  BY StartSeen, SP!InitIndInv, ScopeAssumed DEF Begun, InterpreterInv

LEMMA RestBegun == AtRest => Begun
<1>1. <<>> \in Seq(Nat) /\ \A i \in 1 .. Len(<<>>) : StmtAt(nodes, <<>>[i])
  OBVIOUS
<1> QED
  BY <1>1 DEF AtRest, Begun

\* The tree of a parse can be run.
LEMMA TreeRuns == ParserInv => Runnable(nodes)
<1> SUFFICES ASSUME ParserInv PROVE Runnable(nodes)
  OBVIOUS
<1>1. PICK open : IsTree(nodes, open)
  BY DEF ParserInv, WellTyped
<1>2. \A i \in DOMAIN nodes : Sorted(nodes, nodes[i])
  BY SortedTree
<1>3. nodes \in Seq(ASTNode(String, Value)) /\ DOMAIN nodes = 1 .. Len(nodes)
  BY <1>1 DEF IsTree
<1> QED
  BY <1>1, <1>2, <1>3 DEF Runnable, IsTree

\* The same of the state that a step leads to.
TreeRunnable == Runnable(nodes)

LEMMA BegunLater == TreeRunnable' /\ Begun' => InterpreterInv' /\ SP!Init'
<1>1. TreeRunnable /\ Begun => InterpreterInv /\ SP!Init
  BY BegunHolds DEF TreeRunnable
<1> QED
  BY <1>1, PTL

LEMMA ParserBegins == ParserInit' => ParserInv' /\ Delivered'
<1>1. ParserInit => ParserInv /\ Delivered
  <2>1. ParserInit => Delivered
    BY DEF ParserInit, Delivered
  <2> QED
    BY <2>1, InitFits
<1> QED
  BY <1>1, PTL

LEMMA RestBegunLater == AtRest' => Begun'
<1>1. AtRest => Begun
  BY RestBegun
<1> QED
  BY <1>1, PTL

LEMMA TreeRunsLater == ParserInv' => TreeRunnable'
<1>1. ParserInv => TreeRunnable
  BY TreeRuns DEF TreeRunnable
<1> QED
  BY <1>1, PTL

(***************************************************************************)
(* The invariant of the program.                                           *)
(***************************************************************************)

Phases == {"prompt", "parsing", "interpreting", "returned", "terminated", "undefined"}

MinijscInv ==
  /\ sources \in Seq(Source)
  /\ phase \in Phases
  /\ InterpreterInv
  /\ phase \in {"prompt", "parsing"} => AtRest
  /\ phase = "parsing" => ParserInv /\ Delivered

LEMMA MinijscInit == Init => MinijscInv
<1> SUFFICES ASSUME Init PROVE MinijscInv
  OBVIOUS
<1>1. sources \in Seq(Source) /\ phase = "prompt"
  BY SessionAssumption DEF Init
<1>2. nodes = <<>> /\ AtRest
  BY NothingExecuted DEF Init, InterpreterInit, AtRest, Started
<1>3. Runnable(nodes)
  BY <1>2 DEF Runnable
<1>4. InterpreterInv
  BY <1>2, <1>3, BegunHolds, RestBegun
<1> QED
  BY <1>1, <1>2, <1>4 DEF MinijscInv, Phases

\* What a step keeps where the interpreter waits.
LEMMA RestKept ==
  ASSUME AtRest, UNCHANGED <<control, locals, valueStack, scopes, declared, status>>
  PROVE  AtRest'
  BY DEF AtRest, Started, scopes

LEMMA ReadSourceKeeps == MinijscInv /\ ReadSource => MinijscInv' /\ AtRest /\ AtRest'
<1> SUFFICES ASSUME MinijscInv, ReadSource PROVE MinijscInv' /\ AtRest /\ AtRest'
  OBVIOUS
<1>1. AtRest /\ AtRest'
  BY RestKept DEF MinijscInv, ReadSource
<1>2. Head(sources) \in Source /\ sources' \in Seq(Source) /\ phase' = "parsing"
  BY DEF MinijscInv, ReadSource
<1>3. ParserInit'
  BY <1>2 DEF ReadSource, ParserInit
<1>4. ParserInv' /\ Delivered' /\ InterpreterInv'
  BY <1>1, <1>3, ParserBegins, TreeRunsLater, RestBegunLater, BegunLater
<1> QED
  BY <1>1, <1>2, <1>4 DEF MinijscInv, Phases

LEMMA ParseKeeps == MinijscInv /\ Parse => MinijscInv' /\ AtRest /\ AtRest'
<1> SUFFICES ASSUME MinijscInv, Parse PROVE MinijscInv' /\ AtRest /\ AtRest'
  OBVIOUS
<1>1. /\ AtRest /\ AtRest' /\ phase' = phase /\ sources' = sources /\ phase = "parsing"
      /\ ParserNext /\ ParserInv /\ Delivered
  BY RestKept DEF MinijscInv, Parse
<1>2. ParserInv'
  BY <1>1, NextKeeps
<1>3. Delivered'
  BY <1>1, DeliveredKeeps
<1>4. InterpreterInv'
  BY <1>1, <1>2, TreeRunsLater, RestBegunLater, BegunLater
<1> QED
  BY <1>1, <1>2, <1>3, <1>4 DEF MinijscInv

\* The process ends, or main returns.
LEMMA UntouchedInv ==
  ASSUME InterpreterInv, UNCHANGED interpreterVars
  PROVE  InterpreterInv' /\ UNCHANGED SP!vars
<1>1. UNCHANGED <<nodes, control, locals, valueStack, symTables, currIdx, declared, status>>
  BY DEF interpreterVars, scopes
<1>2. Sane'
  BY <1>1 DEF InterpreterInv, Sane
<1>3. SeenTables' = SeenTables /\ SeenDeclared' = SeenDeclared
  BY <1>1, SeenNow, SeenNext
<1>4. UNCHANGED SP!vars
  BY <1>1, <1>3 DEF SP!vars, SeenFrames, SeenHeight, SeenStatus
<1>5. SP!IndInv'
  BY <1>4, SP!UnboundedIndInv, ScopeAssumed DEF InterpreterInv
<1> QED
  BY <1>2, <1>4, <1>5 DEF InterpreterInv

LEMMA EndsKeep ==
  MinijscInv /\ (EndOfInput \/ ParseFailed \/ RunFailed) => MinijscInv' /\ UNCHANGED SP!vars
<1> SUFFICES ASSUME MinijscInv, EndOfInput \/ ParseFailed \/ RunFailed
             PROVE  MinijscInv' /\ UNCHANGED SP!vars
  OBVIOUS
<1>1. /\ UNCHANGED interpreterVars /\ sources' = sources
      /\ phase' \in {"returned", "terminated", "undefined"}
  BY DEF EndOfInput, ParseFailed, RunFailed
<1>2. InterpreterInv' /\ UNCHANGED SP!vars
  BY <1>1, UntouchedInv DEF MinijscInv
<1> QED
  BY <1>1, <1>2 DEF MinijscInv, Phases

LEMMA StartKeeps == MinijscInv /\ StartInterpreter => MinijscInv' /\ AtRest /\ Begun' /\ TreeRunnable'
<1> SUFFICES ASSUME MinijscInv, StartInterpreter PROVE MinijscInv' /\ AtRest /\ Begun' /\ TreeRunnable'
  OBVIOUS
<1>1. /\ AtRest /\ ParserInv /\ Delivered /\ parsed = "done" /\ phase' = "interpreting"
      /\ sources' = sources /\ nodes' = nodes /\ Start(results)
  BY DEF MinijscInv, StartInterpreter, parserVars
<1>2. results \in Seq(Nat) /\ \A i \in 1 .. Len(results) : StmtAt(nodes, results[i])
  <2>1. \A i \in 1 .. Len(results) : results[i] \in 1 .. Len(nodes) /\ IsStmt(nodes, results[i])
    BY <1>1 DEF Delivered
  <2>2. results \in Seq(Nat)
    BY <1>1 DEF ParserInv, WellTyped, Fit
  <2>3. Len(nodes) \in Nat
    <3>1. Runnable(nodes)
      BY <1>1, TreeRuns
    <3> QED
      BY <3>1 DEF Runnable
  <2> QED
    BY <2>1, <2>2, <2>3 DEF StmtAt
<1>3. PICK stmts : stmts = results
  OBVIOUS
<1>4. Begun'
  <2>1. stmts \in Seq(Nat) /\ \A i \in 1 .. Len(stmts) : StmtAt(nodes', stmts[i])
    BY <1>1, <1>2, <1>3
  <2>2. Started(stmts)'
    BY <1>1, <1>3 DEF Start, Started
  <2> QED
    BY <2>1, <2>2 DEF Begun
<1>5. TreeRunnable'
  BY <1>1, TreeRuns DEF TreeRunnable
<1>6. InterpreterInv'
  BY <1>4, <1>5, BegunLater
<1> QED
  BY <1>1, <1>4, <1>5, <1>6 DEF MinijscInv, Phases

LEMMA InterpretKeeps == MinijscInv /\ Interpret => MinijscInv' /\ [SP!Unbounded]_(SP!vars)
<1> SUFFICES ASSUME MinijscInv, Interpret PROVE MinijscInv' /\ [SP!Unbounded]_(SP!vars)
  OBVIOUS
<1>1. InterpreterInv /\ InterpreterNext /\ phase = "interpreting" /\ phase' = phase /\ sources' = sources
  BY DEF MinijscInv, Interpret
<1>2. InterpreterInv' /\ [SP!Unbounded]_(SP!vars)
  BY <1>1, InterpreterKeeps
<1> QED
  BY <1>1, <1>2 DEF MinijscInv

LEMMA ReturnedKeeps == MinijscInv /\ RunReturned => MinijscInv' /\ SP!Init'
<1> SUFFICES ASSUME MinijscInv, RunReturned PROVE MinijscInv' /\ SP!Init'
  OBVIOUS
<1>1. /\ phase' = "prompt" /\ sources' = sources /\ nodes' = nodes /\ Start(<<>>)
      /\ Runnable(nodes) /\ sources \in Seq(Source)
  BY DEF MinijscInv, RunReturned, parserVars, Start, InterpreterInv, Sane
<1>2. AtRest'
  BY <1>1 DEF Start, AtRest, Started
<1>3. TreeRunnable'
  BY <1>1 DEF TreeRunnable
<1>4. InterpreterInv' /\ SP!Init'
  BY <1>2, <1>3, RestBegunLater, BegunLater
<1> QED
  BY <1>1, <1>2, <1>4 DEF MinijscInv, Phases

(***************************************************************************)
(* With fewer scopes than MaxScopes and no function but those of Functions *)
(* a step that ScopeStack may take in general is one of its steps on these *)
(* constants.                                                              *)
(***************************************************************************)

Covered ==
  /\ Len(symTables) <= MaxScopes
  /\ {SignatureOf(k) : k \in declared} \subseteq Functions

Measured == Len(SeenTables) = Len(symTables) /\ Len(symTables) \in Nat

LEMMA SeenLength == Sane => Measured
  BY SeenNow, PictureFacts DEF Sane, Measured

LEMMA SeenLengthLater == Sane' => Measured'
  BY SeenLength, PTL

LEMMA DefinesBounded ==
  /\ \A n \in String, v \in Value : SP!VarDecl(n, v) => S!Next
  /\ \A f \in Functions : SP!FuncDecl(f) => S!Next
  /\ \A n \in String, v \in Value : SP!AssignExpr(n, v) => S!Next
  /\ \A n \in String : SP!Undefined(n) => S!Next
<1>1. ASSUME NEW n \in String, NEW v \in Value, SP!VarDecl(n, v) PROVE S!Next
  <2>1. S!VarDecl(n, v)
    BY <1>1, Zenon DEF SP!VarDecl, S!VarDecl, SP!Define, S!Define, SP!Running, S!Running, SP!Bind,
       S!Bind, SeenTables, SeenFrames, SeenDeclared, SeenStatus, SeenHeight
  <2> QED
    BY <2>1 DEF S!Next
<1>2. ASSUME NEW f \in Functions, SP!FuncDecl(f) PROVE S!Next
  <2>1. S!FuncDecl(f)
    BY <1>2, Zenon DEF SP!FuncDecl, S!FuncDecl, SP!Define, S!Define, SP!Running, S!Running, SP!Bind,
       S!Bind, SeenTables, SeenFrames, SeenDeclared, SeenStatus, SeenHeight
  <2> QED
    BY <2>1 DEF S!Next
<1>3. ASSUME NEW n \in String, NEW v \in Value, SP!AssignExpr(n, v) PROVE S!Next
  <2>1. S!AssignExpr(n, v)
    BY <1>3, Zenon DEF SP!AssignExpr, S!AssignExpr, SP!Running, S!Running, SP!Bind, S!Bind, SP!Home,
       S!Home, SP!Scope, S!Scope, SeenTables, SeenFrames, SeenDeclared, SeenStatus, SeenHeight
  <2> QED
    BY <2>1 DEF S!Next
<1>4. ASSUME NEW n \in String, SP!Undefined(n) PROVE S!Next
  <2>1. S!Undefined(n)
    BY <1>4, Zenon DEF SP!Undefined, S!Undefined, SP!Running, S!Running, SP!Home, S!Home, SP!Scope,
       S!Scope, SeenTables, SeenFrames, SeenDeclared, SeenStatus, SeenHeight
  <2> QED
    BY <2>1 DEF S!Next
<1> QED
  BY <1>1, <1>2, <1>3, <1>4

LEMMA ExitsBounded ==
  SP!TypeError \/ SP!NullDereference \/ SP!BlockExit \/ SP!CallFinish \/ SP!ReturnStmt
    \/ SP!TopLevelReturn => S!Next
<1>1. ASSUME SP!TypeError PROVE S!TypeError
  BY <1>1, Zenon DEF SP!TypeError, S!TypeError, SP!Running, S!Running, SeenTables, SeenFrames,
     SeenDeclared, SeenStatus, SeenHeight
<1>2. ASSUME SP!NullDereference PROVE S!NullDereference
  BY <1>2, Zenon DEF SP!NullDereference, S!NullDereference, SP!Running, S!Running, SeenTables,
     SeenFrames, SeenDeclared, SeenStatus, SeenHeight
<1>3. ASSUME SP!BlockExit PROVE S!BlockExit
  BY <1>3, Zenon DEF SP!BlockExit, S!BlockExit, SP!Running, S!Running, SP!TopIs, S!TopIs, SP!Scope,
     S!Scope, SP!Front, S!Front, SP!Last, S!Last, SeenTables, SeenFrames, SeenDeclared, SeenStatus,
     SeenHeight
<1>4. ASSUME SP!CallFinish PROVE S!CallFinish
  BY <1>4, Zenon DEF SP!CallFinish, S!CallFinish, SP!Running, S!Running, SP!TopIs, S!TopIs, SP!Scope,
     S!Scope, SP!Front, S!Front, SP!Last, S!Last, SeenTables, SeenFrames, SeenDeclared, SeenStatus,
     SeenHeight
<1>5. ASSUME SP!ReturnStmt PROVE S!ReturnStmt
  BY <1>5, Zenon DEF SP!ReturnStmt, S!ReturnStmt, SP!Running, S!Running, SP!CallFrames, S!CallFrames,
     SP!Front, S!Front, SP!Max, S!Max, SeenTables, SeenFrames, SeenDeclared, SeenStatus, SeenHeight
<1>6. ASSUME SP!TopLevelReturn PROVE S!TopLevelReturn
  BY <1>6, Zenon DEF SP!TopLevelReturn, S!TopLevelReturn, SP!Running, S!Running, SP!CallFrames,
     S!CallFrames, SeenTables, SeenFrames, SeenDeclared, SeenStatus, SeenHeight
<1> QED
  BY <1>1, <1>2, <1>3, <1>4, <1>5, <1>6 DEF S!Next

LEMMA EntersBounded ==
  /\ Len(SeenTables) < MaxScopes /\ SP!BlockPushed => S!Next
  /\ \A f \in Functions : \A args \in [DOMAIN f.params -> Value] :
       Len(SeenTables) + 1 < MaxScopes /\ SP!CallPushed(f, args) => S!Next
<1>1. ASSUME Len(SeenTables) < MaxScopes, SP!BlockPushed PROVE S!BlockEnter
  BY <1>1, Zenon DEF SP!BlockPushed, S!BlockEnter, SP!Running, S!Running, SP!NewFrame, S!NewFrame,
     SP!NoBindings, S!NoBindings, SeenTables, SeenFrames, SeenDeclared, SeenStatus, SeenHeight
<1>2. ASSUME NEW f \in Functions, NEW args \in [DOMAIN f.params -> Value],
             Len(SeenTables) + 1 < MaxScopes, SP!CallPushed(f, args)
      PROVE  S!Call(f, args)
  BY <1>2, Zenon DEF SP!CallPushed, S!Call, SP!Running, S!Running, SP!NewFrame, S!NewFrame,
     SP!ParamBindings, S!ParamBindings, SP!Max, S!Max, SP!ToSet, S!ToSet, SeenTables, SeenFrames,
     SeenDeclared, SeenStatus, SeenHeight
<1> QED
  BY <1>1, <1>2 DEF S!Next

LEMMA LengthAppended ==
  ASSUME NEW T, NEW q \in Seq(T), NEW x
  PROVE  Len(Append(q, x)) = Len(q) + 1
  OBVIOUS

LEMMA LengthJoined ==
  ASSUME NEW T, NEW q \in Seq(T), NEW x, NEW y
  PROVE  Len(q \o <<x, y>>) = Len(q) + 2
  OBVIOUS

LEMMA CoveredStep ==
  ASSUME Measured, Measured', SP!IndInv, Covered', SP!Unbounded
  PROVE  S!Next
<1>1. /\ Len(SeenTables)' <= MaxScopes /\ SeenDeclared' \subseteq Functions
      /\ Len(SeenTables) \in Nat /\ MaxScopes \in Nat
  BY SessionAssumption DEF Covered, Measured, SeenDeclared
<1>2. SeenTables \in Seq(SP!Environment(SP!Value))
  BY DEF SP!IndInv, SP!TypeOK
<1>3. ASSUME SP!BlockPushed PROVE S!Next
  <2> DEFINE env == [values |-> SP!NoBindings, parent |-> currIdx]
  <2>1. SeenTables' = Append(SeenTables, env)
    BY <1>3 DEF SP!BlockPushed
  <2> HIDE DEF env
  <2>2. Len(Append(SeenTables, env)) = Len(SeenTables) + 1
    BY <1>2, LengthAppended
  <2>3. Len(SeenTables) < MaxScopes
    BY <1>1, <2>1, <2>2
  <2> QED
    BY <1>3, <2>3, EntersBounded
<1>4. ASSUME NEW f \in Signatures, NEW args \in [DOMAIN f.params -> Value], SP!CallPushed(f, args)
      PROVE  S!Next
  <2> DEFINE outer == [values |-> SP!ParamBindings(f, args), parent |-> currIdx]
             inner == [values |-> SP!ParamBindings(f, args), parent |-> currIdx + 1]
  <2>1. SeenTables' = SeenTables \o <<outer, inner>> /\ f \in SeenDeclared /\ SeenDeclared' = SeenDeclared
    BY <1>4 DEF SP!CallPushed
  <2> HIDE DEF outer, inner
  <2>2. Len(SeenTables \o <<outer, inner>>) = Len(SeenTables) + 2
    BY <1>2, LengthJoined
  <2>3. Len(SeenTables) + 1 < MaxScopes
    BY <1>1, <2>1, <2>2
  <2>4. f \in Functions
    BY <1>1, <2>1
  <2> QED
    BY <1>4, <2>3, <2>4, EntersBounded
<1>5. SP!BlockEnter => SP!BlockPushed
  BY DEF SP!BlockEnter, SP!BlockPushed
<1>6. ASSUME NEW f, NEW args, SP!Call(f, args) PROVE SP!CallPushed(f, args)
  BY <1>6 DEF SP!Call, SP!CallPushed
<1>7. ASSUME NEW f \in Signatures, SP!FuncDecl(f) PROVE S!Next
  <2>1. f \in SeenDeclared'
    BY <1>7 DEF SP!FuncDecl
  <2>2. f \in Functions
    BY <1>1, <2>1
  <2> QED
    BY <1>7, <2>2, DefinesBounded
<1> QED
  BY <1>3, <1>4, <1>5, <1>6, <1>7, DefinesBounded, ExitsBounded DEF SP!Unbounded, SP!Next

(***************************************************************************)
(* Theorems.                                                               *)
(***************************************************************************)

\* Before its first step the interpreter is as ScopeStack begins; between two
\* such states it does not matter to ScopeStack what the tree becomes.
LEMMA RestSeen ==
  ASSUME InterpreterInv, AtRest, SP!Init'
  PROVE  UNCHANGED SP!vars
<1>1. SP!Init
  BY BegunHolds, RestBegun DEF InterpreterInv, Sane
<1> QED
  BY <1>1 DEF SP!Init, SP!vars

LEMMA MinijscStep ==
  MinijscInv /\ [MinijscNext]_vars =>
    MinijscInv' /\ [IF RunReturned THEN SP!Init' ELSE SP!Unbounded]_(SP!vars)
<1> SUFFICES ASSUME MinijscInv, [MinijscNext]_vars
             PROVE  /\ MinijscInv'
                    /\ [IF RunReturned THEN SP!Init' ELSE SP!Unbounded]_(SP!vars)
  OBVIOUS
<1>1. CASE RunReturned
  BY <1>1, ReturnedKeeps
<1>2. CASE ReadSource \/ Parse
  <2>1. MinijscInv' /\ AtRest /\ AtRest' /\ InterpreterInv
    BY <1>2, ReadSourceKeeps, ParseKeeps DEF MinijscInv
  <2>2. TreeRunnable'
    BY <2>1 DEF MinijscInv, InterpreterInv, Sane, TreeRunnable
  <2>3. SP!Init'
    BY <2>1, <2>2, RestBegunLater, BegunLater
  <2> QED
    BY <2>1, <2>3, RestSeen
<1>3. CASE StartInterpreter
  <2>1. MinijscInv' /\ AtRest /\ SP!Init' /\ InterpreterInv
    BY <1>3, StartKeeps, BegunLater DEF MinijscInv
  <2> QED
    BY <2>1, RestSeen
<1>4. CASE Interpret /\ ~ RunReturned
  BY <1>4, InterpretKeeps
<1>5. CASE EndOfInput \/ ParseFailed \/ RunFailed
  BY <1>5, EndsKeep
<1>6. CASE UNCHANGED vars
  <2>1. UNCHANGED interpreterVars /\ UNCHANGED parserVars /\ phase' = phase /\ sources' = sources
    BY <1>6 DEF vars
  <2>2. InterpreterInv' /\ UNCHANGED SP!vars
    BY <2>1, UntouchedInv DEF MinijscInv
  <2>3. phase \in {"prompt", "parsing"} => AtRest'
    BY <2>1, RestKept DEF MinijscInv, interpreterVars
  <2>4. phase = "parsing" => ParserInv' /\ Delivered'
    BY <2>1, NextKeeps, DeliveredKeeps DEF MinijscInv
  <2> QED
    BY <2>1, <2>2, <2>3, <2>4 DEF MinijscInv
<1> QED
  BY <1>1, <1>2, <1>3, <1>4, <1>5, <1>6 DEF MinijscNext, RunSource

\* What is to be read are sources; every tree that is run has the children
\* that the visitors of Interpreter.cpp take for granted; the activation records
\* and the locals they hold fit each other; and the scopes are those of ScopeStack.
THEOREM MinijscInvariant == Spec => []MinijscInv
<1>1. MinijscInv /\ [MinijscNext]_vars => MinijscInv'
  BY MinijscStep
<1> QED
  BY <1>1, MinijscInit, PTL DEF Spec

\* Once no visitor is active no value is held.
LEMMA NothingHeld ==
  ASSUME NEW nds, NEW funcs, NEW vs, Fitted(nds, funcs, <<>>, vs)
  PROVE  vs = <<>>
<1>1. PICK s \in Seq(Kinds) : Leads(nds, 0, <<>>, s, <<>>) /\ Filled(funcs, s, vs)
  BY DEF Fitted
<1>2. PICK b, w : w[1] = s /\ w[Len(<<>>) + 1] = <<>>
  BY <1>1 DEF Leads
<1>3. Len(<<>>) + 1 = 1 /\ Len(<<>>) = 0
  OBVIOUS
<1>4. s = <<>>
  BY <1>2, <1>3
<1>5. vs \in Seq(Local(funcs)) /\ Len(vs) = 0
  BY <1>1, <1>3, <1>4 DEF Filled
<1> QED
  BY <1>5, EmptySeq

LEMMA TypeFollows == MinijscInv => MinijscTypeOK
<1> SUFFICES ASSUME MinijscInv PROVE MinijscTypeOK
  OBVIOUS
<1>1. /\ Sane /\ Runnable(nodes) /\ declared \subseteq Declarations(nodes)
      /\ Fitted(nodes, declared, control, locals) /\ valueStack \in Seq(Value)
      /\ status \in {"running", "done", "error", "crashed", "terminated"} /\ InterpreterInv
  BY DEF MinijscInv, InterpreterInv, Sane
<1>2. DOMAIN nodes = 1 .. Len(nodes)
  BY <1>1 DEF Runnable
<1>3. WellFormed([nodes |-> nodes, stmts |-> <<>>])
  <2>1. \A i \in DOMAIN nodes : Children(nodes[i]) \subseteq 0 .. i - 1
    BY <1>1, <1>2 DEF Runnable
  <2>2. DOMAIN <<>> = {}
    OBVIOUS
  <2> QED
    BY <2>1, <2>2 DEF WellFormed
<1>4. ToSet(locals) \cup ToSet(valueStack)
        \subseteq Value \cup {NoValue} \cup {Function(k) : k \in DOMAIN nodes}
  <2>1. locals \in Seq(Local(declared))
    BY <1>1 DEF Fitted, Filled
  <2>2. Local(declared) \subseteq Value \cup {NoValue} \cup {Function(k) : k \in DOMAIN nodes}
    BY <1>1, <1>2 DEF Local, Declarations
  <2>3. ToSet(locals) \subseteq Local(declared) /\ ToSet(valueStack) \subseteq Value
    <3>1. \A i \in DOMAIN locals : locals[i] \in Local(declared)
      BY <2>1
    <3>2. \A i \in DOMAIN valueStack : valueStack[i] \in Value
      BY <1>1
    <3> QED
      BY <3>1, <3>2 DEF ToSet
  <2> QED
    BY <2>2, <2>3
<1>5. currIdx \in 0 .. Len(symTables) - 1
  BY <1>1, TablesNow DEF InterpreterInv
<1>6. control = <<>> => locals = <<>>
  BY <1>1, NothingHeld
<1> QED
  BY <1>1, <1>3, <1>4, <1>5, <1>6 DEF MinijscTypeOK, MinijscInv, Phases

\* The children of every node come before it; what the visitors' locals and the
\* value stack hold are values, functions of the tree and null pointers;
\* currIdx, which executeBlock and popSymbolTable set, is the index of a scope;
\* and no local outlives its visitor.
THEOREM MinijscTypeCorrect == Spec => []MinijscTypeOK
  BY TypeFollows, MinijscInvariant, PTL

\* However deeply blocks and calls are nested, and whatever functions the
\* sources declare, the interpreter does to its scopes what ScopeStack does:
\* no step of a visitor moves the scopes, the value stack or the frames in
\* another way (executeBlock, JSFunction::call, define and assign), and
\* every `run' begins with the global scope alone.
THEOREM ScopesAsScopeStack ==
  Spec => /\ SP!Init
          /\ [][IF RunReturned THEN SP!Init' ELSE SP!Unbounded]_(SP!vars)
<1>1. Init => SP!Init
  <2>1. Init => InterpreterInv /\ AtRest
    BY MinijscInit DEF MinijscInv, Init
  <2>2. InterpreterInv /\ AtRest => SP!Init
    BY BegunHolds, RestBegun DEF InterpreterInv, Sane
  <2> QED
    BY <2>1, <2>2
<1>2. MinijscInv /\ [MinijscNext]_vars => [IF RunReturned THEN SP!Init' ELSE SP!Unbounded]_(SP!vars)
  BY MinijscStep
<1> QED
  BY <1>1, <1>2, MinijscInvariant, PTL DEF Spec

\* The scope that a name is looked up in.
NewestBinding ==
  \A n \in String :
    LET binding == {i \in 0 .. Len(symTables) - 1 : n \in DOMAIN Scope(i).values}
    IN  Home(n) = IF binding = {} THEN -1 ELSE Max(binding)

LEMMA NewestFollows == InterpreterInv => NewestBinding
<1> SUFFICES ASSUME InterpreterInv, NEW n \in String
             PROVE  LET binding == {i \in 0 .. Len(symTables) - 1 : n \in DOMAIN Scope(i).values}
                    IN  Home(n) = IF binding = {} THEN -1 ELSE Max(binding)
  BY DEF NewestBinding
<1> DEFINE binding == {i \in 0 .. Len(symTables) - 1 : n \in DOMAIN Scope(i).values}
           seen == {i \in 0 .. Len(SeenTables) - 1 : n \in DOMAIN SP!Scope(i).values}
<1>1. Sane /\ SP!IndInv
  BY DEF InterpreterInv
<1>2. SP!ResolvesToNewest
  BY <1>1, ScopeAssumed, SP!ResolvesFollows
<1>3. SP!Home(n) = IF seen = {} THEN -1 ELSE SP!Max(seen)
  BY <1>2 DEF SP!ResolvesToNewest
<1>4. seen = binding
  <2>1. /\ Runnable(nodes) /\ declared \subseteq Declarations(nodes)
        /\ symTables \in Seq(Environments(Kept(declared)))
    BY <1>1 DEF Sane
  <2>2. /\ Len(SeenTables) = Len(symTables) /\ Len(symTables) \in Nat
        /\ \A i \in 1 .. Len(symTables) : DOMAIN SeenTables[i].values = DOMAIN symTables[i].values
    BY <2>1, PictureFacts, SeenNow
  <2>3. \A i \in 0 .. Len(symTables) - 1 : i + 1 \in 1 .. Len(symTables)
    BY <2>2
  <2>4. \A i \in 0 .. Len(symTables) - 1 : DOMAIN SP!Scope(i).values = DOMAIN Scope(i).values
    BY <2>2, <2>3 DEF Scope, SP!Scope
  <2> QED
    BY <2>2, <2>4
<1>5. SP!Home(n) = Home(n)
  BY <1>1, HomeSeen
<1>6. SP!Max(binding) = Max(binding)
  BY DEF SP!Max, Max
<1> QED
  BY <1>3, <1>4, <1>5, <1>6

\* What ScopeStack promises of its scopes holds of the interpreter's, in every
\* session: they are a chain, every frame finds its own again, only calls that
\* return leave any behind, and the walk of assign and resolve ends at the
\* newest scope that binds the name.
THEOREM ScopesKept ==
  Spec => [](SP!ScopeChain /\ SP!LeaksAccumulate /\ SP!OnlyReturnsLeak /\ NewestBinding)
<1>1. MinijscInv => SP!ScopeChain /\ SP!LeaksAccumulate /\ SP!OnlyReturnsLeak /\ NewestBinding
  BY NewestFollows DEF MinijscInv, InterpreterInv, SP!IndInv
<1> QED
  BY <1>1, MinijscInvariant, PTL

(***************************************************************************)
(* What the visitors leave behind.                                         *)
(***************************************************************************)

EndsRestore ==
  (BlockEnd \/ CallEnd) /\ Head(control).base = Len(valueStack) => currIdx' = Head(control).saved

InnermostCallAt(at) ==
  control[at].do = "call" /\ \A i \in 1 .. at - 1 : control[i].do # "call"

ReturnsShadow ==
  \A at \in DOMAIN control :
    Back("Return") /\ Basic(Last(locals)) /\ Return(Last(locals)) /\ InnermostCallAt(at)
    => currIdx' > control[at].saved

NamesOutlast ==
  IF Active(control) = <<>>
  THEN DOMAIN Scope(0).values \subseteq DOMAIN Scope(0)'.values
  ELSE \A i \in 0 .. Last(Active(control)).saved :
         DOMAIN Scope(i)'.values = DOMAIN Scope(i).values

LEMMA EndsKeepScope == InterpreterInv => EndsRestore
<1> SUFFICES ASSUME InterpreterInv, BlockEnd \/ CallEnd, Head(control).base = Len(valueStack)
             PROVE  currIdx' = Head(control).saved
  BY DEF EndsRestore
<1>1. Sane /\ SP!IndInv /\ control # <<>> /\ IsEnd(Head(control))
  BY DEF InterpreterInv, BlockEnd, CallEnd, Doing, IsEnd
<1>2. SP!BlockExit \/ SP!CallFinish
  BY BlockEndSeen, CallEndSeen
<1> DEFINE below == Active(Tail(control))
           last == FrameOf(Head(control))
<1>3. below \in Seq(ActiveFrame) /\ SeenFrames = Append(below, last)
  BY <1>1, FramesNow
<1>4. last \in ActiveFrame /\ last.saved = Head(control).saved /\ last.base = Head(control).base
  BY <1>1, HeadFacts, EndFrame DEF FrameOf
<1>5. SP!Last(SeenFrames) = last
  <2> HIDE DEF below, last
  <2> QED
    BY <1>3, <1>4 DEF SP!Last
<1>6. SP!Last(SeenFrames).base = SeenHeight
  BY <1>4, <1>5 DEF SeenHeight
<1>7. SP!ExitsRestore
  BY <1>1, ScopeAssumed, SP!ExitStep
<1> QED
  BY <1>2, <1>4, <1>5, <1>6, <1>7 DEF SP!ExitsRestore

LEMMA ReturnsKeepScope == InterpreterInv => ReturnsShadow
<1> SUFFICES ASSUME InterpreterInv, NEW at \in DOMAIN control, Back("Return"),
                    Basic(Last(locals)), Return(Last(locals)), InnermostCallAt(at)
             PROVE  currIdx' > control[at].saved
  BY DEF ReturnsShadow
<1>1. Sane /\ SP!IndInv /\ control \in Seq(Activation)
  BY RecordsActive DEF InterpreterInv, Sane, Fitted
<1>2. at \in 1 .. Len(control) /\ control[at].do = "call" /\ IsEnd(control[at])
  BY <1>1 DEF InnermostCallAt, IsEnd
<1>3. currIdx' = currIdx - 1
  BY <1>1, <1>2 DEF Return
<1>4. SeenFrames \in Seq(ActiveFrame) /\ \E k \in 1 .. Len(SeenFrames) : SeenFrames[k] = FrameOf(control[at])
  BY <1>1, <1>2, ActiveHas DEF SeenFrames
<1>5. PICK k \in DOMAIN SeenFrames : SeenFrames[k] = FrameOf(control[at])
  BY <1>4
<1>6. /\ SeenFrames[k].kind = "call" /\ SeenFrames[k].saved = control[at].saved
  BY <1>2, <1>5 DEF FrameOf
<1>7. SP!TypeOK /\ SP!LeaksAccumulate /\ SeenHeight \in Nat /\ currIdx \in Nat
  BY <1>1 DEF SP!IndInv, SP!TypeOK
<1>8. /\ SeenFrames[k] \in SP!Frame
      /\ SeenFrames[k].base <= SeenHeight
      /\ SeenHeight - SeenFrames[k].base <= currIdx - SeenFrames[k].saved - SP!Own(SeenFrames[k])
  BY <1>7, ScopeAssumed, SP!TopFrame
<1>9. SP!Own(SeenFrames[k]) = 2
  BY <1>6 DEF SP!Own
<1>10. PICK saved \in Nat, base \in Nat : saved = SeenFrames[k].saved /\ base = SeenFrames[k].base
  BY <1>8 DEF SP!Frame
<1>11. base <= SeenHeight /\ SeenHeight - base <= currIdx - saved - 2
  BY <1>8, <1>9, <1>10
<1>12. currIdx - 1 > saved
  BY <1>7, <1>11
<1> QED
  BY <1>3, <1>6, <1>10, <1>12

\* A scope binds the names that its picture binds.
LEMMA NamesSeen ==
  ASSUME Sane, NEW i \in 0 .. Len(symTables) - 1
  PROVE  DOMAIN SP!Scope(i).values = DOMAIN Scope(i).values
<1>1. Runnable(nodes) /\ declared \subseteq Declarations(nodes) /\ symTables \in Seq(Environments(Kept(declared)))
  BY DEF Sane
<1>2. i + 1 \in 1 .. Len(symTables)
  BY <1>1
<1>3. DOMAIN SeenTables[i + 1].values = DOMAIN symTables[i + 1].values
  BY <1>1, <1>2, PictureFacts, SeenNow
<1> QED
  BY <1>3 DEF Scope, SP!Scope

NamesAgree ==
  /\ Len(SeenTables) = Len(symTables) /\ Len(symTables) \in Nat
  /\ \A i \in 0 .. Len(symTables) - 1 : DOMAIN SP!Scope(i).values = DOMAIN Scope(i).values

LEMMA NamesAgreeNow == Sane => NamesAgree
  BY NamesSeen, SeenLength DEF NamesAgree, Measured

LEMMA NamesAgreeLater == Sane' => NamesAgree'
  BY NamesAgreeNow, PTL

LEMMA NamesOutlastStep ==
  ASSUME InterpreterInv, InterpreterInv', [SP!Unbounded]_(SP!vars)
  PROVE  NamesOutlast
<1>1. Sane /\ SP!IndInv /\ Sane' /\ SP!IndInv'
  BY DEF InterpreterInv
<1>2. NamesAgree /\ NamesAgree'
  BY <1>1, NamesAgreeNow, NamesAgreeLater
<1>3. /\ Len(SeenTables) = currIdx + 1 /\ currIdx \in Nat
      /\ Len(SeenTables') = currIdx' + 1 /\ currIdx' \in Nat
  BY <1>1, <1>2 DEF SP!IndInv, SP!TypeOK, SP!ScopeChain, NamesAgree
<1>m. PICK m \in Nat, l \in Nat : m + 1 = Len(SeenTables) /\ l + 1 = Len(SeenTables') /\ m = currIdx
  BY <1>3
<1>4. ASSUME NEW i \in Nat, i < m + 1, i < l + 1
      PROVE  /\ DOMAIN SP!Scope(i).values = DOMAIN Scope(i).values
             /\ DOMAIN SP!Scope(i)'.values = DOMAIN Scope(i)'.values
  <2>1. i \in 0 .. Len(symTables) - 1 /\ i \in 0 .. Len(symTables') - 1
    BY <1>2, <1>4, <1>m DEF NamesAgree
  <2> QED
    BY <1>2, <2>1 DEF NamesAgree
<1>5. SP!NamesKept
  <2>1. CASE SP!Unbounded
    BY <1>1, <2>1, ScopeAssumed, SP!NamesStep
  <2>2. CASE UNCHANGED SP!vars
    BY <2>2 DEF SP!NamesKept, SP!Scope, SP!vars
  <2> QED
    BY <2>1, <2>2
<1>6. CASE SeenFrames = <<>>
  <2>1. DOMAIN SP!Scope(0).values \subseteq DOMAIN SP!Scope(0)'.values
    BY <1>5, <1>6 DEF SP!NamesKept
  <2>2. 0 < m + 1 /\ 0 < l + 1
    OBVIOUS
  <2> QED
    BY <1>4, <1>6, <2>1, <2>2 DEF NamesOutlast, SeenFrames
<1>7. CASE SeenFrames # <<>>
  <2>1. SP!Last(SeenFrames) = Last(Active(control))
    BY DEF SP!Last, Last, SeenFrames
  <2>2. SP!Last(SeenFrames).saved < Len(SeenTables')
    BY <1>1, <1>7, ScopeAssumed, SP!OlderRemain
  <2>3. /\ SP!Last(SeenFrames).saved \in Nat
        /\ SP!Last(SeenFrames).saved + SP!Own(SP!Last(SeenFrames)) <= currIdx
    BY <1>1, <1>7, ScopeAssumed, SP!SavedBelow
  <2>4. SP!Own(SP!Last(SeenFrames)) \in {1, 2}
    BY DEF SP!Own
  <2>5. PICK saved \in Nat : saved = SP!Last(SeenFrames).saved
    BY <2>3
  <2>6. saved < m + 1 /\ saved < l + 1
    BY <1>m, <2>2, <2>3, <2>4, <2>5
  <2>7. \A i \in 0 .. saved : DOMAIN SP!Scope(i)'.values = DOMAIN SP!Scope(i).values
    BY <1>5, <1>7, <2>5 DEF SP!NamesKept
  <2>8. ASSUME NEW i \in 0 .. saved PROVE DOMAIN Scope(i)'.values = DOMAIN Scope(i).values
    <3>1. i \in Nat /\ i < m + 1 /\ i < l + 1
      BY <2>6
    <3> QED
      BY <1>4, <2>7, <3>1
  <2> QED
    BY <1>7, <2>1, <2>5, <2>8 DEF NamesOutlast, SeenFrames
<1> QED
  BY <1>6, <1>7

\* Whatever a program nests: a block or a function body in which no call has
\* returned goes back to the scope that was current when it began (executeBlock,
\* JSFunction::call); a return never does, so that a scope of the callee stays
\* current; and while a block or a body is being executed the scopes that were
\* there before it are there still and bind the very names they bound.
THEOREM VisitorsKeepScopes ==
  Spec => [][EndsRestore /\ ReturnsShadow /\ (~ RunReturned => NamesOutlast)]_vars
<1>1. MinijscInv /\ [MinijscNext]_vars
        => [EndsRestore /\ ReturnsShadow /\ (~ RunReturned => NamesOutlast)]_vars
  <2> SUFFICES ASSUME MinijscInv, [MinijscNext]_vars
               PROVE  EndsRestore /\ ReturnsShadow /\ (~ RunReturned => NamesOutlast)
    OBVIOUS
  <2>1. InterpreterInv /\ InterpreterInv'
    BY MinijscStep DEF MinijscInv
  <2>2. EndsRestore /\ ReturnsShadow
    BY <2>1, EndsKeepScope, ReturnsKeepScope
  <2>3. ASSUME ~ RunReturned PROVE NamesOutlast
    <3>1. [SP!Unbounded]_(SP!vars)
      BY <2>3, MinijscStep
    <3> QED
      BY <2>1, <3>1, NamesOutlastStep
  <2> QED
    BY <2>2, <2>3
<1> QED
  BY <1>1, MinijscInvariant, PTL DEF Spec

LEMMA SameScopes == UNCHANGED SP!vars => UNCHANGED S!vars
  BY DEF SP!vars, S!vars, SeenTables, SeenFrames, SeenDeclared, SeenStatus, SeenHeight

LEMMA SameInit == SP!Init => S!Init
  BY DEF SP!Init, S!Init, SP!NoBindings, S!NoBindings, SeenTables, SeenFrames, SeenDeclared,
     SeenStatus, SeenHeight

LEMMA SameInitLater == SP!Init' => S!Init'
  BY SameInit, PTL

\* While no more than MaxScopes scopes are in use and no function is declared
\* that is not one of Functions, which is what these constants are for, the
\* interpreter implements ScopeStack (the whole of Interpreter.cpp, its
\* expressions included, against the operations on scopes alone).
THEOREM ImplementsScopesHolds == Spec /\ []Covered => ImplementsScopes
<1>1. Init => S!Init
  <2>1. Init => InterpreterInv /\ AtRest
    BY MinijscInit DEF MinijscInv, Init
  <2>2. InterpreterInv /\ AtRest => SP!Init
    BY BegunHolds, RestBegun DEF InterpreterInv, Sane
  <2> QED
    BY <2>1, <2>2, SameInit
<1>2. MinijscInv /\ MinijscInv' /\ Covered' /\ [MinijscNext]_vars
        => [IF RunReturned THEN S!Init' ELSE S!Next]_(S!vars)
  <2> SUFFICES ASSUME MinijscInv, MinijscInv', Covered', [MinijscNext]_vars
               PROVE  [IF RunReturned THEN S!Init' ELSE S!Next]_(S!vars)
    OBVIOUS
  <2>1. [IF RunReturned THEN SP!Init' ELSE SP!Unbounded]_(SP!vars)
    BY MinijscStep
  <2>2. CASE UNCHANGED SP!vars
    BY <2>2, SameScopes
  <2>3. CASE RunReturned /\ SP!Init'
    BY <2>3, SameInitLater
  <2>4. CASE ~ RunReturned /\ SP!Unbounded
    <3>1. Sane /\ Sane' /\ SP!IndInv
      BY DEF MinijscInv, InterpreterInv
    <3>2. Measured /\ Measured'
      BY <3>1, SeenLength, SeenLengthLater
    <3>3. S!Next
      BY <2>4, <3>1, <3>2, CoveredStep
    <3> QED
      BY <2>4, <3>3
  <2> QED
    BY <2>1, <2>2, <2>3, <2>4
<1> QED
  BY <1>1, <1>2, MinijscInvariant, PTL DEF Spec, ImplementsScopes

(***************************************************************************)
(* The visitors' guards.                                                   *)
(***************************************************************************)

\* A visitor that goes on takes what its operands left in its locals; a callee
\* that is a function is a declaration with a block.
OperandsThere ==
  LET callee == Head(Held(Len(Self.args) + 1))
  IN  CASE Self.kind = "Binary" -> Len(locals) >= 2
        [] Self.kind = "Call"   ->
             /\ Len(locals) >= Len(Self.args) + 1
             /\ callee.kind = "Function" =>
                  /\ nodes[callee.val].kind = "FuncDecl"
                  /\ nodes[nodes[callee.val].body].kind = "Block"
        [] OTHER                -> Len(locals) >= 1

\* Statements are executed, expressions are evaluated, and each can be null.
ClassesMatch ==
  /\ Doing("execute")  => StmtAt(nodes, Head(control).node)
  /\ Doing("evaluate") => ExprAt(nodes, Head(control).node)

\* The guard of one of InterpreterNext's actions holds, and what the action
\* reads of locals, nodes and scopes is there.
VisitorApplies ==
  \/ control = <<>>
  \/ (Doing("execute") \/ Doing("evaluate")) /\ Head(control).node = 0
  \/ \E kind \in ExprKind \cup {"ExprStmt", "If", "While", "For", "Block", "VarDecl",
                                "FuncDecl", "Return"} : Visit(kind)
  \/ \E kind \in Resumed : Back(kind) /\ OperandsThere
  \/ (Doing("discard") \/ Doing("checkCallee") \/ Doing("copyArg")) /\ Len(locals) >= 1
  \/ Doing("block") /\ Len(symTables) >= 2
  \/ Doing("call") /\ Len(symTables) >= 3

\* The end of a block or a call has its own scopes to pop.
LEMMA EndApplies ==
  ASSUME InterpreterInv, Running, control # <<>>, IsEnd(Head(control))
  PROVE  VisitorApplies
<1>1. Sane /\ SP!IndInv
  BY DEF InterpreterInv
<1>2. Head(control) \in Activation
  BY <1>1, HeadFacts
<1>3. /\ Active(Tail(control)) \in Seq(ActiveFrame)
      /\ SeenFrames = Append(Active(Tail(control)), FrameOf(Head(control)))
      /\ FrameOf(Head(control)) \in ActiveFrame
      /\ FrameOf(Head(control)).kind = Head(control).do
  BY <1>1, <1>2, FramesNow, EndFrame
<1>4. SeenFrames # <<>> /\ SP!Last(SeenFrames) = FrameOf(Head(control))
  BY <1>3, FrontOfAppend DEF SP!Last
<1>5. currIdx >= SP!Own(FrameOf(Head(control)))
  BY <1>1, <1>4, ScopeAssumed, SP!LastFrame
<1>6. currIdx \in Nat /\ Len(symTables) = currIdx + 1
  BY TablesNow
<1>7. CASE Head(control).do = "block"
  <2>1. SP!Own(FrameOf(Head(control))) = 1
    BY <1>3, <1>7 DEF SP!Own
  <2>2. Len(symTables) >= 2
    BY <1>5, <1>6, <2>1
  <2> QED
    BY <1>7, <2>2 DEF VisitorApplies, Doing
<1>8. CASE Head(control).do = "call"
  <2>1. SP!Own(FrameOf(Head(control))) = 2
    BY <1>3, <1>8 DEF SP!Own
  <2>2. Len(symTables) >= 3
    BY <1>5, <1>6, <2>1
  <2> QED
    BY <1>8, <2>2 DEF VisitorApplies, Doing
<1> QED
  BY <1>7, <1>8 DEF IsEnd

\* The locals that a record pops are there.
LEMMA LocalsThere ==
  ASSUME Sane, control # <<>>
  PROVE  /\ Len(Pops(nodes, Head(control))) \in Nat /\ Len(locals) \in Nat
         /\ Len(locals) >= Len(Pops(nodes, Head(control)))
<1> DEFINE p == Len(Pops(nodes, Head(control)))
<1>1. Runnable(nodes) /\ Fitted(nodes, declared, control, locals)
  BY DEF Sane
<1>2. p \in Nat /\ Len(locals) \in Nat /\ Len(locals) - p \in Nat
  BY <1>1, HeadTaken
<1> HIDE DEF p
<1>3. Len(locals) >= p
  BY <1>2
<1> QED
  BY <1>2, <1>3 DEF p

LEMMA ResumeApplies ==
  ASSUME Sane, Running, control # <<>>, Head(control).do = "resume"
  PROVE  VisitorApplies
<1> DEFINE kind == Self.kind
<1>1. kind \in Resumed /\ Back(kind)
  BY HeadFacts DEF Back, Doing, Self
<1>2. OperandsThere
  <2>1. CASE kind = "Binary"
    <3>1. Pops(nodes, Head(control)) = <<"any", "any">>
      BY <1>1, <2>1, BackFacts
    <3>2. Len(<<"any", "any">>) = 2
      OBVIOUS
    <3>3. Len(locals) >= 2
      BY <3>1, <3>2, LocalsThere
    <3> QED
      BY <2>1, <3>3 DEF OperandsThere
  <2>2. CASE kind = "Call"
    <3> DEFINE n == Len(Self.args)
               callee == Head(Held(n + 1))
    <3>1. /\ n \in Nat /\ Len(locals) \in Nat /\ Len(locals) - (n + 1) \in Nat
          /\ callee \in Local(declared)
      BY <1>1, <2>2, CallHeld
    <3>2. callee.kind = "Function" =>
            /\ nodes[callee.val].kind = "FuncDecl"
            /\ nodes[nodes[callee.val].body].kind = "Block"
      <4> SUFFICES ASSUME callee.kind = "Function"
                   PROVE  /\ nodes[callee.val].kind = "FuncDecl"
                          /\ nodes[nodes[callee.val].body].kind = "Block"
        OBVIOUS
      <4>1. Runnable(nodes) /\ declared \subseteq Declarations(nodes)
        BY DEF Sane
      <4>2. callee.val \in 1 .. Len(nodes) /\ nodes[callee.val].kind = "FuncDecl"
        <5>1. callee.val \in declared
          BY <3>1, LocalFacts
        <5> QED
          BY <4>1, <5>1 DEF Declarations
      <4> QED
        BY <4>1, <4>2, ChildClasses
    <3> HIDE DEF n
    <3>3. Len(locals) >= n + 1
      BY <3>1
    <3> QED
      BY <2>2, <3>2, <3>3 DEF OperandsThere, n
  <2>3. CASE kind \notin {"Binary", "Call"}
    <3>1. Pops(nodes, Head(control)) = Anything
      BY <1>1, <2>3, BackFacts
    <3>2. Len(locals) >= 1
      BY <3>1, LocalsThere, NoKinds
    <3> QED
      BY <2>3, <3>2 DEF OperandsThere
  <2> QED
    BY <2>1, <2>2, <2>3
<1> QED
  BY <1>1, <1>2 DEF VisitorApplies

\* Every kind of node has its visitor.
LEMMA VisitApplies ==
  ASSUME Sane, Running, control # <<>>, Head(control).do \in {"execute", "evaluate"}
  PROVE  VisitorApplies
<1>1. Doing("execute") \/ Doing("evaluate")
  BY DEF Doing
<1>2. CASE Head(control).node = 0
  BY <1>1, <1>2 DEF VisitorApplies
<1>3. CASE Head(control).node # 0
  <2>1. Head(control).node \in 1 .. Len(nodes)
    <3>1. Runnable(nodes) /\ Head(control).node \in 0 .. Len(nodes)
      BY HeadFacts DEF StmtAt, ExprAt
    <3>2. Len(nodes) \in Nat
      BY <3>1 DEF Runnable
    <3> QED
      BY <1>3, <3>1, <3>2
  <2>2. Self.kind \in ExprKind \cup {"ExprStmt", "If", "While", "For", "Block", "VarDecl",
                                     "FuncDecl", "Return"}
    BY <2>1, HeadFacts, NodeFields DEF Self
  <2>3. Visit(Self.kind)
    BY <1>1, <1>3 DEF Visit
  <2> QED
    BY <2>2, <2>3 DEF VisitorApplies
<1> QED
  BY <1>2, <1>3

LEMMA SomeVisitorApplies ==
  ASSUME InterpreterInv, Running
  PROVE  VisitorApplies /\ ClassesMatch
<1>1. Sane
  BY DEF InterpreterInv
<1>2. ClassesMatch
  BY <1>1, HeadFacts DEF ClassesMatch, Doing
<1>3. CASE control = <<>>
  BY <1>2, <1>3 DEF VisitorApplies
<1>4. CASE control # <<>>
  <2>1. Head(control) \in Activation
    BY <1>1, <1>4, HeadFacts
  <2>2. CASE Head(control).do \in {"execute", "evaluate"}
    BY <1>1, <1>2, <1>4, <2>2, VisitApplies
  <2>3. CASE Head(control).do = "resume"
    BY <1>1, <1>2, <1>4, <2>3, ResumeApplies
  <2>4. CASE Head(control).do \in {"discard", "checkCallee", "copyArg"}
    <3>1. Pops(nodes, Head(control)) = Anything
      BY <2>4 DEF Pops
    <3>2. Len(locals) >= 1
      BY <1>1, <1>4, <3>1, LocalsThere, NoKinds
    <3> QED
      BY <1>2, <1>4, <2>4, <3>2 DEF VisitorApplies, Doing
  <2>5. CASE IsEnd(Head(control))
    BY <1>2, <1>4, <2>5, EndApplies
  <2>6. Head(control).do \in {"execute", "evaluate", "resume", "discard", "checkCallee", "copyArg",
                              "block", "call"}
    BY <2>1 DEF Activation
  <2> QED
    BY <2>2, <2>3, <2>4, <2>5, <2>6 DEF IsEnd
<1> QED
  BY <1>2, <1>3, <1>4

\* The interpreter is never stuck, nor does it cast or pop what is not there:
\* until it has finished, crashed or thrown, one visitor's guard holds, the node
\* is of the class that execute or evaluate casts it to, and the operands
\* that the visitor pops from the value stack, the scopes that a block or a call
\* leaves, and the block of a function that is called are there.
THEOREM VisitorsNeverStuck == Spec => [](Running => VisitorApplies /\ ClassesMatch)
<1>1. MinijscInv => (Running => VisitorApplies /\ ClassesMatch)
  BY SomeVisitorApplies DEF MinijscInv
<1> QED
  BY <1>1, MinijscInvariant, PTL

===============================================================================
