----------------------------- MODULE ProofBasics ------------------------------
(***************************************************************************)
(* Facts about numbers and sequences that the proof modules share.         *)
(***************************************************************************)
EXTENDS Integers, SequencesExt, SequenceTheorems, WellFoundedInduction, TLAPS

LessThan == {pair \in Nat \X Nat : pair[1] < pair[2]}

LEMMA LessThanWellFounded == IsWellFoundedOn(LessThan, Nat)
  BY NatLessThanWellFounded DEF OpToRel, LessThan

\* A set of natural numbers that is not empty has a least element.
LEMMA LeastNatural ==
  ASSUME NEW S \in SUBSET Nat, S # {}
  PROVE  \E m \in S : \A k \in S : m <= k
<1>1. PICK m \in S : \A k \in S : ~ (<<k, m>> \in LessThan)
  BY LessThanWellFounded, WFMin
<1>2. ASSUME NEW k \in S PROVE m <= k
  <2>1. ~ (<<k, m>> \in LessThan)
    BY <1>1
  <2>2. k < m => <<k, m>> \in LessThan
    BY DEF LessThan
  <2> QED
    BY <2>1, <2>2
<1> QED
  BY <1>2

\* A bounded set of natural numbers that is not empty has a greatest element.
LEMMA MaxFacts ==
  ASSUME NEW n \in Nat, NEW I \in SUBSET (0 .. n), I # {}
  PROVE  /\ Max(I) \in I
         /\ \A i \in I : i <= Max(I)
<1> DEFINE below == {n - i : i \in I}
<1>1. \A i \in I : n - i \in below
  OBVIOUS
<1>2. below \in SUBSET Nat
  OBVIOUS
<1>3. below # {}
  BY <1>1
<1>4. PICK m \in below : \A k \in below : m <= k
  BY <1>2, <1>3, LeastNatural
<1>5. PICK j \in I : m = n - j
  OBVIOUS
<1> HIDE DEF below
<1>6. \A i \in I : i <= j
  BY <1>1, <1>4, <1>5
<1> QED
  BY <1>6 DEF Max

\* A prefix keeps its elements in place.
LEMMA PrefixFacts ==
  ASSUME NEW S, NEW s \in Seq(S), NEW n \in 0 .. Len(s)
  PROVE  /\ SubSeq(s, 1, n) \in Seq(S)
         /\ Len(SubSeq(s, 1, n)) = n
         /\ \A i \in 1 .. n : SubSeq(s, 1, n)[i] = s[i]
  OBVIOUS

\* Popping the last element keeps the others in place.
LEMMA FrontFacts ==
  ASSUME NEW S, NEW s \in Seq(S), s # <<>>
  PROVE  /\ Front(s) \in Seq(S)
         /\ Len(Front(s)) = Len(s) - 1
         /\ \A i \in 1 .. Len(s) - 1 : Front(s)[i] = s[i]
<1> DEFINE n == Len(s) - 1
<1>1. n \in 0 .. Len(s)
  BY EmptySeq
<1> HIDE DEF n
<1>2. /\ SubSeq(s, 1, n) \in Seq(S)
      /\ Len(SubSeq(s, 1, n)) = n
      /\ \A i \in 1 .. n : SubSeq(s, 1, n)[i] = s[i]
  BY <1>1, PrefixFacts
<1> QED
  BY <1>2 DEF Front, n
===============================================================================
