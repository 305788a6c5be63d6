------------------------------- MODULE GCProofs -------------------------------
(***************************************************************************)
(* Proofs about GC, for every set of addresses, stack capacity and         *)
(* threshold.                                                              *)
(***************************************************************************)
EXTENDS GC, ProofBasics, FiniteSetTheorems

(***************************************************************************)
(* Reachability, from a set R of roots through the fields K.               *)
(***************************************************************************)

Closed(R, K, S) ==
  /\ R \subseteq S
  /\ \A o \in S : ToSet(K[o]) \subseteq S

Reach(R, K) == {o \in Object : \A S \in SUBSET Object : Closed(R, K, S) => o \in S}

LEMMA InUseIsReach == H!InUse = Reach(ToSet(stack), kids)
  BY DEF H!InUse, H!InUseClosed, H!ToSet, ToSet, Reach, Closed

LEMMA FieldsAreSequences ==
  ASSUME NEW f \in H!Fields
  PROVE  /\ f \in Seq(Object)
         /\ Len(f) <= 2
         /\ f # <<>> => f \in [1 .. 2 -> Object] /\ Len(f) = 2
<1>1. CASE f = <<>>
  BY <1>1
<1>2. CASE f \in [1 .. 2 -> Object]
  <2>1. f \in Seq(Object)
    <3>1. 2 \in Nat
      OBVIOUS
    <3>2. f \in UNION {[1 .. n -> Object] : n \in Nat}
      BY <1>2, <3>1, Zenon
    <3> QED
      BY <3>2, SeqDef, Zenon
  <2>2. Len(f) = 2
    BY <1>2, <2>1, LenProperties
  <2> QED
    BY <1>2, <2>1, <2>2
<1> QED
  BY <1>1, <1>2 DEF H!Fields

LEMMA ElementsOfSeq ==
  ASSUME NEW S, NEW s \in Seq(S)
  PROVE  ToSet(s) \subseteq S
  BY DEF ToSet

\* What can be reached is closed, and nothing smaller is.
LEMMA ReachClosed ==
  ASSUME NEW R \in SUBSET Object, NEW K \in [Object -> H!Fields]
  PROVE  /\ Reach(R, K) \in SUBSET Object
         /\ Closed(R, K, Reach(R, K))
<1>1. ASSUME NEW o \in Object PROVE ToSet(K[o]) \subseteq Object
  BY FieldsAreSequences, ElementsOfSeq
<1>2. R \subseteq Reach(R, K)
  BY DEF Reach, Closed
<1>3. ASSUME NEW o \in Reach(R, K), NEW x \in ToSet(K[o]) PROVE x \in Reach(R, K)
  <2>1. o \in Object /\ x \in Object
    BY <1>1, <1>3 DEF Reach
  <2>2. ASSUME NEW S \in SUBSET Object, Closed(R, K, S) PROVE x \in S
    BY <1>3, <2>2 DEF Reach, Closed
  <2> QED
    BY <2>1, <2>2 DEF Reach
<1> QED
  BY <1>2, <1>3 DEF Reach, Closed

LEMMA ReachLeast ==
  ASSUME NEW R, NEW K, NEW S \in SUBSET Object, Closed(R, K, S)
  PROVE  Reach(R, K) \subseteq S
  BY DEF Reach

\* Fields of objects that cannot be reached do not matter.
LEMMA ReachUnchanged ==
  ASSUME NEW R \in SUBSET Object, NEW K \in [Object -> H!Fields],
         NEW L \in [Object -> H!Fields],
         \A o \in Reach(R, K) : L[o] = K[o]
  PROVE  Reach(R, L) = Reach(R, K)
<1>1. Closed(R, K, Reach(R, K)) /\ Reach(R, K) \in SUBSET Object
  BY ReachClosed
<1>2. Closed(R, L, Reach(R, L)) /\ Reach(R, L) \in SUBSET Object
  BY ReachClosed
<1>3. Reach(R, L) \subseteq Reach(R, K)
  <2>1. Closed(R, L, Reach(R, K))
    BY <1>1 DEF Closed
  <2> QED
    BY <1>1, <2>1, ReachLeast
<1>4. Reach(R, K) \subseteq Reach(R, L)
  <2> DEFINE S == Reach(R, K) \cap Reach(R, L)
  <2>1. Closed(R, K, S)
    BY <1>1, <1>2 DEF Closed
  <2>2. S \in SUBSET Object
    BY <1>1
  <2>3. Reach(R, K) \subseteq S
    BY <2>1, <2>2, ReachLeast
  <2> QED
    BY <2>3
<1> QED
  BY <1>3, <1>4

\* Allocating: the new object is reached at most by itself.
LEMMA ReachExtended ==
  ASSUME NEW R \in SUBSET Object, NEW K \in [Object -> H!Fields],
         NEW o \in Object, NEW f \in H!Fields, ToSet(f) \subseteq R,
         NEW Q \in SUBSET Object, Q \subseteq R \cup {o}
  PROVE  Reach(Q, [K EXCEPT ![o] = f]) \subseteq Reach(R, K) \cup {o}
<1> DEFINE S == Reach(R, K) \cup {o}
<1>1. Closed(R, K, Reach(R, K)) /\ S \in SUBSET Object
  BY ReachClosed
<1>2. Q \subseteq S
  BY <1>1 DEF Closed
<1>3. ASSUME NEW x \in S PROVE ToSet([K EXCEPT ![o] = f][x]) \subseteq S
  BY <1>1 DEF Closed
<1>4. Closed(Q, [K EXCEPT ![o] = f], S)
  BY <1>2, <1>3 DEF Closed
<1> QED
  BY <1>1, <1>4, ReachLeast

\* Storing a reachable object makes nothing else reachable.
LEMMA ReachStored ==
  ASSUME NEW R \in SUBSET Object, NEW K \in [Object -> H!Fields],
         NEW a \in Object, K[a] # <<>>, NEW i \in 1 .. 2, NEW b \in Reach(R, K)
  PROVE  /\ [K EXCEPT ![a][i] = b] \in [Object -> H!Fields]
         /\ Reach(R, [K EXCEPT ![a][i] = b]) \subseteq Reach(R, K)
<1> DEFINE L == [K EXCEPT ![a][i] = b]
<1>1. Closed(R, K, Reach(R, K)) /\ Reach(R, K) \in SUBSET Object
  BY ReachClosed
<1>2. K[a] \in [1 .. 2 -> Object]
  BY FieldsAreSequences
<1>3. /\ L \in [Object -> H!Fields]
      /\ L[a] = [K[a] EXCEPT ![i] = b]
      /\ \A x \in Object : x # a => L[x] = K[x]
  BY <1>1, <1>2 DEF H!Fields
<1> HIDE DEF L
<1>4. ToSet(L[a]) \subseteq ToSet(K[a]) \cup {b}
  BY <1>2, <1>3 DEF ToSet
<1>5. Closed(R, L, Reach(R, K))
  BY <1>1, <1>3, <1>4 DEF Closed
<1>6. Reach(R, L) \subseteq Reach(R, K)
  BY <1>1, <1>5, ReachLeast
<1> QED
  BY <1>3, <1>6 DEF L

(***************************************************************************)
(* Sequences as sets.                                                      *)
(***************************************************************************)

LEMMA ElementsAreIndexed ==
  ASSUME NEW S, NEW s \in Seq(S)
  PROVE  /\ \A i \in 1 .. Len(s) : s[i] \in ToSet(s)
         /\ \A x \in ToSet(s) : \E i \in 1 .. Len(s) : x = s[i]
  BY DEF ToSet

LEMMA HeadTailFacts ==
  ASSUME NEW S, NEW s \in Seq(S), s # <<>>
  PROVE  /\ Head(s) \in S
         /\ Tail(s) \in Seq(S)
         /\ Len(Tail(s)) = Len(s) - 1
         /\ ToSet(s) = {Head(s)} \cup ToSet(Tail(s))
<1>0. Tail(s) \in Seq(S)
  OBVIOUS
<1> PICK t \in Seq(S) : t = Tail(s)
  BY <1>0
<1>1. /\ Head(s) = s[1] /\ Len(s) \in Nat /\ Len(s) >= 1
      /\ s[1] \in S
      /\ Len(t) = Len(s) - 1
      /\ \A i \in 1 .. Len(s) - 1 : t[i] = s[i + 1]
  OBVIOUS
<1>2. ASSUME NEW i \in 1 .. Len(s)
      PROVE  s[i] \in {Head(s)} \cup ToSet(t)
  <2>1. CASE i = 1
    BY <1>1, <2>1
  <2>2. CASE i # 1
    <3>1. i - 1 \in 1 .. Len(t) /\ t[i - 1] = s[i]
      BY <1>1, <2>2
    <3> QED
      BY <3>1, ElementsAreIndexed
  <2> QED
    BY <2>1, <2>2
<1>3. ASSUME NEW i \in 1 .. Len(t) PROVE t[i] \in ToSet(s)
  <2>1. i + 1 \in 1 .. Len(s) /\ t[i] = s[i + 1]
    BY <1>1
  <2> QED
    BY <2>1, ElementsAreIndexed
<1>4. ToSet(t) \subseteq ToSet(s)
  BY <1>3, ElementsAreIndexed
<1>5. ToSet(s) \subseteq {Head(s)} \cup ToSet(t)
  BY <1>2, ElementsAreIndexed
<1>6. Head(s) \in ToSet(s)
  BY <1>1, ElementsAreIndexed
<1> QED
  BY <1>1, <1>4, <1>5, <1>6

LEMMA ConcatIndex ==
  ASSUME NEW S, NEW s \in Seq(S), NEW t \in Seq(S)
  PROVE  /\ s \o t \in Seq(S)
         /\ Len(s \o t) = Len(s) + Len(t)
         /\ \A i \in 1 .. Len(s) : (s \o t)[i] = s[i]
         /\ \A i \in 1 .. Len(t) : (s \o t)[Len(s) + i] = t[i]
  OBVIOUS

LEMMA ConcatFacts ==
  ASSUME NEW S, NEW s \in Seq(S), NEW t \in Seq(S)
  PROVE  /\ s \o t \in Seq(S)
         /\ Len(s \o t) = Len(s) + Len(t)
         /\ ToSet(s \o t) = ToSet(s) \cup ToSet(t)
<1>1. /\ s \o t \in Seq(S)
      /\ Len(s \o t) = Len(s) + Len(t)
      /\ \A i \in 1 .. Len(s) : (s \o t)[i] = s[i]
      /\ \A i \in 1 .. Len(t) : (s \o t)[Len(s) + i] = t[i]
  BY ConcatIndex
<1>2. ASSUME NEW i \in 1 .. Len(s) + Len(t)
      PROVE  (s \o t)[i] \in ToSet(s) \cup ToSet(t)
  <2>1. CASE i <= Len(s)
    BY <1>1, <2>1, ElementsAreIndexed
  <2>2. CASE i > Len(s)
    <3>1. i - Len(s) \in 1 .. Len(t) /\ (s \o t)[i] = t[i - Len(s)]
      BY <1>1, <2>2
    <3> QED
      BY <3>1, ElementsAreIndexed
  <2> QED
    BY <2>1, <2>2
<1> PICK r \in Seq(S) : r = s \o t
  BY <1>1
<1>3. \A i \in 1 .. Len(s) : i \in 1 .. Len(r) /\ r[i] = s[i]
  BY <1>1
<1>4. \A i \in 1 .. Len(t) : Len(s) + i \in 1 .. Len(r) /\ r[Len(s) + i] = t[i]
  BY <1>1
<1>5. ASSUME NEW x \in ToSet(r) PROVE x \in ToSet(s) \cup ToSet(t)
  <2>1. PICK i \in 1 .. Len(r) : x = r[i]
    BY ElementsAreIndexed
  <2> QED
    BY <1>1, <1>2, <2>1
<1>6. \A i \in 1 .. Len(s) : s[i] \in ToSet(r)
  BY <1>3, ElementsAreIndexed
<1>7. \A i \in 1 .. Len(t) : t[i] \in ToSet(r)
  BY <1>4, ElementsAreIndexed
<1>8. ToSet(s) \subseteq ToSet(r)
  BY <1>6, ElementsAreIndexed
<1>9. ToSet(t) \subseteq ToSet(r)
  BY <1>7, ElementsAreIndexed
<1>10. ToSet(r) = ToSet(s) \cup ToSet(t)
  BY <1>5, <1>8, <1>9
<1> QED
  BY <1>1, <1>10

\* Unlinking an element moves those behind it up by one.
LEMMA RemoveAtFacts ==
  ASSUME NEW S, NEW s \in Seq(S), NEW i \in 1 .. Len(s)
  PROVE  /\ RemoveAt(s, i) \in Seq(S)
         /\ Len(RemoveAt(s, i)) = Len(s) - 1
         /\ \A j \in 1 .. i - 1 : RemoveAt(s, i)[j] = s[j]
         /\ \A j \in i .. Len(s) - 1 : RemoveAt(s, i)[j] = s[j + 1]
<1>a. /\ SubSeq(s, 1, i - 1) \in Seq(S)
      /\ Len(SubSeq(s, 1, i - 1)) = i - 1
      /\ \A j \in 1 .. i - 1 : SubSeq(s, 1, i - 1)[j] = s[j]
  OBVIOUS
<1>b. /\ SubSeq(s, i + 1, Len(s)) \in Seq(S)
      /\ Len(SubSeq(s, i + 1, Len(s))) = Len(s) - i
      /\ \A j \in 1 .. Len(s) - i : SubSeq(s, i + 1, Len(s))[j] = s[i + j]
  OBVIOUS
<1>1. PICK t \in Seq(S) : /\ t = SubSeq(s, 1, i - 1)
                          /\ Len(t) = i - 1
                          /\ \A j \in 1 .. i - 1 : t[j] = s[j]
  BY <1>a
<1>2. PICK u \in Seq(S) : /\ u = SubSeq(s, i + 1, Len(s))
                          /\ Len(u) = Len(s) - i
                          /\ \A j \in 1 .. Len(s) - i : u[j] = s[i + j]
  BY <1>b
<1>3. RemoveAt(s, i) = t \o u
  BY <1>1, <1>2 DEF RemoveAt
<1>4. /\ t \o u \in Seq(S)
      /\ Len(t \o u) = Len(t) + Len(u)
      /\ \A j \in 1 .. Len(t) : (t \o u)[j] = t[j]
      /\ \A j \in 1 .. Len(u) : (t \o u)[Len(t) + j] = u[j]
  BY ConcatIndex
<1>5. ASSUME NEW j \in i .. Len(s) - 1 PROVE (t \o u)[j] = s[j + 1]
  <2>0. j - (i - 1) \in 1 .. Len(u) /\ j = Len(t) + (j - (i - 1))
    BY <1>1, <1>2
  <2>1. (t \o u)[j] = u[j - (i - 1)]
    BY <1>4, <2>0
  <2>2. j - (i - 1) \in 1 .. Len(s) - i /\ i + (j - (i - 1)) = j + 1
    OBVIOUS
  <2> QED
    BY <1>2, <2>1, <2>2
<1>6. Len(t \o u) = Len(s) - 1
  <2>1. Len(s) \in Nat /\ i \in Nat /\ (i - 1) + (Len(s) - i) = Len(s) - 1
    BY LenProperties
  <2> QED
    BY <1>1, <1>2, <1>4, <2>1
<1>7. \A j \in 1 .. i - 1 : (t \o u)[j] = s[j]
  BY <1>1, <1>4
<1> QED
  BY <1>3, <1>4, <1>5, <1>6, <1>7

\* So nothing but that element goes.
LEMMA RemoveAtSet ==
  ASSUME NEW S, NEW s \in Seq(S), NEW i \in 1 .. Len(s)
  PROVE  ToSet(s) \ {s[i]} \subseteq ToSet(RemoveAt(s, i))
<1> PICK t \in Seq(S) : t = RemoveAt(s, i)
  BY RemoveAtFacts
<1>1. /\ Len(t) = Len(s) - 1
      /\ \A j \in 1 .. i - 1 : t[j] = s[j]
      /\ \A j \in i .. Len(s) - 1 : t[j] = s[j + 1]
  BY RemoveAtFacts
<1>2. ASSUME NEW j \in 1 .. Len(s), j # i PROVE s[j] \in ToSet(t)
  <2>1. CASE j < i
    <3>1. j \in 1 .. Len(t) /\ t[j] = s[j]
      BY <1>1, <2>1
    <3> QED
      BY <3>1, ElementsAreIndexed
  <2>2. CASE j > i
    <3>1. j - 1 \in 1 .. Len(t) /\ j - 1 \in i .. Len(s) - 1
      BY <1>1, <2>2
    <3>2. t[j - 1] = s[(j - 1) + 1] /\ (j - 1) + 1 = j
      BY <1>1, <3>1
    <3> QED
      BY <3>1, <3>2, ElementsAreIndexed
  <2> QED
    BY <1>2, <2>1, <2>2
<1> QED
  BY <1>2, ElementsAreIndexed

(***************************************************************************)
(* The inductive invariant.                                                *)
(***************************************************************************)

\* The threshold leaves room for the object about to be allocated.
RoomToAllocate ==
  /\ maxObjects > 0
  /\ phase = "alloc" => numObjects < maxObjects /\ pending \in {"int", "pair"}

\* While marking: what is marked, or has still to be visited, is in use, holds
\* the roots, and is closed but for the fields of what has to be visited.
Marking ==
  /\ IsFiniteSet(marked)
  /\ phase = "mark" =>
       /\ ToSet(stack) \subseteq marked \cup ToSet(work)
       /\ \A o \in marked : ToSet(kids[o]) \subseteq marked \cup ToSet(work)
       /\ marked \cup ToSet(work) \subseteq H!InUse

\* While sweeping: behind the cursor there is nothing but objects in use;
\* ahead of it the marks are exactly on those; and no mark is elsewhere.
Sweeping ==
  phase = "sweep" =>
    /\ cursor <= Len(list) + 1
    /\ \A i \in 1 .. cursor - 1 : list[i] \in H!InUse
    /\ \A i \in cursor .. Len(list) : list[i] \in marked <=> list[i] \in H!InUse
    /\ \A o \in marked : \E i \in cursor .. Len(list) : o = list[i]

\* The collection of freeVM has no roots.
Freeing ==
  pending = "free" => stack = <<>> /\ phase \in {"mark", "sweep", "freed"}

IndInv ==
  /\ TypeOK
  /\ NoDangling
  /\ ListExact
  /\ ThresholdHolds
  /\ MarksCleared
  /\ WorkBounded
  /\ NothingLeaks
  /\ RoomToAllocate
  /\ Marking
  /\ Sweeping
  /\ Freeing

(***************************************************************************)
(* What is in use.                                                         *)
(***************************************************************************)

LEMMA InUseIsReachNext == H!InUse' = Reach(ToSet(stack'), kids')
  BY DEF H!InUse, H!InUseClosed, H!ToSet, ToSet, Reach, Closed

LEMMA InUseFacts ==
  ASSUME TypeOK
  PROVE  /\ ToSet(stack) \in SUBSET Object
         /\ H!InUse \in SUBSET Object
         /\ ToSet(stack) \subseteq H!InUse
         /\ \A o \in H!InUse : ToSet(kids[o]) \subseteq H!InUse
<1>1. ToSet(stack) \in SUBSET Object /\ kids \in [Object -> H!Fields]
  BY ElementsOfSeq DEF TypeOK
<1> QED
  BY <1>1, InUseIsReach, ReachClosed DEF Closed

\* With the roots and the fields, what is in use stays the same.
LEMMA InUseUnchanged ==
  ASSUME UNCHANGED <<stack, kids>>
  PROVE  H!InUse' = H!InUse
  BY InUseIsReach, InUseIsReachNext

\* An object that is not in use can be cleared.
LEMMA InUseWithout ==
  ASSUME TypeOK, NEW o \in Object, o \notin H!InUse,
         UNCHANGED stack, kids' = [kids EXCEPT ![o] = <<>>]
  PROVE  /\ kids' \in [Object -> H!Fields]
         /\ H!InUse' = H!InUse
<1>1. ToSet(stack) \in SUBSET Object /\ kids \in [Object -> H!Fields]
  BY ElementsOfSeq DEF TypeOK
<1>2. kids' \in [Object -> H!Fields]
  BY <1>1 DEF H!Fields
<1>3. \A x \in Reach(ToSet(stack), kids) : kids'[x] = kids[x]
  BY <1>1, InUseIsReach DEF Reach
<1>4. Reach(ToSet(stack), kids') = Reach(ToSet(stack), kids)
  BY <1>1, <1>2, <1>3, ReachUnchanged
<1> QED
  BY <1>2, <1>4, InUseIsReach, InUseIsReachNext

(***************************************************************************)
(* The steps, one lemma for each.                                          *)
(***************************************************************************)

\* The beginning of a collection, with the stack as it is or emptied.
LEMMA StartGCStep ==
  ASSUME IndInv, phase = "idle",
         phase' = "mark", work' = stack', UNCHANGED <<heapVars, maxObjects, cursor>>,
         \/ UNCHANGED stack /\ pending' \in {"none", "int", "pair"}
         \/ stack' = <<>> /\ pending' = "free"
  PROVE  IndInv'
<1> USE DEF IndInv, heapVars
<1>0. stack' \in Seq(Object)
  BY EmptySeq DEF TypeOK
<1>1. TypeOK'
  BY <1>0 DEF TypeOK
<1>2. ToSet(stack') \subseteq H!InUse' /\ ToSet(work') \subseteq H!InUse'
  <2>1. ToSet(stack') \in SUBSET Object /\ kids' \in [Object -> H!Fields]
    BY <1>1, ElementsOfSeq DEF TypeOK
  <2> QED
    BY <2>1, InUseIsReachNext, ReachClosed DEF Closed
<1>3. H!InUse' \subseteq H!InUse
  <2>1. CASE UNCHANGED stack
    BY <2>1, InUseUnchanged
  <2>2. CASE stack' = <<>>
    <3>1. ToSet(stack') \subseteq ToSet(stack)
      BY <2>2 DEF ToSet
    <3>2. Closed(ToSet(stack'), kids', H!InUse) /\ H!InUse \in SUBSET Object
      BY <3>1, InUseFacts DEF Closed
    <3> QED
      BY <3>2, ReachLeast, InUseIsReachNext
  <2> QED
    BY <2>1, <2>2
<1>4. NoDangling'
  BY <1>3 DEF NoDangling
<1>5. ListExact' /\ ThresholdHolds' /\ MarksCleared' /\ NothingLeaks'
  BY DEF ListExact, ThresholdHolds, MarksCleared, NothingLeaks
<1>6. marked = {} /\ marked' = {}
  BY DEF MarksCleared
<1>7. WorkBounded'
  <2>1. Cardinality(marked') = 0 /\ Len(stack') \in Nat
    BY <1>1, <1>6, FS_EmptySet, LenProperties DEF TypeOK
  <2> QED
    BY <2>1 DEF WorkBounded
<1>8. RoomToAllocate' /\ Sweeping' /\ Freeing'
  BY DEF RoomToAllocate, Sweeping, Freeing
<1>9. Marking'
  BY <1>2, <1>6 DEF Marking
<1> QED
  BY <1>1, <1>4, <1>5, <1>7, <1>8, <1>9

\* A request that finds room.
LEMMA RequestStep ==
  ASSUME IndInv, phase = "idle", numObjects # maxObjects,
         phase' = "alloc", pending' \in {"int", "pair"},
         UNCHANGED <<stack, heapVars, maxObjects, work, cursor>>
  PROVE  IndInv'
<1> USE DEF IndInv, heapVars
<1>1. TypeOK'
  BY DEF TypeOK
<1>2. NoDangling'
  BY InUseUnchanged DEF NoDangling
<1>3. ListExact' /\ ThresholdHolds' /\ MarksCleared' /\ NothingLeaks' /\ WorkBounded'
  BY DEF ListExact, ThresholdHolds, MarksCleared, NothingLeaks, WorkBounded
<1>4. RoomToAllocate'
  BY DEF RoomToAllocate, ThresholdHolds, TypeOK
<1>5. Marking' /\ Sweeping' /\ Freeing'
  BY DEF Marking, Sweeping, Freeing
<1> QED
  BY <1>1, <1>2, <1>3, <1>4, <1>5

\* pop.
LEMMA PopStep ==
  ASSUME IndInv, Pop
  PROVE  IndInv'
<1> USE DEF IndInv, heapVars
<1> PICK s \in Seq(Object) : s = stack
  BY DEF TypeOK
<1>0. /\ stack' \in Seq(Object) /\ phase' \in {"idle", "exited"} /\ phase = "idle"
      /\ ToSet(stack') \subseteq ToSet(s)
  <2>1. CASE s = <<>>
    BY <2>1 DEF Pop
  <2>2. CASE s # <<>>
    <3>1. PICK t \in Seq(Object) : /\ t = Front(s)
                                   /\ Len(t) = Len(s) - 1
                                   /\ \A i \in 1 .. Len(s) - 1 : t[i] = s[i]
      BY <2>2, FrontFacts
    <3>2. \A i \in 1 .. Len(t) : t[i] \in ToSet(s)
      BY <3>1, ElementsAreIndexed
    <3>3. ToSet(t) \subseteq ToSet(s)
      BY <3>2, ElementsAreIndexed
    <3> QED
      BY <2>2, <3>1, <3>3 DEF Pop
  <2> QED
    BY <2>1, <2>2
<1>1. TypeOK'
  BY <1>0 DEF Pop, TypeOK
<1>2. Closed(ToSet(stack'), kids', H!InUse) /\ H!InUse \in SUBSET Object
  BY <1>0, InUseFacts DEF Closed, Pop
<1>3. H!InUse' \subseteq H!InUse
  BY <1>2, ReachLeast, InUseIsReachNext
<1>4. NoDangling'
  BY <1>3 DEF NoDangling, Pop
<1>5. /\ ListExact' /\ ThresholdHolds' /\ MarksCleared' /\ NothingLeaks'
      /\ WorkBounded' /\ RoomToAllocate'
  BY <1>0 DEF ListExact, ThresholdHolds, MarksCleared, NothingLeaks, WorkBounded,
              RoomToAllocate, Pop
<1>6. Marking' /\ Sweeping' /\ Freeing'
  BY <1>0 DEF Marking, Sweeping, Freeing, Pop
<1> QED
  BY <1>1, <1>4, <1>5, <1>6

\* The client stores into a pair.
LEMMA SetFieldStep ==
  ASSUME IndInv, NEW a \in Object, NEW b \in Object, NEW i \in 1 .. 2,
         SetField(a, i, b)
  PROVE  IndInv'
<1> USE DEF IndInv, heapVars, gcVars
<1>0. ToSet(stack) \in SUBSET Object /\ kids \in [Object -> H!Fields]
  BY ElementsOfSeq DEF TypeOK
<1>1. /\ kids' \in [Object -> H!Fields]
      /\ H!InUse' \subseteq H!InUse
  <2>1. b \in Reach(ToSet(stack), kids) /\ kids[a] # <<>>
    BY InUseIsReach DEF SetField
  <2>2. /\ [kids EXCEPT ![a][i] = b] \in [Object -> H!Fields]
        /\ Reach(ToSet(stack), [kids EXCEPT ![a][i] = b]) \subseteq Reach(ToSet(stack), kids)
    BY <1>0, <2>1, ReachStored
  <2> QED
    BY <2>2, InUseIsReach, InUseIsReachNext DEF SetField
<1>2. TypeOK'
  BY <1>1 DEF SetField, TypeOK
<1>3. NoDangling'
  BY <1>1 DEF NoDangling, SetField
<1>4. /\ ListExact' /\ ThresholdHolds' /\ MarksCleared' /\ NothingLeaks'
      /\ WorkBounded' /\ RoomToAllocate'
  BY DEF ListExact, ThresholdHolds, MarksCleared, NothingLeaks, WorkBounded,
         RoomToAllocate, SetField
<1>5. Marking' /\ Sweeping' /\ Freeing'
  BY DEF Marking, Sweeping, Freeing, SetField
<1> QED
  BY <1>2, <1>3, <1>4, <1>5

\* One call of mark.
LEMMA MarkStep ==
  ASSUME IndInv, Mark
  PROVE  IndInv'
<1>0. ASSUME NEW s \in Seq(Object), NEW t \in Seq(Object)
      PROVE  /\ s \o t \in Seq(Object)
             /\ Len(s \o t) = Len(s) + Len(t)
             /\ ToSet(s \o t) = ToSet(s) \cup ToSet(t)
  BY ConcatFacts
<1> USE DEF IndInv, heapVars
<1> PICK w \in Seq(Object) : w = work
  BY DEF TypeOK
<1> DEFINE o == Head(w)
<1>1. /\ o \in Object /\ Tail(w) \in Seq(Object) /\ Len(Tail(w)) = Len(w) - 1
      /\ ToSet(w) = {o} \cup ToSet(Tail(w))
  BY HeadTailFacts DEF Mark
<1> PICK t \in Seq(Object) : t = Tail(w)
  BY <1>1
<1>2. PICK k \in Seq(Object) : k = kids[o] /\ Len(k) <= 2
  BY <1>1, FieldsAreSequences DEF TypeOK
<1>3. PICK v \in Seq(Object) :
        /\ v = work'
        /\ Len(v) <= Len(w) + (IF o \in marked THEN 0 ELSE 1)
        /\ marked' = marked \cup {o}
        /\ ToSet(v) = IF o \in marked THEN ToSet(t) ELSE ToSet(k) \cup ToSet(t)
  <2>1. CASE o \in marked
    <3>1. Len(t) <= Len(w) + 0
      BY <1>1, LenProperties
    <3>2. work' = t /\ marked' = marked \cup {o}
      BY <2>1 DEF Mark
    <3> QED
      BY <2>1, <3>1, <3>2
  <2>2. CASE o \notin marked
    <3>1. /\ k \o t \in Seq(Object)
          /\ Len(k \o t) = Len(k) + Len(t)
          /\ ToSet(k \o t) = ToSet(k) \cup ToSet(t)
      BY <1>0
    <3>2. Len(k \o t) <= Len(w) + 1
      BY <1>1, <1>2, <3>1, LenProperties
    <3>3. work' = k \o t /\ marked' = marked \cup {o}
      BY <1>2, <2>2 DEF Mark
    <3> QED
      BY <2>2, <3>1, <3>2, <3>3
  <2> QED
    BY <2>1, <2>2
<1>4. UNCHANGED <<stack, list, kids, numObjects, maxObjects, phase, pending, cursor>> /\ phase = "mark"
  BY DEF Mark
<1> HIDE DEF o
<1>5. H!InUse' = H!InUse
  BY <1>4, InUseUnchanged
<1>6. TypeOK'
  BY <1>1, <1>3, <1>4 DEF TypeOK
<1>7. NoDangling'
  BY <1>4, <1>5 DEF NoDangling
<1>8. /\ ListExact' /\ ThresholdHolds' /\ MarksCleared' /\ NothingLeaks'
      /\ RoomToAllocate' /\ Sweeping' /\ Freeing'
  BY <1>4 DEF ListExact, ThresholdHolds, MarksCleared, NothingLeaks,
              RoomToAllocate, Sweeping, Freeing
<1>9. /\ IsFiniteSet(marked')
      /\ Cardinality(marked) \in Nat
      /\ Cardinality(marked') = Cardinality(marked) + (IF o \in marked THEN 0 ELSE 1)
  BY <1>3, FS_AddElement, FS_CardinalityType DEF Marking
<1>10. WorkBounded'
  <2>1. Len(w) <= Len(stack) + Cardinality(marked) /\ Len(stack) \in Nat
    BY <1>4, LenProperties DEF WorkBounded, TypeOK
  <2>2. Len(v) \in Nat /\ Len(w) \in Nat
    BY LenProperties
  <2>3. Len(v) <= Len(stack) + Cardinality(marked')
    BY <1>3, <1>9, <2>1, <2>2
  <2> QED
    BY <1>3, <1>4, <2>3 DEF WorkBounded
<1>11. Marking'
  <2>1. /\ ToSet(stack) \subseteq marked \cup ToSet(w)
        /\ \A x \in marked : ToSet(kids[x]) \subseteq marked \cup ToSet(w)
        /\ marked \cup ToSet(w) \subseteq H!InUse
    BY <1>4 DEF Marking
  <2>2. marked \cup ToSet(w) \subseteq marked' \cup ToSet(v)
    BY <1>1, <1>3
  <2>3. ToSet(kids[o]) \subseteq marked' \cup ToSet(v)
    BY <1>2, <1>3, <2>1, <2>2
  <2>4. marked' \cup ToSet(v) \subseteq H!InUse
    <3>1. ToSet(kids[o]) \subseteq H!InUse
      BY <1>1, <2>1, InUseFacts
    <3> QED
      BY <1>1, <1>2, <1>3, <2>1, <3>1
  <2>5. \A x \in marked' : ToSet(kids[x]) \subseteq marked' \cup ToSet(v)
    BY <1>3, <2>1, <2>2, <2>3
  <2> QED
    BY <1>3, <1>4, <1>5, <1>9, <2>1, <2>2, <2>4, <2>5 DEF Marking
<1> QED
  BY <1>6, <1>7, <1>8, <1>10, <1>11

\* With nothing left to visit, what is marked is what is in use.
LEMMA MarkedIsInUse ==
  ASSUME IndInv, phase = "mark", work = <<>>
  PROVE  marked = H!InUse
<1>1. ToSet(work) = {}
  BY DEF ToSet
<1>2. /\ Closed(ToSet(stack), kids, marked) /\ marked \in SUBSET Object
      /\ marked \subseteq H!InUse
  BY <1>1 DEF IndInv, Marking, TypeOK, Closed
<1>3. H!InUse \subseteq marked
  BY <1>2, ReachLeast, InUseIsReach
<1> QED
  BY <1>2, <1>3

LEMMA MarkDoneStep ==
  ASSUME IndInv, MarkDone
  PROVE  IndInv'
<1> USE DEF IndInv, heapVars
<1>1. H!InUse' = H!InUse /\ marked = H!InUse
  BY InUseUnchanged, MarkedIsInUse DEF MarkDone
<1>2. TypeOK'
  BY DEF MarkDone, TypeOK
<1>3. /\ NoDangling' /\ ListExact' /\ ThresholdHolds' /\ MarksCleared'
      /\ NothingLeaks' /\ WorkBounded' /\ RoomToAllocate' /\ Freeing' /\ Marking'
  BY <1>1 DEF MarkDone, NoDangling, ListExact, ThresholdHolds, MarksCleared,
              NothingLeaks, WorkBounded, RoomToAllocate, Freeing, Marking
<1>4. Sweeping'
  <2> PICK l \in Seq(Object) : l = list
    BY DEF TypeOK
  <2>1. \A x \in marked : \E i \in 1 .. Len(l) : x = l[i]
    BY <1>1, ElementsAreIndexed DEF NoDangling
  <2>2. 1 <= Len(l) + 1
    BY LenProperties
  <2> QED
    BY <1>1, <2>1, <2>2 DEF MarkDone, Sweeping
<1> QED
  BY <1>2, <1>3, <1>4

\* sweep frees the object at the cursor.
LEMMA SweepFreesStep ==
  ASSUME IndInv, Sweep, list[cursor] \notin marked
  PROVE  IndInv'
<1>a. ASSUME NEW s \in Seq(Object), NEW i \in 1 .. Len(s)
      PROVE  /\ RemoveAt(s, i) \in Seq(Object)
             /\ Len(RemoveAt(s, i)) = Len(s) - 1
             /\ \A j \in 1 .. i - 1 : RemoveAt(s, i)[j] = s[j]
             /\ \A j \in i .. Len(s) - 1 : RemoveAt(s, i)[j] = s[j + 1]
  BY RemoveAtFacts
<1>b. ASSUME NEW s \in Seq(Object), NEW i \in 1 .. Len(s)
      PROVE  ToSet(s) \ {s[i]} \subseteq ToSet(RemoveAt(s, i))
  BY RemoveAtSet
<1> USE DEF IndInv, heapVars
<1> PICK l \in Seq(Object), c \in Nat \ {0} : l = list /\ c = cursor
  BY DEF TypeOK
<1>0. c \in 1 .. Len(l) /\ l[c] \in Object /\ Len(l) \in Nat
  BY LenProperties DEF Sweep
<1>1. /\ RemoveAt(l, c) \in Seq(Object)
      /\ Len(RemoveAt(l, c)) = Len(l) - 1
      /\ \A j \in 1 .. c - 1 : RemoveAt(l, c)[j] = l[j]
      /\ \A j \in c .. Len(l) - 1 : RemoveAt(l, c)[j] = l[j + 1]
      /\ ToSet(l) \ {l[c]} \subseteq ToSet(RemoveAt(l, c))
  BY <1>0, <1>a, <1>b
<1> PICK m \in Seq(Object) : m = RemoveAt(l, c)
  BY <1>1
<1>2. /\ list' = m /\ kids' = [kids EXCEPT ![l[c]] = <<>>]
      /\ numObjects' = numObjects - 1 /\ phase = "sweep"
      /\ UNCHANGED <<marked, cursor, stack, maxObjects, phase, pending, work>>
  BY DEF Sweep
<1>3. l[c] \notin H!InUse
  BY <1>0, <1>2 DEF Sweeping
<1>4. kids' \in [Object -> H!Fields] /\ H!InUse' = H!InUse
  BY <1>0, <1>2, <1>3, InUseWithout
<1>5. numObjects' \in Nat /\ numObjects' = Len(m)
  BY <1>0, <1>1, <1>2 DEF ListExact
<1>6. TypeOK'
  BY <1>2, <1>4, <1>5 DEF TypeOK
<1>7. NoDangling'
  BY <1>1, <1>2, <1>3, <1>4 DEF NoDangling
<1>8. ListExact'
  <2>1. \A i, j \in 1 .. Len(l) : l[i] = l[j] => i = j
    BY LenProperties DEF ListExact
  <2> DEFINE old(i) == IF i < c THEN i ELSE i + 1
  <2>2. ASSUME NEW i \in 1 .. Len(m) PROVE old(i) \in 1 .. Len(l) /\ m[i] = l[old(i)]
    BY <1>0, <1>1
  <2>3. ASSUME NEW i \in 1 .. Len(m), NEW j \in 1 .. Len(m), m[i] = m[j] PROVE i = j
    <3>1. old(i) = old(j)
      BY <2>1, <2>2, <2>3
    <3>2. i \in Nat /\ j \in Nat
      OBVIOUS
    <3> QED
      BY <3>1, <3>2
  <2> QED
    BY <1>2, <1>5, <2>3, LenProperties DEF ListExact
<1>9. ThresholdHolds'
  BY <1>2 DEF ThresholdHolds, TypeOK
<1>10. MarksCleared' /\ NothingLeaks' /\ WorkBounded' /\ RoomToAllocate' /\ Freeing'
  BY <1>2 DEF MarksCleared, NothingLeaks, WorkBounded, RoomToAllocate, Freeing
<1>11. Marking'
  BY <1>2 DEF Marking
<1>12. Sweeping'
  <2>1. /\ \A i \in 1 .. c - 1 : l[i] \in H!InUse
        /\ \A i \in c .. Len(l) : l[i] \in marked <=> l[i] \in H!InUse
        /\ \A x \in marked : \E i \in c .. Len(l) : x = l[i]
    BY <1>2 DEF Sweeping
  <2>2. c <= Len(m) + 1
    BY <1>0, <1>1
  <2>3. \A i \in 1 .. c - 1 : m[i] \in H!InUse
    BY <1>1, <2>1
  <2>4. ASSUME NEW i \in c .. Len(m) PROVE m[i] \in marked <=> m[i] \in H!InUse
    <3>1. i + 1 \in c .. Len(l) /\ m[i] = l[i + 1]
      BY <1>0, <1>1
    <3> QED
      BY <2>1, <3>1
  <2>5. ASSUME NEW x \in marked PROVE \E i \in c .. Len(m) : x = m[i]
    <3>1. PICK i \in c .. Len(l) : x = l[i]
      BY <2>1
    <3>2. i # c
      BY <1>2, <2>5, <3>1
    <3>3. i - 1 \in c .. Len(m) /\ i - 1 \in c .. Len(l) - 1 /\ (i - 1) + 1 = i
      BY <1>0, <1>1, <3>2
    <3>4. m[i - 1] = l[i]
      BY <1>1, <3>3
    <3> QED
      BY <3>1, <3>3, <3>4
  <2> QED
    BY <1>2, <1>4, <2>2, <2>3, <2>4, <2>5 DEF Sweeping
<1> QED
  BY <1>6, <1>7, <1>8, <1>9, <1>10, <1>11, <1>12

\* sweep moves on past an object that was reached.
LEMMA SweepKeepsStep ==
  ASSUME IndInv, Sweep, list[cursor] \in marked
  PROVE  IndInv'
<1> USE DEF IndInv, heapVars
<1> PICK l \in Seq(Object), c \in Nat \ {0} : l = list /\ c = cursor
  BY DEF TypeOK
<1>0. c \in 1 .. Len(l) /\ Len(l) \in Nat
  BY LenProperties DEF Sweep
<1>1. /\ marked' = marked \ {l[c]} /\ cursor' = c + 1 /\ phase = "sweep"
      /\ UNCHANGED <<list, kids, numObjects, stack, maxObjects, phase, pending, work>>
  BY DEF Sweep
<1>2. H!InUse' = H!InUse
  BY <1>1, InUseUnchanged
<1>3. TypeOK'
  BY <1>1 DEF TypeOK
<1>4. /\ NoDangling' /\ ListExact' /\ ThresholdHolds' /\ MarksCleared'
      /\ NothingLeaks' /\ WorkBounded' /\ RoomToAllocate' /\ Freeing'
  BY <1>1, <1>2 DEF NoDangling, ListExact, ThresholdHolds, MarksCleared,
                    NothingLeaks, WorkBounded, RoomToAllocate, Freeing
<1>5. Marking'
  <2>1. IsFiniteSet(marked')
    BY <1>1, FS_Subset DEF Marking
  <2> QED
    BY <1>1, <2>1 DEF Marking
<1>6. Sweeping'
  <2>1. /\ \A i \in 1 .. c - 1 : l[i] \in H!InUse
        /\ \A i \in c .. Len(l) : l[i] \in marked <=> l[i] \in H!InUse
        /\ \A x \in marked : \E i \in c .. Len(l) : x = l[i]
    BY <1>1 DEF Sweeping
  <2>2. l[c] \in marked
    OBVIOUS
  <2>3. ASSUME NEW i \in 1 .. (c + 1) - 1 PROVE l[i] \in H!InUse
    <3>1. CASE i = c
      BY <1>0, <2>1, <2>2, <3>1
    <3>2. CASE i # c
      BY <2>1, <3>2
    <3> QED
      BY <3>1, <3>2
  <2>4. ASSUME NEW i \in c + 1 .. Len(l)
        PROVE  l[i] \in marked \ {l[c]} <=> l[i] \in H!InUse
    <3>1. l[i] # l[c]
      BY <1>0, LenProperties DEF ListExact
    <3> QED
      BY <2>1, <3>1
  <2>5. ASSUME NEW x \in marked \ {l[c]} PROVE \E i \in c + 1 .. Len(l) : x = l[i]
    <3>1. PICK i \in c .. Len(l) : x = l[i]
      BY <2>1
    <3>2. i \in c + 1 .. Len(l)
      BY <1>0, <2>5, <3>1
    <3> QED
      BY <3>1, <3>2
  <2>6. c + 1 <= Len(l) + 1
    BY <1>0
  <2> QED
    BY <1>1, <1>2, <2>3, <2>4, <2>5, <2>6 DEF Sweeping
<1> QED
  BY <1>3, <1>4, <1>5, <1>6

\* When the cursor is past the end, what the list holds is what is in use.
LEMMA SweptListIsInUse ==
  ASSUME IndInv, phase = "sweep", cursor > Len(list)
  PROVE  ToSet(list) = H!InUse /\ marked = {}
<1> PICK l \in Seq(Object), c \in Nat \ {0} : l = list /\ c = cursor
  BY DEF IndInv, TypeOK
<1>1. c = Len(l) + 1 /\ Len(l) \in Nat
  BY LenProperties DEF IndInv, Sweeping
<1>2. \A i \in 1 .. Len(l) : l[i] \in H!InUse
  BY <1>1 DEF IndInv, Sweeping
<1>3. ToSet(l) \subseteq H!InUse
  BY <1>2, ElementsAreIndexed
<1>4. marked = {}
  BY <1>1 DEF IndInv, Sweeping
<1> QED
  BY <1>3, <1>4 DEF IndInv, NoDangling

LEMMA SweepDoneStep ==
  ASSUME IndInv, SweepDone
  PROVE  IndInv'
<1> USE DEF IndInv, heapVars
<1>1. /\ ToSet(list) = H!InUse /\ marked = {}
      /\ phase = "sweep" /\ UNCHANGED <<stack, list, kids, marked, numObjects, pending, work, cursor>>
  BY SweptListIsInUse DEF SweepDone
<1>2. H!InUse' = H!InUse
  BY <1>1, InUseUnchanged
<1>3. /\ phase' \in {"idle", "alloc", "freed"}
      /\ phase' = "alloc" => pending \in {"int", "pair"}
      /\ phase' = "freed" <=> pending = "free"
  BY DEF SweepDone, TypeOK
<1>4. maxObjects' \in Nat /\ maxObjects' > 0 /\ numObjects < maxObjects'
  BY GCAssumption DEF SweepDone, TypeOK
<1>5. TypeOK'
  BY <1>1, <1>3, <1>4 DEF TypeOK
<1>6. NoDangling' /\ ListExact' /\ MarksCleared' /\ WorkBounded'
  BY <1>1, <1>2, <1>3 DEF NoDangling, ListExact, MarksCleared, WorkBounded
<1>7. ThresholdHolds' /\ RoomToAllocate'
  BY <1>1, <1>3, <1>4 DEF ThresholdHolds, RoomToAllocate, TypeOK
<1>8. NothingLeaks'
  <2> SUFFICES ASSUME phase' = "freed" PROVE list = <<>>
    BY <1>1 DEF NothingLeaks
  <2>1. stack = <<>>
    BY <1>3 DEF Freeing
  <2>2. Closed(ToSet(stack), kids, {})
    BY <2>1 DEF Closed, ToSet
  <2>3. ToSet(list) = {}
    BY <1>1, <2>2, ReachLeast, InUseIsReach
  <2> PICK l \in Seq(Object) : l = list
    BY DEF TypeOK
  <2>4. 1 \notin 1 .. Len(l)
    BY <2>3, ElementsAreIndexed
  <2> QED
    BY <2>4, EmptySeq, LenProperties
<1>9. Marking' /\ Sweeping' /\ Freeing'
  BY <1>1, <1>3 DEF Marking, Sweeping, Freeing
<1> QED
  BY <1>5, <1>6, <1>7, <1>8, <1>9

\* The rest of newObject, with fields the stack held and at most the new
\* object added to the stack.
LEMMA NewObjectStep ==
  ASSUME IndInv, phase = "alloc",
         NEW o \in Object, NEW f \in H!Fields, ToSet(f) \subseteq ToSet(stack),
         NewObject(o, f),
         stack' \in Seq(Object), ToSet(stack') \subseteq ToSet(stack) \cup {o},
         phase' \in {"idle", "exited"}
  PROVE  IndInv'
<1>a. ASSUME NEW s \in Seq(Object), NEW t \in Seq(Object)
      PROVE  /\ s \o t \in Seq(Object)
             /\ Len(s \o t) = Len(s) + Len(t)
             /\ \A i \in 1 .. Len(s) : (s \o t)[i] = s[i]
             /\ \A i \in 1 .. Len(t) : (s \o t)[Len(s) + i] = t[i]
  BY ConcatIndex
<1>b. ASSUME NEW s \in Seq(Object), NEW t \in Seq(Object)
      PROVE  ToSet(s \o t) = ToSet(s) \cup ToSet(t)
  BY ConcatFacts
<1>c. ToSet(<<o>>) = {o}
  BY DEF ToSet
<1> USE DEF IndInv, heapVars
<1> PICK l \in Seq(Object) : l = list
  BY DEF TypeOK
<1>d. <<o>> \in Seq(Object) /\ Len(<<o>>) = 1 /\ <<o>>[1] = o
  OBVIOUS
<1> PICK h \in Seq(Object) : h = <<o>> /\ Len(h) = 1 /\ h[1] = o
  BY <1>d
<1> PICK m \in Seq(Object) : m = h \o l
  BY <1>a
<1>1. /\ Len(m) = Len(l) + 1 /\ Len(l) \in Nat
      /\ m[1] = o
      /\ \A i \in 1 .. Len(l) : m[i + 1] = l[i]
      /\ ToSet(m) = {o} \cup ToSet(l)
  <2>1. /\ Len(h \o l) = Len(h) + Len(l)
        /\ \A i \in 1 .. Len(h) : (h \o l)[i] = h[i]
        /\ \A i \in 1 .. Len(l) : (h \o l)[Len(h) + i] = l[i]
    <3> HIDE DEF IndInv
    <3> QED
      BY <1>a
  <2>2. ToSet(h \o l) = {o} \cup ToSet(l)
    <3>1. ToSet(h) = {o}
      BY <1>c
    <3> HIDE DEF IndInv
    <3>2. ToSet(h \o l) = ToSet(h) \cup ToSet(l)
      BY <1>b
    <3> QED
      BY <3>1, <3>2
  <2>3. Len(l) \in Nat /\ 1 \in 1 .. Len(h)
    BY LenProperties
  <2>4. Len(m) = Len(l) + 1 /\ m[1] = o
    BY <2>1, <2>3
  <2>5. \A i \in 1 .. Len(l) : m[i + 1] = l[i]
    <3>1. \A i \in 1 .. Len(l) : 1 + i = i + 1
      OBVIOUS
    <3> QED
      BY <2>1, <3>1
  <2> QED
    BY <2>2, <2>3, <2>4, <2>5
<1>2. /\ o \notin ToSet(l) /\ list' = m /\ kids' = [kids EXCEPT ![o] = f]
      /\ marked' = {} /\ numObjects' = numObjects + 1 /\ pending' = "none"
      /\ UNCHANGED <<maxObjects, work, cursor>>
  BY DEF NewObject, MarksCleared
<1>3. H!InUse' \subseteq H!InUse \cup {o}
  <2>1. /\ ToSet(stack) \in SUBSET Object /\ kids \in [Object -> H!Fields]
        /\ ToSet(stack') \in SUBSET Object
    BY ElementsOfSeq DEF TypeOK
  <2>2. Reach(ToSet(stack'), [kids EXCEPT ![o] = f]) \subseteq Reach(ToSet(stack), kids) \cup {o}
    BY <2>1, ReachExtended
  <2> QED
    BY <1>2, <2>2, InUseIsReach, InUseIsReachNext
<1>4. TypeOK'
  BY <1>2 DEF TypeOK
<1>5. NoDangling'
  BY <1>1, <1>2, <1>3 DEF NoDangling
<1>6. ListExact'
  <2>1. \A i, j \in 1 .. Len(l) : l[i] = l[j] => i = j
    BY LenProperties DEF ListExact
  <2>2. ASSUME NEW i \in 1 .. Len(m), i # 1
        PROVE  /\ i - 1 \in 1 .. Len(l)
               /\ m[i] = l[i - 1]
               /\ m[i] # o
    <3>1. i - 1 \in 1 .. Len(l) /\ (i - 1) + 1 = i
      BY <1>1, <2>2
    <3>2. m[i] = l[i - 1]
      BY <1>1, <3>1
    <3>3. l[i - 1] \in ToSet(l)
      BY <3>1, ElementsAreIndexed
    <3> QED
      BY <1>2, <3>1, <3>2, <3>3
  <2>3. ASSUME NEW i \in 1 .. Len(m), NEW j \in 1 .. Len(m), m[i] = m[j] PROVE i = j
    <3>1. CASE i # 1 /\ j # 1
      <4>0. /\ i - 1 \in 1 .. Len(l) /\ j - 1 \in 1 .. Len(l)
            /\ l[i - 1] = l[j - 1]
        BY <2>2, <2>3, <3>1
      <4>1. i - 1 = j - 1
        BY <2>1, <4>0
      <4>2. i \in Int /\ j \in Int
        OBVIOUS
      <4> QED
        BY <4>1, <4>2
    <3>2. CASE i = 1 \/ j = 1
      BY <1>1, <2>2, <2>3, <3>2
    <3> QED
      BY <3>1, <3>2
  <2>4. numObjects' = Len(m)
    BY <1>1, <1>2 DEF ListExact
  <2> QED
    BY <1>2, <2>3, <2>4, LenProperties DEF ListExact
<1>7. ThresholdHolds' /\ RoomToAllocate'
  BY <1>2 DEF ThresholdHolds, RoomToAllocate, TypeOK
<1>8. MarksCleared' /\ NothingLeaks' /\ WorkBounded' /\ Sweeping' /\ Freeing'
  BY <1>2 DEF MarksCleared, NothingLeaks, WorkBounded, Sweeping, Freeing
<1>9. Marking'
  BY <1>2, FS_EmptySet DEF Marking
<1> QED
  BY <1>4, <1>5, <1>6, <1>7, <1>8, <1>9

\* What popping and pushing do to the roots.
LEMMA FrontSet ==
  ASSUME NEW S, NEW s \in Seq(S), s # <<>>
  PROVE  ToSet(Front(s)) \subseteq ToSet(s)
<1>1. PICK t \in Seq(S) : /\ t = Front(s)
                          /\ Len(t) = Len(s) - 1
                          /\ \A i \in 1 .. Len(s) - 1 : t[i] = s[i]
  BY FrontFacts
<1>2. \A i \in 1 .. Len(t) : t[i] \in ToSet(s)
  BY <1>1, ElementsAreIndexed
<1> QED
  BY <1>1, <1>2, ElementsAreIndexed

LEMMA AppendFacts ==
  ASSUME NEW S, NEW s \in Seq(S), NEW x \in S
  PROVE  /\ Append(s, x) \in Seq(S)
         /\ ToSet(Append(s, x)) \subseteq ToSet(s) \cup {x}
<1>0. /\ Append(s, x) \in Seq(S) /\ Len(Append(s, x)) = Len(s) + 1
      /\ \A i \in 1 .. Len(s) : Append(s, x)[i] = s[i]
      /\ Append(s, x)[Len(s) + 1] = x
  OBVIOUS
<1> PICK t \in Seq(S) : t = Append(s, x)
  BY <1>0
<1>1. ASSUME NEW i \in 1 .. Len(t) PROVE t[i] \in ToSet(s) \cup {x}
  <2>1. CASE i = Len(s) + 1
    BY <1>0, <2>1
  <2>2. CASE i # Len(s) + 1
    <3>1. i \in 1 .. Len(s)
      BY <1>0, <2>2, LenProperties
    <3> QED
      BY <1>0, <3>1, ElementsAreIndexed
  <2> QED
    BY <2>1, <2>2
<1> QED
  BY <1>0, <1>1, ElementsAreIndexed

LEMMA AllocIntStep ==
  ASSUME IndInv, NEW o \in Object, AllocInt(o)
  PROVE  IndInv'
<1>0. ASSUME NEW s \in Seq(Object)
      PROVE  /\ Append(s, o) \in Seq(Object)
             /\ ToSet(Append(s, o)) \subseteq ToSet(s) \cup {o}
  BY AppendFacts
<1>1. <<>> \in H!Fields /\ ToSet(<<>>) \subseteq ToSet(stack)
  BY DEF H!Fields, ToSet
<1>2. stack \in Seq(Object)
  BY DEF IndInv, TypeOK
<1>3. stack' \in Seq(Object) /\ ToSet(stack') \subseteq ToSet(stack) \cup {o}
  BY <1>0, <1>2 DEF AllocInt
<1>4. phase = "alloc" /\ NewObject(o, <<>>) /\ phase' \in {"idle", "exited"}
  BY DEF AllocInt
<1> QED
  BY <1>1, <1>3, <1>4, NewObjectStep

\* The two topmost elements.
LEMMA TopTwo ==
  ASSUME NEW S, NEW s \in Seq(S), Len(s) >= 2
  PROVE  /\ <<s[Len(s) - 1], s[Len(s)]>> \in [1 .. 2 -> S]
         /\ ToSet(<<s[Len(s) - 1], s[Len(s)]>>) \subseteq ToSet(s)
         /\ Front(Front(s)) \in Seq(S)
         /\ ToSet(Front(Front(s))) \subseteq ToSet(s)
<1>1. Len(s) - 1 \in 1 .. Len(s) /\ Len(s) \in 1 .. Len(s)
  BY LenProperties
<1>2. /\ s[Len(s) - 1] \in S /\ s[Len(s)] \in S
      /\ s[Len(s) - 1] \in ToSet(s) /\ s[Len(s)] \in ToSet(s)
  BY <1>1, ElementOfSeq, ElementsAreIndexed
<1>3. ToSet(<<s[Len(s) - 1], s[Len(s)]>>) \subseteq {s[Len(s) - 1], s[Len(s)]}
  BY DEF ToSet
<1>4. /\ s # <<>> /\ Front(s) \in Seq(S) /\ Len(Front(s)) = Len(s) - 1
      /\ ToSet(Front(s)) \subseteq ToSet(s)
  BY <1>1, FrontFacts, FrontSet, EmptySeq
<1> PICK t \in Seq(S) : t = Front(s)
  BY <1>4
<1>5. t # <<>>
  BY <1>1, <1>4, EmptySeq
<1>6. Front(t) \in Seq(S) /\ ToSet(Front(t)) \subseteq ToSet(t)
  BY <1>5, FrontFacts, FrontSet
<1>7. \A a, b \in S : <<a, b>> \in [1 .. 2 -> S]
  OBVIOUS
<1>8. <<s[Len(s) - 1], s[Len(s)]>> \in [1 .. 2 -> S]
  BY <1>2, <1>7
<1>9. ToSet(<<s[Len(s) - 1], s[Len(s)]>>) \subseteq ToSet(s)
  BY <1>2, <1>3
<1> QED
  BY <1>4, <1>6, <1>8, <1>9

LEMMA AllocPairStep ==
  ASSUME IndInv, NEW o \in Object, AllocPair(o)
  PROVE  IndInv'
<1>0. stack \in Seq(Object)
  BY DEF IndInv, TypeOK
<1>1. CASE Len(stack) >= 2
  <2>1. ASSUME NEW s \in Seq(Object), Len(s) >= 2
        PROVE  /\ <<s[Len(s) - 1], s[Len(s)]>> \in H!Fields
               /\ ToSet(<<s[Len(s) - 1], s[Len(s)]>>) \subseteq ToSet(s)
               /\ Append(Front(Front(s)), o) \in Seq(Object)
               /\ ToSet(Append(Front(Front(s)), o)) \subseteq ToSet(s) \cup {o}
    <3>1. /\ <<s[Len(s) - 1], s[Len(s)]>> \in [1 .. 2 -> Object]
          /\ ToSet(<<s[Len(s) - 1], s[Len(s)]>>) \subseteq ToSet(s)
          /\ Front(Front(s)) \in Seq(Object)
          /\ ToSet(Front(Front(s))) \subseteq ToSet(s)
      BY <2>1, TopTwo
    <3> PICK t \in Seq(Object) : t = Front(Front(s))
      BY <3>1
    <3>2. /\ Append(t, o) \in Seq(Object)
          /\ ToSet(Append(t, o)) \subseteq ToSet(t) \cup {o}
      BY AppendFacts
    <3> QED
      BY <3>1, <3>2 DEF H!Fields
  <2>2. /\ phase = "alloc" /\ phase' = "idle"
        /\ NewObject(o, <<stack[Len(stack) - 1], stack[Len(stack)]>>)
        /\ stack' = Append(Front(Front(stack)), o)
    BY <1>1 DEF AllocPair
  <2> QED
    BY <1>0, <1>1, <2>1, <2>2, NewObjectStep
<1>2. CASE ~ (Len(stack) >= 2)
  <2>1. <<>> \in H!Fields /\ ToSet(<<>>) = {} /\ <<>> \in Seq(Object)
    BY EmptySeq DEF H!Fields, ToSet
  <2>2. phase = "alloc" /\ phase' = "exited" /\ NewObject(o, <<>>) /\ stack' = <<>>
    BY <1>2 DEF AllocPair
  <2> QED
    BY <2>1, <2>2, NewObjectStep
<1> QED
  BY <1>1, <1>2

(***************************************************************************)
(* The invariant holds.                                                    *)
(***************************************************************************)

LEMMA InitIndInv == Init => IndInv
<1> SUFFICES ASSUME Init PROVE IndInv
  OBVIOUS
<1> USE DEF Init
<1>1. TypeOK
  <2>1. <<>> \in Seq(Object) /\ <<>> \in H!Fields
    BY EmptySeq DEF H!Fields
  <2>2. kids \in [Object -> H!Fields]
    BY <2>1
  <2> QED
    BY <2>1, <2>2, GCAssumption DEF TypeOK
<1>2. H!InUse \subseteq {}
  <2>1. Closed(ToSet(stack), kids, {})
    BY DEF Closed, ToSet
  <2> QED
    BY <2>1, ReachLeast, InUseIsReach
<1>3. ToSet(list) = {}
  BY DEF ToSet
<1>4. NoDangling /\ ListExact /\ ThresholdHolds
  BY <1>2, GCAssumption, EmptySeq DEF NoDangling, ListExact, ThresholdHolds
<1>5. MarksCleared /\ WorkBounded /\ NothingLeaks /\ RoomToAllocate /\ Sweeping /\ Freeing
  BY GCAssumption DEF MarksCleared, WorkBounded, NothingLeaks, RoomToAllocate, Sweeping, Freeing
<1>6. Marking
  BY FS_EmptySet DEF Marking
<1> QED
  BY <1>1, <1>4, <1>5, <1>6 DEF IndInv

LEMMA NextIndInv == IndInv /\ [Next]_vars => IndInv'
<1> SUFFICES ASSUME IndInv, [Next]_vars PROVE IndInv'
  OBVIOUS
<1>1. ASSUME NEW op \in {"int", "pair"}, Request(op) PROVE IndInv'
  <2>1. CASE numObjects = maxObjects
    BY <1>1, <2>1, StartGCStep DEF Request, StartGC, heapVars
  <2>2. CASE numObjects # maxObjects
    BY <1>1, <2>2, RequestStep DEF Request
  <2> QED
    BY <2>1, <2>2
<1>2. CASE PushInt
  BY <1>1, <1>2 DEF PushInt
<1>3. CASE PushPair
  BY <1>1, <1>3 DEF PushPair
<1>4. CASE CollectNow
  BY <1>4, StartGCStep DEF CollectNow, StartGC
<1>5. CASE FreeVM
  BY <1>5, StartGCStep DEF FreeVM
<1>6. CASE Pop
  BY <1>6, PopStep
<1>7. CASE \E a, b \in Object, i \in 1 .. 2 : SetField(a, i, b)
  BY <1>7, SetFieldStep
<1>8. CASE Mark
  BY <1>8, MarkStep
<1>9. CASE MarkDone
  BY <1>9, MarkDoneStep
<1>10. CASE Sweep
  BY <1>10, SweepFreesStep, SweepKeepsStep
<1>11. CASE SweepDone
  BY <1>11, SweepDoneStep
<1>12. CASE \E o \in Object : AllocInt(o) \/ AllocPair(o)
  BY <1>12, AllocIntStep, AllocPairStep
<1>13. CASE UNCHANGED vars
  <2>1. UNCHANGED <<stack, list, kids, marked, numObjects, maxObjects, phase,
                    pending, work, cursor>>
    BY <1>13 DEF vars, heapVars, gcVars
  <2>2. H!InUse' = H!InUse
    BY <2>1, InUseUnchanged
  <2> QED
    BY <2>1, <2>2 DEF IndInv, TypeOK, NoDangling, ListExact, ThresholdHolds,
         MarksCleared, WorkBounded, NothingLeaks, RoomToAllocate, Marking, Sweeping,
         Freeing
<1> QED
  BY <1>2, <1>3, <1>4, <1>5, <1>6, <1>7, <1>8, <1>9, <1>10, <1>11, <1>12, <1>13 DEF Next

\* The inductive invariant: during a collection, marks and cursor separate what
\* is in use from what is not; between collections the bookkeeping is exact.
THEOREM IndInvHolds == Spec => []IndInv
  BY InitIndInv, NextIndInv, PTL DEF Spec

\* The state is well formed.
THEOREM TypeCorrect == Spec => []TypeOK
<1>1. IndInv => TypeOK
  BY DEF IndInv
<1> QED
  BY <1>1, IndInvHolds, PTL

\* Whatever the stack leads to has not been freed, at every moment of a
\* collection (mark and sweep of gc.c).
THEOREM NoDanglingHolds == Spec => []NoDangling
<1>1. IndInv => NoDangling
  BY DEF IndInv
<1> QED
  BY <1>1, IndInvHolds, PTL

\* numObjects is the length of the list, and no object is in it twice
\* (newObject and sweep).
THEOREM ListExactHolds == Spec => []ListExact
<1>1. IndInv => ListExact
  BY DEF IndInv
<1> QED
  BY <1>1, IndInvHolds, PTL

\* The number of objects never passes the threshold newObject compares it to.
THEOREM ThresholdNeverPassed == Spec => []ThresholdHolds
<1>1. IndInv => ThresholdHolds
  BY DEF IndInv
<1> QED
  BY <1>1, IndInvHolds, PTL

\* Between two collections no mark bit is set.
THEOREM MarksAreCleared == Spec => []MarksCleared
<1>1. IndInv => MarksCleared
  BY DEF IndInv
<1> QED
  BY <1>1, IndInvHolds, PTL

\* Marking needs no more pending calls than there are roots and marked objects.
THEOREM WorkIsBounded == Spec => []WorkBounded
<1>1. IndInv => WorkBounded
  BY DEF IndInv
<1> QED
  BY <1>1, IndInvHolds, PTL

\* freeVM leaves no object behind.
THEOREM FreeVMLeaksNothing == Spec => []NothingLeaks
<1>1. IndInv => NothingLeaks
  BY DEF IndInv
<1> QED
  BY <1>1, IndInvHolds, PTL

\* When gc returns, the list holds exactly the objects in use.
THEOREM CollectionIsExact == Spec => CollectsExactly
<1>1. IndInv /\ [Next]_vars =>
        [phase = "sweep" /\ phase' # "sweep" => ToSet(list) = H!InUse]_vars
  <2> SUFFICES ASSUME IndInv, [Next]_vars, phase = "sweep", phase' # "sweep"
               PROVE  ToSet(list) = H!InUse
    OBVIOUS
  <2>1. SweepDone
    BY DEF Next, PushInt, PushPair, Request, CollectNow, FreeVM, Pop, SetField, Mark,
           MarkDone, Sweep, AllocInt, AllocPair, vars, gcVars
  <2> QED
    BY <2>1, SweptListIsInUse DEF SweepDone
<1> QED
  BY <1>1, IndInvHolds, PTL DEF Spec, CollectsExactly

(***************************************************************************)
(* The collector implements the abstract heap.                             *)
(***************************************************************************)

\* Two sets of names for the same operators on sequences.
LEMMA SameOperators ==
  ASSUME NEW s
  PROVE  /\ H!ToSet(s) = ToSet(s)
         /\ H!Front(s) = Front(s)
  BY DEF H!ToSet, ToSet, H!Front, Front

\* Unlinking an object takes it out of the list for good: it was there once.
LEMMA SweepReclaims ==
  ASSUME IndInv, Sweep, list[cursor] \notin marked
  PROVE  /\ list[cursor] \in Object
         /\ list[cursor] \in ToSet(list) \ H!InUse
         /\ ToSet(list') = ToSet(list) \ {list[cursor]}
<1>a. ASSUME NEW s \in Seq(Object), NEW i \in 1 .. Len(s)
      PROVE  /\ RemoveAt(s, i) \in Seq(Object)
             /\ Len(RemoveAt(s, i)) = Len(s) - 1
             /\ \A j \in 1 .. i - 1 : RemoveAt(s, i)[j] = s[j]
             /\ \A j \in i .. Len(s) - 1 : RemoveAt(s, i)[j] = s[j + 1]
  BY RemoveAtFacts
<1>b. ASSUME NEW s \in Seq(Object), NEW i \in 1 .. Len(s)
      PROVE  ToSet(s) \ {s[i]} \subseteq ToSet(RemoveAt(s, i))
  BY RemoveAtSet
<1> USE DEF IndInv
<1> PICK l \in Seq(Object), c \in Nat \ {0} : l = list /\ c = cursor
  BY DEF TypeOK
<1>0. c \in 1 .. Len(l) /\ l[c] \in Object /\ Len(l) \in Nat
  BY LenProperties DEF Sweep
<1>1. l[c] \notin H!InUse /\ l[c] \in ToSet(l)
  BY <1>0, ElementsAreIndexed DEF Sweep, Sweeping
<1>2. /\ RemoveAt(l, c) \in Seq(Object)
      /\ Len(RemoveAt(l, c)) = Len(l) - 1
      /\ \A j \in 1 .. c - 1 : RemoveAt(l, c)[j] = l[j]
      /\ \A j \in c .. Len(l) - 1 : RemoveAt(l, c)[j] = l[j + 1]
      /\ ToSet(l) \ {l[c]} \subseteq ToSet(RemoveAt(l, c))
  BY <1>0, <1>a, <1>b
<1> PICK m \in Seq(Object) : m = RemoveAt(l, c)
  BY <1>2
<1>3. \A i, j \in 1 .. Len(l) : l[i] = l[j] => i = j
  BY LenProperties DEF ListExact
<1>4. ASSUME NEW i \in 1 .. Len(m) PROVE m[i] \in ToSet(l) \ {l[c]}
  <2>1. CASE i < c
    <3>1. i \in 1 .. Len(l) /\ i # c /\ m[i] = l[i]
      BY <1>0, <1>2, <2>1
    <3> QED
      BY <1>0, <1>3, <3>1, ElementsAreIndexed
  <2>2. CASE i >= c
    <3>1. i + 1 \in 1 .. Len(l) /\ i + 1 # c /\ m[i] = l[i + 1]
      BY <1>0, <1>2, <2>2
    <3> QED
      BY <1>0, <1>3, <3>1, ElementsAreIndexed
  <2> QED
    BY <1>0, <2>1, <2>2
<1>5. ToSet(m) \subseteq ToSet(l) \ {l[c]}
  BY <1>4, ElementsAreIndexed
<1>6. list' = m
  BY DEF Sweep
<1> QED
  BY <1>0, <1>1, <1>2, <1>5, <1>6

\* An allocation brings one object to life.
LEMMA NewObjectIsFresh ==
  ASSUME TypeOK, NEW o \in Object, NEW f, NewObject(o, f)
  PROVE  H!Fresh(o, f)
<1>a. ASSUME NEW s \in Seq(Object), NEW t \in Seq(Object)
      PROVE  ToSet(s \o t) = ToSet(s) \cup ToSet(t)
  BY ConcatFacts
<1>b. ToSet(<<o>>) = {o}
  BY DEF ToSet
<1>c. <<o>> \in Seq(Object)
  OBVIOUS
<1> PICK h \in Seq(Object) : h = <<o>>
  BY <1>c
<1> PICK l \in Seq(Object) : l = list
  BY DEF TypeOK
<1>1. ToSet(h \o l) = ToSet(h) \cup ToSet(l)
  BY <1>a
<1>2. ToSet(h) = {o}
  BY <1>b
<1>3. list' = h \o l /\ o \notin ToSet(l) /\ kids' = [kids EXCEPT ![o] = f]
  BY DEF NewObject
<1> QED
  BY <1>1, <1>2, <1>3 DEF H!Fresh

LEMMA HeapStep == IndInv /\ [Next]_vars => [H!Next]_(H!vars)
<1> SUFFICES ASSUME IndInv, [Next]_vars PROVE H!Next \/ UNCHANGED H!vars
  OBVIOUS
<1> USE DEF heapVars, gcVars
<1>1. ASSUME UNCHANGED <<stack, list, kids>>,
             phase \in {"freed", "exited"} <=> phase' \in {"freed", "exited"}
      PROVE  UNCHANGED H!vars
  BY <1>1 DEF H!vars
<1>2. ASSUME NEW op \in {"int", "pair"}, Request(op) PROVE UNCHANGED H!vars
  BY <1>1, <1>2 DEF Request, StartGC
<1>3. CASE PushInt
  BY <1>2, <1>3 DEF PushInt
<1>4. CASE PushPair
  BY <1>2, <1>4 DEF PushPair
<1>5. CASE CollectNow
  BY <1>1, <1>5 DEF CollectNow, StartGC
<1>6. CASE FreeVM
  <2>1. H!Release
    BY <1>6 DEF FreeVM, H!Release
  <2> QED
    BY <2>1 DEF H!Next
<1>7. CASE Pop
  <2>1. CASE stack = <<>>
    <3>1. H!Exit
      BY <1>7, <2>1 DEF Pop, H!Exit
    <3> QED
      BY <3>1 DEF H!Next
  <2>2. CASE stack # <<>>
    <3>1. H!Pop
      BY <1>7, <2>2, SameOperators DEF Pop, H!Pop
    <3> QED
      BY <3>1 DEF H!Next
  <2> QED
    BY <2>1, <2>2
<1>8. CASE \E a, b \in Object, i \in 1 .. 2 : SetField(a, i, b)
  <2>1. PICK a \in Object, b \in Object, i \in 1 .. 2 : SetField(a, i, b)
    BY <1>8
  <2>2. H!SetField(a, i, b)
    BY <2>1 DEF SetField, H!SetField
  <2> QED
    BY <2>2 DEF H!Next
<1>9. CASE Mark
  BY <1>1, <1>9 DEF Mark
<1>10. CASE MarkDone
  BY <1>1, <1>10 DEF MarkDone
<1>11. CASE Sweep
  <2>1. CASE list[cursor] \in marked
    BY <1>1, <1>11, <2>1 DEF Sweep
  <2>2. CASE list[cursor] \notin marked
    <3>1. H!Reclaim(list[cursor])
      BY <1>11, <2>2, SweepReclaims DEF Sweep, H!Reclaim
    <3>2. list[cursor] \in Object
      BY <1>11, <2>2, SweepReclaims
    <3> QED
      BY <3>1, <3>2 DEF H!Next
  <2> QED
    BY <2>1, <2>2
<1>12. CASE SweepDone
  <2>1. CASE pending = "free"
    <3>1. ToSet(list) = {}
      <4>1. NothingLeaks' /\ phase' = "freed" /\ list' = list
        BY <1>12, <2>1, SweepDoneStep DEF SweepDone, IndInv
      <4> QED
        BY <4>1 DEF NothingLeaks, ToSet
    <3>2. H!Freed
      BY <1>12, <2>1, <3>1 DEF SweepDone, H!Freed
    <3> QED
      BY <3>2 DEF H!Next
  <2>2. CASE pending # "free"
    BY <1>1, <1>12, <2>2 DEF SweepDone
  <2> QED
    BY <2>1, <2>2
<1>13. CASE \E o \in Object : AllocInt(o) \/ AllocPair(o)
  <2>1. PICK o \in Object : AllocInt(o) \/ AllocPair(o)
    BY <1>13
  <2>2. CASE AllocInt(o)
    <3>1. H!Fresh(o, <<>>)
      BY <2>2, NewObjectIsFresh DEF AllocInt, IndInv
    <3>2. CASE Len(stack) < MaxStackSize
      <4>1. H!PushInt(o)
        BY <2>2, <3>1, <3>2 DEF AllocInt, H!PushInt
      <4> QED
        BY <4>1 DEF H!Next
    <3>3. CASE ~ (Len(stack) < MaxStackSize)
      <4>1. H!Exit
        BY <2>2, <3>1, <3>3 DEF AllocInt, H!Exit
      <4> QED
        BY <4>1 DEF H!Next
    <3> QED
      BY <3>2, <3>3
  <2>3. CASE AllocPair(o)
    <3>1. CASE Len(stack) >= 2
      <4>1. H!Fresh(o, <<stack[Len(stack) - 1], stack[Len(stack)]>>)
        BY <2>3, <3>1, NewObjectIsFresh DEF AllocPair, IndInv
      <4>2. H!PushPair(o)
        BY <2>3, <3>1, <4>1, SameOperators DEF AllocPair, H!PushPair
      <4> QED
        BY <4>2 DEF H!Next
    <3>2. CASE ~ (Len(stack) >= 2)
      <4>1. H!Fresh(o, <<>>)
        BY <2>3, <3>2, NewObjectIsFresh DEF AllocPair, IndInv
      <4>2. H!Exit
        BY <2>3, <3>2, <4>1 DEF AllocPair, H!Exit
      <4> QED
        BY <4>2 DEF H!Next
    <3> QED
      BY <3>1, <3>2
  <2> QED
    BY <2>1, <2>2, <2>3
<1>14. CASE UNCHANGED vars
  BY <1>1, <1>14 DEF vars
<1> QED
  BY <1>3, <1>4, <1>5, <1>6, <1>7, <1>8, <1>9, <1>10, <1>11, <1>12, <1>13, <1>14 DEF Next

\* The client of gc.c sees the abstract heap: what is in use keeps its fields,
\* only what is not in use disappears, and addresses handed out are free.
THEOREM HeapImplemented == Spec => ImplementsHeap
<1>1. Init => H!Init
  BY DEF Init, H!Init, ToSet
<1> QED
  BY <1>1, HeapStep, IndInvHolds, PTL DEF Spec, ImplementsHeap, H!Spec

(***************************************************************************)
(* Collections end.                                                        *)
(***************************************************************************)

Unmarked == ToSet(list) \ marked

Collecting == phase \in {"mark", "sweep"}

\* What a collection has still to do: an object not yet marked stands for its
\* own call of mark and those on its two fields, of which the second is
\* pending when the first begins; then sweep passes every object of the list.
StillToDo ==
  IF phase = "mark" THEN 3 * Cardinality(Unmarked) + Len(work) + Len(list) + 2
                    ELSE Len(list) - cursor + 1

LEMMA ElementsFinite ==
  ASSUME NEW S, NEW s \in Seq(S)
  PROVE  IsFiniteSet(ToSet(s))
<1> DEFINE n == Len(s)
           f == [i \in 1 .. n |-> s[i]]
<1>1. n \in Nat
  OBVIOUS
<1>2. \A x \in ToSet(s) : \E i \in 1 .. n : x = f[i]
  BY ElementsAreIndexed
<1>3. \A i \in 1 .. n : f[i] \in ToSet(s)
  BY ElementsAreIndexed
<1>4. IsFiniteSet(1 .. n)
  BY <1>1, FS_Interval
<1> HIDE DEF n
<1>5. f \in Surjection(1 .. n, ToSet(s))
  BY <1>2, <1>3 DEF Surjection
<1> QED
  BY <1>4, <1>5, FS_Surjection

\* Each call of mark is one of those counted.
LEMMA MarkDescends ==
  ASSUME IndInv, Mark
  PROVE  StillToDo \in Nat /\ StillToDo' \in Nat /\ StillToDo' < StillToDo
<1>1. /\ phase = "mark" /\ phase' = "mark" /\ list' = list /\ work # <<>>
      /\ work \in Seq(Object) /\ list \in Seq(Object) /\ kids \in [Object -> H!Fields]
  BY DEF Mark, IndInv, TypeOK
<1> DEFINE o == Head(work)
           n == Cardinality(Unmarked)
           w == Len(work)
           l == Len(list)
           v == Len(work')
           m == Cardinality(Unmarked')
<1>2. /\ o \in Object /\ Tail(work) \in Seq(Object) /\ Len(Tail(work)) = w - 1
      /\ o \in ToSet(work)
  BY <1>1, HeadTailFacts
<1>3. o \in ToSet(list)
  BY <1>1, <1>2 DEF IndInv, Marking, NoDangling
<1>4. IsFiniteSet(Unmarked) /\ n \in Nat
  BY <1>1, ElementsFinite, FS_Difference, FS_CardinalityType DEF Unmarked
<1>5. l \in Nat /\ w \in Nat /\ Len(Tail(work)) \in Nat
  BY <1>1, <1>2, LenProperties
<1>6. StillToDo = 3 * n + w + l + 2 /\ StillToDo' = 3 * m + v + l + 2
  BY <1>1 DEF StillToDo
<1>7. CASE o \in marked
  <2>1. work' = Tail(work) /\ marked' = marked
    BY <1>7 DEF Mark
  <2>2. m = n /\ v = w - 1 /\ v \in Nat
    BY <1>1, <1>2, <1>5, <2>1 DEF Unmarked
  <2> HIDE DEF n, w, l, v, m
  <2> QED
    BY <1>4, <1>5, <1>6, <2>2
<1>8. CASE o \notin marked
  <2>1. work' = kids[o] \o Tail(work) /\ marked' = marked \cup {o}
    BY <1>8 DEF Mark
  <2>2. kids[o] \in Seq(Object) /\ Len(kids[o]) <= 2 /\ Len(kids[o]) \in Nat
    BY <1>1, <1>2, FieldsAreSequences, LenProperties
  <2>3. v = Len(kids[o]) + Len(Tail(work))
    BY <1>2, <2>1, <2>2, ConcatFacts
  <2>4. Unmarked' = Unmarked \ {o} /\ o \in Unmarked
    BY <1>1, <1>3, <1>8, <2>1 DEF Unmarked
  <2>5. m = n - 1 /\ m \in Nat
    BY <1>4, <2>4, FS_RemoveElement, FS_CardinalityType
  <2> DEFINE k == Len(kids[o])
  <2>6. k \in Nat /\ k <= 2 /\ v = k + (w - 1)
    BY <1>2, <2>2, <2>3
  <2> HIDE DEF n, w, l, v, m, k
  <2> QED
    BY <1>4, <1>5, <1>6, <2>5, <2>6
<1> QED
  BY <1>7, <1>8

LEMMA MarkDoneDescends ==
  ASSUME IndInv, MarkDone
  PROVE  StillToDo \in Nat /\ StillToDo' \in Nat /\ StillToDo' < StillToDo
<1> DEFINE n == Cardinality(Unmarked)
           l == Len(list)
           w == Len(work)
<1>1. list \in Seq(Object) /\ work \in Seq(Object)
  BY DEF IndInv, TypeOK
<1>2. n \in Nat /\ l \in Nat /\ w \in Nat
  BY <1>1, ElementsFinite, FS_Difference, FS_CardinalityType, LenProperties DEF Unmarked
<1>3. StillToDo = 3 * n + w + l + 2 /\ StillToDo' = l - 1 + 1
  BY DEF StillToDo, MarkDone, heapVars
<1> HIDE DEF n, l, w
<1> QED
  BY <1>2, <1>3

LEMMA SweepDescends ==
  ASSUME IndInv, Sweep
  PROVE  StillToDo \in Nat /\ StillToDo' \in Nat /\ StillToDo' < StillToDo
<1> DEFINE l == Len(list)
<1>1. /\ list \in Seq(Object) /\ phase = "sweep" /\ phase' = "sweep"
      /\ cursor \in 1 .. l /\ l \in Nat
  BY LenProperties DEF IndInv, TypeOK, Sweep
<1>2. StillToDo = l - cursor + 1 /\ StillToDo' = Len(list') - cursor' + 1
  BY <1>1 DEF StillToDo
<1>3. \/ Len(list') = l - 1 /\ cursor' = cursor
      \/ Len(list') = l /\ cursor' = cursor + 1
  <2>1. CASE list[cursor] \in marked
    BY <1>1, <2>1 DEF Sweep
  <2>2. CASE list[cursor] \notin marked
    <3>1. list' = RemoveAt(list, cursor) /\ cursor' = cursor
      BY <1>1, <2>2 DEF Sweep
    <3> QED
      BY <1>1, <3>1, RemoveAtFacts
  <2> QED
    BY <2>1, <2>2
<1> HIDE DEF l
<1> QED
  BY <1>1, <1>2, <1>3

\* Every step inside a collection leaves less to do, whatever cycles the heap
\* has (mark, sweep and gc of gc.c).
THEOREM CollectionDescends ==
  Spec => [][ Collecting /\ Collecting'
              => StillToDo \in Nat /\ StillToDo' \in Nat /\ StillToDo' < StillToDo ]_vars
<1>1. IndInv /\ [Next]_vars =>
        [ Collecting /\ Collecting'
          => StillToDo \in Nat /\ StillToDo' \in Nat /\ StillToDo' < StillToDo ]_vars
  <2> SUFFICES ASSUME IndInv, Next, Collecting, Collecting'
               PROVE  StillToDo \in Nat /\ StillToDo' \in Nat /\ StillToDo' < StillToDo
    OBVIOUS
  <2>1. Mark \/ MarkDone \/ Sweep
    BY DEF Next, PushInt, PushPair, Request, CollectNow, FreeVM, Pop, SetField, SweepDone,
           StartGC, AllocInt, AllocPair, Collecting
  <2> QED
    BY <2>1, MarkDescends, MarkDoneDescends, SweepDescends
<1> QED
  BY <1>1, IndInvHolds, PTL DEF Spec
===============================================================================
