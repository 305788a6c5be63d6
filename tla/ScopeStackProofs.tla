--------------------------- MODULE ScopeStackProofs ---------------------------
(***************************************************************************)
(* Proofs about ScopeStack, for every set of names, values and functions   *)
(* and every bound on the number of scopes.                                *)
(***************************************************************************)
EXTENDS ScopeStack, ProofBasics

(***************************************************************************)
(* Data structures.                                                        *)
(***************************************************************************)

\* A new binding keeps a map of bindings well formed.
LEMMA BindType ==
  ASSUME NEW b \in Bindings(Value), NEW n \in Name, NEW v \in Value
  PROVE  Bind(b, n, v) \in Bindings(Value)
<1>1. PICK bound \in SUBSET Name : b \in [bound -> Value]
  BY DEF Bindings
<1>2. Bind(b, n, v) \in [bound \cup {n} -> Value]
  BY <1>1 DEF Bind
<1> QED
  BY <1>2 DEF Bindings

LEMMA NoBindingsType == NoBindings \in Bindings(Value)
<1>1. NoBindings \in [{} -> Value]
  BY DEF NoBindings
<1> QED
  BY <1>1 DEF Bindings

LEMMA ParamBindingsType ==
  ASSUME NEW f \in Func, NEW args \in [DOMAIN f.params -> Data]
  PROVE  ParamBindings(f, args) \in Bindings(Value)
<1>1. f.params \in Seq(Name)
  BY ScopeAssumption
<1>2. ToSet(f.params) \subseteq Name
  BY <1>1 DEF ToSet
<1>3. ASSUME NEW p \in ToSet(f.params)
      PROVE  args[Max({i \in DOMAIN f.params : f.params[i] = p})] \in Value
  <2> DEFINE I == {i \in DOMAIN f.params : f.params[i] = p}
  <2>1. I # {} /\ I \in SUBSET (0 .. Len(f.params)) /\ Len(f.params) \in Nat
    BY <1>1 DEF ToSet
  <2> HIDE DEF I
  <2>2. Max(I) \in I
    BY <2>1, MaxFacts
  <2> USE DEF I
  <2> QED
    BY <2>2 DEF Value
<1>4. ParamBindings(f, args) \in [ToSet(f.params) -> Value]
  BY <1>3 DEF ParamBindings
<1> QED
  BY <1>2, <1>4 DEF Bindings

(***************************************************************************)
(* The accounting of frames.                                               *)
(***************************************************************************)

\* The innermost frame: what it owns is still on the stack, and what returned
\* calls left above it is there too.
LEMMA TopFrame ==
  ASSUME TypeOK, LeaksAccumulate, NEW k \in DOMAIN frames
  PROVE  /\ frames[k] \in Frame
         /\ frames[k].base <= valueStack
         /\ valueStack - frames[k].base
              <= currIdx - frames[k].saved - Own(frames[k])
<1>1. frames[k] \in Frame /\ k \in 1 .. Len(frames) /\ Len(frames) \in Nat
  BY DEF TypeOK
<1>2. /\ Base[k] <= Base[Len(frames) + 1]
      /\ Base[Len(frames) + 1] - Base[k] <= Start[Len(frames) + 1] - Floor[k]
  BY <1>1 DEF LeaksAccumulate
<1>3. Own(frames[k]) \in {1, 2}
  BY DEF Own
<1> QED
  BY <1>1, <1>2, <1>3 DEF Base, Start, Floor, Frame, TypeOK

\* The accounting is in natural numbers.
LEMMA AccountTypes ==
  ASSUME TypeOK
  PROVE  /\ Len(frames) \in Nat
         /\ \A i \in 0 .. Len(frames) : Floor[i] \in Nat
         /\ \A i \in 0 .. Len(frames) + 1 : Base[i] \in Nat
         /\ \A j \in 1 .. Len(frames) + 1 : Start[j] \in Nat
<1>1. Len(frames) \in Nat /\ \A i \in 1 .. Len(frames) : frames[i] \in Frame
  BY DEF TypeOK
<1>2. \A i \in 1 .. Len(frames) : Own(frames[i]) \in Nat
  BY DEF Own
<1>3. \A i \in 1 .. Len(frames) : frames[i].saved \in Nat /\ frames[i].base \in Nat
  BY <1>1 DEF Frame
<1>4. currIdx \in Nat /\ valueStack \in Nat
  BY DEF TypeOK
<1>5. ASSUME NEW i \in 0 .. Len(frames) PROVE Floor[i] \in Nat
  BY <1>1, <1>2, <1>3 DEF Floor
<1>6. ASSUME NEW i \in 0 .. Len(frames) + 1 PROVE Base[i] \in Nat
  BY <1>1, <1>3, <1>4 DEF Base
<1>7. ASSUME NEW j \in 1 .. Len(frames) + 1 PROVE Start[j] \in Nat
  BY <1>1, <1>3, <1>4 DEF Start
<1> QED
  BY <1>1, <1>5, <1>6, <1>7

\* Entering a frame.
LEMMA PushAccount ==
  ASSUME TypeOK, LeaksAccumulate, OnlyReturnsLeak, Running,
         NEW kind \in {"block", "call"},
         frames' = Append(frames, NewFrame(kind)),
         currIdx' = currIdx + Own(NewFrame(kind)),
         valueStack' = valueStack
  PROVE  LeaksAccumulate' /\ OnlyReturnsLeak'
<1>0. PICK n \in Nat : n = Len(frames)
  BY DEF TypeOK
<1>1. /\ n \in Nat
      /\ n = Len(frames)
      /\ Len(frames)' = n + 1
      /\ \A i \in 1 .. n : frames'[i] = frames[i]
      /\ frames'[n + 1] = NewFrame(kind)
  BY <1>0 DEF TypeOK
<1>2. Own(NewFrame(kind)) \in {1, 2}
  BY DEF Own
<1>3. \A i \in 0 .. n : Floor'[i] = Floor[i]
  BY <1>1 DEF Floor, Own
<1>4. \A i \in 0 .. n + 1 : Base'[i] = Base[i]
  BY <1>1 DEF Base, NewFrame
<1>5. \A j \in 1 .. n + 1 : Start'[j] = Start[j]
  BY <1>1 DEF Start, NewFrame
<1>6. /\ Floor'[n + 1] = currIdx'
      /\ Start'[n + 2] = currIdx'
      /\ Base'[n + 2] = valueStack
  BY <1>1 DEF Floor, Start, Base, NewFrame, Own, TypeOK
<1>7. Start[n + 1] = currIdx /\ Base[n + 1] = valueStack
  BY <1>1 DEF Start, Base
<1>8. currIdx \in Nat /\ valueStack \in Nat
  BY DEF TypeOK
<1>9. LeaksAccumulate'
  <2> SUFFICES ASSUME NEW i \in 0 .. n + 1, NEW j \in 1 .. n + 2, i < j
               PROVE  /\ Base'[i] <= Base'[j]
                      /\ Base'[j] - Base'[i] <= Start'[j] - Floor'[i]
    BY <1>1 DEF LeaksAccumulate
  <2>1. CASE i = n + 1
    BY <2>1, <1>1, <1>2, <1>4, <1>6, <1>7, <1>8
  <2>2. CASE i # n + 1 /\ j = n + 2
    <3>1. /\ Base[i] <= Base[n + 1]
          /\ Base[n + 1] - Base[i] <= Start[n + 1] - Floor[i]
      BY <2>2, <1>1 DEF LeaksAccumulate
    <3>2. Base[i] \in Nat /\ Floor[i] \in Nat
      BY <2>2, <1>1, AccountTypes
    <3>3. /\ Base'[i] = Base[i] /\ Floor'[i] = Floor[i]
          /\ Base'[j] = valueStack /\ Start'[j] = currIdx'
      BY <2>2, <1>1, <1>3, <1>4, <1>6
    <3>4. currIdx' >= currIdx /\ currIdx' \in Nat
      BY <1>2, <1>8
    <3> QED
      BY <3>1, <3>2, <3>3, <3>4, <1>7, <1>8
  <2>3. CASE i # n + 1 /\ j # n + 2
    BY <2>3, <1>1, <1>3, <1>4, <1>5 DEF LeaksAccumulate
  <2> QED
    BY <2>1, <2>2, <2>3
<1>10. OnlyReturnsLeak'
  <2> SUFFICES ASSUME NEW i \in 0 .. n + 1, Base'[i] = Base'[i + 1]
               PROVE  Start'[i + 1] = Floor'[i]
    BY <1>1 DEF OnlyReturnsLeak
  <2>1. CASE i = n + 1
    BY <2>1, <1>1, <1>6
  <2>2. CASE i # n + 1
    BY <2>2, <1>1, <1>3, <1>4, <1>5 DEF OnlyReturnsLeak
  <2> QED
    BY <2>1, <2>2
<1> QED
  BY <1>9, <1>10

\* Leaving frame k and all frames inside it.
LEMMA PopAccount ==
  ASSUME TypeOK, LeaksAccumulate, OnlyReturnsLeak, Running,
         NEW k \in DOMAIN frames,
         frames' = SubSeq(frames, 1, k - 1),
         currIdx' \in Int, valueStack' \in Nat,
         valueStack' >= valueStack,
         currIdx' - valueStack' = currIdx - Own(frames[k]) - valueStack,
         valueStack' = valueStack => k = Len(frames)
  PROVE  LeaksAccumulate' /\ OnlyReturnsLeak'
<1>0. frames \in Seq(Frame)
  BY DEF TypeOK
<1>1. PICK n \in Nat : n = Len(frames) /\ k \in 1 .. n
  BY <1>0
<1>2. /\ Len(frames)' = k - 1
      /\ \A i \in 1 .. k - 1 : frames'[i] = frames[i]
  <2>1. frames \in Seq(Frame) /\ k - 1 \in 0 .. Len(frames)
    BY <1>1 DEF TypeOK
  <2> QED
    BY <2>1, PrefixFacts
<1>3. \A i \in 0 .. k - 1 : Floor'[i] = Floor[i] /\ Base'[i] = Base[i]
  BY <1>1, <1>2 DEF Floor, Base, Own
<1>4. \A j \in 1 .. k - 1 : Start'[j] = Start[j]
  BY <1>1, <1>2 DEF Start
<1>5. Start'[k] = currIdx' /\ Base'[k] = valueStack'
  BY <1>1, <1>2 DEF Start, Base
<1>6. /\ frames[k].base = Base[k] /\ frames[k].saved = Start[k]
      /\ Floor[k] = Start[k] + Own(frames[k])
      /\ Own(frames[k]) \in {1, 2}
  BY <1>1 DEF Base, Start, Floor, Own
<1>7. Base[k] <= valueStack /\ valueStack - Base[k] <= currIdx - Floor[k]
  <2>1. /\ frames[k].base <= valueStack
        /\ valueStack - frames[k].base
             <= currIdx - frames[k].saved - Own(frames[k])
    BY TopFrame
  <2>2. /\ currIdx \in Nat /\ valueStack \in Nat
        /\ Base[k] \in Nat /\ Start[k] \in Nat
    BY <1>1, AccountTypes DEF TypeOK
  <2> QED
    BY <1>6, <2>1, <2>2
<1>8. currIdx \in Nat /\ valueStack \in Nat
  BY DEF TypeOK
<1>9. \A i \in 0 .. k - 1 : /\ Base[i] <= Base[k]
                            /\ Base[k] - Base[i] <= Start[k] - Floor[i]
  BY <1>1 DEF LeaksAccumulate
<1>10. LeaksAccumulate'
  <2> SUFFICES ASSUME NEW i \in 0 .. k - 1, NEW j \in 1 .. k, i < j
               PROVE  /\ Base'[i] <= Base'[j]
                      /\ Base'[j] - Base'[i] <= Start'[j] - Floor'[i]
    BY <1>1, <1>2 DEF LeaksAccumulate
  <2>1. CASE j = k
    <3>1. /\ Base[i] <= Base[k]
          /\ Base[k] - Base[i] <= Start[k] - Floor[i]
      BY <1>9
    <3>2. Base[i] \in Nat /\ Floor[i] \in Nat /\ Base[k] \in Nat /\ Start[k] \in Nat
      BY <1>1, AccountTypes
    <3>3. /\ Base'[i] = Base[i] /\ Floor'[i] = Floor[i]
          /\ Base'[j] = valueStack' /\ Start'[j] = currIdx'
      BY <2>1, <1>3, <1>5
    <3>4. currIdx' - valueStack' = currIdx - (Floor[k] - Start[k]) - valueStack
      BY <3>2, <1>6, <1>8
    <3>5. Floor[k] \in Nat
      BY <3>2, <1>6
    <3>6. Base[i] <= valueStack'
      BY <3>1, <3>2, <1>7, <1>8
    <3>7. valueStack' - Base[i] <= currIdx' - Floor[i]
      <4>1. /\ currIdx \in Int /\ currIdx' \in Int
            /\ valueStack \in Int /\ valueStack' \in Int
            /\ Base[i] \in Int /\ Base[k] \in Int
            /\ Floor[i] \in Int /\ Floor[k] \in Int /\ Start[k] \in Int
        BY <3>2, <3>5, <1>8
      <4> QED
        BY <4>1, <3>1, <3>4, <1>7, SMTT(60)
    <3> QED
      BY <3>3, <3>6, <3>7
  <2>2. CASE j # k
    <3>1. i \in 0 .. Len(frames) /\ j \in 1 .. Len(frames) + 1 /\ j \in 1 .. k - 1
      BY <2>2, <1>1
    <3>2. Base[i] <= Base[j] /\ Base[j] - Base[i] <= Start[j] - Floor[i]
      BY <3>1 DEF LeaksAccumulate
    <3> QED
      BY <3>1, <3>2, <1>1, <1>3, <1>4
  <2> QED
    BY <2>1, <2>2
<1>11. OnlyReturnsLeak'
  <2> SUFFICES ASSUME NEW i \in 0 .. k - 1, Base'[i] = Base'[i + 1]
               PROVE  Start'[i + 1] = Floor'[i]
    BY <1>1, <1>2 DEF OnlyReturnsLeak
  <2>1. CASE i = k - 1
    <3>1. Base[i] = valueStack'
      BY <2>1, <1>1, <1>3, <1>5
    <3>2. /\ Base[i] <= Base[k] /\ Base[i] \in Nat
          /\ Base[k] \in Nat /\ Start[k] \in Nat
      BY <1>1, <1>9, AccountTypes
    <3>3. valueStack' = valueStack /\ Base[k] = valueStack /\ Base[i] = Base[k]
      BY <3>1, <3>2, <1>7, <1>8
    <3>4. k = n /\ Base[n + 1] = valueStack /\ Start[n + 1] = currIdx
      BY <3>3, <1>1 DEF Base, Start
    <3>5. currIdx = Floor[k]
      BY <3>3, <3>4, <1>1 DEF OnlyReturnsLeak
    <3>6. Start[k] = Floor[i]
      BY <3>3, <2>1, <1>1 DEF OnlyReturnsLeak
    <3>7. currIdx' = currIdx - Own(frames[k])
      BY <3>3, <1>6, <1>8
    <3>8. currIdx' = Start[k]
      <4>1. currIdx = Start[k] + Own(frames[k])
        BY <3>5, <1>6
      <4>2. Own(frames[k]) \in Nat
        BY <1>6
      <4> QED
        BY <3>2, <3>7, <4>1, <4>2
    <3>9. Start'[i + 1] = currIdx' /\ Floor'[i] = Floor[i]
      BY <2>1, <1>1, <1>3, <1>5
    <3> QED
      BY <3>6, <3>8, <3>9
  <2>2. CASE i # k - 1
    BY <2>2, <1>1, <1>3, <1>4 DEF OnlyReturnsLeak
  <2> QED
    BY <2>1, <2>2
<1> QED
  BY <1>10, <1>11

(***************************************************************************)
(* The inductive invariant.                                                *)
(***************************************************************************)

IndInv == TypeOK /\ ScopeChain /\ LeaksAccumulate /\ OnlyReturnsLeak

LEMMA InitIndInv == Init => IndInv
<1> SUFFICES ASSUME Init PROVE IndInv
  OBVIOUS
<1>1. TypeOK
  BY NoBindingsType DEF Init, TypeOK, Environment, Frame
<1>2. ScopeChain
  BY DEF Init, ScopeChain
<1>3. Len(frames) = 0
  BY DEF Init
<1>4. LeaksAccumulate
  BY <1>3 DEF Init, LeaksAccumulate, Start, Floor, Base
<1>5. OnlyReturnsLeak
  BY <1>3 DEF Init, OnlyReturnsLeak, Start, Floor, Base
<1> QED
  BY <1>1, <1>2, <1>4, <1>5 DEF IndInv

\* Binding a name somewhere changes neither the height of the scope stack nor
\* its parent pointers.
LEMMA RebindFacts ==
  ASSUME TypeOK, ScopeChain, NEW i, NEW n \in Name, NEW v \in Value,
         symTables' = [symTables EXCEPT ![i].values = Bind(@, n, v)],
         currIdx' = currIdx
  PROVE  symTables' \in Seq(Environment(Value)) /\ ScopeChain'
<1>1. symTables \in Seq(Environment(Value))
  BY DEF TypeOK
<1>2. CASE i \in DOMAIN symTables
  <2>1. symTables[i] \in Environment(Value)
    BY <1>1, <1>2
  <2>2. Bind(symTables[i].values, n, v) \in Bindings(Value)
    BY <2>1, BindType DEF Environment
  <2>3. [symTables[i] EXCEPT !.values = Bind(symTables[i].values, n, v)] \in Environment(Value)
    BY <2>1, <2>2 DEF Environment
  <2>4. [symTables[i] EXCEPT !.values = Bind(symTables[i].values, n, v)].parent
          = symTables[i].parent
    BY <2>1 DEF Environment
  <2>5. symTables' = [symTables EXCEPT ![i] =
          [symTables[i] EXCEPT !.values = Bind(symTables[i].values, n, v)]]
    BY <1>2
  <2> QED
    BY <1>1, <1>2, <2>3, <2>4, <2>5 DEF ScopeChain
<1>3. CASE i \notin DOMAIN symTables
  <2>1. symTables' = symTables
    BY <1>1, <1>3
  <2> QED
    BY <1>1, <2>1 DEF ScopeChain
<1> QED
  BY <1>2, <1>3

\* Steps that only bind a name, or only stop the run.
LEMMA QuietAccount ==
  ASSUME LeaksAccumulate, OnlyReturnsLeak,
         UNCHANGED <<currIdx, valueStack, frames>>,
         status' = status \/ status' # "running"
  PROVE  LeaksAccumulate' /\ OnlyReturnsLeak'
<1>1. Start' = Start /\ Floor' = Floor /\ Base' = Base
  BY DEF Start, Floor, Base, Own
<1> QED
  BY <1>1 DEF LeaksAccumulate, OnlyReturnsLeak, Running

\* An exception that leaves every frame.
LEMMA AbortAccount ==
  ASSUME TypeOK, LeaksAccumulate, frames' = <<>>, status' # "running",
         UNCHANGED <<currIdx, valueStack>>
  PROVE  LeaksAccumulate' /\ OnlyReturnsLeak'
<1>1. valueStack <= currIdx
  <2>1. PICK n \in Nat : n = Len(frames)
    BY DEF TypeOK
  <2>2. Base[n + 1] - Base[0] <= Start[n + 1] - Floor[0]
    BY <2>1 DEF LeaksAccumulate
  <2> QED
    BY <2>1, <2>2 DEF Base, Start, Floor, TypeOK
<1>2. /\ Len(frames)' = 0
      /\ Base'[0] = 0 /\ Base'[1] = valueStack
      /\ Start'[1] = currIdx /\ Floor'[0] = 0
  BY DEF Base, Start, Floor
<1>3. LeaksAccumulate'
  BY <1>1, <1>2 DEF LeaksAccumulate, TypeOK
<1> QED
  BY <1>3 DEF OnlyReturnsLeak, Running

(***************************************************************************)
(* Each action keeps the invariant.                                        *)
(***************************************************************************)

LEMMA DefineStep ==
  ASSUME IndInv, NEW n \in Name, NEW v \in Value, Define(n, v),
         declared' \subseteq Func
  PROVE  IndInv'
<1>1. symTables' \in Seq(Environment(Value)) /\ ScopeChain'
  BY RebindFacts DEF IndInv, Define
<1>2. LeaksAccumulate' /\ OnlyReturnsLeak'
  BY QuietAccount DEF IndInv, Define
<1>3. TypeOK'
  BY <1>1 DEF IndInv, Define, TypeOK
<1> QED
  BY <1>1, <1>2, <1>3 DEF IndInv

LEMMA AssignStep ==
  ASSUME IndInv, NEW n \in Name, NEW v \in Data, AssignExpr(n, v)
  PROVE  IndInv'
<1>1. symTables' \in Seq(Environment(Value)) /\ ScopeChain'
  BY RebindFacts DEF IndInv, AssignExpr, Value
<1>2. LeaksAccumulate' /\ OnlyReturnsLeak'
  BY QuietAccount DEF IndInv, AssignExpr
<1>3. TypeOK'
  BY <1>1 DEF IndInv, AssignExpr, TypeOK
<1> QED
  BY <1>1, <1>2, <1>3 DEF IndInv

LEMMA StopStep ==
  ASSUME IndInv,
         NullDereference \/ TypeError \/ TopLevelReturn
           \/ \E n \in Name : Undefined(n)
  PROVE  IndInv'
<1>1. /\ UNCHANGED <<symTables, currIdx, valueStack, declared>>
      /\ frames' = frames \/ frames' = <<>>
      /\ status' \in {"error", "crashed", "terminated"}
  BY DEF NullDereference, TypeError, TopLevelReturn, Undefined
<1>2. TypeOK' /\ ScopeChain'
  <2>1. frames' \in Seq(Frame)
    BY <1>1, EmptySeq DEF IndInv, TypeOK
  <2>2. TypeOK'
    BY <1>1, <2>1 DEF IndInv, TypeOK
  <2> QED
    BY <1>1, <2>2 DEF IndInv, ScopeChain
<1>3. CASE frames' = frames
  <2>1. LeaksAccumulate' /\ OnlyReturnsLeak'
    BY <1>1, <1>3, QuietAccount DEF IndInv
  <2> QED
    BY <1>2, <2>1 DEF IndInv
<1>4. CASE frames' = <<>>
  <2>1. LeaksAccumulate' /\ OnlyReturnsLeak'
    BY <1>1, <1>4, AbortAccount DEF IndInv
  <2> QED
    BY <1>2, <2>1 DEF IndInv
<1> QED
  BY <1>1, <1>3, <1>4

\* A frame pushed for any purpose is well formed.
LEMMA NewFrameType ==
  ASSUME TypeOK, NEW kind \in {"block", "call"}
  PROVE  NewFrame(kind) \in Frame
  BY DEF TypeOK, NewFrame, Frame

\* BlockEnter and Call without the bound on exploration, which the accounting
\* does not need.
BlockPushed ==
  /\ Running
  /\ symTables' = Append(symTables, [values |-> NoBindings, parent |-> currIdx])
  /\ currIdx' = currIdx + 1
  /\ frames' = Append(frames, NewFrame("block"))
  /\ UNCHANGED <<valueStack, declared, status>>

CallPushed(f, args) ==
  /\ Running
  /\ f \in declared
  /\ symTables' = symTables \o
       <<[values |-> ParamBindings(f, args), parent |-> currIdx],
         [values |-> ParamBindings(f, args), parent |-> currIdx + 1]>>
  /\ currIdx' = currIdx + 2
  /\ frames' = Append(frames, NewFrame("call"))
  /\ UNCHANGED <<valueStack, declared, status>>

LEMMA BlockEnterStep == ASSUME IndInv, BlockPushed PROVE IndInv'
<1> DEFINE env == [values |-> NoBindings, parent |-> currIdx]
<1>1. env \in Environment(Value) /\ env.parent = currIdx
  BY NoBindingsType DEF IndInv, TypeOK, Environment
<1>2. symTables' = Append(symTables, env) /\ symTables \in Seq(Environment(Value))
  BY DEF BlockPushed, IndInv, TypeOK
<1> HIDE DEF env
<1>3. ScopeChain'
  <2>1. Len(symTables) = currIdx + 1 /\ currIdx \in Nat
    BY DEF IndInv, ScopeChain, TypeOK
  <2>2. /\ Len(symTables)' = Len(symTables) + 1
        /\ \A i \in 1 .. Len(symTables) : symTables'[i] = symTables[i]
        /\ symTables'[Len(symTables) + 1] = env
    BY <1>1, <1>2
  <2>3. ASSUME NEW i \in 1 .. Len(symTables) + 1
        PROVE  symTables'[i].parent = i - 2
    <3>1. CASE i \in 1 .. Len(symTables)
      BY <1>2, <2>2, <3>1 DEF IndInv, ScopeChain
    <3>2. CASE i = Len(symTables) + 1
      BY <1>1, <2>1, <2>2, <3>2
    <3> QED
      BY <2>1, <3>1, <3>2
  <2>4. DOMAIN symTables' = 1 .. Len(symTables) + 1
    BY <1>1, <1>2, <2>2
  <2> QED
    BY <2>1, <2>2, <2>3, <2>4 DEF ScopeChain, BlockPushed
<1>4. LeaksAccumulate' /\ OnlyReturnsLeak'
  <2>1. Own(NewFrame("block")) = 1
    BY DEF Own, NewFrame
  <2> QED
    BY <2>1, PushAccount DEF BlockPushed, IndInv
<1>5. TypeOK'
  BY <1>1, <1>2, NewFrameType DEF BlockPushed, IndInv, TypeOK
<1> QED
  BY <1>3, <1>4, <1>5 DEF IndInv

LEMMA CallStep ==
  ASSUME IndInv, NEW f \in Func, NEW args \in [DOMAIN f.params -> Data],
         CallPushed(f, args)
  PROVE  IndInv'
<1> DEFINE outer == [values |-> ParamBindings(f, args), parent |-> currIdx]
           inner == [values |-> ParamBindings(f, args), parent |-> currIdx + 1]
<1>1. /\ outer \in Environment(Value) /\ outer.parent = currIdx
      /\ inner \in Environment(Value) /\ inner.parent = currIdx + 1
  BY ParamBindingsType DEF IndInv, TypeOK, Environment
<1>2. symTables' = symTables \o <<outer, inner>> /\ symTables \in Seq(Environment(Value))
  BY DEF CallPushed, IndInv, TypeOK
<1> HIDE DEF outer, inner
<1>3. /\ symTables' \in Seq(Environment(Value))
      /\ Len(symTables)' = Len(symTables) + 2
      /\ \A i \in 1 .. Len(symTables) : symTables'[i] = symTables[i]
      /\ symTables'[Len(symTables) + 1] = outer
      /\ symTables'[Len(symTables) + 2] = inner
  BY <1>1, <1>2
<1>4. ScopeChain'
  <2>1. Len(symTables) = currIdx + 1 /\ currIdx \in Nat
    BY DEF IndInv, ScopeChain, TypeOK
  <2>2. ASSUME NEW i \in DOMAIN symTables'
        PROVE  symTables'[i].parent = i - 2
    <3>1. i \in 1 .. Len(symTables) + 2
      BY <1>3
    <3>2. CASE i \in 1 .. Len(symTables)
      BY <1>2, <1>3, <3>2 DEF IndInv, ScopeChain
    <3>3. CASE i = Len(symTables) + 1
      BY <1>1, <1>3, <2>1, <3>3
    <3>4. CASE i = Len(symTables) + 2
      BY <1>1, <1>3, <2>1, <3>4
    <3> QED
      BY <2>1, <3>1, <3>2, <3>3, <3>4
  <2> QED
    BY <1>3, <2>1, <2>2 DEF ScopeChain, CallPushed
<1>5. LeaksAccumulate' /\ OnlyReturnsLeak'
  <2>1. Own(NewFrame("call")) = 2
    BY DEF Own, NewFrame
  <2> QED
    BY <2>1, PushAccount DEF CallPushed, IndInv
<1>6. TypeOK'
  BY <1>3, NewFrameType DEF CallPushed, IndInv, TypeOK
<1> QED
  BY <1>4, <1>5, <1>6 DEF IndInv

\* Dropping the last scopes keeps the chain.
LEMMA DropFacts ==
  ASSUME TypeOK, ScopeChain, NEW n \in 1 .. Len(symTables),
         symTables' \in Seq(Environment(Value)), Len(symTables)' = n,
         \A i \in 1 .. n : symTables'[i] = symTables[i],
         currIdx' = n - 1
  PROVE  ScopeChain'
  BY DEF TypeOK, ScopeChain

\* The innermost frame has its index, and its scopes are on the stack.
LEMMA LastFrame ==
  ASSUME IndInv, frames # <<>>
  PROVE  /\ Len(frames) \in DOMAIN frames
         /\ Last(frames) = frames[Len(frames)]
         /\ Last(frames) \in Frame
         /\ Last(frames).base <= valueStack
         /\ valueStack - Last(frames).base
              <= currIdx - Last(frames).saved - Own(Last(frames))
         /\ currIdx >= Own(Last(frames))
<1>1. Len(frames) \in DOMAIN frames /\ Last(frames) = frames[Len(frames)]
  BY EmptySeq DEF IndInv, TypeOK, Last
<1>2. /\ Last(frames) \in Frame
      /\ Last(frames).base <= valueStack
      /\ valueStack - Last(frames).base
           <= currIdx - Last(frames).saved - Own(Last(frames))
  BY <1>1, TopFrame DEF IndInv
<1>3. Own(Last(frames)) \in Nat
  BY DEF Own
<1>4. /\ Last(frames).saved \in Nat /\ Last(frames).base \in Nat
      /\ currIdx \in Nat /\ valueStack \in Nat
  BY <1>2 DEF Frame, IndInv, TypeOK
<1>5. currIdx >= Own(Last(frames))
  BY <1>2, <1>3, <1>4
<1> QED
  BY <1>1, <1>2, <1>5

\* The parent of the current scope is the scope before it.
LEMMA CurrentScope ==
  ASSUME IndInv
  PROVE  /\ symTables \in Seq(Environment(Value)) /\ symTables # <<>>
         /\ currIdx \in Nat /\ Len(symTables) = currIdx + 1
         /\ Scope(currIdx).parent = currIdx - 1
<1>1. /\ symTables \in Seq(Environment(Value)) /\ currIdx \in Nat
      /\ Len(symTables) = currIdx + 1
  BY DEF IndInv, TypeOK, ScopeChain
<1>2. currIdx + 1 \in DOMAIN symTables
  BY <1>1
<1>3. symTables[currIdx + 1].parent = currIdx + 1 - 2
  BY <1>2 DEF IndInv, ScopeChain
<1> QED
  BY <1>1, <1>3 DEF Scope

\* What is left when the last scope is popped.
LEMMA FrontScopes ==
  ASSUME IndInv
  PROVE  /\ Front(symTables) \in Seq(Environment(Value))
         /\ Len(Front(symTables)) = currIdx
         /\ \A i \in 1 .. currIdx : Front(symTables)[i] = symTables[i]
  BY CurrentScope, FrontFacts

LEMMA BlockExitStep == ASSUME IndInv, BlockExit PROVE IndInv'
<1>1. frames # <<>> /\ Own(Last(frames)) = 1
  BY DEF BlockExit, TopIs, Own
<1>2. currIdx >= 1
  BY <1>1, LastFrame
<1>3. currIdx' = currIdx - 1
  BY CurrentScope DEF BlockExit
<1>4. /\ symTables' \in Seq(Environment(Value))
      /\ Len(symTables)' = currIdx
      /\ \A i \in 1 .. currIdx : symTables'[i] = symTables[i]
  BY FrontScopes DEF BlockExit
<1>5. ScopeChain'
  BY <1>2, <1>3, <1>4, CurrentScope, DropFacts DEF IndInv
<1>6. LeaksAccumulate' /\ OnlyReturnsLeak'
  <2>1. frames' = SubSeq(frames, 1, Len(frames) - 1)
    BY DEF BlockExit, Front
  <2>2. PICK k \in DOMAIN frames : k = Len(frames) /\ Last(frames) = frames[k]
    BY <1>1, LastFrame
  <2>3. /\ valueStack' = valueStack /\ valueStack \in Nat
        /\ currIdx \in Nat /\ Running
    BY DEF BlockExit, IndInv, TypeOK
  <2>4. currIdx' - valueStack' = currIdx - Own(frames[k]) - valueStack
    BY <1>1, <1>3, <2>2, <2>3
  <2> QED
    BY <1>3, <2>1, <2>2, <2>3, <2>4, PopAccount DEF IndInv
<1>7. TypeOK'
  BY <1>1, <1>2, <1>3, <1>4, FrontFacts DEF BlockExit, IndInv, TypeOK
<1> QED
  BY <1>5, <1>6, <1>7 DEF IndInv

LEMMA CallFinishStep == ASSUME IndInv, CallFinish PROVE IndInv'
<1>1. frames # <<>> /\ Own(Last(frames)) = 2
  BY DEF CallFinish, TopIs, Own
<1>2. currIdx >= 2
  BY <1>1, LastFrame
<1>3. currIdx' = currIdx - 2
  BY CurrentScope DEF CallFinish
<1>4. /\ Front(symTables) \in Seq(Environment(Value))
      /\ Len(Front(symTables)) = currIdx
      /\ \A i \in 1 .. currIdx : Front(symTables)[i] = symTables[i]
  BY FrontScopes
<1>5. /\ symTables' \in Seq(Environment(Value))
      /\ Len(symTables)' = currIdx - 1
      /\ \A i \in 1 .. currIdx - 1 : symTables'[i] = symTables[i]
  <2>1. Front(symTables) # <<>>
    BY <1>2, <1>4
  <2>2. /\ Front(Front(symTables)) \in Seq(Environment(Value))
        /\ Len(Front(Front(symTables))) = currIdx - 1
        /\ \A i \in 1 .. currIdx - 1 :
             Front(Front(symTables))[i] = Front(symTables)[i]
    BY <1>4, <2>1, FrontFacts
  <2> QED
    BY <1>4, <2>2, CurrentScope DEF CallFinish
<1>6. ScopeChain'
  BY <1>2, <1>3, <1>5, CurrentScope, DropFacts DEF IndInv
<1>7. LeaksAccumulate' /\ OnlyReturnsLeak'
  <2>1. frames' = SubSeq(frames, 1, Len(frames) - 1)
    BY DEF CallFinish, Front
  <2>2. PICK k \in DOMAIN frames : k = Len(frames) /\ Last(frames) = frames[k]
    BY <1>1, LastFrame
  <2>3. /\ valueStack' = valueStack /\ valueStack \in Nat
        /\ currIdx \in Nat /\ Running
    BY DEF CallFinish, IndInv, TypeOK
  <2>4. currIdx' - valueStack' = currIdx - Own(frames[k]) - valueStack
    BY <1>1, <1>3, <2>2, <2>3
  <2> QED
    BY <1>3, <2>1, <2>2, <2>3, <2>4, PopAccount DEF IndInv
<1>8. TypeOK'
  BY <1>1, <1>2, <1>3, <1>5, FrontFacts DEF CallFinish, IndInv, TypeOK
<1> QED
  BY <1>6, <1>7, <1>8 DEF IndInv

\* The call that a return unwinds to.
LEMMA InnermostCall ==
  ASSUME IndInv, CallFrames # {}
  PROVE  /\ Max(CallFrames) \in DOMAIN frames
         /\ Own(frames[Max(CallFrames)]) = 2
<1>1. CallFrames \in SUBSET (0 .. Len(frames)) /\ Len(frames) \in Nat
  BY DEF CallFrames, IndInv, TypeOK
<1>2. Max(CallFrames) \in CallFrames
  BY <1>1, MaxFacts
<1> QED
  BY <1>2 DEF CallFrames, Own

LEMMA ReturnStep == ASSUME IndInv, ReturnStmt PROVE IndInv'
<1>1. PICK k \in DOMAIN frames : k = Max(CallFrames) /\ Own(frames[k]) = 2
  BY InnermostCall DEF ReturnStmt
<1>2. currIdx >= 2
  BY <1>1, TopFrame DEF IndInv, Frame, TypeOK
<1>3. /\ symTables' \in Seq(Environment(Value))
      /\ Len(symTables)' = currIdx
      /\ \A i \in 1 .. currIdx : symTables'[i] = symTables[i]
  BY FrontScopes DEF ReturnStmt
<1>4. currIdx' = currIdx - 1 /\ currIdx \in Nat
  BY CurrentScope DEF ReturnStmt
<1>5. ScopeChain'
  BY <1>2, <1>3, <1>4, CurrentScope, DropFacts DEF IndInv
<1>6. valueStack' = valueStack + 1 /\ valueStack \in Nat
  BY DEF ReturnStmt, IndInv, TypeOK
<1>7. frames' = SubSeq(frames, 1, k - 1)
  BY <1>1 DEF ReturnStmt
<1>8. LeaksAccumulate' /\ OnlyReturnsLeak'
  <2>1. currIdx' - valueStack' = currIdx - Own(frames[k]) - valueStack
    BY <1>1, <1>4, <1>6
  <2>2. /\ currIdx' \in Int /\ valueStack' \in Nat
        /\ valueStack' >= valueStack /\ valueStack' # valueStack
    BY <1>4, <1>6
  <2> QED
    BY <1>7, <2>1, <2>2, PopAccount DEF ReturnStmt, IndInv
<1>9. TypeOK'
  <2>1. frames' \in Seq(Frame)
    BY <1>7, PrefixFacts DEF IndInv, TypeOK
  <2> QED
    BY <1>2, <1>3, <1>4, <1>6, <2>1 DEF ReturnStmt, IndInv, TypeOK
<1> QED
  BY <1>5, <1>8, <1>9 DEF IndInv

\* Next, on any number of scopes.
Unbounded ==
  \/ Next
  \/ BlockPushed
  \/ \E f \in Func : \E args \in [DOMAIN f.params -> Data] : CallPushed(f, args)

LEMMA UnboundedIndInv == IndInv /\ [Unbounded]_vars => IndInv'
<1> SUFFICES ASSUME IndInv, [Unbounded]_vars PROVE IndInv'
  OBVIOUS
<1>1. ASSUME NEW n \in Name, NEW v \in Data, VarDecl(n, v) PROVE IndInv'
  BY <1>1, DefineStep DEF VarDecl, Value, IndInv, TypeOK
<1>2. ASSUME NEW f \in Func, FuncDecl(f) PROVE IndInv'
  BY <1>2, DefineStep, ScopeAssumption DEF FuncDecl, Value, IndInv, TypeOK
<1>3. ASSUME NEW n \in Name, NEW v \in Data, AssignExpr(n, v) PROVE IndInv'
  BY <1>3, AssignStep
<1>4. ASSUME NEW n \in Name, Undefined(n) PROVE IndInv'
  BY <1>4, StopStep
<1>5. CASE NullDereference
  BY <1>5, StopStep
<1>6. CASE BlockPushed \/ BlockEnter
  BY <1>6, BlockEnterStep DEF BlockEnter, BlockPushed
<1>7. CASE BlockExit
  BY <1>7, BlockExitStep
<1>8. ASSUME NEW f \in Func, NEW args \in [DOMAIN f.params -> Data],
             CallPushed(f, args) \/ Call(f, args)
      PROVE  IndInv'
  BY <1>8, CallStep DEF Call, CallPushed
<1>9. CASE CallFinish
  BY <1>9, CallFinishStep
<1>10. CASE ReturnStmt
  BY <1>10, ReturnStep
<1>11. CASE TopLevelReturn
  BY <1>11, StopStep
<1>12. CASE TypeError
  BY <1>12, StopStep
<1>13. CASE UNCHANGED vars
  <2>1. Start' = Start /\ Floor' = Floor /\ Base' = Base
    BY <1>13 DEF vars, Start, Floor, Base, Own
  <2> QED
    BY <1>13, <2>1 DEF IndInv, vars, TypeOK, ScopeChain, LeaksAccumulate,
                       OnlyReturnsLeak, Running
<1> QED
  BY <1>1, <1>2, <1>3, <1>4, <1>5, <1>6, <1>7, <1>8, <1>9, <1>10, <1>11, <1>12,
     <1>13
  DEF Next, Unbounded

LEMMA NextIndInv == IndInv /\ [Next]_vars => IndInv'
  BY UnboundedIndInv DEF Unbounded

\* The strengthening from which everything below follows: the accounting of
\* frames is what tells that no exit pops a scope it does not own.
THEOREM IndInvHolds == Spec => []IndInv
  BY InitIndInv, NextIndInv, PTL DEF Spec

(***************************************************************************)
(* Name resolution.  The walk is a recursive function; it is shown to have *)
(* a value by exhibiting one, and to have no other by the least scope      *)
(* where another would differ.                                             *)
(***************************************************************************)

\* The scopes up to index i that bind n, and the newest of them.
BindingScopes(n, i) ==
  {b \in 0 .. Len(symTables) - 1 : b <= i /\ n \in DOMAIN Scope(b).values}

Newest(n, i) ==
  IF BindingScopes(n, i) = {} THEN -1 ELSE Max(BindingScopes(n, i))

\* One step of the walk, expressed by the newest binding.
LEMMA NewestStep ==
  ASSUME IndInv, NEW n \in Name, NEW i \in -1 .. Len(symTables) - 1
  PROVE  Newest(n, i) = IF i = -1 \/ n \in DOMAIN Scope(i).values
                        THEN i ELSE Newest(n, Scope(i).parent)
<1>1. PICK len \in Nat : len = Len(symTables)
  BY DEF IndInv, TypeOK
<1>2. CASE i = -1
  <2>1. BindingScopes(n, i) = {}
    BY <1>2 DEF BindingScopes
  <2> QED
    BY <1>2, <2>1 DEF Newest
<1>3. CASE i # -1 /\ n \in DOMAIN Scope(i).values
  <2>1. i \in BindingScopes(n, i)
    BY <1>1, <1>3 DEF BindingScopes
  <2>2. BindingScopes(n, i) \in SUBSET (0 .. len)
    BY <1>1 DEF BindingScopes
  <2>3. Max(BindingScopes(n, i)) \in BindingScopes(n, i)
        /\ i <= Max(BindingScopes(n, i))
    BY <1>1, <2>1, <2>2, MaxFacts
  <2>4. Max(BindingScopes(n, i)) = i
    BY <2>2, <2>3 DEF BindingScopes
  <2> QED
    BY <1>3, <2>1, <2>4 DEF Newest
<1>4. CASE i # -1 /\ n \notin DOMAIN Scope(i).values
  <2>1. Scope(i).parent = i - 1
    <3>1. i + 1 \in DOMAIN symTables
      BY <1>1, <1>4 DEF IndInv, TypeOK
    <3>2. symTables[i + 1].parent = i + 1 - 2
      BY <3>1 DEF IndInv, ScopeChain
    <3> QED
      BY <3>2 DEF Scope
  <2>2. BindingScopes(n, i) = BindingScopes(n, i - 1)
    BY <1>1, <1>4 DEF BindingScopes
  <2> QED
    BY <1>4, <2>1, <2>2 DEF Newest
<1> QED
  BY <1>2, <1>3, <1>4

LEMMA HomeIsNewest ==
  ASSUME IndInv, NEW n \in Name
  PROVE  Home(n) = Newest(n, currIdx)
<1> DEFINE Idx == -1 .. Len(symTables) - 1
           IsWalk(w) == w = [i \in Idx |->
                               IF i = -1 \/ n \in DOMAIN Scope(i).values
                               THEN i ELSE w[Scope(i).parent]]
           newest == [i \in Idx |-> Newest(n, i)]
<1>1. PICK len \in Nat : len = Len(symTables) /\ currIdx = len - 1
  BY DEF IndInv, TypeOK, ScopeChain
<1>2. \A i \in Idx : i # -1 => Scope(i).parent = i - 1 /\ i - 1 \in Idx
  <2> SUFFICES ASSUME NEW i \in Idx, i # -1
               PROVE  Scope(i).parent = i - 1 /\ i - 1 \in Idx
    OBVIOUS
  <2>1. i + 1 \in DOMAIN symTables
    BY <1>1 DEF IndInv, TypeOK
  <2>2. symTables[i + 1].parent = i + 1 - 2
    BY <2>1 DEF IndInv, ScopeChain
  <2> QED
    BY <1>1, <2>2 DEF Scope
<1>3. IsWalk(newest)
  <2>1. ASSUME NEW i \in Idx
        PROVE  newest[i] = IF i = -1 \/ n \in DOMAIN Scope(i).values
                           THEN i ELSE newest[Scope(i).parent]
    BY <1>2, NewestStep
  <2> QED
    BY <2>1
<1>4. PICK walk : IsWalk(walk) /\ Home(n) = walk[currIdx]
  BY <1>3, Zenon DEF Home
<1>5. \A i \in Idx : walk[i] = Newest(n, i)
  <2> DEFINE bad == {i \in 0 .. Len(symTables) - 1 : walk[i] # Newest(n, i)}
  <2>1. \A i \in Idx : walk[i] = IF i = -1 \/ n \in DOMAIN Scope(i).values
                                 THEN i ELSE walk[Scope(i).parent]
    BY <1>4
  <2>2. ASSUME bad # {} PROVE FALSE
    <3>1. bad \in SUBSET Nat
      OBVIOUS
    <3>2. PICK m \in bad : \A k \in bad : m <= k
      BY <2>2, <3>1, LeastNatural
    <3>3. m \in Idx /\ m # -1 /\ m \in Nat /\ walk[m] # Newest(n, m)
      BY <1>1, <3>2
    <3>4. Scope(m).parent = m - 1 /\ m - 1 \in Idx
      BY <1>2, <3>3
    <3>5. walk[m - 1] = Newest(n, m - 1)
      <4>1. CASE m = 0
        BY <2>1, <3>3, <3>4, <4>1, NewestStep
      <4>2. CASE m # 0
        BY <1>1, <3>2, <3>3, <3>4, <4>2
      <4> QED
        BY <4>1, <4>2
    <3> QED
      BY <2>1, <3>3, <3>4, <3>5, NewestStep
  <2>3. ASSUME NEW i \in Idx PROVE walk[i] = Newest(n, i)
    <3>1. CASE i = -1
      BY <2>1, <3>1, NewestStep
    <3>2. CASE i # -1
      BY <1>1, <2>2, <3>2
    <3> QED
      BY <3>1, <3>2
  <2> QED
    BY <2>3
<1> QED
  BY <1>1, <1>4, <1>5

(***************************************************************************)
(* The results.                                                            *)
(***************************************************************************)

\* The state stays well formed: currIdx, above all, never becomes negative,
\* whatever blocks, calls and returns a program nests.
THEOREM TypeCorrect == Spec => []TypeOK
<1>1. IndInv => TypeOK
  BY DEF IndInv
<1> QED
  BY <1>1, IndInvHolds, PTL

\* Parent pointers and currIdx describe a plain stack, leaks included.
THEOREM ScopeChainHolds == Spec => []ScopeChain
<1>1. IndInv => ScopeChain
  BY DEF IndInv
<1> QED
  BY <1>1, IndInvHolds, PTL

\* Every returning call leaks a scope and a value for good.
THEOREM LeaksAccumulateHolds == Spec => []LeaksAccumulate
<1>1. IndInv => LeaksAccumulate
  BY DEF IndInv
<1> QED
  BY <1>1, IndInvHolds, PTL

\* Nothing but a returning call leaks.
THEOREM OnlyReturnsLeakHolds == Spec => []OnlyReturnsLeak
<1>1. IndInv => OnlyReturnsLeak
  BY DEF IndInv
<1> QED
  BY <1>1, IndInvHolds, PTL

LEMMA ResolvesFollows == IndInv => ResolvesToNewest
<1> SUFFICES ASSUME IndInv, NEW n \in Name
             PROVE  LET binding == {i \in 0 .. Len(symTables) - 1 : n \in DOMAIN Scope(i).values}
                    IN  Home(n) = IF binding = {} THEN -1 ELSE Max(binding)
  BY DEF ResolvesToNewest
<1>1. PICK len \in Nat : len = Len(symTables) /\ currIdx = len - 1
  BY DEF IndInv, TypeOK, ScopeChain
<1>2. BindingScopes(n, currIdx) = {i \in 0 .. Len(symTables) - 1 : n \in DOMAIN Scope(i).values}
  BY <1>1 DEF BindingScopes
<1> QED
  BY <1>2, HomeIsNewest DEF Newest

\* The walk of assign and resolve always ends, at the newest binding.
THEOREM ResolvesToNewestHolds == Spec => []ResolvesToNewest
  BY ResolvesFollows, IndInvHolds, PTL

\* What an exit and a return do to the current scope.
ExitsRestore ==
  /\ BlockExit \/ CallFinish
  /\ Last(frames).base = valueStack
  => currIdx' = Last(frames).saved

ReturnsDoNot ==
  ReturnStmt => currIdx' > frames[Max(CallFrames)].saved

LEMMA ExitStep == IndInv => ExitsRestore
<1> SUFFICES ASSUME IndInv, BlockExit \/ CallFinish, Last(frames).base = valueStack
             PROVE  currIdx' = Last(frames).saved
  BY DEF ExitsRestore
<1>1. frames # <<>> /\ Running
  BY DEF BlockExit, CallFinish, TopIs
<1>2. PICK n \in Nat : n = Len(frames) /\ n # 0 /\ Last(frames) = frames[n]
  BY <1>1, LastFrame, EmptySeq DEF IndInv, TypeOK
<1>3. Base[n] = Base[n + 1] /\ Start[n + 1] = currIdx
      /\ Floor[n] = Last(frames).saved + Own(Last(frames))
  BY <1>2 DEF Base, Start, Floor
<1>4. currIdx = Last(frames).saved + Own(Last(frames))
  BY <1>1, <1>2, <1>3 DEF IndInv, OnlyReturnsLeak
<1>5. Last(frames).saved \in Nat
  BY <1>1, LastFrame DEF Frame
<1>6. CASE BlockExit
  <2>1. Own(Last(frames)) = 1 /\ currIdx' = currIdx - 1
    BY <1>6, CurrentScope DEF BlockExit, TopIs, Own
  <2> QED
    BY <2>1, <1>4, <1>5
<1>7. CASE CallFinish
  <2>1. Own(Last(frames)) = 2 /\ currIdx' = currIdx - 2
    BY <1>7, CurrentScope DEF CallFinish, TopIs, Own
  <2> QED
    BY <2>1, <1>4, <1>5
<1> QED
  BY <1>6, <1>7

LEMMA ReturnLeaks == IndInv => ReturnsDoNot
<1> SUFFICES ASSUME IndInv, ReturnStmt
             PROVE  currIdx' > frames[Max(CallFrames)].saved
  BY DEF ReturnsDoNot
<1>1. PICK k \in DOMAIN frames : k = Max(CallFrames) /\ Own(frames[k]) = 2
  BY InnermostCall DEF ReturnStmt
<1>2. /\ frames[k] \in Frame /\ frames[k].base <= valueStack
      /\ valueStack - frames[k].base
           <= currIdx - frames[k].saved - Own(frames[k])
  BY TopFrame DEF IndInv
<1>3. currIdx' = currIdx - 1 /\ currIdx \in Nat /\ valueStack \in Nat
  BY DEF ReturnStmt, IndInv, TypeOK
<1> QED
  BY <1>1, <1>2, <1>3 DEF Frame

\* Blocks and bodies without a returning call restore the scopes.
THEOREM ExitRestores == Spec => ExitRestoresUnlessReturned
<1>1. IndInv /\ [Next]_vars => [ExitsRestore]_vars
  BY ExitStep
<1> QED
  BY <1>1, IndInvHolds, PTL DEF Spec, ExitRestoresUnlessReturned, ExitsRestore

\* A return never puts the caller's scope back: a scope of the callee, with
\* its parameters and variables, stays current and shadows the caller's.
ReturnNeverRestores ==
  [][ ReturnStmt => currIdx' > frames[Max(CallFrames)].saved ]_vars

\* No return ever restores the scope of the caller: what LeaksAccumulate, which
\* counts a scope for every value left behind, means for one return.
THEOREM NeverRestores == Spec => ReturnNeverRestores
<1>1. IndInv /\ [Next]_vars => [ReturnsDoNot]_vars
  BY ReturnLeaks
<1> QED
  BY <1>1, IndInvHolds, PTL DEF Spec, ReturnNeverRestores, ReturnsDoNot

(***************************************************************************)
(* The names of older scopes.                                              *)
(***************************************************************************)

NamesKept ==
  IF frames = <<>>
  THEN DOMAIN Scope(0).values \subseteq DOMAIN Scope(0)'.values
  ELSE \A i \in 0 .. Last(frames).saved :
         DOMAIN Scope(i)'.values = DOMAIN Scope(i).values

\* Steps that leave alone the scopes up to the one the innermost frame goes
\* back to, whatever they push or pop above it.
LEMMA UntouchedKept ==
  ASSUME IndInv, NEW m \in Nat, m >= 1,
         frames # <<>> => Last(frames).saved + 1 <= m,
         \A j \in 1 .. m : symTables'[j] = symTables[j]
  PROVE  NamesKept
<1>1. ASSUME NEW i \in Nat, i + 1 <= m
      PROVE  Scope(i)' = Scope(i)
  BY <1>1 DEF Scope
<1>2. CASE frames = <<>>
  BY <1>1, <1>2 DEF NamesKept
<1>3. CASE frames # <<>>
  <2>1. Last(frames).saved \in Nat
    BY <1>3, LastFrame DEF Frame
  <2>2. \A i \in 0 .. Last(frames).saved : i \in Nat /\ i + 1 <= m
    BY <1>3, <2>1
  <2> QED
    BY <1>1, <1>3, <2>2 DEF NamesKept
<1> QED
  BY <1>2, <1>3

\* The scope that the innermost frame goes back to lies below all its own.
LEMMA SavedBelow ==
  ASSUME IndInv, frames # <<>>
  PROVE  /\ Last(frames).saved \in Nat
         /\ Last(frames).saved + Own(Last(frames)) <= currIdx
<1>1. /\ Last(frames) \in Frame /\ Last(frames).base <= valueStack
      /\ valueStack - Last(frames).base
           <= currIdx - Last(frames).saved - Own(Last(frames))
  BY LastFrame
<1>2. /\ Last(frames).saved \in Nat /\ Last(frames).base \in Nat
      /\ currIdx \in Nat /\ valueStack \in Nat /\ Own(Last(frames)) \in Nat
  BY <1>1 DEF Frame, IndInv, TypeOK, Own
<1>3. PICK saved \in Nat, base \in Nat, own \in Nat :
        saved = Last(frames).saved /\ base = Last(frames).base /\ own = Own(Last(frames))
  BY <1>2
<1>4. base <= valueStack /\ valueStack - base <= currIdx - saved - own
  BY <1>1, <1>3
<1>5. saved + own <= currIdx
  BY <1>2, <1>4
<1> QED
  BY <1>2, <1>3, <1>5

\* A binding adds its name to one scope and changes no other.
LEMMA RebindNames ==
  ASSUME IndInv, NEW k \in Int, NEW n, NEW v,
         symTables' = [symTables EXCEPT ![k + 1].values = Bind(@, n, v)],
         NEW i \in 0 .. currIdx
  PROVE  /\ i # k => Scope(i)' = Scope(i)
         /\ i = k => DOMAIN Scope(i)'.values = DOMAIN Scope(i).values \cup {n}
<1>1. i + 1 \in DOMAIN symTables /\ symTables[i + 1] \in Environment(Value)
  BY CurrentScope
<1>2. CASE i # k
  BY <1>1, <1>2 DEF Scope
<1>3. CASE i = k
  <2>1. symTables'[i + 1] =
          [symTables[i + 1] EXCEPT !.values = Bind(symTables[i + 1].values, n, v)]
    BY <1>1, <1>3
  <2>2. symTables'[i + 1].values = Bind(symTables[i + 1].values, n, v)
    BY <1>1, <2>1 DEF Environment
  <2>3. DOMAIN symTables'[i + 1].values = DOMAIN symTables[i + 1].values \cup {n}
    BY <2>2 DEF Bind
  <2> QED
    BY <1>3, <2>3 DEF Scope
<1> QED
  BY <1>2, <1>3

\* A declaration binds its name in the current scope, which every frame has
\* pushed itself.
LEMMA DefineKept ==
  ASSUME IndInv, NEW n, NEW v, Define(n, v)
  PROVE  NamesKept
<1>1. currIdx \in Nat
  BY DEF IndInv, TypeOK
<1>2. ASSUME NEW i \in 0 .. currIdx
      PROVE  /\ i # currIdx => Scope(i)' = Scope(i)
             /\ i = currIdx => DOMAIN Scope(i)'.values = DOMAIN Scope(i).values \cup {n}
  <2>1. PICK k \in Int : k = currIdx
    BY <1>1
  <2>2. symTables' = [symTables EXCEPT ![k + 1].values = Bind(@, n, v)]
    BY <2>1 DEF Define
  <2>3. /\ i # k => Scope(i)' = Scope(i)
        /\ i = k => DOMAIN Scope(i)'.values = DOMAIN Scope(i).values \cup {n}
    BY <2>2, RebindNames
  <2> QED
    BY <2>1, <2>3
<1>3. CASE frames = <<>>
  <2>1. DOMAIN Scope(0).values \subseteq DOMAIN Scope(0)'.values
    BY <1>1, <1>2
  <2> QED
    BY <1>3, <2>1 DEF NamesKept
<1>4. CASE frames # <<>>
  <2>1. Own(Last(frames)) \in {1, 2}
    BY DEF Own
  <2>2. Last(frames).saved \in Nat /\ Last(frames).saved < currIdx
    BY <1>1, <1>4, <2>1, SavedBelow
  <2>3. ASSUME NEW i \in 0 .. Last(frames).saved
        PROVE  DOMAIN Scope(i)'.values = DOMAIN Scope(i).values
    BY <1>1, <1>2, <2>2
  <2> QED
    BY <1>4, <2>3 DEF NamesKept
<1> QED
  BY <1>3, <1>4

\* An assignment binds its name where it is bound already.
LEMMA AssignKept ==
  ASSUME IndInv, NEW n \in Name, NEW v, AssignExpr(n, v)
  PROVE  NamesKept
<1>1. currIdx \in Nat /\ Len(symTables) = currIdx + 1
  BY CurrentScope
<1>2. Home(n) \in 0 .. currIdx /\ n \in DOMAIN Scope(Home(n)).values
  <2>1. Home(n) = Newest(n, currIdx) /\ Home(n) # -1
    BY HomeIsNewest DEF AssignExpr
  <2>2. BindingScopes(n, currIdx) \in SUBSET (0 .. currIdx)
    BY <1>1 DEF BindingScopes
  <2>3. Home(n) = Max(BindingScopes(n, currIdx)) /\ BindingScopes(n, currIdx) # {}
    BY <2>1 DEF Newest
  <2>4. Home(n) \in BindingScopes(n, currIdx)
    BY <1>1, <2>2, <2>3, MaxFacts
  <2> QED
    BY <2>2, <2>4 DEF BindingScopes
<1>3. ASSUME NEW i \in 0 .. currIdx
      PROVE  DOMAIN Scope(i)'.values = DOMAIN Scope(i).values
  <2>1. PICK k \in Int : k = Home(n)
    BY <1>1, <1>2
  <2>2. symTables' = [symTables EXCEPT ![k + 1].values = Bind(@, n, v)]
    BY <2>1 DEF AssignExpr
  <2>3. /\ i # k => Scope(i)' = Scope(i)
        /\ i = k => DOMAIN Scope(i)'.values = DOMAIN Scope(i).values \cup {n}
    BY <2>2, RebindNames
  <2> QED
    BY <1>2, <2>1, <2>3
<1>4. CASE frames = <<>>
  BY <1>1, <1>3, <1>4 DEF NamesKept
<1>5. CASE frames # <<>>
  <2>1. Own(Last(frames)) \in {1, 2}
    BY DEF Own
  <2>2. Last(frames).saved \in Nat /\ Last(frames).saved < currIdx
    BY <1>1, <1>5, <2>1, SavedBelow
  <2>3. \A i \in 0 .. Last(frames).saved : i \in 0 .. currIdx
    BY <1>1, <2>2
  <2> QED
    BY <1>3, <1>5, <2>3 DEF NamesKept
<1> QED
  BY <1>4, <1>5

\* Pushing and popping: an exit or a return takes scopes above the saved one.
LEMMA FramesKept ==
  ASSUME IndInv,
         \/ BlockPushed
         \/ \E f \in Func : \E args \in [DOMAIN f.params -> Data] : CallPushed(f, args)
         \/ BlockExit
         \/ CallFinish
         \/ ReturnStmt
  PROVE  NamesKept
<1>1. /\ symTables \in Seq(Environment(Value)) /\ currIdx \in Nat
      /\ Len(symTables) = currIdx + 1
  BY CurrentScope
<1>2. Own(Last(frames)) \in {1, 2}
  BY DEF Own
<1>3. frames # <<>> => /\ Last(frames).saved \in Nat
                       /\ Last(frames).saved + Own(Last(frames)) <= currIdx
  BY SavedBelow
<1>4. \A j \in 1 .. currIdx : Front(symTables)[j] = symTables[j]
  BY FrontScopes
<1>p. /\ currIdx + 1 \in Nat /\ currIdx + 1 >= 1
      /\ frames # <<>> => Last(frames).saved + 1 <= currIdx + 1
  BY <1>1, <1>2, <1>3
<1>5. CASE BlockPushed
  <2>1. PICK env : symTables' = Append(symTables, env)
    BY <1>5 DEF BlockPushed
  <2>2. \A j \in 1 .. currIdx + 1 : symTables'[j] = symTables[j]
    BY <1>1, <2>1
  <2> QED
    BY <1>p, <2>2, UntouchedKept
<1>6. ASSUME NEW f \in Func, NEW args \in [DOMAIN f.params -> Data], CallPushed(f, args)
      PROVE  NamesKept
  <2>1. PICK outer, inner : symTables' = symTables \o <<outer, inner>>
    BY <1>6 DEF CallPushed
  <2>2. \A j \in 1 .. currIdx + 1 : symTables'[j] = symTables[j]
    BY <1>1, <2>1
  <2> QED
    BY <1>p, <2>2, UntouchedKept
<1>7. CASE BlockExit \/ ReturnStmt
  <2>1. frames # <<>>
    BY <1>7, InnermostCall DEF BlockExit, TopIs, ReturnStmt, CallFrames
  <2>2. symTables' = Front(symTables)
    BY <1>7 DEF BlockExit, ReturnStmt
  <2>3. currIdx >= 1 /\ Last(frames).saved + 1 <= currIdx
    BY <1>1, <1>2, <1>3, <2>1
  <2> QED
    BY <1>1, <1>4, <2>2, <2>3, UntouchedKept
<1>8. CASE CallFinish
  <2>1. frames # <<>> /\ Own(Last(frames)) = 2
    BY <1>8 DEF CallFinish, TopIs, Own
  <2>2. currIdx >= 2 /\ Last(frames).saved + 1 <= currIdx - 1
    BY <1>1, <1>3, <2>1
  <2>3. \A j \in 1 .. currIdx - 1 : symTables'[j] = symTables[j]
    <3>1. /\ Front(symTables) \in Seq(Environment(Value))
          /\ Len(Front(symTables)) = currIdx /\ Front(symTables) # <<>>
      BY <2>2, FrontScopes
    <3>2. \A j \in 1 .. currIdx - 1 :
            Front(Front(symTables))[j] = Front(symTables)[j]
      BY <3>1, FrontFacts
    <3> QED
      BY <1>1, <1>4, <1>8, <3>2 DEF CallFinish
  <2>4. currIdx - 1 \in Nat /\ currIdx - 1 >= 1
    BY <1>1, <2>2
  <2> QED
    BY <2>2, <2>3, <2>4, UntouchedKept
<1> QED
  BY <1>5, <1>6, <1>7, <1>8

LEMMA NamesStep == IndInv /\ Unbounded => NamesKept
<1> SUFFICES ASSUME IndInv, Unbounded PROVE NamesKept
  OBVIOUS
<1>1. ASSUME NEW n \in Name, NEW v \in Data, VarDecl(n, v) PROVE NamesKept
  BY <1>1, DefineKept DEF VarDecl
<1>2. ASSUME NEW f \in Func, FuncDecl(f) PROVE NamesKept
  BY <1>2, DefineKept DEF FuncDecl
<1>3. ASSUME NEW n \in Name, NEW v \in Data, AssignExpr(n, v) PROVE NamesKept
  BY <1>3, AssignKept
<1>4. CASE NullDereference \/ TypeError \/ TopLevelReturn
             \/ \E n \in Name : Undefined(n)
  <2>1. symTables' = symTables
    BY <1>4 DEF NullDereference, TypeError, TopLevelReturn, Undefined
  <2> QED
    BY <2>1 DEF NamesKept, Scope
<1>5. CASE BlockEnter \/ BlockPushed
  BY <1>5, FramesKept DEF BlockEnter, BlockPushed
<1>6. ASSUME NEW f \in Func, NEW args \in [DOMAIN f.params -> Data],
             CallPushed(f, args) \/ Call(f, args)
      PROVE  NamesKept
  <2>1. CallPushed(f, args)
    BY <1>6 DEF Call, CallPushed
  <2> QED
    BY <2>1, FramesKept
<1>7. CASE BlockExit \/ CallFinish \/ ReturnStmt
  BY <1>7, FramesKept
<1> QED
  BY <1>1, <1>2, <1>3, <1>4, <1>5, <1>6, <1>7 DEF Next, Unbounded

\* The scopes that were there before the innermost frame are there still.
LEMMA OlderRemain ==
  ASSUME IndInv, [Unbounded]_vars, frames # <<>>
  PROVE  Last(frames).saved < Len(symTables')
<1>1. /\ symTables \in Seq(Environment(Value)) /\ currIdx \in Nat
      /\ Len(symTables) = currIdx + 1
  BY CurrentScope
<1>2. Own(Last(frames)) \in {1, 2}
  BY DEF Own
<1>3. Last(frames).saved \in Nat /\ Last(frames).saved + Own(Last(frames)) <= currIdx
  BY SavedBelow
<1>4. Len(symTables') >= currIdx + 1 => Last(frames).saved < Len(symTables')
  <2> SUFFICES ASSUME Len(symTables') >= currIdx + 1 PROVE Last(frames).saved < Len(symTables')
    OBVIOUS
  <2>1. Len(symTables') \in Nat
    <3>1. IndInv'
      BY UnboundedIndInv
    <3> QED
      BY <3>1 DEF IndInv, TypeOK
  <2> QED
    BY <1>1, <1>2, <1>3, <2>1
<1>5. ASSUME NEW k \in Int, NEW n, NEW v,
             symTables' = [symTables EXCEPT ![k + 1].values = Bind(@, n, v)]
      PROVE  Len(symTables') = currIdx + 1
  BY <1>1, <1>5
<1>6. ASSUME NEW n, NEW v, Define(n, v) PROVE Len(symTables') = currIdx + 1
  BY <1>1, <1>5, <1>6 DEF Define
<1>7. ASSUME NEW n, NEW v, AssignExpr(n, v) PROVE Len(symTables') = currIdx + 1
  BY <1>1, <1>7 DEF AssignExpr
<1>8. ASSUME symTables' = symTables PROVE Len(symTables') = currIdx + 1
  BY <1>1, <1>8
<1>9. CASE BlockEnter \/ BlockPushed
  <2>1. PICK env : symTables' = Append(symTables, env)
    BY <1>9 DEF BlockEnter, BlockPushed
  <2>2. Len(symTables') = currIdx + 2
    BY <1>1, <2>1
  <2> QED
    BY <1>1, <1>4, <2>2
<1>10. ASSUME NEW f \in Func, NEW args \in [DOMAIN f.params -> Data],
              CallPushed(f, args) \/ Call(f, args)
       PROVE  Last(frames).saved < Len(symTables')
  <2>1. PICK outer, inner : symTables' = symTables \o <<outer, inner>>
    BY <1>10 DEF Call, CallPushed
  <2>2. Len(symTables') = currIdx + 3
    BY <1>1, <2>1
  <2> QED
    BY <1>1, <1>4, <2>2
<1>11. CASE BlockExit \/ ReturnStmt
  <2>1. symTables' = Front(symTables)
    BY <1>11 DEF BlockExit, ReturnStmt
  <2>2. Len(symTables') = currIdx
    BY <1>1, <2>1, FrontFacts, EmptySeq
  <2> QED
    BY <1>1, <1>2, <1>3, <2>2
<1>12. CASE CallFinish
  <2>1. Own(Last(frames)) = 2
    BY <1>12 DEF CallFinish, TopIs, Own
  <2>2. currIdx >= 2
    BY <1>1, <1>3, <2>1
  <2>3. /\ Front(symTables) \in Seq(Environment(Value))
        /\ Len(Front(symTables)) = currIdx /\ Front(symTables) # <<>>
    BY <2>2, FrontScopes
  <2>4. Len(symTables') = currIdx - 1
    BY <1>12, <2>3, FrontFacts DEF CallFinish
  <2> QED
    BY <1>1, <1>3, <2>1, <2>4
<1>13. CASE \/ \E n \in Name, v \in Data : VarDecl(n, v)
            \/ \E f \in Func : FuncDecl(f)
            \/ \E n \in Name, v \in Data : AssignExpr(n, v)
            \/ NullDereference \/ TypeError \/ TopLevelReturn \/ UNCHANGED vars
            \/ \E n \in Name : Undefined(n)
  <2>1. Len(symTables') = currIdx + 1
    BY <1>6, <1>7, <1>8, <1>13
    DEF VarDecl, FuncDecl, NullDereference, TypeError, TopLevelReturn, Undefined, vars
  <2> QED
    BY <1>1, <1>4, <2>1
<1> QED
  BY <1>9, <1>10, <1>11, <1>12, <1>13 DEF Next, Unbounded

\* No block and no function body, whatever it runs, calls or returns from,
\* takes a name from a scope that was there before it, or gives it one.
THEOREM OlderScopesKept == Spec => OlderScopesKeepTheirNames
<1>1. IndInv /\ [Next]_vars => [NamesKept]_vars
  BY NamesStep DEF Unbounded
<1> QED
  BY <1>1, IndInvHolds, PTL DEF Spec, OlderScopesKeepTheirNames, NamesKept
===============================================================================
