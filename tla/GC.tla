---------------------------------- MODULE GC ----------------------------------
(***************************************************************************)
(* The mark-and-sweep collector of gc/gc.c and the stack machine whose     *)
(* objects it manages.  The recursion of mark and the loop of sweep are    *)
(* taken one object at a time, so that what the heap looks like in the     *)
(* middle of a collection is part of the model.                            *)
(*                                                                         *)
(* An object is its address, an element of Object.  `kids' holds the       *)
(* fields of a pair, <<first, second>>; an integer has none.  The          *)
(* intrusive list that starts at vm->firstObject is the sequence `list'.   *)
(***************************************************************************)
EXTENDS Integers, SequencesExt

CONSTANTS
  Object,           \* addresses malloc may return; bounds the heap
  MaxStackSize,     \* capacity of vm->stack
  MaxObjBeforeGC    \* collection threshold while nothing is alive

ASSUME GCAssumption ==
  /\ MaxStackSize \in Nat
  /\ MaxObjBeforeGC \in Nat \ {0}

VARIABLES
  stack,        \* vm->stack[0 .. stackSize - 1]
  list,         \* the objects from vm->firstObject along `next'
  kids,         \* the fields of each object
  marked,       \* the objects whose mark bit is set
  numObjects,   \* vm->numObjects
  maxObjects,   \* vm->maxObjects
  phase,        \* what the machine is doing
  pending,      \* the operation that a collection interrupts
  work,         \* objects that mark and markAll have still to visit
  cursor        \* position of sweep in the list

heapVars == <<list, kids, marked, numObjects>>
gcVars == <<phase, pending, work, cursor>>
vars == <<stack, heapVars, maxObjects, gcVars>>

(***************************************************************************)
(* The abstract heap: what is alive is what the list holds.                *)
(***************************************************************************)
H == INSTANCE ManagedHeap WITH
       live <- ToSet(list), stopped <- phase \in {"freed", "exited"}

\* newVM.
Init ==
  /\ stack = <<>>
  /\ list = <<>>
  /\ kids = [o \in Object |-> <<>>]
  /\ marked = {}
  /\ numObjects = 0
  /\ maxObjects = MaxObjBeforeGC
  /\ phase = "idle"
  /\ pending = "none"
  /\ work = <<>>
  /\ cursor = 1

(***************************************************************************)
(* Mistakes.  Each operator is an action below with one plausible slip; no *)
(* action refers to them.  They show which property would notice the slip. *)
(***************************************************************************)

\* mark forgets the second field.
MarkFirstOnly ==
  /\ phase = "mark"
  /\ work # <<>>
  /\ LET o == Head(work)
     IN  IF o \in marked
         THEN work' = Tail(work) /\ UNCHANGED marked
         ELSE /\ marked' = marked \cup {o}
              /\ work' = (IF kids[o] = <<>> THEN <<>> ELSE <<kids[o][1]>>) \o Tail(work)
  /\ UNCHANGED <<stack, list, kids, numObjects, maxObjects, phase, pending, cursor>>

\* mark has no early return.
MarkAgain ==
  /\ phase = "mark"
  /\ work # <<>>
  /\ LET o == Head(work)
     IN  /\ marked' = marked \cup {o}
         /\ work' = kids[o] \o Tail(work)
  /\ UNCHANGED <<stack, list, kids, numObjects, maxObjects, phase, pending, cursor>>

\* One iteration of sweep, made of what it does to a reached object and where
\* the cursor goes: shared by the slips below.
SweepWith(countReached, unmark, step) ==
  /\ phase = "sweep"
  /\ cursor <= Len(list)
  /\ LET o == list[cursor]
     IN  IF o \notin marked
         THEN /\ list' = RemoveAt(list, cursor)
              /\ kids' = [kids EXCEPT ![o] = <<>>]
              /\ numObjects' = numObjects - 1
              /\ cursor' = cursor + step
              /\ UNCHANGED marked
         ELSE /\ marked' = marked \ (IF unmark THEN {o} ELSE {})
              /\ numObjects' = numObjects - countReached
              /\ cursor' = cursor + 1
              /\ UNCHANGED <<list, kids>>
  /\ UNCHANGED <<stack, maxObjects, phase, pending, work>>

\* sweep leaves the mark bits of the survivors set.
SweepKeepsMarks == SweepWith(0, FALSE, 0)

\* sweep moves on after unlinking an object, as if the next one had not taken
\* its place.
SweepSkips == SweepWith(0, TRUE, 1)

\* sweep counts the objects it visits, not those it frees.
SweepCountsAll == SweepWith(1, TRUE, 0)

\* gc doubles the number of survivors without the special case for zero.
SweepDoneNoFloor ==
  /\ phase = "sweep"
  /\ cursor > Len(list)
  /\ maxObjects' = numObjects * 2
  /\ phase' = CASE pending = "none" -> "idle"
                [] pending = "free" -> "freed"
                [] OTHER            -> "alloc"
  /\ UNCHANGED <<stack, heapVars, pending, work, cursor>>

\* freeVM frees the machine without emptying its stack.
FreeVMKeepsStack ==
  /\ phase = "idle"
  /\ phase' = "mark"
  /\ pending' = "free"
  /\ work' = stack
  /\ UNCHANGED <<stack, heapVars, maxObjects, cursor>>

\* gc up to the first object: markAll will call mark on each stack slot.
StartGC(op) ==
  /\ phase' = "mark"
  /\ pending' = op
  /\ work' = stack
  /\ UNCHANGED <<stack, heapVars, maxObjects, cursor>>

\* pushInt and pushPair up to the test in newObject: a full heap is collected
\* before the object is allocated.
Request(op) ==
  /\ phase = "idle"
  /\ IF numObjects = maxObjects
     THEN StartGC(op)
     ELSE /\ phase' = "alloc"
          /\ pending' = op
          /\ UNCHANGED <<stack, heapVars, maxObjects, work, cursor>>

PushInt == Request("int")

PushPair == Request("pair")

\* gc called by the client.
CollectNow == phase = "idle" /\ StartGC("none")

\* freeVM empties the stack and collects.
FreeVM ==
  /\ phase = "idle"
  /\ phase' = "mark"
  /\ pending' = "free"
  /\ stack' = <<>>
  /\ work' = <<>>
  /\ UNCHANGED <<heapVars, maxObjects, cursor>>

\* pop called by the client; an underflow exits.
Pop ==
  /\ phase = "idle"
  /\ IF stack = <<>>
     THEN phase' = "exited" /\ UNCHANGED stack
     ELSE stack' = Front(stack) /\ UNCHANGED phase
  /\ UNCHANGED <<heapVars, maxObjects, pending, work, cursor>>

\* The client stores into a field of a pair that is in use, as in
\* `a->second = b'.
SetField(a, i, b) ==
  /\ phase = "idle"
  /\ a \in H!InUse /\ b \in H!InUse
  /\ kids[a] # <<>>
  /\ kids' = [kids EXCEPT ![a][i] = b]
  /\ UNCHANGED <<stack, list, marked, numObjects, maxObjects, gcVars>>

\* One call of mark: return early on a marked object, else mark it and call
\* mark on its fields, the first one first.
Mark ==
  /\ phase = "mark"
  /\ work # <<>>
  /\ LET o == Head(work)
     IN  IF o \in marked
         THEN work' = Tail(work) /\ UNCHANGED marked
         ELSE /\ marked' = marked \cup {o}
              /\ work' = kids[o] \o Tail(work)
  /\ UNCHANGED <<stack, list, kids, numObjects, maxObjects, phase, pending, cursor>>

MarkDone ==
  /\ phase = "mark"
  /\ work = <<>>
  /\ phase' = "sweep"
  /\ cursor' = 1
  /\ UNCHANGED <<stack, heapVars, maxObjects, pending, work>>

\* One iteration of sweep's loop.  What freed memory holds is of no account:
\* the model clears it.
Sweep ==
  /\ phase = "sweep"
  /\ cursor <= Len(list)
  /\ LET o == list[cursor]
     IN  IF o \notin marked
         THEN /\ list' = RemoveAt(list, cursor)
              /\ kids' = [kids EXCEPT ![o] = <<>>]
              /\ numObjects' = numObjects - 1
              /\ UNCHANGED <<marked, cursor>>
         ELSE /\ marked' = marked \ {o}
              /\ cursor' = cursor + 1
              /\ UNCHANGED <<list, kids, numObjects>>
  /\ UNCHANGED <<stack, maxObjects, phase, pending, work>>

\* The rest of gc, and back to the caller.
SweepDone ==
  /\ phase = "sweep"
  /\ cursor > Len(list)
  /\ maxObjects' = IF numObjects = 0 THEN MaxObjBeforeGC ELSE numObjects * 2
  /\ phase' = CASE pending = "none" -> "idle"
                [] pending = "free" -> "freed"
                [] OTHER            -> "alloc"
  /\ UNCHANGED <<stack, heapVars, pending, work, cursor>>

\* The rest of newObject: the object goes to the head of the list.
NewObject(o, fields) ==
  /\ o \notin ToSet(list)
  /\ list' = <<o>> \o list
  /\ kids' = [kids EXCEPT ![o] = fields]
  /\ marked' = marked \ {o}
  /\ numObjects' = numObjects + 1
  /\ pending' = "none"
  /\ UNCHANGED <<maxObjects, work, cursor>>

\* The rest of pushInt; a stack overflow exits.
AllocInt(o) ==
  /\ phase = "alloc"
  /\ pending = "int"
  /\ NewObject(o, <<>>)
  /\ IF Len(stack) < MaxStackSize
     THEN stack' = Append(stack, o) /\ phase' = "idle"
     ELSE phase' = "exited" /\ UNCHANGED stack

\* The rest of pushPair: pop second, pop first, push; an underflow exits.
AllocPair(o) ==
  /\ phase = "alloc"
  /\ pending = "pair"
  /\ IF Len(stack) >= 2
     THEN /\ NewObject(o, <<stack[Len(stack) - 1], stack[Len(stack)]>>)
          /\ stack' = Append(Front(Front(stack)), o)
          /\ phase' = "idle"
     ELSE /\ NewObject(o, <<>>)
          /\ stack' = <<>>
          /\ phase' = "exited"

Next ==
  \/ PushInt
  \/ PushPair
  \/ CollectNow
  \/ FreeVM
  \/ Pop
  \/ \E a, b \in Object, i \in 1 .. 2 : SetField(a, i, b)
  \/ Mark
  \/ MarkDone
  \/ Sweep
  \/ SweepDone
  \/ \E o \in Object : AllocInt(o) \/ AllocPair(o)

\* A collection, once begun, runs: the program is sequential.  What the client
\* calls, and whether malloc finds memory, is nobody's obligation.
Spec == Init /\ [][Next]_vars /\ WF_vars(Mark \/ MarkDone \/ Sweep \/ SweepDone)

(***************************************************************************)
(* What the collector guarantees.                                          *)
(***************************************************************************)

TypeOK ==
  /\ stack \in Seq(Object)
  /\ list \in Seq(Object)
  /\ kids \in [Object -> H!Fields]
  /\ marked \in SUBSET Object
  /\ numObjects \in Nat
  /\ maxObjects \in Nat
  /\ phase \in {"idle", "alloc", "mark", "sweep", "freed", "exited"}
  /\ pending \in {"none", "int", "pair", "free"}
  /\ work \in Seq(Object)
  /\ cursor \in Nat \ {0}

\* No pointer dangles: whatever the stack leads to, at every moment and in
\* the middle of a collection too, is memory that has not been freed.
NoDangling == H!InUse \subseteq ToSet(list)

\* The count that decides when to collect is the length of the list, which
\* holds no object twice: sweep unlinks exactly what it frees.
ListExact ==
  /\ numObjects = Len(list)
  /\ \A i, j \in DOMAIN list : list[i] = list[j] => i = j

\* newObject collects when numObjects equals maxObjects.  That is enough: the
\* count never passes the threshold, so the test never misses.
ThresholdHolds == numObjects <= maxObjects

\* Between collections no mark bit is set, on which the next one relies.
MarksCleared == phase \in {"idle", "alloc"} => marked = {}

\* Marking a heap takes no more pending calls than there are stack slots and
\* objects, whatever cycles it has: each object is expanded once.
WorkBounded ==
  phase = "mark" =>
    Len(work) <= Len(stack) + Cardinality(marked)

\* A finished collection leaves exactly the objects in use.
CollectsExactly ==
  [][ phase = "sweep" /\ phase' # "sweep" => ToSet(list) = H!InUse ]_vars

\* The client sees the abstract heap: objects in use keep their fields, sweep
\* frees only objects that are not in use, and malloc's addresses are fresh.
ImplementsHeap == H!Spec

\* freeVM leaves no object behind.
NothingLeaks == phase = "freed" => list = <<>>

\* A collection ends, cycles notwithstanding.
CollectionEnds == phase \in {"mark", "sweep"} ~> phase \notin {"mark", "sweep"}

===============================================================================
