------------------------------ MODULE ManagedHeap ------------------------------
(***************************************************************************)
(* What gc/gc.c promises its client: a heap on which objects that are in   *)
(* use stay what they are, and from which any object that is not may       *)
(* disappear at any time.  There is no collection, no mark bit, no list    *)
(* and no threshold here.  Module GC implements this one.                  *)
(***************************************************************************)
EXTENDS Integers, SequencesExt

CONSTANT Object      \* addresses

VARIABLES
  stack,      \* the references the client holds
  live,       \* the objects whose memory has not been freed
  kids,       \* the fields of each object: <<>>, or <<first, second>>
  stopped     \* the machine has been freed, or has failed

vars == <<stack, live, kids, stopped>>

Fields == {<<>>} \cup [1 .. 2 -> Object]

(***************************************************************************)
(* "What's an object in use?  1. Referenced in a scope by a variable.      *)
(* 2. Referenced by another in-use object."                                *)
(* The objects in use are those in every set with these two properties.    *)
(***************************************************************************)
InUseClosed(S) ==
  /\ ToSet(stack) \subseteq S
  /\ \A o \in S : ToSet(kids[o]) \subseteq S

InUse == {o \in Object : \A S \in SUBSET Object : InUseClosed(S) => o \in S}

Init ==
  /\ stack = <<>>
  /\ live = {}
  /\ kids = [o \in Object |-> <<>>]
  /\ stopped = FALSE

\* An object comes to life at an address that is not taken.
Fresh(o, fields) ==
  /\ o \notin live
  /\ live' = live \cup {o}
  /\ kids' = [kids EXCEPT ![o] = fields]

PushInt(o) ==
  /\ ~stopped
  /\ Fresh(o, <<>>)
  /\ stack' = Append(stack, o)
  /\ UNCHANGED stopped

\* The two topmost references give way to one to the pair they form.
PushPair(o) ==
  /\ ~stopped
  /\ Len(stack) >= 2
  /\ Fresh(o, <<stack[Len(stack) - 1], stack[Len(stack)]>>)
  /\ stack' = Append(Front(Front(stack)), o)
  /\ UNCHANGED stopped

Pop ==
  /\ ~stopped
  /\ stack # <<>>
  /\ stack' = Front(stack)
  /\ UNCHANGED <<live, kids, stopped>>

\* The client stores into a field of a pair that is in use.
SetField(a, i, b) ==
  /\ ~stopped
  /\ a \in InUse /\ b \in InUse
  /\ kids[a] # <<>>
  /\ kids' = [kids EXCEPT ![a][i] = b]
  /\ UNCHANGED <<stack, live, stopped>>

\* An object that is not in use is freed.
Reclaim(o) ==
  /\ o \in live \ InUse
  /\ live' = live \ {o}
  /\ kids' = [kids EXCEPT ![o] = <<>>]
  /\ UNCHANGED <<stack, stopped>>

\* The client gives up all its references; the machine is about to be freed.
Release ==
  /\ ~stopped
  /\ stack' = <<>>
  /\ UNCHANGED <<live, kids, stopped>>

Freed ==
  /\ ~stopped
  /\ live = {}
  /\ stopped' = TRUE
  /\ UNCHANGED <<stack, live, kids>>

\* The machine exits on a stack overflow or underflow.  An object that was
\* being pushed, if there was one, stays behind; a pair has used up the stack.
Exit ==
  /\ ~stopped
  /\ stopped' = TRUE
  /\ \/ UNCHANGED <<stack, live, kids>>
     \/ \E o \in Object : Fresh(o, <<>>) /\ stack' \in {stack, <<>>}

Next ==
  \/ \E o \in Object : PushInt(o) \/ PushPair(o) \/ Reclaim(o)
  \/ \E a, b \in Object, i \in 1 .. 2 : SetField(a, i, b)
  \/ Pop \/ Release \/ Freed \/ Exit

Spec == Init /\ [][Next]_vars

===============================================================================
