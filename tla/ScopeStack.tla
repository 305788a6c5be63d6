------------------------------ MODULE ScopeStack ------------------------------
(***************************************************************************)
(* The scope discipline of the tree-walking interpreter: the vector of     *)
(* environments `symTables', the pointer `currIdx' into it, and what the   *)
(* visitors, executeBlock and JSFunction::call do to them.                 *)
(*                                                                         *)
(* The program is not fixed: at every moment any statement that a program  *)
(* could contain next may be executed, so a behaviour of this module is a  *)
(* run of SOME program.  Expression evaluation shows only where it touches *)
(* a scope or leaves something on the value stack.                         *)
(*                                                                         *)
(* `frames' is the part of the C++ call stack that matters: the active     *)
(* executions of a block and of a function body.                           *)
(***************************************************************************)
EXTENDS Integers, SequencesExt

CONSTANTS
  Name,       \* identifiers of the program
  Data,       \* the values a JSBasicValue can hold, as far as scopes care
  Func,       \* function declarations: [name : Name, params : Seq(Name)]
  MaxScopes   \* bound on exploration: no scope is pushed beyond this many

Value == Data \cup Func

ASSUME ScopeAssumption ==
  /\ Func \subseteq [name : Name, params : Seq(Name)]
  /\ Data \cap Func = {}
  /\ MaxScopes \in Nat \ {0}

VARIABLES
  symTables,    \* the vector of environments; C++ index i is element i + 1
  currIdx,      \* index of the current environment
  valueStack,   \* height of the value stack between two statements
  frames,       \* active executions of blocks and functions, innermost last
  declared,     \* functions declared so far; the code keeps no such record
  status        \* "running", or how the run stopped

vars == <<symTables, currIdx, valueStack, frames, declared, status>>

(***************************************************************************)
(* Environments.                                                           *)
(***************************************************************************)

\* `values' of an environment: a map that binds some of the names to values
\* from V.
Bindings(V) == UNION {[bound -> V] : bound \in SUBSET Name}

NoBindings == [n \in {} |-> n]

Environment(V) == [values : Bindings(V), parent : Int]

\* The environment at C++ index i.
Scope(i) == symTables[i + 1]

\* values[name] = value
Bind(values, n, v) ==
  [m \in DOMAIN values \cup {n} |-> IF m = n THEN v ELSE values[m]]

\* The walk shared by assign and resolve: from the current scope along the
\* parent pointers to the first scope that binds n; -1 when there is none.
Home(n) ==
  LET walk[i \in -1 .. Len(symTables) - 1] ==
        IF i = -1 \/ n \in DOMAIN Scope(i).values THEN i
                                                  ELSE walk[Scope(i).parent]
  IN  walk[currIdx]

\* The scope with which a function is entered: its parameters bound to the
\* arguments.  A parameter that is repeated keeps the last argument.
ParamBindings(f, args) ==
  [p \in ToSet(f.params) |->
     args[Max({i \in DOMAIN f.params : f.params[i] = p})]]

(***************************************************************************)
(* Frames.  `saved' is the C++ local currentScopeIdx, the scope to go back *)
(* to.  `base' records the height of the value stack on entry; the code    *)
(* has no such local, it is there for the properties.                      *)
(***************************************************************************)

Frame == [kind : {"block", "call"}, saved : Nat, base : Nat]

NewFrame(kind) == [kind |-> kind, saved |-> currIdx, base |-> valueStack]

\* Scopes a frame pushes on entry: executeBlock pushes one; call pushes the
\* function scope and then runs executeBlock, which pushes it again.
Own(frame) == IF frame.kind = "call" THEN 2 ELSE 1

Running == status = "running"

TopIs(kind) == frames # <<>> /\ Last(frames).kind = kind

CallFrames == {k \in DOMAIN frames : frames[k].kind = "call"}

(***************************************************************************)
(* Mistakes.  Each operator is an action below with one plausible slip; no *)
(* action refers to them.  They show which property would notice the slip. *)
(***************************************************************************)

\* executeBlock also runs the decrement of popSymbolTable.
BlockExitTwice ==
  /\ Running
  /\ TopIs("block")
  /\ currIdx' = Scope(currIdx).parent - 1
  /\ symTables' = Front(symTables)
  /\ frames' = Front(frames)
  /\ UNCHANGED <<valueStack, declared, status>>

\* call forgets popSymbolTable on the path without `return'.
CallFinishNoPop ==
  /\ Running
  /\ TopIs("call")
  /\ currIdx' = Scope(currIdx).parent
  /\ symTables' = Front(symTables)
  /\ frames' = Front(frames)
  /\ UNCHANGED <<valueStack, declared, status>>

\* The handler sets currIdx to the saved index (the setCurrIdx the source has
\* commented out) but still pops one scope only.
ReturnSetsIndex ==
  /\ Running
  /\ CallFrames # {}
  /\ frames' = SubSeq(frames, 1, Max(CallFrames) - 1)
  /\ symTables' = Front(symTables)
  /\ currIdx' = frames[Max(CallFrames)].saved
  /\ valueStack' = valueStack + 1
  /\ UNCHANGED <<declared, status>>

\* The handler pops two scopes.
ReturnPopsTwo ==
  /\ Running
  /\ CallFrames # {}
  /\ frames' = SubSeq(frames, 1, Max(CallFrames) - 1)
  /\ symTables' = Front(Front(symTables))
  /\ currIdx' = currIdx - 2
  /\ valueStack' = valueStack + 1
  /\ UNCHANGED <<declared, status>>

\* The function scope hangs off the global scope.
CallAtTopLevel(f, args) ==
  /\ Running
  /\ f \in declared
  /\ Len(symTables) + 1 < MaxScopes
  /\ symTables' = symTables \o
       <<[values |-> ParamBindings(f, args), parent |-> 0],
         [values |-> ParamBindings(f, args), parent |-> currIdx + 1]>>
  /\ currIdx' = currIdx + 2
  /\ frames' = Append(frames, NewFrame("call"))
  /\ UNCHANGED <<valueStack, declared, status>>

\* Assigning to an undefined variable creates a global one.
AssignCreates(n, v) ==
  LET home == IF Home(n) = -1 THEN 0 ELSE Home(n)
  IN  /\ Running
      /\ symTables' = [symTables EXCEPT ![home + 1].values = Bind(@, n, v)]
      /\ UNCHANGED <<currIdx, valueStack, frames, declared, status>>

(***************************************************************************)
(* The constructor pushes the global scope, whose parent is -1.            *)
(***************************************************************************)
Init ==
  /\ symTables = <<[values |-> NoBindings, parent |-> -1]>>
  /\ currIdx = 0
  /\ valueStack = 0
  /\ frames = <<>>
  /\ declared = {}
  /\ status = "running"

\* Interpreter::define: always into the current scope.
Define(n, v) ==
  /\ Running
  /\ symTables' = [symTables EXCEPT ![currIdx + 1].values = Bind(@, n, v)]
  /\ UNCHANGED <<currIdx, valueStack, frames, status>>

\* visitVarDecl with an initializer whose value is v.
VarDecl(n, v) == v \in Data /\ Define(n, v) /\ UNCHANGED declared

\* visitFuncDecl.
FuncDecl(f) == Define(f.name, f) /\ declared' = declared \cup {f}

\* visitAssignExpr, the variable found.
AssignExpr(n, v) ==
  /\ Running
  /\ Home(n) # -1
  /\ symTables' = [symTables EXCEPT ![Home(n) + 1].values = Bind(@, n, v)]
  /\ UNCHANGED <<currIdx, valueStack, frames, declared, status>>

\* visitAssignExpr or visitVarExpr, the variable not found: a runtime_error
\* leaves every C++ frame; `run' prints it and throws it on.  Nothing on the
\* way restores the scopes.
Undefined(n) ==
  /\ Running
  /\ Home(n) = -1
  /\ frames' = <<>>
  /\ status' = "error"
  /\ UNCHANGED <<symTables, currIdx, valueStack, declared>>

\* visitBinaryExpr, `+' of operands it cannot add: likewise.
TypeError ==
  /\ Running
  /\ frames' = <<>>
  /\ status' = "error"
  /\ UNCHANGED <<symTables, currIdx, valueStack, declared>>

\* The program is left to chance.  A null JSBasicValue is dereferenced: a
\* declaration without initializer, `return' without value inside a call, a
\* loop without condition.  Or what is no JSFunction is called, or with too
\* few arguments, or a JSFunction is taken for a JSBasicValue.
NullDereference ==
  /\ Running
  /\ status' = "crashed"
  /\ UNCHANGED <<symTables, currIdx, valueStack, frames, declared>>

\* visitBlockStmt and executeBlock up to its first statement.
BlockEnter ==
  /\ Running
  /\ Len(symTables) < MaxScopes
  /\ symTables' = Append(symTables, [values |-> NoBindings, parent |-> currIdx])
  /\ currIdx' = currIdx + 1
  /\ frames' = Append(frames, NewFrame("block"))
  /\ UNCHANGED <<valueStack, declared, status>>

\* executeBlock after its last statement: back to the parent of whatever
\* scope is current, dropping whatever scope is last.
BlockExit ==
  /\ Running
  /\ TopIs("block")
  /\ currIdx' = Scope(currIdx).parent
  /\ symTables' = Front(symTables)
  /\ frames' = Front(frames)
  /\ UNCHANGED <<valueStack, declared, status>>

\* visitCallExpr and JSFunction::call up to the first statement of the body:
\* appendSymbolTable(funcScope), then executeBlock(body, funcScope).  The
\* callee is evaluated before the arguments, which may assign to its name.
Call(f, args) ==
  /\ Running
  /\ f \in declared
  /\ Len(symTables) + 1 < MaxScopes
  /\ symTables' = symTables \o
       <<[values |-> ParamBindings(f, args), parent |-> currIdx],
         [values |-> ParamBindings(f, args), parent |-> currIdx + 1]>>
  /\ currIdx' = currIdx + 2
  /\ frames' = Append(frames, NewFrame("call"))
  /\ UNCHANGED <<valueStack, declared, status>>

\* The body ends without `return': executeBlock's epilogue, popSymbolTable,
\* and visitCallExpr pushes undefined, which evaluate pops.
CallFinish ==
  /\ Running
  /\ TopIs("call")
  /\ currIdx' = Scope(currIdx).parent - 1
  /\ symTables' = Front(Front(symTables))
  /\ frames' = Front(frames)
  /\ UNCHANGED <<valueStack, declared, status>>

\* visitReturnStmt throws JSReturn, which leaves the blocks and the body of
\* the innermost call without their epilogues.  JSFunction::call catches it,
\* pushes the value and pops one scope; visitCallExpr pushes the value again
\* and evaluate pops that copy only.
ReturnStmt ==
  /\ Running
  /\ CallFrames # {}
  /\ frames' = SubSeq(frames, 1, Max(CallFrames) - 1)
  /\ symTables' = Front(symTables)
  /\ currIdx' = currIdx - 1
  /\ valueStack' = valueStack + 1
  /\ UNCHANGED <<declared, status>>

\* `return' outside a call: JSReturn is no runtime_error, so `run' does not
\* catch it.
TopLevelReturn ==
  /\ Running
  /\ CallFrames = {}
  /\ frames' = <<>>
  /\ status' = "terminated"
  /\ UNCHANGED <<symTables, currIdx, valueStack, declared>>

Next ==
  \/ \E n \in Name, v \in Data : VarDecl(n, v)
  \/ \E f \in Func : FuncDecl(f)
  \/ \E n \in Name, v \in Data : AssignExpr(n, v)
  \/ \E n \in Name : Undefined(n)
  \/ TypeError
  \/ NullDereference
  \/ BlockEnter
  \/ BlockExit
  \/ \E f \in Func : \E args \in [DOMAIN f.params -> Data] : Call(f, args)
  \/ CallFinish
  \/ ReturnStmt
  \/ TopLevelReturn

Spec == Init /\ [][Next]_vars

(***************************************************************************)
(* What the scope discipline guarantees.                                   *)
(***************************************************************************)

\* The state is well formed.  In particular currIdx, an int in the code that
\* is decremented and reloaded from parent pointers, never becomes negative.
TypeOK ==
  /\ symTables \in Seq(Environment(Value))
  /\ currIdx \in Nat
  /\ valueStack \in Nat
  /\ frames \in Seq(Frame)
  /\ declared \subseteq Func
  /\ status \in {"running", "error", "crashed", "terminated"}

\* The parent pointers and currIdx, updated independently of the vector by
\* executeBlock, appendSymbolTable and popSymbolTable, always describe a
\* plain stack: the current scope is the last one and every scope's parent is
\* the one before it.  So no pointer dangles into a popped scope, and every
\* walk of assign and resolve ends at -1.
ScopeChain ==
  /\ currIdx = Len(symTables) - 1
  /\ \A i \in DOMAIN symTables : symTables[i].parent = i - 2

\* The interval between two nested frames.  Start[j] is the scope current
\* when frame j was entered, Floor[i] the innermost scope frame i pushed on
\* entry; position 0 stands for the global scope and position
\* Len(frames) + 1 for the present moment.
Start == [j \in 1 .. Len(frames) + 1 |->
            IF j = Len(frames) + 1 THEN currIdx ELSE frames[j].saved]

Floor == [i \in 0 .. Len(frames) |->
            IF i = 0 THEN 0 ELSE frames[i].saved + Own(frames[i])]

Base == [j \in 0 .. Len(frames) + 1 |->
           IF j = 0 THEN 0
           ELSE IF j = Len(frames) + 1 THEN valueStack ELSE frames[j].base]

\* Every call that returned left at least one scope and exactly one value
\* behind (the exception handler of JSFunction::call pops one scope of two
\* and pushes a value nobody pops), and nothing ever takes them back: the
\* scopes between two frames are at least as many as the values.  Hence
\* exits never pop a scope that belongs to a live frame, nor the global one.
LeaksAccumulate ==
  \A i \in 0 .. Len(frames), j \in 1 .. Len(frames) + 1 :
    i < j => /\ Base[i] <= Base[j]
             /\ Base[j] - Base[i] <= Start[j] - Floor[i]

\* Calls that return are the only leak: where no value was left between two
\* adjacent frames, no scope was.
OnlyReturnsLeak ==
  Running => \A i \in 0 .. Len(frames) :
               Base[i] = Base[i + 1] => Start[i + 1] = Floor[i]

\* A block or function body in whose execution no call returned leaves the
\* scopes as it found them: the counterpart, true of this code, of what the
\* comments of visitBlockStmt and executeBlock promise of every block.
ExitRestoresUnlessReturned ==
  [][ /\ BlockExit \/ CallFinish
      /\ Last(frames).base = valueStack
      => currIdx' = Last(frames).saved ]_vars

\* Whatever a block or function body declares, its effects on the scopes that
\* existed before it are assignments only: they keep the very names they had.
\* Outside every frame the global scope, too, survives and loses no name.
OlderScopesKeepTheirNames ==
  [][ IF frames = <<>>
      THEN DOMAIN Scope(0).values \subseteq DOMAIN Scope(0)'.values
      ELSE \A i \in 0 .. Last(frames).saved :
             DOMAIN Scope(i)'.values = DOMAIN Scope(i).values ]_vars

\* Resolution is dynamic: a name means its newest binding on the stack,
\* whichever block, caller or leaked callee made it.
ResolvesToNewest ==
  \A n \in Name :
    LET binding == {i \in 0 .. Len(symTables) - 1 : n \in DOMAIN Scope(i).values}
    IN  Home(n) = IF binding = {} THEN -1 ELSE Max(binding)

(***************************************************************************)
(* What the source says of itself and the code does not do.                *)
(***************************************************************************)

\* "Return statements evaluate the return value and unwind the stack back to
\* the call expression." (Interpreter.cpp, visitReturnStmt)
ReturnUnwinds ==
  [][ ReturnStmt => currIdx' = frames[Max(CallFrames)].saved ]_vars

\* "Set the function scope pointer to the top level environment."
\* (JSCallable.h, JSFunction::call)
FunctionScopeAtTopLevel ==
  [][ \A f \in Func : \A args \in [DOMAIN f.params -> Data] :
        Call(f, args) => symTables'[currIdx + 2].parent = 0 ]_vars

===============================================================================
