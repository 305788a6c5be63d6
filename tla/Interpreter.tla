----------------------------- MODULE Interpreter -----------------------------
(***************************************************************************)
(* The tree-walking interpreter on a given program.  `control' is what the *)
(* active visitors still have to do, innermost first; `locals' are the     *)
(* values their C++ local variables hold, which evaluate has popped from   *)
(* the value stack.  So between two steps the value stack holds only what  *)
(* nobody will pop.                                                        *)
(***************************************************************************)
EXTENDS Tree

VARIABLES
  control,
  locals,
  valueStack,
  symTables,    \* the vector of environments; C++ index i is element i + 1
  currIdx,      \* index of the current environment
  declared,     \* the function declarations visited; for ImplementsScopes
  status        \* "running", or how `run' ended

scopes == <<symTables, currIdx>>
interpreterVars == <<nodes, control, locals, valueStack, scopes, declared, status>>

(***************************************************************************)
(* Values: those of JSValue, functions, and the null pointer.              *)
(***************************************************************************)

\* A JSFunction, by the position of its declaration.
Function(k) == [kind |-> "Function", val |-> k]
NoValue == [kind |-> "None", val |-> 0]

\* What a cast to JSBasicValue finds one of.
Basic(v) == v.kind \notin {"Function", "None"}

\* isTruthy; a function takes the default case.
Truthy(v) == v.kind = "Function" \/ IsTruthy(v)

(***************************************************************************)
(* Environments.                                                           *)
(***************************************************************************)

Scope(i) == symTables[i + 1]

NoBindings == [n \in {} |-> NoValue]

Bind(values, n, v) ==
  [m \in DOMAIN values \cup {n} |-> IF m = n THEN v ELSE values[m]]

\* The walk of assign and resolve; -1 when no scope binds n.
Home(n) ==
  LET walk[i \in -1 .. Len(symTables) - 1] ==
        IF i = -1 \/ n \in DOMAIN Scope(i).values THEN i
                                                  ELSE walk[Scope(i).parent]
  IN  walk[currIdx]

\* Scopes below a new one with these bindings.
Entered(tables, values, parent) ==
  Append(tables, [values |-> values, parent |-> parent])

\* The parameters and the arguments; a repeated one keeps the last.
ParamBindings(params, args) ==
  [p \in ToSet(params) |-> args[Max({i \in DOMAIN params : params[i] = p})]]

(***************************************************************************)
(* Activation records.                                                     *)
(***************************************************************************)

Execute(k)  == [do |-> "execute", node |-> k]
Evaluate(k) == [do |-> "evaluate", node |-> k]
\* The rest of the visitor of node k, behind what comes before it.
Resume(k)   == [do |-> "resume", node |-> k]
\* assert(callee != nullptr), args.emplace_back(*value)
CheckCallee == [do |-> "checkCallee"]
CopyArg     == [do |-> "copyArg"]
\* evaluate's result is not used.
Discard     == [do |-> "discard"]
\* The end of executeBlock, in a block or in a call.  Of `saved' and `base'
\* see ScopeStack; `held' is how many locals the callers have.
End(kind)   == [do |-> kind, saved |-> currIdx, base |-> Len(valueStack),
                held |-> Len(locals)]

Executes(seq) == [i \in DOMAIN seq |-> Execute(seq[i])]

\* Interpreter() and run(stmts) up to the first statement.
InterpreterInit ==
  /\ nodes = <<>>
  /\ control = <<>>
  /\ locals = <<>>
  /\ valueStack = <<>>
  /\ symTables = Entered(<<>>, NoBindings, -1)
  /\ currIdx = 0
  /\ declared = {}
  /\ status = "running"

Start(stmts) ==
  /\ control' = Executes(stmts)
  /\ locals' = <<>>
  /\ valueStack' = <<>>
  /\ symTables' = Entered(<<>>, NoBindings, -1)
  /\ currIdx' = 0
  /\ declared' = {}
  /\ status' = "running"
  /\ UNCHANGED nodes

Running == status = "running"

\* The next thing to do.
Doing(do) == Running /\ control # <<>> /\ Head(control).do = do

Self == nodes[Head(control).node]

\* The visitor of a node of this kind begins, or goes on.
Visit(kind) ==
  /\ Doing("execute") \/ Doing("evaluate")
  /\ Head(control).node # 0
  /\ Self.kind = kind

Back(kind) == Doing("resume") /\ Self.kind = kind

\* The latest n locals.
Held(n) == SubSeq(locals, Len(locals) - n + 1, Len(locals))

\* The visitor goes on with these records, having replaced its latest n
\* locals by these.
Continue(records, n, values) ==
  /\ control' = records \o Tail(control)
  /\ locals' = SubSeq(locals, 1, Len(locals) - n) \o values
  /\ UNCHANGED <<nodes, status>>

InSameScopes == UNCHANGED <<valueStack, scopes, declared>>

Same(records, n, values) == Continue(records, n, values) /\ InSameScopes

\* The behaviour of the C++ program is undefined, or an assertion aborts it.
Crash ==
  /\ status' = "crashed"
  /\ UNCHANGED <<nodes, control, locals, valueStack, scopes, declared>>

\* An exception leaves every visitor, and `run'.
Throw(how) ==
  /\ control' = <<>>
  /\ locals' = <<>>
  /\ status' = how
  /\ UNCHANGED nodes
  /\ InSameScopes

(***************************************************************************)
(* Mistakes: see GC for what this section is for.                          *)
(***************************************************************************)

\* assign sets the name in the current scope.
VisitAssignExprHere ==
  \/ Visit("Assign") /\ Same(<<Evaluate(Self.value), Resume(Head(control).node)>>, 0, <<>>)
  \/ /\ Back("Assign")
     /\ IF ~Basic(Last(locals)) THEN Crash
        ELSE IF Home(Self.name) = -1 THEN Throw("error")
        ELSE /\ symTables' = [symTables EXCEPT ![currIdx + 1].values =
                                Bind(@, Self.name, Last(locals))]
             /\ Continue(<<>>, 0, <<>>)
             /\ UNCHANGED <<currIdx, valueStack, declared>>

\* The right operand is evaluated whatever the left one is.
VisitLogicalExprEager ==
  \/ Visit("Logical") /\ Same(<<Evaluate(Self.left), Evaluate(Self.right),
                                Resume(Head(control).node)>>, 0, <<>>)
  \/ /\ Back("Logical")
     /\ IF Held(2)[1] = NoValue THEN Crash
        ELSE Same(<<>>, 2, << IF (Self.op = "Or") = Truthy(Held(2)[1])
                              THEN Held(2)[1] ELSE Held(2)[2] >>)

\* The locals of the visitors that JSReturn leaves stay.
ReturnKeepsLocals(v) ==
  LET ends == {i \in DOMAIN control : control[i].do = "call"}
      at == Min(ends)
  IN  IF ends = {} THEN Throw("terminated")
      ELSE IF ~Basic(v) THEN Crash
      ELSE /\ control' = SubSeq(control, at + 1, Len(control))
           /\ locals' = Append(locals, v)
           /\ valueStack' = Append(valueStack, v)
           /\ symTables' = Front(symTables)
           /\ currIdx' = currIdx - 1
           /\ UNCHANGED <<nodes, declared, status>>

\* executeBlock goes back to the index it saved.
BlockEndSaved ==
  /\ Doing("block")
  /\ symTables' = Front(symTables)
  /\ currIdx' = Head(control).saved
  /\ Continue(<<>>, 0, <<>>)
  /\ UNCHANGED <<valueStack, declared>>

(***************************************************************************)
(* Statements.                                                             *)
(***************************************************************************)

\* execute and evaluate of a null pointer.
VisitNull ==
  /\ Doing("execute") \/ Doing("evaluate")
  /\ Head(control).node = 0
  /\ Same(<<>>, 0, IF Head(control).do = "evaluate" THEN <<NoValue>> ELSE <<>>)

VisitExprStmt == Visit("ExprStmt") /\ Same(<<Evaluate(Self.expr), Discard>>, 0, <<>>)

DiscardValue == Doing("discard") /\ Same(<<>>, 1, <<>>)

\* A branch, or a body, is executed on a condition that has a value.
VisitIfStmt ==
  \/ Visit("If") /\ Same(<<Evaluate(Self.cond), Resume(Head(control).node)>>, 0, <<>>)
  \/ /\ Back("If")
     /\ LET v == Last(locals)
        IN  IF v = NoValue THEN Crash
            ELSE Same(<<Execute(IF Truthy(v) THEN Self.then ELSE Self.else)>>, 1, <<>>)

VisitWhileStmt ==
  \/ Visit("While") /\ Same(<<Evaluate(Self.cond), Resume(Head(control).node)>>, 0, <<>>)
  \/ /\ Back("While")
     /\ LET v == Last(locals)
        IN  IF v = NoValue THEN Crash
            ELSE IF ~Truthy(v) THEN Same(<<>>, 1, <<>>)
            ELSE Same(<<Execute(Self.body), Evaluate(Self.cond), Head(control)>>, 1, <<>>)

VisitForStmt ==
  \/ Visit("For") /\ Same(<<Execute(Self.init), Evaluate(Self.cond),
                            Resume(Head(control).node)>>, 0, <<>>)
  \/ /\ Back("For")
     /\ LET v == Last(locals)
        IN  IF v = NoValue THEN Crash
            ELSE IF ~Truthy(v) THEN Same(<<>>, 1, <<>>)
            ELSE Same(<<Execute(Self.body), Evaluate(Self.step), Discard,
                        Evaluate(Self.cond), Head(control)>>, 1, <<>>)

\* visitBlockStmt, and executeBlock up to the first statement.
VisitBlockStmt ==
  /\ Visit("Block")
  /\ symTables' = Entered(symTables, NoBindings, currIdx)
  /\ currIdx' = currIdx + 1
  /\ Continue(Executes(Self.stmts) \o <<End("block")>>, 0, <<>>)
  /\ UNCHANGED <<valueStack, declared>>

\* executeBlock behind the last one.
BlockEnd ==
  /\ Doing("block")
  /\ symTables' = Front(symTables)
  /\ currIdx' = Scope(currIdx).parent
  /\ Continue(<<>>, 0, <<>>)
  /\ UNCHANGED <<valueStack, declared>>

\* define
DefineInScope(n, v) ==
  /\ symTables' = [symTables EXCEPT ![currIdx + 1].values = Bind(@, n, v)]
  /\ UNCHANGED <<currIdx, valueStack>>

\* Without initializer, toString of a null pointer.
VisitVarDecl ==
  \/ Visit("VarDecl") /\ Same(<<Evaluate(Self.init), Resume(Head(control).node)>>, 0, <<>>)
  \/ /\ Back("VarDecl")
     /\ IF ~Basic(Last(locals)) THEN Crash
        ELSE /\ DefineInScope(Self.name, Last(locals))
             /\ Continue(<<>>, 1, <<>>)
             /\ UNCHANGED declared

VisitFuncDecl ==
  /\ Visit("FuncDecl")
  /\ DefineInScope(Self.name, Function(Head(control).node))
  /\ Continue(<<>>, 0, <<>>)
  /\ declared' = declared \cup {Head(control).node}

\* JSReturn is thrown: to the innermost call, past the ends of blocks, or out
\* of `run', which does not catch it.  call logs the value, pushes it and pops
\* one scope; visitCallExpr pushes it again, for evaluate to pop.
Return(v) ==
  LET ends == {i \in DOMAIN control : control[i].do = "call"}
      at == Min(ends)
  IN  IF ends = {} THEN Throw("terminated")
      ELSE IF ~Basic(v) THEN Crash
      ELSE /\ control' = SubSeq(control, at + 1, Len(control))
           /\ locals' = Append(SubSeq(locals, 1, control[at].held), v)
           /\ valueStack' = Append(valueStack, v)
           /\ symTables' = Front(symTables)
           /\ currIdx' = currIdx - 1
           /\ UNCHANGED <<nodes, declared, status>>

VisitReturnStmt ==
  \/ Visit("Return") /\ Same(<<Evaluate(Self.value), Resume(Head(control).node)>>, 0, <<>>)
  \/ Back("Return") /\ Return(Last(locals))

(***************************************************************************)
(* Expressions.                                                            *)
(***************************************************************************)

VisitLiteralExpr == Visit("Literal") /\ Same(<<>>, 0, <<Self.value>>)

VisitGroupingExpr == Visit("Grouping") /\ Same(<<Evaluate(Self.expr)>>, 0, <<>>)

VisitVarExpr ==
  /\ Visit("Var")
  /\ LET home == Home(Self.name)
     IN  IF home = -1 THEN Throw("error")
                      ELSE Same(<<>>, 0, <<Scope(home).values[Self.name]>>)

VisitUnaryExpr ==
  \/ Visit("Unary") /\ Same(<<Evaluate(Self.right), Resume(Head(control).node)>>, 0, <<>>)
  \/ /\ Back("Unary")
     /\ LET v == Last(locals)
        IN  CASE Self.op = "Bang" /\ v # NoValue  -> Same(<<>>, 1, <<Bool(~Truthy(v))>>)
              [] Self.op = "Minus" /\ Basic(v)    -> Same(<<>>, 1, <<Negated(v)>>)
              [] OTHER                            -> Crash

VisitBinaryExpr ==
  \/ Visit("Binary") /\ Same(<<Evaluate(Self.left), Evaluate(Self.right),
                               Resume(Head(control).node)>>, 0, <<>>)
  \/ /\ Back("Binary")
     /\ LET v == Held(2)[1]
            w == Held(2)[2]
        IN  IF ~Basic(v) \/ ~Basic(w) THEN Crash
            ELSE IF InterpreterBinary(Self.op, v, w) = TypeError THEN Throw("error")
            ELSE Same(<<>>, 2, <<InterpreterBinary(Self.op, v, w)>>)

VisitLogicalExpr ==
  \/ Visit("Logical") /\ Same(<<Evaluate(Self.left), Resume(Head(control).node)>>, 0, <<>>)
  \/ /\ Back("Logical")
     /\ LET v == Last(locals)
        IN  IF v = NoValue THEN Crash
            ELSE IF (Self.op = "Or") = Truthy(v) THEN Same(<<>>, 1, <<v>>)
            ELSE Same(<<Evaluate(Self.right)>>, 1, <<>>)

\* assign, and the value is the expression's.
VisitAssignExpr ==
  \/ Visit("Assign") /\ Same(<<Evaluate(Self.value), Resume(Head(control).node)>>, 0, <<>>)
  \/ /\ Back("Assign")
     /\ LET home == Home(Self.name)
        IN  IF ~Basic(Last(locals)) THEN Crash
            ELSE IF home = -1 THEN Throw("error")
            ELSE /\ symTables' = [symTables EXCEPT ![home + 1].values =
                                    Bind(@, Self.name, Last(locals))]
                 /\ Continue(<<>>, 0, <<>>)
                 /\ UNCHANGED <<currIdx, valueStack, declared>>

Arguments(args) ==
  [j \in 1 .. 2 * Len(args) |-> IF j % 2 = 1 THEN Evaluate(args[(j + 1) \div 2]) ELSE CopyArg]

\* The callee is evaluated and asserted, then each argument is, and copied.
AssertCallee ==
  /\ Doing("checkCallee")
  /\ IF Last(locals) = NoValue THEN Crash ELSE Same(<<>>, 0, <<>>)

CopyArgument ==
  /\ Doing("copyArg")
  /\ IF Basic(Last(locals)) THEN Same(<<>>, 0, <<>>) ELSE Crash

\* JSFunction::call up to the first statement of the body: the function scope
\* is appended, and a copy of it below it by executeBlock.  arguments[i] is
\* read for every parameter.
Call(decl, args) ==
  LET values == ParamBindings(decl.params, args)
  IN  /\ symTables' = Entered(Entered(symTables, values, currIdx), values, currIdx + 1)
      /\ currIdx' = currIdx + 2
      /\ control' = Executes(nodes[decl.body].stmts)
                      \o << [End("call") EXCEPT !.held = Len(locals) - Len(args) - 1] >>
                      \o Tail(control)
      /\ locals' = SubSeq(locals, 1, Len(locals) - Len(args) - 1)
      /\ UNCHANGED <<nodes, valueStack, declared, status>>

VisitCallExpr ==
  \/ /\ Visit("Call")
     /\ Same(<<Evaluate(Self.callee), CheckCallee>> \o Arguments(Self.args)
               \o <<Resume(Head(control).node)>>, 0, <<>>)
  \/ /\ Back("Call")
     /\ LET n == Len(Self.args)
            callee == Head(Held(n + 1))
        IN  IF callee.kind # "Function" \/ Len(nodes[callee.val].params) > n THEN Crash
            ELSE Call(nodes[callee.val], Tail(Held(n + 1)))

\* The body ends without `return': executeBlock's end, popSymbolTable, and the
\* default value is pushed, for evaluate to pop.
CallEnd ==
  /\ Doing("call")
  /\ symTables' = Front(Front(symTables))
  /\ currIdx' = Scope(currIdx).parent - 1
  /\ Continue(<<>>, 0, <<Undefined>>)
  /\ UNCHANGED <<valueStack, declared>>

\* `run' returns.
Finish ==
  /\ Running /\ control = <<>>
  /\ status' = "done"
  /\ UNCHANGED <<nodes, control, locals>>
  /\ InSameScopes

InterpreterNext ==
  \/ VisitNull \/ VisitExprStmt \/ DiscardValue \/ VisitIfStmt \/ VisitWhileStmt
  \/ VisitForStmt \/ VisitBlockStmt \/ BlockEnd \/ VisitVarDecl \/ VisitFuncDecl
  \/ VisitReturnStmt
  \/ VisitLiteralExpr \/ VisitGroupingExpr \/ VisitVarExpr \/ VisitUnaryExpr
  \/ VisitBinaryExpr \/ VisitLogicalExpr \/ VisitAssignExpr
  \/ AssertCallee \/ CopyArgument \/ VisitCallExpr \/ CallEnd \/ Finish

===============================================================================
