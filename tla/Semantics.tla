------------------------------ MODULE Semantics ------------------------------
(***************************************************************************)
(* What a program means with JavaScript's scopes: a block, or a call, has a *)
(* scope that ends with it, however it ends; a function sees the scopes    *)
(* around its declaration, not those of its caller.  The operators are the *)
(* interpreter's.  A reference for Minijsc's properties: nothing here is   *)
(* the code's.                                                             *)
(*                                                                         *)
(* A state is [env, value, flow, calls]: the scopes, outermost first; the  *)
(* value of the latest expression, or of a return; "go", or why execution  *)
(* does not go on; and the functions being called.  A function's value     *)
(* keeps how many scopes it sees.                                          *)
(***************************************************************************)
EXTENDS Interpreter

Fresh == [env |-> <<NoBindings>>, value |-> NoValue, flow |-> "go", calls |-> {}]

Stop(st, why) == [st EXCEPT !.flow = why]
Give(st, v) == [st EXCEPT !.value = v]

\* The innermost scope that binds n; 0 when there is none.
Visible(env, n) == Max({0} \cup {i \in DOMAIN env : n \in DOMAIN env[i]})

Declare(st, n, v) == [st EXCEPT !.env[Len(st.env)] = Bind(@, n, v)]

RECURSIVE Eval(_, _), EvalArgs(_, _, _), Exec(_, _), ExecAll(_, _),
          Apply(_, _, _), Loop(_, _, _)

\* In a scope of its own.
Inside(st, values, stmts) ==
  LET after == ExecAll([st EXCEPT !.env = Append(@, values)], stmts)
  IN  [after EXCEPT !.env = Front(@)]

\* A call from a state: the body runs below the scopes the function sees.
Apply(st, f, args) ==
  LET decl == nodes[f.val]
      seen == SubSeq(st.env, 1, f.depth)
      after == Inside([st EXCEPT !.env = seen, !.calls = @ \cup {f.val}],
                      ParamBindings(decl.params, args), nodes[decl.body].stmts)
  IN  IF Len(args) < Len(decl.params) THEN Stop(st, "crashed")
      ELSE IF f.val \in st.calls THEN Stop(st, "recursive")
      ELSE IF after.flow = "return" /\ ~Basic(after.value) THEN Stop(st, "crashed")
      ELSE [env   |-> after.env \o SubSeq(st.env, f.depth + 1, Len(st.env)),
            value |-> IF after.flow = "return" THEN after.value ELSE Undefined,
            flow  |-> IF after.flow = "return" THEN "go" ELSE after.flow,
            calls |-> st.calls]

\* The arguments from the i-th on, added to `args', then the call.
EvalArgs(st, node, args) ==
  IF Len(args) = 1 + Len(node.args)
  THEN IF args[1].kind # "Function" THEN Stop(st, "crashed") ELSE Apply(st, args[1], Tail(args))
  ELSE LET after == Eval(st, node.args[Len(args)])
       IN  IF after.flow # "go" THEN after
           ELSE IF ~Basic(after.value) THEN Stop(after, "crashed")
           ELSE EvalArgs(after, node, Append(args, after.value))

Eval(st, k) ==
  IF k = 0 THEN Give(st, NoValue) ELSE
  LET node == nodes[k]
      First == Eval(st, CASE node.kind = "Grouping" -> node.expr
                          [] node.kind = "Unary"    -> node.right
                          [] node.kind = "Assign"   -> node.value
                          [] node.kind = "Call"     -> node.callee
                          [] OTHER                  -> node.left)
      Second == Eval(First, node.right)
      v == First.value
  IN  CASE node.kind = "Literal" -> Give(st, node.value)
        [] node.kind = "Var" ->
             LET at == Visible(st.env, node.name)
             IN  IF at = 0 THEN Stop(st, "error") ELSE Give(st, st.env[at][node.name])
        [] node.kind \notin {"Literal", "Var"} /\ First.flow # "go" -> First
        [] node.kind = "Grouping" -> First
        [] node.kind = "Unary" /\ First.flow = "go" ->
             IF v = NoValue \/ (node.op = "Minus" /\ ~Basic(v)) THEN Stop(First, "crashed")
             ELSE Give(First, IF node.op = "Bang" THEN Bool(~Truthy(v)) ELSE Negated(v))
        [] node.kind = "Assign" /\ First.flow = "go" ->
             LET at == Visible(First.env, node.name)
             IN  IF ~Basic(v) THEN Stop(First, "crashed")
                 ELSE IF at = 0 THEN Stop(First, "error")
                 ELSE [First EXCEPT !.env[at] = Bind(@, node.name, v)]
        [] node.kind = "Logical" /\ First.flow = "go" ->
             IF v = NoValue THEN Stop(First, "crashed")
             ELSE IF (node.op = "Or") = Truthy(v) THEN First ELSE Second
        [] node.kind = "Binary" /\ First.flow = "go" ->
             IF Second.flow # "go" THEN Second
             ELSE IF ~Basic(v) \/ ~Basic(Second.value) THEN Stop(Second, "crashed")
             ELSE LET r == InterpreterBinary(node.op, v, Second.value)
                  IN  IF r = TypeError THEN Stop(Second, "error") ELSE Give(Second, r)
        [] node.kind = "Call" /\ First.flow = "go" ->
             IF v = NoValue THEN Stop(First, "crashed") ELSE EvalArgs(First, node, <<v>>)

ExecAll(st, stmts) ==
  IF stmts = <<>> \/ st.flow # "go" THEN st ELSE ExecAll(Exec(st, Head(stmts)), Tail(stmts))

\* The loop of a while or, with a step, of a for.
Loop(st, node, step) ==
  LET c == Eval(st, node.cond)
      body == Exec(c, node.body)
  IN  IF st.flow # "go" THEN st
      ELSE IF c.flow # "go" THEN c
      ELSE IF c.value = NoValue THEN Stop(c, "crashed")
      ELSE IF ~Truthy(c.value) THEN c
      ELSE Loop(IF body.flow = "go" THEN Eval(body, step) ELSE body, node, step)

Exec(st, k) ==
  IF k = 0 \/ st.flow # "go" THEN st ELSE
  LET node == nodes[k]
      First == Eval(st, CASE node.kind = "ExprStmt" -> node.expr
                          [] node.kind = "VarDecl"  -> node.init
                          [] node.kind = "Return"   -> node.value
                          [] node.kind = "If"       -> node.cond)
      v == First.value
  IN  CASE node.kind = "ExprStmt" -> First
        [] node.kind = "FuncDecl" ->
             Declare(st, node.name, Function(k) @@ ("depth" :> Len(st.env)))
        [] node.kind = "Block"    -> Inside(st, NoBindings, node.stmts)
        [] node.kind = "While"    -> Loop(st, node, 0)
        [] node.kind = "For"      -> Loop(Exec(st, node.init), node, node.step)
        [] node.kind = "VarDecl"  ->
             IF First.flow # "go" THEN First
             ELSE IF ~Basic(v) THEN Stop(First, "crashed")
             ELSE Declare(First, node.name, v)
        [] node.kind = "Return"   -> IF First.flow # "go" THEN First ELSE Stop(First, "return")
        [] node.kind = "If"       ->
             IF First.flow # "go" THEN First
             ELSE IF v = NoValue THEN Stop(First, "crashed")
             ELSE Exec(First, IF Truthy(v) THEN node.then ELSE node.else)

\* What the interpreter's status is in the end, for each way to stop.
StatusOf(flow) ==
  CASE flow = "go"     -> "done"
    [] flow = "return" -> "terminated"
    [] flow \in {"error", "crashed"} -> flow

\* A program's end.
Outcome(stmts) == ExecAll(Fresh, stmts)
===============================================================================
