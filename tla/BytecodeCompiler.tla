--------------------------- MODULE BytecodeCompiler ---------------------------
(***************************************************************************)
(* The bytecode compiler: a visitor that walks the tree and appends to two *)
(* buffers.  The C++ recursion is taken one visit at a time; `todo' is     *)
(* what its activation records still have to do, innermost first.          *)
(***************************************************************************)
EXTENDS JSValue, AST, Bytecode, SequencesExt

CONSTANT Program     \* the programs to compile: [nodes, stmts], where stmts
                     \* holds positions of statements, or of an expression
                     \* that is compiled by itself

\* What a visitor hands to compile in its turn: the operands of an expression,
\* any of which may be null, and the initializer of a declaration that has one.
Operands(node) ==
  CASE node.kind = "Grouping"                     -> {node.expr}
    [] node.kind = "Unary"                        -> {node.right}
    [] node.kind \in {"Binary", "Logical"}        -> {node.left, node.right}
    [] node.kind = "VarDecl" /\ node.init # 0     -> {node.init}
    [] OTHER                                      -> {}

\* A tree as the classes of its nodes have it.  The parser leaves null for an
\* operand that it does not find, as in `var a = 1 + ;'.
Compilable(p) ==
  /\ p \in [nodes : Seq(ASTNode(String, Value)), stmts : Seq(Nat)]
  /\ WellFormed(p)
  /\ \A i \in DOMAIN p.nodes : \A k \in Operands(p.nodes[i]) :
       k # 0 => p.nodes[k].kind \in ExprKind

ASSUME ProgramAssumption == \A p \in Program : Compilable(p)

VARIABLES
  program,          \* the tree
  todo,             \* visits and emits to come
  bytecodeBuffer,
  constantsPool

compilerVars == <<program, todo, bytecodeBuffer, constantsPool>>

Node(i) == program.nodes[i]

\* The activation records: a visit to a node (both overloads of compile), or
\* an emit after the visits to its children.
Visit(i) == [do |-> "visit", node |-> i]
Emit(op) == [do |-> "emit", op |-> op]
EmitValue(op, v) == [do |-> "emitValue", op |-> op, value |-> v]

BinaryOpcode ==
  [Plus |-> OPCode.Add, Minus |-> OPCode.Sub, Star |-> OPCode.Mul,
   Slash |-> OPCode.Div, BangEqual |-> OPCode.NotEqual,
   EqualEqual |-> OPCode.Equal, Less |-> OPCode.Lesser,
   Greater |-> OPCode.Greater, GreaterEqual |-> OPCode.GreaterEqual,
   LessEqual |-> OPCode.LesserEqual]

LogicalOpcode == [Or |-> OPCode.Or, And |-> OPCode.And]

UnaryOpcode == [Minus |-> OPCode.Negate, Bang |-> OPCode.Not]

CompilerInit ==
  /\ program \in Program
  /\ todo = [s \in DOMAIN program.stmts |-> Visit(program.stmts[s])]
  /\ bytecodeBuffer = <<>>
  /\ constantsPool = <<>>

\* The next visit is to a node, or to a node of this kind; it is replaced by
\* `rest'.
AtVisit == todo # <<>> /\ Head(todo).do = "visit"

At(kind) == AtVisit /\ Head(todo).node # 0 /\ Node(Head(todo).node).kind = kind

Here == Node(Head(todo).node)

Replace(rest) ==
  /\ todo' = rest \o Tail(todo)
  /\ UNCHANGED <<program, bytecodeBuffer, constantsPool>>

(***************************************************************************)
(* Mistakes: see GC for what this section is for.                          *)
(***************************************************************************)

\* The right operand is compiled first.
VisitBinaryRightFirst ==
  /\ At("Binary")
  /\ Replace(<<Visit(Here.right), Visit(Here.left), Emit(BinaryOpcode[Here.op])>>)

\* A declaration without initializer emits SetGlobal alone.
VisitVarDeclNoUndefined ==
  /\ At("VarDecl")
  /\ Replace((IF Here.init # 0 THEN <<Visit(Here.init)>> ELSE <<>>)
                \o <<EmitValue(OPCode.SetGlobal, Str(Here.name))>>)

\* emit(instruction)
EmitStep ==
  /\ todo # <<>> /\ Head(todo).do = "emit"
  /\ bytecodeBuffer' = Append(bytecodeBuffer, Head(todo).op)
  /\ todo' = Tail(todo)
  /\ UNCHANGED <<program, constantsPool>>

\* emit(instruction, value), with addValue: the constant goes to the end of
\* the pool, and the offset it gets there is cut to a byte.
EmitValueStep ==
  /\ todo # <<>> /\ Head(todo).do = "emitValue"
  /\ constantsPool' = Append(constantsPool, Head(todo).value)
  /\ bytecodeBuffer' =
       bytecodeBuffer \o <<Head(todo).op, ToByte(Len(constantsPool))>>
  /\ todo' = Tail(todo)
  /\ UNCHANGED program

\* compile of a null pointer emits nothing, and whoever called it goes on.
VisitNull == AtVisit /\ Head(todo).node = 0 /\ Replace(<<>>)

VisitLiteralExpr ==
  /\ At("Literal")
  /\ Replace(<<EmitValue(OPCode.Constant, Here.value)>>)

VisitBinaryExpr ==
  /\ At("Binary")
  /\ Replace(<<Visit(Here.left), Visit(Here.right), Emit(BinaryOpcode[Here.op])>>)

VisitUnaryExpr ==
  /\ At("Unary")
  /\ Replace(<<Visit(Here.right), Emit(UnaryOpcode[Here.op])>>)

\* No jump: both operands of a logical operator are always evaluated.
VisitLogicalExpr ==
  /\ At("Logical")
  /\ Replace(<<Visit(Here.left), Visit(Here.right), Emit(LogicalOpcode[Here.op])>>)

VisitGroupingExpr ==
  /\ At("Grouping")
  /\ Replace(<<Visit(Here.expr)>>)

VisitVarExpr ==
  /\ At("Var")
  /\ Replace(<<EmitValue(OPCode.GetGlobal, Str(Here.name))>>)

\* Assignments and calls have empty visitors: they emit nothing.
VisitAssignExpr == At("Assign") /\ Replace(<<>>)

VisitCallExpr == At("Call") /\ Replace(<<>>)

VisitVarDecl ==
  /\ At("VarDecl")
  /\ Replace(<<IF Here.init # 0 THEN Visit(Here.init)
                                ELSE EmitValue(OPCode.Constant, Undefined),
               EmitValue(OPCode.SetGlobal, Str(Here.name))>>)

\* The value of a return is not compiled.
VisitReturnStmt == At("Return") /\ Replace(<<Emit(OPCode.Return)>>)

\* Expression statements, blocks, conditionals, loops and functions have
\* empty visitors.
IgnoredStmt == {"ExprStmt", "Block", "If", "While", "For", "FuncDecl"}

VisitIgnored == \E kind \in IgnoredStmt : At(kind) /\ Replace(<<>>)

CompilerNext ==
  \/ EmitStep \/ EmitValueStep \/ VisitNull
  \/ VisitLiteralExpr \/ VisitVarExpr \/ VisitGroupingExpr \/ VisitUnaryExpr
  \/ VisitBinaryExpr \/ VisitLogicalExpr \/ VisitAssignExpr \/ VisitCallExpr
  \/ VisitVarDecl \/ VisitReturnStmt \/ VisitIgnored

===============================================================================
