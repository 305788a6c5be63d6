----------------------------- MODULE MeaningProofs -----------------------------
(***************************************************************************)
(* Theorems about the bytecode path, for every set of programs, handmade   *)
(* bytecode, numbers and strings.  First the layout of the bytecode that   *)
(* the compiler writes, then what it computes: the tree has a meaning,     *)
(* folding keeps it, the code that the compiler emits has it, and the      *)
(* machine finds it.                                                       *)
(***************************************************************************)
EXTENDS CompileAndRun, ProofBasics

(***************************************************************************)
(* The instruction set.                                                    *)
(***************************************************************************)

\* The instructions without an operand.
PlainCode == HandledCode \ OperandCode

LEMMA OpcodeFacts ==
  /\ OPCode.Return = 1 /\ OPCode.Constant = 2 /\ OPCode.Negate = 3
  /\ OPCode.Add = 4 /\ OPCode.Sub = 5 /\ OPCode.Mul = 6 /\ OPCode.Div = 7
  /\ OPCode.Not = 8 /\ OPCode.And = 9 /\ OPCode.Or = 10
  /\ OPCode.Equal = 11 /\ OPCode.NotEqual = 12 /\ OPCode.Greater = 13
  /\ OPCode.Lesser = 14 /\ OPCode.GreaterEqual = 15 /\ OPCode.LesserEqual = 16
  /\ OPCode.GetGlobal = 21 /\ OPCode.SetGlobal = 22
  BY DEF OPCode

LEMMA CodeSets ==
  /\ BinaryCode = {4, 5, 6, 7, 11, 12, 13, 14, 15, 16}
  /\ OperandCode = {2, 21, 22}
  /\ PlainCode = BinaryCode \cup {1, 3, 8, 9, 10}
  /\ HandledCode = PlainCode \cup OperandCode
  /\ HandledCode \subseteq Byte
<1>1. /\ BinaryCode = {4, 5, 6, 7, 11, 12, 13, 14, 15, 16}
      /\ OperandCode = {2, 21, 22}
  BY OpcodeFacts DEF BinaryCode, OperandCode
<1>2. HandledCode = BinaryCode \cup OperandCode \cup {1, 3, 8, 9, 10}
  BY OpcodeFacts DEF HandledCode
<1>3. HandledCode \subseteq 0 .. 255
  BY <1>1, <1>2
<1> QED
  BY <1>1, <1>2, <1>3 DEF PlainCode, Byte, ByteRange

LEMMA ToByteFacts ==
  ASSUME NEW n \in Nat
  PROVE  ToByte(n) \in Byte /\ ToByte(n) <= n /\ (n < ByteRange => ToByte(n) = n)
  BY DEF ToByte, Byte, ByteRange

\* The operators of the tree have instructions without operands.
LEMMA OperatorCodes ==
  /\ \A op \in BinaryOp : BinaryOpcode[op] \in BinaryCode /\ Token(BinaryOpcode[op]) = op
  /\ \A op \in LogicalOp : LogicalOpcode[op] \in {OPCode.And, OPCode.Or}
  /\ \A op \in UnaryOp : UnaryOpcode[op] \in {OPCode.Negate, OPCode.Not}
<1>1. \A op \in BinaryOp : BinaryOpcode[op] \in BinaryCode
  BY OpcodeFacts, CodeSets DEF BinaryOp, BinaryOpcode
<1>2. \A op \in BinaryOp : Token(BinaryOpcode[op]) = op
  BY OpcodeFacts DEF BinaryOp, BinaryOpcode, Token
<1>3. \A op \in LogicalOp : LogicalOpcode[op] \in {OPCode.And, OPCode.Or}
  BY DEF LogicalOp, LogicalOpcode
<1>4. \A op \in UnaryOp : UnaryOpcode[op] \in {OPCode.Negate, OPCode.Not}
  BY DEF UnaryOp, UnaryOpcode
<1> QED
  BY <1>1, <1>2, <1>3, <1>4

(***************************************************************************)
(* Values and nodes.                                                       *)
(***************************************************************************)

LEMMA ValueFacts ==
  /\ \A n \in Number : Num(n) \in Value
  /\ \A b \in BOOLEAN : Bool(b) \in Value
  /\ \A s \in String : Str(s) \in Value /\ AsString(Str(s)) = s
  /\ Undefined \in Value
  /\ \A v \in Value : AsString(v) \in String /\ AsNumber(v) \in Number
  BY NumberAssumption, StringAssumption
  DEF Value, Num, Bool, Str, Undefined, Null, AsString, AsNumber

\* Whatever the operands are, an operator of the machine has a value.
LEMMA OperatorValues ==
  ASSUME NEW v \in Value, NEW w \in Value
  PROVE  /\ Negated(v) \in Value /\ Not(v) \in Value
         /\ \A op \in BinaryOp : VMBinary(op, v, w) \in Value
         /\ \A op \in LogicalOp : VMLogical(op, v, w) \in Value
<1>1. \A op \in ArithOp : Arithmetic(op, v, w) \in Value
  BY ValueFacts, NumberAssumption DEF Arithmetic
<1>2. Negated(v) \in Value
  BY ValueFacts, NumberAssumption DEF Negated, ArithOp
<1>3. Not(v) \in Value
  BY ValueFacts DEF Not
<1>4. \A op \in LogicalOp : VMLogical(op, v, w) \in Value
  BY ValueFacts DEF VMLogical
<1>5. ASSUME NEW op \in BinaryOp
      PROVE  VMBinary(op, v, w) \in Value
  <2>1. CASE op \in ArithOp
    BY <1>1, <2>1 DEF VMBinary, ArithOp
  <2>2. CASE op \notin ArithOp
    <3>1. /\ Bool(IsEqual(v, w)) \in Value /\ Bool(~IsEqual(v, w)) \in Value
          /\ Bool(GreaterOrEqual(v, w)) \in Value /\ Bool(LesserOrEqual(v, w)) \in Value
      BY ValueFacts DEF IsEqual, GreaterOrEqual, LesserOrEqual, Comparable
    <3> QED
      BY <2>2, <3>1 DEF VMBinary, BinaryOp, ArithOp
  <2> QED
    BY <2>1, <2>2
<1> QED
  BY <1>2, <1>3, <1>4, <1>5

LEMMA NodeFacts ==
  ASSUME NEW Names, NEW Values, NEW node \in ASTNode(Names, Values)
  PROVE  /\ node.kind = "Literal" => node.value \in Values
         /\ node.kind \in {"Var", "VarDecl"} => node.name \in Names
         /\ node.kind = "Grouping" => node.expr \in Nat
         /\ node.kind = "Unary" => node.right \in Nat /\ node.op \in UnaryOp
         /\ node.kind = "Binary" => node.left \in Nat /\ node.right \in Nat /\ node.op \in BinaryOp
         /\ node.kind = "Logical" => node.left \in Nat /\ node.right \in Nat /\ node.op \in LogicalOp
         /\ node.kind = "VarDecl" => node.init \in Nat
  BY DEF ASTNode

\* Both overloads of compile, one level down: what takes the place of a visit.
Expansion(p, i) ==
  LET here == p.nodes[i]
  IN  IF i = 0
      THEN <<>>
      ELSE CASE here.kind = "Literal"  -> <<EmitValue(OPCode.Constant, here.value)>>
             [] here.kind = "Var"      -> <<EmitValue(OPCode.GetGlobal, Str(here.name))>>
             [] here.kind = "Grouping" -> <<Visit(here.expr)>>
             [] here.kind = "Unary"    -> <<Visit(here.right), Emit(UnaryOpcode[here.op])>>
             [] here.kind = "Binary"   ->
                  <<Visit(here.left), Visit(here.right), Emit(BinaryOpcode[here.op])>>
             [] here.kind = "Logical"  ->
                  <<Visit(here.left), Visit(here.right), Emit(LogicalOpcode[here.op])>>
             [] here.kind = "VarDecl"  ->
                  <<IF here.init # 0 THEN Visit(here.init)
                                     ELSE EmitValue(OPCode.Constant, Undefined),
                    EmitValue(OPCode.SetGlobal, Str(here.name))>>
             [] here.kind = "Return"   -> <<Emit(OPCode.Return)>>
             [] OTHER                  -> <<>>

\* The compiler emits an instruction, with or without an operand, or expands
\* a visit.
LEMMA CompilerSteps ==
  ASSUME CompilerNext
  PROVE  /\ todo # <<>>
         /\ \/ EmitStep
            \/ EmitValueStep
            \/ Head(todo).do = "visit" /\ Replace(Expansion(program, Head(todo).node))
<1>1. CASE EmitStep
  BY <1>1 DEF EmitStep
<1>2. CASE EmitValueStep
  BY <1>2 DEF EmitValueStep
<1>3. CASE VisitLiteralExpr
  BY <1>3 DEF VisitLiteralExpr, At, AtVisit, Here, Node, Expansion
<1>4. CASE VisitVarExpr
  BY <1>4 DEF VisitVarExpr, At, AtVisit, Here, Node, Expansion
<1>5. CASE VisitGroupingExpr
  BY <1>5 DEF VisitGroupingExpr, At, AtVisit, Here, Node, Expansion
<1>6. CASE VisitUnaryExpr
  BY <1>6 DEF VisitUnaryExpr, At, AtVisit, Here, Node, Expansion
<1>7. CASE VisitBinaryExpr
  BY <1>7 DEF VisitBinaryExpr, At, AtVisit, Here, Node, Expansion
<1>8. CASE VisitLogicalExpr
  BY <1>8 DEF VisitLogicalExpr, At, AtVisit, Here, Node, Expansion
<1>9. CASE VisitAssignExpr
  BY <1>9 DEF VisitAssignExpr, At, AtVisit, Here, Node, Expansion
<1>10. CASE VisitCallExpr
  BY <1>10 DEF VisitCallExpr, At, AtVisit, Here, Node, Expansion
<1>11. CASE VisitVarDecl
  BY <1>11 DEF VisitVarDecl, At, AtVisit, Here, Node, Expansion
<1>12. CASE VisitReturnStmt
  BY <1>12 DEF VisitReturnStmt, At, AtVisit, Here, Node, Expansion
<1>13. CASE VisitIgnored
  BY <1>13 DEF VisitIgnored, At, AtVisit, Here, Node, Expansion, IgnoredStmt
<1>14. CASE VisitNull
  BY <1>14 DEF VisitNull, AtVisit, Expansion
<1> QED
  BY <1>1, <1>2, <1>3, <1>4, <1>5, <1>6, <1>7, <1>8, <1>9, <1>10, <1>11, <1>12, <1>13, <1>14
  DEF CompilerNext

\* What the activation records of the compiler may hold.
Items(p) ==
  {Visit(i) : i \in {0} \cup DOMAIN p.nodes}
    \cup {Emit(op) : op \in PlainCode}
    \cup {EmitValue(op, v) : op \in OperandCode, v \in Value}

LEMMA ItemFacts ==
  ASSUME NEW p, NEW item \in Items(p)
  PROVE  /\ item.do = "visit" => item.node \in {0} \cup DOMAIN p.nodes /\ item = Visit(item.node)
         /\ item.do = "emit" => item.op \in PlainCode /\ item = Emit(item.op)
         /\ item.do = "emitValue" =>
              /\ item.op \in OperandCode /\ item.value \in Value
              /\ item = EmitValue(item.op, item.value)
  BY DEF Items, Visit, Emit, EmitValue

\* The operands of a node are null, or expressions of the program before it.
LEMMA OperandFacts ==
  ASSUME NEW p, Compilable(p), NEW i \in DOMAIN p.nodes, NEW k \in Operands(p.nodes[i])
  PROVE  /\ k \in {0} \cup DOMAIN p.nodes /\ k < i
         /\ k # 0 => k \in DOMAIN p.nodes /\ p.nodes[k].kind \in ExprKind
<1>1. p.nodes \in Seq(ASTNode(String, Value)) /\ i \in 1 .. Len(p.nodes)
  BY DEF Compilable
<1>2. k # 0 => p.nodes[k].kind \in ExprKind
  BY DEF Compilable
<1>3. k \in Children(p.nodes[i])
  BY DEF Operands, Children
<1>4. k \in 0 .. i - 1
  BY <1>3 DEF Compilable, WellFormed
<1> QED
  BY <1>1, <1>2, <1>4

LEMMA ExpansionItems ==
  ASSUME NEW p, Compilable(p), NEW i \in {0} \cup DOMAIN p.nodes
  PROVE  Expansion(p, i) \in Seq(Items(p))
<1> DEFINE here == p.nodes[i]
<1>0. CASE i = 0
  BY <1>0 DEF Expansion
<1> SUFFICES ASSUME i # 0 PROVE Expansion(p, i) \in Seq(Items(p))
  BY <1>0
<1>1. here \in ASTNode(String, Value)
  BY DEF Compilable
<1>2. \A k \in Operands(here) : Visit(k) \in Items(p)
  BY OperandFacts DEF Items
<1>3. \A op \in PlainCode : Emit(op) \in Items(p)
  BY DEF Items
<1>4. \A v \in Value : /\ EmitValue(OPCode.Constant, v) \in Items(p)
                       /\ EmitValue(OPCode.GetGlobal, v) \in Items(p)
                       /\ EmitValue(OPCode.SetGlobal, v) \in Items(p)
  BY DEF Items, OperandCode
<1>5. CASE here.kind = "Literal"
  BY <1>1, <1>4, <1>5, NodeFacts DEF Expansion
<1>6. CASE here.kind = "Var"
  BY <1>1, <1>4, <1>6, NodeFacts, ValueFacts DEF Expansion
<1>7. CASE here.kind = "Grouping"
  BY <1>2, <1>7 DEF Expansion, Operands
<1>8. CASE here.kind = "Unary"
  <2>1. UnaryOpcode[here.op] \in PlainCode
    BY <1>1, <1>8, NodeFacts, OperatorCodes, CodeSets, OpcodeFacts
  <2> QED
    BY <1>2, <1>3, <1>8, <2>1 DEF Expansion, Operands
<1>9. CASE here.kind = "Binary"
  <2>1. BinaryOpcode[here.op] \in PlainCode
    BY <1>1, <1>9, NodeFacts, OperatorCodes, CodeSets
  <2> QED
    BY <1>2, <1>3, <1>9, <2>1 DEF Expansion, Operands
<1>10. CASE here.kind = "Logical"
  <2>1. LogicalOpcode[here.op] \in PlainCode
    BY <1>1, <1>10, NodeFacts, OperatorCodes, CodeSets, OpcodeFacts
  <2> QED
    BY <1>2, <1>3, <1>10, <2>1 DEF Expansion, Operands
<1>11. CASE here.kind = "VarDecl"
  <2>1. Str(here.name) \in Value /\ Undefined \in Value
    BY <1>1, <1>11, NodeFacts, ValueFacts
  <2> QED
    BY <1>2, <1>4, <1>11, <2>1 DEF Expansion, Operands
<1>12. CASE here.kind = "Return"
  BY <1>3, <1>12, CodeSets, OpcodeFacts DEF Expansion
<1>13. CASE here.kind \notin {"Literal", "Var", "Grouping", "Unary", "Binary", "Logical",
                              "VarDecl", "Return"}
  BY <1>13 DEF Expansion
<1> QED
  BY <1>5, <1>6, <1>7, <1>8, <1>9, <1>10, <1>11, <1>12, <1>13

(***************************************************************************)
(* The state space.  The machine runs a copy of what a compiler that is    *)
(* done has left; before that it is as it was constructed.                 *)
(***************************************************************************)

CompilerTyped ==
  /\ Compilable(program)
  /\ todo \in Seq(Items(program))
  /\ bytecodeBuffer \in Seq(Byte)
  /\ constantsPool \in Seq(Value)
  /\ expressionStack \in Seq(ASTNode(String, Value))

\* A map from names to values.
IsEnv(env) == DOMAIN env \subseteq String /\ \A n \in DOMAIN env : env[n] \in Value

MachineTyped ==
  /\ ip \in Nat
  /\ stack \in Seq(Value)
  /\ IsEnv(globals)
  /\ result \in {"idle", "running", "ok", "undefined", "thrown"}

Loaded ==
  IF result = "idle"
  THEN code = <<>> /\ ctx = <<>> /\ ip = 0 /\ stack = <<>> /\ globals = NoGlobals
  ELSE todo = <<>> /\ code = bytecodeBuffer /\ ctx = constantsPool

StateInv == CompilerTyped /\ MachineTyped /\ Loaded

LEMMA StateInvImpliesTypeOK == StateInv => TypeOK
<1>1. <<>> \in Seq(Byte) /\ <<>> \in Seq(Value)
  OBVIOUS
<1> QED
  BY <1>1, StringAssumption
  DEF StateInv, CompilerTyped, MachineTyped, Loaded, IsEnv, TypeOK, VMTypeOK

LEMMA EnvFacts ==
  ASSUME NEW env, IsEnv(env), NEW n \in String, NEW v \in Value
  PROVE  /\ IsEnv(SetIn(env, n, v))
         /\ ResolveGlobal(env, n) \in Value
         /\ \A m : ResolveGlobal(SetIn(env, n, v), m) = IF m = n THEN v ELSE ResolveGlobal(env, m)
  BY ValueFacts DEF IsEnv, SetIn, ResolveGlobal

LEMMA NoGlobalsFacts == IsEnv(NoGlobals) /\ \A n : ResolveGlobal(NoGlobals, n) = Undefined
  BY DEF IsEnv, NoGlobals, ResolveGlobal

LEMMA InitState == Init => StateInv
<1> SUFFICES ASSUME Init PROVE StateInv
  OBVIOUS
<1>1. /\ expressionStack = <<>> /\ code = <<>> /\ ctx = <<>> /\ ip = 0 /\ stack = <<>>
      /\ globals = NoGlobals /\ result = "idle"
  BY DEF Init, OptimizerInit, VMInit
<1>2. CASE CompilerInit
  <2>1. Compilable(program) /\ bytecodeBuffer = <<>> /\ constantsPool = <<>>
    BY <1>2, ProgramAssumption DEF CompilerInit
  <2>2. \A s \in DOMAIN program.stmts : Visit(program.stmts[s]) \in Items(program)
    BY <2>1 DEF Compilable, WellFormed, Items
  <2>3. DOMAIN program.stmts = 1 .. Len(program.stmts) /\ Len(program.stmts) \in Nat
    BY <2>1 DEF Compilable
  <2>4. todo = [s \in 1 .. Len(program.stmts) |-> Visit(program.stmts[s])]
    BY <1>2, <2>3 DEF CompilerInit
  <2>5. todo \in Seq(Items(program))
    BY <2>2, <2>3, <2>4
  <2> QED
    BY <1>1, <2>1, <2>5, NoGlobalsFacts DEF StateInv, CompilerTyped, MachineTyped, Loaded
<1>3. CASE HandmadeInit
  <2>1. Compilable(program)
    BY <1>3 DEF HandmadeInit, Compilable, WellFormed
  <2>2. bytecodeBuffer \in Seq(Byte) /\ constantsPool \in Seq(Value) /\ todo = <<>>
    BY <1>3, HandmadeAssumption DEF HandmadeInit
  <2> QED
    BY <1>1, <2>1, <2>2, NoGlobalsFacts DEF StateInv, CompilerTyped, MachineTyped, Loaded
<1> QED
  BY <1>2, <1>3 DEF Init

\* What a visit of the optimizer pushes is a node of the tree's classes, and
\* the rewrite of an expression is the node itself or a literal.
LEMMA FoldFacts ==
  ASSUME NEW nodes \in Seq(ASTNode(String, Value)), NEW i \in DOMAIN nodes,
         \A k \in Operands(nodes[i]) : k \in {0} \cup DOMAIN nodes
  PROVE  /\ Pushed(nodes, nodes[i]) \in Seq(ASTNode(String, Value))
         /\ nodes[i].kind = "Binary" =>
              \/ FoldBinaryExpr(nodes, nodes[i]) = nodes[i]
              \/ \E v \in Value : FoldBinaryExpr(nodes, nodes[i]) = Literal(v)
<1>1. ASSUME nodes[i].kind = "Binary"
      PROVE  \/ FoldBinaryExpr(nodes, nodes[i]) = nodes[i]
             \/ \E v \in Value : FoldBinaryExpr(nodes, nodes[i]) = Literal(v)
  <2> DEFINE expr == nodes[i]
  <2>1. expr.left \in {0} \cup DOMAIN nodes /\ expr.right \in {0} \cup DOMAIN nodes
    BY <1>1 DEF Operands
  <2>2. CASE expr.op = "Plus" /\ IsLiteral(nodes, expr.left) /\ IsLiteral(nodes, expr.right)
    <3>1. nodes[expr.left].value \in Value /\ nodes[expr.right].value \in Value
      BY <2>1, <2>2, NodeFacts DEF IsLiteral
    <3>2. Arithmetic("Plus", nodes[expr.left].value, nodes[expr.right].value) \in Value
      BY <3>1, ValueFacts, NumberAssumption DEF Arithmetic, ArithOp
    <3> QED
      BY <2>2, <3>2 DEF FoldBinaryExpr
  <2>3. CASE ~ (expr.op = "Plus" /\ IsLiteral(nodes, expr.left) /\ IsLiteral(nodes, expr.right))
    BY <2>3 DEF FoldBinaryExpr
  <2> QED
    BY <2>2, <2>3
<1>2. \A v \in Value : Literal(v) \in ASTNode(String, Value)
  BY DEF Literal, ASTNode
<1>3. nodes[i].kind = "Binary" => FoldBinaryExpr(nodes, nodes[i]) \in ASTNode(String, Value)
  BY <1>1, <1>2
<1> QED
  BY <1>1, <1>3 DEF Pushed

LEMMA LiteralAppended ==
  ASSUME NEW p, Compilable(p), NEW v \in Value, NEW new,
         new = [nodes |-> Append(p.nodes, Literal(v)), stmts |-> <<Len(p.nodes) + 1>>]
  PROVE  /\ Compilable(new)
         /\ Len(new.nodes) = Len(p.nodes) + 1
         /\ new.nodes[Len(p.nodes) + 1] = Literal(v)
         /\ \A i \in DOMAIN p.nodes : i \in DOMAIN new.nodes /\ new.nodes[i] = p.nodes[i]
<1> DEFINE n == Len(p.nodes)
<1>1. /\ p.nodes \in Seq(ASTNode(String, Value)) /\ n \in Nat /\ DOMAIN p.nodes = 1 .. n
      /\ Literal(v) \in ASTNode(String, Value)
  BY DEF Compilable, Literal, ASTNode
<1>2. /\ new.nodes \in Seq(ASTNode(String, Value)) /\ Len(new.nodes) = n + 1
      /\ DOMAIN new.nodes = 1 .. n + 1
      /\ new.nodes[n + 1] = Literal(v)
      /\ \A i \in 1 .. n : new.nodes[i] = p.nodes[i]
  BY <1>1
<1>3. new.stmts = <<n + 1>> /\ new.stmts \in Seq(Nat)
  BY <1>1
<1> HIDE DEF n
<1>4. Children(Literal(v)) = {} /\ Operands(Literal(v)) = {}
  BY DEF Literal, Children, Operands
<1>5. WellFormed(new)
  <2>1. ASSUME NEW i \in DOMAIN new.nodes
        PROVE  Children(new.nodes[i]) \subseteq 0 .. i - 1
    <3>1. CASE i = n + 1
      BY <1>2, <1>4, <3>1
    <3>2. CASE i # n + 1
      BY <1>1, <1>2, <3>2 DEF Compilable, WellFormed
    <3> QED
      BY <3>1, <3>2
  <2>2. \A s \in DOMAIN new.stmts : new.stmts[s] \in DOMAIN new.nodes
    BY <1>1, <1>2, <1>3
  <2> QED
    BY <2>1, <2>2 DEF WellFormed
<1>6. ASSUME NEW i \in DOMAIN new.nodes, NEW k \in Operands(new.nodes[i])
      PROVE  k # 0 => new.nodes[k].kind \in ExprKind
  <2>1. i # n + 1 /\ i \in DOMAIN p.nodes /\ k \in Operands(p.nodes[i])
    BY <1>1, <1>2, <1>4
  <2>2. k # 0 => k \in DOMAIN p.nodes /\ p.nodes[k].kind \in ExprKind
    BY <2>1, OperandFacts
  <2> QED
    BY <1>1, <1>2, <2>2
<1>7. Compilable(new)
  BY <1>2, <1>3, <1>5, <1>6 DEF Compilable
<1> QED
  BY <1>1, <1>2, <1>7 DEF n

LEMMA RewriteFacts ==
  ASSUME StateInv, Rewrite
  PROVE  /\ Root \in DOMAIN program.nodes /\ Node(Root).kind = "Binary"
         /\ todo = <<Visit(Root)>> /\ program.stmts = <<Root>>
         /\ expressionStack' = expressionStack
         /\ UNCHANGED <<bytecodeBuffer, constantsPool, vmVars>>
         /\ \/ program' = program /\ todo' = todo
            \/ \E v \in Value :
                 /\ FoldBinaryExpr(program.nodes, Node(Root)) = Literal(v)
                 /\ Len(program.nodes) + 1 \in Nat
                 /\ program' = [nodes |-> Append(program.nodes, Literal(v)),
                                stmts |-> <<Len(program.nodes) + 1>>]
                 /\ todo' = <<Visit(Len(program.nodes) + 1)>>
<1>1. /\ Len(program.stmts) = 1 /\ todo = <<Visit(Root)>> /\ Root # 0
      /\ Node(Root).kind = "Binary"
      /\ UNCHANGED <<bytecodeBuffer, constantsPool, vmVars>>
  BY DEF Rewrite, Optimizable
<1>2. Compilable(program) /\ program.stmts \in Seq(Nat)
      /\ expressionStack \in Seq(ASTNode(String, Value))
      /\ program.nodes \in Seq(ASTNode(String, Value))
  BY DEF StateInv, CompilerTyped, Compilable
<1>3. program.stmts = <<Root>> /\ 1 \in DOMAIN program.stmts
  BY <1>1, <1>2 DEF Root
<1>4. Root \in DOMAIN program.nodes
  BY <1>1, <1>2, <1>3 DEF Compilable, WellFormed
<1>5. program.nodes[Root] = Node(Root)
  BY DEF Node
<1> DEFINE new == FoldBinaryExpr(program.nodes, Node(Root))
<1>6. Pushed(program.nodes, Node(Root)) = <<new>>
  BY <1>1 DEF Pushed
<1>7. new \in ASTNode(String, Value) /\ (new = Node(Root) \/ \E v \in Value : new = Literal(v))
  <2>1. \A k \in Operands(program.nodes[Root]) : k \in {0} \cup DOMAIN program.nodes
    BY <1>2, <1>4, OperandFacts
  <2>2. Pushed(program.nodes, Node(Root)) \in Seq(ASTNode(String, Value))
        /\ (new = Node(Root) \/ \E v \in Value : new = Literal(v))
    BY <1>1, <1>2, <1>4, <1>5, <2>1, FoldFacts
  <2> QED
    BY <1>6, <2>2
<1> HIDE DEF new
<1>8. Rewritten(program.nodes, Node(Root)) = new
      /\ Front(expressionStack \o Pushed(program.nodes, Node(Root))) = expressionStack
  <2>1. expressionStack \o <<new>> = Append(expressionStack, new)
    BY <1>2, <1>7
  <2>2. Last(Append(expressionStack, new)) = new
    BY <1>2, <1>7 DEF Last
  <2>3. Front(Append(expressionStack, new)) = expressionStack
    BY <1>2, <1>7 DEF Front
  <2> QED
    BY <1>6, <2>1, <2>2, <2>3 DEF Rewritten
<1>9. expressionStack' = expressionStack
  BY <1>8 DEF Rewrite, RewriteAST
<1>10. CASE new = Node(Root)
  <2>1. program' = [nodes |-> program.nodes, stmts |-> <<Root>>] /\ todo' = <<Visit(Root)>>
    BY <1>8, <1>10 DEF Rewrite
  <2>2. program = [nodes |-> program.nodes, stmts |-> program.stmts]
    BY <1>2 DEF Compilable
  <2> QED
    BY <1>1, <1>3, <1>4, <1>9, <2>1, <2>2
<1>11. CASE new # Node(Root)
  <2>1. /\ program' = [nodes |-> Append(program.nodes, new), stmts |-> <<Len(program.nodes) + 1>>]
        /\ todo' = <<Visit(Len(program.nodes) + 1)>>
    <3>1. Len(program.nodes) + 1 # Root
      BY <1>2, <1>4
    <3> QED
      BY <1>8, <1>11, <3>1 DEF Rewrite
  <2>2. PICK v \in Value : new = Literal(v)
    BY <1>7, <1>11
  <2>3. Len(program.nodes) + 1 \in Nat
    BY <1>2
  <2> QED
    BY <1>1, <1>3, <1>4, <1>9, <2>1, <2>2, <2>3 DEF new
<1> QED
  BY <1>10, <1>11

LEMMA CompileStep ==
  ASSUME CompilerTyped, CompilerNext
  PROVE  /\ todo # <<>> /\ program' = program
         /\ todo' \in Seq(Items(program))
         /\ bytecodeBuffer' \in Seq(Byte)
         /\ constantsPool' \in Seq(Value)
<1>1. /\ Compilable(program) /\ todo \in Seq(Items(program)) /\ todo # <<>>
      /\ bytecodeBuffer \in Seq(Byte) /\ constantsPool \in Seq(Value)
  BY CompilerSteps DEF CompilerTyped
<1>2. Head(todo) \in Items(program) /\ Tail(todo) \in Seq(Items(program))
  BY <1>1
<1>3. PlainCode \subseteq Byte /\ OperandCode \subseteq Byte
  BY CodeSets
<1>4. CASE EmitStep
  <2>1. Head(todo).op \in Byte
    BY <1>2, <1>3, <1>4, ItemFacts DEF EmitStep
  <2> QED
    BY <1>1, <1>2, <1>4, <2>1 DEF EmitStep
<1>5. CASE EmitValueStep
  <2>1. Head(todo).op \in Byte /\ Head(todo).value \in Value
    BY <1>2, <1>3, <1>5, ItemFacts DEF EmitValueStep
  <2>2. ToByte(Len(constantsPool)) \in Byte
    BY <1>1, ToByteFacts
  <2> QED
    BY <1>1, <1>2, <1>5, <2>1, <2>2 DEF EmitValueStep
<1>6. CASE Head(todo).do = "visit" /\ Replace(Expansion(program, Head(todo).node))
  <2>1. Expansion(program, Head(todo).node) \in Seq(Items(program))
    BY <1>1, <1>2, <1>6, ItemFacts, ExpansionItems
  <2> QED
    BY <1>1, <1>2, <1>6, <2>1 DEF Replace
<1> QED
  BY <1>4, <1>5, <1>6, CompilerSteps

\* What each step of the machine does to the typing of its variables.
LEMMA MachineStep ==
  ASSUME MachineTyped, code \in Seq(Byte), ctx \in Seq(Value), VMNext
  PROVE  MachineTyped' /\ result = "running" /\ result' # "idle" /\ UNCHANGED <<code, ctx>>
<1>1. /\ ip \in Nat /\ stack \in Seq(Value) /\ IsEnv(globals)
  BY DEF MachineTyped
<1>2. \A ops : AtInstruction(ops) => result = "running" /\ ip + 1 \in DOMAIN code /\ Fetched \in ops
  BY <1>1 DEF AtInstruction
<1>3. \A n, width \in Nat, v \in Value :
        n <= Len(stack) /\ result = "running" /\ Yield(n, v, width) =>
          MachineTyped' /\ result' # "idle" /\ UNCHANGED <<code, ctx>>
  <2> TAKE n \in Nat, width \in Nat, v \in Value
  <2> HAVE n <= Len(stack) /\ result = "running" /\ Yield(n, v, width)
  <2>1. SubSeq(stack, 1, Len(stack) - n) \in Seq(Value)
    BY <1>1
  <2>2. stack' \in Seq(Value) /\ ip' \in Nat
    BY <1>1, <2>1 DEF Yield
  <2> QED
    BY <1>1, <2>2 DEF Yield, MachineTyped
<1>4. StackUndefined /\ result = "running" =>
        MachineTyped' /\ result' # "idle" /\ UNCHANGED <<code, ctx>>
  BY <1>1 DEF StackUndefined, MachineTyped
<1>5. \A n \in {1, 2} : ~ Underflow(n) =>
        /\ n <= Len(stack) /\ Top \in Value /\ Front(stack) \in Seq(Value)
        /\ n = 2 => Second \in Value
  BY <1>1 DEF Underflow, Top, Second, Last, Front
<1>6. ASSUME NEW ops \in SUBSET OperandCode, AtInstruction(ops), OperandInPool
      PROVE  Constant(Operand) \in Value
  <2>1. ip + 2 \in DOMAIN code
    BY <1>1, <1>6 DEF AtInstruction
  <2>2. Operand \in Byte
    BY <2>1 DEF Operand
  <2> QED
    BY <1>6, <2>2 DEF OperandInPool, Constant, Byte
<1>7. CASE RunReturn
  BY <1>1, <1>2, <1>7 DEF RunReturn, MachineTyped
<1>8. CASE RunConstant
  <2>1. OperandInPool => Constant(Operand) \in Value
    BY <1>6, <1>8 DEF RunConstant, OperandCode
  <2> QED
    BY <1>1, <1>2, <1>3, <1>4, <1>8, <2>1 DEF RunConstant
<1>9. CASE RunNegate
  <2>1. ~ Underflow(1) => Negated(Top) \in Value /\ 1 <= Len(stack)
    BY <1>5, OperatorValues
  <2> QED
    BY <1>2, <1>3, <1>4, <1>9, <2>1 DEF RunNegate
<1>10. CASE RunNot
  <2>1. ~ Underflow(1) => Not(Top) \in Value /\ 1 <= Len(stack)
    BY <1>5, OperatorValues
  <2> QED
    BY <1>2, <1>3, <1>4, <1>10, <2>1 DEF RunNot
<1>11. CASE RunLogical
  <2> DEFINE op == IF Fetched = OPCode.And THEN "And" ELSE "Or"
  <2>1. ~ Underflow(2) => VMLogical(op, Second, Top) \in Value /\ 2 <= Len(stack)
    BY <1>5, OperatorValues DEF LogicalOp
  <2> QED
    BY <1>2, <1>3, <1>4, <1>11, <2>1 DEF RunLogical
<1>12. CASE RunBinary
  <2>1. Fetched \in BinaryCode
    BY <1>2, <1>12 DEF RunBinary
  <2>2. Token(Fetched) \in BinaryOp
    BY <2>1 DEF Token, BinaryCode, BinaryOp, OPCode
  <2>3. ~ Underflow(2) => VMBinary(Token(Fetched), Second, Top) \in Value /\ 2 <= Len(stack)
    BY <1>5, <2>2, OperatorValues
  <2> QED
    BY <1>2, <1>3, <1>4, <1>12, <2>3 DEF RunBinary
<1>13. CASE RunSetGlobal
  <2>1. OperandInPool => Constant(Operand) \in Value
    BY <1>6, <1>13 DEF RunSetGlobal, OperandCode
  <2>2. OperandInPool /\ ~ Underflow(1) =>
          /\ IsEnv(SetIn(globals, AsString(Constant(Operand)), Top))
          /\ Front(stack) \in Seq(Value)
    BY <1>1, <1>5, <2>1, EnvFacts, ValueFacts
  <2> QED
    BY <1>1, <1>2, <1>4, <1>13, <2>2 DEF RunSetGlobal, MachineTyped
<1>14. CASE RunGetGlobal
  <2> DEFINE name == AsString(Constant(Operand))
  <2>1. ASSUME OperandInPool
        PROVE  /\ ResolveGlobal(globals, name) \in Value
               /\ IsEnv(SetIn(globals, name, ResolveGlobal(globals, name)))
    <3>1. Constant(Operand) \in Value
      BY <1>6, <1>14, <2>1 DEF RunGetGlobal, OperandCode
    <3>2. name \in String
      BY <3>1, ValueFacts
    <3> HIDE DEF name
    <3>3. ResolveGlobal(globals, name) \in Value
      BY <1>1, <3>2, EnvFacts, ValueFacts
    <3> QED
      BY <1>1, <3>2, <3>3, EnvFacts
  <2>2. AtInstruction({OPCode.GetGlobal}) /\ result = "running"
    BY <1>2, <1>14 DEF RunGetGlobal
  <2>3. CASE OperandInPool
    <3>1. /\ globals' = SetIn(globals, name, ResolveGlobal(globals, name))
          /\ stack' = Append(stack, ResolveGlobal(globals, name))
          /\ ip' = ip + 2
          /\ UNCHANGED <<code, ctx, result>>
      BY <1>14, <2>3 DEF RunGetGlobal
    <3>2. IsEnv(globals') /\ stack' \in Seq(Value) /\ ip' \in Nat
      BY <1>1, <2>1, <2>3, <3>1
    <3> QED
      BY <2>2, <3>1, <3>2 DEF MachineTyped
  <2> QED
    BY <1>4, <1>14, <2>2, <2>3 DEF RunGetGlobal
<1>15. CASE RunOperandMissing
  BY <1>1, <1>15 DEF RunOperandMissing, MachineTyped
<1>16. CASE RunUnexpected
  BY <1>1, <1>2, <1>16 DEF RunUnexpected, MachineTyped
<1>17. CASE RunEnd
  BY <1>1, <1>17 DEF RunEnd, MachineTyped
<1> QED
  BY <1>7, <1>8, <1>9, <1>10, <1>11, <1>12, <1>13, <1>14, <1>15, <1>16, <1>17 DEF VMNext

LEMMA StateStep ==
  ASSUME StateInv, [Next]_vars
  PROVE  StateInv'
<1>1. /\ Compilable(program) /\ todo \in Seq(Items(program))
      /\ bytecodeBuffer \in Seq(Byte) /\ constantsPool \in Seq(Value)
      /\ expressionStack \in Seq(ASTNode(String, Value))
      /\ MachineTyped /\ Loaded
      /\ program.nodes \in Seq(ASTNode(String, Value))
  BY DEF StateInv, CompilerTyped, Compilable
<1>2. CASE VisitOnly
  <2>1. UNCHANGED <<program, todo, bytecodeBuffer, constantsPool, vmVars>>
    BY <1>2 DEF VisitOnly, compilerVars
  <2>2. PICK i \in DOMAIN program.nodes : Accept(program.nodes, Node(i))
    BY <1>2 DEF VisitOnly
  <2>3. \A k \in Operands(program.nodes[i]) : k \in {0} \cup DOMAIN program.nodes
    BY <1>1, OperandFacts
  <2>4. Pushed(program.nodes, Node(i)) \in Seq(ASTNode(String, Value))
    BY <1>1, <2>3, FoldFacts DEF Node
  <2>5. expressionStack' \in Seq(ASTNode(String, Value))
    BY <1>1, <2>2, <2>4 DEF Accept
  <2> QED
    BY <1>1, <2>1, <2>5 DEF StateInv, CompilerTyped, MachineTyped, Loaded, vmVars
<1>3. CASE Rewrite
  <2>1. UNCHANGED <<bytecodeBuffer, constantsPool, expressionStack, vmVars>> /\ todo # <<>>
    BY <1>3, RewriteFacts
  <2>2. Compilable(program') /\ todo' \in Seq(Items(program'))
    <3>1. CASE program' = program /\ todo' = todo
      BY <1>1, <3>1
    <3>2. CASE ~ (program' = program /\ todo' = todo)
      <4>1. PICK v \in Value :
              /\ program' = [nodes |-> Append(program.nodes, Literal(v)),
                             stmts |-> <<Len(program.nodes) + 1>>]
              /\ todo' = <<Visit(Len(program.nodes) + 1)>>
        BY <1>3, <3>2, RewriteFacts
      <4>2. Compilable(program') /\ Len(program'.nodes) = Len(program.nodes) + 1
        BY <1>1, <4>1, LiteralAppended
      <4>3. Len(program.nodes) + 1 \in DOMAIN program'.nodes
        BY <1>1, <4>2 DEF Compilable
      <4>4. Visit(Len(program.nodes) + 1) \in Items(program')
        BY <4>3 DEF Items
      <4> QED
        BY <4>1, <4>2, <4>4
    <3> QED
      BY <3>1, <3>2
  <2> QED
    BY <1>1, <2>1, <2>2 DEF StateInv, CompilerTyped, MachineTyped, Loaded, vmVars
<1>4. CASE Compile
  <2>1. CompilerNext /\ UNCHANGED <<expressionStack, vmVars>>
    BY <1>4 DEF Compile
  <2>2. /\ todo # <<>> /\ program' = program
        /\ todo' \in Seq(Items(program))
        /\ bytecodeBuffer' \in Seq(Byte)
        /\ constantsPool' \in Seq(Value)
    BY <2>1, CompileStep DEF StateInv
  <2> QED
    BY <1>1, <2>1, <2>2 DEF StateInv, CompilerTyped, MachineTyped, Loaded, vmVars
<1>5. CASE Load
  BY <1>1, <1>5 DEF Load, StateInv, CompilerTyped, MachineTyped, Loaded, compilerVars
<1>6. CASE Run
  <2>1. VMNext /\ UNCHANGED <<program, todo, bytecodeBuffer, constantsPool, expressionStack>>
    BY <1>6 DEF Run, compilerVars
  <2>2. code \in Seq(Byte) /\ ctx \in Seq(Value)
    <3>1. <<>> \in Seq(Byte) /\ <<>> \in Seq(Value)
      OBVIOUS
    <3> QED
      BY <1>1, <3>1 DEF Loaded
  <2>3. MachineTyped' /\ result = "running" /\ result' # "idle" /\ UNCHANGED <<code, ctx>>
    BY <1>1, <2>1, <2>2, MachineStep
  <2> QED
    BY <1>1, <2>1, <2>3 DEF StateInv, CompilerTyped, Loaded
<1>7. CASE UNCHANGED vars
  BY <1>7 DEF vars, compilerVars, vmVars, StateInv, CompilerTyped, MachineTyped, Loaded
<1> QED
  BY <1>2, <1>3, <1>4, <1>5, <1>6, <1>7 DEF Next

LEMMA StateInvHolds == Spec => []StateInv
<1>1. StateInv /\ [Next]_vars => StateInv'
  BY StateStep
<1> QED
  BY InitState, <1>1, PTL DEF Spec

\* TypeOK: compiling, folding and running any program of the tree's classes,
\* the machine's stack, globals and pool hold values, and its code bytes.
THEOREM CompileAndRunTypeCorrect == Spec => []TypeOK
  BY StateInvHolds, StateInvImpliesTypeOK, PTL

(***************************************************************************)
(* The way of the instruction pointer.                                     *)
(***************************************************************************)

\* An instruction moves it forward, by no more than there are bytes, unless it
\* ends the run; the code stays as it is.
RunsForward ==
  result = "running" =>
    /\ code' = code /\ result' # "idle"
    /\ result' = "running" => ip < ip' /\ ip' <= Len(code)

\* No step leaves a run that has ended.
RunOver == result \notin {"idle", "running"} => UNCHANGED <<result, stack, globals>>

LEMMA VMForward ==
  ASSUME MachineTyped, code \in Seq(Byte), ctx \in Seq(Value), VMNext
  PROVE  result = "running" /\ RunsForward
<1>1. ip \in Nat /\ Len(code) \in Nat
  BY DEF MachineTyped
<1>2. result = "running" /\ result' # "idle" /\ code' = code
  BY MachineStep
<1>3. \A ops : AtInstruction(ops) =>
        /\ ip < Len(code) /\ Fetched \in ops
        /\ ops \subseteq OperandCode => ip + 1 < Len(code)
  BY DEF AtInstruction
<1>4. \A ops, n, v :
        /\ AtInstruction(ops) /\ Yield(n, v, 1) => ip < ip' /\ ip' <= Len(code)
        /\ AtInstruction(ops) /\ ops \subseteq OperandCode /\ Yield(n, v, 2)
             => ip < ip' /\ ip' <= Len(code)
  BY <1>1, <1>3 DEF Yield
<1>5. StackUndefined => result' # "running"
  BY DEF StackUndefined
<1>6. result' = "running" => ip < ip' /\ ip' <= Len(code)
  <2>1. CASE RunReturn \/ RunOperandMissing \/ RunEnd
    BY <2>1 DEF RunReturn, RunOperandMissing, RunEnd
  <2>2. CASE RunConstant
    <3>1. AtInstruction({OPCode.Constant}) /\ {OPCode.Constant} \subseteq OperandCode
      BY <2>2 DEF RunConstant, OperandCode
    <3> QED
      BY <1>4, <1>5, <2>2, <3>1 DEF RunConstant
  <2>3. CASE RunNegate \/ RunNot \/ RunLogical \/ RunBinary
    BY <1>4, <1>5, <2>3 DEF RunNegate, RunNot, RunLogical, RunBinary
  <2>4. CASE RunSetGlobal
    <3>1. AtInstruction({OPCode.SetGlobal}) /\ {OPCode.SetGlobal} \subseteq OperandCode
      BY <2>4 DEF RunSetGlobal, OperandCode
    <3>2. ip + 1 < Len(code)
      BY <1>3, <3>1
    <3>3. result' = "running" => ip' = ip + 2
      BY <1>5, <2>4 DEF RunSetGlobal
    <3> QED
      BY <1>1, <3>2, <3>3
  <2>5. CASE RunGetGlobal
    <3>1. AtInstruction({OPCode.GetGlobal}) /\ {OPCode.GetGlobal} \subseteq OperandCode
      BY <2>5 DEF RunGetGlobal, OperandCode
    <3>2. ip + 1 < Len(code)
      BY <1>3, <3>1
    <3>3. result' = "running" => ip' = ip + 2
      BY <1>5, <2>5 DEF RunGetGlobal
    <3> QED
      BY <1>1, <3>2, <3>3
  <2>6. CASE RunUnexpected
    <3>1. AtInstruction(Byte \ HandledCode) /\ ip' = ip + 1
      BY <2>6 DEF RunUnexpected
    <3> QED
      BY <1>1, <1>3, <3>1
  <2> QED
    BY <2>1, <2>2, <2>3, <2>4, <2>5, <2>6 DEF VMNext
<1> QED
  BY <1>2, <1>6 DEF RunsForward

\* What ends a run of any bytecode, compiled or not: the machine never comes
\* to an instruction twice and never moves past the end of the code, which
\* nothing changes, so that a run is of no more steps than the code has bytes,
\* and one; and what a run has left nothing touches any more.  (RunEnds rests
\* on this and on the fairness of Run.)
THEOREM MachineRunsForward == Spec => [][Run => RunsForward]_vars /\ [][RunOver]_vars
<1>1. ASSUME StateInv, [Next]_vars
      PROVE  (Run => RunsForward) /\ RunOver
  <2>1. /\ MachineTyped /\ Loaded /\ bytecodeBuffer \in Seq(Byte) /\ constantsPool \in Seq(Value)
        /\ todo \in Seq(Items(program))
    BY <1>1 DEF StateInv, CompilerTyped
  <2>2. code \in Seq(Byte) /\ ctx \in Seq(Value)
    <3>1. <<>> \in Seq(Byte) /\ <<>> \in Seq(Value)
      OBVIOUS
    <3> QED
      BY <2>1, <3>1 DEF Loaded
  <2>3. CASE Run
    BY <2>1, <2>2, <2>3, VMForward DEF Run, RunOver
  <2>4. CASE ~ Run
    <3>1. CASE Load
      BY <3>1, <2>4 DEF Load, RunOver
    <3>2. CASE VisitOnly \/ Rewrite \/ Compile \/ UNCHANGED vars
      <4>1. UNCHANGED vmVars
        BY <3>2 DEF VisitOnly, Rewrite, Compile, vars
      <4> QED
        BY <2>4, <4>1 DEF vmVars, RunOver
    <3> QED
      BY <1>1, <2>4, <3>1, <3>2 DEF Next
  <2> QED
    BY <2>3, <2>4
<1>2. StateInv /\ [Next]_vars => [Run => RunsForward]_vars /\ [RunOver]_vars
  BY <1>1
<1> QED
  BY <1>2, StateInvHolds, PTL DEF Spec

(***************************************************************************)
(* Instruction boundaries.                                                 *)
(***************************************************************************)

\* The offsets at which an instruction begins, and the end: the instruction
\* at each of them ends where the next one begins, and its operand, if it has
\* one, is an offset into the pool.
Boundaries(buffer, pool, B) ==
  /\ B \subseteq 0 .. Len(buffer)
  /\ 0 \in B /\ Len(buffer) \in B
  /\ \A at \in B : at < Len(buffer) =>
       \/ buffer[at + 1] \in PlainCode /\ at + 1 \in B
       \/ /\ buffer[at + 1] \in OperandCode
          /\ at + 2 \in B
          /\ buffer[at + 2] < Len(pool)

LaidOut ==
  Compiled =>
    \E B : /\ Boundaries(bytecodeBuffer, constantsPool, B)
           /\ result = "running" => ip \in B

LEMMA EmitBoundaries ==
  ASSUME NEW buffer \in Seq(Byte), NEW pool \in Seq(Value), NEW B,
         Boundaries(buffer, pool, B)
  PROVE  /\ \A op \in PlainCode :
              Boundaries(Append(buffer, op), pool, B \cup {Len(buffer) + 1})
         /\ \A op \in OperandCode, v \in Value :
              Boundaries(buffer \o <<op, ToByte(Len(pool))>>, Append(pool, v),
                         B \cup {Len(buffer) + 2})
<1>1. /\ B \subseteq 0 .. Len(buffer) /\ 0 \in B /\ Len(buffer) \in B
      /\ Len(buffer) \in Nat /\ Len(pool) \in Nat
  BY DEF Boundaries
<1>2. PlainCode \subseteq Byte /\ OperandCode \subseteq Byte
  BY CodeSets
<1>3. ASSUME NEW op \in PlainCode
      PROVE  Boundaries(Append(buffer, op), pool, B \cup {Len(buffer) + 1})
  <2> DEFINE new == Append(buffer, op)
  <2>1. /\ Len(new) = Len(buffer) + 1 /\ new[Len(buffer) + 1] = op
        /\ \A i \in 1 .. Len(buffer) : new[i] = buffer[i]
    BY <1>2
  <2> HIDE DEF new
  <2>2. ASSUME NEW at \in B, at < Len(buffer)
        PROVE  \/ new[at + 1] \in PlainCode /\ at + 1 \in B
               \/ /\ new[at + 1] \in OperandCode
                  /\ at + 2 \in B
                  /\ new[at + 2] < Len(pool)
    <3>1. at + 1 \in 1 .. Len(buffer)
      BY <1>1, <2>2
    <3>2. at + 2 \in B => at + 2 \in 1 .. Len(buffer)
      BY <1>1, <3>1
    <3> QED
      BY <2>1, <2>2, <3>1, <3>2 DEF Boundaries
  <2>3. ASSUME NEW at \in B \cup {Len(buffer) + 1}, at < Len(new)
        PROVE  \/ new[at + 1] \in PlainCode /\ at + 1 \in B \cup {Len(buffer) + 1}
               \/ /\ new[at + 1] \in OperandCode
                  /\ at + 2 \in B \cup {Len(buffer) + 1}
                  /\ new[at + 2] < Len(pool)
    <3>1. at \in B /\ (at < Len(buffer) \/ at = Len(buffer))
      BY <1>1, <2>1, <2>3
    <3> QED
      BY <2>1, <2>2, <3>1
  <2>4. B \cup {Len(buffer) + 1} \subseteq 0 .. Len(new) /\ Len(new) \in B \cup {Len(buffer) + 1}
    <3>1. \A at \in B : at \in 0 .. Len(new)
      BY <1>1, <2>1
    <3>2. Len(buffer) + 1 \in 0 .. Len(new) /\ Len(new) = Len(buffer) + 1
      BY <1>1, <2>1
    <3> QED
      BY <3>1, <3>2
  <2>5. Boundaries(new, pool, B \cup {Len(buffer) + 1})
    BY <1>1, <2>3, <2>4 DEF Boundaries
  <2> QED
    BY <2>5 DEF new
<1>4. ASSUME NEW op \in OperandCode, NEW v \in Value
      PROVE  Boundaries(buffer \o <<op, ToByte(Len(pool))>>, Append(pool, v),
                        B \cup {Len(buffer) + 2})
  <2> DEFINE new == buffer \o <<op, ToByte(Len(pool))>>
             longer == Append(pool, v)
  <2>1. ToByte(Len(pool)) \in Byte /\ ToByte(Len(pool)) <= Len(pool)
    BY <1>1, ToByteFacts
  <2>2. /\ Len(new) = Len(buffer) + 2 /\ new[Len(buffer) + 1] = op
        /\ new[Len(buffer) + 2] = ToByte(Len(pool))
        /\ \A i \in 1 .. Len(buffer) : new[i] = buffer[i]
        /\ Len(longer) = Len(pool) + 1
    BY <1>2, <2>1
  <2>3. \A b \in Byte : b \in Int
    BY DEF Byte, ByteRange
  <2> HIDE DEF new, longer
  <2>4. ASSUME NEW at \in B, at < Len(buffer)
        PROVE  \/ new[at + 1] \in PlainCode /\ at + 1 \in B
               \/ /\ new[at + 1] \in OperandCode
                  /\ at + 2 \in B
                  /\ new[at + 2] < Len(longer)
    <3>1. at + 1 \in 1 .. Len(buffer)
      BY <1>1, <2>4
    <3>2. at + 2 \in B => at + 2 \in 1 .. Len(buffer)
      BY <1>1, <3>1
    <3>3. new[at + 2] < Len(pool) /\ at + 2 \in B => new[at + 2] < Len(longer)
      <4>1. at + 2 \in B => new[at + 2] = buffer[at + 2] /\ buffer[at + 2] \in Int
        BY <2>2, <2>3, <3>2
      <4> QED
        BY <1>1, <2>2, <4>1
    <3> QED
      BY <2>2, <2>4, <3>1, <3>2, <3>3 DEF Boundaries
  <2>5. Len(buffer) < Len(new) /\ Len(buffer) + 2 = Len(new) /\ Len(new) \in Nat
    BY <1>1, <2>2
  <2>6. /\ new[Len(buffer) + 1] \in OperandCode
        /\ new[Len(buffer) + 2] < Len(longer)
    BY <1>1, <2>1, <2>2, <2>3
  <2>7. ASSUME NEW at \in B \cup {Len(buffer) + 2}, at < Len(new)
        PROVE  \/ new[at + 1] \in PlainCode /\ at + 1 \in B \cup {Len(buffer) + 2}
               \/ /\ new[at + 1] \in OperandCode
                  /\ at + 2 \in B \cup {Len(buffer) + 2}
                  /\ new[at + 2] < Len(longer)
    <3>1. at \in B /\ (at < Len(buffer) \/ at = Len(buffer))
      BY <1>1, <2>5, <2>7
    <3> QED
      BY <2>4, <2>6, <3>1
  <2>8. B \cup {Len(buffer) + 2} \subseteq 0 .. Len(new) /\ Len(new) \in B \cup {Len(buffer) + 2}
    <3>1. \A at \in B : at \in 0 .. Len(new)
      BY <1>1, <2>5
    <3>2. Len(buffer) + 2 \in 0 .. Len(new) /\ Len(new) = Len(buffer) + 2
      BY <1>1, <2>5
    <3> QED
      BY <3>1, <3>2
  <2>9. Boundaries(new, longer, B \cup {Len(buffer) + 2})
    BY <1>1, <2>7, <2>8 DEF Boundaries
  <2> QED
    BY <2>9 DEF new, longer
<1> QED
  BY <1>3, <1>4

LEMMA InitLaidOut == Init => LaidOut
<1> SUFFICES ASSUME Init, Compiled PROVE LaidOut
  BY DEF LaidOut
<1>1. bytecodeBuffer = <<>> /\ constantsPool = <<>> /\ ip = 0
  BY DEF Init, CompilerInit, HandmadeInit, Compiled, VMInit
<1>2. Boundaries(<<>>, <<>>, {0})
  BY DEF Boundaries
<1> QED
  BY <1>1, <1>2 DEF LaidOut

LEMMA MachineLaidOut ==
  ASSUME StateInv, LaidOut, Compiled, VMNext, UNCHANGED compilerVars
  PROVE  LaidOut'
<1>1. code \in Seq(Byte) /\ ctx \in Seq(Value) /\ MachineTyped
  BY StateInvImpliesTypeOK DEF StateInv, TypeOK, VMTypeOK
<1>2. result = "running" /\ code = bytecodeBuffer /\ ctx = constantsPool /\ ip \in Nat
  BY <1>1, MachineStep DEF StateInv, Loaded, MachineTyped
<1>3. PICK B : Boundaries(code, ctx, B) /\ ip \in B
  BY <1>2 DEF LaidOut
<1>4. bytecodeBuffer' = code /\ constantsPool' = ctx
  BY <1>2 DEF compilerVars
<1>5. ip < Len(code) =>
        \/ Fetched \in PlainCode /\ ip + 1 \in B
        \/ Fetched \in OperandCode /\ ip + 2 \in B
  BY <1>3 DEF Boundaries, Fetched
<1>6. PlainCode \cap OperandCode = {} /\ HandledCode = PlainCode \cup OperandCode
  BY CodeSets
<1>7. \A ops : AtInstruction(ops) => ip < Len(code) /\ Fetched \in ops
  BY DEF AtInstruction
<1>8. result' = "running" => ip' \in B
  <2>1. CASE RunReturn
    BY <2>1 DEF RunReturn
  <2>2. CASE RunConstant
    <3>1. Fetched \in OperandCode /\ ip < Len(code)
      BY <1>7, <2>2 DEF RunConstant, OperandCode
    <3> QED
      BY <1>5, <1>6, <2>2, <3>1 DEF RunConstant, Yield, StackUndefined
  <2>3. CASE RunNegate \/ RunNot \/ RunLogical \/ RunBinary
    <3>1. Fetched \in PlainCode /\ ip < Len(code)
      BY <1>7, <2>3, CodeSets, OpcodeFacts DEF RunNegate, RunNot, RunLogical, RunBinary
    <3> QED
      BY <1>5, <1>6, <2>3, <3>1
      DEF RunNegate, RunNot, RunLogical, RunBinary, Yield, StackUndefined
  <2>4. CASE RunSetGlobal \/ RunGetGlobal
    <3>1. Fetched \in OperandCode /\ ip < Len(code)
      BY <1>7, <2>4 DEF RunSetGlobal, RunGetGlobal, OperandCode
    <3> QED
      BY <1>5, <1>6, <2>4, <3>1 DEF RunSetGlobal, RunGetGlobal, StackUndefined
  <2>5. CASE RunOperandMissing
    BY <2>5 DEF RunOperandMissing
  <2>6. CASE RunUnexpected
    BY <1>5, <1>6, <1>7, <2>6 DEF RunUnexpected
  <2>7. CASE RunEnd
    BY <2>7 DEF RunEnd
  <2> QED
    BY <2>1, <2>2, <2>3, <2>4, <2>5, <2>6, <2>7 DEF VMNext
<1> QED
  BY <1>3, <1>4, <1>8 DEF LaidOut

LEMMA LaidOutStep ==
  ASSUME StateInv, LaidOut, [Next]_vars
  PROVE  LaidOut'
<1>1. /\ todo \in Seq(Items(program))
      /\ bytecodeBuffer \in Seq(Byte) /\ constantsPool \in Seq(Value)
      /\ MachineTyped /\ Loaded
  BY DEF StateInv, CompilerTyped
<1>2. CASE VisitOnly
  BY <1>2 DEF VisitOnly, compilerVars, vmVars, LaidOut, Compiled
<1>3. CASE Rewrite
  BY <1>3, RewriteFacts DEF vmVars, LaidOut, Compiled
<1>4. CASE Compile
  <2>1. CompilerNext /\ UNCHANGED <<code, ctx, ip, stack, globals, result>>
    BY <1>4 DEF Compile, vmVars
  <2>2. todo # <<>> /\ program' = program
    BY <2>1, CompileStep DEF StateInv
  <2>3. result = "idle"
    BY <1>1, <2>2 DEF Loaded
  <2> SUFFICES ASSUME Compiled
               PROVE  \E B : Boundaries(bytecodeBuffer', constantsPool', B)
    BY <2>1, <2>2, <2>3 DEF LaidOut, Compiled
  <2>4. PICK B : Boundaries(bytecodeBuffer, constantsPool, B)
    BY DEF LaidOut
  <2>5. Head(todo) \in Items(program)
    BY <1>1, <2>2
  <2>6. CASE EmitStep
    BY <1>1, <2>4, <2>5, <2>6, EmitBoundaries, ItemFacts DEF EmitStep
  <2>7. CASE EmitValueStep
    BY <1>1, <2>4, <2>5, <2>7, EmitBoundaries, ItemFacts DEF EmitValueStep
  <2>8. CASE Replace(Expansion(program, Head(todo).node))
    BY <2>4, <2>8 DEF Replace
  <2> QED
    BY <2>1, <2>6, <2>7, <2>8, CompilerSteps
<1>5. CASE Load
  <2>1. ip = 0 /\ ip' = ip
    BY <1>1, <1>5 DEF Load, Loaded
  <2>2. \A B : Boundaries(bytecodeBuffer, constantsPool, B) => 0 \in B
    BY DEF Boundaries
  <2> QED
    BY <1>5, <2>1, <2>2 DEF Load, compilerVars, LaidOut, Compiled
<1>6. CASE Run
  BY <1>6, MachineLaidOut DEF Run, LaidOut, Compiled, compilerVars
<1>7. CASE UNCHANGED vars
  BY <1>7 DEF vars, compilerVars, vmVars, LaidOut, Compiled
<1> QED
  BY <1>2, <1>3, <1>4, <1>5, <1>6, <1>7 DEF Next

LEMMA LaidOutHolds == Spec => []LaidOut
<1>1. StateInv /\ LaidOut /\ [Next]_vars => LaidOut'
  BY LaidOutStep
<1> QED
  BY InitLaidOut, StateInvHolds, <1>1, PTL DEF Spec

\* InSync: wherever the machine comes to in compiled code, it finds an
\* instruction it has a case for, and its operand with it.
THEOREM InSyncHolds == Spec => []InSync
<1>1. StateInv /\ LaidOut => InSync
  <2> SUFFICES ASSUME StateInv, LaidOut, Compiled, result = "running", ip < Len(code)
               PROVE  Fetched \in HandledCode /\ (Fetched \in OperandCode => ip + 1 < Len(code))
    BY DEF InSync
  <2>1. code = bytecodeBuffer /\ code \in Seq(Byte) /\ ip \in Nat
    BY DEF StateInv, Loaded, CompilerTyped, MachineTyped
  <2>2. PICK B : Boundaries(code, constantsPool, B) /\ ip \in B
    BY <2>1 DEF LaidOut
  <2>3. \/ Fetched \in PlainCode
        \/ Fetched \in OperandCode /\ ip + 2 \in 0 .. Len(code)
    BY <2>2 DEF Boundaries, Fetched
  <2>4. ip + 2 \in 0 .. Len(code) => ip + 1 < Len(code)
    BY <2>1
  <2> QED
    BY <2>3, <2>4, CodeSets
<1> QED
  BY StateInvHolds, LaidOutHolds, <1>1, PTL

(***************************************************************************)
(* The disassembler.                                                       *)
(***************************************************************************)

Listing(bytes) ==
  [k \in 1 .. Len(bytes) |-> [offset |-> k - 1, name |-> InstructionName(bytes[k])]]

\* disassemble prints one line for every byte.
LEMMA DisassembleFacts ==
  ASSUME NEW bytes \in Seq(Byte)
  PROVE  Disassemble(bytes) = Listing(bytes)
<1> DEFINE n == Len(bytes)
           D == 0 .. n + 1
           Line(o) == [offset |-> o, name |-> InstructionName(bytes[o + 1])]
           Is(f) == f = [o \in D |-> IF o >= n THEN <<>>
                                              ELSE <<Line(o)>> \o f[NextOffset(bytes, o)]]
           F == [o \in D |-> [k \in 1 .. n - o |-> Line(o + k - 1)]]
<1>1. n \in Nat
  OBVIOUS
<1>2. Disassemble(bytes) = (CHOOSE f : Is(f))[0]
  BY DEF Disassemble
<1>3. \A o \in D : NextOffset(bytes, o) = o + 1
  BY DEF NextOffset
<1>4. \A o \in D : F[o] = [k \in 1 .. n - o |-> Line(o + k - 1)]
  OBVIOUS
<1>5. ASSUME NEW o \in D
      PROVE  F[o] = IF o >= n THEN <<>> ELSE <<Line(o)>> \o F[o + 1]
  <2> DEFINE S == {Line(i) : i \in D}
  <2>1. CASE o >= n
    <3>1. 1 .. n - o = {}
      BY <1>1, <2>1
    <3>2. F[o] = [k \in {} |-> Line(o + k - 1)]
      BY <1>4, <3>1
    <3>3. F[o] = <<>>
      BY <3>2
    <3> QED
      BY <2>1, <3>3
  <2>2. CASE ~ (o >= n)
    <3>1. o \in 0 .. n - 1 /\ o + 1 \in D /\ n - o \in Nat /\ n - (o + 1) \in Nat
      BY <1>1, <2>2
    <3>2. \A i \in 0 .. n : Line(i) \in S
      BY <1>1
    <3>3. F[o] = [k \in 1 .. n - o |-> Line(o + k - 1)]
          /\ F[o + 1] = [k \in 1 .. n - (o + 1) |-> Line((o + 1) + k - 1)]
      BY <1>4, <3>1
    <3> HIDE DEF F, S, Line
    <3>4. F[o] \in Seq(S) /\ Len(F[o]) = n - o
      <4>1. \A k \in 1 .. n - o : Line(o + k - 1) \in S
        BY <1>1, <3>1, <3>2
      <4> QED
        BY <3>1, <3>3, <4>1
    <3>5. F[o + 1] \in Seq(S) /\ Len(F[o + 1]) = n - o - 1
      <4>1. \A k \in 1 .. n - (o + 1) : Line((o + 1) + k - 1) \in S
        BY <1>1, <3>1, <3>2
      <4>2. Len(F[o + 1]) = n - (o + 1) /\ F[o + 1] \in Seq(S)
        BY <3>1, <3>3, <4>1
      <4> QED
        BY <1>1, <3>1, <4>2
    <3>6. Line(o) \in S
      BY <1>1, <3>1, <3>2
    <3> DEFINE r == <<Line(o)>> \o F[o + 1]
    <3>7. r \in Seq(S) /\ Len(r) = n - o
      BY <1>1, <3>1, <3>5, <3>6
    <3>8. ASSUME NEW k \in 1 .. n - o
          PROVE  F[o][k] = r[k]
      <4>1. F[o][k] = Line(o + k - 1)
        BY <3>3
      <4>2. CASE k = 1
        <5>1. r[1] = Line(o)
          BY <3>5, <3>6
        <5> QED
          BY <1>1, <3>1, <4>1, <4>2, <5>1
      <4>3. CASE k # 1
        <5>1. k - 1 \in 1 .. n - (o + 1)
          BY <1>1, <3>1, <4>3
        <5>2. r[k] = F[o + 1][k - 1]
          BY <1>1, <3>1, <3>5, <3>6, <5>1
        <5>3. F[o + 1][k - 1] = Line((o + 1) + (k - 1) - 1)
          BY <3>3, <5>1
        <5>4. (o + 1) + (k - 1) - 1 = o + k - 1
          BY <1>1, <3>1
        <5> QED
          BY <4>1, <5>2, <5>3, <5>4
      <4> QED
        BY <4>2, <4>3
    <3>9. F[o] = r
      BY <3>4, <3>7, <3>8, SeqEqual
    <3> QED
      BY <2>2, <3>9
  <2> QED
    BY <2>1, <2>2
<1>6. F = [o \in D |-> F[o]]
  OBVIOUS
<1> HIDE DEF F, Line
<1>7. Is(F)
  BY <1>3, <1>5, <1>6
<1> DEFINE g == CHOOSE f : Is(f)
<1>8. Is(g)
  BY <1>7
<1>9. \A o \in D : g[o] = IF o >= n THEN <<>> ELSE <<Line(o)>> \o g[o + 1]
  BY <1>3, <1>8
<1> HIDE DEF g
<1>10. \A o \in D : g[o] = F[o]
  <2> DEFINE Bad == {m \in Nat : m <= n + 1 /\ g[n + 1 - m] # F[n + 1 - m]}
  <2>1. Bad = {}
    <3> SUFFICES ASSUME Bad # {} PROVE FALSE
      OBVIOUS
    <3>1. PICK m \in Bad : \A k \in Bad : m <= k
      BY LeastNatural
    <3> DEFINE o == n + 1 - m
    <3>2. o \in D /\ g[o] # F[o] /\ m \in Nat
      BY <1>1, <3>1
    <3>3. ~ (o >= n)
      BY <1>5, <1>9, <3>2
    <3>4. m - 1 \in Nat /\ m - 1 <= n + 1 /\ m - 1 \notin Bad /\ n + 1 - (m - 1) = o + 1
      BY <1>1, <3>1, <3>2, <3>3
    <3>5. g[o + 1] = F[o + 1]
      BY <3>4
    <3> QED
      BY <1>5, <1>9, <3>2, <3>3, <3>5
  <2>2. ASSUME NEW o \in D PROVE g[o] = F[o]
    <3>1. n + 1 - o \in Nat /\ n + 1 - o <= n + 1 /\ n + 1 - (n + 1 - o) = o
      BY <1>1
    <3> QED
      BY <2>1, <3>1
  <2> QED
    BY <2>2
<1>11. g[0] = F[0] /\ F[0] = [k \in 1 .. n - 0 |-> Line(0 + k - 1)]
  BY <1>1, <1>4, <1>10
<1>12. [k \in 1 .. n - 0 |-> Line(0 + k - 1)] = Listing(bytes)
  <2>1. ASSUME NEW k \in 1 .. n
        PROVE  Line(0 + k - 1) = [offset |-> k - 1, name |-> InstructionName(bytes[k])]
    <3>1. 0 + k - 1 = k - 1 /\ (0 + k - 1) + 1 = k
      BY <1>1
    <3> QED
      BY <3>1 DEF Line
  <2>2. n - 0 = n
    BY <1>1
  <2> QED
    BY <2>1, <2>2 DEF Listing
<1> QED
  BY <1>2, <1>11, <1>12 DEF g

\* ListsInstructions: the disassembler lists every instruction that the
\* machine comes to, in compiled code or in any other.
THEOREM ListsInstructionsHolds == Spec => []ListsInstructions
<1>1. TypeOK => ListsInstructions
  <2> SUFFICES ASSUME TypeOK, result = "running", ip < Len(code)
               PROVE  \E line \in ToSet(Disassemble(code)) :
                        line.offset = ip /\ line.name = InstructionName(Fetched)
    BY DEF ListsInstructions
  <2>1. code \in Seq(Byte) /\ ip \in Nat
    BY DEF TypeOK, VMTypeOK
  <2>2. ip + 1 \in DOMAIN Listing(code)
    BY <2>1 DEF Listing
  <2>3. Listing(code)[ip + 1] = [offset |-> ip, name |-> InstructionName(Fetched)]
    BY <2>1, <2>2 DEF Listing, Fetched
  <2>4. Listing(code)[ip + 1] \in ToSet(Disassemble(code))
    BY <2>1, <2>2, DisassembleFacts DEF ToSet
  <2> QED
    BY <2>3, <2>4
<1> QED
  BY CompileAndRunTypeCorrect, <1>1, PTL


(***************************************************************************)
(* The meaning of a tree: the value of a node is a function of those of    *)
(* its operands, which come before it.                                     *)
(***************************************************************************)

LEMMA NodeMeaningLocal ==
  ASSUME NEW who, NEW env, NEW node, NEW f, NEW g,
         \A k \in Operands(node) \ {0} : f[k] = g[k]
  PROVE  NodeMeaning(who, env, f, node) = NodeMeaning(who, env, g, node)
  BY DEF NodeMeaning, Operands

\* f gives the first n nodes their values.
Means(p, who, env, f, n) ==
  f = [i \in 1 .. n |-> NodeMeaning(who, env, f, p.nodes[i])]

LEMMA MeaningExists ==
  ASSUME NEW p, Compilable(p), NEW who, NEW env
  PROVE  \E f : Means(p, who, env, f, Len(p.nodes))
<1> DEFINE N == Len(p.nodes)
           Bad == {n \in Nat : n <= N /\ \A f : ~ Means(p, who, env, f, n)}
<1>1. N \in Nat /\ DOMAIN p.nodes = 1 .. N
  BY DEF Compilable
<1> SUFFICES ASSUME Bad # {} PROVE FALSE
  BY <1>1
<1>2. PICK m \in Bad : \A k \in Bad : m <= k
  BY LeastNatural
<1>3. CASE m = 0
  <2> DEFINE none == [i \in 1 .. 0 |-> Undefined]
  <2>1. Means(p, who, env, none, 0)
    BY DEF Means
  <2> QED
    BY <1>2, <1>3, <2>1
<1>4. CASE m # 0
  <2>1. m - 1 \in Nat /\ m \in 1 .. N /\ m - 1 \notin Bad
    BY <1>1, <1>2, <1>4
  <2>2. PICK f : Means(p, who, env, f, m - 1)
    BY <1>1, <2>1
  <2> DEFINE g == [i \in 1 .. m |-> NodeMeaning(who, env, f, p.nodes[i])]
  <2>3. \A i \in 1 .. m - 1 : g[i] = f[i]
    <3>1. f = [i \in 1 .. m - 1 |-> NodeMeaning(who, env, f, p.nodes[i])]
      BY <2>2 DEF Means
    <3>2. ASSUME NEW i \in 1 .. m - 1 PROVE g[i] = f[i]
      <4>1. i \in 1 .. m
        BY <2>1
      <4>2. f[i] = NodeMeaning(who, env, f, p.nodes[i])
        BY <3>1
      <4> QED
        BY <4>1, <4>2
    <3> QED
      BY <3>2
  <2>4. g = [i \in 1 .. m |-> g[i]] /\ \A i \in 1 .. m : g[i] = NodeMeaning(who, env, f, p.nodes[i])
    OBVIOUS
  <2> HIDE DEF g
  <2>5. ASSUME NEW i \in 1 .. m
        PROVE  NodeMeaning(who, env, f, p.nodes[i]) = NodeMeaning(who, env, g, p.nodes[i])
    <3>1. \A k \in Operands(p.nodes[i]) \ {0} : k \in 1 .. m - 1
      <4>1. i \in DOMAIN p.nodes /\ i <= m
        BY <1>1, <2>1
      <4>2. \A k \in Operands(p.nodes[i]) \ {0} : k \in 1 .. N /\ k < i
        BY <1>1, <4>1, OperandFacts
      <4> QED
        BY <1>1, <2>1, <4>1, <4>2
    <3> QED
      BY <2>3, <3>1, NodeMeaningLocal
  <2>6. Means(p, who, env, g, m)
    BY <2>4, <2>5 DEF Means
  <2> QED
    BY <1>2, <2>6
<1> QED
  BY <1>3, <1>4

LEMMA MeaningUnfolds ==
  ASSUME NEW p, Compilable(p), NEW who, NEW env
  PROVE  \A i \in DOMAIN p.nodes :
           Meaning(p, who, env)[i] = NodeMeaning(who, env, Meaning(p, who, env), p.nodes[i])
<1> DEFINE Is(f) == f = [i \in DOMAIN p.nodes |-> NodeMeaning(who, env, f, p.nodes[i])]
           g == CHOOSE f : Is(f)
<1>1. Meaning(p, who, env) = g
  BY DEF Meaning
<1>2. DOMAIN p.nodes = 1 .. Len(p.nodes)
  BY DEF Compilable
<1>3. PICK f : Means(p, who, env, f, Len(p.nodes))
  BY MeaningExists
<1>4. Is(f)
  BY <1>2, <1>3 DEF Means
<1>5. Is(g)
  BY <1>4
<1> HIDE DEF g
<1> QED
  BY <1>1, <1>5

\* The machine has a value for every node.
LEMMA MachineValues ==
  ASSUME NEW p, Compilable(p), NEW env, IsEnv(env)
  PROVE  \A i \in DOMAIN p.nodes : Meaning(p, "machine", env)[i] \in Value
<1> DEFINE value == Meaning(p, "machine", env)
           Bad == {i \in DOMAIN p.nodes : value[i] \notin Value}
<1>1. DOMAIN p.nodes = 1 .. Len(p.nodes) /\ DOMAIN p.nodes \in SUBSET Nat
  BY DEF Compilable
<1> SUFFICES ASSUME Bad # {} PROVE FALSE
  OBVIOUS
<1>2. PICK i \in Bad : \A k \in Bad : i <= k
  BY <1>1, LeastNatural
<1> DEFINE node == p.nodes[i]
<1>3. i \in DOMAIN p.nodes /\ node \in ASTNode(String, Value) /\ value[i] \notin Value
  BY <1>2 DEF Compilable
<1>4. \A k \in Operands(node) \ {0} : value[k] \in Value
  <2> TAKE k \in Operands(node) \ {0}
  <2>1. k \in DOMAIN p.nodes /\ k < i
    BY <1>3, OperandFacts
  <2> QED
    BY <1>1, <1>2, <1>3, <2>1
<1>5. value[i] = NodeMeaning("machine", env, value, node)
  BY <1>3, MeaningUnfolds
<1> HIDE DEF value, node
<1>6. NodeMeaning("machine", env, value, node) \in Value
  <2>0. CASE 0 \in Operands(node)
    BY <2>0, ValueFacts DEF NodeMeaning
  <2> SUFFICES ASSUME 0 \notin Operands(node)
               PROVE  NodeMeaning("machine", env, value, node) \in Value
    BY <2>0
  <2>1. CASE node.kind = "Literal"
    BY <1>3, <2>1, NodeFacts DEF NodeMeaning
  <2>2. CASE node.kind = "Var"
    BY <1>3, <2>2, NodeFacts, EnvFacts, ValueFacts DEF NodeMeaning
  <2>3. CASE node.kind = "Grouping"
    BY <1>4, <2>3 DEF NodeMeaning, Operands
  <2>4. CASE node.kind = "Unary"
    BY <1>4, <2>4, OperatorValues DEF NodeMeaning, Operands
  <2>5. CASE node.kind = "Binary"
    <3>1. value[node.left] \in Value /\ value[node.right] \in Value
      BY <1>4, <2>5 DEF Operands
    <3>2. node.op \in BinaryOp
      BY <1>3, <2>5, NodeFacts
    <3> QED
      BY <2>5, <3>1, <3>2, OperatorValues DEF NodeMeaning
  <2>6. CASE node.kind = "Logical"
    <3>1. value[node.left] \in Value /\ value[node.right] \in Value
      BY <1>4, <2>6 DEF Operands
    <3>2. node.op \in LogicalOp
      BY <1>3, <2>6, NodeFacts
    <3> QED
      BY <2>6, <3>1, <3>2, OperatorValues DEF NodeMeaning
  <2>7. CASE node.kind \notin {"Literal", "Var", "Grouping", "Unary", "Binary", "Logical"}
    BY <2>7, ValueFacts DEF NodeMeaning
  <2> QED
    BY <2>0, <2>1, <2>2, <2>3, <2>4, <2>5, <2>6, <2>7
<1> QED
  BY <1>3, <1>5, <1>6

\* FoldingKeepsMeaning: the value of an expression does not change when its
\* root is folded, in any environment.
LEMMA RewriteKeepsMeaning ==
  ASSUME StateInv, Rewrite, NEW env
  PROVE  Meaning(program', "machine", env)[Head(program'.stmts)]
           = Meaning(program, "machine", env)[Root]
<1>1. Compilable(program) /\ program.nodes \in Seq(ASTNode(String, Value))
  BY DEF StateInv, CompilerTyped, Compilable
<1> DEFINE expr == program.nodes[Root]
           old == Meaning(program, "machine", env)
           new == Meaning(program', "machine", env)
           n == Len(program.nodes) + 1
<1>2. Root \in DOMAIN program.nodes /\ expr.kind = "Binary" /\ expr = Node(Root)
  BY RewriteFacts DEF Node
<1>3. CASE program' = program
  BY <1>3 DEF Root
<1>4. CASE program' # program
  <2>1. PICK v \in Value :
          /\ FoldBinaryExpr(program.nodes, Node(Root)) = Literal(v)
          /\ program' = [nodes |-> Append(program.nodes, Literal(v)), stmts |-> <<n>>]
    BY <1>4, RewriteFacts
  <2>2. Compilable(program') /\ program'.nodes[n] = Literal(v) /\ n \in DOMAIN program'.nodes
    <3>1. /\ Compilable(program') /\ Len(program'.nodes) = n
          /\ program'.nodes[n] = Literal(v)
      BY <1>1, <2>1, LiteralAppended
    <3>2. n \in 1 .. n
      BY <1>1
    <3> QED
      BY <3>1, <3>2 DEF Compilable
  <2>3. new[n] = v
    <3>1. new[n] = NodeMeaning("machine", env, new, Literal(v))
      BY <2>2, MeaningUnfolds
    <3> QED
      BY <3>1 DEF NodeMeaning, Literal, Operands
  <2>4. \A k \in Operands(expr) : k \in {0} \cup DOMAIN program.nodes
    BY <1>1, <1>2, OperandFacts
  <2>5. /\ expr.op = "Plus" /\ IsLiteral(program.nodes, expr.left)
        /\ IsLiteral(program.nodes, expr.right)
        /\ v = Arithmetic("Plus", program.nodes[expr.left].value,
                                  program.nodes[expr.right].value)
    BY <1>2, <2>1 DEF FoldBinaryExpr, Literal
  <2>6. /\ expr.left \in DOMAIN program.nodes /\ program.nodes[expr.left].kind = "Literal"
        /\ expr.right \in DOMAIN program.nodes /\ program.nodes[expr.right].kind = "Literal"
    BY <1>2, <2>4, <2>5 DEF Operands, IsLiteral
  <2>7. /\ old[expr.left] = program.nodes[expr.left].value
        /\ old[expr.right] = program.nodes[expr.right].value
    <3>1. /\ old[expr.left] = NodeMeaning("machine", env, old, program.nodes[expr.left])
          /\ old[expr.right] = NodeMeaning("machine", env, old, program.nodes[expr.right])
      BY <1>1, <2>6, MeaningUnfolds
    <3> QED
      BY <2>6, <3>1 DEF NodeMeaning, Operands
  <2>8. old[Root] = VMBinary("Plus", old[expr.left], old[expr.right])
    <3>1. old[Root] = NodeMeaning("machine", env, old, expr)
      BY <1>1, <1>2, MeaningUnfolds
    <3>2. 0 \notin Operands(expr)
      BY <1>2, <2>5 DEF Operands, IsLiteral
    <3> QED
      BY <1>2, <2>5, <3>1, <3>2 DEF NodeMeaning
  <2>9. old[Root] = v
    BY <2>5, <2>7, <2>8 DEF VMBinary, ArithOp
  <2>10. Head(program'.stmts) = n
    BY <2>1
  <2> QED
    BY <2>3, <2>9, <2>10
<1> QED
  BY <1>3, <1>4

\* FoldingKeepsMeaning: see the property.
THEOREM FoldingKeepsMeaningHolds == Spec => FoldingKeepsMeaning
<1>1. StateInv =>
        [ Rewrite => \A env \in {NoGlobals, SetIn(NoGlobals, 1, Num(1))} :
            MachineMeaning(env)'[Root'] = MachineMeaning(env)[Root] ]_vars
  <2> SUFFICES ASSUME StateInv, Rewrite, NEW env
               PROVE  MachineMeaning(env)'[Root'] = MachineMeaning(env)[Root]
    OBVIOUS
  <2>1. MachineMeaning(env)' = Meaning(program', "machine", env) /\ Root' = Head(program'.stmts)
    BY DEF MachineMeaning, Root
  <2> QED
    BY <2>1, RewriteKeepsMeaning DEF MachineMeaning
<1> QED
  BY StateInvHolds, <1>1, PTL DEF FoldingKeepsMeaning

(***************************************************************************)
(* The effect of a program, statement after statement.                     *)
(***************************************************************************)

\* f gives the effects of the first n statements.
Effects(p, f, n) ==
  f = [s \in 0 .. n |-> IF s = 0 THEN NoEffect ELSE StmtEffect(p, p.stmts[s], f[s - 1])]

LEMMA EffectsExist ==
  ASSUME NEW p, Compilable(p)
  PROVE  \E f : Effects(p, f, Len(p.stmts))
<1> DEFINE N == Len(p.stmts)
           Bad == {n \in Nat : n <= N /\ \A f : ~ Effects(p, f, n)}
<1>1. N \in Nat
  BY DEF Compilable
<1> SUFFICES ASSUME Bad # {} PROVE FALSE
  BY <1>1
<1>2. PICK m \in Bad : \A k \in Bad : m <= k
  BY LeastNatural
<1>3. CASE m = 0
  <2> DEFINE none == [s \in 0 .. 0 |-> NoEffect]
  <2>1. Effects(p, none, 0)
    BY DEF Effects
  <2> QED
    BY <1>2, <1>3, <2>1
<1>4. CASE m # 0
  <2>1. m - 1 \in Nat /\ m <= N /\ m - 1 \notin Bad
    BY <1>1, <1>2, <1>4
  <2>2. PICK f : Effects(p, f, m - 1)
    BY <1>1, <2>1
  <2>3. \A s \in 0 .. m - 1 :
          f[s] = IF s = 0 THEN NoEffect ELSE StmtEffect(p, p.stmts[s], f[s - 1])
    <3>1. f = [s \in 0 .. m - 1 |->
                 IF s = 0 THEN NoEffect ELSE StmtEffect(p, p.stmts[s], f[s - 1])]
      BY <2>2 DEF Effects
    <3> QED
      BY <3>1
  <2> DEFINE g == [s \in 0 .. m |->
                     IF s = 0 THEN NoEffect ELSE StmtEffect(p, p.stmts[s], f[s - 1])]
  <2>4. \A s \in 0 .. m - 1 : g[s] = f[s]
    BY <2>1, <2>3
  <2>5. \A s \in 0 .. m :
          g[s] = IF s = 0 THEN NoEffect ELSE StmtEffect(p, p.stmts[s], g[s - 1])
    <3> TAKE s \in 0 .. m
    <3>1. s # 0 => s - 1 \in 0 .. m - 1
      BY <2>1
    <3> QED
      BY <2>4, <3>1
  <2>6. g = [s \in 0 .. m |-> g[s]]
    OBVIOUS
  <2> HIDE DEF g
  <2>7. Effects(p, g, m)
    BY <2>5, <2>6 DEF Effects
  <2> QED
    BY <1>2, <2>7
<1> QED
  BY <1>3, <1>4

LEMMA EffectUnfolds ==
  ASSUME NEW p, Compilable(p)
  PROVE  /\ EffectOf(p)[0] = NoEffect
         /\ \A s \in 1 .. Len(p.stmts) :
              EffectOf(p)[s] = StmtEffect(p, p.stmts[s], EffectOf(p)[s - 1])
<1> DEFINE N == Len(p.stmts)
           Is(f) == f = [s \in 0 .. N |->
                           IF s = 0 THEN NoEffect ELSE StmtEffect(p, p.stmts[s], f[s - 1])]
           g == CHOOSE f : Is(f)
<1>1. EffectOf(p) = g
  BY DEF EffectOf
<1>2. PICK f : Effects(p, f, N)
  BY EffectsExist
<1>3. Is(f)
  BY <1>2 DEF Effects
<1>4. Is(g)
  BY <1>3
<1>5. N \in Nat
  BY DEF Compilable
<1> HIDE DEF g, N
<1>6. \A s \in 0 .. N :
        g[s] = IF s = 0 THEN NoEffect ELSE StmtEffect(p, p.stmts[s], g[s - 1])
  BY <1>4
<1> QED
  BY <1>1, <1>5, <1>6 DEF N

(***************************************************************************)
(* One instruction, and one item that the compiler has still to do, as a   *)
(* function of the stack and the globals.                                  *)
(***************************************************************************)

Env == UNION {[D -> Value] : D \in SUBSET String}

Snapshot == [stack : Seq(Value), globals : Env, done : BOOLEAN]

\* The values an instruction takes from the stack, and its length in bytes.
Need(op) ==
  CASE op \in BinaryCode \cup {OPCode.And, OPCode.Or}           -> 2
    [] op \in {OPCode.Negate, OPCode.Not, OPCode.SetGlobal}     -> 1
    [] op \in {OPCode.Return, OPCode.Constant, OPCode.GetGlobal} -> 0

Width(op) == IF op \in OperandCode THEN 2 ELSE 1

\* The value it pushes; its constant is v.
Computed(op, v, s, env) ==
  CASE op = OPCode.Constant     -> v
    [] op = OPCode.GetGlobal    -> ResolveGlobal(env, AsString(v))
    [] op = OPCode.Negate       -> Negated(s[Len(s)])
    [] op = OPCode.Not          -> Not(s[Len(s)])
    [] op = OPCode.And          -> VMLogical("And", s[Len(s) - 1], s[Len(s)])
    [] op = OPCode.Or           -> VMLogical("Or", s[Len(s) - 1], s[Len(s)])
    [] op \in BinaryCode        -> VMBinary(Token(op), s[Len(s) - 1], s[Len(s)])

Executed(op, v, st) ==
  LET s == st.stack
      env == st.globals
  IN  CASE st.done -> st
        [] ~ st.done /\ op = OPCode.Return ->
             [stack |-> s, globals |-> env, done |-> TRUE]
        [] ~ st.done /\ op = OPCode.SetGlobal ->
             [stack |-> SubSeq(s, 1, Len(s) - 1),
              globals |-> SetIn(env, AsString(v), s[Len(s)]), done |-> FALSE]
        [] OTHER ->
             [stack |-> Append(SubSeq(s, 1, Len(s) - Need(op)), Computed(op, v, s, env)),
              globals |-> env, done |-> FALSE]

Effect(p, item, st) ==
  CASE item.do = "visit"     -> StmtEffect(p, item.node, st)
    [] item.do = "emit"      -> Executed(item.op, Undefined, st)
    [] item.do = "emitValue" -> Executed(item.op, item.value, st)

\* The item finds on the stack what it takes.
Enough(item, st) == item.do = "visit" \/ st.done \/ Need(item.op) <= Len(st.stack)

LEMMA EnvSetFacts ==
  /\ NoGlobals \in Env
  /\ \A env \in Env : IsEnv(env)
  /\ \A env \in Env, n \in String, v \in Value : SetIn(env, n, v) \in Env
<1>1. NoGlobals \in Env
  <2>1. NoGlobals \in [{} -> Value]
    BY DEF NoGlobals
  <2> QED
    BY <2>1 DEF Env
<1>2. ASSUME NEW env \in Env
      PROVE  IsEnv(env)
  BY DEF Env, IsEnv
<1>3. ASSUME NEW env \in Env, NEW n \in String, NEW v \in Value
      PROVE  SetIn(env, n, v) \in Env
  <2>1. PICK D \in SUBSET String : env \in [D -> Value]
    BY DEF Env
  <2>2. SetIn(env, n, v) \in [D \cup {n} -> Value]
    BY <2>1 DEF SetIn
  <2> QED
    BY <2>1, <2>2 DEF Env
<1> QED
  BY <1>1, <1>2, <1>3

Push(st, v) ==
  [stack |-> Append(st.stack, v), globals |-> st.globals, done |-> st.done]

LEMMA PushFacts ==
  ASSUME NEW st \in Snapshot, NEW v \in Value
  PROVE  /\ Push(st, v) \in Snapshot
         /\ Push(st, v).stack = Append(st.stack, v)
         /\ Len(Push(st, v).stack) = Len(st.stack) + 1
         /\ Push(st, v).globals = st.globals
         /\ Push(st, v).done = st.done
  BY DEF Push, Snapshot

LEMMA StackFacts ==
  ASSUME NEW s \in Seq(Value), NEW v \in Value, NEW w \in Value
  PROVE  /\ SubSeq(s, 1, Len(s) - 0) = s
         /\ SubSeq(Append(s, v), 1, Len(Append(s, v)) - 1) = s
         /\ SubSeq(Append(Append(s, v), w), 1, Len(Append(Append(s, v), w)) - 2) = s
         /\ Append(s, v)[Len(Append(s, v))] = v
         /\ Append(Append(s, v), w)[Len(Append(Append(s, v), w))] = w
         /\ Append(Append(s, v), w)[Len(Append(Append(s, v), w)) - 1] = v
<1>1. SubSeq(s, 1, Len(s) - 0) = s
  OBVIOUS
<1>2. SubSeq(Append(s, v), 1, Len(Append(s, v)) - 1) = s
  OBVIOUS
<1>3. SubSeq(Append(Append(s, v), w), 1, Len(Append(Append(s, v), w)) - 2) = s
  OBVIOUS
<1> QED
  BY <1>1, <1>2, <1>3

LEMMA NeedFacts ==
  /\ \A op \in BinaryCode \cup {OPCode.And, OPCode.Or} : Need(op) = 2
  /\ \A op \in {OPCode.Negate, OPCode.Not, OPCode.SetGlobal} : Need(op) = 1
  /\ \A op \in {OPCode.Return, OPCode.Constant, OPCode.GetGlobal} : Need(op) = 0
  BY CodeSets, OpcodeFacts DEF Need

LEMMA ExecutedFacts ==
  ASSUME NEW st, ~ st.done, NEW v
  PROVE  /\ Executed(OPCode.Return, v, st)
              = [stack |-> st.stack, globals |-> st.globals, done |-> TRUE]
         /\ Executed(OPCode.SetGlobal, v, st)
              = [stack |-> SubSeq(st.stack, 1, Len(st.stack) - 1),
                 globals |-> SetIn(st.globals, AsString(v), st.stack[Len(st.stack)]),
                 done |-> FALSE]
         /\ \A op : op # OPCode.Return /\ op # OPCode.SetGlobal =>
              Executed(op, v, st)
                = [stack |-> Append(SubSeq(st.stack, 1, Len(st.stack) - Need(op)),
                                    Computed(op, v, st.stack, st.globals)),
                   globals |-> st.globals, done |-> FALSE]
<1>1. OPCode.Return # OPCode.SetGlobal
  BY OpcodeFacts
<1> QED
  BY <1>1 DEF Executed

LEMMA ComputedFacts ==
  ASSUME NEW v, NEW s, NEW env
  PROVE  /\ Computed(OPCode.Constant, v, s, env) = v
         /\ Computed(OPCode.GetGlobal, v, s, env) = ResolveGlobal(env, AsString(v))
         /\ Computed(OPCode.Negate, v, s, env) = Negated(s[Len(s)])
         /\ Computed(OPCode.Not, v, s, env) = Not(s[Len(s)])
         /\ Computed(OPCode.And, v, s, env) = VMLogical("And", s[Len(s) - 1], s[Len(s)])
         /\ Computed(OPCode.Or, v, s, env) = VMLogical("Or", s[Len(s) - 1], s[Len(s)])
         /\ \A op \in BinaryCode :
              Computed(op, v, s, env) = VMBinary(Token(op), s[Len(s) - 1], s[Len(s)])
<1>1. BinaryCode \cap {1, 2, 3, 8, 9, 10, 21, 22} = {}
  BY CodeSets
<1> QED
  BY <1>1, OpcodeFacts DEF Computed

\* What the instructions do to values that have just been pushed.
LEMMA PushExecuted ==
  ASSUME NEW st \in Snapshot, ~ st.done, NEW a \in Value, NEW b \in Value, NEW v \in Value
  PROVE  /\ Executed(OPCode.Constant, v, st) = Push(st, v)
         /\ Executed(OPCode.GetGlobal, v, st)
              = Push(st, ResolveGlobal(st.globals, AsString(v)))
         /\ Executed(OPCode.Negate, v, Push(st, a)) = Push(st, Negated(a))
         /\ Executed(OPCode.Not, v, Push(st, a)) = Push(st, Not(a))
         /\ Executed(OPCode.And, v, Push(Push(st, a), b)) = Push(st, VMLogical("And", a, b))
         /\ Executed(OPCode.Or, v, Push(Push(st, a), b)) = Push(st, VMLogical("Or", a, b))
         /\ \A op \in BinaryCode :
              Executed(op, v, Push(Push(st, a), b)) = Push(st, VMBinary(Token(op), a, b))
         /\ Executed(OPCode.SetGlobal, v, Push(st, a))
              = [stack |-> st.stack, globals |-> SetIn(st.globals, AsString(v), a), done |-> FALSE]
<1> DEFINE s == st.stack
           env == st.globals
           x == Push(st, a)
           y == Push(x, b)
           Pushed1(c) == [stack |-> Append(s, c), globals |-> env, done |-> FALSE]
<1>1. s \in Seq(Value) /\ st.done = FALSE
  BY DEF Snapshot
<1>2. \A c : Push(st, c) = Pushed1(c)
  BY <1>1 DEF Push
<1>3. x.stack = Append(s, a) /\ x.globals = env /\ x.done = FALSE
  BY <1>2
<1>4. y.stack = Append(Append(s, a), b) /\ y.globals = env /\ y.done = FALSE
  BY <1>3 DEF Push
<1>5. ~ st.done /\ ~ x.done /\ ~ y.done
  BY <1>3, <1>4
<1> HIDE DEF x, y
<1>6. /\ SubSeq(s, 1, Len(s) - 0) = s
      /\ SubSeq(x.stack, 1, Len(x.stack) - 1) = s
      /\ SubSeq(y.stack, 1, Len(y.stack) - 2) = s
      /\ x.stack[Len(x.stack)] = a
      /\ y.stack[Len(y.stack)] = b
      /\ y.stack[Len(y.stack) - 1] = a
  BY <1>1, <1>3, <1>4, StackFacts
<1>7. ASSUME NEW op, op # OPCode.Return, op # OPCode.SetGlobal, NEW z \in {st, x, y},
             SubSeq(z.stack, 1, Len(z.stack) - Need(op)) = s, z.globals = env
      PROVE  Executed(op, v, z) = Push(st, Computed(op, v, z.stack, env))
  <2>1. ~ z.done
    BY <1>5
  <2>2. Executed(op, v, z)
          = [stack |-> Append(SubSeq(z.stack, 1, Len(z.stack) - Need(op)),
                              Computed(op, v, z.stack, z.globals)),
             globals |-> z.globals, done |-> FALSE]
    BY <1>7, <2>1, ExecutedFacts
  <2> QED
    BY <1>2, <1>7, <2>2
<1>8. \A op \in {OPCode.Constant, OPCode.GetGlobal, OPCode.Negate, OPCode.Not, OPCode.And, OPCode.Or} :
        op # OPCode.Return /\ op # OPCode.SetGlobal
  BY OpcodeFacts
<1>9. /\ Executed(OPCode.Constant, v, st) = Push(st, v)
      /\ Executed(OPCode.GetGlobal, v, st) = Push(st, ResolveGlobal(env, AsString(v)))
  <2>1. /\ Executed(OPCode.Constant, v, st) = Push(st, Computed(OPCode.Constant, v, s, env))
        /\ Executed(OPCode.GetGlobal, v, st) = Push(st, Computed(OPCode.GetGlobal, v, s, env))
    BY <1>6, <1>7, <1>8, NeedFacts
  <2> QED
    BY <2>1, ComputedFacts
<1>10. /\ Executed(OPCode.Negate, v, x) = Push(st, Negated(a))
       /\ Executed(OPCode.Not, v, x) = Push(st, Not(a))
       /\ Executed(OPCode.And, v, y) = Push(st, VMLogical("And", a, b))
       /\ Executed(OPCode.Or, v, y) = Push(st, VMLogical("Or", a, b))
  <2>1. /\ Executed(OPCode.Negate, v, x) = Push(st, Computed(OPCode.Negate, v, x.stack, env))
        /\ Executed(OPCode.Not, v, x) = Push(st, Computed(OPCode.Not, v, x.stack, env))
    BY <1>3, <1>6, <1>7, <1>8, NeedFacts
  <2>2. /\ Executed(OPCode.And, v, y) = Push(st, Computed(OPCode.And, v, y.stack, env))
        /\ Executed(OPCode.Or, v, y) = Push(st, Computed(OPCode.Or, v, y.stack, env))
    BY <1>4, <1>6, <1>7, <1>8, NeedFacts
  <2> QED
    BY <1>6, <2>1, <2>2, ComputedFacts
<1>11. ASSUME NEW op \in BinaryCode
       PROVE  Executed(op, v, y) = Push(st, VMBinary(Token(op), a, b))
  <2>1. op # OPCode.Return /\ op # OPCode.SetGlobal /\ Need(op) = 2
    BY CodeSets, OpcodeFacts, NeedFacts
  <2>2. Executed(op, v, y) = Push(st, Computed(op, v, y.stack, env))
    BY <1>4, <1>6, <1>7, <2>1
  <2>3. Computed(op, v, y.stack, env) = VMBinary(Token(op), a, b)
    BY <1>6, ComputedFacts
  <2> QED
    BY <2>2, <2>3
<1>12. Executed(OPCode.SetGlobal, v, x)
         = [stack |-> s, globals |-> SetIn(env, AsString(v), a), done |-> FALSE]
  <2>1. Executed(OPCode.SetGlobal, v, x)
              = [stack |-> SubSeq(x.stack, 1, Len(x.stack) - 1),
                 globals |-> SetIn(x.globals, AsString(v), x.stack[Len(x.stack)]),
                 done |-> FALSE]
    BY <1>5, ExecutedFacts
  <2> QED
    BY <1>3, <1>6, <2>1
<1> QED
  BY <1>9, <1>10, <1>11, <1>12 DEF x, y

LEMMA ExceptFacts ==
  ASSUME NEW st \in Snapshot, NEW x
  PROVE  /\ [st EXCEPT !.stack = x] = [stack |-> x, globals |-> st.globals, done |-> st.done]
         /\ [st EXCEPT !.globals = x] = [stack |-> st.stack, globals |-> x, done |-> st.done]
         /\ [st EXCEPT !.done = x] = [stack |-> st.stack, globals |-> st.globals, done |-> x]
  BY DEF Snapshot

LEMMA VisitEffect ==
  ASSUME NEW p, Compilable(p), NEW i \in DOMAIN p.nodes, NEW st \in Snapshot
  PROVE  /\ st.done => StmtEffect(p, i, st) = st
         /\ ~ st.done /\ p.nodes[i].kind \in ExprKind =>
              /\ StmtEffect(p, i, st) = Push(st, Meaning(p, "machine", st.globals)[i])
              /\ Meaning(p, "machine", st.globals)[i] \in Value
<1> DEFINE v == Meaning(p, "machine", st.globals)[i]
<1>1. IsEnv(st.globals)
  BY EnvSetFacts DEF Snapshot
<1>2. v \in Value
  BY <1>1, MachineValues
<1>3. /\ p.nodes[i].kind \in ExprKind => p.nodes[i].kind \notin {"Return", "VarDecl"}
      /\ i # 0
  BY DEF ExprKind, Compilable
<1>4. ~ st.done /\ p.nodes[i].kind \in ExprKind =>
        StmtEffect(p, i, st) = [st EXCEPT !.stack = Append(st.stack, v)]
  BY <1>3 DEF StmtEffect
<1>5. [st EXCEPT !.stack = Append(st.stack, v)] = Push(st, v)
  BY ExceptFacts DEF Push
<1>6. st.done => StmtEffect(p, i, st) = st
  BY DEF StmtEffect
<1> QED
  BY <1>2, <1>4, <1>5, <1>6

(***************************************************************************)
(* What is left to do has an effect: w holds the state before each item,   *)
(* and after the last one.                                                 *)
(***************************************************************************)

Plan(p, S, items, w) ==
  /\ w \in [1 .. Len(items) + 1 -> Snapshot]
  /\ \A k \in 1 .. Len(items) :
       /\ items[k].do = "visit" => items[k].node \in S \cup {0}
       /\ Enough(items[k], w[k])
       /\ w[k + 1] = Effect(p, items[k], w[k])

\* One item takes state x to state y.
Takes(p, S, item, x, y) ==
  /\ item.do = "visit" => item.node \in S \cup {0}
  /\ Enough(item, x)
  /\ y = Effect(p, item, x)
  /\ x \in Snapshot /\ y \in Snapshot

LEMMA NoPlan ==
  ASSUME NEW p, NEW S, NEW x \in Snapshot
  PROVE  \E w : Plan(p, S, <<>>, w) /\ w[1] = x
<1> DEFINE w == [k \in 1 .. 1 |-> x]
<1>1. Plan(p, S, <<>>, w) /\ w[1] = x
  BY DEF Plan
<1> QED
  BY <1>1

LEMMA OneItemPlan ==
  ASSUME NEW p, NEW S, NEW x, NEW a, NEW y,
         Takes(p, S, a, x, y)
  PROVE  \E w : Plan(p, S, <<a>>, w) /\ w[1] = x /\ w[2] = y
<1> DEFINE items == <<a>>
           w == [k \in 1 .. 2 |-> IF k = 1 THEN x ELSE y]
<1>1. Len(items) = 1 /\ items[1] = a
  OBVIOUS
<1>2. w[1] = x /\ w[2] = y /\ w \in [1 .. 2 -> Snapshot]
  BY DEF Takes
<1> HIDE DEF items, w
<1>3. Plan(p, S, items, w)
  BY <1>1, <1>2 DEF Plan, Takes
<1> QED
  BY <1>2, <1>3 DEF items

LEMMA TwoItemsPlan ==
  ASSUME NEW p, NEW S, NEW x, NEW a, NEW b, NEW y, NEW z,
         Takes(p, S, a, x, y), Takes(p, S, b, y, z)
  PROVE  \E w : Plan(p, S, <<a, b>>, w) /\ w[1] = x /\ w[3] = z
<1> DEFINE items == <<a, b>>
           w == [k \in 1 .. 3 |-> IF k = 1 THEN x ELSE IF k = 2 THEN y ELSE z]
<1>1. Len(items) = 2 /\ items[1] = a /\ items[2] = b
  OBVIOUS
<1>2. w[1] = x /\ w[2] = y /\ w[3] = z /\ w \in [1 .. 3 -> Snapshot]
  BY DEF Takes
<1> HIDE DEF items, w
<1>3. Plan(p, S, items, w)
  BY <1>1, <1>2 DEF Plan, Takes
<1> QED
  BY <1>2, <1>3 DEF items

LEMMA ThreeItemsPlan ==
  ASSUME NEW p, NEW S, NEW x, NEW a, NEW b, NEW c, NEW y, NEW z, NEW u,
         Takes(p, S, a, x, y), Takes(p, S, b, y, z), Takes(p, S, c, z, u)
  PROVE  \E w : Plan(p, S, <<a, b, c>>, w) /\ w[1] = x /\ w[4] = u
<1> DEFINE items == <<a, b, c>>
           w == [k \in 1 .. 4 |-> IF k = 1 THEN x ELSE IF k = 2 THEN y ELSE IF k = 3 THEN z ELSE u]
<1>1. Len(items) = 3 /\ items[1] = a /\ items[2] = b /\ items[3] = c
  OBVIOUS
<1>2. w[1] = x /\ w[2] = y /\ w[3] = z /\ w[4] = u /\ w \in [1 .. 4 -> Snapshot]
  BY DEF Takes
<1> HIDE DEF items, w
<1>3. Plan(p, S, items, w)
  BY <1>1, <1>2 DEF Plan, Takes
<1> QED
  BY <1>2, <1>3 DEF items

LEMMA ItemEffects ==
  ASSUME NEW p, NEW x
  PROVE  /\ \A i : Effect(p, Visit(i), x) = StmtEffect(p, i, x) /\ Enough(Visit(i), x)
         /\ \A op : /\ Effect(p, Emit(op), x) = Executed(op, Undefined, x)
                    /\ Emit(op).do = "emit" /\ Emit(op).op = op
         /\ \A op, v : /\ Effect(p, EmitValue(op, v), x) = Executed(op, v, x)
                       /\ EmitValue(op, v).do = "emitValue" /\ EmitValue(op, v).op = op
         /\ \A i : Visit(i).do = "visit" /\ Visit(i).node = i
  BY DEF Effect, Visit, Emit, EmitValue, Enough

LEMMA EmitTakes ==
  ASSUME NEW p, NEW S, NEW op, NEW x \in Snapshot, NEW y \in Snapshot, Need(op) <= Len(x.stack)
  PROVE  /\ Executed(op, Undefined, x) = y => Takes(p, S, Emit(op), x, y)
         /\ \A v : Executed(op, v, x) = y => Takes(p, S, EmitValue(op, v), x, y)
<1>1. Executed(op, Undefined, x) = y => Takes(p, S, Emit(op), x, y)
  BY DEF Takes, Emit, Enough, Effect
<1>2. ASSUME NEW v, Executed(op, v, x) = y
      PROVE  Takes(p, S, EmitValue(op, v), x, y)
  BY <1>2 DEF Takes, EmitValue, Enough, Effect
<1> QED
  BY <1>1, <1>2

\* A visit to an operand pushes its value.
LEMMA OperandTakes ==
  ASSUME NEW p, Compilable(p), NEW S, Whole(p, S), NEW i \in S,
         NEW k \in Operands(p.nodes[i]), NEW x \in Snapshot, ~ x.done
  PROVE  LET v == Meaning(p, "machine", x.globals)[k]
         IN  /\ v \in Value
             /\ Push(x, v) \in Snapshot /\ ~ Push(x, v).done
             /\ Push(x, v).globals = x.globals
             /\ Takes(p, S, Visit(k), x, Push(x, v))
<1> DEFINE v == Meaning(p, "machine", x.globals)[k]
<1>1. k \in S /\ k \in DOMAIN p.nodes /\ p.nodes[k].kind \in ExprKind
  <2>1. k \in S /\ k \in DOMAIN p.nodes /\ i \in DOMAIN p.nodes
    BY DEF Whole
  <2>2. k # 0
    BY <2>1 DEF Compilable
  <2> QED
    BY <2>1, <2>2, OperandFacts
<1>2. StmtEffect(p, k, x) = Push(x, v) /\ v \in Value
  BY <1>1, VisitEffect
<1>3. /\ Push(x, v) \in Snapshot /\ Push(x, v).done = x.done
      /\ Push(x, v).globals = x.globals
  BY <1>2, PushFacts
<1>4. Takes(p, S, Visit(k), x, Push(x, v))
  BY <1>1, <1>2, <1>3, ItemEffects DEF Takes
<1> QED
  BY <1>2, <1>3, <1>4

LEMMA ExpansionVisits ==
  ASSUME NEW p, NEW i, NEW k \in DOMAIN Expansion(p, i), Expansion(p, i)[k].do = "visit"
  PROVE  i # 0 /\ Expansion(p, i)[k].node \in Operands(p.nodes[i])
  BY DEF Expansion, Operands, Visit, Emit, EmitValue

\* What takes the place of a visit has the effect of the visit.
LEMMA ExpansionPlan ==
  ASSUME NEW p, Compilable(p), NEW S, Whole(p, S), NEW i \in S \cup {0}, NEW x \in Snapshot
  PROVE  \E w : /\ Plan(p, S, Expansion(p, i), w)
                /\ w[1] = x
                /\ w[Len(Expansion(p, i)) + 1] = StmtEffect(p, i, x)
<1> DEFINE here == p.nodes[i]
           e == Expansion(p, i)
           value == Meaning(p, "machine", x.globals)
           y == StmtEffect(p, i, x)
           Goal == \E w : Plan(p, S, e, w) /\ w[1] = x /\ w[Len(e) + 1] = y
<1>0. CASE i = 0
  <2>1. e = <<>> /\ y = x
    BY <1>0 DEF Expansion, StmtEffect
  <2> HIDE DEF e, y
  <2>2. Goal
    BY <2>1, NoPlan
  <2> QED
    BY <2>2 DEF e, y
<1> SUFFICES ASSUME i # 0 PROVE Goal
  BY <1>0
<1>1. /\ i \in DOMAIN p.nodes /\ here \in ASTNode(String, Value)
      /\ here.kind \notin {"Assign", "Call"} /\ Operands(here) \subseteq S
      /\ 0 \notin Operands(here)
  BY DEF Whole, Compilable
<1>2. CASE x.done
  <2> DEFINE w == [k \in 1 .. Len(e) + 1 |-> x]
  <2>1. e \in Seq(Items(p))
    BY <1>1, ExpansionItems
  <2>2. y = x
    BY <1>1, <1>2, VisitEffect
  <2>3. ASSUME NEW k \in 1 .. Len(e)
        PROVE  /\ e[k].do = "visit" => e[k].node \in S \cup {0}
               /\ Enough(e[k], x)
               /\ x = Effect(p, e[k], x)
    <3>1. e[k] \in Items(p)
      BY <2>1
    <3>2. \A op, v : Executed(op, v, x) = x
      BY <1>2 DEF Executed
    <3>3. CASE e[k].do = "visit"
      <4>1. e[k].node \in Operands(here)
        <5>1. k \in DOMAIN e
          BY <2>1
        <5> QED
          BY <3>3, <5>1, ExpansionVisits
      <4>2. e[k].node \in S /\ e[k].node \in DOMAIN p.nodes
        BY <1>1, <4>1 DEF Whole
      <4>3. StmtEffect(p, e[k].node, x) = x
        BY <1>2, <4>2, VisitEffect
      <4> QED
        BY <3>3, <4>2, <4>3 DEF Effect, Enough
    <3>4. CASE e[k].do # "visit"
      BY <1>2, <3>1, <3>2, <3>4 DEF Effect, Enough, Items, Visit, Emit, EmitValue
    <3> QED
      BY <3>3, <3>4
  <2>4. Len(e) \in Nat
    BY <2>1
  <2>5. w \in [1 .. Len(e) + 1 -> Snapshot] /\ \A k \in 1 .. Len(e) + 1 : w[k] = x
    OBVIOUS
  <2> HIDE DEF e, w, y
  <2>6. Plan(p, S, e, w) /\ w[1] = x /\ w[Len(e) + 1] = y
    BY <2>2, <2>3, <2>4, <2>5 DEF Plan
  <2> QED
    BY <2>6 DEF e, y
<1>3. CASE ~ x.done
  <2> SUFFICES Goal
    OBVIOUS
  <2>1. \A k \in Operands(here) :
          /\ value[k] \in Value
          /\ Push(x, value[k]) \in Snapshot /\ ~ Push(x, value[k]).done
          /\ Push(x, value[k]).globals = x.globals
          /\ Takes(p, S, Visit(k), x, Push(x, value[k]))
    BY <1>3, OperandTakes
  <2>2. here.kind \in ExprKind =>
          /\ y = Push(x, value[i]) /\ value[i] \in Value
          /\ value[i] = NodeMeaning("machine", x.globals, value, here)
          /\ y \in Snapshot
    BY <1>1, <1>3, VisitEffect, MeaningUnfolds, PushFacts
  <2>3. Len(x.stack) \in Nat
    BY DEF Snapshot
  <2> HIDE DEF e, y, value
  <2>4. ASSUME NEW a,
              e = <<a>>, Takes(p, S, a, x, y)
       PROVE  Goal
    <3>1. PICK w : Plan(p, S, <<a>>, w) /\ w[1] = x /\ w[2] = y
      BY <2>4, OneItemPlan
    <3>2. Len(e) = 1
      BY <2>4
    <3> QED
      BY <2>4, <3>1, <3>2
  <2>5. ASSUME NEW a, NEW b, NEW z,
              e = <<a, b>>, Takes(p, S, a, x, z), Takes(p, S, b, z, y)
       PROVE  Goal
    <3>1. PICK w : Plan(p, S, <<a, b>>, w) /\ w[1] = x /\ w[3] = y
      BY <2>5, TwoItemsPlan
    <3>2. Len(e) = 2
      BY <2>5
    <3> QED
      BY <2>5, <3>1, <3>2
  <2>6. ASSUME NEW a, NEW b, NEW c, NEW z, NEW u,
              e = <<a, b, c>>, Takes(p, S, a, x, z), Takes(p, S, b, z, u), Takes(p, S, c, u, y)
       PROVE  Goal
    <3>1. PICK w : Plan(p, S, <<a, b, c>>, w) /\ w[1] = x /\ w[4] = y
      BY <2>6, ThreeItemsPlan
    <3>2. Len(e) = 3
      BY <2>6
    <3> QED
      BY <2>6, <3>1, <3>2
  <2> HIDE DEF Goal
  <2>7. Undefined \in Value
    BY ValueFacts
  <2>8. CASE here.kind = "Literal"
    <3> DEFINE v == here.value
    <3>1. e = <<EmitValue(OPCode.Constant, v)>> /\ here.kind \in ExprKind
      BY <2>8 DEF Expansion, ExprKind, e
    <3>2. v \in Value /\ value[i] = v
      BY <1>1, <2>2, <2>8, <3>1, NodeFacts DEF NodeMeaning
    <3> HIDE DEF v
    <3>3. Executed(OPCode.Constant, v, x) = Push(x, v)
      BY <1>3, <3>2, PushExecuted
    <3>4. Takes(p, S, EmitValue(OPCode.Constant, v), x, y)
      BY <2>2, <2>3, <3>1, <3>2, <3>3, EmitTakes, NeedFacts
    <3> QED
      BY <2>4, <3>1, <3>4
  <2>9. CASE here.kind = "Var"
    <3> DEFINE v == Str(here.name)
    <3>1. e = <<EmitValue(OPCode.GetGlobal, v)>> /\ here.kind \in ExprKind
      BY <2>9 DEF Expansion, ExprKind, e
    <3>2. v \in Value /\ value[i] = ResolveGlobal(x.globals, AsString(v))
      BY <1>1, <2>2, <2>9, <3>1, NodeFacts, ValueFacts DEF NodeMeaning
    <3> HIDE DEF v
    <3>3. Executed(OPCode.GetGlobal, v, x) = Push(x, ResolveGlobal(x.globals, AsString(v)))
      BY <1>3, <3>2, PushExecuted
    <3>4. Takes(p, S, EmitValue(OPCode.GetGlobal, v), x, y)
      BY <2>2, <2>3, <3>1, <3>2, <3>3, EmitTakes, NeedFacts
    <3> QED
      BY <2>4, <3>1, <3>4
  <2>10. CASE here.kind = "Grouping"
    <3>1. e = <<Visit(here.expr)>> /\ here.kind \in ExprKind /\ here.expr \in Operands(here)
      BY <2>10 DEF Expansion, ExprKind, Operands, e
    <3>2. value[i] = value[here.expr]
      BY <1>1, <2>2, <2>10, <3>1 DEF NodeMeaning
    <3>3. Takes(p, S, Visit(here.expr), x, y)
      BY <2>1, <2>2, <3>1, <3>2
    <3> QED
      BY <2>4, <3>1, <3>3
  <2>11. CASE here.kind = "Unary"
    <3> DEFINE a == value[here.right]
               op == UnaryOpcode[here.op]
               x1 == Push(x, a)
    <3>1. e = <<Visit(here.right), Emit(op)>> /\ here.kind \in ExprKind /\ here.right \in Operands(here)
      BY <2>11 DEF Expansion, ExprKind, Operands, e
    <3>2. here.op \in UnaryOp
      BY <1>1, <2>11, NodeFacts
    <3>3. a \in Value /\ x1 \in Snapshot /\ Takes(p, S, Visit(here.right), x, x1)
      BY <2>1, <3>1
    <3>4. value[i] = IF here.op = "Bang" THEN Not(a) ELSE Negated(a)
      BY <1>1, <2>2, <2>11, <3>1 DEF NodeMeaning
    <3>5. Need(op) = 1 /\ op = IF here.op = "Bang" THEN OPCode.Not ELSE OPCode.Negate
      BY <3>2, NeedFacts DEF UnaryOp, UnaryOpcode
    <3>6. Executed(op, Undefined, x1) = y
      <4> HIDE DEF a, op
      <4>2. /\ Executed(OPCode.Not, Undefined, Push(x, a)) = Push(x, Not(a))
            /\ Executed(OPCode.Negate, Undefined, Push(x, a)) = Push(x, Negated(a))
        BY <1>3, <2>7, <3>3, PushExecuted
      <4> QED
        BY <2>2, <3>1, <3>4, <3>5, <4>2
    <3>7. Len(x1.stack) = Len(x.stack) + 1
      BY <3>3, PushFacts
    <3> HIDE DEF a, op, x1
    <3>8. y \in Snapshot /\ Need(op) <= Len(x1.stack)
      BY <2>2, <2>3, <3>1, <3>5, <3>7
    <3>9. Takes(p, S, Emit(op), x1, y)
      BY <3>3, <3>6, <3>8, EmitTakes
    <3> QED
      BY <2>5, <3>1, <3>3, <3>9
  <2>12. CASE here.kind \in {"Binary", "Logical"}
    <3> DEFINE a == value[here.left]
               b == value[here.right]
               op == IF here.kind = "Binary" THEN BinaryOpcode[here.op] ELSE LogicalOpcode[here.op]
               x1 == Push(x, a)
               x2 == Push(x1, b)
    <3>1. /\ e = <<Visit(here.left), Visit(here.right), Emit(op)>> /\ here.kind \in ExprKind
          /\ here.left \in Operands(here) /\ here.right \in Operands(here)
      BY <2>12 DEF Expansion, ExprKind, Operands, e
    <3>2. /\ here.kind = "Binary" => here.op \in BinaryOp
          /\ here.kind = "Logical" => here.op \in LogicalOp
      BY <1>1, <2>12, NodeFacts
    <3>3. /\ a \in Value /\ x1 \in Snapshot /\ ~ x1.done /\ x1.globals = x.globals
          /\ Takes(p, S, Visit(here.left), x, x1)
      BY <2>1, <3>1
    <3>4. /\ b \in Value /\ x2 \in Snapshot
          /\ Takes(p, S, Visit(here.right), x1, x2)
      <4>1. Meaning(p, "machine", x1.globals)[here.right] = b
        BY <3>3 DEF value
      <4> HIDE DEF x1, b
      <4>2. b \in Value /\ Push(x1, b) \in Snapshot
            /\ Takes(p, S, Visit(here.right), x1, Push(x1, b))
        BY <3>1, <3>3, <4>1, OperandTakes
      <4> QED
        BY <4>2
    <3>5. a \in Value /\ b \in Value
      BY <3>3, <3>4
    <3>6. Need(op) = 2
      BY <2>12, <3>2, OperatorCodes, NeedFacts
    <3>7. Executed(op, Undefined, x2) = y
      <4>1. CASE here.kind = "Binary"
        <5>1. value[i] = VMBinary(here.op, a, b)
          BY <1>1, <2>2, <3>1, <4>1 DEF NodeMeaning
        <5>2. op \in BinaryCode /\ Token(op) = here.op
          BY <3>2, <4>1, OperatorCodes
        <5> HIDE DEF a, b, op
        <5>3. Executed(op, Undefined, x2) = Push(x, VMBinary(Token(op), a, b))
          BY <1>3, <2>7, <3>5, <5>2, PushExecuted
        <5> QED
          BY <2>2, <3>1, <5>1, <5>2, <5>3
      <4>2. CASE here.kind = "Logical"
        <5>1. value[i] = VMLogical(here.op, a, b)
          BY <1>1, <2>2, <3>1, <4>2 DEF NodeMeaning
        <5>2. here.op \in {"And", "Or"}
              /\ op = IF here.op = "And" THEN OPCode.And ELSE OPCode.Or
          BY <3>2, <4>2 DEF LogicalOp, LogicalOpcode
        <5> HIDE DEF a, b, op
        <5>3. /\ Executed(OPCode.And, Undefined, x2) = Push(x, VMLogical("And", a, b))
              /\ Executed(OPCode.Or, Undefined, x2) = Push(x, VMLogical("Or", a, b))
          BY <1>3, <2>7, <3>5, PushExecuted
        <5> QED
          BY <2>2, <3>1, <5>1, <5>2, <5>3
      <4> QED
        BY <2>12, <4>1, <4>2
    <3>8. Len(x2.stack) = Len(x.stack) + 2
      <4> HIDE DEF a, b
      <4>1. Len(x1.stack) = Len(x.stack) + 1
        BY <3>3, PushFacts
      <4> HIDE DEF x1
      <4>2. Len(x2.stack) = Len(x1.stack) + 1
        BY <3>3, <3>4, PushFacts
      <4> QED
        BY <2>3, <4>1, <4>2
    <3> HIDE DEF a, b, op, x1, x2
    <3>9. y \in Snapshot /\ Need(op) <= Len(x2.stack)
      BY <2>2, <2>3, <3>1, <3>6, <3>8
    <3>10. Takes(p, S, Emit(op), x2, y)
      BY <3>4, <3>7, <3>9, EmitTakes
    <3> QED
      BY <2>6, <3>1, <3>3, <3>4, <3>10
  <2>13. CASE here.kind = "VarDecl"
    <3> DEFINE a == IF here.init = 0 THEN Undefined ELSE value[here.init]
               item == IF here.init # 0 THEN Visit(here.init) ELSE EmitValue(OPCode.Constant, Undefined)
               n == Str(here.name)
               x1 == Push(x, a)
    <3>1. e = <<item, EmitValue(OPCode.SetGlobal, n)>>
          /\ (here.init # 0 => here.init \in Operands(here))
      BY <2>13 DEF Expansion, Operands, e
    <3>2. here.name \in String
      BY <1>1, <2>13, NodeFacts
    <3>3. n \in Value /\ AsString(n) = here.name
      BY <3>2, ValueFacts
    <3>4. a \in Value /\ x1 \in Snapshot /\ Takes(p, S, item, x, x1)
      <4>1. CASE here.init # 0
        BY <2>1, <3>1, <4>1
      <4>2. CASE here.init = 0
        <5>1. Push(x, Undefined) \in Snapshot
          BY <2>7, PushFacts
        <5>2. Executed(OPCode.Constant, Undefined, x) = Push(x, Undefined)
          BY <1>3, <2>7, PushExecuted
        <5>3. Takes(p, S, EmitValue(OPCode.Constant, Undefined), x, Push(x, Undefined))
          BY <2>3, <5>1, <5>2, EmitTakes, NeedFacts
        <5> QED
          BY <2>7, <4>2, <5>1, <5>3
      <4> QED
        BY <4>1, <4>2
    <3>5. y = [x EXCEPT !.globals = SetIn(x.globals, here.name, a)]
      BY <1>3, <2>13 DEF y, value, StmtEffect, ExprKind
    <3> HIDE DEF a, n, item
    <3>6. y = [stack |-> x.stack, globals |-> SetIn(x.globals, AsString(n), a), done |-> FALSE]
      <4>1. x.done = FALSE
        BY <1>3 DEF Snapshot
      <4> QED
        BY <3>3, <3>5, <4>1, ExceptFacts
    <3>7. Executed(OPCode.SetGlobal, n, x1) = y
      BY <1>3, <3>3, <3>4, <3>6, PushExecuted
    <3>8. y \in Snapshot
      <4>1. SetIn(x.globals, AsString(n), a) \in Env
        BY <3>2, <3>3, <3>4, EnvSetFacts DEF Snapshot
      <4> QED
        BY <3>6, <4>1 DEF Snapshot
    <3>9. Need(OPCode.SetGlobal) <= Len(x1.stack)
      <4>1. Len(x1.stack) = Len(x.stack) + 1
        BY <3>4, PushFacts
      <4> QED
        BY <2>3, <4>1, NeedFacts
    <3>10. Takes(p, S, EmitValue(OPCode.SetGlobal, n), x1, y)
      BY <3>4, <3>7, <3>8, <3>9, EmitTakes
    <3> HIDE DEF x1
    <3> QED
      BY <2>5, <3>1, <3>4, <3>10
  <2>14. CASE here.kind = "Return"
    <3>1. e = <<Emit(OPCode.Return)>>
      BY <2>14 DEF Expansion, e
    <3>2. y = [stack |-> x.stack, globals |-> x.globals, done |-> TRUE]
      <4>1. y = [x EXCEPT !.done = TRUE]
        BY <1>3, <2>14 DEF y, StmtEffect, ExprKind
      <4> QED
        BY <4>1, ExceptFacts
    <3>3. Executed(OPCode.Return, Undefined, x) = y
      BY <1>3, <3>2, ExecutedFacts
    <3>4. y \in Snapshot
      BY <3>2 DEF Snapshot
    <3>5. Need(OPCode.Return) <= Len(x.stack)
      BY <2>3, NeedFacts
    <3>6. Takes(p, S, Emit(OPCode.Return), x, y)
      BY <3>3, <3>4, <3>5, EmitTakes
    <3> QED
      BY <2>4, <3>1, <3>6
  <2>15. CASE here.kind \notin {"Literal", "Var", "Grouping", "Unary", "Binary", "Logical",
                               "VarDecl", "Return"}
    <3>1. e = <<>>
      BY <2>15 DEF Expansion, e
    <3>2. y = x
      BY <1>1, <1>3, <2>15 DEF y, StmtEffect, ExprKind
    <3> QED
      BY <3>1, <3>2, NoPlan DEF Goal
  <2> QED
    BY <2>8, <2>9, <2>10, <2>11, <2>12, <2>13, <2>14, <2>15
<1> QED
  BY <1>2, <1>3

\* A plan without its first item, and with a visit at its head expanded.
LEMMA PlanTail ==
  ASSUME NEW p, NEW S, NEW items \in Seq(Items(p)), items # <<>>, NEW w, Plan(p, S, items, w)
  PROVE  LET rest == [k \in 1 .. Len(items) |-> w[k + 1]]
         IN  /\ Plan(p, S, Tail(items), rest)
             /\ rest[1] = w[2]
             /\ rest[Len(Tail(items)) + 1] = w[Len(items) + 1]
<1> DEFINE n == Len(items)
           rest == [k \in 1 .. n |-> w[k + 1]]
<1>1. n \in Nat /\ n >= 1 /\ Len(Tail(items)) = n - 1 /\ \A k \in 1 .. n - 1 : Tail(items)[k] = items[k + 1]
  OBVIOUS
<1>2. w \in [1 .. n + 1 -> Snapshot]
  BY DEF Plan
<1>3. \A k \in 1 .. n : rest[k] = w[k + 1]
  OBVIOUS
<1>4. rest \in [1 .. n -> Snapshot]
  BY <1>1, <1>2
<1> HIDE DEF rest
<1>5. ASSUME NEW k \in 1 .. n - 1
      PROVE  /\ Tail(items)[k].do = "visit" => Tail(items)[k].node \in S \cup {0}
             /\ Enough(Tail(items)[k], rest[k])
             /\ rest[k + 1] = Effect(p, Tail(items)[k], rest[k])
  <2>1. k + 1 \in 1 .. n /\ k \in 1 .. n /\ (k + 1) + 1 \in 1 .. n + 1
    BY <1>1
  <2>2. rest[k] = w[k + 1] /\ rest[k + 1] = w[(k + 1) + 1] /\ Tail(items)[k] = items[k + 1]
    BY <1>1, <1>3, <2>1
  <2> QED
    BY <2>1, <2>2 DEF Plan
<1>6. (n - 1) + 1 = n /\ 1 \in 1 .. n /\ n \in 1 .. n
  BY <1>1
<1>7. Plan(p, S, Tail(items), rest)
  BY <1>1, <1>4, <1>5, <1>6 DEF Plan
<1>8. rest[1] = w[2] /\ rest[n] = w[n + 1]
  BY <1>1, <1>3, <1>6
<1> QED
  BY <1>1, <1>6, <1>7, <1>8 DEF rest

LEMMA PlanExpanded ==
  ASSUME NEW p, Compilable(p), NEW S, Whole(p, S),
         NEW items \in Seq(Items(p)), items # <<>>, NEW w, Plan(p, S, items, w),
         Head(items).do = "visit"
  PROVE  LET more == Expansion(p, Head(items).node) \o Tail(items)
         IN  \E w2 : /\ Plan(p, S, more, w2)
                     /\ w2[1] = w[1]
                     /\ w2[Len(more) + 1] = w[Len(items) + 1]
<1> DEFINE n == Len(items)
           i == Head(items).node
           e == Expansion(p, i)
           m == Len(e)
           more == e \o Tail(items)
<1>1. /\ n \in Nat /\ n >= 1 /\ Len(Tail(items)) = n - 1
      /\ \A k \in 1 .. n - 1 : Tail(items)[k] = items[k + 1]
      /\ items[1] = Head(items) /\ 1 \in 1 .. n
      /\ Tail(items) \in Seq(Items(p))
  OBVIOUS
<1>2. w \in [1 .. n + 1 -> Snapshot] /\ i \in S \cup {0} /\ w[1] \in Snapshot
      /\ w[2] = Effect(p, items[1], w[1])
  BY <1>1 DEF Plan
<1>3. w[2] = StmtEffect(p, i, w[1])
  BY <1>1, <1>2 DEF Effect
<1>4. PICK u : Plan(p, S, e, u) /\ u[1] = w[1] /\ u[m + 1] = w[2]
  BY <1>2, <1>3, ExpansionPlan
<1>5. e \in Seq(Items(p))
  BY <1>2, ExpansionItems DEF Whole
<1>6. m \in Nat /\ u \in [1 .. m + 1 -> Snapshot]
  BY <1>4, <1>5 DEF Plan
<1>7. /\ Len(more) = m + (n - 1)
      /\ \A k \in 1 .. m : more[k] = e[k]
      /\ \A k \in m + 1 .. m + (n - 1) : more[k] = items[(k - m) + 1]
  <2>1. /\ Len(more) = m + (n - 1)
        /\ \A k \in 1 .. m : more[k] = e[k]
        /\ \A k \in m + 1 .. m + (n - 1) : more[k] = Tail(items)[k - m]
    BY <1>1, <1>5, <1>6
  <2>2. \A k \in m + 1 .. m + (n - 1) : k - m \in 1 .. n - 1
    BY <1>1, <1>6
  <2> QED
    BY <1>1, <2>1, <2>2
<1> DEFINE w2 == [k \in 1 .. m + n |-> IF k <= m THEN u[k] ELSE w[(k - m) + 1]]
<1>8. /\ \A k \in 1 .. m : w2[k] = u[k]
      /\ \A k \in m + 1 .. m + n : w2[k] = w[(k - m) + 1]
      /\ w2 \in [1 .. m + n -> Snapshot]
  <2>1. \A k \in 1 .. m : k \in 1 .. m + n /\ k <= m /\ k \in 1 .. m + 1
    BY <1>1, <1>6
  <2>2. \A k \in m + 1 .. m + n : k \in 1 .. m + n /\ ~ (k <= m) /\ (k - m) + 1 \in 1 .. n + 1
    BY <1>1, <1>6
  <2>3. \A k \in 1 .. m + n : k \in 1 .. m \/ k \in m + 1 .. m + n
    BY <1>1, <1>6
  <2> QED
    BY <1>2, <1>6, <2>1, <2>2, <2>3
<1>9. w2[m + 1] = w[2] /\ w2[m + 1] = u[m + 1] /\ w2[1] = w[1] /\ w2[m + n] = w[n + 1]
  <2>1. m + 1 \in m + 1 .. m + n /\ m + n \in m + 1 .. m + n
        /\ ((m + 1) - m) + 1 = 2 /\ ((m + n) - m) + 1 = n + 1
    BY <1>1, <1>6
  <2>2. w2[m + 1] = w[2] /\ w2[m + n] = w[n + 1]
    BY <1>8, <2>1
  <2>3. CASE m = 0
    BY <1>4, <1>6, <2>2, <2>3
  <2>4. CASE m # 0
    <3>1. 1 \in 1 .. m
      BY <1>6, <2>4
    <3> QED
      BY <1>4, <1>8, <2>2, <3>1
  <2> QED
    BY <1>4, <2>2, <2>3, <2>4
<1> HIDE DEF e, i, more, w2, m, n
<1>10. ASSUME NEW k \in 1 .. m + (n - 1)
       PROVE  /\ more[k].do = "visit" => more[k].node \in S \cup {0}
              /\ Enough(more[k], w2[k])
              /\ w2[k + 1] = Effect(p, more[k], w2[k])
  <2>1. CASE k \in 1 .. m
    <3>1. w2[k] = u[k] /\ more[k] = e[k] /\ w2[k + 1] = u[k + 1]
      <4>1. k + 1 \in 1 .. m \/ k + 1 = m + 1
        BY <1>6, <2>1
      <4> QED
        BY <1>7, <1>8, <1>9, <2>1, <4>1
    <3> QED
      BY <1>4, <2>1, <3>1 DEF Plan, m
  <2>2. CASE k \in m + 1 .. m + (n - 1)
    <3> DEFINE j == (k - m) + 1
    <3>1. /\ k \in m + 1 .. m + n /\ k + 1 \in m + 1 .. m + n
          /\ j \in 1 .. n /\ ((k + 1) - m) + 1 = j + 1
      BY <1>1, <1>6, <2>2
    <3>2. w2[k] = w[j] /\ more[k] = items[j] /\ w2[k + 1] = w[j + 1]
      BY <1>7, <1>8, <2>2, <3>1
    <3> HIDE DEF j
    <3> QED
      BY <3>1, <3>2 DEF Plan, n
  <2>3. k \in 1 .. m \/ k \in m + 1 .. m + (n - 1)
    BY <1>1, <1>6
  <2> QED
    BY <2>1, <2>2, <2>3
<1>11. Len(more) + 1 = m + n
  BY <1>1, <1>6, <1>7
<1>12. Plan(p, S, more, w2)
  BY <1>7, <1>8, <1>10, <1>11 DEF Plan
<1> QED
  BY <1>9, <1>11, <1>12 DEF more, e, i, n

\* The visits to all statements have the effect of the program.
LEMMA ProgramPlan ==
  ASSUME NEW p, Compilable(p), NEW S, Whole(p, S),
         \A k \in DOMAIN p.stmts : p.stmts[k] \in S \cup {0},
         NEW items, items = [k \in DOMAIN p.stmts |-> Visit(p.stmts[k])]
  PROVE  \E w : /\ Plan(p, S, items, w)
                /\ w[1] = NoEffect
                /\ w[Len(items) + 1] = EffectOf(p)[Len(p.stmts)]
<1> DEFINE n == Len(p.stmts)
           eff == EffectOf(p)
           w == [k \in 1 .. n + 1 |-> eff[k - 1]]
<1>1. n \in Nat /\ DOMAIN p.stmts = 1 .. n
  BY DEF Compilable
<1>2. /\ Len(items) = n
      /\ \A k \in 1 .. n : items[k] = Visit(p.stmts[k])
  BY <1>1
<1>3. eff[0] = NoEffect /\ \A k \in 1 .. n : eff[k] = StmtEffect(p, p.stmts[k], eff[k - 1])
  BY EffectUnfolds
<1> HIDE DEF eff, n
<1>4. NoEffect \in Snapshot
  <2>1. <<>> \in Seq(Value) /\ NoGlobals \in Env
    BY EnvSetFacts
  <2> QED
    BY <2>1 DEF NoEffect, Snapshot
<1>5. \A k \in 0 .. n : eff[k] \in Snapshot
  <2> DEFINE Bad == {k \in 0 .. n : eff[k] \notin Snapshot}
  <2> SUFFICES ASSUME Bad # {} PROVE FALSE
    OBVIOUS
  <2>1. Bad \in SUBSET Nat
    BY <1>1
  <2>2. PICK k \in Bad : \A j \in Bad : k <= j
    BY <2>1, LeastNatural
  <2>3. k # 0
    BY <1>3, <1>4, <2>2
  <2>4. k \in 1 .. n /\ k - 1 \in 0 .. n /\ k - 1 \notin Bad
    BY <1>1, <2>2, <2>3
  <2>5. eff[k - 1] \in Snapshot /\ p.stmts[k] \in S \cup {0}
    BY <1>1, <2>4
  <2>6. PICK u : /\ Plan(p, S, Expansion(p, p.stmts[k]), u)
                 /\ u[Len(Expansion(p, p.stmts[k])) + 1]
                      = StmtEffect(p, p.stmts[k], eff[k - 1])
    BY <2>5, ExpansionPlan
  <2>7. Expansion(p, p.stmts[k]) \in Seq(Items(p))
    BY <2>5, ExpansionItems DEF Whole
  <2>8. Len(Expansion(p, p.stmts[k])) + 1 \in 1 .. Len(Expansion(p, p.stmts[k])) + 1
    BY <2>7
  <2>9. StmtEffect(p, p.stmts[k], eff[k - 1]) \in Snapshot
    BY <2>6, <2>8 DEF Plan
  <2> QED
    BY <1>3, <2>2, <2>4, <2>9
<1>6. /\ w \in [1 .. n + 1 -> Snapshot]
      /\ \A k \in 1 .. n + 1 : w[k] = eff[k - 1]
  <2>1. \A k \in 1 .. n + 1 : k - 1 \in 0 .. n
    BY <1>1
  <2> QED
    BY <1>5, <2>1
<1> HIDE DEF w
<1>7. ASSUME NEW k \in 1 .. n
      PROVE  /\ items[k].do = "visit" => items[k].node \in S \cup {0}
             /\ Enough(items[k], w[k])
             /\ w[k + 1] = Effect(p, items[k], w[k])
  <2>1. k \in 1 .. n + 1 /\ k + 1 \in 1 .. n + 1 /\ (k + 1) - 1 = k
    BY <1>1
  <2>2. w[k + 1] = StmtEffect(p, p.stmts[k], w[k]) /\ p.stmts[k] \in S \cup {0}
    BY <1>1, <1>3, <1>6, <2>1
  <2> QED
    BY <1>2, <2>2, ItemEffects
<1>8. 1 \in 1 .. n + 1 /\ n + 1 \in 1 .. n + 1 /\ 1 - 1 = 0 /\ (n + 1) - 1 = n
  BY <1>1
<1>9. Plan(p, S, items, w)
  BY <1>2, <1>6, <1>7 DEF Plan
<1> QED
  BY <1>2, <1>3, <1>6, <1>8, <1>9 DEF eff, n

(***************************************************************************)
(* What has been emitted has an effect: s holds the state that the machine *)
(* is to be in at each instruction, and at the end.  The offset of a       *)
(* constant is cut to a byte: only in a pool of at most 256 constants does *)
(* every instruction load its own.                                         *)
(***************************************************************************)

PoolFits(pool) == Len(pool) <= ByteRange

InstructionAt(buffer, pool, s, at) ==
  LET op == buffer[at + 1]
      next == at + Width(op)
  IN  /\ op \in HandledCode
      /\ next \in DOMAIN s
      /\ s[at].done \/ Need(op) <= Len(s[at].stack)
      /\ \E v \in Value :
           /\ s[next] = Executed(op, v, s[at])
           /\ op \in OperandCode =>
                /\ buffer[at + 2] < Len(pool)
                /\ PoolFits(pool) => v = pool[buffer[at + 2] + 1]

Trace(buffer, pool, s) ==
  /\ s \in [DOMAIN s -> Snapshot]
  /\ DOMAIN s \subseteq 0 .. Len(buffer)
  /\ 0 \in DOMAIN s /\ s[0] = NoEffect
  /\ Len(buffer) \in DOMAIN s
  /\ \A at \in DOMAIN s : at < Len(buffer) => InstructionAt(buffer, pool, s, at)
  /\ \A at \in DOMAIN s : s[at].done => s[at] = s[Len(buffer)]

\* One instruction more.
LEMMA TraceExtended ==
  ASSUME NEW buffer \in Seq(Byte), NEW pool \in Seq(Value), NEW s, Trace(buffer, pool, s),
         NEW new \in Seq(Byte), NEW longer \in Seq(Value),
         NEW op \in HandledCode, NEW v \in Value,
         Len(new) = Len(buffer) + Width(op), new[Len(buffer) + 1] = op,
         \A k \in 1 .. Len(buffer) : new[k] = buffer[k],
         Len(longer) >= Len(pool),
         \A k \in 1 .. Len(pool) : longer[k] = pool[k],
         op \in OperandCode =>
           /\ new[Len(buffer) + 2] < Len(longer)
           /\ PoolFits(longer) => v = longer[new[Len(buffer) + 2] + 1],
         s[Len(buffer)].done \/ Need(op) <= Len(s[Len(buffer)].stack),
         Executed(op, v, s[Len(buffer)]) \in Snapshot
  PROVE  \E r : /\ Trace(new, longer, r)
                /\ r[Len(new)] = Executed(op, v, s[Len(buffer)])
<1> DEFINE L == Len(buffer)
           M == Len(new)
           y == Executed(op, v, s[L])
           D == DOMAIN s
           r == [at \in D \cup {M} |-> IF at = M THEN y ELSE s[at]]
<1>1. /\ L \in Nat /\ M \in Nat /\ M > L /\ Len(pool) \in Nat /\ Len(longer) \in Nat
      /\ Width(op) \in {1, 2} /\ M = L + Width(op)
  BY DEF Width
<1>2. D \subseteq 0 .. L /\ 0 \in D /\ L \in D /\ \A at \in D : s[at] \in Snapshot
  BY DEF Trace
<1>3. \A at \in D : at # M /\ at \in 0 .. M
  BY <1>1, <1>2
<1>4. r[M] = y /\ (\A at \in D : r[at] = s[at]) /\ DOMAIN r = D \cup {M}
  BY <1>3
<1>5. r \in [DOMAIN r -> Snapshot]
  BY <1>2, <1>4
<1> HIDE DEF r, D, y
<1>6. DOMAIN r \subseteq 0 .. M /\ 0 \in DOMAIN r /\ M \in DOMAIN r /\ r[0] = NoEffect
  BY <1>1, <1>2, <1>3, <1>4 DEF Trace, D
<1>7. ASSUME NEW at \in DOMAIN r, at < M
      PROVE  InstructionAt(new, longer, r, at)
  <2>1. at \in D /\ at \in 0 .. L /\ r[at] = s[at]
    <3>1. at # M
      BY <1>1, <1>7
    <3> QED
      BY <1>2, <1>4, <1>7, <3>1
  <2>2. CASE at = L
    <3>1. r[at + Width(op)] = Executed(op, v, r[at]) /\ at + Width(op) \in DOMAIN r
      BY <1>1, <1>4, <2>1, <2>2 DEF y
    <3>2. new[at + 1] = op /\ (r[at].done \/ Need(op) <= Len(r[at].stack))
      BY <2>1, <2>2
    <3> QED
      BY <2>2, <3>1, <3>2 DEF InstructionAt
  <2>3. CASE at # L
    <3> DEFINE o == buffer[at + 1]
               next == at + Width(o)
    <3>1. InstructionAt(buffer, pool, s, at) /\ at + 1 \in 1 .. L
      BY <1>1, <2>1, <2>3 DEF Trace, D
    <3>2. new[at + 1] = o
      BY <3>1
    <3>3. /\ o \in HandledCode /\ next \in D
          /\ s[at].done \/ Need(o) <= Len(s[at].stack)
      BY <3>1 DEF InstructionAt, D
    <3>4. PICK c \in Value :
            /\ s[next] = Executed(o, c, s[at])
            /\ o \in OperandCode =>
                 /\ buffer[at + 2] < Len(pool)
                 /\ PoolFits(pool) => c = pool[buffer[at + 2] + 1]
      BY <3>1 DEF InstructionAt
    <3>5. next \in DOMAIN r /\ r[next] = s[next]
      BY <1>4, <3>3
    <3>6. ASSUME o \in OperandCode
          PROVE  /\ new[at + 2] < Len(longer)
                 /\ PoolFits(longer) => c = longer[new[at + 2] + 1]
      <4>1. next = at + 2 /\ at + 2 \in 1 .. L
        BY <1>1, <1>2, <2>1, <3>3, <3>6 DEF Width
      <4>2. new[at + 2] = buffer[at + 2] /\ buffer[at + 2] \in Byte
        BY <4>1
      <4>3. \A b \in Byte : b \in Nat
        BY DEF Byte, ByteRange
      <4>4. buffer[at + 2] \in Nat /\ buffer[at + 2] + 1 \in 1 .. Len(pool)
        <5>1. buffer[at + 2] < Len(pool)
          BY <3>4, <3>6
        <5>2. buffer[at + 2] \in Nat
          BY <4>2, <4>3
        <5> QED
          BY <1>1, <5>1, <5>2
      <4>5. PoolFits(longer) => PoolFits(pool)
        BY <1>1 DEF PoolFits, ByteRange
      <4> QED
        BY <1>1, <3>4, <3>6, <4>2, <4>4, <4>5
    <3> HIDE DEF o, next
    <3>7. InstructionAt(new, longer, r, at)
      BY <2>1, <3>2, <3>3, <3>4, <3>5, <3>6 DEF InstructionAt, next
    <3> QED
      BY <3>7
  <2> QED
    BY <2>2, <2>3
<1>8. ASSUME NEW at \in DOMAIN r, r[at].done
      PROVE  r[at] = r[M]
  <2>1. CASE at = M
    BY <2>1
  <2>2. CASE at # M
    <3>1. at \in D /\ r[at] = s[at] /\ s[at].done
      BY <1>4, <1>8, <2>2
    <3>2. s[at] = s[L] /\ s[L].done
      BY <3>1 DEF Trace, D
    <3>3. y = s[L]
      BY <3>2 DEF y, Executed
    <3> QED
      BY <1>4, <3>1, <3>2, <3>3
  <2> QED
    BY <2>1, <2>2
<1>9. Trace(new, longer, r)
  BY <1>5, <1>6, <1>7, <1>8 DEF Trace
<1> QED
  BY <1>4, <1>9 DEF y

(***************************************************************************)
(* The machine.                                                            *)
(***************************************************************************)

SameEnv(env, f) == \A n : ResolveGlobal(env, n) = ResolveGlobal(f, n)

\* A step of the machine at an instruction, with what it takes on the stack
\* and its constant in the pool, is the execution of the instruction.  Reading
\* a global creates it, which no later read can tell.
LEMMA MachineExecutes ==
  ASSUME MachineTyped, code \in Seq(Byte), ctx \in Seq(Value), VMNext,
         ip < Len(code), Fetched \in HandledCode, Need(Fetched) <= Len(stack),
         Fetched \in OperandCode => ip + 1 < Len(code) /\ OperandInPool
  PROVE  LET v == IF Fetched \in OperandCode THEN Constant(Operand) ELSE Undefined
             y == Executed(Fetched, v, [stack |-> stack, globals |-> globals, done |-> FALSE])
         IN  /\ ip' = ip + Width(Fetched)
             /\ stack' = y.stack /\ SameEnv(globals', y.globals)
             /\ result' = IF Fetched = OPCode.Return THEN "ok" ELSE "running"
<1> DEFINE op == Fetched
           v == IF op \in OperandCode THEN Constant(Operand) ELSE Undefined
           x == [stack |-> stack, globals |-> globals, done |-> FALSE]
           y == Executed(op, v, x)
           Goal == /\ ip' = ip + Width(op)
                   /\ stack' = y.stack /\ SameEnv(globals', y.globals)
                   /\ result' = IF op = OPCode.Return THEN "ok" ELSE "running"
<1> SUFFICES Goal
  OBVIOUS
<1>1. ip \in Nat /\ stack \in Seq(Value) /\ Len(stack) \in Nat /\ result = "running"
  BY MachineStep DEF MachineTyped
<1>2. ~ x.done /\ x.stack = stack /\ x.globals = globals
  OBVIOUS
<1>3. /\ op = OPCode.Return => y = [stack |-> stack, globals |-> globals, done |-> TRUE]
      /\ op = OPCode.SetGlobal =>
           y = [stack |-> SubSeq(stack, 1, Len(stack) - 1),
                globals |-> SetIn(globals, AsString(v), stack[Len(stack)]), done |-> FALSE]
      /\ op # OPCode.Return /\ op # OPCode.SetGlobal =>
           y = [stack |-> Append(SubSeq(stack, 1, Len(stack) - Need(op)),
                                 Computed(op, v, stack, globals)),
                globals |-> globals, done |-> FALSE]
  <2> HIDE DEF x, v, op
  <2> QED
    BY <1>2, ExecutedFacts DEF y
<1>4. \A e : SameEnv(e, e)
  BY DEF SameEnv
<1>5. \A ops : AtInstruction(ops) => op \in ops
  BY DEF AtInstruction
<1> HIDE DEF y, x
<1>6. ASSUME NEW n, n = Need(op), op # OPCode.Return, op # OPCode.SetGlobal,
             Yield(n, Computed(op, v, stack, globals), Width(op))
      PROVE  Goal
  <2> HIDE DEF op, v
  <2>1. /\ y.stack = Append(SubSeq(stack, 1, Len(stack) - n), Computed(op, v, stack, globals))
        /\ y.globals = globals
    <3>1. y = [stack |-> Append(SubSeq(stack, 1, Len(stack) - Need(op)),
                                Computed(op, v, stack, globals)),
               globals |-> globals, done |-> FALSE]
      BY <1>3, <1>6
    <3>2. Len(stack) - Need(op) = Len(stack) - n
      BY <1>6
    <3> QED
      BY <3>1, <3>2
  <2>2. /\ stack' = Append(SubSeq(stack, 1, Len(stack) - n), Computed(op, v, stack, globals))
        /\ ip' = ip + Width(op) /\ globals' = globals /\ result' = result
    BY <1>6 DEF Yield
  <2> QED
    BY <1>1, <1>4, <1>6, <2>1, <2>2
<1>7. \A n \in {0, 1, 2} : n = Need(op) => ~ Underflow(n)
  BY <1>1 DEF Underflow
<1>8. CASE RunReturn
  <2>1. op = OPCode.Return /\ op \notin OperandCode
    BY <1>5, <1>8, OpcodeFacts, CodeSets DEF RunReturn
  <2> HIDE DEF op, v
  <2> QED
    BY <1>3, <1>4, <1>8, <2>1 DEF RunReturn, Width
<1>9. CASE RunConstant
  <2>1. op = OPCode.Constant /\ op \in OperandCode
    BY <1>5, <1>9 DEF RunConstant, OperandCode
  <2>2. op # OPCode.Return /\ op # OPCode.SetGlobal /\ Width(op) = 2 /\ Need(op) = 0
    BY <2>1, OpcodeFacts, NeedFacts DEF Width
  <2>3. Computed(op, v, stack, globals) = Constant(Operand)
    BY <2>1, ComputedFacts
  <2> HIDE DEF op, v
  <2>4. Yield(0, Constant(Operand), 2)
    BY <1>9, <2>1 DEF RunConstant, op
  <2> QED
    BY <1>6, <2>2, <2>3, <2>4
<1>10. CASE RunNegate \/ RunNot
  <2>1. op \in {OPCode.Negate, OPCode.Not} /\ (RunNegate <=> op = OPCode.Negate)
    BY <1>5, <1>10, OpcodeFacts DEF RunNegate, RunNot, AtInstruction
  <2>2. op # OPCode.Return /\ op # OPCode.SetGlobal /\ Width(op) = 1 /\ Need(op) = 1
    BY <2>1, OpcodeFacts, CodeSets, NeedFacts DEF Width
  <2>3. Computed(op, v, stack, globals) = IF RunNegate THEN Negated(Top) ELSE Not(Top)
    BY <2>1, ComputedFacts DEF Top, Last
  <2> HIDE DEF op, v
  <2>4. Yield(1, IF RunNegate THEN Negated(Top) ELSE Not(Top), 1)
    BY <1>7, <1>10, <2>2 DEF RunNegate, RunNot
  <2> QED
    BY <1>6, <2>2, <2>3, <2>4
<1>11. CASE RunLogical
  <2> DEFINE w == VMLogical(IF op = OPCode.And THEN "And" ELSE "Or", Second, Top)
  <2>1. op \in {OPCode.And, OPCode.Or}
    BY <1>5, <1>11 DEF RunLogical
  <2>2. op # OPCode.Return /\ op # OPCode.SetGlobal /\ Width(op) = 1 /\ Need(op) = 2
    BY <2>1, OpcodeFacts, CodeSets, NeedFacts DEF Width
  <2>3. Computed(op, v, stack, globals) = w
    BY <2>1, OpcodeFacts, ComputedFacts DEF Top, Second, Last
  <2>4. Yield(2, w, 1)
    BY <1>7, <1>11, <2>2 DEF RunLogical
  <2> HIDE DEF op, v, w
  <2> QED
    BY <1>6, <2>2, <2>3, <2>4
<1>12. CASE RunBinary
  <2> DEFINE w == VMBinary(Token(op), Second, Top)
  <2>1. op \in BinaryCode
    BY <1>5, <1>12 DEF RunBinary
  <2>2. op # OPCode.Return /\ op # OPCode.SetGlobal /\ Width(op) = 1 /\ Need(op) = 2
    BY <2>1, OpcodeFacts, CodeSets, NeedFacts DEF Width
  <2>3. Computed(op, v, stack, globals) = w
    BY <2>1, ComputedFacts DEF Top, Second, Last
  <2>4. Yield(2, w, 1)
    BY <1>7, <1>12, <2>2 DEF RunBinary
  <2> HIDE DEF op, v, w
  <2> QED
    BY <1>6, <2>2, <2>3, <2>4
<1>13. CASE RunSetGlobal
  <2>1. op = OPCode.SetGlobal /\ op \in OperandCode
    BY <1>5, <1>13 DEF RunSetGlobal, OperandCode
  <2>2. op # OPCode.Return /\ Width(op) = 2 /\ Need(op) = 1
    BY <2>1, OpcodeFacts, NeedFacts DEF Width
  <2>3. OperandInPool /\ ~ Underflow(1)
    BY <1>7, <2>1, <2>2
  <2>4. /\ globals' = SetIn(globals, AsString(v), stack[Len(stack)])
        /\ stack' = SubSeq(stack, 1, Len(stack) - 1)
        /\ ip' = ip + 2 /\ result' = result
    BY <1>13, <2>1, <2>3 DEF RunSetGlobal, Top, Last, Front
  <2> HIDE DEF op, v
  <2> QED
    BY <1>1, <1>3, <1>4, <2>1, <2>2, <2>4
<1>14. CASE RunGetGlobal
  <2>1. op = OPCode.GetGlobal /\ op \in OperandCode
    BY <1>5, <1>14 DEF RunGetGlobal, OperandCode
  <2>2. op # OPCode.Return /\ op # OPCode.SetGlobal /\ Width(op) = 2 /\ Need(op) = 0
    BY <2>1, OpcodeFacts, NeedFacts DEF Width
  <2> DEFINE n == AsString(v)
  <2>3. /\ globals' = SetIn(globals, n, ResolveGlobal(globals, n))
        /\ stack' = Append(stack, ResolveGlobal(globals, n))
        /\ ip' = ip + 2 /\ result' = result
    BY <1>14, <2>1 DEF RunGetGlobal
  <2>4. Computed(op, v, stack, globals) = ResolveGlobal(globals, n)
    BY <2>1, ComputedFacts
  <2> HIDE DEF op, v
  <2>5. y.stack = Append(stack, ResolveGlobal(globals, n)) /\ y.globals = globals
    <3>1. SubSeq(stack, 1, Len(stack) - 0) = stack
      BY <1>1
    <3> QED
      BY <1>3, <2>2, <2>4, <3>1
  <2>6. SameEnv(globals', globals)
    BY <2>3 DEF SameEnv, SetIn, ResolveGlobal
  <2> QED
    BY <1>1, <2>2, <2>3, <2>5, <2>6
<1>15. CASE RunOperandMissing
  BY <1>1, <1>15 DEF RunOperandMissing
<1>16. CASE RunUnexpected
  BY <1>5, <1>16 DEF RunUnexpected
<1>17. CASE RunEnd
  BY <1>1, <1>17 DEF RunEnd
<1> HIDE DEF Goal
<1> QED
  BY <1>8, <1>9, <1>10, <1>11, <1>12, <1>13, <1>14, <1>15, <1>16, <1>17 DEF VMNext

\* An instruction does the same to two stacks of the same height, and has the
\* same result if the stacks, the globals and its constant are the same.
LEMMA ExecutedAlike ==
  ASSUME NEW x, NEW y, x.stack \in Seq(Value), y.stack \in Seq(Value),
         Len(x.stack) = Len(y.stack), ~ x.done, ~ y.done,
         NEW op \in HandledCode, Need(op) <= Len(x.stack), NEW v, NEW c
  PROVE  LET x1 == Executed(op, v, x)
             y1 == Executed(op, c, y)
         IN  /\ Len(x1.stack) = Len(y1.stack)
             /\ x.stack = y.stack /\ SameEnv(x.globals, y.globals)
                /\ (op \in OperandCode => v = c)
                  => x1.stack = y1.stack /\ SameEnv(x1.globals, y1.globals)
             /\ y1.done <=> op = OPCode.Return
<1> DEFINE x1 == Executed(op, v, x)
           y1 == Executed(op, c, y)
           Same == /\ x.stack = y.stack /\ SameEnv(x.globals, y.globals)
                   /\ (op \in OperandCode => v = c)
           Goal == /\ Len(x1.stack) = Len(y1.stack)
                   /\ Same => x1.stack = y1.stack /\ SameEnv(x1.globals, y1.globals)
                   /\ y1.done <=> op = OPCode.Return
<1> SUFFICES Goal
  OBVIOUS
<1>1. Len(x.stack) \in Nat /\ OPCode.Return # OPCode.SetGlobal
  BY OpcodeFacts
<1>2. CASE op = OPCode.Return
  <2>1. /\ x1 = [stack |-> x.stack, globals |-> x.globals, done |-> TRUE]
        /\ y1 = [stack |-> y.stack, globals |-> y.globals, done |-> TRUE]
    BY <1>2, ExecutedFacts
  <2> HIDE DEF x1, y1
  <2> QED
    BY <1>2, <2>1
<1>3. CASE op = OPCode.SetGlobal
  <2> DEFINE xs == SubSeq(x.stack, 1, Len(x.stack) - 1)
             ys == SubSeq(y.stack, 1, Len(y.stack) - 1)
             xe == SetIn(x.globals, AsString(v), x.stack[Len(x.stack)])
             ye == SetIn(y.globals, AsString(c), y.stack[Len(y.stack)])
  <2>1. /\ x1 = [stack |-> xs, globals |-> xe, done |-> FALSE]
        /\ y1 = [stack |-> ys, globals |-> ye, done |-> FALSE]
    BY <1>3, ExecutedFacts
  <2>2. Len(x.stack) - 1 \in 0 .. Len(x.stack)
    BY <1>1, <1>3, NeedFacts
  <2>3. Len(xs) = Len(ys)
    BY <2>2, PrefixFacts
  <2>4. Same => xs = ys
    OBVIOUS
  <2>5. Same => SameEnv(xe, ye)
    <3>1. op \in OperandCode
      BY <1>3 DEF OperandCode
    <3>2. Same => ye = SetIn(y.globals, AsString(v), x.stack[Len(x.stack)])
      BY <3>1
    <3>3. ASSUME NEW e, NEW f, NEW n, NEW z, SameEnv(e, f)
          PROVE  SameEnv(SetIn(e, n, z), SetIn(f, n, z))
      BY <3>3 DEF SameEnv, SetIn, ResolveGlobal
    <3> QED
      BY <3>2, <3>3
  <2> HIDE DEF x1, y1, xs, ys, xe, ye, Same
  <2> QED
    BY <1>1, <1>3, <2>1, <2>3, <2>4, <2>5
<1>4. CASE op # OPCode.Return /\ op # OPCode.SetGlobal
  <2> DEFINE xs == SubSeq(x.stack, 1, Len(x.stack) - Need(op))
             ys == SubSeq(y.stack, 1, Len(y.stack) - Need(op))
             xv == Computed(op, v, x.stack, x.globals)
             yv == Computed(op, c, y.stack, y.globals)
  <2>1. /\ x1 = [stack |-> Append(xs, xv), globals |-> x.globals, done |-> FALSE]
        /\ y1 = [stack |-> Append(ys, yv), globals |-> y.globals, done |-> FALSE]
    BY <1>4, ExecutedFacts
  <2>2. op \in BinaryCode \cup {OPCode.Constant, OPCode.GetGlobal, OPCode.Negate,
                                OPCode.Not, OPCode.And, OPCode.Or}
    BY <1>4 DEF HandledCode, OperandCode
  <2>3. Need(op) \in {0, 1, 2}
    BY <2>2, NeedFacts
  <2>4. Len(x.stack) - Need(op) \in 0 .. Len(x.stack)
    BY <1>1, <2>3
  <2>5. Len(xs) = Len(ys) /\ xs \in Seq(Value) /\ ys \in Seq(Value)
    BY <2>4, PrefixFacts
  <2>6. Len(Append(xs, xv)) = Len(Append(ys, yv))
    <3> HIDE DEF xs, ys, xv, yv
    <3>1. \A q \in Seq(Value) : \A z : Len(Append(q, z)) = Len(q) + 1
      OBVIOUS
    <3> QED
      BY <2>5, <3>1
  <2>7. Same => xs = ys
    OBVIOUS
  <2>8. Same => xv = yv
    <3>1. CASE op \in OperandCode
      <4>1. op = OPCode.Constant \/ op = OPCode.GetGlobal
        BY <1>4, <3>1 DEF OperandCode
      <4>2. Same => ResolveGlobal(x.globals, AsString(v)) = ResolveGlobal(y.globals, AsString(c))
        BY <3>1 DEF SameEnv
      <4> QED
        BY <3>1, <4>1, <4>2, ComputedFacts
    <3>2. CASE op \notin OperandCode
      <4>1. op \in BinaryCode \cup {OPCode.Negate, OPCode.Not, OPCode.And, OPCode.Or}
        BY <2>2, <3>2 DEF OperandCode
      <4> QED
        BY <4>1, ComputedFacts
    <3> QED
      BY <3>1, <3>2
  <2> HIDE DEF x1, y1, xs, ys, xv, yv
  <2>9. Same => x1.stack = y1.stack /\ SameEnv(x1.globals, y1.globals)
    BY <2>1, <2>7, <2>8
  <2> HIDE DEF Same
  <2> QED
    BY <1>4, <2>1, <2>6, <2>9
<1> QED
  BY <1>2, <1>3, <1>4

\* The machine is where the trace says, up to the constants of a pool that is
\* too large for the offsets.
Alike(pool, st, env, x) ==
  /\ Len(st) = Len(x.stack)
  /\ PoolFits(pool) => st = x.stack /\ SameEnv(env, x.globals)

LEMMA MachineFollows ==
  ASSUME MachineTyped, code \in Seq(Byte), ctx \in Seq(Value), VMNext,
         NEW s, Trace(code, ctx, s), ip \in DOMAIN s, ~ s[ip].done,
         Alike(ctx, stack, globals, s[ip])
  PROVE  \/ /\ result' = "running" /\ ip' \in DOMAIN s /\ ~ s[ip'].done
            /\ Alike(ctx, stack', globals', s[ip'])
         \/ result' = "ok" /\ Alike(ctx, stack', globals', s[Len(code)])
<1> DEFINE L == Len(code)
           Goal == \/ /\ result' = "running" /\ ip' \in DOMAIN s /\ ~ s[ip'].done
                      /\ Alike(ctx, stack', globals', s[ip'])
                   \/ result' = "ok" /\ Alike(ctx, stack', globals', s[L])
<1> SUFFICES Goal
  OBVIOUS
<1>1. L \in Nat /\ ip \in 0 .. L /\ s[ip] \in Snapshot /\ stack \in Seq(Value)
  BY DEF Trace, MachineTyped
<1>2. CASE ip = L
  <2>1. ~ (ip < L) /\ ip + 1 # L
    BY <1>1, <1>2
  <2>2. \A ops : ~ AtInstruction(ops)
    BY <2>1 DEF AtInstruction
  <2>3. RunEnd
    BY <2>1, <2>2 DEF VMNext, RunReturn, RunConstant, RunNegate, RunNot, RunLogical, RunBinary,
                      RunSetGlobal, RunGetGlobal, RunOperandMissing, RunUnexpected
  <2>4. result' = "ok" /\ stack' = stack /\ globals' = globals
    BY <2>3 DEF RunEnd
  <2> QED
    BY <1>2, <2>4
<1>3. CASE ip # L
  <2> DEFINE op == Fetched
             next == ip + Width(op)
  <2>1. ip < L /\ InstructionAt(code, ctx, s, ip)
    BY <1>1, <1>3 DEF Trace
  <2>2. op \in HandledCode /\ next \in DOMAIN s /\ Need(op) <= Len(s[ip].stack)
    BY <2>1 DEF InstructionAt, Fetched
  <2>3. PICK c \in Value :
          /\ s[next] = Executed(op, c, s[ip])
          /\ op \in OperandCode =>
               Operand < Len(ctx) /\ (PoolFits(ctx) => c = Constant(Operand))
    BY <2>1 DEF InstructionAt, Fetched, Operand, Constant
  <2>4. op \in OperandCode => ip + 1 < L /\ OperandInPool
    <3>1. op \in OperandCode => next = ip + 2
      BY DEF Width
    <3>2. next \in 0 .. L
      BY <2>2 DEF Trace
    <3> QED
      BY <1>1, <2>3, <3>1, <3>2 DEF OperandInPool
  <2> DEFINE v == IF op \in OperandCode THEN Constant(Operand) ELSE Undefined
             x == [stack |-> stack, globals |-> globals, done |-> FALSE]
             x1 == Executed(op, v, x)
             y1 == Executed(op, c, s[ip])
  <2>5. Need(op) <= Len(stack)
    BY <2>2 DEF Alike
  <2>6. /\ ip' = next /\ stack' = x1.stack /\ SameEnv(globals', x1.globals)
        /\ result' = IF op = OPCode.Return THEN "ok" ELSE "running"
    BY <2>1, <2>2, <2>4, <2>5, MachineExecutes
  <2>7. x.stack = stack /\ x.globals = globals /\ ~ x.done
    OBVIOUS
  <2>8. s[ip].stack \in Seq(Value)
    BY <1>1 DEF Snapshot
  <2> DEFINE Same == /\ x.stack = s[ip].stack /\ SameEnv(x.globals, s[ip].globals)
                     /\ (op \in OperandCode => v = c)
  <2> HIDE DEF op, v, x, next
  <2>9. /\ Len(x1.stack) = Len(y1.stack)
        /\ Same => x1.stack = y1.stack /\ SameEnv(x1.globals, y1.globals)
        /\ y1.done <=> op = OPCode.Return
    <3>1. Len(x.stack) = Len(s[ip].stack) /\ x.stack \in Seq(Value) /\ Need(op) <= Len(x.stack)
      BY <1>1, <2>5, <2>7 DEF Alike
    <3> DEFINE y == s[ip]
    <3>2. y.stack \in Seq(Value) /\ Len(x.stack) = Len(y.stack) /\ ~ y.done
      BY <2>8, <3>1
    <3> HIDE DEF y, x1, y1
    <3>3. /\ Len(x1.stack) = Len(Executed(op, c, y).stack)
          /\ x.stack = y.stack /\ SameEnv(x.globals, y.globals) /\ (op \in OperandCode => v = c)
               => x1.stack = Executed(op, c, y).stack /\ SameEnv(x1.globals, Executed(op, c, y).globals)
          /\ Executed(op, c, y).done <=> op = OPCode.Return
      BY <2>2, <2>7, <3>1, <3>2, ExecutedAlike DEF x1
    <3> QED
      BY <3>3 DEF y, y1
  <2>10. PoolFits(ctx) => Same
    BY <2>3, <2>7 DEF Alike, v
  <2>11. \A d, e, f : SameEnv(d, e) /\ SameEnv(e, f) => SameEnv(d, f)
    BY DEF SameEnv
  <2> HIDE DEF x1, y1, Same
  <2>12. Alike(ctx, stack', globals', y1)
    BY <2>6, <2>9, <2>10, <2>11 DEF Alike
  <2>13. s[next] = y1
    BY <2>3 DEF y1
  <2>14. CASE op = OPCode.Return
    <3>1. s[next] = s[L]
      BY <2>2, <2>9, <2>13, <2>14 DEF Trace
    <3> QED
      BY <2>6, <2>12, <2>13, <2>14, <3>1
  <2>15. CASE op # OPCode.Return
    BY <2>2, <2>6, <2>9, <2>12, <2>13, <2>15
  <2> QED
    BY <2>14, <2>15
<1> QED
  BY <1>2, <1>3

(***************************************************************************)
(* Compiling and running: what has been emitted leads to where the rest of *)
(* the work begins, and that leads to the effect of the program.           *)
(***************************************************************************)

Foresees(p, S, items, buffer, pool, s, w) ==
  /\ Trace(buffer, pool, s)
  /\ Plan(p, S, items, w)
  /\ w[1] = s[Len(buffer)]
  /\ w[Len(items) + 1] = EffectOf(p)[Len(p.stmts)]

LEMMA WorkBegins ==
  ASSUME NEW p, Compilable(p), NEW S, Whole(p, S),
         \A k \in DOMAIN p.stmts : p.stmts[k] \in S \cup {0}
  PROVE  \E s, w : Foresees(p, S, [k \in DOMAIN p.stmts |-> Visit(p.stmts[k])], <<>>, <<>>, s, w)
<1> DEFINE items == [k \in DOMAIN p.stmts |-> Visit(p.stmts[k])]
           s == [at \in {0} |-> NoEffect]
<1>1. PICK w : /\ Plan(p, S, items, w)
               /\ w[1] = NoEffect
               /\ w[Len(items) + 1] = EffectOf(p)[Len(p.stmts)]
  BY ProgramPlan
<1>2. NoEffect \in Snapshot
  <2>1. <<>> \in Seq(Value) /\ NoGlobals \in Env
    BY EnvSetFacts
  <2> QED
    BY <2>1 DEF NoEffect, Snapshot
<1>3. Trace(<<>>, <<>>, s) /\ s[0] = NoEffect
  BY <1>2 DEF Trace
<1> HIDE DEF s, items
<1>4. Foresees(p, S, items, <<>>, <<>>, s, w)
  BY <1>1, <1>3 DEF Foresees
<1> QED
  BY <1>4 DEF items

\* The state that an emit foresees is that after its instruction.
LEMMA HeadExecuted ==
  ASSUME NEW p, NEW S, NEW items \in Seq(Items(p)), items # <<>>, NEW w, Plan(p, S, items, w),
         NEW op, NEW v,
         (Head(items) = Emit(op) /\ v = Undefined) \/ Head(items) = EmitValue(op, v)
  PROVE  /\ w[2] = Executed(op, v, w[1]) /\ w[2] \in Snapshot
         /\ w[1].done \/ Need(op) <= Len(w[1].stack)
<1>1. /\ Len(items) \in Nat /\ 1 \in 1 .. Len(items) /\ 2 \in 1 .. Len(items) + 1
      /\ 1 + 1 = 2 /\ items[1] = Head(items)
  OBVIOUS
<1>2. w[2] = Effect(p, Head(items), w[1]) /\ Enough(Head(items), w[1]) /\ w[2] \in Snapshot
  BY <1>1 DEF Plan
<1>3. Effect(p, Head(items), w[1]) = Executed(op, v, w[1])
  BY ItemEffects
<1>4. Head(items).do # "visit" /\ Head(items).op = op
  BY DEF Emit, EmitValue
<1> QED
  BY <1>2, <1>3, <1>4 DEF Enough

LEMMA EmitForeseen ==
  ASSUME NEW p, NEW S, NEW items \in Seq(Items(p)), items # <<>>,
         NEW buffer \in Seq(Byte), NEW pool \in Seq(Value), NEW s, NEW w,
         Foresees(p, S, items, buffer, pool, s, w), Head(items).do = "emit"
  PROVE  \E r, u : Foresees(p, S, Tail(items), Append(buffer, Head(items).op), pool, r, u)
<1> DEFINE op == Head(items).op
           new == Append(buffer, op)
           L == Len(buffer)
<1>1. Head(items) \in Items(p)
  OBVIOUS
<1>2. op \in PlainCode /\ Head(items) = Emit(op)
  BY <1>1, ItemFacts
<1>3. op \in HandledCode /\ op \notin OperandCode /\ op \in Byte /\ Width(op) = 1
  BY <1>2, CodeSets DEF PlainCode, Width
<1> HIDE DEF op
<1>4. Plan(p, S, items, w) /\ Trace(buffer, pool, s) /\ w[1] = s[L]
      /\ w[Len(items) + 1] = EffectOf(p)[Len(p.stmts)]
  BY DEF Foresees
<1>5. w[2] = Executed(op, Undefined, s[L]) /\ w[2] \in Snapshot
      /\ (s[L].done \/ Need(op) <= Len(s[L].stack))
  BY <1>2, <1>4, HeadExecuted
<1>6. /\ new \in Seq(Byte) /\ Len(new) = L + 1 /\ new[L + 1] = op
      /\ \A k \in 1 .. L : new[k] = buffer[k]
      /\ Len(pool) \in Nat
  BY <1>3
<1> HIDE DEF new
<1>7. Undefined \in Value
  BY ValueFacts
<1>8. PICK r : Trace(new, pool, r) /\ r[Len(new)] = w[2]
  BY <1>3, <1>4, <1>5, <1>6, <1>7, TraceExtended
<1> DEFINE u == [k \in 1 .. Len(items) |-> w[k + 1]]
<1>9. /\ Plan(p, S, Tail(items), u) /\ u[1] = w[2]
      /\ u[Len(Tail(items)) + 1] = w[Len(items) + 1]
  BY <1>4, PlanTail
<1> HIDE DEF u
<1>10. Foresees(p, S, Tail(items), new, pool, r, u)
  BY <1>4, <1>8, <1>9 DEF Foresees
<1> QED
  BY <1>10 DEF new, op

LEMMA EmitValueForeseen ==
  ASSUME NEW p, NEW S, NEW items \in Seq(Items(p)), items # <<>>,
         NEW buffer \in Seq(Byte), NEW pool \in Seq(Value), NEW s, NEW w,
         Foresees(p, S, items, buffer, pool, s, w), Head(items).do = "emitValue"
  PROVE  \E r, u : Foresees(p, S, Tail(items),
                            buffer \o <<Head(items).op, ToByte(Len(pool))>>,
                            Append(pool, Head(items).value), r, u)
<1> DEFINE op == Head(items).op
           v == Head(items).value
           o == ToByte(Len(pool))
           new == buffer \o <<op, o>>
           longer == Append(pool, v)
           L == Len(buffer)
<1>1. Head(items) \in Items(p)
  OBVIOUS
<1>2. op \in OperandCode /\ v \in Value /\ Head(items) = EmitValue(op, v)
  BY <1>1, ItemFacts
<1>3. op \in HandledCode /\ op \in Byte /\ Width(op) = 2
  BY <1>2, CodeSets DEF Width
<1> HIDE DEF op, v
<1>4. Plan(p, S, items, w) /\ Trace(buffer, pool, s) /\ w[1] = s[L]
      /\ w[Len(items) + 1] = EffectOf(p)[Len(p.stmts)]
  BY DEF Foresees
<1>5. w[2] = Executed(op, v, s[L]) /\ w[2] \in Snapshot
      /\ (s[L].done \/ Need(op) <= Len(s[L].stack))
  BY <1>2, <1>4, HeadExecuted
<1>6. o \in Byte /\ o <= Len(pool) /\ (Len(pool) < ByteRange => o = Len(pool))
  BY ToByteFacts
<1> HIDE DEF o
<1>7. /\ new \in Seq(Byte) /\ Len(new) = L + 2 /\ new[L + 1] = op /\ new[L + 2] = o
      /\ \A k \in 1 .. L : new[k] = buffer[k]
  BY <1>3, <1>6
<1>8. /\ longer \in Seq(Value) /\ Len(longer) = Len(pool) + 1 /\ Len(pool) \in Nat
      /\ longer[Len(pool) + 1] = v
      /\ \A k \in 1 .. Len(pool) : longer[k] = pool[k]
  BY <1>2
<1> HIDE DEF new, longer
<1>9. new[L + 2] < Len(longer) /\ (PoolFits(longer) => v = longer[new[L + 2] + 1])
  <2>1. o \in Int
    BY <1>6 DEF Byte, ByteRange
  <2>2. PoolFits(longer) => Len(pool) < ByteRange
    BY <1>8 DEF PoolFits, ByteRange
  <2> QED
    BY <1>6, <1>7, <1>8, <2>1, <2>2
<1>10. Len(longer) >= Len(pool) /\ Len(new) = L + Width(op)
  BY <1>3, <1>7, <1>8
<1>11. PICK r : Trace(new, longer, r) /\ r[Len(new)] = w[2]
  <2>1. Executed(op, v, s[L]) \in Snapshot
    BY <1>5
  <2>2. \E r : Trace(new, longer, r) /\ r[Len(new)] = Executed(op, v, s[L])
    <3>1. op \in HandledCode /\ v \in Value /\ Trace(buffer, pool, s)
      BY <1>2, <1>3, <1>4
    <3>2. /\ new \in Seq(Byte) /\ longer \in Seq(Value)
          /\ Len(new) = L + Width(op) /\ new[L + 1] = op
          /\ \A k \in 1 .. L : new[k] = buffer[k]
      BY <1>7, <1>8, <1>10
    <3>3. Len(longer) >= Len(pool) /\ \A k \in 1 .. Len(pool) : longer[k] = pool[k]
      BY <1>8, <1>10
    <3>4. s[L].done \/ Need(op) <= Len(s[L].stack)
      BY <1>5
    <3> QED
      BY <1>9, <2>1, <3>1, <3>2, <3>3, <3>4, TraceExtended, SMTT(60)
  <2> QED
    BY <1>5, <2>2
<1> DEFINE u == [k \in 1 .. Len(items) |-> w[k + 1]]
<1>12. /\ Plan(p, S, Tail(items), u) /\ u[1] = w[2]
       /\ u[Len(Tail(items)) + 1] = w[Len(items) + 1]
  BY <1>4, PlanTail
<1> HIDE DEF u
<1>13. Foresees(p, S, Tail(items), new, longer, r, u)
  BY <1>4, <1>11, <1>12 DEF Foresees
<1> QED
  BY <1>13 DEF new, longer, o, op, v

LEMMA VisitForeseen ==
  ASSUME NEW p, Compilable(p), NEW S, Whole(p, S), NEW items \in Seq(Items(p)), items # <<>>,
         NEW buffer, NEW pool, NEW s, NEW w,
         Foresees(p, S, items, buffer, pool, s, w), Head(items).do = "visit"
  PROVE  \E u : Foresees(p, S, Expansion(p, Head(items).node) \o Tail(items), buffer, pool, s, u)
<1> DEFINE more == Expansion(p, Head(items).node) \o Tail(items)
<1>1. Plan(p, S, items, w)
  BY DEF Foresees
<1>2. PICK u : /\ Plan(p, S, more, u)
               /\ u[1] = w[1]
               /\ u[Len(more) + 1] = w[Len(items) + 1]
  BY <1>1, PlanExpanded
<1> HIDE DEF more
<1>3. Foresees(p, S, more, buffer, pool, s, u)
  BY <1>2 DEF Foresees
<1> QED
  BY <1>3 DEF more

\* A set of nodes with all statements, and nothing that leaves a value out.
Part(S) ==
  /\ Whole(program, S)
  /\ \A k \in DOMAIN program.stmts : program.stmts[k] \in S \cup {0}

\* The machine is on its way through what s says, or arrived.
OnTrack(s) ==
  /\ result = "running" =>
       ip \in DOMAIN s /\ ~ s[ip].done /\ Alike(constantsPool, stack, globals, s[ip])
  /\ result = "ok" => Alike(constantsPool, stack, globals, Outcome)
  /\ result \in {"idle", "running", "ok"}

Computes ==
  Compiled =>
    \A S : Part(S) =>
      \E s, w : /\ Foresees(program, S, todo, bytecodeBuffer, constantsPool, s, w)
                /\ OnTrack(s)

\* An expression by itself is rewritten before any of its code is emitted.
Unstarted ==
  Len(program.stmts) = 1 =>
    \/ todo = <<Visit(Root)>> /\ bytecodeBuffer = <<>> /\ constantsPool = <<>>
    \/ \A k \in DOMAIN todo : todo[k].do = "visit" => todo[k].node < Root

LEMMA InitUnstarted == Init => Unstarted
<1> SUFFICES ASSUME Init, Len(program.stmts) = 1 PROVE Unstarted
  BY DEF Unstarted
<1>1. CompilerInit
  BY DEF Init, HandmadeInit
<1>2. program.stmts \in Seq(Nat)
  BY <1>1, ProgramAssumption DEF CompilerInit, Compilable
<1>3. todo = <<Visit(Root)>>
  BY <1>1, <1>2 DEF CompilerInit, Root
<1> QED
  BY <1>1, <1>3 DEF CompilerInit, Unstarted

LEMMA UnstartedStep ==
  ASSUME StateInv, Unstarted, [Next]_vars
  PROVE  Unstarted'
<1>1. /\ Compilable(program) /\ todo \in Seq(Items(program))
      /\ program.stmts \in Seq(Nat)
  BY DEF StateInv, CompilerTyped, Compilable
<1>2. CASE UNCHANGED compilerVars
  BY <1>2 DEF compilerVars, Unstarted, Root
<1>3. CASE Rewrite
  <2> SUFFICES ASSUME Len(program'.stmts) = 1
               PROVE  /\ todo' = <<Visit(Head(program'.stmts))>>
                      /\ bytecodeBuffer' = <<>> /\ constantsPool' = <<>>
    BY DEF Unstarted, Root
  <2>1. todo = <<Visit(Root)>> /\ Root \in Nat /\ program.stmts = <<Root>>
        /\ UNCHANGED <<bytecodeBuffer, constantsPool>>
    BY <1>1, <1>3, RewriteFacts DEF Compilable
  <2>2. bytecodeBuffer = <<>> /\ constantsPool = <<>>
    <3>1. todo[1].do = "visit" /\ todo[1].node = Root /\ 1 \in DOMAIN todo
      BY <2>1 DEF Visit
    <3> QED
      BY <2>1, <3>1 DEF Unstarted
  <2>3. todo' = <<Visit(Head(program'.stmts))>>
    <3>1. CASE program' = program /\ todo' = todo
      BY <2>1, <3>1
    <3>2. CASE ~ (program' = program /\ todo' = todo)
      BY <1>3, <3>2, RewriteFacts
    <3> QED
      BY <3>1, <3>2
  <2> QED
    BY <2>1, <2>2, <2>3
<1>4. CASE Compile
  <2>1. CompilerNext
    BY <1>4 DEF Compile
  <2>2. program' = program /\ todo # <<>> /\ Head(todo) \in Items(program)
    BY <1>1, <2>1, CompileStep DEF StateInv
  <2> SUFFICES ASSUME Len(program.stmts) = 1
               PROVE  \A k \in DOMAIN todo' : todo'[k].do = "visit" => todo'[k].node < Root
    BY <2>2 DEF Unstarted, Root
  <2>3. Root \in Nat
    BY <1>1 DEF Root
  <2> DEFINE rest == Tail(todo)
  <2>4. /\ Len(rest) \in Nat /\ DOMAIN rest = 1 .. Len(rest)
        /\ \A k \in DOMAIN rest : k + 1 \in DOMAIN todo /\ rest[k] = todo[k + 1]
    BY <1>1, <2>2
  <2>5. Head(todo) = todo[1] /\ 1 \in DOMAIN todo
    BY <1>1, <2>2
  <2>6. \A k \in DOMAIN rest : rest[k].do = "visit" => rest[k].node < Root
    <3>1. CASE todo = <<Visit(Root)>>
      BY <3>1
    <3>2. CASE \A k \in DOMAIN todo : todo[k].do = "visit" => todo[k].node < Root
      BY <2>4, <3>2
    <3> QED
      BY <3>1, <3>2 DEF Unstarted
  <2> HIDE DEF rest
  <2>7. CASE EmitStep
    BY <2>6, <2>7 DEF EmitStep, rest
  <2>8. CASE EmitValueStep
    BY <2>6, <2>8 DEF EmitValueStep, rest
  <2>9. CASE Head(todo).do = "visit" /\ Replace(Expansion(program, Head(todo).node))
    <3> DEFINE i == Head(todo).node
               e == Expansion(program, i)
    <3>1. i \in {0} \cup DOMAIN program.nodes /\ i \in Nat /\ i <= Root
      <4>1. i \in {0} \cup DOMAIN program.nodes /\ i \in Nat
        BY <1>1, <2>2, <2>9, ItemFacts DEF Compilable
      <4>2. i = Root \/ i < Root
        BY <2>5, <2>9 DEF Unstarted, Visit
      <4> QED
        BY <2>3, <4>1, <4>2
    <3>2. e \in Seq(Items(program)) /\ rest \in Seq(Items(program))
      BY <1>1, <2>2, <3>1, ExpansionItems DEF rest
    <3>3. \A k \in DOMAIN e : e[k].do = "visit" => e[k].node < Root
      <4> TAKE k \in DOMAIN e
      <4> HAVE e[k].do = "visit"
      <4>1. e[k].node \in Operands(program.nodes[i]) /\ i \in DOMAIN program.nodes
        BY <3>1, ExpansionVisits
      <4>2. e[k].node \in {0} \cup DOMAIN program.nodes /\ e[k].node < i
        BY <1>1, <4>1, OperandFacts
      <4>3. e[k].node \in Nat
        BY <4>2 DEF StateInv, CompilerTyped, Compilable
      <4> QED
        BY <2>3, <3>1, <4>2, <4>3
    <3>4. todo' = e \o rest
      BY <2>9 DEF Replace, rest
    <3> HIDE DEF e
    <3>5. \A k \in DOMAIN (e \o rest) :
            \/ k \in DOMAIN e /\ (e \o rest)[k] = e[k]
            \/ k - Len(e) \in DOMAIN rest /\ (e \o rest)[k] = rest[k - Len(e)]
      BY <3>2
    <3> QED
      BY <2>6, <3>3, <3>4, <3>5
  <2> QED
    BY <2>1, <2>7, <2>8, <2>9, CompilerSteps
<1> QED
  BY <1>2, <1>3, <1>4 DEF Next, VisitOnly, Load, Run, vars

LEMMA UnstartedHolds == Spec => []Unstarted
<1>1. StateInv /\ Unstarted /\ [Next]_vars => Unstarted'
  BY UnstartedStep
<1> QED
  BY InitUnstarted, StateInvHolds, <1>1, PTL DEF Spec

LEMMA InitComputes == Init => Computes
<1> SUFFICES ASSUME Init, Compiled, NEW S, Part(S)
             PROVE  \E s, w : /\ Foresees(program, S, todo, bytecodeBuffer, constantsPool, s, w)
                              /\ OnTrack(s)
  BY DEF Computes
<1>1. CompilerInit /\ result = "idle"
  BY DEF Init, HandmadeInit, Compiled, VMInit
<1>2. Compilable(program) /\ bytecodeBuffer = <<>> /\ constantsPool = <<>>
      /\ todo = [k \in DOMAIN program.stmts |-> Visit(program.stmts[k])]
  BY <1>1, ProgramAssumption DEF CompilerInit
<1>3. PICK s, w : Foresees(program, S, todo, <<>>, <<>>, s, w)
  BY <1>2, WorkBegins DEF Part
<1> QED
  BY <1>1, <1>2, <1>3 DEF OnTrack

\* The rewritten expression is compiled from the beginning.
LEMMA RewriteComputes ==
  ASSUME StateInv, Unstarted, Computes, Rewrite
  PROVE  Computes'
<1>1. /\ Compilable(program) /\ todo = <<Visit(Root)>> /\ program.stmts = <<Root>>
      /\ Root \in DOMAIN program.nodes
      /\ UNCHANGED <<bytecodeBuffer, constantsPool, vmVars>>
  BY RewriteFacts DEF StateInv, CompilerTyped
<1>2. bytecodeBuffer = <<>> /\ constantsPool = <<>>
  <2>1. todo[1].do = "visit" /\ todo[1].node = Root /\ 1 \in DOMAIN todo /\ Root \in Nat
    BY <1>1 DEF Visit, Compilable
  <2> QED
    BY <1>1, <2>1 DEF Unstarted
<1>3. result = "idle" /\ result' = "idle"
  BY <1>1 DEF StateInv, Loaded, vmVars
<1>4. Compilable(program') /\ todo' = [k \in DOMAIN program'.stmts |-> Visit(program'.stmts[k])]
  <2>1. CASE program' = program /\ todo' = todo
    BY <1>1, <2>1
  <2>2. CASE ~ (program' = program /\ todo' = todo)
    <3>1. PICK v \in Value :
            /\ program' = [nodes |-> Append(program.nodes, Literal(v)),
                           stmts |-> <<Len(program.nodes) + 1>>]
            /\ todo' = <<Visit(Len(program.nodes) + 1)>>
      BY <2>2, RewriteFacts
    <3> QED
      BY <1>1, <3>1, LiteralAppended
  <2> QED
    BY <2>1, <2>2
<1> SUFFICES ASSUME NEW S, Part(S)'
             PROVE  \E s, w : /\ Foresees(program', S, todo', bytecodeBuffer', constantsPool', s, w)
                              /\ OnTrack(s)'
  BY DEF Computes
<1>5. PICK s, w : Foresees(program', S, todo', <<>>, <<>>, s, w)
  BY <1>4, WorkBegins DEF Part
<1> QED
  BY <1>1, <1>2, <1>3, <1>5 DEF OnTrack

LEMMA CompileComputes ==
  ASSUME StateInv, Computes, Compile
  PROVE  Computes'
<1>1. CompilerNext /\ UNCHANGED vmVars
  BY DEF Compile
<1>2. /\ Compilable(program) /\ todo \in Seq(Items(program))
      /\ bytecodeBuffer \in Seq(Byte) /\ constantsPool \in Seq(Value)
  BY DEF StateInv, CompilerTyped
<1>3. todo # <<>> /\ program' = program
  BY <1>1, CompileStep DEF StateInv
<1>4. result = "idle" /\ result' = "idle"
  BY <1>1, <1>3 DEF StateInv, Loaded, vmVars
<1> SUFFICES ASSUME NEW S, Part(S), Compiled
             PROVE  \E s, w : Foresees(program, S, todo', bytecodeBuffer', constantsPool', s, w)
  <2>1. \A s : OnTrack(s)'
    BY <1>4 DEF OnTrack
  <2> QED
    BY <1>3, <2>1 DEF Computes, Compiled, Part
<1>5. PICK s, w : Foresees(program, S, todo, bytecodeBuffer, constantsPool, s, w)
  BY DEF Computes
<1>6. CASE EmitStep
  BY <1>2, <1>3, <1>5, <1>6, EmitForeseen DEF EmitStep
<1>7. CASE EmitValueStep
  BY <1>2, <1>3, <1>5, <1>7, EmitValueForeseen DEF EmitValueStep
<1>8. CASE Head(todo).do = "visit" /\ Replace(Expansion(program, Head(todo).node))
  BY <1>2, <1>3, <1>5, <1>8, VisitForeseen DEF Replace, Part
<1> QED
  BY <1>1, <1>6, <1>7, <1>8, CompilerSteps

LEMMA RunComputes ==
  ASSUME StateInv, Computes, Run
  PROVE  Computes'
<1>1. VMNext /\ UNCHANGED <<program, todo, bytecodeBuffer, constantsPool>>
  BY DEF Run, compilerVars
<1>2. code \in Seq(Byte) /\ ctx \in Seq(Value) /\ MachineTyped
  BY StateInvImpliesTypeOK DEF StateInv, TypeOK, VMTypeOK
<1>3. result = "running" /\ todo = <<>> /\ code = bytecodeBuffer /\ ctx = constantsPool
  BY <1>1, <1>2, MachineStep DEF StateInv, Loaded
<1> SUFFICES ASSUME NEW S, Part(S), Compiled
             PROVE  \E s, w : /\ Foresees(program, S, todo, code, ctx, s, w)
                              /\ OnTrack(s)'
  BY <1>1, <1>3 DEF Computes, Compiled, Part
<1>4. PICK s, w : Foresees(program, S, todo, code, ctx, s, w) /\ OnTrack(s)
  BY <1>3 DEF Computes
<1>5. Trace(code, ctx, s) /\ s[Len(code)] = Outcome
  BY <1>3, <1>4 DEF Foresees, Outcome
<1>6. \/ /\ result' = "running" /\ ip' \in DOMAIN s /\ ~ s[ip'].done
         /\ Alike(ctx, stack', globals', s[ip'])
      \/ result' = "ok" /\ Alike(ctx, stack', globals', s[Len(code)])
  BY <1>1, <1>2, <1>3, <1>4, <1>5, MachineFollows DEF OnTrack
<1>7. Outcome' = Outcome /\ constantsPool' = ctx
  BY <1>1, <1>3 DEF Outcome
<1>8. OnTrack(s)'
  BY <1>5, <1>6, <1>7 DEF OnTrack
<1> QED
  BY <1>4, <1>8

LEMMA ComputesStep ==
  ASSUME StateInv, Unstarted, Computes, [Next]_vars
  PROVE  Computes'
<1>1. CASE VisitOnly \/ UNCHANGED vars
  <2>1. UNCHANGED <<program, todo, bytecodeBuffer, constantsPool>>
        /\ UNCHANGED <<ip, stack, globals, result>>
    BY <1>1 DEF VisitOnly, vars, compilerVars, vmVars
  <2> QED
    BY <2>1 DEF Computes, Compiled, Part, OnTrack, Outcome
<1>2. CASE Rewrite
  BY <1>2, RewriteComputes
<1>3. CASE Compile
  BY <1>3, CompileComputes
<1>4. CASE Load
  <2>1. /\ ip = 0 /\ stack = <<>> /\ globals = NoGlobals
        /\ UNCHANGED <<program, todo, bytecodeBuffer, constantsPool, ip, stack, globals>>
        /\ result' = "running"
    BY <1>4 DEF Load, StateInv, Loaded, compilerVars
  <2>2. ASSUME NEW S, NEW s, NEW w, Foresees(program, S, todo, bytecodeBuffer, constantsPool, s, w)
        PROVE  OnTrack(s)'
    <3>1. 0 \in DOMAIN s /\ s[0] = NoEffect
      BY <2>2 DEF Foresees, Trace
    <3>2. ~ NoEffect.done /\ Alike(constantsPool, <<>>, NoGlobals, NoEffect)
      BY DEF NoEffect, Alike, SameEnv
    <3> QED
      BY <2>1, <3>1, <3>2 DEF OnTrack
  <2> QED
    BY <2>1, <2>2 DEF Computes, Compiled, Part
<1>5. CASE Run
  BY <1>5, RunComputes
<1> QED
  BY <1>1, <1>2, <1>3, <1>4, <1>5 DEF Next

LEMMA ComputesHolds == Spec => []Computes
<1>1. StateInv /\ Unstarted /\ Computes /\ [Next]_vars => Computes'
  BY ComputesStep
<1> QED
  BY InitComputes, StateInvHolds, UnstartedHolds, <1>1, PTL DEF Spec

(***************************************************************************)
(* The height of the stack, for every program: what the tree says of it is *)
(* what the machine finds.                                                 *)
(***************************************************************************)

\* Nothing falls below what it reaches for.
Move == {a \in [reach : Nat, rise : Int, ends : BOOLEAN] : a.reach + a.rise >= 0}

\* The move of an instruction, and of an item that the compiler has to do.
OpMove(op) ==
  CASE op = OPCode.Return                              -> Return
    [] op = OPCode.SetGlobal                           -> PopPush(1, 0)
    [] op \notin {OPCode.Return, OPCode.SetGlobal}     -> PopPush(Need(op), 1)

ItemMove(p, item) ==
  IF item.do = "visit" THEN MoveAt(Moves(p), item.node) ELSE OpMove(item.op)

LEMMA GreaterOfTwo ==
  ASSUME NEW x \in Int, NEW y \in Int
  PROVE  Max({x, y}) = IF x >= y THEN x ELSE y
<1> DEFINE m == IF x >= y THEN x ELSE y
           Is(z) == z \in {x, y} /\ \A w \in {x, y} : z >= w
<1>1. Is(m)
  OBVIOUS
<1>2. \A z : Is(z) => z = m
  OBVIOUS
<1>3. Max({x, y}) = CHOOSE z : Is(z)
  BY DEF Max
<1> HIDE DEF Is, m
<1>4. Is(CHOOSE z : Is(z))
  BY <1>1
<1> QED
  BY <1>2, <1>3, <1>4 DEF m

LEMMA ThenFacts ==
  ASSUME NEW a \in Move, NEW b \in Move
  PROVE  /\ Then(a, b) \in Move
         /\ a.ends => Then(a, b) = a
         /\ ~ a.ends =>
              /\ Then(a, b).rise = a.rise + b.rise
              /\ Then(a, b).ends = b.ends
              /\ Then(a, b).reach = IF a.reach >= b.reach - a.rise THEN a.reach ELSE b.reach - a.rise
         /\ Then(a, b).reach >= a.reach
<1> DEFINE r == IF a.reach >= b.reach - a.rise THEN a.reach ELSE b.reach - a.rise
<1>1. /\ a.reach \in Nat /\ a.rise \in Int /\ a.ends \in BOOLEAN
      /\ b.reach \in Nat /\ b.rise \in Int /\ b.ends \in BOOLEAN
  BY DEF Move
<1>2. CASE a.ends
  BY <1>1, <1>2 DEF Then
<1>3. CASE ~ a.ends
  <2>1. Max({a.reach, b.reach - a.rise}) = r /\ r \in Nat /\ r >= a.reach
    BY <1>1, GreaterOfTwo
  <2> HIDE DEF r
  <2>2. Then(a, b) = [reach |-> r, rise |-> a.rise + b.rise, ends |-> b.ends]
    BY <1>3, <2>1 DEF Then
  <2>3. r + (a.rise + b.rise) >= 0
    <3>1. b.reach + b.rise >= 0
      BY DEF Move
    <3> QED
      BY <1>1, <2>1, <3>1 DEF r
  <2> QED
    BY <1>1, <1>3, <2>1, <2>2, <2>3 DEF Move, r
<1> QED
  BY <1>2, <1>3

LEMMA SameMove ==
  ASSUME NEW a \in Move, NEW b \in Move, a.reach = b.reach, a.rise = b.rise, a.ends = b.ends
  PROVE  a = b
  BY DEF Move

\* Code after code after code, whichever two come first.
LEMMA ThenAssociates ==
  ASSUME NEW a \in Move, NEW b \in Move, NEW c \in Move
  PROVE  Then(Then(a, b), c) = Then(a, Then(b, c))
<1>1. Then(a, b) \in Move /\ Then(b, c) \in Move
  BY ThenFacts
<1>2. CASE a.ends
  BY <1>1, <1>2, ThenFacts
<1>3. CASE ~ a.ends
  <2>1. CASE b.ends
    <3>1. Then(a, b).ends /\ Then(b, c) = b
      BY <1>3, <2>1, ThenFacts
    <3> QED
      BY <1>1, <3>1, ThenFacts
  <2>2. CASE ~ b.ends
    <3> DEFINE l == Then(Then(a, b), c)
               r == Then(a, Then(b, c))
    <3>1. l \in Move /\ r \in Move
      BY <1>1, ThenFacts
    <3>2. /\ Then(a, b).rise = a.rise + b.rise /\ ~ Then(a, b).ends
          /\ Then(b, c).rise = b.rise + c.rise /\ Then(b, c).ends = c.ends
          /\ Then(a, b).reach = IF a.reach >= b.reach - a.rise THEN a.reach ELSE b.reach - a.rise
          /\ Then(b, c).reach = IF b.reach >= c.reach - b.rise THEN b.reach ELSE c.reach - b.rise
      BY <1>3, <2>2, ThenFacts
    <3> DEFINE d == Then(a, b)
               e == Then(b, c)
    <3>3. /\ l.rise = d.rise + c.rise /\ l.ends = c.ends
          /\ l.reach = IF d.reach >= c.reach - d.rise THEN d.reach ELSE c.reach - d.rise
          /\ r.rise = a.rise + e.rise /\ r.ends = e.ends
          /\ r.reach = IF a.reach >= e.reach - a.rise THEN a.reach ELSE e.reach - a.rise
      BY <1>1, <1>3, <3>2, ThenFacts
    <3>4. /\ a.reach \in Nat /\ a.rise \in Int
          /\ b.reach \in Nat /\ b.rise \in Int /\ c.reach \in Nat /\ c.rise \in Int
      BY DEF Move
    <3> HIDE DEF l, r, d, e
    <3>5. l.rise = r.rise /\ l.ends = r.ends
      BY <3>2, <3>3, <3>4 DEF d, e
    <3>6. l.reach = r.reach
      BY <3>2, <3>3, <3>4 DEF d, e
    <3>7. l = r
      BY <3>1, <3>5, <3>6, SameMove
    <3> QED
      BY <3>7 DEF l, r
  <2> QED
    BY <2>1, <2>2
<1> QED
  BY <1>2, <1>3

LEMMA MoveFacts ==
  /\ NoCode \in Move /\ Return \in Move
  /\ \A m \in Nat, n \in Nat : PopPush(m, n) \in Move
  /\ \A a \in Move : Then(a, NoCode) = a /\ Then(NoCode, a) = a
  /\ Then(PopPush(0, 1), PopPush(1, 0)) = NoCode
<1>1. NoCode \in Move /\ Return \in Move
  BY DEF NoCode, Return, Move
<1>2. \A m \in Nat, n \in Nat : PopPush(m, n) \in Move
  BY DEF PopPush, Move
<1>3. ASSUME NEW a \in Move
      PROVE  Then(a, NoCode) = a /\ Then(NoCode, a) = a
  <2>1. /\ NoCode.reach = 0 /\ NoCode.rise = 0 /\ NoCode.ends = FALSE
        /\ a.reach \in Nat /\ a.rise \in Int /\ a.ends \in BOOLEAN
        /\ a.reach + a.rise >= 0
    BY DEF NoCode, Move
  <2>2. Then(NoCode, a) = a
    <3>1. /\ Then(NoCode, a) \in Move
          /\ Then(NoCode, a).reach = a.reach /\ Then(NoCode, a).rise = a.rise
          /\ Then(NoCode, a).ends = a.ends
      BY <1>1, <2>1, ThenFacts
    <3> QED
      BY <3>1, SameMove
  <2>3. Then(a, NoCode) = a
    <3>1. CASE a.ends
      BY <1>1, <3>1, ThenFacts
    <3>2. CASE ~ a.ends
      <4>1. /\ Then(a, NoCode) \in Move
            /\ Then(a, NoCode).rise = a.rise + NoCode.rise
            /\ Then(a, NoCode).ends = NoCode.ends
            /\ Then(a, NoCode).reach = IF a.reach >= NoCode.reach - a.rise
                                       THEN a.reach ELSE NoCode.reach - a.rise
        BY <1>1, <3>2, ThenFacts
      <4>2. /\ Then(a, NoCode).rise = a.rise /\ Then(a, NoCode).ends = a.ends
            /\ Then(a, NoCode).reach = a.reach
        <5>1. a.reach >= NoCode.reach - a.rise /\ a.rise + NoCode.rise = a.rise
          BY <2>1
        <5>2. a.ends = NoCode.ends
          BY <2>1, <3>2
        <5> QED
          BY <4>1, <5>1, <5>2
      <4> QED
        BY <4>1, <4>2, SameMove
    <3> QED
      BY <3>1, <3>2
  <2> QED
    BY <2>2, <2>3
<1>4. Then(PopPush(0, 1), PopPush(1, 0)) = NoCode
  <2> DEFINE a == PopPush(0, 1)
             b == PopPush(1, 0)
  <2>1. /\ a.reach = 0 /\ a.rise = 1 /\ a.ends = FALSE
        /\ b.reach = 1 /\ b.rise = -1 /\ b.ends = FALSE
        /\ NoCode.reach = 0 /\ NoCode.rise = 0 /\ NoCode.ends = FALSE
    BY DEF PopPush, NoCode
  <2>2. a \in Move /\ b \in Move
    BY <1>2
  <2> HIDE DEF a, b
  <2>3. /\ Then(a, b).reach = 0 /\ Then(a, b).rise = 0 /\ Then(a, b).ends = FALSE
        /\ Then(a, b) \in Move
    BY <2>1, <2>2, ThenFacts
  <2>4. Then(a, b) = NoCode
    BY <1>1, <2>1, <2>3, SameMove
  <2> QED
    BY <2>4 DEF a, b
<1> QED
  BY <1>1, <1>2, <1>3, <1>4

\* The moves of the operands of a node are all that its own is made of.
LEMMA NodeMoveLocal ==
  ASSUME NEW node, NEW f, NEW g, \A k \in Operands(node) \ {0} : f[k] = g[k]
  PROVE  NodeMove(f, node) = NodeMove(g, node)
<1>1. CASE node.kind = "Grouping"
  BY <1>1 DEF NodeMove, Operands, MoveAt
<1>2. CASE node.kind = "Unary"
  BY <1>2 DEF NodeMove, Operands, MoveAt
<1>3. CASE node.kind \in {"Binary", "Logical"}
  <2>1. MoveAt(f, node.left) = MoveAt(g, node.left) /\ MoveAt(f, node.right) = MoveAt(g, node.right)
    BY <1>3 DEF Operands, MoveAt
  <2> QED
    BY <1>3, <2>1 DEF NodeMove
<1>4. CASE node.kind = "VarDecl"
  BY <1>4 DEF NodeMove, Operands
<1> QED
  BY <1>1, <1>2, <1>3, <1>4 DEF NodeMove

\* f gives the first n nodes their moves.
MovesOf(p, f, n) == f = [i \in 1 .. n |-> NodeMove(f, p.nodes[i])]

LEMMA MovesExist ==
  ASSUME NEW p, Compilable(p)
  PROVE  \E f : MovesOf(p, f, Len(p.nodes))
<1> DEFINE N == Len(p.nodes)
           Bad == {n \in Nat : n <= N /\ \A f : ~ MovesOf(p, f, n)}
<1>1. N \in Nat /\ DOMAIN p.nodes = 1 .. N
  BY DEF Compilable
<1> SUFFICES ASSUME Bad # {} PROVE FALSE
  BY <1>1
<1>2. PICK m \in Bad : \A k \in Bad : m <= k
  BY LeastNatural
<1>3. CASE m = 0
  <2> DEFINE none == [i \in 1 .. 0 |-> NoCode]
  <2>1. MovesOf(p, none, 0)
    BY DEF MovesOf
  <2> QED
    BY <1>2, <1>3, <2>1
<1>4. CASE m # 0
  <2>1. m - 1 \in Nat /\ m \in 1 .. N /\ m - 1 \notin Bad
    BY <1>1, <1>2, <1>4
  <2>2. PICK f : MovesOf(p, f, m - 1)
    BY <1>1, <2>1
  <2> DEFINE g == [i \in 1 .. m |-> NodeMove(f, p.nodes[i])]
  <2>3. \A i \in 1 .. m - 1 : g[i] = f[i]
    <3>1. f = [i \in 1 .. m - 1 |-> NodeMove(f, p.nodes[i])]
      BY <2>2 DEF MovesOf
    <3>2. ASSUME NEW i \in 1 .. m - 1 PROVE g[i] = f[i]
      <4>1. i \in 1 .. m
        BY <2>1
      <4>2. f[i] = NodeMove(f, p.nodes[i])
        BY <3>1
      <4> QED
        BY <4>1, <4>2
    <3> QED
      BY <3>2
  <2>4. g = [i \in 1 .. m |-> g[i]] /\ \A i \in 1 .. m : g[i] = NodeMove(f, p.nodes[i])
    OBVIOUS
  <2> HIDE DEF g
  <2>5. ASSUME NEW i \in 1 .. m
        PROVE  NodeMove(f, p.nodes[i]) = NodeMove(g, p.nodes[i])
    <3>1. \A k \in Operands(p.nodes[i]) \ {0} : k \in 1 .. m - 1
      <4>1. i \in DOMAIN p.nodes /\ i <= m
        BY <1>1, <2>1
      <4>2. \A k \in Operands(p.nodes[i]) \ {0} : k \in 1 .. N /\ k < i
        BY <1>1, <4>1, OperandFacts
      <4> QED
        BY <1>1, <2>1, <4>1, <4>2
    <3> QED
      BY <2>3, <3>1, NodeMoveLocal
  <2>6. MovesOf(p, g, m)
    BY <2>4, <2>5 DEF MovesOf
  <2> QED
    BY <1>2, <2>6
<1> QED
  BY <1>3, <1>4

LEMMA MovesUnfold ==
  ASSUME NEW p, Compilable(p)
  PROVE  \A i \in DOMAIN p.nodes : Moves(p)[i] = NodeMove(Moves(p), p.nodes[i])
<1> DEFINE Is(f) == f = [i \in DOMAIN p.nodes |-> NodeMove(f, p.nodes[i])]
           g == CHOOSE f : Is(f)
<1>1. Moves(p) = g
  BY DEF Moves
<1>2. DOMAIN p.nodes = 1 .. Len(p.nodes)
  BY DEF Compilable
<1>3. PICK f : MovesOf(p, f, Len(p.nodes))
  BY MovesExist
<1>4. Is(f)
  BY <1>2, <1>3 DEF MovesOf
<1>5. Is(g)
  BY <1>4
<1> HIDE DEF g
<1> QED
  BY <1>1, <1>5

LEMMA NodeMoveTyped ==
  ASSUME NEW node, NEW f, \A k \in Operands(node) \ {0} : f[k] \in Move
  PROVE  NodeMove(f, node) \in Move
<1>1. \A k \in Operands(node) : MoveAt(f, k) \in Move
  BY MoveFacts DEF MoveAt
<1>2. /\ PopPush(0, 1) \in Move /\ PopPush(1, 0) \in Move
      /\ PopPush(1, 1) \in Move /\ PopPush(2, 1) \in Move
  BY MoveFacts
<1>3. CASE node.kind = "Grouping"
  BY <1>1, <1>3 DEF NodeMove, Operands
<1>4. CASE node.kind = "Unary"
  <2>1. MoveAt(f, node.right) \in Move
    BY <1>1, <1>4 DEF Operands
  <2> QED
    BY <1>2, <1>4, <2>1, ThenFacts DEF NodeMove
<1>5. CASE node.kind \in {"Binary", "Logical"}
  <2>1. MoveAt(f, node.left) \in Move /\ MoveAt(f, node.right) \in Move
    BY <1>1, <1>5 DEF Operands
  <2>2. Then(MoveAt(f, node.left), MoveAt(f, node.right)) \in Move
    BY <2>1, ThenFacts
  <2>3. NodeMove(f, node) = Then(Then(MoveAt(f, node.left), MoveAt(f, node.right)), PopPush(2, 1))
    BY <1>5 DEF NodeMove
  <2> QED
    BY <1>2, <2>2, <2>3, ThenFacts
<1>6. CASE node.kind = "VarDecl"
  <2> DEFINE a == IF node.init = 0 THEN PopPush(0, 1) ELSE f[node.init]
  <2>1. a \in Move
    BY <1>2, <1>6 DEF Operands
  <2>2. NodeMove(f, node) = Then(a, PopPush(1, 0))
    BY <1>6 DEF NodeMove
  <2> HIDE DEF a
  <2> QED
    BY <1>2, <2>1, <2>2, ThenFacts
<1>7. CASE node.kind \notin {"Grouping", "Unary", "Binary", "Logical", "VarDecl"}
  BY <1>2, <1>7, MoveFacts DEF NodeMove
<1> QED
  BY <1>3, <1>4, <1>5, <1>6, <1>7

LEMMA MovesTyped ==
  ASSUME NEW p, Compilable(p)
  PROVE  \A i \in {0} \cup DOMAIN p.nodes : MoveAt(Moves(p), i) \in Move
<1> DEFINE f == Moves(p)
           Bad == {i \in DOMAIN p.nodes : f[i] \notin Move}
<1>1. DOMAIN p.nodes \in SUBSET Nat
  BY DEF Compilable
<1>2. Bad = {}
  <2> SUFFICES ASSUME Bad # {} PROVE FALSE
    OBVIOUS
  <2>1. PICK i \in Bad : \A k \in Bad : i <= k
    BY <1>1, LeastNatural
  <2>2. \A k \in Operands(p.nodes[i]) \ {0} : f[k] \in Move
    <3> TAKE k \in Operands(p.nodes[i]) \ {0}
    <3>1. k \in DOMAIN p.nodes /\ k < i
      BY OperandFacts
    <3> QED
      BY <1>1, <2>1, <3>1
  <2>3. f[i] = NodeMove(f, p.nodes[i])
    BY MovesUnfold
  <2> HIDE DEF f
  <2> QED
    BY <2>1, <2>2, <2>3, NodeMoveTyped
<1> HIDE DEF f
<1>3. \A i \in DOMAIN p.nodes : f[i] \in Move
  BY <1>2
<1> QED
  BY <1>3, MoveFacts DEF MoveAt, f

\* f gives the moves of the first n statements together.
Journey(p, f, n) ==
  f = [s \in 0 .. n |-> IF s = 0 THEN NoCode ELSE Then(f[s - 1], MoveAt(Moves(p), p.stmts[s]))]

LEMMA JourneysExist ==
  ASSUME NEW p, Compilable(p)
  PROVE  \E f : Journey(p, f, Len(p.stmts))
<1> DEFINE N == Len(p.stmts)
           Bad == {n \in Nat : n <= N /\ \A f : ~ Journey(p, f, n)}
           At1(s) == MoveAt(Moves(p), p.stmts[s])
<1>1. N \in Nat
  BY DEF Compilable
<1> SUFFICES ASSUME Bad # {} PROVE FALSE
  BY <1>1
<1>2. PICK m \in Bad : \A k \in Bad : m <= k
  BY LeastNatural
<1>3. CASE m = 0
  <2> DEFINE none == [s \in 0 .. 0 |-> NoCode]
  <2>1. Journey(p, none, 0)
    BY DEF Journey
  <2> QED
    BY <1>2, <1>3, <2>1
<1>4. CASE m # 0
  <2>1. m - 1 \in Nat /\ m <= N /\ m - 1 \notin Bad
    BY <1>1, <1>2, <1>4
  <2>2. PICK f : Journey(p, f, m - 1)
    BY <1>1, <2>1
  <2>3. \A s \in 0 .. m - 1 : f[s] = IF s = 0 THEN NoCode ELSE Then(f[s - 1], At1(s))
    <3>1. f = [s \in 0 .. m - 1 |-> IF s = 0 THEN NoCode ELSE Then(f[s - 1], At1(s))]
      BY <2>2 DEF Journey
    <3> HIDE DEF At1
    <3> QED
      BY <3>1
  <2> DEFINE g == [s \in 0 .. m |-> IF s = 0 THEN NoCode ELSE Then(f[s - 1], At1(s))]
  <2> HIDE DEF At1
  <2>4. \A s \in 0 .. m - 1 : g[s] = f[s]
    BY <2>1, <2>3
  <2>5. \A s \in 0 .. m : g[s] = IF s = 0 THEN NoCode ELSE Then(g[s - 1], At1(s))
    <3> TAKE s \in 0 .. m
    <3>1. s # 0 => s - 1 \in 0 .. m - 1
      BY <2>1
    <3> QED
      BY <2>4, <3>1
  <2>6. g = [s \in 0 .. m |-> g[s]]
    OBVIOUS
  <2> HIDE DEF g
  <2>7. Journey(p, g, m)
    BY <2>5, <2>6 DEF Journey, At1
  <2> QED
    BY <1>2, <2>7
<1> QED
  BY <1>3, <1>4

LEMMA JourneyUnfolds ==
  ASSUME NEW p, Compilable(p)
  PROVE  /\ MoveOf(p)[0] = NoCode
         /\ \A s \in 1 .. Len(p.stmts) :
              MoveOf(p)[s] = Then(MoveOf(p)[s - 1], MoveAt(Moves(p), p.stmts[s]))
<1> DEFINE N == Len(p.stmts)
           Is(f) == f = [s \in 0 .. N |-> IF s = 0 THEN NoCode
                                          ELSE Then(f[s - 1], MoveAt(Moves(p), p.stmts[s]))]
           g == CHOOSE f : Is(f)
<1>1. MoveOf(p) = g
  BY DEF MoveOf
<1>2. PICK f : Journey(p, f, N)
  BY JourneysExist
<1>3. Is(f)
  BY <1>2 DEF Journey
<1>4. Is(g)
  BY <1>3
<1>5. N \in Nat
  BY DEF Compilable
<1> HIDE DEF g, N
<1>6. \A s \in 0 .. N : g[s] = IF s = 0 THEN NoCode
                               ELSE Then(g[s - 1], MoveAt(Moves(p), p.stmts[s]))
  BY <1>4
<1> QED
  BY <1>1, <1>5, <1>6 DEF N

LEMMA JourneyTyped ==
  ASSUME NEW p, Compilable(p)
  PROVE  \A s \in 0 .. Len(p.stmts) : MoveOf(p)[s] \in Move
<1> DEFINE n == Len(p.stmts)
           f == MoveOf(p)
           Bad == {s \in 0 .. n : f[s] \notin Move}
<1>1. n \in Nat /\ DOMAIN p.stmts = 1 .. n
  BY DEF Compilable
<1> SUFFICES ASSUME Bad # {} PROVE FALSE
  OBVIOUS
<1>2. Bad \in SUBSET Nat
  BY <1>1
<1>3. PICK s \in Bad : \A k \in Bad : s <= k
  BY <1>2, LeastNatural
<1>4. s # 0
  BY <1>3, JourneyUnfolds, MoveFacts
<1>5. s \in 1 .. n /\ s - 1 \in 0 .. n /\ s - 1 \notin Bad
  BY <1>1, <1>3, <1>4
<1>6. MoveAt(Moves(p), p.stmts[s]) \in Move
  <2>1. p.stmts[s] \in {0} \cup DOMAIN p.nodes
    BY <1>1, <1>5 DEF Compilable, WellFormed
  <2> QED
    BY <2>1, MovesTyped
<1>7. f[s] = Then(f[s - 1], MoveAt(Moves(p), p.stmts[s]))
  BY <1>5, JourneyUnfolds
<1> HIDE DEF f
<1>8. f[s] \in Move
  BY <1>5, <1>6, <1>7, ThenFacts
<1> QED
  BY <1>3, <1>8

(***************************************************************************)
(* What is left to do moves the stack: w holds the move up to each item,   *)
(* and after the last one.                                                 *)
(***************************************************************************)

Counts(p, items, w) ==
  /\ w \in [1 .. Len(items) + 1 -> Move]
  /\ \A k \in 1 .. Len(items) : w[k + 1] = Then(w[k], ItemMove(p, items[k]))

LEMMA OpMoveFacts ==
  /\ \A op \in HandledCode : OpMove(op) \in Move
  /\ OpMove(OPCode.Return) = Return
  /\ OpMove(OPCode.SetGlobal) = PopPush(1, 0)
  /\ \A op : op # OPCode.Return /\ op # OPCode.SetGlobal => OpMove(op) = PopPush(Need(op), 1)
<1>1. OPCode.Return # OPCode.SetGlobal
  BY OpcodeFacts
<1>2. /\ OpMove(OPCode.Return) = Return
      /\ OpMove(OPCode.SetGlobal) = PopPush(1, 0)
      /\ \A op : op # OPCode.Return /\ op # OPCode.SetGlobal => OpMove(op) = PopPush(Need(op), 1)
  BY <1>1 DEF OpMove
<1>3. \A op \in HandledCode : Need(op) \in Nat
  <2>1. HandledCode = BinaryCode \cup {OPCode.And, OPCode.Or}
                        \cup {OPCode.Negate, OPCode.Not, OPCode.SetGlobal}
                        \cup {OPCode.Return, OPCode.Constant, OPCode.GetGlobal}
    BY DEF HandledCode, OperandCode
  <2> QED
    BY <2>1, NeedFacts
<1> QED
  BY <1>2, <1>3, MoveFacts

LEMMA ItemMoves ==
  ASSUME NEW p, Compilable(p)
  PROVE  /\ \A i : ItemMove(p, Visit(i)) = MoveAt(Moves(p), i)
         /\ \A op : ItemMove(p, Emit(op)) = OpMove(op)
         /\ \A op, v : ItemMove(p, EmitValue(op, v)) = OpMove(op)
         /\ \A item \in Items(p) : ItemMove(p, item) \in Move
<1>1. /\ \A i : ItemMove(p, Visit(i)) = MoveAt(Moves(p), i)
      /\ \A op : ItemMove(p, Emit(op)) = OpMove(op)
      /\ \A op, v : ItemMove(p, EmitValue(op, v)) = OpMove(op)
  BY DEF ItemMove, Visit, Emit, EmitValue
<1>2. ASSUME NEW item \in Items(p)
      PROVE  ItemMove(p, item) \in Move
  <2>1. CASE \E i \in {0} \cup DOMAIN p.nodes : item = Visit(i)
    BY <1>1, <2>1, MovesTyped
  <2>2. CASE \E op \in PlainCode : item = Emit(op)
    BY <1>1, <2>2, OpMoveFacts, CodeSets
  <2>3. CASE \E op \in OperandCode, v \in Value : item = EmitValue(op, v)
    BY <1>1, <2>3, OpMoveFacts, CodeSets
  <2> QED
    BY <2>1, <2>2, <2>3 DEF Items
<1> QED
  BY <1>1, <1>2

\* Up to three items.
LEMMA ShortCount ==
  ASSUME NEW p, Compilable(p), NEW n \in 0 .. 3, NEW items \in Seq(Items(p)), Len(items) = n,
         NEW x \in Move
  PROVE  \E w : Counts(p, items, w) /\ w[1] = x
<1> DEFINE M(k) == ItemMove(p, items[k])
           a == Then(x, M(1))
           b == Then(a, M(2))
           c == Then(b, M(3))
           w == [k \in 1 .. n + 1 |-> IF k = 1 THEN x ELSE IF k = 2 THEN a ELSE IF k = 3 THEN b ELSE c]
<1>1. \A k \in 1 .. n : M(k) \in Move
  <2>1. \A k \in 1 .. n : items[k] \in Items(p)
    OBVIOUS
  <2>2. \A item \in Items(p) : ItemMove(p, item) \in Move
    BY ItemMoves
  <2> QED
    BY <2>1, <2>2
<1> HIDE DEF M
<1>2. /\ n >= 1 => a \in Move
      /\ n >= 2 => b \in Move
      /\ n >= 3 => c \in Move
  <2>1. n >= 1 => a \in Move
    BY <1>1, ThenFacts
  <2> HIDE DEF a
  <2>2. n >= 2 => b \in Move
    BY <1>1, <2>1, ThenFacts
  <2> HIDE DEF b
  <2>3. n >= 3 => c \in Move
    BY <1>1, <2>2, ThenFacts
  <2> QED
    BY <2>1, <2>2, <2>3
<1> HIDE DEF a, b, c
<1>3. w \in [1 .. n + 1 -> Move]
  BY <1>1, <1>2
<1>4. /\ w[1] = x
      /\ n >= 1 => w[2] = a
      /\ n >= 2 => w[3] = b
      /\ n >= 3 => w[4] = c
  BY <1>1
<1> HIDE DEF w
<1>5. \A k \in 1 .. n : w[k + 1] = Then(w[k], M(k))
  <2> TAKE k \in 1 .. n
  <2>1. k = 1 \/ k = 2 \/ k = 3
    BY <1>1
  <2> QED
    BY <1>1, <1>4, <2>1 DEF a, b, c
<1>6. Counts(p, items, w)
  BY <1>3, <1>5 DEF Counts, M
<1> QED
  BY <1>4, <1>6

\* What takes the place of a visit moves the stack as the visit does.
LEMMA ExpansionCounts ==
  ASSUME NEW p, Compilable(p), NEW i \in {0} \cup DOMAIN p.nodes, NEW x \in Move
  PROVE  \E w : /\ Counts(p, Expansion(p, i), w)
                /\ w[1] = x
                /\ w[Len(Expansion(p, i)) + 1] = Then(x, MoveAt(Moves(p), i))
<1> DEFINE node == p.nodes[i]
           items == Expansion(p, i)
           f == Moves(p)
           m == MoveAt(f, i)
<1>1. items \in Seq(Items(p))
  BY ExpansionItems
<1>2. i # 0 => m = NodeMove(f, node)
  BY MovesUnfold DEF MoveAt
<1>3. CASE i = 0
  <2>1. items = <<>> /\ m = NoCode
    BY <1>3 DEF Expansion, MoveAt
  <2> HIDE DEF items, m
  <2>2. Len(items) = 0 /\ 0 \in 0 .. 3 /\ Then(x, m) = x
    BY <2>1, MoveFacts
  <2>3. PICK w : Counts(p, items, w) /\ w[1] = x
    BY <1>1, <2>2, ShortCount
  <2> QED
    BY <2>2, <2>3 DEF items, m
<1> SUFFICES ASSUME i # 0 PROVE \E w : Counts(p, items, w) /\ w[1] = x /\ w[Len(items) + 1] = Then(x, m)
  BY <1>3
<1>4. node \in ASTNode(String, Value)
  BY DEF Compilable
<1>5. \A k \in Operands(node) : MoveAt(f, k) \in Move
  BY OperandFacts, MovesTyped
<1>6. ASSUME NEW a, items = <<a>>, ItemMove(p, a) = m
      PROVE  \E w : Counts(p, items, w) /\ w[1] = x /\ w[Len(items) + 1] = Then(x, m)
  <2> HIDE DEF items, m
  <2>1. Len(items) = 1 /\ items[1] = a
    BY <1>6
  <2>2. PICK w : Counts(p, items, w) /\ w[1] = x
    BY <1>1, <2>1, ShortCount
  <2>3. w[1 + 1] = Then(x, m)
    BY <1>6, <2>1, <2>2 DEF Counts
  <2> QED
    BY <2>1, <2>2, <2>3
<1>7. ASSUME NEW a, NEW b, items = <<a, b>>, ItemMove(p, a) \in Move, ItemMove(p, b) \in Move,
             Then(ItemMove(p, a), ItemMove(p, b)) = m
      PROVE  \E w : Counts(p, items, w) /\ w[1] = x /\ w[Len(items) + 1] = Then(x, m)
  <2> HIDE DEF items, m
  <2>1. Len(items) = 2 /\ items[1] = a /\ items[2] = b
    BY <1>7
  <2>2. Then(Then(x, ItemMove(p, a)), ItemMove(p, b)) = Then(x, m)
    BY <1>7, ThenAssociates
  <2>3. PICK w : Counts(p, items, w) /\ w[1] = x
    BY <1>1, <2>1, ShortCount
  <2>4. w[1 + 1] = Then(x, ItemMove(p, a)) /\ w[2 + 1] = Then(w[2], ItemMove(p, b))
    BY <2>1, <2>3 DEF Counts
  <2> QED
    BY <2>1, <2>2, <2>3, <2>4
<1>8. CASE node.kind = "Literal"
  <2>1. items = <<EmitValue(OPCode.Constant, node.value)>> /\ m = PopPush(0, 1)
    BY <1>2, <1>8 DEF Expansion, NodeMove
  <2> HIDE DEF items, m
  <2>2. ItemMove(p, EmitValue(OPCode.Constant, node.value)) = PopPush(0, 1)
    BY ItemMoves, OpMoveFacts, OpcodeFacts, NeedFacts
  <2> QED
    BY <1>6, <2>1, <2>2
<1>9. CASE node.kind = "Var"
  <2>1. items = <<EmitValue(OPCode.GetGlobal, Str(node.name))>> /\ m = PopPush(0, 1)
    BY <1>2, <1>9 DEF Expansion, NodeMove
  <2> HIDE DEF items, m
  <2>2. ItemMove(p, EmitValue(OPCode.GetGlobal, Str(node.name))) = PopPush(0, 1)
    BY ItemMoves, OpMoveFacts, OpcodeFacts, NeedFacts
  <2> QED
    BY <1>6, <2>1, <2>2
<1>10. CASE node.kind = "Grouping"
  <2>1. items = <<Visit(node.expr)>> /\ m = MoveAt(f, node.expr)
    BY <1>2, <1>10 DEF Expansion, NodeMove
  <2> HIDE DEF items, m
  <2> QED
    BY <1>6, <2>1, ItemMoves
<1>11. CASE node.kind = "Unary"
  <2> DEFINE op == UnaryOpcode[node.op]
  <2>1. items = <<Visit(node.right), Emit(op)>>
    BY <1>11 DEF Expansion
  <2>2. m = Then(MoveAt(f, node.right), PopPush(1, 1))
    BY <1>2, <1>11 DEF NodeMove
  <2>3. MoveAt(f, node.right) \in Move
    BY <1>5, <1>11 DEF Operands
  <2>4. op \in {OPCode.Negate, OPCode.Not}
    BY <1>4, <1>11, NodeFacts, OperatorCodes
  <2> HIDE DEF items, m, op
  <2>5. OpMove(op) = PopPush(1, 1)
    BY <2>4, OpMoveFacts, OpcodeFacts, NeedFacts
  <2> QED
    BY <1>7, <2>1, <2>2, <2>3, <2>5, ItemMoves, MoveFacts
<1>12. CASE node.kind \in {"Binary", "Logical"}
  <2> DEFINE op == IF node.kind = "Binary" THEN BinaryOpcode[node.op] ELSE LogicalOpcode[node.op]
             a == MoveAt(f, node.left)
             b == MoveAt(f, node.right)
  <2>1. items = <<Visit(node.left), Visit(node.right), Emit(op)>>
    BY <1>12 DEF Expansion
  <2>2. m = Then(Then(a, b), PopPush(2, 1))
    BY <1>2, <1>12 DEF NodeMove
  <2>3. a \in Move /\ b \in Move
    BY <1>5, <1>12 DEF Operands
  <2>4. op \in BinaryCode \cup {OPCode.And, OPCode.Or}
    BY <1>4, <1>12, NodeFacts, OperatorCodes
  <2> HIDE DEF op
  <2>5. OpMove(op) = PopPush(2, 1)
    BY <2>4, OpMoveFacts, OpcodeFacts, CodeSets, NeedFacts
  <2>6. /\ ItemMove(p, Visit(node.left)) = a /\ ItemMove(p, Visit(node.right)) = b
        /\ ItemMove(p, Emit(op)) = PopPush(2, 1)
    BY <2>5, ItemMoves
  <2> HIDE DEF items, m, a, b
  <2>7. /\ Len(items) = 3 /\ items[1] = Visit(node.left) /\ items[2] = Visit(node.right)
        /\ items[3] = Emit(op)
    BY <2>1
  <2>8. Then(Then(Then(x, a), b), PopPush(2, 1)) = Then(x, m)
    <3>1. PopPush(2, 1) \in Move /\ Then(a, b) \in Move
      BY <2>3, MoveFacts, ThenFacts
    <3>2. Then(Then(x, a), b) = Then(x, Then(a, b))
      BY <2>3, ThenAssociates
    <3>3. Then(Then(x, Then(a, b)), PopPush(2, 1)) = Then(x, Then(Then(a, b), PopPush(2, 1)))
      BY <3>1, ThenAssociates
    <3> QED
      BY <2>2, <3>2, <3>3
  <2>9. PICK w : Counts(p, items, w) /\ w[1] = x
    BY <1>1, <2>7, ShortCount
  <2>10. /\ w[1 + 1] = Then(x, a) /\ w[2 + 1] = Then(w[2], b)
         /\ w[3 + 1] = Then(w[3], PopPush(2, 1))
    BY <2>6, <2>7, <2>9 DEF Counts
  <2> QED
    BY <2>7, <2>8, <2>9, <2>10
<1>13. CASE node.kind = "VarDecl"
  <2> DEFINE a == IF node.init # 0 THEN Visit(node.init) ELSE EmitValue(OPCode.Constant, Undefined)
             b == EmitValue(OPCode.SetGlobal, Str(node.name))
             c == IF node.init = 0 THEN PopPush(0, 1) ELSE f[node.init]
  <2>1. items = <<a, b>>
    BY <1>13 DEF Expansion
  <2>2. m = Then(c, PopPush(1, 0))
    BY <1>2, <1>13 DEF NodeMove
  <2>3. ItemMove(p, a) = c
    <3>1. ItemMove(p, EmitValue(OPCode.Constant, Undefined)) = PopPush(0, 1)
      BY ItemMoves, OpMoveFacts, OpcodeFacts, NeedFacts
    <3>2. node.init # 0 => ItemMove(p, Visit(node.init)) = f[node.init]
      BY ItemMoves DEF MoveAt
    <3> QED
      BY <3>1, <3>2
  <2>4. c \in Move
    <3>1. node.init # 0 => f[node.init] \in Move
      BY <1>5, <1>13 DEF Operands, MoveAt
    <3> QED
      BY <3>1, MoveFacts
  <2>5. ItemMove(p, b) = PopPush(1, 0) /\ PopPush(1, 0) \in Move
    BY ItemMoves, OpMoveFacts, MoveFacts
  <2> HIDE DEF items, m, a, b, c
  <2> QED
    BY <1>7, <2>1, <2>2, <2>3, <2>4, <2>5
<1>14. CASE node.kind = "Return"
  <2>1. items = <<Emit(OPCode.Return)>> /\ m = Return
    BY <1>2, <1>14 DEF Expansion, NodeMove
  <2> HIDE DEF items, m
  <2> QED
    BY <1>6, <2>1, ItemMoves, OpMoveFacts
<1>15. CASE node.kind \notin {"Literal", "Var", "Grouping", "Unary", "Binary", "Logical",
                              "VarDecl", "Return"}
  <2>1. items = <<>> /\ m = NoCode
    BY <1>2, <1>15 DEF Expansion, NodeMove
  <2> HIDE DEF items, m
  <2>2. Len(items) = 0 /\ 0 \in 0 .. 3 /\ Then(x, m) = x
    BY <2>1, MoveFacts
  <2>3. PICK w : Counts(p, items, w) /\ w[1] = x
    BY <1>1, <2>2, ShortCount
  <2> QED
    BY <2>2, <2>3
<1> HIDE DEF items, m
<1> QED
  BY <1>8, <1>9, <1>10, <1>11, <1>12, <1>13, <1>14, <1>15

\* A count without its first item, and with a visit at its head expanded.
LEMMA CountsTail ==
  ASSUME NEW p, NEW items \in Seq(Items(p)), items # <<>>, NEW w, Counts(p, items, w)
  PROVE  LET rest == [k \in 1 .. Len(items) |-> w[k + 1]]
         IN  /\ Counts(p, Tail(items), rest)
             /\ rest[1] = w[2]
             /\ rest[Len(Tail(items)) + 1] = w[Len(items) + 1]
<1> DEFINE n == Len(items)
           rest == [k \in 1 .. n |-> w[k + 1]]
<1>1. n \in Nat /\ n >= 1 /\ Len(Tail(items)) = n - 1 /\ \A k \in 1 .. n - 1 : Tail(items)[k] = items[k + 1]
  OBVIOUS
<1>2. w \in [1 .. n + 1 -> Move]
  BY DEF Counts
<1>3. \A k \in 1 .. n : rest[k] = w[k + 1]
  OBVIOUS
<1>4. rest \in [1 .. n -> Move]
  BY <1>1, <1>2
<1> HIDE DEF rest
<1>5. ASSUME NEW k \in 1 .. n - 1
      PROVE  rest[k + 1] = Then(rest[k], ItemMove(p, Tail(items)[k]))
  <2>1. k + 1 \in 1 .. n /\ k \in 1 .. n /\ (k + 1) + 1 \in 1 .. n + 1
    BY <1>1
  <2>2. rest[k] = w[k + 1] /\ rest[k + 1] = w[(k + 1) + 1] /\ Tail(items)[k] = items[k + 1]
    BY <1>1, <1>3, <2>1
  <2> QED
    BY <2>1, <2>2 DEF Counts
<1>6. (n - 1) + 1 = n /\ 1 \in 1 .. n /\ n \in 1 .. n
  BY <1>1
<1>7. Counts(p, Tail(items), rest)
  BY <1>1, <1>4, <1>5, <1>6 DEF Counts
<1>8. rest[1] = w[2] /\ rest[n] = w[n + 1]
  BY <1>1, <1>3, <1>6
<1> QED
  BY <1>1, <1>6, <1>7, <1>8 DEF rest

LEMMA CountsExpanded ==
  ASSUME NEW p, Compilable(p), NEW items \in Seq(Items(p)), items # <<>>, NEW w, Counts(p, items, w),
         Head(items).do = "visit"
  PROVE  LET more == Expansion(p, Head(items).node) \o Tail(items)
         IN  \E w2 : /\ Counts(p, more, w2)
                     /\ w2[1] = w[1]
                     /\ w2[Len(more) + 1] = w[Len(items) + 1]
<1> DEFINE n == Len(items)
           i == Head(items).node
           e == Expansion(p, i)
           m == Len(e)
           more == e \o Tail(items)
<1>1. /\ n \in Nat /\ n >= 1 /\ Len(Tail(items)) = n - 1
      /\ \A k \in 1 .. n - 1 : Tail(items)[k] = items[k + 1]
      /\ items[1] = Head(items) /\ 1 \in 1 .. n
      /\ Tail(items) \in Seq(Items(p)) /\ Head(items) \in Items(p)
  OBVIOUS
<1>2. w \in [1 .. n + 1 -> Move] /\ i \in {0} \cup DOMAIN p.nodes /\ w[1] \in Move
      /\ w[1 + 1] = Then(w[1], ItemMove(p, items[1]))
  BY <1>1, ItemFacts DEF Counts
<1>3. w[2] = Then(w[1], MoveAt(Moves(p), i))
  BY <1>1, <1>2 DEF ItemMove
<1>4. PICK u : Counts(p, e, u) /\ u[1] = w[1] /\ u[m + 1] = w[2]
  <2>1. \A x \in Move : \E u : /\ Counts(p, e, u) /\ u[1] = x
                              /\ u[m + 1] = Then(x, MoveAt(Moves(p), i))
    <3> TAKE x \in Move
    <3> DEFINE j == i
    <3>1. j \in {0} \cup DOMAIN p.nodes
      BY <1>2
    <3> HIDE DEF j
    <3>2. \E u : /\ Counts(p, Expansion(p, j), u) /\ u[1] = x
                /\ u[Len(Expansion(p, j)) + 1] = Then(x, MoveAt(Moves(p), j))
      BY <3>1, ExpansionCounts
    <3> QED
      BY <3>2 DEF j
  <2> QED
    BY <1>2, <1>3, <2>1
<1>5. e \in Seq(Items(p))
  BY <1>2, ExpansionItems
<1>6. m \in Nat /\ u \in [1 .. m + 1 -> Move]
  BY <1>4, <1>5 DEF Counts
<1>7. /\ Len(more) = m + (n - 1)
      /\ \A k \in 1 .. m : more[k] = e[k]
      /\ \A k \in m + 1 .. m + (n - 1) : more[k] = items[(k - m) + 1]
  <2>1. /\ Len(more) = m + (n - 1)
        /\ \A k \in 1 .. m : more[k] = e[k]
        /\ \A k \in m + 1 .. m + (n - 1) : more[k] = Tail(items)[k - m]
    BY <1>1, <1>5, <1>6
  <2>2. \A k \in m + 1 .. m + (n - 1) : k - m \in 1 .. n - 1
    BY <1>1, <1>6
  <2> QED
    BY <1>1, <2>1, <2>2
<1> DEFINE w2 == [k \in 1 .. m + n |-> IF k <= m THEN u[k] ELSE w[(k - m) + 1]]
<1>8. /\ \A k \in 1 .. m : w2[k] = u[k]
      /\ \A k \in m + 1 .. m + n : w2[k] = w[(k - m) + 1]
      /\ w2 \in [1 .. m + n -> Move]
  <2>1. \A k \in 1 .. m : k \in 1 .. m + n /\ k <= m /\ k \in 1 .. m + 1
    BY <1>1, <1>6
  <2>2. \A k \in m + 1 .. m + n : k \in 1 .. m + n /\ ~ (k <= m) /\ (k - m) + 1 \in 1 .. n + 1
    BY <1>1, <1>6
  <2>3. \A k \in 1 .. m + n : k \in 1 .. m \/ k \in m + 1 .. m + n
    BY <1>1, <1>6
  <2> QED
    BY <1>2, <1>6, <2>1, <2>2, <2>3
<1>9. w2[m + 1] = w[2] /\ w2[m + 1] = u[m + 1] /\ w2[1] = w[1] /\ w2[m + n] = w[n + 1]
  <2>1. m + 1 \in m + 1 .. m + n /\ m + n \in m + 1 .. m + n
        /\ ((m + 1) - m) + 1 = 2 /\ ((m + n) - m) + 1 = n + 1
    BY <1>1, <1>6
  <2>2. w2[m + 1] = w[2] /\ w2[m + n] = w[n + 1]
    BY <1>8, <2>1
  <2>3. CASE m = 0
    BY <1>4, <1>6, <2>2, <2>3
  <2>4. CASE m # 0
    <3>1. 1 \in 1 .. m
      BY <1>6, <2>4
    <3> QED
      BY <1>4, <1>8, <2>2, <3>1
  <2> QED
    BY <1>4, <2>2, <2>3, <2>4
<1> HIDE DEF e, i, more, w2, m, n
<1>10. ASSUME NEW k \in 1 .. m + (n - 1)
       PROVE  w2[k + 1] = Then(w2[k], ItemMove(p, more[k]))
  <2>1. CASE k \in 1 .. m
    <3>1. w2[k] = u[k] /\ more[k] = e[k] /\ w2[k + 1] = u[k + 1]
      <4>1. k + 1 \in 1 .. m \/ k + 1 = m + 1
        BY <1>6, <2>1
      <4> QED
        BY <1>7, <1>8, <1>9, <2>1, <4>1
    <3> QED
      BY <1>4, <2>1, <3>1 DEF Counts, m
  <2>2. CASE k \in m + 1 .. m + (n - 1)
    <3> DEFINE j == (k - m) + 1
    <3>1. /\ k \in m + 1 .. m + n /\ k + 1 \in m + 1 .. m + n
          /\ j \in 1 .. n /\ ((k + 1) - m) + 1 = j + 1
      BY <1>1, <1>6, <2>2
    <3>2. w2[k] = w[j] /\ more[k] = items[j] /\ w2[k + 1] = w[j + 1]
      BY <1>7, <1>8, <2>2, <3>1
    <3> HIDE DEF j
    <3> QED
      BY <3>1, <3>2 DEF Counts, n
  <2>3. k \in 1 .. m \/ k \in m + 1 .. m + (n - 1)
    BY <1>1, <1>6
  <2> QED
    BY <2>1, <2>2, <2>3
<1>11. Len(more) + 1 = m + n
  BY <1>1, <1>6, <1>7
<1>12. Counts(p, more, w2)
  BY <1>7, <1>8, <1>10, <1>11 DEF Counts
<1> QED
  BY <1>9, <1>11, <1>12 DEF more, e, i, n

\* The visits to all statements move the stack as the program does.
LEMMA ProgramCounts ==
  ASSUME NEW p, Compilable(p), NEW items, items = [k \in DOMAIN p.stmts |-> Visit(p.stmts[k])]
  PROVE  \E w : /\ Counts(p, items, w)
                /\ w[1] = NoCode
                /\ w[Len(items) + 1] = MoveOf(p)[Len(p.stmts)]
<1> DEFINE n == Len(p.stmts)
           f == MoveOf(p)
           w == [k \in 1 .. n + 1 |-> f[k - 1]]
<1>1. n \in Nat /\ DOMAIN p.stmts = 1 .. n
  BY DEF Compilable
<1>2. /\ Len(items) = n
      /\ \A k \in 1 .. n : items[k] = Visit(p.stmts[k])
  BY <1>1
<1>3. f[0] = NoCode /\ \A k \in 1 .. n : f[k] = Then(f[k - 1], MoveAt(Moves(p), p.stmts[k]))
  BY JourneyUnfolds
<1>4. \A k \in 0 .. n : f[k] \in Move
  BY JourneyTyped
<1> HIDE DEF f, n
<1>5. /\ w \in [1 .. n + 1 -> Move]
      /\ \A k \in 1 .. n + 1 : w[k] = f[k - 1]
  <2>1. \A k \in 1 .. n + 1 : k - 1 \in 0 .. n
    BY <1>1
  <2> QED
    BY <1>4, <2>1
<1> HIDE DEF w
<1>6. ASSUME NEW k \in 1 .. n
      PROVE  w[k + 1] = Then(w[k], ItemMove(p, items[k]))
  <2>1. k \in 1 .. n + 1 /\ k + 1 \in 1 .. n + 1 /\ (k + 1) - 1 = k
    BY <1>1
  <2>2. w[k + 1] = Then(w[k], MoveAt(Moves(p), p.stmts[k]))
    BY <1>3, <1>5, <2>1
  <2> QED
    BY <1>2, <2>2, ItemMoves
<1>7. 1 \in 1 .. n + 1 /\ n + 1 \in 1 .. n + 1 /\ 1 - 1 = 0 /\ (n + 1) - 1 = n
  BY <1>1
<1>8. Counts(p, items, w)
  BY <1>2, <1>5, <1>6 DEF Counts
<1> QED
  BY <1>2, <1>3, <1>5, <1>7, <1>8 DEF f, n

(***************************************************************************)
(* What has been emitted moves the stack: s holds the move up to each      *)
(* instruction, and up to the end.                                         *)
(***************************************************************************)

ClimbsAt(buffer, pool, s, at) ==
  LET op == buffer[at + 1]
      next == at + Width(op)
  IN  /\ op \in HandledCode
      /\ next \in DOMAIN s
      /\ s[next] = Then(s[at], OpMove(op))
      /\ op \in OperandCode => buffer[at + 2] < Len(pool)

Climb(buffer, pool, s) ==
  /\ s \in [DOMAIN s -> Move]
  /\ DOMAIN s \subseteq 0 .. Len(buffer)
  /\ 0 \in DOMAIN s /\ s[0] = NoCode
  /\ Len(buffer) \in DOMAIN s
  /\ \A at \in DOMAIN s : at < Len(buffer) => ClimbsAt(buffer, pool, s, at)
  /\ \A at \in DOMAIN s : \E rest \in Move : s[Len(buffer)] = Then(s[at], rest)

\* One instruction more.
LEMMA ClimbExtended ==
  ASSUME NEW buffer \in Seq(Byte), NEW pool \in Seq(Value), NEW s, Climb(buffer, pool, s),
         NEW new \in Seq(Byte), NEW longer \in Seq(Value), NEW op \in HandledCode,
         Len(new) = Len(buffer) + Width(op), new[Len(buffer) + 1] = op,
         \A k \in 1 .. Len(buffer) : new[k] = buffer[k],
         Len(longer) >= Len(pool),
         op \in OperandCode => new[Len(buffer) + 2] < Len(longer)
  PROVE  \E r : /\ Climb(new, longer, r)
                /\ r[Len(new)] = Then(s[Len(buffer)], OpMove(op))
<1> DEFINE L == Len(buffer)
           M == Len(new)
           y == Then(s[L], OpMove(op))
           D == DOMAIN s
           r == [at \in D \cup {M} |-> IF at = M THEN y ELSE s[at]]
<1>1. /\ L \in Nat /\ M \in Nat /\ M > L /\ Len(pool) \in Nat /\ Len(longer) \in Nat
      /\ Width(op) \in {1, 2} /\ M = L + Width(op)
  BY DEF Width
<1>2. /\ D \subseteq 0 .. L /\ 0 \in D /\ L \in D /\ \A at \in D : s[at] \in Move
      /\ OpMove(op) \in Move
  BY OpMoveFacts DEF Climb
<1>3. \A at \in D : at # M /\ at \in 0 .. M
  BY <1>1, <1>2
<1>4. r[M] = y /\ (\A at \in D : r[at] = s[at]) /\ DOMAIN r = D \cup {M}
  BY <1>3
<1>5. r \in [DOMAIN r -> Move]
  <2>1. y \in Move
    BY <1>2, ThenFacts
  <2> HIDE DEF y
  <2> QED
    BY <1>2, <1>4, <2>1
<1> HIDE DEF r, D, y
<1>6. DOMAIN r \subseteq 0 .. M /\ 0 \in DOMAIN r /\ M \in DOMAIN r /\ r[0] = NoCode
  BY <1>1, <1>2, <1>3, <1>4 DEF Climb, D
<1>7. ASSUME NEW at \in DOMAIN r, at < M
      PROVE  ClimbsAt(new, longer, r, at)
  <2>1. at \in D /\ at \in 0 .. L /\ r[at] = s[at]
    <3>1. at # M
      BY <1>1, <1>7
    <3> QED
      BY <1>2, <1>4, <1>7, <3>1
  <2>2. CASE at = L
    <3>1. r[at + Width(op)] = Then(r[at], OpMove(op)) /\ at + Width(op) \in DOMAIN r
      BY <1>1, <1>4, <2>1, <2>2 DEF y
    <3>2. new[at + 1] = op
      BY <2>2
    <3> QED
      BY <2>2, <3>1, <3>2 DEF ClimbsAt
  <2>3. CASE at # L
    <3> DEFINE o == buffer[at + 1]
               next == at + Width(o)
    <3>1. ClimbsAt(buffer, pool, s, at) /\ at + 1 \in 1 .. L
      BY <1>1, <2>1, <2>3 DEF Climb, D
    <3>2. new[at + 1] = o
      BY <3>1
    <3>3. /\ o \in HandledCode /\ next \in D
          /\ s[next] = Then(s[at], OpMove(o))
          /\ o \in OperandCode => buffer[at + 2] < Len(pool)
      BY <3>1 DEF ClimbsAt, D
    <3>4. next \in DOMAIN r /\ r[next] = s[next]
      BY <1>4, <3>3
    <3>5. ASSUME o \in OperandCode
          PROVE  new[at + 2] < Len(longer)
      <4>1. next = at + 2 /\ at + 2 \in 1 .. L
        BY <1>1, <1>2, <2>1, <3>3, <3>5 DEF Width
      <4>2. new[at + 2] = buffer[at + 2] /\ buffer[at + 2] \in Byte
        BY <4>1
      <4>3. \A b \in Byte : b \in Nat
        BY DEF Byte, ByteRange
      <4> QED
        BY <1>1, <3>3, <3>5, <4>2, <4>3
    <3> HIDE DEF o, next
    <3>6. ClimbsAt(new, longer, r, at)
      BY <2>1, <3>2, <3>3, <3>4, <3>5 DEF ClimbsAt, next
    <3> QED
      BY <3>6
  <2> QED
    BY <2>2, <2>3
<1>8. ASSUME NEW at \in DOMAIN r
      PROVE  \E rest \in Move : r[M] = Then(r[at], rest)
  <2>1. CASE at = M
    <3>1. r[M] = Then(r[at], NoCode) /\ NoCode \in Move
      BY <1>5, <2>1, MoveFacts
    <3> QED
      BY <3>1
  <2>2. CASE at # M
    <3>1. at \in D /\ r[at] = s[at]
      BY <1>4, <1>8, <2>2
    <3>2. PICK rest \in Move : s[L] = Then(s[at], rest)
      BY <3>1 DEF Climb, D
    <3>3. s[at] \in Move /\ Then(rest, OpMove(op)) \in Move
      BY <1>2, <3>1, ThenFacts
    <3>4. y = Then(s[at], Then(rest, OpMove(op)))
      BY <1>2, <3>2, <3>3, ThenAssociates DEF y
    <3> QED
      BY <1>4, <3>1, <3>3, <3>4
  <2> QED
    BY <2>1, <2>2
<1>9. Climb(new, longer, r)
  BY <1>5, <1>6, <1>7, <1>8 DEF Climb
<1> QED
  BY <1>4, <1>9 DEF y

\* A step of the machine that finds too few values on the stack.
LEMMA MachineStarves ==
  ASSUME MachineTyped, VMNext, ip < Len(code), Fetched \in HandledCode, Len(stack) < Need(Fetched),
         Fetched \in OperandCode => ip + 1 < Len(code)
  PROVE  result' = "undefined"
<1>1. ip \in Nat /\ Len(stack) \in Nat
  BY DEF MachineTyped
<1>2. \A ops : AtInstruction(ops) => Fetched \in ops
  BY DEF AtInstruction
<1>3. \A op \in {OPCode.Return, OPCode.Constant, OPCode.GetGlobal} : ~ (Len(stack) < Need(op))
  BY <1>1, NeedFacts
<1>4. CASE RunReturn \/ RunConstant \/ RunGetGlobal
  BY <1>2, <1>3, <1>4 DEF RunReturn, RunConstant, RunGetGlobal
<1>5. CASE RunNegate \/ RunNot \/ RunSetGlobal
  <2>1. Need(Fetched) = 1
    BY <1>2, <1>5, NeedFacts DEF RunNegate, RunNot, RunSetGlobal
  <2>2. Underflow(1)
    BY <2>1 DEF Underflow
  <2> QED
    BY <1>5, <2>2 DEF RunNegate, RunNot, RunSetGlobal, StackUndefined
<1>6. CASE RunLogical \/ RunBinary
  <2>1. Need(Fetched) = 2
    BY <1>2, <1>6, NeedFacts DEF RunLogical, RunBinary
  <2>2. Underflow(2)
    BY <2>1 DEF Underflow
  <2> QED
    BY <1>6, <2>2 DEF RunLogical, RunBinary, StackUndefined
<1>7. ~ RunOperandMissing
  BY <1>1 DEF RunOperandMissing
<1>8. ~ RunUnexpected
  BY <1>2 DEF RunUnexpected
<1>9. ~ RunEnd
  BY <1>1 DEF RunEnd
<1> QED
  BY <1>4, <1>5, <1>6, <1>7, <1>8, <1>9 DEF VMNext

\* The stack that an instruction leaves is as high as its move says.
LEMMA ExecutedHeight ==
  ASSUME NEW st, st.stack \in Seq(Value), ~ st.done, NEW op \in HandledCode, op # OPCode.Return,
         Need(op) <= Len(st.stack), NEW v
  PROVE  Len(Executed(op, v, st).stack) = Len(st.stack) + OpMove(op).rise
<1>1. Len(st.stack) \in Nat /\ OPCode.Return # OPCode.SetGlobal
  BY OpcodeFacts
<1>2. CASE op = OPCode.SetGlobal
  <2>1. Executed(op, v, st).stack = SubSeq(st.stack, 1, Len(st.stack) - 1)
    <3>1. Executed(op, v, st)
            = [stack |-> SubSeq(st.stack, 1, Len(st.stack) - 1),
               globals |-> SetIn(st.globals, AsString(v), st.stack[Len(st.stack)]),
               done |-> FALSE]
      BY <1>2, ExecutedFacts
    <3> QED
      BY <3>1
  <2>2. Need(op) = 1 /\ OpMove(op).rise = -1
    BY <1>2, NeedFacts, OpMoveFacts DEF PopPush
  <2>3. Len(st.stack) - 1 \in 0 .. Len(st.stack)
    BY <1>1, <2>2
  <2> QED
    BY <1>1, <2>1, <2>2, <2>3, PrefixFacts
<1>3. CASE op # OPCode.SetGlobal
  <2> DEFINE c == Computed(op, v, st.stack, st.globals)
             low == SubSeq(st.stack, 1, Len(st.stack) - Need(op))
  <2>1. Executed(op, v, st).stack = Append(low, c)
    <3>1. Executed(op, v, st) = [stack |-> Append(low, c), globals |-> st.globals, done |-> FALSE]
      BY <1>3, ExecutedFacts
    <3> HIDE DEF low, c
    <3> QED
      BY <3>1
  <2>2. OpMove(op).rise = 1 - Need(op)
    BY <1>3, OpMoveFacts DEF PopPush
  <2>3. Need(op) \in {0, 1, 2}
    <3>1. HandledCode = BinaryCode \cup {OPCode.And, OPCode.Or}
                          \cup {OPCode.Negate, OPCode.Not, OPCode.SetGlobal}
                          \cup {OPCode.Return, OPCode.Constant, OPCode.GetGlobal}
      BY DEF HandledCode, OperandCode
    <3> QED
      BY <3>1, NeedFacts
  <2>4. Len(st.stack) - Need(op) \in 0 .. Len(st.stack)
    BY <1>1, <2>3
  <2>5. low \in Seq(Value) /\ Len(low) = Len(st.stack) - Need(op)
    BY <2>4, PrefixFacts
  <2> HIDE DEF c, low
  <2>6. Len(Append(low, c)) = Len(low) + 1
    <3>1. \A q \in Seq(Value) : \A z : Len(Append(q, z)) = Len(q) + 1
      OBVIOUS
    <3> QED
      BY <2>5, <3>1
  <2> QED
    BY <1>1, <2>1, <2>2, <2>3, <2>5, <2>6
<1> QED
  BY <1>2, <1>3

\* A step of the machine from where the climb says: to the next instruction,
\* or to an end that depends on how far down the whole code reaches.
LEMMA MachineClimbs ==
  ASSUME MachineTyped, code \in Seq(Byte), ctx \in Seq(Value), VMNext,
         NEW s, Climb(code, ctx, s), ip \in DOMAIN s,
         s[ip].reach = 0, ~ s[ip].ends, Len(stack) = s[ip].rise
  PROVE  \/ /\ result' = "running" /\ ip' \in DOMAIN s
            /\ s[ip'].reach = 0 /\ ~ s[ip'].ends /\ Len(stack') = s[ip'].rise
         \/ result' = "ok" /\ s[Len(code)].reach = 0
         \/ result' = "undefined" /\ s[Len(code)].reach > 0
<1> DEFINE L == Len(code)
           Goal == \/ /\ result' = "running" /\ ip' \in DOMAIN s
                      /\ s[ip'].reach = 0 /\ ~ s[ip'].ends /\ Len(stack') = s[ip'].rise
                   \/ result' = "ok" /\ s[L].reach = 0
                   \/ result' = "undefined" /\ s[L].reach > 0
<1> SUFFICES Goal
  OBVIOUS
<1>1. L \in Nat /\ ip \in 0 .. L /\ s[ip] \in Move /\ stack \in Seq(Value) /\ Len(stack) \in Nat
  BY DEF Climb, MachineTyped
<1>2. CASE ip = L
  <2>1. ~ (ip < L) /\ ip + 1 # L
    BY <1>1, <1>2
  <2>2. \A ops : ~ AtInstruction(ops)
    BY <2>1 DEF AtInstruction
  <2>3. RunEnd
    BY <2>1, <2>2 DEF VMNext, RunReturn, RunConstant, RunNegate, RunNot, RunLogical, RunBinary,
                      RunSetGlobal, RunGetGlobal, RunOperandMissing, RunUnexpected
  <2>4. result' = "ok"
    BY <2>3 DEF RunEnd
  <2> QED
    BY <1>2, <2>4
<1>3. CASE ip # L
  <2> DEFINE op == Fetched
             next == ip + Width(op)
             a == s[ip]
             b == OpMove(op)
             c == s[next]
  <2>1. ip < L /\ ClimbsAt(code, ctx, s, ip)
    BY <1>1, <1>3 DEF Climb
  <2>2. /\ op \in HandledCode /\ next \in DOMAIN s /\ c = Then(a, b)
        /\ op \in OperandCode => Operand < Len(ctx)
    BY <2>1 DEF ClimbsAt, Fetched, Operand
  <2>3. op \in OperandCode => ip + 1 < L /\ OperandInPool
    <3>1. op \in OperandCode => next = ip + 2
      BY DEF Width
    <3>2. next \in 0 .. L
      BY <2>2 DEF Climb
    <3> QED
      BY <1>1, <2>2, <3>1, <3>2 DEF OperandInPool
  <2>4. a \in Move /\ b \in Move /\ c \in Move
    BY <1>1, <2>2, OpMoveFacts DEF Climb
  <2>5. Need(op) \in {0, 1, 2}
    <3>1. HandledCode = BinaryCode \cup {OPCode.And, OPCode.Or}
                          \cup {OPCode.Negate, OPCode.Not, OPCode.SetGlobal}
                          \cup {OPCode.Return, OPCode.Constant, OPCode.GetGlobal}
      BY DEF HandledCode, OperandCode
    <3> QED
      BY <2>2, <3>1, NeedFacts
  <2>6. b.reach = Need(op) /\ (b.ends <=> op = OPCode.Return)
    <3>1. CASE op = OPCode.Return
      <4>1. b = Return /\ Need(op) = 0
        BY <3>1, OpMoveFacts, NeedFacts
      <4> QED
        BY <3>1, <4>1 DEF Return
    <3>2. CASE op = OPCode.SetGlobal
      <4>1. b = PopPush(1, 0) /\ Need(op) = 1 /\ op # OPCode.Return
        BY <3>2, OpMoveFacts, NeedFacts, OpcodeFacts
      <4> QED
        BY <4>1 DEF PopPush
    <3>3. CASE op # OPCode.Return /\ op # OPCode.SetGlobal
      <4>1. b = PopPush(Need(op), 1)
        BY <3>3, OpMoveFacts
      <4> QED
        BY <3>3, <4>1 DEF PopPush
    <3> QED
      BY <3>1, <3>2, <3>3
  <2>7. PICK rest \in Move : s[L] = Then(c, rest)
    BY <2>2 DEF Climb
  <2>8. s[L].reach >= c.reach /\ (c.ends => s[L] = c)
    BY <2>4, <2>7, ThenFacts
  <2> HIDE DEF op, next, a, b, c
  <2>9. /\ a.reach = 0 /\ ~ a.ends /\ a.rise = Len(stack)
        /\ b.rise \in Int /\ c.reach \in Nat
    BY <2>4 DEF a, Move
  <2>10. /\ c.rise = Len(stack) + b.rise /\ c.ends = b.ends
         /\ c.reach = IF 0 >= Need(op) - Len(stack) THEN 0 ELSE Need(op) - Len(stack)
    BY <2>2, <2>4, <2>6, <2>9, ThenFacts
  <2>11. CASE Need(op) <= Len(stack)
    <3> DEFINE v == IF op \in OperandCode THEN Constant(Operand) ELSE Undefined
               x == [stack |-> stack, globals |-> globals, done |-> FALSE]
    <3>1. /\ ip' = next /\ stack' = Executed(op, v, x).stack
          /\ result' = IF op = OPCode.Return THEN "ok" ELSE "running"
      BY <2>1, <2>2, <2>3, <2>11, MachineExecutes DEF op, next
    <3>2. c.reach = 0
      BY <1>1, <2>5, <2>10, <2>11
    <3>3. CASE op = OPCode.Return
      <4>1. c.ends
        BY <2>6, <2>10, <3>3
      <4> QED
        BY <2>8, <3>1, <3>2, <3>3, <4>1
    <3>4. CASE op # OPCode.Return
      <4>1. x.stack = stack /\ ~ x.done
        OBVIOUS
      <4> HIDE DEF x, v
      <4>2. Len(stack') = Len(stack) + b.rise
        BY <1>1, <2>2, <2>11, <3>1, <3>4, <4>1, ExecutedHeight DEF b
      <4>3. ~ c.ends /\ Len(stack') = c.rise
        BY <2>6, <2>10, <3>4, <4>2
      <4> QED
        BY <2>2, <3>1, <3>2, <3>4, <4>3 DEF c
    <3> QED
      BY <3>3, <3>4
  <2>12. CASE ~ (Need(op) <= Len(stack))
    <3>1. Len(stack) < Need(op)
      BY <1>1, <2>5, <2>12
    <3>2. result' = "undefined"
      BY <2>1, <2>2, <2>3, <3>1, MachineStarves DEF op
    <3>3. c.reach > 0
      BY <1>1, <2>5, <2>10, <3>1
    <3>4. s[L].reach \in Int
      <4>1. s[L] \in Move
        BY DEF Climb
      <4> QED
        BY <4>1 DEF Move
    <3> QED
      BY <2>8, <2>9, <3>2, <3>3, <3>4
  <2> QED
    BY <2>11, <2>12
<1> QED
  BY <1>2, <1>3

\* What has been emitted leads to where the rest of the work begins, and that
\* to the move of the program.
Ascends(p, items, buffer, pool, s, w) ==
  /\ Climb(buffer, pool, s)
  /\ Counts(p, items, w)
  /\ w[1] = s[Len(buffer)]
  /\ w[Len(items) + 1] = MoveOf(p)[Len(p.stmts)]

LEMMA AscentBegins ==
  ASSUME NEW p, Compilable(p)
  PROVE  \E s, w : Ascends(p, [k \in DOMAIN p.stmts |-> Visit(p.stmts[k])], <<>>, <<>>, s, w)
<1> DEFINE items == [k \in DOMAIN p.stmts |-> Visit(p.stmts[k])]
           s == [at \in {0} |-> NoCode]
<1>1. PICK w : /\ Counts(p, items, w)
               /\ w[1] = NoCode
               /\ w[Len(items) + 1] = MoveOf(p)[Len(p.stmts)]
  BY ProgramCounts
<1>2. NoCode \in Move /\ Then(NoCode, NoCode) = NoCode
  BY MoveFacts
<1>3. Climb(<<>>, <<>>, s) /\ s[0] = NoCode
  BY <1>2 DEF Climb
<1> HIDE DEF s, items
<1>4. Ascends(p, items, <<>>, <<>>, s, w)
  BY <1>1, <1>3 DEF Ascends
<1> QED
  BY <1>4 DEF items

\* The count before and after an emit differ by its instruction.
LEMMA HeadCounted ==
  ASSUME NEW p, NEW items \in Seq(Items(p)), items # <<>>, NEW w, Counts(p, items, w),
         Head(items).do # "visit"
  PROVE  w[2] = Then(w[1], OpMove(Head(items).op))
<1>1. 1 \in 1 .. Len(items) /\ 1 + 1 = 2 /\ items[1] = Head(items)
  OBVIOUS
<1>2. w[2] = Then(w[1], ItemMove(p, Head(items)))
  BY <1>1 DEF Counts
<1> QED
  BY <1>2 DEF ItemMove

LEMMA EmitAscends ==
  ASSUME NEW p, NEW items \in Seq(Items(p)), items # <<>>,
         NEW buffer \in Seq(Byte), NEW pool \in Seq(Value), NEW s, NEW w,
         Ascends(p, items, buffer, pool, s, w), Head(items).do = "emit"
  PROVE  \E r, u : Ascends(p, Tail(items), Append(buffer, Head(items).op), pool, r, u)
<1> DEFINE op == Head(items).op
           new == Append(buffer, op)
           L == Len(buffer)
<1>1. Head(items) \in Items(p)
  OBVIOUS
<1>2. op \in PlainCode
  BY <1>1, ItemFacts
<1>3. op \in HandledCode /\ op \notin OperandCode /\ op \in Byte /\ Width(op) = 1
  BY <1>2, CodeSets DEF PlainCode, Width
<1>4. Counts(p, items, w) /\ Climb(buffer, pool, s) /\ w[1] = s[L]
      /\ w[Len(items) + 1] = MoveOf(p)[Len(p.stmts)]
  BY DEF Ascends
<1>5. w[2] = Then(s[L], OpMove(op))
  BY <1>4, HeadCounted
<1> HIDE DEF op
<1>6. /\ new \in Seq(Byte) /\ Len(new) = L + 1 /\ new[L + 1] = op
      /\ \A k \in 1 .. L : new[k] = buffer[k]
      /\ Len(pool) \in Nat
  BY <1>3
<1> HIDE DEF new
<1>7. PICK r : Climb(new, pool, r) /\ r[Len(new)] = w[2]
  <2>1. /\ op \in HandledCode /\ op \notin OperandCode /\ Climb(buffer, pool, s)
        /\ new \in Seq(Byte) /\ Len(new) = L + Width(op) /\ new[L + 1] = op
        /\ \A k \in 1 .. L : new[k] = buffer[k]
    BY <1>3, <1>4, <1>6
  <2>2. Len(pool) >= Len(pool)
    BY <1>6
  <2>3. \E r : Climb(new, pool, r) /\ r[Len(new)] = Then(s[L], OpMove(op))
    BY <2>1, <2>2, ClimbExtended, SMTT(60)
  <2> QED
    BY <1>5, <2>3
<1> DEFINE u == [k \in 1 .. Len(items) |-> w[k + 1]]
<1>8. /\ Counts(p, Tail(items), u) /\ u[1] = w[2]
      /\ u[Len(Tail(items)) + 1] = w[Len(items) + 1]
  BY <1>4, CountsTail
<1> HIDE DEF u
<1>9. Ascends(p, Tail(items), new, pool, r, u)
  BY <1>4, <1>7, <1>8 DEF Ascends
<1> QED
  BY <1>9 DEF new, op

LEMMA EmitValueAscends ==
  ASSUME NEW p, NEW items \in Seq(Items(p)), items # <<>>,
         NEW buffer \in Seq(Byte), NEW pool \in Seq(Value), NEW s, NEW w,
         Ascends(p, items, buffer, pool, s, w), Head(items).do = "emitValue"
  PROVE  \E r, u : Ascends(p, Tail(items),
                           buffer \o <<Head(items).op, ToByte(Len(pool))>>,
                           Append(pool, Head(items).value), r, u)
<1> DEFINE op == Head(items).op
           v == Head(items).value
           o == ToByte(Len(pool))
           new == buffer \o <<op, o>>
           longer == Append(pool, v)
           L == Len(buffer)
<1>1. Head(items) \in Items(p)
  OBVIOUS
<1>2. op \in OperandCode /\ v \in Value
  BY <1>1, ItemFacts
<1>3. op \in HandledCode /\ op \in Byte /\ Width(op) = 2
  BY <1>2, CodeSets DEF Width
<1>4. Counts(p, items, w) /\ Climb(buffer, pool, s) /\ w[1] = s[L]
      /\ w[Len(items) + 1] = MoveOf(p)[Len(p.stmts)]
  BY DEF Ascends
<1>5. w[2] = Then(s[L], OpMove(op))
  BY <1>4, HeadCounted
<1> HIDE DEF op, v
<1>6. o \in Byte /\ o <= Len(pool)
  BY ToByteFacts
<1> HIDE DEF o
<1>7. /\ new \in Seq(Byte) /\ Len(new) = L + 2 /\ new[L + 1] = op /\ new[L + 2] = o
      /\ \A k \in 1 .. L : new[k] = buffer[k]
  BY <1>3, <1>6
<1>8. /\ longer \in Seq(Value) /\ Len(longer) = Len(pool) + 1 /\ Len(pool) \in Nat
  BY <1>2
<1> HIDE DEF new, longer
<1>9. new[L + 2] < Len(longer)
  <2>1. o \in Int
    BY <1>6 DEF Byte, ByteRange
  <2> QED
    BY <1>6, <1>7, <1>8, <2>1
<1>10. Len(longer) >= Len(pool) /\ Len(new) = L + Width(op)
  BY <1>3, <1>7, <1>8
<1>11. PICK r : Climb(new, longer, r) /\ r[Len(new)] = w[2]
  <2>1. /\ op \in HandledCode /\ Climb(buffer, pool, s)
        /\ new \in Seq(Byte) /\ longer \in Seq(Value)
        /\ Len(new) = L + Width(op) /\ new[L + 1] = op
        /\ \A k \in 1 .. L : new[k] = buffer[k]
    BY <1>3, <1>4, <1>7, <1>8, <1>10
  <2>2. \E r : Climb(new, longer, r) /\ r[Len(new)] = Then(s[L], OpMove(op))
    BY <1>9, <1>10, <2>1, ClimbExtended, SMTT(60)
  <2> QED
    BY <1>5, <2>2
<1> DEFINE u == [k \in 1 .. Len(items) |-> w[k + 1]]
<1>12. /\ Counts(p, Tail(items), u) /\ u[1] = w[2]
       /\ u[Len(Tail(items)) + 1] = w[Len(items) + 1]
  BY <1>4, CountsTail
<1> HIDE DEF u
<1>13. Ascends(p, Tail(items), new, longer, r, u)
  BY <1>4, <1>11, <1>12 DEF Ascends
<1> QED
  BY <1>13 DEF new, longer, o, op, v

LEMMA VisitAscends ==
  ASSUME NEW p, Compilable(p), NEW items \in Seq(Items(p)), items # <<>>,
         NEW buffer, NEW pool, NEW s, NEW w,
         Ascends(p, items, buffer, pool, s, w), Head(items).do = "visit"
  PROVE  \E u : Ascends(p, Expansion(p, Head(items).node) \o Tail(items), buffer, pool, s, u)
<1> DEFINE more == Expansion(p, Head(items).node) \o Tail(items)
<1>1. Counts(p, items, w)
  BY DEF Ascends
<1>2. PICK u : /\ Counts(p, more, u)
               /\ u[1] = w[1]
               /\ u[Len(more) + 1] = w[Len(items) + 1]
  BY <1>1, CountsExpanded
<1> HIDE DEF more
<1>3. Ascends(p, more, buffer, pool, s, u)
  BY <1>2 DEF Ascends
<1> QED
  BY <1>3 DEF more

\* The machine is on its way up, or has arrived where the tree says.
Upright(s) ==
  /\ result = "running" =>
       /\ ip \in DOMAIN s
       /\ s[ip].reach = 0 /\ ~ s[ip].ends /\ Len(stack) = s[ip].rise
  /\ result \in {"idle", "running", IF Starved THEN "undefined" ELSE "ok"}

Climbs ==
  Compiled =>
    \E s, w : /\ Ascends(program, todo, bytecodeBuffer, constantsPool, s, w)
              /\ Upright(s)

LEMMA InitClimbs == Init => Climbs
<1> SUFFICES ASSUME Init, Compiled
             PROVE  \E s, w : /\ Ascends(program, todo, bytecodeBuffer, constantsPool, s, w)
                              /\ Upright(s)
  BY DEF Climbs
<1>1. CompilerInit /\ result = "idle"
  BY DEF Init, HandmadeInit, Compiled, VMInit
<1>2. Compilable(program) /\ bytecodeBuffer = <<>> /\ constantsPool = <<>>
      /\ todo = [k \in DOMAIN program.stmts |-> Visit(program.stmts[k])]
  BY <1>1, ProgramAssumption DEF CompilerInit
<1>3. PICK s, w : Ascends(program, todo, <<>>, <<>>, s, w)
  BY <1>2, AscentBegins
<1> QED
  BY <1>1, <1>2, <1>3 DEF Upright

LEMMA RewriteClimbs ==
  ASSUME StateInv, Unstarted, Climbs, Rewrite
  PROVE  Climbs'
<1>1. /\ Compilable(program) /\ todo = <<Visit(Root)>> /\ program.stmts = <<Root>>
      /\ Root \in DOMAIN program.nodes
      /\ UNCHANGED <<bytecodeBuffer, constantsPool, vmVars>>
  BY RewriteFacts DEF StateInv, CompilerTyped
<1>2. bytecodeBuffer = <<>> /\ constantsPool = <<>>
  <2>1. todo[1].do = "visit" /\ todo[1].node = Root /\ 1 \in DOMAIN todo /\ Root \in Nat
    BY <1>1 DEF Visit, Compilable
  <2> QED
    BY <1>1, <2>1 DEF Unstarted
<1>3. result = "idle" /\ result' = "idle"
  BY <1>1 DEF StateInv, Loaded, vmVars
<1>4. Compilable(program') /\ todo' = [k \in DOMAIN program'.stmts |-> Visit(program'.stmts[k])]
  <2>1. CASE program' = program /\ todo' = todo
    BY <1>1, <2>1
  <2>2. CASE ~ (program' = program /\ todo' = todo)
    <3>1. PICK v \in Value :
            /\ program' = [nodes |-> Append(program.nodes, Literal(v)),
                           stmts |-> <<Len(program.nodes) + 1>>]
            /\ todo' = <<Visit(Len(program.nodes) + 1)>>
      BY <2>2, RewriteFacts
    <3> QED
      BY <1>1, <3>1, LiteralAppended
  <2> QED
    BY <2>1, <2>2
<1>5. PICK s, w : Ascends(program', todo', <<>>, <<>>, s, w)
  BY <1>4, AscentBegins
<1> QED
  BY <1>1, <1>2, <1>3, <1>5 DEF Climbs, Upright

LEMMA CompileClimbs ==
  ASSUME StateInv, Climbs, Compile
  PROVE  Climbs'
<1>1. CompilerNext /\ UNCHANGED vmVars
  BY DEF Compile
<1>2. /\ Compilable(program) /\ todo \in Seq(Items(program))
      /\ bytecodeBuffer \in Seq(Byte) /\ constantsPool \in Seq(Value)
  BY DEF StateInv, CompilerTyped
<1>3. todo # <<>> /\ program' = program
  BY <1>1, CompileStep DEF StateInv
<1>4. result = "idle" /\ result' = "idle"
  BY <1>1, <1>3 DEF StateInv, Loaded, vmVars
<1> SUFFICES ASSUME Compiled
             PROVE  \E s, w : Ascends(program, todo', bytecodeBuffer', constantsPool', s, w)
  <2>1. \A s : Upright(s)'
    BY <1>4 DEF Upright
  <2> QED
    BY <1>3, <2>1 DEF Climbs, Compiled
<1>5. PICK s, w : Ascends(program, todo, bytecodeBuffer, constantsPool, s, w)
  BY DEF Climbs
<1>6. CASE EmitStep
  BY <1>2, <1>3, <1>5, <1>6, EmitAscends DEF EmitStep
<1>7. CASE EmitValueStep
  BY <1>2, <1>3, <1>5, <1>7, EmitValueAscends DEF EmitValueStep
<1>8. CASE Head(todo).do = "visit" /\ Replace(Expansion(program, Head(todo).node))
  BY <1>2, <1>3, <1>5, <1>8, VisitAscends DEF Replace
<1> QED
  BY <1>1, <1>6, <1>7, <1>8, CompilerSteps

LEMMA RunClimbs ==
  ASSUME StateInv, Climbs, Run
  PROVE  Climbs'
<1>1. VMNext /\ UNCHANGED <<program, todo, bytecodeBuffer, constantsPool>>
  BY DEF Run, compilerVars
<1>2. code \in Seq(Byte) /\ ctx \in Seq(Value) /\ MachineTyped
  BY StateInvImpliesTypeOK DEF StateInv, TypeOK, VMTypeOK
<1>3. result = "running" /\ todo = <<>> /\ code = bytecodeBuffer /\ ctx = constantsPool
  BY <1>1, <1>2, MachineStep DEF StateInv, Loaded
<1> SUFFICES ASSUME Compiled
             PROVE  \E s, w : Ascends(program, todo, code, ctx, s, w) /\ Upright(s)'
  BY <1>1, <1>3 DEF Climbs, Compiled
<1>4. PICK s, w : Ascends(program, todo, code, ctx, s, w) /\ Upright(s)
  BY <1>3 DEF Climbs
<1>5. Climb(code, ctx, s) /\ (Starved <=> s[Len(code)].reach > 0)
  BY <1>3, <1>4 DEF Ascends, Starved
<1>6. s[Len(code)].reach = 0 => ~ (s[Len(code)].reach > 0)
  OBVIOUS
<1>7. \/ /\ result' = "running" /\ ip' \in DOMAIN s
         /\ s[ip'].reach = 0 /\ ~ s[ip'].ends /\ Len(stack') = s[ip'].rise
      \/ result' = "ok" /\ s[Len(code)].reach = 0
      \/ result' = "undefined" /\ s[Len(code)].reach > 0
  BY <1>1, <1>2, <1>3, <1>4, <1>5, MachineClimbs DEF Upright
<1>8. Starved' <=> Starved
  BY <1>1 DEF Starved
<1>9. Upright(s)'
  BY <1>5, <1>6, <1>7, <1>8 DEF Upright
<1> QED
  BY <1>4, <1>9

LEMMA ClimbsStep ==
  ASSUME StateInv, Unstarted, Climbs, [Next]_vars
  PROVE  Climbs'
<1>1. CASE VisitOnly \/ UNCHANGED vars
  <2>1. UNCHANGED <<program, todo, bytecodeBuffer, constantsPool>>
        /\ UNCHANGED <<ip, stack, globals, result>>
    BY <1>1 DEF VisitOnly, vars, compilerVars, vmVars
  <2> QED
    BY <2>1 DEF Climbs, Compiled, Upright, Starved
<1>2. CASE Rewrite
  BY <1>2, RewriteClimbs
<1>3. CASE Compile
  BY <1>3, CompileClimbs
<1>4. CASE Load
  <2>1. /\ ip = 0 /\ stack = <<>>
        /\ UNCHANGED <<program, todo, bytecodeBuffer, constantsPool, ip, stack>>
        /\ result' = "running"
    BY <1>4 DEF Load, StateInv, Loaded, compilerVars
  <2>2. ASSUME NEW s, NEW w, Ascends(program, todo, bytecodeBuffer, constantsPool, s, w)
        PROVE  Upright(s)'
    <3>1. 0 \in DOMAIN s /\ s[0] = NoCode
      BY <2>2 DEF Ascends, Climb
    <3>2. NoCode.reach = 0 /\ ~ NoCode.ends /\ NoCode.rise = 0 /\ Len(<<>>) = 0
      BY DEF NoCode
    <3> QED
      BY <2>1, <3>1, <3>2 DEF Upright
  <2> QED
    BY <2>1, <2>2 DEF Climbs, Compiled
<1>5. CASE Run
  BY <1>5, RunClimbs
<1> QED
  BY <1>1, <1>2, <1>3, <1>4, <1>5 DEF Next

LEMMA ClimbsHolds == Spec => []Climbs
<1>1. StateInv /\ Unstarted /\ Climbs /\ [Next]_vars => Climbs'
  BY ClimbsStep
<1> QED
  BY InitClimbs, StateInvHolds, UnstartedHolds, <1>1, PTL DEF Spec

\* A supported program has a part that is whole, with all its statements.
LEMMA SupportedPart ==
  ASSUME Supported
  PROVE  \E S : Part(S)
<1>1. PICK S : Whole(program, S) /\ ToSet(program.stmts) \subseteq S \cup {0}
  BY DEF Supported
<1>2. \A k \in DOMAIN program.stmts : program.stmts[k] \in S \cup {0}
  BY <1>1 DEF ToSet
<1> QED
  BY <1>1, <1>2 DEF Part

\* In a part that is whole an expression leaves its value and takes nothing.
LEMMA WholeMoves ==
  ASSUME NEW p, Compilable(p), NEW S, Whole(p, S)
  PROVE  \A i \in S : p.nodes[i].kind \in ExprKind => Moves(p)[i] = PopPush(0, 1)
<1> DEFINE f == Moves(p)
           Bad == {i \in S : p.nodes[i].kind \in ExprKind /\ f[i] # PopPush(0, 1)}
<1> SUFFICES ASSUME Bad # {} PROVE FALSE
  OBVIOUS
<1>1. S \subseteq DOMAIN p.nodes /\ DOMAIN p.nodes \in SUBSET Nat
  BY DEF Whole, Compilable
<1>2. PICK i \in Bad : \A k \in Bad : i <= k
  BY <1>1, LeastNatural
<1> DEFINE node == p.nodes[i]
<1>3. \A k \in Operands(node) : MoveAt(f, k) = PopPush(0, 1)
  <2> TAKE k \in Operands(node)
  <2>1. i \in S /\ i \in DOMAIN p.nodes /\ k \in S /\ k \in DOMAIN p.nodes /\ k # 0
    <3>1. i \in S /\ k \in S
      BY <1>2 DEF Whole
    <3>2. 0 \notin DOMAIN p.nodes
      BY DEF Compilable
    <3> QED
      BY <1>1, <3>1, <3>2
  <2>2. k < i /\ p.nodes[k].kind \in ExprKind
    BY <2>1, OperandFacts
  <2> QED
    BY <1>1, <1>2, <2>1, <2>2 DEF MoveAt
<1>4. f[i] = NodeMove(f, node) /\ node.kind \in ExprKind \ {"Assign", "Call"}
  BY <1>1, <1>2, MovesUnfold DEF Whole
<1> HIDE DEF f, node
<1>5. /\ Then(PopPush(0, 1), PopPush(1, 1)) = PopPush(0, 1)
      /\ Then(Then(PopPush(0, 1), PopPush(0, 1)), PopPush(2, 1)) = PopPush(0, 1)
  <2> DEFINE a == PopPush(0, 1)
             b == PopPush(1, 1)
             c == PopPush(2, 1)
             d == Then(a, a)
  <2>1. /\ a.reach = 0 /\ a.rise = 1 /\ a.ends = FALSE
        /\ b.reach = 1 /\ b.rise = 0 /\ b.ends = FALSE
        /\ c.reach = 2 /\ c.rise = -1 /\ c.ends = FALSE
    BY DEF PopPush
  <2>2. a \in Move /\ b \in Move /\ c \in Move
    BY MoveFacts
  <2> HIDE DEF a, b, c
  <2>3. d \in Move /\ d.reach = 0 /\ d.rise = 2 /\ d.ends = FALSE
    BY <2>1, <2>2, ThenFacts
  <2> HIDE DEF d
  <2>4. /\ Then(a, b) \in Move /\ Then(a, b).reach = 0 /\ Then(a, b).rise = 1
        /\ Then(a, b).ends = FALSE
    BY <2>1, <2>2, ThenFacts
  <2>5. /\ Then(d, c) \in Move /\ Then(d, c).reach = 0 /\ Then(d, c).rise = 1
        /\ Then(d, c).ends = FALSE
    BY <2>1, <2>2, <2>3, ThenFacts
  <2>6. Then(a, b) = a /\ Then(d, c) = a
    BY <2>1, <2>2, <2>4, <2>5, SameMove
  <2> QED
    BY <2>6 DEF a, b, c, d
<1>6. NodeMove(f, node) = PopPush(0, 1)
  <2>1. CASE node.kind \in {"Literal", "Var"}
    BY <2>1 DEF NodeMove
  <2>2. CASE node.kind = "Grouping"
    BY <1>3, <2>2 DEF NodeMove, Operands
  <2>3. CASE node.kind = "Unary"
    <3>1. MoveAt(f, node.right) = PopPush(0, 1)
      BY <1>3, <2>3 DEF Operands
    <3> QED
      BY <1>5, <2>3, <3>1 DEF NodeMove
  <2>4. CASE node.kind \in {"Binary", "Logical"}
    <3>1. MoveAt(f, node.left) = PopPush(0, 1) /\ MoveAt(f, node.right) = PopPush(0, 1)
      BY <1>3, <2>4 DEF Operands
    <3> QED
      BY <1>5, <2>4, <3>1 DEF NodeMove
  <2> QED
    BY <1>4, <2>1, <2>2, <2>3, <2>4 DEF ExprKind
<1> QED
  BY <1>2, <1>4, <1>6 DEF f

LEMMA SupportedNotStarved ==
  ASSUME StateInv, Supported
  PROVE  ~ Starved
<1> DEFINE p == program
           n == Len(p.stmts)
           f == MoveOf(p)
           Low(a) == a \in Move /\ a.reach = 0 /\ a.rise >= 0
           Bad == {k \in 0 .. n : ~ Low(f[k])}
<1>1. Compilable(p)
  BY DEF StateInv, CompilerTyped
<1>2. n \in Nat /\ DOMAIN p.stmts = 1 .. n
  BY <1>1 DEF Compilable
<1>3. PICK S : Whole(p, S) /\ \A k \in DOMAIN p.stmts : p.stmts[k] \in S \cup {0}
  BY SupportedPart DEF Part
<1>4. ASSUME NEW i \in S \cup {0}
      PROVE  Low(MoveAt(Moves(p), i))
  <2> DEFINE node == p.nodes[i]
  <2>1. Low(NoCode) /\ Low(Return) /\ Low(PopPush(0, 1))
    BY MoveFacts DEF NoCode, Return, PopPush
  <2>2. CASE i = 0
    BY <2>1, <2>2 DEF MoveAt
  <2>3. CASE i # 0
    <3>1. i \in S /\ i \in DOMAIN p.nodes /\ MoveAt(Moves(p), i) = Moves(p)[i]
      BY <1>3, <2>3 DEF Whole, MoveAt
    <3>2. Moves(p)[i] = NodeMove(Moves(p), node)
      BY <1>1, <3>1, MovesUnfold
    <3>3. CASE node.kind \in ExprKind
      BY <1>1, <1>3, <2>1, <3>1, <3>3, WholeMoves
    <3>4. CASE node.kind = "VarDecl"
      <4>1. node.init # 0 => Moves(p)[node.init] = PopPush(0, 1)
        <5> SUFFICES ASSUME node.init # 0 PROVE Moves(p)[node.init] = PopPush(0, 1)
          OBVIOUS
        <5>1. node.init \in Operands(node)
          BY <3>4 DEF Operands
        <5>2. node.init \in S /\ p.nodes[node.init].kind \in ExprKind
          BY <1>1, <1>3, <3>1, <5>1, OperandFacts DEF Whole
        <5> QED
          BY <1>1, <1>3, <5>2, WholeMoves
      <4>2. NodeMove(Moves(p), node) = Then(PopPush(0, 1), PopPush(1, 0))
        BY <3>4, <4>1 DEF NodeMove
      <4> QED
        BY <2>1, <3>1, <3>2, <4>2, MoveFacts
    <3>5. CASE node.kind \notin ExprKind \cup {"VarDecl"}
      <4>1. NodeMove(Moves(p), node) \in {NoCode, Return}
        BY <3>5 DEF NodeMove, ExprKind
      <4> HIDE DEF Low
      <4> QED
        BY <2>1, <3>1, <3>2, <4>1
    <3> QED
      BY <3>3, <3>4, <3>5
  <2> QED
    BY <2>2, <2>3
<1>5. ASSUME NEW a, NEW b, Low(a), Low(b)
      PROVE  Low(Then(a, b))
  <2>1. a \in Move /\ b \in Move /\ a.rise \in Int /\ b.rise \in Int
    BY <1>5 DEF Move
  <2>2. CASE a.ends
    BY <1>5, <2>1, <2>2, ThenFacts
  <2>3. CASE ~ a.ends
    <3>1. /\ Then(a, b) \in Move /\ Then(a, b).rise = a.rise + b.rise
          /\ Then(a, b).reach = IF a.reach >= b.reach - a.rise THEN a.reach ELSE b.reach - a.rise
      BY <2>1, <2>3, ThenFacts
    <3> QED
      BY <1>5, <2>1, <3>1
  <2> QED
    BY <2>2, <2>3
<1>6. f[0] = NoCode /\ \A k \in 1 .. n : f[k] = Then(f[k - 1], MoveAt(Moves(p), p.stmts[k]))
  BY <1>1, JourneyUnfolds
<1>7. Low(NoCode)
  BY MoveFacts DEF NoCode
<1> HIDE DEF f, Low
<1>8. Bad = {}
  <2> SUFFICES ASSUME Bad # {} PROVE FALSE
    OBVIOUS
  <2>1. Bad \in SUBSET Nat
    BY <1>2
  <2>2. PICK k \in Bad : \A j \in Bad : k <= j
    BY <2>1, LeastNatural
  <2>3. k # 0
    BY <1>6, <1>7, <2>2
  <2>4. k \in 1 .. n /\ k - 1 \in 0 .. n /\ k - 1 \notin Bad
    BY <1>2, <2>2, <2>3
  <2>5. Low(f[k - 1]) /\ Low(MoveAt(Moves(p), p.stmts[k]))
    BY <1>2, <1>3, <1>4, <2>4
  <2>6. Low(f[k])
    BY <1>5, <1>6, <2>4, <2>5
  <2> QED
    BY <2>2, <2>6
<1>9. Low(f[n])
  BY <1>2, <1>8
<1> QED
  BY <1>9 DEF Low, f, Starved

\* UnderflowForeseen, for every tree that the compiler is given: null operands,
\* assignments and calls as operands, null statements, and the values that
\* earlier expressions left.  Also where a pool of more than 256 constants
\* makes an instruction load the wrong one.
THEOREM UnderflowForeseenHolds == Spec => []UnderflowForeseen
<1>1. StateInv /\ Climbs => UnderflowForeseen
  BY SupportedNotStarved DEF Climbs, Upright, UnderflowForeseen
<1> QED
  BY StateInvHolds, ClimbsHolds, <1>1, PTL

\* CompiledMeansSource, for every program whose constants the offsets can
\* tell apart: there are at most 256 of them.
THEOREM CompiledMeansSourceHolds == Spec => [](PoolFits(constantsPool) => CompiledMeansSource)
<1>1. ASSUME StateInv, Computes, PoolFits(constantsPool), result = "ok", Compiled, Supported
      PROVE  /\ stack = Outcome.stack
             /\ \A n : ResolveGlobal(globals, n) = ResolveGlobal(Outcome.globals, n)
  <2>1. PICK S : Part(S)
    BY <1>1, SupportedPart
  <2> QED
    BY <1>1, <2>1 DEF Computes, OnTrack, Alike, SameEnv
<1>2. StateInv /\ Computes => (PoolFits(constantsPool) => CompiledMeansSource)
  BY <1>1 DEF CompiledMeansSource
<1> QED
  BY StateInvHolds, ComputesHolds, <1>2, PTL

(***************************************************************************)
(* The part of the language on which the two evaluators agree.             *)
(***************************************************************************)

LEMMA NodeTypeLocal ==
  ASSUME NEW node, NEW f, NEW g, \A k \in Operands(node) \ {0} : f[k] = g[k]
  PROVE  NodeType(f, node) = NodeType(g, node)
  BY DEF NodeType, Operands

\* f gives the first n nodes their types.
Types(f, n) == f = [i \in 1 .. n |-> NodeType(f, Node(i))]

LEMMA TypesExist ==
  ASSUME Compilable(program)
  PROVE  \E f : Types(f, Len(program.nodes))
<1> DEFINE N == Len(program.nodes)
           Bad == {n \in Nat : n <= N /\ \A f : ~ Types(f, n)}
<1>1. N \in Nat /\ DOMAIN program.nodes = 1 .. N
  BY DEF Compilable
<1> SUFFICES ASSUME Bad # {} PROVE FALSE
  BY <1>1
<1>2. PICK m \in Bad : \A k \in Bad : m <= k
  BY LeastNatural
<1>3. CASE m = 0
  <2> DEFINE none == [i \in 1 .. 0 |-> "none"]
  <2>1. Types(none, 0)
    BY DEF Types
  <2> QED
    BY <1>2, <1>3, <2>1
<1>4. CASE m # 0
  <2>1. m - 1 \in Nat /\ m \in 1 .. N /\ m - 1 \notin Bad
    BY <1>1, <1>2, <1>4
  <2>2. PICK f : Types(f, m - 1)
    BY <1>1, <2>1
  <2> DEFINE g == [i \in 1 .. m |-> NodeType(f, Node(i))]
  <2>3. \A i \in 1 .. m - 1 : g[i] = f[i]
    <3>1. f = [i \in 1 .. m - 1 |-> NodeType(f, Node(i))]
      BY <2>2 DEF Types
    <3>2. ASSUME NEW i \in 1 .. m - 1 PROVE g[i] = f[i]
      <4>1. i \in 1 .. m
        BY <2>1
      <4>2. f[i] = NodeType(f, Node(i))
        BY <3>1
      <4> QED
        BY <4>1, <4>2
    <3> QED
      BY <3>2
  <2>4. g = [i \in 1 .. m |-> g[i]] /\ \A i \in 1 .. m : g[i] = NodeType(f, Node(i))
    OBVIOUS
  <2> HIDE DEF g
  <2>5. ASSUME NEW i \in 1 .. m
        PROVE  NodeType(f, Node(i)) = NodeType(g, Node(i))
    <3>1. \A k \in Operands(Node(i)) \ {0} : k \in 1 .. m - 1
      <4>1. i \in DOMAIN program.nodes /\ i <= m
        BY <1>1, <2>1
      <4>2. \A k \in Operands(program.nodes[i]) \ {0} : k \in 1 .. N /\ k < i
        BY <1>1, <4>1, OperandFacts
      <4> QED
        BY <1>1, <2>1, <4>1, <4>2 DEF Node
    <3> QED
      BY <2>3, <3>1, NodeTypeLocal
  <2>6. Types(g, m)
    BY <2>4, <2>5 DEF Types
  <2> QED
    BY <1>2, <2>6
<1> QED
  BY <1>3, <1>4

LEMMA TypeUnfolds ==
  ASSUME Compilable(program)
  PROVE  \A i \in DOMAIN program.nodes : AgreedType[i] = NodeType(AgreedType, program.nodes[i])
<1> DEFINE Is(f) == f = [i \in DOMAIN program.nodes |-> NodeType(f, Node(i))]
           g == CHOOSE f : Is(f)
<1>1. AgreedType = g
  BY DEF AgreedType
<1>2. DOMAIN program.nodes = 1 .. Len(program.nodes)
  BY DEF Compilable
<1>3. PICK f : Types(f, Len(program.nodes))
  BY TypesExist
<1>4. Is(f)
  BY <1>2, <1>3 DEF Types
<1>5. Is(g)
  BY <1>4
<1> HIDE DEF g
<1> QED
  BY <1>1, <1>5 DEF Node

\* A node that has a type is not left out, and its operands have types.
LEMMA TypedNode ==
  ASSUME Compilable(program), NEW i \in DOMAIN program.nodes, AgreedType[i] # "none"
  PROVE  /\ program.nodes[i].kind \in {"Literal", "Grouping", "Unary", "Binary", "Logical"}
         /\ \A k \in Operands(program.nodes[i]) : k # 0 /\ AgreedType[k] # "none"
<1> DEFINE node == program.nodes[i]
           type == AgreedType
<1>1. NodeType(type, node) # "none"
  BY TypeUnfolds
<1> HIDE DEF node, type
<1>0. 0 \notin Operands(node)
  BY <1>1 DEF NodeType
<1>2. node.kind \in {"Literal", "Grouping", "Unary", "Binary", "Logical"}
  BY <1>1 DEF NodeType
<1>3. CASE node.kind \in {"Literal", "Grouping", "Unary"}
  <2>1. node.kind = "Literal" => Operands(node) = {}
    BY DEF Operands
  <2>2. node.kind = "Grouping" => Operands(node) = {node.expr} /\ type[node.expr] # "none"
    BY <1>1 DEF Operands, NodeType
  <2>3. node.kind = "Unary" => Operands(node) = {node.right} /\ type[node.right] # "none"
    <3>1. node.kind = "Unary" /\ ~ (node.op = "Minus" /\ type[node.right] = "Number") =>
            node.op = "Bang" /\ type[node.right] # "none"
      BY <1>1 DEF NodeType
    <3> QED
      BY <3>1 DEF Operands
  <2> QED
    BY <1>0, <1>3, <2>1, <2>2, <2>3 DEF node, type
<1>4. CASE node.kind = "Binary"
  <2>1. {type[node.left], type[node.right]} = {"Number"}
    BY <1>1, <1>4 DEF NodeType
  <2> QED
    BY <1>0, <1>4, <2>1 DEF Operands, node, type
<1>5. CASE node.kind = "Logical"
  <2>1. {type[node.left], type[node.right]} = {"Boolean"}
    BY <1>1, <1>5 DEF NodeType
  <2> QED
    BY <1>0, <1>5, <2>1 DEF Operands, node, type
<1> QED
  BY <1>2, <1>3, <1>4, <1>5 DEF node, type

\* What the operators make of numbers and of booleans.
LEMMA AgreedOperators ==
  ASSUME NEW v \in Value, NEW w \in Value
  PROVE  /\ v.kind = "Number" /\ w.kind = "Number" =>
              \A op \in BinaryOp \ {"Less", "Greater"} :
                /\ VMBinary(op, v, w) = InterpreterBinary(op, v, w)
                /\ VMBinary(op, v, w).kind = IF op \in ArithOp THEN "Number" ELSE "Boolean"
         /\ v.kind = "Boolean" /\ w.kind = "Boolean" =>
              \A op \in LogicalOp :
                /\ VMLogical(op, v, w) = InterpreterLogical(op, v, w)
                /\ VMLogical(op, v, w).kind = "Boolean"
         /\ Negated(v).kind = "Number" /\ Not(v).kind = "Boolean"
<1>1. ASSUME v.kind = "Number", w.kind = "Number", NEW op \in BinaryOp \ {"Less", "Greater"}
      PROVE  /\ VMBinary(op, v, w) = InterpreterBinary(op, v, w)
             /\ VMBinary(op, v, w).kind = IF op \in ArithOp THEN "Number" ELSE "Boolean"
  <2>1. CASE op \in ArithOp
    <3>1. VMBinary(op, v, w) = Arithmetic(op, v, w)
      BY <2>1 DEF VMBinary, ArithOp
    <3>2. InterpreterBinary(op, v, w) = Arithmetic(op, v, w)
      BY <1>1, <2>1 DEF InterpreterBinary, InterpreterPlus, ArithOp
    <3> QED
      BY <2>1, <3>1, <3>2 DEF Arithmetic, Num
  <2>2. CASE op \notin ArithOp
    <3>1. Comparable(v, w) /\ AsNumber(v) = v.val /\ AsNumber(w) = w.val
      BY <1>1 DEF Comparable, AsNumber
    <3>2. v.val \in Int /\ w.val \in Int
      <4>1. \A x \in Value : x.kind = "Number" => x.val \in Number
        BY DEF Value, Null, Undefined
      <4> QED
        BY <1>1, <4>1, NumberAssumption
    <3>3. op \in {"EqualEqual", "BangEqual", "GreaterEqual", "LessEqual"}
      BY <2>2 DEF BinaryOp, ArithOp
    <3>4. VMBinary(op, v, w) = InterpreterBinary(op, v, w)
      BY <3>1, <3>2, <3>3
      DEF VMBinary, InterpreterBinary, ArithOp, IsEqual, GreaterOrEqual, LesserOrEqual
    <3>5. VMBinary(op, v, w).kind = "Boolean"
      BY <3>3 DEF VMBinary, ArithOp, Bool
    <3> QED
      BY <2>2, <3>4, <3>5
  <2> QED
    BY <2>1, <2>2
<1>2. ASSUME v.kind = "Boolean", w.kind = "Boolean", NEW op \in LogicalOp
      PROVE  VMLogical(op, v, w) = InterpreterLogical(op, v, w) /\ VMLogical(op, v, w).kind = "Boolean"
  <2>1. v \in {Bool(TRUE), Bool(FALSE)} /\ w \in {Bool(TRUE), Bool(FALSE)}
    BY <1>2 DEF Value, Bool, Null, Undefined
  <2> QED
    BY <2>1 DEF VMLogical, InterpreterLogical, IsTruthy, Bool, LogicalOp
<1>3. Negated(v).kind = "Number" /\ Not(v).kind = "Boolean"
  BY DEF Negated, Num, Not, Bool
<1> QED
  BY <1>1, <1>2, <1>3

LEMMA EvaluatorsAgree ==
  ASSUME Compilable(program)
  PROVE  \A i \in DOMAIN program.nodes : AgreedType[i] # "none" =>
           /\ MachineMeaning(NoGlobals)[i] = InterpreterMeaning(NoGlobals)[i]
           /\ MachineMeaning(NoGlobals)[i].kind = AgreedType[i]
<1> DEFINE type == AgreedType
           m == Meaning(program, "machine", NoGlobals)
           n == Meaning(program, "interpreter", NoGlobals)
           Agree(i) == type[i] # "none" => m[i] = n[i] /\ m[i].kind = type[i]
           Bad == {i \in DOMAIN program.nodes : ~ Agree(i)}
<1> SUFFICES ASSUME Bad # {} PROVE FALSE
  BY DEF MachineMeaning, InterpreterMeaning
<1>1. DOMAIN program.nodes \in SUBSET Nat
  BY DEF Compilable
<1>2. PICK i \in Bad : \A k \in Bad : i <= k
  BY <1>1, LeastNatural
<1> DEFINE node == program.nodes[i]
<1>3. i \in DOMAIN program.nodes /\ node \in ASTNode(String, Value) /\ ~ Agree(i)
  BY <1>2 DEF Compilable
<1>4. \A k \in Operands(node) :
        k # 0 /\ m[k] = n[k] /\ m[k].kind = type[k] /\ type[k] # "none" /\ m[k] \in Value
  <2> TAKE k \in Operands(node)
  <2>0. k # 0
    BY <1>3, TypedNode
  <2>1. k \in DOMAIN program.nodes /\ k < i
    BY <1>3, <2>0, OperandFacts
  <2>2. Agree(k)
    BY <1>1, <1>2, <1>3, <2>1
  <2>3. type[k] # "none"
    BY <1>3, TypedNode
  <2>4. m[k] \in Value
    BY <2>1, MachineValues, NoGlobalsFacts
  <2> QED
    BY <2>0, <2>2, <2>3, <2>4
<1>5. type[i] # "none" /\ 0 \notin Operands(node)
      /\ node.kind \in {"Literal", "Grouping", "Unary", "Binary", "Logical"}
  BY <1>3, <1>4, TypedNode
<1>6. /\ m[i] = NodeMeaning("machine", NoGlobals, m, node)
      /\ n[i] = NodeMeaning("interpreter", NoGlobals, n, node)
      /\ type[i] = NodeType(type, node)
  BY <1>3, MeaningUnfolds, TypeUnfolds
<1> HIDE DEF type, m, n, node
<1> SUFFICES m[i] = n[i] /\ m[i].kind = type[i]
  BY <1>3
<1>7. CASE node.kind = "Literal"
  BY <1>5, <1>6, <1>7 DEF NodeMeaning, NodeType
<1>8. CASE node.kind = "Grouping"
  BY <1>4, <1>5, <1>6, <1>8 DEF NodeMeaning, NodeType, Operands
<1>9. CASE node.kind = "Unary"
  <2>1. m[node.right] = n[node.right] /\ m[node.right] \in Value
    BY <1>4, <1>9 DEF Operands
  <2>2. /\ m[i] = IF node.op = "Bang" THEN Not(m[node.right]) ELSE Negated(m[node.right])
        /\ n[i] = IF node.op = "Bang" THEN Not(n[node.right]) ELSE Negated(n[node.right])
    BY <1>5, <1>6, <1>9 DEF NodeMeaning
  <2>3. type[i] = IF node.op = "Bang" THEN "Boolean" ELSE "Number"
    <3>1. type[i] = CASE node.op = "Minus" /\ type[node.right] = "Number" -> "Number"
                      [] node.op = "Bang" /\ type[node.right] # "none"    -> "Boolean"
                      [] OTHER                                            -> "none"
      BY <1>5, <1>6, <1>9 DEF NodeType
    <3> QED
      BY <1>5, <3>1
  <2> QED
    BY <2>1, <2>2, <2>3, AgreedOperators
<1>10. CASE node.kind = "Binary"
  <2>1. /\ m[node.left] = n[node.left] /\ m[node.right] = n[node.right]
        /\ m[node.left].kind = type[node.left] /\ m[node.right].kind = type[node.right]
        /\ m[node.left] \in Value /\ m[node.right] \in Value
    BY <1>4, <1>10 DEF Operands
  <2>2. /\ type[node.left] = "Number" /\ type[node.right] = "Number"
        /\ node.op \notin {"Less", "Greater"}
        /\ type[i] = IF node.op \in ArithOp THEN "Number" ELSE "Boolean"
    <3>1. /\ {type[node.left], type[node.right]} = {"Number"}
          /\ node.op \notin {"Less", "Greater"}
          /\ type[i] = IF node.op \in ArithOp THEN "Number" ELSE "Boolean"
      BY <1>5, <1>6, <1>10 DEF NodeType
    <3> QED
      BY <3>1
  <2>3. node.op \in BinaryOp \ {"Less", "Greater"}
    BY <1>3, <1>10, <2>2, NodeFacts
  <2>4. /\ m[i] = VMBinary(node.op, m[node.left], m[node.right])
        /\ n[i] = InterpreterBinary(node.op, n[node.left], n[node.right])
    BY <1>5, <1>6, <1>10 DEF NodeMeaning
  <2>5. /\ m[i] = InterpreterBinary(node.op, m[node.left], m[node.right])
        /\ m[i].kind = IF node.op \in ArithOp THEN "Number" ELSE "Boolean"
    BY <2>1, <2>2, <2>3, <2>4, AgreedOperators
  <2> QED
    BY <2>1, <2>2, <2>4, <2>5
<1>11. CASE node.kind = "Logical"
  <2>1. /\ m[node.left] = n[node.left] /\ m[node.right] = n[node.right]
        /\ m[node.left].kind = type[node.left] /\ m[node.right].kind = type[node.right]
        /\ m[node.left] \in Value /\ m[node.right] \in Value
    BY <1>4, <1>11 DEF Operands
  <2>2. type[node.left] = "Boolean" /\ type[node.right] = "Boolean" /\ type[i] = "Boolean"
    <3>1. {type[node.left], type[node.right]} = {"Boolean"} /\ type[i] = "Boolean"
      BY <1>5, <1>6, <1>11 DEF NodeType
    <3> QED
      BY <3>1
  <2>3. node.op \in LogicalOp
    BY <1>3, <1>11, NodeFacts
  <2>4. /\ m[i] = VMLogical(node.op, m[node.left], m[node.right])
        /\ n[i] = InterpreterLogical(node.op, n[node.left], n[node.right])
    BY <1>5, <1>6, <1>11 DEF NodeMeaning
  <2>5. /\ m[i] = InterpreterLogical(node.op, m[node.left], m[node.right])
        /\ m[i].kind = "Boolean"
    BY <2>1, <2>2, <2>3, <2>4, AgreedOperators
  <2> QED
    BY <2>1, <2>2, <2>4, <2>5
<1> QED
  BY <1>5, <1>7, <1>8, <1>9, <1>10, <1>11

\* AgreesWithInterpreter: an expression of numbers and booleans has, compiled
\* and run, the value that the interpreter gives it.
THEOREM AgreesWithInterpreterHolds == Spec => [](PoolFits(constantsPool) => AgreesWithInterpreter)
<1> DEFINE T == {i \in DOMAIN program.nodes : AgreedType[i] # "none"}
<1>1. ASSUME StateInv, Computes, PoolFits(constantsPool), result = "ok",
             NEW kind \in ExprKind, Lone(kind), AgreedType[Root] # "none"
      PROVE  stack = <<InterpreterMeaning(NoGlobals)[Root]>>
  <2>1. Compilable(program)
    BY <1>1 DEF StateInv, CompilerTyped
  <2>2. /\ program.stmts = <<Root>> /\ Root \in DOMAIN program.nodes
        /\ program.nodes[Root].kind \in ExprKind
    <3>1. program.stmts \in Seq(Nat) /\ Len(program.stmts) = 1
      BY <1>1, <2>1 DEF Compilable, Lone
    <3>2. program.stmts = <<Root>> /\ 1 \in DOMAIN program.stmts
      BY <3>1 DEF Root
    <3> QED
      BY <1>1, <2>1, <3>2 DEF Compilable, WellFormed, Lone, Node
  <2>3. Whole(program, T)
    <3>1. \A i \in T : /\ program.nodes[i].kind \notin {"Assign", "Call"}
                       /\ \A k \in Operands(program.nodes[i]) : k \in T
      BY <2>1, TypedNode, OperandFacts
    <3> QED
      BY <3>1 DEF Whole
  <2>4. Part(T)
    BY <1>1, <2>2, <2>3 DEF Part
  <2>5. stack = Outcome.stack
    BY <1>1, <2>2, <2>4 DEF Computes, OnTrack, Alike, Compiled
  <2>6. Outcome = Push(NoEffect, MachineMeaning(NoGlobals)[Root])
    <3>1. Outcome = StmtEffect(program, Root, NoEffect)
      <4>1. Len(program.stmts) = 1 /\ program.stmts[1] = Root /\ 1 - 1 = 0
        BY <2>2
      <4> QED
        BY <2>1, <4>1, EffectUnfolds DEF Outcome
    <3>2. NoEffect \in Snapshot /\ ~ NoEffect.done /\ NoEffect.globals = NoGlobals
      <4>1. <<>> \in Seq(Value) /\ NoGlobals \in Env
        BY EnvSetFacts
      <4> QED
        BY <4>1 DEF NoEffect, Snapshot
    <3> QED
      BY <2>1, <2>2, <3>1, <3>2, VisitEffect DEF MachineMeaning
  <2>7. Outcome.stack = <<MachineMeaning(NoGlobals)[Root]>>
    BY <2>6 DEF Push, NoEffect
  <2> QED
    BY <1>1, <2>1, <2>2, <2>5, <2>7, EvaluatorsAgree
<1>2. StateInv /\ Computes => (PoolFits(constantsPool) => AgreesWithInterpreter)
  BY <1>1 DEF AgreesWithInterpreter
<1> QED
  BY StateInvHolds, ComputesHolds, <1>2, PTL
===============================================================================
