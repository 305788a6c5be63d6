----------------------------- MODULE CompileAndRun -----------------------------
(***************************************************************************)
(* The bytecode path from a tree to a result: the compiler, then a virtual *)
(* machine constructed with copies of its two buffers, then run.           *)
(***************************************************************************)
EXTENDS BytecodeCompiler, Optimizer, VM, Disassembler

CONSTANTS
  Handmade,     \* bytecode that no compiler wrote: [code, pool]
  MaxKept       \* bound on exploration: results left on the expression stack

ASSUME HandmadeAssumption == Handmade \subseteq [code : Seq(Byte), pool : Seq(Value)]

vars == <<compilerVars, expressionStack, vmVars>>

\* Bytecode and constants put together by hand.
HandmadeInit ==
  /\ program = [nodes |-> <<>>, stmts |-> <<>>]
  /\ todo = <<>>
  /\ \E b \in Handmade : bytecodeBuffer = b.code /\ constantsPool = b.pool

Init == (CompilerInit \/ HandmadeInit) /\ OptimizerInit /\ VMInit

(***************************************************************************)
(* An expression compiled by itself may first go through the optimizer.    *)
(***************************************************************************)

Root == Head(program.stmts)

Optimizable ==
  /\ Len(program.stmts) = 1
  /\ Root # 0 /\ Node(Root).kind \in ExprKind
  /\ todo = <<Visit(Root)>>

\* Some expression of the program is visited and its result not taken.
VisitOnly ==
  /\ Optimizable
  /\ Len(expressionStack) < MaxKept
  /\ \E i \in DOMAIN program.nodes : Node(i).kind \in ExprKind /\ Accept(program.nodes, Node(i))
  /\ UNCHANGED <<compilerVars, vmVars>>

\* expr = optimizer.rewriteAST(expr): a node of its own, unless it is equal.
Rewrite ==
  /\ Optimizable
  /\ Node(Root).kind = "Binary"
  /\ RewriteAST(program.nodes, Node(Root))
  /\ LET new == Rewritten(program.nodes, Node(Root))
         at == IF new = Node(Root) THEN Root ELSE Len(program.nodes) + 1
     IN  /\ program' = [nodes |-> IF at = Root THEN program.nodes
                                              ELSE Append(program.nodes, new),
                        stmts |-> <<at>>]
         /\ todo' = <<Visit(at)>>
  /\ UNCHANGED <<bytecodeBuffer, constantsPool, vmVars>>

Compile == CompilerNext /\ UNCHANGED <<expressionStack, vmVars>>

\* VM(bytecode, pool)
Load ==
  /\ todo = <<>> /\ result = "idle"
  /\ code' = bytecodeBuffer
  /\ ctx' = constantsPool
  /\ result' = "running"
  /\ UNCHANGED <<compilerVars, expressionStack, ip, stack, globals>>

Run == VMNext /\ UNCHANGED <<compilerVars, expressionStack>>

Next == VisitOnly \/ Rewrite \/ Compile \/ Load \/ Run

\* One thread: the compiler, the machine's loop and the call of it go on.
Spec == Init /\ [][Next]_vars /\ WF_vars(Compile) /\ WF_vars(Load) /\ WF_vars(Run)

(***************************************************************************)
(* The meaning of a program, read off the tree.                            *)
(***************************************************************************)

\* The value of a node in an environment, given those of its operands; all of
\* them are evaluated, as the machine or as the interpreter does it.  Where one
\* of them is missing there is none.
NodeMeaning(who, env, value, node) ==
  IF 0 \in Operands(node)
  THEN Undefined
  ELSE CASE node.kind = "Literal"  -> node.value
         [] node.kind = "Var"      -> ResolveGlobal(env, node.name)
         [] node.kind = "Grouping" -> value[node.expr]
         [] node.kind = "Unary"    -> IF node.op = "Bang" THEN Not(value[node.right])
                                                          ELSE Negated(value[node.right])
         [] node.kind = "Binary"   ->
              IF who = "machine"
              THEN VMBinary(node.op, value[node.left], value[node.right])
              ELSE InterpreterBinary(node.op, value[node.left], value[node.right])
         [] node.kind = "Logical"  ->
              IF who = "machine"
              THEN VMLogical(node.op, value[node.left], value[node.right])
              ELSE InterpreterLogical(node.op, value[node.left], value[node.right])
         [] OTHER                  -> Undefined

Meaning(p, who, env) ==
  LET value[i \in DOMAIN p.nodes] == NodeMeaning(who, env, value, p.nodes[i])
  IN  value

MachineMeaning(env) == Meaning(program, "machine", env)

InterpreterMeaning(env) == Meaning(program, "interpreter", env)

\* What a statement, or an expression in the place of one, does to the stack
\* and the globals, and whether it ends the program.
NoEffect == [stack |-> <<>>, globals |-> NoGlobals, done |-> FALSE]

StmtEffect(p, at, was) ==
  LET stmt == p.nodes[at]
      ValueOf(k) == Meaning(p, "machine", was.globals)[k]
  IN  IF was.done \/ at = 0
      THEN was
      ELSE CASE stmt.kind = "Return"   -> [was EXCEPT !.done = TRUE]
             [] stmt.kind \in ExprKind -> [was EXCEPT !.stack = Append(@, ValueOf(at))]
             [] stmt.kind = "VarDecl"  ->
                  [was EXCEPT !.globals =
                     SetIn(@, stmt.name, IF stmt.init = 0 THEN Undefined ELSE ValueOf(stmt.init))]
             [] OTHER                  -> was

\* The effect of the first s statements.
EffectOf(p) ==
  LET after[s \in 0 .. Len(p.stmts)] ==
        IF s = 0 THEN NoEffect ELSE StmtEffect(p, p.stmts[s], after[s - 1])
  IN  after

Outcome == EffectOf(program)[Len(program.stmts)]

\* A part of a tree in which no value is left out: every operand is there and
\* belongs to it, and none of its nodes is an assignment or a call.
Whole(p, S) ==
  /\ S \subseteq DOMAIN p.nodes
  /\ \A i \in S : p.nodes[i].kind \notin {"Assign", "Call"} /\ Operands(p.nodes[i]) \subseteq S

\* Programs that the compiler compiles: what it visits is whole.
Supported ==
  \E S \in SUBSET DOMAIN program.nodes : Whole(program, S) /\ ToSet(program.stmts) \subseteq S \cup {0}

(***************************************************************************)
(* The height of the stack, for any tree.  Code `moves' it: it reaches for *)
(* that many values below where it begins, leaves it higher by the rise,   *)
(* and may end the program.                                                *)
(***************************************************************************)

NoCode == [reach |-> 0, rise |-> 0, ends |-> FALSE]

Return == [reach |-> 0, rise |-> 0, ends |-> TRUE]

\* Pop some values, push some.
PopPush(pops, pushes) == [reach |-> pops, rise |-> pushes - pops, ends |-> FALSE]

Then(a, b) ==
  IF a.ends
  THEN a
  ELSE [reach |-> Max({a.reach, b.reach - a.rise}), rise |-> a.rise + b.rise, ends |-> b.ends]

MoveAt(move, i) == IF i = 0 THEN NoCode ELSE move[i]

\* What an operand leaves out, nobody puts in its place.
NodeMove(move, node) ==
  CASE node.kind \in {"Literal", "Var"}    -> PopPush(0, 1)
    [] node.kind = "Grouping"              -> MoveAt(move, node.expr)
    [] node.kind = "Unary"                 -> Then(MoveAt(move, node.right), PopPush(1, 1))
    [] node.kind \in {"Binary", "Logical"} ->
         Then(Then(MoveAt(move, node.left), MoveAt(move, node.right)), PopPush(2, 1))
    [] node.kind = "VarDecl"               ->
         Then(IF node.init = 0 THEN PopPush(0, 1) ELSE move[node.init], PopPush(1, 0))
    [] node.kind = "Return"                -> Return
    [] OTHER                               -> NoCode

Moves(p) ==
  LET move[i \in DOMAIN p.nodes] == NodeMove(move, p.nodes[i])
  IN  move

\* The move of the first s statements.
MoveOf(p) ==
  LET after[s \in 0 .. Len(p.stmts)] ==
        IF s = 0 THEN NoCode ELSE Then(after[s - 1], MoveAt(Moves(p), p.stmts[s]))
  IN  after

\* The code of the program reaches below the empty stack that it begins with.
Starved == MoveOf(program)[Len(program.stmts)].reach > 0

\* Expressions on which the two evaluators mean the same: numbers under
\* arithmetic and every comparison but the strict ones, booleans under the
\* logical operators.  The type of each node, "none" outside this part.
NodeType(type, node) ==
  IF 0 \in Operands(node)
  THEN "none"
  ELSE CASE node.kind = "Literal"  ->
              IF node.value.kind \in {"Number", "Boolean"} THEN node.value.kind ELSE "none"
         [] node.kind = "Grouping" -> type[node.expr]
         [] node.kind = "Unary"    ->
              CASE node.op = "Minus" /\ type[node.right] = "Number" -> "Number"
                [] node.op = "Bang" /\ type[node.right] # "none"    -> "Boolean"
                [] OTHER                                            -> "none"
         [] node.kind = "Binary"   ->
              IF \/ {type[node.left], type[node.right]} # {"Number"}
                 \/ node.op \in {"Less", "Greater"}
              THEN "none"
              ELSE IF node.op \in ArithOp THEN "Number" ELSE "Boolean"
         [] node.kind = "Logical"  ->
              IF {type[node.left], type[node.right]} = {"Boolean"} THEN "Boolean" ELSE "none"
         [] OTHER                  -> "none"

AgreedType ==
  LET type[i \in DOMAIN program.nodes] == NodeType(type, Node(i))
  IN  type

(***************************************************************************)
(* Properties.                                                             *)
(***************************************************************************)

TypeOK ==
  /\ VMTypeOK
  /\ bytecodeBuffer \in Seq(Byte)
  /\ constantsPool \in Seq(Value)

Compiled == program.stmts # <<>>

\* A compiled program computes what its tree means: operands in source order,
\* every value consumed exactly once, every declaration under its own name.
CompiledMeansSource ==
  result = "ok" /\ Compiled /\ Supported =>
    /\ stack = Outcome.stack
    /\ \A n \in DOMAIN globals \cup DOMAIN Outcome.globals :
         ResolveGlobal(globals, n) = ResolveGlobal(Outcome.globals, n)

\* An empty stack is popped in no program that is supported and, of all others,
\* exactly in those whose tree leaves out a value that an operator or a
\* declaration takes, with none on the stack to stand in for it.  Nothing else
\* makes the behaviour of compiled code undefined, nor does it break off.
UnderflowForeseen ==
  Compiled =>
    /\ Supported => ~ Starved
    /\ result \in {"idle", "running", IF Starved THEN "undefined" ELSE "ok"}

\* Instruction boundaries agree: the machine finds an instruction it knows,
\* with its operand, wherever the compiler put one, and never stops inside.
InSync ==
  Compiled /\ result = "running" /\ ip < Len(code) =>
    Fetched \in HandledCode /\ (Fetched \in OperandCode => ip + 1 < Len(code))

\* "load variable name from constants table" (VM.cpp): what SetGlobal and
\* GetGlobal load is the name of a variable.
NamesLoaded ==
  Compiled /\ result = "running" /\ ip < Len(code)
  /\ Fetched \in {OPCode.SetGlobal, OPCode.GetGlobal}
    => OperandInPool /\ Constant(Operand).kind = "String"

\* An expression by itself.
Lone(kind) == Len(program.stmts) = 1 /\ Root # 0 /\ Node(Root).kind = kind

\* On numbers and booleans the machine agrees with the interpreter.
AgreesWithInterpreter ==
  /\ result = "ok"
  /\ \E kind \in ExprKind : Lone(kind)
  /\ AgreedType[Root] # "none"
  => stack = <<InterpreterMeaning(NoGlobals)[Root]>>

\* Folding a constant, whatever an earlier visit left on the expression stack,
\* does not change what the machine makes of the expression.  (The interpreter
\* would join two strings; the optimizer, like the machine, adds 0 and 0.)
FoldingKeepsMeaning ==
  [][ Rewrite => \A env \in {NoGlobals, SetIn(NoGlobals, 1, Num(1))} :
        MachineMeaning(env)'[Root'] = MachineMeaning(env)[Root] ]_vars

\* The disassembler lists every instruction that the machine comes to, at its
\* offset and, where it has a name for it, under its name.  (It lists operands
\* as well.)
ListsInstructions ==
  result = "running" /\ ip < Len(code) =>
    \E line \in ToSet(Disassemble(code)) :
      line.offset = ip /\ line.name = InstructionName(Fetched)

\* There is no jump and every case, the default one too, moves on: any
\* bytecode at all is run to an end.
RunEnds == result = "running" ~> result \in {"ok", "undefined", "thrown"}

(***************************************************************************)
(* What the source says of itself and the code does not do.                *)
(***************************************************************************)

\* "this is a strict equality implementation that is used to compare values
\* in the VM and interpreter" (JSValue.h): both evaluators give `==' the same
\* value.
EqualityShared ==
  result = "ok" /\ Lone("Binary") /\ Node(Root).op = "EqualEqual"
    => stack = <<InterpreterMeaning(NoGlobals)[Root]>>

===============================================================================
