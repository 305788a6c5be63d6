---------------------------- MODULE MCCompileAndRun ----------------------------
(***************************************************************************)
(* Instances of CompileAndRun.  Arithmetic is modulo 3.                    *)
(***************************************************************************)
EXTENDS CompileAndRun

MCNumber == 0 .. 2

\* Division by 0, an infinity in the code, is 2 here.
MCArith(op, x, y) ==
  CASE op = "Plus"  -> (x + y) % 3
    [] op = "Minus" -> (x - y) % 3
    [] op = "Star"  -> (x * y) % 3
    [] op = "Slash" -> IF y = 0 THEN 2 ELSE (x * y) % 3

\* Sums of strings are left to the interpreter.
MCString == 0 .. 3
MCConcat(s, t) == (s + t) % 4
MCText(v) == 3

\* Two names; strings of higher rank are data.
A == 1
B == 2

Leaf == {Literal(Num(0)), Literal(Num(1)), Literal(Num(2)), Literal(Bool(TRUE)),
         Literal(Str(3)), Literal(Null), VarExpr(A)}

OpOver(kids) ==
  {Unary(op, k) : op \in UnaryOp, k \in kids}
    \cup {Grouping(k) : k \in kids}
    \cup {Binary(op, j, k) : op \in BinaryOp, j \in kids, k \in kids}
    \cup {Logical(op, j, k) : op \in LogicalOp, j \in kids, k \in kids}

\* Two leaves, an operation on them, and one on that.
Tree == {<<x, y, f, g>> : x \in Leaf, y \in Leaf,
           f \in {Binary(op, 1, 2) : op \in BinaryOp}
                   \cup {Logical(op, 1, 2) : op \in LogicalOp}
                   \cup {Unary(op, 1) : op \in UnaryOp},
           g \in {Binary(op, 3, 1) : op \in {"Minus", "EqualEqual", "Less"}}
                   \cup {Binary("Greater", 2, 3), Logical("Or", 3, 2),
                         Unary("Bang", 3), Grouping(3)}}

\* Expressions by themselves, and sums that the optimizer folds.
ExprProgram == {[nodes |-> t, stmts |-> <<4>>] : t \in Tree}

SumProgram ==
  {[nodes |-> <<x, y, Binary("Plus", 1, 2), f>>, stmts |-> <<3>>] :
     x \in Leaf, y \in Leaf, f \in {Binary("Plus", 1, 1), Binary("Minus", 2, 1)}}

\* Declarations: the second one reads the variable of the first, or declares
\* it again; a return may come between.
DeclProgram ==
  {[nodes |-> <<x, VarExpr(A), y, Binary("Minus", 2, 3), VarDecl(A, i),
                BlockStmt(<<5>>), mid, VarDecl(n, 4)>>,
    stmts |-> order] :
     x \in Leaf, y \in Leaf, i \in {0, 1}, n \in {A, B},
     mid \in {ReturnStmt(1), ExprStmt(1), BlockStmt(<<6>>), IfStmt(1, 6, 0),
              WhileStmt(1, 6), ForStmt(5, 1, 1, 6), FuncDecl(A, <<B>>, 6)},
     order \in {<<5, 8>>, <<5, 7, 8>>}}

\* Trees with a value left out: an operand is null, as in `var a = 1 + ;', or an
\* assignment or a call.  What an expression before it left on the stack may
\* stand in for the value, and a return may come first.
PartialProgram ==
  {[nodes |-> <<Literal(Num(1)), f, g, VarDecl(A, 3), ReturnStmt(0)>>,
    stmts |-> Append(before, last)] :
     f \in {AssignExpr(B, 1), CallExpr(1, <<>>), Grouping(0), Unary("Minus", 0),
            Binary("Plus", 1, 0), Binary("Less", 0, 1), Logical("And", 0, 0)},
     g \in {Grouping(2), Unary("Bang", 2), Binary("Minus", 1, 2), Logical("Or", 2, 1),
            Binary("Star", 2, 0)},
     before \in {<<>>, <<0>>, <<1>>, <<1, 1>>, <<5>>},
     last \in {0, 2, 3, 4}}

\* Declarations of A with an initializer, two constants each.
Declarations(count) ==
  [nodes |-> <<Literal(Num(1)), VarDecl(A, 1)>>, stmts |-> [s \in 1 .. count |-> 2]]

\* The last one fills the pool to the 256 constants a byte can address.
MCProgram ==
  ExprProgram \cup SumProgram \cup DeclProgram \cup PartialProgram
    \cup {Declarations(128)}

\* One constant more: the first declaration has the initializer 1 + 1.
LongProgram ==
  {[nodes |-> <<Literal(Num(1)), Binary("Plus", 1, 1), VarDecl(A, 1), VarDecl(A, 2)>>,
    stmts |-> [s \in 1 .. 128 |-> IF s = 1 THEN 4 ELSE 3]]}

\* Bytes: an instruction of each form, one that is none, and two that are
\* offsets into the pool.
SomeByte == {0, 1, 5} \cup {OPCode.Constant, OPCode.Negate, OPCode.Not, OPCode.And,
                            OPCode.GetGlobal, OPCode.SetGlobal, OPCode.Pop}

\* Every sequence of at most four of them.
MCHandmade ==
  [code : UNION {[1 .. n -> SomeByte] : n \in 0 .. 4}, pool : {<<Num(1), Str(1)>>}]
===============================================================================
