--------------------------------- MODULE AST ---------------------------------
(***************************************************************************)
(* Programs as trees.  The nodes of a program, expressions and statements  *)
(* alike, are a sequence; a node names its children by their positions,    *)
(* which come before its own.  Position 0 is the null pointer.  (Two uses  *)
(* of one position stand for two equal subtrees.)                          *)
(***************************************************************************)
EXTENDS Integers, SequencesExt

Literal(v)         == [kind |-> "Literal", value |-> v]
VarExpr(n)         == [kind |-> "Var", name |-> n]
Grouping(k)        == [kind |-> "Grouping", expr |-> k]
Unary(op, k)       == [kind |-> "Unary", op |-> op, right |-> k]
Binary(op, j, k)   == [kind |-> "Binary", op |-> op, left |-> j, right |-> k]
Logical(op, j, k)  == [kind |-> "Logical", op |-> op, left |-> j, right |-> k]
AssignExpr(n, k)   == [kind |-> "Assign", name |-> n, value |-> k]
CallExpr(k, args)  == [kind |-> "Call", callee |-> k, args |-> args]

VarDecl(n, init)           == [kind |-> "VarDecl", name |-> n, init |-> init]
FuncDecl(n, params, body)  == [kind |-> "FuncDecl", name |-> n, params |-> params,
                               body |-> body]
ExprStmt(k)                == [kind |-> "ExprStmt", expr |-> k]
ReturnStmt(k)              == [kind |-> "Return", value |-> k]
BlockStmt(stmts)           == [kind |-> "Block", stmts |-> stmts]
IfStmt(c, then, else)      == [kind |-> "If", cond |-> c, then |-> then, else |-> else]
WhileStmt(c, body)         == [kind |-> "While", cond |-> c, body |-> body]
ForStmt(init, c, step, body) ==
  [kind |-> "For", init |-> init, cond |-> c, step |-> step, body |-> body]

BinaryOp == {"Plus", "Minus", "Star", "Slash", "EqualEqual", "BangEqual",
             "Greater", "GreaterEqual", "Less", "LessEqual"}
LogicalOp == {"And", "Or"}
UnaryOp == {"Minus", "Bang"}

ExprKind == {"Literal", "Var", "Grouping", "Unary", "Binary", "Logical", "Assign", "Call"}

\* Every node over these names and values.
ASTNode(Names, Values) ==
  [kind : {"Literal"}, value : Values]
    \cup [kind : {"Var"}, name : Names]
    \cup [kind : {"Grouping", "ExprStmt"}, expr : Nat]
    \cup [kind : {"Unary"}, op : UnaryOp, right : Nat]
    \cup [kind : {"Binary"}, op : BinaryOp, left : Nat, right : Nat]
    \cup [kind : {"Logical"}, op : LogicalOp, left : Nat, right : Nat]
    \cup [kind : {"Assign"}, name : Names, value : Nat]
    \cup [kind : {"Call"}, callee : Nat, args : Seq(Nat)]
    \cup [kind : {"VarDecl"}, name : Names, init : Nat]
    \cup [kind : {"FuncDecl"}, name : Names, params : Seq(Names), body : Nat]
    \cup [kind : {"Return"}, value : Nat]
    \cup [kind : {"Block"}, stmts : Seq(Nat)]
    \cup [kind : {"If"}, cond : Nat, then : Nat, else : Nat]
    \cup [kind : {"While"}, cond : Nat, body : Nat]
    \cup [kind : {"For"}, init : Nat, cond : Nat, step : Nat, body : Nat]

Children(node) ==
  CASE node.kind \in {"Literal", "Var"}       -> {}
    [] node.kind \in {"Grouping", "ExprStmt"} -> {node.expr}
    [] node.kind = "Unary"                    -> {node.right}
    [] node.kind \in {"Binary", "Logical"}    -> {node.left, node.right}
    [] node.kind \in {"Assign", "Return"}     -> {node.value}
    [] node.kind = "Call"                     -> {node.callee} \cup ToSet(node.args)
    [] node.kind = "VarDecl"                  -> {node.init}
    [] node.kind = "FuncDecl"                 -> {node.body}
    [] node.kind = "Block"                    -> ToSet(node.stmts)
    [] node.kind = "If"                       -> {node.cond, node.then, node.else}
    [] node.kind = "While"                    -> {node.cond, node.body}
    [] node.kind = "For"                      -> {node.init, node.cond, node.step, node.body}

\* The children of every node come before it, and the program is a sequence
\* of nodes, or null pointers.
WellFormed(program) ==
  /\ \A i \in DOMAIN program.nodes : Children(program.nodes[i]) \subseteq 0 .. i - 1
  /\ \A s \in DOMAIN program.stmts : program.stmts[s] \in {0} \cup DOMAIN program.nodes

===============================================================================
