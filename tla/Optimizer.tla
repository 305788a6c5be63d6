------------------------------ MODULE Optimizer ------------------------------
(***************************************************************************)
(* The constant-folding optimizer: a visitor whose only visit that does    *)
(* anything is the one to a binary expression, and the stack through which *)
(* visits hand back their expression.                                      *)
(*                                                                         *)
(* An optimizer outlives a rewrite.  A caller that also visits expressions *)
(* by itself (`expr->accept(&optimizer)', as the tests do) leaves a result *)
(* on the stack that nobody takes.                                         *)
(***************************************************************************)
EXTENDS JSValue, AST

VARIABLE expressionStack     \* results of visits, the last one on top

OptimizerInit == expressionStack = <<>>

IsLiteral(nodes, k) == k # 0 /\ nodes[k].kind = "Literal"

\* visitBinaryExpr: a sum of two literals becomes their sum as numbers, any
\* other expression a copy of itself.
FoldBinaryExpr(nodes, expr) ==
  IF expr.op = "Plus" /\ IsLiteral(nodes, expr.left) /\ IsLiteral(nodes, expr.right)
  THEN Literal(Arithmetic("Plus", nodes[expr.left].value, nodes[expr.right].value))
  ELSE expr

\* What a visit to an expression pushes.
Pushed(nodes, expr) ==
  IF expr.kind = "Binary" THEN <<FoldBinaryExpr(nodes, expr)>> ELSE <<>>

\* expr->accept(&optimizer)
Accept(nodes, expr) == expressionStack' = expressionStack \o Pushed(nodes, expr)

(***************************************************************************)
(* Mistakes: see GC for what this section is for.                          *)
(***************************************************************************)

\* The other end of the stack.
RewrittenFront(nodes, expr) == Head(expressionStack \o Pushed(nodes, expr))

\* rewriteAST takes for granted that the expression is a binary one (a cast):
\* it visits it, takes the last result and drops that from the stack.
Rewritten(nodes, expr) == Last(expressionStack \o Pushed(nodes, expr))

RewriteAST(nodes, expr) ==
  expressionStack' = Front(expressionStack \o Pushed(nodes, expr))

===============================================================================
