-------------------------------- MODULE Parser --------------------------------
(***************************************************************************)
(* The recursive descent parser.  `todo' is what its activation records    *)
(* still have to do, innermost first; `results' is what finished calls     *)
(* have returned to them: positions of nodes (0 for the null pointer) and  *)
(* names.  A call that does nothing but call the next one down the ladder  *)
(* of precedences is taken together with it.  `nodes' is the tree so far.  *)
(***************************************************************************)
EXTENDS Tree

CONSTANTS
  Source,       \* token sequences, without the end of file: [kind, literal]
  Sentence,     \* those among them that the grammar derives
  MaxArgs       \* kMaxArgs, 255 in the code

Token == [kind : STRING, literal : Value]

\* What the lexer puts into the literal of a token: the name of an identifier,
\* the text of a string and of the keyword undefined, a number.
LiteralType ==
  [Identifier |-> "String", String |-> "String", Undefined |-> "String", Numeric |-> "Number"]

ASSUME ParserAssumption ==
  /\ \A source \in Source :
       /\ source \in Seq(Token)
       /\ \A i \in DOMAIN source : \A kind \in DOMAIN LiteralType :
            source[i].kind = kind => source[i].literal.kind = LiteralType[kind]
  /\ Sentence \subseteq Source
  /\ MaxArgs \in Nat \ {0}

VARIABLES
  tokens,       \* the output of the lexer
  current,      \* index of the next token, from 0
  todo,
  results,
  parsed        \* "parsing", "done", the exception that ended it, or
                \* "undefined" once the behaviour of the C++ program is

parserVars == <<tokens, current, todo, results, nodes, parsed>>

\* Bound on exploration: of the empty statements that a parser that hangs adds
\* to its list, no more are kept once there are this many statements.
MaxStmts == Len(tokens)

Eof == [kind |-> "Eof", literal |-> Str(0)]

Peek == tokens[current + 1]
Check(kind) == kind # "Eof" /\ Peek.kind = kind

(***************************************************************************)
(* Activation records.                                                     *)
(***************************************************************************)

\* consume(kind); of an identifier the lexeme is kept.
Consume(kind) == [do |-> "consume", kind |-> kind]
\* An expression unless the next token is of this kind.
Unless(kind) == [do |-> "unless", kind |-> kind]
\* The loop over the statements of a block, or of the program, n so far.
Statements(of, n) == [do |-> "statements", of |-> of, count |-> n]
\* The next argument or parameter, and the test behind it, n so far.
Item(of, n) == [do |-> "item", of |-> of, count |-> n]
Comma(of, n) == [do |-> "comma", of |-> of, count |-> n]
\* The loop of a level of binary operators.
More(level) == [do |-> "more", level |-> level]
\* A node made of the latest results: of this kind, with this operator or
\* with this many arguments, parameters or statements.
Build(kind) == [do |-> "build", kind |-> kind, op |-> "", count |-> 0]
BuildOp(kind, op) == [Build(kind) EXCEPT !.op = op]
BuildList(kind, n) == [Build(kind) EXCEPT !.count = n]
\* Any other call, or rest of one, by its name.
Do(what) == [do |-> what]

\* The binary operators, from the loosest level to the tightest.
Level == << {"Or"}, {"And"}, {"BangEqual", "EqualEqual"},
            {"Greater", "GreaterEqual", "Less", "LessEqual"},
            {"Minus", "Plus"}, {"Slash", "Star"} >>

KindOf(op) == IF op \in LogicalOp THEN "Logical" ELSE "Binary"

\* parseOrExpr for level 1, down to parseFactorExpr for level 6: the operand,
\* then the loop of every level passed on the way to it.
Operand(level) ==
  <<Do("unary")>> \o [i \in 1 .. Len(Level) + 1 - level |-> More(Len(Level) + 1 - i)]

\* parseExpr, parseAssignmentExpr
Expr == Operand(1) \o <<Do("assign")>>

\* parseExprStmt
ExprStatement == Expr \o <<Do("exprStmt")>>

\* What follows the token that a statement begins with.
Rule ==
  [Var      |-> <<Consume("Identifier"), Do("initializer"), Consume("Semicolon"),
                  Build("VarDecl")>>,
   Function |-> <<Consume("Identifier"), Consume("LParen"), Do("params")>>,
   If       |-> <<Consume("LParen")>> \o Expr \o
                <<Consume("RParen"), Do("stmt"), Do("else"), Build("If")>>,
   While    |-> <<Consume("LParen")>> \o Expr \o
                <<Consume("RParen"), Do("stmt"), Build("While")>>,
   For      |-> <<Consume("LParen"), Do("forInit"), Unless("Semicolon"),
                  Consume("Semicolon"), Unless("RParen"), Consume("RParen"),
                  Do("stmt"), Build("For")>>,
   Return   |-> <<Unless("Semicolon"), Consume("Semicolon"), Build("Return")>>,
   LBrace   |-> <<Statements("Block", 0)>>]

\* What follows the last parameter or argument.
Rest(of, n) ==
  IF of = "params"
  THEN <<Consume("RParen"), Consume("LBrace"), Statements("Block", 0),
         BuildList("FuncDecl", n)>>
  ELSE <<Consume("RParen"), BuildList("Call", n), Do("calls")>>

ParserInit ==
  /\ \E source \in Source : tokens = Append(source, Eof)
  /\ current = 0
  /\ todo = <<Statements("Program", 0)>>
  /\ results = <<>>
  /\ nodes = <<>>
  /\ parsed = "parsing"

(***************************************************************************)
(* Steps.  Each replaces the innermost record by others and either takes a *)
(* token or does not.                                                      *)
(***************************************************************************)

At(what) == parsed = "parsing" /\ Head(todo).do = what

Become(records) == todo' = records \o Tail(todo)

\* match or consume has found what it looks for.
Advance == current' = current + 1
Stay == current' = current

Calling == UNCHANGED <<tokens, results, nodes, parsed>>

Returning(result) == results' = Append(results, result) /\ UNCHANGED <<tokens, nodes, parsed>>

Fail(why) == parsed' = why /\ UNCHANGED <<tokens, current, todo, results, nodes>>

\* A node that takes the place of its n children among the results.  Equal
\* nodes share a position.
Making(n, node) ==
  LET same == {i \in DOMAIN nodes : nodes[i] = node}
      at == IF same = {} THEN Len(nodes) + 1 ELSE CHOOSE i \in same : TRUE
  IN  /\ nodes' = IF same = {} THEN Append(nodes, node) ELSE nodes
      /\ results' = Append(SubSeq(results, 1, Len(results) - n), at)
      /\ UNCHANGED <<tokens, parsed>>

\* How many results a node is made of, and the latest n of them.
Arity(item) ==
  CASE item.kind \in {"Grouping", "Unary", "Return"}            -> 1
    [] item.kind \in {"Binary", "Logical", "VarDecl", "While"}  -> 2
    [] item.kind = "If"                                         -> 3
    [] item.kind = "For"                                        -> 4
    [] item.kind = "Block"                                      -> item.count
    [] item.kind = "Call"                                       -> 1 + item.count
    [] item.kind = "FuncDecl"                                   -> 2 + item.count

Parts(n) == SubSeq(results, Len(results) - n + 1, Len(results))

(***************************************************************************)
(* Mistakes: see GC for what this section is for.                          *)
(***************************************************************************)

\* The right operand is parsed at the operator's own level.
ParseMoreRight ==
  /\ At("more")
  /\ LET level == Head(todo).level
         op == Peek.kind
     IN  IF op \in Level[level]
         THEN /\ Advance
              /\ Become(Operand(level) \o <<BuildOp(KindOf(op), op), More(level)>>)
              /\ Calling
         ELSE Stay /\ Become(<<>>) /\ Calling

\* The loop of a level asks for its operator with peek, and leaves it there.
ParseMoreLeaves ==
  /\ At("more")
  /\ LET level == Head(todo).level
         op == Peek.kind
     IN  IF op \in Level[level]
         THEN /\ Stay
              /\ Become(Operand(level + 1) \o <<BuildOp(KindOf(op), op), More(level)>>)
              /\ Calling
         ELSE Stay /\ Become(<<>>) /\ Calling

\* The test of kMaxArgs comes one item too early.
ParseItemEarly ==
  /\ At("item")
  /\ LET item == Head(todo)
     IN  IF item.count + 1 >= MaxArgs
         THEN Fail("runtime_error")
         ELSE /\ Stay
              /\ Become((IF item.of = "params" THEN <<Consume("Identifier")>> ELSE Expr)
                          \o <<Comma(item.of, item.count + 1)>>)
              /\ Calling

\* A null expression statement skips the token it found, to get on.
ParseExprStmtSkips ==
  /\ At("exprStmt")
  /\ IF Last(results) = 0
     THEN Advance /\ Become(<<>>) /\ Making(1, ExprStmt(0))
     ELSE IF current + 1 >= Len(tokens)
     THEN Fail("undefined")
     ELSE IF Check("Semicolon")
     THEN Advance /\ Become(<<>>) /\ Making(1, ExprStmt(Last(results)))
     ELSE Fail("invalid_argument")

\* The loop of parseBlockStmt looks for the brace only.
ParseStatementsNoEnd ==
  /\ At("statements")
  /\ LET list == Head(todo)
     IN  IF (list.of = "Program" /\ Peek.kind # "Eof") \/ (list.of = "Block" /\ ~Check("RBrace"))
         THEN /\ Stay
              /\ UNCHANGED <<tokens, nodes, parsed>>
              /\ IF list.count < MaxStmts \/ nodes[Last(results)] # ExprStmt(0)
                 THEN /\ Become(<<Do("decl"), Statements(list.of, list.count + 1)>>)
                      /\ UNCHANGED results
                 ELSE /\ Become(<<Do("decl"), list>>)
                      /\ results' = Front(results)
         ELSE IF list.of = "Block"
         THEN /\ Stay
              /\ Become(<<Consume("RBrace"), BuildList("Block", list.count)>>)
              /\ Calling
         ELSE parsed' = "done" /\ UNCHANGED <<tokens, current, todo, results, nodes>>

\* An `if' inside another one leaves the `else' to that one.
ParseOptionalOutermost ==
  \E part \in { <<"initializer", "Equal", Expr>>, <<"else", "Else", <<Do("stmt")>> >> } :
    /\ At(part[1])
    /\ IF Check(part[2]) /\ Do("else") \notin ToSet(Tail(todo))
       THEN Advance /\ Become(part[3]) /\ Calling
       ELSE Stay /\ Become(<<>>) /\ Returning(0)

\* parseForStmt hands its condition and its step over in the wrong order.
BuiltForSwapped(item) ==
  LET p == Parts(Arity(item))
  IN  CASE item.kind = "Grouping" -> Grouping(p[1])
        [] item.kind = "Unary"    -> Unary(item.op, p[1])
        [] item.kind = "Binary"   -> Binary(item.op, p[1], p[2])
        [] item.kind = "Logical"  -> Logical(item.op, p[1], p[2])
        [] item.kind = "Call"     -> CallExpr(p[1], Tail(p))
        [] item.kind = "VarDecl"  -> VarDecl(p[1], p[2])
        [] item.kind = "FuncDecl" -> FuncDecl(p[1], Front(Tail(p)), Last(p))
        [] item.kind = "Return"   -> ReturnStmt(p[1])
        [] item.kind = "Block"    -> BlockStmt(p)
        [] item.kind = "If"       -> IfStmt(p[1], p[2], p[3])
        [] item.kind = "While"    -> WhileStmt(p[1], p[2])
        [] item.kind = "For"      -> ForStmt(p[1], p[3], p[2], p[4])

\* The node.
Built(item) ==
  LET p == Parts(Arity(item))
  IN  CASE item.kind = "Grouping" -> Grouping(p[1])
        [] item.kind = "Unary"    -> Unary(item.op, p[1])
        [] item.kind = "Binary"   -> Binary(item.op, p[1], p[2])
        [] item.kind = "Logical"  -> Logical(item.op, p[1], p[2])
        [] item.kind = "Call"     -> CallExpr(p[1], Tail(p))
        [] item.kind = "VarDecl"  -> VarDecl(p[1], p[2])
        [] item.kind = "FuncDecl" -> FuncDecl(p[1], Front(Tail(p)), Last(p))
        [] item.kind = "Return"   -> ReturnStmt(p[1])
        [] item.kind = "Block"    -> BlockStmt(p)
        [] item.kind = "If"       -> IfStmt(p[1], p[2], p[3])
        [] item.kind = "While"    -> WhileStmt(p[1], p[2])
        [] item.kind = "For"      -> ForStmt(p[1], p[2], p[3], p[4])

(***************************************************************************)
(* Statements.                                                             *)
(***************************************************************************)

\* parse and the loop of parseBlockStmt: one more declaration, or the end of
\* the program, or of the block, or of the input inside a block.
ParseStatements ==
  /\ At("statements")
  /\ LET list == Head(todo)
     IN  IF Peek.kind # "Eof" /\ ~(list.of = "Block" /\ Check("RBrace"))
         THEN /\ Stay
              /\ UNCHANGED <<tokens, nodes, parsed>>
              /\ IF list.count < MaxStmts \/ nodes[Last(results)] # ExprStmt(0)
                 THEN /\ Become(<<Do("decl"), Statements(list.of, list.count + 1)>>)
                      /\ UNCHANGED results
                 ELSE /\ Become(<<Do("decl"), list>>)
                      /\ results' = Front(results)
         ELSE IF list.of = "Block"
         THEN /\ Stay
              /\ Become(<<Consume("RBrace"), BuildList("Block", list.count)>>)
              /\ Calling
         ELSE parsed' = "done" /\ UNCHANGED <<tokens, current, todo, results, nodes>>

\* parseDecl
ParseDecl ==
  /\ At("decl")
  /\ IF Check("Var") \/ Check("Let") THEN Advance /\ Become(Rule.Var)
                                     ELSE Stay /\ Become(<<Do("stmt")>>)
  /\ Calling

\* parseStmt
ParseStmt ==
  /\ At("stmt")
  /\ IF Peek.kind \in DOMAIN Rule \ {"Var"} THEN Advance /\ Become(Rule[Peek.kind])
                                            ELSE Stay /\ Become(ExprStatement)
  /\ Calling

\* parseExprStmt once it has its expression.  The log line prints the token
\* behind the next one, tokens[current + 1], whether there is one or not.
ParseExprStmt ==
  /\ At("exprStmt")
  /\ IF Last(results) = 0
     THEN Stay /\ Become(<<>>) /\ Making(1, ExprStmt(0))
     ELSE IF current + 1 >= Len(tokens)
     THEN Fail("undefined")
     ELSE IF Check("Semicolon")
     THEN Advance /\ Become(<<>>) /\ Making(1, ExprStmt(Last(results)))
     ELSE Fail("invalid_argument")

ParseConsume ==
  /\ At("consume")
  /\ LET kind == Head(todo).kind
     IN  IF ~Check(kind)
         THEN Fail("invalid_argument")
         ELSE /\ Advance
              /\ Become(<<>>)
              /\ IF kind = "Identifier" THEN Returning(Peek.literal.val) ELSE Calling

\* The condition and the step of a for, the value of a return.
ParseUnless ==
  /\ At("unless")
  /\ Stay
  /\ IF Check(Head(todo).kind) THEN Become(<<>>) /\ Returning(0)
                               ELSE Become(Expr) /\ Calling

\* `= expression' in parseVarDecl, `else statement' in parseIfStmt.
ParseOptional ==
  \E part \in { <<"initializer", "Equal", Expr>>, <<"else", "Else", <<Do("stmt")>> >> } :
    /\ At(part[1])
    /\ IF Check(part[2]) THEN Advance /\ Become(part[3]) /\ Calling
                         ELSE Stay /\ Become(<<>>) /\ Returning(0)

\* The initializer in parseForStmt; `let' begins none.
ParseForInit ==
  /\ At("forInit")
  /\ CASE Check("Semicolon") -> Advance /\ Become(<<>>) /\ Returning(0)
       [] Check("Var")       -> Advance /\ Become(Rule.Var) /\ Calling
       [] OTHER              -> Stay /\ Become(ExprStatement) /\ Calling

\* The do-while loops of parseFuncDecl and parseCallExpr.
ParseItems ==
  \E of \in {"params", "args"} :
    /\ At(of)
    /\ Stay
    /\ Become(IF Check("RParen") THEN Rest(of, 0) ELSE <<Item(of, 0)>>)
    /\ Calling

ParseItem ==
  /\ At("item")
  /\ LET item == Head(todo)
     IN  IF item.count >= MaxArgs
         THEN Fail("runtime_error")
         ELSE /\ Stay
              /\ Become((IF item.of = "params" THEN <<Consume("Identifier")>> ELSE Expr)
                          \o <<Comma(item.of, item.count + 1)>>)
              /\ Calling

ParseComma ==
  /\ At("comma")
  /\ LET item == Head(todo)
     IN  IF Check("Comma") THEN Advance /\ Become(<<Item(item.of, item.count)>>)
                           ELSE Stay /\ Become(Rest(item.of, item.count))
  /\ Calling

(***************************************************************************)
(* Expressions.                                                            *)
(***************************************************************************)

\* The while loops of parseOrExpr to parseFactorExpr.
ParseMore ==
  /\ At("more")
  /\ LET level == Head(todo).level
         op == Peek.kind
     IN  IF op \in Level[level]
         THEN /\ Advance
              /\ Become(Operand(level + 1) \o <<BuildOp(KindOf(op), op), More(level)>>)
              /\ Calling
         ELSE Stay /\ Become(<<>>) /\ Calling

\* parseUnaryExpr
ParseUnary ==
  /\ At("unary")
  /\ IF Peek.kind \in UnaryOp
     THEN Advance /\ Become(<<Do("unary"), BuildOp("Unary", Peek.kind)>>)
     ELSE Stay /\ Become(<<Do("primary"), Do("calls")>>)
  /\ Calling

\* parsePrimaryExpr.  The keyword undefined has its text for a literal.
LiteralOf(token) ==
  CASE token.kind = "True"  -> Bool(TRUE)
    [] token.kind = "False" -> Bool(FALSE)
    [] token.kind = "Null"  -> Null
    [] OTHER                -> token.literal

LiteralKind == {"False", "True", "Null", "Numeric", "String", "Undefined"}

ParsePrimary ==
  /\ At("primary")
  /\ CASE Peek.kind \in LiteralKind ->
            Advance /\ Become(<<>>) /\ Making(0, Literal(LiteralOf(Peek)))
       [] Peek.kind = "Identifier" ->
            Advance /\ Become(<<>>) /\ Making(0, VarExpr(Peek.literal.val))
       [] Peek.kind = "LParen" ->
            Advance /\ Become(Expr \o <<Consume("RParen"), Build("Grouping")>>) /\ Calling
       [] OTHER ->
            Stay /\ Become(<<>>) /\ Returning(0)

\* The loop of parseCallExpr.
ParseCalls ==
  /\ At("calls")
  /\ IF Check("LParen") THEN Advance /\ Become(<<Do("args")>>)
                        ELSE Stay /\ Become(<<>>)
  /\ Calling

\* parseAssignmentExpr behind its first operand, and behind the value.
ParseAssignment ==
  /\ At("assign")
  /\ IF Check("Equal") THEN Advance /\ Become(Expr \o <<Do("assignTo")>>)
                       ELSE Stay /\ Become(<<>>)
  /\ Calling

ParseAssignTo ==
  /\ At("assignTo")
  /\ LET target == Parts(2)[1]
     IN  CASE target = 0 -> Fail("undefined")
           [] target # 0 /\ nodes[target].kind # "Var" -> Fail("runtime_error")
           [] target # 0 /\ nodes[target].kind = "Var" ->
                /\ Stay
                /\ Become(<<>>)
                /\ Making(2, AssignExpr(nodes[target].name, Last(results)))

\* make_shared of a node.  Before it makes a unary expression the parser asks
\* its operand for its kind.
ParseBuild ==
  /\ At("build")
  /\ LET item == Head(todo)
     IN  IF item.kind = "Unary" /\ Last(results) = 0
         THEN Fail("undefined")
         ELSE Stay /\ Become(<<>>) /\ Making(Arity(item), Built(item))

ParserNext ==
  \/ ParseStatements \/ ParseDecl \/ ParseStmt \/ ParseExprStmt \/ ParseConsume
  \/ ParseUnless \/ ParseOptional \/ ParseForInit
  \/ ParseItems \/ ParseItem \/ ParseComma
  \/ ParseMore \/ ParseUnary \/ ParsePrimary \/ ParseCalls
  \/ ParseAssignment \/ ParseAssignTo \/ ParseBuild

\* The parser is one thread in a loop of its own: it takes its next step.
ParserSpec == ParserInit /\ [][ParserNext]_parserVars /\ WF_parserVars(ParserNext)

(***************************************************************************)
(* Properties.                                                             *)
(***************************************************************************)

\* The cursor stays on the tokens, and the tree is made of well-formed nodes,
\* every child before its parent.
TypeOK ==
  /\ current \in 0 .. Len(tokens) - 1
  /\ results \in Seq(Nat)
  /\ nodes \in Seq(ASTNode(String, Value))
  /\ WellFormed([nodes |-> nodes, stmts |-> <<>>])
  /\ parsed \in {"parsing", "done", "invalid_argument", "runtime_error", "undefined"}

\* The tokens that a subtree stands for.  `let' reads back as `var', and
\* `undefined' as a string.
Word(kind, value) == [kind |-> kind, literal |-> value]
Mark(kind) == Word(kind, Str(0))

AsRead(token) ==
  CASE token.kind \in {"Identifier", "Numeric", "String"} -> token
    [] token.kind = "Undefined" -> Word("String", token.literal)
    [] token.kind = "Let"       -> Mark("Var")
    [] OTHER                    -> Mark(token.kind)

LiteralWord(v) ==
  CASE v.kind \in {"String"} -> Word("String", v)
    [] v.kind = "Number"     -> Word("Numeric", v)
    [] v.kind = "Boolean"    -> Mark(IF v.val = 1 THEN "True" ELSE "False")
    [] OTHER                 -> Mark(v.kind)

Listed(phrases) ==
  FlattenSeq([i \in DOMAIN phrases |->
                (IF i = 1 THEN <<>> ELSE <<Mark("Comma")>>) \o phrases[i]])

Named(n) == Word("Identifier", Str(n))

\* The tokens of a node, given those of its children.
Wording(node, text) ==
  LET Paren(j) == <<Mark("LParen")>> \o text[j] \o <<Mark("RParen")>>
      Texts(seq) == [i \in DOMAIN seq |-> text[seq[i]]]
      Names(seq) == [i \in DOMAIN seq |-> <<Named(seq[i])>>]
      End == <<Mark("Semicolon")>>
  IN  CASE node.kind = "Literal"  -> <<LiteralWord(node.value)>>
        [] node.kind = "Var"      -> <<Named(node.name)>>
        [] node.kind = "Grouping" -> Paren(node.expr)
        [] node.kind = "Unary"    -> <<Mark(node.op)>> \o text[node.right]
        [] node.kind \in {"Binary", "Logical"} ->
             text[node.left] \o <<Mark(node.op)>> \o text[node.right]
        [] node.kind = "Assign"   ->
             <<Named(node.name), Mark("Equal")>> \o text[node.value]
        [] node.kind = "Call"     ->
             text[node.callee] \o <<Mark("LParen")>> \o Listed(Texts(node.args))
               \o <<Mark("RParen")>>
        [] node.kind = "VarDecl"  ->
             <<Mark("Var"), Named(node.name)>>
               \o (IF node.init = 0 THEN <<>> ELSE <<Mark("Equal")>> \o text[node.init])
               \o End
        [] node.kind = "ExprStmt" -> text[node.expr] \o (IF node.expr = 0 THEN <<>> ELSE End)
        [] node.kind = "Return"   -> <<Mark("Return")>> \o text[node.value] \o End
        [] node.kind = "Block"    ->
             <<Mark("LBrace")>> \o FlattenSeq(Texts(node.stmts)) \o <<Mark("RBrace")>>
        [] node.kind = "If"       ->
             <<Mark("If")>> \o Paren(node.cond) \o text[node.then]
               \o (IF node.else = 0 THEN <<>> ELSE <<Mark("Else")>> \o text[node.else])
        [] node.kind = "While"    ->
             <<Mark("While")>> \o Paren(node.cond) \o text[node.body]
        [] node.kind = "For"      ->
             <<Mark("For"), Mark("LParen")>>
               \o (IF node.init = 0 THEN End ELSE text[node.init])
               \o text[node.cond] \o End \o text[node.step]
               \o <<Mark("RParen")>> \o text[node.body]
        [] node.kind = "FuncDecl" ->
             <<Mark("Function"), Named(node.name), Mark("LParen")>>
               \o Listed(Names(node.params)) \o <<Mark("RParen")>> \o text[node.body]

Phrases(tree) ==
  LET text[k \in 0 .. Len(tree)] == IF k = 0 THEN <<>> ELSE Wording(tree[k], text)
  IN  text

Phrase == Phrases(nodes)

\* A declaration `var a = ;' has no initializer: the tree forgets an equals
\* sign with nothing behind it.
NoEmptyInit(seq) ==
  FlattenSeq([i \in DOMAIN seq |->
    IF seq[i].kind = "Equal" /\ i < Len(seq) /\ seq[i + 1].kind = "Semicolon"
    THEN <<>> ELSE <<seq[i]>>])

BetweenStatements == todo # <<>> /\ Head(todo).do = "statements" /\ Head(todo).of = "Program"

\* Whatever the input is, the statements parsed so far are made of exactly the
\* tokens consumed so far, in their order: none is lost, taken twice or put
\* under the wrong node.  (A token that no statement begins with is never
\* skipped: that is why the parser may hang on it.)
ReadsBack ==
  BetweenStatements =>
    NoEmptyInit(FlattenSeq([s \in DOMAIN results |-> Phrase[results[s]]]))
      = NoEmptyInit([i \in 1 .. current |-> AsRead(tokens[i])])

\* How tightly the expression at a position holds together.
Tightness(k) ==
  IF k = 0 THEN Len(Level) + 2
  ELSE CASE nodes[k].kind = "Assign" -> 0
         [] nodes[k].kind \in {"Binary", "Logical"} ->
              CHOOSE l \in DOMAIN Level : nodes[k].op \in Level[l]
         [] nodes[k].kind = "Unary"  -> Len(Level) + 1
         [] OTHER                    -> Len(Level) + 2

\* Operators group by precedence, and to the left within a level; assignments
\* are no operands.  With ReadsBack this determines the tree.
GroupedByPrecedence ==
  \A i \in DOMAIN nodes :
    LET node == nodes[i]
    IN  /\ node.kind \in {"Binary", "Logical"} =>
             Tightness(node.left) >= Tightness(i) /\ Tightness(node.right) > Tightness(i)
        /\ node.kind = "Unary" => Tightness(node.right) >= Tightness(i)
        /\ node.kind = "Call" => Tightness(node.callee) >= Tightness(i)

\* Statements that an `else' behind them would belong to.
TakesElse ==
  LET takes[k \in 0 .. Len(nodes)] ==
        IF k = 0 THEN FALSE
        ELSE CASE nodes[k].kind = "If" -> nodes[k].else = 0 \/ takes[nodes[k].else]
               [] nodes[k].kind \in {"While", "For"} -> takes[nodes[k].body]
               [] OTHER -> FALSE
  IN  takes

\* An `else' belongs to the nearest `if' that can have it.
NearestElse ==
  \A i \in DOMAIN nodes :
    nodes[i].kind = "If" /\ nodes[i].else # 0 => ~TakesElse[nodes[i].then]

\* The tokens that a statement can begin with; expressions may lack their left
\* operand.
Starter ==
  (DOMAIN Rule) \cup {"Let", "Identifier", "LParen", "Equal"}
    \cup LiteralKind \cup UnaryOp \cup UNION ToSet(Level)

Hangs ==
  /\ parsed = "parsing"
  /\ Head(todo).do = "statements"
  /\ Peek.kind \notin Starter \cup {"Eof"}
  /\ ~(Head(todo).of = "Block" /\ Check("RBrace"))

\* What the grammar derives is accepted, lists of exactly MaxArgs included, and
\* no longer list is: none gets into the tree.
AcceptsSentences ==
  /\ SubSeq(tokens, 1, Len(tokens) - 1) \in Sentence =>
       parsed \in {"parsing", "done"} /\ ~Hangs
  /\ \A i \in DOMAIN nodes :
       /\ nodes[i].kind = "Call"     => Len(nodes[i].args) <= MaxArgs
       /\ nodes[i].kind = "FuncDecl" => Len(nodes[i].params) <= MaxArgs

\* The parser ends, one way or another, or it is back, for ever, at a token
\* that no statement begins with: in particular, it always ends inside an
\* unfinished block, and nothing else can hang it.
EndsOrHangs == <>(parsed # "parsing") \/ <>[](Peek.kind \notin Starter \cup {"Eof"})

\* A record sees to it that the next token is taken if it is one of these.
Wanted(item) ==
  CASE item.do = "decl"    -> Starter
    [] item.do = "stmt"    -> Starter \ {"Var", "Let"}
    [] item.do = "unary"   -> UnaryOp \cup LiteralKind \cup {"Identifier", "LParen"}
    [] item.do = "primary" -> LiteralKind \cup {"Identifier", "LParen"}
    [] item.do = "more"    -> Level[item.level]
    [] item.do = "assign"  -> {"Equal"}
    [] OTHER               -> {}

\* More than what a record that takes no token leaves in its place.
Weight(item) ==
  CASE item.do = "unary"             -> 3
    [] item.do = "unless"            -> 11
    [] item.do \in {"forInit", "stmt"} -> 12
    [] item.do = "decl"              -> 13
    [] item.do = "statements"        -> 14
    [] item.do = "comma"             -> 18
    [] item.do = "item"              -> 29
    [] item.do \in {"params", "args"} -> 30
    [] OTHER                         -> 1

\* What there is to do until the next token is taken, at most.
Work(items, kind) ==
  LET N == Len(items)
      work[n \in 0 .. N] ==
        IF n = 0 THEN 0
        ELSE LET item == items[N - n + 1]
             IN  Weight(item) + IF kind \in Wanted(item) THEN 0 ELSE work[n - 1]
  IN  work[N]

\* At a token that a statement can begin with, and at the end of the input, the
\* parser never goes round without taking a token: every call and every test
\* of a loop, of a block's too, leaves it less to do before it takes the next.
StepsDescend ==
  [][Peek.kind \in Starter \cup {"Eof"} =>
       \/ parsed' # "parsing" \/ current' > current
       \/ Work(todo', Peek.kind) < Work(todo, Peek.kind)]_parserVars

(***************************************************************************)
(* What the source says of itself and the code does not do.                *)
(***************************************************************************)

\* "JSParser is a recursive descent parser that builds the abstract syntax
\* tree for the JavaScript source." (JSParser.h): it comes to an end.
ParseEnds == <>(parsed # "parsing")

===============================================================================
