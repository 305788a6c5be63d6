------------------------------ MODULE MCMinijsc ------------------------------
(***************************************************************************)
(* Sessions for Minijsc: sources put together from a declaration, a        *)
(* function and a use of both, and lines typed after each other.           *)
(***************************************************************************)
EXTENDS Agreement

\* Sums stop at 3, and 0 - 1 at -1.
MCNumber == -1 .. 3
MCArith(op, x, y) ==
  CASE op = "Plus"  -> IF x + y > 3 THEN 3 ELSE IF x + y < -1 THEN -1 ELSE x + y
    [] op = "Minus" -> IF x - y > 3 THEN 3 ELSE IF x - y < -1 THEN -1 ELSE x - y
    [] op = "Star"  -> IF x * y > 3 THEN 3 ELSE IF x * y < -1 THEN -1 ELSE x * y
    [] op = "Slash" -> x
MCString == 0 .. 5
MCConcat(s, t) == 5
MCText(v) == 0

MCFunctions == [name : {3}, params : {<<2>>}] \cup [name : {5}, params : {<<>>}]

(***************************************************************************)
(* Tokens and phrases.                                                     *)
(***************************************************************************)
Id(n) == Word("Identifier", Str(n))
A == Id(1)
B == Id(2)    \* the parameter of F
F == Id(3)
C == Id(4)
G == Id(5)
N(k) == Word("Numeric", Num(k))
T(kind) == Mark(kind)
LP == T("LParen")
RP == T("RParen")
LB == T("LBrace")
RB == T("RBrace")
Semi == T("Semicolon")

Var(n, e) == <<T("Var"), n, T("Equal")>> \o e \o <<Semi>>
Set(n, e) == <<n, T("Equal")>> \o e
Stmt(e) == e \o <<Semi>>
Paren(e) == <<LP>> \o e \o <<RP>>
Op(op, e, f) == e \o <<T(op)>> \o f
Braces(s) == <<LB>> \o s \o <<RB>>
Test(keyword, e) == <<T(keyword)>> \o Paren(e)
Else == <<T("Else")>>
CallOf(f, args) == <<f>> \o Paren(args)
Returns(e) == <<T("Return")>> \o e \o <<Semi>>
Fun(f, params, body) == <<T("Function"), f, LP>> \o params \o <<RP, LB>> \o body \o <<RB>>

(***************************************************************************)
(* Sources.                                                                *)
(***************************************************************************)

\* Bodies of a function of b: returning from within blocks and loops, from
\* one path of two, or not at all; with a variable of their own, or the
\* caller's.
Body ==
  { <<>>,
    Returns(Op("Plus", <<B>>, <<N(1)>>)),
    Var(C, Op("Star", <<B>>, <<N(2)>>)) \o Braces(Returns(<<C>>)),
    Test("If", Op("Less", <<B>>, <<N(1)>>)) \o Returns(<<N(2)>>)
      \o Else \o Stmt(Set(A, <<B>>)),
    Test("While", Op("Less", <<B>>, <<N(3)>>))
      \o Braces(Var(C, <<B>>) \o Test("If", Op("EqualEqual", <<A>>, <<C>>)) \o Returns(<<A>>)
                \o Stmt(Set(B, Op("Plus", <<C>>, <<N(1)>>)))),
    Stmt(Set(A, Op("Plus", <<A>>, <<B>>))) \o Returns(<<>>) }

F1(e) == CallOf(F, e)

\* Uses of it: in operands, arguments and conditions, in blocks and loops.
Use ==
  { Stmt(Set(A, F1(<<N(1)>>))),
    Stmt(Set(A, Op("Minus", F1(<<N(2)>>), F1(<<N(0)>>)))),
    Stmt(Set(A, F1(F1(<<A>>)))),
    Braces(Stmt(F1(<<N(0)>>)) \o Braces(Stmt(Set(A, F1(<<N(1)>>))))) \o Stmt(Set(A, <<A>>)),
    <<T("For"), LP>> \o Var(G, <<N(0)>>) \o Stmt(Op("Less", <<G>>, <<N(2)>>))
      \o Set(G, Op("Plus", <<G>>, <<N(1)>>)) \o <<RP>>
      \o Stmt(Set(A, Op("Plus", <<A>>, F1(<<G>>)))),
    Test("If", F1(<<N(0)>>)) \o Stmt(Set(A, <<N(3)>>)) \o Else \o Braces(Var(G, <<A>>)),
    Stmt(Op("Or", F1(<<A>>), Paren(Set(A, <<N(2)>>)))),
    Stmt(Op("And", F1(<<A>>), Paren(Set(A, <<N(2)>>)))),
    Stmt(CallOf(F, Set(A, <<N(0)>>) \o <<T("Comma")>> \o <<A>>)),
    Fun(G, <<>>, Stmt(F1(<<N(1)>>)) \o Returns(F1(<<N(0)>>))) \o Stmt(Set(A, CallOf(G, <<>>))),
    Fun(G, <<>>, Var(Id(1), <<N(2)>>) \o Stmt(F1(<<N(1)>>))) \o Stmt(CallOf(G, <<>>)) }

Calls == {Var(A, <<N(1)>>) \o Fun(F, <<B>>, body) \o use : body \in Body, use \in Use}

\* A function that calls itself, and one whose name is assigned to by an
\* argument of its call.
Odd ==
  { Fun(F, <<B>>, Test("If", Op("Less", <<B>>, <<N(1)>>)) \o Returns(<<N(1)>>)
                   \o Returns(Op("Star", <<B>>, F1(Op("Minus", <<B>>, <<N(1)>>)))))
      \o Var(A, F1(<<N(2)>>)),
    Fun(F, <<B>>, Returns(<<B>>)) \o Var(A, F1(Set(F, <<N(2)>>))) \o Stmt(<<F>>),
    Fun(F, <<B>>, Fun(G, <<>>, Returns(<<B>>)) \o Returns(CallOf(G, <<>>)))
      \o Var(A, F1(<<N(2)>>)) }

\* What goes wrong, each in a block of its own.
Failure ==
  { <<C>>, Set(C, <<N(1)>>), Op("Plus", <<T("True")>>, <<N(1)>>), CallOf(F, <<>>),
    CallOf(A, <<>>), CallOf(F, <<F>>), Op("Minus", <<A>>, <<F>>), Set(A, <<F>>),
    Op("Or", <<LP, RP>>, <<A>>), Op("And", <<A>>, <<LP, RP>>), <<LP, RP, LP, RP>>,
    <<T("Minus"), LP, F, RP>>, CallOf(F, <<LP, RP>>), Op("Plus", <<LP, RP>>, <<A>>) }

Failing ==
  {Var(A, <<N(1)>>) \o Fun(F, <<B>>, <<>>) \o Braces(Stmt(e)) : e \in Failure}
    \cup { Braces(Returns(<<>>)), Braces(Returns(<<N(1)>>)), <<T("Var"), A, Semi>>,
           Test("If", <<>>) \o <<A, Semi>>, Test("While", <<>>) \o <<A, Semi>>,
           <<T("For"), LP, Semi, Semi, RP, A, Semi>>,
           Test("If", <<A>>), <<A>>, Set(N(1), <<A>>) \o <<Semi>>,
           Fun(F, <<B>>, Returns(<<F>>)) \o Stmt(F1(<<N(0)>>)) }

\* Values of other kinds.
Plain ==
  { Var(A, Op("Plus", <<Word("String", Str(1))>>, <<N(1)>>))
      \o Var(C, <<T("Bang"), T("Minus"), A>>),
    Var(A, Op("Or", <<T("Null")>>, <<T("False")>>)) \o Braces(Var(A, <<N(2)>>) \o Stmt(<<A>>))
      \o Fun(F, <<B>>, <<>>) \o Var(C, <<T("Bang"), LP, F, RP>>),
    Fun(F, <<B>>, <<>>) \o Var(C, <<N(0)>>)
      \o Test("If", Op("And", <<F>>, <<T("True")>>)) \o Stmt(Set(C, <<N(1)>>)) }

\* A line behind the first.
Line == { Stmt(<<A>>), Var(A, <<N(2)>>), Stmt(F1(<<N(1)>>)), <<>> }

MCSession ==
  {<<s>> : s \in Calls \cup Odd \cup Failing \cup Plain}
    \cup {<<s, line>> : s \in Odd \cup Plain, line \in Line}

\* One line that declares a variable and no more.
DeclaresOnly == { << <<T("Var"), A, Semi>> >> }

MCSource == UNION {ToSet(s) : s \in MCSession}
=============================================================================
