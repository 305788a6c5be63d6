------------------------------- MODULE MCParser -------------------------------
(***************************************************************************)
(* Inputs for the parser: sentences of the grammar, sentences with a token *)
(* missing, and every short sequence of tokens.                            *)
(***************************************************************************)
EXTENDS Parser

MCNumber == {0, 1}
MCArith(op, x, y) == x
MCString == 0 .. 3
MCConcat(s, t) == s
MCText(v) == 0

\* Two variables and a function; a keyword's literal is its text, a string
\* nobody asks for but in the case of undefined.
A == Named(1)
B == Named(2)
F == Named(3)
One == Word("Numeric", Num(1))
T(kind) == Mark(kind)
LP == T("LParen")
RP == T("RParen")
LB == T("LBrace")
RB == T("RBrace")
Semi == T("Semicolon")
Eq == T("Equal")

AnyOp == UNION ToSet(Level)

(***************************************************************************)
(* Expressions.                                                            *)
(***************************************************************************)

\* Two operators side by side, each one against each.
Chain == {<<A, T(op), One, T(op2), B>> : op \in AnyOp, op2 \in AnyOp}

\* One of each level, the whole ladder up and down.
Ladder == {<<A, T("Or"), B, T("And"), A, T("EqualEqual"), B, T("Less"), A, T("Minus"),
             B, T("Star"), A, T("Minus"), B, T("Greater"), A, T("BangEqual"), B,
             T("And"), A, T("Or"), B>>}

Prefixed == {<<T(u), T(v), A, T(op), T(u), B>> : u \in UnaryOp, v \in UnaryOp,
               op \in {"Star", "Less", "And"}}

Grouped == {<<LP, A, T(op), B, RP, T(op2), LP, LP, One, RP, RP>> :
              op \in {"Minus", "Or"}, op2 \in {"Star", "And"}}

\* As many items as there may be, and more.
Commas(n) == FlattenSeq([i \in 1 .. n |-> IF i = 1 THEN <<A>> ELSE <<T("Comma"), A>>])

Called(n) == <<F, LP>> \o Commas(n) \o <<RP>>

Calls == {Called(n) : n \in 0 .. MaxArgs}
           \cup { <<F, LP, A, Eq, B, T("Comma"), F, LP, RP, RP, LP, One, RP, T("Plus"), A>>,
                  <<T("Minus"), F, LP, T("Bang"), A, RP, LP, RP>> }

Assigned == { <<A, Eq, B, Eq, A, T("Or"), B>>, <<A, T("Plus"), LP, B, Eq, One, RP>> }

Constants == {<<T(k)>> : k \in {"True", "False", "Null"}}
               \cup {<<Word(k, Str(s))>> : k \in {"String", "Undefined"}, s \in {0, 2}}

Expression == Chain \cup Ladder \cup Prefixed \cup Grouped \cup Calls \cup Assigned
                \cup Constants

(***************************************************************************)
(* Statements.                                                             *)
(***************************************************************************)

Simple == { <<A, Semi>>, <<LB, RB>>, <<T("Return"), Semi>>, <<T("Return"), A, Semi>> }

Cond(keyword) == <<T(keyword), LP, A, RP>>

ForHead == {<<T("For"), LP>> \o init \o c \o <<Semi>> \o step \o <<RP>> :
              init \in { <<Semi>>, <<T("Var"), A, Eq, One, Semi>>, <<A, Eq, B, Semi>> },
              c \in { <<>>, <<A, T("Less"), One>> },
              step \in { <<>>, <<A, Eq, B>> }}

OneBranch(inner) ==
  {h \o s : h \in {Cond("If"), Cond("While")}, s \in inner}

TwoBranches(inner) ==
  {Cond("If") \o s \o <<T("Else")>> \o t : s \in inner, t \in Simple}

\* Two of these in each other: whose is the else?
Nested1 == Simple \cup OneBranch(Simple) \cup TwoBranches({<<A, Semi>>})
Nested2 == OneBranch(Nested1) \cup TwoBranches(Nested1)
             \cup {h \o s : h \in ForHead, s \in {<<A, Semi>>, Cond("If") \o <<A, Semi>>}}

Declaration ==
  {<<T(k), A>> \o init \o <<Semi>> : k \in {"Var", "Let"},
      init \in { <<>>, <<Eq, One>>, <<Eq, B, Eq, A>> }}
    \cup {<<T("Function"), F, LP>> \o Commas(n) \o <<RP, LB>> \o body \o <<RB>> :
            n \in 0 .. MaxArgs, body \in { <<>>, <<T("Return"), A, Semi>> }}

Block == {<<LB>> \o s \o t \o <<RB>> : s \in Declaration, t \in Simple}

MCSentence ==
  { <<>>, <<A, Semi, LB, B, Semi, RB, T("Var"), A, Semi>> }
    \cup {e \o <<Semi>> : e \in Expression}
    \cup Nested2 \cup Declaration \cup Block

(***************************************************************************)
(* Other inputs.                                                           *)
(***************************************************************************)

\* One argument or parameter too many.
TooMany == { Called(MaxArgs + 1) \o <<Semi>>,
             <<T("Function"), F, LP>> \o Commas(MaxArgs + 1) \o <<RP, LB, RB>> }

\* One token taken out, or put in the place of another.
Damaged == Grouped \cup Calls \cup Assigned \cup ForHead \cup Block
             \cup TwoBranches({<<A, Semi>>})

Missing == UNION {{RemoveAt(s, i) : i \in DOMAIN s} : s \in Damaged}
Replaced == UNION {{[s EXCEPT ![i] = t] : i \in DOMAIN s, t \in {Semi, T("Comma")}} :
                     s \in Damaged}

\* Every sequence of at most three tokens; Const stands for the keywords the
\* parser does not know.
Alphabet == {A, One, LP, RP, LB, RB, Semi, Eq, T("Minus"), T("Star"), T("Or"), T("Comma"),
             T("Var"), T("Function"), T("If"), T("Else"), T("For"), T("Return"), T("Const")}

Short == UNION {[1 .. n -> Alphabet] : n \in 0 .. 3}

\* Statements of the language that consist of a semicolon.
EmptyStatement == { <<A, Semi, Semi>>, Cond("While") \o <<Semi>> }

MCSource == MCSentence \cup TooMany \cup Missing \cup Replaced \cup Short
===============================================================================
