------------------------------- MODULE JSValue -------------------------------
(***************************************************************************)
(* Primitive values and the operations on them: JSBasicValue, and what the *)
(* interpreter and the virtual machine each make of an operator.           *)
(*                                                                         *)
(* A value is its kind and its datum.  Numbers are doubles in the code;    *)
(* here they are a set of integers with whatever arithmetic Arith gives    *)
(* them, since nothing below depends on what a sum is.  Infinities and     *)
(* not-a-number are left out.  A string is its rank in the order of        *)
(* strings, 0 being the empty one; a boolean is 0 or 1.  What Concat and   *)
(* Text make of strings is left open in the same way.                      *)
(***************************************************************************)
EXTENDS Integers

CONSTANTS
  Number,           \* the numbers
  Arith(_, _, _),   \* Arith(op, x, y) for the four arithmetic operators
  String,           \* the strings
  Concat(_, _),     \* the sum of two strings
  Text(_)           \* toString of a value

ArithOp == {"Plus", "Minus", "Star", "Slash"}

ASSUME NumberAssumption ==
  /\ Number \subseteq Int
  /\ 0 \in Number
  /\ \A op \in ArithOp, x, y \in Number : Arith(op, x, y) \in Number

Num(n) == [kind |-> "Number", val |-> n]
Bool(b) == [kind |-> "Boolean", val |-> IF b THEN 1 ELSE 0]
Str(s) == [kind |-> "String", val |-> s]
Null == [kind |-> "Null", val |-> 0]
Undefined == [kind |-> "Undefined", val |-> 0]

Value == [kind : {"Number"}, val : Number]
           \cup [kind : {"Boolean"}, val : {0, 1}]
           \cup [kind : {"String"}, val : String]
           \cup {Null, Undefined}

ASSUME StringAssumption ==
  /\ String \subseteq Nat
  /\ 0 \in String
  /\ \A s, t \in String : Concat(s, t) \in String
  /\ \A v \in Value : Text(v) \in String

\* getValue<JSNumber> and getValue<JSString>: of a value that holds another
\* alternative they return the default, 0 and the empty string.
AsNumber(v) == IF v.kind = "Number" THEN v.val ELSE 0
AsString(v) == IF v.kind = "String" THEN v.val ELSE 0

\* isTruthy, the same in VM and Interpreter.  The case of a string that is
\* not empty falls through to that of null: no string is true.
IsTruthy(v) == v.kind \in {"Boolean", "Number"} /\ v.val # 0

\* Values of different kinds do not compare; null and undefined not even to
\* themselves.
Comparable(v, w) ==
  v.kind = w.kind /\ v.kind \in {"Number", "String", "Boolean"}

IsEqual(v, w) == Comparable(v, w) /\ v.val = w.val
LesserOrEqual(v, w) == Comparable(v, w) /\ v.val <= w.val
GreaterOrEqual(v, w) == Comparable(v, w) /\ v.val >= w.val

Arithmetic(op, v, w) == Num(Arith(op, AsNumber(v), AsNumber(w)))

\* -x, written as a subtraction.
Negated(v) == Num(Arith("Minus", 0, AsNumber(v)))

Not(v) == Bool(~IsTruthy(v))

(***************************************************************************)
(* Binary operators in the virtual machine, by the token that compiles to  *)
(* them.  The cases of Greater and Lesser fall through to, or share, those *)
(* of GreaterEqual and LesserEqual.                                        *)
(***************************************************************************)
VMBinary(op, v, w) ==
  CASE op \in ArithOp                     -> Arithmetic(op, v, w)
    [] op = "EqualEqual"                  -> Bool(IsEqual(v, w))
    [] op = "BangEqual"                   -> Bool(~IsEqual(v, w))
    [] op \in {"Greater", "GreaterEqual"} -> Bool(GreaterOrEqual(v, w))
    [] op \in {"Less", "LessEqual"}       -> Bool(LesserOrEqual(v, w))

VMLogical(op, v, w) ==
  Bool(IF op = "And" THEN IsTruthy(v) /\ IsTruthy(w)
                     ELSE IsTruthy(v) \/ IsTruthy(w))

(***************************************************************************)
(* The same operators in the interpreter, which compares numbers whatever  *)
(* the kinds are, and for which plus also joins strings.                   *)
(***************************************************************************)

\* A string on either side makes the other one a string; what is left but two
\* numbers is an error, which is no value.
TypeError == [kind |-> "TypeError", val |-> 0]

InterpreterPlus(v, w) ==
  CASE {v.kind, w.kind} = {"Number"} -> Arithmetic("Plus", v, w)
    [] "String" \in {v.kind, w.kind} ->
         Str(Concat(IF v.kind = "String" THEN v.val ELSE Text(v),
                    IF w.kind = "String" THEN w.val ELSE Text(w)))
    [] OTHER                         -> TypeError

InterpreterBinary(op, v, w) ==
  LET x == AsNumber(v)
      y == AsNumber(w)
  IN  CASE op = "Plus"          -> InterpreterPlus(v, w)
        [] op \in ArithOp \ {"Plus"} -> Arithmetic(op, v, w)
        [] op = "EqualEqual"    -> Bool(x = y)
        [] op = "BangEqual"     -> Bool(x # y)
        [] op = "Greater"       -> Bool(x > y)
        [] op = "GreaterEqual"  -> Bool(x >= y)
        [] op = "Less"          -> Bool(x < y)
        [] op = "LessEqual"     -> Bool(x <= y)

\* Short circuit: the operand that decides is the value.
InterpreterLogical(op, v, w) ==
  IF op = "Or" THEN IF IsTruthy(v) THEN v ELSE w
               ELSE IF IsTruthy(v) THEN w ELSE v

===============================================================================
