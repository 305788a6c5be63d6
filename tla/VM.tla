---------------------------------- MODULE VM ----------------------------------
(***************************************************************************)
(* The stack machine that runs the bytecode, one instruction per step.     *)
(***************************************************************************)
EXTENDS JSValue, Bytecode, SequencesExt

VARIABLES
  code,       \* the bytecode
  ctx,        \* the constants pool
  ip,         \* instruction pointer: index of the byte to fetch next, from 0
  stack,
  globals,    \* a map from names (strings) to values
  result      \* "idle" before run, "running", and how run ended: "ok", or
              \* "undefined" once the behaviour of the C++ program is, "thrown"
              \* when the bytecode breaks off inside an instruction

vmVars == <<code, ctx, ip, stack, globals, result>>

NoGlobals == [n \in {} |-> Undefined]

\* resolveGlobal
ResolveGlobal(map, n) == IF n \in DOMAIN map THEN map[n] ELSE Undefined

\* globals[n] = v
SetIn(map, n, v) == [m \in DOMAIN map \cup {n} |-> IF m = n THEN v ELSE map[m]]

VMInit ==
  /\ code = <<>>
  /\ ctx = <<>>
  /\ ip = 0
  /\ stack = <<>>
  /\ globals = NoGlobals
  /\ result = "idle"

\* The byte at ip, and the operand behind it.
Fetched == code[ip + 1]
Operand == code[ip + 2]

OperandCode == {OPCode.Constant, OPCode.GetGlobal, OPCode.SetGlobal}

AtInstruction(ops) ==
  /\ result = "running"
  /\ ip < Len(code)
  /\ Fetched \in ops
  /\ Fetched \in OperandCode => ip + 1 < Len(code)

\* What an operator applied to the topmost value, or to the two topmost ones,
\* does to the stack.
Top == Last(stack)
Second == stack[Len(stack) - 1]

Underflow(n) == Len(stack) < n

\* back() and pop_back() on an empty vector.
StackUndefined ==
  /\ result' = "undefined"
  /\ UNCHANGED <<code, ctx, ip, stack, globals>>

\* Take n values, push v, and go on behind an instruction of `width' bytes.
Yield(n, v, width) ==
  /\ stack' = Append(SubSeq(stack, 1, Len(stack) - n), v)
  /\ ip' = ip + width
  /\ UNCHANGED <<code, ctx, globals, result>>

\* loadConstant, indexing the pool with whatever the operand is.
Constant(offset) == ctx[offset + 1]
OperandInPool == Operand < Len(ctx)

\* The token whose operator a binary instruction computes.
Token(op) ==
  CASE op = OPCode.Add          -> "Plus"
    [] op = OPCode.Sub          -> "Minus"
    [] op = OPCode.Mul          -> "Star"
    [] op = OPCode.Div          -> "Slash"
    [] op = OPCode.Equal        -> "EqualEqual"
    [] op = OPCode.NotEqual     -> "BangEqual"
    [] op = OPCode.Greater      -> "Greater"
    [] op = OPCode.GreaterEqual -> "GreaterEqual"
    [] op = OPCode.Lesser       -> "Less"
    [] op = OPCode.LesserEqual  -> "LessEqual"

BinaryCode == {OPCode.Add, OPCode.Sub, OPCode.Mul, OPCode.Div, OPCode.Equal,
               OPCode.NotEqual, OPCode.Greater, OPCode.GreaterEqual,
               OPCode.Lesser, OPCode.LesserEqual}

\* The instructions that run has a case for.
HandledCode == BinaryCode \cup OperandCode
  \cup {OPCode.Return, OPCode.Negate, OPCode.Not, OPCode.And, OPCode.Or}

(***************************************************************************)
(* Mistakes: see GC for what this section is for.                          *)
(***************************************************************************)

\* GetGlobal does not step over its operand.
RunGetGlobalShort ==
  /\ AtInstruction({OPCode.GetGlobal})
  /\ IF ~OperandInPool
     THEN StackUndefined
     ELSE LET name == AsString(Constant(Operand))
          IN  /\ globals' = SetIn(globals, name, ResolveGlobal(globals, name))
              /\ stack' = Append(stack, ResolveGlobal(globals, name))
              /\ ip' = ip + 1
              /\ UNCHANGED <<code, ctx, result>>

\* The default case stays where it is.
RunUnexpectedStays ==
  /\ AtInstruction(Byte \ HandledCode)
  /\ UNCHANGED vmVars

\* The operands of a binary instruction are popped in the wrong order.
RunBinarySwapped ==
  /\ AtInstruction(BinaryCode)
  /\ IF Underflow(2) THEN StackUndefined
                     ELSE Yield(2, VMBinary(Token(Fetched), Top, Second), 1)

RunReturn ==
  /\ AtInstruction({OPCode.Return})
  /\ result' = "ok"
  /\ ip' = ip + 1
  /\ UNCHANGED <<code, ctx, stack, globals>>

RunConstant ==
  /\ AtInstruction({OPCode.Constant})
  /\ IF OperandInPool THEN Yield(0, Constant(Operand), 2) ELSE StackUndefined

RunNegate ==
  /\ AtInstruction({OPCode.Negate})
  /\ IF Underflow(1) THEN StackUndefined ELSE Yield(1, Negated(Top), 1)

RunNot ==
  /\ AtInstruction({OPCode.Not})
  /\ IF Underflow(1) THEN StackUndefined ELSE Yield(1, Not(Top), 1)

RunLogical ==
  /\ AtInstruction({OPCode.And, OPCode.Or})
  /\ IF Underflow(2)
     THEN StackUndefined
     ELSE Yield(2, VMLogical(IF Fetched = OPCode.And THEN "And" ELSE "Or", Second, Top), 1)

RunBinary ==
  /\ AtInstruction(BinaryCode)
  /\ IF Underflow(2) THEN StackUndefined
                     ELSE Yield(2, VMBinary(Token(Fetched), Second, Top), 1)

RunSetGlobal ==
  /\ AtInstruction({OPCode.SetGlobal})
  /\ IF Underflow(1) \/ ~OperandInPool
     THEN StackUndefined
     ELSE /\ globals' = SetIn(globals, AsString(Constant(Operand)), Top)
          /\ stack' = Front(stack)
          /\ ip' = ip + 2
          /\ UNCHANGED <<code, ctx, result>>

\* globals[ident] creates the variable where there is none.
RunGetGlobal ==
  /\ AtInstruction({OPCode.GetGlobal})
  /\ IF ~OperandInPool
     THEN StackUndefined
     ELSE LET name == AsString(Constant(Operand))
          IN  /\ globals' = SetIn(globals, name, ResolveGlobal(globals, name))
              /\ stack' = Append(stack, ResolveGlobal(globals, name))
              /\ ip' = ip + 2
              /\ UNCHANGED <<code, ctx, result>>

\* fetch of an operand that is not there: code.at throws.
RunOperandMissing ==
  /\ result = "running"
  /\ ip + 1 = Len(code)
  /\ Fetched \in OperandCode
  /\ result' = "thrown"
  /\ ip' = ip + 2
  /\ UNCHANGED <<code, ctx, stack, globals>>

\* The default case prints and goes on.
RunUnexpected ==
  /\ AtInstruction(Byte \ HandledCode)
  /\ ip' = ip + 1
  /\ UNCHANGED <<code, ctx, stack, globals, result>>

RunEnd ==
  /\ result = "running"
  /\ ip >= Len(code)
  /\ result' = "ok"
  /\ UNCHANGED <<code, ctx, ip, stack, globals>>

VMNext ==
  \/ RunReturn \/ RunConstant \/ RunNegate \/ RunNot \/ RunLogical
  \/ RunBinary \/ RunSetGlobal \/ RunGetGlobal
  \/ RunOperandMissing \/ RunUnexpected \/ RunEnd

VMTypeOK ==
  /\ code \in Seq(Byte)
  /\ ctx \in Seq(Value)
  /\ ip \in Nat
  /\ stack \in Seq(Value)
  /\ DOMAIN globals \subseteq Nat
  /\ \A n \in DOMAIN globals : globals[n] \in Value
  /\ result \in {"idle", "running", "ok", "undefined", "thrown"}

===============================================================================
