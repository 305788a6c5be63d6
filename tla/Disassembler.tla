----------------------------- MODULE Disassembler -----------------------------
(***************************************************************************)
(* The disassembler: what it prints for a sequence of bytes.               *)
(***************************************************************************)
EXTENDS Bytecode, SequencesExt

\* The cases of disassembleInstruction; it knows no other instruction.
Named == OPCode.Constant :> "OP_CONSTANT" @@ OPCode.Add :> "OP_ADD"
           @@ OPCode.Sub :> "OP_SUB" @@ OPCode.Mul :> "OP_MUL"
           @@ OPCode.Div :> "OP_DIV" @@ OPCode.Negate :> "OP_NEGATE"
           @@ OPCode.Return :> "OP_RETURN"

InstructionName(byte) == IF byte \in DOMAIN Named THEN Named[byte] ELSE "Unknown"

(***************************************************************************)
(* Mistakes: see GC for what this section is for.                          *)
(***************************************************************************)

\* An instruction it does not know is taken to have an operand.
NextOffsetSkips(code, offset) ==
  IF code[offset + 1] \in DOMAIN Named THEN offset + 1 ELSE offset + 2

\* Every case returns the offset of the next byte, that of Constant too.
NextOffset(code, offset) == offset + 1

\* disassemble: the lines printed from the first byte on.
Disassemble(code) ==
  LET from[offset \in 0 .. Len(code) + 1] ==
        IF offset >= Len(code)
        THEN <<>>
        ELSE <<[offset |-> offset, name |-> InstructionName(code[offset + 1])]>>
               \o from[NextOffset(code, offset)]
  IN  from[0]

===============================================================================
