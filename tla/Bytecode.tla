------------------------------- MODULE Bytecode -------------------------------
(***************************************************************************)
(* The instruction set.  An instruction is one byte; Constant, GetGlobal   *)
(* and SetGlobal are followed by an operand, one byte too: an offset into  *)
(* the constants pool, cast to OPCode.                                     *)
(***************************************************************************)
EXTENDS Integers

OPCode ==
  [Return |-> 1, Constant |-> 2, Negate |-> 3, Add |-> 4, Sub |-> 5,
   Mul |-> 6, Div |-> 7, Not |-> 8, And |-> 9, Or |-> 10, Equal |-> 11,
   NotEqual |-> 12, Greater |-> 13, Lesser |-> 14, GreaterEqual |-> 15,
   LesserEqual |-> 16, Null |-> 17, True |-> 18, False |-> 19, Pop |-> 20,
   GetGlobal |-> 21, SetGlobal |-> 22]

ByteRange == 256

Byte == 0 .. ByteRange - 1

\* A mistake no definition refers to: the offset is cut to a signed char.
ToSignedByte(offset) == ((offset + 128) % ByteRange) - 128

\* (OPCode)offset
ToByte(offset) == offset % ByteRange

===============================================================================
