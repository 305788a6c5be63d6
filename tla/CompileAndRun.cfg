\* Compiled code against the meaning of the tree, and any bytecode at all.
CONSTANTS
  Number <- MCNumber
  Arith <- MCArith
  String <- MCString
  Concat <- MCConcat
  Text <- MCText
  Program <- MCProgram
  Handmade <- MCHandmade
  MaxKept = 1
SPECIFICATION Spec
INVARIANTS
  TypeOK
  CompiledMeansSource
  UnderflowForeseen
  InSync
  AgreesWithInterpreter
  ListsInstructions
PROPERTIES
  FoldingKeepsMeaning
  RunEnds
\* A machine that has returned takes no step.
CHECK_DEADLOCK FALSE
