CONSTANTS
  Number <- MCNumber
  Arith <- MCArith
  String <- MCString
  Concat <- MCConcat
  Text <- MCText
  Program <- ExprProgram
  Handmade = {}
  MaxKept = 1
SPECIFICATION Spec
INVARIANT EqualityShared
CHECK_DEADLOCK FALSE
