CONSTANTS
  Number <- MCNumber
  Arith <- MCArith
  String <- MCString
  Concat <- MCConcat
  Text <- MCText
  Program <- LongProgram
  Handmade = {}
  MaxKept = 1
SPECIFICATION Spec
INVARIANT NamesLoaded
CHECK_DEADLOCK FALSE
