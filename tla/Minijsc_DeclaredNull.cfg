\* A declaration without initializer does not bind its name to null.
CONSTANTS
  Number <- MCNumber
  Arith <- MCArith
  String <- MCString
  Concat <- MCConcat
  Text <- MCText
  Source <- MCSource
  Sentence = {}
  Session <- DeclaresOnly
  MaxArgs = 3
  Functions <- MCFunctions
  MaxScopes = 20
SPECIFICATION Spec
PROPERTY DeclaredNull
CHECK_DEADLOCK FALSE
