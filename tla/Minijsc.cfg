\* Parser and interpreter on whole sessions.
CONSTANTS
  Number <- MCNumber
  Arith <- MCArith
  String <- MCString
  Concat <- MCConcat
  Text <- MCText
  Source <- MCSource
  Sentence = {}
  Session <- MCSession
  MaxArgs = 3
  Functions <- MCFunctions
  MaxScopes = 20
SPECIFICATION Spec
INVARIANTS
  MinijscTypeOK
  AgreesWithScopes
PROPERTIES
  ImplementsScopes
  SourceAnswered
\* The process ends.
CHECK_DEADLOCK FALSE
