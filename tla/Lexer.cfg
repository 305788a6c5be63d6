\* The lexer against the abstract tokenizer.
CONSTANTS
  Alpha <- MCAlpha
  Digit <- MCDigit
  Keyword <- MCKeyword
  Input <- MCInput
SPECIFICATION Spec
INVARIANTS
  TypeOK
  LineCounted
PROPERTIES
  ImplementsTokenizer
  LexEnds
\* A lexer that is done takes no step.
CHECK_DEADLOCK FALSE
