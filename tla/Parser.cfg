\* The parser on sentences of the grammar and on what is none.
CONSTANTS
  Number <- MCNumber
  Arith <- MCArith
  String <- MCString
  Concat <- MCConcat
  Text <- MCText
  Source <- MCSource
  Sentence <- MCSentence
  MaxArgs = 3
SPECIFICATION ParserSpec
INVARIANTS
  TypeOK
  ReadsBack
  GroupedByPrecedence
  NearestElse
  AcceptsSentences
PROPERTIES
  EndsOrHangs
  StepsDescend
\* A parser that is done takes no step.
CHECK_DEADLOCK FALSE
