\* On a statement without expression the parser stays where it is.
CONSTANTS
  Number <- MCNumber
  Arith <- MCArith
  String <- MCString
  Concat <- MCConcat
  Text <- MCText
  Source <- EmptyStatement
  Sentence = {}
  MaxArgs = 3
SPECIFICATION ParserSpec
PROPERTY ParseEnds
CHECK_DEADLOCK FALSE
