SPECIFICATION Spec
CONSTANTS
  Chars <- mc_Chars
  Keywords <- mc_Keywords
  Names <- mc_Names
  MaxText = 4
  MaxLine = 4
INVARIANTS
  TypeOK
  LexemsRead
  ReadAgain
PROPERTIES
  LinesCounted
CHECK_DEADLOCK FALSE
