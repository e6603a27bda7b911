SPECIFICATION Spec
CONSTANTS
  Ids <- OneId
  Strs <- TwoStrs
  Garbage <- Uninitialised
  Alphabet <- CodesAlphabet
  MaxLexems = 6
  builtin <- MCBuiltin
  write_body = 7
PROPERTIES
  PostactionsStay
CHECK_DEADLOCK FALSE
