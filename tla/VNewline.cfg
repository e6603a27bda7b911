SPECIFICATION Spec
CONSTANTS
  Ids <- OneId
  Strs <- OneStr
  Garbage <- Uninitialised
  Alphabet <- CodesAlphabet
  MaxLexems = 6
  builtin <- MCBuiltin
  write_body = 7
INVARIANTS
  NewlineIsEnumerated
CHECK_DEADLOCK FALSE
