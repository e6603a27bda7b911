SPECIFICATION Spec
CONSTANTS
  Ids <- OneId
  Strs <- TwoStrs
  Garbage <- Uninitialised
  Alphabet <- CodesAlphabet
  MaxLexems = 6
  builtin <- MCBuiltin
  write_body = 7
INVARIANTS
  CodesAreIdentifiers
CHECK_DEADLOCK FALSE
