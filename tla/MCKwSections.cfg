SPECIFICATION FairSpec
CONSTANTS
  Ids <- MCIds
  Strs <- MCStrs
  Garbage <- MCGarbage
  Alphabet <- MCAlphabet
  MaxLexems = 7
  builtin <- MCBuiltin
  write_body = 7
INVARIANTS
  TypeOK
  Registered
  Numbered
  StaleIsLiteral
PROPERTIES
  FirstDefinitionStays
  FollowsGrammar
  SectionsEnd
CHECK_DEADLOCK FALSE
