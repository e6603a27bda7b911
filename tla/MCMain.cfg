SPECIFICATION MCSpec
CONSTANTS
  Ids <- AllIds
  Strs <- AllStrs
  Garbage <- Uninitialised
  Alphabet <- AllAlphabet
  MaxLexems = 7
  builtin <- MCBuiltin
  write_body = 7
INVARIANTS
  TypeOK
  TablesAgree
  ActionsHaveBodies
  VerifiedIsComplete
PROPERTIES
  FirstDefinitionStays
  HeadersFollowGrammar
  CommentsFollowGrammar
  EndsOrStuck
CHECK_DEADLOCK FALSE
