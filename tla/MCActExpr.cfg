SPECIFICATION FairSpec
CONSTANTS
  Acts <- TwoActs
  MaxLexems = 7
  MaxRepaired = 5
  MaxCommands = 14
INVARIANTS
  TypeOK
  Trees
  ActionsCoverOperands
PROPERTIES
  FollowsGrammar
  OnlyWrongIsDiagnosed
  EndsOrRepairs
CHECK_DEADLOCK FALSE
