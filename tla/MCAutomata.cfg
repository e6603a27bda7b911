CONSTANTS
  Chars <- MCChars
  char_classes <- MCchar_classes
  IdLetters <- MCIdLetters
  MaxText = 5
  MaxFailed = 3
  ExprLeaves <- MCExprLeaves
  Acts = {1, 2}
  WriteAction = 7
  KeywordLists <- MCKeywordLists
  MaxCommands = 5
  MaxWord = 3
SPECIFICATION FairSpec
INVARIANTS
  TypeOK
  ReportsMalformed
  IdentifiersSpelled
  KeywordsApart
  FirstCharactersFound
  AcceptsExpression
  ActionsOfExpression
  Minimal
  ScannerAccepts
PROPERTY Finishes
CHECK_DEADLOCK FALSE
