CONSTANTS
  Chars <- MCChars
  char_classes <- MCchar_classes
  IdLetters <- MCNoLetters
  MaxText = 0
  MaxFailed = 0
  ExprLeaves <- MCOneLetter
  Acts = {1, 2}
  WriteAction = 7
  KeywordLists <- MCNoKeywords
  MaxCommands = 4
  MaxWord = 3
SPECIFICATION Spec
CHECK_DEADLOCK FALSE
INVARIANT MinimalKeepsActions
