CONSTANTS
  Chars <- MCChars
  char_classes <- MCchar_classes
  IdLetters <- MCTwoLetters
  MaxText = 5
  MaxFailed = 0
  ExprLeaves <- MCNoLetters
  Acts = {1, 2}
  WriteAction = 7
  KeywordLists <- MCNoKeywords
  MaxCommands = 0
  MaxWord = 3
SPECIFICATION Spec
CHECK_DEADLOCK FALSE
INVARIANT EveryCharacterWritten
