CONSTANTS
  Words <- MCWords
  CharSets <- MCCharSets
  Texts <- MCTexts
  MaxCalls = 3
  MaxText = 9
SPECIFICATION Spec
CHECK_DEADLOCK FALSE
INVARIANTS TypeOK Interned AttributesStay CategoriesTold StraightTablesRead
