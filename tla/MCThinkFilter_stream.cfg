CONSTANTS
  Characters <- Letters
  OpenTag <- ShortOpen
  CloseTag <- ShortClose
  Texts <- Answers
  MaxTokens = 5
SPECIFICATION Spec
INVARIANTS TypeOK ShowsTheVisible HoldsBackLittle
CHECK_DEADLOCK FALSE
