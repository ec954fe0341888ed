SPECIFICATION Spec
CONSTANTS
  ChunkTokens = 8
  OverlapTokens = 2
  ChunkChars = 10
  OverlapChars = 4
  Splits <- SplitsDef
  Texts <- TextsDef
INVARIANTS
  WithinBudget
  StartsAtWords
  WordsWhole
  FactsWhole
PROPERTIES
  Advances
CHECK_DEADLOCK FALSE
