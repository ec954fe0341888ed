SPECIFICATION Spec
CONSTANTS
  ChunkTokens = 8
  OverlapTokens = 2
  ChunkChars = 10
  OverlapChars = 4
  Splits <- OneEach
  Texts <- TextsDef
INVARIANTS
  NothingLost
CHECK_DEADLOCK FALSE
