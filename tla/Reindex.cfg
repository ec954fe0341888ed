SPECIFICATION FairSpec
CONSTANTS
  s1 = s1
  s2 = s2
  r1 = r1
  r2 = r2
  Server = {s1, s2}
  Run = {r1, r2}
  ModelOf <- TwoModels
  First = 2
  Blank = {1}
  MaxId = 3
  MaxPieces = 2
  MayForget = {3}
INVARIANTS
  Whole
  NothingLeftBehind
PROPERTIES
  RunsEnd
  OnlyNewcomersConverted
CHECK_DEADLOCK FALSE
