SPECIFICATION ExpandSpec
CONSTANTS
  Memory = {1, 2, 3, 4, 5}
  Score = {1, 2}
  Links <- LinksDef
  Limits = {1, 2, 3}
  Slots = {0, 1, 3}
  Allowed <- AllowedDef
INVARIANTS
  HitsThenNeighbours
  FewHitsLost
  BestNeighboursShown
CHECK_DEADLOCK FALSE
