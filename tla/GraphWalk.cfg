SPECIFICATION Spec
CONSTANTS
  Node = {1, 2, 3, 4, 5}
  Rel = {"x", "y"}
  AnyRel = any
  MaxDepth = 3
  MaxResults = 3
  Graphs <- GraphsDef
  Depths = {0, 1, 2, 9}
INVARIANTS
  HopIsDistance
  CompleteOrCut
PROPERTIES
  Returns
CHECK_DEADLOCK FALSE
