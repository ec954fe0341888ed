SPECIFICATION Spec
CONSTANTS
  c1 = c1
  c2 = c2
  n1 = n1
  n2 = n2
  Client = {c1, c2}
  Namespace = {n1, n2}
  Rel = {"relates_to", "depends_on"}
  SymmetricRel = {"relates_to"}
  MaxChain = 2
  MaxId = 3
  MaxEdge = 2
  MayExpire = {1}
  Ask <- AskDef
  Request <- RequestDef
SYMMETRY Projects
INVARIANTS
  ChainsClimb
  ChainsStayHome
  EachRelationOnce
  DetachMovesEdgesBack
  ChainsUpToTheLimitResolve
PROPERTIES
  Implements
  HistoryKept
  MergeMovesEdges
CHECK_DEADLOCK FALSE
