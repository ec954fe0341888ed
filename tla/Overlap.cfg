SPECIFICATION Spec
CONSTANTS
  Memory = {1, 2, 3, 4}
  MergeBand = 1
  Distances <- DistancesDef
  Cutoffs <- CutoffsDef
  Limit = 1
  Summaries <- SummariesDef
  MayHide = {3}
  MayLink <- MayLinkDef
INVARIANTS
  ClustersAreComponents
  ListedOrHidden
  EveryPairHasOneReport
PROPERTIES
  ReportsEnd
CHECK_DEADLOCK FALSE
