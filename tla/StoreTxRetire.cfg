SPECIFICATION FairSpec
CONSTANTS
  c1 = c1
  n1 = n1
  n2 = n2
  s1 = s1
  s2 = s2
  Client = {c1}
  Namespace = {n1, n2}
  Rel = {"relates_to", "depends_on"}
  SymmetricRel = {"relates_to"}
  MaxChain = 3
  MaxId = 4
  MaxEdge = 2
  Session = {s1, s2}
  ScopeOf <- SameProject
  Calls <- RetireCalls
PROPERTIES
  Implements
  SaveReportTrue
  RestoreReportTrue
  CallsReturn
