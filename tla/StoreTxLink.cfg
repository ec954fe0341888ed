SPECIFICATION Spec
CONSTANTS
  c1 = c1
  n1 = n1
  n2 = n2
  s1 = s1
  s2 = s2
  Client = {c1}
  Namespace = {n1, n2}
  Rel = {"relates_to", "depends_on"}
  SymmetricRel = {"relates_to"}
  MaxChain = 3
  MaxId = 3
  MaxEdge = 3
  Session = {s1, s2}
  ScopeOf <- TwoProjects
  Calls <- LinkCalls
INVARIANTS
  NoLinkToTheRetired
  OnlyAForgetFailsALink
PROPERTIES
  Implements
  WritesStayInScope
