SPECIFICATION IngestSpec
CONSTANTS
  Absent = Absent
  s1 = s1
  s2 = s2
  s3 = s3
  n1 = n1
  n2 = n2
  h1 = h1
  h2 = h2
  Hook = {h1, h2}
  Session = {s1, s2, s3}
  DirOf <- Dirs
  MaxSummaries = 2
  MaxMemories = 2
SYMMETRY Hooks
INVARIANTS
  RerunIsNoOp
PROPERTIES
  Recorded
CHECK_DEADLOCK FALSE
