SPECIFICATION Spec
CONSTANTS
  old = old
  new = new
  newer = newer
  Supported = {old}
  Unsupported = {new, newer}
  NoVersion = NoVersion
  MaxId = 6
  Plans <- PlansDef
PROPERTIES
  Implements
  PlanCarriedOut
  SessionEnds
CHECK_DEADLOCK FALSE
