SPECIFICATION Spec
CONSTANTS
  pair   = pair
  snip   = snip
  snap   = snap
  name   = name
  Node      <- MCNode
  Permanent <- MCPermanent
  Degree    <- MCDegree
  Full   = 3
  P3     = P3
  Nil    = Nil
INVARIANTS
  PathBack
  Restored
  MarksReachable
PROPERTIES
  Terminates
CHECK_DEADLOCK FALSE
