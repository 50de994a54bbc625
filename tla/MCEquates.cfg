SPECIFICATION Spec
CONSTANTS
  m = m
  n = n
  Name     = {m, n}
  Program <- Programs
  MaxLevel = 5
  MaxClosures = 6
INVARIANTS
  Hygienic
  ForwardedHere
  EveryBodyOnce
  BodySeesScope
PROPERTIES
  Ends
CHECK_DEADLOCK FALSE
