SPECIFICATION Spec
CONSTANTS
  m = m
  n = n
  Name     = {m, n}
  Program <- Nested
  MaxLevel = 5
  MaxClosures = 6
INVARIANTS
  AllSubstituted
CHECK_DEADLOCK FALSE
