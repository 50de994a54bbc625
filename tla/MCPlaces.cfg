SPECIFICATION Spec
CONSTANTS
  a = a
  b = b
  c = c
  d = d
  e = e
  wrong = wrong
  Path          = {a, b, c, d, e}
  CFile         = {c}
  Texts        <- SomeTexts
  Span          = 8
  MaxFile       = 2
  MaxLine       = 3
  Err           = {wrong}
  MaxComplaints = 1
INVARIANTS
  CountsUnique
  Resumable
PROPERTIES
  ImplementsReport
  WritingEnds
CHECK_DEADLOCK FALSE
