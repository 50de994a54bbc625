SPECIFICATION Spec
CONSTANTS
  a = a
  b = b
  wrong = wrong
  Path          = {a, b}
  CFile         = {}
  Texts        <- OpenQuote
  Span          = 8
  MaxFile       = 2
  MaxLine       = 3
  Err           = {wrong}
  MaxComplaints = 1
INVARIANT
  Accounted
CHECK_DEADLOCK FALSE
