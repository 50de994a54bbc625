SPECIFICATION Spec
CONSTANTS
  Texts <- MCTexts
  Operators = 4
  Numbers = 5
  Literals = 5
  Words = 3
INVARIANT LongestMatch LinesEnd
CHECK_DEADLOCK FALSE
