SPECIFICATION Spec
CONSTANTS
  Low    <- MCLow
  High   <- MCHigh
  Bits    = 4
  BitAnd <- MCBitAnd
  BitOr  <- MCBitOr
  BitXor <- MCBitXor
  Shl    <- MCShl
  Shr    <- MCShr
  Hooks  <- MostHooks
INVARIANTS
  Faithful
PROPERTIES
  StaysWithin
  ConstantsFold
CONSTRAINT
  AllWithin
CHECK_DEADLOCK FALSE
