SPECIFICATION Spec
CONSTANTS
  Pointee   <- MCPointee
  NoName    = "none"
  Deep      = 40
  Worlds    <- Hasty
INVARIANTS
  RefusedIsUseless
CHECK_DEADLOCK FALSE
