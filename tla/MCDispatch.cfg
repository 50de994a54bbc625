SPECIFICATION Spec
CONSTANTS
  Pointee   <- MCPointee
  NoName    = "none"
  Deep      = 40
  Worlds    <- MCWorlds
INVARIANTS
  RefusedIsUseless
  Substitutable
  BoundFits
  CotypeIsCoercing
CHECK_DEADLOCK FALSE
