SPECIFICATION MCSpec
CONSTANTS
  top    = top
  middle = middle
  bottom = bottom
  one    = one
  two    = two
  Nil    = Nil
  Layer <- MCLayers
  Key   <- MCKeys
  Value <- MCValues
  Count <- MCCounts
INVARIANTS
  NothingLost
  Ordered
  Balanced
  Meaning
PROPERTIES
  SetKeyEnds
  ImplementsScopes
CHECK_DEADLOCK FALSE
