SPECIFICATION Spec
CONSTANTS
  Heaps       <- MCHeaps
  HeapSpace   = 8
  HunkSize    = 2
  Kinds       <- MCKinds
  GlobalCount = 1
  FrameSizes  <- MCFrameSizes
  MaxFrames   = 2
  Nil         = Nil
INVARIANTS
  TypeOK
  Tiled
  FreeListed
  NoDangling
  Collected
  HaltOnlyIfFull
PROPERTIES
  KeepsReachable
  RequestAnswered
  ImplementsStore
CHECK_DEADLOCK FALSE
