CONSTANTS
  A = A
  B = B
  C = C
  Node = {A, B}
  Port <- OwnPort
  Block = {0, 1, 2}
  Prev <- ChainPrev
  Height <- ChainHeight
  Databases <- Short
  MaxEvents = 1
  MayCrash = {}
SPECIFICATION Spec
INVARIANTS
  NoGapWhenQuiet
CHECK_DEADLOCK FALSE
