CONSTANTS
  A = A
  B = B
  C = C
  Node = {A, B}
  Port <- OwnPort
  Block = {0, 1, 2}
  Prev <- ChainPrev
  Height <- ChainHeight
  Databases <- Either
  MaxEvents = 1
  MayCrash = {A, B}
SPECIFICATION Spec
INVARIANTS
  TypeOK
PROPERTIES
  Quiesces
CHECK_DEADLOCK FALSE
