CONSTANTS
  MaxBlocks = 3
  MaxPending = 2
SPECIFICATION Spec
INVARIANTS
  ReindexRebuilds
