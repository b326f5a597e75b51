CONSTANTS
  MaxBlocks = 4
  MaxPeerBlocks = 3
  Miner = {m1, m2}
  CommitMayFail = TRUE
SYMMETRY Symmetry
SPECIFICATION Spec
INVARIANTS
  TypeOK
  
  TipMatchesDb
  
  ReceivedNeverOutranksLast
PROPERTIES
  LastMovesUpOrMined
