CONSTANTS
  txA = txA
  txB = txB
  txC = txC
  txD = txD
  coin = coin
  MaxBlocks = 3
  MaxPeerBlocks = 2
  Miner = {m1, m2}
  BlkHandler = {b1, b2}
  CommitMayFail = FALSE
  Tx = {txA, txB, txC}
  Coin = {coin}
  Inputs <- Rivals
  BadSig = {txC}
  MayRestart = TRUE
SYMMETRY RivalSymmetry
SPECIFICATION MSpec
INVARIANTS
  MTypeOK
  FlagHasOwner
  MinedWellFormed
  AcceptedNotLost
PROPERTIES
  Spec
