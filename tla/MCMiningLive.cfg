CONSTANTS
  txA = txA
  txB = txB
  txC = txC
  txD = txD
  coin = coin
  MaxBlocks = 5
  MaxPeerBlocks = 1
  Miner = {m1, m2}
  BlkHandler = {b1}
  CommitMayFail = FALSE
  Tx = {txA, txB, txC, txD}
  Coin = {coin}
  Inputs <- Chain
  BadSig = {txB, txD}
  MayRestart = FALSE
SPECIFICATION MSpec
INVARIANTS
  VerifiesAgain
PROPERTIES
  HandleTxReturns
CHECK_DEADLOCK FALSE
