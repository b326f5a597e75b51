------------------------------ MODULE MCMining ------------------------------
(* Mining with two goroutines of handleTx and up to two of handleBlock, on *)
(* transactions that spend from the same coin, or also from one another.   *)
EXTENDS Mining, TLC

CONSTANTS txA, txB, txC, txD, coin

Rivals == [t \in Tx |-> {coin}]
Chain  == [t \in Tx |-> IF t = txC THEN {txA, coin} ELSE {coin}]

Symmetry == Permutations(Miner) \cup Permutations(BlkHandler)
\* Of Rivals, where txA and txB play the same part.
RivalSymmetry == Symmetry \cup Permutations({txA, txB})
=============================================================================
