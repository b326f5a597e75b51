---------------------------- MODULE MCBlockchain ----------------------------
(* Blockchain with two mining goroutines and a handful of blocks. *)
EXTENDS Blockchain, TLC

Symmetry == Permutations(Miner)
=============================================================================
