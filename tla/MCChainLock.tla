---------------------------- MODULE MCChainLock -----------------------------
(* ChainLock with a goroutine per kind of message and one for the shell. *)
EXTENDS ChainLock

\* A transaction, a block, one more message of any kind, and any command.
Busy ==
  [tx |-> {handleTx}, blk |-> {handleBlock},
   any |-> Handlers,
   shell |-> {getAllBalances, printChain, checkupdate, send, reindexUTXO}]

\* The shell shows a balance.
Balance == [blk |-> {handleBlock}, tx |-> {handleTx}, shell |-> {getBalance}]
=============================================================================
