---------------------------- MODULE MiningProofs ----------------------------
(* The mining node uses the block store as Blockchain specifies, so that   *)
(* what BlockchainProofs shows of the store holds of the node; and what    *)
(* the runs check of the mempool, the flag and the mined blocks holds for  *)
(* any number of goroutines, transactions and blocks.                      *)
EXTENDS Mining, BlockchainProofs, FiniteSetTheorems, SequenceTheorems

\* The transactions of the blocks in the database.
Blocks == UNION {content[h] : h \in stored}

\* Transactions that are in a block, or will be in one unless the node stops.
Settled == (Blocks \cup UNION {batch[m] : m \in Miner}) \ (BadSig \cup Coin)

Shape ==
  /\ content \in [Hash -> SUBSET (Tx \cup Coin)]
  /\ mempool \subseteq accepted /\ accepted \subseteq Tx
  /\ mining \in BOOLEAN /\ up \in BOOLEAN
  /\ pc \in [Miner -> MinerPc] /\ batch \in [Miner -> SUBSET Tx]
  /\ bpc \in [BlkHandler -> HandlerPc] /\ blk \in [BlkHandler -> Hash]
  /\ sendq \in Seq(BlkHandler)

\* The blocked senders are in the queue, each of them once.
QueueOK ==
  /\ \A i, j \in 1 .. Len(sendq) : sendq[i] = sendq[j] => i = j
  /\ \A b \in BlkHandler : bpc[b] = "sending" <=> \E i \in 1 .. Len(sendq) : sendq[i] = b

\* handleBlock sends the update of a block only after it has added it.
HandledStored == \A b \in BlkHandler : bpc[b] # "idle" => blk[b] \in stored

\* What a goroutine holds at each place of handleTx.
BatchOK ==
  \A m \in Miner :
    /\ pc[m] = "pow" => job[m] # Idle
    /\ Compatible(batch[m]) /\ batch[m] \cap BadSig = {}
    /\ pc[m] \in {"idle", "check", "select", "none"} => batch[m] = {}
    /\ pc[m] \in {"verify", "pow", "found"} => batch[m] # {}
    /\ pc[m] \in {"update", "clean"} => batch[m] \subseteq Blocks

\* A transaction leaves the mempool only when it, or its rival, is settled.
NothingLost ==
  \A t \in accepted \ BadSig : t \in mempool \cup Blocks \/ hasSameTXInput(Settled, t)

MInv ==
  /\ IInv /\ Shape /\ QueueOK /\ HandledStored /\ BatchOK
  /\ FlagHasOwner /\ MinedWellFormed /\ NothingLost

-----------------------------------------------------------------------------
(* Lemmas about the operators. *)

\* Some of the transactions of a block without rivals have none either.
LEMMA FewerCompatible ==
  ASSUME NEW S, NEW T \in SUBSET S, Compatible(S)
  PROVE  Compatible(T)
BY DEF Compatible, hasSameTXInput

\* A rival stays one when transactions are added.
LEMMA RivalStays ==
  ASSUME NEW S, NEW T, S \subseteq T, NEW t, hasSameTXInput(S, t)
  PROVE  hasSameTXInput(T, t)
BY DEF hasSameTXInput

\* A block on a block is a job.
LEMMA JobIsWork ==
  ASSUME NEW h \in Hash
  PROVE  Extend(h) # Idle
<1>1. Extend(h).prev = h BY DEF Extend
<1>2. Idle.prev = NoHash BY DEF Idle, NoBlock
<1>3. h # NoHash BY HashFacts
<1> QED BY <1>1, <1>2, <1>3

\* No block in the database changes, so that its transactions stay there.
LEMMA BlocksGrow ==
  ASSUME stored \subseteq stored', \A h \in stored : content'[h] = content[h]
  PROVE  Blocks \subseteq Blocks'
BY DEF Blocks

\* What a step must do so that nothing is lost.
LEMMA LosesNothing ==
  ASSUME NothingLost, UNCHANGED accepted, Blocks \subseteq Blocks',
         \A m \in Miner : batch[m] \subseteq batch'[m] \cup Blocks',
         \A t \in mempool \ mempool' :
           t \in BadSig \cup Blocks' \/ hasSameTXInput(Settled', t)
  PROVE  NothingLost'
<1>1. Settled \subseteq Settled' BY DEF Settled
<1> SUFFICES ASSUME NEW t \in accepted \ BadSig
             PROVE  t \in mempool' \cup Blocks' \/ hasSameTXInput(Settled', t)
  BY DEF NothingLost, hasSameTXInput
<1>2. CASE hasSameTXInput(Settled, t) BY <1>1, <1>2, RivalStays
<1>3. CASE t \in mempool \cup Blocks BY <1>3
<1> QED BY <1>2, <1>3 DEF NothingLost

-----------------------------------------------------------------------------
(* Every step of the node is a step of the store, or none. *)

\* The initial states.
LEMMA MInit_MInv == MInit => MInv
<1> SUFFICES ASSUME MInit PROVE MInv OBVIOUS
<1>1. Init BY DEF MInit
<1>2. IInv BY <1>1, InitIInv
<1>3. Shape
  <2>1. sendq \in Seq(BlkHandler) BY EmptySeq DEF MInit
  <2> QED BY <2>1, HashFacts DEF MInit, Shape, MinerPc, HandlerPc
<1>4. QueueOK BY DEF MInit, QueueOK
<1>5. HandledStored BY DEF MInit, HandledStored
<1>6. BatchOK BY DEF MInit, BatchOK, Compatible
<1>7. FlagHasOwner BY DEF MInit, FlagHasOwner
<1>8. MinedWellFormed BY DEF MInit, Init, MinedWellFormed
<1>9. NothingLost BY DEF MInit, NothingLost
<1> QED BY <1>2, <1>3, <1>4, <1>5, <1>6, <1>7, <1>8, <1>9 DEF MInv

\* A transaction on "chainstate" is one of the store, or leaves it alone.
LEMMA TouchIsStore ==
  ASSUME TouchTip, UNCHANGED chainVars
  PROVE  [Next]_vars
BY DEF TouchTip, chainVars, vars, Next, WriteChainstate

\* An update that is received is a retarget to a stored block, or ends a job.
LEMMA RetargetIsStore ==
  ASSUME MInv, NEW m \in Miner, Retargeted(m)
  PROVE  [Next]_vars
<1> DEFINE b == Head(sendq)
           h == blk[b]
<1> USE DEF MInv
<1>1. /\ b \in BlkHandler /\ sendq[1] = b /\ 1 \in 1 .. Len(sendq)
  BY HeadTailProperties, LenProperties, EmptySeq DEF Retargeted, Shape
<1>2. h \in stored BY <1>1 DEF QueueOK, HandledStored
<1>3. h \in Hash /\ job[m] # Idle BY <1>1 DEF Shape, Retargeted, BatchOK
<1>4. Retarget(m, h) \/ Abandon(m)
  BY <1>2, <1>3 DEF Retargeted, Retarget, Abandon, Extend, Height
<1> QED BY <1>3, <1>4 DEF Next

\* The node does nothing to the store that Blockchain does not allow.
LEMMA StepIsStore == MInv /\ [MNext]_mvars => [Next]_vars
<1> SUFFICES ASSUME MInv, [MNext]_mvars PROVE [Next]_vars OBVIOUS
<1> USE DEF storeVars
<1>1. CASE UNCHANGED mvars BY <1>1 DEF mvars
<1>2. CASE \E h \in Hash, p \in Hash : PeerMinesTxs(h, p)
  BY <1>2 DEF PeerMinesTxs, Next
<1>3. CASE \E m \in Miner, t \in Tx : up /\ Receive(m, t) BY <1>3 DEF Receive
<1>4. ASSUME NEW m \in Miner, MinerStep(m) PROVE [Next]_vars
  <2>1. CASE Check(m) \/ Select(m) \/ NoneValid(m) BY <2>1 DEF Check, Select, NoneValid
  <2>2. CASE Begin(m) BY <2>2 DEF Begin, Next
  <2>3. CASE Retargeted(m) BY <2>3, RetargetIsStore
  <2>4. CASE FindNonce(m) \/ Clean(m) \/ Release(m) \/ Panic(m)
    BY <2>4 DEF FindNonce, Clean, Release, Panic
  <2>5. CASE Put(m) BY <2>5 DEF Put, Next
  <2>6. CASE UpdateMined(m) BY <2>6, TouchIsStore DEF UpdateMined
  <2> QED BY <1>4, <2>1, <2>2, <2>3, <2>4, <2>5, <2>6 DEF MinerStep
<1>5. CASE \E b \in BlkHandler, h \in Hash : up /\ Add(b, h) BY <1>5 DEF Add, Next
<1>6. CASE \E b \in BlkHandler : HandlerStep(b)
  <2>1. PICK b \in BlkHandler : UpdateAdded(b) \/ Offer(b) BY <1>6 DEF HandlerStep
  <2> QED BY <2>1, TouchIsStore DEF UpdateAdded, Offer
<1>7. CASE MapRace BY <1>7 DEF MapRace
<1>8. CASE RestartNode BY <1>8 DEF RestartNode, Next
<1> QED BY <1>1, <1>2, <1>3, <1>4, <1>5, <1>6, <1>7, <1>8 DEF MNext

-----------------------------------------------------------------------------
(* Every step of the node keeps the invariant. *)

\* A step that leaves the database, the jobs and the batches alone.
LEMMA SameBlocksOfNode ==
  ASSUME UNCHANGED <<content, stored>>
  PROVE  Blocks' = Blocks
BY DEF Blocks

LEMMA PeerMinesTxsKeeps ==
  ASSUME MInv, IInv', NEW h \in Hash, NEW p \in Hash, PeerMinesTxs(h, p)
  PROVE  MInv'
<1> USE DEF MInv, PeerMinesTxs, PeerMines, poolVars, txVars, blkVars
<1>1. h \notin Created BY DEF Fresh
<1>2. h \notin stored /\ h \notin mined BY <1>1 DEF IInv, StoreOK, MinedOnStored
<1>3. /\ content' \in [Hash -> SUBSET (Tx \cup Coin)]
      /\ \A g \in Hash : g # h => content'[g] = content[g]
  BY DEF Shape
<1>4. Blocks' = Blocks BY <1>2, <1>3 DEF Blocks, IInv, TypeOK
<1>5. Shape' BY <1>3 DEF Shape
<1>6. QueueOK' /\ HandledStored' /\ FlagHasOwner' BY DEF QueueOK, HandledStored, FlagHasOwner
<1>7. BatchOK' BY <1>4 DEF BatchOK, Compatible, hasSameTXInput
<1>8. MinedWellFormed'
  BY <1>2, <1>3 DEF MinedWellFormed, IInv, TypeOK, Compatible, hasSameTXInput
<1>9. NothingLost' BY <1>4, LosesNothing
<1> QED BY <1>5, <1>6, <1>7, <1>8, <1>9

LEMMA ReceiveKeeps ==
  ASSUME MInv, IInv', NEW m \in Miner, NEW t \in Tx, Receive(m, t)
  PROVE  MInv'
<1> USE DEF MInv, Receive, Goto, blkVars, storeVars, vars
<1>1. Blocks' = Blocks BY SameBlocksOfNode
<1>2. Shape' BY DEF Shape, MinerPc
<1>3. QueueOK' /\ HandledStored' BY DEF QueueOK, HandledStored
<1>4. BatchOK' BY <1>1 DEF Shape, BatchOK, Compatible, hasSameTXInput
<1>5. FlagHasOwner' BY DEF Shape, FlagHasOwner, Section
<1>6. MinedWellFormed' BY DEF MinedWellFormed, Compatible, hasSameTXInput
<1>7. Settled' = Settled BY <1>1 DEF Settled
<1>8. NothingLost' BY <1>1, <1>7 DEF NothingLost, hasSameTXInput
<1> QED BY <1>2, <1>3, <1>4, <1>5, <1>6, <1>8

LEMMA CheckKeeps ==
  ASSUME MInv, IInv', NEW m \in Miner, Check(m)
  PROVE  MInv'
<1> USE DEF MInv, Check, Goto, poolVars, blkVars, storeVars, vars
<1>1. Blocks' = Blocks BY SameBlocksOfNode
<1>2. Shape' BY DEF Shape, MinerPc
<1>3. QueueOK' /\ HandledStored' BY DEF QueueOK, HandledStored
<1>4. BatchOK' BY <1>1 DEF Shape, BatchOK, Compatible, hasSameTXInput
<1>5. FlagHasOwner' BY DEF Shape, FlagHasOwner, Section
<1>6. MinedWellFormed' BY DEF MinedWellFormed, Compatible, hasSameTXInput
<1>7. NothingLost' BY <1>1, LosesNothing
<1> QED BY <1>2, <1>3, <1>4, <1>5, <1>6, <1>7

\* A transaction that is deleted has a rival among those that are selected.
LEMMA SelectKeeps ==
  ASSUME MInv, IInv', NEW m \in Miner, Select(m)
  PROVE  MInv'
<1> USE DEF MInv, Select, Goto, blkVars, storeVars, vars
<1>1. Blocks' = Blocks BY SameBlocksOfNode
<1> PICK S \in SUBSET mempool, D \in SUBSET mempool :
         /\ S \cap (D \cup BadSig) = {}
         /\ Compatible(S)
         /\ \A t \in D : hasSameTXInput(S, t)
         /\ mempool' = mempool \ D
         /\ batch' = [batch EXCEPT ![m] = S]
         /\ pc' = [pc EXCEPT ![m] = IF S = {} THEN "none" ELSE "verify"]
  OBVIOUS
<1>2. batch[m] = {} /\ batch'[m] = S /\ S \subseteq Tx BY DEF BatchOK, Shape
<1>3. Shape' BY <1>2 DEF Shape, MinerPc
<1>4. QueueOK' /\ HandledStored' BY DEF QueueOK, HandledStored
<1>5. BatchOK' BY <1>1, <1>2 DEF Shape, BatchOK, Compatible, hasSameTXInput
<1>6. FlagHasOwner' BY DEF Shape, FlagHasOwner, Section, MinerPc
<1>7. MinedWellFormed' BY DEF MinedWellFormed, Compatible, hasSameTXInput
<1>8. NothingLost'
  <2>1. S \subseteq Settled' BY <1>2, MiningAssumption DEF Settled
  <2>2. \A t \in mempool \ mempool' : hasSameTXInput(Settled', t) BY <2>1, RivalStays
  <2>3. \A n \in Miner : batch[n] \subseteq batch'[n] BY <1>2 DEF Shape
  <2> QED BY <1>1, <2>2, <2>3, LosesNothing
<1> QED BY <1>3, <1>4, <1>5, <1>6, <1>7, <1>8

LEMMA NoneValidKeeps ==
  ASSUME MInv, IInv', NEW m \in Miner, NoneValid(m)
  PROVE  MInv'
<1> USE DEF MInv, NoneValid, Goto, blkVars, storeVars, vars
<1>1. Blocks' = Blocks BY SameBlocksOfNode
<1>2. Shape' BY DEF Shape, MinerPc
<1>3. QueueOK' /\ HandledStored' BY DEF QueueOK, HandledStored
<1>4. BatchOK' BY <1>1 DEF Shape, BatchOK, Compatible, hasSameTXInput
<1>5. FlagHasOwner' BY DEF FlagHasOwner
<1>6. MinedWellFormed' BY DEF MinedWellFormed, Compatible, hasSameTXInput
<1>7. NothingLost' BY <1>1, LosesNothing
<1> QED BY <1>2, <1>3, <1>4, <1>5, <1>6, <1>7

LEMMA BeginKeeps ==
  ASSUME MInv, IInv', NEW m \in Miner, Begin(m)
  PROVE  MInv'
<1> USE DEF MInv, Begin, StartMining, Goto, poolVars, blkVars
<1>1. Blocks' = Blocks BY SameBlocksOfNode
<1>2. Shape' BY DEF Shape, MinerPc
<1>3. QueueOK' /\ HandledStored' BY DEF QueueOK, HandledStored
<1>4. job'[m] # Idle /\ \A n \in Miner : n # m => job'[n] = job[n]
  BY JobIsWork DEF IInv, TypeOK
<1>5. BatchOK' BY <1>1, <1>4 DEF Shape, BatchOK, Compatible, hasSameTXInput
<1>6. FlagHasOwner' BY DEF Shape, FlagHasOwner, Section, MinerPc
<1>7. MinedWellFormed' BY DEF MinedWellFormed, Compatible, hasSameTXInput
<1>8. NothingLost' BY <1>1, LosesNothing
<1> QED BY <1>2, <1>3, <1>5, <1>6, <1>7, <1>8

\* The sender of the update is the head of the queue, and leaves it.
LEMMA ReceiveUpdateQueue ==
  ASSUME Shape, QueueOK, sendq # <<>>, sendq' = Tail(sendq), Return(Head(sendq))
  PROVE  /\ Head(sendq) \in BlkHandler /\ bpc[Head(sendq)] = "sending"
         /\ sendq' \in Seq(BlkHandler)
         /\ QueueOK'
<1> DEFINE n == Len(sendq)
<1> USE DEF Shape, QueueOK, Return
<1>1. /\ n \in Nat /\ n > 0 /\ sendq \in [1 .. n -> BlkHandler]
  BY LenProperties, EmptySeq
<1>2. /\ Head(sendq) = sendq[1] /\ Head(sendq) \in BlkHandler
      /\ Tail(sendq) \in Seq(BlkHandler)
      /\ Len(Tail(sendq)) = n - 1
      /\ \A i \in 1 .. n - 1 : Tail(sendq)[i] = sendq[i + 1]
  BY HeadTailProperties
<1>3. bpc[Head(sendq)] = "sending" BY <1>1, <1>2
<1>4. \A i, j \in 1 .. n - 1 : sendq[i + 1] = sendq[j + 1] => i = j BY <1>1
<1>5. ASSUME NEW b \in BlkHandler
      PROVE  bpc'[b] = "sending" <=> \E i \in 1 .. n - 1 : sendq[i + 1] = b
  <2>1. CASE b = sendq[1] BY <1>1, <1>2, <2>1
  <2>2. CASE b # sendq[1]
    <3>1. bpc'[b] = bpc[b] BY <1>2, <2>2
    <3>2. ASSUME NEW i \in 1 .. n, sendq[i] = b PROVE \E j \in 1 .. n - 1 : sendq[j + 1] = b
      <4>1. i # 1 BY <2>2, <3>2
      <4>2. i - 1 \in 1 .. n - 1 /\ sendq[(i - 1) + 1] = b BY <1>1, <3>2, <4>1
      <4> QED BY <4>2
    <3>3. ASSUME NEW j \in 1 .. n - 1, sendq[j + 1] = b PROVE \E i \in 1 .. n : sendq[i] = b
      BY <1>1, <3>3
    <3> QED BY <3>1, <3>2, <3>3
  <2> QED BY <2>1, <2>2
<1>6. QueueOK' BY <1>2, <1>4, <1>5
<1> QED BY <1>2, <1>3, <1>6

\* What the update takes from the batch is in the block it tells of.
LEMMA RetargetedKeeps ==
  ASSUME MInv, IInv', NEW m \in Miner, Retargeted(m)
  PROVE  MInv'
<1> DEFINE b    == Head(sendq)
           h    == blk[b]
           rest == batch[m] \ content[h]
<1> USE DEF MInv, Retargeted, Return, Goto, poolVars
<1>1. Blocks' = Blocks BY SameBlocksOfNode
<1>2. /\ b \in BlkHandler /\ bpc[b] = "sending"
      /\ sendq' \in Seq(BlkHandler)
      /\ QueueOK'
  BY ReceiveUpdateQueue
<1>3. h \in stored /\ h \in Hash BY <1>2 DEF HandledStored, Shape
<1>4. batch[m] \ rest \subseteq Blocks BY <1>3 DEF Blocks
<1>5. Shape' BY <1>2, HashFacts DEF Shape, MinerPc, HandlerPc
<1>6. HandledStored' BY <1>2 DEF HandledStored, Shape
<1>7. BatchOK'
  <2> SUFFICES ASSUME NEW n \in Miner
               PROVE  /\ pc'[n] = "pow" => job'[n] # Idle
                      /\ Compatible(batch'[n]) /\ batch'[n] \cap BadSig = {}
                      /\ pc'[n] \in {"idle", "check", "select", "none"} => batch'[n] = {}
                      /\ pc'[n] \in {"verify", "pow", "found"} => batch'[n] # {}
                      /\ pc'[n] \in {"update", "clean"} => batch'[n] \subseteq Blocks'
    BY DEF BatchOK, Compatible, hasSameTXInput
  <2>1. CASE n # m BY <1>1, <2>1 DEF BatchOK, IInv, TypeOK, Shape
  <2>2. CASE n = m
    <3>1. batch'[m] = rest /\ rest \subseteq batch[m] BY DEF Shape
    <3>2. Compatible(rest) /\ rest \cap BadSig = {} BY FewerCompatible DEF BatchOK
    <3>3. rest # {} => job'[m] = Extend(h) BY DEF IInv, TypeOK, Extend, Height
    <3>4. rest # {} => job'[m] # Idle BY <1>3, <3>3, JobIsWork
    <3>5. pc'[m] = IF rest = {} THEN "clean" ELSE "pow" BY DEF Shape
    <3> QED BY <2>2, <3>1, <3>2, <3>4, <3>5 DEF Compatible, hasSameTXInput
  <2> QED BY <2>1, <2>2
<1>8. FlagHasOwner' BY DEF Shape, FlagHasOwner, Section, MinerPc
<1>9. MinedWellFormed' BY DEF MinedWellFormed, Compatible, hasSameTXInput
<1>10. NothingLost' BY <1>1, <1>4, LosesNothing DEF Shape
<1> QED BY <1>2, <1>5, <1>6, <1>7, <1>8, <1>9, <1>10

LEMMA FindNonceKeeps ==
  ASSUME MInv, IInv', NEW m \in Miner, FindNonce(m)
  PROVE  MInv'
<1> USE DEF MInv, FindNonce, Goto, poolVars, blkVars, storeVars, vars
<1>1. Blocks' = Blocks BY SameBlocksOfNode
<1>2. Shape' BY DEF Shape, MinerPc
<1>3. QueueOK' /\ HandledStored' BY DEF QueueOK, HandledStored
<1>4. BatchOK' BY <1>1 DEF Shape, BatchOK, Compatible, hasSameTXInput
<1>5. FlagHasOwner' BY DEF Shape, FlagHasOwner, Section, MinerPc
<1>6. MinedWellFormed' BY DEF MinedWellFormed, Compatible, hasSameTXInput
<1>7. NothingLost' BY <1>1, LosesNothing
<1> QED BY <1>2, <1>3, <1>4, <1>5, <1>6, <1>7

\* The new block has the batch, which is as a block should be.
LEMMA PutKeeps ==
  ASSUME MInv, IInv', NEW m \in Miner, Put(m)
  PROVE  MInv'
<1> USE DEF MInv, Put, Goto, poolVars, blkVars
<1> PICK h \in Hash : PutMined(m, h) /\ content' = [content EXCEPT ![h] = batch[m]]
  OBVIOUS
<1> USE DEF PutMined
<1>1. h \notin stored BY DEF Fresh, IInv, StoreOK
<1>2. /\ content'[h] = batch[m] /\ \A g \in Hash : g # h => content'[g] = content[g]
      /\ content' \in [Hash -> SUBSET (Tx \cup Coin)]
  BY DEF Shape
<1>3. Blocks \subseteq Blocks' BY <1>1, <1>2, BlocksGrow DEF IInv, TypeOK
<1>4. batch[m] \subseteq Blocks' BY <1>2 DEF Blocks
<1>5. Shape' BY <1>2 DEF Shape, MinerPc
<1>6. QueueOK' /\ HandledStored' BY DEF QueueOK, HandledStored
<1>7. job'[m] = Idle /\ \A n \in Miner : n # m => job'[n] = job[n]
  BY DEF IInv, TypeOK
<1>8. BatchOK' BY <1>3, <1>4, <1>7 DEF Shape, BatchOK, Compatible, hasSameTXInput
<1>9. FlagHasOwner' BY DEF Shape, FlagHasOwner, Section, MinerPc
<1>10. MinedWellFormed'
  <2>1. batch[m] # {} /\ Compatible(batch[m]) /\ batch[m] \cap BadSig = {} BY DEF BatchOK
  <2> QED BY <1>2, <2>1 DEF MinedWellFormed, IInv, TypeOK, Compatible, hasSameTXInput
<1>11. NothingLost' BY <1>3, LosesNothing
<1> QED BY <1>5, <1>6, <1>8, <1>9, <1>10, <1>11

\* A transaction on "chainstate" leaves the blocks, the jobs and "l" alone.
LEMMA UpdateMinedKeeps ==
  ASSUME MInv, IInv', NEW m \in Miner, UpdateMined(m)
  PROVE  MInv'
<1> USE DEF MInv, UpdateMined, Goto, poolVars, blkVars, chainVars
<1>1. Blocks' = Blocks BY SameBlocksOfNode
<1>2. Shape' BY DEF Shape, MinerPc
<1>3. QueueOK' /\ HandledStored' BY DEF QueueOK, HandledStored
<1>4. BatchOK' BY <1>1 DEF Shape, BatchOK, Compatible, hasSameTXInput
<1>5. FlagHasOwner' BY DEF Shape, FlagHasOwner, Section, MinerPc
<1>6. MinedWellFormed' BY DEF MinedWellFormed, Compatible, hasSameTXInput
<1>7. NothingLost' BY <1>1, LosesNothing
<1> QED BY <1>2, <1>3, <1>4, <1>5, <1>6, <1>7

\* A transaction is deleted from the mempool when it is in a block.
LEMMA CleanKeeps ==
  ASSUME MInv, IInv', NEW m \in Miner, Clean(m)
  PROVE  MInv'
<1> USE DEF MInv, Clean, blkVars, storeVars, vars
<1>1. Blocks' = Blocks BY SameBlocksOfNode
<1> PICK t \in batch[m] : /\ mempool' = mempool \ {t}
                          /\ batch' = [batch EXCEPT ![m] = @ \ {t}]
  OBVIOUS
<1>2. t \in Blocks BY DEF BatchOK
<1>3. batch'[m] = batch[m] \ {t} /\ \A n \in Miner : n # m => batch'[n] = batch[n]
  BY DEF Shape
<1>4. Shape' BY DEF Shape
<1>5. QueueOK' /\ HandledStored' BY DEF QueueOK, HandledStored
<1>6. BatchOK' BY <1>1, <1>3 DEF BatchOK, Compatible, hasSameTXInput
<1>7. FlagHasOwner' BY DEF FlagHasOwner
<1>8. MinedWellFormed' BY DEF MinedWellFormed, Compatible, hasSameTXInput
<1>9. NothingLost' BY <1>1, <1>2, <1>3, LosesNothing
<1> QED BY <1>4, <1>5, <1>6, <1>7, <1>8, <1>9

LEMMA ReleaseKeeps ==
  ASSUME MInv, IInv', NEW m \in Miner, Release(m)
  PROVE  MInv'
<1> USE DEF MInv, Release, Goto, blkVars, storeVars, vars
<1>1. Blocks' = Blocks BY SameBlocksOfNode
<1>2. Shape' BY DEF Shape, MinerPc
<1>3. QueueOK' /\ HandledStored' BY DEF QueueOK, HandledStored
<1>4. BatchOK' BY <1>1 DEF Shape, BatchOK, Compatible, hasSameTXInput
<1>5. FlagHasOwner' BY DEF FlagHasOwner
<1>6. MinedWellFormed' BY DEF MinedWellFormed, Compatible, hasSameTXInput
<1>7. NothingLost' BY <1>1, LosesNothing
<1> QED BY <1>2, <1>3, <1>4, <1>5, <1>6, <1>7

\* The process dies; the database and what the history says stay.
LEMMA DiesKeeps ==
  ASSUME MInv, IInv', up' = FALSE,
         UNCHANGED <<storeVars, content, poolVars, txVars, blkVars>>
  PROVE  MInv'
<1> USE DEF MInv, poolVars, txVars, blkVars, storeVars, vars
<1>1. Blocks' = Blocks BY SameBlocksOfNode
<1>2. Shape' BY DEF Shape
<1>3. QueueOK' /\ HandledStored' /\ FlagHasOwner' BY DEF QueueOK, HandledStored, FlagHasOwner
<1>4. BatchOK' BY <1>1 DEF BatchOK, Compatible, hasSameTXInput
<1>5. MinedWellFormed' BY DEF MinedWellFormed, Compatible, hasSameTXInput
<1>6. NothingLost' BY <1>1, LosesNothing
<1> QED BY <1>2, <1>3, <1>4, <1>5, <1>6

LEMMA AddKeeps ==
  ASSUME MInv, IInv', NEW b \in BlkHandler, NEW h \in Hash, Add(b, h)
  PROVE  MInv'
<1> USE DEF MInv, Add, AddBlock, AddBest, AddSide, poolVars, txVars
<1>1. /\ stored' = stored \cup {h} /\ job' = job /\ mined' = mined
      /\ content' = content
  OBVIOUS
<1>2. Blocks \subseteq Blocks' BY <1>1, BlocksGrow
<1>3. Shape' BY DEF Shape, HandlerPc
<1>4. QueueOK' BY DEF QueueOK, Shape
<1>5. HandledStored' BY <1>1 DEF HandledStored, Shape
<1>6. BatchOK' BY <1>1, <1>2 DEF BatchOK, Compatible, hasSameTXInput
<1>7. FlagHasOwner' BY DEF FlagHasOwner
<1>8. MinedWellFormed' BY <1>1 DEF MinedWellFormed, Compatible, hasSameTXInput
<1>9. NothingLost' BY <1>2, LosesNothing
<1> QED BY <1>3, <1>4, <1>5, <1>6, <1>7, <1>8, <1>9

\* The transactions of a block leave the mempool after the block was added.
LEMMA UpdateAddedKeeps ==
  ASSUME MInv, IInv', NEW b \in BlkHandler, UpdateAdded(b)
  PROVE  MInv'
<1> USE DEF MInv, UpdateAdded, chainVars, txVars
<1>1. Blocks' = Blocks BY SameBlocksOfNode
<1>2. content[blk[b]] \subseteq Blocks BY DEF HandledStored, Blocks
<1>3. Shape' BY DEF Shape, HandlerPc
<1>4. QueueOK' /\ HandledStored' BY DEF QueueOK, HandledStored, Shape
<1>5. BatchOK' BY <1>1 DEF BatchOK, Compatible, hasSameTXInput
<1>6. FlagHasOwner' BY DEF FlagHasOwner
<1>7. MinedWellFormed' BY DEF MinedWellFormed, Compatible, hasSameTXInput
<1>8. NothingLost' BY <1>1, <1>2, LosesNothing
<1> QED BY <1>3, <1>4, <1>5, <1>6, <1>7, <1>8

\* A sender that joins the queue was not in it.
LEMMA OfferQueue ==
  ASSUME Shape, QueueOK, NEW b \in BlkHandler, bpc[b] = "updated",
         sendq' = Append(sendq, b), bpc' = [bpc EXCEPT ![b] = "sending"]
  PROVE  sendq' \in Seq(BlkHandler) /\ QueueOK'
<1> DEFINE n == Len(sendq)
<1> USE DEF Shape, QueueOK
<1>1. n \in Nat /\ sendq \in [1 .. n -> BlkHandler] BY LenProperties
<1>2. /\ sendq' \in Seq(BlkHandler) /\ Len(sendq') = n + 1
      /\ \A i \in 1 .. n : sendq'[i] = sendq[i]
      /\ sendq'[n + 1] = b
  BY AppendProperties
<1>3. \A i \in 1 .. n : sendq[i] # b OBVIOUS
<1>4. \A i \in 1 .. n + 1 : i = n + 1 \/ i \in 1 .. n BY <1>1
<1>5. \A i, j \in 1 .. n + 1 : sendq'[i] = sendq'[j] => i = j BY <1>1, <1>2, <1>3, <1>4
<1>6. ASSUME NEW c \in BlkHandler
      PROVE  bpc'[c] = "sending" <=> \E i \in 1 .. n + 1 : sendq'[i] = c
  <2>1. CASE c = b BY <1>1, <1>2, <2>1
  <2>2. CASE c # b BY <1>1, <1>2, <1>4, <2>2
  <2> QED BY <2>1, <2>2
<1> QED BY <1>2, <1>5, <1>6

LEMMA OfferKeeps ==
  ASSUME MInv, IInv', NEW b \in BlkHandler, Offer(b)
  PROVE  MInv'
<1> USE DEF MInv, Offer, Return, poolVars, txVars, storeVars, vars
<1>1. Blocks' = Blocks BY SameBlocksOfNode
<1>2. sendq' \in Seq(BlkHandler) /\ QueueOK'
  <2>1. CASE mining BY <2>1, OfferQueue
  <2>2. CASE ~mining BY <2>2 DEF QueueOK, Shape
  <2> QED BY <2>1, <2>2
<1>3. Shape' BY <1>2, HashFacts DEF Shape, HandlerPc
<1>4. HandledStored' BY DEF HandledStored, Shape
<1>5. BatchOK' BY <1>1 DEF BatchOK, Compatible, hasSameTXInput
<1>6. FlagHasOwner' BY DEF FlagHasOwner
<1>7. MinedWellFormed' BY DEF MinedWellFormed, Compatible, hasSameTXInput
<1>8. NothingLost' BY <1>1, LosesNothing
<1> QED BY <1>2, <1>3, <1>4, <1>5, <1>6, <1>7, <1>8

\* All that was in memory is gone, and nobody waits for it.
LEMMA RestartKeeps ==
  ASSUME MInv, IInv', RestartNode
  PROVE  MInv'
<1> USE DEF MInv, RestartNode, Restart
<1>1. Shape'
  <2>1. sendq' \in Seq(BlkHandler) BY EmptySeq
  <2> QED BY <2>1, HashFacts DEF Shape, MinerPc, HandlerPc
<1>2. QueueOK' BY DEF QueueOK
<1>3. HandledStored' BY DEF HandledStored
<1>4. BatchOK' BY DEF BatchOK, Compatible
<1>5. FlagHasOwner' BY DEF FlagHasOwner
<1>6. MinedWellFormed' BY DEF MinedWellFormed, Compatible, hasSameTXInput
<1>7. NothingLost' BY DEF NothingLost
<1> QED BY <1>1, <1>2, <1>3, <1>4, <1>5, <1>6, <1>7

-----------------------------------------------------------------------------
(* The walk of FindTransaction. *)

WalkStep(p, walk, h) ==
  {h} \cup (IF p[1][h].prev \in p[2] THEN walk[p[1][h].prev] ELSE {})
WalkDom(p)     == Hash
WalkRank(p, h) == IF p[1][h] = NoBlock THEN 0 ELSE p[1][h].height
WalkRec == INSTANCE Recursion WITH Dom <- WalkDom, Rank <- WalkRank, Def <- WalkStep

Walk == CHOOSE walk : walk = [h \in Hash |-> WalkStep(<<block, stored>>, walk, h)]

\* The walk goes from a block to its parent, which has a smaller height.
LEMMA WalkDown ==
  ASSUME IInv, NEW h \in Hash, block[h].prev \in stored
  PROVE  LET p == <<block, stored>>
         IN  /\ block[h].prev \in Hash
             /\ WalkRank(p, block[h].prev) < WalkRank(p, h)
             /\ WalkRank(p, h) \in Nat
<1>1. block[h].prev \in Created /\ block[h].prev \in Hash
  BY DEF IInv, StoreOK, Created
<1>2. block[h] # NoBlock BY <1>1, HashFacts DEF NoBlock
<1>3. h # Genesis BY <1>1, HashFacts DEF IInv, HeightIsDepth
<1>4. block[h] = Extend(block[h].prev)
  BY <1>2, <1>3 DEF IInv, HeightIsDepth, Created
<1>5. Height(block[h].prev) \in Nat /\ block[block[h].prev] # NoBlock
  BY <1>1, ExtendType DEF IInv, Created
<1>6. block[h].height = Height(block[h].prev) + 1 BY <1>4 DEF Extend
<1> QED BY <1>1, <1>2, <1>5, <1>6 DEF WalkRank, Height

LEMMA WalkValue ==
  ASSUME IInv, NEW h \in Hash
  PROVE  Walk[h] = {h} \cup (IF block[h].prev \in stored THEN Walk[block[h].prev] ELSE {})
<1> DEFINE p == <<block, stored>>
<1>1. WalkRec!Ranked(p)
  <2>1. \A g \in Hash : block[g] # NoBlock => block[g].height \in Nat
    BY DEF IInv, TypeOK, Header
  <2> QED BY <2>1 DEF WalkRec!Ranked, WalkDom, WalkRank
<1>2. WalkRec!LooksDown(p)
  <2> SUFFICES ASSUME NEW f, NEW g, NEW x \in Hash,
                      \A y \in Hash : WalkRank(p, y) < WalkRank(p, x) => f[y] = g[y]
               PROVE  WalkStep(p, f, x) = WalkStep(p, g, x)
    BY DEF WalkRec!LooksDown, WalkDom
  <2>1. block[x].prev \in stored => f[block[x].prev] = g[block[x].prev] BY WalkDown
  <2> QED BY <2>1 DEF WalkStep
<1>3. \E f : f = [x \in WalkDom(p) |-> WalkStep(p, f, x)]
  BY <1>1, <1>2, WalkRec!FunctionExists
<1>4. \E f : f = [x \in Hash |-> WalkStep(p, f, x)] BY <1>3 DEF WalkDom
<1>5. Walk = [x \in Hash |-> WalkStep(p, Walk, x)] BY <1>4, Zenon DEF Walk
<1> QED BY <1>5 DEF WalkStep

\* It sees nothing but blocks in the database.
LEMMA WalkedStored ==
  ASSUME IInv
  PROVE  Walked \subseteq stored
<1> DEFINE p == <<block, stored>>
           Bad == {h \in stored : ~(Walk[h] \subseteq stored)}
           T == {WalkRank(p, h) : h \in Bad}
<1>1. Walked = IF tip \in stored THEN Walk[tip] ELSE {}
  BY DEF Walked, Walk, WalkStep
<1>2. SUFFICES ASSUME Bad # {} PROVE FALSE BY <1>1
<1>3. \A h \in Hash : WalkRank(p, h) \in Nat
  BY DEF IInv, TypeOK, Header, WalkRank
<1>4. T \in SUBSET Nat /\ T # {} BY <1>2, <1>3 DEF IInv, TypeOK
<1>5. PICK h \in Bad : \A g \in Bad : WalkRank(p, h) <= WalkRank(p, g)
  <2>1. PICK n \in T : \A i \in T : n <= i
    <3> HIDE DEF T
    <3> QED BY <1>4, WalkRec!LeastNumber
  <2>2. PICK h \in Bad : n = WalkRank(p, h) BY <2>1
  <2> QED BY <2>1, <2>2
<1>6. h \in stored /\ h \in Hash BY DEF IInv, TypeOK
<1>7. CASE block[h].prev \notin stored BY <1>5, <1>6, <1>7, WalkValue
<1>8. CASE block[h].prev \in stored
  <2>1. /\ block[h].prev \in Hash
        /\ WalkRank(p, block[h].prev) < WalkRank(p, h)
    BY <1>6, <1>8, WalkDown
  <2>2. block[h].prev \notin Bad BY <1>3, <1>5, <1>6, <2>1
  <2>3. Walk[block[h].prev] \subseteq stored BY <1>8, <2>2
  <2> QED BY <1>5, <1>6, <1>8, <2>3, WalkValue
<1> QED BY <1>7, <1>8

\* What a goroutine mines spends from transactions in the database.
InputsStored == \A m \in Miner : \A t \in batch[m] : Inputs[t] \subseteq Blocks

\* The database only grows, and a batch only shrinks after it is selected.
LEMMA StepGrows ==
  MInv /\ [MNext]_mvars =>
    /\ stored \subseteq stored' /\ \A h \in stored : content'[h] = content[h]
    /\ \/ \A m \in Miner : batch'[m] \subseteq batch[m]
       \/ \E m \in Miner : Select(m)
<1> SUFFICES ASSUME MInv, [MNext]_mvars
             PROVE  /\ stored \subseteq stored' /\ \A h \in stored : content'[h] = content[h]
                    /\ \/ \A m \in Miner : batch'[m] \subseteq batch[m]
                       \/ \E m \in Miner : Select(m)
  OBVIOUS
<1> USE DEF MInv, Shape, storeVars, vars, txVars
<1>1. CASE UNCHANGED mvars BY <1>1 DEF mvars
<1>2. CASE \E h \in Hash, p \in Hash : PeerMinesTxs(h, p)
  BY <1>2 DEF PeerMinesTxs, PeerMines, Fresh, IInv, StoreOK, TypeOK
<1>3. CASE \E m \in Miner, t \in Tx : up /\ Receive(m, t) BY <1>3 DEF Receive
<1>4. ASSUME NEW m \in Miner, MinerStep(m)
      PROVE  /\ stored \subseteq stored' /\ \A h \in stored : content'[h] = content[h]
             /\ \/ \A n \in Miner : batch'[n] \subseteq batch[n]
                \/ \E n \in Miner : Select(n)
  <2>1. CASE Check(m) \/ NoneValid(m) \/ FindNonce(m) \/ Clean(m) \/ Release(m) \/ Panic(m)
    BY <2>1 DEF Check, NoneValid, FindNonce, Clean, Release, Panic
  <2>2. CASE Select(m) BY <2>2 DEF Select
  <2>3. CASE Begin(m) BY <2>3 DEF Begin, StartMining
  <2>4. CASE Retargeted(m) BY <2>4 DEF Retargeted
  <2>5. CASE Put(m) BY <2>5 DEF Put, PutMined, Fresh, IInv, StoreOK, TypeOK
  <2>6. CASE UpdateMined(m) BY <2>6 DEF UpdateMined, chainVars
  <2> QED BY <1>4, <2>1, <2>2, <2>3, <2>4, <2>5, <2>6 DEF MinerStep
<1>5. CASE \E b \in BlkHandler, h \in Hash : up /\ Add(b, h)
  BY <1>5 DEF Add, AddBlock, AddBest, AddSide
<1>6. CASE \E b \in BlkHandler : HandlerStep(b)
  BY <1>6 DEF HandlerStep, UpdateAdded, Offer, chainVars
<1>7. CASE MapRace BY <1>7 DEF MapRace
<1>8. CASE RestartNode BY <1>8 DEF RestartNode, Restart
<1> QED BY <1>1, <1>2, <1>3, <1>4, <1>5, <1>6, <1>7, <1>8 DEF MNext

LEMMA InputsStay ==
  MInv /\ InputsStored /\ [MNext]_mvars => InputsStored'
<1> SUFFICES ASSUME MInv, InputsStored, [MNext]_mvars PROVE InputsStored' OBVIOUS
<1>1. Blocks \subseteq Blocks' BY StepGrows, BlocksGrow
<1>2. CASE \A m \in Miner : batch'[m] \subseteq batch[m] BY <1>1, <1>2 DEF InputsStored
<1>3. ASSUME NEW m \in Miner, Select(m) PROVE InputsStored'
  <2>1. PICK S \in SUBSET mempool, D \in SUBSET mempool :
          /\ S \cap (D \cup BadSig) = {}
          /\ \A t \in mempool \ D : Resolves(t)
          /\ batch' = [batch EXCEPT ![m] = S]
    BY <1>3 DEF Select
  <2>2. \A t \in S : Inputs[t] \subseteq Blocks
    BY <2>1, WalkedStored DEF Resolves, FindTransaction, Blocks, MInv
  <2>3. \A n \in Miner : batch'[n] = IF n = m THEN S ELSE batch[n]
    BY <2>1 DEF MInv, Shape
  <2> QED BY <1>1, <2>2, <2>3 DEF InputsStored
<1> QED BY <1>2, <1>3, StepGrows

-----------------------------------------------------------------------------
(* The theorems. *)

LEMMA MNext_MInv == MInv /\ [MNext]_mvars => MInv'
<1> SUFFICES ASSUME MInv, [MNext]_mvars PROVE MInv' OBVIOUS
<1>1. IInv' BY StepIsStore, NextIInv DEF MInv
<1>2. CASE UNCHANGED mvars
  <2>1. UNCHANGED <<storeVars, content, poolVars, txVars, blkVars, up>>
    BY <1>2 DEF mvars
  <2> USE <2>1 DEF MInv, poolVars, txVars, blkVars, storeVars, vars
  <2>2. Blocks' = Blocks BY SameBlocksOfNode
  <2>3. Shape' /\ QueueOK' BY DEF Shape, QueueOK
  <2>4. HandledStored' /\ FlagHasOwner' BY DEF HandledStored, FlagHasOwner
  <2>5. BatchOK' BY <2>2 DEF BatchOK, Compatible, hasSameTXInput
  <2>6. MinedWellFormed' BY DEF MinedWellFormed, Compatible, hasSameTXInput
  <2>7. NothingLost' BY <2>2, LosesNothing
  <2> QED BY <1>1, <2>3, <2>4, <2>5, <2>6, <2>7
<1>3. CASE \E h \in Hash, p \in Hash : PeerMinesTxs(h, p) BY <1>1, <1>3, PeerMinesTxsKeeps
<1>4. CASE \E m \in Miner, t \in Tx : up /\ Receive(m, t) BY <1>1, <1>4, ReceiveKeeps
<1>5. ASSUME NEW m \in Miner, MinerStep(m) PROVE MInv'
  <2>1. CASE Check(m) BY <1>1, <2>1, CheckKeeps
  <2>2. CASE Select(m) BY <1>1, <2>2, SelectKeeps
  <2>3. CASE NoneValid(m) BY <1>1, <2>3, NoneValidKeeps
  <2>4. CASE Begin(m) BY <1>1, <2>4, BeginKeeps
  <2>5. CASE Retargeted(m) BY <1>1, <2>5, RetargetedKeeps
  <2>6. CASE FindNonce(m) BY <1>1, <2>6, FindNonceKeeps
  <2>7. CASE Put(m) BY <1>1, <2>7, PutKeeps
  <2>8. CASE UpdateMined(m) BY <1>1, <2>8, UpdateMinedKeeps
  <2>9. CASE Clean(m) BY <1>1, <2>9, CleanKeeps
  <2>10. CASE Release(m) BY <1>1, <2>10, ReleaseKeeps
  <2>11. CASE Panic(m) BY <1>1, <2>11, DiesKeeps DEF Panic
  <2> QED BY <1>5, <2>1, <2>2, <2>3, <2>4, <2>5, <2>6, <2>7, <2>8, <2>9, <2>10, <2>11
          DEF MinerStep
<1>6. CASE \E b \in BlkHandler, h \in Hash : up /\ Add(b, h) BY <1>1, <1>6, AddKeeps
<1>7. CASE \E b \in BlkHandler : HandlerStep(b)
  BY <1>1, <1>7, UpdateAddedKeeps, OfferKeeps DEF HandlerStep
<1>8. CASE MapRace BY <1>1, <1>8, DiesKeeps DEF MapRace
<1>9. CASE RestartNode BY <1>1, <1>9, RestartKeeps
<1> QED BY <1>2, <1>3, <1>4, <1>5, <1>6, <1>7, <1>8, <1>9 DEF MNext

LEMMA MInvariance == MSpec => []MInv
BY MInit_MInv, MNext_MInv, PTL DEF MSpec

\* A sequence without repetitions is as long as the set of its entries.
LEMMA QueueLength ==
  ASSUME Shape, QueueOK
  PROVE  Len(sendq) = Cardinality({b \in BlkHandler : bpc[b] = "sending"})
<1> DEFINE n == Len(sendq)
           T == {b \in BlkHandler : bpc[b] = "sending"}
<1>1. n \in Nat /\ sendq \in [1 .. n -> BlkHandler] BY LenProperties DEF Shape
<1>2. sendq \in Bijection(1 .. n, T)
  <2>1. sendq \in [1 .. n -> T] BY <1>1 DEF QueueOK
  <2>2. \A i, j \in 1 .. n : sendq[i] = sendq[j] => i = j BY DEF QueueOK
  <2>3. \A b \in T : \E i \in 1 .. n : sendq[i] = b BY DEF QueueOK
  <2> QED BY <2>1, <2>2, <2>3 DEF Bijection, Injection, Surjection, IsInjective
<1>3. ExistsBijection(1 .. n, T) BY <1>2 DEF ExistsBijection
<1> QED BY <1>1, <1>3, FS_CountingElements

(* The state of the mining node keeps its shape, and the queue on the      *)
(* channel holds each blocked handleBlock once.                            *)
THEOREM MiningTypeCorrect == MSpec => []MTypeOK
<1>1. MInv => MTypeOK
  <2> SUFFICES ASSUME MInv PROVE MTypeOK OBVIOUS
  <2> USE DEF MInv
  <2>1. DOMAIN sendq = 1 .. Len(sendq) /\ sendq \in [1 .. Len(sendq) -> BlkHandler]
    BY LenProperties DEF Shape
  <2>2. {sendq[i] : i \in DOMAIN sendq} = {b \in BlkHandler : bpc[b] = "sending"}
    BY <2>1 DEF QueueOK
  <2> QED BY <2>2, QueueLength DEF Shape, MTypeOK
<1> QED BY <1>1, MInvariance, PTL

(* handleTx and handleBlock use the store only as Blockchain says, so that *)
(* its theorems hold of a node with any number of goroutines.              *)
THEOREM MiningImplementsStore == MSpec => Spec
<1>1. MInit => Init BY DEF MInit
<1> QED BY <1>1, StepIsStore, MInvariance, PTL DEF MSpec, Spec

(* mempool.mining is set only while a goroutine is there to reset it.      *)
THEOREM FlagReset == MSpec => []FlagHasOwner
BY MInvariance, PTL DEF MInv

(* However often a block was started over, it is well formed.              *)
THEOREM BlocksWellFormed == MSpec => []MinedWellFormed
BY MInvariance, PTL DEF MInv

(* No transaction with a good signature is lost together with its rival.   *)
THEOREM NoneLost == MSpec => []AcceptedNotLost
<1>1. MInv => AcceptedNotLost
  <2> SUFFICES ASSUME MInv PROVE AcceptedNotLost OBVIOUS
  <2> DEFINE alive == (mempool \cup Blocks \cup UNION {batch[m] : m \in Miner})
                        \ (BadSig \cup Coin)
  <2>1. Settled \subseteq alive BY DEF Settled
  <2>2. \A t \in accepted \ BadSig : t \in mempool \cup Blocks \/ hasSameTXInput(alive, t)
    BY <2>1, RivalStays DEF MInv, NothingLost
  <2> QED BY <2>2 DEF AcceptedNotLost, Blocks
<1> QED BY <1>1, MInvariance, PTL

(* MineBlock does not panic where the selection did not: the chain that    *)
(* the goroutine walks is all the database has, so that what a transaction *)
(* spends from is found again after retargets, other blocks and restarts.  *)
THEOREM FoundAgain == MSpec => []VerifiesAgain
<1>1. MInit => InputsStored BY DEF MInit, InputsStored
<1>2. MInv /\ InputsStored => VerifiesAgain
  <2> SUFFICES ASSUME MInv, InputsStored, Walked = stored PROVE VerifiesAgain
    BY DEF VerifiesAgain
  <2>1. \A m \in Miner : \A t \in batch[m] : Resolves(t)
    BY DEF InputsStored, Blocks, Resolves, FindTransaction
  <2> QED BY <2>1 DEF VerifiesAgain
<1> QED BY <1>1, <1>2, InputsStay, MInvariance, PTL DEF MSpec

=============================================================================
