------------------------------- MODULE Mining -------------------------------
(***************************************************************************)
(* A mining node: the mempool, the goroutines of handleTx that mine, the   *)
(* goroutines of handleBlock that add the blocks of peers, and the channel *)
(* blockUpdate between them (src/src/server.go, proofofwork.go, block.go). *)
(* The block store they share is the module Blockchain, whose actions this *)
(* module composes; Blockchain!Spec is what it implements.                 *)
(*                                                                         *)
(* handleConnection runs every message in a goroutine of its own.  A       *)
(* Miner is a goroutine of handleTx, a BlkHandler one of handleBlock.      *)
(***************************************************************************)
EXTENDS Blockchain, Sequences, FiniteSets

CONSTANTS
  Tx,          \* the transactions users send
  Coin,        \* the transactions of the genesis block
  Inputs,      \* Inputs[t]: the IDs of the transactions t spends outputs of
  BadSig,      \* the transactions for which Transaction.Verify returns false
  BlkHandler,  \* the goroutines of handleBlock
  MayRestart   \* TRUE: the process may be stopped and started again

ASSUME MiningAssumption ==
  /\ Tx \cap Coin = {}
  /\ Inputs \in [Tx -> SUBSET (Tx \cup Coin)]
  /\ BadSig \subseteq Tx
  /\ MayRestart \in BOOLEAN

VARIABLES
  content,   \* content[h]: transactions of block h, without the coinbase
  mempool,   \* the keys of mempool.m
  accepted,  \* history: transactions put in the mempool since the last start
  mining,    \* mempool.mining
  pc,        \* pc[m]: where goroutine m of handleTx is
  batch,     \* batch[m]: the transactions m mines, without the coinbase
  bpc,       \* bpc[b]: where goroutine b of handleBlock is
  blk,       \* blk[b]: the block b handles
  sendq,     \* the handlers blocked in the send on blockUpdate, oldest first
  up         \* FALSE: a goroutine called log.Panic, which ends the process

storeVars == vars
chainVars == <<block, stored, last, mined, job>>
txVars    == <<pc, batch>>
blkVars   == <<bpc, blk, sendq>>
poolVars  == <<mempool, accepted, mining>>
mvars     == <<storeVars, content, poolVars, txVars, blkVars, up>>

MinerPc   == {"idle", "check", "select", "none", "verify", "pow", "found",
              "update", "clean"}
Section   == MinerPc \ {"idle", "check", "select"}  \* between the two writes of the flag
HandlerPc == {"idle", "added", "updated", "sending"}

\* hasSameTXInput: only the IDs of the spent transactions are compared, not
\* which of their outputs is spent.
hasSameTXInput(S, t) == \E u \in S \ {t} : Inputs[u] \cap Inputs[t] # {}

Compatible(S) == \A t \in S : ~hasSameTXInput(S, t)

(***************************************************************************)
(* FindTransaction walks from bc.tip towards the genesis block.  Walked is *)
(* the blocks it gets to see: a parent that is not stored stops the walk   *)
(* with a panic, and so does an ID that no block on the walk contains.     *)
(***************************************************************************)
Walked ==
  LET walk[h \in Hash] ==
        {h} \cup (IF block[h].prev \in stored THEN walk[block[h].prev] ELSE {})
  IN  IF tip \in stored THEN walk[tip] ELSE {}

FindTransaction(id) == \E h \in Walked : id \in content[h]

\* VerifyTransaction does not panic on t.
Resolves(t) == \A id \in Inputs[t] : FindTransaction(id)

-----------------------------------------------------------------------------
MInit ==
  /\ Init
  /\ content = [h \in Hash |-> IF h = Genesis THEN Coin ELSE {}]
  /\ mempool = {}
  /\ accepted = {}
  /\ mining = FALSE
  /\ pc = [m \in Miner |-> "idle"]
  /\ batch = [m \in Miner |-> {}]
  /\ bpc = [b \in BlkHandler |-> "idle"]
  /\ blk = [b \in BlkHandler |-> Genesis]
  /\ sendq = <<>>
  /\ up = TRUE

\* Another node mines a block of transactions with distinct inputs that it
\* found in blocks, whether or not this node has received them.
PeerMinesTxs(h, p) ==
  /\ PeerMines(h, p)
  /\ \E S \in SUBSET (Tx \ BadSig) :
       /\ S # {}
       /\ Compatible(S)
       /\ \A t \in S : Inputs[t] \subseteq UNION {content[g] : g \in Created}
       /\ content' = [content EXCEPT ![h] = S]
  /\ UNCHANGED <<poolVars, txVars, blkVars, up>>

Goto(m, l) == pc' = [pc EXCEPT ![m] = l]

\* Goroutine b of handleBlock is done with its block.
Return(b) == /\ bpc' = [bpc EXCEPT ![b] = "idle"]
             /\ blk' = [blk EXCEPT ![b] = Genesis]

\* What a transaction on "chainstate" does to the bytes of bc.tip.
TouchTip == IF tipSlice = "freed" THEN KeepTip ELSE UNCHANGED <<tip, tipSlice>>

-----------------------------------------------------------------------------
(* handleTx and MineBlock. *)

Receive(m, t) ==
  /\ pc[m] = "idle"
  /\ t \in Tx \ accepted
  /\ mempool' = mempool \cup {t}
  /\ accepted' = accepted \cup {t}
  /\ Goto(m, "check")
  /\ UNCHANGED <<storeVars, content, mining, batch, blkVars, up>>

\* The test that starts mining, under mempool.RLock; the flag is set later.
Check(m) ==
  /\ pc[m] = "check"
  /\ Goto(m, IF Cardinality(mempool) >= 2 /\ ~mining THEN "select" ELSE "idle")
  /\ UNCHANGED <<storeVars, content, poolVars, batch, blkVars, up>>

\* Mutant: the inputs of a transaction count as used before it is verified.
SelectUsedEarly(m) ==
  /\ pc[m] = "select"
  /\ mining' = TRUE
  /\ \E S \in SUBSET mempool, D \in SUBSET mempool :
       /\ Compatible(S)
       /\ D = {t \in mempool \ S : hasSameTXInput(S, t)}
       /\ S \cup D = mempool
       /\ \A t \in S : Resolves(t)
       /\ mempool' = mempool \ D
       /\ batch' = [batch EXCEPT ![m] = S \ BadSig]
       /\ Goto(m, IF S \ BadSig = {} THEN "none" ELSE "verify")
  /\ UNCHANGED <<storeVars, content, accepted, blkVars, up>>

\* Mutant: a transaction whose inputs are not found counts as verified.
SelectUnresolved(m) ==
  /\ pc[m] = "select"
  /\ mining' = TRUE
  /\ \E S \in SUBSET mempool, D \in SUBSET mempool :
       /\ S \cap (D \cup BadSig) = {}
       /\ Compatible(S)
       /\ \A t \in D : hasSameTXInput(S, t)
       /\ mempool \ (S \cup D) \subseteq BadSig
       /\ mempool' = mempool \ D
       /\ batch' = [batch EXCEPT ![m] = S]
       /\ Goto(m, IF S = {} THEN "none" ELSE "verify")
  /\ UNCHANGED <<storeVars, content, accepted, blkVars, up>>

(***************************************************************************)
(* The loop over the mempool, under mempool.Lock and in the random order   *)
(* of a Go map: a transaction that spends from the same transaction as one *)
(* chosen before it is deleted (D), any other is chosen (S) if it verifies *)
(* and stays where it is if it does not.                                   *)
(***************************************************************************)
Select(m) ==
  /\ pc[m] = "select"
  /\ mining' = TRUE
  /\ \E S \in SUBSET mempool, D \in SUBSET mempool :
       /\ S \cap (D \cup BadSig) = {}
       /\ Compatible(S)
       /\ \A t \in D : hasSameTXInput(S, t)
       /\ mempool \ (S \cup D) \subseteq BadSig
       /\ \A t \in mempool \ D : Resolves(t)
       /\ mempool' = mempool \ D
       /\ batch' = [batch EXCEPT ![m] = S]
       /\ Goto(m, IF S = {} THEN "none" ELSE "verify")
  /\ UNCHANGED <<storeVars, content, accepted, blkVars, up>>

\* Mutant: the flag is left set.
NoneValidKeepsFlag(m) ==
  /\ pc[m] = "none"
  /\ Goto(m, "idle")
  /\ UNCHANGED <<storeVars, content, poolVars, batch, blkVars, up>>

\* Mutant: handleTx does not return but tests again.
NoneValidRetries(m) ==
  /\ pc[m] = "none"
  /\ mining' = FALSE
  /\ Goto(m, "check")
  /\ UNCHANGED <<storeVars, content, mempool, accepted, batch, blkVars, up>>

\* "All transactions are invalid!": the flag is reset and handleTx returns.
NoneValid(m) ==
  /\ pc[m] = "none"
  /\ mining' = FALSE
  /\ Goto(m, "idle")
  /\ UNCHANGED <<storeVars, content, mempool, accepted, batch, blkVars, up>>

\* MineBlock verifies the transactions again, then reads the last block.
Begin(m) ==
  /\ pc[m] = "verify"
  /\ \A t \in batch[m] : Resolves(t)
  /\ StartMining(m)
  /\ Goto(m, "pow")
  /\ UNCHANGED <<content, poolVars, batch, blkVars, up>>

-----------------------------------------------------------------------------
(* ProofOfWork.Run, NewBlock, and the rest of MineBlock and handleTx. *)

\* Mutant: the height of the update is not increased.
RetargetedSameHeight(m) ==
  LET b == Head(sendq)
      h == blk[b]
      rest == batch[m] \ content[h]
  IN  /\ pc[m] = "pow"
      /\ sendq # <<>>
      /\ sendq' = Tail(sendq)
      /\ Return(b)
      /\ batch' = [batch EXCEPT ![m] = rest]
      /\ job' = [job EXCEPT ![m] = IF rest = {} THEN Idle
                                   ELSE [prev |-> h, height |-> block[h].height]]
      /\ Goto(m, IF rest = {} THEN "clean" ELSE "pow")
      /\ UNCHANGED <<block, stored, last, tip, tipSlice, mined, content, poolVars, up>>

\* Mutant: the block that has only its coinbase left is mined all the same.
RetargetedEmpty(m) ==
  LET b == Head(sendq)
      h == blk[b]
  IN  /\ pc[m] = "pow"
      /\ sendq # <<>>
      /\ sendq' = Tail(sendq)
      /\ Return(b)
      /\ batch' = [batch EXCEPT ![m] = @ \ content[h]]
      /\ job' = [job EXCEPT ![m] = [prev |-> h, height |-> block[h].height + 1]]
      /\ UNCHANGED <<block, stored, last, tip, tipSlice, mined, content, poolVars, pc, up>>

\* Run takes an update from the channel: the transactions of the new block are
\* filtered out, and NewBlock starts over on top of it with the rest of them,
\* or gives up if the coinbase is all that is left.
Retargeted(m) ==
  LET b == Head(sendq)
      h == blk[b]
      rest == batch[m] \ content[h]
  IN  /\ pc[m] = "pow"
      /\ sendq # <<>>
      /\ sendq' = Tail(sendq)
      /\ Return(b)
      /\ batch' = [batch EXCEPT ![m] = rest]
      /\ job' = [job EXCEPT ![m] = IF rest = {} THEN Idle
                                   ELSE [prev |-> h, height |-> block[h].height + 1]]
      /\ Goto(m, IF rest = {} THEN "clean" ELSE "pow")
      /\ UNCHANGED <<block, stored, last, tip, tipSlice, mined, content, poolVars, up>>

\* select takes its default case, so no sender was waiting, and hits the target.
FindNonce(m) ==
  /\ pc[m] = "pow"
  /\ sendq = <<>>
  /\ Goto(m, "found")
  /\ UNCHANGED <<storeVars, content, poolVars, batch, blkVars, up>>

\* The transactions are verified a third time and the block is written.
Put(m) ==
  /\ pc[m] = "found"
  /\ \A t \in batch[m] : Resolves(t)
  /\ \E h \in Hash : PutMined(m, h) /\ content' = [content EXCEPT ![h] = batch[m]]
  /\ Goto(m, "update")
  /\ UNCHANGED <<poolVars, batch, blkVars, up>>

\* UTXOSet.Update; the block is announced.
UpdateMined(m) ==
  /\ pc[m] = "update"
  /\ TouchTip
  /\ Goto(m, "clean")
  /\ UNCHANGED <<chainVars, content, poolVars, batch, blkVars, up>>

\* One round of the loop that deletes the mined transactions, one lock each.
Clean(m) ==
  /\ pc[m] = "clean"
  /\ \E t \in batch[m] :
       /\ mempool' = mempool \ {t}
       /\ batch' = [batch EXCEPT ![m] = @ \ {t}]
  /\ UNCHANGED <<storeVars, content, accepted, mining, pc, blkVars, up>>

\* The flag is reset and handleTx goes back to its test.
Release(m) ==
  /\ pc[m] = "clean"
  /\ batch[m] = {}
  /\ mining' = FALSE
  /\ Goto(m, "check")
  /\ UNCHANGED <<storeVars, content, mempool, accepted, batch, blkVars, up>>

\* VerifyTransaction or the iterator calls log.Panic: the process dies.
Panic(m) ==
  /\ \/ pc[m] = "select" /\ \E t \in mempool : ~Resolves(t)
     \/ pc[m] \in {"verify", "found"} /\ \E t \in batch[m] : ~Resolves(t)
  /\ up' = FALSE
  /\ UNCHANGED <<storeVars, content, poolVars, txVars, blkVars>>

(***************************************************************************)
(* Two log statements print mempool.m without its lock: in handleBlock     *)
(* before it reads the flag, in handleTx before it resets it.  If another  *)
(* goroutine writes the map meanwhile, Go may end the process; or it does  *)
(* not notice, and the steps of the two follow each other as always.       *)
(***************************************************************************)
Prints ==
  \/ \E b \in BlkHandler : bpc[b] = "updated"
  \/ \E m \in Miner : pc[m] = "clean" /\ batch[m] = {}

Writes ==
  \/ \E b \in BlkHandler : bpc[b] = "added"
  \/ \E m \in Miner : pc[m] = "select" \/ (pc[m] = "clean" /\ batch[m] # {})
  \/ accepted # Tx /\ \E m \in Miner : pc[m] = "idle"

MapRace ==
  /\ up
  /\ Prints /\ Writes
  /\ up' = FALSE
  /\ UNCHANGED <<storeVars, content, poolVars, txVars, blkVars>>

MinerStep(m) ==
  /\ up
  /\ \/ Check(m) \/ Select(m) \/ NoneValid(m) \/ Begin(m)
     \/ Retargeted(m) \/ FindNonce(m) \/ Put(m) \/ UpdateMined(m)
     \/ Clean(m) \/ Release(m) \/ Panic(m)

-----------------------------------------------------------------------------
(* handleBlock. *)

\* AddBlock of a block that is not stored yet.
Add(b, h) ==
  /\ bpc[b] = "idle"
  /\ AddBlock(h)
  /\ blk' = [blk EXCEPT ![b] = h]
  /\ bpc' = [bpc EXCEPT ![b] = "added"]
  /\ UNCHANGED <<content, poolVars, txVars, sendq, up>>

\* Under mempool.Lock: UTXOSet.Update, and the block's transactions leave the
\* mempool.
UpdateAdded(b) ==
  /\ bpc[b] = "added"
  /\ TouchTip
  /\ mempool' = mempool \ content[blk[b]]
  /\ bpc' = [bpc EXCEPT ![b] = "updated"]
  /\ UNCHANGED <<chainVars, content, accepted, mining, txVars, blk, sendq, up>>

\* Mutant: the channel is buffered, so the sender does not wait.
OfferBuffered(b) ==
  /\ bpc[b] = "updated"
  /\ sendq' = IF mining THEN Append(sendq, b) ELSE sendq
  /\ bpc' = [bpc EXCEPT ![b] = "idle"]
  /\ UNCHANGED <<storeVars, content, poolVars, txVars, blk, up>>

\* The flag is read; the send on the unbuffered channel blocks until a Run
\* receives it.
Offer(b) ==
  /\ bpc[b] = "updated"
  /\ \/ /\ mining
        /\ sendq' = Append(sendq, b)
        /\ bpc' = [bpc EXCEPT ![b] = "sending"]
        /\ UNCHANGED blk
     \/ /\ ~mining
        /\ Return(b)
        /\ UNCHANGED sendq
  /\ UNCHANGED <<storeVars, content, poolVars, txVars, up>>

HandlerStep(b) ==
  /\ up
  /\ UpdateAdded(b) \/ Offer(b)

\* The process is stopped, if it has not panicked, and started again.
RestartNode ==
  /\ MayRestart
  /\ Restart
  /\ mempool' = {} /\ accepted' = {} /\ mining' = FALSE
  /\ pc' = [m \in Miner |-> "idle"] /\ batch' = [m \in Miner |-> {}]
  /\ bpc' = [b \in BlkHandler |-> "idle"] /\ blk' = [b \in BlkHandler |-> Genesis]
  /\ sendq' = <<>>
  /\ up' = TRUE
  /\ UNCHANGED content

MNext ==
  \/ \E h \in Hash, p \in Hash : PeerMinesTxs(h, p)
  \/ \E m \in Miner, t \in Tx : up /\ Receive(m, t)
  \/ \E m \in Miner : MinerStep(m)
  \/ \E b \in BlkHandler, h \in Hash : up /\ Add(b, h)
  \/ \E b \in BlkHandler : HandlerStep(b)
  \/ MapRace
  \/ RestartNode

(***************************************************************************)
(* Go's scheduler runs every goroutine that is not blocked, mutexes are    *)
(* not starved, and a nonce is found in the end.  Nothing is assumed of    *)
(* peers, users, restarts and races on the map.                            *)
(***************************************************************************)
MSpec ==
  /\ MInit /\ [][MNext]_mvars
  /\ \A m \in Miner : WF_mvars(MinerStep(m))
  /\ \A b \in BlkHandler : WF_mvars(HandlerStep(b))

-----------------------------------------------------------------------------
(* What the mining node guarantees, and what it does not. *)

(* Shape of the state, and the channel: the queue holds each blocked       *)
(* sender once and nobody else.                                            *)
MTypeOK ==
  /\ content \in [Hash -> SUBSET (Tx \cup Coin)]
  /\ mempool \subseteq accepted /\ accepted \subseteq Tx
  /\ mining \in BOOLEAN /\ up \in BOOLEAN
  /\ pc \in [Miner -> MinerPc] /\ batch \in [Miner -> SUBSET Tx]
  /\ bpc \in [BlkHandler -> HandlerPc] /\ blk \in [BlkHandler -> Hash]
  /\ {sendq[i] : i \in DOMAIN sendq} = {b \in BlkHandler : bpc[b] = "sending"}
  /\ Len(sendq) = Cardinality({b \in BlkHandler : bpc[b] = "sending"})

(* The flag is never left set by goroutines that have finished: mining is  *)
(* not disabled for ever by an abandoned block, a block without valid      *)
(* transactions or two goroutines that started to mine at once.            *)
FlagHasOwner == mining => \E m \in Miner : pc[m] \in Section

(* The blocks of this node have a transaction besides the coinbase, no two *)
(* that spend from the same transaction, and none with a bad signature,    *)
(* however often their mining was started over and filtered.               *)
MinedWellFormed ==
  \A h \in mined : content[h] # {} /\ Compatible(content[h]) /\ content[h] \cap BadSig = {}

(* A transaction with a good signature that the node accepted leaves the   *)
(* mempool only for a block in the database, or for a transaction that     *)
(* spends from the same one and is itself in the mempool, being mined or   *)
(* in a block: with random selection, two miners at once, retargets and    *)
(* abandoned blocks, no round loses a transaction and its rival both.      *)
AcceptedNotLost ==
  LET blocks == UNION {content[h] : h \in stored}
      alive  == (mempool \cup blocks \cup UNION {batch[m] : m \in Miner}) \ (BadSig \cup Coin)
  IN  \A t \in accepted \ BadSig : t \in mempool \cup blocks \/ hasSameTXInput(alive, t)

(* MineBlock verifies transactions again that were verified when they were *)
(* chosen, and panics if one spends from a transaction it does not find    *)
(* any more: while the stored blocks form one chain, which a retarget, a   *)
(* block of another miner or a restart may extend, it finds them all.      *)
VerifiesAgain ==
  Walked = stored =>
    \A m \in Miner : pc[m] \in {"verify", "pow", "found"} => \A t \in batch[m] : Resolves(t)

(* handleTx returns, unless the process dies: the loop over goto           *)
(* MineTransactions, retargets and abandoned blocks always comes to an     *)
(* end, even with transactions that never verify in the mempool.           *)
HandleTxReturns == \A m \in Miner : pc[m] # "idle" ~> pc[m] = "idle" \/ ~up

(* "All transactions are invalid! Waiting for new ones...": once no        *)
(* goroutine is at work, the node is waiting with two or more transactions *)
(* only if none of them has a good signature.                              *)
WaitsForNewOnes ==
  (\A m \in Miner : pc[m] = "idle") => Cardinality(mempool) < 2 \/ mempool \subseteq BadSig

=============================================================================
