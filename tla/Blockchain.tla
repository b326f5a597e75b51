----------------------------- MODULE Blockchain -----------------------------
(***************************************************************************)
(* The block store of one node: src/src/blockchain.go.                     *)
(*                                                                         *)
(* The store is the bolt bucket "blocks" (every block that was written,    *)
(* and the key "l", the hash of the last block) together with the field    *)
(* bc.tip of the Blockchain object in memory.  handleBlock adds the blocks *)
(* of peers with AddBlock; the goroutines that mine call MineBlock, which  *)
(* reads "l", searches for a nonce and then writes the new block.          *)
(*                                                                         *)
(* Hashes are numbered in the order in which the blocks are created        *)
(* anywhere in the network; Genesis is 0.                                  *)
(***************************************************************************)
EXTENDS Integers

CONSTANTS
  MaxBlocks,      \* bound: blocks ever created besides the genesis block
  MaxPeerBlocks,  \* bound: peers create no more blocks once this many exist
  Miner,          \* the goroutines that may be inside MineBlock
  CommitMayFail   \* TRUE: bolt may fail to commit a transaction

ASSUME ConstantsAssumption ==
  /\ MaxBlocks \in Nat
  /\ MaxPeerBlocks \in Nat
  /\ CommitMayFail \in BOOLEAN

Hash    == 0 .. MaxBlocks
Genesis == 0
NoHash  == -1      \* the empty PrevHash of the genesis block
Garbage == -2      \* bytes that are the hash of no block

Header  == [prev : Hash \cup {NoHash}, height : Nat]
NoBlock == [prev |-> NoHash, height |-> -1]  \* no block with this hash exists
Idle    == NoBlock                           \* the job of no miner

VARIABLES
  block,     \* block[h]: header of the block with hash h, created by any node
  stored,    \* hashes that are keys of the bucket "blocks" of this node
  last,      \* the value of the key "l" of the bucket
  tip,       \* bc.tip
  tipSlice,  \* where the bytes of bc.tip live
  mined,     \* history: the blocks this node created
  job        \* job[m]: parent and height of the block miner m works on

vars == <<block, stored, last, tip, tipSlice, mined, job>>

(***************************************************************************)
(* bc.tip is a byte slice.  "heap": the node owns the bytes and they are   *)
(* those of a committed block.  "mmap": they lie in the page of the        *)
(* database file NewBlockchain read "l" from, which bolt only promises     *)
(* until the end of that transaction.  "freed": a later transaction gave   *)
(* that page back to bolt.  "uncommitted": AddBlock assigned bc.tip and    *)
(* the commit of its transaction then failed.                              *)
(***************************************************************************)
TipSlice == {"heap", "mmap", "freed", "uncommitted"}

Created   == {h \in Hash : block[h] # NoBlock}
Height(h) == block[h].height
Extend(h) == [prev |-> h, height |-> Height(h) + 1]

\* The hash of a block that is being created now.
Fresh(h) == h \in Hash \ Created /\ \A g \in 0 .. h - 1 : g \in Created

(* Shape of the state of the store. *)
TypeOK ==
  /\ block \in [Hash -> Header \cup {NoBlock}]
  /\ stored \subseteq Hash
  /\ last \in Hash
  /\ tip \in Hash \cup {Garbage}
  /\ tipSlice \in TipSlice
  /\ mined \subseteq Hash
  /\ job \in [Miner -> Header \cup {Idle}]

-----------------------------------------------------------------------------
(***************************************************************************)
(* startup.sh copies one database, made by CreateBlockchain, to every      *)
(* node; each node then opens its copy.                                    *)
(***************************************************************************)
Init ==
  /\ block = [h \in Hash |-> IF h = Genesis THEN [prev |-> NoHash, height |-> 0]
                                            ELSE NoBlock]
  /\ stored = {Genesis}
  /\ last = Genesis
  /\ tip = Genesis
  /\ tipSlice = "mmap"
  /\ mined = {}
  /\ job = [m \in Miner |-> Idle]

\* Another node of the network, running this same program, mines h on p.
PeerMines(h, p) ==
  /\ Fresh(h)
  /\ h <= MaxPeerBlocks
  /\ p \in Created
  /\ block' = [block EXCEPT ![h] = Extend(p)]
  /\ UNCHANGED <<stored, last, tip, tipSlice, mined, job>>

(***************************************************************************)
(* What a write transaction that leaves bc.tip alone does to its bytes: a  *)
(* Put in the bucket "blocks" frees the page of "l", and any transaction   *)
(* after that one may overwrite a freed page.                              *)
(***************************************************************************)
KeepTip ==
  \/ /\ tipSlice \in {"heap", "uncommitted"}
     /\ UNCHANGED <<tip, tipSlice>>
  \/ /\ tipSlice = "mmap"
     /\ tipSlice' = "freed"
     /\ UNCHANGED tip
  \/ /\ tipSlice = "freed"
     /\ tip' \in {tip, Garbage}
     /\ UNCHANGED tipSlice

SetLast(h) == /\ last' = h
              /\ tip' = h
              /\ tipSlice' = "heap"

\* Mutant: a block as high as the last block also becomes the last block.
AddBestTie(h) ==
  /\ h \in Created \ stored
  /\ Height(last) <= Height(h)
  /\ stored' = stored \cup {h}
  /\ SetLast(h)
  /\ UNCHANGED <<block, mined, job>>

\* Mutant: the key "l" is written but bc.tip is not assigned.
AddBestNoTip(h) ==
  /\ h \in Created \ stored
  /\ Height(last) < Height(h)
  /\ stored' = stored \cup {h}
  /\ last' = h
  /\ KeepTip
  /\ UNCHANGED <<block, mined, job>>

\* Mutant: the height is compared with that of the block's parent, not with
\* that of the last block, so a higher block may be left aside.
AddSideAnyHeight(h) ==
  /\ h \in Created \ stored
  /\ Height(last) >= Height(block[h].prev)
  /\ stored' = stored \cup {h}
  /\ KeepTip
  /\ UNCHANGED <<block, last, mined, job>>

(***************************************************************************)
(* AddBlock: a block of a peer that is not stored yet is written; it       *)
(* becomes the last block only if it is higher than the last block.        *)
(***************************************************************************)
AddBest(h) ==
  /\ h \in Created \ stored
  /\ Height(last) < Height(h)
  /\ stored' = stored \cup {h}
  /\ SetLast(h)
  /\ UNCHANGED <<block, mined, job>>

AddSide(h) ==
  /\ h \in Created \ stored
  /\ Height(last) >= Height(h)
  /\ stored' = stored \cup {h}
  /\ KeepTip
  /\ UNCHANGED <<block, last, mined, job>>

AddBlock(h) == AddBest(h) \/ AddSide(h)

\* The transaction of AddBlock is rolled back, the assignment to bc.tip inside
\* it is not; AddBlock returns the error and handleBlock logs it.
AddBestFails(h) ==
  /\ CommitMayFail
  /\ h \in Created \ stored
  /\ Height(last) < Height(h)
  /\ tip' = h
  /\ tipSlice' = "uncommitted"
  /\ UNCHANGED <<block, stored, last, mined, job>>

\* A transaction on the bucket "chainstate": UTXOSet.Update or UTXOSet.Reindex.
WriteChainstate ==
  /\ tipSlice = "freed"
  /\ KeepTip
  /\ UNCHANGED <<block, stored, last, mined, job>>

-----------------------------------------------------------------------------
(* MineBlock. *)

\* GetLatest: the last block and its height, read in one transaction.
StartMining(m) ==
  /\ job[m] = Idle
  /\ job' = [job EXCEPT ![m] = Extend(last)]
  /\ UNCHANGED <<block, stored, last, tip, tipSlice, mined>>

\* Mutant: the height of the update is taken over without the + 1.
RetargetSameHeight(m, h) ==
  /\ job[m] # Idle
  /\ h \in stored
  /\ job' = [job EXCEPT ![m] = [prev |-> h, height |-> Height(h)]]
  /\ UNCHANGED <<block, stored, last, tip, tipSlice, mined>>

\* Mutant: the update is sent before the block has been added.
RetargetEarly(m, h) ==
  /\ job[m] # Idle
  /\ h \in Created
  /\ job' = [job EXCEPT ![m] = Extend(h)]
  /\ UNCHANGED <<block, stored, last, tip, tipSlice, mined>>

\* Run receives an UpdateInfo for the stored block h: NewBlock starts over on
\* top of h, whether or not h is the last block.
Retarget(m, h) ==
  /\ job[m] # Idle
  /\ h \in stored
  /\ job' = [job EXCEPT ![m] = Extend(h)]
  /\ UNCHANGED <<block, stored, last, tip, tipSlice, mined>>

\* Mutant: "l" is written from bc.tip before bc.tip is assigned.
PutMinedOldTip(m, h) ==
  /\ job[m] # Idle
  /\ Fresh(h)
  /\ block' = [block EXCEPT ![h] = job[m]]
  /\ stored' = stored \cup {h}
  /\ last' = tip
  /\ tip' = h
  /\ tipSlice' = "heap"
  /\ mined' = mined \cup {h}
  /\ job' = [job EXCEPT ![m] = Idle]

\* A nonce was found: the block is written and becomes the last block without
\* a look at what "l" is by now.  (When this commit fails the node panics.)
PutMined(m, h) ==
  /\ job[m] # Idle
  /\ Fresh(h)
  /\ block' = [block EXCEPT ![h] = job[m]]
  /\ stored' = stored \cup {h}
  /\ SetLast(h)
  /\ mined' = mined \cup {h}
  /\ job' = [job EXCEPT ![m] = Idle]

\* Only the coinbase is left: NewBlock and MineBlock return Block{}.
Abandon(m) ==
  /\ job[m] # Idle
  /\ job' = [job EXCEPT ![m] = Idle]
  /\ UNCHANGED <<block, stored, last, tip, tipSlice, mined>>

\* The process dies and is started again: NewBlockchain opens the database and
\* keeps the slice bolt returned for "l".
Restart ==
  /\ tip' = last
  /\ tipSlice' = "mmap"
  /\ job' = [m \in Miner |-> Idle]
  /\ UNCHANGED <<block, stored, last, mined>>

Next ==
  \/ \E h \in Hash, p \in Hash : PeerMines(h, p)
  \/ \E h \in Hash : AddBlock(h) \/ AddBestFails(h)
  \/ WriteChainstate
  \/ \E m \in Miner : StartMining(m) \/ Abandon(m)
  \/ \E m \in Miner, h \in Hash : Retarget(m, h) \/ PutMined(m, h)
  \/ Restart

Spec == Init /\ [][Next]_vars

-----------------------------------------------------------------------------
(* What the store guarantees. *)

(* The height recorded in a block, which its hash does not cover, is its   *)
(* distance from the genesis block: GetLatest and UpdateInfo hand parent   *)
(* and height to the miner as a pair, and PoW, retargets, crashes and      *)
(* other miners in between never separate them.  This is why a walk with   *)
(* BlockchainIterator ends at the genesis block or at a missing block.     *)
HeightIsDepth ==
  /\ block[Genesis] = [prev |-> NoHash, height |-> 0]
  /\ \A h \in Created \ {Genesis} :
       /\ block[h].prev \in Created
       /\ block[h] = Extend(block[h].prev)

(* bc.tip against the key "l" of the database: they agree while the node   *)
(* owns the bytes of bc.tip or bolt has not freed their page; afterwards   *)
(* bc.tip is "l" or garbage; and after a failed commit it names a block    *)
(* that is not in the database and is higher than the last block.          *)
TipMatchesDb ==
  /\ tipSlice \in {"heap", "mmap"} => tip = last
  /\ tipSlice = "freed" => tip \in {last, Garbage}
  /\ tipSlice = "uncommitted" => /\ tip \in Created \ stored
                                 /\ Height(tip) > Height(last)

(* A block this node mines never has a gap right below it: its parent is   *)
(* in this node's database, across retargets to side blocks and restarts.  *)
MinedOnStored ==
  \A h \in mined : h \in stored /\ block[h].prev \in stored

(* While a node has mined nothing, no block it has received is higher than *)
(* its last block, whatever the order and the forks in which blocks came   *)
(* and however often it was restarted: AddBlock implements "the highest    *)
(* chain is the chain".  (A mined block replaces "l" unconditionally, so a *)
(* node that mines does not have this.)                                    *)
ReceivedNeverOutranksLast ==
  mined = {} => \A h \in stored : Height(h) <= Height(last)

(* First seen wins: "l" only ever moves to a strictly higher block or to a *)
(* block this node has just mined, and never because of a restart.         *)
LastMovesUpOrMined ==
  [][last' # last => \/ Height(last)' > Height(last)
                     \/ last' \in mined' \ mined]_vars

=============================================================================
