------------------------------- MODULE UTXOSet -------------------------------
(***************************************************************************)
(* The bucket "chainstate" of one node (src/src/utxo_set.go): the outputs  *)
(* that can be spent, kept up to date block by block by Update, rebuilt    *)
(* from the chain by Reindex, and read by the wallet when it pays.         *)
(*                                                                         *)
(* Block h carries one payment, transaction h, with one input and one or   *)
(* two outputs; the genesis block carries a coinbase with one output.      *)
(* Outputs are numbered from 0 as in the code.                             *)
(***************************************************************************)
EXTENDS Integers, Sequences, FiniteSets

CONSTANTS
  MaxBlocks,   \* bound: blocks ever mined by all nodes
  MaxPending   \* bound: payments that wait to be mined

ASSUME UTXOAssumption == MaxBlocks \in Nat /\ MaxPending \in Nat

Hash    == 0 .. MaxBlocks
Genesis == 0
None    == -1

Outputs == {<<>>, <<0>>, <<1>>, <<0, 1>>}

(* A payment: the input it states (transaction and Vout), the output that  *)
(* the wallet means by it, the number of outputs the bucket listed for     *)
(* that transaction, and the number of its own outputs.                    *)
Payment == [txid : Hash \cup {None}, vout : 0 .. 1, means : 0 .. 1, listed : 0 .. 2,
            outs : 1 .. 2]
Coinbase == [txid |-> None, vout |-> 0, means |-> 0, listed |-> 0, outs |-> 1]

VARIABLES
  prev,     \* prev[h]: parent of block h; None if h has not been mined
  pay,      \* pay[h]: the payment in block h
  stored,   \* the blocks in the database of this node
  last,     \* its last block, "l"
  todo,     \* stored blocks whose goroutine has not called Update yet
  utxo,     \* utxo[t]: outputs listed for transaction t, <<>> if t is no key
  pending,  \* payments made and not yet in a block
  phase,    \* what Reindex of the shell does next
  found,    \* the result of FindUTXO in Reindex
  head,     \* history: the block of the latest Update
  clean     \* history: nothing happened so far that Update cannot deal with

blocks == <<prev, pay>>
vars == <<prev, pay, stored, last, todo, utxo, pending, phase, found, head, clean>>

Mined == {h \in Hash : h = Genesis \/ prev[h] # None}
Fresh(h) == h \in Hash \ Mined /\ \A g \in 1 .. h - 1 : g \in Mined

\* The blocks from h down to the genesis block, and the height of h.
Chain  == LET chain[h \in Hash] == IF prev[h] = None THEN {h} ELSE {h} \cup chain[prev[h]]
          IN  chain
Height(h) == Cardinality(Chain[h])

NoOutputs == [t \in Hash |-> <<>>]

\* The outputs of transaction t that are not in the set gone, in their order.
OutputsWithout(t, gone) ==
  (IF 0 \in gone THEN <<>> ELSE <<0>>)
  \o (IF pay[t].outs = 1 \/ 1 \in gone THEN <<>> ELSE <<1>>)
AllOutputs(t) == OutputsWithout(t, {})

-----------------------------------------------------------------------------
(* The algorithms. *)

\* The inputs seen by a walk down the chain.
Inputs == SUBSET ((Hash \cup {None}) \X (0 .. 1))
InputOf(h) == <<pay[h].txid, pay[h].vout>>

\* Mutant: an output counts as spent if any output of its transaction is.
FindUTXOByTx(h) ==
  LET unspent(t, spent) ==
        OutputsWithout(t, {i \in 0 .. 1 : \E s \in spent : s[1] = t})
      walk[at \in Hash \X Inputs] ==
        LET g == at[1]
            spent == at[2]
        IN  IF prev[g] = None THEN [NoOutputs EXCEPT ![g] = unspent(g, spent)]
            ELSE [walk[<<prev[g], spent \cup {InputOf(g)}>>] EXCEPT ![g] = unspent(g, spent)]
  IN  walk[<<h, {}>>]

(* Blockchain.FindUTXO: the walk from block h to the genesis block, which  *)
(* remembers the inputs of the blocks above and skips the outputs they     *)
(* name.                                                                   *)
FindUTXO(h) ==
  LET unspent(t, spent) == OutputsWithout(t, {i \in 0 .. 1 : <<t, i>> \in spent})
      walk[at \in Hash \X Inputs] ==
        LET g == at[1]
            spent == at[2]
        IN  IF prev[g] = None THEN [NoOutputs EXCEPT ![g] = unspent(g, spent)]
            ELSE [walk[<<prev[g], spent \cup {InputOf(g)}>>] EXCEPT ![g] = unspent(g, spent)]
  IN  walk[<<h, {}>>]

\* What Update keeps of the outputs listed for a transaction: Vout counts
\* positions in the list, not outputs of the transaction.
Spend(listed, vout) ==
  IF vout < Len(listed)
  THEN SubSeq(listed, 1, vout) \o SubSeq(listed, vout + 2, Len(listed))
  ELSE listed

-----------------------------------------------------------------------------
Init ==
  /\ prev = [h \in Hash |-> None]
  /\ pay = [h \in Hash |-> Coinbase]
  /\ stored = {Genesis}
  /\ last = Genesis
  /\ todo = {}
  /\ utxo = [NoOutputs EXCEPT ![Genesis] = <<0>>]  \* createBlockchain calls Reindex
  /\ pending = {}
  /\ phase = "idle"
  /\ found = NoOutputs
  /\ head = Genesis
  /\ clean = TRUE

\* NewUTXOTransaction: the wallet pays with the output at position i of what
\* the bucket lists for t, with or without change.
Pay(t, i, n) ==
  /\ Cardinality(pending) < MaxPending
  /\ Cardinality(pending) + Cardinality(Mined) <= MaxBlocks  \* bound: a block for each
  /\ i \in DOMAIN utxo[t]
  /\ pending' = pending \cup
       {[txid |-> t, vout |-> i - 1, means |-> utxo[t][i], listed |-> Len(utxo[t]), outs |-> n]}
  /\ UNCHANGED <<blocks, stored, last, todo, utxo, phase, found, head, clean>>

\* A payment is mined on top of block p; its transaction is in the chain of p.
MineOn(h, p, x) ==
  /\ Fresh(h)
  /\ x \in pending
  /\ x.txid \in Chain[p]
  /\ prev' = [prev EXCEPT ![h] = p]
  /\ pay' = [pay EXCEPT ![h] = x]
  /\ pending' = pending \ {x}

\* Another node mines a block.
PeerMines(h, p, x) ==
  /\ p \in Mined
  /\ MineOn(h, p, x)
  /\ UNCHANGED <<stored, last, todo, utxo, phase, found, head, clean>>

\* This node mines a block on its last block.
MineBlock(h, x) ==
  /\ Chain[last] \subseteq stored
  /\ MineOn(h, last, x)
  /\ stored' = stored \cup {h}
  /\ last' = h
  /\ todo' = todo \cup {h}
  /\ UNCHANGED <<utxo, phase, found, head, clean>>

\* This node receives a block; a higher one becomes the last block.
AddBlock(h) ==
  /\ h \in Mined \ stored
  /\ stored' = stored \cup {h}
  /\ last' = IF Height(h) > Height(last) THEN h ELSE last
  /\ todo' = todo \cup {h}
  /\ UNCHANGED <<blocks, utxo, pending, phase, found, head, clean>>

\* Mutant: the input is taken for spent whatever its Vout.
UpdateAllOutputs(h) ==
  LET x == pay[h]
  IN  /\ h \in todo
      /\ todo' = todo \ {h}
      /\ utxo' = [utxo EXCEPT ![x.txid] = <<>>, ![h] = AllOutputs(h)]
      /\ head' = h
      /\ clean' = (clean /\ prev[h] = head /\ x.listed = Len(utxo[x.txid]))
      /\ UNCHANGED <<blocks, stored, last, pending, phase, found>>

(***************************************************************************)
(* UTXOSet.Update, for every block that is stored and in the order in      *)
(* which the goroutines get the lock.  It is clean if h extends the block  *)
(* of the Update before and nothing was spent of the same transaction      *)
(* since the wallet made the payment.                                      *)
(***************************************************************************)
Update(h) ==
  LET x == pay[h]
  IN  /\ h \in todo
      /\ todo' = todo \ {h}
      /\ utxo' = [utxo EXCEPT ![x.txid] = Spend(@, x.vout), ![h] = AllOutputs(h)]
      /\ head' = h
      /\ clean' = (clean /\ prev[h] = head /\ x.listed = Len(utxo[x.txid]))
      /\ UNCHANGED <<blocks, stored, last, pending, phase, found>>

-----------------------------------------------------------------------------
(* UTXOSet.Reindex, three steps with a lock each. *)

ClearChainState ==
  /\ phase = "idle"
  /\ phase' = "find"
  /\ utxo' = NoOutputs
  /\ clean' = FALSE
  /\ UNCHANGED <<blocks, stored, last, todo, pending, found, head>>

\* The walk panics at a missing parent; the shell recovers and Reindex is over.
Find ==
  /\ phase = "find"
  /\ IF Chain[last] \subseteq stored
     THEN phase' = "fill" /\ found' = FindUTXO(last)
     ELSE phase' = "idle" /\ UNCHANGED found
  /\ UNCHANGED <<blocks, stored, last, todo, utxo, pending, head, clean>>

\* Mutant: what was found is added to what is there.
FillAppends ==
  /\ phase = "fill"
  /\ phase' = "idle"
  /\ utxo' = [t \in Hash |-> utxo[t] \o found[t]]
  /\ found' = NoOutputs
  /\ UNCHANGED <<blocks, stored, last, todo, pending, head, clean>>

Fill ==
  /\ phase = "fill"
  /\ phase' = "idle"
  /\ utxo' = [t \in Hash |-> IF found[t] = <<>> THEN utxo[t] ELSE found[t]]
  /\ found' = NoOutputs
  /\ UNCHANGED <<blocks, stored, last, todo, pending, head, clean>>

\* The process dies and is started again: no Update is made up for.
Restart ==
  /\ todo' = {}
  /\ phase' = "idle"
  /\ found' = NoOutputs
  /\ clean' = (clean /\ todo = {})
  /\ UNCHANGED <<blocks, stored, last, utxo, pending, head>>

Next ==
  \/ \E t \in Hash, i \in 1 .. 2, n \in 1 .. 2 : Pay(t, i, n)
  \/ \E h \in Hash, p \in Hash, x \in pending : PeerMines(h, p, x)
  \/ \E h \in Hash, x \in pending : MineBlock(h, x)
  \/ \E h \in Hash : AddBlock(h) \/ Update(h)
  \/ ClearChainState \/ Find \/ Fill
  \/ Restart

Spec == Init /\ [][Next]_vars

-----------------------------------------------------------------------------
(* What the UTXO set guarantees, and what it does not. *)

\* Transaction t without the outputs that the payments in S were meant to spend.
Left(t, S) == OutputsWithout(t, {i \in 0 .. 1 : \E b \in S : pay[b].txid = t /\ pay[b].means = i})

(* Shape of the state; and nothing is listed that no stored block created, *)
(* twice or in another order, whatever Update and Reindex do to each other.*)
TypeOK ==
  /\ prev \in [Hash -> Hash \cup {None}] /\ pay \in [Hash -> Payment]
  /\ stored \subseteq Mined /\ last \in stored /\ todo \subseteq stored
  /\ utxo \in [Hash -> Outputs] /\ found \in [Hash -> Outputs]
  /\ \A t \in Hash : utxo[t] # <<>> => t \in stored /\ Len(utxo[t]) <= pay[t].outs
  /\ pending \subseteq Payment /\ phase \in {"idle", "find", "fill"}
  /\ head \in stored /\ clean \in BOOLEAN

(* FindUTXO, one pass from the last block down with a list of the inputs   *)
(* seen so far, finds exactly the outputs of the chain that no input of    *)
(* the chain names.                                                        *)
ScanIsUnspent ==
  \A h \in Mined : \A t \in Hash :
    LET named == {i \in 0 .. 1 : \E b \in Chain[h] : InputOf(b) = <<t, i>>}
    IN  FindUTXO(h)[t] = IF t \in Chain[h] THEN OutputsWithout(t, named) ELSE <<>>

(* Update keeps the wallet's books right, output by output, in spite of    *)
(* counting positions: as long as blocks are applied in the order of one   *)
(* chain, no two payments from the same transaction wait at once, no crash *)
(* comes between a block and its Update, and Reindex is not called.        *)
BooksRightWhenClean ==
  clean => \A t \in Hash :
    utxo[t] = IF t \in Chain[head] THEN Left(t, Chain[head]) ELSE <<>>

(* "Rebuild the UTXO set": what Reindex would find on the chain that was   *)
(* applied block by block is what the bucket lists.                        *)
ReindexRebuilds == clean /\ head = last => utxo = FindUTXO(last)

=============================================================================
