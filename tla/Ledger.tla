------------------------------- MODULE Ledger --------------------------------
(***************************************************************************)
(* Money: the transactions of wallets (NewUTXOTransaction, NewCoinbaseTX   *)
(* of src/src/transaction.go, send and getBalance of cli.go), mined in any *)
(* order on one chain and booked by UTXOSet.Update.  What becomes of the   *)
(* bucket under forks, crashes and Reindex is the subject of UTXOSet.      *)
(*                                                                         *)
(* Outputs of a transaction are numbered from 1.  Update removes outputs   *)
(* from a list and keeps their order, so the list of a transaction is a    *)
(* set of outputs, and an output's position is its rank in it.             *)
(***************************************************************************)
EXTENDS Integers, Sequences, FiniteSets, Functions

CONSTANTS
  Address,     \* the addresses of all wallets
  Subsidy,     \* what a coinbase pays
  MaxTx,       \* bound: transactions ever made, the genesis coinbase not counted
  MaxWaiting   \* bound: payments not mined yet

ASSUME LedgerAssumption ==
  Subsidy \in Nat \ {0} /\ MaxTx \in Nat /\ MaxWaiting \in Nat

ID   == 0 .. MaxTx
NoTx == [ins |-> {}, outs |-> <<>>]

VARIABLES
  made,    \* the ID of the latest transaction; 0 is the coinbase of the genesis block
  txs,     \* txs[t]: inputs and outputs of transaction t
  listed,  \* listed[t]: the outputs that the bucket lists for t
  unmined, \* the payments made and not mined yet
  worth,   \* history: what each address owns by the payments mined so far
  intact   \* history: every input mined so far named the output it meant

lvars == <<made, txs, listed, unmined, worth, intact>>

\* The index of output o in the list that the bucket has for t.
Position(t, o) == Cardinality({x \in listed[t] : x <= o})

Coins(a) == {c \in UNION {{t} \X listed[t] : t \in ID} : txs[c[1]].outs[c[2]].owner = a}
Amount(C) == SumFunction([c \in C |-> txs[c[1]].outs[c[2]].value])

\* getBalance: the sum over FindUTXO.
Balance(a) == Amount(Coins(a))

(***************************************************************************)
(* FindSpendableOutputs collects the outputs of address a transaction by   *)
(* transaction, in the order of the keys, each list from the front, until  *)
(* they are worth enough: the last one it took was needed, and what it     *)
(* took of a transaction is all of it, or stops at the last one.           *)
(***************************************************************************)
Spendable(a, amount) ==
  {C \in SUBSET Coins(a) : \E c \in C :
     /\ Amount(C) >= amount /\ Amount(C \ {c}) < amount
     /\ \A d \in C, e \in Coins(a) :
          e[1] = d[1] => (e \in C <=> (d[1] = c[1] => e[2] <= c[2]))}

CoinbaseTo(a) == [ins |-> {}, outs |-> <<[owner |-> a, value |-> Subsidy]>>]

LInit ==
  \E a \in Address :
    /\ made = 0
    /\ txs = [t \in ID |-> IF t = 0 THEN CoinbaseTo(a) ELSE NoTx]
    /\ listed = [t \in ID |-> IF t = 0 THEN {1} ELSE {}]
    /\ unmined = {}
    /\ worth = [x \in Address |-> IF x = a THEN Subsidy ELSE 0]
    /\ intact = TRUE

\* An input names a transaction and a position; the wallet means an output.
Input(c) == [tx |-> c[1], vout |-> Position(c[1], c[2]), means |-> c[2]]

\* NewUTXOTransaction: what exceeds the amount goes back to the sender.
Paying(from, to, amount, C) ==
  [ins  |-> {Input(c) : c \in C},
   outs |-> <<[owner |-> to, value |-> amount]>> \o
            (IF Amount(C) > amount
             THEN <<[owner |-> from, value |-> Amount(C) - amount]>> ELSE <<>>)]

\* Mutant: sender and recipient may be the same.
sendAny(from, to, amount) ==
  /\ Cardinality(unmined) < MaxWaiting
  /\ made < MaxTx
  /\ \E C \in Spendable(from, amount) :
       /\ \A t \in unmined : txs[t] # Paying(from, to, amount, C)
       /\ txs' = [txs EXCEPT ![made + 1] = Paying(from, to, amount, C)]
  /\ made' = made + 1
  /\ unmined' = unmined \cup {made + 1}
  /\ UNCHANGED <<listed, worth, intact>>

\* send: a payment with the content of one that waits has its ID too, and
\* changes nothing.  A wallet without enough coins panics in the shell.
send(from, to, amount) ==
  /\ from # to
  /\ Cardinality(unmined) < MaxWaiting
  /\ made < MaxTx
  /\ \E C \in Spendable(from, amount) :
       /\ \A t \in unmined : txs[t] # Paying(from, to, amount, C)
       /\ txs' = [txs EXCEPT ![made + 1] = Paying(from, to, amount, C)]
  /\ made' = made + 1
  /\ unmined' = unmined \cup {made + 1}
  /\ UNCHANGED <<listed, worth, intact>>

\* Mutant: only the same position of a transaction is a conflict.
OutputsDiffer(S) ==
  \A t \in S : \A u \in S \ {t} : \A x \in txs[t].ins, y \in txs[u].ins :
    x.tx # y.tx \/ x.vout # y.vout

\* No two transactions of S spend from the same transaction (hasSameTXInput).
SourcesDiffer(S) ==
  \A t \in S : \A u \in S \ {t} : \A x \in txs[t].ins, y \in txs[u].ins : x.tx # y.tx

(***************************************************************************)
(* UTXOSet.Update for the payments S drops one position after the other.   *)
(* The inputs of a payment name the positions of a transaction in          *)
(* ascending order, and each that is dropped moves those behind it up by   *)
(* one: the k-th of them hits the output k - 1 places further down.        *)
(***************************************************************************)
Named(t, S)   == {x.vout : x \in {y \in UNION {txs[u].ins : u \in S} : y.tx = t}}
Dropped(t, S) == {v + Cardinality({w \in Named(t, S) : w < v}) : v \in Named(t, S)}
Kept(t, S)    == {o \in listed[t] : Position(t, o) \notin Dropped(t, S)}

Payer(t) == LET x == CHOOSE y \in txs[t].ins : TRUE IN txs[x.tx].outs[x.means].owner
Payee(t) == txs[t].outs[1].owner
Paid(t)  == txs[t].outs[1].value
Sum(S)   == SumFunction([t \in S |-> Paid(t)])

\* Mutant: what is mined stays in the mempool.
MineTwice(a, S) ==
  /\ made < MaxTx
  /\ S # {} /\ SourcesDiffer(S)
  /\ made' = made + 1
  /\ txs' = [txs EXCEPT ![made + 1] = CoinbaseTo(a)]
  /\ unmined' = unmined
  /\ listed' = [t \in ID |-> IF t \in S \cup {made + 1} THEN DOMAIN txs'[t].outs ELSE Kept(t, S)]
  /\ worth' = [x \in Address |-> worth[x] + (IF x = a THEN Subsidy ELSE 0)
                 + Sum({t \in S : Payee(t) = x}) - Sum({t \in S : Payer(t) = x})]
  /\ intact' = (intact /\ \A t \in S : \A x \in txs[t].ins :
                  x.means \in listed[x.tx] /\ Position(x.tx, x.means) = x.vout)

\* A block with the payments S and a coinbase for address a is mined and booked
\* (handleTx; with one payment and a the sender, send -mine).
MineAndBook(a, S) ==
  /\ made < MaxTx
  /\ S # {} /\ SourcesDiffer(S)
  /\ made' = made + 1
  /\ txs' = [txs EXCEPT ![made + 1] = CoinbaseTo(a)]
  /\ unmined' = unmined \ S
  /\ listed' = [t \in ID |-> IF t \in S \cup {made + 1} THEN DOMAIN txs'[t].outs ELSE Kept(t, S)]
  /\ worth' = [x \in Address |-> worth[x] + (IF x = a THEN Subsidy ELSE 0)
                 + Sum({t \in S : Payee(t) = x}) - Sum({t \in S : Payer(t) = x})]
  /\ intact' = (intact /\ \A t \in S : \A x \in txs[t].ins :
                  x.means \in listed[x.tx] /\ Position(x.tx, x.means) = x.vout)

LNext ==
  \/ \E from \in Address, to \in Address, n \in 1 .. Subsidy * (made + 1) : send(from, to, n)
  \/ \E a \in Address, S \in SUBSET unmined : MineAndBook(a, S)

LSpec == LInit /\ [][LNext]_lvars

-----------------------------------------------------------------------------
(* Shape of the state; an output is listed once its payment is mined. *)
LTypeOK ==
  /\ made \in ID
  /\ \A t \in ID : listed[t] \subseteq DOMAIN txs[t].outs
  /\ \A t \in ID : t > made => txs[t] = NoTx
  /\ unmined \subseteq 1 .. made /\ \A t \in unmined : listed[t] = {}
  /\ worth \in [Address -> Int] /\ intact \in BOOLEAN

(* A payment spends at most one output of a transaction, however many      *)
(* inputs it has.  Update depends on it, since it drops one position after *)
(* the other, and so does hasSameTXInput, which would take a payment with  *)
(* two such inputs for two rivals.                                         *)
OneInputPerSource ==
  \A t \in ID : \A x \in txs[t].ins, y \in txs[t].ins : x.tx = y.tx => x = y

(* Update drops one position of a list after the other and each moves      *)
(* those behind it; still, what it drops for a block that handleTx may     *)
(* select is exactly what the inputs of the block name.                    *)
UpdateDropsNamed ==
  \A S \in SUBSET unmined :
    SourcesDiffer(S) => \A t \in ID : Dropped(t, S) = Named(t, S)

(* Every balance is what the payments and rewards mined so far add up to,  *)
(* whichever outputs the wallets picked, with change and several inputs,   *)
(* as long as no position a wallet wrote down has moved before its payment *)
(* was mined.                                                              *)
BalancesRight == intact => \A a \in Address : Balance(a) = worth[a]

=============================================================================
