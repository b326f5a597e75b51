----------------------------- MODULE ChainLock ------------------------------
(***************************************************************************)
(* The two sync.RWMutexes that the goroutines of a node share: the one     *)
(* embedded in mempool ("pool") and the one embedded in Blockchain         *)
(* ("chain"), and the order in which each goroutine takes and releases     *)
(* them.                                                                   *)
(*                                                                         *)
(* A goroutine is the sequence of its lock operations.  Loops are taken    *)
(* once and early returns are left out: a goroutine that returns early     *)
(* takes the locks of a prefix.  What either lock guarantees is RWLock,    *)
(* which this module implements twice.                                     *)
(***************************************************************************)
EXTENDS Integers, Sequences

CONSTANTS
  Goroutine,  \* the goroutines
  Shell,      \* those that run a command of the shell, where a panic is recovered
  Scripts     \* Scripts[g]: what goroutine g may run, as sequences of lock operations

ASSUME LockAssumption == Shell \subseteq Goroutine /\ "no one" \notin Goroutine

Lock    == {"pool", "chain"}
NoOne   == "no one"
Kind    == {"RLock", "RUnlock", "Lock", "Unlock"}
Op(k, l) == [kind |-> k, lock |-> l]

Rd(l, body) == <<Op("RLock", l)>> \o body \o <<Op("RUnlock", l)>>
Wr(l, body) == <<Op("Lock", l)>> \o body \o <<Op("Unlock", l)>>

-----------------------------------------------------------------------------
(* The functions that take the locks. *)

Iterator          == Rd("chain", <<>>)
FindTransaction   == Rd("chain", Iterator)
VerifyTransaction == Rd("chain", FindTransaction)
SignTransaction   == Rd("chain", FindTransaction)
GetBlockHashes    == Rd("chain", Iterator)
FindUTXO          == Rd("chain", Iterator)
GetLatest         == Rd("chain", <<>>)
GetLastBlockHeight == Rd("chain", <<>>)
GetBlock          == Rd("chain", <<>>)
AddBlock          == Wr("chain", <<>>)
Update            == Wr("chain", <<>>)

\* The second half of MineBlock is what runs once a nonce is found.
MineBlock == VerifyTransaction \o GetLatest \o VerifyTransaction \o Wr("chain", <<>>)

\* Mutant: the mempool is locked inside the critical section of the store.
handleBlockPoolInside ==
  AddBlock \o Wr("chain", Wr("pool", <<>>)) \o Rd("pool", <<>>)

\* handleBlock: UTXOSet.Update is called with the mempool locked.
handleBlock == AddBlock \o Wr("pool", Update) \o Rd("pool", <<>>)

\* handleTx: the mempool stays locked while its transactions are verified.
handleTx ==
  Wr("pool", <<>>) \o Rd("pool", <<>>) \o Wr("pool", VerifyTransaction)
    \o MineBlock \o Update \o Wr("pool", <<>>) \o Wr("pool", <<>>)

handleGetBlocks == GetBlockHashes
handleGetData   == GetBlock
\* It looks a transaction up, as handleGetData does that is asked for one.
handleInventory == Rd("pool", <<>>)
handleVersion   == GetLastBlockHeight \o GetLastBlockHeight

\* The commands of the interactive shell.  The balances of all addresses are
\* one balance after the other, here two.
getBalance     == Rd("chain", <<>>)
getAllBalances == getBalance \o getBalance
printChain     == Iterator
checkupdate    == GetLastBlockHeight
send           == Rd("chain", <<>>) \o SignTransaction
reindexUTXO    == Wr("chain", <<>>) \o FindUTXO \o Wr("chain", <<>>)

Handlers == {handleTx, handleBlock, handleInventory, handleGetBlocks, handleGetData, handleVersion}
Commands == {getBalance, getAllBalances, printChain, checkupdate, send, reindexUTXO}

ASSUME ScriptAssumption ==
  \A g \in Goroutine : Scripts[g] \subseteq IF g \in Shell THEN Commands ELSE Handlers

-----------------------------------------------------------------------------
VARIABLES
  todo,     \* todo[g]: the lock operations goroutine g has before it
  readers,  \* readers[l][g]: how often goroutine g holds lock l for reading
  writer,   \* writer[l]: the goroutine that has announced itself as writer
  writing,  \* writing[l]: that goroutine holds the lock
  waiting   \* waiting[l]: the goroutines blocked in RLock

vars == <<todo, readers, writer, writing, waiting>>

(* Shape of the locks; who holds one for writing holds it alone, and a     *)
(* reader only waits for a writer that has announced itself.               *)
TypeOK ==
  /\ readers \in [Lock -> [Goroutine -> Nat]]
  /\ writer \in [Lock -> Goroutine \cup {NoOne}]
  /\ writing \in [Lock -> BOOLEAN]
  /\ waiting \in [Lock -> SUBSET Goroutine]
  /\ \A l \in Lock : writing[l] => /\ writer[l] # NoOne
                                  /\ \A g \in Goroutine : readers[l][g] = 0
  /\ \A l \in Lock : writer[l] = NoOne => waiting[l] = {}

Init ==
  /\ todo \in [Goroutine -> UNION {Scripts[g] : g \in Goroutine}]
  /\ \A g \in Goroutine : todo[g] \in Scripts[g]
  /\ readers = [l \in Lock |-> [g \in Goroutine |-> 0]]
  /\ writer = [l \in Lock |-> NoOne]
  /\ writing = [l \in Lock |-> FALSE]
  /\ waiting = [l \in Lock |-> {}]

Done(g)        == todo[g] = <<>>
Calls(g, k, l) == ~Done(g) /\ Head(todo[g]) = Op(k, l)
Advance(S)     == todo' = [g \in Goroutine |-> IF g \in S THEN Tail(todo[g]) ELSE todo[g]]

(***************************************************************************)
(* sync.RWMutex.  RLock waits as soon as a writer has announced itself,    *)
(* also if the caller holds the lock for reading already; Lock announces   *)
(* itself and waits for the readers that came before it; Unlock lets in    *)
(* every reader that waited before the next writer can announce itself.    *)
(* A release of a lock that is not held is fatal and does not happen.      *)
(***************************************************************************)
\* Mutant: a reader does not look for a writer.
RLockAtOnce(g, l) ==
  /\ Calls(g, "RLock", l)
  /\ g \notin waiting[l]
  /\ readers' = [readers EXCEPT ![l][g] = @ + 1]
  /\ Advance({g})
  /\ UNCHANGED <<writer, writing, waiting>>

RLock(g, l) ==
  /\ Calls(g, "RLock", l)
  /\ writer[l] = NoOne
  /\ readers' = [readers EXCEPT ![l][g] = @ + 1]
  /\ Advance({g})
  /\ UNCHANGED <<writer, writing, waiting>>

RLockWait(g, l) ==
  /\ Calls(g, "RLock", l)
  /\ writer[l] # NoOne
  /\ g \notin waiting[l]
  /\ waiting' = [waiting EXCEPT ![l] = @ \cup {g}]
  /\ UNCHANGED <<todo, readers, writer, writing>>

RUnlock(g, l) ==
  /\ Calls(g, "RUnlock", l)
  /\ readers[l][g] > 0
  /\ readers' = [readers EXCEPT ![l][g] = @ - 1]
  /\ Advance({g})
  /\ UNCHANGED <<writer, writing, waiting>>

Announce(g, l) ==
  /\ Calls(g, "Lock", l)
  /\ writer[l] = NoOne
  /\ writer' = [writer EXCEPT ![l] = g]
  /\ UNCHANGED <<todo, readers, writing, waiting>>

\* Mutant: a writer does not wait for the readers.
AcquireAtOnce(g, l) ==
  /\ writer[l] = g
  /\ ~writing[l]
  /\ writing' = [writing EXCEPT ![l] = TRUE]
  /\ Advance({g})
  /\ UNCHANGED <<readers, writer, waiting>>

Acquire(g, l) ==
  /\ writer[l] = g
  /\ ~writing[l]
  /\ \A r \in Goroutine : readers[l][r] = 0
  /\ writing' = [writing EXCEPT ![l] = TRUE]
  /\ Advance({g})
  /\ UNCHANGED <<readers, writer, waiting>>

Unlock(g, l) ==
  /\ Calls(g, "Unlock", l)
  /\ writer[l] = g /\ writing[l]
  /\ writing' = [writing EXCEPT ![l] = FALSE]
  /\ writer' = [writer EXCEPT ![l] = NoOne]
  /\ readers' = [readers EXCEPT ![l] = [r \in Goroutine |->
                   IF r \in waiting[l] THEN @[r] + 1 ELSE @[r]]]
  /\ waiting' = [waiting EXCEPT ![l] = {}]
  /\ Advance({g} \cup waiting[l])

\* Mutant: only the innermost of the nested read locks is released.
DeferredOnce(g) ==
  [i \in 1 .. (IF readers["chain"][g] > 0 THEN 1 ELSE 0) |-> Op("RUnlock", "chain")]
    \o (IF writer["chain"] = g THEN <<Op("Unlock", "chain")>> ELSE <<>>)

\* The releases that are deferred: every function of the chain that locks defers
\* its release, and the shell does not lock the mempool.
Deferred(g) ==
  [i \in 1 .. readers["chain"][g] |-> Op("RUnlock", "chain")]
    \o (IF writer["chain"] = g THEN <<Op("Unlock", "chain")>> ELSE <<>>)

\* A command panics (an ID that is not found, a gap in the chain, a wallet
\* without funds) and recoverer() returns to the prompt.  A goroutine that is
\* blocked in a lock does not panic.
Recover(g) ==
  /\ g \in Shell
  /\ \A l \in Lock : g \notin waiting[l] /\ (writer[l] = g => writing[l])
  /\ todo[g] # Deferred(g)
  /\ todo' = [todo EXCEPT ![g] = Deferred(g)]
  /\ UNCHANGED <<readers, writer, writing, waiting>>

Step(g) ==
  \E l \in Lock : \/ RLock(g, l) \/ RLockWait(g, l) \/ RUnlock(g, l)
                  \/ Announce(g, l) \/ Acquire(g, l) \/ Unlock(g, l)

Next == \E g \in Goroutine : Step(g) \/ Recover(g)

\* A goroutine that can go on does; no command has to panic.
Spec == Init /\ [][Next]_vars /\ \A g \in Goroutine : WF_vars(Step(g))

-----------------------------------------------------------------------------
(* What the locks guarantee, and what they do not. *)

\* A goroutine waits to read a lock that it holds for reading, behind a writer
\* that waits for it to release the lock: neither goes on ever again.
NestedFreeze == \E l \in Lock, g \in Goroutine : g \in waiting[l] /\ readers[l][g] > 0

Holder(l) == IF writing[l] THEN writer[l] ELSE NoOne

pool  == INSTANCE RWLock WITH holds <- readers["pool"], owner <- Holder("pool")
chain == INSTANCE RWLock WITH holds <- readers["chain"], owner <- Holder("chain")

(* Whatever the goroutines run and wherever a command of the shell panics, *)
(* each of the two locks is held by one writer or by readers only, and no  *)
(* lock is taken or released on behalf of another goroutine.               *)
ImplementsRWLock == pool!Spec /\ chain!Spec

(* The nested read locks are the only way in which the node can freeze:    *)
(* otherwise every goroutine finishes.  In particular mempool and store    *)
(* are never locked in opposite orders, though handleTx and handleBlock    *)
(* both lock the store while they hold the mempool, and a command that     *)
(* panics inside three locks leaves none of them locked.                   *)
FreezeOnlyByNesting ==
  <>((\A g \in Goroutine : Done(g)) \/ NestedFreeze)

\* Goroutine g has a lock operation that it can carry out now.
CanGo(g) ==
  \E l \in Lock :
    \/ Calls(g, "RLock", l) /\ (writer[l] = NoOne \/ g \notin waiting[l])
    \/ Calls(g, "RUnlock", l) /\ readers[l][g] > 0
    \/ Calls(g, "Lock", l) /\ writer[l] = NoOne
    \/ writer[l] = g /\ ~writing[l] /\ \A r \in Goroutine : readers[l][r] = 0
    \/ Calls(g, "Unlock", l) /\ writer[l] = g /\ writing[l]

(* The same without time: where nobody can go on, all have finished or one *)
(* waits behind a writer that waits for it.  Nobody is stuck in a release  *)
(* of a lock that is not held, or with the mempool locked.                 *)
StuckOnlyByNesting ==
  (\A g \in Goroutine : ~CanGo(g)) => (\A g \in Goroutine : Done(g)) \/ NestedFreeze

(* "TODO: always freeze here ?" on the RLock of UTXOSet.FindUTXO: the      *)
(* lock is granted in the end and the balance is shown.                    *)
FindUTXOReturns == \A g \in Goroutine : todo[g] = getBalance => <>Done(g)

=============================================================================
