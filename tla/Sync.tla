-------------------------------- MODULE Sync --------------------------------
(***************************************************************************)
(* How nodes catch up with one another: the messages version, getblocks,   *)
(* inv, getdata and block of src/src/server.go, sent over one connection   *)
(* each and handled by one goroutine each, so in any order.                *)
(*                                                                         *)
(* The blocks that are ever mined are given as a tree.  A block only       *)
(* exists once a node has stored it.                                       *)
(***************************************************************************)
EXTENDS Integers, FiniteSets, Bags, SequencesExt

CONSTANTS
  Node,
  Port,       \* Port[n]: the port of node n, its NODE_ID
  Block,      \* the blocks, numbered so that parents come first; 0 is genesis
  Prev,       \* Prev[h]: the parent of block h; -1 for the genesis block
  Height,     \* Height[h]: the height recorded in block h
  Databases,  \* what the nodes may start with: functions from Node to sets of blocks
  MaxEvents,  \* bound: blocks mined, restarts and checks for updates, all together
  MayCrash    \* the nodes that may die at any time, also in the middle of a send

ASSUME SyncAssumption ==
  /\ Block \subseteq Nat /\ 0 \in Block
  /\ Prev[0] = -1 /\ Height[0] = 0
  /\ \A h \in Block \ {0} : /\ Prev[h] \in Block /\ Prev[h] < h
                            /\ Height[h] = Height[Prev[h]] + 1
  /\ \A D \in Databases : /\ D \in [Node -> SUBSET Block]
                          /\ \A n \in Node : 0 \in D[n] /\ IsFiniteSet(D[n])
  /\ MaxEvents \in Nat
  /\ MayCrash \subseteq Node

VARIABLES
  stored,   \* stored[n]: the keys of the bucket "blocks" of node n
  last,     \* last[n]: the value of "l", and bc.tip
  transit,  \* transit[n]: blocksInTransit.a of node n
  phase,    \* phase[n]: how far the process of node n is
  msgs,     \* the messages on their way, a bag
  invs,     \* the goroutines of handleInventory that have sent their getdata
  events    \* counter of MaxEvents

chainVars == <<stored, last>>
vars == <<stored, last, transit, phase, msgs, invs, events>>

\* Not started yet; dead; it listens but Bc is nil; Bc is the chain; its version
\* is sent.
Phases == {"new", "down", "listening", "open", "running"}
Up(n)  == phase[n] \notin {"new", "down"}

\* GetBlockchain, which whoever comes first has open the database.
Opened(n) == phase' = [phase EXCEPT ![n] = IF @ = "listening" THEN "open" ELSE @]

(* Following the parents from a block to the genesis block, as             *)
(* BlockchainIterator does: the hashes, highest first.                     *)
ChainFrom ==
  LET chain[h \in Block] == IF h = 0 THEN <<h>> ELSE <<h>> \o chain[Prev[h]]
  IN  chain
ChainSet(h)    == {ChainFrom[h][i] : i \in DOMAIN ChainFrom[h]}
Walkable(n)    == ChainSet(last[n]) \subseteq stored[n]
Highest(S)     == CHOOSE h \in S : \A g \in S : Height[h] >= Height[g]

Version(n, p)     == [type |-> "version", from |-> n, to |-> p, height |-> Height[last[n]]]
GetBlocks(n, p)   == [type |-> "getblocks", from |-> n, to |-> p]
Inv(n, p, items)  == [type |-> "inv", from |-> n, to |-> p, items |-> items]
GetData(n, p, h)  == [type |-> "getdata", from |-> n, to |-> p, hash |-> h]
BlockMsg(n, p, h) == [type |-> "block", from |-> n, to |-> p, hash |-> h]

\* prepareData of a message to "all": one copy for every node with another
\* port.  That of a node on another host may be the same: it gets no copy.
ToAll(m) == SetToBag({[m EXCEPT !.to = p] : p \in {q \in Node : Port[q] # Port[m.from]}})

One(m)        == SetToBag({m})
Reply(m, out) == msgs' = (msgs (-) One(m)) (+) out

\* Mutant: it does not matter whether the process runs.
ArrivesAnyway(m, typ) == m \in BagToSet(msgs) /\ m.type = typ

\* handleConnection of a running process has read the message.
Arrives(m, typ) == m \in BagToSet(msgs) /\ m.type = typ /\ Up(m.to)

(***************************************************************************)
(* The process of node n dies, and with it its goroutines and              *)
(* blocksInTransit.  M is the messages that are on their way then; those   *)
(* of n that have not been written to a connection are lost.               *)
(***************************************************************************)
Dies(n, M) ==
  /\ phase' = [phase EXCEPT ![n] = "down"]
  /\ transit' = [transit EXCEPT ![n] = <<>>]
  /\ invs' = [i \in {j \in BagToSet(invs) : j.node # n} |-> invs[i]]
  /\ \E lost \in SUBSET {m \in BagToSet(M) : m.from = n} :
       msgs' = [m \in BagToSet(M) \ lost |-> M[m]]
  /\ UNCHANGED <<chainVars, events>>

\* One more of the events that MaxEvents bounds.
Count == events < MaxEvents /\ events' = events + 1

-----------------------------------------------------------------------------
Init ==
  /\ stored \in Databases
  /\ last = [n \in Node |-> Highest(stored[n])]
  /\ transit = [n \in Node |-> <<>>]
  /\ phase = [n \in Node |-> "new"]
  /\ msgs = EmptyBag
  /\ invs = EmptyBag
  /\ events = 0

\* StartServer: the listener runs ...
Start(n) ==
  /\ \/ phase[n] = "new" /\ UNCHANGED events
     \/ phase[n] = "down" /\ Count
  /\ phase' = [phase EXCEPT ![n] = "listening"]
  /\ UNCHANGED <<chainVars, transit, msgs, invs>>

\* ... then the chain is opened, unless a handler has opened it ...
Open(n) ==
  /\ phase[n] = "listening"
  /\ Opened(n)
  /\ UNCHANGED <<chainVars, transit, msgs, invs, events>>

\* Mutant: the version is sent before the chain is opened.
GreetEarly(n) ==
  /\ phase[n] \in {"listening", "open"}
  /\ phase' = [phase EXCEPT ![n] = IF @ = "open" THEN "running" ELSE @]
  /\ msgs' = msgs (+) ToAll(Version(n, "all"))
  /\ UNCHANGED <<chainVars, transit, invs, events>>

\* ... and three seconds later version is sent to all nodes.
Greet(n) ==
  /\ phase[n] = "open"
  /\ phase' = [phase EXCEPT ![n] = "running"]
  /\ msgs' = msgs (+) ToAll(Version(n, "all"))
  /\ UNCHANGED <<chainVars, transit, invs, events>>

\* The shell's checkupdate sends version to all nodes.
CheckUpdate(n) ==
  /\ Up(n)
  /\ Count
  /\ Opened(n)
  /\ msgs' = msgs (+) ToAll(Version(n, "all"))
  /\ UNCHANGED <<chainVars, transit, invs>>

\* The process is killed, or a dial takes longer than ten seconds or a copy
\* fails, which sendData returns and prepareData answers with log.Panic.
Crash(n) ==
  /\ n \in MayCrash
  /\ Up(n)
  /\ Dies(n, msgs)

\* "connection refused": the message is dropped.
Refused(m) ==
  /\ m \in BagToSet(msgs)
  /\ ~Up(m.to)
  /\ Reply(m, EmptyBag)
  /\ UNCHANGED <<chainVars, transit, phase, invs, events>>

\* A sender that dies while it writes leaves a part of the message, which does
\* not decode: the handler panics, and the process of the receiver ends, too.
CutShort(m) ==
  /\ phase[m.from] = "down"
  /\ Up(m.to)
  /\ Dies(m.to, msgs (-) One(m))

\* A new block is mined on the last block of node n and announced.
Mine(n, h) ==
  /\ phase[n] \in {"open", "running"}
  /\ \A p \in Node : h \notin stored[p]
  /\ Prev[h] = last[n]
  /\ stored' = [stored EXCEPT ![n] = @ \cup {h}]
  /\ last' = [last EXCEPT ![n] = h]
  /\ msgs' = msgs (+) ToAll(Inv(n, "all", <<h>>))
  /\ Count
  /\ UNCHANGED <<transit, phase, invs>>

-----------------------------------------------------------------------------
(* The handlers. *)

\* Mutant: the answer to a version of the same height is a version.
handleVersionEager(m) ==
  LET n == m.to
      mine == Height[last[n]]
  IN  /\ Arrives(m, "version")
      /\ Reply(m, IF mine < m.height THEN One(GetBlocks(n, m.from))
                  ELSE One(Version(n, m.from)))
      /\ Opened(n)
      /\ UNCHANGED <<chainVars, transit, invs, events>>

handleVersion(m) ==
  LET n == m.to
      mine == Height[last[n]]
  IN  /\ Arrives(m, "version")
      /\ Reply(m, IF mine < m.height THEN One(GetBlocks(n, m.from))
                  ELSE IF mine > m.height THEN One(Version(n, m.from))
                  ELSE EmptyBag)
      /\ Opened(n)
      /\ UNCHANGED <<chainVars, transit, invs, events>>

\* GetBlockHashes walks from bc.tip; at a parent that is not stored it panics.
handleGetBlocks(m) ==
  /\ Arrives(m, "getblocks")
  /\ phase[m.to] # "listening"
  /\ Walkable(m.to)
  /\ Reply(m, One(Inv(m.to, m.from, ChainFrom[last[m.to]])))
  /\ UNCHANGED <<chainVars, transit, phase, invs, events>>

handleGetBlocksPanics(m) ==
  /\ Arrives(m, "getblocks")
  /\ phase[m.to] # "listening"
  /\ ~Walkable(m.to)
  /\ Dies(m.to, msgs (-) One(m))

\* handleGetBlocks and handleGetData use Bc as it is, and it is nil.
handleTooEarly(m) ==
  /\ Arrives(m, "getblocks") \/ Arrives(m, "getdata")
  /\ phase[m.to] = "listening"
  /\ Dies(m.to, msgs (-) One(m))

\* The transit list is replaced, and its first block is asked for ...
handleInventory(m) ==
  LET n == m.to
      first == Head(m.items)
  IN  /\ Arrives(m, "inv")
      /\ transit' = [transit EXCEPT ![n] = m.items]
      /\ invs' = invs (+) One([node |-> n, hash |-> first, read |-> FALSE, rest |-> <<>>])
      /\ Reply(m, One(GetData(n, m.from, first)))
      /\ UNCHANGED <<chainVars, phase, events>>

\* The blocks of a list other than one of them.
Others(list, hash) ==
  FoldLeft(LAMBDA rest, h : IF h = hash THEN rest ELSE Append(rest, h), <<>>, list)

\* ... then the list is copied without that block, under a read lock ...
InventoryRead(i) ==
  LET rest == Others(transit[i.node], i.hash)
  IN  /\ i \in BagToSet(invs)
      /\ ~i.read
      /\ invs' = (invs (-) One(i)) (+) One([i EXCEPT !.read = TRUE, !.rest = rest])
      /\ UNCHANGED <<chainVars, transit, phase, msgs, events>>

\* ... and the copy is put in its place, whatever the list is by then.
InventoryWrite(i) ==
  /\ i \in BagToSet(invs)
  /\ i.read
  /\ invs' = invs (-) One(i)
  /\ transit' = [transit EXCEPT ![i.node] = i.rest]
  /\ UNCHANGED <<chainVars, phase, msgs, events>>

handleGetData(m) ==
  /\ Arrives(m, "getdata")
  /\ phase[m.to] # "listening"
  /\ Reply(m, IF m.hash \in stored[m.to] THEN One(BlockMsg(m.to, m.from, m.hash))
              ELSE EmptyBag)
  /\ UNCHANGED <<chainVars, transit, phase, invs, events>>

\* Mutant: handleBlock returns when AddBlock has returned an error.
handleBlockReturnsEarly(m) ==
  LET n == m.to
      new == m.hash \notin stored[n]
  IN  /\ Arrives(m, "block")
      /\ stored' = [stored EXCEPT ![n] = @ \cup {m.hash}]
      /\ last' = [last EXCEPT ![n] = IF new /\ Height[m.hash] > Height[@] THEN m.hash ELSE @]
      /\ IF transit[n] = <<>> \/ ~new
         THEN Reply(m, EmptyBag) /\ UNCHANGED transit
         ELSE /\ Reply(m, One(GetData(n, m.from, Head(transit[n]))))
              /\ transit' = [transit EXCEPT ![n] = Tail(@)]
      /\ Opened(n)
      /\ UNCHANGED <<invs, events>>

\* AddBlock, and, whether it stored the block or not, the next block of the
\* transit list is asked for: from the sender of this one.
handleBlock(m) ==
  LET n == m.to
      new == m.hash \notin stored[n]
  IN  /\ Arrives(m, "block")
      /\ stored' = [stored EXCEPT ![n] = @ \cup {m.hash}]
      /\ last' = [last EXCEPT ![n] = IF new /\ Height[m.hash] > Height[@] THEN m.hash ELSE @]
      /\ IF transit[n] = <<>>
         THEN Reply(m, EmptyBag) /\ UNCHANGED transit
         ELSE /\ Reply(m, One(GetData(n, m.from, Head(transit[n]))))
              /\ transit' = [transit EXCEPT ![n] = Tail(@)]
      /\ Opened(n)
      /\ UNCHANGED <<invs, events>>

Handle ==
  \/ \E m \in BagToSet(msgs) :
       \/ handleVersion(m) \/ handleGetBlocks(m) \/ handleGetBlocksPanics(m)
       \/ handleTooEarly(m)
       \/ handleInventory(m) \/ handleGetData(m) \/ handleBlock(m) \/ Refused(m)
  \/ \E i \in BagToSet(invs) : InventoryRead(i) \/ InventoryWrite(i)

Next ==
  \/ \E n \in Node : Start(n) \/ Open(n) \/ Greet(n) \/ CheckUpdate(n) \/ Crash(n)
  \/ \E n \in Node, h \in Block : Mine(n, h)
  \/ \E m \in BagToSet(msgs) : CutShort(m)
  \/ Handle

\* Messages are delivered or refused, goroutines run.  Nothing is assumed of
\* mining, crashes and the user; all nodes are started in the end.
Spec ==
  /\ Init /\ [][Next]_vars
  /\ WF_vars(Handle)
  /\ \A n \in Node : WF_vars(Start(n)) /\ WF_vars(Open(n) \/ Greet(n))

-----------------------------------------------------------------------------
(* What the protocol guarantees, and what it does not. *)

Quiet == msgs = EmptyBag /\ invs = EmptyBag

(* Shape of the state; and no process, no goroutine of handleInventory and *)
(* no transit list.                                                        *)
TypeOK ==
  /\ \A n \in Node : stored[n] \subseteq Block /\ last[n] \in stored[n]
  /\ \A n \in Node : \A i \in DOMAIN transit[n] : transit[n][i] \in Block
  /\ phase \in [Node -> Phases]
  /\ IsABag(msgs) /\ IsABag(invs)
  /\ \A n \in Node : ~Up(n) => transit[n] = <<>> /\ \A i \in BagToSet(invs) : i.node # n
  /\ events \in 0 .. MaxEvents

(* The exchange of messages always comes to an end: nodes do not answer    *)
(* each other's versions for ever and a block that comes twice does not    *)
(* go round in circles, though inventories are merged by goroutines that   *)
(* overwrite each other's lists.                                           *)
Quiesces == <>[]Quiet

(* What an answer to getblocks offers is a whole chain, and the node that  *)
(* asks is told to fetch all of it: while messages are only delayed and    *)
(* reordered and nobody mines, every node that stays up ends with every    *)
(* block of the highest chain, though it stores the highest block first;   *)
(* and no node is asked for blocks before it has opened its chain, which   *)
(* would be its end.                                                       *)
SyncCompletes ==
  \A n \in Node :
    <>(Up(n) /\ ChainSet(Highest(UNION {stored[p] : p \in Node})) \subseteq stored[n])

(* BlockchainIterator.Next takes a parent that is not in the database for  *)
(* an error that cannot happen and panics: once every node has started and *)
(* all messages are handled, no node has a chain with a gap.               *)
NoGapWhenQuiet == Quiet /\ (\A n \in Node : phase[n] = "running") => \A n \in Node : Walkable(n)

=============================================================================
