------------------------------ MODULE BlockView ------------------------------
(***************************************************************************)
(* The tree of blocks that a node shows over HTTP (src/src/visualize.go).  *)
(* Each request scans the blocks of the database into the global map       *)
(* blocks, which is never cleared, and builds a tree from the map.         *)
(* Requests run at the same time and nothing locks the map.                *)
(*                                                                         *)
(* Blocks are numbered in the order of their keys, which are hashes and    *)
(* say nothing about the chain.  A list of the map is the set of its       *)
(* members: a block is never in it twice, and the order is layout.  (Up to *)
(* three members a slice is copied when it grows, so that two requests     *)
(* never append to the same memory.)                                       *)
(***************************************************************************)
EXTENDS Integers, FiniteSets, FiniteSetsExt

CONSTANTS
  Request,   \* the goroutines of the HTTP server
  MaxBlock,  \* bound: the blocks are 1 .. MaxBlock
  Parent,    \* Parent[b], 0 for the genesis block
  MaxServed  \* bound: requests that come in

\* There is one genesis block, and since a header holds the hash of its parent,
\* no chain of parents leads back to where it began.
ASSUME ViewAssumption ==
  /\ MaxBlock \in Nat \ {0} /\ MaxServed \in Nat
  /\ Parent \in [1 .. MaxBlock -> 0 .. MaxBlock]
  /\ \E b \in 1 .. MaxBlock : \A c \in 1 .. MaxBlock : Parent[c] = 0 <=> c = b
  /\ \E depth \in [1 .. MaxBlock -> 0 .. MaxBlock] :
       \A b \in 1 .. MaxBlock : Parent[b] # 0 => depth[Parent[b]] < depth[b]

Header == 1 .. MaxBlock
GenesisBlock == CHOOSE b \in Header : Parent[b] = 0
\* Keys of the map: "first" (0) for the genesis block, else the parent's hash.
MapKey == 0 .. MaxBlock

VARIABLES
  inDb,    \* the blocks in the database
  cache,   \* the global map blocks; a key with an empty list is not in it
  doing,   \* doing[r]: what request r does next
  unread,  \* unread[r]: blocks of its bolt snapshot that r has not visited
  copied,  \* copied[r]: the list it read and is about to write back, longer by one
  toShow,  \* toShow[r]: nodes of its tree whose children it has not read
  shown,   \* shown[r]: its tree, as pairs of block and level
  served,  \* how many requests came in
  snapshot,\* history: snapshot[r]: all blocks of the snapshot
  alone    \* history: alone[r]: no other request was in progress meanwhile

vvars == <<inDb, cache, doing, unread, copied, toShow, shown, served, snapshot, alone>>

Busy == {r \in Request : doing[r] # "idle"}
Each(x) == [r \in Request |-> x]

VInit ==
  /\ inDb = {GenesisBlock}
  /\ cache = [k \in MapKey |-> {}]
  /\ doing = Each("idle") /\ unread = Each({}) /\ copied = Each({})
  /\ toShow = Each({}) /\ shown = Each({}) /\ served = 0
  /\ snapshot = Each({}) /\ alone = Each(FALSE)

\* Blocks arrive in any order, parents after their children included.
Stored(b) ==
  /\ b \notin inDb
  /\ inDb' = inDb \cup {b}
  /\ UNCHANGED <<cache, doing, unread, copied, toShow, shown, served, snapshot, alone>>

\* dbHandler opens a transaction, which sees the database as it is now.
dbHandler(r) ==
  /\ doing[r] = "idle" /\ served < MaxServed
  /\ served' = served + 1
  /\ doing' = [doing EXCEPT ![r] = "read"]
  /\ unread' = [unread EXCEPT ![r] = inDb]
  /\ snapshot' = [snapshot EXCEPT ![r] = inDb]
  /\ shown' = [shown EXCEPT ![r] = {}]
  /\ alone' = [q \in Request |-> IF q = r THEN Busy = {} ELSE alone[q] /\ q \notin Busy]
  /\ UNCHANGED <<inDb, cache, copied, toShow>>

\* The list of the next block's parent is read from the map ...
ReadList(r) ==
  /\ doing[r] = "read"
  /\ copied' = [copied EXCEPT ![r] = cache[Parent[Min(unread[r])]]]
  /\ doing' = [doing EXCEPT ![r] = "write"]
  /\ UNCHANGED <<inDb, cache, unread, toShow, shown, served, snapshot, alone>>

\* Mutant: the list is begun anew.
appendNew(r) ==
  LET b == Min(unread[r]) IN
  /\ doing[r] = "write"
  /\ cache' = [cache EXCEPT ![Parent[b]] = {b}]
  /\ unread' = [unread EXCEPT ![r] = @ \ {b}]
  /\ doing' = [doing EXCEPT ![r] = IF unread'[r] = {} THEN "root" ELSE "read"]
  /\ UNCHANGED <<inDb, copied, toShow, shown, served, snapshot, alone>>

\* ... and put back with the block: appendIfMissing.
appendIfMissing(r) ==
  LET b == Min(unread[r]) IN
  /\ doing[r] = "write"
  /\ cache' = [cache EXCEPT ![Parent[b]] = copied[r] \cup {b}]
  /\ unread' = [unread EXCEPT ![r] = @ \ {b}]
  /\ doing' = [doing EXCEPT ![r] = IF unread'[r] = {} THEN "root" ELSE "read"]
  /\ UNCHANGED <<inDb, copied, toShow, shown, served, snapshot, alone>>

\* The genesis block alone if the map has no other key; an empty tree if it
\* has, but none for children of the genesis block.
createRoot(r) ==
  LET keys == {k \in MapKey : cache[k] # {}}
      tree == IF keys = {0} \/ GenesisBlock \in keys THEN {<<GenesisBlock, 0>>} ELSE {}
  IN
  /\ doing[r] = "root"
  /\ shown' = [shown EXCEPT ![r] = tree]
  /\ toShow' = [toShow EXCEPT ![r] = IF keys = {0} THEN {} ELSE tree]
  /\ doing' = [doing EXCEPT ![r] = "tree"]
  /\ UNCHANGED <<inDb, cache, unread, copied, served, snapshot, alone>>

\* Mutant: children are shown on the level of their parent.
createFlat(r, x) ==
  LET children == cache[x[1]] \X {x[2]} IN
  /\ doing[r] = "tree" /\ x \in toShow[r]
  /\ shown' = [shown EXCEPT ![r] = @ \cup children]
  /\ toShow' = [toShow EXCEPT ![r] = (@ \ {x}) \cup children]
  /\ UNCHANGED <<inDb, cache, doing, unread, copied, served, snapshot, alone>>

\* createTreeHierarchy for a node x of the tree; its label is the level that
\* tagHeaders gives it.  Which node is next makes no difference here.
createTreeHierarchy(r, x) ==
  LET children == cache[x[1]] \X {x[2] + 1} IN
  /\ doing[r] = "tree" /\ x \in toShow[r]
  /\ shown' = [shown EXCEPT ![r] = @ \cup children]
  /\ toShow' = [toShow EXCEPT ![r] = (@ \ {x}) \cup children]
  /\ UNCHANGED <<inDb, cache, doing, unread, copied, served, snapshot, alone>>

Reply(r) ==
  /\ doing[r] = "tree" /\ toShow[r] = {}
  /\ doing' = [doing EXCEPT ![r] = "idle"]
  /\ UNCHANGED <<inDb, cache, unread, copied, toShow, shown, served, snapshot, alone>>

\* Two goroutines use a Go map at once and one of them writes: the runtime may
\* notice, and ends the process.  The map is empty after the restart.
MapRace ==
  /\ \E r \in Request : \E q \in Request \ {r} :
       doing[r] = "write" /\ doing[q] \in {"read", "write", "root", "tree"}
  /\ cache' = [k \in MapKey |-> {}]
  /\ doing' = Each("idle") /\ unread' = Each({}) /\ copied' = Each({})
  /\ toShow' = Each({}) /\ shown' = Each({})
  /\ snapshot' = Each({}) /\ alone' = Each(FALSE)
  /\ UNCHANGED <<inDb, served>>

VNext ==
  \/ \E b \in Header : Stored(b)
  \/ \E r \in Request :
       \/ dbHandler(r) \/ ReadList(r) \/ appendIfMissing(r) \/ createRoot(r) \/ Reply(r)
       \/ \E x \in toShow[r] : createTreeHierarchy(r, x)
  \/ MapRace

VSpec == VInit /\ [][VNext]_vvars

-----------------------------------------------------------------------------
\* Reference: the blocks of D connected to the genesis block, with their heights.
TreeOf(D) ==
  LET under[b \in Header] ==
        {<<b, 0>>} \cup
        UNION {{<<x[1], x[2] + 1>> : x \in under[c]} : c \in {d \in D : Parent[d] = b}}
  IN under[GenesisBlock]

(* A request that no other one overlaps shows exactly the blocks of the    *)
(* database that are connected to the genesis block, each labelled with    *)
(* its height, whatever earlier requests that did overlap left in the map. *)
(* The one exception: while blocks arrive tip first and the genesis block  *)
(* has no child yet, it shows an empty tree.                               *)
AloneIsComplete ==
  \A r \in Request :
    (doing[r] = "tree" /\ toShow[r] = {} /\ alone[r]) =>
      LET D == snapshot[r] IN
      shown[r] = IF D # {GenesisBlock} /\ \A d \in D : Parent[d] # GenesisBlock THEN {} ELSE TreeOf(D)

(* Requests that overlap may lose each other's entries and show too little, *)
(* but never a block that is not stored or not connected, or a wrong label. *)
NeverTooMuch == \A r \in Request : shown[r] \subseteq TreeOf(inDb)

=============================================================================
