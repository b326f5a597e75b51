------------------------------- MODULE Merkle -------------------------------
(***************************************************************************)
(* The Merkle tree of src/src/merkle.go, whose root HashTransactions puts  *)
(* in the header of a block (src/src/block.go), and its operations on a    *)
(* tree object: NewTree, RebuildTree, RebuildTreeWith, VerifyTree and      *)
(* VerifyContent.                                                          *)
(*                                                                         *)
(* The nodes are kept level by level, the leaves first: the children of    *)
(* node i are nodes 2i-1 and 2i of the level below, or the last node twice *)
(* if there is no node 2i.                                                 *)
(***************************************************************************)
EXTENDS Integers, SequencesExt

CONSTANTS
  Inputs,    \* the lists of contents that trees are built from, none empty
  MaxDamage  \* bound: hashes of the tree object overwritten from outside

ASSUME MerkleAssumption ==
  /\ \A cs \in Inputs : cs # <<>> /\ cs \in Seq(Range(cs))
  /\ MaxDamage \in Nat

VARIABLES
  leafs,       \* the contents of Leafs, a duplicate at the end included
  hash,        \* hash[k][i]: the Hash field of node i of level k
  merkleRoot,  \* the field merkleRoot
  given,       \* history: the contents the tree was built from
  damage       \* history: hashes overwritten since the tree was built

vars == <<leafs, hash, merkleRoot, given, damage>>

\* SHA-256 without collisions.
LeafHash(c)    == <<c>>
NodeHash(l, r) == <<l, r>>
Bad            == <<>>     \* bytes that are no hash

Right(i, level) == IF 2 * i > Len(level) THEN 2 * i - 1 ELSE 2 * i

-----------------------------------------------------------------------------
(* Building a tree. *)

\* Mutant: the left hash is appended to itself.
ParentsLeftOnly(level) ==
  [i \in 1 .. (Len(level) + 1) \div 2 |-> NodeHash(level[2 * i - 1], level[2 * i - 1])]

\* One round of buildIntermediate.
Parents(level) ==
  [i \in 1 .. (Len(level) + 1) \div 2 |-> NodeHash(level[2 * i - 1], level[Right(i, level)])]

\* The number of levels above n nodes.
Height[n \in Nat \ {0}] == IF n = 1 THEN 0 ELSE 1 + Height[(n + 1) \div 2]

\* buildWithContent duplicates the last of an odd number of leaves ...
Leafs(cs) == IF Len(cs) % 2 = 1 THEN Append(cs, Last(cs)) ELSE cs

\* ... and buildIntermediate builds the levels above.
Levels(ls) ==
  LET level[k \in 1 .. Height[Len(ls)] + 1] ==
        IF k = 1 THEN [i \in DOMAIN ls |-> LeafHash(ls[i])] ELSE Parents(level[k - 1])
  IN  level

Root(levels) == Last(levels)[1]

(***************************************************************************)
(* The older NewMerkleTree of src/src/merkle_tree.go, which only its tests *)
(* call: as many rounds as half the number of leaves, each of which pairs  *)
(* all nodes and panics if one is left over.                               *)
(***************************************************************************)
Panicked == <<>>

Round(level) == IF Len(level) % 2 = 1 THEN Panicked ELSE Parents(level)

Rounds(cs, n) ==
  LET ls == Leafs(cs)
      level[k \in 0 .. n] ==
        IF k = 0 THEN [i \in DOMAIN ls |-> LeafHash(ls[i])] ELSE Round(level[k - 1])
  IN  level[n]

\* Mutant: a round too few.
NewMerkleTreeRoundLess(cs) == Rounds(cs, Len(Leafs(cs)) \div 2 - 1)

NewMerkleTree(cs) == Rounds(cs, Len(Leafs(cs)) \div 2)

-----------------------------------------------------------------------------
(* Checking a tree. *)

\* Mutant: the hashes kept in the nodes are used.
verifyNodeKept(k, i) ==
  IF k = 1 THEN LeafHash(leafs[i])
  ELSE NodeHash(hash[k - 1][2 * i - 1], hash[k - 1][Right(i, hash[k - 1])])

\* Node.verifyNode goes down to the contents.
verifyNode(k, i) ==
  LET verify[j \in 1 .. k] ==
        IF j = 1 THEN [n \in DOMAIN leafs |-> LeafHash(leafs[n])]
        ELSE [n \in DOMAIN hash[j] |->
               NodeHash(verify[j - 1][2 * n - 1], verify[j - 1][Right(n, hash[j - 1])])]
  IN  verify[k][i]

\* Node.calculateNodeHash looks at the children only.
calculateNodeHash(k, i) ==
  IF k = 1 THEN LeafHash(leafs[i])
  ELSE NodeHash(hash[k - 1][2 * i - 1], hash[k - 1][Right(i, hash[k - 1])])

VerifyTree == merkleRoot = verifyNode(Len(hash), 1)

\* Following the parents from leaf i leads to node Above(i, k) of level k.
Above(i, k) ==
  LET above[j \in 1 .. k] == IF j = 1 THEN i ELSE (above[j - 1] + 1) \div 2
  IN  above[k]

\* The hash of node n of level k is the one its children give.
Agrees(k, n) ==
  hash[k][n] = NodeHash(calculateNodeHash(k - 1, 2 * n - 1),
                        calculateNodeHash(k - 1, Right(n, hash[k - 1])))

\* Mutant: the root is not looked at.
VerifyContentBelowRoot(c) ==
  \E i \in DOMAIN leafs :
    /\ leafs[i] = c
    /\ \A j \in 1 .. i - 1 : leafs[j] # c
    /\ \A k \in 2 .. Len(hash) - 1 : Agrees(k, Above(i, k))

(* VerifyContent takes the first leaf with the content and checks every    *)
(* node above it.  It does not look at the root it is given.               *)
VerifyContent(c) ==
  \E i \in DOMAIN leafs :
    /\ leafs[i] = c
    /\ \A j \in 1 .. i - 1 : leafs[j] # c
    /\ \A k \in 2 .. Len(hash) : Agrees(k, Above(i, k))

-----------------------------------------------------------------------------
(* The operations. *)

Init ==
  /\ leafs = <<>>
  /\ hash = <<>>
  /\ merkleRoot = Bad
  /\ given = <<>>
  /\ damage = 0

Build(cs) ==
  /\ leafs' = Leafs(cs)
  /\ hash' = Levels(Leafs(cs))
  /\ merkleRoot' = Root(Levels(Leafs(cs)))
  /\ damage' = 0

NewTree(cs) ==
  /\ given = <<>>
  /\ Build(cs)
  /\ given' = cs

\* The leaves are the content, the duplicate among them.
RebuildTree ==
  /\ given # <<>>
  /\ Build(leafs)
  /\ UNCHANGED given

RebuildTreeWith(cs) ==
  /\ given # <<>>
  /\ Build(cs)
  /\ given' = cs

\* The tests overwrite hashes of a tree to see that this is noticed.
DamageNode(k, i) ==
  /\ damage < MaxDamage
  /\ hash[k][i] # Bad
  /\ hash' = [hash EXCEPT ![k][i] = Bad]
  /\ damage' = damage + 1
  /\ UNCHANGED <<leafs, merkleRoot, given>>

DamageRoot ==
  /\ damage < MaxDamage
  /\ given # <<>>
  /\ merkleRoot # Bad
  /\ merkleRoot' = Bad
  /\ damage' = damage + 1
  /\ UNCHANGED <<leafs, hash, given>>

Next ==
  \/ \E cs \in Inputs : NewTree(cs) \/ RebuildTreeWith(cs)
  \/ RebuildTree
  \/ \E k \in DOMAIN hash : \E i \in DOMAIN hash[k] : DamageNode(k, i)
  \/ DamageRoot

Spec == Init /\ [][Next]_vars

-----------------------------------------------------------------------------
(* What a tree guarantees. *)

(* The reference: the list is filled up to a power of two, at each scale   *)
(* by a copy of the last block of it, and halved down to the leaves.       *)
Scale[k \in Nat] == IF k = 0 THEN 1 ELSE 2 * Scale[k - 1]

Fill(s, k) ==
  LET odd == (Len(s) \div Scale[k]) % 2 = 1
  IN  IF odd /\ (k = 0 \/ Len(s) > Scale[k])
      THEN s \o SubSeq(s, Len(s) - Scale[k] + 1, Len(s)) ELSE s

Filled(cs) ==
  LET fill[k \in 0 .. Len(cs)] == IF k = 0 THEN cs ELSE Fill(fill[k - 1], k - 1)
  IN  fill[Len(cs)]

Halved(S, s) ==
  LET half[p \in Seq(S)] ==
        IF Len(p) < 2 THEN LeafHash(p[1])
        ELSE NodeHash(half[SubSeq(p, 1, Len(p) \div 2)],
                      half[SubSeq(p, Len(p) \div 2 + 1, Len(p))])
  IN  half[s]

Reference(cs) == Halved(Range(cs), Filled(cs))

(* The root is the reference root of the contents the tree was built from, *)
(* also when it was rebuilt from leaves that include a duplicate, or after *)
(* its hashes had been overwritten.                                        *)
RootIsReference == merkleRoot # Bad => merkleRoot = Reference(given)

(* VerifyTree notices a wrong root, and only that: overwritten hashes of   *)
(* other nodes are neither trusted nor found.                              *)
VerifyTreeExact == given # <<>> => (VerifyTree <=> merkleRoot = Reference(given))

(* VerifyContent accepts no content that is not in the tree, and none when *)
(* the hash in the root node is not that of the contents; in a tree nobody *)
(* has tampered with it accepts every content.                             *)
VerifyContentSound ==
  \A c \in UNION {{cs[i] : i \in DOMAIN cs} : cs \in Inputs} :
    /\ VerifyContent(c) => /\ c \in {given[i] : i \in DOMAIN given}
                           /\ Root(hash) = Reference(given)
    /\ damage = 0 /\ c \in {given[i] : i \in DOMAIN given} => VerifyContent(c)

(* The root commits a block to its transactions: lists without repetitions *)
(* that differ, in length, order or a member, have different roots.        *)
RootCommits ==
  LET distinct == {cs \in Inputs : IsInjective(cs)}
  IN  given \in distinct /\ damage = 0 =>
        \A cs \in distinct : Root(Levels(Leafs(cs))) = merkleRoot => cs = given

(* The older tree has the same root for up to four leaves, and does not    *)
(* come to an end with any other number of them.                           *)
OlderTreeAgrees ==
  given # <<>> /\ damage = 0 =>
    NewMerkleTree(given) = IF Len(given) <= 4 THEN <<merkleRoot>> ELSE Panicked

=============================================================================
