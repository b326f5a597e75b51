------------------------------- MODULE MCData -------------------------------
(* What is computed from stored data: Merkle trees of up to seven leaves,  *)
(* the encodings on small bases, and the tree of blocks shown over HTTP.   *)
EXTENDS Merkle, Encoding, BlockView

CONSTANTS Request1, Request2

\* One to seven different contents, in order or with two of them exchanged.
Ordered(n)    == [i \in 1 .. n |-> i]
Exchanged(n)  == {[Ordered(n) EXCEPT ![i] = j, ![j] = i] : i \in 1 .. n, j \in 1 .. n}
\* Lists with repetitions, among them those that look like a duplicated leaf.
Repeated      == BoundedSeq({1, 2}, 4) \ {<<>>}

SmallLists == Repeated \cup UNION {Exchanged(n) : n \in 1 .. 7}

\* Blocks in the order of their hashes: 3 is the genesis block, 2 and 4 are
\* its children, 1 is a child of 4.
TwoBranches == <<4, 3, 0, 3>>

\* The three have no state in common: a behaviour is one of any of them.
VARIABLE part

DInit == part \in {"trees", "bytes", "view"} /\ Init /\ EncInit /\ VInit
DNext ==
  \/ part = "trees" /\ Next /\ UNCHANGED <<encVars, vvars, part>>
  \/ part = "bytes" /\ EncNext /\ UNCHANGED <<vars, vvars, part>>
  \/ part = "view" /\ VNext /\ UNCHANGED <<vars, encVars, part>>
DSpec == DInit /\ [][DNext]_<<vars, encVars, vvars, part>>
=============================================================================
