------------------------------- MODULE MCSync -------------------------------
(* Sync on a chain of blocks, and on a chain with a fork. *)
EXTENDS Sync

CONSTANTS A, B, C

\* One chain, or the last block is a second child of the genesis block.
Fork        == CHOOSE h \in Block : \A g \in Block : g <= h
ChainPrev   == [h \in Block |-> h - 1]
ChainHeight == [h \in Block |-> h]
ForkPrev    == [ChainPrev EXCEPT ![Fork] = 0]
ForkHeight  == [ChainHeight EXCEPT ![Fork] = 1]

\* A starts with the chain up to block 1, the others with the genesis block;
\* or with the highest block and a gap below it.
OneHas1  == [n \in Node |-> IF n = A THEN 0 .. 1 ELSE {0}]
OneGap   == [n \in Node |-> IF n = A THEN 0 .. 1 ELSE {0, 2}]
Short    == {OneHas1}
Either   == {OneHas1, OneGap}

\* As in startup.sh: every node has a port of its own.
OwnPort  == [n \in Node |-> n]

\* A has all blocks but the one of the fork, the others have that one.
TwoForks == {[n \in Node |-> IF n = A THEN Block \ {Fork} ELSE {0, Fork}]}
=============================================================================
