------------------------------- MODULE RWLock -------------------------------
(***************************************************************************)
(* What a reader-writer lock promises to the goroutines that use it, and   *)
(* nothing of how they are made to wait for it.                            *)
(***************************************************************************)
EXTENDS Integers

CONSTANTS Goroutine, NoOne

VARIABLES
  holds,  \* holds[g]: how often goroutine g holds the lock for reading
  owner   \* the goroutine that holds it for writing, or NoOne

Init == holds = [g \in Goroutine |-> 0] /\ owner = NoOne

AcquireRead(g) ==
  /\ owner = NoOne
  /\ holds' = [holds EXCEPT ![g] = @ + 1]
  /\ UNCHANGED owner

ReleaseRead(g) ==
  /\ holds[g] > 0
  /\ holds' = [holds EXCEPT ![g] = @ - 1]
  /\ UNCHANGED owner

AcquireWrite(g) ==
  /\ owner = NoOne
  /\ \A r \in Goroutine : holds[r] = 0
  /\ owner' = g
  /\ UNCHANGED holds

\* Any number of readers may come in at the moment the writer leaves.
ReleaseWrite(g, in) ==
  /\ owner = g
  /\ owner' = NoOne
  /\ holds' = [r \in Goroutine |-> IF r \in in THEN holds[r] + 1 ELSE holds[r]]

Next ==
  \E g \in Goroutine :
    \/ AcquireRead(g) \/ ReleaseRead(g) \/ AcquireWrite(g)
    \/ \E in \in SUBSET Goroutine : ReleaseWrite(g, in)

Spec == Init /\ [][Next]_<<holds, owner>>
=============================================================================
