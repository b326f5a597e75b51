-------------------------- MODULE BlockchainProofs --------------------------
(***************************************************************************)
(* Proofs about the block store, for every number of blocks and of mining  *)
(* goroutines, with and without failing commits.                           *)
(***************************************************************************)
EXTENDS Blockchain, TLAPS

-----------------------------------------------------------------------------
(* The inductive invariant.  HeightIsDepth needs to know where miners got  *)
(* their jobs from, MinedOnStored that those parents are stored, and both  *)
(* that "l" always names a stored block.                                   *)

\* What is stored was created by somebody, and "l" names a stored block.
StoreOK == /\ stored \subseteq Created
           /\ last \in stored

\* A mining job extends a stored block.
JobsOnStored ==
  \A m \in Miner : job[m] # Idle => /\ job[m].prev \in stored
                                    /\ job[m] = Extend(job[m].prev)

IInv == /\ TypeOK
        /\ StoreOK
        /\ JobsOnStored
        /\ HeightIsDepth
        /\ TipMatchesDb
        /\ MinedOnStored
        /\ ReceivedNeverOutranksLast

-----------------------------------------------------------------------------
(* Facts about headers. *)

LEMMA HashFacts == /\ Genesis \in Hash
                   /\ Hash \subseteq Nat
                   /\ Garbage \notin Hash
                   /\ NoHash \notin Hash
  BY ConstantsAssumption DEF Hash, Genesis, Garbage, NoHash

\* A created block has a proper header, and extending it gives one.
LEMMA ExtendType ==
  ASSUME TypeOK, NEW h \in Created
  PROVE  /\ h \in Hash
         /\ block[h] \in Header
         /\ Height(h) \in Nat
         /\ Extend(h) \in Header
         /\ Extend(h) # NoBlock
         /\ Extend(h).prev = h
  <1>1. h \in Hash /\ block[h] # NoBlock
    BY DEF Created
  <1>2. block[h] \in Header
    BY <1>1 DEF TypeOK
  <1>3. Height(h) \in Nat
    BY <1>2 DEF Header, Height
  <1>4. Extend(h) \in Header /\ Extend(h).prev = h
    BY <1>1, <1>3 DEF Extend, Header
  <1>5. Extend(h).height # NoBlock.height
    BY <1>3 DEF Extend, NoBlock
  <1>. QED
    BY <1>1, <1>2, <1>3, <1>4, <1>5

\* Creating a block leaves every block created before as it was.
LEMMA CreateKeeps ==
  ASSUME TypeOK, NEW h \in Hash, h \notin Created, NEW hdr \in Header,
         block' = [block EXCEPT ![h] = hdr]
  PROVE  /\ block' \in [Hash -> Header \cup {NoBlock}]
         /\ Created' = Created \cup {h}
         /\ \A g \in Created : /\ block'[g] = block[g]
                               /\ Height(g)' = Height(g)
                               /\ Extend(g)' = Extend(g)
         /\ block'[h] = hdr
  <1>1. hdr # NoBlock
    BY DEF Header, NoBlock
  <1>2. block' \in [Hash -> Header \cup {NoBlock}] /\ block'[h] = hdr
    BY DEF TypeOK
  <1>3. \A g \in Hash \ {h} : block'[g] = block[g]
    BY DEF TypeOK
  <1>4. Created' = Created \cup {h}
    BY <1>1, <1>2, <1>3 DEF Created
  <1>5. \A g \in Created : block'[g] = block[g]
    BY <1>3 DEF Created
  <1>. QED
    BY <1>2, <1>4, <1>5 DEF Height, Extend

\* A block created on top of a created block keeps the heights right.
LEMMA CreateDepth ==
  ASSUME TypeOK, HeightIsDepth, NEW h \in Hash, h \notin Created, NEW p \in Created,
         block' = [block EXCEPT ![h] = Extend(p)]
  PROVE  HeightIsDepth'
  <1>1. Extend(p) \in Header /\ Extend(p).prev = p
    BY ExtendType
  <1>2. /\ Created' = Created \cup {h}
        /\ \A g \in Created : block'[g] = block[g] /\ Extend(g)' = Extend(g)
        /\ block'[h] = Extend(p)
    BY <1>1, CreateKeeps
  <1>3. Genesis \in Created
    BY HashFacts DEF HeightIsDepth, Created, NoBlock
  <1>4. block'[Genesis] = [prev |-> NoHash, height |-> 0]
    BY <1>2, <1>3 DEF HeightIsDepth
  <1>5. ASSUME NEW g \in Created' \ {Genesis}
        PROVE  \E q \in Created : block'[g].prev = q /\ block'[g] = Extend(q)
    <2>1. CASE g = h
      BY <2>1, <1>1, <1>2
    <2>2. CASE g \in Created \ {Genesis}
      <3>1. block[g].prev \in Created /\ block[g] = Extend(block[g].prev)
        BY <2>2 DEF HeightIsDepth
      <3>. QED
        BY <2>2, <3>1, <1>2
    <2>. QED
      BY <1>2, <1>5, <2>1, <2>2
  <1>6. ASSUME NEW g \in Created' \ {Genesis}
        PROVE  (block[g].prev)' \in Created' /\ (block[g] = Extend(block[g].prev))'
    <2>1. PICK q \in Created : block'[g].prev = q /\ block'[g] = Extend(q)
      BY <1>5, <1>6
    <2>2. q \in Created' /\ Extend(q)' = Extend(q)
      BY <1>2
    <2>3. Extend(q)' = [prev |-> q, height |-> block'[q].height + 1]
      BY DEF Extend, Height
    <2>. QED
      BY <2>1, <2>2, <2>3 DEF Extend, Height
  <1>. QED
    BY <1>4, <1>6 DEF HeightIsDepth

-----------------------------------------------------------------------------
LEMMA InitIInv == Init => IInv
  <1>. SUFFICES ASSUME Init PROVE IInv
    OBVIOUS
  <1>. USE HashFacts
  <1>. DEFINE g == [prev |-> NoHash, height |-> 0]
  <1>1. g \in Header /\ g # NoBlock
    BY DEF Header, NoBlock
  <1>2. block \in [Hash -> Header \cup {NoBlock}] /\ block[Genesis] = g
    BY <1>1 DEF Init
  <1>3. Created = {Genesis}
    BY <1>1, <1>2 DEF Init, Created
  <1>4. TypeOK
    BY <1>2 DEF Init, TypeOK, TipSlice
  <1>5. StoreOK /\ JobsOnStored
    BY <1>3 DEF Init, StoreOK, JobsOnStored
  <1>6. HeightIsDepth
    BY <1>2, <1>3 DEF HeightIsDepth
  <1>7. TipMatchesDb /\ MinedOnStored
    BY DEF Init, TipMatchesDb, MinedOnStored
  <1>8. ReceivedNeverOutranksLast
    BY <1>2 DEF Init, ReceivedNeverOutranksLast, Height
  <1>. QED
    BY <1>4, <1>5, <1>6, <1>7, <1>8 DEF IInv

-----------------------------------------------------------------------------
(* Every step that creates no block and writes none preserves the facts    *)
(* that speak of blocks only.                                              *)
LEMMA SameBlocks ==
  ASSUME IInv, UNCHANGED block
  PROVE  /\ Created' = Created
         /\ \A h \in Hash : Height(h)' = Height(h) /\ Extend(h)' = Extend(h)
         /\ HeightIsDepth'
  BY DEF IInv, Created, Height, Extend, HeightIsDepth

LEMMA PeerMinesIInv ==
  ASSUME IInv, NEW h \in Hash, NEW p \in Hash, PeerMines(h, p)
  PROVE  IInv'
  <1>. USE DEF IInv
  <1>1. h \notin Created /\ p \in Created /\ block' = [block EXCEPT ![h] = Extend(p)]
    BY DEF PeerMines, Fresh
  <1>2. UNCHANGED <<stored, last, tip, tipSlice, mined, job>>
    BY DEF PeerMines
  <1>3. /\ Extend(p) \in Header
        /\ Extend(p).prev = p
    BY <1>1, ExtendType
  <1>4. /\ block' \in [Hash -> Header \cup {NoBlock}]
        /\ Created' = Created \cup {h}
        /\ \A g \in Created : /\ block'[g] = block[g]
                              /\ Height(g)' = Height(g)
                              /\ Extend(g)' = Extend(g)
        /\ block'[h] = Extend(p)
    BY <1>1, <1>3, CreateKeeps
  <1>5. TypeOK'
    BY <1>2, <1>4 DEF TypeOK
  <1>6. StoreOK'
    BY <1>2, <1>4 DEF StoreOK
  <1>7. JobsOnStored'
    BY <1>2, <1>4 DEF JobsOnStored, StoreOK
  <1>8. HeightIsDepth'
    BY <1>1, CreateDepth
  <1>9. TipMatchesDb'
    BY <1>2, <1>4 DEF TipMatchesDb, StoreOK, TypeOK
  <1>10. MinedOnStored'
    BY <1>2, <1>4 DEF MinedOnStored, StoreOK
  <1>11. ReceivedNeverOutranksLast'
    BY <1>2, <1>4 DEF ReceivedNeverOutranksLast, StoreOK
  <1>. QED
    BY <1>5, <1>6, <1>7, <1>8, <1>9, <1>10, <1>11

LEMMA AddBestIInv ==
  ASSUME IInv, NEW h \in Hash, AddBest(h)
  PROVE  IInv'
  <1>. USE DEF IInv, AddBest, SetLast
  <1>1. UNCHANGED block /\ Created' = Created /\ h \in Created
        /\ \A g \in Hash : Height(g)' = Height(g) /\ Extend(g)' = Extend(g)
    BY SameBlocks
  <1>2. TypeOK'
    BY DEF TypeOK, TipSlice
  <1>3. StoreOK'
    BY <1>1 DEF StoreOK
  <1>4. JobsOnStored'
    BY <1>1 DEF JobsOnStored, TypeOK
  <1>5. TipMatchesDb'
    BY DEF TipMatchesDb
  <1>6. MinedOnStored'
    BY DEF MinedOnStored
  <1>7. ReceivedNeverOutranksLast'
    <2>1. SUFFICES ASSUME mined' = {}, NEW g \in stored'
                   PROVE  Height(g)' <= Height(last)'
      BY DEF ReceivedNeverOutranksLast
    <2>2. Height(h) \in Nat /\ Height(g) \in Nat /\ Height(last) \in Nat
      BY <1>1, <2>1, ExtendType DEF StoreOK
    <2>3. CASE g = h
      BY <2>2, <2>3 DEF Height
    <2>4. CASE g \in stored
      <3>1. Height(g) <= Height(last)
        BY <2>1, <2>4 DEF ReceivedNeverOutranksLast
      <3>2. Height(g) <= Height(h)
        BY <2>2, <3>1
      <3>. QED
        BY <3>2 DEF Height
    <2>. QED
      BY <2>1, <2>3, <2>4
  <1>. QED
    BY <1>1, <1>2, <1>3, <1>4, <1>5, <1>6, <1>7, SameBlocks

\* What KeepTip leaves of the correspondence between bc.tip and "l".
LEMMA KeepTipMatches ==
  ASSUME IInv, KeepTip, UNCHANGED <<block, last>>,
         NEW h \in Created, Height(last) >= Height(h),
         stored' \subseteq stored \cup {h}
  PROVE  TipMatchesDb' /\ tip' \in Hash \cup {Garbage} /\ tipSlice' \in TipSlice
  <1>. USE DEF IInv, TypeOK, TipMatchesDb, KeepTip, TipSlice
  <1>1. Created' = Created /\ \A g \in Hash : Height(g)' = Height(g)
    BY SameBlocks
  <1>2. tip' \in Hash \cup {Garbage} /\ tipSlice' \in TipSlice
    OBVIOUS
  <1>3. CASE tipSlice = "uncommitted"
    <2>1. tip \in Created \ stored /\ Height(tip) > Height(last)
      BY <1>3
    <2>2. Height(tip) \in Nat /\ Height(h) \in Nat /\ Height(last) \in Nat
      BY <2>1, ExtendType DEF StoreOK
    <2>3. tip # h
      BY <2>1, <2>2
    <2>4. tip' = tip /\ tipSlice' = "uncommitted"
      BY <1>3
    <2>5. tip' \in (Created \ stored)'
      BY <1>1, <2>1, <2>3, <2>4
    <2>6. Height(tip)' > Height(last)'
      BY <2>1, <2>4 DEF Height
    <2>. QED
      BY <1>2, <2>4, <2>5, <2>6
  <1>4. CASE tipSlice # "uncommitted"
    BY <1>1, <1>2, <1>4
  <1>. QED
    BY <1>3, <1>4

LEMMA AddSideIInv ==
  ASSUME IInv, NEW h \in Hash, AddSide(h)
  PROVE  IInv'
  <1>. USE DEF IInv, AddSide
  <1>1. Created' = Created /\ h \in Created
        /\ \A g \in Hash : Height(g)' = Height(g) /\ Extend(g)' = Extend(g)
    BY SameBlocks
  <1>2. TipMatchesDb' /\ tip' \in Hash \cup {Garbage} /\ tipSlice' \in TipSlice
    BY <1>1, KeepTipMatches
  <1>3. TypeOK'
    BY <1>2 DEF TypeOK
  <1>4. StoreOK'
    BY <1>1 DEF StoreOK
  <1>5. JobsOnStored'
    BY <1>1 DEF JobsOnStored, TypeOK
  <1>6. MinedOnStored'
    BY DEF MinedOnStored
  <1>7. ReceivedNeverOutranksLast'
    BY <1>1, ExtendType DEF ReceivedNeverOutranksLast, StoreOK, TypeOK
  <1>. QED
    BY <1>2, <1>3, <1>4, <1>5, <1>6, <1>7, SameBlocks

LEMMA AddBestFailsIInv ==
  ASSUME IInv, NEW h \in Hash, AddBestFails(h)
  PROVE  IInv'
  <1>. USE DEF IInv, AddBestFails
  <1>1. Created' = Created
        /\ \A g \in Hash : Height(g)' = Height(g) /\ Extend(g)' = Extend(g)
    BY SameBlocks
  <1>2. TypeOK' /\ StoreOK' /\ JobsOnStored'
    BY <1>1 DEF TypeOK, StoreOK, JobsOnStored, TipSlice
  <1>3. TipMatchesDb'
    BY <1>1, ExtendType DEF TipMatchesDb, TypeOK, StoreOK
  <1>4. MinedOnStored' /\ ReceivedNeverOutranksLast'
    BY <1>1 DEF MinedOnStored, ReceivedNeverOutranksLast, TypeOK, StoreOK
  <1>. QED
    BY <1>2, <1>3, <1>4, SameBlocks

LEMMA WriteChainstateIInv ==
  ASSUME IInv, WriteChainstate
  PROVE  IInv'
  <1>. USE DEF IInv, WriteChainstate
  <1>1. Created' = Created /\ last \in Created
        /\ \A g \in Hash : Height(g)' = Height(g) /\ Extend(g)' = Extend(g)
    BY SameBlocks DEF StoreOK
  <1>2. TipMatchesDb' /\ tip' \in Hash \cup {Garbage} /\ tipSlice' \in TipSlice
    BY <1>1, KeepTipMatches, ExtendType
  <1>3. TypeOK' /\ StoreOK' /\ JobsOnStored'
    BY <1>1, <1>2 DEF TypeOK, StoreOK, JobsOnStored
  <1>4. MinedOnStored' /\ ReceivedNeverOutranksLast'
    BY <1>1 DEF MinedOnStored, ReceivedNeverOutranksLast, TypeOK, StoreOK
  <1>. QED
    BY <1>2, <1>3, <1>4, SameBlocks

\* Starting, retargeting and abandoning a job only touch job.
LEMMA JobIInv ==
  ASSUME IInv, UNCHANGED <<block, stored, last, tip, tipSlice, mined>>,
         NEW m \in Miner, NEW h \in stored,
         \/ job' = [job EXCEPT ![m] = Extend(h)]
         \/ job' = [job EXCEPT ![m] = Idle]
  PROVE  IInv'
  <1>. USE DEF IInv
  <1>1. Created' = Created
        /\ \A g \in Hash : Height(g)' = Height(g) /\ Extend(g)' = Extend(g)
    BY SameBlocks
  <1>2. Extend(h) \in Header /\ Extend(h).prev = h
    BY ExtendType DEF StoreOK
  <1>3. TypeOK'
    BY <1>2 DEF TypeOK
  <1>4. JobsOnStored'
    BY <1>1, <1>2 DEF JobsOnStored, TypeOK, StoreOK
  <1>5. StoreOK' /\ MinedOnStored'
    BY <1>1 DEF StoreOK, MinedOnStored
  <1>6. TipMatchesDb'
    BY <1>1 DEF TipMatchesDb, Height
  <1>7. ReceivedNeverOutranksLast'
    BY DEF ReceivedNeverOutranksLast, Height
  <1>. QED
    BY <1>3, <1>4, <1>5, <1>6, <1>7, SameBlocks

LEMMA PutMinedIInv ==
  ASSUME IInv, NEW m \in Miner, NEW h \in Hash, PutMined(m, h)
  PROVE  IInv'
  <1>. USE DEF IInv
  <1>. DEFINE p == job[m].prev
  <1>1. /\ h \notin Created
        /\ block' = [block EXCEPT ![h] = job[m]]
        /\ stored' = stored \cup {h}
        /\ last' = h /\ tip' = h /\ tipSlice' = "heap"
        /\ mined' = mined \cup {h}
        /\ job' = [job EXCEPT ![m] = Idle]
    BY DEF PutMined, Fresh, SetLast
  <1>2. job[m] \in Header /\ p \in stored /\ job[m] = Extend(p)
    BY DEF PutMined, TypeOK, JobsOnStored
  <1>3. /\ block' \in [Hash -> Header \cup {NoBlock}]
        /\ Created' = Created \cup {h}
        /\ \A g \in Created : /\ block'[g] = block[g]
                              /\ Height(g)' = Height(g)
                              /\ Extend(g)' = Extend(g)
        /\ block'[h] = job[m]
    BY <1>1, <1>2, CreateKeeps
  <1>4. TypeOK'
    BY <1>1, <1>3 DEF TypeOK, TipSlice
  <1>5. StoreOK'
    BY <1>1, <1>3 DEF StoreOK
  <1>6. JobsOnStored'
    BY <1>1, <1>3 DEF JobsOnStored, StoreOK, TypeOK
  <1>7. HeightIsDepth'
    BY <1>1, <1>2, CreateDepth DEF StoreOK
  <1>8. TipMatchesDb'
    BY <1>1 DEF TipMatchesDb
  <1>9. MinedOnStored'
    BY <1>1, <1>2, <1>3 DEF MinedOnStored, StoreOK
  <1>10. ReceivedNeverOutranksLast'
    BY <1>1 DEF ReceivedNeverOutranksLast
  <1>. QED
    BY <1>4, <1>5, <1>6, <1>7, <1>8, <1>9, <1>10

LEMMA RestartIInv ==
  ASSUME IInv, Restart
  PROVE  IInv'
  <1>. USE DEF IInv, Restart
  <1>1. Created' = Created
        /\ \A g \in Hash : Height(g)' = Height(g) /\ Extend(g)' = Extend(g)
    BY SameBlocks
  <1>2. TypeOK' /\ StoreOK' /\ JobsOnStored'
    BY <1>1 DEF TypeOK, StoreOK, JobsOnStored, TipSlice
  <1>3. TipMatchesDb' /\ MinedOnStored' /\ ReceivedNeverOutranksLast'
    BY <1>1 DEF TipMatchesDb, MinedOnStored, ReceivedNeverOutranksLast, TypeOK, StoreOK
  <1>. QED
    BY <1>2, <1>3, SameBlocks

-----------------------------------------------------------------------------
LEMMA NextIInv == IInv /\ [Next]_vars => IInv'
  <1>. SUFFICES ASSUME IInv, [Next]_vars PROVE IInv'
    OBVIOUS
  <1>1. CASE \E h, p \in Hash : PeerMines(h, p)
    BY <1>1, PeerMinesIInv
  <1>2. CASE \E h \in Hash : AddBlock(h)
    BY <1>2, AddBestIInv, AddSideIInv DEF AddBlock
  <1>3. CASE \E h \in Hash : AddBestFails(h)
    BY <1>3, AddBestFailsIInv
  <1>4. CASE WriteChainstate
    BY <1>4, WriteChainstateIInv
  <1>5. CASE \E m \in Miner : StartMining(m) \/ Abandon(m)
    BY <1>5, JobIInv DEF StartMining, Abandon, IInv, StoreOK
  <1>6. CASE \E m \in Miner, h \in Hash : Retarget(m, h)
    BY <1>6, JobIInv DEF Retarget
  <1>7. CASE \E m \in Miner, h \in Hash : PutMined(m, h)
    BY <1>7, PutMinedIInv
  <1>8. CASE Restart
    BY <1>8, RestartIInv
  <1>9. CASE UNCHANGED vars
    <2>1. UNCHANGED vars
      BY <1>9
    <2>2. TypeOK' /\ StoreOK' /\ HeightIsDepth'
      BY <2>1, SameBlocks DEF vars, IInv, TypeOK, StoreOK
    <2>3. JobsOnStored' /\ MinedOnStored'
      BY <2>1 DEF vars, IInv, JobsOnStored, MinedOnStored, Extend, Height
    <2>4. TipMatchesDb' /\ ReceivedNeverOutranksLast'
      BY <2>1 DEF vars, IInv, TipMatchesDb, ReceivedNeverOutranksLast, Created, Height
    <2>. QED
      BY <2>2, <2>3, <2>4 DEF IInv
  <1>. QED
    BY <1>1, <1>2, <1>3, <1>4, <1>5, <1>6, <1>7, <1>8, <1>9 DEF Next

LEMMA Invariance == Spec => []IInv
  BY InitIInv, NextIInv, PTL DEF Spec

(* The state of the store keeps its shape in every reachable state.        *)
THEOREM TypeCorrect == Spec => []TypeOK
  BY Invariance, PTL DEF IInv

(* The height in every block is its distance from the genesis block,       *)
(* however many miners are interrupted by however many received blocks.    *)
THEOREM HeightsAreDepths == Spec => []HeightIsDepth
  BY Invariance, PTL DEF IInv

(* bc.tip and the database agree up to the two exceptions the code has.    *)
THEOREM TipFollowsDb == Spec => []TipMatchesDb
  BY Invariance, PTL DEF IInv

(* A mined block never has a gap right below it.                           *)
THEOREM MinedBlocksOnStored == Spec => []MinedOnStored
  BY Invariance, PTL DEF IInv

(* A node that has mined nothing is on its highest block.                  *)
THEOREM ReceivedHighest == Spec => []ReceivedNeverOutranksLast
  BY Invariance, PTL DEF IInv

(* First seen wins.                                                        *)
THEOREM LastMoves == Spec => LastMovesUpOrMined
  <1>1. IInv /\ [Next]_vars
          => [last' # last => \/ Height(last)' > Height(last)
                              \/ last' \in mined' \ mined]_vars
    <2>. SUFFICES ASSUME IInv, Next, last' # last
                  PROVE  \/ Height(last)' > Height(last)
                         \/ last' \in mined' \ mined
      OBVIOUS
    <2>1. CASE \E h \in Hash : AddBest(h)
      BY <2>1, ExtendType DEF AddBest, SetLast, Height, IInv, StoreOK
    <2>2. CASE \E m \in Miner, h \in Hash : PutMined(m, h)
      <3>1. PICK m \in Miner, h \in Hash : PutMined(m, h)
        BY <2>2
      <3>2. h \notin mined
        BY <3>1 DEF PutMined, Fresh, IInv, MinedOnStored, StoreOK
      <3>. QED
        BY <3>1, <3>2 DEF PutMined, SetLast
    <2>. QED
      BY <2>1, <2>2 DEF Next, PeerMines, AddBlock, AddSide, AddBestFails,
         WriteChainstate, StartMining, Abandon, Retarget, Restart
  <1>. QED
    BY <1>1, Invariance, PTL DEF Spec, LastMovesUpOrMined
=============================================================================
