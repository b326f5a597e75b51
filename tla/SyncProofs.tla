------------------------------ MODULE SyncProofs ------------------------------
(* Block synchronisation, for any nodes, tree of blocks and events. *)
EXTENDS Sync, FiniteSetTheorems, SequenceTheorems, TLAPS

-----------------------------------------------------------------------------
(* Bags. *)

LEMMA BagPlus ==
  ASSUME NEW P, NEW Q, IsABag(P), IsABag(Q)
  PROVE  IsABag(P (+) Q) /\ BagToSet(P (+) Q) = BagToSet(P) \cup BagToSet(Q)
BY DEF IsABag, BagToSet, (+)

LEMMA BagMinus ==
  ASSUME NEW P, NEW Q, IsABag(P), IsABag(Q)
  PROVE  IsABag(P (-) Q) /\ BagToSet(P (-) Q) \subseteq BagToSet(P)
BY DEF IsABag, BagToSet, (-)

LEMMA BagOfSet ==
  ASSUME NEW S PROVE IsABag(SetToBag(S)) /\ BagToSet(SetToBag(S)) = S
BY DEF IsABag, BagToSet, SetToBag

LEMMA BagPart ==
  ASSUME NEW P, IsABag(P), NEW S \in SUBSET BagToSet(P)
  PROVE  IsABag([e \in S |-> P[e]]) /\ BagToSet([e \in S |-> P[e]]) = S
BY DEF IsABag, BagToSet

-----------------------------------------------------------------------------
(* Blocks. *)

ChainStep(chain, h) == IF h = 0 THEN <<h>> ELSE <<h>> \o chain[Prev[h]]
ChainDom(p)     == Block
ChainRank(p, h) == h
ChainDef(p, chain, h) == ChainStep(chain, h)
ChainRec == INSTANCE Recursion WITH Dom <- ChainDom, Rank <- ChainRank, Def <- ChainDef

LEMMA ChainValue == \A h \in Block : ChainFrom[h] = ChainStep(ChainFrom, h)
<1>1. ChainRec!Ranked(0) BY SyncAssumption DEF ChainRec!Ranked, ChainDom, ChainRank
<1>2. ChainRec!LooksDown(0)
  <2> SUFFICES ASSUME NEW f, NEW g, NEW h \in Block, \A j \in Block : j < h => f[j] = g[j]
               PROVE  ChainStep(f, h) = ChainStep(g, h)
    BY DEF ChainRec!LooksDown, ChainDom, ChainRank, ChainDef
  <2> QED BY SyncAssumption DEF ChainStep
<1>3. \E chain : chain = [h \in Block |-> ChainStep(chain, h)]
  BY <1>1, <1>2, ChainRec!FunctionExists DEF ChainDom, ChainDef
<1> DEFINE Twin == CHOOSE chain : chain = [h \in Block |-> ChainStep(chain, h)]
<1>4. ChainFrom = Twin BY DEF ChainFrom, ChainStep
<1>5. Twin = [h \in Block |-> ChainStep(Twin, h)] BY <1>3, Zenon
<1> QED BY <1>4, <1>5

\* What getblocks is answered with is a list of blocks, which is never empty.
LEMMA ChainBlocks == \A h \in Block : ChainFrom[h] \in Seq(Block) /\ Len(ChainFrom[h]) > 0
<1> DEFINE Good(h) == ChainFrom[h] \in Seq(Block) /\ Len(ChainFrom[h]) > 0
           T == {h \in Block : ~Good(h)}
<1>1. SUFFICES ASSUME T # {} PROVE FALSE OBVIOUS
<1>2. PICK h \in T : \A j \in T : h <= j
  <2>1. T \in SUBSET Nat BY SyncAssumption
  <2> HIDE DEF T
  <2> QED BY <1>1, <2>1, ChainRec!LeastNumber
<1>3. h \in Block /\ ChainFrom[h] = ChainStep(ChainFrom, h) BY ChainValue
<1>4. CASE h = 0
  <2>1. ChainFrom[h] = <<h>> BY <1>3, <1>4 DEF ChainStep
  <2>2. <<h>> \in Seq(Block) /\ Len(<<h>>) > 0 BY <1>3
  <2> QED BY <2>1, <2>2
<1>5. CASE h # 0
  <2>1. Prev[h] \in Block /\ Prev[h] < h /\ Prev[h] \in Nat /\ h \in Nat
    BY <1>3, <1>5, SyncAssumption
  <2>2. Prev[h] \notin T BY <1>2, <2>1
  <2>3. PICK s \in Seq(Block) : s = ChainFrom[Prev[h]] BY <2>1, <2>2
  <2>4. ChainFrom[h] = <<h>> \o s BY <1>3, <1>5, <2>3 DEF ChainStep
  <2>5. <<h>> \o s \in Seq(Block) /\ Len(<<h>> \o s) > 0 BY <1>3
  <2> QED BY <2>4, <2>5
<1> QED BY <1>4, <1>5

LEMMA HeightsNat == \A h \in Block : Height[h] \in Nat
<1> DEFINE T == {h \in Block : Height[h] \notin Nat}
<1>1. SUFFICES ASSUME T # {} PROVE FALSE OBVIOUS
<1>2. PICK h \in T : \A j \in T : h <= j
  <2>1. T \in SUBSET Nat BY SyncAssumption
  <2> HIDE DEF T
  <2> QED BY <1>1, <2>1, ChainRec!LeastNumber
<1>3. CASE h = 0 BY <1>3, SyncAssumption
<1>4. CASE h # 0
  <2>1. /\ Prev[h] \in Block /\ Prev[h] < h /\ Prev[h] \in Nat /\ h \in Nat
        /\ Height[h] = Height[Prev[h]] + 1
    BY <1>4, SyncAssumption
  <2>2. Prev[h] \notin T BY <1>2, <2>1
  <2> QED BY <2>1, <2>2
<1> QED BY <1>3, <1>4

\* A finite set of blocks has a highest one.
LEMMA HighestIn ==
  ASSUME NEW S \in SUBSET Block, IsFiniteSet(S), S # {}
  PROVE  Highest(S) \in S
<1>0. PICK f \in Seq(S) : \A h \in S : \E i \in 1 .. Len(f) : f[i] = h BY DEF IsFiniteSet
<1>1. PICK n \in Nat : n = Len(f) /\ \A i \in 1 .. n : f[i] \in S BY <1>0
<1> DEFINE Top(k) == \E h \in S : \A i \in 1 .. k : Height[h] >= Height[f[i]]
           T == {k \in 0 .. n : ~Top(k)}
<1>h. \A i \in 1 .. n : f[i] \in S /\ Height[f[i]] \in Nat
  <2> TAKE i \in 1 .. n
  <2>1. f[i] \in S BY <1>1
  <2> QED BY <2>1, HeightsNat
<1>2. Top(n)
  <2>1. SUFFICES ASSUME ~Top(n) PROVE FALSE OBVIOUS
  <2>2. PICK k \in T : \A j \in T : k <= j
    <3>1. T \in SUBSET Nat OBVIOUS
    <3>2. n \in 0 .. n OBVIOUS
    <3>3. T # {}
      <4> HIDE DEF Top
      <4> QED BY <2>1, <3>2
    <3> HIDE DEF T
    <3> QED BY <3>1, <3>3, ChainRec!LeastNumber
  <2>3. k \in 0 .. n /\ ~Top(k) /\ \A j \in 0 .. n : j < k => Top(j)
    <3> HIDE DEF Top
    <3> QED BY <2>2
  <2> HIDE DEF T
  <2>4. k # 0 BY <2>3
  <2>5. k \in Nat /\ k - 1 \in 0 .. n /\ k - 1 < k /\ k \in 1 .. n BY <2>3, <2>4
  <2>6. Top(k - 1)
    <3> HIDE DEF Top
    <3> QED BY <2>3, <2>5
  <2>7. PICK h \in S : \A i \in 1 .. k - 1 : Height[h] >= Height[f[i]] BY <2>6
  <2>8. Height[h] \in Nat /\ f[k] \in S /\ Height[f[k]] \in Nat BY <1>h, <2>5, HeightsNat
  <2>9. \A i \in 1 .. k : i \in 1 .. n /\ (i = k \/ i \in 1 .. k - 1) BY <2>5
  <2>10. Height[h] >= Height[f[k]] => \A i \in 1 .. k : Height[h] >= Height[f[i]]
    BY <2>7, <2>9
  <2>11. Height[f[k]] > Height[h] => \A i \in 1 .. k : Height[f[k]] >= Height[f[i]]
    BY <1>h, <2>7, <2>8, <2>9
  <2> QED BY <2>3, <2>8, <2>10, <2>11
<1>3. \E h \in S : \A g \in S : Height[h] >= Height[g] BY <1>0, <1>1, <1>2
<1> QED BY <1>3 DEF Highest

-----------------------------------------------------------------------------
(* The loop of handleInventory. *)

KeepStep(list, hash, kept, S) ==
  IF S = {} THEN <<>>
  ELSE IF list[Max(S)] = hash THEN kept[S \ {Max(S)}]
       ELSE Append(kept[S \ {Max(S)}], list[Max(S)])

KeepDom(p)     == SUBSET DOMAIN p[1]
KeepRank(p, S) == IF S = {} THEN 0 ELSE Max(S)
KeepDef(p, kept, S) == KeepStep(p[1], p[2], kept, S)
KeepRec == INSTANCE Recursion WITH Dom <- KeepDom, Rank <- KeepRank, Def <- KeepDef

Kept(list, hash) ==
  CHOOSE kept : kept = [S \in SUBSET DOMAIN list |-> KeepStep(list, hash, kept, S)]

LEMMA LastPosition ==
  ASSUME NEW n \in Nat, NEW S \in SUBSET (1 .. n), S # {}
  PROVE  Max(S) \in S /\ \A i \in S : i <= Max(S)
<1> DEFINE T == {n - i : i \in S}
<1>1. T \in SUBSET Nat /\ T # {}
  <2>1. \A i \in S : n - i \in Nat
    <3> TAKE i \in S
    <3>1. i \in Int /\ i <= n OBVIOUS
    <3> QED BY <3>1
  <2> QED BY <2>1
<1>2. PICK t \in T : \A u \in T : t <= u
  <2> HIDE DEF T
  <2> QED BY <1>1, ChainRec!LeastNumber
<1>3. PICK i \in S : t = n - i BY <1>2
<1>4. \A j \in S : i >= j
  <2> TAKE j \in S
  <2>1. n - i <= n - j BY <1>2, <1>3
  <2> QED BY <2>1
<1>5. \E m \in S : \A j \in S : m >= j BY <1>4
<1>6. Max(S) \in S /\ \A j \in S : Max(S) >= j BY <1>5 DEF Max
<1> QED BY <1>6

LEMMA KeptValue ==
  ASSUME NEW list \in Seq(Block), NEW hash
  PROVE  /\ Others(list, hash) = Kept(list, hash)[DOMAIN list]
         /\ \A S \in SUBSET DOMAIN list :
              Kept(list, hash)[S] = KeepStep(list, hash, Kept(list, hash), S)
<1> DEFINE p == <<list, hash>>
<1>1. p[1] = list /\ p[2] = hash OBVIOUS
<1>2. Len(list) \in Nat /\ DOMAIN list = 1 .. Len(list) OBVIOUS
<1> HIDE DEF p
<1>3. \A X \in KeepDom(p) :
        X # {} => Max(X) \in X /\ (\A i \in X : i <= Max(X)) /\ Max(X) \in 1 .. Len(list)
  BY <1>1, <1>2, LastPosition DEF KeepDom
<1>4. KeepRec!Ranked(p) BY <1>3 DEF KeepRec!Ranked, KeepRank
<1>5. KeepRec!LooksDown(p)
  <2> SUFFICES ASSUME NEW f, NEW g, NEW X \in KeepDom(p),
                      \A Y \in KeepDom(p) : KeepRank(p, Y) < KeepRank(p, X) => f[Y] = g[Y]
               PROVE  KeepDef(p, f, X) = KeepDef(p, g, X)
    BY DEF KeepRec!LooksDown
  <2>1. CASE X = {} BY <2>1 DEF KeepDef, KeepStep
  <2>2. CASE X # {}
    <3> DEFINE Y == X \ {Max(X)}
    <3>1. Y \in KeepDom(p) BY DEF KeepDom
    <3>2. KeepRank(p, Y) < KeepRank(p, X)
      <4>1. CASE Y = {} BY <1>3, <2>2, <4>1 DEF KeepRank
      <4>2. CASE Y # {}
        <5>1. Max(Y) \in Y BY <1>3, <3>1, <4>2
        <5>2. Max(Y) # Max(X) /\ Max(Y) <= Max(X) /\ Max(Y) \in Nat /\ Max(X) \in Nat
          BY <1>3, <2>2, <5>1, <3>1
        <5> QED BY <2>2, <4>2, <5>2 DEF KeepRank
      <4> QED BY <4>1, <4>2
    <3>3. f[Y] = g[Y] BY <3>1, <3>2
    <3> QED BY <2>2, <3>3 DEF KeepDef, KeepStep
  <2> QED BY <2>1, <2>2
<1>6. \E kept : kept = [X \in KeepDom(p) |-> KeepDef(p, kept, X)]
  BY <1>4, <1>5, KeepRec!FunctionExists
<1>7. \E kept : kept = [X \in SUBSET DOMAIN list |-> KeepStep(list, hash, kept, X)]
  BY <1>6, <1>1 DEF KeepDom, KeepDef
<1>8. Kept(list, hash) =
        [X \in SUBSET DOMAIN list |-> KeepStep(list, hash, Kept(list, hash), X)]
  BY <1>7, Zenon DEF Kept
<1>9. Others(list, hash) = Kept(list, hash)[DOMAIN list]
  BY DEF Others, FoldLeft, MapThenFoldSet, Kept, KeepStep
<1> QED BY <1>8, <1>9

\* What is left of a list of blocks is a list of blocks.
LEMMA OthersBlocks ==
  ASSUME NEW list \in Seq(Block), NEW hash PROVE Others(list, hash) \in Seq(Block)
<1> DEFINE Good(k) == Kept(list, hash)[1 .. k] \in Seq(Block)
           T == {k \in 0 .. Len(list) : ~Good(k)}
<1>1. Len(list) \in Nat /\ DOMAIN list = 1 .. Len(list) /\ Len(list) \in 0 .. Len(list) OBVIOUS
<1>2. Good(Len(list))
  <2>1. SUFFICES ASSUME T # {} PROVE FALSE BY <1>1
  <2>2. PICK k \in T : \A j \in T : k <= j
    <3>1. T \in SUBSET Nat OBVIOUS
    <3> HIDE DEF T
    <3> QED BY <2>1, <3>1, ChainRec!LeastNumber
  <2>3. 1 .. k \in SUBSET DOMAIN list
    <3>1. \A i \in 1 .. k : i \in 1 .. Len(list) OBVIOUS
    <3> QED BY <1>1, <3>1
  <2>4. Kept(list, hash)[1 .. k] = KeepStep(list, hash, Kept(list, hash), 1 .. k)
    BY <2>3, KeptValue
  <2>5. CASE k = 0
    <3>1. 1 .. 0 = {} OBVIOUS
    <3>2. Kept(list, hash)[1 .. 0] = <<>> BY <2>4, <2>5, <3>1 DEF KeepStep
    <3>3. <<>> \in Seq(Block) OBVIOUS
    <3> QED BY <2>5, <3>2, <3>3
  <2>6. CASE k # 0
    <3> DEFINE S == 1 .. k
    <3>1. k \in Nat /\ k \in S /\ S # {} /\ S \ {k} = 1 .. (k - 1) /\ k \in 1 .. Len(list)
      BY <2>6
    <3>2. Max(S) = k
      <4>1. Max(S) \in S /\ \A i \in S : i <= Max(S) BY <3>1, LastPosition
      <4> QED BY <3>1, <4>1
    <3>3. PICK s \in Seq(Block) : s = Kept(list, hash)[1 .. (k - 1)]
      <4>1. k - 1 \in 0 .. Len(list) /\ k - 1 < k BY <2>6
      <4> QED BY <2>2, <4>1
    <3> HIDE DEF S
    <3>4. Kept(list, hash)[S] = IF list[k] = hash THEN s ELSE Append(s, list[k])
      BY <2>4, <3>1, <3>2, <3>3 DEF KeepStep, S
    <3>5. list[k] \in Block BY <3>1
    <3>6. Append(s, list[k]) \in Seq(Block) BY <3>5
    <3>7. Kept(list, hash)[S] \in Seq(Block) BY <3>4, <3>6
    <3> QED BY <3>7 DEF S
  <2> QED BY <2>5, <2>6
<1> QED BY <1>1, <1>2, KeptValue

-----------------------------------------------------------------------------
(* The inductive invariant: what is on its way makes sense where it arrives. *)

WellFormed(m) ==
  /\ m.from \in Node /\ m.to \in Node
  /\ m.type = "inv" => m.items \in Seq(Block) /\ Len(m.items) > 0
  /\ m.type \in {"getdata", "block"} => m.hash \in Block

Routine == [node : Node, hash : Block, read : BOOLEAN, rest : Seq(Block)]

Stores ==
  /\ stored \in [Node -> SUBSET Block] /\ last \in [Node -> Block]
  /\ \A n \in Node : last[n] \in stored[n]
Lists == transit \in [Node -> Seq(Block)]
Processes == phase \in [Node -> Phases] /\ events \in 0 .. MaxEvents
Messages == IsABag(msgs) /\ \A m \in BagToSet(msgs) : WellFormed(m)
Routines == IsABag(invs) /\ \A i \in BagToSet(invs) : i \in Routine
DeadHaveNothing ==
  \A n \in Node : ~Up(n) => transit[n] = <<>> /\ \A i \in BagToSet(invs) : i.node # n

SyncInv == Stores /\ Lists /\ Processes /\ Messages /\ Routines /\ DeadHaveNothing

LEMMA SyncInit == Init => SyncInv
<1> SUFFICES ASSUME Init PROVE SyncInv OBVIOUS
<1>1. Stores
  <2>1. stored \in [Node -> SUBSET Block] /\ \A n \in Node : 0 \in stored[n] /\ IsFiniteSet(stored[n])
    BY SyncAssumption DEF Init
  <2>2. \A n \in Node : Highest(stored[n]) \in stored[n] /\ Highest(stored[n]) \in Block
    <3> TAKE n \in Node
    <3>1. PICK S \in SUBSET Block : S = stored[n] /\ IsFiniteSet(S) /\ S # {} BY <2>1
    <3>2. Highest(S) \in S BY <3>1, HighestIn
    <3> QED BY <3>1, <3>2
  <2>3. last = [n \in Node |-> Highest(stored[n])] BY DEF Init
  <2> QED BY <2>1, <2>2, <2>3 DEF Stores
<1>2. Lists BY DEF Init, Lists
<1>3. Processes BY SyncAssumption DEF Init, Processes, Phases
<1>4. IsABag(EmptyBag) /\ BagToSet(EmptyBag) = {} BY BagOfSet DEF EmptyBag
<1>5. Messages /\ Routines BY <1>4 DEF Init, Messages, Routines
<1>6. DeadHaveNothing BY <1>4 DEF Init, DeadHaveNothing
<1> QED BY <1>1, <1>2, <1>3, <1>5, <1>6 DEF SyncInv

\* Messages and goroutines come, go and are replaced.
LEMMA Sent ==
  ASSUME NEW P, NEW Q, IsABag(P), IsABag(Q),
         \A m \in BagToSet(P) : WellFormed(m), \A m \in BagToSet(Q) : WellFormed(m)
  PROVE  IsABag(P (+) Q) /\ \A m \in BagToSet(P (+) Q) : WellFormed(m)
BY BagPlus

LEMMA Taken ==
  ASSUME NEW P, NEW m, IsABag(P)
  PROVE  IsABag(P (-) One(m)) /\ BagToSet(P (-) One(m)) \subseteq BagToSet(P)
BY BagMinus, BagOfSet DEF One

LEMMA Answered ==
  ASSUME NEW P, NEW Q, NEW m, NEW o, IsABag(P), \A x \in BagToSet(P) : WellFormed(x),
         (WellFormed(o) /\ Q = One(o)) \/ Q = EmptyBag
  PROVE  /\ IsABag((P (-) One(m)) (+) Q)
         /\ \A x \in BagToSet((P (-) One(m)) (+) Q) : WellFormed(x)
<1>1. IsABag(Q) /\ \A x \in BagToSet(Q) : WellFormed(x)
  BY BagOfSet DEF One, EmptyBag
<1>2. PICK R : R = P (-) One(m) OBVIOUS
<1>3. IsABag(R) /\ \A x \in BagToSet(R) : WellFormed(x) BY <1>2, Taken
<1> QED BY <1>1, <1>2, <1>3, Sent

LEMMA Copies ==
  ASSUME NEW m, \A p \in Node : WellFormed([m EXCEPT !.to = p])
  PROVE  IsABag(ToAll(m)) /\ \A x \in BagToSet(ToAll(m)) : WellFormed(x)
<1> DEFINE S == {[m EXCEPT !.to = p] : p \in {q \in Node : Port[q] # Port[m.from]}}
<1>1. \A x \in S : WellFormed(x) OBVIOUS
<1>2. ToAll(m) = SetToBag(S) BY DEF ToAll
<1> HIDE DEF S
<1> QED BY <1>1, <1>2, BagOfSet

LEMMA VersionForm ==
  ASSUME NEW n \in Node PROVE \A p : \A q \in Node : WellFormed([Version(n, p) EXCEPT !.to = q])
BY DEF Version, WellFormed

LEMMA InvForm ==
  ASSUME NEW n \in Node, NEW h \in Block
  PROVE  \A p : \A q \in Node : WellFormed([Inv(n, p, <<h>>) EXCEPT !.to = q])
<1>1. <<h>> \in Seq(Block) /\ Len(<<h>>) > 0 OBVIOUS
<1> QED BY <1>1 DEF Inv, WellFormed

LEMMA DiesStays ==
  ASSUME SyncInv, NEW n \in Node, NEW P, IsABag(P), \A m \in BagToSet(P) : WellFormed(m),
         Dies(n, P)
  PROVE  SyncInv'
<1> DEFINE J == {j \in BagToSet(invs) : j.node # n}
<1>1. /\ phase' = [phase EXCEPT ![n] = "down"] /\ transit' = [transit EXCEPT ![n] = <<>>]
      /\ invs' = [i \in J |-> invs[i]] /\ UNCHANGED <<stored, last, events>>
  BY DEF Dies, chainVars
<1>2. PICK lost : msgs' = [m \in BagToSet(P) \ lost |-> P[m]] BY DEF Dies
<1>3. Messages'
  <2> DEFINE S == BagToSet(P) \ lost
  <2>1. S \in SUBSET BagToSet(P) OBVIOUS
  <2>2. msgs' = [m \in S |-> P[m]] BY <1>2
  <2>3. IsABag(msgs') /\ BagToSet(msgs') = S
    <3> HIDE DEF S
    <3> QED BY <2>1, <2>2, BagPart
  <2>4. \A m \in BagToSet(msgs') : WellFormed(m) BY <2>3
  <2> QED BY <2>3, <2>4 DEF Messages
<1>4. IsABag(invs') /\ BagToSet(invs') = J
  <2>1. J \in SUBSET BagToSet(invs) OBVIOUS
  <2> HIDE DEF J
  <2> QED BY <1>1, <2>1, BagPart DEF SyncInv, Routines
<1>5. Routines' BY <1>4 DEF SyncInv, Routines
<1>6. Stores' BY <1>1 DEF SyncInv, Stores
<1>7. Lists'
  <2>1. <<>> \in Seq(Block) OBVIOUS
  <2> QED BY <1>1, <2>1 DEF SyncInv, Lists
<1>8. Processes' BY <1>1 DEF SyncInv, Processes, Phases
<1>9. DeadHaveNothing'
  <2> SUFFICES ASSUME NEW k \in Node, phase'[k] \in {"new", "down"}
               PROVE  transit'[k] = <<>> /\ \A i \in BagToSet(invs') : i.node # k
    BY DEF DeadHaveNothing, Up
  <2>1. CASE k = n
    <3>1. transit'[n] = <<>> BY <1>1 DEF SyncInv, Lists
    <3> QED BY <1>4, <2>1, <3>1
  <2>2. CASE k # n
    <3>1. phase'[k] = phase[k] /\ transit'[k] = transit[k]
      BY <1>1, <2>2 DEF SyncInv, Processes, Lists
    <3>2. transit[k] = <<>> /\ \A i \in BagToSet(invs) : i.node # k
      BY <3>1 DEF SyncInv, DeadHaveNothing, Up
    <3> QED BY <1>4, <3>1, <3>2
  <2> QED BY <2>1, <2>2
<1> QED BY <1>3, <1>5, <1>6, <1>7, <1>8, <1>9 DEF SyncInv

LEMMA OpenedStays ==
  ASSUME SyncInv, NEW n \in Node, Opened(n), UNCHANGED events
  PROVE  Processes' /\ \A k \in Node : Up(k) => Up(k)'
<1>1. phase' = [phase EXCEPT ![n] = IF @ = "listening" THEN "open" ELSE @] BY DEF Opened
<1>2. phase \in [Node -> Phases] /\ "open" \in Phases BY DEF SyncInv, Processes, Phases
<1>3. phase' \in [Node -> Phases] BY <1>1, <1>2
<1>4. \A k \in Node : phase'[k] = IF k = n /\ phase[k] = "listening" THEN "open" ELSE phase[k]
  BY <1>1, <1>2
<1> QED BY <1>3, <1>4 DEF Up, SyncInv, Processes

\* A process that runs goes on, with the same lists and goroutines.
LEMMA AliveStays ==
  ASSUME SyncInv, \A k \in Node : Up(k) => Up(k)', UNCHANGED <<transit, invs>>
  PROVE  DeadHaveNothing' /\ Lists' /\ Routines'
BY DEF SyncInv, DeadHaveNothing, Lists, Routines

LEMMA StartStays ==
  ASSUME SyncInv, NEW n \in Node, Start(n) \/ Open(n) \/ Greet(n) \/ CheckUpdate(n)
  PROVE  SyncInv'
<1>1. CASE Start(n)
  <2>1. /\ phase' = [phase EXCEPT ![n] = "listening"] /\ events' \in {events, events + 1}
        /\ events' = events \/ events < MaxEvents
        /\ UNCHANGED <<stored, last, transit, msgs, invs>>
    BY <1>1 DEF Start, Count, chainVars
  <2>2. phase \in [Node -> Phases] /\ "listening" \in Phases BY DEF SyncInv, Processes, Phases
  <2>3. Processes'
    <3>1. phase' \in [Node -> Phases] BY <2>1, <2>2
    <3>2. events' \in 0 .. MaxEvents BY <2>1, SyncAssumption DEF SyncInv, Processes
    <3> QED BY <3>1, <3>2 DEF Processes
  <2>4. \A k \in Node : Up(k) => Up(k)' BY <2>1, <2>2 DEF Up
  <2>5. DeadHaveNothing' /\ Lists' /\ Routines' BY <2>1, <2>4, AliveStays
  <2>6. Stores' /\ Messages' BY <2>1 DEF SyncInv, Stores, Messages
  <2> QED BY <2>3, <2>5, <2>6 DEF SyncInv
<1>2. CASE Open(n)
  <2>1. Opened(n) /\ UNCHANGED <<stored, last, transit, msgs, invs, events>>
    BY <1>2 DEF Open, chainVars
  <2>2. Processes' /\ \A k \in Node : Up(k) => Up(k)' BY <2>1, OpenedStays
  <2>3. DeadHaveNothing' /\ Lists' /\ Routines' BY <2>1, <2>2, AliveStays
  <2>4. Stores' /\ Messages' BY <2>1 DEF SyncInv, Stores, Messages
  <2> QED BY <2>2, <2>3, <2>4 DEF SyncInv
<1> DEFINE out == ToAll(Version(n, "all"))
<1>v. IsABag(out) /\ \A x \in BagToSet(out) : WellFormed(x)
  <2>1. PICK m : m = Version(n, "all") OBVIOUS
  <2>2. \A p \in Node : WellFormed([m EXCEPT !.to = p]) BY <2>1, VersionForm
  <2>3. IsABag(ToAll(m)) /\ \A x \in BagToSet(ToAll(m)) : WellFormed(x) BY <2>2, Copies
  <2> QED BY <2>1, <2>3
<1>m. ASSUME msgs' = msgs (+) out PROVE Messages'
  <2> HIDE DEF out
  <2>1. IsABag(msgs (+) out) /\ \A x \in BagToSet(msgs (+) out) : WellFormed(x)
    BY <1>v, Sent DEF SyncInv, Messages
  <2> QED BY <1>m, <2>1 DEF Messages
<1>3. CASE Greet(n)
  <2>1. /\ phase' = [phase EXCEPT ![n] = "running"] /\ phase[n] = "open" /\ msgs' = msgs (+) out
        /\ UNCHANGED <<stored, last, transit, invs, events>>
    BY <1>3 DEF Greet, chainVars
  <2>2. phase \in [Node -> Phases] /\ "running" \in Phases BY DEF SyncInv, Processes, Phases
  <2> HIDE DEF out
  <2>3. Processes' /\ \A k \in Node : Up(k) => Up(k)'
    BY <2>1, <2>2 DEF Processes, Up, SyncInv
  <2>4. DeadHaveNothing' /\ Lists' /\ Routines' BY <2>1, <2>3, AliveStays
  <2>5. Stores' BY <2>1 DEF SyncInv, Stores
  <2> QED BY <1>m, <2>1, <2>3, <2>4, <2>5 DEF SyncInv
<1>4. CASE CheckUpdate(n)
  <2>1. /\ Opened(n) /\ Count /\ msgs' = msgs (+) out
        /\ UNCHANGED <<stored, last, transit, invs>>
    BY <1>4 DEF CheckUpdate, chainVars
  <2> HIDE DEF out
  <2>2. phase' = [phase EXCEPT ![n] = IF @ = "listening" THEN "open" ELSE @] BY <2>1 DEF Opened
  <2>3. phase \in [Node -> Phases] /\ "open" \in Phases BY DEF SyncInv, Processes, Phases
  <2>4. phase' \in [Node -> Phases] BY <2>2, <2>3
  <2>5. \A k \in Node : Up(k) => Up(k)' BY <2>2, <2>3 DEF Up
  <2>6. events' \in 0 .. MaxEvents BY <2>1, SyncAssumption DEF Count, SyncInv, Processes
  <2>7. DeadHaveNothing' /\ Lists' /\ Routines' BY <2>1, <2>5, AliveStays
  <2>8. Stores' BY <2>1 DEF SyncInv, Stores
  <2> QED BY <1>m, <2>1, <2>4, <2>6, <2>7, <2>8 DEF SyncInv, Processes
<1> QED BY <1>1, <1>2, <1>3, <1>4

LEMMA MineStays ==
  ASSUME SyncInv, NEW n \in Node, NEW h \in Block, Mine(n, h) PROVE SyncInv'
<1>1. /\ stored' = [stored EXCEPT ![n] = @ \cup {h}] /\ last' = [last EXCEPT ![n] = h]
      /\ msgs' = msgs (+) ToAll(Inv(n, "all", <<h>>)) /\ Count
      /\ UNCHANGED <<transit, phase, invs>>
  BY DEF Mine
<1>2. Stores' BY <1>1 DEF SyncInv, Stores
<1>3. Processes' BY <1>1, SyncAssumption DEF SyncInv, Processes, Count
<1>4. DeadHaveNothing' /\ Lists' /\ Routines' BY <1>1, AliveStays DEF Up
<1>5. Messages'
  <2>1. PICK m : m = Inv(n, "all", <<h>>) OBVIOUS
  <2>2. \A p \in Node : WellFormed([m EXCEPT !.to = p]) BY <2>1, InvForm
  <2>3. IsABag(ToAll(m)) /\ \A x \in BagToSet(ToAll(m)) : WellFormed(x) BY <2>2, Copies
  <2>4. PICK out : out = ToAll(m) OBVIOUS
  <2>5. IsABag(msgs (+) out) /\ \A x \in BagToSet(msgs (+) out) : WellFormed(x)
    BY <2>3, <2>4, Sent DEF SyncInv, Messages
  <2> QED BY <1>1, <2>1, <2>4, <2>5 DEF Messages
<1> QED BY <1>2, <1>3, <1>4, <1>5 DEF SyncInv

LEMMA EndsStay ==
  ASSUME SyncInv
  PROVE  /\ \A n \in Node : Crash(n) => SyncInv'
         /\ \A m \in BagToSet(msgs) :
              CutShort(m) \/ handleGetBlocksPanics(m) \/ handleTooEarly(m) => SyncInv'
<1>1. ASSUME NEW n \in Node, Crash(n) PROVE SyncInv'
  BY <1>1, DiesStays DEF Crash, SyncInv, Messages
<1>2. ASSUME NEW m \in BagToSet(msgs), Dies(m.to, msgs (-) One(m)) PROVE SyncInv'
  <2>1. m.to \in Node BY DEF SyncInv, Messages, WellFormed
  <2>2. PICK P : P = msgs (-) One(m) OBVIOUS
  <2>3. IsABag(P) /\ \A x \in BagToSet(P) : WellFormed(x)
    BY <2>2, Taken DEF SyncInv, Messages
  <2> QED BY <1>2, <2>1, <2>2, <2>3, DiesStays
<1> QED BY <1>1, <1>2 DEF CutShort, handleGetBlocksPanics, handleTooEarly

\* A handler that only answers.
LEMMA AnswerStays ==
  ASSUME SyncInv, NEW m \in BagToSet(msgs), NEW out, NEW o, Reply(m, out),
         (WellFormed(o) /\ out = One(o)) \/ out = EmptyBag
  PROVE  Messages'
BY Answered DEF Reply, SyncInv, Messages

LEMMA AnswersStay ==
  ASSUME SyncInv, NEW m \in BagToSet(msgs),
         handleVersion(m) \/ handleGetBlocks(m) \/ handleGetData(m) \/ Refused(m)
  PROVE  SyncInv'
<1>1. WellFormed(m) BY DEF SyncInv, Messages
<1>2. m.from \in Node /\ m.to \in Node BY <1>1 DEF WellFormed
<1>3. ASSUME UNCHANGED <<stored, last, transit, phase, invs, events>>, Messages' PROVE SyncInv'
  <2>1. DeadHaveNothing' /\ Lists' /\ Routines' BY <1>3, AliveStays DEF Up
  <2> QED BY <1>3, <2>1 DEF SyncInv, Stores, Processes
<1>4. CASE handleVersion(m)
  <2> DEFINE mine == Height[last[m.to]]
             out == IF mine < m.height THEN One(GetBlocks(m.to, m.from))
                    ELSE IF mine > m.height THEN One(Version(m.to, m.from)) ELSE EmptyBag
  <2>1. Reply(m, out) /\ Opened(m.to) /\ UNCHANGED <<stored, last, transit, invs, events>>
    BY <1>4 DEF handleVersion, chainVars
  <2>2. WellFormed(GetBlocks(m.to, m.from)) /\ WellFormed(Version(m.to, m.from))
    BY <1>2 DEF WellFormed, GetBlocks, Version
  <2>3. \E o : (WellFormed(o) /\ out = One(o)) \/ out = EmptyBag BY <2>2
  <2> HIDE DEF out
  <2>4. Messages' BY <2>1, <2>3, AnswerStays
  <2>5. Processes' /\ \A k \in Node : Up(k) => Up(k)' BY <1>2, <2>1, OpenedStays
  <2>6. DeadHaveNothing' /\ Lists' /\ Routines' BY <2>1, <2>5, AliveStays
  <2>7. Stores' BY <2>1 DEF SyncInv, Stores
  <2> QED BY <2>4, <2>5, <2>6, <2>7 DEF SyncInv
<1>5. CASE handleGetBlocks(m)
  <2> DEFINE o == Inv(m.to, m.from, ChainFrom[last[m.to]])
  <2>1. Reply(m, One(o)) /\ UNCHANGED <<stored, last, transit, phase, invs, events>>
    BY <1>5 DEF handleGetBlocks, chainVars
  <2>2. last[m.to] \in Block BY <1>2 DEF SyncInv, Stores
  <2>3. WellFormed(o) BY <1>2, <2>2, ChainBlocks DEF WellFormed, Inv
  <2> HIDE DEF o
  <2>4. Messages' BY <2>1, <2>3, AnswerStays
  <2> QED BY <1>3, <2>1, <2>4
<1>6. CASE handleGetData(m)
  <2> DEFINE o == BlockMsg(m.to, m.from, m.hash)
             out == IF m.hash \in stored[m.to] THEN One(o) ELSE EmptyBag
  <2>1. Reply(m, out) /\ UNCHANGED <<stored, last, transit, phase, invs, events>>
        /\ m.type = "getdata"
    BY <1>6 DEF handleGetData, chainVars, Arrives
  <2>2. WellFormed(o) BY <1>1, <1>2, <2>1 DEF WellFormed, BlockMsg
  <2> HIDE DEF o
  <2>3. Messages' BY <2>1, <2>2, AnswerStays
  <2> QED BY <1>3, <2>1, <2>3
<1>7. CASE Refused(m)
  <2>1. Reply(m, EmptyBag) /\ UNCHANGED <<stored, last, transit, phase, invs, events>>
    BY <1>7 DEF Refused, chainVars
  <2>2. Messages' BY <2>1, AnswerStays
  <2> QED BY <1>3, <2>1, <2>2
<1> QED BY <1>4, <1>5, <1>6, <1>7

\* One list changes, that of a process which runs, and goroutines of that
\* process come or go.
LEMMA ListChanges ==
  ASSUME SyncInv, NEW n \in Node, Up(n), NEW list \in Seq(Block),
         transit' = [transit EXCEPT ![n] = list],
         \A k \in Node : Up(k) => Up(k)',
         IsABag(invs'), \A i \in BagToSet(invs') : i \in Routine,
         \A i \in BagToSet(invs') : i.node = n \/ i \in BagToSet(invs)
  PROVE  DeadHaveNothing' /\ Lists' /\ Routines'
<1>1. Lists' BY DEF SyncInv, Lists
<1>2. Routines' BY DEF Routines
<1>3. DeadHaveNothing'
  <2> SUFFICES ASSUME NEW k \in Node, ~Up(k)'
               PROVE  transit'[k] = <<>> /\ \A i \in BagToSet(invs') : i.node # k
    BY DEF DeadHaveNothing
  <2>1. ~Up(k) /\ k # n OBVIOUS
  <2>2. transit'[k] = transit[k] BY <2>1 DEF SyncInv, Lists
  <2>3. transit[k] = <<>> /\ \A i \in BagToSet(invs) : i.node # k
    BY <2>1 DEF SyncInv, DeadHaveNothing
  <2> QED BY <2>1, <2>2, <2>3
<1> QED BY <1>1, <1>2, <1>3

LEMMA InventoryStays ==
  ASSUME SyncInv, NEW m \in BagToSet(msgs), handleInventory(m) PROVE SyncInv'
<1> DEFINE n == m.to
           first == Head(m.items)
           i == [node |-> n, hash |-> first, read |-> FALSE, rest |-> <<>>]
<1>1. /\ Up(n) /\ m.type = "inv" /\ transit' = [transit EXCEPT ![n] = m.items]
      /\ invs' = invs (+) One(i) /\ Reply(m, One(GetData(n, m.from, first)))
      /\ UNCHANGED <<stored, last, phase, events>>
  BY DEF handleInventory, Arrives, chainVars
<1>2. WellFormed(m) BY DEF SyncInv, Messages
<1>3. /\ m.from \in Node /\ n \in Node /\ m.items \in Seq(Block) /\ Len(m.items) > 0
  BY <1>1, <1>2 DEF WellFormed
<1>4. first \in Block
  <2>1. PICK s \in Seq(Block) : s = m.items /\ Len(s) > 0 BY <1>3
  <2>2. Head(s) = s[1] /\ 1 \in 1 .. Len(s) BY <2>1
  <2>3. s[1] \in Block BY <2>1, <2>2
  <2> QED BY <2>1, <2>2, <2>3
<1> HIDE DEF first
<1>5. i \in Routine /\ i.node = n
  <2>1. <<>> \in Seq(Block) OBVIOUS
  <2> QED BY <1>3, <1>4, <2>1 DEF Routine
<1>6. Messages'
  <2> DEFINE o == GetData(n, m.from, first)
  <2>1. WellFormed(o) BY <1>3, <1>4 DEF WellFormed, GetData
  <2>2. Reply(m, One(o)) BY <1>1
  <2> HIDE DEF o
  <2> QED BY <2>1, <2>2, AnswerStays
<1> HIDE DEF i
<1>7. IsABag(invs') /\ BagToSet(invs') = BagToSet(invs) \cup {i}
  <2>1. IsABag(One(i)) /\ BagToSet(One(i)) = {i} BY BagOfSet DEF One
  <2> QED BY <1>1, <2>1, BagPlus DEF SyncInv, Routines
<1>8. /\ \A j \in BagToSet(invs') : j \in Routine
      /\ \A j \in BagToSet(invs') : j.node = n \/ j \in BagToSet(invs)
  BY <1>5, <1>7 DEF SyncInv, Routines
<1>9. \A k \in Node : Up(k) => Up(k)' BY <1>1 DEF Up
<1>10. DeadHaveNothing' /\ Lists' /\ Routines'
  BY <1>1, <1>3, <1>7, <1>8, <1>9, ListChanges
<1>11. Stores' /\ Processes' BY <1>1 DEF SyncInv, Stores, Processes
<1> QED BY <1>6, <1>10, <1>11 DEF SyncInv

LEMMA RoutinesStay ==
  ASSUME SyncInv, NEW i \in BagToSet(invs), InventoryRead(i) \/ InventoryWrite(i)
  PROVE  SyncInv'
<1>1. i \in Routine BY DEF SyncInv, Routines
<1>2. i.node \in Node /\ i.rest \in Seq(Block) BY <1>1 DEF Routine
<1>3. Up(i.node) BY <1>2 DEF SyncInv, DeadHaveNothing
<1>4. UNCHANGED <<stored, last, phase, msgs, events>>
  BY DEF InventoryRead, InventoryWrite, chainVars
<1>5. Stores' /\ Processes' /\ Messages' BY <1>4 DEF SyncInv, Stores, Processes, Messages
<1>6. \A k \in Node : Up(k) => Up(k)' BY <1>4 DEF Up
<1> DEFINE rest == Others(transit[i.node], i.hash)
           j == [i EXCEPT !.read = TRUE, !.rest = rest]
           R == invs (-) One(i)
<1>7. IsABag(R) /\ BagToSet(R) \subseteq BagToSet(invs) BY Taken DEF SyncInv, Routines
<1>8. CASE InventoryRead(i)
  <2>1. invs' = R (+) One(j) /\ transit' = transit BY <1>8 DEF InventoryRead
  <2>2. transit[i.node] \in Seq(Block) BY <1>2 DEF SyncInv, Lists
  <2>3. rest \in Seq(Block) BY <2>2, OthersBlocks
  <2> HIDE DEF rest
  <2>4. j \in Routine /\ j.node = i.node BY <1>1, <2>3 DEF Routine
  <2> HIDE DEF j, R
  <2>5. IsABag(One(j)) /\ BagToSet(One(j)) = {j} BY BagOfSet DEF One
  <2>6. IsABag(invs') /\ BagToSet(invs') = BagToSet(R) \cup {j}
    BY <1>7, <2>1, <2>5, BagPlus
  <2>7. /\ \A k \in BagToSet(invs') : k \in Routine
        /\ \A k \in BagToSet(invs') : k.node = i.node \/ k \in BagToSet(invs)
    BY <1>7, <2>4, <2>6 DEF SyncInv, Routines
  <2>8. transit' = [transit EXCEPT ![i.node] = transit[i.node]]
    BY <2>1 DEF SyncInv, Lists
  <2>9. DeadHaveNothing' /\ Lists' /\ Routines'
    BY <1>2, <1>3, <1>6, <2>2, <2>6, <2>7, <2>8, ListChanges
  <2> QED BY <1>5, <2>9 DEF SyncInv
<1>9. CASE InventoryWrite(i)
  <2>1. invs' = R /\ transit' = [transit EXCEPT ![i.node] = i.rest]
    BY <1>9 DEF InventoryWrite
  <2> HIDE DEF R
  <2>2. /\ IsABag(invs') /\ \A k \in BagToSet(invs') : k \in Routine
        /\ \A k \in BagToSet(invs') : k.node = i.node \/ k \in BagToSet(invs)
    BY <1>7, <2>1 DEF SyncInv, Routines
  <2>3. DeadHaveNothing' /\ Lists' /\ Routines'
    BY <1>2, <1>3, <1>6, <2>1, <2>2, ListChanges
  <2> QED BY <1>5, <2>3 DEF SyncInv
<1> QED BY <1>8, <1>9

LEMMA BlockStays ==
  ASSUME SyncInv, NEW m \in BagToSet(msgs), handleBlock(m) PROVE SyncInv'
<1> DEFINE n == m.to
           new == m.hash \notin stored[n]
           new_last == IF new /\ Height[m.hash] > Height[last[n]] THEN m.hash ELSE last[n]
<1>1. Up(n) /\ m.type = "block" /\ Opened(n) /\ UNCHANGED <<invs, events>>
  BY DEF handleBlock, Arrives
<1>2. WellFormed(m) BY DEF SyncInv, Messages
<1>3. m.from \in Node /\ n \in Node /\ m.hash \in Block BY <1>1, <1>2 DEF WellFormed
<1>4. Stores'
  <2>1. stored' = [stored EXCEPT ![n] = @ \cup {m.hash}] /\ last' = [last EXCEPT ![n] = new_last]
    BY <1>3 DEF handleBlock, SyncInv, Stores
  <2>2. stored \in [Node -> SUBSET Block] /\ last \in [Node -> Block]
        /\ \A k \in Node : last[k] \in stored[k]
    BY DEF SyncInv, Stores
  <2>3. new_last \in Block /\ new_last \in stored[n] \cup {m.hash} BY <1>3, <2>2
  <2> HIDE DEF new_last
  <2> QED BY <1>3, <2>1, <2>2, <2>3 DEF Stores
<1>5. Processes' /\ \A k \in Node : Up(k) => Up(k)' BY <1>1, <1>3, OpenedStays
<1>6. CASE transit[n] = <<>>
  <2>1. Reply(m, EmptyBag) /\ UNCHANGED transit BY <1>6 DEF handleBlock
  <2>2. Messages' BY <2>1, AnswerStays
  <2>3. DeadHaveNothing' /\ Lists' /\ Routines' BY <1>1, <1>5, <2>1, AliveStays
  <2> QED BY <1>4, <1>5, <2>2, <2>3 DEF SyncInv
<1>7. CASE transit[n] # <<>>
  <2> DEFINE o == GetData(n, m.from, Head(transit[n]))
  <2>1. Reply(m, One(o)) /\ transit' = [transit EXCEPT ![n] = Tail(transit[n])]
    BY <1>3, <1>7 DEF handleBlock, SyncInv, Lists
  <2>2. Head(transit[n]) \in Block /\ Tail(transit[n]) \in Seq(Block)
    <3>1. PICK s \in Seq(Block) : s = transit[n] /\ s # <<>>
      BY <1>3, <1>7 DEF SyncInv, Lists
    <3>2. Head(s) \in Block /\ Tail(s) \in Seq(Block) BY <3>1, HeadTailProperties
    <3> QED BY <3>1, <3>2
  <2>3. WellFormed(o) BY <1>3, <2>2 DEF WellFormed, GetData
  <2> HIDE DEF o
  <2>4. Messages' BY <2>1, <2>3, AnswerStays
  <2>5. /\ IsABag(invs') /\ \A k \in BagToSet(invs') : k \in Routine
        /\ \A k \in BagToSet(invs') : k.node = n \/ k \in BagToSet(invs)
    BY <1>1 DEF SyncInv, Routines
  <2>6. DeadHaveNothing' /\ Lists' /\ Routines'
    BY <1>1, <1>3, <1>5, <2>1, <2>2, <2>5, ListChanges
  <2> QED BY <1>4, <1>5, <2>4, <2>6 DEF SyncInv
<1> QED BY <1>6, <1>7

LEMMA SyncNext == SyncInv /\ [Next]_vars => SyncInv'
<1> SUFFICES ASSUME SyncInv, [Next]_vars PROVE SyncInv' OBVIOUS
<1>1. CASE \E n \in Node : Start(n) \/ Open(n) \/ Greet(n) \/ CheckUpdate(n) \/ Crash(n)
  BY <1>1, StartStays, EndsStay
<1>2. CASE \E n \in Node, h \in Block : Mine(n, h) BY <1>2, MineStays
<1>3. CASE \E m \in BagToSet(msgs) : CutShort(m) BY <1>3, EndsStay
<1>4. CASE Handle
  <2>1. ASSUME NEW m \in BagToSet(msgs),
               \/ handleVersion(m) \/ handleGetBlocks(m) \/ handleGetBlocksPanics(m)
               \/ handleTooEarly(m)
               \/ handleInventory(m) \/ handleGetData(m) \/ handleBlock(m) \/ Refused(m)
        PROVE  SyncInv'
    BY <2>1, EndsStay, AnswersStay, InventoryStays, BlockStays
  <2>2. ASSUME NEW i \in BagToSet(invs), InventoryRead(i) \/ InventoryWrite(i) PROVE SyncInv'
    BY <2>2, RoutinesStay
  <2> QED BY <1>4, <2>1, <2>2 DEF Handle
<1>5. CASE UNCHANGED vars
  BY <1>5 DEF vars, chainVars, SyncInv, Stores, Lists, Processes, Messages, Routines,
              DeadHaveNothing, Up
<1> QED BY <1>1, <1>2, <1>3, <1>4, <1>5 DEF Next

LEMMA SyncInvariance == Spec => []SyncInv
BY SyncInit, SyncNext, PTL DEF Spec

(* The last block of a node is always one of its blocks, only blocks are   *)
(* asked for and offered, and a process that has died leaves no transit    *)
(* list and no goroutine of handleInventory to the one that comes after.   *)
THEOREM SyncTypeCorrect == Spec => []TypeOK
<1>1. SyncInv => TypeOK
  <2> SUFFICES ASSUME SyncInv PROVE TypeOK OBVIOUS
  <2>1. \A n \in Node : stored[n] \subseteq Block /\ last[n] \in stored[n]
    BY DEF SyncInv, Stores
  <2>2. \A n \in Node : \A i \in DOMAIN transit[n] : transit[n][i] \in Block
    <3> TAKE n \in Node
    <3>1. transit[n] \in Seq(Block) BY DEF SyncInv, Lists
    <3> QED BY <3>1
  <2> QED BY <2>1, <2>2 DEF TypeOK, SyncInv, Processes, Messages, Routines, DeadHaveNothing
<1> QED BY <1>1, SyncInvariance, PTL

=============================================================================
