---------------------------- MODULE WalletProofs -----------------------------
(* What the runs of Ledger and WalletFile check on small instances, for    *)
(* every set of wallets and every number of processes.                     *)
EXTENDS Ledger, WalletFile, FiniteSetTheorems, TLAPS

(* The outputs of a transaction have different owners: the recipient and,  *)
(* for the change, the sender, and send refuses to pay the sender.         *)
OwnersDiffer ==
  \A t \in ID : \A o \in DOMAIN txs[t].outs, p \in DOMAIN txs[t].outs :
    txs[t].outs[o].owner = txs[t].outs[p].owner => o = p

Shape ==
  /\ made \in ID
  /\ DOMAIN txs = ID
  /\ \A t \in ID : t > made => txs[t] = NoTx
  /\ \A t \in ID : listed[t] \subseteq DOMAIN txs[t].outs
  /\ \A t \in ID : DOMAIN txs[t].outs \subseteq {1, 2}
  /\ unmined \subseteq 1 .. made

\* Positions are counted from 1.
Positions == \A t \in ID : \A x \in txs[t].ins : x.vout \in Nat

OneInputInv == Shape /\ Positions /\ OwnersDiffer /\ OneInputPerSource

\* An address owns at most one of the outputs that the bucket lists for a transaction.
LEMMA CoinPerSource ==
  ASSUME Shape, OwnersDiffer, NEW a \in Address, NEW c \in Coins(a), NEW d \in Coins(a),
         c[1] = d[1]
  PROVE  Input(c) = Input(d)
<1>1. PICK t \in ID : c \in {t} \X listed[t] BY DEF Coins
<1>2. PICK u \in ID : d \in {u} \X listed[u] BY DEF Coins
<1>3. c[1] = t /\ c[2] \in listed[t] BY <1>1
<1>4. d[1] = u /\ d[2] \in listed[u] BY <1>2
<1>5. txs[t].outs[c[2]].owner = a /\ txs[t].outs[d[2]].owner = a BY <1>3, <1>4 DEF Coins
<1>6. c[2] \in DOMAIN txs[t].outs /\ d[2] \in DOMAIN txs[t].outs BY <1>3, <1>4 DEF Shape
<1>7. c[2] = d[2] BY <1>5, <1>6 DEF OwnersDiffer
<1> QED BY <1>7 DEF Input

LEMMA PositionNat ==
  ASSUME Shape, NEW t \in ID, NEW o PROVE Position(t, o) \in Nat
<1>1. IsFiniteSet(1 .. 2)
  <2>1. 1 \in Int /\ 2 \in Int OBVIOUS
  <2> QED BY <2>1, FS_Interval, Zenon
<1>2. {x \in listed[t] : x <= o} \subseteq 1 .. 2 BY DEF Shape
<1>3. IsFiniteSet({x \in listed[t] : x <= o}) BY <1>1, <1>2, FS_Subset
<1> QED BY <1>3, FS_CardinalityType DEF Position

LEMMA OneInputInit == LInit => OneInputInv
<1> SUFFICES ASSUME LInit PROVE OneInputInv OBVIOUS
<1>1. made = 0 /\ 0 \in ID BY LedgerAssumption DEF LInit, ID
<1>2. PICK a \in Address :
        /\ txs = [t \in ID |-> IF t = 0 THEN CoinbaseTo(a) ELSE NoTx]
        /\ listed = [t \in ID |-> IF t = 0 THEN {1} ELSE {}]
      BY DEF LInit
<1>3. \A t \in ID : txs[t].ins = {} /\ DOMAIN txs[t].outs \in {{}, {1}}
      BY <1>2 DEF CoinbaseTo, NoTx
<1>4. \A t \in ID : listed[t] \subseteq DOMAIN txs[t].outs
      BY <1>2 DEF CoinbaseTo, NoTx
<1>5. DOMAIN txs = ID BY <1>2
<1>6. \A t \in ID : t > made => txs[t] = NoTx BY <1>1, <1>2
<1>9. Shape BY <1>1, <1>3, <1>4, <1>5, <1>6 DEF Shape, LInit
<1>7. OwnersDiffer BY <1>3 DEF OwnersDiffer
<1>8. OneInputPerSource BY <1>3 DEF OneInputPerSource
<1>10. Positions BY <1>3 DEF Positions
<1> QED BY <1>9, <1>7, <1>8, <1>10 DEF OneInputInv

LEMMA OneInputSend ==
  ASSUME OneInputInv, NEW from \in Address, NEW to \in Address, NEW n, send(from, to, n)
  PROVE  OneInputInv'
<1> DEFINE new == made + 1
<1>1. PICK C \in Spendable(from, n) : txs' = [txs EXCEPT ![new] = Paying(from, to, n, C)]
      BY DEF send
<1>2. C \subseteq Coins(from) BY DEF Spendable
<1>3. new \in ID /\ made' = new /\ from # to /\ listed' = listed
      BY LedgerAssumption DEF send, ID, OneInputInv, Shape
<1>4. txs'[new] = Paying(from, to, n, C) BY <1>1, <1>3 DEF OneInputInv, Shape
<1>5. \A t \in ID \ {new} : txs'[t] = txs[t] BY <1>1 DEF OneInputInv, Shape
<1>6. txs[new] = NoTx /\ new > made BY <1>3 DEF OneInputInv, Shape, ID
<1>7. listed[new] = {}
  BY <1>3, <1>6 DEF OneInputInv, Shape, NoTx
<1>8. OwnersDiffer' /\ DOMAIN txs'[new].outs \subseteq {1, 2}
  <2> DEFINE outs == Paying(from, to, n, C).outs
  <2>1. \A o \in DOMAIN outs, p \in DOMAIN outs : outs[o].owner = outs[p].owner => o = p
    <3>1. CASE Amount(C) > n
      <4>1. outs = <<[owner |-> to, value |-> n]>> \o <<[owner |-> from, value |-> Amount(C) - n]>>
        BY <3>1 DEF Paying
      <4>2. \A x, y : LET s == <<x>> \o <<y>> IN DOMAIN s = {1, 2} /\ s[1] = x /\ s[2] = y
        OBVIOUS
      <4>3. DOMAIN outs = {1, 2} /\ outs[1].owner = to /\ outs[2].owner = from
        BY <4>1, <4>2
      <4> QED BY <1>3, <4>3
    <3>2. CASE ~(Amount(C) > n)
      <4>1. outs = <<[owner |-> to, value |-> n]>> \o <<>> BY <3>2 DEF Paying
      <4>2. DOMAIN outs = {1} BY <4>1
      <4> QED BY <4>2
    <3> QED BY <3>1, <3>2
  <2>2. DOMAIN outs \subseteq {1, 2} BY DEF Paying
  <2> HIDE DEF outs
  <2>3. txs'[new].outs = outs BY <1>4 DEF outs
  <2> QED BY <1>5, <2>1, <2>2, <2>3 DEF OneInputInv, OwnersDiffer
<1>9. Shape'
  <2>1. DOMAIN txs' = ID BY <1>1 DEF OneInputInv, Shape
  <2>2. \A t \in ID : t > made' => txs'[t] = NoTx
    BY <1>3, <1>5 DEF OneInputInv, Shape, ID
  <2>3. \A t \in ID : listed'[t] \subseteq DOMAIN txs'[t].outs
    BY <1>3, <1>5, <1>7 DEF OneInputInv, Shape
  <2>4. \A t \in ID : DOMAIN txs'[t].outs \subseteq {1, 2}
    BY <1>5, <1>8 DEF OneInputInv, Shape
  <2>5. unmined' \subseteq 1 .. made'
    <3>1. unmined' = unmined \cup {made + 1} /\ made' = made + 1 BY DEF send
    <3>2. made \in Nat /\ unmined \subseteq 1 .. made
      BY LedgerAssumption DEF OneInputInv, Shape, ID
    <3>3. \A t \in 1 .. made : t \in 1 .. made + 1 BY <3>2
    <3>4. made + 1 \in 1 .. made + 1 BY <3>2
    <3> QED BY <3>1, <3>2, <3>3, <3>4
  <2> QED BY <1>3, <2>1, <2>2, <2>3, <2>4, <2>5 DEF Shape
<1>10. OneInputPerSource'
  <2>1. txs'[new].ins = {Input(c) : c \in C} BY <1>4 DEF Paying
  <2>2. \A c \in C : Input(c).tx = c[1] BY DEF Input
  <2>3. \A x \in txs'[new].ins, y \in txs'[new].ins : x.tx = y.tx => x = y
    <3> SUFFICES ASSUME NEW x \in txs'[new].ins, NEW y \in txs'[new].ins, x.tx = y.tx
                 PROVE  x = y
      OBVIOUS
    <3>1. PICK c \in C : x = Input(c) BY <2>1
    <3>2. PICK d \in C : y = Input(d) BY <2>1
    <3>3. c[1] = d[1] BY <2>2, <3>1, <3>2
    <3>4. Input(c) = Input(d) BY <1>2, <3>3, CoinPerSource DEF OneInputInv
    <3> QED BY <3>1, <3>2, <3>4
  <2> QED BY <1>5, <2>3 DEF OneInputInv, OneInputPerSource
<1>11. Positions'
  <2>1. \A c \in C : c[1] \in ID BY <1>2 DEF Coins
  <2>2. \A c \in C : Input(c).vout \in Nat BY <2>1, PositionNat DEF Input, OneInputInv
  <2>3. txs'[new].ins = {Input(c) : c \in C} BY <1>4 DEF Paying
  <2> QED BY <1>5, <2>2, <2>3 DEF OneInputInv, Positions
<1> QED BY <1>8, <1>9, <1>10, <1>11 DEF OneInputInv

LEMMA OneInputMine ==
  ASSUME OneInputInv, NEW a \in Address, NEW S \in SUBSET unmined, MineAndBook(a, S)
  PROVE  OneInputInv'
<1> DEFINE new == made + 1
<1>1. new \in ID /\ new > made /\ made' = new BY LedgerAssumption DEF MineAndBook, ID, OneInputInv, Shape
<1>2. txs' = [txs EXCEPT ![new] = CoinbaseTo(a)] BY DEF MineAndBook
<1>3. txs'[new] = CoinbaseTo(a) BY <1>1, <1>2 DEF OneInputInv, Shape
<1>4. \A t \in ID \ {new} : txs'[t] = txs[t] BY <1>2 DEF OneInputInv, Shape
<1>5. txs'[new].ins = {} /\ DOMAIN txs'[new].outs = {1} BY <1>3 DEF CoinbaseTo
<1>6. listed' = [t \in ID |-> IF t \in S \cup {new} THEN DOMAIN txs'[t].outs ELSE Kept(t, S)]
  BY DEF MineAndBook
<1>7. \A t \in ID : Kept(t, S) \subseteq listed[t] BY DEF Kept
<1>8. Shape'
  <2>1. DOMAIN txs' = ID BY <1>2 DEF OneInputInv, Shape
  <2>2. \A t \in ID : t > made' => txs'[t] = NoTx
    BY <1>1, <1>4 DEF OneInputInv, Shape, ID
  <2>3. ASSUME NEW t \in ID PROVE listed'[t] \subseteq DOMAIN txs'[t].outs
    <3>1. CASE t \in S \cup {new} BY <1>6, <3>1
    <3>2. CASE t \notin S \cup {new}
      <4>1. listed'[t] = Kept(t, S) /\ txs'[t] = txs[t] BY <1>4, <1>6, <3>2
      <4> QED BY <1>7, <4>1 DEF OneInputInv, Shape
    <3> QED BY <3>1, <3>2
  <2>4. \A t \in ID : DOMAIN txs'[t].outs \subseteq {1, 2}
    BY <1>4, <1>5 DEF OneInputInv, Shape
  <2>5. unmined' \subseteq 1 .. made' BY <1>1 DEF MineAndBook, OneInputInv, Shape, ID
  <2> QED BY <1>1, <2>1, <2>2, <2>3, <2>4, <2>5 DEF Shape
<1>9. OwnersDiffer' BY <1>4, <1>5 DEF OneInputInv, OwnersDiffer
<1>10. OneInputPerSource' BY <1>4, <1>5 DEF OneInputInv, OneInputPerSource
<1>11. Positions' BY <1>4, <1>5 DEF OneInputInv, Positions
<1> QED BY <1>8, <1>9, <1>10, <1>11 DEF OneInputInv

LEMMA OneInputNext == OneInputInv /\ [LNext]_lvars => OneInputInv'
<1> SUFFICES ASSUME OneInputInv, [LNext]_lvars PROVE OneInputInv' OBVIOUS
<1>1. CASE UNCHANGED lvars
  BY <1>1 DEF lvars, OneInputInv, Shape, Positions, OwnersDiffer, OneInputPerSource
<1>2. CASE LNext BY <1>2, OneInputSend, OneInputMine DEF LNext
<1> QED BY <1>1, <1>2

(* No payment, with any number of inputs, spends two outputs of one        *)
(* transaction: a wallet owns at most one of them, because send refuses a  *)
(* payment to its own sender.  hasSameTXInput, which looks only at the     *)
(* transaction an input names, can therefore never hit a payment itself.   *)
THEOREM SingleInputs == LSpec => []OneInputPerSource
<1>1. OneInputInv => OneInputPerSource BY DEF OneInputInv
<1> QED BY <1>1, OneInputInit, OneInputNext, PTL DEF LSpec

\* Within a block, at most one input names a transaction: nothing is shifted.
LEMMA NothingShifts ==
  ASSUME OneInputInv, NEW S \in SUBSET unmined, SourcesDiffer(S), NEW t \in ID
  PROVE  Dropped(t, S) = Named(t, S)
<1>1. S \subseteq ID BY LedgerAssumption DEF OneInputInv, Shape, ID
<1>2. \A v \in Named(t, S), w \in Named(t, S) : v = w
  BY <1>1 DEF Named, SourcesDiffer, OneInputPerSource, OneInputInv
<1>3. \A v \in Named(t, S) : v \in Nat BY <1>1 DEF Named, Positions, OneInputInv
<1>4. ASSUME NEW v \in Named(t, S)
      PROVE  v + Cardinality({w \in Named(t, S) : w < v}) = v
  <2>1. {w \in Named(t, S) : w < v} = {} BY <1>2, <1>3
  <2>2. Cardinality({w \in Named(t, S) : w < v}) = 0 BY <2>1, FS_EmptySet
  <2> QED BY <1>3, <2>2
<1> QED BY <1>4 DEF Dropped

(* Update drops one position after the other, and each moves those behind  *)
(* it; still, in any block that handleTx may select, what it drops is      *)
(* exactly what the inputs name.                                           *)
THEOREM DropsNamed == LSpec => []UpdateDropsNamed
<1>1. OneInputInv => UpdateDropsNamed BY NothingShifts DEF UpdateDropsNamed
<1> QED BY <1>1, OneInputInit, OneInputNext, PTL DEF LSpec

-----------------------------------------------------------------------------
(* Sums. *)

SumStep(f, sum, s) ==
  IF s = {} THEN 0 ELSE LET x == CHOOSE y \in s : TRUE IN f[x] + sum[s \ {x}]
Parts(f)   == SUBSET DOMAIN f
Size(f, s) == Cardinality(s)
SumRec == INSTANCE Recursion WITH Dom <- Parts, Rank <- Size, Def <- SumStep

Partial(f) == CHOOSE sum : sum = [s \in SUBSET DOMAIN f |-> SumStep(f, sum, s)]

\* Of several finite sets there is one with the fewest elements.
LEMMA SmallestSet ==
  ASSUME NEW D, IsFiniteSet(D), NEW C \in SUBSET SUBSET D, C # {}
  PROVE  \E s \in C : \A r \in C : Cardinality(s) <= Cardinality(r)
<1> DEFINE T == {Cardinality(s) : s \in C}
<1>1. \A s \in C : Cardinality(s) \in Nat BY FS_Subset, FS_CardinalityType
<1>2. T \in SUBSET Nat /\ T # {} BY <1>1
<1> HIDE DEF T
<1>3. PICK n \in T : \A m \in T : n <= m BY <1>2, SumRec!LeastNumber
<1> QED BY <1>3 DEF T

LEMMA SumIsPartial ==
  ASSUME NEW f
  PROVE  SumFunction(f) = Partial(f)[DOMAIN f]
BY DEF SumFunction, SumFunctionOnSet, FoldFunctionOnSet, MapThenFoldSet, Partial, SumStep

LEMMA PartialValue ==
  ASSUME NEW f, IsFiniteSet(DOMAIN f), NEW s \in SUBSET DOMAIN f
  PROVE  Partial(f)[s] = SumStep(f, Partial(f), s)
<1>1. SumRec!Ranked(f)
  BY FS_Subset, FS_CardinalityType DEF SumRec!Ranked, Parts, Size
<1>2. SumRec!LooksDown(f)
  <2> SUFFICES ASSUME NEW g, NEW h, NEW x \in SUBSET DOMAIN f,
                      \A y \in SUBSET DOMAIN f : Cardinality(y) < Cardinality(x) => g[y] = h[y]
               PROVE  SumStep(f, g, x) = SumStep(f, h, x)
    BY DEF SumRec!LooksDown, Parts, Size
  <2>1. CASE x = {} BY <2>1 DEF SumStep
  <2>2. CASE x # {}
    <3> DEFINE y == CHOOSE z \in x : TRUE
    <3>1. y \in x BY <2>2
    <3>2. IsFiniteSet(x) /\ Cardinality(x) \in Nat BY FS_Subset, FS_CardinalityType
    <3> HIDE DEF y
    <3>3. Cardinality(x \ {y}) < Cardinality(x)
      <4>1. Cardinality(x \ {y}) = Cardinality(x) - 1 BY <3>1, <3>2, FS_RemoveElement
      <4> QED BY <3>2, <4>1
    <3>4. g[x \ {y}] = h[x \ {y}] BY <3>3
    <3> QED BY <2>2, <3>4 DEF SumStep, y
  <2> QED BY <2>1, <2>2
<1>3. \E sum : sum = [x \in Parts(f) |-> SumStep(f, sum, x)]
  BY <1>1, <1>2, SumRec!FunctionExists
<1>4. \E sum : sum = [x \in SUBSET DOMAIN f |-> SumStep(f, sum, x)] BY <1>3 DEF Parts
<1>5. Partial(f) = [x \in SUBSET DOMAIN f |-> SumStep(f, Partial(f), x)] BY <1>4, Zenon DEF Partial
<1> QED BY <1>5
IntValued(f) == IsFiniteSet(DOMAIN f) /\ \A x \in DOMAIN f : f[x] \in Int

LEMMA PartialInt ==
  ASSUME NEW f, IntValued(f)
  PROVE  \A s \in SUBSET DOMAIN f : Partial(f)[s] \in Int
<1> DEFINE Bad == {s \in SUBSET DOMAIN f : Partial(f)[s] \notin Int}
<1>1. SUFFICES ASSUME Bad # {} PROVE FALSE OBVIOUS
<1>2. PICK s \in Bad : \A r \in Bad : Cardinality(s) <= Cardinality(r)
  <2>1. Bad \subseteq SUBSET DOMAIN f OBVIOUS
  <2> HIDE DEF Bad
  <2> QED BY <1>1, <2>1, SmallestSet DEF IntValued
<1>3. Partial(f)[s] = SumStep(f, Partial(f), s) BY PartialValue DEF IntValued
<1>4. PICK x \in s : Partial(f)[s] = f[x] + Partial(f)[s \ {x}]
  <2>1. s # {} BY <1>3 DEF SumStep
  <2> QED BY <1>3, <2>1 DEF SumStep
<1>5. IsFiniteSet(s) /\ Cardinality(s) \in Nat BY FS_Subset, FS_CardinalityType DEF IntValued
<1>6. Cardinality(s \ {x}) = Cardinality(s) - 1 BY <1>5, FS_RemoveElement
<1>7. s \ {x} \notin Bad BY <1>2, <1>5, <1>6
<1> QED BY <1>4, <1>7 DEF IntValued

\* A sum may begin with any of its terms.
LEMMA AnyFirst ==
  ASSUME NEW f, IntValued(f)
  PROVE  \A s \in SUBSET DOMAIN f : \A x \in s : Partial(f)[s] = f[x] + Partial(f)[s \ {x}]
<1> DEFINE First(s) == \A x \in s : Partial(f)[s] = f[x] + Partial(f)[s \ {x}]
           Bad == {s \in SUBSET DOMAIN f : ~First(s)}
<1>1. SUFFICES ASSUME Bad # {} PROVE FALSE OBVIOUS
<1>2. PICK s \in Bad : \A r \in Bad : Cardinality(s) <= Cardinality(r)
  <2>1. Bad \subseteq SUBSET DOMAIN f OBVIOUS
  <2> HIDE DEF Bad
  <2> QED BY <1>1, <2>1, SmallestSet DEF IntValued
<1>3. PICK x \in s : Partial(f)[s] # f[x] + Partial(f)[s \ {x}] OBVIOUS
<1>4. PICK y \in s : Partial(f)[s] = f[y] + Partial(f)[s \ {y}]
  BY <1>3, PartialValue DEF SumStep, IntValued
<1>5. x # y BY <1>3, <1>4
<1>6. IsFiniteSet(s) /\ Cardinality(s) \in Nat BY FS_Subset, FS_CardinalityType DEF IntValued
<1>7. ASSUME NEW z \in s PROVE First(s \ {z})
  <2>1. Cardinality(s \ {z}) = Cardinality(s) - 1 BY <1>6, FS_RemoveElement
  <2>2. s \ {z} \notin Bad BY <1>2, <1>6, <2>1
  <2> QED BY <2>2
<1>8. Partial(f)[s \ {y}] = f[x] + Partial(f)[(s \ {y}) \ {x}] BY <1>5, <1>7
<1>9. Partial(f)[s \ {x}] = f[y] + Partial(f)[(s \ {x}) \ {y}] BY <1>5, <1>7
<1>10. (s \ {y}) \ {x} = (s \ {x}) \ {y} OBVIOUS
<1>11. /\ f[x] \in Int /\ f[y] \in Int
       /\ Partial(f)[(s \ {x}) \ {y}] \in Int
  BY PartialInt DEF IntValued
<1>12. f[x] + (f[y] + Partial(f)[(s \ {x}) \ {y}]) = f[y] + (f[x] + Partial(f)[(s \ {x}) \ {y}])
  BY <1>11
<1> QED BY <1>3, <1>4, <1>8, <1>9, <1>10, <1>12

\* The sum over two sets that have nothing in common.
LEMMA PartialUnion ==
  ASSUME NEW f, IntValued(f), NEW A \in SUBSET DOMAIN f
  PROVE  \A B \in SUBSET (DOMAIN f \ A) : Partial(f)[A \cup B] = Partial(f)[A] + Partial(f)[B]
<1> DEFINE Bad == {B \in SUBSET (DOMAIN f \ A) :
                     Partial(f)[A \cup B] # Partial(f)[A] + Partial(f)[B]}
<1>1. SUFFICES ASSUME Bad # {} PROVE FALSE OBVIOUS
<1>2. PICK B \in Bad : \A r \in Bad : Cardinality(B) <= Cardinality(r)
  <2>1. Bad \subseteq SUBSET DOMAIN f OBVIOUS
  <2> HIDE DEF Bad
  <2> QED BY <1>1, <2>1, SmallestSet DEF IntValued
<1>3. Partial(f)[A] \in Int BY PartialInt
<1>4. B # {}
  <2> SUFFICES ASSUME B = {} PROVE FALSE OBVIOUS
  <2>1. Partial(f)[{}] = 0 BY PartialValue DEF SumStep, IntValued
  <2>2. A \cup B = A OBVIOUS
  <2> QED BY <1>3, <2>1, <2>2
<1>5. PICK x \in B : TRUE BY <1>4
<1>6. B \ {x} \notin Bad
  <2>1. IsFiniteSet(B) /\ Cardinality(B) \in Nat BY FS_Subset, FS_CardinalityType DEF IntValued
  <2>2. Cardinality(B \ {x}) = Cardinality(B) - 1 BY <2>1, FS_RemoveElement
  <2> QED BY <1>2, <2>1, <2>2
<1>7. Partial(f)[A \cup (B \ {x})] = Partial(f)[A] + Partial(f)[B \ {x}] BY <1>6
<1>8. Partial(f)[B] = f[x] + Partial(f)[B \ {x}] BY AnyFirst
<1>9. Partial(f)[A \cup B] = f[x] + Partial(f)[A \cup (B \ {x})]
  <2>1. (A \cup B) \ {x} = A \cup (B \ {x}) OBVIOUS
  <2>2. A \cup B \in SUBSET DOMAIN f /\ x \in A \cup B OBVIOUS
  <2> QED BY <2>1, <2>2, AnyFirst
<1>10. f[x] \in Int /\ Partial(f)[B \ {x}] \in Int BY PartialInt DEF IntValued
<1> QED BY <1>3, <1>7, <1>8, <1>9, <1>10

\* The sum depends on the terms alone.
LEMMA PartialSame ==
  ASSUME NEW f, NEW g, IntValued(f), IntValued(g), DOMAIN g \subseteq DOMAIN f,
         \A x \in DOMAIN g : f[x] = g[x]
  PROVE  \A s \in SUBSET DOMAIN g : Partial(f)[s] = Partial(g)[s]
<1> DEFINE Bad == {s \in SUBSET DOMAIN g : Partial(f)[s] # Partial(g)[s]}
<1>1. SUFFICES ASSUME Bad # {} PROVE FALSE OBVIOUS
<1>2. PICK s \in Bad : \A r \in Bad : Cardinality(s) <= Cardinality(r)
  <2>1. Bad \subseteq SUBSET DOMAIN g OBVIOUS
  <2> HIDE DEF Bad
  <2> QED BY <1>1, <2>1, SmallestSet DEF IntValued
<1>3. s # {} BY PartialValue DEF SumStep, IntValued
<1>4. PICK x \in s : TRUE BY <1>3
<1>5. s \ {x} \notin Bad
  <2>1. IsFiniteSet(s) /\ Cardinality(s) \in Nat BY FS_Subset, FS_CardinalityType DEF IntValued
  <2>2. Cardinality(s \ {x}) = Cardinality(s) - 1 BY <2>1, FS_RemoveElement
  <2> QED BY <1>2, <2>1, <2>2
<1>6. Partial(f)[s] = f[x] + Partial(f)[s \ {x}] BY AnyFirst
<1>7. Partial(g)[s] = g[x] + Partial(g)[s \ {x}] BY AnyFirst
<1> QED BY <1>5, <1>6, <1>7

LEMMA SumInt ==
  ASSUME NEW f, IntValued(f)
  PROVE  SumFunction(f) \in Int
BY SumIsPartial, PartialInt

LEMMA SumNone ==
  ASSUME NEW f, DOMAIN f = {}
  PROVE  SumFunction(f) = 0
BY SumIsPartial, PartialValue, FS_EmptySet DEF SumStep

LEMMA SumOne ==
  ASSUME NEW f, NEW x, DOMAIN f = {x}, f[x] \in Int
  PROVE  SumFunction(f) = f[x]
<1>1. IntValued(f) BY FS_Singleton DEF IntValued
<1>2. Partial(f)[{}] = 0 BY <1>1, PartialValue DEF SumStep, IntValued
<1>3. Partial(f)[{x}] = f[x] + Partial(f)[{x} \ {x}] BY <1>1, AnyFirst
<1>4. {x} \ {x} = {} OBVIOUS
<1> QED BY <1>2, <1>3, <1>4, SumIsPartial

LEMMA SumSplit ==
  ASSUME NEW f, IntValued(f), NEW A, NEW B, DOMAIN f = A \cup B, A \cap B = {}
  PROVE  SumFunction(f) = SumFunction([x \in A |-> f[x]]) + SumFunction([x \in B |-> f[x]])
<1> DEFINE g == [x \in A |-> f[x]]
           h == [x \in B |-> f[x]]
<1>1. IsFiniteSet(A) /\ IsFiniteSet(B) BY FS_Subset DEF IntValued
<1>2. /\ IntValued(g) /\ DOMAIN g = A /\ \A x \in A : g[x] = f[x]
      /\ IntValued(h) /\ DOMAIN h = B /\ \A x \in B : h[x] = f[x]
  BY <1>1 DEF IntValued
<1> HIDE DEF g, h
<1>3. Partial(f)[A \cup B] = Partial(f)[A] + Partial(f)[B] BY PartialUnion
<1>4. Partial(g)[A] = Partial(f)[A] BY <1>2, PartialSame
<1>5. Partial(h)[B] = Partial(f)[B] BY <1>2, PartialSame
<1> QED BY <1>2, <1>3, <1>4, <1>5, SumIsPartial DEF g, h

-----------------------------------------------------------------------------
(* What coins are worth. *)

\* Amount, for any table of transactions.
AmountIn(T, C) == SumFunction([c \in C |-> T[c[1]].outs[c[2]].value])
Valued(T, C)   == IsFiniteSet(C) /\ \A c \in C : T[c[1]].outs[c[2]].value \in Int

LEMMA AmountInt ==
  ASSUME NEW T, NEW C, Valued(T, C)
  PROVE  AmountIn(T, C) \in Int
<1> DEFINE f == [c \in C |-> T[c[1]].outs[c[2]].value]
<1>1. IntValued(f) BY DEF IntValued, Valued
<1> QED BY <1>1, SumInt DEF AmountIn

LEMMA AmountNone ==
  ASSUME NEW T PROVE AmountIn(T, {}) = 0
BY SumNone DEF AmountIn

LEMMA AmountOne ==
  ASSUME NEW T, NEW c, T[c[1]].outs[c[2]].value \in Int
  PROVE  AmountIn(T, {c}) = T[c[1]].outs[c[2]].value
<1> DEFINE f == [d \in {c} |-> T[d[1]].outs[d[2]].value]
<1>1. DOMAIN f = {c} /\ f[c] = T[c[1]].outs[c[2]].value OBVIOUS
<1> HIDE DEF f
<1>2. SumFunction(f) = f[c] BY <1>1, SumOne
<1> QED BY <1>1, <1>2 DEF AmountIn, f

LEMMA AmountOutput ==
  ASSUME NEW T, NEW t, NEW o, T[t].outs[o].value \in Int
  PROVE  AmountIn(T, {<<t, o>>}) = T[t].outs[o].value
<1> DEFINE c == <<t, o>>
<1>1. c[1] = t /\ c[2] = o OBVIOUS
<1> HIDE DEF c
<1>2. AmountIn(T, {c}) = T[t].outs[o].value BY <1>1, AmountOne
<1> QED BY <1>2 DEF c

LEMMA AmountSplit ==
  ASSUME NEW T, NEW A, NEW B, Valued(T, A \cup B), A \cap B = {}
  PROVE  AmountIn(T, A \cup B) = AmountIn(T, A) + AmountIn(T, B)
<1> DEFINE f == [c \in A \cup B |-> T[c[1]].outs[c[2]].value]
<1>1. IntValued(f) /\ DOMAIN f = A \cup B BY DEF IntValued, Valued
<1>2. /\ [c \in A |-> f[c]] = [c \in A |-> T[c[1]].outs[c[2]].value]
      /\ [c \in B |-> f[c]] = [c \in B |-> T[c[1]].outs[c[2]].value]
  OBVIOUS
<1> HIDE DEF f
<1>3. SumFunction(f) = SumFunction([c \in A |-> f[c]]) + SumFunction([c \in B |-> f[c]])
  BY <1>1, SumSplit
<1> QED BY <1>2, <1>3 DEF AmountIn, f

LEMMA AmountAgree ==
  ASSUME NEW T, NEW U, NEW C,
         \A c \in C : T[c[1]].outs[c[2]].value = U[c[1]].outs[c[2]].value
  PROVE  AmountIn(T, C) = AmountIn(U, C)
BY DEF AmountIn

\* What the payments of two sets add up to.
LEMMA PaidSplit ==
  ASSUME NEW A, NEW B, IsFiniteSet(A \cup B), A \cap B = {},
         \A t \in A \cup B : Paid(t) \in Int
  PROVE  Sum(A \cup B) = Sum(A) + Sum(B)
<1> DEFINE f == [t \in A \cup B |-> Paid(t)]
<1>1. IntValued(f) /\ DOMAIN f = A \cup B BY DEF IntValued
<1>2. /\ [t \in A |-> f[t]] = [t \in A |-> Paid(t)]
      /\ [t \in B |-> f[t]] = [t \in B |-> Paid(t)]
  OBVIOUS
<1> HIDE DEF f
<1>3. SumFunction(f) = SumFunction([t \in A |-> f[t]]) + SumFunction([t \in B |-> f[t]])
  BY <1>1, SumSplit
<1> QED BY <1>2, <1>3 DEF Sum, f

LEMMA PaidOne ==
  ASSUME NEW t, Paid(t) \in Int PROVE Sum({t}) = Paid(t)
<1> DEFINE f == [u \in {t} |-> Paid(u)]
<1>1. DOMAIN f = {t} /\ f[t] = Paid(t) OBVIOUS
<1> HIDE DEF f
<1>2. SumFunction(f) = f[t] BY <1>1, SumOne
<1> QED BY <1>1, <1>2 DEF Sum, f

LEMMA PaidInt ==
  ASSUME NEW S, IsFiniteSet(S), \A t \in S : Paid(t) \in Int PROVE Sum(S) \in Int
<1> DEFINE f == [u \in S |-> Paid(u)]
<1>1. IntValued(f) BY DEF IntValued
<1> QED BY <1>1, SumInt DEF Sum

LEMMA PaidNone == Sum({}) = 0
BY SumNone DEF Sum

-----------------------------------------------------------------------------
(* The payments that wait, and the balances. *)

Meant(t)  == {<<x.tx, x.means>> : x \in txs[t].ins}
Change(t) == IF 2 \in DOMAIN txs[t].outs THEN txs[t].outs[2].value ELSE 0

OutputsOK ==
  \A t \in ID : \A o \in DOMAIN txs[t].outs :
    txs[t].outs[o].owner \in Address /\ txs[t].outs[o].value \in Nat

\* A payment spends coins of one address, its payer, and gives all that they
\* are worth to another address and back to the payer.
PaymentOK(t) ==
  /\ txs[t].ins # {}
  /\ \A x \in txs[t].ins :
       /\ x.tx \in 0 .. made /\ x.means \in DOMAIN txs[x.tx].outs
       /\ txs[x.tx].outs[x.means].owner = Payer(t)
  /\ 1 \in DOMAIN txs[t].outs /\ Payee(t) # Payer(t)
  /\ 2 \in DOMAIN txs[t].outs => txs[t].outs[2].owner = Payer(t)
  /\ Amount(Meant(t)) = Paid(t) + Change(t)

Payments == \A t \in unmined : PaymentOK(t) /\ listed[t] = {}
History  == worth \in [Address -> Int] /\ intact \in BOOLEAN

MoneyInv == OneInputInv /\ OutputsOK /\ Payments /\ History /\ BalancesRight

\* All outputs of all transactions.
AllCoins == {c \in ID \X {1, 2} : c[2] \in DOMAIN txs[c[1]].outs}

LEMMA CoinsValued ==
  ASSUME Shape, OutputsOK, NEW C \in SUBSET AllCoins
  PROVE  Valued(txs, C)
<1>1. IsFiniteSet(ID) BY LedgerAssumption, FS_Interval DEF ID
<1>2. IsFiniteSet({1, 2})
  <2>1. {1, 2} = {1} \cup {2} OBVIOUS
  <2>2. IsFiniteSet({1}) BY FS_Singleton
  <2>3. IsFiniteSet({1} \cup {2}) BY <2>2, FS_AddElement
  <2> QED BY <2>1, <2>3
<1>3. IsFiniteSet(ID \X {1, 2}) BY <1>1, <1>2, FS_Product
<1>4. C \subseteq ID \X {1, 2} BY DEF AllCoins
<1>5. IsFiniteSet(C) BY <1>3, <1>4, FS_Subset
<1>6. \A c \in C : c[1] \in ID /\ c[2] \in DOMAIN txs[c[1]].outs BY DEF AllCoins
<1>7. \A c \in C : txs[c[1]].outs[c[2]].value \in Int BY <1>6 DEF OutputsOK
<1> QED BY <1>5, <1>7 DEF Valued

\* The coins of an address, one by one.
LEMMA CoinMembers ==
  ASSUME NEW T, NEW L, NEW a
  PROVE  LET K == {c \in UNION {{t} \X L[t] : t \in ID} : T[c[1]].outs[c[2]].owner = a}
         IN  /\ \A t, o : <<t, o>> \in K
                  <=> t \in ID /\ o \in L[t] /\ T[t].outs[o].owner = a
             /\ \A c \in K : c = <<c[1], c[2]>> /\ c[1] \in ID /\ c[2] \in L[c[1]]
<1> DEFINE K == {c \in UNION {{t} \X L[t] : t \in ID} : T[c[1]].outs[c[2]].owner = a}
<1>1. \A c \in K : \E t \in ID : c \in {t} \X L[t] OBVIOUS
<1>2. \A c \in K : c = <<c[1], c[2]>> /\ c[1] \in ID /\ c[2] \in L[c[1]] BY <1>1
<1>3. ASSUME NEW t, NEW o
      PROVE  <<t, o>> \in K <=> t \in ID /\ o \in L[t] /\ T[t].outs[o].owner = a
  <2>1. <<t, o>> \in UNION {{u} \X L[u] : u \in ID} <=> t \in ID /\ o \in L[t]
    OBVIOUS
  <2> QED BY <2>1
<1> QED BY <1>2, <1>3

LEMMA CoinsOf ==
  ASSUME Shape, NEW a
  PROVE  /\ Coins(a) \subseteq AllCoins
         /\ \A t, o : <<t, o>> \in Coins(a)
              <=> t \in ID /\ o \in listed[t] /\ txs[t].outs[o].owner = a
         /\ \A c \in Coins(a) : c = <<c[1], c[2]>>
<1>1. /\ \A t, o : <<t, o>> \in Coins(a)
              <=> t \in ID /\ o \in listed[t] /\ txs[t].outs[o].owner = a
      /\ \A c \in Coins(a) : c = <<c[1], c[2]>> /\ c[1] \in ID /\ c[2] \in listed[c[1]]
  BY CoinMembers DEF Coins
<1>2. \A c \in Coins(a) : c[2] \in DOMAIN txs[c[1]].outs /\ c[2] \in {1, 2} BY <1>1 DEF Shape
<1> QED BY <1>1, <1>2 DEF AllCoins

\* What a block of the payments R gives to an address, and takes from it.
NewTo(R, b)     == {c \in AllCoins : c[1] \in R /\ txs[c[1]].outs[c[2]].owner = b}
SpentFrom(R, b) == UNION {Meant(t) : t \in {u \in R : Payer(u) = b}}
PaidTo(R, b)    == {t \in R : Payee(t) = b}
PaidFrom(R, b)  == {t \in R : Payer(t) = b}

Even(R, b) ==
  AmountIn(txs, NewTo(R, b)) + Sum(PaidFrom(R, b))
    = AmountIn(txs, SpentFrom(R, b)) + Sum(PaidTo(R, b))

\* The inputs of a payment mean outputs there are.
LEMMA MeantAreCoins ==
  ASSUME Shape, Payments, NEW t \in unmined
  PROVE  Meant(t) \subseteq AllCoins
<1>1. made \in Nat /\ made <= MaxTx BY LedgerAssumption DEF Shape, ID
<1>2. \A x \in txs[t].ins : x.tx \in ID /\ x.means \in DOMAIN txs[x.tx].outs
  BY <1>1, LedgerAssumption DEF Payments, PaymentOK, ID
<1>3. \A x \in txs[t].ins : x.means \in {1, 2} BY <1>2 DEF Shape
<1> QED BY <1>2, <1>3 DEF Meant, AllCoins

LEMMA PaymentValues ==
  ASSUME Shape, OutputsOK, Payments, NEW t \in unmined
  PROVE  /\ t \in ID /\ Paid(t) \in Int /\ Change(t) \in Int
         /\ 2 \in DOMAIN txs[t].outs => Change(t) = txs[t].outs[2].value
<1>1. t \in ID BY LedgerAssumption DEF Shape, ID
<1> QED BY <1>1 DEF OutputsOK, Payments, PaymentOK, Paid, Change

\* One payment takes from its payer what it gives, and the change back.
LEMMA EvenOne ==
  ASSUME Shape, OutputsOK, Payments, NEW t \in unmined, NEW b
  PROVE  Even({t}, b)
<1>1. /\ t \in ID /\ Paid(t) \in Int /\ Change(t) \in Int
      /\ 2 \in DOMAIN txs[t].outs => Change(t) = txs[t].outs[2].value
  BY PaymentValues
<1>2. /\ 1 \in DOMAIN txs[t].outs /\ Payee(t) # Payer(t)
      /\ 2 \in DOMAIN txs[t].outs => txs[t].outs[2].owner = Payer(t)
      /\ AmountIn(txs, Meant(t)) = Paid(t) + Change(t)
      /\ DOMAIN txs[t].outs \subseteq {1, 2}
  BY <1>1 DEF Payments, PaymentOK, Amount, AmountIn, Shape
<1>3. NewTo({t}, b) = {<<t, o>> : o \in {p \in DOMAIN txs[t].outs : txs[t].outs[p].owner = b}}
  BY <1>1, <1>2 DEF NewTo, AllCoins
<1>4. Sum({}) = 0 /\ Sum({t}) = Paid(t) BY <1>1, PaidNone, PaidOne
<1>5. AmountIn(txs, {}) = 0 BY AmountNone
<1>6. CASE b = Payer(t)
  <2>1. SpentFrom({t}, b) = Meant(t) BY <1>6 DEF SpentFrom
  <2>2. PaidFrom({t}, b) = {t} /\ PaidTo({t}, b) = {} BY <1>2, <1>6 DEF PaidFrom, PaidTo
  <2>3. AmountIn(txs, NewTo({t}, b)) = Change(t)
    <3>1. CASE 2 \in DOMAIN txs[t].outs
      <4>1. NewTo({t}, b) = {<<t, 2>>}
        <5>1. {p \in DOMAIN txs[t].outs : txs[t].outs[p].owner = b} = {2}
          BY <1>2, <1>6, <3>1 DEF Payee
        <5> QED BY <1>3, <5>1
      <4>2. AmountIn(txs, {<<t, 2>>}) = txs[t].outs[2].value
        <5>1. txs[t].outs[2].value \in Int BY <1>1, <3>1
        <5> QED BY <5>1, AmountOutput
      <4> QED BY <1>1, <3>1, <4>1, <4>2
    <3>2. CASE 2 \notin DOMAIN txs[t].outs
      <4>1. NewTo({t}, b) = {} BY <1>2, <1>3, <1>6, <3>2 DEF Payee
      <4> QED BY <1>5, <3>2, <4>1 DEF Change
    <3> QED BY <3>1, <3>2
  <2>4. Sum(PaidTo({t}, b)) = 0 /\ Sum(PaidFrom({t}, b)) = Paid(t) BY <1>4, <2>2
  <2>5. AmountIn(txs, SpentFrom({t}, b)) = Paid(t) + Change(t) BY <1>2, <2>1
  <2> QED BY <1>1, <2>3, <2>4, <2>5 DEF Even
<1>7. CASE b # Payer(t)
  <2>1. SpentFrom({t}, b) = {} /\ PaidFrom({t}, b) = {} BY <1>7 DEF SpentFrom, PaidFrom
  <2>2. CASE b = Payee(t)
    <3>1. txs[t].outs[1].owner = b BY <2>2 DEF Payee
    <3>2. NewTo({t}, b) = {<<t, 1>>}
      <4>1. {p \in DOMAIN txs[t].outs : txs[t].outs[p].owner = b} = {1} BY <1>2, <1>7, <3>1
      <4> QED BY <1>3, <4>1
    <3>3. AmountIn(txs, {<<t, 1>>}) = Paid(t) BY <1>1, AmountOutput DEF Paid
    <3>4. PaidTo({t}, b) = {t} BY <2>2 DEF PaidTo
    <3>5. Sum(PaidTo({t}, b)) = Paid(t) /\ Sum(PaidFrom({t}, b)) = 0 BY <1>4, <2>1, <3>4
    <3>6. AmountIn(txs, NewTo({t}, b)) = Paid(t) /\ AmountIn(txs, SpentFrom({t}, b)) = 0
      BY <1>5, <2>1, <3>2, <3>3
    <3> QED BY <1>1, <3>5, <3>6 DEF Even
  <2>3. CASE b # Payee(t)
    <3>1. NewTo({t}, b) = {} BY <1>2, <1>3, <1>7, <2>3 DEF Payee
    <3>2. PaidTo({t}, b) = {} BY <2>3 DEF PaidTo
    <3> QED BY <1>4, <1>5, <2>1, <3>1, <3>2 DEF Even
  <2> QED BY <2>2, <2>3
<1> QED BY <1>6, <1>7

\* What is even for two parts of a block is even for both together.
LEMMA EvenBoth ==
  ASSUME Shape, OutputsOK, Payments, NEW S \in SUBSET unmined, SourcesDiffer(S),
         NEW Q \in SUBSET S, NEW t \in S \ Q, NEW b, Even(Q, b)
  PROVE  Even(Q \cup {t}, b)
<1> DEFINE R == Q \cup {t}
<1>1. Even({t}, b) BY EvenOne
<1>2. /\ NewTo(R, b) = NewTo(Q, b) \cup NewTo({t}, b)
      /\ NewTo(Q, b) \cap NewTo({t}, b) = {}
  BY DEF NewTo
<1>3. /\ SpentFrom(R, b) = SpentFrom(Q, b) \cup SpentFrom({t}, b)
      /\ SpentFrom(Q, b) \cap SpentFrom({t}, b) = {}
  <2>1. SpentFrom(R, b) = SpentFrom(Q, b) \cup SpentFrom({t}, b) BY DEF SpentFrom
  <2>2. ASSUME NEW c \in SpentFrom(Q, b), c \in SpentFrom({t}, b) PROVE FALSE
    <3>1. PICK u \in Q : c \in Meant(u) BY DEF SpentFrom
    <3>2. c \in Meant(t) BY <2>2 DEF SpentFrom
    <3>3. PICK x \in txs[u].ins : c = <<x.tx, x.means>> BY <3>1 DEF Meant
    <3>4. PICK y \in txs[t].ins : c = <<y.tx, y.means>> BY <3>2 DEF Meant
    <3>5. x.tx = y.tx BY <3>3, <3>4
    <3> QED BY <3>5 DEF SourcesDiffer
  <2> QED BY <2>1, <2>2
<1>4. /\ PaidTo(R, b) = PaidTo(Q, b) \cup PaidTo({t}, b)
      /\ PaidTo(Q, b) \cap PaidTo({t}, b) = {}
  BY DEF PaidTo
<1>5. /\ PaidFrom(R, b) = PaidFrom(Q, b) \cup PaidFrom({t}, b)
      /\ PaidFrom(Q, b) \cap PaidFrom({t}, b) = {}
  BY DEF PaidFrom
<1>6. /\ NewTo(R, b) \subseteq AllCoins /\ NewTo(Q, b) \subseteq AllCoins
      /\ NewTo({t}, b) \subseteq AllCoins
  BY DEF NewTo
<1>7. /\ SpentFrom(R, b) \subseteq AllCoins /\ SpentFrom(Q, b) \subseteq AllCoins
      /\ SpentFrom({t}, b) \subseteq AllCoins
  BY MeantAreCoins DEF SpentFrom
<1>8. /\ Valued(txs, NewTo(Q, b)) /\ Valued(txs, NewTo({t}, b))
      /\ Valued(txs, SpentFrom(Q, b)) /\ Valued(txs, SpentFrom({t}, b))
      /\ Valued(txs, NewTo(Q, b) \cup NewTo({t}, b))
      /\ Valued(txs, SpentFrom(Q, b) \cup SpentFrom({t}, b))
  BY <1>2, <1>3, <1>6, <1>7, CoinsValued
<1>9. \A P \in SUBSET unmined : IsFiniteSet(P) /\ \A u \in P : Paid(u) \in Int
  <2>1. IsFiniteSet(1 .. made) BY LedgerAssumption, FS_Interval DEF Shape, ID
  <2> QED BY <2>1, FS_Subset, PaymentValues DEF Shape
<1>10. /\ PaidTo(Q, b) \subseteq unmined /\ PaidTo({t}, b) \subseteq unmined
       /\ PaidFrom(Q, b) \subseteq unmined /\ PaidFrom({t}, b) \subseteq unmined
       /\ PaidTo(Q, b) \cup PaidTo({t}, b) \subseteq unmined
       /\ PaidFrom(Q, b) \cup PaidFrom({t}, b) \subseteq unmined
  BY DEF PaidTo, PaidFrom
<1>11. AmountIn(txs, NewTo(R, b)) = AmountIn(txs, NewTo(Q, b)) + AmountIn(txs, NewTo({t}, b))
  <2>1. AmountIn(txs, NewTo(Q, b) \cup NewTo({t}, b))
          = AmountIn(txs, NewTo(Q, b)) + AmountIn(txs, NewTo({t}, b))
    BY <1>2, <1>8, AmountSplit
  <2> QED BY <1>2, <2>1
<1>12. AmountIn(txs, SpentFrom(R, b))
         = AmountIn(txs, SpentFrom(Q, b)) + AmountIn(txs, SpentFrom({t}, b))
  <2>1. AmountIn(txs, SpentFrom(Q, b) \cup SpentFrom({t}, b))
          = AmountIn(txs, SpentFrom(Q, b)) + AmountIn(txs, SpentFrom({t}, b))
    BY <1>3, <1>8, AmountSplit
  <2> QED BY <1>3, <2>1
<1>13. Sum(PaidTo(R, b)) = Sum(PaidTo(Q, b)) + Sum(PaidTo({t}, b))
  <2>1. IsFiniteSet(PaidTo(Q, b) \cup PaidTo({t}, b)) BY <1>9, <1>10
  <2>2. \A u \in PaidTo(Q, b) \cup PaidTo({t}, b) : Paid(u) \in Int BY <1>9, <1>10
  <2> QED BY <1>4, <2>1, <2>2, PaidSplit
<1>14. Sum(PaidFrom(R, b)) = Sum(PaidFrom(Q, b)) + Sum(PaidFrom({t}, b))
  <2>1. IsFiniteSet(PaidFrom(Q, b) \cup PaidFrom({t}, b)) BY <1>9, <1>10
  <2>2. \A u \in PaidFrom(Q, b) \cup PaidFrom({t}, b) : Paid(u) \in Int BY <1>9, <1>10
  <2> QED BY <1>5, <2>1, <2>2, PaidSplit
<1>15. /\ AmountIn(txs, NewTo(Q, b)) \in Int /\ AmountIn(txs, NewTo({t}, b)) \in Int
       /\ AmountIn(txs, SpentFrom(Q, b)) \in Int /\ AmountIn(txs, SpentFrom({t}, b)) \in Int
  BY <1>8, AmountInt
<1>16. /\ Sum(PaidTo(Q, b)) \in Int /\ Sum(PaidTo({t}, b)) \in Int
       /\ Sum(PaidFrom(Q, b)) \in Int /\ Sum(PaidFrom({t}, b)) \in Int
  BY <1>9, <1>10, PaidInt
<1> QED BY <1>1, <1>11, <1>12, <1>13, <1>14, <1>15, <1>16 DEF Even

\* A block takes from an address what it gives, but for what others pay.
LEMMA EvenBlock ==
  ASSUME Shape, OutputsOK, Payments, NEW S \in SUBSET unmined, SourcesDiffer(S), NEW b
  PROVE  Even(S, b)
<1> DEFINE Bad == {R \in SUBSET S : ~Even(R, b)}
<1>1. SUFFICES ASSUME Bad # {} PROVE FALSE OBVIOUS
<1>2. IsFiniteSet(S)
  <2>1. IsFiniteSet(1 .. made) BY LedgerAssumption, FS_Interval DEF Shape, ID
  <2> QED BY <2>1, FS_Subset DEF Shape
<1>3. PICK R \in Bad : \A P \in Bad : Cardinality(R) <= Cardinality(P)
  <2>1. Bad \subseteq SUBSET S OBVIOUS
  <2> HIDE DEF Bad
  <2> QED BY <1>1, <1>2, <2>1, SmallestSet
<1>4. R # {}
  <2>1. /\ NewTo({}, b) = {} /\ SpentFrom({}, b) = {}
        /\ PaidTo({}, b) = {} /\ PaidFrom({}, b) = {}
    BY DEF NewTo, SpentFrom, PaidTo, PaidFrom
  <2>2. Even({}, b) BY <2>1, AmountNone, PaidNone DEF Even
  <2> QED BY <2>2
<1>5. PICK t \in R : TRUE BY <1>4
<1>6. R \ {t} \notin Bad
  <2>1. IsFiniteSet(R) /\ Cardinality(R) \in Nat BY <1>2, FS_Subset, FS_CardinalityType
  <2>2. Cardinality(R \ {t}) = Cardinality(R) - 1 BY <2>1, FS_RemoveElement
  <2> QED BY <1>3, <2>1, <2>2
<1>7. Even(R \ {t}, b) BY <1>6
<1>8. (R \ {t}) \cup {t} = R /\ t \in S \ (R \ {t}) /\ R \ {t} \in SUBSET S OBVIOUS
<1>9. Even((R \ {t}) \cup {t}, b) BY <1>7, <1>8, EvenBoth
<1> QED BY <1>8, <1>9

-----------------------------------------------------------------------------
(* Every step of the wallets and of the miners keeps the balances. *)

LEMMA MoneyInit == LInit => MoneyInv
<1> SUFFICES ASSUME LInit PROVE MoneyInv OBVIOUS
<1>1. OneInputInv BY OneInputInit
<1>2. PICK a \in Address :
        /\ txs = [t \in ID |-> IF t = 0 THEN CoinbaseTo(a) ELSE NoTx]
        /\ listed = [t \in ID |-> IF t = 0 THEN {1} ELSE {}]
        /\ worth = [x \in Address |-> IF x = a THEN Subsidy ELSE 0]
  BY DEF LInit
<1>3. 0 \in ID /\ unmined = {} /\ intact = TRUE BY LedgerAssumption DEF LInit, ID
<1>4. /\ txs[0].outs = <<[owner |-> a, value |-> Subsidy]>>
      /\ \A t \in ID \ {0} : txs[t].outs = <<>>
  BY <1>2, <1>3 DEF CoinbaseTo, NoTx
<1>5. OutputsOK BY <1>4, LedgerAssumption DEF OutputsOK
<1>6. Payments BY <1>3 DEF Payments
<1>7. History BY <1>2, <1>3, LedgerAssumption DEF History
<1>8. ASSUME NEW b \in Address PROVE Balance(b) = worth[b]
  <2>1. \A c \in Coins(b) : c = <<0, 1>> /\ b = a
    <3> SUFFICES ASSUME NEW c \in Coins(b) PROVE c = <<0, 1>> /\ b = a OBVIOUS
    <3>1. /\ c = <<c[1], c[2]>> /\ c[1] \in ID /\ c[2] \in listed[c[1]]
          /\ txs[c[1]].outs[c[2]].owner = b
      BY <1>1, CoinsOf DEF OneInputInv
    <3>2. c[1] = 0 /\ c[2] = 1 BY <1>2, <3>1
    <3> QED BY <1>4, <3>1, <3>2
  <2>2. b = a => <<0, 1>> \in Coins(b)
    <3>1. 1 \in listed[0] /\ txs[0].outs[1].owner = a BY <1>2, <1>3, <1>4
    <3> QED BY <1>1, <1>3, <3>1, CoinsOf DEF OneInputInv
  <2>3. CASE b = a
    <3>1. Coins(b) = {<<0, 1>>} BY <2>1, <2>2, <2>3
    <3>2. txs[0].outs[1].value = Subsidy BY <1>4
    <3>3. AmountIn(txs, {<<0, 1>>}) = Subsidy
      <4>1. txs[0].outs[1].value \in Int BY <3>2, LedgerAssumption
      <4>2. AmountIn(txs, {<<0, 1>>}) = txs[0].outs[1].value
        BY ONLY <4>1, AmountOutput
      <4> QED BY <3>2, <4>2
    <3> QED BY <1>2, <2>3, <3>1, <3>3 DEF Balance, Amount, AmountIn
  <2>4. CASE b # a
    <3>1. Coins(b) = {} BY <2>1, <2>4
    <3> QED BY <1>2, <2>4, <3>1, AmountNone DEF Balance, Amount, AmountIn
  <2> QED BY <2>3, <2>4
<1> QED BY <1>1, <1>5, <1>6, <1>7, <1>8 DEF MoneyInv, BalancesRight

\* A payment that waits stays as it is while the transactions it spends from do.
LEMMA PaymentStays ==
  ASSUME Shape, NEW t \in unmined, PaymentOK(t), made' \in Nat, made <= made',
         \A u \in 0 .. made : txs'[u] = txs[u]
  PROVE  PaymentOK(t)'
<1>1. made \in Nat BY LedgerAssumption DEF Shape, ID
<1>2. t \in 0 .. made BY <1>1 DEF Shape
<1>3. txs'[t] = txs[t] BY <1>2
<1>4. \A x \in txs[t].ins : x.tx \in 0 .. made /\ txs'[x.tx] = txs[x.tx]
  BY DEF PaymentOK
<1>5. Payer(t)' = Payer(t)
  <2>1. (CHOOSE y \in txs[t].ins : TRUE) \in txs[t].ins BY DEF PaymentOK
  <2> QED BY <1>3, <1>4, <2>1 DEF Payer
<1>6. /\ Payee(t)' = Payee(t) /\ Paid(t)' = Paid(t)
      /\ Change(t)' = Change(t) /\ Meant(t)' = Meant(t)
  BY <1>3 DEF Payee, Paid, Change, Meant
<1>7. Amount(Meant(t))' = Amount(Meant(t))
  <2>1. \A c \in Meant(t) : txs'[c[1]] = txs[c[1]] BY <1>4 DEF Meant
  <2>2. AmountIn(txs', Meant(t)) = AmountIn(txs, Meant(t)) BY <2>1, AmountAgree
  <2> QED BY <1>6, <2>2 DEF Amount, AmountIn
<1>8. \A n \in 0 .. made : n \in 0 .. made' BY <1>1
<1> QED BY <1>3, <1>4, <1>5, <1>6, <1>7, <1>8 DEF PaymentOK

\* A payment that is made changes no coin.
LEMMA CoinsStay ==
  ASSUME Shape, Shape', NEW new \in ID, UNCHANGED listed, listed[new] = {},
         \A t \in ID \ {new} : txs'[t] = txs[t], NEW b
  PROVE  Coins(b)' = Coins(b) /\ Balance(b)' = Balance(b)
<1>1. Coins(b)' = Coins(b) BY DEF Coins
<1>2. \A c \in Coins(b) : txs'[c[1]] = txs[c[1]] BY CoinsOf
<1>3. AmountIn(txs', Coins(b)) = AmountIn(txs, Coins(b)) BY <1>2, AmountAgree
<1> QED BY <1>1, <1>3 DEF Balance, Amount, AmountIn

LEMMA MoneySend ==
  ASSUME MoneyInv, NEW from \in Address, NEW to \in Address,
         NEW n \in 1 .. Subsidy * (made + 1), send(from, to, n)
  PROVE  MoneyInv'
<1> USE DEF MoneyInv
<1> PICK new : new = made + 1 OBVIOUS
<1>1. OneInputInv' BY OneInputSend
<1>2. Shape /\ Shape' BY <1>1 DEF OneInputInv
<1>3. PICK C \in Spendable(from, n) : txs' = [txs EXCEPT ![new] = Paying(from, to, n, C)]
  BY DEF send
<1>4. C \subseteq Coins(from) /\ C # {} /\ Amount(C) >= n BY DEF Spendable
<1>5. /\ new \in ID /\ made' = new /\ made \in Nat /\ from # to
      /\ unmined' = unmined \cup {new} /\ UNCHANGED <<listed, worth, intact>>
  BY <1>2, LedgerAssumption DEF send, ID, Shape
<1>6. txs'[new] = Paying(from, to, n, C) BY <1>2, <1>3, <1>5 DEF Shape
<1>7. \A t \in ID \ {new} : txs'[t] = txs[t] BY <1>2, <1>3 DEF Shape
<1>8. listed[new] = {} /\ \A u \in 0 .. made : u \in ID \ {new} /\ txs'[u] = txs[u]
  <2>1. txs[new] = NoTx BY <1>2, <1>5 DEF Shape
  <2>2. listed[new] = {} BY <1>2, <1>5, <2>1 DEF Shape, NoTx
  <2> QED BY <1>2, <1>5, <1>7, <2>2, LedgerAssumption DEF ID, Shape
<1>9. n \in Nat /\ n > 0
  <2>1. Subsidy * (made + 1) \in Int BY <1>5, LedgerAssumption
  <2> QED BY <2>1
<1>10. Amount(C) \in Int
  <2>1. C \in SUBSET AllCoins BY <1>2, <1>4, CoinsOf
  <2>2. Valued(txs, C) BY <1>2, <2>1, CoinsValued
  <2> QED BY <2>2, AmountInt DEF Amount, AmountIn
\* The outputs of the new payment.
<1>11. /\ txs'[new].outs[1] = [owner |-> to, value |-> n] /\ 1 \in DOMAIN txs'[new].outs
       /\ DOMAIN txs'[new].outs \subseteq {1, 2}
       /\ Amount(C) > n =>
            /\ DOMAIN txs'[new].outs = {1, 2}
            /\ txs'[new].outs[2] = [owner |-> from, value |-> Amount(C) - n]
       /\ ~(Amount(C) > n) => DOMAIN txs'[new].outs = {1}
  <2> DEFINE outs == Paying(from, to, n, C).outs
             first == [owner |-> to, value |-> n]
             second == [owner |-> from, value |-> Amount(C) - n]
  <2>1. CASE Amount(C) > n
    <3>1. outs = <<first>> \o <<second>> BY <2>1 DEF Paying
    <3>2. \A x, y : LET s == <<x>> \o <<y>> IN DOMAIN s = {1, 2} /\ s[1] = x /\ s[2] = y
      OBVIOUS
    <3>3. DOMAIN outs = {1, 2} /\ outs[1] = first /\ outs[2] = second
      <4> HIDE DEF first, second, outs
      <4> QED BY <3>1, <3>2
    <3> HIDE DEF outs
    <3>4. txs'[new].outs = outs BY <1>6 DEF outs
    <3> QED BY <2>1, <3>3, <3>4
  <2>2. CASE ~(Amount(C) > n)
    <3>1. outs = <<first>> \o <<>> BY <2>2 DEF Paying
    <3>2. \A x : LET s == <<x>> \o <<>> IN DOMAIN s = {1} /\ s[1] = x OBVIOUS
    <3>3. DOMAIN outs = {1} /\ outs[1] = first
      <4> HIDE DEF first, outs
      <4> QED BY <3>1, <3>2
    <3> HIDE DEF outs
    <3>4. txs'[new].outs = outs BY <1>6 DEF outs
    <3> QED BY <2>2, <3>3, <3>4
  <2> QED BY <2>1, <2>2
<1>12. OutputsOK'
  <2> SUFFICES ASSUME NEW t \in ID, NEW o \in DOMAIN txs'[t].outs
               PROVE  txs'[t].outs[o].owner \in Address /\ txs'[t].outs[o].value \in Nat
    BY DEF OutputsOK
  <2>1. CASE t # new BY <1>7, <2>1 DEF OutputsOK
  <2>2. CASE t = new
    <3>1. CASE o = 1 BY <1>9, <1>11, <2>2, <3>1
    <3>2. CASE o # 1
      <4>1. o = 2 /\ Amount(C) > n BY <1>11, <2>2, <3>2
      <4>2. Amount(C) - n \in Nat BY <1>9, <1>10, <4>1
      <4> QED BY <1>11, <2>2, <4>1, <4>2
    <3> QED BY <3>1, <3>2
  <2> QED BY <2>1, <2>2
<1>13. PaymentOK(new)'
  <2>1. txs'[new].ins = {Input(c) : c \in C} BY <1>6 DEF Paying
  <2>2. ASSUME NEW c \in C
        PROVE  /\ c = <<c[1], c[2]>> /\ c[1] \in 0 .. made
               /\ Input(c).tx = c[1] /\ Input(c).means = c[2]
               /\ c[2] \in DOMAIN txs[c[1]].outs /\ txs[c[1]].outs[c[2]].owner = from
               /\ txs'[c[1]] = txs[c[1]]
    <3>1. /\ c \in Coins(from) /\ c = <<c[1], c[2]>> /\ c \in AllCoins
          /\ c[1] \in ID /\ txs[c[1]].outs[c[2]].owner = from
      BY <1>2, <1>4, CoinsOf
    <3>2. c[2] \in DOMAIN txs[c[1]].outs BY <3>1 DEF AllCoins
    <3>3. ~(c[1] > made)
      <4>1. c[1] > made => txs[c[1]].outs = <<>> BY <1>2, <3>1 DEF Shape, NoTx
      <4> QED BY <3>2, <4>1
    <3>4. c[1] \in 0 .. made BY <1>2, <1>5, <3>1, <3>3, LedgerAssumption DEF ID
    <3> QED BY <1>8, <3>1, <3>2, <3>4 DEF Input
  <2>3. \A x \in txs'[new].ins :
          /\ x.tx \in 0 .. made' /\ x.means \in DOMAIN txs'[x.tx].outs
          /\ txs'[x.tx].outs[x.means].owner = from
    <3> SUFFICES ASSUME NEW c \in C
                 PROVE  LET x == Input(c)
                        IN  /\ x.tx \in 0 .. made' /\ x.means \in DOMAIN txs'[x.tx].outs
                            /\ txs'[x.tx].outs[x.means].owner = from
      BY <2>1
    <3>1. c[1] \in 0 .. made' BY <1>5, <2>2
    <3> QED BY <2>2, <3>1
  <2>4. txs'[new].ins # {} BY <1>4, <2>1
  <2>5. Payer(new)' = from
    <3>1. (CHOOSE y \in txs'[new].ins : TRUE) \in txs'[new].ins BY <2>4
    <3>2. Payer(new)' = LET x == CHOOSE y \in txs'[new].ins : TRUE
                        IN  txs'[x.tx].outs[x.means].owner
      BY <1>5 DEF Payer
    <3> QED BY <2>3, <3>1, <3>2
  <2>6. Payee(new)' = to /\ Paid(new)' = n BY <1>5, <1>11 DEF Payee, Paid
  <2>7. Meant(new)' = C
    <3>1. Meant(new)' = {<<x.tx, x.means>> : x \in txs'[new].ins} BY <1>5 DEF Meant
    <3>2. \A c \in C : <<Input(c).tx, Input(c).means>> = c BY <2>2
    <3>3. ASSUME NEW x \in txs'[new].ins PROVE <<x.tx, x.means>> \in C
      <4>1. PICK c \in C : x = Input(c) BY <2>1
      <4> QED BY <3>2, <4>1
    <3>4. ASSUME NEW c \in C PROVE \E x \in txs'[new].ins : <<x.tx, x.means>> = c
      BY <2>1, <3>2
    <3> DEFINE ins == txs'[new].ins
    <3>5. \A x \in ins : <<x.tx, x.means>> \in C BY <3>3
    <3>6. \A c \in C : \E x \in ins : <<x.tx, x.means>> = c BY <3>4
    <3>7. Meant(new)' = {<<x.tx, x.means>> : x \in ins} BY <3>1
    <3> HIDE DEF ins
    <3> QED BY <3>5, <3>6, <3>7
  <2>8. Amount(Meant(new))' = Amount(C)
    <3>1. AmountIn(txs', C) = AmountIn(txs, C) BY <2>2, AmountAgree
    <3> QED BY <2>7, <3>1 DEF Amount, AmountIn
  <2>9. Amount(C) = n + Change(new)'
    <3>1. CASE Amount(C) > n BY <1>5, <1>9, <1>10, <1>11, <3>1 DEF Change
    <3>2. CASE ~(Amount(C) > n) BY <1>4, <1>5, <1>9, <1>10, <1>11, <3>2 DEF Change
    <3> QED BY <3>1, <3>2
  <2>10. 2 \in DOMAIN txs'[new].outs => txs'[new].outs[2].owner = from BY <1>11
  <2> QED BY <1>5, <1>11, <2>3, <2>4, <2>5, <2>6, <2>8, <2>9, <2>10 DEF PaymentOK
<1>14. Payments'
  <2>1. \A t \in unmined : PaymentOK(t)'
    BY <1>2, <1>5, <1>8, PaymentStays DEF Payments
  <2>2. \A t \in unmined' : listed'[t] = {} BY <1>5, <1>8 DEF Payments
  <2>3. \A t \in unmined' : t \in unmined \/ t = new BY <1>5
  <2> QED BY <1>13, <2>1, <2>2, <2>3 DEF Payments
<1>15. History' BY <1>5 DEF History
<1>16. BalancesRight'
  <2>1. \A b : Balance(b)' = Balance(b) BY <1>2, <1>5, <1>7, <1>8, CoinsStay
  <2> QED BY <1>5, <2>1 DEF BalancesRight
<1> QED BY <1>1, <1>12, <1>14, <1>15, <1>16

\* Of the outputs of a transaction, a block keeps those it does not spend.
LEMMA KeptExact ==
  ASSUME OneInputInv, NEW S \in SUBSET unmined, SourcesDiffer(S), NEW t \in ID,
         \A u \in S : \A x \in txs[u].ins :
           x.means \in listed[x.tx] /\ Position(x.tx, x.means) = x.vout
  PROVE  Kept(t, S)
           = {o \in listed[t] : ~ \E u \in S : \E x \in txs[u].ins : x.tx = t /\ x.means = o}
<1> USE DEF OneInputInv
<1>1. Dropped(t, S) = Named(t, S) BY NothingShifts
<1>2. listed[t] \subseteq {1, 2} BY DEF Shape
<1>3. ASSUME NEW o \in listed[t], NEW p \in listed[t], o < p
      PROVE  Position(t, o) # Position(t, p)
  <2> DEFINE O == {x \in listed[t] : x <= o}
             P == {x \in listed[t] : x <= p}
  <2>1. O \subseteq P /\ p \in P /\ p \notin O BY <1>2, <1>3
  <2>2. IsFiniteSet(P)
    <3>1. 1 \in Int /\ 2 \in Int OBVIOUS
    <3>2. IsFiniteSet(1 .. 2) BY <3>1, FS_Interval, Zenon
    <3>3. P \subseteq 1 .. 2 BY <1>2
    <3> QED BY <3>2, <3>3, FS_Subset
  <2> HIDE DEF O, P
  <2>3. Cardinality(O) # Cardinality(P) BY <2>1, <2>2, FS_Subset
  <2> QED BY <2>3 DEF Position, O, P
<1>4. \A o \in listed[t], p \in listed[t] : Position(t, o) = Position(t, p) => o = p
  <2> SUFFICES ASSUME NEW o \in listed[t], NEW p \in listed[t], o # p
               PROVE  Position(t, o) # Position(t, p)
    OBVIOUS
  <2>1. o < p \/ p < o BY <1>2
  <2> QED BY <1>3, <2>1
<1>5. ASSUME NEW o \in listed[t]
      PROVE  Position(t, o) \in Named(t, S) <=>
               \E u \in S : \E x \in txs[u].ins : x.tx = t /\ x.means = o
  <2>1. ASSUME Position(t, o) \in Named(t, S)
        PROVE  \E u \in S : \E x \in txs[u].ins : x.tx = t /\ x.means = o
    <3>1. PICK u \in S : \E x \in txs[u].ins : x.tx = t /\ x.vout = Position(t, o)
      BY <2>1 DEF Named
    <3>2. PICK x \in txs[u].ins : x.tx = t /\ x.vout = Position(t, o) BY <3>1
    <3>3. x.means \in listed[t] /\ Position(t, x.means) = Position(t, o) BY <3>2
    <3> QED BY <1>4, <3>2, <3>3
  <2>2. ASSUME NEW u \in S, NEW x \in txs[u].ins, x.tx = t, x.means = o
        PROVE  Position(t, o) \in Named(t, S)
    <3>1. x.vout = Position(t, o) BY <2>2
    <3> QED BY <2>2, <3>1 DEF Named
  <2> QED BY <2>1, <2>2
<1> QED BY <1>1, <1>5 DEF Kept

LEMMA MoneyMine ==
  ASSUME MoneyInv, NEW a \in Address, NEW S \in SUBSET unmined, MineAndBook(a, S)
  PROVE  MoneyInv'
<1> USE DEF MoneyInv
<1> PICK new : new = made + 1 OBVIOUS
<1>1. OneInputInv' BY OneInputMine
<1>2. Shape /\ Shape' BY <1>1 DEF OneInputInv
<1>3. /\ new \in ID /\ made' = new /\ made \in Nat
      /\ unmined' = unmined \ S /\ SourcesDiffer(S)
  BY <1>2, LedgerAssumption DEF MineAndBook, ID, Shape
<1>4. txs' = [txs EXCEPT ![new] = CoinbaseTo(a)] BY DEF MineAndBook
<1>5. /\ txs'[new].outs = <<[owner |-> a, value |-> Subsidy]>>
      /\ \A t \in ID \ {new} : txs'[t] = txs[t]
  BY <1>2, <1>3, <1>4 DEF Shape, CoinbaseTo
<1>6. /\ \A u \in 0 .. made : u \in ID \ {new} /\ txs'[u] = txs[u]
      /\ \A u \in unmined : u \in 0 .. made
  BY <1>2, <1>3, <1>5, LedgerAssumption DEF ID, Shape
<1>7. listed[new] = {}
  <2>1. txs[new] = NoTx BY <1>2, <1>3 DEF Shape
  <2> QED BY <1>2, <1>3, <2>1 DEF Shape, NoTx
<1>8. OutputsOK' BY <1>5, LedgerAssumption DEF OutputsOK
<1>9. listed' = [t \in ID |-> IF t \in S \cup {new} THEN DOMAIN txs'[t].outs ELSE Kept(t, S)]
  BY <1>3 DEF MineAndBook
<1>10. Payments'
  <2>1. \A t \in unmined : PaymentOK(t)' BY <1>2, <1>3, <1>6, PaymentStays DEF Payments
  <2>2. ASSUME NEW t \in unmined' PROVE listed'[t] = {}
    <3>1. t \in unmined /\ t \notin S /\ t \in ID /\ t # new BY <1>3, <1>6
    <3>2. listed'[t] = Kept(t, S) BY <1>9, <3>1
    <3> QED BY <3>1, <3>2 DEF Payments, Kept
  <2> QED BY <1>3, <2>1, <2>2 DEF Payments
<1>11. \A P \in SUBSET S : Sum(P) \in Int
  <2>1. IsFiniteSet(1 .. made) BY <1>3, FS_Interval
  <2>2. \A P \in SUBSET S : IsFiniteSet(P) /\ \A u \in P : Paid(u) \in Int
    BY <1>2, <2>1, FS_Subset, PaymentValues DEF Shape
  <2> QED BY <2>2, PaidInt
<1>12. PaidTo(S, a) \subseteq S /\ \A b : PaidTo(S, b) \in SUBSET S /\ PaidFrom(S, b) \in SUBSET S
  BY DEF PaidTo, PaidFrom
<1>13. worth' = [x \in Address |-> worth[x] + (IF x = a THEN Subsidy ELSE 0)
                   + Sum(PaidTo(S, x)) - Sum(PaidFrom(S, x))]
  BY DEF MineAndBook, PaidTo, PaidFrom
<1>14. History'
  <2>1. \A x \in Address : worth[x] + (IF x = a THEN Subsidy ELSE 0)
                             + Sum(PaidTo(S, x)) - Sum(PaidFrom(S, x)) \in Int
    BY <1>11, <1>12, LedgerAssumption DEF History
  <2>2. intact' \in BOOLEAN BY DEF MineAndBook
  <2> QED BY <1>13, <2>1, <2>2 DEF History
<1>15. ASSUME intact', NEW b \in Address PROVE Balance(b)' = worth'[b]
  <2>1. /\ intact
        /\ \A t \in S : \A x \in txs[t].ins :
             x.means \in listed[x.tx] /\ Position(x.tx, x.means) = x.vout
    BY <1>15 DEF MineAndBook
  <2> DEFINE Rest  == Coins(b) \ SpentFrom(S, b)
             Given == NewTo(S, b)
             Prize == IF b = a THEN {<<new, 1>>} ELSE {}
  <2>2. /\ \A t, o : <<t, o>> \in Coins(b)'
                        <=> t \in ID /\ o \in listed'[t] /\ txs'[t].outs[o].owner = b
        /\ \A c \in Coins(b)' : c = <<c[1], c[2]>> /\ c[1] \in ID /\ c[2] \in listed'[c[1]]
    BY CoinMembers DEF Coins
  <2>3. /\ \A t, o : <<t, o>> \in Coins(b)
                        <=> t \in ID /\ o \in listed[t] /\ txs[t].outs[o].owner = b
        /\ \A c \in Coins(b) : c = <<c[1], c[2]>> /\ c[1] \in ID /\ c \in AllCoins
    BY <1>2, CoinsOf DEF AllCoins
  <2>4. \A t, o : <<t, o>> \in SpentFrom(S, b)
                    <=> \E u \in S : Payer(u) = b /\ \E x \in txs[u].ins : x.tx = t /\ x.means = o
    BY DEF SpentFrom, Meant
  <2>5. \A t, o : <<t, o>> \in NewTo(S, b)
                    <=> t \in S /\ o \in DOMAIN txs[t].outs /\ txs[t].outs[o].owner = b
    <3>1. \A t \in S : t \in ID /\ DOMAIN txs[t].outs \subseteq {1, 2} BY <1>2, <1>6 DEF Shape
    <3> QED BY <3>1 DEF NewTo, AllCoins
\* The owner of what a payment spends is its payer.
  <2>6. \A u \in S : \A x \in txs[u].ins : txs[x.tx].outs[x.means].owner = Payer(u)
    BY DEF Payments, PaymentOK
  <2>7. ASSUME NEW t, NEW o
        PROVE  <<t, o>> \in Coins(b)' <=> <<t, o>> \in Rest \cup Given \cup Prize
    <3>1. CASE t \notin ID
      <4>1. t \notin S /\ t # new BY <1>3, <1>6, <3>1
      <4> QED BY <2>2, <2>3, <2>5, <3>1, <4>1
    <3>2. CASE t = new
      <4>1. listed'[t] = {1} /\ txs'[t].outs[1].owner = a BY <1>3, <1>5, <1>9, <3>2
      <4>2. t \notin S /\ listed[t] = {} /\ t \in ID BY <1>3, <1>6, <1>7, <3>2
      <4> QED BY <2>2, <2>3, <2>5, <3>2, <4>1, <4>2
    <3>3. CASE t \in S
      <4>1. t \in ID /\ t # new /\ listed[t] = {} BY <1>6, <3>3 DEF Payments
      <4>2. listed'[t] = DOMAIN txs[t].outs /\ txs'[t] = txs[t] BY <1>5, <1>9, <3>3, <4>1
      <4> QED BY <2>2, <2>3, <2>5, <3>3, <4>1, <4>2
    <3>4. CASE t \in ID /\ t \notin S /\ t # new
      <4>1. listed'[t] = Kept(t, S) /\ txs'[t] = txs[t] BY <1>5, <1>9, <3>4
      <4>2. Kept(t, S)
              = {p \in listed[t] : ~ \E u \in S : \E x \in txs[u].ins : x.tx = t /\ x.means = p}
        BY <1>3, <2>1, <3>4, KeptExact
      <4>3. CASE txs[t].outs[o].owner # b BY <2>2, <2>3, <2>5, <3>4, <4>1, <4>3
      <4>4. CASE txs[t].outs[o].owner = b
        <5>1. <<t, o>> \in SpentFrom(S, b)
                <=> \E u \in S : \E x \in txs[u].ins : x.tx = t /\ x.means = o
          BY <2>4, <2>6, <4>4
        <5> QED BY <2>2, <2>3, <2>5, <3>4, <4>1, <4>2, <4>4, <5>1
      <4> QED BY <4>3, <4>4
    <3> QED BY <3>1, <3>2, <3>3, <3>4
  <2>8. Coins(b)' = Rest \cup Given \cup Prize
    <3>1. \A c \in Rest \cup Given \cup Prize : c = <<c[1], c[2]>>
      BY <2>3 DEF NewTo, AllCoins
    <3> HIDE DEF Rest, Given, Prize
    <3> QED BY <2>2, <2>7, <3>1
  <2>9. SpentFrom(S, b) \subseteq Coins(b)
    <3> SUFFICES ASSUME NEW u \in S, Payer(u) = b, NEW x \in txs[u].ins
                 PROVE  <<x.tx, x.means>> \in Coins(b)
      BY DEF SpentFrom, Meant
    <3>1. x.tx \in 0 .. made BY DEF Payments, PaymentOK
    <3> QED BY <1>6, <2>1, <2>3, <2>6, <3>1
  <2>10. \A c \in Given : c[1] \in S /\ c[1] \in ID /\ listed[c[1]] = {} /\ c[1] # new
    BY <1>6 DEF NewTo, AllCoins, Payments
  <2>11. \A c \in Coins(b) : c[1] \in ID /\ c[2] \in listed[c[1]] /\ c[1] # new
    <3> SUFFICES ASSUME NEW c \in Coins(b)
                 PROVE  c[1] \in ID /\ c[2] \in listed[c[1]] /\ c[1] # new
      OBVIOUS
    <3>1. <<c[1], c[2]>> \in Coins(b) BY <2>3
    <3>2. c[1] \in ID /\ c[2] \in listed[c[1]] BY <2>3, <3>1
    <3> QED BY <1>7, <3>2
  <2>12. Rest \cap Given = {} BY <2>10, <2>11
  <2>13. (Rest \cup Given) \cap Prize = {} BY <2>10, <2>11
  <2>14. \A c \in Rest \cup Given : txs'[c[1]] = txs[c[1]] BY <1>5, <2>10, <2>11
  <2>15. Valued(txs, Rest \cup Given) /\ Valued(txs, Rest) /\ Valued(txs, Given)
    <3>1. Rest \cup Given \subseteq AllCoins BY <2>3 DEF NewTo
    <3> HIDE DEF Rest, Given
    <3> QED BY <1>2, <3>1, CoinsValued
  <2>16. Valued(txs', Rest \cup Given)
    <3> HIDE DEF Rest, Given
    <3> QED BY <2>14, <2>15 DEF Valued
  <2>17. IsFiniteSet(Prize) /\ \A c \in Prize : txs'[c[1]].outs[c[2]].value \in Int
    <3>1. IsFiniteSet(Prize) BY FS_Singleton, FS_EmptySet
    <3>2. txs'[new].outs[1].value = Subsidy BY <1>5
    <3>3. \A c \in Prize : c[1] = new /\ c[2] = 1 OBVIOUS
    <3> QED BY <3>1, <3>2, <3>3, LedgerAssumption
  <2>18. Valued(txs', (Rest \cup Given) \cup Prize)
    <3>1. IsFiniteSet((Rest \cup Given) \cup Prize)
      <4> HIDE DEF Rest, Given, Prize
      <4> QED BY <2>16, <2>17, FS_Union DEF Valued
    <3> HIDE DEF Rest, Given, Prize
    <3> QED BY <2>16, <2>17, <3>1 DEF Valued
  <2>19. AmountIn(txs', Prize) = IF b = a THEN Subsidy ELSE 0
    <3>1. CASE b = a
      <4>1. txs'[new].outs[1].value = Subsidy BY <1>5
      <4>2. txs'[new].outs[1].value \in Int BY <4>1, LedgerAssumption
      <4>3. AmountIn(txs', {<<new, 1>>}) = txs'[new].outs[1].value BY <4>2, AmountOutput
      <4> QED BY <3>1, <4>1, <4>3
    <3>2. CASE b # a BY <3>2, AmountNone
    <3> QED BY <3>1, <3>2
  <2>20. Balance(b) = AmountIn(txs, Rest) + AmountIn(txs, SpentFrom(S, b))
    <3>1. Coins(b) = Rest \cup SpentFrom(S, b) /\ Rest \cap SpentFrom(S, b) = {} BY <2>9
    <3>2. Valued(txs, Rest \cup SpentFrom(S, b))
      <4>1. Coins(b) \subseteq AllCoins BY <2>3
      <4> HIDE DEF Rest
      <4> QED BY <1>2, <3>1, <4>1, CoinsValued
    <3> HIDE DEF Rest
    <3>3. AmountIn(txs, Rest \cup SpentFrom(S, b))
            = AmountIn(txs, Rest) + AmountIn(txs, SpentFrom(S, b))
      BY <3>1, <3>2, AmountSplit
    <3> QED BY <3>1, <3>3 DEF Balance, Amount, AmountIn
  <2>21. Balance(b)' = AmountIn(txs, Rest) + AmountIn(txs, Given) + AmountIn(txs', Prize)
    <3> HIDE DEF Rest, Given, Prize
    <3>1. AmountIn(txs', (Rest \cup Given) \cup Prize)
            = AmountIn(txs', Rest \cup Given) + AmountIn(txs', Prize)
      BY <2>13, <2>18, AmountSplit
    <3>2. AmountIn(txs, Rest \cup Given) = AmountIn(txs, Rest) + AmountIn(txs, Given)
      BY <2>12, <2>15, AmountSplit
    <3>3. AmountIn(txs', Rest \cup Given) = AmountIn(txs, Rest \cup Given)
      BY <2>14, AmountAgree
    <3>4. Balance(b)' = AmountIn(txs', Coins(b)') BY DEF Balance, Amount, AmountIn
    <3> QED BY <2>8, <3>1, <3>2, <3>3, <3>4
  <2>22. AmountIn(txs, Given) + Sum(PaidFrom(S, b))
           = AmountIn(txs, SpentFrom(S, b)) + Sum(PaidTo(S, b))
    BY <1>2, <1>3, EvenBlock DEF Even
  <2>23. /\ AmountIn(txs, Rest) \in Int /\ AmountIn(txs, Given) \in Int
         /\ AmountIn(txs, SpentFrom(S, b)) \in Int
    <3>1. SpentFrom(S, b) \subseteq AllCoins BY <2>3, <2>9
    <3>2. Valued(txs, SpentFrom(S, b)) BY <1>2, <3>1, CoinsValued
    <3> HIDE DEF Rest, Given
    <3> QED BY <2>15, <3>2, AmountInt
  <2>24. Sum(PaidTo(S, b)) \in Int /\ Sum(PaidFrom(S, b)) \in Int BY <1>11, <1>12
  <2>25. Balance(b) = worth[b] BY <2>1 DEF BalancesRight
  <2>26. worth'[b] = worth[b] + (IF b = a THEN Subsidy ELSE 0)
                       + Sum(PaidTo(S, b)) - Sum(PaidFrom(S, b))
    BY <1>13
  <2> HIDE DEF Rest, Given, Prize
  <2> QED BY <2>19, <2>20, <2>21, <2>22, <2>23, <2>24, <2>25, <2>26, LedgerAssumption
<1> QED BY <1>1, <1>8, <1>10, <1>14, <1>15 DEF BalancesRight

LEMMA MoneyNext == MoneyInv /\ [LNext]_lvars => MoneyInv'
<1> SUFFICES ASSUME MoneyInv, [LNext]_lvars PROVE MoneyInv' OBVIOUS
<1>1. CASE LNext BY <1>1, MoneySend, MoneyMine DEF LNext
<1>2. CASE UNCHANGED lvars
  <2>1. OneInputInv' BY <1>2, OneInputNext DEF MoneyInv
  <2>2. OutputsOK' /\ History' BY <1>2 DEF MoneyInv, lvars, OutputsOK, History
  <2>3. Payments'
    <3>1. made \in Nat BY LedgerAssumption DEF MoneyInv, OneInputInv, Shape, ID
    <3>2. \A t \in unmined : PaymentOK(t)'
      BY <1>2, <3>1, PaymentStays DEF MoneyInv, OneInputInv, Payments, lvars
    <3> QED BY <1>2, <3>2 DEF MoneyInv, lvars, Payments
  <2>4. BalancesRight' BY <1>2 DEF MoneyInv, lvars, BalancesRight, Balance, Coins, Amount
  <2> QED BY <2>1, <2>2, <2>3, <2>4 DEF MoneyInv
<1> QED BY <1>1, <1>2

LEMMA MoneyInvariance == LSpec => []MoneyInv
BY MoneyInit, MoneyNext, PTL DEF LSpec

(* The state of the ledger keeps its shape; no output of a payment that is *)
(* not mined is listed.                                                    *)
THEOREM LedgerTypeCorrect == LSpec => []LTypeOK
<1>1. MoneyInv => LTypeOK
  BY DEF MoneyInv, OneInputInv, Shape, Payments, History, LTypeOK
<1> QED BY <1>1, MoneyInvariance, PTL

(* As long as no position that a wallet wrote down has moved before its    *)
(* payment was mined, every balance is what the payments and the rewards   *)
(* add up to: for any number of wallets, any choice of outputs, with       *)
(* change, and any blocks.                                                 *)
THEOREM MoneyRight == LSpec => []BalancesRight
<1>1. MoneyInv => BalancesRight BY DEF MoneyInv
<1> QED BY <1>1, MoneyInvariance, PTL

-----------------------------------------------------------------------------
(* The wallet file. *)

Contents == [is : {"absent", "torn", "whole"}, keys : SUBSET Nat]

WTypeOK ==
  /\ file \in Contents /\ latest \in Contents
  /\ at \in [Process -> {"idle", "show", "add", "open", "write"}]
  /\ held \in [Process -> SUBSET Nat] /\ base \in [Process -> SUBSET Nat]
  /\ keysMade \in Nat /\ announced \in SUBSET Nat
  /\ overlapped \in BOOLEAN /\ cut \in BOOLEAN

\* A file that decodes is the last that was written to the end.
FileIsLatest ==
  /\ file.is = "whole" => file = latest
  /\ file.is = "absent" => file.keys = {} /\ latest.keys = {}

\* While nothing went wrong: one writer at most; a file is torn only while it
\* writes; and all keys are in the file, or in the hands of the writer.
Single == \A p \in Making, q \in Making : p = q
Safe   ==
  /\ file.is = "torn" => \E p \in Process : at[p] = "write"
  /\ file.is # "torn" => announced \subseteq file.keys
  /\ \A p \in Making : announced \subseteq held[p]

WInv ==
  /\ WTypeOK /\ FileIsLatest /\ NeverFromHalfAFile
  /\ ~overlapped => Single
  /\ ~overlapped /\ ~cut => Safe

LEMMA WInit_WInv == WInit => WInv
<1> SUFFICES ASSUME WInit PROVE WInv OBVIOUS
<1>1. WTypeOK BY DEF WInit, WTypeOK, Absent, Contents
<1>2. FileIsLatest BY DEF WInit, FileIsLatest, Absent
<1>3. NeverFromHalfAFile BY DEF WInit, NeverFromHalfAFile
<1>4. Making = {} BY DEF WInit, Making
<1>5. Single BY <1>4 DEF Single
<1>6. Safe BY <1>4 DEF WInit, Safe, Absent
<1> QED BY <1>1, <1>2, <1>3, <1>5, <1>6 DEF WInv

LEMMA WNext_WInv == WInv /\ [WNext]_wvars => WInv'
<1> SUFFICES ASSUME WInv, [WNext]_wvars PROVE WInv' OBVIOUS
<1> USE DEF WInv, WTypeOK, Making
<1>1. CASE UNCHANGED wvars
  BY <1>1 DEF wvars, FileIsLatest, NeverFromHalfAFile, Single, Safe
<1>2. ASSUME NEW p \in Process, NEW next \in {"add", "show"}, at[p] = "idle", NewWallets(p, next)
      PROVE  WInv'
  <2>1. WTypeOK' BY <1>2 DEF NewWallets, Contents
  <2>2. FileIsLatest' BY <1>2 DEF NewWallets, FileIsLatest
  <2>3. latest.keys \subseteq file.keys
    BY <1>2 DEF NewWallets, FileIsLatest, Contents
  <2>4. NeverFromHalfAFile' BY <1>2, <2>3 DEF NewWallets, NeverFromHalfAFile
  <2>5. ~overlapped' => Single' BY <1>2 DEF NewWallets, Single
  <2>6. ~overlapped' /\ ~cut' => Safe' BY <1>2 DEF NewWallets, Safe
  <2> QED BY <2>1, <2>2, <2>4, <2>5, <2>6
<1>3. ASSUME NEW p \in Process, Show(p) PROVE WInv'
  BY <1>3 DEF Show, FileIsLatest, NeverFromHalfAFile, Single, Safe
<1>4. ASSUME NEW p \in Process, CreateWallet(p) PROVE WInv'
  <2>1. WTypeOK' BY <1>4 DEF CreateWallet
  <2>2. FileIsLatest' BY <1>4 DEF CreateWallet, FileIsLatest
  <2>3. NeverFromHalfAFile' BY <1>4 DEF CreateWallet, NeverFromHalfAFile
  <2>4. ~overlapped' => Single' BY <1>4 DEF CreateWallet, Single
  <2>5. ~overlapped' /\ ~cut' => Safe' BY <1>4 DEF CreateWallet, Safe
  <2> QED BY <2>1, <2>2, <2>3, <2>4, <2>5
<1>5. ASSUME NEW p \in Process, Truncate(p) PROVE WInv'
  <2>1. WTypeOK' BY <1>5 DEF Truncate, Torn, Contents
  <2>2. FileIsLatest' BY <1>5 DEF Truncate, FileIsLatest, Torn
  <2>3. NeverFromHalfAFile' BY <1>5 DEF Truncate, NeverFromHalfAFile
  <2>4. ~overlapped' => Single' BY <1>5 DEF Truncate, Single
  <2>5. ~overlapped' /\ ~cut' => Safe' BY <1>5 DEF Truncate, Safe, Torn
  <2> QED BY <2>1, <2>2, <2>3, <2>4, <2>5
<1>6. ASSUME NEW p \in Process, Write(p) PROVE WInv'
  <2>1. WTypeOK' BY <1>6 DEF Write, Whole, Contents
  <2>2. FileIsLatest' BY <1>6 DEF Write, FileIsLatest, Whole
  <2>3. NeverFromHalfAFile' BY <1>6 DEF Write, NeverFromHalfAFile
  <2>4. ~overlapped' => Single' BY <1>6 DEF Write, Single
  <2>5. ~overlapped' /\ ~cut' => Safe'
    <3> SUFFICES ASSUME ~overlapped, ~cut PROVE Safe' BY <1>6 DEF Write
    <3>1. Making' = {} BY <1>6 DEF Write, Single
    <3>2. announced' \subseteq held[p] BY <1>6 DEF Write, Safe
    <3> QED BY <1>6, <3>1, <3>2 DEF Write, Safe, Whole
  <2> QED BY <2>1, <2>2, <2>3, <2>4, <2>5
<1>7. ASSUME NEW p \in Process, Stop(p) PROVE WInv'
  <2>1. WTypeOK' BY <1>7 DEF Stop, Torn, Contents
  <2>2. FileIsLatest' BY <1>7 DEF Stop, FileIsLatest, Torn
  <2>3. NeverFromHalfAFile' BY <1>7 DEF Stop, NeverFromHalfAFile
  <2>4. ~overlapped' => Single' BY <1>7 DEF Stop, Single
  <2>5. ~overlapped' /\ ~cut' => Safe' BY <1>7 DEF Stop, Safe
  <2> QED BY <2>1, <2>2, <2>3, <2>4, <2>5
<1> QED BY <1>1, <1>2, <1>3, <1>4, <1>5, <1>6, <1>7 DEF WNext

(* A command never works from a file another process is still writing,     *)
(* however many processes create wallets, fail or are killed.              *)
THEOREM WholeFilesOnly == WSpec => []NeverFromHalfAFile
<1>1. WInv => NeverFromHalfAFile BY DEF WInv
<1> QED BY <1>1, WInit_WInv, WNext_WInv, PTL DEF WSpec

(* An announced key is lost only if two createWallet overlapped or a write *)
(* was cut short.                                                          *)
THEOREM KeysKept == WSpec => []AnnouncedKept
<1>1. WInv => AnnouncedKept
  <2> SUFFICES ASSUME WInv, ~overlapped, ~cut
               PROVE  \/ file.is = "whole" /\ announced \subseteq file.keys
                      \/ file.is = "absent" /\ announced = {}
                      \/ \E p \in Process : at[p] = "write" /\ announced \subseteq held[p]
    BY DEF AnnouncedKept
  <2>1. Safe BY DEF WInv
  <2>2. CASE file.is = "torn" BY <2>1, <2>2 DEF Safe, Making
  <2>3. CASE file.is = "whole" BY <2>1, <2>3 DEF Safe
  <2>4. CASE file.is = "absent"
    <3>1. file.keys = {} BY <2>4 DEF WInv, FileIsLatest
    <3> QED BY <2>1, <2>4, <3>1 DEF Safe
  <2> QED BY <2>2, <2>3, <2>4 DEF WInv, WTypeOK, Contents
<1> QED BY <1>1, WInit_WInv, WNext_WInv, PTL DEF WSpec

(* A damaged file is never covered by a new one.                           *)
THEOREM DamageKept == WSpec => DamageIsKept
<1>1. WInv /\ [WNext]_wvars => [Damaged => Damaged']_wvars
  <2> SUFFICES ASSUME WInv, WNext, Damaged PROVE Damaged' OBVIOUS
  <2>1. \A p \in Process : at[p] \in {"idle", "show"}
    BY DEF WInv, WTypeOK, Damaged, Making
  <2>2. PICK p \in Process : Show(p) \/ Stop(p)
    BY <2>1 DEF WNext, NewWallets, CreateWallet, Truncate, Write, Damaged, Torn
  <2> QED BY <2>1, <2>2 DEF WInv, WTypeOK, Show, Stop, Damaged, Making
<1> QED BY <1>1, WInit_WInv, WNext_WInv, PTL DEF WSpec, DamageIsKept

=============================================================================
