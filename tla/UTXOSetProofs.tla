---------------------------- MODULE UTXOSetProofs ----------------------------
(***************************************************************************)
(* Theorems about the bucket "chainstate": its shape, that the scan of     *)
(* FindUTXO is exact, and that Update keeps the books right while nothing  *)
(* happens that it cannot deal with.                                       *)
(***************************************************************************)
EXTENDS UTXOSet, SequenceTheorems, TLAPS

-----------------------------------------------------------------------------
(* The two recursions of the model, as functions of the parents p and the  *)
(* payments q, so that the lemmas serve a state and its successor.         *)

Parents  == {p \in [Hash -> Hash \cup {None}] : \A h \in Hash : p[h] < h}
Payments == {q \in [Hash -> Payment] : \A h \in Hash : q[h].txid < h}

ChainOf(p) ==
  CHOOSE chain : chain = [h \in Hash |-> IF p[h] = None THEN {h} ELSE {h} \cup chain[p[h]]]

Without(n, gone) ==
  (IF 0 \in gone THEN <<>> ELSE <<0>>) \o (IF n = 1 \/ 1 \in gone THEN <<>> ELSE <<1>>)

Unspent(q, t, spent) == Without(q[t].outs, {i \in 0 .. 1 : <<t, i>> \in spent})

Walk(p, q, walk, at) ==
  IF p[at[1]] = None THEN [NoOutputs EXCEPT ![at[1]] = Unspent(q, at[1], at[2])]
  ELSE [walk[<<p[at[1]], at[2] \cup {<<q[at[1]].txid, q[at[1]].vout>>}>>]
          EXCEPT ![at[1]] = Unspent(q, at[1], at[2])]

WalkOf(p, q) == CHOOSE walk : walk = [at \in Hash \X Inputs |-> Walk(p, q, walk, at)]

ChainStep(p, chain, h) == IF p[h] = None THEN {h} ELSE {h} \cup chain[p[h]]
ChainDom(p)     == Hash
ChainRank(p, h) == h
ChainRec == INSTANCE Recursion WITH Dom <- ChainDom, Rank <- ChainRank, Def <- ChainStep

WalkStep(r, walk, at) == Walk(r[1], r[2], walk, at)
WalkDom(r)      == Hash \X Inputs
WalkRank(r, at) == at[1]
WalkRec == INSTANCE Recursion WITH Dom <- WalkDom, Rank <- WalkRank, Def <- WalkStep

-----------------------------------------------------------------------------
(* Chains. *)

LEMMA HashIsNat == Hash \subseteq Nat /\ Genesis \in Hash /\ None \notin Hash
BY UTXOAssumption DEF Hash, Genesis, None

LEMMA ChainIs == Chain = ChainOf(prev)
BY DEF Chain, ChainOf

\* The recursion of Chain has the solution it asks for.
LEMMA ChainValue ==
  ASSUME NEW p \in Parents, NEW h \in Hash
  PROVE  ChainOf(p)[h] = IF p[h] = None THEN {h} ELSE {h} \cup ChainOf(p)[p[h]]
<1>1. ChainRec!Ranked(p)
  BY HashIsNat DEF ChainRec!Ranked, ChainDom, ChainRank
<1>2. ChainRec!LooksDown(p)
  BY DEF ChainRec!LooksDown, ChainDom, ChainRank, ChainStep, Parents
<1>3. \E f : f = [x \in ChainDom(p) |-> ChainStep(p, f, x)]
  BY <1>1, <1>2, ChainRec!FunctionExists
<1>4. \E f : f = [x \in Hash |-> IF p[x] = None THEN {x} ELSE {x} \cup f[p[x]]]
  BY <1>3 DEF ChainDom, ChainStep
<1>5. ChainOf(p) = [x \in Hash |-> IF p[x] = None THEN {x} ELSE {x} \cup ChainOf(p)[p[x]]]
  BY <1>4, Zenon DEF ChainOf
<1> QED
  BY <1>5

\* A set of blocks that is not empty has a lowest one.
LEMMA LowestBlock ==
  ASSUME NEW T \in SUBSET Hash, T # {}
  PROVE  \E h \in T : \A g \in T : h <= g
BY HashIsNat, ChainRec!LeastNumber

\* The chain of h: h itself, and otherwise blocks with a smaller number.
LEMMA ChainDown ==
  ASSUME NEW p \in Parents
  PROVE  \A h \in Hash : ChainOf(p)[h] \subseteq 0 .. h /\ h \in ChainOf(p)[h]
<1> DEFINE Good(h) == ChainOf(p)[h] \subseteq 0 .. h /\ h \in ChainOf(p)[h]
           T == {h \in Hash : ~Good(h)}
<1>1. SUFFICES ASSUME T # {} PROVE FALSE
  OBVIOUS
<1>2. PICK h \in T : \A g \in T : h <= g
  <2>1. T \in SUBSET Hash
    OBVIOUS
  <2> HIDE DEF T
  <2> QED
    BY <1>1, <2>1, LowestBlock
<1>3. h \in Hash /\ h \in Nat /\ ~Good(h)
  BY <1>2, HashIsNat
<1>4. CASE p[h] = None
  <2>1. ChainOf(p)[h] = {h}
    BY <1>3, <1>4, ChainValue
  <2> QED
    BY <1>3, <2>1
<1>5. CASE p[h] # None
  <2>1. p[h] \in Hash /\ p[h] \in Nat /\ p[h] < h
    BY <1>3, <1>5, HashIsNat DEF Parents
  <2>2. Good(p[h])
    BY <1>2, <1>3, <2>1
  <2>3. ChainOf(p)[h] = {h} \cup ChainOf(p)[p[h]]
    BY <1>3, <1>5, ChainValue
  <2> QED
    BY <1>3, <2>1, <2>2, <2>3
<1> QED
  BY <1>4, <1>5

\* The chain of a block of a set closed under parents stays in the set, and
\* only depends on the parents in it.
LEMMA ChainLocal ==
  ASSUME NEW p \in Parents, NEW r \in Parents, NEW S \in SUBSET Hash,
         \A h \in S : r[h] = p[h] /\ (p[h] # None => p[h] \in S)
  PROVE  \A h \in S : ChainOf(p)[h] \subseteq S /\ ChainOf(r)[h] = ChainOf(p)[h]
<1> DEFINE Good(h) == ChainOf(p)[h] \subseteq S /\ ChainOf(r)[h] = ChainOf(p)[h]
           T == {h \in S : ~Good(h)}
<1>1. SUFFICES ASSUME T # {} PROVE FALSE
  OBVIOUS
<1>2. PICK h \in T : \A g \in T : h <= g
  <2>1. T \in SUBSET Hash
    OBVIOUS
  <2> HIDE DEF T
  <2> QED
    BY <1>1, <2>1, LowestBlock
<1>3. h \in S /\ h \in Hash /\ h \in Nat /\ ~Good(h) /\ r[h] = p[h]
  BY <1>2, HashIsNat
<1>4. CASE p[h] = None
  <2>1. ChainOf(p)[h] = {h} /\ ChainOf(r)[h] = {h}
    BY <1>3, <1>4, ChainValue
  <2> QED
    BY <1>3, <2>1
<1>5. CASE p[h] # None
  <2>1. p[h] \in S /\ p[h] \in Nat /\ p[h] < h
    BY <1>3, <1>5, HashIsNat DEF Parents
  <2>2. Good(p[h])
    BY <1>2, <1>3, <2>1
  <2>3. /\ ChainOf(p)[h] = {h} \cup ChainOf(p)[p[h]]
        /\ ChainOf(r)[h] = {h} \cup ChainOf(r)[p[h]]
    BY <1>3, <1>5, ChainValue
  <2> QED
    BY <1>3, <2>1, <2>2, <2>3
<1> QED
  BY <1>4, <1>5

-----------------------------------------------------------------------------
(* The scan. *)

LEMMA FindUTXOIs == \A h : FindUTXO(h) = WalkOf(prev, pay)[<<h, {}>>]
BY DEF FindUTXO, WalkOf, Walk, Unspent, Without, OutputsWithout, InputOf

LEMMA WalkValue ==
  ASSUME NEW p \in Parents, NEW q \in Payments, NEW h \in Hash, NEW spent \in Inputs
  PROVE  WalkOf(p, q)[<<h, spent>>] = Walk(p, q, WalkOf(p, q), <<h, spent>>)
<1> DEFINE r == <<p, q>>
<1>1. WalkRec!Ranked(r)
  BY HashIsNat DEF WalkRec!Ranked, WalkDom, WalkRank
<1>2. WalkRec!LooksDown(r)
  <2> SUFFICES ASSUME NEW f, NEW g, NEW at \in WalkDom(r),
                      \A y \in WalkDom(r) : WalkRank(r, y) < WalkRank(r, at) => f[y] = g[y]
               PROVE  WalkStep(r, f, at) = WalkStep(r, g, at)
    BY DEF WalkRec!LooksDown
  <2> DEFINE below == <<p[at[1]], at[2] \cup {<<q[at[1]].txid, q[at[1]].vout>>}>>
  <2>1. CASE p[at[1]] = None
    BY <2>1 DEF WalkStep, Walk
  <2>2. CASE p[at[1]] # None
    <3>1. at[1] \in Hash /\ at[2] \in Inputs
      BY DEF WalkDom
    <3>2. p[at[1]] \in Hash /\ p[at[1]] < at[1]
      BY <2>2, <3>1 DEF Parents
    <3>3. <<q[at[1]].txid, q[at[1]].vout>> \in (Hash \cup {None}) \X (0 .. 1)
      BY <3>1 DEF Payments, Payment
    <3>4. below \in WalkDom(r) /\ WalkRank(r, below) < WalkRank(r, at)
      BY <3>1, <3>2, <3>3 DEF WalkDom, WalkRank, Inputs
    <3>5. f[below] = g[below]
      BY <3>4
    <3> QED
      BY <2>2, <3>5 DEF WalkStep, Walk
  <2> QED
    BY <2>1, <2>2
<1>3. \E f : f = [x \in WalkDom(r) |-> WalkStep(r, f, x)]
  BY <1>1, <1>2, WalkRec!FunctionExists
<1>4. \E f : f = [x \in Hash \X Inputs |-> Walk(p, q, f, x)]
  BY <1>3 DEF WalkDom, WalkStep
<1>5. WalkOf(p, q) = [x \in Hash \X Inputs |-> Walk(p, q, WalkOf(p, q), x)]
  BY <1>4, Zenon DEF WalkOf
<1> QED
  BY <1>5, Zenon

\* The outputs of t that an input of the chain of h, or one in spent, names.
NamedIn(p, q, h, t, spent) ==
  {i \in 0 .. 1 : \/ <<t, i>> \in spent
                 \/ \E b \in ChainOf(p)[h] : <<q[b].txid, q[b].vout>> = <<t, i>>}

Scan(p, q, h, spent) ==
  [t \in Hash |-> IF t \in ChainOf(p)[h] THEN Without(q[t].outs, NamedIn(p, q, h, t, spent))
                  ELSE <<>>]

\* The walk finds what the chain and the inputs it starts with leave unspent:
\* no block spends an output of its own transaction or of a block above it.
LEMMA WalkIsScan ==
  ASSUME NEW p \in Parents, NEW q \in Payments
  PROVE  \A h \in Hash, spent \in Inputs : WalkOf(p, q)[<<h, spent>>] = Scan(p, q, h, spent)
<1> DEFINE Good(h) == \A spent \in Inputs : WalkOf(p, q)[<<h, spent>>] = Scan(p, q, h, spent)
           T == {h \in Hash : ~Good(h)}
<1>1. SUFFICES ASSUME T # {} PROVE FALSE
  OBVIOUS
<1>2. PICK h \in T : \A g \in T : h <= g
  <2>1. T \in SUBSET Hash
    OBVIOUS
  <2> HIDE DEF T
  <2> QED
    BY <1>1, <2>1, LowestBlock
<1>3. h \in Hash /\ h \in Nat /\ ~Good(h)
  BY <1>2, HashIsNat
<1>4. PICK spent \in Inputs : WalkOf(p, q)[<<h, spent>>] # Scan(p, q, h, spent)
  BY <1>3
<1> DEFINE input == <<q[h].txid, q[h].vout>>
<1>5. WalkOf(p, q)[<<h, spent>>] =
        IF p[h] = None THEN [NoOutputs EXCEPT ![h] = Unspent(q, h, spent)]
        ELSE [WalkOf(p, q)[<<p[h], spent \cup {input}>>] EXCEPT ![h] = Unspent(q, h, spent)]
  <2>1. WalkOf(p, q)[<<h, spent>>] = Walk(p, q, WalkOf(p, q), <<h, spent>>)
    BY <1>3, WalkValue
  <2> QED
    BY <2>1 DEF Walk
<1>6. /\ q[h].txid \in Hash \cup {None} /\ q[h].vout \in 0 .. 1 /\ q[h].txid < h
      /\ input \in (Hash \cup {None}) \X (0 .. 1)
  BY <1>3 DEF Payments, Payment
<1>7. ASSUME NEW b \in ChainOf(p)[h]
      PROVE  q[b].txid # h
  <2>1. b \in 0 .. h
    BY <1>3, ChainDown
  <2>2. b \in Hash
    BY <1>3, <2>1, UTXOAssumption DEF Hash
  <2>3. q[b] \in Payment /\ q[b].txid < b
    BY <2>2 DEF Payments
  <2> QED
    BY <1>3, <2>1, <2>3, HashIsNat DEF Payment, None
<1>8. Unspent(q, h, spent) = Without(q[h].outs, NamedIn(p, q, h, h, spent))
  BY <1>7, Zenon DEF Unspent, NamedIn
<1>9. CASE p[h] = None
  <2>1. ChainOf(p)[h] = {h}
    BY <1>3, <1>9, ChainValue
  <2>2. WalkOf(p, q)[<<h, spent>>] = [NoOutputs EXCEPT ![h] = Unspent(q, h, spent)]
    BY <1>5, <1>9
  <2> QED
    BY <1>3, <1>4, <1>8, <2>1, <2>2 DEF Scan, NoOutputs
<1>10. CASE p[h] # None
  <2>1. p[h] \in Hash /\ p[h] \in Nat /\ p[h] < h
    BY <1>3, <1>10, HashIsNat DEF Parents
  <2>2. Good(p[h])
    BY <1>2, <1>3, <2>1
  <2>3. spent \cup {input} \in Inputs
    BY <1>6 DEF Inputs
  <2>4. WalkOf(p, q)[<<p[h], spent \cup {input}>>] = Scan(p, q, p[h], spent \cup {input})
    BY <2>2, <2>3
  <2>5. WalkOf(p, q)[<<h, spent>>] =
          [Scan(p, q, p[h], spent \cup {input}) EXCEPT ![h] = Unspent(q, h, spent)]
    BY <1>5, <1>10, <2>4
  <2>6. ChainOf(p)[h] = {h} \cup ChainOf(p)[p[h]]
    BY <1>3, <1>10, ChainValue
  <2>7. \A t : NamedIn(p, q, h, t, spent) = NamedIn(p, q, p[h], t, spent \cup {input})
    BY <2>6, Zenon DEF NamedIn
  <2>8. h \in ChainOf(p)[h]
    BY <2>6
  <2>9. \A t \in Hash \ {h} : t \in ChainOf(p)[h] <=> t \in ChainOf(p)[p[h]]
    BY <2>6
  <2>10. \A t \in Hash \ {h} : WalkOf(p, q)[<<h, spent>>][t] = Scan(p, q, h, spent)[t]
    BY <2>5, <2>7, <2>9 DEF Scan
  <2>11. WalkOf(p, q)[<<h, spent>>][h] = Scan(p, q, h, spent)[h]
    BY <1>3, <1>8, <2>5, <2>8 DEF Scan
  <2>12. WalkOf(p, q)[<<h, spent>>] = [t \in Hash |-> WalkOf(p, q)[<<h, spent>>][t]]
    BY <2>5 DEF Scan
  <2>13. Scan(p, q, h, spent) = [t \in Hash |-> Scan(p, q, h, spent)[t]]
    BY DEF Scan
  <2> QED
    BY <1>4, <2>10, <2>11, <2>12, <2>13
<1> QED
  BY <1>9, <1>10

-----------------------------------------------------------------------------
(* Lists of outputs. *)

LEMMA ConcatOne == <<0>> \o <<1>> = <<0, 1>>
<1>1. <<0>> \o <<1>> \in Seq(0 .. 1) /\ <<0, 1>> \in Seq(0 .. 1)
  OBVIOUS
<1>2. Len(<<0>> \o <<1>>) = 2 /\ Len(<<0, 1>>) = 2
  OBVIOUS
<1>3. \A i \in 1 .. 2 : (<<0>> \o <<1>>)[i] = <<0, 1>>[i]
  OBVIOUS
<1> QED
  BY <1>1, <1>2, <1>3, SeqEqual

LEMMA SubSeqOne ==
  ASSUME NEW S, NEW s \in Seq(S), NEW i \in 1 .. Len(s)
  PROVE  SubSeq(s, i, i) = <<s[i]>>
<1> DEFINE t == SubSeq(s, i, i)
           u == <<s[i]>>
<1>1. t \in Seq(S) /\ Len(t) = 1 /\ t[1] = s[i]
  OBVIOUS
<1>2. u \in Seq(S) /\ Len(u) = 1 /\ u[1] = s[i]
  OBVIOUS
<1>3. \A j \in 1 .. Len(t) : t[j] = u[j]
  <2> HIDE DEF t, u
  <2> QED
    BY <1>1, <1>2
<1> HIDE DEF t, u
<1>4. t = u
  BY <1>1, <1>2, <1>3, SeqEqual
<1> QED
  BY <1>4 DEF t, u

LEMMA OutputsFacts ==
  ASSUME NEW s \in Outputs
  PROVE  /\ Len(s) \in 0 .. 2 /\ DOMAIN s = 1 .. Len(s)
         /\ \A i \in DOMAIN s : s[i] \in 0 .. 1
         /\ Len(s) = 0 => s = <<>>
         /\ Len(s) = 1 => s = <<s[1]>>
         /\ Len(s) = 2 => s = <<0, 1>>
<1>1. CASE s = <<>>
  BY <1>1
<1>2. CASE s = <<0>> \/ s = <<1>>
  BY <1>2
<1>3. CASE s = <<0, 1>>
  BY <1>3
<1> QED
  BY <1>1, <1>2, <1>3 DEF Outputs

LEMMA WithoutValues ==
  ASSUME NEW n \in 1 .. 2, NEW gone \in SUBSET (0 .. 1)
  PROVE  /\ Without(n, gone) \in Outputs /\ Len(Without(n, gone)) <= n
         /\ n = 1 => Without(n, gone) = IF 0 \in gone THEN <<>> ELSE <<0>>
         /\ n = 2 => Without(n, gone) = IF 0 \in gone THEN IF 1 \in gone THEN <<>> ELSE <<1>>
                                       ELSE IF 1 \in gone THEN <<0>> ELSE <<0, 1>>
<1>1. CASE n = 1
  <2>1. CASE 0 \in gone
    <3>1. Without(n, gone) = <<>>
      BY <1>1, <2>1 DEF Without
    <3> QED
      BY <1>1, <2>1, <3>1 DEF Outputs
  <2>2. CASE 0 \notin gone
    <3>1. Without(n, gone) = <<0>>
      BY <1>1, <2>2 DEF Without
    <3> QED
      BY <1>1, <2>2, <3>1 DEF Outputs
  <2> QED
    BY <2>1, <2>2
<1>2. CASE n = 2
  <2>1. CASE 0 \in gone /\ 1 \in gone
    <3>1. Without(n, gone) = <<>>
      BY <1>2, <2>1 DEF Without
    <3> QED
      BY <1>2, <2>1, <3>1 DEF Outputs
  <2>2. CASE 0 \in gone /\ 1 \notin gone
    <3>1. Without(n, gone) = <<1>>
      BY <1>2, <2>2 DEF Without
    <3> QED
      BY <1>2, <2>2, <3>1 DEF Outputs
  <2>3. CASE 0 \notin gone /\ 1 \in gone
    <3>1. Without(n, gone) = <<0>>
      BY <1>2, <2>3 DEF Without
    <3> QED
      BY <1>2, <2>3, <3>1 DEF Outputs
  <2>4. CASE 0 \notin gone /\ 1 \notin gone
    <3>1. Without(n, gone) = <<0, 1>>
      BY <1>2, <2>4, ConcatOne DEF Without
    <3>2. <<0, 1>> \in Outputs /\ Len(<<0, 1>>) = 2
      BY DEF Outputs
    <3>3. Without(n, gone) \in Outputs /\ Len(Without(n, gone)) <= n
      BY <1>2, <3>1, <3>2
    <3> QED
      BY <1>2, <2>4, <3>1, <3>3
  <2> QED
    BY <2>1, <2>2, <2>3, <2>4
<1> QED
  BY <1>1, <1>2

LEMMA SpendValues ==
  ASSUME NEW s \in Outputs, NEW v \in 0 .. 1
  PROVE  /\ Spend(s, v) \in Outputs /\ Len(Spend(s, v)) <= Len(s)
         /\ v >= Len(s) => Spend(s, v) = s
         /\ Len(s) = 1 /\ v = 0 => Spend(s, v) = <<>>
         /\ Len(s) = 2 => Spend(s, v) = IF v = 0 THEN <<1>> ELSE <<0>>
<1>1. CASE v >= Len(s)
  <2>1. Spend(s, v) = s /\ Len(s) \in 0 .. 2 /\ Len(s) <= Len(s)
    BY <1>1, OutputsFacts DEF Spend
  <2> QED
    BY <1>1, <2>1
<1>2. CASE Len(s) = 1 /\ v = 0
  <2>1. s = <<s[1]>>
    BY <1>2, OutputsFacts
  <2>2. SubSeq(s, 1, 0) = <<>> /\ SubSeq(s, 2, 1) = <<>>
    BY <2>1
  <2>3. Spend(s, v) = <<>>
    BY <1>2, <2>2 DEF Spend
  <2> QED
    BY <1>2, <2>3 DEF Outputs
<1>3. CASE Len(s) = 2
  <2>1. s = <<0, 1>> /\ s \in Seq(0 .. 1) /\ s[1] = 0 /\ s[2] = 1
    BY <1>3, OutputsFacts
  <2>2. CASE v = 0
    <3>1. SubSeq(s, 1, 0) = <<>> /\ SubSeq(s, 2, 2) = <<1>>
      <4>1. 2 \in 1 .. Len(s)
        BY <1>3
      <4>2. SubSeq(s, 2, 2) = <<s[2]>>
        BY <2>1, <4>1, SubSeqOne
      <4> QED
        BY <2>1, <4>2, SubSeqEmpty
    <3>2. <<>> \o <<1>> = <<1>>
      OBVIOUS
    <3>3. Spend(s, v) = SubSeq(s, 1, 0) \o SubSeq(s, 2, 2)
      BY <1>3, <2>2 DEF Spend
    <3> QED
      BY <1>3, <2>2, <3>1, <3>2, <3>3 DEF Outputs
  <2>3. CASE v = 1
    <3>1. SubSeq(s, 1, 1) = <<0>> /\ SubSeq(s, 3, 2) = <<>>
      <4>1. 1 \in 1 .. Len(s)
        BY <1>3
      <4>2. SubSeq(s, 1, 1) = <<s[1]>>
        BY <2>1, <4>1, SubSeqOne
      <4> QED
        BY <2>1, <4>2, SubSeqEmpty
    <3>2. <<0>> \o <<>> = <<0>>
      OBVIOUS
    <3>3. Spend(s, v) = SubSeq(s, 1, 1) \o SubSeq(s, 3, 2)
      BY <1>3, <2>3 DEF Spend
    <3> QED
      BY <1>3, <2>3, <3>1, <3>2, <3>3 DEF Outputs
  <2> QED
    BY <2>2, <2>3
<1>4. v >= Len(s) \/ (Len(s) = 1 /\ v = 0) \/ Len(s) = 2
  BY OutputsFacts
<1> QED
  BY <1>1, <1>2, <1>3, <1>4, Zenon

-----------------------------------------------------------------------------
(* The inductive invariant. *)

\* Blocks are numbered in the order in which they are mined, so a parent and
\* the transaction that an input names come before the block.
Tree ==
  /\ \A h \in Hash : prev[h] < h /\ pay[h].txid < h
  /\ \A h \in Mined : \A g \in 1 .. h - 1 : g \in Mined
  /\ \A h \in Mined \ {Genesis} : prev[h] \in Mined

\* What Reindex found is as good as what Update lists.
Sound ==
  /\ \A x \in pending : x.txid \in Hash
  /\ \A t \in Hash : found[t] # <<>> => t \in stored /\ Len(found[t]) <= pay[t].outs

\* Of the transaction that payment x spends nothing is listed but what was
\* listed when the wallet made x.
Meant(x) ==
  /\ x.txid \in Chain[head]
  /\ x.vout < x.listed
  /\ x.listed = 2 => x.means = x.vout
  /\ x.listed = 1 => utxo[x.txid] \in {<<>>, <<x.means>>}

PaymentsMeant ==
  clean => /\ \A x \in pending : Meant(x)
           /\ \A h \in Mined \ {Genesis} : Meant(pay[h])

IdleWhenClean == clean => phase = "idle"

UInv == /\ TypeOK /\ Tree /\ Sound
        /\ BooksRightWhenClean /\ PaymentsMeant /\ IdleWhenClean

\* The parents and the payments of a state are as the lemmas want them.
LEMMA TreeFacts ==
  ASSUME TypeOK, Tree
  PROVE  /\ prev \in Parents /\ pay \in Payments
         /\ Mined \in SUBSET Hash /\ Genesis \in Mined
         /\ \A h \in Mined : prev[h] # None => prev[h] \in Mined
         /\ \A h \in Hash : Chain[h] \subseteq 0 .. h /\ h \in Chain[h]
         /\ \A h \in Hash : prev[h] = None => Chain[h] = {h}
         /\ \A h \in Hash : prev[h] # None => prev[h] \in Hash /\ Chain[h] = {h} \cup Chain[prev[h]]
         /\ \A h \in Mined : Chain[h] \subseteq Mined
<1>1. prev \in Parents /\ pay \in Payments
  BY DEF TypeOK, Tree, Parents, Payments
<1>2. Mined \in SUBSET Hash /\ Genesis \in Mined
  BY HashIsNat DEF Mined
<1>3. prev[Genesis] = None
  <2>1. prev[Genesis] \in Hash \cup {None} /\ prev[Genesis] < 0
    BY HashIsNat DEF TypeOK, Tree, Genesis
  <2>2. \A n \in Hash : ~(n < 0)
    BY HashIsNat
  <2> QED
    BY <2>1, <2>2
<1>4. \A h \in Mined : prev[h] # None => prev[h] \in Mined
  BY <1>3 DEF Tree
<1>5. \A h \in Hash : Chain[h] \subseteq 0 .. h /\ h \in Chain[h]
  BY <1>1, ChainDown, ChainIs
<1>6. \A h \in Hash : /\ prev[h] = None => Chain[h] = {h}
                      /\ prev[h] # None => Chain[h] = {h} \cup Chain[prev[h]]
  BY <1>1, ChainValue, ChainIs
<1>7. \A h \in Hash : prev[h] # None => prev[h] \in Hash /\ Chain[h] = {h} \cup Chain[prev[h]]
  BY <1>6 DEF TypeOK
<1>8. \A h \in Mined : Chain[h] \subseteq Mined
  BY <1>1, <1>2, <1>4, ChainLocal, ChainIs
<1>9. \A h \in Hash : prev[h] = None => Chain[h] = {h}
  BY <1>6
<1> QED
  BY <1>1, <1>2, <1>4, <1>5, <1>7, <1>8, <1>9, Zenon

\* FindUTXO, for the proofs below.
LEMMA FindIsScan ==
  ASSUME TypeOK, Tree, NEW h \in Hash
  PROVE  FindUTXO(h) = Scan(prev, pay, h, {})
<1>1. {} \in Inputs
  BY DEF Inputs
<1>2. prev \in Parents /\ pay \in Payments
  BY TreeFacts
<1>3. WalkOf(prev, pay)[<<h, {}>>] = Scan(prev, pay, h, {})
  BY <1>1, <1>2, WalkIsScan
<1> QED
  BY <1>3, FindUTXOIs

LEMMA ScanExact ==
  ASSUME TypeOK, Tree
  PROVE  ScanIsUnspent
<1> SUFFICES ASSUME NEW h \in Mined, NEW t \in Hash
             PROVE  LET named == {i \in 0 .. 1 : \E b \in Chain[h] : InputOf(b) = <<t, i>>}
                    IN  FindUTXO(h)[t] = IF t \in Chain[h] THEN OutputsWithout(t, named) ELSE <<>>
  BY DEF ScanIsUnspent
<1> DEFINE named == {i \in 0 .. 1 : \E b \in Chain[h] : InputOf(b) = <<t, i>>}
<1>1. h \in Hash
  BY DEF Mined
<1>2. FindUTXO(h)[t] = IF t \in ChainOf(prev)[h]
                       THEN Without(pay[t].outs, NamedIn(prev, pay, h, t, {})) ELSE <<>>
  BY <1>1, FindIsScan DEF Scan
<1>3. NamedIn(prev, pay, h, t, {}) = named
  BY ChainIs DEF NamedIn, InputOf
<1>4. OutputsWithout(t, named) = Without(pay[t].outs, named)
  BY DEF OutputsWithout, Without
<1> QED
  BY <1>2, <1>3, <1>4, ChainIs

LEMMA ChainIsNext == Chain' = ChainOf(prev')
BY DEF Chain, ChainOf

\* What is left of a transaction, as a function of the payments.
Spent(q, t, S) == {i \in 0 .. 1 : \E b \in S : q[b].txid = t /\ q[b].means = i}

LEMMA LeftIs ==
  /\ \A t, S : Left(t, S) = Without(pay[t].outs, Spent(pay, t, S))
  /\ \A t, S : Left(t, S)' = Without(pay'[t].outs, Spent(pay', t, S))
  /\ \A t : AllOutputs(t) = Without(pay[t].outs, {})
BY DEF Left, OutputsWithout, AllOutputs, Without, Spent

-----------------------------------------------------------------------------
(* Steps that leave the bucket alone. *)

\* A block that is mined changes nothing about the blocks there are.
LEMMA MineKeeps ==
  ASSUME TypeOK, Tree, Sound, NEW h \in Hash, NEW p \in Mined, NEW x \in pending, MineOn(h, p, x)
  PROVE  /\ Tree' /\ prev' \in [Hash -> Hash \cup {None}] /\ pay' \in [Hash -> Payment]
         /\ h \notin Mined /\ Mined' = Mined \cup {h} /\ pay'[h] = x
         /\ \A g \in Mined : prev'[g] = prev[g] /\ pay'[g] = pay[g] /\ Chain'[g] = Chain[g]
<1>1. /\ prev \in Parents /\ pay \in Payments /\ Mined \in SUBSET Hash /\ Genesis \in Mined
      /\ \A g \in Mined : prev[g] # None => prev[g] \in Mined
      /\ Chain[p] \subseteq 0 .. p
  BY TreeFacts
<1>2. /\ h \notin Mined /\ \A g \in 1 .. h - 1 : g \in Mined
      /\ x.txid \in Chain[p]
      /\ prev' = [prev EXCEPT ![h] = p] /\ pay' = [pay EXCEPT ![h] = x]
  BY DEF MineOn, Fresh
<1>3. p \in Nat /\ h \in Nat /\ p \in Hash /\ p # h /\ h # 0
  BY <1>1, <1>2, HashIsNat DEF Genesis
<1>4. p < h
  <2>1. SUFFICES ASSUME h < p PROVE FALSE
    BY <1>3
  <2>2. h \in 1 .. p - 1
    BY <1>3, <2>1
  <2> QED
    BY <1>2, <2>2 DEF Tree
<1>5. x \in Payment /\ x.txid < h
  <2>1. x.txid \in 0 .. p
    BY <1>1, <1>2
  <2> QED
    BY <1>3, <1>4, <2>1 DEF TypeOK
<1>6. prev' \in Parents /\ pay' \in Payments
  BY <1>1, <1>2, <1>3, <1>4, <1>5 DEF Parents, Payments
<1>7. \A g \in Mined : prev'[g] = prev[g] /\ pay'[g] = pay[g]
  BY <1>1, <1>2 DEF Parents, Payments
<1>8. \A g \in Mined : Chain'[g] = Chain[g]
  BY <1>1, <1>6, <1>7, ChainLocal, ChainIs, ChainIsNext
<1>9. prev'[h] = p /\ pay'[h] = x
  BY <1>1, <1>2 DEF Parents, Payments
<1>10. Mined' = Mined \cup {h}
  <2>1. p # None
    BY <1>3, HashIsNat
  <2>2. \A g \in Hash \ {h} : prev'[g] = prev[g]
    BY <1>1, <1>2 DEF Parents
  <2> QED
    BY <1>9, <2>1, <2>2 DEF Mined
<1>11. Tree'
  <2>1. \A g \in Hash : prev'[g] < g /\ pay'[g].txid < g
    BY <1>6 DEF Parents, Payments
  <2>2. \A g \in Mined' : \A f \in 1 .. g - 1 : f \in Mined'
    BY <1>2, <1>10 DEF Tree
  <2>3. \A g \in Mined' \ {Genesis} : prev'[g] \in Mined'
    BY <1>7, <1>9, <1>10 DEF Tree
  <2> QED
    BY <2>1, <2>2, <2>3 DEF Tree
<1> QED
  BY <1>2, <1>6, <1>7, <1>8, <1>9, <1>10, <1>11 DEF Parents, Payments

\* The books stay right if neither the bucket nor the blocks there are change.
LEMMA BooksKept ==
  ASSUME TypeOK, Tree, BooksRightWhenClean, PaymentsMeant,
         head' = head, utxo' = utxo, clean' => clean,
         \A g \in Mined : pay'[g] = pay[g] /\ Chain'[g] = Chain[g],
         \A x \in pending' : x \in pending,
         \A g \in Mined' \ {Genesis} : g \in Mined \/ pay'[g] \in pending
  PROVE  BooksRightWhenClean' /\ PaymentsMeant'
<1> SUFFICES ASSUME clean'
             PROVE  BooksRightWhenClean' /\ PaymentsMeant'
  BY DEF BooksRightWhenClean, PaymentsMeant
<1>1. /\ clean /\ head \in Mined
      /\ \A t \in Hash : utxo[t] = IF t \in Chain[head] THEN Left(t, Chain[head]) ELSE <<>>
      /\ \A x \in pending : Meant(x)
      /\ \A h \in Mined \ {Genesis} : Meant(pay[h])
  BY DEF BooksRightWhenClean, PaymentsMeant, TypeOK
<1>2. Chain'[head'] = Chain[head] /\ Chain[head] \subseteq Mined
  BY <1>1, TreeFacts
<1>3. \A x : Meant(x) => Meant(x)'
  BY <1>2 DEF Meant
<1>4. PaymentsMeant'
  <2>1. \A x \in pending' : Meant(x)'
    BY <1>1, <1>3
  <2>2. \A g \in Mined' \ {Genesis} : Meant(pay[g])'
    <3> TAKE g \in Mined' \ {Genesis}
    <3>1. Meant(pay'[g])
      BY <1>1
    <3> QED
      BY <1>2, <3>1 DEF Meant
  <2> QED
    BY <2>1, <2>2 DEF PaymentsMeant
<1>5. ASSUME NEW t \in Hash
      PROVE  utxo'[t] = IF t \in Chain'[head'] THEN Left(t, Chain[head])' ELSE <<>>
  <2>1. CASE t \in Chain[head]
    <3>1. pay'[t] = pay[t]
      BY <1>2, <2>1
    <3>2. Spent(pay', t, Chain[head]) = Spent(pay, t, Chain[head])
      BY <1>2 DEF Spent
    <3>3. Left(t, Chain[head])' = Left(t, Chain[head])
      BY <1>2, <3>1, <3>2 DEF Left, OutputsWithout, Without, Spent
    <3> QED
      BY <1>1, <1>2, <2>1, <3>3
  <2>2. CASE t \notin Chain[head]
    BY <1>1, <1>2, <2>2
  <2> QED
    BY <2>1, <2>2
<1> QED
  BY <1>4, <1>5 DEF BooksRightWhenClean

-----------------------------------------------------------------------------
(* Every step keeps the invariant. *)

LEMMA UInit == Init => UInv
<1> SUFFICES ASSUME Init PROVE UInv
  OBVIOUS
<1> USE HashIsNat
<1>1. Mined = {Genesis}
  BY DEF Init, Mined
<1>2. Tree
  BY <1>1 DEF Init, Tree, Coinbase, Genesis, None, Hash
<1>3. Sound
  BY DEF Init, Sound, NoOutputs
<1>4. TypeOK
  <2>1. prev \in [Hash -> Hash \cup {None}] /\ pay \in [Hash -> Payment]
    BY DEF Init, Coinbase, Payment
  <2>2. <<>> \in Outputs /\ <<0>> \in Outputs /\ Len(<<0>>) = 1 /\ Len(<<>>) = 0
    BY DEF Outputs
  <2>3. utxo \in [Hash -> Outputs] /\ found \in [Hash -> Outputs]
    BY <2>2 DEF Init, NoOutputs
  <2>4. \A t \in Hash : utxo[t] # <<>> => t \in stored /\ Len(utxo[t]) <= pay[t].outs
    BY <2>2 DEF Init, NoOutputs, Coinbase
  <2> QED
    BY <1>1, <2>1, <2>3, <2>4 DEF Init, TypeOK
<1>5. Chain[head] = {Genesis}
  BY <1>2, <1>4, TreeFacts DEF Init
<1>6. BooksRightWhenClean
  <2>1. Spent(pay, Genesis, {Genesis}) = {}
    BY DEF Init, Coinbase, Spent
  <2>2. Left(Genesis, {Genesis}) = <<0>>
    <3>1. Left(Genesis, {Genesis}) = Without(pay[Genesis].outs, {})
      BY <2>1, LeftIs
    <3>2. pay[Genesis].outs = 1
      BY DEF Init, Coinbase
    <3>3. Without(1, {}) = <<0>>
      BY WithoutValues
    <3> QED
      BY <3>1, <3>2, <3>3
  <2> QED
    BY <1>5, <2>2 DEF BooksRightWhenClean, Init, NoOutputs
<1>7. PaymentsMeant /\ IdleWhenClean
  BY <1>1 DEF Init, PaymentsMeant, IdleWhenClean
<1> QED
  BY <1>2, <1>3, <1>4, <1>6, <1>7 DEF UInv

LEMMA UPay ==
  ASSUME UInv, NEW t \in Hash, NEW i \in 1 .. 2, NEW n \in 1 .. 2, Pay(t, i, n)
  PROVE  UInv'
<1> DEFINE x == [txid |-> t, vout |-> i - 1, means |-> utxo[t][i], listed |-> Len(utxo[t]), outs |-> n]
<1>1. /\ i \in DOMAIN utxo[t] /\ pending' = pending \cup {x}
      /\ UNCHANGED <<prev, pay, stored, last, todo, utxo, phase, found, head, clean>>
  BY DEF Pay, blocks
<1>2. TypeOK /\ Tree /\ Sound /\ utxo[t] \in Outputs
  BY DEF UInv, TypeOK
<1>3. /\ Len(utxo[t]) \in 0 .. 2 /\ utxo[t][i] \in 0 .. 1 /\ i <= Len(utxo[t])
      /\ Len(utxo[t]) = 1 => utxo[t] = <<utxo[t][1]>>
      /\ Len(utxo[t]) = 2 => utxo[t] = <<0, 1>>
      /\ utxo[t] # <<>>
  BY <1>1, <1>2, OutputsFacts
<1>4. x \in Payment
  BY <1>2, <1>3 DEF Payment
<1>5. Chain' = Chain /\ Mined' = Mined
  BY <1>1, ChainIs, ChainIsNext DEF Mined
<1>6. TypeOK'
  BY <1>1, <1>2, <1>4, <1>5 DEF TypeOK
<1>7. Tree' /\ Sound' /\ IdleWhenClean'
  BY <1>1, <1>2, <1>5 DEF Tree, Sound, IdleWhenClean, UInv
<1>8. BooksRightWhenClean'
  BY <1>1, <1>5, LeftIs DEF UInv, BooksRightWhenClean
<1>9. ASSUME clean
      PROVE  Meant(x)
  <2>1. t \in Chain[head]
    BY <1>3, <1>9 DEF UInv, BooksRightWhenClean
  <2>2. Len(utxo[t]) = 2 => utxo[t][i] = i - 1
    BY <1>3
  <2>3. Len(utxo[t]) = 1 => i = 1
    BY <1>3
  <2> QED
    BY <1>3, <2>1, <2>2, <2>3 DEF Meant
<1>10. PaymentsMeant'
  <2>1. \A y : Meant(y) => Meant(y)'
    BY <1>1, <1>5 DEF Meant
  <2>2. \A h : pay'[h] = pay[h] /\ (Meant(pay[h]) => Meant(pay[h])')
    BY <1>1, <1>5 DEF Meant
  <2> QED
    BY <1>1, <1>5, <1>9, <2>1, <2>2 DEF UInv, PaymentsMeant
<1> QED
  BY <1>6, <1>7, <1>8, <1>10 DEF UInv

LEMMA UPeerMines ==
  ASSUME UInv, NEW h \in Hash, NEW p \in Hash, NEW x \in pending, PeerMines(h, p, x)
  PROVE  UInv'
<1>1. /\ p \in Mined /\ MineOn(h, p, x)
      /\ UNCHANGED <<stored, last, todo, utxo, phase, found, head, clean>>
      /\ pending' = pending \ {x}
  BY DEF PeerMines, MineOn
<1>2. TypeOK /\ Tree /\ Sound
  BY DEF UInv
<1>3. /\ Tree' /\ prev' \in [Hash -> Hash \cup {None}] /\ pay' \in [Hash -> Payment]
      /\ h \notin Mined /\ Mined' = Mined \cup {h} /\ pay'[h] = x
      /\ \A g \in Mined : prev'[g] = prev[g] /\ pay'[g] = pay[g] /\ Chain'[g] = Chain[g]
  BY <1>1, <1>2, MineKeeps
<1>4. TypeOK' /\ Sound'
  BY <1>1, <1>2, <1>3 DEF TypeOK, Sound
<1>5. BooksRightWhenClean' /\ PaymentsMeant'
  BY <1>1, <1>2, <1>3, BooksKept DEF UInv
<1>6. IdleWhenClean'
  BY <1>1 DEF UInv, IdleWhenClean
<1> QED
  BY <1>3, <1>4, <1>5, <1>6 DEF UInv

LEMMA UMineBlock ==
  ASSUME UInv, NEW h \in Hash, NEW x \in pending, MineBlock(h, x)
  PROVE  UInv'
<1>1. /\ MineOn(h, last, x) /\ stored' = stored \cup {h} /\ last' = h
      /\ todo' = todo \cup {h} /\ UNCHANGED <<utxo, phase, found, head, clean>>
      /\ pending' = pending \ {x}
  BY DEF MineBlock, MineOn
<1>2. TypeOK /\ Tree /\ Sound /\ last \in Mined
  BY DEF UInv, TypeOK
<1>3. /\ Tree' /\ prev' \in [Hash -> Hash \cup {None}] /\ pay' \in [Hash -> Payment]
      /\ h \notin Mined /\ Mined' = Mined \cup {h} /\ pay'[h] = x
      /\ \A g \in Mined : prev'[g] = prev[g] /\ pay'[g] = pay[g] /\ Chain'[g] = Chain[g]
  BY <1>1, <1>2, MineKeeps
<1>4. TypeOK' /\ Sound'
  BY <1>1, <1>2, <1>3 DEF TypeOK, Sound
<1>5. BooksRightWhenClean' /\ PaymentsMeant'
  BY <1>1, <1>2, <1>3, BooksKept DEF UInv
<1>6. IdleWhenClean'
  BY <1>1 DEF UInv, IdleWhenClean
<1> QED
  BY <1>3, <1>4, <1>5, <1>6 DEF UInv

LEMMA UAddBlock ==
  ASSUME UInv, NEW h \in Hash, AddBlock(h)
  PROVE  UInv'
<1>1. /\ h \in Mined /\ stored' = stored \cup {h} /\ last' \in {h, last}
      /\ todo' = todo \cup {h}
      /\ UNCHANGED <<prev, pay, utxo, pending, phase, found, head, clean>>
  BY DEF AddBlock, blocks
<1>2. TypeOK /\ Tree /\ Sound
  BY DEF UInv
<1>3. Chain' = Chain /\ Mined' = Mined
  BY <1>1, ChainIs, ChainIsNext DEF Mined
<1>4. TypeOK' /\ Sound' /\ Tree'
  BY <1>1, <1>2, <1>3 DEF TypeOK, Sound, Tree
<1>5. BooksRightWhenClean' /\ PaymentsMeant'
  BY <1>1, <1>2, <1>3, BooksKept DEF UInv
<1>6. IdleWhenClean'
  BY <1>1 DEF UInv, IdleWhenClean
<1> QED
  BY <1>4, <1>5, <1>6 DEF UInv

\* The Update of block h: the list of the transaction it spends loses one
\* output, its own outputs are listed.
LEMMA UUpdateType ==
  ASSUME UInv, NEW h \in Hash, Update(h)
  PROVE  /\ TypeOK' /\ Tree' /\ Sound' /\ IdleWhenClean'
         /\ Chain' = Chain /\ Mined' = Mined
<1> DEFINE x == pay[h]
<1>1. /\ h \in todo /\ todo' = todo \ {h}
      /\ utxo' = [utxo EXCEPT ![x.txid] = Spend(@, x.vout), ![h] = AllOutputs(h)]
      /\ head' = h /\ clean' \in BOOLEAN /\ (clean' => clean)
      /\ UNCHANGED <<prev, pay, stored, last, pending, phase, found>>
  BY DEF Update, blocks, UInv, TypeOK
<1>2. TypeOK /\ Tree /\ Sound /\ x \in Payment /\ x.vout \in 0 .. 1 /\ h \in stored
  BY <1>1 DEF UInv, TypeOK, Payment
<1>3. Chain' = Chain /\ Mined' = Mined
  BY <1>1, ChainIs, ChainIsNext DEF Mined
<1>4. AllOutputs(h) \in Outputs /\ Len(AllOutputs(h)) <= pay[h].outs
  BY <1>2, LeftIs, WithoutValues DEF Payment
<1>5. /\ utxo'[h] = AllOutputs(h)
      /\ \A t \in Hash \ {h} : t = x.txid => utxo'[t] = Spend(utxo[t], x.vout)
      /\ \A t \in Hash \ {h} : t # x.txid => utxo'[t] = utxo[t]
  BY <1>1, <1>2 DEF TypeOK
<1>6. \A t \in Hash : /\ Spend(utxo[t], x.vout) \in Outputs
                      /\ Len(Spend(utxo[t], x.vout)) <= Len(utxo[t])
                      /\ Spend(utxo[t], x.vout) # <<>> => utxo[t] # <<>>
  <2> TAKE t \in Hash
  <2>1. utxo[t] \in Outputs
    BY <1>2 DEF TypeOK
  <2>2. Spend(<<>>, x.vout) = <<>>
    BY <1>2 DEF Spend
  <2> QED
    BY <1>2, <2>1, <2>2, SpendValues
<1>7. utxo' \in [Hash -> Outputs]
  <2>1. DOMAIN utxo' = Hash /\ utxo' = [t \in Hash |-> utxo'[t]]
    BY <1>1, <1>2 DEF TypeOK
  <2>2. ASSUME NEW t \in Hash
        PROVE  utxo'[t] \in Outputs
    <3>1. CASE t = h
      BY <1>4, <1>5, <3>1
    <3>2. CASE t # h /\ t = x.txid
      BY <1>5, <1>6, <3>2
    <3>3. CASE t # h /\ t # x.txid
      BY <1>2, <1>5, <3>3 DEF TypeOK
    <3> QED
      BY <3>1, <3>2, <3>3
  <2> QED
    BY <2>1, <2>2
<1>8. ASSUME NEW t \in Hash, utxo'[t] # <<>>
      PROVE  t \in stored /\ Len(utxo'[t]) <= pay[t].outs
  <2>1. CASE t = h
    BY <1>2, <1>4, <1>5, <2>1
  <2>2. CASE t # h /\ t = x.txid
    <3>1. utxo[t] # <<>> /\ utxo'[t] = Spend(utxo[t], x.vout)
      BY <1>5, <1>6, <1>8, <2>2
    <3>2. Len(utxo[t]) \in Nat /\ Len(utxo'[t]) \in Nat /\ pay[t].outs \in Nat
      <4>1. utxo[t] \in Outputs /\ utxo'[t] \in Outputs /\ pay[t].outs \in 1 .. 2
        BY <1>2, <1>7 DEF TypeOK, Payment
      <4> QED
        BY <4>1, OutputsFacts
    <3> QED
      BY <1>2, <1>6, <3>1, <3>2 DEF TypeOK
  <2>3. CASE t # h /\ t # x.txid
    BY <1>2, <1>5, <1>8, <2>3 DEF TypeOK
  <2> QED
    BY <2>1, <2>2, <2>3
<1>9. TypeOK'
  BY <1>1, <1>2, <1>3, <1>7, <1>8 DEF TypeOK
<1>10. Tree' /\ Sound' /\ IdleWhenClean'
  BY <1>1, <1>2, <1>3 DEF Tree, Sound, IdleWhenClean, UInv
<1> QED
  BY <1>3, <1>9, <1>10

\* Position vout of the list s is the output the wallet means, and stays it
\* while the list has the same length.
Paid(s, vout, means) ==
  /\ vout < Len(s)
  /\ Len(s) = 2 => means = vout
  /\ Len(s) = 1 => s \in {<<>>, <<means>>}

\* What becomes of the list of the transaction that a clean Update spends.
LEMMA SpendMeant ==
  ASSUME NEW n \in 1 .. 2, NEW gone \in SUBSET (0 .. 1), NEW vout \in 0 .. 1, NEW means \in 0 .. 1
  PROVE  Paid(Without(n, gone), vout, means) =>
           Spend(Without(n, gone), vout) = Without(n, gone \cup {means})
<1> DEFINE s == Without(n, gone)
           r == Without(n, gone \cup {means})
           listed == Len(s)
<1> SUFFICES ASSUME Paid(Without(n, gone), vout, means)
             PROVE  Spend(Without(n, gone), vout) = Without(n, gone \cup {means})
  OBVIOUS
<1> USE DEF Paid
<1>1. s \in Outputs /\ r \in Outputs /\ listed \in 0 .. 2
  BY WithoutValues, OutputsFacts
<1>2. CASE listed = 2
  <2>1. s = <<0, 1>> /\ Spend(s, vout) = IF vout = 0 THEN <<1>> ELSE <<0>>
    BY <1>1, <1>2, OutputsFacts, SpendValues
  <2>2. n = 2 /\ 0 \notin gone /\ 1 \notin gone
    <3>1. Len(s) = 2 /\ Len(s) <= n
      BY <1>2, WithoutValues
    <3>2. n = 2
      BY <3>1
    <3>3. s = IF 0 \in gone THEN IF 1 \in gone THEN <<>> ELSE <<1>>
              ELSE IF 1 \in gone THEN <<0>> ELSE <<0, 1>>
      BY <3>2, WithoutValues
    <3>4. Len(<<>>) = 0 /\ Len(<<0>>) = 1 /\ Len(<<1>>) = 1
      OBVIOUS
    <3> HIDE DEF s
    <3> QED
      BY <3>1, <3>2, <3>3, <3>4
  <2>3. r = IF means = 0 THEN <<1>> ELSE <<0>>
    BY <2>2, WithoutValues
  <2> QED
    BY <1>2, <2>1, <2>3
<1>3. CASE listed = 1
  <2>1. s = <<means>> /\ Len(s) = 1 /\ vout = 0
    <3>1. Len(<<>>) = 0 /\ s \in {<<>>, <<means>>} /\ Len(s) = 1 /\ vout < 1
      BY <1>3
    <3> HIDE DEF s
    <3> QED
      BY <3>1
  <2>2. Spend(s, vout) = <<>>
    BY <1>1, <2>1, SpendValues
  <2>3. r = <<>>
    <3>1. CASE n = 1
      <4>1. s = IF 0 \in gone THEN <<>> ELSE <<0>>
        BY <3>1, WithoutValues
      <4>2. means = 0
        <5>1. s[1] = means /\ s # <<>>
          BY <2>1
        <5> HIDE DEF s
        <5> QED
          BY <4>1, <5>1
      <4> QED
        BY <3>1, <4>2, WithoutValues
    <3>2. CASE n = 2
      <4>1. s = IF 0 \in gone THEN IF 1 \in gone THEN <<>> ELSE <<1>>
                ELSE IF 1 \in gone THEN <<0>> ELSE <<0, 1>>
        BY <3>2, WithoutValues
      <4>2. Len(<<>>) = 0 /\ Len(<<0, 1>>) = 2 /\ s[1] = means
        BY <2>1
      <4>3. (0 \in gone /\ means = 1) \/ (1 \in gone /\ means = 0)
        <5> HIDE DEF s
        <5> QED
          BY <2>1, <4>1, <4>2
      <4>4. 0 \in gone \cup {means} /\ 1 \in gone \cup {means}
        BY <4>3
      <4> QED
        BY <3>2, <4>4, WithoutValues
    <3> QED
      BY <3>1, <3>2
  <2> QED
    BY <2>2, <2>3
<1> QED
  <2>1. listed = 1 \/ listed = 2
    <3> HIDE DEF listed
    <3>1. vout < listed
      BY DEF listed
    <3> QED
      BY <1>1, <3>1
  <2> QED
    BY <1>2, <1>3, <2>1

LEMMA UUpdate ==
  ASSUME UInv, NEW h \in Hash, Update(h)
  PROVE  UInv'
<1> DEFINE x == pay[h]
           t0 == pay[h].txid
<1>1. TypeOK' /\ Tree' /\ Sound' /\ IdleWhenClean' /\ Chain' = Chain /\ Mined' = Mined
  BY UUpdateType
<1>2. SUFFICES ASSUME clean'
               PROVE  BooksRightWhenClean' /\ PaymentsMeant'
  BY <1>1 DEF UInv, BooksRightWhenClean, PaymentsMeant
<1>3. /\ clean /\ prev[h] = head /\ x.listed = Len(utxo[t0]) /\ head' = h
      /\ utxo' = [utxo EXCEPT ![t0] = Spend(@, x.vout), ![h] = AllOutputs(h)]
      /\ UNCHANGED <<prev, pay, pending>>
  BY <1>2 DEF Update, blocks
<1>4. TypeOK /\ Tree /\ head \in Mined /\ head \in Hash /\ x \in Payment
  BY DEF UInv, TypeOK, Mined
<1>5. h \in Mined \ {Genesis}
  <2>1. prev[h] # None
    BY <1>3, <1>4, HashIsNat
  <2>2. \A n \in Hash : ~(n < 0)
    BY HashIsNat
  <2>3. h # Genesis
    BY <1>3, <1>4, <2>2 DEF Tree, Genesis
  <2> QED
    BY <2>1, <2>3 DEF Mined
<1>6. /\ Chain[h] = {h} \cup Chain[head] /\ Chain[head] \subseteq 0 .. head /\ Chain[h] \subseteq 0 .. h
      /\ Chain[h] \subseteq Hash /\ pay \in Payments
  <2>1. prev[h] # None
    BY <1>3, <1>4, HashIsNat
  <2> QED
    BY <1>3, <1>4, <1>5, <2>1, TreeFacts
<1>7. h \in Nat /\ head \in Nat /\ head < h
  BY <1>3, <1>4, HashIsNat DEF Tree
<1>8. h \notin Chain[head]
  BY <1>6, <1>7
<1>9. /\ \A t \in Hash : utxo[t] = IF t \in Chain[head] THEN Left(t, Chain[head]) ELSE <<>>
      /\ \A y \in pending : Meant(y)
      /\ \A g \in Mined \ {Genesis} : Meant(pay[g])
  BY <1>3 DEF UInv, BooksRightWhenClean, PaymentsMeant
<1>10. Meant(x)
  BY <1>5, <1>9
<1>11. t0 \in Chain[head] /\ t0 # h /\ t0 \in Hash
  BY <1>6, <1>8, <1>10 DEF Meant
<1>12. /\ utxo'[h] = AllOutputs(h)
       /\ utxo'[t0] = Spend(utxo[t0], x.vout)
       /\ \A t \in Hash \ {h, t0} : utxo'[t] = utxo[t]
  BY <1>3, <1>4, <1>11 DEF TypeOK
<1>13. ASSUME NEW t \in Hash
       PROVE  utxo'[t] = IF t \in Chain[h] THEN Without(pay[t].outs, Spent(pay, t, Chain[h])) ELSE <<>>
  <2>1. CASE t = h
    <3>1. ASSUME NEW b \in Chain[h]
          PROVE  pay[b].txid # h
      <4>1. b \in 0 .. h /\ b \in Hash
        BY <1>6
      <4>2. pay[b] \in Payment /\ pay[b].txid < b
        BY <1>6, <4>1 DEF Payments
      <4> QED
        BY <1>7, <4>1, <4>2, HashIsNat DEF Payment, None
    <3>2. Spent(pay, h, Chain[h]) = {}
      BY <3>1 DEF Spent
    <3> QED
      BY <1>6, <1>12, <2>1, <3>2, LeftIs
  <2>2. CASE t = t0
    <3> DEFINE size == pay[t0].outs
               taken == Spent(pay, t0, Chain[head])
    <3>1. utxo[t0] = Without(size, taken)
      BY <1>9, <1>11, LeftIs
    <3>2. size \in 1 .. 2 /\ taken \in SUBSET (0 .. 1)
      BY <1>4, <1>11 DEF TypeOK, Payment, Spent
    <3>3. x.vout \in 0 .. 1 /\ x.means \in 0 .. 1 /\ x.listed \in 0 .. 2
      BY <1>4 DEF Payment
    <3>4. /\ x.listed = Len(Without(size, taken)) /\ x.vout < x.listed
          /\ x.listed = 2 => x.means = x.vout
          /\ x.listed = 1 => Without(size, taken) \in {<<>>, <<x.means>>}
      BY <1>3, <1>10, <3>1 DEF Meant
    <3>5. Spend(Without(size, taken), x.vout) = Without(size, taken \cup {x.means})
      <4> DEFINE pos == x.vout
                 out == x.means
      <4>1. /\ size \in 1 .. 2 /\ taken \in SUBSET (0 .. 1) /\ pos \in 0 .. 1 /\ out \in 0 .. 1
            /\ Paid(Without(size, taken), pos, out)
        BY <3>2, <3>3, <3>4 DEF Paid
      <4>2. PICK n \in 1 .. 2 : n = size
        BY <3>2
      <4>3. PICK gone \in SUBSET (0 .. 1) : gone = taken
        BY <3>2
      <4>4. PICK p \in 0 .. 1 : p = pos
        BY <3>3
      <4>5. PICK o \in 0 .. 1 : o = out
        BY <3>3
      <4> HIDE DEF size, taken, pos, out
      <4>6. Paid(Without(n, gone), p, o)
        BY <4>1, <4>2, <4>3, <4>4, <4>5
      <4>7. Spend(Without(n, gone), p) = Without(n, gone \cup {o})
        BY ONLY <4>6, SpendMeant
      <4>8. Spend(Without(size, taken), pos) = Without(size, taken \cup {out})
        BY <4>2, <4>3, <4>4, <4>5, <4>7
      <4> QED
        BY <4>8 DEF pos, out
    <3>6. Spent(pay, t0, Chain[h]) = taken \cup {x.means}
      BY <1>6, <3>3 DEF Spent
    <3>7. t0 \in Chain[h]
      BY <1>6, <1>11
    <3> QED
      BY <1>12, <2>2, <3>1, <3>5, <3>6, <3>7
  <2>3. CASE t # h /\ t # t0
    <3>1. utxo'[t] = utxo[t]
      BY <1>12, <2>3
    <3>2. utxo[t] = IF t \in Chain[head] THEN Without(pay[t].outs, Spent(pay, t, Chain[head])) ELSE <<>>
      BY <1>9, LeftIs
    <3>3. Spent(pay, t, Chain[h]) = Spent(pay, t, Chain[head])
      BY <1>6, <2>3 DEF Spent
    <3>4. t \in Chain[h] <=> t \in Chain[head]
      BY <1>6, <2>3
    <3> QED
      BY <3>1, <3>2, <3>3, <3>4
  <2> QED
    BY <2>1, <2>2, <2>3
<1>14. BooksRightWhenClean'
  BY <1>1, <1>3, <1>13, LeftIs DEF BooksRightWhenClean
<1>15. ASSUME NEW y, Meant(y)
       PROVE  Meant(y)'
  <2>1. y.txid \in Chain[head] /\ y.txid # h /\ y.txid \in Hash /\ y.txid \in Chain[h]
    BY <1>6, <1>8, <1>15 DEF Meant
  <2>2. ASSUME y.listed = 1
        PROVE  utxo'[y.txid] \in {<<>>, <<y.means>>}
    <3>1. utxo[y.txid] \in {<<>>, <<y.means>>}
      BY <1>15, <2>2 DEF Meant
    <3>2. CASE y.txid = t0
      <4>1. Len(utxo[t0]) \in {0, 1} /\ utxo[t0] \in Outputs /\ x.vout \in 0 .. 1 /\ x.vout < Len(utxo[t0])
        BY <1>3, <1>4, <1>10, <1>11, <3>1, <3>2 DEF TypeOK, Payment, Meant
      <4>2. Len(utxo[t0]) = 1 /\ x.vout = 0
        <5> DEFINE l == Len(utxo[t0])
                   v == x.vout
        <5>1. l \in {0, 1} /\ v \in 0 .. 1 /\ v < l
          BY <4>1
        <5> HIDE DEF l, v
        <5>2. l = 1 /\ v = 0
          BY <5>1
        <5> QED
          BY <5>2 DEF l, v
      <4>3. Spend(utxo[t0], x.vout) = <<>>
        BY <4>1, <4>2, SpendValues
      <4> QED
        BY <1>12, <3>2, <4>3
    <3>3. CASE y.txid # t0
      BY <1>12, <2>1, <3>1, <3>3
    <3> QED
      BY <3>2, <3>3
  <2> QED
    BY <1>1, <1>3, <1>15, <2>1, <2>2 DEF Meant
<1>16. PaymentsMeant'
  <2>1. \A y \in pending' : Meant(y)'
    BY <1>3, <1>9, <1>15
  <2>2. \A g \in Mined' \ {Genesis} : Meant(pay[g])'
    <3> TAKE g \in Mined' \ {Genesis}
    <3>1. Meant(pay[g])
      BY <1>1, <1>9
    <3>2. Meant(pay[g])' <=> \E y : y = pay[g] /\ Meant(y)'
      BY <1>3 DEF Meant
    <3> QED
      BY <1>15, <3>1, <3>2
  <2> QED
    BY <2>1, <2>2 DEF PaymentsMeant
<1> QED
  BY <1>14, <1>16

LEMMA UReindex ==
  ASSUME UInv, ClearChainState \/ Find \/ Fill
  PROVE  UInv'
<1>1. TypeOK /\ Tree /\ Sound /\ last \in Hash
  BY DEF UInv, TypeOK, Mined
<1>2. UNCHANGED <<prev, pay, stored, last, todo, pending, head>> /\ clean' \in BOOLEAN
  BY <1>1 DEF ClearChainState, Find, Fill, blocks, TypeOK
<1>3. Chain' = Chain /\ Mined' = Mined
  BY <1>2, ChainIs, ChainIsNext DEF Mined
<1>4. <<>> \in Outputs /\ NoOutputs \in [Hash -> Outputs]
  BY DEF Outputs, NoOutputs
<1>5. CASE ClearChainState
  <2>1. utxo' = NoOutputs /\ clean' = FALSE /\ phase' = "find" /\ found' = found
    BY <1>5 DEF ClearChainState
  <2>2. TypeOK' /\ Tree' /\ Sound'
    BY <1>1, <1>2, <1>3, <1>4, <2>1 DEF TypeOK, Tree, Sound, NoOutputs
  <2> QED
    BY <2>1, <2>2 DEF UInv, BooksRightWhenClean, PaymentsMeant, IdleWhenClean
<1>6. CASE Find
  <2>1. /\ utxo' = utxo /\ clean' = clean /\ phase = "find" /\ phase' \in {"idle", "fill"}
        /\ \/ found' = found
           \/ Chain[last] \subseteq stored /\ found' = FindUTXO(last)
    BY <1>6 DEF Find
  <2>2. ~clean
    BY <2>1 DEF UInv, IdleWhenClean
  <2>3. ASSUME Chain[last] \subseteq stored
        PROVE  /\ FindUTXO(last) \in [Hash -> Outputs]
               /\ \A t \in Hash : FindUTXO(last)[t] # <<>> =>
                    t \in stored /\ Len(FindUTXO(last)[t]) <= pay[t].outs
    <3>1. FindUTXO(last) = Scan(prev, pay, last, {})
      BY <1>1, FindIsScan
    <3>2. \A t \in Hash : /\ Without(pay[t].outs, NamedIn(prev, pay, last, t, {})) \in Outputs
                          /\ Len(Without(pay[t].outs, NamedIn(prev, pay, last, t, {}))) <= pay[t].outs
      <4> TAKE t \in Hash
      <4>1. pay[t].outs \in 1 .. 2 /\ NamedIn(prev, pay, last, t, {}) \in SUBSET (0 .. 1)
        BY <1>1 DEF TypeOK, Payment, NamedIn
      <4> QED
        BY <4>1, WithoutValues
    <3> QED
      BY <1>4, <2>3, <3>1, <3>2, ChainIs DEF Scan
  <2>4. TypeOK' /\ Tree' /\ Sound'
    BY <1>1, <1>2, <1>3, <2>1, <2>3 DEF TypeOK, Tree, Sound
  <2> QED
    BY <2>1, <2>2, <2>4 DEF UInv, BooksRightWhenClean, PaymentsMeant, IdleWhenClean
<1>7. CASE Fill
  <2>1. /\ utxo' = [t \in Hash |-> IF found[t] = <<>> THEN utxo[t] ELSE found[t]]
        /\ found' = NoOutputs /\ clean' = clean /\ phase = "fill" /\ phase' = "idle"
    BY <1>7 DEF Fill
  <2>2. ~clean
    BY <2>1 DEF UInv, IdleWhenClean
  <2>3. TypeOK' /\ Tree' /\ Sound'
    BY <1>1, <1>2, <1>3, <1>4, <2>1 DEF TypeOK, Tree, Sound, NoOutputs
  <2> QED
    BY <2>1, <2>2, <2>3 DEF UInv, BooksRightWhenClean, PaymentsMeant, IdleWhenClean
<1> QED
  BY <1>5, <1>6, <1>7

LEMMA URestart ==
  ASSUME UInv, Restart \/ UNCHANGED vars
  PROVE  UInv'
<1>1. TypeOK /\ Tree /\ Sound
  BY DEF UInv
<1>2. /\ UNCHANGED <<prev, pay, stored, last, utxo, pending, head>>
      /\ todo' \subseteq todo /\ clean' \in BOOLEAN /\ (clean' => clean)
      /\ found' \in {found, NoOutputs} /\ phase' \in {phase, "idle"}
  <2>1. CASE Restart
    BY <1>1, <2>1 DEF Restart, blocks, TypeOK
  <2>2. CASE UNCHANGED vars
    BY <1>1, <2>2 DEF vars, TypeOK
  <2> QED
    BY <2>1, <2>2
<1>3. Chain' = Chain /\ Mined' = Mined
  BY <1>2, ChainIs, ChainIsNext DEF Mined
<1>4. <<>> \in Outputs /\ NoOutputs \in [Hash -> Outputs]
  BY DEF Outputs, NoOutputs
<1>5. TypeOK' /\ Tree' /\ Sound'
  BY <1>1, <1>2, <1>3, <1>4 DEF TypeOK, Tree, Sound, NoOutputs
<1>6. BooksRightWhenClean' /\ PaymentsMeant'
  BY <1>1, <1>2, <1>3, BooksKept DEF UInv
<1>7. IdleWhenClean'
  BY <1>2 DEF UInv, IdleWhenClean
<1> QED
  BY <1>5, <1>6, <1>7 DEF UInv

-----------------------------------------------------------------------------
(* The theorems. *)

LEMMA UInvHolds == Spec => []UInv
<1>1. UInv /\ [Next]_vars => UInv'
  BY UPay, UPeerMines, UMineBlock, UAddBlock, UUpdate, UReindex, URestart DEF Next
<1> QED
  BY <1>1, UInit, PTL DEF Spec

\* Whatever Update, Reindex and crashes do to each other, the bucket lists
\* nothing that no stored block created, twice or in another order.
THEOREM UTXOSetTypeCorrect == Spec => []TypeOK
<1>1. UInv => TypeOK
  BY DEF UInv
<1> QED
  BY <1>1, UInvHolds, PTL

\* The walk of FindUTXO, which collects inputs from the last block down, finds
\* exactly the outputs that no input of the whole chain names, on every chain.
THEOREM ScanExactAlways == Spec => []ScanIsUnspent
<1>1. UInv => ScanIsUnspent
  BY ScanExact DEF UInv
<1> QED
  BY <1>1, UInvHolds, PTL

\* Update counts positions in a list that shrinks and still removes the output
\* the wallet meant, while blocks are applied in the order of one chain and
\* nothing else was spent of that transaction since the payment was made.
THEOREM BooksRight == Spec => []BooksRightWhenClean
<1>1. UInv => BooksRightWhenClean
  BY DEF UInv
<1> QED
  BY <1>1, UInvHolds, PTL
==============================================================================
