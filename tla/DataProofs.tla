------------------------------ MODULE DataProofs ------------------------------
(***************************************************************************)
(* What is computed from stored data, for data of any size: the Base58     *)
(* text of a byte string, when a key or a signature, cut in the middle,    *)
(* falls into the two byte strings it was made of, which blocks the tree   *)
(* over HTTP shows, and what a Merkle tree and its checks say of a list.   *)
(***************************************************************************)
EXTENDS Merkle, Encoding, BlockView, SequenceTheorems, TLAPS

-----------------------------------------------------------------------------
(* Numbers and their digits. *)

LEMMA Widen ==
  ASSUME NEW S, NEW T, S \subseteq T, NEW s \in Seq(S) PROVE s \in Seq(T)
OBVIOUS

LEMMA DivisionFacts ==
  ASSUME NEW base \in Nat \ {0, 1}, NEW m \in Nat
  PROVE  /\ m \div base \in Nat /\ m % base \in 0 .. base - 1
         /\ m = (m \div base) * base + (m % base)
         /\ m > 0 => m \div base < m
<1>1. m \div base \in Int /\ m % base \in 0 .. base - 1 OBVIOUS
<1>2. m = (m \div base) * base + (m % base) OBVIOUS
<1>3. m \div base >= 0
  <2>1. PICK q \in Int : q = m \div base BY <1>1
  <2> QED OBVIOUS
<1>4. m > 0 => m \div base < m
  <2>1. PICK q \in Int : q = m \div base BY <1>1
  <2>2. PICK d \in 0 .. base - 1 : d = m % base BY <1>1
  <2>3. m = q * base + d BY <1>2, <2>1, <2>2
  <2>4. q >= 1 => q * base >= q * 2 OBVIOUS
  <2> QED BY <2>1, <2>3, <2>4
<1> QED BY <1>1, <1>2, <1>3, <1>4

LEMMA ProductFacts ==
  ASSUME NEW base \in Nat \ {0, 1}, NEW q \in Nat
  PROVE  q * base \in Nat /\ (q # 0 => q * base >= 1)
OBVIOUS

LEMMA ShiftFacts ==
  ASSUME NEW base \in Nat \ {0, 1}, NEW q \in Nat, NEW d \in Nat, q # 0 \/ d # 0
  PROVE  q * base + d \in Nat /\ q * base + d # 0
<1>1. PICK r : r = q * base OBVIOUS
<1>2. r \in Nat /\ (q # 0 => r >= 1) BY <1>1, ProductFacts
<1>3. r + d \in Nat /\ r + d # 0 BY <1>2
<1> QED BY <1>1, <1>3

LEMMA DivisionUnique ==
  ASSUME NEW base \in Nat \ {0, 1}, NEW n \in Nat, NEW d \in 0 .. base - 1
  PROVE  (n * base + d) \div base = n /\ (n * base + d) % base = d
<1> DEFINE m == n * base + d
<1>1. m \in Nat OBVIOUS
<1>2. PICK q \in Int : q = m \div base OBVIOUS
<1>3. PICK r \in 0 .. base - 1 : r = m % base OBVIOUS
<1>4. m = q * base + r BY <1>2, <1>3, <1>1, DivisionFacts
<1>5. n * base + d = q * base + r BY <1>4
<1>6. n >= q + 1 => n * base >= q * base + base
  <2>1. n >= q + 1 => n * base >= (q + 1) * base OBVIOUS
  <2> QED BY <2>1
<1>7. q >= n + 1 => q * base >= n * base + base
  <2>1. q >= n + 1 => q * base >= (n + 1) * base OBVIOUS
  <2> QED BY <2>1
<1>8. q = n /\ r = d
  <2>1. n * base \in Int /\ q * base \in Int OBVIOUS
  <2> QED BY <1>5, <1>6, <1>7, <2>1
<1> QED BY <1>2, <1>3, <1>8

-----------------------------------------------------------------------------
\* The fold of Number, over the positions of the digits.
FoldStep(digits, base, fold, S) ==
  IF S = {} THEN 0 ELSE fold[S \ {Max(S)}] * base + digits[Max(S)]

FoldDom(p)     == SUBSET DOMAIN p[1]
FoldRank(p, S) == IF S = {} THEN 0 ELSE Max(S)
FoldDef(p, fold, S) == FoldStep(p[1], p[2], fold, S)
FoldRec == INSTANCE Recursion WITH Dom <- FoldDom, Rank <- FoldRank, Def <- FoldDef

Fold(digits, base) ==
  CHOOSE fold : fold = [S \in SUBSET DOMAIN digits |-> FoldStep(digits, base, fold, S)]
UpTo(digits, base, k) == Fold(digits, base)[1 .. k]

LEMMA GreatestPosition ==
  ASSUME NEW n \in Nat, NEW S \in SUBSET (1 .. n), S # {}
  PROVE  Max(S) \in S /\ \A i \in S : i <= Max(S)
<1> DEFINE T == {n - i : i \in S}
<1>1. T \in SUBSET Nat /\ T # {}
  <2>1. \A i \in S : n - i \in Nat
    <3> TAKE i \in S
    <3>1. i \in Int /\ i <= n OBVIOUS
    <3> QED BY <3>1
  <2> QED BY <2>1
<1>2. PICK t \in T : \A u \in T : t <= u
  <2> HIDE DEF T
  <2> QED BY <1>1, FoldRec!LeastNumber
<1>3. PICK i \in S : t = n - i BY <1>2
<1>4. \A j \in S : i >= j
  <2> TAKE j \in S
  <2>1. n - i <= n - j BY <1>2, <1>3
  <2> QED BY <2>1
<1>5. \E m \in S : \A j \in S : m >= j BY <1>4
<1>6. Max(S) \in S /\ \A j \in S : Max(S) >= j BY <1>5 DEF Max
<1> QED BY <1>6

LEMMA NumberIsFold ==
  ASSUME NEW digits, NEW base PROVE Number(digits, base) = Fold(digits, base)[DOMAIN digits]
BY DEF Number, FoldLeft, MapThenFoldSet, Fold, FoldStep

LEMMA FoldValue ==
  ASSUME NEW D, NEW digits \in Seq(D), NEW base, NEW S \in SUBSET DOMAIN digits
  PROVE  Fold(digits, base)[S] = FoldStep(digits, base, Fold(digits, base), S)
<1> DEFINE p == <<digits, base>>
<1>1. p[1] = digits /\ p[2] = base OBVIOUS
<1>2. Len(digits) \in Nat /\ DOMAIN digits = 1 .. Len(digits) OBVIOUS
<1> HIDE DEF p
<1>3. \A X \in FoldDom(p) :
        X # {} => Max(X) \in X /\ (\A i \in X : i <= Max(X)) /\ Max(X) \in 1 .. Len(digits)
  BY <1>1, <1>2, GreatestPosition DEF FoldDom
<1>4. FoldRec!Ranked(p) BY <1>3 DEF FoldRec!Ranked, FoldRank
<1>5. FoldRec!LooksDown(p)
  <2> SUFFICES ASSUME NEW f, NEW g, NEW X \in FoldDom(p),
                      \A Y \in FoldDom(p) : FoldRank(p, Y) < FoldRank(p, X) => f[Y] = g[Y]
               PROVE  FoldDef(p, f, X) = FoldDef(p, g, X)
    BY DEF FoldRec!LooksDown
  <2>1. CASE X = {} BY <2>1 DEF FoldDef, FoldStep
  <2>2. CASE X # {}
    <3> DEFINE Y == X \ {Max(X)}
    <3>1. Y \in FoldDom(p) BY DEF FoldDom
    <3>2. FoldRank(p, Y) < FoldRank(p, X)
      <4>1. CASE Y = {} BY <1>3, <2>2, <4>1 DEF FoldRank
      <4>2. CASE Y # {}
        <5>1. Max(Y) \in Y BY <1>3, <3>1, <4>2
        <5>2. Max(Y) # Max(X) /\ Max(Y) <= Max(X) /\ Max(Y) \in Nat /\ Max(X) \in Nat
          BY <1>3, <2>2, <5>1, <3>1
        <5> QED BY <2>2, <4>2, <5>2 DEF FoldRank
      <4> QED BY <4>1, <4>2
    <3>3. f[Y] = g[Y] BY <3>1, <3>2
    <3> QED BY <2>2, <3>3 DEF FoldDef, FoldStep
  <2> QED BY <2>1, <2>2
<1>6. \E fold : fold = [X \in FoldDom(p) |-> FoldDef(p, fold, X)]
  BY <1>4, <1>5, FoldRec!FunctionExists
<1>7. \E fold : fold = [X \in SUBSET DOMAIN digits |-> FoldStep(digits, base, fold, X)]
  BY <1>6, <1>1 DEF FoldDom, FoldDef
<1>8. Fold(digits, base) =
        [X \in SUBSET DOMAIN digits |-> FoldStep(digits, base, Fold(digits, base), X)]
  BY <1>7, Zenon DEF Fold
<1> QED BY <1>8

\* Digit by digit, from the left.
LEMMA UpToStep ==
  ASSUME NEW D, NEW digits \in Seq(D), NEW base
  PROVE  /\ UpTo(digits, base, 0) = 0
         /\ \A k \in 1 .. Len(digits) :
              UpTo(digits, base, k) = UpTo(digits, base, k - 1) * base + digits[k]
         /\ Number(digits, base) = UpTo(digits, base, Len(digits))
<1>1. Len(digits) \in Nat /\ DOMAIN digits = 1 .. Len(digits) OBVIOUS
<1>2. UpTo(digits, base, 0) = 0
  <2>1. 1 .. 0 = {} OBVIOUS
  <2>2. {} \in SUBSET DOMAIN digits OBVIOUS
  <2> QED BY <2>1, <2>2, FoldValue DEF UpTo, FoldStep
<1>3. ASSUME NEW k \in 1 .. Len(digits)
      PROVE  UpTo(digits, base, k) = UpTo(digits, base, k - 1) * base + digits[k]
  <2> DEFINE S == 1 .. k
  <2>0. k \in Nat /\ 1 <= k /\ k <= Len(digits) BY <1>1
  <2>1. S \in SUBSET DOMAIN digits /\ k \in S /\ k \in Nat /\ S # {}
    <3>1. k \in S BY <2>0
    <3>2. \A i \in S : i \in 1 .. Len(digits) BY <2>0
    <3> HIDE DEF S
    <3> QED BY <1>1, <2>0, <3>1, <3>2
  <2>2. Max(S) = k
    <3>1. Max(S) \in S /\ \A i \in S : i <= Max(S) BY <2>1, GreatestPosition
    <3> QED BY <3>1, <2>1
  <2>3. S \ {k} = 1 .. (k - 1) OBVIOUS
  <2>4. Fold(digits, base)[S] = FoldStep(digits, base, Fold(digits, base), S)
    <3> HIDE DEF S
    <3> QED BY <2>1, FoldValue
  <2>5. Fold(digits, base)[S] = Fold(digits, base)[S \ {k}] * base + digits[k]
    <3> HIDE DEF S
    <3> QED BY <2>1, <2>2, <2>4 DEF FoldStep
  <2> QED BY <2>3, <2>5 DEF UpTo
<1>4. Number(digits, base) = UpTo(digits, base, Len(digits))
  BY <1>1, NumberIsFold DEF UpTo
<1> QED BY <1>2, <1>3, <1>4

LEMMA UpToNat ==
  ASSUME NEW digits \in Seq(Nat), NEW base \in Nat
  PROVE  \A k \in 0 .. Len(digits) : UpTo(digits, base, k) \in Nat
<1> DEFINE T == {k \in 0 .. Len(digits) : UpTo(digits, base, k) \notin Nat}
<1>1. SUFFICES ASSUME T # {} PROVE FALSE OBVIOUS
<1>2. PICK k \in T : \A l \in T : k <= l
  <2>1. T \in SUBSET Nat OBVIOUS
  <2> HIDE DEF T
  <2> QED BY <1>1, <2>1, FoldRec!LeastNumber
<1>3. CASE k = 0 BY <1>3, UpToStep
<1>4. CASE k # 0
  <2>1. k \in 1 .. Len(digits) /\ k - 1 \in 0 .. Len(digits) /\ k - 1 < k BY <1>4
  <2>2. UpTo(digits, base, k - 1) \in Nat BY <1>2, <2>1
  <2>3. digits[k] \in Nat BY <2>1
  <2>4. UpTo(digits, base, k) = UpTo(digits, base, k - 1) * base + digits[k] BY <2>1, UpToStep
  <2>5. UpTo(digits, base, k) \in Nat
    <3>1. \A u, d \in Nat : u * base + d \in Nat OBVIOUS
    <3> QED BY <2>2, <2>3, <2>4, <3>1
  <2> QED BY <2>5
<1> QED BY <1>3, <1>4

\* It only depends on the digits read so far.
LEMMA UpToSame ==
  ASSUME NEW D, NEW s \in Seq(D), NEW t \in Seq(D), NEW base, NEW n \in Nat,
         n <= Len(s), n <= Len(t), \A i \in 1 .. n : s[i] = t[i]
  PROVE  UpTo(s, base, n) = UpTo(t, base, n)
<1> DEFINE T == {k \in 0 .. n : UpTo(s, base, k) # UpTo(t, base, k)}
<1>1. SUFFICES ASSUME T # {} PROVE FALSE OBVIOUS
<1>2. PICK k \in T : \A l \in T : k <= l
  <2>1. T \in SUBSET Nat OBVIOUS
  <2> HIDE DEF T
  <2> QED BY <1>1, <2>1, FoldRec!LeastNumber
<1>3. CASE k = 0 BY <1>3, UpToStep
<1>4. CASE k # 0
  <2>1. k \in 1 .. Len(s) /\ k \in 1 .. Len(t) /\ k \in 1 .. n /\ k - 1 \in 0 .. n /\ k - 1 < k
    BY <1>4
  <2>2. UpTo(s, base, k - 1) = UpTo(t, base, k - 1) BY <1>2, <2>1
  <2>3. UpTo(s, base, k) = UpTo(s, base, k - 1) * base + s[k] BY <2>1, UpToStep
  <2>4. UpTo(t, base, k) = UpTo(t, base, k - 1) * base + t[k] BY <2>1, UpToStep
  <2>5. s[k] = t[k] BY <2>1
  <2> QED BY <2>2, <2>3, <2>4, <2>5
<1> QED BY <1>3, <1>4

LEMMA NumberFacts ==
  ASSUME NEW base \in Nat
  PROVE  /\ Number(<<>>, base) = 0
         /\ \A s \in Seq(Nat) : Number(s, base) \in Nat
         /\ \A s \in Seq(Nat), d \in Nat :
              Number(Append(s, d), base) = Number(s, base) * base + d
<1>1. Number(<<>>, base) = 0
  <2>1. <<>> \in Seq(Nat) /\ Len(<<>>) = 0 OBVIOUS
  <2> QED BY <2>1, UpToStep
<1>2. ASSUME NEW s \in Seq(Nat) PROVE Number(s, base) \in Nat
  <2>1. Len(s) \in 0 .. Len(s) OBVIOUS
  <2> QED BY <2>1, UpToStep, UpToNat
<1>3. ASSUME NEW s \in Seq(Nat), NEW d \in Nat
      PROVE  Number(Append(s, d), base) = Number(s, base) * base + d
  <2> DEFINE t == Append(s, d)
  <2>1. /\ t \in Seq(Nat) /\ Len(t) = Len(s) + 1 /\ Len(s) \in Nat
        /\ t[Len(t)] = d /\ \A i \in 1 .. Len(s) : s[i] = t[i]
    OBVIOUS
  <2> HIDE DEF t
  <2>2. UpTo(s, base, Len(s)) = UpTo(t, base, Len(s))
    <3>1. PICK n \in Nat : n = Len(s) BY <2>1
    <3>2. n <= Len(s) /\ n <= Len(t) /\ \A i \in 1 .. n : s[i] = t[i] BY <2>1, <3>1
    <3>3. UpTo(s, base, n) = UpTo(t, base, n) BY <2>1, <3>2, UpToSame
    <3> QED BY <3>1, <3>3
  <2>3. Len(t) \in 1 .. Len(t) /\ Len(t) - 1 = Len(s) BY <2>1
  <2>4. UpTo(t, base, Len(t)) = UpTo(t, base, Len(s)) * base + d BY <2>1, <2>3, UpToStep
  <2>5. Number(t, base) = UpTo(t, base, Len(t)) BY <2>1, UpToStep
  <2>6. Number(s, base) = UpTo(s, base, Len(s)) BY UpToStep
  <2> QED BY <2>2, <2>4, <2>5, <2>6 DEF t
<1> QED BY <1>1, <1>2, <1>3

-----------------------------------------------------------------------------
\* The digits of a number.
DigitStep(base, digits, m) == IF m = 0 THEN <<>> ELSE Append(digits[m \div base], m % base)

DigitDom(p)     == 0 .. p[1]
DigitRank(p, m) == m
DigitDef(p, digits, m) == DigitStep(p[2], digits, m)
DigitRec == INSTANCE Recursion WITH Dom <- DigitDom, Rank <- DigitRank, Def <- DigitDef

DigitTable(n, base) == CHOOSE digits : digits = [m \in 0 .. n |-> DigitStep(base, digits, m)]

LEMMA TableValue ==
  ASSUME NEW base \in Nat \ {0, 1}, NEW n \in Nat
  PROVE  /\ Digits(n, base) = DigitTable(n, base)[n]
         /\ \A m \in 0 .. n : DigitTable(n, base)[m] = DigitStep(base, DigitTable(n, base), m)
<1> DEFINE p == <<n, base>>
<1>1. p[1] = n /\ p[2] = base OBVIOUS
<1> HIDE DEF p
<1>2. Digits(n, base) = DigitTable(n, base)[n] BY DEF Digits, DigitTable, DigitStep
<1>3. DigitRec!Ranked(p) BY <1>1 DEF DigitRec!Ranked, DigitDom, DigitRank
<1>4. DigitRec!LooksDown(p)
  <2> SUFFICES ASSUME NEW f, NEW g, NEW m \in 0 .. n, \A l \in 0 .. n : l < m => f[l] = g[l]
               PROVE  DigitStep(base, f, m) = DigitStep(base, g, m)
    BY <1>1 DEF DigitRec!LooksDown, DigitDom, DigitRank, DigitDef
  <2>1. CASE m = 0 BY <2>1 DEF DigitStep
  <2>2. CASE m # 0
    <3>1. PICK l \in Nat : l = m \div base BY DivisionFacts
    <3>2. l \in 0 .. n /\ l < m BY <2>2, <3>1, DivisionFacts
    <3>3. f[l] = g[l] BY <3>2
    <3> QED BY <2>2, <3>1, <3>3 DEF DigitStep
  <2> QED BY <2>1, <2>2
<1>5. \E digits : digits = [m \in DigitDom(p) |-> DigitDef(p, digits, m)]
  BY <1>3, <1>4, DigitRec!FunctionExists
<1>6. \E digits : digits = [m \in 0 .. n |-> DigitStep(base, digits, m)]
  BY <1>1, <1>5 DEF DigitDom, DigitDef
<1>7. DigitTable(n, base) = [m \in 0 .. n |-> DigitStep(base, DigitTable(n, base), m)]
  BY <1>6, Zenon DEF DigitTable
<1> QED BY <1>2, <1>7

\* Every table has the digits of the smaller numbers, too.
LEMMA TableSame ==
  ASSUME NEW base \in Nat \ {0, 1}, NEW n \in Nat
  PROVE  \A m \in 0 .. n : DigitTable(n, base)[m] = Digits(m, base)
<1> DEFINE T == {m \in 0 .. n : DigitTable(n, base)[m] # DigitTable(m, base)[m]}
<1> DEFINE Differ(m, k) == m <= k /\ DigitTable(k, base)[m] # DigitTable(m, base)[m]
           B == {m \in Nat : \E k \in Nat : Differ(m, k)}
<1>1. SUFFICES ASSUME B # {} PROVE FALSE
  <2>1. \A m \in 0 .. n : m \in Nat /\ m <= n OBVIOUS
  <2> QED BY <2>1, TableValue
<1>2. PICK m \in B : \A l \in B : m <= l
  <2>1. B \in SUBSET Nat OBVIOUS
  <2> HIDE DEF B
  <2> QED BY <1>1, <2>1, DigitRec!LeastNumber
<1>3. m \in Nat OBVIOUS
<1>4. PICK k \in Nat : Differ(m, k) OBVIOUS
<1>5. DigitTable(k, base)[m] = DigitStep(base, DigitTable(k, base), m)
  BY <1>3, <1>4, TableValue
<1>6. DigitTable(m, base)[m] = DigitStep(base, DigitTable(m, base), m)
  BY <1>3, TableValue
<1>7. CASE m = 0 BY <1>4, <1>5, <1>6, <1>7 DEF DigitStep
<1>8. CASE m # 0
  <2>1. PICK l \in Nat : l = m \div base BY <1>3, DivisionFacts
  <2>2. l < m BY <1>3, <1>8, <2>1, DivisionFacts
  <2>3. l \notin B BY <1>2, <1>3, <2>2
  <2>4. ~Differ(l, k) /\ ~Differ(l, m) BY <1>3, <2>3
  <2>5. DigitTable(k, base)[l] = DigitTable(m, base)[l] BY <1>3, <1>4, <2>2, <2>4
  <2> QED BY <1>4, <1>5, <1>6, <1>8, <2>1, <2>5 DEF DigitStep
<1> QED BY <1>7, <1>8

LEMMA DigitsStep ==
  ASSUME NEW base \in Nat \ {0, 1}
  PROVE  /\ Digits(0, base) = <<>>
         /\ \A n \in Nat \ {0} :
              Digits(n, base) = Append(Digits(n \div base, base), n % base)
<1>1. Digits(0, base) = <<>> BY TableValue DEF DigitStep
<1>2. ASSUME NEW n \in Nat \ {0}
      PROVE  Digits(n, base) = Append(Digits(n \div base, base), n % base)
  <2>1. PICK q \in Nat : q = n \div base BY DivisionFacts
  <2>2. q \in 0 .. n BY <2>1, DivisionFacts
  <2>3. n \in 0 .. n OBVIOUS
  <2>4. Digits(n, base) = Append(DigitTable(n, base)[q], n % base)
    BY <2>1, <2>3, TableValue DEF DigitStep
  <2>5. DigitTable(n, base)[q] = Digits(q, base) BY <2>2, TableSame
  <2> QED BY <2>1, <2>4, <2>5
<1> QED BY <1>1, <1>2

\* The digits are digits, the first is not zero, and they make up the number.
LEMMA DigitsFacts ==
  ASSUME NEW base \in Nat \ {0, 1}
  PROVE  \A n \in Nat : /\ Digits(n, base) \in Seq(0 .. base - 1)
                        /\ n > 0 => Len(Digits(n, base)) > 0 /\ Digits(n, base)[1] # 0
                        /\ Number(Digits(n, base), base) = n
<1> DEFINE Good(n) == /\ Digits(n, base) \in Seq(0 .. base - 1)
                      /\ n > 0 => Len(Digits(n, base)) > 0 /\ Digits(n, base)[1] # 0
                      /\ Number(Digits(n, base), base) = n
           T == {n \in Nat : ~Good(n)}
<1>1. SUFFICES ASSUME T # {} PROVE FALSE OBVIOUS
<1>2. PICK n \in T : \A m \in T : n <= m
  <2>1. T \in SUBSET Nat OBVIOUS
  <2> HIDE DEF T
  <2> QED BY <1>1, <2>1, DigitRec!LeastNumber
<1>3. CASE n = 0
  <2>1. Digits(n, base) = <<>> BY <1>3, DigitsStep
  <2>2. <<>> \in Seq(0 .. base - 1) OBVIOUS
  <2>3. Number(<<>>, base) = 0 BY NumberFacts
  <2>4. Digits(n, base) \in Seq(0 .. base - 1) BY <2>1, <2>2
  <2>5. Number(Digits(n, base), base) = n BY <1>3, <2>1, <2>3
  <2>6. ~(n > 0) BY <1>3
  <2>7. Good(n) BY <2>4, <2>5, <2>6
  <2> QED BY <2>7
<1>4. CASE n # 0
  <2>1. PICK q \in Nat : q = n \div base BY DivisionFacts
  <2>2. PICK d \in 0 .. base - 1 : d = n % base BY DivisionFacts
  <2>3. n = q * base + d /\ q < n BY <1>4, <2>1, <2>2, DivisionFacts
  <2>4. q \notin T BY <1>2, <2>3
  <2>5. Good(q) BY <2>4
  <2>6. PICK s \in Seq(0 .. base - 1) : s = Digits(q, base) BY <2>5
  <2>7. Digits(n, base) = Append(s, d) BY <1>4, <2>1, <2>2, <2>6, DigitsStep
  <2>8. Append(s, d) \in Seq(0 .. base - 1) OBVIOUS
  <2>9. s \in Seq(Nat) /\ d \in Nat
    <3>1. 0 .. base - 1 \subseteq Nat OBVIOUS
    <3> QED BY <3>1
  <2>10. Number(Append(s, d), base) = n
    <3>1. Number(s, base) = q BY <2>5, <2>6
    <3>2. Number(Append(s, d), base) = Number(s, base) * base + d BY <2>9, NumberFacts
    <3> QED BY <2>3, <3>1, <3>2
  <2>11. Len(Append(s, d)) > 0 /\ Append(s, d)[1] # 0
    <3>1. CASE q = 0
      <4>1. s = <<>> BY <2>6, <3>1, DigitsStep
      <4>2. d # 0 BY <1>4, <2>3, <3>1
      <4>3. Append(<<>>, d)[1] = d /\ Len(Append(<<>>, d)) = 1 OBVIOUS
      <4> QED BY <4>1, <4>2, <4>3
    <3>2. CASE q # 0
      <4>1. Len(s) > 0 /\ s[1] # 0 BY <2>5, <2>6, <3>2
      <4>2. Len(Append(s, d)) = Len(s) + 1 /\ Append(s, d)[1] = s[1] BY <4>1
      <4> QED BY <4>1, <4>2
    <3> QED BY <3>1, <3>2
  <2>12. Good(n) BY <2>7, <2>8, <2>10, <2>11
  <2> QED BY <2>12
<1> QED BY <1>3, <1>4

LEMMA LastDigit ==
  ASSUME NEW D, NEW s \in Seq(D), Len(s) > 0
  PROVE  \E t \in Seq(D), d \in D : s = Append(t, d) /\ Len(t) = Len(s) - 1
<1> DEFINE t == [i \in 1 .. Len(s) - 1 |-> s[i]]
<1>1. Len(s) \in Nat /\ s[Len(s)] \in D /\ \A i \in 1 .. Len(s) - 1 : s[i] \in D OBVIOUS
<1>2. t \in Seq(D) /\ Len(t) = Len(s) - 1 BY <1>1
<1>3. s = Append(t, s[Len(s)])
  <2> DEFINE u == Append(t, s[Len(s)])
  <2>0. \A i \in 1 .. Len(s) - 1 : t[i] = s[i] OBVIOUS
  <2> HIDE DEF t
  <2>1. u \in Seq(D) /\ Len(u) = Len(s) BY <1>1, <1>2
  <2>2. \A i \in 1 .. Len(s) : s[i] = u[i] BY <1>1, <1>2, <2>0
  <2> HIDE DEF u
  <2>3. s = u BY <2>1, <2>2, SeqEqual
  <2> QED BY <2>3 DEF u
<1> QED BY <1>1, <1>2, <1>3

\* Digits that do not start with a zero are those of their number.
LEMMA NumberThenDigits ==
  ASSUME NEW base \in Nat \ {0, 1}
  PROVE  \A s \in Seq(0 .. base - 1) : (Len(s) > 0 => s[1] # 0) =>
           Digits(Number(s, base), base) = s
<1> DEFINE Tidy(s) == Len(s) > 0 => s[1] # 0
           Back(s) == Digits(Number(s, base), base) = s
           T == {n \in Nat : \E s \in Seq(0 .. base - 1) : Len(s) = n /\ Tidy(s) /\ ~Back(s)}
<1>1. SUFFICES ASSUME T # {} PROVE FALSE OBVIOUS
<1>2. PICK n \in T : \A m \in T : n <= m
  <2>1. T \in SUBSET Nat OBVIOUS
  <2> HIDE DEF T
  <2> QED BY <1>1, <2>1, DigitRec!LeastNumber
<1>3. PICK s \in Seq(0 .. base - 1) : Len(s) = n /\ Tidy(s) /\ ~Back(s) OBVIOUS
<1>4. CASE n = 0
  <2>1. s = <<>> BY <1>3, <1>4
  <2>2. Number(<<>>, base) = 0 BY NumberFacts
  <2> QED BY <1>3, <2>1, <2>2, DigitsStep
<1>5. CASE n # 0
  <2>1. Len(s) > 0 BY <1>3, <1>5
  <2>2. PICK t \in Seq(0 .. base - 1) :
          \E d \in 0 .. base - 1 : s = Append(t, d) /\ Len(t) = Len(s) - 1
    BY <2>1, LastDigit
  <2>3. PICK d \in 0 .. base - 1 : s = Append(t, d) /\ Len(t) = Len(s) - 1
    BY <2>2
  <2>4. Tidy(t)
    <3> SUFFICES ASSUME Len(t) > 0 PROVE t[1] # 0 OBVIOUS
    <3>1. s[1] = t[1] BY <2>3
    <3> QED BY <1>3, <2>1, <3>1
  <2>5. Len(t) \in Nat /\ Len(t) < n BY <1>3, <2>3
  <2>6. Back(t)
    <3>1. Len(t) \notin T BY <1>2, <2>5
    <3> QED BY <2>4, <2>5, <3>1
  <2>7. t \in Seq(Nat) /\ d \in Nat
    <3>1. 0 .. base - 1 \subseteq Nat OBVIOUS
    <3> QED BY <3>1
  <2>8. PICK q \in Nat : q = Number(t, base) BY <2>7, NumberFacts
  <2>9. Number(s, base) = q * base + d BY <2>3, <2>7, <2>8, NumberFacts
  <2>10. (q * base + d) \div base = q /\ (q * base + d) % base = d BY DivisionUnique
  <2> HIDE DEF T
  <2>11. q * base + d \in Nat /\ q * base + d # 0
    <3>1. q # 0 \/ d # 0
      <4>1. CASE Len(t) = 0
        <5>1. t = <<>> BY <4>1
        <5>2. s[1] = d BY <2>3, <5>1
        <5> QED BY <1>3, <2>1, <5>2
      <4>2. CASE Len(t) # 0
        <5>1. ASSUME q = 0 PROVE t = <<>> BY <2>6, <2>8, <5>1, DigitsStep
        <5> QED BY <4>2, <5>1
      <4> QED BY <4>1, <4>2
    <3> QED BY <2>7, <3>1, ShiftFacts
  <2>12. Digits(q * base + d, base) = Append(Digits(q, base), d)
    <3>1. PICK k \in Nat \ {0} : k = q * base + d BY <2>11
    <3>2. Digits(k, base) = Append(Digits(k \div base, base), k % base) BY DigitsStep
    <3> QED BY <2>10, <3>1, <3>2
  <2>13. Digits(q, base) = t BY <2>6, <2>8
  <2>14. Back(s)
    BY <2>3, <2>9, <2>12, <2>13
  <2> QED BY <1>3, <2>14
<1> QED BY <1>4, <1>5
-----------------------------------------------------------------------------
(* Keys, signatures and addresses. *)

\* The two halves of a byte string, and how long they are.
LEMMA HalvesLengths ==
  ASSUME NEW S, NEW b \in Seq(S)
  PROVE  /\ Halves(b)[1] \in Seq(S) /\ Len(Halves(b)[1]) = Len(b) \div 2
         /\ Halves(b)[2] \in Seq(S) /\ Len(Halves(b)[2]) = Len(b) - Len(b) \div 2
         /\ \A i \in 1 .. Len(b) \div 2 : Halves(b)[1][i] = b[i]
         /\ \A i \in 1 .. Len(b) - Len(b) \div 2 : Halves(b)[2][i] = b[i + Len(b) \div 2]
  <1>. DEFINE half == Len(b) \div 2
  <1>1. Len(b) \in Nat /\ half \in Nat /\ half <= Len(b)
    OBVIOUS
  <1>2. /\ SubSeq(b, 1, half) \in Seq(S) /\ Len(SubSeq(b, 1, half)) = half
        /\ \A i \in 1 .. half : SubSeq(b, 1, half)[i] = b[i]
    <2>1. \A i \in 1 .. half : b[i] \in S
      BY <1>1
    <2>2. /\ SubSeq(b, 1, half) \in Seq(S)
          /\ Len(SubSeq(b, 1, half)) = IF 1 <= half THEN half - 1 + 1 ELSE 0
          /\ \A i \in 1 .. half - 1 + 1 : SubSeq(b, 1, half)[i] = b[1 + i - 1]
      BY <1>1, <2>1, SubSeqProperties
    <2>. QED
      BY <1>1, <2>2
  <1>3. /\ SubSeq(b, half + 1, Len(b)) \in Seq(S)
        /\ Len(SubSeq(b, half + 1, Len(b))) = Len(b) - half
        /\ \A i \in 1 .. Len(b) - half : SubSeq(b, half + 1, Len(b))[i] = b[i + half]
    <2>. DEFINE m == half + 1
                n == Len(b)
    <2>1. m \in Int /\ n \in Int /\ \A i \in m .. n : b[i] \in S
      BY <1>1
    <2>2. /\ m <= n + 1 /\ n - half = n - m + 1
          /\ half \in Int /\ (n < m => n = half)
      BY <1>1
    <2>3. /\ SubSeq(b, m, n) \in Seq(S)
          /\ Len(SubSeq(b, m, n)) = IF m <= n THEN n - m + 1 ELSE 0
          /\ \A i \in 1 .. n - m + 1 : SubSeq(b, m, n)[i] = b[m + i - 1]
      <3>. HIDE DEF m, n
      <3>. QED
        BY <2>1, SubSeqProperties
    <2>4. \A i \in 1 .. n - half : m + i - 1 = i + half
      BY <1>1
    <2>5. Len(SubSeq(b, m, n)) = n - half
      <3>. HIDE DEF m, n, half
      <3>1. CASE m <= n
        BY <2>2, <2>3, <3>1
      <3>2. CASE ~(m <= n)
        BY <2>1, <2>2, <2>3, <3>2
      <3>. QED
        BY <3>1, <3>2
    <2>6. ASSUME NEW i \in 1 .. n - half PROVE SubSeq(b, m, n)[i] = b[i + half]
      <3>1. SubSeq(b, m, n)[i] = b[m + i - 1]
        BY <2>2, <2>3
      <3>. QED
        BY <2>4, <3>1
    <2>. QED
      BY <2>3, <2>5, <2>6
  <1>. QED
    BY <1>2, <1>3 DEF Halves

(* Verify finds again the two byte strings that NewKeyPair and Sign wrote  *)
(* one after the other exactly if the second has the length of the first,  *)
(* or one byte more: for strings of any length over any bytes.             *)
THEOREM HalvesExact ==
  ASSUME NEW S, NEW x \in Seq(S), NEW y \in Seq(S)
  PROVE  Halves(x \o y) = <<x, y>> <=> Len(y) - Len(x) \in {0, 1}
  <1>. DEFINE b == x \o y
              half == Len(b) \div 2
  <1>1. /\ b \in Seq(S) /\ Len(b) = Len(x) + Len(y)
        /\ \A i \in 1 .. Len(x) : b[i] = x[i]
        /\ \A i \in 1 .. Len(y) : b[i + Len(x)] = y[i]
    OBVIOUS
  <1>2. half = Len(x) <=> Len(y) - Len(x) \in {0, 1}
    BY <1>1
  <1>. HIDE DEF b
  <1>3. /\ Halves(b)[1] \in Seq(S) /\ Len(Halves(b)[1]) = half
        /\ Halves(b)[2] \in Seq(S) /\ Len(Halves(b)[2]) = Len(b) - half
        /\ \A i \in 1 .. half : Halves(b)[1][i] = b[i]
        /\ \A i \in 1 .. Len(b) - half : Halves(b)[2][i] = b[i + half]
    BY <1>1, HalvesLengths
  <1>. HIDE DEF half
  <1>4. ASSUME Halves(b) = <<x, y>> PROVE half = Len(x)
    BY <1>4, <1>3
  <1>5. ASSUME half = Len(x) PROVE Halves(b) = <<x, y>>
    <2>1. /\ Halves(b)[1] \in Seq(S) /\ Len(Halves(b)[1]) = Len(x)
          /\ \A i \in 1 .. Len(x) : Halves(b)[1][i] = x[i]
      BY <1>1, <1>5, <1>3
    <2>2. /\ Halves(b)[2] \in Seq(S) /\ Len(Halves(b)[2]) = Len(y)
          /\ \A i \in 1 .. Len(y) : Halves(b)[2][i] = y[i]
      BY <1>1, <1>5, <1>3
    <2>3. Halves(b)[1] = x
      BY <2>1, SeqEqual
    <2>4. Halves(b)[2] = y
      BY <2>2, SeqEqual
    <2>5. Halves(b) = <<Halves(b)[1], Halves(b)[2]>>
      BY DEF Halves
    <2>. QED
      BY <2>3, <2>4, <2>5
  <1>. QED
    BY <1>2, <1>4, <1>5 DEF b

EncInv ==
  /\ numbers # <<>> => /\ Len(numbers) = 2 /\ numbers[1] \in Nat /\ numbers[2] \in Nat
                       /\ numbers = <<numbers[1], numbers[2]>>
                       /\ joined = Join(numbers[1], numbers[2])
  /\ payload # <<>> => payload \in Seq(Byte) /\ text = Base58Encode(payload)

LEMMA EncInvariance == EncSpec => []EncInv
<1>1. EncInit => EncInv BY DEF EncInit, EncInv
<1>2. EncInv /\ [EncNext]_encVars => EncInv'
  <2> SUFFICES ASSUME EncInv, [EncNext]_encVars PROVE EncInv' OBVIOUS
  <2>1. ASSUME NEW x \in 0 .. MaxNumber, NEW y \in 0 .. MaxNumber, WriteNumbers(x, y)
        PROVE  EncInv'
    <3>1. x \in Nat /\ y \in Nat BY EncodingAssumption
    <3>2. numbers' = <<x, y>> /\ joined' = Join(x, y) /\ payload' = payload /\ text' = text
      BY <2>1 DEF WriteNumbers
    <3>3. numbers'[1] = x /\ numbers'[2] = y /\ Len(numbers') = 2 BY <3>2
    <3> QED BY <3>1, <3>2, <3>3 DEF EncInv
  <2>2. ASSUME NEW bytes \in BoundedSeq(Byte, MaxBytes) \ {<<>>}, WriteAddress(bytes)
        PROVE  EncInv'
    <3>1. PICK m \in 0 .. MaxBytes : bytes \in [1 .. m -> Byte]
      BY EncodingAssumption DEF BoundedSeq, SeqOf
    <3>2. m \in Nat BY EncodingAssumption
    <3>3. bytes \in Seq(Byte) BY <3>1, <3>2
    <3> QED BY <2>2, <3>3 DEF WriteAddress, EncInv
  <2>3. CASE UNCHANGED encVars BY <2>3 DEF encVars, EncInv
  <2> QED BY <2>1, <2>2, <2>3 DEF EncNext
<1> QED BY <1>1, <1>2, PTL DEF EncSpec

\* The same of bytes.
LEMMA BytesFacts ==
  /\ \A n \in Nat : /\ Bytes(n) \in Seq(Byte) /\ SetBytes(Bytes(n)) = n
                    /\ Len(Bytes(n)) > 0 => Bytes(n)[1] # 0
  /\ \A s \in Seq(Byte) : /\ SetBytes(s) \in Nat
                          /\ (Len(s) > 0 => s[1] # 0) => Bytes(SetBytes(s)) = s
<1>1. PICK base \in Nat \ {0, 1} : base = ByteBase BY EncodingAssumption
<1>2. ASSUME NEW n \in Nat
      PROVE  /\ Digits(n, base) \in Seq(0 .. base - 1) /\ Number(Digits(n, base), base) = n
             /\ Len(Digits(n, base)) > 0 => Digits(n, base)[1] # 0
  <2>1. CASE n = 0
    <3>1. Digits(n, base) = <<>> BY <2>1, DigitsStep
    <3>2. ~(Len(Digits(n, base)) > 0)
      <4>1. Len(<<>>) = 0 OBVIOUS
      <4> QED BY <3>1, <4>1
    <3>3. Digits(n, base) \in Seq(0 .. base - 1) /\ Number(Digits(n, base), base) = n
      BY DigitsFacts
    <3> QED BY <3>2, <3>3
  <2>2. CASE n > 0 BY <2>2, DigitsFacts
  <2> QED BY <2>1, <2>2
<1>3. ASSUME NEW s \in Seq(0 .. base - 1)
      PROVE  /\ Number(s, base) \in Nat
             /\ (Len(s) > 0 => s[1] # 0) => Digits(Number(s, base), base) = s
  <2>1. 0 .. base - 1 \subseteq Nat OBVIOUS
  <2>2. s \in Seq(Nat) BY <2>1
  <2> QED BY <2>2, NumberFacts, NumberThenDigits
<1> QED BY <1>1, <1>2, <1>3 DEF Bytes, SetBytes, Byte

(* A key or signature comes back if and only if its second number has as   *)
(* many bytes as the first or one more: for numbers and bases of any size. *)
THEOREM SplitRight == EncSpec => []SplitExact
<1>1. ASSUME NEW x \in Nat, NEW y \in Nat
      PROVE  Split(Join(x, y)) = <<x, y>> <=> Len(Bytes(y)) - Len(Bytes(x)) \in {0, 1}
  <2>1. PICK p \in Seq(Byte) : p = Bytes(x) BY BytesFacts
  <2>2. PICK q \in Seq(Byte) : q = Bytes(y) BY BytesFacts
  <2>3. SetBytes(p) = x /\ SetBytes(q) = y BY <2>1, <2>2, BytesFacts
  <2>4. (Len(p) > 0 => p[1] # 0) /\ (Len(q) > 0 => q[1] # 0) BY <2>1, <2>2, BytesFacts
  <2> DEFINE b == p \o q
             half == Len(b) \div 2
  <2>5. ASSUME Len(q) - Len(p) \in {0, 1} PROVE Split(b) = <<x, y>>
    <3>1. Halves(b) = <<p, q>> BY <2>5, HalvesExact
    <3>2. Halves(b)[1] = p /\ Halves(b)[2] = q BY <3>1
    <3> HIDE DEF b
    <3> QED BY <2>3, <3>2 DEF Split
  <2>6. ASSUME Split(b) = <<x, y>> PROVE Len(q) - Len(p) \in {0, 1}
    <3>1. b \in Seq(Byte) /\ Len(b) = Len(p) + Len(q) OBVIOUS
    <3>2. Len(b) > 0 => b[1] # 0
      <4>1. CASE Len(p) > 0
        <5>1. b[1] = p[1] BY <4>1
        <5> QED BY <2>4, <4>1, <5>1
      <4>2. CASE Len(p) = 0
        <5>1. b = q BY <4>2
        <5> QED BY <2>4, <5>1
      <4> QED BY <4>1, <4>2
    <3> HIDE DEF b
    <3>3. PICK u \in Seq(Byte) : u = Halves(b)[1] BY <3>1, HalvesLengths
    <3>4. Len(u) = half /\ \A i \in 1 .. half : u[i] = b[i] BY <3>1, <3>3, HalvesLengths
    <3>5. Len(u) > 0 => u[1] # 0
      <4>1. half > 0 => Len(b) > 0 /\ 1 \in 1 .. half BY <3>1
      <4> HIDE DEF half
      <4> QED BY <3>2, <3>4, <4>1
    <3>6. SetBytes(u) = x
      <4>1. <<SetBytes(Halves(b)[1]), SetBytes(Halves(b)[2])>> = <<x, y>> BY <2>6 DEF Split
      <4> QED BY <3>3, <4>1
    <3>7. u = p
      <4>1. Bytes(SetBytes(u)) = u BY <3>5, BytesFacts
      <4> QED BY <2>1, <3>6, <4>1
    <3> QED BY <3>1, <3>4, <3>7
  <2> QED BY <2>1, <2>2, <2>5, <2>6 DEF Join
<1>2. EncInv => SplitExact
  <2> SUFFICES ASSUME EncInv, numbers # <<>>
               PROVE  Split(joined) = numbers
                        <=> Len(Bytes(numbers[2])) - Len(Bytes(numbers[1])) \in {0, 1}
    BY DEF SplitExact
  <2>1. PICK x \in Nat : x = numbers[1] BY DEF EncInv
  <2>2. PICK y \in Nat : y = numbers[2] BY DEF EncInv
  <2>3. numbers = <<x, y>> /\ joined = Join(x, y) BY <2>1, <2>2 DEF EncInv
  <2> QED BY <1>1, <2>1, <2>2, <2>3
<1> QED BY <1>2, EncInvariance, PTL

\* A zero at the front does not count.
LEMMA NumberOfZero ==
  ASSUME NEW base \in Nat \ {0, 1}
  PROVE  \A s \in Seq(Nat) : Number(<<0>> \o s, base) = Number(s, base)
<1> DEFINE T == {n \in Nat : \E s \in Seq(Nat) :
                   Len(s) = n /\ Number(<<0>> \o s, base) # Number(s, base)}
<1>1. SUFFICES ASSUME T # {} PROVE FALSE OBVIOUS
<1>2. PICK n \in T : \A m \in T : n <= m
  <2>1. T \in SUBSET Nat OBVIOUS
  <2> HIDE DEF T
  <2> QED BY <1>1, <2>1, DigitRec!LeastNumber
<1>3. PICK s \in Seq(Nat) : Len(s) = n /\ Number(<<0>> \o s, base) # Number(s, base) OBVIOUS
<1>4. CASE Len(s) = 0
  <2>1. s = <<>> /\ <<0>> \o <<>> = Append(<<>>, 0) BY <1>4
  <2>2. <<>> \in Seq(Nat) /\ 0 \in Nat OBVIOUS
  <2>3. Number(Append(<<>>, 0), base) = Number(<<>>, base) * base + 0 BY <2>2, NumberFacts
  <2>4. Number(<<>>, base) = 0 BY NumberFacts
  <2>5. Number(Append(<<>>, 0), base) = 0 BY <2>3, <2>4
  <2> QED BY <1>3, <2>1, <2>4, <2>5
<1>5. CASE Len(s) > 0
  <2>1. PICK t \in Seq(Nat) : \E d \in Nat : s = Append(t, d) /\ Len(t) = Len(s) - 1
    BY <1>5, LastDigit
  <2>2. PICK d \in Nat : s = Append(t, d) /\ Len(t) = Len(s) - 1 BY <2>1
  <2>3. Len(t) \in Nat /\ Len(t) < n BY <1>3, <2>2
  <2>4. Number(<<0>> \o t, base) = Number(t, base) BY <1>2, <2>3
  <2> DEFINE z == <<0>> \o t
  <2>5. z \in Seq(Nat) /\ <<0>> \o s = Append(z, d)
    <3>1. <<0>> \o t \in Seq(Nat) OBVIOUS
    <3>2. <<0>> \o Append(t, d) = Append(<<0>> \o t, d) OBVIOUS
    <3> QED BY <2>2, <3>1, <3>2
  <2> HIDE DEF z
  <2>6. Number(Append(z, d), base) = Number(z, base) * base + d BY <2>5, NumberFacts
  <2>7. Number(s, base) = Number(t, base) * base + d BY <2>2, NumberFacts
  <2> QED BY <1>3, <2>4, <2>5, <2>6, <2>7 DEF z
<1> QED BY <1>4, <1>5

(* Base58 decodes what it encoded unless that starts with two zero bytes:  *)
(* for byte strings of any length and any two bases.                       *)
THEOREM Base58Right == EncSpec => []Base58Exact
<1>1. ASSUME NEW b \in Seq(Byte), b # <<>>
      PROVE  Base58Decode(Base58Encode(b)) = b <=> ~(Len(b) > 1 /\ b[1] = 0 /\ b[2] = 0)
  <2>1. PICK n \in Nat : n = SetBytes(b) BY BytesFacts
  <2>2. PICK D : D = 0 .. TextBase - 1 OBVIOUS
  <2>3. TextBase \in Nat \ {0, 1} /\ D \subseteq Nat BY <2>2, EncodingAssumption
  <2>4. PICK d \in Seq(D) : d = Digits(n, TextBase) BY <2>2, <2>3, DigitsFacts
  <2>5. Number(d, TextBase) = n /\ (n > 0 => Len(d) > 0 /\ d[1] # 0) /\ d \in Seq(Nat)
    <3>1. d \in Seq(Nat) BY <2>3, Widen
    <3>2. Number(d, TextBase) = n BY <2>3, <2>4, DigitsFacts
    <3>3. n > 0 => Len(d) > 0 /\ d[1] # 0 BY <2>3, <2>4, DigitsFacts
    <3> QED BY <3>1, <3>2, <3>3
  <2>6. Base58Encode(b) = LeadingZero(b) \o d BY <2>1, <2>4 DEF Base58Encode
  <2>7. Len(b) > 0 /\ Head(b) = b[1] BY <1>1
  <2>8. CASE b[1] # 0
    <3>1. LeadingZero(b) = <<>> BY <2>7, <2>8 DEF LeadingZero
    <3>2. Bytes(n) = b BY <2>1, <2>8, BytesFacts
    <3>3. n > 0
      <4> SUFFICES ASSUME n = 0 PROVE FALSE OBVIOUS
      <4>1. b = <<>>
        BY <3>2, EncodingAssumption, DigitsStep DEF Bytes
      <4> QED BY <1>1, <4>1
    <3>4. Base58Encode(b) = d BY <2>6, <3>1
    <3>5. LeadingZero(d) = <<>>
      <4>1. Head(d) = d[1] BY <2>5, <3>3
      <4> QED BY <2>5, <3>3, <4>1 DEF LeadingZero
    <3>6. Base58Decode(d) = b
      <4>1. Base58Decode(d) = <<>> \o Bytes(n) BY <2>5, <3>5 DEF Base58Decode
      <4> QED BY <3>2, <4>1
    <3> QED BY <2>8, <3>4, <3>6
  <2>9. CASE b[1] = 0
    <3> DEFINE rest == [i \in 1 .. Len(b) - 1 |-> b[i + 1]]
    <3>1. rest \in Seq(Byte) /\ Len(rest) = Len(b) - 1 /\ b = <<0>> \o rest
          /\ (Len(b) > 1 => rest[1] = b[2])
      <4>1. \A i \in 1 .. Len(b) - 1 : b[i + 1] \in Byte
        <5> TAKE i \in 1 .. Len(b) - 1
        <5>1. i + 1 \in 1 .. Len(b) OBVIOUS
        <5> QED BY <5>1
      <4>2. rest \in Seq(Byte) /\ Len(rest) = Len(b) - 1 BY <2>7, <4>1
      <4>3. b[1] \in Byte /\ 0 \in Byte BY <2>7, <2>9
      <4>4. \A i \in 1 .. Len(rest) : rest[i] = b[i + 1] BY <4>2
      <4> HIDE DEF rest
      <4>5. PICK c : c = <<0>> \o rest OBVIOUS
      <4>6. c \in Seq(Byte) /\ Len(c) = Len(b) BY <4>2, <4>3, <4>5
      <4>7. \A i \in 1 .. Len(b) : b[i] = c[i]
        <5> TAKE i \in 1 .. Len(b)
        <5>1. CASE i = 1 BY <2>9, <4>2, <4>5, <5>1
        <5>2. CASE i # 1
          <6>1. i - 1 \in 1 .. Len(rest) BY <4>2, <5>2
          <6>2. c[i] = rest[i - 1] BY <4>2, <4>5, <5>2, <6>1
          <6>3. rest[i - 1] = b[i - 1 + 1] BY <4>4, <6>1
          <6> QED BY <6>2, <6>3
        <5> QED BY <5>1, <5>2
      <4>8. b = c BY <4>6, <4>7, SeqEqual
      <4> QED BY <4>2, <4>4, <4>5, <4>8
    <3> HIDE DEF rest
    <3>2. n = SetBytes(rest)
      <4>1. rest \in Seq(Nat)
        <5>1. Byte \subseteq Nat BY EncodingAssumption DEF Byte
        <5> QED BY <3>1, <5>1, Widen
      <4> QED BY <2>1, <3>1, <4>1, EncodingAssumption, NumberOfZero DEF SetBytes
    <3>3. LeadingZero(b) = <<0>> BY <2>7, <2>9 DEF LeadingZero
    <3> DEFINE e == <<0>> \o d
    <3>4. Base58Encode(b) = e BY <2>6, <3>3
    <3>5. LeadingZero(e) = <<0>>
      <4>1. Head(e) = 0 OBVIOUS
      <4> HIDE DEF e
      <4> QED BY <4>1 DEF LeadingZero
    <3>6. Number(e, TextBase) = n BY <2>3, <2>5, NumberOfZero
    <3>7. Base58Decode(e) = <<0>> \o Bytes(n)
      <4> HIDE DEF e
      <4> QED BY <3>5, <3>6 DEF Base58Decode
    <3>8. PICK f \in Seq(Byte) : f = Bytes(n) BY BytesFacts
    <3> DEFINE Same == <<0>> \o f = <<0>> \o rest
    <3>9. Same <=> f = rest
      <4> SUFFICES ASSUME Same PROVE f = rest OBVIOUS
      <4>1. Len(f) = Len(rest) BY <3>1
      <4>2. \A i \in 1 .. Len(f) : f[i] = rest[i]
        <5> TAKE i \in 1 .. Len(f)
        <5>1. (<<0>> \o f)[i + 1] = f[i] OBVIOUS
        <5>2. (<<0>> \o rest)[i + 1] = rest[i] BY <3>1, <4>1
        <5> QED BY <5>1, <5>2
      <4> QED BY <3>1, <4>1, <4>2, SeqEqual
    <3>10. f = rest <=> ~(Len(rest) > 0 /\ rest[1] = 0)
      BY <3>1, <3>2, <3>8, BytesFacts
    <3>11. Base58Decode(Base58Encode(b)) = <<0>> \o f
      <4> HIDE DEF e
      <4> QED BY <3>4, <3>7, <3>8
    <3>12. Base58Decode(Base58Encode(b)) = b <=> f = rest BY <3>1, <3>9, <3>11
    <3>13. (Len(rest) > 0 /\ rest[1] = 0) <=> (Len(b) > 1 /\ b[1] = 0 /\ b[2] = 0)
      BY <2>7, <2>9, <3>1
    <3> QED BY <3>10, <3>12, <3>13
  <2> QED BY <2>8, <2>9
<1>2. EncInv => Base58Exact
  BY <1>1 DEF EncInv, Base58Exact
<1> QED BY <1>2, EncInvariance, PTL

-----------------------------------------------------------------------------
(* The blocks connected to the genesis block. *)

Depth == CHOOSE depth \in [Header -> 0 .. MaxBlock] :
           \A b \in Header : Parent[b] # 0 => depth[Parent[b]] < depth[b]

Children(D, b) == {d \in D : Parent[d] = b}
Deeper(X)      == {<<x[1], x[2] + 1>> : x \in X}

TreeStep(D, under, b) == {<<b, 0>>} \cup UNION {Deeper(under[c]) : c \in Children(D, b)}
TreeDom(D)     == Header
TreeRank(D, b) == MaxBlock - Depth[b]
TreeRec == INSTANCE Recursion WITH Dom <- TreeDom, Rank <- TreeRank, Def <- TreeStep

Under(D) == CHOOSE under : under = [b \in Header |-> TreeStep(D, under, b)]

LEMMA DepthDown ==
  /\ MaxBlock \in Nat /\ Depth \in [Header -> 0 .. MaxBlock]
  /\ \A b \in Header : Parent[b] # 0 => Parent[b] \in Header /\ Depth[Parent[b]] < Depth[b]
<1> DEFINE Down(depth) == \A b \in Header : Parent[b] # 0 => depth[Parent[b]] < depth[b]
<1>1. \E depth \in [Header -> 0 .. MaxBlock] : Down(depth) BY ViewAssumption DEF Header
<1>2. Depth \in [Header -> 0 .. MaxBlock] /\ Down(Depth)
  <2> HIDE DEF Down
  <2>1. Depth = CHOOSE depth \in [Header -> 0 .. MaxBlock] : Down(depth) BY DEF Depth, Down
  <2> QED BY <1>1, <2>1
<1>3. MaxBlock \in Nat /\ Parent \in [Header -> 0 .. MaxBlock] BY ViewAssumption DEF Header
<1>4. \A b \in Header : Parent[b] # 0 => Parent[b] \in Header BY <1>3 DEF Header
<1> QED BY <1>2, <1>3, <1>4

LEMMA GenesisFacts ==
  /\ GenesisBlock \in Header /\ Parent[GenesisBlock] = 0
  /\ \A b \in Header : Parent[b] = 0 => b = GenesisBlock
BY ViewAssumption DEF GenesisBlock, Header

LEMMA TreeIsUnder ==
  ASSUME NEW D PROVE TreeOf(D) = Under(D)[GenesisBlock]
BY DEF TreeOf, Under, TreeStep, Children, Deeper

LEMMA UnderValue ==
  ASSUME NEW D \in SUBSET Header, NEW b \in Header
  PROVE  Under(D)[b] = {<<b, 0>>} \cup UNION {Deeper(Under(D)[c]) : c \in Children(D, b)}
<1>1. \A c \in Header : TreeRank(D, c) \in Nat BY DepthDown DEF TreeRank
<1>2. \A c \in Children(D, b) : c \in Header BY DEF Children
<1>3. TreeRec!Ranked(D) BY <1>1 DEF TreeRec!Ranked, TreeDom
<1>4. TreeRec!LooksDown(D)
  <2> SUFFICES ASSUME NEW f, NEW g, NEW x \in Header,
                      \A y \in Header : TreeRank(D, y) < TreeRank(D, x) => f[y] = g[y]
               PROVE  TreeStep(D, f, x) = TreeStep(D, g, x)
    BY DEF TreeRec!LooksDown, TreeDom
  <2>1. ASSUME NEW c \in Children(D, x) PROVE f[c] = g[c]
    <3>1. c \in Header /\ Parent[c] = x /\ x # 0 BY DEF Children, Header
    <3>2. Depth[x] < Depth[c] BY <3>1, DepthDown
    <3>3. TreeRank(D, c) < TreeRank(D, x) BY <3>1, <3>2, DepthDown DEF TreeRank
    <3> QED BY <3>1, <3>3
  <2> QED BY <2>1 DEF TreeStep
<1>5. \E under : under = [x \in TreeDom(D) |-> TreeStep(D, under, x)]
  BY <1>3, <1>4, TreeRec!FunctionExists
<1>6. \E under : under = [x \in Header |-> TreeStep(D, under, x)] BY <1>5 DEF TreeDom
<1>7. Under(D) = [x \in Header |-> TreeStep(D, Under(D), x)] BY <1>6, Zenon DEF Under
<1> QED BY <1>7 DEF TreeStep

\* Of several blocks there is one with the greatest depth.
LEMMA Deepest ==
  ASSUME NEW B \in SUBSET Header, B # {}
  PROVE  \E b \in B : \A c \in B : Depth[c] <= Depth[b]
<1> DEFINE T == {TreeRank({}, b) : b \in B}
<1>1. \A b \in Header : TreeRank({}, b) \in Nat BY DepthDown DEF TreeRank
<1>2. T \in SUBSET Nat /\ T # {} BY <1>1
<1>3. PICK n \in T : \A m \in T : n <= m
  <2> HIDE DEF T
  <2> QED BY <1>2, TreeRec!LeastNumber
<1>4. PICK b \in B : n = TreeRank({}, b) BY <1>3
<1>5. \A c \in B : TreeRank({}, b) <= TreeRank({}, c) BY <1>3, <1>4
<1> QED BY <1>5, DepthDown DEF TreeRank

\* The nodes are pairs of a block and a level.
LEMMA UnderType ==
  ASSUME NEW D \in SUBSET Header
  PROVE  \A b \in Header : Under(D)[b] \subseteq Header \X Nat
<1> DEFINE Failing == {b \in Header : ~(Under(D)[b] \subseteq Header \X Nat)}
<1>1. SUFFICES ASSUME Failing # {} PROVE FALSE OBVIOUS
<1>2. PICK b \in Failing : \A c \in Failing : Depth[c] <= Depth[b]
  <2> HIDE DEF Failing
  <2>1. Failing \in SUBSET Header BY DEF Failing
  <2> QED BY <1>1, <2>1, Deepest
<1>3. \A c \in Children(D, b) : Under(D)[c] \subseteq Header \X Nat
  <2> TAKE c \in Children(D, b)
  <2>1. c \in Header /\ Parent[c] = b /\ b # 0 BY DEF Children, Header
  <2>2. Depth[b] < Depth[c] BY <2>1, DepthDown
  <2>3. c \notin Failing BY <1>2, <2>1, <2>2, DepthDown
  <2> QED BY <2>1, <2>3
<1>4. \A c \in Children(D, b) : Deeper(Under(D)[c]) \subseteq Header \X Nat
  BY <1>3 DEF Deeper
<1> QED BY <1>2, <1>4, UnderValue

\* Below a block the tree is closed under children.
LEMMA UnderClosed ==
  ASSUME NEW D \in SUBSET Header
  PROVE  \A b \in Header : \A x \in Under(D)[b] : \A d \in Children(D, x[1]) :
           <<d, x[2] + 1>> \in Under(D)[b]
<1> DEFINE Closed(b) == \A x \in Under(D)[b] : \A d \in Children(D, x[1]) :
                          <<d, x[2] + 1>> \in Under(D)[b]
           Failing == {b \in Header : ~Closed(b)}
<1>1. SUFFICES ASSUME Failing # {} PROVE FALSE OBVIOUS
<1>2. PICK b \in Failing : \A c \in Failing : Depth[c] <= Depth[b]
  <2> HIDE DEF Failing
  <2>1. Failing \in SUBSET Header BY DEF Failing
  <2> QED BY <1>1, <2>1, Deepest
<1>3. ASSUME NEW c \in Children(D, b) PROVE c \in Header /\ Closed(c)
  <2>1. c \in Header /\ Parent[c] = b /\ b # 0 BY DEF Children, Header
  <2>2. Depth[b] < Depth[c] BY <2>1, DepthDown
  <2>3. c \notin Failing BY <1>2, <2>1, <2>2, DepthDown
  <2> QED BY <2>1, <2>3
<1>4. ASSUME NEW x \in Under(D)[b], NEW d \in Children(D, x[1])
      PROVE  <<d, x[2] + 1>> \in Under(D)[b]
  <2>1. d \in Header BY DEF Children
  <2>2. CASE x = <<b, 0>>
    <3>1. d \in Children(D, b) BY <2>2
    <3>2. <<d, 0>> \in Under(D)[d] BY <2>1, UnderValue
    <3>3. <<d, 0 + 1>> \in Deeper(Under(D)[d]) BY <3>2 DEF Deeper
    <3> QED BY <2>2, <3>1, <3>3, UnderValue
  <2>3. CASE x # <<b, 0>>
    <3>1. PICK c \in Children(D, b) : x \in Deeper(Under(D)[c]) BY <2>3, UnderValue
    <3>2. PICK y \in Under(D)[c] : x = <<y[1], y[2] + 1>> BY <3>1 DEF Deeper
    <3>3. <<d, y[2] + 1>> \in Under(D)[c]
      <4>1. d \in Children(D, y[1]) BY <3>2
      <4> QED BY <1>3, <4>1
    <3>4. <<d, (y[2] + 1) + 1>> \in Deeper(Under(D)[c]) BY <3>3 DEF Deeper
    <3> QED BY <3>2, <3>4, UnderValue
  <2> QED BY <2>2, <2>3
<1> QED BY <1>2, <1>4

\* And it is the least such set.
LEMMA UnderLeast ==
  ASSUME NEW D \in SUBSET Header, NEW S,
         \A z \in S : \A d \in Children(D, z[1]) : <<d, z[2] + 1>> \in S
  PROVE  \A b \in Header : \A k \in Nat : <<b, k>> \in S =>
           \A x \in Under(D)[b] : <<x[1], x[2] + k>> \in S
<1> DEFINE Inside(b) == \A k \in Nat : <<b, k>> \in S =>
                          \A x \in Under(D)[b] : <<x[1], x[2] + k>> \in S
           Failing == {b \in Header : ~Inside(b)}
<1>1. SUFFICES ASSUME Failing # {} PROVE FALSE OBVIOUS
<1>2. PICK b \in Failing : \A c \in Failing : Depth[c] <= Depth[b]
  <2> HIDE DEF Failing
  <2>1. Failing \in SUBSET Header BY DEF Failing
  <2> QED BY <1>1, <2>1, Deepest
<1>3. ASSUME NEW c \in Children(D, b) PROVE c \in Header /\ Inside(c)
  <2>1. c \in Header /\ Parent[c] = b /\ b # 0 BY DEF Children, Header
  <2>2. Depth[b] < Depth[c] BY <2>1, DepthDown
  <2>3. c \notin Failing BY <1>2, <2>1, <2>2, DepthDown
  <2> QED BY <2>1, <2>3
<1>4. ASSUME NEW k \in Nat, <<b, k>> \in S, NEW x \in Under(D)[b]
      PROVE  <<x[1], x[2] + k>> \in S
  <2>1. CASE x = <<b, 0>> BY <1>4, <2>1
  <2>2. CASE x # <<b, 0>>
    <3>1. PICK c \in Children(D, b) : x \in Deeper(Under(D)[c]) BY <2>2, UnderValue
    <3>2. PICK y \in Under(D)[c] : x = <<y[1], y[2] + 1>> BY <3>1 DEF Deeper
    <3>3. <<c, k + 1>> \in S
      <4> DEFINE z == <<b, k>>
      <4>1. z \in S /\ c \in Children(D, z[1]) BY <1>4
      <4>2. <<c, z[2] + 1>> \in S
        <5> HIDE DEF z
        <5> QED BY <4>1
      <4> QED BY <4>2
    <3>4. <<y[1], y[2] + (k + 1)>> \in S BY <1>3, <3>3
    <3>5. y[2] \in Nat BY <1>3, UnderType
    <3>6. (y[2] + 1) + k = y[2] + (k + 1) BY <3>5
    <3> QED BY <3>2, <3>4, <3>6
  <2> QED BY <2>1, <2>2
<1> QED BY <1>2, <1>4

\* The same of the whole tree.
LEMMA TreeFacts ==
  ASSUME NEW D \in SUBSET Header
  PROVE  /\ TreeOf(D) \subseteq Header \X Nat
         /\ <<GenesisBlock, 0>> \in TreeOf(D)
         /\ \A x \in TreeOf(D) : \A d \in Children(D, x[1]) : <<d, x[2] + 1>> \in TreeOf(D)
BY TreeIsUnder, GenesisFacts, UnderType, UnderClosed, UnderValue

LEMMA TreeLeast ==
  ASSUME NEW D \in SUBSET Header, NEW S, <<GenesisBlock, 0>> \in S,
         \A z \in S : \A d \in Children(D, z[1]) : <<d, z[2] + 1>> \in S
  PROVE  TreeOf(D) \subseteq S
<1>1. \A x \in Under(D)[GenesisBlock] : <<x[1], x[2] + 0>> \in S
  BY UnderLeast, GenesisFacts
<1>2. ASSUME NEW x \in Under(D)[GenesisBlock] PROVE x \in S
  <2>1. x \in Header \X Nat BY UnderType, GenesisFacts
  <2>2. x = <<x[1], x[2] + 0>> BY <2>1
  <2> QED BY <1>1, <2>2
<1> QED BY <1>2, TreeIsUnder

\* More blocks make a larger tree.
LEMMA TreeGrows ==
  ASSUME NEW D \in SUBSET Header, NEW E \in SUBSET Header, D \subseteq E
  PROVE  TreeOf(D) \subseteq TreeOf(E)
<1> DEFINE S == TreeOf(E)
<1>1. \A b : Children(D, b) \subseteq Children(E, b) BY DEF Children
<1>2. <<GenesisBlock, 0>> \in S BY TreeFacts
<1>3. \A z \in S : \A d \in Children(D, z[1]) : <<d, z[2] + 1>> \in S BY <1>1, TreeFacts
<1> HIDE DEF S
<1>4. TreeOf(D) \subseteq S BY <1>2, <1>3, TreeLeast
<1> QED BY <1>4 DEF S

-----------------------------------------------------------------------------
(* The inductive invariant. *)

VTypeOK ==
  /\ inDb \in SUBSET Header /\ GenesisBlock \in inDb
  /\ cache \in [MapKey -> SUBSET Header]
  /\ doing \in [Request -> {"idle", "read", "write", "root", "tree"}]
  /\ unread \in [Request -> SUBSET Header]
  /\ copied \in [Request -> SUBSET Header]
  /\ toShow \in [Request -> SUBSET (Header \X Nat)]
  /\ shown \in [Request -> SUBSET (Header \X Nat)]
  /\ snapshot \in [Request -> SUBSET Header]
  /\ alone \in [Request -> BOOLEAN]
  /\ served \in Nat

\* The lists of the map, and those read from it, only hold blocks that are
\* stored, each below its parent.
ListsRight ==
  /\ \A k \in MapKey : cache[k] \subseteq Children(inDb, k)
  /\ \A r \in Request :
       /\ doing[r] \in {"read", "write"} => unread[r] # {}
       /\ unread[r] \subseteq inDb
       /\ doing[r] = "write" => copied[r] \subseteq Children(inDb, Parent[Min(unread[r])])

\* What is shown is connected, and so is what remains to be expanded.
TreesRight ==
  \A r \in Request :
    /\ toShow[r] \subseteq shown[r] /\ shown[r] \subseteq TreeOf(inDb)
    /\ doing[r] # "tree" => toShow[r] = {}

\* The blocks a request has visited are in the map, which holds no others
\* than those of its snapshot.
Gathered(r) ==
  /\ unread[r] \subseteq snapshot[r] /\ GenesisBlock \in snapshot[r]
  /\ snapshot[r] \subseteq inDb
  /\ \A k \in MapKey : cache[k] \subseteq Children(snapshot[r], k)
  /\ \A b \in snapshot[r] \ unread[r] : b \in cache[Parent[b]]
  /\ doing[r] = "write" => copied[r] = cache[Parent[Min(unread[r])]]
  /\ doing[r] \in {"root", "tree"} => unread[r] = {}

NoChildYet(D) == D # {GenesisBlock} /\ \A d \in D : Parent[d] # GenesisBlock

\* A tree grows until every node has its children.
Growing(r) ==
  \/ shown[r] = {} /\ NoChildYet(snapshot[r])
  \/ /\ ~NoChildYet(snapshot[r])
     /\ <<GenesisBlock, 0>> \in shown[r]
     /\ shown[r] \subseteq TreeOf(snapshot[r])
     /\ \A x \in shown[r] \ toShow[r] : \A c \in Children(snapshot[r], x[1]) :
          <<c, x[2] + 1>> \in shown[r]

AloneRight ==
  \A r \in Request : alone[r] /\ doing[r] # "idle" =>
    /\ \A q \in Request \ {r} : doing[q] = "idle"
    /\ Gathered(r)
    /\ doing[r] = "tree" => Growing(r)

ViewInv == VTypeOK /\ ListsRight /\ TreesRight /\ AloneRight

LEMMA NextBlock ==
  ASSUME NEW B \in SUBSET Header, B # {}
  PROVE  Min(B) \in B /\ Parent[Min(B)] \in MapKey
<1>1. B \in SUBSET Nat BY DEF Header
<1>2. \E n \in B : \A m \in B : n <= m BY <1>1, TreeRec!LeastNumber
<1>3. Min(B) \in B BY <1>2 DEF Min
<1> QED BY <1>3, ViewAssumption DEF Header, MapKey

LEMMA ViewInit == VInit => ViewInv
<1> SUFFICES ASSUME VInit PROVE ViewInv OBVIOUS
<1> USE DEF VInit, Each
<1>1. VTypeOK BY GenesisFacts DEF VTypeOK
<1>2. ListsRight BY DEF ListsRight
<1>3. TreesRight BY DEF TreesRight
<1>4. AloneRight BY DEF AloneRight
<1> QED BY <1>1, <1>2, <1>3, <1>4 DEF ViewInv

LEMMA ViewTypes == VTypeOK /\ ListsRight /\ [VNext]_vvars => VTypeOK'
<1> SUFFICES ASSUME VTypeOK, ListsRight, [VNext]_vvars PROVE VTypeOK' OBVIOUS
<1> USE DEF VTypeOK
<1>1. ASSUME NEW b \in Header, Stored(b) PROVE VTypeOK' BY <1>1 DEF Stored
<1>2. ASSUME NEW r \in Request, dbHandler(r) PROVE VTypeOK'
  <2>1. alone' \in [Request -> BOOLEAN] BY <1>2, Zenon DEF dbHandler
  <2>2. /\ served' \in Nat /\ unread' \in [Request -> SUBSET Header]
        /\ snapshot' \in [Request -> SUBSET Header]
        /\ shown' \in [Request -> SUBSET (Header \X Nat)]
        /\ doing' \in [Request -> {"idle", "read", "write", "root", "tree"}]
    BY <1>2 DEF dbHandler
  <2>3. UNCHANGED <<inDb, cache, copied, toShow>> BY <1>2 DEF dbHandler
  <2> QED BY <2>1, <2>2, <2>3
<1>3. ASSUME NEW r \in Request, ReadList(r) PROVE VTypeOK'
  <2>1. Parent[Min(unread[r])] \in MapKey BY <1>3, NextBlock DEF ReadList, ListsRight
  <2> QED BY <1>3, <2>1 DEF ReadList
<1>4. ASSUME NEW r \in Request, appendIfMissing(r) PROVE VTypeOK'
  <2> DEFINE b == Min(unread[r])
  <2>1. b \in Header /\ Parent[b] \in MapKey
    BY <1>4, NextBlock DEF appendIfMissing, ListsRight
  <2>2. cache' = [cache EXCEPT ![Parent[b]] = copied[r] \cup {b}] BY <1>4 DEF appendIfMissing
  <2>3. cache' \in [MapKey -> SUBSET Header]
    <3> HIDE DEF b
    <3> QED BY <2>1, <2>2
  <2> HIDE DEF b
  <2> QED BY <1>4, <2>3 DEF appendIfMissing
<1>5. ASSUME NEW r \in Request, createRoot(r) PROVE VTypeOK'
  <2> DEFINE keys == {k \in MapKey : cache[k] # {}}
             tree == IF keys = {0} \/ GenesisBlock \in keys THEN {<<GenesisBlock, 0>>} ELSE {}
  <2>1. tree \in SUBSET (Header \X Nat) BY GenesisFacts
  <2>2. /\ shown' = [shown EXCEPT ![r] = tree]
        /\ toShow' = [toShow EXCEPT ![r] = IF keys = {0} THEN {} ELSE tree]
    BY <1>5 DEF createRoot
  <2> HIDE DEF tree, keys
  <2> QED BY <1>5, <2>1, <2>2 DEF createRoot
<1>6. ASSUME NEW r \in Request, NEW x \in toShow[r], createTreeHierarchy(r, x) PROVE VTypeOK'
  <2> DEFINE children == cache[x[1]] \X {x[2] + 1}
  <2>1. children \in SUBSET (Header \X Nat) /\ x \in Header \X Nat
    BY <1>6 DEF MapKey, Header
  <2>2. /\ shown' = [shown EXCEPT ![r] = @ \cup children]
        /\ toShow' = [toShow EXCEPT ![r] = (@ \ {x}) \cup children]
    BY <1>6 DEF createTreeHierarchy
  <2> HIDE DEF children
  <2> QED BY <1>6, <2>1, <2>2 DEF createTreeHierarchy
<1>7. ASSUME NEW r \in Request, Reply(r) PROVE VTypeOK' BY <1>7 DEF Reply
<1>8. CASE MapRace BY <1>8 DEF MapRace, Each
<1>9. CASE UNCHANGED vvars BY <1>9 DEF vvars
<1> QED BY <1>1, <1>2, <1>3, <1>4, <1>5, <1>6, <1>7, <1>8, <1>9 DEF VNext

LEMMA ListsStay == VTypeOK /\ ListsRight /\ [VNext]_vvars => ListsRight'
<1> SUFFICES ASSUME VTypeOK, ListsRight, [VNext]_vvars PROVE ListsRight' OBVIOUS
<1> USE DEF VTypeOK, ListsRight
<1>1. ASSUME NEW b \in Header, Stored(b) PROVE ListsRight'
  BY <1>1 DEF Stored, Children
<1>2. ASSUME NEW r \in Request, dbHandler(r) PROVE ListsRight'
  BY <1>2 DEF dbHandler
<1>3. ASSUME NEW r \in Request, ReadList(r) PROVE ListsRight'
  <2>1. Parent[Min(unread[r])] \in MapKey BY <1>3, NextBlock DEF ReadList
  <2> QED BY <1>3, <2>1 DEF ReadList
<1>4. ASSUME NEW r \in Request, appendIfMissing(r) PROVE ListsRight'
  <2> DEFINE b == Min(unread[r])
  <2>1. b \in Header /\ b \in unread[r] /\ Parent[b] \in MapKey
    BY <1>4, NextBlock DEF appendIfMissing
  <2>2. cache' = [cache EXCEPT ![Parent[b]] = copied[r] \cup {b}] BY <1>4 DEF appendIfMissing
  <2>3. copied[r] \subseteq Children(inDb, Parent[b]) BY <1>4 DEF appendIfMissing
  <2>4. b \in Children(inDb, Parent[b]) BY <2>1 DEF Children
  <2>5. \A k \in MapKey : cache'[k] \subseteq Children(inDb, k)
    <3> HIDE DEF b
    <3> QED BY <2>1, <2>2, <2>3, <2>4
  <2>6. /\ inDb' = inDb /\ copied' = copied
        /\ unread' = [unread EXCEPT ![r] = @ \ {b}]
        /\ doing' = [doing EXCEPT ![r] = IF unread'[r] = {} THEN "root" ELSE "read"]
    BY <1>4 DEF appendIfMissing
  <2> HIDE DEF b
  <2> QED BY <2>5, <2>6
<1>5. ASSUME NEW r \in Request, createRoot(r) PROVE ListsRight' BY <1>5 DEF createRoot
<1>6. ASSUME NEW r \in Request, NEW x \in toShow[r], createTreeHierarchy(r, x) PROVE ListsRight'
  BY <1>6 DEF createTreeHierarchy
<1>7. ASSUME NEW r \in Request, Reply(r) PROVE ListsRight' BY <1>7 DEF Reply
<1>8. CASE MapRace BY <1>8 DEF MapRace, Each
<1>9. CASE UNCHANGED vvars BY <1>9 DEF vvars
<1> QED BY <1>1, <1>2, <1>3, <1>4, <1>5, <1>6, <1>7, <1>8, <1>9 DEF VNext

LEMMA TreesStay == VTypeOK /\ ListsRight /\ TreesRight /\ [VNext]_vvars => TreesRight'
<1> SUFFICES ASSUME VTypeOK, ListsRight, TreesRight, [VNext]_vvars PROVE TreesRight' OBVIOUS
<1> USE DEF VTypeOK, TreesRight
<1>1. ASSUME NEW b \in Header, Stored(b) PROVE TreesRight'
  <2>1. inDb \subseteq inDb' /\ inDb' \in SUBSET Header /\ shown' = shown /\ toShow' = toShow
    BY <1>1 DEF Stored
  <2> DEFINE before == TreeOf(inDb)
             after == TreeOf(inDb')
  <2>2. before \subseteq after BY <2>1, TreeGrows
  <2>3. \A r \in Request : shown[r] \subseteq before
    OBVIOUS
  <2>4. \A r \in Request : shown'[r] \subseteq after
    <3> HIDE DEF before, after
    <3> QED BY <2>1, <2>2, <2>3
  <2>5. after = TreeOf(inDb)'
    BY DEF TreeOf, Header, GenesisBlock
  <2>6. doing' = doing BY <1>1 DEF Stored
  <2> QED BY <2>1, <2>4, <2>5, <2>6
<1> DEFINE whole == TreeOf(inDb)
<1>0. inDb' = inDb => TreesRight' = \A r \in Request :
        /\ toShow'[r] \subseteq shown'[r] /\ shown'[r] \subseteq whole
        /\ doing'[r] # "tree" => toShow'[r] = {}
  BY DEF TreeOf, Header, GenesisBlock
<1>t. /\ <<GenesisBlock, 0>> \in whole
      /\ \A x \in whole : \A d \in Children(inDb, x[1]) : <<d, x[2] + 1>> \in whole
  BY TreeFacts
<1>w. \A r \in Request :
        /\ toShow[r] \subseteq shown[r] /\ shown[r] \subseteq whole
        /\ doing[r] # "tree" => toShow[r] = {}
  OBVIOUS
<1> HIDE DEF whole, TreesRight
<1>2. ASSUME NEW r \in Request, dbHandler(r) PROVE TreesRight'
  BY <1>2, <1>0, <1>w DEF dbHandler
<1>3. ASSUME NEW r \in Request, ReadList(r) PROVE TreesRight'
  BY <1>3, <1>0, <1>w DEF ReadList
<1>4. ASSUME NEW r \in Request, appendIfMissing(r) PROVE TreesRight'
  BY <1>4, <1>0, <1>w DEF appendIfMissing
<1>5. ASSUME NEW r \in Request, createRoot(r) PROVE TreesRight'
  BY <1>5, <1>0, <1>t, <1>w DEF createRoot
<1>6. ASSUME NEW r \in Request, NEW x \in toShow[r], createTreeHierarchy(r, x) PROVE TreesRight'
  <2> DEFINE children == cache[x[1]] \X {x[2] + 1}
  <2>1. /\ shown' = [shown EXCEPT ![r] = @ \cup children]
        /\ toShow' = [toShow EXCEPT ![r] = (@ \ {x}) \cup children]
        /\ inDb' = inDb /\ doing' = doing /\ doing[r] = "tree"
    BY <1>6 DEF createTreeHierarchy
  <2>2. x[1] \in MapKey BY DEF MapKey, Header
  <2>3. cache[x[1]] \subseteq Children(inDb, x[1]) BY <2>2 DEF ListsRight
  <2>4. children \subseteq whole BY <2>3, <1>t, <1>w
  <2> HIDE DEF children
  <2> QED BY <2>1, <2>4, <1>0, <1>w
<1>7. ASSUME NEW r \in Request, Reply(r) PROVE TreesRight' BY <1>7, <1>0, <1>w DEF Reply
<1>8. CASE MapRace BY <1>8, <1>0 DEF MapRace, Each
<1>9. CASE UNCHANGED vvars BY <1>9, <1>0, <1>w DEF vvars
<1> QED BY <1>1, <1>2, <1>3, <1>4, <1>5, <1>6, <1>7, <1>8, <1>9 DEF VNext

\* The last record of the scan completes the lists.
LEMMA AllGathered ==
  ASSUME NEW r \in Request, Gathered(r), unread[r] = {}
  PROVE  \A k \in MapKey : cache[k] = Children(snapshot[r], k)
BY DEF Gathered, Children

LEMMA AloneStays ==
  VTypeOK /\ ListsRight /\ TreesRight /\ AloneRight /\ [VNext]_vvars => AloneRight'
<1> SUFFICES ASSUME VTypeOK, ListsRight, TreesRight, AloneRight, [VNext]_vvars PROVE AloneRight'
  OBVIOUS
<1> DEFINE Fine(q) == /\ \A p \in Request \ {q} : doing[p] = "idle"
                      /\ Gathered(q)
                      /\ doing[q] = "tree" => Growing(q)
<1>f. /\ \A q \in Request : alone[q] /\ doing[q] # "idle" => Fine(q)
      /\ (\A q \in Request : (alone[q] /\ doing[q] # "idle" => Fine(q))') => AloneRight'
  BY DEF AloneRight
\* While a request is alone, no step of another one is taken.
<1>o. ASSUME NEW r \in Request, doing[r] # "idle", alone' = alone,
             \A q \in Request \ {r} : doing'[q] = doing[q],
             alone[r] /\ doing'[r] # "idle" => Fine(r)'
      PROVE  AloneRight'
  <2> SUFFICES ASSUME NEW q \in Request, alone[q], doing'[q] # "idle" PROVE Fine(q)'
    BY <1>o, <1>f
  <2>1. q = r
    <3> SUFFICES ASSUME q # r PROVE FALSE OBVIOUS
    <3>1. doing[q] # "idle" BY <1>o
    <3>2. Fine(q) BY <3>1, <1>f
    <3> QED BY <3>2, <1>o
  <2> QED BY <2>1, <1>o
<1>1. ASSUME NEW b \in Header, Stored(b) PROVE AloneRight'
  BY <1>1 DEF AloneRight, Stored, Gathered, Growing
<1>2. ASSUME NEW r \in Request, dbHandler(r) PROVE AloneRight'
  <2> SUFFICES ASSUME NEW q \in Request, alone'[q], doing'[q] # "idle" PROVE Fine(q)'
    BY <1>f
  <2>1. alone'[q] = IF q = r THEN Busy = {} ELSE alone[q] /\ q \notin Busy
    BY <1>2, Zenon DEF dbHandler
  <2>2. q = r
    <3> SUFFICES ASSUME q # r PROVE FALSE OBVIOUS
    <3>1. doing'[q] = doing[q] BY <1>2 DEF dbHandler, VTypeOK
    <3> QED BY <2>1, <3>1 DEF Busy
  <2>3. Busy = {} BY <2>1, <2>2
  <2>4. \A p \in Request \ {r} : doing'[p] = "idle" BY <1>2, <2>3 DEF dbHandler, Busy, VTypeOK
  <2>5. /\ doing'[r] = "read" /\ unread'[r] = inDb /\ snapshot'[r] = inDb
        /\ cache' = cache /\ inDb' = inDb
    BY <1>2 DEF dbHandler, VTypeOK
  <2>6. Gathered(r)'
    BY <2>5 DEF Gathered, ListsRight, VTypeOK
  <2> QED BY <2>2, <2>4, <2>5, <2>6
<1>3. ASSUME NEW r \in Request, ReadList(r) PROVE AloneRight'
  <2>1. /\ doing' = [doing EXCEPT ![r] = "write"] /\ doing[r] = "read" /\ alone' = alone
        /\ copied' = [copied EXCEPT ![r] = cache[Parent[Min(unread[r])]]]
        /\ cache' = cache /\ unread' = unread /\ snapshot' = snapshot /\ inDb' = inDb
    BY <1>3 DEF ReadList
  <2>2. ASSUME alone[r] PROVE Fine(r)'
    <3>1. Fine(r) BY <2>1, <2>2, <1>f
    <3> QED BY <2>1, <3>1 DEF VTypeOK, Gathered
  <2> QED BY <2>1, <2>2, <1>o DEF VTypeOK
<1>4. ASSUME NEW r \in Request, appendIfMissing(r) PROVE AloneRight'
  <2> DEFINE b == Min(unread[r])
  <2>1. /\ cache' = [cache EXCEPT ![Parent[b]] = copied[r] \cup {b}]
        /\ unread' = [unread EXCEPT ![r] = @ \ {b}]
        /\ doing' = [doing EXCEPT ![r] = IF unread'[r] = {} THEN "root" ELSE "read"]
        /\ doing[r] = "write" /\ alone' = alone /\ snapshot' = snapshot /\ inDb' = inDb
    BY <1>4 DEF appendIfMissing
  <2>2. b \in Header /\ b \in unread[r] /\ Parent[b] \in MapKey
    BY <2>1, NextBlock DEF ListsRight, VTypeOK
  <2>3. ASSUME alone[r] PROVE Fine(r)'
    <3>1. Fine(r) BY <2>1, <2>3, <1>f
    <3>2. copied[r] = cache[Parent[b]] BY <2>1, <3>1 DEF Gathered
    <3> HIDE DEF b
    <3>3. \A k \in MapKey : cache'[k] = IF k = Parent[b] THEN cache[k] \cup {b} ELSE cache[k]
      BY <2>1, <2>2, <3>2 DEF VTypeOK
    <3>4. unread'[r] = unread[r] \ {b} /\ (doing'[r] \in {"root", "tree"} => unread'[r] = {})
      BY <2>1 DEF VTypeOK
    <3>5. b \in Children(snapshot[r], Parent[b]) BY <2>2, <3>1 DEF Gathered, Children
    <3>6. \A k \in MapKey : cache'[k] \subseteq Children(snapshot[r], k)
      <4> TAKE k \in MapKey
      <4>1. cache[k] \subseteq Children(snapshot[r], k) BY <3>1 DEF Gathered
      <4>2. CASE k = Parent[b] BY <3>3, <3>5, <4>1, <4>2
      <4>3. CASE k # Parent[b] BY <3>3, <4>1, <4>3
      <4> QED BY <4>2, <4>3
    <3>7. \A c \in snapshot[r] \ unread'[r] : c \in cache'[Parent[c]]
      <4> TAKE c \in snapshot[r] \ unread'[r]
      <4>1. Parent[c] \in MapKey BY ViewAssumption DEF VTypeOK, Header, MapKey
      <4>2. CASE c = b BY <4>1, <4>2, <3>3
      <4>3. CASE c # b BY <4>1, <4>3, <3>1, <3>3, <3>4 DEF Gathered
      <4> QED BY <4>2, <4>3
    <3>8. doing'[r] \notin {"write", "tree"} BY <2>1 DEF VTypeOK
    <3>9. Gathered(r)' BY <2>1, <3>1, <3>4, <3>6, <3>7, <3>8 DEF Gathered
    <3>10. \A p \in Request \ {r} : doing'[p] = "idle" BY <2>1, <3>1 DEF VTypeOK
    <3> QED BY <3>8, <3>9, <3>10
  <2> QED BY <2>1, <2>3, <1>o DEF VTypeOK
<1>5. ASSUME NEW r \in Request, createRoot(r) PROVE AloneRight'
  <2> DEFINE keys == {k \in MapKey : cache[k] # {}}
             tree == IF keys = {0} \/ GenesisBlock \in keys THEN {<<GenesisBlock, 0>>} ELSE {}
             D == snapshot[r]
  <2>1. /\ shown' = [shown EXCEPT ![r] = tree]
        /\ toShow' = [toShow EXCEPT ![r] = IF keys = {0} THEN {} ELSE tree]
        /\ doing' = [doing EXCEPT ![r] = "tree"] /\ doing[r] = "root"
        /\ UNCHANGED <<inDb, cache, unread, copied, served, snapshot, alone>>
    BY <1>5 DEF createRoot
  <2>2. ASSUME alone[r] PROVE Fine(r)'
    <3>1. Fine(r) BY <2>1, <2>2, <1>f
    <3>2. \A k \in MapKey : cache[k] = Children(D, k)
      <4>1. Gathered(r) /\ unread[r] = {} BY <2>1, <3>1 DEF Gathered
      <4> HIDE DEF keys
      <4> QED BY <4>1, AllGathered
    <3>3. GenesisBlock \in D /\ D \subseteq Header /\ GenesisBlock \in MapKey /\ 0 \in MapKey
      <4>1. GenesisBlock \in D BY <3>1 DEF Gathered
      <4>2. D \subseteq Header BY DEF VTypeOK
      <4>3. Header \subseteq MapKey /\ 0 \in MapKey BY ViewAssumption DEF Header, MapKey
      <4> HIDE DEF keys, D
      <4> QED BY <4>1, <4>2, <4>3
    <3>4. \A d \in D : Parent[d] \in keys
      <4> TAKE d \in D
      <4>1. Parent[d] \in MapKey BY <3>3, ViewAssumption DEF Header, MapKey
      <4> QED BY <3>2, <4>1 DEF Children
    <3>5. keys = {0} <=> D = {GenesisBlock}
      <4>1. ASSUME D = {GenesisBlock} PROVE keys = {0}
        BY <3>2, <3>3, <4>1, GenesisFacts DEF Children
      <4>2. ASSUME keys = {0} PROVE D = {GenesisBlock}
        <5> HIDE DEF keys
        <5>1. \A d \in D : Parent[d] = 0 BY <3>4, <4>2
        <5> QED BY <3>3, <5>1, GenesisFacts
      <4> QED BY <4>1, <4>2
    <3>6. GenesisBlock \in keys <=> \E d \in D : Parent[d] = GenesisBlock
      BY <3>2, <3>3 DEF Children
    <3>7. tree = IF NoChildYet(D) THEN {} ELSE {<<GenesisBlock, 0>>}
      <4> HIDE DEF keys, D
      <4> QED BY <3>5, <3>6 DEF NoChildYet
    <3>8. shown'[r] = tree /\ toShow'[r] = IF keys = {0} THEN {} ELSE tree
      <4> HIDE DEF keys, tree
      <4> QED BY <2>1 DEF VTypeOK
    <3>9. ASSUME keys = {0} PROVE Children(D, GenesisBlock) = {}
      BY <3>5, <3>9, GenesisFacts DEF Children, Header
    <3>10. <<GenesisBlock, 0>> \in TreeOf(D) BY <3>3, TreeFacts
    <3> DEFINE whole == TreeOf(D)
    <3>11. Growing(r)'
      <4>1. Growing(r)' <=>
              \/ shown'[r] = {} /\ NoChildYet(D)
              \/ /\ ~NoChildYet(D)
                 /\ <<GenesisBlock, 0>> \in shown'[r]
                 /\ shown'[r] \subseteq whole
                 /\ \A x \in shown'[r] \ toShow'[r] : \A c \in Children(D, x[1]) :
                      <<c, x[2] + 1>> \in shown'[r]
        BY <2>1 DEF Growing, TreeOf, Header, GenesisBlock
      <4> HIDE DEF keys, tree, whole, D
      <4>2. CASE NoChildYet(D) BY <3>7, <3>8, <4>1, <4>2
      <4>3. CASE ~NoChildYet(D)
        <5>1. shown'[r] = {<<GenesisBlock, 0>>} BY <3>7, <3>8, <4>3
        <5>2. \A x \in shown'[r] \ toShow'[r] : Children(D, x[1]) = {}
          BY <3>7, <3>8, <3>9, <4>3
        <5>3. shown'[r] \subseteq whole BY <3>10, <5>1 DEF whole
        <5> QED BY <4>1, <4>3, <5>1, <5>2, <5>3
      <4> QED BY <4>2, <4>3
    <3>12. Gathered(r)' BY <2>1, <3>1 DEF Gathered, VTypeOK
    <3>13. \A p \in Request \ {r} : doing'[p] = "idle" BY <2>1, <3>1 DEF VTypeOK
    <3> QED BY <3>11, <3>12, <3>13
  <2> QED BY <2>1, <2>2, <1>o DEF VTypeOK
<1>6. ASSUME NEW r \in Request, NEW x \in toShow[r], createTreeHierarchy(r, x) PROVE AloneRight'
  <2> DEFINE children == cache[x[1]] \X {x[2] + 1}
             D == snapshot[r]
             whole == TreeOf(D)
  <2>1. /\ shown' = [shown EXCEPT ![r] = @ \cup children]
        /\ toShow' = [toShow EXCEPT ![r] = (@ \ {x}) \cup children]
        /\ doing[r] = "tree"
        /\ UNCHANGED <<inDb, cache, doing, unread, copied, served, snapshot, alone>>
    BY <1>6 DEF createTreeHierarchy
  <2>2. ASSUME alone[r] PROVE Fine(r)'
    <3>1. Fine(r) BY <2>1, <2>2, <1>f
    <3>2. x \in shown[r] /\ x \in Header \X Nat /\ x[1] \in MapKey
      BY DEF TreesRight, VTypeOK, Header, MapKey
    <3>3. cache[x[1]] = Children(D, x[1])
      <4>1. unread[r] = {} BY <2>1, <3>1 DEF Gathered
      <4> QED BY <3>1, <3>2, <4>1, AllGathered
    <3>4. /\ ~NoChildYet(D)
          /\ <<GenesisBlock, 0>> \in shown[r]
          /\ shown[r] \subseteq whole
          /\ \A y \in shown[r] \ toShow[r] : \A c \in Children(D, y[1]) :
               <<c, y[2] + 1>> \in shown[r]
      BY <2>1, <3>1, <3>2 DEF Growing
    <3>5. children \subseteq whole
      <4>1. D \in SUBSET Header BY DEF VTypeOK
      <4>2. \A c \in Children(D, x[1]) : <<c, x[2] + 1>> \in whole
        BY <3>2, <3>4, <4>1, TreeFacts
      <4> QED BY <3>3, <4>2
    <3>6. shown'[r] = shown[r] \cup children /\ toShow'[r] = (toShow[r] \ {x}) \cup children
      <4> HIDE DEF children
      <4> QED BY <2>1 DEF VTypeOK
    <3>7. ASSUME NEW y \in shown'[r] \ toShow'[r], NEW c \in Children(D, y[1])
          PROVE  <<c, y[2] + 1>> \in shown'[r]
      <4>1. CASE y = x BY <3>3, <3>6, <4>1
      <4>2. CASE y # x
        <5> HIDE DEF children
        <5>1. y \in shown[r] \ toShow[r] BY <3>6, <4>2
        <5> QED BY <3>4, <3>6, <5>1
      <4> QED BY <4>1, <4>2
    <3>8. Growing(r)'
      <4>1. Growing(r)' <=>
              \/ shown'[r] = {} /\ NoChildYet(D)
              \/ /\ ~NoChildYet(D)
                 /\ <<GenesisBlock, 0>> \in shown'[r]
                 /\ shown'[r] \subseteq whole
                 /\ \A y \in shown'[r] \ toShow'[r] : \A c \in Children(D, y[1]) :
                      <<c, y[2] + 1>> \in shown'[r]
        BY <2>1 DEF Growing, TreeOf, Header, GenesisBlock
      <4> HIDE DEF children, whole, D
      <4> QED BY <3>4, <3>5, <3>6, <3>7, <4>1
    <3>9. Gathered(r)' BY <2>1, <3>1 DEF Gathered
    <3> QED BY <2>1, <3>1, <3>8, <3>9
  <2> QED BY <2>1, <2>2, <1>o
<1>7. ASSUME NEW r \in Request, Reply(r) PROVE AloneRight'
  <2>1. /\ doing' = [doing EXCEPT ![r] = "idle"] /\ doing[r] = "tree" /\ alone' = alone
    BY <1>7 DEF Reply
  <2>2. doing'[r] = "idle" /\ \A q \in Request \ {r} : doing'[q] = doing[q]
    BY <2>1 DEF VTypeOK
  <2> QED BY <2>1, <2>2, <1>o
<1>8. CASE MapRace BY <1>8, <1>f DEF MapRace, Each
<1>9. CASE UNCHANGED vvars BY <1>9 DEF vvars, AloneRight, Gathered, Growing
<1> QED BY <1>1, <1>2, <1>3, <1>4, <1>5, <1>6, <1>7, <1>8, <1>9 DEF VNext

LEMMA ViewInvariance == VSpec => []ViewInv
<1>1. ViewInv /\ [VNext]_vvars => ViewInv'
  BY ViewTypes, ListsStay, TreesStay, AloneStays DEF ViewInv
<1> QED BY <1>1, ViewInit, PTL DEF VSpec

(* Whatever requests overlap, lose entries or are ended by the runtime, a  *)
(* tree that is shown only holds stored blocks that are connected to the   *)
(* genesis block, each with its height: for any blocks and requests.       *)
THEOREM ShowsOnlyTheTree == VSpec => []NeverTooMuch
<1>1. ViewInv => NeverTooMuch BY DEF ViewInv, TreesRight, NeverTooMuch
<1> QED BY <1>1, ViewInvariance, PTL

(* A request that no other one overlaps shows all of the tree, whatever    *)
(* earlier requests left in the map that is never cleared.                 *)
THEOREM ShowsTheWholeTree == VSpec => []AloneIsComplete
<1>1. ASSUME ViewInv, NEW r \in Request, doing[r] = "tree", toShow[r] = {}, alone[r]
      PROVE  shown[r] = IF NoChildYet(snapshot[r]) THEN {} ELSE TreeOf(snapshot[r])
  <2>1. Growing(r) /\ snapshot[r] \in SUBSET Header
    BY <1>1 DEF ViewInv, VTypeOK, AloneRight
  <2>2. CASE NoChildYet(snapshot[r]) BY <2>1, <2>2 DEF Growing
  <2>3. CASE ~NoChildYet(snapshot[r])
    <3>1. /\ <<GenesisBlock, 0>> \in shown[r] /\ shown[r] \subseteq TreeOf(snapshot[r])
          /\ \A x \in shown[r] : \A c \in Children(snapshot[r], x[1]) :
               <<c, x[2] + 1>> \in shown[r]
      BY <1>1, <2>1, <2>3 DEF Growing
    <3>2. TreeOf(snapshot[r]) \subseteq shown[r] BY <2>1, <3>1, TreeLeast
    <3> QED BY <2>3, <3>1, <3>2
  <2> QED BY <2>2, <2>3
<1>2. ViewInv => AloneIsComplete BY <1>1 DEF AloneIsComplete, NoChildYet
<1> QED BY <1>2, ViewInvariance, PTL

(***************************************************************************)
(* Merkle trees.                                                           *)
(***************************************************************************)
-----------------------------------------------------------------------------
(* Heights. *)

HeightDom(p)     == Nat \ {0}
HeightRank(p, n) == n
HeightStep(p, h, n) == IF n = 1 THEN 0 ELSE 1 + h[(n + 1) \div 2]
HeightRec == INSTANCE Recursion WITH Dom <- HeightDom, Rank <- HeightRank, Def <- HeightStep

LEMMA HalfUp ==
  ASSUME NEW n \in Nat, n > 1
  PROVE  /\ (n + 1) \div 2 \in Nat /\ (n + 1) \div 2 > 0 /\ (n + 1) \div 2 < n
         /\ 2 * ((n + 1) \div 2) \in {n, n + 1}
OBVIOUS

LEMMA HeightValue ==
  \A n \in Nat \ {0} : Height[n] = IF n = 1 THEN 0 ELSE 1 + Height[(n + 1) \div 2]
<1>1. HeightRec!Ranked(0) BY DEF HeightRec!Ranked, HeightDom, HeightRank
<1>2. HeightRec!LooksDown(0)
  <2> SUFFICES ASSUME NEW f, NEW g, NEW n \in Nat \ {0},
                      \A m \in Nat \ {0} : m < n => f[m] = g[m]
               PROVE  HeightStep(0, f, n) = HeightStep(0, g, n)
    BY DEF HeightRec!LooksDown, HeightDom, HeightRank
  <2>1. CASE n = 1 BY <2>1 DEF HeightStep
  <2>2. CASE n # 1
    <3>1. (n + 1) \div 2 \in Nat \ {0} /\ (n + 1) \div 2 < n BY <2>2, HalfUp
    <3>2. PICK m \in Nat \ {0} : m = (n + 1) \div 2 /\ m < n BY <3>1
    <3> QED BY <2>2, <3>2 DEF HeightStep
  <2> QED BY <2>1, <2>2
<1>3. \E h : h = [n \in Nat \ {0} |-> HeightStep(0, h, n)]
  BY <1>1, <1>2, HeightRec!FunctionExists DEF HeightDom
<1> DEFINE Twin == CHOOSE h : h = [n \in Nat \ {0} |-> HeightStep(0, h, n)]
<1>4. Height = Twin BY DEF Height, HeightStep
<1>5. Twin = [n \in Nat \ {0} |-> HeightStep(0, Twin, n)] BY <1>3, Zenon
<1> HIDE DEF Twin
<1>6. Height = [n \in Nat \ {0} |-> HeightStep(0, Height, n)] BY <1>4, <1>5
<1> QED BY <1>6 DEF HeightStep

\* More than one node has a level above; n nodes have less than n.
LEMMA HeightNat ==
  \A n \in Nat \ {0} : Height[n] \in Nat /\ Height[n] < n /\ (n > 1 => Height[n] > 0)
<1> DEFINE Good(n) == Height[n] \in Nat /\ Height[n] < n /\ (n > 1 => Height[n] > 0)
           T == {n \in Nat \ {0} : ~Good(n)}
<1>1. SUFFICES ASSUME T # {} PROVE FALSE OBVIOUS
<1>2. PICK n \in T : \A m \in T : n <= m
  <2> HIDE DEF T
  <2>1. T \in SUBSET Nat BY DEF T
  <2> QED BY <1>1, <2>1, HeightRec!LeastNumber
<1>3. n \in Nat \ {0} /\ ~Good(n) OBVIOUS
<1>4. n # 1 BY <1>3, HeightValue
<1>5. PICK m \in Nat \ {0} : m = (n + 1) \div 2 /\ m < n BY <1>3, <1>4, HalfUp
<1>6. Good(m) BY <1>2, <1>5
<1>7. Height[n] = 1 + Height[m] BY <1>3, <1>4, <1>5, HeightValue
<1> QED BY <1>3, <1>5, <1>6, <1>7

-----------------------------------------------------------------------------
(* Levels. *)

LevelStep(ls, level, k) ==
  IF k = 1 THEN [i \in DOMAIN ls |-> LeafHash(ls[i])] ELSE Parents(level[k - 1])
LevelDom(ls)     == 1 .. Height[Len(ls)] + 1
LevelRank(ls, k) == k
LevelRec == INSTANCE Recursion WITH Dom <- LevelDom, Rank <- LevelRank, Def <- LevelStep

LEMMA LevelsValue ==
  ASSUME NEW ls, Len(ls) \in Nat \ {0}
  PROVE  Levels(ls) = [k \in 1 .. Height[Len(ls)] + 1 |-> LevelStep(ls, Levels(ls), k)]
<1>1. Height[Len(ls)] \in Nat BY HeightNat
<1>2. PICK n \in Nat : n = Height[Len(ls)] + 1 BY <1>1
<1>3. LevelDom(ls) = 1 .. n BY <1>2 DEF LevelDom
<1>4. LevelRec!Ranked(ls) BY <1>3 DEF LevelRec!Ranked, LevelRank
<1>5. LevelRec!LooksDown(ls)
  <2> SUFFICES ASSUME NEW f, NEW g, NEW k \in 1 .. n, \A j \in 1 .. n : j < k => f[j] = g[j]
               PROVE  LevelStep(ls, f, k) = LevelStep(ls, g, k)
    BY <1>3 DEF LevelRec!LooksDown, LevelRank
  <2>1. CASE k = 1 BY <2>1 DEF LevelStep
  <2>2. CASE k # 1
    <3>1. k - 1 \in 1 .. n /\ k - 1 < k BY <2>2
    <3> QED BY <2>2, <3>1 DEF LevelStep
  <2> QED BY <2>1, <2>2
<1>6. \E level : level = [k \in LevelDom(ls) |-> LevelStep(ls, level, k)]
  BY <1>4, <1>5, LevelRec!FunctionExists
<1>7. \E level : level = [k \in 1 .. Height[Len(ls)] + 1 |-> LevelStep(ls, level, k)]
  BY <1>6 DEF LevelDom
<1> DEFINE Twin == CHOOSE level : level = [k \in 1 .. Height[Len(ls)] + 1 |-> LevelStep(ls, level, k)]
<1>8. Levels(ls) = Twin BY DEF Levels, LevelStep
<1>9. Twin = [k \in 1 .. Height[Len(ls)] + 1 |-> LevelStep(ls, Twin, k)] BY <1>7, Zenon
<1> HIDE DEF Twin
<1> QED BY <1>8, <1>9

\* l is a list of w nodes.
IsList(l, w) == w \in Nat /\ DOMAIN l = 1 .. w /\ Len(l) = w

LEMMA ParentsFacts ==
  ASSUME NEW l, NEW w, IsList(l, w), w > 0
  PROVE  /\ IsList(Parents(l), (w + 1) \div 2) /\ (w + 1) \div 2 > 0
         /\ \A i \in 1 .. (w + 1) \div 2 :
              /\ Parents(l)[i] = NodeHash(l[2 * i - 1], l[Right(i, l)])
              /\ 2 * i - 1 \in 1 .. w
              /\ Right(i, l) \in 1 .. w
              /\ Right(i, l) = IF 2 * i > w THEN 2 * i - 1 ELSE 2 * i
<1>1. PICK h \in Nat : h = (w + 1) \div 2 /\ h > 0 /\ 2 * h \in {w, w + 1} BY DEF IsList
<1>2. Parents(l) = [i \in 1 .. h |-> NodeHash(l[2 * i - 1], l[Right(i, l)])]
  BY <1>1 DEF Parents, IsList
<1>3. IsList(Parents(l), h)
  <2>1. DOMAIN Parents(l) = 1 .. h BY <1>2
  <2>2. Len(Parents(l)) = h BY <1>2
  <2> QED BY <2>1, <2>2 DEF IsList
<1>4. ASSUME NEW i \in 1 .. h
      PROVE  /\ 2 * i - 1 \in 1 .. w
             /\ Right(i, l) \in 1 .. w
             /\ Right(i, l) = IF 2 * i > w THEN 2 * i - 1 ELSE 2 * i
  BY <1>1 DEF IsList, Right
<1> QED BY <1>1, <1>2, <1>3, <1>4

LEMMA LevelsShape ==
  ASSUME NEW ls, NEW n, IsList(ls, n), n > 0
  PROVE  /\ Height[n] \in Nat
         /\ IsList(Levels(ls), Height[n] + 1)
         /\ Levels(ls)[1] = [i \in 1 .. n |-> LeafHash(ls[i])]
         /\ \A k \in 1 .. Height[n] : Levels(ls)[k + 1] = Parents(Levels(ls)[k])
<1>1. Height[n] \in Nat BY HeightNat DEF IsList
<1>2. Levels(ls) = [k \in 1 .. Height[n] + 1 |-> LevelStep(ls, Levels(ls), k)]
  BY LevelsValue DEF IsList
<1>3. PICK H \in Nat : H = Height[n] BY <1>1
<1>4. PICK L : L = Levels(ls) OBVIOUS
<1>5. L = [k \in 1 .. H + 1 |-> LevelStep(ls, L, k)] BY <1>2, <1>3, <1>4
<1>6. IsList(L, H + 1)
  <2>1. DOMAIN L = 1 .. H + 1 BY <1>5
  <2>2. Len(L) = H + 1 BY <1>5
  <2> QED BY <2>1, <2>2 DEF IsList
<1>7. L[1] = [i \in 1 .. n |-> LeafHash(ls[i])]
  <2>1. 1 \in 1 .. H + 1 OBVIOUS
  <2>2. L[1] = LevelStep(ls, L, 1) BY <1>5, <2>1
  <2> QED BY <2>2 DEF LevelStep, IsList
<1>8. ASSUME NEW k \in 1 .. H PROVE L[k + 1] = Parents(L[k])
  <2>1. k + 1 \in 1 .. H + 1 /\ k + 1 # 1 /\ (k + 1) - 1 = k OBVIOUS
  <2>2. L[k + 1] = LevelStep(ls, L, k + 1) BY <1>5, <2>1
  <2> QED BY <2>1, <2>2 DEF LevelStep
<1> QED BY <1>1, <1>3, <1>4, <1>6, <1>7, <1>8

\* Level k has as many nodes as fit above the leaves: one at the top, and only there.
LEMMA LevelWidths ==
  ASSUME NEW ls, NEW n, IsList(ls, n), n > 0
  PROVE  \A k \in 1 .. Height[n] + 1 :
           \E w \in Nat \ {0} : /\ IsList(Levels(ls)[k], w)
                                /\ Height[w] = Height[n] + 1 - k
                                /\ (w = 1 <=> k = Height[n] + 1)
<1>1. PICK H \in Nat : H = Height[n] BY LevelsShape
<1>2. PICK L : L = Levels(ls) OBVIOUS
<1> DEFINE Good(k) == \E w \in Nat \ {0} : IsList(L[k], w) /\ Height[w] = H + 1 - k
           T == {k \in 1 .. H + 1 : ~Good(k)}
<1>3. T = {}
  <2>1. SUFFICES ASSUME T # {} PROVE FALSE OBVIOUS
  <2>2. PICK k \in T : \A j \in T : k <= j
    <3> HIDE DEF T
    <3>1. T \in SUBSET Nat BY DEF T
    <3> QED BY <2>1, <3>1, HeightRec!LeastNumber
  <2>3. k \in 1 .. H + 1 /\ ~Good(k) OBVIOUS
  <2>4. CASE k = 1
    <3>1. L[1] = [i \in 1 .. n |-> LeafHash(ls[i])] BY <1>2, LevelsShape
    <3>2. IsList(L[1], n) /\ n \in Nat \ {0}
      <4>1. n \in Nat BY DEF IsList
      <4>2. DOMAIN L[1] = 1 .. n BY <3>1
      <4>3. Len(L[1]) = n BY <3>1, <4>1
      <4> QED BY <4>1, <4>2, <4>3 DEF IsList
    <3>3. Height[n] = H + 1 - 1 BY <1>1
    <3> QED BY <2>3, <2>4, <3>2, <3>3
  <2>5. CASE k # 1
    <3>1. k - 1 \in 1 .. H /\ k - 1 \in 1 .. H + 1 /\ k - 1 < k /\ (k - 1) + 1 = k BY <2>3, <2>5
    <3>2. Good(k - 1) BY <2>2, <3>1
    <3>3. PICK w \in Nat \ {0} : IsList(L[k - 1], w) /\ Height[w] = H + 1 - (k - 1) BY <3>2
    <3>4. L[k] = Parents(L[k - 1]) BY <1>1, <1>2, <3>1, LevelsShape
    <3>5. Height[w] > 0 BY <3>1, <3>3
    <3>6. w # 1 BY <3>5, HeightValue
    <3>7. Height[w] = 1 + Height[(w + 1) \div 2] BY <3>6, HeightValue
    <3>8. PICK h \in Nat \ {0} : h = (w + 1) \div 2 OBVIOUS
    <3>9. IsList(L[k], h) BY <3>3, <3>4, <3>8, ParentsFacts
    <3>10. Height[h] \in Nat BY HeightNat
    <3>11. Height[h] = H + 1 - k BY <3>1, <3>3, <3>7, <3>8, <3>10
    <3> QED BY <2>3, <3>9, <3>11
  <2> QED BY <2>4, <2>5
<1>4. ASSUME NEW w \in Nat \ {0}, NEW k \in 1 .. H + 1, Height[w] = H + 1 - k
      PROVE  w = 1 <=> k = H + 1
  <2>1. w = 1 => Height[w] = 0 BY HeightValue
  <2>2. w > 1 => Height[w] > 0 BY HeightNat
  <2> QED BY <1>4, <2>1, <2>2
<1>5. \A k \in 1 .. H + 1 : \E w \in Nat \ {0} : IsList(L[k], w) /\ Height[w] = H + 1 - k
  BY <1>3
<1> QED BY <1>1, <1>2, <1>4, <1>5

-----------------------------------------------------------------------------
(* Leaves. *)

LEMMA LeafsFacts ==
  ASSUME NEW S, NEW cs \in Seq(S), cs # <<>>
  PROVE  \E n \in Nat :
           /\ Leafs(cs) \in Seq(S) /\ IsList(Leafs(cs), n) /\ n > 1 /\ n % 2 = 0
           /\ n = IF Len(cs) % 2 = 1 THEN Len(cs) + 1 ELSE Len(cs)
           /\ \A i \in 1 .. n : Leafs(cs)[i] = IF i <= Len(cs) THEN cs[i] ELSE cs[Len(cs)]
           /\ Leafs(Leafs(cs)) = Leafs(cs)
<1>1. Len(cs) \in Nat /\ Len(cs) > 0 OBVIOUS
<1>2. cs[Len(cs)] \in S BY <1>1
<1>3. CASE Len(cs) % 2 = 1
  <2>1. Leafs(cs) = Append(cs, cs[Len(cs)]) BY <1>3 DEF Leafs, Last
  <2>2. PICK l \in Seq(S) : l = Append(cs, cs[Len(cs)])
    <3>1. PICK x \in S : x = cs[Len(cs)] BY <1>2
    <3>2. Append(cs, x) \in Seq(S) OBVIOUS
    <3> QED BY <3>1, <3>2
  <2>3. PICK n \in Nat : n = Len(cs) + 1 BY <1>1
  <2>4. Len(l) = n /\ DOMAIN l = 1 .. n BY <2>2, <2>3
  <2>5. \A i \in 1 .. n : l[i] = IF i <= Len(cs) THEN cs[i] ELSE cs[Len(cs)]
    BY <1>1, <2>2, <2>3
  <2>6. n > 1 /\ n % 2 = 0 BY <1>1, <1>3, <2>3
  <2>7. Leafs(l) = l BY <2>4, <2>6 DEF Leafs
  <2> QED BY <1>3, <2>1, <2>2, <2>3, <2>4, <2>5, <2>6, <2>7 DEF IsList
<1>4. CASE Len(cs) % 2 # 1
  <2>1. Leafs(cs) = cs BY <1>4 DEF Leafs
  <2>2. Len(cs) > 1 /\ Len(cs) % 2 = 0 BY <1>1, <1>4
  <2> QED BY <1>1, <1>4, <2>1, <2>2 DEF IsList
<1> QED BY <1>3, <1>4

\* What leads from the n leaves of a list to the root, in one place.
InTree(ls, L, n, H) ==
  /\ n > 1 /\ IsList(ls, n) /\ H = Height[n] /\ H > 0
  /\ IsList(L, H + 1)
  /\ Root(L) = L[H + 1][1]
  /\ L[1] = [i \in 1 .. n |-> LeafHash(ls[i])]
  /\ \A k \in 1 .. H : L[k + 1] = Parents(L[k])
  /\ \A k \in 1 .. H + 1 : \E w \in Nat \ {0} : IsList(L[k], w) /\ (w = 1 <=> k = H + 1)

LEMMA ListInTree ==
  ASSUME NEW ls, NEW n \in Nat, n > 1, IsList(ls, n)
  PROVE  Height[n] \in Nat /\ InTree(ls, Levels(ls), n, Height[n])
<1>1. n > 0 OBVIOUS
<1>2. PICK H \in Nat : H = Height[n] BY <1>1, LevelsShape
<1>3. H > 0 BY <1>2, HeightNat
<1>4. IsList(Levels(ls), H + 1) BY <1>1, <1>2, LevelsShape
<1>5. Root(Levels(ls)) = Levels(ls)[H + 1][1] BY <1>4 DEF Root, Last, IsList
<1>6. \A k \in 1 .. H + 1 :
        \E w \in Nat \ {0} : IsList(Levels(ls)[k], w) /\ (w = 1 <=> k = H + 1)
  BY <1>1, <1>2, LevelWidths
<1>7. /\ Levels(ls)[1] = [i \in 1 .. n |-> LeafHash(ls[i])]
      /\ \A k \in 1 .. H : Levels(ls)[k + 1] = Parents(Levels(ls)[k])
  BY <1>1, <1>2, LevelsShape
<1> QED BY <1>2, <1>3, <1>4, <1>5, <1>6, <1>7 DEF InTree

-----------------------------------------------------------------------------
(* The older construction. *)

RoundStep(ls, level, k) ==
  IF k = 0 THEN [i \in DOMAIN ls |-> LeafHash(ls[i])] ELSE Round(level[k - 1])
RoundDom(p)     == 0 .. p[2]
RoundRank(p, k) == k
RoundDef(p, level, k) == RoundStep(p[1], level, k)
RoundRec == INSTANCE Recursion WITH Dom <- RoundDom, Rank <- RoundRank, Def <- RoundDef

RoundTwin(ls, n) == CHOOSE level : level = [k \in 0 .. n |-> RoundStep(ls, level, k)]

LEMMA RoundsTwin ==
  ASSUME NEW cs, NEW n
  PROVE  Rounds(cs, n) = RoundTwin(Leafs(cs), n)[n]
BY Zenon DEF Rounds, RoundTwin, RoundStep

LEMMA RoundValue ==
  ASSUME NEW ls, NEW n \in Nat
  PROVE  RoundTwin(ls, n) = [k \in 0 .. n |-> RoundStep(ls, RoundTwin(ls, n), k)]
<1>1. PICK p : p = <<ls, n>> OBVIOUS
<1>2. p[1] = ls /\ p[2] = n BY <1>1
<1>3. RoundRec!Ranked(p) BY <1>2 DEF RoundRec!Ranked, RoundDom, RoundRank
<1>4. RoundRec!LooksDown(p)
  <2> SUFFICES ASSUME NEW f, NEW g, NEW k \in 0 .. n, \A j \in 0 .. n : j < k => f[j] = g[j]
               PROVE  RoundStep(ls, f, k) = RoundStep(ls, g, k)
    BY <1>2 DEF RoundRec!LooksDown, RoundDom, RoundRank, RoundDef
  <2>1. CASE k = 0 BY <2>1 DEF RoundStep
  <2>2. CASE k # 0
    <3>1. k - 1 \in 0 .. n /\ k - 1 < k BY <2>2
    <3> QED BY <2>2, <3>1 DEF RoundStep
  <2> QED BY <2>1, <2>2
<1>5. \E level : level = [k \in RoundDom(p) |-> RoundDef(p, level, k)]
  BY <1>3, <1>4, RoundRec!FunctionExists
<1>6. \E level : level = [k \in 0 .. n |-> RoundStep(ls, level, k)]
  BY <1>2, <1>5 DEF RoundDom, RoundDef
<1> QED BY <1>6, Zenon DEF RoundTwin

\* A round halves an even number of nodes, and ends with none otherwise.
LEMMA RoundFacts ==
  ASSUME NEW l, NEW w, IsList(l, w)
  PROVE  /\ IsList(Round(l), IF w % 2 = 1 THEN 0 ELSE w \div 2)
         /\ w % 2 = 1 \/ w = 0 => Round(l) = <<>>
<1>1. CASE w % 2 = 1
  <2>1. Round(l) = <<>> BY <1>1 DEF Round, Panicked, IsList
  <2> QED BY <1>1, <2>1 DEF IsList
<1>2. CASE w % 2 # 1
  <2>1. Round(l) = Parents(l) BY <1>2 DEF Round, IsList
  <2>2. (w + 1) \div 2 = w \div 2 /\ w \div 2 \in Nat BY <1>2 DEF IsList
  <2>3. Parents(l) = [i \in 1 .. w \div 2 |-> NodeHash(l[2 * i - 1], l[Right(i, l)])]
    BY <2>2 DEF Parents, IsList
  <2>4. IsList(Parents(l), w \div 2)
    <3>1. PICK h \in Nat : h = w \div 2 BY <2>2
    <3>2. PICK q : q = [i \in 1 .. h |-> NodeHash(l[2 * i - 1], l[Right(i, l)])] OBVIOUS
    <3>3. DOMAIN q = 1 .. h /\ Len(q) = h BY <3>2
    <3> QED BY <2>3, <3>1, <3>2, <3>3 DEF IsList
  <2>5. w = 0 => Parents(l) = <<>>
    <3> SUFFICES ASSUME w = 0 PROVE Parents(l) = <<>> OBVIOUS
    <3>1. 1 .. w \div 2 = {} OBVIOUS
    <3> QED BY <2>3, <3>1
  <2> QED BY <1>2, <2>1, <2>4, <2>5
<1> QED BY <1>1, <1>2

\* A level of one node.
LEMMA OneNode ==
  ASSUME NEW l, NEW w, IsList(l, w), w > 0, (w + 1) \div 2 = 1
  PROVE  Parents(l) = <<Parents(l)[1]>>
<1>1. Parents(l) = [i \in 1 .. 1 |-> NodeHash(l[2 * i - 1], l[Right(i, l)])]
  BY DEF Parents, IsList
<1>2. PICK x : x = NodeHash(l[2 * 1 - 1], l[Right(1, l)]) OBVIOUS
<1>3. Parents(l) = [i \in 1 .. 1 |-> x] BY <1>1, <1>2
<1>4. [i \in 1 .. 1 |-> x] = <<x>> OBVIOUS
<1>5. Parents(l)[1] = x BY <1>3
<1> QED BY <1>3, <1>4, <1>5

\* Half of an even number of leaves.
LEMMA EvenHalf ==
  ASSUME NEW n \in Nat, n > 1, n % 2 = 0
  PROVE  \E m \in Nat : n = 2 * m /\ n \div 2 = m /\ m > 0 /\ n % 2 # 1
<1>1. n = 2 * (n \div 2) /\ n \div 2 \in Nat /\ n \div 2 > 0
  OBVIOUS
<1> QED BY <1>1

LEMMA FewLeaves ==
  ASSUME NEW n \in Nat, NEW c \in Nat, NEW m \in Nat, n = 2 * m,
         n = IF c % 2 = 1 THEN c + 1 ELSE c
  PROVE  c <= 4 <=> m <= 2
<1>1. CASE c % 2 = 1
  <2>1. c + 1 = 2 * m BY <1>1
  <2> QED BY <2>1
<1>2. CASE c % 2 # 1
  <2>1. c = 2 * m BY <1>2
  <2> QED BY <2>1
<1> QED BY <1>1, <1>2

LEMMA OlderTree ==
  ASSUME NEW S, NEW cs \in Seq(S), cs # <<>>
  PROVE  NewMerkleTree(cs) =
           IF Len(cs) <= 4 THEN <<Root(Levels(Leafs(cs)))>> ELSE Panicked
<1>1. PICK ls : ls = Leafs(cs) OBVIOUS
<1>2. PICK n \in Nat : /\ IsList(ls, n) /\ n > 1 /\ n % 2 = 0
                       /\ n = IF Len(cs) % 2 = 1 THEN Len(cs) + 1 ELSE Len(cs)
  BY <1>1, LeafsFacts
<1>3. PICK m \in Nat : n = 2 * m /\ n \div 2 = m /\ m > 0 /\ n % 2 # 1 BY <1>2, EvenHalf
<1>4. Len(cs) <= 4 <=> m <= 2
  <2>1. PICK c \in Nat : c = Len(cs) OBVIOUS
  <2>2. n = IF c % 2 = 1 THEN c + 1 ELSE c BY <1>2, <2>1
  <2>3. c <= 4 <=> m <= 2 BY <1>3, <2>2, FewLeaves
  <2> QED BY <2>1, <2>3
<1>5. Len(ls) \div 2 = m BY <1>2, <1>3 DEF IsList
<1>6. PICK R : R = RoundTwin(ls, m) OBVIOUS
<1>7. NewMerkleTree(cs) = R[m]
  <2>1. NewMerkleTree(cs) = Rounds(cs, m) BY <1>1, <1>5 DEF NewMerkleTree
  <2>2. Rounds(cs, m) = RoundTwin(ls, m)[m] BY <1>1, RoundsTwin
  <2> QED BY <1>6, <2>1, <2>2
<1>8. R = [k \in 0 .. m |-> RoundStep(ls, R, k)] BY <1>6, RoundValue
<1>9. R[0] = [i \in 1 .. n |-> LeafHash(ls[i])]
  <2>1. 0 \in 0 .. m OBVIOUS
  <2>2. R[0] = RoundStep(ls, R, 0) BY <1>8, <2>1
  <2> QED BY <1>2, <2>2 DEF RoundStep, IsList
<1>10. \A k \in 1 .. m : R[k] = Round(R[k - 1])
  <2> TAKE k \in 1 .. m
  <2>1. k \in 0 .. m /\ k # 0 OBVIOUS
  <2> QED BY <1>8, <2>1 DEF RoundStep
<1>11. IsList(R[0], n)
  <2>1. DOMAIN R[0] = 1 .. n /\ Len(R[0]) = n BY <1>9
  <2> QED BY <2>1 DEF IsList
<1>12. PICK L : L = Levels(ls) OBVIOUS
<1>13. InTree(ls, L, n, Height[n]) /\ Height[n] \in Nat
  BY <1>1, <1>2, <1>12, ListInTree
<1>14. L[1] = R[0] BY <1>9, <1>13 DEF InTree
<1>15. Height[1] = 0 /\ Height[2] = 1 /\ Height[4] = 2
  <2>1. Height[1] = 0 BY HeightValue
  <2>2. (2 + 1) \div 2 = 1 /\ (4 + 1) \div 2 = 2 OBVIOUS
  <2>3. Height[2] = 1 + Height[1] BY <2>2, HeightValue
  <2>4. Height[4] = 1 + Height[2] BY <2>2, HeightValue
  <2> QED BY <2>1, <2>3, <2>4
<1>16. CASE m = 1
  <2>1. n = 2 /\ Height[n] = 1 BY <1>3, <1>15, <1>16
  <2>2. R[1] = Round(R[0]) BY <1>10, <1>16
  <2>3. R[1] = Parents(R[0]) BY <1>11, <2>1, <2>2 DEF Round, IsList
  <2>4. L[2] = Parents(R[0]) /\ Root(L) = L[2][1] BY <1>13, <1>14, <2>1 DEF InTree
  <2>5. Parents(R[0]) = <<Parents(R[0])[1]>>
    <3>1. PICK r : r = R[0] /\ IsList(r, 2) BY <1>11, <2>1
    <3>2. 2 > 0 /\ (2 + 1) \div 2 = 1 OBVIOUS
    <3>3. Parents(r) = <<Parents(r)[1]>> BY <3>1, <3>2, OneNode
    <3> QED BY <3>1, <3>3
  <2> QED BY <1>1, <1>4, <1>7, <1>12, <1>16, <2>3, <2>4, <2>5
<1>17. CASE m = 2
  <2>1. n = 4 /\ Height[n] = 2 BY <1>3, <1>15, <1>17
  <2>2. R[1] = Round(R[0]) /\ R[2] = Round(R[1])
    <3>1. R[1] = Round(R[1 - 1]) /\ R[2] = Round(R[2 - 1]) BY <1>10, <1>17
    <3> QED BY <3>1
  <2>3. R[1] = Parents(R[0]) BY <1>11, <2>1, <2>2 DEF Round, IsList
  <2>4. PICK q : q = R[1] /\ IsList(q, 2)
    <3>1. (4 % 2 # 1) /\ 4 \div 2 = 2 OBVIOUS
    <3>2. PICK r : r = R[0] /\ IsList(r, 4) BY <1>11, <2>1
    <3>3. IsList(Round(r), 2) BY <3>1, <3>2, RoundFacts
    <3> QED BY <2>2, <3>2, <3>3
  <2>5. R[2] = Parents(q)
    <3>1. 2 % 2 # 1 OBVIOUS
    <3>2. Len(q) = 2 BY <2>4 DEF IsList
    <3> QED BY <2>2, <2>4, <3>1, <3>2 DEF Round
  <2>6. L[2] = Parents(L[1]) /\ L[3] = Parents(L[2]) /\ Root(L) = L[3][1]
    <3>1. 1 \in 1 .. 2 /\ 2 \in 1 .. 2 /\ 1 + 1 = 2 /\ 2 + 1 = 3 OBVIOUS
    <3>2. \A k \in 1 .. 2 : L[k + 1] = Parents(L[k]) BY <1>13, <2>1 DEF InTree
    <3>3. Root(L) = L[2 + 1][1] BY <1>13, <2>1 DEF InTree
    <3> QED BY <3>1, <3>2, <3>3
  <2>7. Parents(q) = <<Parents(q)[1]>>
    <3>1. 2 > 0 /\ (2 + 1) \div 2 = 1 OBVIOUS
    <3> QED BY <2>4, <3>1, OneNode
  <2>8. Root(L) = Parents(q)[1] BY <1>14, <2>3, <2>4, <2>6
  <2> QED BY <1>1, <1>4, <1>7, <1>12, <1>17, <2>5, <2>7, <2>8
<1>18. CASE m > 2
  <2>1. IsList(R[1], m)
    <3>1. (n % 2 # 1) /\ n \div 2 = m BY <1>3
    <3>2. PICK r : r = R[0] /\ IsList(r, n) BY <1>11
    <3>3. IsList(Round(r), IF n % 2 = 1 THEN 0 ELSE n \div 2) BY <3>2, RoundFacts
    <3>5. IsList(Round(r), m) BY <3>1, <3>3
    <3>4. R[1] = Round(R[1 - 1]) BY <1>10, <1>3
    <3> QED BY <3>2, <3>4, <3>5
  <2> DEFINE Good(k) == \E w \in Nat : IsList(R[k], w) /\ w <= m - k
             T == {k \in 2 .. m : ~Good(k)}
  <2>2. T = {}
    <3>1. SUFFICES ASSUME T # {} PROVE FALSE OBVIOUS
    <3>2. PICK k \in T : \A j \in T : k <= j
      <4> HIDE DEF T
      <4>1. T \in SUBSET Nat BY DEF T
      <4> QED BY <3>1, <4>1, HeightRec!LeastNumber
    <3>3. k \in 2 .. m /\ ~Good(k) /\ R[k] = Round(R[k - 1]) BY <1>10
    <3>4. CASE k = 2
      <4>1. PICK r : r = R[1] /\ IsList(r, m) BY <2>1
      <4>2. PICK w : w = IF m % 2 = 1 THEN 0 ELSE m \div 2 OBVIOUS
      <4>3. IsList(Round(r), w) BY <4>1, <4>2, RoundFacts
      <4>4. w \in Nat /\ w <= m - 2 BY <1>18, <4>2
      <4> QED BY <3>3, <3>4, <4>1, <4>3, <4>4
    <3>5. CASE k # 2
      <4>1. k - 1 \in 2 .. m /\ k - 1 < k BY <3>3, <3>5
      <4>2. Good(k - 1) BY <3>2, <4>1
      <4>3. PICK u \in Nat : IsList(R[k - 1], u) /\ u <= m - (k - 1) BY <4>2
      <4>4. PICK r : r = R[k - 1] /\ IsList(r, u) BY <4>3
      <4>5. PICK w : w = IF u % 2 = 1 THEN 0 ELSE u \div 2 OBVIOUS
      <4>6. IsList(Round(r), w) BY <4>4, <4>5, RoundFacts
      <4>7. w \in Nat /\ w <= m - k BY <3>3, <4>3, <4>5
      <4> QED BY <3>3, <4>4, <4>6, <4>7
    <3> QED BY <3>4, <3>5
  <2>3. PICK u \in Nat : IsList(R[m - 1], u) /\ u <= 1
    <3>1. m - 1 \in 2 .. m BY <1>18
    <3>2. Good(m - 1) BY <2>2, <3>1
    <3>3. m - (m - 1) = 1 OBVIOUS
    <3> QED BY <3>2, <3>3
  <2>4. R[m] = Round(R[m - 1]) BY <1>3, <1>10
  <2>5. u % 2 = 1 \/ u = 0 BY <2>3
  <2>6. R[m] = <<>>
    <3>1. PICK r : r = R[m - 1] /\ IsList(r, u) BY <2>3
    <3> QED BY <2>4, <2>5, <3>1, RoundFacts
  <2> QED BY <1>4, <1>7, <1>18, <2>6 DEF Panicked
<1> QED BY <1>3, <1>16, <1>17, <1>18

-----------------------------------------------------------------------------
(* Different lists have different roots. *)

\* What InTree says of the nodes, one by one.
Nodes(ls, L, n, H) ==
  /\ H \in Nat /\ H > 0 /\ n \in Nat /\ n > 1 /\ Len(L[1]) = n /\ Root(L) = L[H + 1][1]
  /\ \A k \in 1 .. H + 1 : Len(L[k]) \in Nat \ {0} /\ (Len(L[k]) = 1 <=> k = H + 1)
  /\ \A i \in 1 .. n : L[1][i] = <<ls[i]>>
  /\ \A k \in 1 .. H :
       /\ Len(L[k + 1]) = (Len(L[k]) + 1) \div 2
       /\ \A i \in 1 .. Len(L[k + 1]) :
            /\ L[k + 1][i] = <<L[k][2 * i - 1], L[k][Right(i, L[k])]>>
            /\ 2 * i - 1 \in 1 .. Len(L[k]) /\ Right(i, L[k]) \in 1 .. Len(L[k])

LEMMA TreeNodes ==
  ASSUME NEW ls, NEW L, NEW n, NEW H, InTree(ls, L, n, H)
  PROVE  Nodes(ls, L, n, H)
<1>1. H \in Nat /\ H > 0 /\ n \in Nat /\ n > 1
  <2>1. H + 1 \in Nat /\ H > 0 BY DEF InTree, IsList
  <2>2. n \in Nat \ {0} BY DEF InTree, IsList
  <2> QED BY <2>1, <2>2, HeightNat DEF InTree
<1>2. \A k \in 1 .. H + 1 : Len(L[k]) \in Nat \ {0} /\ (Len(L[k]) = 1 <=> k = H + 1)
  BY DEF InTree, IsList
<1>3. L[1] = [i \in 1 .. n |-> <<ls[i]>>] BY DEF InTree, LeafHash
<1>4. Len(L[1]) = n BY <1>1, <1>3
<1>5. ASSUME NEW k \in 1 .. H
      PROVE  /\ Len(L[k + 1]) = (Len(L[k]) + 1) \div 2
             /\ \A i \in 1 .. Len(L[k + 1]) :
                  /\ L[k + 1][i] = <<L[k][2 * i - 1], L[k][Right(i, L[k])]>>
                  /\ 2 * i - 1 \in 1 .. Len(L[k]) /\ Right(i, L[k]) \in 1 .. Len(L[k])
  <2>1. k \in 1 .. H + 1 BY <1>1
  <2>2. PICK w \in Nat \ {0} : IsList(L[k], w) BY <2>1 DEF InTree
  <2>3. PICK l : l = L[k] /\ IsList(l, w) BY <2>2
  <2>4. L[k + 1] = Parents(l) BY <2>3 DEF InTree
  <2>5. w > 0 OBVIOUS
  <2>6. PICK h \in Nat : h = (w + 1) \div 2 OBVIOUS
  <2>7. /\ IsList(Parents(l), h)
        /\ \A i \in 1 .. h :
             /\ Parents(l)[i] = NodeHash(l[2 * i - 1], l[Right(i, l)])
             /\ 2 * i - 1 \in 1 .. w
             /\ Right(i, l) \in 1 .. w
    BY <2>3, <2>5, <2>6, ParentsFacts
  <2>8. Len(Parents(l)) = h /\ Len(l) = w BY <2>3, <2>7 DEF IsList
  <2> QED BY <2>3, <2>4, <2>6, <2>7, <2>8 DEF NodeHash
<1>6. Root(L) = L[H + 1][1] BY DEF InTree
<1> QED BY <1>1, <1>2, <1>3, <1>4, <1>5, <1>6 DEF Nodes

LEMMA PairEq ==
  ASSUME NEW p, NEW q, NEW x, NEW y, <<p, q>> = <<x, y>>
  PROVE  p = x /\ q = y
OBVIOUS

\* The first nodes from the root down agree: no tree is the top of a higher one.
LEMMA SameHeight ==
  ASSUME NEW la, NEW A, NEW n, NEW Ha, InTree(la, A, n, Ha),
         NEW lb, NEW B, NEW m, NEW Hb, InTree(lb, B, m, Hb), Root(A) = Root(B)
  PROVE  ~(Ha < Hb)
<1>a. Nodes(la, A, n, Ha) BY TreeNodes
<1>b. Nodes(lb, B, m, Hb) BY TreeNodes
<1> SUFFICES ASSUME Ha < Hb PROVE FALSE OBVIOUS
<1>1. Ha \in Nat /\ Hb \in Nat /\ Ha > 0 /\ n \in Nat /\ n > 1 BY <1>a, <1>b DEF Nodes
<1> DEFINE Same(d) == A[Ha + 1 - d][1] = B[Hb + 1 - d][1]
           T == {d \in 0 .. Ha : ~Same(d)}
<1>2. T = {}
  <2>1. SUFFICES ASSUME T # {} PROVE FALSE OBVIOUS
  <2>2. PICK d \in T : \A e \in T : d <= e
    <3> HIDE DEF T
    <3>1. T \in SUBSET Nat BY <1>1 DEF T
    <3> QED BY <2>1, <3>1, HeightRec!LeastNumber
  <2>3. d \in 0 .. Ha /\ ~Same(d) OBVIOUS
  <2>4. d # 0
    <3>1. A[Ha + 1][1] = B[Hb + 1][1] BY <1>a, <1>b DEF Nodes
    <3>2. Ha + 1 - 0 = Ha + 1 /\ Hb + 1 - 0 = Hb + 1 BY <1>1
    <3>3. Same(0) BY <3>1, <3>2
    <3> QED BY <2>3, <3>3
  <2>5. Same(d - 1)
    <3>1. PICK e \in 0 .. Ha : e = d - 1 /\ ~(d <= e) BY <1>1, <2>3, <2>4
    <3>2. Same(e) BY <2>2, <3>1
    <3> QED BY <3>1, <3>2
  <2>6. PICK j \in 1 .. Ha : j = Ha + 1 - d BY <1>1, <2>3, <2>4
  <2>7. PICK k \in 1 .. Hb : k = Hb + 1 - d BY <1>1, <2>3, <2>4
  <2>8. j + 1 = Ha + 1 - (d - 1) /\ k + 1 = Hb + 1 - (d - 1) BY <1>1, <2>3, <2>6, <2>7
  <2>9. A[j + 1][1] = B[k + 1][1] BY <2>5, <2>8
  <2>10. A[j + 1][1] = <<A[j][2 * 1 - 1], A[j][Right(1, A[j])]>>
    <3>1. j + 1 \in 1 .. Ha + 1 BY <1>1
    <3>2. Len(A[j + 1]) \in Nat \ {0} BY <3>1, <1>a, <1>b DEF Nodes
    <3>3. 1 \in 1 .. Len(A[j + 1]) BY <3>2
    <3> QED BY <3>3, <1>a, <1>b DEF Nodes
  <2>11. B[k + 1][1] = <<B[k][2 * 1 - 1], B[k][Right(1, B[k])]>>
    <3>1. k + 1 \in 1 .. Hb + 1 BY <1>1
    <3>2. Len(B[k + 1]) \in Nat \ {0} BY <3>1, <1>a, <1>b DEF Nodes
    <3>3. 1 \in 1 .. Len(B[k + 1]) BY <3>2
    <3> QED BY <3>3, <1>a, <1>b DEF Nodes
  <2>12. A[j][2 * 1 - 1] = B[k][2 * 1 - 1]
    <3>1. PICK p, q : p = A[j][2 * 1 - 1] /\ q = A[j][Right(1, A[j])] OBVIOUS
    <3>2. PICK x, y : x = B[k][2 * 1 - 1] /\ y = B[k][Right(1, B[k])] OBVIOUS
    <3>3. <<p, q>> = <<x, y>> BY <2>9, <2>10, <2>11, <3>1, <3>2
    <3>4. p = x BY <3>3, PairEq
    <3> QED BY <3>1, <3>2, <3>4
  <2>13. A[j][1] = B[k][1] BY <2>12
  <2> QED BY <2>3, <2>6, <2>7, <2>13
<1>3. PICK k \in 1 .. Hb : k = Hb - Ha BY <1>1
<1>4. A[1][1] = B[k + 1][1]
  <2>1. Ha \in 0 .. Ha BY <1>1
  <2>2. Same(Ha) BY <1>2, <2>1
  <2>3. Ha + 1 - Ha = 1 /\ Hb + 1 - Ha = k + 1 BY <1>1, <1>3
  <2> QED BY <2>2, <2>3
<1>5. A[1][1] = <<la[1]>>
  <2>1. 1 \in 1 .. n BY <1>1
  <2> QED BY <2>1, <1>a, <1>b DEF Nodes
<1>6. B[k + 1][1] = <<B[k][2 * 1 - 1], B[k][Right(1, B[k])]>>
  <2>1. k + 1 \in 1 .. Hb + 1 BY <1>1
  <2>2. Len(B[k + 1]) \in Nat \ {0} BY <2>1, <1>a, <1>b DEF Nodes
  <2>3. 1 \in 1 .. Len(B[k + 1]) BY <2>2
  <2> QED BY <2>3, <1>a, <1>b DEF Nodes
<1>7. PICK x, y, z : <<x>> = <<y, z>>
  <2>1. PICK y, z : y = B[k][2 * 1 - 1] /\ z = B[k][Right(1, B[k])] OBVIOUS
  <2>2. PICK x : x = la[1] OBVIOUS
  <2>3. <<x>> = <<y, z>> BY <1>4, <1>5, <1>6, <2>1, <2>2
  <2> QED BY <2>3
<1>8. Len(<<x>>) = 1 /\ Len(<<y, z>>) = 2 OBVIOUS
<1> QED BY <1>7, <1>8

\* Trees of the same height and root agree wherever both have a node.
LEMMA SameNodes ==
  ASSUME NEW la, NEW A, NEW n, NEW H, InTree(la, A, n, H),
         NEW lb, NEW B, NEW m, InTree(lb, B, m, H), Root(A) = Root(B)
  PROVE  \A k \in 1 .. H + 1 :
           \A i \in 1 .. Len(A[k]) : i <= Len(B[k]) => A[k][i] = B[k][i]
<1>a. Nodes(la, A, n, H) BY TreeNodes
<1>b. Nodes(lb, B, m, H) BY TreeNodes
<1>1. H \in Nat /\ H > 0 BY <1>a, <1>b DEF Nodes
<1> DEFINE Same(k) == \A i \in 1 .. Len(A[k]) : i <= Len(B[k]) => A[k][i] = B[k][i]
           T == {d \in 0 .. H : ~Same(H + 1 - d)}
<1>2. T = {}
  <2>1. SUFFICES ASSUME T # {} PROVE FALSE OBVIOUS
  <2>2. PICK d \in T : \A e \in T : d <= e
    <3> HIDE DEF T
    <3>1. T \in SUBSET Nat BY <1>1 DEF T
    <3> QED BY <2>1, <3>1, HeightRec!LeastNumber
  <2>3. d \in 0 .. H /\ ~Same(H + 1 - d) OBVIOUS
  <2>4. d # 0
    <3>1. A[H + 1][1] = B[H + 1][1] BY <1>a, <1>b DEF Nodes
    <3>2. H + 1 \in 1 .. H + 1 BY <1>1
    <3>3. Len(A[H + 1]) = 1 BY <3>2, <1>a, <1>b DEF Nodes
    <3>4. Same(H + 1) BY <3>1, <3>3
    <3>5. H + 1 - 0 = H + 1 BY <1>1
    <3>6. Same(H + 1 - 0) BY <3>4, <3>5
    <3> QED BY <2>3, <3>6
  <2>5. PICK k \in 1 .. H : k = H + 1 - d BY <1>1, <2>3, <2>4
  <2>6. Same(k + 1)
    <3>1. PICK e \in 0 .. H : e = d - 1 /\ ~(d <= e) BY <1>1, <2>3, <2>4
    <3>2. H + 1 - e = k + 1 BY <1>1, <2>3, <2>5, <3>1
    <3>3. Same(H + 1 - e) BY <2>2, <3>1
    <3> QED BY <3>2, <3>3
  <2>7. k \in 1 .. H + 1 BY <1>1
  <2>8. PICK u \in Nat \ {0} : u = Len(A[k]) BY <2>7, <1>a, <1>b DEF Nodes
  <2>9. PICK v \in Nat \ {0} : v = Len(B[k]) BY <2>7, <1>a, <1>b DEF Nodes
  <2>10. ASSUME NEW i \in 1 .. u, i <= v PROVE A[k][i] = B[k][i]
    <3>1. PICK p \in Nat : p = (i + 1) \div 2 OBVIOUS
    <3>2. /\ p \in 1 .. (u + 1) \div 2 /\ p <= (v + 1) \div 2
          /\ i = 2 * p - 1 \/ (i = 2 * p /\ 2 * p <= u /\ 2 * p <= v)
      BY <2>10, <3>1
    <3>3. Len(A[k + 1]) = (u + 1) \div 2 /\ Len(B[k + 1]) = (v + 1) \div 2 BY <2>8, <2>9, <1>a, <1>b DEF Nodes
    <3>4. A[k + 1][p] = B[k + 1][p] BY <2>6, <3>2, <3>3
    <3>5. A[k + 1][p] = <<A[k][2 * p - 1], A[k][Right(p, A[k])]>> BY <3>2, <3>3, <1>a, <1>b DEF Nodes
    <3>6. B[k + 1][p] = <<B[k][2 * p - 1], B[k][Right(p, B[k])]>>
      <4>1. p \in 1 .. (v + 1) \div 2 BY <3>2
      <4> QED BY <3>3, <4>1, <1>a, <1>b DEF Nodes
    <3>7. A[k][2 * p - 1] = B[k][2 * p - 1] /\ A[k][Right(p, A[k])] = B[k][Right(p, B[k])]
      <4>1. PICK f, g : f = A[k][2 * p - 1] /\ g = A[k][Right(p, A[k])] OBVIOUS
      <4>2. PICK x, y : x = B[k][2 * p - 1] /\ y = B[k][Right(p, B[k])] OBVIOUS
      <4>3. <<f, g>> = <<x, y>> BY <3>4, <3>5, <3>6, <4>1, <4>2
      <4>4. f = x /\ g = y BY <4>3, PairEq
      <4> QED BY <4>1, <4>2, <4>4
    <3>8. CASE i = 2 * p - 1 BY <3>7, <3>8
    <3>9. CASE i = 2 * p /\ 2 * p <= u /\ 2 * p <= v
      <4>1. Right(p, A[k]) = i /\ Right(p, B[k]) = i BY <2>8, <2>9, <3>9 DEF Right
      <4> QED BY <3>7, <4>1
    <3> QED BY <3>2, <3>8, <3>9
  <2>11. Same(k) BY <2>8, <2>9, <2>10
  <2> QED BY <2>3, <2>5, <2>11
<1>3. ASSUME NEW k \in 1 .. H + 1 PROVE Same(k)
  <2>1. H + 1 - k \in 0 .. H /\ H + 1 - (H + 1 - k) = k BY <1>1
  <2>2. Same(H + 1 - (H + 1 - k)) BY <1>2, <2>1
  <2> QED BY <2>1, <2>2
<1> QED BY <1>3

\* Above leaves of which every other one differs from the others no node comes twice.
\* No two nodes of level k + 1 have the same hash.
Apart(L, k) == \A i, j \in 1 .. Len(L[k + 1]) : L[k + 1][i] = L[k + 1][j] => i = j

LEMMA NodesDiffer ==
  ASSUME NEW ls, NEW L, NEW n, NEW H, InTree(ls, L, n, H),
         \A i, j \in 1 .. n : i % 2 = 1 /\ j % 2 = 1 /\ ls[i] = ls[j] => i = j
  PROVE  \A k \in 1 .. H : Apart(L, k)
<1>a. Nodes(ls, L, n, H) BY TreeNodes
<1>1. H \in Nat /\ H > 0 /\ n \in Nat /\ Len(L[1]) = n BY <1>a DEF Nodes
<1> DEFINE Good(k) == \A i, j \in 1 .. Len(L[k + 1]) : L[k + 1][i] = L[k + 1][j] => i = j
           T == {k \in 1 .. H : ~Good(k)}
<1>2. T = {}
  <2>1. SUFFICES ASSUME T # {} PROVE FALSE OBVIOUS
  <2>2. PICK k \in T : \A j \in T : k <= j
    <3> HIDE DEF T
    <3>1. T \in SUBSET Nat BY <1>1 DEF T
    <3> QED BY <2>1, <3>1, HeightRec!LeastNumber
  <2>3. k \in 1 .. H /\ ~Good(k) OBVIOUS
  <2>4. ASSUME NEW i \in 1 .. Len(L[k + 1]), NEW j \in 1 .. Len(L[k + 1]),
               L[k + 1][i] = L[k + 1][j]
        PROVE  i = j
    <3>1. k + 1 \in 1 .. H + 1 BY <1>1, <2>3
    <3>2. PICK w \in Nat : w = Len(L[k + 1]) BY <3>1, <1>a DEF Nodes
    <3>3. i \in 1 .. w /\ j \in 1 .. w BY <3>2
    <3>4. L[k + 1][i] = <<L[k][2 * i - 1], L[k][Right(i, L[k])]>> /\ 2 * i - 1 \in 1 .. Len(L[k])
      BY <2>3, <1>a DEF Nodes
    <3>5. L[k + 1][j] = <<L[k][2 * j - 1], L[k][Right(j, L[k])]>> /\ 2 * j - 1 \in 1 .. Len(L[k])
      BY <2>3, <1>a DEF Nodes
    <3>6. L[k][2 * i - 1] = L[k][2 * j - 1]
      <4>1. L[k + 1][i][1] = L[k][2 * i - 1] BY <3>4
      <4>2. L[k + 1][j][1] = L[k][2 * j - 1] BY <3>5
      <4> QED BY <2>4, <4>1, <4>2
    <3>7. CASE k = 1
      <4>1. PICK x \in 1 .. n : x = 2 * i - 1 BY <1>1, <3>4, <3>7
      <4>2. PICK y \in 1 .. n : y = 2 * j - 1 BY <1>1, <3>5, <3>7
      <4>3. L[1][x] = <<ls[x]>> /\ L[1][y] = <<ls[y]>> BY <1>a DEF Nodes
      <4>4. <<ls[x]>> = <<ls[y]>> BY <3>6, <3>7, <4>1, <4>2, <4>3
      <4>5. ls[x] = ls[y] BY <4>4
      <4>6. x % 2 = 1 /\ y % 2 = 1 BY <3>3, <4>1, <4>2
      <4>7. x = y BY <4>5, <4>6
      <4> QED BY <3>3, <4>1, <4>2, <4>7
    <3>8. CASE k # 1
      <4>1. k - 1 \in 1 .. H /\ k - 1 < k /\ (k - 1) + 1 = k BY <1>1, <2>3, <3>8
      <4>2. Good(k - 1) BY <2>2, <4>1
      <4>3. 2 * i - 1 = 2 * j - 1 BY <3>4, <3>5, <3>6, <4>1, <4>2
      <4> QED BY <3>3, <4>3
    <3> QED BY <3>7, <3>8
  <2> QED BY <2>3, <2>4
<1> QED BY <1>2 DEF Apart

\* A level that is shorter than in the other tree would repeat its last node there.
LEMMA SameWidths ==
  ASSUME NEW la, NEW A, NEW n, NEW H, InTree(la, A, n, H), n % 2 = 0,
         NEW lb, NEW B, NEW m, InTree(lb, B, m, H), Root(A) = Root(B),
         \A i, j \in 1 .. m : i % 2 = 1 /\ j % 2 = 1 /\ lb[i] = lb[j] => i = j,
         NEW k \in 1 .. H, Len(A[k + 1]) = Len(B[k + 1])
  PROVE  ~(Len(A[k]) < Len(B[k]))
<1>a. Nodes(la, A, n, H) BY TreeNodes
<1>b. Nodes(lb, B, m, H) BY TreeNodes
<1> SUFFICES ASSUME Len(A[k]) < Len(B[k]) PROVE FALSE OBVIOUS
<1>1. H \in Nat /\ n \in Nat /\ Len(A[1]) = n BY <1>a, <1>b DEF Nodes
<1>2. k \in 1 .. H + 1 BY <1>1
<1>3. PICK u \in Nat \ {0} : u = Len(A[k]) BY <1>2, <1>a, <1>b DEF Nodes
<1>4. PICK v \in Nat \ {0} : v = Len(B[k]) BY <1>2, <1>a, <1>b DEF Nodes
<1>5. Len(A[k + 1]) = (u + 1) \div 2 /\ Len(B[k + 1]) = (v + 1) \div 2
  BY <1>3, <1>4, <1>a, <1>b DEF Nodes
<1>6. PICK p \in Nat : p = (u + 1) \div 2 /\ p > 0 OBVIOUS
<1>7. (v + 1) \div 2 = p /\ u < v BY <1>3, <1>4, <1>5, <1>6
<1>8. u = 2 * p - 1 /\ v = 2 * p BY <1>6, <1>7
<1>9. k # 1
  <2>1. u % 2 = 1 BY <1>6, <1>8
  <2>2. u # n BY <2>1
  <2> QED BY <1>1, <1>3, <2>2
<1>10. p \in 1 .. Len(A[k + 1]) /\ p \in 1 .. Len(B[k + 1]) BY <1>5, <1>6, <1>7
<1>11. A[k + 1][p] = <<A[k][u], A[k][u]>>
  <2>1. Right(p, A[k]) = u BY <1>3, <1>8 DEF Right
  <2>2. A[k + 1][p] = <<A[k][2 * p - 1], A[k][Right(p, A[k])]>> BY <1>10, <1>a, <1>b DEF Nodes
  <2> QED BY <1>8, <2>1, <2>2
<1>12. B[k + 1][p] = <<B[k][u], B[k][v]>>
  <2>1. Right(p, B[k]) = v BY <1>4, <1>8 DEF Right
  <2>2. B[k + 1][p] = <<B[k][2 * p - 1], B[k][Right(p, B[k])]>> BY <1>10, <1>a, <1>b DEF Nodes
  <2> QED BY <1>8, <2>1, <2>2
<1>13. A[k + 1][p] = B[k + 1][p]
  <2>1. k + 1 \in 1 .. H + 1 BY <1>1
  <2>2. Len(B[k + 1]) = p BY <1>5, <1>7
  <2>3. p <= Len(B[k + 1]) BY <2>2
  <2>4. \A i \in 1 .. Len(A[k + 1]) : i <= Len(B[k + 1]) => A[k + 1][i] = B[k + 1][i]
    BY <2>1, SameNodes
  <2> QED BY <1>10, <2>3, <2>4
<1>14. B[k][u] = B[k][v]
  <2>1. <<A[k][u], A[k][u]>> = <<B[k][u], B[k][v]>> BY <1>11, <1>12, <1>13
  <2> QED BY <2>1
<1>15. PICK g \in 1 .. H : g + 1 = k BY <1>1, <1>9
<1>16. u \in 1 .. Len(B[g + 1]) /\ v \in 1 .. Len(B[g + 1]) BY <1>4, <1>7, <1>15
<1>17. u = v
  <2>1. Apart(B, g)
    <3>1. \A x \in 1 .. H : Apart(B, x) BY NodesDiffer
    <3> QED BY <3>1
  <2>2. B[g + 1][u] = B[g + 1][v] BY <1>14, <1>15
  <2> QED BY <1>16, <2>1, <2>2 DEF Apart
<1> QED BY <1>7, <1>17

LEMMA RootInjective ==
  ASSUME NEW S, NEW a \in Seq(S), NEW b \in Seq(S), a # <<>>, b # <<>>,
         IsInjective(a), IsInjective(b), Root(Levels(Leafs(a))) = Root(Levels(Leafs(b)))
  PROVE  a = b
<1>1. PICK la, A : la = Leafs(a) /\ A = Levels(la) OBVIOUS
<1>2. PICK lb, B : lb = Leafs(b) /\ B = Levels(lb) OBVIOUS
<1>3. PICK n \in Nat :
        /\ IsList(la, n) /\ n > 1 /\ n % 2 = 0
        /\ n = IF Len(a) % 2 = 1 THEN Len(a) + 1 ELSE Len(a)
        /\ \A i \in 1 .. n : la[i] = IF i <= Len(a) THEN a[i] ELSE a[Len(a)]
  BY <1>1, LeafsFacts
<1>4. PICK m \in Nat :
        /\ IsList(lb, m) /\ m > 1 /\ m % 2 = 0
        /\ m = IF Len(b) % 2 = 1 THEN Len(b) + 1 ELSE Len(b)
        /\ \A i \in 1 .. m : lb[i] = IF i <= Len(b) THEN b[i] ELSE b[Len(b)]
  BY <1>2, LeafsFacts
<1>5. PICK Ha \in Nat : InTree(la, A, n, Ha) BY <1>1, <1>3, ListInTree
<1>6. PICK Hb \in Nat : InTree(lb, B, m, Hb) BY <1>2, <1>4, ListInTree
<1>7. Root(A) = Root(B) BY <1>1, <1>2
<1>8. ~(Ha < Hb) BY <1>5, <1>6, <1>7, SameHeight
<1>9. ~(Hb < Ha) BY <1>5, <1>6, <1>7, SameHeight
<1>10. PICK H \in Nat : H = Ha /\ H = Hb BY <1>8, <1>9
<1>11. InTree(la, A, n, H) /\ InTree(lb, B, m, H) BY <1>5, <1>6, <1>10
<1>a. Nodes(la, A, n, H) BY <1>11, TreeNodes
<1>b. Nodes(lb, B, m, H) BY <1>11, TreeNodes
<1>12. PICK ca \in Nat : ca = Len(a) /\ (n = ca \/ n = ca + 1) /\ DOMAIN a = 1 .. ca BY <1>3
<1>13. PICK cb \in Nat : cb = Len(b) /\ (m = cb \/ m = cb + 1) /\ DOMAIN b = 1 .. cb BY <1>4
<1>14. \A i, j \in 1 .. n : i % 2 = 1 /\ j % 2 = 1 /\ la[i] = la[j] => i = j
  <2> SUFFICES ASSUME NEW i \in 1 .. n, NEW j \in 1 .. n, i % 2 = 1, j % 2 = 1, la[i] = la[j]
               PROVE  i = j
    OBVIOUS
  <2>1. i # n /\ j # n BY <1>3
  <2>2. i \in 1 .. ca /\ j \in 1 .. ca BY <1>12, <2>1
  <2>3. a[i] = a[j] BY <1>3, <1>12, <2>2
  <2> QED BY <1>12, <2>2, <2>3 DEF IsInjective
<1>15. \A i, j \in 1 .. m : i % 2 = 1 /\ j % 2 = 1 /\ lb[i] = lb[j] => i = j
  <2> SUFFICES ASSUME NEW i \in 1 .. m, NEW j \in 1 .. m, i % 2 = 1, j % 2 = 1, lb[i] = lb[j]
               PROVE  i = j
    OBVIOUS
  <2>1. i # m /\ j # m BY <1>4
  <2>2. i \in 1 .. cb /\ j \in 1 .. cb BY <1>13, <2>1
  <2>3. b[i] = b[j] BY <1>4, <1>13, <2>2
  <2> QED BY <1>13, <2>2, <2>3 DEF IsInjective
<1>16. \A k \in 1 .. H + 1 : Len(A[k]) = Len(B[k])
  <2> DEFINE Same(k) == Len(A[k]) = Len(B[k])
             T == {d \in 0 .. H : ~Same(H + 1 - d)}
  <2>1. T = {}
    <3>1. SUFFICES ASSUME T # {} PROVE FALSE OBVIOUS
    <3>2. PICK d \in T : \A e \in T : d <= e
      <4> HIDE DEF T
      <4>1. T \in SUBSET Nat BY DEF T
      <4> QED BY <3>1, <4>1, HeightRec!LeastNumber
    <3>3. d \in 0 .. H /\ ~Same(H + 1 - d) OBVIOUS
    <3>4. d # 0
      <4>1. H + 1 \in 1 .. H + 1 /\ H + 1 - 0 = H + 1 OBVIOUS
      <4>2. Len(A[H + 1]) = 1 /\ Len(B[H + 1]) = 1 BY <1>11, <4>1, <1>a, <1>b DEF Nodes
      <4> QED BY <3>3, <4>1, <4>2
    <3>5. PICK k \in 1 .. H : k = H + 1 - d BY <3>3, <3>4
    <3>6. Len(A[k + 1]) = Len(B[k + 1])
      <4>1. PICK e \in 0 .. H : e = d - 1 /\ ~(d <= e) BY <3>3, <3>4
      <4>2. Same(H + 1 - e) BY <3>2, <4>1
      <4>3. H + 1 - e = k + 1 BY <3>3, <3>5, <4>1
      <4> QED BY <4>2, <4>3
    <3>7. ~(Len(A[k]) < Len(B[k])) BY <1>3, <1>7, <1>11, <1>15, <3>6, SameWidths
    <3>8. ~(Len(B[k]) < Len(A[k])) BY <1>4, <1>7, <1>11, <1>14, <3>6, SameWidths
    <3>9. Len(A[k]) \in Nat /\ Len(B[k]) \in Nat
      <4>1. k \in 1 .. H + 1 OBVIOUS
      <4> QED BY <1>11, <4>1, <1>a, <1>b DEF Nodes
    <3> QED BY <3>3, <3>5, <3>7, <3>8, <3>9
  <2>2. ASSUME NEW k \in 1 .. H + 1 PROVE Len(A[k]) = Len(B[k])
    <3>1. H + 1 - k \in 0 .. H /\ H + 1 - (H + 1 - k) = k OBVIOUS
    <3>2. Same(H + 1 - (H + 1 - k)) BY <2>1, <3>1
    <3> QED BY <3>1, <3>2
  <2> QED BY <2>2
<1>17. n = m /\ \A i \in 1 .. n : la[i] = lb[i]
  <2>1. 1 \in 1 .. H + 1 OBVIOUS
  <2>2. Len(A[1]) = n /\ Len(B[1]) = m /\ Len(A[1]) = Len(B[1]) BY <1>11, <1>16, <2>1, <1>a, <1>b DEF Nodes
  <2>3. ASSUME NEW i \in 1 .. n PROVE la[i] = lb[i]
    <3>1. A[1][i] = B[1][i] BY <1>7, <1>11, <2>1, <2>2, SameNodes
    <3>2. A[1][i] = <<la[i]>> /\ B[1][i] = <<lb[i]>> BY <1>11, <2>2, <1>a, <1>b DEF Nodes
    <3>3. <<la[i]>> = <<lb[i]>> BY <3>1, <3>2
    <3> QED BY <3>3
  <2> QED BY <2>2, <2>3
<1>18. ca = cb
  <2>a. \A i \in 1 .. n : la[i] = IF i <= ca THEN a[i] ELSE a[ca] BY <1>3, <1>12
  <2>b. \A i \in 1 .. n : lb[i] = IF i <= cb THEN b[i] ELSE b[cb] BY <1>4, <1>13, <1>17
  <2>1. n - 1 \in 1 .. n /\ n \in 1 .. n /\ n - 1 # n /\ n - 1 <= n /\ n <= n /\ ~(n <= n - 1)
    BY <1>3
  <2>2. la[n] = lb[n] /\ la[n - 1] = lb[n - 1] BY <1>17, <2>1
  <2>3. CASE ca = n - 1 /\ cb = n
    <3>1. la[n] = a[n - 1] /\ la[n - 1] = a[n - 1] BY <2>a, <2>1, <2>3
    <3>2. lb[n] = b[n] /\ lb[n - 1] = b[n - 1] BY <2>b, <2>1, <2>3
    <3>3. b[n] = b[n - 1] BY <2>2, <3>1, <3>2
    <3> QED BY <1>13, <2>1, <2>3, <3>3 DEF IsInjective
  <2>4. CASE ca = n /\ cb = n - 1
    <3>1. la[n] = a[n] /\ la[n - 1] = a[n - 1] BY <2>a, <2>1, <2>4
    <3>2. lb[n] = b[n - 1] /\ lb[n - 1] = b[n - 1] BY <2>b, <2>1, <2>4
    <3>3. a[n] = a[n - 1] BY <2>2, <3>1, <3>2
    <3> QED BY <1>12, <2>1, <2>4, <3>3 DEF IsInjective
  <2> QED BY <1>12, <1>13, <1>17, <2>3, <2>4
<1>19. ASSUME NEW i \in 1 .. Len(a) PROVE a[i] = b[i]
  <2>1. i \in 1 .. n /\ i <= Len(a) /\ i <= Len(b) /\ i \in 1 .. m BY <1>12, <1>13, <1>17, <1>18
  <2>2. la[i] = a[i] /\ lb[i] = b[i] BY <1>3, <1>4, <2>1
  <2> QED BY <1>17, <2>1, <2>2
<1> QED BY <1>12, <1>13, <1>18, <1>19, SeqEqual

-----------------------------------------------------------------------------
(* The reference: halving a list of a power of two. *)

HalfStep(half, p) ==
  IF Len(p) < 2 THEN LeafHash(p[1])
  ELSE NodeHash(half[SubSeq(p, 1, Len(p) \div 2)], half[SubSeq(p, Len(p) \div 2 + 1, Len(p))])
HalfDom(S)     == Seq(S)
HalfRank(S, p) == Len(p)
HalfDef(S, half, p) == HalfStep(half, p)
HalfRec == INSTANCE Recursion WITH Dom <- HalfDom, Rank <- HalfRank, Def <- HalfDef

\* z elements of s after the first o.
Block(s, o, z) == SubSeq(s, o + 1, o + z)

LEMMA BlockFacts ==
  ASSUME NEW S, NEW s \in Seq(S), NEW o \in Nat, NEW z \in Nat, o + z <= Len(s)
  PROVE  /\ Block(s, o, z) \in Seq(S) /\ Len(Block(s, o, z)) = z
         /\ \A j \in 1 .. z : Block(s, o, z)[j] = s[o + j]
<1>1. PICK n \in Nat : n = Len(s) OBVIOUS
<1>2. PICK a \in Nat, b \in Nat : a = o + 1 /\ b = o + z /\ a > 0 /\ b <= n BY <1>1
<1>3. \A i \in a .. b : s[i] \in S BY <1>1, <1>2
<1>4. SubSeq(s, a, b) = [i \in 1 .. b - a + 1 |-> s[i + a - 1]] BY <1>2
<1>5. b - a + 1 = z BY <1>2
<1>6. SubSeq(s, a, b) = [i \in 1 .. z |-> s[i + a - 1]] BY <1>4, <1>5
<1>7. \A i \in 1 .. z : i + a - 1 = o + i /\ o + i \in 1 .. n BY <1>1, <1>2
<1>8. SubSeq(s, a, b) = [i \in 1 .. z |-> s[o + i]] BY <1>6, <1>7
<1>9. \A i \in 1 .. z : s[o + i] \in S BY <1>1, <1>7
<1>10. PICK t : t = [i \in 1 .. z |-> s[o + i]] OBVIOUS
<1>11. t \in Seq(S) /\ Len(t) = z /\ \A i \in 1 .. z : t[i] = s[o + i] BY <1>9, <1>10
<1> QED BY <1>2, <1>8, <1>10, <1>11 DEF Block

Within(s, o, z) == o \in Nat /\ z \in Nat /\ o + z <= Len(s)

IsBlock(S, b, s, o, z) == b \in Seq(S) /\ Len(b) = z /\ \A j \in 1 .. z : b[j] = s[o + j]

LEMMA BlockIn ==
  ASSUME NEW S, NEW s \in Seq(S), NEW o, NEW z, Within(s, o, z)
  PROVE  IsBlock(S, Block(s, o, z), s, o, z)
<1>1. o \in Nat /\ z \in Nat /\ o + z <= Len(s) BY DEF Within
<1> QED BY <1>1, BlockFacts DEF IsBlock

\* Both halves of a list are shorter lists.
LEMMA HalvesOf ==
  ASSUME NEW S, NEW p \in Seq(S), ~(Len(p) < 2)
  PROVE  /\ SubSeq(p, 1, Len(p) \div 2) \in Seq(S) /\ Len(SubSeq(p, 1, Len(p) \div 2)) < Len(p)
         /\ SubSeq(p, Len(p) \div 2 + 1, Len(p)) \in Seq(S)
         /\ Len(SubSeq(p, Len(p) \div 2 + 1, Len(p))) < Len(p)
<1>1. PICK n \in Nat : n = Len(p) /\ n > 1 OBVIOUS
<1>2. PICK h \in Nat : h = n \div 2 /\ h > 0 /\ h < n BY <1>1
<1>3. SubSeq(p, 1, h) \in Seq(S) /\ Len(SubSeq(p, 1, h)) = h BY <1>1, <1>2
<1>4. SubSeq(p, h + 1, n) \in Seq(S) /\ Len(SubSeq(p, h + 1, n)) = n - h
  <2>1. PICK d \in Nat : d = n - h /\ h + d = n BY <1>1, <1>2
  <2>2. h + d <= Len(p) BY <1>1, <2>1
  <2>a. PICK b : b = Block(p, h, d) OBVIOUS
  <2>b. Within(p, h, d) BY <2>2 DEF Within
  <2>c. IsBlock(S, b, p, h, d) BY <2>a, <2>b, BlockIn
  <2>3. Block(p, h, d) \in Seq(S) /\ Len(Block(p, h, d)) = d BY <2>a, <2>c DEF IsBlock
  <2> QED BY <2>1, <2>3 DEF Block
<1> QED BY <1>1, <1>2, <1>3, <1>4

LEMMA HalfValue ==
  ASSUME NEW S, NEW p \in Seq(S)
  PROVE  Halved(S, p) =
           IF Len(p) < 2 THEN LeafHash(p[1])
           ELSE NodeHash(Halved(S, SubSeq(p, 1, Len(p) \div 2)),
                         Halved(S, SubSeq(p, Len(p) \div 2 + 1, Len(p))))
<1>1. HalfRec!Ranked(S) BY DEF HalfRec!Ranked, HalfDom, HalfRank
<1>2. HalfRec!LooksDown(S)
  <2> SUFFICES ASSUME NEW f, NEW g, NEW q \in Seq(S),
                      \A r \in Seq(S) : Len(r) < Len(q) => f[r] = g[r]
               PROVE  HalfStep(f, q) = HalfStep(g, q)
    BY DEF HalfRec!LooksDown, HalfDom, HalfRank, HalfDef
  <2>1. CASE Len(q) < 2 BY <2>1 DEF HalfStep
  <2>2. CASE ~(Len(q) < 2)
    <3>1. PICK u \in Seq(S) : u = SubSeq(q, 1, Len(q) \div 2) /\ Len(u) < Len(q)
      BY <2>2, HalvesOf
    <3>2. PICK v \in Seq(S) : v = SubSeq(q, Len(q) \div 2 + 1, Len(q)) /\ Len(v) < Len(q)
      BY <2>2, HalvesOf
    <3>3. f[u] = g[u] /\ f[v] = g[v] BY <3>1, <3>2
    <3> QED BY <2>2, <3>1, <3>2, <3>3 DEF HalfStep
  <2> QED BY <2>1, <2>2
<1>3. \E half : half = [q \in HalfDom(S) |-> HalfDef(S, half, q)]
  BY <1>1, <1>2, HalfRec!FunctionExists
<1>4. \E half : half = [q \in Seq(S) |-> HalfStep(half, q)] BY <1>3 DEF HalfDom, HalfDef
<1> DEFINE Twin == CHOOSE half : half = [q \in Seq(S) |-> HalfStep(half, q)]
<1>5. \A q : Halved(S, q) = Twin[q] BY DEF Halved, HalfStep
<1>6. Twin = [q \in Seq(S) |-> HalfStep(Twin, q)] BY <1>4, Zenon
<1> HIDE DEF Twin
<1>7. Twin[p] = HalfStep(Twin, p) BY <1>6
<1>8. CASE Len(p) < 2 BY <1>5, <1>7, <1>8 DEF HalfStep
<1>9. CASE ~(Len(p) < 2)
  <2>1. Twin[p] = NodeHash(Twin[SubSeq(p, 1, Len(p) \div 2)], Twin[SubSeq(p, Len(p) \div 2 + 1, Len(p))])
    BY <1>7, <1>9 DEF HalfStep
  <2> QED BY <1>5, <1>9, <2>1
<1> QED BY <1>8, <1>9

\* A block of an even size halves into two blocks.
LEMMA HalveBlock ==
  ASSUME NEW S, NEW s \in Seq(S), NEW o \in Nat, NEW z \in Nat \ {0}, o + 2 * z <= Len(s)
  PROVE  Halved(S, Block(s, o, 2 * z)) =
           NodeHash(Halved(S, Block(s, o, z)), Halved(S, Block(s, o + z, z)))
<1>1. PICK y \in Nat : y = 2 * z /\ y > 1 /\ y \div 2 = z /\ z <= y OBVIOUS
<1>2. PICK m \in Nat : m = o + z OBVIOUS
<1>3. PICK p \in Seq(S) : p = Block(s, o, y) /\ Len(p) = y /\ \A j \in 1 .. y : p[j] = s[o + j]
  <2>1. PICK p : p = Block(s, o, y) OBVIOUS
  <2>2. Within(s, o, y) BY <1>1 DEF Within
  <2>3. IsBlock(S, p, s, o, y) BY <2>1, <2>2, BlockIn
  <2> QED BY <2>1, <2>3 DEF IsBlock
<1>4. PICK u \in Seq(S) : u = Block(s, o, z) /\ Len(u) = z /\ \A j \in 1 .. z : u[j] = s[o + j]
  <2>1. PICK u : u = Block(s, o, z) OBVIOUS
  <2>2. Within(s, o, z) BY <1>1 DEF Within
  <2>3. IsBlock(S, u, s, o, z) BY <2>1, <2>2, BlockIn
  <2> QED BY <2>1, <2>3 DEF IsBlock
<1>5. PICK v \in Seq(S) : v = Block(s, m, z) /\ Len(v) = z /\ \A j \in 1 .. z : v[j] = s[m + j]
  <2>1. PICK v : v = Block(s, m, z) OBVIOUS
  <2>2. Within(s, m, z) BY <1>1, <1>2 DEF Within
  <2>3. IsBlock(S, v, s, m, z) BY <2>1, <2>2, BlockIn
  <2> QED BY <2>1, <2>3 DEF IsBlock
<1>6. PICK f \in Seq(S) : f = Block(p, 0, z) /\ Len(f) = z /\ \A j \in 1 .. z : f[j] = p[0 + j]
  <2>1. PICK f : f = Block(p, 0, z) OBVIOUS
  <2>2. Within(p, 0, z) BY <1>1, <1>3 DEF Within
  <2>3. IsBlock(S, f, p, 0, z) BY <2>1, <2>2, BlockIn
  <2> QED BY <2>1, <2>3 DEF IsBlock
<1>7. PICK g \in Seq(S) : g = Block(p, z, z) /\ Len(g) = z /\ \A j \in 1 .. z : g[j] = p[z + j]
  <2>1. PICK g : g = Block(p, z, z) OBVIOUS
  <2>2. Within(p, z, z) BY <1>1, <1>3 DEF Within
  <2>3. IsBlock(S, g, p, z, z) BY <2>1, <2>2, BlockIn
  <2> QED BY <2>1, <2>3 DEF IsBlock
<1>8. f = u
  <2>1. ASSUME NEW j \in 1 .. z PROVE f[j] = u[j]
    <3>1. f[j] = p[j] /\ u[j] = s[o + j] BY <1>4, <1>6
    <3>2. j \in 1 .. y BY <1>1
    <3> QED BY <1>3, <3>1, <3>2
  <2> QED BY <1>4, <1>6, <2>1, SeqEqual
<1>9. g = v
  <2>1. ASSUME NEW j \in 1 .. z PROVE g[j] = v[j]
    <3>1. g[j] = p[z + j] /\ v[j] = s[m + j] BY <1>5, <1>7
    <3>2. z + j \in 1 .. y /\ o + (z + j) = m + j BY <1>1, <1>2
    <3>3. p[z + j] = s[o + (z + j)] BY <1>3, <3>2
    <3> QED BY <3>1, <3>2, <3>3
  <2> QED BY <1>5, <1>7, <2>1, SeqEqual
<1>10. SubSeq(p, 1, Len(p) \div 2) = f
  <2>1. 0 + 1 = 1 /\ 0 + z = z OBVIOUS
  <2> QED BY <1>1, <1>3, <1>6, <2>1 DEF Block
<1>11. SubSeq(p, Len(p) \div 2 + 1, Len(p)) = g
  <2>1. z + z = y BY <1>1
  <2> QED BY <1>1, <1>3, <1>7, <2>1 DEF Block
<1>12. ~(Len(p) < 2) BY <1>1, <1>3
<1>13. Halved(S, p) = NodeHash(Halved(S, f), Halved(S, g)) BY <1>10, <1>11, <1>12, HalfValue
<1> QED BY <1>1, <1>2, <1>3, <1>4, <1>5, <1>8, <1>9, <1>13

LEMMA HalveOne ==
  ASSUME NEW S, NEW s \in Seq(S), NEW o \in Nat, o + 1 <= Len(s)
  PROVE  Halved(S, Block(s, o, 1)) = LeafHash(s[o + 1])
<1>1. PICK z \in Nat : z = 1 OBVIOUS
<1>2. o + z <= Len(s) BY <1>1
<1>3. PICK p \in Seq(S) : p = Block(s, o, z) /\ Len(p) = z /\ \A j \in 1 .. z : p[j] = s[o + j]
  <2>1. PICK p : p = Block(s, o, z) OBVIOUS
  <2>2. Within(s, o, z) BY <1>2 DEF Within
  <2>3. IsBlock(S, p, s, o, z) BY <2>1, <2>2, BlockIn
  <2> QED BY <2>1, <2>3 DEF IsBlock
<1>4. Len(p) < 2 /\ 1 \in 1 .. z
  <2>1. Len(p) = 1 BY <1>1, <1>3
  <2>2. 1 \in 1 .. z BY <1>1
  <2> QED BY <2>1, <2>2
<1>5. p[1] = s[o + 1] BY <1>3, <1>4
<1>6. Halved(S, p) = LeafHash(p[1]) BY <1>4, HalfValue
<1> QED BY <1>1, <1>3, <1>5, <1>6

-----------------------------------------------------------------------------
(* The reference: filling a list up. *)

ScaleDom(p)     == Nat
ScaleRank(p, k) == k
ScaleStep(p, scale, k) == IF k = 0 THEN 1 ELSE 2 * scale[k - 1]
ScaleRec == INSTANCE Recursion WITH Dom <- ScaleDom, Rank <- ScaleRank, Def <- ScaleStep

LEMMA ScaleValue ==
  Scale[0] = 1 /\ \A k \in Nat : Scale[k + 1] = 2 * Scale[k]
<1>1. ScaleRec!Ranked(0) BY DEF ScaleRec!Ranked, ScaleDom, ScaleRank
<1>2. ScaleRec!LooksDown(0)
  <2> SUFFICES ASSUME NEW f, NEW g, NEW k \in Nat, \A j \in Nat : j < k => f[j] = g[j]
               PROVE  ScaleStep(0, f, k) = ScaleStep(0, g, k)
    BY DEF ScaleRec!LooksDown, ScaleDom, ScaleRank
  <2>1. CASE k = 0 BY <2>1 DEF ScaleStep
  <2>2. CASE k # 0
    <3>1. k - 1 \in Nat /\ k - 1 < k BY <2>2
    <3> QED BY <2>2, <3>1 DEF ScaleStep
  <2> QED BY <2>1, <2>2
<1>3. \E scale : scale = [k \in Nat |-> ScaleStep(0, scale, k)]
  BY <1>1, <1>2, ScaleRec!FunctionExists DEF ScaleDom
<1> DEFINE Twin == CHOOSE scale : scale = [k \in Nat |-> ScaleStep(0, scale, k)]
<1>4. Scale = Twin BY DEF Scale, ScaleStep
<1>5. Twin = [k \in Nat |-> ScaleStep(0, Twin, k)] BY <1>3, Zenon
<1> HIDE DEF Twin
<1>6. Scale = [k \in Nat |-> ScaleStep(0, Scale, k)] BY <1>4, <1>5
<1>7. Scale[0] = 1 BY <1>6 DEF ScaleStep
<1>8. ASSUME NEW k \in Nat PROVE Scale[k + 1] = 2 * Scale[k]
  <2>1. k + 1 \in Nat /\ k + 1 # 0 /\ (k + 1) - 1 = k OBVIOUS
  <2>2. Scale[k + 1] = ScaleStep(0, Scale, k + 1) BY <1>6, <2>1
  <2> QED BY <2>1, <2>2 DEF ScaleStep
<1> QED BY <1>7, <1>8

LEMMA ScaleNat == \A k \in Nat : Scale[k] \in Nat \ {0}
<1> DEFINE Good(k) == Scale[k] \in Nat \ {0}
           T == {k \in Nat : ~Good(k)}
<1>1. SUFFICES ASSUME T # {} PROVE FALSE OBVIOUS
<1>2. PICK k \in T : \A j \in T : k <= j
  <2> HIDE DEF T
  <2>1. T \in SUBSET Nat BY DEF T
  <2> QED BY <1>1, <2>1, HeightRec!LeastNumber
<1>3. k \in Nat /\ ~Good(k) OBVIOUS
<1>4. k # 0 BY <1>3, ScaleValue
<1>5. PICK j \in Nat : k = j + 1 BY <1>3, <1>4
<1>6. j \notin T BY <1>2, <1>5
<1>7. Scale[j] \in Nat \ {0} BY <1>6
<1>8. Scale[k] = 2 * Scale[j] BY <1>5, ScaleValue
<1> QED BY <1>3, <1>7, <1>8

LEMMA ScaleGrows ==
  ASSUME NEW h \in Nat
  PROVE  \A d \in Nat : Scale[h] <= Scale[h + d]
<1> DEFINE Good(d) == Scale[h] <= Scale[h + d]
           T == {d \in Nat : ~Good(d)}
<1>1. SUFFICES ASSUME T # {} PROVE FALSE OBVIOUS
<1>2. PICK d \in T : \A j \in T : d <= j
  <2> HIDE DEF T
  <2>1. T \in SUBSET Nat BY DEF T
  <2> QED BY <1>1, <2>1, HeightRec!LeastNumber
<1>3. d \in Nat /\ ~Good(d) OBVIOUS
<1>4. PICK a \in Nat \ {0} : a = Scale[h] BY ScaleNat
<1>5. d # 0
  <2>1. h + 0 = h OBVIOUS
  <2> QED BY <1>3, <1>4, <2>1
<1>6. PICK j \in Nat : d = j + 1 BY <1>3, <1>5
<1>7. j \notin T BY <1>2, <1>6
<1>8. a <= Scale[h + j] BY <1>4, <1>7
<1>9. PICK b \in Nat \ {0} : b = Scale[h + j] BY ScaleNat
<1>10. Scale[(h + j) + 1] = 2 * b BY <1>9, ScaleValue
<1>11. h + d = (h + j) + 1 BY <1>6
<1> QED BY <1>3, <1>4, <1>8, <1>9, <1>10, <1>11

\* Blocks, counted.
LEMMA Counted ==
  ASSUME NEW w \in Nat, NEW z \in Nat \ {0}
  PROVE  /\ w * z \in Nat /\ (w * z) \div z = w /\ (w > 1 => w * z > z)
         /\ (w + 1) * z = w * z + z
OBVIOUS

LEMMA CountedInside ==
  ASSUME NEW w \in Nat, NEW z \in Nat \ {0}, NEW i \in 1 .. w
  PROVE  (i - 1) * z \in Nat /\ (i - 1) * z + z <= w * z
<1>1. PICK d \in Nat : w = i + d OBVIOUS
<1>2. w * z = (i - 1) * z + z + d * z BY <1>1
<1>3. d * z \in Nat /\ (i - 1) * z \in Nat OBVIOUS
<1> QED BY <1>2, <1>3

LEMMA CountedTwice ==
  ASSUME NEW z \in Nat \ {0}, NEW i \in Nat \ {0}
  PROVE  /\ (i - 1) * (2 * z) = ((2 * i - 1) - 1) * z
         /\ (i - 1) * (2 * z) + z = (2 * i - 1) * z
         /\ i * (2 * z) = (2 * i) * z
OBVIOUS

-----------------------------------------------------------------------------
(* The reference is the root. *)

\* s has x elements, the last z of them after the first y.
Ends(s, x, y, z) == x \in Nat /\ x = Len(s) /\ y \in Nat /\ z \in Nat /\ y + z = x

LongerBy(S, t, s, x, y, z) ==
  /\ t \in Seq(S) /\ Len(t) = x + z
  /\ \A o \in Nat : o + z <= x => Block(t, o, z) = Block(s, o, z)
  /\ Block(t, x, z) = Block(s, y, z)

LEMMA Appended ==
  ASSUME NEW S, NEW s \in Seq(S), NEW x, NEW y, NEW z, Ends(s, x, y, z),
         NEW t, t = s \o Block(s, y, z)
  PROVE  LongerBy(S, t, s, x, y, z)
<1>b. x \in Nat /\ x = Len(s) /\ y \in Nat /\ z \in Nat /\ y + z = x BY DEF Ends
<1>a. PICK b : b = Block(s, y, z) OBVIOUS
<1>1. b \in Seq(S) /\ Len(b) = z /\ \A j \in 1 .. z : b[j] = s[y + j]
  <2>1. Within(s, y, z) BY <1>b DEF Within
  <2>2. IsBlock(S, b, s, y, z) BY <1>a, <2>1, BlockIn
  <2> QED BY <2>2 DEF IsBlock
<1>2. t = s \o b BY <1>a
<1>3. t \in Seq(S) /\ Len(t) = x + z BY <1>b, <1>1, <1>2, ConcatProperties
<1>4. \A i \in 1 .. x : t[i] = s[i] BY <1>b, <1>1, <1>2
<1>5. \A j \in 1 .. z : t[x + j] = b[j] BY <1>b, <1>1, <1>2
<1>6. ASSUME NEW o \in Nat, o + z <= x PROVE Block(t, o, z) = Block(s, o, z)
  <2>1. Within(t, o, z) BY <1>b, <1>3, <1>6 DEF Within
  <2>a. Within(s, o, z) BY <1>b, <1>6 DEF Within
  <2>2. PICK f, g : f = Block(t, o, z) /\ g = Block(s, o, z) OBVIOUS
  <2>3. f \in Seq(S) /\ Len(f) = z /\ \A j \in 1 .. z : f[j] = t[o + j]
    <3>1. IsBlock(S, f, t, o, z) BY <1>3, <2>1, <2>2, BlockIn
    <3> QED BY <3>1 DEF IsBlock
  <2>4. g \in Seq(S) /\ Len(g) = z /\ \A j \in 1 .. z : g[j] = s[o + j]
    <3>1. IsBlock(S, g, s, o, z) BY <2>a, <2>2, BlockIn
    <3> QED BY <3>1 DEF IsBlock
  <2>5. ASSUME NEW j \in 1 .. z PROVE f[j] = g[j]
    <3>1. o + j \in 1 .. x BY <1>b, <1>6
    <3> QED BY <1>4, <2>3, <2>4, <3>1
  <2>6. f = g BY <2>3, <2>4, <2>5, SeqEqual
  <2> QED BY <2>2, <2>6
<1>7. Block(t, x, z) = b
  <2>1. Within(t, x, z) BY <1>b, <1>3 DEF Within
  <2>2. PICK f : f = Block(t, x, z) OBVIOUS
  <2>3. f \in Seq(S) /\ Len(f) = z /\ \A j \in 1 .. z : f[j] = t[x + j]
    <3>1. IsBlock(S, f, t, x, z) BY <1>3, <2>1, <2>2, BlockIn
    <3> QED BY <3>1 DEF IsBlock
  <2>4. ASSUME NEW j \in 1 .. z PROVE f[j] = b[j] BY <1>5, <2>3
  <2>5. f = b BY <1>1, <2>3, <2>4, SeqEqual
  <2> QED BY <2>2, <2>5
<1> QED BY <1>a, <1>2, <1>3, <1>6, <1>7 DEF LongerBy

\* Filling up w blocks makes pairs of them, the last one twice if it is left over.
Counts(s, k, w, z) ==
  k \in Nat \ {0} /\ w \in Nat /\ w > 1 /\ z \in Nat \ {0} /\ z = Scale[k] /\ Len(s) = w * z

FilledUp(S, t, s, w, z) ==
  /\ t \in Seq(S)
  /\ Len(t) = IF w % 2 = 1 THEN w * z + z ELSE w * z
  /\ \A j \in 1 .. w : Block(t, (j - 1) * z, z) = Block(s, (j - 1) * z, z)
  /\ w % 2 = 1 => Block(t, w * z, z) = Block(s, (w - 1) * z, z)

LEMMA FillBlocks ==
  ASSUME NEW S, NEW s \in Seq(S), NEW k, NEW w, NEW z, Counts(s, k, w, z)
  PROVE  FilledUp(S, Fill(s, k), s, w, z)
<1>a. k \in Nat \ {0} /\ w \in Nat /\ w > 1 /\ z \in Nat \ {0} /\ z = Scale[k] BY DEF Counts
<1>1. PICK x \in Nat : x = w * z /\ x = Len(s) BY <1>a, Counted DEF Counts
<1>2. x \div z = w /\ x > z BY <1>a, <1>1, Counted
<1>3. PICK t : t = Fill(s, k) OBVIOUS
<1>4. t = IF w % 2 = 1 THEN s \o SubSeq(s, x - z + 1, x) ELSE s
  BY <1>a, <1>1, <1>2, <1>3 DEF Fill
<1>5. CASE w % 2 = 1
  <2>1. PICK y \in Nat : y = x - z /\ y + z = x
    <3>1. x - z \in Nat /\ (x - z) + z = x BY <1>a, <1>2
    <3> QED BY <3>1
  <2>2. t = s \o Block(s, y, z) BY <1>4, <1>5, <2>1 DEF Block
  <2>3. /\ t \in Seq(S) /\ Len(t) = x + z
        /\ \A o \in Nat : o + z <= x => Block(t, o, z) = Block(s, o, z)
        /\ Block(t, x, z) = Block(s, y, z)
    <3>1. Ends(s, x, y, z) BY <1>a, <1>1, <2>1 DEF Ends
    <3>2. LongerBy(S, t, s, x, y, z) BY <2>2, <3>1, Appended
    <3> QED BY <3>2 DEF LongerBy
  <2>4. ASSUME NEW j \in 1 .. w PROVE Block(t, (j - 1) * z, z) = Block(s, (j - 1) * z, z)
    <3>1. PICK o \in Nat : o = (j - 1) * z /\ o + z <= x BY <1>a, <1>1, CountedInside
    <3> QED BY <2>3, <3>1
  <2>5. y = (w - 1) * z
    <3>1. PICK u \in Nat : w = u + 1 /\ u = w - 1 BY <1>a
    <3>2. (u + 1) * z = u * z + z BY <1>a, Counted
    <3>3. u * z \in Nat BY <1>a, Counted
    <3>4. x = u * z + z
      <4>1. w * z = (u + 1) * z BY <3>1
      <4>2. x = w * z BY <1>1
      <4> QED BY <3>2, <4>1, <4>2
    <3>5. y = u * z BY <1>a, <2>1, <3>3, <3>4
    <3> QED BY <3>1, <3>5
  <2> QED BY <1>1, <1>3, <1>5, <2>3, <2>4, <2>5 DEF FilledUp
<1>6. CASE w % 2 # 1
  <2>1. t = s BY <1>4, <1>6
  <2> QED BY <1>1, <1>3, <1>6, <2>1 DEF FilledUp
<1> QED BY <1>5, <1>6

LEMMA PairsOdd ==
  ASSUME NEW w \in Nat
  PROVE  /\ w % 2 = 1 => 2 * ((w + 1) \div 2) = w + 1
         /\ w % 2 # 1 => 2 * ((w + 1) \div 2) = w
OBVIOUS

\* Halving what was filled up: block by block the parents of the blocks before.
Doubled(S, t, s, w, z, v, y) ==
  /\ t \in Seq(S) /\ Len(t) = v * y
  /\ \A i \in 1 .. v :
       Halved(S, Block(t, (i - 1) * y, y)) =
         NodeHash(Halved(S, Block(s, ((2 * i - 1) - 1) * z, z)),
                  Halved(S, Block(s, ((IF 2 * i > w THEN 2 * i - 1 ELSE 2 * i) - 1) * z, z)))

LEMMA FillDoubles ==
  ASSUME NEW S, NEW s \in Seq(S), NEW k, NEW w \in Nat, NEW z \in Nat \ {0}, Counts(s, k, w, z),
         NEW v \in Nat, v = (w + 1) \div 2, NEW y \in Nat \ {0}, y = 2 * z
  PROVE  Doubled(S, Fill(s, k), s, w, z, v, y)
<1>b. w > 1 BY DEF Counts
<1>a. PICK t : t = Fill(s, k) OBVIOUS
<1>1. FilledUp(S, t, s, w, z) BY <1>a, FillBlocks
<1>2. /\ t \in Seq(S) /\ Len(t) = IF w % 2 = 1 THEN w * z + z ELSE w * z
      /\ \A j \in 1 .. w : Block(t, (j - 1) * z, z) = Block(s, (j - 1) * z, z)
      /\ w % 2 = 1 => Block(t, w * z, z) = Block(s, (w - 1) * z, z)
  BY <1>1 DEF FilledUp
<1>3. Len(t) = v * y
  <2>1. v > 0 BY <1>b
  <2>2. v * (2 * z) = (2 * v) * z BY <2>1, CountedTwice
  <2>3. CASE w % 2 = 1
    <3>1. 2 * v = w + 1 BY <2>3, PairsOdd
    <3>2. (w + 1) * z = w * z + z BY Counted
    <3> QED BY <1>2, <2>2, <2>3, <3>1, <3>2
  <2>4. CASE w % 2 # 1
    <3>1. 2 * v = w BY <2>4, PairsOdd
    <3> QED BY <1>2, <2>2, <2>4, <3>1
  <2> QED BY <2>3, <2>4
<1>4. ASSUME NEW i \in 1 .. v
      PROVE  Halved(S, Block(t, (i - 1) * y, y)) =
                NodeHash(Halved(S, Block(s, ((2 * i - 1) - 1) * z, z)),
                         Halved(S, Block(s, ((IF 2 * i > w THEN 2 * i - 1 ELSE 2 * i) - 1) * z, z)))
  <2>1. PICK o \in Nat : o = (i - 1) * y /\ o + y <= Len(t) BY <1>3, CountedInside
  <2>2. PICK a \in 1 .. w : a = 2 * i - 1 OBVIOUS
  <2>3. o = (a - 1) * z /\ o + z = a * z
    <3>1. i \in Nat \ {0} OBVIOUS
    <3>2. (i - 1) * (2 * z) = ((2 * i - 1) - 1) * z /\ (i - 1) * (2 * z) + z = (2 * i - 1) * z
      BY <3>1, CountedTwice
    <3> QED BY <2>1, <2>2, <3>2
  <2>4. Halved(S, Block(t, o, 2 * z)) = NodeHash(Halved(S, Block(t, o, z)), Halved(S, Block(t, o + z, z)))
    <3>1. o + 2 * z <= Len(t) /\ t \in Seq(S) BY <1>2, <2>1
    <3> QED BY <3>1, HalveBlock
  <2>5. Block(t, o, z) = Block(s, (a - 1) * z, z) BY <1>2, <2>3
  <2>6. PICK b \in 1 .. w : b = IF 2 * i > w THEN 2 * i - 1 ELSE 2 * i BY <2>2
  <2>7. Block(t, o + z, z) = Block(s, (b - 1) * z, z)
    <3>1. CASE 2 * i > w
      <4>1. b = w /\ a = w /\ w % 2 = 1 BY <2>2, <2>6, <3>1
      <4> QED BY <1>2, <2>3, <4>1
    <3>2. CASE ~(2 * i > w)
      <4>1. b - 1 = a BY <2>2, <2>6, <3>2
      <4>2. Block(t, (b - 1) * z, z) = Block(s, (b - 1) * z, z) BY <1>2
      <4> QED BY <2>3, <4>1, <4>2
    <3> QED BY <3>1, <3>2
  <2>8. Halved(S, Block(t, o, y)) =
          NodeHash(Halved(S, Block(s, (a - 1) * z, z)), Halved(S, Block(s, (b - 1) * z, z)))
    BY <2>4, <2>5, <2>7
  <2> QED BY <2>1, <2>2, <2>6, <2>8
<1> QED BY <1>a, <1>2, <1>3, <1>4 DEF Doubled

FillStep(cs, fill, k) == IF k = 0 THEN cs ELSE Fill(fill[k - 1], k - 1)
FillDom(cs)     == 0 .. Len(cs)
FillRank(cs, k) == k
FillRec == INSTANCE Recursion WITH Dom <- FillDom, Rank <- FillRank, Def <- FillStep

\* The stages of filling a list up.
LEMMA FilledValue ==
  ASSUME NEW S, NEW cs \in Seq(S)
  PROVE  \E F : /\ Filled(cs) = F[Len(cs)] /\ F[0] = cs
                /\ \A k \in 1 .. Len(cs) : F[k] = Fill(F[k - 1], k - 1)
<1>1. PICK n \in Nat : n = Len(cs) OBVIOUS
<1>2. FillRec!Ranked(cs) BY <1>1 DEF FillRec!Ranked, FillDom, FillRank
<1>3. FillRec!LooksDown(cs)
  <2> SUFFICES ASSUME NEW f, NEW g, NEW k \in 0 .. n, \A j \in 0 .. n : j < k => f[j] = g[j]
               PROVE  FillStep(cs, f, k) = FillStep(cs, g, k)
    BY <1>1 DEF FillRec!LooksDown, FillDom, FillRank
  <2>1. CASE k = 0 BY <2>1 DEF FillStep
  <2>2. CASE k # 0
    <3>1. k - 1 \in 0 .. n /\ k - 1 < k BY <2>2
    <3> QED BY <2>2, <3>1 DEF FillStep
  <2> QED BY <2>1, <2>2
<1>4. \E fill : fill = [k \in 0 .. Len(cs) |-> FillStep(cs, fill, k)]
  BY <1>2, <1>3, FillRec!FunctionExists DEF FillDom
<1> DEFINE Twin == CHOOSE fill : fill = [k \in 0 .. Len(cs) |-> FillStep(cs, fill, k)]
<1>5. Filled(cs) = Twin[Len(cs)] BY DEF Filled, FillStep
<1>6. Twin = [k \in 0 .. Len(cs) |-> FillStep(cs, Twin, k)] BY <1>4, Zenon
<1> HIDE DEF Twin
<1>7. Twin[0] = cs
  <2>1. 0 \in 0 .. Len(cs) BY <1>1
  <2>2. Twin[0] = FillStep(cs, Twin, 0) BY <1>6, <2>1
  <2> QED BY <2>2 DEF FillStep
<1>8. ASSUME NEW k \in 1 .. Len(cs) PROVE Twin[k] = Fill(Twin[k - 1], k - 1)
  <2>1. k \in 0 .. Len(cs) /\ k # 0 BY <1>1
  <2>2. Twin[k] = FillStep(cs, Twin, k) BY <1>6, <2>1
  <2> QED BY <2>1, <2>2 DEF FillStep
<1> QED BY <1>5, <1>7, <1>8

\* Filling up single elements is what Leafs does.
LEMMA FillFirst ==
  ASSUME NEW S, NEW cs \in Seq(S), cs # <<>>
  PROVE  Fill(cs, 0) = Leafs(cs)
<1>1. PICK c \in Nat : c = Len(cs) /\ c > 0 OBVIOUS
<1>2. Scale[0] = 1 /\ c \div 1 = c BY ScaleValue
<1>3. CASE c % 2 = 1
  <2>1. Fill(cs, 0) = cs \o SubSeq(cs, c - 1 + 1, c) BY <1>1, <1>2, <1>3 DEF Fill
  <2>2. c - 1 + 1 = c OBVIOUS
  <2>3. SubSeq(cs, c, c) = <<cs[c]>>
    <3>1. PICK p \in Seq(S) : p = SubSeq(cs, c, c) /\ Len(p) = 1 /\ p[1] = cs[c]
      <4>1. PICK o \in Nat : o + 1 = c BY <1>1
      <4>2. PICK z \in Nat : z = 1 OBVIOUS
      <4>3. o + z <= Len(cs) BY <1>1, <4>1, <4>2
      <4>4. PICK b : b = Block(cs, o, z) OBVIOUS
      <4>5. Within(cs, o, z) BY <4>3 DEF Within
      <4>6. IsBlock(S, b, cs, o, z) BY <4>4, <4>5, BlockIn
      <4>7. b = SubSeq(cs, c, c) BY <4>1, <4>2, <4>4 DEF Block
      <4>8. b[1] = cs[c]
        <5>1. 1 \in 1 .. z BY <4>2
        <5> QED BY <4>1, <4>6, <5>1 DEF IsBlock
      <4>9. b \in Seq(S) /\ Len(b) = 1 BY <4>2, <4>6 DEF IsBlock
      <4> QED BY <4>7, <4>8, <4>9
    <3>2. PICK x \in S : x = cs[c] BY <1>1
    <3>3. PICK q : q = <<x>> OBVIOUS
    <3>a. q \in Seq(S) /\ Len(q) = 1 /\ q[1] = x BY <3>3
    <3>b. \A i \in 1 .. Len(p) : p[i] = q[i] BY <3>1, <3>2, <3>a
    <3>4. p = q BY <3>1, <3>a, <3>b, SeqEqual
    <3> QED BY <3>1, <3>2, <3>3, <3>4
  <2>4. Leafs(cs) = Append(cs, cs[c]) BY <1>1, <1>3 DEF Leafs, Last
  <2>5. cs \o <<cs[c]>> = Append(cs, cs[c])
    <3>1. PICK x \in S : x = cs[c] BY <1>1
    <3>2. cs \o <<x>> = Append(cs, x) OBVIOUS
    <3> QED BY <3>1, <3>2
  <2> QED BY <2>1, <2>2, <2>3, <2>4, <2>5
<1>4. CASE c % 2 # 1 BY <1>1, <1>2, <1>4 DEF Fill, Leafs
<1> QED BY <1>3, <1>4

\* Once one block is left the list stays as it is.
LEMMA FillLast ==
  ASSUME NEW s, NEW k \in Nat, k # 0, Len(s) \in Nat, Len(s) <= Scale[k]
  PROVE  Fill(s, k) = s
<1>1. Scale[k] \in Nat BY ScaleNat
<1>2. ~(Len(s) > Scale[k]) BY <1>1
<1> QED BY <1>2 DEF Fill

\* Stage k of filling up: a block of the scale for every node of level k + 1, that halves to it.
Stage(S, s, L, k) ==
  /\ s \in Seq(S)
  /\ Len(s) = Len(L[k + 1]) * Scale[k]
  /\ \A i \in 1 .. Len(L[k + 1]) : Halved(S, Block(s, (i - 1) * Scale[k], Scale[k])) = L[k + 1][i]

LEMMA StageFirst ==
  ASSUME NEW S, NEW ls, NEW L, NEW n, NEW H, Nodes(ls, L, n, H), ls \in Seq(S), Len(ls) = n, n % 2 = 0
  PROVE  Stage(S, ls, L, 1)
<1>1. H \in Nat /\ H > 0 /\ n \in Nat /\ n > 1 /\ Len(L[1]) = n BY DEF Nodes
<1>2. 1 \in 1 .. H /\ 1 + 1 = 2 BY <1>1
<1>3. PICK v \in Nat : v = (n + 1) \div 2 /\ n = v * 2 BY <1>1
<1>4. Len(L[1 + 1]) = v BY <1>1, <1>2, <1>3 DEF Nodes
<1>5. Scale[1] = 2
  <2>1. Scale[0 + 1] = 2 * Scale[0] /\ Scale[0] = 1 BY ScaleValue
  <2> QED BY <2>1
<1>6. ASSUME NEW i \in 1 .. v PROVE Halved(S, Block(ls, (i - 1) * 2, 2)) = L[1 + 1][i]
  <2>1. PICK o \in Nat : o = (i - 1) * 2 /\ o + 1 = 2 * i - 1 /\ (o + 1) + 1 = 2 * i OBVIOUS
  <2>2. PICK p \in Nat : p = o + 1 /\ o + 2 <= n /\ o + 1 <= n /\ p + 1 <= n BY <1>3, <2>1
  <2>3. Halved(S, Block(ls, o, 2 * 1)) =
          NodeHash(Halved(S, Block(ls, o, 1)), Halved(S, Block(ls, o + 1, 1)))
    <3>1. PICK z \in Nat \ {0} : z = 1 OBVIOUS
    <3>2. o + 2 * z <= Len(ls) BY <2>2, <3>1
    <3>3. Halved(S, Block(ls, o, 2 * z)) =
            NodeHash(Halved(S, Block(ls, o, z)), Halved(S, Block(ls, o + z, z)))
      BY <3>2, HalveBlock
    <3> QED BY <3>1, <3>3
  <2>4. Halved(S, Block(ls, o, 1)) = LeafHash(ls[o + 1])
    <3>1. o + 1 <= Len(ls) BY <2>2
    <3> QED BY <3>1, HalveOne
  <2>5. Halved(S, Block(ls, p, 1)) = LeafHash(ls[p + 1])
    <3>1. p + 1 <= Len(ls) BY <2>2
    <3> QED BY <3>1, HalveOne
  <2>6. Halved(S, Block(ls, o, 2)) = NodeHash(LeafHash(ls[2 * i - 1]), LeafHash(ls[2 * i]))
    <3>1. 2 * 1 = 2 OBVIOUS
    <3> QED BY <2>1, <2>2, <2>3, <2>4, <2>5, <3>1
  <2>7. L[1 + 1][i] = <<L[1][2 * i - 1], L[1][Right(i, L[1])]>>
    <3>1. i \in 1 .. Len(L[1 + 1]) BY <1>4
    <3> QED BY <1>2, <3>1 DEF Nodes
  <2>8. Right(i, L[1]) = 2 * i BY <1>1, <1>3 DEF Right
  <2>9. 2 * i - 1 \in 1 .. n /\ 2 * i \in 1 .. n BY <1>3
  <2>10. L[1][2 * i - 1] = <<ls[2 * i - 1]>> /\ L[1][2 * i] = <<ls[2 * i]>> BY <2>9 DEF Nodes
  <2> QED BY <2>1, <2>6, <2>7, <2>8, <2>10 DEF NodeHash, LeafHash
<1> QED BY <1>3, <1>4, <1>5, <1>6 DEF Stage

LEMMA StageNext ==
  ASSUME NEW S, NEW ls, NEW L, NEW n, NEW H, Nodes(ls, L, n, H),
         NEW s, NEW k \in 1 .. H, k # H, Stage(S, s, L, k)
  PROVE  Stage(S, Fill(s, k), L, k + 1)
<1>1. H \in Nat /\ k \in Nat \ {0} BY DEF Nodes
<1>2. k + 1 \in 1 .. H + 1 /\ k + 1 # H + 1 /\ k + 1 \in 1 .. H BY <1>1
<1>3. PICK w \in Nat : w = Len(L[k + 1]) /\ w > 1
  <2>1. Len(L[k + 1]) \in Nat \ {0} /\ Len(L[k + 1]) # 1 BY <1>2 DEF Nodes
  <2> QED BY <2>1
<1>4. PICK z \in Nat \ {0} : z = Scale[k] BY <1>1, ScaleNat
<1>5. PICK y \in Nat \ {0} : y = 2 * z OBVIOUS
<1>6. Scale[k + 1] = y BY <1>1, <1>4, <1>5, ScaleValue
<1>7. PICK v \in Nat : v = (w + 1) \div 2 OBVIOUS
<1>8. Len(L[(k + 1) + 1]) = v BY <1>2, <1>3, <1>7 DEF Nodes
<1>9. s \in Seq(S) /\ Counts(s, k, w, z) BY <1>1, <1>3, <1>4 DEF Stage, Counts
<1>10. PICK t : t = Fill(s, k) OBVIOUS
<1>11. /\ t \in Seq(S) /\ Len(t) = v * y
       /\ \A i \in 1 .. v :
            Halved(S, Block(t, (i - 1) * y, y)) =
              NodeHash(Halved(S, Block(s, ((2 * i - 1) - 1) * z, z)),
                       Halved(S, Block(s, ((IF 2 * i > w THEN 2 * i - 1 ELSE 2 * i) - 1) * z, z)))
  <2>1. Doubled(S, t, s, w, z, v, y) BY <1>5, <1>7, <1>9, <1>10, FillDoubles
  <2> QED BY <2>1 DEF Doubled
<1>12. \A i \in 1 .. w : Halved(S, Block(s, (i - 1) * z, z)) = L[k + 1][i]
  BY <1>3, <1>4 DEF Stage
<1>13. ASSUME NEW i \in 1 .. v PROVE Halved(S, Block(t, (i - 1) * y, y)) = L[(k + 1) + 1][i]
  <2>1. PICK a \in 1 .. w : a = 2 * i - 1 BY <1>7
  <2>2. PICK b \in 1 .. w : b = IF 2 * i > w THEN 2 * i - 1 ELSE 2 * i BY <2>1
  <2>3. Halved(S, Block(t, (i - 1) * y, y)) =
          NodeHash(Halved(S, Block(s, (a - 1) * z, z)), Halved(S, Block(s, (b - 1) * z, z)))
    BY <1>11, <2>1, <2>2
  <2>4. Halved(S, Block(t, (i - 1) * y, y)) = NodeHash(L[k + 1][a], L[k + 1][b])
    BY <1>12, <2>3
  <2>5. Right(i, L[k + 1]) = b BY <1>3, <2>2 DEF Right
  <2>6. L[(k + 1) + 1][i] = <<L[k + 1][2 * i - 1], L[k + 1][Right(i, L[k + 1])]>>
    <3>1. i \in 1 .. Len(L[(k + 1) + 1]) BY <1>8
    <3> QED BY <1>2, <3>1 DEF Nodes
  <2> QED BY <2>1, <2>4, <2>5, <2>6 DEF NodeHash
<1> QED BY <1>6, <1>8, <1>10, <1>11, <1>13 DEF Stage

\* The last stage is one block, which is not filled up any more.
LEMMA StageLast ==
  ASSUME NEW S, NEW ls, NEW L, NEW n, NEW H, Nodes(ls, L, n, H), NEW s, Stage(S, s, L, H)
  PROVE  Len(s) = Scale[H] /\ Halved(S, s) = Root(L)
<1>1. H \in Nat /\ Root(L) = L[H + 1][1] BY DEF Nodes
<1>2. H + 1 \in 1 .. H + 1 BY <1>1
<1>3. Len(L[H + 1]) = 1 BY <1>2 DEF Nodes
<1>4. PICK z \in Nat \ {0} : z = Scale[H] BY <1>1, ScaleNat
<1>5. Len(s) = z /\ s \in Seq(S) BY <1>3, <1>4 DEF Stage
<1>6. Halved(S, Block(s, (1 - 1) * z, z)) = L[H + 1][1]
  <2>1. 1 \in 1 .. Len(L[H + 1]) BY <1>3
  <2> QED BY <1>4, <2>1 DEF Stage
<1>7. PICK o \in Nat : o = 0 OBVIOUS
<1>8. (1 - 1) * z = o BY <1>7
<1>9. PICK b : b = Block(s, o, z) OBVIOUS
<1>10. IsBlock(S, b, s, o, z)
  <2>1. Within(s, o, z) BY <1>5, <1>7 DEF Within
  <2> QED BY <1>5, <1>9, <2>1, BlockIn
<1>11. b \in Seq(S) /\ Len(b) = z /\ \A j \in 1 .. z : b[j] = s[o + j] BY <1>10 DEF IsBlock
<1>12. ASSUME NEW j \in 1 .. z PROVE b[j] = s[j]
  <2>1. o + j = j BY <1>7
  <2> QED BY <1>11, <2>1
<1>13. b = s BY <1>5, <1>11, <1>12, SeqEqual
<1> QED BY <1>1, <1>4, <1>5, <1>6, <1>8, <1>9, <1>13

LEMMA RootReference ==
  ASSUME NEW cs, cs # <<>>, cs \in Seq(Range(cs))
  PROVE  Root(Levels(Leafs(cs))) = Reference(cs)
<1>1. PICK S : S = Range(cs) /\ cs \in Seq(S) OBVIOUS
<1>2. PICK ls, L : ls = Leafs(cs) /\ L = Levels(ls) OBVIOUS
<1>3. PICK c \in Nat : c = Len(cs) /\ c > 0 BY <1>1
<1>4. PICK n \in Nat : /\ ls \in Seq(S) /\ IsList(ls, n) /\ n > 1 /\ n % 2 = 0
                       /\ n = IF Len(cs) % 2 = 1 THEN Len(cs) + 1 ELSE Len(cs)
  BY <1>1, <1>2, LeafsFacts
<1>5. PICK H \in Nat : H = Height[n] /\ InTree(ls, L, n, H) BY <1>2, <1>4, ListInTree
<1>6. Nodes(ls, L, n, H) BY <1>5, TreeNodes
<1>7. H \in 1 .. c
  <2>1. H > 0 BY <1>6 DEF Nodes
  <2>2. Height[n] < n BY <1>4, HeightNat
  <2>3. n = c \/ n = c + 1 BY <1>3, <1>4
  <2> QED BY <1>5, <2>1, <2>2, <2>3
<1>8. PICK F : /\ Filled(cs) = F[c] /\ F[0] = cs
               /\ \A k \in 1 .. c : F[k] = Fill(F[k - 1], k - 1)
  BY <1>1, <1>3, FilledValue
<1>9. \A k \in 1 .. c : k # 1 => \E j \in 1 .. c : k = j + 1 /\ j < k /\ F[k] = Fill(F[j], j)
  <2> SUFFICES ASSUME NEW k \in 1 .. c, k # 1
               PROVE  \E j \in 1 .. c : k = j + 1 /\ j < k /\ F[k] = Fill(F[j], j)
    OBVIOUS
  <2>1. PICK j \in 1 .. c : j = k - 1 /\ k = j + 1 /\ j < k OBVIOUS
  <2>2. F[k] = Fill(F[j], j) BY <1>8, <2>1
  <2> QED BY <2>1, <2>2
<1>10. Stage(S, F[1], L, 1)
  <2>1. 1 \in 1 .. c /\ 1 - 1 = 0 BY <1>3
  <2>2. F[1] = Fill(cs, 0) BY <1>8, <2>1
  <2>3. F[1] = ls BY <1>1, <1>2, <2>2, FillFirst
  <2>4. Len(ls) = n BY <1>4 DEF IsList
  <2> QED BY <1>4, <1>6, <2>3, <2>4, StageFirst
<1>11. Stage(S, F[H], L, H)
  <2> DEFINE T == {k \in 1 .. H : ~Stage(S, F[k], L, k)}
  <2>1. T = {}
    <3>1. SUFFICES ASSUME T # {} PROVE FALSE OBVIOUS
    <3>2. PICK k \in T : \A j \in T : k <= j
      <4> HIDE DEF T
      <4>1. T \in SUBSET Nat BY DEF T
      <4> QED BY <3>1, <4>1, HeightRec!LeastNumber
    <3>3. k \in 1 .. H /\ ~Stage(S, F[k], L, k) OBVIOUS
    <3>4. k # 1 BY <1>10, <3>3
    <3>5. k \in 1 .. c BY <1>7, <3>3
    <3>6. PICK j \in 1 .. c : k = j + 1 /\ j < k /\ F[k] = Fill(F[j], j) BY <1>9, <3>4, <3>5
    <3>7. j \in 1 .. H /\ j # H /\ j \notin T BY <3>2, <3>3, <3>6
    <3>8. Stage(S, F[j], L, j) BY <3>7
    <3>9. Stage(S, Fill(F[j], j), L, j + 1) BY <1>6, <3>7, <3>8, StageNext
    <3> QED BY <3>3, <3>6, <3>9
  <2>2. H \in 1 .. H BY <1>7
  <2> QED BY <2>1, <2>2
<1>12. Len(F[H]) = Scale[H] /\ Halved(S, F[H]) = Root(L) BY <1>6, <1>11, StageLast
<1>13. F[c] = F[H]
  <2> DEFINE T == {k \in H .. c : F[k] # F[H]}
  <2>1. T = {}
    <3>1. SUFFICES ASSUME T # {} PROVE FALSE OBVIOUS
    <3>2. PICK k \in T : \A j \in T : k <= j
      <4> HIDE DEF T
      <4>1. T \in SUBSET Nat BY DEF T
      <4> QED BY <3>1, <4>1, HeightRec!LeastNumber
    <3>3. k \in H .. c /\ F[k] # F[H] OBVIOUS
    <3>4. k # H BY <3>3
    <3>5. k \in 1 .. c /\ k # 1 BY <1>7, <3>3, <3>4
    <3>6. PICK j \in 1 .. c : k = j + 1 /\ j < k /\ F[k] = Fill(F[j], j) BY <1>9, <3>5
    <3>7. j \in H .. c /\ j \notin T BY <3>2, <3>3, <3>4, <3>6
    <3>8. F[j] = F[H] BY <3>7
    <3>9. Len(F[j]) \in Nat /\ Len(F[j]) <= Scale[j]
      <4>1. PICK d \in Nat : j = H + d BY <3>7
      <4>2. Scale[H] <= Scale[H + d] BY ScaleGrows
      <4>3. Scale[H] \in Nat BY ScaleNat
      <4> QED BY <1>12, <3>8, <4>1, <4>2, <4>3
    <3>10. j \in Nat /\ j # 0 OBVIOUS
    <3>11. Fill(F[j], j) = F[j] BY <3>9, <3>10, FillLast
    <3> QED BY <3>3, <3>6, <3>8, <3>11
  <2>2. c \in H .. c BY <1>7
  <2> QED BY <2>1, <2>2
<1> QED BY <1>1, <1>2, <1>8, <1>12, <1>13 DEF Reference

-----------------------------------------------------------------------------
(* A tree object. *)

NoTree == given = <<>> /\ leafs = <<>> /\ hash = <<>> /\ merkleRoot = Bad
Fits ==
  /\ given \in Inputs /\ leafs = Leafs(given)
  /\ IsList(hash, Len(Levels(leafs)))
  /\ \A k \in DOMAIN hash :
       /\ IsList(hash[k], Len(Levels(leafs)[k]))
       /\ \A i \in DOMAIN hash[k] : hash[k][i] \in {Bad, Levels(leafs)[k][i]}
  /\ merkleRoot \in {Bad, Root(Levels(leafs))}
  /\ damage = 0 => hash = Levels(leafs) /\ merkleRoot = Root(Levels(leafs))

TreeInv == damage \in 0 .. MaxDamage /\ (NoTree \/ Fits)

LEMMA InputsAreLists == \A cs \in Inputs : cs # <<>> /\ cs \in Seq(Range(cs))
BY MerkleAssumption

LEMMA InputLevels ==
  ASSUME NEW cs \in Inputs
  PROVE  /\ \E n \in Nat, H \in Nat : InTree(Leafs(cs), Levels(Leafs(cs)), n, H)
         /\ Leafs(Leafs(cs)) = Leafs(cs)
<1>1. cs # <<>> /\ cs \in Seq(Range(cs)) BY InputsAreLists
<1>2. PICK S : S = Range(cs) OBVIOUS
<1>3. PICK n \in Nat : n > 1 /\ IsList(Leafs(cs), n) /\ Leafs(Leafs(cs)) = Leafs(cs)
  BY <1>1, <1>2, LeafsFacts
<1> QED BY <1>3, ListInTree

LEMMA LevelLengths ==
  ASSUME NEW cs \in Inputs
  PROVE  /\ IsList(Levels(Leafs(cs)), Len(Levels(Leafs(cs))))
         /\ \A k \in DOMAIN Levels(Leafs(cs)) :
              IsList(Levels(Leafs(cs))[k], Len(Levels(Leafs(cs))[k]))
<1>1. PICK L : L = Levels(Leafs(cs)) OBVIOUS
<1>2. PICK H \in Nat :
        IsList(L, H + 1) /\ \A k \in 1 .. H + 1 : \E w \in Nat \ {0} : IsList(L[k], w)
  BY <1>1, InputLevels DEF InTree
<1> QED BY <1>1, <1>2 DEF IsList

LEMMA ListExcept ==
  ASSUME NEW l, NEW w, IsList(l, w), NEW i \in DOMAIN l, NEW x
  PROVE  /\ IsList([l EXCEPT ![i] = x], w)
         /\ \A j \in DOMAIN l : [l EXCEPT ![i] = x][j] = IF j = i THEN x ELSE l[j]
<1>1. [l EXCEPT ![i] = x] = [j \in 1 .. w |-> IF j = i THEN x ELSE l[j]] BY DEF IsList
<1>2. PICK m : m = [j \in 1 .. w |-> IF j = i THEN x ELSE l[j]] OBVIOUS
<1>3. DOMAIN m = 1 .. w /\ Len(m) = w BY <1>2 DEF IsList
<1> QED BY <1>1, <1>2, <1>3 DEF IsList

LEMMA BuildFits ==
  ASSUME NEW cs \in Inputs, NEW ls, Leafs(ls) = Leafs(cs), Build(ls), given' = cs
  PROVE  Fits'
<1>1. /\ leafs' = Leafs(cs) /\ hash' = Levels(Leafs(cs)) /\ merkleRoot' = Root(Levels(Leafs(cs)))
      /\ damage' = 0
  BY DEF Build
<1>2. PICK L : L = Levels(Leafs(cs)) OBVIOUS
<1>3. IsList(L, Len(L)) /\ \A k \in DOMAIN L : IsList(L[k], Len(L[k])) BY <1>2, LevelLengths
<1> QED BY <1>1, <1>2, <1>3 DEF Fits

LEMMA TreeNext == TreeInv /\ [Next]_vars => TreeInv'
<1> SUFFICES ASSUME TreeInv, [Next]_vars PROVE TreeInv' OBVIOUS
<1>0. damage' \in 0 .. MaxDamage
  BY MerkleAssumption DEF TreeInv, Next, vars, NewTree, RebuildTree, RebuildTreeWith, Build,
                          DamageNode, DamageRoot
<1>1. ASSUME NEW cs \in Inputs, NewTree(cs) \/ RebuildTreeWith(cs) PROVE Fits'
  <2>1. Build(cs) /\ given' = cs BY <1>1 DEF NewTree, RebuildTreeWith
  <2> QED BY <2>1, BuildFits
<1>2. CASE RebuildTree
  <2>1. given # <<>> /\ Build(leafs) /\ given' = given BY <1>2 DEF RebuildTree
  <2>2. Fits BY <2>1 DEF TreeInv, NoTree
  <2>3. PICK cs \in Inputs : cs = given BY <2>2 DEF Fits
  <2>4. PICK ls : ls = leafs OBVIOUS
  <2>5. Leafs(ls) = Leafs(cs) BY <2>2, <2>3, <2>4, InputLevels DEF Fits
  <2>6. Build(ls) BY <2>1, <2>4
  <2> QED BY <1>0, <2>1, <2>3, <2>5, <2>6, BuildFits DEF TreeInv
<1>3. ASSUME NEW k \in DOMAIN hash, NEW i \in DOMAIN hash[k], DamageNode(k, i) PROVE TreeInv'
  <2>1. /\ hash' = [hash EXCEPT ![k][i] = Bad] /\ damage' = damage + 1
        /\ UNCHANGED <<leafs, merkleRoot, given>>
    BY <1>3 DEF DamageNode
  <2>2. CASE NoTree
    <3>1. DOMAIN hash = {} BY <2>2 DEF NoTree
    <3> QED BY <3>1
  <2>3. CASE Fits
    <3>1. PICK L, h, m : L = Levels(leafs) /\ h = hash /\ m = [hash[k] EXCEPT ![i] = Bad] OBVIOUS
    <3>2. /\ IsList(h, Len(L))
          /\ \A j \in DOMAIN h : IsList(h[j], Len(L[j])) /\ \A n \in DOMAIN h[j] : h[j][n] \in {Bad, L[j][n]}
      BY <2>3, <3>1 DEF Fits
    <3>3. k \in DOMAIN h /\ i \in DOMAIN h[k] /\ m = [h[k] EXCEPT ![i] = Bad] BY <3>1
    <3>4. hash' = [h EXCEPT ![k] = m] BY <2>1, <3>1
    <3>5. IsList(m, Len(L[k])) /\ \A n \in DOMAIN h[k] : m[n] = IF n = i THEN Bad ELSE h[k][n]
      BY <3>2, <3>3, ListExcept
    <3>6. IsList([h EXCEPT ![k] = m], Len(L))
          /\ \A j \in DOMAIN h : [h EXCEPT ![k] = m][j] = IF j = k THEN m ELSE h[j]
      BY <3>2, <3>3, ListExcept
    <3>7. IsList(hash', Len(L)) /\ \A j \in DOMAIN h : hash'[j] = IF j = k THEN m ELSE h[j]
      BY <3>4, <3>6
    <3>8. DOMAIN hash' = DOMAIN h BY <3>2, <3>7 DEF IsList
    <3>9. \A j \in DOMAIN hash' :
            /\ IsList(hash'[j], Len(L[j]))
            /\ \A n \in DOMAIN hash'[j] : hash'[j][n] \in {Bad, L[j][n]}
      <4> TAKE j \in DOMAIN hash'
      <4>1. CASE j = k
        <5>1. hash'[j] = m BY <3>7, <3>8, <4>1
        <5>2. DOMAIN m = DOMAIN h[k] BY <3>2, <3>3, <3>5 DEF IsList
        <5> QED BY <3>2, <3>3, <3>5, <4>1, <5>1, <5>2
      <4>2. CASE j # k BY <3>2, <3>7, <3>8, <4>2
      <4> QED BY <4>1, <4>2
    <3>11. damage' # 0 BY <2>1 DEF TreeInv
    <3>12. /\ given' \in Inputs /\ leafs' = Leafs(given') /\ L = Levels(leafs')
           /\ merkleRoot' \in {Bad, Root(L)}
      BY <2>1, <2>3, <3>1 DEF Fits
    <3> QED BY <1>0, <3>7, <3>9, <3>11, <3>12 DEF Fits, TreeInv
  <2> QED BY <2>2, <2>3 DEF TreeInv
<1>4. CASE DamageRoot
  <2>1. given # <<>> /\ merkleRoot' = Bad /\ damage' = damage + 1 /\ UNCHANGED <<leafs, hash, given>>
    BY <1>4 DEF DamageRoot
  <2>2. Fits BY <2>1 DEF TreeInv, NoTree
  <2>3. damage' # 0 BY <2>1 DEF TreeInv
  <2>4. Fits' BY <2>1, <2>2, <2>3 DEF Fits
  <2> QED BY <1>0, <2>4 DEF TreeInv
<1>5. CASE UNCHANGED vars BY <1>5 DEF vars, TreeInv, NoTree, Fits
<1> QED BY <1>0, <1>1, <1>2, <1>3, <1>4, <1>5 DEF Next, TreeInv

LEMMA TreeInvariance == Spec => []TreeInv
<1>1. Init => TreeInv BY MerkleAssumption DEF Init, TreeInv, NoTree
<1> QED BY <1>1, TreeNext, PTL DEF Spec


-----------------------------------------------------------------------------
(* Checking a tree object. *)

VerifyStep(lv, hs, verify, j) ==
  IF j = 1 THEN [n \in DOMAIN lv |-> LeafHash(lv[n])]
  ELSE [n \in DOMAIN hs[j] |->
         NodeHash(verify[j - 1][2 * n - 1], verify[j - 1][Right(n, hs[j - 1])])]
VerifyDom(p)     == 1 .. p[3]
VerifyRank(p, j) == j
VerifyDef(p, verify, j) == VerifyStep(p[1], p[2], verify, j)
VerifyRec == INSTANCE Recursion WITH Dom <- VerifyDom, Rank <- VerifyRank, Def <- VerifyDef

Verified(lv, hs, k) == CHOOSE verify : verify = [j \in 1 .. k |-> VerifyStep(lv, hs, verify, j)]

LEMMA VerifiedValue ==
  ASSUME NEW lv, NEW hs, NEW k \in Nat
  PROVE  Verified(lv, hs, k) = [j \in 1 .. k |-> VerifyStep(lv, hs, Verified(lv, hs, k), j)]
<1>1. PICK p : p = <<lv, hs, k>> OBVIOUS
<1>2. p[1] = lv /\ p[2] = hs /\ p[3] = k BY <1>1
<1>3. VerifyRec!Ranked(p) BY <1>2 DEF VerifyRec!Ranked, VerifyDom, VerifyRank
<1>4. VerifyRec!LooksDown(p)
  <2> SUFFICES ASSUME NEW f, NEW g, NEW n \in 1 .. k, \A j \in 1 .. k : j < n => f[j] = g[j]
               PROVE  VerifyStep(lv, hs, f, n) = VerifyStep(lv, hs, g, n)
    BY <1>2 DEF VerifyRec!LooksDown, VerifyDom, VerifyRank, VerifyDef
  <2>1. CASE n = 1 BY <2>1 DEF VerifyStep
  <2>2. CASE n # 1
    <3>1. n - 1 \in 1 .. k /\ n - 1 < n BY <2>2
    <3> QED BY <2>2, <3>1 DEF VerifyStep
  <2> QED BY <2>1, <2>2
<1>5. \E verify : verify = [j \in VerifyDom(p) |-> VerifyDef(p, verify, j)]
  BY <1>3, <1>4, VerifyRec!FunctionExists
<1>6. \E verify : verify = [j \in 1 .. k |-> VerifyStep(lv, hs, verify, j)]
  BY <1>2, <1>5 DEF VerifyDom, VerifyDef
<1> QED BY <1>6, Zenon DEF Verified

\* verifyNode computes the levels anew, whatever the hashes in the nodes are.
LEMMA VerifyTreeComputes == Fits => (VerifyTree <=> merkleRoot = Root(Levels(leafs)))
<1> SUFFICES ASSUME Fits PROVE VerifyTree <=> merkleRoot = Root(Levels(leafs)) OBVIOUS
<1>1. PICK cs \in Inputs : cs = given BY DEF Fits
<1>2. PICK lv : lv = leafs OBVIOUS
<1>3. PICK hs : hs = hash OBVIOUS
<1>4. PICK L : L = Levels(lv) OBVIOUS
<1>5. lv = Leafs(cs) BY <1>1, <1>2 DEF Fits
<1>6. PICK n \in Nat, H \in Nat : InTree(lv, L, n, H) BY <1>4, <1>5, InputLevels
<1> USE DEF InTree
<1>7. IsList(hs, H + 1) /\ \A k \in 1 .. H + 1 : IsList(hs[k], Len(L[k]))
  <2>1. Len(L) = H + 1 BY <1>6 DEF IsList
  <2>2. IsList(hs, Len(L)) /\ \A k \in DOMAIN hs : IsList(hs[k], Len(L[k]))
    BY <1>2, <1>3, <1>4 DEF Fits
  <2>3. DOMAIN hs = 1 .. H + 1 BY <2>1, <2>2 DEF IsList
  <2> QED BY <2>1, <2>2, <2>3
<1>8. PICK V : V = Verified(lv, hs, H + 1) OBVIOUS
<1>9. V = [j \in 1 .. H + 1 |-> VerifyStep(lv, hs, V, j)] BY <1>8, VerifiedValue
<1> DEFINE T == {k \in 1 .. H + 1 : V[k] # L[k]}
<1>10. T = {}
  <2>1. SUFFICES ASSUME T # {} PROVE FALSE OBVIOUS
  <2>2. PICK k \in T : \A j \in T : k <= j
    <3> HIDE DEF T
    <3>1. T \in SUBSET Nat BY DEF T
    <3> QED BY <2>1, <3>1, HeightRec!LeastNumber
  <2>3. k \in 1 .. H + 1 /\ V[k] # L[k] OBVIOUS
  <2>4. V[k] = VerifyStep(lv, hs, V, k) BY <1>9
  <2>5. k # 1 BY <1>6, <2>3, <2>4 DEF VerifyStep, IsList
  <2>6. k - 1 \in 1 .. H /\ k - 1 \in 1 .. H + 1 /\ k - 1 < k /\ (k - 1) + 1 = k BY <2>5
  <2>7. V[k - 1] = L[k - 1] BY <2>2, <2>6
  <2>8. L[k] = Parents(L[k - 1]) BY <1>6, <2>6
  <2>9. PICK w \in Nat \ {0} : IsList(L[k - 1], w) BY <1>6, <2>6
  <2>10. PICK h \in Nat : h = (w + 1) \div 2 OBVIOUS
  <2>l. PICK l : l = L[k - 1] /\ IsList(l, w) /\ w > 0 BY <2>9
  <2>11. IsList(L[k], h) BY <2>8, <2>10, <2>l, ParentsFacts
  <2>12. DOMAIN hs[k] = 1 .. h /\ Len(hs[k - 1]) = w /\ Len(L[k - 1]) = w
    BY <1>7, <2>3, <2>6, <2>9, <2>11 DEF IsList
  <2>13. V[k] = [i \in 1 .. h |-> NodeHash(L[k - 1][2 * i - 1], L[k - 1][Right(i, hs[k - 1])])]
    BY <2>4, <2>5, <2>7, <2>12 DEF VerifyStep
  <2>14. L[k] = [i \in 1 .. h |-> NodeHash(L[k - 1][2 * i - 1], L[k - 1][Right(i, L[k - 1])])]
    BY <2>8, <2>10, <2>12 DEF Parents
  <2>15. \A i \in 1 .. h : Right(i, hs[k - 1]) = Right(i, L[k - 1]) BY <2>12 DEF Right
  <2> QED BY <2>3, <2>13, <2>14, <2>15
<1> HIDE DEF T
<1>11. V[H + 1] = L[H + 1]
  <2>1. H + 1 \in 1 .. H + 1 OBVIOUS
  <2> QED BY <1>10, <2>1 DEF T
<1>12. verifyNode(H + 1, 1) = V[H + 1][1]
  BY <1>2, <1>3, <1>8 DEF verifyNode, Verified, VerifyStep
<1>13. Len(hash) = H + 1 BY <1>3, <1>7 DEF IsList
<1> QED BY <1>2, <1>4, <1>6, <1>11, <1>12, <1>13 DEF VerifyTree

\* Going up from leaf i.
AboveStep(i, above, j) == IF j = 1 THEN i ELSE (above[j - 1] + 1) \div 2
AboveDom(p)     == 1 .. p[2]
AboveRank(p, j) == j
AboveDef(p, above, j) == AboveStep(p[1], above, j)
AboveRec == INSTANCE Recursion WITH Dom <- AboveDom, Rank <- AboveRank, Def <- AboveDef

AboveTwin(i, k) == CHOOSE above : above = [j \in 1 .. k |-> AboveStep(i, above, j)]

LEMMA AboveValue ==
  ASSUME NEW i, NEW k \in Nat
  PROVE  /\ AboveTwin(i, k) = [j \in 1 .. k |-> AboveStep(i, AboveTwin(i, k), j)]
         /\ Above(i, k) = AboveTwin(i, k)[k]
<1>1. PICK p : p = <<i, k>> OBVIOUS
<1>2. p[1] = i /\ p[2] = k BY <1>1
<1>3. AboveRec!Ranked(p) BY <1>2 DEF AboveRec!Ranked, AboveDom, AboveRank
<1>4. AboveRec!LooksDown(p)
  <2> SUFFICES ASSUME NEW f, NEW g, NEW n \in 1 .. k, \A j \in 1 .. k : j < n => f[j] = g[j]
               PROVE  AboveStep(i, f, n) = AboveStep(i, g, n)
    BY <1>2 DEF AboveRec!LooksDown, AboveDom, AboveRank, AboveDef
  <2>1. CASE n = 1 BY <2>1 DEF AboveStep
  <2>2. CASE n # 1
    <3>1. n - 1 \in 1 .. k /\ n - 1 < n BY <2>2
    <3> QED BY <2>2, <3>1 DEF AboveStep
  <2> QED BY <2>1, <2>2
<1>5. \E above : above = [j \in AboveDom(p) |-> AboveDef(p, above, j)]
  BY <1>3, <1>4, AboveRec!FunctionExists
<1>6. \E above : above = [j \in 1 .. k |-> AboveStep(i, above, j)]
  BY <1>2, <1>5 DEF AboveDom, AboveDef
<1>7. AboveTwin(i, k) = [j \in 1 .. k |-> AboveStep(i, AboveTwin(i, k), j)]
  BY <1>6, Zenon DEF AboveTwin
<1>8. Above(i, k) = AboveTwin(i, k)[k] BY DEF Above, AboveTwin, AboveStep
<1> QED BY <1>7, <1>8

\* The way up stays in the tree.
LEMMA AboveInside ==
  ASSUME NEW L, NEW n \in Nat \ {0}, NEW H \in Nat, IsList(L[1], n),
         \A k \in 1 .. H : L[k + 1] = Parents(L[k]), NEW i \in 1 .. n,
         \A k \in 1 .. H + 1 : \E w \in Nat \ {0} : IsList(L[k], w)
  PROVE  \A k \in 1 .. H + 1 : Above(i, k) \in DOMAIN L[k]
<1> TAKE k \in 1 .. H + 1
<1>1. PICK A : A = AboveTwin(i, k) OBVIOUS
<1>2. A = [j \in 1 .. k |-> AboveStep(i, A, j)] /\ Above(i, k) = A[k] BY <1>1, AboveValue
<1> DEFINE T == {j \in 1 .. k : A[j] \notin DOMAIN L[j]}
<1>3. T = {}
  <2>1. SUFFICES ASSUME T # {} PROVE FALSE OBVIOUS
  <2>2. PICK j \in T : \A m \in T : j <= m
    <3> HIDE DEF T
    <3>1. T \in SUBSET Nat BY DEF T
    <3> QED BY <2>1, <3>1, HeightRec!LeastNumber
  <2>3. j \in 1 .. k /\ A[j] \notin DOMAIN L[j] /\ A[j] = AboveStep(i, A, j) BY <1>2
  <2>4. j # 1 BY <2>3 DEF AboveStep, IsList
  <2>5. j - 1 \in 1 .. k /\ j - 1 \in 1 .. H /\ j - 1 \in 1 .. H + 1 /\ j - 1 < j /\ (j - 1) + 1 = j
    BY <2>4
  <2>6. PICK w \in Nat \ {0} : IsList(L[j - 1], w) BY <2>5
  <2>7. PICK a \in 1 .. w : a = A[j - 1] BY <2>2, <2>5, <2>6 DEF IsList
  <2>8. A[j] = (a + 1) \div 2 BY <2>3, <2>4, <2>7 DEF AboveStep
  <2>9. (a + 1) \div 2 \in 1 .. ((w + 1) \div 2) OBVIOUS
  <2>10. L[j] = Parents(L[j - 1]) BY <2>5
  <2>l. PICK l : l = L[j - 1] /\ IsList(l, w) /\ w > 0 BY <2>6
  <2>11. DOMAIN L[j] = 1 .. ((w + 1) \div 2) BY <2>10, <2>l, ParentsFacts DEF IsList
  <2> QED BY <2>3, <2>8, <2>9, <2>11
<1> HIDE DEF T
<1>4. k \in 1 .. k OBVIOUS
<1> QED BY <1>2, <1>3, <1>4 DEF T

LEMMA GivenRoot == Fits => Root(Levels(leafs)) = Reference(given) /\ given # <<>>
<1> SUFFICES ASSUME Fits PROVE Root(Levels(leafs)) = Reference(given) /\ given # <<>> OBVIOUS
<1>1. PICK cs : cs = given /\ cs \in Inputs BY DEF Fits
<1>2. PICK S : S = Range(cs) OBVIOUS
<1>3. cs # <<>> /\ cs \in Seq(S) BY <1>1, <1>2, InputsAreLists
<1>4. cs \in Seq(Range(cs)) BY <1>1, InputsAreLists
<1>5. Root(Levels(Leafs(cs))) = Reference(cs) BY <1>3, <1>4, RootReference
<1> QED BY <1>1, <1>3, <1>5 DEF Fits

\* A way up that is accepted shows that the leaf is in the tree and that the
\* hash in the root node is the root's.
LEMMA AcceptedContent ==
  ASSUME Fits, NEW c, VerifyContent(c)
  PROVE  c \in {given[i] : i \in DOMAIN given} /\ Root(hash) = Reference(given)
<1>1. PICK cs \in Inputs : cs = given BY DEF Fits
<1>2. PICK ls : ls = Leafs(cs) OBVIOUS
<1>3. PICK L : L = Levels(ls) OBVIOUS
<1>4. PICK hs : hs = hash OBVIOUS
<1>5. PICK n \in Nat, H \in Nat : InTree(ls, L, n, H) BY <1>2, <1>3, InputLevels
<1>6. /\ IsList(hs, H + 1)
      /\ \A k \in 1 .. H + 1 : IsList(hs[k], Len(L[k])) /\ \A i \in DOMAIN hs[k] : hs[k][i] \in {Bad, L[k][i]}
  <2>1. Len(L) = H + 1 /\ L = Levels(leafs) BY <1>1, <1>2, <1>3, <1>5 DEF Fits, IsList, InTree
  <2>2. /\ IsList(hs, Len(L))
        /\ \A k \in DOMAIN hs : IsList(hs[k], Len(L[k])) /\ \A i \in DOMAIN hs[k] : hs[k][i] \in {Bad, L[k][i]}
    BY <1>4, <2>1 DEF Fits
  <2>3. DOMAIN hs = 1 .. H + 1 BY <2>1, <2>2 DEF IsList
  <2> QED BY <2>1, <2>2, <2>3
<1>7. PICK i \in 1 .. n : ls[i] = c /\ \A k \in 2 .. H + 1 : Agrees(k, Above(i, k))
  BY <1>1, <1>2, <1>4, <1>5, <1>6 DEF VerifyContent, Fits, IsList, InTree
<1>8. H \in Nat /\ n \in Nat \ {0} /\ IsList(L[1], n)
  <2>1. L[1] = [j \in 1 .. n |-> LeafHash(ls[j])] /\ n \in Nat \ {0} BY <1>5 DEF InTree
  <2>2. DOMAIN L[1] = 1 .. n /\ Len(L[1]) = n BY <2>1
  <2> QED BY <2>1, <2>2 DEF IsList
<1>9. Above(i, H + 1) = 1
  <2>1. \A k \in 1 .. H + 1 : \E w \in Nat \ {0} : IsList(L[k], w) BY <1>5 DEF InTree
  <2>2. \A k \in 1 .. H : L[k + 1] = Parents(L[k]) BY <1>5 DEF InTree
  <2>3. \A k \in 1 .. H + 1 : Above(i, k) \in DOMAIN L[k]
    BY <1>8, <2>1, <2>2, AboveInside
  <2>4. H + 1 \in 1 .. H + 1 OBVIOUS
  <2>5. PICK w \in Nat \ {0} : IsList(L[H + 1], w) /\ (w = 1 <=> H + 1 = H + 1)
    BY <1>5, <2>4 DEF InTree
  <2>6. DOMAIN L[H + 1] = 1 .. 1 BY <2>5 DEF IsList
  <2> QED BY <2>3, <2>4, <2>6
<1>10. H + 1 \in 2 .. H + 1 /\ H + 1 \in 1 .. H + 1 BY <1>5 DEF InTree
<1>11. Agrees(H + 1, 1) BY <1>7, <1>9, <1>10
<1>12. hs[H + 1][1] # Bad BY <1>4, <1>11 DEF Agrees, NodeHash, Bad
<1>13. 1 \in DOMAIN hs[H + 1]
  <2>1. PICK w \in Nat \ {0} : IsList(L[H + 1], w) /\ (w = 1 <=> H + 1 = H + 1)
    BY <1>5, <1>10 DEF InTree
  <2>2. Len(L[H + 1]) = 1 BY <2>1 DEF IsList
  <2> QED BY <1>6, <1>10, <2>2 DEF IsList
<1>14. hs[H + 1][1] = L[H + 1][1] BY <1>6, <1>10, <1>12, <1>13
<1>15. Root(hs) = Root(L) BY <1>5, <1>6, <1>14 DEF Root, Last, IsList, InTree
<1>16. c \in {cs[j] : j \in DOMAIN cs}
  <2>1. PICK S : S = Range(cs) OBVIOUS
  <2>2. cs # <<>> /\ cs \in Seq(S) BY <2>1, InputsAreLists
  <2>3. \E m \in Nat : /\ IsList(ls, m) /\ \A j \in 1 .. m : ls[j] = IF j <= Len(cs) THEN cs[j] ELSE cs[Len(cs)]
    BY <1>2, <2>2, LeafsFacts
  <2>4. ls[i] = IF i <= Len(cs) THEN cs[i] ELSE cs[Len(cs)]
    BY <1>5, <2>3 DEF IsList, InTree
  <2>5. Len(cs) \in Nat /\ Len(cs) > 0 /\ DOMAIN cs = 1 .. Len(cs) BY <2>2
  <2> QED BY <1>7, <2>4, <2>5
<1> QED BY <1>1, <1>2, <1>3, <1>4, <1>15, <1>16, GivenRoot DEF Fits

LEMMA ContentAccepted ==
  ASSUME Fits, damage = 0, NEW c \in {given[i] : i \in DOMAIN given}
  PROVE  VerifyContent(c)
<1>1. PICK cs \in Inputs : cs = given BY DEF Fits
<1>2. PICK ls : ls = Leafs(cs) /\ ls = leafs BY <1>1 DEF Fits
<1>3. PICK L : L = Levels(ls) /\ L = hash BY <1>2 DEF Fits
<1>4. PICK n \in Nat, H \in Nat : InTree(ls, L, n, H) BY <1>2, <1>3, InputLevels
<1>5. n \in Nat \ {0} /\ DOMAIN ls = 1 .. n /\ DOMAIN L = 1 .. H + 1 /\ Len(L) = H + 1
  BY <1>4 DEF InTree, IsList
<1>6. IsList(L[1], n) /\ L[1] = [j \in 1 .. n |-> LeafHash(ls[j])]
  <2>1. L[1] = [j \in 1 .. n |-> LeafHash(ls[j])] BY <1>4 DEF InTree
  <2>2. DOMAIN L[1] = 1 .. n /\ Len(L[1]) = n BY <1>5, <2>1
  <2> QED BY <2>1, <2>2, <1>5 DEF IsList
<1>7. \E i \in 1 .. n : ls[i] = c
  <2>1. PICK S : S = Range(cs) OBVIOUS
  <2>2. cs # <<>> /\ cs \in Seq(S) BY <2>1, InputsAreLists
  <2>3. PICK m \in Nat : /\ IsList(ls, m) /\ m = IF Len(cs) % 2 = 1 THEN Len(cs) + 1 ELSE Len(cs)
                         /\ \A j \in 1 .. m : ls[j] = IF j <= Len(cs) THEN cs[j] ELSE cs[Len(cs)]
    <3>1. PICK l : l = Leafs(cs) OBVIOUS
    <3>2. \E m \in Nat : /\ l \in Seq(S) /\ IsList(l, m) /\ m > 1 /\ m % 2 = 0
                         /\ m = IF Len(cs) % 2 = 1 THEN Len(cs) + 1 ELSE Len(cs)
                         /\ \A i \in 1 .. m : l[i] = IF i <= Len(cs) THEN cs[i] ELSE cs[Len(cs)]
                         /\ Leafs(l) = l
      BY <2>2, <3>1, LeafsFacts
    <3> QED BY <1>2, <3>1, <3>2
  <2>4. m = n BY <1>4, <2>3 DEF InTree, IsList
  <2>5. PICK j \in DOMAIN cs : cs[j] = c BY <1>1
  <2>6. j \in 1 .. Len(cs) /\ Len(cs) \in Nat BY <2>2
  <2>7. j \in 1 .. n /\ ls[j] = cs[j] BY <2>3, <2>4, <2>6
  <2> QED BY <2>5, <2>7
<1>8. PICK i \in 1 .. n : ls[i] = c /\ \A j \in 1 .. i - 1 : ls[j] # c
  <2> DEFINE T == {i \in 1 .. n : ls[i] = c}
  <2>1. T \in SUBSET Nat /\ T # {} BY <1>7
  <2>2. PICK i \in T : \A j \in T : i <= j
    <3> HIDE DEF T
    <3> QED BY <2>1, HeightRec!LeastNumber
  <2>3. \A j \in 1 .. i - 1 : j \in 1 .. n /\ j < i OBVIOUS
  <2> QED BY <2>2, <2>3
<1>9. \A k \in 1 .. H + 1 : Above(i, k) \in DOMAIN L[k]
  <2>1. \A k \in 1 .. H + 1 : \E w \in Nat \ {0} : IsList(L[k], w) BY <1>4 DEF InTree
  <2>2. \A k \in 1 .. H : L[k + 1] = Parents(L[k]) BY <1>4 DEF InTree
  <2> QED BY <1>5, <1>6, <2>1, <2>2, AboveInside
<1>10. ASSUME NEW k \in 1 .. H + 1, NEW m \in DOMAIN L[k] PROVE calculateNodeHash(k, m) = L[k][m]
  <2>1. CASE k = 1 BY <1>2, <1>6, <2>1 DEF calculateNodeHash
  <2>2. CASE k # 1
    <3>1. k - 1 \in 1 .. H /\ k - 1 \in 1 .. H + 1 /\ (k - 1) + 1 = k BY <2>2
    <3>2. PICK w \in Nat \ {0} : IsList(L[k - 1], w) BY <1>4, <3>1 DEF InTree
    <3>3. PICK l : l = L[k - 1] /\ IsList(l, w) /\ w > 0 BY <3>2
    <3>4. L[k] = Parents(l) BY <1>4, <3>1, <3>3 DEF InTree
    <3>5. m \in 1 .. (w + 1) \div 2 BY <3>3, <3>4, ParentsFacts DEF IsList
    <3>6. L[k][m] = NodeHash(l[2 * m - 1], l[Right(m, l)]) BY <3>3, <3>4, <3>5, ParentsFacts
    <3> QED BY <1>3, <2>2, <3>3, <3>6 DEF calculateNodeHash
  <2> QED BY <2>1, <2>2
<1>11. ASSUME NEW k \in 2 .. H + 1, NEW m \in DOMAIN L[k] PROVE Agrees(k, m)
  <2>1. k - 1 \in 1 .. H /\ k - 1 \in 1 .. H + 1 /\ (k - 1) + 1 = k OBVIOUS
  <2>2. PICK w \in Nat \ {0} : IsList(L[k - 1], w) BY <1>4, <2>1 DEF InTree
  <2>3. PICK l : l = L[k - 1] /\ IsList(l, w) /\ w > 0 BY <2>2
  <2>4. L[k] = Parents(l) BY <1>4, <2>1, <2>3 DEF InTree
  <2>5. m \in 1 .. (w + 1) \div 2 BY <2>3, <2>4, ParentsFacts DEF IsList
  <2>6. /\ L[k][m] = NodeHash(l[2 * m - 1], l[Right(m, l)])
        /\ 2 * m - 1 \in 1 .. w /\ Right(m, l) \in 1 .. w
    BY <2>3, <2>4, <2>5, ParentsFacts
  <2>7. 2 * m - 1 \in DOMAIN l /\ Right(m, l) \in DOMAIN l BY <2>3, <2>6 DEF IsList
  <2>8. calculateNodeHash(k - 1, 2 * m - 1) = l[2 * m - 1]
        /\ calculateNodeHash(k - 1, Right(m, l)) = l[Right(m, l)]
    BY <1>10, <2>1, <2>3, <2>7
  <2> QED BY <1>3, <2>3, <2>6, <2>8 DEF Agrees
<1>12. \A k \in 2 .. H + 1 : Agrees(k, Above(i, k))
  <2> TAKE k \in 2 .. H + 1
  <2>1. k \in 1 .. H + 1 OBVIOUS
  <2> QED BY <1>9, <1>11, <2>1
<1> QED BY <1>2, <1>3, <1>5, <1>8, <1>12 DEF VerifyContent

(* The root of a tree object is the root of the reference for the list it  *)
(* was built from, for lists of any length, rebuilt however often, with    *)
(* any hashes overwritten.                                                 *)
THEOREM RootRight == Spec => []RootIsReference
<1>1. TreeInv => RootIsReference
  BY GivenRoot DEF TreeInv, NoTree, Fits, RootIsReference
<1> QED BY <1>1, TreeInvariance, PTL

(* VerifyTree finds a wrong root and nothing else, for any tree.           *)
THEOREM VerifyTreeRight == Spec => []VerifyTreeExact
<1>1. TreeInv => VerifyTreeExact
  BY GivenRoot, VerifyTreeComputes DEF TreeInv, NoTree, VerifyTreeExact
<1> QED BY <1>1, TreeInvariance, PTL

(* VerifyContent accepts what is in an untouched tree, and what it accepts *)
(* is in the tree and under a right root hash, whatever was overwritten.   *)
THEOREM VerifyContentRight == Spec => []VerifyContentSound
<1>1. TreeInv => VerifyContentSound
  <2> SUFFICES ASSUME TreeInv, NEW c
               PROVE  /\ VerifyContent(c) => /\ c \in {given[i] : i \in DOMAIN given}
                                             /\ Root(hash) = Reference(given)
                      /\ damage = 0 /\ c \in {given[i] : i \in DOMAIN given} => VerifyContent(c)
    BY DEF VerifyContentSound
  <2>1. CASE NoTree
    <3>1. DOMAIN leafs = {} /\ DOMAIN given = {} BY <2>1 DEF NoTree
    <3>2. ~VerifyContent(c) BY <3>1 DEF VerifyContent
    <3> QED BY <3>1, <3>2
  <2>2. CASE Fits BY <2>2, AcceptedContent, ContentAccepted
  <2> QED BY <2>1, <2>2 DEF TreeInv
<1> QED BY <1>1, TreeInvariance, PTL

(* Two lists without repetitions have the same root only if they are the   *)
(* same, for lists of any lengths.                                         *)
THEOREM CommitsRight == Spec => []RootCommits
<1>1. TreeInv => RootCommits
  <2> SUFFICES ASSUME TreeInv, given \in Inputs, IsInjective(given), damage = 0,
                      NEW cs \in Inputs, IsInjective(cs), Root(Levels(Leafs(cs))) = merkleRoot
               PROVE  cs = given
    BY DEF RootCommits
  <2>1. Fits BY InputsAreLists DEF TreeInv, NoTree
  <2>2. PICK a \in Inputs : a = given OBVIOUS
  <2>3. Root(Levels(Leafs(a))) = Root(Levels(Leafs(cs))) BY <2>1, <2>2 DEF Fits
  <2>4. PICK S : S = Range(a) \cup Range(cs) OBVIOUS
  <2>5. PICK A : A = Range(a) OBVIOUS
  <2>6. PICK C : C = Range(cs) OBVIOUS
  <2>7. a # <<>> /\ a \in Seq(A) /\ cs # <<>> /\ cs \in Seq(C) BY <2>5, <2>6, InputsAreLists
  <2>8. A \subseteq S /\ C \subseteq S BY <2>4, <2>5, <2>6
  <2>9. a \in Seq(S) /\ cs \in Seq(S) BY <2>7, <2>8
  <2> QED BY <2>2, <2>3, <2>7, <2>9, RootInjective
<1> QED BY <1>1, TreeInvariance, PTL

(* The older construction has the same root for up to four leaves and does *)
(* not end with a root for more, for lists of any length.                  *)
THEOREM OlderRight == Spec => []OlderTreeAgrees
<1>1. TreeInv => OlderTreeAgrees
  <2> SUFFICES ASSUME TreeInv, given # <<>>, damage = 0
               PROVE  NewMerkleTree(given) = IF Len(given) <= 4 THEN <<merkleRoot>> ELSE Panicked
    BY DEF OlderTreeAgrees
  <2>1. Fits BY DEF TreeInv, NoTree
  <2>2. PICK cs \in Inputs : cs = given BY <2>1 DEF Fits
  <2>3. PICK S : S = Range(cs) OBVIOUS
  <2>4. cs # <<>> /\ cs \in Seq(S) BY <2>3, InputsAreLists
  <2>5. merkleRoot = Root(Levels(Leafs(cs))) BY <2>1, <2>2 DEF Fits
  <2> QED BY <2>2, <2>4, <2>5, OlderTree
<1> QED BY <1>1, TreeInvariance, PTL

=============================================================================
