------------------------------ MODULE Recursion ------------------------------
(***************************************************************************)
(* A function that a model defines by recursion exists, if every element   *)
(* of its domain has a rank and its value there only depends on the values *)
(* at elements of a smaller rank.  Nothing here is about one component:    *)
(* the proof modules take the lemmas by INSTANCE.                          *)
(***************************************************************************)
EXTENDS Integers, WellFoundedInduction, TLAPS

CONSTANTS
  Dom(_),     \* Dom(p): the domain of the function, for the parameter p
  Rank(_, _), \* Rank(p, x): the rank of x
  Def(_, _, _)  \* Def(p, f, x): the value at x, in terms of the function f

\* A set of numbers that is not empty has a least element: how induction is
\* done here, from a least counterexample.
LEMMA LeastNumber ==
  ASSUME NEW T \in SUBSET Nat, T # {}
  PROVE  \E n \in T : \A m \in T : n <= m
<1>1. IsWellFoundedOn(OpToRel(<, Nat), Nat)
  BY NatLessThanWellFounded
<1>2. PICK n \in T : \A m \in T : <<m, n>> \notin OpToRel(<, Nat)
  BY <1>1, WFMin, Zenon
<1>3. \A m \in T : ~(m < n)
  BY <1>2 DEF OpToRel
<1> QED
  BY <1>3

Ranked(p) == \A x \in Dom(p) : Rank(p, x) \in Nat
LooksDown(p) ==
  \A f, g : \A x \in Dom(p) :
    (\A y \in Dom(p) : Rank(p, y) < Rank(p, x) => f[y] = g[y]) => Def(p, f, x) = Def(p, g, x)

Below(p, n) == {x \in Dom(p) : Rank(p, x) < n}
Approx(p, n, f) == f = [x \in Below(p, n) |-> Def(p, f, x)]

\* Two partial solutions agree where both are defined.
LEMMA ApproxAgree ==
  ASSUME NEW p, Ranked(p), LooksDown(p), NEW n \in Nat, NEW m \in Nat,
         NEW f, NEW g, Approx(p, n, f), Approx(p, m, g),
         NEW x \in Below(p, n) \cap Below(p, m)
  PROVE  f[x] = g[x]
<1> DEFINE Bad == {y \in Below(p, n) \cap Below(p, m) : f[y] # g[y]}
           T == {Rank(p, y) : y \in Bad}
<1>1. SUFFICES ASSUME Bad # {} PROVE FALSE
  OBVIOUS
<1>2. T \in SUBSET Nat /\ T # {}
  BY <1>1 DEF Ranked, Below
<1>3. PICK y \in Bad : \A z \in Bad : Rank(p, y) <= Rank(p, z)
  <2>1. PICK n0 \in T : \A m0 \in T : n0 <= m0
    <3> HIDE DEF T
    <3> QED
      BY <1>2, LeastNumber
  <2>2. PICK y \in Bad : n0 = Rank(p, y)
    BY <2>1
  <2> QED
    BY <2>1, <2>2
<1>4. \A z \in Dom(p) : Rank(p, z) < Rank(p, y) => f[z] = g[z]
  BY <1>3 DEF Below, Ranked
<1>5. Def(p, f, y) = Def(p, g, y)
  BY <1>4 DEF LooksDown, Below
<1>6. f[y] = Def(p, f, y) /\ g[y] = Def(p, g, y)
  BY DEF Approx
<1> QED
  BY <1>5, <1>6

\* There is a partial solution for every bound on the rank.
LEMMA ApproxExists ==
  ASSUME NEW p, Ranked(p), LooksDown(p)
  PROVE  \A n \in Nat : \E f : Approx(p, n, f)
<1> DEFINE T == {n \in Nat : ~ \E f : Approx(p, n, f)}
<1>1. SUFFICES ASSUME T # {} PROVE FALSE
  OBVIOUS
<1>2. PICK n \in T : \A m \in T : n <= m
  BY <1>1, LeastNumber
<1>3. CASE n = 0
  <2>1. Below(p, 0) = {}
    BY DEF Below, Ranked
  <2>2. Approx(p, 0, [x \in {} |-> 0])
    BY <2>1 DEF Approx
  <2> QED
    BY <1>2, <1>3, <2>2
<1>4. CASE n # 0
  <2>1. n - 1 \in Nat /\ n - 1 \notin T
    BY <1>2, <1>4
  <2>2. PICK f : Approx(p, n - 1, f)
    BY <2>1
  <2> DEFINE g == [x \in Below(p, n) |-> Def(p, f, x)]
  <2>3. ASSUME NEW x \in Below(p, n), NEW y \in Dom(p), Rank(p, y) < Rank(p, x)
        PROVE  f[y] = g[y]
    <3>1. y \in Below(p, n - 1) /\ y \in Below(p, n)
      BY <2>1, <2>3 DEF Below, Ranked
    <3> QED
      BY <2>2, <3>1 DEF Approx
  <2>4. \A x \in Below(p, n) : Def(p, f, x) = Def(p, g, x)
    <3> TAKE x \in Below(p, n)
    <3>1. x \in Dom(p)
      BY DEF Below
    <3> HIDE DEF g
    <3> QED
      BY <2>3, <3>1 DEF LooksDown
  <2>5. Approx(p, n, g)
    BY <2>4 DEF Approx
  <2> QED
    BY <1>2, <2>5
<1> QED
  BY <1>3, <1>4

\* The function the definition asks for exists.
LEMMA FunctionExists ==
  ASSUME NEW p, Ranked(p), LooksDown(p)
  PROVE  \E f : f = [x \in Dom(p) |-> Def(p, f, x)]
<1> DEFINE A(n) == CHOOSE f : Approx(p, n, f)
           g == [x \in Dom(p) |-> A(Rank(p, x) + 1)[x]]
<1>1. \A n \in Nat : Approx(p, n, A(n))
  BY ApproxExists
<1> HIDE DEF A
<1>2. ASSUME NEW x \in Dom(p)
      PROVE  g[x] = Def(p, g, x)
  <2> DEFINE h == A(Rank(p, x) + 1)
  <2>1. Rank(p, x) \in Nat /\ Approx(p, Rank(p, x) + 1, h) /\ x \in Below(p, Rank(p, x) + 1)
    BY <1>1, <1>2 DEF Ranked, Below
  <2>2. g[x] = Def(p, h, x)
    BY <2>1 DEF Approx
  <2>3. ASSUME NEW y \in Dom(p), Rank(p, y) < Rank(p, x)
        PROVE  h[y] = g[y]
    <3>1. /\ Rank(p, y) \in Nat
          /\ Approx(p, Rank(p, y) + 1, A(Rank(p, y) + 1))
          /\ y \in Below(p, Rank(p, y) + 1) /\ y \in Below(p, Rank(p, x) + 1)
      BY <1>1, <2>1, <2>3 DEF Ranked, Below
    <3>2. h[y] = A(Rank(p, y) + 1)[y]
      BY <2>1, <3>1, ApproxAgree
    <3> QED
      BY <3>2
  <2>4. Def(p, h, x) = Def(p, g, x)
    <3> HIDE DEF g, h
    <3> QED
      BY <2>3 DEF LooksDown
  <2> QED
    BY <2>2, <2>4
<1>3. g = [x \in Dom(p) |-> Def(p, g, x)]
  BY <1>2
<1> QED
  BY <1>3
==============================================================================
