-------------------------- MODULE ChainLockProofs ---------------------------
(* The two locks of a node: what they promise, for any goroutines and any  *)
(* scripts, and that nobody is stuck, for the functions of the source.     *)
EXTENDS ChainLock, SequenceTheorems, TLAPS

-----------------------------------------------------------------------------
(* TypeOK is inductive as it stands: one lemma for the initial states, one *)
(* for a lock operation, one for a recovered panic.                        *)

LEMMA InitTypeOK == ASSUME Init PROVE TypeOK
BY LockAssumption DEF Init, TypeOK, Lock, NoOne

LEMMA StepTypeOK ==
  ASSUME TypeOK, NEW g \in Goroutine, NEW l \in Lock,
         \/ RLock(g, l) \/ RLockWait(g, l) \/ RUnlock(g, l)
         \/ Announce(g, l) \/ Acquire(g, l) \/ Unlock(g, l)
  PROVE  TypeOK'
<1>0. readers[l] \in [Goroutine -> Nat] /\ writing[l] \in BOOLEAN
  BY DEF TypeOK
<1> USE DEF TypeOK
<1>1. CASE RLock(g, l)
  <2>1. ~writing[l]
    BY <1>1 DEF RLock
  <2>2. readers' = [readers EXCEPT ![l] = [readers[l] EXCEPT ![g] = readers[l][g] + 1]]
    BY <1>1 DEF RLock
  <2>3. [readers[l] EXCEPT ![g] = readers[l][g] + 1] \in [Goroutine -> Nat]
    BY <1>0
  <2>4. readers' \in [Lock -> [Goroutine -> Nat]] /\ \A k \in Lock \ {l} : readers'[k] = readers[k]
    BY <2>2, <2>3
  <2>5. QED
    BY <1>1, <2>1, <2>4 DEF RLock
<1>2. CASE RLockWait(g, l)
  BY <1>2 DEF RLockWait
<1>3. CASE RUnlock(g, l)
  <2>1. ~writing[l]
    <3>1. readers[l][g] # 0
      BY <1>0, <1>3 DEF RUnlock
    <3>2. writing[l] => readers[l][g] = 0
      OBVIOUS
    <3>3. QED
      BY <3>1, <3>2
  <2>2. readers' = [readers EXCEPT ![l] = [readers[l] EXCEPT ![g] = readers[l][g] - 1]]
    BY <1>3 DEF RUnlock
  <2>3. [readers[l] EXCEPT ![g] = readers[l][g] - 1] \in [Goroutine -> Nat]
    BY <1>0, <1>3 DEF RUnlock
  <2>4. readers' \in [Lock -> [Goroutine -> Nat]] /\ \A k \in Lock \ {l} : readers'[k] = readers[k]
    BY <2>2, <2>3
  <2>5. QED
    BY <1>3, <2>1, <2>4 DEF RUnlock
<1>4. CASE Announce(g, l)
  <2>1. ~writing[l] /\ waiting[l] = {}
    BY <1>4 DEF Announce
  <2>2. writer' \in [Lock -> Goroutine \cup {NoOne}] /\ \A k \in Lock \ {l} : writer'[k] = writer[k]
    BY <1>4 DEF Announce
  <2>3. readers' = readers /\ writing' = writing /\ waiting' = waiting
    BY <1>4 DEF Announce
  <2>4. \A k \in Lock : writing[k] => writer'[k] # NoOne /\ \A r \in Goroutine : readers[k][r] = 0
    BY <2>1, <2>2
  <2>5. \A k \in Lock : writer'[k] = NoOne => waiting[k] = {}
    BY <2>1, <2>2
  <2>6. /\ readers \in [Lock -> [Goroutine -> Nat]] /\ writing \in [Lock -> BOOLEAN]
        /\ waiting \in [Lock -> SUBSET Goroutine]
    OBVIOUS
  <2> HIDE DEF TypeOK
  <2>7. QED
    BY <2>2, <2>3, <2>4, <2>5, <2>6, Zenon DEF TypeOK
<1>5. CASE Acquire(g, l)
  <2>1. g # NoOne
    BY LockAssumption DEF NoOne
  <2>2. QED
    BY <1>5, <2>1 DEF Acquire
<1>6. CASE Unlock(g, l)
  <2> DEFINE in == [r \in Goroutine |-> IF r \in waiting[l] THEN readers[l][r] + 1
                                                           ELSE readers[l][r]]
  <2>1. in \in [Goroutine -> Nat]
    BY <1>0
  <2>2. readers' = [readers EXCEPT ![l] = in]
    BY <1>6 DEF Unlock
  <2>3. readers' \in [Lock -> [Goroutine -> Nat]] /\ \A k \in Lock \ {l} : readers'[k] = readers[k]
    BY <2>1, <2>2
  <2>4. QED
    BY <1>6, <2>3 DEF Unlock
<1>7. QED
  BY <1>1, <1>2, <1>3, <1>4, <1>5, <1>6

LEMMA RecoverTypeOK == ASSUME TypeOK, NEW g \in Goroutine, Recover(g) PROVE TypeOK'
BY DEF Recover, TypeOK

LEMMA NextTypeOK == ASSUME TypeOK, [Next]_vars PROVE TypeOK'
<1>1. CASE UNCHANGED vars
  BY <1>1 DEF vars, TypeOK
<1>2. ASSUME NEW g \in Goroutine, Step(g) PROVE TypeOK'
  <2>1. PICK l \in Lock : \/ RLock(g, l) \/ RLockWait(g, l) \/ RUnlock(g, l)
                          \/ Announce(g, l) \/ Acquire(g, l) \/ Unlock(g, l)
    BY <1>2 DEF Step
  <2>2. QED
    BY <2>1, StepTypeOK
<1>3. QED
  BY <1>1, <1>2, RecoverTypeOK DEF Next

(* TypeOK, and with it mutual exclusion, for every set of goroutines and   *)
(* every sequence of lock operations they may run.                         *)
THEOREM LocksTypeCorrect == Spec => []TypeOK
<1>1. Init => TypeOK
  BY InitTypeOK
<1>2. TypeOK /\ [Next]_vars => TypeOK'
  BY NextTypeOK
<1>3. QED
  BY <1>1, <1>2, PTL DEF Spec

-----------------------------------------------------------------------------
(* Each lock is an RWLock: an operation on lock l is a step of that lock or *)
(* a stutter, and it does not touch the other lock.                         *)

LEMMA InitMaps == ASSUME Init PROVE pool!Init /\ chain!Init
BY DEF Init, pool!Init, chain!Init, Holder, Lock

\* The readers and the holder of a lock that no operation is called on.
LEMMA OthersKept ==
  ASSUME TypeOK, NEW g \in Goroutine, NEW l \in Lock, NEW k \in Lock \ {l},
         \/ RLock(g, l) \/ RLockWait(g, l) \/ RUnlock(g, l)
         \/ Announce(g, l) \/ Acquire(g, l) \/ Unlock(g, l)
  PROVE  readers'[k] = readers[k] /\ Holder(k)' = Holder(k)
<1> USE DEF TypeOK, Holder
<1>1. CASE RLock(g, l) \/ RLockWait(g, l) \/ RUnlock(g, l)
  BY <1>1 DEF RLock, RLockWait, RUnlock
<1>2. CASE Announce(g, l) \/ Acquire(g, l) \/ Unlock(g, l)
  BY <1>2 DEF Announce, Acquire, Unlock
<1>3. QED
  BY <1>1, <1>2

\* What an operation does to its own lock, in the terms of RWLock.
LEMMA OwnStep ==
  ASSUME TypeOK, NEW g \in Goroutine, NEW l \in Lock,
         \/ RLock(g, l) \/ RLockWait(g, l) \/ RUnlock(g, l)
         \/ Announce(g, l) \/ Acquire(g, l) \/ Unlock(g, l)
  PROVE  \/ /\ Holder(l) = NoOne
            /\ readers'[l] = [readers[l] EXCEPT ![g] = @ + 1]
            /\ Holder(l)' = Holder(l)
         \/ /\ readers[l][g] > 0
            /\ readers'[l] = [readers[l] EXCEPT ![g] = @ - 1]
            /\ Holder(l)' = Holder(l)
         \/ /\ Holder(l) = NoOne
            /\ \A r \in Goroutine : readers[l][r] = 0
            /\ Holder(l)' = g
            /\ readers'[l] = readers[l]
         \/ /\ Holder(l) = g
            /\ Holder(l)' = NoOne
            /\ \E in \in SUBSET Goroutine :
                 readers'[l] = [r \in Goroutine |-> IF r \in in THEN readers[l][r] + 1
                                                              ELSE readers[l][r]]
         \/ readers'[l] = readers[l] /\ Holder(l)' = Holder(l)
<1> USE DEF TypeOK, Holder
<1>1. CASE RLock(g, l)
  BY <1>1 DEF RLock
<1>2. CASE RLockWait(g, l)
  BY <1>2 DEF RLockWait
<1>3. CASE RUnlock(g, l)
  BY <1>3 DEF RUnlock
<1>4. CASE Announce(g, l)
  BY <1>4 DEF Announce
<1>5. CASE Acquire(g, l)
  <2>1. g # NoOne
    BY LockAssumption DEF NoOne
  <2>2. QED
    BY <1>5, <2>1 DEF Acquire
<1>6. CASE Unlock(g, l)
  BY <1>6 DEF Unlock
<1>7. QED
  BY <1>1, <1>2, <1>3, <1>4, <1>5, <1>6

LEMMA NextMaps ==
  ASSUME TypeOK, [Next]_vars
  PROVE  /\ [pool!Next]_<<readers["pool"], Holder("pool")>>
         /\ [chain!Next]_<<readers["chain"], Holder("chain")>>
<1> DEFINE pv == <<readers["pool"], Holder("pool")>>
           cv == <<readers["chain"], Holder("chain")>>
<1>1. CASE UNCHANGED vars
  BY <1>1 DEF vars, Holder
<1>2. ASSUME NEW g \in Goroutine, Recover(g)
      PROVE  UNCHANGED pv /\ UNCHANGED cv
  BY <1>2 DEF Recover, Holder
<1>3. ASSUME NEW g \in Goroutine, NEW l \in Lock,
             \/ RLock(g, l) \/ RLockWait(g, l) \/ RUnlock(g, l)
             \/ Announce(g, l) \/ Acquire(g, l) \/ Unlock(g, l)
      PROVE  [pool!Next]_pv /\ [chain!Next]_cv
  <2>1. CASE l = "pool"
    <3>1. UNCHANGED cv
      BY <1>3, <2>1, OthersKept DEF Lock
    <3>2. [pool!Next]_pv
      BY <1>3, <2>1, OwnStep
      DEF pool!Next, pool!AcquireRead, pool!ReleaseRead, pool!AcquireWrite, pool!ReleaseWrite
    <3>3. QED
      BY <3>1, <3>2
  <2>2. CASE l = "chain"
    <3>1. UNCHANGED pv
      BY <1>3, <2>2, OthersKept DEF Lock
    <3>2. [chain!Next]_cv
      BY <1>3, <2>2, OwnStep
      DEF chain!Next, chain!AcquireRead, chain!ReleaseRead, chain!AcquireWrite,
          chain!ReleaseWrite
    <3>3. QED
      BY <3>1, <3>2
  <2>3. QED
    BY <2>1, <2>2 DEF Lock
<1>4. QED
  BY <1>1, <1>2, <1>3 DEF Next, Step

(* ChainLock implements two RWLocks, for any goroutines and any scripts:   *)
(* the announcement of writers, the waiting readers and recovered panics   *)
(* are invisible to whoever relies on the locks.                           *)
THEOREM LocksImplement == Spec => ImplementsRWLock
<1>1. Init => pool!Init /\ chain!Init
  BY InitMaps
<1>2. TypeOK /\ [Next]_vars => /\ [pool!Next]_<<readers["pool"], Holder("pool")>>
                               /\ [chain!Next]_<<readers["chain"], Holder("chain")>>
  BY NextMaps
<1>3. QED
  BY <1>1, <1>2, LocksTypeCorrect, PTL DEF Spec, ImplementsRWLock, pool!Spec, chain!Spec

-----------------------------------------------------------------------------
(* Who waits for whom.  A goroutine may take a read lock of the chain      *)
(* whenever it does not hold that lock for writing, the write lock of the  *)
(* chain when it does not hold that lock, and a lock of the mempool only   *)
(* when it holds nothing: the store is always the last in the order.       *)

LockOp  == [kind : Kind, lock : Lock]
ChainOp == [kind : Kind, lock : {"chain"}]

\* What a goroutine holds of a lock: -1 for writing, n for reading n times.
Holding == {h \in [Lock -> Int] : \A l \in Lock : h[l] >= -1}
Free    == [l \in Lock |-> 0]

Change(k) == IF k \in {"RLock", "Unlock"} THEN 1 ELSE -1
After(o, h) == [h EXCEPT ![o.lock] = @ + Change(o.kind)]

Allowed(o, h) ==
  /\ o.kind = "RLock" => h[o.lock] >= 0
  /\ o.kind = "Lock" => h[o.lock] = 0
  /\ o.kind = "RUnlock" => h[o.lock] > 0
  /\ o.kind = "Unlock" => h[o.lock] = -1
  /\ o.lock = "pool" /\ o.kind \in {"RLock", "Lock"} => h = Free

\* The operations s lead from holding a to holding b, in that order.
Orderly(s, a, b) ==
  /\ s \in Seq(LockOp)
  /\ \E d \in [0 .. Len(s) -> Holding] :
       /\ d[0] = a /\ d[Len(s)] = b
       /\ \A i \in 1 .. Len(s) : Allowed(s[i], d[i - 1]) /\ d[i] = After(s[i], d[i - 1])

LEMMA AfterHolding ==
  ASSUME NEW o \in LockOp, NEW h \in Holding, Allowed(o, h) PROVE After(o, h) \in Holding
<1>1. o.lock \in Lock /\ o.kind \in Kind BY DEF LockOp
<1>2. h[o.lock] \in Int /\ h[o.lock] >= -1 BY <1>1 DEF Holding
<1>3. h[o.lock] + Change(o.kind) \in Int /\ h[o.lock] + Change(o.kind) >= -1
  BY <1>1, <1>2 DEF Allowed, Change, Kind
<1>4. PICK x \in Int : x = h[o.lock] + Change(o.kind) /\ x >= -1 BY <1>3
<1>5. After(o, h) = [h EXCEPT ![o.lock] = x] BY <1>4 DEF After
<1> QED BY <1>1, <1>4, <1>5 DEF Holding

LEMMA OrderlyNone == ASSUME NEW a \in Holding, NEW b PROVE Orderly(<<>>, a, b) <=> a = b
<1>1. PICK e : e = <<>> OBVIOUS
<1>2. e \in Seq(LockOp) /\ Len(e) = 0 BY <1>1
<1>3. ASSUME Orderly(e, a, b) PROVE a = b BY <1>2, <1>3 DEF Orderly
<1>4. ASSUME a = b PROVE Orderly(e, a, b)
  <2>1. PICK d : d = [i \in 0 .. 0 |-> a] OBVIOUS
  <2>2. d \in [0 .. Len(e) -> Holding] /\ d[0] = a /\ d[Len(e)] = b BY <1>2, <1>4, <2>1
  <2>3. \A i \in 1 .. Len(e) : FALSE BY <1>2
  <2> QED BY <1>2, <2>2, <2>3 DEF Orderly
<1> QED BY <1>1, <1>3, <1>4

LEMMA OrderlyOne ==
  ASSUME NEW o \in LockOp, NEW a \in Holding, Allowed(o, a)
  PROVE  Orderly(<<o>>, a, After(o, a))
<1>1. PICK s : s = <<o>> OBVIOUS
<1>2. s \in Seq(LockOp) /\ Len(s) = 1 /\ s[1] = o BY <1>1
<1>3. PICK b \in Holding : b = After(o, a) BY AfterHolding
<1>4. PICK d : d = [i \in 0 .. 1 |-> IF i = 0 THEN a ELSE b] OBVIOUS
<1>5. d \in [0 .. Len(s) -> Holding] /\ d[0] = a /\ d[Len(s)] = b BY <1>2, <1>3, <1>4
<1>6. ASSUME NEW i \in 1 .. Len(s) PROVE Allowed(s[i], d[i - 1]) /\ d[i] = After(s[i], d[i - 1])
  <2>1. i = 1 /\ i - 1 = 0 BY <1>2
  <2> QED BY <1>2, <1>3, <1>4, <2>1
<1>7. Orderly(s, a, b) BY <1>2, <1>5, <1>6 DEF Orderly
<1> QED BY <1>1, <1>3, <1>7

LEMMA OrderlyThen ==
  ASSUME NEW s, NEW t, NEW a, NEW b, NEW c, Orderly(s, a, b), Orderly(t, b, c)
  PROVE  Orderly(s \o t, a, c)
<1>1. s \in Seq(LockOp) /\ t \in Seq(LockOp) BY DEF Orderly
<1>2. PICK m \in Nat : m = Len(s) BY <1>1
<1>3. PICK n \in Nat : n = Len(t) BY <1>1
<1>4. PICK r : r = s \o t OBVIOUS
<1>5. /\ r \in Seq(LockOp) /\ Len(r) = m + n
      /\ \A i \in 1 .. m + n : r[i] = IF i <= m THEN s[i] ELSE t[i - m]
  BY <1>1, <1>2, <1>3, <1>4, ConcatProperties
<1>6. PICK d \in [0 .. m -> Holding] :
        /\ d[0] = a /\ d[m] = b
        /\ \A i \in 1 .. m : Allowed(s[i], d[i - 1]) /\ d[i] = After(s[i], d[i - 1])
  BY <1>2 DEF Orderly
<1>7. PICK e \in [0 .. n -> Holding] :
        /\ e[0] = b /\ e[n] = c
        /\ \A i \in 1 .. n : Allowed(t[i], e[i - 1]) /\ e[i] = After(t[i], e[i - 1])
  BY <1>3 DEF Orderly
<1>8. PICK f : f = [i \in 0 .. m + n |-> IF i <= m THEN d[i] ELSE e[i - m]] OBVIOUS
<1>9. f \in [0 .. m + n -> Holding]
  <2>1. ASSUME NEW i \in 0 .. m + n PROVE f[i] \in Holding
    <3>1. CASE i <= m BY <1>8, <3>1
    <3>2. CASE ~(i <= m)
      <4>1. i - m \in 0 .. n BY <3>2
      <4> QED BY <1>8, <3>2, <4>1
    <3> QED BY <3>1, <3>2
  <2> QED BY <1>8, <2>1
<1>10. f[0] = a /\ f[m + n] = c
  <2>1. 0 \in 0 .. m + n /\ m + n \in 0 .. m + n /\ 0 <= m BY <1>2
  <2>2. f[0] = a BY <1>6, <1>8, <2>1
  <2>3. CASE n = 0 BY <1>6, <1>7, <1>8, <2>1, <2>3
  <2>4. CASE n # 0
    <3>1. ~(m + n <= m) /\ (m + n) - m = n BY <2>4
    <3> QED BY <1>7, <1>8, <2>1, <2>2, <3>1
  <2> QED BY <2>2, <2>3, <2>4
<1>11. ASSUME NEW i \in 1 .. m + n PROVE Allowed(r[i], f[i - 1]) /\ f[i] = After(r[i], f[i - 1])
  <2>1. i \in 0 .. m + n /\ i - 1 \in 0 .. m + n OBVIOUS
  <2>2. CASE i <= m
    <3>1. i \in 1 .. m /\ i - 1 <= m BY <2>2
    <3>2. r[i] = s[i] /\ f[i] = d[i] /\ f[i - 1] = d[i - 1] BY <1>5, <1>8, <2>1, <2>2, <3>1
    <3> QED BY <1>6, <3>1, <3>2
  <2>3. CASE i = m + 1
    <3>1. 1 \in 1 .. n /\ ~(i <= m) /\ i - m = 1 /\ i - 1 = m /\ 1 - 1 = 0 BY <2>3
    <3>2. r[i] = t[1] /\ f[i] = e[1] BY <1>5, <1>8, <2>1, <3>1
    <3>3. f[i - 1] = e[0]
      <4>1. i - 1 <= m BY <3>1
      <4> QED BY <1>6, <1>7, <1>8, <2>1, <3>1, <4>1
    <3>4. Allowed(t[1], e[0]) /\ e[1] = After(t[1], e[0]) BY <1>7, <3>1
    <3> QED BY <3>2, <3>3, <3>4
  <2>4. CASE i > m + 1
    <3>1. PICK j \in 1 .. n : j = i - m /\ j - 1 = (i - 1) - m BY <2>4
    <3>2. ~(i <= m) /\ ~(i - 1 <= m) BY <2>4
    <3>3. r[i] = t[j] /\ f[i] = e[j] /\ f[i - 1] = e[j - 1] BY <1>5, <1>8, <2>1, <3>1, <3>2
    <3> QED BY <1>7, <3>1, <3>3
  <2> QED BY <2>2, <2>3, <2>4
<1>12. Orderly(r, a, c) BY <1>5, <1>9, <1>10, <1>11 DEF Orderly
<1> QED BY <1>4, <1>12

\* The first operation is allowed, and the others go on from there.
LEMMA OrderlyFirst ==
  ASSUME NEW s, NEW a, NEW b, Orderly(s, a, b), s # <<>>
  PROVE  /\ Head(s) \in LockOp /\ a \in Holding /\ Allowed(Head(s), a)
         /\ Orderly(Tail(s), After(Head(s), a), b)
<1>1. s \in Seq(LockOp) BY DEF Orderly
<1>2. PICK n \in Nat : n = Len(s) /\ n > 0 BY <1>1
<1>3. PICK d \in [0 .. n -> Holding] :
        /\ d[0] = a /\ d[n] = b
        /\ \A i \in 1 .. n : Allowed(s[i], d[i - 1]) /\ d[i] = After(s[i], d[i - 1])
  BY <1>2 DEF Orderly
<1>4. PICK t : t = Tail(s) OBVIOUS
<1>5. t \in Seq(LockOp) /\ Len(t) = n - 1 /\ \A i \in 1 .. n - 1 : t[i] = s[i + 1]
  BY <1>1, <1>2, <1>4
<1>6. Head(s) = s[1] /\ s[1] \in LockOp BY <1>1, <1>2
<1>7. 0 \in 0 .. n /\ 1 \in 1 .. n /\ 1 - 1 = 0 BY <1>2
<1>8. a \in Holding /\ Allowed(s[1], a) /\ d[1] = After(s[1], a) BY <1>3, <1>7
<1>9. PICK e : e = [i \in 0 .. n - 1 |-> d[i + 1]] OBVIOUS
<1>10. e \in [0 .. n - 1 -> Holding] /\ e[0] = d[1] /\ e[n - 1] = b
  <2>1. \A i \in 0 .. n - 1 : i + 1 \in 0 .. n OBVIOUS
  <2>2. e \in [0 .. n - 1 -> Holding] BY <1>9, <2>1
  <2>3. 0 \in 0 .. n - 1 /\ n - 1 \in 0 .. n - 1 /\ 0 + 1 = 1 /\ (n - 1) + 1 = n BY <1>2
  <2>4. e[0] = d[1] /\ e[n - 1] = d[n] BY <1>9, <2>3
  <2> QED BY <1>3, <2>2, <2>4
<1>11. ASSUME NEW i \in 1 .. n - 1 PROVE Allowed(t[i], e[i - 1]) /\ e[i] = After(t[i], e[i - 1])
  <2>1. PICK j \in 1 .. n : j = i + 1 /\ j - 1 = i /\ (i - 1) + 1 = i OBVIOUS
  <2>2. i \in 0 .. n - 1 /\ i - 1 \in 0 .. n - 1 OBVIOUS
  <2>3. t[i] = s[j] /\ e[i] = d[j] /\ e[i - 1] = d[j - 1] BY <1>5, <1>9, <2>1, <2>2
  <2> QED BY <1>3, <2>3
<1>12. Orderly(t, d[1], b) BY <1>5, <1>10, <1>11 DEF Orderly
<1> QED BY <1>4, <1>6, <1>8, <1>12

-----------------------------------------------------------------------------
(* The functions that take the locks keep the order. *)

\* Functions that may run inside a read lock of the chain, functions that need
\* the chain unlocked, and functions that need both locks to be free.
Reads(s) == /\ s \in Seq(ChainOp)
            /\ \A h \in Holding : h["chain"] >= 0 => Orderly(s, h, h)
Works(s) == /\ s \in Seq(ChainOp)
            /\ \A h \in Holding : h["chain"] = 0 => Orderly(s, h, h)
Whole(s) == Orderly(s, Free, Free)

LEMMA FreeHolding == Free \in Holding
BY DEF Free, Holding

LEMMA ReadsWork == ASSUME NEW s, Reads(s) PROVE Works(s)
BY DEF Reads, Works

LEMMA WorksWhole == ASSUME NEW s, Works(s) PROVE Whole(s)
<1>1. Free["chain"] = 0 BY DEF Free, Lock
<1> QED BY <1>1, FreeHolding DEF Works, Whole

LEMMA WorksThen ==
  ASSUME NEW s, NEW t, Works(s), Works(t) PROVE Works(s \o t)
<1>1. s \o t \in Seq(ChainOp) BY ConcatProperties DEF Works
<1>2. ASSUME NEW h \in Holding, h["chain"] = 0 PROVE Orderly(s \o t, h, h)
  <2>1. Orderly(s, h, h) /\ Orderly(t, h, h) BY <1>2 DEF Works
  <2> QED BY <2>1, OrderlyThen
<1> QED BY <1>1, <1>2 DEF Works

LEMMA WholeThen ==
  ASSUME NEW s, NEW t, Whole(s), Whole(t) PROVE Whole(s \o t)
BY OrderlyThen DEF Whole

\* What runs inside a lock, between the operation that takes it and its release.
LEMMA OrderlyInside ==
  ASSUME NEW p \in LockOp, NEW q \in LockOp, NEW body, NEW a \in Holding, NEW b \in Holding,
         Allowed(p, a), After(p, a) = b, Orderly(body, b, b), Allowed(q, b), After(q, b) = a
  PROVE  Orderly(<<p>> \o body \o <<q>>, a, a)
<1>1. Orderly(<<p>>, a, b) BY OrderlyOne
<1>2. Orderly(<<q>>, b, a) BY OrderlyOne
<1>3. PICK s : s = <<p>> \o body OBVIOUS
<1>4. Orderly(s, a, b) BY <1>1, <1>3, OrderlyThen
<1>5. Orderly(s \o <<q>>, a, a) BY <1>2, <1>4, OrderlyThen
<1> QED BY <1>3, <1>5

LEMMA Operations ==
  ASSUME NEW k \in Kind, NEW l \in Lock
  PROVE  /\ Op(k, l) \in LockOp /\ Op(k, l).kind = k /\ Op(k, l).lock = l
         /\ Op(k, "chain") \in ChainOp
BY DEF Op, LockOp, ChainOp, Lock

\* A lock changes what is held of it by one, and its release changes it back.
LEMMA HeldInside ==
  ASSUME NEW h \in Holding, NEW l \in Lock, NEW x \in Int, x = h[l] + 1 \/ x = h[l] - 1, x >= -1
  PROVE  /\ [h EXCEPT ![l] = x] \in Holding
         /\ [h EXCEPT ![l] = x][l] = x
         /\ [[h EXCEPT ![l] = x] EXCEPT ![l] = h[l]] = h
BY DEF Holding

LEMMA RdOrderly ==
  ASSUME NEW l \in Lock, NEW body, NEW h \in Holding, NEW g \in Holding,
         h[l] >= 0, l = "pool" => h = Free, g = [h EXCEPT ![l] = h[l] + 1], Orderly(body, g, g)
  PROVE  Orderly(Rd(l, body), h, h)
<1>1. PICK p \in LockOp : p = Op("RLock", l) /\ p.kind = "RLock" /\ p.lock = l
  BY Operations DEF Kind
<1>2. PICK q \in LockOp : q = Op("RUnlock", l) /\ q.kind = "RUnlock" /\ q.lock = l
  BY Operations DEF Kind
<1>3. PICK x \in Int : x = h[l] BY DEF Holding
<1>4. g = [h EXCEPT ![l] = x + 1] /\ g[l] = x + 1 /\ x >= 0 BY <1>3 DEF Holding
<1>5. Allowed(p, h) /\ After(p, h) = g BY <1>1, <1>3, <1>4 DEF Allowed, After, Change
<1>6. Allowed(q, g)
  <2>1. g[l] > 0 BY <1>4
  <2> QED BY <1>2, <2>1 DEF Allowed
<1>7. After(q, g) = h
  <2>1. After(q, g) = [g EXCEPT ![l] = g[l] + -1] BY <1>2 DEF After, Change
  <2>2. g[l] + -1 = h[l] BY <1>3, <1>4
  <2>3. After(q, g) = [g EXCEPT ![l] = h[l]] BY <2>1, <2>2
  <2> QED BY <1>4, <2>3 DEF Holding
<1>8. Orderly(<<p>> \o body \o <<q>>, h, h) BY <1>5, <1>6, <1>7, OrderlyInside
<1> QED BY <1>1, <1>2, <1>8 DEF Rd

LEMMA WrOrderly ==
  ASSUME NEW l \in Lock, NEW body, NEW h \in Holding, NEW g \in Holding,
         h[l] = 0, l = "pool" => h = Free, g = [h EXCEPT ![l] = -1], Orderly(body, g, g)
  PROVE  Orderly(Wr(l, body), h, h)
<1>1. PICK p \in LockOp : p = Op("Lock", l) /\ p.kind = "Lock" /\ p.lock = l
  BY Operations DEF Kind
<1>2. PICK q \in LockOp : q = Op("Unlock", l) /\ q.kind = "Unlock" /\ q.lock = l
  BY Operations DEF Kind
<1>3. g[l] = -1 BY DEF Holding
<1>4. Allowed(p, h) BY <1>1 DEF Allowed
<1>5. After(p, h) = g
  <2>1. h[l] + -1 = -1 OBVIOUS
  <2>2. After(p, h) = [h EXCEPT ![l] = h[l] + -1] BY <1>1 DEF After, Change
  <2> QED BY <2>1, <2>2
<1>6. Allowed(q, g) BY <1>2, <1>3 DEF Allowed
<1>7. After(q, g) = h
  <2>1. After(q, g) = [g EXCEPT ![l] = g[l] + 1] BY <1>2 DEF After, Change
  <2>2. g[l] + 1 = h[l] BY <1>3
  <2>3. After(q, g) = [g EXCEPT ![l] = h[l]] BY <2>1, <2>2
  <2> QED BY <2>3 DEF Holding
<1>8. Orderly(<<p>> \o body \o <<q>>, h, h) BY <1>4, <1>5, <1>6, <1>7, OrderlyInside
<1> QED BY <1>1, <1>2, <1>8 DEF Wr

LEMMA ChainOps ==
  ASSUME NEW body \in Seq(ChainOp)
  PROVE  Rd("chain", body) \in Seq(ChainOp) /\ Wr("chain", body) \in Seq(ChainOp)
<1>1. \A k \in Kind : Op(k, "chain") \in ChainOp BY DEF Op, ChainOp
<1>2. PICK a \in ChainOp : a = Op("RLock", "chain") BY <1>1 DEF Kind
<1>3. PICK b \in ChainOp : b = Op("RUnlock", "chain") BY <1>1 DEF Kind
<1>4. PICK c \in ChainOp : c = Op("Lock", "chain") BY <1>1 DEF Kind
<1>5. PICK d \in ChainOp : d = Op("Unlock", "chain") BY <1>1 DEF Kind
<1>6. <<a>> \o body \o <<b>> \in Seq(ChainOp) /\ <<c>> \o body \o <<d>> \in Seq(ChainOp)
  OBVIOUS
<1> QED BY <1>2, <1>3, <1>4, <1>5, <1>6 DEF Rd, Wr

LEMMA NoneReads == Reads(<<>>)
<1>1. \A h \in Holding : Orderly(<<>>, h, h) BY OrderlyNone
<1> QED BY <1>1 DEF Reads

LEMMA RdReads == ASSUME NEW s, Reads(s) PROVE Reads(Rd("chain", s))
<1>1. Rd("chain", s) \in Seq(ChainOp) BY ChainOps DEF Reads
<1>2. ASSUME NEW h \in Holding, h["chain"] >= 0 PROVE Orderly(Rd("chain", s), h, h)
  <2>1. PICK l \in Lock : l = "chain" BY DEF Lock
  <2>2. PICK g : g = [h EXCEPT ![l] = h[l] + 1] OBVIOUS
  <2>3. g \in Holding /\ g["chain"] >= 0 BY <1>2, <2>1, <2>2 DEF Holding
  <2>4. Orderly(s, g, g) BY <2>3 DEF Reads
  <2>5. h[l] >= 0 /\ l # "pool" BY <1>2, <2>1
  <2>6. Orderly(Rd(l, s), h, h) BY <2>2, <2>3, <2>4, <2>5, RdOrderly
  <2> QED BY <2>1, <2>6
<1> QED BY <1>1, <1>2 DEF Reads

LEMMA WrWorks == Works(Wr("chain", <<>>))
<1>1. PICK s : s = <<>> OBVIOUS
<1>2. s \in Seq(ChainOp) BY <1>1
<1>3. Wr("chain", s) \in Seq(ChainOp) BY <1>2, ChainOps
<1>4. ASSUME NEW h \in Holding, h["chain"] = 0 PROVE Orderly(Wr("chain", s), h, h)
  <2>1. PICK l \in Lock : l = "chain" BY DEF Lock
  <2>2. PICK g : g = [h EXCEPT ![l] = -1] OBVIOUS
  <2>3. g \in Holding BY <2>2 DEF Holding
  <2>4. Orderly(s, g, g) BY <1>1, <2>3, OrderlyNone
  <2>5. h[l] = 0 /\ l # "pool" BY <1>4, <2>1
  <2>6. Orderly(Wr(l, s), h, h) BY <2>2, <2>3, <2>4, <2>5, WrOrderly
  <2> QED BY <2>1, <2>6
<1> QED BY <1>1, <1>3, <1>4 DEF Works

\* The mempool is locked by a goroutine that holds nothing.
LEMMA PoolWhole ==
  ASSUME NEW s, Works(s) PROVE Whole(Rd("pool", s)) /\ Whole(Wr("pool", s))
<1>1. PICK l \in Lock : l = "pool" BY DEF Lock
<1>2. PICK h \in Holding : h = Free BY FreeHolding
<1>3. h[l] = 0 /\ h["chain"] = 0 /\ "chain" \in Lock /\ l # "chain" BY <1>1, <1>2 DEF Free, Lock
<1>4. Orderly(Rd(l, s), h, h)
  <2>1. PICK g : g = [h EXCEPT ![l] = h[l] + 1] OBVIOUS
  <2>2. g \in Holding /\ g["chain"] = 0 BY <1>3, <2>1 DEF Holding
  <2>3. Orderly(s, g, g) BY <2>2 DEF Works
  <2>4. h[l] >= 0 BY <1>3
  <2> QED BY <1>2, <2>1, <2>2, <2>3, <2>4, RdOrderly
<1>5. Orderly(Wr(l, s), h, h)
  <2>1. PICK g : g = [h EXCEPT ![l] = -1] OBVIOUS
  <2>2. g \in Holding /\ g["chain"] = 0 BY <1>3, <2>1 DEF Holding
  <2>3. Orderly(s, g, g) BY <2>2 DEF Works
  <2> QED BY <1>2, <1>3, <2>1, <2>2, <2>3, WrOrderly
<1> QED BY <1>1, <1>2, <1>4, <1>5 DEF Whole

LEMMA CommandsWork == \A s \in Commands : Works(s)
<1>1. Reads(Rd("chain", <<>>)) BY NoneReads, RdReads
<1>2. Reads(Iterator) BY <1>1 DEF Iterator
<1>3. Reads(FindTransaction) BY <1>2, RdReads DEF FindTransaction
<1>4. Reads(SignTransaction) BY <1>3, RdReads DEF SignTransaction
<1>5. Works(getBalance) BY <1>1, ReadsWork DEF getBalance
<1>6. Works(getAllBalances) BY <1>5, WorksThen DEF getAllBalances
<1>7. Works(printChain) BY <1>2, ReadsWork DEF printChain
<1>8. Works(checkupdate) BY <1>1, ReadsWork DEF checkupdate, GetLastBlockHeight
<1>9. Works(send)
  <2>1. Works(Rd("chain", <<>>)) /\ Works(SignTransaction) BY <1>1, <1>4, ReadsWork
  <2> QED BY <2>1, WorksThen DEF send
<1>10. Works(reindexUTXO)
  <2>1. Works(FindUTXO) BY <1>2, RdReads, ReadsWork DEF FindUTXO
  <2>2. Works(Wr("chain", <<>>) \o FindUTXO) BY <2>1, WrWorks, WorksThen
  <2> QED BY <2>2, WrWorks, WorksThen DEF reindexUTXO
<1> QED BY <1>5, <1>6, <1>7, <1>8, <1>9, <1>10 DEF Commands

LEMMA HandlersWhole == \A s \in Handlers : Whole(s)
<1>1. Reads(Rd("chain", <<>>)) /\ Works(Rd("chain", <<>>)) BY NoneReads, RdReads, ReadsWork
<1>2. Reads(Iterator) BY <1>1 DEF Iterator
<1>3. Reads(FindTransaction) BY <1>2, RdReads DEF FindTransaction
<1>4. Works(VerifyTransaction) BY <1>3, RdReads, ReadsWork DEF VerifyTransaction
<1>5. Works(AddBlock) /\ Works(Update) BY WrWorks DEF AddBlock, Update
<1>6. Works(<<>>) BY NoneReads, ReadsWork
<1>7. Whole(handleGetBlocks)
  BY <1>2, RdReads, ReadsWork, WorksWhole DEF handleGetBlocks, GetBlockHashes
<1>8. Whole(handleInventory) BY <1>6, PoolWhole DEF handleInventory
<1>9. Whole(handleGetData) BY <1>1, WorksWhole DEF handleGetData, GetBlock
<1>10. Whole(handleVersion)
  <2>1. Whole(GetLastBlockHeight) BY <1>1, WorksWhole DEF GetLastBlockHeight
  <2> QED BY <2>1, WholeThen DEF handleVersion
<1>11. Whole(handleBlock)
  <2>1. Whole(AddBlock) BY <1>5, WorksWhole
  <2>2. Whole(Wr("pool", Update)) BY <1>5, PoolWhole
  <2>3. Whole(Rd("pool", <<>>)) BY <1>6, PoolWhole
  <2>4. Whole(AddBlock \o Wr("pool", Update)) BY <2>1, <2>2, WholeThen
  <2> QED BY <2>3, <2>4, WholeThen DEF handleBlock
<1>12. Whole(MineBlock)
  <2>1. Works(GetLatest) BY <1>1 DEF GetLatest
  <2>2. Works(VerifyTransaction \o GetLatest) BY <1>4, <2>1, WorksThen
  <2>3. Works(VerifyTransaction \o GetLatest \o VerifyTransaction) BY <1>4, <2>2, WorksThen
  <2>4. Works(MineBlock) BY <2>3, WrWorks, WorksThen DEF MineBlock
  <2> QED BY <2>4, WorksWhole
<1>13. Whole(handleTx)
  <2>1. Whole(Wr("pool", <<>>)) /\ Whole(Rd("pool", <<>>)) BY <1>6, PoolWhole
  <2>2. Whole(Wr("pool", VerifyTransaction)) BY <1>4, PoolWhole
  <2>3. Whole(Update) BY <1>5, WorksWhole
  <2>4. Whole(Wr("pool", <<>>) \o Rd("pool", <<>>)) BY <2>1, WholeThen
  <2>5. Whole(Wr("pool", <<>>) \o Rd("pool", <<>>) \o Wr("pool", VerifyTransaction))
    BY <2>2, <2>4, WholeThen
  <2>6. Whole(Wr("pool", <<>>) \o Rd("pool", <<>>) \o Wr("pool", VerifyTransaction) \o MineBlock)
    BY <1>12, <2>5, WholeThen
  <2>7. Whole(Wr("pool", <<>>) \o Rd("pool", <<>>) \o Wr("pool", VerifyTransaction) \o MineBlock
                \o Update)
    BY <2>3, <2>6, WholeThen
  <2>8. Whole(Wr("pool", <<>>) \o Rd("pool", <<>>) \o Wr("pool", VerifyTransaction) \o MineBlock
                \o Update \o Wr("pool", <<>>))
    BY <2>1, <2>7, WholeThen
  <2> QED BY <2>1, <2>8, WholeThen DEF handleTx
<1> QED BY <1>7, <1>8, <1>9, <1>10, <1>11, <1>13 DEF Handlers

-----------------------------------------------------------------------------
(* The inductive invariant: every goroutine is where its code leaves it,   *)
(* with what it holds in order, and whoever waits is in front of the       *)
(* operation it waits for.                                                 *)

Held(g) == [l \in Lock |-> IF writer[l] = g /\ writing[l] THEN -1 ELSE readers[l][g]]

InOrder == \A g \in Goroutine : Orderly(todo[g], Held(g), Free)
ShellInChain ==
  \A g \in Shell : todo[g] \in Seq(ChainOp) /\ readers["pool"][g] = 0 /\ writer["pool"] # g
WaitsThere ==
  \A g \in Goroutine, l \in Lock :
    /\ g \in waiting[l] => Calls(g, "RLock", l)
    /\ writer[l] = g /\ ~writing[l] => Calls(g, "Lock", l)

OrderInv == /\ TypeOK /\ todo \in [Goroutine -> Seq(LockOp)]
            /\ InOrder /\ ShellInChain /\ WaitsThere

LEMMA HeldHolding == ASSUME TypeOK, NEW g \in Goroutine PROVE Held(g) \in Holding
BY DEF TypeOK, Held, Holding

\* What the goroutines run keeps the order; the shell does not lock the mempool.
OrderedScripts ==
  \A g \in Goroutine : \A s \in Scripts[g] : IF g \in Shell THEN Works(s) ELSE Whole(s)

LEMMA ScriptsOrdered == OrderedScripts
BY ScriptAssumption, CommandsWork, HandlersWhole DEF OrderedScripts

LEMMA OrderInit == OrderedScripts /\ Init => OrderInv
<1> SUFFICES ASSUME OrderedScripts, Init PROVE OrderInv OBVIOUS
<1>1. TypeOK BY InitTypeOK
<1>2. ASSUME NEW g \in Goroutine
      PROVE  /\ Orderly(todo[g], Held(g), Free) /\ todo[g] \in Seq(LockOp)
             /\ g \in Shell => todo[g] \in Seq(ChainOp)
  <2>1. Held(g) = Free
    <3>1. g # NoOne BY LockAssumption DEF NoOne
    <3> QED BY <3>1 DEF Init, Held, Free
  <2>2. IF g \in Shell THEN Works(todo[g]) ELSE Whole(todo[g]) BY DEF Init, OrderedScripts
  <2>3. CASE g \in Shell
    <3>1. Works(todo[g]) BY <2>2, <2>3
    <3>2. Whole(todo[g]) BY <3>1, WorksWhole
    <3> QED BY <2>1, <3>1, <3>2 DEF Works, Whole, Orderly
  <2>4. CASE g \notin Shell
    <3>1. Whole(todo[g]) BY <2>2, <2>4
    <3> QED BY <2>1, <2>4, <3>1 DEF Whole, Orderly
  <2> QED BY <2>3, <2>4
<1>3. InOrder BY <1>2 DEF InOrder
<1>4. todo \in [Goroutine -> Seq(LockOp)] BY <1>2 DEF Init
<1>5. ShellInChain
  <2> SUFFICES ASSUME NEW g \in Shell
               PROVE  todo[g] \in Seq(ChainOp) /\ readers["pool"][g] = 0 /\ writer["pool"] # g
    BY DEF ShellInChain
  <2>1. g \in Goroutine /\ g # NoOne BY LockAssumption DEF NoOne
  <2> QED BY <1>2, <2>1 DEF Init, Lock
<1>6. WaitsThere
  <2>1. \A g \in Goroutine : g # NoOne BY LockAssumption DEF NoOne
  <2> QED BY <2>1 DEF Init, WaitsThere
<1> QED BY <1>1, <1>3, <1>4, <1>5, <1>6 DEF OrderInv

\* A goroutine stays where it is, or carries out its next operation.
Stays(r)    == todo'[r] = todo[r] /\ Held(r)' = Held(r)
Advances(r) == /\ todo[r] # <<>> /\ todo'[r] = Tail(todo[r])
               /\ Held(r)' = After(Head(todo[r]), Held(r))

LEMMA OrderKept ==
  ASSUME OrderInv, todo' \in [Goroutine -> Seq(LockOp)],
         \A r \in Goroutine : Stays(r) \/ Advances(r)
  PROVE  InOrder'
<1> SUFFICES ASSUME NEW r \in Goroutine PROVE Orderly(todo'[r], Held(r)', Free')
  BY DEF InOrder
<1>1. Free' = Free BY DEF Free
<1>2. Orderly(todo[r], Held(r), Free) BY DEF OrderInv, InOrder
<1>3. CASE Stays(r) BY <1>1, <1>2, <1>3 DEF Stays
<1>4. CASE Advances(r) BY <1>1, <1>2, <1>4, OrderlyFirst DEF Advances
<1> QED BY <1>3, <1>4

LEMMA ShellKept ==
  ASSUME OrderInv, todo' \in [Goroutine -> Seq(LockOp)],
         \A r \in Goroutine : todo'[r] = todo[r] \/ (todo[r] # <<>> /\ todo'[r] = Tail(todo[r])),
         \A g \in Shell : readers'["pool"][g] = 0 /\ writer'["pool"] # g
  PROVE  ShellInChain'
<1> SUFFICES ASSUME NEW g \in Shell PROVE todo'[g] \in Seq(ChainOp) BY DEF ShellInChain
<1>1. g \in Goroutine BY LockAssumption
<1>2. todo[g] \in Seq(ChainOp) BY DEF OrderInv, ShellInChain
<1>3. PICK s \in Seq(ChainOp) : s = todo[g] BY <1>2
<1>4. s # <<>> => Tail(s) \in Seq(ChainOp) OBVIOUS
<1> QED BY <1>1, <1>3, <1>4

\* The next operation of goroutine r, if it calls one.
LEMMA CallFacts ==
  ASSUME OrderInv, NEW r \in Goroutine, NEW l \in Lock, NEW k \in Kind, Calls(r, k, l)
  PROVE  /\ todo[r] # <<>> /\ Head(todo[r]).kind = k /\ Head(todo[r]).lock = l
         /\ Tail(todo[r]) \in Seq(LockOp)
         /\ r \in Shell => l = "chain"
         /\ \A j \in Lock, q \in Kind : Calls(r, q, j) => q = k /\ j = l
<1>1. todo[r] # <<>> /\ Head(todo[r]) = Op(k, l) BY DEF Calls, Done
<1>2. PICK s \in Seq(LockOp) : s = todo[r] BY DEF OrderInv
<1>3. Tail(s) \in Seq(LockOp) BY <1>1, <1>2
<1>4. ASSUME r \in Shell PROVE l = "chain"
  <2>1. PICK t \in Seq(ChainOp) : t = todo[r] BY <1>4 DEF OrderInv, ShellInChain
  <2>2. Head(t) \in ChainOp BY <1>1, <2>1
  <2> QED BY <1>1, <2>1, <2>2 DEF ChainOp, Op
<1>5. \A j \in Lock, q \in Kind : Op(q, j) = Op(k, l) => q = k /\ j = l BY DEF Op
<1> QED BY <1>1, <1>2, <1>3, <1>4, <1>5, Operations DEF Calls, Done

\* Goroutine r does what its next operation says to what it holds of lock l.
LEMMA HeldAfter ==
  ASSUME NEW h \in Holding, NEW l \in Lock, NEW o, o.lock = l, NEW g \in [Lock -> Int],
         g[l] = h[l] + Change(o.kind), \A k \in Lock \ {l} : g[k] = h[k]
  PROVE  g = After(o, h)
<1>1. After(o, h) = [h EXCEPT ![l] = h[l] + Change(o.kind)] BY DEF After
<1> QED BY <1>1 DEF Holding

LEMMA RLockKeeps ==
  ASSUME OrderInv, TypeOK', NEW g \in Goroutine, NEW l \in Lock, RLock(g, l) PROVE OrderInv'
<1>1. "RLock" \in Kind /\ Calls(g, "RLock", l) BY DEF RLock, Kind
<1>2. /\ todo[g] # <<>> /\ Head(todo[g]).kind = "RLock" /\ Head(todo[g]).lock = l
      /\ Tail(todo[g]) \in Seq(LockOp)
  BY <1>1, CallFacts
<1>3. \A r \in Goroutine : todo'[r] = IF r = g THEN Tail(todo[r]) ELSE todo[r]
  BY DEF RLock, Advance
<1>4. todo' \in [Goroutine -> Seq(LockOp)]
  BY <1>2, <1>3 DEF RLock, Advance, OrderInv
<1>5. \A k \in Lock, r \in Goroutine :
        readers'[k][r] = IF k = l /\ r = g THEN readers[k][r] + 1 ELSE readers[k][r]
  BY DEF RLock, OrderInv, TypeOK
<1>6. writer' = writer /\ writing' = writing /\ waiting' = waiting /\ writer[l] = NoOne
  BY DEF RLock
<1>7. g # NoOne BY LockAssumption DEF NoOne
<1>8. \A r \in Goroutine : Stays(r) \/ Advances(r)
  <2>1. ASSUME NEW r \in Goroutine, r # g PROVE Stays(r)
    BY <1>3, <1>5, <1>6, <2>1 DEF Stays, Held
  <2>2. Advances(g)
    <3>1. Held(g) \in Holding BY HeldHolding DEF OrderInv
    <3>2. PICK h : h = Held(g)' OBVIOUS
    <3>3. h \in [Lock -> Int] BY <3>2 DEF TypeOK, Held
    <3>4. h[l] = Held(g)[l] + 1 BY <1>5, <1>6, <1>7, <3>2 DEF Held
    <3>5. \A k \in Lock \ {l} : h[k] = Held(g)[k] BY <1>5, <1>6, <3>2 DEF Held
    <3>6. h = After(Head(todo[g]), Held(g)) BY <1>2, <3>1, <3>3, <3>4, <3>5, HeldAfter DEF Change
    <3> QED BY <1>2, <1>3, <3>2, <3>6 DEF Advances
  <2> QED BY <2>1, <2>2
<1>9. InOrder' BY <1>4, <1>8, OrderKept
<1>10. ShellInChain'
  <2>1. g \in Shell => l = "chain" BY <1>1, CallFacts
  <2>2. "pool" \in Lock /\ Shell \subseteq Goroutine BY LockAssumption DEF Lock
  <2>3. \A r \in Shell : readers'["pool"][r] = 0 /\ writer'["pool"] # r
    BY <1>5, <1>6, <2>1, <2>2 DEF OrderInv, ShellInChain
  <2> QED BY <1>2, <1>3, <1>4, <2>3, ShellKept
<1>11. WaitsThere'
  <2> SUFFICES ASSUME NEW r \in Goroutine, NEW k \in Lock
               PROVE  /\ r \in waiting[k] => Calls(r, "RLock", k)'
                      /\ writer[k] = r /\ ~writing[k] => Calls(r, "Lock", k)'
    BY <1>6 DEF WaitsThere
  <2>1. /\ r \in waiting[k] => Calls(r, "RLock", k)
        /\ writer[k] = r /\ ~writing[k] => Calls(r, "Lock", k)
    BY DEF OrderInv, WaitsThere
  <2>2. CASE r # g BY <1>3, <2>1, <2>2 DEF Calls, Done
  <2>3. CASE r = g
    <3>1. waiting[l] = {} BY <1>6 DEF OrderInv, TypeOK
    <3>2. "RLock" \in Kind /\ "Lock" \in Kind BY DEF Kind
    <3> QED BY <1>1, <2>1, <2>3, <3>1, <3>2, CallFacts
  <2> QED BY <2>2, <2>3
<1> QED BY <1>4, <1>9, <1>10, <1>11 DEF OrderInv

LEMMA RUnlockKeeps ==
  ASSUME OrderInv, TypeOK', NEW g \in Goroutine, NEW l \in Lock, RUnlock(g, l) PROVE OrderInv'
<1>1. "RUnlock" \in Kind /\ Calls(g, "RUnlock", l) BY DEF RUnlock, Kind
<1>2. /\ todo[g] # <<>> /\ Head(todo[g]).kind = "RUnlock" /\ Head(todo[g]).lock = l
      /\ Tail(todo[g]) \in Seq(LockOp)
  BY <1>1, CallFacts
<1>3. \A r \in Goroutine : todo'[r] = IF r = g THEN Tail(todo[r]) ELSE todo[r]
  BY DEF RUnlock, Advance
<1>4. todo' \in [Goroutine -> Seq(LockOp)]
  BY <1>2, <1>3 DEF RUnlock, Advance, OrderInv
<1>5. \A k \in Lock, r \in Goroutine :
        readers'[k][r] = IF k = l /\ r = g THEN readers[k][r] - 1 ELSE readers[k][r]
  BY DEF RUnlock, OrderInv, TypeOK
<1>6. writer' = writer /\ writing' = writing /\ waiting' = waiting /\ readers[l][g] > 0
  BY DEF RUnlock
<1>7. ~writing[l]
  <2>1. readers[l][g] # 0 /\ (writing[l] => readers[l][g] = 0) BY <1>6 DEF OrderInv, TypeOK
  <2> QED BY <2>1
<1>8. \A r \in Goroutine : Stays(r) \/ Advances(r)
  <2>1. ASSUME NEW r \in Goroutine, r # g PROVE Stays(r)
    BY <1>3, <1>5, <1>6, <2>1 DEF Stays, Held
  <2>2. Advances(g)
    <3>1. Held(g) \in Holding BY HeldHolding DEF OrderInv
    <3>2. PICK h : h = Held(g)' OBVIOUS
    <3>3. h \in [Lock -> Int] BY <3>2 DEF TypeOK, Held
    <3>4. h[l] = Held(g)[l] + -1
      <4>1. h[l] = readers'[l][g] /\ Held(g)[l] = readers[l][g] BY <1>6, <1>7, <3>2 DEF Held
      <4>2. readers[l][g] \in Nat BY DEF OrderInv, TypeOK
      <4> QED BY <1>5, <4>1, <4>2
    <3>5. \A k \in Lock \ {l} : h[k] = Held(g)[k] BY <1>5, <1>6, <3>2 DEF Held
    <3>6. h = After(Head(todo[g]), Held(g)) BY <1>2, <3>1, <3>3, <3>4, <3>5, HeldAfter DEF Change
    <3> QED BY <1>2, <1>3, <3>2, <3>6 DEF Advances
  <2> QED BY <2>1, <2>2
<1>9. InOrder' BY <1>4, <1>8, OrderKept
<1>10. ShellInChain'
  <2>1. g \in Shell => l = "chain" BY <1>1, CallFacts
  <2>2. "pool" \in Lock /\ Shell \subseteq Goroutine BY LockAssumption DEF Lock
  <2>3. \A r \in Shell : readers'["pool"][r] = 0 /\ writer'["pool"] # r
    BY <1>5, <1>6, <2>1, <2>2 DEF OrderInv, ShellInChain
  <2> QED BY <1>2, <1>3, <1>4, <2>3, ShellKept
<1>11. WaitsThere'
  <2> SUFFICES ASSUME NEW r \in Goroutine, NEW k \in Lock
               PROVE  /\ r \in waiting[k] => Calls(r, "RLock", k)'
                      /\ writer[k] = r /\ ~writing[k] => Calls(r, "Lock", k)'
    BY <1>6 DEF WaitsThere
  <2>1. /\ r \in waiting[k] => Calls(r, "RLock", k)
        /\ writer[k] = r /\ ~writing[k] => Calls(r, "Lock", k)
    BY DEF OrderInv, WaitsThere
  <2>2. CASE r # g BY <1>3, <2>1, <2>2 DEF Calls, Done
  <2>3. CASE r = g
    <3>1. "RLock" \in Kind /\ "Lock" \in Kind BY DEF Kind
    <3> QED BY <1>1, <2>1, <2>3, <3>1, CallFacts
  <2> QED BY <2>2, <2>3
<1> QED BY <1>4, <1>9, <1>10, <1>11 DEF OrderInv

\* RLockWait and Announce only say who waits.
LEMMA WaitKeeps ==
  ASSUME OrderInv, TypeOK', NEW g \in Goroutine, NEW l \in Lock, RLockWait(g, l) \/ Announce(g, l)
  PROVE  OrderInv'
<1>1. todo' = todo /\ readers' = readers /\ writing' = writing
  BY DEF RLockWait, Announce
<1>2. PICK k \in Kind : Calls(g, k, l) /\ (k = "RLock" => RLockWait(g, l))
                                       /\ (k = "Lock" => Announce(g, l)) /\ k \in {"RLock", "Lock"}
  <2>1. "RLock" \in Kind /\ "Lock" \in Kind BY DEF Kind
  <2>2. CASE RLockWait(g, l) BY <2>1, <2>2 DEF RLockWait
  <2>3. CASE Announce(g, l) BY <2>1, <2>3 DEF Announce
  <2> QED BY <2>2, <2>3
<1>3. \A j \in Lock : \/ writer'[j] = writer[j]
                      \/ /\ j = l /\ k = "Lock" /\ writer'[j] = g
                         /\ ~writing[j] /\ ~(writer[j] \in Goroutine)
  <2>1. CASE k = "RLock" BY <1>2, <2>1 DEF RLockWait
  <2>2. CASE k = "Lock"
    <3>1. writer[l] = NoOne /\ writer' = [writer EXCEPT ![l] = g] BY <1>2, <2>2 DEF Announce
    <3>2. ~writing[l] /\ NoOne \notin Goroutine BY <3>1, LockAssumption DEF OrderInv, TypeOK, NoOne
    <3> QED BY <2>2, <3>1, <3>2 DEF OrderInv, TypeOK
  <2> QED BY <1>2, <2>1, <2>2
<1>4. \A j \in Lock : \A r \in waiting'[j] : r \in waiting[j] \/ (j = l /\ r = g /\ k = "RLock")
  <2>1. CASE k = "RLock" BY <1>2, <2>1 DEF RLockWait, OrderInv, TypeOK
  <2>2. CASE k = "Lock" BY <1>2, <2>2 DEF Announce
  <2> QED BY <1>2, <2>1, <2>2
<1>5. \A r \in Goroutine : Held(r)' = Held(r)
  <2> TAKE r \in Goroutine
  <2>1. \A j \in Lock : (writer'[j] = r /\ writing[j]) <=> (writer[j] = r /\ writing[j]) BY <1>3
  <2> QED BY <1>1, <2>1 DEF Held
<1>6. InOrder' BY <1>1, <1>5, OrderKept DEF OrderInv, Stays
<1>7. ShellInChain'
  <2>1. g \in Shell => l = "chain" BY <1>2, CallFacts
  <2>2. "pool" \in Lock BY DEF Lock
  <2>3. \A r \in Shell : readers'["pool"][r] = 0 /\ writer'["pool"] # r
    BY <1>1, <1>3, <2>1, <2>2 DEF OrderInv, ShellInChain
  <2> QED BY <1>1, <2>3 DEF OrderInv, ShellInChain
<1>8. WaitsThere'
  <2> SUFFICES ASSUME NEW r \in Goroutine, NEW j \in Lock
               PROVE  /\ r \in waiting'[j] => Calls(r, "RLock", j)
                      /\ writer'[j] = r /\ ~writing[j] => Calls(r, "Lock", j)
    BY <1>1 DEF WaitsThere, Calls, Done
  <2> QED BY <1>2, <1>3, <1>4 DEF OrderInv, WaitsThere
<1> QED BY <1>1, <1>6, <1>7, <1>8 DEF OrderInv

LEMMA AcquireKeeps ==
  ASSUME OrderInv, TypeOK', NEW g \in Goroutine, NEW l \in Lock, Acquire(g, l) PROVE OrderInv'
<1>1. "Lock" \in Kind /\ Calls(g, "Lock", l) BY DEF Acquire, OrderInv, WaitsThere, Kind
<1>2. /\ todo[g] # <<>> /\ Head(todo[g]).kind = "Lock" /\ Head(todo[g]).lock = l
      /\ Tail(todo[g]) \in Seq(LockOp)
  BY <1>1, CallFacts
<1>3. \A r \in Goroutine : todo'[r] = IF r = g THEN Tail(todo[r]) ELSE todo[r]
  BY DEF Acquire, Advance
<1>4. todo' \in [Goroutine -> Seq(LockOp)]
  BY <1>2, <1>3 DEF Acquire, Advance, OrderInv
<1>5. /\ readers' = readers /\ writer' = writer /\ waiting' = waiting
      /\ writer[l] = g /\ ~writing[l] /\ readers[l][g] = 0
  BY DEF Acquire
<1>6. \A k \in Lock : writing'[k] <=> k = l \/ writing[k] BY DEF Acquire, OrderInv, TypeOK
<1>7. \A r \in Goroutine : Stays(r) \/ Advances(r)
  <2>1. ASSUME NEW r \in Goroutine, r # g PROVE Stays(r)
    <3>1. \A k \in Lock : (writer[k] = r /\ writing'[k]) <=> (writer[k] = r /\ writing[k])
      BY <1>5, <1>6, <2>1
    <3> QED BY <1>3, <1>5, <2>1, <3>1 DEF Stays, Held
  <2>2. Advances(g)
    <3>1. Held(g) \in Holding BY HeldHolding DEF OrderInv
    <3>2. PICK h : h = Held(g)' OBVIOUS
    <3>3. h \in [Lock -> Int] BY <3>2 DEF TypeOK, Held
    <3>4. h[l] = Held(g)[l] + -1
      <4>1. h[l] = -1 /\ Held(g)[l] = 0 BY <1>5, <1>6, <3>2 DEF Held
      <4> QED BY <4>1
    <3>5. \A k \in Lock \ {l} : h[k] = Held(g)[k]
      <4>1. \A k \in Lock \ {l} : writing'[k] <=> writing[k] BY <1>6
      <4> QED BY <1>5, <3>2, <4>1 DEF Held
    <3>6. h = After(Head(todo[g]), Held(g)) BY <1>2, <3>1, <3>3, <3>4, <3>5, HeldAfter DEF Change
    <3> QED BY <1>2, <1>3, <3>2, <3>6 DEF Advances
  <2> QED BY <2>1, <2>2
<1>8. InOrder' BY <1>4, <1>7, OrderKept
<1>9. ShellInChain'
  <2>1. \A r \in Shell : readers'["pool"][r] = 0 /\ writer'["pool"] # r
    BY <1>5 DEF OrderInv, ShellInChain
  <2> QED BY <1>2, <1>3, <1>4, <2>1, ShellKept
<1>10. WaitsThere'
  <2> SUFFICES ASSUME NEW r \in Goroutine, NEW k \in Lock
               PROVE  /\ r \in waiting[k] => Calls(r, "RLock", k)'
                      /\ writer[k] = r /\ ~writing'[k] => Calls(r, "Lock", k)'
    BY <1>5 DEF WaitsThere
  <2>1. /\ r \in waiting[k] => Calls(r, "RLock", k)
        /\ writer[k] = r /\ ~writing[k] => Calls(r, "Lock", k)
    BY DEF OrderInv, WaitsThere
  <2>2. CASE r # g BY <1>3, <1>6, <2>1, <2>2 DEF Calls, Done
  <2>3. CASE r = g
    <3>1. "RLock" \in Kind /\ "Lock" \in Kind BY DEF Kind
    <3>2. r \notin waiting[k] BY <1>1, <2>1, <2>3, <3>1, CallFacts
    <3>3. writer[k] = r /\ ~writing[k] => k = l BY <1>1, <2>1, <2>3, <3>1, CallFacts
    <3> QED BY <1>6, <3>2, <3>3
  <2> QED BY <2>2, <2>3
<1> QED BY <1>4, <1>8, <1>9, <1>10 DEF OrderInv

LEMMA UnlockKeeps ==
  ASSUME OrderInv, TypeOK', NEW g \in Goroutine, NEW l \in Lock, Unlock(g, l) PROVE OrderInv'
<1>1. "Unlock" \in Kind /\ "RLock" \in Kind /\ "Lock" \in Kind /\ Calls(g, "Unlock", l)
  BY DEF Unlock, Kind
<1>2. /\ todo[g] # <<>> /\ Head(todo[g]).kind = "Unlock" /\ Head(todo[g]).lock = l
      /\ Tail(todo[g]) \in Seq(LockOp)
  BY <1>1, CallFacts
<1>3. PICK W \in SUBSET Goroutine : W = waiting[l] BY DEF OrderInv, TypeOK
<1>4. \A r \in W : /\ Calls(r, "RLock", l)
                   /\ todo[r] # <<>> /\ Head(todo[r]).kind = "RLock" /\ Head(todo[r]).lock = l
                   /\ Tail(todo[r]) \in Seq(LockOp)
  <2> TAKE r \in W
  <2>1. r \in Goroutine /\ Calls(r, "RLock", l) BY <1>3 DEF OrderInv, WaitsThere
  <2> QED BY <1>1, <2>1, CallFacts
<1>5. g \notin W
  <2>1. \A j \in Lock, q \in Kind : Calls(g, q, j) => q = "Unlock" /\ j = l BY <1>1, CallFacts
  <2> QED BY <1>1, <1>4, <2>1
<1>6. \A r \in Goroutine : todo'[r] = IF r \in {g} \cup W THEN Tail(todo[r]) ELSE todo[r]
  BY <1>3 DEF Unlock, Advance
<1>7. todo' \in [Goroutine -> Seq(LockOp)]
  <2>1. \A r \in Goroutine : todo'[r] \in Seq(LockOp) BY <1>2, <1>4, <1>6 DEF OrderInv
  <2> QED BY <2>1 DEF Unlock, Advance
<1>8. \A k \in Lock, r \in Goroutine :
        readers'[k][r] = IF k = l /\ r \in W THEN readers[k][r] + 1 ELSE readers[k][r]
  BY <1>3 DEF Unlock, OrderInv, TypeOK
<1>9. /\ writer[l] = g /\ writing[l]
      /\ \A k \in Lock : /\ writer'[k] = IF k = l THEN NoOne ELSE writer[k]
                         /\ writing'[k] <=> (k # l /\ writing[k])
                         /\ waiting'[k] = IF k = l THEN {} ELSE waiting[k]
  BY DEF Unlock, OrderInv, TypeOK
<1>10. \A r \in Goroutine : readers[l][r] = 0 BY <1>9 DEF OrderInv, TypeOK
<1>11. ASSUME NEW r \in Goroutine PROVE Stays(r) \/ Advances(r)
  <2>1. Held(r) \in Holding BY HeldHolding DEF OrderInv
  <2>2. PICK h : h = Held(r)' OBVIOUS
  <2>3. h \in [Lock -> Int] BY <2>2 DEF TypeOK, Held
  <2>4. \A k \in Lock \ {l} : h[k] = Held(r)[k] BY <1>8, <1>9, <2>2 DEF Held
  <2>5. h[l] = readers'[l][r] BY <1>9, <2>2 DEF Held
  <2>6. CASE r = g
    <3>1. h[l] = 0 BY <1>5, <1>8, <1>10, <2>5, <2>6
    <3>2. Held(r)[l] = -1 BY <1>9, <2>6 DEF Held
    <3>3. h[l] = Held(r)[l] + Change(Head(todo[g]).kind) BY <1>2, <3>1, <3>2 DEF Change
    <3>4. h = After(Head(todo[g]), Held(r)) BY <1>2, <2>1, <2>3, <2>4, <3>3, HeldAfter
    <3>5. todo'[r] = Tail(todo[r]) BY <1>6, <2>6
    <3> QED BY <1>2, <2>2, <2>6, <3>4, <3>5 DEF Advances
  <2>7. CASE r \in W
    <3>1. r # g BY <1>5, <2>7
    <3>2. h[l] = 0 + 1 BY <1>8, <1>10, <2>5, <2>7
    <3>3. Held(r)[l] = 0 BY <1>9, <1>10, <3>1 DEF Held
    <3>4. h[l] = Held(r)[l] + Change(Head(todo[r]).kind) BY <1>4, <2>7, <3>2, <3>3 DEF Change
    <3>5. Head(todo[r]).lock = l BY <1>4, <2>7
    <3>6. h = After(Head(todo[r]), Held(r)) BY <2>1, <2>3, <2>4, <3>4, <3>5, HeldAfter
    <3>7. todo'[r] = Tail(todo[r]) BY <1>6, <2>7
    <3> QED BY <1>4, <2>2, <2>7, <3>6, <3>7 DEF Advances
  <2>8. CASE r \notin {g} \cup W
    <3>1. todo'[r] = todo[r] BY <1>6, <2>8
    <3>2. h[l] = Held(r)[l] BY <1>8, <1>9, <2>5, <2>8 DEF Held
    <3>3. h = Held(r) BY <2>1, <2>3, <2>4, <3>2 DEF Holding
    <3> QED BY <2>2, <3>1, <3>3 DEF Stays
  <2> QED BY <2>6, <2>7, <2>8
<1>12. InOrder' BY <1>7, <1>11, OrderKept
<1>13. ShellInChain'
  <2>1. "pool" \in Lock /\ Shell \subseteq Goroutine /\ NoOne \notin Shell
    BY LockAssumption DEF Lock, NoOne
  <2>2. \A r \in Shell : r \in W => l = "chain" BY <1>1, <1>4, <2>1, CallFacts
  <2>3. \A r \in Shell : readers'["pool"][r] = 0 /\ writer'["pool"] # r
    BY <1>8, <1>9, <2>1, <2>2 DEF OrderInv, ShellInChain
  <2>4. \A r \in Goroutine : todo'[r] = todo[r] \/ (todo[r] # <<>> /\ todo'[r] = Tail(todo[r]))
    BY <1>2, <1>4, <1>6
  <2> QED BY <1>7, <2>3, <2>4, ShellKept
<1>14. WaitsThere'
  <2> SUFFICES ASSUME NEW r \in Goroutine, NEW k \in Lock
               PROVE  /\ r \in waiting'[k] => Calls(r, "RLock", k)'
                      /\ writer'[k] = r /\ ~writing'[k] => Calls(r, "Lock", k)'
    BY DEF WaitsThere
  <2>1. /\ r \in waiting[k] => Calls(r, "RLock", k)
        /\ writer[k] = r /\ ~writing[k] => Calls(r, "Lock", k)
    BY DEF OrderInv, WaitsThere
  <2>2. CASE k = l
    <3>1. r # NoOne BY LockAssumption DEF NoOne
    <3> QED BY <1>9, <2>2, <3>1
  <2>3. CASE k # l /\ r \in {g} \cup W
    <3>1. \A j \in Lock, q \in Kind : Calls(r, q, j) => j = l
      <4>1. CASE r = g BY <1>1, <4>1, CallFacts
      <4>2. CASE r \in W BY <1>1, <1>4, <4>2, CallFacts
      <4> QED BY <2>3, <4>1, <4>2
    <3> QED BY <1>1, <1>9, <2>1, <2>3, <3>1
  <2>4. CASE k # l /\ r \notin {g} \cup W
    <3>1. todo'[r] = todo[r] BY <1>6, <2>4
    <3> QED BY <1>9, <2>1, <2>4, <3>1 DEF Calls, Done
  <2> QED BY <2>2, <2>3, <2>4
<1> QED BY <1>7, <1>12, <1>13, <1>14 DEF OrderInv

\* The deferred releases give back what a command holds, from where it panicked.
LEMMA DeferredOrderly ==
  ASSUME OrderInv, NEW g \in Shell, writer["chain"] = g => writing["chain"]
  PROVE  Orderly(Deferred(g), Held(g), Free) /\ Deferred(g) \in Seq(ChainOp)
<1>1. "chain" \in Lock /\ "pool" \in Lock /\ Lock = {"chain", "pool"} /\ g \in Goroutine
  BY LockAssumption DEF Lock
<1>2. PICK h \in Holding : h = Held(g) BY <1>1, HeldHolding DEF OrderInv
<1>3. h["pool"] = 0 BY <1>1, <1>2 DEF Held, OrderInv, ShellInChain
<1>4. PICK n \in Nat : n = readers["chain"][g] BY <1>1 DEF OrderInv, TypeOK
<1>5. \A x : x \in LockOp /\ x.lock = "chain" => x \in ChainOp BY DEF LockOp, ChainOp
<1>6. PICK u \in LockOp : u = Op("RUnlock", "chain") /\ u.kind = "RUnlock" /\ u.lock = "chain"
  BY <1>1, Operations DEF Kind
<1>7. PICK v \in LockOp : v = Op("Unlock", "chain") /\ v.kind = "Unlock" /\ v.lock = "chain"
  BY <1>1, Operations DEF Kind
<1>8. PICK s : s = [i \in 1 .. n |-> u] OBVIOUS
<1>9. s \in Seq(LockOp) /\ s \in Seq(ChainOp) /\ Len(s) = n /\ \A i \in 1 .. n : s[i] = u
  BY <1>5, <1>6, <1>8
<1>10. CASE writer["chain"] = g
  <2>1. n = 0 /\ h["chain"] = -1 BY <1>1, <1>2, <1>4, <1>10 DEF Held, OrderInv, TypeOK
  <2>2. s = <<>> BY <1>9, <2>1
  <2>3. Deferred(g) = s \o <<v>> BY <1>4, <1>6, <1>7, <1>8, <1>10 DEF Deferred
  <2>4. Deferred(g) = <<v>> BY <2>2, <2>3
  <2>5. Allowed(v, h) BY <1>7, <2>1 DEF Allowed
  <2>6. After(v, h) = Free
    <3>1. \A k \in Lock \ {"chain"} : Free[k] = h[k] BY <1>1, <1>3 DEF Free
    <3>2. Free["chain"] = h["chain"] + Change(v.kind) BY <1>1, <1>7, <2>1 DEF Free, Change
    <3>3. Free \in [Lock -> Int] BY DEF Free
    <3> QED BY <1>1, <1>7, <3>1, <3>2, <3>3, HeldAfter
  <2>7. Orderly(<<v>>, h, Free) BY <2>5, <2>6, OrderlyOne
  <2> QED BY <1>2, <1>5, <1>7, <2>4, <2>7
<1>11. CASE writer["chain"] # g
  <2>1. h["chain"] = n BY <1>1, <1>2, <1>4, <1>11 DEF Held
  <2>2. Deferred(g) = s
    <3>1. Deferred(g) = s \o <<>> BY <1>4, <1>6, <1>8, <1>11 DEF Deferred
    <3> QED BY <1>9, <3>1
  <2>3. PICK d : d = [i \in 0 .. n |-> [l \in Lock |-> IF l = "chain" THEN n - i ELSE 0]] OBVIOUS
  <2>4. d \in [0 .. n -> Holding] BY <2>3 DEF Holding
  <2>5. d[0] = h
    <3>1. 0 \in 0 .. n BY <1>4
    <3>2. d[0] \in [Lock -> Int] /\ \A l \in Lock : d[0][l] = h[l] BY <1>1, <1>3, <2>1, <2>3, <3>1
    <3> QED BY <3>2 DEF Holding
  <2>6. d[n] = Free
    <3>1. n \in 0 .. n BY <1>4
    <3> QED BY <1>1, <2>3, <3>1 DEF Free
  <2>7. ASSUME NEW i \in 1 .. n PROVE Allowed(s[i], d[i - 1]) /\ d[i] = After(s[i], d[i - 1])
    <3>1. i \in 0 .. n /\ i - 1 \in 0 .. n OBVIOUS
    <3>2. PICK e \in Holding : e = d[i - 1] BY <2>4, <3>1
    <3>3. e["chain"] = n - (i - 1) /\ e["pool"] = 0 BY <1>1, <2>3, <3>1, <3>2
    <3>4. PICK f \in Holding : f = d[i] BY <2>4, <3>1
    <3>5. f["chain"] = n - i /\ f["pool"] = 0 BY <1>1, <2>3, <3>1, <3>4
    <3>6. e["chain"] > 0 BY <3>3
    <3>7. Allowed(u, e) BY <1>6, <3>6 DEF Allowed
    <3>8. f["chain"] = e["chain"] + Change(u.kind)
      <4>1. Change(u.kind) = -1 BY <1>6 DEF Change
      <4> QED BY <3>3, <3>5, <4>1
    <3>9. \A k \in Lock \ {"chain"} : f[k] = e[k] BY <1>1, <3>3, <3>5
    <3>10. f \in [Lock -> Int] BY DEF Holding
    <3>11. f = After(u, e) BY <1>1, <1>6, <3>8, <3>9, <3>10, HeldAfter
    <3> QED BY <1>9, <3>2, <3>4, <3>7, <3>11
  <2>8. Orderly(s, h, Free) BY <1>9, <2>4, <2>5, <2>6, <2>7 DEF Orderly
  <2> QED BY <1>2, <1>9, <2>2, <2>8
<1> QED BY <1>10, <1>11

LEMMA RecoverKeeps ==
  ASSUME OrderInv, TypeOK', NEW g \in Goroutine, Recover(g) PROVE OrderInv'
<1>1. /\ g \in Shell /\ todo' = [todo EXCEPT ![g] = Deferred(g)]
      /\ readers' = readers /\ writer' = writer /\ writing' = writing /\ waiting' = waiting
      /\ \A l \in Lock : g \notin waiting[l] /\ (writer[l] = g => writing[l])
  BY DEF Recover
<1>2. "chain" \in Lock BY DEF Lock
<1>3. Orderly(Deferred(g), Held(g), Free) /\ Deferred(g) \in Seq(ChainOp)
  BY <1>1, <1>2, DeferredOrderly
<1>4. Deferred(g) \in Seq(LockOp) BY <1>3 DEF Orderly
<1>5. todo' \in [Goroutine -> Seq(LockOp)] BY <1>1, <1>4 DEF OrderInv
<1>6. \A r \in Goroutine : todo'[r] = IF r = g THEN Deferred(g) ELSE todo[r]
  BY <1>1 DEF OrderInv
<1>7. \A r \in Goroutine : Held(r)' = Held(r) BY <1>1 DEF Held
<1>8. InOrder'
  <2>1. Free' = Free BY DEF Free
  <2>2. \A r \in Goroutine : Orderly(todo'[r], Held(r)', Free)
    BY <1>3, <1>6, <1>7 DEF OrderInv, InOrder
  <2> QED BY <2>1, <2>2 DEF InOrder
<1>9. ShellInChain'
  <2>1. Shell \subseteq Goroutine BY LockAssumption
  <2> QED BY <1>1, <1>3, <1>6, <2>1 DEF OrderInv, ShellInChain
<1>10. WaitsThere'
  <2> SUFFICES ASSUME NEW r \in Goroutine, NEW k \in Lock
               PROVE  /\ r \in waiting[k] => Calls(r, "RLock", k)'
                      /\ writer[k] = r /\ ~writing[k] => Calls(r, "Lock", k)'
    BY <1>1 DEF WaitsThere
  <2>1. CASE r = g BY <1>1, <2>1
  <2>2. CASE r # g BY <1>6, <2>2 DEF Calls, Done, OrderInv, WaitsThere
  <2> QED BY <2>1, <2>2
<1> QED BY <1>5, <1>8, <1>9, <1>10 DEF OrderInv

LEMMA OrderNext == OrderInv /\ [Next]_vars => OrderInv'
<1> SUFFICES ASSUME OrderInv, [Next]_vars PROVE OrderInv' OBVIOUS
<1>1. TypeOK' BY NextTypeOK DEF OrderInv
<1>2. CASE UNCHANGED vars
  <2>1. \A r \in Goroutine : Held(r)' = Held(r) BY <1>2 DEF vars, Held
  <2>2. InOrder' BY <1>2, <2>1, OrderKept DEF vars, OrderInv, Stays
  <2>3. ShellInChain' /\ WaitsThere'
    BY <1>2 DEF vars, OrderInv, ShellInChain, WaitsThere, Calls, Done
  <2> QED BY <1>1, <1>2, <2>2, <2>3 DEF vars, OrderInv
<1>3. ASSUME NEW g \in Goroutine, Step(g) PROVE OrderInv'
  <2>1. PICK l \in Lock : \/ RLock(g, l) \/ RLockWait(g, l) \/ RUnlock(g, l)
                          \/ Announce(g, l) \/ Acquire(g, l) \/ Unlock(g, l)
    BY <1>3 DEF Step
  <2>2. CASE RLock(g, l) BY <1>1, <2>2, RLockKeeps
  <2>3. CASE RLockWait(g, l) \/ Announce(g, l) BY <1>1, <2>3, WaitKeeps
  <2>4. CASE RUnlock(g, l) BY <1>1, <2>4, RUnlockKeeps
  <2>5. CASE Acquire(g, l) BY <1>1, <2>5, AcquireKeeps
  <2>6. CASE Unlock(g, l) BY <1>1, <2>6, UnlockKeeps
  <2> QED BY <2>1, <2>2, <2>3, <2>4, <2>5, <2>6
<1>4. ASSUME NEW g \in Goroutine, Recover(g) PROVE OrderInv' BY <1>1, <1>4, RecoverKeeps
<1> QED BY <1>2, <1>3, <1>4 DEF Next

-----------------------------------------------------------------------------
(* Nobody can go on: first nobody holds the chain, then nobody waits for   *)
(* it, then the same for the mempool, so that all have finished.           *)

Stuck == (\A g \in Goroutine : ~CanGo(g)) /\ ~NestedFreeze

\* What a goroutine that is stuck calls, and why it cannot have it.
LEMMA StuckAt ==
  ASSUME OrderInv, Stuck, NEW g \in Goroutine, ~Done(g)
  PROVE  \E k \in {"RLock", "Lock"}, l \in Lock :
           /\ Calls(g, k, l) /\ Allowed(Op(k, l), Held(g)) /\ writer[l] # NoOne
           /\ k = "RLock" => g \in waiting[l] /\ readers[l][g] = 0
<1>1. todo[g] # <<>> /\ Orderly(todo[g], Held(g), Free) BY DEF Done, OrderInv, InOrder
<1>2. PICK o \in LockOp : o = Head(todo[g]) /\ Allowed(o, Held(g)) BY <1>1, OrderlyFirst
<1>3. PICK k \in Kind, l \in Lock : o.kind = k /\ o.lock = l /\ o = Op(k, l)
  BY <1>2 DEF LockOp, Op
<1>4. Calls(g, k, l) BY <1>1, <1>2, <1>3 DEF Calls, Done
<1>5. ~CanGo(g) BY DEF Stuck
<1>6. k # "RUnlock"
  <2>1. CASE k = "RUnlock"
    <3>1. Held(g)[l] > 0 BY <1>2, <1>3, <2>1 DEF Allowed
    <3>2. readers[l][g] > 0 BY <3>1 DEF Held
    <3> QED BY <1>4, <1>5, <2>1, <3>2 DEF CanGo
  <2> QED BY <2>1
<1>7. k # "Unlock"
  <2>1. CASE k = "Unlock"
    <3>1. Held(g)[l] = -1 BY <1>2, <1>3, <2>1 DEF Allowed
    <3>2. readers[l][g] \in Nat BY DEF OrderInv, TypeOK
    <3>3. writer[l] = g /\ writing[l] BY <3>1, <3>2 DEF Held
    <3> QED BY <1>4, <1>5, <2>1, <3>3 DEF CanGo
  <2> QED BY <2>1
<1>8. k \in {"RLock", "Lock"} BY <1>6, <1>7 DEF Kind
<1>9. writer[l] # NoOne BY <1>4, <1>5, <1>8 DEF CanGo
<1>10. k = "RLock" => g \in waiting[l] BY <1>4, <1>5 DEF CanGo
<1>11. g \in waiting[l] => readers[l][g] = 0
  <2>1. readers[l][g] \in Nat BY DEF OrderInv, TypeOK
  <2> QED BY <2>1 DEF Stuck, NestedFreeze
<1> QED BY <1>2, <1>3, <1>4, <1>8, <1>9, <1>10, <1>11

LEMMA HeldByNone ==
  ASSUME OrderInv, Stuck, NEW l \in Lock, \A g \in Goroutine : Held(g)[l] = 0
  PROVE  writer[l] = NoOne
<1>1. SUFFICES ASSUME writer[l] # NoOne PROVE FALSE OBVIOUS
<1>2. PICK g \in Goroutine : writer[l] = g BY <1>1 DEF OrderInv, TypeOK
<1>3. ~writing[l]
  <2>1. writing[l] => Held(g)[l] = -1 BY <1>2 DEF Held
  <2> QED BY <2>1
<1>4. \A r \in Goroutine : readers[l][r] = 0 BY <1>3 DEF Held
<1> QED BY <1>2, <1>3, <1>4 DEF Stuck, CanGo

LEMMA StuckHoldsNone ==
  ASSUME OrderInv, Stuck PROVE \A g \in Goroutine : Done(g)
<1>1. "chain" \in Lock /\ "pool" \in Lock /\ Lock = {"chain", "pool"} BY DEF Lock
<1>2. \A g \in Goroutine : Done(g) => Held(g) = Free
  <2> TAKE g \in Goroutine
  <2>1. Orderly(todo[g], Held(g), Free) /\ Held(g) \in Holding
    BY HeldHolding DEF OrderInv, InOrder
  <2> QED BY <2>1, OrderlyNone DEF Done
<1>3. \A l \in Lock : Free[l] = 0 BY DEF Free
<1>4. ASSUME NEW g \in Goroutine PROVE Held(g)["chain"] = 0
  <2>1. CASE Done(g) BY <1>1, <1>2, <1>3, <2>1
  <2>2. CASE ~Done(g)
    <3>1. PICK k \in {"RLock", "Lock"}, l \in Lock :
            /\ Calls(g, k, l) /\ Allowed(Op(k, l), Held(g))
            /\ k = "RLock" => readers[l][g] = 0
      BY <2>2, StuckAt
    <3>2. k \in Kind /\ Op(k, l).kind = k /\ Op(k, l).lock = l BY Operations DEF Kind
    <3>3. l = "pool" => Held(g) = Free BY <3>1, <3>2 DEF Allowed
    <3>4. k = "Lock" => Held(g)[l] = 0 BY <3>1, <3>2 DEF Allowed
    <3>5. k = "RLock" => Held(g)[l] >= 0 BY <3>1, <3>2 DEF Allowed
    <3>6. k = "RLock" => Held(g)[l] = 0
      <4>1. Held(g)[l] = -1 \/ Held(g)[l] = readers[l][g] BY DEF Held
      <4> QED BY <3>1, <3>5, <4>1
    <3> QED BY <1>1, <1>3, <3>1, <3>3, <3>4, <3>6
  <2> QED BY <2>1, <2>2
<1>5. writer["chain"] = NoOne BY <1>1, <1>4, HeldByNone
<1>6. ASSUME NEW g \in Goroutine, ~Done(g) PROVE Held(g) = Free /\ writer["pool"] # NoOne
  <2>1. PICK k \in {"RLock", "Lock"}, l \in Lock :
          Calls(g, k, l) /\ Allowed(Op(k, l), Held(g)) /\ writer[l] # NoOne
    BY <1>6, StuckAt
  <2>2. k \in Kind /\ Op(k, l).kind = k /\ Op(k, l).lock = l BY Operations DEF Kind
  <2>3. l = "pool" BY <1>1, <1>5, <2>1
  <2> QED BY <2>1, <2>2, <2>3 DEF Allowed
<1>7. \A g \in Goroutine : Held(g)["pool"] = 0 BY <1>1, <1>2, <1>3, <1>6
<1>8. writer["pool"] = NoOne BY <1>1, <1>7, HeldByNone
<1> QED BY <1>6, <1>8

(* Goroutines that take the locks in order, each any number of times, are  *)
(* never stuck but behind a nested read lock: so with the loops and the    *)
(* early returns that the scripts leave out, since what is in order one    *)
(* after the other is in order (WholeThen, WorksThen).                     *)
THEOREM OrderSuffices == OrderedScripts => (Spec => []StuckOnlyByNesting)
<1>1. OrderInv => StuckOnlyByNesting
  BY StuckHoldsNone DEF StuckOnlyByNesting, Stuck
<1>2. OrderedScripts /\ Init => OrderInv BY OrderInit
<1>3. OrderInv /\ [Next]_vars => OrderInv' BY OrderNext
<1> QED BY <1>1, <1>2, <1>3, PTL DEF Spec

(* However many goroutines run the handlers and the commands of the node,  *)
(* and wherever commands panic, nobody waits for ever but behind a nested  *)
(* read lock, and no lock is released that is not held.                    *)
THEOREM StuckOnlyNested == Spec => []StuckOnlyByNesting
BY ScriptsOrdered, OrderSuffices

=============================================================================
