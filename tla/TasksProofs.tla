---------------------------- MODULE TasksProofs ----------------------------
(***************************************************************************)
(* Proofs about Tasks and the credit ledger it spends from, for any        *)
(* grants, amounts, expiries, spends, tasks, requests and faults.          *)
(*                                                                         *)
(* The first half is about Fefo.  A replay is a recursive function over    *)
(* the rows; what one says about it for every ledger is said by a least    *)
(* counterexample (Induction), and where two replays are compared, row by  *)
(* row (History).  Three facts carry the ledger: debits that are covered   *)
(* leave no debt (DebitsFit), the parts of an allocation add up to no more *)
(* than what was allocated (PlanSum), and what can be spent at an instant  *)
(* could be spent at any earlier one (AvailableLater).                     *)
(*                                                                         *)
(* The second half is about the steps.  LedgerInv has the types and what   *)
(* rows and calls say of each other; TaskInv who may ask for a spend;      *)
(* BalanceInv that a total read under the lock is still the sum; CoverInv  *)
(* that an allocation made under the lock is still there.  LedgerAction    *)
(* is all that a step may do to the ledger, so that each invariant of the  *)
(* ledger is shown once for the ledger's own steps and those of a task.    *)
(*                                                                         *)
(* The last part is about refunds.  What a debit took does not change with *)
(* the rows that follow (TakenKept), and what is taken by row and what is  *)
(* taken by terms are one sum (RowsAndColumns); RefundInv then says that a *)
(* plan read before the lock is still what was charged.                    *)
(***************************************************************************)
EXTENDS Tasks, FiniteSetTheorems, SequenceTheorems, WellFoundedInduction,
        TLAPS

-----------------------------------------------------------------------------
(* Numbers and sums.  A property of all numbers is a set that has 0 and    *)
(* the successor of what it has; otherwise there is a least counterexample. *)

LEMMA Induction ==
  ASSUME NEW S, 0 \in S, \A n \in Nat : n \in S => n + 1 \in S
  PROVE  \A n \in Nat : n \in S
<1> DEFINE T == Nat \ S
<1>1. SUFFICES ASSUME T # {} PROVE FALSE
  OBVIOUS
<1>2. PICK n \in T : \A m \in T : ~(<<m, n>> \in OpToRel(<, Nat))
  <2>1. T \subseteq Nat
    OBVIOUS
  <2> HIDE DEF T
  <2> QED
    BY <1>1, <2>1, NatLessThanWellFounded, WFMin
<1>3. n \in Nat /\ n \notin S /\ n # 0
  BY <1>2
<1>4. n - 1 \in Nat /\ n - 1 < n
  BY <1>3
<1>5. n - 1 \in T
  <2>1. (n - 1) + 1 = n
    BY <1>3
  <2> QED
    BY <1>3, <1>4, <2>1
<1>6. <<n - 1, n>> \in OpToRel(<, Nat)
  BY <1>3, <1>4 DEF OpToRel
<1> QED
  BY <1>2, <1>5, <1>6

LEMMA SeqOf ==
  ASSUME NEW T, NEW n \in Nat, NEW s \in [1..n -> T]
  PROVE  s \in Seq(T) /\ Len(s) = n /\ DOMAIN s = 1..n
OBVIOUS

LEMMA SeqIs ==
  ASSUME NEW T, NEW s \in Seq(T)
  PROVE  Len(s) \in Nat /\ s \in [1..Len(s) -> T] /\ DOMAIN s = 1..Len(s)
OBVIOUS

(* h is a running sum of the first n numbers of s. *)
Runs(h, s, n) == h[0] = 0 /\ \A k \in 1..n : h[k] = h[k - 1] + s[k]
Adds(g, s) == g = [n \in 0..Len(s) |-> IF n = 0 THEN 0 ELSE g[n - 1] + s[n]]

LEMMA AddsRuns ==
  ASSUME NEW n \in Nat, NEW s \in [1..n -> Int], NEW g, Adds(g, s)
  PROVE  Runs(g, s, n)
<1>1. Len(s) = n
  BY SeqOf
<1>2. g = [k \in 0..n |-> IF k = 0 THEN 0 ELSE g[k - 1] + s[k]]
  BY <1>1, Zenon DEF Adds
<1>3. \A k \in 0..n : g[k] = IF k = 0 THEN 0 ELSE g[k - 1] + s[k]
  BY <1>2, Zenon
<1>4. 0 \in 0..n /\ \A k \in 1..n : k \in 0..n /\ k # 0
  OBVIOUS
<1>5. g[0] = 0
  BY <1>3, <1>4, Zenon
<1>6. \A k \in 1..n : g[k] = g[k - 1] + s[k]
  BY <1>3, <1>4, Zenon
<1> QED
  BY <1>5, <1>6 DEF Runs

LEMMA AddsThere ==
  ASSUME NEW n \in Nat, NEW s \in [1..n -> Int]
  PROVE  \E g \in [0..n -> Int] : Adds(g, s)
<1> DEFINE S == {m \in Nat : m =< n => \E g \in [0..m -> Int] : Runs(g, s, m)}
<1>1. 0 \in S
  <2>1. [k \in 0..0 |-> 0] \in [0..0 -> Int] /\ Runs([k \in 0..0 |-> 0], s, 0)
    BY DEF Runs
  <2> QED
    BY <2>1
<1>2. ASSUME NEW m \in Nat, m \in S PROVE m + 1 \in S
  <2>1. SUFFICES ASSUME m + 1 =< n PROVE \E g \in [0..m+1 -> Int] : Runs(g, s, m + 1)
    OBVIOUS
  <2>2. PICK g \in [0..m -> Int] : Runs(g, s, m)
    BY <1>2, <2>1
  <2> DEFINE h == [k \in 0..m+1 |-> IF k = m + 1 THEN g[m] + s[m + 1] ELSE g[k]]
  <2>3. h \in [0..m+1 -> Int]
    BY <2>1, <2>2
  <2>4. Runs(h, s, m + 1)
    <3>1. h[0] = 0
      BY <2>2 DEF Runs
    <3>2. ASSUME NEW k \in 1..m+1 PROVE h[k] = h[k - 1] + s[k]
      BY <2>2, <3>2 DEF Runs
    <3> QED
      BY <3>1, <3>2 DEF Runs
  <2> QED
    BY <2>3, <2>4
<1> HIDE DEF S
<1>3. n \in S
  BY <1>1, <1>2, Induction
<1>4. PICK g \in [0..n -> Int] : Runs(g, s, n)
  BY <1>3 DEF S
<1>5. Adds(g, s)
  BY <1>4, SeqOf DEF Adds, Runs
<1> QED
  BY <1>4, <1>5

(* What sums like s sums to Total(s): the running sum is unique. *)
LEMMA TotalBy ==
  ASSUME NEW n \in Nat, NEW s \in [1..n -> Int], NEW h, Runs(h, s, n)
  PROVE  Total(s) = h[n]
<1> DEFINE f == CHOOSE g : Adds(g, s)
<1>1. Total(s) = f[n] /\ Adds(f, s)
  <2>1. Adds(f, s)
    BY AddsThere
  <2>2. Total(s) = f[Len(s)]
    BY DEF Total, Adds
  <2> QED
    BY <2>1, <2>2, SeqOf
<1> HIDE DEF f
<1>2. Runs(f, s, n)
  BY <1>1, AddsRuns
<1> DEFINE S == {m \in Nat : m =< n => f[m] = h[m]}
<1>3. 0 \in S
  BY <1>2 DEF Runs
<1>4. ASSUME NEW m \in Nat, m \in S PROVE m + 1 \in S
  BY <1>2, <1>4 DEF Runs
<1> HIDE DEF S
<1>5. n \in S
  BY <1>3, <1>4, Induction
<1> QED
  BY <1>1, <1>5 DEF S

LEMMA TotalRuns ==
  ASSUME NEW n \in Nat, NEW s \in [1..n -> Int]
  PROVE  \E h \in [0..n -> Int] : Runs(h, s, n) /\ Total(s) = h[n]
<1>1. PICK h \in [0..n -> Int] : Adds(h, s)
  BY AddsThere
<1>2. Runs(h, s, n)
  BY <1>1, AddsRuns
<1> QED
  BY <1>2, TotalBy

LEMMA TotalInt ==
  ASSUME NEW n \in Nat, NEW s \in [1..n -> Int]
  PROVE  Total(s) \in Int
BY TotalRuns

Plus(n, s, t, u) ==
  /\ n \in Nat /\ s \in [1..n -> Int] /\ t \in [1..n -> Int] /\ u \in [1..n -> Int]
  /\ \A k \in 1..n : u[k] = s[k] + t[k]

LEMMA TotalPlus ==
  ASSUME NEW n, NEW s, NEW t, NEW u, Plus(n, s, t, u)
  PROVE  Total(u) = Total(s) + Total(t)
<1> SUFFICES ASSUME n \in Nat, s \in [1..n -> Int], t \in [1..n -> Int], u \in [1..n -> Int],
                    \A k \in 1..n : u[k] = s[k] + t[k]
             PROVE  Total(u) = Total(s) + Total(t)
  BY DEF Plus
<1>1. PICK g \in [0..n -> Int] : Runs(g, s, n) /\ Total(s) = g[n]
  BY TotalRuns
<1>2. PICK h \in [0..n -> Int] : Runs(h, t, n) /\ Total(t) = h[n]
  BY TotalRuns
<1> DEFINE f == [k \in 0..n |-> g[k] + h[k]]
<1>3. f[0] = 0
  BY <1>1, <1>2 DEF Runs
<1>4. ASSUME NEW k \in 1..n PROVE f[k] = f[k - 1] + u[k]
  <2>1. k - 1 \in 0..n /\ k \in 0..n
    OBVIOUS
  <2> QED
    BY <1>1, <1>2, <2>1 DEF Runs
<1>5. Runs(f, u, n)
  BY <1>3, <1>4 DEF Runs
<1>6. Total(u) = f[n]
  BY <1>5, TotalBy
<1> QED
  BY <1>1, <1>2, <1>6

LEMMA TotalLess ==
  ASSUME NEW n \in Nat, NEW s \in [1..n -> Int], NEW t \in [1..n -> Int],
         \A k \in 1..n : s[k] =< t[k]
  PROVE  Total(s) =< Total(t)
<1>1. PICK g \in [0..n -> Int] : Runs(g, s, n) /\ Total(s) = g[n]
  BY TotalRuns
<1>2. PICK h \in [0..n -> Int] : Runs(h, t, n) /\ Total(t) = h[n]
  BY TotalRuns
<1> DEFINE S == {m \in Nat : m =< n => g[m] =< h[m]}
<1>3. 0 \in S
  BY <1>1, <1>2 DEF Runs
<1>4. ASSUME NEW m \in Nat, m \in S PROVE m + 1 \in S
  <2>1. SUFFICES ASSUME m + 1 =< n PROVE g[m + 1] =< h[m + 1]
    OBVIOUS
  <2>2. m + 1 \in 1..n /\ (m + 1) - 1 = m
    BY <2>1
  <2>3. g[m + 1] = g[m] + s[m + 1] /\ h[m + 1] = h[m] + t[m + 1]
    <3>1. g[m + 1] = g[(m + 1) - 1] + s[m + 1] /\ h[m + 1] = h[(m + 1) - 1] + t[m + 1]
      BY <1>1, <1>2, <2>2 DEF Runs
    <3> QED
      BY <2>2, <3>1
  <2>4. g[m] =< h[m] /\ g[m] \in Int /\ h[m] \in Int
    BY <1>4, <2>1
  <2>5. s[m + 1] =< t[m + 1] /\ s[m + 1] \in Int /\ t[m + 1] \in Int
    BY <2>2
  <2>6. \A a, b, c, d \in Int : a =< b /\ c =< d => a + c =< b + d
    OBVIOUS
  <2>7. g[m] + s[m + 1] =< h[m] + t[m + 1]
    BY <2>4, <2>5, <2>6, Zenon
  <2> QED
    BY <2>3, <2>7, Zenon
<1> HIDE DEF S
<1>5. n \in S
  BY <1>3, <1>4, Induction
<1> QED
  BY <1>1, <1>2, <1>5 DEF S

(* A sum with one summand. *)
LEMMA TotalOne ==
  ASSUME NEW n \in Nat, NEW m \in 1..n, NEW s \in [1..n -> Int],
         \A k \in 1..n : k # m => s[k] = 0
  PROVE  Total(s) = s[m]
<1> DEFINE h == [k \in 0..n |-> IF k < m THEN 0 ELSE s[m]]
<1>1. Runs(h, s, n)
  BY DEF Runs
<1> QED
  BY <1>1, TotalBy

LEMMA TotalNone ==
  ASSUME NEW n \in Nat, NEW s \in [1..n -> Int], \A k \in 1..n : s[k] = 0
  PROVE  Total(s) = 0
<1> DEFINE h == [k \in 0..n |-> 0]
<1>1. Runs(h, s, n)
  BY DEF Runs
<1> QED
  BY <1>1, TotalBy

LEMMA TotalNat ==
  ASSUME NEW n \in Nat, NEW s \in [1..n -> Nat]
  PROVE  Total(s) \in Nat
<1> DEFINE z == [k \in 1..n |-> 0]
<1>1. z \in [1..n -> Int] /\ s \in [1..n -> Int] /\ \A k \in 1..n : z[k] = 0 /\ z[k] =< s[k]
  OBVIOUS
<1> HIDE DEF z
<1>2. Total(z) = 0 /\ Total(z) =< Total(s) /\ Total(s) \in Int
  BY <1>1, TotalNone, TotalLess, TotalInt
<1> QED
  BY <1>2

(* A longer sum: the first n summands, and the last.  *)
LEMMA TotalLonger ==
  ASSUME NEW n \in Nat, NEW s \in [1..n+1 -> Int], NEW t \in [1..n -> Int],
         \A k \in 1..n : s[k] = t[k]
  PROVE  Total(s) = Total(t) + s[n + 1]
<1>1. PICK g \in [0..n -> Int] : Runs(g, t, n) /\ Total(t) = g[n]
  BY TotalRuns
<1> DEFINE h == [k \in 0..n+1 |-> IF k = n + 1 THEN g[n] + s[n + 1] ELSE g[k]]
<1>2. Runs(h, s, n + 1)
  BY <1>1 DEF Runs
<1> QED
  BY <1>1, <1>2, TotalBy, SMTT(40)

-----------------------------------------------------------------------------
(* Consuming in order.  What the first buckets give is the amount, or all  *)
(* they have when that is less; one bucket after another, this becomes so  *)
(* of all buckets.                                                         *)

Mask(f, T) == [k \in DOMAIN f |-> IF k \in T THEN f[k] ELSE 0]

LEMMA TotalOneMore ==
  ASSUME NEW n \in Nat, NEW m \in 1..n, NEW s \in [1..n -> Int], NEW u \in [1..n -> Int],
         s[m] = 0, \A k \in 1..n : k # m => u[k] = s[k]
  PROVE  Total(u) = Total(s) + u[m]
<1>1. PICK g \in [0..n -> Int] : Runs(g, s, n) /\ Total(s) = g[n]
  BY TotalRuns
<1> DEFINE h == [k \in 0..n |-> IF k < m THEN g[k] ELSE g[k] + u[m]]
<1>2. Runs(h, u, n)
  <2>1. h[0] = 0
    BY <1>1 DEF Runs
  <2>2. ASSUME NEW k \in 1..n PROVE h[k] = h[k - 1] + u[k]
    <3>1. /\ g[k] = g[k - 1] + s[k] /\ g[k] \in Int /\ g[k - 1] \in Int
          /\ k - 1 \in 0..n /\ k \in 0..n
      BY <1>1, SMTT(40) DEF Runs
    <3>2. CASE k = m
      BY <3>1, <3>2
    <3>3. CASE k # m
      BY <3>1, <3>3, SMTT(40)
    <3> QED
      BY <3>2, <3>3
  <2> HIDE DEF h
  <2> QED
    BY <2>1, <2>2 DEF Runs
<1>3. h[n] = g[n] + u[m]
  OBVIOUS
<1> HIDE DEF h
<1>4. Total(u) = h[n]
  BY <1>2, TotalBy
<1> QED
  BY <1>1, <1>3, <1>4, Zenon

LEMMA MaskMore ==
  ASSUME NEW n \in Nat, NEW f \in [1..n -> Int], NEW T, NEW m \in 1..n, m \notin T
  PROVE  Total(Mask(f, T \union {m})) = Total(Mask(f, T)) + f[m]
<1>1. PICK u, s : u = Mask(f, T \union {m}) /\ s = Mask(f, T)
  OBVIOUS
<1>2. u \in [1..n -> Int] /\ s \in [1..n -> Int]
  BY <1>1 DEF Mask
<1>3. s[m] = 0 /\ u[m] = f[m] /\ \A k \in 1..n : k # m => u[k] = s[k]
  BY <1>1 DEF Mask
<1>4. Total(u) = Total(s) + u[m]
  BY <1>2, <1>3, TotalOneMore
<1> QED
  BY <1>1, <1>3, <1>4, Zenon

LEMMA MaskAnyMore ==
  \A n \in Nat : \A f, T, m : f \in [1..n -> Int] /\ m \in 1..n /\ m \notin T
    => Total(Mask(f, T \union {m})) = Total(Mask(f, T)) + f[m]
<1> SUFFICES ASSUME NEW n \in Nat, NEW f \in [1..n -> Int], NEW T, NEW m \in 1..n, m \notin T
             PROVE  Total(Mask(f, T \union {m})) = Total(Mask(f, T)) + f[m]
  OBVIOUS
<1> QED
  BY MaskMore

LEMMA MaskEnds ==
  ASSUME NEW n \in Nat, NEW f \in [1..n -> Int]
  PROVE  Total(Mask(f, {})) = 0 /\ Mask(f, 1..n) = f
<1>1. Mask(f, {}) \in [1..n -> Int] /\ \A k \in 1..n : Mask(f, {})[k] = 0
  BY DEF Mask
<1>2. Mask(f, 1..n) = f
  BY DEF Mask
<1> QED
  BY <1>1, <1>2, TotalNone

(* Among some subsets of a finite set there is a smallest. *)
LEMMA Smallest ==
  ASSUME NEW S, IsFiniteSet(S), NEW B, B \subseteq SUBSET S, B # {}
  PROVE  \E s \in B : \A t \in B : t \subseteq s => t = s
<1>1. IsWellFoundedOn(StrictSubsetOrdering(S), SUBSET S)
  BY FS_StrictSubsetOrderingWellFounded, FS_FiniteSubsetsOfFinite
<1>2. PICK s \in B : \A t \in B : ~(<<t, s>> \in StrictSubsetOrdering(S))
  BY <1>1, WFMin
<1> QED
  BY <1>2 DEF StrictSubsetOrdering

StrictOrder(R, S) ==
  /\ \A i \in S : <<i, i>> \notin R
  /\ \A i, j, k \in S : <<i, j>> \in R /\ <<j, k>> \in R => <<i, k>> \in R
  /\ \A i, j \in S : i = j \/ <<i, j>> \in R \/ <<j, i>> \in R

LEMMA FirstOf ==
  ASSUME NEW S, IsFiniteSet(S), NEW R, StrictOrder(R, S), NEW C, C \subseteq S, C # {}
  PROVE  \E m \in C : \A j \in C : <<j, m>> \notin R
<1> DEFINE Below(i) == {j \in C : <<j, i>> \in R}
           B == {Below(i) : i \in C}
<1>1. PICK s \in B : \A t \in B : t \subseteq s => t = s
  <2>1. B \subseteq SUBSET S /\ B # {}
    OBVIOUS
  <2> HIDE DEF B
  <2> QED
    BY <2>1, Smallest
<1>2. PICK m \in C : s = Below(m)
  BY <1>1
<1>3. ASSUME NEW j \in C, <<j, m>> \in R PROVE FALSE
  <2>1. Below(j) \subseteq Below(m)
    BY <1>3 DEF StrictOrder
  <2>2. j \in Below(m) /\ j \notin Below(j)
    BY <1>3 DEF StrictOrder
  <2>3. Below(j) \in B
    OBVIOUS
  <2> HIDE DEF B, Below
  <2> QED
    BY <1>1, <1>2, <2>1, <2>2, <2>3
<1> QED
  BY <1>3

LEMMA NextGives ==
  ASSUME NEW amount \in Nat, NEW x \in Nat, NEW y \in Nat
  PROVE  Lesser(amount, x) + (IF amount - x > 0 THEN Lesser(y, amount - x) ELSE 0)
           = Lesser(amount, x + y)
BY DEF Lesser

(* Every bucket gives what the buckets before it did not. *)
Gives(n, open, taken, amount, R) ==
  \A i \in 1..n :
    LET rest == amount - Total(Mask(open, {j \in 1..n : <<j, i>> \in R})) IN
    taken[i] = IF rest > 0 THEN Lesser(open[i], rest) ELSE 0

LEMMA Telescope ==
  ASSUME NEW n \in Nat, NEW open \in [1..n -> Nat], NEW taken \in [1..n -> Nat],
         NEW amount \in Nat, amount =< Total(open),
         NEW R, StrictOrder(R, 1..n), Gives(n, open, taken, amount, R)
  PROVE  Total(taken) = amount
<1> DEFINE S == 1..n
           First(T) == \A i \in T, j \in S : <<j, i>> \in R => j \in T
           Sound(T) == Total(Mask(taken, T)) = Lesser(amount, Total(Mask(open, T)))
           B == {C \in SUBSET S : First(S \ C) /\ Sound(S \ C)}
<1>0. IsFiniteSet(S) /\ open \in [1..n -> Int] /\ taken \in [1..n -> Int]
  BY FS_Interval
<1>a. \A f, T, m : f \in [1..n -> Int] /\ m \in 1..n /\ m \notin T
        => Total(Mask(f, T \union {m})) = Total(Mask(f, T)) + f[m]
  BY MaskAnyMore, Zenon
<1>1. S \in B
  <2>1. S \ S = {}
    OBVIOUS
  <2>2. Sound({})
    <3>1. Total(Mask(taken, {})) = 0 /\ Total(Mask(open, {})) = 0
      BY <1>0, MaskEnds
    <3> QED
      BY <3>1 DEF Lesser
  <2> QED
    BY <2>1, <2>2
<1>2. PICK C \in B : \A D \in B : D \subseteq C => D = C
  <2>1. B \subseteq SUBSET S /\ B # {}
    BY <1>1
  <2> HIDE DEF B, S
  <2> QED
    BY <1>0, <2>1, Smallest
<1>3. CASE C = {}
  <2>1. Sound(S)
    <3>1. S \ C = S
      BY <1>3
    <3> QED
      BY <1>2, <3>1
  <2>2. Total(taken) = Lesser(amount, Total(open))
    BY <1>0, <2>1, MaskEnds
  <2>3. Total(open) \in Nat
    BY TotalNat
  <2> QED
    BY <2>2, <2>3 DEF Lesser
<1>4. CASE C # {}
  <2>1. C \subseteq S /\ First(S \ C) /\ Sound(S \ C)
    BY <1>2
  <2>2. PICK m \in C : \A j \in C : <<j, m>> \notin R
    BY <1>0, <1>4, <2>1, FirstOf
  <2> DEFINE T == S \ C
  <2>3. m \in S /\ m \notin T /\ T \union {m} = S \ (C \ {m})
    BY <2>1
  <2>4. T = {j \in 1..n : <<j, m>> \in R}
    <3>1. ASSUME NEW j \in T PROVE <<j, m>> \in R
      BY <2>1, <2>3, <3>1 DEF StrictOrder
    <3>2. ASSUME NEW j \in S, <<j, m>> \in R PROVE j \in T
      BY <2>2, <3>2
    <3> QED
      BY <3>1, <3>2
  <2> DEFINE a == Total(Mask(open, T))
             b == Total(Mask(taken, T))
  <2>5. /\ Total(Mask(open, T \union {m})) = a + open[m]
        /\ Total(Mask(taken, T \union {m})) = b + taken[m]
    <3>1. m \in 1..n /\ m \notin T
      BY <2>3
    <3> HIDE DEF T, S
    <3> QED
      BY <1>0, <1>a, <3>1
  <2>6. b = Lesser(amount, a)
    BY <2>1
  <2>7. taken[m] = IF amount - a > 0 THEN Lesser(open[m], amount - a) ELSE 0
    BY <2>3, <2>4 DEF Gives
  <2>8. a \in Nat /\ open[m] \in Nat
    <3>1. Mask(open, T) \in [1..n -> Nat]
      BY DEF Mask
    <3> QED
      BY <2>3, <3>1, TotalNat
  <2> HIDE DEF a, b
  <2>9. b + taken[m] = Lesser(amount, a + open[m])
    <3>1. Lesser(amount, a) + (IF amount - a > 0 THEN Lesser(open[m], amount - a) ELSE 0)
            = Lesser(amount, a + open[m])
      BY <2>8, NextGives
    <3> QED
      BY <2>6, <2>7, <3>1, Zenon
  <2>10. Sound(T \union {m})
    BY <2>5, <2>9
  <2>11. First(T \union {m})
    BY <2>1, <2>4
  <2>12. C \ {m} \in B
    BY <2>1, <2>3, <2>10, <2>11
  <2> HIDE DEF B
  <2> QED
    BY <1>2, <2>12
<1> QED
  BY <1>3, <1>4
-----------------------------------------------------------------------------
(* The replay. *)

(* What the replay reads of the first n rows. *)
Read(rows, n) ==
  \A i \in 1..n : rows[i].credits \in Int /\ rows[i].at \in Int /\ rows[i].expires \in Int

LEMMA OpenAtType ==
  ASSUME NEW n \in Nat, NEW rows, Read(rows, n), NEW left \in [1..n -> Nat], NEW t \in Int
  PROVE  /\ OpenAt(rows, left, t) \in [1..n -> Nat]
         /\ \A i \in 1..n : OpenAt(rows, left, t)[i] =< left[i]
BY DEF OpenAt, Read

LEMMA AheadInt ==
  ASSUME NEW n \in Nat, NEW rows, NEW open \in [1..n -> Nat], NEW i
  PROVE  Ahead(rows, open, i) \in Int
<1> DEFINE f == [j \in 1..n |-> IF BucketBefore(rows, j, i) THEN open[j] ELSE 0]
<1>1. f \in [1..n -> Int]
  OBVIOUS
<1>2. Ahead(rows, open, i) = Total(f)
  BY Zenon DEF Ahead
<1> HIDE DEF f
<1> QED
  BY <1>1, <1>2, TotalInt

(* What each bucket gives. *)
Given(rows, open, amount) ==
  [i \in DOMAIN open |->
     LET rest == amount - Ahead(rows, open, i) IN
     IF rest > 0 THEN Lesser(open[i], rest) ELSE 0]

LEMMA GivenType ==
  ASSUME NEW n \in Nat, NEW rows, NEW open \in [1..n -> Nat], NEW amount \in Int
  PROVE  /\ Given(rows, open, amount) \in [1..n -> Nat]
         /\ \A i \in 1..n : Given(rows, open, amount)[i] =< open[i]
<1>1. \A i : Ahead(rows, open, i) \in Int
  BY AheadInt
<1>2. \A a \in Int, b \in Nat :
        LET c == IF a > 0 THEN Lesser(b, a) ELSE 0 IN c \in Nat /\ c =< b
  BY DEF Lesser
<1>3. ASSUME NEW i \in 1..n
      PROVE  LET rest == amount - Ahead(rows, open, i)
                 c == IF rest > 0 THEN Lesser(open[i], rest) ELSE 0
             IN  c \in Nat /\ c =< open[i]
  <2>1. amount - Ahead(rows, open, i) \in Int
    BY <1>1
  <2> QED
    BY <1>2, <2>1
<1> QED
  BY <1>3 DEF Given

LEMMA ConsumeIs ==
  ASSUME NEW n \in Nat, NEW rows, NEW left \in [1..n -> Nat], NEW amount, NEW t
  PROVE  LET given == Given(rows, OpenAt(rows, left, t), amount) IN
         Consume(rows, left, amount, t) =
           [left |-> [i \in 1..n |-> left[i] - given[i]],
            taken |-> given,
            unallocated |-> amount - Total(given)]
BY DEF Consume, Given, OpenAt

Used(used, n, left, open, amount) ==
  /\ used.left \in [1..n -> Nat]
  /\ used.taken \in [1..n -> Nat]
  /\ used.unallocated \in Int
  /\ used.unallocated = amount - Total(used.taken)
  /\ \A i \in 1..n : used.left[i] = left[i] - used.taken[i]
  /\ \A i \in 1..n : used.taken[i] =< open[i]

LEMMA ConsumeType ==
  ASSUME NEW n \in Nat, NEW rows, Read(rows, n), NEW left \in [1..n -> Nat],
         NEW amount \in Int, NEW t \in Int
  PROVE  Used(Consume(rows, left, amount, t), n, left, OpenAt(rows, left, t), amount)
<1>1. PICK open : open = OpenAt(rows, left, t)
  OBVIOUS
<1>2. open \in [1..n -> Nat] /\ \A i \in 1..n : open[i] =< left[i]
  BY <1>1, OpenAtType
<1>3. PICK given : given = Given(rows, open, amount)
  OBVIOUS
<1>4. given \in [1..n -> Nat] /\ \A i \in 1..n : given[i] =< open[i]
  BY <1>2, <1>3, GivenType
<1>5. Consume(rows, left, amount, t) =
        [left |-> [i \in 1..n |-> left[i] - given[i]],
         taken |-> given,
         unallocated |-> amount - Total(given)]
  BY <1>1, <1>3, ConsumeIs
<1>6. Total(given) \in Nat
  BY <1>4, TotalNat
<1>7. [i \in 1..n |-> left[i] - given[i]] \in [1..n -> Nat]
  <2>1. ASSUME NEW i \in 1..n PROVE left[i] - given[i] \in Nat
    <3>1. left[i] \in Nat /\ given[i] \in Nat /\ open[i] \in Nat
          /\ given[i] =< open[i] /\ open[i] =< left[i]
      BY <1>2, <1>4
    <3> QED
      BY <3>1
  <2> QED
    BY <2>1
<1>8. \A i \in 1..n : [j \in 1..n |-> left[j] - given[j]][i] = left[i] - given[i]
  OBVIOUS
<1> QED
  BY <1>1, <1>4, <1>5, <1>6, <1>7, <1>8 DEF Used

BucketOrder(rows, n) == {p \in (1..n) \X (1..n) : BucketBefore(rows, p[1], p[2])}

LEMMA BucketOrderStrict ==
  ASSUME NEW n \in Nat, NEW rows, Read(rows, n)
  PROVE  /\ StrictOrder(BucketOrder(rows, n), 1..n)
         /\ \A i, j \in 1..n : <<j, i>> \in BucketOrder(rows, n) <=> BucketBefore(rows, j, i)
<1> DEFINE R == BucketOrder(rows, n)
<1>1. \A i, j \in 1..n : <<j, i>> \in R <=> BucketBefore(rows, j, i)
  BY DEF BucketOrder
<1> HIDE DEF R
<1>2. \A i \in 1..n : ~BucketBefore(rows, i, i)
  BY DEF BucketBefore, Read
<1>3. \A i, j, k \in 1..n : BucketBefore(rows, i, j) /\ BucketBefore(rows, j, k)
                              => BucketBefore(rows, i, k)
  BY DEF BucketBefore, Read
<1>4. \A i, j \in 1..n : i = j \/ BucketBefore(rows, i, j) \/ BucketBefore(rows, j, i)
  BY DEF BucketBefore, Read
<1>5. StrictOrder(R, 1..n)
  BY <1>1, <1>2, <1>3, <1>4 DEF StrictOrder
<1> QED
  BY <1>1, <1>5 DEF R

(* What can be taken is taken until the amount is reached. *)
LEMMA ConsumeCovers ==
  ASSUME NEW n \in Nat, NEW rows, Read(rows, n), NEW left \in [1..n -> Nat],
         NEW amount \in Nat, NEW t \in Int, amount =< Total(OpenAt(rows, left, t))
  PROVE  Consume(rows, left, amount, t).unallocated = 0
<1>1. PICK open : open = OpenAt(rows, left, t)
  OBVIOUS
<1>2. open \in [1..n -> Nat] /\ amount =< Total(open)
  BY <1>1, OpenAtType
<1>3. PICK given : given = Given(rows, open, amount)
  OBVIOUS
<1>4. given \in [1..n -> Nat]
  BY <1>2, <1>3, GivenType, SMTT(40)
<1>5. PICK R : R = BucketOrder(rows, n)
  OBVIOUS
<1>6. /\ StrictOrder(R, 1..n)
      /\ \A i, j \in 1..n : <<j, i>> \in R <=> BucketBefore(rows, j, i)
  BY <1>5, BucketOrderStrict
<1>7. Gives(n, open, given, amount, R)
  <2>1. ASSUME NEW i \in 1..n
        PROVE  Ahead(rows, open, i) = Total(Mask(open, {j \in 1..n : <<j, i>> \in R}))
    <3>1. [j \in DOMAIN open |-> IF BucketBefore(rows, j, i) THEN open[j] ELSE 0]
            = Mask(open, {j \in 1..n : <<j, i>> \in R})
      BY <1>2, <1>6 DEF Mask
    <3> QED
      BY <3>1, Zenon DEF Ahead
  <2>2. DOMAIN open = 1..n
    BY <1>2
  <2> QED
    BY <1>3, <2>1, <2>2 DEF Gives, Given
<1>8. Total(given) = amount
  BY <1>2, <1>4, <1>6, <1>7, Telescope
<1>9. Consume(rows, left, amount, t).unallocated = amount - Total(given)
  BY <1>1, <1>3, ConsumeIs
<1> QED
  BY <1>8, <1>9

Extends(a, s, x, n, T) ==
  /\ a \in [1..n+1 -> T]
  /\ a[n + 1] = x
  /\ \A i \in 1..n : a[i] = s[i]

LEMMA Appended ==
  ASSUME NEW T, NEW n \in Nat, NEW s \in [1..n -> T], NEW x \in T
  PROVE  Extends(Append(s, x), s, x, n, T)
<1>1. s \in Seq(T) /\ Len(s) = n
  BY SeqOf
<1>2. PICK a : a = Append(s, x)
  OBVIOUS
<1>3. /\ a \in Seq(T) /\ Len(a) = n + 1
      /\ \A i \in 1..n : a[i] = s[i]
      /\ a[n + 1] = x
  BY <1>1, <1>2, AppendProperties
<1>4. a \in [1..n+1 -> T]
  BY <1>3, SeqIs
<1> QED
  BY <1>2, <1>3, <1>4, Zenon DEF Extends

(* The state of the replay after n rows. *)
State(rows, s, n) ==
  /\ s.left \in [1..n -> Nat]
  /\ s.taken \in [1..n -> Seq(Nat)]
  /\ \A i \in 1..n : rows[i].credits =< 0 => s.taken[i] \in [1..i-1 -> Nat]
  /\ s.debt \in Int

Offset(r, debt) == IF IsActiveAt(r.expires, r.at) THEN Lesser(r.credits, debt) ELSE 0

LEMMA EnterGrant ==
  ASSUME NEW rows, NEW s, NEW i, rows[i].credits > 0
  PROVE  Enter(rows, s, i) =
           [left |-> Append(s.left, rows[i].credits - Offset(rows[i], s.debt)),
            taken |-> Append(s.taken, <<>>),
            debt |-> s.debt - Offset(rows[i], s.debt)]
BY Zenon DEF Enter, Offset

Debited(e, s, used) ==
  e = [left |-> Append(used.left, 0),
       taken |-> Append(s.taken, used.taken),
       debt |-> s.debt + used.unallocated]

LEMMA EnterDebit ==
  ASSUME NEW rows, NEW s, NEW i, ~(rows[i].credits > 0)
  PROVE  Debited(Enter(rows, s, i), s, Consume(rows, s.left, -rows[i].credits, rows[i].at))
BY Zenon DEF Enter, Debited

LEMMA EnterType ==
  ASSUME NEW n \in Nat, NEW rows, Read(rows, n + 1), NEW s, State(rows, s, n)
  PROVE  State(rows, Enter(rows, s, n + 1), n + 1)
<1>1. PICK left, taken, debt : left = s.left /\ taken = s.taken /\ debt = s.debt
  OBVIOUS
<1>2. /\ left \in [1..n -> Nat] /\ taken \in [1..n -> Seq(Nat)] /\ debt \in Int
      /\ \A i \in 1..n : rows[i].credits =< 0 => taken[i] \in [1..i-1 -> Nat]
  BY <1>1 DEF State
<1>T. PICK T : T = Seq(Nat)
  OBVIOUS
<1>t. taken \in [1..n -> T]
  BY <1>2, <1>T
<1>a. \A f \in [1..n -> T] : \A x \in T : Extends(Append(f, x), f, x, n, T)
  BY Appended, Zenon
<1>3. PICK c, at, ex : c = rows[n + 1].credits /\ at = rows[n + 1].at /\ ex = rows[n + 1].expires
  OBVIOUS
<1>4. n + 1 \in 1..n+1 /\ c \in Int /\ at \in Int /\ ex \in Int /\ n + 1 \in Nat
  BY <1>3 DEF Read
<1>5. Read(rows, n)
  BY DEF Read
<1>6. CASE c > 0
  <2>1. PICK offset : offset = Offset(rows[n + 1], debt)
    OBVIOUS
  <2>2. offset \in Int /\ c - offset \in Nat
    <3>1. offset = (IF ex > at THEN Lesser(c, debt) ELSE 0)
      BY <1>3, <2>1 DEF Offset, IsActiveAt
    <3> QED
      BY <1>2, <1>4, <1>6, <3>1 DEF Lesser
  <2>3. Enter(rows, s, n + 1) = [left |-> Append(left, c - offset),
                                 taken |-> Append(taken, <<>>), debt |-> debt - offset]
    BY <1>1, <1>3, <1>6, <2>1, EnterGrant
  <2>4. <<>> \in T
    BY <1>T
  <2>5. Append(left, c - offset) \in [1..n+1 -> Nat]
    BY <1>2, <2>2, Appended DEF Extends
  <2>6. /\ Append(taken, <<>>) \in [1..n+1 -> T]
        /\ \A i \in 1..n : Append(taken, <<>>)[i] = taken[i]
    BY <1>t, <1>a, <2>4 DEF Extends
  <2>7. \A i \in 1..n+1 : rows[i].credits =< 0 => i \in 1..n
    BY <1>3, <1>4, <1>6
  <2>8. PICK e, l, u : /\ e = Enter(rows, s, n + 1)
                       /\ l = Append(left, c - offset) /\ u = Append(taken, <<>>)
    OBVIOUS
  <2>9. e.left = l /\ e.taken = u /\ e.debt = debt - offset
    BY <2>3, <2>8
  <2>10. \A i \in 1..n+1 : rows[i].credits =< 0 => u[i] \in [1..i-1 -> Nat]
    BY <1>2, <2>6, <2>7, <2>8
  <2>11. debt - offset \in Int
    BY <1>2, <2>2
  <2> QED
    BY <1>T, <2>5, <2>6, <2>8, <2>9, <2>10, <2>11 DEF State
<1>7. CASE ~(c > 0)
  <2>1. PICK used : used = Consume(rows, left, -c, at)
    OBVIOUS
  <2>2. /\ used.left \in [1..n -> Nat] /\ used.taken \in [1..n -> Nat]
        /\ used.unallocated \in Int
    <3>1. -c \in Int
      BY <1>4
    <3> QED
      BY <1>2, <1>4, <1>5, <2>1, <3>1, ConsumeType DEF Used
  <2>3. Enter(rows, s, n + 1) = [left |-> Append(used.left, 0),
                                 taken |-> Append(taken, used.taken),
                                 debt |-> debt + used.unallocated]
    <3>1. Debited(Enter(rows, s, n + 1), s, used)
      BY <1>1, <1>3, <1>7, <2>1, EnterDebit
    <3> QED
      BY <1>1, <3>1, Zenon DEF Debited
  <2>4. used.taken \in T
    BY <1>T, <2>2, SeqOf
  <2>5. Append(used.left, 0) \in [1..n+1 -> Nat]
    BY <2>2, Appended DEF Extends
  <2>6. /\ Append(taken, used.taken) \in [1..n+1 -> T]
        /\ \A i \in 1..n : Append(taken, used.taken)[i] = taken[i]
        /\ Append(taken, used.taken)[n + 1] = used.taken
    BY <1>t, <1>a, <2>4 DEF Extends
  <2>7. \A i \in 1..n+1 : rows[i].credits =< 0
          => Append(taken, used.taken)[i] \in [1..i-1 -> Nat]
    <3>1. \A i \in 1..n+1 : i \in 1..n \/ (i = n + 1 /\ i - 1 = n)
      OBVIOUS
    <3> QED
      BY <1>2, <2>2, <2>6, <3>1
  <2>8. debt + used.unallocated \in Int
    BY <1>2, <2>2
  <2>9. PICK e, l, u : /\ e = Enter(rows, s, n + 1)
                       /\ l = Append(used.left, 0) /\ u = Append(taken, used.taken)
    OBVIOUS
  <2>10. e.left = l /\ e.taken = u /\ e.debt = debt + used.unallocated
    BY <2>3, <2>9
  <2> QED
    BY <1>T, <2>5, <2>6, <2>7, <2>8, <2>9, <2>10 DEF State
<1> QED
  BY <1>6, <1>7

Start == [left |-> <<>>, taken |-> <<>>, debt |-> 0]

(* h is a history of the replay of the first n rows. *)
History(h, rows, n) == h[0] = Start /\ \A k \in 1..n : h[k] = Enter(rows, h[k - 1], k)
Replays(g, rows) ==
  g = [n \in 0..Len(rows) |-> IF n = 0 THEN Start ELSE Enter(rows, g[n - 1], n)]

LEMMA ReplaysHistory ==
  ASSUME NEW rows, NEW n \in Nat, Len(rows) = n, NEW g, Replays(g, rows)
  PROVE  History(g, rows, n)
<1>1. g = [k \in 0..n |-> IF k = 0 THEN Start ELSE Enter(rows, g[k - 1], k)]
  BY Zenon DEF Replays
<1>2. \A k \in 0..n : g[k] = IF k = 0 THEN Start ELSE Enter(rows, g[k - 1], k)
  BY <1>1, Zenon
<1>3. 0 \in 0..n /\ \A k \in 1..n : k \in 0..n /\ k # 0
  OBVIOUS
<1>4. g[0] = Start
  BY <1>2, <1>3, Zenon
<1>5. \A k \in 1..n : g[k] = Enter(rows, g[k - 1], k)
  BY <1>2, <1>3, Zenon
<1> QED
  BY <1>4, <1>5, Zenon DEF History

LEMMA HistoryThere ==
  ASSUME NEW rows, NEW n \in Nat
  PROVE  \E g : g = [k \in 0..n |-> g[k]] /\ History(g, rows, n)
<1> DEFINE S == {m \in Nat : \E g : g = [k \in 0..m |-> g[k]] /\ History(g, rows, m)}
<1>1. 0 \in S
  <2> DEFINE g == [k \in 0..0 |-> Start]
  <2>1. g[0] = Start /\ g = [k \in 0..0 |-> g[k]]
    OBVIOUS
  <2> HIDE DEF g
  <2>2. History(g, rows, 0)
    BY <2>1 DEF History
  <2> QED
    BY <2>1, <2>2
<1>2. ASSUME NEW m \in Nat, m \in S PROVE m + 1 \in S
  <2>1. PICK g : History(g, rows, m)
    BY <1>2
  <2> DEFINE f == [k \in 0..m+1 |-> IF k = m + 1 THEN Enter(rows, g[m], m + 1) ELSE g[k]]
  <2>2. f = [k \in 0..m+1 |-> f[k]]
    OBVIOUS
  <2>3. /\ f[0] = g[0] /\ f[m + 1] = Enter(rows, g[m], m + 1)
        /\ \A k \in 0..m : f[k] = g[k]
    OBVIOUS
  <2> HIDE DEF f
  <2>4. ASSUME NEW k \in 1..m+1 PROVE f[k] = Enter(rows, f[k - 1], k)
    <3>1. CASE k = m + 1
      <4>1. k - 1 = m /\ m \in 0..m
        BY <3>1
      <4> QED
        BY <2>3, <3>1, <4>1, Zenon
    <3>2. CASE k # m + 1
      <4>1. k \in 1..m /\ k \in 0..m /\ k - 1 \in 0..m
        BY <3>2
      <4>2. g[k] = Enter(rows, g[k - 1], k)
        BY <2>1, <4>1, Zenon DEF History
      <4> QED
        BY <2>3, <4>1, <4>2, Zenon
    <3> QED
      BY <3>1, <3>2
  <2>5. History(f, rows, m + 1)
    BY <2>1, <2>3, <2>4, Zenon DEF History
  <2>6. m + 1 \in Nat
    OBVIOUS
  <2> QED
    BY <2>2, <2>5, <2>6
<1> HIDE DEF S
<1>3. n \in S
  BY <1>1, <1>2, Induction
<1> QED
  BY <1>3 DEF S

LEMMA HistoryUnique ==
  ASSUME NEW rows, NEW n \in Nat, NEW g, History(g, rows, n), NEW h, History(h, rows, n)
  PROVE  g[n] = h[n]
<1> DEFINE S == {m \in Nat : m =< n => g[m] = h[m]}
<1>1. 0 \in S
  BY DEF History
<1>2. ASSUME NEW m \in Nat, m \in S PROVE m + 1 \in S
  <2>1. SUFFICES ASSUME m + 1 =< n PROVE g[m + 1] = h[m + 1]
    OBVIOUS
  <2>2. m + 1 \in 1..n /\ (m + 1) - 1 = m /\ m =< n
    BY <2>1
  <2>3. g[m] = h[m]
    BY <1>2, <2>2
  <2>4. g[m + 1] = Enter(rows, g[m], m + 1) /\ h[m + 1] = Enter(rows, h[m], m + 1)
    BY <2>2, Zenon DEF History
  <2> QED
    BY <2>3, <2>4, Zenon
<1> HIDE DEF S
<1>3. n \in S
  BY <1>1, <1>2, Induction
<1> QED
  BY <1>3 DEF S

(* The replay is the end of any history of it. *)
LEMMA ReplayBy ==
  ASSUME NEW rows, NEW n \in Nat, Len(rows) = n, NEW h, History(h, rows, n)
  PROVE  Replay(rows) = h[n]
<1> DEFINE f == CHOOSE g : Replays(g, rows)
<1>1. Replays(f, rows)
  <2>1. PICK g : g = [k \in 0..n |-> g[k]] /\ History(g, rows, n)
    BY HistoryThere
  <2>2. \A k \in 0..n : g[k] = IF k = 0 THEN Start ELSE Enter(rows, g[k - 1], k)
    <3>1. \A k \in 0..n : k = 0 \/ (k # 0 /\ k \in 1..n)
      OBVIOUS
    <3> QED
      BY <2>1, <3>1, Zenon DEF History
  <2>3. g = [k \in 0..n |-> IF k = 0 THEN Start ELSE Enter(rows, g[k - 1], k)]
    BY <2>1, <2>2, Zenon
  <2>4. Replays(g, rows)
    BY <2>3, Zenon DEF Replays
  <2> QED
    BY <2>4
<1>2. Replay(rows) = f[n]
  BY Zenon DEF Replay, Replays, Start
<1> HIDE DEF f
<1>3. History(f, rows, n)
  BY <1>1, ReplaysHistory
<1> QED
  BY <1>2, <1>3, HistoryUnique

LEMMA ReplayHistory ==
  ASSUME NEW rows, NEW n \in Nat, Len(rows) = n
  PROVE  \E h : History(h, rows, n) /\ Replay(rows) = h[n]
<1>1. PICK g : History(g, rows, n)
  BY HistoryThere
<1>2. Replay(rows) = g[n]
  BY <1>1, ReplayBy
<1> QED
  BY <1>1, <1>2

LEMMA HistoryState ==
  ASSUME NEW rows, NEW n \in Nat, Read(rows, n), NEW h, History(h, rows, n)
  PROVE  State(rows, h[n], n)
<1> DEFINE S == {m \in Nat : m =< n => State(rows, h[m], m)}
<1>1. 0 \in S
  <2>1. <<>> \in [1..0 -> Nat] /\ <<>> \in [1..0 -> Seq(Nat)] /\ \A i \in 1..0 : FALSE
    OBVIOUS
  <2>2. State(rows, Start, 0)
    BY <2>1 DEF State, Start
  <2>3. State(rows, h[0], 0)
    BY <2>2, Zenon DEF History
  <2> QED
    BY <2>3
<1>2. ASSUME NEW m \in Nat, m \in S PROVE m + 1 \in S
  <2>1. SUFFICES ASSUME m + 1 =< n PROVE State(rows, h[m + 1], m + 1)
    OBVIOUS
  <2>2. m + 1 \in 1..n /\ (m + 1) - 1 = m /\ m =< n
    BY <2>1
  <2>3. State(rows, h[m], m)
    BY <1>2, <2>2
  <2>4. Read(rows, m + 1)
    BY <2>1 DEF Read
  <2>5. State(rows, Enter(rows, h[m], m + 1), m + 1)
    BY <2>3, <2>4, EnterType
  <2>6. h[m + 1] = Enter(rows, h[m], m + 1)
    BY <2>2, Zenon DEF History
  <2> QED
    BY <2>5, <2>6, Zenon
<1> HIDE DEF S
<1>3. n \in S
  BY <1>1, <1>2, Induction
<1> QED
  BY <1>3 DEF S

LEMMA ReplayType ==
  ASSUME NEW rows, NEW n \in Nat, Len(rows) = n, Read(rows, n)
  PROVE  State(rows, Replay(rows), n)
<1>1. PICK h : History(h, rows, n) /\ Replay(rows) = h[n]
  BY ReplayHistory
<1>2. State(rows, h[n], n)
  BY <1>1, HistoryState
<1> QED
  BY <1>1, <1>2, Zenon

(* The replay reads three fields, so rows that agree on them have the same *)
(* history.                                                                *)
Same(rows, other, n) ==
  \A i \in 1..n : /\ rows[i].credits = other[i].credits
                  /\ rows[i].at = other[i].at
                  /\ rows[i].expires = other[i].expires

LEMMA OpenAtSame ==
  ASSUME NEW n \in Nat, NEW rows, NEW other, Same(rows, other, n),
         NEW left \in [1..n -> Nat], NEW t
  PROVE  OpenAt(rows, left, t) = OpenAt(other, left, t)
BY DEF OpenAt, Same

LEMMA ConsumeSame ==
  ASSUME NEW n \in Nat, NEW rows, NEW other, Same(rows, other, n), Read(rows, n),
         NEW left \in [1..n -> Nat], NEW amount \in Int, NEW t \in Int
  PROVE  Consume(rows, left, amount, t) = Consume(other, left, amount, t)
<1>1. PICK open : open = OpenAt(rows, left, t)
  OBVIOUS
<1>2. open = OpenAt(other, left, t) /\ DOMAIN open = 1..n
  BY <1>1, OpenAtSame, OpenAtType
<1>3. \A i, j \in 1..n : BucketBefore(rows, j, i) = BucketBefore(other, j, i)
  BY Zenon DEF BucketBefore, Same
<1>4. ASSUME NEW i \in 1..n PROVE Ahead(rows, open, i) = Ahead(other, open, i)
  <2>1. [j \in DOMAIN open |-> IF BucketBefore(rows, j, i) THEN open[j] ELSE 0]
          = [j \in DOMAIN open |-> IF BucketBefore(other, j, i) THEN open[j] ELSE 0]
    BY <1>2, <1>3
  <2> QED
    BY <2>1, Zenon DEF Ahead
<1>5. Given(rows, open, amount) = Given(other, open, amount)
  BY <1>2, <1>4 DEF Given
<1>6. PICK given : given = Given(rows, open, amount)
  OBVIOUS
<1>7. Consume(rows, left, amount, t) =
        [left |-> [i \in 1..n |-> left[i] - given[i]],
         taken |-> given, unallocated |-> amount - Total(given)]
  BY <1>1, <1>6, ConsumeIs
<1>8. Consume(other, left, amount, t) =
        [left |-> [i \in 1..n |-> left[i] - given[i]],
         taken |-> given, unallocated |-> amount - Total(given)]
  BY <1>2, <1>5, <1>6, ConsumeIs
<1> QED
  BY <1>7, <1>8, Zenon

LEMMA EnterSame ==
  ASSUME NEW n \in Nat, NEW rows, NEW other, Same(rows, other, n + 1), Read(rows, n + 1),
         NEW s, State(rows, s, n)
  PROVE  Enter(rows, s, n + 1) = Enter(other, s, n + 1)
<1>1. n + 1 \in 1..n+1 /\ Same(rows, other, n) /\ Read(rows, n)
  BY DEF Same, Read
<1>2. PICK c, at, ex : c = rows[n + 1].credits /\ at = rows[n + 1].at /\ ex = rows[n + 1].expires
  OBVIOUS
<1>3. /\ c = other[n + 1].credits /\ at = other[n + 1].at /\ ex = other[n + 1].expires
      /\ c \in Int /\ at \in Int /\ ex \in Int
  BY <1>1, <1>2 DEF Same, Read
<1>4. CASE c > 0
  <2>1. Offset(rows[n + 1], s.debt) = Offset(other[n + 1], s.debt)
    <3>1. /\ rows[n + 1].expires = other[n + 1].expires
          /\ rows[n + 1].at = other[n + 1].at
          /\ rows[n + 1].credits = other[n + 1].credits
      BY <1>2, <1>3, Zenon
    <3> QED
      BY <3>1, Zenon DEF Offset
  <2>2. rows[n + 1].credits > 0 /\ other[n + 1].credits > 0
    BY <1>2, <1>3, <1>4, Zenon
  <2>3. rows[n + 1].credits = other[n + 1].credits
    BY <1>2, <1>3, Zenon
  <2>4. PICK o : o = Offset(rows[n + 1], s.debt)
    OBVIOUS
  <2>5. Enter(rows, s, n + 1) = [left |-> Append(s.left, c - o),
                                 taken |-> Append(s.taken, <<>>), debt |-> s.debt - o]
    BY <1>2, <2>2, <2>4, EnterGrant
  <2>6. Enter(other, s, n + 1) = [left |-> Append(s.left, c - o),
                                  taken |-> Append(s.taken, <<>>), debt |-> s.debt - o]
    BY <1>3, <2>1, <2>2, <2>4, EnterGrant
  <2> QED
    BY <2>5, <2>6, Zenon
<1>5. CASE ~(c > 0)
  <2>1. -c \in Int /\ s.left \in [1..n -> Nat]
    BY <1>3 DEF State
  <2>2. Consume(rows, s.left, -c, at) = Consume(other, s.left, -c, at)
    BY <1>1, <1>3, <2>1, ConsumeSame
  <2>3. ~(rows[n + 1].credits > 0) /\ ~(other[n + 1].credits > 0)
    BY <1>2, <1>3, <1>5, Zenon
  <2>4. /\ Consume(rows, s.left, -rows[n + 1].credits, rows[n + 1].at)
             = Consume(rows, s.left, -c, at)
        /\ Consume(other, s.left, -other[n + 1].credits, other[n + 1].at)
             = Consume(other, s.left, -c, at)
    BY <1>2, <1>3, Zenon
  <2> QED
    <3>1. PICK used : used = Consume(rows, s.left, -c, at)
      OBVIOUS
    <3>2. Debited(Enter(rows, s, n + 1), s, used) /\ Debited(Enter(other, s, n + 1), s, used)
      BY <2>2, <2>3, <2>4, <3>1, EnterDebit
    <3> QED
      BY <3>2, Zenon DEF Debited
<1> QED
  BY <1>4, <1>5

LEMMA HistorySame ==
  ASSUME NEW rows, NEW other, NEW n \in Nat, Same(rows, other, n), Read(rows, n),
         NEW h, History(h, rows, n)
  PROVE  History(h, other, n)
<1>1. ASSUME NEW k \in 1..n PROVE h[k] = Enter(other, h[k - 1], k)
  <2>1. PICK m \in Nat : m = k - 1
    OBVIOUS
  <2>2. m + 1 = k /\ m \in Nat
    BY <2>1
  <2>3. Read(rows, m) /\ Same(rows, other, m + 1) /\ Read(rows, m + 1)
    BY <2>1 DEF Read, Same
  <2>4. History(h, rows, m)
    <3>1. \A i \in 1..m : i \in 1..n
      BY <2>1
    <3> QED
      BY <3>1, Zenon DEF History
  <2>5. State(rows, h[m], m)
    BY <2>3, <2>4, HistoryState
  <2>6. Enter(rows, h[m], m + 1) = Enter(other, h[m], m + 1)
    BY <2>3, <2>5, EnterSame
  <2>7. h[k] = Enter(rows, h[k - 1], k)
    BY Zenon DEF History
  <2> QED
    BY <2>1, <2>2, <2>6, <2>7
<1>2. h[0] = Start
  BY Zenon DEF History
<1> QED
  BY <1>1, <1>2, Zenon DEF History

LEMMA ReplaySame ==
  ASSUME NEW rows, NEW other, NEW n \in Nat, Len(rows) = n, Len(other) = n,
         Same(rows, other, n), Read(rows, n)
  PROVE  Replay(other) = Replay(rows)
<1>1. PICK h : History(h, rows, n) /\ Replay(rows) = h[n]
  BY ReplayHistory
<1>2. History(h, other, n)
  BY <1>1, HistorySame
<1>3. Replay(other) = h[n]
  BY <1>2, ReplayBy
<1> QED
  BY <1>1, <1>3, Zenon

(* One more row. *)
LEMMA ReplayLonger ==
  ASSUME NEW rows, NEW other, NEW n \in Nat, Len(rows) = n, Len(other) = n + 1,
         Same(rows, other, n), Read(rows, n)
  PROVE  Replay(other) = Enter(other, Replay(rows), n + 1)
<1>1. PICK h : History(h, other, n + 1) /\ Replay(other) = h[n + 1]
  <2>1. n + 1 \in Nat
    OBVIOUS
  <2> QED
    BY <2>1, ReplayHistory
<1>2. PICK g : History(g, rows, n) /\ Replay(rows) = g[n]
  BY ReplayHistory
<1>3. History(g, other, n)
  BY <1>2, HistorySame
<1>4. History(h, other, n)
  <2>1. \A k \in 1..n : k \in 1..n+1
    OBVIOUS
  <2> QED
    BY <1>1, <2>1, Zenon DEF History
<1>5. g[n] = h[n]
  BY <1>3, <1>4, HistoryUnique
<1>6. h[n + 1] = Enter(other, h[n], n + 1)
  <2>1. n + 1 \in 1..n+1 /\ (n + 1) - 1 = n
    OBVIOUS
  <2>2. h[n + 1] = Enter(other, h[(n + 1) - 1], n + 1)
    BY <1>1, <2>1, Zenon DEF History
  <2> QED
    BY <2>1, <2>2
<1> QED
  BY <1>1, <1>2, <1>5, <1>6, Zenon

LEMMA AvailableNat ==
  ASSUME NEW rows, NEW n \in Nat, Len(rows) = n, Read(rows, n), NEW t \in Int
  PROVE  Available(rows, t) \in Nat
<1>1. Replay(rows).left \in [1..n -> Nat]
  BY ReplayType DEF State
<1>2. OpenAt(rows, Replay(rows).left, t) \in [1..n -> Nat]
  BY <1>1, OpenAtType
<1> QED
  BY <1>2, TotalNat DEF Available

(* A debit that what is left covers leaves no debt, and less to spend. *)
OneMore(rows, other, n, amount, t) ==
  /\ n \in Nat /\ Len(rows) = n /\ Len(other) = n + 1
  /\ Same(rows, other, n) /\ Read(rows, n) /\ Read(other, n + 1)
  /\ amount \in Nat /\ other[n + 1].credits + amount = 0
  /\ t \in Int /\ other[n + 1].at = t

Fits(rows, other, amount, t) ==
  Replay(other).debt = 0 /\ Available(other, t) = Available(rows, t) - amount

LEMMA DebitFits ==
  ASSUME NEW rows, NEW other, NEW n, NEW amount, NEW t, OneMore(rows, other, n, amount, t),
         Replay(rows).debt = 0, amount =< Available(rows, t)
  PROVE  Fits(rows, other, amount, t)
<1> SUFFICES ASSUME n \in Nat, Len(rows) = n, Len(other) = n + 1,
                    Same(rows, other, n), Read(rows, n), Read(other, n + 1),
                    amount \in Nat, other[n + 1].credits + amount = 0,
                    t \in Int, other[n + 1].at = t
             PROVE  Fits(rows, other, amount, t)
  BY DEF OneMore
<1>1. PICK left : left = Replay(rows).left
  OBVIOUS
<1>2. left \in [1..n -> Nat]
  BY <1>1, ReplayType DEF State
<1>3. PICK open : open = OpenAt(rows, left, t)
  OBVIOUS
<1>4. open = OpenAt(other, left, t) /\ open \in [1..n -> Nat] /\ Available(rows, t) = Total(open)
  <2>1. open = OpenAt(other, left, t)
    BY <1>2, <1>3, OpenAtSame
  <2>2. open \in [1..n -> Nat]
    BY <1>2, <1>3, OpenAtType
  <2>3. Available(rows, t) = Total(open)
    BY <1>1, <1>3, Zenon DEF Available
  <2> QED
    BY <2>1, <2>2, <2>3
<1>5. Read(other, n)
  BY DEF Read
<1>6. PICK used : used = Consume(other, left, amount, t)
  OBVIOUS
<1>7. used.unallocated = 0
  BY <1>2, <1>4, <1>5, <1>6, ConsumeCovers, SMTT(40)
<1>8. PICK rest, taken : rest = used.left /\ taken = used.taken
  OBVIOUS
<1>9. /\ rest \in [1..n -> Nat] /\ taken \in [1..n -> Nat]
      /\ used.unallocated = amount - Total(taken)
      /\ \A i \in 1..n : rest[i] = left[i] - taken[i] /\ taken[i] =< open[i]
  <2>1. /\ used.left \in [1..n -> Nat] /\ used.taken \in [1..n -> Nat]
        /\ used.unallocated = amount - Total(used.taken)
        /\ \A i \in 1..n : used.left[i] = left[i] - used.taken[i]
        /\ \A i \in 1..n : used.taken[i] =< OpenAt(other, left, t)[i]
    <3>1. Used(used, n, left, OpenAt(other, left, t), amount)
      BY <1>2, <1>5, <1>6, ConsumeType
    <3> QED
      BY <3>1 DEF Used
  <2> QED
    BY <1>4, <1>8, <2>1, Zenon
<1>10. Total(taken) = amount
  <2>1. Total(taken) \in Int
    BY <1>9, TotalInt
  <2> QED
    BY <1>7, <1>9, <2>1
<1>11. Replay(other) = [left |-> Append(rest, 0), taken |-> Append(Replay(rows).taken, taken),
                        debt |-> 0]
  <2>1. Replay(other) = Enter(other, Replay(rows), n + 1)
    BY ReplayLonger
  <2>2. ~(other[n + 1].credits > 0) /\ -other[n + 1].credits = amount
    <3>1. n + 1 \in 1..n+1
      OBVIOUS
    <3>2. PICK c \in Int : c = other[n + 1].credits
      BY <3>1 DEF Read
    <3>3. c + amount = 0
      BY <3>2
    <3>4. ~(c > 0) /\ -c = amount
      BY <3>3
    <3> QED
      BY <3>2, <3>4
  <2>3. Consume(other, Replay(rows).left, -other[n + 1].credits, other[n + 1].at) = used
    BY <1>1, <1>6, <2>2, Zenon
  <2>4. Enter(other, Replay(rows), n + 1) =
          [left |-> Append(rest, 0), taken |-> Append(Replay(rows).taken, taken),
           debt |-> Replay(rows).debt + used.unallocated]
    <3>1. PICK s : s = Replay(rows)
      OBVIOUS
    <3>2. Debited(Enter(other, s, n + 1), s, used)
      BY <2>2, <2>3, <3>1, EnterDebit
    <3> QED
      BY <1>8, <3>1, <3>2, Zenon DEF Debited
  <2>5. Replay(rows).debt + used.unallocated = 0
    BY <1>7
  <2> QED
    BY <2>1, <2>4, <2>5, Zenon
<1>12. PICK longer, last : longer = Append(rest, 0) /\ last = OpenAt(other, longer, t)
  OBVIOUS
<1>13. /\ longer \in [1..n+1 -> Nat] /\ longer[n + 1] = 0
       /\ \A i \in 1..n : longer[i] = rest[i]
  <2>1. Extends(longer, rest, 0, n, Nat)
    BY <1>9, <1>12, Appended
  <2> QED
    BY <2>1 DEF Extends
<1> DEFINE less == [i \in 1..n |-> open[i] - taken[i]]
<1>14. less \in [1..n -> Int] /\ \A i \in 1..n : open[i] = less[i] + taken[i]
  <2>1. \A i \in 1..n : open[i] \in Nat /\ taken[i] \in Nat
    BY <1>4, <1>9
  <2> QED
    BY <2>1
<1>15. /\ last \in [1..n+1 -> Nat] /\ last[n + 1] = 0
       /\ \A i \in 1..n : last[i] = less[i]
  <2>1. last \in [1..n+1 -> Nat]
    <3>1. PICK k \in Nat : k = n + 1
      OBVIOUS
    <3>2. Read(other, k) /\ longer \in [1..k -> Nat]
      BY <1>13, <3>1
    <3>3. last \in [1..k -> Nat]
      BY <1>12, <3>2, OpenAtType
    <3> QED
      BY <3>1, <3>3
  <2>2. \A i \in 1..n+1 : last[i] = IF IsActiveAt(other[i].expires, t) THEN longer[i] ELSE 0
    BY <1>12, <1>13 DEF OpenAt
  <2>3. \A i \in 1..n : open[i] = IF IsActiveAt(other[i].expires, t) THEN left[i] ELSE 0
    BY <1>2, <1>4 DEF OpenAt
  <2>4. ASSUME NEW i \in 1..n PROVE last[i] = less[i]
    <3>1. i \in 1..n+1
      OBVIOUS
    <3>2. /\ longer[i] = left[i] - taken[i] /\ taken[i] \in Nat /\ left[i] \in Nat
          /\ taken[i] =< open[i]
      BY <1>2, <1>9, <1>13
    <3> QED
      BY <2>2, <2>3, <3>1, <3>2
  <2>5. n + 1 \in 1..n+1
    OBVIOUS
  <2> QED
    BY <1>13, <2>1, <2>2, <2>4, <2>5
<1> HIDE DEF less
<1>16. Total(last) = Total(less) + last[n + 1]
  <2>1. last \in [1..n+1 -> Int]
    BY <1>15
  <2> QED
    BY <1>14, <1>15, <2>1, TotalLonger
<1>17. Total(open) = Total(less) + Total(taken)
  <2>1. open \in [1..n -> Int] /\ taken \in [1..n -> Int]
    BY <1>4, <1>9
  <2>2. Plus(n, less, taken, open)
    BY <1>14, <2>1 DEF Plus
  <2> QED
    BY <2>2, TotalPlus
<1>18. Total(less) \in Int
  BY <1>14, TotalInt
<1>19. Available(other, t) = Total(last)
  BY <1>11, <1>12 DEF Available
<1> QED
  BY <1>4, <1>10, <1>11, <1>15, <1>16, <1>17, <1>18, <1>19 DEF Fits

LEMMA GrantFits ==
  ASSUME NEW rows, NEW other, NEW n \in Nat, Len(rows) = n, Len(other) = n + 1,
         Same(rows, other, n), Read(rows, n), Read(other, n + 1),
         Replay(rows).debt = 0, other[n + 1].credits >= 0
  PROVE  Replay(other).debt = 0
<1>1. PICK c : c = other[n + 1].credits
  OBVIOUS
<1>2. n + 1 \in 1..n+1
  OBVIOUS
<1>3. c \in Nat /\ other[n + 1].at \in Int
  BY <1>1, <1>2 DEF Read
<1>4. CASE c = 0
  <2>1. PICK have : have = Available(rows, other[n + 1].at)
    OBVIOUS
  <2>4. have \in Nat
    BY <1>3, <2>1, AvailableNat
  <2>2. PICK none \in Nat : none = 0
    OBVIOUS
  <2>5. c + none = 0 /\ none =< have
    BY <1>4, <2>2, <2>4
  <2>3. other[n + 1].credits + none = 0 /\ none =< Available(rows, other[n + 1].at)
    BY <1>1, <2>1, <2>5, Zenon
  <2>6. PICK at \in Int : at = other[n + 1].at
    BY <1>3
  <2>7. OneMore(rows, other, n, none, at)
    BY <2>3, <2>6 DEF OneMore
  <2>8. none =< Available(rows, at)
    BY <2>3, <2>6, Zenon
  <2>9. Fits(rows, other, none, at)
    BY <2>7, <2>8, DebitFits, Zenon
  <2> QED
    BY <2>9, Zenon DEF Fits
<1>5. CASE c > 0
  <2>1. Offset(other[n + 1], 0) = 0
    BY <1>1, <1>3, <1>5 DEF Offset, Lesser
  <2>2. Replay(other) = Enter(other, Replay(rows), n + 1)
    BY ReplayLonger
  <2>3. Enter(other, Replay(rows), n + 1).debt = 0 - 0
    BY <1>1, <1>5, <2>1, EnterGrant
  <2> QED
    BY <2>2, <2>3
<1> QED
  BY <1>3, <1>4, <1>5

(* A movement of several rows enters one row after the other. *)
Prefix(s, n) == [i \in 1..n |-> s[i]]

LEMMA PrefixSeq ==
  ASSUME NEW T, NEW n \in Nat, NEW s \in [1..n -> T], NEW m \in 0..n
  PROVE  /\ Prefix(s, m) \in [1..m -> T] /\ Len(Prefix(s, m)) = m /\ m \in Nat
         /\ Prefix(s, n) = s
<1>1. m \in Nat /\ \A i \in 1..m : i \in 1..n
  OBVIOUS
<1>2. Prefix(s, m) \in [1..m -> T] /\ Prefix(s, n) = s
  BY <1>1 DEF Prefix
<1>3. Len(Prefix(s, m)) = m
  BY <1>1, <1>2, SeqOf
<1> QED
  BY <1>1, <1>2, <1>3

LEMMA PrefixTotal ==
  ASSUME NEW n \in Nat, NEW s \in [1..n -> Int], NEW h, Runs(h, s, n), NEW m \in 0..n
  PROVE  Total(Prefix(s, m)) = h[m]
<1>1. Prefix(s, m) \in [1..m -> Int] /\ m \in Nat
  BY PrefixSeq
<1>2. Runs(h, Prefix(s, m), m)
  <2>1. \A k \in 1..m : k \in 1..n
    OBVIOUS
  <2> QED
    BY <2>1 DEF Runs, Prefix
<1> QED
  BY <1>1, <1>2, TotalBy

LEMMA RunsGrow ==
  ASSUME NEW n \in Nat, NEW s \in [1..n -> Nat], NEW h \in [0..n -> Int], Runs(h, s, n),
         NEW m \in 0..n
  PROVE  h[m] =< h[n]
<1> DEFINE S == {j \in Nat : m + j =< n => h[m] =< h[m + j]}
<1>1. 0 \in S
  OBVIOUS
<1>2. ASSUME NEW j \in Nat, j \in S PROVE j + 1 \in S
  <2>1. SUFFICES ASSUME m + (j + 1) =< n PROVE h[m] =< h[m + (j + 1)]
    OBVIOUS
  <2>2. PICK k : k = m + (j + 1)
    OBVIOUS
  <2>3. k \in 1..n /\ k - 1 = m + j /\ m + j =< n /\ k - 1 \in 0..n /\ k \in 0..n
    BY <2>1, <2>2
  <2>4. h[k] = h[k - 1] + s[k]
    BY <2>3 DEF Runs
  <2>5. h[m] =< h[k - 1]
    BY <1>2, <2>3
  <2>6. h[m] \in Int /\ h[k - 1] \in Int /\ s[k] \in Nat
    BY <2>3
  <2>7. h[m] =< h[k]
    BY <2>4, <2>5, <2>6
  <2> QED
    BY <2>2, <2>7
<1> HIDE DEF S
<1>3. PICK j \in Nat : j = n - m
  OBVIOUS
<1>4. j \in S
  BY <1>1, <1>2, Induction
<1>5. m + j = n
  BY <1>3
<1> QED
  BY <1>4, <1>5 DEF S

Listed(s, n) == Prefix(s, n) = s /\ \A j \in 0..n : Len(Prefix(s, j)) = j

LEMMA SeqListed ==
  ASSUME NEW T, NEW n \in Nat, NEW s \in [1..n -> T]
  PROVE  Listed(s, n)
<1>1. \A j \in 0..n : Len(Prefix(s, j)) = j
  BY PrefixSeq
<1>2. Prefix(s, n) = s
  BY PrefixSeq, SMTT(40)
<1> QED
  BY <1>1, <1>2 DEF Listed

(* The rows from n on take these amounts, at t. *)
Takes(other, n, k, amounts, t) ==
  /\ amounts \in [1..k -> Nat]
  /\ \A i \in 1..k : other[n + i].credits + amounts[i] = 0 /\ other[n + i].at = t

LEMMA DebitsFit ==
  ASSUME NEW n \in Nat, NEW k \in Nat, NEW rows, Len(rows) = n,
         NEW other, Listed(other, n + k),
         Read(other, n + k), Same(rows, other, n), Read(rows, n),
         Replay(rows).debt = 0,
         NEW t \in Int, NEW amounts, Takes(other, n, k, amounts, t),
         Total(amounts) =< Available(rows, t)
  PROVE  Replay(other).debt = 0
<1>0. amounts \in [1..k -> Int] /\ amounts \in [1..k -> Nat]
  BY DEF Takes
<1>1. PICK h \in [0..k -> Int] : Runs(h, amounts, k) /\ Total(amounts) = h[k]
  BY <1>0, TotalRuns
<1>2. PICK have : have = Available(rows, t) /\ have \in Nat /\ h[k] =< have
  BY <1>1, AvailableNat
<1>3. \A j \in 0..k : h[j] =< h[k] /\ h[j] \in Int
  BY <1>0, <1>1, RunsGrow
<1>4. \A j \in 0..n+k : Len(Prefix(other, j)) = j
  BY DEF Listed
<1> DEFINE now_(j) == Prefix(other, n + j)
           P(j) == Replay(now_(j)).debt = 0 /\ Available(now_(j), t) = have - h[j]
           S == {j \in Nat : j =< k => P(j)}
<1>5. 0 \in S
  <2>1. /\ Len(Prefix(other, n)) = n /\ Same(rows, Prefix(other, n), n)
        /\ Read(Prefix(other, n), n)
    <3>1. n \in 0..n+k /\ \A i \in 1..n : Prefix(other, n)[i] = other[i]
      BY DEF Prefix
    <3>2. \A i \in 1..n : i \in 1..n+k
      OBVIOUS
    <3> QED
      BY <1>4, <3>1, <3>2, SMTT(40) DEF Same, Read
  <2>2. Replay(Prefix(other, n)) = Replay(rows)
    BY <2>1, ReplaySame
  <2>3. Available(Prefix(other, n), t) = Available(rows, t)
    <3>1. PICK left : left = Replay(rows).left
      OBVIOUS
    <3>2. left \in [1..n -> Nat]
      BY <3>1, ReplayType DEF State
    <3>3. OpenAt(rows, left, t) = OpenAt(Prefix(other, n), left, t)
      BY <2>1, <3>2, OpenAtSame
    <3> QED
      BY <2>2, <3>1, <3>3, Zenon DEF Available
  <2>4. n + 0 = n /\ h[0] = 0
    BY <1>1 DEF Runs
  <2>5. have - 0 = have
    BY <1>2
  <2>6. P(0)
    BY <1>2, <2>2, <2>3, <2>4, <2>5, Zenon
  <2> HIDE DEF P
  <2> QED
    BY <2>6
<1>6. ASSUME NEW j \in Nat, j \in S PROVE j + 1 \in S
  <2>1. SUFFICES ASSUME j + 1 =< k PROVE P(j + 1)
    BY DEF P
  <2>2. P(j)
    BY <1>6, <2>1
  <2>3. PICK m, one : m = n + j /\ one = j + 1
    OBVIOUS
  <2>4. /\ m \in Nat /\ m + 1 = n + one /\ m \in 0..n+k /\ m + 1 \in 0..n+k
        /\ m + 1 \in 1..n+k /\ one \in 1..k /\ one - 1 = j /\ j \in 0..k /\ one \in 0..k
    BY <2>1, <2>3
  <2>5. h[one] = h[j] + amounts[one]
    BY <1>1, <2>4 DEF Runs
  <2>6. amounts[one] \in Nat
    BY <1>0, <2>4
  <2>16. h[j] \in Int /\ h[one] \in Int /\ h[one] =< h[k] /\ h[k] \in Int
    BY <1>3, <2>4
  <2>7. PICK was, is : was = Prefix(other, m) /\ is = Prefix(other, m + 1)
    OBVIOUS
  <2>8. /\ Len(was) = m /\ Len(is) = m + 1
        /\ Same(was, is, m) /\ Read(was, m) /\ Read(is, m + 1)
        /\ is[m + 1] = other[n + one]
    <3>1. Len(was) = m /\ Len(is) = m + 1
      BY <1>4, <2>4, <2>7
    <3>2. /\ \A i \in 1..m : was[i] = other[i] /\ is[i] = other[i] /\ i \in 1..n+k
          /\ \A i \in 1..m+1 : is[i] = other[i] /\ i \in 1..n+k
      BY <2>4, <2>7 DEF Prefix
    <3>3. is[m + 1] = other[n + one]
      BY <2>4, <3>2
    <3> QED
      BY <3>1, <3>2, <3>3 DEF Same, Read
  <2>9. Replay(was).debt = 0 /\ Available(was, t) = have - h[j]
    BY <2>2, <2>3, <2>7
  <2>10. amounts[one] =< Available(was, t)
    BY <1>2, <2>5, <2>6, <2>16, <2>9, SMTT(40)
  <2>11. is[m + 1].credits + amounts[one] = 0 /\ is[m + 1].at = t
    BY <2>4, <2>8 DEF Takes
  <2>12. Replay(is).debt = 0 /\ Available(is, t) = Available(was, t) - amounts[one]
    <3>1. PICK a : a = amounts[one]
      OBVIOUS
    <3>2. OneMore(was, is, m, a, t)
      BY <2>4, <2>6, <2>8, <2>9, <2>11, <3>1, Zenon DEF OneMore
    <3>3. Replay(was).debt = 0 /\ a =< Available(was, t)
      BY <2>9, <2>10, <3>1
    <3>4. Fits(was, is, a, t)
      BY <3>2, <3>3, DebitFits, Zenon
    <3> QED
      BY <3>1, <3>4, Zenon DEF Fits
  <2>13. Available(is, t) = have - h[one]
    BY <1>2, <2>5, <2>6, <2>16, <2>9, <2>12, SMTT(40)
  <2>14. now_(one) = is /\ one = j + 1
    BY <2>3, <2>4, <2>7
  <2>15. P(one)
    BY <2>12, <2>13, <2>14, Zenon
  <2> HIDE DEF P
  <2> QED
    BY <2>14, <2>15
<1> HIDE DEF S
<1>7. k \in S
  BY <1>5, <1>6, Induction
<1>8. P(k)
  BY <1>7 DEF S
<1>10. now_(k) = other
  BY DEF Listed
<1> QED
  BY <1>8, <1>10, Zenon

Gives0(other, n, k) == \A i \in 1..k : other[n + i].credits >= 0

LEMMA GrantsFit ==
  ASSUME NEW n \in Nat, NEW k \in Nat, NEW rows, Len(rows) = n,
         NEW other, Listed(other, n + k),
         Read(other, n + k), Same(rows, other, n), Read(rows, n),
         Replay(rows).debt = 0, Gives0(other, n, k)
  PROVE  Replay(other).debt = 0
<1>1. \A j \in 0..n+k : Len(Prefix(other, j)) = j
  BY DEF Listed
<1> DEFINE P(j) == Replay(Prefix(other, n + j)).debt = 0
           S == {j \in Nat : j =< k => P(j)}
<1>2. 0 \in S
  <2>1. /\ Len(Prefix(other, n)) = n /\ Same(rows, Prefix(other, n), n)
        /\ Read(Prefix(other, n), n)
    <3>1. n \in 0..n+k /\ \A i \in 1..n : Prefix(other, n)[i] = other[i]
      BY DEF Prefix
    <3>2. \A i \in 1..n : i \in 1..n+k
      OBVIOUS
    <3> QED
      BY <1>1, <3>1, <3>2, ZenonT(60) DEF Same, Read
  <2>2. Replay(Prefix(other, n)) = Replay(rows)
    BY <2>1, ReplaySame
  <2>3. n + 0 = n
    OBVIOUS
  <2>4. P(0)
    BY <2>2, <2>3, Zenon
  <2> HIDE DEF P
  <2> QED
    BY <2>4
<1>3. ASSUME NEW j \in Nat, j \in S PROVE j + 1 \in S
  <2>1. SUFFICES ASSUME j + 1 =< k PROVE P(j + 1)
    BY DEF P
  <2>2. P(j)
    BY <1>3, <2>1
  <2>3. PICK m, one : m = n + j /\ one = j + 1
    OBVIOUS
  <2>4. /\ m \in Nat /\ m + 1 = n + one /\ m \in 0..n+k /\ m + 1 \in 0..n+k
        /\ m + 1 \in 1..n+k /\ one \in 1..k
    BY <2>1, <2>3
  <2>5. PICK was, is : was = Prefix(other, m) /\ is = Prefix(other, m + 1)
    OBVIOUS
  <2>6. /\ Len(was) = m /\ Len(is) = m + 1
        /\ Same(was, is, m) /\ Read(was, m) /\ Read(is, m + 1)
        /\ is[m + 1] = other[n + one]
    <3>1. Len(was) = m /\ Len(is) = m + 1
      BY <1>1, <2>4, <2>5
    <3>2. /\ \A i \in 1..m : was[i] = other[i] /\ is[i] = other[i] /\ i \in 1..n+k
          /\ \A i \in 1..m+1 : is[i] = other[i] /\ i \in 1..n+k
      BY <2>4, <2>5 DEF Prefix
    <3>3. is[m + 1] = other[n + one]
      BY <2>4, <3>2
    <3> QED
      BY <3>1, <3>2, <3>3 DEF Same, Read
  <2>7. Replay(was).debt = 0
    BY <2>2, <2>3, <2>5
  <2>8. is[m + 1].credits >= 0
    BY <2>4, <2>6 DEF Gives0
  <2>9. Replay(is).debt = 0
    BY <2>4, <2>6, <2>7, <2>8, GrantFits
  <2>10. Prefix(other, n + one) = is /\ one = j + 1
    BY <2>3, <2>4, <2>5
  <2>11. P(one)
    BY <2>9, <2>10, Zenon
  <2> HIDE DEF P
  <2> QED
    BY <2>10, <2>11
<1> HIDE DEF S
<1>4. k \in S
  BY <1>2, <1>3, Induction
<1>5. P(k)
  BY <1>4 DEF S
<1> QED
  BY <1>5, Zenon DEF Listed

(* A later instant leaves no more to spend. *)
LEMMA AvailableLater ==
  ASSUME NEW rows, NEW n \in Nat, Len(rows) = n, Read(rows, n),
         NEW t \in Int, NEW u \in Int, t =< u
  PROVE  Available(rows, u) =< Available(rows, t)
<1>1. PICK left : left = Replay(rows).left
  OBVIOUS
<1>2. left \in [1..n -> Nat]
  BY <1>1, ReplayType DEF State
<1>3. PICK early, late : early = OpenAt(rows, left, t) /\ late = OpenAt(rows, left, u)
  OBVIOUS
<1>4. early \in [1..n -> Nat] /\ late \in [1..n -> Nat]
  BY <1>2, <1>3, OpenAtType
<1>5. ASSUME NEW i \in 1..n PROVE late[i] =< early[i]
  <2>1. /\ early[i] = IF rows[i].expires > t THEN left[i] ELSE 0
        /\ late[i] = IF rows[i].expires > u THEN left[i] ELSE 0
    BY <1>2, <1>3 DEF OpenAt, IsActiveAt
  <2>2. rows[i].expires \in Int /\ left[i] \in Nat
    BY <1>2 DEF Read
  <2> QED
    BY <2>1, <2>2
<1>6. early \in [1..n -> Int] /\ late \in [1..n -> Int]
  BY <1>4
<1>7. Total(late) =< Total(early)
  BY <1>5, <1>6, TotalLess
<1> QED
  BY <1>1, <1>3, <1>7, Zenon DEF Available

-----------------------------------------------------------------------------
(* Parts of a movement. *)

LEMMA MaskType ==
  ASSUME NEW n \in Nat, NEW f \in [1..n -> Nat], NEW T
  PROVE  Mask(f, T) \in [1..n -> Nat] /\ Mask(f, T) \in [1..n -> Int]
BY DEF Mask

LEMMA MaskUnion ==
  ASSUME NEW n \in Nat, NEW f \in [1..n -> Nat], NEW T, NEW U, T \intersect U = {}
  PROVE  Total(Mask(f, T \union U)) = Total(Mask(f, T)) + Total(Mask(f, U))
<1>1. PICK a, b, c : a = Mask(f, T) /\ b = Mask(f, U) /\ c = Mask(f, T \union U)
  OBVIOUS
<1>2. a \in [1..n -> Int] /\ b \in [1..n -> Int] /\ c \in [1..n -> Int]
  BY <1>1, MaskType
<1>3. \A k \in 1..n : c[k] = a[k] + b[k]
  BY <1>1 DEF Mask
<1>4. Total(c) = Total(a) + Total(b)
  <2>1. Plus(n, a, b, c)
    BY <1>2, <1>3, Zenon DEF Plus
  <2> QED
    BY <2>1, TotalPlus
<1> QED
  BY <1>1, <1>4, Zenon

LEMMA MaskAtMost ==
  ASSUME NEW n \in Nat, NEW f \in [1..n -> Nat], NEW T
  PROVE  Total(Mask(f, T)) =< Total(f)
<1>1. PICK a : a = Mask(f, T)
  OBVIOUS
<1>2. a \in [1..n -> Int] /\ f \in [1..n -> Int] /\ \A k \in 1..n : a[k] =< f[k]
  BY <1>1 DEF Mask
<1>3. Total(a) =< Total(f)
  BY <1>2, TotalLess
<1> QED
  BY <1>1, <1>3, Zenon

Having(rows, n, t) == {i \in 1..n : TermsOf(rows[i]) = t}

LEMMA OfTermsMask ==
  ASSUME NEW n \in Nat, NEW rows, NEW taken \in [1..n -> Nat], NEW t
  PROVE  OfTerms(rows, taken, t) = Total(Mask(taken, Having(rows, n, t)))
<1>1. [i \in DOMAIN taken |-> IF TermsOf(rows[i]) = t THEN taken[i] ELSE 0]
        = Mask(taken, Having(rows, n, t))
  <2>1. DOMAIN taken = 1..n
    OBVIOUS
  <2> QED
    BY <2>1 DEF Mask, Having
<1> QED
  BY <1>1, Zenon DEF OfTerms

LEMMA OfTermsNat ==
  ASSUME NEW n \in Nat, NEW rows, NEW taken \in [1..n -> Nat], NEW t
  PROVE  OfTerms(rows, taken, t) \in Nat
<1>1. PICK a : a = Mask(taken, Having(rows, n, t))
  OBVIOUS
<1>2. a \in [1..n -> Nat]
  BY <1>1, MaskType
<1>3. Total(a) \in Nat
  BY <1>2, TotalNat
<1> QED
  BY <1>1, <1>3, OfTermsMask

(* The terms of the first j parts. *)
Upto(rows, n, terms, j) == {i \in 1..n : \E m \in 1..j : TermsOf(rows[i]) = terms[m]}

(* Sums by different terms make up no more than there is. *)
Parted(n, rows, taken, k, terms, c) ==
  /\ n \in Nat /\ taken \in [1..n -> Nat]
  /\ k \in Nat /\ c \in [1..k -> Nat]
  /\ \A m, j \in 1..k : m < j => terms[m] # terms[j]
  /\ \A m \in 1..k : c[m] = OfTerms(rows, taken, terms[m])

LEMMA TermsSum ==
  ASSUME NEW n, NEW rows, NEW taken, NEW k, NEW terms, NEW c,
         Parted(n, rows, taken, k, terms, c)
  PROVE  Total(c) =< Total(taken)
<1> SUFFICES ASSUME n \in Nat, taken \in [1..n -> Nat], k \in Nat, c \in [1..k -> Nat],
                    \A m, j \in 1..k : m < j => terms[m] # terms[j],
                    \A m \in 1..k : c[m] = OfTerms(rows, taken, terms[m])
             PROVE  Total(c) =< Total(taken)
  BY DEF Parted
<1>1. PICK h \in [0..k -> Int] : Runs(h, c, k) /\ Total(c) = h[k]
  <2>1. c \in [1..k -> Int]
    OBVIOUS
  <2> QED
    BY <2>1, TotalRuns
<1> DEFINE P(j) == h[j] = Total(Mask(taken, Upto(rows, n, terms, j)))
           S == {j \in Nat : j =< k => P(j)}
<1>a. \A T, U : T \intersect U = {} =>
        Total(Mask(taken, T \union U)) = Total(Mask(taken, T)) + Total(Mask(taken, U))
  BY MaskUnion
<1>2. 0 \in S
  <2>1. Upto(rows, n, terms, 0) = {}
    BY DEF Upto
  <2>2. Total(Mask(taken, {})) = 0
    <3>1. taken \in [1..n -> Int]
      OBVIOUS
    <3> QED
      BY <3>1, MaskEnds
  <2>3. h[0] = 0
    BY <1>1 DEF Runs
  <2>4. P(0)
    BY <2>1, <2>2, <2>3, Zenon
  <2> HIDE DEF P
  <2> QED
    BY <2>4
<1>3. ASSUME NEW j \in Nat, j \in S PROVE j + 1 \in S
  <2>1. SUFFICES ASSUME j + 1 =< k PROVE P(j + 1)
    BY DEF P
  <2>2. P(j)
    BY <1>3, <2>1
  <2>3. PICK one : one = j + 1
    OBVIOUS
  <2>4. one \in 1..k /\ one - 1 = j /\ \A m \in 1..j : m \in 1..k /\ m < one
    BY <2>1, <2>3
  <2>5. PICK T, U : T = Upto(rows, n, terms, j) /\ U = Having(rows, n, terms[one])
    OBVIOUS
  <2>6. T \intersect U = {}
    BY <2>4, <2>5 DEF Upto, Having
  <2>7. T \union U = Upto(rows, n, terms, one)
    <3>1. \A m : m \in 1..one <=> (m \in 1..j \/ m = one)
      BY <2>3
    <3> QED
      BY <2>5, <3>1 DEF Upto, Having
  <2>8. Total(Mask(taken, Upto(rows, n, terms, one)))
          = Total(Mask(taken, T)) + Total(Mask(taken, U))
    BY <1>a, <2>6, <2>7
  <2>9. Total(Mask(taken, T)) = h[j]
    BY <2>2, <2>5
  <2>10. Total(Mask(taken, U)) = c[one]
    <3>1. c[one] = OfTerms(rows, taken, terms[one])
      BY <2>4
    <3>2. OfTerms(rows, taken, terms[one]) = Total(Mask(taken, Having(rows, n, terms[one])))
      BY OfTermsMask
    <3> QED
      BY <2>5, <3>1, <3>2, Zenon
  <2>11. h[one] = h[j] + c[one]
    BY <1>1, <2>4 DEF Runs
  <2>12. P(one)
    BY <2>8, <2>9, <2>10, <2>11, Zenon
  <2> HIDE DEF P
  <2> QED
    BY <2>3, <2>12
<1> HIDE DEF S
<1>4. k \in S
  BY <1>2, <1>3, Induction
<1>5. P(k)
  BY <1>4 DEF S
<1>6. PICK T : T = Upto(rows, n, terms, k)
  OBVIOUS
<1>7. Total(Mask(taken, T)) =< Total(taken)
  BY MaskAtMost
<1> QED
  BY <1>1, <1>5, <1>6, <1>7, Zenon

PlanCredits(order) == [m \in DOMAIN order |-> order[m].credits]

LEMMA ImageFinite ==
  ASSUME NEW S, IsFiniteSet(S), NEW f
  PROVE  IsFiniteSet({f[x] : x \in S})
<1> DEFINE T == {f[x] : x \in S}
           g == [x \in S |-> f[x]]
<1>1. g \in Surjection(S, T)
  BY DEF Surjection
<1> HIDE DEF g, T
<1>2. IsFiniteSet(T)
  BY <1>1, FS_Surjection
<1> QED
  BY <1>2 DEF T

LEMMA PartsType ==
  ASSUME NEW n \in Nat, NEW rows, NEW taken \in [1..n -> Nat]
  PROVE  /\ IsFiniteSet(PartsOf(rows, taken))
         /\ \A p \in PartsOf(rows, taken) :
              /\ p = [terms |-> p.terms, credits |-> p.credits]
              /\ p.credits \in Nat
              /\ p.credits = OfTerms(rows, taken, p.terms)
              /\ \E i \in 1..n : p.terms = TermsOf(rows[i])
<1> DEFINE I == {j \in DOMAIN taken : taken[j] > 0}
           D == {TermsOf(rows[i]) : i \in I}
<1>1. IsFiniteSet(I) /\ I \subseteq 1..n
  BY FS_Interval, FS_Subset
<1>2. PICK f : f = [i \in I |-> [terms |-> TermsOf(rows[i]),
                                credits |-> OfTerms(rows, taken, TermsOf(rows[i]))]]
  OBVIOUS
<1>3. IsFiniteSet({f[i] : i \in I})
  BY <1>1, ImageFinite
<1>4. PartsOf(rows, taken) = {f[i] : i \in I}
  <2>1. PartsOf(rows, taken) = {[terms |-> t, credits |-> OfTerms(rows, taken, t)] : t \in D}
    BY Zenon DEF PartsOf
  <2> HIDE DEF I
  <2>2. \A i \in I : f[i] = [terms |-> TermsOf(rows[i]),
                            credits |-> OfTerms(rows, taken, TermsOf(rows[i]))]
    BY <1>2
  <2>3. ASSUME NEW p PROVE p \in PartsOf(rows, taken) <=> p \in {f[i] : i \in I}
    BY <2>1, <2>2, Zenon
  <2> QED
    BY <2>3
<1>5. ASSUME NEW p \in PartsOf(rows, taken)
      PROVE  /\ p = [terms |-> p.terms, credits |-> p.credits]
             /\ p.credits \in Nat
             /\ p.credits = OfTerms(rows, taken, p.terms)
             /\ \E i \in 1..n : p.terms = TermsOf(rows[i])
  <2>1. PICK t \in D : p = [terms |-> t, credits |-> OfTerms(rows, taken, t)]
    <3>1. PICK i \in I : p = f[i]
      BY <1>4, <1>5
    <3>2. p = [terms |-> TermsOf(rows[i]), credits |-> OfTerms(rows, taken, TermsOf(rows[i]))]
      BY <1>2, <3>1, Zenon
    <3> QED
      BY <3>2, Zenon
  <2>2. OfTerms(rows, taken, t) \in Nat
    BY OfTermsNat
  <2>3. \E i \in 1..n : t = TermsOf(rows[i])
    BY <1>1
  <2> QED
    BY <2>1, <2>2, <2>3
<1> QED
  BY <1>3, <1>4, <1>5

LEMMA OrderIs ==
  ASSUME NEW parts, IsFiniteSet(parts), NEW order \in Orders(parts)
  PROVE  /\ Cardinality(parts) \in Nat
         /\ order \in [1..Cardinality(parts) -> parts]
         /\ \A m, j \in 1..Cardinality(parts) : m < j => order[m] # order[j]
<1>1. Cardinality(parts) \in Nat
  BY FS_CardinalityType
<1>2. order \in [1..Cardinality(parts) -> parts] /\ DOMAIN order = 1..Cardinality(parts)
  BY DEF Orders
<1>3. \A m, j \in DOMAIN order : m < j => order[m] # order[j]
  BY DEF Orders
<1> QED
  BY <1>1, <1>2, <1>3

(* What an allocation takes is no more than it was given. *)
LEMMA PlanSum ==
  ASSUME NEW n \in Nat, NEW rows, NEW taken \in [1..n -> Nat],
         NEW order \in Orders(PartsOf(rows, taken))
  PROVE  Total(PlanCredits(order)) =< Total(taken)
<1>1. PICK parts : parts = PartsOf(rows, taken)
  OBVIOUS
<1>2. /\ IsFiniteSet(parts)
      /\ \A p \in parts : /\ p = [terms |-> p.terms, credits |-> p.credits]
                          /\ p.credits \in Nat
                          /\ p.credits = OfTerms(rows, taken, p.terms)
  BY <1>1, PartsType
<1>3. PICK k \in Nat : k = Cardinality(parts)
  BY <1>2, FS_CardinalityType
<1>4. order \in [1..k -> parts] /\ \A m, j \in 1..k : m < j => order[m] # order[j]
  BY <1>1, <1>2, <1>3, OrderIs
<1>5. PICK terms, c : /\ terms = [m \in 1..k |-> order[m].terms]
                      /\ c = [m \in 1..k |-> order[m].credits]
  OBVIOUS
<1>6. \A m \in 1..k : order[m] \in parts
  BY <1>4
<1>7. c \in [1..k -> Nat] /\ \A m \in 1..k : c[m] = OfTerms(rows, taken, terms[m])
  <2>1. ASSUME NEW m \in 1..k
        PROVE  order[m].credits \in Nat
               /\ order[m].credits = OfTerms(rows, taken, order[m].terms)
    BY <1>2, <1>6, Zenon
  <2>2. c \in [1..k -> Nat]
    BY <1>5, <2>1
  <2>3. ASSUME NEW m \in 1..k
        PROVE  c[m] = order[m].credits /\ terms[m] = order[m].terms
    BY <1>5
  <2> QED
    BY <2>1, <2>2, <2>3, Zenon
<1>8. \A m, j \in 1..k : m < j => terms[m] # terms[j]
  <2>1. ASSUME NEW m \in 1..k, NEW j \in 1..k, order[m] # order[j] PROVE terms[m] # terms[j]
    <3>1. /\ order[m] = [terms |-> terms[m], credits |-> OfTerms(rows, taken, terms[m])]
          /\ order[j] = [terms |-> terms[j], credits |-> OfTerms(rows, taken, terms[j])]
      BY <1>2, <1>5, <1>6, Zenon
    <3> QED
      BY <2>1, <3>1, Zenon
  <2> QED
    BY <1>4, <2>1
<1>9. Total(c) =< Total(taken)
  <2>1. Parted(n, rows, taken, k, terms, c)
    BY <1>7, <1>8, Zenon DEF Parted
  <2> QED
    BY <2>1, TermsSum, Zenon
<1>10. PlanCredits(order) = c
  BY <1>4, <1>5 DEF PlanCredits
<1> QED
  BY <1>9, <1>10, Zenon

LEMMA SubSeqPrefix ==
  ASSUME NEW T, NEW n \in Nat, NEW s \in [1..n -> T], NEW m \in 0..n
  PROVE  SubSeq(s, 1, m) = Prefix(s, m)
<1>1. m \in Nat /\ m \in Int /\ 1 \in Int /\ \A i \in 1..m : s[i] \in T
  OBVIOUS
<1>2. PICK a : a = SubSeq(s, 1, m)
  OBVIOUS
<1>3. /\ a \in Seq(T) /\ Len(a) = (IF 1 =< m THEN m - 1 + 1 ELSE 0)
      /\ \A i \in 1..m-1+1 : a[i] = s[1 + i - 1]
  BY <1>1, <1>2, SubSeqProperties
<1>4. Len(a) = m /\ \A i \in 1..m : a[i] = s[i]
  <2>1. m - 1 + 1 = m /\ \A i \in 1..m : 1 + i - 1 = i
    BY <1>1
  <2> QED
    BY <1>1, <1>3, <2>1
<1>5. a \in [1..m -> T]
  BY <1>3, <1>4, SeqIs
<1>6. a = [i \in 1..m |-> s[i]]
  BY <1>4, <1>5
<1> QED
  BY <1>2, <1>6, Zenon DEF Prefix

(* Rows are appended, and what there was stays what it was. *)
Joined(all, s, n, t, k, T) ==
  /\ n \in Nat /\ k \in Nat /\ n + k \in Nat
  /\ s \in [1..n -> T] /\ Len(s) = n
  /\ t \in [1..k -> T]
  /\ all \in Seq(T) /\ all \in [1..n+k -> T] /\ Len(all) = n + k /\ DOMAIN all = 1..n+k
  /\ \A i \in 1..n : i \in 1..n+k /\ all[i] = s[i]
  /\ \A i \in 1..k : n + i \in 1..n+k /\ all[n + i] = t[i]
  /\ \A i \in 1..n+k : i \in 1..n \/ \E j \in 1..k : i = n + j

LEMMA JoinedSeqs ==
  ASSUME NEW T, NEW s \in Seq(T), NEW k \in Nat, NEW t \in [1..k -> T]
  PROVE  Joined(s \o t, s, Len(s), t, k, T)
<1>1. PICK n, all : n = Len(s) /\ all = s \o t
  OBVIOUS
<1>2. n \in Nat /\ s \in [1..n -> T] /\ n + k \in Nat
  BY <1>1, SeqIs
<1>3. t \in Seq(T) /\ Len(t) = k
  BY SeqOf
<1>4. /\ all \in Seq(T) /\ Len(all) = n + k
      /\ \A i \in 1..n+k : all[i] = IF i <= n THEN s[i] ELSE t[i - n]
  BY <1>1, <1>3, ConcatProperties
<1>5. all \in [1..n+k -> T] /\ DOMAIN all = 1..n+k
  BY <1>4, SeqIs
<1>6. ASSUME NEW i \in 1..n PROVE i \in 1..n+k /\ all[i] = s[i]
  <2>1. i \in 1..n+k /\ i <= n
    BY <1>2
  <2> QED
    BY <1>4, <2>1
<1>7. ASSUME NEW i \in 1..k PROVE n + i \in 1..n+k /\ all[n + i] = t[i]
  <2>1. n + i \in 1..n+k /\ ~(n + i <= n) /\ (n + i) - n = i
    BY <1>2
  <2>2. all[n + i] = t[(n + i) - n]
    BY <1>4, <2>1
  <2> QED
    BY <2>1, <2>2
<1>8. ASSUME NEW i \in 1..n+k PROVE i \in 1..n \/ \E j \in 1..k : i = n + j
  <2>1. CASE i <= n
    BY <1>2, <2>1
  <2>2. CASE ~(i <= n)
    <3>1. i - n \in 1..k /\ i = n + (i - n)
      BY <1>2, <2>2
    <3> QED
      BY <3>1
  <2> QED
    BY <2>1, <2>2
<1>9. Joined(all, s, n, t, k, T)
  BY <1>1, <1>2, <1>4, <1>5, <1>6, <1>7, <1>8 DEF Joined
<1> QED
  BY <1>1, <1>9, Zenon

-----------------------------------------------------------------------------
(* The invariants. *)

OrderNos == {OrderNo[g] : g \in GrantIds}
Part == [terms : [expires : Nat, order : OrderNos], credits : Nat]
Row == [kind : {"grant", "spend", "refund"}, id : GrantIds \union SpendIds, part : Nat,
        named : Nat, credits : Int, at : Nat, expires : Nat, order : OrderNos, after : Int]
Call == [pc : {"check", "lock", "insert"}, kind : {"grant", "spend", "refund"},
         id : GrantIds \union SpendIds, at : Nat, plan : SUBSET Part, total : Int]

LedgerType ==
  /\ ledger \in Seq(Row)
  /\ holder \in Request \union {NoOne}
  /\ request \in [Request -> Call \union {Idle}]
  /\ erased \in BOOLEAN
  /\ now \in Nat

RowSound(r) ==
  IF r.kind = "spend" THEN r.credits =< 0 /\ r.id \in SpendIds ELSE r.credits >= 0

(* The root row of every spend is there. *)
RowsSound ==
  \A i \in DOMAIN ledger :
    /\ RowSound(ledger[i])
    /\ ledger[i].kind = "spend" =>
         \E j \in RowsOf("spend", ledger[i].id) : ledger[j].part = 1

CallSound(q, c) ==
  /\ IsFiniteSet(c.plan)
  /\ c.at =< now
  /\ c.id \in IF c.kind = "grant" THEN GrantIds ELSE SpendIds
  /\ c.pc = "insert" => holder = q
  /\ c.kind = "spend" /\ c.pc # "insert" => c.plan = {}

CallsSound == \A q \in Request : request[q] # Idle => CallSound(q, request[q])

LedgerInv == LedgerType /\ RowsSound /\ CallsSound

(* What a transaction read under the lock is still the ledger's sum. *)
SumFresh == \A q \in Request : request[q].pc = "insert" => request[q].total = SumCredits(ledger)

(* What a spend allocated under the lock is still there to be spent. *)
PlanCovered ==
  \A q \in Request : request[q].pc = "insert" /\ request[q].kind = "spend" /\ request[q].plan # {}
    => \A order \in Orders(request[q].plan) :
         Total(PlanCredits(order)) =< Available(ledger, request[q].at)

(* A spend that was asked for. *)
AsksFor(q, s) == request[q] # Idle /\ request[q].kind = "spend" /\ request[q].id = s
Asked(s) == \E q \in Request : AsksFor(q, s)
Touched(s) == RowsOf("spend", s) # {} \/ Asked(s)

AfterSpend == {"note", "generate", "finish", "refund", "refunding"}

RunType ==
  /\ task \in [Task -> [status : {"none", "running", "succeeded", "failed"},
                        transNo : SpendIds \union {NoOne}]]
  /\ run \in [Request -> {Done} \union
                [pc : {"spend", "spending", "fail"} \union AfterSpend, task : Task,
                 transNo : SpendIds \union {NoOne}]]

RunSound(q, r) ==
  /\ task[r.task].status \in {"running", "succeeded"}
  /\ r.pc = "spend" => \A s \in TransNo[r.task] : ~Touched(s)
  /\ r.pc \in {"spend", "spending", "note"} \/ (r.pc = "fail" /\ r.transNo = NoOne)
       => task[r.task].transNo = NoOne
  /\ r.pc \in AfterSpend \/ (r.pc = "fail" /\ r.transNo # NoOne)
       => r.transNo # NoOne /\ RowsOf("spend", r.transNo) # {}
  /\ r.pc = "fail" /\ r.transNo # NoOne
       => RowsOf("refund", r.transNo) # {} \/ r.transNo \in logged

OneRun ==
  \A p, q \in Request : run[p] # Done /\ run[q] # Done /\ run[p].task = run[q].task => p = q

TaskSound(t) ==
  /\ \A s, u \in TransNo[t] : Touched(s) /\ Touched(u) => s = u
  /\ task[t].status = "none" =>
       /\ \A s \in TransNo[t] : ~Touched(s)
       /\ \A q \in Request : run[q] # Done => run[q].task # t
  /\ task[t].transNo # NoOne => RowsOf("spend", task[t].transNo) # {}
  /\ task[t].status = "failed" /\ Standing(task[t].transNo) => task[t].transNo \in logged

(* Who asks for a spend of a task is the request that runs the task. *)
AskedByRun ==
  \A q \in Request, t \in Task : \A s \in TransNo[t] :
    AsksFor(q, s) => run[q].pc = "spending" /\ run[q].task = t

TaskInv ==
  /\ RunType /\ OneRun /\ AskedByRun
  /\ \A q \in Request : run[q] # Done => RunSound(q, run[q])
  /\ \A t \in Task : TaskSound(t)

-----------------------------------------------------------------------------
(* What an insertion writes. *)

Signed(order, k, sign) == [n \in 1..k |-> sign * order[n].credits]

NewRows(new, k, order, sign, kind, c) ==
  /\ k \in Nat
  /\ new \in [1..k -> Row]
  /\ Signed(order, k, sign) \in [1..k -> Int]
  /\ \A n \in 1..k :
       /\ new[n].kind = kind /\ new[n].id = c.id /\ new[n].part = n
       /\ new[n].credits = Signed(order, k, sign)[n]
       /\ new[n].after = c.total + Total(Prefix(Signed(order, k, sign), n))
       /\ kind = "spend" => new[n].at = c.at
       /\ new[n].expires = order[n].terms.expires /\ new[n].order = order[n].terms.order
       /\ new[n].named = 0 => k =< 1

LEMMA InsertIs ==
  ASSUME LedgerType, NEW q \in Request, request[q] \in Call,
         NEW parts, parts \subseteq Part, IsFiniteSet(parts),
         NEW sign \in Int, NEW kind \in {"grant", "spend", "refund"},
         Insert(q, kind, sign, parts)
  PROVE  \E order, new :
           /\ order \in Orders(parts)
           /\ NewRows(new, Cardinality(parts), order, sign, kind, request[q])
           /\ ledger' = ledger \o new
<1>1. PICK k, c : k = Cardinality(parts) /\ c = request[q]
  OBVIOUS
<1> DEFINE Credits_(order) == [n \in DOMAIN order |-> sign * order[n].credits]
           Row_(order, n) ==
             [kind |-> kind, id |-> c.id, part |-> n,
              named |-> IF Len(order) > 1 THEN Len(order) ELSE 0,
              credits |-> Credits_(order)[n],
              at |-> IF kind = "grant" /\ c.id \in PaidGrants THEN now ELSE c.at,
              expires |-> order[n].terms.expires, order |-> order[n].terms.order,
              after |-> c.total + Total(SubSeq(Credits_(order), 1, n))]
<1>2. PICK order \in Orders(parts) :
        ledger' = ledger \o [n \in DOMAIN order |-> Row_(order, n)]
  BY <1>1, ZenonT(60) DEF Insert
<1>3. k \in Nat /\ order \in [1..k -> parts]
  BY <1>1, OrderIs
<1>4. DOMAIN order = 1..k /\ Len(order) = k
  BY <1>3, SeqOf
<1>5. PICK s : s = Signed(order, k, sign)
  OBVIOUS
<1>6. Credits_(order) = s /\ s \in [1..k -> Int]
  <2>1. Credits_(order) = s
    BY <1>4, <1>5, Zenon DEF Signed
  <2>2. ASSUME NEW n \in 1..k PROVE sign * order[n].credits \in Int
    <3>1. PICK p \in Part : p = order[n]
      BY <1>3
    <3>2. p.credits \in Int
      BY <3>1 DEF Part
    <3> QED
      BY <3>1, <3>2
  <2>3. s \in [1..k -> Int]
    BY <1>5, <2>2 DEF Signed
  <2> QED
    BY <2>1, <2>3
<1>7. PICK new : new = [n \in 1..k |-> Row_(order, n)]
  OBVIOUS
<1>8. c \in Call /\ now \in Nat
  BY <1>1 DEF LedgerType
<1>9. ASSUME NEW n \in 1..k
      PROVE  /\ Row_(order, n) \in Row
             /\ Row_(order, n).credits = s[n]
             /\ Row_(order, n).after = c.total + Total(Prefix(s, n))
             /\ kind = "spend" => Row_(order, n).at = c.at
             /\ Row_(order, n).named = 0 => k =< 1
  <2>1. PICK p \in Part : p = order[n]
    BY <1>3
  <2>2. p.terms.expires \in Nat /\ p.terms.order \in OrderNos
    BY DEF Part
  <2>3. /\ c.id \in GrantIds \union SpendIds /\ c.at \in Nat /\ c.total \in Int
        /\ (IF kind = "grant" /\ c.id \in PaidGrants THEN now ELSE c.at) \in Nat
    BY <1>8 DEF Call
  <2>4. n \in Nat /\ n \in 0..k /\ (IF Len(order) > 1 THEN Len(order) ELSE 0) \in Nat
    BY <1>3, <1>4
  <2>5. PICK x, y : x = s[n] /\ y = Total(Prefix(s, n))
    OBVIOUS
  <2>6. x \in Int /\ y \in Int
    <3>1. Prefix(s, n) \in [1..n -> Int]
      BY <1>3, <1>6, <2>4, PrefixSeq
    <3> QED
      BY <1>6, <2>4, <2>5, <3>1, TotalInt
  <2>7. Credits_(order)[n] = x /\ Total(SubSeq(Credits_(order), 1, n)) = y
    <3>1. SubSeq(s, 1, n) = Prefix(s, n)
      BY <1>3, <1>6, <2>4, SubSeqPrefix, ZenonT(60)
    <3> QED
      BY <1>6, <2>5, <3>1, Zenon
  <2>8. c.total + y \in Int
    BY <2>3, <2>6
  <2> DEFINE at == IF kind = "grant" /\ c.id \in PaidGrants THEN now ELSE c.at
             named == IF Len(order) > 1 THEN Len(order) ELSE 0
  <2>9. Row_(order, n) =
          [kind |-> kind, id |-> c.id, part |-> n, named |-> named, credits |-> x, at |-> at,
           expires |-> p.terms.expires, order |-> p.terms.order, after |-> c.total + y]
    BY <2>1, <2>7, Zenon
  <2>10. (kind = "spend" => at = c.at) /\ (named = 0 => k =< 1)
    BY <1>3, <1>4
  <2> HIDE DEF at, named, Row_, Credits_
  <2>11. at \in Nat /\ named \in Nat
    BY <2>3, <2>4 DEF at, named
  <2>12. Row_(order, n) \in Row
    BY <2>2, <2>3, <2>4, <2>6, <2>8, <2>9, <2>11 DEF Row
  <2> QED
    BY <2>5, <2>9, <2>10, <2>12
<1>10. \A n \in 1..k : new[n] = Row_(order, n)
  BY <1>7, Zenon
<1>11. \A n \in 1..k : Row_(order, n).kind = kind /\ Row_(order, n).id = c.id
                        /\ Row_(order, n).part = n
                        /\ Row_(order, n).expires = order[n].terms.expires
                        /\ Row_(order, n).order = order[n].terms.order
  OBVIOUS
<1>12. new \in [1..k -> Row]
  <2> HIDE DEF Row_
  <2> QED
    BY <1>7, <1>9
<1>13. NewRows(new, k, order, sign, kind, c)
  <2> HIDE DEF Row_, Credits_
  <2> QED
    <3>1. ASSUME NEW n \in 1..k
          PROVE  /\ new[n].kind = kind /\ new[n].id = c.id /\ new[n].part = n
                 /\ new[n].credits = Signed(order, k, sign)[n]
                 /\ new[n].after = c.total + Total(Prefix(Signed(order, k, sign), n))
                 /\ kind = "spend" => new[n].at = c.at
                 /\ new[n].expires = order[n].terms.expires /\ new[n].order = order[n].terms.order
                 /\ new[n].named = 0 => k =< 1
      BY <1>5, <1>9, <1>10, <1>11, ZenonT(60)
    <3>2. Signed(order, k, sign) \in [1..k -> Int]
      BY <1>5, <1>6, Zenon
    <3> QED
      BY <1>3, <1>12, <3>1, <3>2, Zenon DEF NewRows
<1>14. ledger' = ledger \o new
  BY <1>2, <1>4, <1>7, Zenon
<1> QED
  BY <1>1, <1>13, <1>14, Zenon

-----------------------------------------------------------------------------
(* The ledger's types. *)

LEMMA LedgerIs ==
  ASSUME LedgerType
  PROVE  \E n \in Nat : /\ n = Len(ledger) /\ DOMAIN ledger = 1..n
                        /\ ledger \in [1..n -> Row] /\ Read(ledger, n)
<1>1. PICK n : n = Len(ledger)
  OBVIOUS
<1>2. ledger \in Seq(Row)
  BY DEF LedgerType
<1>3. n \in Nat /\ ledger \in [1..n -> Row] /\ DOMAIN ledger = 1..n
  BY <1>1, <1>2, SeqIs
<1>4. \A r \in Row : r.credits \in Int /\ r.at \in Int /\ r.expires \in Int
  BY DEF Row
<1>5. Read(ledger, n)
  BY <1>3, <1>4 DEF Read
<1> QED
  BY <1>1, <1>3, <1>5, Zenon

LEMMA RowTerms ==
  ASSUME NEW r \in Row
  PROVE  TermsOf(r) \in [expires : Nat, order : OrderNos]
BY DEF Row, TermsOf

LEMMA PlanType ==
  ASSUME LedgerType, NEW taken \in [1..Len(ledger) -> Nat]
  PROVE  PartsOf(ledger, taken) \subseteq Part /\ IsFiniteSet(PartsOf(ledger, taken))
<1>1. PICK n \in Nat : n = Len(ledger) /\ ledger \in [1..n -> Row]
  BY LedgerIs
<1>2. taken \in [1..n -> Nat]
  BY <1>1
<1>3. PICK parts : parts = PartsOf(ledger, taken)
  OBVIOUS
<1>4. /\ IsFiniteSet(parts)
      /\ \A p \in parts :
           /\ p = [terms |-> p.terms, credits |-> p.credits]
           /\ p.credits \in Nat
           /\ \E i \in 1..n : p.terms = TermsOf(ledger[i])
  BY <1>2, <1>3, PartsType
<1>5. ASSUME NEW p \in parts PROVE p \in Part
  <2>1. PICK i \in 1..n : p.terms = TermsOf(ledger[i])
    BY <1>4
  <2>2. ledger[i] \in Row
    BY <1>1
  <2>3. TermsOf(ledger[i]) \in [expires : Nat, order : OrderNos]
    BY <2>2, RowTerms
  <2>4. PICK t, c : t = p.terms /\ c = p.credits
    OBVIOUS
  <2>5. p = [terms |-> t, credits |-> c] /\ c \in Nat /\ t \in [expires : Nat, order : OrderNos]
    BY <1>4, <2>1, <2>3, <2>4, Zenon
  <2> QED
    BY <2>5 DEF Part
<1> QED
  BY <1>3, <1>4, <1>5

LEMMA NamedAreSpends ==
  ASSUME LedgerType, RowsSound, NEW s, RowsOf("spend", s) # {}
  PROVE  PartsNamed(s) \subseteq RowsOf("spend", s) /\ s \in SpendIds
<1>1. PICK i \in DOMAIN ledger : ledger[i].kind = "spend" /\ ledger[i].id = s
  BY DEF RowsOf
<1>2. s \in SpendIds /\ \E j \in RowsOf("spend", s) : ledger[j].part = 1
  BY <1>1 DEF RowsSound, RowSound
<1> DEFINE root == CHOOSE j \in RowsOf("spend", s) : ledger[j].part = 1
<1>3. root \in RowsOf("spend", s)
  BY <1>2
<1> HIDE DEF root
<1>4. PartsNamed(s) = IF ledger[root].named = 0 THEN {root} ELSE RowsOf("spend", s)
  BY Zenon DEF PartsNamed, root
<1> QED
  BY <1>2, <1>3, <1>4

LEMMA RefundPlanType ==
  ASSUME LedgerType, RowsSound, NEW s, RowsOf("spend", s) # {}
  PROVE  RefundPlan(s) \subseteq Part /\ IsFiniteSet(RefundPlan(s))
<1>1. PICK n \in Nat : /\ n = Len(ledger) /\ DOMAIN ledger = 1..n
                       /\ ledger \in [1..n -> Row] /\ Read(ledger, n)
  BY LedgerIs
<1>2. PICK taken, rows : taken = Replay(ledger).taken /\ rows = PartsNamed(s)
  OBVIOUS
<1>3. \A i \in 1..n : ledger[i].credits =< 0 => taken[i] \in [1..i-1 -> Nat]
  BY <1>1, <1>2, ReplayType DEF State
<1>4. \A i \in rows : i \in 1..n /\ ledger[i].credits =< 0
  <2>1. rows \subseteq RowsOf("spend", s)
    BY <1>2, NamedAreSpends
  <2>2. \A i \in RowsOf("spend", s) : i \in 1..n /\ ledger[i].credits =< 0
    BY <1>1 DEF RowsOf, RowsSound, RowSound
  <2> QED
    BY <2>1, <2>2
<1> DEFINE Share(b) == [i \in DOMAIN ledger |->
                          IF i \in rows /\ b < i THEN taken[i][b] ELSE 0]
<1>5. ASSUME NEW b \in 1..n PROVE Total(Share(b)) \in Nat
  <2>1. ASSUME NEW i \in 1..n PROVE (IF i \in rows /\ b < i THEN taken[i][b] ELSE 0) \in Nat
    <3>1. CASE i \in rows /\ b < i
      <4>1. taken[i] \in [1..i-1 -> Nat] /\ b \in 1..i-1
        BY <1>3, <1>4, <3>1
      <4> QED
        BY <3>1, <4>1
    <3>2. CASE ~(i \in rows /\ b < i)
      BY <3>2
    <3> QED
      BY <3>1, <3>2
  <2>2. Share(b) \in [1..n -> Nat]
    BY <1>1, <2>1
  <2> HIDE DEF Share
  <2> QED
    BY <2>2, TotalNat
<1>6. PICK given : given = [b \in DOMAIN ledger |-> Total(Share(b))]
  OBVIOUS
<1>7. given \in [1..n -> Nat]
  <2> HIDE DEF Share
  <2> QED
    BY <1>1, <1>5, <1>6
<1>8. RefundPlan(s) = PartsOf(ledger, given)
  BY <1>2, <1>6, Zenon DEF RefundPlan
<1> QED
  BY <1>1, <1>7, <1>8, PlanType

LEMMA CallsStep ==
  ASSUME LedgerInv, NEW q \in Request, NEW c \in Call \union {Idle},
         request' = [request EXCEPT ![q] = c], now' = now,
         \A p \in Request : p # q /\ holder = p => holder' = p,
         c # Idle => CallSound(q, c)'
  PROVE  request' \in [Request -> Call \union {Idle}] /\ CallsSound'
<1>1. request \in [Request -> Call \union {Idle}]
  BY DEF LedgerInv, LedgerType
<1>2. /\ request' \in [Request -> Call \union {Idle}]
      /\ request'[q] = c /\ \A p \in Request : p # q => request'[p] = request[p]
  BY <1>1
<1>3. ASSUME NEW p \in Request, request'[p] # Idle PROVE CallSound(p, request[p])'
  <2>1. CASE p = q
    BY <1>2, <1>3, <2>1 DEF CallSound
  <2>2. CASE p # q
    <3>1. request'[p] = request[p]
      BY <1>2, <2>2
    <3>2. CallSound(p, request[p])
      BY <1>3, <3>1 DEF LedgerInv, CallsSound
    <3> QED
      BY <2>2, <3>1, <3>2, Zenon DEF CallSound
  <2> QED
    BY <2>1, <2>2
<1> QED
  BY <1>2, <1>3 DEF CallsSound

(* Nothing is written: the rows and the clock are what they were. *)
LEMMA RowsKept ==
  ASSUME LedgerInv, ledger' = ledger
  PROVE  /\ ledger' \in Seq(Row) /\ RowsSound'
         /\ \A kind, id : RowsOf(kind, id)' = RowsOf(kind, id)
BY DEF LedgerInv, LedgerType, RowsSound, RowsOf, RowSound

LEMMA QuietStep ==
  ASSUME LedgerInv, NEW q \in Request, NEW c \in Call \union {Idle},
         request' = [request EXCEPT ![q] = c], UNCHANGED <<ledger, erased, now>>,
         holder' \in Request \union {NoOne},
         \A p \in Request : p # q /\ holder = p => holder' = p,
         c # Idle => CallSound(q, c)'
  PROVE  LedgerInv'
<1>1. request' \in [Request -> Call \union {Idle}] /\ CallsSound'
  BY CallsStep
<1>2. ledger' \in Seq(Row) /\ RowsSound'
  BY RowsKept
<1>3. erased' \in BOOLEAN /\ now' \in Nat
  BY DEF LedgerInv, LedgerType
<1> QED
  BY <1>1, <1>2, <1>3 DEF LedgerInv, LedgerType

Asks(kind, id, pc, plan) ==
  [pc |-> pc, kind |-> kind, id |-> id, at |-> now, plan |-> plan, total |-> 0]

LEMMA AskStep ==
  ASSUME LedgerInv, NEW q \in Request,
         NEW kind \in {"grant", "spend", "refund"}, NEW pc \in {"check", "lock"},
         NEW id \in IF kind = "grant" THEN GrantIds ELSE SpendIds,
         NEW plan, plan \subseteq Part, IsFiniteSet(plan), kind = "spend" => plan = {},
         Ask(q, kind, id, pc, plan), UNCHANGED <<ledger, holder, erased, now>>
  PROVE  LedgerInv'
<1>1. PICK c : c = Asks(kind, id, pc, plan)
  OBVIOUS
<1>2. now \in Nat /\ holder \in Request \union {NoOne}
  BY DEF LedgerInv, LedgerType
<1>3. c \in Call
  BY <1>1, <1>2 DEF Call, Asks
<1>4. request' = [request EXCEPT ![q] = c]
  BY <1>1 DEF Ask, Asks
<1>5. CallSound(q, c)'
  <2>1. /\ c.plan = plan /\ c.at = now /\ c.id = id /\ c.kind = kind /\ c.pc = pc
    BY <1>1 DEF Asks
  <2>2. c.at =< now'
    BY <1>2, <2>1
  <2> QED
    BY <2>1, <2>2 DEF CallSound
<1>6. holder' \in Request \union {NoOne} /\ \A p \in Request : holder = p => holder' = p
  BY <1>2
<1> QED
  BY <1>3, <1>4, <1>5, <1>6, QuietStep

LEMMA CallsKeepType ==
  ASSUME LedgerInv, NEW q \in Request,
         \/ \E g \in GrantIds : CallGrant(q, g)
         \/ \E s \in SpendIds : CallSpend(q, s)
         \/ \E s : CallRefund(q, s)
  PROVE  LedgerInv'
<1>1. ASSUME NEW g \in GrantIds, CallGrant(q, g) PROVE LedgerInv'
  <2>1. Ask(q, "grant", g, "lock", {}) /\ UNCHANGED <<ledger, holder, erased, now>>
    BY <1>1 DEF CallGrant
  <2>2. g \in IF "grant" = "grant" THEN GrantIds ELSE SpendIds
    OBVIOUS
  <2> QED
    BY <2>1, <2>2, AskStep, FS_EmptySet
<1>2. ASSUME NEW s \in SpendIds, CallSpend(q, s) PROVE LedgerInv'
  <2>1. Ask(q, "spend", s, "lock", {}) /\ UNCHANGED <<ledger, holder, erased, now>>
    BY <1>2 DEF CallSpend
  <2>2. s \in IF "spend" = "grant" THEN GrantIds ELSE SpendIds
    OBVIOUS
  <2> QED
    BY <2>1, <2>2, AskStep, FS_EmptySet
<1>3. ASSUME NEW s, CallRefund(q, s) PROVE LedgerInv'
  <2>1. PICK plan : plan = RefundPlan(s)
    OBVIOUS
  <2>2. /\ Ask(q, "refund", s, "check", plan) /\ UNCHANGED <<ledger, holder, erased, now>>
        /\ RowsOf("spend", s) # {}
    BY <1>3, <2>1 DEF CallRefund
  <2>3. LedgerType /\ RowsSound
    BY DEF LedgerInv
  <2>4. plan \subseteq Part /\ IsFiniteSet(plan)
    BY <2>1, <2>2, <2>3, RefundPlanType
  <2>5. s \in SpendIds
    BY <2>2, <2>3, NamedAreSpends
  <2>6. s \in IF "refund" = "grant" THEN GrantIds ELSE SpendIds
    BY <2>5
  <2> QED
    BY <2>2, <2>4, <2>6, AskStep
<1> QED
  BY <1>1, <1>2, <1>3

LEMMA CallIs ==
  ASSUME LedgerInv, NEW q \in Request, request[q].pc \in {"check", "lock", "insert"}
  PROVE  request[q] # Idle /\ request[q] \in Call /\ CallSound(q, request[q])
BY DEF LedgerInv, LedgerType, CallsSound, Idle

LEMMA ReleaseStep ==
  ASSUME LedgerInv, NEW q \in Request, Release(q)
  PROVE  /\ request' = [request EXCEPT ![q] = Idle]
         /\ holder' \in Request \union {NoOne}
         /\ \A p \in Request : p # q /\ holder = p => holder' = p
BY DEF Release, LedgerInv, LedgerType

LEMMA ReleaseKeepsType ==
  ASSUME LedgerInv, NEW q \in Request, Release(q), UNCHANGED <<ledger, erased, now>>
  PROVE  LedgerInv'
BY ReleaseStep, QuietStep

LEMMA CheckRefundKeepsType ==
  ASSUME LedgerInv, NEW q \in Request, CheckRefund(q)
  PROVE  LedgerInv'
<1>1. PICK c : c = request[q]
  OBVIOUS
<1>2. c \in Call /\ CallSound(q, c) /\ c.pc = "check"
  BY <1>1, CallIs DEF CheckRefund
<1>3. PICK d : d = [c EXCEPT !.pc = "lock", !.at = now]
  OBVIOUS
<1>4. now \in Nat /\ holder \in Request \union {NoOne}
  BY DEF LedgerInv, LedgerType
<1>5. /\ d \in Call
      /\ d.kind = c.kind /\ d.id = c.id /\ d.plan = c.plan /\ d.at = now /\ d.pc = "lock"
  BY <1>2, <1>3, <1>4 DEF Call
<1>6. CASE RowsOf("refund", c.id) # {}
  <2>1. request' = [request EXCEPT ![q] = Idle] /\ UNCHANGED <<ledger, holder, erased, now>>
    BY <1>1, <1>6 DEF CheckRefund
  <2> QED
    BY <1>4, <2>1, QuietStep
<1>7. CASE RowsOf("refund", c.id) = {}
  <2>1. request' = [request EXCEPT ![q] = d] /\ UNCHANGED <<ledger, holder, erased, now>>
    BY <1>1, <1>3, <1>7 DEF CheckRefund
  <2>2. CallSound(q, d)'
    BY <1>2, <1>4, <1>5, <2>1 DEF CallSound
  <2> QED
    BY <1>4, <1>5, <2>1, <2>2, QuietStep
<1> QED
  BY <1>6, <1>7

LEMMA SumInt ==
  ASSUME LedgerType
  PROVE  SumCredits(ledger) \in Int
<1>1. PICK n \in Nat : DOMAIN ledger = 1..n /\ ledger \in [1..n -> Row] /\ Read(ledger, n)
  BY LedgerIs
<1>2. PICK s : s = Credits(ledger)
  OBVIOUS
<1>3. s \in [1..n -> Int]
  BY <1>1, <1>2 DEF Credits, Read
<1>4. Total(s) \in Int
  BY <1>3, TotalInt
<1> QED
  BY <1>2, <1>4 DEF SumCredits

LEMMA LockKeepsType ==
  ASSUME LedgerInv, LedgerAssumption, NEW q \in Request, LockOrgAndSumLedger(q)
  PROVE  LedgerInv'
<1>1. PICK c : c = request[q]
  OBVIOUS
<1>2. c \in Call /\ CallSound(q, c) /\ c.pc = "lock"
  BY <1>1, CallIs DEF LockOrgAndSumLedger
<1>3. PICK total, d : total = SumCredits(ledger) /\ d = [c EXCEPT !.pc = "insert", !.total = total]
  OBVIOUS
<1>4. total \in Int
  BY <1>3, SumInt DEF LedgerInv
<1>5. /\ d \in Call
      /\ d.kind = c.kind /\ d.id = c.id /\ d.plan = c.plan /\ d.at = c.at /\ d.pc = "insert"
  BY <1>2, <1>3, <1>4 DEF Call
<1>6. /\ request' = [request EXCEPT ![q] = d] /\ UNCHANGED <<ledger, erased, now>>
      /\ holder = NoOne /\ holder' = q
  BY <1>1, <1>3 DEF LockOrgAndSumLedger, LockFree
<1>7. \A p \in Request : p # q /\ holder = p => holder' = p
  BY <1>6 DEF LedgerAssumption
<1>8. CallSound(q, d)'
  BY <1>2, <1>5, <1>6 DEF CallSound
<1> QED
  BY <1>5, <1>6, <1>7, <1>8, QuietStep

LEMMA AllocationType ==
  ASSUME LedgerType, NEW amount \in Nat
  PROVE  /\ Consume(ledger, Replay(ledger).left, amount, now).taken \in [1..Len(ledger) -> Nat]
         /\ LET used == Consume(ledger, Replay(ledger).left, amount, now) IN
            used.unallocated = 0 => Total(used.taken) = amount
<1>1. PICK n \in Nat : n = Len(ledger) /\ Read(ledger, n)
  BY LedgerIs
<1>2. PICK left : left = Replay(ledger).left
  OBVIOUS
<1>3. left \in [1..n -> Nat]
  BY <1>1, <1>2, ReplayType DEF State
<1>4. amount \in Int /\ now \in Int
  BY DEF LedgerType
<1>5. PICK used : used = Consume(ledger, left, amount, now)
  OBVIOUS
<1>6. Used(used, n, left, OpenAt(ledger, left, now), amount)
  BY <1>1, <1>3, <1>4, <1>5, ConsumeType
<1>7. used.taken \in [1..n -> Nat] /\ used.unallocated = amount - Total(used.taken)
  BY <1>6 DEF Used
<1>8. used.unallocated = 0 => Total(used.taken) = amount
  <2>1. Total(used.taken) \in Nat
    BY <1>7, TotalNat
  <2> QED
    BY <1>7, <2>1
<1> QED
  BY <1>1, <1>2, <1>5, <1>7, <1>8

LEMMA AllocateKeepsType ==
  ASSUME LedgerInv, LedgerAssumption, NEW q \in Request, AllocateSpend(q)
  PROVE  LedgerInv'
<1>1. PICK c, used, amount : /\ c = request[q] /\ amount = Amount[c.id]
                             /\ used = Consume(ledger, Replay(ledger).left, amount, now)
  OBVIOUS
<1>2. c \in Call /\ CallSound(q, c) /\ c.pc = "insert" /\ c.kind = "spend"
  BY <1>1, CallIs DEF AllocateSpend
<1>3. CASE Release(q) /\ UNCHANGED <<ledger, erased, now>>
  BY <1>3, ReleaseKeepsType
<1>4. CASE /\ request' = [request EXCEPT ![q].plan = PartsOf(ledger, used.taken)]
           /\ UNCHANGED <<ledger, holder, erased, now>>
  <2>1. PICK plan, d : plan = PartsOf(ledger, used.taken) /\ d = [c EXCEPT !.plan = plan]
    OBVIOUS
  <2>2. amount \in Nat
    BY <1>1, <1>2 DEF LedgerAssumption, CallSound
  <2>3. used.taken \in [1..Len(ledger) -> Nat]
    BY <1>1, <2>2, AllocationType DEF LedgerInv
  <2>4. plan \subseteq Part /\ IsFiniteSet(plan)
    BY <2>1, <2>3, PlanType DEF LedgerInv
  <2>5. /\ d \in Call
        /\ d.kind = c.kind /\ d.id = c.id /\ d.plan = plan /\ d.at = c.at /\ d.pc = "insert"
    BY <1>2, <2>1, <2>4 DEF Call
  <2>6. request' = [request EXCEPT ![q] = d]
    BY <1>1, <1>4, <2>1
  <2>7. CallSound(q, d)'
    BY <1>2, <1>4, <2>4, <2>5 DEF CallSound
  <2>8. holder' \in Request \union {NoOne} /\ \A p \in Request : holder = p => holder' = p
    BY <1>4 DEF LedgerInv, LedgerType
  <2> QED
    BY <1>4, <2>5, <2>6, <2>7, <2>8, QuietStep
<1> QED
  BY <1>1, <1>3, <1>4 DEF AllocateSpend

Writes(q, kind, sign, parts) ==
  \E order, new :
    /\ order \in Orders(parts)
    /\ NewRows(new, Cardinality(parts), order, sign, kind, request[q])
    /\ Joined(ledger', ledger, Len(ledger), new, Cardinality(parts), Row)

Movement(q, kind, sign, parts) ==
  /\ request[q].pc = "insert" /\ kind = request[q].kind
  /\ parts \subseteq Part /\ IsFiniteSet(parts)
  /\ sign \in Int
  /\ IF kind = "spend" THEN sign = -1 /\ parts = request[q].plan /\ parts # {} ELSE sign = 1
  /\ kind = "refund" => RowsOf("refund", request[q].id) = {} /\ parts = request[q].plan

LEMMA InsertWrites ==
  ASSUME LedgerInv, NEW q \in Request, NEW kind, NEW sign, NEW parts,
         Movement(q, kind, sign, parts), Insert(q, kind, sign, parts)
  PROVE  Writes(q, kind, sign, parts)
<1>1. request[q] \in Call /\ LedgerType
  BY CallIs DEF Movement, LedgerInv
<1>2. kind \in {"grant", "spend", "refund"} /\ sign \in Int
      /\ parts \subseteq Part /\ IsFiniteSet(parts)
  BY <1>1 DEF Movement, Call
<1>3. PICK order, new :
        /\ order \in Orders(parts)
        /\ NewRows(new, Cardinality(parts), order, sign, kind, request[q])
        /\ ledger' = ledger \o new
  BY <1>1, <1>2, InsertIs
<1>4. ledger \in Seq(Row) /\ Cardinality(parts) \in Nat /\ new \in [1..Cardinality(parts) -> Row]
  BY <1>1, <1>3 DEF LedgerType, NewRows
<1>5. Joined(ledger', ledger, Len(ledger), new, Cardinality(parts), Row)
  BY <1>3, <1>4, JoinedSeqs
<1> QED
  BY <1>3, <1>5, Zenon DEF Writes

(* Every insertion writes the rows of one movement, or none. *)
LEMMA InsertCases ==
  ASSUME LedgerInv, LedgerAssumption, NEW q \in Request,
         InsertGrant(q) \/ InsertSpend(q) \/ InsertRefund(q)
  PROVE  /\ Release(q) /\ UNCHANGED <<erased, now>>
         /\ request[q].pc = "insert"
         /\ \/ ledger' = ledger
            \/ \E kind, sign, parts : Movement(q, kind, sign, parts) /\ Writes(q, kind, sign, parts)
<1>1. PICK c : c = request[q]
  OBVIOUS
<1>2. c.pc = "insert" /\ c \in Call /\ CallSound(q, c)
  BY <1>1, CallIs DEF InsertGrant, InsertSpend, InsertRefund
<1>3. c.plan \subseteq Part /\ IsFiniteSet(c.plan)
  BY <1>2 DEF Call, CallSound
<1>4. CASE InsertGrant(q)
  <2>1. PICK g, parts :
          g = c.id /\ parts = {[terms |-> [expires |-> Expires[g], order |-> OrderNo[g]],
                                credits |-> Amount[g]]}
    OBVIOUS
  <2>2. g \in GrantIds /\ c.kind = "grant"
    BY <1>1, <1>2, <1>4, <2>1 DEF InsertGrant, CallSound
  <2>3. parts \subseteq Part /\ IsFiniteSet(parts)
    <3>1. Expires[g] \in Nat /\ OrderNo[g] \in OrderNos /\ Amount[g] \in Nat
      BY <2>2 DEF LedgerAssumption, OrderNos
    <3>2. parts \subseteq Part
      BY <2>1, <3>1 DEF Part
    <3> QED
      BY <2>1, <3>2, FS_Singleton
  <2>4. Movement(q, "grant", 1, parts)
    BY <1>1, <1>2, <2>2, <2>3 DEF Movement
  <2>5. /\ Release(q) /\ UNCHANGED <<erased, now>>
        /\ ledger' = ledger \/ Insert(q, "grant", 1, parts)
    BY <1>1, <1>4, <2>1 DEF InsertGrant
  <2>6. Insert(q, "grant", 1, parts) => Writes(q, "grant", 1, parts)
    BY <2>4, InsertWrites
  <2> QED
    BY <1>1, <1>2, <2>4, <2>5, <2>6, Zenon
<1>5. CASE InsertSpend(q)
  <2>1. /\ Release(q) /\ UNCHANGED <<erased, now>>
        /\ c.kind = "spend" /\ c.plan # {} /\ Insert(q, "spend", -1, c.plan)
    BY <1>1, <1>5 DEF InsertSpend
  <2>2. Movement(q, "spend", -1, c.plan)
    BY <1>1, <1>2, <1>3, <2>1 DEF Movement
  <2>3. Writes(q, "spend", -1, c.plan)
    BY <2>1, <2>2, InsertWrites
  <2> QED
    BY <1>1, <1>2, <2>1, <2>2, <2>3, Zenon
<1>6. CASE InsertRefund(q)
  <2>1. /\ Release(q) /\ UNCHANGED <<erased, now>>
        /\ c.kind = "refund"
        /\ \/ ledger' = ledger
           \/ RowsOf("refund", c.id) = {} /\ Insert(q, "refund", 1, c.plan)
    BY <1>1, <1>6 DEF InsertRefund
  <2>2. RowsOf("refund", c.id) = {} => Movement(q, "refund", 1, c.plan)
    BY <1>1, <1>2, <1>3, <2>1 DEF Movement
  <2>3. RowsOf("refund", c.id) = {} /\ Insert(q, "refund", 1, c.plan)
          => Movement(q, "refund", 1, c.plan) /\ Writes(q, "refund", 1, c.plan)
    BY <2>2, InsertWrites
  <2> QED
    BY <1>1, <1>2, <2>1, <2>3, Zenon
<1> QED
  BY <1>4, <1>5, <1>6

LEMMA SignedIs ==
  ASSUME NEW parts, parts \subseteq Part, IsFiniteSet(parts), NEW order \in Orders(parts),
         NEW k, k = Cardinality(parts), NEW sign \in Int
  PROVE  /\ PlanCredits(order) \in [1..k -> Nat]
         /\ \A n \in 1..k :
              /\ sign = -1 => /\ Signed(order, k, sign)[n] + PlanCredits(order)[n] = 0
                             /\ Signed(order, k, sign)[n] =< 0
              /\ sign = 1 => Signed(order, k, sign)[n] >= 0
<1>1. k \in Nat /\ order \in [1..k -> parts]
  BY OrderIs
<1>2. PICK c : c = PlanCredits(order)
  OBVIOUS
<1>3. ASSUME NEW n \in 1..k PROVE c[n] = order[n].credits /\ order[n].credits \in Nat
  <2>1. PICK p \in Part : p = order[n]
    BY <1>1
  <2>2. p.credits \in Nat
    BY DEF Part
  <2> QED
    BY <1>1, <1>2, <2>1, <2>2 DEF PlanCredits
<1>4. c \in [1..k -> Nat]
  <2>1. DOMAIN order = 1..k
    BY <1>1
  <2>2. c = [n \in 1..k |-> order[n].credits]
    BY <1>2, <2>1 DEF PlanCredits
  <2> QED
    BY <1>3, <2>2
<1>5. ASSUME NEW n \in 1..k
      PROVE  /\ sign = -1 => Signed(order, k, sign)[n] + c[n] = 0 /\ Signed(order, k, sign)[n] =< 0
             /\ sign = 1 => Signed(order, k, sign)[n] >= 0
  <2>1. Signed(order, k, sign)[n] = sign * order[n].credits
    BY Zenon DEF Signed
  <2>2. PICK x \in Nat : x = order[n].credits
    BY <1>3
  <2>3. PICK y : y = Signed(order, k, sign)[n]
    OBVIOUS
  <2>4. y = sign * x
    BY <2>1, <2>2, <2>3, Zenon
  <2>5. (sign = -1 => y + x = 0 /\ y =< 0) /\ (sign = 1 => y >= 0)
    BY <2>4
  <2>6. c[n] = x
    BY <1>3, <2>2
  <2> QED
    BY <2>3, <2>5, <2>6
<1> QED
  BY <1>2, <1>4, <1>5

(* What an insertion does to the rows. *)
Grew(kind, id) ==
  /\ \A k, s : RowsOf(k, s) \subseteq RowsOf(k, s)'
  /\ \A k, s : k # kind \/ s # id => RowsOf(k, s)' = RowsOf(k, s)

LEMMA RowsWritten ==
  ASSUME LedgerInv, NEW q \in Request, NEW kind, NEW sign, NEW parts,
         Movement(q, kind, sign, parts), Writes(q, kind, sign, parts)
  PROVE  /\ ledger' \in Seq(Row)
         /\ RowsSound'
         /\ Grew(kind, request[q].id)
<1>1. PICK order, new, n, k, c :
        /\ order \in Orders(parts)
        /\ c = request[q] /\ n = Len(ledger) /\ k = Cardinality(parts)
        /\ NewRows(new, k, order, sign, kind, c)
        /\ Joined(ledger', ledger, n, new, k, Row)
  BY Zenon DEF Writes
<1>2. c.pc = "insert" /\ c \in Call /\ CallSound(q, c) /\ c.kind = kind
      /\ parts \subseteq Part /\ IsFiniteSet(parts)
  BY <1>1, CallIs DEF Movement
<1>3. /\ n \in Nat /\ k \in Nat /\ n + k \in Nat
      /\ ledger' \in Seq(Row) /\ DOMAIN ledger' = 1..n+k /\ DOMAIN ledger = 1..n
      /\ \A i \in 1..n : i \in 1..n+k /\ ledger'[i] = ledger[i]
      /\ \A i \in 1..k : n + i \in 1..n+k /\ ledger'[n + i] = new[i]
      /\ \A i \in 1..n+k : i \in 1..n \/ \E j \in 1..k : i = n + j
  BY <1>1 DEF Joined
<1>4. \A i \in 1..k : new[i].kind = kind /\ new[i].id = c.id /\ new[i].part = i
                       /\ new[i].credits = Signed(order, k, sign)[i]
  BY <1>1 DEF NewRows
<1>5. ASSUME NEW r, NEW s PROVE RowsOf(r, s) \subseteq RowsOf(r, s)'
  BY <1>3 DEF RowsOf
<1>6. ASSUME NEW r, NEW s, r # kind \/ s # c.id PROVE RowsOf(r, s)' = RowsOf(r, s)
  <2>1. ASSUME NEW i \in RowsOf(r, s)' PROVE i \in RowsOf(r, s)
    <3>1. i \in 1..n+k /\ ledger'[i].kind = r /\ ledger'[i].id = s
      BY <1>3, <2>1 DEF RowsOf
    <3>2. ASSUME NEW j \in 1..k, i = n + j PROVE FALSE
      <4>1. ledger'[i] = new[j]
        BY <1>3, <3>2, Zenon
      <4>2. r = kind /\ s = c.id
        BY <1>4, <3>1, <4>1, Zenon
      <4> QED
        BY <1>6, <4>2
    <3>3. i \in 1..n
      BY <1>3, <3>1, <3>2
    <3> QED
      BY <1>3, <3>1, <3>3 DEF RowsOf
  <2> QED
    BY <1>5, <2>1
<1>7. ASSUME NEW i \in 1..k PROVE RowSound(new[i])
  <2>1. /\ sign = -1 => Signed(order, k, sign)[i] =< 0
        /\ sign = 1 => Signed(order, k, sign)[i] >= 0
    <3>1. sign \in Int
      BY DEF Movement
    <3> QED
      BY <1>1, <1>2, <3>1, SignedIs
  <2>2. kind = "spend" => sign = -1 /\ c.id \in SpendIds
    BY <1>2 DEF Movement, CallSound
  <2>3. kind # "spend" => sign = 1
    BY DEF Movement
  <2>4. PICK x : x = Signed(order, k, sign)[i]
    OBVIOUS
  <2>5. new[i].kind = kind /\ new[i].id = c.id /\ new[i].credits = x
    BY <1>4, <2>4, Zenon
  <2>6. (kind = "spend" => x =< 0 /\ c.id \in SpendIds) /\ (kind # "spend" => x >= 0)
    BY <2>1, <2>2, <2>3, <2>4, Zenon
  <2> QED
    BY <2>5, <2>6, Zenon DEF RowSound
<1>8. ASSUME NEW i \in 1..n+k
      PROVE  /\ RowSound(ledger'[i])
             /\ \A s : ledger'[i].kind = "spend" /\ ledger'[i].id = s =>
                  \E j \in RowsOf("spend", s)' : ledger'[j].part = 1
  <2>1. CASE i \in 1..n
    <3>1. /\ RowSound(ledger[i])
          /\ ledger[i].kind = "spend" => \E j \in RowsOf("spend", ledger[i].id) : ledger[j].part = 1
      BY <1>3, <2>1 DEF LedgerInv, RowsSound
    <3>2. \A s : \A j \in RowsOf("spend", s) :
            j \in RowsOf("spend", s)' /\ ledger'[j] = ledger[j]
      BY <1>3 DEF RowsOf
    <3>3. ledger'[i] = ledger[i]
      BY <1>3, <2>1, Zenon
    <3> QED
      BY <3>1, <3>2, <3>3, Zenon
  <2>2. CASE \E j \in 1..k : i = n + j
    <3>1. PICK j \in 1..k : i = n + j
      BY <2>2
    <3>2. ledger'[i] = new[j] /\ RowSound(new[j])
      BY <1>3, <1>7, <3>1, Zenon
    <3>3. 1 \in 1..k
      BY <1>3
    <3>4. ledger'[n + 1] = new[1] /\ n + 1 \in 1..n+k
      BY <1>3, <3>3, Zenon
    <3>5. new[1].part = 1 /\ new[1].kind = kind /\ new[1].id = c.id
          /\ new[j].kind = kind /\ new[j].id = c.id
      BY <1>4, <3>3, Zenon
    <3>6. ASSUME kind = "spend" PROVE n + 1 \in RowsOf("spend", c.id)'
      <4>1. n + 1 \in DOMAIN ledger' /\ ledger'[n + 1].kind = "spend" /\ ledger'[n + 1].id = c.id
        BY <1>3, <3>4, <3>5, <3>6, Zenon
      <4> QED
        BY <4>1 DEF RowsOf
    <3>7. ledger'[n + 1].part = 1
      BY <3>4, <3>5, Zenon
    <3> QED
      BY <3>2, <3>5, <3>6, <3>7, Zenon
  <2> QED
    BY <1>3, <2>1, <2>2, Zenon
<1>9. RowsSound'
  BY <1>3, <1>8, Zenon DEF RowsSound
<1> QED
  BY <1>1, <1>3, <1>5, <1>6, <1>9, Zenon DEF Grew

LEMMA InsertKeepsType ==
  ASSUME LedgerInv, LedgerAssumption, NEW q \in Request,
         InsertGrant(q) \/ InsertSpend(q) \/ InsertRefund(q)
  PROVE  LedgerInv'
<1>1. Release(q) /\ UNCHANGED <<erased, now>>
  BY InsertCases
<1>2. CASE ledger' = ledger
  BY <1>1, <1>2, ReleaseKeepsType
<1>3. ASSUME NEW kind, NEW sign, NEW parts, Movement(q, kind, sign, parts), Writes(q, kind, sign, parts)
      PROVE  LedgerInv'
  <2>1. ledger' \in Seq(Row) /\ RowsSound'
    BY <1>3, RowsWritten
  <2>2. request' \in [Request -> Call \union {Idle}] /\ CallsSound'
    BY <1>1, ReleaseStep, CallsStep
  <2>3. holder' \in Request \union {NoOne}
    BY <1>1, ReleaseStep
  <2> QED
    BY <1>1, <2>1, <2>2, <2>3 DEF LedgerInv, LedgerType
<1>4. \/ ledger' = ledger
      \/ \E kind, sign, parts : Movement(q, kind, sign, parts) /\ Writes(q, kind, sign, parts)
  BY InsertCases
<1> QED
  BY <1>2, <1>3, <1>4, Zenon

(* An erasure takes the names out of the leaver's rows and nothing else. *)
Unnamed ==
  /\ ledger' \in Seq(Row) /\ DOMAIN ledger' = DOMAIN ledger /\ Len(ledger') = Len(ledger)
  /\ \A i \in DOMAIN ledger :
       /\ ledger'[i].kind = ledger[i].kind /\ ledger'[i].id = ledger[i].id
       /\ ledger'[i].part = ledger[i].part /\ ledger'[i].credits = ledger[i].credits
       /\ ledger'[i].at = ledger[i].at /\ ledger'[i].expires = ledger[i].expires
       /\ ledger'[i].order = ledger[i].order /\ ledger'[i].after = ledger[i].after

LEMMA EraseUnnames ==
  ASSUME LedgerType, EraseMember
  PROVE  Unnamed
<1>1. PICK n \in Nat : DOMAIN ledger = 1..n /\ ledger \in [1..n -> Row] /\ Len(ledger) = n
  BY LedgerIs
<1>2. ASSUME NEW i \in 1..n
      PROVE  LET r == ledger[i]
                 e == IF r.id \in LeaverSpends THEN [r EXCEPT !.named = 0] ELSE r IN
             /\ e \in Row
             /\ e.kind = r.kind /\ e.id = r.id /\ e.part = r.part /\ e.credits = r.credits
             /\ e.at = r.at /\ e.expires = r.expires /\ e.order = r.order /\ e.after = r.after
  <2>1. PICK r \in Row : r = ledger[i]
    BY <1>1
  <2>2. PICK e : e = IF r.id \in LeaverSpends THEN [r EXCEPT !.named = 0] ELSE r
    OBVIOUS
  <2>3. /\ e \in Row
        /\ e.kind = r.kind /\ e.id = r.id /\ e.part = r.part /\ e.credits = r.credits
        /\ e.at = r.at /\ e.expires = r.expires /\ e.order = r.order /\ e.after = r.after
    BY <2>2 DEF Row
  <2> QED
    BY <2>1, <2>2, <2>3, Zenon
<1>3. ledger' = [i \in 1..n |-> IF ledger[i].id \in LeaverSpends THEN [ledger[i] EXCEPT !.named = 0]
                                                                ELSE ledger[i]]
  BY <1>1 DEF EraseMember
<1>4. ledger' \in [1..n -> Row]
  BY <1>2, <1>3, Zenon
<1>5. ledger' \in Seq(Row) /\ Len(ledger') = n
  BY <1>4, SeqIs
<1>6. DOMAIN ledger' = 1..n
  BY <1>3, Zenon
<1>7. ASSUME NEW i \in 1..n
      PROVE  /\ ledger'[i].kind = ledger[i].kind /\ ledger'[i].id = ledger[i].id
             /\ ledger'[i].part = ledger[i].part /\ ledger'[i].credits = ledger[i].credits
             /\ ledger'[i].at = ledger[i].at /\ ledger'[i].expires = ledger[i].expires
             /\ ledger'[i].order = ledger[i].order /\ ledger'[i].after = ledger[i].after
  <2>1. ledger'[i] = IF ledger[i].id \in LeaverSpends THEN [ledger[i] EXCEPT !.named = 0]
                                                        ELSE ledger[i]
    BY <1>3, Zenon
  <2> QED
    BY <1>2, <2>1, Zenon
<1> QED
  BY <1>1, <1>5, <1>6, <1>7, Zenon DEF Unnamed

LEMMA UnnamedRows ==
  ASSUME Unnamed, NEW kind, NEW id
  PROVE  RowsOf(kind, id)' = RowsOf(kind, id)
BY DEF Unnamed, RowsOf

LEMMA EraseKeepsType ==
  ASSUME LedgerInv, EraseMember
  PROVE  LedgerInv'
<1>1. Unnamed
  BY EraseUnnames DEF LedgerInv
<1>2. RowsSound'
  <2>1. ASSUME NEW i \in DOMAIN ledger'
        PROVE  /\ RowSound(ledger'[i])
               /\ \A s : ledger'[i].kind = "spend" /\ ledger'[i].id = s =>
                    \E j \in RowsOf("spend", s)' : ledger'[j].part = 1
    <3>1. i \in DOMAIN ledger /\ ledger'[i].kind = ledger[i].kind /\ ledger'[i].id = ledger[i].id
          /\ ledger'[i].credits = ledger[i].credits
      BY <1>1, <2>1, Zenon DEF Unnamed
    <3>2. /\ RowSound(ledger[i])
          /\ ledger[i].kind = "spend" => \E j \in RowsOf("spend", ledger[i].id) : ledger[j].part = 1
      BY <3>1 DEF LedgerInv, RowsSound
    <3>3. RowSound(ledger'[i])
      BY <3>1, <3>2, Zenon DEF RowSound
    <3>4. ASSUME NEW s, ledger'[i].kind = "spend", ledger'[i].id = s
          PROVE  \E j \in RowsOf("spend", s)' : ledger'[j].part = 1
      <4>1. PICK j \in RowsOf("spend", s) : ledger[j].part = 1
        BY <3>1, <3>2, <3>4, Zenon
      <4>2. j \in RowsOf("spend", s)'
        BY <1>1, <4>1, UnnamedRows
      <4>3. ledger'[j].part = 1
        BY <1>1, <4>1 DEF Unnamed, RowsOf
      <4> QED
        BY <4>2, <4>3
    <3> QED
      BY <3>3, <3>4
  <2> QED
    BY <2>1, Zenon DEF RowsSound
<1>3. CallsSound'
  BY DEF LedgerInv, CallsSound, CallSound, EraseMember
<1> QED
  BY <1>1, <1>2, <1>3 DEF LedgerInv, LedgerType, Unnamed, EraseMember

LEMMA TickKeepsType ==
  ASSUME LedgerInv, Tick
  PROVE  LedgerInv'
<1>1. ledger' \in Seq(Row) /\ RowsSound'
  BY RowsKept DEF Tick
<1>2. now \in Nat /\ now' = now + 1 /\ now' \in Nat
  BY DEF LedgerInv, LedgerType, Tick
<1>3. CallsSound'
  <2>1. ASSUME NEW q \in Request, request'[q] # Idle PROVE CallSound(q, request[q])'
    <3>1. request[q] # Idle /\ request' = request /\ holder' = holder
      BY <2>1 DEF Tick
    <3>2. PICK c : c = request[q]
      OBVIOUS
    <3>3. CallSound(q, c) /\ c \in Call
      BY <3>1, <3>2 DEF LedgerInv, CallsSound, LedgerType
    <3>4. c.at \in Nat
      BY <3>3 DEF Call
    <3>5. CallSound(q, c)'
      BY <1>2, <3>1, <3>3, <3>4 DEF CallSound
    <3> QED
      BY <3>1, <3>2, <3>5, Zenon DEF CallSound
  <2> QED
    BY <2>1 DEF CallsSound
<1> QED
  BY <1>1, <1>2, <1>3 DEF LedgerInv, LedgerType, Tick

Calls(q) ==
  \/ \E g \in GrantIds : CallGrant(q, g)
  \/ \E s \in SpendIds : CallSpend(q, s)
  \/ \E s : CallRefund(q, s)

GivesUp(q) == Release(q) /\ UNCHANGED <<ledger, erased, now>>

Inserts1(q) == InsertGrant(q) \/ InsertSpend(q) \/ InsertRefund(q)

(* Whatever the ledger does, by itself or for a task. *)
LedgerAction ==
  \/ \E q \in Request : \/ Calls(q) \/ GivesUp(q) \/ CheckRefund(q) \/ LockOrgAndSumLedger(q)
                        \/ AllocateSpend(q) \/ Inserts1(q)
  \/ EraseMember \/ Tick \/ UNCHANGED vars

LEMMA TypeStep ==
  ASSUME LedgerInv, LedgerAssumption, LedgerAction
  PROVE  LedgerInv'
<1>1. ASSUME NEW q \in Request,
             \/ Calls(q) \/ GivesUp(q) \/ CheckRefund(q) \/ LockOrgAndSumLedger(q)
             \/ AllocateSpend(q) \/ Inserts1(q)
      PROVE  LedgerInv'
  <2>1. CASE Calls(q)
    BY <2>1, CallsKeepType DEF Calls
  <2>2. CASE GivesUp(q)
    BY <2>2, ReleaseKeepsType DEF GivesUp
  <2>3. CASE CheckRefund(q)
    BY <2>3, CheckRefundKeepsType
  <2>4. CASE LockOrgAndSumLedger(q)
    BY <2>4, LockKeepsType
  <2>5. CASE AllocateSpend(q)
    BY <2>5, AllocateKeepsType
  <2>6. CASE Inserts1(q)
    BY <2>6, InsertKeepsType DEF Inserts1
  <2> QED
    BY <1>1, <2>1, <2>2, <2>3, <2>4, <2>5, <2>6
<1>2. CASE EraseMember
  BY <1>2, EraseKeepsType
<1>3. CASE Tick
  BY <1>3, TickKeepsType
<1>4. CASE UNCHANGED vars
  <2>1. ledger' \in Seq(Row) /\ RowsSound'
    BY <1>4, RowsKept DEF vars
  <2> QED
    BY <1>4, <2>1 DEF vars, LedgerInv, LedgerType, CallsSound, CallSound
<1> QED
  BY <1>1, <1>2, <1>3, <1>4 DEF LedgerAction

LEMMA InitType ==
  ASSUME LedgerAssumption, Init
  PROVE  LedgerInv /\ ledger = <<>> /\ \A q \in Request : request[q] = Idle
<1>1. ledger \in Seq(Row) /\ DOMAIN ledger = {}
  BY DEF Init
<1>2. RowsSound
  BY <1>1 DEF RowsSound
<1>3. LedgerType
  BY <1>1 DEF LedgerType, Init
<1>4. \A q \in Request : request[q] = Idle
  BY DEF Init
<1> QED
  BY <1>2, <1>3, <1>4 DEF LedgerInv, CallsSound, Init

LEMMA SpendAsks ==
  ASSUME TasksAssumption, RunType, NEW q \in Request, Spend(q)
  PROVE  \E s \in Fresh(run[q].task) :
           /\ s \in TransNo[run[q].task] /\ s \in SpendIds /\ run[q].task \in Task
           /\ CallSpend(q, s)
           /\ run' = [run EXCEPT ![q].pc = "spending", ![q].transNo = s]
           /\ UNCHANGED <<task, logged, faults>>
<1>1. PICK fresh, s : fresh = Fresh(run[q].task) /\ s = CHOOSE x \in fresh : TRUE
  OBVIOUS
<1>2. run[q].pc = "spend" /\ fresh # {}
  BY <1>1 DEF Spend
<1>3. s \in fresh
  BY <1>1, <1>2
<1>4. run[q].task \in Task
  BY <1>2 DEF RunType, Done
<1>5. s \in TransNo[run[q].task]
  BY <1>1, <1>3 DEF Fresh
<1>6. s \in SpendIds
  BY <1>4, <1>5 DEF TasksAssumption
<1> QED
  BY <1>1, <1>3, <1>4, <1>5, <1>6 DEF Spend

(* Every step of the tasks is a step of the ledger, or leaves it alone. *)
LEMMA NextIsLedger ==
  ASSUME TasksAssumption, RunType, [TasksNext]_<<vars, taskVars>>
  PROVE  LedgerAction
<1>1. ASSUME NEW q \in Request, NEW t \in Task, CreateTask(q, t) PROVE LedgerAction
  BY <1>1 DEF CreateTask, LedgerAction
<1>2. ASSUME NEW q \in Request, Spend(q) PROVE LedgerAction
  <2>1. PICK s \in SpendIds : CallSpend(q, s)
    BY <1>2, SpendAsks
  <2> QED
    BY <2>1 DEF LedgerAction, Calls
<1>3. ASSUME NEW q \in Request,
             Spent(q) \/ NoteSpend(q) \/ Generate(q) \/ Finish(q) \/ UpdateThrows(q)
             \/ Refunded(q) \/ MarkFailed(q)
      PROVE  LedgerAction
  <2>1. UNCHANGED vars
    BY <1>3, Zenon DEF Spent, NoteSpend, Generate, Finish, UpdateThrows, Refunded, MarkFailed
  <2> QED
    BY <2>1 DEF LedgerAction
<1>4. ASSUME NEW q \in Request, Refund(q) PROVE LedgerAction
  BY <1>4 DEF Refund, LedgerAction, Calls
<1>5. ASSUME NEW q \in Request, Crash(q) PROVE LedgerAction
  BY <1>5 DEF Crash, LedgerAction, GivesUp
<1>6. CASE LedgerNext
  <2>1. ASSUME NEW q \in Request, NEW g \in GrantIds, CallGrant(q, g) PROVE LedgerAction
    BY <2>1 DEF LedgerAction, Calls
  <2>2. ASSUME NEW q \in Request, NEW s \in SpendIds, CallSpend(q, s) PROVE LedgerAction
    BY <2>2 DEF LedgerAction, Calls
  <2>3. ASSUME NEW q \in Request, Transaction(q) PROVE LedgerAction
    BY <2>3 DEF LedgerAction, Transaction, Inserts1, Die, GivesUp
  <2> QED
    BY <1>6, <2>1, <2>2, <2>3 DEF LedgerNext, LedgerAction
<1>7. CASE UNCHANGED <<vars, taskVars>>
  BY <1>7 DEF LedgerAction
<1> QED
  BY <1>1, <1>2, <1>3, <1>4, <1>5, <1>6, <1>7 DEF TasksNext, TaskNext

-----------------------------------------------------------------------------
(* A task is paid once. *)

(* No row goes away, and of some spends none is written that was not asked *)
(* for, and none is asked for.                                             *)
Kept(S) ==
  /\ \A k, s : RowsOf(k, s) # {} => RowsOf(k, s)' # {}
  /\ \A s \in S : RowsOf("spend", s)' # {} => Touched(s)
  /\ \A q \in Request, s \in S : AsksFor(q, s)' => AsksFor(q, s)

LEMMA TouchedKept ==
  ASSUME NEW S, Kept(S), NEW s \in S, Touched(s)'
  PROVE  Touched(s)
BY DEF Kept, Touched, Asked

LEMMA SameIsKept ==
  ASSUME UNCHANGED vars, NEW S
  PROVE  /\ Kept(S)
         /\ \A k, s : RowsOf(k, s)' = RowsOf(k, s)
BY DEF vars, Kept, Touched, Asked, AsksFor, RowsOf

LEMMA RowsSame ==
  ASSUME ledger' = ledger
  PROVE  \A k, s : RowsOf(k, s)' = RowsOf(k, s)
BY DEF RowsOf

(* One request goes on, and asks for nothing new.                          *)
LEMMA OneAsks ==
  ASSUME LedgerInv, ledger' = ledger, NEW S, NEW q \in Request, NEW c,
         request' = [request EXCEPT ![q] = c],
         \A s \in S : c # Idle /\ c.kind = "spend" /\ c.id = s => AsksFor(q, s)
  PROVE  Kept(S)
<1>1. request \in [Request -> Call \union {Idle}]
  BY DEF LedgerInv, LedgerType
<1>2. \A k, s : RowsOf(k, s)' = RowsOf(k, s)
  BY RowsSame
<1>3. ASSUME NEW p \in Request, NEW s \in S, AsksFor(p, s)' PROVE AsksFor(p, s)
  <2>1. CASE p = q
    <3>1. request'[p] = c
      BY <1>1, <2>1
    <3> QED
      BY <1>3, <2>1, <3>1 DEF AsksFor
  <2>2. CASE p # q
    <3>1. request'[p] = request[p]
      BY <1>1, <2>2
    <3> QED
      BY <1>3, <3>1 DEF AsksFor
  <2> QED
    BY <2>1, <2>2
<1> QED
  BY <1>2, <1>3 DEF Kept, Touched

LEMMA ReleaseIsKept ==
  ASSUME LedgerInv, NEW q \in Request, Release(q), ledger' = ledger, NEW S
  PROVE  Kept(S)
<1>1. request' = [request EXCEPT ![q] = Idle]
  BY DEF Release
<1> QED
  BY <1>1, OneAsks

LEMMA InsertIsKept ==
  ASSUME LedgerInv, LedgerAssumption, NEW q \in Request, Inserts1(q), NEW S
  PROVE  Kept(S)
<1>1. Release(q) /\ request[q].pc = "insert"
      /\ \/ ledger' = ledger
         \/ \E kind, sign, parts : Movement(q, kind, sign, parts) /\ Writes(q, kind, sign, parts)
  BY InsertCases DEF Inserts1
<1>2. CASE ledger' = ledger
  BY <1>1, <1>2, ReleaseIsKept
<1>3. ASSUME NEW kind, NEW sign, NEW parts, Movement(q, kind, sign, parts), Writes(q, kind, sign, parts)
      PROVE  Kept(S)
  <2>1. PICK c : c = request[q]
    OBVIOUS
  <2>2. c # Idle /\ kind = c.kind
    BY <1>1, <1>3, <2>1, CallIs DEF Movement
  <2>3. Grew(kind, c.id)
    BY <1>3, <2>1, RowsWritten
  <2>4. ASSUME NEW k, NEW s, RowsOf(k, s) # {} PROVE RowsOf(k, s)' # {}
    BY <2>3, <2>4 DEF Grew
  <2>5. ASSUME NEW s \in S, RowsOf("spend", s)' # {} PROVE Touched(s)
    <3>1. CASE kind = "spend" /\ s = c.id
      BY <2>1, <2>2, <3>1 DEF Touched, Asked, AsksFor
    <3>2. CASE ~(kind = "spend" /\ s = c.id)
      <4>1. RowsOf("spend", s)' = RowsOf("spend", s)
        BY <2>3, <3>2 DEF Grew
      <4> QED
        BY <2>5, <4>1 DEF Touched
    <3> QED
      BY <3>1, <3>2
  <2>6. ASSUME NEW p \in Request, NEW s \in S, AsksFor(p, s)' PROVE AsksFor(p, s)
    <3>1. request' = [request EXCEPT ![q] = Idle] /\ request \in [Request -> Call \union {Idle}]
      BY <1>1 DEF Release, LedgerInv, LedgerType
    <3>2. p # q
      BY <2>6, <3>1 DEF AsksFor
    <3>3. request'[p] = request[p]
      BY <3>1, <3>2
    <3> QED
      BY <2>6, <3>3 DEF AsksFor
  <2> QED
    BY <2>4, <2>5, <2>6 DEF Kept
<1> QED
  BY <1>1, <1>2, <1>3, Zenon

LEMMA TransactionIsKept ==
  ASSUME LedgerInv, LedgerAssumption, NEW q \in Request, Transaction(q), NEW S
  PROVE  Kept(S)
<1>1. PICK c : c = request[q]
  OBVIOUS
<1>2. CASE CheckRefund(q)
  <2>1. c.pc = "check" /\ c \in Call /\ ledger' = ledger /\ now \in Nat /\ c # Idle
    BY <1>1, <1>2, CallIs DEF CheckRefund, LedgerInv, LedgerType
  <2>2. PICK d : d = IF RowsOf("refund", c.id) # {} THEN Idle ELSE [c EXCEPT !.pc = "lock", !.at = now]
    OBVIOUS
  <2>3. d # Idle => d.kind = c.kind /\ d.id = c.id
    BY <2>1, <2>2 DEF Call
  <2>4. request' = [request EXCEPT ![q] = d]
    BY <1>1, <1>2, <2>2 DEF CheckRefund
  <2>5. \A s \in S : d # Idle /\ d.kind = "spend" /\ d.id = s => AsksFor(q, s)
    BY <1>1, <2>1, <2>3 DEF AsksFor
  <2> QED
    BY <2>1, <2>4, <2>5, OneAsks
<1>3. CASE LockOrgAndSumLedger(q)
  <2>1. c.pc = "lock" /\ c \in Call /\ ledger' = ledger /\ c # Idle
    BY <1>1, <1>3, CallIs DEF LockOrgAndSumLedger
  <2>2. PICK d : d = [c EXCEPT !.pc = "insert", !.total = SumCredits(ledger)]
    OBVIOUS
  <2>3. d.kind = c.kind /\ d.id = c.id
    BY <2>1, <2>2 DEF Call
  <2>4. request' = [request EXCEPT ![q] = d]
    BY <1>1, <1>3, <2>2 DEF LockOrgAndSumLedger
  <2>5. \A s \in S : d # Idle /\ d.kind = "spend" /\ d.id = s => AsksFor(q, s)
    BY <1>1, <2>1, <2>3 DEF AsksFor
  <2> QED
    BY <2>1, <2>4, <2>5, OneAsks
<1>4. CASE AllocateSpend(q)
  <2>1. c.pc = "insert" /\ c \in Call /\ ledger' = ledger /\ c # Idle
    BY <1>1, <1>4, CallIs DEF AllocateSpend
  <2>2. PICK plan :
          request' = [request EXCEPT ![q].plan = plan] \/ Release(q)
    BY <1>4 DEF AllocateSpend
  <2>3. CASE Release(q)
    BY <2>1, <2>3, ReleaseIsKept
  <2>4. CASE request' = [request EXCEPT ![q].plan = plan]
    <3>1. PICK d : d = [c EXCEPT !.plan = plan]
      OBVIOUS
    <3>2. d.kind = c.kind /\ d.id = c.id
      BY <2>1, <3>1 DEF Call
    <3>3. request' = [request EXCEPT ![q] = d]
      BY <1>1, <2>4, <3>1
    <3>4. \A s \in S : d # Idle /\ d.kind = "spend" /\ d.id = s => AsksFor(q, s)
      BY <1>1, <2>1, <3>2 DEF AsksFor
    <3> QED
      BY <2>1, <3>3, <3>4, OneAsks
  <2> QED
    BY <2>2, <2>3, <2>4
<1>5. CASE InsertGrant(q) \/ InsertSpend(q) \/ InsertRefund(q)
  BY <1>5, InsertIsKept DEF Inserts1
<1>6. CASE Die(q)
  BY <1>6, ReleaseIsKept DEF Die
<1> QED
  BY <1>2, <1>3, <1>4, <1>5, <1>6 DEF Transaction

LEMMA CallIsKept ==
  ASSUME LedgerInv, NEW S, NEW q \in Request, NEW kind, NEW id, NEW pc, NEW plan,
         Ask(q, kind, id, pc, plan), ledger' = ledger, kind = "spend" => id \notin S
  PROVE  Kept(S)
<1>1. PICK c : c = Asks(kind, id, pc, plan)
  OBVIOUS
<1>2. request' = [request EXCEPT ![q] = c]
  BY <1>1 DEF Ask, Asks
<1>3. c.kind = kind /\ c.id = id
  BY <1>1 DEF Asks
<1> QED
  BY <1>2, <1>3, OneAsks

LEMMA LedgerIsKept ==
  ASSUME LedgerInv, LedgerAssumption, LedgerNext
  PROVE  Kept(TaskSpends)
<1>1. ASSUME NEW q \in Request, NEW g \in GrantIds, CallGrant(q, g) PROVE Kept(TaskSpends)
  BY <1>1, CallIsKept DEF CallGrant
<1>2. ASSUME NEW q \in Request, NEW s \in SpendIds \ TaskSpends, CallSpend(q, s) PROVE Kept(TaskSpends)
  BY <1>2, CallIsKept DEF CallSpend
<1>3. ASSUME NEW q \in Request, Transaction(q) PROVE Kept(TaskSpends)
  BY <1>3, TransactionIsKept
<1>4. CASE EraseMember
  <2>1. Unnamed
    BY <1>4, EraseUnnames DEF LedgerInv
  <2>2. \A k, s : RowsOf(k, s)' = RowsOf(k, s)
    BY <2>1, UnnamedRows
  <2>3. request' = request
    BY <1>4 DEF EraseMember
  <2> QED
    BY <2>2, <2>3 DEF Kept, Touched, AsksFor
<1>5. CASE Tick
  BY <1>5 DEF Tick, Kept, Touched, AsksFor, RowsOf
<1> QED
  BY <1>1, <1>2, <1>3, <1>4, <1>5 DEF LedgerNext

LEMMA SpendIsId ==
  ASSUME LedgerInv, TasksAssumption, NEW s, RowsOf("spend", s) # {}
  PROVE  s \in SpendIds /\ s # NoOne
BY NamedAreSpends DEF LedgerInv, TasksAssumption

LEMMA SpendsOf ==
  ASSUME TasksAssumption, NEW t \in Task, NEW u \in Task, t # u
  PROVE  TransNo[u] \subseteq TaskSpends \ TransNo[t]
BY DEF TasksAssumption, TaskSpends

Record ==
  [pc : {"spend", "spending", "fail"} \union AfterSpend, task : Task,
   transNo : SpendIds \union {NoOne}]
TaskRow == [status : {"none", "running", "succeeded", "failed"}, transNo : SpendIds \union {NoOne}]

LEMMA RunSoundKept ==
  ASSUME NEW q \in Request, NEW r, r.task \in Task, NEW S, Kept(S), TransNo[r.task] \subseteq S,
         RunSound(q, r), task'[r.task] = task[r.task], logged \subseteq logged'
  PROVE  RunSound(q, r)'
<1>1. task'[r.task].status \in {"running", "succeeded"}
  BY DEF RunSound
<1>2. r.pc = "spend" => \A s \in TransNo[r.task] : ~Touched(s)'
  BY TouchedKept DEF RunSound
<1>3. r.pc \in {"spend", "spending", "note"} \/ (r.pc = "fail" /\ r.transNo = NoOne)
        => task'[r.task].transNo = NoOne
  BY DEF RunSound
<1>4. r.pc \in AfterSpend \/ (r.pc = "fail" /\ r.transNo # NoOne)
        => r.transNo # NoOne /\ RowsOf("spend", r.transNo)' # {}
  BY DEF RunSound, Kept
<1>5. r.pc = "fail" /\ r.transNo # NoOne
        => RowsOf("refund", r.transNo)' # {} \/ r.transNo \in logged'
  BY DEF RunSound, Kept
<1> QED
  BY <1>1, <1>2, <1>3, <1>4, <1>5 DEF RunSound

LEMMA StandingKept ==
  ASSUME NEW S, Kept(S), NEW s, RowsOf("spend", s) # {}, Standing(s)'
  PROVE  Standing(s)
BY DEF Standing, Kept

LEMMA TaskSoundKept ==
  ASSUME NEW t \in Task, NEW S, Kept(S), TransNo[t] \subseteq S, TaskSound(t),
         task'[t] = task[t], logged \subseteq logged', LedgerInv', TasksAssumption,
         \A q \in Request : run'[q] # Done /\ run'[q].task = t => run[q] # Done /\ run[q].task = t
  PROVE  TaskSound(t)'
<1>1. PICK x : x = task[t]
  OBVIOUS
<1>2. \A s, u \in TransNo[t] : Touched(s)' /\ Touched(u)' => s = u
  BY TouchedKept DEF TaskSound
<1>3. x.status = "none" =>
        /\ \A s \in TransNo[t] : ~Touched(s)'
        /\ \A q \in Request : run'[q] # Done => run'[q].task # t
  BY <1>1, TouchedKept DEF TaskSound
<1>4. x.transNo # NoOne => RowsOf("spend", x.transNo) # {} /\ RowsOf("spend", x.transNo)' # {}
  BY <1>1 DEF TaskSound, Kept
<1>5. x.status = "failed" /\ Standing(x.transNo)' => x.transNo \in logged'
  <2> SUFFICES ASSUME x.status = "failed", Standing(x.transNo)' PROVE x.transNo \in logged'
    OBVIOUS
  <2>1. RowsOf("spend", x.transNo)' # {}
    BY DEF Standing
  <2>2. x.transNo # NoOne
    <3>1. PICK i : i \in RowsOf("spend", x.transNo)'
      BY <2>1
    <3>2. ledger'[i].kind = "spend" /\ ledger'[i].id = x.transNo /\ i \in DOMAIN ledger'
      BY <3>1 DEF RowsOf
    <3>3. RowSound(ledger'[i])
      BY <3>2, Zenon DEF LedgerInv, RowsSound
    <3>4. x.transNo \in SpendIds
      BY <3>2, <3>3, Zenon DEF RowSound
    <3> QED
      BY <3>4 DEF TasksAssumption
  <2>3. Standing(x.transNo)
    BY <1>4, <2>2, StandingKept
  <2> QED
    BY <1>1, <2>3 DEF TaskSound
<1>6. task'[t] = x
  BY <1>1
<1> QED
  BY <1>2, <1>3, <1>4, <1>5, <1>6, Zenon DEF TaskSound

(* One request goes on with its task.                                      *)
LEMMA RunStep ==
  ASSUME TaskInv, TasksAssumption, LedgerInv',
         NEW q \in Request, NEW t \in Task, NEW r \in Record \union {Done}, NEW x \in TaskRow,
         Kept(TaskSpends \ TransNo[t]),
         run' = [run EXCEPT ![q] = r], task' = [task EXCEPT ![t] = x], logged \subseteq logged',
         IF run[q] = Done THEN task[t].status = "none" ELSE run[q].task = t,
         r # Done => r.task = t /\ RunSound(q, r)',
         TaskSound(t)',
         \A p \in Request : \A s \in TransNo[t] :
           AsksFor(p, s)' => p = q /\ r.pc = "spending" /\ r.task = t
  PROVE  TaskInv'
<1>1. RunType /\ OneRun /\ AskedByRun
      /\ (\A p \in Request : run[p] # Done => RunSound(p, run[p]))
      /\ (\A u \in Task : TaskSound(u))
  BY DEF TaskInv
<1>2. /\ task' \in [Task -> TaskRow] /\ run' \in [Request -> {Done} \union Record]
      /\ run'[q] = r /\ \A p \in Request : p # q => run'[p] = run[p]
      /\ task'[t] = x /\ \A u \in Task : u # t => task'[u] = task[u]
  BY <1>1 DEF RunType, TaskRow, Record
<1>3. ASSUME NEW p \in Request, p # q, run[p] # Done
      PROVE  run[p].task \in Task /\ run[p].task # t
  <2>1. run[p].task \in Task
    BY <1>1, <1>3 DEF RunType
  <2>2. CASE run[q] = Done
    <3>1. task[t].status = "none" /\ TaskSound(t)
      BY <1>1, <2>2
    <3> QED
      BY <1>3, <2>1, <3>1 DEF TaskSound
  <2>3. CASE run[q] # Done
    BY <1>1, <1>3, <2>1, <2>3 DEF OneRun
  <2> QED
    BY <2>2, <2>3
<1>4. RunType'
  BY <1>2 DEF RunType, TaskRow, Record
<1>5. OneRun'
  <2>1. ASSUME NEW p \in Request, NEW o \in Request, run'[p] # Done, run'[o] # Done,
               run'[p].task = run'[o].task, p # o
        PROVE  FALSE
    <3>1. CASE p = q
      <4>1. run'[o] = run[o] /\ o # q
        BY <1>2, <2>1, <3>1
      <4> QED
        BY <1>2, <1>3, <2>1, <3>1, <4>1
    <3>2. CASE o = q
      <4>1. run'[p] = run[p] /\ p # q
        BY <1>2, <2>1, <3>2
      <4> QED
        BY <1>2, <1>3, <2>1, <3>2, <4>1
    <3>3. CASE p # q /\ o # q
      BY <1>1, <1>2, <2>1, <3>3 DEF OneRun
    <3> QED
      BY <3>1, <3>2, <3>3
  <2> QED
    BY <2>1 DEF OneRun
<1>6. ASSUME NEW p \in Request, run'[p] # Done PROVE RunSound(p, run[p])'
  <2>1. CASE p = q
    <3>1. run'[p] = r /\ RunSound(q, r)'
      BY <1>2, <1>6, <2>1
    <3> QED
      BY <2>1, <3>1, Zenon DEF RunSound
  <2>2. CASE p # q
    <3>1. PICK o : o = run[p]
      OBVIOUS
    <3>2. run'[p] = o /\ o.task \in Task /\ o.task # t /\ RunSound(p, o)
      BY <1>1, <1>2, <1>3, <1>6, <2>2, <3>1
    <3>3. TransNo[o.task] \subseteq TaskSpends \ TransNo[t] /\ task'[o.task] = task[o.task]
      BY <1>2, <3>2, SpendsOf
    <3>4. RunSound(p, o)'
      BY <3>2, <3>3, RunSoundKept
    <3> QED
      BY <3>2, <3>4, Zenon DEF RunSound
  <2> QED
    BY <2>1, <2>2
<1>7. ASSUME NEW u \in Task PROVE TaskSound(u)'
  <2>1. CASE u # t
    <3>1. TransNo[u] \subseteq TaskSpends \ TransNo[t] /\ task'[u] = task[u] /\ TaskSound(u)
      BY <1>1, <1>2, <2>1, SpendsOf
    <3>2. \A p \in Request : run'[p] # Done /\ run'[p].task = u => run[p] # Done /\ run[p].task = u
      BY <1>2, <2>1
    <3> QED
      BY <3>1, <3>2, TaskSoundKept
  <2> QED
    BY <2>1
<1>8. AskedByRun'
  <2>1. ASSUME NEW p \in Request, NEW u \in Task, NEW s \in TransNo[u], AsksFor(p, s)'
        PROVE  run'[p].pc = "spending" /\ run'[p].task = u
    <3>1. CASE u = t
      BY <1>2, <2>1, <3>1
    <3>2. CASE u # t
      <4>1. AsksFor(p, s)
        BY <2>1, <3>2, SpendsOf DEF Kept
      <4>2. run[p].pc = "spending" /\ run[p].task = u
        BY <1>1, <4>1 DEF AskedByRun
      <4>3. p # q
        BY <3>2, <4>2 DEF Done
      <4> QED
        BY <1>2, <4>2, <4>3
    <3> QED
      BY <3>1, <3>2
  <2> QED
    BY <2>1 DEF AskedByRun
<1> QED
  BY <1>4, <1>5, <1>6, <1>7, <1>8 DEF TaskInv

LEMMA OthersStep ==
  ASSUME TaskInv, TasksAssumption, LedgerInv', Kept(TaskSpends), UNCHANGED <<task, run, logged>>
  PROVE  TaskInv'
<1>1. RunType /\ OneRun /\ AskedByRun
      /\ (\A p \in Request : run[p] # Done => RunSound(p, run[p]))
      /\ (\A u \in Task : TaskSound(u))
  BY DEF TaskInv
<1>2. \A u \in Task : TransNo[u] \subseteq TaskSpends
  BY DEF TaskSpends
<1>3. ASSUME NEW p \in Request, run'[p] # Done PROVE RunSound(p, run[p])'
  <2>1. PICK o : o = run[p]
    OBVIOUS
  <2>2. run'[p] = o /\ o.task \in Task /\ RunSound(p, o)
    BY <1>1, <1>3, <2>1 DEF RunType
  <2>3. RunSound(p, o)'
    BY <1>2, <2>2, RunSoundKept
  <2> QED
    BY <2>2, <2>3, Zenon DEF RunSound
<1>4. ASSUME NEW u \in Task PROVE TaskSound(u)'
  BY <1>1, <1>2, TaskSoundKept
<1>5. AskedByRun'
  <2>1. ASSUME NEW p \in Request, NEW u \in Task, NEW s \in TransNo[u], AsksFor(p, s)'
        PROVE  run'[p].pc = "spending" /\ run'[p].task = u
    <3>1. AsksFor(p, s)
      BY <1>2, <2>1 DEF Kept
    <3> QED
      BY <1>1, <3>1 DEF AskedByRun
  <2> QED
    BY <2>1 DEF AskedByRun
<1> QED
  BY <1>1, <1>3, <1>4, <1>5 DEF TaskInv, RunType, OneRun

(* What a request and the row of its task may look like.                   *)
Goes(t, r, x, log) ==
  /\ x.status \in {"running", "succeeded"}
  /\ r.pc = "spend" => \A s \in TransNo[t] : ~Touched(s)
  /\ r.pc \in {"spend", "spending", "note"} \/ (r.pc = "fail" /\ r.transNo = NoOne)
       => x.transNo = NoOne
  /\ r.pc \in AfterSpend \/ (r.pc = "fail" /\ r.transNo # NoOne)
       => r.transNo # NoOne /\ RowsOf("spend", r.transNo) # {}
  /\ r.pc = "fail" /\ r.transNo # NoOne
       => RowsOf("refund", r.transNo) # {} \/ r.transNo \in log

Rests(x, log) ==
  /\ x.status # "none"
  /\ x.transNo # NoOne => RowsOf("spend", x.transNo) # {}
  /\ x.status = "failed" /\ Standing(x.transNo) => x.transNo \in log

LEMMA InPlace ==
  ASSUME TaskInv, TasksAssumption, LedgerInv', ledger' = ledger, Kept(TaskSpends),
         NEW q \in Request, NEW t \in Task, NEW r \in Record \union {Done}, NEW x \in TaskRow,
         NEW log, logged' = log, logged \subseteq log,
         run' = [run EXCEPT ![q] = r], task' = [task EXCEPT ![t] = x],
         IF run[q] = Done THEN task[t].status = "none" ELSE run[q].task = t,
         r # Done => r.task = t /\ Goes(t, r, x, log),
         Rests(x, log),
         \A p \in Request : \A s \in TransNo[t] : ~AsksFor(p, s)
  PROVE  TaskInv'
<1>1. TransNo[t] \subseteq TaskSpends
  BY DEF TaskSpends
<1>2. Kept(TaskSpends \ TransNo[t])
  BY DEF Kept
<1>3. \A k, s : RowsOf(k, s)' = RowsOf(k, s)
  BY RowsSame
<1>4. \A s \in TransNo[t] : Touched(s)' => Touched(s)
  BY <1>1, TouchedKept
<1>5. task'[t] = x
  BY DEF TaskInv, RunType
<1>6. r # Done => r.task = t /\ RunSound(q, r)'
  BY <1>3, <1>4, <1>5 DEF Goes, RunSound
<1>7. TaskSound(t)
  BY DEF TaskInv
<1>8. TaskSound(t)'
  <2>1. \A s, u \in TransNo[t] : Touched(s)' /\ Touched(u)' => s = u
    BY <1>4, <1>7 DEF TaskSound
  <2>2. /\ x.status # "none"
        /\ x.transNo # NoOne => RowsOf("spend", x.transNo)' # {}
        /\ x.status = "failed" /\ Standing(x.transNo)' => x.transNo \in logged'
    BY <1>3 DEF Rests, Standing
  <2> QED
    BY <1>5, <2>1, <2>2, Zenon DEF TaskSound
<1>9. \A p \in Request : \A s \in TransNo[t] : ~AsksFor(p, s)'
  BY <1>1 DEF Kept
<1> QED
  BY <1>2, <1>6, <1>8, <1>9, RunStep

(* A request with a task that is not in its spend: no one asks for one.    *)
LEMMA Alone ==
  ASSUME TaskInv, NEW q \in Request, run[q] # Done, run[q].pc # "spending" \/ request[q] = Idle
  PROVE  /\ run[q] \in Record /\ run[q].task \in Task
         /\ task[run[q].task] \in TaskRow /\ RunSound(q, run[q]) /\ TaskSound(run[q].task)
         /\ \A p \in Request : \A s \in TransNo[run[q].task] : ~AsksFor(p, s)
<1>1. PICK r : r = run[q]
  OBVIOUS
<1>2. r \in Record /\ r.task \in Task /\ task[r.task] \in TaskRow
  BY <1>1 DEF TaskInv, RunType, Record, TaskRow
<1>3. RunSound(q, r) /\ TaskSound(r.task)
  BY <1>1, <1>2 DEF TaskInv
<1>4. ASSUME NEW p \in Request, NEW s \in TransNo[r.task], AsksFor(p, s) PROVE FALSE
  <2>1. run[p].pc = "spending" /\ run[p].task = r.task
    BY <1>2, <1>4 DEF TaskInv, AskedByRun
  <2>2. run[p] # Done
    BY <2>1 DEF Done
  <2>3. p = q
    BY <1>1, <2>1, <2>2 DEF TaskInv, OneRun
  <2> QED
    BY <1>4, <2>1, <2>3 DEF AsksFor
<1> QED
  BY <1>1, <1>2, <1>3, <1>4

LEMMA CreateStep ==
  ASSUME TaskInv, TasksAssumption, LedgerInv', NEW q \in Request, NEW t \in Task, CreateTask(q, t)
  PROVE  TaskInv'
<1>1. PICK r, x, log : /\ r = [pc |-> "spend", task |-> t, transNo |-> NoOne]
                       /\ x = [status |-> "running", transNo |-> NoOne]
                       /\ log = logged
  OBVIOUS
<1>x. x = [NoTask EXCEPT !.status = "running"]
  BY <1>1 DEF NoTask
<1>2. run' = [run EXCEPT ![q] = r] /\ task' = [task EXCEPT ![t] = x] /\ logged' = logged
      /\ UNCHANGED vars /\ run[q] = Done /\ task[t].status = "none"
  BY <1>1, <1>x, Zenon DEF CreateTask, Inserts
<1>3. r \in Record /\ x \in TaskRow /\ r.task = t
  BY <1>1 DEF Record, TaskRow
<1>4. \A s \in TransNo[t] : ~Touched(s)
  BY <1>2 DEF TaskInv, TaskSound
<1>5. Goes(t, r, x, logged)
  BY <1>1, <1>4 DEF Goes, AfterSpend
<1>6. Rests(x, logged)
  BY <1>1 DEF Rests
<1>7. \A p \in Request : \A s \in TransNo[t] : ~AsksFor(p, s)
  BY <1>4 DEF Touched, Asked
<1>8. ledger' = ledger /\ Kept(TaskSpends)
  BY <1>2, SameIsKept DEF vars
<1>9. logged' = log /\ logged \subseteq log /\ Goes(t, r, x, log) /\ Rests(x, log)
      /\ r \in Record \union {Done}
  BY <1>1, <1>2, <1>3, <1>5, <1>6
<1>10. IF run[q] = Done THEN task[t].status = "none" ELSE run[q].task = t
  BY <1>2
<1> QED
  BY <1>2, <1>3, <1>7, <1>8, <1>9, <1>10, InPlace, Zenon

(* A request goes on with its task, and the ledger stands still.           *)
LEMMA GoesOn ==
  ASSUME TaskInv, TasksAssumption, LedgerInv', ledger' = ledger, Kept(TaskSpends),
         NEW q \in Request, NEW r, NEW pc, NEW no, NEW y, NEW x \in TaskRow,
         run[q] = r, r # Done, r.pc # "spending" \/ request[q] = Idle,
         NEW log, logged' = log, logged \subseteq log,
         y = [pc |-> pc, task |-> r.task, transNo |-> no],
         pc \in {"spend", "spending", "fail"} \union AfterSpend, no \in SpendIds \union {NoOne},
         run' = [run EXCEPT ![q] = y], task' = [task EXCEPT ![r.task] = x],
         Goes(r.task, y, x, log), Rests(x, log)
  PROVE  TaskInv'
<1>1. r.task \in Task /\ \A p \in Request : \A s \in TransNo[r.task] : ~AsksFor(p, s)
  BY Alone
<1>2. y \in Record /\ y.task = r.task
  BY <1>1 DEF Record
<1>3. PICK t, d : t = r.task /\ d = y
  OBVIOUS
<1>4. /\ t \in Task /\ d \in Record \union {Done} /\ (d # Done => d.task = t /\ Goes(t, d, x, log))
      /\ run' = [run EXCEPT ![q] = d] /\ task' = [task EXCEPT ![t] = x]
      /\ \A p \in Request : \A s \in TransNo[t] : ~AsksFor(p, s)
  BY <1>1, <1>2, <1>3, Zenon
<1>5. IF run[q] = Done THEN task[t].status = "none" ELSE run[q].task = t
  BY <1>3
<1> HIDE DEF Goes, Rests
<1> QED
  BY <1>4, <1>5, InPlace

LEMMA Ends ==
  ASSUME TaskInv, TasksAssumption, LedgerInv', ledger' = ledger, Kept(TaskSpends),
         NEW q \in Request, NEW r, NEW x \in TaskRow,
         run[q] = r, r # Done, r.pc # "spending" \/ request[q] = Idle, logged' = logged,
         run' = [run EXCEPT ![q] = Done], task' = [task EXCEPT ![r.task] = x], Rests(x, logged)
  PROVE  TaskInv'
<1>1. r.task \in Task /\ \A p \in Request : \A s \in TransNo[r.task] : ~AsksFor(p, s)
  BY Alone
<1>2. PICK log, d : log = logged /\ d = Done
  OBVIOUS
<1>3. logged' = log /\ logged \subseteq log /\ Rests(x, log) /\ d \in Record \union {Done}
      /\ run' = [run EXCEPT ![q] = d] /\ (d # Done => d.task = r.task /\ Goes(r.task, d, x, log))
  BY <1>2
<1>4. IF run[q] = Done THEN task[r.task].status = "none" ELSE run[q].task = r.task
  OBVIOUS
<1> QED
  BY <1>1, <1>3, <1>4, InPlace, Zenon

At(r, pc, no) == [pc |-> pc, task |-> r.task, transNo |-> no]

StepFor(q, pc, no) == run' = [run EXCEPT ![q].pc = pc, ![q].transNo = no]

LEMMA Updates ==
  ASSUME RunType, NEW q \in Request, NEW r \in Record, run[q] = r, NEW pc, NEW no
  PROVE  /\ Step(q, pc) => run' = [run EXCEPT ![q] = At(r, pc, r.transNo)]
         /\ StepFor(q, pc, no) => run' = [run EXCEPT ![q] = At(r, pc, no)]
<1>1. PICK a : a = At(r, pc, r.transNo)
  OBVIOUS
<1>2. [r EXCEPT !.pc = pc] = a
  BY <1>1 DEF Record, At
<1>3. [a EXCEPT !.transNo = no] = At(r, pc, no)
  BY <1>1 DEF At
<1>4. run \in [Request -> {Done} \union Record]
  BY DEF RunType, Record
<1>5. [run EXCEPT ![q].pc = pc] = [run EXCEPT ![q] = a]
  BY <1>2
<1>6. [run EXCEPT ![q].pc = pc, ![q].transNo = no]
        = [[run EXCEPT ![q] = a] EXCEPT ![q] = [a EXCEPT !.transNo = no]]
  BY <1>2, <1>4
<1>7. PICK b : b = At(r, pc, no)
  OBVIOUS
<1>8. [[run EXCEPT ![q] = a] EXCEPT ![q] = b] = [run EXCEPT ![q] = b]
  BY <1>4
<1> QED
  BY <1>1, <1>3, <1>5, <1>6, <1>7, <1>8, Zenon DEF Step, StepFor

Names(t, no) == task' = [task EXCEPT ![t].transNo = no]
Marks(t, status) == task' = [task EXCEPT ![t].status = status]
Puts(t, y) == task' = [task EXCEPT ![t] = y]

LEMMA TaskUpdates ==
  ASSUME RunType, NEW t \in Task, NEW x, x = task[t], NEW no \in SpendIds \union {NoOne},
         NEW status \in {"none", "running", "succeeded", "failed"}, NEW y
  PROVE  /\ x \in TaskRow /\ task = [task EXCEPT ![t] = x]
         /\ y = [status |-> x.status, transNo |-> no] => y \in TaskRow /\ (Names(t, no) => Puts(t, y))
         /\ y = [status |-> status, transNo |-> x.transNo] => y \in TaskRow /\ (Marks(t, status) => Puts(t, y))
         /\ y = [status |-> status, transNo |-> no] => y \in TaskRow
<1>1. task \in [Task -> TaskRow]
  BY DEF RunType, TaskRow
<1>2. x \in TaskRow
  BY <1>1
<1>3. ASSUME y = [status |-> x.status, transNo |-> no] PROVE y \in TaskRow /\ (Names(t, no) => Puts(t, y))
  <2>1. [x EXCEPT !.transNo = no] = y /\ y \in TaskRow
    BY <1>2, <1>3 DEF TaskRow
  <2> QED
    BY <2>1, Zenon DEF Names, Puts
<1>4. ASSUME y = [status |-> status, transNo |-> x.transNo] PROVE y \in TaskRow /\ (Marks(t, status) => Puts(t, y))
  <2>1. [x EXCEPT !.status = status] = y /\ y \in TaskRow
    BY <1>2, <1>4 DEF TaskRow
  <2> QED
    BY <2>1, Zenon DEF Marks, Puts
<1>5. y = [status |-> status, transNo |-> no] => y \in TaskRow
  BY DEF TaskRow
<1>6. task = [task EXCEPT ![t] = x]
  BY <1>1
<1> QED
  BY <1>2, <1>3, <1>4, <1>5, <1>6, Zenon

LEMMA SpentStep ==
  ASSUME TaskInv, TasksAssumption, LedgerInv, LedgerInv', NEW q \in Request, Spent(q)
  PROVE  TaskInv'
<1>1. PICK r, x, log : r = run[q] /\ x = task[r.task] /\ log = logged
  OBVIOUS
<1>2. /\ r.pc = "spending" /\ request[q] = Idle /\ r # Done
      /\ UNCHANGED <<vars, task, logged>>
      /\ \/ RowsOf("spend", r.transNo) # {} /\ Step(q, "note")
         \/ run' = [run EXCEPT ![q].pc = "fail", ![q].transNo = NoOne]
  BY <1>1 DEF Spent, Done
<1>3. r \in Record /\ r.task \in Task /\ x \in TaskRow /\ RunSound(q, r) /\ TaskSound(r.task)
  BY <1>1, <1>2, Alone
<1>4. ledger' = ledger /\ Kept(TaskSpends) /\ RunType
  BY <1>2, SameIsKept DEF vars, TaskInv
<1>5. x.status \in {"running", "succeeded"} /\ x.transNo = NoOne
  BY <1>1, <1>2, <1>3 DEF RunSound
<1>6. Rests(x, log)
  BY <1>5 DEF Rests
<1>7. task' = [task EXCEPT ![r.task] = x] /\ r.transNo \in SpendIds \union {NoOne}
      /\ logged' = log /\ logged \subseteq log
  BY <1>1, <1>2, <1>3, <1>4, TaskUpdates DEF Record
<1>8. CASE RowsOf("spend", r.transNo) # {} /\ Step(q, "note")
  <2>1. PICK y : y = [pc |-> "note", task |-> r.task, transNo |-> r.transNo]
    OBVIOUS
  <2>2. run' = [run EXCEPT ![q] = y]
    <3>1. run' = [run EXCEPT ![q] = At(r, "note", r.transNo)]
      BY <1>1, <1>3, <1>4, <1>8, Updates, Zenon
    <3>2. y = At(r, "note", r.transNo)
      BY <2>1 DEF At
    <3> QED
      BY <3>1, <3>2, Zenon
  <2>3. r.transNo # NoOne
    BY <1>8, SpendIsId
  <2>4. Goes(r.task, y, x, log)
    BY <1>5, <1>8, <2>1, <2>3 DEF Goes, AfterSpend
  <2>5. "note" \in {"spend", "spending", "fail"} \union AfterSpend
    BY DEF AfterSpend
  <2> QED
    BY <1>1, <1>2, <1>3, <1>4, <1>6, <1>7, <2>1, <2>2, <2>4, <2>5, GoesOn, ZenonT(60)
<1>9. CASE run' = [run EXCEPT ![q].pc = "fail", ![q].transNo = NoOne]
  <2>1. PICK y, no : y = [pc |-> "fail", task |-> r.task, transNo |-> no] /\ no = NoOne
    OBVIOUS
  <2>2. run' = [run EXCEPT ![q] = y]
    <3>0. StepFor(q, "fail", no)
      BY <1>9, <2>1, Zenon DEF StepFor
    <3>1. run' = [run EXCEPT ![q] = At(r, "fail", no)]
      BY <1>1, <1>3, <1>4, <3>0, Updates, ZenonT(60)
    <3>2. y = At(r, "fail", no)
      BY <2>1 DEF At
    <3> QED
      BY <3>1, <3>2, Zenon
  <2>3. Goes(r.task, y, x, log)
    BY <1>5, <2>1 DEF Goes, AfterSpend
  <2>4. "fail" \in {"spend", "spending", "fail"} \union AfterSpend /\ no \in SpendIds \union {NoOne}
    BY <2>1
  <2>5. y = [pc |-> "fail", task |-> r.task, transNo |-> no]
    BY <2>1
  <2>6. run[q] = r /\ r # Done /\ (r.pc # "spending" \/ request[q] = Idle)
    BY <1>1, <1>2
  <2> QED
    BY <1>3, <1>4, <1>6, <1>7, <2>2, <2>3, <2>4, <2>5, <2>6, GoesOn
<1> QED
  BY <1>2, <1>8, <1>9, Zenon

Pcs == {"spend", "spending", "fail"} \union AfterSpend

LEMMA StepOn ==
  ASSUME TaskInv, TasksAssumption, LedgerInv', ledger' = ledger, Kept(TaskSpends),
         NEW q \in Request, NEW r, NEW pc \in Pcs, NEW x \in TaskRow,
         run[q] = r, r # Done, r.pc # "spending" \/ request[q] = Idle,
         NEW log, logged' = log, logged \subseteq log,
         Step(q, pc), task' = [task EXCEPT ![r.task] = x],
         Goes(r.task, At(r, pc, r.transNo), x, log), Rests(x, log)
  PROVE  TaskInv'
<1>1. PICK y, no : y = [pc |-> pc, task |-> r.task, transNo |-> no] /\ no = r.transNo
  OBVIOUS
<1>2. r \in Record /\ RunType
  BY Alone DEF TaskInv
<1>3. no \in SpendIds \union {NoOne}
  BY <1>1, <1>2 DEF Record
<1>4. run' = [run EXCEPT ![q] = At(r, pc, r.transNo)]
  BY <1>2, Updates
<1>5. y = At(r, pc, r.transNo)
  BY <1>1 DEF At
<1>6. run' = [run EXCEPT ![q] = y] /\ Goes(r.task, y, x, log)
      /\ y = [pc |-> pc, task |-> r.task, transNo |-> no]
  BY <1>1, <1>4, <1>5, Zenon
<1>7. pc \in {"spend", "spending", "fail"} \union AfterSpend
  BY DEF Pcs
<1> QED
  BY <1>3, <1>6, <1>7, GoesOn

(* What a request that has spent goes on with.                             *)
LEMMA GoesAfter ==
  ASSUME NEW t, NEW r, NEW x, NEW log, NEW pc \in AfterSpend \ {"note"},
         x.status \in {"running", "succeeded"}, r.transNo # NoOne, RowsOf("spend", r.transNo) # {}
  PROVE  Goes(t, At(r, pc, r.transNo), x, log)
BY DEF Goes, At, AfterSpend

LEMMA HasSpent ==
  ASSUME TaskInv, NEW q \in Request, NEW r, NEW x, r = run[q], x = task[r.task], r.pc \in AfterSpend
  PROVE  /\ r # Done /\ r \in Record /\ r.task \in Task /\ x \in TaskRow
         /\ r.pc # "spending" \/ request[q] = Idle
         /\ x.status \in {"running", "succeeded"}
         /\ r.transNo # NoOne /\ RowsOf("spend", r.transNo) # {}
         /\ task = [task EXCEPT ![r.task] = x]
         /\ Rests(x, logged) /\ RunType
<1>1. r # Done /\ r.pc # "spending"
  BY DEF AfterSpend, Done
<1>2. r \in Record /\ r.task \in Task /\ x \in TaskRow /\ RunSound(q, r) /\ TaskSound(r.task)
  BY <1>1, Alone
<1>3. x.status \in {"running", "succeeded"} /\ r.transNo # NoOne /\ RowsOf("spend", r.transNo) # {}
  BY <1>2 DEF RunSound
<1>4. Rests(x, logged)
  BY <1>2, <1>3 DEF Rests, TaskSound
<1>5. task = [task EXCEPT ![r.task] = x] /\ RunType
  BY <1>2 DEF TaskInv, RunType
<1> QED
  BY <1>1, <1>2, <1>3, <1>4, <1>5

LEMMA NoteStep ==
  ASSUME TaskInv, TasksAssumption, LedgerInv', NEW q \in Request, NoteSpend(q)
  PROVE  TaskInv'
<1>1. PICK r, x, y, log : r = run[q] /\ x = task[r.task] /\ log = logged
                          /\ y = [status |-> x.status, transNo |-> r.transNo]
  OBVIOUS
<1>2. r.pc = "note" /\ UNCHANGED vars /\ logged' = logged /\ Step(q, "generate")
      /\ Names(r.task, r.transNo)
  BY <1>1 DEF NoteSpend, Names
<1>3. /\ r # Done /\ r \in Record /\ r.task \in Task /\ x \in TaskRow
      /\ r.pc # "spending" \/ request[q] = Idle
      /\ x.status \in {"running", "succeeded"}
      /\ r.transNo # NoOne /\ RowsOf("spend", r.transNo) # {} /\ RunType
  BY <1>1, <1>2, HasSpent DEF AfterSpend
<1>4. task' = [task EXCEPT ![r.task] = y] /\ y \in TaskRow
  <2>1. r.transNo \in SpendIds \union {NoOne}
    BY <1>3 DEF Record
  <2> QED
    BY <1>1, <1>2, <1>3, <2>1, TaskUpdates DEF Puts
<1>5. Rests(y, log)
  BY <1>1, <1>3 DEF Rests
<1>6. "generate" \in Pcs /\ Goes(r.task, At(r, "generate", r.transNo), y, log)
  BY <1>1, <1>3, GoesAfter DEF Pcs, AfterSpend
<1>7. ledger' = ledger /\ Kept(TaskSpends)
  BY <1>2, SameIsKept DEF vars
<1> QED
  BY <1>1, <1>2, <1>3, <1>4, <1>5, <1>6, <1>7, StepOn

LEMMA GenerateStep ==
  ASSUME TaskInv, TasksAssumption, LedgerInv', NEW q \in Request, Generate(q)
  PROVE  TaskInv'
<1>1. PICK r, x, log : r = run[q] /\ x = task[r.task] /\ log = logged
  OBVIOUS
<1>2. r.pc = "generate" /\ UNCHANGED vars /\ logged' = logged /\ task' = task
      /\ \E pc \in {"finish", "refund"} : Step(q, pc)
  BY <1>1 DEF Generate
<1>3. PICK pc \in {"finish", "refund"} : Step(q, pc)
  BY <1>2
<1>4. /\ r # Done /\ r \in Record /\ r.task \in Task /\ x \in TaskRow
      /\ r.pc # "spending" \/ request[q] = Idle
      /\ x.status \in {"running", "succeeded"}
      /\ r.transNo # NoOne /\ RowsOf("spend", r.transNo) # {}
      /\ task' = [task EXCEPT ![r.task] = x] /\ Rests(x, log)
  BY <1>1, <1>2, HasSpent DEF AfterSpend
<1>5. pc \in Pcs /\ Goes(r.task, At(r, pc, r.transNo), x, log)
  BY <1>1, <1>4, GoesAfter DEF Pcs, AfterSpend
<1>6. ledger' = ledger /\ Kept(TaskSpends)
  BY <1>2, SameIsKept DEF vars
<1> QED
  BY <1>1, <1>2, <1>3, <1>4, <1>5, <1>6, StepOn

LEMMA FinishStep ==
  ASSUME TaskInv, TasksAssumption, LedgerInv', NEW q \in Request, Finish(q)
  PROVE  TaskInv'
<1>1. PICK r, x, y : r = run[q] /\ x = task[r.task]
                     /\ y = [status |-> "succeeded", transNo |-> x.transNo]
  OBVIOUS
<1>2. r.pc = "finish" /\ UNCHANGED vars /\ logged' = logged /\ run' = [run EXCEPT ![q] = Done]
      /\ Marks(r.task, "succeeded")
  BY <1>1 DEF Finish, Marks
<1>3. /\ r # Done /\ r.task \in Task /\ x \in TaskRow
      /\ r.pc # "spending" \/ request[q] = Idle
      /\ Rests(x, logged) /\ RunType
  BY <1>1, <1>2, HasSpent DEF AfterSpend
<1>4. task' = [task EXCEPT ![r.task] = y] /\ y \in TaskRow
  BY <1>1, <1>2, <1>3, TaskUpdates DEF Puts
<1>5. Rests(y, logged)
  BY <1>1, <1>3 DEF Rests
<1>6. ledger' = ledger /\ Kept(TaskSpends)
  BY <1>2, SameIsKept DEF vars
<1> QED
  BY <1>1, <1>2, <1>3, <1>4, <1>5, <1>6, Ends

LEMMA ThrowsStep ==
  ASSUME TaskInv, TasksAssumption, LedgerInv', NEW q \in Request, UpdateThrows(q)
  PROVE  TaskInv'
<1>1. PICK r, x, log : r = run[q] /\ x = task[r.task] /\ log = logged
  OBVIOUS
<1>2. r.pc \in {"note", "finish"} /\ UNCHANGED vars /\ logged' = logged /\ Step(q, "refund")
      /\ \/ task' = task
         \/ Marks(r.task, "succeeded")
         \/ Names(r.task, r.transNo)
  BY <1>1 DEF UpdateThrows, Marks, Names
<1>3. /\ r # Done /\ r \in Record /\ r.task \in Task /\ x \in TaskRow
      /\ r.pc # "spending" \/ request[q] = Idle
      /\ x.status \in {"running", "succeeded"}
      /\ r.transNo # NoOne /\ RowsOf("spend", r.transNo) # {}
      /\ task = [task EXCEPT ![r.task] = x] /\ Rests(x, log) /\ RunType
  BY <1>1, <1>2, HasSpent DEF AfterSpend
<1>4. PICK y : y \in TaskRow /\ y.status \in {"running", "succeeded"} /\ Rests(y, log)
               /\ task' = [task EXCEPT ![r.task] = y]
  <2>1. CASE task' = task
    BY <1>3, <2>1
  <2>2. CASE Marks(r.task, "succeeded")
    <3>1. PICK y : y = [status |-> "succeeded", transNo |-> x.transNo]
      OBVIOUS
    <3>2. y \in TaskRow /\ task' = [task EXCEPT ![r.task] = y]
      BY <1>1, <1>3, <2>2, <3>1, TaskUpdates DEF Puts
    <3>3. Rests(y, log)
      BY <1>3, <3>1 DEF Rests
    <3> QED
      BY <3>1, <3>2, <3>3
  <2>3. CASE Names(r.task, r.transNo)
    <3>1. PICK y : y = [status |-> x.status, transNo |-> r.transNo]
      OBVIOUS
    <3>2. y \in TaskRow /\ task' = [task EXCEPT ![r.task] = y]
      <4>1. r.transNo \in SpendIds \union {NoOne}
        BY <1>3 DEF Record
      <4> QED
        BY <1>1, <1>3, <2>3, <3>1, <4>1, TaskUpdates DEF Puts
    <3>3. Rests(y, log)
      BY <1>3, <3>1 DEF Rests
    <3> QED
      BY <1>3, <3>1, <3>2, <3>3
  <2> QED
    BY <1>2, <2>1, <2>2, <2>3
<1>5. "refund" \in Pcs /\ Goes(r.task, At(r, "refund", r.transNo), y, log)
  BY <1>1, <1>3, <1>4, GoesAfter DEF Pcs, AfterSpend
<1>6. ledger' = ledger /\ Kept(TaskSpends)
  BY <1>2, SameIsKept DEF vars
<1> QED
  BY <1>1, <1>2, <1>3, <1>4, <1>5, <1>6, StepOn

LEMMA RefundStep ==
  ASSUME TaskInv, TasksAssumption, LedgerInv, LedgerInv', NEW q \in Request, Refund(q)
  PROVE  TaskInv'
<1>1. PICK r, x, log : r = run[q] /\ x = task[r.task] /\ log = logged
  OBVIOUS
<1>2. r.pc = "refund" /\ CallRefund(q, r.transNo) /\ logged' = logged /\ task' = task
      /\ Step(q, "refunding")
  BY <1>1 DEF Refund
<1>3. /\ r # Done /\ r \in Record /\ r.task \in Task /\ x \in TaskRow
      /\ r.pc # "spending" \/ request[q] = Idle
      /\ x.status \in {"running", "succeeded"}
      /\ r.transNo # NoOne /\ RowsOf("spend", r.transNo) # {}
      /\ task' = [task EXCEPT ![r.task] = x] /\ Rests(x, log)
  BY <1>1, <1>2, HasSpent DEF AfterSpend
<1>4. "refunding" \in Pcs /\ Goes(r.task, At(r, "refunding", r.transNo), x, log)
  BY <1>1, <1>3, GoesAfter DEF Pcs, AfterSpend
<1>5. ledger' = ledger
  BY <1>2 DEF CallRefund
<1>6. Kept(TaskSpends)
  BY <1>2, CallIsKept DEF CallRefund
<1> QED
  BY <1>1, <1>2, <1>3, <1>4, <1>5, <1>6, StepOn

LEMMA RefundedStep ==
  ASSUME TaskInv, TasksAssumption, LedgerInv', NEW q \in Request, Refunded(q)
  PROVE  TaskInv'
<1>1. PICK r, x, log : r = run[q] /\ x = task[r.task] /\ log = logged'
  OBVIOUS
<1>2. /\ r.pc = "refunding" /\ UNCHANGED vars /\ task' = task /\ Step(q, "fail")
      /\ log = IF RowsOf("refund", r.transNo) = {} THEN logged \union {r.transNo} ELSE logged
  BY <1>1 DEF Refunded
<1>3. /\ r # Done /\ r \in Record /\ r.task \in Task /\ x \in TaskRow
      /\ r.pc # "spending" \/ request[q] = Idle
      /\ x.status \in {"running", "succeeded"}
      /\ r.transNo # NoOne /\ RowsOf("spend", r.transNo) # {}
      /\ task' = [task EXCEPT ![r.task] = x] /\ Rests(x, logged)
  BY <1>1, <1>2, HasSpent DEF AfterSpend
<1>4. logged \subseteq log /\ (RowsOf("refund", r.transNo) # {} \/ r.transNo \in log)
  BY <1>2
<1>5. Rests(x, log)
  BY <1>3, <1>4 DEF Rests
<1>6. "fail" \in Pcs /\ Goes(r.task, At(r, "fail", r.transNo), x, log)
  BY <1>3, <1>4 DEF Pcs, AfterSpend, Goes, At
<1>7. ledger' = ledger /\ Kept(TaskSpends)
  BY <1>2, SameIsKept DEF vars
<1> QED
  BY <1>1, <1>2, <1>3, <1>4, <1>5, <1>6, <1>7, StepOn

LEMMA FailedStep ==
  ASSUME TaskInv, TasksAssumption, LedgerInv, LedgerInv', NEW q \in Request, MarkFailed(q)
  PROVE  TaskInv'
<1>1. PICK r, x : r = run[q] /\ x = task[r.task]
  OBVIOUS
<1>2. PICK no, y : /\ no = IF r.transNo = NoOne THEN x.transNo ELSE r.transNo
                   /\ y = [status |-> "failed", transNo |-> no]
  OBVIOUS
<1>3. /\ r.pc = "fail" /\ r # Done /\ UNCHANGED vars /\ logged' = logged
      /\ run' = [run EXCEPT ![q] = Done]
  BY <1>1 DEF MarkFailed, Done
<1>4. r \in Record /\ r.task \in Task /\ x \in TaskRow /\ RunSound(q, r) /\ TaskSound(r.task)
  BY <1>1, <1>3, Alone
<1>5. task' = [task EXCEPT ![r.task] = y]
  BY <1>1, <1>2 DEF MarkFailed
<1>6. no \in SpendIds \union {NoOne}
  BY <1>2, <1>4 DEF Record, TaskRow
<1>7. y \in TaskRow
  BY <1>2, <1>6 DEF TaskRow
<1>8. Rests(y, logged)
  <2>1. CASE r.transNo = NoOne
    <3>1. no = NoOne
      BY <1>1, <1>2, <1>3, <1>4, <2>1 DEF RunSound
    <3>2. RowsOf("spend", no) = {}
      BY <3>1, SpendIsId
    <3> QED
      BY <1>2, <3>1, <3>2 DEF Rests, Standing
  <2>2. CASE r.transNo # NoOne
    <3>1. no = r.transNo /\ RowsOf("spend", no) # {} /\ (RowsOf("refund", no) # {} \/ no \in logged)
      BY <1>2, <1>3, <1>4, <2>2 DEF RunSound
    <3> QED
      BY <1>2, <3>1 DEF Rests, Standing
  <2> QED
    BY <2>1, <2>2
<1>9. ledger' = ledger /\ Kept(TaskSpends)
  BY <1>3, SameIsKept DEF vars
<1> QED
  BY <1>1, <1>3, <1>5, <1>7, <1>8, <1>9, Ends

LEMMA CrashStep ==
  ASSUME TaskInv, TasksAssumption, LedgerInv, LedgerInv', NEW q \in Request, Crash(q)
  PROVE  TaskInv'
<1>1. PICK r, x : r = run[q] /\ x = task[r.task]
  OBVIOUS
<1>2. /\ r # Done /\ Release(q) /\ ledger' = ledger /\ task' = task /\ logged' = logged
      /\ run' = [run EXCEPT ![q] = Done]
  BY <1>1 DEF Crash
<1>3. Kept(TaskSpends)
  BY <1>2, ReleaseIsKept
<1>4. RunType /\ OneRun /\ AskedByRun /\ r \in Record /\ r.task \in Task /\ x \in TaskRow
      /\ (\A p \in Request : run[p] # Done => RunSound(p, run[p]))
      /\ (\A u \in Task : TaskSound(u))
  BY <1>1, <1>2 DEF TaskInv, RunType, Record, TaskRow
<1>5. /\ run' \in [Request -> {Done} \union Record]
      /\ run'[q] = Done /\ \A p \in Request : p # q => run'[p] = run[p]
  BY <1>2, <1>4 DEF RunType, Record
<1>6. request'[q] = Idle
  BY <1>2 DEF Release, LedgerInv, LedgerType
<1>7. \A u \in Task : TransNo[u] \subseteq TaskSpends
  BY DEF TaskSpends
<1>8. ASSUME NEW p \in Request, run'[p] # Done PROVE RunSound(p, run[p])'
  <2>1. PICK o : o = run[p]
    OBVIOUS
  <2>2. run'[p] = o /\ o.task \in Task /\ RunSound(p, o)
    BY <1>4, <1>5, <1>8, <2>1 DEF RunType
  <2>3. RunSound(p, o)'
    BY <1>2, <1>3, <1>7, <2>2, RunSoundKept
  <2> QED
    BY <2>2, <2>3, Zenon DEF RunSound
<1>9. ASSUME NEW u \in Task PROVE TaskSound(u)'
  <2>1. \A p \in Request : run'[p] # Done /\ run'[p].task = u => run[p] # Done /\ run[p].task = u
    BY <1>5
  <2>2. TransNo[u] \subseteq TaskSpends /\ TaskSound(u) /\ task'[u] = task[u] /\ logged \subseteq logged'
    BY <1>2, <1>4, <1>7
  <2> QED
    BY <1>3, <2>1, <2>2, TaskSoundKept
<1>10. AskedByRun'
  <2>1. ASSUME NEW p \in Request, NEW u \in Task, NEW s \in TransNo[u], AsksFor(p, s)'
        PROVE  run'[p].pc = "spending" /\ run'[p].task = u
    <3>1. AsksFor(p, s)
      BY <1>3, <1>7, <2>1 DEF Kept
    <3>2. p # q
      BY <1>6, <2>1 DEF AsksFor
    <3> QED
      BY <1>4, <1>5, <3>1, <3>2 DEF AskedByRun
  <2> QED
    BY <2>1 DEF AskedByRun
<1>11. OneRun'
  BY <1>4, <1>5 DEF OneRun
<1>12. RunType'
  BY <1>2, <1>4, <1>5 DEF RunType, Record
<1> QED
  BY <1>8, <1>9, <1>10, <1>11, <1>12 DEF TaskInv

LEMMA SpendStep ==
  ASSUME TaskInv, TasksAssumption, LedgerInv, LedgerInv', NEW q \in Request, Spend(q)
  PROVE  TaskInv'
<1>1. PICK r, t, x : r = run[q] /\ t = r.task /\ x = task[t]
  OBVIOUS
<1>2. RunType
  BY DEF TaskInv
<1>3. PICK s : /\ s \in TransNo[t] /\ s \in SpendIds /\ t \in Task /\ CallSpend(q, s)
               /\ StepFor(q, "spending", s)
               /\ task' = task /\ logged' = logged
  BY <1>1, <1>2, SpendAsks DEF StepFor
<1>4. r.pc = "spend" /\ r # Done /\ request[q] = Idle /\ ledger' = ledger
  BY <1>1, <1>3 DEF Spend, Done, CallSpend
<1>5. r \in Record /\ x \in TaskRow /\ RunSound(q, r)
      /\ \A p \in Request : \A u \in TransNo[t] : ~AsksFor(p, u)
  BY <1>1, <1>4, Alone
<1>6. x.status \in {"running", "succeeded"} /\ x.transNo = NoOne
      /\ \A u \in TransNo[t] : ~Touched(u)
  BY <1>1, <1>4, <1>5 DEF RunSound
<1>7. PICK y, z : y = At(r, "spending", s) /\ z = Asks("spend", s, "lock", {})
  OBVIOUS
<1>8. run' = [run EXCEPT ![q] = y] /\ y \in Record /\ y.task = t /\ y.pc = "spending"
  <2>1. run' = [run EXCEPT ![q] = y]
    BY <1>1, <1>2, <1>3, <1>5, <1>7, Updates
  <2>2. y \in Record /\ y.task = t /\ y.pc = "spending"
    BY <1>1, <1>3, <1>7 DEF At, Record
  <2> QED
    BY <2>1, <2>2
<1>9. Ask(q, "spend", s, "lock", {})
  BY <1>3 DEF CallSpend
<1>10. request' = [request EXCEPT ![q] = z]
  BY <1>7, <1>9 DEF Ask, Asks
<1>11. ASSUME NEW p \in Request, NEW u \in TransNo[t], AsksFor(p, u)'
       PROVE  p = q /\ u = s
  <2>1. request \in [Request -> Call \union {Idle}]
    BY DEF LedgerInv, LedgerType
  <2>2. CASE p # q
    <3>1. request'[p] = request[p]
      BY <1>10, <2>1, <2>2
    <3>2. AsksFor(p, u)
      BY <1>11, <3>1 DEF AsksFor
    <3> QED
      BY <1>5, <3>2
  <2>3. CASE p = q
    <3>1. request'[q] = z
      BY <1>10, <2>1
    <3>2. z.id = s
      BY <1>7 DEF Asks
    <3> QED
      BY <1>11, <2>3, <3>1, <3>2 DEF AsksFor
  <2> QED
    BY <2>2, <2>3
<1>12. ASSUME NEW u \in TransNo[t], Touched(u)' PROVE u = s
  <2>1. RowsOf("spend", u)' = {}
    BY <1>4, <1>6, RowsSame DEF Touched
  <2> QED
    BY <1>11, <1>12, <2>1 DEF Touched, Asked
<1>13. Kept(TaskSpends \ TransNo[t])
  BY <1>3, <1>4, <1>9, CallIsKept
<1>14. task'[t] = x /\ task' = [task EXCEPT ![t] = x]
  BY <1>1, <1>2, <1>3 DEF RunType
<1>15. RunSound(q, y)'
  BY <1>6, <1>8, <1>14 DEF RunSound, AfterSpend
<1>16. TaskSound(t)'
  <2>1. \A u, v \in TransNo[t] : Touched(u)' /\ Touched(v)' => u = v
    BY <1>12
  <2>2. x.status # "none" /\ x.transNo = NoOne /\ x.status # "failed"
    BY <1>6
  <2> QED
    BY <1>14, <2>1, <2>2, Zenon DEF TaskSound
<1>17. \A p \in Request : \A u \in TransNo[t] :
         AsksFor(p, u)' => p = q /\ y.pc = "spending" /\ y.task = t
  BY <1>8, <1>11
<1>18. IF run[q] = Done THEN task[t].status = "none" ELSE run[q].task = t
  BY <1>1, <1>4
<1>19. y \in Record \union {Done} /\ logged \subseteq logged' /\ (y # Done => y.task = t /\ RunSound(q, y)')
  BY <1>3, <1>8, <1>15
<1> QED
  <2>1. /\ t \in Task /\ x \in TaskRow /\ Kept(TaskSpends \ TransNo[t])
        /\ run' = [run EXCEPT ![q] = y] /\ task' = [task EXCEPT ![t] = x] /\ TaskSound(t)'
    BY <1>3, <1>5, <1>8, <1>13, <1>14, <1>16, Zenon
  <2> HIDE DEF RunSound, TaskSound, Kept, AsksFor, TaskInv
  <2> QED
    BY <2>1, <1>17, <1>18, <1>19, RunStep, Zenon

LEMMA TaskStep ==
  ASSUME TaskInv, TasksAssumption, LedgerAssumption, LedgerInv, LedgerInv',
         [TasksNext]_<<vars, taskVars>>
  PROVE  TaskInv'
<1>1. ASSUME NEW q \in Request, NEW t \in Task, CreateTask(q, t) PROVE TaskInv'
  BY <1>1, CreateStep
<1>2. ASSUME NEW q \in Request,
             \/ Spend(q) \/ Spent(q) \/ NoteSpend(q) \/ Generate(q) \/ Finish(q) \/ UpdateThrows(q)
             \/ Refund(q) \/ Refunded(q) \/ MarkFailed(q) \/ Crash(q)
      PROVE  TaskInv'
  BY <1>2, SpendStep, SpentStep, NoteStep, GenerateStep, FinishStep, ThrowsStep, RefundStep,
     RefundedStep, FailedStep, CrashStep
<1>3. CASE LedgerNext /\ UNCHANGED taskVars
  BY <1>3, LedgerIsKept, OthersStep DEF taskVars
<1>4. CASE UNCHANGED <<vars, taskVars>>
  BY <1>4, SameIsKept, OthersStep DEF taskVars
<1> QED
  BY <1>1, <1>2, <1>3, <1>4 DEF TasksNext, TaskNext

LEMMA TaskStart ==
  ASSUME TasksInit, LedgerAssumption, TasksAssumption
  PROVE  TaskInv
<1>1. Init /\ task = [t \in Task |-> NoTask] /\ run = [q \in Request |-> Done]
  BY DEF TasksInit
<1>2. ledger = <<>> /\ \A q \in Request : request[q] = Idle
  BY <1>1, InitType
<1>3. \A k, s : RowsOf(k, s) = {}
  BY <1>2 DEF RowsOf
<1>4. \A q \in Request : \A s : ~AsksFor(q, s)
  BY <1>2 DEF AsksFor
<1>5. \A s : ~Touched(s)
  BY <1>3, <1>4 DEF Touched, Asked
<1>6. \A q \in Request : run[q] = Done
  BY <1>1
<1>7. ASSUME NEW t \in Task PROVE TaskSound(t)
  <2>1. task[t].status = "none" /\ task[t].transNo = NoOne
    BY <1>1 DEF NoTask
  <2> QED
    BY <1>5, <1>6, <2>1 DEF TaskSound
<1>8. RunType
  BY <1>1 DEF RunType, NoTask
<1> QED
  BY <1>4, <1>6, <1>7, <1>8 DEF TaskInv, OneRun, AskedByRun

LEMMA PaidOnce ==
  ASSUME TaskInv, LedgerInv, TasksAssumption
  PROVE  TaskPaidOnce
<1>1. ASSUME NEW t \in Task PROVE Cardinality({s \in TransNo[t] : RowsOf("spend", s) # {}}) <= 1
  <2>1. PICK paid : paid = {s \in TransNo[t] : RowsOf("spend", s) # {}}
    OBVIOUS
  <2>2. \A s, u \in paid : s = u
    BY <2>1 DEF TaskInv, TaskSound, Touched
  <2>3. CASE paid = {}
    BY <2>1, <2>3, FS_EmptySet
  <2>4. CASE paid # {}
    <3>1. PICK s : s \in paid
      BY <2>4
    <3>2. paid = {s}
      BY <2>2, <3>1
    <3> QED
      BY <2>1, <3>2, FS_Singleton
  <2> QED
    BY <2>3, <2>4
<1>2. ASSUME NEW t \in Task
      PROVE  task[t].status = "failed" /\ Standing(task[t].transNo) => task[t].transNo \in logged
  BY DEF TaskInv, TaskSound
<1> QED
  BY <1>1, <1>2 DEF TaskPaidOnce

(* A task is paid once, however often its key is sent and whoever else     *)
(* spends, refunds, is erased or dies at the same time; and one that       *)
(* failed with a standing spend is named in the log                        *)
(* (createTextToVideoTask and its transactions).                           *)
THEOREM AlwaysTaskPaidOnce == TasksSpec => []TaskPaidOnce
<1>1. TasksInit => LedgerInv /\ TaskInv
  BY LedgerAssumption, TasksAssumption, InitType, TaskStart DEF TasksInit
<1>2. LedgerInv /\ TaskInv /\ [TasksNext]_<<vars, taskVars>> => LedgerInv' /\ TaskInv'
  <2> SUFFICES ASSUME LedgerInv, TaskInv, [TasksNext]_<<vars, taskVars>> PROVE LedgerInv' /\ TaskInv'
    OBVIOUS
  <2>1. LedgerAction
    BY TasksAssumption, NextIsLedger DEF TaskInv
  <2>2. LedgerInv'
    BY <2>1, LedgerAssumption, TypeStep
  <2> QED
    BY <2>2, LedgerAssumption, TasksAssumption, TaskStep
<1>3. LedgerInv /\ TaskInv => TaskPaidOnce
  BY TasksAssumption, PaidOnce
<1> QED
  BY <1>1, <1>2, <1>3, PTL DEF TasksSpec

-----------------------------------------------------------------------------
(* Every row's balance is the sum up to it. *)

LEMMA SumsRun ==
  ASSUME NEW n \in Nat, NEW rows \in [1..n -> Row], NEW h, Runs(h, Credits(rows), n)
  PROVE  SumCredits(rows) = h[n] /\ \A i \in 0..n : SumCredits(SubSeq(rows, 1, i)) = h[i]
<1>1. PICK s : s = Credits(rows)
  OBVIOUS
<1>2. s \in [1..n -> Int]
  BY <1>1 DEF Credits, Row
<1>3. SumCredits(rows) = h[n]
  BY <1>1, <1>2, TotalBy DEF SumCredits
<1>4. ASSUME NEW i \in 0..n PROVE SumCredits(SubSeq(rows, 1, i)) = h[i]
  <2>1. SubSeq(rows, 1, i) = Prefix(rows, i)
    BY SubSeqPrefix
  <2>2. \A j \in 1..i : j \in 1..n
    OBVIOUS
  <2>3. Credits(Prefix(rows, i)) = Prefix(s, i)
    BY <1>1, <2>2 DEF Credits, Prefix
  <2>4. Total(Prefix(s, i)) = h[i]
    BY <1>1, <1>2, PrefixTotal
  <2> QED
    BY <2>1, <2>3, <2>4, Zenon DEF SumCredits
<1> QED
  BY <1>3, <1>4

Sums(h, s, n) == h \in [0..n -> Int] /\ Runs(h, s, n)
Amounts(t, c, k) == \A i \in 1..k : t[i].credits = c[i]
Follows(h, g, n, f, k) == (\A i \in 0..n : h[i] = g[i]) /\ (\A i \in 1..k : h[n + i] = g[n] + f[i])
RowsTo(rows, n) == n \in Nat /\ rows \in [1..n -> Row]
TotalsTo(c, f, k) == \A j \in 0..k : Total(Prefix(c, j)) = f[j]
SumsTo(rows, h, n) == SumCredits(rows) = h[n] /\ \A i \in 0..n : SumCredits(SubSeq(rows, 1, i)) = h[i]

LEMMA JoinedSums ==
  ASSUME NEW all, NEW s, NEW n, NEW t, NEW k, Joined(all, s, n, t, k, Row),
         NEW g, Sums(g, Credits(s), n), NEW c, NEW f, Sums(f, c, k), Amounts(t, c, k)
  PROVE  \E h : Sums(h, Credits(all), n + k) /\ Follows(h, g, n, f, k)
<1>0. /\ g \in [0..n -> Int] /\ Runs(g, Credits(s), n)
      /\ f \in [0..k -> Int] /\ Runs(f, c, k) /\ \A i \in 1..k : t[i].credits = c[i]
  BY DEF Sums, Amounts
<1>1. /\ n \in Nat /\ k \in Nat /\ n + k \in Nat
      /\ DOMAIN s = 1..n /\ DOMAIN all = 1..n+k
      /\ \A i \in 1..n : i \in 1..n+k /\ all[i] = s[i]
      /\ \A i \in 1..k : n + i \in 1..n+k /\ all[n + i] = t[i]
      /\ \A i \in 1..n+k : i \in 1..n \/ \E j \in 1..k : i = n + j
  BY DEF Joined
<1>2. PICK h : h = [i \in 0..n+k |-> IF i =< n THEN g[i] ELSE g[n] + f[i - n]]
  OBVIOUS
<1>3. h \in [0..n+k -> Int]
  <2>1. ASSUME NEW i \in 0..n+k PROVE (IF i =< n THEN g[i] ELSE g[n] + f[i - n]) \in Int
    <3>1. CASE i =< n
      <4>1. i \in 0..n
        BY <1>1, <3>1
      <4> QED
        BY <1>0, <3>1, <4>1
    <3>2. CASE ~(i =< n)
      <4>1. i - n \in 0..k /\ n \in 0..n
        BY <1>1, <3>2
      <4>2. g[n] \in Int /\ f[i - n] \in Int
        BY <1>0, <4>1
      <4> QED
        BY <3>2, <4>2
    <3> QED
      BY <3>1, <3>2
  <2> QED
    BY <1>2, <2>1
<1>4. ASSUME NEW i \in 0..n PROVE h[i] = g[i]
  BY <1>1, <1>2
<1>5. ASSUME NEW i \in 1..k PROVE h[n + i] = g[n] + f[i]
  <2>1. n + i \in 0..n+k /\ ~(n + i =< n) /\ (n + i) - n = i
    BY <1>1
  <2>2. h[n + i] = g[n] + f[(n + i) - n]
    BY <1>2, <2>1
  <2> QED
    BY <2>1, <2>2
<1>6. ASSUME NEW i \in 1..n+k PROVE h[i] = h[i - 1] + Credits(all)[i]
  <2>1. Credits(all)[i] = all[i].credits
    BY <1>1 DEF Credits
  <2>2. CASE i \in 1..n
    <3>1. i - 1 \in 0..n /\ i \in 0..n
      BY <1>1, <2>2
    <3>2. h[i] = g[i] /\ h[i - 1] = g[i - 1]
      BY <1>4, <3>1
    <3>3. g[i] = g[i - 1] + Credits(s)[i]
      BY <1>0, <2>2 DEF Runs
    <3>4. Credits(s)[i] = all[i].credits
      BY <1>1, <2>2 DEF Credits
    <3> QED
      BY <2>1, <3>2, <3>3, <3>4, Zenon
  <2>3. ASSUME NEW j \in 1..k, i = n + j PROVE h[i] = h[i - 1] + Credits(all)[i]
    <3>1. f[j] = f[j - 1] + c[j] /\ f[0] = 0
      BY <1>0 DEF Runs
    <3>2. all[i].credits = c[j]
      BY <1>0, <1>1, <2>3
    <3>3. g[n] \in Int /\ f[j] \in Int /\ f[j - 1] \in Int /\ h[n] = g[n] /\ h[i] = g[n] + f[j]
      <4>1. n \in 0..n /\ j \in 0..k /\ j - 1 \in 0..k
        BY <1>1
      <4> QED
        BY <1>0, <1>4, <1>5, <2>3, <4>1
    <3>4. h[i - 1] = g[n] + f[j - 1]
      <4>1. CASE j = 1
        <5>1. i - 1 = n /\ j - 1 = 0
          BY <1>1, <2>3, <4>1
        <5> QED
          BY <3>1, <3>3, <5>1
      <4>2. CASE j # 1
        <5>1. j - 1 \in 1..k /\ i - 1 = n + (j - 1)
          BY <1>1, <2>3, <4>2
        <5> QED
          BY <1>5, <5>1
      <4> QED
        BY <4>1, <4>2
    <3>5. PICK a, b, d, e : a = f[j] /\ b = f[j - 1] /\ d = c[j] /\ e = g[n]
      OBVIOUS
    <3>6. a = b + d /\ a \in Int /\ b \in Int /\ e \in Int /\ h[i] = e + a /\ h[i - 1] = e + b
      BY <3>1, <3>3, <3>4, <3>5
    <3>7. d \in Int
      <4>1. t[j] \in Row /\ t[j].credits = d
        BY <1>0, <3>5 DEF Joined
      <4> QED
        BY <4>1 DEF Row
    <3>8. h[i] = h[i - 1] + d
      BY <3>6, <3>7
    <3> QED
      BY <2>1, <3>2, <3>5, <3>8
  <2> QED
    BY <1>1, <2>2, <2>3
<1>7. h[0] = 0
  BY <1>0, <1>1, <1>4 DEF Runs
<1>8. Runs(h, Credits(all), n + k)
  BY <1>6, <1>7 DEF Runs
<1> QED
  BY <1>3, <1>4, <1>5, <1>8 DEF Sums, Follows

BalanceInv == BalanceAfterExact /\ SumFresh

LEMMA PrefixSums ==
  ASSUME NEW k \in Nat, NEW c \in [1..k -> Int], NEW f, Sums(f, c, k)
  PROVE  TotalsTo(c, f, k)
BY PrefixTotal DEF Sums, TotalsTo

LEMMA SumsTold ==
  ASSUME NEW rows, NEW n, NEW h, RowsTo(rows, n), Sums(h, Credits(rows), n)
  PROVE  SumsTo(rows, h, n)
BY SumsRun DEF RowsTo, Sums, SumsTo

LEMMA SumsThere ==
  ASSUME NEW rows, NEW n, RowsTo(rows, n)
  PROVE  \E h : Sums(h, Credits(rows), n)
<1>1. PICK s : s = Credits(rows)
  OBVIOUS
<1>2. s \in [1..n -> Int]
  BY <1>1 DEF RowsTo, Credits, Row
<1> QED
  BY <1>1, <1>2, TotalRuns DEF RowsTo, Sums

(* One request goes on under the lock it holds, and the rows stay.         *)
LEMMA QuietBalance ==
  ASSUME LedgerInv, BalanceInv, ledger' = ledger, NEW q \in Request, NEW c,
         request' = [request EXCEPT ![q] = c], c.pc = "insert" => c.total = SumCredits(ledger)
  PROVE  BalanceInv'
<1>1. BalanceAfterExact'
  BY DEF BalanceInv, BalanceAfterExact
<1>2. ASSUME NEW p \in Request, request'[p].pc = "insert" PROVE request'[p].total = SumCredits(ledger)
  BY <1>2 DEF BalanceInv, SumFresh, LedgerInv, LedgerType
<1>3. SumCredits(ledger)' = SumCredits(ledger)
  OBVIOUS
<1> QED
  BY <1>1, <1>2, <1>3 DEF BalanceInv, SumFresh

LEMMA ReleaseBalance ==
  ASSUME LedgerInv, BalanceInv, ledger' = ledger, NEW q \in Request, Release(q)
  PROVE  BalanceInv'
<1>1. PICK c : c = Idle
  OBVIOUS
<1>2. request' = [request EXCEPT ![q] = c] /\ c.pc # "insert"
  BY <1>1 DEF Release, Idle
<1> QED
  BY <1>2, QuietBalance

LEMMA CallBalance ==
  ASSUME LedgerInv, BalanceInv, ledger' = ledger, NEW q \in Request, NEW kind, NEW id, NEW plan,
         NEW pc \in {"check", "lock"}, Ask(q, kind, id, pc, plan)
  PROVE  BalanceInv'
<1>1. PICK c : c = Asks(kind, id, pc, plan)
  OBVIOUS
<1>2. request' = [request EXCEPT ![q] = c] /\ c.pc # "insert"
  BY <1>1 DEF Ask, Asks
<1> QED
  BY <1>2, QuietBalance

LEMMA InsertBalance ==
  ASSUME LedgerInv, LedgerInv', BalanceInv, LedgerAssumption, NEW q \in Request, Inserts1(q)
  PROVE  BalanceInv'
<1>1. Release(q) /\ request[q].pc = "insert"
      /\ \/ ledger' = ledger
         \/ \E kind, sign, parts : Movement(q, kind, sign, parts) /\ Writes(q, kind, sign, parts)
  BY InsertCases DEF Inserts1
<1>2. CASE ledger' = ledger
  BY <1>1, <1>2, ReleaseBalance
<1>3. ASSUME NEW kind, NEW sign, NEW parts, Movement(q, kind, sign, parts), Writes(q, kind, sign, parts)
      PROVE  BalanceInv'
  <2>1. PICK order, new, n, k, c, all, rows, credits :
          /\ order \in Orders(parts)
          /\ rows = ledger
          /\ c = request[q] /\ n = Len(ledger) /\ k = Cardinality(parts) /\ all = ledger'
          /\ credits = Signed(order, k, sign)
          /\ NewRows(new, k, order, sign, kind, c)
          /\ Joined(all, rows, n, new, k, Row)
    BY <1>3, Zenon DEF Writes
  <2>2. /\ n \in Nat /\ k \in Nat /\ n + k \in Nat /\ rows \in [1..n -> Row]
        /\ all \in [1..n+k -> Row] /\ DOMAIN all = 1..n+k /\ DOMAIN rows = 1..n
        /\ \A i \in 1..n : all[i] = rows[i]
        /\ \A i \in 1..k : all[n + i] = new[i]
        /\ \A i \in 1..n+k : i \in 1..n \/ \E j \in 1..k : i = n + j
    BY <2>1 DEF Joined
  <2>3. credits \in [1..k -> Int] /\ \A i \in 1..k : new[i].credits = credits[i]
                                     /\ new[i].after = c.total + Total(Prefix(credits, i))
    BY <2>1, Zenon DEF NewRows
  <2>4. RowsTo(rows, n) /\ RowsTo(all, n + k) /\ Amounts(new, credits, k)
    BY <2>2, <2>3 DEF RowsTo, Amounts
  <2>5. PICK g : Sums(g, Credits(rows), n)
    BY <2>4, SumsThere
  <2>6. PICK f : Sums(f, credits, k) /\ TotalsTo(credits, f, k)
    <3>1. k \in Nat /\ credits \in [1..k -> Int]
      BY <2>2, <2>3
    <3>2. PICK f \in [0..k -> Int] : Runs(f, credits, k)
      BY <3>1, TotalRuns
    <3>3. Sums(f, credits, k)
      BY <3>2 DEF Sums
    <3> QED
      BY <3>1, <3>3, PrefixSums
  <2>7. PICK h : Sums(h, Credits(all), n + k) /\ Follows(h, g, n, f, k)
    BY <2>1, <2>4, <2>5, <2>6, JoinedSums, Zenon
  <2>8. SumsTo(rows, g, n)
    BY <2>4, <2>5, SumsTold, Zenon
  <2>9. SumsTo(all, h, n + k)
    BY <2>4, <2>7, SumsTold, Zenon
  <2>10. c.total = SumCredits(rows)
    BY <1>1, <2>1, Zenon DEF BalanceInv, SumFresh
  <2>11. c.total = g[n]
    BY <2>8, <2>10, Zenon DEF SumsTo
  <2>12. ASSUME NEW i \in 1..n PROVE all[i].after = SumCredits(SubSeq(all, 1, i))
    <3>1. i \in 0..n /\ i \in 0..n+k
      BY <2>2
    <3>2. rows[i].after = SumCredits(SubSeq(rows, 1, i))
      BY <2>1, <2>2, Zenon DEF BalanceInv, BalanceAfterExact
    <3>3. SumCredits(SubSeq(rows, 1, i)) = g[i] /\ SumCredits(SubSeq(all, 1, i)) = h[i]
      BY <2>8, <2>9, <3>1, Zenon DEF SumsTo
    <3>4. h[i] = g[i] /\ all[i] = rows[i]
      BY <2>2, <2>7, <3>1, Zenon DEF Follows
    <3> QED
      BY <3>2, <3>3, <3>4, Zenon
  <2>13. ASSUME NEW j \in 1..k PROVE all[n + j].after = SumCredits(SubSeq(all, 1, n + j))
    <3>1. j \in 0..k /\ n + j \in 0..n+k
      BY <2>2
    <3>2. Total(Prefix(credits, j)) = f[j]
      BY <2>6, <3>1, Zenon DEF TotalsTo
    <3>3. all[n + j].after = c.total + f[j]
      BY <2>2, <2>3, <3>2, Zenon
    <3>4. h[n + j] = g[n] + f[j] /\ SumCredits(SubSeq(all, 1, n + j)) = h[n + j]
      BY <2>7, <2>9, <3>1, Zenon DEF Follows, SumsTo
    <3> QED
      BY <2>11, <3>3, <3>4, Zenon
  <2>14. \A i \in DOMAIN all : all[i].after = SumCredits(SubSeq(all, 1, i))
    BY <2>2, <2>12, <2>13, ZenonT(60)
  <2>15. BalanceAfterExact'
    BY <2>1, <2>14, Zenon DEF BalanceAfterExact
  <2>16. ASSUME NEW p \in Request, request'[p].pc = "insert" PROVE FALSE
    <3>1. request' = [request EXCEPT ![q] = Idle] /\ request \in [Request -> Call \union {Idle}]
      BY <1>1 DEF Release, LedgerInv, LedgerType
    <3>2. p # q
      BY <2>16, <3>1 DEF Idle
    <3>3. request[p].pc = "insert"
      BY <2>16, <3>1, <3>2
    <3>4. holder = p /\ holder = q
      BY <1>1, <3>3, CallIs DEF CallSound
    <3> QED
      BY <3>2, <3>4
  <2> QED
    BY <2>15, <2>16 DEF BalanceInv, SumFresh
<1> QED
  BY <1>1, <1>2, <1>3, Zenon

LEMMA BalanceStep ==
  ASSUME LedgerInv, LedgerInv', BalanceInv, LedgerAssumption, LedgerAction
  PROVE  BalanceInv'
<1>1. ASSUME NEW q \in Request, Calls(q) PROVE BalanceInv'
  BY <1>1, CallBalance DEF Calls, CallGrant, CallSpend, CallRefund
<1>2. ASSUME NEW q \in Request, GivesUp(q) PROVE BalanceInv'
  BY <1>2, ReleaseBalance DEF GivesUp
<1>3. ASSUME NEW q \in Request, CheckRefund(q) PROVE BalanceInv'
  <2>1. PICK c : c = request[q]
    OBVIOUS
  <2>2. c \in Call /\ ledger' = ledger
    BY <1>3, <2>1, CallIs DEF CheckRefund
  <2>3. PICK d : d = IF RowsOf("refund", c.id) # {} THEN Idle ELSE [c EXCEPT !.pc = "lock", !.at = now]
    OBVIOUS
  <2>4. d.pc # "insert"
    BY <2>2, <2>3 DEF Call, Idle
  <2>5. request' = [request EXCEPT ![q] = d]
    BY <1>3, <2>1, <2>3 DEF CheckRefund
  <2> QED
    BY <2>2, <2>4, <2>5, QuietBalance
<1>4. ASSUME NEW q \in Request, LockOrgAndSumLedger(q) PROVE BalanceInv'
  <2>1. PICK c : c = request[q]
    OBVIOUS
  <2>2. c \in Call /\ ledger' = ledger
    BY <1>4, <2>1, CallIs DEF LockOrgAndSumLedger
  <2>3. PICK d, total : d = [c EXCEPT !.pc = "insert", !.total = total] /\ total = SumCredits(ledger)
    OBVIOUS
  <2>4. d.total = SumCredits(ledger)
    BY <2>2, <2>3 DEF Call
  <2>5. request' = [request EXCEPT ![q] = d]
    BY <1>4, <2>1, <2>3 DEF LockOrgAndSumLedger
  <2> QED
    BY <2>2, <2>4, <2>5, QuietBalance
<1>5. ASSUME NEW q \in Request, AllocateSpend(q) PROVE BalanceInv'
  <2>1. PICK c : c = request[q]
    OBVIOUS
  <2>2. c \in Call /\ ledger' = ledger /\ c.pc = "insert"
    BY <1>5, <2>1, CallIs DEF AllocateSpend
  <2>3. PICK plan : request' = [request EXCEPT ![q].plan = plan] \/ Release(q)
    BY <1>5 DEF AllocateSpend
  <2>4. CASE Release(q)
    BY <2>2, <2>4, ReleaseBalance
  <2>5. CASE request' = [request EXCEPT ![q].plan = plan]
    <3>1. PICK d : d = [c EXCEPT !.plan = plan]
      OBVIOUS
    <3>2. d.total = c.total
      BY <2>2, <3>1 DEF Call
    <3>3. c.total = SumCredits(ledger)
      BY <2>1, <2>2 DEF BalanceInv, SumFresh
    <3>4. request' = [request EXCEPT ![q] = d]
      BY <2>1, <2>5, <3>1
    <3> QED
      BY <2>2, <3>2, <3>3, <3>4, QuietBalance
  <2> QED
    BY <2>3, <2>4, <2>5
<1>6. ASSUME NEW q \in Request, Inserts1(q) PROVE BalanceInv'
  BY <1>6, InsertBalance
<1>7. CASE EraseMember
  <2>1. Unnamed /\ request' = request
    BY <1>7, EraseUnnames DEF LedgerInv, EraseMember
  <2>2. PICK n, all : n = Len(ledger) /\ all = ledger'
    OBVIOUS
  <2>3. n \in Nat /\ ledger \in [1..n -> Row] /\ all \in [1..n -> Row]
        /\ DOMAIN all = 1..n /\ DOMAIN ledger = 1..n
        /\ \A i \in 1..n : all[i].credits = ledger[i].credits /\ all[i].after = ledger[i].after
    <3>1. ledger \in Seq(Row) /\ all \in Seq(Row) /\ Len(all) = n
      BY <2>1, <2>2 DEF LedgerInv, LedgerType, Unnamed
    <3>2. n \in Nat /\ ledger \in [1..n -> Row] /\ all \in [1..n -> Row] /\ DOMAIN all = 1..n /\ DOMAIN ledger = 1..n
      BY <2>2, <3>1, SeqIs
    <3> QED
      BY <2>1, <2>2, <3>2 DEF Unnamed
  <2>4. Credits(all) = Credits(ledger)
    BY <2>3 DEF Credits
  <2>5. PICK s : s = Credits(ledger)
    OBVIOUS
  <2>6. s \in [1..n -> Int]
    BY <2>3, <2>5 DEF Credits, Row
  <2>7. PICK h \in [0..n -> Int] : Runs(h, s, n)
    BY <2>3, <2>6, TotalRuns
  <2>8. SumCredits(ledger) = h[n] /\ \A i \in 0..n : SumCredits(SubSeq(ledger, 1, i)) = h[i]
    BY <2>3, <2>5, <2>7, SumsRun
  <2>9. SumCredits(all) = h[n] /\ \A i \in 0..n : SumCredits(SubSeq(all, 1, i)) = h[i]
    BY <2>3, <2>4, <2>5, <2>7, SumsRun
  <2>10. ASSUME NEW i \in 1..n PROVE all[i].after = SumCredits(SubSeq(all, 1, i))
    <3>1. i \in 0..n
      OBVIOUS
    <3>2. ledger[i].after = SumCredits(SubSeq(ledger, 1, i))
      BY <2>3 DEF BalanceInv, BalanceAfterExact
    <3> QED
      BY <2>3, <2>8, <2>9, <3>1, <3>2, Zenon
  <2>11. BalanceAfterExact'
    BY <2>2, <2>3, <2>10, Zenon DEF BalanceAfterExact
  <2>12. SumFresh'
    <3>1. SumCredits(ledger)' = SumCredits(ledger)
      BY <2>2, <2>8, <2>9
    <3> QED
      BY <2>1, <3>1 DEF BalanceInv, SumFresh
  <2> QED
    BY <2>11, <2>12 DEF BalanceInv
<1>8. CASE Tick \/ UNCHANGED vars
  BY <1>8 DEF Tick, vars, BalanceInv, BalanceAfterExact, SumFresh
<1> QED
  BY <1>1, <1>2, <1>3, <1>4, <1>5, <1>6, <1>7, <1>8 DEF LedgerAction

LEMMA BalanceStart ==
  ASSUME Init
  PROVE  BalanceInv
BY DEF Init, BalanceInv, BalanceAfterExact, SumFresh, Idle

LEMMA TasksKeepLedger ==
  ASSUME LedgerInv, TaskInv, [TasksNext]_<<vars, taskVars>>
  PROVE  LedgerAction /\ LedgerInv' /\ TaskInv'
<1>1. LedgerAction
  BY TasksAssumption, NextIsLedger DEF TaskInv
<1>2. LedgerInv'
  BY <1>1, LedgerAssumption, TypeStep
<1> QED
  BY <1>1, <1>2, LedgerAssumption, TasksAssumption, TaskStep

(* Every row's balance_after is the sum of the rows up to it, whoever      *)
(* inserted at the same time, died holding the lock or was erased          *)
(* (lockOrgAndSumLedger, findLedgerBalanceDrift).                          *)
THEOREM AlwaysBalanceAfterExact == TasksSpec => []BalanceAfterExact
<1>1. TasksInit => LedgerInv /\ TaskInv /\ BalanceInv
  BY LedgerAssumption, TasksAssumption, InitType, TaskStart, BalanceStart DEF TasksInit
<1>2. LedgerInv /\ TaskInv /\ BalanceInv /\ [TasksNext]_<<vars, taskVars>>
        => LedgerInv' /\ TaskInv' /\ BalanceInv'
  BY TasksKeepLedger, LedgerAssumption, BalanceStep
<1>3. BalanceInv => BalanceAfterExact
  BY DEF BalanceInv
<1> QED
  BY <1>1, <1>2, <1>3, PTL DEF TasksSpec

-----------------------------------------------------------------------------
(* No debit takes what is not there. *)

CoverInv == DebitsCovered /\ PlanCovered

(* A plan that what is left at t covers.                                   *)
Covered(plan, t) ==
  \A order \in Orders(plan) : Total(PlanCredits(order)) =< Available(ledger, t)

LEMMA QuietCover ==
  ASSUME LedgerInv, CoverInv, ledger' = ledger, NEW q \in Request, NEW c,
         request' = [request EXCEPT ![q] = c],
         c.pc = "insert" /\ c.kind = "spend" /\ c.plan # {} => Covered(c.plan, c.at)
  PROVE  CoverInv'
<1>1. DebitsCovered'
  BY DEF CoverInv, DebitsCovered
<1>2. ASSUME NEW p \in Request, request'[p].pc = "insert", request'[p].kind = "spend",
             request'[p].plan # {}
      PROVE  \A order \in Orders(request'[p].plan) :
               Total(PlanCredits(order)) =< Available(ledger', request'[p].at)
  <2>1. request \in [Request -> Call \union {Idle}]
    BY DEF LedgerInv, LedgerType
  <2>2. CASE p = q
    <3>1. request'[p] = c
      BY <2>1, <2>2
    <3> QED
      BY <1>2, <3>1, Zenon DEF Covered
  <2>3. CASE p # q
    <3>1. request'[p] = request[p]
      BY <2>1, <2>3
    <3> QED
      BY <1>2, <3>1, Zenon DEF CoverInv, PlanCovered
  <2> QED
    BY <2>2, <2>3
<1>3. PlanCovered'
  BY <1>2, Zenon DEF PlanCovered
<1> QED
  BY <1>1, <1>3 DEF CoverInv

LEMMA ReleaseCover ==
  ASSUME LedgerInv, CoverInv, ledger' = ledger, NEW q \in Request, Release(q)
  PROVE  CoverInv'
<1>1. PICK c : c = Idle
  OBVIOUS
<1>2. request' = [request EXCEPT ![q] = c] /\ c.pc # "insert"
  BY <1>1 DEF Release, Idle
<1> QED
  BY <1>2, QuietCover

LEMMA CallCover ==
  ASSUME LedgerInv, CoverInv, ledger' = ledger, NEW q \in Request, NEW kind, NEW id, NEW plan,
         NEW pc \in {"check", "lock"}, Ask(q, kind, id, pc, plan)
  PROVE  CoverInv'
<1>1. PICK c : c = Asks(kind, id, pc, plan)
  OBVIOUS
<1>2. request' = [request EXCEPT ![q] = c] /\ c.pc # "insert"
  BY <1>1 DEF Ask, Asks
<1> QED
  BY <1>2, QuietCover

LEMMA AllocateCover ==
  ASSUME LedgerInv, CoverInv, LedgerAssumption, NEW q \in Request, AllocateSpend(q)
  PROVE  CoverInv'
<1>1. PICK c, amount, used :
        /\ c = request[q] /\ amount = Amount[c.id]
        /\ used = Consume(ledger, Replay(ledger).left, amount, now)
  OBVIOUS
<1>2. /\ c \in Call /\ CallSound(q, c) /\ c.pc = "insert" /\ c.kind = "spend" /\ ledger' = ledger
  BY <1>1, CallIs DEF AllocateSpend
<1>3. CASE Release(q)
  BY <1>2, <1>3, ReleaseCover
<1>4. CASE /\ Available(ledger, now) >= amount /\ used.unallocated = 0
           /\ request' = [request EXCEPT ![q].plan = PartsOf(ledger, used.taken)]
  <2>1. PICK plan, d : plan = PartsOf(ledger, used.taken) /\ d = [c EXCEPT !.plan = plan]
    OBVIOUS
  <2>2. d.plan = plan /\ d.at = c.at /\ c.at \in Nat
    BY <1>2, <2>1 DEF Call
  <2>3. request' = [request EXCEPT ![q] = d]
    BY <1>1, <1>4, <2>1
  <2>4. PICK n \in Nat : n = Len(ledger) /\ Read(ledger, n)
    BY LedgerIs DEF LedgerInv
  <2>5. amount \in Nat
    BY <1>1, <1>2 DEF LedgerAssumption, CallSound
  <2>6. used.taken \in [1..n -> Nat] /\ Total(used.taken) = amount
    BY <1>1, <1>4, <2>4, <2>5, AllocationType DEF LedgerInv
  <2>7. now \in Nat /\ c.at =< now
    BY <1>2 DEF LedgerInv, LedgerType, CallSound
  <2>8. PICK early, late : early = Available(ledger, c.at) /\ late = Available(ledger, now)
    OBVIOUS
  <2>9. c.at \in Int /\ now \in Int
    BY <2>2, <2>7
  <2>10. late =< early
    BY <2>4, <2>7, <2>8, <2>9, AvailableLater
  <2>11. late \in Nat /\ early \in Nat
    BY <2>4, <2>8, <2>9, AvailableNat
  <2>12. ASSUME NEW order \in Orders(plan) PROVE Total(PlanCredits(order)) =< Available(ledger, c.at)
    <3>1. PICK taken : taken = used.taken
      OBVIOUS
    <3>2. taken \in [1..n -> Nat] /\ Total(taken) = amount
      BY <2>6, <3>1
    <3>3. order \in Orders(PartsOf(ledger, taken))
      BY <2>1, <3>1
    <3>4. PICK x : x = Total(PlanCredits(order))
      OBVIOUS
    <3>5. x =< amount
      BY <3>2, <3>3, <3>4, PlanSum
    <3>6. x \in Int
      <4>1. plan \subseteq Part /\ IsFiniteSet(plan)
        BY <2>1, <2>4, <2>6, PlanType DEF LedgerInv
      <4>2. PICK k : k = Cardinality(plan)
        OBVIOUS
      <4>3. 1 \in Int
        OBVIOUS
      <4>4. PlanCredits(order) \in [1..k -> Nat] /\ k \in Nat
        BY <4>1, <4>2, <4>3, SignedIs, OrderIs
      <4> QED
        BY <3>4, <4>4, TotalNat
    <3>7. x =< early
      BY <1>4, <2>5, <2>8, <2>10, <2>11, <3>5, <3>6
    <3> QED
      BY <2>8, <3>4, <3>7
  <2>13. Covered(d.plan, d.at)
    BY <2>2, <2>12 DEF Covered
  <2> QED
    BY <1>2, <2>3, <2>13, QuietCover
<1>5. \/ Release(q)
      \/ /\ Available(ledger, now) >= amount /\ used.unallocated = 0
         /\ request' = [request EXCEPT ![q].plan = PartsOf(ledger, used.taken)]
  BY <1>1 DEF AllocateSpend, Covers
<1> QED
  BY <1>3, <1>4, <1>5

LEMMA RowsRead ==
  ASSUME NEW n \in Nat, NEW rows \in [1..n -> Row]
  PROVE  Read(rows, n)
<1>1. \A r \in Row : r.credits \in Int /\ r.at \in Int /\ r.expires \in Int
  BY DEF Row
<1> QED
  BY <1>1 DEF Read

LEMMA InsertCover ==
  ASSUME LedgerInv, CoverInv, LedgerAssumption, NEW q \in Request, Inserts1(q)
  PROVE  CoverInv'
<1>1. Release(q) /\ request[q].pc = "insert"
      /\ \/ ledger' = ledger
         \/ \E kind, sign, parts : Movement(q, kind, sign, parts) /\ Writes(q, kind, sign, parts)
  BY InsertCases DEF Inserts1
<1>2. CASE ledger' = ledger
  BY <1>1, <1>2, ReleaseCover
<1>3. ASSUME NEW kind, NEW sign, NEW parts, Movement(q, kind, sign, parts), Writes(q, kind, sign, parts)
      PROVE  CoverInv'
  <2>1. PICK order, new, n, k, c, all, rows :
          /\ order \in Orders(parts)
          /\ rows = ledger /\ all = ledger'
          /\ c = request[q] /\ n = Len(ledger) /\ k = Cardinality(parts)
          /\ NewRows(new, k, order, sign, kind, c)
          /\ Joined(all, rows, n, new, k, Row)
    BY <1>3, Zenon DEF Writes
  <2>2. /\ n \in Nat /\ k \in Nat /\ n + k \in Nat /\ rows \in [1..n -> Row] /\ Len(rows) = n
        /\ all \in [1..n+k -> Row]
    BY <2>1 DEF Joined
  <2>3. \A i \in 1..n : all[i] = rows[i]
    BY <2>1 DEF Joined
  <2>4. \A i \in 1..k : all[n + i] = new[i]
    BY <2>1 DEF Joined
  <2>5. Read(rows, n) /\ Read(all, n + k) /\ Listed(all, n + k)
    BY <2>2, RowsRead, SeqListed
  <2>6. Same(rows, all, n)
    BY <2>3 DEF Same
  <2>7. Replay(rows).debt = 0
    BY <2>1 DEF CoverInv, DebitsCovered
  <2>8. parts \subseteq Part /\ IsFiniteSet(parts) /\ sign \in Int
        /\ (kind = "spend" => sign = -1 /\ parts = c.plan /\ parts # {} /\ c.kind = "spend" /\ c.pc = "insert")
        /\ (kind # "spend" => sign = 1)
    BY <1>3, <2>1 DEF Movement
  <2>9. PICK amounts, signed : amounts = PlanCredits(order) /\ signed = Signed(order, k, sign)
    OBVIOUS
  <2>10. amounts \in [1..k -> Nat]
         /\ \A i \in 1..k : (sign = -1 => signed[i] + amounts[i] = 0) /\ (sign = 1 => signed[i] >= 0)
    BY <2>1, <2>8, <2>9, SignedIs
  <2>11. \A i \in 1..k : new[i].credits = signed[i] /\ (kind = "spend" => new[i].at = c.at)
    BY <2>1, <2>9, Zenon DEF NewRows
  <2>12. Replay(all).debt = 0
    <3>1. CASE kind = "spend"
      <4>1. \A i \in 1..k : all[n + i].credits + amounts[i] = 0 /\ all[n + i].at = c.at
        BY <2>4, <2>8, <2>10, <2>11, <3>1, Zenon
      <4>2. amounts \in [1..k -> Nat]
        BY <2>10
      <4>3. Takes(all, n, k, amounts, c.at)
        BY <4>1, <4>2, Zenon DEF Takes
      <4>4. Total(amounts) =< Available(rows, c.at)
        <5>1. order \in Orders(request[q].plan) /\ request[q].pc = "insert"
              /\ request[q].kind = "spend" /\ request[q].plan # {}
          BY <2>1, <2>8, <3>1, Zenon
        <5> QED
          BY <2>1, <2>9, <5>1, Zenon DEF CoverInv, PlanCovered
      <4>5. c.at \in Int
        <5>1. c \in Call
          BY <1>1, <2>1, CallIs
        <5> QED
          BY <5>1 DEF Call
      <4> QED
        BY <2>2, <2>5, <2>6, <2>7, <4>3, <4>4, <4>5, DebitsFit, Zenon
    <3>2. CASE kind # "spend"
      <4>1. \A i \in 1..k : all[n + i].credits >= 0
        BY <2>4, <2>8, <2>10, <2>11, <3>2, Zenon
      <4>2. Gives0(all, n, k)
        BY <4>1 DEF Gives0
      <4> QED
        BY <2>2, <2>5, <2>6, <2>7, <4>2, GrantsFit, Zenon
    <3> QED
      BY <3>1, <3>2
  <2>13. DebitsCovered'
    BY <2>1, <2>12, Zenon DEF DebitsCovered
  <2>14. ASSUME NEW p \in Request, request'[p].pc = "insert" PROVE FALSE
    <3>1. request' = [request EXCEPT ![q] = Idle] /\ request \in [Request -> Call \union {Idle}]
      BY <1>1 DEF Release, LedgerInv, LedgerType
    <3>2. p # q
      BY <2>14, <3>1 DEF Idle
    <3>3. request[p].pc = "insert"
      BY <2>14, <3>1, <3>2
    <3>4. holder = p /\ holder = q
      BY <1>1, <3>3, CallIs DEF CallSound
    <3> QED
      BY <3>2, <3>4
  <2>15. PlanCovered'
    BY <2>14, Zenon DEF PlanCovered
  <2> QED
    BY <2>13, <2>15 DEF CoverInv
<1> QED
  BY <1>1, <1>2, <1>3, Zenon

LEMMA AvailableSame ==
  ASSUME NEW rows, NEW other, NEW n \in Nat, Len(rows) = n, Len(other) = n,
         Same(rows, other, n), Read(rows, n), NEW t
  PROVE  Available(other, t) = Available(rows, t)
<1>1. PICK left : left = Replay(rows).left
  OBVIOUS
<1>2. Replay(other).left = left
  BY <1>1, ReplaySame
<1>3. left \in [1..n -> Nat]
  BY <1>1, ReplayType DEF State
<1>4. OpenAt(rows, left, t) = OpenAt(other, left, t)
  BY <1>3, OpenAtSame
<1> QED
  BY <1>1, <1>2, <1>4, Zenon DEF Available

LEMMA EraseCover ==
  ASSUME LedgerInv, CoverInv, EraseMember
  PROVE  CoverInv'
<1>1. Unnamed /\ request' = request
  BY EraseUnnames DEF LedgerInv, EraseMember
<1>2. PICK n \in Nat : n = Len(ledger) /\ Read(ledger, n) /\ DOMAIN ledger = 1..n
  BY LedgerIs DEF LedgerInv
<1>3. PICK all : all = ledger'
  OBVIOUS
<1>4. Len(all) = n /\ Same(ledger, all, n)
  BY <1>1, <1>2, <1>3 DEF Unnamed, Same
<1>5. Replay(all) = Replay(ledger)
  BY <1>2, <1>4, ReplaySame
<1>6. \A t : Available(all, t) = Available(ledger, t)
  BY <1>2, <1>4, AvailableSame
<1>7. DebitsCovered'
  BY <1>3, <1>5 DEF CoverInv, DebitsCovered
<1>8. PlanCovered'
  BY <1>1, <1>3, <1>6, Zenon DEF CoverInv, PlanCovered
<1> QED
  BY <1>7, <1>8 DEF CoverInv

LEMMA CoverStep ==
  ASSUME LedgerInv, CoverInv, LedgerAssumption, LedgerAction
  PROVE  CoverInv'
<1>1. ASSUME NEW q \in Request, Calls(q) PROVE CoverInv'
  BY <1>1, CallCover DEF Calls, CallGrant, CallSpend, CallRefund
<1>2. ASSUME NEW q \in Request, GivesUp(q) PROVE CoverInv'
  BY <1>2, ReleaseCover DEF GivesUp
<1>3. ASSUME NEW q \in Request, CheckRefund(q) PROVE CoverInv'
  <2>1. PICK c : c = request[q]
    OBVIOUS
  <2>2. c \in Call /\ ledger' = ledger
    BY <1>3, <2>1, CallIs DEF CheckRefund
  <2>3. PICK d : d = IF RowsOf("refund", c.id) # {} THEN Idle ELSE [c EXCEPT !.pc = "lock", !.at = now]
    OBVIOUS
  <2>4. d.pc # "insert"
    BY <2>2, <2>3 DEF Call, Idle
  <2>5. request' = [request EXCEPT ![q] = d]
    BY <1>3, <2>1, <2>3 DEF CheckRefund
  <2> QED
    BY <2>2, <2>4, <2>5, QuietCover
<1>4. ASSUME NEW q \in Request, LockOrgAndSumLedger(q) PROVE CoverInv'
  <2>1. PICK c : c = request[q]
    OBVIOUS
  <2>2. c \in Call /\ ledger' = ledger /\ c.pc = "lock" /\ CallSound(q, c)
    BY <1>4, <2>1, CallIs DEF LockOrgAndSumLedger
  <2>3. PICK d : d = [c EXCEPT !.pc = "insert", !.total = SumCredits(ledger)]
    OBVIOUS
  <2>4. d.kind = c.kind /\ d.plan = c.plan
    BY <2>2, <2>3 DEF Call
  <2>5. request' = [request EXCEPT ![q] = d]
    BY <1>4, <2>1, <2>3 DEF LockOrgAndSumLedger
  <2>6. d.kind = "spend" => d.plan = {}
    BY <2>2, <2>4 DEF CallSound
  <2> QED
    BY <2>2, <2>5, <2>6, QuietCover
<1>5. ASSUME NEW q \in Request, AllocateSpend(q) PROVE CoverInv'
  BY <1>5, AllocateCover
<1>6. ASSUME NEW q \in Request, Inserts1(q) PROVE CoverInv'
  BY <1>6, InsertCover
<1>7. CASE EraseMember
  BY <1>7, EraseCover
<1>8. CASE Tick \/ UNCHANGED vars
  BY <1>8 DEF Tick, vars, CoverInv, DebitsCovered, PlanCovered
<1> QED
  BY <1>1, <1>2, <1>3, <1>4, <1>5, <1>6, <1>7, <1>8 DEF LedgerAction

LEMMA CoverStart ==
  ASSUME Init
  PROVE  CoverInv
<1>1. PICK h : h = [k \in {0} |-> Start]
  OBVIOUS
<1>2. PICK n \in Nat : n = 0
  OBVIOUS
<1>3. Len(ledger) = n /\ History(h, ledger, n)
  BY <1>1, <1>2 DEF Init, History
<1>4. Replay(ledger) = h[n]
  BY <1>3, ReplayBy
<1>5. Replay(ledger) = Start
  BY <1>1, <1>2, <1>4
<1>6. DebitsCovered
  BY <1>5 DEF DebitsCovered, Start
<1>7. PlanCovered
  BY DEF Init, PlanCovered, Idle
<1> QED
  BY <1>6, <1>7 DEF CoverInv

(* No credit is spent twice, or after it expired: replayed at the instants *)
(* they were written, the grants cover every debit, however long a spend   *)
(* waited between its created_at, its lock and its insertion               *)
(* (insertSpendCreditIfSufficient, calculateCreditBalance).                *)
THEOREM AlwaysDebitsCovered == TasksSpec => []DebitsCovered
<1>1. TasksInit => LedgerInv /\ TaskInv /\ CoverInv
  BY LedgerAssumption, TasksAssumption, InitType, TaskStart, CoverStart DEF TasksInit
<1>2. LedgerInv /\ TaskInv /\ CoverInv /\ [TasksNext]_<<vars, taskVars>>
        => LedgerInv' /\ TaskInv' /\ CoverInv'
  BY TasksKeepLedger, LedgerAssumption, CoverStep
<1>3. CoverInv => DebitsCovered
  BY DEF CoverInv
<1> QED
  BY <1>1, <1>2, <1>3, PTL DEF TasksSpec

-----------------------------------------------------------------------------
(* What a spend was charged, and what a refund gives back.  Sums first: a  *)
(* sum that goes on with zeros, and one that is taken by rows or columns.  *)

Padded(n, k, s, u) ==
  /\ n \in Nat /\ k \in Nat /\ s \in [1..n -> Int] /\ u \in [1..n+k -> Int]
  /\ \A i \in 1..n+k : u[i] = IF i \in 1..n THEN s[i] ELSE 0

LEMMA TotalPad ==
  ASSUME NEW n, NEW k, NEW s, NEW u, Padded(n, k, s, u)
  PROVE  Total(u) = Total(s)
<1> SUFFICES ASSUME n \in Nat, k \in Nat, s \in [1..n -> Int], u \in [1..n+k -> Int],
                    \A i \in 1..n+k : u[i] = IF i \in 1..n THEN s[i] ELSE 0
             PROVE  Total(u) = Total(s)
  BY DEF Padded
<1>1. PICK g \in [0..n -> Int] : Runs(g, s, n) /\ Total(s) = g[n]
  BY TotalRuns
<1>2. PICK m \in Nat : m = n + k
  OBVIOUS
<1> DEFINE h == [i \in 0..m |-> IF i =< n THEN g[i] ELSE g[n]]
<1>3. h[0] = 0
  BY <1>1 DEF Runs
<1>4. ASSUME NEW i \in 1..m PROVE h[i] = h[i - 1] + u[i]
  <2>1. CASE i =< n
    <3>1. i \in 1..n /\ i - 1 \in 0..n /\ i \in 0..n /\ i \in 0..m /\ i - 1 \in 0..m /\ i - 1 =< n
      BY <1>2, <2>1
    <3>2. g[i] = g[i - 1] + s[i] /\ u[i] = s[i]
      BY <1>1, <1>2, <3>1 DEF Runs
    <3> QED
      BY <2>1, <3>1, <3>2
  <2>2. CASE ~(i =< n)
    <3>1. i \notin 1..n /\ i \in 0..m /\ i - 1 \in 0..m /\ (i - 1 =< n => i - 1 = n)
      BY <1>2, <2>2
    <3>2. h[i] = g[n] /\ h[i - 1] = g[n] /\ u[i] = 0
      BY <1>2, <2>2, <3>1
    <3>3. g[n] \in Int
      BY <1>1
    <3> QED
      BY <3>2, <3>3
  <2> QED
    BY <2>1, <2>2
<1>5. h[m] = g[n]
  BY <1>2
<1> HIDE DEF h
<1>6. Runs(h, u, m)
  BY <1>3, <1>4 DEF Runs
<1>7. Total(u) = h[m]
  BY <1>2, <1>6, TotalBy
<1> QED
  BY <1>1, <1>5, <1>7, Zenon

(* A table of n rows and w columns. *)
Table(M, n, w) == n \in Nat /\ w \in Nat /\ M \in [1..n -> [1..w -> Int]]
Column(M, m, b) == [i \in 1..m |-> M[i][b]]
Columns(M, m, w) == [b \in 1..w |-> Total(Column(M, m, b))]
RowSums(M, m) == [i \in 1..m |-> Total(M[i])]

LEMMA ColumnType ==
  ASSUME NEW M, NEW n, NEW w, Table(M, n, w), NEW m \in 0..n, NEW b \in 1..w
  PROVE  Column(M, m, b) \in [1..m -> Int] /\ m \in Nat
<1>1. \A i \in 1..m : i \in 1..n
  BY DEF Table
<1>2. ASSUME NEW i \in 1..m PROVE M[i][b] \in Int
  <2>1. M[i] \in [1..w -> Int]
    BY <1>1 DEF Table
  <2> QED
    BY <2>1
<1>3. m \in Nat
  BY DEF Table
<1> QED
  BY <1>2, <1>3 DEF Column

LEMMA RowSumsType ==
  ASSUME NEW M, NEW n, NEW w, Table(M, n, w), NEW m \in 0..n
  PROVE  RowSums(M, m) \in [1..m -> Int] /\ m \in Nat
<1>1. ASSUME NEW i \in 1..m PROVE Total(M[i]) \in Int
  <2>1. PICK f : f = M[i]
    OBVIOUS
  <2>2. f \in [1..w -> Int] /\ w \in Nat
    BY <2>1 DEF Table
  <2>3. Total(f) \in Int
    BY <2>2, TotalInt
  <2> QED
    BY <2>1, <2>3
<1>2. m \in Nat
  BY DEF Table
<1> QED
  BY <1>1, <1>2 DEF RowSums

(* The sum of the columns of m rows and one is what m rows come to, and    *)
(* the row.                                                                *)
LEMMA ColumnsMore ==
  ASSUME NEW M, NEW n, NEW w, Table(M, n, w), NEW m \in 0..n-1
  PROVE  Total(Columns(M, m + 1, w)) = Total(Columns(M, m, w)) + Total(M[m + 1])
<1>1. n \in Nat /\ w \in Nat /\ m \in Nat /\ m \in 0..n /\ m + 1 \in 0..n /\ m + 1 \in 1..n
  BY DEF Table
<1>2. PICK r, s, u : r = M[m + 1] /\ s = Columns(M, m, w) /\ u = Columns(M, m + 1, w)
  OBVIOUS
<1>3. r \in [1..w -> Int]
  BY <1>1, <1>2 DEF Table
<1>4. ASSUME NEW b \in 1..w
      PROVE  /\ Total(Column(M, m, b)) \in Int /\ Total(Column(M, m + 1, b)) \in Int
             /\ Total(Column(M, m + 1, b)) = Total(Column(M, m, b)) + r[b]
  <2>1. PICK x, y : x = Column(M, m, b) /\ y = Column(M, m + 1, b)
    OBVIOUS
  <2>2. x \in [1..m -> Int] /\ y \in [1..m+1 -> Int]
    BY <1>1, <2>1, ColumnType
  <2>3. (\A i \in 1..m : y[i] = x[i]) /\ y[m + 1] = r[b]
    BY <1>1, <1>2, <2>1 DEF Column
  <2>4. Total(y) = Total(x) + y[m + 1]
    BY <1>1, <2>2, <2>3, TotalLonger
  <2>5. Total(x) \in Int /\ Total(y) \in Int
    <3>1. m + 1 \in Nat
      BY <1>1
    <3> QED
      BY <1>1, <2>2, <3>1, TotalInt
  <2> QED
    BY <2>1, <2>3, <2>4, <2>5, Zenon
<1>5. s \in [1..w -> Int] /\ u \in [1..w -> Int] /\ \A b \in 1..w : u[b] = s[b] + r[b]
  BY <1>2, <1>4 DEF Columns
<1>6. Plus(w, s, r, u)
  BY <1>1, <1>3, <1>5, Zenon DEF Plus
<1>7. Total(u) = Total(s) + Total(r)
  BY <1>6, TotalPlus
<1> QED
  BY <1>2, <1>7, Zenon

LEMMA RowSumsMore ==
  ASSUME NEW M, NEW n, NEW w, Table(M, n, w), NEW m \in 0..n-1
  PROVE  Total(RowSums(M, m + 1)) = Total(RowSums(M, m)) + Total(M[m + 1])
<1>1. n \in Nat /\ m \in Nat /\ m \in 0..n /\ m + 1 \in 0..n
  BY DEF Table
<1>2. PICK s, u : s = RowSums(M, m) /\ u = RowSums(M, m + 1)
  OBVIOUS
<1>3. s \in [1..m -> Int] /\ u \in [1..m+1 -> Int]
  BY <1>1, <1>2, RowSumsType
<1>4. (\A i \in 1..m : u[i] = s[i]) /\ u[m + 1] = Total(M[m + 1])
  BY <1>1, <1>2 DEF RowSums
<1>5. Total(u) = Total(s) + u[m + 1]
  BY <1>1, <1>3, <1>4, TotalLonger
<1> QED
  BY <1>2, <1>4, <1>5, Zenon

LEMMA RowsAndColumns ==
  ASSUME NEW M, NEW n, NEW w, Table(M, n, w)
  PROVE  Total(Columns(M, n, w)) = Total(RowSums(M, n))
<1> DEFINE P(m) == Total(Columns(M, m, w)) = Total(RowSums(M, m))
           S == {m \in Nat : m =< n => P(m)}
<1>0. n \in Nat /\ w \in Nat
  BY DEF Table
<1>1. P(0)
  <2>1. PICK c, r : c = Columns(M, 0, w) /\ r = RowSums(M, 0)
    OBVIOUS
  <2>2. r \in [1..0 -> Int]
    BY <1>0, <2>1, RowSumsType
  <2>3. Total(r) = 0
    <3>1. 0 \in Nat /\ \A i \in 1..0 : r[i] = 0
      OBVIOUS
    <3> QED
      BY <2>2, <3>1, TotalNone
  <2>4. ASSUME NEW b \in 1..w PROVE Total(Column(M, 0, b)) = 0
    <3>1. PICK x : x = Column(M, 0, b)
      OBVIOUS
    <3>2. x \in [1..0 -> Int]
      BY <1>0, <3>1, ColumnType
    <3>3. 0 \in Nat /\ \A i \in 1..0 : x[i] = 0
      OBVIOUS
    <3>4. Total(x) = 0
      BY <3>2, <3>3, TotalNone
    <3> QED
      BY <3>1, <3>4
  <2>5. c \in [1..w -> Int] /\ \A b \in 1..w : c[b] = 0
    BY <2>1, <2>4 DEF Columns
  <2>6. Total(c) = 0
    BY <1>0, <2>5, TotalNone
  <2> QED
    BY <2>1, <2>3, <2>6
<1>2. ASSUME NEW m \in Nat, m + 1 =< n, P(m) PROVE P(m + 1)
  <2>1. m \in 0..n-1
    BY <1>0, <1>2
  <2>2. Total(Columns(M, m + 1, w)) = Total(Columns(M, m, w)) + Total(M[m + 1])
    BY <2>1, ColumnsMore
  <2>3. Total(RowSums(M, m + 1)) = Total(RowSums(M, m)) + Total(M[m + 1])
    BY <2>1, RowSumsMore
  <2> QED
    BY <1>2, <2>2, <2>3, Zenon
<1> HIDE DEF P
<1>3. 0 \in S
  BY <1>1
<1>4. ASSUME NEW m \in Nat, m \in S PROVE m + 1 \in S
  BY <1>0, <1>2, <1>4
<1> HIDE DEF S
<1>5. n \in S
  BY <1>0, <1>3, <1>4, Induction
<1> QED
  BY <1>5 DEF S, P

(* A longer ledger: the first n rows are the same as far as the replay and *)
(* their terms go.                                                         *)
Longer(rows, all, n, k) ==
  /\ n \in Nat /\ k \in Nat /\ n + k \in Nat
  /\ rows \in [1..n -> Row] /\ all \in [1..n+k -> Row]
  /\ \A i \in 1..n : /\ i \in 1..n+k
                     /\ rows[i].credits = all[i].credits
                     /\ rows[i].at = all[i].at
                     /\ rows[i].expires = all[i].expires
                     /\ rows[i].order = all[i].order

LEMMA LongerIs ==
  ASSUME NEW rows, NEW all, NEW n, NEW k, Longer(rows, all, n, k)
  PROVE  /\ n \in Nat /\ n + k \in Nat /\ Len(rows) = n /\ Len(all) = n + k
         /\ DOMAIN rows = 1..n /\ DOMAIN all = 1..n+k
         /\ Read(rows, n) /\ Read(all, n + k) /\ Same(rows, all, n)
         /\ \A i \in 1..n : i \in 1..n+k /\ TermsOf(all[i]) = TermsOf(rows[i])
<1>1. /\ n \in Nat /\ k \in Nat /\ n + k \in Nat
      /\ rows \in [1..n -> Row] /\ all \in [1..n+k -> Row]
  BY DEF Longer
<1>2. Len(rows) = n /\ Len(all) = n + k /\ DOMAIN rows = 1..n /\ DOMAIN all = 1..n+k
  BY <1>1, SeqOf
<1>3. Read(rows, n) /\ Read(all, n + k)
  BY <1>1, RowsRead
<1>4. Same(rows, all, n)
  BY Zenon DEF Longer, Same
<1>5. \A i \in 1..n : i \in 1..n+k /\ TermsOf(all[i]) = TermsOf(rows[i])
  BY Zenon DEF Longer, TermsOf
<1> QED
  BY <1>1, <1>2, <1>3, <1>4, <1>5

(* A row that is entered leaves what the rows before it took.              *)
LEMMA EnterKeeps ==
  ASSUME NEW n \in Nat, NEW rows, NEW s, State(rows, s, n)
  PROVE  \A i \in 1..n : Enter(rows, s, n + 1).taken[i] = s.taken[i]
<1>1. PICK x : Enter(rows, s, n + 1).taken = Append(s.taken, x)
  <2>1. CASE rows[n + 1].credits > 0
    <3>1. PICK e : e = Enter(rows, s, n + 1)
      OBVIOUS
    <3>2. e.taken = Append(s.taken, <<>>)
      BY <2>1, <3>1, EnterGrant
    <3> QED
      BY <3>1, <3>2
  <2>2. CASE ~(rows[n + 1].credits > 0)
    <3>1. PICK e, used : /\ e = Enter(rows, s, n + 1)
                         /\ used = Consume(rows, s.left, -rows[n + 1].credits, rows[n + 1].at)
      OBVIOUS
    <3>2. Debited(e, s, used)
      BY <2>2, <3>1, EnterDebit
    <3>3. e.taken = Append(s.taken, used.taken)
      BY <3>2 DEF Debited
    <3> QED
      BY <3>1, <3>3
  <2> QED
    BY <2>1, <2>2
<1>2. PICK T, f : T = Seq(Nat) \union {x} /\ f = s.taken
  OBVIOUS
<1>3. f \in [1..n -> T] /\ x \in T
  BY <1>2 DEF State
<1>4. Extends(Append(f, x), f, x, n, T)
  BY <1>3, Appended
<1> QED
  BY <1>1, <1>2, <1>4, Zenon DEF Extends

LEMMA HistoryKeeps ==
  ASSUME NEW rows, NEW w \in Nat, Read(rows, w), NEW h, History(h, rows, w), NEW n \in 0..w
  PROVE  \A i \in 1..n : h[w].taken[i] = h[n].taken[i]
<1> DEFINE P(m) == \A i \in 1..n : h[n + m].taken[i] = h[n].taken[i]
           S == {m \in Nat : n + m =< w => P(m)}
<1>1. P(0)
  OBVIOUS
<1>2. ASSUME NEW m \in Nat, n + (m + 1) =< w, P(m) PROVE P(m + 1)
  <2>1. PICK j \in Nat : j = n + m
    OBVIOUS
  <2>2. j + 1 \in 1..w /\ (j + 1) - 1 = j /\ n + (m + 1) = j + 1 /\ \A i \in 1..n : i \in 1..j
    BY <1>2, <2>1
  <2>3. History(h, rows, j)
    <3>1. \A i \in 1..j : i \in 1..w
      BY <1>2, <2>1
    <3> QED
      BY <3>1, Zenon DEF History
  <2>4. Read(rows, j)
    BY <2>2 DEF Read
  <2>5. State(rows, h[j], j)
    BY <2>3, <2>4, HistoryState
  <2>6. h[j + 1] = Enter(rows, h[j], j + 1)
    BY <2>2, Zenon DEF History
  <2>7. \A i \in 1..j : h[j + 1].taken[i] = h[j].taken[i]
    BY <2>5, <2>6, EnterKeeps
  <2>8. \A i \in 1..n : h[j + 1].taken[i] = h[n].taken[i]
    BY <1>2, <2>1, <2>2, <2>7, Zenon
  <2> QED
    BY <2>2, <2>8
<1> HIDE DEF P
<1>3. 0 \in S
  BY <1>1
<1>4. ASSUME NEW m \in Nat, m \in S PROVE m + 1 \in S
  BY <1>2, <1>4
<1> HIDE DEF S
<1>5. PICK m \in Nat : m = w - n
  OBVIOUS
<1>6. m \in S
  BY <1>3, <1>4, Induction
<1>7. n + m = w
  BY <1>5
<1>8. P(m)
  BY <1>6, <1>7 DEF S
<1> QED
  BY <1>7, <1>8 DEF P

(* What a debit consumed does not change with what is written after it.    *)
LEMMA TakenKept ==
  ASSUME NEW rows, NEW all, NEW n, NEW k, Longer(rows, all, n, k)
  PROVE  \A i \in 1..n : Replay(all).taken[i] = Replay(rows).taken[i]
<1>1. /\ n \in Nat /\ n + k \in Nat /\ Len(rows) = n /\ Len(all) = n + k
      /\ Read(rows, n) /\ Read(all, n + k) /\ Same(rows, all, n)
  BY LongerIs
<1>2. PICK w \in Nat : w = n + k
  BY <1>1
<1>3. n \in 0..w /\ \A i \in 1..n : i \in 1..w
  BY <1>2 DEF Longer
<1>4. PICK h : History(h, all, w) /\ Replay(all) = h[w]
  BY <1>1, <1>2, ReplayHistory
<1>5. PICK g : History(g, rows, n) /\ Replay(rows) = g[n]
  BY <1>1, ReplayHistory
<1>6. History(g, all, n)
  BY <1>1, <1>5, HistorySame
<1>7. History(h, all, n)
  BY <1>3, <1>4, Zenon DEF History
<1>8. g[n] = h[n]
  BY <1>1, <1>6, <1>7, HistoryUnique
<1>9. Read(all, w)
  BY <1>1, <1>2
<1>10. \A i \in 1..n : h[w].taken[i] = h[n].taken[i]
  BY <1>3, <1>4, <1>9, HistoryKeeps
<1> QED
  BY <1>4, <1>5, <1>8, <1>10, Zenon

(* What the rows S, debits all, took from the buckets of some terms.       *)
Shares(rows, taken, S, t) == [i \in DOMAIN rows |-> IF i \in S THEN OfTerms(rows, taken[i], t) ELSE 0]
Owes(rows, S, t) == Total(Shares(rows, Replay(rows).taken, S, t))

Debits(rows, n, S) == S \subseteq 1..n /\ \A i \in S : rows[i].credits =< 0
ReadTo(rows, n) == n \in Nat /\ Len(rows) = n /\ DOMAIN rows = 1..n /\ Read(rows, n)

LEMMA DebitTakes ==
  ASSUME NEW rows, NEW n, ReadTo(rows, n), NEW S, Debits(rows, n, S), NEW i \in S
  PROVE  i \in 1..n /\ i - 1 \in Nat /\ Replay(rows).taken[i] \in [1..i-1 -> Nat]
<1>1. i \in 1..n /\ rows[i].credits =< 0
  BY DEF Debits
<1>2. n \in Nat /\ Len(rows) = n /\ Read(rows, n)
  BY DEF ReadTo
<1>3. State(rows, Replay(rows), n)
  BY <1>2, ReplayType
<1>4. i - 1 \in Nat
  BY <1>1, <1>2
<1> QED
  BY <1>1, <1>3, <1>4 DEF State

LEMMA SharesType ==
  ASSUME NEW rows, NEW n, ReadTo(rows, n), NEW S, Debits(rows, n, S), NEW t
  PROVE  Shares(rows, Replay(rows).taken, S, t) \in [1..n -> Nat]
<1>1. PICK taken : taken = Replay(rows).taken
  OBVIOUS
<1>2. ASSUME NEW i \in S PROVE OfTerms(rows, taken[i], t) \in Nat
  <2>1. PICK f, m : f = taken[i] /\ m = i - 1
    OBVIOUS
  <2>2. m \in Nat /\ f \in [1..m -> Nat]
    BY <1>1, <2>1, DebitTakes
  <2>3. OfTerms(rows, f, t) \in Nat
    BY <2>2, OfTermsNat
  <2> QED
    BY <2>1, <2>3
<1>3. DOMAIN rows = 1..n
  BY DEF ReadTo
<1> QED
  BY <1>1, <1>2, <1>3 DEF Shares

LEMMA OwesNat ==
  ASSUME NEW rows, NEW n, ReadTo(rows, n), NEW S, Debits(rows, n, S), NEW t
  PROVE  Owes(rows, S, t) \in Nat
<1>1. PICK s : s = Shares(rows, Replay(rows).taken, S, t)
  OBVIOUS
<1>2. s \in [1..n -> Nat] /\ n \in Nat
  BY <1>1, SharesType DEF ReadTo
<1>3. Total(s) \in Nat
  BY <1>2, TotalNat
<1> QED
  BY <1>1, <1>3 DEF Owes

LEMMA LongerRead ==
  ASSUME NEW rows, NEW all, NEW n, NEW k, Longer(rows, all, n, k)
  PROVE  ReadTo(rows, n) /\ ReadTo(all, n + k)
BY LongerIs DEF ReadTo

LEMMA LongerDebits ==
  ASSUME NEW rows, NEW all, NEW n, NEW k, Longer(rows, all, n, k), NEW S, Debits(rows, n, S)
  PROVE  Debits(all, n + k, S)
BY Zenon DEF Longer, Debits

(* Nothing that is written later changes what a spend was charged.         *)
LEMMA OwesKept ==
  ASSUME NEW rows, NEW all, NEW n, NEW k, Longer(rows, all, n, k),
         NEW S, Debits(rows, n, S), NEW t
  PROVE  Owes(all, S, t) = Owes(rows, S, t)
<1>1. PICK taken, after, s, u :
        /\ taken = Replay(rows).taken /\ after = Replay(all).taken
        /\ s = Shares(rows, taken, S, t) /\ u = Shares(all, after, S, t)
  OBVIOUS
<1>2. /\ n \in Nat /\ k \in Nat /\ DOMAIN rows = 1..n /\ DOMAIN all = 1..n+k
      /\ \A i \in 1..n : i \in 1..n+k /\ TermsOf(all[i]) = TermsOf(rows[i])
  <2>1. k \in Nat
    BY DEF Longer
  <2> QED
    BY <2>1, LongerIs
<1>3. \A i \in 1..n : after[i] = taken[i]
  BY <1>1, TakenKept
<1>4. ASSUME NEW i \in S PROVE i \in 1..n /\ OfTerms(all, after[i], t) = OfTerms(rows, taken[i], t)
  <2>1. PICK f, m : f = taken[i] /\ m = i - 1
    OBVIOUS
  <2>2. i \in 1..n /\ m \in Nat /\ f \in [1..m -> Nat]
    BY <1>1, <2>1, LongerRead, DebitTakes
  <2>3. DOMAIN f = 1..m /\ \A j \in 1..m : j \in 1..n
    BY <1>2, <2>1, <2>2
  <2>4. [j \in DOMAIN f |-> IF TermsOf(all[j]) = t THEN f[j] ELSE 0]
          = [j \in DOMAIN f |-> IF TermsOf(rows[j]) = t THEN f[j] ELSE 0]
    BY <1>2, <2>3, Zenon
  <2>5. OfTerms(all, f, t) = OfTerms(rows, f, t)
    BY <2>4, Zenon DEF OfTerms
  <2>6. after[i] = f
    BY <1>3, <2>1, <2>2
  <2> QED
    BY <2>1, <2>2, <2>5, <2>6, Zenon
<1>5. s \in [1..n -> Int] /\ u \in [1..n+k -> Int]
  <2>1. s \in [1..n -> Nat]
    BY <1>1, LongerRead, SharesType
  <2>2. u \in [1..n+k -> Nat]
    BY <1>1, LongerRead, LongerDebits, SharesType
  <2> QED
    BY <2>1, <2>2
<1>6. ASSUME NEW i \in 1..n+k PROVE u[i] = IF i \in 1..n THEN s[i] ELSE 0
  <2>1. u[i] = IF i \in S THEN OfTerms(all, after[i], t) ELSE 0
    BY <1>1, <1>2, Zenon DEF Shares
  <2>2. i \in 1..n => s[i] = IF i \in S THEN OfTerms(rows, taken[i], t) ELSE 0
    BY <1>1, <1>2, Zenon DEF Shares
  <2> QED
    BY <1>4, <2>1, <2>2, Zenon
<1>7. Total(u) = Total(s)
  <2>1. Padded(n, k, s, u)
    BY <1>2, <1>5, <1>6, Zenon DEF Padded
  <2> QED
    BY <2>1, TotalPad
<1> QED
  BY <1>1, <1>7, Zenon DEF Owes

(* What the rows S brought, of some terms.                                 *)
Brought(rows, S) == [i \in DOMAIN rows |-> IF i \in S THEN rows[i].credits ELSE 0]
Bring(rows, S, t) == OfTerms(rows, Brought(rows, S), t)
Brings(rows, S, t) == [i \in DOMAIN rows |-> IF i \in S /\ TermsOf(rows[i]) = t THEN rows[i].credits ELSE 0]

Among(S, n) == S \subseteq 1..n

LEMMA BringIs ==
  ASSUME NEW rows, NEW n \in Nat, rows \in [1..n -> Row], NEW S, NEW t
  PROVE  Bring(rows, S, t) = Total(Brings(rows, S, t)) /\ Brings(rows, S, t) \in [1..n -> Int]
<1>1. DOMAIN rows = 1..n
  OBVIOUS
<1>2. PICK f, g : f = Brought(rows, S) /\ g = Brings(rows, S, t)
  OBVIOUS
<1>3. DOMAIN f = 1..n /\ \A i \in 1..n : f[i] = IF i \in S THEN rows[i].credits ELSE 0
  BY <1>1, <1>2 DEF Brought
<1>4. g = [i \in 1..n |-> IF i \in S /\ TermsOf(rows[i]) = t THEN rows[i].credits ELSE 0]
  BY <1>1, <1>2 DEF Brings
<1>5. g = [i \in 1..n |-> IF TermsOf(rows[i]) = t THEN f[i] ELSE 0]
  BY <1>3, <1>4
<1>6. [i \in DOMAIN f |-> IF TermsOf(rows[i]) = t THEN f[i] ELSE 0] = g
  BY <1>3, <1>5, Zenon
<1>7. Bring(rows, S, t) = Total(g)
  BY <1>2, <1>6, Zenon DEF Bring, OfTerms
<1>8. \A i \in 1..n : rows[i].credits \in Int
  BY DEF Row
<1>9. g \in [1..n -> Int]
  BY <1>4, <1>8
<1> QED
  BY <1>2, <1>7, <1>9, Zenon

LEMMA BringKept ==
  ASSUME NEW rows, NEW all, NEW n, NEW k, Longer(rows, all, n, k), NEW S, Among(S, n), NEW t
  PROVE  Bring(all, S, t) = Bring(rows, S, t)
<1>0. S \subseteq 1..n
  BY DEF Among
<1>1. /\ n \in Nat /\ k \in Nat /\ n + k \in Nat
      /\ rows \in [1..n -> Row] /\ all \in [1..n+k -> Row]
      /\ DOMAIN rows = 1..n /\ DOMAIN all = 1..n+k
      /\ \A i \in 1..n : i \in 1..n+k /\ TermsOf(all[i]) = TermsOf(rows[i])
      /\ \A i \in 1..n : all[i].credits = rows[i].credits
  <2>1. /\ k \in Nat /\ rows \in [1..n -> Row] /\ all \in [1..n+k -> Row]
        /\ \A i \in 1..n : all[i].credits = rows[i].credits
    BY Zenon DEF Longer
  <2>2. /\ n \in Nat /\ n + k \in Nat /\ DOMAIN rows = 1..n /\ DOMAIN all = 1..n+k
        /\ \A i \in 1..n : i \in 1..n+k /\ TermsOf(all[i]) = TermsOf(rows[i])
    BY LongerIs
  <2> QED
    BY <2>1, <2>2, Zenon
<1>2. PICK s, u : s = Brings(rows, S, t) /\ u = Brings(all, S, t)
  OBVIOUS
<1>3. s \in [1..n -> Int] /\ Bring(rows, S, t) = Total(s)
  BY <1>1, <1>2, BringIs
<1>4. u \in [1..n+k -> Int] /\ Bring(all, S, t) = Total(u)
  BY <1>1, <1>2, BringIs
<1>5. ASSUME NEW i \in 1..n+k PROVE u[i] = IF i \in 1..n THEN s[i] ELSE 0
  <2>1. u[i] = IF i \in S /\ TermsOf(all[i]) = t THEN all[i].credits ELSE 0
    BY <1>1, <1>2, Zenon DEF Brings
  <2>2. i \in 1..n => s[i] = IF i \in S /\ TermsOf(rows[i]) = t THEN rows[i].credits ELSE 0
    BY <1>1, <1>2, Zenon DEF Brings
  <2> QED
    BY <1>0, <1>1, <2>1, <2>2, Zenon
<1>6. Total(u) = Total(s)
  <2>1. Padded(n, k, s, u)
    BY <1>1, <1>3, <1>4, <1>5, Zenon DEF Padded
  <2> QED
    BY <2>1, TotalPad
<1> QED
  BY <1>3, <1>4, <1>6, Zenon

(* What a refund of the rows S gives back: what they took from every       *)
(* bucket.                                                                 *)
TookFrom(rows, taken, S, b) == [i \in DOMAIN rows |-> IF i \in S /\ b < i THEN taken[i][b] ELSE 0]
FromBuckets(rows, S) == [b \in DOMAIN rows |-> Total(TookFrom(rows, Replay(rows).taken, S, b))]

(* The table of what each row took from each bucket of some terms.         *)
Took(rows, taken, n, S, t) ==
  [i \in 1..n |-> [b \in 1..n |-> IF i \in S /\ b < i /\ TermsOf(rows[b]) = t THEN taken[i][b] ELSE 0]]

LEMMA TookTable ==
  ASSUME NEW rows, NEW n, ReadTo(rows, n), NEW S, Debits(rows, n, S), NEW t,
         NEW taken, taken = Replay(rows).taken, NEW M, M = Took(rows, taken, n, S, t)
  PROVE  /\ Table(M, n, n)
         /\ \A i, b \in 1..n : M[i][b] = IF i \in S /\ b < i /\ TermsOf(rows[b]) = t
                                           THEN taken[i][b] ELSE 0
<1>1. n \in Nat
  BY DEF ReadTo
<1>2. ASSUME NEW i \in 1..n, NEW b \in 1..n, i \in S, b < i PROVE taken[i][b] \in Nat
  <2>1. i - 1 \in Nat /\ taken[i] \in [1..i-1 -> Nat]
    BY <1>2, DebitTakes
  <2>2. b \in 1..i-1
    BY <1>1, <1>2
  <2> QED
    BY <2>1, <2>2
<1>3. ASSUME NEW i \in 1..n, NEW b \in 1..n
      PROVE  (IF i \in S /\ b < i /\ TermsOf(rows[b]) = t THEN taken[i][b] ELSE 0) \in Int
  BY <1>2
<1>4. M \in [1..n -> [1..n -> Int]]
  BY <1>3 DEF Took
<1>5. \A i, b \in 1..n : M[i][b] = IF i \in S /\ b < i /\ TermsOf(rows[b]) = t
                                     THEN taken[i][b] ELSE 0
  BY DEF Took
<1> QED
  BY <1>1, <1>4, <1>5 DEF Table

LEMMA TookFromType ==
  ASSUME NEW rows, NEW n, ReadTo(rows, n), NEW S, Debits(rows, n, S), NEW b \in 1..n
  PROVE  TookFrom(rows, Replay(rows).taken, S, b) \in [1..n -> Nat]
<1>1. PICK taken : taken = Replay(rows).taken
  OBVIOUS
<1>2. n \in Nat /\ DOMAIN rows = 1..n
  BY DEF ReadTo
<1>3. ASSUME NEW i \in 1..n PROVE (IF i \in S /\ b < i THEN taken[i][b] ELSE 0) \in Nat
  <2>1. CASE i \in S /\ b < i
    <3>1. i - 1 \in Nat /\ taken[i] \in [1..i-1 -> Nat]
      BY <1>1, <2>1, DebitTakes
    <3>2. b \in 1..i-1
      BY <1>2, <2>1
    <3> QED
      BY <2>1, <3>1, <3>2
  <2> QED
    BY <2>1
<1> QED
  BY <1>1, <1>2, <1>3 DEF TookFrom

LEMMA FromBucketsType ==
  ASSUME NEW rows, NEW n, ReadTo(rows, n), NEW S, Debits(rows, n, S)
  PROVE  FromBuckets(rows, S) \in [1..n -> Nat]
<1>1. n \in Nat /\ DOMAIN rows = 1..n
  BY DEF ReadTo
<1>2. ASSUME NEW b \in 1..n PROVE Total(TookFrom(rows, Replay(rows).taken, S, b)) \in Nat
  <2>1. PICK f : f = TookFrom(rows, Replay(rows).taken, S, b)
    OBVIOUS
  <2>2. f \in [1..n -> Nat]
    BY <2>1, TookFromType
  <2>3. Total(f) \in Nat
    BY <1>1, <2>2, TotalNat
  <2> QED
    BY <2>1, <2>3
<1> QED
  BY <1>1, <1>2 DEF FromBuckets

(* By buckets or by rows, it is what the rows were charged.                *)
LEMMA FromOwes ==
  ASSUME NEW rows, NEW n, ReadTo(rows, n), NEW S, Debits(rows, n, S), NEW t
  PROVE  OfTerms(rows, FromBuckets(rows, S), t) = Owes(rows, S, t)
<1>1. PICK taken, M, from, s :
        /\ taken = Replay(rows).taken /\ M = Took(rows, taken, n, S, t)
        /\ from = FromBuckets(rows, S) /\ s = Shares(rows, taken, S, t)
  OBVIOUS
<1>2. n \in Nat /\ DOMAIN rows = 1..n
  BY DEF ReadTo
<1>3. Table(M, n, n) /\ n \in 0..n
  BY <1>1, <1>2, TookTable
<1>4. \A i, b \in 1..n : M[i][b] = IF i \in S /\ b < i /\ TermsOf(rows[b]) = t
                                     THEN taken[i][b] ELSE 0
  BY <1>1, TookTable
<1>5. ASSUME NEW b \in 1..n
      PROVE  Total(Column(M, n, b)) = IF TermsOf(rows[b]) = t THEN from[b] ELSE 0
  <2>1. CASE TermsOf(rows[b]) = t
    <3>1. Column(M, n, b) = [i \in 1..n |-> IF i \in S /\ b < i THEN taken[i][b] ELSE 0]
      BY <1>4, <2>1 DEF Column
    <3>2. Column(M, n, b) = TookFrom(rows, taken, S, b)
      BY <1>2, <3>1, Zenon DEF TookFrom
    <3>3. from[b] = Total(TookFrom(rows, taken, S, b))
      BY <1>1, <1>2, Zenon DEF FromBuckets
    <3> QED
      BY <2>1, <3>2, <3>3, Zenon
  <2>2. CASE TermsOf(rows[b]) # t
    <3>1. PICK x : x = Column(M, n, b)
      OBVIOUS
    <3>2. x \in [1..n -> Int]
      BY <1>3, <3>1, ColumnType
    <3>3. \A i \in 1..n : x[i] = 0
      BY <1>4, <2>2, <3>1 DEF Column
    <3>4. Total(x) = 0
      BY <1>2, <3>2, <3>3, TotalNone
    <3> QED
      BY <2>2, <3>1, <3>4, Zenon
  <2> QED
    BY <2>1, <2>2
<1>6. Total(Columns(M, n, n)) = OfTerms(rows, from, t)
  <2>1. from \in [1..n -> Nat]
    BY <1>1, FromBucketsType
  <2>2. DOMAIN from = 1..n
    BY <2>1
  <2>3. Columns(M, n, n) = [b \in DOMAIN from |-> IF TermsOf(rows[b]) = t THEN from[b] ELSE 0]
    BY <1>5, <2>2, Zenon DEF Columns
  <2> QED
    BY <2>3, Zenon DEF OfTerms
<1>7. ASSUME NEW i \in 1..n
      PROVE  Total(M[i]) = IF i \in S THEN OfTerms(rows, taken[i], t) ELSE 0
  <2>1. PICK r : r = M[i]
    OBVIOUS
  <2>2. r \in [1..n -> Int]
    BY <1>3, <2>1 DEF Table
  <2>3. CASE i \in S
    <3>1. PICK m, k, f, g : /\ m = i - 1 /\ k = n - (i - 1) /\ f = taken[i]
                            /\ g = [j \in DOMAIN f |-> IF TermsOf(rows[j]) = t THEN f[j] ELSE 0]
      OBVIOUS
    <3>2. m \in Nat /\ f \in [1..m -> Nat]
      BY <1>1, <2>3, <3>1, DebitTakes
    <3>3. k \in Nat /\ m + k = n
      BY <1>2, <3>1, <3>2
    <3>4. g \in [1..m -> Int]
      BY <3>1, <3>2
    <3>5. ASSUME NEW b \in 1..m+k PROVE r[b] = IF b \in 1..m THEN g[b] ELSE 0
      <4>1. b \in 1..n /\ (b \in 1..m <=> b < i)
        BY <1>2, <3>1, <3>3
      <4>2. r[b] = IF b < i /\ TermsOf(rows[b]) = t THEN f[b] ELSE 0
        BY <1>4, <2>1, <2>3, <3>1, <4>1, Zenon
      <4>3. b \in 1..m => g[b] = IF TermsOf(rows[b]) = t THEN f[b] ELSE 0
        BY <3>1, <3>2
      <4> QED
        BY <4>1, <4>2, <4>3, Zenon
    <3>6. r \in [1..m+k -> Int]
      BY <2>2, <3>3
    <3>7. Padded(m, k, g, r)
      BY <3>2, <3>3, <3>4, <3>5, <3>6, Zenon DEF Padded
    <3>8. Total(r) = Total(g)
      BY <3>7, TotalPad
    <3>9. OfTerms(rows, f, t) = Total(g)
      BY <3>1, Zenon DEF OfTerms
    <3> QED
      BY <2>1, <2>3, <3>1, <3>8, <3>9, Zenon
  <2>4. CASE i \notin S
    <3>1. \A b \in 1..n : r[b] = 0
      BY <1>4, <2>1, <2>4
    <3>2. Total(r) = 0
      BY <1>2, <2>2, <3>1, TotalNone
    <3> QED
      BY <2>1, <2>4, <3>2, Zenon
  <2> QED
    BY <2>3, <2>4
<1>8. RowSums(M, n) = s
  BY <1>1, <1>2, <1>7, Zenon DEF RowSums, Shares
<1>9. Total(Columns(M, n, n)) = Total(RowSums(M, n))
  BY <1>3, RowsAndColumns
<1> QED
  BY <1>1, <1>6, <1>8, <1>9, Zenon DEF Owes

LEMMA OwesMore ==
  ASSUME NEW rows, NEW n, ReadTo(rows, n), NEW S, Debits(rows, n, S), NEW U, U \subseteq S, NEW t
  PROVE  Owes(rows, U, t) =< Owes(rows, S, t)
<1>1. PICK taken, f, g : /\ taken = Replay(rows).taken
                         /\ f = Shares(rows, taken, U, t) /\ g = Shares(rows, taken, S, t)
  OBVIOUS
<1>2. Debits(rows, n, U)
  BY DEF Debits
<1>3. f \in [1..n -> Nat]
  BY <1>1, <1>2, SharesType
<1>4. g \in [1..n -> Nat]
  BY <1>1, SharesType
<1>5. n \in Nat /\ DOMAIN rows = 1..n
  BY DEF ReadTo
<1>6. ASSUME NEW i \in 1..n PROVE f[i] =< g[i]
  <2>1. f[i] = IF i \in U THEN OfTerms(rows, taken[i], t) ELSE 0
    BY <1>1, <1>5, Zenon DEF Shares
  <2>2. g[i] = IF i \in S THEN OfTerms(rows, taken[i], t) ELSE 0
    BY <1>1, <1>5, Zenon DEF Shares
  <2>3. f[i] = g[i] \/ f[i] = 0
    BY <2>1, <2>2, Zenon
  <2>4. f[i] \in Nat /\ g[i] \in Nat
    BY <1>3, <1>4
  <2> QED
    BY <2>3, <2>4
<1>7. f \in [1..n -> Int] /\ g \in [1..n -> Int]
  BY <1>3, <1>4
<1>8. Total(f) =< Total(g)
  BY <1>5, <1>6, <1>7, TotalLess
<1> QED
  BY <1>1, <1>8, Zenon DEF Owes

(* Every terms of which there is something have their part. *)
LEMMA PartsGive ==
  ASSUME NEW n \in Nat, NEW rows, NEW taken \in [1..n -> Nat], NEW t,
         OfTerms(rows, taken, t) # 0
  PROVE  \E p \in PartsOf(rows, taken) : p.terms = t
<1>1. PICK f : f = [i \in DOMAIN taken |-> IF TermsOf(rows[i]) = t THEN taken[i] ELSE 0]
  OBVIOUS
<1>2. f \in [1..n -> Int] /\ OfTerms(rows, taken, t) = Total(f)
  <2>1. f \in [1..n -> Int]
    BY <1>1
  <2> QED
    BY <1>1, <2>1, Zenon DEF OfTerms
<1>3. PICK i \in 1..n : f[i] # 0
  BY <1>2, TotalNone
<1>4. TermsOf(rows[i]) = t /\ taken[i] > 0
  BY <1>1, <1>3
<1>5. i \in {j \in DOMAIN taken : taken[j] > 0}
  BY <1>4
<1>6. [terms |-> t, credits |-> OfTerms(rows, taken, t)] \in PartsOf(rows, taken)
  BY <1>4, <1>5, Zenon DEF PartsOf
<1> QED
  BY <1>6

-----------------------------------------------------------------------------
(* The invariant of refunds. *)

Owed(s, t) == Owes(ledger, RowsOf("spend", s), t)
Back(s, t) == Bring(ledger, RowsOf("refund", s), t)

(* Of several rows, the root no longer names the others. *)
Forgotten(s) ==
  erased /\ s \in LeaverSpends /\ \A i \in RowsOf("spend", s) : RowsOf("spend", s) # {i}

(* A spend that is asked for has no rows, and nobody else asks for it. *)
SpendOnce ==
  \A q \in Request, s \in SpendIds : AsksFor(q, s) =>
    RowsOf("spend", s) = {} /\ \A p \in Request : AsksFor(p, s) => p = q

(* A row that names no other is alone, or its member was erased. *)
NamesSound ==
  \A i \in DOMAIN ledger : ledger[i].kind = "spend" /\ ledger[i].named = 0 =>
    RowsOf("spend", ledger[i].id) = {i} \/ (erased /\ ledger[i].id \in LeaverSpends)

(* What a refund read before any lock is still what its spend was charged. *)
PlanSound(s, plan) ==
  /\ RowsOf("spend", s) # {}
  /\ \A x, y \in plan : x.terms = y.terms => x = y
  /\ \A x \in plan : x.credits =< Owed(s, x.terms)
  /\ ~Forgotten(s) => /\ \A x \in plan : x.credits = Owed(s, x.terms)
                      /\ \A t : Owed(s, t) # 0 => \E x \in plan : x.terms = t

PlansSound ==
  \A q \in Request : request[q] # Idle /\ request[q].kind = "refund"
    => PlanSound(request[q].id, request[q].plan)

Repaid(s) ==
  /\ RowsOf("spend", s) # {}
  /\ \A t : Back(s, t) =< Owed(s, t) /\ (~Forgotten(s) => Back(s, t) = Owed(s, t))

Restored == \A s : RowsOf("refund", s) # {} => Repaid(s)

RefundInv == SpendOnce /\ NamesSound /\ PlansSound /\ Restored

LEMMA SpendDebits ==
  ASSUME LedgerInv, NEW n, n = Len(ledger), NEW s
  PROVE  ReadTo(ledger, n) /\ Debits(ledger, n, RowsOf("spend", s))
<1>1. n \in Nat /\ DOMAIN ledger = 1..n /\ Read(ledger, n)
  BY LedgerIs DEF LedgerInv
<1>2. ReadTo(ledger, n)
  BY <1>1 DEF ReadTo
<1>3. \A i \in RowsOf("spend", s) : i \in 1..n /\ ledger[i].credits =< 0
  BY <1>1 DEF RowsOf, LedgerInv, RowsSound, RowSound
<1> QED
  BY <1>2, <1>3 DEF Debits

LEMMA RootNames ==
  ASSUME LedgerInv, NamesSound, NEW s, RowsOf("spend", s) # {}
  PROVE  PartsNamed(s) \subseteq RowsOf("spend", s)
         /\ (~Forgotten(s) => PartsNamed(s) = RowsOf("spend", s))
<1>1. PICK i \in DOMAIN ledger : ledger[i].kind = "spend" /\ ledger[i].id = s
  BY DEF RowsOf
<1>2. \E j \in RowsOf("spend", s) : ledger[j].part = 1
  BY <1>1 DEF LedgerInv, RowsSound
<1> DEFINE root == CHOOSE j \in RowsOf("spend", s) : ledger[j].part = 1
<1>3. root \in RowsOf("spend", s)
  BY <1>2
<1>4. PartsNamed(s) = IF ledger[root].named = 0 THEN {root} ELSE RowsOf("spend", s)
  BY Zenon DEF PartsNamed
<1> HIDE DEF root
<1>5. ASSUME ~Forgotten(s), ledger[root].named = 0 PROVE RowsOf("spend", s) = {root}
  <2>1. root \in DOMAIN ledger /\ ledger[root].kind = "spend" /\ ledger[root].id = s
    BY <1>3 DEF RowsOf
  <2>2. RowsOf("spend", s) = {root} \/ (erased /\ s \in LeaverSpends)
    BY <1>5, <2>1, Zenon DEF NamesSound
  <2>3. CASE erased /\ s \in LeaverSpends
    <3>1. PICK k \in RowsOf("spend", s) : RowsOf("spend", s) = {k}
      BY <1>5, <2>3, Zenon DEF Forgotten
    <3> QED
      BY <1>3, <3>1
  <2> QED
    BY <2>2, <2>3
<1> QED
  BY <1>3, <1>4, <1>5

LEMMA RefundPlanIs ==
  ASSUME NEW s
  PROVE  RefundPlan(s) = PartsOf(ledger, FromBuckets(ledger, PartsNamed(s)))
BY Zenon DEF RefundPlan, FromBuckets, TookFrom

(* A refund's plan is what its spend was charged when it was read. *)
LEMMA RefundPlanSound ==
  ASSUME LedgerInv, NamesSound, NEW s, RowsOf("spend", s) # {}
  PROVE  PlanSound(s, RefundPlan(s))
<1>1. PICK n, S, U, from, plan :
        /\ n = Len(ledger) /\ S = RowsOf("spend", s) /\ U = PartsNamed(s)
        /\ from = FromBuckets(ledger, U) /\ plan = RefundPlan(s)
  OBVIOUS
<1>2. ReadTo(ledger, n) /\ Debits(ledger, n, S)
  BY <1>1, SpendDebits
<1>3. U \subseteq S /\ (~Forgotten(s) => U = S)
  BY <1>1, RootNames
<1>4. Debits(ledger, n, U)
  BY <1>2, <1>3 DEF Debits
<1>5. n \in Nat /\ from \in [1..n -> Nat]
  BY <1>1, <1>2, <1>4, FromBucketsType DEF ReadTo
<1>6. plan = PartsOf(ledger, from)
  BY <1>1, RefundPlanIs
<1>7. \A p \in plan : /\ p = [terms |-> p.terms, credits |-> p.credits]
                      /\ p.credits \in Nat
                      /\ p.credits = OfTerms(ledger, from, p.terms)
  BY <1>5, <1>6, PartsType
<1>8. \A t : OfTerms(ledger, from, t) = Owes(ledger, U, t)
  BY <1>1, <1>2, <1>4, FromOwes
<1>9. \A t : Owes(ledger, U, t) =< Owed(s, t)
  BY <1>1, <1>2, <1>3, OwesMore DEF Owed
<1>10. \A x, y \in plan : x.terms = y.terms => x = y
  BY <1>7, Zenon
<1>11. \A x \in plan : x.credits = Owes(ledger, U, x.terms)
  BY <1>7, <1>8, Zenon
<1>12. \A x \in plan : x.credits =< Owed(s, x.terms)
  BY <1>9, <1>11, Zenon
<1>13. ASSUME ~Forgotten(s)
       PROVE  /\ \A x \in plan : x.credits = Owed(s, x.terms)
              /\ \A t : Owed(s, t) # 0 => \E x \in plan : x.terms = t
  <2>1. \A t : Owes(ledger, U, t) = Owed(s, t)
    BY <1>1, <1>3, <1>13, Zenon DEF Owed
  <2>2. ASSUME NEW t, Owed(s, t) # 0 PROVE \E x \in plan : x.terms = t
    <3>1. OfTerms(ledger, from, t) # 0
      BY <1>8, <2>1, <2>2, Zenon
    <3> QED
      BY <1>5, <1>6, <3>1, PartsGive
  <2> QED
    BY <1>11, <2>1, <2>2, Zenon
<1> QED
  BY <1>1, <1>10, <1>12, <1>13, Zenon DEF PlanSound

(* The rows of one movement were written by the request that asked for it. *)
Wrote(q, kind, id) ==
  /\ Release(q) /\ erased' = erased /\ request[q].id = id
  /\ \E sign, parts : Movement(q, kind, sign, parts) /\ Writes(q, kind, sign, parts)

LEMMA WhoWrote ==
  ASSUME LedgerInv, LedgerAssumption, LedgerAction
  PROVE  /\ erased => erased'
         /\ \A kind, id : /\ RowsOf(kind, id) \subseteq RowsOf(kind, id)'
                          /\ \/ RowsOf(kind, id)' = RowsOf(kind, id)
                             \/ \E q \in Request : Wrote(q, kind, id)
<1> DEFINE P == /\ erased => erased'
                /\ \A kind, id : /\ RowsOf(kind, id) \subseteq RowsOf(kind, id)'
                                 /\ \/ RowsOf(kind, id)' = RowsOf(kind, id)
                                    \/ \E q \in Request : Wrote(q, kind, id)
<1>1. ASSUME erased => erased', \A kind, id : RowsOf(kind, id)' = RowsOf(kind, id) PROVE P
  BY <1>1
<1>2. ASSUME UNCHANGED <<ledger, erased>> PROVE P
  BY <1>1, <1>2, RowsSame
<1>3. ASSUME NEW q \in Request, Inserts1(q) PROVE P
  <2>1. Release(q) /\ UNCHANGED <<erased, now>>
        /\ \/ ledger' = ledger
           \/ \E kind, sign, parts : Movement(q, kind, sign, parts) /\ Writes(q, kind, sign, parts)
    BY <1>3, InsertCases DEF Inserts1
  <2>2. CASE ledger' = ledger
    BY <1>2, <2>1, <2>2
  <2>3. ASSUME NEW kind, NEW sign, NEW parts, Movement(q, kind, sign, parts), Writes(q, kind, sign, parts)
        PROVE  P
    <3>1. Grew(kind, request[q].id)
      BY <2>3, RowsWritten
    <3>2. Wrote(q, kind, request[q].id)
      BY <2>1, <2>3, Zenon DEF Wrote
    <3>3. ASSUME NEW r, NEW id
          PROVE  /\ RowsOf(r, id) \subseteq RowsOf(r, id)'
                 /\ \/ RowsOf(r, id)' = RowsOf(r, id)
                    \/ \E p \in Request : Wrote(p, r, id)
      <4>1. CASE r = kind /\ id = request[q].id
        BY <3>1, <3>2, <4>1, Zenon DEF Grew
      <4>2. CASE ~(r = kind /\ id = request[q].id)
        BY <3>1, <4>2, Zenon DEF Grew
      <4> QED
        BY <4>1, <4>2
    <3> QED
      BY <2>1, <3>3
  <2> QED
    BY <2>1, <2>2, <2>3
<1>4. ASSUME EraseMember PROVE P
  <2>1. Unnamed /\ erased'
    BY <1>4, EraseUnnames DEF LedgerInv, EraseMember
  <2>2. \A kind, id : RowsOf(kind, id)' = RowsOf(kind, id)
    BY <2>1, UnnamedRows
  <2> QED
    BY <1>1, <2>1, <2>2
<1> HIDE DEF P
<1>5. ASSUME NEW q \in Request,
             Calls(q) \/ GivesUp(q) \/ CheckRefund(q) \/ LockOrgAndSumLedger(q) \/ AllocateSpend(q)
      PROVE  P
  <2>1. UNCHANGED <<ledger, erased>>
    BY <1>5 DEF Calls, CallGrant, CallSpend, CallRefund, GivesUp, CheckRefund,
                LockOrgAndSumLedger, AllocateSpend
  <2> QED
    BY <1>2, <2>1
<1>6. ASSUME Tick \/ UNCHANGED vars PROVE P
  <2>1. UNCHANGED <<ledger, erased>>
    BY <1>6 DEF Tick, vars
  <2> QED
    BY <1>2, <2>1
<1>7. P
  BY <1>3, <1>4, <1>5, <1>6, Zenon DEF LedgerAction
<1> QED
  BY <1>7 DEF P

LEMMA JoinedLonger ==
  ASSUME NEW all, NEW rows, NEW n, NEW new, NEW k, Joined(all, rows, n, new, k, Row)
  PROVE  Longer(rows, all, n, k)
BY DEF Joined, Longer

LEMMA SameLonger ==
  ASSUME NEW rows, NEW all, NEW n \in Nat, rows \in [1..n -> Row], all \in [1..n -> Row],
         \A i \in 1..n : /\ rows[i].credits = all[i].credits /\ rows[i].at = all[i].at
                         /\ rows[i].expires = all[i].expires /\ rows[i].order = all[i].order
  PROVE  Longer(rows, all, n, 0)
<1>1. n + 0 = n /\ 0 \in Nat
  OBVIOUS
<1> QED
  BY <1>1 DEF Longer

(* Whatever is done to the ledger, it becomes longer. *)
LEMMA LedgerGrows ==
  ASSUME LedgerInv, LedgerAssumption, LedgerAction
  PROVE  \E k : Longer(ledger, ledger', Len(ledger), k)
<1>0. PICK n \in Nat : n = Len(ledger) /\ DOMAIN ledger = 1..n /\ ledger \in [1..n -> Row]
  BY LedgerIs DEF LedgerInv
<1>1. ASSUME ledger' = ledger PROVE \E k : Longer(ledger, ledger', n, k)
  <2>1. Longer(ledger, ledger', n, 0)
    BY <1>0, <1>1, SameLonger
  <2> QED
    BY <2>1
<1>2. ASSUME NEW q \in Request, Inserts1(q) PROVE \E k : Longer(ledger, ledger', n, k)
  <2>1. \/ ledger' = ledger
        \/ \E kind, sign, parts : Movement(q, kind, sign, parts) /\ Writes(q, kind, sign, parts)
    BY <1>2, InsertCases DEF Inserts1
  <2>2. ASSUME NEW kind, NEW sign, NEW parts, Writes(q, kind, sign, parts)
        PROVE  \E k : Longer(ledger, ledger', n, k)
    <3>1. PICK new, k : Joined(ledger', ledger, n, new, k, Row)
      BY <1>0, <2>2, Zenon DEF Writes
    <3> QED
      BY <3>1, JoinedLonger
  <2> QED
    BY <1>1, <2>1, <2>2
<1>3. CASE EraseMember
  <2>1. Unnamed
    BY <1>3, EraseUnnames DEF LedgerInv
  <2>2. PICK all : all = ledger'
    OBVIOUS
  <2>3. all \in Seq(Row) /\ Len(all) = n /\ \A i \in 1..n :
          /\ ledger[i].credits = all[i].credits /\ ledger[i].at = all[i].at
          /\ ledger[i].expires = all[i].expires /\ ledger[i].order = all[i].order
    BY <1>0, <2>1, <2>2 DEF Unnamed
  <2>4. all \in [1..n -> Row]
    BY <2>3, SeqIs
  <2>5. Longer(ledger, all, n, 0)
    BY <1>0, <2>3, <2>4, SameLonger
  <2> QED
    BY <1>0, <2>2, <2>5
<1>4. ASSUME NEW q \in Request,
             Calls(q) \/ GivesUp(q) \/ CheckRefund(q) \/ LockOrgAndSumLedger(q) \/ AllocateSpend(q)
      PROVE  ledger' = ledger
  BY <1>4 DEF Calls, CallGrant, CallSpend, CallRefund, GivesUp, CheckRefund,
              LockOrgAndSumLedger, AllocateSpend
<1>5. CASE Tick \/ UNCHANGED vars
  BY <1>0, <1>1, <1>5 DEF Tick, vars
<1> QED
  BY <1>0, <1>1, <1>2, <1>3, <1>4, <1>5, Zenon DEF LedgerAction

(* What a spend was charged, and what was given back, stays while its own  *)
(* rows do.                                                                *)
LEMMA OwedKept ==
  ASSUME LedgerInv, LedgerAssumption, LedgerAction, NEW s, RowsOf("spend", s)' = RowsOf("spend", s)
  PROVE  \A t : Owed(s, t)' = Owed(s, t)
<1>1. PICK n, all, S : n = Len(ledger) /\ all = ledger' /\ S = RowsOf("spend", s)
  OBVIOUS
<1>2. PICK k : Longer(ledger, all, n, k)
  BY <1>1, LedgerGrows
<1>3. Debits(ledger, n, S)
  BY <1>1, SpendDebits
<1>4. \A t : Owes(all, S, t) = Owes(ledger, S, t)
  BY <1>2, <1>3, OwesKept
<1> QED
  BY <1>1, <1>4, Zenon DEF Owed

LEMMA BackKept ==
  ASSUME LedgerInv, LedgerAssumption, LedgerAction, NEW s, RowsOf("refund", s)' = RowsOf("refund", s)
  PROVE  \A t : Back(s, t)' = Back(s, t)
<1>1. PICK n, all, S : n = Len(ledger) /\ all = ledger' /\ S = RowsOf("refund", s)
  OBVIOUS
<1>2. PICK k : Longer(ledger, all, n, k)
  BY <1>1, LedgerGrows
<1>3. Among(S, n)
  BY <1>1, LedgerIs DEF RowsOf, LedgerInv, Among
<1>4. \A t : Bring(all, S, t) = Bring(ledger, S, t)
  BY <1>2, <1>3, BringKept
<1> QED
  BY <1>1, <1>4, Zenon DEF Back

LEMMA WroteAsks ==
  ASSUME LedgerInv, NEW q \in Request, NEW kind, NEW id, Wrote(q, kind, id)
  PROVE  /\ request[q] # Idle /\ request[q].kind = kind /\ request[q].id = id
         /\ request[q].pc = "insert" /\ request[q] \in Call /\ CallSound(q, request[q])
         /\ request' = [request EXCEPT ![q] = Idle]
<1>1. PICK sign, parts : Movement(q, kind, sign, parts)
  BY Zenon DEF Wrote
<1>2. request[q].pc = "insert" /\ request[q].kind = kind
  BY <1>1, Zenon DEF Movement
<1>3. request[q].id = id /\ request' = [request EXCEPT ![q] = Idle]
  BY DEF Wrote, Release
<1> QED
  BY <1>2, <1>3, CallIs

(* A spend that has its rows gets no more. *)
LEMMA SpendsStay ==
  ASSUME LedgerInv, LedgerAssumption, LedgerAction, SpendOnce, NEW s, RowsOf("spend", s) # {}
  PROVE  RowsOf("spend", s)' = RowsOf("spend", s)
<1>1. ASSUME NEW q \in Request, Wrote(q, "spend", s) PROVE FALSE
  <2>1. AsksFor(q, s)
    BY <1>1, WroteAsks DEF AsksFor
  <2>2. s \in SpendIds
    BY <1>1, WroteAsks DEF CallSound
  <2> QED
    BY <2>1, <2>2 DEF SpendOnce
<1> QED
  BY <1>1, WhoWrote

LEMMA ForgottenKept ==
  ASSUME LedgerInv, LedgerAssumption, LedgerAction, NEW s,
         RowsOf("spend", s)' = RowsOf("spend", s), Forgotten(s)
  PROVE  Forgotten(s)'
<1>1. erased => erased'
  BY WhoWrote
<1> QED
  BY <1>1, Zenon DEF Forgotten

LEMMA PlanKept ==
  ASSUME LedgerInv, LedgerAssumption, LedgerAction, SpendOnce, NEW s, NEW plan, PlanSound(s, plan)
  PROVE  PlanSound(s, plan)'
<1>1. RowsOf("spend", s) # {} /\ RowsOf("spend", s)' = RowsOf("spend", s)
  BY SpendsStay DEF PlanSound
<1>2. \A t : Owed(s, t)' = Owed(s, t)
  BY <1>1, OwedKept
<1>3. Forgotten(s) => Forgotten(s)'
  BY <1>1, ForgottenKept
<1>4. \A x \in plan : Owed(s, x.terms)' = Owed(s, x.terms)
  BY <1>2, Zenon
<1> QED
  BY <1>1, <1>2, <1>3, <1>4, Zenon DEF PlanSound

LEMMA RepaidKept ==
  ASSUME LedgerInv, LedgerAssumption, LedgerAction, SpendOnce, NEW s,
         RowsOf("refund", s)' = RowsOf("refund", s), Repaid(s)
  PROVE  Repaid(s)'
<1>1. RowsOf("spend", s) # {} /\ RowsOf("spend", s)' = RowsOf("spend", s)
  BY SpendsStay DEF Repaid
<1>2. \A t : Owed(s, t)' = Owed(s, t)
  BY <1>1, OwedKept
<1>3. \A t : Back(s, t)' = Back(s, t)
  BY BackKept
<1>4. Forgotten(s) => Forgotten(s)'
  BY <1>1, ForgottenKept
<1> QED
  BY <1>1, <1>2, <1>3, <1>4, Zenon DEF Repaid

(* A call that is under way was so before, or begins.                      *)
Continues(p) ==
  /\ request[p] # Idle
  /\ request'[p].kind = request[p].kind /\ request'[p].id = request[p].id
  /\ request[p].kind # "spend" => request'[p].plan = request[p].plan

Begins(p) ==
  LET c == request'[p] IN
  /\ ledger' = ledger
  /\ \/ c.kind = "grant"
     \/ /\ c.kind = "spend" /\ RowsOf("spend", c.id) = {}
        /\ \A o \in Request : request[o] # Idle => request[o].id # c.id
        /\ \A o \in Request : o # p => request'[o] = request[o]
     \/ c.kind = "refund" /\ RowsOf("spend", c.id) # {} /\ c.plan = RefundPlan(c.id)

LEMMA OneGoesOn ==
  ASSUME LedgerInv, NEW q \in Request, NEW c, request' = [request EXCEPT ![q] = c]
  PROVE  request'[q] = c /\ \A o \in Request : o # q => request'[o] = request[o]
BY DEF LedgerInv, LedgerType

LEMMA SameContinues ==
  ASSUME NEW p, request'[p] = request[p], request'[p] # Idle
  PROVE  Continues(p)
BY DEF Continues

LEMMA AskBegins ==
  ASSUME LedgerInv, NEW q \in Request, NEW kind, NEW id, NEW pc, NEW plan,
         Ask(q, kind, id, pc, plan)
  PROVE  /\ request'[q].kind = kind /\ request'[q].id = id /\ request'[q].plan = plan
         /\ \A o \in Request : o # q => request'[o] = request[o]
<1>1. PICK c : c = Asks(kind, id, pc, plan)
  OBVIOUS
<1>2. request' = [request EXCEPT ![q] = c]
  BY <1>1 DEF Ask, Asks
<1>3. c.kind = kind /\ c.id = id /\ c.plan = plan
  BY <1>1 DEF Asks
<1> QED
  BY <1>2, <1>3, OneGoesOn

LEMMA NextCall ==
  ASSUME LedgerInv, LedgerAssumption, LedgerAction, NEW p \in Request, request'[p] # Idle
  PROVE  Continues(p) \/ Begins(p)
<1>1. ASSUME NEW q \in Request, Calls(q) PROVE Continues(p) \/ Begins(p)
  <2>1. ASSUME NEW g, CallGrant(q, g) PROVE Continues(p) \/ Begins(p)
    <3>1. Ask(q, "grant", g, "lock", {}) /\ ledger' = ledger
      BY <2>1 DEF CallGrant
    <3>2. request'[q].kind = "grant" /\ \A o \in Request : o # q => request'[o] = request[o]
      BY <3>1, AskBegins
    <3> QED
      BY <3>1, <3>2, SameContinues, Zenon DEF Begins
  <2>2. ASSUME NEW s, CallSpend(q, s) PROVE Continues(p) \/ Begins(p)
    <3>1. Ask(q, "spend", s, "lock", {}) /\ ledger' = ledger /\ RowsOf("spend", s) = {}
          /\ \A o \in Request : request[o] # Idle => request[o].id # s
      BY <2>2 DEF CallSpend
    <3>2. request'[q].kind = "spend" /\ request'[q].id = s
          /\ \A o \in Request : o # q => request'[o] = request[o]
      BY <3>1, AskBegins
    <3> QED
      BY <3>1, <3>2, SameContinues, Zenon DEF Begins
  <2>3. ASSUME NEW s, CallRefund(q, s) PROVE Continues(p) \/ Begins(p)
    <3>1. PICK plan : plan = RefundPlan(s)
      OBVIOUS
    <3>2. Ask(q, "refund", s, "check", plan) /\ ledger' = ledger /\ RowsOf("spend", s) # {}
      BY <2>3, <3>1 DEF CallRefund
    <3>3. request'[q].kind = "refund" /\ request'[q].id = s /\ request'[q].plan = plan
          /\ \A o \in Request : o # q => request'[o] = request[o]
      BY <3>2, AskBegins
    <3> QED
      BY <3>1, <3>2, <3>3, SameContinues, Zenon DEF Begins
  <2> QED
    BY <1>1, <2>1, <2>2, <2>3, Zenon DEF Calls
<1>2. ASSUME NEW q \in Request, Release(q) PROVE Continues(p) \/ Begins(p)
  <2>1. request' = [request EXCEPT ![q] = Idle]
    BY <1>2 DEF Release
  <2>2. request'[q] = Idle /\ \A o \in Request : o # q => request'[o] = request[o]
    BY <2>1, OneGoesOn
  <2> QED
    BY <2>2, SameContinues, Zenon
<1>3. ASSUME NEW q \in Request, NEW d, request' = [request EXCEPT ![q] = d], request[q] # Idle,
             d = Idle \/ (d.kind = request[q].kind /\ d.id = request[q].id
                          /\ (request[q].kind # "spend" => d.plan = request[q].plan))
      PROVE  Continues(p) \/ Begins(p)
  <2>1. request'[q] = d /\ \A o \in Request : o # q => request'[o] = request[o]
    BY <1>3, OneGoesOn
  <2>2. CASE p = q
    BY <1>3, <2>1, <2>2, Zenon DEF Continues
  <2>3. CASE p # q
    BY <2>1, <2>3, SameContinues
  <2> QED
    BY <2>2, <2>3
<1>4. ASSUME NEW q \in Request, CheckRefund(q) PROVE Continues(p) \/ Begins(p)
  <2>1. PICK c : c = request[q]
    OBVIOUS
  <2>2. c \in Call /\ c # Idle
    BY <1>4, <2>1, CallIs DEF CheckRefund
  <2>3. PICK d : d = IF RowsOf("refund", c.id) # {} THEN Idle ELSE [c EXCEPT !.pc = "lock", !.at = now]
    OBVIOUS
  <2>4. d = Idle \/ (d.kind = c.kind /\ d.id = c.id /\ d.plan = c.plan)
    BY <2>2, <2>3 DEF Call
  <2>5. request' = [request EXCEPT ![q] = d]
    BY <1>4, <2>1, <2>3 DEF CheckRefund
  <2> QED
    BY <1>3, <2>1, <2>2, <2>4, <2>5
<1>5. ASSUME NEW q \in Request, LockOrgAndSumLedger(q) PROVE Continues(p) \/ Begins(p)
  <2>1. PICK c : c = request[q]
    OBVIOUS
  <2>2. c \in Call /\ c # Idle
    BY <1>5, <2>1, CallIs DEF LockOrgAndSumLedger
  <2>3. PICK d : d = [c EXCEPT !.pc = "insert", !.total = SumCredits(ledger)]
    OBVIOUS
  <2>4. d.kind = c.kind /\ d.id = c.id /\ d.plan = c.plan
    BY <2>2, <2>3 DEF Call
  <2>5. request' = [request EXCEPT ![q] = d]
    BY <1>5, <2>1, <2>3 DEF LockOrgAndSumLedger
  <2> QED
    BY <1>3, <2>1, <2>2, <2>4, <2>5
<1>6. ASSUME NEW q \in Request, AllocateSpend(q) PROVE Continues(p) \/ Begins(p)
  <2>1. PICK c : c = request[q]
    OBVIOUS
  <2>2. c \in Call /\ c # Idle /\ c.kind = "spend"
    BY <1>6, <2>1, CallIs DEF AllocateSpend
  <2>3. PICK plan : request' = [request EXCEPT ![q].plan = plan] \/ Release(q)
    BY <1>6 DEF AllocateSpend
  <2>4. CASE Release(q)
    BY <1>2, <2>4
  <2>5. CASE request' = [request EXCEPT ![q].plan = plan]
    <3>1. PICK d : d = [c EXCEPT !.plan = plan]
      OBVIOUS
    <3>2. d.kind = c.kind /\ d.id = c.id
      BY <2>2, <3>1 DEF Call
    <3>3. request' = [request EXCEPT ![q] = d]
      BY <2>1, <2>5, <3>1
    <3> QED
      BY <1>3, <2>1, <2>2, <3>2, <3>3
  <2> QED
    BY <2>3, <2>4, <2>5
<1>7. ASSUME NEW q \in Request, Inserts1(q) PROVE Continues(p) \/ Begins(p)
  BY <1>2, <1>7, InsertCases DEF Inserts1
<1>8. ASSUME EraseMember \/ Tick \/ UNCHANGED vars PROVE Continues(p) \/ Begins(p)
  BY <1>8, SameContinues DEF EraseMember, Tick, vars
<1> QED
  BY <1>1, <1>2, <1>4, <1>5, <1>6, <1>7, <1>8, Zenon DEF LedgerAction, GivesUp

(* Who asks for a spend asked for it before, or is the first to.           *)
First(q, s) ==
  /\ ledger' = ledger /\ RowsOf("spend", s) = {}
  /\ \A o \in Request : ~AsksFor(o, s)
  /\ \A o \in Request : o # q => request'[o] = request[o]

LEMMA AsksOn ==
  ASSUME LedgerInv, LedgerAssumption, LedgerAction, NEW q \in Request, NEW s, AsksFor(q, s)'
  PROVE  AsksFor(q, s) \/ First(q, s)
<1>1. request'[q] # Idle /\ request'[q].kind = "spend" /\ request'[q].id = s
  BY DEF AsksFor
<1>2. CASE Continues(q)
  BY <1>1, <1>2 DEF Continues, AsksFor
<1>3. CASE Begins(q)
  <2>1. PICK c : c = request'[q]
    OBVIOUS
  <2>2. /\ ledger' = ledger /\ RowsOf("spend", s) = {}
        /\ \A o \in Request : request[o] # Idle => request[o].id # s
        /\ \A o \in Request : o # q => request'[o] = request[o]
    BY <1>1, <1>3 DEF Begins
  <2> QED
    BY <2>2, Zenon DEF First, AsksFor
<1> QED
  BY <1>1, <1>2, <1>3, NextCall

LEMMA SpendOnceStep ==
  ASSUME LedgerInv, LedgerAssumption, LedgerAction, SpendOnce
  PROVE  SpendOnce'
<1>1. ASSUME NEW q \in Request, NEW s \in SpendIds, AsksFor(q, s)'
      PROVE  RowsOf("spend", s)' = {} /\ \A p \in Request : AsksFor(p, s)' => p = q
  <2>1. CASE First(q, s)
    <3>1. RowsOf("spend", s)' = {}
      BY <2>1, RowsSame DEF First
    <3>2. ASSUME NEW p \in Request, AsksFor(p, s)', p # q PROVE FALSE
      <4>1. request'[p] = request[p] /\ ~AsksFor(p, s)
        BY <2>1, <3>2 DEF First
      <4> QED
        BY <3>2, <4>1 DEF AsksFor
    <3> QED
      BY <3>1, <3>2
  <2>2. CASE AsksFor(q, s)
    <3>1. RowsOf("spend", s) = {} /\ \A p \in Request : AsksFor(p, s) => p = q
      BY <2>2 DEF SpendOnce
    <3>2. ASSUME NEW p \in Request, Wrote(p, "spend", s) PROVE FALSE
      <4>1. AsksFor(p, s)
        BY <3>2, WroteAsks DEF AsksFor
      <4>2. p = q
        BY <3>1, <4>1
      <4>3. request' = [request EXCEPT ![q] = Idle]
        BY <3>2, <4>2, WroteAsks
      <4>4. request'[q] = Idle
        BY <4>3, OneGoesOn
      <4> QED
        BY <1>1, <4>4 DEF AsksFor
    <3>3. RowsOf("spend", s)' = {}
      BY <3>1, <3>2, WhoWrote
    <3>4. ASSUME NEW p \in Request, AsksFor(p, s)' PROVE p = q
      <4>1. AsksFor(p, s) \/ First(p, s)
        BY <3>4, AsksOn
      <4> QED
        BY <2>2, <3>1, <4>1 DEF First
    <3> QED
      BY <3>3, <3>4
  <2> QED
    BY <1>1, <2>1, <2>2, AsksOn
<1> QED
  BY <1>1, Zenon DEF SpendOnce

(* A row that is written names its fellows, or has none. *)
LEMMA NamesStep ==
  ASSUME LedgerInv, LedgerAssumption, LedgerAction, SpendOnce, NamesSound
  PROVE  NamesSound'
<1>1. ASSUME ledger' = ledger PROVE NamesSound'
  <2>1. \A s : RowsOf("spend", s)' = RowsOf("spend", s)
    BY <1>1, RowsSame
  <2>2. erased => erased'
    BY WhoWrote
  <2> QED
    BY <1>1, <2>1, <2>2, Zenon DEF NamesSound
<1>2. CASE EraseMember
  <2>1. Unnamed /\ erased'
    BY <1>2, EraseUnnames DEF LedgerInv, EraseMember
  <2>2. \A s : RowsOf("spend", s)' = RowsOf("spend", s)
    BY <2>1, UnnamedRows
  <2>3. PICK all : all = ledger'
    OBVIOUS
  <2>4. DOMAIN all = DOMAIN ledger
        /\ \A i \in DOMAIN ledger : all[i].kind = ledger[i].kind /\ all[i].id = ledger[i].id
    BY <2>1, <2>3 DEF Unnamed
  <2>5. \A i \in DOMAIN ledger : ledger[i].id \notin LeaverSpends => all[i] = ledger[i]
    BY <1>2, <2>3 DEF EraseMember
  <2>6. ASSUME NEW i \in DOMAIN all, all[i].kind = "spend", all[i].named = 0
        PROVE  RowsOf("spend", all[i].id) = {i} \/ all[i].id \in LeaverSpends
    <3>1. i \in DOMAIN ledger /\ all[i].id = ledger[i].id
      BY <2>4
    <3>2. CASE ledger[i].id \in LeaverSpends
      BY <3>1, <3>2
    <3>3. CASE ledger[i].id \notin LeaverSpends
      BY <2>5, <2>6, <3>1, <3>3, Zenon DEF NamesSound
    <3> QED
      BY <3>2, <3>3
  <2> QED
    BY <2>1, <2>2, <2>3, <2>6, Zenon DEF NamesSound
<1>3. ASSUME NEW q \in Request, Inserts1(q) PROVE NamesSound'
  <2>1. PICK c : c = request[q]
    OBVIOUS
  <2>2. /\ Release(q) /\ erased' = erased
        /\ \/ ledger' = ledger
           \/ \E kind, sign, parts : Movement(q, kind, sign, parts) /\ Writes(q, kind, sign, parts)
    BY <1>3, InsertCases DEF Inserts1
  <2>3. ASSUME NEW kind, NEW sign, NEW parts, Movement(q, kind, sign, parts), Writes(q, kind, sign, parts)
        PROVE  NamesSound'
    <3>1. PICK order, new, n, k, all :
            /\ all = ledger' /\ n = Len(ledger) /\ k = Cardinality(parts)
            /\ NewRows(new, k, order, sign, kind, c)
            /\ Joined(all, ledger, n, new, k, Row)
      BY <2>1, <2>3, Zenon DEF Writes
    <3>2. /\ n \in Nat /\ k \in Nat /\ DOMAIN all = 1..n+k /\ DOMAIN ledger = 1..n
          /\ \A i \in 1..n : i \in 1..n+k /\ all[i] = ledger[i]
          /\ \A i \in 1..k : n + i \in 1..n+k /\ all[n + i] = new[i]
          /\ \A i \in 1..n+k : i \in 1..n \/ \E j \in 1..k : i = n + j
      BY <3>1 DEF Joined
    <3>3. \A j \in 1..k : new[j].kind = kind /\ new[j].id = c.id /\ (new[j].named = 0 => k =< 1)
      BY <3>1, Zenon DEF NewRows
    <3>4. ASSUME NEW i \in 1..n+k, all[i].kind = "spend", all[i].named = 0
          PROVE  RowsOf("spend", all[i].id)' = {i} \/ (erased /\ all[i].id \in LeaverSpends)
      <4>1. ASSUME i \in 1..n PROVE RowsOf("spend", all[i].id)' = {i} \/ (erased /\ all[i].id \in LeaverSpends)
        <5>1. PICK s : s = ledger[i].id
          OBVIOUS
        <5>2. all[i].id = s /\ ledger[i].kind = "spend" /\ ledger[i].named = 0 /\ i \in DOMAIN ledger
          BY <3>2, <3>4, <4>1, <5>1
        <5>3. i \in RowsOf("spend", s)
          BY <5>1, <5>2 DEF RowsOf
        <5>4. RowsOf("spend", s)' = RowsOf("spend", s)
          BY <5>3, SpendsStay
        <5>5. RowsOf("spend", s) = {i} \/ (erased /\ s \in LeaverSpends)
          BY <5>1, <5>2, Zenon DEF NamesSound
        <5> QED
          BY <5>2, <5>4, <5>5, Zenon
      <4>2. ASSUME NEW j \in 1..k, i = n + j PROVE RowsOf("spend", all[i].id)' = {i}
        <5>1. all[i] = new[j] /\ kind = "spend" /\ all[i].id = c.id /\ k =< 1
          BY <3>2, <3>3, <3>4, <4>2
        <5>2. j = 1 /\ k = 1
          BY <3>2, <4>2, <5>1
        <5>3. PICK s : s = c.id
          OBVIOUS
        <5>4. Wrote(q, "spend", s)
          BY <2>1, <2>2, <2>3, <5>1, <5>3, Zenon DEF Wrote
        <5>5. AsksFor(q, s) /\ s \in SpendIds
          BY <5>4, WroteAsks DEF AsksFor, CallSound
        <5>6. RowsOf("spend", s) = {}
          BY <5>5 DEF SpendOnce
        <5>7. \A m \in 1..n : ~(all[m].kind = "spend" /\ all[m].id = s)
          BY <3>2, <5>6, Zenon DEF RowsOf
        <5>8. \A m \in 1..n+k : all[m].kind = "spend" /\ all[m].id = s => m = i
          BY <3>2, <4>2, <5>2, <5>7
        <5>9. RowsOf("spend", s)' = {m \in DOMAIN all : all[m].kind = "spend" /\ all[m].id = s}
          BY <3>1, Zenon DEF RowsOf
        <5>10. RowsOf("spend", s)' = {i}
          BY <3>2, <3>4, <5>1, <5>3, <5>8, <5>9
        <5> QED
          BY <5>1, <5>3, <5>10
      <4> QED
        BY <3>2, <4>1, <4>2
    <3> QED
      BY <2>2, <3>1, <3>2, <3>4, Zenon DEF NamesSound
  <2> QED
    BY <1>1, <2>2, <2>3
<1>4. ASSUME NEW q \in Request,
             Calls(q) \/ GivesUp(q) \/ CheckRefund(q) \/ LockOrgAndSumLedger(q) \/ AllocateSpend(q)
      PROVE  ledger' = ledger
  BY <1>4 DEF Calls, CallGrant, CallSpend, CallRefund, GivesUp, CheckRefund,
              LockOrgAndSumLedger, AllocateSpend
<1>5. ASSUME Tick \/ UNCHANGED vars PROVE ledger' = ledger
  BY <1>5 DEF Tick, vars
<1> QED
  BY <1>1, <1>2, <1>3, <1>4, <1>5, Zenon DEF LedgerAction

LEMMA PlansStep ==
  ASSUME LedgerInv, LedgerAssumption, LedgerAction, SpendOnce, NamesSound, PlansSound
  PROVE  PlansSound'
<1>1. ASSUME NEW p \in Request, request'[p] # Idle, request'[p].kind = "refund",
             NEW s, NEW plan, s = request'[p].id, plan = request'[p].plan
      PROVE  PlanSound(s, plan)
  <2>1. CASE Continues(p)
    <3>1. request[p] # Idle /\ request[p].kind = "refund" /\ request[p].id = s /\ request[p].plan = plan
      BY <1>1, <2>1 DEF Continues
    <3> QED
      BY <3>1, Zenon DEF PlansSound
  <2>2. CASE Begins(p)
    <3>1. RowsOf("spend", s) # {} /\ plan = RefundPlan(s)
      BY <1>1, <2>2 DEF Begins
    <3> QED
      BY <3>1, RefundPlanSound
  <2> QED
    BY <1>1, <2>1, <2>2, NextCall
<1>2. ASSUME NEW p \in Request, request'[p] # Idle, request'[p].kind = "refund"
      PROVE  PlanSound(request[p].id, request[p].plan)'
  <2>1. PICK s, plan : s = request'[p].id /\ plan = request'[p].plan
    OBVIOUS
  <2>2. PlanSound(s, plan)
    BY <1>1, <1>2, <2>1
  <2>3. PlanSound(s, plan)'
    BY <2>2, PlanKept
  <2> QED
    BY <2>1, <2>3, Zenon DEF PlanSound
<1> QED
  BY <1>2, Zenon DEF PlansSound

(* An order of the parts has all of them. *)
LEMMA OrderHasAll ==
  ASSUME NEW parts, IsFiniteSet(parts), NEW order \in Orders(parts), NEW x \in parts
  PROVE  \E j \in 1..Cardinality(parts) : order[j] = x
<1>1. PICK k : k = Cardinality(parts)
  OBVIOUS
<1>2. k \in Nat /\ order \in [1..k -> parts] /\ \A m, j \in 1..k : m < j => order[m] # order[j]
  BY <1>1, OrderIs
<1>3. \A m, j \in 1..k : order[m] = order[j] => m = j
  BY <1>2
<1>4. order \in Injection(1..k, parts)
  BY <1>2, <1>3 DEF Injection, IsInjective
<1>5. Cardinality(1..k) = k
  BY <1>2, FS_Interval
<1>6. order \in Surjection(1..k, parts)
  BY <1>1, <1>4, <1>5, FS_Injection
<1> QED
  BY <1>1, <1>6 DEF Surjection

(* What the rows of a refund bring: of each terms, its part of the plan.   *)
Appends(all, rows, plan, S, c) ==
  \E order, new, n, k :
    /\ IsFiniteSet(plan) /\ plan \subseteq Part /\ order \in Orders(plan) /\ k = Cardinality(plan)
    /\ NewRows(new, k, order, 1, "refund", c)
    /\ Joined(all, rows, n, new, k, Row)
    /\ \A i \in 1..n+k : i \in S <=> \E j \in 1..k : i = n + j

LEMMA AppendsBring ==
  ASSUME NEW all, NEW rows, NEW plan, NEW S, NEW c, Appends(all, rows, plan, S, c),
         \A x, y \in plan : x.terms = y.terms => x = y,
         NEW t
  PROVE  /\ \A x \in plan : x.terms = t => Bring(all, S, t) = x.credits
         /\ (\A x \in plan : x.terms # t) => Bring(all, S, t) = 0
<1>1. PICK order, new, n, k :
        /\ IsFiniteSet(plan) /\ plan \subseteq Part /\ order \in Orders(plan) /\ k = Cardinality(plan)
        /\ NewRows(new, k, order, 1, "refund", c)
        /\ Joined(all, rows, n, new, k, Row)
        /\ \A i \in 1..n+k : i \in S <=> \E j \in 1..k : i = n + j
  BY Zenon DEF Appends
<1>2. /\ n \in Nat /\ k \in Nat /\ all \in [1..n+k -> Row] /\ DOMAIN all = 1..n+k
      /\ \A j \in 1..k : n + j \in 1..n+k /\ all[n + j] = new[j]
  BY <1>1 DEF Joined
<1>3. order \in [1..k -> plan] /\ \A m, j \in 1..k : m < j => order[m] # order[j]
  BY <1>1, OrderIs
<1>4. PICK w \in Nat : w = n + k
  BY <1>2
<1>5. PICK g : g = Brings(all, S, t)
  OBVIOUS
<1>6. g \in [1..w -> Int] /\ Bring(all, S, t) = Total(g)
  BY <1>2, <1>4, <1>5, BringIs
<1>7. ASSUME NEW j \in 1..k PROVE TermsOf(new[j]) = order[j].terms /\ new[j].credits = order[j].credits
  <2>1. order[j] \in Part
    BY <1>1, <1>3
  <2>2. PICK o : o = order[j]
    OBVIOUS
  <2>3. o.terms = [expires |-> o.terms.expires, order |-> o.terms.order] /\ o.credits \in Nat
    BY <2>1, <2>2 DEF Part
  <2>4. /\ new[j].expires = o.terms.expires /\ new[j].order = o.terms.order
        /\ new[j].credits = Signed(order, k, 1)[j]
    BY <1>1, <2>2, Zenon DEF NewRows
  <2>5. Signed(order, k, 1)[j] = 1 * o.credits
    BY <2>2 DEF Signed
  <2> QED
    BY <2>2, <2>3, <2>4, <2>5 DEF TermsOf
<1>8. ASSUME NEW i \in 1..w
      PROVE  g[i] = 0 \/ \E j \in 1..k : /\ i = n + j /\ order[j].terms = t
                                         /\ g[i] = order[j].credits
  <2>1. g[i] = IF i \in S /\ TermsOf(all[i]) = t THEN all[i].credits ELSE 0
    BY <1>2, <1>4, <1>5, Zenon DEF Brings
  <2>2. ASSUME i \in S, TermsOf(all[i]) = t
        PROVE  \E j \in 1..k : i = n + j /\ order[j].terms = t /\ g[i] = order[j].credits
    <3>1. PICK j \in 1..k : i = n + j
      BY <1>1, <1>4, <2>2
    <3>2. all[i] = new[j]
      BY <1>2, <3>1
    <3> QED
      BY <1>7, <2>1, <2>2, <3>1, <3>2, Zenon
  <2> QED
    BY <2>1, <2>2, Zenon
<1>9. ASSUME NEW j \in 1..k, order[j].terms = t PROVE g[n + j] = order[j].credits
  <2>1. PICK i : i = n + j
    OBVIOUS
  <2>2. i \in 1..n+k /\ all[i] = new[j] /\ i \in S
    BY <1>1, <1>2, <2>1
  <2>3. g[i] = IF i \in S /\ TermsOf(all[i]) = t THEN all[i].credits ELSE 0
    BY <1>2, <1>5, <2>2, Zenon DEF Brings
  <2> QED
    BY <1>7, <1>9, <2>1, <2>2, <2>3, Zenon
<1>10. ASSUME NEW x \in plan, x.terms = t PROVE Bring(all, S, t) = x.credits
  <2>1. PICK j \in 1..k : order[j] = x
    BY <1>1, OrderHasAll
  <2>2. PICK m : m = n + j
    OBVIOUS
  <2>3. m \in 1..w /\ g[m] = x.credits
    BY <1>2, <1>4, <1>9, <1>10, <2>1, <2>2
  <2>4. ASSUME NEW i \in 1..w, i # m PROVE g[i] = 0
    <3>1. ASSUME NEW l \in 1..k, i = n + l, order[l].terms = t PROVE FALSE
      <4>1. order[l] \in plan
        BY <1>3
      <4>2. order[l] = order[j]
        BY <1>10, <2>1, <3>1, <4>1
      <4>3. l = j
        BY <1>2, <1>3, <4>2
      <4> QED
        BY <2>2, <2>4, <3>1, <4>3
    <3> QED
      BY <1>8, <3>1
  <2>5. Total(g) = g[m]
    BY <1>4, <1>6, <2>3, <2>4, TotalOne
  <2> QED
    BY <1>6, <2>3, <2>5
<1>11. ASSUME \A x \in plan : x.terms # t PROVE Bring(all, S, t) = 0
  <2>1. \A i \in 1..w : g[i] = 0
    BY <1>3, <1>8, <1>11
  <2>2. Total(g) = 0
    BY <1>4, <1>6, <2>1, TotalNone
  <2> QED
    BY <1>6, <2>2
<1> QED
  BY <1>10, <1>11

LEMMA RefundAppends ==
  ASSUME LedgerInv, NEW q \in Request, NEW s, Wrote(q, "refund", s),
         NEW all, NEW S, NEW plan, NEW c,
         all = ledger', S = RowsOf("refund", s)', plan = request[q].plan, c = request[q]
  PROVE  Appends(all, ledger, plan, S, c)
<1>1. PICK sign, parts : Movement(q, "refund", sign, parts) /\ Writes(q, "refund", sign, parts)
  BY Zenon DEF Wrote
<1>2. /\ c.id = s /\ sign = 1 /\ parts = plan /\ RowsOf("refund", s) = {}
      /\ plan \subseteq Part /\ IsFiniteSet(plan)
  BY <1>1 DEF Wrote, Movement
<1>3. PICK order, new, n, k :
        /\ order \in Orders(plan) /\ n = Len(ledger) /\ k = Cardinality(plan)
        /\ NewRows(new, k, order, 1, "refund", c)
        /\ Joined(all, ledger, n, new, k, Row)
  BY <1>1, <1>2, Zenon DEF Writes
<1>4. /\ n \in Nat /\ k \in Nat /\ DOMAIN all = 1..n+k
      /\ \A i \in 1..n : i \in 1..n+k /\ all[i] = ledger[i]
      /\ \A i \in 1..k : n + i \in 1..n+k /\ all[n + i] = new[i]
      /\ \A i \in 1..n+k : i \in 1..n \/ \E j \in 1..k : i = n + j
  BY <1>3 DEF Joined
<1>5. DOMAIN ledger = 1..n
  BY <1>3, LedgerIs DEF LedgerInv
<1>6. \A j \in 1..k : new[j].kind = "refund" /\ new[j].id = s
  BY <1>2, <1>3, Zenon DEF NewRows
<1>7. \A i \in 1..n : ~(ledger[i].kind = "refund" /\ ledger[i].id = s)
  BY <1>2, <1>5, Zenon DEF RowsOf
<1>8. S = {i \in DOMAIN all : all[i].kind = "refund" /\ all[i].id = s}
  BY Zenon DEF RowsOf
<1>9. ASSUME NEW i \in 1..n+k PROVE i \in S <=> \E j \in 1..k : i = n + j
  <2>1. ASSUME i \in S PROVE \E j \in 1..k : i = n + j
    <3>1. all[i].kind = "refund" /\ all[i].id = s
      BY <1>8, <2>1
    <3>2. i \notin 1..n
      BY <1>4, <1>7, <3>1, Zenon
    <3> QED
      BY <1>4, <3>2
  <2>2. ASSUME NEW j \in 1..k, i = n + j PROVE i \in S
    BY <1>4, <1>6, <1>8, <2>2
  <2> QED
    BY <2>1, <2>2
<1>10. /\ IsFiniteSet(plan) /\ plan \subseteq Part /\ order \in Orders(plan) /\ k = Cardinality(plan)
       /\ NewRows(new, k, order, 1, "refund", c)
       /\ Joined(all, ledger, n, new, k, Row)
       /\ \A i \in 1..n+k : i \in S <=> \E j \in 1..k : i = n + j
  BY <1>2, <1>3, <1>9
<1> QED
  BY <1>10 DEF Appends

(* A refund that is written gives back what its plan says. *)
LEMMA RefundRepays ==
  ASSUME LedgerInv, LedgerAssumption, LedgerAction, SpendOnce, PlansSound,
         NEW q \in Request, NEW s, Wrote(q, "refund", s)
  PROVE  Repaid(s)'
<1>1. PICK c, plan, all, S : /\ c = request[q] /\ plan = request[q].plan
                             /\ all = ledger' /\ S = RowsOf("refund", s)'
  OBVIOUS
<1>2. Appends(all, ledger, plan, S, c)
  BY <1>1, RefundAppends
<1>3. PlanSound(s, plan)
  <2>1. request[q] # Idle /\ request[q].kind = "refund" /\ request[q].id = s
    BY WroteAsks
  <2> QED
    BY <1>1, <2>1, Zenon DEF PlansSound
<1>4. /\ RowsOf("spend", s) # {}
      /\ \A x, y \in plan : x.terms = y.terms => x = y
      /\ \A x \in plan : x.credits =< Owed(s, x.terms)
      /\ ~Forgotten(s) => /\ \A x \in plan : x.credits = Owed(s, x.terms)
                          /\ \A t : Owed(s, t) # 0 => \E x \in plan : x.terms = t
  BY <1>3, Zenon DEF PlanSound
<1>5. RowsOf("spend", s)' = RowsOf("spend", s)
  BY <1>4, SpendsStay
<1>6. \A t : Owed(s, t)' = Owed(s, t)
  BY <1>5, OwedKept
<1>7. Forgotten(s) => Forgotten(s)'
  BY <1>5, ForgottenKept
<1>8. \A t : Bring(all, S, t) = Back(s, t)'
  BY <1>1, Zenon DEF Back
<1>9. ASSUME NEW t
      PROVE  Bring(all, S, t) =< Owed(s, t) /\ (~Forgotten(s) => Bring(all, S, t) = Owed(s, t))
  <2>1. /\ \A x \in plan : x.terms = t => Bring(all, S, t) = x.credits
        /\ (\A x \in plan : x.terms # t) => Bring(all, S, t) = 0
    BY <1>2, <1>4, AppendsBring
  <2>2. Owed(s, t) \in Nat
    BY SpendDebits, OwesNat DEF Owed
  <2>3. CASE \E x \in plan : x.terms = t
    BY <1>4, <2>1, <2>3, Zenon
  <2>4. CASE \A x \in plan : x.terms # t
    <3>1. Bring(all, S, t) = 0
      BY <2>1, <2>4
    <3>2. ~Forgotten(s) => Owed(s, t) = 0
      BY <1>4, <2>4, Zenon
    <3> QED
      BY <2>2, <3>1, <3>2
  <2> QED
    BY <2>3, <2>4
<1>10. ASSUME NEW t
       PROVE  Back(s, t)' =< Owed(s, t)' /\ (~Forgotten(s)' => Back(s, t)' = Owed(s, t)')
  <2>1. PICK b, o : b = Bring(all, S, t) /\ o = Owed(s, t)
    OBVIOUS
  <2>2. b =< o /\ (~Forgotten(s) => b = o)
    BY <1>9, <2>1
  <2>3. Back(s, t)' = b /\ Owed(s, t)' = o
    BY <1>6, <1>8, <2>1, Zenon
  <2> QED
    BY <1>7, <2>2, <2>3, Zenon
<1>11. RowsOf("spend", s)' # {}
  BY <1>4, <1>5
<1> QED
  BY <1>10, <1>11, Zenon DEF Repaid

LEMMA RestoredStep ==
  ASSUME LedgerInv, LedgerAssumption, LedgerAction, SpendOnce, PlansSound, Restored
  PROVE  Restored'
<1>1. ASSUME NEW s, RowsOf("refund", s)' # {} PROVE Repaid(s)'
  <2>1. CASE RowsOf("refund", s)' = RowsOf("refund", s)
    <3>1. Repaid(s)
      BY <1>1, <2>1, Zenon DEF Restored
    <3> QED
      BY <2>1, <3>1, RepaidKept
  <2>2. ASSUME NEW q \in Request, Wrote(q, "refund", s) PROVE Repaid(s)'
    BY <2>2, RefundRepays
  <2> QED
    BY <2>1, <2>2, WhoWrote
<1> QED
  BY <1>1, Zenon DEF Restored

LEMMA RefundsStep ==
  ASSUME LedgerInv, LedgerAssumption, LedgerAction, RefundInv
  PROVE  RefundInv'
<1>1. SpendOnce /\ NamesSound /\ PlansSound /\ Restored
  BY DEF RefundInv
<1>2. SpendOnce' /\ NamesSound' /\ PlansSound' /\ Restored'
  BY <1>1, SpendOnceStep, NamesStep, PlansStep, RestoredStep
<1> QED
  BY <1>2, Zenon DEF RefundInv

LEMMA RefundsStart ==
  ASSUME Init
  PROVE  RefundInv
<1>1. ledger = <<>> /\ \A q \in Request : request[q] = Idle
  BY DEF Init
<1>2. DOMAIN ledger = {}
  BY <1>1
<1>3. \A k, s : RowsOf(k, s) = {}
  BY <1>2 DEF RowsOf
<1>4. SpendOnce /\ PlansSound
  BY <1>1, Zenon DEF SpendOnce, PlansSound, AsksFor
<1>5. NamesSound
  BY <1>2, Zenon DEF NamesSound
<1>6. Restored
  BY <1>3, Zenon DEF Restored
<1> QED
  BY <1>4, <1>5, <1>6 DEF RefundInv

(* A spend whose names are lost has several rows. *)
LEMMA ForgottenIs ==
  ASSUME LedgerInv, NEW s, RowsOf("spend", s) # {}, Forgotten(s)
  PROVE  PartsForgotten(s)
<1>1. PICK S : S = RowsOf("spend", s)
  OBVIOUS
<1>2. PICK n \in Nat : DOMAIN ledger = 1..n
  BY LedgerIs DEF LedgerInv
<1>3. IsFiniteSet(S)
  <2>1. S \subseteq 1..n
    BY <1>1, <1>2 DEF RowsOf
  <2>2. IsFiniteSet(1..n)
    BY <1>2, FS_Interval
  <2> QED
    BY <2>1, <2>2, FS_Subset
<1>4. PICK i \in S : TRUE
  BY <1>1
<1>5. PICK j \in S : j # i
  BY <1>1, <1>4 DEF Forgotten
<1>6. Cardinality({i}) = 1 /\ Cardinality({i}) < Cardinality(S)
  <2>1. {i} \subseteq S /\ {i} # S
    BY <1>4, <1>5
  <2>2. Cardinality({i}) = 1
    BY FS_Singleton
  <2>3. Cardinality({i}) =< Cardinality(S) /\ (Cardinality({i}) = Cardinality(S) => S = {i})
    BY <1>3, <2>1, FS_Subset
  <2>4. Cardinality(S) \in Nat
    BY <1>3, FS_CardinalityType
  <2> QED
    BY <2>1, <2>2, <2>3, <2>4
<1>7. Cardinality(S) > 1
  BY <1>3, <1>6, FS_CardinalityType
<1> QED
  BY <1>1, <1>7 DEF Forgotten, PartsForgotten

LEMMA RefundsGive ==
  ASSUME LedgerInv, RefundInv
  PROVE  RefundRestores
<1>1. PICK taken : taken = Replay(ledger).taken
  OBVIOUS
<1>2. \A s, t : Charged(taken, s, t) = Owed(s, t)
  BY <1>1, Zenon DEF Charged, Owed, Owes, Shares
<1>3. \A s, t : GivenBack(s, t) = Back(s, t)
  BY Zenon DEF GivenBack, Back, Bring, Brought
<1>4. ASSUME NEW s \in SpendIds, RowsOf("refund", s) # {}, NEW t
      PROVE  /\ GivenBack(s, t) =< Charged(taken, s, t)
             /\ ~PartsForgotten(s) => GivenBack(s, t) = Charged(taken, s, t)
  <2>1. /\ RowsOf("spend", s) # {}
        /\ Back(s, t) =< Owed(s, t) /\ (~Forgotten(s) => Back(s, t) = Owed(s, t))
    BY <1>4, Zenon DEF RefundInv, Restored, Repaid
  <2>2. Forgotten(s) => PartsForgotten(s)
    BY <2>1, ForgottenIs
  <2> QED
    BY <1>2, <1>3, <2>1, <2>2, Zenon
<1> QED
  BY <1>1, <1>4, Zenon DEF RefundRestores

(* A failed spend that is refunded comes back once and in full, to the     *)
(* expiry and the order of the grants it was charged to, whatever else was *)
(* written and expired between the spend, the plan and the lock            *)
(* (refundCreditsForTransaction, findCreditSpendRefundPlan,                *)
(* insertCreditRefund); after an erasure it is never more than that.       *)
THEOREM AlwaysRefundRestores == TasksSpec => []RefundRestores
<1>1. TasksInit => LedgerInv /\ TaskInv /\ RefundInv
  BY LedgerAssumption, TasksAssumption, InitType, TaskStart, RefundsStart DEF TasksInit
<1>2. LedgerInv /\ TaskInv /\ RefundInv /\ [TasksNext]_<<vars, taskVars>>
        => LedgerInv' /\ TaskInv' /\ RefundInv'
  BY TasksKeepLedger, LedgerAssumption, RefundsStep
<1>3. LedgerInv /\ RefundInv => RefundRestores
  BY RefundsGive
<1> QED
  BY <1>1, <1>2, <1>3, PTL DEF TasksSpec
=============================================================================
