------------------------------ MODULE Induction ------------------------------
(***************************************************************************)
(* Induction and recursion over the naturals for sets and functions, as    *)
(* the proofs about queues, texts and logs need them.                      *)
(***************************************************************************)
EXTENDS Integers, FiniteSets, WellFoundedInduction, TLAPS

\* A set of naturals that is not empty has a least element.
LEMMA LeastNatural ==
    ASSUME NEW S \in SUBSET Nat, S # {}
    PROVE  \E m \in S : \A k \in S : m <= k
<1> DEFINE Less == OpToRel(<, Nat)
<1>1. IsWellFoundedOn(Less, Nat)
  BY NatLessThanWellFounded
<1>2. \A j, k \in Nat : j < k => <<j, k>> \in Less
  BY Zenon DEF OpToRel
<1> HIDE DEF Less
<1>3. PICK m \in S : \A k \in S : ~(<<k, m>> \in Less)
  BY <1>1, WFMin
<1>4. m \in Nat /\ \A k \in S : k \in Nat
  OBVIOUS
<1>5. \A k \in S : ~(k < m)
  BY <1>2, <1>3, <1>4
<1> QED BY <1>4, <1>5

\* Induction: a set that holds 0 and each successor holds every natural.
LEMMA SetInduction ==
    ASSUME NEW S, 0 \in S, \A n \in Nat : n \in S => n + 1 \in S
    PROVE  \A n \in Nat : n \in S
<1> DEFINE Outside == {n \in Nat : n \notin S}
<1> SUFFICES ASSUME Outside # {} PROVE FALSE
  OBVIOUS
<1>1. PICK m \in Outside : \A k \in Outside : m <= k
  BY LeastNatural
<1>2. m - 1 \in Nat /\ m - 1 \in S
  BY <1>1
<1> QED BY <1>1, <1>2

\* A bounded set of naturals that is not empty has a greatest element.
LEMMA GreatestNatural ==
    ASSUME NEW n \in Nat, NEW S \in SUBSET (0..n), S # {}
    PROVE  \E m \in S : \A k \in S : k <= m
<1> DEFINE Bounds == {u \in Nat : \A k \in S : k <= u}
<1>1. n \in Bounds
  OBVIOUS
<1>2. PICK u \in Bounds : \A v \in Bounds : u <= v
  <2>1. Bounds \in SUBSET Nat /\ Bounds # {}
    BY <1>1
  <2> HIDE DEF Bounds
  <2> QED BY <2>1, LeastNatural
<1>3. u \in S
  <2> SUFFICES ASSUME u \notin S PROVE FALSE
    OBVIOUS
  <2>1. u \in Nat /\ \A k \in S : k \in Nat /\ k < u
    BY <1>2
  <2>2. PICK k \in S : k \in Nat /\ k < u
    BY <2>1
  <2>3. u - 1 \in Bounds
    BY <2>1, <2>2
  <2> QED BY <1>2, <2>3
<1> QED BY <1>2, <1>3
-----------------------------------------------------------------------------
(* f is the run of n steps from `first' on states of S.                    *)
RunOf(f, n, S, first, step) ==
    /\ f \in [0..n -> S]
    /\ f[0] = first
    /\ \A i \in 1..n : f[i] = step[i][f[i - 1]]

\* A recursion that steps a state has a solution.
LEMMA RunExists ==
    ASSUME NEW n \in Nat, NEW S, NEW first \in S, NEW step \in [1..n -> [S -> S]]
    PROVE  \E f : RunOf(f, n, S, first, step)
<1> DEFINE Runs == {m \in Nat : m <= n => \E f : RunOf(f, m, S, first, step)}
<1>1. 0 \in Runs
  <2>1. RunOf([i \in 0..0 |-> first], 0, S, first, step)
    BY DEF RunOf
  <2> QED BY <2>1
<1>2. ASSUME NEW m \in Nat, m \in Runs PROVE m + 1 \in Runs
  <2> SUFFICES ASSUME m + 1 <= n PROVE \E f : RunOf(f, m + 1, S, first, step)
    OBVIOUS
  <2>1. PICK f : RunOf(f, m, S, first, step)
    BY <1>2
  <2> DEFINE g == [i \in 0..(m + 1) |-> IF i = m + 1 THEN step[m + 1][f[m]] ELSE f[i]]
  <2>2. m + 1 \in 1..n /\ m \in 0..m /\ f[m] \in S
    BY <2>1 DEF RunOf
  <2>3. step[m + 1] \in [S -> S] /\ step[m + 1][f[m]] \in S
    BY <2>2
  <2>4. g \in [0..(m + 1) -> S]
    BY <2>1, <2>3 DEF RunOf
  <2>5. g[0] = first
    BY <2>1 DEF RunOf
  <2>6. ASSUME NEW i \in 1..(m + 1) PROVE g[i] = step[i][g[i - 1]]
    <3>1. CASE i = m + 1
      BY <3>1
    <3>2. CASE i \in 1..m
      <4>1. g[i] = f[i] /\ g[i - 1] = f[i - 1]
        BY <3>2
      <4> HIDE DEF g
      <4> QED BY <2>1, <3>2, <4>1 DEF RunOf
    <3> QED BY <3>1, <3>2
  <2> HIDE DEF g
  <2>7. RunOf(g, m + 1, S, first, step)
    BY <2>4, <2>5, <2>6 DEF RunOf
  <2> QED BY <2>7
<1> HIDE DEF Runs
<1>3. n \in Runs
  BY <1>1, <1>2, SetInduction
<1> QED BY <1>3 DEF Runs

\* What a run starts in and no step leaves holds of every state of it.
LEMMA RunStays ==
    ASSUME NEW n \in Nat, NEW S, NEW f, f[0] \in S,
           \A i \in 1..n : f[i - 1] \in S => f[i] \in S
    PROVE  \A i \in 0..n : f[i] \in S
<1> DEFINE Inside == {m \in Nat : m <= n => f[m] \in S}
<1>1. 0 \in Inside
  OBVIOUS
<1>2. ASSUME NEW m \in Nat, m \in Inside PROVE m + 1 \in Inside
  <2> SUFFICES ASSUME m + 1 <= n PROVE f[m + 1] \in S
    OBVIOUS
  <2>1. m + 1 \in 1..n /\ (m + 1) - 1 = m /\ f[m] \in S
    BY <1>2
  <2> QED BY <2>1
<1> HIDE DEF Inside
<1>3. \A m \in Nat : m \in Inside
  BY <1>1, <1>2, SetInduction
<1> QED BY <1>3 DEF Inside

-----------------------------------------------------------------------------
(* s sums the first n of the integers w, element by element: what a        *)
(* recursive definition of the sum stands for.                             *)
SumOf(s, w, n) ==
    /\ s \in [0..n -> Int]
    /\ s[0] = 0
    /\ \A i \in 1..n : s[i] = s[i - 1] + w[i]

\* Every finite family of integers has its sums.
LEMMA SumExists ==
    ASSUME NEW n \in Nat, NEW w \in [1..n -> Int]
    PROVE  \E s : SumOf(s, w, n)
<1> DEFINE Summed == {m \in Nat : m <= n => \E s : SumOf(s, w, m)}
<1>1. 0 \in Summed
  <2>1. SumOf([i \in 0..0 |-> 0], w, 0)
    BY DEF SumOf
  <2> QED BY <2>1
<1>2. ASSUME NEW m \in Nat, m \in Summed PROVE m + 1 \in Summed
  <2> SUFFICES ASSUME m + 1 <= n PROVE \E s : SumOf(s, w, m + 1)
    OBVIOUS
  <2>1. PICK s : SumOf(s, w, m)
    BY <1>2
  <2> DEFINE t == [i \in 0..(m + 1) |-> IF i = m + 1 THEN s[m] + w[m + 1] ELSE s[i]]
  <2>2. SumOf(t, w, m + 1)
    <3>1. t \in [0..(m + 1) -> Int] /\ t[0] = 0
      BY <2>1 DEF SumOf
    <3>2. ASSUME NEW i \in 1..(m + 1) PROVE t[i] = t[i - 1] + w[i]
      <4>1. CASE i = m + 1
        BY <4>1
      <4>2. CASE i \in 1..m
        BY <2>1, <4>2 DEF SumOf
      <4> QED BY <4>1, <4>2
    <3> HIDE DEF t
    <3> QED BY <3>1, <3>2 DEF SumOf
  <2> HIDE DEF t
  <2> QED BY <2>2
<1> HIDE DEF Summed
<1>3. n \in Summed
  BY <1>1, <1>2, SetInduction
<1> QED BY <1>3 DEF Summed

\* A family has its sums only once.
LEMMA SumUnique ==
    ASSUME NEW n \in Nat, NEW w, NEW s, NEW t, SumOf(s, w, n), SumOf(t, w, n)
    PROVE  s = t
<1> DEFINE Equal == {m \in Nat : m <= n => s[m] = t[m]}
<1>1. 0 \in Equal
  BY DEF SumOf
<1>2. ASSUME NEW m \in Nat, m \in Equal PROVE m + 1 \in Equal
  <2> SUFFICES ASSUME m + 1 <= n PROVE s[m + 1] = t[m + 1]
    OBVIOUS
  <2>1. m + 1 \in 1..n /\ (m + 1) - 1 = m
    OBVIOUS
  <2> QED BY <1>2, <2>1 DEF SumOf
<1> HIDE DEF Equal
<1>3. \A m \in Nat : m \in Equal
  BY <1>1, <1>2, SetInduction
<1>4. \A m \in 0..n : s[m] = t[m]
  BY <1>3 DEF Equal
<1> QED BY <1>4 DEF SumOf

\* The sums of naturals never go down.
LEMMA SumGrows ==
    ASSUME NEW n \in Nat, NEW w \in [1..n -> Nat], NEW s, SumOf(s, w, n)
    PROVE  \A i, j \in 0..n : i <= j => s[i] <= s[j]
<1> TAKE i \in 0..n
<1> DEFINE Above == {m \in Nat : i + m <= n => s[i] <= s[i + m]}
<1>1. 0 \in Above
  BY DEF SumOf
<1>2. ASSUME NEW m \in Nat, m \in Above PROVE m + 1 \in Above
  <2> SUFFICES ASSUME i + (m + 1) <= n PROVE s[i] <= s[i + (m + 1)]
    OBVIOUS
  <2>1. /\ i + (m + 1) \in 1..n /\ (i + (m + 1)) - 1 = i + m
        /\ i + m \in 0..n /\ i + (m + 1) \in 0..n
    OBVIOUS
  <2>2. s[i + (m + 1)] = s[i + m] + w[i + (m + 1)]
    BY <2>1 DEF SumOf
  <2>3. s[i] \in Int /\ s[i + m] \in Int /\ w[i + (m + 1)] \in Nat /\ s[i] <= s[i + m]
    BY <1>2, <2>1 DEF SumOf
  <2> QED BY <2>2, <2>3
<1> HIDE DEF Above
<1>3. \A m \in Nat : m \in Above
  BY <1>1, <1>2, SetInduction
<1> TAKE j \in 0..n
<1> HAVE i <= j
<1>4. j - i \in Nat /\ i + (j - i) = j /\ i + (j - i) <= n
  OBVIOUS
<1>5. j - i \in Above
  BY <1>3, <1>4
<1> QED BY <1>4, <1>5 DEF Above

\* The first k of a family are summed alike, and the others after them.
LEMMA SumSplits ==
    ASSUME NEW n \in Nat, NEW w \in [1..n -> Int], NEW s, SumOf(s, w, n), NEW k \in 0..n
    PROVE  /\ SumOf([i \in 0..k |-> s[i]], [i \in 1..k |-> w[i]], k)
           /\ SumOf([i \in 0..(n - k) |-> s[k + i] - s[k]], [i \in 1..(n - k) |-> w[k + i]], n - k)
<1>1. SumOf([i \in 0..k |-> s[i]], [i \in 1..k |-> w[i]], k)
  BY DEF SumOf
<1> DEFINE r == [i \in 0..(n - k) |-> s[k + i] - s[k]]
           v == [i \in 1..(n - k) |-> w[k + i]]
<1>2. \A i \in 0..(n - k) : k + i \in 0..n /\ s[k + i] \in Int /\ r[i] = s[k + i] - s[k]
  BY DEF SumOf
<1>3. s[k] \in Int /\ k + 0 = k /\ 0 \in 0..(n - k)
  BY DEF SumOf
<1>4. r \in [0..(n - k) -> Int]
  <2>1. \A i \in 0..(n - k) : s[k + i] - s[k] \in Int
    BY <1>2, <1>3
  <2> QED BY <2>1
<1>5. \A i \in 1..(n - k) : v[i] = w[k + i]
  OBVIOUS
<1> HIDE DEF r, v
<1>6. r[0] = 0
  BY <1>2, <1>3
<1>7. ASSUME NEW i \in 1..(n - k) PROVE r[i] = r[i - 1] + v[i]
  <2>1. i \in 0..(n - k) /\ i - 1 \in 0..(n - k) /\ k + i \in 1..n /\ (k + i) - 1 = k + (i - 1)
    OBVIOUS
  <2>2. s[k + i] = s[k + (i - 1)] + w[k + i] /\ w[k + i] \in Int
    BY <2>1 DEF SumOf
  <2>3. /\ r[i] = s[k + i] - s[k] /\ r[i - 1] = s[k + (i - 1)] - s[k]
        /\ s[k + i] \in Int /\ s[k + (i - 1)] \in Int
    BY <1>2, <2>1
  <2> QED BY <1>3, <1>5, <2>2, <2>3
<1>8. SumOf(r, v, n - k)
  BY <1>4, <1>6, <1>7 DEF SumOf
<1> QED BY <1>1, <1>8 DEF r, v
=============================================================================
