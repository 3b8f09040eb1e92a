------------------------ MODULE BehaviorScan_proofs -------------------------
(***************************************************************************)
(* Proofs about the correlation of signals, for any caps, any modules, any *)
(* patterns and any keywords that fit them: what the prefix of statement   *)
(* boundaries counts, that the sweep over a window decides whether the     *)
(* signals of a rule stand within both caps of each other, that what the   *)
(* keyword pre-screener skips no rule would report, and which rules a scan *)
(* reports therefore.                                                      *)
(***************************************************************************)
EXTENDS BehaviorScan, AhoCorasick_proofs, FiniteSetTheorems

-----------------------------------------------------------------------------
(* The prefix of statement boundaries. *)

ReadState == [count : Nat, content : BOOLEAN, boundary : BOOLEAN]

\* The line has content that no separator has ended.
Open(s) == s.content /\ ~s.boundary

LEMMA AdvanceType ==
    ASSUME NEW s \in ReadState, NEW c
    PROVE  Advance(s, c) \in ReadState
<1>1. s.count \in Nat /\ s.count + 1 \in Nat /\ s.content \in BOOLEAN /\ s.boundary \in BOOLEAN
  BY DEF ReadState
<1>2. LineEnd(s) \in ReadState
  BY <1>1 DEF ReadState, LineEnd
<1> QED BY <1>1, <1>2 DEF ReadState, Advance

\* What one code unit does to the count and to the open line.
LEMMA AdvanceCounts ==
    ASSUME NEW s \in ReadState, NEW c
    PROVE  /\ Advance(s, c).count =
                IF c \in Separators \/ (c = Newline /\ Open(s)) THEN s.count + 1 ELSE s.count
           /\ c \in Separators \cup {Newline} => ~Open(Advance(s, c))
           /\ c \in Blanks => Open(Advance(s, c)) = Open(s)
           /\ c \notin Separators \cup Blanks \cup {Newline} => Open(Advance(s, c))
<1>1. Newline \notin Separators /\ \A b \in Blanks : b \notin Separators /\ b # Newline
  BY DEF Newline, Separators, Blanks
<1>2. CASE c \in Separators
  BY <1>1, <1>2 DEF ReadState, Advance, Open
<1>3. CASE c = Newline
  BY <1>1, <1>3 DEF ReadState, Advance, LineEnd, Open
<1>4. CASE c \in Blanks
  BY <1>1, <1>4 DEF ReadState, Advance, Open
<1>5. CASE c \notin Separators \cup Blanks \cup {Newline}
  BY <1>5 DEF ReadState, Advance, Open
<1> QED BY <1>2, <1>3, <1>4, <1>5

\* f is the run of the loop over the text.
Reads(f, text) ==
    /\ f \in [0..Len(text) -> ReadState]
    /\ f[0] = NoneRead
    /\ \A i \in 1..Len(text) : f[i] = Advance(f[i - 1], text[i])

\* The recursive definition has a solution: the loop's run.
LEMMA PrefixReads ==
    ASSUME NEW text \in Seq(Nat)
    PROVE  \E f : Reads(f, text) /\ SeparatorPrefix(text) = [i \in 0..Len(text) |-> f[i].count]
<1> DEFINE n == Len(text)
           Solves(f) == f = [i \in 0..n |->
                               IF i = 0 THEN NoneRead ELSE Advance(f[i - 1], text[i])]
           prefix == CHOOSE f : Solves(f)
<1>1. n \in Nat /\ NoneRead \in ReadState
  BY DEF NoneRead, ReadState
<1>2. \E f : Solves(f)
  <2> DEFINE step == [i \in 1..n |-> [s \in ReadState |-> Advance(s, text[i])]]
  <2>1. step \in [1..n -> [ReadState -> ReadState]]
    BY AdvanceType
  <2>2. \A i \in 1..n : \A s \in ReadState : step[i][s] = Advance(s, text[i])
    OBVIOUS
  <2> HIDE DEF step, n
  <2>3. PICK f : RunOf(f, n, ReadState, NoneRead, step)
    BY <1>1, <2>1, RunExists
  <2>4. \A i \in 0..n : f[i] = IF i = 0 THEN NoneRead ELSE Advance(f[i - 1], text[i])
    <3> SUFFICES ASSUME NEW i \in 1..n PROVE f[i] = Advance(f[i - 1], text[i])
      BY <2>3 DEF RunOf
    <3>1. i - 1 \in 0..n
      BY <1>1
    <3> QED BY <2>2, <2>3, <3>1 DEF RunOf
  <2>5. f = [i \in 0..n |-> f[i]]
    BY <2>3 DEF RunOf
  <2>6. Solves(f)
    BY <2>4, <2>5
  <2> QED BY <2>6
<1>3. Solves(prefix)
  BY <1>2, Zenon
<1>4. prefix = [i \in 0..n |-> IF i = 0 THEN NoneRead ELSE Advance(prefix[i - 1], text[i])]
  BY <1>3, Zenon
<1>5. SeparatorPrefix(text) = [i \in 0..n |-> prefix[i].count]
  BY Zenon DEF SeparatorPrefix
<1> HIDE DEF n, prefix
<1>6. prefix[0] = NoneRead /\ \A i \in 1..n : prefix[i] = Advance(prefix[i - 1], text[i])
  BY <1>1, <1>4
<1>7. \A i \in 0..n : prefix[i] \in ReadState
  <2> DEFINE Typed == {m \in Nat : m <= n => prefix[m] \in ReadState}
  <2>1. 0 \in Typed
    BY <1>1, <1>6
  <2>2. ASSUME NEW m \in Nat, m \in Typed PROVE m + 1 \in Typed
    <3> SUFFICES ASSUME m + 1 <= n PROVE prefix[m + 1] \in ReadState
      OBVIOUS
    <3>1. m + 1 \in 1..n /\ (m + 1) - 1 = m /\ prefix[m] \in ReadState
      BY <1>1, <2>2
    <3>2. prefix[m + 1] = Advance(prefix[m], text[m + 1])
      BY <1>6, <3>1
    <3> QED BY <3>1, <3>2, AdvanceType
  <2> HIDE DEF Typed
  <2>3. \A m \in Nat : m \in Typed
    BY <2>1, <2>2, SetInduction
  <2> QED BY <1>1, <2>3 DEF Typed
<1>8. prefix \in [0..n -> ReadState]
  <2>1. prefix = [i \in 0..n |-> prefix[i]]
    BY <1>4
  <2> QED BY <1>7, <2>1
<1> QED BY <1>5, <1>6, <1>8 DEF Reads, n

\* The loop's two flags say whether the line is open.
LEMMA ReadsOpen ==
    ASSUME NEW text \in Seq(Nat), NEW f, Reads(f, text)
    PROVE  \A i \in 0..Len(text) : Open(f[i]) <=> LineOpen(text, i)
<1> DEFINE n == Len(text)
           Agrees == {m \in Nat : m <= n => (Open(f[m]) <=> LineOpen(text, m))}
<1>1. 0 \in Agrees
  BY DEF Reads, NoneRead, Open, LineOpen
<1>2. ASSUME NEW m \in Nat, m \in Agrees PROVE m + 1 \in Agrees
  <2> SUFFICES ASSUME m + 1 <= n PROVE Open(f[m + 1]) <=> LineOpen(text, m + 1)
    OBVIOUS
  <2> DEFINE c == At(text, m)
  <2>1. f[m + 1] = Advance(f[m], c) /\ f[m] \in ReadState
    <3>1. m + 1 \in 1..n /\ (m + 1) - 1 = m /\ m \in 0..n
      OBVIOUS
    <3> QED BY <3>1 DEF Reads, At
  <2>2. Open(f[m]) <=> LineOpen(text, m)
    BY <1>2
  <2>3. \A b \in Blanks : b \notin Separators /\ b # Newline
    BY DEF Newline, Separators, Blanks
  <2>4. /\ m \in 0..((m + 1) - 1) /\ \A p \in (m + 1)..((m + 1) - 1) : FALSE
        /\ \A last \in 0..((m + 1) - 1) : last = m \/ (last \in 0..(m - 1) /\ m \in (last + 1)..((m + 1) - 1))
        /\ \A last \in 0..(m - 1) : last \in 0..((m + 1) - 1)
        /\ \A last \in 0..(m - 1) : \A p \in (last + 1)..((m + 1) - 1) : p = m \/ p \in (last + 1)..(m - 1)
        /\ \A last \in 0..(m - 1) : \A p \in (last + 1)..(m - 1) : p \in (last + 1)..((m + 1) - 1)
    OBVIOUS
  <2> HIDE DEF c
  <2>5. CASE c \in Blanks
    <3>1. LineOpen(text, m + 1) => LineOpen(text, m)
      BY <2>3, <2>4, <2>5 DEF LineOpen, c
    <3>2. LineOpen(text, m) => LineOpen(text, m + 1)
      BY <2>4, <2>5 DEF LineOpen, c
    <3> QED BY <2>1, <2>2, <2>5, <3>1, <3>2, AdvanceCounts
  <2>6. CASE c \in Separators \cup {Newline}
    <3>1. ~LineOpen(text, m + 1)
      BY <2>3, <2>4, <2>6 DEF LineOpen, c
    <3> QED BY <2>1, <2>6, <3>1, AdvanceCounts
  <2>7. CASE c \notin Blanks \cup Separators \cup {Newline}
    <3>1. LineOpen(text, m + 1)
      BY <2>4, <2>7 DEF LineOpen, c
    <3> QED BY <2>1, <2>7, <3>1, AdvanceCounts
  <2> QED BY <2>5, <2>6, <2>7
<1> HIDE DEF Agrees
<1>3. \A m \in Nat : m \in Agrees
  BY <1>1, <1>2, SetInduction
<1> QED BY <1>3 DEF Agrees

\* What the prefix counts between two offsets are the boundaries there.
LEMMA PrefixCounts ==
    ASSUME NEW text \in Seq(Nat)
    PROVE  /\ SeparatorPrefix(text) \in [0..Len(text) -> Nat]
           /\ \A lo, hi \in 0..Len(text) : lo <= hi =>
                /\ BoundariesBetween(text, lo, hi) \in Nat
                /\ SeparatorPrefix(text)[hi]
                     = SeparatorPrefix(text)[lo] + BoundariesBetween(text, lo, hi)
<1> DEFINE n == Len(text)
<1>1. PICK f : Reads(f, text) /\ SeparatorPrefix(text) = [i \in 0..n |-> f[i].count]
  BY PrefixReads
<1>2. n \in Nat /\ \A i \in 0..n : f[i] \in ReadState /\ f[i].count \in Nat
  <2>1. \A i \in 0..n : f[i] \in ReadState
    BY <1>1 DEF Reads
  <2> QED BY <2>1 DEF ReadState
<1> HIDE DEF n
<1>3. SeparatorPrefix(text) \in [0..n -> Nat]
  BY <1>1, <1>2
<1>4. ASSUME NEW i \in 1..n
      PROVE  f[i].count = IF Boundary(text, i - 1) THEN f[i - 1].count + 1 ELSE f[i - 1].count
  <2>1. i - 1 \in 0..n /\ f[i - 1] \in ReadState /\ f[i] = Advance(f[i - 1], text[i])
    <3>1. i - 1 \in 0..n
      BY <1>2
    <3>2. f[i] = Advance(f[i - 1], text[i])
      BY <1>1 DEF Reads, n
    <3> QED BY <1>2, <3>1, <3>2
  <2>2. At(text, i - 1) = text[i]
    BY <1>2 DEF At
  <2>3. Open(f[i - 1]) <=> LineOpen(text, i - 1)
    BY <1>1, <2>1, ReadsOpen DEF n
  <2>4. Boundary(text, i - 1) <=>
          (text[i] \in Separators \/ (text[i] = Newline /\ Open(f[i - 1])))
    BY <2>2, <2>3 DEF Boundary, LineOpen
  <2> QED BY <2>1, <2>4, AdvanceCounts
<1>5. ASSUME NEW lo \in 0..n
      PROVE  \A m \in Nat : lo + m <= n =>
               /\ IsFiniteSet({pos \in lo..(lo + m - 1) : Boundary(text, pos)})
               /\ f[lo + m].count = f[lo].count + BoundariesBetween(text, lo, lo + m)
  <2> DEFINE Found(m) == {pos \in lo..(lo + m - 1) : Boundary(text, pos)}
             Counted == {m \in Nat : lo + m <= n =>
                           /\ IsFiniteSet(Found(m))
                           /\ f[lo + m].count = f[lo].count + Cardinality(Found(m))}
  <2>1. 0 \in Counted
    <3>1. Found(0) = {} /\ lo + 0 = lo
      BY <1>2
    <3>2. f[lo].count = f[lo].count + 0
      BY <1>2
    <3> HIDE DEF Found
    <3> QED BY <3>1, <3>2, FS_EmptySet
  <2>2. ASSUME NEW m \in Nat, m \in Counted PROVE m + 1 \in Counted
    <3> SUFFICES ASSUME lo + (m + 1) <= n
                 PROVE  /\ IsFiniteSet(Found(m + 1))
                        /\ f[lo + (m + 1)].count = f[lo].count + Cardinality(Found(m + 1))
      OBVIOUS
    <3>1. /\ lo + (m + 1) \in 1..n /\ (lo + (m + 1)) - 1 = lo + m
          /\ lo + m \in 0..n /\ lo \in Nat
      BY <1>2
    <3>2. IsFiniteSet(Found(m)) /\ f[lo + m].count = f[lo].count + Cardinality(Found(m))
      BY <2>2, <3>1
    <3>3. f[lo + (m + 1)].count =
            IF Boundary(text, lo + m) THEN f[lo + m].count + 1 ELSE f[lo + m].count
      BY <1>4, <3>1
    <3>4. lo + m \notin Found(m)
      BY <3>1
    <3>5. CASE Boundary(text, lo + m)
      <4>1. Found(m + 1) = Found(m) \cup {lo + m}
        BY <3>1, <3>5
      <4>2. Cardinality(Found(m)) \in Nat
        BY <3>2, FS_CardinalityType
      <4> HIDE DEF Found
      <4>3. IsFiniteSet(Found(m + 1)) /\ Cardinality(Found(m + 1)) = Cardinality(Found(m)) + 1
        BY <3>2, <3>4, <4>1, FS_AddElement
      <4>4. f[lo].count \in Nat /\ f[lo + m].count \in Nat
        BY <1>2, <3>1
      <4>5. f[lo + (m + 1)].count = f[lo + m].count + 1
        BY <3>3, <3>5
      <4>6. f[lo + (m + 1)].count = f[lo].count + (Cardinality(Found(m)) + 1)
        <5>1. f[lo + (m + 1)].count = (f[lo].count + Cardinality(Found(m))) + 1
          BY <3>2, <4>5
        <5>2. \A a, b \in Nat : (a + b) + 1 = a + (b + 1)
          OBVIOUS
        <5> QED BY <4>2, <4>4, <5>1, <5>2
      <4> QED BY <4>3, <4>6
    <3>6. CASE ~Boundary(text, lo + m)
      <4>1. Found(m + 1) = Found(m)
        <5>1. \A pos \in lo..(lo + (m + 1) - 1) : pos = lo + m \/ pos \in lo..(lo + m - 1)
          BY <3>1
        <5>2. \A pos \in lo..(lo + m - 1) : pos \in lo..(lo + (m + 1) - 1)
          BY <3>1
        <5> QED BY <3>6, <5>1, <5>2
      <4> HIDE DEF Found
      <4> QED BY <3>2, <3>3, <3>6, <4>1
    <3> QED BY <3>5, <3>6
  <2> HIDE DEF Counted
  <2>3. \A m \in Nat : m \in Counted
    BY <2>1, <2>2, SetInduction
  <2>4. \A m \in Nat : Found(m) = {pos \in lo..((lo + m) - 1) : Boundary(text, pos)}
    OBVIOUS
  <2> QED BY <2>3, <2>4 DEF Counted, BoundariesBetween
<1>6. ASSUME NEW lo \in 0..n, NEW hi \in 0..n, lo <= hi
      PROVE  /\ BoundariesBetween(text, lo, hi) \in Nat
             /\ SeparatorPrefix(text)[hi]
                  = SeparatorPrefix(text)[lo] + BoundariesBetween(text, lo, hi)
  <2>1. hi - lo \in Nat /\ lo + (hi - lo) = hi /\ lo + (hi - lo) <= n
    BY <1>2, <1>6
  <2>2. /\ IsFiniteSet({pos \in lo..(lo + (hi - lo) - 1) : Boundary(text, pos)})
        /\ f[hi].count = f[lo].count + BoundariesBetween(text, lo, hi)
    BY <1>5, <2>1
  <2>3. BoundariesBetween(text, lo, hi) \in Nat
    BY <2>1, <2>2, FS_CardinalityType DEF BoundariesBetween
  <2> QED BY <1>1, <2>2, <2>3
<1> QED BY <1>3, <1>6 DEF n

-----------------------------------------------------------------------------
(* The sorted points. *)

Point == [pos : Nat, group : Nat]

LEMMA BeforeOrders ==
    ASSUME NEW p \in Point, NEW q \in Point
    PROVE  /\ p.pos \in Nat /\ p.group \in Nat
           /\ ~Before(p, p)
           /\ p # q => Before(p, q) \/ Before(q, p)
           /\ Before(p, q) => ~Before(q, p)
           /\ Before(p, q) => p.pos <= q.pos
           /\ \A r \in Point : Before(r, p) /\ Before(p, q) => Before(r, q)
BY DEF Point, Before

\* Every point has a place of its own.
LEMMA Ranks ==
    ASSUME NEW ps \in SUBSET Point, IsFiniteSet(ps)
    PROVE  /\ Cardinality(ps) \in Nat
           /\ \A p \in ps : Rank(ps, p) \in 0..(Cardinality(ps) - 1)
           /\ \A p, q \in ps : Before(p, q) => Rank(ps, p) < Rank(ps, q)
<1> DEFINE Below(p) == {q \in ps : Before(q, p)}
<1>1. \A p \in ps : p \in Point /\ Rank(ps, p) = Cardinality(Below(p))
  BY DEF Rank
<1>2. Cardinality(ps) \in Nat
  BY FS_CardinalityType
<1>3. ASSUME NEW p \in ps
      PROVE  /\ IsFiniteSet(Below(p)) /\ Cardinality(Below(p)) \in Nat
             /\ Cardinality(Below(p)) <= Cardinality(ps) - 1
  <2>1. Below(p) \in SUBSET (ps \ {p})
    BY <1>1, BeforeOrders
  <2>2. IsFiniteSet(ps \ {p}) /\ Cardinality(ps \ {p}) = Cardinality(ps) - 1
    BY FS_RemoveElement
  <2> HIDE DEF Below
  <2>3. IsFiniteSet(Below(p)) /\ Cardinality(Below(p)) <= Cardinality(ps \ {p})
    BY <2>1, <2>2, FS_Subset
  <2> QED BY <2>2, <2>3, FS_CardinalityType
<1>4. ASSUME NEW p \in ps, NEW q \in ps, Before(p, q)
      PROVE  Cardinality(Below(p)) < Cardinality(Below(q))
  <2>1. p \notin Below(p) /\ (Below(p) \cup {p}) \in SUBSET Below(q)
    BY <1>1, <1>4, BeforeOrders
  <2> HIDE DEF Below
  <2>2. Cardinality(Below(p) \cup {p}) = Cardinality(Below(p)) + 1
    BY <1>3, <2>1, FS_AddElement
  <2>3. Cardinality(Below(p) \cup {p}) <= Cardinality(Below(q))
    BY <1>3, <2>1, FS_Subset
  <2> QED BY <1>3, <2>2, <2>3
<1> HIDE DEF Below
<1> QED BY <1>1, <1>2, <1>3, <1>4

\* sort() keeps every point and puts the positions in order.
LEMMA SortedPoints ==
    ASSUME NEW ps \in SUBSET Point, IsFiniteSet(ps)
    PROVE  /\ Sorted(ps) \in [1..Cardinality(ps) -> ps]
           /\ \A p \in ps : \E i \in 1..Cardinality(ps) : Sorted(ps)[i] = p
           /\ \A i, j \in 1..Cardinality(ps) : i <= j => Sorted(ps)[i].pos <= Sorted(ps)[j].pos
<1> DEFINE n == Cardinality(ps)
           Place == 0..(n - 1)
           rank == [p \in ps |-> Rank(ps, p)]
<1>1. n \in Nat /\ \A p \in ps : p \in Point
  BY FS_CardinalityType
<1>2. \A p \in ps : Rank(ps, p) \in Place
  BY Ranks
<1>3. \A p, q \in ps : Rank(ps, p) = Rank(ps, q) => p = q
  <2> SUFFICES ASSUME NEW p \in ps, NEW q \in ps, p # q PROVE Rank(ps, p) # Rank(ps, q)
    OBVIOUS
  <2>1. Before(p, q) \/ Before(q, p)
    BY <1>1, BeforeOrders
  <2>2. Rank(ps, p) \in Int /\ Rank(ps, q) \in Int
    BY <1>1, <1>2
  <2>3. Rank(ps, p) < Rank(ps, q) \/ Rank(ps, q) < Rank(ps, p)
    BY <2>1, Ranks
  <2> QED BY <2>2, <2>3
<1>4. IsFiniteSet(Place) /\ Cardinality(Place) = n
  <2>1. 0 \in Int /\ n - 1 \in Int
    BY <1>1
  <2> HIDE DEF n
  <2> QED BY <1>1, <2>1, FS_Interval
<1>5. rank \in Injection(ps, Place)
  BY <1>2, <1>3 DEF Injection, IsInjective
<1> HIDE DEF n, Place, rank
<1>6. rank \in Surjection(ps, Place)
  BY <1>4, <1>5, FS_Injection DEF n
<1>7. \A k \in Place : \E p \in ps : Rank(ps, p) = k
  BY <1>6 DEF Surjection, rank
<1>8. \A i \in 1..n : Sorted(ps)[i] \in ps /\ Rank(ps, Sorted(ps)[i]) = i - 1
  <2> TAKE i \in 1..n
  <2>1. i - 1 \in Place
    BY <1>1 DEF Place
  <2>2. Sorted(ps)[i] = CHOOSE p \in ps : Rank(ps, p) = i - 1
    BY DEF Sorted, n
  <2> QED BY <1>7, <2>1, <2>2
<1>9. Sorted(ps) \in [1..n -> ps]
  BY <1>8 DEF Sorted, n
<1>10. ASSUME NEW p \in ps PROVE \E i \in 1..n : Sorted(ps)[i] = p
  <2>1. Rank(ps, p) + 1 \in 1..n /\ (Rank(ps, p) + 1) - 1 = Rank(ps, p)
    BY <1>1, <1>2 DEF Place
  <2> QED BY <1>3, <1>8, <2>1
<1>11. ASSUME NEW i \in 1..n, NEW j \in 1..n, i <= j
       PROVE  Sorted(ps)[i].pos <= Sorted(ps)[j].pos
  <2> DEFINE p == Sorted(ps)[i]
             q == Sorted(ps)[j]
  <2>1. p \in ps /\ q \in ps /\ Rank(ps, p) <= Rank(ps, q)
    BY <1>8, <1>11
  <2> HIDE DEF p, q
  <2>2. ~Before(q, p)
    <3>1. Rank(ps, p) \in Int /\ Rank(ps, q) \in Int
      BY <1>1, <1>2, <2>1 DEF Place
    <3>2. Before(q, p) => Rank(ps, q) < Rank(ps, p)
      BY <2>1, Ranks
    <3> QED BY <2>1, <3>1, <3>2
  <2>3. p.pos <= q.pos
    BY <1>1, <2>1, <2>2, BeforeOrders
  <2> QED BY <2>3 DEF p, q
<1> QED BY <1>9, <1>10, <1>11 DEF n

-----------------------------------------------------------------------------
(* The sweep, for one text and the groups of one rule. *)

Grouped(text, groups) == groups \in Seq(SUBSET Offsets(text)) /\ groups # <<>>

LEMMA PointsType ==
    ASSUME NEW text \in Seq(Nat), NEW groups, Grouped(text, groups)
    PROVE  /\ Points(groups) \in SUBSET Point
           /\ IsFiniteSet(Points(groups))
           /\ \A p \in Points(groups) : /\ p.group \in DOMAIN groups
                                        /\ p.pos \in groups[p.group]
                                        /\ p.pos \in Offsets(text)
           /\ \A g \in DOMAIN groups : \A pos \in groups[g] :
                [pos |-> pos, group |-> g] \in Points(groups)
<1> DEFINE n == Len(text)
           k == Len(groups)
<1>1. /\ n \in Nat /\ k \in Nat /\ DOMAIN groups = 1..k
      /\ \A g \in 1..k : groups[g] \in SUBSET (0..(n - 1))
  BY ElementOfSeq DEF Grouped, Offsets
<1>2. /\ \A p \in Points(groups) : \E g \in 1..k : \E pos \in groups[g] :
           p = [pos |-> pos, group |-> g]
      /\ \A g \in 1..k : \A pos \in groups[g] : [pos |-> pos, group |-> g] \in Points(groups)
  BY <1>1 DEF Points
<1> HIDE DEF n, k
<1>3. \A p \in Points(groups) :
        /\ p \in Point /\ p.group \in 1..k /\ p.pos \in groups[p.group] /\ p.pos \in 0..(n - 1)
        /\ p = [pos |-> p.pos, group |-> p.group]
  <2> TAKE p \in Points(groups)
  <2>1. PICK g \in 1..k : \E pos \in groups[g] : p = [pos |-> pos, group |-> g]
    BY <1>2
  <2>2. PICK pos \in groups[g] : p = [pos |-> pos, group |-> g]
    BY <2>1
  <2>3. pos \in 0..(n - 1) /\ pos \in Nat /\ g \in Nat
    BY <1>1
  <2> QED BY <2>2, <2>3 DEF Point
<1>4. IsFiniteSet(Points(groups))
  <2> DEFINE Grid == (0..(n - 1)) \X (1..k)
             place == [p \in Points(groups) |-> <<p.pos, p.group>>]
  <2>1. IsFiniteSet(0..(n - 1)) /\ IsFiniteSet(1..k)
    <3>1. 0 \in Int /\ n - 1 \in Int /\ 1 \in Int /\ k \in Int
      BY <1>1
    <3> QED BY <3>1, FS_Interval
  <2>2. IsFiniteSet(Grid)
    BY <2>1, FS_Product
  <2>3. place \in Injection(Points(groups), Grid)
    <3>1. place \in [Points(groups) -> Grid]
      BY <1>3
    <3>2. \A p, q \in Points(groups) : place[p] = place[q] => p = q
      BY <1>3
    <3> HIDE DEF place
    <3> QED BY <3>1, <3>2 DEF Injection, IsInjective
  <2> HIDE DEF Grid, place
  <2> QED BY <2>2, <2>3, FS_Injection
<1>5. Points(groups) \in SUBSET Point
  BY <1>3
<1> QED BY <1>1, <1>2, <1>3, <1>4, <1>5 DEF Offsets, n, k

(* What the sweep reads and never changes.                                 *)
SortedOK(pts, text, groups) ==
    /\ pts \in Seq(Point)
    /\ \A i \in 1..Len(pts) : /\ pts[i].group \in DOMAIN groups
                              /\ pts[i].pos \in groups[pts[i].group]
                              /\ pts[i].pos \in Offsets(text)
    /\ \A g \in DOMAIN groups : \A pos \in groups[g] :
         \E i \in 1..Len(pts) : pts[i].pos = pos /\ pts[i].group = g
    /\ \A i, j \in 1..Len(pts) : i <= j => pts[i].pos <= pts[j].pos

SumsOK(s, text) ==
    \A lo, hi \in 0..Len(text) : lo <= hi =>
        /\ s[lo] \in Nat /\ s[hi] \in Nat /\ BoundariesBetween(text, lo, hi) \in Nat
        /\ s[hi] = s[lo] + BoundariesBetween(text, lo, hi)

PointsOK(text, groups) == SortedOK(points, text, groups)
PrefixOK(text) == SumsOK(sep, text)

LEMMA SweepReads ==
    ASSUME NEW text \in Seq(Nat), NEW groups, Grouped(text, groups)
    PROVE  /\ SumsOK(SeparatorPrefix(text), text)
           /\ SortedOK(Sorted(Points(groups)), text, groups)
           /\ (\A g \in DOMAIN groups : groups[g] # {}) => Len(Sorted(Points(groups))) > 0
<1>1. SumsOK(SeparatorPrefix(text), text)
  BY PrefixCounts DEF SumsOK
<1> DEFINE ps == Points(groups)
           n == Cardinality(ps)
           pts == Sorted(ps)
<1>2. /\ ps \in SUBSET Point /\ IsFiniteSet(ps)
      /\ \A p \in ps : /\ p.group \in DOMAIN groups /\ p.pos \in groups[p.group]
                       /\ p.pos \in Offsets(text)
      /\ \A g \in DOMAIN groups : \A pos \in groups[g] : [pos |-> pos, group |-> g] \in ps
  BY PointsType
<1> HIDE DEF ps
<1>3. /\ pts \in [1..n -> ps]
      /\ \A p \in ps : \E i \in 1..n : pts[i] = p
      /\ \A i, j \in 1..n : i <= j => pts[i].pos <= pts[j].pos
  BY <1>2, SortedPoints
<1>4. n \in Nat
  BY <1>2, FS_CardinalityType
<1> HIDE DEF n, pts
<1>5. pts \in Seq(Point) /\ Len(pts) = n
  <2>1. pts \in Seq(ps) /\ Len(pts) = n
    BY <1>3, <1>4
  <2>2. \A i \in 1..n : pts[i] \in Point
    BY <1>2, <1>3
  <2>3. pts = [i \in 1..n |-> pts[i]]
    BY <1>3
  <2> QED BY <1>4, <2>1, <2>2, <2>3
<1>6. \A g \in DOMAIN groups : \A pos \in groups[g] :
        \E i \in 1..n : pts[i].pos = pos /\ pts[i].group = g
  <2> TAKE g \in DOMAIN groups
  <2> TAKE pos \in groups[g]
  <2>1. PICK i \in 1..n : pts[i] = [pos |-> pos, group |-> g]
    BY <1>2, <1>3
  <2> QED BY <2>1
<1>7. SortedOK(pts, text, groups)
  BY <1>2, <1>3, <1>5, <1>6 DEF SortedOK
<1>8. ASSUME \A g \in DOMAIN groups : groups[g] # {} PROVE Len(pts) > 0
  <2>1. 1 \in DOMAIN groups
    BY DEF Grouped
  <2>2. PICK pos \in groups[1] : TRUE
    BY <1>8, <2>1
  <2>3. PICK i \in 1..n : pts[i].pos = pos
    BY <1>6, <2>1
  <2> QED BY <1>4, <1>5, <2>3
<1> QED BY <1>1, <1>7, <1>8 DEF pts, ps

(* The points i and j are further apart than one of the caps allows.       *)
Wide(i, j) ==
    \/ points[j].pos - points[i].pos > MaxChars
    \/ sep[points[j].pos] - sep[points[i].pos] > MaxSeparators

\* Both distances grow with the window.
LEMMA WideGrows ==
    ASSUME NEW text \in Seq(Nat), NEW groups, PointsOK(text, groups), PrefixOK(text)
    PROVE  /\ \A i \in 1..Len(points) : ~Wide(i, i)
           /\ \A i, j, k \in 1..Len(points) : j <= k /\ Wide(i, j) => Wide(i, k)
<1>1. ASSUME NEW i \in 1..Len(points)
      PROVE  points[i].pos \in Nat /\ points[i].pos \in 0..Len(text) /\ sep[points[i].pos] \in Nat
  <2>1. Len(text) \in Nat /\ points[i].pos \in 0..(Len(text) - 1)
    BY DEF PointsOK, SortedOK, Offsets
  <2>2. points[i].pos \in 0..Len(text)
    BY <2>1
  <2> QED BY <2>1, <2>2 DEF PrefixOK, SumsOK
<1>2. ASSUME NEW i \in 1..Len(points) PROVE ~Wide(i, i)
  <2>1. /\ points[i].pos - points[i].pos = 0
        /\ sep[points[i].pos] - sep[points[i].pos] = 0
    BY <1>1
  <2> QED BY <2>1, SweepAssumption DEF Wide
<1>3. ASSUME NEW i \in 1..Len(points), NEW j \in 1..Len(points), NEW k \in 1..Len(points),
             j <= k, Wide(i, j)
      PROVE  Wide(i, k)
  <2> DEFINE a == points[i].pos
             b == points[j].pos
             c == points[k].pos
  <2>1. /\ a \in Nat /\ b \in Nat /\ c \in Nat
        /\ sep[a] \in Nat /\ sep[b] \in Nat /\ sep[c] \in Nat
        /\ b \in 0..Len(text) /\ c \in 0..Len(text)
    BY <1>1
  <2>2. b <= c
    BY <1>3 DEF PointsOK, SortedOK
  <2>3. b - a > MaxChars \/ sep[b] - sep[a] > MaxSeparators
    BY <1>3 DEF Wide
  <2> HIDE DEF a, b, c
  <2>4. sep[b] <= sep[c]
    BY <2>1, <2>2 DEF PrefixOK, SumsOK
  <2>5. c - a > MaxChars \/ sep[c] - sep[a] > MaxSeparators
    BY <2>1, <2>2, <2>3, <2>4, SweepAssumption
  <2> QED BY <2>5 DEF Wide, a, c
<1> QED BY <1>2, <1>3

Inside(g, lo, hi) == {i \in lo..hi : points[i].group = g}
Filled == {g \in DOMAIN counts : counts[g] > 0}

\* The points i to j hold one of every group.
Covers(i, j, groups) == \A g \in DOMAIN groups : \E k \in i..j : points[k].group = g

(* What the loop knows: its counters describe the window up to `last', the *)
(* points before it are too far from the one it ends at, and no window     *)
(* that ends earlier would have done.                                      *)
Counted(last) ==
    /\ \A g \in DOMAIN counts : counts[g] = Cardinality(Inside(g, left, last))
    /\ filled = Cardinality(Filled)

LoopInv(groups, last) ==
    /\ counts \in [DOMAIN groups -> Nat] /\ counts \in Seq(Nat)
    /\ left \in Nat \ {0} /\ right \in Nat /\ left <= right /\ right <= Len(points)
    /\ Counted(last)
    /\ \A i \in 1..(left - 1) : Wide(i, right)
    /\ \A j \in 1..(right - 1) : \A i \in 1..j : Wide(i, j) \/ ~Covers(i, j, groups)

SweepInv(groups) ==
    /\ sweep \in {"count", "shrink", "yes", "no"}
    /\ sweep = "count" => LoopInv(groups, right - 1)
    /\ sweep = "shrink" => LoopInv(groups, right)
    /\ sweep = "yes" =>
         \E j \in 1..Len(points) : \E i \in 1..j : ~Wide(i, j) /\ Covers(i, j, groups)
    /\ sweep = "no" =>
         \/ \E g \in DOMAIN groups : groups[g] = {}
         \/ \A j \in 1..Len(points) : \A i \in 1..j : Wide(i, j) \/ ~Covers(i, j, groups)

LEMMA InsideFinite ==
    ASSUME NEW g, NEW lo \in Int, NEW hi \in Int
    PROVE  IsFiniteSet(Inside(g, lo, hi)) /\ Cardinality(Inside(g, lo, hi)) \in Nat
<1>1. IsFiniteSet(lo..hi) /\ Inside(g, lo, hi) \in SUBSET (lo..hi)
  BY FS_Interval DEF Inside
<1>2. IsFiniteSet(Inside(g, lo, hi))
  BY <1>1, FS_Subset
<1> QED BY <1>2, FS_CardinalityType

LEMMA FilledFinite ==
    ASSUME NEW groups \in Seq(SUBSET Nat), DOMAIN counts = DOMAIN groups
    PROVE  IsFiniteSet(Filled) /\ Cardinality(Filled) \in Nat /\ Cardinality(Filled) <= Len(groups)
<1>1. Len(groups) \in Nat /\ DOMAIN groups = 1..Len(groups)
  OBVIOUS
<1>2. IsFiniteSet(1..Len(groups)) /\ Cardinality(1..Len(groups)) = Len(groups)
  <2>1. 1 \in Int /\ Len(groups) \in Int
    BY <1>1
  <2>2. IsFiniteSet(1..Len(groups)) /\ Cardinality(1..Len(groups))
          = IF 1 > Len(groups) THEN 0 ELSE Len(groups) - 1 + 1
    BY <2>1, FS_Interval
  <2> QED BY <1>1, <2>2
<1>3. Filled \in SUBSET (1..Len(groups))
  BY <1>1 DEF Filled
<1>4. IsFiniteSet(Filled) /\ Cardinality(Filled) <= Len(groups)
  BY <1>2, <1>3, FS_Subset
<1> QED BY <1>4, FS_CardinalityType

LEMMA StartSweepKeeps ==
    ASSUME NEW text \in Seq(Nat), NEW groups, Grouped(text, groups),
           StartSweep(groups, SeparatorPrefix(text))
    PROVE  PointsOK(text, groups)' /\ PrefixOK(text)' /\ SweepInv(groups)'
<1>1. /\ sep' = SeparatorPrefix(text) /\ points' = Sorted(Points(groups))
      /\ left' = 1 /\ right' = 1 /\ counts' = [g \in DOMAIN groups |-> 0] /\ filled' = 0
      /\ sweep' = IF \E g \in DOMAIN groups : groups[g] = {} THEN "no" ELSE "count"
  BY DEF StartSweep
<1>2. PointsOK(text, groups)' /\ PrefixOK(text)'
  BY <1>1, SweepReads DEF PointsOK, PrefixOK
<1>3. sweep' = "no" => \E g \in DOMAIN groups : groups[g] = {}
  BY <1>1
<1>4. ASSUME sweep' = "count" PROVE LoopInv(groups, right - 1)'
  <2>1. Len(points)' \in Nat /\ Len(points') > 0
    BY <1>1, <1>2, <1>4, SweepReads DEF PointsOK, SortedOK
  <2>2. counts' \in [DOMAIN groups -> Nat] /\ counts' \in Seq(Nat)
    BY <1>1 DEF Grouped
  <2>3. \A g : Inside(g, left, right - 1)' = {}
    BY <1>1 DEF Inside
  <2>4. Filled' = {}
    BY <1>1 DEF Filled
  <2>5. Counted(right - 1)'
    BY <1>1, <2>3, <2>4, FS_EmptySet DEF Counted
  <2>6. /\ \A i \in 1..(left' - 1) : FALSE
        /\ \A j \in 1..(right' - 1) : FALSE
    BY <1>1
  <2> QED BY <1>1, <2>1, <2>2, <2>5, <2>6 DEF LoopInv
<1> QED BY <1>1, <1>2, <1>3, <1>4 DEF SweepInv

LEMMA CountRightKeeps ==
    ASSUME NEW text \in Seq(Nat), NEW groups, Grouped(text, groups),
           PointsOK(text, groups), PrefixOK(text), SweepInv(groups), CountRight
    PROVE  SweepInv(groups)'
<1> DEFINE g0 == points[right].group
<1>1. /\ UNCHANGED <<sep, points, left, right>> /\ sweep' = "shrink"
      /\ counts' = [counts EXCEPT ![g0] = @ + 1]
      /\ filled' = IF counts[g0] = 0 THEN filled + 1 ELSE filled
  BY DEF CountRight
<1>2. LoopInv(groups, right - 1) /\ right \in 1..Len(points) /\ g0 \in DOMAIN groups
  <2>1. LoopInv(groups, right - 1)
    BY DEF CountRight, SweepInv
  <2>2. right \in 1..Len(points)
    BY <2>1 DEF LoopInv
  <2> QED BY <2>1, <2>2 DEF PointsOK, SortedOK
<1>3. counts \in [DOMAIN groups -> Nat] /\ DOMAIN counts = DOMAIN groups /\ counts \in Seq(Nat)
  BY <1>2 DEF LoopInv
<1> HIDE DEF g0
<1>4. counts' \in [DOMAIN groups -> Nat] /\ counts' \in Seq(Nat)
  BY <1>1, <1>2, <1>3
<1>5. left \in Nat \ {0} /\ right \in Nat /\ left <= right
  BY <1>2 DEF LoopInv
<1>6. ASSUME NEW g \in DOMAIN counts
      PROVE  counts'[g] = Cardinality(Inside(g, left, right))
  <2>1. /\ IsFiniteSet(Inside(g, left, right - 1))
        /\ counts[g] = Cardinality(Inside(g, left, right - 1)) /\ counts[g] \in Nat
    BY <1>2, <1>3, <1>5, InsideFinite DEF LoopInv, Counted
  <2>2. right \notin Inside(g, left, right - 1)
    BY <1>5 DEF Inside
  <2>3. CASE g = g0
    <3>1. Inside(g, left, right) = Inside(g, left, right - 1) \cup {right}
      BY <1>5, <2>3 DEF Inside, g0
    <3>2. counts'[g] = counts[g] + 1
      BY <1>1, <1>3, <2>3
    <3> QED BY <2>1, <2>2, <3>1, <3>2, FS_AddElement
  <2>4. CASE g # g0
    <3>1. \A i \in left..right : i = right \/ i \in left..(right - 1)
      BY <1>5
    <3>2. Inside(g, left, right) = Inside(g, left, right - 1)
      BY <1>5, <2>4, <3>1 DEF Inside, g0
    <3>3. counts'[g] = counts[g]
      BY <1>1, <1>3, <2>4
    <3> QED BY <2>1, <3>2, <3>3
  <2> QED BY <2>3, <2>4
<1>7. filled' = Cardinality(Filled')
  <2>1. IsFiniteSet(Filled) /\ filled = Cardinality(Filled) /\ filled \in Nat
    <3>1. groups \in Seq(SUBSET Nat)
      BY DEF Grouped, Offsets
    <3> QED BY <1>2, <1>3, <3>1, FilledFinite DEF LoopInv, Counted
  <2>2. Filled' = Filled \cup {g0}
    BY <1>1, <1>2, <1>3 DEF Filled
  <2>3. g0 \in Filled <=> counts[g0] # 0
    BY <1>2, <1>3 DEF Filled
  <2> QED BY <1>1, <2>1, <2>2, <2>3, FS_AddElement
<1>8. Counted(right)'
  <2>1. \A g : Inside(g, left, right)' = Inside(g, left, right)
    BY <1>1 DEF Inside
  <2>2. DOMAIN counts' = DOMAIN counts
    BY <1>1
  <2> QED BY <1>6, <1>7, <2>1, <2>2 DEF Counted
<1>9. LoopInv(groups, right)'
  BY <1>1, <1>2, <1>4, <1>8 DEF LoopInv, Wide, Covers
<1> QED BY <1>1, <1>9 DEF SweepInv

LEMMA ShrinkLeftKeeps ==
    ASSUME NEW text \in Seq(Nat), NEW groups, Grouped(text, groups),
           PointsOK(text, groups), PrefixOK(text), SweepInv(groups), ShrinkLeft
    PROVE  SweepInv(groups)'
<1> DEFINE g0 == points[left].group
<1>1. /\ UNCHANGED <<sep, points, right, sweep>> /\ sweep = "shrink" /\ left' = left + 1
      /\ counts' = [counts EXCEPT ![g0] = @ - 1]
      /\ filled' = IF counts[g0] = 1 THEN filled - 1 ELSE filled
      /\ Wide(left, right)
  BY DEF ShrinkLeft, TooWide, Wide
<1>2. LoopInv(groups, right)
  BY <1>1 DEF SweepInv
<1>3. /\ left \in Nat \ {0} /\ right \in Nat /\ left <= right /\ Len(points) \in Nat
      /\ left \in 1..Len(points) /\ right \in 1..Len(points)
  BY <1>2 DEF LoopInv, PointsOK, SortedOK
<1>4. left < right /\ left + 1 <= right /\ left + 1 \in Nat \ {0}
  BY <1>1, <1>3, WideGrows
<1>5. /\ counts \in [DOMAIN groups -> Nat] /\ DOMAIN counts = DOMAIN groups
      /\ counts \in Seq(Nat) /\ g0 \in DOMAIN groups
  BY <1>2, <1>3 DEF LoopInv, PointsOK, SortedOK
<1>6. \A g \in DOMAIN counts :
        /\ IsFiniteSet(Inside(g, left, right))
        /\ counts[g] = Cardinality(Inside(g, left, right)) /\ counts[g] \in Nat
  BY <1>2, <1>3, <1>5, InsideFinite DEF LoopInv, Counted
<1>7. left \in Inside(g0, left, right)
  BY <1>3 DEF Inside
<1> HIDE DEF g0
<1>8. counts[g0] # 0
  BY <1>5, <1>6, <1>7, FS_EmptySet
<1>9. counts' \in [DOMAIN groups -> Nat] /\ counts' \in Seq(Nat)
  <2>1. counts[g0] - 1 \in Nat
    BY <1>5, <1>8
  <2> QED BY <1>1, <1>5, <2>1
<1>10. ASSUME NEW g \in DOMAIN counts
       PROVE  counts'[g] = Cardinality(Inside(g, left + 1, right))
  <2>1. CASE g = g0
    <3>1. Inside(g, left + 1, right) = Inside(g, left, right) \ {left}
      BY <1>3, <2>1 DEF Inside, g0
    <3>2. counts'[g] = counts[g] - 1
      BY <1>1, <1>5, <2>1
    <3> QED BY <1>6, <1>7, <2>1, <3>1, <3>2, FS_RemoveElement
  <2>2. CASE g # g0
    <3>1. \A i \in left..right : i = left \/ i \in (left + 1)..right
      BY <1>3
    <3>2. Inside(g, left + 1, right) = Inside(g, left, right)
      BY <1>3, <2>2, <3>1 DEF Inside, g0
    <3>3. counts'[g] = counts[g]
      BY <1>1, <1>5, <2>2
    <3> QED BY <1>6, <3>2, <3>3
  <2> QED BY <2>1, <2>2
<1>11. filled' = Cardinality(Filled')
  <2>1. IsFiniteSet(Filled) /\ filled = Cardinality(Filled) /\ filled \in Nat
    <3>1. groups \in Seq(SUBSET Nat)
      BY DEF Grouped, Offsets
    <3> QED BY <1>2, <1>5, <3>1, FilledFinite DEF LoopInv, Counted
  <2>2. g0 \in Filled /\ counts[g0] \in Nat \ {0}
    BY <1>5, <1>8 DEF Filled
  <2>3. CASE counts[g0] = 1
    <3>1. Filled' = Filled \ {g0}
      BY <1>1, <1>5, <2>3 DEF Filled
    <3> QED BY <1>1, <2>1, <2>2, <2>3, <3>1, FS_RemoveElement
  <2>4. CASE counts[g0] # 1
    <3>1. Filled' = Filled
      BY <1>1, <1>5, <2>2, <2>4 DEF Filled
    <3> QED BY <1>1, <2>1, <2>4, <3>1
  <2> QED BY <2>3, <2>4
<1>12. Counted(right)'
  <2>1. \A g : Inside(g, left, right)' = Inside(g, left + 1, right)
    BY <1>1 DEF Inside
  <2>2. DOMAIN counts' = DOMAIN counts
    BY <1>1
  <2> QED BY <1>10, <1>11, <2>1, <2>2 DEF Counted
<1>13. \A i \in 1..(left' - 1) : Wide(i, right)
  <2> TAKE i \in 1..(left' - 1)
  <2>1. i = left \/ i \in 1..(left - 1)
    BY <1>1, <1>3
  <2> QED BY <1>1, <1>2, <2>1 DEF LoopInv
<1>14. LoopInv(groups, right)'
  BY <1>1, <1>2, <1>4, <1>9, <1>12, <1>13 DEF LoopInv, Wide, Covers
<1> QED BY <1>1, <1>14 DEF SweepInv

\* All groups are filled exactly if the window holds a point of each.
LEMMA FilledCovers ==
    ASSUME NEW text \in Seq(Nat), NEW groups, Grouped(text, groups), LoopInv(groups, right)
    PROVE  filled = Len(counts) <=> Covers(left, right, groups)
<1>1. /\ groups \in Seq(SUBSET Nat) /\ Len(groups) \in Nat /\ DOMAIN groups = 1..Len(groups)
      /\ counts \in Seq(Nat) /\ DOMAIN counts = DOMAIN groups /\ Len(counts) = Len(groups)
      /\ \A g \in DOMAIN counts : counts[g] \in Nat
  BY DEF Grouped, Offsets, LoopInv
<1>2. filled = Cardinality(Filled) /\ Filled \in SUBSET (1..Len(groups))
  BY <1>1 DEF LoopInv, Counted, Filled
<1>3. IsFiniteSet(1..Len(groups)) /\ Cardinality(1..Len(groups)) = Len(groups)
  <2>1. 1 \in Int /\ Len(groups) \in Int
    BY <1>1
  <2>2. IsFiniteSet(1..Len(groups)) /\ Cardinality(1..Len(groups))
          = IF 1 > Len(groups) THEN 0 ELSE Len(groups) - 1 + 1
    BY <2>1, FS_Interval
  <2> QED BY <1>1, <2>2
<1>4. filled = Len(counts) <=> Filled = 1..Len(groups)
  BY <1>1, <1>2, <1>3, FS_Subset
<1>5. ASSUME NEW g \in DOMAIN groups
      PROVE  g \in Filled <=> \E k \in left..right : points[k].group = g
  <2>1. /\ counts[g] = Cardinality(Inside(g, left, right)) /\ IsFiniteSet(Inside(g, left, right))
        /\ counts[g] \in Nat
    BY <1>1, InsideFinite DEF LoopInv, Counted
  <2>2. counts[g] > 0 <=> Inside(g, left, right) # {}
    BY <2>1, FS_EmptySet
  <2> QED BY <1>1, <2>2 DEF Filled, Inside
<1> QED BY <1>1, <1>2, <1>4, <1>5 DEF Covers

LEMMA DecideKeeps ==
    ASSUME NEW text \in Seq(Nat), NEW groups, Grouped(text, groups),
           PointsOK(text, groups), PrefixOK(text), SweepInv(groups), Decide
    PROVE  SweepInv(groups)'
<1>1. /\ UNCHANGED <<sep, points, left, counts, filled>> /\ sweep = "shrink"
      /\ ~Wide(left, right)
      /\ \/ filled = Len(counts) /\ sweep' = "yes" /\ right' = right
         \/ filled # Len(counts) /\ right = Len(points) /\ sweep' = "no" /\ right' = right
         \/ /\ filled # Len(counts) /\ right # Len(points)
            /\ sweep' = "count" /\ right' = right + 1
  BY DEF Decide, TooWide, Wide
<1>2. LoopInv(groups, right)
  BY <1>1 DEF SweepInv
<1>3. /\ left \in Nat \ {0} /\ right \in Nat /\ left <= right /\ Len(points) \in Nat
      /\ left \in 1..right /\ right \in 1..Len(points)
  BY <1>2 DEF LoopInv, PointsOK, SortedOK
<1>4. CASE filled = Len(counts)
  <2>1. Covers(left, right, groups)
    BY <1>2, <1>4, FilledCovers
  <2>2. \E j \in 1..Len(points) : \E i \in 1..j : ~Wide(i, j) /\ Covers(i, j, groups)
    BY <1>1, <1>3, <2>1
  <2> QED BY <1>1, <1>4, <2>2 DEF SweepInv, Wide, Covers
<1>5. CASE filled # Len(counts)
  <2>1. \A i \in 1..right : Wide(i, right) \/ ~Covers(i, right, groups)
    <3> TAKE i \in 1..right
    <3>1. CASE i < left
      <4>1. i \in 1..(left - 1)
        BY <1>3, <3>1
      <4> QED BY <1>2, <4>1 DEF LoopInv
    <3>2. CASE left <= i
      <4>1. \A k \in i..right : k \in left..right
        BY <1>3, <3>2
      <4>2. ~Covers(left, right, groups)
        BY <1>2, <1>5, FilledCovers
      <4> QED BY <4>1, <4>2 DEF Covers
    <3> QED BY <1>3, <3>1, <3>2
  <2>2. \A j \in 1..right : \A i \in 1..j : Wide(i, j) \/ ~Covers(i, j, groups)
    <3> TAKE j \in 1..right
    <3>1. j = right \/ j \in 1..(right - 1)
      BY <1>3
    <3> QED BY <1>2, <2>1, <3>1 DEF LoopInv
  <2>3. CASE right = Len(points)
    <3>1. \A j \in 1..Len(points) : \A i \in 1..j : Wide(i, j) \/ ~Covers(i, j, groups)
      BY <2>2, <2>3
    <3> QED BY <1>1, <1>5, <2>3, <3>1 DEF SweepInv, Wide, Covers
  <2>4. CASE right # Len(points)
    <3>1. sweep' = "count" /\ right' = right + 1 /\ right + 1 \in 1..Len(points)
          /\ right \in 1..Len(points) /\ right <= right + 1 /\ (right + 1) - 1 = right
      BY <1>1, <1>3, <1>5, <2>4
    <3>2. Counted(right)
      BY <1>2 DEF LoopInv
    <3>3. Counted(right - 1)'
      BY <1>1, <3>1, <3>2 DEF Counted, Inside, Filled
    <3>4. \A i \in 1..(left - 1) : Wide(i, right + 1)
      <4> TAKE i \in 1..(left - 1)
      <4>1. i \in 1..Len(points) /\ Wide(i, right)
        BY <1>2, <1>3 DEF LoopInv
      <4> QED BY <3>1, <4>1, WideGrows
    <3>5. (\A i \in 1..(left - 1) : Wide(i, right))'
      BY <1>1, <3>1, <3>4 DEF Wide
    <3>6. (\A j \in 1..(right - 1) : \A i \in 1..j : Wide(i, j) \/ ~Covers(i, j, groups))'
      BY <1>1, <2>2, <3>1 DEF Wide, Covers
    <3>7. LoopInv(groups, right - 1)'
      BY <1>1, <1>2, <1>3, <3>1, <3>3, <3>5, <3>6 DEF LoopInv
    <3> QED BY <3>1, <3>7 DEF SweepInv
  <2> QED BY <2>3, <2>4
<1> QED BY <1>4, <1>5

\* The sweep decides whether the groups are correlated in the text.
LEMMA SweepDecides ==
    ASSUME NEW text \in Seq(Nat), NEW groups, Grouped(text, groups),
           PointsOK(text, groups), PrefixOK(text), SweepInv(groups), sweep \in {"yes", "no"}
    PROVE  sweep = "yes" <=> Correlated(text, groups)
<1>1. /\ Len(points) \in Nat /\ Len(text) \in Nat
      /\ \A i \in 1..Len(points) :
           /\ points[i].pos \in Offsets(text) /\ points[i].pos \in Nat
           /\ points[i].pos \in 0..Len(text) /\ sep[points[i].pos] \in Nat
  <2>1. Len(points) \in Nat /\ Len(text) \in Nat
    BY DEF PointsOK, SortedOK
  <2>2. \A i \in 1..Len(points) : points[i].pos \in Offsets(text)
    BY DEF PointsOK, SortedOK
  <2>3. \A pos \in Offsets(text) : pos \in Nat /\ pos \in 0..Len(text)
    BY <2>1 DEF Offsets
  <2>4. \A pos \in 0..Len(text) : sep[pos] \in Nat
    BY <2>1 DEF PrefixOK, SumsOK
  <2> QED BY <2>1, <2>2, <2>3, <2>4
<1>2. ASSUME sweep = "yes" PROVE Correlated(text, groups)
  <2>1. PICK j \in 1..Len(points), i \in 1..Len(points) :
          i <= j /\ ~Wide(i, j) /\ Covers(i, j, groups)
    <3>1. PICK j \in 1..Len(points) : \E i \in 1..j : ~Wide(i, j) /\ Covers(i, j, groups)
      BY <1>2 DEF SweepInv
    <3>2. PICK i \in 1..j : ~Wide(i, j) /\ Covers(i, j, groups)
      BY <3>1
    <3>3. i \in 1..Len(points) /\ i <= j
      BY <1>1
    <3> QED BY <3>2, <3>3
  <2> DEFINE lo == points[i].pos
             hi == points[j].pos
  <2>2. /\ lo \in Offsets(text) /\ hi \in Offsets(text) /\ lo \in Nat /\ hi \in Nat /\ lo <= hi
        /\ lo \in 0..Len(text) /\ hi \in 0..Len(text) /\ sep[lo] \in Nat /\ sep[hi] \in Nat
    BY <1>1, <2>1 DEF PointsOK, SortedOK
  <2>3. hi - lo <= MaxChars /\ sep[hi] - sep[lo] <= MaxSeparators
    <3>1. ~(hi - lo > MaxChars) /\ ~(sep[hi] - sep[lo] > MaxSeparators)
      BY <2>1 DEF Wide
    <3> HIDE DEF lo, hi
    <3>2. \A x, y \in Nat : \A m \in Nat : ~(x - y > m) => x - y <= m
      OBVIOUS
    <3> QED BY <2>2, <3>1, <3>2, SweepAssumption
  <2>4. groups \in Seq(SUBSET Offsets(text)) 
    BY DEF Grouped
  <2>5. ASSUME NEW g \in DOMAIN groups PROVE groups[g] \cap (lo..hi) # {}
    <3>1. PICK k \in i..j : points[k].group = g
      BY <2>1 DEF Covers
    <3>2. k \in 1..Len(points) /\ i <= k /\ k <= j
      BY <1>1
    <3>3. points[k].pos \in groups[g] /\ lo <= points[k].pos /\ points[k].pos <= hi
      BY <2>1, <3>1, <3>2 DEF PointsOK, SortedOK
    <3>4. points[k].pos \in Nat
      BY <1>1, <3>2
    <3> HIDE DEF lo, hi
    <3> QED BY <2>2, <3>3, <3>4
  <2> HIDE DEF lo, hi
  <2>6. BoundariesBetween(text, lo, hi) <= MaxSeparators
    <3>1. sep[hi] = sep[lo] + BoundariesBetween(text, lo, hi) /\ BoundariesBetween(text, lo, hi) \in Nat
      BY <2>2 DEF PrefixOK, SumsOK
    <3> QED BY <2>2, <2>3, <3>1
  <2> QED BY <2>2, <2>3, <2>5, <2>6 DEF Correlated
<1>3. ASSUME Correlated(text, groups), sweep = "no" PROVE FALSE
  <2>1. PICK lo \in Offsets(text), hi \in Offsets(text) :
          /\ hi - lo <= MaxChars
          /\ BoundariesBetween(text, lo, hi) <= MaxSeparators
          /\ \A g \in DOMAIN groups : groups[g] \cap (lo..hi) # {}
    BY <1>3 DEF Correlated
  <2>2. /\ lo \in Nat /\ hi \in Nat /\ lo \in 0..Len(text) /\ hi \in 0..Len(text)
    BY <1>1 DEF Offsets
  <2>3. \A j \in 1..Len(points) : \A i \in 1..j : Wide(i, j) \/ ~Covers(i, j, groups)
    BY <1>3, <2>1 DEF SweepInv
  <2> DEFINE In == {i \in 1..Len(points) : points[i].pos \in lo..hi}
  <2>4. \A g \in DOMAIN groups : \E i \in In : points[i].group = g
    <3> TAKE g \in DOMAIN groups
    <3>1. PICK pos \in groups[g] : pos \in lo..hi
      BY <2>1
    <3>2. PICK i \in 1..Len(points) : points[i].pos = pos /\ points[i].group = g
      BY DEF PointsOK, SortedOK
    <3> QED BY <3>1, <3>2
  <2>5. 1 \in DOMAIN groups
    BY DEF Grouped
  <2>6. In # {} /\ In \in SUBSET Nat /\ In \in SUBSET (0..Len(points))
    BY <1>1, <2>4, <2>5
  <2>7. \A i \in In : /\ i \in 1..Len(points) /\ lo <= points[i].pos /\ points[i].pos <= hi
                      /\ i \in Nat
    BY <1>1, <2>2
  <2> HIDE DEF In
  <2>8. PICK i \in In : \A k \in In : i <= k
    BY <2>6, LeastNatural
  <2>9. PICK j \in In : \A k \in In : k <= j
    BY <1>1, <2>6, GreatestNatural
  <2>10. i \in 1..Len(points) /\ j \in 1..Len(points) /\ i <= j /\ i \in 1..j
    BY <2>7, <2>8, <2>9
  <2>11. Covers(i, j, groups)
    <3>1. \A k \in In : k \in i..j
      BY <2>7, <2>8, <2>9
    <3> QED BY <2>4, <3>1 DEF Covers
  <2>12. Wide(i, j)
    BY <2>3, <2>10, <2>11
  <2> DEFINE a == points[i].pos
             b == points[j].pos
  <2>13. /\ lo <= a /\ a <= b /\ b <= hi /\ a \in Nat /\ b \in Nat
         /\ a \in 0..Len(text) /\ b \in 0..Len(text) /\ sep[a] \in Nat /\ sep[b] \in Nat
    BY <1>1, <2>7, <2>10 DEF PointsOK, SortedOK
  <2>14. b - a > MaxChars \/ sep[b] - sep[a] > MaxSeparators
    BY <2>12 DEF Wide
  <2> HIDE DEF a, b
  <2>15. b - a <= MaxChars
    BY <2>1, <2>2, <2>13, SweepAssumption
  <2>16. lo <= hi
    BY <2>2, <2>13
  <2>17. sep[b] - sep[a] <= MaxSeparators
    <3>1. /\ sep[lo] \in Nat /\ sep[hi] \in Nat
          /\ BoundariesBetween(text, lo, hi) \in Nat
          /\ sep[hi] = sep[lo] + BoundariesBetween(text, lo, hi)
      BY <2>2, <2>16 DEF PrefixOK, SumsOK
    <3>2. /\ BoundariesBetween(text, lo, a) \in Nat
          /\ sep[a] = sep[lo] + BoundariesBetween(text, lo, a)
      BY <2>2, <2>13 DEF PrefixOK, SumsOK
    <3>3. /\ BoundariesBetween(text, b, hi) \in Nat
          /\ sep[hi] = sep[b] + BoundariesBetween(text, b, hi)
      BY <2>2, <2>13 DEF PrefixOK, SumsOK
    <3>4. \A u, v, w, x, y, z, m \in Nat :
            v = u + x /\ w = u + y /\ v = z + m => w - u <= w /\ u <= w /\ z <= v
      OBVIOUS
    <3>5. sep[lo] <= sep[a] /\ sep[b] <= sep[hi]
      BY <2>13, <3>1, <3>2, <3>3, <3>4
    <3>6. \A u, v, w, z, d, m \in Nat : v = u + d /\ d <= m /\ u <= w /\ z <= v => z - w <= m
      OBVIOUS
    <3> QED BY <2>1, <2>13, <3>1, <3>5, <3>6, SweepAssumption
  <2>18. \A x, y, m \in Nat : x - y <= m => ~(x - y > m)
    OBVIOUS
  <2> QED BY <2>13, <2>14, <2>15, <2>17, <2>18, SweepAssumption
<1> QED BY <1>2, <1>3

-----------------------------------------------------------------------------
(* The positions of the signals. *)

\* f keeps, of the first i code units, those that are no white space.
Keeps(f, text) ==
    /\ f \in [0..Len(text) -> Seq(Nat)]
    /\ f[0] = <<>>
    /\ \A i \in 1..Len(text) :
         f[i] = IF text[i] \in White THEN f[i - 1] ELSE Append(f[i - 1], text[i])

LEMMA WhiteKeeps ==
    ASSUME NEW text \in Seq(Nat)
    PROVE  \E f : Keeps(f, text) /\ WithoutWhite(text) = f[Len(text)]
<1> DEFINE n == Len(text)
           Solves(f) == f = [i \in 0..n |->
                               IF i = 0 THEN <<>>
                               ELSE IF text[i] \in White THEN f[i - 1]
                               ELSE Append(f[i - 1], text[i])]
           kept == CHOOSE f : Solves(f)
<1>1. n \in Nat /\ \A i \in 1..n : text[i] \in Nat
  OBVIOUS
<1>2. \E f : Solves(f)
  <2> DEFINE step == [i \in 1..n |-> [s \in Seq(Nat) |->
                         IF text[i] \in White THEN s ELSE Append(s, text[i])]]
  <2>1. step \in [1..n -> [Seq(Nat) -> Seq(Nat)]]
    BY <1>1
  <2>2. \A i \in 1..n : \A s \in Seq(Nat) :
          step[i][s] = IF text[i] \in White THEN s ELSE Append(s, text[i])
    OBVIOUS
  <2> HIDE DEF step, n
  <2>3. <<>> \in Seq(Nat)
    OBVIOUS
  <2>4. PICK f : RunOf(f, n, Seq(Nat), <<>>, step)
    BY <1>1, <2>1, <2>3, RunExists
  <2>5. \A i \in 0..n : f[i] = IF i = 0 THEN <<>>
                               ELSE IF text[i] \in White THEN f[i - 1]
                               ELSE Append(f[i - 1], text[i])
    <3> TAKE i \in 0..n
    <3>1. f[0] = <<>>
      BY <2>4 DEF RunOf
    <3>2. ASSUME i # 0
          PROVE  f[i] = IF text[i] \in White THEN f[i - 1] ELSE Append(f[i - 1], text[i])
      <4>1. i \in 1..n /\ i - 1 \in 0..n
        BY <1>1, <3>2
      <4>2. f[i - 1] \in Seq(Nat) /\ f[i] = step[i][f[i - 1]]
        BY <2>4, <4>1 DEF RunOf
      <4> QED BY <2>2, <4>1, <4>2
    <3> QED BY <3>1, <3>2, Zenon
  <2>6. f = [i \in 0..n |-> f[i]]
    BY <2>4 DEF RunOf
  <2>7. Solves(f)
    BY <2>5, <2>6
  <2> QED BY <2>7
<1>3. Solves(kept)
  BY <1>2, Zenon
<1>4. kept = [i \in 0..n |-> IF i = 0 THEN <<>>
                             ELSE IF text[i] \in White THEN kept[i - 1]
                             ELSE Append(kept[i - 1], text[i])]
  BY <1>3, Zenon
<1>5. WithoutWhite(text) = kept[n]
  BY Zenon DEF WithoutWhite
<1> HIDE DEF n, kept
<1>6. /\ kept[0] = <<>>
      /\ \A i \in 1..n : kept[i] = IF text[i] \in White THEN kept[i - 1]
                                   ELSE Append(kept[i - 1], text[i])
  <2>1. 0 \in 0..n /\ \A i \in 1..n : i \in 0..n /\ i # 0
    BY <1>1
  <2> QED BY <1>4, <2>1, Zenon
<1>7. \A i \in 0..n : kept[i] \in Seq(Nat)
  <2> DEFINE Typed == {m \in Nat : m <= n => kept[m] \in Seq(Nat)}
  <2>1. 0 \in Typed
    <3>1. kept[0] \in Seq(Nat)
      <4>1. <<>> \in Seq(Nat)
        OBVIOUS
      <4> QED BY <1>6, <4>1, Zenon
    <3> QED BY <3>1
  <2>2. ASSUME NEW m \in Nat, m \in Typed PROVE m + 1 \in Typed
    <3> SUFFICES ASSUME m + 1 <= n PROVE kept[m + 1] \in Seq(Nat)
      OBVIOUS
    <3>1. m + 1 \in 1..n /\ (m + 1) - 1 = m /\ kept[m] \in Seq(Nat) /\ text[m + 1] \in Nat
      BY <1>1, <2>2
    <3>2. kept[m + 1] = IF text[m + 1] \in White THEN kept[m] ELSE Append(kept[m], text[m + 1])
      <4>1. \A i \in 1..n : i - 1 = m =>
              kept[i] = IF text[i] \in White THEN kept[m] ELSE Append(kept[m], text[i])
        BY <1>6, Zenon
      <4> QED BY <3>1, <4>1, Zenon
    <3>3. Append(kept[m], text[m + 1]) \in Seq(Nat)
      BY <3>1
    <3> QED BY <3>1, <3>2, <3>3, Zenon
  <2> HIDE DEF Typed
  <2>3. \A m \in Nat : m \in Typed
    BY <2>1, <2>2, SetInduction
  <2> QED BY <1>1, <2>3 DEF Typed
<1>8. kept \in [0..n -> Seq(Nat)]
  <2>1. kept = [i \in 0..n |-> kept[i]]
    BY <1>4
  <2> QED BY <1>7, <2>1
<1>9. Keeps(kept, text)
  BY <1>6, <1>8 DEF Keeps, n
<1> QED BY <1>5, <1>9 DEF n

\* Two texts that differ in the kind of their white space alone.
Alike(t, u) ==
    /\ Len(t) = Len(u)
    /\ \A i \in 1..Len(t) : t[i] = u[i] \/ (t[i] \in White /\ u[i] \in White)

LEMMA AlikeWithoutWhite ==
    ASSUME NEW t \in Seq(Nat), NEW u \in Seq(Nat), Alike(t, u)
    PROVE  WithoutWhite(t) = WithoutWhite(u)
<1>1. PICK f : Keeps(f, t) /\ WithoutWhite(t) = f[Len(t)]
  BY WhiteKeeps
<1>2. PICK g : Keeps(g, u) /\ WithoutWhite(u) = g[Len(u)]
  BY WhiteKeeps
<1> DEFINE Same == {m \in Nat : m <= Len(t) => f[m] = g[m]}
<1>3. 0 \in Same
  BY <1>1, <1>2 DEF Keeps
<1>4. ASSUME NEW m \in Nat, m \in Same PROVE m + 1 \in Same
  <2> SUFFICES ASSUME m + 1 <= Len(t) PROVE f[m + 1] = g[m + 1]
    OBVIOUS
  <2>1. m + 1 \in 1..Len(t) /\ m + 1 \in 1..Len(u) /\ (m + 1) - 1 = m /\ f[m] = g[m]
    BY <1>4 DEF Alike
  <2> DEFINE k == m + 1
  <2>2. f[k] = IF t[k] \in White THEN f[m] ELSE Append(f[m], t[k])
    BY <1>1, <2>1, Zenon DEF Keeps
  <2>3. g[k] = IF u[k] \in White THEN g[m] ELSE Append(g[m], u[k])
    BY <1>2, <2>1, Zenon DEF Keeps
  <2>4. t[k] = u[k] \/ (t[k] \in White /\ u[k] \in White)
    BY <2>1 DEF Alike
  <2> HIDE DEF k
  <2>5. f[m] = g[m]
    BY <2>1
  <2>6. f[k] = g[k]
    <3>1. CASE t[k] \in White /\ u[k] \in White
      BY <2>2, <2>3, <2>5, <3>1
    <3>2. CASE t[k] = u[k]
      BY <2>2, <2>3, <2>5, <3>2
    <3> QED BY <2>4, <3>1, <3>2
  <2> QED BY <2>6 DEF k
<1> HIDE DEF Same
<1>5. \A m \in Nat : m \in Same
  BY <1>3, <1>4, SetInduction
<1>6. Len(t) \in Nat /\ Len(u) = Len(t)
  BY DEF Alike
<1> QED BY <1>1, <1>2, <1>5, <1>6 DEF Same

\* A pattern is found at the same positions in both.
LEMMA AlikeMatches ==
    ASSUME NEW t \in Seq(Nat), NEW u \in Seq(Nat), Alike(t, u), NEW pattern
    PROVE  MatchAllPositions(t, pattern) = MatchAllPositions(u, pattern)
<1>1. Len(t) \in Nat /\ Len(u) = Len(t) /\ Offsets(u) = Offsets(t)
  BY DEF Alike, Offsets
<1>2. ASSUME NEW pos \in Offsets(t) PROVE At(t, pos) \in White <=> At(u, pos) \in White
  <2>1. pos + 1 \in 1..Len(t)
    BY <1>1 DEF Offsets
  <2> QED BY <2>1 DEF Alike, At
<1>3. ASSUME NEW pos \in Offsets(t), NEW last \in pos..(Len(t) - 1)
      PROVE  WithoutWhite(SubSeq(t, pos + 1, last + 1)) = WithoutWhite(SubSeq(u, pos + 1, last + 1))
  <2>1. /\ pos \in Nat /\ last \in Nat /\ pos <= last /\ last + 1 <= Len(t)
        /\ pos + 1 \in 1..(Len(t) + 1) /\ last + 1 \in Nat /\ last + 1 \in pos..Len(t)
    BY <1>1 DEF Offsets
  <2> DEFINE v == SubSeq(t, pos + 1, last + 1)
             w == SubSeq(u, pos + 1, last + 1)
  <2>2. /\ v \in Seq(Nat) /\ w \in Seq(Nat)
        /\ Len(v) = last - pos + 1 /\ Len(w) = last - pos + 1
        /\ \A i \in 1..(last - pos + 1) : v[i] = t[pos + i] /\ w[i] = u[pos + i]
    BY <1>1, <2>1, SMTT(30)
  <2>3. \A i \in 1..(last - pos + 1) : pos + i \in 1..Len(t)
    BY <1>1, <2>1
  <2> HIDE DEF v, w
  <2>4. Alike(v, w)
    BY <2>2, <2>3 DEF Alike
  <2> QED BY <2>2, <2>4, AlikeWithoutWhite DEF v, w
<1>4. ASSUME NEW pos \in Offsets(t)
      PROVE  MatchesAt(pattern, t, pos) <=> MatchesAt(pattern, u, pos)
  <2>1. \A last \in pos..(Len(t) - 1) : last \in Offsets(t)
    BY <1>1 DEF Offsets
  <2> QED BY <1>1, <1>2, <1>3, <2>1 DEF MatchesAt
<1> QED BY <1>1, <1>4 DEF MatchAllPositions

(* The texts, the signals and the rule that is looked at.                  *)
ScanType ==
    /\ content \in Seq(Nat)
    /\ astSignals \subseteq [signal : Signal, pos : Offsets(content)]
    /\ stage \in {"screen", "rules", "done"}
    /\ rule \in DOMAIN Rules

LEMMA RulesType ==
    /\ Len(Rules) = 8 /\ DOMAIN Rules = 1..8
    /\ \A k \in 1..8 : Rules[k].groups \in Seq(SUBSET Signal)
<1>1. Len(Rules) = 8 /\ DOMAIN Rules = 1..8
  BY DEF Rules
<1>2. /\ "sensitivePath" \in Signal /\ "networkEgress" \in Signal /\ "npmrcRead" \in Signal
      /\ "sensitiveConfigPath" \in Signal /\ "dynamicCode" \in Signal /\ "processExec" \in Signal
      /\ "codeDecode" \in Signal
      /\ Theft \in SUBSET Signal /\ (Theft \cup {"npmrcToken"}) \in SUBSET Signal
  BY DEF Signal, Sanitized, Raw, Theft
<1> HIDE DEF Signal, Theft
<1>4. Rules[1].groups = <<{"sensitivePath"}, {"networkEgress"}>>
  BY DEF Rules, Together, Rule
<1>5. Rules[2].groups = <<{"npmrcRead"}, {"networkEgress"}, Theft \cup {"npmrcToken"}>>
  BY DEF Rules, Together, Rule
<1>6. Rules[3].groups = <<{"sensitiveConfigPath"}, {"networkEgress"}, Theft>>
  BY DEF Rules, Together, Rule
<1>7. Rules[4].groups = <<>>
  BY DEF Rules, Together, Rule
<1>8. Rules[5].groups = <<{"dynamicCode"}, {"processExec"}>>
  BY DEF Rules, Together, Rule
<1>9. Rules[6].groups = <<{"dynamicCode"}, {"codeDecode"}>>
  BY DEF Rules, Together, Rule
<1>10. Rules[7].groups = <<{"networkEgress"}, {"dynamicCode"}>>
  BY DEF Rules, Together, Rule
<1>11. Rules[8].groups = <<>>
  BY DEF Rules, Together, Rule
<1>12. \A k \in 1..8 : Rules[k].groups \in Seq(SUBSET Signal)
  <2>1. Rules[1].groups \in Seq(SUBSET Signal)
    BY <1>2, <1>4
  <2>2. Rules[2].groups \in Seq(SUBSET Signal)
    BY <1>2, <1>5
  <2>3. Rules[3].groups \in Seq(SUBSET Signal)
    BY <1>2, <1>6
  <2>4. Rules[4].groups \in Seq(SUBSET Signal)
    BY <1>2, <1>7
  <2>5. Rules[5].groups \in Seq(SUBSET Signal)
    BY <1>2, <1>8
  <2>6. Rules[6].groups \in Seq(SUBSET Signal)
    BY <1>2, <1>9
  <2>7. Rules[7].groups \in Seq(SUBSET Signal)
    BY <1>2, <1>10
  <2>8. Rules[8].groups \in Seq(SUBSET Signal)
    BY <1>2, <1>11
  <2> QED BY <2>1, <2>2, <2>3, <2>4, <2>5, <2>6, <2>7, <2>8, SMTT(30)
<1> QED BY <1>1, <1>12

\* The blanked text keeps the offsets of the raw one.
LEMMA ScanSrcType ==
    ASSUME ScanType
    PROVE  ScanSrc \in Seq(Nat) /\ Len(ScanSrc) = Len(content) /\ Offsets(ScanSrc) = Offsets(content)
<1>1. Len(content) \in Nat /\ DOMAIN content = 1..Len(content)
      /\ \A i \in 1..Len(content) : content[i] \in Nat
  BY DEF ScanType
<1>2. ScanSrc \in Seq(Nat) /\ Len(ScanSrc) = Len(content)
  BY <1>1 DEF ScanSrc
<1> QED BY <1>2 DEF Offsets

\* Every signal is found exactly where it stands outside what is blanked.
LEMMA PositionsExact ==
    ASSUME ScanType, NEW s \in Signal
    PROVE  Positions(s) = Occurrences(s) /\ Positions(s) \in SUBSET Offsets(ScanSrc)
<1> DEFINE blank == [i \in DOMAIN content |-> IF i - 1 \in blanked THEN 32 ELSE content[i]]
<1>1. Len(content) \in Nat /\ DOMAIN content = 1..Len(content)
      /\ \A i \in 1..Len(content) : content[i] \in Nat
  BY DEF ScanType
<1>2. blank \in Seq(Nat) /\ Len(blank) = Len(content)
  BY <1>1
<1>3. ScanSrc \in Seq(Nat) /\ Len(ScanSrc) = Len(content) /\ Offsets(ScanSrc) = Offsets(content)
  BY ScanSrcType
<1>4. Alike(ScanSrc, blank)
  <2>1. 32 \in White /\ Newline \in White
    BY DEF White, Newline
  <2>2. ASSUME NEW i \in 1..Len(content)
        PROVE  ScanSrc[i] = blank[i] \/ (ScanSrc[i] \in White /\ blank[i] \in White)
    <3>1. ScanSrc[i] = IF i - 1 \in blanked /\ content[i] # Newline THEN 32 ELSE content[i]
      BY <1>1 DEF ScanSrc
    <3>2. blank[i] = IF i - 1 \in blanked THEN 32 ELSE content[i]
      BY <1>1
    <3> HIDE DEF blank
    <3> QED BY <2>1, <3>1, <3>2
  <2> HIDE DEF blank
  <2> QED BY <1>2, <1>3, <2>2 DEF Alike
<1> HIDE DEF blank
<1>5. MatchAllPositions(ScanSrc, Pattern[s]) = MatchAllPositions(blank, Pattern[s])
  BY <1>2, <1>3, <1>4, AlikeMatches
<1>6. s \in Sanitized <=> s \notin Raw
  BY DEF Signal, Sanitized, Raw
<1>7. Positions(s) = Occurrences(s)
  <2>1. CASE s \in Raw
    BY <1>6, <2>1, Zenon DEF Positions, Occurrences
  <2>2. CASE s \notin Raw
    <3>1. Positions(s) = MatchAllPositions(ScanSrc, Pattern[s]) \cup AstPositions(s)
      BY <1>6, <2>2, Zenon DEF Positions
    <3>2. Occurrences(s) = MatchAllPositions(blank, Pattern[s]) \cup AstPositions(s)
      BY <1>6, <2>2, Zenon DEF Occurrences, blank
    <3> QED BY <1>5, <3>1, <3>2, Zenon
  <2> QED BY <2>1, <2>2
<1>8. AstPositions(s) \in SUBSET Offsets(content)
  BY DEF AstPositions, ScanType
<1>9. Positions(s) \in SUBSET Offsets(ScanSrc)
  BY <1>3, <1>8 DEF Positions, MatchAllPositions
<1> QED BY <1>7, <1>9

\* What the flags and the sweep make of a rule is what is to be reported.
LEMMA RuleReads ==
    ASSUME ScanType, NEW k \in DOMAIN Rules
    PROVE  LET r == Rules[k]
           IN  /\ r.groups # <<>> => Grouped(ScanSrc, Groups(r))
               /\ Reported(r) = IF ~Triggered(r, Flagged(Signal)) THEN {}
                                ELSE IF r.groups = <<>> \/ Correlated(ScanSrc, Groups(r))
                                  THEN {r.name} ELSE r.otherwise
<1> DEFINE r == Rules[k]
           groups == r.groups
<1>1. groups \in Seq(SUBSET Signal)
  BY RulesType
<1>2. \A s \in Signal : Positions(s) = Occurrences(s) /\ Positions(s) \in SUBSET Offsets(ScanSrc)
  BY PositionsExact
<1>3. Flagged(Signal) = {s \in Signal : Occurrences(s) # {}}
  BY <1>2 DEF Flagged
<1> HIDE DEF r
<1>4. \A g \in DOMAIN groups : groups[g] \in SUBSET Signal
  BY <1>1
<1>5. Groups(r) = [g \in DOMAIN groups |-> UNION {Occurrences(s) : s \in groups[g]}]
  BY <1>2, <1>4 DEF Groups
<1>6. groups # <<>> => Grouped(ScanSrc, Groups(r))
  <2>1. Groups(r) \in Seq(SUBSET Offsets(ScanSrc)) /\ Len(Groups(r)) = Len(groups)
    <3>1. Len(groups) \in Nat /\ DOMAIN groups = 1..Len(groups)
      BY <1>1
    <3>2. \A g \in 1..Len(groups) :
            UNION {Positions(s) : s \in groups[g]} \in SUBSET Offsets(ScanSrc)
      BY <1>2, <1>4, <3>1
    <3>3. Groups(r) = [g \in 1..Len(groups) |-> UNION {Positions(s) : s \in groups[g]}]
      BY <3>1 DEF Groups
    <3> QED BY <3>1, <3>2, <3>3
  <2>2. groups # <<>> => Len(groups) # 0
    BY <1>1
  <2> QED BY <2>1, <2>2 DEF Grouped
<1>7. Breaks(r) <=> Correlated(ScanSrc, Groups(r))
  BY <1>5, Zenon DEF Breaks
<1>8. Reported(r) = IF ~Triggered(r, Flagged(Signal)) THEN {}
                    ELSE IF r.groups = <<>> \/ Correlated(ScanSrc, Groups(r))
                      THEN {r.name} ELSE r.otherwise
  BY <1>3, <1>7, Zenon DEF Reported
<1> QED BY <1>6, <1>8 DEF r

-----------------------------------------------------------------------------
(* The early return: what the pre-screener does not find, no rule needs. *)

\* Dropping white space keeps what the others are drawn from.
LEMMA WhiteDrops ==
    ASSUME NEW text \in Seq(Nat), NEW S, \A i \in 1..Len(text) : text[i] \in S
    PROVE  /\ WithoutWhite(text) \in Seq(Nat)
           /\ \A j \in 1..Len(WithoutWhite(text)) : WithoutWhite(text)[j] \in S
<1>1. PICK f : Keeps(f, text) /\ WithoutWhite(text) = f[Len(text)]
  BY WhiteKeeps
<1>2. Len(text) \in Nat /\ \A i \in 0..Len(text) : f[i] \in Seq(Nat)
  <2>1. f \in [0..Len(text) -> Seq(Nat)]
    BY <1>1, Zenon DEF Keeps
  <2> QED BY <2>1
<1> DEFINE Drawn == {m \in Nat : m <= Len(text) => \A j \in 1..Len(f[m]) : f[m][j] \in S}
<1>3. 0 \in Drawn
  BY <1>1 DEF Keeps
<1>4. ASSUME NEW m \in Nat, m \in Drawn PROVE m + 1 \in Drawn
  <2> SUFFICES ASSUME m + 1 <= Len(text), NEW j \in 1..Len(f[m + 1]) PROVE f[m + 1][j] \in S
    OBVIOUS
  <2> DEFINE k == m + 1
             c == text[k]
             g == f[m]
  <2>1. k \in 1..Len(text) /\ k - 1 = m /\ m \in 0..Len(text) /\ m <= Len(text)
    BY <1>2
  <2>2. c \in S /\ c \in Nat /\ g \in Seq(Nat) /\ \A i \in 1..Len(g) : g[i] \in S
    BY <1>2, <1>4, <2>1, SMTT(30)
  <2>3. f[k] = IF c \in White THEN g ELSE Append(g, c)
    BY <1>1, <2>1, Zenon DEF Keeps
  <2>4. j \in 1..Len(f[k])
    OBVIOUS
  <2> HIDE DEF k, c, g
  <2>5. CASE c \in White
    BY <2>2, <2>3, <2>4, <2>5 DEF k
  <2>6. CASE c \notin White
    <3>1. f[k] = Append(g, c)
      BY <2>3, <2>6
    <3>2. Len(g) \in Nat /\ Len(Append(g, c)) = Len(g) + 1 /\ Append(g, c)[Len(g) + 1] = c
          /\ \A i \in 1..Len(g) : Append(g, c)[i] = g[i]
      BY <2>2
    <3>3. j = Len(g) + 1 \/ j \in 1..Len(g)
      BY <2>4, <3>1, <3>2
    <3> QED BY <2>2, <3>1, <3>2, <3>3 DEF k
  <2> QED BY <2>5, <2>6
<1> HIDE DEF Drawn
<1>5. Len(text) \in Drawn
  BY <1>2, <1>3, <1>4, SetInduction
<1> QED BY <1>1, <1>2, <1>5 DEF Drawn

LEMMA AppendConcat ==
    ASSUME NEW a \in Seq(Nat), NEW b \in Seq(Nat), NEW c \in Nat
    PROVE  Append(a \o b, c) = a \o Append(b, c)
<1> DEFINE v == Append(a \o b, c)
           w == a \o Append(b, c)
           ab == a \o b
           bc == Append(b, c)
<1>1. /\ Len(a) \in Nat /\ Len(b) \in Nat
      /\ ab \in Seq(Nat) /\ Len(ab) = Len(a) + Len(b)
      /\ \A i \in 1..(Len(a) + Len(b)) : ab[i] = IF i <= Len(a) THEN a[i] ELSE b[i - Len(a)]
  BY ConcatProperties
<1>2. /\ bc \in Seq(Nat) /\ Len(bc) = Len(b) + 1 /\ bc[Len(b) + 1] = c
      /\ \A i \in 1..Len(b) : bc[i] = b[i]
  OBVIOUS
<1> HIDE DEF ab, bc
<1>3. /\ v \in Seq(Nat) /\ Len(v) = Len(a) + Len(b) + 1 /\ v[Len(a) + Len(b) + 1] = c
      /\ \A i \in 1..(Len(a) + Len(b)) : v[i] = ab[i]
  BY <1>1 DEF ab
<1>4. /\ w \in Seq(Nat) /\ Len(w) = Len(a) + (Len(b) + 1)
      /\ \A i \in 1..(Len(a) + (Len(b) + 1)) : w[i] = IF i <= Len(a) THEN a[i] ELSE bc[i - Len(a)]
  <2>1. w = a \o bc
    BY DEF bc
  <2>2. /\ a \o bc \in Seq(Nat) /\ Len(a \o bc) = Len(a) + Len(bc)
        /\ \A i \in 1..(Len(a) + Len(bc)) :
             (a \o bc)[i] = IF i <= Len(a) THEN a[i] ELSE bc[i - Len(a)]
    BY <1>2, ConcatProperties
  <2> HIDE DEF w
  <2> QED BY <1>2, <2>1, <2>2
<1> HIDE DEF v, w
<1> DEFINE m == Len(a)
           n == Len(b)
<1>5. m \in Nat /\ n \in Nat /\ Len(v) = m + n + 1 /\ Len(w) = m + n + 1
  BY <1>1, <1>3, <1>4
<1>6. ASSUME NEW i \in 1..Len(v) PROVE v[i] = w[i]
  <2>1. CASE i = Len(a) + Len(b) + 1
    <3>1. ~(i <= Len(a)) /\ i - Len(a) = Len(b) + 1 /\ i \in 1..(Len(a) + (Len(b) + 1))
      BY <1>1, <2>1
    <3> QED BY <1>2, <1>3, <1>4, <2>1, <3>1
  <2>2. CASE i <= Len(a)
    <3>1. i \in 1..(Len(a) + Len(b)) /\ i \in 1..(Len(a) + (Len(b) + 1))
      BY <1>1, <1>3, <2>2
    <3> QED BY <1>1, <1>3, <1>4, <2>2, <3>1
  <2>3. CASE ~(i <= Len(a)) /\ i # Len(a) + Len(b) + 1
    <3>1. /\ i \in 1..(Len(a) + Len(b)) /\ i \in 1..(Len(a) + (Len(b) + 1))
          /\ i - Len(a) \in 1..Len(b)
      <4> HIDE DEF m, n
      <4>1. i \in 1..(m + n + 1) /\ ~(i <= m) /\ i # m + n + 1
        BY <1>5, <2>3 DEF m, n
      <4>2. i \in 1..(m + n) /\ i \in 1..(m + (n + 1)) /\ i - m \in 1..n
        BY <1>5, <4>1
      <4> QED BY <4>2 DEF m, n
    <3> QED BY <1>1, <1>2, <1>3, <1>4, <2>3, <3>1
  <2> QED BY <2>1, <2>2, <2>3
<1>7. v = w
  BY <1>5, <1>3, <1>4, <1>6, SameWords
<1> QED BY <1>7 DEF v, w, ab, bc

\* What is kept of a stretch of the text follows what is kept before it.
LEMMA KeepsStretch ==
    ASSUME NEW text \in Seq(Nat), NEW f, Keeps(f, text),
           NEW lo \in 0..Len(text), NEW hi \in lo..Len(text)
    PROVE  /\ SubSeq(text, lo + 1, hi) \in Seq(Nat)
           /\ WithoutWhite(SubSeq(text, lo + 1, hi)) \in Seq(Nat)
           /\ f[hi] = f[lo] \o WithoutWhite(SubSeq(text, lo + 1, hi))
<1> DEFINE sub == SubSeq(text, lo + 1, hi)
           n == hi - lo
<1>1. /\ lo \in Nat /\ hi \in Nat /\ n \in Nat /\ lo + n = hi /\ hi <= Len(text) /\ Len(text) \in Nat
      /\ sub \in Seq(Nat) /\ Len(sub) = n /\ \A i \in 1..n : sub[i] = text[lo + i]
  <2>1. /\ Len(text) \in Nat /\ lo \in Nat /\ hi \in Nat /\ lo <= hi /\ hi <= Len(text)
        /\ n \in Nat /\ lo + n = hi /\ lo + 1 \in 1..(Len(text) + 1)
    OBVIOUS
  <2>2. sub \in Seq(Nat) /\ Len(sub) = hi - (lo + 1) + 1
    BY <2>1
  <2>3. \A i \in 1..n : sub[i] = text[(lo + 1) + i - 1] /\ (lo + 1) + i - 1 = lo + i
    BY <2>1
  <2> QED BY <2>1, <2>2, <2>3
<1> HIDE DEF sub, n
<1>2. PICK g : Keeps(g, sub) /\ WithoutWhite(sub) = g[Len(sub)]
  BY <1>1, WhiteKeeps
<1>3. /\ \A i \in 0..Len(text) : f[i] \in Seq(Nat)
      /\ \A i \in 0..n : g[i] \in Seq(Nat)
  BY <1>1, <1>2 DEF Keeps
<1> DEFINE Joins(m) == f[lo + m] = f[lo] \o g[m]
           Joined == {m \in Nat : m <= n => Joins(m)}
<1>4. 0 \in Joined
  <2>1. g[0] = <<>> /\ lo + 0 = lo /\ f[lo] \in Seq(Nat)
    BY <1>1, <1>2, <1>3 DEF Keeps
  <2>2. f[lo] \o <<>> = f[lo]
    BY <2>1
  <2> QED BY <2>1, <2>2
<1>5. ASSUME NEW m \in Nat, m \in Joined PROVE m + 1 \in Joined
  <2> HIDE DEF Joins
  <2> SUFFICES ASSUME m + 1 <= n PROVE Joins(m + 1)
    OBVIOUS
  <2> USE DEF Joins
  <2> DEFINE k == lo + (m + 1)
             c == text[k]
             a == f[lo]
             b == g[m]
  <2>1. /\ k \in 1..Len(text) /\ k - 1 = lo + m /\ m + 1 \in 1..n /\ (m + 1) - 1 = m
        /\ m <= n /\ m \in 0..n /\ lo \in 0..Len(text) /\ c \in Nat
    BY <1>1
  <2>2. sub[m + 1] = c /\ f[lo + m] = a \o b /\ a \in Seq(Nat) /\ b \in Seq(Nat)
    BY <1>1, <1>3, <1>5, <2>1
  <2>3. f[k] = IF c \in White THEN f[k - 1] ELSE Append(f[k - 1], c)
    BY <2>1, Zenon DEF Keeps
  <2>4. g[m + 1] = IF sub[m + 1] \in White THEN g[(m + 1) - 1]
                                           ELSE Append(g[(m + 1) - 1], sub[m + 1])
    BY <1>1, <1>2, <2>1, Zenon DEF Keeps
  <2>5. f[k] = IF c \in White THEN a \o b ELSE Append(a \o b, c)
    BY <2>1, <2>2, <2>3
  <2>6. g[m + 1] = IF c \in White THEN b ELSE Append(b, c)
    BY <2>1, <2>2, <2>4
  <2> HIDE DEF a, b, c, k
  <2>7. Append(a \o b, c) = a \o Append(b, c)
    BY <2>1, <2>2, AppendConcat
  <2>8. f[k] = a \o g[m + 1]
    BY <2>5, <2>6, <2>7
  <2> QED BY <2>8 DEF k, a
<1> HIDE DEF Joins, Joined
<1>6. n \in Joined
  BY <1>1, <1>4, <1>5, SetInduction
<1>7. f[hi] = f[lo] \o WithoutWhite(sub) /\ WithoutWhite(sub) \in Seq(Nat)
  <2>1. n \in 0..n /\ n <= n
    BY <1>1
  <2>2. Joins(n)
    BY <1>6, <2>1 DEF Joined
  <2>3. WithoutWhite(sub) = g[n]
    BY <1>1, <1>2
  <2>4. g[n] \in Seq(Nat) /\ f[hi] = f[lo] \o g[n]
    BY <1>1, <1>3, <2>1, <2>2, Zenon DEF Joins
  <2> QED BY <2>3, <2>4
<1> QED BY <1>1, <1>7 DEF sub

\* A keyword that ends in a pattern ends in a text that holds the pattern.
LEMMA EndsInside ==
    ASSUME NEW a \in Seq(Nat), NEW p \in Seq(Nat), NEW b \in Seq(Nat), NEW kw \in Seq(Nat),
           NEW i \in 1..Len(p), EndsAt(kw, p, i)
    PROVE  /\ (a \o p) \o b \in Seq(Nat)
           /\ Len(a) + i \in 1..Len((a \o p) \o b)
           /\ EndsAt(kw, (a \o p) \o b, Len(a) + i)
<1> DEFINE t == (a \o p) \o b
           l == Len(kw)
           k == Len(a) + i
           u == SubSeq(p, i - l + 1, i)
           v == SubSeq(t, k - l + 1, k)
<1>1. l \in Nat /\ l <= i /\ i \in Nat /\ Len(a) \in Nat /\ Len(p) \in Nat /\ Len(b) \in Nat
      /\ i <= Len(p) /\ SameText(kw, u)
  BY DEF EndsAt
<1>2. /\ t \in Seq(Nat) /\ Len(t) = Len(a) + Len(p) + Len(b)
      /\ \A j \in 1..Len(p) : t[Len(a) + j] = p[j]
  OBVIOUS
<1>3. k \in 1..Len(t) /\ l <= k
  BY <1>1, <1>2
<1>4. Len(u) = l /\ \A j \in 1..l : u[j] = p[i - l + j]
  BY <1>1
<1> HIDE DEF t, l
<1>5. Len(v) = l /\ \A j \in 1..l : v[j] = t[k - l + j]
  <2> HIDE DEF k
  <2>1. /\ k \in Nat /\ l \in Nat /\ k - l + 1 \in 1..(Len(t) + 1) /\ k <= Len(t)
        /\ Len(t) \in Nat /\ k - (k - l + 1) + 1 = l
    BY <1>1, <1>2, <1>3
  <2>2. /\ Len(v) = IF k - l + 1 <= k THEN k - (k - l + 1) + 1 ELSE 0
        /\ \A j \in 1..(k - (k - l + 1) + 1) : v[j] = t[(k - l + 1) + j - 1]
    BY <1>2, <2>1, SubSeqProperties
  <2> DEFINE first == k - l + 1
  <2>3. first <= k \/ l = 0
    BY <2>1
  <2>4. Len(v) = l
    <3> HIDE DEF v
    <3> QED BY <2>1, <2>2, <2>3
  <2>5. \A j \in 1..l : v[j] = t[first + j - 1]
    <3> HIDE DEF v
    <3> QED BY <2>1, <2>2
  <2>6. \A j \in 1..l : first + j - 1 = k - l + j
    BY <2>1
  <2> HIDE DEF v, first
  <2> QED BY <2>4, <2>5, <2>6
<1>6. \A j \in 1..l : v[j] = u[j]
  <2> TAKE j \in 1..l
  <2>1. i - l + j \in 1..Len(p) /\ k - l + j = Len(a) + (i - l + j)
    BY <1>1
  <2> HIDE DEF u, v, k
  <2> QED BY <1>2, <1>4, <1>5, <2>1
<1> HIDE DEF u, v, k
<1>7. SameText(kw, v)
  BY <1>1, <1>4, <1>5, <1>6 DEF SameText, l
<1>8. EndsAt(kw, t, k)
  BY <1>3, <1>7 DEF EndsAt, v, l
<1> QED BY <1>2, <1>3, <1>8 DEF t, k

LEMMA KeywordsFit ==
    /\ LowerKeywords(KeywordsNoWs) /\ DOMAIN KeywordsNoWs = DOMAIN Keywords
    /\ LowerKeywords(Keywords)
<1>1. /\ Len(Keywords) \in Nat /\ DOMAIN Keywords = 1..Len(Keywords)
      /\ \A k \in DOMAIN Keywords : Keywords[k] \in Seq(KeywordCodes)
  BY KeywordsAssumption
<1>2. DOMAIN KeywordsNoWs = DOMAIN Keywords
      /\ \A k \in DOMAIN Keywords : KeywordsNoWs[k] = WithoutWhite(Keywords[k])
  BY DEF KeywordsNoWs
<1>3. \A k \in DOMAIN Keywords : Keywords[k] \in Seq(Nat)
  BY <1>1, FoldedSelf
<1>4. ASSUME NEW k \in DOMAIN Keywords
      PROVE  /\ KeywordsNoWs[k] \in Seq(KeywordCodes) /\ KeywordsNoWs[k] \in Seq(Nat)
             /\ Keywords[k] # <<>>
  <2> DEFINE kw == Keywords[k]
             w == WithoutWhite(kw)
             m == Len(w)
             g(j) == w[j]
  <2>1. kw \in Seq(Nat) /\ \A i \in 1..Len(kw) : kw[i] \in KeywordCodes
    BY <1>1, <1>3
  <2> HIDE DEF kw
  <2>2. w \in Seq(Nat) /\ \A j \in 1..Len(w) : w[j] \in KeywordCodes
    BY <2>1, WhiteDrops
  <2> HIDE DEF w
  <2>3. w \in Seq(KeywordCodes)
    <3>1. w = [j \in 1..m |-> g(j)] /\ m \in Nat /\ \A j \in 1..m : g(j) \in KeywordCodes
      BY <2>2
    <3> HIDE DEF g, m
    <3>2. [j \in 1..m |-> g(j)] \in Seq(KeywordCodes)
      BY <3>1
    <3> QED BY <3>1, <3>2
  <2>4. kw # <<>>
    <3> SUFFICES ASSUME kw = <<>> PROVE FALSE
      OBVIOUS
    <3>1. PICK f : Keeps(f, kw) /\ WithoutWhite(kw) = f[Len(kw)]
      BY <2>1, WhiteKeeps
    <3>2. w = <<>>
      BY <3>1 DEF Keeps, w
    <3> QED BY <1>2, <3>2, KeywordsAssumption DEF w, kw
  <2> QED BY <1>2, <2>2, <2>3, <2>4 DEF w, kw
<1> DEFINE n == Len(Keywords)
           h(k) == KeywordsNoWs[k]
           e(k) == Keywords[k]
<1>5. KeywordsNoWs = [k \in 1..n |-> h(k)] /\ Keywords = [k \in 1..n |-> e(k)]
  BY <1>1, <1>2, KeywordsAssumption DEF KeywordsNoWs
<1>6. n \in Nat /\ \A k \in 1..n : h(k) \in Seq(Nat) /\ e(k) \in Seq(Nat)
  BY <1>1, <1>3, <1>4
<1> HIDE DEF n, h, e
<1>7. [k \in 1..n |-> h(k)] \in Seq(Seq(Nat)) /\ [k \in 1..n |-> e(k)] \in Seq(Seq(Nat))
  BY <1>6
<1>8. KeywordsOK(KeywordsNoWs) /\ KeywordsOK(Keywords)
  BY <1>2, <1>4, <1>5, <1>7, KeywordsAssumption DEF KeywordsOK
<1> QED BY <1>1, <1>2, <1>4, <1>8 DEF LowerKeywords

\* The superset property: no keyword in either search, no signal in the text.
LEMMA ScreenedFindsNone ==
    ASSUME ScanType, Screened, NEW s \in Raw \ {"dynamicRequire"}
    PROVE  MatchAllPositions(content, Pattern[s]) = {}
<1> SUFFICES ASSUME NEW pos \in Offsets(content), MatchesAt(Pattern[s], content, pos) PROVE FALSE
  BY DEF MatchAllPositions
<1> DEFINE p == Pattern[s]
           n == Len(content)
<1>1. content \in Seq(Nat) /\ n \in Nat /\ pos \in 0..(n - 1)
  BY DEF ScanType, Offsets
<1>2. PICK last \in pos..(n - 1) : WithoutWhite(SubSeq(content, pos + 1, last + 1)) = p
  BY DEF MatchesAt
<1>3. PICK k \in DOMAIN Keywords : \E i \in 1..Len(p) : EndsAt(KeywordsNoWs[k], p, i)
  BY KeywordsAssumption
<1>4. PICK i \in 1..Len(p) : EndsAt(KeywordsNoWs[k], p, i)
  BY <1>3
<1>5. PICK f : Keeps(f, content) /\ WithoutWhite(content) = f[n]
  BY <1>1, WhiteKeeps
<1>6. pos \in 0..n /\ last + 1 \in pos..n /\ last + 1 \in 0..n /\ n \in (last + 1)..n
  BY <1>1
<1>7. p \in Seq(Nat) /\ f[last + 1] = f[pos] \o p
  <2> DEFINE next == last + 1
             w == WithoutWhite(SubSeq(content, pos + 1, next))
  <2>1. w = p /\ pos \in 0..Len(content) /\ next \in pos..Len(content)
    BY <1>2, <1>6
  <2> HIDE DEF next
  <2>2. w \in Seq(Nat) /\ f[next] = f[pos] \o w
    BY <1>1, <1>5, <2>1, KeepsStretch
  <2> QED BY <2>1, <2>2 DEF next
<1> DEFINE b == WithoutWhite(SubSeq(content, (last + 1) + 1, n))
           a == f[pos]
<1>8. b \in Seq(Nat) /\ f[n] = f[last + 1] \o b
  BY <1>1, <1>5, <1>6, KeepsStretch
<1>9. a \in Seq(Nat)
  BY <1>5, <1>6 DEF Keeps
<1> HIDE DEF b, a, p
<1>10. /\ LowerKeywords(KeywordsNoWs) /\ k \in DOMAIN KeywordsNoWs
       /\ KeywordsNoWs[k] \in Seq(Nat)
  BY KeywordsFit DEF LowerKeywords, KeywordsOK
<1>11. WithoutWhite(content) = (a \o p) \o b
  BY <1>5, <1>7, <1>8 DEF a
<1> DEFINE t == WithoutWhite(content)
<1>12. t \in Seq(Nat) /\ Len(a) + i \in 1..Len(t) /\ EndsAt(KeywordsNoWs[k], t, Len(a) + i)
  BY <1>4, <1>7, <1>8, <1>9, <1>10, <1>11, EndsInside
<1>13. SearchInsensitive(Automaton(KeywordsNoWs), t) = NoMatch
  BY DEF Screened, PrescreenerNoWs
<1> HIDE DEF t
<1> QED BY <1>10, <1>12, <1>13, SearchMisses

-----------------------------------------------------------------------------
(* The scan: what is found so far is what the rules passed report, and a   *)
(* sweep under way is that of the rule that is looked at.                  *)

ReportedBefore(k) == UNION {Reported(Rules[i]) : i \in 1..(k - 1)}

SweepsRule ==
    sweep # "off" =>
        /\ stage = "rules"
        /\ Triggered(Rules[rule], signals) /\ Rules[rule].groups # <<>>
        /\ PointsOK(ScanSrc, Groups(Rules[rule]))
        /\ PrefixOK(ScanSrc)
        /\ SweepInv(Groups(Rules[rule]))

ScanInv ==
    /\ ScanType
    /\ stage = "screen" => rule = 1 /\ found = {}
    /\ stage = "rules" => signals = Flagged(Signal) /\ found = ReportedBefore(rule)
    /\ stage = "done" => found = ReportedBefore(Len(Rules) + 1)
    /\ SweepsRule

\* Every rule but the last needs egress or generated code, which the raw text
\* shows: what the early return reports is what the rules would have.
LEMMA RulesNeed ==
    ASSUME NEW present
    PROVE  /\ \A k \in 1..7 : Triggered(Rules[k], present) =>
                                "networkEgress" \in present \/ "dynamicCode" \in present
           /\ Triggered(Rules[8], present) <=> "dynamicRequire" \in present
           /\ Rules[8].groups = <<>> /\ Rules[8].name = "DYNAMIC_MODULE_LOAD"
<1>1. /\ Rules[1].needs = {{"sensitivePath"}, {"networkEgress"}}
      /\ Rules[2].needs = {{"npmrcRead"}, {"networkEgress"}}
      /\ Rules[3].needs = {{"sensitiveConfigPath"}, {"networkEgress"}, Theft}
      /\ Rules[4].needs = {{"envRead"}, {"networkEgress"}}
      /\ Rules[5].needs = {{"dynamicCode"}, {"processExec"}}
      /\ Rules[6].needs = {{"dynamicCode"}, {"codeDecode"}}
      /\ Rules[7].needs = {{"networkEgress"}, {"dynamicCode"}}
  BY DEF Rules, Rule, Together
<1>2. /\ Rules[8].needs = {{"dynamicRequire"}} /\ Rules[8].absent = {}
      /\ Rules[8].groups = <<>> /\ Rules[8].name = "DYNAMIC_MODULE_LOAD"
  BY DEF Rules, Rule
<1> HIDE DEF Rules
<1>3. \A k \in 1..7 : {"networkEgress"} \in Rules[k].needs \/ {"dynamicCode"} \in Rules[k].needs
  <2> TAKE k \in 1..7
  <2>1. k = 1 \/ k = 2 \/ k = 3 \/ k = 4 \/ k = 5 \/ k = 6 \/ k = 7
    OBVIOUS
  <2> QED BY <1>1, <2>1
<1>4. \A s : {s} \cap present # {} <=> s \in present
  OBVIOUS
<1>5. \A k \in 1..7 : Triggered(Rules[k], present) =>
                        "networkEgress" \in present \/ "dynamicCode" \in present
  BY <1>3, <1>4 DEF Triggered
<1>6. Triggered(Rules[8], present) <=> "dynamicRequire" \in present
  BY <1>2, <1>4 DEF Triggered
<1> QED BY <1>2, <1>5, <1>6

LEMMA EarlyReturnReports ==
    ASSUME ScanType, ReturnsEarly
    PROVE  found' = ReportedBefore(Len(Rules) + 1)
<1>1. /\ Screened /\ astSignals = {}
      /\ found' = IF Flagged({"dynamicRequire"}) # {} THEN {"DYNAMIC_MODULE_LOAD"} ELSE {}
  BY DEF ReturnsEarly
<1> DEFINE Present == Flagged(Signal)
<1>2. "networkEgress" \in Raw \ {"dynamicRequire"} /\ "dynamicCode" \in Raw \ {"dynamicRequire"}
      /\ "dynamicRequire" \in Signal
  BY DEF Raw, Signal
<1>3. ASSUME NEW s \in Raw \ {"dynamicRequire"} PROVE Positions(s) = {}
  <2>1. s \notin Sanitized
    BY DEF Raw, Sanitized
  <2>2. MatchAllPositions(content, Pattern[s]) = {}
    BY <1>1, ScreenedFindsNone
  <2>3. AstPositions(s) = {}
    BY <1>1 DEF AstPositions
  <2> QED BY <2>1, <2>2, <2>3 DEF Positions
<1>4. /\ "networkEgress" \notin Present /\ "dynamicCode" \notin Present
      /\ "dynamicRequire" \in Present <=> Flagged({"dynamicRequire"}) # {}
  BY <1>2, <1>3 DEF Flagged
<1>5. /\ Len(Rules) + 1 = 9 /\ DOMAIN Rules = 1..8
      /\ \A k \in 1..8 : Reported(Rules[k]) =
           LET r == Rules[k]
           IN  IF ~Triggered(r, Present) THEN {}
               ELSE IF r.groups = <<>> \/ Correlated(ScanSrc, Groups(r))
                 THEN {r.name} ELSE r.otherwise
  BY RulesType, RuleReads, SMTT(30)
<1> HIDE DEF Present
<1>6. \A k \in 1..7 : Reported(Rules[k]) = {}
  <2> TAKE k \in 1..7
  <2>1. ~Triggered(Rules[k], Present) /\ k \in 1..8
    BY <1>4, RulesNeed
  <2> QED BY <1>5, <2>1
<1>7. Reported(Rules[8]) = IF "dynamicRequire" \in Present THEN {"DYNAMIC_MODULE_LOAD"} ELSE {}
  BY <1>5, RulesNeed
<1>8. ReportedBefore(9) = Reported(Rules[8])
  <2>1. 1..(9 - 1) = (1..7) \cup {8}
    OBVIOUS
  <2> QED BY <1>6, <2>1 DEF ReportedBefore
<1> QED BY <1>1, <1>4, <1>5, <1>7, <1>8

\* What the module's text alone decides is the same after a step.
LEMMA TextFrame ==
    ASSUME UNCHANGED <<content, blanked, astSignals>>
    PROVE  /\ ScanSrc' = ScanSrc
           /\ Flagged(Signal)' = Flagged(Signal)
           /\ \A r : Reported(r)' = Reported(r) /\ Groups(r)' = Groups(r)
<1>1. ScanSrc' = ScanSrc
  BY DEF ScanSrc
<1>2. \A s : AstPositions(s)' = AstPositions(s)
  BY DEF AstPositions
<1>3. \A s : Positions(s)' = Positions(s)
  BY <1>1, <1>2 DEF Positions
<1>4. \A s : Occurrences(s)' = Occurrences(s)
  BY <1>2 DEF Occurrences
<1>5. Flagged(Signal)' = Flagged(Signal)
  BY <1>3 DEF Flagged
<1>6. \A r : Groups(r)' = Groups(r)
  BY <1>3 DEF Groups
<1>7. \A r : Breaks(r)' = Breaks(r)
  BY <1>1, <1>4 DEF Breaks
<1>8. \A r : Reported(r)' = Reported(r)
  BY <1>4, <1>7 DEF Reported
<1> QED BY <1>1, <1>5, <1>6, <1>8

LEMMA BeforeNext ==
    ASSUME NEW k \in Nat \ {0}
    PROVE  ReportedBefore(k + 1) = ReportedBefore(k) \cup Reported(Rules[k])
<1>1. (k + 1) - 1 = k /\ 1..k = (1..(k - 1)) \cup {k}
  OBVIOUS
<1> QED BY <1>1 DEF ReportedBefore

LEMMA ScanInitially ==
    ASSUME ScanInit
    PROVE  ScanInv
<1>1. PICK m \in Modules : content = m.content /\ blanked = m.blanked /\ astSignals = m.ast
  BY DEF ScanInit
<1>2. stage = "screen" /\ rule = 1 /\ found = {} /\ sweep = "off"
  BY DEF ScanInit, SweepInit
<1>3. ScanType
  BY <1>1, <1>2, ScanAssumption, RulesType DEF ScanType
<1> QED BY <1>2, <1>3 DEF ScanInv, SweepsRule

\* The rule after this one, when this one has reported.
LEMMA RulePassed ==
    ASSUME ScanInv, stage = "rules", NextRule, sweep' = "off",
           UNCHANGED <<content, blanked, astSignals, signals>>,
           found' = found \cup Reported(Rules[rule])
    PROVE  ScanInv'
<1>1. /\ ScanType /\ rule \in 1..8 /\ Len(Rules) = 8 /\ DOMAIN Rules = 1..8
      /\ signals = Flagged(Signal) /\ found = ReportedBefore(rule)
  BY RulesType DEF ScanInv, ScanType
<1>2. /\ rule = 8 => stage' = "done" /\ rule' = rule
      /\ rule # 8 => rule' = rule + 1 /\ stage' = "rules"
  BY <1>1 DEF NextRule
<1>3. /\ Flagged(Signal)' = Flagged(Signal)
      /\ \A r : Reported(r)' = Reported(r)
  BY TextFrame
<1>4. \A k : ReportedBefore(k)' = ReportedBefore(k)
  BY <1>3 DEF ReportedBefore
<1>5. found' = ReportedBefore(rule + 1)
  BY <1>1, BeforeNext
<1>6. ScanType'
  BY <1>1, <1>2 DEF ScanType
<1>7. CASE rule = 8
  <2>1. stage' = "done" /\ ReportedBefore(Len(Rules) + 1)' = ReportedBefore(rule + 1)
    <3>1. ReportedBefore(Len(Rules) + 1)' = ReportedBefore(Len(Rules) + 1)
      BY <1>4
    <3> QED BY <1>1, <1>2, <1>7, <3>1
  <2> QED BY <1>5, <1>6, <2>1 DEF ScanInv, SweepsRule
<1>8. CASE rule # 8
  <2>1. stage' = "rules" /\ ReportedBefore(rule)' = ReportedBefore(rule + 1)
    <3>1. ReportedBefore(rule')  = ReportedBefore(rule + 1)
      BY <1>2, <1>8
    <3>2. ReportedBefore(rule)' = UNION {Reported(Rules[i])' : i \in 1..(rule' - 1)}
      BY DEF ReportedBefore
    <3>3. ReportedBefore(rule)' = ReportedBefore(rule')
      BY <1>3, <3>2 DEF ReportedBefore
    <3> QED BY <1>2, <1>8, <3>1, <3>3
  <2> QED BY <1>1, <1>3, <1>5, <1>6, <2>1 DEF ScanInv, SweepsRule
<1> QED BY <1>7, <1>8

\* The sweep's invariant holds of the text and the groups of the next state.
LEMMA SweepCarries ==
    ASSUME NEW text, NEW groups, text = ScanSrc', groups = Groups(Rules[rule])',
           PointsOK(text, groups)', PrefixOK(text)', SweepInv(groups)'
    PROVE  /\ PointsOK(ScanSrc, Groups(Rules[rule]))' /\ PrefixOK(ScanSrc)'
           /\ SweepInv(Groups(Rules[rule]))'
<1>1. PointsOK(ScanSrc, Groups(Rules[rule]))' /\ PrefixOK(ScanSrc)'
  BY DEF PointsOK, PrefixOK
<1>2. SweepInv(Groups(Rules[rule]))'
  BY DEF SweepInv, LoopInv, Covers
<1> QED BY <1>1, <1>2

\* A step of the sweep changes nothing but the sweep.
LEMMA ScanFrame ==
    ASSUME ScanInv, UNCHANGED scanVars, SweepsRule'
    PROVE  ScanInv'
<1>1. UNCHANGED <<content, blanked, astSignals>> /\ stage' = stage /\ rule' = rule
      /\ signals' = signals /\ found' = found
  BY DEF scanVars
<1>2. /\ Flagged(Signal)' = Flagged(Signal)
      /\ \A k : ReportedBefore(k)' = ReportedBefore(k)
  BY <1>1, TextFrame DEF ReportedBefore
<1>3. ReportedBefore(rule)' = ReportedBefore(rule)
  BY <1>1, TextFrame DEF ReportedBefore
<1>4. ScanType'
  BY <1>1 DEF ScanInv, ScanType
<1> QED BY <1>1, <1>2, <1>3, <1>4 DEF ScanInv

LEMMA ScanStep ==
    ASSUME ScanInv, [ScanNext]_<<scanVars, sweepVars>>
    PROVE  ScanInv'
<1>1. ScanType /\ rule \in DOMAIN Rules /\ rule \in Nat \ {0}
  BY RulesType DEF ScanInv, ScanType
<1> DEFINE r == Rules[rule]
<1>2. /\ r.groups # <<>> => Grouped(ScanSrc, Groups(r))
      /\ Reported(r) = IF ~Triggered(r, Flagged(Signal)) THEN {}
                       ELSE IF r.groups = <<>> \/ Correlated(ScanSrc, Groups(r))
                         THEN {r.name} ELSE r.otherwise
  BY <1>1, RuleReads
<1> HIDE DEF r
<1>3. ScanSrc \in Seq(Nat)
  BY <1>1, ScanSrcType
<1>4. CASE ReturnsEarly
  <2>1. /\ stage = "screen" /\ stage' = "done" /\ rule' = rule
        /\ UNCHANGED <<content, blanked, astSignals, sweep>>
    BY <1>4 DEF ReturnsEarly, sweepVars
  <2>2. sweep = "off" /\ ScanType'
    BY <1>1, <2>1 DEF ScanInv, SweepsRule, ScanType
  <2>3. found' = ReportedBefore(Len(Rules) + 1)'
    <3>1. found' = ReportedBefore(Len(Rules) + 1)
      BY <1>1, <1>4, EarlyReturnReports
    <3>2. \A k : ReportedBefore(k)' = ReportedBefore(k)
      BY <2>1, TextFrame DEF ReportedBefore
    <3> QED BY <3>1, <3>2
  <2> QED BY <2>1, <2>2, <2>3 DEF ScanInv, SweepsRule
<1>5. CASE RecordsSignals
  <2>1. /\ stage = "screen" /\ stage' = "rules" /\ rule' = rule /\ found' = found
        /\ signals' = Flagged(Signal)
        /\ UNCHANGED <<content, blanked, astSignals, sweep>>
    BY <1>5 DEF RecordsSignals, sweepVars
  <2>2. sweep = "off" /\ ScanType' /\ rule = 1 /\ found = {}
    BY <1>1, <2>1 DEF ScanInv, SweepsRule, ScanType
  <2>3. ReportedBefore(rule)' = {}
    <3>1. 1..(1 - 1) = {}
      OBVIOUS
    <3> QED BY <2>1, <2>2, <3>1 DEF ReportedBefore
  <2>4. signals' = Flagged(Signal)'
    BY <2>1, TextFrame
  <2> QED BY <2>1, <2>2, <2>3, <2>4 DEF ScanInv, SweepsRule
<1>6. CASE PassesRule
  <2>1. /\ stage = "rules" /\ sweep = "off" /\ sweep' = sweep /\ NextRule
        /\ UNCHANGED <<content, blanked, astSignals, signals>>
        /\ \/ ~Triggered(r, signals) /\ found' = found
           \/ Triggered(r, signals) /\ r.groups = <<>> /\ found' = found \cup {r.name}
    BY <1>6 DEF PassesRule, sweepVars, r
  <2>2. signals = Flagged(Signal)
    BY <2>1 DEF ScanInv
  <2>3. found' = found \cup Reported(r)
    BY <1>2, <2>1, <2>2
  <2> QED BY <2>1, <2>3, RulePassed DEF r
<1>7. CASE Correlates
  <2>1. /\ stage = "rules" /\ Triggered(r, signals) /\ r.groups # <<>>
        /\ StartSweep(Groups(r), SeparatorPrefix(ScanSrc)) /\ UNCHANGED scanVars
    BY <1>7 DEF Correlates, r
  <2>2. PICK text, groups : text = ScanSrc /\ groups = Groups(r)
    OBVIOUS
  <2>3. PointsOK(text, groups)' /\ PrefixOK(text)' /\ SweepInv(groups)'
    BY <1>2, <1>3, <2>1, <2>2, StartSweepKeeps
  <2>4. text = ScanSrc' /\ groups = Groups(r)' /\ Rules[rule]' = r
    BY <2>1, <2>2, TextFrame DEF scanVars, r
  <2>5. SweepsRule'
    BY <2>1, <2>3, <2>4, SweepCarries DEF SweepsRule, scanVars, r
  <2> QED BY <2>1, <2>5, ScanFrame
<1>8. CASE EndsRule
  <2>1. /\ sweep \in {"yes", "no"} /\ NextRule /\ sweep' = "off"
        /\ found' = found \cup (IF sweep = "yes" THEN {r.name} ELSE r.otherwise)
        /\ UNCHANGED <<content, blanked, astSignals, signals>>
    BY <1>8 DEF EndsRule, EndSweep, r
  <2>2. /\ stage = "rules" /\ Triggered(r, signals) /\ r.groups # <<>>
        /\ PointsOK(ScanSrc, Groups(r)) /\ PrefixOK(ScanSrc) /\ SweepInv(Groups(r))
    BY <2>1 DEF ScanInv, SweepsRule, r
  <2>3. signals = Flagged(Signal)
    BY <2>2 DEF ScanInv
  <2>4. sweep = "yes" <=> Correlated(ScanSrc, Groups(r))
    BY <1>2, <1>3, <2>1, <2>2, SweepDecides
  <2>5. found' = found \cup Reported(r)
    BY <1>2, <2>1, <2>2, <2>3, <2>4
  <2> QED BY <2>1, <2>2, <2>5, RulePassed DEF r
<1>9. CASE (CountRight \/ ShrinkLeft \/ Decide) /\ UNCHANGED scanVars
  <2>1. sweep # "off"
    BY <1>9 DEF CountRight, ShrinkLeft, Decide
  <2>2. /\ stage = "rules" /\ Triggered(r, signals) /\ r.groups # <<>>
        /\ PointsOK(ScanSrc, Groups(r)) /\ PrefixOK(ScanSrc) /\ SweepInv(Groups(r))
    BY <2>1 DEF ScanInv, SweepsRule, r
  <2>3. PICK text, groups : text = ScanSrc /\ groups = Groups(r)
    OBVIOUS
  <2>4. PointsOK(text, groups)' /\ PrefixOK(text)' /\ SweepInv(groups)'
    <3>1. sep' = sep /\ points' = points
      BY <1>9 DEF CountRight, ShrinkLeft, Decide
    <3>2. PointsOK(text, groups)' /\ PrefixOK(text)'
      BY <2>2, <2>3, <3>1 DEF PointsOK, PrefixOK
    <3>3. SweepInv(groups)'
      BY <1>2, <1>3, <1>9, <2>2, <2>3, CountRightKeeps, ShrinkLeftKeeps, DecideKeeps
    <3> QED BY <3>2, <3>3
  <2>5. UNCHANGED scanVars
    BY <1>9
  <2>6. text = ScanSrc' /\ groups = Groups(r)' /\ Rules[rule]' = r
    BY <2>3, <2>5, TextFrame DEF scanVars, r
  <2>7. SweepsRule'
    BY <2>2, <2>4, <2>5, <2>6, SweepCarries DEF SweepsRule, scanVars, r
  <2> QED BY <2>5, <2>7, ScanFrame
<1>10. CASE UNCHANGED <<scanVars, sweepVars>>
  <2>1. UNCHANGED scanVars /\ UNCHANGED sweepVars
    BY <1>10
  <2>2. SweepsRule'
    <3> SUFFICES ASSUME sweep # "off" PROVE SweepsRule'
      BY <2>1 DEF SweepsRule, sweepVars
    <3>1. PICK text, groups : text = ScanSrc /\ groups = Groups(Rules[rule])
      OBVIOUS
    <3>2. PointsOK(text, groups) /\ PrefixOK(text) /\ SweepInv(groups)
      BY <3>1 DEF ScanInv, SweepsRule
    <3>3. PointsOK(text, groups)' /\ PrefixOK(text)' /\ SweepInv(groups)'
      BY <2>1, <3>2 DEF sweepVars, PointsOK, PrefixOK, SweepInv, LoopInv, Counted, Inside,
                        Filled, Wide, Covers
    <3>4. text = ScanSrc' /\ groups = Groups(Rules[rule])'
      BY <2>1, <3>1, TextFrame DEF scanVars
    <3>5. /\ PointsOK(ScanSrc, Groups(Rules[rule]))' /\ PrefixOK(ScanSrc)'
          /\ SweepInv(Groups(Rules[rule]))'
      BY <3>3, <3>4, SweepCarries
    <3> QED BY <2>1, <3>5 DEF ScanInv, SweepsRule, scanVars
  <2> QED BY <2>1, <2>2, ScanFrame
<1> QED BY <1>4, <1>5, <1>6, <1>7, <1>8, <1>9, <1>10 DEF ScanNext

\* Every reachable state of analyzeModule satisfies its invariant: what is
\* reported so far is what the rules passed so far report, and the sweep that
\* is under way has counted its window.
THEOREM ScanInvariant == ScanSpec => []ScanInv
<1>1. ScanInit => ScanInv
  BY ScanInitially
<1>2. ScanInv /\ [ScanNext]_<<scanVars, sweepVars>> => ScanInv'
  BY ScanStep
<1> QED BY <1>1, <1>2, PTL DEF ScanSpec

\* At every turn of withinContext its counters describe the window, for any
\* texts, caps and patterns.
THEOREM WindowCountedHolds == ScanSpec => []WindowCounted
<1>1. ASSUME ScanInv PROVE WindowCounted
  <2> SUFFICES ASSUME sweep \in {"count", "shrink"} PROVE WindowCounted
    BY DEF WindowCounted
  <2>1. SweepInv(Groups(Rules[rule]))
    BY <1>1 DEF ScanInv, SweepsRule
  <2> QED BY <2>1 DEF SweepInv, LoopInv, Counted, Inside, Filled, WindowCounted
<1>2. ScanInv => WindowCounted
  BY <1>1
<1> QED BY <1>2, ScanInvariant, PTL

\* The answer of a sweep that has ended is the one the texts call for.
SweepDecidesCorrelation ==
    sweep \in {"yes", "no"} =>
        (sweep = "yes" <=> Correlated(ScanSrc, Groups(Rules[rule])))

\* withinContext returns true exactly if a stretch of the text within both
\* caps holds a position of every group: the two-pointer sweep, which looks
\* at each position once, loses no window and adds none.
THEOREM SweepExact == ScanSpec => []SweepDecidesCorrelation
<1>1. ASSUME ScanInv PROVE SweepDecidesCorrelation
  <2> SUFFICES ASSUME sweep \in {"yes", "no"}
               PROVE  sweep = "yes" <=> Correlated(ScanSrc, Groups(Rules[rule]))
    BY DEF SweepDecidesCorrelation
  <2>1. /\ ScanType /\ rule \in DOMAIN Rules /\ Rules[rule].groups # <<>>
        /\ PointsOK(ScanSrc, Groups(Rules[rule])) /\ PrefixOK(ScanSrc)
        /\ SweepInv(Groups(Rules[rule]))
    BY <1>1 DEF ScanInv, SweepsRule, ScanType
  <2>2. Grouped(ScanSrc, Groups(Rules[rule]))
    BY <2>1, RuleReads
  <2>3. ScanSrc \in Seq(Nat)
    BY <2>1, ScanSrcType
  <2> QED BY <2>1, <2>2, <2>3, SweepDecides
<1>2. ScanInv => SweepDecidesCorrelation
  BY <1>1
<1> QED BY <1>2, ScanInvariant, PTL

\* A module is reported for exactly the rules it breaks: neither the keyword
\* pre-screener's early return, nor the blanking of comments, nor the flags,
\* nor the sweep loses or adds one, for any texts, patterns and keywords that
\* the assumptions admit.
THEOREM ReportedExactlyHolds == ScanSpec => []ReportedExactly
<1>1. ASSUME ScanInv PROVE ReportedExactly
  <2> SUFFICES ASSUME stage = "done"
               PROVE  found = UNION {Reported(Rules[k]) : k \in DOMAIN Rules}
    BY DEF ReportedExactly
  <2>1. found = ReportedBefore(Len(Rules) + 1)
    BY <1>1 DEF ScanInv
  <2>2. (Len(Rules) + 1) - 1 = 8 /\ DOMAIN Rules = 1..8
    BY RulesType
  <2> QED BY <2>1, <2>2 DEF ReportedBefore
<1>2. ScanInv => ReportedExactly
  BY <1>1
<1> QED BY <1>2, ScanInvariant, PTL

\* The pre-screener's search returns, of the keywords that end first in the
\* text, the longest, whatever the keywords' prefixes have in common.
THEOREM SearchExactHolds == ScanSpec => []SearchExact
<1>1. ASSUME ScanInv PROVE SearchExact
  <2>1. content \in Seq(Nat) /\ LowerKeywords(Keywords)
    BY <1>1, KeywordsFit DEF ScanInv, ScanType
  <2>2. SearchInsensitive(Automaton(Keywords), content) = FirstMatch(Keywords, content)
    BY <2>1, SearchReturnsFirst
  <2> QED BY <2>2 DEF SearchExact, Prescreener
<1>2. ScanInv => SearchExact
  BY <1>1
<1> QED BY <1>2, ScanInvariant, PTL

-----------------------------------------------------------------------------
(* White space added to a text. *)

\* The states of two readings that agree, of which the second has counted one
\* boundary more, or has read the end of a line that the first is still on.
Agree(s, u) ==
    u.count = s.count /\ u.content = s.content /\ u.boundary = s.boundary

OneAhead(s, u) ==
    u.count = s.count + 1 /\ u.content = s.content /\ u.boundary = s.boundary

LineCut(s, u) ==
    /\ ~u.content
    /\ IF Open(s) THEN u.count = s.count + 1 /\ u.boundary
                  ELSE u.count = s.count /\ u.boundary = s.boundary

\* What they have become once the texts are the same again: the line is cut
\* until the first reading ends it too, or it goes on.
LEMMA ReadTogether ==
    ASSUME NEW s \in ReadState, NEW u \in ReadState, NEW c
    PROVE  LET t == Advance(s, c)
               v == Advance(u, c)
           IN  /\ Agree(s, u) => Agree(t, v)
               /\ OneAhead(s, u) => OneAhead(t, v)
               /\ LineCut(s, u) /\ ~Open(s) => Agree(t, v) \/ (LineCut(t, v) /\ ~Open(t))
               /\ LineCut(s, u) /\ Open(s) =>
                    IF c \in Blanks THEN LineCut(t, v) /\ Open(t)
                    ELSE IF c = Newline THEN Agree(t, v)
                    ELSE OneAhead(t, v)
<1>1. /\ s.count \in Nat /\ s.content \in BOOLEAN /\ s.boundary \in BOOLEAN
      /\ u.count \in Nat /\ u.content \in BOOLEAN /\ u.boundary \in BOOLEAN
      /\ DOMAIN s = {"count", "content", "boundary"}
      /\ DOMAIN u = {"count", "content", "boundary"}
  BY DEF ReadState
<1>2. Newline \notin Separators /\ \A b \in Blanks : b \notin Separators /\ b # Newline
  BY DEF Newline, Separators, Blanks
<1> DEFINE t == Advance(s, c)
           v == Advance(u, c)
<1>3. ASSUME Agree(s, u) PROVE Agree(t, v)
  BY <1>1, <1>3 DEF Agree, Advance, LineEnd
<1>4. ASSUME OneAhead(s, u) PROVE OneAhead(t, v)
  BY <1>1, <1>4 DEF OneAhead, Advance, LineEnd
<1>5. ASSUME LineCut(s, u), ~Open(s) PROVE Agree(t, v) \/ (LineCut(t, v) /\ ~Open(t))
  <2>1. CASE c \in Separators
    BY <1>1, <1>5, <2>1 DEF LineCut, Agree, Advance, Open
  <2>2. CASE c = Newline
    BY <1>1, <1>2, <1>5, <2>2 DEF LineCut, Agree, Advance, LineEnd, Open
  <2>3. CASE c \in Blanks
    BY <1>1, <1>2, <1>5, <2>3 DEF LineCut, Advance, Open
  <2>4. CASE c \notin Separators \cup Blanks \cup {Newline}
    BY <1>1, <1>5, <2>4 DEF LineCut, Agree, Advance, Open
  <2> QED BY <2>1, <2>2, <2>3, <2>4
<1>6. ASSUME LineCut(s, u), Open(s)
      PROVE  IF c \in Blanks THEN LineCut(t, v) /\ Open(t)
             ELSE IF c = Newline THEN Agree(t, v)
             ELSE OneAhead(t, v)
  <2>1. CASE c \in Separators
    BY <1>1, <1>2, <1>6, <2>1 DEF LineCut, OneAhead, Advance, Open
  <2>2. CASE c = Newline
    BY <1>1, <1>2, <1>6, <2>2 DEF LineCut, Agree, Advance, LineEnd, Open
  <2>3. CASE c \in Blanks
    BY <1>1, <1>2, <1>6, <2>3 DEF LineCut, Advance, Open
  <2>4. CASE c \notin Separators \cup Blanks \cup {Newline}
    BY <1>1, <1>6, <2>4 DEF LineCut, OneAhead, Advance, Open
  <2> QED BY <2>1, <2>2, <2>3, <2>4
<1> QED BY <1>3, <1>4, <1>5, <1>6

\* The padding itself: blanks change nothing, a newline cuts the line.
LEMMA ReadPadding ==
    ASSUME NEW s \in ReadState, NEW u \in ReadState
    PROVE  /\ \A c \in Blanks : Advance(u, c) = u
           /\ Agree(s, u) \/ LineCut(s, u) => LineCut(s, Advance(u, Newline))
<1>1. /\ s.count \in Nat /\ s.content \in BOOLEAN /\ s.boundary \in BOOLEAN
      /\ u.count \in Nat /\ u.content \in BOOLEAN /\ u.boundary \in BOOLEAN
      /\ DOMAIN u = {"count", "content", "boundary"}
  BY DEF ReadState
<1>2. Newline \notin Separators /\ \A b \in Blanks : b \notin Separators /\ b # Newline
  BY DEF Newline, Separators, Blanks
<1>3. \A c \in Blanks : Advance(u, c) = u
  BY <1>2 DEF Advance
<1>4. ASSUME Agree(s, u) PROVE LineCut(s, Advance(u, Newline))
  BY <1>1, <1>2, <1>4 DEF Agree, LineCut, Advance, LineEnd, Open
<1>5. ASSUME LineCut(s, u) PROVE LineCut(s, Advance(u, Newline))
  BY <1>1, <1>2, <1>5 DEF LineCut, Advance, LineEnd, Open
<1> QED BY <1>3, <1>4, <1>5

LEMMA PaddedType ==
    ASSUME NEW text \in Seq(Nat), NEW at \in 0..Len(text), NEW w \in Seq(Nat)
    PROVE  /\ Padded(text, at, w) \in Seq(Nat) /\ Len(Padded(text, at, w)) = Len(text) + Len(w)
           /\ \A i \in 1..at : Padded(text, at, w)[i] = text[i]
           /\ \A i \in 1..Len(w) : Padded(text, at, w)[at + i] = w[i]
           /\ \A i \in (at + 1)..Len(text) : Padded(text, at, w)[Len(w) + i] = text[i]
<1> DEFINE front == SubSeq(text, 1, at)
           back == SubSeq(text, at + 1, Len(text))
           n == Len(text)
           m == Len(w)
<1>1. n \in Nat /\ m \in Nat /\ at \in Nat /\ at <= n
  OBVIOUS
<1>2. front \in Seq(Nat) /\ Len(front) = at /\ \A i \in 1..at : front[i] = text[i]
  OBVIOUS
<1>3. back \in Seq(Nat) /\ Len(back) = n - at /\ \A i \in 1..(n - at) : back[i] = text[at + i]
  OBVIOUS
<1>4. Padded(text, at, w) = (front \o w) \o back
  BY DEF Padded
<1> HIDE DEF front, back, n, m
<1> DEFINE half == front \o w
<1>5. /\ half \in Seq(Nat) /\ Len(half) = at + m
      /\ \A i \in 1..at : half[i] = text[i]
      /\ \A i \in 1..m : half[at + i] = w[i]
  <2>1. half \in Seq(Nat) /\ Len(half) = at + m
    BY <1>2, ConcatProperties DEF m
  <2>2. \A i \in 1..at : half[i] = front[i]
    BY <1>1, <1>2 DEF m
  <2>3. \A i \in 1..m : half[at + i] = w[i]
    BY <1>1, <1>2 DEF m
  <2> QED BY <1>2, <2>1, <2>2, <2>3
<1> HIDE DEF half
<1>6. half \o back \in Seq(Nat) /\ Len(half \o back) = n + m
  <2>1. half \o back \in Seq(Nat) /\ Len(half \o back) = Len(half) + Len(back)
    BY <1>3, <1>5, ConcatProperties
  <2> QED BY <1>1, <1>3, <1>5, <2>1
<1>7. \A i \in 1..(at + m) : (half \o back)[i] = half[i]
  BY <1>1, <1>3, <1>5
<1>8. \A i \in 1..(n - at) : (half \o back)[at + m + i] = back[i]
  <2> TAKE i \in 1..(n - at)
  <2>1. /\ at + m + i \in 1..(Len(half) + Len(back)) /\ (at + m + i) - Len(half) = i
        /\ ~(at + m + i <= Len(half))
    BY <1>1, <1>3, <1>5
  <2>2. (half \o back)[at + m + i] = back[(at + m + i) - Len(half)]
    BY <1>3, <1>5, <2>1, ConcatProperties
  <2> QED BY <2>1, <2>2
<1>9. \A i \in 1..at : (half \o back)[i] = text[i]
  BY <1>1, <1>5, <1>7
<1>10. \A i \in 1..m : (half \o back)[at + i] = w[i]
  BY <1>1, <1>5, <1>7
<1>11. ASSUME NEW i \in (at + 1)..n PROVE (half \o back)[m + i] = text[i]
  <2>1. i - at \in 1..(n - at) /\ at + m + (i - at) = m + i /\ at + (i - at) = i
    BY <1>1
  <2> QED BY <1>3, <1>8, <2>1
<1> QED BY <1>4, <1>6, <1>9, <1>10, <1>11 DEF n, m, half

BlankTo(text, at, to) == \A p \in at..(to - 1) : At(text, p) \in Blanks

\* Whether the text ends the line on which `at' stands, one code unit on.
LEMMA LineEndsStep ==
    ASSUME NEW text \in Seq(Nat), NEW at \in Nat, NEW k \in Nat, at <= k
    PROVE  /\ LineEndsIn(text, at, k + 1) <=>
                LineEndsIn(text, at, k) \/ (At(text, k) = Newline /\ BlankTo(text, at, k))
           /\ BlankTo(text, at, k + 1) <=> BlankTo(text, at, k) /\ At(text, k) \in Blanks
           /\ LineEndsIn(text, at, k) => ~BlankTo(text, at, k)
           /\ ~LineEndsIn(text, at, at) /\ BlankTo(text, at, at)
<1>1. /\ (k + 1) - 1 = k /\ k \in at..k
      /\ \A p \in at..k : p = k \/ p \in at..(k - 1)
      /\ \A p \in at..(k - 1) : p \in at..k
      /\ \A p \in at..(at - 1) : FALSE
  OBVIOUS
<1>2. Newline \notin Blanks
  BY DEF Newline, Blanks
<1>3. BlankTo(text, at, k + 1) <=> BlankTo(text, at, k) /\ At(text, k) \in Blanks
  BY <1>1 DEF BlankTo
<1>4. LineEndsIn(text, at, k + 1) <=>
        LineEndsIn(text, at, k) \/ (At(text, k) = Newline /\ BlankTo(text, at, k))
  BY <1>1 DEF LineEndsIn, BlankTo
<1>5. LineEndsIn(text, at, k) => ~BlankTo(text, at, k)
  BY <1>2 DEF LineEndsIn, BlankTo
<1>6. ~LineEndsIn(text, at, at) /\ BlankTo(text, at, at)
  BY <1>1 DEF LineEndsIn, BlankTo
<1> QED BY <1>3, <1>4, <1>5, <1>6

\* White space put anywhere moves what follows by one boundary exactly when it
\* ends an open line that the text does not end itself.
LEMMA PaddingCosts ==
    ASSUME NEW text \in Seq(Nat), NEW at \in 0..Len(text), NEW w \in Seq(Blanks \cup {Newline})
    PROVE  LET before == SeparatorPrefix(text)
               after  == SeparatorPrefix(Padded(text, at, w))
           IN  /\ \A lo \in 0..at : after[lo] = before[lo]
               /\ \A hi \in at..Len(text) :
                    after[hi + Len(w)] =
                        before[hi] + IF EndsOpenLine(text, at, w, hi) THEN 1 ELSE 0
<1> DEFINE p == Padded(text, at, w)
           n == Len(text)
           m == Len(w)
           NewlineIn(i) == \E k \in 1..i : w[k] = Newline
<1>1. w \in Seq(Nat)
  BY DEF Blanks, Newline
<1>2. /\ p \in Seq(Nat) /\ Len(p) = n + m
      /\ \A i \in 1..at : p[i] = text[i]
      /\ \A i \in 1..m : p[at + i] = w[i]
      /\ \A i \in (at + 1)..n : p[m + i] = text[i]
  BY <1>1, PaddedType
<1>3. n \in Nat /\ m \in Nat /\ at \in Nat /\ at <= n
  BY <1>1
<1> HIDE DEF p
<1>4. PICK f : Reads(f, text) /\ SeparatorPrefix(text) = [i \in 0..Len(text) |-> f[i].count]
  BY PrefixReads
<1>5. PICK g : Reads(g, p) /\ SeparatorPrefix(p) = [i \in 0..Len(p) |-> g[i].count]
  BY <1>2, PrefixReads
<1>6. /\ \A i \in 0..n : f[i] \in ReadState
      /\ \A i \in 1..n : f[i] = Advance(f[i - 1], text[i])
      /\ \A i \in 0..(n + m) : g[i] \in ReadState
      /\ \A i \in 1..(n + m) : g[i] = Advance(g[i - 1], p[i])
      /\ f[0] = NoneRead /\ g[0] = NoneRead
  BY <1>2, <1>4, <1>5 DEF Reads
<1>7a. \A i \in 0..n : Open(f[i]) <=> LineOpen(text, i)
  BY <1>4, ReadsOpen
<1> HIDE DEF n, m
<1>7. \A i \in 0..at : g[i] = f[i]
  <2> DEFINE Same == {i \in Nat : i <= at => g[i] = f[i]}
  <2>1. 0 \in Same
    BY <1>6
  <2>2. ASSUME NEW i \in Nat, i \in Same PROVE i + 1 \in Same
    <3> SUFFICES ASSUME i + 1 <= at PROVE g[i + 1] = f[i + 1]
      OBVIOUS
    <3>1. i + 1 \in 1..at /\ i + 1 \in 1..n /\ i + 1 \in 1..(n + m) /\ (i + 1) - 1 = i
      BY <1>3
    <3>2. g[i] = f[i] /\ p[i + 1] = text[i + 1]
      BY <1>2, <2>2, <3>1
    <3> QED BY <1>6, <3>1, <3>2
  <2> HIDE DEF Same
  <2>3. \A i \in Nat : i \in Same
    BY <2>1, <2>2, SetInduction
  <2> QED BY <1>3, <2>3 DEF Same
<1>8. IF NewlineIn(m) THEN LineCut(f[at], g[at + m]) ELSE Agree(f[at], g[at + m])
  <2> DEFINE Cut == {i \in Nat : i <= m =>
                       IF NewlineIn(i) THEN LineCut(f[at], g[at + i]) ELSE Agree(f[at], g[at + i])}
  <2>1. 0 \in Cut
    <3>1. ~NewlineIn(0) /\ at + 0 = at /\ g[at] = f[at]
      BY <1>3, <1>7
    <3> QED BY <3>1 DEF Agree
  <2>2. ASSUME NEW i \in Nat, i \in Cut PROVE i + 1 \in Cut
    <3> SUFFICES ASSUME i + 1 <= m
                 PROVE  IF NewlineIn(i + 1) THEN LineCut(f[at], g[at + (i + 1)])
                                            ELSE Agree(f[at], g[at + (i + 1)])
      OBVIOUS
    <3>1. /\ i + 1 \in 1..m /\ at + (i + 1) \in 1..(n + m) /\ (at + (i + 1)) - 1 = at + i
          /\ at + i \in 0..(n + m) /\ at \in 0..n /\ i <= m
      BY <1>3
    <3>2. g[at + (i + 1)] = Advance(g[at + i], w[i + 1])
      <4>1. p[at + (i + 1)] = w[i + 1]
        BY <1>2, <3>1 DEF m
      <4> QED BY <1>6, <3>1, <4>1
    <3>3. IF NewlineIn(i) THEN LineCut(f[at], g[at + i]) ELSE Agree(f[at], g[at + i])
      BY <2>2, <3>1
    <3>4. f[at] \in ReadState /\ g[at + i] \in ReadState
      BY <1>6, <3>1
    <3>5. w[i + 1] \in Blanks \cup {Newline}
      BY <3>1 DEF m
    <3>6. NewlineIn(i + 1) <=> NewlineIn(i) \/ w[i + 1] = Newline
      <4>1. \A k \in 1..(i + 1) : k = i + 1 \/ k \in 1..i
        OBVIOUS
      <4>2. i + 1 \in 1..(i + 1) /\ \A k \in 1..i : k \in 1..(i + 1)
        OBVIOUS
      <4> QED BY <4>1, <4>2
    <3>7. Newline \notin Blanks
      BY DEF Newline, Blanks
    <3> HIDE DEF NewlineIn
    <3>8. CASE w[i + 1] = Newline
      BY <3>2, <3>3, <3>4, <3>6, <3>8, ReadPadding
    <3>9. CASE w[i + 1] \in Blanks
      <4>1. g[at + (i + 1)] = g[at + i]
        BY <3>2, <3>4, <3>9, ReadPadding
      <4> QED BY <3>3, <3>6, <3>7, <3>9, <4>1
    <3> QED BY <3>5, <3>8, <3>9
  <2> HIDE DEF Cut, NewlineIn
  <2>3. m \in Cut
    BY <1>3, <2>1, <2>2, SetInduction
  <2> QED BY <1>3, <2>3 DEF Cut
<1> DEFINE Reading(s, u, k) ==
             IF NewlineIn(m) /\ LineOpen(text, at)
               THEN IF LineEndsIn(text, at, k) THEN Agree(s, u)
                    ELSE IF BlankTo(text, at, k) THEN LineCut(s, u) /\ Open(s)
                    ELSE OneAhead(s, u)
               ELSE Agree(s, u) \/ (LineCut(s, u) /\ ~Open(s))
<1> HIDE DEF NewlineIn
<1>9. ASSUME NEW hi \in at..n PROVE Reading(f[hi], g[hi + m], hi)
  <2> DEFINE Kept == {i \in Nat : at + i <= n => Reading(f[at + i], g[at + i + m], at + i)}
  <2>1. 0 \in Kept
    <3>1. at + 0 = at /\ at + 0 + m = at + m /\ at \in 0..n
      BY <1>3
    <3>2. Open(f[at]) <=> LineOpen(text, at)
      BY <1>7a, <3>1
    <3>3. ~LineEndsIn(text, at, at) /\ BlankTo(text, at, at)
      BY <1>3, LineEndsStep
    <3>4. Reading(f[at], g[at + m], at)
      BY <1>8, <3>2, <3>3
    <3> HIDE DEF Reading
    <3> QED BY <3>1, <3>4
  <2>2. ASSUME NEW i \in Nat, i \in Kept PROVE i + 1 \in Kept
    <3> SUFFICES ASSUME at + (i + 1) <= n
                 PROVE  Reading(f[at + (i + 1)], g[at + (i + 1) + m], at + (i + 1))
      BY DEF Kept
    <3> DEFINE k == at + i
    <3>1. /\ k + 1 \in (at + 1)..n /\ k + 1 \in 1..n /\ (k + 1) - 1 = k /\ k \in 0..n
          /\ m + (k + 1) = k + m + 1 /\ k + m + 1 \in 1..(n + m) /\ (k + m + 1) - 1 = k + m
          /\ k + m \in 0..(n + m) /\ at + (i + 1) = k + 1 /\ at + (i + 1) + m = k + m + 1
          /\ k \in Nat /\ at <= k
      BY <1>3
    <3>2. Reading(f[k], g[k + m], k)
      BY <2>2, <3>1
    <3> HIDE DEF k, Reading
    <3>3. f[k + 1] = Advance(f[k], text[k + 1]) /\ g[k + m + 1] = Advance(g[k + m], text[k + 1])
      <4>1. p[k + m + 1] = text[k + 1]
        BY <1>2, <3>1 DEF n, m
      <4> QED BY <1>6, <3>1, <4>1
    <3>4. f[k] \in ReadState /\ g[k + m] \in ReadState
      BY <1>6, <3>1
    <3> DEFINE c == text[k + 1]
               t == Advance(f[k], c)
               v == Advance(g[k + m], c)
    <3>5. /\ LineEndsIn(text, at, k + 1) <=>
               LineEndsIn(text, at, k) \/ (c = Newline /\ BlankTo(text, at, k))
          /\ BlankTo(text, at, k + 1) <=> BlankTo(text, at, k) /\ c \in Blanks
          /\ LineEndsIn(text, at, k) => ~BlankTo(text, at, k)
      BY <1>3, <3>1, LineEndsStep DEF At
    <3>6. Newline \notin Blanks
      BY DEF Newline, Blanks
    <3>7. /\ Agree(f[k], g[k + m]) => Agree(t, v)
          /\ OneAhead(f[k], g[k + m]) => OneAhead(t, v)
          /\ LineCut(f[k], g[k + m]) /\ ~Open(f[k]) =>
               Agree(t, v) \/ (LineCut(t, v) /\ ~Open(t))
          /\ LineCut(f[k], g[k + m]) /\ Open(f[k]) =>
               IF c \in Blanks THEN LineCut(t, v) /\ Open(t)
               ELSE IF c = Newline THEN Agree(t, v)
               ELSE OneAhead(t, v)
      BY <3>4, ReadTogether
    <3> HIDE DEF c, t, v
    <3>8. Reading(t, v, k + 1)
      BY <3>2, <3>5, <3>6, <3>7 DEF Reading
    <3> QED BY <3>1, <3>3, <3>8 DEF c, t, v
  <2> HIDE DEF Kept
  <2>3. hi - at \in Nat /\ at + (hi - at) = hi /\ hi <= n
    BY <1>3
  <2>4. hi - at \in Kept
    BY <2>1, <2>2, <2>3, SetInduction
  <2> QED BY <2>3, <2>4 DEF Kept
<1>10. ASSUME NEW hi \in at..n
       PROVE  g[hi + m].count = f[hi].count + IF EndsOpenLine(text, at, w, hi) THEN 1 ELSE 0
  <2>1. hi \in 0..n /\ hi + m \in 0..(n + m)
    BY <1>3
  <2>2. f[hi].count \in Nat
    BY <1>6, <2>1 DEF ReadState
  <2>3. EndsOpenLine(text, at, w, hi) <=>
          NewlineIn(m) /\ LineOpen(text, at) /\ ~LineEndsIn(text, at, hi)
    BY DEF EndsOpenLine, NewlineIn, m
  <2>4. CASE EndsOpenLine(text, at, w, hi)
    <3>1. (LineCut(f[hi], g[hi + m]) /\ Open(f[hi])) \/ OneAhead(f[hi], g[hi + m])
      BY <1>9, <2>3, <2>4
    <3> QED BY <2>4, <3>1 DEF LineCut, OneAhead
  <2>5. CASE ~EndsOpenLine(text, at, w, hi)
    <3>1. Agree(f[hi], g[hi + m]) \/ (LineCut(f[hi], g[hi + m]) /\ ~Open(f[hi]))
      BY <1>9, <2>3, <2>5
    <3>2. g[hi + m].count = f[hi].count
      BY <3>1 DEF Agree, LineCut
    <3> QED BY <2>2, <2>5, <3>2
  <2> QED BY <2>4, <2>5
<1>11. /\ \A i \in 0..n : SeparatorPrefix(text)[i] = f[i].count
       /\ \A i \in 0..(n + m) : SeparatorPrefix(p)[i] = g[i].count
  BY <1>2, <1>4, <1>5 DEF n
<1>12. \A lo \in 0..at : SeparatorPrefix(p)[lo] = SeparatorPrefix(text)[lo]
  <2> TAKE lo \in 0..at
  <2>1. lo \in 0..n /\ lo \in 0..(n + m)
    BY <1>3
  <2> QED BY <1>7, <1>11, <2>1
<1>13. \A hi \in at..n :
         SeparatorPrefix(p)[hi + m] =
            SeparatorPrefix(text)[hi] + IF EndsOpenLine(text, at, w, hi) THEN 1 ELSE 0
  <2> TAKE hi \in at..n
  <2>1. hi \in 0..n /\ hi + m \in 0..(n + m)
    BY <1>3
  <2> QED BY <1>10, <1>11, <2>1
<1> QED BY <1>12, <1>13 DEF p, n, m

\* For any text and any padding of blanks and newlines, whatever its length:
\* it moves what follows by one boundary exactly when it ends an open line that
\* the text does not end itself, by none otherwise, and does not move what
\* precedes it.
THEOREM PaddingCostsOpenLineHolds == ScanSpec => []PaddingCostsOpenLine
<1>1. ASSUME ScanInv PROVE PaddingCostsOpenLine
  <2>1. ScanSrc \in Seq(Nat) /\ Len(ScanSrc) = Len(content)
    BY <1>1, ScanSrcType DEF ScanInv
  <2>2. \A padding \in Paddings : padding \in Seq(Blanks \cup {Newline})
    BY ScanAssumption
  <2> QED BY <2>1, <2>2, PaddingCosts DEF PaddingCostsOpenLine
<1>2. ScanInv => PaddingCostsOpenLine
  BY <1>1
<1> QED BY <1>2, ScanInvariant, PTL
=============================================================================
