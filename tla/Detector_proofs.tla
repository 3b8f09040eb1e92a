--------------------------- MODULE Detector_proofs ----------------------------
(***************************************************************************)
(* Proofs about the detector, for any text, any window, any bounds of the  *)
(* budgets, of the tokens and of the depth, and whatever a walk over an    *)
(* expression finds.                                                       *)
(*                                                                         *)
(* The spans that ast-scan.js looks at: the span computed around a hit     *)
(* holds the hit, every hit lies in a span at least as grave, sorting by   *)
(* risk loses no span, and the budgets account for every span of high      *)
(* risk.  The verdict over any scan: it enforces on what the passes found, *)
(* and on nothing else.  The parser: each rule calls smaller ones, so the  *)
(* recursion has a solution; it moves on, stays within the tokens, and     *)
(* only a throw moves the depth counter.  The detector: with this parser   *)
(* it implements the verdict over any scan, and every step brings it       *)
(* closer to the end.                                                      *)
(***************************************************************************)
EXTENDS Detector, Induction, FiniteSetTheorems, SequenceTheorems

-----------------------------------------------------------------------------
(* The least and the greatest of a set. *)

LEMMA MaxPair ==
    ASSUME NEW a \in Int, NEW b \in Int
    PROVE  Max({a, b}) \in {a, b} /\ a <= Max({a, b}) /\ b <= Max({a, b})
<1>1. \E x \in {a, b} : \A y \in {a, b} : x >= y
  OBVIOUS
<1> QED BY <1>1 DEF Max

LEMMA MaxZero ==
    ASSUME NEW d \in Int
    PROVE  Max({0, d}) \in Nat
<1>1. \E x \in {0, d} : \A y \in {0, d} : x >= y
  <2>1. CASE d >= 0
    BY <2>1
  <2>2. CASE d < 0
    BY <2>2
  <2> QED BY <2>1, <2>2
<1>2. Max({0, d}) \in {0, d} /\ \A y \in {0, d} : Max({0, d}) >= y
  BY <1>1, Zenon DEF Max
<1> HIDE DEF Max
<1> QED BY <1>2

LEMMA MaxIs ==
    ASSUME NEW n \in Nat, NEW S \in SUBSET (0..n), S # {}
    PROVE  Max(S) \in S /\ \A k \in S : k <= Max(S)
<1>1. \E x \in S : \A y \in S : x >= y
  BY GreatestNatural
<1> QED BY <1>1 DEF Max

LEMMA MinIs ==
    ASSUME NEW S \in SUBSET Nat, S # {}
    PROVE  Min(S) \in S /\ \A k \in S : Min(S) <= k
<1>1. \E x \in S : \A y \in S : x <= y
  BY LeastNatural
<1> QED BY <1>1 DEF Min

-----------------------------------------------------------------------------
(* The span around one hit. *)

LEMMA NextCellType ==
    ASSUME NEW s, NEW i \in Nat, NEW cell, NEW limit \in Nat
    PROVE  NextCell(s, i, cell, limit) \in Nat
<1> DEFINE S == {limit} \cup {j \in i..(limit - 1) : s[j] = cell}
<1>1. S \in SUBSET Nat /\ S # {}
  OBVIOUS
<1> HIDE DEF S
<1>2. Min(S) \in Nat
  BY <1>1, MinIs
<1> QED BY <1>2 DEF NextCell, S

LEMMA PastType ==
    ASSUME NEW s, NEW i \in Nat, NEW limit \in Nat
    PROVE  PastOpaque(s, i, limit) \in Nat
<1>1. NextCell(s, i + 1, "'", limit) + 1 \in Nat
  BY NextCellType
<1>2. NextCell(s, i, "\n", limit) \in Nat
  BY NextCellType
<1>3. Min({limit, NextCell(s, i, "*/", limit) + 1}) \in Nat
  <2> DEFINE S == {limit, NextCell(s, i, "*/", limit) + 1}
  <2>1. S \in SUBSET Nat /\ S # {}
    BY NextCellType
  <2> HIDE DEF S
  <2>2. Min(S) \in Nat
    BY <2>1, MinIs
  <2> QED BY <2>2 DEF S
<1> QED BY <1>1, <1>2, <1>3 DEF PastOpaque

(* A turn of the pass over the window, at any place of it: every start of  *)
(* a statement it has kept is at or before the hit, and the end, wherever  *)
(* the pass stops, is past it.                                             *)
Walkers(hit, limit) ==
  {w \in [place : Nat, depth : Nat, starts : Seq(Nat), after : Nat, end : Nat] :
     /\ w.starts # <<>> /\ \A k \in 1..Len(w.starts) : w.starts[k] \in 1..hit
     /\ w.end \in (hit + 1)..limit}

LEMMA TurnKeeps ==
    ASSUME NEW s \in Seq(STRING), NEW hit \in 1..Len(s), s[hit] \notin Closers,
           NEW limit \in (hit + 1)..(Len(s) + 1), NEW w \in Walkers(hit, limit)
    PROVE  Turn(s, hit, limit, w) \in Walkers(hit, limit)
<1> DEFINE i == w.place
           cell == s[i]
           depth == IF cell \in Openers THEN w.depth + 1
                    ELSE IF cell \in Closers THEN Max({0, w.depth - 1}) ELSE w.depth
           boundary == depth = 0 /\ cell \in {";", "}"}
           after == IF boundary /\ i >= hit THEN w.after + 1 ELSE w.after
           starts == IF boundary /\ i < hit THEN Append(w.starts, i + 1) ELSE w.starts
           ended == cell \in Closers /\ w.depth = 0 /\ i >= hit
           full == after > w.after /\ after >= TrailingStatements
<1>0. Turn(s, hit, limit, w) =
        IF i >= limit THEN w
        ELSE IF PastOpaque(s, i, limit) # i THEN [w EXCEPT !.place = PastOpaque(s, i, limit)]
        ELSE IF ended THEN [w EXCEPT !.place = limit, !.end = i]
        ELSE IF full THEN [w EXCEPT !.place = limit, !.end = i + 1]
        ELSE [w EXCEPT !.place = i + 1, !.depth = depth, !.after = after, !.starts = starts]
  BY Zenon DEF Turn
<1>1. /\ w \in [place : Nat, depth : Nat, starts : Seq(Nat), after : Nat, end : Nat]
      /\ w.starts # <<>> /\ \A k \in 1..Len(w.starts) : w.starts[k] \in 1..hit
      /\ w.end \in (hit + 1)..limit
      /\ i \in Nat /\ hit \in Nat /\ limit \in Nat /\ Len(w.starts) \in Nat
  BY DEF Walkers
<1>2. depth \in Nat /\ after \in Nat
  <2>1. w.depth \in Nat /\ w.depth - 1 \in Int /\ w.after \in Nat
    BY <1>1
  <2>3. Max({0, w.depth - 1}) \in Nat
    <3> DEFINE d == w.depth - 1
    <3>1. d \in Int
      BY <2>1
    <3> HIDE DEF d
    <3>2. Max({0, d}) \in Nat
      BY <3>1, MaxZero
    <3> QED BY <3>2 DEF d
  <2> HIDE DEF boundary
  <2> QED BY <2>1, <2>3
<1> HIDE DEF boundary
<1>3. /\ starts \in Seq(Nat) /\ starts # <<>>
      /\ \A k \in 1..Len(starts) : starts[k] \in 1..hit
  <2>1. CASE boundary /\ i < hit
    <3> DEFINE kept == w.starts
               m == Len(kept)
               next == i + 1
               longer == Append(kept, next)
    <3>1. kept \in Seq(Nat) /\ m \in Nat /\ \A k \in 1..m : kept[k] \in 1..hit
      BY <1>1
    <3>2. next \in 1..hit /\ next \in Nat
      BY <1>1, <2>1
    <3>3. starts = longer
      BY <2>1
    <3> HIDE DEF kept, next, starts
    <3>4. /\ longer \in Seq(Nat) /\ Len(longer) = m + 1 /\ longer[m + 1] = next
          /\ \A k \in 1..m : longer[k] = kept[k]
      BY <3>1, <3>2
    <3> HIDE DEF longer, m
    <3>5. longer # <<>> /\ \A k \in 1..(m + 1) : k \in 1..m \/ k = m + 1
      <4>1. Len(longer) # 0
        BY <3>1, <3>4
      <4> QED BY <3>1, <4>1
    <3>6. \A k \in 1..Len(longer) : longer[k] \in 1..hit
      BY <3>1, <3>2, <3>4, <3>5
    <3> QED BY <3>3, <3>4, <3>5, <3>6
  <2>2. CASE ~(boundary /\ i < hit)
    <3>1. starts = w.starts
      BY <2>2
    <3> DEFINE kept == w.starts
    <3>2. /\ kept \in Seq(Nat) /\ kept # <<>>
          /\ \A k \in 1..Len(kept) : kept[k] \in 1..hit
      BY <1>1
    <3>3. starts = kept
      BY <3>1
    <3> HIDE DEF starts, kept
    <3> QED BY <3>2, <3>3
  <2> QED BY <2>1, <2>2
<1> HIDE DEF starts, depth
<1>4. ASSUME i < limit, ended
      PROVE  i \in (hit + 1)..limit
  BY <1>1, <1>4
<1>5. ASSUME i < limit, full
      PROVE  i + 1 \in (hit + 1)..limit
  <2>1. i >= hit
    BY <1>1, <1>5
  <2> QED BY <1>1, <1>5, <2>1
<1> HIDE DEF ended, full, after
<1>6. CASE i >= limit
  <2>1. Turn(s, hit, limit, w) = w
    BY <1>0, <1>6
  <2> QED BY <2>1
<1>7. CASE i < limit
  <2>1. ~(i >= limit) /\ PastOpaque(s, i, limit) \in Nat
    BY <1>1, <1>7, PastType
  <2>2. CASE PastOpaque(s, i, limit) # i
    <3>1. Turn(s, hit, limit, w) = [w EXCEPT !.place = PastOpaque(s, i, limit)]
      BY <1>0, <2>1, <2>2
    <3> QED BY <1>1, <2>1, <3>1 DEF Walkers
  <2>3. CASE PastOpaque(s, i, limit) = i /\ ended
    <3>1. Turn(s, hit, limit, w) = [w EXCEPT !.place = limit, !.end = i]
      BY <1>0, <2>1, <2>3
    <3> QED BY <1>1, <1>4, <1>7, <2>3, <3>1 DEF Walkers
  <2>4. CASE PastOpaque(s, i, limit) = i /\ ~ended /\ full
    <3>1. Turn(s, hit, limit, w) = [w EXCEPT !.place = limit, !.end = i + 1]
      BY <1>0, <2>1, <2>4
    <3>2. i + 1 \in (hit + 1)..limit
      BY <1>5, <1>7, <2>4
    <3> DEFINE e == i + 1
    <3>3. e \in (hit + 1)..limit /\ e \in Nat
      BY <1>1, <3>2
    <3>4. Turn(s, hit, limit, w) = [w EXCEPT !.place = limit, !.end = e]
      BY <3>1
    <3> HIDE DEF e
    <3> QED BY <1>1, <3>3, <3>4 DEF Walkers
  <2>5. CASE PastOpaque(s, i, limit) = i /\ ~ended /\ ~full
    <3>1. Turn(s, hit, limit, w)
            = [w EXCEPT !.place = i + 1, !.depth = depth, !.after = after, !.starts = starts]
      BY <1>0, <2>1, <2>5
    <3> DEFINE next == i + 1
               moved == [w EXCEPT !.place = next, !.depth = depth, !.after = after,
                                  !.starts = starts]
    <3>2. next \in Nat /\ Turn(s, hit, limit, w) = moved
      BY <1>1, <3>1
    <3> HIDE DEF next
    <3>3. /\ moved \in [place : Nat, depth : Nat, starts : Seq(Nat), after : Nat, end : Nat]
          /\ moved.starts = starts /\ moved.end = w.end
      BY <1>1, <1>2, <1>3, <3>2
    <3> HIDE DEF moved
    <3> QED BY <1>1, <1>3, <3>2, <3>3 DEF Walkers
  <2> QED BY <2>2, <2>3, <2>4, <2>5
<1> QED BY <1>1, <1>6, <1>7

\* The window around a hit holds it.
LEMMA WindowType ==
    ASSUME NEW s \in Seq(STRING), NEW hit \in 1..Len(s), NEW h \in Nat \ {0}
    PROVE  From(hit, h) \in 1..hit /\ Limit(s, hit, h) \in (hit + 1)..(Len(s) + 1)
<1>1. hit \in Nat /\ hit >= 1 /\ hit <= Len(s) /\ Len(s) \in Nat /\ h >= 1
  OBVIOUS
<1>2. From(hit, h) \in 1..hit
  <2> DEFINE a == 1
             b == hit - h
  <2>1. a \in Int /\ b \in Int /\ a <= hit /\ b <= hit /\ 1 <= a
    BY <1>1
  <2> HIDE DEF a, b
  <2>2. Max({a, b}) \in {a, b} /\ a <= Max({a, b})
    BY <2>1, MaxPair
  <2>3. Max({a, b}) \in 1..hit
    BY <1>1, <2>1, <2>2
  <2> QED BY <2>3 DEF From, a, b
<1>3. Limit(s, hit, h) \in (hit + 1)..(Len(s) + 1)
  <2> DEFINE a == Len(s) + 1
             b == hit + h
  <2>1. a \in Nat /\ b \in Nat /\ a >= hit + 1 /\ b >= hit + 1
    BY <1>1
  <2> HIDE DEF a, b
  <2>2. {a, b} \in SUBSET Nat /\ {a, b} # {}
    BY <2>1
  <2>3. Min({a, b}) \in {a, b} /\ Min({a, b}) <= a
    BY <2>2, MinIs
  <2>4. Min({a, b}) \in (hit + 1)..a
    BY <1>1, <2>1, <2>3
  <2> QED BY <2>4 DEF Limit, a, b
<1> QED BY <1>2, <1>3

\* The pass is the run of its turns, and so keeps what each turn keeps.
LEMMA PassKeeps ==
    ASSUME NEW s \in Seq(STRING), NEW hit \in 1..Len(s), s[hit] \notin Closers,
           NEW h \in Nat \ {0}
    PROVE  Pass(s, hit, h) \in Walkers(hit, Limit(s, hit, h))
<1> DEFINE from == From(hit, h)
           limit == Limit(s, hit, h)
           m == limit - from
           S == Walkers(hit, limit)
           first == [place |-> from, depth |-> 0, starts |-> <<from>>, after |-> 0, end |-> limit]
           Solves(f) == f = [n \in 0..m |-> IF n = 0 THEN first ELSE Turn(s, hit, limit, f[n - 1])]
           turns == CHOOSE f : Solves(f)
<1>1. /\ from \in 1..hit /\ limit \in (hit + 1)..(Len(s) + 1)
      /\ from \in Nat /\ limit \in Nat /\ hit \in Nat
  <2>1. from \in 1..hit /\ limit \in (hit + 1)..(Len(s) + 1)
    BY WindowType, Zenon
  <2>2. hit \in Nat /\ Len(s) \in Nat
    OBVIOUS
  <2> HIDE DEF from, limit
  <2> QED BY <2>1, <2>2
<1>2. m \in Nat
  BY <1>1
<1>3. first \in S
  <2> HIDE DEF from, limit
  <2>1. /\ <<from>> \in Seq(Nat) /\ <<from>> # <<>> /\ Len(<<from>>) = 1
        /\ <<from>>[1] = from /\ limit \in (hit + 1)..limit
    BY <1>1
  <2>2. /\ first \in [place : Nat, depth : Nat, starts : Seq(Nat), after : Nat, end : Nat]
        /\ first.starts = <<from>> /\ first.end = limit
    BY <1>1, <2>1
  <2> HIDE DEF first
  <2>3. \A k \in 1..Len(first.starts) : first.starts[k] \in 1..hit
    BY <1>1, <2>1, <2>2
  <2> QED BY <2>1, <2>2, <2>3 DEF Walkers
<1>4. \A w \in S : Turn(s, hit, limit, w) \in S
  BY <1>1, TurnKeeps
<1>5. Pass(s, hit, h) = turns[m]
  BY Zenon DEF Pass
<1> HIDE DEF from, limit, m, S, first
<1>6. \E f : Solves(f)
  <2> DEFINE step == [i \in 1..m |-> [w \in S |-> Turn(s, hit, limit, w)]]
  <2>1. step \in [1..m -> [S -> S]]
    BY <1>4
  <2>2. \A i \in 1..m : \A w \in S : step[i][w] = Turn(s, hit, limit, w)
    OBVIOUS
  <2> HIDE DEF step
  <2>3. PICK f : RunOf(f, m, S, first, step)
    BY <1>2, <1>3, <2>1, RunExists
  <2>4. \A i \in 0..m : f[i] = IF i = 0 THEN first ELSE Turn(s, hit, limit, f[i - 1])
    <3> SUFFICES ASSUME NEW i \in 1..m PROVE f[i] = Turn(s, hit, limit, f[i - 1])
      BY <2>3 DEF RunOf
    <3>1. i - 1 \in 0..m
      BY <1>2
    <3> QED BY <2>2, <2>3, <3>1 DEF RunOf
  <2>5. f = [i \in 0..m |-> f[i]]
    BY <2>3 DEF RunOf
  <2>6. Solves(f)
    BY <2>4, <2>5
  <2> QED BY <2>6
<1>7. Solves(turns)
  BY <1>6, Zenon
<1>8. turns = [n \in 0..m |-> IF n = 0 THEN first ELSE Turn(s, hit, limit, turns[n - 1])]
  BY <1>7, Zenon
<1> HIDE DEF turns
<1>9. turns[0] = first /\ \A i \in 1..m : turns[i] = Turn(s, hit, limit, turns[i - 1])
  BY <1>2, <1>8
<1>10. turns[0] \in S /\ \A i \in 1..m : turns[i - 1] \in S => turns[i] \in S
  BY <1>3, <1>4, <1>9
<1>11. \A i \in 0..m : turns[i] \in S
  BY <1>2, <1>10, RunStays
<1> QED BY <1>2, <1>5, <1>11 DEF S, limit

\* The span computed around a hit holds it.
LEMMA SpanHoldsHit ==
    ASSUME NEW s \in Seq(STRING), NEW hit \in 1..Len(s), s[hit] \notin Closers,
           NEW h \in Nat \ {0}
    PROVE  LET part == ComputeSpan(s, hit, h)
           IN part \in [start : Nat, end : Nat] /\ part.start \in 1..hit /\ part.end > hit
<1> DEFINE w == Pass(s, hit, h)
           limit == Limit(s, hit, h)
           a == 1
           b == Len(w.starts) - LeadingStatements
           k == Max({a, b})
<1>1. /\ w \in [place : Nat, depth : Nat, starts : Seq(Nat), after : Nat, end : Nat]
      /\ w.starts # <<>> /\ \A j \in 1..Len(w.starts) : w.starts[j] \in 1..hit
      /\ w.end \in (hit + 1)..limit /\ limit \in Nat /\ hit \in Nat
  <2>1. w \in Walkers(hit, limit)
    BY PassKeeps
  <2>2. limit \in (hit + 1)..(Len(s) + 1)
    BY WindowType, Zenon
  <2>3. hit \in Nat /\ Len(s) \in Nat
    OBVIOUS
  <2> HIDE DEF limit
  <2>4. limit \in Nat /\ hit \in Nat
    BY <2>2, <2>3
  <2> HIDE DEF w
  <2> QED BY <2>1, <2>4 DEF Walkers
<1>2. ComputeSpan(s, hit, h) = [start |-> w.starts[k], end |-> w.end]
  BY DEF ComputeSpan
<1> HIDE DEF w, limit
<1>3. Len(w.starts) \in Nat /\ Len(w.starts) >= 1
  BY <1>1
<1>4. a \in Int /\ b \in Int /\ 1 <= a /\ a <= Len(w.starts) /\ b <= Len(w.starts)
  BY <1>3 DEF LeadingStatements
<1> HIDE DEF a, b
<1>5. k \in {a, b} /\ a <= k
  BY <1>4, MaxPair
<1> HIDE DEF k
<1>6. k \in 1..Len(w.starts)
  BY <1>3, <1>4, <1>5
<1>7. w.starts[k] \in 1..hit
  BY <1>1, <1>6
<1> QED BY <1>1, <1>2, <1>7

-----------------------------------------------------------------------------
(* The risk of the shapes that start at a cell. *)

Shape(t) == /\ Len(t[1]) \in Nat /\ Len(t[1]) >= 1
            /\ t[1][1] \notin Closers /\ t[2] \in 1..10

LEMMA ShapeOf ==
    ASSUME NEW a, a \notin Closers, NEW b, NEW c, NEW d, NEW weight \in 1..10
    PROVE  /\ Shape(<<<<a>>, weight>>) /\ Shape(<<<<a, b>>, weight>>)
           /\ Shape(<<<<a, b, c>>, weight>>) /\ Shape(<<<<a, b, c, d>>, weight>>)
<1>1. ASSUME NEW word, Len(word) \in Nat, Len(word) >= 1, word[1] = a
      PROVE  Shape(<<word, weight>>)
  BY <1>1 DEF Shape
<1>2. /\ Len(<<a>>) = 1 /\ <<a>>[1] = a /\ Len(<<a, b>>) = 2 /\ <<a, b>>[1] = a
      /\ Len(<<a, b, c>>) = 3 /\ <<a, b, c>>[1] = a
      /\ Len(<<a, b, c, d>>) = 4 /\ <<a, b, c, d>>[1] = a
  OBVIOUS
<1>3. \A n \in 1..4 : n \in Nat /\ n >= 1
  OBVIOUS
<1>4. 1 \in 1..4 /\ 2 \in 1..4 /\ 3 \in 1..4 /\ 4 \in 1..4
  OBVIOUS
<1> QED BY <1>1, <1>2, <1>3, <1>4, Zenon

LEMMA TriggersType ==
    \A t \in Triggers : Shape(t)
<1>1. /\ "fromCharCode" \notin Closers /\ "getPrototypeOf" \notin Closers
      /\ "\\u_eval" \notin Closers /\ "unescape" \notin Closers /\ "." \notin Closers
      /\ "require" \notin Closers /\ "[" \notin Closers /\ "Buffer" \notin Closers
      /\ "(" \notin Closers /\ "=" \notin Closers
  BY DEF Closers
<1>2. /\ 1 \in 1..10 /\ 2 \in 1..10 /\ 3 \in 1..10 /\ 4 \in 1..10 /\ 5 \in 1..10
      /\ 8 \in 1..10 /\ 10 \in 1..10
  OBVIOUS
<1>3. \A after \in {";", ",", ")"} : Shape(<<<<"=", "eval", after>>, 10>>)
  BY <1>1, <1>2, ShapeOf, Zenon
<1>4. /\ Shape(<<<<"fromCharCode">>, 3>>) /\ Shape(<<<<"getPrototypeOf">>, 8>>)
      /\ Shape(<<<<"\\u_eval">>, 3>>)
  BY <1>1, <1>2, ShapeOf, Zenon
<1>5. /\ Shape(<<<<"unescape", "(">>, 3>>) /\ Shape(<<<<".", "constructor">>, 5>>)
      /\ Shape(<<<<"require", "(">>, 1>>) /\ Shape(<<<<"[", "'">>, 4>>)
  BY <1>1, <1>2, ShapeOf, Zenon
<1>6. /\ Shape(<<<<"Buffer", ".", "from">>, 3>>) /\ Shape(<<<<".", "join", "(">>, 1>>)
       /\ Shape(<<<<"(", "0", ",">>, 1>>)
  BY <1>1, <1>2, ShapeOf, Zenon
<1>7. Shape(<<<<".", "reverse", "(", ")">>, 2>>)
  BY <1>1, <1>2, ShapeOf, Zenon
<1> QED BY <1>3, <1>4, <1>5, <1>6, <1>7, Zenon DEF Triggers

LEMMA HoldsFirst ==
    ASSUME NEW s \in Seq(STRING), NEW i \in 1..Len(s), NEW word, Len(word) \in Nat,
           Len(word) >= 1, Holds(s, i, word)
    PROVE  s[i] = word[1]
<1> DEFINE last == i + Len(word) - 1
<1>1. Len(word) \in Nat /\ i \in Nat /\ last \in Int /\ (last - i) + 1 = Len(word)
  OBVIOUS
<1>2. SubSeq(s, i, last) = word
  BY DEF Holds
<1>3. SubSeq(s, i, last)[1] = s[i]
  <2> HIDE DEF last
  <2>1. 1 \in 1..((last - i) + 1) /\ (i + 1) - 1 = i
    BY <1>1
  <2> QED BY <1>1, <2>1
<1> QED BY <1>2, <1>3

\* A closing bracket is no hit, and no shape weighs more than ten.
LEMMA RiskType ==
    ASSUME NEW s \in Seq(STRING), NEW i \in 1..Len(s)
    PROVE  RiskAt(s, i) \in 0..10 /\ (RiskAt(s, i) > 0 => s[i] \notin Closers)
<1> DEFINE holding == {u \in Triggers : Holds(s, i, u[1])}
           joins == IF JoinsShort(s, i) THEN {JoinWeight} ELSE {}
           S == {0} \cup {t[2] : t \in holding} \cup joins
<1>1. \A t \in holding : t[2] \in 1..10 /\ s[i] = t[1][1] /\ t[1][1] \notin Closers
  BY TriggersType, HoldsFirst DEF Shape
<1>2. \A r \in joins : r \in 0..10 /\ s[i] \notin Closers
  <2>1. JoinsShort(s, i) => s[i] = "'"
    BY Zenon DEF JoinsShort
  <2>2. "'" \notin Closers /\ JoinWeight \in 0..10
    BY DEF Closers, JoinWeight
  <2> QED BY <2>1, <2>2
<1>3. RiskAt(s, i) = Max(S)
  BY DEF RiskAt
<1> HIDE DEF holding, joins
<1>4. S \in SUBSET (0..10) /\ S # {}
  BY <1>1, <1>2
<1>5. \A r \in S : r > 0 => s[i] \notin Closers
  BY <1>1, <1>2
<1> HIDE DEF S
<1>6. Max(S) \in S
  BY <1>4, MaxIs
<1> QED BY <1>3, <1>4, <1>5, <1>6

-----------------------------------------------------------------------------
(* The candidate spans of a text. *)

SpanRec == [start : Nat, end : Nat, weight : Nat]

(* Spans only grow: one keeps its place in the list and its ends, and      *)
(* gains weight.                                                           *)
Grown(spans, next) ==
    /\ next \in Seq(SpanRec) /\ Len(next) >= Len(spans)
    /\ \A k \in 1..Len(spans) : /\ next[k].start = spans[k].start /\ next[k].end = spans[k].end
                                /\ next[k].weight >= spans[k].weight
StartBy(spans, i) == \A k \in 1..Len(spans) : spans[k].start <= i
(* A span that reaches past i and is as grave as the hit there.            *)
Reached(s, spans, i) ==
    \E k \in 1..Len(spans) : i < spans[k].end /\ spans[k].weight >= RiskAt(s, i)

\* The last span takes up a hit inside it.
LEMMA HeavierLast ==
    ASSUME NEW s, NEW i \in Nat, NEW spans \in Seq(SpanRec), spans # <<>>,
           i < Last(spans).end, RiskAt(s, i) \in Nat, NEW next,
           next = [spans EXCEPT ![Len(spans)].weight = Max({@, RiskAt(s, i)})]
    PROVE  /\ Grown(spans, next) /\ Reached(s, next, i)
           /\ StartBy(spans, i) => StartBy(next, i)
<1> DEFINE m == Len(spans)
           risk == RiskAt(s, i)
           old == spans[m]
           weight == old.weight
           heavy == Max({weight, risk})
           new == [old EXCEPT !.weight = heavy]
<1>1. m \in Nat /\ m \in 1..m /\ \A k \in 1..m : spans[k] \in SpanRec
  BY SMTT(30)
<1>2. old \in SpanRec /\ i < old.end
  BY <1>1 DEF Last
<1>3. heavy \in Nat /\ heavy >= weight /\ heavy >= risk
  <2>1. weight \in Int /\ risk \in Int /\ weight \in Nat /\ risk \in Nat
    BY <1>2 DEF SpanRec
  <2> HIDE DEF weight, risk
  <2> QED BY <2>1, MaxPair
<1> HIDE DEF heavy
<1>4. /\ new \in SpanRec /\ new.start = old.start /\ new.end = old.end
      /\ new.weight = heavy
  BY <1>2, <1>3 DEF SpanRec
<1>5. next = [spans EXCEPT ![m] = new]
  BY DEF heavy
<1> HIDE DEF new, m
<1>6. /\ next \in Seq(SpanRec) /\ Len(next) = m
      /\ next[m] = new /\ \A k \in 1..m : k # m => next[k] = spans[k]
  <2>1. Len(spans) = m
    BY DEF m
  <2> QED BY <1>1, <1>4, <1>5, <2>1
<1>7. ASSUME NEW k \in 1..m
      PROVE  /\ next[k].start = spans[k].start /\ next[k].end = spans[k].end
             /\ next[k].weight >= spans[k].weight
  <2>1. spans[k] \in SpanRec /\ spans[k].weight \in Nat
    BY <1>1 DEF SpanRec
  <2>2. CASE k = m
    BY <1>3, <1>4, <1>6, <2>2
  <2>3. CASE k # m
    BY <1>6, <2>1, <2>3
  <2> QED BY <2>2, <2>3
<1>8. Grown(spans, next)
  <2>1. Len(spans) = m /\ m >= m
    BY <1>1 DEF m
  <2> QED BY <1>6, <1>7, <2>1 DEF Grown
<1>9. StartBy(spans, i) => StartBy(next, i)
  BY <1>6, <1>7 DEF StartBy, m
<1>10. Reached(s, next, i)
  BY <1>1, <1>2, <1>3, <1>4, <1>6 DEF Reached
<1> QED BY <1>8, <1>9, <1>10

\* A hit outside every span so far brings its own.
LEMMA NewSpan ==
    ASSUME NEW s, NEW i \in Nat, NEW spans \in Seq(SpanRec), RiskAt(s, i) \in Nat,
           NEW part \in SpanRec, part.start <= i, i < part.end, part.weight = RiskAt(s, i),
           NEW next, next = Append(spans, part)
    PROVE  /\ Grown(spans, next) /\ Reached(s, next, i)
           /\ StartBy(spans, i) => StartBy(next, i)
<1> DEFINE m == Len(spans)
<1>1. m \in Nat /\ \A k \in 1..m : spans[k] \in SpanRec
  OBVIOUS
<1>2. /\ next \in Seq(SpanRec) /\ Len(next) = m + 1
      /\ next[m + 1] = part /\ \A k \in 1..m : next[k] = spans[k]
  OBVIOUS
<1> HIDE DEF m
<1>3. \A k \in 1..(m + 1) : k \in 1..m \/ k = m + 1
  BY <1>1
<1>4. m + 1 \in 1..(m + 1) /\ m + 1 >= m
  BY <1>1
<1>5. \A k \in 1..m : spans[k].weight \in Nat
  BY <1>1 DEF SpanRec
<1>6. Grown(spans, next)
  BY <1>2, <1>4, <1>5 DEF Grown, m
<1>7. StartBy(spans, i) => StartBy(next, i)
  BY <1>2, <1>3 DEF StartBy, m
<1>8. Reached(s, next, i)
  BY <1>2, <1>4 DEF Reached
<1> QED BY <1>6, <1>7, <1>8

\* Whatever the spans so far, a cell is taken into account.
LEMMA AddHitGrows ==
    ASSUME NEW s \in Seq(STRING), NEW h \in Nat \ {0}, NEW i \in 1..Len(s),
           NEW spans \in Seq(SpanRec)
    PROVE  /\ Grown(spans, AddHit(s, h, i, spans))
           /\ StartBy(spans, i) => StartBy(AddHit(s, h, i, spans), i)
           /\ RiskAt(s, i) > 0 => Reached(s, AddHit(s, h, i, spans), i)
<1> DEFINE next == AddHit(s, h, i, spans)
           risk == RiskAt(s, i)
           around == ComputeSpan(s, i, h)
           part == [start |-> around.start, end |-> around.end, weight |-> risk]
<1>1. i \in Nat /\ risk \in Nat /\ (risk > 0 => s[i] \notin Closers)
  BY RiskType
<1>2. next = IF risk = 0 THEN spans
             ELSE IF spans # <<>> /\ i < Last(spans).end
               THEN [spans EXCEPT ![Len(spans)].weight = Max({@, risk})]
             ELSE IF around.end <= around.start THEN spans
             ELSE Append(spans, part)
  BY Zenon DEF AddHit
<1> HIDE DEF next
<1>3. CASE risk = 0
  <2>1. next = spans
    BY <1>2, <1>3
  <2>2. Len(spans) \in Nat /\ \A k \in 1..Len(spans) : spans[k] \in SpanRec
    OBVIOUS
  <2>3. Len(spans) >= Len(spans) /\ \A k \in 1..Len(spans) : spans[k].weight \in Nat
    BY <2>2 DEF SpanRec
  <2>4. Grown(spans, spans)
    BY <2>3 DEF Grown
  <2>5. ~(risk > 0)
    BY <1>3
  <2> QED BY <2>1, <2>4, <2>5 DEF next
<1>4. CASE risk # 0 /\ spans # <<>> /\ i < Last(spans).end
  <2>1. next = [spans EXCEPT ![Len(spans)].weight = Max({@, risk})]
    BY <1>2, <1>4
  <2> QED BY <1>1, <1>4, <2>1, HeavierLast, Zenon DEF next
<1>5. CASE risk # 0 /\ ~(spans # <<>> /\ i < Last(spans).end)
  <2>1. risk > 0 /\ s[i] \notin Closers
    BY <1>1, <1>5
  <2>2. /\ around \in [start : Nat, end : Nat] /\ around.start \in 1..i /\ around.end > i
    BY <2>1, SpanHoldsHit, Zenon
  <2> HIDE DEF around, risk
  <2>3. /\ ~(around.end <= around.start) /\ part \in SpanRec
        /\ part.start <= i /\ i < part.end /\ part.weight = risk
    BY <1>1, <2>2 DEF SpanRec
  <2> HIDE DEF part
  <2>4. next = Append(spans, part)
    BY <1>2, <1>5, <2>3
  <2> QED BY <1>1, <2>3, <2>4, NewSpan, Zenon DEF next, risk
<1> QED BY <1>3, <1>4, <1>5 DEF next

(* A span of the list holds the cell and is as grave as the hit there.     *)
Held(s, spans, j) ==
    \E k \in 1..Len(spans) : /\ spans[k].start <= j /\ j < spans[k].end
                             /\ spans[k].weight >= RiskAt(s, j)

\* What a span holds, no later cell takes away.
LEMMA HeldStays ==
    ASSUME NEW s \in Seq(STRING), NEW j \in 1..Len(s), NEW spans \in Seq(SpanRec), NEW next,
           Grown(spans, next), Held(s, spans, j)
    PROVE  Held(s, next, j)
<1>1. PICK k \in 1..Len(spans) : /\ spans[k].start <= j /\ j < spans[k].end
                                 /\ spans[k].weight >= RiskAt(s, j)
  BY DEF Held
<1>2. /\ next \in Seq(SpanRec) /\ Len(next) >= Len(spans)
      /\ next[k].start = spans[k].start /\ next[k].end = spans[k].end
      /\ next[k].weight >= spans[k].weight
  BY DEF Grown
<1>3. k \in 1..Len(next)
  <2>1. Len(next) \in Nat /\ Len(spans) \in Nat
    BY <1>2
  <2> QED BY <1>2, <2>1
<1>4. spans[k].weight \in Nat /\ next[k].weight \in Nat /\ RiskAt(s, j) \in Nat
  <2>1. spans[k] \in SpanRec /\ next[k] \in SpanRec
    BY <1>2, <1>3
  <2>2. RiskAt(s, j) \in 0..10
    BY RiskType, Zenon
  <2>3. spans[k].weight \in Nat /\ next[k].weight \in Nat
    BY <2>1 DEF SpanRec
  <2> QED BY <2>2, <2>3
<1> QED BY <1>1, <1>2, <1>3, <1>4 DEF Held

\* The fold over a text is the run of AddHit.
LEMMA SpansRun ==
    ASSUME NEW s \in Seq(STRING), NEW h \in Nat \ {0}
    PROVE  \E f : /\ f \in [0..Len(s) -> Seq(SpanRec)] /\ f[0] = <<>>
                  /\ \A i \in 1..Len(s) : f[i] = AddHit(s, h, i, f[i - 1])
                  /\ FindCandidateSpans(s, h) = f[Len(s)]
<1> DEFINE n == Len(s)
           S == Seq(SpanRec)
           Solves(f) == f = [i \in 0..n |-> IF i = 0 THEN <<>> ELSE AddHit(s, h, i, f[i - 1])]
           spans == CHOOSE f : Solves(f)
<1>1. n \in Nat /\ <<>> \in S
  OBVIOUS
<1>2. \A i \in 1..n : \A w \in S : AddHit(s, h, i, w) \in S
  BY AddHitGrows DEF Grown
<1>3. FindCandidateSpans(s, h) = spans[n]
  BY Zenon DEF FindCandidateSpans, SpansUpTo
<1> HIDE DEF n, S
<1>4. \E f : Solves(f)
  <2> DEFINE step == [i \in 1..n |-> [w \in S |-> AddHit(s, h, i, w)]]
  <2>1. step \in [1..n -> [S -> S]]
    BY <1>2
  <2>2. \A i \in 1..n : \A w \in S : step[i][w] = AddHit(s, h, i, w)
    OBVIOUS
  <2> HIDE DEF step
  <2>3. PICK f : RunOf(f, n, S, <<>>, step)
    BY <1>1, <2>1, RunExists
  <2>4. \A i \in 0..n : f[i] = IF i = 0 THEN <<>> ELSE AddHit(s, h, i, f[i - 1])
    <3> SUFFICES ASSUME NEW i \in 1..n PROVE f[i] = AddHit(s, h, i, f[i - 1])
      BY <2>3 DEF RunOf
    <3>1. i - 1 \in 0..n
      BY <1>1
    <3> QED BY <2>2, <2>3, <3>1 DEF RunOf
  <2>5. f = [i \in 0..n |-> f[i]]
    BY <2>3 DEF RunOf
  <2>6. Solves(f)
    BY <2>4, <2>5
  <2> QED BY <2>6
<1>5. Solves(spans)
  BY <1>4, Zenon
<1>6. spans = [i \in 0..n |-> IF i = 0 THEN <<>> ELSE AddHit(s, h, i, spans[i - 1])]
  BY <1>5, Zenon
<1> HIDE DEF spans
<1>7. spans[0] = <<>> /\ \A i \in 1..n : spans[i] = AddHit(s, h, i, spans[i - 1])
  BY <1>1, <1>6
<1>8. spans[0] \in S /\ \A i \in 1..n : spans[i - 1] \in S => spans[i] \in S
  BY <1>1, <1>2, <1>7
<1>9. \A i \in 0..n : spans[i] \in S
  BY <1>1, <1>8, RunStays
<1>10. spans \in [0..n -> S]
  <2>1. spans = [i \in 0..n |-> spans[i]]
    BY <1>6
  <2> QED BY <1>9, <2>1
<1> QED BY <1>3, <1>7, <1>10 DEF n, S

\* Every hit lies in a candidate span at least as grave as itself.
LEMMA SpansCover ==
    ASSUME NEW s \in Seq(STRING), NEW h \in Nat \ {0}
    PROVE  /\ FindCandidateSpans(s, h) \in Seq(SpanRec)
           /\ \A j \in 1..Len(s) : RiskAt(s, j) > 0 => Held(s, FindCandidateSpans(s, h), j)
<1> DEFINE n == Len(s)
<1>1. PICK f : /\ f \in [0..n -> Seq(SpanRec)] /\ f[0] = <<>>
               /\ \A i \in 1..n : f[i] = AddHit(s, h, i, f[i - 1])
               /\ FindCandidateSpans(s, h) = f[n]
  BY SpansRun
<1> DEFINE Good(i) == /\ StartBy(f[i], i)
                      /\ \A j \in 1..i : RiskAt(s, j) > 0 => Held(s, f[i], j)
           Goods == {m \in Nat : m <= n => Good(m)}
<1>2. n \in Nat
  OBVIOUS
<1>3. 0 \in Goods
  BY <1>1 DEF StartBy
<1>4. ASSUME NEW m \in Nat, m \in Goods PROVE m + 1 \in Goods
  <2> SUFFICES ASSUME m + 1 <= n PROVE Good(m + 1)
    OBVIOUS
  <2> DEFINE i == m + 1
  <2>1. /\ i \in 1..n /\ i - 1 = m /\ m \in 0..n /\ i \in 0..n /\ i \in Nat
        /\ Good(m)
    BY <1>2, <1>4
  <2>2. f[m] \in Seq(SpanRec) /\ f[i] = AddHit(s, h, i, f[m])
    BY <1>1, <2>1
  <2>3. StartBy(f[m], i)
    <3>1. \A k \in 1..Len(f[m]) : f[m][k].start <= m /\ f[m][k] \in SpanRec
      BY <2>1, <2>2 DEF StartBy
    <3>2. \A k \in 1..Len(f[m]) : f[m][k].start \in Nat
      BY <3>1 DEF SpanRec
    <3> QED BY <3>1, <3>2 DEF StartBy
  <2>4. /\ Grown(f[m], f[i]) /\ StartBy(f[i], i)
        /\ RiskAt(s, i) > 0 => Reached(s, f[i], i)
    <3> HIDE DEF i
    <3> QED BY <2>1, <2>2, <2>3, AddHitGrows DEF n
  <2>5. ASSUME NEW j \in 1..i, RiskAt(s, j) > 0 PROVE Held(s, f[i], j)
    <3>1. CASE j = i
      BY <2>4, <2>5, <3>1 DEF Reached, StartBy, Held
    <3>2. CASE j \in 1..m
      <4>1. Held(s, f[m], j) /\ j \in 1..n
        BY <1>2, <2>1, <2>5, <3>2
      <4> HIDE DEF i
      <4> QED BY <2>2, <2>4, <4>1, HeldStays DEF n
    <3> QED BY <2>1, <3>1, <3>2
  <2> QED BY <2>4, <2>5
<1> HIDE DEF Goods
<1>5. n \in Goods
  BY <1>2, <1>3, <1>4, SetInduction
<1> QED BY <1>1, <1>2, <1>5 DEF Goods

-----------------------------------------------------------------------------
(* Sorting by risk. *)

\* Every span has a place of its own, and so the sorted list holds them all.
LEMMA ByRiskKeeps ==
    ASSUME NEW spans \in Seq(SpanRec)
    PROVE  /\ ByRisk(spans) \in Seq(SpanRec)
           /\ \A i \in 1..Len(spans) :
                \E k \in 1..Len(ByRisk(spans)) : ByRisk(spans)[k] = spans[i]
<1> DEFINE n == Len(spans)
           All == 1..n
           Place == 0..(n - 1)
           Below(i) == {j \in All : Ahead(spans, j, i)}
           rank == [i \in All |-> Rank(spans, i)]
<1>1. n \in Nat /\ DOMAIN spans = All /\ IsFiniteSet(All) /\ Cardinality(All) = n
  <2>1. n \in Nat /\ 1 \in Int /\ DOMAIN spans = All
    BY SMTT(30)
  <2> HIDE DEF n
  <2> QED BY <2>1, FS_Interval
<1>2. \A i \in All : spans[i] \in SpanRec /\ spans[i].weight \in Nat /\ i \in Nat
  <2>1. \A i \in All : spans[i] \in SpanRec
    OBVIOUS
  <2> QED BY <1>1, <2>1 DEF SpanRec
<1> HIDE DEF n, SpanRec
<1>3. \A i \in All : Rank(spans, i) = Cardinality(Below(i))
  BY <1>1 DEF Rank
<1>4. ASSUME NEW i \in All, NEW j \in All
      PROVE  /\ ~Ahead(spans, i, i) /\ (i # j => Ahead(spans, i, j) \/ Ahead(spans, j, i))
             /\ \A k \in All : Ahead(spans, k, i) /\ Ahead(spans, i, j) => Ahead(spans, k, j)
  <2> DEFINE w(k) == spans[k].weight
  <2>1. \A k \in All : w(k) \in Nat /\ k \in Nat
    BY <1>2
  <2>2. \A k, l \in All : Ahead(spans, k, l) <=> w(k) > w(l) \/ (w(k) = w(l) /\ k < l)
    BY DEF Ahead
  <2> HIDE DEF w, All
  <2> QED BY <2>1, <2>2
<1>5. ASSUME NEW i \in All
      PROVE  /\ IsFiniteSet(Below(i)) /\ Cardinality(Below(i)) \in Nat
             /\ Cardinality(Below(i)) <= n - 1
  <2>1. Below(i) \in SUBSET (All \ {i})
    BY <1>4
  <2>2. IsFiniteSet(All \ {i}) /\ Cardinality(All \ {i}) = n - 1
    BY <1>1, FS_RemoveElement
  <2> HIDE DEF Below
  <2>3. IsFiniteSet(Below(i)) /\ Cardinality(Below(i)) <= Cardinality(All \ {i})
    BY <2>1, <2>2, FS_Subset
  <2> QED BY <2>2, <2>3, FS_CardinalityType
<1>6. ASSUME NEW i \in All, NEW j \in All, Ahead(spans, i, j)
      PROVE  Cardinality(Below(i)) < Cardinality(Below(j))
  <2>1. i \notin Below(i) /\ (Below(i) \cup {i}) \in SUBSET Below(j)
    BY <1>4, <1>6
  <2> HIDE DEF Below
  <2>2. Cardinality(Below(i) \cup {i}) = Cardinality(Below(i)) + 1
    BY <1>5, <2>1, FS_AddElement
  <2>3. Cardinality(Below(i) \cup {i}) <= Cardinality(Below(j))
    BY <1>5, <2>1, FS_Subset
  <2> QED BY <1>5, <2>2, <2>3
<1> HIDE DEF Below
<1>7. \A i \in All : Rank(spans, i) \in Place
  BY <1>1, <1>3, <1>5
<1>8. ASSUME NEW i \in All, NEW j \in All, Rank(spans, i) = Rank(spans, j)
      PROVE  i = j
  <2> SUFFICES ASSUME i # j PROVE FALSE
    OBVIOUS
  <2>1. Ahead(spans, i, j) \/ Ahead(spans, j, i)
    BY <1>4
  <2> QED BY <1>3, <1>5, <1>6, <1>8, <2>1
<1>9. IsFiniteSet(Place) /\ Cardinality(Place) = n
  <2>1. 0 \in Int /\ n - 1 \in Int
    BY <1>1
  <2> QED BY <1>1, <2>1, FS_Interval
<1>10. rank \in Injection(All, Place)
  BY <1>7, <1>8 DEF Injection, IsInjective
<1> HIDE DEF Place, rank
<1>11. rank \in Surjection(All, Place)
  BY <1>1, <1>9, <1>10, FS_Injection
<1>12. \A p \in Place : \E i \in All : Rank(spans, i) = p
  BY <1>11 DEF Surjection, rank
<1> DEFINE at(k) == CHOOSE i \in All : Rank(spans, i) = k - 1
<1>13. ByRisk(spans) = [k \in All |-> spans[at(k)]]
  BY <1>1 DEF ByRisk
<1>14. \A k \in All : at(k) \in All /\ Rank(spans, at(k)) = k - 1
  <2> TAKE k \in All
  <2>1. k - 1 \in Place
    BY <1>1 DEF Place
  <2> QED BY <1>12, <2>1
<1>15. ByRisk(spans) \in Seq(SpanRec) /\ Len(ByRisk(spans)) = n
  <2> DEFINE e(k) == spans[at(k)]
  <2>1. \A k \in 1..n : e(k) \in SpanRec
    BY <1>2, <1>14
  <2>2. ByRisk(spans) = [k \in 1..n |-> e(k)]
    BY <1>13
  <2> HIDE DEF e
  <2> QED BY <1>1, <2>1, <2>2
<1>16. ASSUME NEW i \in All PROVE \E k \in All : ByRisk(spans)[k] = spans[i]
  <2> DEFINE k == Rank(spans, i) + 1
  <2>1. k \in All /\ k - 1 = Rank(spans, i)
    BY <1>1, <1>7 DEF Place
  <2> HIDE DEF k, at
  <2>2. at(k) = i
    BY <1>8, <1>14, <2>1
  <2> QED BY <1>13, <2>1, <2>2
<1> QED BY <1>15, <1>16 DEF n

-----------------------------------------------------------------------------
(* The budgets. *)

Ordered == ByRisk(FindCandidateSpans(source, half))
Grave(spans) == {k \in 1..Len(spans) : HighRisk(spans[k])}

(* Of the list, what is still to do is the end; as many spans of high risk *)
(* as the budget has counted are among those before it that were looked at.*)
Accounted(ordered, q) ==
    /\ q.highSpans = Cardinality(Grave(ordered))
    /\ Len(q.todo) <= Len(ordered)
    /\ \A j \in 1..Len(q.todo) : q.todo[j] = ordered[Len(ordered) - Len(q.todo) + j]
    /\ \E taken \in SUBSET Grave(ordered) :
          /\ Cardinality(taken) = q.high
          /\ \A j \in taken : j <= Len(ordered) - Len(q.todo) /\ ordered[j] \in q.looked

QueueType ==
    [at : {"idle", "spans", "inside", "scanned"}, todo : Seq(SpanRec), high : Nat, low : Nat,
     highSpans : Nat, looked : SUBSET SpanRec, incomplete : BOOLEAN]

(* From the search for spans on, list and budgets account for each other;  *)
(* at the end nothing is left to do, and incomplete says what is missing.  *)
QueueInv ==
    /\ source \in Seq(STRING) /\ half \in HalfWindows
    /\ queue \in QueueType
    /\ queue.at = "idle" => queue.high = 0
    /\ queue.at # "idle" => Accounted(Ordered, queue)
    /\ queue.at = "scanned" => queue.todo = <<>> /\ queue.incomplete = (queue.high < queue.highSpans)

LEMMA GraveFinite ==
    ASSUME NEW spans \in Seq(SpanRec)
    PROVE  IsFiniteSet(Grave(spans)) /\ Cardinality(Grave(spans)) \in Nat
<1>1. Len(spans) \in Nat /\ 1 \in Int
  OBVIOUS
<1>2. IsFiniteSet(1..Len(spans))
  BY <1>1, FS_Interval
<1>3. IsFiniteSet(Grave(spans))
  BY <1>2, FS_Subset DEF Grave
<1> QED BY <1>3, FS_CardinalityType

\* Taking the first span off the list keeps the account, if one that counts
\* against the high-risk budget is looked at.
LEMMA TailAccounted ==
    ASSUME NEW ordered \in Seq(SpanRec), NEW q \in QueueType, NEW r \in QueueType,
           Accounted(ordered, q), q.todo # <<>>, r.todo = Tail(q.todo),
           r.highSpans = q.highSpans, q.looked \subseteq r.looked,
           \/ r.high = q.high
           \/ HighRisk(Head(q.todo)) /\ r.high = q.high + 1 /\ Head(q.todo) \in r.looked
    PROVE  Accounted(ordered, r)
<1> DEFINE n == Len(ordered)
           m == Len(q.todo)
           k == (n - m) + 1
<1>1. /\ n \in Nat /\ m \in Nat /\ m >= 1 /\ q.todo \in Seq(SpanRec)
      /\ Head(q.todo) = q.todo[1] /\ Len(r.todo) = m - 1
      /\ \A j \in 1..(m - 1) : r.todo[j] = q.todo[j + 1]
  <2>1. q.todo \in Seq(SpanRec) /\ r.todo = Tail(q.todo) /\ q.todo # <<>>
    BY DEF QueueType
  <2> QED BY <2>1
<1>2. /\ q.highSpans = Cardinality(Grave(ordered)) /\ m <= n
      /\ \A j \in 1..m : q.todo[j] = ordered[(n - m) + j]
  BY DEF Accounted
<1>3. PICK taken \in SUBSET Grave(ordered) :
         Cardinality(taken) = q.high /\ \A j \in taken : j <= n - m /\ ordered[j] \in q.looked
  BY DEF Accounted
<1>4. \A j \in Grave(ordered) : j \in Nat
  BY DEF Grave
<1> HIDE DEF n, m
<1>5. IsFiniteSet(taken)
  BY <1>3, GraveFinite, FS_Subset
<1>6. k \in 1..n /\ k \in Nat /\ Head(q.todo) = ordered[k] /\ n - (m - 1) = k
  <2>1. 1 \in 1..m /\ (n - m) + 1 \in 1..n /\ n - (m - 1) = (n - m) + 1
    BY <1>1, <1>2
  <2>2. q.todo[1] = ordered[(n - m) + 1]
    BY <1>2, <2>1
  <2> QED BY <1>1, <2>1, <2>2
<1>7. \A j \in 1..(m - 1) : r.todo[j] = ordered[(n - (m - 1)) + j]
  <2> TAKE j \in 1..(m - 1)
  <2>1. j + 1 \in 1..m /\ (n - m) + (j + 1) = (n - (m - 1)) + j
    BY <1>1
  <2>2. q.todo[j + 1] = ordered[(n - m) + (j + 1)]
    BY <1>2, <2>1
  <2> QED BY <1>1, <2>1, <2>2
<1>8. k \in Nat /\ \A j \in taken : j < k
  BY <1>1, <1>2, <1>3, <1>4
<1> HIDE DEF k
<1>9. \E now \in SUBSET Grave(ordered) :
         Cardinality(now) = r.high /\ \A j \in now : j <= k /\ ordered[j] \in r.looked
  <2>1. CASE r.high = q.high
    <3>1. \A j \in taken : j <= k
      BY <1>4, <1>8
    <3> QED BY <1>3, <2>1, <3>1
  <2>2. CASE HighRisk(Head(q.todo)) /\ r.high = q.high + 1 /\ Head(q.todo) \in r.looked
    <3> DEFINE now == taken \cup {k}
    <3>1. k \in Grave(ordered) /\ ordered[k] \in r.looked
      <4>1. k \in 1..Len(ordered) /\ HighRisk(ordered[k]) /\ ordered[k] \in r.looked
        BY <1>6, <2>2, Zenon DEF n
      <4> QED BY <4>1 DEF Grave
    <3>2. k \notin taken /\ k <= k /\ \A j \in taken : j <= k
      BY <1>4, <1>8
    <3>3. Cardinality(now) = q.high + 1
      BY <1>3, <1>5, <3>2, FS_AddElement
    <3>4. now \in SUBSET Grave(ordered) /\ \A j \in now : j <= k /\ ordered[j] \in r.looked
      BY <1>3, <3>1, <3>2
    <3> HIDE DEF now
    <3> QED BY <2>2, <3>3, <3>4
  <2> QED BY <2>1, <2>2
<1>10. m - 1 <= n
  BY <1>1, <1>2
<1> QED BY <1>1, <1>2, <1>6, <1>7, <1>9, <1>10 DEF Accounted, n

LEMMA OrderedType ==
    ASSUME source \in Seq(STRING), half \in HalfWindows
    PROVE  /\ Ordered \in Seq(SpanRec)
           /\ \A j \in 1..Len(source) : RiskAt(source, j) > 0 => Held(source, Ordered, j)
<1> DEFINE spans == FindCandidateSpans(source, half)
<1>1. half \in Nat \ {0}
  BY SpanAssumption
<1>2. /\ spans \in Seq(SpanRec)
      /\ \A j \in 1..Len(source) : RiskAt(source, j) > 0 => Held(source, spans, j)
  BY <1>1, SpansCover
<1> HIDE DEF spans
<1>3. /\ ByRisk(spans) \in Seq(SpanRec)
      /\ \A i \in 1..Len(spans) : \E k \in 1..Len(ByRisk(spans)) : ByRisk(spans)[k] = spans[i]
  BY <1>2, ByRiskKeeps
<1>4. \A j \in 1..Len(source) : Held(source, spans, j) => Held(source, ByRisk(spans), j)
  BY <1>3 DEF Held
<1> QED BY <1>2, <1>3, <1>4 DEF Ordered, spans

LEMMA QueueStarts == QueueInit => QueueInv
<1> SUFFICES ASSUME QueueInit PROVE QueueInv
  OBVIOUS
<1>1. queue = [at |-> "idle", todo |-> <<>>, high |-> 0, low |-> 0, highSpans |-> 0,
               looked |-> {}, incomplete |-> FALSE]
  BY DEF QueueInit
<1>2. <<>> \in Seq(SpanRec)
  OBVIOUS
<1>3. queue \in QueueType /\ queue.at = "idle" /\ queue.high = 0
  BY <1>1, <1>2 DEF QueueType
<1> QED BY <1>3 DEF QueueInit, QueueInv

LEMMA QueueSteps == QueueInv /\ [QueueNext]_queueVars => QueueInv'
<1> SUFFICES ASSUME QueueInv, [QueueNext]_queueVars PROVE QueueInv'
  OBVIOUS
<1>1. /\ source \in Seq(STRING) /\ half \in HalfWindows /\ queue \in QueueType
      /\ Ordered \in Seq(SpanRec)
  BY OrderedType DEF QueueInv
<1>2. source' = source /\ half' = half /\ Ordered' = Ordered
  BY DEF QueueNext, QueueStep, queueVars, FindSpans, PassOver, TakeUp, Inside, Leave, Finish,
         Ordered
<1> HIDE DEF Ordered
<1>3. CASE FindSpans
  <2>1. /\ queue.at = "idle"
        /\ queue' = [queue EXCEPT !.at = "spans", !.todo = Ordered,
                       !.highSpans = Cardinality({k \in DOMAIN Ordered : HighRisk(Ordered[k])})]
    BY <1>3 DEF FindSpans, Ordered
  <2>2. {k \in DOMAIN Ordered : HighRisk(Ordered[k])} = Grave(Ordered)
    BY <1>1 DEF Grave
  <2>3. queue.high = 0 /\ Cardinality(Grave(Ordered)) \in Nat
    BY <1>1, <2>1, GraveFinite DEF QueueInv
  <2>4. /\ queue' \in QueueType /\ queue'.at = "spans" /\ queue'.todo = Ordered
        /\ queue'.highSpans = Cardinality(Grave(Ordered)) /\ queue'.high = 0
    BY <1>1, <2>1, <2>2, <2>3 DEF QueueType
  <2>5. Accounted(Ordered, queue')
    <3>1. Len(Ordered) \in Nat
      BY <1>1
    <3>2. {} \in SUBSET Grave(Ordered) /\ Cardinality({}) = 0
      BY FS_EmptySet
    <3>3. /\ Len(Ordered) <= Len(Ordered)
          /\ \A j \in 1..Len(Ordered) : Ordered[j] = Ordered[Len(Ordered) - Len(Ordered) + j]
      BY <3>1
    <3> QED BY <2>4, <3>2, <3>3 DEF Accounted
  <2> QED BY <1>1, <1>2, <2>4, <2>5 DEF QueueInv
<1>4. CASE PassOver
  <2>1. /\ queue.at = "spans" /\ queue.todo # <<>> /\ queue' = [queue EXCEPT !.todo = Tail(@)]
    BY <1>4 DEF PassOver
  <2>2. Tail(queue.todo) \in Seq(SpanRec)
    BY <1>1, <2>1 DEF QueueType
  <2>3. /\ queue' \in QueueType /\ queue'.at = "spans" /\ queue'.todo = Tail(queue.todo)
        /\ queue'.highSpans = queue.highSpans /\ queue'.high = queue.high
        /\ queue'.looked = queue.looked
    BY <1>1, <2>1, <2>2 DEF QueueType
  <2>4. Accounted(Ordered, queue)
    BY <2>1 DEF QueueInv
  <2>5. Accounted(Ordered, queue')
    BY <1>1, <2>1, <2>3, <2>4, TailAccounted
  <2> QED BY <1>1, <1>2, <2>3, <2>5 DEF QueueInv
<1>5. CASE \E dropped \in BOOLEAN : TakeUp(dropped)
  <2>1. PICK dropped \in BOOLEAN : TakeUp(dropped)
    BY <1>5
  <2> DEFINE part == Head(queue.todo)
  <2>2. /\ queue.at = "spans" /\ queue.todo # <<>>
        /\ queue' = [queue EXCEPT !.high = IF HighRisk(part) THEN @ + 1 ELSE @,
                            !.low = IF HighRisk(part) THEN @ ELSE @ + 1,
                            !.looked = @ \cup {part},
                            !.at = IF dropped THEN "spans" ELSE "inside",
                            !.todo = Tail(@)]
    BY <2>1 DEF TakeUp
  <2>3. part \in SpanRec /\ Tail(queue.todo) \in Seq(SpanRec)
    BY <1>1, <2>2 DEF QueueType
  <2> DEFINE high == IF HighRisk(part) THEN queue.high + 1 ELSE queue.high
             low == IF HighRisk(part) THEN queue.low ELSE queue.low + 1
             at == IF dropped THEN "spans" ELSE "inside"
             looked == queue.looked \cup {part}
             rest == Tail(queue.todo)
  <2>4. queue' = [queue EXCEPT !.high = high, !.low = low, !.looked = looked, !.at = at,
                               !.todo = rest]
    BY <2>2
  <2> HIDE DEF part
  <2>5. /\ high \in Nat /\ low \in Nat /\ at \in {"spans", "inside"}
        /\ looked \in SUBSET SpanRec /\ rest \in Seq(SpanRec)
    BY <1>1, <2>3 DEF QueueType
  <2> HIDE DEF high, low, at, looked, rest
  <2>6. /\ queue' \in QueueType /\ queue'.at = at /\ queue'.todo = rest
        /\ queue'.highSpans = queue.highSpans /\ queue'.high = high /\ queue'.looked = looked
    BY <1>1, <2>4, <2>5 DEF QueueType
  <2>7. /\ queue' \in QueueType /\ queue'.at \in {"spans", "inside"}
        /\ queue'.todo = Tail(queue.todo)
        /\ queue'.highSpans = queue.highSpans
        /\ queue'.high = IF HighRisk(part) THEN queue.high + 1 ELSE queue.high
        /\ queue'.looked = queue.looked \cup {part}
    BY <2>5, <2>6 DEF high, looked, rest
  <2>8. Accounted(Ordered, queue)
    BY <2>2 DEF QueueInv
  <2>9. Accounted(Ordered, queue')
    BY <1>1, <2>2, <2>7, <2>8, TailAccounted DEF part
  <2> QED BY <1>1, <1>2, <2>7, <2>9 DEF QueueInv
<1>6. CASE Leave
  <2>1. queue.at = "inside" /\ queue' = [queue EXCEPT !.at = "spans"]
    BY <1>6 DEF Leave
  <2>2. /\ queue' \in QueueType /\ queue'.at = "spans" /\ queue'.todo = queue.todo
        /\ queue'.highSpans = queue.highSpans /\ queue'.high = queue.high
        /\ queue'.looked = queue.looked
    BY <1>1, <2>1 DEF QueueType
  <2>3. Accounted(Ordered, queue')
    BY <2>1, <2>2 DEF QueueInv, Accounted
  <2> QED BY <1>1, <1>2, <2>2, <2>3 DEF QueueInv
<1>7. CASE Finish
  <2>1. /\ queue.at = "spans" /\ queue.todo = <<>>
        /\ queue' = [queue EXCEPT !.at = "scanned", !.incomplete = queue.high < queue.highSpans]
    BY <1>7 DEF Finish
  <2> DEFINE short == queue.high < queue.highSpans
  <2>2. short \in BOOLEAN /\ queue' = [queue EXCEPT !.at = "scanned", !.incomplete = short]
    BY <2>1
  <2> HIDE DEF short
  <2>3. /\ queue' \in QueueType /\ queue'.at = "scanned" /\ queue'.todo = queue.todo
        /\ queue'.highSpans = queue.highSpans /\ queue'.high = queue.high
        /\ queue'.looked = queue.looked
        /\ queue'.incomplete = short
    BY <1>1, <2>2 DEF QueueType
  <2>4. Accounted(Ordered, queue')
    BY <2>1, <2>3 DEF QueueInv, Accounted
  <2> QED BY <1>1, <1>2, <2>1, <2>3, <2>4 DEF QueueInv, short
<1>8. CASE Inside \/ UNCHANGED queueVars
  <2>1. queue' = queue
    BY <1>8 DEF Inside, queueVars
  <2> QED BY <1>1, <1>2, <2>1 DEF QueueInv
<1> QED BY <1>3, <1>4, <1>5, <1>6, <1>7, <1>8 DEF QueueNext, QueueStep

\* The account at the end of a scan: with as many spans of high risk looked at
\* as there are, every one was.
LEMMA AccountCloses == QueueInv => HighRiskLookedAt
<1> SUFFICES ASSUME QueueInv, queue.at = "scanned", ~queue.incomplete,
                    NEW i \in Hits(source), RiskAt(source, i) >= HighRiskWeight
             PROVE  \E part \in queue.looked : i \in part.start..(part.end - 1)
  BY DEF HighRiskLookedAt
<1>1. /\ source \in Seq(STRING) /\ Ordered \in Seq(SpanRec) /\ queue \in QueueType
      /\ \A j \in 1..Len(source) : RiskAt(source, j) > 0 => Held(source, Ordered, j)
  BY OrderedType DEF QueueInv
<1>2. i \in 1..Len(source) /\ i \in Nat /\ RiskAt(source, i) > 0
  BY <1>1 DEF Hits
<1> HIDE DEF Ordered
<1>3. PICK k \in 1..Len(Ordered) : /\ Ordered[k].start <= i /\ i < Ordered[k].end
                                   /\ Ordered[k].weight >= RiskAt(source, i)
  BY <1>1, <1>2 DEF Held
<1>4. /\ Ordered[k] \in SpanRec /\ Ordered[k].start \in Nat /\ Ordered[k].end \in Nat
      /\ Ordered[k].weight \in Nat
  <2>1. Ordered[k] \in SpanRec
    BY <1>1
  <2> QED BY <2>1 DEF SpanRec
<1>5. k \in Grave(Ordered)
  <2>1. RiskAt(source, i) \in 0..10
    BY <1>1, <1>2, RiskType
  <2>2. Ordered[k].weight >= HighRiskWeight
    BY <1>3, <1>4, <2>1 DEF HighRiskWeight
  <2> QED BY <2>2 DEF Grave, HighRisk
<1>6. /\ queue.todo = <<>> /\ ~(queue.high < queue.highSpans)
      /\ queue.highSpans = Cardinality(Grave(Ordered))
  BY DEF QueueInv, Accounted
<1>7. PICK taken \in SUBSET Grave(Ordered) :
         Cardinality(taken) = queue.high /\ \A j \in taken : Ordered[j] \in queue.looked
  BY DEF QueueInv, Accounted
<1>8. taken = Grave(Ordered)
  <2>1. IsFiniteSet(Grave(Ordered)) /\ Cardinality(Grave(Ordered)) \in Nat
    BY <1>1, GraveFinite
  <2>2. /\ Cardinality(taken) <= Cardinality(Grave(Ordered))
        /\ Cardinality(taken) = Cardinality(Grave(Ordered)) => taken = Grave(Ordered)
    BY <2>1, FS_Subset
  <2>3. queue.high \in Nat /\ queue.highSpans \in Nat
    BY <1>1 DEF QueueType
  <2> QED BY <1>6, <1>7, <2>1, <2>2, <2>3
<1>9. Ordered[k] \in queue.looked
  BY <1>5, <1>7, <1>8
<1>10. i \in Ordered[k].start..(Ordered[k].end - 1)
  BY <1>2, <1>3, <1>4
<1> QED BY <1>9, <1>10

(* What the theorems rest on: the spans to do and the two counters account *)
(* for the list that findCandidateSpans returned and the sort ordered.     *)
THEOREM QueueAccounted == QueueSpec => []QueueInv
BY QueueStarts, QueueSteps, PTL DEF QueueSpec

(* A scan that does not call itself incomplete took up, within             *)
(* MAX_HIGH_RISK_SPANS, a span around every hit of high risk: neither the  *)
(* merging of hits into spans, nor the sort, nor the low-risk budget loses *)
(* one.  For any text, any window and any budgets.                         *)
THEOREM HighRiskLookedAtHolds == QueueSpec => []HighRiskLookedAt
BY QueueAccounted, AccountCloses, PTL

-----------------------------------------------------------------------------
(* The verdict. *)

Enforcing(ds) == \E d \in ds : ~d.warnOnly

LEMMA EnforcingUnion ==
    ASSUME NEW A, NEW B
    PROVE  Enforcing(A \cup B) <=> Enforcing(A) \/ Enforcing(B)
BY DEF Enforcing

LEMMA EnforcingUnions ==
    ASSUME NEW S
    PROVE  Enforcing(UNION S) <=> \E A \in S : Enforcing(A)
BY DEF Enforcing

\* Whatever is found of one grave type enforces, and a warning never does.
LEMMA EnforcingOf ==
    ASSUME NEW type, NEW severity, NEW S
    PROVE  Enforcing({Detection(type, severity) : x \in S})
             <=> S # {} /\ severity \notin {"WARN", "MEDIUM"}
<1>1. Detection(type, severity).warnOnly <=> severity \in {"WARN", "MEDIUM"}
  BY DEF Detection
<1> DEFINE d == Detection(type, severity)
           ds == {d : x \in S}
<1>2. \A e : e \in ds <=> e = d /\ S # {}
  OBVIOUS
<1> HIDE DEF d, ds
<1>3. Enforcing(ds) <=> S # {} /\ ~d.warnOnly
  BY <1>2 DEF Enforcing
<1> QED BY <1>1, <1>3 DEF d, ds

LEMMA SignaturesEnforce ==
    ASSUME NEW s
    PROVE  /\ Enforcing(BlockDetections(s)) <=> HasBlockWord(s)
           /\ ~Enforcing(WarnDetections(s))
<1> DEFINE mined == {x \in BlockSignatures : Mentions(s, x)}
           shells == {x \in BlockRegexes : Mentions(s, x)}
           warned == {x \in WarnSignatures : Mentions(s, x)}
           A == {Detection("crypto-miner", "CRITICAL") : w \in mined}
           B == {Detection("reverse-shell", "HIGH") : w \in shells}
<1>1. BlockDetections(s) = A \cup B
  BY DEF BlockDetections
<1>2. WarnDetections(s) = {Detection("indicative-pattern", "WARN") : w \in warned}
  BY DEF WarnDetections
<1> HIDE DEF mined, shells, warned
<1>3. Enforcing(A) <=> mined # {}
  BY EnforcingOf, "CRITICAL" \notin {"WARN", "MEDIUM"}
<1>4. Enforcing(B) <=> shells # {}
  BY EnforcingOf, "HIGH" \notin {"WARN", "MEDIUM"}
<1>5. A = {} <=> mined = {}
  OBVIOUS
<1>6. B = {} <=> shells = {}
  OBVIOUS
<1>7. ~Enforcing(WarnDetections(s))
  BY <1>2, EnforcingOf
<1> HIDE DEF A, B
<1>8. Enforcing(A \cup B) <=> Enforcing(A) \/ Enforcing(B)
  BY EnforcingUnion
<1> QED BY <1>1, <1>3, <1>4, <1>5, <1>6, <1>7, <1>8 DEF HasBlockWord

LEMMA NothingInEmpty == ~HasBlockWord(<<>>)
BY DEF HasBlockWord, BlockDetections, Mentions

AstEvidence ==
  settings.ast /\ (\/ Reports # {}
                   \/ \E t \in Literals : HasBlockWord(t)
                   \/ queue.incomplete /\ settings.policy # "observe")
BehaviorEvidence == settings.violations \cap {"CRITICAL", "HIGH"} # {}

Policies == {"unset", "quarantine", "block", "observe"}

(* A detection that enforces is there exactly when one of the passes done  *)
(* so far has evidence, and the passes to come have none yet.              *)
VerdictInv ==
  /\ settings \in [ast : BOOLEAN, policy : Policies, behavior : BOOLEAN,
                   violations : SUBSET Severities]
  /\ pc \in {"text", "ast"} => ~settings.ast
  /\ pc = "scan" => settings.ast
  /\ pc \in {"text", "ast", "scan", "behavior"} => settings.violations = {}
  /\ pc \in {"ast", "scan"} => (Enforcing(detections) <=> HasBlockWord(source))
  /\ pc \in {"behavior", "decide"} =>
       (Enforcing(detections) <=> HasBlockWord(source) \/ AstEvidence \/ BehaviorEvidence)
  /\ pc = "done" =>
       (action = "QUARANTINE" <=> HasBlockWord(source) \/ AstEvidence \/ BehaviorEvidence)

LEMMA VerdictStarts == VerdictInit => VerdictInv
<1> SUFFICES ASSUME VerdictInit PROVE VerdictInv
  OBVIOUS
<1>1. pc = "text" /\ settings = [ast |-> FALSE, policy |-> "unset", behavior |-> FALSE,
                                 violations |-> {}]
  BY DEF VerdictInit
<1> QED BY <1>1 DEF VerdictInv, Policies

\* Evidence depends on the text, the result and the settings alone.
LEMMA SameEvidence ==
    ASSUME UNCHANGED <<queueVars, settings>>
    PROVE  /\ HasBlockWord(source)' <=> HasBlockWord(source)
           /\ AstEvidence' <=> AstEvidence
           /\ BehaviorEvidence' <=> BehaviorEvidence
<1>1. source' = source /\ found' = found /\ queue' = queue /\ settings' = settings
  BY DEF queueVars
<1>2. Reports' = Reports /\ Literals' = Literals
  BY <1>1 DEF Reports, Literals
<1>3. BlockDetections(source)' = BlockDetections(source)
  BY <1>1 DEF BlockDetections, Mentions, Holds, Detection
<1> QED BY <1>1, <1>2, <1>3 DEF HasBlockWord, AstEvidence, BehaviorEvidence

LEMMA SameText ==
    ASSUME UNCHANGED source
    PROVE  HasBlockWord(source)' <=> HasBlockWord(source)
BY DEF HasBlockWord, BlockDetections, Mentions, Holds, Detection

LEMMA VerdictSteps == VerdictInv /\ [VerdictNext]_<<queueVars, verdictVars>> => VerdictInv'
<1> SUFFICES ASSUME VerdictInv, [VerdictNext]_<<queueVars, verdictVars>> PROVE VerdictInv'
  OBVIOUS
<1> DEFINE SettingsType == [ast : BOOLEAN, policy : Policies, behavior : BOOLEAN,
                            violations : SUBSET Severities]
<1>1. settings \in SettingsType
  BY DEF VerdictInv
<1>2. CASE MatchText
  <2>1. pc = "text" /\ UNCHANGED <<queueVars, settings>> /\ source' = source
    BY <1>2 DEF MatchText, queueVars
  <2>2. settings' = settings /\ ~settings.ast /\ settings.violations = {}
    BY <2>1 DEF VerdictInv
  <2>3. CASE source = <<>>
    <3>1. pc' = "done" /\ action' = "OBSERVE"
      BY <1>2, <2>3 DEF MatchText
    <3>2. ~HasBlockWord(source)' /\ ~AstEvidence' /\ ~BehaviorEvidence'
      <4>1. ~HasBlockWord(source) /\ ~AstEvidence /\ ~BehaviorEvidence
        BY <2>2, <2>3, NothingInEmpty DEF AstEvidence, BehaviorEvidence
      <4> QED BY <2>1, <4>1, SameEvidence
    <3> QED BY <1>1, <2>2, <3>1, <3>2 DEF VerdictInv
  <2>4. CASE source # <<>>
    <3>1. /\ pc' = "ast"
          /\ detections' = BlockDetections(source) \cup WarnDetections(source)
      BY <1>2, <2>4 DEF MatchText
    <3>2. Enforcing(detections)' <=> HasBlockWord(source)'
      <4>1. Enforcing(detections') <=> HasBlockWord(source)
        BY <3>1, EnforcingUnion, SignaturesEnforce
      <4>2. Enforcing(detections)' <=> Enforcing(detections')
        BY DEF Enforcing
      <4> QED BY <2>1, <4>1, <4>2, SameText
    <3> QED BY <1>1, <2>2, <3>1, <3>2 DEF VerdictInv
  <2> QED BY <2>3, <2>4
<1>3. CASE AstOff
  <2>1. /\ pc = "ast" /\ pc' = "behavior" /\ UNCHANGED <<queueVars, settings>>
        /\ detections' = detections
    BY <1>3 DEF AstOff
  <2>2. settings' = settings /\ ~settings.ast /\ settings.violations = {}
    BY <2>1 DEF VerdictInv
  <2>3. ~AstEvidence /\ ~BehaviorEvidence
    BY <2>2 DEF AstEvidence, BehaviorEvidence
  <2>4. Enforcing(detections)' <=> HasBlockWord(source)
    BY <2>1 DEF VerdictInv, Enforcing
  <2>5. Enforcing(detections)' <=> HasBlockWord(source)' \/ AstEvidence' \/ BehaviorEvidence'
    BY <2>1, <2>3, <2>4, SameEvidence
  <2> QED BY <1>1, <2>1, <2>2, <2>5 DEF VerdictInv
<1>4. CASE AstOn
  <2>1. /\ pc = "ast" /\ pc' = "scan" /\ source' = source
        /\ settings' = [settings EXCEPT !.ast = TRUE] /\ detections' = detections
    BY <1>4 DEF AstOn, FindSpans
  <2>2. settings.violations = {} /\ (Enforcing(detections) <=> HasBlockWord(source))
    BY <2>1 DEF VerdictInv
  <2>3. settings' \in SettingsType /\ settings'.ast /\ settings'.violations = {}
    BY <1>1, <2>1, <2>2
  <2>4. Enforcing(detections)' <=> HasBlockWord(source)'
    BY <2>1, <2>2, SameText DEF Enforcing
  <2> QED BY <2>1, <2>3, <2>4 DEF VerdictInv
<1>5. CASE TakeFindings
  <2>1. /\ pc = "scan" /\ pc' = "behavior" /\ UNCHANGED queueVars
        /\ source' = source /\ found' = found /\ queue' = queue
    BY <1>5 DEF TakeFindings, queueVars
  <2> DEFINE reported == {Detection("obfuscated-dynamic-code", "CRITICAL") : f \in Reports}
             folded == UNION {BlockDetections(text) : text \in Literals}
             cut(policy) ==
               IF queue.incomplete
                 THEN {Detection("ast-scan-incomplete",
                                 IF Enforces(policy) THEN "HIGH" ELSE "WARN")}
                 ELSE {}
  <2>2. PICK policy \in {"unset", "quarantine", "block", "observe"} :
           /\ queue.incomplete \/ policy = "unset"
           /\ detections' = detections \cup reported \cup folded \cup cut(policy)
           /\ settings' = [settings EXCEPT !.policy = policy]
    BY <1>5, Zenon DEF TakeFindings
  <2>3. Enforcing(reported) <=> Reports # {}
    BY EnforcingOf, "CRITICAL" \notin {"WARN", "MEDIUM"}
  <2>4. Enforcing(folded) <=> \E t \in Literals : HasBlockWord(t)
    <3>1. Enforcing(folded) <=> \E A \in {BlockDetections(text) : text \in Literals} : Enforcing(A)
      BY EnforcingUnions
    <3> QED BY <3>1, SignaturesEnforce
  <2>5. Enforcing(cut(policy)) <=> queue.incomplete /\ policy # "observe"
    <3> DEFINE severity == IF Enforces(policy) THEN "HIGH" ELSE "WARN"
               d == Detection("ast-scan-incomplete", severity)
    <3>1. severity \notin {"WARN", "MEDIUM"} <=> policy # "observe"
      BY <2>2 DEF Enforces, Policies
    <3>2. d.warnOnly <=> severity \in {"WARN", "MEDIUM"}
      BY DEF Detection
    <3>3. cut(policy) = IF queue.incomplete THEN {d} ELSE {}
      OBVIOUS
    <3> HIDE DEF severity, d, cut
    <3> QED BY <3>1, <3>2, <3>3 DEF Enforcing
  <2>6. Enforcing(detections) <=> HasBlockWord(source)
    BY <2>1 DEF VerdictInv
  <2> HIDE DEF reported, folded, cut
  <2>7. Enforcing(detections') <=>
          \/ HasBlockWord(source) \/ Reports # {}
          \/ \E t \in Literals : HasBlockWord(t)
          \/ queue.incomplete /\ policy # "observe"
    <3>1. Enforcing(detections') <=> \/ Enforcing(detections) \/ Enforcing(reported)
                                     \/ Enforcing(folded) \/ Enforcing(cut(policy))
      <4> DEFINE A == detections \cup reported
                 B == A \cup folded
                 C == cut(policy)
      <4>1. Enforcing(A) <=> Enforcing(detections) \/ Enforcing(reported)
        BY EnforcingUnion
      <4>2. Enforcing(B) <=> Enforcing(A) \/ Enforcing(folded)
        <5> HIDE DEF A
        <5> QED BY EnforcingUnion
      <4>3. detections' = B \cup C
        BY <2>2
      <4> HIDE DEF A, B, C
      <4>4. Enforcing(B \cup C) <=> Enforcing(B) \/ Enforcing(C)
        BY EnforcingUnion
      <4>5. Enforcing(detections') <=> Enforcing(B \cup C)
        BY <4>3
      <4> QED BY <4>1, <4>2, <4>4, <4>5 DEF C
    <3> QED BY <2>3, <2>4, <2>5, <2>6, <3>1
  <2>8. /\ settings' \in SettingsType /\ settings'.ast /\ settings'.violations = {}
        /\ settings'.policy = policy
    BY <1>1, <2>1, <2>2 DEF VerdictInv, Policies
  <2>9. Reports' = Reports /\ Literals' = Literals
    BY <2>1 DEF Reports, Literals
  <2>10. AstEvidence' <=> \/ Reports # {} \/ \E t \in Literals : HasBlockWord(t)
                          \/ queue.incomplete /\ policy # "observe"
    BY <2>1, <2>8, <2>9
       DEF AstEvidence, HasBlockWord, BlockDetections, Mentions, Holds, Detection
  <2>11. ~BehaviorEvidence'
    BY <2>8 DEF BehaviorEvidence
  <2>12. Enforcing(detections)' <=> HasBlockWord(source)' \/ AstEvidence' \/ BehaviorEvidence'
    BY <2>1, <2>7, <2>10, <2>11, SameText DEF Enforcing
  <2> QED BY <2>1, <2>8, <2>12 DEF VerdictInv
<1>6. CASE Behave
  <2>1. /\ pc = "behavior" /\ pc' = "decide" /\ UNCHANGED queueVars
        /\ source' = source /\ found' = found /\ queue' = queue
    BY <1>6 DEF Behave, queueVars
  <2>2. PICK on \in BOOLEAN, severities \in Violations :
           /\ detections' = detections \cup {Detection("behavioral", s) : s \in severities}
           /\ settings' = [settings EXCEPT !.behavior = on, !.violations = severities]
    BY <1>6 DEF Behave
  <2>3. severities \in SUBSET Severities
    BY <2>2, ViolationsAssumption
  <2>4. Enforcing({Detection("behavioral", s) : s \in severities})
          <=> severities \cap {"CRITICAL", "HIGH"} # {}
    <3>1. \A s : Detection("behavioral", s).warnOnly <=> s \in {"WARN", "MEDIUM"}
      BY DEF Detection
    <3>2. Enforcing({Detection("behavioral", s) : s \in severities})
            <=> \E s \in severities : s \notin {"WARN", "MEDIUM"}
      BY <3>1 DEF Enforcing
    <3>3. \A s \in severities : s \in {"CRITICAL", "HIGH"} <=> s \notin {"WARN", "MEDIUM"}
      BY <2>3 DEF Severities
    <3> QED BY <3>2, <3>3
  <2>5. /\ settings' \in SettingsType /\ settings'.ast = settings.ast
        /\ settings'.policy = settings.policy /\ settings'.violations = severities
    BY <1>1, <2>2, <2>3
  <2>6. /\ settings.violations = {}
        /\ Enforcing(detections) <=> HasBlockWord(source) \/ AstEvidence \/ BehaviorEvidence
    BY <2>1 DEF VerdictInv
  <2>7. Enforcing(detections) <=> HasBlockWord(source) \/ AstEvidence
    BY <2>6 DEF BehaviorEvidence
  <2>8. AstEvidence' <=> AstEvidence
    BY <2>1, <2>5 DEF AstEvidence, Reports, Literals, HasBlockWord, BlockDetections, Mentions,
                      Holds, Detection
  <2>9. BehaviorEvidence' <=> severities \cap {"CRITICAL", "HIGH"} # {}
    BY <2>5 DEF BehaviorEvidence
  <2>10. Enforcing(detections') <=> \/ Enforcing(detections)
                                   \/ severities \cap {"CRITICAL", "HIGH"} # {}
    BY <2>2, <2>4, EnforcingUnion
  <2>11. Enforcing(detections)' <=> HasBlockWord(source)' \/ AstEvidence' \/ BehaviorEvidence'
    BY <2>1, <2>7, <2>8, <2>9, <2>10, SameText DEF Enforcing
  <2> QED BY <2>1, <2>5, <2>11 DEF VerdictInv
<1>7. CASE Decide
  <2>1. /\ pc = "decide" /\ pc' = "done" /\ UNCHANGED <<queueVars, settings>>
        /\ action' = IF Enforcing(detections) THEN "QUARANTINE" ELSE "OBSERVE"
    BY <1>7 DEF Decide, Enforcing
  <2>2. action' = "QUARANTINE" <=> HasBlockWord(source) \/ AstEvidence \/ BehaviorEvidence
    BY <2>1 DEF VerdictInv
  <2>3. action' = "QUARANTINE" <=> HasBlockWord(source)' \/ AstEvidence' \/ BehaviorEvidence'
    BY <2>1, <2>2, SameEvidence
  <2> QED BY <1>1, <2>1, <2>3 DEF VerdictInv
<1>8. CASE pc = "scan" /\ QueueStep /\ UNCHANGED verdictVars
  <2>1. /\ pc = "scan" /\ pc' = pc /\ settings' = settings /\ detections' = detections
    BY <1>8 DEF verdictVars
  <2>2. source' = source
    BY <1>8 DEF QueueStep, PassOver, TakeUp, Inside, Leave, Finish
  <2>3. Enforcing(detections)' <=> HasBlockWord(source)'
    BY <2>1, <2>2, SameText DEF VerdictInv, Enforcing
  <2> QED BY <1>1, <2>1, <2>3 DEF VerdictInv
<1>9. CASE UNCHANGED <<queueVars, verdictVars>>
  <2>1. /\ UNCHANGED <<queueVars, settings>> /\ source' = source
        /\ pc' = pc /\ settings' = settings /\ detections' = detections /\ action' = action
    BY <1>9 DEF verdictVars, queueVars
  <2>2. Enforcing(detections)' <=> Enforcing(detections)
    BY <2>1 DEF Enforcing
  <2>3. /\ HasBlockWord(source)' <=> HasBlockWord(source)
        /\ AstEvidence' <=> AstEvidence
        /\ BehaviorEvidence' <=> BehaviorEvidence
    BY <2>1, SameEvidence
  <2> QED BY <1>1, <2>1, <2>2, <2>3 DEF VerdictInv
<1> QED BY <1>2, <1>3, <1>4, <1>5, <1>6, <1>7, <1>8, <1>9 DEF VerdictNext, Judge

(* detector.js enforces on the evidence of its passes and on nothing       *)
(* else: a module is quarantined exactly when a signature is in its text,  *)
(* a behaviour is grave, or, where the AST scanner ran, it reported a      *)
(* call, folded a literal with a signature, or was cut short under any     *)
(* policy but observe.  For any text, any findings and any violations.     *)
THEOREM EnforcesExactlyHolds == VerdictSpec => []EnforcesExactly
<1>1. VerdictInv => EnforcesExactly
  BY DEF VerdictInv, EnforcesExactly, AstEvidence, BehaviorEvidence
<1> QED BY <1>1, VerdictStarts, VerdictSteps, PTL DEF VerdictSpec

-----------------------------------------------------------------------------
(* The parser. *)

(* A rule that reads on after a node may read nothing; any other takes a    *)
(* token at least.                                                          *)
OnwardRules == {"commas", "binaryRest", "additiveRest", "trailers", "members"}
AtLeast(rule, p) == IF rule \in OnwardRules THEN p ELSE p + 1

Depths == 0..(MaxParseDepth + 1)

(* An answer that returns has moved on, within the tokens, and left the     *)
(* counter as it was; one that throws has not run away with the counter.    *)
Sound(T, rule, p, d, r) ==
  /\ r.ok \in BOOLEAN
  /\ r.ok => r.depth = d /\ r.pos \in AtLeast(rule, p)..(Len(T) + 1)
  /\ ~r.ok => r.depth \in Depths

Listed(T) == Len(T) \in Nat /\ DOMAIN T = 1..Len(T)

(* Rules that call each other at one place do so in this order.             *)
Height == [rule \in Rules |->
  CASE rule = "sequence" -> 6 [] rule \in {"arguments", "elements"} -> 6 [] rule = "assign" -> 5
    [] rule = "binary" -> 4 [] rule = "additive" -> 3 [] rule = "unary" -> 2 [] rule = "postfix" -> 1
    [] OTHER -> 0]

(* f is sound, and g agrees with it, on the calls that a rule at p makes.   *)
Calling(f, g, T, rule, p) ==
  \A r \in Rules, q \in 1..(Len(T) + 1), e \in Nat :
    q > p \/ (q = p /\ Height[r] < Height[rule])
      => g[<<r, q, e>>] = f[<<r, q, e>>] /\ Sound(T, r, q, e, f[<<r, q, e>>])

LEMMA RuleNames ==
    /\ OnwardRules \subseteq Rules
    /\ {"sequence", "assign", "binary", "additive", "unary", "postfix", "arguments", "elements",
        "primary"} = Rules \ OnwardRules
BY DEF Rules, OnwardRules

LEMMA Heights ==
    /\ Height["sequence"] = 6 /\ Height["arguments"] = 6 /\ Height["elements"] = 6
    /\ Height["assign"] = 5 /\ Height["binary"] = 4 /\ Height["additive"] = 3
    /\ Height["unary"] = 2 /\ Height["postfix"] = 1 /\ Height["primary"] = 0
    /\ \A rule \in OnwardRules : Height[rule] = 0
    /\ \A rule \in Rules : Height[rule] \in 0..6
<1>1. /\ Height["sequence"] = 6 /\ Height["arguments"] = 6 /\ Height["elements"] = 6
      /\ Height["assign"] = 5 /\ Height["binary"] = 4 /\ Height["additive"] = 3
      /\ Height["unary"] = 2 /\ Height["postfix"] = 1 /\ Height["primary"] = 0
  BY DEF Height, Rules
<1>2. /\ Height["commas"] = 0 /\ Height["binaryRest"] = 0 /\ Height["additiveRest"] = 0
      /\ Height["trailers"] = 0 /\ Height["members"] = 0
  BY DEF Height, Rules
<1> QED BY <1>1, <1>2 DEF OnwardRules, Rules

LEMMA SeesInside ==
    ASSUME NEW T, Listed(T), NEW p, NEW value, Sees(T, p, value)
    PROVE  p \in 1..Len(T)
<1>1. DOMAIN T = 1..Len(T)
  BY DEF Listed
<1>2. <<>> # <<value>>
  OBVIOUS
<1> QED BY <1>1, <1>2 DEF Sees, Tok, Token

LEMMA NameInside ==
    ASSUME NEW T, Listed(T), NEW p, Tok(T, p).type # "eof"
    PROVE  p \in 1..Len(T)
<1>1. DOMAIN T = 1..Len(T)
  BY DEF Listed
<1> QED BY <1>1 DEF Tok, Token

LEMMA ThrowSound ==
    ASSUME NEW d \in Nat
    PROVE  ~Threw(d).ok /\ Threw(d).ok \in BOOLEAN /\ Threw(d).depth \in Depths
<1>1. MaxParseDepth \in Nat
  BY ParserAssumption
<1>2. CASE d <= MaxParseDepth
  BY <1>1, <1>2 DEF Threw, Depths
<1>3. CASE d > MaxParseDepth
  <2>1. (d - MaxParseDepth) % 2 \in 0..1
    BY <1>1, <1>3
  <2> QED BY <1>1, <1>3, <2>1 DEF Threw, Depths
<1> QED BY <1>1, <1>2, <1>3

(* What is found further on, or at the same place by a rule that takes a    *)
(* token, answers for the rule that asked.                                  *)
LEMMA LaterSound ==
    ASSUME NEW T, Len(T) \in Nat, NEW rule, NEW p \in Nat, NEW d, NEW r, NEW later, NEW q \in Nat,
           Sound(T, later, q, d, r), q >= p + 1 \/ (q = p /\ later \notin OnwardRules)
    PROVE  Sound(T, rule, p, d, r)
<1>1. AtLeast(later, q) \in Nat /\ AtLeast(rule, p) \in Nat /\ AtLeast(later, q) >= AtLeast(rule, p)
  BY DEF AtLeast
<1> QED BY <1>1 DEF Sound

LEMMA ThenSound ==
    ASSUME NEW T, NEW rule, NEW p, NEW d, NEW r, NEW node, Sound(T, rule, p, d, r)
    PROVE  Sound(T, rule, p, d, Then(r, node)) /\ (Then(r, node).ok <=> r.ok)
           /\ Then(r, node).pos = r.pos /\ Then(r, node).depth = r.depth
BY DEF Sound, Then, Done

LEMMA PrependSound ==
    ASSUME NEW T, NEW rule, NEW p, NEW d, NEW r, NEW node, Sound(T, rule, p, d, r)
    PROVE  Sound(T, rule, p, d, Prepend(node, r))
BY DEF Sound, Prepend, Done

LEMMA DoneSound ==
    ASSUME NEW T, NEW rule, NEW p, NEW d, NEW q \in AtLeast(rule, p)..(Len(T) + 1), NEW node
    PROVE  Sound(T, rule, p, d, Done(q, d, node))
BY DEF Sound, Done

LEMMA ThrewSound ==
    ASSUME NEW T, NEW rule, NEW p, NEW d, NEW e \in Nat
    PROVE  Sound(T, rule, p, d, Threw(e))
BY ThrowSound DEF Sound

(* A token expected after an answer.                                        *)
LEMMA ExpectSound ==
    ASSUME NEW T, Listed(T), NEW p \in Nat, NEW d \in Nat, NEW r, NEW value,
           NEW rule \in Rules, Sound(T, rule, p, d, r)
    PROVE  Sound(T, rule, p, d, Expect(T, r, value))
<1>1. CASE ~r.ok
  BY <1>1 DEF Expect
<1>2. CASE r.ok /\ ~Sees(T, r.pos, value)
  <2>1. r.depth \in Nat /\ Expect(T, r, value) = Threw(r.depth)
    BY <1>2 DEF Sound, Expect
  <2> QED BY <2>1, ThrewSound
<1>3. CASE r.ok /\ Sees(T, r.pos, value)
  <2>1. r.pos \in 1..Len(T) /\ Expect(T, r, value) = Done(r.pos + 1, d, r.node)
    BY <1>3, SeesInside DEF Sound, Expect, Passing
  <2>2. Len(T) \in Nat /\ AtLeast(rule, p) \in Nat /\ r.pos >= AtLeast(rule, p)
    BY <1>3 DEF Sound, AtLeast, Listed
  <2>3. r.pos + 1 \in AtLeast(rule, p)..(Len(T) + 1)
    BY <2>1, <2>2
  <2> QED BY <2>1, <2>3, DoneSound
<1> QED BY <1>1, <1>2, <1>3 DEF Sound

(* What a rule may assume of the calls it makes.                            *)
LEMMA CallSound ==
    ASSUME NEW T, Listed(T), NEW f, NEW g, NEW rule \in Rules, NEW p \in 1..(Len(T) + 1),
           Calling(f, g, T, rule, p),
           NEW r \in Rules, NEW q \in 1..(Len(T) + 1), NEW e \in Nat,
           q > p \/ (q = p /\ Height[r] < Height[rule])
    PROVE  g[<<r, q, e>>] = f[<<r, q, e>>] /\ Sound(T, r, q, e, f[<<r, q, e>>])
BY DEF Calling

(* What an answer that returns says.                                        *)
LEMMA ReturnIs ==
    ASSUME NEW T, Listed(T), NEW rule, NEW p \in 1..(Len(T) + 1), NEW d \in Nat, NEW r,
           Sound(T, rule, p, d, r), r.ok
    PROVE  /\ r.depth = d /\ r.pos \in 1..(Len(T) + 1) /\ r.pos >= p
           /\ rule \notin OnwardRules => r.pos >= p + 1 /\ r.pos > p
<1>1. AtLeast(rule, p) \in Nat /\ AtLeast(rule, p) >= p /\ Len(T) \in Nat /\ p \in Nat /\ p >= 1
  BY DEF AtLeast, Listed
<1> QED BY <1>1 DEF Sound, AtLeast

LEMMA OnwardNames ==
    /\ "commas" \in OnwardRules /\ "binaryRest" \in OnwardRules /\ "additiveRest" \in OnwardRules
    /\ "trailers" \in OnwardRules /\ "members" \in OnwardRules
BY DEF OnwardRules

LEMMA TakingNames ==
    /\ "sequence" \in Rules \ OnwardRules /\ "assign" \in Rules \ OnwardRules
    /\ "binary" \in Rules \ OnwardRules /\ "additive" \in Rules \ OnwardRules
    /\ "unary" \in Rules \ OnwardRules /\ "postfix" \in Rules \ OnwardRules
    /\ "arguments" \in Rules \ OnwardRules /\ "elements" \in Rules \ OnwardRules
    /\ "primary" \in Rules \ OnwardRules
BY RuleNames

(* The rest of a list after a node that was read.                           *)
LEMMA ListSound ==
    ASSUME NEW T, Listed(T), NEW f, NEW g, NEW rule \in Rules, NEW p \in 1..(Len(T) + 1),
           NEW d \in Nat, Calling(f, g, T, rule, p),
           NEW taking \in Rules \ OnwardRules, NEW r, Sound(T, taking, p, d, r),
           NEW rest \in OnwardRules
    PROVE  List(g, r, rest) = List(f, r, rest) /\ Sound(T, rule, p, d, List(f, r, rest))
<1>0. Len(T) \in Nat /\ p \in Nat /\ rest \in Rules
  BY RuleNames DEF Listed
<1>1. CASE ~r.ok
  <2>1. List(f, r, rest) = r /\ List(g, r, rest) = r
    BY <1>1 DEF List
  <2> QED BY <1>0, <2>1, LaterSound
<1>2. CASE r.ok
  <2> DEFINE more == f[<<rest, r.pos, r.depth>>]
  <2>1. r.depth = d /\ r.pos \in 1..(Len(T) + 1) /\ r.pos >= p + 1 /\ r.pos > p
    BY <1>0, <1>2, ReturnIs
  <2>2. g[<<rest, r.pos, r.depth>>] = more /\ Sound(T, rest, r.pos, d, more)
    BY <1>0, <2>1, CallSound
  <2> HIDE DEF more
  <2>3. List(f, r, rest) = Prepend(r.node, more) /\ List(g, r, rest) = Prepend(r.node, more)
    BY <1>2, <2>2 DEF List, more
  <2>4. Sound(T, rule, p, d, more)
    BY <1>0, <2>1, <2>2, LaterSound
  <2> QED BY <2>3, <2>4, PrependSound
<1> QED BY <1>1, <1>2

LEMMA ReturnsSound ==
    ASSUME NEW T, NEW rule, NEW p, NEW d \in Nat, NEW r, Sound(T, rule, p, d + 1, r)
    PROVE  Sound(T, rule, p, d, Returns(r))
<1>1. CASE r.ok
  <2>1. r.depth = d + 1 /\ (d + 1) - 1 = d
    BY <1>1 DEF Sound
  <2>2. Returns(r) = Done(r.pos, d, r.node)
    BY <1>1, <2>1 DEF Returns
  <2> QED BY <1>1, <2>2 DEF Sound, Done
<1>2. CASE ~r.ok
  BY <1>2 DEF Sound, Returns
<1> QED BY <1>1, <1>2

(* An operand, and what the rule reads on: guardDepth is undone on return.  *)
LEMMA ChainSound ==
    ASSUME NEW T, Listed(T), NEW f, NEW g, NEW self \in Rules, NEW p \in 1..(Len(T) + 1),
           NEW d \in Nat, Calling(f, g, T, self, p),
           NEW rule \in Rules \ OnwardRules, Height[rule] < Height[self], NEW rest \in OnwardRules
    PROVE  /\ Chain(g, p, d, rule, rest) = Chain(f, p, d, rule, rest)
           /\ Sound(T, self, p, d, Chain(f, p, d, rule, rest))
<1> DEFINE first == f[<<rule, p, d + 1>>]
           more == f[<<rest, first.pos, first.depth>>]
<1>0. /\ Len(T) \in Nat /\ p \in Nat /\ rest \in Rules /\ d + 1 \in Nat
  BY RuleNames DEF Listed
<1>1. g[<<rule, p, d + 1>>] = first /\ Sound(T, rule, p, d + 1, first)
  BY <1>0, CallSound
<1> HIDE DEF first
<1>2. CASE ~Guarded(d)
  <2>1. Chain(f, p, d, rule, rest) = Threw(d + 1) /\ Chain(g, p, d, rule, rest) = Threw(d + 1)
    BY <1>2 DEF Chain
  <2> QED BY <1>0, <2>1, ThrewSound
<1>3. CASE Guarded(d) /\ ~first.ok
  <2>1. Chain(f, p, d, rule, rest) = first /\ Chain(g, p, d, rule, rest) = first
    BY <1>1, <1>3 DEF Chain, first
  <2>2. Sound(T, self, p, d, first)
    BY <1>1, <1>3 DEF Sound
  <2> QED BY <2>1, <2>2
<1>4. CASE Guarded(d) /\ first.ok
  <2>1. /\ first.depth = d + 1 /\ first.pos \in 1..(Len(T) + 1)
        /\ first.pos >= p + 1 /\ first.pos > p
    BY <1>0, <1>1, <1>4, ReturnIs
  <2>2. g[<<rest, first.pos, first.depth>>] = more /\ Sound(T, rest, first.pos, d + 1, more)
    BY <1>0, <2>1, CallSound
  <2> HIDE DEF more
  <2> DEFINE built == Then(more, Built(first.node, more.node))
  <2>3. Chain(f, p, d, rule, rest) = Returns(built) /\ Chain(g, p, d, rule, rest) = Returns(built)
    BY <1>1, <1>4, <2>2 DEF Chain, first, more
  <2>4. Sound(T, self, p, d + 1, more)
    BY <1>0, <2>1, <2>2, LaterSound
  <2>5. Sound(T, self, p, d + 1, built)
    BY <2>4, ThenSound
  <2> HIDE DEF built
  <2> QED BY <2>3, <2>5, ReturnsSound
<1> QED BY <1>2, <1>3, <1>4

LEMMA SequenceSound ==
    ASSUME NEW T, Listed(T), NEW p \in 1..(Len(T) + 1), NEW d \in Nat, NEW f, NEW g,
           Calling(f, g, T, "sequence", p)
    PROVE  /\ Sequence(g, T, p, d) = Sequence(f, T, p, d)
           /\ Sound(T, "sequence", p, d, Sequence(f, T, p, d))
<1> DEFINE first == f[<<"assign", p, d>>]
           more == f[<<"commas", first.pos, first.depth>>]
<1>0. /\ Len(T) \in Nat /\ p \in Nat /\ "commas" \in Rules
      /\ "sequence" \in Rules /\ "assign" \in Rules \ OnwardRules
  BY RuleNames, TakingNames, OnwardNames DEF Listed
<1>1. g[<<"assign", p, d>>] = first /\ Sound(T, "assign", p, d, first)
  <2>1. Height["assign"] < Height["sequence"]
    BY Heights
  <2> QED BY <1>0, <2>1, CallSound
<1> HIDE DEF first
<1>2. CASE ~(first.ok /\ Sees(T, first.pos, ","))
  <2>1. Sequence(f, T, p, d) = first /\ Sequence(g, T, p, d) = first
    BY <1>1, <1>2 DEF Sequence, first
  <2> QED BY <1>0, <1>1, <2>1, LaterSound
<1>3. CASE first.ok /\ Sees(T, first.pos, ",")
  <2> DEFINE node == [type |-> "Sequence", expressions |-> <<first.node>> \o more.node]
  <2>1. /\ first.depth = d /\ first.pos \in 1..(Len(T) + 1)
        /\ first.pos >= p + 1 /\ first.pos > p
    <3>1. first.ok
      BY <1>3
    <3> QED BY <1>0, <1>1, <3>1, ReturnIs
  <2>2. /\ g[<<"commas", first.pos, first.depth>>] = more
        /\ Sound(T, "commas", first.pos, d, more)
    BY <1>0, <2>1, CallSound
  <2> HIDE DEF more
  <2>3. Sequence(f, T, p, d) = Then(more, node) /\ Sequence(g, T, p, d) = Then(more, node)
    BY <1>1, <1>3, <2>2 DEF Sequence, first, more
  <2> HIDE DEF node
  <2>4. Sound(T, "sequence", p, d, more)
    BY <1>0, <2>1, <2>2, LaterSound
  <2> QED BY <2>3, <2>4, ThenSound
<1> QED BY <1>2, <1>3

LEMMA CommasSound ==
    ASSUME NEW T, Listed(T), NEW p \in 1..(Len(T) + 1), NEW d \in Nat, NEW f, NEW g,
           Calling(f, g, T, "commas", p)
    PROVE  /\ Commas(g, T, p, d) = Commas(f, T, p, d)
           /\ Sound(T, "commas", p, d, Commas(f, T, p, d))
<1>0. /\ Len(T) \in Nat /\ p \in Nat /\ "commas" \in Rules /\ "commas" \in OnwardRules
      /\ "assign" \in Rules \ OnwardRules
  BY RuleNames, TakingNames, OnwardNames DEF Listed
<1>1. CASE ~Sees(T, p, ",")
  <2>1. Commas(f, T, p, d) = Done(p, d, <<>>) /\ Commas(g, T, p, d) = Done(p, d, <<>>)
    BY <1>1 DEF Commas
  <2>2. p \in AtLeast("commas", p)..(Len(T) + 1)
    BY <1>0 DEF AtLeast
  <2> QED BY <2>1, <2>2, DoneSound
<1>2. CASE Sees(T, p, ",")
  <2> DEFINE e == f[<<"assign", p + 1, d>>]
  <2>1. p + 1 \in 1..(Len(T) + 1) /\ p + 1 > p /\ p + 1 >= p + 1 /\ p + 1 \in Nat
    <3>1. p \in 1..Len(T)
      BY <1>2, SeesInside
    <3> QED BY <1>0, <3>1
  <2>2. g[<<"assign", p + 1, d>>] = e /\ Sound(T, "assign", p + 1, d, e)
    BY <1>0, <2>1, CallSound
  <2> HIDE DEF e
  <2>3. Commas(f, T, p, d) = List(f, e, "commas") /\ Commas(g, T, p, d) = List(g, e, "commas")
    BY <1>2, <2>2 DEF Commas, e
  <2>4. Sound(T, "assign", p, d, e)
    BY <1>0, <2>1, <2>2, LaterSound
  <2> QED BY <1>0, <2>3, <2>4, ListSound
<1> QED BY <1>1, <1>2

LEMMA AssignSound ==
    ASSUME NEW T, Listed(T), NEW p \in 1..(Len(T) + 1), NEW d \in Nat, NEW f, NEW g,
           Calling(f, g, T, "assign", p)
    PROVE  /\ Assign(g, T, p, d) = Assign(f, T, p, d)
           /\ Sound(T, "assign", p, d, Assign(f, T, p, d))
<1> DEFINE test == f[<<"binary", p, d>>]
           given == f[<<"assign", test.pos + 1, test.depth>>]
           yes == Expect(T, given, ":")
           no == f[<<"assign", yes.pos, yes.depth>>]
<1>0. /\ Len(T) \in Nat /\ p \in Nat /\ "binary" \in Rules \ OnwardRules
      /\ "assign" \in Rules \ OnwardRules /\ "assign" \in Rules
  BY RuleNames, TakingNames DEF Listed
<1>1. g[<<"binary", p, d>>] = test /\ Sound(T, "binary", p, d, test)
  <2>1. Height["binary"] < Height["assign"]
    BY Heights
  <2> QED BY <1>0, <2>1, CallSound
<1> HIDE DEF test
<1>2. CASE ~(test.ok /\ Sees(T, test.pos, "?"))
  <2>1. Assign(f, T, p, d) = test /\ Assign(g, T, p, d) = test
    BY <1>1, <1>2 DEF Assign, test
  <2> QED BY <1>0, <1>1, <2>1, LaterSound
<1>3. CASE test.ok /\ Sees(T, test.pos, "?")
  <2>1. /\ test.depth = d /\ test.pos \in 1..(Len(T) + 1) /\ test.pos >= p + 1
    <3>1. test.ok
      BY <1>3
    <3> QED BY <1>0, <1>1, <3>1, ReturnIs
  <2>2. test.pos + 1 \in 1..(Len(T) + 1) /\ test.pos + 1 > p /\ test.pos + 1 >= p + 1
    <3>1. test.pos \in 1..Len(T)
      BY <1>3, SeesInside
    <3> QED BY <1>0, <2>1, <3>1
  <2>3. g[<<"assign", test.pos + 1, test.depth>>] = given /\ Sound(T, "assign", test.pos + 1, d, given)
    BY <1>0, <2>1, <2>2, CallSound
  <2> HIDE DEF given
  <2>4. Sound(T, "assign", p, d, given)
    BY <1>0, <2>2, <2>3, LaterSound
  <2>5. Sound(T, "assign", p, d, yes)
    BY <1>0, <2>4, ExpectSound
  <2>6. /\ Assign(f, T, p, d) = IF yes.ok THEN Then(no, Opaque) ELSE yes
        /\ Assign(g, T, p, d) = IF yes.ok THEN Then(g[<<"assign", yes.pos, yes.depth>>], Opaque)
                                ELSE yes
    BY <1>1, <1>3, <2>3 DEF Assign, test, given
  <2> HIDE DEF yes
  <2>7. CASE ~yes.ok
    BY <2>5, <2>6, <2>7
  <2>8. CASE yes.ok
    <3>1. yes.depth = d /\ yes.pos \in 1..(Len(T) + 1) /\ yes.pos >= p + 1 /\ yes.pos > p
      BY <1>0, <2>5, <2>8, ReturnIs
    <3>2. g[<<"assign", yes.pos, yes.depth>>] = no /\ Sound(T, "assign", yes.pos, d, no)
      BY <1>0, <3>1, CallSound
    <3> HIDE DEF no
    <3>3. Sound(T, "assign", p, d, no)
      BY <1>0, <3>1, <3>2, LaterSound
    <3>4. Sound(T, "assign", p, d, Then(no, Opaque))
      BY <3>3, ThenSound
    <3> QED BY <2>6, <2>8, <3>2, <3>4
  <2> QED BY <2>7, <2>8
<1> QED BY <1>2, <1>3

(* An operator and its right operand.                                       *)
LEMMA OperandSound ==
    ASSUME NEW T, Listed(T), NEW f, NEW g, NEW self \in Rules, NEW p \in 1..Len(T), NEW d \in Nat,
           Calling(f, g, T, self, p), NEW rule \in Rules \ OnwardRules
    PROVE  /\ Operand(g, T, p, d, rule) = Operand(f, T, p, d, rule)
           /\ Sound(T, rule, p, d, Operand(f, T, p, d, rule))
<1> DEFINE right == f[<<rule, p + 1, d>>]
           node == [type |-> "Binary", operator |-> Tok(T, p).value[1], left |-> Hole,
                    right |-> right.node]
<1>0. /\ Len(T) \in Nat /\ p \in Nat /\ p \in 1..(Len(T) + 1)
      /\ p + 1 \in 1..(Len(T) + 1) /\ p + 1 > p /\ p + 1 \in Nat /\ p + 1 >= p + 1
  BY DEF Listed
<1>1. g[<<rule, p + 1, d>>] = right /\ Sound(T, rule, p + 1, d, right)
  BY <1>0, CallSound
<1> HIDE DEF right
<1>2. Operand(f, T, p, d, rule) = Then(right, node) /\ Operand(g, T, p, d, rule) = Then(right, node)
  BY <1>1 DEF Operand, right
<1> HIDE DEF node
<1>3. Sound(T, rule, p, d, right)
  BY <1>0, <1>1, LaterSound
<1> QED BY <1>2, <1>3, ThenSound

LEMMA BinaryRestSound ==
    ASSUME NEW T, Listed(T), NEW p \in 1..(Len(T) + 1), NEW d \in Nat, NEW f, NEW g,
           Calling(f, g, T, "binaryRest", p)
    PROVE  /\ BinaryRest(g, T, p, d) = BinaryRest(f, T, p, d)
           /\ Sound(T, "binaryRest", p, d, BinaryRest(f, T, p, d))
<1>0. /\ Len(T) \in Nat /\ p \in Nat /\ "binaryRest" \in OnwardRules /\ "binaryRest" \in Rules
      /\ "additive" \in Rules \ OnwardRules
  BY RuleNames, TakingNames, OnwardNames DEF Listed
<1>1. CASE ~\E op \in BinaryOperators : Sees(T, p, op)
  <2>1. BinaryRest(f, T, p, d) = Done(p, d, <<>>) /\ BinaryRest(g, T, p, d) = Done(p, d, <<>>)
    BY <1>1 DEF BinaryRest
  <2>2. p \in AtLeast("binaryRest", p)..(Len(T) + 1)
    BY <1>0 DEF AtLeast
  <2> QED BY <2>1, <2>2, DoneSound
<1>2. CASE \E op \in BinaryOperators : Sees(T, p, op)
  <2> DEFINE right == Operand(f, T, p, d, "additive")
  <2>1. p \in 1..Len(T)
    BY <1>2, SeesInside
  <2>2. Operand(g, T, p, d, "additive") = right /\ Sound(T, "additive", p, d, right)
    BY <1>0, <2>1, OperandSound
  <2> HIDE DEF right
  <2>3. /\ BinaryRest(f, T, p, d) = List(f, right, "binaryRest")
        /\ BinaryRest(g, T, p, d) = List(g, right, "binaryRest")
    BY <1>2, <2>2 DEF BinaryRest, right
  <2> QED BY <1>0, <2>2, <2>3, ListSound
<1> QED BY <1>1, <1>2

LEMMA AdditiveRestSound ==
    ASSUME NEW T, Listed(T), NEW p \in 1..(Len(T) + 1), NEW d \in Nat, NEW f, NEW g,
           Calling(f, g, T, "additiveRest", p)
    PROVE  /\ AdditiveRest(g, T, p, d) = AdditiveRest(f, T, p, d)
           /\ Sound(T, "additiveRest", p, d, AdditiveRest(f, T, p, d))
<1>0. /\ Len(T) \in Nat /\ p \in Nat /\ "additiveRest" \in OnwardRules /\ "additiveRest" \in Rules
      /\ "unary" \in Rules \ OnwardRules
  BY RuleNames, TakingNames, OnwardNames DEF Listed
<1>1. CASE ~\E op \in AdditiveOperators : Sees(T, p, op)
  <2>1. AdditiveRest(f, T, p, d) = Done(p, d, <<>>) /\ AdditiveRest(g, T, p, d) = Done(p, d, <<>>)
    BY <1>1 DEF AdditiveRest
  <2>2. p \in AtLeast("additiveRest", p)..(Len(T) + 1)
    BY <1>0 DEF AtLeast
  <2> QED BY <2>1, <2>2, DoneSound
<1>2. CASE \E op \in AdditiveOperators : Sees(T, p, op)
  <2> DEFINE right == Operand(f, T, p, d, "unary")
  <2>1. p \in 1..Len(T)
    BY <1>2, SeesInside
  <2>2. Operand(g, T, p, d, "unary") = right /\ Sound(T, "unary", p, d, right)
    BY <1>0, <2>1, OperandSound
  <2> HIDE DEF right
  <2>3. /\ AdditiveRest(f, T, p, d) = List(f, right, "additiveRest")
        /\ AdditiveRest(g, T, p, d) = List(g, right, "additiveRest")
    BY <1>2, <2>2 DEF AdditiveRest, right
  <2> QED BY <1>0, <2>2, <2>3, ListSound
<1> QED BY <1>1, <1>2

LEMMA UnarySound ==
    ASSUME NEW T, Listed(T), NEW p \in 1..(Len(T) + 1), NEW d \in Nat, NEW f, NEW g,
           Calling(f, g, T, "unary", p)
    PROVE  /\ Unary(g, T, p, d) = Unary(f, T, p, d) /\ Sound(T, "unary", p, d, Unary(f, T, p, d))
<1>0. /\ Len(T) \in Nat /\ p \in Nat /\ "unary" \in Rules \ OnwardRules /\ "unary" \in Rules
      /\ "postfix" \in Rules \ OnwardRules
  BY RuleNames, TakingNames DEF Listed
<1>1. CASE \E op \in UnaryOperators : Sees(T, p, op)
  <2> DEFINE r == f[<<"unary", p + 1, d>>]
             node == [type |-> "Unary", argument |-> r.node]
  <2>1. p \in 1..Len(T)
    BY <1>1, SeesInside
  <2>2. p + 1 \in 1..(Len(T) + 1) /\ p + 1 > p /\ p + 1 >= p + 1 /\ p + 1 \in Nat
    BY <1>0, <2>1
  <2>3. g[<<"unary", p + 1, d>>] = r /\ Sound(T, "unary", p + 1, d, r)
    BY <1>0, <2>2, CallSound
  <2> HIDE DEF r
  <2>4. Unary(f, T, p, d) = Then(r, node) /\ Unary(g, T, p, d) = Then(r, node)
    BY <1>1, <2>3 DEF Unary, r
  <2> HIDE DEF node
  <2>5. Sound(T, "unary", p, d, r)
    BY <1>0, <2>2, <2>3, LaterSound
  <2> QED BY <2>4, <2>5, ThenSound
<1>2. CASE ~\E op \in UnaryOperators : Sees(T, p, op)
  <2> DEFINE r == f[<<"postfix", p, d>>]
  <2>1. Height["postfix"] < Height["unary"]
    BY Heights
  <2>2. g[<<"postfix", p, d>>] = r /\ Sound(T, "postfix", p, d, r)
    BY <1>0, <2>1, CallSound
  <2> HIDE DEF r
  <2>3. Unary(f, T, p, d) = r /\ Unary(g, T, p, d) = r
    BY <1>2, <2>2 DEF Unary, r
  <2> QED BY <1>0, <2>2, <2>3, LaterSound
<1> QED BY <1>1, <1>2

LEMMA TrailersSound ==
    ASSUME NEW T, Listed(T), NEW p \in 1..(Len(T) + 1), NEW d \in Nat, NEW f, NEW g,
           Calling(f, g, T, "trailers", p)
    PROVE  /\ Trailers(g, T, p, d) = Trailers(f, T, p, d)
           /\ Sound(T, "trailers", p, d, Trailers(f, T, p, d))
<1> DEFINE q == IF Sees(T, p, "(") THEN p + 1 ELSE p + 2
           calls == Sees(T, p, "(") \/ (Sees(T, p, "?.") /\ Sees(T, p + 1, "("))
           plain == Sees(T, p, ".") \/ Sees(T, p, "?.")
           args == f[<<"arguments", q, d>>]
           inner == f[<<"sequence", p + 1, d>>]
<1>0. /\ Len(T) \in Nat /\ p \in Nat /\ "trailers" \in Rules /\ "trailers" \in OnwardRules
      /\ "arguments" \in Rules \ OnwardRules /\ "sequence" \in Rules \ OnwardRules
      /\ "sequence" \in Rules
  BY RuleNames, TakingNames, OnwardNames DEF Listed
<1>1. ASSUME NEW value, Sees(T, p, value)
      PROVE  /\ p + 1 \in 1..(Len(T) + 1) /\ p + 1 > p /\ p + 1 >= p + 1 /\ p + 1 \in Nat
             /\ p + 2 > p /\ p + 2 >= p + 1 /\ p + 2 \in Nat
  <2>1. p \in 1..Len(T)
    BY <1>1, SeesInside
  <2> QED BY <1>0, <2>1
<1>2. CASE calls
  <2>1. /\ q \in 1..(Len(T) + 1) /\ q > p /\ q >= p + 1 /\ q \in Nat
    <3>1. CASE Sees(T, p, "(")
      BY <1>1, <3>1
    <3>2. CASE ~Sees(T, p, "(")
      <4>1. Sees(T, p + 1, "(") /\ Sees(T, p, "?.")
        BY <1>2, <3>2
      <4>2. p + 1 \in 1..Len(T)
        BY <4>1, SeesInside
      <4> QED BY <1>0, <3>2, <4>2
    <3> QED BY <3>1, <3>2
  <2> HIDE DEF q
  <2>2. g[<<"arguments", q, d>>] = args /\ Sound(T, "arguments", q, d, args)
    BY <1>0, <2>1, CallSound
  <2> HIDE DEF args
  <2> DEFINE call == Then(args, Call(Hole, args.node))
  <2>3. Trailers(f, T, p, d) = List(f, call, "trailers") /\ Trailers(g, T, p, d) = List(g, call, "trailers")
    BY <1>2, <2>2 DEF Trailers, args, q
  <2>4. Sound(T, "arguments", p, d, args)
    BY <1>0, <2>1, <2>2, LaterSound
  <2>5. Sound(T, "arguments", p, d, call)
    BY <2>4, ThenSound
  <2> HIDE DEF call
  <2> QED BY <1>0, <2>3, <2>5, ListSound
<1>3. CASE ~calls /\ plain
  <2> DEFINE name == Done(p + 2, d, Member(Hole, Tok(T, p + 1).value))
  <2>1. CASE ~IsName(Tok(T, p + 1))
    <3>1. Trailers(f, T, p, d) = Threw(d) /\ Trailers(g, T, p, d) = Threw(d)
      BY <1>3, <2>1 DEF Trailers
    <3> QED BY <3>1, ThrewSound
  <2>2. CASE IsName(Tok(T, p + 1))
    <3>1. Trailers(f, T, p, d) = List(f, name, "trailers") /\ Trailers(g, T, p, d) = List(g, name, "trailers")
      BY <1>3, <2>2 DEF Trailers
    <3>2. p + 1 \in 1..Len(T)
      BY <2>2, NameInside DEF IsName
    <3>3. p + 2 \in AtLeast("sequence", p)..(Len(T) + 1)
      BY <1>0, <3>2 DEF AtLeast
    <3>4. Sound(T, "sequence", p, d, name)
      BY <3>3, DoneSound
    <3> HIDE DEF name
    <3> QED BY <1>0, <3>1, <3>4, ListSound
  <2> QED BY <2>1, <2>2
<1>4. CASE ~calls /\ ~plain /\ Sees(T, p, "[")
  <2> DEFINE key == Expect(T, inner, "]")
  <2>1. p + 1 \in 1..(Len(T) + 1) /\ p + 1 > p /\ p + 1 >= p + 1 /\ p + 1 \in Nat
    BY <1>1, <1>4
  <2>2. g[<<"sequence", p + 1, d>>] = inner /\ Sound(T, "sequence", p + 1, d, inner)
    BY <1>0, <2>1, CallSound
  <2> HIDE DEF inner
  <2>3. Sound(T, "sequence", p, d, inner)
    BY <1>0, <2>1, <2>2, LaterSound
  <2>4. Sound(T, "sequence", p, d, key)
    BY <1>0, <2>3, ExpectSound
  <2> DEFINE keyed == Then(key, Keyed(Hole, key.node))
  <2>5. Sound(T, "sequence", p, d, keyed)
    BY <2>4, ThenSound
  <2>6. Trailers(f, T, p, d) = List(f, keyed, "trailers") /\ Trailers(g, T, p, d) = List(g, keyed, "trailers")
    BY <1>4, <2>2 DEF Trailers, inner
  <2> HIDE DEF keyed
  <2> QED BY <1>0, <2>5, <2>6, ListSound
<1>5. CASE ~calls /\ ~plain /\ ~Sees(T, p, "[")
  <2>1. Trailers(f, T, p, d) = Done(p, d, <<>>) /\ Trailers(g, T, p, d) = Done(p, d, <<>>)
    BY <1>5 DEF Trailers
  <2>2. p \in AtLeast("trailers", p)..(Len(T) + 1)
    BY <1>0 DEF AtLeast
  <2> QED BY <2>1, <2>2, DoneSound
<1> QED BY <1>2, <1>3, <1>4, <1>5

LEMMA ItemsSound ==
    ASSUME NEW T, Listed(T), NEW p \in 1..(Len(T) + 1), NEW d \in Nat, NEW f, NEW g,
           NEW rule \in {"arguments", "elements"}, Calling(f, g, T, rule, p)
    PROVE  /\ Items(g, T, p, d, rule) = Items(f, T, p, d, rule)
           /\ Sound(T, rule, p, d, Items(f, T, p, d, rule))
<1> DEFINE close == IF rule = "arguments" THEN ")" ELSE "]"
           hole == rule = "elements" /\ Sees(T, p, ",")
           spread == Sees(T, p, "...")
           q == IF spread THEN p + 1 ELSE p
           e == f[<<"assign", q, d>>]
           item == IF spread THEN Opaque ELSE e.node
<1>0. /\ Len(T) \in Nat /\ p \in Nat /\ rule \in Rules /\ rule \in Rules \ OnwardRules
      /\ rule \notin OnwardRules /\ "assign" \in Rules \ OnwardRules
  BY RuleNames, TakingNames DEF Listed
<1>1. ASSUME NEW value, Sees(T, p, value)
      PROVE  /\ p + 1 \in 1..(Len(T) + 1) /\ p + 1 > p /\ p + 1 >= p + 1 /\ p + 1 \in Nat
  <2>1. p \in 1..Len(T)
    BY <1>1, SeesInside
  <2> QED BY <1>0, <2>1
<1> HIDE DEF close
<1>2. CASE Sees(T, p, close)
  <2>1. Items(f, T, p, d, rule) = Done(p + 1, d, <<>>) /\ Items(g, T, p, d, rule) = Done(p + 1, d, <<>>)
    BY <1>2 DEF Items, close
  <2>2. p + 1 \in AtLeast(rule, p)..(Len(T) + 1)
    BY <1>0, <1>1, <1>2 DEF AtLeast
  <2> QED BY <2>1, <2>2, DoneSound
<1>3. CASE ~Sees(T, p, close) /\ hole
  <2> DEFINE more == f[<<rule, p + 1, d>>]
  <2>1. p + 1 \in 1..(Len(T) + 1) /\ p + 1 > p /\ p + 1 >= p + 1 /\ p + 1 \in Nat
    BY <1>1, <1>3
  <2>2. g[<<rule, p + 1, d>>] = more /\ Sound(T, rule, p + 1, d, more)
    BY <1>0, <2>1, CallSound
  <2> HIDE DEF more
  <2>3. Items(f, T, p, d, rule) = Prepend(Hole, more) /\ Items(g, T, p, d, rule) = Prepend(Hole, more)
    BY <1>3, <2>2 DEF Items, close, more
  <2>4. Sound(T, rule, p, d, more)
    BY <1>0, <2>1, <2>2, LaterSound
  <2> QED BY <2>3, <2>4, PrependSound
<1>4. CASE ~Sees(T, p, close) /\ ~hole
  <2>1. /\ q \in 1..(Len(T) + 1) /\ q >= p /\ q \in Nat
        /\ q >= p + 1 \/ (q = p /\ "assign" \notin OnwardRules)
        /\ q > p \/ (q = p /\ Height["assign"] < Height[rule])
    <3>1. CASE spread
      BY <1>1, <3>1
    <3>2. CASE ~spread
      BY <1>0, <3>2, Heights
    <3> QED BY <3>1, <3>2
  <2>2. g[<<"assign", q, d>>] = e /\ Sound(T, "assign", q, d, e)
    <3>1. /\ rule \in Rules /\ "assign" \in Rules /\ q \in 1..(Len(T) + 1)
          /\ q > p \/ (q = p /\ Height["assign"] < Height[rule])
      BY <1>0, <2>1
    <3> HIDE DEF q, hole, spread, item
    <3> QED BY <3>1, CallSound
  <2>3. Sound(T, "assign", p, d, e)
    <3> HIDE DEF q, e
    <3> QED BY <1>0, <2>1, <2>2, LaterSound
  <2>4. Sound(T, rule, p, d, e)
    BY <1>0, <2>3, LaterSound
  <2>5. /\ Items(f, T, p, d, rule) =
             IF ~e.ok THEN e
             ELSE IF Sees(T, e.pos, ",") THEN Prepend(item, f[<<rule, e.pos + 1, e.depth>>])
             ELSE Then(Expect(T, e, close), <<item>>)
        /\ Items(g, T, p, d, rule) =
             IF ~e.ok THEN e
             ELSE IF Sees(T, e.pos, ",") THEN Prepend(item, g[<<rule, e.pos + 1, e.depth>>])
             ELSE Then(Expect(T, e, close), <<item>>)
    BY <1>4, <2>2 DEF Items, close
  <2> HIDE DEF e, item
  <2>6. CASE ~e.ok
    BY <2>4, <2>5, <2>6
  <2>7. CASE e.ok /\ Sees(T, e.pos, ",")
    <3> DEFINE more == f[<<rule, e.pos + 1, e.depth>>]
    <3>1. e.depth = d /\ e.pos \in 1..(Len(T) + 1) /\ e.pos >= p + 1
      <4>1. e.ok
        BY <2>7
      <4> QED BY <1>0, <2>4, <4>1, ReturnIs
    <3>2. e.pos + 1 \in 1..(Len(T) + 1) /\ e.pos + 1 > p /\ e.pos + 1 >= p + 1 /\ e.pos + 1 \in Nat
      <4>1. e.pos \in 1..Len(T)
        BY <2>7, SeesInside
      <4> QED BY <1>0, <3>1, <4>1
    <3>3. g[<<rule, e.pos + 1, e.depth>>] = more /\ Sound(T, rule, e.pos + 1, d, more)
      BY <1>0, <3>1, <3>2, CallSound
    <3>4. /\ Items(f, T, p, d, rule) = Prepend(item, more)
          /\ Items(g, T, p, d, rule) = Prepend(item, more)
      BY <2>5, <2>7, <3>3
    <3> HIDE DEF more
    <3>5. Sound(T, rule, p, d, more)
      BY <1>0, <3>2, <3>3, LaterSound
    <3> QED BY <3>4, <3>5, PrependSound
  <2>8. CASE e.ok /\ ~Sees(T, e.pos, ",")
    <3> DEFINE last == Expect(T, e, close)
    <3>1. Items(f, T, p, d, rule) = Then(last, <<item>>) /\ Items(g, T, p, d, rule) = Then(last, <<item>>)
      BY <2>5, <2>8
    <3>2. Sound(T, rule, p, d, last)
      BY <1>0, <2>4, ExpectSound
    <3> HIDE DEF last
    <3> QED BY <3>1, <3>2, ThenSound
  <2> QED BY <2>6, <2>7, <2>8
<1> QED BY <1>2, <1>3, <1>4

(* What is skipped ends past a closing bracket.                             *)
LEMMA SkippedSound ==
    ASSUME NEW T, Listed(T), NEW p \in Nat, NEW d \in Nat, NEW open, NEW close, NEW node
    PROVE  Sound(T, "primary", p, d, Skipped(T, p, d, open, close, node))
<1> DEFINE seen(cell, q) == Cardinality({k \in p..q : Sees(T, k, cell)})
           ends == {q \in p..Len(T) : seen(open, q) = seen(close, q)}
           end == IF Sees(T, p, open) THEN SkipBalanced(T, p, open, close) ELSE 0
<1>0. Len(T) \in Nat
  BY DEF Listed
<1>1. end = 0 \/ end \in (p + 1)..(Len(T) + 1)
  <2>1. SkipBalanced(T, p, open, close) = IF ends = {} THEN 0 ELSE Min(ends) + 1
    BY Zenon DEF SkipBalanced
  <2>2. ends \in SUBSET Nat /\ ends \subseteq p..Len(T)
    BY <1>0
  <2> HIDE DEF ends
  <2>3. ends # {} => Min(ends) \in p..Len(T)
    BY <2>2, MinIs
  <2>4. ends # {} => Min(ends) + 1 \in (p + 1)..(Len(T) + 1)
    BY <1>0, <2>3
  <2> QED BY <2>1, <2>4
<1>2. Skipped(T, p, d, open, close, node) = IF end = 0 THEN Threw(d) ELSE Done(end, d, node)
  BY Zenon DEF Skipped
<1> HIDE DEF end
<1>3. CASE end = 0
  BY <1>2, <1>3, ThrewSound
<1>4. CASE end # 0
  <2>1. end \in AtLeast("primary", p)..(Len(T) + 1)
    BY <1>1, <1>4 DEF AtLeast, OnwardRules
  <2> QED BY <1>2, <1>4, <2>1, DoneSound
<1> QED BY <1>3, <1>4

LEMMA FunctionSound ==
    ASSUME NEW T, Listed(T), NEW p \in Nat, NEW d \in Nat
    PROVE  Sound(T, "primary", p, d, FunctionExpression(T, p, d))
<1> DEFINE star == Sees(T, p + 1, "*")
           q == p + 1 + (IF star THEN 1 ELSE 0)
           r == IF Tok(T, q).type = "identifier" THEN q + 1 ELSE q
           head == Skipped(T, r, d, "(", ")", Opaque)
           body == Skipped(T, head.pos, d, "{", "}", FunctionNode(star))
<1>0. Len(T) \in Nat /\ "primary" \in Rules \ OnwardRules
  BY TakingNames DEF Listed
<1>1. r \in Nat /\ r >= p + 1
  <2>1. q \in Nat /\ q >= p + 1
    OBVIOUS
  <2> HIDE DEF q
  <2> QED BY <2>1
<1>2. FunctionExpression(T, p, d) = IF head.ok THEN body ELSE head
  BY Zenon DEF FunctionExpression
<1> HIDE DEF r
<1>3. Sound(T, "primary", r, d, head)
  BY <1>1, SkippedSound
<1> HIDE DEF head
<1>4. CASE ~head.ok
  <2>1. Sound(T, "primary", p, d, head)
    BY <1>0, <1>1, <1>3, LaterSound
  <2> QED BY <1>2, <1>4, <2>1
<1>5. CASE head.ok
  <2>1. head.pos \in (r + 1)..(Len(T) + 1)
    BY <1>3, <1>5 DEF Sound, AtLeast, OnwardRules
  <2>2. head.pos \in Nat /\ head.pos >= p + 1
    BY <1>0, <1>1, <2>1
  <2>3. Sound(T, "primary", head.pos, d, body)
    BY <2>2, SkippedSound
  <2> HIDE DEF body
  <2>4. Sound(T, "primary", p, d, body)
    BY <1>0, <2>2, <2>3, LaterSound
  <2> QED BY <1>2, <1>5, <2>4
<1> QED BY <1>4, <1>5

LEMMA ArrowSound ==
    ASSUME NEW T, Listed(T), NEW p \in 1..(Len(T) + 1), NEW d \in Nat, NEW f, NEW g,
           NEW rule \in Rules, Calling(f, g, T, rule, p), NEW q \in 1..(Len(T) + 1), q > p
    PROVE  /\ Arrow(g, T, q, d) = Arrow(f, T, q, d)
           /\ Sound(T, rule, p, d, Arrow(f, T, q, d))
<1> DEFINE block == Skipped(T, q, d, "{", "}", FunctionNode(FALSE))
           e == f[<<"assign", q, d>>]
<1>0. /\ Len(T) \in Nat /\ p \in Nat /\ q \in Nat /\ q >= p + 1
      /\ "assign" \in Rules \ OnwardRules /\ "primary" \in Rules \ OnwardRules
  BY TakingNames DEF Listed
<1>1. CASE Sees(T, q, "{")
  <2>1. Arrow(f, T, q, d) = block /\ Arrow(g, T, q, d) = block
    BY <1>1 DEF Arrow
  <2>2. Sound(T, "primary", q, d, block)
    BY <1>0, SkippedSound
  <2> HIDE DEF block
  <2> QED BY <1>0, <2>1, <2>2, LaterSound
<1>2. CASE ~Sees(T, q, "{")
  <2>1. g[<<"assign", q, d>>] = e /\ Sound(T, "assign", q, d, e)
    BY <1>0, CallSound
  <2> HIDE DEF e
  <2> DEFINE body == Then(e, FunctionNode(FALSE))
  <2>2. Arrow(f, T, q, d) = body /\ Arrow(g, T, q, d) = body
    BY <1>2, <2>1 DEF Arrow, e
  <2>3. Sound(T, "assign", q, d, body)
    BY <2>1, ThenSound
  <2> HIDE DEF body
  <2> QED BY <1>0, <2>2, <2>3, LaterSound
<1> QED BY <1>1, <1>2

LEMMA MembersSound ==
    ASSUME NEW T, Listed(T), NEW p \in 1..(Len(T) + 1), NEW d \in Nat, NEW f, NEW g,
           Calling(f, g, T, "members", p)
    PROVE  /\ Members(g, T, p, d) = Members(f, T, p, d)
           /\ Sound(T, "members", p, d, Members(f, T, p, d))
<1> DEFINE more == f[<<"members", p + 2, d>>]
<1>0. /\ Len(T) \in Nat /\ p \in Nat /\ "members" \in Rules
  BY RuleNames, OnwardNames DEF Listed
<1>1. CASE ~Sees(T, p, ".")
  <2>1. Members(f, T, p, d) = Done(p, d, Opaque) /\ Members(g, T, p, d) = Done(p, d, Opaque)
    BY <1>1 DEF Members
  <2>2. p \in AtLeast("members", p)..(Len(T) + 1)
    BY <1>0, OnwardNames DEF AtLeast
  <2> QED BY <2>1, <2>2, DoneSound
<1>2. CASE Sees(T, p, ".") /\ ~IsName(Tok(T, p + 1))
  <2>1. Members(f, T, p, d) = Threw(d) /\ Members(g, T, p, d) = Threw(d)
    BY <1>2 DEF Members
  <2> QED BY <2>1, ThrewSound
<1>3. CASE Sees(T, p, ".") /\ IsName(Tok(T, p + 1))
  <2>1. p + 2 \in 1..(Len(T) + 1) /\ p + 2 > p /\ p + 2 >= p + 1 /\ p + 2 \in Nat
    <3>1. p + 1 \in 1..Len(T)
      BY <1>3, NameInside DEF IsName
    <3> QED BY <1>0, <3>1
  <2>2. g[<<"members", p + 2, d>>] = more /\ Sound(T, "members", p + 2, d, more)
    BY <1>0, <2>1, CallSound
  <2> HIDE DEF more
  <2>3. Members(f, T, p, d) = more /\ Members(g, T, p, d) = more
    BY <1>3, <2>2 DEF Members, more
  <2> QED BY <1>0, <2>1, <2>2, <2>3, LaterSound
<1> QED BY <1>1, <1>2, <1>3

LEMMA NewSound ==
    ASSUME NEW T, Listed(T), NEW p \in 1..Len(T), NEW d \in Nat, NEW f, NEW g,
           Calling(f, g, T, "primary", p)
    PROVE  New(g, T, p, d) = New(f, T, p, d) /\ Sound(T, "primary", p, d, New(f, T, p, d))
<1> DEFINE q == p + 2
           callee == f[<<"members", q, d>>]
           given == f[<<"arguments", callee.pos + 1, callee.depth>>]
           args == IF Sees(T, callee.pos, "(") THEN given ELSE Then(callee, <<>>)
           node == [type |-> "New", args |-> args.node]
<1>0. /\ Len(T) \in Nat /\ p \in Nat /\ p \in 1..(Len(T) + 1) /\ "members" \in Rules
      /\ "arguments" \in Rules /\ "primary" \in Rules
  BY RuleNames, OnwardNames, TakingNames DEF Listed
<1>1. CASE ~IsName(Tok(T, p + 1))
  <2>1. New(f, T, p, d) = Threw(d) /\ New(g, T, p, d) = Threw(d)
    BY <1>1 DEF New
  <2> QED BY <2>1, ThrewSound
<1>2. CASE IsName(Tok(T, p + 1))
  <2>1. q \in 1..(Len(T) + 1) /\ q > p /\ q >= p + 1 /\ q \in Nat
    <3>1. p + 1 \in 1..Len(T)
      BY <1>2, NameInside DEF IsName
    <3> QED BY <1>0, <3>1
  <2> HIDE DEF q
  <2>2. g[<<"members", q, d>>] = callee /\ Sound(T, "members", q, d, callee)
    BY <1>0, <2>1, CallSound
  <2> HIDE DEF callee
  <2>3. Sound(T, "primary", p, d, callee)
    BY <1>0, <2>1, <2>2, LaterSound
  <2>4. CASE ~callee.ok
    <3>1. New(f, T, p, d) = callee /\ New(g, T, p, d) = callee
      BY <1>2, <2>2, <2>4 DEF New, callee, q
    <3> QED BY <2>3, <3>1
  <2>5. CASE callee.ok /\ ~Sees(T, callee.pos, "(")
    <3> DEFINE bare == Then(callee, <<>>)
               made == Then(bare, [type |-> "New", args |-> bare.node])
    <3>1. New(f, T, p, d) = made /\ New(g, T, p, d) = made
      BY <1>2, <2>2, <2>5 DEF New, callee, q
    <3>2. Sound(T, "primary", p, d, bare)
      BY <2>3, ThenSound
    <3> HIDE DEF bare
    <3>3. Sound(T, "primary", p, d, made)
      BY <3>2, ThenSound
    <3> QED BY <3>1, <3>3
  <2>6. CASE callee.ok /\ Sees(T, callee.pos, "(")
    <3>1. callee.depth = d /\ callee.pos \in 1..(Len(T) + 1) /\ callee.pos >= q
      <4>1. callee.ok /\ Sound(T, "members", q, d, callee)
        BY <2>2, <2>6
      <4>2. q \in 1..(Len(T) + 1)
        BY <2>1
      <4>3. callee.depth = d
        BY <4>1 DEF Sound
      <4>4. callee.pos \in 1..(Len(T) + 1) /\ callee.pos >= q
        BY <4>1, <4>2, ReturnIs
      <4> QED BY <4>3, <4>4
    <3>2. /\ callee.pos + 1 \in 1..(Len(T) + 1) /\ callee.pos + 1 > p /\ callee.pos + 1 >= p + 1
          /\ callee.pos + 1 \in Nat
      <4>1. callee.pos \in 1..Len(T)
        BY <2>6, SeesInside
      <4> QED BY <1>0, <2>1, <3>1, <4>1
    <3>3. /\ g[<<"arguments", callee.pos + 1, callee.depth>>] = given
          /\ Sound(T, "arguments", callee.pos + 1, d, given)
      BY <1>0, <3>1, <3>2, CallSound
    <3> HIDE DEF given
    <3> DEFINE made == Then(given, [type |-> "New", args |-> given.node])
    <3>4. New(f, T, p, d) = made /\ New(g, T, p, d) = made
      BY <1>2, <2>2, <2>6, <3>3 DEF New, callee, given, q
    <3>5. Sound(T, "primary", p, d, given)
      BY <1>0, <3>2, <3>3, LaterSound
    <3>6. Sound(T, "primary", p, d, made)
      BY <3>5, ThenSound
    <3> QED BY <3>4, <3>6
  <2> QED BY <2>4, <2>5, <2>6
<1> QED BY <1>1, <1>2

LEMMA ParenthesisedSound ==
    ASSUME NEW T, Listed(T), NEW p \in 1..Len(T), NEW d \in Nat, NEW f, NEW g,
           Calling(f, g, T, "primary", p)
    PROVE  /\ Parenthesised(g, T, p, d) = Parenthesised(f, T, p, d)
           /\ Sound(T, "primary", p, d, Parenthesised(f, T, p, d))
<1> DEFINE e == f[<<"sequence", p + 1, d>>]
           inner == Expect(T, e, ")")
<1>0. /\ Len(T) \in Nat /\ p \in Nat /\ p \in 1..(Len(T) + 1) /\ "sequence" \in Rules
      /\ "primary" \in Rules /\ "primary" \in Rules \ OnwardRules
      /\ p + 1 \in 1..(Len(T) + 1) /\ p + 1 > p /\ p + 1 >= p + 1 /\ p + 1 \in Nat
  BY TakingNames DEF Listed
<1>1. g[<<"sequence", p + 1, d>>] = e /\ Sound(T, "sequence", p + 1, d, e)
  BY <1>0, CallSound
<1> HIDE DEF e
<1>2. Sound(T, "primary", p, d, e)
  BY <1>0, <1>1, LaterSound
<1>3. Sound(T, "primary", p, d, inner)
  BY <1>0, <1>2, ExpectSound
<1>4. /\ Parenthesised(f, T, p, d) = IF inner.ok /\ Sees(T, inner.pos, "=>")
                                      THEN Arrow(f, T, inner.pos + 1, inner.depth) ELSE inner
      /\ Parenthesised(g, T, p, d) = IF inner.ok /\ Sees(T, inner.pos, "=>")
                                      THEN Arrow(g, T, inner.pos + 1, inner.depth) ELSE inner
  BY <1>1 DEF Parenthesised, e
<1> HIDE DEF inner
<1>5. CASE ~(inner.ok /\ Sees(T, inner.pos, "=>"))
  BY <1>3, <1>4, <1>5
<1>6. CASE inner.ok /\ Sees(T, inner.pos, "=>")
  <2>1. inner.depth = d /\ inner.pos \in 1..(Len(T) + 1) /\ inner.pos >= p + 1
    <3>1. inner.ok
      BY <1>6
    <3> QED BY <1>0, <1>3, <3>1, ReturnIs
  <2>2. inner.pos + 1 \in 1..(Len(T) + 1) /\ inner.pos + 1 > p
    <3>1. inner.pos \in 1..Len(T)
      BY <1>6, SeesInside
    <3> QED BY <1>0, <2>1, <3>1
  <2>3. /\ Arrow(g, T, inner.pos + 1, d) = Arrow(f, T, inner.pos + 1, d)
        /\ Sound(T, "primary", p, d, Arrow(f, T, inner.pos + 1, d))
    BY <1>0, <2>2, ArrowSound
  <2> QED BY <1>4, <1>6, <2>1, <2>3
<1> QED BY <1>5, <1>6

LEMMA ArrayLiteralSound ==
    ASSUME NEW T, Listed(T), NEW p \in 1..Len(T), NEW d \in Nat, NEW f, NEW g,
           Calling(f, g, T, "primary", p)
    PROVE  /\ ArrayLiteral(g, p, d) = ArrayLiteral(f, p, d)
           /\ Sound(T, "primary", p, d, ArrayLiteral(f, p, d))
<1> DEFINE list == f[<<"elements", p + 1, d>>]
           array == Then(list, [type |-> "Array", elements |-> list.node])
<1>0. /\ Len(T) \in Nat /\ p \in Nat /\ p \in 1..(Len(T) + 1) /\ "elements" \in Rules
      /\ "primary" \in Rules
      /\ p + 1 \in 1..(Len(T) + 1) /\ p + 1 > p /\ p + 1 >= p + 1 /\ p + 1 \in Nat
  BY TakingNames DEF Listed
<1>1. g[<<"elements", p + 1, d>>] = list /\ Sound(T, "elements", p + 1, d, list)
  BY <1>0, CallSound
<1> HIDE DEF list
<1>2. ArrayLiteral(f, p, d) = array /\ ArrayLiteral(g, p, d) = array
  BY <1>1 DEF ArrayLiteral, list
<1>3. Sound(T, "primary", p, d, list)
  BY <1>0, <1>1, LaterSound
<1>4. Sound(T, "primary", p, d, array)
  BY <1>3, ThenSound
<1> QED BY <1>2, <1>4

LEMMA PrimarySound ==
    ASSUME NEW T, Listed(T), NEW p \in 1..(Len(T) + 1), NEW d \in Nat, NEW f, NEW g,
           Calling(f, g, T, "primary", p)
    PROVE  /\ Primary(g, T, p, d) = Primary(f, T, p, d)
           /\ Sound(T, "primary", p, d, Primary(f, T, p, d))
<1> DEFINE t == Tok(T, p)
           is(cell) == t.type # "string" /\ t.value = <<cell>>
<1>0. Len(T) \in Nat /\ p \in Nat /\ p + 1 \in Nat /\ "primary" \in Rules \ OnwardRules
  BY TakingNames DEF Listed
<1>1. ASSUME NEW cell, is(cell) PROVE p \in 1..Len(T)
  BY <1>1, SeesInside DEF Sees
<1>2. ASSUME t.type # "eof", NEW node PROVE Sound(T, "primary", p, d, Done(p + 1, d, node))
  <2>1. p \in 1..Len(T)
    BY <1>2, NameInside
  <2>2. p + 1 \in AtLeast("primary", p)..(Len(T) + 1)
    BY <1>0, <2>1 DEF AtLeast, OnwardRules
  <2> QED BY <2>2, DoneSound
<1>3. Sound(T, "primary", p, d, Threw(d))
  BY ThrewSound
<1>4. CASE t.type \in {"string", "number"}
  <2>1. /\ Primary(f, T, p, d) = Done(p + 1, d, Literal(t))
        /\ Primary(g, T, p, d) = Done(p + 1, d, Literal(t))
    BY <1>4 DEF Primary
  <2> QED BY <1>2, <1>4, <2>1
<1>5. CASE t.type = "regex"
  <2>1. Primary(f, T, p, d) = Done(p + 1, d, Opaque) /\ Primary(g, T, p, d) = Done(p + 1, d, Opaque)
    BY <1>5 DEF Primary
  <2> QED BY <1>2, <1>5, <2>1
<1> DEFINE other == t.type \notin {"string", "number", "regex"}
<1>6. CASE other /\ is("(")
  <2>1. /\ Primary(f, T, p, d) = Parenthesised(f, T, p, d)
        /\ Primary(g, T, p, d) = Parenthesised(g, T, p, d)
    BY <1>6 DEF Primary
  <2>2. p \in 1..Len(T)
    BY <1>1, <1>6
  <2> QED BY <2>1, <2>2, ParenthesisedSound
<1>7. CASE other /\ ~is("(") /\ is("[")
  <2>1. Primary(f, T, p, d) = ArrayLiteral(f, p, d) /\ Primary(g, T, p, d) = ArrayLiteral(g, p, d)
    BY <1>7 DEF Primary
  <2>2. p \in 1..Len(T)
    BY <1>1, <1>7
  <2> QED BY <2>1, <2>2, ArrayLiteralSound
<1>8. CASE other /\ ~is("(") /\ ~is("[") /\ is("{")
  <2>1. /\ Primary(f, T, p, d) = Skipped(T, p, d, "{", "}", Opaque)
        /\ Primary(g, T, p, d) = Skipped(T, p, d, "{", "}", Opaque)
    BY <1>8 DEF Primary
  <2> QED BY <1>0, <2>1, SkippedSound
<1> DEFINE worded == other /\ ~is("(") /\ ~is("[") /\ ~is("{")
<1>9. CASE worded /\ is("function")
  <2>1. /\ Primary(f, T, p, d) = FunctionExpression(T, p, d)
        /\ Primary(g, T, p, d) = FunctionExpression(T, p, d)
    BY <1>9 DEF Primary
  <2> QED BY <1>0, <2>1, FunctionSound
<1>10. CASE worded /\ ~is("function") /\ is("async") /\ Sees(T, p + 1, "function")
  <2>1. /\ Primary(f, T, p, d) = FunctionExpression(T, p + 1, d)
        /\ Primary(g, T, p, d) = FunctionExpression(T, p + 1, d)
    BY <1>10 DEF Primary
  <2>2. Sound(T, "primary", p + 1, d, FunctionExpression(T, p + 1, d))
    BY <1>0, FunctionSound
  <2>3. p + 1 >= p + 1
    BY <1>0
  <2> QED BY <1>0, <2>1, <2>2, <2>3, LaterSound
<1> DEFINE named == worded /\ ~is("function") /\ ~(is("async") /\ Sees(T, p + 1, "function"))
<1>11. CASE named /\ is("new")
  <2>1. Primary(f, T, p, d) = New(f, T, p, d) /\ Primary(g, T, p, d) = New(g, T, p, d)
    BY <1>11 DEF Primary
  <2>2. p \in 1..Len(T)
    BY <1>1, <1>11
  <2> QED BY <2>1, <2>2, NewSound
<1>12. CASE named /\ ~is("new") /\ (is("class") \/ is("await"))
  <2>1. Primary(f, T, p, d) = Threw(d) /\ Primary(g, T, p, d) = Threw(d)
    BY <1>12 DEF Primary
  <2> QED BY <1>3, <2>1
<1> DEFINE plain == named /\ ~is("new") /\ ~is("class") /\ ~is("await")
<1>13. CASE plain /\ is("this")
  <2>1. /\ Primary(f, T, p, d) = Done(p + 1, d, Name(t.value))
        /\ Primary(g, T, p, d) = Done(p + 1, d, Name(t.value))
    BY <1>13 DEF Primary
  <2>2. p \in 1..Len(T)
    BY <1>1, <1>13
  <2>3. p + 1 \in AtLeast("primary", p)..(Len(T) + 1)
    BY <1>0, <2>2 DEF AtLeast, OnwardRules
  <2> QED BY <2>1, <2>3, DoneSound
<1>14. CASE plain /\ ~is("this") /\ ~IsName(t)
  <2>1. Primary(f, T, p, d) = Threw(d) /\ Primary(g, T, p, d) = Threw(d)
    BY <1>14 DEF Primary
  <2> QED BY <1>3, <2>1
<1>15. CASE plain /\ ~is("this") /\ IsName(t) /\ Sees(T, p + 1, "=>")
  <2>1. /\ Primary(f, T, p, d) = Arrow(f, T, p + 2, d)
        /\ Primary(g, T, p, d) = Arrow(g, T, p + 2, d)
    BY <1>15 DEF Primary
  <2>2. p + 1 \in 1..Len(T)
    BY <1>15, SeesInside
  <2>3. p + 2 \in 1..(Len(T) + 1) /\ p + 2 > p
    BY <1>0, <2>2
  <2> QED BY <1>0, <2>1, <2>3, ArrowSound
<1>16. CASE plain /\ ~is("this") /\ IsName(t) /\ ~Sees(T, p + 1, "=>")
  <2>1. /\ Primary(f, T, p, d) = Done(p + 1, d, Name(t.value))
        /\ Primary(g, T, p, d) = Done(p + 1, d, Name(t.value))
    BY <1>16 DEF Primary
  <2>2. t.type # "eof"
    BY <1>16 DEF IsName
  <2> QED BY <1>2, <2>1, <2>2
<1> QED
  BY <1>4, <1>5, <1>6, <1>7, <1>8, <1>9, <1>10, <1>11, <1>12, <1>13, <1>14, <1>15, <1>16

(* Whatever f and g answer on the calls that it makes, if they agree and    *)
(* are sound there, a rule answers alike through both, and soundly.         *)
LEMMA RuleSound ==
    ASSUME NEW T, Listed(T), NEW rule \in Rules, NEW p \in 1..(Len(T) + 1), NEW d \in Nat,
           NEW f, NEW g, Calling(f, g, T, rule, p)
    PROVE  /\ Rule(g, T, rule, p, d) = Rule(f, T, rule, p, d)
           /\ Sound(T, rule, p, d, Rule(f, T, rule, p, d))
<1>1. CASE rule = "sequence"
  <2>1. Rule(f, T, rule, p, d) = Sequence(f, T, p, d) /\ Rule(g, T, rule, p, d) = Sequence(g, T, p, d)
    BY <1>1 DEF Rule
  <2> QED BY <1>1, <2>1, SequenceSound
<1>2. CASE rule = "commas"
  <2>1. Rule(f, T, rule, p, d) = Commas(f, T, p, d) /\ Rule(g, T, rule, p, d) = Commas(g, T, p, d)
    BY <1>2 DEF Rule
  <2> QED BY <1>2, <2>1, CommasSound
<1>3. CASE rule = "assign"
  <2>1. Rule(f, T, rule, p, d) = Assign(f, T, p, d) /\ Rule(g, T, rule, p, d) = Assign(g, T, p, d)
    BY <1>3 DEF Rule
  <2> QED BY <1>3, <2>1, AssignSound
<1>4. CASE rule = "binaryRest"
  <2>1. Rule(f, T, rule, p, d) = BinaryRest(f, T, p, d) /\ Rule(g, T, rule, p, d) = BinaryRest(g, T, p, d)
    BY <1>4 DEF Rule
  <2> QED BY <1>4, <2>1, BinaryRestSound
<1>5. CASE rule = "additiveRest"
  <2>1. Rule(f, T, rule, p, d) = AdditiveRest(f, T, p, d) /\ Rule(g, T, rule, p, d) = AdditiveRest(g, T, p, d)
    BY <1>5 DEF Rule
  <2> QED BY <1>5, <2>1, AdditiveRestSound
<1>6. CASE rule = "unary"
  <2>1. Rule(f, T, rule, p, d) = Unary(f, T, p, d) /\ Rule(g, T, rule, p, d) = Unary(g, T, p, d)
    BY <1>6 DEF Rule
  <2> QED BY <1>6, <2>1, UnarySound
<1>7. CASE rule = "trailers"
  <2>1. Rule(f, T, rule, p, d) = Trailers(f, T, p, d) /\ Rule(g, T, rule, p, d) = Trailers(g, T, p, d)
    BY <1>7 DEF Rule
  <2> QED BY <1>7, <2>1, TrailersSound
<1>8. CASE rule = "members"
  <2>1. Rule(f, T, rule, p, d) = Members(f, T, p, d) /\ Rule(g, T, rule, p, d) = Members(g, T, p, d)
    BY <1>8 DEF Rule
  <2> QED BY <1>8, <2>1, MembersSound
<1>9. CASE rule = "primary"
  <2>1. Rule(f, T, rule, p, d) = Primary(f, T, p, d) /\ Rule(g, T, rule, p, d) = Primary(g, T, p, d)
    BY <1>9 DEF Rule
  <2> QED BY <1>9, <2>1, PrimarySound
<1>10. CASE rule \in {"arguments", "elements"}
  <2>1. Rule(f, T, rule, p, d) = Items(f, T, p, d, rule) /\ Rule(g, T, rule, p, d) = Items(g, T, p, d, rule)
    BY <1>10 DEF Rule
  <2> QED BY <1>10, <2>1, ItemsSound
<1>11. CASE rule = "binary"
  <2>1. /\ Rule(f, T, rule, p, d) = Chain(f, p, d, "additive", "binaryRest")
        /\ Rule(g, T, rule, p, d) = Chain(g, p, d, "additive", "binaryRest")
    BY <1>11 DEF Rule, Binary
  <2>2. /\ "additive" \in Rules \ OnwardRules /\ "binaryRest" \in OnwardRules
        /\ Height["additive"] < Height[rule]
    BY <1>11, TakingNames, OnwardNames, Heights
  <2> QED BY <2>1, <2>2, ChainSound
<1>12. CASE rule = "additive"
  <2>1. /\ Rule(f, T, rule, p, d) = Chain(f, p, d, "unary", "additiveRest")
        /\ Rule(g, T, rule, p, d) = Chain(g, p, d, "unary", "additiveRest")
    BY <1>12 DEF Rule, Additive
  <2>2. /\ "unary" \in Rules \ OnwardRules /\ "additiveRest" \in OnwardRules
        /\ Height["unary"] < Height[rule]
    BY <1>12, TakingNames, OnwardNames, Heights
  <2> QED BY <2>1, <2>2, ChainSound
<1>13. CASE rule = "postfix"
  <2>1. /\ Rule(f, T, rule, p, d) = Chain(f, p, d, "primary", "trailers")
        /\ Rule(g, T, rule, p, d) = Chain(g, p, d, "primary", "trailers")
    BY <1>13 DEF Rule, Postfix
  <2>2. /\ "primary" \in Rules \ OnwardRules /\ "trailers" \in OnwardRules
        /\ Height["primary"] < Height[rule]
    BY <1>13, TakingNames, OnwardNames, Heights
  <2> QED BY <2>1, <2>2, ChainSound
<1> QED BY <1>1, <1>2, <1>3, <1>4, <1>5, <1>6, <1>7, <1>8, <1>9, <1>10, <1>11, <1>12, <1>13 DEF Rules

-----------------------------------------------------------------------------
(* The recursion of the parser. *)

(* Every call a rule makes is smaller.                                      *)
Size(T, c) == 7 * (Len(T) + 1 - c[2]) + Height[c[1]]
Solved(f, T, n) ==
  \A c \in Calls(T) : Size(T, c) < n =>
    f[c] = Rule(f, T, c[1], c[2], c[3]) /\ Sound(T, c[1], c[2], c[3], f[c])

LEMMA CallParts ==
    ASSUME NEW T, Listed(T), NEW c \in Calls(T)
    PROVE  /\ c[1] \in Rules /\ c[2] \in 1..(Len(T) + 1) /\ c[3] \in Nat
           /\ c = <<c[1], c[2], c[3]>>
           /\ Size(T, c) \in 0..(7 * Len(T) + 6)
<1>1. c[1] \in Rules /\ c[2] \in 1..(Len(T) + 1) /\ c[3] \in Nat /\ c = <<c[1], c[2], c[3]>>
  BY DEF Calls
<1>2. Height[c[1]] \in 0..6 /\ Len(T) \in Nat
  BY <1>1, Heights DEF Listed
<1> DEFINE h == Height[c[1]]
           left == Len(T) + 1 - c[2]
<1>3. left \in 0..Len(T)
  BY <1>1, <1>2
<1>4. h \in 0..6 /\ Size(T, c) = 7 * left + h
  BY <1>2 DEF Size
<1> HIDE DEF left, h
<1>5. Size(T, c) \in 0..(7 * Len(T) + 6)
  BY <1>2, <1>3, <1>4
<1> QED BY <1>1, <1>5

LEMMA SmallerCalls ==
    ASSUME NEW T, Listed(T), NEW f, NEW g, NEW n \in Nat, Solved(f, T, n),
           \A c \in Calls(T) : Size(T, c) < n => g[c] = f[c],
           NEW c \in Calls(T), Size(T, c) <= n
    PROVE  Calling(f, g, T, c[1], c[2])
<1> SUFFICES ASSUME NEW r \in Rules, NEW q \in 1..(Len(T) + 1), NEW e \in Nat,
                    q > c[2] \/ (q = c[2] /\ Height[r] < Height[c[1]])
             PROVE  g[<<r, q, e>>] = f[<<r, q, e>>] /\ Sound(T, r, q, e, f[<<r, q, e>>])
  BY DEF Calling
<1> DEFINE call == <<r, q, e>>
<1>1. call \in Calls(T) /\ call[1] = r /\ call[2] = q /\ call[3] = e
  BY DEF Calls
<1>2. Size(T, call) < n
  <2>1. c[2] \in 1..(Len(T) + 1) /\ c[1] \in Rules
    BY CallParts
  <2>2. Height[r] \in 0..6 /\ Height[c[1]] \in 0..6 /\ Len(T) \in Nat
    BY <2>1, Heights DEF Listed
  <2>3. Size(T, call) = 7 * (Len(T) + 1 - q) + Height[r]
    BY <1>1 DEF Size
  <2>4. Size(T, c) = 7 * (Len(T) + 1 - c[2]) + Height[c[1]]
    BY DEF Size
  <2> DEFINE h == Height[r]
             k == Height[c[1]]
             m == c[2]
             l == Len(T)
  <2>5. h \in 0..6 /\ k \in 0..6 /\ m \in 1..(l + 1) /\ l \in Nat /\ (q > m \/ (q = m /\ h < k))
        /\ q \in 1..(l + 1)
    BY <2>1, <2>2
  <2>6. 7 * (l + 1 - m) + k <= n /\ Size(T, call) = 7 * (l + 1 - q) + h
    BY <2>3, <2>4
  <2> HIDE DEF h, k, m, l, call
  <2>7. 7 * (l + 1 - q) + h < 7 * (l + 1 - m) + k
    BY <2>5
  <2> QED BY <2>5, <2>6, <2>7
<1> HIDE DEF call
<1>3. f[call] = f[call] /\ g[call] = f[call] /\ Sound(T, call[1], call[2], call[3], f[call])
  BY <1>1, <1>2 DEF Solved
<1> QED BY <1>1, <1>3 DEF call

(* The rules define the parser: their recursion has a solution.             *)
LEMMA ParserExists ==
    ASSUME NEW T, Listed(T)
    PROVE  \E f : f = [c \in Calls(T) |-> Rule(f, T, c[1], c[2], c[3])]
<1> DEFINE Levels == {n \in Nat : \E f : f = [c \in Calls(T) |-> f[c]] /\ Solved(f, T, n)}
<1>1. 0 \in Levels
  <2>1. \A c \in Calls(T) : ~(Size(T, c) < 0)
    BY CallParts
  <2>2. Solved([c \in Calls(T) |-> 0], T, 0)
    BY <2>1 DEF Solved
  <2>3. [c \in Calls(T) |-> 0] = [c \in Calls(T) |-> [b \in Calls(T) |-> 0][c]]
    OBVIOUS
  <2> QED BY <2>2, <2>3
<1>2. ASSUME NEW n \in Nat, n \in Levels PROVE n + 1 \in Levels
  <2>1. PICK f : f = [c \in Calls(T) |-> f[c]] /\ Solved(f, T, n)
    BY <1>2
  <2> DEFINE g == [c \in Calls(T) |-> IF Size(T, c) < n THEN f[c] ELSE Rule(f, T, c[1], c[2], c[3])]
  <2>2. \A c \in Calls(T) : Size(T, c) < n => g[c] = f[c]
    OBVIOUS
  <2>3. \A c \in Calls(T) : ~(Size(T, c) < n) => g[c] = Rule(f, T, c[1], c[2], c[3])
    OBVIOUS
  <2>4. g = [c \in Calls(T) |-> g[c]]
    OBVIOUS
  <2> HIDE DEF g
  <2>5. ASSUME NEW c \in Calls(T), Size(T, c) < n + 1
        PROVE  g[c] = Rule(g, T, c[1], c[2], c[3]) /\ Sound(T, c[1], c[2], c[3], g[c])
    <3>1. c[1] \in Rules /\ c[2] \in 1..(Len(T) + 1) /\ c[3] \in Nat /\ Size(T, c) \in Nat
      BY CallParts DEF Listed
    <3>2. Size(T, c) <= n
      BY <2>5, <3>1
    <3>3. Calling(f, g, T, c[1], c[2])
      BY <2>1, <2>2, <3>2, SmallerCalls
    <3>4. /\ Rule(g, T, c[1], c[2], c[3]) = Rule(f, T, c[1], c[2], c[3])
          /\ Sound(T, c[1], c[2], c[3], Rule(f, T, c[1], c[2], c[3]))
      BY <3>1, <3>3, RuleSound
    <3>5. g[c] = Rule(f, T, c[1], c[2], c[3])
      BY <2>1, <2>2, <2>3 DEF Solved
    <3> QED BY <3>4, <3>5
  <2>6. Solved(g, T, n + 1)
    BY <2>5 DEF Solved
  <2> QED BY <2>4, <2>6
<1>3. \A n \in Nat : n \in Levels
  <2> HIDE DEF Levels
  <2> QED BY <1>1, <1>2, SetInduction
<1> DEFINE n == 7 * Len(T) + 7
<1>4. n \in Nat
  BY DEF Listed
<1>5. PICK f : f = [c \in Calls(T) |-> f[c]] /\ Solved(f, T, n)
  BY <1>3, <1>4
<1>6. \A c \in Calls(T) : Size(T, c) < n
  BY CallParts DEF Listed
<1>7. \A c \in Calls(T) : f[c] = Rule(f, T, c[1], c[2], c[3])
  BY <1>5, <1>6 DEF Solved
<1>8. [c \in Calls(T) |-> f[c]] = [c \in Calls(T) |-> Rule(f, T, c[1], c[2], c[3])]
  BY <1>7
<1> QED BY <1>5, <1>8

LEMMA ParserSolves ==
    ASSUME NEW T, Listed(T)
    PROVE  ParserOf(T) = [c \in Calls(T) |-> Rule(ParserOf(T), T, c[1], c[2], c[3])]
<1> DEFINE Solves(f) == f = [c \in Calls(T) |-> Rule(f, T, c[1], c[2], c[3])]
           parser == CHOOSE f : Solves(f)
<1>1. \E f : Solves(f)
  BY ParserExists
<1>2. ParserOf(T) = parser
  BY Zenon DEF ParserOf
<1>3. Solves(parser)
  <2> HIDE DEF Solves
  <2> QED BY <1>1
<1> QED BY <1>2, <1>3

(* The parser moves on, stays within the tokens, and leaves the depth       *)
(* counter as it was unless it throws.                                      *)
LEMMA ParserSound ==
    ASSUME NEW T, Listed(T), NEW rule \in Rules, NEW p \in 1..(Len(T) + 1), NEW d \in Nat
    PROVE  Sound(T, rule, p, d, Parse(rule, T, p, d))
<1> DEFINE f == ParserOf(T)
           Levels == {n \in Nat : Solved(f, T, n)}
<1>1. f = [c \in Calls(T) |-> Rule(f, T, c[1], c[2], c[3])]
  BY ParserSolves
<1> HIDE DEF f
<1>2. \A c \in Calls(T) : f[c] = Rule(f, T, c[1], c[2], c[3])
  BY <1>1
<1>3. 0 \in Levels
  <2>1. \A c \in Calls(T) : ~(Size(T, c) < 0)
    BY CallParts
  <2> QED BY <2>1 DEF Solved
<1>4. ASSUME NEW n \in Nat, n \in Levels PROVE n + 1 \in Levels
  <2>1. Solved(f, T, n)
    BY <1>4
  <2>2. ASSUME NEW c \in Calls(T), Size(T, c) < n + 1
        PROVE  Sound(T, c[1], c[2], c[3], f[c])
    <3>1. c[1] \in Rules /\ c[2] \in 1..(Len(T) + 1) /\ c[3] \in Nat /\ Size(T, c) \in Nat
      BY CallParts DEF Listed
    <3>2. Size(T, c) <= n
      BY <2>2, <3>1
    <3>3. Calling(f, f, T, c[1], c[2])
      BY <2>1, <3>2, SmallerCalls
    <3>4. Sound(T, c[1], c[2], c[3], Rule(f, T, c[1], c[2], c[3]))
      BY <3>1, <3>3, RuleSound
    <3> QED BY <1>2, <3>4
  <2> QED BY <1>2, <2>2 DEF Solved
<1>5. \A n \in Nat : n \in Levels
  <2> HIDE DEF Levels
  <2> QED BY <1>3, <1>4, SetInduction
<1> DEFINE call == <<rule, p, d>>
<1>6. call \in Calls(T) /\ call[1] = rule /\ call[2] = p /\ call[3] = d
  BY DEF Calls
<1> HIDE DEF call
<1>7. Size(T, call) \in Nat
  BY <1>6, CallParts DEF Listed
<1>8. Solved(f, T, Size(T, call) + 1)
  BY <1>5, <1>7
<1>9. Sound(T, call[1], call[2], call[3], f[call])
  BY <1>6, <1>7, <1>8 DEF Solved
<1> QED BY <1>6, <1>9 DEF Parse, f, call

-----------------------------------------------------------------------------
(* Statements and recovery. *)

(* One statement: if it parses, it takes a token at least and leaves the    *)
(* depth counter as it was.                                                 *)
LEMMA DeclarationSound ==
    ASSUME NEW T, Listed(T), NEW p \in 1..Len(T), NEW d \in Nat
    PROVE  Sound(T, "sequence", p, d, Declaration(T, p, d))
<1> DEFINE name == Tok(T, p + 1)
           init == IF Sees(T, p + 2, "=") THEN Parse("assign", T, p + 3, d) ELSE Done(p + 2, d, Hole)
           node == [type |-> "Declaration", name |-> name.value, init |-> init.node]
<1>0. Len(T) \in Nat /\ p \in Nat /\ p + 3 \in Nat /\ "assign" \in Rules \ OnwardRules
      /\ p + 2 \in Nat
  BY TakingNames DEF Listed
<1>1. CASE name.type # "identifier"
  <2>1. Declaration(T, p, d) = Threw(d)
    BY <1>1 DEF Declaration
  <2> QED BY <2>1, ThrewSound
<1>2. CASE name.type = "identifier"
  <2>1. p + 1 \in 1..Len(T)
    BY <1>2, NameInside
  <2>2. Declaration(T, p, d) = Initialised(T, name.value, init)
    BY <1>2 DEF Declaration
  <2>3. Sound(T, "sequence", p, d, init)
    <3>1. CASE Sees(T, p + 2, "=")
      <4>1. p + 2 \in 1..Len(T)
        BY <3>1, SeesInside
      <4>2. p + 3 \in 1..(Len(T) + 1) /\ p + 3 >= p + 1
        BY <1>0, <4>1
      <4>3. Sound(T, "assign", p + 3, d, Parse("assign", T, p + 3, d))
        BY <1>0, <4>2, ParserSound
      <4> QED BY <1>0, <3>1, <4>2, <4>3, LaterSound
    <3>2. CASE ~Sees(T, p + 2, "=")
      <4>1. p + 2 \in AtLeast("sequence", p)..(Len(T) + 1)
        BY <1>0, <2>1 DEF AtLeast, OnwardRules
      <4> QED BY <3>2, <4>1, DoneSound
    <3> QED BY <3>1, <3>2
  <2> HIDE DEF init, name
  <2>4. CASE ~init.ok
    BY <2>2, <2>3, <2>4 DEF Initialised
  <2>5. CASE init.ok /\ Sees(T, init.pos, ",")
    <3>1. init.depth = d
      BY <2>3, <2>5 DEF Sound
    <3>2. Declaration(T, p, d) = Threw(d)
      BY <2>2, <2>5, <3>1 DEF Initialised
    <3> QED BY <3>2, ThrewSound
  <2>6. CASE init.ok /\ ~Sees(T, init.pos, ",")
    <3>1. Declaration(T, p, d) = Then(init, node)
      BY <2>2, <2>6 DEF Initialised
    <3> QED BY <2>3, <3>1, ThenSound
  <2> QED BY <2>4, <2>5, <2>6
<1> QED BY <1>1, <1>2

LEMMA StatementSound ==
    ASSUME NEW T, Listed(T), NEW p \in 1..Len(T), NEW d \in Nat
    PROVE  Sound(T, "sequence", p, d, Statement(T, p, d))
<1> DEFINE keyword == Tok(T, p).type = "keyword" /\ \E k \in StatementKeywords : Sees(T, p, k)
           r == IF keyword /\ Sees(T, p, "const") THEN Declaration(T, p, d)
                ELSE IF keyword THEN Threw(d)
                ELSE IsExpression(Parse("sequence", T, p, d))
<1>0. Len(T) \in Nat /\ p \in Nat /\ p \in 1..(Len(T) + 1) /\ "sequence" \in Rules
  BY TakingNames DEF Listed
<1>1. Statement(T, p, d) = Terminated(T, r)
  BY DEF Statement
<1>2. Sound(T, "sequence", p, d, r)
  <2>1. CASE keyword /\ Sees(T, p, "const")
    BY <2>1, DeclarationSound
  <2>2. CASE keyword /\ ~Sees(T, p, "const")
    BY <2>2, ThrewSound
  <2>3. CASE ~keyword
    <3> DEFINE parsed == Parse("sequence", T, p, d)
    <3>1. Sound(T, "sequence", p, d, parsed)
      BY <1>0, ParserSound
    <3>2. r = IsExpression(parsed)
      BY <2>3
    <3> HIDE DEF parsed, r
    <3> QED BY <3>1, <3>2, ThenSound DEF IsExpression
  <2> QED BY <2>1, <2>2, <2>3
<1> HIDE DEF r
<1>3. CASE r.ok /\ Sees(T, r.pos, ";")
  <2>1. r.pos \in 1..Len(T)
    BY <1>3, SeesInside
  <2>2. r.depth = d /\ r.pos >= p + 1
    <3>1. r.ok
      BY <1>3
    <3>2. r.depth = d
      BY <1>2, <3>1 DEF Sound
    <3>3. "sequence" \notin OnwardRules
      BY TakingNames
    <3> QED BY <1>0, <1>2, <3>1, <3>2, <3>3, ReturnIs
  <2>3. r.pos + 1 \in AtLeast("sequence", p)..(Len(T) + 1)
    BY <1>0, <2>1, <2>2 DEF AtLeast, OnwardRules
  <2>4. Statement(T, p, d) = Done(r.pos + 1, d, r.node)
    BY <1>1, <1>3, <2>2 DEF Terminated, Passing
  <2> QED BY <2>3, <2>4, DoneSound
<1>4. CASE ~(r.ok /\ Sees(T, r.pos, ";"))
  BY <1>1, <1>2, <1>4 DEF Terminated
<1> QED BY <1>3, <1>4

(* Recovery moves on, within the tokens.                                    *)
LEMMA RecoveryMoves ==
    ASSUME NEW T, Listed(T), NEW p \in 1..Len(T)
    PROVE  SkipToStatementBoundary(T, p) \in (p + 1)..(Len(T) + 1)
<1> DEFINE S == {Len(T)} \cup Stops(T, p)
<1>1. Len(T) \in Nat /\ S \subseteq p..Len(T) /\ S # {} /\ p \in Nat
  <2>1. Len(T) \in Nat /\ p \in Nat /\ Len(T) \in p..Len(T)
    BY DEF Listed
  <2>2. Stops(T, p) \subseteq p..Len(T)
    BY Zenon DEF Stops
  <2> QED BY <2>1, <2>2
<1>2. Min(S) \in S
  <2> HIDE DEF S
  <2>1. S \in SUBSET Nat
    BY <1>1
  <2>2. PICK m \in S : \A k \in S : m <= k
    BY <1>1, <2>1, LeastNatural
  <2> QED BY <2>2 DEF Min
<1>3. SkipToStatementBoundary(T, p) = Min(S) + 1
  BY DEF SkipToStatementBoundary
<1> HIDE DEF S
<1>4. Min(S) \in p..Len(T)
  BY <1>1, <1>2
<1> QED BY <1>1, <1>3, <1>4

-----------------------------------------------------------------------------
(* The tokenizer. *)

(* The tokens a text can give.                                              *)
Words(s) == {Token("string", SubSeq(s, i, j)) : i, j \in Int}
            \cup {Token(TypeOf(s[i]), Spelling(s[i])) : i \in 1..Len(s)}
Past(s, i, cell) == Min({Len(s) + 1} \cup {j \in (i + 1)..Len(s) : s[j] = cell})
Reading(s, from, i) ==
  IF i = Len(s) + 1 \/ s[i] = "@" THEN <<>>
  ELSE IF s[i] \in {" ", "\n"} THEN from[i + 1]
  ELSE IF s[i] = "//" THEN from[Past(s, i, "\n")]
  ELSE IF s[i] = "/*" THEN IF Past(s, i, "*/") = Len(s) + 1 THEN <<>> ELSE from[Past(s, i, "*/") + 1]
  ELSE IF s[i] = "'"
    THEN IF Past(s, i, "'") = Len(s) + 1 \/ Past(s, i, "\n") < Past(s, i, "'") THEN <<>>
         ELSE <<Token("string", SubSeq(s, i + 1, Past(s, i, "'") - 1))>> \o from[Past(s, i, "'") + 1]
  ELSE <<Token(TypeOf(s[i]), Spelling(s[i]))>> \o from[i + 1]

LEMMA PastFound ==
    ASSUME NEW s, Len(s) \in Nat, NEW i \in 1..Len(s), NEW cell
    PROVE  Past(s, i, cell) \in (i + 1)..(Len(s) + 1)
<1> DEFINE S == {Len(s) + 1} \cup {j \in (i + 1)..Len(s) : s[j] = cell}
<1>1. S \subseteq (i + 1)..(Len(s) + 1) /\ S \in SUBSET Nat /\ S # {}
  OBVIOUS
<1> HIDE DEF S
<1>2. Min(S) \in S
  BY <1>1, MinIs
<1> QED BY <1>1, <1>2 DEF Past, S

LEMMA OneMore ==
    ASSUME NEW S, NEW t \in S, NEW u \in Seq(S)
    PROVE  <<t>> \o u \in Seq(S)
<1>1. <<t>> \in Seq(S)
  OBVIOUS
<1> QED BY <1>1, ConcatProperties

(* The tokens from a place depend on those from later places alone.         *)
LEMMA ReadingSound ==
    ASSUME NEW s, Len(s) \in Nat, NEW f, NEW g, NEW i \in 1..(Len(s) + 1),
           \A j \in (i + 1)..(Len(s) + 1) : g[j] = f[j] /\ f[j] \in Seq(Words(s))
    PROVE  Reading(s, g, i) = Reading(s, f, i) /\ Reading(s, f, i) \in Seq(Words(s))
<1> DEFINE W == Words(s)
<1>0. <<>> \in Seq(W)
  OBVIOUS
<1>1. CASE i = Len(s) + 1 \/ s[i] = "@"
  BY <1>0, <1>1 DEF Reading
<1> SUFFICES ASSUME i # Len(s) + 1, s[i] # "@"
             PROVE  Reading(s, g, i) = Reading(s, f, i) /\ Reading(s, f, i) \in Seq(W)
  BY <1>1
<1>2. i \in 1..Len(s) /\ i + 1 \in (i + 1)..(Len(s) + 1)
  OBVIOUS
<1>3. \A cell : /\ Past(s, i, cell) \in (i + 1)..(Len(s) + 1)
                /\ Past(s, i, cell) # Len(s) + 1 => Past(s, i, cell) + 1 \in (i + 1)..(Len(s) + 1)
  <2> TAKE cell
  <2> DEFINE q == Past(s, i, cell)
  <2>1. q \in (i + 1)..(Len(s) + 1)
    BY <1>2, PastFound
  <2> HIDE DEF q
  <2>2. q # Len(s) + 1 => q + 1 \in (i + 1)..(Len(s) + 1)
    BY <2>1
  <2> QED BY <2>1, <2>2 DEF q
<1>4. CASE s[i] \in {" ", "\n"}
  <2>1. Reading(s, f, i) = f[i + 1] /\ Reading(s, g, i) = g[i + 1]
    BY <1>4 DEF Reading
  <2> QED BY <1>2, <2>1
<1>5. CASE s[i] = "//"
  <2>1. Reading(s, f, i) = f[Past(s, i, "\n")] /\ Reading(s, g, i) = g[Past(s, i, "\n")]
    BY <1>5 DEF Reading
  <2> QED BY <1>3, <2>1
<1>6. CASE s[i] = "/*"
  <2> DEFINE q == Past(s, i, "*/")
  <2>1. CASE q = Len(s) + 1
    BY <1>0, <1>6, <2>1 DEF Reading
  <2>2. CASE q # Len(s) + 1
    <3>1. Reading(s, f, i) = f[q + 1] /\ Reading(s, g, i) = g[q + 1]
      BY <1>6, <2>2 DEF Reading
    <3> QED BY <1>3, <2>2, <3>1
  <2> QED BY <2>1, <2>2
<1>7. CASE s[i] = "'"
  <2> DEFINE q == Past(s, i, "'")
             t == Token("string", SubSeq(s, i + 1, q - 1))
  <2>1. CASE q = Len(s) + 1 \/ Past(s, i, "\n") < q
    BY <1>0, <1>7, <2>1 DEF Reading
  <2>2. CASE ~(q = Len(s) + 1 \/ Past(s, i, "\n") < q)
    <3>1. Reading(s, f, i) = <<t>> \o f[q + 1] /\ Reading(s, g, i) = <<t>> \o g[q + 1]
      BY <1>7, <2>2 DEF Reading
    <3>2. g[q + 1] = f[q + 1] /\ f[q + 1] \in Seq(W)
      BY <1>3, <2>2
    <3>3. i + 1 \in Int /\ q - 1 \in Int
      BY <1>3
    <3>4. t \in W
      BY <3>3 DEF Words
    <3> QED BY <3>1, <3>2, <3>4, OneMore
  <2> QED BY <2>1, <2>2
<1>8. CASE s[i] \notin {" ", "\n", "//", "/*", "'"}
  <2> DEFINE t == Token(TypeOf(s[i]), Spelling(s[i]))
  <2>1. Reading(s, f, i) = <<t>> \o f[i + 1] /\ Reading(s, g, i) = <<t>> \o g[i + 1]
    BY <1>8 DEF Reading
  <2>2. g[i + 1] = f[i + 1] /\ f[i + 1] \in Seq(W)
    BY <1>2
  <2>3. t \in W
    BY <1>2 DEF Words
  <2> QED BY <2>1, <2>2, <2>3, OneMore
<1> QED BY <1>4, <1>5, <1>6, <1>7, <1>8

ReadFrom(s, f, n) == \A i \in 1..(Len(s) + 1) : Len(s) + 1 - i < n
                       => f[i] = Reading(s, f, i) /\ f[i] \in Seq(Words(s))

(* The tokenizer's recursion has a solution, in the tokens of the text.     *)
LEMMA TokensExist ==
    ASSUME NEW s, Len(s) \in Nat
    PROVE  \E f : f = [i \in 1..(Len(s) + 1) |-> Reading(s, f, i)]
<1> DEFINE past == Len(s) + 1
           Levels == {n \in Nat : \E f : f = [i \in 1..past |-> f[i]] /\ ReadFrom(s, f, n)}
<1>1. 0 \in Levels
  <2>1. \A i \in 1..past : ~(past - i < 0)
    OBVIOUS
  <2>2. ReadFrom(s, [i \in 1..past |-> 0], 0)
    BY <2>1 DEF ReadFrom
  <2> QED BY <2>2
<1>2. ASSUME NEW n \in Nat, n \in Levels PROVE n + 1 \in Levels
  <2>1. PICK f : f = [i \in 1..past |-> f[i]] /\ ReadFrom(s, f, n)
    BY <1>2
  <2> DEFINE g == [i \in 1..past |-> IF past - i < n THEN f[i] ELSE Reading(s, f, i)]
  <2>2. \A i \in 1..past : past - i < n => g[i] = f[i]
    OBVIOUS
  <2>3. \A i \in 1..past : ~(past - i < n) => g[i] = Reading(s, f, i)
    OBVIOUS
  <2>4. g = [i \in 1..past |-> g[i]]
    OBVIOUS
  <2> HIDE DEF g
  <2>5. \A k \in 1..past : past - k < n => f[k] \in Seq(Words(s))
    <3>1. ReadFrom(s, f, n)
      BY <2>1
    <3> QED BY <3>1 DEF ReadFrom
  <2>6. ASSUME NEW i \in 1..past, past - i < n + 1
        PROVE  g[i] = Reading(s, g, i) /\ g[i] \in Seq(Words(s))
    <3>1. ASSUME NEW j \in (i + 1)..past PROVE g[j] = f[j] /\ f[j] \in Seq(Words(s))
      <4>1. j \in 1..past /\ past - j < n
        BY <2>6
      <4>2. f[j] \in Seq(Words(s))
        BY <2>5, <4>1
      <4> QED BY <2>2, <4>1, <4>2
    <3>2. Reading(s, g, i) = Reading(s, f, i) /\ Reading(s, f, i) \in Seq(Words(s))
      BY <3>1, ReadingSound
    <3>3. g[i] = Reading(s, f, i)
      BY <2>1, <2>2, <2>3 DEF ReadFrom
    <3> QED BY <3>2, <3>3
  <2>7. ReadFrom(s, g, n + 1)
    BY <2>6 DEF ReadFrom
  <2> QED BY <2>4, <2>7
<1>3. \A n \in Nat : n \in Levels
  <2> HIDE DEF Levels
  <2> QED BY <1>1, <1>2, SetInduction
<1>4. past + 1 \in Nat
  OBVIOUS
<1>5. PICK f : f = [i \in 1..past |-> f[i]] /\ ReadFrom(s, f, past + 1)
  BY <1>3, <1>4
<1>6. \A i \in 1..past : past - i < past + 1
  OBVIOUS
<1>7. \A i \in 1..past : f[i] = Reading(s, f, i)
  BY <1>5, <1>6 DEF ReadFrom
<1>8. [i \in 1..past |-> f[i]] = [i \in 1..past |-> Reading(s, f, i)]
  BY <1>7
<1> QED BY <1>5, <1>8

LEMMA TokensRead ==
    ASSUME NEW s, Len(s) \in Nat
    PROVE  TokensFrom(s) = [i \in 1..(Len(s) + 1) |-> Reading(s, TokensFrom(s), i)]
<1> DEFINE past == Len(s) + 1
           next(i, cell) == Min({past} \cup {j \in (i + 1)..Len(s) : s[j] = cell})
           read(from, i) ==
             IF i = past \/ s[i] = "@" THEN <<>>
             ELSE IF s[i] \in {" ", "\n"} THEN from[i + 1]
             ELSE IF s[i] = "//" THEN from[next(i, "\n")]
             ELSE IF s[i] = "/*" THEN IF next(i, "*/") = past THEN <<>> ELSE from[next(i, "*/") + 1]
             ELSE IF s[i] = "'"
               THEN IF next(i, "'") = past \/ next(i, "\n") < next(i, "'") THEN <<>>
                    ELSE <<Token("string", SubSeq(s, i + 1, next(i, "'") - 1))>> \o from[next(i, "'") + 1]
             ELSE <<Token(TypeOf(s[i]), Spelling(s[i]))>> \o from[i + 1]
           Solves(f) == f = [i \in 1..past |-> read(f, i)]
           tokens == CHOOSE f : Solves(f)
<1>1. \A from, i : read(from, i) = Reading(s, from, i)
  BY Zenon DEF Reading, Past
<1>2. TokensFrom(s) = tokens
  BY Zenon DEF TokensFrom
<1> HIDE DEF read
<1>3. \A f : Solves(f) <=> f = [i \in 1..past |-> Reading(s, f, i)]
  BY <1>1
<1>4. \E f : Solves(f)
  BY <1>3, TokensExist
<1>5. Solves(tokens)
  <2> HIDE DEF Solves
  <2> QED BY <1>4
<1> QED BY <1>2, <1>3, <1>5

LEMMA TokenizeType ==
    ASSUME NEW s, Len(s) \in Nat
    PROVE  Tokenize(s) \in Seq(Words(s)) /\ Listed(Tokenize(s))
<1> DEFINE past == Len(s) + 1
           f == TokensFrom(s)
           Levels == {n \in Nat : ReadFrom(s, f, n)}
<1>1. f = [i \in 1..past |-> Reading(s, f, i)]
  BY TokensRead
<1> HIDE DEF f
<1>2. \A i \in 1..past : f[i] = Reading(s, f, i)
  BY <1>1
<1>3. 0 \in Levels
  <2>1. \A i \in 1..past : ~(past - i < 0)
    OBVIOUS
  <2> QED BY <2>1 DEF ReadFrom
<1>4. ASSUME NEW n \in Nat, n \in Levels PROVE n + 1 \in Levels
  <2>1. ReadFrom(s, f, n)
    BY <1>4
  <2>2. ASSUME NEW i \in 1..past, past - i < n + 1
        PROVE  f[i] \in Seq(Words(s))
    <3>1. ASSUME NEW j \in (i + 1)..past PROVE f[j] \in Seq(Words(s))
      <4>1. j \in 1..past /\ past - j < n
        BY <2>2
      <4> QED BY <2>1, <4>1 DEF ReadFrom
    <3>2. Reading(s, f, i) \in Seq(Words(s))
      BY <3>1, ReadingSound
    <3> QED BY <1>2, <3>2
  <2> QED BY <1>2, <2>2 DEF ReadFrom
<1>5. \A n \in Nat : n \in Levels
  <2> HIDE DEF Levels
  <2> QED BY <1>3, <1>4, SetInduction
<1>6. ReadFrom(s, f, past + 1) /\ 1 \in 1..past /\ past - 1 < past + 1
  BY <1>5
<1>7. f[1] \in Seq(Words(s))
  BY <1>6 DEF ReadFrom
<1>8. Tokenize(s) = f[1]
  BY DEF Tokenize, f
<1>9. ASSUME NEW S, NEW T \in Seq(S) PROVE Listed(T)
  BY DEF Listed
<1> QED BY <1>7, <1>8, <1>9

-----------------------------------------------------------------------------
(* The detector is a verdict over a scan. *)

LEMMA VerdictStepScans ==
    ASSUME [VerdictNext]_<<queueVars, verdictVars>>
    PROVE  [QueueNext]_queueVars
<1>1. CASE AstOn
  BY <1>1 DEF AstOn, QueueNext
<1>2. CASE MatchText \/ AstOff \/ TakeFindings \/ Behave \/ Decide
  BY <1>2 DEF MatchText, AstOff, TakeFindings, Behave, Decide
<1>3. CASE QueueStep
  BY <1>3 DEF QueueNext
<1>4. CASE UNCHANGED <<queueVars, verdictVars>>
  BY <1>4
<1> QED BY <1>1, <1>2, <1>3, <1>4 DEF VerdictNext, Judge

(* A verdict is judged over a scan that keeps to its queue and its budgets: *)
(* what a pass of the verdict does to the scan is a step of the scan, or    *)
(* nothing.                                                                 *)
THEOREM VerdictScans == VerdictSpec => QueueSpec
BY VerdictStepScans, PTL DEF VerdictSpec, QueueSpec

LEMMA AstStepScans ==
    ASSUME AstStep
    PROVE  QueueStep \/ UNCHANGED queueVars
<1>1. CASE PassOverSpan
  BY <1>1 DEF PassOverSpan, QueueStep
<1>2. CASE OpenSpan
  <2>1. PICK large \in BOOLEAN : TakeUp(large)
    <3> DEFINE tokens == Tokenize(SubSeq(source, Head(queue.todo).start, Head(queue.todo).end - 1))
    <3>1. TakeUp(TooLarge(tokens))
      BY <1>2 DEF OpenSpan
    <3>2. TooLarge(tokens) \in BOOLEAN
      BY DEF TooLarge
    <3> QED BY <3>1, <3>2
  <2> QED BY <2>1 DEF QueueStep
<1>3. CASE ParseStatement \/ Recover
  BY <1>3 DEF ParseStatement, Recover
<1>4. CASE AnalyzeStatement
  BY <1>4 DEF AnalyzeStatement, QueueStep, Inside
<1>5. CASE CloseSpan
  BY <1>5 DEF CloseSpan, QueueStep
<1>6. CASE EndScan
  BY <1>6 DEF EndScan, QueueStep
<1> QED BY <1>1, <1>2, <1>3, <1>4, <1>5, <1>6 DEF AstStep

LEMMA DetectorStepJudges ==
    ASSUME [Next]_vars
    PROVE  [VerdictNext]_<<queueVars, verdictVars>>
<1>1. CASE Judge
  BY <1>1 DEF VerdictNext
<1>2. CASE Scan
  BY <1>2, AstStepScans DEF Scan, VerdictNext
<1>3. CASE UNCHANGED vars
  BY <1>3 DEF vars, scanVars
<1> QED BY <1>1, <1>2, <1>3 DEF Next, Returned

(* scanModuleSync with the AST scanner, its parser and its recovery         *)
(* implements the verdict over any scan: whatever is read, thrown or        *)
(* folded inside a span neither takes up nor drops a span, nor touches      *)
(* detections or settings.                                                  *)
THEOREM DetectorImplementsVerdict == Spec => VerdictSpec
<1>1. Init => QueueInit /\ VerdictInit
  BY DEF Init, ScanInit
<1> QED BY <1>1, DetectorStepJudges, PTL DEF Spec, VerdictSpec

(* So the detector that runs the parser looks at every hit of high risk too *)
(* before it calls a scan complete.                                         *)
THEOREM DetectorLooksAtHighRisk == Spec => []HighRiskLookedAt
BY DetectorImplementsVerdict, VerdictScans, HighRiskLookedAtHolds, PTL

(* And its verdict enforces on what its passes found and on nothing else,   *)
(* whatever the parser could not read.                                      *)
THEOREM DetectorEnforcesExactly == Spec => []EnforcesExactly
BY DetectorImplementsVerdict, EnforcesExactlyHolds, PTL

-----------------------------------------------------------------------------
(* The span being parsed. *)

IsSequence(s) == \E X : s \in Seq(X)
SpanType ==
  /\ span = [start |-> span.start, tokens |-> span.tokens, pos |-> span.pos, depth |-> span.depth,
             statements |-> span.statements, bindings |-> span.bindings]
  /\ Listed(span.tokens)
  /\ span.pos \in 1..(Len(span.tokens) + 1)
  /\ span.depth \in Depths
  /\ IsSequence(span.statements)

LEMMA DepthsNatural == Depths \subseteq Nat /\ 0 \in Depths
BY ParserAssumption DEF Depths

LEMMA NoSpanType == NoSpan = [start |-> 0, tokens |-> <<>>, pos |-> 1, depth |-> 0,
                              statements |-> <<>>, bindings |-> <<>>]
                    /\ Listed(<<>>) /\ IsSequence(<<>>)
<1>1. <<>> \in Seq({})
  OBVIOUS
<1> QED BY <1>1 DEF NoSpan, Listed, IsSequence

LEMMA SpanStarts == Init => SpanType
<1> SUFFICES ASSUME Init PROVE SpanType
  OBVIOUS
<1>1. span = NoSpan
  BY DEF Init, ScanInit
<1> QED BY <1>1, NoSpanType, DepthsNatural DEF SpanType

(* The statement at hand, in a state where the parser has one.              *)
LEMMA StatementAtHand ==
    ASSUME SpanType, Parsing
    PROVE  /\ span.pos \in 1..Len(span.tokens) /\ span.depth \in Nat /\ Len(span.tokens) \in Nat
           /\ Sound(span.tokens, "sequence", span.pos, span.depth,
                    Statement(span.tokens, span.pos, span.depth))
<1>1. Listed(span.tokens) /\ Len(span.tokens) \in Nat
  BY DEF SpanType, Listed
<1>2. span.pos \in 1..Len(span.tokens)
  BY <1>1 DEF SpanType, Parsing
<1>3. span.depth \in Nat
  BY DepthsNatural DEF SpanType
<1> QED BY <1>1, <1>2, <1>3, StatementSound

(* What a statement that parses leaves.                                     *)
LEMMA ParseLeaves ==
    ASSUME SpanType, ParseStatement
    PROVE  /\ SpanType' /\ span'.tokens = span.tokens /\ span'.depth = span.depth
           /\ span.pos \in 1..Len(span.tokens) /\ span'.pos > span.pos
<1> DEFINE s == Statement(span.tokens, span.pos, span.depth)
           T == span.tokens
<1>1. /\ Parsing /\ s.ok
      /\ span' = [span EXCEPT !.pos = s.pos, !.depth = s.depth, !.statements = Append(@, s.node)]
  BY DEF ParseStatement
<1>2. /\ span.pos \in 1..Len(T) /\ Len(T) \in Nat /\ Sound(T, "sequence", span.pos, span.depth, s)
      /\ Listed(T) /\ span.depth \in Nat
  BY <1>1, StatementAtHand DEF SpanType
<1> HIDE DEF s
<1>3. s.depth = span.depth
  BY <1>1, <1>2 DEF Sound
<1>4. s.pos \in 1..(Len(T) + 1) /\ s.pos > span.pos
  <2>1. s.ok /\ span.pos \in 1..(Len(T) + 1) /\ "sequence" \notin OnwardRules
    BY <1>1, <1>2, TakingNames
  <2> QED BY <1>2, <2>1, ReturnIs
<1>5. IsSequence(Append(span.statements, s.node))
  <2>1. PICK X : span.statements \in Seq(X)
    BY DEF SpanType, IsSequence
  <2>2. span.statements \in Seq(X \cup {s.node}) /\ s.node \in X \cup {s.node}
    BY <2>1
  <2> QED BY <2>2, AppendProperties DEF IsSequence
<1> DEFINE next == [start |-> span.start, tokens |-> T, pos |-> s.pos, depth |-> span.depth,
                    statements |-> Append(span.statements, s.node), bindings |-> span.bindings]
<1>6. span' = next
  BY <1>1, <1>3 DEF SpanType
<1>7. SpanType'
  BY <1>2, <1>4, <1>5, <1>6 DEF SpanType
<1> QED BY <1>2, <1>4, <1>6, <1>7

(* What a recovery leaves.                                                  *)
LEMMA RecoveryLeaves ==
    ASSUME SpanType, Recover
    PROVE  /\ SpanType' /\ span'.tokens = span.tokens /\ span'.statements = span.statements
           /\ span.pos \in 1..Len(span.tokens) /\ span'.pos > span.pos
<1> DEFINE s == Statement(span.tokens, span.pos, span.depth)
           T == span.tokens
           q == SkipToStatementBoundary(T, span.pos)
<1>1. /\ Parsing /\ ~s.ok
      /\ span' = [span EXCEPT !.pos = q, !.depth = s.depth]
  BY DEF Recover
<1>2. /\ span.pos \in 1..Len(T) /\ Len(T) \in Nat /\ Sound(T, "sequence", span.pos, span.depth, s)
      /\ Listed(T)
  BY <1>1, StatementAtHand DEF SpanType
<1>3. q \in (span.pos + 1)..(Len(T) + 1)
  BY <1>2, RecoveryMoves
<1> HIDE DEF s, q
<1>4. s.depth \in Depths
  BY <1>1, <1>2 DEF Sound
<1>5. q \in 1..(Len(T) + 1) /\ q > span.pos
  BY <1>2, <1>3
<1> DEFINE next == [start |-> span.start, tokens |-> T, pos |-> q, depth |-> s.depth,
                    statements |-> span.statements, bindings |-> span.bindings]
<1>6. span' = next
  BY <1>1 DEF SpanType
<1>7. SpanType'
  BY <1>2, <1>4, <1>5, <1>6 DEF SpanType
<1> QED BY <1>2, <1>5, <1>6, <1>7

LEMMA AnalysisLeaves ==
    ASSUME SpanType, AnalyzeStatement
    PROVE  /\ SpanType' /\ span'.tokens = span.tokens /\ span'.pos = span.pos
           /\ span'.depth = span.depth /\ Len(span.statements) \in Nat
           /\ Len(span'.statements) = Len(span.statements) - 1 /\ Len(span'.statements) \in Nat
<1>1. PICK bindings : span' = [span EXCEPT !.statements = Tail(@), !.bindings = bindings]
  BY DEF AnalyzeStatement
<1>2. span.statements # <<>>
  BY DEF AnalyzeStatement
<1>3. PICK X : span.statements \in Seq(X)
  BY DEF SpanType, IsSequence
<1>4. /\ Tail(span.statements) \in Seq(X) /\ Len(span.statements) \in Nat
      /\ Len(Tail(span.statements)) = Len(span.statements) - 1 /\ Len(Tail(span.statements)) \in Nat
  BY <1>2, <1>3, HeadTailProperties, LenProperties
<1>5. span' = [start |-> span.start, tokens |-> span.tokens, pos |-> span.pos, depth |-> span.depth,
               statements |-> Tail(span.statements), bindings |-> bindings]
  BY <1>1 DEF SpanType
<1>6. SpanType'
  BY <1>4, <1>5 DEF SpanType, IsSequence
<1> QED BY <1>4, <1>5, <1>6

LEMMA OpeningLeaves ==
    ASSUME QueueInv, OpenSpan
    PROVE  SpanType'
<1> DEFINE next == Head(queue.todo)
           text == SubSeq(source, next.start, next.end - 1)
           tokens == Tokenize(text)
<1>1. next \in SpanRec
  <2>1. queue.todo \in Seq(SpanRec) /\ queue.todo # <<>>
    BY DEF QueueInv, QueueType, OpenSpan
  <2> QED BY <2>1, HeadTailProperties
<1>2. Len(text) \in Nat
  <2>1. next.start \in Int /\ next.end - 1 \in Int
    BY <1>1 DEF SpanRec
  <2> DEFINE from == next.start
             to == next.end - 1
  <2> HIDE DEF next, from, to
  <2>2. Len(SubSeq(source, from, to)) = IF from <= to THEN to - from + 1 ELSE 0
    BY <2>1 DEF from, to, QueueInv
  <2> QED BY <2>1, <2>2 DEF from, to
<1>3. Listed(tokens)
  <2> HIDE DEF text
  <2> QED BY <1>2, TokenizeType
<1>4. span' = NoSpan \/ span' = [NoSpan EXCEPT !.start = next.start, !.tokens = tokens]
  BY DEF OpenSpan
<1>5. CASE span' = NoSpan
  BY <1>5, NoSpanType, DepthsNatural DEF SpanType
<1>6. CASE span' = [NoSpan EXCEPT !.start = next.start, !.tokens = tokens]
  <2> HIDE DEF tokens, next
  <2>1. span' = [start |-> next.start, tokens |-> tokens, pos |-> 1, depth |-> 0,
                 statements |-> <<>>, bindings |-> <<>>]
    BY <1>6, NoSpanType
  <2>2. 1 \in 1..(Len(tokens) + 1)
    BY <1>3 DEF Listed
  <2> QED BY <1>3, <2>1, <2>2, NoSpanType, DepthsNatural DEF SpanType
<1> QED BY <1>4, <1>5, <1>6

LEMMA SpanSteps == SpanType /\ QueueInv /\ [Next]_vars => SpanType'
<1> SUFFICES ASSUME SpanType, QueueInv, [Next]_vars PROVE SpanType'
  OBVIOUS
<1>1. CASE UNCHANGED span
  BY <1>1 DEF SpanType, IsSequence, Listed, Depths
<1>2. CASE CloseSpan
  BY <1>2, NoSpanType, DepthsNatural DEF CloseSpan, SpanType
<1>3. CASE ~(UNCHANGED span) /\ ~CloseSpan
  <2>1. Scan
    BY <1>3 DEF Next, Returned, vars, scanVars
  <2>2. OpenSpan \/ ParseStatement \/ Recover \/ AnalyzeStatement
    BY <1>3, <2>1 DEF Scan, AstStep, PassOverSpan, EndScan
  <2> QED BY <2>2, OpeningLeaves, ParseLeaves, RecoveryLeaves, AnalysisLeaves
<1> QED BY <1>1, <1>2, <1>3

(* parseProgram's place is among the tokens or just past them, whatever was *)
(* parsed or skipped, and the depth counter never leaves its bound by more  *)
(* than one, however many throws have left their levels in it.              *)
THEOREM SpanTypeHolds == Spec => []SpanType
<1>1. Spec => []QueueInv
  BY DetectorImplementsVerdict, VerdictScans, QueueAccounted, PTL
<1> QED BY <1>1, SpanStarts, SpanSteps, PTL DEF Spec

-----------------------------------------------------------------------------
(* Every step comes closer to the verdict. *)

Ranks == [text |-> 5, ast |-> 4, scan |-> 3, behavior |-> 2, decide |-> 1, done |-> 0]
Stages == [idle |-> 3, inside |-> 2, spans |-> 1, scanned |-> 0]
ToRead == Len(span.tokens) + 1 - span.pos
ToJudge == Ranks[pc]
ToScan == Len(queue.todo)
ToLeave == Stages[queue.at]
ToAnalyze == Len(span.statements)

(* What is left to do, as five counts, the first counting most: passes of   *)
(* the verdict, spans in the queue, ways out of the span, tokens of the     *)
(* span, statements to analyze.                                             *)
Counted == /\ pc \in DOMAIN Ranks
           /\ ToJudge \in Nat /\ ToScan \in Nat /\ ToLeave \in Nat /\ ToRead \in Nat
           /\ ToAnalyze \in Nat
Descends ==
  \/ ToJudge' < ToJudge
  \/ /\ ToJudge' = ToJudge
     /\ \/ ToScan' < ToScan
        \/ /\ ToScan' = ToScan
           /\ \/ ToLeave' < ToLeave
              \/ /\ ToLeave' = ToLeave
                 /\ \/ ToRead' < ToRead
                    \/ ToRead' = ToRead /\ ToAnalyze' < ToAnalyze

Phases == pc \in DOMAIN Ranks

LEMMA RanksAre ==
    /\ DOMAIN Ranks = {"text", "ast", "scan", "behavior", "decide", "done"}
    /\ Ranks["text"] = 5 /\ Ranks["ast"] = 4 /\ Ranks["scan"] = 3 /\ Ranks["behavior"] = 2
    /\ Ranks["decide"] = 1 /\ Ranks["done"] = 0
    /\ Stages["idle"] = 3 /\ Stages["inside"] = 2 /\ Stages["spans"] = 1 /\ Stages["scanned"] = 0
BY DEF Ranks, Stages

LEMMA PhaseStarts == Init => Phases
BY RanksAre DEF Init, VerdictInit, Phases

LEMMA PhaseSteps == Phases /\ [Next]_vars => Phases'
<1> SUFFICES ASSUME Phases, [Next]_vars PROVE Phases'
  OBVIOUS
<1>1. CASE pc' = pc
  BY <1>1 DEF Phases
<1>2. CASE Judge
  BY <1>2, RanksAre DEF Judge, MatchText, AstOff, AstOn, TakeFindings, Behave, Decide, Phases
<1>3. CASE Scan
  BY <1>3, <1>1 DEF Scan, verdictVars
<1>4. CASE UNCHANGED vars
  BY <1>4, <1>1 DEF vars, verdictVars
<1> QED BY <1>2, <1>3, <1>4 DEF Next, Returned

LEMMA JudgingDescends ==
    ASSUME Judge
    PROVE  Descends
<1>1. CASE MatchText
  BY <1>1, RanksAre DEF MatchText, Descends, ToJudge
<1>2. CASE AstOff
  BY <1>2, RanksAre DEF AstOff, Descends, ToJudge
<1>3. CASE AstOn
  BY <1>3, RanksAre DEF AstOn, Descends, ToJudge
<1>4. CASE TakeFindings
  BY <1>4, RanksAre DEF TakeFindings, Descends, ToJudge
<1>5. CASE Behave
  BY <1>5, RanksAre DEF Behave, Descends, ToJudge
<1>6. CASE Decide
  BY <1>6, RanksAre DEF Decide, Descends, ToJudge
<1> QED BY <1>1, <1>2, <1>3, <1>4, <1>5, <1>6 DEF Judge

\* Steps of the queue.
LEMMA QueueDescends ==
    ASSUME QueueInv
    PROVE  /\ PassOver => ToScan' < ToScan
           /\ \A dropped : TakeUp(dropped) => ToScan' < ToScan
           /\ Leave => ToScan' = ToScan /\ ToLeave' < ToLeave
           /\ Finish => ToScan' = ToScan /\ ToLeave' < ToLeave
<1>1. /\ queue.todo \in Seq(SpanRec)
      /\ queue = [at |-> queue.at, todo |-> queue.todo, high |-> queue.high, low |-> queue.low,
                  highSpans |-> queue.highSpans, looked |-> queue.looked,
                  incomplete |-> queue.incomplete]
  BY DEF QueueInv, QueueType
<1>2. queue.todo # <<>> => Len(Tail(queue.todo)) < Len(queue.todo)
  <2> SUFFICES ASSUME queue.todo # <<>> PROVE Len(Tail(queue.todo)) < Len(queue.todo)
    OBVIOUS
  <2>1. Len(Tail(queue.todo)) = Len(queue.todo) - 1 /\ Len(queue.todo) \in Nat
    BY <1>1, HeadTailProperties, LenProperties
  <2> QED BY <2>1
<1>3. PassOver => ToScan' < ToScan
  <2> SUFFICES ASSUME PassOver PROVE ToScan' < ToScan
    OBVIOUS
  <2>1. queue.todo # <<>> /\ queue'.todo = Tail(queue.todo)
    BY <1>1 DEF PassOver
  <2> QED BY <1>2, <2>1 DEF ToScan
<1>4. \A dropped : TakeUp(dropped) => ToScan' < ToScan
  <2> SUFFICES ASSUME NEW dropped, TakeUp(dropped) PROVE ToScan' < ToScan
    OBVIOUS
  <2>1. queue.todo # <<>> /\ queue'.todo = Tail(queue.todo)
    BY <1>1 DEF TakeUp
  <2> QED BY <1>2, <2>1 DEF ToScan
<1>5. Leave => ToScan' = ToScan /\ ToLeave' < ToLeave
  <2> SUFFICES ASSUME Leave PROVE ToScan' = ToScan /\ ToLeave' < ToLeave
    OBVIOUS
  <2>1. queue.at = "inside" /\ queue'.at = "spans" /\ queue'.todo = queue.todo
    BY <1>1 DEF Leave
  <2> QED BY <2>1, RanksAre DEF ToScan, ToLeave
<1>6. Finish => ToScan' = ToScan /\ ToLeave' < ToLeave
  <2> SUFFICES ASSUME Finish PROVE ToScan' = ToScan /\ ToLeave' < ToLeave
    OBVIOUS
  <2>1. queue.at = "spans" /\ queue'.at = "scanned" /\ queue'.todo = queue.todo
    BY <1>1 DEF Finish
  <2> QED BY <2>1, RanksAre DEF ToScan, ToLeave
<1> QED BY <1>3, <1>4, <1>5, <1>6

LEMMA ScanningDescends ==
    ASSUME SpanType, QueueInv, Scan
    PROVE  Descends
<1>0. ToJudge' = ToJudge
  BY DEF Scan, verdictVars, ToJudge
<1>1. CASE PassOverSpan
  BY <1>0, <1>1, QueueDescends DEF PassOverSpan, Descends
<1>2. CASE OpenSpan
  <2>1. PICK dropped : TakeUp(dropped)
    BY <1>2 DEF OpenSpan
  <2> QED BY <1>0, <2>1, QueueDescends DEF Descends
<1> DEFINE Within == ToScan' = ToScan /\ ToLeave' = ToLeave
<1>3. CASE ParseStatement
  <2>1. Within
    BY <1>3 DEF ParseStatement, queueVars, ToScan, ToLeave
  <2>2. /\ SpanType' /\ span'.tokens = span.tokens
        /\ span.pos \in 1..Len(span.tokens) /\ span'.pos > span.pos
    BY <1>3, ParseLeaves
  <2>3. Len(span.tokens) \in Nat /\ span'.pos \in 1..(Len(span.tokens) + 1)
    BY <2>2 DEF SpanType, Listed
  <2>4. ToRead' < ToRead
    BY <2>2, <2>3 DEF ToRead
  <2> QED BY <1>0, <2>1, <2>4 DEF Descends
<1>4. CASE Recover
  <2>1. Within
    BY <1>4 DEF Recover, queueVars, ToScan, ToLeave
  <2>2. /\ SpanType' /\ span'.tokens = span.tokens
        /\ span.pos \in 1..Len(span.tokens) /\ span'.pos > span.pos
    BY <1>4, RecoveryLeaves
  <2>3. Len(span.tokens) \in Nat /\ span'.pos \in 1..(Len(span.tokens) + 1)
    BY <2>2 DEF SpanType, Listed
  <2>4. ToRead' < ToRead
    BY <2>2, <2>3 DEF ToRead
  <2> QED BY <1>0, <2>1, <2>4 DEF Descends
<1>5. CASE AnalyzeStatement
  <2>1. Within
    BY <1>5 DEF AnalyzeStatement, ToScan, ToLeave
  <2>2. /\ span'.tokens = span.tokens /\ span'.pos = span.pos
        /\ Len(span.statements) \in Nat /\ Len(span'.statements) = Len(span.statements) - 1
    BY <1>5, AnalysisLeaves
  <2>3. ToRead' = ToRead /\ ToAnalyze' < ToAnalyze
    BY <2>2 DEF ToRead, ToAnalyze
  <2> QED BY <1>0, <2>1, <2>3 DEF Descends
<1>6. CASE CloseSpan
  BY <1>0, <1>6, QueueDescends DEF CloseSpan, Descends
<1>7. CASE EndScan
  BY <1>0, <1>7, QueueDescends DEF EndScan, Descends
<1> QED BY <1>1, <1>2, <1>3, <1>4, <1>5, <1>6, <1>7 DEF Scan, AstStep

LEMMA CountsAreNatural ==
    ASSUME SpanType, QueueInv, Phases
    PROVE  Counted
<1>1. pc \in DOMAIN Ranks /\ ToJudge \in Nat
  BY RanksAre DEF Phases, ToJudge
<1>2. ToScan \in Nat
  <2>1. queue.todo \in Seq(SpanRec)
    BY DEF QueueInv, QueueType
  <2> QED BY <2>1, LenProperties DEF ToScan
<1>3. ToLeave \in Nat
  <2>1. queue.at \in {"idle", "spans", "inside", "scanned"}
    BY DEF QueueInv, QueueType
  <2> QED BY <2>1, RanksAre DEF ToLeave
<1>4. ToRead \in Nat
  BY DEF SpanType, Listed, ToRead
<1>5. ToAnalyze \in Nat
  <2>1. PICK X : span.statements \in Seq(X)
    BY DEF SpanType, IsSequence
  <2> QED BY <2>1, LenProperties DEF ToAnalyze
<1> QED BY <1>1, <1>2, <1>3, <1>4, <1>5 DEF Counted

(* Every step of a screening lowers, in lexical order, counts that are      *)
(* naturals, so that no screening has infinitely many: a statement that     *)
(* parses and a recovery that skips each take a token at least, whatever is *)
(* in the text.                                                             *)
THEOREM ScreeningDescends == Spec => []Counted /\ [][Descends]_vars
<1>1. Spec => []QueueInv
  BY DetectorImplementsVerdict, VerdictScans, QueueAccounted, PTL
<1>2. Spec => []Phases
  BY PhaseStarts, PhaseSteps, PTL DEF Spec
<1>3. SpanType /\ QueueInv /\ [Next]_vars => [Descends]_vars
  BY JudgingDescends, ScanningDescends DEF Next, Returned
<1>4. SpanType /\ QueueInv /\ Phases => Counted
  BY CountsAreNatural
<1> QED BY <1>1, <1>2, <1>3, <1>4, SpanTypeHolds, PTL DEF Spec

(* Within a span only a statement that throws moves the depth counter: one  *)
(* that parses gives back every level that guardDepth counted for it, and   *)
(* the analysis takes none.                                                 *)
CounterKept == queue.at = "inside" /\ queue'.at = "inside" /\ span'.depth # span.depth => Recover

THEOREM OnlyThrowsLeak == Spec => [][CounterKept]_vars
<1>1. ASSUME SpanType, QueueInv, [Next]_vars PROVE [CounterKept]_vars
  <2> SUFFICES ASSUME queue.at = "inside", queue'.at = "inside", span'.depth # span.depth
               PROVE  Recover
    BY DEF CounterKept
  <2>1. Scan
    BY <1>1 DEF Next, Returned, vars, scanVars
  <2>2. CASE ParseStatement
    BY <1>1, <2>2, ParseLeaves
  <2>3. CASE AnalyzeStatement
    BY <1>1, <2>3, AnalysisLeaves
  <2>4. queue = [at |-> queue.at, todo |-> queue.todo, high |-> queue.high, low |-> queue.low,
                 highSpans |-> queue.highSpans, looked |-> queue.looked,
                 incomplete |-> queue.incomplete]
    BY <1>1 DEF QueueInv, QueueType
  <2>5. ~PassOverSpan /\ ~OpenSpan /\ ~CloseSpan /\ ~EndScan
    BY <2>4 DEF PassOverSpan, PassOver, OpenSpan, TakeUp, CloseSpan, Leave, EndScan, Finish
  <2> QED BY <2>1, <2>2, <2>3, <2>5 DEF Scan, AstStep
<1>2. Spec => []QueueInv
  BY DetectorImplementsVerdict, VerdictScans, QueueAccounted, PTL
<1> QED BY <1>1, <1>2, SpanTypeHolds, PTL DEF Spec

-----------------------------------------------------------------------------
(* The verdict on what the program means. *)

\* Nothing is incomplete but a scan, and the AST scanner is on for one.
AstRan == settings.ast \/ (queue.at = "idle" /\ ~queue.incomplete)

LEMMA AstRanSteps == QueueInv /\ VerdictInv /\ AstRan /\ [Next]_vars => AstRan'
<1> SUFFICES ASSUME QueueInv, VerdictInv, AstRan, [Next]_vars PROVE AstRan'
  OBVIOUS
<1>0. settings \in [ast : BOOLEAN, policy : Policies, behavior : BOOLEAN,
                    violations : SUBSET Severities]
  BY DEF VerdictInv
<1>1. CASE AstOn
  BY <1>0, <1>1 DEF AstOn, AstRan
<1>2. CASE MatchText \/ AstOff \/ Decide
  BY <1>2 DEF MatchText, AstOff, Decide, queueVars, AstRan
<1>3. CASE TakeFindings
  <2>1. UNCHANGED queueVars /\ \E policy : settings' = [settings EXCEPT !.policy = policy]
    BY <1>3, Zenon DEF TakeFindings
  <2>2. settings'.ast = settings.ast /\ queue' = queue
    BY <1>0, <2>1 DEF queueVars
  <2> QED BY <2>2 DEF AstRan
<1>4. CASE Behave
  <2>1. UNCHANGED queueVars
        /\ \E on, severities : settings' = [settings EXCEPT !.behavior = on, !.violations = severities]
    BY <1>4, Zenon DEF Behave
  <2>2. settings'.ast = settings.ast /\ queue' = queue
    BY <1>0, <2>1 DEF queueVars
  <2> QED BY <2>2 DEF AstRan
<1>5. CASE Scan
  <2>1. pc = "scan" /\ settings' = settings
    BY <1>5 DEF Scan, verdictVars
  <2>2. settings.ast
    BY <2>1 DEF VerdictInv
  <2> QED BY <2>1, <2>2 DEF AstRan
<1>6. CASE UNCHANGED vars
  BY <1>6 DEF vars, scanVars, queueVars, verdictVars, AstRan
<1> QED BY <1>1, <1>2, <1>3, <1>4, <1>5, <1>6 DEF Next, Returned, Judge

LEMMA AstRanHolds == Spec => [](QueueInv /\ VerdictInv /\ AstRan)
<1>1. Spec => [](QueueInv /\ VerdictInv)
  BY DetectorImplementsVerdict, VerdictScans, QueueAccounted, VerdictStarts, VerdictSteps, PTL
     DEF VerdictSpec
<1>2. Init => AstRan
  BY DEF Init, ScanInit, QueueInit, AstRan
<1> QED BY <1>1, <1>2, AstRanSteps, PTL DEF Spec

Evident == \/ HasBlockWord(source)
           \/ settings.violations \cap {"CRITICAL", "HIGH"} # {}
           \/ queue.incomplete /\ settings.policy # "observe"
(* Evidence enforces, whatever the AST scanner reports or fails on: the     *)
(* half of EnforcesOnEvidence that asks nothing of the scanner.             *)
THEOREM EvidenceEnforces == Spec => [](pc = "done" /\ Evident => action = "QUARANTINE")
<1>1. QueueInv /\ VerdictInv /\ AstRan /\ pc = "done" /\ Evident => action = "QUARANTINE"
  BY DEF VerdictInv, AstRan, AstEvidence, BehaviorEvidence, Evident
<1> QED BY <1>1, AstRanHolds, PTL

(* And the verdict enforces on evidence only, if the scanner's findings are *)
(* what the program means: that is what it rests on, and all of it.         *)
THEOREM EnforcesOnEvidenceHolds ==
    Spec => [](ReportsExactly /\ LiteralsAreTexts => EnforcesOnEvidence)
<1>1. ASSUME VerdictInv, QueueInv, AstRan, ReportsExactly, LiteralsAreTexts
      PROVE  EnforcesOnEvidence
  <2> SUFFICES ASSUME pc = "done" PROVE EnforcesOnEvidence
    BY DEF EnforcesOnEvidence
  <2>1. action = "QUARANTINE" <=> HasBlockWord(source) \/ AstEvidence \/ BehaviorEvidence
    BY <1>1 DEF VerdictInv
  <2>2. Evident => action = "QUARANTINE"
    BY <1>1, <2>1 DEF AstRan, AstEvidence, BehaviorEvidence, Evident
  <2>3. Reports # {} => Reaching # {}
    BY <1>1 DEF ReportsExactly
  <2>4. \A t \in Literals : HasBlockWord(t) => \E u \in Texts : HasBlockWord(u)
    BY <1>1 DEF LiteralsAreTexts
  <2>5. AstEvidence => settings.ast /\ (\/ Reaching # {} \/ \E t \in Texts : HasBlockWord(t)
                                        \/ queue.incomplete /\ settings.policy # "observe")
    BY <2>3, <2>4 DEF AstEvidence
  <2> QED BY <2>1, <2>2, <2>5 DEF EnforcesOnEvidence, BehaviorEvidence, Evident
<1> QED BY <1>1, AstRanHolds, PTL
=============================================================================
