------------------------- MODULE AhoCorasick_proofs --------------------------
(***************************************************************************)
(* Proofs about the keyword automaton, for any keywords and any text: its  *)
(* failure links and outputs are what they should be, and the search ends  *)
(* at the first code unit where a keyword ends, with the longest that does.*)
(***************************************************************************)
EXTENDS AhoCorasick, Induction, SequenceTheorems

-----------------------------------------------------------------------------
(* The endings of a word. *)

Ending(w, l) == SubSeq(w, Len(w) - l + 1, Len(w))

LEMMA EndingType ==
    ASSUME NEW w \in Seq(Nat), NEW l \in 0..Len(w)
    PROVE  /\ Ending(w, l) \in Seq(Nat) /\ Len(Ending(w, l)) = l
           /\ \A i \in 1..l : Ending(w, l)[i] = w[Len(w) - l + i]
<1>1. Len(w) \in Nat /\ Len(w) - l + 1 \in 1..(Len(w) + 1) /\ Len(w) \in Nat
  OBVIOUS
<1> QED BY <1>1 DEF Ending

LEMMA SameWords ==
    ASSUME NEW v \in Seq(Nat), NEW w \in Seq(Nat), Len(v) = Len(w),
           \A i \in 1..Len(v) : v[i] = w[i]
    PROVE  v = w
OBVIOUS

LEMMA EndingWhole ==
    ASSUME NEW w \in Seq(Nat)
    PROVE  Ending(w, Len(w)) = w /\ Ending(w, 0) = <<>>
<1>1. Len(w) \in Nat /\ Len(w) \in 0..Len(w) /\ 0 \in 0..Len(w) /\ Len(w) - Len(w) = 0
  OBVIOUS
<1>2. Ending(w, Len(w)) = w
  <2> DEFINE v == Ending(w, Len(w))
  <2>1. v \in Seq(Nat) /\ Len(v) = Len(w) /\ \A i \in 1..Len(w) : v[i] = w[Len(w) - Len(w) + i]
    BY <1>1, EndingType
  <2> HIDE DEF v
  <2>2. \A i \in 1..Len(v) : v[i] = w[i]
    <3> TAKE i \in 1..Len(v)
    <3>1. i \in 1..Len(w) /\ Len(w) - Len(w) + i = i
      BY <1>1, <2>1
    <3> QED BY <2>1, <3>1
  <2>3. v = w
    BY <2>1, <2>2, SameWords
  <2> QED BY <2>3 DEF v
<1>3. Ending(w, 0) = <<>>
  <2>1. Ending(w, 0) \in Seq(Nat) /\ Len(Ending(w, 0)) = 0
    BY <1>1, EndingType
  <2> QED BY <2>1
<1> QED BY <1>2, <1>3

LEMMA EndingEnding ==
    ASSUME NEW w \in Seq(Nat), NEW l \in 0..Len(w), NEW m \in 0..l
    PROVE  Ending(Ending(w, l), m) = Ending(w, m)
<1> DEFINE v == Ending(w, l)
           a == Ending(v, m)
           b == Ending(w, m)
<1>1. Len(w) \in Nat /\ l \in Nat /\ m \in Nat /\ l <= Len(w) /\ m <= l /\ m \in 0..Len(w)
  OBVIOUS
<1>2. v \in Seq(Nat) /\ Len(v) = l /\ \A i \in 1..l : v[i] = w[Len(w) - l + i]
  BY EndingType
<1>3. b \in Seq(Nat) /\ Len(b) = m /\ \A i \in 1..m : b[i] = w[Len(w) - m + i]
  BY <1>1, EndingType
<1> HIDE DEF v, b
<1>4. a \in Seq(Nat) /\ Len(a) = m /\ \A i \in 1..m : a[i] = v[l - m + i]
  <2>1. m \in 0..Len(v)
    BY <1>1, <1>2
  <2> QED BY <1>2, <2>1, EndingType
<1> HIDE DEF a
<1>5. ASSUME NEW i \in 1..m PROVE a[i] = b[i]
  <2>1. l - m + i \in 1..l /\ Len(w) - l + (l - m + i) = Len(w) - m + i
    BY <1>1
  <2> QED BY <1>2, <1>3, <1>4, <2>1
<1>6. a = b
  BY <1>3, <1>4, <1>5, SameWords
<1> QED BY <1>6 DEF a, b, v

LEMMA EndingAppend ==
    ASSUME NEW w \in Seq(Nat), NEW c \in Nat, NEW l \in 0..Len(w)
    PROVE  Ending(Append(w, c), l + 1) = Append(Ending(w, l), c)
<1> DEFINE u == Append(w, c)
           e == Ending(w, l)
           a == Ending(u, l + 1)
           b == Append(e, c)
<1>1. /\ Len(w) \in Nat /\ l \in Nat /\ l <= Len(w)
      /\ u \in Seq(Nat) /\ Len(u) = Len(w) + 1 /\ l + 1 \in 0..Len(u)
      /\ \A i \in 1..Len(w) : u[i] = w[i]
      /\ u[Len(w) + 1] = c
  OBVIOUS
<1>2. e \in Seq(Nat) /\ Len(e) = l /\ \A i \in 1..l : e[i] = w[Len(w) - l + i]
  BY EndingType
<1> HIDE DEF e, u
<1>3. b \in Seq(Nat) /\ Len(b) = l + 1 /\ (\A i \in 1..l : b[i] = e[i]) /\ b[l + 1] = c
  BY <1>1, <1>2
<1>4. a \in Seq(Nat) /\ Len(a) = l + 1 /\ \A i \in 1..(l + 1) : a[i] = u[Len(u) - (l + 1) + i]
  BY <1>1, EndingType
<1> HIDE DEF a, b
<1>5. ASSUME NEW i \in 1..(l + 1) PROVE a[i] = b[i]
  <2>1. Len(u) - (l + 1) + i = Len(w) - l + i
    BY <1>1
  <2>2. CASE i = l + 1
    <3>1. Len(w) - l + i = Len(w) + 1
      BY <1>1, <2>2
    <3> QED BY <1>1, <1>3, <1>4, <2>1, <2>2, <3>1
  <2>3. CASE i \in 1..l
    <3>1. Len(w) - l + i \in 1..Len(w)
      BY <1>1, <2>3
    <3> QED BY <1>1, <1>2, <1>3, <1>4, <2>1, <2>3, <3>1, ZenonT(40)
  <2> QED BY <2>2, <2>3
<1>6. a = b
  BY <1>3, <1>4, <1>5, SameWords
<1> QED BY <1>6 DEF a, b, u, e

LEMMA EndingTail ==
    ASSUME NEW w \in Seq(Nat), w # <<>>
    PROVE  /\ Tail(w) \in Seq(Nat) /\ Len(w) \in Nat \ {0} /\ Len(Tail(w)) = Len(w) - 1
           /\ \A l \in 0..(Len(w) - 1) : Ending(Tail(w), l) = Ending(w, l)
<1>1. /\ Tail(w) \in Seq(Nat) /\ Len(w) \in Nat \ {0} /\ Len(Tail(w)) = Len(w) - 1
      /\ \A i \in 1..(Len(w) - 1) : Tail(w)[i] = w[i + 1]
  OBVIOUS
<1>2. ASSUME NEW l \in 0..(Len(w) - 1) PROVE Ending(Tail(w), l) = Ending(w, l)
  <2> DEFINE t == Tail(w)
             a == Ending(t, l)
             b == Ending(w, l)
  <2>1. l \in Nat /\ l \in 0..Len(w) /\ l \in 0..Len(t) /\ l <= Len(w) - 1
    BY <1>1
  <2>2. b \in Seq(Nat) /\ Len(b) = l /\ \A i \in 1..l : b[i] = w[Len(w) - l + i]
    BY <2>1, EndingType
  <2>3. a \in Seq(Nat) /\ Len(a) = l /\ \A i \in 1..l : a[i] = t[Len(t) - l + i]
    BY <1>1, <2>1, EndingType
  <2> HIDE DEF a, b
  <2>4. ASSUME NEW i \in 1..l PROVE a[i] = b[i]
    <3>1. /\ Len(t) - l + i \in 1..(Len(w) - 1)
          /\ (Len(t) - l + i) + 1 = Len(w) - l + i
      BY <1>1, <2>1
    <3> QED BY <1>1, <2>2, <2>3, <3>1
  <2>5. a = b
    BY <2>2, <2>3, <2>4, SameWords
  <2> QED BY <2>5 DEF a, b
<1> QED BY <1>1, <1>2

-----------------------------------------------------------------------------
(* The nodes of a trie, and the longest ending of a word that is one. *)

Trie(N) ==
    /\ N \in SUBSET Seq(Nat)
    /\ Root \in N
    /\ \A s \in Seq(Nat) : \A c \in Nat : Append(s, c) \in N => s \in N

Fits(N, w, l) ==
    /\ l \in 0..Len(w) /\ Ending(w, l) \in N
    /\ \A m \in 0..Len(w) : Ending(w, m) \in N => m <= l

Longest(N, w) == Ending(w, CHOOSE l \in 0..Len(w) : Fits(N, w, l))

LEMMA LongestIs ==
    ASSUME NEW N, Trie(N), NEW w \in Seq(Nat)
    PROVE  /\ Longest(N, w) \in N /\ Longest(N, w) \in Seq(Nat)
           /\ Fits(N, w, Len(Longest(N, w)))
           /\ Longest(N, w) = Ending(w, Len(Longest(N, w)))
           /\ \A l : Fits(N, w, l) => Longest(N, w) = Ending(w, l)
<1> DEFINE Lengths == {l \in 0..Len(w) : Ending(w, l) \in N}
           k == CHOOSE l \in 0..Len(w) : Fits(N, w, l)
<1>1. Len(w) \in Nat /\ 0 \in Lengths
  BY EndingWhole DEF Trie, Root
<1>2. PICK l0 \in Lengths : \A m \in Lengths : m <= l0
  <2>1. Lengths \in SUBSET (0..Len(w)) /\ Lengths # {}
    BY <1>1
  <2> HIDE DEF Lengths
  <2> QED BY <1>1, <2>1, GreatestNatural
<1>3. Fits(N, w, l0)
  BY <1>2 DEF Fits
<1>4. k \in 0..Len(w) /\ Fits(N, w, k)
  BY <1>3 DEF Fits
<1>5. Longest(N, w) = Ending(w, k)
  BY DEF Longest
<1> HIDE DEF k
<1>6. Longest(N, w) \in N /\ Longest(N, w) \in Seq(Nat) /\ Len(Longest(N, w)) = k
  BY <1>4, <1>5, EndingType DEF Fits
<1>7. ASSUME NEW l, Fits(N, w, l) PROVE l = k
  <2>1. l <= k /\ k <= l /\ l \in Nat /\ k \in Nat
    BY <1>1, <1>4, <1>7 DEF Fits
  <2> QED BY <2>1
<1> QED BY <1>4, <1>5, <1>6, <1>7

LEMMA LongestSelf ==
    ASSUME NEW N, Trie(N), NEW w \in Seq(Nat), w \in N
    PROVE  Longest(N, w) = w
<1>1. Len(w) \in Nat /\ Ending(w, Len(w)) = w
  BY EndingWhole
<1>2. Fits(N, w, Len(w))
  BY <1>1 DEF Fits
<1> QED BY <1>1, <1>2, LongestIs

\* A word that is no node has the longest ending of what follows its first.
LEMMA LongestShorter ==
    ASSUME NEW N, Trie(N), NEW w \in Seq(Nat), w \notin N
    PROVE  w # <<>> /\ Longest(N, w) = Longest(N, Tail(w))
<1>1. w # <<>>
  BY DEF Trie, Root
<1>2. /\ Tail(w) \in Seq(Nat) /\ Len(w) \in Nat \ {0} /\ Len(Tail(w)) = Len(w) - 1
      /\ \A l \in 0..(Len(w) - 1) : Ending(Tail(w), l) = Ending(w, l)
  BY <1>1, EndingTail
<1> DEFINE k == Len(Longest(N, w))
<1>3. /\ Fits(N, w, k) /\ Longest(N, w) = Ending(w, k)
      /\ \A l : Fits(N, Tail(w), l) => Longest(N, Tail(w)) = Ending(Tail(w), l)
  BY <1>2, LongestIs
<1> HIDE DEF k
<1>4. Ending(w, Len(w)) \notin N
  BY EndingWhole
<1>5. k \in 0..(Len(w) - 1) /\ \A m \in 0..(Len(w) - 1) : m \in 0..Len(w)
  BY <1>2, <1>3, <1>4 DEF Fits
<1>6. Fits(N, Tail(w), k)
  BY <1>2, <1>3, <1>5 DEF Fits
<1> QED BY <1>1, <1>2, <1>3, <1>5, <1>6

\* With one code more, only the longest ending so far matters.
LEMMA LongestAppend ==
    ASSUME NEW N, Trie(N), NEW w \in Seq(Nat), NEW c \in Nat
    PROVE  Longest(N, Append(w, c)) = Longest(N, Append(Longest(N, w), c))
<1> DEFINE s == Longest(N, w)
           k == Len(s)
           u == Append(w, c)
           v == Append(s, c)
           l == Len(Longest(N, v))
<1>1. s \in Seq(Nat) /\ Fits(N, w, k) /\ s = Ending(w, k)
  BY LongestIs
<1>2. k \in 0..Len(w) /\ k \in Nat /\ Len(w) \in Nat
  BY <1>1 DEF Fits
<1> HIDE DEF s
<1>3. /\ u \in Seq(Nat) /\ Len(u) = Len(w) + 1 /\ v \in Seq(Nat) /\ Len(v) = k + 1
  BY <1>1
<1>4. Fits(N, v, l) /\ Longest(N, v) = Ending(v, l) /\ l \in 0..(k + 1)
  <2>1. Fits(N, v, l) /\ Longest(N, v) = Ending(v, l)
    BY <1>3, LongestIs
  <2> HIDE DEF l, k, v
  <2> QED BY <1>3, <2>1 DEF Fits
<1> HIDE DEF l, k
<1>5. ASSUME NEW m \in 0..(k + 1) PROVE Ending(v, m) = Ending(u, m)
  <2>1. CASE m = 0
    BY <1>3, <2>1, EndingWhole
  <2>2. CASE m # 0
    <3> DEFINE j == m - 1
    <3>1. j \in 0..k /\ j \in 0..Len(w) /\ m = j + 1
      BY <1>2, <2>2
    <3> HIDE DEF j
    <3>2. Ending(v, j + 1) = Append(Ending(s, j), c)
      BY <1>1, <3>1, EndingAppend DEF k
    <3>3. Ending(u, j + 1) = Append(Ending(w, j), c)
      BY <3>1, EndingAppend
    <3>4. Ending(s, j) = Ending(w, j)
      BY <1>1, <1>2, <3>1, EndingEnding
    <3> QED BY <3>1, <3>2, <3>3, <3>4
  <2> QED BY <2>1, <2>2
<1>6. ASSUME NEW m \in 0..Len(u), Ending(u, m) \in N PROVE m \in 0..(k + 1)
  <2>1. CASE m = 0
    BY <1>2, <2>1
  <2>2. CASE m # 0
    <3> DEFINE j == m - 1
    <3>1. j \in 0..Len(w) /\ m = j + 1
      BY <1>2, <1>3, <2>2
    <3> HIDE DEF j
    <3>2. Append(Ending(w, j), c) \in N
      BY <1>6, <3>1, EndingAppend
    <3>3. Ending(w, j) \in N
      BY <3>1, <3>2, EndingType DEF Trie
    <3>4. j <= k
      BY <1>1, <3>1, <3>3 DEF Fits
    <3> QED BY <1>2, <3>1, <3>4
  <2> QED BY <2>1, <2>2
<1> HIDE DEF u, v
<1>7. Fits(N, u, l)
  <2>1. l \in 0..Len(u) /\ Ending(u, l) \in N
    BY <1>2, <1>3, <1>4, <1>5 DEF Fits
  <2>2. ASSUME NEW m \in 0..Len(u), Ending(u, m) \in N PROVE m <= l
    BY <1>3, <1>4, <1>5, <1>6, <2>2 DEF Fits
  <2> QED BY <2>1, <2>2 DEF Fits
<1>8. Longest(N, u) = Longest(N, v)
  BY <1>3, <1>4, <1>5, <1>7, LongestIs
<1> QED BY <1>8 DEF u, v, s

-----------------------------------------------------------------------------
(* The failure links. *)

\* A property of words that every word has if all shorter ones do.
LEMMA ByLength ==
    ASSUME NEW N \in SUBSET Seq(Nat), NEW Good,
           \A n \in N : (\A m \in N : Len(m) < Len(n) => m \in Good) => n \in Good
    PROVE  \A n \in N : n \in Good
<1> DEFINE Upto == {k \in Nat : \A n \in N : Len(n) < k => n \in Good}
<1>1. \A n \in N : Len(n) \in Nat
  OBVIOUS
<1>2. 0 \in Upto
  BY <1>1
<1>3. ASSUME NEW k \in Nat, k \in Upto PROVE k + 1 \in Upto
  <2> SUFFICES ASSUME NEW n \in N, Len(n) < k + 1 PROVE n \in Good
    OBVIOUS
  <2>1. \A m \in N : Len(m) < Len(n) => Len(m) < k
    BY <1>1
  <2> QED BY <1>3, <2>1
<1> HIDE DEF Upto
<1>4. \A k \in Nat : k \in Upto
  BY <1>2, <1>3, SetInduction
<1> TAKE n \in N
<1>5. Len(n) + 1 \in Upto /\ Len(n) < Len(n) + 1
  BY <1>1, <1>4
<1> QED BY <1>5 DEF Upto

LEMMA WordEnds ==
    ASSUME NEW n \in Seq(Nat), n # <<>>
    PROVE  /\ Front(n) \in Seq(Nat) /\ Last(n) \in Nat /\ Len(Front(n)) = Len(n) - 1
           /\ n = Append(Front(n), Last(n))
<1>1. Len(n) \in Nat \ {0} /\ Len(n) - 1 \in 0..Len(n) /\ 1 \in 1..(Len(n) + 1)
  OBVIOUS
<1>2. /\ Front(n) \in Seq(Nat) /\ Len(Front(n)) = Len(n) - 1
      /\ \A i \in 1..(Len(n) - 1) : Front(n)[i] = n[i]
  <2> DEFINE k == Len(n) - 1
  <2>1. 1 \in 1..(Len(n) + 1) /\ k \in 0..Len(n) /\ k - 1 + 1 = k
    BY <1>1
  <2>2. Front(n) = SubSeq(n, 1, k)
    BY DEF Front
  <2> HIDE DEF k
  <2>3. SubSeq(n, 1, k) \in Seq(Nat) /\ Len(SubSeq(n, 1, k)) = k /\ \A i \in 1..k : SubSeq(n, 1, k)[i] = n[i]
    BY <2>1
  <2> QED BY <2>2, <2>3 DEF k
<1>3. Last(n) = n[Len(n)] /\ Last(n) \in Nat
  BY <1>1 DEF Last
<1> DEFINE v == Append(Front(n), Last(n))
<1>4. /\ v \in Seq(Nat) /\ Len(v) = Len(n) /\ v[Len(n)] = Last(n)
      /\ \A i \in 1..(Len(n) - 1) : v[i] = Front(n)[i]
  BY <1>1, <1>2, <1>3
<1> HIDE DEF v
<1>5. \A i \in 1..Len(n) : v[i] = n[i]
  <2> TAKE i \in 1..Len(n)
  <2>1. i = Len(n) \/ i \in 1..(Len(n) - 1)
    BY <1>1
  <2> QED BY <1>2, <1>3, <1>4, <2>1
<1>6. n = v
  BY <1>4, <1>5, SameWords
<1> QED BY <1>2, <1>3, <1>6 DEF v

LEMMA TailAppend ==
    ASSUME NEW n \in Seq(Nat), n # <<>>, NEW c \in Nat
    PROVE  Tail(Append(n, c)) = Append(Tail(n), c)
<1> DEFINE v == Tail(Append(n, c))
           w == Append(Tail(n), c)
<1>1. Len(n) \in Nat \ {0}
  OBVIOUS
<1>2. v \in Seq(Nat) /\ Len(v) = Len(n) /\ \A i \in 1..Len(n) : v[i] = Append(n, c)[i + 1]
  BY <1>1
<1>3. w \in Seq(Nat) /\ Len(w) = Len(n) /\ w[Len(n)] = c
      /\ \A i \in 1..(Len(n) - 1) : w[i] = n[i + 1]
  BY <1>1
<1> HIDE DEF v, w
<1>4. \A i \in 1..Len(n) : v[i] = w[i]
  <2> TAKE i \in 1..Len(n)
  <2>1. i = Len(n) \/ i \in 1..(Len(n) - 1)
    BY <1>1
  <2> QED BY <1>1, <1>2, <1>3, <2>1
<1>5. v = w
  BY <1>2, <1>3, <1>4, SameWords
<1> QED BY <1>5 DEF v, w

\* Where a node's link is to lead: to the longest ending that is a node too.
Link(N, n) == IF n = Root THEN Root ELSE Longest(N, Tail(n))

LEMMA LinkType ==
    ASSUME NEW N, Trie(N), NEW n \in N
    PROVE  /\ n \in Seq(Nat) /\ Len(n) \in Nat /\ Link(N, n) \in N /\ Link(N, n) \in Seq(Nat)
           /\ n # Root => Len(Link(N, n)) < Len(n)
<1>1. n \in Seq(Nat) /\ Len(n) \in Nat /\ Root \in N /\ Root \in Seq(Nat)
  BY DEF Trie
<1>2. CASE n = Root
  BY <1>1, <1>2 DEF Link
<1>3. CASE n # Root
  <2>1. Tail(n) \in Seq(Nat) /\ Len(n) \in Nat \ {0} /\ Len(Tail(n)) = Len(n) - 1
    BY <1>1, <1>3, EndingTail DEF Root
  <2>2. /\ Longest(N, Tail(n)) \in N /\ Longest(N, Tail(n)) \in Seq(Nat)
        /\ Len(Longest(N, Tail(n))) \in 0..Len(Tail(n))
    BY <2>1, LongestIs DEF Fits
  <2> QED BY <1>1, <1>3, <2>1, <2>2 DEF Link
<1> QED BY <1>2, <1>3

\* Links that lead there lead on to the longest ending with the code.
LEMMA FollowIs ==
    ASSUME NEW N, Trie(N), NEW D \in SUBSET N, Root \in D, NEW fail,
           \A n \in D : n # Root => fail[n] = Link(N, n) /\ Link(N, n) \in D,
           NEW c \in Nat, NEW from \in D
    PROVE  Follow(N, fail, D, from, c) = Longest(N, Append(from, c))
<1> DEFINE Solves(h) == h = [node \in D |-> IF Append(node, c) \in N THEN Append(node, c)
                                            ELSE IF node = Root THEN Root
                                            ELSE h[fail[node]]]
           goal == [node \in D |-> Longest(N, Append(node, c))]
           child == CHOOSE h : Solves(h)
<1>1. \A n \in D : n \in N /\ n \in Seq(Nat) /\ Len(n) \in Nat
  BY DEF Trie
<1>2. ASSUME NEW n \in D
      PROVE  Longest(N, Append(n, c)) = IF Append(n, c) \in N THEN Append(n, c)
                                        ELSE IF n = Root THEN Root
                                        ELSE Longest(N, Append(fail[n], c))
  <2>1. n \in Seq(Nat) /\ Append(n, c) \in Seq(Nat)
    BY <1>1
  <2>2. CASE Append(n, c) \in N
    BY <2>1, <2>2, LongestSelf
  <2>3. CASE Append(n, c) \notin N /\ n = Root
    <3>1. Tail(Append(n, c)) = Root /\ Root \in N /\ Root \in Seq(Nat)
      BY <2>3 DEF Root, Trie
    <3>2. Longest(N, Append(n, c)) = Longest(N, Root) /\ Longest(N, Root) = Root
      <4> DEFINE w == Append(n, c)
      <4>1. w \in Seq(Nat) /\ w \notin N /\ Tail(w) = Root
        BY <2>1, <2>3, <3>1
      <4> HIDE DEF w
      <4>2. Longest(N, w) = Longest(N, Tail(w))
        BY <4>1, LongestShorter
      <4>3. Longest(N, Root) = Root
        BY <3>1, LongestSelf
      <4> QED BY <4>1, <4>2, <4>3 DEF w
    <3> QED BY <2>3, <3>2
  <2>4. CASE Append(n, c) \notin N /\ n # Root
    <3>1. Tail(Append(n, c)) = Append(Tail(n), c) /\ Tail(n) \in Seq(Nat)
      BY <2>1, <2>4, TailAppend, EndingTail DEF Root
    <3>2. Longest(N, Append(n, c)) = Longest(N, Append(Tail(n), c))
      BY <2>1, <2>4, <3>1, LongestShorter
    <3>3. Longest(N, Append(Tail(n), c)) = Longest(N, Append(Longest(N, Tail(n)), c))
      BY <3>1, LongestAppend
    <3>4. fail[n] = Longest(N, Tail(n))
      BY <2>4 DEF Link
    <3> QED BY <2>4, <3>2, <3>3, <3>4
  <2> QED BY <2>2, <2>3, <2>4, Zenon
<1>3. Solves(goal)
  <2>1. \A n \in D : n # Root => fail[n] \in D
    OBVIOUS
  <2>2. \A n \in D : goal[n] = IF Append(n, c) \in N THEN Append(n, c)
                               ELSE IF n = Root THEN Root
                               ELSE goal[fail[n]]
    BY <1>2, <2>1
  <2>3. goal = [n \in D |-> goal[n]]
    OBVIOUS
  <2> HIDE DEF goal
  <2> QED BY <2>2, <2>3
<1>4. Solves(child)
  BY <1>3, Zenon
<1>5. \A n \in D : child[n] = IF Append(n, c) \in N THEN Append(n, c)
                              ELSE IF n = Root THEN Root
                              ELSE child[fail[n]]
  <2>1. child = [node \in D |-> IF Append(node, c) \in N THEN Append(node, c)
                                ELSE IF node = Root THEN Root
                                ELSE child[fail[node]]]
    BY <1>4, Zenon
  <2> HIDE DEF child
  <2> QED BY <2>1, Zenon
<1>6. Follow(N, fail, D, from, c) = child[from]
  BY Zenon DEF Follow
<1> HIDE DEF child
<1>7. \A n \in D : child[n] = Longest(N, Append(n, c))
  <2> DEFINE Good == {n \in D : child[n] = Longest(N, Append(n, c))}
  <2>1. ASSUME NEW n \in D, \A m \in D : Len(m) < Len(n) => m \in Good
        PROVE  n \in Good
    <3>1. n # Root => Len(fail[n]) < Len(n) /\ fail[n] \in D
      BY <1>1, LinkType
    <3>2. n # Root => child[fail[n]] = Longest(N, Append(fail[n], c))
      BY <2>1, <3>1
    <3> QED BY <1>2, <1>5, <3>2
  <2>2. D \in SUBSET Seq(Nat)
    BY <1>1
  <2> HIDE DEF Good
  <2>3. \A n \in D : n \in Good
    BY <2>1, <2>2, ByLength
  <2> QED BY <2>3 DEF Good
<1> QED BY <1>6, <1>7

\* Every link leads where it is to.
LEMMA FailureLinksAre ==
    ASSUME NEW N, Trie(N)
    PROVE  FailureLinks(N) = [n \in N |-> Link(N, n)]
<1> DEFINE Shorter(node) == {n \in N : Len(n) < Len(node)}
           Next(f, node) == Follow(N, f, Shorter(node), f[Front(node)], Last(node))
           Solves(f) == f = [node \in N |-> IF Len(node) <= 1 THEN Root ELSE Next(f, node)]
           goal == [n \in N |-> Link(N, n)]
           fail == CHOOSE f : Solves(f)
<1>1. \A n \in N : n \in Seq(Nat) /\ Len(n) \in Nat
  BY DEF Trie
<1>2. ASSUME NEW f, NEW n \in N, \A m \in N : Len(m) < Len(n) => f[m] = Link(N, m)
      PROVE  (IF Len(n) <= 1 THEN Root ELSE Next(f, n)) = Link(N, n)
  <2>1. n \in Seq(Nat) /\ Len(n) \in Nat /\ Root \in N /\ Root \in Seq(Nat) /\ Len(Root) = 0
    BY <1>1 DEF Trie, Root
  <2>2. CASE n = Root
    BY <2>1, <2>2 DEF Link
  <2>3. CASE n # Root /\ Len(n) <= 1
    <3>1. Tail(n) \in Seq(Nat) /\ Len(Tail(n)) = Len(n) - 1 /\ Len(n) # 0
      BY <2>1, <2>3, EndingTail DEF Root
    <3>2. Len(Tail(n)) = 0
      BY <2>1, <2>3, <3>1
    <3>3. Tail(n) = Root
      <4> DEFINE t == Tail(n)
      <4>1. t \in Seq(Nat) /\ Len(t) = 0
        BY <3>1, <3>2
      <4> HIDE DEF t
      <4>2. t = <<>>
        BY <4>1
      <4> QED BY <4>2 DEF t, Root
    <3>4. Longest(N, Root) = Root
      BY <2>1, LongestSelf
    <3> QED BY <2>3, <3>3, <3>4, Zenon DEF Link
  <2>4. CASE Len(n) > 1
    <3> DEFINE p == Front(n)
               c == Last(n)
               D == Shorter(n)
    <3>1. p \in Seq(Nat) /\ c \in Nat /\ Len(p) = Len(n) - 1 /\ n = Append(p, c)
      BY <2>1, <2>4, WordEnds
    <3> HIDE DEF p, c
    <3>2. p \in N /\ p # Root /\ p \in D
      BY <2>1, <2>4, <3>1 DEF Trie
    <3>3. D \in SUBSET N /\ Root \in D
      BY <2>1, <2>4
    <3>4. \A m \in D : m # Root => f[m] = Link(N, m) /\ Link(N, m) \in D
      <4> TAKE m \in D
      <4> HAVE m # Root
      <4>1. m \in N /\ Len(m) < Len(n) /\ Len(m) \in Nat
        BY <1>1
      <4>2. Link(N, m) \in N /\ Len(Link(N, m)) < Len(m) /\ Len(Link(N, m)) \in Nat
        BY <1>1, <4>1, LinkType
      <4> QED BY <1>2, <2>1, <4>1, <4>2
    <3>5. f[p] = Longest(N, Tail(p)) /\ f[p] \in D
      BY <3>2, <3>4 DEF Link
    <3> HIDE DEF D
    <3>6. Follow(N, f, D, f[p], c) = Longest(N, Append(f[p], c))
      BY <3>1, <3>3, <3>4, <3>5, FollowIs
    <3>7. Tail(p) \in Seq(Nat) /\ Tail(n) = Append(Tail(p), c)
      BY <3>1, <3>2, TailAppend, EndingTail DEF Root
    <3>8. Longest(N, Append(f[p], c)) = Longest(N, Tail(n))
      BY <3>1, <3>5, <3>7, LongestAppend, ZenonT(40)
    <3>9. Next(f, n) = Longest(N, Tail(n))
      BY <3>6, <3>8 DEF p, c, D
    <3> QED BY <2>1, <2>4, <3>9 DEF Link, Root
  <2> QED BY <2>1, <2>2, <2>3, <2>4
<1> HIDE DEF Next
<1>3. Solves(goal)
  <2>1. \A n \in N : (IF Len(n) <= 1 THEN Root ELSE Next(goal, n)) = goal[n]
    <3> TAKE n \in N
    <3>1. \A m \in N : Len(m) < Len(n) => goal[m] = Link(N, m)
      OBVIOUS
    <3>2. goal[n] = Link(N, n)
      OBVIOUS
    <3> HIDE DEF goal
    <3> QED BY <1>2, <3>1, <3>2
  <2>2. goal = [n \in N |-> goal[n]]
    OBVIOUS
  <2> HIDE DEF goal
  <2> QED BY <2>1, <2>2
<1>4. Solves(fail)
  BY <1>3, Zenon
<1>5. FailureLinks(N) = fail
  BY Zenon DEF FailureLinks, Next
<1>6. fail = [node \in N |-> IF Len(node) <= 1 THEN Root ELSE Next(fail, node)]
  BY <1>4, Zenon
<1> HIDE DEF fail
<1>7. \A n \in N : fail[n] = Link(N, n)
  <2> DEFINE Good == {n \in N : fail[n] = Link(N, n)}
  <2>1. ASSUME NEW n \in N, \A m \in N : Len(m) < Len(n) => m \in Good
        PROVE  n \in Good
    <3>1. \A m \in N : Len(m) < Len(n) => fail[m] = Link(N, m)
      BY <2>1
    <3>2. fail[n] = IF Len(n) <= 1 THEN Root ELSE Next(fail, n)
      BY <1>6, Zenon
    <3> QED BY <1>2, <3>1, <3>2
  <2>2. N \in SUBSET Seq(Nat)
    BY <1>1
  <2> HIDE DEF Good
  <2>3. \A n \in N : n \in Good
    BY <2>1, <2>2, ByLength
  <2> QED BY <2>3 DEF Good
<1>8. fail = [n \in N |-> fail[n]]
  BY <1>6
<1> QED BY <1>5, <1>7, <1>8

-----------------------------------------------------------------------------
(* The trie of the keywords. *)

KeywordsOK(keywords) ==
    /\ keywords \in Seq(Seq(Nat))
    /\ \A k \in DOMAIN keywords : keywords[k] # <<>>

LEMMA FoldedType ==
    ASSUME NEW text \in Seq(Nat)
    PROVE  /\ Folded(text) \in Seq(Nat) /\ Len(Folded(text)) = Len(text)
           /\ \A i \in 1..Len(text) : FoldCode(text[i]) \in Nat /\ Folded(text)[i] = FoldCode(text[i])
<1>1. \A code \in Nat : FoldCode(code) \in Nat
  BY DEF FoldCode, NonAsciiBucket
<1>2. Len(text) \in Nat /\ \A i \in 1..Len(text) : text[i] \in Nat
  OBVIOUS
<1>3. \A i \in 1..Len(text) : FoldCode(text[i]) \in Nat
  BY <1>1, <1>2
<1>4. Folded(text) = [i \in 1..Len(text) |-> FoldCode(text[i])]
  BY DEF Folded
<1> DEFINE n == Len(text)
           g(i) == FoldCode(text[i])
<1> HIDE DEF n, g
<1>5. [i \in 1..n |-> g(i)] \in Seq(Nat) /\ Len([i \in 1..n |-> g(i)]) = n
  <2>1. n \in Nat /\ \A i \in 1..n : g(i) \in Nat
    BY <1>2, <1>3 DEF n, g
  <2> QED BY <2>1
<1> QED BY <1>3, <1>4, <1>5 DEF n, g

LEMMA NodesTrie ==
    ASSUME NEW keywords, KeywordsOK(keywords)
    PROVE  Trie(Nodes(keywords))
<1> DEFINE N == Nodes(keywords)
           Start(f, l) == SubSeq(f, 1, l)
<1>1. \A n : n \in N <=> n = Root \/ \E k \in DOMAIN keywords :
                            \E l \in 0..Len(Folded(keywords[k])) : n = Start(Folded(keywords[k]), l)
  BY DEF Nodes, Prefixes
<1>2. \A k \in DOMAIN keywords : Folded(keywords[k]) \in Seq(Nat)
  BY FoldedType DEF KeywordsOK
<1>3. ASSUME NEW f \in Seq(Nat), NEW l \in 0..Len(f)
      PROVE  Start(f, l) \in Seq(Nat) /\ Len(Start(f, l)) = l
             /\ \A i \in 1..l : Start(f, l)[i] = f[i]
  OBVIOUS
<1> HIDE DEF N, Start
<1>4. N \in SUBSET Seq(Nat)
  <2>1. Root \in Seq(Nat)
    BY DEF Root
  <2> QED BY <1>1, <1>2, <1>3, <2>1
<1>5. Root \in N
  BY <1>1
<1>6. ASSUME NEW s \in Seq(Nat), NEW c \in Nat, Append(s, c) \in N PROVE s \in N
  <2> DEFINE a == Append(s, c)
             l == Len(s)
  <2>1. l \in Nat /\ a \in Seq(Nat) /\ Len(a) = l + 1 /\ \A i \in 1..l : a[i] = s[i]
    OBVIOUS
  <2> HIDE DEF a
  <2>2. a # Root
    BY <2>1 DEF Root
  <2>3. PICK k \in DOMAIN keywords :
          \E m \in 0..Len(Folded(keywords[k])) : a = Start(Folded(keywords[k]), m)
    BY <1>1, <1>6, <2>2 DEF a
  <2> DEFINE f == Folded(keywords[k])
  <2>4. f \in Seq(Nat) /\ Len(f) \in Nat
    BY <1>2
  <2> HIDE DEF f, l
  <2>5. PICK m \in 0..Len(f) : a = Start(f, m)
    BY <2>3 DEF f
  <2>6. m = l + 1 /\ \A i \in 1..m : a[i] = f[i]
    BY <1>3, <2>1, <2>4, <2>5
  <2>7. l \in 0..Len(f) /\ \A i \in 1..l : i \in 1..m
    BY <2>1, <2>4, <2>6
  <2>8. Start(f, l) \in Seq(Nat) /\ Len(Start(f, l)) = l /\ \A i \in 1..l : Start(f, l)[i] = f[i]
    BY <1>3, <2>4, <2>7
  <2>9. s = Start(f, l)
    <3> DEFINE v == Start(f, l)
    <3>1. v \in Seq(Nat) /\ Len(s) = Len(v) /\ \A i \in 1..Len(s) : s[i] = v[i]
      BY <2>1, <2>6, <2>7, <2>8 DEF l
    <3> HIDE DEF v
    <3>2. s = v
      BY <3>1, SameWords
    <3> QED BY <3>2 DEF v
  <2> QED BY <1>1, <2>7, <2>9 DEF f
<1> QED BY <1>4, <1>5, <1>6 DEF Trie, N

LEMMA OwnIs ==
    ASSUME NEW keywords, KeywordsOK(keywords), NEW n
    PROVE  /\ OwnOutput(keywords, n) \in Seq(Nat)
           /\ OwnOutput(keywords, n) # NoMatch <=>
                \E k \in DOMAIN keywords : Folded(keywords[k]) = n
           /\ OwnOutput(keywords, n) # NoMatch =>
                /\ n \in Nodes(keywords) /\ n # Root
                /\ \E k \in DOMAIN keywords :
                     OwnOutput(keywords, n) = keywords[k] /\ Folded(keywords[k]) = n
<1> DEFINE ending == {k \in DOMAIN keywords : Folded(keywords[k]) = n}
           own == OwnOutput(keywords, n)
<1>1. /\ Len(keywords) \in Nat /\ DOMAIN keywords = 1..Len(keywords)
      /\ \A k \in DOMAIN keywords : keywords[k] \in Seq(Nat) /\ keywords[k] # <<>>
  BY DEF KeywordsOK
<1>2. own = IF ending = {} THEN NoMatch ELSE keywords[Max(ending)]
  BY Zenon DEF OwnOutput
<1>3. ASSUME ending # {}
      PROVE  \E k \in ending : own = keywords[k]
  <2>1. ending \in SUBSET (0..Len(keywords)) /\ ending \in SUBSET Nat
    BY <1>1
  <2> HIDE DEF ending
  <2>2. PICK m \in ending : \A k \in ending : k <= m
    BY <1>1, <1>3, <2>1, GreatestNatural
  <2>3. \E x \in ending : \A y \in ending : x >= y
    <3>1. \A y \in ending : m >= y
      BY <2>1, <2>2
    <3> QED BY <3>1
  <2>4. Max(ending) \in ending
    BY <2>3, Zenon DEF Max
  <2> QED BY <1>2, <1>3, <2>4
<1>4. <<>> \in Seq(Nat)
  OBVIOUS
<1>5. own # NoMatch <=> ending # {}
  BY <1>1, <1>2, <1>3 DEF NoMatch
<1>6. own \in Seq(Nat)
  BY <1>1, <1>2, <1>3, <1>4 DEF NoMatch
<1>7. ASSUME NEW k \in DOMAIN keywords, Folded(keywords[k]) = n
      PROVE  n \in Nodes(keywords) /\ n # Root
  <2> DEFINE f == Folded(keywords[k])
  <2>1. f \in Seq(Nat) /\ Len(f) = Len(keywords[k]) /\ Len(keywords[k]) \in Nat \ {0}
    BY <1>1, FoldedType
  <2> HIDE DEF f
  <2>2. SubSeq(f, 1, Len(f)) = f /\ Len(f) \in 0..Len(f) /\ f # <<>>
    BY <2>1
  <2>3. f \in Prefixes(f)
    BY <2>2 DEF Prefixes
  <2> QED BY <1>7, <2>2, <2>3 DEF Nodes, f, Root
<1> HIDE DEF own
<1> QED BY <1>3, <1>5, <1>6, <1>7 DEF own

-----------------------------------------------------------------------------
(* The outputs. *)

\* The lengths of the endings of a word that are keywords.
Ends(keywords, w) == {l \in 0..Len(w) : OwnOutput(keywords, Ending(w, l)) # NoMatch}

Best(keywords, w, l) == l \in Ends(keywords, w) /\ \A m \in Ends(keywords, w) : m <= l

\* The longest of them.
Output(keywords, w) ==
    IF Ends(keywords, w) = {} THEN NoMatch
    ELSE OwnOutput(keywords, Ending(w, CHOOSE l \in Ends(keywords, w) : Best(keywords, w, l)))

LEMMA OutputIs ==
    ASSUME NEW keywords, NEW w \in Seq(Nat)
    PROVE  /\ Ends(keywords, w) \in SUBSET (0..Len(w)) /\ Ends(keywords, w) \in SUBSET Nat
           /\ Ends(keywords, w) = {} <=> Output(keywords, w) = NoMatch
           /\ Ends(keywords, w) # {} => \E l : Best(keywords, w, l)
           /\ \A l : Best(keywords, w, l) =>
                Output(keywords, w) = OwnOutput(keywords, Ending(w, l))
<1> DEFINE E == Ends(keywords, w)
           k == CHOOSE l \in E : Best(keywords, w, l)
<1>1. E \in SUBSET (0..Len(w)) /\ E \in SUBSET Nat /\ Len(w) \in Nat
      /\ \A l \in E : OwnOutput(keywords, Ending(w, l)) # NoMatch
  BY DEF Ends
<1>2. Output(keywords, w) = IF E = {} THEN NoMatch ELSE OwnOutput(keywords, Ending(w, k))
  BY Zenon DEF Output
<1> HIDE DEF E
<1>3. ASSUME E # {} PROVE \E l \in E : Best(keywords, w, l)
  <2>1. PICK l \in E : \A m \in E : m <= l
    BY <1>1, <1>3, GreatestNatural
  <2> QED BY <2>1 DEF Best, E
<1>4. E # {} => k \in E /\ Best(keywords, w, k)
  BY <1>3
<1> HIDE DEF k
<1>5. ASSUME NEW l, Best(keywords, w, l) PROVE E # {} /\ l = k
  <2>1. l \in E /\ k \in E /\ l <= k /\ k <= l
    BY <1>4, <1>5 DEF Best, E
  <2> QED BY <1>1, <2>1
<1> QED BY <1>1, <1>2, <1>3, <1>4, <1>5 DEF E

LEMMA OutputSame ==
    ASSUME NEW keywords, NEW v \in Seq(Nat), NEW w \in Seq(Nat),
           Ends(keywords, v) = Ends(keywords, w),
           \A l \in Ends(keywords, w) : Ending(v, l) = Ending(w, l)
    PROVE  Output(keywords, v) = Output(keywords, w)
<1>1. CASE Ends(keywords, w) = {}
  BY <1>1, OutputIs
<1>2. CASE Ends(keywords, w) # {}
  <2>1. PICK l : Best(keywords, w, l)
    BY <1>2, OutputIs
  <2>2. Best(keywords, v, l) /\ l \in Ends(keywords, w)
    BY <2>1 DEF Best
  <2>3. /\ Output(keywords, w) = OwnOutput(keywords, Ending(w, l))
        /\ Output(keywords, v) = OwnOutput(keywords, Ending(v, l))
    BY <2>1, <2>2, OutputIs
  <2> QED BY <2>2, <2>3
<1> QED BY <1>1, <1>2

\* A keyword that ends a word ends its longest ending in the trie.
LEMMA OutputLongest ==
    ASSUME NEW keywords, KeywordsOK(keywords), NEW w \in Seq(Nat)
    PROVE  Output(keywords, Longest(Nodes(keywords), w)) = Output(keywords, w)
<1> DEFINE N == Nodes(keywords)
           s == Longest(N, w)
           k == Len(s)
<1>1. Trie(N)
  BY NodesTrie
<1> HIDE DEF N
<1>2. s \in Seq(Nat) /\ Fits(N, w, k) /\ s = Ending(w, k)
  BY <1>1, LongestIs
<1>3. k \in 0..Len(w) /\ k \in Nat /\ Len(w) \in Nat
  BY <1>2 DEF Fits
<1> HIDE DEF s
<1>4. \A l \in 0..k : Ending(s, l) = Ending(w, l)
  BY <1>2, <1>3, EndingEnding
<1>5. \A l \in Ends(keywords, w) : l \in 0..k
  <2> TAKE l \in Ends(keywords, w)
  <2>1. l \in 0..Len(w) /\ Ending(w, l) \in N
    BY OwnIs DEF Ends, N
  <2> QED BY <1>2, <1>3, <2>1 DEF Fits
<1>6. Ends(keywords, s) = Ends(keywords, w)
  <2>1. ASSUME NEW l \in Ends(keywords, s) PROVE l \in Ends(keywords, w)
    BY <1>3, <1>4, <2>1 DEF Ends
  <2>2. ASSUME NEW l \in Ends(keywords, w) PROVE l \in Ends(keywords, s)
    BY <1>3, <1>4, <1>5, <2>2 DEF Ends
  <2> QED BY <2>1, <2>2
<1>7. Output(keywords, s) = Output(keywords, w)
  BY <1>2, <1>4, <1>5, <1>6, OutputSame
<1> QED BY <1>7 DEF s, N

LEMMA OutputSelf ==
    ASSUME NEW keywords, NEW w \in Seq(Nat), OwnOutput(keywords, w) # NoMatch
    PROVE  Output(keywords, w) = OwnOutput(keywords, w)
<1>1. Len(w) \in Nat /\ Ending(w, Len(w)) = w
  BY EndingWhole
<1>2. Best(keywords, w, Len(w))
  BY <1>1 DEF Best, Ends
<1> QED BY <1>1, <1>2, OutputIs

LEMMA OutputTail ==
    ASSUME NEW keywords, NEW w \in Seq(Nat), w # <<>>, OwnOutput(keywords, w) = NoMatch
    PROVE  Output(keywords, w) = Output(keywords, Tail(w))
<1>1. /\ Tail(w) \in Seq(Nat) /\ Len(w) \in Nat \ {0} /\ Len(Tail(w)) = Len(w) - 1
      /\ \A l \in 0..(Len(w) - 1) : Ending(Tail(w), l) = Ending(w, l)
  BY EndingTail
<1> DEFINE t == Tail(w)
<1> HIDE DEF t
<1>2. Ending(w, Len(w)) = w
  BY EndingWhole
<1>3. \A l \in Ends(keywords, w) : l \in 0..(Len(w) - 1)
  BY <1>1, <1>2 DEF Ends
<1>4. Ends(keywords, t) = Ends(keywords, w)
  <2>1. ASSUME NEW l \in Ends(keywords, t) PROVE l \in Ends(keywords, w)
    BY <1>1, <2>1 DEF Ends, t
  <2>2. ASSUME NEW l \in Ends(keywords, w) PROVE l \in Ends(keywords, t)
    BY <1>1, <1>3, <2>2 DEF Ends, t
  <2> QED BY <2>1, <2>2
<1>5. Output(keywords, t) = Output(keywords, w)
  BY <1>1, <1>3, <1>4, OutputSame DEF t
<1> QED BY <1>5 DEF t

LEMMA OutputRoot ==
    ASSUME NEW keywords, KeywordsOK(keywords)
    PROVE  Output(keywords, Root) = NoMatch /\ OwnOutput(keywords, Root) = NoMatch
<1>1. OwnOutput(keywords, Root) = NoMatch
  BY OwnIs
<1>2. Root \in Seq(Nat) /\ Len(Root) = 0
  BY DEF Root
<1>4. Ending(Root, 0) = Root
  BY <1>2, EndingWhole DEF Root
<1>3. Ends(keywords, Root) = {}
  BY <1>1, <1>2, <1>4 DEF Ends
<1> QED BY <1>1, <1>2, <1>3, OutputIs

\* Every node's output is the longest keyword that ends it.
LEMMA OutputsAre ==
    ASSUME NEW keywords, KeywordsOK(keywords), NEW fail,
           fail = [n \in Nodes(keywords) |-> Link(Nodes(keywords), n)]
    PROVE  Outputs(keywords, fail) = [n \in Nodes(keywords) |-> Output(keywords, n)]
<1> DEFINE N == Nodes(keywords)
           Own(n) == OwnOutput(keywords, n)
           Solves(o) == o = [node \in DOMAIN fail |->
                               IF Own(node) # NoMatch \/ Len(node) <= 1 THEN Own(node)
                                                                       ELSE o[fail[node]]]
           goal == [n \in N |-> Output(keywords, n)]
           output == CHOOSE o : Solves(o)
<1>1. Trie(N)
  BY NodesTrie
<1>2. DOMAIN fail = N /\ \A n \in N : fail[n] = Link(N, n)
  OBVIOUS
<1>3. Outputs(keywords, fail) = output
  BY Zenon DEF Outputs
<1> HIDE DEF N
<1>4. \A n \in N : /\ n \in Seq(Nat) /\ Len(n) \in Nat /\ fail[n] \in N /\ fail[n] \in Seq(Nat)
                   /\ n # Root => Len(fail[n]) < Len(n)
  BY <1>1, <1>2, LinkType
<1>5. ASSUME NEW n \in N
      PROVE  Output(keywords, n) = IF Own(n) # NoMatch \/ Len(n) <= 1 THEN Own(n)
                                   ELSE Output(keywords, fail[n])
  <2>1. CASE Own(n) # NoMatch
    BY <1>4, <2>1, OutputSelf
  <2>2. CASE Own(n) = NoMatch /\ n = Root
    <3>1. Len(n) <= 1
      BY <2>2 DEF Root
    <3> QED BY <2>2, <3>1, OutputRoot
  <2>3. CASE Own(n) = NoMatch /\ n # Root
    <3> DEFINE t == Tail(n)
    <3>1. t \in Seq(Nat) /\ Len(t) = Len(n) - 1 /\ Len(n) \in Nat \ {0}
      BY <1>4, <2>3, EndingTail DEF Root
    <3>2. Output(keywords, n) = Output(keywords, t)
      BY <1>4, <2>3, OutputTail DEF Root
    <3>3. fail[n] = Longest(N, t)
      BY <1>2, <2>3 DEF Link
    <3> HIDE DEF t
    <3>4. Output(keywords, fail[n]) = Output(keywords, t)
      BY <3>1, <3>3, OutputLongest DEF N
    <3>5. CASE Len(n) <= 1
      <4>1. Len(t) = 0
        BY <3>1, <3>5
      <4>2. t = <<>>
        BY <3>1, <4>1
      <4> QED BY <2>3, <3>2, <3>5, <4>2, OutputRoot DEF Root
    <3>6. CASE ~(Len(n) <= 1)
      BY <2>3, <3>2, <3>4, <3>6
    <3> QED BY <3>5, <3>6
  <2> QED BY <2>1, <2>2, <2>3
<1> HIDE DEF Own
<1>6. Solves(goal)
  <2>1. \A n \in N : goal[n] = IF Own(n) # NoMatch \/ Len(n) <= 1 THEN Own(n) ELSE goal[fail[n]]
    BY <1>4, <1>5
  <2>2. goal = [n \in N |-> goal[n]]
    OBVIOUS
  <2> HIDE DEF goal
  <2> QED BY <1>2, <2>1, <2>2
<1>7. Solves(output)
  BY <1>6, Zenon
<1>8. output = [node \in DOMAIN fail |-> IF Own(node) # NoMatch \/ Len(node) <= 1 THEN Own(node)
                                                                              ELSE output[fail[node]]]
  BY <1>7, Zenon
<1> HIDE DEF output
<1>9. \A n \in N : output[n] = Output(keywords, n)
  <2> DEFINE Good == {n \in N : output[n] = Output(keywords, n)}
  <2>1. ASSUME NEW n \in N, \A m \in N : Len(m) < Len(n) => m \in Good
        PROVE  n \in Good
    <3>1. output[n] = IF Own(n) # NoMatch \/ Len(n) <= 1 THEN Own(n) ELSE output[fail[n]]
      BY <1>2, <1>8, Zenon
    <3>2. ASSUME ~(Len(n) <= 1) PROVE output[fail[n]] = Output(keywords, fail[n])
      <4>1. n # Root
        BY <3>2 DEF Root
      <4> QED BY <1>4, <2>1, <4>1
    <3> QED BY <1>5, <3>1, <3>2
  <2>2. N \in SUBSET Seq(Nat)
    BY <1>4
  <2> HIDE DEF Good
  <2>3. \A n \in N : n \in Good
    BY <2>1, <2>2, ByLength
  <2> QED BY <2>3 DEF Good
<1>10. output = [n \in N |-> output[n]]
  BY <1>2, <1>8
<1> QED BY <1>3, <1>9, <1>10 DEF N

-----------------------------------------------------------------------------
(* The search. *)

\* What the search has read of the text after i code units.
Read(text, i) == [j \in 1..i |-> FoldCode(text[j])]

LEMMA ReadType ==
    ASSUME NEW text \in Seq(Nat), NEW i \in 0..Len(text)
    PROVE  /\ Read(text, i) \in Seq(Nat) /\ Len(Read(text, i)) = i
           /\ \A j \in 1..i : Read(text, i)[j] = FoldCode(text[j])
<1> DEFINE g(j) == FoldCode(text[j])
<1>1. Len(text) \in Nat /\ i \in Nat /\ \A j \in 1..i : j \in 1..Len(text)
  OBVIOUS
<1>2. \A j \in 1..i : g(j) \in Nat
  BY <1>1, FoldedType
<1>3. Read(text, i) = [j \in 1..i |-> g(j)]
  BY DEF Read
<1> HIDE DEF g
<1>4. /\ [j \in 1..i |-> g(j)] \in Seq(Nat) /\ Len([j \in 1..i |-> g(j)]) = i
      /\ \A j \in 1..i : [k \in 1..i |-> g(k)][j] = g(j)
  BY <1>1, <1>2
<1> QED BY <1>3, <1>4 DEF g

LEMMA ReadNext ==
    ASSUME NEW text \in Seq(Nat), NEW i \in 1..Len(text)
    PROVE  /\ FoldCode(text[i]) \in Nat
           /\ Read(text, i) = Append(Read(text, i - 1), FoldCode(text[i]))
<1> DEFINE c == FoldCode(text[i])
           v == Read(text, i)
           u == Read(text, i - 1)
           w == Append(u, c)
<1>1. /\ Len(text) \in Nat /\ i \in Nat \ {0} /\ i - 1 \in Nat
      /\ i \in 0..Len(text) /\ i - 1 \in 0..Len(text) /\ (i - 1) + 1 = i
  OBVIOUS
<1>2. c \in Nat
  BY FoldedType
<1>3. v \in Seq(Nat) /\ Len(v) = i /\ \A j \in 1..i : v[j] = FoldCode(text[j])
  BY <1>1, ReadType
<1>4. u \in Seq(Nat) /\ Len(u) = i - 1 /\ \A j \in 1..(i - 1) : u[j] = FoldCode(text[j])
  BY <1>1, ReadType
<1> HIDE DEF u, v
<1>5. /\ w \in Seq(Nat) /\ Len(w) = i /\ w[i] = c
      /\ \A j \in 1..(i - 1) : w[j] = u[j]
  <2> HIDE DEF c
  <2> QED BY <1>1, <1>2, <1>4
<1> HIDE DEF w
<1>6. \A j \in 1..Len(v) : v[j] = w[j]
  <2> TAKE j \in 1..Len(v)
  <2>1. j = i \/ j \in 1..(i - 1)
    BY <1>1, <1>3
  <2> QED BY <1>1, <1>3, <1>4, <1>5, <2>1
<1>7. v = w
  BY <1>3, <1>5, <1>6, SameWords
<1> QED BY <1>2, <1>7 DEF v, w, u

\* The constructor builds the links and the outputs that are wanted.
LEMMA AutomatonIs ==
    ASSUME NEW keywords, KeywordsOK(keywords)
    PROVE  Automaton(keywords) =
             [fail   |-> [n \in Nodes(keywords) |-> Link(Nodes(keywords), n)],
              output |-> [n \in Nodes(keywords) |-> Output(keywords, n)]]
<1> DEFINE N == Nodes(keywords)
<1>1. FailureLinks(N) = [n \in N |-> Link(N, n)]
  BY NodesTrie, FailureLinksAre
<1>2. Outputs(keywords, FailureLinks(N)) = [n \in N |-> Output(keywords, n)]
  BY <1>1, OutputsAre
<1> QED BY <1>1, <1>2, Zenon DEF Automaton

\* A turn of the search that has not found a keyword yet.
LEMMA TurnIs ==
    ASSUME NEW keywords, KeywordsOK(keywords), NEW w \in Seq(Nat), NEW code,
           FoldCode(code) \in Nat,
           NEW s, s = [node |-> Longest(Nodes(keywords), w), match |-> NoMatch]
    PROVE  Turn(Automaton(keywords), s, code) =
             [node  |-> Longest(Nodes(keywords), Append(w, FoldCode(code))),
              match |-> Output(keywords, Append(w, FoldCode(code)))]
<1> DEFINE N == Nodes(keywords)
           a == Automaton(keywords)
           c == FoldCode(code)
           node == Follow(DOMAIN a.fail, a.fail, DOMAIN a.fail, s.node, c)
<1>1. Trie(N)
  BY NodesTrie
<1>2. /\ a.fail = [n \in N |-> Link(N, n)]
      /\ a.output = [n \in N |-> Output(keywords, n)]
  BY AutomatonIs
<1>3. s.node = Longest(N, w) /\ s.match = NoMatch
  OBVIOUS
<1>4. Turn(a, s, code) = [node |-> node, match |-> a.output[node]]
  BY <1>3, Zenon DEF Turn
<1>5. c \in Nat /\ Append(w, c) \in Seq(Nat)
  OBVIOUS
<1> HIDE DEF N, a, c
<1>6. s.node \in N
  BY <1>1, <1>3, LongestIs
<1>7. \A n \in N : a.fail[n] = Link(N, n) /\ Link(N, n) \in N
  BY <1>1, <1>2, LinkType
<1>8. Root \in N /\ N \in SUBSET N /\ DOMAIN a.fail = N
  BY <1>1, <1>2 DEF Trie
<1>9. node = Longest(N, Append(s.node, c))
  <2>1. Follow(N, a.fail, N, s.node, c) = Longest(N, Append(s.node, c))
    BY <1>1, <1>5, <1>6, <1>7, <1>8, FollowIs
  <2> QED BY <1>8, <2>1, Zenon
<1>10. node = Longest(N, Append(w, c))
  BY <1>1, <1>3, <1>5, <1>9, LongestAppend
<1> HIDE DEF node
<1>11. node \in N /\ Output(keywords, node) = Output(keywords, Append(w, c))
  <2>1. node \in N
    BY <1>1, <1>5, <1>10, LongestIs
  <2> QED BY <1>5, <1>10, <2>1, OutputLongest DEF N
<1> QED BY <1>2, <1>4, <1>10, <1>11 DEF N, a, c

\* Where a keyword ends in the first i code units, and where the first does.
Hits(keywords, text, i) == {j \in 1..i : Output(keywords, Read(text, j)) # NoMatch}

FirstHit(keywords, text, i, j) ==
    /\ j \in Hits(keywords, text, i)
    /\ \A k \in Hits(keywords, text, i) : j <= k

\* Where the search has stopped, or stands.
Stop(keywords, text, i) ==
    IF Hits(keywords, text, i) = {} THEN i
    ELSE CHOOSE j \in 1..i : FirstHit(keywords, text, i, j)

Searched(keywords, text, i) ==
    LET w == Read(text, Stop(keywords, text, i))
    IN  [node |-> Longest(Nodes(keywords), w), match |-> Output(keywords, w)]

LEMMA StopIs ==
    ASSUME NEW keywords, NEW text \in Seq(Nat), NEW i \in 0..Len(text)
    PROVE  /\ Stop(keywords, text, i) \in 0..i
           /\ Hits(keywords, text, i) = {} => Stop(keywords, text, i) = i
           /\ Hits(keywords, text, i) # {} =>
                FirstHit(keywords, text, i, Stop(keywords, text, i))
           /\ \A j : FirstHit(keywords, text, i, j) => Stop(keywords, text, i) = j
<1> DEFINE H == Hits(keywords, text, i)
           S == Stop(keywords, text, i)
           T == CHOOSE j \in 1..i : FirstHit(keywords, text, i, j)
<1>1. i \in Nat /\ H \in SUBSET (1..i) /\ H \in SUBSET Nat
  BY DEF Hits
<1>2. S = IF H = {} THEN i ELSE T
  BY Zenon DEF Stop
<1> HIDE DEF H, S
<1>3. ASSUME H # {} PROVE \E j \in 1..i : FirstHit(keywords, text, i, j)
  <2>1. PICK j \in H : \A k \in H : j <= k
    BY <1>1, <1>3, LeastNatural
  <2> QED BY <1>1, <2>1 DEF FirstHit, H
<1>4. H # {} => T \in 1..i /\ FirstHit(keywords, text, i, T)
  BY <1>3
<1> HIDE DEF T
<1>5. ASSUME NEW j, FirstHit(keywords, text, i, j) PROVE H # {} /\ j = T
  <2>1. j \in H /\ H # {}
    BY <1>5 DEF FirstHit, H
  <2>2. T \in H /\ T <= j /\ j <= T
    BY <1>4, <1>5, <2>1 DEF FirstHit, H
  <2> QED BY <1>1, <2>1, <2>2
<1> QED BY <1>1, <1>2, <1>4, <1>5 DEF H, S

\* Each turn leads from where the search is to where it is to be.
LEMMA SearchedNext ==
    ASSUME NEW keywords, KeywordsOK(keywords), NEW text \in Seq(Nat), NEW i \in 1..Len(text)
    PROVE  Searched(keywords, text, i) =
             Turn(Automaton(keywords), Searched(keywords, text, i - 1), text[i])
<1> DEFINE H(k) == Hits(keywords, text, k)
           S(k) == Stop(keywords, text, k)
           Out(k) == Output(keywords, Read(text, k))
           At0 == Searched(keywords, text, i - 1)
<1>1. /\ i \in Nat \ {0} /\ i - 1 \in Nat /\ i \in 0..Len(text) /\ i - 1 \in 0..Len(text)
      /\ Len(text) \in Nat
  OBVIOUS
<1>2. \A k : \A j : j \in H(k) <=> j \in 1..k /\ Out(j) # NoMatch
  BY Zenon DEF Hits
<1>3. /\ S(i - 1) \in 0..(i - 1)
      /\ H(i - 1) = {} => S(i - 1) = i - 1
      /\ H(i - 1) # {} => FirstHit(keywords, text, i - 1, S(i - 1))
  BY <1>1, StopIs
<1>4. /\ H(i) = {} => S(i) = i
      /\ \A j : FirstHit(keywords, text, i, j) => S(i) = j
  BY <1>1, StopIs
<1>5. /\ At0 = [node  |-> Longest(Nodes(keywords), Read(text, S(i - 1))), match |-> Out(S(i - 1))]
      /\ Searched(keywords, text, i) =
           [node  |-> Longest(Nodes(keywords), Read(text, S(i))), match |-> Out(S(i))]
  BY Zenon DEF Searched
<1>6. \A k : \A j : FirstHit(keywords, text, k, j) <=> j \in H(k) /\ \A m \in H(k) : j <= m
  BY Zenon DEF FirstHit
<1> HIDE DEF H, S, Out, At0
<1>7. CASE H(i - 1) # {}
  <2>1. S(i - 1) \in H(i - 1) /\ S(i - 1) \in 1..(i - 1) /\ \A m \in H(i - 1) : S(i - 1) <= m
    BY <1>2, <1>3, <1>6, <1>7
  <2>2. \A m \in H(i) : m \in H(i - 1) \/ m = i
    BY <1>1, <1>2
  <2>3. S(i - 1) \in H(i) /\ \A m \in H(i) : S(i - 1) <= m
    BY <1>1, <1>2, <2>1, <2>2
  <2>4. S(i) = S(i - 1)
    BY <1>4, <1>6, <2>3
  <2>5. At0.match # NoMatch
    BY <1>2, <1>5, <2>1
  <2>6. Turn(Automaton(keywords), At0, text[i]) = At0
    BY <2>5, Zenon DEF Turn
  <2> QED BY <1>5, <2>4, <2>6 DEF At0
<1>8. CASE H(i - 1) = {}
  <2> DEFINE w == Read(text, i - 1)
             c == FoldCode(text[i])
  <2>1. w \in Seq(Nat) /\ Len(w) = i - 1 /\ c \in Nat /\ Read(text, i) = Append(w, c)
    BY <1>1, ReadType, ReadNext
  <2>2. Out(i - 1) = NoMatch
    <3>1. CASE i - 1 = 0
      <4>1. w = Root
        BY <2>1, <3>1 DEF Root
      <4> QED BY <4>1, OutputRoot DEF Out
    <3>2. CASE i - 1 # 0
      <4>1. i - 1 \in 1..(i - 1)
        BY <1>1, <3>2
      <4> QED BY <1>2, <1>8, <4>1
    <3> QED BY <3>1, <3>2
  <2>3. At0 = [node |-> Longest(Nodes(keywords), w), match |-> NoMatch]
    BY <1>3, <1>5, <1>8, <2>2
  <2> HIDE DEF w, c
  <2>4. Turn(Automaton(keywords), At0, text[i]) =
          [node |-> Longest(Nodes(keywords), Append(w, c)), match |-> Output(keywords, Append(w, c))]
    BY <2>1, <2>3, TurnIs DEF c
  <2>5. S(i) = i
    <3>1. CASE H(i) = {}
      BY <1>4, <3>1
    <3>2. CASE H(i) # {}
      <4>1. \A m \in H(i) : m = i
        <5> TAKE m \in H(i)
        <5>1. m \in 1..i /\ m \notin H(i - 1) /\ Out(m) # NoMatch
          BY <1>2, <1>8
        <5>2. m \notin 1..(i - 1)
          BY <1>2, <5>1
        <5> QED BY <1>1, <5>1, <5>2
      <4>2. i \in H(i) /\ \A m \in H(i) : i <= m
        BY <1>1, <3>2, <4>1
      <4> QED BY <1>4, <1>6, <4>2
    <3> QED BY <3>1, <3>2
  <2> QED BY <1>5, <2>1, <2>4, <2>5 DEF Out, At0
<1> QED BY <1>7, <1>8

\* The search returns the output of where it stops.
LEMMA SearchIs ==
    ASSUME NEW keywords, KeywordsOK(keywords), NEW text \in Seq(Nat)
    PROVE  SearchInsensitive(Automaton(keywords), text) =
             Output(keywords, Read(text, Stop(keywords, text, Len(text))))
<1> DEFINE n == Len(text)
           a == Automaton(keywords)
           first == [node |-> Root, match |-> NoMatch]
           Solves(f) == f = [i \in 0..Len(text) |->
                               IF i = 0 THEN [node |-> Root, match |-> NoMatch]
                                        ELSE Turn(a, f[i - 1], text[i])]
           goal == [i \in 0..Len(text) |-> Searched(keywords, text, i)]
           after == CHOOSE f : Solves(f)
<1>1. SearchInsensitive(a, text) = after[Len(text)].match
  BY Zenon DEF SearchInsensitive
<1>2. Searched(keywords, text, 0) = first
  <2>1. Len(text) \in Nat /\ 0 \in 0..Len(text)
    OBVIOUS
  <2>2. Stop(keywords, text, 0) = 0
    <3>1. Stop(keywords, text, 0) \in 0..0
      BY <2>1, StopIs
    <3> QED BY <3>1
  <2>3. Read(text, 0) = <<>>
    <3>1. Read(text, 0) \in Seq(Nat) /\ Len(Read(text, 0)) = 0
      BY <2>1, ReadType
    <3> QED BY <3>1
  <2>4. Output(keywords, <<>>) = NoMatch
    BY OutputRoot DEF Root
  <2>5. Longest(Nodes(keywords), <<>>) = Root
    <3>1. Trie(Nodes(keywords))
      BY NodesTrie
    <3>2. Root \in Nodes(keywords) /\ Root \in Seq(Nat)
      BY <3>1 DEF Trie
    <3> QED BY <3>1, <3>2, LongestSelf DEF Root
  <2> QED BY <2>2, <2>3, <2>4, <2>5 DEF Searched
<1> HIDE DEF a
<1>3. \A i \in 0..Len(text) :
        Searched(keywords, text, i) = IF i = 0 THEN first
                                      ELSE Turn(a, Searched(keywords, text, i - 1), text[i])
  <2> TAKE i \in 0..Len(text)
  <2>1. CASE i = 0
    BY <1>2, <2>1
  <2>2. CASE i # 0
    <3>1. i \in 1..Len(text)
      BY <2>2
    <3> QED BY <2>2, <3>1, SearchedNext DEF a
  <2> QED BY <2>1, <2>2
<1>4. Solves(goal)
  <2>1. \A i \in 0..Len(text) : i # 0 => i - 1 \in 0..Len(text)
    OBVIOUS
  <2>2. \A i \in 0..Len(text) : goal[i] = IF i = 0 THEN first ELSE Turn(a, goal[i - 1], text[i])
    BY <1>3, <2>1
  <2>3. goal = [i \in 0..Len(text) |-> goal[i]]
    OBVIOUS
  <2> HIDE DEF goal
  <2> QED BY <2>2, <2>3
<1>5. Solves(after)
  BY <1>4, Zenon
<1> HIDE DEF after
<1>6. \A i \in 0..Len(text) : after[i] = IF i = 0 THEN first ELSE Turn(a, after[i - 1], text[i])
  BY <1>5
<1> DEFINE Good == {i \in Nat : i <= Len(text) => after[i] = Searched(keywords, text, i)}
<1> HIDE DEF first
<1>7. 0 \in Good
  BY <1>3, <1>6
<1>8. ASSUME NEW i \in Nat, i \in Good PROVE i + 1 \in Good
  <2> SUFFICES ASSUME i + 1 <= Len(text) PROVE after[i + 1] = Searched(keywords, text, i + 1)
    OBVIOUS
  <2>1. i + 1 \in 0..Len(text) /\ i + 1 # 0 /\ (i + 1) - 1 = i /\ i <= Len(text)
    OBVIOUS
  <2>2. after[i] = Searched(keywords, text, i)
    BY <1>8, <2>1
  <2>3. /\ after[i + 1] = Turn(a, after[i], text[i + 1])
        /\ Searched(keywords, text, i + 1) = Turn(a, Searched(keywords, text, i), text[i + 1])
    BY <1>3, <1>6, <2>1, Zenon
  <2> QED BY <2>2, <2>3
<1> HIDE DEF Good
<1>9. Len(text) \in Good /\ Len(text) \in Nat
  <2>1. Len(text) \in Nat
    OBVIOUS
  <2> QED BY <1>7, <1>8, <2>1, SetInduction
<1>10. after[Len(text)] = Searched(keywords, text, Len(text))
  BY <1>9 DEF Good
<1> QED BY <1>1, <1>10 DEF Searched, a

-----------------------------------------------------------------------------
(* What the search returns, in the words of its caller. *)

LowerKeywords(keywords) ==
    KeywordsOK(keywords) /\ \A k \in DOMAIN keywords : keywords[k] \in Seq(KeywordCodes)

LEMMA FoldedSelf ==
    ASSUME NEW kw \in Seq(KeywordCodes)
    PROVE  kw \in Seq(Nat) /\ Folded(kw) = kw
<1>1. Len(kw) \in Nat /\ \A i \in 1..Len(kw) : kw[i] \in KeywordCodes
  OBVIOUS
<1>2. \A c \in KeywordCodes : c \in Nat /\ FoldCode(c) = c
  BY DEF KeywordCodes, FoldCode
<1>3. kw \in Seq(Nat)
  <2> DEFINE n == Len(kw)
             g(i) == kw[i]
  <2>1. kw = [i \in 1..n |-> g(i)]
    OBVIOUS
  <2>2. n \in Nat /\ \A i \in 1..n : g(i) \in Nat
    BY <1>1, <1>2
  <2> HIDE DEF n, g
  <2>3. [i \in 1..n |-> g(i)] \in Seq(Nat)
    BY <2>2
  <2> QED BY <2>1, <2>3
<1>4. Folded(kw) \in Seq(Nat) /\ Len(Folded(kw)) = Len(kw)
      /\ \A i \in 1..Len(kw) : Folded(kw)[i] = kw[i]
  BY <1>1, <1>2, <1>3, FoldedType
<1>5. Folded(kw) = kw
  BY <1>3, <1>4, SameWords
<1> QED BY <1>3, <1>5

\* A keyword ends in the text where it ends what the search has read of it.
LEMMA EndsAtIs ==
    ASSUME NEW kw \in Seq(KeywordCodes), NEW text \in Seq(Nat), NEW i \in 1..Len(text)
    PROVE  EndsAt(kw, text, i) <=> Len(kw) <= i /\ Ending(Read(text, i), Len(kw)) = kw
<1> DEFINE l == Len(kw)
           w == Read(text, i)
           sub == SubSeq(text, i - l + 1, i)
           e == Ending(w, l)
<1> SUFFICES ASSUME l <= i PROVE SameText(kw, sub) <=> e = kw
  BY DEF EndsAt
<1>1. /\ l \in Nat /\ i \in Nat \ {0} /\ i \in 0..Len(text) /\ Len(text) \in Nat
      /\ i <= Len(text) /\ kw \in Seq(Nat)
      /\ \A j \in 1..l : kw[j] \in KeywordCodes
  BY FoldedSelf
<1>2. /\ Len(sub) = l
      /\ \A j \in 1..l : sub[j] = text[i - l + j] /\ text[i - l + j] \in Nat
  BY <1>1
<1>3. w \in Seq(Nat) /\ Len(w) = i /\ \A j \in 1..i : w[j] = FoldCode(text[j])
  BY <1>1, ReadType
<1> HIDE DEF w, sub
<1>4. e \in Seq(Nat) /\ Len(e) = l /\ \A j \in 1..l : e[j] = w[i - l + j]
  <2>1. l \in 0..Len(w)
    BY <1>1, <1>3
  <2> QED BY <1>3, <2>1, EndingType
<1> HIDE DEF e, l
<1>5. \A c \in KeywordCodes : \A t \in Nat : LowerCase(c) = LowerCase(t) <=> FoldCode(t) = c
  <2> TAKE c \in KeywordCodes
  <2> TAKE t \in Nat
  <2>1. c \in Nat /\ c < 127 /\ ~(c \in 65..90) /\ LowerCase(c) = c
    BY DEF KeywordCodes, LowerCase
  <2>2. CASE t \in 65..90
    BY <2>1, <2>2 DEF LowerCase, FoldCode
  <2>3. CASE ~(t \in 65..90) /\ t < 127
    BY <2>1, <2>3 DEF LowerCase, FoldCode
  <2>4. CASE ~(t \in 65..90) /\ ~(t < 127)
    BY <2>1, <2>4 DEF LowerCase, FoldCode, NonAsciiBucket
  <2> QED BY <2>2, <2>3, <2>4
<1>6. ASSUME NEW j \in 1..l
      PROVE  LowerCase(kw[j]) = LowerCase(sub[j]) <=> e[j] = kw[j]
  <2>1. i - l + j \in 1..i
    BY <1>1
  <2>2. e[j] = FoldCode(text[i - l + j]) /\ sub[j] = text[i - l + j] /\ text[i - l + j] \in Nat
    BY <1>2, <1>3, <1>4, <2>1
  <2> QED BY <1>1, <1>5, <2>2
<1>7. SameText(kw, sub) <=> \A j \in 1..l : e[j] = kw[j]
  BY <1>2, <1>6 DEF SameText, l
<1>8. (\A j \in 1..l : e[j] = kw[j]) <=> e = kw
  <2>1. ASSUME \A j \in 1..l : e[j] = kw[j] PROVE e = kw
    BY <1>1, <1>4, <2>1, SameWords DEF l
  <2> QED BY <2>1
<1> QED BY <1>7, <1>8

\* What there is to output after i code units: the longest keyword there.
LEMMA OutputAt ==
    ASSUME NEW keywords, LowerKeywords(keywords), NEW text \in Seq(Nat), NEW i \in 1..Len(text)
    PROVE  LET out == Output(keywords, Read(text, i))
           IN  /\ out # NoMatch <=> \E k \in DOMAIN keywords : EndsAt(keywords[k], text, i)
               /\ out # NoMatch =>
                    /\ \E k \in DOMAIN keywords : out = keywords[k]
                    /\ EndsAt(out, text, i)
                    /\ \A k \in DOMAIN keywords :
                         EndsAt(keywords[k], text, i) => Len(keywords[k]) <= Len(out)
<1> DEFINE w == Read(text, i)
           out == Output(keywords, w)
           E == Ends(keywords, w)
<1>1. /\ i \in Nat \ {0} /\ i \in 0..Len(text) /\ KeywordsOK(keywords)
      /\ \A k \in DOMAIN keywords : /\ keywords[k] \in Seq(KeywordCodes)
                                    /\ keywords[k] \in Seq(Nat) /\ Len(keywords[k]) \in Nat
                                    /\ Folded(keywords[k]) = keywords[k]
  BY FoldedSelf DEF LowerKeywords
<1>2. w \in Seq(Nat) /\ Len(w) = i
  BY <1>1, ReadType
<1>3. \A k \in DOMAIN keywords :
        EndsAt(keywords[k], text, i) <=>
          Len(keywords[k]) <= i /\ Ending(w, Len(keywords[k])) = keywords[k]
  BY <1>1, EndsAtIs
<1> HIDE DEF w
<1>4. \A l \in 0..i : Ending(w, l) \in Seq(Nat) /\ Len(Ending(w, l)) = l
  BY <1>2, EndingType
<1>5. \A l : l \in E <=> l \in 0..i /\ OwnOutput(keywords, Ending(w, l)) # NoMatch
  BY <1>2 DEF Ends
<1>6. ASSUME NEW k \in DOMAIN keywords, EndsAt(keywords[k], text, i)
      PROVE  Len(keywords[k]) \in E
  <2>1. Len(keywords[k]) \in 0..i /\ Ending(w, Len(keywords[k])) = keywords[k]
    BY <1>1, <1>3, <1>6
  <2>2. OwnOutput(keywords, keywords[k]) # NoMatch
    BY <1>1, OwnIs
  <2> QED BY <1>5, <2>1, <2>2
<1>7. ASSUME NEW l \in E
      PROVE  \E k \in DOMAIN keywords :
               /\ OwnOutput(keywords, Ending(w, l)) = keywords[k]
               /\ EndsAt(keywords[k], text, i) /\ Len(keywords[k]) = l
  <2>1. l \in 0..i /\ OwnOutput(keywords, Ending(w, l)) # NoMatch
    BY <1>5
  <2>2. PICK k \in DOMAIN keywords : /\ OwnOutput(keywords, Ending(w, l)) = keywords[k]
                                     /\ Folded(keywords[k]) = Ending(w, l)
    BY <1>1, <2>1, OwnIs
  <2>3. keywords[k] = Ending(w, l) /\ Len(keywords[k]) = l
    BY <1>1, <1>4, <2>1, <2>2
  <2>4. EndsAt(keywords[k], text, i)
    BY <1>3, <2>1, <2>3
  <2> QED BY <2>2, <2>3, <2>4
<1>8. /\ E \in SUBSET Nat /\ (E = {} <=> out = NoMatch)
      /\ E # {} => \E l : Best(keywords, w, l)
      /\ \A l : Best(keywords, w, l) => out = OwnOutput(keywords, Ending(w, l))
  BY <1>2, OutputIs
<1>9. \A l : Best(keywords, w, l) => l \in E /\ \A m \in E : m <= l
  BY Zenon DEF Best
<1> HIDE DEF E, out
<1>10. out # NoMatch <=> \E k \in DOMAIN keywords : EndsAt(keywords[k], text, i)
  <2>1. ASSUME out # NoMatch PROVE \E k \in DOMAIN keywords : EndsAt(keywords[k], text, i)
    <3>1. PICK l : l \in E
      BY <1>8, <2>1
    <3> QED BY <1>7, <3>1
  <2>2. ASSUME NEW k \in DOMAIN keywords, EndsAt(keywords[k], text, i) PROVE out # NoMatch
    BY <1>6, <1>8, <2>2
  <2> QED BY <2>1, <2>2
<1>11. ASSUME out # NoMatch
       PROVE  /\ \E k \in DOMAIN keywords : out = keywords[k]
              /\ EndsAt(out, text, i)
              /\ \A k \in DOMAIN keywords :
                   EndsAt(keywords[k], text, i) => Len(keywords[k]) <= Len(out)
  <2>1. PICK l : Best(keywords, w, l)
    BY <1>8, <1>11
  <2>2. l \in E /\ (\A m \in E : m <= l) /\ out = OwnOutput(keywords, Ending(w, l))
    BY <1>8, <1>9, <2>1
  <2>3. PICK k \in DOMAIN keywords :
          out = keywords[k] /\ EndsAt(keywords[k], text, i) /\ Len(keywords[k]) = l
    BY <1>7, <2>2
  <2> QED BY <1>6, <2>2, <2>3
<1> QED BY <1>10, <1>11 DEF out, w

\* Of the keywords that end first in a text the search returns the longest,
\* for any keywords without capitals and any text (aho-corasick.js).
THEOREM SearchReturnsFirst ==
    ASSUME NEW keywords, LowerKeywords(keywords), NEW text \in Seq(Nat)
    PROVE  SearchInsensitive(Automaton(keywords), text) = FirstMatch(keywords, text)
<1> DEFINE n == Len(text)
           H == Hits(keywords, text, n)
           S == Stop(keywords, text, n)
           out == Output(keywords, Read(text, S))
           all == {keywords[k] : k \in DOMAIN keywords}
           ends == {i \in 1..Len(text) : \E kw \in all : EndsAt(kw, text, i)}
           Wanted(kw) == /\ EndsAt(kw, text, Min(ends))
                         /\ \A other \in all :
                              EndsAt(other, text, Min(ends)) => Len(other) <= Len(kw)
<1>1. /\ SearchInsensitive(Automaton(keywords), text) = out
      /\ FirstMatch(keywords, text) = IF ends = {} THEN NoMatch ELSE CHOOSE kw \in all : Wanted(kw)
  <2>1. KeywordsOK(keywords)
    BY DEF LowerKeywords
  <2>2. SearchInsensitive(Automaton(keywords), text) = out
    BY <2>1, SearchIs
  <2> QED BY <2>2, Zenon DEF FirstMatch
<1>2. n \in Nat /\ n \in 0..Len(text)
  OBVIOUS
<1>3. /\ S \in 0..n /\ (H = {} => S = n) /\ (H # {} => FirstHit(keywords, text, n, S))
  BY <1>2, StopIs
<1>4. \A i \in 1..n : Output(keywords, Read(text, i)) # NoMatch <=>
                        \E k \in DOMAIN keywords : EndsAt(keywords[k], text, i)
  BY OutputAt
<1>5. H = ends
  BY <1>4 DEF Hits
<1>6. CASE ends = {}
  <2>1. S = n /\ \A i \in 1..n : Output(keywords, Read(text, i)) = NoMatch
    BY <1>3, <1>5, <1>6 DEF Hits
  <2>2. out = NoMatch
    <3>1. CASE n = 0
      <4>1. Read(text, S) \in Seq(Nat) /\ Len(Read(text, S)) = 0
        BY <1>2, <2>1, <3>1, ReadType
      <4>2. Read(text, S) = Root
        BY <4>1 DEF Root
      <4> QED BY <4>2, OutputRoot DEF LowerKeywords
    <3>2. CASE n # 0
      <4>1. n \in 1..n
        BY <1>2, <3>2
      <4> QED BY <2>1, <4>1
    <3> QED BY <3>1, <3>2
  <2> QED BY <1>1, <1>6, <2>2
<1>7. CASE ends # {}
  <2>1. S \in ends /\ (\A i \in ends : S <= i) /\ S \in 1..n /\ out # NoMatch
    BY <1>3, <1>5, <1>7 DEF FirstHit, Hits
  <2>2. Min(ends) = S
    <3>1. \A i \in ends : i \in Nat
      BY <1>2
    <3> HIDE DEF ends
    <3>2. \A m \in ends : (\A y \in ends : m <= y) <=> m = S
      BY <2>1, <3>1
    <3>3. Min(ends) = CHOOSE m \in ends : \A y \in ends : m <= y
      BY Zenon DEF Min
    <3> QED BY <2>1, <3>2, <3>3
  <2>3. /\ \E k \in DOMAIN keywords : out = keywords[k]
        /\ EndsAt(out, text, S)
        /\ \A k \in DOMAIN keywords : EndsAt(keywords[k], text, S) => Len(keywords[k]) <= Len(out)
    BY <2>1, OutputAt
  <2>4. out \in all /\ Wanted(out)
    BY <2>2, <2>3
  <2>5. ASSUME NEW kw \in all, Wanted(kw) PROVE kw = out
    <3>1. PICK k \in DOMAIN keywords : kw = keywords[k]
      OBVIOUS
    <3>2. kw \in Seq(KeywordCodes) /\ out \in Seq(KeywordCodes)
          /\ Len(kw) \in Nat /\ Len(out) \in Nat
      BY <2>3, <3>1 DEF LowerKeywords
    <3>3. EndsAt(kw, text, S) /\ Len(kw) <= Len(out) /\ Len(out) <= Len(kw)
      BY <2>2, <2>3, <2>4, <2>5, <3>1
    <3>4. Len(kw) = Len(out)
      BY <3>2, <3>3
    <3> QED BY <2>1, <2>3, <3>2, <3>3, <3>4, EndsAtIs
  <2> HIDE DEF out, ends, all, Wanted
  <2>6. (CHOOSE kw \in all : Wanted(kw)) = out
    BY <2>4, <2>5, Zenon
  <2> QED BY <1>1, <1>7, <2>6
<1> QED BY <1>6, <1>7

\* A search that returns nothing passed no keyword.
LEMMA SearchMisses ==
    ASSUME NEW keywords, LowerKeywords(keywords), NEW text \in Seq(Nat),
           SearchInsensitive(Automaton(keywords), text) = NoMatch
    PROVE  \A k \in DOMAIN keywords : \A i \in 1..Len(text) : ~EndsAt(keywords[k], text, i)
<1> DEFINE n == Len(text)
           S == Stop(keywords, text, n)
<1>1. n \in Nat /\ n \in 0..Len(text)
  OBVIOUS
<1>2. Output(keywords, Read(text, S)) = NoMatch
  BY SearchIs DEF LowerKeywords
<1>3. Hits(keywords, text, n) = {}
  <2> SUFFICES ASSUME Hits(keywords, text, n) # {} PROVE FALSE
    OBVIOUS
  <2>1. S \in Hits(keywords, text, n)
    BY <1>1, StopIs DEF FirstHit
  <2> QED BY <1>2, <2>1 DEF Hits
<1>4. \A i \in 1..n : Output(keywords, Read(text, i)) = NoMatch
  BY <1>3 DEF Hits
<1> QED BY <1>4, OutputAt
=============================================================================
