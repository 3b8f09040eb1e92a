---------------------------- MODULE SignalSweep -----------------------------
(***************************************************************************)
(* The correlation primitive of the behavioural tracker                    *)
(* (packages/fw-agent/src/behavior-tracker.js): buildSeparatorPrefix, which*)
(* counts statement boundaries, and withinContext, which sweeps a window   *)
(* over the positions of several signals.  Positions are offsets, counted  *)
(* from 0 as in the code, into a text that is a sequence of code units.    *)
(***************************************************************************)
EXTENDS Naturals, Sequences, FiniteSets

CONSTANTS
    MaxSeparators,   \* CORRELATION_MAX_SEPARATORS
    MaxChars         \* CORRELATION_MAX_CHARS

ASSUME SweepAssumption == MaxSeparators \in Nat /\ MaxChars \in Nat

Newline    == 10
Blanks     == {9, 13, 32}
Separators == {59, 123, 125}     \* ; { }

At(text, pos) == text[pos + 1]
Offsets(text) == 0..(Len(text) - 1)

-----------------------------------------------------------------------------
(* buildSeparatorPrefix(scanSrc) *)

\* Mutant: a newline counts whatever its line holds.
LineEnd_Always(s) == [s EXCEPT !.count = @ + 1, !.content = FALSE]

\* A newline ends a statement if its line has content and no separator last.
LineEnd(s) ==
    IF s.content /\ ~s.boundary
      THEN [count |-> s.count + 1, content |-> FALSE, boundary |-> TRUE]
      ELSE [s EXCEPT !.content = FALSE]

NoneRead == [count |-> 0, content |-> FALSE, boundary |-> FALSE]

\* One turn of the loop, on the code unit c.
Advance(s, c) ==
    IF c \in Separators
      THEN [count |-> s.count + 1, content |-> TRUE, boundary |-> TRUE]
    ELSE IF c = Newline THEN LineEnd(s)
    ELSE IF c \in Blanks THEN s
    ELSE [s EXCEPT !.content = TRUE, !.boundary = FALSE]

\* The loop's state after each number of code units; .count is sep[i].
SeparatorPrefix(text) ==
    LET prefix[i \in 0..Len(text)] ==
          IF i = 0 THEN NoneRead ELSE Advance(prefix[i - 1], text[i])
    IN  [i \in 0..Len(text) |-> prefix[i].count]

-----------------------------------------------------------------------------
(* withinContext(positionGroups, sepPrefix, maxSeparators, maxChars) *)

VARIABLES
    sep,      \* sepPrefix
    points,   \* [pos, group] for every position, sorted by pos
    left, right,
    counts,   \* for each group, its points in the window
    filled,   \* groups with a point in the window
    sweep     \* "off", before counting or shrinking at `right', or the result

sweepVars == <<sep, points, left, right, counts, filled, sweep>>

SweepInit ==
    /\ sep = <<>>
    /\ points = <<>>
    /\ left = 1
    /\ right = 1
    /\ counts = <<>>
    /\ filled = 0
    /\ sweep = "off"

Points(groups) ==
    UNION {{[pos |-> pos, group |-> g] : pos \in groups[g]} : g \in DOMAIN groups}

\* sort() is stable: points of one position stay in the order of the groups.
Before(p, q) == p.pos < q.pos \/ (p.pos = q.pos /\ p.group < q.group)

Rank(ps, p) == Cardinality({q \in ps : Before(q, p)})

Sorted(ps) == [i \in 1..Cardinality(ps) |-> CHOOSE p \in ps : Rank(ps, p) = i - 1]

StartSweep(groups, prefix) ==
    /\ sweep = "off"
    /\ sep' = prefix
    /\ points' = Sorted(Points(groups))
    /\ left' = 1
    /\ right' = 1
    /\ counts' = [g \in DOMAIN groups |-> 0]
    /\ filled' = 0
    /\ sweep' = IF \E g \in DOMAIN groups : groups[g] = {} THEN "no" ELSE "count"

CountRight ==
    /\ sweep = "count"
    /\ LET g == points[right].group
       IN  /\ counts' = [counts EXCEPT ![g] = @ + 1]
           /\ filled' = IF counts[g] = 0 THEN filled + 1 ELSE filled
    /\ sweep' = "shrink"
    /\ UNCHANGED <<sep, points, left, right>>

\* Mutant: the window is too wide only when both caps are exceeded.
TooWide_BothCaps ==
    /\ points[right].pos - points[left].pos > MaxChars
    /\ sep[points[right].pos] - sep[points[left].pos] > MaxSeparators

TooWide ==
    \/ points[right].pos - points[left].pos > MaxChars
    \/ sep[points[right].pos] - sep[points[left].pos] > MaxSeparators

\* Mutant: a group that leaves the window still counts as filled.
ShrinkLeft_StaysFilled ==
    /\ sweep = "shrink"
    /\ TooWide
    /\ counts' = [counts EXCEPT ![points[left].group] = @ - 1]
    /\ left' = left + 1
    /\ UNCHANGED <<sep, points, right, filled, sweep>>

ShrinkLeft ==
    /\ sweep = "shrink"
    /\ TooWide
    /\ LET g == points[left].group
       IN  /\ counts' = [counts EXCEPT ![g] = @ - 1]
           /\ filled' = IF counts[g] = 1 THEN filled - 1 ELSE filled
    /\ left' = left + 1
    /\ UNCHANGED <<sep, points, right, sweep>>

Decide ==
    /\ sweep = "shrink"
    /\ ~TooWide
    /\ \/ filled = Len(counts) /\ sweep' = "yes" /\ UNCHANGED right
       \/ /\ filled # Len(counts)
          /\ IF right = Len(points)
               THEN sweep' = "no" /\ UNCHANGED right
               ELSE sweep' = "count" /\ right' = right + 1
    /\ UNCHANGED <<sep, points, left, counts, filled>>

\* The result is read and the sweep put away.
EndSweep ==
    /\ sweep \in {"yes", "no"}
    /\ sweep' = "off"
    /\ sep' = <<>> /\ points' = <<>> /\ counts' = <<>>
    /\ left' = 1 /\ right' = 1
    /\ filled' = 0

-----------------------------------------------------------------------------
(* What the sweep is to find: one position of every group, within both caps. *)

\* The line that a newline at `pos' would end has content and no separator last.
LineOpen(text, pos) ==
    \E last \in 0..(pos - 1) :
        /\ At(text, last) \notin Blanks \cup Separators \cup {Newline}
        /\ \A p \in (last + 1)..(pos - 1) : At(text, p) \in Blanks

\* A statement boundary: a separator, or the end of an open line.
Boundary(text, pos) ==
    \/ At(text, pos) \in Separators
    \/ At(text, pos) = Newline /\ LineOpen(text, pos)

BoundariesBetween(text, lo, hi) ==
    Cardinality({pos \in lo..(hi - 1) : Boundary(text, pos)})

\* A stretch of the text, within both caps, holds a position of every group.
Correlated(text, groups) ==
    \E lo, hi \in Offsets(text) :
        /\ hi - lo <= MaxChars
        /\ BoundariesBetween(text, lo, hi) <= MaxSeparators
        /\ \A g \in DOMAIN groups : groups[g] \cap (lo..hi) # {}

\* At every turn of the loop the counters describe the window: how many points
\* of each group it holds, and how many groups have one.
WindowCounted ==
    sweep \in {"count", "shrink"} =>
        LET last == IF sweep = "count" THEN right - 1 ELSE right
        IN  /\ left <= right
            /\ \A g \in DOMAIN counts :
                 counts[g] = Cardinality({i \in left..last : points[i].group = g})
            /\ filled = Cardinality({g \in DOMAIN counts : counts[g] > 0})
=============================================================================
