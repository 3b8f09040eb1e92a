------------------------------- MODULE AstSpans -------------------------------
(***************************************************************************)
(* Which parts of a module's text ast-scan.js parses.  A text is a         *)
(* sequence of cells: a word, a number, a punctuator, a quote, a letter    *)
(* between quotes, a comment mark or a line break is one cell, so an       *)
(* offset counts cells where the code counts characters.  Every occurrence *)
(* of a suspicious shape is a hit with a risk weight; around a hit lies a  *)
(* span of a few statements; spans are scanned by weight, in two budgets.  *)
(***************************************************************************)
EXTENDS Integers, Sequences, FiniteSets, TLC, SequencesExt, FiniteSetsExt

Openers == {"(", "[", "{"}
Closers == {")", "]", "}"}

Holds(s, i, word) == i + Len(word) - 1 <= Len(s) /\ SubSeq(s, i, i + Len(word) - 1) = word
Mentions(s, word) == \E i \in DOMAIN s : Holds(s, i, word)
(* Where cell comes next, from i on and below limit; limit if it does not. *)
NextCell(s, i, cell, limit) == Min({limit} \cup {j \in i..(limit - 1) : s[j] = cell})

-----------------------------------------------------------------------------
(* The keywords and regexes that make the scanner look, with their risk.   *)
Triggers ==
  {<<<<"fromCharCode">>, 3>>, <<<<"unescape", "(">>, 3>>, <<<<"Buffer", ".", "from">>, 3>>,
   <<<<"getPrototypeOf">>, 8>>, <<<<".", "constructor">>, 5>>,
   <<<<".", "reverse", "(", ")">>, 2>>, <<<<".", "join", "(">>, 1>>,
   <<<<"(", "0", ",">>, 1>>, <<<<"require", "(">>, 1>>,
   <<<<"\\u_eval">>, 3>>, <<<<"[", "'">>, 4>>}
  \cup {<<<<"=", "eval", after>>, 10>> : after \in {";", ",", ")"}}
JoinWeight == 6
MaxShort == 24
HighRiskWeight == 5

(* Two short literals with a plus between them.                            *)
JoinsShort(s, i) ==
  LET past == Len(s) + 1
      first == NextCell(s, i + 1, "'", past)
      second == NextCell(s, first + 3, "'", past)
  IN /\ s[i] = "'" /\ Holds(s, first, <<"'", "+", "'">>) /\ second < past
     /\ first - i - 1 <= MaxShort /\ second - first - 3 <= MaxShort

(* The risk of the shapes that start at a cell; 0 where there is none.     *)
RiskAt(s, i) == Max({0} \cup {t[2] : t \in {u \in Triggers : Holds(s, i, u[1])}}
                    \cup (IF JoinsShort(s, i) THEN {JoinWeight} ELSE {}))
Hits(s) == {i \in DOMAIN s : RiskAt(s, i) > 0}

-----------------------------------------------------------------------------
LeadingStatements == 2
TrailingStatements == 3

(* Past the string or comment that starts at i; i itself if none does.  A  *)
(* window that opens inside a string takes its closing quote for an opening.*)
PastOpaque(s, i, limit) ==
  CASE s[i] = "'" -> NextCell(s, i + 1, "'", limit) + 1
    [] s[i] = "//" -> NextCell(s, i, "\n", limit)
    [] s[i] = "/*" -> Min({limit, NextCell(s, i, "*/", limit) + 1})
    [] OTHER -> i

(* One pass over the window with one bracket depth: statement starts up to *)
(* the hit, then the end of the third statement after it or the closer of  *)
(* a construct that the window does not open.  Past the window, or past    *)
(* the break that leaves place at limit, a turn does nothing.              *)
Turn(s, hit, limit, w) ==
  LET i == w.place
      cell == s[i]
      depth == IF cell \in Openers THEN w.depth + 1
               ELSE IF cell \in Closers THEN Max({0, w.depth - 1}) ELSE w.depth
      boundary == depth = 0 /\ cell \in {";", "}"}
      after == IF boundary /\ i >= hit THEN w.after + 1 ELSE w.after
  IN IF i >= limit THEN w
     ELSE IF PastOpaque(s, i, limit) # i THEN [w EXCEPT !.place = PastOpaque(s, i, limit)]
     ELSE IF cell \in Closers /\ w.depth = 0 /\ i >= hit
       THEN [w EXCEPT !.place = limit, !.end = i]
     ELSE IF after > w.after /\ after >= TrailingStatements
       THEN [w EXCEPT !.place = limit, !.end = i + 1]
     ELSE [w EXCEPT !.place = i + 1, !.depth = depth, !.after = after,
                    !.starts = IF boundary /\ i < hit THEN Append(@, i + 1) ELSE @]

From(hit, half) == Max({1, hit - half})
Limit(s, hit, half) == Min({Len(s) + 1, hit + half})
Pass(s, hit, half) ==
  LET from == From(hit, half)
      limit == Limit(s, hit, half)
      turns[n \in 0..(limit - from)] ==
        IF n = 0 THEN [place |-> from, depth |-> 0, starts |-> <<from>>, after |-> 0, end |-> limit]
        ELSE Turn(s, hit, limit, turns[n - 1])
  IN turns[limit - from]
ComputeSpan(s, hit, half) ==
  LET w == Pass(s, hit, half)
  IN [start |-> w.starts[Max({1, Len(w.starts) - LeadingStatements})], end |-> w.end]

(* Hits in order of place; one inside the last span only adds its risk.    *)
AddHit(s, half, i, spans) ==
  LET risk == RiskAt(s, i)
      span == ComputeSpan(s, i, half)
  IN IF risk = 0 THEN spans
     ELSE IF spans # <<>> /\ i < Last(spans).end
       THEN [spans EXCEPT ![Len(spans)].weight = Max({@, risk})]
     ELSE IF span.end <= span.start THEN spans
     ELSE Append(spans, [start |-> span.start, end |-> span.end, weight |-> risk])
SpansUpTo(s, half) ==
  LET spans[i \in 0..Len(s)] == IF i = 0 THEN <<>> ELSE AddHit(s, half, i, spans[i - 1])
  IN spans
FindCandidateSpans(s, half) == SpansUpTo(s, half)[Len(s)]

HighRisk(span) == span.weight >= HighRiskWeight
(* Highest risk first, then in order of place.                             *)
Ahead(spans, i, j) == \/ spans[i].weight > spans[j].weight
                      \/ spans[i].weight = spans[j].weight /\ i < j
Rank(spans, i) == Cardinality({j \in DOMAIN spans : Ahead(spans, j, i)})
ByRisk(spans) == [k \in DOMAIN spans |-> spans[CHOOSE i \in DOMAIN spans : Rank(spans, i) = k - 1]]
=============================================================================
