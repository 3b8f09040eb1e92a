------------------------------ MODULE SpanQueue ------------------------------
(***************************************************************************)
(* The order and the two budgets in which AstScanner.scan takes up the     *)
(* spans of a module's text, and its result: what AstScan adds to a step   *)
(* is what it does inside a span.                                          *)
(***************************************************************************)
EXTENDS AstSpans

CONSTANTS HalfWindows,   \* half of MAX_SPAN_CHARS, in cells
          MaxHighRiskSpans, MaxLowRiskSpans

ASSUME SpanAssumption == /\ HalfWindows \subseteq Nat \ {0}
                         /\ MaxHighRiskSpans \in Nat /\ MaxLowRiskSpans \in Nat

VARIABLES source, half, queue,
          found   \* the lists of result, one after the other

queueVars == <<source, half, queue, found>>

QueueInit == /\ source \in Seq(STRING) /\ half \in HalfWindows /\ found = <<>>
             /\ queue = [at |-> "idle", todo |-> <<>>, high |-> 0, low |-> 0, highSpans |-> 0,
                         looked |-> {}, incomplete |-> FALSE]

(* Without a trigger in the text nothing is parsed.                        *)
FindSpans ==
  /\ queue.at = "idle"
  /\ LET ordered == ByRisk(FindCandidateSpans(source, half)) IN
     queue' = [queue EXCEPT !.at = "spans", !.todo = ordered,
                 !.highSpans = Cardinality({k \in DOMAIN ordered : HighRisk(ordered[k])})]
  /\ UNCHANGED <<source, half, found>>

Spent(span) == IF HighRisk(span) THEN queue.high >= MaxHighRiskSpans
               ELSE queue.low >= MaxLowRiskSpans

PassOver ==
  /\ queue.at = "spans" /\ queue.todo # <<>> /\ Spent(Head(queue.todo))
  /\ queue' = [queue EXCEPT !.todo = Tail(@)]
  /\ UNCHANGED <<source, half, found>>

(* A span that the tokenizer gives up is dropped, and counts as scanned.   *)
TakeUp(dropped) ==
  /\ queue.at = "spans" /\ queue.todo # <<>> /\ ~Spent(Head(queue.todo))
  /\ LET span == Head(queue.todo) IN
     queue' = [queue EXCEPT !.high = IF HighRisk(span) THEN @ + 1 ELSE @,
                            !.low = IF HighRisk(span) THEN @ ELSE @ + 1,
                            !.looked = @ \cup {span},
                            !.at = IF dropped THEN "spans" ELSE "inside",
                            !.todo = Tail(@)]
  /\ UNCHANGED <<source, half, found>>

(* The places of the reports in the result, and the folded literals.       *)
Reports == {i \in DOMAIN found : found[i].kind = "standalone"}
Literals == {found[i].value : i \in {j \in DOMAIN found : found[j].kind = "literal"}}

(* Inside a span what is found is up to the scanner.                       *)
Inside == /\ queue.at = "inside"
          /\ UNCHANGED <<source, half, queue>>

Leave ==
  /\ queue.at = "inside"
  /\ queue' = [queue EXCEPT !.at = "spans"]
  /\ UNCHANGED <<source, half, found>>

(* Variant: a spent budget is not reported.                                *)
Finish_NeverIncomplete ==
  /\ queue.at = "spans" /\ queue.todo = <<>>
  /\ queue' = [queue EXCEPT !.at = "scanned"]
  /\ UNCHANGED <<source, half, found>>

Finish ==
  /\ queue.at = "spans" /\ queue.todo = <<>>
  /\ queue' = [queue EXCEPT !.at = "scanned", !.incomplete = queue.high < queue.highSpans]
  /\ UNCHANGED <<source, half, found>>

QueueStep == PassOver \/ (\E dropped \in BOOLEAN : TakeUp(dropped)) \/ Inside \/ Leave \/ Finish
QueueNext == FindSpans \/ QueueStep
QueueSpec == QueueInit /\ [][QueueNext]_queueVars
-----------------------------------------------------------------------------
(* A scan that calls itself complete took up a span around every high-risk *)
(* hit: no number of low-risk spans before it uses up its budget.          *)
HighRiskLookedAt ==
  queue.at = "scanned" /\ ~queue.incomplete =>
    \A i \in Hits(source) : RiskAt(source, i) >= HighRiskWeight
      => \E span \in queue.looked : i \in span.start..(span.end - 1)
=============================================================================
