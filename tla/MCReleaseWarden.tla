-------------------------- MODULE MCReleaseWarden --------------------------
(***************************************************************************)
(* A directive that may require a review, one review gate of the four      *)
(* (they share one function), two candidates.  A plan is an honest run, or *)
(* one with one or two departures from it; after a rework the engineer and *)
(* the verifier write what an honest run writes.                           *)
(***************************************************************************)
EXTENDS ReleaseWarden, TLC

goodCommit == [files |-> {"plain"}, fresh |-> TRUE]
goodEngineer == [valid |-> TRUE, short |-> FALSE, base |-> 1, note |-> FALSE,
                 status |-> "PASS", tests |-> TRUE, claims |-> "exact", evidence |-> {"engineer"}]
goodVerifier == [valid |-> TRUE, status |-> "PASS", clean |-> TRUE, evidence |-> {"verifier"}]
goodReview == [valid |-> TRUE, status |-> "PASS", denied |-> FALSE, evidence |-> {"verifier"}]
goodThreat == [valid |-> TRUE, status |-> "COMPLETE", evidence |-> {}]
goodDocs == [valid |-> TRUE, inScope |-> TRUE, evidence |-> {}]

ours == [phase |-> Phase, base |-> 1, requires |-> {"quality"}]
theirs == [phase |-> "other", base |-> 2, requires |-> {"threat", "quality", "audit"}]

honest == [commits |-> goodCommit, engineer |-> goodEngineer, verifier |-> goodVerifier,
           gates |-> [threat |-> Absent, quality |-> goodReview, audit |-> Absent],
           docs |-> Absent, torn |-> {}, strays |-> {}, isolated |-> FALSE,
           directives |-> <<Torn, theirs, ours>>]

(* Departures, each a partial plan that overrides the honest one.          *)
engineerSlips == {
  [commits |-> [files |-> {"forbidden"}, fresh |-> TRUE]],
  [commits |-> [files |-> {"self", "baseline"}, fresh |-> TRUE]],
  [commits |-> [files |-> {"self", "baseline"}, fresh |-> FALSE]],
  [engineer |-> [goodEngineer EXCEPT !.valid = FALSE]],
  [engineer |-> [goodEngineer EXCEPT !.short = TRUE]],
  [engineer |-> [goodEngineer EXCEPT !.base = 2]],
  [engineer |-> [goodEngineer EXCEPT !.status = "FAIL"]],
  [engineer |-> [goodEngineer EXCEPT !.tests = FALSE]],
  [engineer |-> [goodEngineer EXCEPT !.claims = "extra"]],
  [engineer |-> [goodEngineer EXCEPT !.claims = "none", !.evidence = {}]]}
verifierSlips == {
  [verifier |-> [goodVerifier EXCEPT !.status = "FAIL"]],
  [verifier |-> [goodVerifier EXCEPT !.clean = FALSE]],
  [verifier |-> [goodVerifier EXCEPT !.evidence = {"engineer"}]],
  [verifier |-> [goodVerifier EXCEPT !.evidence = {}]]}
gateSlips == {
  [gates |-> [honest.gates EXCEPT !["quality"] = Absent]],
  [gates |-> [honest.gates EXCEPT !["quality"] = [goodReview EXCEPT !.status = "FAIL"]]],
  [gates |-> [honest.gates EXCEPT !["threat"] = goodThreat],
   directives |-> <<[ours EXCEPT !.requires = {"threat"}], theirs>>],
  [gates |-> [honest.gates EXCEPT !["threat"] = [goodThreat EXCEPT !.status = "INCOMPLETE"]],
   directives |-> <<[ours EXCEPT !.requires = {"threat"}], theirs>>],
  [gates |-> [honest.gates EXCEPT !["audit"] = [goodReview EXCEPT !.denied = TRUE]]],
  [gates |-> [honest.gates EXCEPT !["audit"] = [goodReview EXCEPT !.status = "FAIL"]]],
  [directives |-> <<theirs>>]}
fileSlips == {
  [torn |-> {"engineer"}], [torn |-> {"quality"}],
  [strays |-> {"verifier"}], [docs |-> goodDocs],
  [docs |-> [goodDocs EXCEPT !.inScope = FALSE]], [isolated |-> TRUE]}

fill(slip) == slip @@ honest
(* First what the plan says, then, on a rework, an honest run.             *)
staged(p) == [p EXCEPT !.commits = (2 :> p.commits) @@ (3 :> goodCommit),
                       !.engineer = (2 :> p.engineer) @@ (3 :> goodEngineer),
                       !.verifier = (2 :> p.verifier) @@ (3 :> goodVerifier)]
MCPlans == {staged(fill(s)) : s \in {[torn |-> {}]} \cup engineerSlips \cup verifierSlips
                                      \cup gateSlips \cup fileSlips}
           \cup {staged(fill([verifier |-> [goodVerifier EXCEPT !.status = "FAIL"]] @@ t)) : t \in gateSlips}
MCReviews == <<"quality">>
=============================================================================
