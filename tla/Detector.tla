------------------------------- MODULE Detector -------------------------------
(***************************************************************************)
(* Detector.scanModuleSync: the passes and the verdict of Verdict, with    *)
(* the AST scanner of AstScan.                                             *)
(***************************************************************************)
EXTENDS Verdict, AstScan

vars == <<scanVars, verdictVars>>

Init == ScanInit /\ VerdictInit

Scan == pc = "scan" /\ AstStep /\ UNCHANGED verdictVars
Returned == pc = "done" /\ UNCHANGED vars

Next == (Judge /\ UNCHANGED <<program, span>>) \/ Scan \/ Returned
(* One synchronous call: while it can step it does, until it returns.      *)
(* (Every other state has a step, which the deadlock check confirms, so    *)
(* this is WF_vars(Next) without ENABLED over the whole parser.)           *)
RunsOn == []<>(pc = "done") \/ []<><<TRUE>>_vars
Spec == Init /\ [][Next]_vars /\ RunsOn
-----------------------------------------------------------------------------
(* The verdict enforces on evidence and on nothing else: a signature in    *)
(* the text, a grave behaviour, and, where the AST scanner ran, a hidden   *)
(* call, a signature in a text the program puts together, or a scan that   *)
(* ran out of budget and is not merely observed.  The AST scanner,         *)
(* whatever it fails on, takes nothing from what the others found; a       *)
(* warning alone never enforces.                                           *)
EnforcesOnEvidence == pc = "done" =>
  /\ \/ HasBlockWord(source)
     \/ settings.violations \cap {"CRITICAL", "HIGH"} # {}
     \/ queue.incomplete /\ settings.policy # "observe"
     => action = "QUARANTINE"
  /\ action = "QUARANTINE" =>
     \/ HasBlockWord(source)
     \/ settings.violations \cap {"CRITICAL", "HIGH"} # {}
     \/ settings.ast /\ (\/ Reaching # {}
                         \/ \E t \in Texts : HasBlockWord(t)
                         \/ queue.incomplete /\ settings.policy # "observe")

(* A screening ends: parsing recovers past whatever it cannot read, and    *)
(* every recovery makes progress.                                          *)
ScreeningEnds == <>(pc = "done")
=============================================================================
