------------------------------- MODULE Verdict -------------------------------
(***************************************************************************)
(* What Detector.scanModuleSync makes of a module: signatures over the     *)
(* text, the AST scanner if FW_ENABLE_AST=1 (here any scan that SpanQueue  *)
(* allows; AstScan is the one there is), the behavioural rules             *)
(* (BehaviorScan, here only their violations), and the verdict.  The       *)
(* environment variables are read where the code reads them.               *)
(***************************************************************************)
EXTENDS SpanQueue

CONSTANTS Violations   \* what the behavioural rules may report: sets of severities

Severities == {"CRITICAL", "HIGH", "MEDIUM", "WARN"}
ASSUME ViolationsAssumption == Violations \subseteq SUBSET Severities

VARIABLES pc, detections, settings, action

verdictVars == <<pc, detections, settings, action>>

(* One crypto-miner brand, one anchored idiom and two indicative patterns  *)
(* stand for the lists.                                                    *)
BlockSignatures == {<<"mi", "ner">>}
BlockRegexes == {<<"nc", "-e">>}
WarnSignatures == {<<"eval", "(">>, <<"Buffer", ".", "from">>}

Detection(type, severity) == [type |-> type, severity |-> severity, warnOnly |-> severity \in {"WARN", "MEDIUM"}]
BlockDetections(s) ==
  {Detection("crypto-miner", "CRITICAL") : w \in {x \in BlockSignatures : Mentions(s, x)}}
  \cup {Detection("reverse-shell", "HIGH") : w \in {x \in BlockRegexes : Mentions(s, x)}}
WarnDetections(s) ==
  {Detection("indicative-pattern", "WARN") : w \in {x \in WarnSignatures : Mentions(s, x)}}

VerdictInit ==
  /\ pc = "text" /\ detections = {} /\ action = "none"
  /\ settings = [ast |-> FALSE, policy |-> "unset", behavior |-> FALSE, violations |-> {}]

(* An empty module is observed unread.                                     *)
MatchText ==
  /\ pc = "text"
  /\ IF source = <<>> THEN pc' = "done" /\ action' = "OBSERVE" /\ UNCHANGED detections
     ELSE /\ pc' = "ast" /\ UNCHANGED action
          /\ detections' = BlockDetections(source) \cup WarnDetections(source)
  /\ UNCHANGED <<queueVars, settings>>

AstOff == /\ pc = "ast" /\ pc' = "behavior"
          /\ UNCHANGED <<queueVars, detections, settings, action>>
AstOn == /\ pc = "ast" /\ FindSpans
         /\ pc' = "scan" /\ settings' = [settings EXCEPT !.ast = TRUE]
         /\ UNCHANGED <<detections, action>>

(* Reports are detections; folded literals meet the same signatures again; *)
(* an incomplete scan is one too, unless the policy says observe.          *)
(* Variant: enforcement has to be asked for.                               *)
Enforces_OptIn(policy) == policy \in {"quarantine", "block"}
Enforces(policy) == policy \in {"unset", "quarantine", "block"}
TakeFindings ==
  /\ pc = "scan" /\ queue.at = "scanned"
  /\ \E policy \in {"unset", "quarantine", "block", "observe"} :
       /\ queue.incomplete \/ policy = "unset"
       /\ detections' = detections
            \cup {Detection("obfuscated-dynamic-code", "CRITICAL") : f \in Reports}
            \cup (UNION {BlockDetections(text) : text \in Literals})
            \cup (IF queue.incomplete
                    THEN {Detection("ast-scan-incomplete", IF Enforces(policy) THEN "HIGH" ELSE "WARN")}
                    ELSE {})
       /\ settings' = [settings EXCEPT !.policy = policy]
  /\ pc' = "behavior"
  /\ UNCHANGED <<queueVars, action>>

(* The rules are given the positions of decode calls and of literals that  *)
(* read as a sensitive path; analyzeModule and, with FW_ENABLE_CROSSFILE,  *)
(* analyzePackage answer.                                                  *)
Behave ==
  /\ pc = "behavior"
  /\ \E on \in BOOLEAN, severities \in Violations :
       /\ on \/ severities = {}
       /\ detections' = detections \cup {Detection("behavioral", s) : s \in severities}
       /\ settings' = [settings EXCEPT !.behavior = on, !.violations = severities]
  /\ pc' = "decide"
  /\ UNCHANGED <<queueVars, action>>

Decide ==
  /\ pc = "decide" /\ pc' = "done"
  /\ action' = IF \E d \in detections : ~d.warnOnly THEN "QUARANTINE" ELSE "OBSERVE"
  /\ UNCHANGED <<queueVars, detections, settings>>

Judge == MatchText \/ AstOff \/ AstOn \/ TakeFindings \/ Behave \/ Decide
VerdictNext == Judge \/ (pc = "scan" /\ QueueStep /\ UNCHANGED verdictVars)
VerdictSpec == QueueInit /\ VerdictInit /\ [][VerdictNext]_<<queueVars, verdictVars>>
-----------------------------------------------------------------------------
HasBlockWord(s) == BlockDetections(s) # {}

(* The verdict enforces on evidence and on nothing else: a signature in    *)
(* the text, a grave behaviour, and, where the AST scanner ran, a report,  *)
(* a signature in a folded literal, or a scan that ran out of budget and   *)
(* is not merely observed.  Nothing that one pass finds, fails on or       *)
(* leaves out takes anything from what another found, and a warning alone  *)
(* never enforces.                                                         *)
EnforcesExactly == pc = "done" =>
  (action = "QUARANTINE" <=>
     \/ HasBlockWord(source)
     \/ settings.violations \cap {"CRITICAL", "HIGH"} # {}
     \/ settings.ast /\ (\/ Reports # {}
                         \/ \E t \in Literals : HasBlockWord(t)
                         \/ queue.incomplete /\ settings.policy # "observe"))
=============================================================================
