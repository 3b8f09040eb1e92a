---------------------------- MODULE ReleaseWarden ----------------------------
(***************************************************************************)
(* The release gate of .agent/scripts.  Roles (engineer, verifier,         *)
(* reviewers) fill a run directory: commits of the repository, a log of    *)
(* checkpoints, evidence bundles, receipts.  release-warden.js reads the   *)
(* directory file by file, while the roles may still be writing to it, and *)
(* gives one verdict: PASS, BLOCK (rework) or FREEZE (stop).               *)
(*                                                                         *)
(* A commit is a number; 1 is the commit the directive starts from.  A sha *)
(* in a file is full or abbreviated.  A receipt is absent, torn (not       *)
(* JSON) or a record, valid or not under its schema.                       *)
(***************************************************************************)
EXTENDS Integers, Sequences, FiniteSets, SequencesExt, FiniteSetsExt

CONSTANTS Plans,       \* what each role is going to write, chosen at the start
          Reviews,     \* the review gates, in the order the warden visits them
          MaxCommit,   \* bound: commits of the repository
          Absent, Torn

VARIABLES plan, commits, receipts, checkpoints, writing, index, bundles,
          stage, worktree, warden, decision, history

roleVars == <<plan, commits, receipts, checkpoints, writing, index, bundles,
              stage, worktree, history>>
vars == <<roleVars, warden, decision>>

Phase == "phase"
Roles == {"engineer", "verifier"}
GateOrder == <<"threat">> \o Reviews \o <<"audit">>
Gates == Range(GateOrder)
Files == Roles \cup Gates \cup {"docs"}
A1Labels == {"a1-candidate", "a1-rework-candidate"}

(* What a role may write, but for the sha, which is git's.                 *)
Commit   == [files : SUBSET STRING, fresh : BOOLEAN]
Engineer == [valid : BOOLEAN, short : BOOLEAN, base : Int, note : BOOLEAN, status : STRING,
             tests : BOOLEAN, claims : {"exact", "extra", "none"}, evidence : SUBSET STRING]
Verifier == [valid : BOOLEAN, status : STRING, clean : BOOLEAN, evidence : SUBSET STRING]
Threat   == [valid : BOOLEAN, status : STRING, evidence : SUBSET STRING]
Review   == [valid : BOOLEAN, status : STRING, denied : BOOLEAN, evidence : SUBSET STRING]

ASSUME PlanAssumption == \A p \in Plans :
  /\ p.commits \in [2..MaxCommit -> Commit]
  /\ p.engineer \in [2..MaxCommit -> Engineer]
  /\ p.verifier \in [2..MaxCommit -> Verifier]
  /\ p.gates["threat"] # Absent => p.gates["threat"] \in Threat
  /\ \A g \in Gates \ {"threat"} : p.gates[g] # Absent => p.gates[g] \in Review

(* Each receipt has a file of its own.                                     *)
ASSUME ReviewsAssumption ==
  /\ Reviews \in Seq(STRING) /\ MaxCommit \in Nat
  /\ Range(Reviews) \cap (Roles \cup {"threat", "audit", "docs"}) = {}

Tip == Len(commits)
Full(c) == [commit |-> c, short |-> FALSE]

(* What a role signs with: its receipt as planned for this candidate,      *)
(* completed with what it reads from git.                                  *)
Completed(form, git) == [x \in DOMAIN form \cup DOMAIN git |->
                           IF x \in DOMAIN git THEN git[x] ELSE form[x]]
Sealed(f, form) == IF f \in plan.torn THEN Torn ELSE form
Readable(r) == r \notin {Absent, Torn}
Valid(r) == Readable(r) /\ r.valid

Init == /\ plan \in Plans
        /\ commits = <<[files |-> {}, self |-> 1, baseline |-> 1]>>
        /\ receipts = [f \in Files |-> Absent]
        /\ checkpoints = <<>>
        /\ writing = [r \in Roles |-> <<>>]
        /\ index = {} /\ bundles = [r \in Roles |-> Absent]
        /\ stage = [engineer |-> "code", verifier |-> "idle"]
        /\ worktree = 1
        /\ warden = [at |-> "idle", engineer |-> Absent, verifier |-> Absent,
                     index |-> {}, candidate |-> 0, next |-> 1,
                     info |-> [g \in Gates |-> [present |-> FALSE, required |-> FALSE]],
                     verdict |-> "none", why |-> "none"]
        /\ decision = Absent
        /\ history = {}

-----------------------------------------------------------------------------
(* The roles.  git, the agents and their receipts are outside the scripts; *)
(* the checkpoint log and the evidence bundles are written by them.        *)

EngineerCommits ==
  /\ stage["engineer"] \in {"code", "checkpoint", "done"} /\ writing["engineer"] = <<>>
  /\ Tip < MaxCommit
  /\ LET old == commits[Tip]
         files == plan.commits[Tip + 1].files
         self == IF "self" \in files THEN Tip + 1 ELSE old.self
     IN commits' = Append(commits,
          [files |-> files, self |-> self,
           baseline |-> IF "baseline" \notin files THEN old.baseline
                        ELSE IF plan.commits[Tip + 1].fresh THEN self ELSE old.self])
  /\ stage' = [stage EXCEPT !["engineer"] = "checkpoint"]
  /\ UNCHANGED <<plan, receipts, checkpoints, writing, index, bundles, worktree,
                 history, warden, decision>>

(* assert-sha: the verifier goes on only from the commit the engineer      *)
(* signed.  In a worktree of its own it checks that commit out.            *)
AssertSha ==
  /\ stage["verifier"] \in {"idle", "done"} /\ Readable(receipts["engineer"])
  /\ stage["verifier"] = "done" => worktree # receipts["engineer"].sha.commit
  /\ LET c == receipts["engineer"].sha.commit IN
       /\ worktree' = c
       /\ stage' = [stage EXCEPT !["verifier"] =
                      IF plan.isolated \/ c = Tip THEN "start" ELSE "stopped"]
  /\ UNCHANGED <<plan, commits, receipts, checkpoints, writing, index, bundles,
                 history, warden, decision>>

(* What git rev-parse HEAD answers where the role works.                   *)
At(r) == IF r = "verifier" /\ plan.isolated THEN worktree ELSE Tip

CheckpointLabel(r) ==
  CASE r = "engineer" /\ Tip = 2 -> "a1-candidate"
    [] r = "engineer" /\ Tip > 2 -> "a1-rework-candidate"
    [] stage[r] = "start" -> "a2-verify-start"
    [] OTHER -> "a2-verify-end"

(* create reads HEAD and the whole log, then writes the whole log back.    *)
CreateReads(r) ==
  /\ stage[r] \in {"checkpoint", "start", "end"} /\ writing[r] = <<>>
  /\ writing' = [writing EXCEPT ![r] =
       Append(checkpoints, [label |-> CheckpointLabel(r), sha |-> Full(At(r))])]
  /\ UNCHANGED <<plan, commits, receipts, checkpoints, index, bundles, stage,
                 worktree, history, warden, decision>>

CreateWrites(r) ==
  /\ writing[r] # <<>>
  /\ checkpoints' = writing[r]
  /\ writing' = [writing EXCEPT ![r] = <<>>]
  /\ history' = history \cup {<<Last(writing[r]).label, Last(writing[r]).sha.commit>>}
  /\ stage' = [stage EXCEPT ![r] = IF stage[r] = "end" THEN "sign" ELSE "evidence"]
  /\ UNCHANGED <<plan, commits, receipts, index, bundles, worktree, warden, decision>>

(* The bundle carries the phase it was collected for and HEAD at the time. *)
(* The index is written in the same step; a lost entry could only freeze.  *)
Collect(r) ==
  /\ stage[r] = "evidence"
  /\ bundles' = [bundles EXCEPT ![r] =
       [phase |-> IF r \in plan.strays THEN "other" ELSE Phase, sha |-> Full(At(r))]]
  /\ index' = index \cup {r}
  /\ history' = history \cup {<<r, At(r)>>}
  /\ stage' = [stage EXCEPT ![r] = IF r = "engineer" THEN "sign" ELSE "end"]
  /\ UNCHANGED <<plan, commits, receipts, checkpoints, writing, worktree, warden, decision>>

EngineerSigns ==
  /\ stage["engineer"] = "sign"
  /\ LET form == plan.engineer[Tip]
         files == commits[Tip].files
     IN receipts' = [receipts EXCEPT !["engineer"] = Sealed("engineer",
          Completed(form,
            [sha |-> [commit |-> Tip, short |-> form.short],
             changed |-> CASE form.claims = "exact" -> files
                           [] form.claims = "extra" -> files \cup {"another"}
                           [] OTHER -> {}]))]
  /\ history' = history \cup {<<"signed", Tip>>}
  /\ stage' = [stage EXCEPT !["engineer"] = "done"]
  /\ UNCHANGED <<plan, commits, checkpoints, writing, index, bundles, worktree, warden, decision>>

VerifierSigns ==
  /\ stage["verifier"] = "sign"
  /\ LET form == plan.verifier[At("verifier")] IN
       /\ receipts' = [receipts EXCEPT !["verifier"] =
            Sealed("verifier", Completed(form, [sha |-> Full(At("verifier"))]))]
       /\ history' = history \cup {<<form.status, At("verifier")>>}
  /\ stage' = [stage EXCEPT !["verifier"] = "done"]
  /\ UNCHANGED <<plan, commits, checkpoints, writing, index, bundles, worktree, warden, decision>>

(* A threat model, a review or a release audit of the commit at HEAD.      *)
ReviewerSigns(g) ==
  /\ stage["engineer"] = "done" /\ plan.gates[g] # Absent
  /\ receipts[g] = Absent \/ (Readable(receipts[g]) /\ receipts[g].sha # Full(Tip))
  /\ receipts' = [receipts EXCEPT ![g] = Sealed(g, Completed(plan.gates[g], [sha |-> Full(Tip)]))]
  /\ history' = history \cup {<<g, plan.gates[g].status, Tip>>}
  /\ UNCHANGED <<plan, commits, checkpoints, writing, index, bundles, stage,
                 worktree, warden, decision>>

ScribeSigns ==
  /\ stage["verifier"] = "done" /\ plan.docs # Absent /\ receipts["docs"] = Absent
  /\ receipts' = [receipts EXCEPT !["docs"] = Sealed("docs", plan.docs)]
  /\ UNCHANGED <<plan, commits, checkpoints, writing, index, bundles, stage,
                 worktree, history, warden, decision>>

-----------------------------------------------------------------------------
(* The warden.  Each step reads some files and uses what earlier steps     *)
(* kept; a crash of evaluate() is turned into a FREEZE by main().          *)

Go(at) == warden' = [warden EXCEPT !.at = at]
Freeze(why) == warden' = [warden EXCEPT !.at = "write", !.verdict = "FREEZE", !.why = why]
Block(why) == warden' = [warden EXCEPT !.at = "write", !.verdict = "BLOCK", !.why = why]

(* The first directive file, in name order, whose own phase_id is ours; a  *)
(* file that does not parse is passed over.                                *)
Directive == LET ours == {i \in DOMAIN plan.directives :
                            plan.directives[i] # Torn /\ plan.directives[i].phase = Phase}
             IN IF ours = {} THEN Absent ELSE plan.directives[Min(ours)]
Required(g) == Directive # Absent /\ g \in Directive.requires

WardenLoads ==
  /\ warden.at = "idle"
  /\ IF {"engineer", "verifier"} \cap {f \in Files : receipts[f] \in {Absent, Torn}} # {}
       THEN Freeze("receipt missing")
       ELSE warden' = [warden EXCEPT !.at = "validate", !.index = index,
                         !.engineer = receipts["engineer"], !.verifier = receipts["verifier"]]
  /\ UNCHANGED <<roleVars, decision>>

(* Variant: a bad schema ends the run without a receipt.                   *)
WardenValidates_GivesUp ==
  /\ warden.at = "validate"
  /\ Valid(receipts["engineer"]) /\ Valid(receipts["verifier"])
  /\ Go("checkpoints")
  /\ UNCHANGED <<roleVars, decision>>

(* validateReceipt opens the files again: what it approves may be newer    *)
(* than what WardenLoads kept.                                             *)
WardenValidates ==
  /\ warden.at = "validate"
  /\ IF Valid(receipts["engineer"]) /\ Valid(receipts["verifier"])
       THEN Go("checkpoints") ELSE Freeze("schema")
  /\ UNCHANGED <<roleVars, decision>>

LatestOf(labels) == LET at == {i \in DOMAIN checkpoints : checkpoints[i].label \in labels}
                    IN IF at = {} THEN Absent
                       ELSE checkpoints[CHOOSE i \in at : \A j \in at : j <= i].sha

(* Variant: what the verifier signed is not compared with the log.         *)
WardenComparesShas_NotSigned ==
  /\ warden.at = "checkpoints"
  /\ LET logged == {LatestOf(A1Labels), LatestOf({"a2-verify-start"}), LatestOf({"a2-verify-end"})}
         shas == logged \cup {warden.engineer.sha}
     IN IF Absent \in logged THEN Freeze("checkpoint missing")
        ELSE IF Cardinality(shas) > 1 THEN Freeze("sha mismatch")
        ELSE warden' = [warden EXCEPT !.at = "git",
                          !.candidate = LatestOf({"a2-verify-end"}).commit]
  /\ UNCHANGED <<roleVars, decision>>

(* Five shas must be one, compared as strings.                             *)
WardenComparesShas ==
  /\ warden.at = "checkpoints"
  /\ LET logged == {LatestOf(A1Labels), LatestOf({"a2-verify-start"}), LatestOf({"a2-verify-end"})}
         shas == logged \cup {warden.engineer.sha, warden.verifier.sha}
     IN IF Absent \in logged THEN Freeze("checkpoint missing")
        ELSE IF Cardinality(shas) > 1 THEN Freeze("sha mismatch")
        ELSE warden' = [warden EXCEPT !.at = "git",
                          !.candidate = LatestOf({"a2-verify-end"}).commit]
  /\ UNCHANGED <<roleVars, decision>>

BaseIsHonest(e, c) == /\ e.base # c /\ e.base \in 1..c
                      /\ Directive # Absent => Directive.base = e.base \/ e.note
ClaimsMatch(e, c) == e.changed = {} \/ e.changed = commits[c].files
(* The regenerated baseline is excused when it is the hash of the          *)
(* candidate's own self-integrity files.                                   *)
BaselineRegenerated(c) == commits[c].baseline = commits[c].self
ForbiddenTouched(c) == {f \in commits[c].files :
  f = "forbidden" \/ (f = "baseline" /\ ~BaselineRegenerated(c))}

WardenChecksGit ==
  /\ warden.at = "git"
  /\ LET c == warden.candidate IN
     IF BaseIsHonest(warden.engineer, c) /\ ClaimsMatch(warden.engineer, c) /\ ForbiddenTouched(c) = {}
       THEN Go("evidence") ELSE Freeze("scope")
  /\ UNCHANGED <<roleVars, decision>>

Bound(id) == bundles[id] # Absent /\ bundles[id].phase = Phase
Supported(ids) == ids \subseteq warden.index /\ \A id \in ids : Bound(id)

(* Variant: a failing verifier is reported before the gates are visited.   *)
WardenChecksEvidence_Early ==
  /\ warden.at = "evidence"
  /\ LET cited == warden.engineer.evidence \cup warden.verifier.evidence IN
     IF cited # {} /\ Supported(cited)
          /\ \E id \in warden.verifier.evidence : bundles[id].sha.commit = warden.candidate
       THEN Go(IF warden.verifier.status = "PASS" THEN "gate" ELSE "verdict") ELSE Freeze("evidence")
  /\ UNCHANGED <<roleVars, decision>>

(* One bundle the verifier cites must come from the candidate itself; here *)
(* an abbreviated sha would do.                                            *)
WardenChecksEvidence ==
  /\ warden.at = "evidence"
  /\ LET cited == warden.engineer.evidence \cup warden.verifier.evidence IN
     IF cited # {} /\ Supported(cited)
          /\ \E id \in warden.verifier.evidence : bundles[id].sha.commit = warden.candidate
       THEN Go("gate") ELSE Freeze("evidence")
  /\ UNCHANGED <<roleVars, decision>>

(* Variant: a review of another candidate is as good.                      *)
Unsound_AnySha(g) == LET r == receipts[g] IN
  IF r = Absent THEN Required(g) ELSE ~Valid(r) \/ ~Supported(r.evidence)

(* evaluateOptionalVerdictReceipt: what stops the run ...                  *)
Unsound(g) == LET r == receipts[g] IN
  IF r = Absent THEN Required(g)
  ELSE \/ ~Valid(r)
       \/ r.sha # Full(warden.candidate)
       \/ ~Supported(r.evidence)
(* ... and what sends it back to rework.                                   *)
Rejected(g) == Readable(receipts[g]) /\ receipts[g].status # "PASS"

Told(g, present) == [warden.info EXCEPT ![g] = [present |-> present, required |-> Required(g)]]
FreezeAt(g) == warden' = [warden EXCEPT !.at = "write", !.verdict = "FREEZE", !.why = "gate",
                                        !.info = Told(g, FALSE)]
BlockAt(g) == warden' = [warden EXCEPT !.at = "write", !.verdict = "BLOCK", !.why = "gate",
                                       !.info = Told(g, TRUE)]
PassGate(g) == warden' = [warden EXCEPT !.info = Told(g, receipts[g] # Absent), !.next = @ + 1,
                            !.at = IF warden.next = Len(GateOrder) THEN "verdict" ELSE "gate"]

(* A threat model is a precondition: it never asks for rework.             *)
WardenMeetsThreatModel ==
  /\ warden.at = "gate" /\ GateOrder[warden.next] = "threat"
  /\ IF Unsound("threat") \/ (Required("threat") /\ receipts["threat"].status # "COMPLETE")
       THEN FreezeAt("threat") ELSE PassGate("threat")
  /\ UNCHANGED <<roleVars, decision>>

WardenMeetsReview ==
  /\ warden.at = "gate" /\ GateOrder[warden.next] \in Range(Reviews)
  /\ LET g == GateOrder[warden.next] IN
       IF Unsound(g) THEN FreezeAt(g) ELSE IF Rejected(g) THEN BlockAt(g) ELSE PassGate(g)
  /\ UNCHANGED <<roleVars, decision>>

(* The packaged files are judged before the auditor's own verdict.         *)
WardenMeetsAudit ==
  /\ warden.at = "gate" /\ GateOrder[warden.next] = "audit"
  /\ IF Unsound("audit") THEN FreezeAt("audit")
     ELSE IF Readable(receipts["audit"]) /\ receipts["audit"].denied
       THEN warden' = [warden EXCEPT !.at = "write", !.verdict = "FREEZE", !.why = "package",
                                     !.info = Told("audit", TRUE)]
     ELSE IF Rejected("audit") THEN BlockAt("audit") ELSE PassGate("audit")
  /\ UNCHANGED <<roleVars, decision>>

DocsUnsound == LET d == receipts["docs"] IN
  d # Absent /\ (~Valid(d) \/ ~d.inScope \/ ~Supported(d.evidence))

WardenGivesVerdict ==
  /\ warden.at = "verdict"
  /\ IF \/ warden.engineer.status # "PASS" \/ warden.verifier.status # "PASS"
        \/ ~warden.engineer.tests \/ ~warden.verifier.clean
       THEN Block("verdict")
     ELSE IF DocsUnsound
       THEN warden' = [warden EXCEPT !.at = "write", !.verdict = "FREEZE", !.why = "docs",
              !.info = [g \in Gates |-> [present |-> FALSE, required |-> FALSE]]]
     ELSE warden' = [warden EXCEPT !.at = "write", !.verdict = "PASS", !.why = "clean"]
  /\ UNCHANGED <<roleVars, decision>>

(* writeWardenReceipt reads the two receipts once more, for the sha and    *)
(* the evidence it records; one that does not parse counts as none.        *)
WardenWrites ==
  /\ warden.at = "write"
  /\ decision' = [status |-> warden.verdict, info |-> warden.info,
                  sha |-> IF Readable(receipts["verifier"]) THEN receipts["verifier"].sha
                          ELSE IF Readable(receipts["engineer"]) THEN receipts["engineer"].sha
                          ELSE Absent,
                  exit |-> CASE warden.verdict = "PASS" -> 0
                             [] warden.verdict = "BLOCK" -> 1
                             [] OTHER -> 2]
  /\ Go("done")
  /\ UNCHANGED roleVars

Warden == \/ WardenLoads \/ WardenValidates \/ WardenComparesShas \/ WardenChecksGit
          \/ WardenChecksEvidence \/ WardenMeetsThreatModel \/ WardenMeetsReview
          \/ WardenMeetsAudit \/ WardenGivesVerdict \/ WardenWrites
RoleSteps == \/ EngineerCommits \/ AssertSha \/ EngineerSigns \/ VerifierSigns \/ ScribeSigns
             \/ \E r \in Roles : CreateReads(r) \/ CreateWrites(r) \/ Collect(r)
             \/ \E g \in Gates : ReviewerSigns(g)
Next == Warden \/ RoleSteps
(* Only the warden's own run is scheduled: a role may never come back.     *)
Spec == Init /\ [][Next]_vars /\ WF_vars(Warden)
-----------------------------------------------------------------------------
(* A PASS is for one commit at which, whatever was rewritten, torn or      *)
(* reworked meanwhile, the engineer checkpointed and signed, verification  *)
(* began and ended, evidence was captured and the verifier signed PASS.    *)
PassWasVerified == warden.verdict = "PASS" =>
  LET c == warden.candidate IN
  /\ \E label \in A1Labels : <<label, c>> \in history
  /\ {<<"a2-verify-start", c>>, <<"a2-verify-end", c>>, <<"signed", c>>, <<"PASS", c>>} \subseteq history
  /\ \E r \in Roles : <<r, c>> \in history

(* A PASS has every receipt the phase's own directive requires, written    *)
(* for that commit and favourable: a review of a superseded candidate, or  *)
(* a directive of another phase, never stands in.                          *)
RequiredReviewsSigned == warden.verdict = "PASS" =>
  \A g \in Gates : Required(g) =>
    <<g, IF g = "threat" THEN "COMPLETE" ELSE "PASS", warden.candidate>> \in history

(* A verdict on the engineer's and the verifier's results, good or bad, is *)
(* written only after every required gate was met, and its receipt says    *)
(* which gates were required: a failing verifier hides no missing review.  *)
GatesBeforeVerdicts == decision # Absent /\ warden.why \in {"verdict", "clean"} =>
  \A g \in Gates : /\ decision.info[g].required = Required(g)
                   /\ Required(g) => decision.info[g].present

(* Once started, the warden writes a receipt, whatever it finds in the     *)
(* files it opens a second time.                                           *)
AlwaysDecides == (warden.at = "validate") ~> (decision # Absent)
=============================================================================
