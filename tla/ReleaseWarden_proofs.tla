------------------------ MODULE ReleaseWarden_proofs ------------------------
(***************************************************************************)
(* Proofs about the release gate: what a PASS stands for, for any plans,   *)
(* reviews and number of commits.  The roles' half of the invariant says   *)
(* that nothing in the run directory is there that a role did not sign,    *)
(* checkpoint or capture; the warden's half what each of its stages has    *)
(* established, and the two meet in history, which only grows.             *)
(***************************************************************************)
EXTENDS ReleaseWarden, Induction, FiniteSetTheorems, SequenceTheorems

Sha          == [commit : Nat, short : BOOLEAN]
Checkpoint   == [label : A1Labels \cup {"a2-verify-start", "a2-verify-end"}, sha : Sha]
Revision     == [files : SUBSET STRING, self : Nat, baseline : Nat]
WardenFields == {"at", "engineer", "verifier", "index", "candidate", "next", "info",
                 "verdict", "why"}

(* The types the proofs need.  A receipt is only looked at through what    *)
(* Recorded says of it.                                                    *)
RoleTypes ==
  /\ plan \in Plans
  /\ commits \in Seq(Revision) /\ (Tip = 1 \/ Tip \in 2..MaxCommit)
  /\ DOMAIN receipts = Files
  /\ checkpoints \in Seq(Checkpoint)
  /\ writing \in [Roles -> Seq(Checkpoint)]
  /\ index \subseteq Roles
  /\ DOMAIN bundles = Roles
  /\ DOMAIN stage = Roles
  /\ worktree \in Nat

WardenTypes ==
  /\ DOMAIN warden = WardenFields
  /\ warden.next \in 1..(Len(GateOrder) + 1)
  /\ DOMAIN warden.info = Gates

TypeOK == RoleTypes /\ WardenTypes

(* The roles' half: whatever lies in the run directory was put there by    *)
(* the role it is named for, at the commit it carries.                     *)
CheckpointsRecorded ==
  /\ \A i \in 1..Len(checkpoints) :
       <<checkpoints[i].label, checkpoints[i].sha.commit>> \in history
  /\ \A r \in Roles : \A i \in 1..(Len(writing[r]) - 1) :
       <<writing[r][i].label, writing[r][i].sha.commit>> \in history

ReceiptsRecorded ==
  /\ Readable(receipts["engineer"]) =>
       /\ <<"signed", receipts["engineer"].sha.commit>> \in history
       /\ receipts["engineer"].sha.commit \in 2..MaxCommit
       /\ Tip >= 2
  /\ Readable(receipts["verifier"]) =>
       <<receipts["verifier"].status, receipts["verifier"].sha.commit>> \in history
  /\ \A g \in Gates : Readable(receipts[g]) =>
       <<g, receipts[g].status, receipts[g].sha.commit>> \in history

BundlesRecorded == \A r \in Roles : bundles[r] # Absent => <<r, bundles[r].sha.commit>> \in history

StagesOK ==
  /\ stage["engineer"] # "code" => Tip >= 2
  /\ stage["verifier"] # "idle" => worktree \in 2..MaxCommit /\ Tip >= 2
  /\ \A r \in Roles : writing[r] # <<>> => stage[r] \in {"checkpoint", "start", "end"}

RolesInv == CheckpointsRecorded /\ ReceiptsRecorded /\ BundlesRecorded /\ StagesOK

(* The warden's half: what it has established by the time it is somewhere. *)
Verdicts == {"verdict", "clean"}

Attested(c) ==
  /\ \E label \in A1Labels : <<label, c>> \in history
  /\ {<<"a2-verify-start", c>>, <<"a2-verify-end", c>>, <<"signed", c>>} \subseteq history
Witnessed(c) == \E r \in Roles : <<r, c>> \in history
Favourable(g, c) == <<g, IF g = "threat" THEN "COMPLETE" ELSE "PASS", c>> \in history
Informed(g) == /\ warden.info[g].required = Required(g)
               /\ Required(g) => warden.info[g].present
Met(g) == (Required(g) => Favourable(g, warden.candidate)) /\ Informed(g)

LoadedOK ==
  warden.at \in {"validate", "checkpoints", "git", "evidence", "gate", "verdict"} =>
    /\ <<"signed", warden.engineer.sha.commit>> \in history
    /\ <<warden.verifier.status, warden.verifier.sha.commit>> \in history
    /\ warden.index \subseteq Roles

ComparedOK ==
  warden.at \in {"git", "evidence", "gate", "verdict"} =>
    /\ warden.verifier.sha.commit = warden.candidate
    /\ Attested(warden.candidate)

EvidencedOK == warden.at \in {"gate", "verdict"} => Witnessed(warden.candidate)

GatesOK ==
  /\ warden.at \notin {"gate", "verdict", "write", "done"} => warden.next = 1
  /\ warden.at = "gate" =>
       /\ warden.next <= Len(GateOrder)
       /\ \A i \in 1..(warden.next - 1) : Met(GateOrder[i])
  /\ warden.at = "verdict" => \A g \in Gates : Met(g)

VerdictOK ==
  /\ warden.at \notin {"write", "done"} => warden.verdict = "none" /\ warden.why = "none"
  /\ warden.why \in Verdicts => \A g \in Gates : Informed(g)
  /\ warden.verdict = "PASS" =>
       /\ Attested(warden.candidate) /\ Witnessed(warden.candidate)
       /\ <<"PASS", warden.candidate>> \in history
       /\ \A g \in Gates : Required(g) => Favourable(g, warden.candidate)
  /\ decision # Absent => warden.at = "done" /\ decision.info = warden.info

WardenInv == LoadedOK /\ ComparedOK /\ EvidencedOK /\ GatesOK /\ VerdictOK

ReleaseInv == TypeOK /\ RolesInv /\ WardenInv

-----------------------------------------------------------------------------
(* What the run directory's operators return. *)

\* The gates are visited in order, each of them once at least.
LEMMA GatesInOrder ==
    /\ Len(GateOrder) \in Nat /\ Len(GateOrder) >= 1
    /\ Gates = {GateOrder[i] : i \in 1..Len(GateOrder)}
    /\ Gates = Range(Reviews) \cup {"threat", "audit"}
<1> DEFINE Names == STRING \cup {"threat", "audit"}
<1>1. Reviews \in Seq(Names)
  BY ReviewsAssumption, SeqMonotonic
<1> HIDE DEF Names
<1>0. "threat" \in Names /\ "audit" \in Names
  BY DEF Names
<1> DEFINE n == Len(Reviews)
<1>2. /\ GateOrder \in Seq(Names) /\ Len(GateOrder) = n + 2 /\ n \in Nat
      /\ GateOrder[1] = "threat" /\ GateOrder[n + 2] = "audit"
      /\ \A i \in 1..n : GateOrder[i + 1] = Reviews[i]
  <2> DEFINE front == <<"threat">> \o Reviews
  <2>1. /\ front \in Seq(Names) /\ Len(front) = n + 1 /\ n \in Nat
        /\ front[1] = "threat" /\ \A i \in 1..n : front[i + 1] = Reviews[i]
    <3>1. <<"threat">> \in Seq(Names) /\ Len(<<"threat">>) = 1 /\ <<"threat">>[1] = "threat"
      BY <1>0
    <3> QED BY <1>1, <3>1, ConcatProperties
  <2>2. GateOrder = front \o <<"audit">>
    BY DEF GateOrder
  <2>3. <<"audit">> \in Seq(Names) /\ Len(<<"audit">>) = 1 /\ <<"audit">>[1] = "audit"
    BY <1>0
  <2> HIDE DEF front
  <2>4. /\ GateOrder \in Seq(Names) /\ Len(GateOrder) = n + 2
        /\ \A i \in 1..(n + 2) : GateOrder[i] = IF i <= n + 1 THEN front[i]
                                                           ELSE <<"audit">>[i - (n + 1)]
    BY <2>1, <2>2, <2>3, ConcatProperties
  <2> QED BY <2>1, <2>3, <2>4
<1>3. DOMAIN GateOrder = 1..Len(GateOrder) /\ DOMAIN Reviews = 1..n
  BY <1>1, <1>2
<1>4. Gates = {GateOrder[i] : i \in 1..Len(GateOrder)}
  BY <1>3 DEF Gates, Range
<1>5. \A i \in 1..(n + 2) : i = 1 \/ i = n + 2 \/ (i - 1 \in 1..n /\ i = (i - 1) + 1)
  BY <1>2
<1>6. Gates \subseteq Range(Reviews) \cup {"threat", "audit"}
  <2> SUFFICES ASSUME NEW i \in 1..(n + 2)
               PROVE  GateOrder[i] \in Range(Reviews) \cup {"threat", "audit"}
    BY <1>2, <1>4
  <2>1. CASE i = 1 \/ i = n + 2
    BY <1>2, <2>1
  <2>2. CASE i - 1 \in 1..n
    <3>1. GateOrder[i] = Reviews[i - 1] /\ i - 1 \in DOMAIN Reviews
      BY <1>2, <1>3, <2>2
    <3> QED BY <3>1 DEF Range
  <2> QED BY <1>5, <2>1, <2>2
<1>7. Range(Reviews) \cup {"threat", "audit"} \subseteq Gates
  <2>1. 1 \in 1..Len(GateOrder) /\ n + 2 \in 1..Len(GateOrder)
    BY <1>2
  <2>2. \A i \in 1..n : i + 1 \in 1..Len(GateOrder)
    BY <1>2
  <2> QED BY <1>2, <1>3, <1>4, <2>1, <2>2 DEF Range
<1> QED BY <1>2, <1>4, <1>6, <1>7

\* The sha that latest() answers with is that of a checkpoint in the log.
LEMMA LatestRecorded ==
    ASSUME RoleTypes, CheckpointsRecorded, NEW labels, LatestOf(labels) # Absent
    PROVE  \E label \in labels : <<label, LatestOf(labels).commit>> \in history
<1> DEFINE at == {i \in DOMAIN checkpoints : checkpoints[i].label \in labels}
           Latest(i) == \A j \in at : j <= i
<1>1. DOMAIN checkpoints = 1..Len(checkpoints) /\ Len(checkpoints) \in Nat
  BY DEF RoleTypes
<1>2. at # {}
  BY DEF LatestOf
<1>3. \E i \in at : Latest(i)
  <2>1. at \in SUBSET (0..Len(checkpoints))
    BY <1>1
  <2> HIDE DEF at
  <2> QED BY <1>1, <1>2, <2>1, GreatestNatural
<1>4. PICK i \in at : LatestOf(labels) = checkpoints[i].sha
  <2> DEFINE i == CHOOSE i \in at : Latest(i)
  <2>1. i \in at
    BY <1>3
  <2>2. LatestOf(labels) = checkpoints[i].sha
    BY <1>2 DEF LatestOf
  <2> QED BY <2>1, <2>2
<1> QED BY <1>1, <1>4 DEF CheckpointsRecorded

\* A finite set of at most one element holds no two different ones.
LEMMA AtMostOne ==
    ASSUME NEW S, IsFiniteSet(S), ~(Cardinality(S) > 1), NEW x \in S, NEW y \in S
    PROVE  x = y
<1>1. Cardinality(S) \in Nat /\ S # {}
  BY FS_CardinalityType
<1>2. Cardinality(S) = 1
  BY <1>1, FS_EmptySet
<1> QED BY <1>2, FS_Singleton

\* What a role adds to its receipt leaves the rest of it as planned.
LEMMA CompletedForm ==
    ASSUME NEW form, NEW git, "sha" \in DOMAIN git
    PROVE  /\ Completed(form, git).sha = git.sha
           /\ "status" \in DOMAIN form \ DOMAIN git => Completed(form, git).status = form.status
BY DEF Completed

-----------------------------------------------------------------------------
(* The roles' steps. *)

RoleStep == UNCHANGED <<plan, warden, decision>> /\ history \subseteq history'

LEMMA InitRoles == Init => RoleTypes /\ RolesInv
<1> SUFFICES ASSUME Init PROVE RoleTypes /\ RolesInv
  OBVIOUS
<1> USE DEF Init
<1>1. commits \in Seq(Revision) /\ Tip = 1
  BY DEF Tip, Revision
<1>2. <<>> \in Seq(Checkpoint)
  OBVIOUS
<1>3. RoleTypes
  BY <1>1, <1>2 DEF RoleTypes, Roles
<1>4. RolesInv
  BY DEF RolesInv, CheckpointsRecorded, ReceiptsRecorded, BundlesRecorded, StagesOK,
         Readable, Files, Roles
<1> QED BY <1>3, <1>4

LEMMA EngineerCommitsKeeps ==
    ASSUME RoleTypes, RolesInv, EngineerCommits
    PROVE  RoleTypes' /\ RolesInv' /\ RoleStep
<1> USE DEF EngineerCommits
<1>1. Len(commits) = Tip /\ Tip \in Nat /\ Tip >= 1 /\ Tip + 1 \in 2..MaxCommit
  BY ReviewsAssumption DEF RoleTypes, Tip
<1>2. commits[Tip] \in Revision /\ plan.commits[Tip + 1] \in Commit
  <2>1. commits[Tip] \in Revision
    BY <1>1, ElementOfSeq DEF RoleTypes
  <2>2. plan.commits \in [2..MaxCommit -> Commit]
    BY PlanAssumption DEF RoleTypes
  <2> QED BY <1>1, <2>1, <2>2
<1>3. PICK new \in Revision : commits' = Append(commits, new)
  BY <1>1, <1>2 DEF Revision, Commit
<1>4. commits' \in Seq(Revision) /\ Len(commits') = Tip + 1
  BY <1>1, <1>3 DEF RoleTypes
<1>5. Tip' = Tip + 1
  BY <1>4 DEF Tip
<1>6. RoleTypes'
  BY <1>1, <1>4, <1>5 DEF RoleTypes
<1>7. StagesOK'
  BY <1>1, <1>5 DEF RolesInv, StagesOK, RoleTypes, Roles
<1>8. ReceiptsRecorded'
  BY <1>1, <1>5 DEF RolesInv, ReceiptsRecorded, Readable
<1> QED BY <1>6, <1>7, <1>8 DEF RolesInv, CheckpointsRecorded, BundlesRecorded, RoleStep

LEMMA AssertShaKeeps ==
    ASSUME RoleTypes, RolesInv, AssertSha
    PROVE  RoleTypes' /\ RolesInv' /\ RoleStep
<1> USE DEF AssertSha
<1>1. worktree' \in 2..MaxCommit /\ Tip >= 2
  BY DEF RolesInv, ReceiptsRecorded
<1>2. Tip' = Tip
  BY DEF Tip
<1>3. RoleTypes'
  BY <1>1, <1>2, ReviewsAssumption DEF RoleTypes
<1>4. StagesOK'
  BY <1>1, <1>2 DEF RolesInv, StagesOK, RoleTypes, Roles
<1> QED BY <1>2, <1>3, <1>4
        DEF RolesInv, CheckpointsRecorded, ReceiptsRecorded, BundlesRecorded, RoleStep, Readable

\* HEAD, where a role works, is a commit.
LEMMA HeadIsCommit ==
    ASSUME RoleTypes, StagesOK, NEW r \in Roles
    PROVE  /\ At(r) \in Nat
           /\ r = "verifier" /\ stage[r] # "idle" => At(r) \in 2..MaxCommit
<1>1. MaxCommit \in Nat /\ worktree \in Nat /\ (Tip = 1 \/ Tip \in 2..MaxCommit)
  BY ReviewsAssumption DEF RoleTypes
<1>2. Tip \in Nat
  BY <1>1
<1> QED BY <1>1, <1>2 DEF StagesOK, At

LEMMA CreateReadsKeeps ==
    ASSUME RoleTypes, RolesInv, NEW r \in Roles, CreateReads(r)
    PROVE  RoleTypes' /\ RolesInv' /\ RoleStep
<1> USE DEF CreateReads
<1> DEFINE new == [label |-> CheckpointLabel(r), sha |-> Full(At(r))]
<1>1. new \in Checkpoint
  BY HeadIsCommit DEF RolesInv, Checkpoint, CheckpointLabel, Full, Sha, A1Labels
<1>2. writing' = [writing EXCEPT ![r] = Append(checkpoints, new)]
  OBVIOUS
<1> HIDE DEF new
<1>3. /\ Append(checkpoints, new) \in Seq(Checkpoint)
      /\ Len(Append(checkpoints, new)) - 1 = Len(checkpoints)
      /\ \A i \in 1..Len(checkpoints) : Append(checkpoints, new)[i] = checkpoints[i]
  BY <1>1 DEF RoleTypes
<1>4. Tip' = Tip
  BY DEF Tip
<1>5. RoleTypes'
  BY <1>2, <1>3, <1>4 DEF RoleTypes
<1>6. CheckpointsRecorded'
  <2>1. ASSUME NEW q \in Roles, NEW i \in 1..(Len(writing'[q]) - 1)
        PROVE  <<writing'[q][i].label, writing'[q][i].sha.commit>> \in history
    <3>1. CASE q = r
      BY <1>2, <1>3, <2>1, <3>1 DEF RoleTypes, RolesInv, CheckpointsRecorded
    <3>2. CASE q # r
      BY <1>2, <2>1, <3>2 DEF RoleTypes, RolesInv, CheckpointsRecorded
    <3> QED BY <3>1, <3>2
  <2> QED BY <2>1 DEF RolesInv, CheckpointsRecorded
<1>7. StagesOK'
  BY <1>2, <1>4 DEF RolesInv, StagesOK, RoleTypes
<1> QED BY <1>4, <1>5, <1>6, <1>7
        DEF RolesInv, ReceiptsRecorded, BundlesRecorded, RoleStep, Readable

LEMMA CreateWritesKeeps ==
    ASSUME RoleTypes, RolesInv, NEW r \in Roles, CreateWrites(r)
    PROVE  RoleTypes' /\ RolesInv' /\ RoleStep
<1> USE DEF CreateWrites
<1> DEFINE log == writing[r]
<1>1. log \in Seq(Checkpoint) /\ Len(log) \in Nat /\ Len(log) >= 1 /\ Last(log) = log[Len(log)]
  BY EmptySeq DEF RoleTypes, Last
<1>2. Tip' = Tip
  BY DEF Tip
<1>3. RoleTypes'
  <2>1. <<>> \in Seq(Checkpoint)
    OBVIOUS
  <2> QED BY <1>1, <1>2, <2>1 DEF RoleTypes
<1>4. CheckpointsRecorded'
  <2>1. ASSUME NEW i \in 1..Len(checkpoints')
        PROVE  <<checkpoints'[i].label, checkpoints'[i].sha.commit>> \in history'
    <3>1. CASE i = Len(log)
      BY <1>1, <3>1
    <3>2. CASE i \in 1..(Len(log) - 1)
      BY <3>2 DEF RolesInv, CheckpointsRecorded
    <3> QED BY <1>1, <3>1, <3>2
  <2>2. ASSUME NEW q \in Roles, NEW i \in 1..(Len(writing'[q]) - 1)
        PROVE  <<writing'[q][i].label, writing'[q][i].sha.commit>> \in history'
    BY <2>2 DEF RoleTypes, RolesInv, CheckpointsRecorded
  <2> QED BY <2>1, <2>2 DEF CheckpointsRecorded
<1>5. StagesOK'
  <2>1. /\ stage[r] \in {"checkpoint", "start", "end"}
        /\ stage'[r] \in {"sign", "evidence"} /\ writing'[r] = <<>>
    BY DEF RolesInv, StagesOK, RoleTypes
  <2>2. \A q \in Roles \ {r} : stage'[q] = stage[q] /\ writing'[q] = writing[q]
    BY DEF RoleTypes
  <2> QED BY <1>2, <2>1, <2>2 DEF RolesInv, StagesOK, Roles
<1> QED BY <1>2, <1>3, <1>4, <1>5 DEF RolesInv, ReceiptsRecorded, BundlesRecorded, RoleStep, Readable

LEMMA CollectKeeps ==
    ASSUME RoleTypes, RolesInv, NEW r \in Roles, Collect(r)
    PROVE  RoleTypes' /\ RolesInv' /\ RoleStep
<1> USE DEF Collect
<1>1. Tip' = Tip
  BY DEF Tip
<1>2. RoleTypes'
  BY <1>1 DEF RoleTypes
<1>3. BundlesRecorded'
  <2>1. bundles'[r].sha.commit = At(r) /\ <<r, At(r)>> \in history'
    BY DEF RoleTypes, Full
  <2>2. \A q \in Roles \ {r} : bundles'[q] = bundles[q]
    BY DEF RoleTypes
  <2> QED BY <2>1, <2>2 DEF RolesInv, BundlesRecorded
<1>4. StagesOK'
  <2>1. stage[r] = "evidence" /\ stage'[r] \in {"sign", "end"} /\ writing[r] = <<>>
    BY DEF RolesInv, StagesOK, RoleTypes
  <2>2. \A q \in Roles \ {r} : stage'[q] = stage[q]
    BY DEF RoleTypes
  <2> QED BY <1>1, <2>1, <2>2 DEF RolesInv, StagesOK, Roles
<1> QED BY <1>1, <1>2, <1>3, <1>4
        DEF RolesInv, CheckpointsRecorded, ReceiptsRecorded, RoleStep, Readable

\* A step that replaces one receipt by one that history knows of.
LEMMA ReceiptKeeps ==
    ASSUME RoleTypes, RolesInv, NEW f \in Files, NEW new,
           receipts' = [receipts EXCEPT ![f] = new],
           history \subseteq history', Tip' = Tip,
           Readable(new) =>
             /\ f = "engineer" => /\ <<"signed", new.sha.commit>> \in history'
                                 /\ new.sha.commit \in 2..MaxCommit /\ Tip >= 2
             /\ f = "verifier" => <<new.status, new.sha.commit>> \in history'
             /\ f \in Gates => <<f, new.status, new.sha.commit>> \in history'
    PROVE  ReceiptsRecorded'
<1>1. receipts'[f] = new /\ \A g \in Files \ {f} : receipts'[g] = receipts[g]
  BY DEF RoleTypes
<1>2. "engineer" \in Files /\ "verifier" \in Files /\ Gates \subseteq Files
  BY DEF Files, Roles
<1>3. Readable(receipts["engineer"])' = Readable(receipts'["engineer"])
  BY DEF Readable
<1> QED BY <1>1, <1>2 DEF RolesInv, ReceiptsRecorded, Readable

LEMMA EngineerSignsKeeps ==
    ASSUME RoleTypes, RolesInv, EngineerSigns
    PROVE  RoleTypes' /\ RolesInv' /\ RoleStep
<1> USE DEF EngineerSigns
<1> DEFINE form == plan.engineer[Tip]
           files == commits[Tip].files
           git == [sha |-> [commit |-> Tip, short |-> form.short],
                   changed |-> CASE form.claims = "exact" -> files
                                 [] form.claims = "extra" -> files \cup {"another"}
                                 [] OTHER -> {}]
           new == Sealed("engineer", Completed(form, git))
<1>1. Tip' = Tip /\ Tip \in 2..MaxCommit /\ Tip >= 2
  <2>1. Tip' = Tip
    BY DEF Tip
  <2>2. Tip >= 2
    BY DEF RolesInv, StagesOK
  <2> QED BY <2>1, <2>2 DEF RoleTypes
<1>2. RoleTypes'
  BY <1>1 DEF RoleTypes
<1>3. receipts' = [receipts EXCEPT !["engineer"] = new]
  OBVIOUS
<1>4. ReceiptsRecorded'
  <2>1. Readable(new) => new.sha.commit = Tip
    <3>1. "sha" \in DOMAIN git /\ git.sha.commit = Tip
      OBVIOUS
    <3> HIDE DEF git, form
    <3> QED BY <3>1, CompletedForm DEF Sealed, Readable
  <2>2. <<"signed", Tip>> \in history' /\ history \subseteq history'
    OBVIOUS
  <2>3. "engineer" \in Files /\ "engineer" \notin Gates
    BY ReviewsAssumption, GatesInOrder DEF Files, Roles
  <2> HIDE DEF new, EngineerSigns
  <2> QED BY <1>1, <1>3, <2>1, <2>2, <2>3, ReceiptKeeps
<1>5. StagesOK'
  <2>1. writing["engineer"] = <<>> /\ stage'["engineer"] = "done" /\ stage'["verifier"] = stage["verifier"]
    BY DEF RolesInv, StagesOK, RoleTypes, Roles
  <2> QED BY <1>1, <2>1 DEF RolesInv, StagesOK, Roles
<1> QED BY <1>2, <1>4, <1>5 DEF RolesInv, CheckpointsRecorded, BundlesRecorded, RoleStep

LEMMA VerifierSignsKeeps ==
    ASSUME RoleTypes, RolesInv, VerifierSigns
    PROVE  RoleTypes' /\ RolesInv' /\ RoleStep
<1> USE DEF VerifierSigns
<1> DEFINE c == At("verifier")
           form == plan.verifier[c]
           git == [sha |-> Full(c)]
           new == Sealed("verifier", Completed(form, git))
<1>1. Tip' = Tip /\ c \in 2..MaxCommit
  BY HeadIsCommit DEF Tip, Roles, RolesInv
<1>2. RoleTypes'
  BY <1>1 DEF RoleTypes
<1>3. ReceiptsRecorded'
  <2>1. form \in Verifier
    <3>1. plan.verifier \in [2..MaxCommit -> Verifier]
      BY PlanAssumption DEF RoleTypes
    <3> QED BY <1>1, <3>1
  <2>2. "status" \in DOMAIN form \ DOMAIN git /\ "sha" \in DOMAIN git /\ git.sha.commit = c
    BY <2>1 DEF Verifier, Full
  <2> HIDE DEF form, git
  <2>3. Readable(new) => new.sha.commit = c /\ new.status = form.status
    BY <2>2, CompletedForm DEF Sealed, Readable
  <2>4. <<form.status, c>> \in history' /\ history \subseteq history'
    BY DEF form
  <2>5. "verifier" \in Files /\ "verifier" \notin Gates
    BY ReviewsAssumption, GatesInOrder DEF Files, Roles
  <2>6. receipts' = [receipts EXCEPT !["verifier"] = new]
    BY DEF form, git
  <2> HIDE DEF new, VerifierSigns, c
  <2> QED BY <1>1, <2>3, <2>4, <2>5, <2>6, ReceiptKeeps
<1>4. StagesOK'
  <2>1. writing["verifier"] = <<>> /\ stage'["verifier"] = "done" /\ stage'["engineer"] = stage["engineer"]
    BY DEF RolesInv, StagesOK, RoleTypes, Roles
  <2> QED BY <1>1, <2>1 DEF RolesInv, StagesOK, Roles
<1> QED BY <1>2, <1>3, <1>4 DEF RolesInv, CheckpointsRecorded, BundlesRecorded, RoleStep

LEMMA ReviewerSignsKeeps ==
    ASSUME RoleTypes, RolesInv, NEW g \in Gates, ReviewerSigns(g)
    PROVE  RoleTypes' /\ RolesInv' /\ RoleStep
<1> USE DEF ReviewerSigns
<1> DEFINE form == plan.gates[g]
           git == [sha |-> Full(Tip)]
           new == Sealed(g, Completed(form, git))
<1>1. Tip' = Tip
  BY DEF Tip
<1>2. RoleTypes'
  BY <1>1 DEF RoleTypes
<1>3. ReceiptsRecorded'
  <2>1. form \in Threat \cup Review
    BY PlanAssumption DEF RoleTypes
  <2>2. "status" \in DOMAIN form \ DOMAIN git /\ "sha" \in DOMAIN git /\ git.sha.commit = Tip
    BY <2>1 DEF Threat, Review, Full
  <2> HIDE DEF form, git
  <2>3. Readable(new) => new.sha.commit = Tip /\ new.status = form.status
    BY <2>2, CompletedForm DEF Sealed, Readable
  <2>4. <<g, form.status, Tip>> \in history' /\ history \subseteq history'
    BY DEF form
  <2>5. g \in Files /\ g # "engineer" /\ g # "verifier"
    BY ReviewsAssumption, GatesInOrder DEF Files, Roles
  <2>6. receipts' = [receipts EXCEPT ![g] = new]
    BY DEF form, git
  <2> HIDE DEF new, ReviewerSigns
  <2> QED BY <1>1, <2>3, <2>4, <2>5, <2>6, ReceiptKeeps
<1> QED BY <1>1, <1>2, <1>3
        DEF RolesInv, CheckpointsRecorded, BundlesRecorded, StagesOK, RoleStep

LEMMA ScribeSignsKeeps ==
    ASSUME RoleTypes, RolesInv, ScribeSigns
    PROVE  RoleTypes' /\ RolesInv' /\ RoleStep
<1> USE DEF ScribeSigns
<1>1. Tip' = Tip
  BY DEF Tip
<1>2. RoleTypes'
  BY <1>1 DEF RoleTypes
<1>3. "docs" \in Files \ (Roles \cup Gates)
  BY ReviewsAssumption, GatesInOrder DEF Files, Roles
<1>4. ReceiptsRecorded'
  <2> DEFINE new == Sealed("docs", plan.docs)
  <2>1. receipts' = [receipts EXCEPT !["docs"] = new] /\ history \subseteq history'
    OBVIOUS
  <2>2. "docs" # "engineer" /\ "docs" # "verifier"
    OBVIOUS
  <2> HIDE DEF new, ScribeSigns
  <2> QED BY <1>1, <1>3, <2>1, <2>2, ReceiptKeeps
<1> QED BY <1>1, <1>2, <1>4
        DEF RolesInv, CheckpointsRecorded, BundlesRecorded, StagesOK, RoleStep

\* Whatever a role does, the run directory stays a record of history, which
\* grows, and the warden's own state is left alone.
LEMMA RolesKeep ==
    ASSUME RoleTypes, RolesInv, RoleSteps
    PROVE  RoleTypes' /\ RolesInv' /\ RoleStep
BY EngineerCommitsKeeps, AssertShaKeeps, EngineerSignsKeeps, VerifierSignsKeeps,
   ScribeSignsKeeps, CreateReadsKeeps, CreateWritesKeeps, CollectKeeps, ReviewerSignsKeeps
   DEF RoleSteps

-----------------------------------------------------------------------------
(* The warden's steps. *)

LEMMA InitWarden == Init => WardenTypes /\ WardenInv
<1> SUFFICES ASSUME Init PROVE WardenTypes /\ WardenInv
  OBVIOUS
<1> USE DEF Init
<1>1. WardenTypes
  BY GatesInOrder DEF WardenTypes, WardenFields
<1> QED BY <1>1 DEF WardenInv, LoadedOK, ComparedOK, EvidencedOK, GatesOK, VerdictOK, Verdicts

\* What the warden has established stays so while the roles go on.
LEMMA WardenUntouched ==
    ASSUME WardenTypes, WardenInv, RoleStep
    PROVE  WardenTypes' /\ WardenInv'
<1> USE DEF RoleStep
<1>1. \A g : Required(g)' <=> Required(g)
  BY DEF Required, Directive
<1>2. WardenTypes'
  BY DEF WardenTypes
<1>3. LoadedOK' /\ ComparedOK' /\ EvidencedOK'
  BY DEF WardenInv, LoadedOK, ComparedOK, EvidencedOK, Attested, Witnessed
<1>4. GatesOK'
  BY <1>1 DEF WardenInv, GatesOK, Met, Informed, Favourable
<1>5. VerdictOK'
  BY <1>1 DEF WardenInv, VerdictOK, Attested, Witnessed, Informed, Favourable
<1> QED BY <1>2, <1>3, <1>4, <1>5 DEF WardenInv

LEMMA RolesUntouched ==
    ASSUME RoleTypes, RolesInv, UNCHANGED roleVars
    PROVE  RoleTypes' /\ RolesInv'
<1>1. Tip' = Tip
  BY DEF Tip, roleVars
<1> QED BY <1>1 DEF roleVars, RoleTypes, RolesInv, CheckpointsRecorded, ReceiptsRecorded,
                    BundlesRecorded, StagesOK, Readable

\* A run that ends in FREEZE, or in rework asked for by a gate.
LEMMA StopsEarly ==
    ASSUME WardenTypes, WardenInv, UNCHANGED <<roleVars, decision>>,
           warden.at \notin {"write", "done"},
           DOMAIN warden' = WardenFields, warden'.next = warden.next,
           DOMAIN warden'.info = Gates,
           warden'.at = "write", warden'.verdict # "PASS", warden'.why \notin Verdicts
    PROVE  WardenTypes' /\ WardenInv'
<1>1. WardenTypes'
  BY DEF WardenTypes
<1> QED BY <1>1 DEF WardenInv, LoadedOK, ComparedOK, EvidencedOK, GatesOK, VerdictOK

LEMMA FreezeKeeps ==
    ASSUME WardenTypes, WardenInv, UNCHANGED <<roleVars, decision>>,
           warden.at \notin {"write", "done"}, NEW why, why \notin Verdicts, Freeze(why)
    PROVE  WardenTypes' /\ WardenInv'
<1>1. /\ DOMAIN warden' = WardenFields /\ warden'.next = warden.next
      /\ DOMAIN warden'.info = Gates
      /\ warden'.at = "write" /\ warden'.verdict # "PASS" /\ warden'.why \notin Verdicts
  BY DEF Freeze, WardenTypes, WardenFields
<1> QED BY <1>1, StopsEarly

LEMMA WardenLoadsKeeps ==
    ASSUME RoleTypes, RolesInv, WardenTypes, WardenInv, WardenLoads
    PROVE  WardenTypes' /\ WardenInv'
<1> USE DEF WardenLoads
<1>1. CASE Freeze("receipt missing")
  BY <1>1, FreezeKeeps DEF Verdicts
<1>2. CASE ~Freeze("receipt missing")
  <2>1. /\ warden' = [warden EXCEPT !.at = "validate", !.index = index,
                         !.engineer = receipts["engineer"], !.verifier = receipts["verifier"]]
        /\ {"engineer", "verifier"} \cap {f \in Files : receipts[f] \in {Absent, Torn}} = {}
    BY <1>2
  <2>2. Readable(receipts["engineer"]) /\ Readable(receipts["verifier"])
    BY <2>1 DEF Files, Roles, Readable
  <2>3. /\ warden'.at = "validate" /\ warden'.index = index
        /\ warden'.engineer = receipts["engineer"] /\ warden'.verifier = receipts["verifier"]
        /\ DOMAIN warden' = WardenFields
        /\ warden'.next = warden.next /\ warden'.info = warden.info
        /\ warden'.verdict = warden.verdict /\ warden'.why = warden.why
    BY <2>1 DEF WardenTypes, WardenFields
  <2>4. history' = history
    BY DEF roleVars
  <2>5. LoadedOK'
    BY <2>2, <2>3, <2>4 DEF LoadedOK, RolesInv, ReceiptsRecorded, RoleTypes
  <2>6. WardenTypes'
    BY <2>3 DEF WardenTypes
  <2>7. GatesOK' /\ VerdictOK'
    BY <2>3 DEF WardenInv, GatesOK, VerdictOK, Verdicts
  <2> QED BY <2>3, <2>5, <2>6, <2>7 DEF WardenInv, ComparedOK, EvidencedOK
<1> QED BY <1>1, <1>2

\* A step that only moves on: what is established need not be shown again.
LEMMA GoesOn ==
    ASSUME WardenTypes, NEW at, Go(at)
    PROVE  /\ warden'.at = at /\ DOMAIN warden' = DOMAIN warden
           /\ \A x \in WardenFields \ {"at"} : warden'[x] = warden[x]
BY DEF Go, WardenTypes, WardenFields

LEMMA WardenValidatesKeeps ==
    ASSUME WardenTypes, WardenInv, WardenValidates
    PROVE  WardenTypes' /\ WardenInv'
<1> USE DEF WardenValidates
<1>1. CASE Freeze("schema")
  BY <1>1, FreezeKeeps DEF Verdicts
<1>2. CASE Go("checkpoints")
  <2>1. /\ warden'.at = "checkpoints" /\ DOMAIN warden' = WardenFields
        /\ warden'.index = warden.index
        /\ warden'.engineer = warden.engineer /\ warden'.verifier = warden.verifier
        /\ warden'.next = warden.next /\ warden'.info = warden.info
        /\ warden'.verdict = warden.verdict /\ warden'.why = warden.why
    BY <1>2, GoesOn DEF WardenTypes, WardenFields
  <2>2. history' = history
    BY DEF roleVars
  <2>3. WardenTypes'
    BY <2>1 DEF WardenTypes
  <2> QED BY <2>1, <2>2, <2>3
          DEF WardenInv, LoadedOK, ComparedOK, EvidencedOK, GatesOK, VerdictOK, Verdicts
<1> QED BY <1>1, <1>2

\* Five equal shas tie the checkpoints to the two receipts.
LEMMA WardenComparesShasKeeps ==
    ASSUME RoleTypes, RolesInv, WardenTypes, WardenInv, WardenComparesShas
    PROVE  WardenTypes' /\ WardenInv'
<1> USE DEF WardenComparesShas
<1> DEFINE a1 == LatestOf(A1Labels)
           start == LatestOf({"a2-verify-start"})
           end == LatestOf({"a2-verify-end"})
           logged == {a1, start, end}
           shas == logged \cup {warden.engineer.sha, warden.verifier.sha}
<1>1. CASE Freeze("checkpoint missing") \/ Freeze("sha mismatch")
  BY <1>1, FreezeKeeps DEF Verdicts
<1>2. CASE /\ Absent \notin logged /\ ~(Cardinality(shas) > 1)
           /\ warden' = [warden EXCEPT !.at = "git", !.candidate = end.commit]
  <2> DEFINE c == end.commit
  <2>1. a1 = end /\ start = end /\ warden.engineer.sha = end /\ warden.verifier.sha = end
    <3>1. IsFiniteSet(shas)
      <4>1. shas = (({a1} \cup {start}) \cup {end})
                     \cup ({warden.engineer.sha} \cup {warden.verifier.sha})
        OBVIOUS
      <4> HIDE DEF shas
      <4> QED BY <4>1, FS_Singleton, FS_Union
    <3>2. /\ a1 \in shas /\ start \in shas /\ end \in shas
          /\ warden.engineer.sha \in shas /\ warden.verifier.sha \in shas
      OBVIOUS
    <3> HIDE DEF shas, a1, start, end, logged
    <3> QED BY <1>2, <3>1, <3>2, AtMostOne
  <2>2. /\ \E label \in A1Labels : <<label, c>> \in history
        /\ <<"a2-verify-start", c>> \in history /\ <<"a2-verify-end", c>> \in history
    <3>1. \E label \in A1Labels : <<label, a1.commit>> \in history
      BY <1>2, LatestRecorded DEF RolesInv
    <3>2. \E label \in {"a2-verify-start"} : <<label, start.commit>> \in history
      BY <1>2, LatestRecorded DEF RolesInv
    <3>3. \E label \in {"a2-verify-end"} : <<label, end.commit>> \in history
      BY <1>2, LatestRecorded DEF RolesInv
    <3> HIDE DEF a1, start, end
    <3> QED BY <2>1, <3>1, <3>2, <3>3
  <2> HIDE DEF a1, start, end
  <2>3. /\ warden'.at = "git" /\ DOMAIN warden' = WardenFields /\ warden'.candidate = c
        /\ warden'.index = warden.index
        /\ warden'.engineer = warden.engineer /\ warden'.verifier = warden.verifier
        /\ warden'.next = warden.next /\ warden'.info = warden.info
        /\ warden'.verdict = warden.verdict /\ warden'.why = warden.why
    BY <1>2 DEF WardenTypes, WardenFields
  <2>4. history' = history /\ decision' = decision /\ warden.at = "checkpoints"
    BY DEF roleVars
  <2> HIDE DEF c, WardenComparesShas
  <2>5. WardenTypes'
    BY <2>3 DEF WardenTypes
  <2>6. LoadedOK'
    BY <2>3, <2>4 DEF WardenInv, LoadedOK
  <2>7. ComparedOK'
    <3>1. <<"signed", c>> \in history /\ warden.verifier.sha.commit = c
      BY <2>1, <2>4 DEF WardenInv, LoadedOK, c
    <3> QED BY <2>2, <2>3, <2>4, <3>1 DEF ComparedOK, Attested
  <2>8. GatesOK' /\ VerdictOK'
    BY <2>3, <2>4 DEF WardenInv, GatesOK, VerdictOK, Verdicts
  <2> QED BY <2>3, <2>5, <2>6, <2>7, <2>8 DEF WardenInv, EvidencedOK
<1> QED BY <1>1, <1>2

LEMMA WardenChecksGitKeeps ==
    ASSUME WardenTypes, WardenInv, WardenChecksGit
    PROVE  WardenTypes' /\ WardenInv'
<1>1. /\ warden.at = "git" /\ UNCHANGED <<roleVars, decision>>
      /\ Go("evidence") \/ Freeze("scope")
  BY DEF WardenChecksGit
<1>2. CASE Freeze("scope")
  BY <1>1, <1>2, FreezeKeeps DEF Verdicts
<1>3. CASE Go("evidence")
  <2>1. /\ warden'.at = "evidence" /\ DOMAIN warden' = WardenFields
        /\ warden'.index = warden.index /\ warden'.candidate = warden.candidate
        /\ warden'.engineer = warden.engineer /\ warden'.verifier = warden.verifier
        /\ warden'.next = warden.next /\ warden'.info = warden.info
        /\ warden'.verdict = warden.verdict /\ warden'.why = warden.why
    BY <1>3, GoesOn DEF WardenTypes, WardenFields
  <2>2. history' = history
    BY <1>1 DEF roleVars
  <2>3. WardenTypes'
    BY <2>1 DEF WardenTypes
  <2> QED BY <1>1, <2>1, <2>2, <2>3
          DEF WardenInv, LoadedOK, ComparedOK, EvidencedOK, GatesOK, VerdictOK, Verdicts, Attested
<1> QED BY <1>1, <1>2, <1>3

\* One bundle that the verifier cites was captured at the candidate.
LEMMA WardenChecksEvidenceKeeps ==
    ASSUME RoleTypes, RolesInv, WardenTypes, WardenInv, WardenChecksEvidence
    PROVE  WardenTypes' /\ WardenInv'
<1>1. warden.at = "evidence" /\ UNCHANGED <<roleVars, decision>>
  BY DEF WardenChecksEvidence
<1>2. CASE Freeze("evidence")
  BY <1>1, <1>2, FreezeKeeps DEF Verdicts
<1>3. CASE Go("gate") /\ ~Freeze("evidence")
  <2>1. /\ warden'.at = "gate" /\ DOMAIN warden' = WardenFields
        /\ warden'.index = warden.index /\ warden'.candidate = warden.candidate
        /\ warden'.engineer = warden.engineer /\ warden'.verifier = warden.verifier
        /\ warden'.next = warden.next /\ warden'.info = warden.info
        /\ warden'.verdict = warden.verdict /\ warden'.why = warden.why
    BY <1>3, GoesOn DEF WardenTypes, WardenFields
  <2>2. history' = history
    BY <1>1 DEF roleVars
  <2>3. Witnessed(warden.candidate)
    <3> DEFINE cited == warden.engineer.evidence \cup warden.verifier.evidence
    <3>1. /\ Supported(cited)
          /\ \E id \in warden.verifier.evidence : bundles[id].sha.commit = warden.candidate
      BY <1>3 DEF WardenChecksEvidence
    <3>2. PICK id \in warden.verifier.evidence : bundles[id].sha.commit = warden.candidate
      BY <3>1
    <3>3. id \in warden.index /\ bundles[id] # Absent
      BY <3>1 DEF Supported, Bound
    <3>4. id \in Roles
      BY <1>1, <3>3 DEF WardenInv, LoadedOK
    <3> QED BY <3>2, <3>3, <3>4 DEF RolesInv, BundlesRecorded, Witnessed
  <2>4. WardenTypes'
    BY <2>1 DEF WardenTypes
  <2>5. LoadedOK' /\ ComparedOK' /\ EvidencedOK'
    BY <1>1, <2>1, <2>2, <2>3
       DEF WardenInv, LoadedOK, ComparedOK, EvidencedOK, Attested, Witnessed
  <2>6. GatesOK' /\ VerdictOK'
    <3>1. warden'.next = 1 /\ warden'.next <= Len(GateOrder)
      BY <1>1, <2>1, GatesInOrder DEF WardenInv, GatesOK
    <3>2. 1..(warden'.next - 1) = {}
      BY <3>1
    <3> QED BY <1>1, <2>1, <3>1, <3>2 DEF WardenInv, GatesOK, VerdictOK, Verdicts
  <2> QED BY <2>4, <2>5, <2>6 DEF WardenInv
<1> QED BY <1>2, <1>3 DEF WardenChecksEvidence

\* A gate that was passed was told of, and has its receipt if it is required.
LEMMA PassGateKeeps ==
    ASSUME RoleTypes, RolesInv, WardenTypes, WardenInv, UNCHANGED <<roleVars, decision>>,
           warden.at = "gate", NEW g, g = GateOrder[warden.next], PassGate(g),
           Required(g) => Favourable(g, warden.candidate) /\ receipts[g] # Absent
    PROVE  WardenTypes' /\ WardenInv'
<1> DEFINE i == warden.next
           told == Told(g, receipts[g] # Absent)
<1>1. /\ i \in 1..Len(GateOrder) /\ Len(GateOrder) \in Nat /\ g \in Gates
      /\ Gates = {GateOrder[j] : j \in 1..Len(GateOrder)}
  BY GatesInOrder DEF WardenTypes, WardenInv, GatesOK
<1>2. /\ warden'.info = told /\ warden'.next = i + 1
      /\ warden'.at = IF i = Len(GateOrder) THEN "verdict" ELSE "gate"
      /\ warden'.index = warden.index /\ warden'.candidate = warden.candidate
      /\ warden'.engineer = warden.engineer /\ warden'.verifier = warden.verifier
      /\ warden'.verdict = warden.verdict /\ warden'.why = warden.why
      /\ DOMAIN warden' = WardenFields
  BY DEF PassGate, WardenTypes, WardenFields
<1>3. /\ DOMAIN told = Gates
      /\ told[g].required = Required(g) /\ told[g].present = (receipts[g] # Absent)
      /\ \A h \in Gates \ {g} : told[h] = warden.info[h]
  BY <1>1 DEF Told, WardenTypes
<1> HIDE DEF told
<1>4. history' = history /\ decision' = decision
  BY DEF roleVars
<1>5. \A h : Required(h)' <=> Required(h)
  BY DEF Required, Directive, roleVars
<1>6. WardenTypes'
  BY <1>1, <1>2, <1>3 DEF WardenTypes
<1>7. LoadedOK' /\ ComparedOK' /\ EvidencedOK'
  BY <1>2, <1>4 DEF WardenInv, LoadedOK, ComparedOK, EvidencedOK, Attested, Witnessed
<1>8. Met(g)'
  BY <1>2, <1>3, <1>4, <1>5 DEF Met, Informed, Favourable
<1>9. ASSUME NEW j \in 1..i PROVE Met(GateOrder[j])'
  <2>1. CASE GateOrder[j] = g
    BY <1>8, <2>1
  <2>2. CASE GateOrder[j] # g
    <3>1. j \in 1..(i - 1) /\ GateOrder[j] \in Gates
      BY <1>1, <2>2
    <3>2. Met(GateOrder[j])
      BY <3>1 DEF WardenInv, GatesOK
    <3> QED BY <1>2, <1>3, <1>4, <1>5, <2>2, <3>1, <3>2 DEF Met, Informed, Favourable
  <2> QED BY <2>1, <2>2
<1>10. GatesOK'
  <2>1. CASE i = Len(GateOrder)
    <3>1. \A h \in Gates : Met(h)'
      BY <1>1, <1>9, <2>1
    <3> QED BY <1>2, <2>1, <3>1 DEF GatesOK
  <2>2. CASE i # Len(GateOrder)
    <3>1. warden'.at = "gate" /\ warden'.next - 1 = i /\ warden'.next <= Len(GateOrder)
      BY <1>1, <1>2, <2>2
    <3> QED BY <1>9, <3>1 DEF GatesOK
  <2> QED BY <2>1, <2>2
<1>11. VerdictOK'
  BY <1>2, <1>4 DEF WardenInv, VerdictOK, Verdicts
<1> QED BY <1>6, <1>7, <1>10, <1>11 DEF WardenInv

\* A gate that is not unsound, and is required, has a readable receipt of it
\* for the candidate.
LEMMA SoundGate ==
    ASSUME RolesInv, NEW g \in Gates, ~Unsound(g), Required(g)
    PROVE  /\ receipts[g] # Absent /\ Readable(receipts[g])
           /\ <<g, receipts[g].status, warden.candidate>> \in history
<1>1. /\ receipts[g] # Absent /\ Valid(receipts[g])
      /\ receipts[g].sha = Full(warden.candidate)
  BY DEF Unsound
<1>2. Readable(receipts[g]) /\ receipts[g].sha.commit = warden.candidate
  BY <1>1 DEF Valid, Full
<1> QED BY <1>1, <1>2 DEF RolesInv, ReceiptsRecorded

\* FREEZE, rework and the packaged files all end the run at a gate.
LEMMA StopsAtGate ==
    ASSUME WardenTypes, WardenInv, UNCHANGED <<roleVars, decision>>, warden.at = "gate",
           NEW g, NEW present, NEW verdict, verdict # "PASS",
           NEW why, why \notin Verdicts,
           warden' = [warden EXCEPT !.at = "write", !.verdict = verdict, !.why = why,
                                    !.info = Told(g, present)]
    PROVE  WardenTypes' /\ WardenInv'
<1>1. /\ DOMAIN warden' = WardenFields /\ warden'.next = warden.next
      /\ DOMAIN warden'.info = Gates
      /\ warden'.at = "write" /\ warden'.verdict # "PASS" /\ warden'.why \notin Verdicts
  BY DEF WardenTypes, WardenFields, Told
<1> QED BY <1>1, StopsEarly

LEMMA WardenMeetsGateKeeps ==
    ASSUME RoleTypes, RolesInv, WardenTypes, WardenInv,
           WardenMeetsThreatModel \/ WardenMeetsReview \/ WardenMeetsAudit
    PROVE  WardenTypes' /\ WardenInv'
<1> DEFINE g == GateOrder[warden.next]
<1>1. warden.at = "gate" /\ UNCHANGED <<roleVars, decision>>
  BY DEF WardenMeetsThreatModel, WardenMeetsReview, WardenMeetsAudit
<1>2. g \in Gates
  BY <1>1, GatesInOrder DEF WardenTypes, WardenInv, GatesOK
<1>3. CASE FreezeAt(g) \/ BlockAt(g)
  BY <1>1, <1>3, StopsAtGate DEF FreezeAt, BlockAt, Verdicts
<1>4. CASE warden' = [warden EXCEPT !.at = "write", !.verdict = "FREEZE", !.why = "package",
                                    !.info = Told("audit", TRUE)]
  <2>1. /\ DOMAIN warden' = WardenFields /\ warden'.next = warden.next
        /\ DOMAIN warden'.info = Gates
        /\ warden'.at = "write" /\ warden'.verdict # "PASS" /\ warden'.why \notin Verdicts
    BY <1>4 DEF WardenTypes, WardenFields, Told, Verdicts
  <2> QED BY <1>1, <2>1, StopsEarly
<1>5. CASE /\ PassGate(g) /\ ~Unsound(g)
           /\ IF g = "threat" THEN Required(g) => receipts[g].status = "COMPLETE"
                              ELSE ~Rejected(g)
  <2>1. Required(g) => Favourable(g, warden.candidate) /\ receipts[g] # Absent
    BY <1>2, <1>5, SoundGate DEF Favourable, Rejected
  <2> HIDE DEF g
  <2> QED BY <1>1, <1>5, <2>1, PassGateKeeps DEF g
<1>6. g = "threat" => g \notin Range(Reviews) /\ g # "audit"
  BY ReviewsAssumption
<1>7. CASE WardenMeetsThreatModel
  <2>1. /\ g = "threat"
        /\ \/ FreezeAt(g)
           \/ PassGate(g) /\ ~Unsound(g) /\ (Required(g) => receipts[g].status = "COMPLETE")
    BY <1>7 DEF WardenMeetsThreatModel
  <2> QED BY <1>3, <1>5, <2>1
<1>8. CASE WardenMeetsReview
  <2>1. /\ g # "threat"
        /\ FreezeAt(g) \/ BlockAt(g) \/ (PassGate(g) /\ ~Unsound(g) /\ ~Rejected(g))
    BY <1>6, <1>8 DEF WardenMeetsReview
  <2> QED BY <1>3, <1>5, <2>1
<1>9. CASE WardenMeetsAudit
  <2>1. g = "audit"
    BY <1>9 DEF WardenMeetsAudit
  <2>2. \/ FreezeAt(g) \/ BlockAt(g)
        \/ warden' = [warden EXCEPT !.at = "write", !.verdict = "FREEZE", !.why = "package",
                                    !.info = Told("audit", TRUE)]
        \/ PassGate(g) /\ ~Unsound(g) /\ ~Rejected(g)
    BY <1>9, <2>1 DEF WardenMeetsAudit
  <2> QED BY <1>3, <1>4, <1>5, <2>1, <2>2
<1> QED BY <1>7, <1>8, <1>9

LEMMA WardenGivesVerdictKeeps ==
    ASSUME WardenTypes, WardenInv, WardenGivesVerdict
    PROVE  WardenTypes' /\ WardenInv'
<1> USE DEF WardenGivesVerdict
<1>1. warden.at = "verdict" /\ history' = history /\ decision' = decision
  BY DEF roleVars
<1>2. \A g : Required(g)' <=> Required(g)
  BY DEF Required, Directive, roleVars
<1>3. /\ Attested(warden.candidate) /\ Witnessed(warden.candidate)
      /\ warden.verifier.sha.commit = warden.candidate
      /\ \A g \in Gates : Met(g)
      /\ <<warden.verifier.status, warden.verifier.sha.commit>> \in history
      /\ decision = Absent
  BY <1>1 DEF WardenInv, LoadedOK, ComparedOK, EvidencedOK, GatesOK, VerdictOK
<1>4. CASE /\ warden.verifier.status = "PASS"
           /\ warden' = [warden EXCEPT !.at = "write", !.verdict = "PASS", !.why = "clean"]
  <2>1. /\ warden'.at = "write" /\ DOMAIN warden' = WardenFields
        /\ warden'.candidate = warden.candidate
        /\ warden'.next = warden.next /\ warden'.info = warden.info
    BY <1>4 DEF WardenTypes, WardenFields
  <2>2. WardenTypes'
    BY <2>1 DEF WardenTypes
  <2>3. LoadedOK' /\ ComparedOK' /\ EvidencedOK' /\ GatesOK'
    BY <2>1 DEF LoadedOK, ComparedOK, EvidencedOK, GatesOK
  <2>4. \A g \in Gates : Informed(g)'
    BY <1>2, <1>3, <2>1 DEF Met, Informed
  <2>5. Attested(warden.candidate)' /\ Witnessed(warden.candidate)'
    BY <1>1, <1>3, <2>1 DEF Attested, Witnessed
  <2>6. <<"PASS", warden'.candidate>> \in history'
    BY <1>1, <1>3, <1>4, <2>1
  <2>7. \A g \in Gates : Required(g)' => Favourable(g, warden.candidate)'
    BY <1>1, <1>2, <1>3, <2>1 DEF Met, Favourable
  <2>8. VerdictOK'
    BY <1>1, <1>3, <2>1, <2>4, <2>5, <2>6, <2>7 DEF VerdictOK
  <2> QED BY <2>2, <2>3, <2>8 DEF WardenInv
<1>5. CASE Block("verdict")
  <2>1. /\ warden'.at = "write" /\ DOMAIN warden' = WardenFields
        /\ warden'.next = warden.next /\ warden'.info = warden.info
        /\ warden'.verdict = "BLOCK"
    BY <1>5 DEF Block, WardenTypes, WardenFields
  <2>2. WardenTypes'
    BY <2>1 DEF WardenTypes
  <2>3. \A g \in Gates : Informed(g)'
    BY <1>2, <1>3, <2>1 DEF Met, Informed
  <2> QED BY <1>1, <1>3, <2>1, <2>2, <2>3
          DEF WardenInv, LoadedOK, ComparedOK, EvidencedOK, GatesOK, VerdictOK
<1>6. CASE warden' = [warden EXCEPT !.at = "write", !.verdict = "FREEZE", !.why = "docs",
              !.info = [g \in Gates |-> [present |-> FALSE, required |-> FALSE]]]
  <2>1. /\ DOMAIN warden' = WardenFields /\ warden'.next = warden.next
        /\ DOMAIN warden'.info = Gates
        /\ warden'.at = "write" /\ warden'.verdict # "PASS" /\ warden'.why \notin Verdicts
    BY <1>6 DEF WardenTypes, WardenFields, Verdicts
  <2> QED BY <1>1, <2>1, StopsEarly
<1> QED BY <1>4, <1>5, <1>6

LEMMA WardenWritesKeeps ==
    ASSUME WardenTypes, WardenInv, WardenWrites
    PROVE  WardenTypes' /\ WardenInv'
<1> USE DEF WardenWrites
<1>1. /\ warden'.at = "done" /\ DOMAIN warden' = WardenFields
      /\ warden'.candidate = warden.candidate
      /\ warden'.next = warden.next /\ warden'.info = warden.info
      /\ warden'.verdict = warden.verdict /\ warden'.why = warden.why
  BY GoesOn DEF WardenTypes, WardenFields
<1>2. history' = history /\ decision'.info = warden.info
  BY DEF roleVars
<1>3. \A g : Required(g)' <=> Required(g)
  BY DEF Required, Directive, roleVars
<1>4. WardenTypes'
  BY <1>1 DEF WardenTypes
<1>5. LoadedOK' /\ ComparedOK' /\ EvidencedOK' /\ GatesOK'
  BY <1>1 DEF LoadedOK, ComparedOK, EvidencedOK, GatesOK
<1>6. VerdictOK'
  BY <1>1, <1>2, <1>3
     DEF WardenInv, VerdictOK, Attested, Witnessed, Favourable, Informed
<1> QED BY <1>4, <1>5, <1>6 DEF WardenInv

LEMMA WardenKeeps ==
    ASSUME RoleTypes, RolesInv, WardenTypes, WardenInv, Warden
    PROVE  WardenTypes' /\ WardenInv' /\ UNCHANGED roleVars
<1>1. UNCHANGED roleVars
  BY DEF Warden, WardenLoads, WardenValidates, WardenComparesShas, WardenChecksGit,
         WardenChecksEvidence, WardenMeetsThreatModel, WardenMeetsReview,
         WardenMeetsAudit, WardenGivesVerdict, WardenWrites
<1>2. WardenTypes' /\ WardenInv'
  BY WardenLoadsKeeps, WardenValidatesKeeps, WardenComparesShasKeeps, WardenChecksGitKeeps,
     WardenChecksEvidenceKeeps, WardenMeetsGateKeeps, WardenGivesVerdictKeeps,
     WardenWritesKeeps DEF Warden
<1> QED BY <1>1, <1>2

-----------------------------------------------------------------------------
\* Every reachable state of the release gate satisfies its invariant: the run
\* directory records what happened, and the warden knows what it has checked.
THEOREM ReleaseInvariant == Spec => []ReleaseInv
<1> USE DEF ReleaseInv, TypeOK
<1>1. Init => ReleaseInv
  BY InitRoles, InitWarden
<1>2. ReleaseInv /\ [Next]_vars => ReleaseInv'
  <2> SUFFICES ASSUME ReleaseInv, [Next]_vars PROVE ReleaseInv'
    OBVIOUS
  <2>1. CASE RoleSteps
    BY <2>1, RolesKeep, WardenUntouched
  <2>2. CASE Warden
    BY <2>2, WardenKeeps, RolesUntouched
  <2>3. CASE UNCHANGED vars
    <3>1. UNCHANGED roleVars /\ RoleStep
      BY <2>3 DEF vars, roleVars, RoleStep
    <3> QED BY <3>1, RolesUntouched, WardenUntouched
  <2> QED BY <2>1, <2>2, <2>3 DEF Next
<1> QED BY <1>1, <1>2, PTL DEF Spec

\* A PASS is for one commit at which the engineer checkpointed and signed,
\* verification began and ended, evidence was captured and the verifier signed
\* PASS, for any plans of the roles and any number of candidates.
THEOREM PassWasVerifiedHolds == Spec => []PassWasVerified
<1>1. ReleaseInv => PassWasVerified
  BY DEF ReleaseInv, WardenInv, VerdictOK, PassWasVerified, Attested, Witnessed
<1> QED BY <1>1, ReleaseInvariant, PTL

\* A PASS has every receipt that the phase's directive requires, favourable
\* and for that very commit, for any list of review gates.
THEOREM RequiredReviewsSignedHolds == Spec => []RequiredReviewsSigned
<1>1. ReleaseInv => RequiredReviewsSigned
  BY DEF ReleaseInv, WardenInv, VerdictOK, RequiredReviewsSigned, Favourable
<1> QED BY <1>1, ReleaseInvariant, PTL

\* A verdict on the results, good or bad, comes after every required gate was
\* met, and the receipt says which gates were required.
THEOREM GatesBeforeVerdictsHolds == Spec => []GatesBeforeVerdicts
<1>1. ReleaseInv => GatesBeforeVerdicts
  BY DEF ReleaseInv, WardenInv, VerdictOK, Verdicts, Informed, GatesBeforeVerdicts
<1> QED BY <1>1, ReleaseInvariant, PTL
=============================================================================
