------------------------- MODULE ModuleLoader_proofs -------------------------
(***************************************************************************)
(* Proofs about the policy watcher and the module interception core on top *)
(* of it, for every set of paths, contents, rule sets and environments:    *)
(* that the rules in force were verified and a lockdown is final, the      *)
(* types, the invariants of the loader's caches, and that the loader       *)
(* implements LoadGate.  Then the stub that it exports for a module it     *)
(* refuses: which of its answers JavaScript accepts.                       *)
(***************************************************************************)
EXTENDS ModuleLoader, QuarantineProxy, TLAPS

-----------------------------------------------------------------------------
(* The watcher by itself. *)

(* The watcher starts well-typed, on whatever policy file it finds.          *)
LEMMA InitType == Init => TypeOK
BY ConfigAssumption DEF Init, TypeOK, Phases

(* Types are preserved by every action of the watcher, the agent's bootstrap *)
(* and the processes that rewrite the policy file.                           *)
LEMMA TypeStep == TypeOK /\ [Next]_watcherVars => TypeOK'
<1> SUFFICES ASSUME TypeOK, [Next]_watcherVars PROVE TypeOK'
  OBVIOUS
<1> USE DEF TypeOK, Phases
<1>1. CASE KeyGuard
  BY <1>1 DEF KeyGuard, Exit
<1>2. CASE StartLooks
  BY <1>2 DEF StartLooks, Exit
<1>3. CASE StartVerifies
  BY <1>3 DEF StartVerifies, Exit, ApplyRules, EnterLockdown, Verifies
<1>4. CASE Tick
  BY <1>4 DEF Tick, TickDue, Exit, ApplyRules, EnterLockdown, Verifies
<1>5. CASE Stop
  BY <1>5 DEF Stop
<1>6. CASE ProcessEnds
  BY <1>6 DEF ProcessEnds, Exit
<1>7. CASE FileChanges
  BY <1>7 DEF FileChanges
<1>8. CASE UNCHANGED watcherVars
  BY <1>8 DEF watcherVars
<1>9. QED
  BY <1>1, <1>2, <1>3, <1>4, <1>5, <1>6, <1>7, <1>8 DEF Next, Watch

(* The watcher's state always has the types its declarations give it.        *)
THEOREM TypeCorrect == Spec => []TypeOK
BY InitType, TypeStep, PTL DEF Spec

-----------------------------------------------------------------------------
(* The inductive invariant behind MapMatchesHash and LockReachesAgent: until *)
(* start() has verified a policy nothing is remembered, armed or locked, and *)
(* an armed timer means that a policy was verified.                          *)
WatcherInv ==
    /\ TypeOK
    /\ MapMatchesHash
    /\ LockReachesAgent
    /\ phase \in {"boot", "starting", "reading"} =>
         ~timer /\ ~locked /\ lastHash = NoHash

(* A step that verifies a rule set keeps the map and the hash in step; a     *)
(* step that rejects one raises both lock flags.                             *)
LEMMA WatcherInvStep == WatcherInv /\ [Next]_watcherVars => WatcherInv'
<1> SUFFICES ASSUME WatcherInv, [Next]_watcherVars PROVE WatcherInv'
  OBVIOUS
<1> USE ConfigAssumption
    DEF WatcherInv, TypeOK, Phases, MapMatchesHash, LockReachesAgent
<1>1. CASE KeyGuard
  <2>1. UNCHANGED <<config, file, locked, lastHash, lockdown, policyMap>>
    BY <1>1 DEF KeyGuard, Exit
  <2>2. phase' \in {"exited", "starting"} /\ timer' = FALSE
    BY <1>1 DEF KeyGuard, Exit
  <2>3. QED
    BY <1>1, <2>1, <2>2 DEF KeyGuard
<1>2. CASE StartLooks
  <2>1. UNCHANGED <<config, file, locked, lastHash, lockdown, policyMap>>
    BY <1>2 DEF StartLooks, Exit
  <2>2. phase' \in {"exited", "reading", "up"} /\ timer' = FALSE
    BY <1>2 DEF StartLooks, Exit
  <2>3. timer' \in BOOLEAN /\ ~timer' /\ ~locked /\ lastHash = NoHash
    BY <1>2, <2>2 DEF StartLooks
  <2>4. QED
    BY <2>1, <2>2, <2>3
<1>3. CASE StartVerifies
  <2>1. /\ phase = "reading" /\ ~timer /\ lastHash = NoHash /\ ~locked
        /\ UNCHANGED <<config, file>>
    BY <1>3 DEF StartVerifies
  <2>2. CASE Verifies(file) /\ ApplyRules(file) /\ timer' = TRUE /\ phase' = "up"
    BY <2>1, <2>2 DEF ApplyRules, Verifies
  <2>3. CASE Exit
    BY <2>1, <2>3 DEF Exit
  <2>4. CASE EnterLockdown /\ phase' = "up" /\ UNCHANGED timer
    BY <2>1, <2>4 DEF EnterLockdown
  <2>5. QED
    BY <1>3, <2>2, <2>3, <2>4 DEF StartVerifies
<1>4. CASE Tick
  BY <1>4 DEF Tick, TickDue, Exit, ApplyRules, EnterLockdown, Verifies
<1>5. CASE Stop
  BY <1>5 DEF Stop
<1>6. CASE ProcessEnds
  BY <1>6 DEF ProcessEnds, Exit
<1>7. CASE FileChanges
  BY <1>7 DEF FileChanges
<1>8. CASE UNCHANGED watcherVars
  BY <1>8 DEF watcherVars
<1>9. QED
  BY <1>1, <1>2, <1>3, <1>4, <1>5, <1>6, <1>7, <1>8 DEF Next, Watch

LEMMA WatcherInvInit == Init => WatcherInv
BY ConfigAssumption
DEF Init, WatcherInv, TypeOK, Phases, MapMatchesHash, LockReachesAgent

LEMMA WatcherInvHolds == Spec => []WatcherInv
BY WatcherInvInit, WatcherInvStep, PTL DEF Spec

(* The rules in force are always those whose hash the watcher remembers.     *)
THEOREM MapMatchesHashHolds == Spec => []MapMatchesHash
<1>1. WatcherInv => MapMatchesHash
  BY DEF WatcherInv
<1>2. QED
  BY <1>1, WatcherInvHolds, PTL

(* The watcher's lock and the agent's lockdown never disagree, and an armed  *)
(* interval has verified a policy.                                           *)
THEOREM LockReachesAgentHolds == Spec => []LockReachesAgent
<1>1. WatcherInv => LockReachesAgent
  BY DEF WatcherInv
<1>2. QED
  BY <1>1, WatcherInvHolds, PTL

-----------------------------------------------------------------------------
(* A locked watcher is past startup and its ticks return at once, so nothing *)
(* that follows lifts the lockdown or replaces the rules.                    *)
LEMMA LockdownStep ==
    WatcherInv /\ [Next]_watcherVars
        => (lockdown => lockdown' /\ policyMap' = policyMap)
<1> SUFFICES ASSUME WatcherInv, [Next]_watcherVars, lockdown
             PROVE  lockdown' /\ policyMap' = policyMap
  OBVIOUS
<1> USE DEF WatcherInv, LockReachesAgent
<1>1. CASE KeyGuard
  BY <1>1 DEF KeyGuard, Exit
<1>2. CASE StartLooks
  BY <1>2 DEF StartLooks, Exit
<1>3. CASE StartVerifies
  BY <1>3 DEF StartVerifies  \* phase is "reading", so the watcher is unlocked
<1>4. CASE Tick
  BY <1>4 DEF Tick, TickDue
<1>5. CASE Stop
  BY <1>5 DEF Stop
<1>6. CASE ProcessEnds
  BY <1>6 DEF ProcessEnds, Exit
<1>7. CASE FileChanges
  BY <1>7 DEF FileChanges
<1>8. CASE UNCHANGED watcherVars
  BY <1>8 DEF watcherVars
<1>9. QED
  BY <1>1, <1>2, <1>3, <1>4, <1>5, <1>6, <1>7, <1>8 DEF Next, Watch

(* Lockdown is final for the life of the process.                            *)
THEOREM LockdownIsFinalHolds == Spec => LockdownIsFinal
<1>1. WatcherInv /\ [Next]_watcherVars
        => [lockdown => lockdown' /\ policyMap' = policyMap]_watcherVars
  BY LockdownStep
<1>2. QED
  BY <1>1, WatcherInvHolds, PTL DEF Spec, LockdownIsFinal

(* Only ApplyRules changes the map, in a step that verified the file and     *)
(* while the watcher was unlocked.                                           *)
LEMMA RulesStep ==
    WatcherInv /\ [Next]_watcherVars
        => (policyMap' # policyMap => policyMap' = file /\ ~lockdown')
<1> SUFFICES ASSUME WatcherInv, [Next]_watcherVars, policyMap' # policyMap
             PROVE  policyMap' = file /\ ~lockdown'
  OBVIOUS
<1> USE DEF WatcherInv, LockReachesAgent
<1>1. CASE StartVerifies
  BY <1>1 DEF StartVerifies, ApplyRules, EnterLockdown, Exit
<1>2. CASE Tick
  <2>1. ApplyRules(file) /\ ~locked
    BY <1>2 DEF Tick, TickDue, EnterLockdown, Exit
  <2>2. QED
    BY <2>1 DEF ApplyRules
<1>3. CASE ~StartVerifies /\ ~Tick
  <2>1. \/ KeyGuard \/ StartLooks
        \/ Stop \/ ProcessEnds \/ FileChanges
        \/ UNCHANGED watcherVars
    BY <1>3 DEF Next, Watch
  <2>2. UNCHANGED policyMap
    BY <2>1 DEF KeyGuard, StartLooks, Stop, ProcessEnds, FileChanges,
                Exit, watcherVars
  <2>3. QED
    BY <2>2
<1>4. QED
  BY <1>1, <1>2, <1>3

(* Only the second look of start() brings a reading watcher up.              *)
LEMMA StartStep ==
    [Next]_watcherVars /\ phase = "reading" /\ phase' = "up"
        => lockdown' \/ policyMap' = file
<1> SUFFICES ASSUME [Next]_watcherVars, phase = "reading", phase' = "up"
             PROVE  lockdown' \/ policyMap' = file
  OBVIOUS
<1>1. StartVerifies
  BY DEF Next, Watch, KeyGuard, StartLooks, Tick, TickDue, Stop, ProcessEnds,
         FileChanges, Exit, watcherVars
<1>2. QED
  BY <1>1 DEF StartVerifies, ApplyRules, EnterLockdown, Exit

(* Rules take effect only in the step that verified them, and a start that   *)
(* saw a file ends with its rules or in lockdown.                            *)
THEOREM OnlyVerifiedRulesApplyHolds == Spec => OnlyVerifiedRulesApply
<1>1. WatcherInv /\ [Next]_watcherVars
        => [/\ policyMap' # policyMap => policyMap' = file /\ ~lockdown'
            /\ phase = "reading" /\ phase' = "up" => lockdown' \/ policyMap' = file]_watcherVars
  BY RulesStep, StartStep
<1>2. QED
  BY <1>1, WatcherInvHolds, PTL DEF Spec, OnlyVerifiedRulesApply

-----------------------------------------------------------------------------
(* The hooks on top of it. *)

Trackers == [Path -> Content \cup {None}]

(* Every path falls under exactly one verdict, whatever keys the rule sets    *)
(* have.                                                                      *)
LEMMA VerdictType ==
    ASSUME NEW rules \in Rulesets \cup {EmptyRules}, NEW p \in Path
    PROVE  /\ InstalledRule(rules, Identity[p]) \in Verdicts
           /\ ResolveModulePolicy(rules, p) \in Verdicts
<1>1. PICK K \in SUBSET Keys : rules \in [K -> Verdicts]
  BY LoaderAssumption
<1>2. \A k \in DOMAIN rules : rules[k] \in Verdicts
  BY <1>1
<1>3. InstalledRule(rules, Identity[p]) \in Verdicts
  BY <1>2 DEF InstalledRule, Verdicts
<1>4. QED
  BY <1>2, <1>3 DEF ResolveModulePolicy, MoreRestrictiveRule

(* A scan yields a verdict and a tracker.                                     *)
LEMMA ScanType ==
    ASSUME disk \in [Path -> Content], NEW p \in Path, NEW sig \in Trackers
    PROVE  /\ Scan(p, sig).passes \in BOOLEAN
           /\ Scan(p, sig).signals \in Trackers
BY DEF Scan, Trackers

LEMMA TrackerType ==
    ASSUME signals \in Trackers, NEW parent
    PROVE  TrackerFor(parent) \in Trackers
BY DEF TrackerFor, Trackers

(* The stack stays a sequence of frames.                                      *)
LEMMA PopType ==
    ASSUME stack \in Seq(Frames), stack # <<>>, Pop
    PROVE  stack' \in Seq(Frames)
<1>1. Len(stack) \in Nat /\ \A i \in 1..Len(stack) : stack[i] \in Frames
  OBVIOUS
<1>2. QED
  BY <1>1 DEF Pop

(* A require leaves the reply, the only thing it has to say about itself.     *)
LEMMA ReplyType ==
    ASSUME NEW got \in Outcomes, NEW parent \in Path \cup {Root},
           NEW p \in Path, Replied(got, parent, p)
    PROVE  reply' \in Replies
BY DEF Replied, Replies

-----------------------------------------------------------------------------
(* The composition does to the watcher only what the watcher does.            *)
LEMMA LoaderStepsWatcher ==
    [LoaderNext]_vars => [Next]_watcherVars
BY DEF LoaderNext, LoaderStep, WatcherStep, vars, Next

-----------------------------------------------------------------------------
(* Types are preserved by a compilation, whatever rule it falls under.        *)
LEMMA CompileType ==
    ASSUME LoaderTypeOK, NEW parent \in Path \cup {Root}, NEW p \in Path,
           Compile(parent, p)
    PROVE  /\ cache' \in [Path -> Entries]
           /\ verified' \subseteq Path
           /\ quarantined' \subseteq Path
           /\ scanned' \in [Path -> Content \cup {None}]
           /\ signals' \in Trackers
           /\ stack' \in Seq(Frames)
           /\ admitted' \subseteq Path \X Content
           /\ reply' \in Replies
           /\ UNCHANGED <<disk, imports>>
<1> DEFINE Frame == [path |-> p, loader |-> "cjs"]
<1>1. /\ TrackerFor(parent) \in Trackers
      /\ Scan(p, TrackerFor(parent)).signals \in Trackers
  BY TrackerType, ScanType DEF LoaderTypeOK, Trackers
<1>2. Frame \in Frames
  BY DEF Frames
<1> USE DEF LoaderTypeOK, Outcomes
<1>3. ASSUME StartBody(parent, p)
      PROVE  /\ cache' \in [Path -> Entries]
             /\ verified' \subseteq Path
             /\ quarantined' \subseteq Path
             /\ stack' \in Seq(Frames)
             /\ admitted' \subseteq Path \X Content
             /\ reply' \in Replies
             /\ UNCHANGED <<disk, imports>>
  <2>1. stack' \in Seq(Frames)
    BY <1>2, <1>3 DEF StartBody
  <2>2. reply' \in Replies
    BY <1>3, ReplyType DEF StartBody
  <2>3. QED
    BY <1>3, <2>1, <2>2 DEF StartBody, Admits, Entries
<1>4. CASE CompileRefuses(parent, p) \/ CompileBlocks(parent, p)
  BY <1>1, <1>4, ReplyType DEF CompileRefuses, CompileBlocks, KeepsOut, nodeVars
<1>5. CASE CompileQuarantines(parent, p)
  BY <1>1, <1>5, ReplyType DEF CompileQuarantines, Entries
<1>6. CASE CompileObserves(parent, p)
  <2>1. /\ signals' \in Trackers
        /\ scanned' \in [Path -> Content \cup {None}]
    BY <1>1, <1>6 DEF CompileObserves, RecordHash
  <2>2. CASE StartBody(parent, p)
    BY <1>3, <2>1, <2>2
  <2>3. CASE KeepsOut /\ Replied("refused", parent, p)
    BY <2>1, <2>3, ReplyType DEF KeepsOut, nodeVars
  <2>4. QED
    BY <1>6, <2>2, <2>3 DEF CompileObserves
<1>7. CASE CompileUnrecognised(parent, p)
  BY <1>1, <1>3, <1>7 DEF CompileUnrecognised
<1>8. QED
  BY <1>4, <1>5, <1>6, <1>7 DEF Compile

(* Types are preserved by every step of the loader and of the watcher.        *)
LEMMA LoaderTypeStep == LoaderTypeOK /\ [LoaderNext]_vars => LoaderTypeOK'
<1> SUFFICES ASSUME LoaderTypeOK, [LoaderNext]_vars PROVE LoaderTypeOK'
  OBVIOUS
<1>1. TypeOK'
  BY LoaderStepsWatcher, TypeStep DEF LoaderTypeOK
<1>2. NoReply \in Replies
  BY DEF Replies
<1> USE DEF LoaderTypeOK
<1>3. ASSUME NEW parent \in Path \cup {Root}, NEW p \in Path, Require(parent, p)
      PROVE  LoaderTypeOK'
  <2>1. CASE LoadCached(parent, p)
    <3>1. reply' \in Replies
      BY <2>1, ReplyType DEF LoadCached, Outcomes
    <3>2. QED
      BY <1>1, <2>1, <3>1 DEF LoadCached, hookVars, nodeVars
  <2>2. CASE LoadFresh(parent, p)
    BY <1>1, <2>2, CompileType DEF LoadFresh, Trackers
  <2>3. QED
    BY <1>3, <2>1, <2>2 DEF Require
<1>4. ASSUME NEW p \in Path, ImportLoads(p) PROVE LoaderTypeOK'
  <2>1. /\ Scan(p, signals).signals \in Trackers
        /\ disk[p] \in Content
    BY ScanType DEF Trackers
  <2>2. CASE ImportRefused(p)
    BY <1>1, <1>2, <1>4, <2>2 DEF ImportLoads, ImportRefused, KeepsOut, nodeVars
  <2>3. CASE ImportScanned(p)
    <3>1. /\ signals' \in Trackers
          /\ scanned' \in [Path -> Content \cup {None}]
      BY <2>1, <2>3 DEF ImportScanned, RecordHash
    <3>2. CASE KeepsOut
      BY <1>1, <1>2, <1>4, <3>1, <3>2 DEF ImportLoads, KeepsOut, nodeVars, Trackers
    <3>3. CASE /\ Admits(p)
               /\ imports' = [imports EXCEPT ![p] = disk[p]]
               /\ UNCHANGED <<disk, cache, stack>>
      BY <1>1, <1>2, <1>4, <2>1, <3>1, <3>3 DEF ImportLoads, Admits, Trackers
    <3>4. QED
      BY <2>3, <3>2, <3>3 DEF ImportScanned
  <2>4. QED
    BY <1>4, <2>2, <2>3 DEF ImportLoads
<1>5. ASSUME NEW p \in Path, ImportEvaluates(p) PROVE LoaderTypeOK'
  <2>1. stack' \in Seq(Frames)
    <3> DEFINE Frame == [path |-> p, loader |-> "esm"]
    <3>1. Frame \in Frames
      BY DEF Frames
    <3>2. <<Frame>> \in Seq(Frames)
      BY <3>1
    <3>3. stack' = stack \/ stack' = <<Frame>>
      BY <1>5 DEF ImportEvaluates
    <3>4. QED
      BY <3>2, <3>3
  <2>2. /\ cache' \in [Path -> Entries]
        /\ imports' \in [Path -> Content \cup {None, Done}]
    BY <1>5 DEF ImportEvaluates, Entries
  <2>3. QED
    BY <1>1, <1>2, <1>5, <2>1, <2>2 DEF ImportEvaluates, hookVars
<1>6. CASE BodyReturns
  BY <1>1, <1>2, <1>6, PopType DEF BodyReturns, hookVars
<1>7. CASE BodyThrows
  <2>1. stack' \in Seq(Frames)
    BY <1>7, PopType DEF BodyThrows
  <2>2. cache' \in [Path -> Entries]
    BY <1>7 DEF BodyThrows, Entries
  <2>3. QED
    BY <1>1, <1>2, <1>7, <2>1, <2>2 DEF BodyThrows, hookVars
<1>8. ASSUME NEW p \in Path, EditCache(p) PROVE LoaderTypeOK'
  BY <1>1, <1>2, <1>8 DEF EditCache, hookVars, Entries
<1>9. ASSUME NEW p \in Path, DiskChanges(p) PROVE LoaderTypeOK'
  BY <1>1, <1>2, <1>9 DEF DiskChanges, hookVars
<1>10. CASE WatcherStep
  BY <1>1, <1>2, <1>10 DEF WatcherStep, hookVars, nodeVars
<1>11. CASE UNCHANGED vars
  BY <1>1, <1>11 DEF vars, loaderVars, hookVars, nodeVars
<1>12. QED
  BY <1>3, <1>4, <1>5, <1>6, <1>7, <1>8, <1>9, <1>10, <1>11
  DEF LoaderNext, LoaderStep

LEMMA LoaderInitType == LoaderInit => LoaderTypeOK
<1> SUFFICES ASSUME LoaderInit PROVE LoaderTypeOK
  OBVIOUS
<1>1. TypeOK
  BY InitType DEF LoaderInit
<1>2. NoReply \in Replies
  BY DEF Replies
<1>3. QED
  BY <1>1, <1>2, LoaderAssumption DEF LoaderInit, LoaderTypeOK, Entries

(* The loader's state always has the types its declarations give it.          *)
THEOREM LoaderTypeCorrect == LoaderSpec => []LoaderTypeOK
BY LoaderInitType, LoaderTypeStep, PTL DEF LoaderSpec

-----------------------------------------------------------------------------
(* The inductive invariant.  AdmittedVerified is what makes the others hold   *)
(* together: an import's evaluation puts an entry in the require() cache long *)
(* after its load hook ran, and only the admission of that source still       *)
(* witnesses that the path is verified.                                       *)
AdmittedVerified == \A m \in admitted : m[1] \in verified

LoaderInv ==
    /\ LoaderTypeOK
    /\ WatcherInv
    /\ AdmittedVerified
    /\ OwnEntriesVerified
    /\ VerifiedWasDecided
    /\ CachedScansPassed
    /\ LinkedSourceWasScanned
    /\ CacheGateExact

(* A scan that passes, from the cache or afresh, is of a clean version.       *)
LEMMA PassingScanIsClean ==
    ASSUME LoaderTypeOK, CachedScansPassed, NEW p \in Path, NEW sig,
           Scan(p, sig).passes
    PROVE  disk[p] \in Content \ Dirty
<1>1. disk[p] \in Content /\ disk[p] # None
  BY LoaderAssumption DEF LoaderTypeOK
<1>2. CASE scanned[p] = disk[p]
  BY <1>1, <1>2 DEF CachedScansPassed
<1>3. CASE scanned[p] # disk[p]
  BY <1>1, <1>3 DEF Scan
<1>4. QED
  BY <1>2, <1>3

(* The part of the invariant that speaks of verified, admitted, scanned and   *)
(* imports is kept by a step that lets p in...                                *)
HookInv ==
    /\ AdmittedVerified
    /\ VerifiedWasDecided
    /\ CachedScansPassed
    /\ LinkedSourceWasScanned

LEMMA AdmitKeepsHookInv ==
    ASSUME LoaderTypeOK, HookInv, NEW p \in Path, Admits(p),
           scanned' = scanned \/ (/\ scanned' = [scanned EXCEPT ![p] = disk[p]]
                                  /\ disk[p] \notin Dirty),
           imports' = imports \/ (/\ imports' = [imports EXCEPT ![p] = disk[p]]
                                  /\ disk[p] \notin Dirty)
    PROVE  HookInv'
<1>1. admitted' = admitted \cup {<<p, disk[p]>>} /\ p \in verified'
  BY DEF Admits
<1>2. AdmittedVerified'
  BY <1>1 DEF HookInv, AdmittedVerified, Admits
<1>3. VerifiedWasDecided'
  <2>1. Decided \subseteq Decided' /\ p \in Decided'
    <3>1. <<p, disk[p]>> \in admitted' /\ <<p, disk[p]>>[1] = p
      BY <1>1
    <3>2. QED
      BY <1>1, <3>1 DEF Decided, Admits
  <2>2. QED
    BY <2>1 DEF HookInv, VerifiedWasDecided, Admits
<1>4. CachedScansPassed'
  BY <1>1 DEF HookInv, CachedScansPassed, LoaderTypeOK
<1>5. LinkedSourceWasScanned'
  BY <1>1 DEF HookInv, LinkedSourceWasScanned, LoaderTypeOK
<1>6. QED
  BY <1>2, <1>3, <1>4, <1>5 DEF HookInv

(* ... and by one that changes none of the four, or only puts p aside.        *)
LEMMA RestKeepsHookInv ==
    ASSUME HookInv, UNCHANGED <<admitted, scanned>>,
           \A p \in Path : imports'[p] = imports[p] \/ imports'[p] \notin Content,
           \/ UNCHANGED <<verified, quarantined>>
           \/ \E p \in Path : /\ verified' = verified \cup {p}
                              /\ quarantined' = quarantined \cup {p}
    PROVE  HookInv'
<1>1. AdmittedVerified'
  BY DEF HookInv, AdmittedVerified
<1>2. VerifiedWasDecided'
  BY DEF HookInv, VerifiedWasDecided, Decided
<1>3. CachedScansPassed'
  BY DEF HookInv, CachedScansPassed
<1>4. LinkedSourceWasScanned'
  BY DEF HookInv, LinkedSourceWasScanned
<1>5. QED
  BY <1>1, <1>2, <1>3, <1>4 DEF HookInv

(* A compilation lets in only what passed its scan or has a rule the code     *)
(* does not know.                                                             *)
LEMMA CompileKeepsHookInv ==
    ASSUME LoaderTypeOK, HookInv, NEW parent \in Path \cup {Root},
           NEW p \in Path, Compile(parent, p)
    PROVE  HookInv'
<1> DEFINE Verdict == Scan(p, TrackerFor(parent))
<1>1. CASE CompileRefuses(parent, p) \/ CompileBlocks(parent, p)
  BY <1>1, RestKeepsHookInv DEF CompileRefuses, CompileBlocks, KeepsOut, nodeVars
<1>2. CASE CompileQuarantines(parent, p)
  BY <1>2, RestKeepsHookInv DEF CompileQuarantines
<1>3. CASE CompileObserves(parent, p)
  <2>1. CASE Verdict.passes /\ StartBody(parent, p)
    <3>1. disk[p] \notin Dirty
      BY <2>1, PassingScanIsClean DEF HookInv
    <3>2. scanned' = [scanned EXCEPT ![p] = disk[p]]
      BY <1>3, <2>1 DEF CompileObserves, RecordHash
    <3>3. QED
      BY <2>1, <3>1, <3>2, AdmitKeepsHookInv DEF StartBody
  <2>2. CASE ~Verdict.passes /\ KeepsOut
    <3>1. scanned' = scanned
      BY <1>3, <2>2 DEF CompileObserves, RecordHash
    <3>2. QED
      BY <2>2, <3>1, RestKeepsHookInv DEF KeepsOut, nodeVars
  <2>3. QED
    BY <1>3, <2>1, <2>2 DEF CompileObserves
<1>4. CASE CompileUnrecognised(parent, p)
  BY <1>4, AdmitKeepsHookInv DEF CompileUnrecognised, StartBody
<1>5. QED
  BY <1>1, <1>2, <1>3, <1>4 DEF Compile

(* The load hook of an import links only a source that passed.                *)
LEMMA ImportKeepsHookInv ==
    ASSUME LoaderTypeOK, HookInv, NEW p \in Path, ImportLoads(p)
    PROVE  HookInv'
<1>1. CASE ImportRefused(p)
  BY <1>1, RestKeepsHookInv DEF ImportRefused, KeepsOut, nodeVars
<1>2. CASE ImportScanned(p)
  <2>1. CASE Scan(p, signals).passes /\ Admits(p)
               /\ imports' = [imports EXCEPT ![p] = disk[p]]
    <3>1. disk[p] \notin Dirty
      BY <2>1, PassingScanIsClean DEF HookInv
    <3>2. scanned' = [scanned EXCEPT ![p] = disk[p]]
      BY <1>2, <2>1 DEF ImportScanned, RecordHash
    <3>3. QED
      BY <2>1, <3>1, <3>2, AdmitKeepsHookInv
  <2>2. CASE ~Scan(p, signals).passes /\ KeepsOut
    <3>1. scanned' = scanned
      BY <1>2, <2>2 DEF ImportScanned, RecordHash
    <3>2. QED
      BY <2>2, <3>1, RestKeepsHookInv DEF KeepsOut, nodeVars
  <2>3. QED
    BY <1>2, <2>1, <2>2 DEF ImportScanned
<1>3. QED
  BY <1>1, <1>2, ImportLoads(p) DEF ImportLoads

LEMMA HookInvStep == LoaderTypeOK /\ HookInv /\ [LoaderNext]_vars => HookInv'
<1> SUFFICES ASSUME LoaderTypeOK, HookInv, [LoaderNext]_vars PROVE HookInv'
  OBVIOUS
<1>1. ASSUME NEW parent \in Path \cup {Root}, NEW p \in Path, Require(parent, p)
      PROVE  HookInv'
  <2>1. CASE LoadCached(parent, p)
    BY <2>1, RestKeepsHookInv DEF LoadCached, hookVars, nodeVars
  <2>2. CASE LoadFresh(parent, p)
    BY <2>2, CompileKeepsHookInv DEF LoadFresh
  <2>3. QED
    BY <1>1, <2>1, <2>2 DEF Require
<1>2. ASSUME NEW p \in Path, ImportEvaluates(p) PROVE HookInv'
  <2>1. \A q \in Path : imports'[q] = imports[q] \/ imports'[q] \notin Content
    BY <1>2, LoaderAssumption DEF ImportEvaluates, LoaderTypeOK
  <2>2. QED
    BY <1>2, <2>1, RestKeepsHookInv DEF ImportEvaluates, hookVars
<1>3. ASSUME NEW p \in Path, EditCache(p) \/ DiskChanges(p) PROVE HookInv'
  BY <1>3, RestKeepsHookInv DEF EditCache, DiskChanges, hookVars
<1>4. CASE BodyReturns \/ BodyThrows
  BY <1>4, RestKeepsHookInv DEF BodyReturns, BodyThrows, hookVars
<1>5. CASE WatcherStep \/ UNCHANGED vars
  BY <1>5, RestKeepsHookInv
  DEF WatcherStep, vars, loaderVars, hookVars, nodeVars
<1>6. QED
  BY <1>1, <1>2, <1>3, <1>4, <1>5, ImportKeepsHookInv DEF LoaderNext, LoaderStep

-----------------------------------------------------------------------------
(* An entry of Node's own making appears only for a path that is verified by  *)
(* then, and verified paths stay verified.                                    *)
LEMMA OwnEntriesStep ==
    LoaderTypeOK /\ HookInv /\ OwnEntriesVerified /\ [LoaderNext]_vars
        => OwnEntriesVerified'
<1> SUFFICES ASSUME LoaderTypeOK, HookInv, OwnEntriesVerified, [LoaderNext]_vars
             PROVE  OwnEntriesVerified'
  OBVIOUS
<1> DEFINE Keeps == /\ verified \subseteq verified'
                    /\ \A q \in Path : \/ cache'[q] = cache[q]
                                       \/ cache'[q] \in {"none", "foreign"}
                                       \/ q \in verified'
<1>1. SUFFICES Keeps
  BY DEF OwnEntriesVerified
<1> USE DEF LoaderTypeOK
<1>2. ASSUME NEW parent \in Path \cup {Root}, NEW p \in Path, Require(parent, p)
      PROVE  Keeps
  <2>1. CASE LoadCached(parent, p)
    BY <2>1 DEF LoadCached, hookVars, nodeVars
  <2>2. CASE CompileRefuses(parent, p) \/ CompileBlocks(parent, p)
    BY <2>2 DEF CompileRefuses, CompileBlocks, KeepsOut, nodeVars
  <2>3. CASE CompileQuarantines(parent, p)
    BY <2>3 DEF CompileQuarantines
  <2>4. ASSUME StartBody(parent, p) PROVE Keeps
    BY <2>4 DEF StartBody, Admits
  <2>5. CASE CompileObserves(parent, p)
    BY <2>4, <2>5 DEF CompileObserves, KeepsOut, nodeVars
  <2>6. CASE CompileUnrecognised(parent, p)
    BY <2>4, <2>6 DEF CompileUnrecognised
  <2>7. QED
    BY <1>2, <2>1, <2>2, <2>3, <2>5, <2>6 DEF Require, LoadFresh, Compile
<1>3. ASSUME NEW p \in Path, ImportLoads(p) PROVE Keeps
  BY <1>3 DEF ImportLoads, ImportRefused, ImportScanned, KeepsOut, nodeVars, Admits
<1>4. ASSUME NEW p \in Path, ImportEvaluates(p) PROVE Keeps
  <2>1. p \in verified
    <3>1. <<p, imports[p]>> \in admitted /\ <<p, imports[p]>>[1] = p
      BY <1>4 DEF ImportEvaluates, HookInv, LinkedSourceWasScanned
    <3>2. QED
      BY <3>1 DEF HookInv, AdmittedVerified
  <2>2. QED
    BY <1>4, <2>1 DEF ImportEvaluates, hookVars
<1>5. ASSUME NEW p \in Path, EditCache(p) \/ DiskChanges(p) PROVE Keeps
  BY <1>5 DEF EditCache, DiskChanges, hookVars
<1>6. CASE BodyReturns \/ BodyThrows
  BY <1>6 DEF BodyReturns, BodyThrows, hookVars
<1>7. CASE WatcherStep \/ UNCHANGED vars
  BY <1>7 DEF WatcherStep, vars, loaderVars, hookVars, nodeVars
<1>8. QED
  BY <1>2, <1>3, <1>4, <1>5, <1>6, <1>7 DEF LoaderNext, LoaderStep

(* Only LoadCached replies that it served or substituted an entry.            *)
LEMMA CacheGateStep ==
    LoaderTypeOK /\ OwnEntriesVerified /\ VerifiedWasDecided /\ CacheGateExact
      /\ [LoaderNext]_vars => CacheGateExact'
<1> SUFFICES ASSUME LoaderTypeOK, OwnEntriesVerified, VerifiedWasDecided,
                    CacheGateExact, [LoaderNext]_vars, CachePolicy = "block"
             PROVE  /\ reply'.got = "served" => reply'.path \in Decided'
                    /\ reply'.got = "substituted" => cache'[reply'.path] = "foreign"
  BY DEF CacheGateExact
<1>1. ASSUME NEW parent \in Path \cup {Root}, NEW p \in Path, LoadCached(parent, p)
      PROVE  /\ reply'.got = "served" => reply'.path \in Decided'
             /\ reply'.got = "substituted" => cache'[reply'.path] = "foreign"
  <2>1. UNCHANGED <<Decided, cache>> /\ reply'.path = p
    BY <1>1 DEF LoadCached, hookVars, nodeVars, Decided, Replied
  <2>2. reply'.got = "served" => p \in Decided
    BY <1>1 DEF LoadCached, Replied, VerifiedWasDecided
  <2>3. reply'.got = "substituted" => cache[p] = "foreign"
    <3>1. reply'.got = "substituted" => p \notin verified
      BY <1>1 DEF LoadCached, Replied
    <3>2. cache[p] \in Entries \ {"none"}
      BY <1>1 DEF LoadCached, LoaderTypeOK
    <3>3. QED
      BY <3>1, <3>2 DEF OwnEntriesVerified, Entries
  <2>4. QED
    BY <2>1, <2>2, <2>3
<1>2. ASSUME NEW parent \in Path \cup {Root}, NEW p \in Path, LoadFresh(parent, p)
      PROVE  reply'.got \in {"refused", "stubbed", "running"}
  BY <1>2 DEF LoadFresh, Compile, CompileRefuses, CompileBlocks,
              CompileQuarantines, CompileObserves, CompileUnrecognised,
              StartBody, Replied
<1>3. CASE UNCHANGED vars
  BY <1>3 DEF vars, loaderVars, hookVars, nodeVars, Decided, CacheGateExact
<1>4. CASE reply' = NoReply
  BY <1>4 DEF NoReply
<1>5. QED
  BY <1>1, <1>2, <1>3, <1>4
  DEF LoaderNext, LoaderStep, WatcherStep, Require, ImportLoads,
      ImportEvaluates, EditCache, DiskChanges, BodyReturns, BodyThrows

-----------------------------------------------------------------------------
LEMMA LoaderInvInit == LoaderInit => LoaderInv
<1> SUFFICES ASSUME LoaderInit PROVE LoaderInv
  OBVIOUS
<1>1. LoaderTypeOK
  BY LoaderInitType
<1>2. WatcherInv
  BY WatcherInvInit DEF LoaderInit
<1>3. /\ verified = Seeded /\ quarantined = {} /\ admitted = {}
      /\ \A p \in Path : /\ scanned[p] = None
                         /\ imports[p] = None
                         /\ cache[p] = IF p \in Seeded THEN "boot" ELSE "none"
      /\ reply.got = "none"
  BY DEF LoaderInit, NoReply
<1>4. QED
  BY <1>1, <1>2, <1>3, LoaderAssumption
  DEF LoaderInv, AdmittedVerified, OwnEntriesVerified, VerifiedWasDecided,
      Decided, CachedScansPassed, LinkedSourceWasScanned, CacheGateExact

LEMMA LoaderInvStep == LoaderInv /\ [LoaderNext]_vars => LoaderInv'
BY LoaderTypeStep, LoaderStepsWatcher, WatcherInvStep, HookInvStep,
   OwnEntriesStep, CacheGateStep
DEF LoaderInv, HookInv

LEMMA LoaderInvHolds == LoaderSpec => []LoaderInv
BY LoaderInvInit, LoaderInvStep, PTL DEF LoaderSpec

(* Every entry Node itself put in the require() cache belongs to a path that  *)
(* the firewall has marked verified.                                          *)
THEOREM OwnEntriesVerifiedHolds == LoaderSpec => []OwnEntriesVerified
<1>1. LoaderInv => OwnEntriesVerified
  BY DEF LoaderInv
<1>2. QED
  BY <1>1, LoaderInvHolds, PTL

(* A path is marked verified only by a hook that decided on it.               *)
THEOREM VerifiedWasDecidedHolds == LoaderSpec => []VerifiedWasDecided
<1>1. LoaderInv => VerifiedWasDecided
  BY DEF LoaderInv
<1>2. QED
  BY <1>1, LoaderInvHolds, PTL

(* The compilation cache remembers only versions that passed their scan and   *)
(* were let in.                                                               *)
THEOREM CachedScansPassedHolds == LoaderSpec => []CachedScansPassed
<1>1. LoaderInv => CachedScansPassed
  BY DEF LoaderInv
<1>2. QED
  BY <1>1, LoaderInvHolds, PTL

(* An import evaluates the source its load hook scanned.                      *)
THEOREM LinkedSourceWasScannedHolds == LoaderSpec => []LinkedSourceWasScanned
<1>1. LoaderInv => LinkedSourceWasScanned
  BY DEF LoaderInv
<1>2. QED
  BY <1>1, LoaderInvHolds, PTL

(* Under the block policy the cache gate serves only paths the firewall       *)
(* decided on, and turns away none of Node's own entries.                     *)
THEOREM CacheGateExactHolds == LoaderSpec => []CacheGateExact
<1>1. LoaderInv => CacheGateExact
  BY DEF LoaderInv
<1>2. QED
  BY <1>1, LoaderInvHolds, PTL

-----------------------------------------------------------------------------
(* Whatever the rule set says of a package's installed name and of the name   *)
(* in its manifest, the stricter of the two is enforced.                      *)
THEOREM ManifestOnlyEscalatesHolds == LoaderSpec => []ManifestOnlyEscalates
<1>1. LoaderTypeOK => ManifestOnlyEscalates
  <2> SUFFICES ASSUME LoaderTypeOK, NEW p \in Path
               PROVE  LET id  == Identity[p]
                          sev == RuleSeverity[ConfiguredRule(p)]
                      IN  /\ sev >= RuleSeverity[InstalledRule(policyMap, id)]
                          /\ id.manifest \in DOMAIN policyMap
                               /\ id.manifest # id.canonical =>
                               sev >= RuleSeverity[policyMap[id.manifest]]
    BY DEF ManifestOnlyEscalates
  <2> DEFINE id == Identity[p]
             installed == InstalledRule(policyMap, id)
  <2>1. policyMap \in Rulesets \cup {EmptyRules}
    BY DEF LoaderTypeOK, TypeOK
  <2>2. PICK K \in SUBSET Keys : policyMap \in [K -> Verdicts]
    BY <2>1, LoaderAssumption
  <2>3. installed \in Verdicts
    BY <2>1, VerdictType
  <2>4. \A v \in Verdicts : RuleSeverity[v] \in Nat
    BY DEF RuleSeverity, Verdicts
  <2>5. CASE id.manifest # id.canonical /\ id.manifest \in DOMAIN policyMap
    <3> DEFINE declared == policyMap[id.manifest]
    <3>1. declared \in Verdicts
      BY <2>2, <2>5
    <3>2. ConfiguredRule(p) = MoreRestrictiveRule(installed, declared)
      BY <2>5 DEF ConfiguredRule, ResolveModulePolicy
    <3>3. QED
      BY <2>3, <2>4, <2>5, <3>1, <3>2 DEF MoreRestrictiveRule
  <2>6. CASE ~(id.manifest # id.canonical /\ id.manifest \in DOMAIN policyMap)
    <3>1. ConfiguredRule(p) = installed
      BY <2>6 DEF ConfiguredRule, ResolveModulePolicy
    <3>2. QED
      BY <2>3, <2>4, <2>6, <3>1
  <2>7. QED
    BY <2>5, <2>6
<1>2. QED
  BY <1>1, LoaderTypeCorrect, PTL

-----------------------------------------------------------------------------
(* Scanning p moves the tracker and the scan cache together, or only clears   *)
(* the tracker, so that a pair can only form when its second half passes; but *)
(* that scan correlates the package with the second half recorded.            *)
LEMMA ScanKeepsPairsApart ==
    ASSUME LoaderTypeOK, AnalysedPairNeverPasses, NEW p \in Path,
           NEW sig \in Trackers,
           \A q \in Path : sig[q] = signals[q] \/ sig[q] = None,
           signals' = Scan(p, sig).signals,
           RecordHash(p, Scan(p, sig))
    PROVE  AnalysedPairNeverPasses'
<1> DEFINE Both(x, y) == scanned'[x] = signals'[x] /\ scanned'[y] = signals'[y]
<1> SUFFICES ASSUME CrossFile, NEW x \in Path, NEW y \in Path, x # y,
                    SamePackage(x, y), <<signals'[x], signals'[y]>> \in Split
             PROVE  ~Both(x, y)
  BY DEF AnalysedPairNeverPasses, SamePackage
<1>1. signals'[x] # None /\ signals'[y] # None
  BY LoaderAssumption
<1>2. CASE scanned[p] = disk[p]
  <2>1. signals' = sig /\ scanned' = scanned
    BY <1>2 DEF Scan, RecordHash, LoaderTypeOK
  <2>2. signals[x] = sig[x] /\ signals[y] = sig[y]
    BY <1>1, <2>1
  <2>3. QED
    BY <2>1, <2>2 DEF AnalysedPairNeverPasses
<1>3. CASE scanned[p] # disk[p]
  <2>1. signals' = [sig EXCEPT ![p] = disk[p]]
    BY <1>3 DEF Scan
  <2>2. CASE Scan(p, sig).passes
    <3>1. ~CrossFileHit(signals', p)
      BY <1>3, <2>1, <2>2 DEF Scan
    <3>2. CASE x = p \/ y = p
      <4>1. SamePackage(p, x) /\ SamePackage(p, y)
        BY <3>2 DEF SamePackage
      <4>2. QED
        BY <1>1, <3>1, <4>1 DEF CrossFileHit
    <3>3. CASE x # p /\ y # p
      <4>1. /\ signals'[x] = signals[x] /\ signals'[y] = signals[y]
            /\ scanned'[x] = scanned[x] /\ scanned'[y] = scanned[y]
        BY <1>1, <2>1, <3>3 DEF RecordHash, LoaderTypeOK, Trackers
      <4>2. QED
        BY <4>1 DEF AnalysedPairNeverPasses
    <3>4. QED
      BY <3>2, <3>3
  <2>3. CASE ~Scan(p, sig).passes
    <3>1. scanned' = scanned
      BY <2>3 DEF RecordHash
    <3>2. CASE x = p \/ y = p
      BY <1>3, <2>1, <3>1, <3>2 DEF Trackers
    <3>3. CASE x # p /\ y # p
      <4>1. signals'[x] = signals[x] /\ signals'[y] = signals[y]
        BY <1>1, <2>1, <3>3 DEF Trackers
      <4>2. QED
        BY <3>1, <4>1 DEF AnalysedPairNeverPasses
    <3>4. QED
      BY <3>2, <3>3
  <2>4. QED
    BY <2>2, <2>3
<1>4. QED
  BY <1>2, <1>3

LEMMA ClearingKeepsPairsApart ==
    ASSUME AnalysedPairNeverPasses, UNCHANGED scanned,
           \A q \in Path : signals'[q] = signals[q] \/ signals'[q] = None
    PROVE  AnalysedPairNeverPasses'
<1> SUFFICES ASSUME CrossFile, NEW x \in Path, NEW y \in Path, x # y,
                    SamePackage(x, y), <<signals'[x], signals'[y]>> \in Split
             PROVE  ~(scanned'[x] = signals'[x] /\ scanned'[y] = signals'[y])
  BY DEF AnalysedPairNeverPasses, SamePackage
<1>1. signals'[x] = signals[x] /\ signals'[y] = signals[y]
  BY LoaderAssumption
<1>2. QED
  BY <1>1 DEF AnalysedPairNeverPasses

LEMMA SplitPairStep ==
    LoaderTypeOK /\ AnalysedPairNeverPasses /\ [LoaderNext]_vars
        => AnalysedPairNeverPasses'
<1> SUFFICES ASSUME LoaderTypeOK, AnalysedPairNeverPasses, [LoaderNext]_vars
             PROVE  AnalysedPairNeverPasses'
  OBVIOUS
<1> DEFINE Clears(tracker) ==
             \A q \in Path : tracker[q] = signals[q] \/ tracker[q] = None
<1>1. ASSUME NEW parent \in Path \cup {Root}
      PROVE  Clears(TrackerFor(parent)) /\ TrackerFor(parent) \in Trackers
  BY TrackerType DEF TrackerFor, LoaderTypeOK, Trackers
<1>2. ASSUME NEW parent \in Path \cup {Root}, NEW p \in Path, Require(parent, p)
      PROVE  AnalysedPairNeverPasses'
  <2>1. CASE LoadCached(parent, p)
    BY <2>1, ClearingKeepsPairsApart DEF LoadCached, hookVars
  <2>2. CASE \/ CompileRefuses(parent, p) \/ CompileBlocks(parent, p)
             \/ CompileQuarantines(parent, p) \/ CompileUnrecognised(parent, p)
    <3>1. signals' = TrackerFor(parent) /\ UNCHANGED scanned
      BY <2>2 DEF CompileRefuses, CompileBlocks, CompileQuarantines,
                  CompileUnrecognised
    <3>2. QED
      BY <1>1, <3>1, ClearingKeepsPairsApart
  <2>3. CASE CompileObserves(parent, p)
    BY <1>1, <2>3, ScanKeepsPairsApart DEF CompileObserves
  <2>4. QED
    BY <1>2, <2>1, <2>2, <2>3 DEF Require, LoadFresh, Compile
<1>3. ASSUME NEW p \in Path, ImportLoads(p) PROVE AnalysedPairNeverPasses'
  <2>1. CASE ImportRefused(p)
    BY <2>1, ClearingKeepsPairsApart DEF ImportRefused
  <2>2. CASE ImportScanned(p)
    BY <2>2, ScanKeepsPairsApart DEF ImportScanned, LoaderTypeOK, Trackers
  <2>3. QED
    BY <1>3, <2>1, <2>2 DEF ImportLoads
<1>4. CASE UNCHANGED <<signals, scanned>>
  BY <1>4, ClearingKeepsPairsApart
<1>5. QED
  BY <1>2, <1>3, <1>4
  DEF LoaderNext, LoaderStep, WatcherStep, ImportEvaluates, EditCache,
      DiskChanges, BodyReturns, BodyThrows, vars, loaderVars, hookVars

(* With cross-file correlation, two files of a package that were both analysed*)
(* since the tracker was last cleared, and whose signals combine, have not    *)
(* both passed; of a file that the scan cache lets pass it says nothing.      *)
THEOREM AnalysedPairNeverPassesHolds == LoaderSpec => []AnalysedPairNeverPasses
<1>1. LoaderInit => AnalysedPairNeverPasses
  BY LoaderAssumption DEF LoaderInit, AnalysedPairNeverPasses
<1>2. QED
  BY <1>1, LoaderTypeCorrect, SplitPairStep, PTL DEF LoaderSpec

-----------------------------------------------------------------------------
(* The loader implements the gate: a step of the watcher closes the gate,     *)
(* reloads the rules or leaves it alone...                                    *)
LEMMA WatcherStepRefines ==
    WatcherInv /\ [Next]_watcherVars
        => \/ UNCHANGED <<lockdown, policyMap>>
           \/ ~lockdown /\ policyMap' \in Rulesets /\ UNCHANGED lockdown
           \/ lockdown' = TRUE /\ UNCHANGED policyMap
<1> SUFFICES ASSUME WatcherInv, [Next]_watcherVars
             PROVE  \/ UNCHANGED <<lockdown, policyMap>>
                    \/ ~lockdown /\ policyMap' \in Rulesets /\ UNCHANGED lockdown
                    \/ lockdown' = TRUE /\ UNCHANGED policyMap
  OBVIOUS
<1>1. CASE StartVerifies
  BY <1>1 DEF StartVerifies, ApplyRules, EnterLockdown, Exit, Verifies,
              WatcherInv, LockReachesAgent
<1>2. CASE Tick
  BY <1>2 DEF Tick, TickDue, ApplyRules, EnterLockdown, Exit, Verifies,
              WatcherInv, LockReachesAgent
<1>3. CASE \/ KeyGuard \/ StartLooks \/ Stop \/ ProcessEnds \/ FileChanges
           \/ UNCHANGED watcherVars
  BY <1>3 DEF KeyGuard, StartLooks, Stop, ProcessEnds, FileChanges, Exit,
              watcherVars
<1>4. QED
  BY <1>1, <1>2, <1>3 DEF Next, Watch

(* ... and a step of the loader admits one allowed version or none.           *)
LEMMA LoaderStepRefines ==
    ASSUME LoaderInv, LoaderStep
    PROVE  \/ admitted' = admitted
           \/ \E p \in Path, c \in Content :
                /\ ~lockdown
                /\ <<policyMap, p, c>> \in Allowed
                /\ admitted' = admitted \cup {<<p, c>>}
<1> DEFINE Admission(p) == /\ ~lockdown
                           /\ <<policyMap, p, disk[p]>> \in Allowed
                           /\ admitted' = admitted \cup {<<p, disk[p]>>}
<1>1. ASSUME NEW p \in Path
      PROVE  disk[p] \in Content /\ ConfiguredRule(p) \in Verdicts
    BY VerdictType DEF ConfiguredRule, LoaderInv, LoaderTypeOK, TypeOK
<1>2. ASSUME NEW p \in Path, Admits(p), ~lockdown,
             \/ ConfiguredRule(p) = "UNRECOGNISED"
             \/ ConfiguredRule(p) = "OBSERVE" /\ disk[p] \notin Dirty
      PROVE  Admission(p)
  <2>1. <<policyMap, p, disk[p]>>
          \in (Rulesets \cup {EmptyRules}) \X Path \X Content
    BY <1>1 DEF LoaderInv, LoaderTypeOK, TypeOK
  <2>2. QED
    BY <1>2, <2>1 DEF Allowed, Admits, ConfiguredRule
<1>3. ASSUME NEW parent \in Path \cup {Root}, NEW p \in Path, Require(parent, p)
      PROVE  admitted' = admitted \/ Admission(p)
  <2>1. CASE LoadCached(parent, p)
    BY <2>1 DEF LoadCached, hookVars
  <2>2. CASE CompileRefuses(parent, p)
    BY <2>2 DEF CompileRefuses, KeepsOut
  <2>3. CASE ~RefusesCaller(parent) /\ CompileObserves(parent, p)
    <3>1. CASE Scan(p, TrackerFor(parent)).passes /\ Admits(p)
      BY <1>2, <2>3, <3>1, PassingScanIsClean
      DEF CompileObserves, RefusesCaller, LoaderInv
    <3>2. QED
      BY <2>3, <3>1 DEF CompileObserves, StartBody, KeepsOut
  <2>4. CASE ~RefusesCaller(parent) /\ CompileUnrecognised(parent, p)
    BY <1>2, <2>4 DEF CompileUnrecognised, StartBody, RefusesCaller
  <2>5. CASE CompileBlocks(parent, p) \/ CompileQuarantines(parent, p)
    BY <2>5 DEF CompileBlocks, CompileQuarantines, KeepsOut
  <2>6. QED
    BY <1>3, <2>1, <2>2, <2>3, <2>4, <2>5 DEF Require, LoadFresh, Compile
<1>4. ASSUME NEW p \in Path, ImportLoads(p)
      PROVE  admitted' = admitted \/ Admission(p)
  <2>1. CASE ImportRefused(p)
    BY <2>1 DEF ImportRefused, KeepsOut
  <2>2. CASE ImportScanned(p) /\ Scan(p, signals).passes /\ Admits(p)
    <3>1. ConfiguredRule(p) \in {"OBSERVE", "UNRECOGNISED"}
      BY <1>1, <2>2 DEF ImportScanned, Verdicts
    <3>2. QED
      BY <1>2, <2>2, <3>1, PassingScanIsClean DEF ImportScanned, LoaderInv
  <2>3. QED
    BY <1>4, <2>1, <2>2 DEF ImportLoads, ImportScanned, KeepsOut
<1>5. ASSUME NEW p \in Path, ImportEvaluates(p) \/ EditCache(p) \/ DiskChanges(p)
      PROVE  admitted' = admitted
  BY <1>5 DEF ImportEvaluates, EditCache, DiskChanges, hookVars
<1>6. CASE BodyReturns \/ BodyThrows
  BY <1>6 DEF BodyReturns, BodyThrows, hookVars
<1>7. QED
  BY <1>1, <1>3, <1>4, <1>5, <1>6 DEF LoaderStep

LEMMA StepRefinesGate ==
    LoaderInv /\ [LoaderNext]_vars => [Gate!Next]_(Gate!gateVars)
<1> SUFFICES ASSUME LoaderInv, [LoaderNext]_vars
             PROVE  Gate!Next \/ UNCHANGED Gate!gateVars
  OBVIOUS
<1> USE DEF Gate!gateVars
<1>1. CASE LoaderStep
  <2>1. UNCHANGED <<lockdown, policyMap>>
    BY <1>1 DEF LoaderStep, watcherVars
  <2>2. CASE admitted' = admitted
    BY <2>1, <2>2
  <2>3. ASSUME NEW p \in Path, NEW c \in Content, ~lockdown,
               <<policyMap, p, c>> \in Allowed,
               admitted' = admitted \cup {<<p, c>>}
        PROVE  Gate!Admit(p, c)
    BY <2>1, <2>3 DEF Gate!Admit
  <2>4. QED
    BY <1>1, <2>2, <2>3, LoaderStepRefines DEF Gate!Next
<1>2. CASE WatcherStep
  <2>1. admitted' = admitted
    BY <1>2 DEF WatcherStep, hookVars
  <2>2. CASE UNCHANGED <<lockdown, policyMap>>
    BY <2>1, <2>2
  <2>3. CASE ~lockdown /\ policyMap' \in Rulesets /\ UNCHANGED lockdown
    <3>1. Gate!Reload(policyMap')
      BY <2>1, <2>3 DEF Gate!Reload
    <3>2. QED
      BY <2>3, <3>1 DEF Gate!Next
  <2>4. CASE lockdown' = TRUE /\ UNCHANGED policyMap
    <3>1. Gate!Close
      BY <2>1, <2>4 DEF Gate!Close
    <3>2. QED
      BY <3>1 DEF Gate!Next
  <2>5. QED
    BY <2>2, <2>3, <2>4, WatcherStepRefines, LoaderStepsWatcher DEF LoaderInv
<1>3. CASE UNCHANGED vars
  BY <1>3 DEF vars, loaderVars, hookVars, watcherVars
<1>4. QED
  BY <1>1, <1>2, <1>3 DEF LoaderNext

(* Nothing is admitted in lockdown, against the rules in force or with a      *)
(* detection, and nothing reopens the gate.                                   *)
THEOREM LoaderImplementsGate == LoaderSpec => ImplementsGate
<1>1. LoaderInit => Gate!Init
  BY DEF LoaderInit, Init, Gate!Init
<1>2. QED
  BY <1>1, StepRefinesGate, LoaderInvHolds, PTL
  DEF LoaderSpec, ImplementsGate, Gate!Spec

-----------------------------------------------------------------------------
(* The stub that a refused module exports. *)

(* What the traps may answer that JavaScript refuses, and when: a deletion  *)
(* pretended after preventExtensions, and an inert answer for a property    *)
(* that a consumer pinned as an accessor without functions, or under a name *)
(* that get always hides.                                                   *)
LawfulBut ==
    /\ outcome.trap \notin {"get", "set", "deleteProperty"} => outcome.lawful
    /\ outcome.trap = "deleteProperty" /\ ~outcome.lawful => ~extensible
    /\ outcome.trap \in {"get", "set"} /\ ~outcome.lawful =>
         \E p \in DOMAIN target :
            Pinned(p) /\ (p \in Hidden \/ Says(target[p], "functions", FALSE))

StubInv == DOMAIN target \subseteq Key /\ LawfulBut

LEMMA StubStarts == QuarantineInit => StubInv
BY DEF QuarantineInit, QuarantinedModule, StubInv, LawfulBut, Key

\* What a definition asks of configurable, it gets.
LEMMA DefinedSays ==
    ASSUME NEW p, NEW d, Says(d, "configurable", FALSE)
    PROVE  ~Defined(p, d).configurable
BY DEF Says, Defined

\* A step that answers with an outcome of its own, by another trap than get,
\* set and deleteProperty.
LEMMA LawfulAnswer ==
    ASSUME NEW trap, NEW lawful, trap \notin {"get", "set", "deleteProperty"}, lawful,
           outcome' = [trap |-> trap, lawful |-> lawful], (DOMAIN target \subseteq Key)'
    PROVE  StubInv'
BY DEF StubInv, LawfulBut

LEMMA DefinitionLawful ==
    ASSUME NEW p \in Key, NEW d, StubInv, DefineProperty(p, d)
    PROVE  StubInv'
<1>1. PICK ok \in BOOLEAN :
         /\ IF Pinned(p) \/ Says(d, "configurable", FALSE) \/ ~extensible
              THEN Forwards(p, d, ok)
              ELSE ok = TRUE /\ UNCHANGED target
         /\ Answers("defineProperty", LawfulDefine(p, d, ok))
         /\ UNCHANGED extensible
  BY DEF DefineProperty
<1>2. /\ DOMAIN target \subseteq Key
      /\ outcome' = [trap |-> "defineProperty", lawful |-> LawfulDefine(p, d, ok)]
  BY <1>1 DEF StubInv, Answers
<1>3. CASE UNCHANGED target
  <2>1. LawfulDefine(p, d, ok)
    <3>1. CASE Forwards(p, d, ok)
      <4>1. ok = Accepts(p, d)
        BY <3>1 DEF Forwards
      <4>2. ok => p \in DOMAIN target' /\ target'[p] = Defined(p, d)
        BY <3>1 DEF Forwards
      <4> QED BY <4>1, <4>2, DefinedSays DEF LawfulDefine
    <3>2. CASE ~Pinned(p) /\ ~Says(d, "configurable", FALSE) /\ extensible /\ UNCHANGED target
      BY <3>2 DEF LawfulDefine, Accepts
    <3> QED BY <1>1, <3>1, <3>2
  <2>2. (DOMAIN target \subseteq Key)'
    BY <1>2, <1>3
  <2> QED BY <1>2, <2>1, <2>2, LawfulAnswer
<1>4. CASE Forwards(p, d, ok) /\ ok
  <2>1. p \in DOMAIN target' /\ target'[p] = Defined(p, d) /\ DOMAIN target' \subseteq Key
    BY <1>2, <1>4 DEF Forwards
  <2>2. Accepts(p, d)
    BY <1>4 DEF Forwards
  <2>3. LawfulDefine(p, d, ok)
    BY <2>1, <2>2, DefinedSays DEF LawfulDefine
  <2>4. (DOMAIN target \subseteq Key)'
    BY <2>1
  <2> QED BY <1>2, <2>3, <2>4, LawfulAnswer
<1> QED BY <1>1, <1>3, <1>4 DEF Forwards

LEMMA StubSteps == StubInv /\ [QuarantineNext]_quarantineVars => StubInv'
<1> SUFFICES ASSUME StubInv, [QuarantineNext]_quarantineVars PROVE StubInv'
  OBVIOUS
<1>0. DOMAIN target \subseteq Key
  BY DEF StubInv
<1>1. CASE Construct
  BY <1>0, <1>1 DEF Construct, Answers, QuarantinedModule, StubInv, LawfulBut, Key
<1>2. CASE Call
  BY <1>0, <1>2 DEF Call, Answers, StubInv, LawfulBut
<1>3. CASE OwnKeys
  <2> DEFINE keys == {p \in Key : IsRealOwnKey(p)}
  <2>1. LawfulKeys(keys)
    BY <1>0 DEF LawfulKeys, IsRealOwnKey, Pinned, Owns
  <2> QED BY <1>0, <1>3, <2>1 DEF OwnKeys, Answers, StubInv, LawfulBut
<1>4. CASE PreventExtensions
  BY <1>0, <1>4 DEF PreventExtensions, StubInv, LawfulBut
<1>5. CASE MillisecondPasses
  BY <1>5 DEF MillisecondPasses, StubInv, LawfulBut, Pinned, Owns, Says
<1>6. ASSUME NEW p \in Key, Get(p) PROVE StubInv'
  <2> DEFINE v == IF p \in Hidden THEN "undefined"
                  ELSE IF Pinned(p) /\ ReadOnly(p) THEN target[p].value ELSE "stub"
  <2>1. /\ outcome' = [trap |-> "get", lawful |-> LawfulGet(p, v)]
        /\ target' = target
    BY <1>6 DEF Get, Answers
  <2>2. ~LawfulGet(p, v) => p \in DOMAIN target /\ Pinned(p)
                            /\ (p \in Hidden \/ Says(target[p], "functions", FALSE))
    BY DEF LawfulGet, Pinned, Owns
  <2> QED BY <1>0, <2>1, <2>2 DEF StubInv, LawfulBut, Pinned, Owns, Says
<1>7. ASSUME NEW p \in Key, Has(p) PROVE StubInv'
  BY <1>0, <1>7 DEF Has, Answers, IsRealOwnKey, MayHide, Pinned, StubInv, LawfulBut
<1>8. ASSUME NEW p \in Key, DeleteProperty(p) PROVE StubInv'
  BY <1>0, <1>8 DEF DeleteProperty, Answers, MayHide, StubInv, LawfulBut
<1>9. ASSUME NEW p \in Key, GetOwnPropertyDescriptor(p) PROVE StubInv'
  BY <1>0, <1>9
     DEF GetOwnPropertyDescriptor, Answers, IsRealOwnKey, MayHide, Pinned, StubInv, LawfulBut
<1>10. ASSUME NEW p \in Key, NEW v, Set(p, v) PROVE StubInv'
  <2> DEFINE ok == ~(Pinned(p) /\ ReadOnly(p))
  <2>1. outcome' = [trap |-> "set", lawful |-> LawfulSet(p, v, ok)] /\ target' = target
    BY <1>10 DEF Set, Answers
  <2>2. ~LawfulSet(p, v, ok) => p \in DOMAIN target /\ Pinned(p)
                                /\ Says(target[p], "functions", FALSE)
    BY DEF LawfulSet, Pinned, Owns
  <2> QED BY <1>0, <2>1, <2>2 DEF StubInv, LawfulBut, Pinned, Owns, Says
<1>11. CASE UNCHANGED quarantineVars
  BY <1>11 DEF quarantineVars, StubInv, LawfulBut, Pinned, Owns, Says
<1> QED BY <1>1, <1>2, <1>3, <1>4, <1>5, <1>6, <1>7, <1>8, <1>9, <1>10, <1>11, DefinitionLawful
        DEF QuarantineNext

(* Whatever a consumer does with the stub of a quarantined module, a trap of *)
(* createProxy (quarantine.js:106-222) answers what JavaScript refuses in    *)
(* the cases of LawfulBut only.                                              *)
THEOREM LawfulButHolds == QuarantineSpec => []LawfulBut
<1>1. StubInv => LawfulBut
  BY DEF StubInv
<1> QED BY <1>1, StubStarts, StubSteps, PTL DEF QuarantineSpec

(* Until it is made non-extensible, the traps that report keys and shapes   *)
(* answer what JavaScript accepts, however a consumer defines its keys.     *)
THEOREM LawfulUntilSealed == QuarantineSpec => [](extensible => ShapeTrapsAreLawful)
<1>1. LawfulBut => (extensible => ShapeTrapsAreLawful)
  BY DEF LawfulBut, ShapeTrapsAreLawful
<1> QED BY <1>1, LawfulButHolds, PTL
=============================================================================
