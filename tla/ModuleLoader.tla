---------------------------- MODULE ModuleLoader ----------------------------
(***************************************************************************)
(* The module interception core of the agent (packages/fw-agent/index.js): *)
(* the wrapped Module._load and Module.prototype._compile, the ESM load    *)
(* hook, the policy lookup and the scan they share, together with the      *)
(* PolicyWatcher that changes the rules and the lockdown under them.       *)
(*                                                                         *)
(* JavaScript is single threaded: a require() and everything its hook does *)
(* is one step, a module body that requires others is a frame on `stack',  *)
(* and the watcher's timer runs only between bodies.  An import is two     *)
(* steps, its load hook and its evaluation, and timers run between them.   *)
(* Other processes change the module files at any time.                    *)
(***************************************************************************)
EXTENDS PolicyWatcher, Sequences

CONSTANTS
    Path,         \* .js and .cjs module files
    Content,      \* what a module file may hold
    Dirty,        \* contents with a block-tier detection of their own
    Split,        \* pairs of contents whose signals combine across two files
    CrossFile,    \* FW_ENABLE_CROSSFILE=1
    Keys,         \* keys a policy rule may have
    NoKey,        \* no package key, or no manifest name
    Identity,     \* the policy keys a path resolves to
    Interop,      \* paths whose format is commonjs when they are imported
    Seeded,       \* paths cached before the hooks are installed
    CachePolicy,  \* what resolveCachePolicy returns
    Root,         \* the parent of a dependency-tree root: none
    None,         \* no content
    Done,         \* an import that was evaluated
    MaxDepth      \* bound on nested module bodies

Verdicts == {"BLOCK", "QUARANTINE", "OBSERVE", "UNRECOGNISED"}

ASSUME LoaderAssumption ==
    /\ Rulesets \cup {EmptyRules}
         \subseteq UNION {[K -> Verdicts] : K \in SUBSET Keys}
    /\ DOMAIN EmptyRules = {}
    /\ NoKey \notin Keys
    /\ Identity \in [Path -> [canonical : Keys, package : Keys \cup {NoKey},
                              base : Keys, manifest : Keys \cup {NoKey}]]
    /\ Dirty \subseteq Content
    /\ Split \subseteq Content \X Content
    /\ CrossFile \in BOOLEAN
    /\ Interop \subseteq Path
    /\ Seeded \subseteq Path
    /\ CachePolicy \in {"block", "audit", "allow"}
    /\ Root \notin Path
    /\ None \notin Content
    /\ Done \notin Content \cup {None}
    /\ MaxDepth \in Nat

VARIABLES
    disk,         \* the content of each module file
    cache,        \* Module._cache: who made the entry for a path
    verified,     \* verifiedModulePaths
    quarantined,  \* quarantinedModules
    scanned,      \* verifiedCompilationsCache: the content that last passed
    signals,      \* behaviorTracker.moduleSignals: the content last analysed
    imports,      \* the ESM registry: None, a linked source, or Done
    stack,        \* the module bodies being evaluated, innermost last
    admitted,     \* the module versions the hooks let through (history)
    reply         \* what this step's require came to (history)

hookVars   == <<verified, quarantined, scanned, signals, admitted>>
nodeVars   == <<disk, cache, imports, stack>>
loaderVars == <<hookVars, nodeVars, reply>>
vars       == <<watcherVars, loaderVars>>

Entries == {"none", "boot", "loader", "stub", "foreign"}
Frames  == [path : Path, loader : {"cjs", "esm"}]

\* The outcome of a require, for whom and of what; NoReply after other steps.
Outcomes == {"served", "substituted", "refused", "stubbed", "running"}
NoReply  == [got |-> "none", to |-> Root, path |-> Root]
Replies  == {NoReply} \cup
            [got : Outcomes, to : Path \cup {Root}, path : Path]
Replied(got, parent, p) == reply' = [got |-> got, to |-> parent, path |-> p]

LoaderInit ==
    /\ Init
    /\ disk \in [Path -> Content]
    /\ cache = [p \in Path |-> IF p \in Seeded THEN "boot" ELSE "none"]
    /\ verified = Seeded
    /\ quarantined = {}
    /\ scanned = [p \in Path |-> None]
    /\ signals = [p \in Path |-> None]
    /\ imports = [p \in Path |-> None]
    /\ stack = <<>>
    /\ admitted = {}
    /\ reply = NoReply

-----------------------------------------------------------------------------
(* resolveModulePolicy: which rule a path falls under. *)

RuleSeverity == [BLOCK |-> 3, QUARANTINE |-> 2, OBSERVE |-> 1, UNRECOGNISED |-> 0]

\* Mutant: the severities are compared the wrong way round.
MoreRestrictiveRule_Swapped(a, b) ==
    IF RuleSeverity[b] < RuleSeverity[a] THEN b ELSE a

MoreRestrictiveRule(a, b) == IF RuleSeverity[b] > RuleSeverity[a] THEN b ELSE a

\* Canonical identity, then package key, then basename: the first with a rule.
InstalledRule(rules, id) ==
    IF id.canonical \in DOMAIN rules THEN rules[id.canonical]
    ELSE IF id.package \in DOMAIN rules THEN rules[id.package]
    ELSE IF id.base \in DOMAIN rules THEN rules[id.base]
    ELSE "OBSERVE"

\* The manifest's own name may only make the rule stricter.
ResolveModulePolicy(rules, p) ==
    LET id == Identity[p]
        installed == InstalledRule(rules, id)
    IN  IF id.manifest # id.canonical /\ id.manifest \in DOMAIN rules
          THEN MoreRestrictiveRule(installed, rules[id.manifest])
          ELSE installed

ConfiguredRule(p) == ResolveModulePolicy(policyMap, p)

-----------------------------------------------------------------------------
(* scanModuleAndEnforce: the detector's verdict on a module version. *)

SamePackage(p, q) ==
    /\ Identity[p].package # NoKey
    /\ Identity[p].package = Identity[q].package

\* analyzePackage: two different files of p's package hold a split pair.
CrossFileHit(sig, p) ==
    /\ CrossFile
    /\ \E a, b \in Path :
         /\ a # b
         /\ SamePackage(p, a) /\ SamePackage(p, b)
         /\ sig[a] # None /\ sig[b] # None
         /\ <<sig[a], sig[b]>> \in Split

\* Mutant: the scan cache is keyed by file name alone.
Scan_ByFilename(p, sig) ==
    LET hit == scanned[p] # None
        fed == IF hit THEN sig ELSE [sig EXCEPT ![p] = disk[p]]
    IN  [passes  |-> hit \/ ~(disk[p] \in Dirty \/ CrossFileHit(fed, p)),
         signals |-> fed]

\* Mutant: the package is correlated before this file's signals are recorded.
Scan_CorrelatesFirst(p, sig) ==
    LET hit == scanned[p] = disk[p]
    IN  [passes  |-> hit \/ ~(disk[p] \in Dirty \/ CrossFileHit(sig, p)),
         signals |-> IF hit THEN sig ELSE [sig EXCEPT ![p] = disk[p]]]

\* Scanning p with the tracker at `sig': the verdict, and what is recorded.
Scan(p, sig) ==
    LET hit == scanned[p] = disk[p]
        fed == IF hit THEN sig ELSE [sig EXCEPT ![p] = disk[p]]
    IN  [passes  |-> hit \/ ~(disk[p] \in Dirty \/ CrossFileHit(fed, p)),
         signals |-> fed]

\* Mutant: the hash is stored before the verdict is enforced.
RecordHash_BeforeVerdict(p, scan) == scanned' = [scanned EXCEPT ![p] = disk[p]]

\* verifiedCompilationsCache.set, reached only when nothing was thrown.
RecordHash(p, scan) ==
    scanned' = IF scan.passes THEN [scanned EXCEPT ![p] = disk[p]] ELSE scanned

\* Mutant: the version let in is noted as the one scanned before.
Admits_StaleVersion(p) ==
    /\ verified' = verified \cup {p}
    /\ admitted' = admitted \cup {<<p, scanned[p]>>}
    /\ UNCHANGED quarantined

\* Mutant: the path is marked verified only after its body has returned.
Admits_NotYetVerified(p) ==
    /\ admitted' = admitted \cup {<<p, disk[p]>>}
    /\ UNCHANGED <<verified, quarantined>>

\* The hook lets p's source through: verifiedModulePaths.add(filename).
Admits(p) ==
    /\ verified' = verified \cup {p}
    /\ admitted' = admitted \cup {<<p, disk[p]>>}
    /\ UNCHANGED quarantined

\* A hook that throws before it decided to let p in.
KeepsOut == UNCHANGED <<verified, quarantined, admitted, nodeVars>>

-----------------------------------------------------------------------------
(* Module.prototype._compile, reached by Module._load on a cache miss. *)

\* Code that can call require(): a tree root, or code admitted earlier.
Callers == {a[1] : a \in admitted} \cup (IF stack = <<>> THEN {Root} ELSE {})

Running == phase \in {"up", "stopping"}

\* A root compilation clears the tracker before anything else is decided.
TrackerFor(parent) == IF parent = Root THEN [p \in Path |-> None] ELSE signals

\* Mutant: the lockdown is not looked at.
RefusesCaller_Unlocked(parent) == parent \in quarantined

RefusesCaller(parent) == lockdown \/ parent \in quarantined

\* Throws before the policy lookup; Node drops the cache entry again.
CompileRefuses(parent, p) ==
    /\ RefusesCaller(parent)
    /\ signals' = TrackerFor(parent)
    /\ Replied("refused", parent, p)
    /\ KeepsOut
    /\ UNCHANGED scanned

CompileBlocks(parent, p) ==
    /\ ConfiguredRule(p) = "BLOCK"
    /\ signals' = TrackerFor(parent)
    /\ Replied("refused", parent, p)
    /\ KeepsOut
    /\ UNCHANGED scanned

\* A stub is exported in place of the module, whose code does not run.
CompileQuarantines(parent, p) ==
    /\ ConfiguredRule(p) = "QUARANTINE"
    /\ quarantined' = quarantined \cup {p}
    /\ verified' = verified \cup {p}
    /\ cache' = [cache EXCEPT ![p] = "stub"]
    /\ signals' = TrackerFor(parent)
    /\ Replied("stubbed", parent, p)
    /\ UNCHANGED <<scanned, admitted, disk, imports, stack>>

\* Node's cache entry is there, and p verified, before the body starts.
StartBody(parent, p) ==
    /\ Admits(p)
    /\ cache' = [cache EXCEPT ![p] = "loader"]
    /\ stack' = Append(stack, [path |-> p, loader |-> "cjs"])
    /\ Replied("running", parent, p)
    /\ UNCHANGED <<disk, imports>>

CompileObserves(parent, p) ==
    LET scan == Scan(p, TrackerFor(parent))
    IN  /\ ConfiguredRule(p) = "OBSERVE"
        /\ signals' = scan.signals
        /\ RecordHash(p, scan)
        /\ \/ scan.passes /\ StartBody(parent, p)
           \/ ~scan.passes /\ KeepsOut /\ Replied("refused", parent, p)

\* A rule value the code does not know falls through to plain compilation.
CompileUnrecognised(parent, p) ==
    /\ ConfiguredRule(p) = "UNRECOGNISED"
    /\ signals' = TrackerFor(parent)
    /\ StartBody(parent, p)
    /\ UNCHANGED scanned

Compile(parent, p) ==
    \/ CompileRefuses(parent, p)
    \/ /\ ~RefusesCaller(parent)
       /\ \/ CompileBlocks(parent, p)
          \/ CompileQuarantines(parent, p)
          \/ CompileObserves(parent, p)
          \/ CompileUnrecognised(parent, p)

-----------------------------------------------------------------------------
(* Module._load. *)

\* Mutant: cache hits are not gated.
LoadCached_Ungated(parent, p) ==
    /\ cache[p] # "none"
    /\ Replied("served", parent, p)
    /\ UNCHANGED <<hookVars, nodeVars>>

\* A cached entry is returned unless it is unverified and the policy is block.
LoadCached(parent, p) ==
    /\ cache[p] # "none"
    /\ IF p \in verified \/ CachePolicy # "block"
         THEN Replied("served", parent, p)
         ELSE Replied("substituted", parent, p)
    /\ UNCHANGED <<hookVars, nodeVars>>

LoadFresh(parent, p) ==
    /\ cache[p] = "none"
    /\ Len(stack) < MaxDepth
    /\ Compile(parent, p)

Require(parent, p) ==
    /\ Running
    /\ parent \in Callers
    /\ LoadCached(parent, p) \/ LoadFresh(parent, p)

-----------------------------------------------------------------------------
(* The ESM load hook, and the evaluation of what it let through. *)

ImportRefused(p) ==
    /\ lockdown \/ ConfiguredRule(p) \in {"BLOCK", "QUARANTINE"}
    /\ KeepsOut
    /\ UNCHANGED <<signals, scanned>>

ImportScanned(p) ==
    LET scan == Scan(p, signals)
    IN  /\ ~lockdown
        /\ ConfiguredRule(p) \notin {"BLOCK", "QUARANTINE"}
        /\ signals' = scan.signals
        /\ RecordHash(p, scan)
        /\ \/ /\ scan.passes
              /\ Admits(p)
              /\ imports' = [imports EXCEPT ![p] = disk[p]]
              /\ UNCHANGED <<disk, cache, stack>>
           \/ ~scan.passes /\ KeepsOut

ImportLoads(p) ==
    /\ Running
    /\ imports[p] = None
    /\ ImportRefused(p) \/ ImportScanned(p)
    /\ reply' = NoReply

\* An imported CommonJS module that require() cached first is reused.
ImportEvaluates(p) ==
    /\ Running
    /\ stack = <<>>
    /\ imports[p] \in Content
    /\ MaxDepth > 0
    /\ imports' = [imports EXCEPT ![p] = Done]
    /\ IF p \in Interop /\ cache[p] # "none"
         THEN UNCHANGED <<cache, stack>>
         ELSE /\ cache' = IF p \in Interop
                            THEN [cache EXCEPT ![p] = "loader"] ELSE cache
              /\ stack' = <<[path |-> p, loader |-> "esm"]>>
    /\ reply' = NoReply
    /\ UNCHANGED <<hookVars, disk>>

-----------------------------------------------------------------------------
(* Module bodies, the tools that edit require.cache, and the file system. *)

Pop == stack' = SubSeq(stack, 1, Len(stack) - 1)

BodyReturns ==
    /\ Running
    /\ stack # <<>>
    /\ Pop
    /\ reply' = NoReply
    /\ UNCHANGED <<hookVars, disk, cache, imports>>

\* Node deletes the cache entry of a CommonJS module whose body throws.
BodyThrows ==
    /\ Running
    /\ stack # <<>>
    /\ LET top == stack[Len(stack)]
       IN  cache' = IF top.loader = "cjs" \/ top.path \in Interop
                      THEN [cache EXCEPT ![top.path] = "none"] ELSE cache
    /\ Pop
    /\ reply' = NoReply
    /\ UNCHANGED <<hookVars, disk, imports>>

\* Hot-reload and mocking tools delete an entry, or put their own in place.
EditCache(p) ==
    /\ Running
    /\ \E entry \in {"none", "foreign"} :
         /\ cache[p] # entry
         /\ cache' = [cache EXCEPT ![p] = entry]
    /\ reply' = NoReply
    /\ UNCHANGED <<hookVars, disk, imports, stack>>

DiskChanges(p) ==
    /\ \E c \in Content \ {disk[p]} : disk' = [disk EXCEPT ![p] = c]
    /\ reply' = NoReply
    /\ UNCHANGED <<hookVars, cache, imports, stack>>

-----------------------------------------------------------------------------
LoaderStep ==
    /\ \/ \E parent \in Path \cup {Root}, p \in Path : Require(parent, p)
       \/ \E p \in Path :
            ImportLoads(p) \/ ImportEvaluates(p) \/ EditCache(p) \/ DiskChanges(p)
       \/ BodyReturns
       \/ BodyThrows
    /\ UNCHANGED watcherVars

\* Timers and signal handlers wait for the stack to empty.
WatcherStep ==
    /\ \/ stack = <<>> /\ (Watch \/ Stop)
       \/ ProcessEnds
       \/ FileChanges
    /\ reply' = NoReply
    /\ UNCHANGED <<hookVars, nodeVars>>

LoaderNext == LoaderStep \/ WatcherStep

LoaderSpec == LoaderInit /\ [][LoaderNext]_vars

-----------------------------------------------------------------------------
LoaderTypeOK ==
    /\ TypeOK
    /\ disk \in [Path -> Content]
    /\ cache \in [Path -> Entries]
    /\ verified \subseteq Path
    /\ quarantined \subseteq Path
    /\ scanned \in [Path -> Content \cup {None}]
    /\ signals \in [Path -> Content \cup {None}]
    /\ imports \in [Path -> Content \cup {None, Done}]
    /\ stack \in Seq(Frames)
    /\ admitted \subseteq Path \X Content
    /\ reply \in Replies

\* Every entry that Node made while the hooks looked on is verified, at every
\* moment a require() could hit it: also while the module's body still runs (a
\* circular require), and after an import put it there.  Otherwise the block
\* policy would refuse modules the firewall itself let in.
OwnEntriesVerified ==
    \A p \in Path : cache[p] \in {"boot", "loader", "stub"} => p \in verified

\* Paths that predate the hooks, or that a hook let in or replaced by a stub.
Decided == Seeded \cup quarantined \cup {a[1] : a \in admitted}

\* A path counts as verified only because it predates the hooks or because a
\* hook decided on it without throwing; a refused load leaves no such trace.
VerifiedWasDecided == verified \subseteq Decided

\* The scan cache remembers only versions that passed, so that loading a
\* refused file once more, or reverting a file, never skips a scan it needs.
CachedScansPassed ==
    \A p \in Path : scanned[p] # None =>
        scanned[p] \notin Dirty /\ <<p, scanned[p]>> \in admitted

\* What an import will evaluate is the source its hook scanned, whatever
\* happened to the file, the rules or the lockdown between the two.
LinkedSourceWasScanned ==
    \A p \in Path : imports[p] \in Content =>
        imports[p] \notin Dirty /\ <<p, imports[p]>> \in admitted

\* An alias's manifest name makes the rule of the installed name stricter or
\* leaves it, and a rule on either name is never undercut by the other.
ManifestOnlyEscalates ==
    \A p \in Path :
        LET id  == Identity[p]
            sev == RuleSeverity[ConfiguredRule(p)]
        IN  /\ sev >= RuleSeverity[InstalledRule(policyMap, id)]
            /\ id.manifest \in DOMAIN policyMap /\ id.manifest # id.canonical =>
                 sev >= RuleSeverity[policyMap[id.manifest]]

\* With cross-file correlation on, two files of a package that were both
\* analysed since the tracker was last cleared, and whose signals combine,
\* have not both passed.  It says nothing of a file that the scan cache lets
\* pass: that one is not analysed again, so a root load, which clears the
\* tracker but not the cache, makes its half unknown.
AnalysedPairNeverPasses ==
    CrossFile =>
        \A a, b \in Path :
            (a # b /\ SamePackage(a, b) /\ <<signals[a], signals[b]>> \in Split)
                => ~(scanned[a] = signals[a] /\ scanned[b] = signals[b])

\* The cache gate is exact under the block policy: it serves no path that the
\* firewall has never decided on, and turns away none of Node's own entries.
CacheGateExact ==
    CachePolicy = "block" =>
        /\ reply.got = "served" => reply.path \in Decided
        /\ reply.got = "substituted" => cache[reply.path] = "foreign"

-----------------------------------------------------------------------------
(* The loader implements the gate. *)

Allowed ==
    {t \in (Rulesets \cup {EmptyRules}) \X Path \X Content :
        \/ ResolveModulePolicy(t[1], t[2]) = "UNRECOGNISED"
        \/ ResolveModulePolicy(t[1], t[2]) = "OBSERVE" /\ t[3] \notin Dirty}

Gate == INSTANCE LoadGate WITH
            Rules <- Rulesets \cup {EmptyRules}, FirstRules <- EmptyRules,
            open <- ~lockdown, rules <- policyMap, code <- admitted

\* Nothing is admitted in lockdown, in defiance of the rules in force at that
\* moment, or with a detection; and nothing reopens the gate.
ImplementsGate == Gate!Spec
=============================================================================
