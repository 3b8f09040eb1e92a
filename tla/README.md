# Helios runtime firewall: verification project

TLA+ models of the runtime firewall (`packages/fw-agent`) and of its control
plane (`packages/fw-control`), TLC runs that check them on small instances, and
TLAPS proofs of the properties that matter most for every value of the
constants.  Every definition is a translation of the source; `PROJECT.json`
("map") says which lines each one stands for.

## 1. The system

| Part | Source | State it keeps | Operations | What is hard |
| --- | --- | --- | --- | --- |
| Policy watcher | `src/policy-watcher.js` | `locked`, `timer`, `_lastRulesHash` | `start`, interval tick, `stop`, `_loadAndVerify`, `assertProductionKeyConfig` | the file changes between any two reads; a lockdown is permanent; hot-reload depends on a remembered hash |
| Module interception | `index.js` | `policyMap`, `emergencyLockdown`, `verifiedCompilationsCache`, `quarantinedModules`, `verifiedModulePaths`, `packageJsonCache` | wrapped `Module._load`, `Module.prototype._compile`, ESM `load` hook, `resolveModulePolicy`, `scanModuleAndEnforce` | nested, circular and repeated loads, two loaders sharing caches, rules and lockdown that change between two loads, files that change on disk |
| Detector and tracker | `src/detector.js`, `src/behavior-tracker.js` | `moduleSignals`, `filePackage`, statistics | `scanModuleSync`, `analyzeModule`, `analyzePackage`, `reset` | correlation across files whose scans are cached or reset at different times |
| Signature automaton | `src/aho-corasick.js` | trie, failure links | build, `search`, `searchInsensitive` | keywords inside keywords, outputs inherited over failure links |
| AST scanner | `src/ast-scan.js` | spans, tokens, statements, bindings, depth counter and budgets of one scan | `scan`: find spans, tokenize, parse with recovery, fold, resolve, report | statements the grammar does not know, state that outlives a throw, budgets that run out, spans that cut a construct |
| Quarantine stub | `src/quarantine.js` | the proxy's target, `interceptCount` | the proxy traps | sequences of legal operations that meet the language's proxy invariants |
| Audit log | `src/audit-log.js` | `fd`, `logPath`, files on disk | `_init`, `write`, `_rotate`, `close` | several processes, crashes between renames, failing calls |
| Telemetry worker | `sync-worker.js` | `eventBuffer`, `flushTimer`, `terminating` | message handlers, `flushEvents` | timer handles that outlive their timer, requests that outlive the buffer |
| Telemetry in the agent | `index.js` | `telemetryWorker` | `emitTelemetry`, `degradeTelemetry`, `shutdown` | a worker that dies, signals while events are under way |
| Control plane | `fw-control/src/server.js` | `telemetryQueue`, `queueBytes`, `recentEvents`, `logFd` | `POST /v1/telemetry`, drain timer, signal handlers, read-only GETs | two budgets on one queue, signals with requests in flight |
| Bootstrap | `index.js` | environment | integrity, runtime, preload, key and lifecycle-script gates; re-injection into children | gates in a fixed order, flags inherited over generations |
| Release warden | `.agent/scripts/` | a run directory: checkpoint log, evidence index and bundles, receipts | `checkpoint create` and `assert-sha`, `collect-evidence`, `release-warden` | a chain of checks over files that the roles rewrite, tear and supersede while it reads them |

The rest of the repository (benchmarks, probes, demos, the monitor, the
red-team corpus, the signing tools) keeps no state of its own; `PROJECT.json`
("components") lists it.

How they interact: the watcher calls back into the agent (`onTamperDetected`,
`onValidChange`); the hooks read the rules and the lockdown those callbacks set,
call the detector, and write to the audit log and to the telemetry worker; the
worker posts batches over loopback HTTP to the control plane, which queues them
and writes its own log.  JavaScript runs one callback at a time, so the
interleavings are those of callbacks (timers, messages, signals, requests), of
threads and processes (worker, children, control plane), and of the file system.

`PROJECT.json` ("hazards") lists what can go wrong and is hard to test, each at
its line, with the properties that would catch it.

## 2. Modules

| Module | Models | Correspondence |
| --- | --- | --- |
| `PolicyWatcher` | the watcher, its two callbacks, the key guards | `phase` is where the process is between `assertProductionKeyConfig` and `exit`; `start()` is two steps (`StartLooks`, `StartVerifies`) because it reads the file twice; `Tick` is one interval callback; `FileChanges` is any other process |
| `LoadGate` | abstract specification: code is admitted one version at a time, through an open gate, as the rules of that moment allow; a closed gate stays closed | none, by intent |
| `ModuleLoader` | `Module._load`, `_compile`, the ESM hook, the shared policy lookup and scan, on top of `PolicyWatcher` | one require with everything its hooks do is a step; the body of a module is a frame of `stack`; an import is a load and a later evaluation; timers run only when the stack is empty |
| `AuditLog` | `audit-log.js` with its files | one file system call is a step, because processes share the directory; `failures` records which faults have happened, so that properties can be conditional on them |
| `SyncWorker` | `sync-worker.js` | one message, timer or request callback is a step; `flushTimer` tells null, armed and spent handles apart |
| `ControlPlane` | `server.js` | a request handler does not await, so it is one step |
| `Telemetry` | agent, `SyncWorker`, network and `ControlPlane` composed | the agent's `emitTelemetry`, `degradeTelemetry` and `shutdown`; the wire may reorder, lose and delay; `faults` says, from the start, which of this may happen |
| `AhoCorasick` | the keyword automaton as functions on paths of the trie | a node is the path to it; `NoMatch` is null; `FirstMatch` is what the search is to return |
| `SignalSweep` | `buildSeparatorPrefix` as a function, `withinContext` turn by turn | `points`, `left`, `right`, `counts`, `filled` are the code's locals, counted from 1; `Correlated` is what the sweep is to find |
| `BehaviorScan` | `analyzeModule` on top of both | `Rules` is the code's table of rules; texts are sequences of code units, a regex is a pattern with white space between its code units |
| `AstSpans` | the triggers of `ast-scan.js` and the spans around them | a text is a sequence of cells (a word, a punctuator, a quote, a letter between quotes); `Turn` is one turn of `computeSpan`'s pass over the window, `Pass` the run of them |
| `SpanQueue` | the spans in their order and the two budgets, and the result | finding the spans, passing one over, taking one up, leaving it and the end are steps; inside a span the result grows (`Inside`), and nothing else is said of it |
| `AstParser` | tokenizer and recursive-descent parser | the parse functions are the rules of one function of rule, position and depth, defined by recursion; a rule takes the depth counter and gives it back, also when it throws; `Parse(rule, ...)` is the parse function of that name |
| `AstValue` | what the folder returns and what a name can be bound to | a folded value is a text, an array or nothing; a binding is a text or a global |
| `AstFold` | constant folder, identities, the walk over an expression | by RECURSIVE operators over the expression, so the module is only for TLC's runs |
| `AstScan` | `AstScanner.scan` on top of `SpanQueue` and the parser | one span, one statement parsed or skipped, one statement analysed is a step, each of them a step of `SpanQueue` or none; what a statement binds and reports are the constants `Bind` and `Walk`, which the configurations set to the operators of `AstFold`; `program` says what the text means, apart from the scanner |
| `Verdict` | `scanModuleSync` around any AST scan that `SpanQueue` allows | signatures, AST pass, behavioural rules and verdict are steps in the code's order; environment variables are read where the code reads them |
| `Detector` | `Verdict` with the AST scan of `AstScan` | its steps are those of the two; the run `ast_scan` checks it |
| `QuarantineProxy` | the stub of a quarantined module | one operation of a consumer is a step; `target` is the real function; `outcome` says whether the language accepts the trap's answer |
| `ReleaseWarden` | the roles that fill a run directory, and `release-warden.js` that judges it | each script reads a file and writes it in two steps; the warden's stages are the blocks of `evaluate`, in their order; `history` is what was ever signed or captured |
| `MC...` | instances for TLC | constants only |
| `Induction` | induction, recursion and sums over the naturals, as lemmas about sets and functions | none, by intent: the proofs rest on it |
| `..._proofs` | theorems of the module they are named after and of those it is built on | |

Abstractions shared by all: a module version, a rule set, a document and an
event are values, not text; hashes are the values they are hashes of; logging,
console output and metrics counters are left out.  A document in
`PolicyWatcher` stands for what `_loadAndVerify` makes of it.  The detector's
verdict on one file is a set of contents (`Dirty`); its verdict on a package is
the relation `Split`.  An empty file, which the detector passes without feeding
the tracker, is not among the contents.  Node's module caches, its removal of
the entry of a module that throws, the order of a body and its requires, and
the ESM registry are external and modelled from how the hooks use them.

## 3. Runs

`PROJECT.json` ("runs") names each run's module, configuration and properties.

| Run | What it shows | Bounds, and why they are enough |
| --- | --- | --- |
| `policy_watcher` | over every interleaving of ticks and file changes: verified rules and no others reach the agent, a bad file locks it for good | 3 signed rule sets, all documents, all environments: the file can change to a second set and back to the first while the third is in force; file changes are not bounded |
| `policy_null_document` | the JSON text `null` escapes the fail-closed path (violation) | the same |
| `module_loader` | what `require` and `import` serve was scanned, admitted and verified as the rules of its moment demand; the loader refines `LoadGate`; two files that were both analysed and split a pair do not both pass | 2 files of one package, installed under an alias; contents that are dirty, or clean and a pair across two files; rule sets with quarantine, the alias's registry name and an unknown verdict, nesting 2: a caller and a callee, a circular require, two names for one file, two versions of each; disk, cache and rules change without bound |
| `audit_log` | one process keeps its generations while nothing fails, discards only the oldest segment while renames work, and never holds a descriptor of a rotated file | 4 generations, 15 events, files of at most 2, kills and failing calls anywhere: the ladder of names fills up and overflows twice |
| `sync_worker` | a terminating worker has a request to wait for, no empty batch is sent, and the buffer drains | 4 events, 3 waiting messages: a batch in flight, a batch being buffered, and commands between them |
| `telemetry` | end to end: nothing logged twice, failures reported only for events that were not taken, both queue budgets kept, the window the latest events, admission recovers, and without faults every event accepted or reported | 3 events, 2 requests, 2 bytes, batches of at most 2, a window of one, a drain of one, with all faults and with none: batches too large for the schema, either budget the one that is hit, a window that overflows by one and by several, a batch on the wire while the next is buffered, a server that restarts under load |
| `behavior_scan` | a module is reported for exactly the rules it breaks, whichever way `analyzeModule` takes; the automaton finds what a search keyword by keyword finds; padding costs a statement boundary exactly where it ends an open line | every text of 1 to 5 code units over two letters of the patterns, a third signal, `;`, newline and space; comments over one or two offsets, AST signals, capitals and non-ASCII letters in shorter ones; caps of 1 boundary and 3 characters, so that either alone excludes a pair; paddings of one or two blanks and newlines, a tab, CRLF, indented lines and several lines |
| `padding_not_free` | a newline between two signals of a statement moves them apart (violation) | the same |
| `release_warden` | what a PASS stands for, whatever is rewritten, torn or superseded while the warden reads; gates before verdicts; every started run ends with a receipt | 2 candidates (a first one and a rework), one review gate of the four, which share one function, next to the threat model and the audit; honest plans, plans with each single departure and pairs of a failing verifier with each gate departure |
| `ast_scan` | hidden calls are reported once each and nothing else is, folded literals are texts the program makes, high-risk hits are looked at or the scan says it is incomplete, the verdict follows evidence, and a screening ends | programs of one to three fragments: every binder before every caller, anything the parser does not know on either side of it, and floods of five to seven spans over budgets of two and one; windows that hold a whole program and windows that cut it |
| `ast_depth_leak` | a statement that throws costs the next ones their depth (violation) | a limit of 9 and three assignments, as 60 and twenty in the code |
| `quarantine_hardened` | a deletion after `preventExtensions` is answered with what the language refuses (violation) | every operation on five kinds of key with every partial descriptor, at most 4 rate-limited intercepts; without deletions the same property holds of all the 134,622 states |

Fairness.  `PolicyWatcher!FairSpec`: startup is straight-line code and
`setInterval` keeps ticking; nothing makes anyone touch the file.
`SyncWorker!FairWorkerSpec`: the thread's event loop runs its timers and
messages; answers and deaths are not fair.  `Telemetry!FairTelemetrySpec`: both
event loops run, with the server's drain interval, and the loopback delivers what
is on the wire.  `ReleaseWarden!Spec`: the warden's own process runs; no role ever
has to come back.  `Detector!RunsOn`: one synchronous call runs until it returns.
No run assumes that a request, an operator or a signal ever comes.

Where the code and the repository's own words differ, a run shows it, and
`PROJECT.json` ("findings") quotes both: a policy holding `null` escapes the
fail-closed path; the parser's depth counter keeps what a throw leaves in it; a newline
added inside a statement counts as a statement boundary, although white space is
said to add none, and so do several at several places; the quarantine stub
pretends to delete keys of a function that can no longer lose them.

The models have further behaviours that differ from a comment or a document and
that no run singles out:

* A policy file that appears after startup is never loaded: without one `start()`
  arms no interval (the comment at `policy-watcher.js:205` expects it to load).
* A kill in mid-rotation leaves a gap in the chain of names, and the next rotation
  shifts around it, so fewer generations than `MAX_ROTATIONS` are kept for a
  while.  `KeepsGenerations` is therefore conditional on `failures = {}`.
* A request in flight while the control plane shuts down is answered with 202
  after its log was closed, and is in memory only.
* A module that is in the cache is served by `require` in lockdown as well
  (`index.js:926`; `README.md:137` says that all subsequent module loads throw).
* Two processes that share a log directory rotate over each other and discard
  generations early (`audit-log.js:65`; `README.md:159`).  `AuditLog` takes any
  number of processes; `KeepsGenerations` holds of one.
* Events emitted in the half second after `FORCE_FLUSH` was posted are lost when
  the worker is terminated (`index.js:1095`; `README.md:169`).
* The warden compares five shas as exact strings: an abbreviated one always
  freezes, although the comment at line 581 of `release-warden.js` calls a prefix
  legitimate.  Gates behind one that asks for rework (682), and all gates when the
  docs receipt freezes the run (853), are reported as not required.  Two
  checkpoints, or two evidence bundles, created at once can lose one of them.
* A number that the AST folder meets is folded as text, and a name whose second
  declaration does not fold keeps its first value.  The right side of an
  assignment and a returned expression are not searched for calls.  A span of more
  than 1200 tokens is dropped and still counts as scanned.
* A non-configurable accessor defined through the quarantine stub makes `get` and
  `set` unlawful, since those two traps look at `writable` alone (quarantine.js:146
  expects to lie there safely); so does a read-only, non-configurable `then`, for
  which `get` answers `undefined` before it looks at the property (139).
  `LawfulBut` lists every such case, and a theorem says there are no others.
* White space that `buildSeparatorPrefix` does not know as such (a form feed, a
  no-break space) reads as content, so that each line of it counts as a statement
  (`behavior-tracker.js:309`); the paddings of `PaddingCostsOpenLine` have none.
* A root load clears the tracker and leaves the scan cache (`index.js:762`, `794`).
  Of two files that split a pair, both pass when each is loaded from the root and
  the second then requires the first, evicted in between, again: its content is in
  the scan cache, so it is not analysed, and its half is not in the tracker.
  `AnalysedPairNeverPasses` is therefore about files that were both analysed since
  the tracker was last cleared.

## 4. Proofs

The proof modules state `THEOREM Spec => []Inv` (or `[][A]_vars`) for every value
of the constants that satisfies the named assumptions of the module.

* `ModuleLoader_proofs`, in three parts.  First the watcher by itself: type
  correctness;
  `MapMatchesHash` and `LockReachesAgent` from the inductive invariant
  `WatcherInv`, which adds that before `start()` has run nothing is locked, no
  timer is armed and no hash is remembered; `LockdownIsFinal` and
  `OnlyVerifiedRulesApply` as step properties from it.  Then type correctness and
  all the safety properties of the loader from `LoaderInv`, whose strengthening is
  that whatever was admitted is verified: the cache entry that Node makes for a
  body is verified because its version was admitted first, and a version that
  entered the scan cache was admitted in the same step.  `LoaderImplementsGate`
  proves the refinement of `LoadGate`: every step of the hooks is an `Admit` or a
  stutter of the gate, and every step of the watcher a `Reload`, a `Close` or a
  stutter.  Assumes `ConfigAssumption` and `LoaderAssumption`.  Last the quarantine
  stub: a trap answers what JavaScript refuses in the cases of `LawfulBut` only
  (a deletion on a target made non-extensible; a property the consumer pinned on the
  target and `get` or `set` overlooks), and as long as nothing has made the target
  non-extensible, the traps that report its shape are lawful (`LawfulUntilSealed`):
  the violation the run `quarantine_hardened` finds needs `preventExtensions`.
* `AuditLog_proofs`: type correctness for any processes and faults; for one
  process (`Proc` a singleton is the only assumption added), that the descriptor
  a process holds is `audit.log`'s under all faults, that only the oldest segment is
  discarded as long as no rename has failed (kills and failing opens allowed:
  `OrderInv`, the names hold segments in the order of their age), and that all
  the generations are kept as long as nothing has failed.  The last one needs the
  whole ladder: the segment each name holds, as a function of the number of
  segments made, at every point of the rotation (`LadderInv`).  Assumes
  `AuditAssumption`.
* `Telemetry_proofs`, first the worker by itself: type correctness,
  `BufferedIsTimed` (a thread that accepts events has an armed timer exactly when
  something is buffered) and `TerminatingWaits`, inductive once a handle is tied to
  the buffer while the worker is not terminating.  Then `LoggedOnce`,
  `ReportedWasRefused` and `WindowIsLatest` of the whole telemetry path, for any
  number of events, any limits and any faults.  The invariant `DeliveryInv` orders
  the events: what is in the inbox is numbered above what is in the buffer, and
  both above everything that has left the worker (`WorkerInOrder`); what has left
  it is in one place only, on the wire, with the server, or in a failure the worker
  reported or is about to report (`NowhereTwice`).  `WindowInv` says element by
  element which accepted event each place of the window holds.  `QueueBounded`:
  the bytes accounted are the sum of those of the waiting requests, a sum that
  `Induction` gives one value for every queue, so that admission adds and the drain
  subtracts exactly what it counts (`LedgerInv`).  Assumes `WorkerAssumption` and
  `ControlAssumption`.
* `ReleaseWarden_proofs`: `PassWasVerified`, `RequiredReviewsSigned` and
  `GatesBeforeVerdicts` from `ReleaseInv`, for any plans, reviews and number of
  commits.  Its first half (`RolesInv`) says that nothing stands in the run
  directory that a role did not sign, checkpoint or capture; its second
  (`WardenInv`) what each stage of the warden's reading has established.  The two
  meet in `history`, which only grows: what a role rewrites after the warden has
  read it was still once signed.  Assumes `PlanAssumption` and
  `ReviewsAssumption`.
* `AhoCorasick_proofs`: a failure link leads to the longest proper ending that is a
  node, the outputs of a node are the keywords that end there, and the walk over a
  text is at the longest ending of it that is a node; hence `SearchReturnsFirst`,
  the search returns, of the keywords that end first, the longest.  The keywords
  have no capitals and nothing beyond ASCII, like the agent's.
* `BehaviorScan_proofs`, in four parts.  What the prefix of statement boundaries
  counts between two offsets.  The sweep: `SweepInv` says that the counters count
  the window, that the points left of it are too far from the one it ends at, and that
  no window ending earlier would have done; so the sweep answers yes exactly when a stretch
  within the caps holds every group (`WindowCounted`, `SweepDecidesCorrelation`).
  The rules: `ScanInv`, what is found is what the rules passed report; with the
  keywords a superset of the raw signals (`KeywordsAssumption`), which is what the
  comment over the pre-screener claims of them, every rule that a module breaks is
  reported on both ways out of `analyzeModule` (`ReportedExactly`, `SearchExact`).
  And padding: blanks and newlines put in anywhere, however many, move what follows
  by one boundary exactly when they end a line that is open there and that the text
  does not end itself (`PaddingCostsOpenLine`).  The two readings, of the text and of
  the padded one, agree, or the second has read the end of a line that the first is
  still on, or it is one boundary ahead for good.  Assumes `SweepAssumption`,
  `ScanAssumption` and `KeywordsAssumption`.
* `Detector_proofs`, in five parts.
  - The spans: the span computed around a hit holds the hit, because every turn of
    the pass keeps its starts at or before the hit and its end past it (`Walkers`);
    adding a hit to the list, in the order of the text, leaves every earlier hit in
    a span at least as heavy (`Held`); sorting by risk loses no span, as the ranks
    are a permutation.  `QueueInv` is the account of a scan: what is to do is the
    rest of the sorted list, and of the grave spans ahead of it as many were looked
    at as the budget has counted.  From it `HighRiskLookedAt`, for any text, window
    and budgets.
  - The verdict: `VerdictInv` follows the evidence of each pass, and
    `EnforcesExactly` says that a module is quarantined on that evidence and on
    nothing else, for any findings a scan can add.
  - The parser: a rule calls rules further on in the text, or at the same place a rule
    that stands lower (`Height`), so the measure of a call is seven times the tokens
    left plus the height of its rule, and the recursion has a solution
    (`ParserExists`).  Every rule is `Sound`: what returns is past what it read and
    gives the depth counter back, what throws leaves at most one level beyond the
    limit in it (`ParserSound`, `StatementSound`); skipping to the next statement goes
    forward (`RecoveryMoves`).  Likewise the tokenizer (`TokenizeType`).
  - The scan as it runs: `SpanType`; within a span, nothing but a
    statement that throws moves the depth counter (`OnlyThrowsLeak`, so that the
    throw which `ast_depth_leak` shows is the only way to leak); and every step of
    a screening descends (`ScreeningDescends`): passes of the verdict, spans in
    the queue, ways out of the span, tokens and statements left to do, in this
    order, are naturals that come down.
  - The whole detector implements `Verdict` (`DetectorImplementsVerdict`): a step
    within a span is a step of `SpanQueue` or a stutter.  What was proved of the
    verdict is thereby proved of the detector (`HighRiskLookedAt`,
    `EnforcesExactly`).  A module with evidence is quarantined whatever the AST scan
    reports (`EvidenceEnforces`); and `EnforcesOnEvidence` holds wherever the scan's
    report is what `ReportsExactly` and `LiteralsAreTexts` say it is.

  All of it holds for any binder `Bind` and walk `Walk`: the folder can be wrong
  about a value, and the scan still ends, keeps its budgets and looks at the grave
  spans.  Assumes `SpanAssumption`, `ViolationsAssumption` and `ParserAssumption`.
* `Induction`: a set of naturals that holds 0 and each successor holds them all,
  stated over sets, since an operator parameter cannot be instantiated; with it the
  least and the greatest of a set, the run of a function defined by recursion, and
  what a sum over a sequence is.

`LockReachesAgent`, `VerifiedWasDecided`, `BufferedIsTimed`, `ReleaseInv`,
`ScanInv`, `SweepDecidesCorrelation`, `QueueInv`, `EnforcesExactly`,
`SearchReturnsFirst`, `SpanType`, `Descends`, `CounterKept` and `LawfulBut` are
proved and not among the properties of a run.

Only model-checked:

* All liveness (`BadFileLocks`, `UpdateApplies`, `BufferDrains`,
  `AdmissionRecovers`, `AcceptedOrReported`, `AlwaysDecides`, `ScreeningEnds`),
  which the prover cannot do.  Of `ScreeningEnds` the part without fairness is
  proved: no screening can go on forever, as every step descends.
* `ReportsExactly` and `LiteralsAreTexts`.  They compare the scanner's result with
  what a program means, which the fragments of `MCDetector` state and no formula
  derives; and the result is the folder's, which is RECURSIVE and which the proofs
  leave open.  `EnforcesOnEvidence` is proved under these two.

`NullDocLocks`, `RecoveryIsBounded`, `ImmuneToPadding` and `ShapeTrapsAreLawful` are
violated.  `PaddingCostsOpenLine`, proved, says exactly when padding costs a
boundary; `ShapeTrapsAreLawful` is proved as long as the target is extensible.

## 5. Not modelled, and the plan

Not modelled: the audit and telemetry records the hooks write (no hook decides
by them), `require(esm)`, extensions other than `.js` and `.cjs` (the gate does
not look at them), the read-only endpoints of the control plane, the tools and
benchmarks.  Of the AST scanner: template literals, base64, arithmetic on numbers,
`charAt`, `slice` and their like; all its positions are a span's start.  Of the
detector: `finalizePackage`, which nothing in the agent calls.  Of the behavioural
tracker: violations accumulated over a session, which no verdict reads.  Of the
release scripts: the sync flag, and three of the four review gates, which share
the code of the one that is there.

Next, in this order:

1. Theorems: the folder as a function of the depth it is given, as the parser is of
   position and depth, so that what a fold returns can be proved: a folded text is
   made of the literals of the expression.  That is `LiteralsAreTexts` without what
   the fragments of `MCDetector` say of themselves.
2. `PackageIdentity`: the cache of `findPackageJsonInfo` against a file system
   that changes, under `ModuleLoader`'s `Identity`: the files of a directory agree
   on their package for the life of the process.
3. `Bootstrap`: the gates in their order, and `Reinjection`: the preload flag over
   generations of processes, in front of `PolicyWatcher`'s key guard.
4. `policy.js`: which fields of a forensic object its hash covers (the sorted names
   of the top level are also the replacer of `JSON.stringify`, so nested fields
   with other names are left out).
