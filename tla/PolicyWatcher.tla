--------------------------- MODULE PolicyWatcher ---------------------------
(***************************************************************************)
(* The policy integrity watcher (packages/fw-agent/src/policy-watcher.js)  *)
(* and the two callbacks the agent gives it (packages/fw-agent/index.js):  *)
(* the watcher verifies policy.signed.json once at startup and then on     *)
(* every tick of an interval timer, hands verified rules to the agent, and *)
(* puts the agent in emergency lockdown when a verification fails.         *)
(*                                                                         *)
(* A document is identified with what _loadAndVerify makes of it: a rule   *)
(* set in Rulesets stands for a document with a valid signature over those *)
(* rules.  Other processes rewrite the file between any two steps.         *)
(***************************************************************************)
EXTENDS Naturals

CONSTANTS
    Rulesets,     \* the rule sets an operator signs
    EmptyRules,   \* the empty policyMap the agent starts with
    Absent,       \* no file, or a file that cannot be read
    Malformed,    \* not JSON, a field missing, or a signature that fails
    NullDoc,      \* the JSON text null: it parses, and has no fields to read
    NoHash,       \* _lastRulesHash before the first verified policy
    Configs       \* the environments the agent may be started in

Documents == Rulesets \cup {Absent, Malformed, NullDoc}

ASSUME ConfigAssumption ==
    /\ Configs \subseteq
         [production  : BOOLEAN,    \* NODE_ENV is "production"
          devKey      : BOOLEAN,    \* the bundled key, not acknowledged
          hostCatches : BOOLEAN]    \* an uncaughtException handler
    /\ NoHash \notin Rulesets \cup {EmptyRules}
    /\ {Absent, Malformed, NullDoc} \cap (Rulesets \cup {EmptyRules}) = {}

VARIABLES
    config,     \* the environment this process was started in
    file,       \* what policy.signed.json holds
    phase,      \* where the agent process is in its life
    locked,     \* this.locked
    timer,      \* this.timer is an armed interval
    lastHash,   \* this._lastRulesHash
    lockdown,   \* the agent's emergencyLockdown
    policyMap   \* the agent's policyMap

watcherVars ==
    <<config, file, phase, locked, timer, lastHash, lockdown, policyMap>>

Phases == {"boot", "starting", "reading", "up", "stopping", "exited"}

Init ==
    /\ config \in Configs
    /\ file \in Documents
    /\ phase = "boot"
    /\ locked = FALSE
    /\ timer = FALSE
    /\ lastHash = NoHash
    /\ lockdown = FALSE
    /\ policyMap = EmptyRules

-----------------------------------------------------------------------------
(* What the watcher does with a document. *)

\* Mutant: a signature that fails is not looked at.
Verifies_AnyJson(doc) == doc \notin {Absent, NullDoc}

\* _loadAndVerify returns the rules, throws, or returns null.
Verifies(doc) == doc \in Rulesets
Throws(doc)   == doc = NullDoc

\* Mutant: a file that cannot be read is taken for a passing condition.
Rejects_IgnoresAbsent(doc) == doc = Malformed

Rejects(doc) == ~Verifies(doc) /\ ~Throws(doc)

\* Mutant: entering lockdown drops the rules.
EnterLockdown_DropsRules ==
    /\ locked' = TRUE
    /\ lockdown' = TRUE
    /\ policyMap' = EmptyRules
    /\ UNCHANGED lastHash

\* this.locked = true and onTamperDetected().
EnterLockdown ==
    /\ locked' = TRUE
    /\ lockdown' = TRUE
    /\ UNCHANGED <<lastHash, policyMap>>

\* Mutant: the new rules are applied and their hash is not remembered.
ApplyRules_ForgetsHash(rules) ==
    /\ policyMap' = rules
    /\ UNCHANGED <<lastHash, locked, lockdown>>

\* Mutant: the change is noted and the agent's map is not rebuilt.
ApplyRules_ForgetsMap(rules) ==
    /\ lastHash' = rules
    /\ UNCHANGED <<policyMap, locked, lockdown>>

\* _lastRulesHash = newHash and onValidChange(rules), which rebuilds policyMap.
ApplyRules(rules) ==
    /\ lastHash' = rules
    /\ policyMap' = rules
    /\ UNCHANGED <<locked, lockdown>>

Exit ==
    /\ phase' = "exited"
    /\ timer' = FALSE
    /\ UNCHANGED <<locked, lastHash, lockdown, policyMap>>

-----------------------------------------------------------------------------
(* The agent's bootstrap and the watcher's start(). *)

\* assertProductionKeyConfig: refuse the public key in production.
KeyGuard ==
    /\ phase = "boot"
    /\ IF config.production /\ config.devKey
         THEN Exit
         ELSE /\ phase' = "starting"
              /\ UNCHANGED <<locked, timer, lastHash, lockdown, policyMap>>
    /\ UNCHANGED <<config, file>>

\* start() up to the read: an absent file ends it with no timer.
StartLooks ==
    /\ phase = "starting"
    /\ \/ /\ file = Absent
          /\ phase' = "up"
          /\ UNCHANGED <<locked, timer, lastHash, lockdown, policyMap>>
       \/ /\ file # Absent
          /\ config.devKey
          /\ Exit
       \/ /\ file # Absent
          /\ ~config.devKey
          /\ phase' = "reading"
          /\ UNCHANGED <<locked, timer, lastHash, lockdown, policyMap>>
    /\ UNCHANGED <<config, file>>

\* The rest of start(): the file is read again, and may have changed.
StartVerifies ==
    /\ phase = "reading"
    /\ \/ /\ Verifies(file)
          /\ ApplyRules(file)
          /\ timer' = TRUE
          /\ phase' = "up"
       \/ /\ Throws(file)
          /\ Exit
       \/ /\ Rejects(file)
          /\ EnterLockdown
          /\ phase' = "up"
          /\ UNCHANGED timer
    /\ UNCHANGED <<config, file>>

-----------------------------------------------------------------------------
(* The interval, and the end of the process. *)

\* Mutant: a locked watcher goes on verifying.
TickDue_WhenLocked == phase = "up" /\ timer

TickDue == phase = "up" /\ timer /\ ~locked

\* One tick; a throw reaches the host's handler or ends the process.
Tick ==
    /\ TickDue
    /\ \/ /\ Verifies(file)
          /\ file # lastHash
          /\ ApplyRules(file)
          /\ UNCHANGED <<phase, timer>>
       \/ /\ Throws(file)
          /\ ~config.hostCatches
          /\ Exit
       \/ /\ Rejects(file)
          /\ EnterLockdown
          /\ UNCHANGED <<phase, timer>>
    /\ UNCHANGED <<config, file>>

\* stop(), the first thing the agent's shutdown does.
Stop ==
    /\ phase = "up"
    /\ phase' = "stopping"
    /\ timer' = FALSE
    /\ UNCHANGED <<config, file, locked, lastHash, lockdown, policyMap>>

\* The process ends: after shutdown's flush, or killed at any point.
ProcessEnds ==
    /\ phase # "exited"
    /\ Exit
    /\ UNCHANGED <<config, file>>

\* An operator, a deploy or a failed write changes the file.
FileChanges ==
    /\ file' \in Documents \ {file}
    /\ UNCHANGED <<config, phase, locked, timer, lastHash, lockdown, policyMap>>

Watch == KeyGuard \/ StartLooks \/ StartVerifies \/ Tick

Next == Watch \/ Stop \/ ProcessEnds \/ FileChanges

Spec == Init /\ [][Next]_watcherVars

\* Startup is straight-line code and setInterval keeps ticking; nobody has to
\* touch the file or stop the process.
FairSpec == Spec /\ WF_watcherVars(Watch)

-----------------------------------------------------------------------------
TypeOK ==
    /\ config \in Configs
    /\ file \in Documents
    /\ phase \in Phases
    /\ locked \in BOOLEAN
    /\ timer \in BOOLEAN
    /\ lastHash \in Rulesets \cup {NoHash}
    /\ lockdown \in BOOLEAN
    /\ policyMap \in Rulesets \cup {EmptyRules}

\* The rules in force are the ones whose hash the watcher remembers, so that
\* comparing hashes on a tick decides correctly whether to hot-reload: a
\* missed update of either would make the next change back look like no change.
MapMatchesHash ==
    policyMap = IF lastHash = NoHash THEN EmptyRules ELSE lastHash

\* The watcher's lock and the agent's lockdown never disagree, and a watcher
\* that keeps ticking has verified at least one policy.
LockReachesAgent ==
    /\ lockdown = locked
    /\ timer => lastHash # NoHash

\* Once in lockdown the rules are frozen: a tick that runs after a good file
\* came back neither hot-reloads it nor lifts the lockdown.
LockdownIsFinal ==
    [][lockdown => lockdown' /\ policyMap' = policyMap]_watcherVars

\* Rules take effect only in the step that verified them, while unlocked; and
\* a start that saw a file ends with its rules or in lockdown, also when the
\* file changed or vanished before it was read.
OnlyVerifiedRulesApply ==
    [][/\ policyMap' # policyMap => policyMap' = file /\ ~lockdown'
       /\ phase = "reading" /\ phase' = "up" => lockdown' \/ policyMap' = file]_watcherVars

\* A file that stays unreadable or badly signed while the interval keeps
\* ticking ends in lockdown.
BadFileLocks ==
    (<>[](file \in {Absent, Malformed}) /\ []<>timer) => <>lockdown

\* A signed file that stays is applied, unless an earlier bad one was seen.
UpdateApplies ==
    \A rules \in Rulesets :
        (<>[](file = rules) /\ []<>timer) => <>[](lockdown \/ policyMap = rules)

-----------------------------------------------------------------------------
(* What the repository says of the watcher that the code does not do. *)

\* policy-watcher.js, on _loadAndVerify: "Fail-closed: unsigned, malformed, or
\* tampered policies return null", and null locks the agent.
NullDocLocks ==
    (<>[](file = NullDoc) /\ []<>timer) => <>lockdown
=============================================================================
