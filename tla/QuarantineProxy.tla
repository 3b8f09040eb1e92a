-------------------------- MODULE QuarantineProxy --------------------------
(***************************************************************************)
(* The stub a quarantined module exports (packages/fw-agent/src/           *)
(* quarantine.js): a proxy whose traps pretend that there is nothing to    *)
(* see, over a real function that consumers may harden through it.         *)
(* JavaScript compares what a trap answers with the function behind it and *)
(* throws a TypeError when the two cannot both be.                         *)
(*                                                                         *)
(* A property is a partial record: a data property has a value and is      *)
(* writable or not, an accessor has functions or has none (get and set     *)
(* are not told apart).  The descriptor of a definition is such a record   *)
(* with any of its fields missing.  Enumerability is left out.             *)
(***************************************************************************)
EXTENDS Naturals, TLC

CONSTANTS
    MaxIntercepts,  \* bound of the model: operations on the stub
    Burst           \* intercepts in the first millisecond that are recorded

\* "name" stands for length too, "arguments" for caller, "then" for the two
\* symbols that are never reported, "other" for any name.
Key == {"prototype", "name", "arguments", "then", "other"}
Hidden == {"then"}

VARIABLES
    target,          \* own properties of the function behind the proxy
    extensible,
    interceptCount,
    rateLimitCount,
    early,           \* less than a millisecond has passed since the stub was made
    outcome          \* of the last operation: its trap, and whether it was lawful

quarantineVars ==
    <<target, extensible, interceptCount, rateLimitCount, early, outcome>>

\* function QuarantinedModule() {}, in a file that is not in strict mode.
QuarantinedModule ==
    [p \in {"prototype", "name", "arguments"} |->
        [configurable |-> p = "name", writable |-> p = "prototype", value |-> "own"]]

QuarantineInit ==
    /\ target = QuarantinedModule
    /\ extensible = TRUE
    /\ interceptCount = 0 /\ rateLimitCount = 0 /\ early = TRUE
    /\ outcome = [trap |-> "none", lawful |-> TRUE]

-----------------------------------------------------------------------------
(* The function behind the proxy, as JavaScript defines it. *)

Owns(p) == p \in DOMAIN target
Says(d, field, b) == field \in DOMAIN d /\ d[field] = b
IsAccessor(d) == "functions" \in DOMAIN d
IsData(d) == {"writable", "value"} \cap DOMAIN d # {}
Pinned(p) == Owns(p) /\ ~target[p].configurable
ReadOnly(p) == Owns(p) /\ Says(target[p], "writable", FALSE)

Descriptor ==
    LET flags(F) == UNION {[D -> BOOLEAN] : D \in SUBSET F}
    IN  flags({"configurable", "functions"}) \cup
        {v @@ d : v \in {<<>>, [value |-> "given"]}, d \in flags({"configurable", "writable"})}

\* ValidateAndApplyPropertyDescriptor: what a definition needs, and leaves.
Accepts(p, d) ==
    /\ extensible \/ Owns(p)
    /\ Pinned(p) =>
         LET old == target[p]
         IN  /\ ~Says(d, "configurable", TRUE)
             /\ IF IsAccessor(old)
                  THEN ~IsData(d) /\ (IsAccessor(d) => d.functions = old.functions)
                  ELSE /\ ~IsAccessor(d)
                       /\ ReadOnly(p) =>
                            /\ ~Says(d, "writable", TRUE)
                            /\ "value" \in DOMAIN d => d.value = old.value

Defined(p, d) ==
    LET kept == IF Owns(p) THEN target[p] ELSE <<>>
        fields == {"configurable"} \cup
                  IF IsAccessor(d) \/ (IsAccessor(kept) /\ ~IsData(d)) THEN {"functions"}
                  ELSE {"writable", "value"}
        none(f) == IF f = "value" THEN "undefined" ELSE FALSE
    IN  [f \in fields |-> IF f \in DOMAIN d THEN d[f]
                          ELSE IF f \in DOMAIN kept THEN kept[f] ELSE none(f)]

\* Reflect.defineProperty(target, p, d), answering ok.
Forwards(p, d, ok) ==
    /\ ok = Accepts(p, d)
    /\ target' = IF ok THEN [q \in DOMAIN target \cup {p} |->
                              IF q = p THEN Defined(p, d) ELSE target[q]]
                 ELSE target

-----------------------------------------------------------------------------
(* What a trap may answer (the invariants of proxies). *)

\* p reported as absent, or as deleted.
MayHide(p) == ~Owns(p) \/ (extensible /\ ~Pinned(p))

LawfulKeys(keys) ==
    IF extensible THEN \A p \in Key : Pinned(p) => p \in keys
                  ELSE keys = DOMAIN target

LawfulDefine(p, d, ok) ==
    ok => IF p \in DOMAIN target'
            THEN /\ Accepts(p, d)
                 /\ Says(d, "configurable", FALSE) => ~target'[p].configurable
            ELSE extensible /\ ~Says(d, "configurable", FALSE)

LawfulGet(p, v) ==
    Pinned(p) => /\ ReadOnly(p) => v = target[p].value
                 /\ Says(target[p], "functions", FALSE) => v = "undefined"

LawfulSet(p, v, ok) ==
    ok /\ Pinned(p) => /\ ReadOnly(p) => v = target[p].value
                       /\ ~Says(target[p], "functions", FALSE)

-----------------------------------------------------------------------------
(* The traps of createProxy. *)

\* record(): the event is emitted unless the stub is new and busy.
Record ==
    /\ interceptCount < MaxIntercepts
    /\ interceptCount' = interceptCount + 1
    /\ rateLimitCount' = IF interceptCount' > Burst /\ early
                           THEN rateLimitCount + 1 ELSE rateLimitCount
    /\ UNCHANGED early

Answers(trap, lawful) == Record /\ outcome' = [trap |-> trap, lawful |-> lawful]

IsRealOwnKey(p) == Owns(p) /\ (~target[p].configurable \/ ~extensible)

\* new stub() makes another proxy of the same stub; the caller uses either.
Construct ==
    /\ Answers("construct", TRUE)
    /\ \/ target' = QuarantinedModule /\ extensible' = TRUE
       \/ UNCHANGED <<target, extensible>>

\* stub(), or a call of a function that get answered with.
Call == Answers("apply", TRUE) /\ UNCHANGED <<target, extensible>>

Get(p) ==
    LET v == IF p \in Hidden THEN "undefined"
             ELSE IF Pinned(p) /\ ReadOnly(p) THEN target[p].value ELSE "stub"
    IN  /\ IF p \in Hidden
             THEN /\ UNCHANGED <<interceptCount, rateLimitCount, early>>
                  /\ outcome' = [trap |-> "get", lawful |-> LawfulGet(p, v)]
             ELSE Answers("get", LawfulGet(p, v))
        /\ UNCHANGED <<target, extensible>>

\* Reflect.set of a pinned read-only property fails.
Set(p, v) ==
    /\ Answers("set", LawfulSet(p, v, ~(Pinned(p) /\ ReadOnly(p))))
    /\ UNCHANGED <<target, extensible>>

Has(p) ==
    /\ Answers("has", IsRealOwnKey(p) \/ MayHide(p))
    /\ UNCHANGED <<target, extensible>>

DeleteProperty(p) ==
    /\ Answers("deleteProperty", Pinned(p) \/ MayHide(p))
    /\ UNCHANGED <<target, extensible>>

DefineProperty(p, d) ==
    \E ok \in BOOLEAN :
        /\ IF Pinned(p) \/ Says(d, "configurable", FALSE) \/ ~extensible
             THEN Forwards(p, d, ok)
             ELSE ok = TRUE /\ UNCHANGED target
        /\ Answers("defineProperty", LawfulDefine(p, d, ok))
        /\ UNCHANGED extensible

OwnKeys ==
    /\ Answers("ownKeys", LawfulKeys({p \in Key : IsRealOwnKey(p)}))
    /\ UNCHANGED <<target, extensible>>

\* The real descriptor, or undefined.
GetOwnPropertyDescriptor(p) ==
    /\ Answers("getOwnPropertyDescriptor", IsRealOwnKey(p) \/ MayHide(p))
    /\ UNCHANGED <<target, extensible>>

\* There is no trap for it: the function itself stops growing.
PreventExtensions ==
    /\ extensible' = FALSE
    /\ outcome' = [trap |-> "none", lawful |-> TRUE]
    /\ UNCHANGED <<target, interceptCount, rateLimitCount, early>>

MillisecondPasses ==
    /\ early' = FALSE
    /\ UNCHANGED <<target, extensible, interceptCount, rateLimitCount, outcome>>

QuarantineNext ==
    \/ Construct \/ Call \/ OwnKeys \/ PreventExtensions \/ MillisecondPasses
    \/ \E p \in Key : Get(p) \/ Has(p) \/ DeleteProperty(p) \/ GetOwnPropertyDescriptor(p)
    \/ \E p \in Key, v \in {"own", "given"} : Set(p, v)
    \/ \E p \in Key, d \in Descriptor : DefineProperty(p, d)

QuarantineSpec == QuarantineInit /\ [][QuarantineNext]_quarantineVars

-----------------------------------------------------------------------------
\* The traps that report which keys the stub has, or their shape, answer what
\* JavaScript accepts, however a consumer has hardened the stub before.
ShapeTrapsAreLawful ==
    outcome.trap \in {"ownKeys", "getOwnPropertyDescriptor", "has",
                      "deleteProperty", "defineProperty"} => outcome.lawful
=============================================================================
