------------------------------ MODULE LoadGate ------------------------------
(***************************************************************************)
(* What the firewall promises about module code, with none of the          *)
(* mechanism: code is admitted one module version at a time, only while    *)
(* the gate is open and only if the rules in force allow that version;     *)
(* rules change only while the gate is open; and a closed gate stays       *)
(* closed.  ModuleLoader implements this specification.                    *)
(***************************************************************************)
CONSTANTS
    Path,       \* module files
    Content,    \* what a file may hold
    Rules,      \* the rule sets that may be in force
    FirstRules, \* the rule set in force at the start
    Allowed     \* the <<rules, path, content>> that may be admitted

VARIABLES
    open,   \* the gate admits code
    rules,  \* the rule set in force
    code    \* the module versions admitted so far

gateVars == <<open, rules, code>>

Init ==
    /\ open = TRUE
    /\ rules = FirstRules
    /\ code = {}

Admit(p, c) ==
    /\ open
    /\ <<rules, p, c>> \in Allowed
    /\ code' = code \cup {<<p, c>>}
    /\ UNCHANGED <<open, rules>>

Reload(r) ==
    /\ open
    /\ rules' = r
    /\ UNCHANGED <<open, code>>

Close ==
    /\ open' = FALSE
    /\ UNCHANGED <<rules, code>>

Next ==
    \/ \E p \in Path, c \in Content : Admit(p, c)
    \/ \E r \in Rules : Reload(r)
    \/ Close

Spec == Init /\ [][Next]_gateVars
=============================================================================
