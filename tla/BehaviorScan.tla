---------------------------- MODULE BehaviorScan ----------------------------
(***************************************************************************)
(* BehaviorTracker.analyzeModule (packages/fw-agent/src/behavior-          *)
(* tracker.js): the keyword pre-screener that lets most modules return     *)
(* early, the sanitized text whose offsets are those of the raw one, and   *)
(* the rules, which correlate the positions of several signals.            *)
(*                                                                         *)
(* A signal's regex is a sequence of code units between which white space  *)
(* may stand, and which cannot overlap itself.                             *)
(***************************************************************************)
EXTENDS AhoCorasick, SignalSweep

CONSTANTS
    Modules,       \* the modules scanned: text, comments, AST signals
    Pattern,       \* what each signal's regex matches
    Keywords,      \* BEHAVIOR_PRESCREENER_KEYWORDS
    Paddings       \* the blanks and newlines that may be added to a text

Sanitized == {"sensitiveRead", "sensitivePath", "sensitiveConfigPath", "npmrcRead",
              "npmrcToken", "codeDecode"}
Raw       == {"hostOption", "hardcodedEgressNonRegistry", "envRead", "networkEgress",
              "dynamicCode", "processExec", "dynamicRequire"}
Signal    == Sanitized \cup Raw

\* What the AST pass can resolve by itself.
AstSignal == {"dynamicCode", "processExec", "codeDecode", "sensitivePath"}

ASSUME ScanAssumption ==
    /\ DOMAIN Pattern = Signal
    /\ \A m \in Modules :
         /\ m.content \in Seq(Nat)
         /\ m.ast \subseteq [signal : Signal, pos : Offsets(m.content)]
    /\ Paddings \subseteq Seq(Blanks \cup {Newline})

VARIABLES
    content,     \* the module's text
    blanked,     \* offsets in comments, specifiers and URLs
    astSignals,  \* [signal, pos] that the AST pass resolved
    stage,       \* "screen", "rules" or "done"
    rule,        \* the rule that is looked at
    signals,     \* moduleSignals.get(filename)
    found        \* the rules that fired

scanVars == <<content, blanked, astSignals, stage, rule, signals, found>>

-----------------------------------------------------------------------------
(* The texts. *)

\* blankKeep: spaces for everything but newlines, so the offsets stay.
ScanSrc ==
    [i \in DOMAIN content |->
        IF i - 1 \in blanked /\ content[i] # Newline THEN 32 ELSE content[i]]

White == (9..13) \cup {32, 160}

WithoutWhite(text) ==
    LET kept[i \in 0..Len(text)] ==
          IF i = 0 THEN <<>>
          ELSE IF text[i] \in White THEN kept[i - 1]
          ELSE Append(kept[i - 1], text[i])
    IN  kept[Len(text)]

\* The regex of `pattern' matches at `pos'.
MatchesAt(pattern, text, pos) ==
    \E last \in pos..(Len(text) - 1) :
        /\ At(text, pos) \notin White /\ At(text, last) \notin White
        /\ WithoutWhite(SubSeq(text, pos + 1, last + 1)) = pattern

MatchAllPositions(text, pattern) ==
    {pos \in Offsets(text) : MatchesAt(pattern, text, pos)}

-----------------------------------------------------------------------------
(* The rules of analyzeModule, in its order.  A rule is looked at when for *)
(* every set of `needs' one of its signals is present and none of `absent' *)
(* is; it fires when its groups are correlated (a rule without groups at   *)
(* once), and `otherwise' is what is reported when they are not.           *)

Rule(name, needs, groups) ==
    [name |-> name, needs |-> needs, absent |-> {}, groups |-> groups, otherwise |-> {}]

Together(name, one, other) == Rule(name, {{one}, {other}}, <<{one}, {other}>>)

Theft == {"hardcodedEgressNonRegistry", "hostOption"}

\* The code gives the first three one name.
Rules == <<
    Together("CREDENTIAL_EXFILTRATION", "sensitivePath", "networkEgress"),
    [Rule("NPMRC_EXFILTRATION", {{"npmrcRead"}, {"networkEgress"}},
          <<{"npmrcRead"}, {"networkEgress"}, Theft \cup {"npmrcToken"}>>)
        EXCEPT !.otherwise = {"NPMRC_NETWORK_EGRESS"}],
    Rule("CONFIG_EXFILTRATION", {{"sensitiveConfigPath"}, {"networkEgress"}, Theft},
          <<{"sensitiveConfigPath"}, {"networkEgress"}, Theft>>),
    [Rule("ENV_NETWORK_EGRESS", {{"envRead"}, {"networkEgress"}}, <<>>)
        EXCEPT !.absent = {"sensitiveRead", "sensitivePath"}],
    Together("DYNAMIC_CODE_EXEC_CHAIN", "dynamicCode", "processExec"),
    Together("OBFUSCATED_CODE_EXECUTION", "dynamicCode", "codeDecode"),
    Together("REMOTE_FETCH_EXEC", "networkEgress", "dynamicCode"),
    Rule("DYNAMIC_MODULE_LOAD", {{"dynamicRequire"}}, <<>>) >>

Triggered(r, present) ==
    /\ \A any \in r.needs : any \cap present # {}
    /\ r.absent \cap present = {}

-----------------------------------------------------------------------------
(* analyzeModule(filename, content, packageKey, astSignals) *)

ScanInit ==
    /\ \E m \in Modules :
         content = m.content /\ blanked = m.blanked /\ astSignals = m.ast
    /\ stage = "screen"
    /\ rule = 1
    /\ signals = {}
    /\ found = {}
    /\ SweepInit

AstPositions(signal) == {s.pos : s \in {a \in astSignals : a.signal = signal}}

\* Mutant: the positions are looked for in the raw text.
Positions_Raw(signal) ==
    MatchAllPositions(content, Pattern[signal]) \cup AstPositions(signal)

\* The position-source rule: each signal in the text its flag came from.
Positions(signal) ==
    MatchAllPositions(IF signal \in Sanitized THEN ScanSrc ELSE content, Pattern[signal])
        \cup AstPositions(signal)

Groups(r) == [g \in DOMAIN r.groups |-> UNION {Positions(s) : s \in r.groups[g]}]

Flagged(among) == {s \in among : Positions(s) # {}}

KeywordsNoWs == [k \in DOMAIN Keywords |-> WithoutWhite(Keywords[k])]

\* "Literal substrings that are a superset of all SIGNAL_PATTERN regexes": what
\* a regex matches in the raw text ends with a keyword somewhere, but for the
\* one that the early return tries itself.
ASSUME KeywordsAssumption ==
    /\ Keywords \in Seq(Seq(KeywordCodes))
    /\ \A k \in DOMAIN Keywords : KeywordsNoWs[k] # <<>>
    /\ \A signal \in Raw \ {"dynamicRequire"} :
         \E k \in DOMAIN Keywords : \E i \in 1..Len(Pattern[signal]) :
            EndsAt(KeywordsNoWs[k], Pattern[signal], i)

Prescreener     == Automaton(Keywords)
PrescreenerNoWs == Automaton(KeywordsNoWs)

Screened ==
    /\ SearchInsensitive(Prescreener, content) = NoMatch
    /\ SearchInsensitive(PrescreenerNoWs, WithoutWhite(content)) = NoMatch

\* Mutant: the early return looks for nothing by itself.
ReturnsEarly_WithoutRequire ==
    /\ stage = "screen"
    /\ astSignals = {}
    /\ Screened
    /\ stage' = "done"
    /\ UNCHANGED <<content, blanked, astSignals, rule, signals, found, sweepVars>>

\* No keyword and no AST signal: every regex but one is taken not to match.
ReturnsEarly ==
    /\ stage = "screen"
    /\ astSignals = {}
    /\ Screened
    /\ signals' = Flagged({"dynamicRequire"})
    /\ found' = IF signals' # {} THEN {"DYNAMIC_MODULE_LOAD"} ELSE {}
    /\ stage' = "done"
    /\ UNCHANGED <<content, blanked, astSignals, rule, sweepVars>>

RecordsSignals ==
    /\ stage = "screen"
    /\ astSignals # {} \/ ~Screened
    /\ signals' = Flagged(Signal)
    /\ stage' = "rules"
    /\ UNCHANGED <<content, blanked, astSignals, rule, found, sweepVars>>

NextRule ==
    IF rule = Len(Rules) THEN stage' = "done" /\ UNCHANGED rule
                         ELSE rule' = rule + 1 /\ UNCHANGED stage

\* A rule that is not triggered, or needs no correlation.
PassesRule ==
    /\ stage = "rules" /\ sweep = "off"
    /\ LET r == Rules[rule]
       IN  \/ ~Triggered(r, signals) /\ UNCHANGED found
           \/ Triggered(r, signals) /\ r.groups = <<>> /\ found' = found \cup {r.name}
    /\ NextRule
    /\ UNCHANGED <<content, blanked, astSignals, signals, sweepVars>>

Correlates ==
    /\ stage = "rules" /\ sweep = "off"
    /\ LET r == Rules[rule]
       IN  /\ Triggered(r, signals) /\ r.groups # <<>>
           /\ StartSweep(Groups(r), SeparatorPrefix(ScanSrc))
    /\ UNCHANGED scanVars

\* withinContext returned.
EndsRule ==
    /\ sweep \in {"yes", "no"}
    /\ found' = found \cup (IF sweep = "yes" THEN {Rules[rule].name}
                                              ELSE Rules[rule].otherwise)
    /\ NextRule
    /\ EndSweep
    /\ UNCHANGED <<content, blanked, astSignals, signals>>

ScanNext ==
    \/ ReturnsEarly \/ RecordsSignals \/ PassesRule \/ Correlates \/ EndsRule
    \/ (CountRight \/ ShrinkLeft \/ Decide) /\ UNCHANGED scanVars

ScanSpec == ScanInit /\ [][ScanNext]_<<scanVars, sweepVars>>

-----------------------------------------------------------------------------
\* Where a signal really is: a sanitized one outside what is blanked.
Occurrences(signal) ==
    LET text == IF signal \in Raw THEN content
                ELSE [i \in DOMAIN content |-> IF i - 1 \in blanked THEN 32 ELSE content[i]]
    IN  MatchAllPositions(text, Pattern[signal]) \cup AstPositions(signal)

Breaks(r) ==
    Correlated(ScanSrc, [g \in DOMAIN r.groups |-> UNION {Occurrences(s) : s \in r.groups[g]}])

Reported(r) ==
    IF ~Triggered(r, {s \in Signal : Occurrences(s) # {}}) THEN {}
    ELSE IF r.groups = <<>> \/ Breaks(r) THEN {r.name}
    ELSE r.otherwise

\* A module is reported for exactly the rules it breaks, those whose signals
\* stand within both caps of each other: neither the pre-screener's early
\* return, nor the flags, nor the sweep over the window loses or adds one,
\* wherever white space, comments and statement boundaries stand.
ReportedExactly ==
    stage = "done" => found = UNION {Reported(Rules[r]) : r \in DOMAIN Rules}

-----------------------------------------------------------------------------
(* White space or a comment put into the module: blanks and newlines in    *)
(* the sanitized text.  White space that buildSeparatorPrefix does not know*)
(* as such, a form feed or a no-break space, reads as content and is left  *)
(* out.                                                                    *)

Padded(text, at, padding) ==
    SubSeq(text, 1, at) \o padding \o SubSeq(text, at + 1, Len(text))

\* Only blanks stand between `at' and the end of its line, which is before `to'.
LineEndsIn(text, at, to) ==
    \E nl \in at..(to - 1) :
        At(text, nl) = Newline /\ \A p \in at..(nl - 1) : At(text, p) \in Blanks

\* The padding ends a line that is open where it stands, and that the text
\* itself does not end there.
EndsOpenLine(text, at, padding, to) ==
    /\ \E i \in 1..Len(padding) : padding[i] = Newline
    /\ LineOpen(text, at)
    /\ ~LineEndsIn(text, at, to)

\* Padding, however many lines it has, moves what follows it by one boundary
\* when it ends a line that is open there, and by none otherwise; what stands
\* before it, it does not move.  Padding at several places costs what each of
\* them costs.
PaddingCostsOpenLine ==
    stage = "screen" =>
        \A at \in 0..Len(content), padding \in Paddings :
            LET before == SeparatorPrefix(ScanSrc)
                after  == SeparatorPrefix(Padded(ScanSrc, at, padding))
            IN  /\ \A lo \in 0..at : after[lo] = before[lo]
                /\ \A hi \in at..Len(content) :
                     after[hi + Len(padding)] =
                        before[hi] + IF EndsOpenLine(ScanSrc, at, padding, hi) THEN 1 ELSE 0

\* "separator-count is unconditionally immune to comment/whitespace padding,
\* at ANY size" (behavior-tracker.js:203): no padding between the offsets of two
\* signals moves them apart by a boundary.
ImmuneToPadding ==
    stage = "screen" =>
        \A at \in 0..Len(content), padding \in Paddings :
            LET before == SeparatorPrefix(ScanSrc)
                after  == SeparatorPrefix(Padded(ScanSrc, at, padding))
            IN  \A lo, hi \in UNION {Positions(s) : s \in Signal} :
                    lo < at /\ at <= hi =>
                        after[hi + Len(padding)] - after[lo] = before[hi] - before[lo]

\* The automaton returns the longest of the keywords that end first.
SearchExact ==
    stage = "screen" =>
        SearchInsensitive(Prescreener, content) = FirstMatch(Keywords, content)
=============================================================================
