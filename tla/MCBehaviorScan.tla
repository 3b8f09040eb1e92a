--------------------------- MODULE MCBehaviorScan ---------------------------
(***************************************************************************)
(* BehaviorScan for TLC: every short text over a small alphabet.  Signals  *)
(* share patterns, so that every rule can fire in a text of five code      *)
(* units, and the patterns overlap, so that two signals of two code units  *)
(* each fit with white space inside both.                                  *)
(***************************************************************************)
EXTENDS BehaviorScan

ab   == <<97, 98>>
ba   == <<98, 97>>
h    == <<104>>
q    == <<113>>
bah  == <<98, 97, 104>>
bbaa == <<98, 98, 97, 97>>

MCPattern == [
    sensitiveRead |-> bbaa, npmrcToken |-> h,
    sensitivePath |-> ab, sensitiveConfigPath |-> ab, npmrcRead |-> ab, codeDecode |-> ab,
    networkEgress |-> ba, processExec |-> ba, envRead |-> ba,
    hostOption |-> h, dynamicCode |-> h, hardcodedEgressNonRegistry |-> bah,
    dynamicRequire |-> q]

MCKeywords == <<bbaa, ab, ba, h>>

Texts(alphabet, longest) == UNION {[1..n -> alphabet] : n \in 1..longest}

Plain == {97, 98, 104, 59, 10, 32}

\* Any text of five code units; shorter ones with a comment in them, with an
\* AST signal, with capitals and non-ASCII letters, with the require.
MCModules ==
    [content : Texts(Plain, 5), blanked : {{}}, ast : {{}}]
    \cup {m \in [content : Texts({97, 98, 104, 59, 10}, 5), blanked : {{1}, {1, 2}}, ast : {{}}] :
            Len(m.content) = 5}
    \cup [content : Texts({97, 98, 59, 113}, 4), blanked : {{}},
          ast : {{}, {[signal |-> "dynamicCode", pos |-> 0]},
                 {[signal |-> "codeDecode", pos |-> 0]}}]
    \cup [content : Texts({65, 98, 225, 160, 125}, 4), blanked : {{}}, ast : {{}}]

\* Any two code units of white space; indented and CRLF lines, and many.
MCPaddings ==
    Texts({32, 10}, 2)
        \cup {<<9>>, <<13, 10>>, <<13, 10, 9, 13, 10>>, <<10, 32, 32, 10, 32, 10, 10, 9>>}
=============================================================================
