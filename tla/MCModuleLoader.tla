-------------------------- MODULE MCModuleLoader ---------------------------
(***************************************************************************)
(* ModuleLoader for TLC: two files of one package, which is installed under*)
(* an alias of its registry name.                                          *)
(***************************************************************************)
EXTENDS ModuleLoader
CONSTANTS a, b, clean, dirty

MCPath == {a, b}
MCContent == {clean, dirty}
MCDirty == {dirty}
\* A clean file may read a secret and send something, too far apart to be
\* correlated in one file: two such files are a pair across files.
MCSplit == {<<clean, clean>>}
MCKeys == {"a@1:index.js", "a@1:lib/index.js", "a", "index.js",
           "react@1:index.js", "react@1:lib/index.js"}

MCIdentity ==
    [p \in MCPath |->
        IF p = a
          THEN [canonical |-> "a@1:index.js", package |-> "a",
                base |-> "index.js", manifest |-> "react@1:index.js"]
          ELSE [canonical |-> "a@1:lib/index.js", package |-> "a",
                base |-> "index.js", manifest |-> "react@1:lib/index.js"]]

NoRules == [k \in {} |-> "OBSERVE"]
QuarantineBase == [k \in {"index.js"} |-> "QUARANTINE"]
\* A rule on the alias, a stricter one on b's name in the manifest, and on a a
\* value the code does not know.
AliasAndTypo ==
    [k \in {"a@1:index.js", "a", "react@1:lib/index.js"} |->
        CASE k = "a@1:index.js" -> "UNRECOGNISED"
          [] k = "a" -> "OBSERVE"
          [] OTHER -> "BLOCK"]

MCConfigs == {[production |-> FALSE, devKey |-> FALSE, hostCatches |-> FALSE]}
MCRulesets == {QuarantineBase, AliasAndTypo}
NoPaths == {}
=============================================================================
