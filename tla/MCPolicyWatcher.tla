-------------------------- MODULE MCPolicyWatcher --------------------------
(* PolicyWatcher with rule sets and documents as model values. *)
EXTENDS PolicyWatcher
CONSTANTS r1, r2, r3
MCRulesets == {r1, r2, r3}
MCConfigs == [production : BOOLEAN, devKey : BOOLEAN, hostCatches : BOOLEAN]
=============================================================================
