---------------------------- MODULE MCActivation ----------------------------
(* Instances of Activation.  The events are alike, and so are the user's   *)
(* pieces of text.                                                         *)
EXTENDS Activation, TLC

CONSTANTS e1, e2, intro, rules

TwoEvents == {e1, e2}
OneHook == {"linter"}
TwoPieces == {intro, rules}
OneObjective == {"fix"}
NodeRepo == {".git", "package.json", "pnpm-lock.yaml", "AGENTS.md"}
TwoHosts == {PreflightCheckId \ {"network_npm_registry"}, PreflightCheckId \ {"node_available"}}
Symmetric == Permutations(TwoEvents) \union Permutations(TwoPieces)
=============================================================================
