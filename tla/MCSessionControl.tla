-------------------------- MODULE MCSessionControl --------------------------
(* Instances of SessionControl for TLC.  "ui" is in scope, "auth" is out   *)
(* of scope and sensitive; the gate would let both be written.             *)
EXTENDS SessionControl, TLC

CONSTANTS h1, h2

TwoHooks == {h1, h2}
OneHook == {h1}
HookSymmetry == Permutations(TwoHooks)
OneSession == {1}
TwoSessions == {1, 2}
TwoFiles == {"ui", "auth"}
Ui == {"ui"}
Auth == {"auth"}
Wipe == {"wipe"}
AllRouted == {TRUE}
NoSecret == {FALSE}
AnySecret == {TRUE, FALSE}
SomeRouted == {TRUE, FALSE}
NoneRouted == {FALSE}
AllEvents == {"edit", "bash", "unknown", "watch", "evidence", "PostToolUse", "SessionEnd"}
RaceEvents == {"edit", "bash", "watch", "evidence", "SessionEnd"}
Tools == {"edit", "read", "unknown"}
EditsOnly == {"edit"}
TestEvidence == {{"test_passed"}}
=============================================================================
