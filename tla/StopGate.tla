------------------------------ MODULE StopGate ------------------------------
(***************************************************************************)
(* The two deciders a claim of being done passes.  The evidence router     *)
(* (kernel/evidence/index.ts) grades submitted artifacts into four levels  *)
(* and never decides readiness; an artifact is its kind and whether it     *)
(* carries a non-empty reference, for artifact ids and the text of a       *)
(* reference play no part in grading.  The stop/continue gate              *)
(* (kernel/stop-continue-gate/index.ts) alone decides between CONTINUE,    *)
(* STOP_BLOCKED and STOP_DONE; reason codes and the wording of the next    *)
(* actions are left out.                                                   *)
(***************************************************************************)
EXTENDS FiniteSets

Levels == {"NAVIGATION", "INTERACTION", "OUTCOME", "POST_ACTION"}

Kinds == {"http_status_ok", "redirect", "ui_action_accepted", "test_passed",
          "screenshot", "user_confirmed", "persisted_state_change",
          "source_of_truth_readback", "aftermath_correct", "fixture"}

(* "rejected" stands for the null grade of a simulated artifact.           *)
KIND_MAX ==
    [k \in Kinds |->
        CASE k = "http_status_ok" -> "NAVIGATION"
          [] k \in {"redirect", "ui_action_accepted", "test_passed",
                    "screenshot", "user_confirmed"} -> "INTERACTION"
          [] k \in {"persisted_state_change",
                    "source_of_truth_readback"} -> "OUTCOME"
          [] k = "aftermath_correct" -> "POST_ACTION"
          [] k = "fixture" -> "rejected"]

Artifacts == [kind : Kinds, hasRef : BOOLEAN]
Graded == [level : Levels \union {"rejected"}, hasRef : BOOLEAN]

gradeArtifact(a) == [level |-> KIND_MAX[a.kind], hasRef |-> a.hasRef]

gradeAll(artifacts) == {gradeArtifact(a) : a \in artifacts}

usable(graded) == {g \in graded : g.level # "rejected"}

levelsPresent(graded) == {g.level : g \in usable(graded)}

isReadyEligible(graded) == {"OUTCOME", "POST_ACTION"} \subseteq levelsPresent(graded)

(* One usable item without a reference makes the whole claim implausible.  *)
plausibleForReady(graded) ==
    /\ usable(graded) # {}
    /\ \A g \in usable(graded) : g.hasRef
-----------------------------------------------------------------------------
Decisions == {"CONTINUE", "STOP_BLOCKED", "STOP_DONE"}

Ready(input) ==
    /\ isReadyEligible(input.graded)
    /\ plausibleForReady(input.graded)
    /\ ~input.reviewerNoGo
    /\ ~input.environmentCompromised

decide(input) ==
    CASE input.policyVerdict \in {"block", "needs_approval"} -> "STOP_BLOCKED"
      [] input.policyVerdict = "allow" /\ Ready(input) -> "STOP_DONE"
      [] OTHER -> IF input.stopConditionMet THEN "STOP_BLOCKED" ELSE "CONTINUE"
=============================================================================
