---------------------------- MODULE WorkflowRadar ----------------------------
(***************************************************************************)
(* The radar: what the changed paths of a worktree say about the work a    *)
(* brief and a route profile describe (capabilities/workflow-radar), and   *)
(* the handoff made of it (capabilities/session-continuity).  All of it is *)
(* a function of the brief, the profile, the changed paths and the proof   *)
(* found.                                                                   *)
(***************************************************************************)
EXTENDS RouteProfile

RadarStates == {"ON_TRACK", "ON_TRACK_WITH_WARNINGS", "DRIFT_DETECTED", "NEEDS_EVIDENCE",
                "NEEDS_REVIEW", "BLOCKED", "UNAVAILABLE"}
RadarActions == {"continue_work", "run_validation", "produce_receipt", "summarize_and_handoff",
                 "ask_for_decision", "switch_to_guarded_mode", "stop_and_review", "unavailable"}

(* No capability of the repository writes a workspace map.                  *)
WorkspaceMapAvailable == FALSE

Reviewed(p) == p \in Marked.billing \cup Marked.secret \/ AuthOrDashboard(p)
Blocking(p) == Production(p)
Aside(p) == p \in Marked.generated \cup Marked.runtime

ActualMode(blocked, review, guarded, count) ==
    CASE blocked -> "blocked_needs_decision"
      [] ~blocked /\ review -> "human_review_required"
      [] ~blocked /\ ~review /\ guarded -> "guarded_high_risk"
      [] OTHER -> IF count >= 6 THEN "deep_reasoning"
                  ELSE IF count > 0 THEN "standard_reasoning" ELSE "simple_fast"

(* A stored profile that is less strict than the paths require.             *)
Mismatch(profiled, mode, actual) == profiled /\ ModeRank[mode] < ModeRank[actual]

Has(profiled, mode, m) == profiled /\ mode = m

(* Slip: missing evidence is asked for before drift is reported.            *)
SlipRadarState(git, blocked, review, drift, evidence, warnings) ==
    IF ~git THEN "UNAVAILABLE"
    ELSE IF blocked THEN "BLOCKED"
    ELSE IF review THEN "NEEDS_REVIEW"
    ELSE IF evidence THEN "NEEDS_EVIDENCE"
    ELSE IF drift THEN "DRIFT_DETECTED" ELSE "ON_TRACK_WITH_WARNINGS"

(* buildDecisionState.                                                      *)
RadarState(git, blocked, review, drift, evidence, warnings) ==
    IF ~git THEN "UNAVAILABLE"
    ELSE IF blocked THEN "BLOCKED"
    ELSE IF review THEN "NEEDS_REVIEW"
    ELSE IF drift THEN "DRIFT_DETECTED"
    ELSE IF evidence THEN "NEEDS_EVIDENCE"
    ELSE IF warnings # {} THEN "ON_TRACK_WITH_WARNINGS" ELSE "ON_TRACK"

(* buildRecommendedNextAction.                                              *)
RadarAction(git, blocked, review, mismatch, drift, noValidation, noEvidence, count) ==
    IF ~git THEN "unavailable"
    ELSE IF blocked THEN "stop_and_review"
    ELSE IF review \/ mismatch THEN "switch_to_guarded_mode"
    ELSE IF drift THEN "ask_for_decision"
    ELSE IF noValidation THEN "run_validation"
    ELSE IF noEvidence THEN "produce_receipt"
    ELSE IF count = 0 THEN "summarize_and_handoff" ELSE "continue_work"

(* fallbackWorkControls: without a brief and a profile the changed paths    *)
(* choose the capabilities.                                                 *)
FallbackWorkControls(changed, present) ==
    LET risks == {ClassifyPath(p, present).risk : p \in changed}
        sensitive == \E p \in changed : AuthOrDashboard(p)
    IN CapabilityRoute(
        [proof |-> IF changed = {} THEN "local" ELSE "tests",
         risk |-> IF risks = {} THEN "low" ELSE CHOOSE r \in risks : \A s \in risks : RiskRank[r] >= RiskRank[s],
         dashboard |-> sensitive, auth |-> sensitive, payment |-> changed \cap Marked.billing # {},
         publicCopy |-> changed \cap Marked.publicWeb # {}, contextLeft |-> 40])

(***************************************************************************)
(* buildWorkflowRadarAssessment                                            *)
(*   in.brief, in.profile   the artifacts used                             *)
(*   in.briefed, in.profiled  whether there is one                         *)
(*   in.source, in.task       where the task is from, and whose it is      *)
(*   in.git, in.changed       whether git answered, and the changed places *)
(*   in.verified, in.receipts whether a proof report verified anything,    *)
(*                            whether there is a receipt                   *)
(* What it finds comes first, then the record it makes of the findings.    *)
(* Evidence is always expected: every route of the work controls asks for  *)
(* some.                                                                    *)
(***************************************************************************)
Found(in) ==
    LET scope == IF in.briefed THEN in.brief.scope ELSE {}
        mode == IF in.profiled THEN in.profile.mode ELSE "simple_fast"
        acted == {p \in in.changed : ~Benign(p)}
        unexpected == IF in.briefed THEN {p \in acted : ~InExpectedScope(p, scope) /\ ~Aside(p)} ELSE {}
        noValidation == (\E p \in acted : NeedsValidation(p)) /\ ~in.verified
        noEvidence == acted # {} /\ ~in.receipts /\ in.verified
        blocked == (\E p \in acted : Blocking(p)) \/ Has(in.profiled, mode, "blocked_needs_decision")
        review == \/ blocked \/ \E p \in acted : Reviewed(p)
                  \/ Has(in.profiled, mode, "human_review_required")
        drift == unexpected # {} \/ \E p \in acted : Aside(p)
        actual == ActualMode(blocked, review, drift \/ noValidation \/ noEvidence, Cardinality(acted))
    IN [scope |-> scope, count |-> Cardinality(acted), noValidation |-> noValidation,
        noEvidence |-> noEvidence, blocked |-> blocked, review |-> review, drift |-> drift,
        required |-> actual, mismatch |-> Mismatch(in.profiled, mode, actual)]

(***************************************************************************)
(* The signals of an assessment: what was used, what was touched.  Paths   *)
(* that are benign count here.                                             *)
(***************************************************************************)
Signals(in, f) ==
    LET touched(m) == in.changed \cap Marked[m] # {}
    IN (IF in.briefed THEN {"context_brief_available", "expected_scope_available"} ELSE {})
       \cup (IF in.profiled THEN {"model_routing_profile_available"} ELSE {})
       \cup (IF in.changed # {} THEN {"changed_paths_detected"} ELSE {})
       \cup (IF in.briefed /\ \E p \in in.changed : ~InExpectedScope(p, f.scope)
             THEN {"unexpected_path_touched"} ELSE {})
       \cup (IF touched("generated") THEN {"generated_output_touched"} ELSE {})
       \cup (IF touched("runtime") THEN {"runtime_artifact_touched"} ELSE {})
       \cup (IF touched("release") THEN {"release_owned_path_touched"} ELSE {})
       \cup (IF \E p \in in.changed : Production(p) THEN {"production_sensitive_path_touched"} ELSE {})
       \cup (IF touched("billing") THEN {"billing_sensitive_path_touched"} ELSE {})
       \cup (IF touched("secret") THEN {"secret_sensitive_path_touched"} ELSE {})
       \cup (IF f.noValidation THEN {"validation_missing"} ELSE {})
       \cup (IF f.noEvidence THEN {"evidence_missing"} ELSE {})
       \cup (IF f.mismatch THEN {"work_mode_mismatch"} ELSE {})
       \cup (IF f.review THEN {"human_review_required"} ELSE {})

BuildAssessment(in) ==
    LET f == Found(in)
        evidence == f.noValidation \/ f.noEvidence
        warnings == (IF in.briefed THEN {} ELSE {"no_brief", "no_scope"})
                    \cup (IF in.profiled THEN {} ELSE {"no_profile"})
                    \cup (IF WorkspaceMapAvailable THEN {} ELSE {"no_map"})
                    \cup (IF f.noValidation THEN {"validation"} ELSE {})
                    \cup (IF f.noEvidence THEN {"evidence"} ELSE {})
                    \cup (IF f.mismatch THEN {"mode"} ELSE {})
    IN [task |-> in.task, source |-> in.source,
        state |-> RadarState(in.git, f.blocked, f.review /\ ~f.blocked, f.drift,
                             ~f.review /\ evidence, warnings),
        action |-> RadarAction(in.git, f.blocked, f.review /\ ~f.blocked, f.mismatch, f.drift,
                               f.noValidation, f.noEvidence, f.count),
        review |-> f.review, drift |-> f.drift,
        risk |-> IF f.blocked THEN "critical"
                 ELSE MaxRisk(IF f.review \/ f.drift \/ f.mismatch THEN "high"
                              ELSE IF evidence THEN "medium" ELSE "low",
                              PathRisk({ClassifyPath(p, in.present) : p \in in.changed})),
        scope |-> f.scope, truth |-> IF in.briefed THEN in.brief.truth ELSE {},
        mode |-> IF in.profiled THEN in.profile.mode ELSE "none", required |-> f.required,
        controls |-> IF in.profiled THEN in.profile.capabilities
                     ELSE IF in.briefed THEN in.brief.capabilities
                     ELSE FallbackWorkControls(in.changed, in.present),
        items |-> in.changed, noValidation |-> f.noValidation, noEvidence |-> f.noEvidence,
        warnings |-> warnings, signals |-> Signals(in, f)]

AssessmentSources == {"explicit_task", "context_efficiency_latest", "model_routing_latest", "fallback"}
SignalTypes ==
    {"context_brief_available", "model_routing_profile_available", "workspace_map_available",
     "expected_scope_available", "changed_paths_detected", "unexpected_path_touched", "generated_output_touched",
     "runtime_artifact_touched", "release_owned_path_touched", "production_sensitive_path_touched",
     "billing_sensitive_path_touched", "secret_sensitive_path_touched", "validation_missing",
     "evidence_missing", "work_mode_mismatch", "human_review_required"}
AssessmentType(names) ==
    [task : names, source : AssessmentSources, state : RadarStates, action : RadarActions,
     review : BOOLEAN, drift : BOOLEAN, risk : Risks, scope : SUBSET Places, truth : SUBSET Places,
     mode : Modes \cup {"none"}, required : Modes, controls : SUBSET Capabilities, items : SUBSET Places,
     noValidation : BOOLEAN, noEvidence : BOOLEAN, signals : SUBSET SignalTypes,
     warnings : SUBSET {"no_brief", "no_scope", "no_profile", "no_map", "validation", "evidence", "mode"}]

(***************************************************************************)
(* buildWorkflowRadarPathCheck: the same questions of one path, asked by    *)
(* other code.                                                             *)
(***************************************************************************)
PathCheckState(p, briefed, scope, profiled, mode) ==
    LET out == briefed /\ ~InExpectedScope(p, scope)
        actual == ActualMode(Blocking(p), Reviewed(p), Aside(p) \/ out, 1)
    IN IF p = "" THEN "UNAVAILABLE"
       ELSE IF Blocking(p) THEN "BLOCKED"
       ELSE IF Reviewed(p) THEN "NEEDS_REVIEW"
       ELSE IF Aside(p) \/ out THEN "DRIFT_DETECTED"
       ELSE IF Mismatch(profiled, mode, actual) \/ ~briefed \/ ~profiled THEN "ON_TRACK_WITH_WARNINGS"
       ELSE "ON_TRACK"

RadarPathCheck(p, briefed, scope, profiled, mode, present) ==
    LET state == PathCheckState(p, briefed, scope, profiled, mode)
        out == briefed /\ ~InExpectedScope(p, scope)
    IN [state |-> state,
        action |-> CASE state = "BLOCKED" -> "stop_and_review"
                     [] state = "NEEDS_REVIEW" -> "switch_to_guarded_mode"
                     [] state = "DRIFT_DETECTED" -> "ask_for_decision"
                     [] state = "UNAVAILABLE" -> "unavailable"
                     [] OTHER -> "continue_work",
        risk |-> IF p \in Marked.secret \/ Production(p) THEN "critical"
                 ELSE MaxRisk(ClassifyPath(p, present).risk,
                              IF p \in Marked.billing \/ AuthOrDashboard(p) THEN "high"
                              ELSE IF Aside(p) \/ out THEN "medium" ELSE "low")]

(***************************************************************************)
(* The handoff                                                             *)
(***************************************************************************)
HandoffStates == {"READY_TO_CONTINUE", "READY_WITH_WARNINGS", "NEEDS_VALIDATION", "NEEDS_EVIDENCE",
                  "NEEDS_REVIEW", "BLOCKED", "UNAVAILABLE"}

(* inferDecisionState.                                                      *)
HandoffState(blocked, review, noValidation, noEvidence, dependency, warnings) ==
    IF blocked THEN "BLOCKED"
    ELSE IF review THEN "NEEDS_REVIEW"
    ELSE IF noValidation THEN "NEEDS_VALIDATION"
    ELSE IF noEvidence THEN "NEEDS_EVIDENCE"
    ELSE IF dependency \/ warnings # {} THEN "READY_WITH_WARNINGS" ELSE "READY_TO_CONTINUE"

ContinuationMode(state, dependency, count) ==
    CASE state = "BLOCKED" -> "stop_and_review"
      [] state = "NEEDS_REVIEW" -> "ask_user_decision"
      [] OTHER -> IF dependency THEN "wait_for_dependency_merge"
                  ELSE IF count = 0 THEN "summarize_and_handoff"
                  ELSE IF state \in {"NEEDS_VALIDATION", "NEEDS_EVIDENCE"} THEN "continue_same_worktree"
                  ELSE "start_new_session_same_worktree"

(* inferRecommendedNextAction.                                              *)
HandoffAction(state, dependency, count) ==
    CASE state = "BLOCKED" -> "stop_and_review"
      [] state = "NEEDS_REVIEW" -> "ask_for_decision"
      [] state = "NEEDS_VALIDATION" -> "run_validation"
      [] state = "NEEDS_EVIDENCE" -> "produce_receipt"
      [] OTHER -> IF dependency THEN "retarget_or_rebase_after_dependency_merge"
                  ELSE IF count = 0 THEN "summarize_for_next_session" ELSE "continue_work"

SafeToContinue(state) == state \notin {"BLOCKED", "NEEDS_REVIEW", "UNAVAILABLE"}

(* inferDependency: the upstream, when it is not the branch's own, or the   *)
(* first of the known refs that is an ancestor; a feature branch has to be  *)
(* merged first.                                                            *)
KnownRefs == <<"feature", "planning", "main">>
SelectedBase(base) ==
    LET found == {i \in DOMAIN KnownRefs : KnownRefs[i] \in base.ancestors}
    IN CASE base.upstream \notin {"none", "own"} -> base.upstream
         [] base.upstream \in {"none", "own"} /\ found # {} ->
               KnownRefs[CHOOSE i \in found : \A j \in found : i <= j]
         [] OTHER -> "none"
DependencyMergeRequired(base) == SelectedBase(base) = "feature"

Stage(state, continuation, count) ==
    CASE state = "BLOCKED" -> "blocked"
      [] state = "NEEDS_REVIEW" -> "review_required"
      [] state = "NEEDS_VALIDATION" -> "validation_pending"
      [] state = "NEEDS_EVIDENCE" -> "evidence_pending"
      [] OTHER -> IF continuation = "wait_for_dependency_merge" THEN "waiting_on_dependency"
                  ELSE IF count = 0 THEN "handoff_ready" ELSE "implementation_in_progress"

(* buildClosureCriteria, without its wording.                               *)
ClosureCriteria(r, review, avoid, dependency) ==
    {IF r.noValidation THEN "run_validation" ELSE "keep_validation",
     IF r.noEvidence THEN "produce_receipt" ELSE "keep_receipts"}
    \cup (IF review THEN {"get_review"} ELSE {}) \cup (IF dependency THEN {"merge_first"} ELSE {})
    \cup {"keep_out"}

(* buildSessionContinuitySignals.                                           *)
HandoffSignals(r, briefed, profiled, dependency, relevant, avoid) ==
    {"workflow_radar_available"}
    \cup (IF briefed THEN {"context_brief_available"} ELSE {})
    \cup (IF profiled THEN {"model_routing_profile_available"} ELSE {})
    \cup (IF r.controls # {} THEN {"work_controls_available"} ELSE {})
    \cup (IF dependency THEN {"dependency_merge_required"} ELSE {})
    \cup (IF relevant # {} THEN {"changed_paths_detected"} ELSE {})
    \cup (IF r.noValidation THEN {"validation_missing"} ELSE {})
    \cup (IF r.noEvidence THEN {"evidence_missing"} ELSE {})
    \cup (IF r.drift THEN {"drift_detected"} ELSE {})
    \cup (IF avoid # {} THEN {"unsafe_path_touched"} ELSE {})

ReviewCategories == {"billing_sensitive", "secret_sensitive", "release_owned", "production_sensitive"}

(***************************************************************************)
(* buildSessionContinuityHandoff: of the radar r, which is there by now,    *)
(* and the brief and profile that were on disk before.  What the radar      *)
(* says of a review is not asked: only the paths are.                       *)
(***************************************************************************)
BuildHandoff(r, fresh, briefed, profiled, profileMode, base, listed) ==
    LET review == \E p \in r.items : AuthOrDashboard(p) \/ Category(p) \in ReviewCategories
        relevant == {p \in r.items : Category(p) # "runtime_artifact"}
        dependency == DependencyMergeRequired(base)
        warnings == r.warnings \cup (IF fresh THEN {"generated"} ELSE {})
                    \cup (IF briefed THEN {} ELSE {"no_brief"}) \cup (IF profiled THEN {} ELSE {"no_profile"})
        state == HandoffState(r.state = "BLOCKED", review, r.noValidation, r.noEvidence, dependency, warnings)
        count == Cardinality(relevant)
        continuation == ContinuationMode(state, dependency, count)
        avoid == {p \in r.items : Category(p) # "safe_source" \/ AuthOrDashboard(p)}
        safe == {p \in r.items : Category(p) = "safe_source" /\ InExpectedScope(p, r.scope)}
    IN [task |-> r.task, source |-> r.source, radar |-> r.state, state |-> state, safe |-> SafeToContinue(state),
        action |-> HandoffAction(state, dependency, count), continuation |-> continuation,
        stage |-> Stage(state, continuation, count),
        closure |-> ClosureCriteria(r, review, avoid, dependency),
        signals |-> HandoffSignals(r, briefed, profiled, dependency, relevant, avoid),
        items |-> r.items, review |-> review, fresh |-> fresh,
        \* the profile shown is the one on disk, if there is one
        mode |-> IF profiled THEN profileMode ELSE r.mode,
        inspect |-> IF safe # {} THEN safe ELSE r.truth, avoid |-> avoid, listed |-> listed]

ContinuationModes == {"continue_same_worktree", "start_new_session_same_worktree", "summarize_and_handoff",
                      "wait_for_dependency_merge", "ask_user_decision", "stop_and_review", "unavailable"}
HandoffActions == {"continue_work", "run_validation", "produce_receipt", "open_pr",
                   "retarget_or_rebase_after_dependency_merge", "summarize_for_next_session",
                   "ask_for_decision", "stop_and_review", "unavailable"}
ContinuitySignals == {"context_brief_available", "model_routing_profile_available", "workflow_radar_available",
                      "work_controls_available", "dependency_merge_required", "changed_paths_detected",
                      "validation_missing", "evidence_missing", "drift_detected", "unsafe_path_touched"}
Stages == {"implementation_in_progress", "validation_pending", "evidence_pending", "review_required", "blocked",
           "waiting_on_dependency", "handoff_ready", "unavailable"}
HandoffType(names) ==
    [task : names, source : AssessmentSources, radar : RadarStates, state : HandoffStates, safe : BOOLEAN,
     action : HandoffActions, continuation : ContinuationModes, stage : Stages,
     closure : SUBSET {"run_validation", "keep_validation", "produce_receipt", "keep_receipts",
                       "get_review", "merge_first", "keep_out"},
     signals : SUBSET ContinuitySignals, items : SUBSET Places, review : BOOLEAN, fresh : BOOLEAN,
     mode : Modes \cup {"none"}, inspect : SUBSET Places, avoid : SUBSET Places,
     listed : SUBSET {"brief", "profile", "radar", "receipts", "report"}]

(* buildSessionContinuityPathCheck.                                         *)
HandoffPathCheck(p, check) ==
    LET avoid == Category(p) # "safe_source" \/ AuthOrDashboard(p)
    IN [state |-> CASE check.state \in {"BLOCKED", "NEEDS_REVIEW", "UNAVAILABLE"} -> check.state
                    [] check.state = "DRIFT_DETECTED" -> "READY_WITH_WARNINGS"
                    [] OTHER -> "READY_TO_CONTINUE",
        avoid |-> avoid,
        continuation |-> CASE check.state = "BLOCKED" -> "stop_and_review"
                           [] check.state = "NEEDS_REVIEW" -> "ask_user_decision"
                           [] OTHER -> IF avoid THEN "continue_same_worktree"
                                       ELSE "start_new_session_same_worktree",
        action |-> CASE check.state = "BLOCKED" -> "stop_and_review"
                     [] check.state = "NEEDS_REVIEW" -> "ask_for_decision"
                     [] OTHER -> IF avoid THEN "summarize_for_next_session" ELSE "continue_work"]
=============================================================================
