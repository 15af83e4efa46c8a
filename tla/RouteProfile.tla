---------------------------- MODULE RouteProfile ----------------------------
(***************************************************************************)
(* The route profile: how strict the mode of an agent should be for the    *)
(* work of a brief (capabilities/model-routing-input/route-profile.ts).     *)
(***************************************************************************)
EXTENDS WorkBrief

(* From the most permissive to the strictest.                               *)
Modes == {"simple_fast", "standard_reasoning", "deep_reasoning", "guarded_high_risk",
          "human_review_required", "blocked_needs_decision"}
ModeRank == [simple_fast |-> 1, standard_reasoning |-> 2, deep_reasoning |-> 3,
             guarded_high_risk |-> 4, human_review_required |-> 5, blocked_needs_decision |-> 6]

Active == {"feature_development", "bug_fix", "test_repair", "public_site"}
Heavy == {"security_review", "billing_or_entitlement", "release_preparation", "dashboard_ux"}

ContextSize(b) ==
    LET weight == 2 * b.plan.include + b.plan.summarize + b.plan.defer + 2 * b.plan.confirm
    IN CASE weight <= 3 -> "tiny"
         [] weight \in 4 .. 7 -> "small"
         [] weight \in 8 .. 11 -> "medium"
         [] OTHER -> "large"

(* A blocked path is critical, whatever its own risk.                       *)
PathRisk(checks) ==
    IF \E c \in checks : c.state = "BLOCKED" THEN "critical"
    ELSE IF checks = {} THEN "low"
    ELSE (CHOOSE c \in checks : \A d \in checks : RiskRank[c.risk] >= RiskRank[d.risk]).risk

(* deriveSensitivities: the work type, a reason code of a path, or a word   *)
(* of the summary, of which the work type and the warnings are a part.      *)
Sensitivities(b, words, checks) ==
    LET reasons == {c.reason : c \in checks}
    IN [release |-> b.type = "release_preparation" \/ "release_scope_blocked" \in reasons \/ "release" \in words,
        billing |-> b.type = "billing_or_entitlement" \/ "billing_scope_review" \in reasons \/ "billing" \in words,
        secret |-> \/ b.type = "security_review" \/ "secret_scope_review" \in reasons
                   \/ "security" \in words \/ b.type = "dashboard_ux",
        surface |-> b.type = "dashboard_ux" \/ "dashboard_scope_review" \in reasons \/ "dashboard" \in words]

Complexity(b, size, risk, sens) ==
    LET score == (IF b.type \in Active THEN 1 ELSE 0) + (IF b.type \in Heavy THEN 2 ELSE 0)
               + (CASE size = "tiny" -> 0 [] size = "small" -> 1 [] size = "medium" -> 2 [] size = "large" -> 3)
               + (CASE risk = "high" -> 2 [] risk = "critical" -> 3 [] OTHER -> 0)
               + (IF b.commands >= 3 THEN 1 ELSE 0) + (IF Cardinality(b.capabilities) >= 5 THEN 1 ELSE 0)
               + (IF b.warnings > 0 THEN 1 ELSE 0)
               + (IF \E s \in DOMAIN sens : sens[s] THEN 1 ELSE 0)
    IN CASE score <= 1 -> "simple" [] score \in 2 .. 3 -> "moderate"
         [] score \in 4 .. 5 -> "complex" [] OTHER -> "deep"

(* Slip: a blocked brief blocks release work only.                          *)
SlipMode(b, size, complexity, risk, sens) ==
    CASE b.type = "release_preparation" -> "blocked_needs_decision"
      [] b.type # "release_preparation" /\ (sens.billing \/ sens.secret \/ sens.surface) -> "human_review_required"
      [] OTHER -> "guarded_high_risk"

(* recommendedModeFromSignals.                                              *)
RecommendedMode(b, size, complexity, risk, sens) ==
    LET blocked == b.state \in {"BLOCKED", "UNAVAILABLE"} \/ (sens.release /\ b.type = "release_preparation")
        review == sens.billing \/ sens.secret \/ sens.surface \/ b.state = "NEEDS_REVIEW"
        guarded == risk = "high" \/ complexity = "deep" \/ b.state = "READY_WITH_WARNINGS"
        deep == size = "large" \/ (size = "medium" /\ complexity # "simple")
        standard == b.type \in Active \/ complexity \in {"moderate", "complex"} \/ size = "small"
    IN CASE blocked -> "blocked_needs_decision"
         [] ~blocked /\ review -> "human_review_required"
         [] ~blocked /\ ~review /\ guarded -> "guarded_high_risk"
         [] ~blocked /\ ~review /\ ~guarded /\ deep -> "deep_reasoning"
         [] ~blocked /\ ~review /\ ~guarded /\ ~deep /\ standard -> "standard_reasoning"
         [] OTHER -> "simple_fast"

ModeReady(mode) == mode \notin {"human_review_required", "blocked_needs_decision"}

Confidence(source, b, risk, mode) ==
    CASE source = "unavailable" \/ ~ModeReady(mode) \/ risk = "critical" -> "low"
      [] source # "unavailable" /\ ModeReady(mode) /\ b.state = "READY" /\ risk = "low" -> "high"
      [] OTHER -> "medium"

(* buildModelRoutingInputProfile of a brief: the paths of its scope, eight  *)
(* at most, are checked again, one by one.                                  *)
BuildProfile(b, source, words, present) ==
    LET checks == {BriefPathCheck(p, present) : p \in b.scope}
        risk == PathRisk(checks)
        size == ContextSize(b)
        sens == Sensitivities(b, words, checks)
        mode == RecommendedMode(b, size, Complexity(b, size, risk, sens), risk, sens)
    IN [task |-> b.task, source |-> source, mode |-> mode, type |-> b.type, risk |-> risk,
        confidence |-> Confidence(source, b, risk, mode),
        capabilities |-> b.capabilities,
        approval |-> mode \in {"human_review_required", "blocked_needs_decision"}]

ProfileType(names) ==
    [task : names, source : {"generated", "latest_brief", "unavailable"}, mode : Modes, type : WorkTypes,
     risk : Risks, confidence : {"low", "medium", "high"}, capabilities : SUBSET Capabilities, approval : BOOLEAN]

(* pathModeFromCheck.                                                       *)
PathMode(c) ==
    LET blocked == c.state \in {"BLOCKED", "UNAVAILABLE"} \/ c.recommendation = "exclude"
        review == c.reason \in {"billing_scope_review", "secret_scope_review", "dashboard_scope_review"}
    IN CASE blocked -> "blocked_needs_decision"
         [] ~blocked /\ review -> "human_review_required"
         [] ~blocked /\ ~review /\ c.risk \in {"high", "critical"} -> "guarded_high_risk"
         [] ~blocked /\ ~review /\ c.risk \notin {"high", "critical"}
               /\ c.hint \in {"feature_development", "bug_fix", "test_repair"} -> "standard_reasoning"
         [] OTHER -> "simple_fast"
=============================================================================
