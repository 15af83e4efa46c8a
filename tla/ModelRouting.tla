---------------------------- MODULE ModelRouting ----------------------------
(***************************************************************************)
(* Model routing: which primitive and which model a piece of work is given *)
(* to (validation/model-routing, kernel/model-routing).  All of it is a    *)
(* function of a frame, what the caller's patterns found in the task:      *)
(*   taskType, risk, dataSensitivity                                       *)
(*   deterministic   deterministic evidence is available                   *)
(*   secrets, pay, auth, dashboard, copy, mcp, prod, write, deep           *)
(*                   what may be touched or is asked for                   *)
(*   browser, external   what is available                                 *)
(* The routes' wording and the warnings of the verifier are left out.  So  *)
(* is the health of a provider, which nothing in the program changes, and  *)
(* the memory of a session, which is made, told one route and dropped.     *)
(***************************************************************************)
EXTENDS Integers, Sequences, FiniteSets, SequencesExt, FiniteSetsExt

Primitives == {"no_action", "no_connect", "deterministic_local_read", "deterministic_local_script",
               "built_in_scanner", "internal_skill", "manual_checklist", "browser_workflow", "stop_blocked"}
ModelProfiles == {"none", "cheap_classification", "standard_synthesis", "high_reasoning", "code_generation",
                  "security_sensitive_review", "privacy_sensitive_summary", "fallback_only"}

(***************************************************************************)
(* The primitive.  A later rule overrides an earlier one, so a rule list   *)
(* means the last rule that fits.                                          *)
(***************************************************************************)
LastOf(rules, default) ==
    LET fit == {i \in DOMAIN rules : rules[i][1]}
    IN IF fit = {} THEN default ELSE rules[Max(fit)][2]

IsSecurity(f) == f.risk = "high" \/ f.secrets \/ f.pay \/ f.auth
IsPlainDocs(f) == f.taskType = "docs" /\ f.risk = "low" /\ ~f.copy

SelectedPrimitive(f) ==
    LastOf(<< <<f.taskType = "offline" \/ (~f.external /\ ~f.mcp), "no_connect">>,
              <<f.deterministic /\ ~f.deep, "deterministic_local_script">>,
              <<IsSecurity(f), "built_in_scanner">>,
              <<f.prod, "stop_blocked">>,
              <<f.dashboard, IF f.browser THEN "browser_workflow" ELSE "manual_checklist">>,
              <<f.deep, "internal_skill">>,
              <<IsPlainDocs(f), "no_action">> >>, "deterministic_local_read")

(* Rules 9 and 10 only fill in a profile where there is none; rule 11 sets *)
(* its own, whatever the rules before have found.                          *)
SelectedProfile(f) ==
    LET found == LastOf(<< <<f.deterministic /\ ~f.deep, "none">>,
                           <<f.risk = "high", "security_sensitive_review">>,
                           <<f.copy /\ ~f.deterministic, "standard_synthesis">> >>, "none")
        private == IF found = "none" /\ f.dataSensitivity = "high" THEN "privacy_sensitive_summary" ELSE found
        deep == IF f.deep /\ private = "none" THEN "high_reasoning" ELSE private
    IN LastOf(<< <<f.taskType = "code_generation", "code_generation">>, <<IsPlainDocs(f), "none">> >>, deep)

SelectedScanners(f) ==
    CASE IsPlainDocs(f) -> {}
      [] ~IsPlainDocs(f) /\ f.deep -> {"secret-patterns", "env-exposure", "claims", "permissions", "generated-exposure"}
      [] OTHER -> UNION {IF IsSecurity(f) THEN {"secret-patterns", "claims", "permissions"} ELSE {},
                         IF f.copy THEN {"claims"} ELSE {}, IF f.mcp THEN {"permissions"} ELSE {}}

RoutePrimitive(f) ==
    [primitive |-> SelectedPrimitive(f), profile |-> SelectedProfile(f),
     scanners |-> SelectedScanners(f), approval |-> f.write]

(***************************************************************************)
(* The model.                                                              *)
(***************************************************************************)
CostRank == [free |-> 0, cheap |-> 1, standard |-> 2, expensive |-> 3]
LatencyRank == [instant |-> 0, fast |-> 1, standard |-> 2, slow |-> 3]
DataPolicies == {"no_training", "zdr", "training_included"}
Unbounded == 1000000   \* an infinite context window

Model(id, provider, class, window, cost, latency, data, can, profiles) ==
    [id |-> id, provider |-> provider, class |-> class, window |-> window, cost |-> cost,
     latency |-> latency, data |-> data, can |-> can, profiles |-> profiles]

Local(id, profiles) ==
    Model(id, "local", "local", Unbounded, "free", "instant", "no_training", {"json"}, profiles)
Claude(id, cost, latency, can, profiles) ==
    Model(id, "anthropic", "cloud_zdr", 200000, cost, latency, "zdr",
          {"vision", "tools", "json"} \union can, profiles)
Gpt(id, cost, can, profiles) ==
    Model(id, "openai", "cloud_standard", 128000, cost, "fast", "training_included",
          {"vision", "tools", "json"} \union can, profiles)

REGISTRY ==
    << Local("local/deterministic", {"none", "cheap_classification"}),
       Local("local/scanner", {"cheap_classification", "security_sensitive_review"}),
       Claude("cloud/claude-sonnet", "standard", "fast", {"reasoning"},
              {"standard_synthesis", "code_generation", "cheap_classification"}),
       Claude("cloud/claude-opus", "expensive", "slow", {"reasoning"},
              {"high_reasoning", "security_sensitive_review", "code_generation"}),
       Claude("cloud/claude-haiku", "cheap", "fast", {},
              {"cheap_classification", "standard_synthesis", "fallback_only"}),
       Gpt("cloud/gpt-4o", "standard", {"reasoning"}, {"standard_synthesis", "code_generation"}),
       Gpt("cloud/gpt-4o-mini", "cheap", {}, {"cheap_classification", "fallback_only"}) >>

(* constraints: localOnly, denyDataCollection, requires, maxCost, and the  *)
(* sets allowed and denied; signals: tokens, requires.                     *)
DEFAULT_PROVIDER_CONSTRAINTS ==
    [localOnly |-> FALSE, denyDataCollection |-> FALSE, requires |-> {}, maxCost |-> "standard",
     allowed |-> {REGISTRY[i].provider : i \in DOMAIN REGISTRY}, denied |-> {}]
DEFAULT_CONTEXT_SIGNALS == [tokens |-> 0, requires |-> {}]

(* Every model is enabled.  No model has the profile of a private summary. *)
ModelsForProfile(profile) == {i \in DOMAIN REGISTRY : profile \in REGISTRY[i].profiles}

Safe(m, profile, constraints, signals) ==
    /\ constraints.localOnly => m.class = "local"
    /\ \/ m.data # "training_included"
       \/ ~constraints.denyDataCollection
          /\ profile \notin {"security_sensitive_review", "privacy_sensitive_summary"}
    /\ m.provider \in constraints.allowed \ constraints.denied
    /\ constraints.requires \union signals.requires \subseteq m.can
    /\ m.window >= signals.tokens
    /\ CostRank[m.cost] <= CostRank[constraints.maxCost]

(* Cheapest first, then fastest; sort keeps the registry's order of equals.*)
Cheaper(i, j) ==
    LET a == REGISTRY[i]
        b == REGISTRY[j]
    IN \/ CostRank[a.cost] < CostRank[b.cost]
       \/ a.cost = b.cost /\ LatencyRank[a.latency] < LatencyRank[b.latency]
       \/ a.cost = b.cost /\ a.latency = b.latency /\ i < j

Resolution(status, models) == [status |-> status, models |-> models]

(* The selected model and, behind it, the fallback chain.                  *)
ResolveModel(profile, constraints, signals, approval) ==
    LET profiled == ModelsForProfile(profile)
        candidates == IF profiled = {} THEN DOMAIN REGISTRY ELSE profiled
        safe == {i \in candidates : Safe(REGISTRY[i], profile, constraints, signals)}
    IN CASE profile = "none" -> Resolution("no_model_needed", <<>>)
         [] profile # "none" /\ approval = "blocked" -> Resolution("stop_blocked", <<>>)
         [] profile # "none" /\ approval # "blocked" /\ safe = {} -> Resolution("no_safe_candidate", <<>>)
         [] OTHER -> Resolution("resolved", LET order == SetToSortSeq(safe, Cheaper)
                                            IN [k \in DOMAIN order |-> REGISTRY[order[k]]])

(***************************************************************************)
(* The cascade, the projection that a record keeps, and its verifier.      *)
(***************************************************************************)
BuildCascade(f, decision) ==
    LET step(needed, reason) == IF needed THEN <<reason>> ELSE <<>>
        review == "security_sensitive_review"
    IN <<"local_evidence_first">>
       \o step(decision.scanners # {}, "scanner_required")
       \o step(decision.profile \notin {"none", review}, "classify_or_synthesize")
       \o step(decision.profile \in {review, "high_reasoning"}, "deep_review_required")
       \o step(decision.approval, "approval_gate")
       \o step(f.prod, "production_impact")

CreateSafeProjection(decision, resolution, cascade) ==
    [primitive |-> decision.primitive, profile |-> decision.profile, status |-> resolution.status,
     provider |-> IF resolution.models = <<>> THEN "none" ELSE Head(resolution.models).class,
     fallbacks |-> [k \in 1..(Len(resolution.models) - 1) |-> resolution.models[k + 1].id],
     plan |-> cascade,
     assist |-> decision.profile # "none" /\ decision.primitive \notin {"stop_blocked", "no_action"}]

(* Slip: production impact is left to the rules.                           *)
SlipVerifyModelOnly(f, projection, models) ==
    ~(f.dataSensitivity = "high" /\ models # <<>> /\ Head(models).data = "training_included")

(* No violation that is an error.                                          *)
VerifyRoutingDecision(f, projection, models) ==
    /\ f.prod => projection.primitive = "stop_blocked"
    /\ ~(f.dataSensitivity = "high" /\ models # <<>> /\ Head(models).data = "training_included")

RouteCanonical(f, approval) ==
    LET decision == RoutePrimitive(f)
        resolution == ResolveModel(decision.profile, DEFAULT_PROVIDER_CONSTRAINTS,
                                   DEFAULT_CONTEXT_SIGNALS, approval)
        projection == CreateSafeProjection(decision, resolution, BuildCascade(f, decision))
    IN [projection |-> projection,
        valid |-> VerifyRoutingDecision(f, projection, resolution.models)]

ResolverStatuses == {"no_model_needed", "resolved", "no_safe_candidate", "stop_blocked"}
Projections ==
    [primitive : Primitives, profile : ModelProfiles,
     status : ResolverStatuses \union {"verifier_rejected"},
     provider : {"none", "local", "cloud_zdr", "cloud_standard"},
     fallbacks : Seq({REGISTRY[i].id : i \in DOMAIN REGISTRY}),
     plan : Seq(STRING), assist : BOOLEAN]
=============================================================================
