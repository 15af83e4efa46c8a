----------------------------- MODULE WorkBrief -----------------------------
(***************************************************************************)
(* The context packet of a task and the work brief made of it              *)
(* (capabilities/context-compiler, capabilities/context-efficiency and the *)
(* capability selection of kernel/work-controls).                          *)
(*                                                                         *)
(* A task is a WorkContract task with, besides, words (what the patterns   *)
(* of inferContextEfficiencyWorkType find in it), class (classifyTask) and *)
(* mentions (the places extractPaths finds in it).                         *)
(***************************************************************************)
EXTENDS WorkPaths, WorkContract, Sequences

TaskSources == {"explicit_task", "runtime_flow", "continuity", "fallback"}
WorkTypes == {"feature_development", "bug_fix", "test_repair", "release_preparation",
              "documentation", "security_review", "dashboard_ux", "public_site",
              "billing_or_entitlement", "unknown"}
Words == {"dashboard", "public", "billing", "security", "release", "docs", "bug", "test", "feature"}

AtMost(n, m) == IF n <= m THEN n ELSE m

(***************************************************************************)
(* The packet                                                              *)
(***************************************************************************)

SensitiveRef(p) == p \in {"billing", "auth", "board", "deploy"}

(* Credential files are never taken in; a named path is a source of truth  *)
(* unless it is sensitive; the class of the task adds a default or two.     *)
NamedRefs(t) == t.mentions \ Marked.secret
DefaultRefs(t) ==
    LET byClass == CASE t.class = "testing" -> {"tests"}
                     [] t.class = "docs" -> {"docs", "readme"}
                     [] t.class = "deployment" -> {"githubDir"}
                     [] OTHER -> {}
    IN byClass \cup (IF t.sensitive /\ NamedRefs(t) \cup byClass = {} THEN {"note"} ELSE {})

(* compileContext: a blocked task and one that needs a decision get no     *)
(* references at all.                                                       *)
CompileContext(t) ==
    LET c == RouteWorkContract(t)
        expand == c.route \notin {"blocked", "needs_decision"}
        high == c.risk \in {"high", "critical"}
    IN [route |-> c.route, risk |-> c.risk,
        refs |-> IF expand THEN NamedRefs(t) \cup DefaultRefs(t) ELSE {},
        truth |-> IF expand THEN {p \in NamedRefs(t) : ~SensitiveRef(p)} ELSE {},
        \* path_only and summary references end up summarized
        short |-> IF ~expand THEN {}
                  ELSE {p \in NamedRefs(t) : SensitiveRef(p) \/ high} \cup DefaultRefs(t),
        budget |-> IF expand THEN "small" ELSE "tiny"]

ContextTargetSizes == {"tiny", "small"}
ContextPackets ==
    [route : Routes, risk : RiskClasses, refs : SUBSET Places, truth : SUBSET Places,
     short : SUBSET Places, budget : ContextTargetSizes]

NoPacket == [route |-> "none", risk |-> "low", refs |-> {}, truth |-> {}, short |-> {}, budget |-> "none"]

(***************************************************************************)
(* The capabilities chosen for a piece of work                             *)
(***************************************************************************)

Capabilities == {"context-check", "tool-governance", "receipt-trace", "model-routing", "proof-review",
                 "context-efficiency", "production-confidence", "local-dashboard", "context-budget",
                 "loop-control", "drift-guard", "company-loop", "founder-cockpit"}

(* buildCapabilityRouteDecision, as its callers here call it.              *)
CapabilityRoute(in) ==
    {"context-check", "tool-governance", "receipt-trace", "model-routing"}
    \cup (IF in.proof \notin {"none", "local"} THEN {"proof-review", "production-confidence"} ELSE {})
    \cup (IF in.dashboard THEN {"local-dashboard"} ELSE {})
    \cup (IF in.auth \/ in.payment \/ in.risk \in {"high", "critical"} THEN {"drift-guard"} ELSE {})
    \cup (IF in.contextLeft < 25 \/ in.publicCopy THEN {"context-budget"} ELSE {})
    \cup (IF in.contextLeft < 60 \/ in.publicCopy THEN {"context-efficiency"} ELSE {})

(***************************************************************************)
(* The brief                                                               *)
(***************************************************************************)

(* inferContextEfficiencyWorkType: the first pattern that fits.             *)
Rules == <<[word |-> "dashboard", type |-> "dashboard_ux"], [word |-> "public", type |-> "public_site"],
           [word |-> "billing", type |-> "billing_or_entitlement"], [word |-> "security", type |-> "security_review"],
           [word |-> "release", type |-> "release_preparation"], [word |-> "docs", type |-> "documentation"],
           [word |-> "bug", type |-> "bug_fix"], [word |-> "test", type |-> "test_repair"],
           [word |-> "feature", type |-> "feature_development"]>>
InferWorkType(t) ==
    LET seen == t.words \cup (IF t.class = "docs" THEN {"docs"} ELSE {})
                        \cup (IF t.class = "testing" THEN {"test"} ELSE {})
        hits == {i \in DOMAIN Rules : Rules[i].word \in seen}
    IN IF hits = {} THEN "unknown" ELSE Rules[CHOOSE i \in hits : \A j \in hits : i <= j].type

(* The directories of buildSourceOfTruthPaths and buildRepoAreaHints, in   *)
(* their order.  Eight are kept, after those of the packet: that there are  *)
(* no more is an assumption of WorkArtifacts.                               *)
DefaultTruth ==
  [public_site |-> {"product", "staticDir"}, dashboard_ux |-> {"product", "board"},
   billing_or_entitlement |-> {"testsDir"}, documentation |-> {"readme", "docsDir"},
   test_repair |-> {"testsDir", "srcDir"}, security_review |-> {"securityDir", "srcDir"},
   feature_development |-> {"srcDir", "testsDir"}, bug_fix |-> {"srcDir", "testsDir"},
   release_preparation |-> {"releaseDir", "package"}, unknown |-> {"srcDir", "testsDir", "docsDir"}]
DefaultAreas ==
  [public_site |-> {"staticDir", "productDir", "testsDir"}, dashboard_ux |-> {"staticDir", "productDir", "testsDir"},
   billing_or_entitlement |-> {"testsDir"}, documentation |-> {"readme", "docsDir", "testsDir"},
   test_repair |-> {"testsDir", "srcDir", "package"}, security_review |-> {"srcDir", "testsDir", "securityDir"},
   feature_development |-> {"srcDir", "testsDir", "docsDir"}, bug_fix |-> {"srcDir", "testsDir", "docsDir"},
   release_preparation |-> {"releaseDir", "package", "githubDir"}, unknown |-> {"srcDir", "testsDir", "docsDir"}]

(* buildValidationCommands, counted: the patch check, the two of the code, *)
(* the two of the site, the nearest test.                                   *)
ValidationCount(type, paths) ==
    LET code == paths \cap {"capability", "cli", "static", "board", "pages", "billing", "auth", "tests",
                            "code", "srcDir", "staticDir"} # {}
                \/ type \in {"feature_development", "bug_fix", "test_repair"}
        site == paths \cap {"static", "board"} # {} \/ type = "public_site"
    IN 1 + (IF code THEN 2 ELSE 0) + (IF site THEN 2 ELSE 0)
         + (IF paths \cap Marked.capability # {} THEN 1 ELSE 0)

(* decisionFromState.  Without a task there is always a warning, so the     *)
(* UNAVAILABLE of the code is never reached.                                *)
BriefState(task, type, gate, blockedAreas, gated, warnings) ==
    CASE ~task /\ warnings # {} -> "READY_WITH_WARNINGS"
      [] (task \/ warnings = {}) /\ (blockedAreas # {} \/ gate = "blocked") -> "BLOCKED"
      [] /\ task \/ warnings = {}
         /\ blockedAreas = {} /\ gate # "blocked"
         /\ gated > 0 \/ type \in {"billing_or_entitlement", "dashboard_ux"} -> "NEEDS_REVIEW"
      [] OTHER -> IF ~task THEN "UNAVAILABLE" ELSE IF warnings # {} THEN "READY_WITH_WARNINGS" ELSE "READY"

BriefWarnings(task, packet, type) ==
    (IF task THEN {} ELSE {"no_task"})
    \cup (IF packet.route = "needs_decision" THEN {"broad_scope"} ELSE {})
    \cup (IF type = "dashboard_ux" THEN {"other_lane"} ELSE {})
    \cup (IF type = "billing_or_entitlement" THEN {"tight_scope"} ELSE {})

(* buildContextPlan, as the sizes of its lists.  The references that wait   *)
(* are those after the fourth, of the packet and of the paths.              *)
ContextPlan(packet, truth, gated, summarized) ==
    LET waiting == IF Cardinality(packet.refs) > 4 THEN Cardinality(packet.refs) - 4 ELSE 0
        later == IF Cardinality(truth) > 4 THEN Cardinality(truth) - 4 ELSE 0
    IN [include |-> AtMost(Cardinality(truth), 4),
        summarize |-> AtMost(Cardinality(summarized \cup packet.short), 8),
        defer |-> AtMost(waiting + later, 8),
        confirm |-> AtMost(Cardinality(gated), 8)]

(* A repository area is named by three segments of a path: the directory of *)
(* the layer, for the sources of the tool.                                  *)
LayerOf ==
  [capability |-> "capabilityDir", spaced |-> "capabilityDir", cli |-> "surfacesDir",
   pages |-> "surfacesDir", static |-> "surfacesDir", board |-> "surfacesDir"]
Area(p) == IF p \in DOMAIN LayerOf THEN LayerOf[p] ELSE p

(* A brief keeps the name of its task to tell artifacts of different tasks  *)
(* apart; the code keeps the redacted text.                                 *)
BuildBrief(name, source, t) ==
    LET task == source # "fallback"
        contract == RouteWorkContract(t)
        gate == IF task THEN RouteGate(contract) ELSE "none"
        packet == IF task THEN CompileContext(t) ELSE NoPacket
        type == IF task THEN InferWorkType(t) ELSE "unknown"
        truth == packet.truth \cup DefaultTruth[type]
        gatedRefs == {p \in packet.refs : \E m \in {"billing", "secret", "dashboard", "release"} : p \in Marked[m]}
        warnings == BriefWarnings(task, packet, type)
        state == BriefState(task, type, gate, packet.refs \cap Marked.release,
                            Cardinality(gatedRefs) + (IF gate = "require_approval" THEN 1 ELSE 0), warnings)
    IN [task |-> name, source |-> source, state |-> state, type |-> type,
        risk |-> IF task THEN contract.risk ELSE IF state = "UNAVAILABLE" THEN "medium" ELSE "low",
        truth |-> truth, scope |-> truth \cup {Area(p) : p \in packet.refs} \cup DefaultAreas[type],
        plan |-> ContextPlan(packet, truth, gatedRefs,
                             {p \in gatedRefs : p \notin Marked.release}),
        commands |-> ValidationCount(type, truth),
        capabilities |-> CapabilityRoute(
            [proof |-> IF task THEN contract.proof ELSE "local", risk |-> IF task THEN contract.risk ELSE "medium",
             dashboard |-> type = "dashboard_ux", auth |-> type = "security_review",
             payment |-> type = "billing_or_entitlement", publicCopy |-> type \in {"public_site", "documentation"},
             contextLeft |-> CASE packet.budget = "tiny" -> 10
                               [] packet.budget = "small" -> 40
                               [] OTHER -> 70]),
        warnings |-> Cardinality(warnings)]

Plans == [include : 0 .. 4, summarize : 0 .. 8, defer : 0 .. 8, confirm : 0 .. 8]
BriefType(names) ==
    [task : names, source : TaskSources, state : BriefStates, type : WorkTypes, risk : Risks,
     truth : SUBSET Places, scope : SUBSET Places, plan : Plans, commands : 1 .. 6,
     capabilities : SUBSET Capabilities, warnings : Nat]

(* resolveTaskSource: the explicit task, else the objective of the latest   *)
(* runtime session, else that of the latest continuity packet.              *)
ResolveTask(explicit, runtime, continuity, none) ==
    CASE explicit # none -> [task |-> explicit, source |-> "explicit_task"]
      [] explicit = none /\ runtime # none -> [task |-> runtime, source |-> "runtime_flow"]
      [] explicit = none /\ runtime = none /\ continuity # none -> [task |-> continuity, source |-> "continuity"]
      [] OTHER -> [task |-> none, source |-> "fallback"]

(* buildContextEfficiencyPathCheck.                                         *)
BriefPathCheck(p, present) ==
    LET c == ClassifyPath(p, present)
    IN [recommendation |-> c.recommendation, state |-> c.state, risk |-> c.risk, reason |-> c.reason,
        hint |-> FirstHint(p), commands |-> ValidationCount(FirstHint(p), {p})]
=============================================================================
