----------------------------- MODULE WorkPaths -----------------------------
(***************************************************************************)
(* What the work artifacts know of a path (capabilities/context-efficiency *)
(* /workspace-map-compat.ts, workflow-radar/policy.ts and signals.ts,      *)
(* session-continuity/policy.ts).  Only the name is looked at, and whether *)
(* it is in the checkout.                                                  *)
(*                                                                         *)
(* A place stands for the names the patterns tell apart:                   *)
(*   "" no name            dist dist/..        pages the generated pages    *)
(*   artifact .avorelo/ of the tools below, except handoffs                 *)
(*   handoffs .avorelo/session-continuity      release docs/release/..      *)
(*   deploy  a deploy/.. path   billing a billing/.. path   env a .env file *)
(*   static  a page of public-web/static, board its dashboard page          *)
(*   auth a src/auth/.. path    capability, cli sources of the tool         *)
(*   tests, docs, readme, product a file below them or the file itself      *)
(*   code other source     spaced a capability source with a blank in it,   *)
(*   which git status prints in quotes    note the label "(sensitive scope)"*)
(* The rest are directories, as the brief lists them, without a slash.      *)
(***************************************************************************)
EXTENDS Naturals, FiniteSets

Directories == {"srcDir", "testsDir", "docsDir", "releaseDir", "securityDir",
                "productDir", "staticDir", "githubDir", "capabilityDir", "surfacesDir"}
Places == {"", "dist", "pages", "artifact", "handoffs", "release", "deploy", "billing", "env",
           "static", "board", "auth", "capability", "cli", "tests", "docs", "readme", "product",
           "package", "code", "spaced", "note"} \cup Directories

(* What the patterns say of a name.  A directory named without its slash    *)
(* fits no pattern that ends in one.                                        *)
Marked ==
  [generated  |-> {"dist", "pages"},
   runtime    |-> {"artifact", "handoffs"},
   release    |-> {"release"},
   billing    |-> {"billing"},
   secret     |-> {"env"},
   publicWeb  |-> {"static", "board"},
   capability |-> {"capability", "cli"},
   dashboard  |-> {"board"},
   docs       |-> {"release", "docs", "readme", "product", "releaseDir", "securityDir", "productDir"},
   truth      |-> {"release", "docs", "readme", "product", "releaseDir", "securityDir", "productDir",
                   "static", "board", "capability", "tests"}]

Risks == {"low", "medium", "high", "critical"}
RiskRank == [low |-> 1, medium |-> 2, high |-> 3, critical |-> 4]
MaxRisk(a, b) == IF RiskRank[a] >= RiskRank[b] THEN a ELSE b

BriefStates == {"READY", "READY_WITH_WARNINGS", "NEEDS_REVIEW", "BLOCKED", "UNAVAILABLE"}
Recommendations == {"include", "summarize", "exclude", "defer_until_needed",
                    "requires_user_confirmation"}

(* classifyPathForContextEfficiency: the first class that fits decides, and *)
(* gives the reason code the route profile reads.                           *)
Verdict(recommendation, state, risk, reason) ==
    [recommendation |-> recommendation, state |-> state, risk |-> risk, reason |-> reason]

ClassifyPath(p, present) ==
    CASE p = "" -> Verdict("exclude", "UNAVAILABLE", "medium", "path_missing")
      [] p \in Marked.generated -> Verdict("exclude", "READY_WITH_WARNINGS", "medium", "generated_output_excluded")
      [] p \in Marked.runtime -> Verdict("exclude", "READY_WITH_WARNINGS", "medium", "runtime_artifact_excluded")
      [] p \in Marked.release -> Verdict("requires_user_confirmation", "BLOCKED", "critical", "release_scope_blocked")
      [] p \in Marked.billing -> Verdict("requires_user_confirmation", "NEEDS_REVIEW", "high", "billing_scope_review")
      [] p \in Marked.secret -> Verdict("requires_user_confirmation", "NEEDS_REVIEW", "critical", "secret_scope_review")
      [] p \in Marked.dashboard -> Verdict("summarize", "NEEDS_REVIEW", "high", "dashboard_scope_review")
      [] /\ p \notin {""} \cup UNION {Marked[m] : m \in {"generated", "runtime", "release", "billing", "secret", "dashboard"}}
         /\ p \notin present -> Verdict("defer_until_needed", "UNAVAILABLE", "medium", "path_not_found")
      [] OTHER -> Verdict("include", "READY",
                          IF p \in Marked.publicWeb \cup Marked.capability THEN "medium" ELSE "low", "none")

(* The first hint of the class, in the order they are pushed.               *)
FirstHint(p) ==
    CASE p \in Marked.publicWeb -> "public_site"
      [] p \in Marked.capability -> "feature_development"
      [] p \in Marked.billing -> "billing_or_entitlement"
      [] p \in Marked.docs -> "documentation"
      [] OTHER -> "unknown"

(* What only the radar's own patterns find.                                 *)
AuthOrDashboard(p) == p \in Marked.dashboard \cup {"auth", "securityDir"}
Production(p) == p \in Marked.release \cup {"deploy", "releaseDir"}

(* An entry of the scope covers itself and what lies below it.              *)
Covers ==
  [srcDir |-> {"pages", "static", "board", "capability", "cli", "staticDir"},
   testsDir |-> {"tests"}, docsDir |-> {"docs", "product", "release", "releaseDir", "securityDir", "productDir"},
   releaseDir |-> {"release"}, securityDir |-> {}, productDir |-> {"product"},
   staticDir |-> {"static", "board"}, githubDir |-> {}, capabilityDir |-> {"capability", "spaced"},
   surfacesDir |-> {"pages", "static", "board", "cli", "staticDir"}]
InExpectedScope(p, scope) ==
    \E e \in scope : p = e \/ (e \in Directories /\ p \in Covers[e])

(* A change of these needs validation: sources by tag, by the directory of  *)
(* the tests or by ending.  The quotes hide the ending of a spaced name.    *)
NeedsValidation(p) ==
    p \in {"capability", "cli", "static", "board", "tests", "code", "auth", "billing", "pages", "dist"}

(* The tools' own files are not held against the work, handoffs are.        *)
Benign(p) == p = "artifact"

(* Slip: the categories of the handoff forget billing.                      *)
SlipCategory(p) ==
    CASE p \in Marked.secret -> "secret_sensitive"
      [] Production(p) -> "production_sensitive"
      [] p \in Marked.runtime -> "runtime_artifact"
      [] p \in Marked.generated -> "generated_output"
      [] p \in Marked.truth /\ ~Production(p) -> "safe_source"
      [] OTHER -> "unknown"

(* categoryFromChangedPath: what is release owned is always production      *)
(* sensitive too, so "release_owned" is never answered.                     *)
Category(p) ==
    CASE p \in Marked.secret -> "secret_sensitive"
      [] p \in Marked.billing \/ AuthOrDashboard(p) -> "billing_sensitive"
      [] Production(p) -> "production_sensitive"
      [] p \in Marked.runtime -> "runtime_artifact"
      [] p \in Marked.generated -> "generated_output"
      [] p \in Marked.truth /\ ~AuthOrDashboard(p) /\ ~Production(p) -> "safe_source"
      [] OTHER -> "unknown"
=============================================================================
