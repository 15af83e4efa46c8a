---------------------------- MODULE ToolAdapters ----------------------------
(***************************************************************************)
(* Tool adapter orchestration (kernel/tool-adapters): the descriptors, the *)
(* task classes and their policies, the planner, and what an execution of  *)
(* an adapter may return.  Everything here is a function of its arguments; *)
(* RuntimeFlow holds the state.                                            *)
(*                                                                         *)
(* Texts are left out: a task is what the classifiers say of it.  cursor   *)
(* is left out: no preference order names it.  So is adapter health: its   *)
(* cooldowns are kept and restored, but nothing in the program starts one. *)
(***************************************************************************)
EXTENDS Naturals, Sequences

Delegated == {"claude-code", "codex", "gemini-cli", "aider"}
ProofAdapters == {"semgrep", "playwright-proof", "github-actions"}
BuiltIns == {"deterministic-local", "scanner", "manual-gate"}
Adapters == Delegated \union ProofAdapters \union BuiltIns

TaskClasses == {"production_deploy", "billing_payment", "security_review", "ci_review",
                "browser_proof", "deterministic_check", "low_risk_code"}

(***************************************************************************)
(* Descriptors and detection.  signals are what detect() accepts as a sign *)
(* of the tool: files of the repository, a word in PATH or a binary at a   *)
(* fixed place, and "CI" for the environment that makes the proof adapters *)
(* fake.  A .git or .semgrep alone is reported but is no such sign.        *)
(***************************************************************************)
Descriptor(id, network, data, ceiling, signals) ==
    [id |-> id, requiresNetwork |-> network, dataPolicy |-> data, riskCeiling |-> ceiling,
     signals |-> signals]

claudeCode == Descriptor("claude-code", TRUE, "no_training", "high",
                         {".claude", "CLAUDE.md", "claude in PATH"})
codex == Descriptor("codex", TRUE, "no_training", "high",
                    {".codex", "AGENTS.md", "codex.md", "codex in PATH"})
geminiCli == Descriptor("gemini-cli", TRUE, "no_training", "high",
                        {".gemini", "GEMINI.md", "gemini in PATH"})
aider == Descriptor("aider", TRUE, "no_training", "medium", {".aider.conf.yml", "aider in PATH"})
semgrep == Descriptor("semgrep", FALSE, "local_only", "high", {"CI", "semgrep in PATH"})
playwrightProof == Descriptor("playwright-proof", FALSE, "local_only", "medium",
                              {"CI", "playwright module", "playwright in PATH"})
githubActions == Descriptor("github-actions", TRUE, "zdr", "low", {"CI", "gh in PATH"})
deterministicLocal == Descriptor("deterministic-local", FALSE, "local_only", "low", {})
scanner == Descriptor("scanner", FALSE, "local_only", "high", {})
manualGate == Descriptor("manual-gate", FALSE, "local_only", "critical", {})

AllDescriptors == {claudeCode, codex, geminiCli, aider, semgrep, playwrightProof, githubActions,
                   deterministicLocal, scanner, manualGate}
GetDescriptor == [a \in Adapters |-> CHOOSE d \in AllDescriptors : d.id = a]
RequiresNetwork(a) == GetDescriptor[a].requiresNetwork

(* What is built in is always there.                                       *)
DetectAllTools(found) ==
    BuiltIns \union {a \in Adapters : GetDescriptor[a].signals \intersect found # {}}

RankOf == [low |-> 0, medium |-> 1, high |-> 2, critical |-> 3,
           local_only |-> 0, zdr |-> 1, no_training |-> 2]
DataPolicyRank == [a \in Adapters |-> RankOf[GetDescriptor[a].dataPolicy]]
RiskRank == [a \in Adapters |-> RankOf[GetDescriptor[a].riskCeiling]]

(***************************************************************************)
(* Policies.  flags: [prod, pay, auth, ci, browser, deterministic, high].  *)
(***************************************************************************)
ClassOf(flags) ==
    CASE flags.prod -> "production_deploy"
      [] ~flags.prod /\ flags.pay -> "billing_payment"
      [] ~flags.prod /\ ~flags.pay /\ (flags.auth \/ flags.high) -> "security_review"
      [] OTHER -> CASE flags.ci -> "ci_review"
                    [] ~flags.ci /\ flags.browser -> "browser_proof"
                    [] ~flags.ci /\ ~flags.browser /\ flags.deterministic -> "deterministic_check"
                    [] OTHER -> "low_risk_code"

PreferenceOrder(class) ==
    CASE class = "production_deploy" -> <<"manual-gate", "deterministic-local">>
      [] class = "billing_payment" -> <<"semgrep", "scanner", "manual-gate", "deterministic-local">>
      [] class = "security_review" -> <<"semgrep", "scanner", "manual-gate", "claude-code", "codex">>
      [] class = "ci_review" -> <<"github-actions", "manual-gate", "deterministic-local">>
      [] class = "browser_proof" -> <<"playwright-proof", "manual-gate", "deterministic-local">>
      [] class = "deterministic_check" -> <<"deterministic-local", "scanner", "manual-gate">>
      [] class = "low_risk_code" -> <<"claude-code", "codex", "gemini-cli", "aider",
                                      "deterministic-local", "manual-gate">>

(* The default constraints, with the one field a task class overrides that *)
(* the planner reads.                                                      *)
Constraints(class) ==
    [localOnly |-> FALSE, denied |-> {}, allowFallback |-> class # "production_deploy",
     keepPrivacy |-> TRUE, keepProof |-> TRUE]

IsAdapterAllowed(a, c) == a \notin c.denied

(* Slip: a fallback may be of any data policy.                             *)
SlipFallbackLeaks(from, to, c) == c.keepProof => RiskRank[to] <= RiskRank[from]

IsFallbackSafe(from, to, c) ==
    /\ c.keepPrivacy => DataPolicyRank[to] <= DataPolicyRank[from]
    /\ c.keepProof => RiskRank[to] <= RiskRank[from]

(***************************************************************************)
(* The planner.                                                            *)
(***************************************************************************)
ExecutionModeOf(a, class) ==
    CASE a = "deterministic-local" -> "deterministic"
      [] a = "scanner" -> "scanner"
      [] a \in ProofAdapters -> "proof"
      [] a \in Delegated /\ class = "low_risk_code" -> "real"
      [] OTHER -> "manual_gate"

ExecutionModes == {"real", "deterministic", "manual_gate", "scanner", "proof"}

ToolExecutionPlans ==
    [selected : Adapters, mode : ExecutionModes, fallbacks : SUBSET Adapters,
     approvalRequired : BOOLEAN, proofRequired : BOOLEAN]

Preferred(class) == {PreferenceOrder(class)[i] : i \in DOMAIN PreferenceOrder(class)}

(* The one of them that the order of preference names first.               *)
FirstOf(class, some) ==
    CHOOSE a \in some : \E i \in DOMAIN PreferenceOrder(class) :
        /\ PreferenceOrder(class)[i] = a
        /\ \A j \in 1..(i - 1) : PreferenceOrder(class)[j] \notin some

(* The first adapter of the preference order that is allowed, available    *)
(* and within localOnly; the manual gate if there is none.                 *)
Selected(class, available, c) ==
    LET usable == {a \in Preferred(class) \intersect available :
                      IsAdapterAllowed(a, c) /\ ~(RequiresNetwork(a) /\ c.localOnly)}
    IN IF usable = {} THEN "manual-gate" ELSE FirstOf(class, usable)

(* Equal-or-safer adapters; they are tried in the order of preference.     *)
FallbackChain(class, selected, available, c) ==
    IF c.allowFallback
    THEN {a \in (Preferred(class) \intersect available) \ {selected} :
             IsAdapterAllowed(a, c) /\ IsFallbackSafe(selected, a, c)}
    ELSE {}

PlanToolExecution(class, available) ==
    LET c == Constraints(class)
        selected == Selected(class, available, c)
    IN [selected |-> selected,
        mode |-> ExecutionModeOf(selected, class),
        fallbacks |-> FallbackChain(class, selected, available, c),
        approvalRequired |-> \/ class \in {"production_deploy", "billing_payment"}
                             \/ selected = "manual-gate",
        proofRequired |-> TRUE]

(***************************************************************************)
(* Execution.  A result is its status and whether proof was collected; ctx *)
(* is [approved, fake, safety, pack, plain]: the caller's approval, fake   *)
(* adapters (CI), the safety class of the task text, a context pack given, *)
(* and no shell metacharacter in the task text.                            *)
(***************************************************************************)
Result(status, proof) == [status |-> status, proof |-> proof]

ExecutionStatuses == {"executed", "failed", "skipped", "blocked", "approval_required"}
ToolExecutionResults == [status : ExecutionStatuses, proof : BOOLEAN]

SafetyClasses == {"sandbox_safe", "needs_approval", "forbidden"}

(* The pack is put in front of the task as lines of text, and a newline is *)
(* a metacharacter of validateCommandSafety.                               *)
CommandSafe(ctx) == ~ctx.pack /\ ctx.plain

(* The command runs after the version check and the argument check.        *)
RunDelegated(ctx) ==
    {Result("skipped", FALSE), Result("failed", FALSE)}
        \union IF CommandSafe(ctx)
               THEN {Result("blocked", TRUE), Result("executed", TRUE)}
               ELSE {}

(* Slip: the safety class of the task is not asked for.                    *)
SlipAnyTaskRuns(ctx) == RunDelegated(ctx)

ExecuteDelegated(ctx) ==
    CASE ctx.safety = "forbidden" -> {Result("blocked", TRUE)}
      [] ctx.safety = "needs_approval" /\ ~ctx.approved -> {Result("approval_required", FALSE)}
      [] OTHER -> RunDelegated(ctx)

ExecuteFake(ctx) ==
    IF ctx.safety = "forbidden" THEN {Result("blocked", TRUE)} ELSE {Result("executed", TRUE)}

ExecuteSemgrep(ctx) ==
    IF ctx.fake
    THEN {Result("executed", TRUE)}
    ELSE {Result("skipped", FALSE), Result("failed", FALSE), Result("executed", TRUE)}

ExecutePlaywrightProof(ctx) == ExecuteSemgrep(ctx)

(* Blocked when the task asks to trigger a workflow.                       *)
ExecuteGitHubActionsProof(ctx) == ExecuteSemgrep(ctx) \union {Result("blocked", FALSE)}

(* A fixed local command chosen by a word of the task: node --version when *)
(* no other word matches.                                                  *)
ExecuteDeterministicLocal == {Result("executed", TRUE), Result("failed", FALSE)}

ExecuteScanner == {Result("executed", TRUE), Result("failed", FALSE)}

ExecuteManualGate == {Result("blocked", TRUE)}

(* The results one call of executeAdapter may return.                      *)
ExecuteAdapter(a, approvalRequired, ctx) ==
    CASE approvalRequired /\ ~ctx.approved -> {Result("approval_required", FALSE)}
      [] OTHER ->
            CASE a \in Delegated /\ ctx.fake -> ExecuteFake(ctx)
              [] a \in Delegated /\ ~ctx.fake -> ExecuteDelegated(ctx)
              [] a = "semgrep" -> ExecuteSemgrep(ctx)
              [] a = "playwright-proof" -> ExecutePlaywrightProof(ctx)
              [] a = "github-actions" -> ExecuteGitHubActionsProof(ctx)
              [] a = "deterministic-local" -> ExecuteDeterministicLocal
              [] a = "scanner" -> ExecuteScanner
              [] a = "manual-gate" -> ExecuteManualGate

(***************************************************************************)
(* Multi-agent review: triggers, the reviewer and the final verdict.       *)
(***************************************************************************)
MaxReviewRounds == 3

ShouldTriggerReview(class, risk, proofRequired) ==
    /\ class # "deterministic_check"
    /\ \/ risk = "high" /\ class \in {"security_review", "production_deploy"}
       \/ proofRequired /\ risk # "low"

ReviewerOf(executor) ==
    CASE executor \in {"codex", "gemini-cli"} -> "claude-code"
      [] OTHER -> "codex"

ReviewAnswers == {"approved", "rejected", "needs_changes", "inconclusive"}

(* A stop condition stands for "none" while rounds are left.               *)
MultiAgentReviews ==
    [stop : {"none", "REVIEWER_APPROVED", "VERIFIER_OVERRIDE", "REVIEWER_DISAGREEMENT",
             "MAX_REVIEW_ROUNDS_REACHED"},
     verdict : ReviewAnswers \union {"none"}, verified : BOOLEAN]

(* What a review round may answer, given what the reviewer's run returned. *)
ReviewVerdicts(result) == IF result.status = "executed" THEN ReviewAnswers ELSE {"inconclusive"}

(* What the verifier may say: fake proof metadata passes, otherwise words  *)
(* of the executor's output decide.                                        *)
VerifierAnswers(proof, fakeProof) ==
    CASE ~proof -> {FALSE} [] proof /\ fakeProof -> {TRUE} [] OTHER -> BOOLEAN

StopConditions == {"REVIEWER_APPROVED", "VERIFIER_OVERRIDE", "REVIEWER_DISAGREEMENT",
                   "MAX_REVIEW_ROUNDS_REACHED"}

(* Slip: the reviewer's word is enough.                                    *)
SlipConsensusIsProof(n, verdict, verified) ==
    CASE verdict = "approved" -> "REVIEWER_APPROVED"
      [] verdict = "rejected" /\ n >= 2 -> "REVIEWER_DISAGREEMENT"
      [] n = MaxReviewRounds /\ verdict \in {"needs_changes", "inconclusive"}
            -> "MAX_REVIEW_ROUNDS_REACHED"
      [] OTHER -> "none"

(* The stop condition of round n, or "none" to go on.                      *)
StopAfterRound(n, verdict, verified) ==
    CASE verdict = "approved" -> IF verified THEN "REVIEWER_APPROVED" ELSE "VERIFIER_OVERRIDE"
      [] verdict = "rejected" /\ n >= 2 -> "REVIEWER_DISAGREEMENT"
      [] verdict # "approved" /\ ~(verdict = "rejected" /\ n >= 2) /\ n = MaxReviewRounds
            -> "MAX_REVIEW_ROUNDS_REACHED"
      [] OTHER -> "none"

FinalVerdict(stop, last) ==
    CASE stop \in {"VERIFIER_OVERRIDE", "REVIEWER_DISAGREEMENT"} -> "rejected"
      [] stop = "MAX_REVIEW_ROUNDS_REACHED" -> "inconclusive"
      [] OTHER -> last

RoutedToManualGate(stop) ==
    stop \in {"VERIFIER_OVERRIDE", "REVIEWER_DISAGREEMENT", "MAX_REVIEW_ROUNDS_REACHED"}
=============================================================================
