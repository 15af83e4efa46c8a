---------------------------- MODULE RuntimeFlow -----------------------------
(***************************************************************************)
(* runRuntimeSession (capabilities/runtime-flow/index.ts): one task at a   *)
(* time goes through the work contract, the gate, the tool plan, its       *)
(* execution, the review, the layers that only record, and the write of    *)
(* the session record, which validateRuntimeSession may refuse.            *)
(*                                                                         *)
(* The function is sequential; what TLC explores is what may fail or be    *)
(* answered at each step: which tools are found, what a tool returns, what *)
(* a reviewer says, which stage throws and is passed over.  A session      *)
(* whose gate is not "allow" runs the plan as well, before the record is   *)
(* written and without session or context.                                 *)
(***************************************************************************)
EXTENDS WorkContract, ToolAdapters, ModelRouting, FiniteSets

CONSTANTS Tasks,      \* the tasks users bring
          Machines    \* what detection may find: sets of the descriptors' signals

ASSUME TasksAssumption == \A t \in Tasks : t.kind \in Kinds /\ t.safety \in SafetyClasses

VARIABLES stage,      \* where the function is
          task,       \* what the classifiers made of the task
          plan,       \* plannedToolExecution, or NoPlan
          rest,       \* adapters still to be tried: the selected one and its fallbacks
          outcome,    \* [by, status, proof]: what execution has come to so far
          session,    \* base.session exists
          pack,       \* executorContextPack exists
          rounds,     \* review rounds done
          review,     \* [stop, verdict, verified]: multiAgentReview, or NoReview
          record      \* the record last written, or NoRecord

vars == <<stage, task, plan, rest, outcome, session, pack, rounds, review, record>>

NoTask == [gate |-> "none"]
NoPlan == [selected |-> "none"]
NoOutcome == [by |-> "none", status |-> "not_run", proof |-> FALSE]
NoReview == [stop |-> "none", verdict |-> "none", verified |-> FALSE]
NoRecord == [gate |-> "none"]

(* The model routing of a task: a rejected route is replaced by a          *)
(* projection without model (its list of violations is left out).          *)
SafeFallbackProjection ==
    [primitive |-> "deterministic_local_read", profile |-> "none", status |-> "verifier_rejected",
     provider |-> "none", fallbacks |-> <<>>, plan |-> <<>>, assist |-> FALSE]

RoutingFrame(t, c, risk) ==
    [taskType |-> CASE c.route = "deterministic_only" -> "docs"
                    [] c.route = "blocked" -> "deploy"
                    [] OTHER -> "code_generation",
     risk |-> risk, external |-> FALSE, browser |-> FALSE, mcp |-> FALSE,
     write |-> FALSE, deep |-> FALSE,
     deterministic |-> c.route = "deterministic_only",
     secrets |-> t.secret, dataSensitivity |-> IF t.secret THEN "high" ELSE "low",
     prod |-> t.prod \/ c.route = "blocked" \/ c.approval = "blocked",
     pay |-> t.pay, auth |-> t.auth, dashboard |-> t.dashboard, copy |-> t.copy]

RouteModel(t, c, risk) ==
    LET routed == RouteCanonical(RoutingFrame(t, c, risk), c.approval)
    IN IF routed.valid THEN routed.projection ELSE SafeFallbackProjection

(* What the flow makes of a task before it plans: the contract, the two    *)
(* gates, the model routing, and the task class of the planner.            *)
Classify(t) ==
    LET c == RouteWorkContract(t)
        verdict == EvaluateActionWorthiness(t, c)
        risk == IF c.risk = "critical" THEN "high" ELSE c.risk
        flags == [prod |-> t.prod \/ c.route = "blocked" \/ c.approval = "blocked",
                  pay |-> t.pay, auth |-> t.auth, high |-> risk = "high",
                  ci |-> t.ci, browser |-> t.browser,
                  deterministic |-> c.route = "deterministic_only"]
    IN [gate |-> MergeRuntimeGate(RouteGate(c), verdict), verdict |-> verdict,
        class |-> ClassOf(flags), risk |-> risk, model |-> RouteModel(t, c, risk),
        safety |-> t.safety, plain |-> t.plain, fake |-> t.fake]

Classified == {Classify(t) : t \in Tasks}

Reset ==
    /\ plan' = NoPlan /\ rest' = {} /\ outcome' = NoOutcome
    /\ session' = FALSE /\ pack' = FALSE /\ rounds' = 0 /\ review' = NoReview

Init ==
    /\ stage = "idle" /\ task = NoTask /\ plan = NoPlan /\ rest = {} /\ outcome = NoOutcome
    /\ session = FALSE /\ pack = FALSE /\ rounds = 0 /\ review = NoReview /\ record = NoRecord

(* Routing, the work controls and the gate.                                *)
Begin(classified) ==
    /\ stage = "idle"
    /\ task' = classified
    /\ stage' = "plan"
    /\ record' = NoRecord
    /\ UNCHANGED <<plan, rest, outcome, session, pack, rounds, review>>

(* planToolExecution on what the machine has.  A gate that is not "allow"  *)
(* goes straight to the execution.                                         *)
PlanTools(machine) ==
    /\ stage = "plan"
    /\ plan' = PlanToolExecution(task.class,
                  DetectAllTools(IF task.fake THEN machine \union {"CI"} ELSE machine))
    /\ rest' = {plan'.selected} \union plan'.fallbacks
    /\ stage' = IF task.gate = "allow" THEN "session" ELSE "execute"
    /\ UNCHANGED <<task, outcome, session, pack, rounds, review, record>>

(* Detection or planning throws: the catch writes the safe projection and  *)
(* nothing is executed.                                                    *)
PlanThrows ==
    /\ stage = "plan"
    /\ stage' = IF task.gate = "allow" THEN "session" ELSE "write"
    /\ UNCHANGED <<task, plan, rest, outcome, session, pack, rounds, review, record>>

(* startSession, which may fail: the layer is then "unavailable".          *)
StartSession(ok) ==
    /\ stage = "session"
    /\ session' = ok
    /\ stage' = "context"
    /\ UNCHANGED <<task, plan, rest, outcome, pack, rounds, review, record>>

(* compileContext and buildContextPack; no pack when the compiler fails.   *)
CompileContext(ok) ==
    /\ stage = "context"
    /\ pack' = ok
    /\ stage' = IF plan = NoPlan THEN "layers" ELSE "execute"
    /\ UNCHANGED <<task, plan, rest, outcome, session, rounds, review, record>>

(* Slip: the gate alone approves.                                          *)
SlipGateApproves(gate, approvalRequired) == gate = "allow"

(* The approval the execution context carries.                             *)
Approved(gate, approvalRequired) == gate = "allow" /\ ~approvalRequired

ExecutionContext ==
    [approved |-> Approved(task.gate, plan.approvalRequired),
     fake |-> task.fake, safety |-> task.safety, pack |-> pack, plain |-> task.plain]

AfterExecution(status) ==
    CASE task.gate # "allow" -> "write"
      [] /\ task.gate = "allow" /\ status = "executed"
         /\ ShouldTriggerReview(task.class, task.risk, plan.proofRequired) -> "review"
      [] OTHER -> "layers"

(* The selected adapter, then its fallbacks in the order of preference.    *)
NextAdapter ==
    IF plan.selected \in rest THEN plan.selected ELSE FirstOf(task.class, rest)

(* One adapter of runToolExecution.  The selected one's result stands      *)
(* unless it failed and a fallback was executed or blocked.                *)
Attempt(result) ==
    LET adapter == NextAdapter
        first == outcome = NoOutcome
        taken == first \/ result.status \in {"executed", "blocked"}
        over == \/ first /\ result.status # "failed"
                \/ ~first /\ taken
                \/ rest = {adapter}
        standing == IF taken THEN [by |-> adapter, status |-> result.status, proof |-> result.proof]
                    ELSE outcome
    IN /\ stage = "execute"
       /\ rest # {}
       /\ result \in ExecuteAdapter(adapter, plan.approvalRequired, ExecutionContext)
       /\ outcome' = standing
       /\ rest' = IF over THEN {} ELSE rest \ {adapter}
       /\ stage' = IF over THEN AfterExecution(standing.status) ELSE "execute"
       /\ UNCHANGED <<task, plan, session, pack, rounds, review, record>>

(* A delegated tool's sandbox directory cannot be made or read: the catch  *)
(* forgets what was executed.                                              *)
AttemptThrows ==
    /\ stage = "execute"
    /\ rest # {}
    /\ NextAdapter \in Delegated /\ ~task.fake /\ task.safety = "sandbox_safe"
    /\ ~plan.approvalRequired
    /\ outcome' = NoOutcome
    /\ rest' = {}
    /\ stage' = AfterExecution("not_run")
    /\ UNCHANGED <<task, plan, session, pack, rounds, review, record>>

(* A round of executeMultiAgentReview.  The reviewer's prompt is a text of *)
(* its own, with its own safety class, given with approvalRequired FALSE;  *)
(* the fake reviewer approves.  verified is asked only on approval.        *)
ReviewerContext(safety, plain) ==
    [ExecutionContext EXCEPT !.safety = safety, !.plain = plain]

ReviewRound(verdict, verified) ==
    LET n == rounds + 1
        stop == StopAfterRound(n, verdict, verified)
        answers == IF task.fake THEN {"approved"} ELSE
            UNION {ReviewVerdicts(r) : r \in UNION
                {ExecuteAdapter(ReviewerOf(plan.selected), FALSE, ReviewerContext(s, p)) :
                    s \in SafetyClasses, p \in BOOLEAN}}
    IN /\ stage = "review"
       /\ verdict \in answers
       /\ verified \in IF verdict = "approved"
                       THEN VerifierAnswers(outcome.proof, task.fake /\ outcome.by \in ProofAdapters)
                       ELSE {FALSE}
       /\ rounds' = n
       /\ review' = IF stop = "none" THEN NoReview
                    ELSE [stop |-> stop, verdict |-> FinalVerdict(stop, verdict), verified |-> verified]
       /\ stage' = IF stop = "none" THEN "review" ELSE "layers"
       /\ UNCHANGED <<task, plan, rest, outcome, session, pack, record>>

(* A reviewer's sandbox fails: there is no review.                         *)
ReviewThrows ==
    /\ stage = "review"
    /\ ~task.fake
    /\ review' = NoReview
    /\ stage' = "layers"
    /\ UNCHANGED <<task, plan, rest, outcome, session, pack, rounds, record>>

(* Context check, continuity, token cost, proof report, value ledger and   *)
(* efficiency sync: each is passed over when it throws.  EvidenceLedger    *)
(* models what they share.                                                 *)
RunLayers ==
    /\ stage = "layers"
    /\ stage' = "write"
    /\ UNCHANGED <<task, plan, rest, outcome, session, pack, rounds, review, record>>

(* The part of a record about its tool.                                    *)
ToolRoutingProjections ==
    [selected : Adapters, by : Adapters \union {"none"}, status : ExecutionStatuses \union {"not_run"},
     safety : SafetyClasses, stop : StopConditions \union {"none"}, review : ReviewAnswers \union {"none"}]

(* What the record says; without a plan it is the projection of the catch. *)
(* Every result of an adapter comes with a receipt, "tpr_...".  A delegated *)
(* execution that came to an end has no failure reason.  What a proof      *)
(* adapter made, and the refusal of github-actions, has its metadata, and  *)
(* buildProofMetadata always marks them sanitized.                         *)
RecordOf ==
    [gate |-> task.gate, verdict |-> task.verdict, class |-> task.class, model |-> task.model,
     session |-> session, downstream |-> task.gate = "allow",
     selected |-> IF plan = NoPlan THEN "deterministic-local" ELSE plan.selected, by |-> outcome.by, status |-> outcome.status,
     safety |-> task.safety, stop |-> review.stop, review |-> review.verdict,
     receipt |-> outcome.by # "none",
     delegated |-> outcome.by \in Delegated /\ outcome.status = "executed",
     metadata |-> IF outcome.by \in ProofAdapters /\ outcome.status \in {"executed", "blocked"}
                  THEN "sanitized" ELSE "none"]

(* The invariants of validateRuntimeSession that depend on what the flow   *)
(* did; the others, that nothing raw is kept and no model decides, are     *)
(* constants of the record.                                                *)
ValidateRuntimeSession(r) ==
    /\ r.verdict = "block" => r.gate = "blocked"
    /\ r.verdict \in {"require_approval", "suggest_safer_action"} => r.gate # "allow"
    /\ r.gate = "blocked" => ~r.session /\ ~r.downstream
    /\ r.gate = "require_approval" => ~r.session
    /\ r.metadata \in {"none", "sanitized"}
    /\ r.status = "executed" => r.receipt
    /\ r.delegated => r.safety # "forbidden"

(* writeRuntimeSession: the record is written if it is valid; otherwise,   *)
(* or when the disk refuses, a warning is all there is.                    *)
WriteRecord(ok) ==
    /\ stage = "write"
    /\ record' = IF ok /\ ValidateRuntimeSession(RecordOf) THEN RecordOf ELSE NoRecord
    /\ stage' = "idle"
    /\ task' = NoTask
    /\ Reset

Next ==
    \/ \E classified \in Classified : Begin(classified)
    \/ \E machine \in Machines : PlanTools(machine)
    \/ PlanThrows
    \/ \E ok \in BOOLEAN : StartSession(ok) \/ CompileContext(ok) \/ WriteRecord(ok)
    \/ \E result \in ToolExecutionResults : Attempt(result)
    \/ AttemptThrows
    \/ \E v \in ReviewAnswers, b \in BOOLEAN : ReviewRound(v, b)
    \/ ReviewThrows
    \/ RunLayers

Spec == Init /\ [][Next]_vars
-----------------------------------------------------------------------------

(* What the classifiers make of the tasks is well formed.                  *)
TaskTypesOK ==
    /\ \A t \in Tasks : RouteWorkContract(t) \in EnrichedWorkContracts
    /\ \A c \in Classified : c.verdict \in ActionVerdicts /\ c.model \in Projections

TypeOK ==
    /\ stage \in {"idle", "plan", "session", "context", "execute", "review", "layers", "write"}
    /\ stage = "idle" <=> task = NoTask
    /\ task # NoTask => task.gate \in Gates /\ task.class \in TaskClasses
    /\ plan # NoPlan => plan \in ToolExecutionPlans
    /\ rest \subseteq Adapters
    /\ \/ outcome = NoOutcome
       \/ outcome.by \in Adapters /\ Result(outcome.status, outcome.proof) \in ToolExecutionResults
    /\ session \in BOOLEAN /\ pack \in BOOLEAN
    /\ rounds \in 0..MaxReviewRounds
    /\ review \in MultiAgentReviews
    /\ record # NoRecord =>
          [f \in {"selected", "by", "status", "safety", "stop", "review"} |-> record[f]] \in ToolRoutingProjections

(* A fallback never goes to an adapter that keeps data less private, or    *)
(* may carry more risk, than the adapter the policy selected: neither the  *)
(* one whose result stands nor any that is still to be tried               *)
(* (isFallbackSafe, runToolExecution).                                     *)
FallbackKeepsPrivacy ==
    plan # NoPlan =>
        \A a \in (rest \union {outcome.by}) \ {"none"} :
            /\ DataPolicyRank[a] <= DataPolicyRank[plan.selected]
            /\ RiskRank[a] <= RiskRank[plan.selected]

(* Nothing runs for a task of the production or billing class, even when   *)
(* the gate let it in: these classes ask for an approval that the flow     *)
(* never has (the two places that build the execution context).  And a     *)
(* production task is given to no model: its route is blocked, or the      *)
(* verifier replaced it.                                                   *)
UnapprovedRiskNeverExecutes ==
    /\ task # NoTask /\ task.class \in {"production_deploy", "billing_payment"}
         => outcome.status \notin {"executed", "failed", "skipped"}
    /\ task # NoTask /\ task.class = "production_deploy" => ~task.model.assist

(* A finished review either approved with the verifier's word, or sent the *)
(* work to the manual gate: a reviewer's approval alone proves nothing     *)
(* (executeMultiAgentReview).                                              *)
ReviewFailsClosed ==
    review # NoReview =>
        \/ review.verdict = "approved" /\ review.verified
        \/ review.verdict # "approved" /\ RoutedToManualGate(review.stop)

(* The flow never builds a record its own validation refuses, for a        *)
(* refused record is lost with a warning (safeWriteRuntimeSession): a gate *)
(* that does not allow leaves no session behind, and no tool has done a    *)
(* forbidden task, neither the selected one nor a fallback, fake or real.  *)
RecordsValidate == stage = "write" => ValidateRuntimeSession(RecordOf)

(* "Tool Adapters cannot: bypass WorkContract gate"                        *)
(* (docs/architecture/routing-execution-ownership-contract.md): a session  *)
(* whose gate is not "allow" executes nothing.                             *)
GatedRunsNothing == record # NoRecord /\ record.gate # "allow" => record.status # "executed"
=============================================================================
