------------------------- MODULE RuntimeFlow_proofs --------------------------
(***************************************************************************)
(* Theorems about RuntimeFlow, for every set of tasks and of machines, and *)
(* about the layers its stage "layers" stands for (EvidenceLedger), for    *)
(* every set of processes and of imports.                                  *)
(***************************************************************************)
EXTENDS RuntimeFlow, EvidenceLedger, FiniteSetTheorems, SequenceTheorems, WellFoundedInduction, TLAPS

Risky == {"production_deploy", "billing_payment"}
Standing == rest \union {outcome.by}

(* What the classifiers and the model routing hand to the flow.            *)
WellClassified(c) ==
    /\ c.gate \in Gates /\ c.class \in TaskClasses /\ c.safety \in SafetyClasses
    /\ c.verdict = "block" => c.gate = "blocked"
    /\ c.verdict \in {"require_approval", "suggest_safer_action"} => c.gate # "allow"
    /\ c.class = "production_deploy" => ~c.model.assist

(* No fallback of a plan is worse than what it falls back from.            *)
NoWorse(a, selected) ==
    /\ a \in Adapters
    /\ DataPolicyRank[a] <= DataPolicyRank[selected]
    /\ RiskRank[a] <= RiskRank[selected]

PlanFacts ==
    \/ plan = NoPlan /\ rest = {} /\ outcome = NoOutcome
    \/ /\ plan \in ToolExecutionPlans /\ task # NoTask
       /\ task.class \in Risky => plan.approvalRequired
       /\ \A a \in Standing \ {"none"} : NoWorse(a, plan.selected)
       /\ rest \ {plan.selected} \subseteq Preferred(task.class)

(* Where the function is, and what it has by then.                         *)
StageFacts ==
    /\ stage \in {"idle", "plan"} =>
         plan = NoPlan /\ session = FALSE /\ review = NoReview /\ rounds = 0
    /\ stage = "execute" => plan # NoPlan
    /\ stage \in {"session", "context", "review", "layers"} => task.gate = "allow"
    /\ stage \notin {"review", "layers", "write", "idle"} => review = NoReview /\ rounds = 0
    /\ stage = "review" => rounds < MaxReviewRounds
    /\ task # NoTask /\ task.gate # "allow" => session = FALSE

(* What was executed, for a task that needs an approval: nothing; and a    *)
(* forbidden task was done by no delegated tool.                           *)
OutcomeFacts ==
    /\ task # NoTask /\ task.class \in Risky => outcome.status \in {"not_run", "approval_required"}
    /\ task # NoTask /\ outcome.by \in Delegated /\ outcome.status = "executed"
         => task.safety # "forbidden"

FlowInv ==
    /\ TypeOK
    /\ task = NoTask \/ WellClassified(task)
    /\ PlanFacts /\ StageFacts /\ OutcomeFacts /\ ReviewFailsClosed
-----------------------------------------------------------------------------
(* Operators.                                                              *)

(* A production task is given to no model.                                 *)
LEMMA ProductionHasNoModel ==
    ASSUME NEW f, NEW approval, f.prod, RouteCanonical(f, approval).valid
    PROVE  ~RouteCanonical(f, approval).projection.assist
<1> DEFINE decision == RoutePrimitive(f)
           resolution == ResolveModel(decision.profile, DEFAULT_PROVIDER_CONSTRAINTS,
                                      DEFAULT_CONTEXT_SIGNALS, approval)
           projection == CreateSafeProjection(decision, resolution, BuildCascade(f, decision))
<1>1. /\ RouteCanonical(f, approval).projection = projection
      /\ RouteCanonical(f, approval).valid = VerifyRoutingDecision(f, projection, resolution.models)
  BY DEF RouteCanonical
<1>2. projection.primitive = "stop_blocked"
  BY <1>1 DEF VerifyRoutingDecision
<1>3. projection.primitive = decision.primitive
      /\ projection.assist = (decision.profile # "none" /\ decision.primitive \notin {"stop_blocked", "no_action"})
  BY DEF CreateSafeProjection
<1> QED BY <1>1, <1>2, <1>3

(* The class of a task, and what it says of production.                    *)
LEMMA ClassFacts ==
    ASSUME NEW flags
    PROVE  /\ ClassOf(flags) \in TaskClasses
           /\ ClassOf(flags) = "production_deploy" => flags.prod
  BY DEF ClassOf, TaskClasses

(* The gate of a session is no weaker than the verdict of the work         *)
(* controls.                                                               *)
LEMMA GateFacts ==
    ASSUME NEW base, NEW verdict
    PROVE  LET gate == MergeRuntimeGate(base, verdict)
           IN  /\ gate \in Gates
               /\ verdict = "block" => gate = "blocked"
               /\ verdict \in {"require_approval", "suggest_safer_action"} => gate # "allow"
  BY DEF MergeRuntimeGate, Gates

(* So every task is well classified.                                       *)
LEMMA TasksWellClassified ==
    ASSUME NEW c \in Classified
    PROVE  WellClassified(c) /\ c # NoTask
<1>1. PICK t \in Tasks : c = Classify(t)
  BY DEF Classified
<1> DEFINE k == RouteWorkContract(t)
           verdict == EvaluateActionWorthiness(t, k)
           risk == IF k.risk = "critical" THEN "high" ELSE k.risk
           prod == t.prod \/ k.route = "blocked" \/ k.approval = "blocked"
           flags == [prod |-> prod, pay |-> t.pay, auth |-> t.auth, high |-> risk = "high",
                     ci |-> t.ci, browser |-> t.browser,
                     deterministic |-> k.route = "deterministic_only"]
<1>2. /\ c.gate = MergeRuntimeGate(RouteGate(k), verdict) /\ c.verdict = verdict
      /\ c.class = ClassOf(flags) /\ c.model = RouteModel(t, k, risk) /\ c.safety = t.safety
  BY <1>1 DEF Classify
<1>3. flags.prod => ~c.model.assist
  <2> SUFFICES ASSUME prod PROVE ~RouteModel(t, k, risk).assist
    BY <1>2
  <2> HIDE DEF k, risk
  <2>1. RoutingFrame(t, k, risk).prod
    BY DEF RoutingFrame
  <2>2. ~SafeFallbackProjection.assist
    BY DEF SafeFallbackProjection
  <2> QED BY <2>1, <2>2, ProductionHasNoModel DEF RouteModel
<1>4. t.safety \in SafetyClasses
  BY TasksAssumption
<1> HIDE DEF flags, verdict, k, risk
<1>5. WellClassified(c)
  BY <1>2, <1>3, <1>4, ClassFacts, GateFacts DEF WellClassified
<1> QED BY <1>5 DEF WellClassified, NoTask, Gates

(* Ranks are numbers.                                                      *)
LEMMA RanksAreNumbers ==
    ASSUME NEW a \in Adapters
    PROVE  DataPolicyRank[a] \in 0..3 /\ RiskRank[a] \in 0..3
<1>1. \E d \in AllDescriptors : d.id = a
  BY DEF Adapters, Delegated, ProofAdapters, BuiltIns, AllDescriptors, Descriptor, claudeCode,
     codex, geminiCli, aider, semgrep, playwrightProof, githubActions, deterministicLocal,
     scanner, manualGate
<1>2. GetDescriptor[a] \in AllDescriptors
  BY <1>1 DEF GetDescriptor
<1> DEFINE Ranked(d) == /\ d.dataPolicy \in {"local_only", "zdr", "no_training"}
                        /\ d.riskCeiling \in {"low", "medium", "high", "critical"}
<1>3. \A d \in AllDescriptors : Ranked(d)
  <2>1. Ranked(claudeCode)
    BY DEF claudeCode, Descriptor
  <2>2. Ranked(codex)
    BY DEF codex, Descriptor
  <2>3. Ranked(geminiCli)
    BY DEF geminiCli, Descriptor
  <2>4. Ranked(aider)
    BY DEF aider, Descriptor
  <2>5. Ranked(semgrep)
    BY DEF semgrep, Descriptor
  <2>6. Ranked(playwrightProof)
    BY DEF playwrightProof, Descriptor
  <2>7. Ranked(githubActions)
    BY DEF githubActions, Descriptor
  <2>8. Ranked(deterministicLocal)
    BY DEF deterministicLocal, Descriptor
  <2>9. Ranked(scanner)
    BY DEF scanner, Descriptor
  <2>10. Ranked(manualGate)
    BY DEF manualGate, Descriptor
  <2> HIDE DEF Ranked
  <2> QED BY <2>1, <2>2, <2>3, <2>4, <2>5, <2>6, <2>7, <2>8, <2>9, <2>10
    DEF AllDescriptors
<1>4. \A x \in {"local_only", "zdr", "no_training", "low", "medium", "high", "critical"} :
         RankOf[x] \in 0..3
  BY DEF RankOf
<1> QED BY <1>2, <1>3, <1>4 DEF DataPolicyRank, RiskRank

(* An order of preference names adapters.                                  *)
LEMMA PreferredAdapters ==
    ASSUME NEW class \in TaskClasses
    PROVE  Preferred(class) \subseteq Adapters /\ DOMAIN PreferenceOrder(class) \subseteq 1..6
  BY DEF Preferred, PreferenceOrder, TaskClasses, Adapters, Delegated, ProofAdapters, BuiltIns

(* The first of some adapters that the order names is one of them.         *)
LEMMA FirstIsOne ==
    ASSUME NEW class \in TaskClasses, NEW some \in SUBSET Preferred(class), some # {}
    PROVE  FirstOf(class, some) \in some
<1> DEFINE order == PreferenceOrder(class)
<1>1. \E i \in DOMAIN order : order[i] \in some /\ \A j \in 1..(i - 1) : order[j] \notin some
  BY DEF Preferred, PreferenceOrder, TaskClasses
<1> HIDE DEF order
<1>2. \E a \in some : \E i \in DOMAIN order : order[i] = a /\ \A j \in 1..(i - 1) : order[j] \notin some
  BY <1>1
<1> QED BY <1>2 DEF FirstOf, order

(* What a plan selects is an adapter, none of its fallbacks is worse, and  *)
(* the classes that need an approval ask for one.                          *)
LEMMA PlanIsSound ==
    ASSUME NEW class \in TaskClasses, NEW available
    PROVE  LET p == PlanToolExecution(class, available)
           IN  /\ p \in ToolExecutionPlans /\ p # NoPlan
               /\ class \in Risky => p.approvalRequired
               /\ \A a \in {p.selected} \union p.fallbacks : NoWorse(a, p.selected)
               /\ p.fallbacks \subseteq Preferred(class)
<1> DEFINE c == Constraints(class)
           selected == Selected(class, available, c)
           fallbacks == FallbackChain(class, selected, available, c)
           approvalRequired == class \in Risky \/ selected = "manual-gate"
           p == PlanToolExecution(class, available)
<1>1. p = [selected |-> selected, mode |-> ExecutionModeOf(selected, class),
           fallbacks |-> fallbacks, approvalRequired |-> approvalRequired, proofRequired |-> TRUE]
  BY DEF PlanToolExecution, Risky
<1>2. selected \in Adapters
  <2> DEFINE usable == {a \in Preferred(class) \intersect available :
                           IsAdapterAllowed(a, c) /\ ~(RequiresNetwork(a) /\ c.localOnly)}
  <2>1. selected = IF usable = {} THEN "manual-gate" ELSE FirstOf(class, usable)
    BY DEF Selected
  <2>2. usable \in SUBSET Preferred(class)
    OBVIOUS
  <2> HIDE DEF usable, selected
  <2>3. usable # {} => FirstOf(class, usable) \in Adapters
    BY <2>2, FirstIsOne, PreferredAdapters
  <2> QED BY <2>1, <2>3 DEF Adapters, BuiltIns
<1>3. ExecutionModeOf(selected, class) \in ExecutionModes
  BY DEF ExecutionModeOf, ExecutionModes
<1>4. c.keepPrivacy /\ c.keepProof
  BY DEF Constraints
<1>5. \A a \in fallbacks : a \in Preferred(class) /\ IsFallbackSafe(selected, a, c)
  BY DEF FallbackChain
<1>6. \A a \in fallbacks : NoWorse(a, selected)
  BY <1>4, <1>5, PreferredAdapters DEF IsFallbackSafe, NoWorse
<1>7. NoWorse(selected, selected)
  BY <1>2, RanksAreNumbers DEF NoWorse
<1> HIDE DEF selected, fallbacks, c
<1>8. fallbacks \in SUBSET Adapters
  BY <1>5, PreferredAdapters
<1>9. p \in ToolExecutionPlans
  BY <1>1, <1>2, <1>3, <1>8 DEF ToolExecutionPlans
<1>10. p.selected = selected /\ p.fallbacks = fallbacks /\ p.approvalRequired = approvalRequired
  BY <1>1
<1>11. p # NoPlan
  BY <1>1, <1>2, <1>10 DEF NoPlan, Adapters, Delegated, ProofAdapters, BuiltIns
<1> HIDE DEF p
<1> QED BY <1>5, <1>6, <1>7, <1>9, <1>10, <1>11 DEF p

(* Without an approval, an adapter that needs one does nothing.            *)
LEMMA UnapprovedRunsNothing ==
    ASSUME NEW a, NEW ctx, ~ctx.approved, NEW result \in ExecuteAdapter(a, TRUE, ctx)
    PROVE  result.status = "approval_required"
  BY DEF ExecuteAdapter, Result

(* No delegated tool does a forbidden task, be it real or fake.            *)
LEMMA ForbiddenIsNotDone ==
    ASSUME NEW a \in Delegated, NEW approvalRequired, NEW ctx, ctx.safety = "forbidden",
           NEW result \in ExecuteAdapter(a, approvalRequired, ctx)
    PROVE  result.status # "executed"
<1>1. CASE approvalRequired /\ ~ctx.approved
  BY <1>1 DEF ExecuteAdapter, Result
<1>2. CASE ~(approvalRequired /\ ~ctx.approved)
  <2>1. CASE ctx.fake
    <3>1. ExecuteAdapter(a, approvalRequired, ctx) = ExecuteFake(ctx)
      BY <1>2, <2>1 DEF ExecuteAdapter, Delegated
    <3> QED BY <3>1 DEF ExecuteFake, Result
  <2>2. CASE ~ctx.fake
    <3>1. ExecuteAdapter(a, approvalRequired, ctx) = ExecuteDelegated(ctx)
      BY <1>2, <2>2 DEF ExecuteAdapter, Delegated
    <3> QED BY <3>1 DEF ExecuteDelegated, Result
  <2> QED BY <2>1, <2>2
<1> QED BY <1>1, <1>2

(* A round that ends the review either has the verifier's word, or sends   *)
(* the work to the manual gate.                                            *)
LEMMA RoundFailsClosed ==
    ASSUME NEW n, NEW verdict \in ReviewAnswers, NEW verified \in BOOLEAN,
           StopAfterRound(n, verdict, verified) # "none"
    PROVE  LET stop == StopAfterRound(n, verdict, verified)
           IN  /\ stop \in StopConditions /\ FinalVerdict(stop, verdict) \in ReviewAnswers
               /\ \/ FinalVerdict(stop, verdict) = "approved" /\ verified
                  \/ FinalVerdict(stop, verdict) # "approved" /\ RoutedToManualGate(stop)
  BY DEF StopAfterRound, FinalVerdict, RoutedToManualGate, ReviewAnswers, StopConditions

(* There are no rounds without end.                                        *)
LEMMA LastRoundStops ==
    ASSUME NEW verdict \in ReviewAnswers, NEW verified \in BOOLEAN
    PROVE  StopAfterRound(MaxReviewRounds, verdict, verified) # "none"
  BY DEF StopAfterRound, ReviewAnswers, MaxReviewRounds
-----------------------------------------------------------------------------
(* Steps.                                                                  *)

(* A task comes in.                                                        *)
LEMMA BeginStep ==
    ASSUME FlowInv, NEW c \in Classified, Begin(c)
    PROVE  FlowInv'
<1>1. WellClassified(c) /\ c # NoTask
  BY TasksWellClassified
<1>2. /\ stage = "idle" /\ stage' = "plan" /\ task' = c /\ record' = NoRecord
      /\ UNCHANGED <<plan, rest, outcome, session, pack, rounds, review>>
  BY DEF Begin
<1>3. plan = NoPlan /\ rest = {} /\ outcome = NoOutcome
  BY <1>2 DEF FlowInv, PlanFacts, StageFacts, ToolExecutionPlans, NoPlan, Adapters, Delegated,
     ProofAdapters, BuiltIns
<1>4. TypeOK'
  BY <1>1, <1>2 DEF FlowInv, TypeOK, WellClassified
<1>5. PlanFacts' /\ StageFacts' /\ OutcomeFacts'
  BY <1>1, <1>2, <1>3 DEF FlowInv, PlanFacts, StageFacts, OutcomeFacts, NoOutcome
<1>6. ReviewFailsClosed'
  BY <1>2 DEF FlowInv, ReviewFailsClosed
<1> QED BY <1>1, <1>2, <1>4, <1>5, <1>6 DEF FlowInv

(* It is planned.                                                          *)
LEMMA PlanStep ==
    ASSUME FlowInv, NEW machine, PlanTools(machine)
    PROVE  FlowInv'
<1> DEFINE available == DetectAllTools(IF task.fake THEN machine \union {"CI"} ELSE machine)
           p == PlanToolExecution(task.class, available)
<1>1. /\ stage = "plan" /\ plan' = p /\ rest' = {p.selected} \union p.fallbacks
      /\ stage' = IF task.gate = "allow" THEN "session" ELSE "execute"
      /\ UNCHANGED <<task, outcome, session, pack, rounds, review, record>>
  BY DEF PlanTools
<1>2. task # NoTask /\ WellClassified(task) /\ task.class \in TaskClasses
  BY <1>1 DEF FlowInv, TypeOK, WellClassified
<1> HIDE DEF available
<1>3. /\ p \in ToolExecutionPlans /\ p # NoPlan
      /\ task.class \in Risky => p.approvalRequired
      /\ \A a \in {p.selected} \union p.fallbacks : NoWorse(a, p.selected)
      /\ p.fallbacks \subseteq Preferred(task.class)
  BY <1>2, PlanIsSound
<1> HIDE DEF p
<1>4. p.selected \in Adapters /\ p.fallbacks \subseteq Adapters
  BY <1>3 DEF ToolExecutionPlans
<1>5. plan = NoPlan /\ outcome = NoOutcome /\ outcome.by = "none" /\ session = FALSE
  BY <1>1 DEF FlowInv, PlanFacts, StageFacts, ToolExecutionPlans, NoPlan, Adapters, Delegated,
     ProofAdapters, BuiltIns, NoOutcome
<1>6. TypeOK'
  BY <1>1, <1>2, <1>3, <1>4 DEF FlowInv, TypeOK
<1>7. PlanFacts'
  BY <1>1, <1>2, <1>3, <1>5 DEF PlanFacts, Standing
<1>8. StageFacts' /\ OutcomeFacts' /\ ReviewFailsClosed'
  BY <1>1, <1>3, <1>5 DEF FlowInv, StageFacts, OutcomeFacts, ReviewFailsClosed
<1> QED BY <1>1, <1>6, <1>7, <1>8 DEF FlowInv

(* Session, context and layers come and go, or the plan cannot be made.    *)
LEMMA QuietSteps ==
    ASSUME FlowInv,
           \/ PlanThrows \/ RunLayers \/ ReviewThrows
           \/ \E ok \in BOOLEAN : StartSession(ok) \/ CompileContext(ok)
    PROVE  FlowInv'
<1>1. /\ UNCHANGED <<task, plan, rest, outcome, rounds, record>>
      /\ stage \in {"plan", "session", "context", "review", "layers"}
      /\ stage' \in {"session", "context", "execute", "layers", "write"}
  BY DEF PlanThrows, RunLayers, ReviewThrows, StartSession, CompileContext
<1>2. session' \in BOOLEAN /\ pack' \in BOOLEAN /\ review' \in {review, NoReview}
  BY DEF FlowInv, TypeOK, PlanThrows, RunLayers, ReviewThrows, StartSession, CompileContext
<1>3. NoReview \in MultiAgentReviews
  BY DEF NoReview, MultiAgentReviews
<1>4. TypeOK'
  BY <1>1, <1>2, <1>3 DEF FlowInv, TypeOK
<1>5. PlanFacts' /\ OutcomeFacts'
  BY <1>1 DEF FlowInv, PlanFacts, OutcomeFacts, Standing
<1>6. StageFacts'
  <2>1. CASE PlanThrows
    BY <2>1 DEF FlowInv, TypeOK, StageFacts, PlanThrows
  <2>2. CASE RunLayers \/ ReviewThrows
    BY <2>2 DEF FlowInv, TypeOK, StageFacts, RunLayers, ReviewThrows
  <2>3. CASE \E ok \in BOOLEAN : StartSession(ok) \/ CompileContext(ok)
    BY <2>3 DEF FlowInv, TypeOK, StageFacts, StartSession, CompileContext
  <2> QED BY <2>1, <2>2, <2>3
<1>7. ReviewFailsClosed'
  BY <1>2 DEF FlowInv, ReviewFailsClosed
<1> QED BY <1>1, <1>4, <1>5, <1>6, <1>7 DEF FlowInv

(* Where the flow goes after an execution.                                 *)
LEMMA AfterFacts ==
    ASSUME NEW status
    PROVE  /\ AfterExecution(status) \in {"write", "review", "layers"}
           /\ AfterExecution(status) # "write" => task.gate = "allow"
           /\ AfterExecution(status) = "write" => task.gate # "allow"
  BY DEF AfterExecution

(* An adapter is tried: it is one of those the plan allows, and without an *)
(* approval it does nothing.                                               *)
LEMMA AttemptStep ==
    ASSUME FlowInv, NEW result \in ToolExecutionResults, Attempt(result)
    PROVE  FlowInv'
<1> DEFINE adapter == NextAdapter
           first == outcome = NoOutcome
           taken == first \/ result.status \in {"executed", "blocked"}
           over == \/ first /\ result.status # "failed"
                   \/ ~first /\ taken
                   \/ rest = {adapter}
           got == [by |-> adapter, status |-> result.status, proof |-> result.proof]
           standing == IF taken THEN got ELSE outcome
<1>1. /\ stage = "execute" /\ rest # {}
      /\ result \in ExecuteAdapter(adapter, plan.approvalRequired, ExecutionContext)
      /\ outcome' = standing
      /\ rest' \in {{}, rest \ {adapter}}
      /\ stage' = IF over THEN AfterExecution(standing.status) ELSE "execute"
      /\ UNCHANGED <<task, plan, session, pack, rounds, review, record>>
  BY DEF Attempt
<1>2. plan # NoPlan /\ task # NoTask /\ plan \in ToolExecutionPlans
  BY <1>1 DEF FlowInv, TypeOK, StageFacts, PlanFacts
<1>3. adapter \in rest
  <2>1. CASE plan.selected \in rest
    BY <2>1 DEF NextAdapter
  <2>2. CASE plan.selected \notin rest
    <3>1. rest \subseteq Preferred(task.class) /\ task.class \in TaskClasses
      BY <1>2, <2>2 DEF FlowInv, PlanFacts, TypeOK
    <3> QED BY <1>1, <2>2, <3>1, FirstIsOne DEF NextAdapter
  <2> QED BY <2>1, <2>2
<1> HIDE DEF adapter
<1>4. adapter \in Adapters
  BY <1>3 DEF FlowInv, TypeOK
<1>5. /\ got.by = adapter /\ got.status = result.status
      /\ Result(got.status, got.proof) \in ToolExecutionResults
  BY DEF Result, ToolExecutionResults
<1>6. task.class \in Risky => result.status = "approval_required"
  <2> SUFFICES ASSUME task.class \in Risky PROVE result.status = "approval_required"
    OBVIOUS
  <2>1. plan.approvalRequired = TRUE
    BY <1>2 DEF FlowInv, PlanFacts, ToolExecutionPlans
  <2>2. ~ExecutionContext.approved
    BY <2>1 DEF ExecutionContext, Approved
  <2> QED BY <1>1, <2>1, <2>2, UnapprovedRunsNothing
<1>13. adapter \in Delegated /\ result.status = "executed" => task.safety # "forbidden"
  <2>1. ExecutionContext.safety = task.safety
    BY DEF ExecutionContext
  <2> QED BY <1>1, <2>1, ForbiddenIsNotDone
<1> HIDE DEF got
<1>7. /\ standing \in {got, outcome}
      /\ stage' \in {"execute", "write", "review", "layers"}
      /\ stage' \in {"review", "layers"} => task.gate = "allow"
  BY <1>1, AfterFacts
<1> HIDE DEF standing, over
<1>8. TypeOK'
  BY <1>1, <1>2, <1>4, <1>5, <1>7 DEF FlowInv, TypeOK
<1>9. PlanFacts'
  <2>1. Standing' \ {"none"} \subseteq Standing \ {"none"}
    BY <1>1, <1>3, <1>5, <1>7 DEF Standing
  <2>2. rest' \subseteq rest
    BY <1>1
  <2>3. UNCHANGED <<plan, task>>
    BY <1>1
  <2> HIDE DEF taken, first
  <2> QED BY <1>2, <2>1, <2>2, <2>3 DEF FlowInv, PlanFacts
<1>10. OutcomeFacts'
  BY <1>1, <1>5, <1>6, <1>7, <1>13 DEF FlowInv, OutcomeFacts
<1>11. StageFacts'
  BY <1>1, <1>2, <1>7 DEF FlowInv, StageFacts, MaxReviewRounds
<1>12. ReviewFailsClosed'
  BY <1>1 DEF FlowInv, ReviewFailsClosed
<1> QED BY <1>1, <1>8, <1>9, <1>10, <1>11, <1>12 DEF FlowInv

(* The sandbox cannot be made: what was executed is forgotten.             *)
LEMMA ThrowStep ==
    ASSUME FlowInv, AttemptThrows
    PROVE  FlowInv'
<1>1. /\ stage = "execute" /\ outcome' = NoOutcome /\ rest' = {}
      /\ stage' = AfterExecution("not_run")
      /\ UNCHANGED <<task, plan, session, pack, rounds, review, record>>
  BY DEF AttemptThrows
<1>2. /\ stage' \in {"write", "review", "layers"}
      /\ stage' \in {"review", "layers"} => task.gate = "allow"
  BY <1>1, AfterFacts
<1>3. plan # NoPlan /\ task # NoTask
  BY <1>1 DEF FlowInv, TypeOK, StageFacts
<1>4. outcome'.by = "none" /\ outcome'.status = "not_run"
  BY <1>1 DEF NoOutcome
<1>5. TypeOK'
  BY <1>1, <1>2, <1>3 DEF FlowInv, TypeOK
<1>6. PlanFacts' /\ OutcomeFacts' /\ ReviewFailsClosed'
  BY <1>1, <1>3, <1>4 DEF FlowInv, PlanFacts, OutcomeFacts, Standing, ReviewFailsClosed
<1>7. StageFacts'
  BY <1>1, <1>2, <1>3 DEF FlowInv, StageFacts, MaxReviewRounds
<1> QED BY <1>1, <1>5, <1>6, <1>7 DEF FlowInv

(* A reviewer answers.                                                     *)
LEMMA ReviewStep ==
    ASSUME FlowInv, NEW verdict \in ReviewAnswers, NEW verified \in BOOLEAN,
           ReviewRound(verdict, verified)
    PROVE  FlowInv'
<1> DEFINE n == rounds + 1
           stop == StopAfterRound(n, verdict, verified)
           final == [stop |-> stop, verdict |-> FinalVerdict(stop, verdict), verified |-> verified]
<1>1. /\ stage = "review" /\ rounds' = n
      /\ review' = IF stop = "none" THEN NoReview ELSE final
      /\ stage' = IF stop = "none" THEN "review" ELSE "layers"
      /\ UNCHANGED <<task, plan, rest, outcome, session, pack, record>>
  BY DEF ReviewRound
<1>2. n \in 1..MaxReviewRounds
  BY <1>1 DEF FlowInv, StageFacts, TypeOK, MaxReviewRounds
<1>3. stop # "none" =>
        /\ stop \in StopConditions /\ FinalVerdict(stop, verdict) \in ReviewAnswers
        /\ \/ FinalVerdict(stop, verdict) = "approved" /\ verified
           \/ FinalVerdict(stop, verdict) # "approved" /\ RoutedToManualGate(stop)
  BY RoundFailsClosed
<1>4. n = MaxReviewRounds => stop # "none"
  BY LastRoundStops
<1> HIDE DEF stop
<1>5. review' \in MultiAgentReviews
  BY <1>1, <1>3 DEF MultiAgentReviews, NoReview, StopConditions
<1>6. ReviewFailsClosed'
  BY <1>1, <1>3 DEF ReviewFailsClosed, NoReview
<1> HIDE DEF final
<1>7. TypeOK'
  BY <1>1, <1>2, <1>5 DEF FlowInv, TypeOK
<1>8. PlanFacts' /\ OutcomeFacts'
  BY <1>1 DEF FlowInv, PlanFacts, OutcomeFacts, Standing
<1>9. StageFacts'
  BY <1>1, <1>2, <1>4 DEF FlowInv, StageFacts, MaxReviewRounds
<1> QED BY <1>1, <1>6, <1>7, <1>8, <1>9 DEF FlowInv

(* What the record says of its tool is well formed.                        *)
LEMMA RecordWellFormed ==
    ASSUME FlowInv, stage = "write"
    PROVE  [f \in {"selected", "by", "status", "safety", "stop", "review"} |-> RecordOf[f]]
             \in ToolRoutingProjections
<1>1. task # NoTask /\ task.safety \in SafetyClasses
  BY DEF FlowInv, TypeOK, WellClassified
<1>2. outcome.by \in Adapters \union {"none"} /\ outcome.status \in ExecutionStatuses \union {"not_run"}
  <2>1. CASE outcome = NoOutcome
    BY <2>1 DEF NoOutcome
  <2>2. CASE outcome # NoOutcome
    BY <2>2 DEF FlowInv, TypeOK, Result, ToolExecutionResults
  <2> QED BY <2>1, <2>2
<1>3. review.stop \in StopConditions \union {"none"} /\ review.verdict \in ReviewAnswers \union {"none"}
  BY DEF FlowInv, TypeOK, MultiAgentReviews, StopConditions
<1> DEFINE selected == IF plan = NoPlan THEN "deterministic-local" ELSE plan.selected
<1>4. selected \in Adapters
  BY DEF FlowInv, TypeOK, ToolExecutionPlans, Adapters, BuiltIns
<1> HIDE DEF selected
<1>5. /\ RecordOf["selected"] = selected /\ RecordOf["by"] = outcome.by
      /\ RecordOf["status"] = outcome.status /\ RecordOf["safety"] = task.safety
      /\ RecordOf["stop"] = review.stop /\ RecordOf["review"] = review.verdict
  BY DEF RecordOf, selected
<1> QED BY <1>1, <1>2, <1>3, <1>4, <1>5 DEF ToolRoutingProjections

(* The record is written, or lost; the function is ready for another task. *)
LEMMA WriteStep ==
    ASSUME FlowInv, NEW ok \in BOOLEAN, WriteRecord(ok)
    PROVE  FlowInv'
<1>1. /\ stage = "write" /\ stage' = "idle" /\ task' = NoTask
      /\ record' \in {NoRecord, RecordOf}
      /\ plan' = NoPlan /\ rest' = {} /\ outcome' = NoOutcome
      /\ session' = FALSE /\ pack' = FALSE /\ rounds' = 0 /\ review' = NoReview
  BY DEF WriteRecord, Reset
<1>2. record' # NoRecord =>
        [f \in {"selected", "by", "status", "safety", "stop", "review"} |-> record'[f]]
          \in ToolRoutingProjections
  BY <1>1, RecordWellFormed
<1>3. NoReview \in MultiAgentReviews /\ 0 \in 0..MaxReviewRounds
  BY DEF NoReview, MultiAgentReviews, MaxReviewRounds
<1>4. TypeOK'
  BY <1>1, <1>2, <1>3 DEF TypeOK
<1>5. PlanFacts' /\ StageFacts' /\ OutcomeFacts' /\ ReviewFailsClosed'
  BY <1>1 DEF PlanFacts, StageFacts, OutcomeFacts, ReviewFailsClosed
<1> QED BY <1>1, <1>4, <1>5 DEF FlowInv
-----------------------------------------------------------------------------
(* The invariant and what it implies.                                      *)

(* It holds before the first task.                                         *)
LEMMA InitInv == Init => FlowInv
<1> SUFFICES ASSUME Init PROVE FlowInv
  OBVIOUS
<1>0. NoReview \in MultiAgentReviews /\ 0 \in 0..MaxReviewRounds
  BY DEF NoReview, MultiAgentReviews, MaxReviewRounds
<1>1. TypeOK
  BY <1>0 DEF Init, TypeOK
<1>2. PlanFacts /\ StageFacts /\ OutcomeFacts /\ ReviewFailsClosed
  BY DEF Init, PlanFacts, StageFacts, OutcomeFacts, ReviewFailsClosed
<1> QED BY <1>1, <1>2 DEF Init, FlowInv

(* Every step keeps it.                                                    *)
LEMMA NextInv == FlowInv /\ [Next]_vars => FlowInv'
<1> SUFFICES ASSUME FlowInv, [Next]_vars PROVE FlowInv'
  OBVIOUS
<1>1. CASE UNCHANGED vars
  BY <1>1 DEF FlowInv, TypeOK, PlanFacts, Standing, StageFacts, OutcomeFacts, ReviewFailsClosed, vars
<1>2. CASE Next
  BY <1>2, BeginStep, PlanStep, QuietSteps, AttemptStep, ThrowStep, ReviewStep, WriteStep DEF Next
<1> QED BY <1>1, <1>2

(* So it holds throughout.                                                 *)
LEMMA Invariance == Spec => []FlowInv
  BY InitInv, NextInv, PTL DEF Spec

(* Every variable keeps its type.                                          *)
THEOREM TypeCorrect == Spec => []TypeOK
<1>1. FlowInv => TypeOK
  BY DEF FlowInv
<1> QED BY <1>1, Invariance, PTL

(* No fallback, planned or taken, keeps data less private or may carry     *)
(* more risk than the adapter the policy selected (isFallbackSafe).        *)
THEOREM FallbacksKeepPrivacy == Spec => []FallbackKeepsPrivacy
<1>1. FlowInv => FallbackKeepsPrivacy
  BY DEF FlowInv, PlanFacts, Standing, NoWorse, FallbackKeepsPrivacy
<1> QED BY <1>1, Invariance, PTL

(* Nothing runs for a production or a billing task, and no model is given  *)
(* to a production task, whatever the gate said.                           *)
THEOREM UnapprovedRiskRunsNothing == Spec => []UnapprovedRiskNeverExecutes
<1>1. FlowInv => UnapprovedRiskNeverExecutes
  BY DEF FlowInv, OutcomeFacts, WellClassified, UnapprovedRiskNeverExecutes, Risky
<1> QED BY <1>1, Invariance, PTL

(* A review approves with the verifier's word only.                        *)
THEOREM ReviewsFailClosed == Spec => []ReviewFailsClosed
<1>1. FlowInv => ReviewFailsClosed
  BY DEF FlowInv
<1> QED BY <1>1, Invariance, PTL

(* No record is refused by its own validation: a gate that does not allow  *)
(* leaves no session behind, the gate is no weaker than the verdict, what  *)
(* was executed has a receipt, and a forbidden task was done by no tool.   *)
THEOREM RecordsAreValid == Spec => []RecordsValidate
<1>1. FlowInv => RecordsValidate
  <2> SUFFICES ASSUME FlowInv, stage = "write" PROVE ValidateRuntimeSession(RecordOf)
    BY DEF RecordsValidate
  <2>1. WellClassified(task) /\ (task.gate # "allow" => session = FALSE)
    BY DEF FlowInv, TypeOK, StageFacts
  <2>2. /\ RecordOf.gate = task.gate /\ RecordOf.verdict = task.verdict
        /\ RecordOf.session = session /\ RecordOf.downstream = (task.gate = "allow")
        /\ RecordOf.status = outcome.status /\ RecordOf.safety = task.safety
        /\ RecordOf.receipt = (outcome.by # "none")
        /\ RecordOf.delegated = (outcome.by \in Delegated /\ outcome.status = "executed")
        /\ RecordOf.metadata \in {"none", "sanitized"}
    BY DEF RecordOf
  <2>3. /\ outcome.status = "executed" => outcome.by # "none"
        /\ outcome.by \in Delegated /\ outcome.status = "executed" => task.safety # "forbidden"
    <3>1. task # NoTask
      BY DEF FlowInv, TypeOK
    <3>2. outcome = NoOutcome \/ outcome.by \in Adapters
      BY DEF FlowInv, TypeOK
    <3>3. "none" \notin Adapters
      BY DEF Adapters, Delegated, ProofAdapters, BuiltIns
    <3> QED BY <3>1, <3>2, <3>3 DEF FlowInv, OutcomeFacts, NoOutcome
  <2> QED BY <2>1, <2>2, <2>3 DEF WellClassified, ValidateRuntimeSession
<1> QED BY <1>1, Invariance, PTL

-----------------------------------------------------------------------------
(***************************************************************************)
(* The layers a session ends with: theorems about EvidenceLedger.          *)
(***************************************************************************)
(* The records there may be, and who wrote them.                           *)
Accepted == {UnavailableEvidence}
            \union UNION {ImportTokenCostEvidence(in) : in \in Imports \union Earlier}
TokenRecords == [e : Accepted, by : Sessions \union {"import"}]

(* What a process holds has three fields, whatever is in them.             *)
MemoryFields ==
    mine = [p \in Procs |->
              [stored |-> mine[p].stored, built |-> mine[p].built, queued |-> mine[p].queued]]

(* How far a session is, and what it holds by then.                        *)
SessionFacts(s) ==
    /\ mine[s].stored => s \in Records(tokens)
    /\ pc[s] \in {"continuity", "evidence", "report"} => mine[s].built = {}
    /\ pc[s] # "done" => mine[s].queued = FALSE
    /\ mine[s].stored => \A r \in mine[s].built : s \in r.evidence
    /\ mine[s].stored /\ mine[s].queued => s \in queue

(* The stages of avorelo report build, and of avorelo value record.        *)
CommandStages(p) ==
    IF p \in Reporters THEN {"report", "publish", "done"} ELSE {"value", "cards", "done"}

LayerInv ==
    /\ pc = [p \in Procs |-> pc[p]]
    /\ MemoryFields
    /\ tokens \in Seq(TokenRecords)
    /\ \A p \in Procs \ Sessions : pc[p] \in CommandStages(p)
    /\ \A s \in Sessions : SessionFacts(s)
-----------------------------------------------------------------------------
(* The list of no element, and that of one.                                *)
LEMMA ListOfNone == SetToSeq({}) = <<>>
<1>1. Cardinality({}) = 0
  BY FS_EmptySet
<1>2. \E g \in [1..0 -> {}] : IsInjective(g)
  <2>1. [i \in 1..0 |-> i] \in [1..0 -> {}]
    OBVIOUS
  <2>2. IsInjective([i \in 1..0 |-> i])
    BY DEF IsInjective
  <2> QED
    BY <2>1, <2>2
<1>3. SetToSeq({}) = CHOOSE f \in [1..0 -> {}] : IsInjective(f)
  BY <1>1 DEF SetToSeq
<1>4. (CHOOSE f \in [1..0 -> {}] : IsInjective(f)) \in [1..0 -> {}]
  BY <1>2
<1>5. ASSUME NEW g \in [1..0 -> {}] PROVE g = <<>>
  OBVIOUS
<1> QED
  BY <1>3, <1>4, <1>5, Zenon

(* A list of one element has just that one.                                *)
LEMMA ListOfOne ==
    ASSUME NEW x PROVE SetToSeq({x}) = <<x>>
<1>1. Cardinality({x}) = 1
  BY FS_Singleton
<1>2. \E g \in [1..1 -> {x}] : IsInjective(g)
  <2>1. [i \in 1..1 |-> x] \in [1..1 -> {x}]
    OBVIOUS
  <2>2. IsInjective([i \in 1..1 |-> x])
    BY DEF IsInjective
  <2> QED
    BY <2>1, <2>2
<1>3. SetToSeq({x}) = CHOOSE f \in [1..1 -> {x}] : IsInjective(f)
  BY <1>1 DEF SetToSeq
<1>4. (CHOOSE f \in [1..1 -> {x}] : IsInjective(f)) \in [1..1 -> {x}]
  BY <1>2
<1>5. ASSUME NEW g \in [1..1 -> {x}] PROVE g = <<x>>
  <2>1. g[1] = x /\ DOMAIN g = 1..1
    OBVIOUS
  <2>2. <<x>> = [i \in 1..1 |-> x]
    OBVIOUS
  <2> QED
    BY <2>1, <2>2
<1> QED
  BY <1>3, <1>4, <1>5, Zenon

(* An import appends at most one record.                                   *)
LEMMA ImportedIsShort ==
    ASSUME NEW in \in Imports \union Earlier
    PROVE  Imported(in) \in Seq(TokenRecords)
<1> DEFINE e == IF in.conf = "unavailable" THEN UnavailableEvidence ELSE BuildNumeric(in)
           added == {[e |-> y, by |-> "import"] : y \in ImportTokenCostEvidence(in)}
<1>1. ImportTokenCostEvidence(in) = {} \/ ImportTokenCostEvidence(in) = {e}
  BY DEF ImportTokenCostEvidence
<1>2. ImportTokenCostEvidence(in) \subseteq Accepted
  BY DEF Accepted
<1> HIDE DEF e
<1>3. CASE ImportTokenCostEvidence(in) = {}
  <2>1. added = {}
    BY <1>3
  <2> QED
    BY <2>1, ListOfNone, EmptySeq DEF Imported
<1>4. CASE ImportTokenCostEvidence(in) = {e}
  <2>1. added = {[e |-> e, by |-> "import"]}
    BY <1>4
  <2>2. [e |-> e, by |-> "import"] \in TokenRecords
    BY <1>2, <1>4 DEF TokenRecords
  <2>3. <<[e |-> e, by |-> "import"]>> \in Seq(TokenRecords)
    BY <2>2
  <2> QED
    BY <2>1, <2>3, ListOfOne DEF Imported
<1> QED
  BY <1>1, <1>3, <1>4

(* The stages of a session.                                                *)
LEMMA StagesOfSession ==
    ASSUME NEW s \in Sessions
    PROVE  /\ Head(Stages(s)) = "continuity"
           /\ After(s, "continuity") = "evidence"
           /\ After(s, "evidence") = "report"
           /\ After(s, "report") = "publish"
           /\ After(s, "publish") = "value"
           /\ After(s, "value") = "cards"
           /\ After(s, "cards") = "sync"
           /\ After(s, "sync") = "done"
<1>1. s \notin Reporters /\ s \notin Recorders
  BY ProcsAssumption DEF ProcsAssumption
<1>2. Stages(s) = SessionStages
  BY <1>1 DEF Stages
<1> DEFINE st == SessionStages
           at(x) == CHOOSE i \in DOMAIN st : st[i] = x
<1>3. /\ DOMAIN st = 1..8
      /\ st[1] = "continuity" /\ st[2] = "evidence" /\ st[3] = "report" /\ st[4] = "publish"
      /\ st[5] = "value" /\ st[6] = "cards" /\ st[7] = "sync" /\ st[8] = "done"
  BY DEF SessionStages
<1>4. Head(st) = "continuity"
  BY DEF SessionStages
<1> HIDE DEF st
<1>5. ASSUME NEW j \in 1..8 PROVE at(st[j]) = j
  <2>1. \A i \in 1..8 : st[i] = st[j] => i = j
    BY <1>3
  <2>2. \E i \in DOMAIN st : st[i] = st[j]
    BY <1>3
  <2> QED
    BY <1>3, <2>1, <2>2
<1>6. ASSUME NEW x PROVE After(s, x) = st[1 + at(x)]
  BY <1>2 DEF After, st
<1> HIDE DEF at
<1>7. /\ at("continuity") = 1 /\ at("evidence") = 2 /\ at("report") = 3 /\ at("publish") = 4
      /\ at("value") = 5 /\ at("cards") = 6 /\ at("sync") = 7
  BY <1>3, <1>5
<1> QED
  BY <1>2, <1>3, <1>4, <1>6, <1>7 DEF st

(* A process that goes on changes no other's stage, and one field of its   *)
(* memory when it writes that one.                                         *)
LEMMA GoMovesOne ==
    ASSUME pc = [q \in Procs |-> pc[q]], NEW p \in Procs, NEW st, At(p, st), Go(p)
    PROVE  /\ pc' = [q \in Procs |-> pc'[q]]
           /\ pc'[p] = After(p, st)
           /\ \A q \in Procs \ {p} : pc'[q] = pc[q]
<1>1. pc' = [pc EXCEPT ![p] = After(p, pc[p])] /\ pc[p] = st
  BY DEF Go, At
<1>2. DOMAIN pc = Procs
  BY Zenon
<1> HIDE DEF Procs
<1>3. pc' = [q \in Procs |-> IF q = p THEN After(p, pc[p]) ELSE pc[q]]
  BY <1>1, <1>2
<1> QED
  BY <1>1, <1>3

(* Memories keep their fields when one of them does.                       *)
LEMMA MemoryWritten ==
    ASSUME MemoryFields, NEW p \in Procs,
           mine' = [q \in Procs |-> mine'[q]],
           mine'[p] = [stored |-> mine'[p].stored, built |-> mine'[p].built,
                       queued |-> mine'[p].queued],
           \A q \in Procs \ {p} : mine'[q] = mine[q]
    PROVE  MemoryFields'
<1>1. \A q \in Procs : mine'[q] = [stored |-> mine'[q].stored, built |-> mine'[q].built,
                                     queued |-> mine'[q].queued]
  <2>1. \A q \in Procs : mine[q] = [stored |-> mine[q].stored, built |-> mine[q].built,
                                      queued |-> mine[q].queued]
    BY Zenon DEF MemoryFields
  <2> QED
    BY <2>1
<1> QED
  BY <1>1 DEF MemoryFields

(* Writing stored, built or queued changes that field and no other.        *)
LEMMA StoredWritesOne ==
    ASSUME MemoryFields, NEW p \in Procs, NEW v, mine' = [mine EXCEPT ![p].stored = v]
    PROVE  /\ MemoryFields'
           /\ mine'[p].stored = v
           /\ mine'[p].built = mine[p].built /\ mine'[p].queued = mine[p].queued
           /\ \A q \in Procs \ {p} : mine'[q] = mine[q]
<1>1. /\ DOMAIN mine = Procs
      /\ mine[p] = [stored |-> mine[p].stored, built |-> mine[p].built, queued |-> mine[p].queued]
  BY Zenon DEF MemoryFields
<1>2. [mine[p] EXCEPT !.stored = v] = [stored |-> v, built |-> mine[p].built, queued |-> mine[p].queued]
  BY <1>1
<1>3. mine' = [q \in Procs |-> IF q = p THEN [mine[p] EXCEPT !.stored = v] ELSE mine[q]]
  BY <1>1
<1>4. /\ mine'[p] = [stored |-> v, built |-> mine[p].built, queued |-> mine[p].queued]
      /\ mine' = [q \in Procs |-> mine'[q]]
      /\ \A q \in Procs \ {p} : mine'[q] = mine[q]
  BY <1>2, <1>3
<1> QED
  BY <1>4, MemoryWritten

(* The same of built.                                                      *)
LEMMA BuiltWritesOne ==
    ASSUME MemoryFields, NEW p \in Procs, NEW v, mine' = [mine EXCEPT ![p].built = v]
    PROVE  /\ MemoryFields'
           /\ mine'[p].built = v
           /\ mine'[p].stored = mine[p].stored /\ mine'[p].queued = mine[p].queued
           /\ \A q \in Procs \ {p} : mine'[q] = mine[q]
<1>1. /\ DOMAIN mine = Procs
      /\ mine[p] = [stored |-> mine[p].stored, built |-> mine[p].built, queued |-> mine[p].queued]
  BY Zenon DEF MemoryFields
<1>2. [mine[p] EXCEPT !.built = v] = [stored |-> mine[p].stored, built |-> v, queued |-> mine[p].queued]
  BY <1>1
<1>3. mine' = [q \in Procs |-> IF q = p THEN [mine[p] EXCEPT !.built = v] ELSE mine[q]]
  BY <1>1
<1>4. /\ mine'[p] = [stored |-> mine[p].stored, built |-> v, queued |-> mine[p].queued]
      /\ mine' = [q \in Procs |-> mine'[q]]
      /\ \A q \in Procs \ {p} : mine'[q] = mine[q]
  BY <1>2, <1>3
<1> QED
  BY <1>4, MemoryWritten

(* The same of queued.                                                     *)
LEMMA QueuedWritesOne ==
    ASSUME MemoryFields, NEW p \in Procs, NEW v, mine' = [mine EXCEPT ![p].queued = v]
    PROVE  /\ MemoryFields'
           /\ mine'[p].queued = v
           /\ mine'[p].stored = mine[p].stored /\ mine'[p].built = mine[p].built
           /\ \A q \in Procs \ {p} : mine'[q] = mine[q]
<1>1. /\ DOMAIN mine = Procs
      /\ mine[p] = [stored |-> mine[p].stored, built |-> mine[p].built, queued |-> mine[p].queued]
  BY Zenon DEF MemoryFields
<1>2. [mine[p] EXCEPT !.queued = v] = [stored |-> mine[p].stored, built |-> mine[p].built, queued |-> v]
  BY <1>1
<1>3. mine' = [q \in Procs |-> IF q = p THEN [mine[p] EXCEPT !.queued = v] ELSE mine[q]]
  BY <1>1
<1>4. /\ mine'[p] = [stored |-> mine[p].stored, built |-> mine[p].built, queued |-> v]
      /\ mine' = [q \in Procs |-> mine'[q]]
      /\ \A q \in Procs \ {p} : mine'[q] = mine[q]
  BY <1>2, <1>3
<1> QED
  BY <1>4, MemoryWritten

(* A list that is appended to keeps its elements, at their places.         *)
LEMMA AppendKeeps ==
    ASSUME NEW S, NEW ts \in Seq(S), NEW us \in Seq(S)
    PROVE  /\ ts \o us \in Seq(S)
           /\ DOMAIN ts \subseteq DOMAIN (ts \o us)
           /\ \A i \in DOMAIN ts : (ts \o us)[i] = ts[i]
<1>1. /\ ts \o us \in Seq(S)
      /\ Len(ts \o us) = Len(ts) + Len(us)
      /\ \A i \in 1 .. Len(ts) + Len(us) :
            (ts \o us)[i] = IF i <= Len(ts) THEN ts[i] ELSE us[i - Len(ts)]
  BY ConcatProperties
<1>2. Len(ts) \in Nat /\ Len(us) \in Nat /\ DOMAIN ts = 1..Len(ts)
      /\ DOMAIN (ts \o us) = 1..Len(ts \o us)
  BY <1>1, LenProperties
<1> QED
  BY <1>1, <1>2

(* The other processes enter no stage of a session's beginning or end.     *)
LEMMA StagesOfOthers ==
    ASSUME NEW p \in Procs \ Sessions
    PROVE  /\ Head(Stages(p)) \in {"report", "value"}
           /\ p \in Reporters => /\ After(p, "report") = "publish"
                                 /\ After(p, "publish") = "done"
                                 /\ Head(Stages(p)) = "report"
           /\ p \notin Reporters => /\ After(p, "value") = "cards"
                                    /\ After(p, "cards") = "done"
                                    /\ Head(Stages(p)) = "value"
<1> DEFINE at(s, x) == CHOOSE i \in DOMAIN s : s[i] = x
<1>1. ASSUME p \in Reporters
      PROVE  Stages(p) = <<"report", "publish", "done">>
  <2>1. p \notin Recorders
    BY <1>1, ProcsAssumption DEF ProcsAssumption
  <2> QED
    BY <1>1, <2>1 DEF Stages
<1>2. ASSUME p \notin Reporters
      PROVE  Stages(p) = <<"value", "cards", "done">>
  BY <1>2 DEF Stages, Procs
<1>3. ASSUME NEW s, NEW j \in DOMAIN s, \A i \in DOMAIN s : s[i] = s[j] => i = j
      PROVE  at(s, s[j]) = j
  BY <1>3
<1>4. ASSUME p \in Reporters
      PROVE  After(p, "report") = "publish" /\ After(p, "publish") = "done"
  <2> DEFINE s == <<"report", "publish", "done">>
  <2>1. DOMAIN s = 1..3 /\ s[1] = "report" /\ s[2] = "publish" /\ s[3] = "done"
    OBVIOUS
  <2>2. After(p, "report") = s[1 + at(s, "report")]
        /\ After(p, "publish") = s[1 + at(s, "publish")]
    BY <1>1, <1>4 DEF After
  <2> HIDE DEF s
  <2>3. at(s, "report") = 1 /\ at(s, "publish") = 2
    BY <2>1
  <2> HIDE DEF at
  <2> QED
    BY <2>1, <2>2, <2>3
<1>5. ASSUME p \notin Reporters
      PROVE  After(p, "value") = "cards" /\ After(p, "cards") = "done"
  <2> DEFINE s == <<"value", "cards", "done">>
  <2>1. DOMAIN s = 1..3 /\ s[1] = "value" /\ s[2] = "cards" /\ s[3] = "done"
    OBVIOUS
  <2>2. After(p, "value") = s[1 + at(s, "value")]
        /\ After(p, "cards") = s[1 + at(s, "cards")]
    BY <1>2, <1>5 DEF After
  <2> HIDE DEF s
  <2>3. at(s, "value") = 1 /\ at(s, "cards") = 2
    BY <2>1
  <2> HIDE DEF at
  <2> QED
    BY <2>1, <2>2, <2>3
<1> QED
  BY <1>1, <1>2, <1>4, <1>5

(* Records of token cost are never lost, and the queue only grows.         *)
LEMMA FilesGrow ==
    ASSUME LayerInv, LedgerNext
    PROVE  /\ tokens' \in Seq(TokenRecords)
           /\ \E u \in Seq(TokenRecords) : tokens' = tokens \o u
           /\ queue \subseteq queue'
<1>1. tokens \in Seq(TokenRecords) /\ tokens \o <<>> = tokens /\ <<>> \in Seq(TokenRecords)
  BY ConcatEmptySeq, EmptySeq DEF LayerInv
<1>2. ASSUME NEW in \in Imports, Import(in)
      PROVE  queue' = queue /\ \E u \in Seq(TokenRecords) : tokens' = tokens \o u
  BY <1>2, ImportedIsShort DEF Import
<1>3. ASSUME NEW p \in Procs, NEW ok \in BOOLEAN, WriteEvidence(p, ok)
      PROVE  queue' = queue /\ \E u \in Seq(TokenRecords) : tokens' = tokens \o u
  <2> DEFINE own == [e |-> UnavailableEvidence, by |-> p]
  <2>1. p \in Sessions
    BY <1>3 DEF LayerInv, CommandStages, WriteEvidence, At
  <2>2. own \in TokenRecords
    BY <2>1 DEF TokenRecords, Accepted
  <2>3. queue' = queue /\ tokens' = IF ok THEN Append(tokens, own) ELSE tokens
    BY <1>3 DEF WriteEvidence
  <2> HIDE DEF own
  <2>4. Append(tokens, own) = tokens \o <<own>> /\ <<own>> \in Seq(TokenRecords)
    BY <1>1, <2>2, AppendIsConcat
  <2> QED
    BY <1>1, <2>3, <2>4
<1>4. ASSUME NEW p \in Procs, NEW ok \in BOOLEAN,
             WriteContinuity(p, ok) \/ WriteProofReport(p, ok) \/ AppendValueLedgerEntry(p, ok)
               \/ WriteValueCards(p, ok) \/ WriteSyncQueue(p, ok)
      PROVE  tokens' = tokens /\ queue \subseteq queue'
  BY <1>4 DEF WriteContinuity, WriteProofReport, AppendValueLedgerEntry, WriteValueCards,
              WriteSyncQueue
<1>5. ASSUME NEW p \in Procs, NEW result, BuildReport(p, result)
      PROVE  tokens' = tokens /\ queue' = queue
  BY <1>5 DEF BuildReport
<1>6. queue \subseteq queue' /\ \E u \in Seq(TokenRecords) : tokens' = tokens \o u
  BY <1>1, <1>2, <1>3, <1>4, <1>5 DEF LedgerNext, Step
<1> QED
  BY <1>1, <1>6, AppendKeeps

(* Who is on record stays on record.                                       *)
LEMMA RecordsStay ==
    ASSUME LayerInv, LedgerNext
    PROVE  Records(tokens) \subseteq Records(tokens)'
<1>1. PICK u \in Seq(TokenRecords) : tokens' = tokens \o u
  BY FilesGrow
<1>2. /\ DOMAIN tokens \subseteq DOMAIN tokens'
      /\ \A i \in DOMAIN tokens : tokens'[i] = tokens[i]
  BY <1>1, AppendKeeps DEF LayerInv
<1> QED
  BY <1>2 DEF Records

(* What a step of a process does to what LayerInv says of that process,    *)
(* and that it leaves the others alone.                                    *)
Moved(p) ==
    /\ pc' = [q \in Procs |-> pc'[q]]
    /\ MemoryFields'
    /\ \A q \in Procs \ {p} : pc'[q] = pc[q] /\ mine'[q] = mine[q]
    /\ p \notin Sessions => pc'[p] \in CommandStages(p)
    /\ p \in Sessions => SessionFacts(p)'

(* A write that changes no process's memory.                               *)
LEMMA PlainWriteMoves ==
    ASSUME LayerInv, LedgerNext, NEW p \in Procs,
           NEW st \in {"continuity", "publish", "value", "cards"},
           At(p, st), Go(p), mine' = mine
    PROVE  Moved(p)
<1>1. /\ pc' = [q \in Procs |-> pc'[q]]
      /\ pc'[p] = After(p, st)
      /\ \A q \in Procs \ {p} : pc'[q] = pc[q]
  BY GoMovesOne DEF LayerInv
<1>2. pc[p] = st
  BY DEF At
<1>3. MemoryFields'
  BY DEF LayerInv, MemoryFields
<1>4. ASSUME p \in Sessions PROVE SessionFacts(p)'
  <2>1. SessionFacts(p)
    BY <1>4 DEF LayerInv
  <2>2. /\ pc'[p] # "done"
        /\ pc'[p] \in {"continuity", "evidence", "report"} => st = "continuity"
    BY <1>1, <1>4, StagesOfSession
  <2>3. Records(tokens) \subseteq Records(tokens)'
    BY RecordsStay
  <2>4. queue \subseteq queue'
    BY FilesGrow
  <2> QED
    BY <1>2, <2>1, <2>2, <2>3, <2>4 DEF SessionFacts
<1>5. ASSUME p \notin Sessions
      PROVE  pc'[p] \in CommandStages(p)
  <2>1. st \in CommandStages(p)
    BY <1>2, <1>5 DEF LayerInv
  <2>2. pc'[p] = After(p, st)
    BY <1>1
  <2> QED
    BY <1>5, <2>1, <2>2, StagesOfOthers DEF CommandStages
<1> QED
  BY <1>1, <1>3, <1>4, <1>5 DEF Moved

(* The session's own record, once appended, is on the list.                *)
LEMMA EvidenceMoves ==
    ASSUME LayerInv, LedgerNext, NEW p \in Procs, NEW ok \in BOOLEAN,
           WriteEvidence(p, ok)
    PROVE  Moved(p)
<1>1. At(p, "evidence") /\ Go(p) /\ queue' = queue /\ mine' = [mine EXCEPT ![p].stored = ok]
      /\ tokens' = IF ok THEN Append(tokens, [e |-> UnavailableEvidence, by |-> p]) ELSE tokens
  BY DEF WriteEvidence, Write
<1>2. /\ pc' = [q \in Procs |-> pc'[q]]
      /\ pc'[p] = After(p, "evidence")
      /\ \A q \in Procs \ {p} : pc'[q] = pc[q]
  BY <1>1, GoMovesOne DEF LayerInv
<1>3. pc[p] = "evidence" /\ p \in Sessions
  BY <1>1 DEF At, LayerInv, CommandStages
<1>4. /\ MemoryFields'
      /\ mine'[p].stored = ok
      /\ mine'[p].built = mine[p].built /\ mine'[p].queued = mine[p].queued
      /\ \A q \in Procs \ {p} : mine'[q] = mine[q]
  BY <1>1, StoredWritesOne DEF LayerInv
<1>5. ASSUME ok PROVE p \in Records(tokens)'
  <2> DEFINE own == [e |-> UnavailableEvidence, by |-> p]
  <2>1. own \in TokenRecords
    BY <1>3 DEF TokenRecords, Accepted
  <2>2. own.by = p /\ tokens' = Append(tokens, own)
    BY <1>1, <1>5
  <2> HIDE DEF own
  <2>3. /\ tokens' \in Seq(TokenRecords)
        /\ Len(tokens') = Len(tokens) + 1 /\ tokens'[Len(tokens) + 1] = own
    BY <2>1, <2>2, AppendProperties DEF LayerInv
  <2>4. Len(tokens) \in Nat /\ DOMAIN tokens' = 1..Len(tokens')
    BY <2>3, LenProperties DEF LayerInv
  <2>5. Len(tokens) + 1 \in DOMAIN tokens'
    BY <2>3, <2>4
  <2> QED
    BY <2>2, <2>3, <2>5 DEF Records
<1>6. pc'[p] = "report"
  BY <1>2, <1>3, StagesOfSession
<1>7. mine[p].built = {} /\ mine[p].queued = FALSE
  BY <1>3 DEF LayerInv, SessionFacts
<1>8. SessionFacts(p)'
  BY <1>4, <1>5, <1>6, <1>7 DEF SessionFacts
<1> QED
  BY <1>2, <1>3, <1>4, <1>8 DEF Moved

(* The report it builds counts it.                                         *)
LEMMA ReportMoves ==
    ASSUME LayerInv, LedgerNext, NEW p \in Procs, NEW result,
           BuildReport(p, result)
    PROVE  Moved(p)
<1> DEFINE built == {BuildProofReport(p, result)}
<1>1. At(p, "report") /\ Go(p) /\ queue' = queue /\ tokens' = tokens
      /\ mine' = [mine EXCEPT ![p].built = built]
  BY DEF BuildReport
<1>2. \A r \in built : r.evidence = Records(tokens)
  BY DEF BuildProofReport
<1> HIDE DEF built
<1>3. /\ pc' = [q \in Procs |-> pc'[q]]
      /\ pc'[p] = After(p, "report") /\ pc[p] = "report"
      /\ \A q \in Procs \ {p} : pc'[q] = pc[q]
  BY <1>1, GoMovesOne DEF LayerInv, At
<1>4. PICK b : b = built
  OBVIOUS
<1>5. /\ MemoryFields'
      /\ mine'[p].built = b
      /\ mine'[p].stored = mine[p].stored /\ mine'[p].queued = mine[p].queued
      /\ \A q \in Procs \ {p} : mine'[q] = mine[q]
  BY <1>1, <1>4, BuiltWritesOne DEF LayerInv
<1>6. Records(tokens)' = Records(tokens)
  BY <1>1 DEF Records
<1>7. ASSUME p \in Sessions PROVE SessionFacts(p)'
  <2>1. SessionFacts(p)
    BY <1>7 DEF LayerInv
  <2>2. pc'[p] = "publish"
    BY <1>3, <1>7, StagesOfSession
  <2> QED
    BY <1>1, <1>2, <1>3, <1>4, <1>5, <1>6, <2>1, <2>2 DEF SessionFacts
<1>8. ASSUME p \notin Sessions PROVE pc'[p] \in CommandStages(p)
  <2>1. "report" \in CommandStages(p)
    BY <1>3, <1>8 DEF LayerInv
  <2> QED
    BY <1>3, <1>8, <2>1, StagesOfOthers DEF CommandStages
<1> QED
  BY <1>3, <1>5, <1>7, <1>8 DEF Moved

(* The sync queues it: nothing in the projection of a record bears the     *)
(* name of a field of a whole artifact.                                    *)
LEMMA SyncMoves ==
    ASSUME LayerInv, LedgerNext, NEW p \in Procs, NEW ok \in BOOLEAN,
           WriteSyncQueue(p, ok)
    PROVE  Moved(p)
<1>1. At(p, "sync") /\ Go(p) /\ tokens' = tokens /\ mine' = [mine EXCEPT ![p].queued = ok]
      /\ queue' = IF ok THEN queue \union {c.of : c \in BuildEnvelope(CollectProjections).eligible}
                  ELSE queue
  BY DEF WriteSyncQueue, Write
<1>2. /\ pc' = [q \in Procs |-> pc'[q]]
      /\ pc'[p] = After(p, "sync") /\ pc[p] = "sync"
      /\ \A q \in Procs \ {p} : pc'[q] = pc[q]
  BY <1>1, GoMovesOne DEF LayerInv, At
<1>3. p \in Sessions
  BY <1>2 DEF LayerInv, CommandStages
<1>4. /\ MemoryFields'
      /\ mine'[p].queued = ok
      /\ mine'[p].stored = mine[p].stored /\ mine'[p].built = mine[p].built
      /\ \A q \in Procs \ {p} : mine'[q] = mine[q]
  BY <1>1, QueuedWritesOne DEF LayerInv
<1>5. Records(tokens)' = Records(tokens)
  BY <1>1 DEF Records
<1>6. ASSUME ok PROVE Records(tokens) \subseteq queue'
  <2>1. SUFFICES ASSUME NEW i \in DOMAIN tokens PROVE tokens[i].by \in queue'
    BY DEF Records
  <2> DEFINE c == Candidate(tokens[i].by, TokenCostSyncMetadata(tokens[i].e))
  <2>2. tokens[i] \in Range(tokens)
    BY DEF Range
  <2>3. c \in CollectProjections
    BY <2>2 DEF CollectProjections
  <2>4. ScreenProjectionMetadata(c.metadata)
    BY DEF ScreenProjectionMetadata, Candidate, TokenCostSyncMetadata, FullArtifactKeys
  <2>5. c.of = tokens[i].by
    BY DEF Candidate
  <2> HIDE DEF c
  <2>6. c \in BuildEnvelope(CollectProjections).eligible
    BY <2>3, <2>4 DEF BuildEnvelope
  <2> QED
    BY <1>1, <1>6, <2>5, <2>6
<1>7. pc'[p] = "done"
  BY <1>2, <1>3, StagesOfSession
<1>8. SessionFacts(p)
  BY <1>3 DEF LayerInv
<1>9. SessionFacts(p)'
  BY <1>4, <1>5, <1>6, <1>7, <1>8 DEF SessionFacts
<1> QED
  BY <1>2, <1>3, <1>4, <1>9 DEF Moved

(* So does any step of a process.                                          *)
LEMMA StepMoves ==
    ASSUME LayerInv, LedgerNext, NEW p \in Procs, Step(p)
    PROVE  Moved(p)
<1>1. ASSUME NEW ok \in BOOLEAN, WriteContinuity(p, ok) PROVE Moved(p)
  BY <1>1, PlainWriteMoves DEF WriteContinuity, Write
<1>2. ASSUME NEW ok \in BOOLEAN, WriteEvidence(p, ok) PROVE Moved(p)
  BY <1>2, EvidenceMoves
<1>3. ASSUME NEW ok \in BOOLEAN, WriteProofReport(p, ok) PROVE Moved(p)
  BY <1>3, PlainWriteMoves DEF WriteProofReport, Write
<1>4. ASSUME NEW ok \in BOOLEAN, AppendValueLedgerEntry(p, ok) PROVE Moved(p)
  BY <1>4, PlainWriteMoves DEF AppendValueLedgerEntry, Write
<1>5. ASSUME NEW ok \in BOOLEAN, WriteValueCards(p, ok) PROVE Moved(p)
  BY <1>5, PlainWriteMoves DEF WriteValueCards, Write
<1>6. ASSUME NEW ok \in BOOLEAN, WriteSyncQueue(p, ok) PROVE Moved(p)
  BY <1>6, SyncMoves
<1>7. ASSUME NEW result, BuildReport(p, result) PROVE Moved(p)
  BY <1>7, ReportMoves
<1> QED
  BY <1>1, <1>2, <1>3, <1>4, <1>5, <1>6, <1>7 DEF Step

(* Every step keeps the invariant.                                         *)
LEMMA LayerStep ==
    ASSUME LayerInv, [LedgerNext]_ledgerVars
    PROVE  LayerInv'
<1>1. CASE UNCHANGED ledgerVars
  BY <1>1 DEF ledgerVars, LayerInv, MemoryFields, SessionFacts, Records
<1>2. CASE LedgerNext
  <2>1. ASSUME NEW s \in Sessions, mine'[s] = mine[s], pc'[s] = pc[s]
        PROVE  SessionFacts(s)'
    <3>1. SessionFacts(s)
      BY DEF LayerInv
    <3>2. Records(tokens) \subseteq Records(tokens)'
      BY <1>2, RecordsStay
    <3>3. queue \subseteq queue'
      BY <1>2, FilesGrow
    <3> QED
      BY <2>1, <3>1, <3>2, <3>3 DEF SessionFacts
  <2>2. tokens' \in Seq(TokenRecords)
    BY <1>2, FilesGrow
  <2>3. ASSUME NEW in \in Imports, Import(in) PROVE LayerInv'
    <3>1. pc' = pc /\ mine' = mine
      BY <2>3 DEF Import
    <3> QED
      BY <2>1, <2>2, <3>1 DEF LayerInv, MemoryFields
  <2>4. ASSUME NEW p \in Procs, Moved(p) PROVE LayerInv'
    <3>1. \A s \in Sessions : SessionFacts(s)'
      <4>1. Sessions \subseteq Procs
        BY DEF Procs
      <4> QED
        BY <2>1, <2>4, <4>1 DEF Moved
    <3>2. \A q \in Procs \ Sessions : pc'[q] \in CommandStages(q)
      BY <2>4 DEF Moved, LayerInv
    <3> QED
      BY <2>2, <2>4, <3>1, <3>2 DEF Moved, LayerInv
  <2>5. ASSUME NEW p \in Procs, Step(p) PROVE Moved(p)
    BY <1>2, <2>5, StepMoves
  <2> QED
    BY <1>2, <2>3, <2>4, <2>5 DEF LedgerNext
<1> QED
  BY <1>1, <1>2

(* LayerInv holds at first.                                                *)
LEMMA LayerStart ==
    ASSUME LedgerInit
    PROVE  LayerInv
<1>1. pc = [p \in Procs |-> Head(Stages(p))] /\ mine = [p \in Procs |-> NoMemory]
  BY DEF LedgerInit
<1>2. MemoryFields /\ \A p \in Procs : mine[p].built = {} /\ mine[p].stored = FALSE
                                      /\ mine[p].queued = FALSE
  BY <1>1 DEF MemoryFields, NoMemory
<1>3. tokens \in Seq(TokenRecords)
  <2>1. tokens = <<>> \/ \E in \in Earlier : tokens = Imported(in)
    BY DEF LedgerInit
  <2> QED
    BY <2>1, ImportedIsShort, EmptySeq
<1>4. \A p \in Procs \ Sessions : pc[p] \in CommandStages(p)
  BY <1>1, StagesOfOthers DEF CommandStages
<1>5. \A s \in Sessions : SessionFacts(s)
  BY <1>2 DEF SessionFacts, Procs
<1> QED
  BY <1>1, <1>2, <1>3, <1>4, <1>5 DEF LayerInv

(* A session's own record, once written, is among what its own report      *)
(* counts and what its own sync queues, for any number of processes and of *)
(* failed writes (runRuntimeSession, the stages after its review).         *)
THEOREM OwnRecordIsCounted ==
    LedgerSpec => []OwnRecordCounted
<1>1. LedgerInit => LayerInv
  BY LayerStart
<1>2. LayerInv /\ [LedgerNext]_ledgerVars => LayerInv'
  BY LayerStep
<1>3. LayerInv => OwnRecordCounted
  BY DEF LayerInv, SessionFacts, OwnRecordCounted
<1> QED
  BY <1>1, <1>2, <1>3, PTL DEF LedgerSpec
-----------------------------------------------------------------------------
(* A report tells what the records said when there were n, and no earlier  *)
(* than its session's own record, which is in by then if it ever is.       *)
ReportAt(ts, n, r) ==
    /\ r.count = n
    /\ r.canShowCost /\ Known(r.savings.cost) => CostAt(ts, n, r.savings.cost)

Late(p) == pc[p] \notin {"continuity", "evidence"}

OwnBy(ts, n, p) ==
    p \in Sessions => Late(p) /\ (mine[p].stored => \E i \in 1..n : ts[i].by = p)

Dated(ts, r) == \E n \in 0..Len(ts) : ReportAt(ts, n, r) /\ OwnBy(ts, n, r.by)

DatedReports(ts, rs) ==
    /\ rs = {} \/ \E r : rs = {r}
    /\ \A r \in rs : Dated(ts, r)

OfRecords(e) == e.category = "token_cost_evidence" \/ e.metric = "cost_summary"

DatedBatch(ts, b) ==
    \E n \in 0..Len(ts) :
      OwnBy(ts, n, b.of) /\ \A e \in b.entries : OfRecords(e) => SaidAt(ts, n, e)

DatedCost(ts, v) == \E n \in 0..Len(ts) : CostAt(ts, n, v)

(* So do all that are in memory, on disk, in the ledger and on the cards.  *)
PastInv ==
    /\ DatedReports(tokens, report)
    /\ \A p \in Procs : DatedReports(tokens, mine[p].built)
    /\ \E S : ledger \in Seq(S)
    /\ \A i \in DOMAIN ledger : DatedBatch(tokens, ledger[i])
    /\ \A c \in cards : Known(c.value) => DatedCost(tokens, c.value)

(* Records that come later do not change what was said.                    *)
LEMMA PastStays ==
    ASSUME NEW S, NEW ts \in Seq(S), NEW us \in Seq(S), NEW n \in 0..Len(ts)
    PROVE  /\ n \in 0..Len(ts \o us)
           /\ \A i \in 1..n : (ts \o us)[i] = ts[i]
           /\ \A v : CostAt(ts, n, v) => CostAt(ts \o us, n, v)
           /\ \A e : SaidAt(ts, n, e) => SaidAt(ts \o us, n, e)
<1> DEFINE all == ts \o us
           P == Priced(ts, n)
<1>1. /\ Len(all) = Len(ts) + Len(us) /\ Len(ts) \in Nat /\ Len(us) \in Nat
      /\ DOMAIN ts = 1..Len(ts)
  BY ConcatProperties, LenProperties
<1>2. \A i \in DOMAIN ts : all[i] = ts[i]
  BY AppendKeeps
<1> HIDE DEF all
<1>3. n \in 0..Len(all) /\ \A i \in 1..n : all[i] = ts[i]
  BY <1>1, <1>2
<1>4. Priced(all, n) = P /\ P \subseteq 1..n
  BY <1>3 DEF Priced
<1> HIDE DEF P
<1>5. {all[j].e.currency : j \in P} = {ts[j].e.currency : j \in P}
  BY <1>3, <1>4
<1>6. [j \in P |-> all[j].e.cost] = [j \in P |-> ts[j].e.cost]
  BY <1>3, <1>4
<1>7. ASSUME NEW v, CostAt(ts, n, v) PROVE CostAt(all, n, v)
  <2>1. /\ \E j \in 1..n : ts[j].e.conf \in {"measured", "imported"}
        /\ Cardinality({ts[j].e.currency : j \in P}) = 1
        /\ v = SumFunction([j \in P |-> ts[j].e.cost])
    BY <1>7 DEF CostAt, P
  <2>2. /\ \E j \in 1..n : all[j].e.conf \in {"measured", "imported"}
        /\ Cardinality({all[j].e.currency : j \in P}) = 1
        /\ v = SumFunction([j \in P |-> all[j].e.cost])
    BY <1>3, <1>5, <1>6, <2>1
  <2> QED
    BY <1>4, <2>2 DEF CostAt
<1>8. ASSUME NEW e, SaidAt(ts, n, e) PROVE SaidAt(all, n, e)
  BY <1>7, <1>8 DEF SaidAt
<1> QED
  BY <1>3, <1>7, <1>8 DEF all

(* Once a session is past its own record, it is past it for good.          *)
LEMMA LateStays ==
    ASSUME LayerInv, LedgerNext, NEW s \in Sessions, Late(s)
    PROVE  Late(s)' /\ mine'[s].stored = mine[s].stored
<1>1. s \in Procs /\ pc[s] # "continuity" /\ pc[s] # "evidence"
  BY DEF Procs, Late
<1>2. ASSUME NEW in \in Imports, Import(in) PROVE pc' = pc /\ mine' = mine
  BY <1>2 DEF Import
<1>3. ASSUME NEW p \in Procs, Step(p), p # s PROVE pc'[s] = pc[s] /\ mine'[s] = mine[s]
  BY <1>1, <1>3, StepMoves DEF Moved
<1>4. ASSUME NEW st \in {"report", "publish", "value", "cards", "sync"}, At(s, st), Go(s)
      PROVE  Late(s)'
  <2>1. pc'[s] = After(s, st)
    BY <1>1, <1>4, GoMovesOne DEF LayerInv
  <2> QED
    BY <2>1, StagesOfSession DEF Late
<1>5. ASSUME Step(s) PROVE Late(s)' /\ mine'[s].stored = mine[s].stored
  <2>1. MemoryFields
    BY DEF LayerInv
  <2>2. ASSUME NEW ok \in BOOLEAN, WriteContinuity(s, ok) \/ WriteEvidence(s, ok) PROVE FALSE
    BY <1>1, <2>2 DEF WriteContinuity, WriteEvidence, At
  <2>3. ASSUME NEW ok \in BOOLEAN,
               WriteProofReport(s, ok) \/ AppendValueLedgerEntry(s, ok) \/ WriteValueCards(s, ok)
        PROVE  mine' = mine /\ Late(s)'
    BY <1>4, <2>3 DEF WriteProofReport, AppendValueLedgerEntry, WriteValueCards, Write
  <2>4. ASSUME NEW ok \in BOOLEAN, WriteSyncQueue(s, ok)
        PROVE  mine'[s].stored = mine[s].stored /\ Late(s)'
    <3>1. mine' = [mine EXCEPT ![s].queued = ok] /\ At(s, "sync") /\ Go(s)
      BY <2>4 DEF WriteSyncQueue, Write
    <3> QED
      BY <1>1, <1>4, <2>1, <3>1, QueuedWritesOne
  <2>5. ASSUME NEW result, BuildReport(s, result)
        PROVE  mine'[s].stored = mine[s].stored /\ Late(s)'
    <3>1. PICK b : b = {BuildProofReport(s, result)}
      OBVIOUS
    <3>2. mine' = [mine EXCEPT ![s].built = b] /\ At(s, "report") /\ Go(s)
      BY <2>5, <3>1 DEF BuildReport
    <3> QED
      BY <1>1, <1>4, <2>1, <3>2, BuiltWritesOne
  <2> QED
    BY <1>5, <2>2, <2>3, <2>4, <2>5 DEF Step
<1>6. CASE \E in \in Imports : Import(in)
  BY <1>2, <1>6 DEF Late
<1>7. CASE \E p \in Procs : Step(p)
  BY <1>3, <1>5, <1>7 DEF Late
<1> QED
  BY <1>6, <1>7 DEF LedgerNext

(* What was said before a step is said after it.                           *)
LEMMA SaidStays ==
    ASSUME LayerInv, LedgerNext
    PROVE  /\ \A n \in 0..Len(tokens) :
                /\ n \in 0..Len(tokens')
                /\ \A v : CostAt(tokens, n, v) => CostAt(tokens', n, v)
                /\ \A e : SaidAt(tokens, n, e) => SaidAt(tokens', n, e)
                /\ \A p : OwnBy(tokens, n, p) => OwnBy(tokens, n, p)'
<1>1. PICK us \in Seq(TokenRecords) : tokens' = tokens \o us
  BY FilesGrow
<1>2. PICK ts \in Seq(TokenRecords) : ts = tokens
  BY DEF LayerInv
<1> SUFFICES ASSUME NEW n \in 0..Len(tokens)
             PROVE  /\ n \in 0..Len(tokens')
                    /\ \A v : CostAt(tokens, n, v) => CostAt(tokens', n, v)
                    /\ \A e : SaidAt(tokens, n, e) => SaidAt(tokens', n, e)
                    /\ \A p : OwnBy(tokens, n, p) => OwnBy(tokens, n, p)'
  OBVIOUS
<1>3. /\ n \in 0..Len(ts \o us)
      /\ \A i \in 1..n : (ts \o us)[i] = ts[i]
      /\ \A v : CostAt(ts, n, v) => CostAt(ts \o us, n, v)
      /\ \A e : SaidAt(ts, n, e) => SaidAt(ts \o us, n, e)
  BY <1>2, PastStays
<1>4. tokens' = ts \o us
  BY <1>1, <1>2
<1>5. ASSUME NEW p, OwnBy(tokens, n, p) PROVE OwnBy(tokens, n, p)'
  <2>1. SUFFICES ASSUME p \in Sessions
        PROVE  Late(p)' /\ (mine'[p].stored => \E i \in 1..n : tokens'[i].by = p)
    BY DEF OwnBy
  <2>2. Late(p) /\ (mine[p].stored => \E i \in 1..n : tokens[i].by = p)
    BY <1>5, <2>1 DEF OwnBy
  <2>3. Late(p)' /\ mine'[p].stored = mine[p].stored
    BY <2>1, <2>2, LateStays
  <2> QED
    BY <1>2, <1>3, <1>4, <2>2, <2>3
<1> QED
  BY <1>2, <1>3, <1>4, <1>5

(* A cost has a currency, and only a cost has one.                         *)
LEMMA PricedIsInACurrency ==
    ASSUME NEW e \in Accepted
    PROVE  Known(e.cost) <=> e.currency # NoCurrency
<1>1. CASE e = UnavailableEvidence
  BY <1>1 DEF UnavailableEvidence, Known, NoCurrency
<1>2. ASSUME NEW in \in Imports \union Earlier, e \in ImportTokenCostEvidence(in)
      PROVE  Known(e.cost) <=> e.currency # NoCurrency
  <2>1. ValidateTokenCostEvidence(e)
    BY <1>2 DEF ImportTokenCostEvidence
  <2> QED
    BY <2>1 DEF ValidateTokenCostEvidence
<1> QED
  BY <1>1, <1>2 DEF Accepted

(* A report that is drawn up tells what the records say then.              *)
LEMMA ReportIsDated ==
    ASSUME LayerInv, NEW p, NEW result, p \in Sessions => Late(p)
    PROVE  DatedReports(tokens, {BuildProofReport(p, result)})
<1> DEFINE items == Evidence(tokens)
           r == BuildProofReport(p, result)
           n == Len(tokens)
           J == Priced(tokens, n)
           K == {tokens[j].e.currency : j \in J}
<1>1. /\ n \in Nat /\ DOMAIN tokens = 1..n /\ DOMAIN items = 1..n
      /\ \A j \in 1..n : tokens[j] \in TokenRecords /\ items[j] = tokens[j].e
  <2>1. n \in Nat /\ DOMAIN tokens = 1..n /\ tokens \in [1..n -> TokenRecords]
    BY LenProperties DEF LayerInv
  <2> QED
    BY <2>1 DEF Evidence
<1>2. /\ r.canShowCost = CanShowCostSummary(items)
      /\ r.savings.cost = IF CanShowCostSummary(items) THEN TotalCost(items) ELSE Unknown
      /\ r.count = Len(items) /\ r.by = p
  BY DEF BuildProofReport, BuildSavingsSection, SummarizeTokenCostEvidence
<1>2a. Len(items) = n
  <2>1. DOMAIN items = 1..Len(items) /\ Len(items) \in Nat
    <3>1. items = [i \in 1..n |-> tokens[i].e]
      BY <1>1 DEF Evidence
    <3> QED
      BY <1>1, <3>1
  <2> QED
    BY <1>1, <2>1
<1>2b. OwnBy(tokens, n, p)
  <2>1. ASSUME p \in Sessions, mine[p].stored PROVE \E i \in 1..n : tokens[i].by = p
    <3>1. p \in Records(tokens)
      BY <2>1 DEF LayerInv, SessionFacts
    <3> QED
      BY <1>1, <3>1 DEF Records
  <2> QED
    BY <2>1 DEF OwnBy
<1> HIDE DEF items, r, n
<1>3. SUFFICES ASSUME r.canShowCost, Known(r.savings.cost) PROVE CostAt(tokens, n, r.savings.cost)
  <2>1. ReportAt(tokens, n, r)
    BY <1>2, <1>3, <1>2a DEF ReportAt
  <2>2. n \in 0..Len(tokens)
    BY <1>1 DEF n
  <2>3. Dated(tokens, r)
    BY <1>2, <1>2b, <2>1, <2>2 DEF Dated
  <2> QED
    BY <2>3 DEF DatedReports, r
<1>4. CanShowCostSummary(items) /\ r.savings.cost = TotalCost(items)
  BY <1>2, <1>3
<1>5. \E j \in 1..n : tokens[j].e.conf \in {"measured", "imported"}
  <2> DEFINE firm == {i \in DOMAIN items : items[i].conf \in {"measured", "imported"}}
  <2>1. Cardinality(firm) > 0
    BY <1>4 DEF CanShowCostSummary, Counted
  <2>2. Cardinality({}) = 0
    BY FS_EmptySet
  <2>3. ASSUME firm = {} PROVE FALSE
    <3>1. Cardinality(firm) = Cardinality({})
      BY <2>3
    <3> HIDE DEF firm
    <3> QED
      BY <2>1, <2>2, <3>1
  <2> QED
    BY <1>1, <2>3
<1>6. TotalCost(items) # Unknown
  BY <1>3, <1>4 DEF Known
<1>7. /\ J # {} /\ ~MixedCurrency(items)
      /\ TotalCost(items) = SumFunction([j \in J |-> items[j].cost])
  <2>1. J = {j \in DOMAIN items : Known(items[j].cost)}
    BY <1>1 DEF Priced
  <2> QED
    BY <1>6, <2>1 DEF TotalCost
<1>8. [j \in J |-> items[j].cost] = [j \in J |-> tokens[j].e.cost]
  BY <1>1 DEF Priced
<1>10. K \subseteq Currencies(items)
  <2> SUFFICES ASSUME NEW j \in J PROVE tokens[j].e.currency \in Currencies(items)
    OBVIOUS
  <2>1. j \in 1..n /\ Known(tokens[j].e.cost) /\ tokens[j].e \in Accepted
    BY <1>1 DEF TokenRecords, Priced
  <2>2. tokens[j].e.currency # NoCurrency
    BY <2>1, PricedIsInACurrency
  <2> QED
    BY <1>1, <2>1, <2>2 DEF Currencies
<1>11. IsFiniteSet(Currencies(items)) /\ Cardinality(Currencies(items)) <= 1
  <2> DEFINE named == {items[i].currency : i \in DOMAIN items}
  <2>1. IsFiniteSet(1..n)
    BY <1>1, FS_Interval
  <2>2. [i \in 1..n |-> items[i].currency] \in Surjection(1..n, named)
    BY <1>1 DEF Surjection
  <2>3. IsFiniteSet(named)
    <3> HIDE DEF named
    <3> QED
      BY <2>1, <2>2, FS_Surjection
  <2>4. Currencies(items) \in SUBSET named
    BY DEF Currencies
  <2> HIDE DEF named
  <2>5. IsFiniteSet(Currencies(items))
    BY <2>3, <2>4, FS_Subset
  <2>6. Cardinality(Currencies(items)) \in Nat
    BY <2>5, FS_CardinalityType
  <2>7. ~(Cardinality(Currencies(items)) > 1)
    BY <1>7 DEF MixedCurrency
  <2> QED
    BY <2>5, <2>6, <2>7
<1>12. Cardinality(K) = 1
  <2>1. K # {}
    BY <1>7
  <2>2. K \in SUBSET Currencies(items)
    BY <1>10
  <2> HIDE DEF K
  <2>3. IsFiniteSet(K) /\ Cardinality(K) <= Cardinality(Currencies(items))
    BY <1>11, <2>2, FS_Subset
  <2>4. Cardinality(K) \in Nat /\ Cardinality(Currencies(items)) \in Nat
    BY <1>11, <2>3, FS_CardinalityType
  <2>5. Cardinality(K) # 0
    BY <2>1, <2>3, FS_EmptySet
  <2> QED
    BY <1>11, <2>3, <2>4, <2>5
<1>13. Cardinality({tokens[j].e.currency : j \in J}) = 1
  BY <1>12
<1>14. r.savings.cost = SumFunction([j \in J |-> tokens[j].e.cost])
  BY <1>4, <1>7, <1>8
<1> QED
  BY <1>5, <1>13, <1>14 DEF CostAt

(* What is entered of the records for a report is what it tells of them.   *)
LEMMA EntriesTellTheReport ==
    ASSUME NEW ts, NEW n, NEW r, ReportAt(ts, n, r),
           NEW e \in EntriesFromProofReport(r), OfRecords(e)
    PROVE  SaidAt(ts, n, e)
<1>1. e \notin {ProofEntry(r)} \union ProtectedEntries(r) \union PreparedEntries(r)
                \union AttentionEntries(r)
  BY DEF ProofEntry, ProtectedEntries, PreparedEntries, AttentionEntries, Entry, OfRecords
<1>2. e \in CostEntries(r)
  BY <1>1 DEF EntriesFromProofReport
<1>3. CASE r.canShowCost /\ Known(r.savings.cost)
  <2>1. e = Entry("token_cost_evidence", "captured", r.savings.conf, "cost_summary", r.savings.cost)
    BY <1>2, <1>3 DEF CostEntries
  <2> QED
    BY <1>3, <2>1 DEF Entry, SaidAt, ReportAt
<1>4. CASE ~(r.canShowCost /\ Known(r.savings.cost))
  <2>1. e.metric = "evidence_count" /\ e.value = r.count
    BY <1>2, <1>4 DEF CostEntries, Entry
  <2> QED
    BY <2>1 DEF SaidAt, ReportAt
<1> QED
  BY <1>3, <1>4

(* The cost card shows a cost that is in the ledger, or none.              *)
LEMMA ShownIsEntered ==
    ASSUME NEW S, NEW l \in Seq(S), Known(CostShown(l))
    PROVE  \E i \in DOMAIN l : \E e \in l[i].entries :
              e.metric = "cost_summary" /\ e.value = CostShown(l)
<1> DEFINE priced(i) == {e \in l[i].entries : e.metric = "cost_summary"}
           at == {i \in DOMAIN l : priced(i) # {}}
<1>1. at # {} /\ CostShown(l) = (CHOOSE e \in priced(Min(at)) : TRUE).value
  BY DEF CostShown, Known
<1>2. at \subseteq Nat /\ at \subseteq DOMAIN l
  <2>1. DOMAIN l = 1..Len(l) /\ Len(l) \in Nat
    BY LenProperties
  <2> QED
    BY <2>1
<1> HIDE DEF at
<1>3. \E x \in at : \A y \in at : x =< y
  <2>1. \E x \in at : \A y \in at : <<y, x>> \notin OpToRel(<, Nat)
    BY <1>1, <1>2, WFMin, NatLessThanWellFounded, Zenon
  <2>2. PICK x \in at : \A y \in at : <<y, x>> \notin OpToRel(<, Nat)
    BY <2>1
  <2>3. ASSUME NEW y \in at PROVE x =< y
    <3>1. x \in Nat /\ y \in Nat
      BY <1>2
    <3>2. ~(y < x)
      BY <2>2, <3>1, Zenon DEF OpToRel
    <3> QED
      BY <3>1, <3>2
  <2> QED
    BY <2>3
<1>4. Min(at) \in at
  BY <1>3 DEF Min
<1> DEFINE i == Min(at)
           shown == CHOOSE e \in priced(i) : TRUE
<1>5. priced(i) # {}
  BY <1>4 DEF at
<1>6. shown \in priced(i)
  BY <1>5
<1>7. i \in DOMAIN l /\ CostShown(l) = shown.value
  BY <1>1, <1>2, <1>4
<1> HIDE DEF i, shown
<1> QED
  BY <1>6, <1>7

(* Only the card of the cost has a value.                                  *)
LEMMA CardOfCost ==
    ASSUME NEW l, NEW c \in BuildCompactValueCards(l), Known(c.value)
    PROVE  c.value = CostShown(l)
<1>1. PICK cat \in Categories : c = CompactCard(l, cat)
  BY DEF BuildCompactValueCards
<1>2. c.value = CostShown(l) \/ c.value = Unknown
  BY <1>1 DEF CompactCard
<1> QED
  BY <1>2 DEF Known

(* What is dated before a step is dated after it.                          *)
LEMMA DatesStay ==
    ASSUME LayerInv, LedgerNext
    PROVE  /\ \A r : Dated(tokens, r) => Dated(tokens, r)'
           /\ \A b : DatedBatch(tokens, b) => DatedBatch(tokens, b)'
           /\ \A v : DatedCost(tokens, v) => DatedCost(tokens, v)'
<1>1. ASSUME NEW n \in 0..Len(tokens)
      PROVE  /\ n \in 0..Len(tokens')
             /\ \A v : CostAt(tokens, n, v) => CostAt(tokens', n, v)
             /\ \A e : SaidAt(tokens, n, e) => SaidAt(tokens', n, e)
             /\ \A p : OwnBy(tokens, n, p) => OwnBy(tokens, n, p)'
  BY SaidStays
<1>2. ASSUME NEW r, Dated(tokens, r) PROVE Dated(tokens, r)'
  <2>1. PICK n \in 0..Len(tokens) : ReportAt(tokens, n, r) /\ OwnBy(tokens, n, r.by)
    BY <1>2 DEF Dated
  <2>2. ReportAt(tokens', n, r)
    BY <1>1, <2>1 DEF ReportAt
  <2>3. OwnBy(tokens, n, r.by)' /\ n \in 0..Len(tokens')
    BY <1>1, <2>1
  <2> QED
    BY <2>2, <2>3 DEF Dated
<1>3. ASSUME NEW b, DatedBatch(tokens, b) PROVE DatedBatch(tokens, b)'
  <2>1. PICK n \in 0..Len(tokens) :
           /\ OwnBy(tokens, n, b.of)
           /\ \A e \in b.entries : OfRecords(e) => SaidAt(tokens, n, e)
    BY <1>3 DEF DatedBatch
  <2>2. \A e \in b.entries : OfRecords(e) => SaidAt(tokens', n, e)
    BY <1>1, <2>1
  <2>3. OwnBy(tokens, n, b.of)' /\ n \in 0..Len(tokens')
    BY <1>1, <2>1
  <2> QED
    BY <2>2, <2>3 DEF DatedBatch
<1>4. ASSUME NEW v, DatedCost(tokens, v) PROVE DatedCost(tokens, v)'
  BY <1>1, <1>4 DEF DatedCost
<1> QED
  BY <1>2, <1>3, <1>4

(* The ledger takes the entries of one report.                             *)
LEMMA LedgerStep ==
    ASSUME LayerInv, PastInv, LedgerNext, NEW p \in Procs, NEW ok \in BOOLEAN,
           AppendValueLedgerEntry(p, ok)
    PROVE  /\ \E S : ledger' \in Seq(S)
           /\ \A i \in DOMAIN ledger' : DatedBatch(tokens, ledger'[i])
<1> DEFINE source == IF p \in Sessions /\ report # {} THEN report
                     ELSE {BuildProofReport(p, "none")}
           batches == {[of |-> r.by, entries |-> EntriesFromProofReport(r)] : r \in source}
<1>1. ledger' = IF ok THEN ledger \o SetToSeq(batches) ELSE ledger
  BY DEF AppendValueLedgerEntry
<1>2. DatedReports(tokens, source)
  <2>1. p \in Sessions => Late(p)
    BY DEF AppendValueLedgerEntry, At, Late
  <2>2. DatedReports(tokens, {BuildProofReport(p, "none")})
    BY <2>1, ReportIsDated
  <2> QED
    BY <2>2 DEF PastInv
<1>3. source # {}
  OBVIOUS
<1> HIDE DEF source
<1>4. PICK r : source = {r}
  BY <1>2, <1>3 DEF DatedReports
<1> DEFINE batch == [of |-> r.by, entries |-> EntriesFromProofReport(r)]
<1>5. batches = {batch}
  BY <1>4
<1>6. DatedBatch(tokens, batch)
  <2>1. PICK n \in 0..Len(tokens) : ReportAt(tokens, n, r) /\ OwnBy(tokens, n, r.by)
    BY <1>2, <1>4 DEF DatedReports, Dated
  <2>2. PICK ts : ts = tokens
    OBVIOUS
  <2>3. \A e \in EntriesFromProofReport(r) : OfRecords(e) => SaidAt(ts, n, e)
    BY <2>1, <2>2, EntriesTellTheReport
  <2> QED
    BY <2>1, <2>2, <2>3 DEF DatedBatch
<1>7. SetToSeq(batches) = <<batch>>
  BY <1>5, ListOfOne
<1> HIDE DEF batches, batch
<1>8. PICK S : ledger \in Seq(S)
  BY DEF PastInv
<1>9. ledger \in Seq(S \union {batch}) /\ <<batch>> \in Seq(S \union {batch})
  <2>1. S \subseteq S \union {batch}
    OBVIOUS
  <2>2. ledger \in Seq(S \union {batch})
    BY <1>8, <2>1, SeqMonotonic
  <2> QED
    BY <2>2
<1>10. CASE ~ok
  BY <1>1, <1>8, <1>10 DEF PastInv
<1>11. CASE ok
  <2> DEFINE T == S \union {batch}
             l == ledger \o <<batch>>
  <2>1. /\ l \in Seq(T) /\ Len(l) = Len(ledger) + 1
        /\ \A i \in 1..Len(ledger) + 1 : l[i] = IF i <= Len(ledger) THEN ledger[i]
                                               ELSE <<batch>>[i - Len(ledger)]
    <3> HIDE DEF T
    <3>1. Len(<<batch>>) = 1
      OBVIOUS
    <3> QED
      BY <1>9, <3>1, ConcatProperties DEF T
  <2>2. Len(ledger) \in Nat /\ DOMAIN ledger = 1..Len(ledger) /\ DOMAIN l = 1..Len(l)
    BY <1>9, <2>1, LenProperties
  <2>3. ledger' = l
    BY <1>1, <1>7, <1>11
  <2> HIDE DEF l, T
  <2>4. ASSUME NEW i \in DOMAIN l PROVE (i \in DOMAIN ledger /\ l[i] = ledger[i]) \/ l[i] = batch
    <3>1. i \in 1..Len(ledger) + 1
      BY <2>1, <2>2
    <3>2. CASE i <= Len(ledger)
      BY <2>1, <2>2, <3>1, <3>2
    <3>3. CASE ~(i <= Len(ledger))
      <4>1. i - Len(ledger) = 1
        BY <2>2, <3>1, <3>3
      <4> QED
        BY <2>1, <3>1, <3>3, <4>1
    <3> QED
      BY <3>2, <3>3
  <2>5. \A i \in DOMAIN l : DatedBatch(tokens, l[i])
    BY <1>6, <2>4 DEF PastInv
  <2> QED
    BY <1>1, <2>1, <2>3, <2>5
<1> QED
  BY <1>10, <1>11

(* The cards show what is in the ledger.                                   *)
LEMMA CardsStep ==
    ASSUME LayerInv, PastInv, LedgerNext, NEW p \in Procs, NEW ok \in BOOLEAN,
           WriteValueCards(p, ok)
    PROVE  \A c \in cards' : Known(c.value) => DatedCost(tokens, c.value)
<1>1. cards' = IF ok THEN BuildCompactValueCards(ledger) ELSE cards
  BY DEF WriteValueCards
<1>2. PICK S : ledger \in Seq(S)
  BY DEF PastInv
<1>3. ASSUME NEW c \in BuildCompactValueCards(ledger), Known(c.value)
      PROVE  DatedCost(tokens, c.value)
  <2>1. c.value = CostShown(ledger)
    BY <1>3, CardOfCost
  <2>2. PICK l \in Seq(S) : l = ledger
    BY <1>2
  <2>3. PICK i \in DOMAIN l : \E e \in l[i].entries :
           e.metric = "cost_summary" /\ e.value = CostShown(l)
    BY <1>3, <2>1, <2>2, ShownIsEntered
  <2>4. PICK e \in l[i].entries : e.metric = "cost_summary" /\ e.value = CostShown(l)
    BY <2>3
  <2>5. PICK n \in 0..Len(tokens) : SaidAt(tokens, n, e)
    BY <2>2, <2>4 DEF PastInv, DatedBatch, OfRecords
  <2> QED
    BY <2>1, <2>2, <2>4, <2>5 DEF SaidAt, DatedCost
<1> QED
  BY <1>1, <1>3 DEF PastInv

(* What is dated before a step, in the state the step leaves, is dated     *)
(* after it.                                                               *)
LEMMA PastCarries ==
    ASSUME LayerInv, LedgerNext,
           DatedReports(tokens, report'),
           \A p \in Procs : DatedReports(tokens, mine'[p].built),
           \E S : ledger' \in Seq(S),
           \A i \in DOMAIN ledger' : DatedBatch(tokens, ledger'[i]),
           \A c \in cards' : Known(c.value) => DatedCost(tokens, c.value)
    PROVE  PastInv'
<1>1. /\ \A r : Dated(tokens, r) => Dated(tokens, r)'
      /\ \A b : DatedBatch(tokens, b) => DatedBatch(tokens, b)'
      /\ \A v : DatedCost(tokens, v) => DatedCost(tokens, v)'
  BY DatesStay
<1>2. DatedReports(tokens, report)'
  BY <1>1 DEF DatedReports
<1>3. \A p \in Procs : DatedReports(tokens, mine[p].built)'
  BY <1>1 DEF DatedReports
<1>4. \A i \in DOMAIN ledger' : DatedBatch(tokens, ledger[i])'
  BY <1>1
<1>5. \A c \in cards' : Known(c.value) => DatedCost(tokens, c.value)'
  BY <1>1
<1> QED
  BY <1>2, <1>3, <1>4, <1>5 DEF PastInv

(* Every step keeps PastInv.                                               *)
LEMMA PastStep ==
    ASSUME LayerInv, PastInv, [LedgerNext]_ledgerVars
    PROVE  PastInv'
<1>1. CASE UNCHANGED ledgerVars
  <2>1. /\ tokens' = tokens /\ report' = report /\ ledger' = ledger /\ cards' = cards
        /\ pc' = pc /\ mine' = mine
    BY <1>1 DEF ledgerVars
  <2>2. \A n, p : OwnBy(tokens, n, p)' <=> OwnBy(tokens, n, p)
    BY <2>1 DEF OwnBy, Late
  <2>3. \A r : Dated(tokens, r)' <=> Dated(tokens, r)
    BY <2>1, <2>2 DEF Dated
  <2>4. \A b : DatedBatch(tokens, b) => DatedBatch(tokens, b)'
    BY <2>1, <2>2 DEF DatedBatch
  <2>5. \A v : DatedCost(tokens, v) => DatedCost(tokens, v)'
    BY <2>1 DEF DatedCost
  <2>6. DatedReports(tokens, report)' /\ \A p \in Procs : DatedReports(tokens, mine[p].built)'
    BY <2>1, <2>3 DEF PastInv, DatedReports
  <2>7. /\ \A i \in DOMAIN ledger' : DatedBatch(tokens, ledger[i])'
        /\ \A c \in cards' : Known(c.value) => DatedCost(tokens, c.value)'
    BY <2>1, <2>4, <2>5 DEF PastInv
  <2> QED
    BY <2>1, <2>6, <2>7 DEF PastInv
<1>2. CASE LedgerNext
  <2>1. /\ DatedReports(tokens, report)
        /\ \A p \in Procs : DatedReports(tokens, mine[p].built)
        /\ \E S : ledger \in Seq(S)
        /\ \A i \in DOMAIN ledger : DatedBatch(tokens, ledger[i])
        /\ \A c \in cards : Known(c.value) => DatedCost(tokens, c.value)
    BY DEF PastInv
  <2>2. MemoryFields
    BY DEF LayerInv
  <2>3. ASSUME NEW in \in Imports, Import(in) PROVE PastInv'
    BY <1>2, <2>1, <2>3, PastCarries DEF Import
  <2>4. ASSUME NEW p \in Procs, NEW ok \in BOOLEAN, WriteContinuity(p, ok) PROVE PastInv'
    BY <1>2, <2>1, <2>4, PastCarries DEF WriteContinuity
  <2>5. ASSUME NEW p \in Procs, NEW ok \in BOOLEAN, WriteEvidence(p, ok) PROVE PastInv'
    <3>1. /\ report' = report /\ ledger' = ledger /\ cards' = cards
          /\ mine' = [mine EXCEPT ![p].stored = ok]
      BY <2>5 DEF WriteEvidence
    <3>2. \A q \in Procs : mine'[q].built = mine[q].built
      BY <2>2, <3>1, StoredWritesOne
    <3> QED
      BY <1>2, <2>1, <3>1, <3>2, PastCarries
  <2>6. ASSUME NEW p \in Procs, NEW ok \in BOOLEAN, WriteSyncQueue(p, ok) PROVE PastInv'
    <3>1. /\ report' = report /\ ledger' = ledger /\ cards' = cards
          /\ mine' = [mine EXCEPT ![p].queued = ok]
      BY <2>6 DEF WriteSyncQueue
    <3>2. \A q \in Procs : mine'[q].built = mine[q].built
      BY <2>2, <3>1, QueuedWritesOne
    <3> QED
      BY <1>2, <2>1, <3>1, <3>2, PastCarries
  <2>7. ASSUME NEW p \in Procs, NEW result, BuildReport(p, result) PROVE PastInv'
    <3> DEFINE built == {BuildProofReport(p, result)}
    <3>1. /\ report' = report /\ ledger' = ledger /\ cards' = cards /\ tokens' = tokens
          /\ mine' = [mine EXCEPT ![p].built = built]
      BY <2>7 DEF BuildReport
    <3>2. DatedReports(tokens, built)
      <4>1. p \in Sessions => Late(p)
        BY <2>7 DEF BuildReport, At, Late
      <4> QED
        BY <4>1, ReportIsDated
    <3> HIDE DEF built
    <3>3. PICK b : b = built
      OBVIOUS
    <3>4. mine'[p].built = b /\ \A q \in Procs \ {p} : mine'[q] = mine[q]
      BY <2>2, <3>1, <3>3, BuiltWritesOne
    <3>5. \A q \in Procs : DatedReports(tokens, mine'[q].built)
      BY <2>1, <3>1, <3>2, <3>3, <3>4
    <3> QED
      BY <1>2, <2>1, <3>1, <3>5, PastCarries
  <2>8. ASSUME NEW p \in Procs, NEW ok \in BOOLEAN, WriteProofReport(p, ok) PROVE PastInv'
    <3>1. /\ ledger' = ledger /\ cards' = cards /\ mine' = mine
          /\ report' = report \/ report' = mine[p].built
      BY <2>8 DEF WriteProofReport
    <3>2. DatedReports(tokens, report')
      BY <2>1, <3>1
    <3> QED
      BY <1>2, <2>1, <3>1, <3>2, PastCarries
  <2>9. ASSUME NEW p \in Procs, NEW ok \in BOOLEAN, AppendValueLedgerEntry(p, ok) PROVE PastInv'
    <3>1. report' = report /\ cards' = cards /\ mine' = mine
      BY <2>9 DEF AppendValueLedgerEntry
    <3>2. /\ \E S : ledger' \in Seq(S)
          /\ \A i \in DOMAIN ledger' : DatedBatch(tokens, ledger'[i])
      BY <1>2, <2>9, LedgerStep
    <3> QED
      BY <1>2, <2>1, <3>1, <3>2, PastCarries
  <2>10. ASSUME NEW p \in Procs, NEW ok \in BOOLEAN, WriteValueCards(p, ok) PROVE PastInv'
    <3>1. report' = report /\ ledger' = ledger /\ mine' = mine
      BY <2>10 DEF WriteValueCards
    <3>2. \A c \in cards' : Known(c.value) => DatedCost(tokens, c.value)
      BY <1>2, <2>10, CardsStep
    <3> QED
      BY <1>2, <2>1, <3>1, <3>2, PastCarries
  <2> QED
    BY <1>2, <2>3, <2>4, <2>5, <2>6, <2>7, <2>8, <2>9, <2>10 DEF LedgerNext, Step
<1> QED
  BY <1>1, <1>2

(* PastInv holds at first.                                                 *)
LEMMA PastStart ==
    ASSUME LedgerInit
    PROVE  PastInv
<1>1. report = {} /\ ledger = <<>> /\ cards = {} /\ mine = [p \in Procs |-> NoMemory]
  BY DEF LedgerInit
<1>2. \A p \in Procs : mine[p].built = {}
  BY <1>1 DEF NoMemory
<1>3. DatedReports(tokens, {})
  BY DEF DatedReports
<1>4. \E S : ledger \in Seq(S)
  BY <1>1, EmptySeq
<1>5. DOMAIN ledger = {}
  BY <1>1
<1> QED
  BY <1>1, <1>2, <1>3, <1>4, <1>5 DEF PastInv

(* What the value ledger says of token evidence is what the records said   *)
(* at one moment, no earlier than the own record of the session whose      *)
(* report it is, however the processes interleave and whatever was         *)
(* imported in between; and so is the cost on the card                     *)
(* (summarizeTokenCostEvidence, entriesFromProofReport,                    *)
(* buildCompactValueCards).                                                *)
THEOREM EntriesTellThePast ==
    LedgerSpec => []EntriesMatchThePast
<1>1. LedgerInit => LayerInv /\ PastInv
  BY LayerStart, PastStart
<1>2. (LayerInv /\ PastInv) /\ [LedgerNext]_ledgerVars => (LayerInv /\ PastInv)'
  BY LayerStep, PastStep
<1>3. LayerInv /\ PastInv => EntriesMatchThePast
  <2> SUFFICES ASSUME PastInv PROVE EntriesMatchThePast
    OBVIOUS
  <2>1. \A b \in Batches(ledger) : \E i \in DOMAIN ledger : b = ledger[i]
    BY DEF Batches, Range
  <2>2. \A b \in Batches(ledger) : DatedBatch(tokens, b)
    BY <2>1 DEF PastInv
  <2>3. \A c \in cards : Known(c.value) => DatedCost(tokens, c.value)
    BY DEF PastInv
  <2> QED
    BY <2>2, <2>3 DEF EntriesMatchThePast, DatedBatch, DatedCost, OwnBy, OfRecords
<1> QED
  BY <1>1, <1>2, <1>3, PTL DEF LedgerSpec
=============================================================================
