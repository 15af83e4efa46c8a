---------------------------- MODULE LoopControl ----------------------------
(***************************************************************************)
(* One bounded agent loop: runLoop of                                      *)
(* capabilities/loop-control/orchestrator.ts with the drift guard, the     *)
(* iteration drift, the checks runner and the loop metadata it calls.      *)
(*                                                                         *)
(* A file is classified by the sets Allowed and Disallowed of the files    *)
(* its path patterns match (Allowed = Files when there is no allow list).  *)
(* A command is either blocked/destructive or harmless.  The text of       *)
(* findings, durations and the in-memory ledger events are left out.       *)
(***************************************************************************)
EXTENDS Integers, Sequences, StopGate

CONSTANTS Files, Allowed, Disallowed,   \* what the agent may touch
          CommandChecks,                \* checks that run a command
          BlankChecks,                  \* checks without a command
          ScopeChecks,                  \* scope_check / drift_check entries
          MaxIterations,                \* policy.maxIterations, any number or NaN
          AdapterYields                 \* does the adapter let the event loop turn?

Checks == CommandChecks \union BlankChecks \union ScopeChecks

(* What --max can be: Number() of a text is whole, or a fraction (between  *)
(* n and n + 1), or NaN.                                                   *)
Numbers == [kind : {"whole", "fraction"}, n : Int] \union [kind : {"NaN"}, n : {0}]

ASSUME LoopAssumption ==
    /\ Allowed \subseteq Files
    /\ Disallowed \subseteq Files
    /\ MaxIterations \in Numbers
    /\ AdapterYields \in BOOLEAN
    /\ CommandChecks \intersect BlankChecks = {}
    /\ CommandChecks \intersect ScopeChecks = {}
    /\ BlankChecks \intersect ScopeChecks = {}

VARIABLES
    pc,               \* where runLoop is
    iterations,       \* iteration summaries, in order (i = Len(iterations) + 1)
    allDrift,         \* every drift finding so far
    allFilesChanged,  \* every file any iteration changed
    latestChecks,     \* last result of each required check
    stopReason,
    overdue,          \* maxRuntimeMinutes have passed
    signal,           \* SIGINT/SIGTERM: "none", "pending", "delivered" (abortSignal.aborted)
    signalledIn,      \* (history) iterations started when the signal arrived and,
                      \* once it is delivered, when it was
    endedBy,          \* (history) the iterOutput of the iteration that left the loop
    receipt,          \* the receipt file, as a set of at most one record
    metadata,         \* the loop metadata file, likewise
    active            \* active.json says this loop is running

vars == <<pc, iterations, allDrift, allFilesChanged, latestChecks, stopReason,
          overdue, signal, signalledIn, endedBy, receipt, metadata, active>>

loopVars == <<iterations, allDrift, allFilesChanged, latestChecks, stopReason, endedBy>>
envVars  == <<overdue, signal, signalledIn>>
fileVars == <<receipt, metadata, active>>

CheckResults == {"not_run", "passed", "failed", "skipped"}
Findings == [type : {"scope_drift", "method_drift", "proof_drift", "progress_drift"},
             severity : {"info", "warning", "block"}]
StopReasons == {"success_all_checks_passed", "failure_repeated_failure",
                "failure_no_progress", "failure_agent_error", "safety_blocked_path",
                "safety_destructive_command", "escalation_rule_triggered",
                "budget_max_iterations", "budget_max_runtime", "user_stopped"}
Summaries == [filesChanged : SUBSET Files, checkResults : [Checks -> CheckResults],
              gateDecision : Decisions]

(* What an adapter hands back for one iteration.                           *)
Outputs == [files : SUBSET Files, blockedCommand : BOOLEAN,
            agentError : BOOLEAN, exitZero : BOOLEAN]
-----------------------------------------------------------------------------
(* Drift.                                                                  *)

detectScopeDrift(files) ==
    {[type |-> "scope_drift", severity |-> "block"] : f \in files \intersect Disallowed}
      \union
    {[type |-> "scope_drift", severity |-> "warning"] :
        f \in files \ (Disallowed \union Allowed)}

detectMethodDrift(blockedCommand) ==
    IF blockedCommand THEN {[type |-> "method_drift", severity |-> "block"]} ELSE {}

FailedIn(summary) == {c \in Checks : summary.checkResults[c] = "failed"}

checkRepeatedFailures(its) ==
    IF Len(its) < 2 THEN {}
    ELSE FailedIn(its[Len(its)]) \intersect FailedIn(its[Len(its) - 1])

(* Called with the summaries of the iterations before the current one.     *)
detectProofDrift(its) ==
    IF checkRepeatedFailures(its) = {} THEN {}
    ELSE {[type |-> "proof_drift", severity |-> "warning"]}

detectProgressDrift(its, files) ==
    IF Len(its) < 2 THEN {}
    ELSE {[type |-> "progress_drift", severity |-> "warning"] : x \in {files} \intersect {{}}}
           \union
         {[type |-> "progress_drift", severity |-> "info"] :
             x \in ({files} \ {{}}) \intersect {its[Len(its)].filesChanged}}

iterationDrifts(out) ==
    detectScopeDrift(out.files) \union detectMethodDrift(out.blockedCommand)
      \union detectProofDrift(iterations) \union detectProgressDrift(iterations, out.files)

HasBlock(findings) == \E d \in findings : d.severity = "block"
-----------------------------------------------------------------------------
(* Checks.  `passing' is the set of commands that exit 0 this time; a      *)
(* scope or drift check is returned as it came in.                         *)

runAllChecks(passing) ==
    [c \in Checks |->
        IF c \in ScopeChecks THEN latestChecks[c]
        ELSE IF c \in BlankChecks THEN "skipped"
        ELSE IF c \in passing THEN "passed" ELSE "failed"]

allPassed(checks) == \A c \in Checks : checks[c] = "passed"

buildEvidenceFromChecks(checks) ==
    {[kind |-> "test_passed", hasRef |-> TRUE] : c \in {k \in Checks : checks[k] = "passed"}}
-----------------------------------------------------------------------------
Init ==
    /\ pc = "start"
    /\ iterations = <<>>
    /\ allDrift = {}
    /\ allFilesChanged = {}
    /\ latestChecks = [c \in Checks |-> "not_run"]
    /\ stopReason = "budget_max_iterations"
    /\ overdue = FALSE
    /\ signal = "none"
    /\ signalledIn = 0
    /\ endedBy = {}
    /\ receipt = {}
    /\ metadata = {}
    /\ active = FALSE

Start ==
    /\ pc = "start"
    /\ pc' = "top"
    /\ active' = TRUE
    /\ UNCHANGED <<loopVars, envVars, receipt, metadata>>

(* The head of the for loop: the budget, the abort flag, then the clock.   *)
(* i <= policy.maxIterations for the i that comes next: nothing is less    *)
(* than NaN.                                                               *)
MayWork == MaxIterations.kind # "NaN" /\ Len(iterations) + 1 <= MaxIterations.n

BudgetSpent == ~MayWork

LeaveLoop(reason) ==
    /\ pc = "top"
    /\ stopReason' = reason
    /\ pc' = "gate"
    /\ UNCHANGED <<iterations, allDrift, allFilesChanged, latestChecks, endedBy, envVars, fileVars>>

StopOnBudget == BudgetSpent /\ LeaveLoop("budget_max_iterations")

StopOnAbort == ~BudgetSpent /\ signal = "delivered" /\ LeaveLoop("user_stopped")

(* Slip: the clock is looked at before the abort flag.                     *)
RuntimeFirst ==
    ~BudgetSpent /\ overdue /\ LeaveLoop("budget_max_runtime")

StopOnRuntime ==
    ~BudgetSpent /\ signal # "delivered" /\ overdue /\ LeaveLoop("budget_max_runtime")

(* Slip: the abort flag is only looked at elsewhere.                       *)
StartRegardless ==
    /\ pc = "top"
    /\ ~BudgetSpent
    /\ pc' = "agent"
    /\ UNCHANGED <<loopVars, envVars, fileVars>>

StartIteration ==
    /\ pc = "top"
    /\ ~BudgetSpent
    /\ signal # "delivered"
    /\ ~overdue
    /\ pc' = "agent"
    /\ UNCHANGED <<loopVars, envVars, fileVars>>

Summary(out, passing, gate) ==
    [filesChanged |-> out.files, checkResults |-> runAllChecks(passing),
     gateDecision |-> gate]

(* From the adapter's answer to the next loop head nothing else can run:   *)
(* drift detection, the checks and the summary are one step.               *)
IterationEnds(out, passing, reason, gate) ==
    /\ iterations' = Append(iterations, Summary(out, passing, gate))
    /\ allDrift' = allDrift \union iterationDrifts(out)
    /\ allFilesChanged' = allFilesChanged \union out.files
    /\ latestChecks' = runAllChecks(passing)
    /\ stopReason' = reason
    /\ endedBy' = IF gate = "CONTINUE" THEN {} ELSE {out}
    /\ pc' = IF gate = "CONTINUE" THEN "top" ELSE "gate"
    /\ UNCHANGED <<envVars, fileVars>>

(* Slip: the precedence of the two reasons is swapped.                     *)
blockReasonSwapped(out) ==
    IF HasBlock(detectMethodDrift(out.blockedCommand)) THEN "safety_destructive_command"
    ELSE "safety_blocked_path"

blockReason(out) ==
    IF HasBlock(detectScopeDrift(out.files)) THEN "safety_blocked_path"
    ELSE IF HasBlock(detectMethodDrift(out.blockedCommand)) THEN "safety_destructive_command"
    ELSE "escalation_rule_triggered"

Blocked(out) == HasBlock(iterationDrifts(out))
AgentFailed(out) == out.agentError /\ ~out.exitZero
Repeats(out, passing) ==
    checkRepeatedFailures(Append(iterations, Summary(out, passing, "CONTINUE"))) # {}
NoProgress(out) == out.files = {} /\ out.exitZero

(* Slip: a blocking finding is recorded and the loop goes on.              *)
DriftNoted(out, passing) ==
    /\ Blocked(out)
    /\ IterationEnds(out, passing, blockReason(out), "CONTINUE")

DriftStop(out, passing) ==
    /\ Blocked(out)
    /\ IterationEnds(out, passing, blockReason(out), "STOP_BLOCKED")

AgentErrorStop(out, passing) ==
    /\ ~Blocked(out) /\ AgentFailed(out)
    /\ IterationEnds(out, passing, "failure_agent_error", "STOP_BLOCKED")

RepeatedFailureStop(out, passing) ==
    /\ ~Blocked(out) /\ ~AgentFailed(out)
    /\ Repeats(out, passing)
    /\ IterationEnds(out, passing, "failure_repeated_failure", "STOP_BLOCKED")

SuccessStop(out, passing) ==
    /\ ~Blocked(out) /\ ~AgentFailed(out) /\ ~Repeats(out, passing)
    /\ allPassed(runAllChecks(passing))
    /\ IterationEnds(out, passing, "success_all_checks_passed", "STOP_DONE")

NoProgressStop(out, passing) ==
    /\ ~Blocked(out) /\ ~AgentFailed(out) /\ ~Repeats(out, passing)
    /\ ~allPassed(runAllChecks(passing))
    /\ NoProgress(out)
    /\ IterationEnds(out, passing, "failure_no_progress", "STOP_BLOCKED")

NextIteration(out, passing) ==
    /\ ~Blocked(out) /\ ~AgentFailed(out) /\ ~Repeats(out, passing)
    /\ ~allPassed(runAllChecks(passing))
    /\ ~NoProgress(out)
    /\ IterationEnds(out, passing, stopReason, "CONTINUE")

Iterate ==
    /\ pc = "agent"
    /\ \E out \in Outputs, passing \in SUBSET CommandChecks :
          \/ DriftStop(out, passing)
          \/ AgentErrorStop(out, passing)
          \/ RepeatedFailureStop(out, passing)
          \/ SuccessStop(out, passing)
          \/ NoProgressStop(out, passing)
          \/ NextIteration(out, passing)
-----------------------------------------------------------------------------
(* After the loop: kernel gate and receipt, loop metadata, active.json.    *)

policyVerdict == IF HasBlock(allDrift) THEN "block" ELSE "allow"

(* iterations.length >= policy.maxIterations: never of a fraction, whose   *)
(* last iteration is the one before it, nor of NaN.                        *)
LimitReached ==
    CASE MaxIterations.kind = "whole" -> Len(iterations) >= MaxIterations.n
      [] MaxIterations.kind = "fraction" -> Len(iterations) > MaxIterations.n
      [] MaxIterations.kind = "NaN" -> FALSE

StopConditionMet == stopReason # "budget_max_iterations" \/ LimitReached

finalGate ==
    decide([graded |-> gradeAll(buildEvidenceFromChecks(latestChecks)),
            policyVerdict |-> policyVerdict,
            reviewerNoGo |-> FALSE,
            environmentCompromised |-> FALSE,
            stopConditionMet |-> StopConditionMet])

PersistReceipt ==
    /\ pc = "gate"
    /\ receipt' = {[decision |-> finalGate]}
    /\ pc' = "metadata"
    /\ UNCHANGED <<loopVars, envVars, metadata, active>>

categoryForReason(reason) ==
    CASE reason = "success_all_checks_passed" -> "success"
      [] reason \in {"failure_repeated_failure", "failure_no_progress",
                     "failure_agent_error"} -> "failure"
      [] reason \in {"safety_blocked_path", "safety_destructive_command"} -> "safety"
      [] reason \in {"budget_max_iterations", "budget_max_runtime"} -> "budget"
      [] reason = "escalation_rule_triggered" -> "escalation"
      [] reason = "user_stopped" -> "user"

(* Slip: a safety stop does not call for attention.                        *)
EscalationNeedsAttention == categoryForReason(stopReason) = "escalation"

NeedsAttention ==
    \/ categoryForReason(stopReason) \in {"safety", "escalation"}
    \/ HasBlock(allDrift)

deriveProofState ==
    CASE NeedsAttention -> "needs_attention"
      [] ~NeedsAttention /\ Checks = {} -> "not_proved"
      [] ~NeedsAttention /\ Checks # {} ->
            IF allPassed(latestChecks) THEN "proved"
            ELSE IF \E c \in Checks : latestChecks[c] = "failed" THEN "partially_proved"
            ELSE IF \E c \in Checks : latestChecks[c] = "not_run" THEN "not_proved"
            ELSE "partially_proved"

PersistMetadata ==
    /\ pc = "metadata"
    /\ metadata' = {[stopReason |-> stopReason, stopCategory |-> categoryForReason(stopReason),
                     iterationsRun |-> Len(iterations), proofState |-> deriveProofState]}
    /\ pc' = "clear"
    /\ UNCHANGED <<loopVars, envVars, receipt, active>>

(* Slips: active.json cleared before the metadata is written; or only for  *)
(* a loop that is done.                                                    *)
ClearActiveEarly ==
    /\ pc = "metadata" /\ active
    /\ active' = FALSE
    /\ UNCHANGED <<pc, loopVars, envVars, receipt, metadata>>

ClearActiveIfDone ==
    /\ pc = "clear"
    /\ \E r \in receipt : r.decision = "STOP_DONE"
    /\ active' = FALSE
    /\ pc' = "done"
    /\ UNCHANGED <<loopVars, envVars, receipt, metadata>>

ClearActive ==
    /\ pc = "clear"
    /\ active' = FALSE
    /\ pc' = "done"
    /\ UNCHANGED <<loopVars, envVars, receipt, metadata>>
-----------------------------------------------------------------------------
(* The environment: the clock, signals, and the end of the process (a kill *)
(* or an exception of the adapter or of a file write; nothing catches it). *)

Ended == pc \in {"done", "crashed"}

TimePasses ==
    /\ ~Ended /\ ~overdue
    /\ overdue' = TRUE
    /\ UNCHANGED <<pc, loopVars, signal, signalledIn, fileVars>>

IterationsStarted == Len(iterations) + (IF pc = "agent" THEN 1 ELSE 0)

SignalArrives ==
    /\ ~Ended /\ signal = "none"
    /\ signal' = "pending"
    /\ signalledIn' = IterationsStarted
    /\ UNCHANGED <<pc, loopVars, overdue, fileVars>>

(* The handler that calls ac.abort() runs only when the event loop turns:  *)
(* before runLoop is called, or while an adapter really waits.  The Claude *)
(* Code adapter blocks in execSync and resolves at once, so with it the    *)
(* loop runs from start to end without a turn.                             *)
SignalDelivered ==
    /\ signal = "pending"
    /\ pc = "start" \/ (pc = "agent" /\ AdapterYields)
    /\ signal' = "delivered"
    /\ signalledIn' = IterationsStarted
    /\ UNCHANGED <<pc, loopVars, overdue, fileVars>>

Crash ==
    /\ ~Ended
    /\ pc' = "crashed"
    /\ UNCHANGED <<loopVars, envVars, fileVars>>

Run == \/ Start \/ StopOnBudget \/ StopOnAbort \/ StopOnRuntime \/ StartIteration
       \/ Iterate \/ PersistReceipt \/ PersistMetadata \/ ClearActive

Next == Run \/ TimePasses \/ SignalArrives \/ SignalDelivered \/ Crash

Spec == Init /\ [][Next]_vars

(* The process is scheduled and an iteration's agent ends: the adapter     *)
(* gives it a timeout.  Neither signals nor the clock are assumed.         *)
FairSpec == Spec /\ WF_vars(Run)
-----------------------------------------------------------------------------
(* Properties.                                                             *)

(* How often the for loop runs at most.                                    *)
Budget == IF MaxIterations.kind = "NaN" \/ MaxIterations.n < 0 THEN 0 ELSE MaxIterations.n

(* Every variable has its type and the loop stays inside its budget, also  *)
(* counting the iteration under way.                                       *)
TypeOK ==
    /\ pc \in {"start", "top", "agent", "gate", "metadata", "clear", "done", "crashed"}
    /\ iterations \in Seq(Summaries)
    /\ IterationsStarted <= Budget
    /\ allDrift \subseteq Findings
    /\ allFilesChanged \subseteq Files
    /\ latestChecks \in [Checks -> CheckResults]
    /\ stopReason \in StopReasons
    /\ overdue \in BOOLEAN
    /\ signal \in {"none", "pending", "delivered"}
    /\ signalledIn \in 0..Budget
    /\ endedBy \subseteq Outputs
    /\ receipt \subseteq [decision : Decisions]
    /\ metadata \subseteq [stopReason : StopReasons, iterationsRun : 0..Budget,
            stopCategory : {"success", "failure", "safety", "budget", "escalation", "user"},
            proofState : {"needs_attention", "proved", "partially_proved", "not_proved"}]
    /\ active \in BOOLEAN

(* The agent never works again after a blocking finding, and every earlier *)
(* iteration ended in CONTINUE: the loop leaves at the first stop verdict  *)
(* (orchestrator.ts, the breaks of the for loop).                          *)
StopsAtFirstVerdict ==
    /\ pc \in {"start", "top", "agent"} =>
         /\ ~HasBlock(allDrift)
         /\ \A n \in 1..Len(iterations) : iterations[n].gateDecision = "CONTINUE"
    /\ \A n \in 1..Len(iterations) :
         n < Len(iterations) => iterations[n].gateDecision = "CONTINUE"

(* A loop's evidence is passed checks, graded INTERACTION: its receipt is  *)
(* never STOP_DONE.  It is CONTINUE of exactly the loops that used up a    *)
(* limit they cannot reach, for it is a fraction or NaN; of all others it  *)
(* is STOP_BLOCKED.                                                        *)
ReceiptFollowsLimit ==
    \A r \in receipt :
        r.decision = IF stopReason = "budget_max_iterations" /\ ~LimitReached
                     THEN "CONTINUE" ELSE "STOP_BLOCKED"

LastIteration == iterations[Len(iterations)]

(* What the iteration that left the loop came to.                          *)
Touched(out) == out.files \intersect Disallowed # {}
Again == checkRepeatedFailures(iterations) # {}
Clean == allPassed(latestChecks)

(* Once the loop is left, the reported reason is what really happened, and *)
(* nothing that comes before it in the code's order happened as well: of   *)
(* the last iteration a disallowed file, a destructive command, an agent   *)
(* error, a repeated failure, success, no progress; of a loop left at its  *)
(* head the budget, the abort, the clock.                                  *)
StopReasonJustified ==
    pc \in {"gate", "metadata", "clear", "done"} =>
        /\ endedBy = {} =>
              /\ stopReason \in {"budget_max_iterations", "user_stopped", "budget_max_runtime"}
              /\ stopReason = "budget_max_iterations" <=> Len(iterations) = Budget
              /\ stopReason = "user_stopped" <=> Len(iterations) < Budget /\ signal = "delivered"
              /\ stopReason = "budget_max_runtime" => overdue
        /\ \A out \in endedBy :
              /\ stopReason = "safety_blocked_path" <=> Touched(out)
              /\ stopReason = "safety_destructive_command" <=>
                    out.blockedCommand /\ ~Touched(out)
              /\ stopReason = "failure_agent_error" <=>
                    AgentFailed(out) /\ ~out.blockedCommand /\ ~Touched(out)
              /\ stopReason = "failure_repeated_failure" <=>
                    Again /\ ~AgentFailed(out) /\ ~out.blockedCommand /\ ~Touched(out)
              /\ stopReason = "success_all_checks_passed" <=>
                    Clean /\ ~Again /\ ~AgentFailed(out) /\ ~out.blockedCommand /\ ~Touched(out)
              /\ stopReason = "failure_no_progress" =>
                    NoProgress(out) /\ ~Clean /\ ~Again
                      /\ ~AgentFailed(out) /\ ~out.blockedCommand /\ ~Touched(out)

(* A loop recorded as proved changed no disallowed file in any iteration,  *)
(* had every check pass in its last one, and a success is proved whenever  *)
(* there was something to prove (deriveProofState against runLoop).        *)
ProvedIsClean ==
    \A m \in metadata :
        /\ m.proofState = "proved" =>
             allFilesChanged \intersect Disallowed = {} /\ allPassed(LastIteration.checkResults)
        /\ m.stopCategory = "success" /\ Checks # {} => m.proofState = "proved"

(* The iteration drift never reports proof_drift during a run: two equal   *)
(* failures in a row have stopped the loop before its detector looks.      *)
NoProofDrift == \A d \in allDrift : d.type # "proof_drift"

(* On disk, whatever the crash: metadata only with the receipt it refers   *)
(* to, and active.json is cleared only when both files exist.              *)
FilesOrdered ==
    /\ metadata # {} => receipt # {}
    /\ ~active /\ iterations # <<>> => metadata # {} /\ receipt # {}

(* A check without a runnable command (the scope check every policy of     *)
(* buildLoopPolicy carries, or a blank one) never passes, so a loop with   *)
(* one ends neither in success nor proved, whatever the other checks say.  *)
UnrunnableCheckBlocksSuccess ==
    BlankChecks \union ScopeChecks # {} =>
        /\ stopReason # "success_all_checks_passed"
        /\ \A m \in metadata : m.proofState # "proved"

(* An abort that reaches the process while an iteration is under way lets  *)
(* that one end and starts no other, whatever it comes to and however late *)
(* it is; and the loop then says that the user stopped it, unless that     *)
(* iteration stopped it for a reason of its own or was the last in the     *)
(* budget.                                                                 *)
AbortHonoured ==
    signal = "delivered" =>
        /\ IterationsStarted <= signalledIn
        /\ pc \in {"gate", "metadata", "clear", "done"} =>
              \/ stopReason = "user_stopped"
              \/ endedBy # {} /\ Len(iterations) = signalledIn
              \/ stopReason = "budget_max_iterations" /\ signalledIn = Budget

(* Nothing a loop wrote is changed afterwards, its record of iterations    *)
(* only grows and is frozen once the loop is left.                         *)
HistoryOnlyGrows ==
    [][/\ receipt \subseteq receipt' /\ metadata \subseteq metadata'
       /\ allDrift \subseteq allDrift'
       /\ iterations' # iterations =>
            pc = "agent" /\ SubSeq(iterations', 1, Len(iterations)) = iterations]_vars

(* A run that is scheduled ends, with its files written unless it crashed. *)
EveryRunEnds == <>(pc = "crashed" \/ (pc = "done" /\ metadata # {} /\ ~active))

(* The loop implements the abstract bounded loop.                          *)
Abstract ==
    INSTANCE BoundedLoop WITH
        Budget <- Budget,
        Exact <- MaxIterations.kind = "whole",
        phase <- CASE pc \in {"start", "top", "agent"} -> "running"
                   [] pc \in {"gate", "metadata", "clear"} -> "ending"
                   [] pc = "done" -> "ended"
                   [] pc = "crashed" -> "crashed",
        used <- Len(iterations),
        tainted <- HasBlock(allDrift),
        verdict <- IF receipt = {} THEN "none" ELSE (CHOOSE r \in receipt : TRUE).decision

ImplementsBoundedLoop == Abstract!ASpec
-----------------------------------------------------------------------------
(* What the repository says, and the code does not do.                     *)

(* avorelo.ts: "The active loop will stop after the current iteration."    *)
(* Lenient reading: after a signal at most one more iteration starts.      *)
SignalStopsLoop ==
    [][pc = "top" /\ pc' = "agent" /\ signal # "none"
         => Len(iterations) <= signalledIn]_vars

(* policy-builder.ts: the success condition "All required checks passed".  *)
(* A last iteration in which every check that is run passes, with nothing  *)
(* against it, is a success.                                               *)
PassedChecksSucceed ==
    pc = "gate" /\ iterations # <<>> /\ ~HasBlock(allDrift)
      /\ stopReason # "failure_agent_error"
      /\ (\A c \in CommandChecks : LastIteration.checkResults[c] = "passed")
      => stopReason = "success_all_checks_passed"
=============================================================================
