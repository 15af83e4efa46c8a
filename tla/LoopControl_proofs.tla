------------------------- MODULE LoopControl_proofs -------------------------
(***************************************************************************)
(* Theorems about LoopControl, for every set of files, of patterns and of  *)
(* checks, every limit, and adapters that wait or block; and in the second *)
(* half about WorkIntelligence, for every set of sessions, of readers and  *)
(* of works, and any number of them at work.                               *)
(***************************************************************************)
EXTENDS LoopControl, WorkIntelligence, FiniteSetTheorems, TLAPS

(* The gate answers with one of its three decisions.                       *)
LEMMA DecisionTyped == ASSUME NEW input PROVE decide(input) \in Decisions
  BY DEF decide, Decisions

(* The head of the loop lets Budget iterations begin, whatever the limit   *)
(* is; a whole limit is reached when they are used up.                     *)
LEMMA BudgetFacts ==
    ASSUME iterations \in Seq(Summaries)
    PROVE  /\ Budget \in Nat /\ Len(iterations) \in Nat
           /\ MayWork <=> Len(iterations) < Budget
           /\ MaxIterations.kind = "whole" /\ ~MayWork => LimitReached
<1>1. Len(iterations) \in Nat
  OBVIOUS
<1>2. \/ MaxIterations.kind = "NaN" /\ MaxIterations.n = 0
      \/ MaxIterations.kind \in {"whole", "fraction"} /\ MaxIterations.n \in Int
  BY LoopAssumption DEF Numbers
<1> DEFINE n == MaxIterations.n
<1>3. CASE MaxIterations.kind = "NaN"
  BY <1>1, <1>3 DEF Budget, MayWork
<1>4. CASE MaxIterations.kind \in {"whole", "fraction"} /\ n \in Int
  <2>1. /\ Budget = IF n < 0 THEN 0 ELSE n
        /\ MayWork <=> Len(iterations) + 1 <= n
        /\ MaxIterations.kind = "whole" => (LimitReached <=> Len(iterations) >= n)
    BY <1>4 DEF Budget, MayWork, LimitReached
  <2> HIDE DEF n
  <2> QED
    BY <1>1, <1>4, <2>1
<1> QED
  BY <1>2, <1>3, <1>4

(* A stop reason has a category.                                           *)
LEMMA CategoryTyped ==
    ASSUME NEW r \in StopReasons
    PROVE  categoryForReason(r) \in
             {"success", "failure", "safety", "budget", "escalation", "user"}
  BY DEF categoryForReason, StopReasons

(* Re-running the checks gives every required check a result.              *)
LEMMA ChecksTyped ==
    ASSUME TypeOK, NEW passing
    PROVE  runAllChecks(passing) \in [Checks -> CheckResults]
  BY DEF TypeOK, runAllChecks, CheckResults

(* The detectors return findings; only scope and method drift can block.   *)
LEMMA DriftsTyped ==
    ASSUME NEW out
    PROVE  /\ iterationDrifts(out) \subseteq Findings
           /\ Blocked(out) <=> \/ HasBlock(detectScopeDrift(out.files))
                               \/ HasBlock(detectMethodDrift(out.blockedCommand))
  BY DEF iterationDrifts, Findings, detectScopeDrift, detectMethodDrift, detectProofDrift,
         detectProgressDrift, Blocked, HasBlock

(* A blocking scope drift is a change to a disallowed file, and vice versa.*)
LEMMA ScopeBlock ==
    ASSUME NEW touched
    PROVE  HasBlock(detectScopeDrift(touched)) <=> touched \intersect Disallowed # {}
<1> DEFINE blocking == [type |-> "scope_drift", severity |-> "block"]
           warning == [type |-> "scope_drift", severity |-> "warning"]
<1>1. blocking.severity = "block" /\ warning.severity # "block"
  OBVIOUS
<1> HIDE DEF blocking, warning
<1>2. detectScopeDrift(touched) =
        {blocking : f \in touched \intersect Disallowed}
          \union {warning : f \in touched \ (Disallowed \union Allowed)}
  BY DEF detectScopeDrift, blocking, warning
<1> QED
  BY <1>1, <1>2 DEF HasBlock

(* The proof drift of an iteration is reported only after a repetition.    *)
LEMMA ProofDriftNeedsRepetition ==
    ASSUME NEW out, checkRepeatedFailures(iterations) = {}
    PROVE  \A d \in iterationDrifts(out) : d.type # "proof_drift"
  BY DEF iterationDrifts, detectScopeDrift, detectMethodDrift, detectProofDrift,
         detectProgressDrift

(* Whether a failure repeats does not depend on the last gate decision.    *)
LEMMA RepetitionSeen ==
    ASSUME TypeOK, NEW out \in Outputs, NEW passing, NEW gate \in Decisions
    PROVE  checkRepeatedFailures(Append(iterations, Summary(out, passing, gate))) # {}
             <=> Repeats(out, passing)
<1> DEFINE its == Append(iterations, Summary(out, passing, gate))
           its2 == Append(iterations, Summary(out, passing, "CONTINUE"))
<1>1. /\ iterations \in Seq(Summaries)
      /\ Summary(out, passing, gate) \in Summaries
      /\ Summary(out, passing, "CONTINUE") \in Summaries
  BY ChecksTyped DEF TypeOK, Summary, Summaries, Outputs, Decisions
<1>2. /\ Len(its) \in Nat /\ Len(its2) = Len(its)
      /\ its[Len(its)] = Summary(out, passing, gate)
      /\ its2[Len(its)] = Summary(out, passing, "CONTINUE")
      /\ Len(its) >= 2 => its[Len(its) - 1] = its2[Len(its) - 1]
  BY <1>1
<1>3. FailedIn(Summary(out, passing, gate)) = FailedIn(Summary(out, passing, "CONTINUE"))
  BY DEF FailedIn, Summary
<1> HIDE DEF its, its2
<1>4. checkRepeatedFailures(its) = checkRepeatedFailures(its2)
  <2>1. FailedIn(its[Len(its)]) = FailedIn(its2[Len(its2)])
    <3>1. its2[Len(its2)] = Summary(out, passing, "CONTINUE")
      BY <1>2
    <3> QED
      BY <1>2, <1>3, <3>1
  <2>2. CASE Len(its) < 2
    BY <2>2, <1>2 DEF checkRepeatedFailures
  <2>3. CASE ~(Len(its) < 2)
    <3>1. its[Len(its) - 1] = its2[Len(its2) - 1]
      BY <2>3, <1>2
    <3>2. checkRepeatedFailures(its) =
            FailedIn(its[Len(its)]) \intersect FailedIn(its[Len(its) - 1])
      BY <2>3 DEF checkRepeatedFailures
    <3>3. checkRepeatedFailures(its2) =
            FailedIn(its2[Len(its2)]) \intersect FailedIn(its2[Len(its2) - 1])
      BY <2>3, <1>2 DEF checkRepeatedFailures
    <3> QED
      BY <2>1, <3>1, <3>2, <3>3
  <2> QED
    BY <2>2, <2>3
<1> QED
  BY <1>4 DEF Repeats, its, its2
-----------------------------------------------------------------------------
(* Every way an iteration can end, as one fact: it appends its summary, and*)
(* the verdict, the reason and the drift of the iteration agree.           *)
IterationFacts(out, passing, reason, gate) ==
    /\ IterationEnds(out, passing, reason, gate)
    /\ gate \in Decisions /\ reason \in StopReasons
    /\ gate = "CONTINUE" => reason = stopReason /\ ~Blocked(out) /\ ~Repeats(out, passing)
    /\ gate # "CONTINUE" => reason # "budget_max_iterations"

(* One of the seven outcomes of an iteration gives IterationFacts.         *)
LEMMA IterateFacts ==
    ASSUME TypeOK, Iterate
    PROVE  /\ pc = "agent"
           /\ \E out \in Outputs, passing \in SUBSET CommandChecks,
                 reason \in StopReasons, gate \in Decisions :
                IterationFacts(out, passing, reason, gate)
<1>1. PICK out \in Outputs, passing \in SUBSET CommandChecks :
          \/ DriftStop(out, passing) \/ AgentErrorStop(out, passing)
          \/ RepeatedFailureStop(out, passing) \/ SuccessStop(out, passing)
          \/ NoProgressStop(out, passing) \/ NextIteration(out, passing)
  BY DEF Iterate
<1>2. CASE DriftStop(out, passing)
  <2>1. blockReason(out) \in StopReasons \ {"budget_max_iterations"}
    BY DEF blockReason, StopReasons
  <2> QED
    BY <1>2, <2>1 DEF DriftStop, IterationFacts, Iterate, Decisions
<1>3. CASE AgentErrorStop(out, passing)
  BY <1>3 DEF AgentErrorStop, IterationFacts, Iterate, Decisions, StopReasons
<1>4. CASE RepeatedFailureStop(out, passing)
  BY <1>4 DEF RepeatedFailureStop, IterationFacts, Iterate, Decisions, StopReasons
<1>5. CASE SuccessStop(out, passing)
  BY <1>5 DEF SuccessStop, IterationFacts, Iterate, Decisions, StopReasons
<1>6. CASE NoProgressStop(out, passing)
  BY <1>6 DEF NoProgressStop, IterationFacts, Iterate, Decisions, StopReasons
<1>7. CASE NextIteration(out, passing)
  BY <1>7 DEF NextIteration, IterationFacts, Iterate, Decisions, TypeOK
<1> QED
  BY <1>1, <1>2, <1>3, <1>4, <1>5, <1>6, <1>7

(* What an iteration appends is a summary; earlier entries stay in place.  *)
LEMMA IterationAppends ==
    ASSUME TypeOK, NEW out \in Outputs, NEW passing, NEW reason, NEW gate \in Decisions,
           IterationEnds(out, passing, reason, gate)
    PROVE  /\ iterations \in Seq(Summaries) /\ iterations' \in Seq(Summaries)
           /\ Len(iterations') = Len(iterations) + 1
           /\ iterations'[Len(iterations')] = Summary(out, passing, gate)
           /\ \A n \in 1..Len(iterations) : iterations'[n] = iterations[n]
           /\ SubSeq(iterations', 1, Len(iterations)) = iterations
<1>1. iterations \in Seq(Summaries) /\ Summary(out, passing, gate) \in Summaries
  BY ChecksTyped DEF TypeOK, Summary, Summaries, Outputs
<1>2. iterations' = Append(iterations, Summary(out, passing, gate))
  BY DEF IterationEnds
<1> QED
  BY <1>1, <1>2
-----------------------------------------------------------------------------
(* The module's initial variables are well typed.                          *)
LEMMA InitTyped == Init => TypeOK
<1> SUFFICES ASSUME Init PROVE TypeOK
  OBVIOUS
<1>1. iterations = <<>> /\ iterations \in Seq(Summaries) /\ Len(iterations) = 0
  BY DEF Init
<1>2. IterationsStarted <= Budget /\ 0 \in 0..Budget
  BY <1>1, BudgetFacts DEF Init, IterationsStarted
<1>3. latestChecks \in [Checks -> CheckResults] /\ stopReason \in StopReasons
  BY DEF Init, CheckResults, StopReasons
<1> QED
  BY <1>1, <1>2, <1>3 DEF Init, TypeOK

(* Every step of the loop and of its environment keeps it well typed and   *)
(* inside its budget.                                                      *)
LEMMA NextTyped == TypeOK /\ [Next]_vars => TypeOK'
<1> SUFFICES ASSUME TypeOK, [Next]_vars PROVE TypeOK'
  OBVIOUS
<1>0. /\ iterations \in Seq(Summaries) /\ Len(iterations) \in Nat /\ Budget \in Nat
      /\ Len(iterations) <= Budget
      /\ BudgetSpent <=> Len(iterations) >= Budget
  BY BudgetFacts DEF TypeOK, IterationsStarted, BudgetSpent
<1>1. CASE Start
  BY <1>1, <1>0 DEF Start, TypeOK, IterationsStarted, loopVars, envVars
<1>2. ASSUME NEW reason \in StopReasons, LeaveLoop(reason) PROVE TypeOK'
  BY <1>2, <1>0 DEF LeaveLoop, TypeOK, IterationsStarted, envVars, fileVars
<1>3. CASE StopOnBudget \/ StopOnAbort \/ StopOnRuntime
  BY <1>3, <1>2 DEF StopOnBudget, StopOnAbort, StopOnRuntime, StopReasons
<1>4. CASE StartIteration
  BY <1>4, <1>0
     DEF StartIteration, TypeOK, IterationsStarted, loopVars, envVars, fileVars
<1>5. CASE Iterate
  <2>1. PICK out \in Outputs, passing \in SUBSET CommandChecks,
             reason \in StopReasons, gate \in Decisions :
          IterationFacts(out, passing, reason, gate)
    BY <1>5, IterateFacts
  <2>2. IterationEnds(out, passing, reason, gate)
    BY <2>1 DEF IterationFacts
  <2>3. iterations' \in Seq(Summaries) /\ Len(iterations') = Len(iterations) + 1
    BY <2>2, IterationAppends
  <2>4. pc = "agent" /\ Len(iterations) + 1 <= Budget
    BY <1>5, <1>0, IterateFacts DEF TypeOK, IterationsStarted
  <2>5. /\ pc' \in {"top", "gate"} /\ stopReason' \in StopReasons
        /\ UNCHANGED <<envVars, fileVars>>
    BY <2>2 DEF IterationEnds
  <2>6. allDrift' \subseteq Findings
    BY <2>2, DriftsTyped DEF IterationEnds, TypeOK
  <2>7. allFilesChanged' \subseteq Files
    BY <2>2 DEF IterationEnds, TypeOK, Outputs
  <2>8. latestChecks' \in [Checks -> CheckResults] /\ endedBy' \subseteq Outputs
    BY <2>2, ChecksTyped DEF IterationEnds
  <2> QED
    BY <2>3, <2>4, <2>5, <2>6, <2>7, <2>8, <1>0
       DEF TypeOK, IterationsStarted, envVars, fileVars
<1>6. CASE PersistReceipt
  <2>1. finalGate \in Decisions
    BY DecisionTyped DEF finalGate
  <2> QED
    BY <1>6, <2>1, <1>0 DEF PersistReceipt, TypeOK, IterationsStarted, loopVars, envVars
<1>7. CASE PersistMetadata
  <2>1. /\ categoryForReason(stopReason) \in
             {"success", "failure", "safety", "budget", "escalation", "user"}
        /\ Len(iterations) \in 0..Budget
    BY CategoryTyped, <1>0 DEF TypeOK
  <2>2. deriveProofState \in {"needs_attention", "proved", "partially_proved", "not_proved"}
    BY DEF deriveProofState
  <2>3. metadata' \subseteq [stopReason : StopReasons, iterationsRun : 0..Budget,
            stopCategory : {"success", "failure", "safety", "budget", "escalation", "user"},
            proofState : {"needs_attention", "proved", "partially_proved", "not_proved"}]
    BY <1>7, <2>1, <2>2 DEF PersistMetadata, TypeOK
  <2> QED
    BY <1>7, <2>3, <1>0 DEF PersistMetadata, TypeOK, IterationsStarted, loopVars, envVars
<1>8. CASE ClearActive
  BY <1>8, <1>0 DEF ClearActive, TypeOK, IterationsStarted, loopVars, envVars
<1>9. CASE TimePasses
  BY <1>9, <1>0 DEF TimePasses, TypeOK, IterationsStarted, loopVars, fileVars
<1>10. CASE SignalArrives
  BY <1>10, <1>0 DEF SignalArrives, TypeOK, IterationsStarted, loopVars, fileVars
<1>11. CASE SignalDelivered
  BY <1>11, <1>0 DEF SignalDelivered, TypeOK, IterationsStarted, loopVars, fileVars
<1>12. CASE Crash
  BY <1>12, <1>0 DEF Crash, TypeOK, IterationsStarted, loopVars, envVars, fileVars
<1>13. CASE UNCHANGED vars
  BY <1>13, <1>0 DEF vars, TypeOK, IterationsStarted
<1> QED
  BY <1>1, <1>3, <1>4, <1>5, <1>6, <1>7, <1>8, <1>9, <1>10, <1>11, <1>12, <1>13
     DEF Next, Run

(* Every variable keeps its type, and the loop never works more than       *)
(* Budget times: the head of the for loop of runLoop.               *)
THEOREM TypeCorrect == Spec => []TypeOK
  BY InitTyped, NextTyped, PTL DEF Spec
-----------------------------------------------------------------------------
(* The inductive invariant.  The properties of LoopControl speak of what is*)
(* in the files or of the time after the loop; they are kept because of    *)
(* what the control point says while the loop runs.                        *)

Working == pc \in {"start", "top", "agent"}

(* Which files exist at which point of runLoop.                            *)
FilesAtPoint ==
    /\ pc = "start" => iterations = <<>>
    /\ pc \in {"top", "agent", "gate", "metadata", "clear"} => active
    /\ Working \/ pc = "gate" => receipt = {}
    /\ pc \in {"metadata", "clear", "done"} => receipt # {}
    /\ Working \/ pc \in {"gate", "metadata"} => metadata = {}
    /\ pc \in {"clear", "done"} => metadata # {}

(* stopReason keeps its first value while the loop works; once it is left, *)
(* either another reason was given or the budget is spent.                 *)
ReasonAtPoint ==
    /\ Working => stopReason = "budget_max_iterations"
    /\ pc = "gate" /\ stopReason = "budget_max_iterations" => BudgetSpent /\ ~HasBlock(allDrift)

(* A loop that works has not failed the same check twice in a row.         *)
NoRepetitionYet == Working => checkRepeatedFailures(iterations) = {}

LoopInv ==
    /\ TypeOK
    /\ FilesAtPoint
    /\ FilesOrdered
    /\ ReasonAtPoint
    /\ NoRepetitionYet
    /\ NoProofDrift
    /\ StopsAtFirstVerdict
    /\ ReceiptFollowsLimit

(* Passed checks are graded INTERACTION, so they never make a loop ready.  *)
LEMMA ChecksAreNoProof ==
    ASSUME NEW checks
    PROVE  ~isReadyEligible(gradeAll(buildEvidenceFromChecks(checks)))
<1> DEFINE passed == [kind |-> "test_passed", hasRef |-> TRUE]
           graded == gradeAll(buildEvidenceFromChecks(checks))
<1>1. gradeArtifact(passed).level = "INTERACTION"
  BY DEF gradeArtifact, KIND_MAX, Kinds
<1>2. \A a \in buildEvidenceFromChecks(checks) : a = passed
  BY DEF buildEvidenceFromChecks
<1>3. \A g \in graded : g.level = "INTERACTION"
  BY <1>1, <1>2 DEF gradeAll
<1>4. \A l \in levelsPresent(graded) : l = "INTERACTION"
  BY <1>3 DEF levelsPresent, usable
<1> QED
  BY <1>4 DEF isReadyEligible

(* What the kernel gate answers when the loop is left.                     *)
LEMMA GateAnswers ==
    ASSUME ReasonAtPoint, pc = "gate"
    PROVE  finalGate = IF stopReason = "budget_max_iterations" /\ ~LimitReached
                       THEN "CONTINUE" ELSE "STOP_BLOCKED"
<1>1. policyVerdict \in {"allow", "block"}
  BY DEF policyVerdict
<1>2. CASE StopConditionMet
  BY <1>1, <1>2, ChecksAreNoProof DEF finalGate, decide, Ready, StopConditionMet
<1>3. CASE ~StopConditionMet
  <2>1. policyVerdict = "allow"
    BY <1>3 DEF ReasonAtPoint, StopConditionMet, policyVerdict
  <2> QED
    BY <1>3, <2>1, ChecksAreNoProof DEF finalGate, decide, Ready, StopConditionMet
<1> QED
  BY <1>2, <1>3

(* An iteration keeps the invariant.                                       *)
LEMMA IterateKeeps == ASSUME LoopInv, Iterate PROVE LoopInv'
<1> USE DEF LoopInv
<1>1. TypeOK' /\ pc = "agent"
  BY NextTyped, IterateFacts DEF Next, Run
<1>2. PICK out \in Outputs, passing \in SUBSET CommandChecks,
           reason \in StopReasons, gate \in Decisions :
        IterationFacts(out, passing, reason, gate)
  BY IterateFacts
<1>3. IterationEnds(out, passing, reason, gate)
  BY <1>2 DEF IterationFacts
<1>4. /\ pc' = IF gate = "CONTINUE" THEN "top" ELSE "gate"
      /\ UNCHANGED <<receipt, metadata, active>>
  BY <1>3 DEF IterationEnds, fileVars
<1>5. /\ Len(iterations) \in Nat /\ Len(iterations') = Len(iterations) + 1
      /\ iterations'[Len(iterations')].gateDecision = gate
      /\ \A n \in 1..Len(iterations) : iterations'[n] = iterations[n]
  <2>1. /\ iterations \in Seq(Summaries) /\ Len(iterations') = Len(iterations) + 1
        /\ iterations'[Len(iterations')] = Summary(out, passing, gate)
        /\ \A n \in 1..Len(iterations) : iterations'[n] = iterations[n]
    BY <1>3, IterationAppends
  <2>2. Summary(out, passing, gate).gateDecision = gate
    BY DEF Summary
  <2> QED
    BY <2>1, <2>2
<1>6. FilesAtPoint' /\ FilesOrdered' /\ ReceiptFollowsLimit'
  BY <1>1, <1>4, <1>2 DEF FilesAtPoint, FilesOrdered, ReceiptFollowsLimit, Working
<1>7. ReasonAtPoint'
  BY <1>1, <1>2, <1>3, <1>4 DEF ReasonAtPoint, Working, IterationFacts, IterationEnds
<1>8. NoRepetitionYet'
  <2>1. SUFFICES ASSUME gate = "CONTINUE" PROVE checkRepeatedFailures(iterations') = {}
    BY <1>4 DEF NoRepetitionYet, Working
  <2>2. iterations' = Append(iterations, Summary(out, passing, gate))
    BY <1>3 DEF IterationEnds
  <2> QED
    BY <2>1, <2>2, <1>2, RepetitionSeen DEF IterationFacts
<1>9. NoProofDrift'
  <2>1. checkRepeatedFailures(iterations) = {}
    BY <1>1 DEF NoRepetitionYet, Working
  <2>2. \A d \in iterationDrifts(out) : d.type # "proof_drift"
    BY <2>1, ProofDriftNeedsRepetition
  <2> QED
    BY <2>2, <1>3 DEF NoProofDrift, IterationEnds
<1>10. StopsAtFirstVerdict'
  <2>1. /\ ~HasBlock(allDrift)
        /\ \A n \in 1..Len(iterations) : iterations[n].gateDecision = "CONTINUE"
    BY <1>1 DEF StopsAtFirstVerdict
  <2>2. gate = "CONTINUE" => ~HasBlock(allDrift')
    BY <1>2, <1>3, <2>1 DEF IterationFacts, IterationEnds, Blocked, HasBlock
  <2>3. \A n \in 1..Len(iterations') :
          n < Len(iterations') \/ gate = "CONTINUE"
            => iterations'[n].gateDecision = "CONTINUE"
    BY <1>5, <2>1
  <2> QED
    BY <1>4, <2>2, <2>3 DEF StopsAtFirstVerdict
<1> QED
  BY <1>1, <1>6, <1>7, <1>8, <1>9, <1>10

(* Every step keeps the invariant.                                         *)
LEMMA NextKeeps == ASSUME LoopInv, [Next]_vars PROVE LoopInv'
<1>1. TypeOK'
  BY NextTyped DEF LoopInv
<1>2. CASE Iterate
  BY <1>2, IterateKeeps
<1> USE DEF LoopInv, FilesAtPoint, FilesOrdered, ReasonAtPoint, NoRepetitionYet,
            NoProofDrift, StopsAtFirstVerdict, ReceiptFollowsLimit, Working
<1>3. CASE Start
  BY <1>1, <1>3 DEF Start, loopVars, envVars
<1>4. CASE StopOnBudget
  <2>1. /\ pc = "top" /\ pc' = "gate" /\ stopReason' = "budget_max_iterations"
        /\ UNCHANGED <<iterations, allDrift, fileVars>> /\ ~MayWork
    BY <1>4 DEF StopOnBudget, LeaveLoop, BudgetSpent
  <2>2. /\ MayWork' = MayWork /\ LimitReached' = LimitReached
        /\ BudgetSpent' = ~MayWork'
    BY <2>1 DEF MayWork, LimitReached, BudgetSpent
  <2> QED
    BY <1>1, <2>1, <2>2 DEF fileVars
<1>5. CASE StopOnAbort \/ StopOnRuntime
  BY <1>1, <1>5 DEF StopOnAbort, StopOnRuntime, LeaveLoop, envVars, fileVars
<1>6. CASE StartIteration
  BY <1>1, <1>6 DEF StartIteration, loopVars, envVars, fileVars
<1>7. CASE PersistReceipt
  <2>1. receipt' = {[decision |-> finalGate]} /\ pc = "gate"
    BY <1>7 DEF PersistReceipt
  <2>2. /\ receipt' # {}
        /\ \A r \in receipt' :
             r.decision = IF stopReason = "budget_max_iterations" /\ ~LimitReached
                          THEN "CONTINUE" ELSE "STOP_BLOCKED"
    BY <2>1, GateAnswers
  <2>3. /\ pc' = "metadata" /\ UNCHANGED <<loopVars, metadata, active>>
        /\ LimitReached' = LimitReached
    BY <1>7 DEF PersistReceipt, loopVars, LimitReached
  <2> QED
    BY <1>1, <2>1, <2>2, <2>3 DEF loopVars
<1>8. CASE PersistMetadata
  <2>1. /\ metadata' # {} /\ receipt' # {} /\ active'
        /\ pc' = "clear" /\ UNCHANGED <<iterations, allDrift, stopReason, receipt>>
        /\ LimitReached' = LimitReached
    BY <1>8 DEF PersistMetadata, loopVars, LimitReached
  <2> QED
    BY <1>1, <2>1, <1>8 DEF PersistMetadata
<1>9. CASE ClearActive
  BY <1>1, <1>9 DEF ClearActive, loopVars, envVars, LimitReached
<1>10. CASE TimePasses \/ SignalArrives \/ SignalDelivered
  BY <1>1, <1>10
     DEF TimePasses, SignalArrives, SignalDelivered, loopVars, fileVars, BudgetSpent, MayWork,
         LimitReached
<1>11. CASE Crash
  BY <1>1, <1>11 DEF Crash, loopVars, envVars, fileVars, LimitReached
<1>12. CASE UNCHANGED vars
  BY <1>1, <1>12 DEF vars, BudgetSpent, MayWork, LimitReached
<1> QED
  BY <1>2, <1>3, <1>4, <1>5, <1>6, <1>7, <1>8, <1>9, <1>10, <1>11, <1>12 DEF Next, Run

(* The invariant holds initially.                                          *)
LEMMA InitKeeps == Init => LoopInv
<1> SUFFICES ASSUME Init PROVE LoopInv
  OBVIOUS
<1>1. TypeOK
  BY InitTyped
<1>2. checkRepeatedFailures(iterations) = {}
  BY DEF Init, checkRepeatedFailures
<1>3. StopsAtFirstVerdict
  BY DEF Init, StopsAtFirstVerdict, HasBlock
<1> QED
  BY <1>1, <1>2, <1>3
     DEF Init, LoopInv, FilesAtPoint, FilesOrdered, ReasonAtPoint, NoRepetitionYet,
         NoProofDrift, ReceiptFollowsLimit, Working

(* LoopInv is an invariant of the loop.                                    *)
LEMMA LoopInvariant == Spec => []LoopInv
  BY InitKeeps, NextKeeps, PTL DEF Spec

(* runLoop leaves at the first stop verdict: no iteration follows a        *)
(* blocking finding or any other decision than CONTINUE.                   *)
THEOREM LeavesAtFirstVerdict == Spec => []StopsAtFirstVerdict
  BY LoopInvariant, PTL DEF LoopInv

(* The receipt persistReceipt writes for a loop never says STOP_DONE; it   *)
(* says CONTINUE of a loop that ran out of a limit it never reaches (a     *)
(* fraction or NaN), and STOP_BLOCKED of every other.                      *)
THEOREM ReceiptsFollowTheLimit == Spec => []ReceiptFollowsLimit
  BY LoopInvariant, PTL DEF LoopInv

(* detectProofDrift never reports anything during a run of the loop.       *)
THEOREM ProofDriftIsDead == Spec => []NoProofDrift
  BY LoopInvariant, PTL DEF LoopInv

(* Whenever the process dies, its files are a prefix of receipt, metadata, *)
(* cleared active.json.                                                    *)
THEOREM FilesInOrder == Spec => []FilesOrdered
  BY LoopInvariant, PTL DEF LoopInv
-----------------------------------------------------------------------------
(* The abstract bounded loop.                                              *)

(* What the receipt publishes.                                             *)
LEMMA VerdictAtPoint ==
    ASSUME LoopInv, receipt # {}
    PROVE  (CHOOSE r \in receipt : TRUE).decision \in {"STOP_BLOCKED", "CONTINUE"}
<1>1. PICK r \in receipt : r = CHOOSE x \in receipt : TRUE
  OBVIOUS
<1>2. r.decision \in {"STOP_BLOCKED", "CONTINUE"}
  BY DEF LoopInv, ReceiptFollowsLimit
<1> QED
  BY <1>1, <1>2

(* The initial state maps to the initial state.                            *)
LEMMA InitAbstract == Init => Abstract!AInit
  BY DEF Init, Abstract!AInit, HasBlock

(* Every step of the loop maps to a step of the bounded loop or to none.   *)
LEMMA NextAbstract ==
    ASSUME LoopInv, [Next]_vars
    PROVE  [Abstract!ANext]_(Abstract!aVars)
<1>0. LoopInv'
  BY NextKeeps
<1>1. CASE Iterate
  <2>1. PICK out \in Outputs, passing \in SUBSET CommandChecks,
             reason \in StopReasons, gate \in Decisions :
          IterationFacts(out, passing, reason, gate)
    BY <1>1, IterateFacts DEF LoopInv
  <2>2. IterationEnds(out, passing, reason, gate)
    BY <2>1 DEF IterationFacts
  <2>3. /\ pc = "agent" /\ pc' = IF gate = "CONTINUE" THEN "top" ELSE "gate"
        /\ receipt' = receipt
    BY <1>1, <2>2, IterateFacts DEF LoopInv, IterationEnds, fileVars
  <2>4. /\ Len(iterations') = Len(iterations) + 1
        /\ Len(iterations) < Budget
    <3>1. iterations \in Seq(Summaries) /\ Len(iterations') = Len(iterations) + 1
      BY <2>2, IterationAppends DEF LoopInv
    <3> QED
      BY <3>1, <2>3, BudgetFacts DEF LoopInv, TypeOK, IterationsStarted
  <2>5. ~HasBlock(allDrift) /\ (pc' = "top" => ~HasBlock(allDrift'))
    BY <2>3, <1>0 DEF LoopInv, StopsAtFirstVerdict
  <2>6. Abstract!Work
    BY <2>3, <2>4, <2>5 DEF Abstract!Work, HasBlock
  <2> QED
    BY <2>6 DEF Abstract!ANext
<1>2. CASE StopOnBudget \/ StopOnAbort \/ StopOnRuntime
  <2>1. /\ pc = "top" /\ pc' = "gate"
        /\ UNCHANGED <<iterations, allDrift, receipt>>
    BY <1>2 DEF StopOnBudget, StopOnAbort, StopOnRuntime, LeaveLoop, fileVars
  <2>2. Abstract!Stop
    BY <2>1 DEF Abstract!Stop, HasBlock
  <2> QED
    BY <2>2 DEF Abstract!ANext
<1>3. CASE PersistReceipt
  <2>1. /\ pc = "gate" /\ pc' = "metadata" /\ receipt = {} /\ receipt' # {}
        /\ UNCHANGED <<iterations, allDrift>>
    BY <1>3 DEF PersistReceipt, LoopInv, FilesAtPoint, loopVars
  <2>2. receipt' = {[decision |-> finalGate]}
    BY <1>3 DEF PersistReceipt
  <2>3. (CHOOSE r \in receipt' : TRUE).decision = finalGate
    <3>1. PICK r \in receipt' : r = CHOOSE x \in receipt' : TRUE
      BY <2>1
    <3>2. r.decision = finalGate
      BY <2>2
    <3> QED
      BY <3>1, <3>2
  <2>4. \/ finalGate = "STOP_BLOCKED"
        \/ /\ finalGate = "CONTINUE" /\ stopReason = "budget_max_iterations"
           /\ ~LimitReached
    BY <2>1, GateAnswers DEF LoopInv
  <2>5. CASE finalGate = "STOP_BLOCKED"
    BY <2>1, <2>3, <2>5 DEF Abstract!Publish, Abstract!ANext, HasBlock
  <2>6. CASE finalGate = "CONTINUE" /\ stopReason = "budget_max_iterations" /\ ~LimitReached
    <3>1. ~HasBlock(allDrift) /\ ~MayWork
      BY <2>1, <2>6 DEF LoopInv, ReasonAtPoint, BudgetSpent
    <3>2. iterations \in Seq(Summaries) /\ Len(iterations) <= Budget
      BY <2>1 DEF LoopInv, TypeOK, IterationsStarted
    <3>3. Len(iterations) = Budget /\ MaxIterations.kind # "whole"
      BY <2>6, <3>1, <3>2, BudgetFacts
    <3> QED
      BY <2>1, <2>3, <2>6, <3>1, <3>3 DEF Abstract!Publish, Abstract!ANext, HasBlock
  <2> QED
    BY <2>4, <2>5, <2>6
<1>4. CASE ClearActive
  <2>1. /\ pc = "clear" /\ pc' = "done" /\ receipt # {}
        /\ UNCHANGED <<iterations, allDrift, receipt>>
    BY <1>4 DEF ClearActive, LoopInv, FilesAtPoint, loopVars
  <2>2. Abstract!End
    BY <2>1, VerdictAtPoint DEF Abstract!End, HasBlock
  <2> QED
    BY <2>2 DEF Abstract!ANext
<1>5. CASE Crash
  <2>1. /\ pc \in {"start", "top", "agent", "gate", "metadata", "clear"}
        /\ pc' = "crashed" /\ UNCHANGED <<iterations, allDrift, receipt>>
    BY <1>5 DEF Crash, Ended, LoopInv, TypeOK, loopVars, fileVars
  <2>2. Abstract!Fail
    BY <2>1 DEF Abstract!Fail, HasBlock
  <2> QED
    BY <2>2 DEF Abstract!ANext
<1>6. CASE Start \/ StartIteration
  <2>1. /\ pc \in {"start", "top"} /\ pc' \in {"top", "agent"}
        /\ UNCHANGED <<iterations, allDrift, receipt>>
    BY <1>6 DEF Start, StartIteration, loopVars, fileVars
  <2> QED
    BY <2>1 DEF Abstract!aVars, HasBlock
<1>7. CASE PersistMetadata
  <2>1. /\ pc = "metadata" /\ pc' = "clear"
        /\ UNCHANGED <<iterations, allDrift, receipt>>
    BY <1>7 DEF PersistMetadata, loopVars
  <2> QED
    BY <2>1 DEF Abstract!aVars, HasBlock
<1>8. CASE TimePasses \/ SignalArrives \/ UNCHANGED vars
  <2>1. UNCHANGED <<pc, iterations, allDrift, receipt>>
    BY <1>8 DEF TimePasses, SignalArrives, vars, loopVars, fileVars
  <2> QED
    BY <2>1 DEF Abstract!aVars, HasBlock
<1>9. CASE SignalDelivered
  <2>1. UNCHANGED <<pc, iterations, allDrift, receipt>>
    BY <1>9 DEF SignalDelivered, loopVars, fileVars
  <2> QED
    BY <2>1 DEF Abstract!aVars, HasBlock
<1> QED
  BY <1>1, <1>2, <1>3, <1>4, <1>5, <1>6, <1>7, <1>8, <1>9 DEF Next, Run

(* runLoop implements the bounded loop, whatever the agent, the checks, the*)
(* clock, the signals and the crashes are.                                 *)
THEOREM LoopImplementsBounded == Spec => ImplementsBoundedLoop
  BY InitAbstract, NextAbstract, LoopInvariant, PTL
     DEF Spec, ImplementsBoundedLoop, Abstract!ASpec
-----------------------------------------------------------------------------
(* The stop reason.                                                        *)

(* Before the loop is left no iteration has left it.                       *)
NotEnded == Working => endedBy = {}

(* A blocking finding of an iteration is a disallowed file or a blocked    *)
(* command.                                                                *)
LEMMA BlockedMeans ==
    ASSUME NEW out \in Outputs
    PROVE  /\ HasBlock(detectScopeDrift(out.files)) <=> Touched(out)
           /\ HasBlock(detectMethodDrift(out.blockedCommand)) <=> out.blockedCommand
           /\ Blocked(out) <=> Touched(out) \/ out.blockedCommand
<1>1. HasBlock(detectScopeDrift(out.files)) <=> Touched(out)
  BY ScopeBlock DEF Touched
<1>2. HasBlock(detectMethodDrift(out.blockedCommand)) <=> out.blockedCommand
  BY DEF HasBlock, detectMethodDrift, Outputs
<1> QED
  BY <1>1, <1>2, DriftsTyped

(* Whichever way an iteration stops the loop, its reason is what happened  *)
(* and nothing before it in the order did.                                 *)
LEMMA IterateJustifies == ASSUME LoopInv, Iterate PROVE StopReasonJustified' /\ NotEnded'
<1>1. PICK out \in Outputs, passing \in SUBSET CommandChecks :
          \/ DriftStop(out, passing) \/ AgentErrorStop(out, passing)
          \/ RepeatedFailureStop(out, passing) \/ SuccessStop(out, passing)
          \/ NoProgressStop(out, passing) \/ NextIteration(out, passing)
  BY DEF Iterate
<1>2. TypeOK /\ pc = "agent"
  BY DEF Iterate, LoopInv
<1> DEFINE clean == allPassed(runAllChecks(passing))
<1>3. ASSUME NEW reason, NEW gate \in Decisions, IterationEnds(out, passing, reason, gate)
      PROVE  /\ stopReason' = reason
             /\ Clean' <=> clean
             /\ Again' <=> Repeats(out, passing)
             /\ gate = "CONTINUE" => pc' = "top" /\ endedBy' = {}
             /\ gate # "CONTINUE" => pc' = "gate" /\ endedBy' = {out}
  <2>1. Again' <=> Repeats(out, passing)
    BY <1>2, <1>3, RepetitionSeen DEF IterationEnds, Again
  <2>2. latestChecks' = runAllChecks(passing)
    BY <1>3 DEF IterationEnds
  <2> QED
    BY <1>3, <2>1, <2>2 DEF IterationEnds, Clean, allPassed
<1>4. ASSUME NEW reason, IterationEnds(out, passing, reason, "CONTINUE")
      PROVE  StopReasonJustified' /\ NotEnded'
  <2>1. pc' = "top" /\ endedBy' = {}
    BY <1>3, <1>4 DEF Decisions
  <2> QED
    BY <2>1 DEF StopReasonJustified, NotEnded
<1>5. ASSUME NEW reason, NEW gate \in Decisions \ {"CONTINUE"},
             IterationEnds(out, passing, reason, gate),
             /\ reason = "safety_blocked_path" <=> Touched(out)
             /\ reason = "safety_destructive_command" <=> out.blockedCommand /\ ~Touched(out)
             /\ reason = "failure_agent_error" <=>
                  AgentFailed(out) /\ ~out.blockedCommand /\ ~Touched(out)
             /\ reason = "failure_repeated_failure" <=>
                  Repeats(out, passing) /\ ~AgentFailed(out) /\ ~out.blockedCommand
                    /\ ~Touched(out)
             /\ reason = "success_all_checks_passed" <=>
                  clean /\ ~Repeats(out, passing) /\ ~AgentFailed(out)
                    /\ ~out.blockedCommand /\ ~Touched(out)
             /\ reason = "failure_no_progress" =>
                  NoProgress(out) /\ ~clean /\ ~Repeats(out, passing) /\ ~AgentFailed(out)
                    /\ ~out.blockedCommand /\ ~Touched(out)
      PROVE  StopReasonJustified' /\ NotEnded'
  <2> HIDE DEF clean
  <2>1. /\ stopReason' = reason /\ pc' = "gate" /\ endedBy' = {out}
        /\ Clean' <=> clean
        /\ Again' <=> Repeats(out, passing)
    BY <1>3, <1>5
  <2> QED
    BY <1>5, <2>1 DEF StopReasonJustified, NotEnded, Working
<1> USE DEF Decisions
<1>6. CASE DriftStop(out, passing)
  <2>1. /\ IterationEnds(out, passing, blockReason(out), "STOP_BLOCKED")
        /\ Touched(out) \/ out.blockedCommand
    BY <1>6, BlockedMeans DEF DriftStop
  <2>2. blockReason(out) = IF Touched(out) THEN "safety_blocked_path"
                           ELSE "safety_destructive_command"
    BY <2>1, BlockedMeans DEF blockReason
  <2> HIDE DEF clean
  <2> QED
    BY <1>5, <2>1, <2>2
<1>7. CASE AgentErrorStop(out, passing)
  <2> HIDE DEF clean
  <2> QED
    BY <1>5, <1>7, BlockedMeans DEF AgentErrorStop
<1>8. CASE RepeatedFailureStop(out, passing)
  <2> HIDE DEF clean
  <2> QED
    BY <1>5, <1>8, BlockedMeans DEF RepeatedFailureStop
<1>9. CASE SuccessStop(out, passing)
  BY <1>5, <1>9, BlockedMeans DEF SuccessStop
<1>10. CASE NoProgressStop(out, passing)
  BY <1>5, <1>10, BlockedMeans DEF NoProgressStop
<1>11. CASE NextIteration(out, passing)
  BY <1>4, <1>11 DEF NextIteration
<1> QED
  BY <1>1, <1>6, <1>7, <1>8, <1>9, <1>10, <1>11

(* Leaving at the loop head gives the reason of the head; what follows it  *)
(* changes neither the reason nor what justifies it.                       *)
LEMMA NextJustifies ==
    ASSUME LoopInv, StopReasonJustified, NotEnded, [Next]_vars
    PROVE  StopReasonJustified' /\ NotEnded'
<1>1. CASE Iterate
  BY <1>1, IterateJustifies
<1>2. CASE StopOnBudget \/ StopOnAbort \/ StopOnRuntime
  <2>1. /\ pc = "top" /\ pc' = "gate"
        /\ UNCHANGED <<iterations, endedBy, signal, overdue>>
        /\ \/ stopReason' = "budget_max_iterations" /\ ~MayWork
           \/ stopReason' = "user_stopped" /\ MayWork /\ signal = "delivered"
           \/ stopReason' = "budget_max_runtime" /\ MayWork /\ signal # "delivered" /\ overdue
    BY <1>2 DEF StopOnBudget, StopOnAbort, StopOnRuntime, LeaveLoop, BudgetSpent, envVars
  <2>2. iterations \in Seq(Summaries) /\ Len(iterations) <= Budget
    BY <2>1 DEF LoopInv, TypeOK, IterationsStarted
  <2>3. /\ MayWork <=> Len(iterations) < Budget
        /\ ~MayWork <=> Len(iterations) = Budget
    BY <2>2, BudgetFacts
  <2>4. endedBy' = {}
    BY <2>1 DEF NotEnded, Working
  <2>5. Len(iterations') = Len(iterations) /\ signal' = signal /\ overdue' = overdue
    BY <2>1
  <2> QED
    BY <2>1, <2>3, <2>4, <2>5 DEF StopReasonJustified, NotEnded, Working
<1>3. CASE Start \/ StartIteration \/ Crash
  <2>1. pc' \in {"top", "agent", "crashed"} /\ endedBy' = endedBy /\ (Working' => Working)
    BY <1>3 DEF Start, StartIteration, Crash, loopVars, Working
  <2> QED
    BY <2>1 DEF StopReasonJustified, NotEnded
<1>4. CASE \/ PersistReceipt \/ PersistMetadata \/ ClearActive
           \/ TimePasses \/ SignalArrives \/ SignalDelivered \/ UNCHANGED vars
  <2>1. /\ UNCHANGED <<iterations, latestChecks, stopReason, endedBy>>
        /\ overdue => overdue'
        /\ pc' \in {"gate", "metadata", "clear", "done"} =>
             pc \in {"gate", "metadata", "clear", "done"}
        /\ pc \in {"gate", "metadata", "clear", "done"} =>
             (signal' = "delivered" <=> signal = "delivered")
        /\ Working' => Working
    BY <1>4 DEF PersistReceipt, PersistMetadata, ClearActive, TimePasses, SignalArrives,
                SignalDelivered, vars, loopVars, envVars, Working
  <2>2. Again' = Again /\ Clean' = Clean /\ Len(iterations') = Len(iterations)
    BY <2>1 DEF Again, Clean
  <2>3. NotEnded'
    BY <2>1 DEF NotEnded
  <2>4. CASE ~(pc \in {"gate", "metadata", "clear", "done"})
    BY <2>1, <2>3, <2>4 DEF StopReasonJustified
  <2>5. CASE pc \in {"gate", "metadata", "clear", "done"}
    BY <2>1, <2>2, <2>3, <2>5 DEF StopReasonJustified
  <2> QED
    BY <2>4, <2>5
<1> QED
  BY <1>1, <1>2, <1>3, <1>4 DEF Next, Run

(* The reason runLoop reports is what really ended the loop, and of all    *)
(* that happened in its last iteration it is the one that comes first in   *)
(* the order of the code.                                                  *)
THEOREM ReasonsAreJustified == Spec => []StopReasonJustified
<1>1. Init => StopReasonJustified /\ NotEnded
  BY DEF Init, StopReasonJustified, NotEnded
<1> QED
  BY <1>1, NextJustifies, LoopInvariant, PTL DEF Spec
-----------------------------------------------------------------------------
(* Checks that cannot run.                                                 *)

Unrunnable == BlankChecks \union ScopeChecks

(* runCheck never turns a check without a command into a passed one.       *)
UnrunnableNeverPass ==
    /\ \A c \in Unrunnable : latestChecks[c] # "passed"
    /\ UnrunnableCheckBlocksSuccess

(* Running the checks leaves at least one of them not passed.              *)
LEMMA UnrunnableStays ==
    ASSUME UnrunnableNeverPass, NEW passing
    PROVE  /\ \A c \in Unrunnable : runAllChecks(passing)[c] # "passed"
           /\ Unrunnable # {} => ~allPassed(runAllChecks(passing)) /\ ~allPassed(latestChecks)
<1>1. \A c \in Unrunnable : c \in Checks
  BY DEF Unrunnable, Checks
<1>2. \A c \in Unrunnable : runAllChecks(passing)[c] # "passed"
  BY <1>1 DEF UnrunnableNeverPass, runAllChecks, Unrunnable
<1> QED
  BY <1>1, <1>2 DEF UnrunnableNeverPass, allPassed

(* Every step keeps the two facts.                                         *)
LEMMA NextUnrunnable ==
    ASSUME LoopInv, UnrunnableNeverPass, [Next]_vars
    PROVE  UnrunnableNeverPass'
<1> USE DEF UnrunnableNeverPass, UnrunnableCheckBlocksSuccess
<1>1. CASE Iterate
  <2>1. PICK out \in Outputs, passing \in SUBSET CommandChecks :
          \/ DriftStop(out, passing) \/ AgentErrorStop(out, passing)
          \/ RepeatedFailureStop(out, passing) \/ SuccessStop(out, passing)
          \/ NoProgressStop(out, passing) \/ NextIteration(out, passing)
    BY <1>1 DEF Iterate
  <2>2. ASSUME NEW reason, NEW gate, IterationEnds(out, passing, reason, gate),
               Unrunnable = {} \/ reason # "success_all_checks_passed"
        PROVE  UnrunnableNeverPass'
    BY <2>2, UnrunnableStays DEF IterationEnds, fileVars, Unrunnable
  <2>3. CASE DriftStop(out, passing)
    BY <2>2, <2>3 DEF DriftStop, blockReason
  <2>4. CASE AgentErrorStop(out, passing)
    BY <2>2, <2>4 DEF AgentErrorStop
  <2>5. CASE RepeatedFailureStop(out, passing)
    BY <2>2, <2>5 DEF RepeatedFailureStop
  <2>6. CASE SuccessStop(out, passing)
    BY <2>2, <2>6, UnrunnableStays DEF SuccessStop
  <2>7. CASE NoProgressStop(out, passing)
    BY <2>2, <2>7 DEF NoProgressStop
  <2>8. CASE NextIteration(out, passing)
    BY <2>2, <2>8 DEF NextIteration, Unrunnable
  <2> QED
    BY <2>1, <2>3, <2>4, <2>5, <2>6, <2>7, <2>8
<1>2. CASE PersistMetadata
  <2>1. Unrunnable # {} => deriveProofState # "proved"
    <3>1. Unrunnable # {} => ~allPassed(latestChecks)
      BY UnrunnableStays
    <3> QED
      BY <3>1 DEF deriveProofState
  <2>2. /\ metadata' = {[stopReason |-> stopReason,
                         stopCategory |-> categoryForReason(stopReason),
                         iterationsRun |-> Len(iterations), proofState |-> deriveProofState]}
        /\ UNCHANGED <<latestChecks, stopReason>>
    BY <1>2 DEF PersistMetadata, loopVars
  <2>3. \A m \in metadata' : m.proofState = deriveProofState
    BY <2>2
  <2> QED
    BY <2>1, <2>2, <2>3 DEF Unrunnable
<1>3. CASE StopOnBudget \/ StopOnAbort \/ StopOnRuntime
  BY <1>3 DEF StopOnBudget, StopOnAbort, StopOnRuntime, LeaveLoop, fileVars
<1>4. CASE \/ Start \/ StartIteration \/ PersistReceipt \/ ClearActive
           \/ TimePasses \/ SignalArrives \/ SignalDelivered \/ Crash \/ UNCHANGED vars
  <2>1. UNCHANGED <<latestChecks, stopReason, metadata>>
    BY <1>4 DEF Start, StartIteration, PersistReceipt, ClearActive, TimePasses, SignalArrives,
                SignalDelivered, Crash, vars, loopVars, fileVars
  <2> QED
    BY <2>1
<1> QED
  BY <1>1, <1>2, <1>3, <1>4 DEF Next, Run

(* A loop with the scope check of buildChecks, or any check without a      *)
(* command, never succeeds and is never recorded as proved.                *)
THEOREM UnrunnableBlocks == Spec => []UnrunnableCheckBlocksSuccess
<1>1. Init => UnrunnableNeverPass
  BY DEF Init, UnrunnableNeverPass, UnrunnableCheckBlocksSuccess, Unrunnable, Checks
<1>2. UnrunnableNeverPass => UnrunnableCheckBlocksSuccess
  BY DEF UnrunnableNeverPass
<1> QED
  BY <1>1, <1>2, NextUnrunnable, LoopInvariant, PTL DEF Spec
-----------------------------------------------------------------------------
(* What a step may never do.                                               *)

(* A step writes each file at most once, forgets no drift and only adds an *)
(* iteration at the end, while the agent works.                            *)
LEMMA StepKeepsHistory ==
    ASSUME LoopInv, Next
    PROVE  /\ receipt \subseteq receipt' /\ metadata \subseteq metadata'
           /\ allDrift \subseteq allDrift'
           /\ iterations' # iterations =>
                pc = "agent" /\ SubSeq(iterations', 1, Len(iterations)) = iterations
<1>1. CASE Iterate
  <2>1. PICK out \in Outputs, passing \in SUBSET CommandChecks,
             reason \in StopReasons, gate \in Decisions :
          IterationFacts(out, passing, reason, gate)
    BY <1>1, IterateFacts DEF LoopInv
  <2>2. IterationEnds(out, passing, reason, gate)
    BY <2>1 DEF IterationFacts
  <2>3. pc = "agent" /\ SubSeq(iterations', 1, Len(iterations)) = iterations
    BY <1>1, <2>2, IterateFacts, IterationAppends DEF LoopInv
  <2> QED
    BY <2>2, <2>3 DEF IterationEnds, fileVars
<1>2. CASE PersistReceipt
  BY <1>2 DEF PersistReceipt, LoopInv, FilesAtPoint, loopVars
<1>3. CASE PersistMetadata
  BY <1>3 DEF PersistMetadata, LoopInv, FilesAtPoint, loopVars
<1>4. CASE StopOnBudget \/ StopOnAbort \/ StopOnRuntime
  BY <1>4 DEF StopOnBudget, StopOnAbort, StopOnRuntime, LeaveLoop, fileVars
<1>5. CASE \/ Start \/ StartIteration \/ ClearActive
           \/ TimePasses \/ SignalArrives \/ SignalDelivered \/ Crash
  BY <1>5 DEF Start, StartIteration, ClearActive, TimePasses, SignalArrives,
              SignalDelivered, Crash, loopVars, fileVars
<1> QED
  BY <1>1, <1>2, <1>3, <1>4, <1>5 DEF Next, Run

(* What a loop recorded and wrote stays: iterSummary is only pushed, and   *)
(* receipt and metadata are written once.                                  *)
THEOREM HistoryGrows == Spec => HistoryOnlyGrows
<1>1. LoopInv /\ [Next]_vars =>
        [/\ receipt \subseteq receipt' /\ metadata \subseteq metadata'
         /\ allDrift \subseteq allDrift'
         /\ iterations' # iterations =>
              pc = "agent" /\ SubSeq(iterations', 1, Len(iterations)) = iterations]_vars
  BY StepKeepsHistory
<1> QED
  BY <1>1, LoopInvariant, PTL DEF Spec, HistoryOnlyGrows
-----------------------------------------------------------------------------
(* What "proved" means.                                                    *)

(* The locals of runLoop agree with one another: a changed file is judged  *)
(* in the iteration that changes it, latestChecks is what the last         *)
(* iteration found, and a success is only claimed for clean, passed work.  *)
(* Nothing of it moves once the metadata is written.                       *)
LocalsAgree ==
    /\ ~HasBlock(allDrift) => allFilesChanged \intersect Disallowed = {}
    /\ iterations # <<>> => latestChecks = LastIteration.checkResults
    /\ iterations = <<>> => \A c \in Checks : latestChecks[c] = "not_run"
    /\ stopReason = "success_all_checks_passed" =>
         ~HasBlock(allDrift) /\ allPassed(latestChecks)
    /\ \A m \in metadata :
         m.proofState = deriveProofState /\ m.stopCategory = categoryForReason(stopReason)

(* Only the reason of a success has the category of a success.             *)
LEMMA SuccessCategory ==
    ASSUME NEW reason \in StopReasons
    PROVE  /\ categoryForReason(reason) = "success" <=> reason = "success_all_checks_passed"
           /\ categoryForReason(reason) \in {"safety", "escalation"}
                => reason # "success_all_checks_passed"
  BY DEF categoryForReason, StopReasons

(* However an iteration ends, a success is claimed with nothing blocked and*)
(* every check passed.                                                     *)
LEMMA SuccessIsClean ==
    ASSUME LoopInv, Iterate
    PROVE  \E out \in Outputs, passing \in SUBSET CommandChecks,
              reason \in StopReasons, gate \in Decisions :
             /\ IterationEnds(out, passing, reason, gate)
             /\ reason = "success_all_checks_passed" =>
                  ~Blocked(out) /\ allPassed(runAllChecks(passing))
<1>1. PICK out \in Outputs, passing \in SUBSET CommandChecks :
          \/ DriftStop(out, passing) \/ AgentErrorStop(out, passing)
          \/ RepeatedFailureStop(out, passing) \/ SuccessStop(out, passing)
          \/ NoProgressStop(out, passing) \/ NextIteration(out, passing)
  BY DEF Iterate
<1> USE DEF StopReasons, Decisions
<1>2. CASE DriftStop(out, passing)
  <2>1. blockReason(out) \in StopReasons \ {"success_all_checks_passed"}
    BY DEF blockReason
  <2> QED
    BY <1>2, <2>1 DEF DriftStop
<1>3. CASE AgentErrorStop(out, passing)
  BY <1>3 DEF AgentErrorStop
<1>4. CASE RepeatedFailureStop(out, passing)
  BY <1>4 DEF RepeatedFailureStop
<1>5. CASE SuccessStop(out, passing)
  BY <1>5 DEF SuccessStop
<1>6. CASE NoProgressStop(out, passing)
  BY <1>6 DEF NoProgressStop
<1>7. CASE NextIteration(out, passing)
  <2>1. stopReason = "budget_max_iterations"
    BY DEF LoopInv, ReasonAtPoint, Working, Iterate
  <2> QED
    BY <1>7, <2>1 DEF NextIteration
<1> QED
  BY <1>1, <1>2, <1>3, <1>4, <1>5, <1>6, <1>7

(* An iteration keeps the locals in agreement.                             *)
LEMMA IterateAgrees == ASSUME LoopInv, LocalsAgree, Iterate PROVE LocalsAgree'
<1>1. PICK out \in Outputs, passing \in SUBSET CommandChecks,
           reason \in StopReasons, gate \in Decisions :
         /\ IterationEnds(out, passing, reason, gate)
         /\ reason = "success_all_checks_passed" =>
              ~Blocked(out) /\ allPassed(runAllChecks(passing))
  BY SuccessIsClean
<1>2. pc = "agent" /\ ~HasBlock(allDrift) /\ metadata = {}
  BY DEF Iterate, LoopInv, StopsAtFirstVerdict, FilesAtPoint, Working
<1>3. /\ iterations \in Seq(Summaries) /\ Len(iterations') = Len(iterations) + 1
      /\ iterations'[Len(iterations')] = Summary(out, passing, gate)
  BY <1>1, IterationAppends DEF LoopInv
<1>4. iterations' # <<>> /\ LastIteration'.checkResults = runAllChecks(passing)
  BY <1>3 DEF LastIteration, Summary
<1>5. HasBlock(allDrift') <=> Blocked(out)
  BY <1>1, <1>2 DEF IterationEnds, HasBlock, Blocked
<1>6. ~Blocked(out) => out.files \intersect Disallowed = {}
  BY ScopeBlock, DriftsTyped
<1>7. ~HasBlock(allDrift') => allFilesChanged' \intersect Disallowed = {}
  BY <1>1, <1>2, <1>5, <1>6 DEF IterationEnds, LocalsAgree
<1>8. latestChecks' = runAllChecks(passing) /\ stopReason' = reason /\ metadata' = metadata
  BY <1>1 DEF IterationEnds, fileVars
<1>9. stopReason' = "success_all_checks_passed" =>
        ~HasBlock(allDrift') /\ allPassed(latestChecks')
  BY <1>1, <1>5, <1>8
<1> QED
  BY <1>2, <1>4, <1>7, <1>8, <1>9 DEF LocalsAgree

(* Every step keeps them in agreement.                                     *)
LEMMA NextAgrees == ASSUME LoopInv, LocalsAgree, [Next]_vars PROVE LocalsAgree'
<1>1. CASE Iterate
  BY <1>1, IterateAgrees
<1>2. CASE StopOnBudget \/ StopOnAbort \/ StopOnRuntime
  <2>1. /\ pc = "top" /\ stopReason' # "success_all_checks_passed"
        /\ UNCHANGED <<iterations, allDrift, allFilesChanged, latestChecks, metadata>>
    BY <1>2 DEF StopOnBudget, StopOnAbort, StopOnRuntime, LeaveLoop, fileVars
  <2>2. metadata' = {} /\ LastIteration' = LastIteration
    BY <2>1 DEF LoopInv, FilesAtPoint, Working, LastIteration
  <2> QED
    BY <2>1, <2>2 DEF LocalsAgree
<1>3. CASE PersistMetadata
  <2>1. /\ metadata' = {[stopReason |-> stopReason,
                         stopCategory |-> categoryForReason(stopReason),
                         iterationsRun |-> Len(iterations), proofState |-> deriveProofState]}
        /\ UNCHANGED loopVars
    BY <1>3 DEF PersistMetadata
  <2>2. \A m \in metadata' :
          m.proofState = deriveProofState /\ m.stopCategory = categoryForReason(stopReason)
    BY <2>1
  <2>3. /\ deriveProofState' = deriveProofState /\ LastIteration' = LastIteration
        /\ UNCHANGED <<iterations, allDrift, allFilesChanged, latestChecks, stopReason>>
    BY <2>1 DEF loopVars, deriveProofState, NeedsAttention, LastIteration
  <2> QED
    BY <2>2, <2>3 DEF LocalsAgree
<1>4. CASE \/ Start \/ StartIteration \/ PersistReceipt \/ ClearActive
           \/ TimePasses \/ SignalArrives \/ SignalDelivered \/ Crash \/ UNCHANGED vars
  <2>1. /\ UNCHANGED <<iterations, allDrift, allFilesChanged, latestChecks, stopReason>>
        /\ metadata' = metadata
    BY <1>4 DEF Start, StartIteration, PersistReceipt, ClearActive, TimePasses, SignalArrives,
                SignalDelivered, Crash, vars, loopVars, fileVars
  <2>2. deriveProofState' = deriveProofState /\ LastIteration' = LastIteration
    BY <2>1 DEF deriveProofState, NeedsAttention, LastIteration
  <2> QED
    BY <2>1, <2>2 DEF LocalsAgree
<1> QED
  BY <1>1, <1>2, <1>3, <1>4 DEF Next, Run

(* deriveProofState against runLoop: a loop recorded as proved changed no  *)
(* disallowed file and had all checks pass in its last iteration, and a    *)
(* success is recorded as proved whenever there was something to prove.    *)
THEOREM ProvedLoopsAreClean == Spec => []ProvedIsClean
<1>1. Init => LocalsAgree
  BY DEF Init, LocalsAgree, HasBlock
<1>2. ASSUME LoopInv, LocalsAgree PROVE ProvedIsClean
  <2>1. SUFFICES ASSUME NEW m \in metadata
                 PROVE  /\ m.proofState = "proved" =>
                             /\ allFilesChanged \intersect Disallowed = {}
                             /\ allPassed(LastIteration.checkResults)
                        /\ m.stopCategory = "success" /\ Checks # {} => m.proofState = "proved"
    BY DEF ProvedIsClean
  <2>2. /\ m.proofState = deriveProofState
        /\ m.stopCategory = categoryForReason(stopReason)
    BY <1>2 DEF LocalsAgree
  <2>3. ASSUME m.proofState = "proved"
        PROVE  allFilesChanged \intersect Disallowed = {} /\ allPassed(LastIteration.checkResults)
    <3>1. ~HasBlock(allDrift) /\ Checks # {} /\ allPassed(latestChecks)
      BY <2>2, <2>3 DEF deriveProofState, NeedsAttention
    <3>2. iterations # <<>>
      BY <3>1, <1>2 DEF LocalsAgree, allPassed
    <3> QED
      BY <3>1, <3>2, <1>2 DEF LocalsAgree
  <2>4. ASSUME m.stopCategory = "success", Checks # {}
        PROVE  m.proofState = "proved"
    <3>1. stopReason \in StopReasons
      BY <1>2 DEF LoopInv, TypeOK
    <3>2. stopReason = "success_all_checks_passed"
      BY <2>2, <2>4, <3>1, SuccessCategory
    <3>3. ~HasBlock(allDrift) /\ allPassed(latestChecks)
      BY <3>2, <1>2 DEF LocalsAgree
    <3>4. ~NeedsAttention
      BY <3>1, <3>2, <3>3, SuccessCategory DEF NeedsAttention
    <3> QED
      BY <2>2, <2>4, <3>3, <3>4 DEF deriveProofState
  <2> QED
    BY <2>3, <2>4
<1> QED
  BY <1>1, <1>2, NextAgrees, LoopInvariant, PTL DEF Spec

(* From its delivery on an abort counts the iterations begun, and no step  *)
(* but a crash, which gives up the one under way, makes them others.       *)
AbortInv ==
    signal = "delivered" =>
        /\ pc # "crashed" => IterationsStarted = signalledIn
        /\ IterationsStarted <= signalledIn
        /\ pc \in {"gate", "metadata", "clear", "done"} =>
              \/ stopReason = "user_stopped"
              \/ endedBy # {}
              \/ stopReason = "budget_max_iterations" /\ signalledIn = Budget

(* Every step keeps it.                                                    *)
LEMMA NextHonours == ASSUME LoopInv, AbortInv, [Next]_vars PROVE AbortInv'
<1>0. /\ iterations \in Seq(Summaries) /\ Len(iterations) \in Nat
      /\ IterationsStarted <= Budget /\ Budget \in Nat /\ signalledIn \in Nat
  BY BudgetFacts DEF LoopInv, TypeOK
<1>1. CASE Iterate
  <2>1. PICK out \in Outputs, passing \in SUBSET CommandChecks,
             reason \in StopReasons, gate \in Decisions :
          IterationFacts(out, passing, reason, gate)
    BY <1>1, IterateFacts DEF LoopInv
  <2>2. IterationEnds(out, passing, reason, gate) /\ pc = "agent"
    BY <1>1, <2>1, IterateFacts DEF IterationFacts, LoopInv
  <2>3. Len(iterations') = Len(iterations) + 1
    BY <2>2, IterationAppends DEF LoopInv
  <2>4. /\ pc' \in {"top", "gate"} /\ (pc' = "gate" => endedBy' # {})
        /\ signal' = signal /\ signalledIn' = signalledIn
    BY <2>2 DEF IterationEnds, envVars
  <2>5. IterationsStarted' = IterationsStarted
    BY <1>0, <2>2, <2>3, <2>4 DEF IterationsStarted
  <2> QED
    BY <2>2, <2>4, <2>5 DEF AbortInv
<1>2. CASE StopOnBudget
  <2>1. /\ pc = "top" /\ pc' = "gate" /\ stopReason' = "budget_max_iterations" /\ ~MayWork
        /\ UNCHANGED <<iterations, signal, signalledIn>>
    BY <1>2 DEF StopOnBudget, LeaveLoop, BudgetSpent, envVars
  <2>2. IterationsStarted = Len(iterations) /\ IterationsStarted' = IterationsStarted
    BY <1>0, <2>1 DEF IterationsStarted
  <2>3. IterationsStarted = Budget
    BY <1>0, <2>1, <2>2, BudgetFacts
  <2> QED
    BY <2>1, <2>2, <2>3 DEF AbortInv
<1>3. CASE StopOnAbort
  <2>1. /\ pc = "top" /\ pc' = "gate" /\ stopReason' = "user_stopped"
        /\ UNCHANGED <<iterations, signal, signalledIn>>
    BY <1>3 DEF StopOnAbort, LeaveLoop, envVars
  <2> QED
    BY <2>1 DEF AbortInv, IterationsStarted
<1>4. CASE StopOnRuntime \/ StartIteration
  BY <1>4 DEF StopOnRuntime, LeaveLoop, StartIteration, envVars, AbortInv
<1>5. CASE SignalDelivered
  <2>1. /\ pc \in {"start", "agent"} /\ pc' = pc
        /\ signalledIn' = IterationsStarted /\ IterationsStarted' = IterationsStarted
    BY <1>5 DEF SignalDelivered, IterationsStarted, loopVars
  <2> QED
    BY <1>0, <2>1 DEF AbortInv, IterationsStarted
<1>6. CASE SignalArrives
  BY <1>6 DEF SignalArrives, AbortInv
<1>7. CASE Crash
  <2>1. /\ pc' = "crashed" /\ UNCHANGED <<signal, signalledIn, iterations>>
        /\ IterationsStarted' <= IterationsStarted
    BY <1>0, <1>7 DEF Crash, IterationsStarted, loopVars, envVars
  <2>2. IterationsStarted' \in Nat /\ IterationsStarted \in Nat
    BY <1>0, <2>1 DEF IterationsStarted
  <2> QED
    BY <1>0, <2>1, <2>2 DEF AbortInv
<1>8. CASE Start \/ PersistReceipt \/ PersistMetadata \/ ClearActive \/ TimePasses \/ UNCHANGED vars
  <2>1. /\ UNCHANGED <<signal, signalledIn, iterations, stopReason, endedBy>>
        /\ pc' \in {"gate", "metadata", "clear", "done"} =>
             pc \in {"gate", "metadata", "clear", "done"}
        /\ pc # "crashed" \/ pc' = "crashed"
        /\ pc' = "agent" <=> pc = "agent"
    BY <1>8 DEF Start, PersistReceipt, PersistMetadata, ClearActive, TimePasses, Ended, vars,
                loopVars, envVars
  <2>2. IterationsStarted' = IterationsStarted
    BY <2>1 DEF IterationsStarted
  <2> QED
    BY <2>1, <2>2 DEF AbortInv
<1> QED
  BY <1>1, <1>2, <1>3, <1>4, <1>5, <1>6, <1>7, <1>8 DEF Next, Run

(* The head of the for loop looks at the abort flag before every iteration *)
(* and before the clock: the iteration in which an abort is delivered is   *)
(* the last, and the recorded reason is the user's unless that iteration   *)
(* or the budget had one of its own.                                       *)
THEOREM AbortIsHonoured == Spec => []AbortHonoured
<1>1. Init => AbortInv
  BY DEF Init, AbortInv
<1>2. ASSUME LoopInv, AbortInv PROVE AbortHonoured
  <2>1. pc \in {"gate", "metadata", "clear", "done"} => IterationsStarted = Len(iterations)
    <3>1. Len(iterations) \in Nat
      BY <1>2 DEF LoopInv, TypeOK
    <3> QED
      BY <3>1 DEF IterationsStarted
  <2> QED
    BY <1>2, <2>1 DEF AbortInv, AbortHonoured
<1> QED
  BY <1>1, <1>2, NextHonours, LoopInvariant, PTL DEF Spec

(***************************************************************************)
(* What a piece of work is said to be                                      *)
(***************************************************************************)

Stages == {"idle", "context", "continuity", "report", "publish", "record", "history", "build",
           "latest", "append", "resume", "show", "done"}
FileFields == {"packet", "pack", "continuity", "report", "record", "latest", "resume", "history",
               "readable", "tokens"}
HeldFields == {"work", "prepared", "adapter", "report", "reported", "history", "model", "resume", "again"}

(* A record that has these fields and no other.                            *)
Has(a, fields) == a = [name \in fields |-> a[name]]

Packets == NextRunContinuityPackets(Works)
AtMostOne(opt, S) == opt = {} \/ \E c \in S : opt = {c}

WorkShapes ==
    /\ stage \in [Processes -> Stages]
    /\ DOMAIN mine = Processes /\ mine = [p \in Processes |-> mine[p]]
    /\ \A p \in Processes : Has(mine[p], HeldFields)
    /\ Has(files, FileFields)
    /\ AtMostOne(files.continuity, Packets)
    /\ \E S : files.history \in Seq(S)

(* A session in the first layers holds its work.                           *)
WorkHeld ==
    \A s \in Sessions : stage[s] \in {"context", "continuity"} => \E w \in Works : mine[s].work = {w}

(* There is a report, and it lists something open.                         *)
ListsOpen(opt) == \E r : opt = {r} /\ r.open \in Nat \ {0}

Own(s) == The(mine[s].work)

(* The work intelligence m is about what session s recorded.               *)
Tells(s, m) ==
    /\ m.by = {s} /\ m.outcome # "proved"
    /\ \E x : files.record = {x} /\ x.by = s /\ x.work.gate = m.gate

(* A session that nobody disturbed, at each of its stages.                 *)
BeforeBuild(s) ==
    /\ mine[s].model = {}
    /\ mine[s].work = {Own(s)} /\ Own(s) \in Works
    /\ stage[s] \in {"context", "continuity", "report", "publish"} => Own(s).gate = "allow"
    /\ stage[s] = "report" => files.continuity = {PrepareContinuity(Own(s))}
    /\ stage[s] = "publish" => ListsOpen(mine[s].report)
    /\ stage[s] \in {"record", "history", "build"} /\ Own(s).gate = "allow" => ListsOpen(files.report)
    /\ stage[s] \in {"history", "build"} =>
          \E x : files.record = {x} /\ x.by = s /\ x.work = Own(s)
AfterBuild(s) ==
    \E m : /\ mine[s].model = {m} /\ Tells(s, m)
           /\ mine[s].resume = {ResumePacket(m, files.continuity)}
           /\ stage[s] \in {"append", "resume"} => files.latest = {m}
           /\ stage[s] = "resume" => HistoryEntry(m) = Last(files.history)
AtEnd(s) ==
    /\ mine[s].model = {}
    /\ \E m : /\ files.latest = {m} /\ Tells(s, m)
              /\ HistoryEntry(m) = Last(files.history)
              /\ files.resume = {ResumePacket(m, files.continuity)}

Undisturbed(s) ==
    /\ s \in Sessions /\ Active \subseteq {s}
    /\ stage[s] \notin {"idle", "show"}
    /\ stage[s] \in {"context", "continuity", "report", "publish", "record", "history", "build"} =>
          BeforeBuild(s)
    /\ stage[s] \in {"latest", "append", "resume"} => AfterBuild(s)
    /\ stage[s] = "done" => AtEnd(s)

WorkStory == \A s \in alone : Undisturbed(s)
WorkInv == WorkShapes /\ WorkHeld /\ WorkStory

(* A step that neither loads nor adds to the history.                      *)
QuietStep ==
    /\ files'.history = files.history
    /\ files'.readable = files.readable \/ files'.readable = FALSE
    /\ \A x \in files'.record : x \in files.record \/ stage'[x.by] # "idle"
    /\ \A q \in Processes :
          /\ mine'[q].model \subseteq mine[q].model
          /\ stage'[q] = "idle" => stage[q] = "idle"
          /\ stage'[q] \in {"latest", "append"} =>
                stage[q] \in {"latest", "append"} /\ mine'[q].model = mine[q].model
          /\ stage'[q] = "build" => stage[q] = "build" /\ mine'[q].history = mine[q].history
    /\ \A s \in alone' : s \in alone \/ (stage[s] = "idle" /\ stage'[s] \in {"context", "record"})

(* A name in a record keeps its place when another is given a value.       *)
LEMMA FieldSet ==
    ASSUME NEW a, NEW fields, Has(a, fields), NEW name \in fields, NEW value
    PROVE  LET b == [a EXCEPT ![name] = value]
           IN /\ Has(b, fields) /\ b[name] = value
              /\ \A f \in fields \ {name} : b[f] = a[f]
<1> DEFINE b == [a EXCEPT ![name] = value]
<1>1. DOMAIN a = fields
  BY DEF Has
<1>2. b[name] = value /\ \A f \in fields \ {name} : b[f] = a[f]
  BY <1>1
<1>3. b = [f \in fields |-> b[f]]
  BY <1>1
<1> QED
  BY <1>2, <1>3 DEF Has

(* The one there is.                                                       *)
LEMMA TheOne == ASSUME NEW x PROVE The({x}) = x
  BY DEF The

LEMMA PreparedTyped ==
    ASSUME NEW w \in Works
    PROVE  /\ PrepareContinuity(w) \in Packets
           /\ w.gate = "allow" => PrepareContinuity(w).missing \in Nat \ {0}
           /\ PrepareContinuity(w).questions \in Nat
<1> DEFINE q == (IF w.route = "needs_decision" THEN 1 ELSE 0)
                    + (IF w.approval = "require_manual_review" THEN 1 ELSE 0)
           n == IF w.route = "blocked" THEN 0 ELSE ProofNeeded(w.tier)
           st == IF w.route = "blocked" THEN "blocked" ELSE "prepared"
<1>1. q \in 0..2
  OBVIOUS
<1>2. ProofNeeded(w.tier) \in 0..3
  BY DEF ProofNeeded
<1>3. n \in 0..3
  BY <1>2
<1>4. st \in ContinuityStatuses
  BY DEF ContinuityStatuses
<1>5. w.gate = "allow" => n \in Nat \ {0}
  BY WorksAssumption DEF ProofNeeded
<1>6. PrepareContinuity(w) =
        [work |-> w, fresh |-> TRUE, status |-> st, questions |-> q, missing |-> n]
  BY DEF PrepareContinuity
<1> HIDE DEF q, n, st
<1> QED
  BY <1>1, <1>3, <1>4, <1>5, <1>6 DEF Packets, NextRunContinuityPackets

(* The proofs an allowed work still wants are open items of its report.    *)
LEMMA ReportListsOpen ==
    ASSUME NEW w \in Works, w.gate = "allow", NEW tokens, NEW adapter
    PROVE  BuildProofReport({PrepareContinuity(w)}, tokens, adapter).open \in Nat \ {0}
<1> DEFINE c == PrepareContinuity(w)
<1>1. c.missing \in Nat \ {0} /\ c.questions \in Nat
  BY PreparedTyped
<1> HIDE DEF c
<1>2. The({c}) = c /\ {c} # {}
  BY TheOne
<1>3. BuildProofReport({c}, tokens, adapter).open = AdapterOpen(adapter) + (c.missing + c.questions)
  BY <1>2 DEF BuildProofReport
<1>4. AdapterOpen(adapter) \in Nat
  BY DEF AdapterOpen
<1> QED
  BY <1>1, <1>3, <1>4 DEF c

(* Open items stand in the way of a proof.                                 *)
LEMMA OpenIsNotProved ==
    ASSUME NEW x, x.work \in Works, NEW report, x.work.gate = "allow" => report.open \in Nat \ {0}
    PROVE  OutcomeStatus({x}, ProofStatus({x}, report)) # "proved"
<1>1. The({x}) = x
  BY TheOne
<1>2. x.work.gate \in Gates
  BY WorksAssumption
<1>3. CASE x.work.gate = "allow"
  <2>1. ProofStatus({x}, report) # "proved"
    BY <1>3 DEF ProofStatus
  <2> QED
    BY <2>1, <1>1, <1>3 DEF OutcomeStatus
<1>4. CASE x.work.gate # "allow"
  BY <1>1, <1>2, <1>4 DEF OutcomeStatus, Gates
<1> QED
  BY <1>3, <1>4

(* What the work intelligence takes from the record it is made of.         *)
LEMMA ModelOfRecord ==
    ASSUME NEW in, NEW x, in.run = {x}
    PROVE  LET m == BuildWorkIntelligence(in)
           IN /\ m.by = {x.by} /\ m.gate = x.work.gate
              /\ m.outcome = OutcomeStatus({x}, ProofStatus({x}, in.report))
<1>1. The({x}) = x /\ {x} # {}
  BY TheOne
<1> QED
  BY <1>1 DEF BuildWorkIntelligence

(* Alone, a process finds every file as it is.                             *)
LEMMA SeenAlone ==
    ASSUME stage \in [Processes -> Stages], NEW p \in Processes, Active \subseteq {p}, NEW name
    PROVE  Seen(p, name) = {files[name]}
<1>1. ASSUME NEW q \in Processes \ {p} PROVE Writing(q) = {}
  <2>1. stage[q] \in {"idle", "done"}
    BY DEF Active
  <2> QED
    BY <2>1 DEF Writing, Writes
<1> QED
  BY <1>1 DEF Seen

(* A step of p leaves nobody alone but p, and p only if it goes well.      *)
LEMMA AloneAfter ==
    ASSUME NEW p, NEW ok \in BOOLEAN, Disturb(p, ok), WorkStory, NEW s \in alone'
    PROVE  s = p /\ ok /\ s \in alone /\ Undisturbed(s)
  BY DEF Disturb, WorkStory

LEMMA StageAfter ==
    ASSUME stage \in [Processes -> Stages], NEW p \in Processes, NEW next \in Stages, Go(p, next)
    PROVE  /\ stage' \in [Processes -> Stages] /\ stage'[p] = next
           /\ \A q \in Processes \ {p} : stage'[q] = stage[q]
           /\ Active \subseteq {p} => Active' \subseteq {p}
<1>1. /\ stage' \in [Processes -> Stages] /\ stage'[p] = next
      /\ \A q \in Processes \ {p} : stage'[q] = stage[q]
  BY DEF Go
<1> QED
  BY <1>1 DEF Active

LEMMA HeldAfter ==
    ASSUME WorkShapes, NEW p \in Processes, NEW name \in HeldFields, NEW value, Keep(p, name, value)
    PROVE  /\ DOMAIN mine' = Processes /\ mine' = [q \in Processes |-> mine'[q]]
           /\ \A q \in Processes : Has(mine'[q], HeldFields)
           /\ mine'[p][name] = value
           /\ \A f \in HeldFields \ {name} : mine'[p][f] = mine[p][f]
           /\ \A q \in Processes \ {p} : mine'[q] = mine[q]
<1>1. Has(mine[p], HeldFields) /\ DOMAIN mine = Processes
  BY DEF WorkShapes
<1>2. mine'[p] = [mine[p] EXCEPT ![name] = value]
  BY <1>1 DEF Keep
<1>3. Has(mine'[p], HeldFields) /\ mine'[p][name] = value
      /\ \A f \in HeldFields \ {name} : mine'[p][f] = mine[p][f]
  BY <1>1, <1>2, FieldSet
<1>4. \A q \in Processes \ {p} : mine'[q] = mine[q]
  BY <1>1 DEF Keep
<1>5. DOMAIN mine' = Processes /\ mine' = [q \in Processes |-> mine'[q]]
  BY <1>1 DEF Keep
<1> QED
  BY <1>3, <1>4, <1>5 DEF WorkShapes

(* A step that leaves what it holds as it is.                              *)
LEMMA ShapesKept ==
    ASSUME WorkShapes, NEW p \in Processes, NEW next \in Stages, Go(p, next),
           UNCHANGED mine, Has(files', FileFields), AtMostOne(files'.continuity, Packets),
           files'.history = files.history
    PROVE  WorkShapes'
<1>1. stage' \in [Processes -> Stages]
  BY StageAfter DEF WorkShapes
<1> QED
  BY <1>1 DEF WorkShapes

LEMMA NothingShape == Has(Nothing, HeldFields) /\ Nothing.model = {}
<1>1. Nothing = [work |-> {}, prepared |-> FALSE, adapter |-> "none", report |-> {}, reported |-> FALSE,
            history |-> <<>>, model |-> {}, resume |-> {}, again |-> FALSE]
  BY DEF Nothing
<1>2. DOMAIN Nothing = HeldFields
  BY <1>1 DEF HeldFields
<1> QED
  BY <1>1, <1>2 DEF Has

LEMMA InitStory == WorkInit => WorkInv
<1> SUFFICES ASSUME WorkInit PROVE WorkInv
  OBVIOUS
<1>1. Has(files, FileFields) /\ files.continuity = {} /\ files.history = <<>>
  <2>1. DOMAIN NoFiles = FileFields /\ NoFiles.continuity = {} /\ NoFiles.history = <<>>
    BY DEF NoFiles, FileFields
  <2>2. NoFiles = [name \in FileFields |-> NoFiles[name]]
    BY <2>1 DEF NoFiles
  <2> QED
    BY <2>1, <2>2 DEF WorkInit, Has
<1>2. stage \in [Processes -> Stages]
  BY DEF WorkInit, Stages
<1>3. DOMAIN mine = Processes /\ mine = [p \in Processes |-> mine[p]]
      /\ \A p \in Processes : Has(mine[p], HeldFields)
  BY NothingShape DEF WorkInit
<1>4. files.history \in Seq({})
  BY <1>1
<1>5. WorkShapes
  BY <1>1, <1>2, <1>3, <1>4 DEF WorkShapes, AtMostOne
<1>6. WorkHeld
  BY DEF WorkHeld, WorkInit, Processes
<1>7. WorkStory
  BY DEF WorkStory, WorkInit
<1> QED
  BY <1>5, <1>6, <1>7 DEF WorkInv

(* Nobody but p moves, and p is not at the history.                        *)
LEMMA QuietMove ==
    ASSUME stage \in [Processes -> Stages], NEW p \in Processes, NEW next \in Stages, Go(p, next),
           \A q \in Processes \ {p} : mine'[q] = mine[q],
           mine'[p].model \subseteq mine[p].model,
           next \notin {"idle", "build"},
           next \in {"latest", "append"} => stage[p] \in {"latest", "append"} /\ mine'[p].model = mine[p].model,
           files'.history = files.history,
           files'.readable = files.readable \/ files'.readable = FALSE,
           \A x \in files'.record : x \in files.record \/ x.by = p,
           \A s \in alone' : s \in alone \/ (s = p /\ stage[s] = "idle" /\ next \in {"context", "record"})
    PROVE  QuietStep
<1>1. stage'[p] = next /\ \A q \in Processes \ {p} : stage'[q] = stage[q]
  BY StageAfter
<1> QED
  BY <1>1 DEF QuietStep

(* A session that begins is alone if nobody is at work.                    *)
LEMMA StartStory ==
    ASSUME WorkInv, NEW s \in Sessions, NEW w \in Works, StartSession(s, w)
    PROVE  WorkInv' /\ QuietStep
<1> DEFINE next == IF w.gate = "allow" THEN "context" ELSE "record"
           held == [Nothing EXCEPT !.work = {w}]
<1>1. s \in Processes /\ next \in Stages /\ Go(s, next) /\ WorkShapes
  BY DEF StartSession, Processes, Stages, WorkInv
<1>2. Has(held, HeldFields) /\ held.work = {w} /\ held.model = {}
  <2>1. "work" \in HeldFields /\ "model" \in HeldFields \ {"work"}
    BY DEF HeldFields
  <2> QED
    BY <2>1, NothingShape, FieldSet
<1>3. mine' = [mine EXCEPT ![s] = held] /\ UNCHANGED files
  BY DEF StartSession
<1> HIDE DEF held
<1>4. DOMAIN mine' = Processes /\ mine' = [p \in Processes |-> mine'[p]] /\ mine'[s] = held
      /\ \A p \in Processes \ {s} : mine'[p] = mine[p]
  BY <1>1, <1>3 DEF WorkShapes
<1>5. stage' \in [Processes -> Stages] /\ stage'[s] = next
      /\ \A q \in Processes \ {s} : stage'[q] = stage[q]
  BY <1>1, StageAfter DEF WorkShapes
<1>6. WorkShapes'
  BY <1>1, <1>2, <1>3, <1>4, <1>5 DEF WorkShapes
<1>7. ASSUME NEW t \in alone' PROVE Undisturbed(t)'
  <2>1. t = s /\ Active = {}
    BY <1>7 DEF StartSession
  <2>2. Active' \subseteq {s}
    BY <2>1, <1>5 DEF Active
  <2>3. mine'[s].work = {w} /\ mine'[s].model = {} /\ Own(s)' = w
    BY <1>2, <1>4, TheOne DEF Own
  <2>4. next \notin {"continuity", "report", "publish", "history", "build", "latest", "append", "resume",
                     "idle", "done", "show"}
        /\ (next = "context" <=> w.gate = "allow")
    OBVIOUS
  <2>5. BeforeBuild(s)'
    BY <1>5, <2>3, <2>4 DEF BeforeBuild
  <2> QED
    BY <1>5, <2>1, <2>2, <2>4, <2>5 DEF Undisturbed
<1>8. WorkHeld'
  BY <1>2, <1>4, <1>5 DEF WorkInv, WorkHeld, Processes
<1>9. QuietStep
  <2>1. \A t \in alone' : t = s /\ stage[s] = "idle"
    BY DEF StartSession, At
  <2>2. mine'[s].model \subseteq mine[s].model
    BY <1>2, <1>4
  <2>3. next \notin {"idle", "build", "latest", "append"} /\ next \in {"context", "record"}
    OBVIOUS
  <2> HIDE DEF next
  <2> QED
    BY <1>1, <1>3, <1>4, <2>1, <2>2, <2>3, QuietMove DEF WorkShapes
<1> QED
  BY <1>6, <1>7, <1>8, <1>9 DEF WorkInv, WorkStory

(* A write to one file.                                                    *)
LEMMA FileAfter ==
    ASSUME Has(files, FileFields), NEW name \in FileFields, NEW value,
           files' = [files EXCEPT ![name] = value]
    PROVE  /\ Has(files', FileFields) /\ files'[name] = value
           /\ \A f \in FileFields \ {name} : files'[f] = files[f]
<1>1. DOMAIN files = FileFields
  BY DEF Has
<1>2. files'[name] = value /\ \A f \in FileFields \ {name} : files'[f] = files[f]
  BY <1>1
<1>3. files' = [f \in FileFields |-> files'[f]]
  BY <1>1
<1> QED
  BY <1>2, <1>3 DEF Has

LEMMA WriteContextStory ==
    ASSUME WorkInv, NEW s \in Sessions, NEW ok \in BOOLEAN, WriteContext(s, ok)
    PROVE  WorkInv' /\ QuietStep
<1>1. s \in Processes /\ WorkShapes /\ WorkStory /\ Go(s, "continuity") /\ Keep(s, "prepared", TRUE)
      /\ Disturb(s, ok) /\ "continuity" \in Stages /\ "prepared" \in HeldFields
  BY DEF WriteContext, Processes, WorkInv, Stages, HeldFields
<1>2. stage' \in [Processes -> Stages] /\ stage'[s] = "continuity"
      /\ (\A q \in Processes \ {s} : stage'[q] = stage[q]) /\ (Active \subseteq {s} => Active' \subseteq {s})
  BY <1>1, StageAfter DEF WorkShapes
<1>3. /\ DOMAIN mine' = Processes /\ mine' = [q \in Processes |-> mine'[q]]
      /\ \A q \in Processes : Has(mine'[q], HeldFields)
      /\ (\A q \in Processes \ {s} : mine'[q] = mine[q])
      /\ mine'[s].work = mine[s].work /\ mine'[s].model = mine[s].model
  BY <1>1, HeldAfter DEF HeldFields
<1>4. Has(files', FileFields) /\ files'.continuity = files.continuity /\ files'.history = files.history
      /\ files'.record = files.record /\ files'.readable = files.readable
  <2> DEFINE w == mine[s].work
             between == [files EXCEPT !.packet = w]
  <2>1. Has(files, FileFields) /\ {"packet", "pack"} \subseteq FileFields
        /\ {"continuity", "history", "record", "readable"} \subseteq FileFields \ {"packet", "pack"}
    BY <1>1 DEF WorkShapes, FileFields
  <2>2. Has(between, FileFields) /\ between.continuity = files.continuity /\ between.history = files.history
        /\ between.record = files.record /\ between.readable = files.readable
    BY <2>1, FieldSet
  <2>3. files' = [between EXCEPT !.pack = w] \/ files' = [files EXCEPT !.pack = w]
    BY DEF WriteContext
  <2> HIDE DEF between, w
  <2>4. CASE files' = [between EXCEPT !.pack = w]
    <3>1. LET b == [between EXCEPT !.pack = w]
          IN Has(b, FileFields) /\ b.continuity = between.continuity /\ b.history = between.history
             /\ b.record = between.record /\ b.readable = between.readable
      BY <2>1, <2>2, FieldSet
    <3> QED
      BY <2>2, <2>4, <3>1
  <2>5. CASE files' = [files EXCEPT !.pack = w]
    BY <2>1, <2>5, FileAfter
  <2> QED
    BY <2>3, <2>4, <2>5
<1>5. WorkShapes'
  BY <1>1, <1>2, <1>3, <1>4 DEF WorkShapes
<1>6. ASSUME NEW t \in alone' PROVE Undisturbed(t)'
  <2>1. t = s /\ Undisturbed(s)
    BY <1>1, <1>6, AloneAfter
  <2>2. stage[s] = "context"
    BY DEF WriteContext, At
  <2>3. BeforeBuild(s)
    BY <2>1, <2>2 DEF Undisturbed
  <2>4. Own(s)' = Own(s)
    BY <1>3 DEF Own
  <2>5. BeforeBuild(s)'
    BY <1>2, <1>3, <2>2, <2>3, <2>4 DEF BeforeBuild
  <2> QED
    BY <1>2, <2>1, <2>5 DEF Undisturbed
<1>7. WorkHeld'
  <2>1. stage[s] = "context"
    BY DEF WriteContext, At
  <2> QED
    BY <2>1, <1>2, <1>3 DEF WorkInv, WorkHeld, Processes
<1>8. QuietStep
  BY <1>1, <1>3, <1>4, QuietMove DEF WorkShapes, Disturb
<1> QED
  BY <1>5, <1>6, <1>7, <1>8 DEF WorkInv, WorkStory

LEMMA WriteContinuityStory ==
    ASSUME WorkInv, NEW s \in Sessions, NEW ok \in BOOLEAN, WriteContinuity(s, ok)
    PROVE  WorkInv' /\ QuietStep
<1> DEFINE c == PrepareContinuity(Own(s))
<1>1. s \in Processes /\ WorkShapes /\ WorkStory /\ Go(s, "report") /\ UNCHANGED mine
      /\ Disturb(s, ok) /\ "report" \in Stages
  BY DEF WriteContinuity, Processes, WorkInv, Stages
<1>2. stage' \in [Processes -> Stages] /\ stage'[s] = "report"
      /\ (\A q \in Processes \ {s} : stage'[q] = stage[q]) /\ (Active \subseteq {s} => Active' \subseteq {s})
  BY <1>1, StageAfter DEF WorkShapes
<1>3. files' = (IF ok THEN [files EXCEPT !.continuity = {c}] ELSE files)
  BY DEF WriteContinuity, Own
<1>4. Has(files', FileFields) /\ files'.history = files.history
      /\ files'.record = files.record /\ files'.readable = files.readable
      /\ files'.continuity = (IF ok THEN {c} ELSE files.continuity)
  <2> HIDE DEF c
  <2>1. Has(files, FileFields) /\ "continuity" \in FileFields /\ {"history", "record", "readable"} \subseteq FileFields \ {"continuity"}
    BY <1>1 DEF WorkShapes, FileFields
  <2>2. CASE ok
    BY <2>1, <2>2, <1>3, FileAfter
  <2> QED
    BY <2>1, <2>2, <1>3
<1>5. WorkShapes'
  <2>1. c \in Packets
    <3>1. PICK w \in Works : mine[s].work = {w}
      BY DEF WorkInv, WorkHeld, WriteContinuity, At
    <3>2. Own(s) = w
      BY <3>1, TheOne DEF Own
    <3> QED
      BY <3>2, PreparedTyped
  <2>2. AtMostOne(files'.continuity, Packets)
    BY <1>1, <1>4, <2>1 DEF WorkShapes, AtMostOne
  <2> QED
    BY <1>1, <1>4, <2>2, ShapesKept
<1>6. ASSUME NEW t \in alone' PROVE Undisturbed(t)'
  <2>1. t = s /\ ok /\ Undisturbed(s)
    BY <1>1, <1>6, AloneAfter
  <2>2. stage[s] = "continuity"
    BY DEF WriteContinuity, At
  <2>3. BeforeBuild(s)
    BY <2>1, <2>2 DEF Undisturbed
  <2>4. Own(s)' = Own(s)
    BY <1>1 DEF Own
  <2>5. BeforeBuild(s)'
    BY <1>1, <1>2, <1>4, <2>1, <2>2, <2>3, <2>4 DEF BeforeBuild
  <2> QED
    BY <1>2, <2>1, <2>5 DEF Undisturbed
<1>7. WorkHeld'
  BY <1>1, <1>2 DEF WorkInv, WorkHeld, Processes
<1>8. QuietStep
  BY <1>1, <1>4, QuietMove DEF WorkShapes, Disturb
<1> QED
  BY <1>5, <1>6, <1>7, <1>8 DEF WorkInv, WorkStory

(* Past the first layers nobody has to hold a work.                        *)
LEMMA WorkHeldOn ==
    ASSUME stage \in [Processes -> Stages], WorkHeld, NEW p \in Processes,
           NEW next \in Stages \ {"context", "continuity"}, Go(p, next),
           \A q \in Processes \ {p} : mine'[q] = mine[q]
    PROVE  WorkHeld'
<1>1. stage'[p] = next /\ \A q \in Processes \ {p} : stage'[q] = stage[q]
  BY StageAfter
<1> QED
  BY <1>1 DEF WorkHeld, Processes

LEMMA BuildReportStory ==
    ASSUME WorkInv, NEW s \in Sessions, NEW adapter, NEW continuity \in Seen(s, "continuity"),
           BuildReport(s, adapter, continuity)
    PROVE  WorkInv' /\ QuietStep
<1> DEFINE r == {BuildProofReport(continuity, TRUE, adapter)}
           a == [mine[s] EXCEPT !.adapter = adapter]
           b == [a EXCEPT !.reported = TRUE]
           c == [b EXCEPT !.report = r]
<1>1. s \in Processes /\ WorkShapes /\ WorkStory /\ Go(s, "publish") /\ Disturb(s, TRUE)
      /\ "publish" \in Stages \ {"context", "continuity"}
  BY DEF BuildReport, Processes, WorkInv, Stages
<1>2. stage' \in [Processes -> Stages] /\ stage'[s] = "publish" /\ (Active \subseteq {s} => Active' \subseteq {s})
  BY <1>1, StageAfter DEF WorkShapes
<1>3. mine'[s] = c /\ (\A q \in Processes \ {s} : mine'[q] = mine[q])
      /\ DOMAIN mine' = Processes /\ mine' = [q \in Processes |-> mine'[q]]
  BY <1>1 DEF BuildReport, WorkShapes
<1>4. Has(c, HeldFields) /\ c.report = r /\ c.work = mine[s].work /\ c.model = mine[s].model
  <2> HIDE DEF r
  <2>1. {"adapter", "reported", "report"} \subseteq HeldFields
        /\ {"work", "model"} \subseteq HeldFields \ {"adapter", "reported", "report"}
        /\ Has(mine[s], HeldFields)
    BY <1>1 DEF HeldFields, WorkShapes
  <2>2. Has(a, HeldFields) /\ a.work = mine[s].work /\ a.model = mine[s].model
    BY <2>1, FieldSet
  <2> HIDE DEF a
  <2>3. Has(b, HeldFields) /\ b.work = a.work /\ b.model = a.model
    BY <2>1, <2>2, FieldSet
  <2> HIDE DEF b
  <2>4. Has(c, HeldFields) /\ c.report = r /\ c.work = b.work /\ c.model = b.model
    BY <2>1, <2>3, FieldSet
  <2> QED
    BY <2>2, <2>3, <2>4
<1> HIDE DEF a, b, c
<1>5. Has(files', FileFields) /\ files'.history = files.history /\ files'.continuity = files.continuity
      /\ files'.record = files.record /\ files'.readable = files.readable
  <2>1. Has(files, FileFields) /\ "tokens" \in FileFields
        /\ {"continuity", "history", "record", "readable"} \subseteq FileFields \ {"tokens"}
    BY <1>1 DEF WorkShapes, FileFields
  <2>2. files' = [files EXCEPT !.tokens = TRUE]
    BY DEF BuildReport
  <2> QED
    BY <2>1, <2>2, FileAfter
<1>6. WorkShapes'
  BY <1>1, <1>2, <1>3, <1>4, <1>5 DEF WorkShapes
<1>7. ASSUME NEW t \in alone' PROVE Undisturbed(t)'
  <2>1. t = s /\ Undisturbed(s)
    BY <1>1, <1>7, AloneAfter
  <2>2. stage[s] = "report"
    BY DEF BuildReport, At
  <2>3. BeforeBuild(s)
    BY <2>1, <2>2 DEF Undisturbed
  <2>4. Own(s)' = Own(s)
    BY <1>3, <1>4 DEF Own
  <2>5. continuity = {PrepareContinuity(Own(s))} /\ Own(s) \in Works /\ Own(s).gate = "allow"
    <3>1. Seen(s, "continuity") = {files.continuity}
      BY <1>1, <2>1, SeenAlone DEF WorkShapes, Undisturbed
    <3> QED
      BY <2>2, <2>3, <3>1 DEF BeforeBuild
  <2>6. ListsOpen(mine'[s].report)
    <3> DEFINE report == BuildProofReport(continuity, TRUE, adapter)
    <3>1. report.open \in Nat \ {0}
      <4>1. PICK w \in Works : w = Own(s)
        BY <2>5
      <4>2. BuildProofReport({PrepareContinuity(w)}, TRUE, adapter).open \in Nat \ {0}
        BY <2>5, <4>1, ReportListsOpen
      <4> QED
        BY <2>5, <4>1, <4>2
    <3>2. mine'[s].report = {report}
      BY <1>3, <1>4
    <3> HIDE DEF report
    <3> QED
      BY <3>1, <3>2 DEF ListsOpen
  <2>7. BeforeBuild(s)'
    BY <1>2, <1>3, <1>4, <2>2, <2>3, <2>4, <2>5, <2>6 DEF BeforeBuild, ListsOpen
  <2> QED
    BY <1>2, <2>1, <2>7 DEF Undisturbed
<1>8. WorkHeld'
  BY <1>1, <1>3, WorkHeldOn DEF WorkInv, WorkShapes
<1>9. QuietStep
  BY <1>1, <1>3, <1>4, <1>5, QuietMove DEF WorkShapes, Disturb
<1> QED
  BY <1>6, <1>7, <1>8, <1>9 DEF WorkInv, WorkStory

LEMMA WriteReportStory ==
    ASSUME WorkInv, NEW s \in Sessions, NEW ok \in BOOLEAN, WriteReport(s, ok)
    PROVE  WorkInv' /\ QuietStep
<1> DEFINE r == mine[s].report
<1>1. s \in Processes /\ WorkShapes /\ WorkStory /\ Go(s, "record") /\ Keep(s, "report", {})
      /\ Disturb(s, ok) /\ "record" \in Stages \ {"context", "continuity"} /\ "report" \in HeldFields
  BY DEF WriteReport, Processes, WorkInv, Stages, HeldFields
<1>2. stage' \in [Processes -> Stages] /\ stage'[s] = "record" /\ (Active \subseteq {s} => Active' \subseteq {s})
  BY <1>1, StageAfter DEF WorkShapes
<1>3. /\ DOMAIN mine' = Processes /\ mine' = [q \in Processes |-> mine'[q]]
      /\ \A q \in Processes : Has(mine'[q], HeldFields)
      /\ (\A q \in Processes \ {s} : mine'[q] = mine[q])
      /\ mine'[s].work = mine[s].work /\ mine'[s].model = mine[s].model
  BY <1>1, HeldAfter DEF HeldFields
<1>4. Has(files', FileFields) /\ files'.history = files.history /\ files'.continuity = files.continuity
      /\ (ok => files'.report = r) /\ files'.record = files.record /\ files'.readable = files.readable
  <2>1. Has(files, FileFields) /\ "report" \in FileFields
        /\ {"continuity", "history", "record", "readable"} \subseteq FileFields \ {"report"}
    BY <1>1 DEF WorkShapes, FileFields
  <2>2. files' = (IF ok THEN [files EXCEPT !.report = r] ELSE files)
    BY DEF WriteReport
  <2> HIDE DEF r
  <2>3. CASE ok
    BY <2>1, <2>2, <2>3, FileAfter
  <2> QED
    BY <2>1, <2>2, <2>3
<1>5. WorkShapes'
  BY <1>1, <1>2, <1>3, <1>4 DEF WorkShapes
<1>6. ASSUME NEW t \in alone' PROVE Undisturbed(t)'
  <2>1. t = s /\ ok /\ Undisturbed(s)
    BY <1>1, <1>6, AloneAfter
  <2>2. stage[s] = "publish"
    BY DEF WriteReport, At
  <2>3. BeforeBuild(s)
    BY <2>1, <2>2 DEF Undisturbed
  <2>4. Own(s)' = Own(s)
    BY <1>3 DEF Own
  <2>5. BeforeBuild(s)'
    BY <1>2, <1>3, <1>4, <2>1, <2>2, <2>3, <2>4 DEF BeforeBuild, ListsOpen
  <2> QED
    BY <1>2, <2>1, <2>5 DEF Undisturbed
<1>7. WorkHeld'
  BY <1>1, <1>3, WorkHeldOn DEF WorkInv, WorkShapes
<1>8. QuietStep
  BY <1>1, <1>3, <1>4, QuietMove DEF WorkShapes, Disturb
<1> QED
  BY <1>5, <1>6, <1>7, <1>8 DEF WorkInv, WorkStory

LEMMA WriteRecordStory ==
    ASSUME WorkInv, NEW s \in Sessions, NEW ok \in BOOLEAN, WriteRecord(s, ok)
    PROVE  WorkInv' /\ QuietStep
<1> DEFINE x == Record(s)
<1>1. s \in Processes /\ WorkShapes /\ WorkStory /\ Go(s, "history") /\ UNCHANGED mine
      /\ Disturb(s, ok) /\ "history" \in Stages \ {"context", "continuity"}
  BY DEF WriteRecord, Processes, WorkInv, Stages
<1>2. stage' \in [Processes -> Stages] /\ stage'[s] = "history" /\ (Active \subseteq {s} => Active' \subseteq {s})
  BY <1>1, StageAfter DEF WorkShapes
<1>3. x.by = s /\ x.work = Own(s)
  BY DEF Record, Own
<1> HIDE DEF x
<1>4. Has(files', FileFields) /\ files'.history = files.history /\ files'.continuity = files.continuity
      /\ files'.report = files.report /\ files'.record = (IF ok THEN {x} ELSE files.record)
      /\ files'.readable = files.readable
  <2>1. Has(files, FileFields) /\ "record" \in FileFields
        /\ {"continuity", "history", "report", "readable"} \subseteq FileFields \ {"record"}
    BY <1>1 DEF WorkShapes, FileFields
  <2>2. files' = (IF ok THEN [files EXCEPT !.record = {x}] ELSE files)
    BY DEF WriteRecord, x
  <2>3. CASE ok
    BY <2>1, <2>2, <2>3, FileAfter
  <2> QED
    BY <2>1, <2>2, <2>3
<1>5. WorkShapes'
  BY <1>1, <1>2, <1>4 DEF WorkShapes
<1>6. ASSUME NEW t \in alone' PROVE Undisturbed(t)'
  <2>1. t = s /\ ok /\ Undisturbed(s)
    BY <1>1, <1>6, AloneAfter
  <2>2. stage[s] = "record"
    BY DEF WriteRecord, At
  <2>3. BeforeBuild(s)
    BY <2>1, <2>2 DEF Undisturbed
  <2>4. Own(s)' = Own(s)
    BY <1>1 DEF Own
  <2>5. BeforeBuild(s)'
    BY <1>1, <1>2, <1>3, <1>4, <2>1, <2>2, <2>3, <2>4 DEF BeforeBuild, ListsOpen
  <2> QED
    BY <1>2, <2>1, <2>5 DEF Undisturbed
<1>7. WorkHeld'
  BY <1>1, WorkHeldOn DEF WorkInv, WorkShapes
<1>8. QuietStep
  BY <1>1, <1>3, <1>4, QuietMove DEF WorkShapes, Disturb
<1> QED
  BY <1>5, <1>6, <1>7, <1>8 DEF WorkInv, WorkStory

LEMMA LoadHistoryStory ==
    ASSUME WorkInv, NEW p \in Processes, LoadHistory(p)
    PROVE  WorkInv'
<1> DEFINE h == IF files.readable THEN files.history ELSE <<>>
<1>1. WorkShapes /\ WorkStory /\ Go(p, "build") /\ Keep(p, "history", h) /\ UNCHANGED files
      /\ Disturb(p, TRUE) /\ "build" \in Stages \ {"context", "continuity"} /\ "history" \in HeldFields
  BY DEF LoadHistory, WorkInv, Stages, HeldFields
<1> HIDE DEF h
<1>2. stage' \in [Processes -> Stages] /\ stage'[p] = "build" /\ (Active \subseteq {p} => Active' \subseteq {p})
  BY <1>1, StageAfter DEF WorkShapes
<1>3. /\ DOMAIN mine' = Processes /\ mine' = [q \in Processes |-> mine'[q]]
      /\ \A q \in Processes : Has(mine'[q], HeldFields)
      /\ (\A q \in Processes \ {p} : mine'[q] = mine[q])
      /\ mine'[p].work = mine[p].work /\ mine'[p].model = mine[p].model
  BY <1>1, HeldAfter DEF HeldFields
<1>4. WorkShapes'
  BY <1>1, <1>2, <1>3 DEF WorkShapes
<1>5. ASSUME NEW t \in alone' PROVE Undisturbed(t)'
  <2>1. t = p /\ Undisturbed(p)
    BY <1>1, <1>5, AloneAfter
  <2>2. stage[p] = "history"
    BY DEF LoadHistory, At
  <2>3. BeforeBuild(p)
    BY <2>1, <2>2 DEF Undisturbed
  <2>4. Own(p)' = Own(p)
    BY <1>3 DEF Own
  <2>5. BeforeBuild(p)'
    BY <1>1, <1>2, <1>3, <2>2, <2>3, <2>4 DEF BeforeBuild, ListsOpen
  <2> QED
    BY <1>2, <2>1, <2>5 DEF Undisturbed
<1>6. WorkHeld'
  BY <1>1, <1>3, WorkHeldOn DEF WorkInv, WorkShapes
<1> QED
  BY <1>4, <1>5, <1>6 DEF WorkInv, WorkStory

LEMMA BuildStory ==
    ASSUME WorkInv, NEW p \in Processes,
           NEW record \in Seen(p, "record"), NEW continuity \in Seen(p, "continuity"),
           NEW packet \in Seen(p, "packet"), NEW pack \in Seen(p, "pack"), NEW report \in Seen(p, "report"),
           Build(p, record, continuity, packet, pack, report)
    PROVE  WorkInv'
<1> DEFINE run == IF p \in Sessions THEN {Record(p)} ELSE record
           drawn == IF report = {} THEN BuildProofReport(continuity, files.tokens, "none") ELSE The(report)
           in == [run |-> run, continuity |-> continuity, packet |-> packet, pack |-> pack,
                  report |-> drawn, history |-> mine[p].history, receipts |-> receipts]
           m == BuildWorkIntelligence(in)
           resumed == ResumePacket(m, continuity)
           held == [Nothing EXCEPT !.model = {m}, !.again = mine[p].again, !.resume = {resumed}]
<1>1. WorkShapes /\ WorkStory /\ Go(p, "latest") /\ UNCHANGED files
      /\ Disturb(p, TRUE) /\ "latest" \in Stages \ {"context", "continuity"}
  BY DEF Build, WorkInv, Stages
<1>2. stage' \in [Processes -> Stages] /\ stage'[p] = "latest" /\ (Active \subseteq {p} => Active' \subseteq {p})
  BY <1>1, StageAfter DEF WorkShapes
<1>3. in.run = run /\ in.report = drawn
  OBVIOUS
<1>4. mine' = [mine EXCEPT ![p] = held]
  BY DEF Build
<1> HIDE DEF in, drawn, run
<1>5. Has(held, HeldFields) /\ held.model = {m} /\ held.resume = {resumed}
  <2> DEFINE again == mine[p].again
             models == {m}
             resumes == {resumed}
  <2>1. held = [Nothing EXCEPT !.model = models, !.again = again, !.resume = resumes]
    OBVIOUS
  <2> HIDE DEF held, again, models, resumes
  <2>2. held = [work |-> {}, prepared |-> FALSE, adapter |-> "none", report |-> {}, reported |-> FALSE,
                history |-> <<>>, model |-> models, resume |-> resumes, again |-> again]
    BY <2>1 DEF Nothing
  <2>3. DOMAIN held = HeldFields /\ held.model = models /\ held.resume = resumes
    BY <2>2 DEF HeldFields
  <2>4. held = [f \in HeldFields |-> held[f]]
    BY <2>2, <2>3
  <2> QED
    BY <2>3, <2>4 DEF Has, models, resumes
<1> HIDE DEF held
<1>6. DOMAIN mine' = Processes /\ mine' = [q \in Processes |-> mine'[q]] /\ mine'[p] = held
      /\ \A q \in Processes \ {p} : mine'[q] = mine[q]
  BY <1>1, <1>4 DEF WorkShapes
<1>7. WorkShapes'
  BY <1>1, <1>2, <1>5, <1>6 DEF WorkShapes
<1>8. ASSUME NEW t \in alone' PROVE Undisturbed(t)'
  <2> DEFINE x == Record(p)
  <2>1. t = p /\ Undisturbed(p) /\ p \in Sessions /\ Active \subseteq {p}
    BY <1>1, <1>8, AloneAfter DEF Undisturbed
  <2>2. stage[p] = "build"
    BY DEF Build, At
  <2>3. BeforeBuild(p)
    BY <2>1, <2>2 DEF Undisturbed
  <2>4. continuity = files.continuity /\ report = files.report
    <3>1. Seen(p, "continuity") = {files.continuity} /\ Seen(p, "report") = {files.report}
      BY <1>1, <2>1, SeenAlone DEF WorkShapes
    <3> QED
      BY <3>1
  <2>5. run = {x} /\ x.by = p /\ x.work = Own(p) /\ x.work \in Works
    BY <2>1, <2>2, <2>3 DEF run, Record, Own, BeforeBuild
  <2>6. x.work.gate = "allow" => drawn.open \in Nat \ {0}
    <3>1. ASSUME Own(p).gate = "allow" PROVE drawn.open \in Nat \ {0}
      <4>1. PICK r : files.report = {r} /\ r.open \in Nat \ {0}
        BY <2>2, <2>3, <3>1 DEF BeforeBuild, ListsOpen
      <4>2. The(report) = r /\ report # {}
        BY <2>4, <4>1, TheOne
      <4> QED
        BY <4>1, <4>2 DEF drawn
    <3> QED
      BY <2>5, <3>1
  <2> HIDE DEF x
  <2>7. m.by = {p} /\ m.gate = Own(p).gate /\ m.outcome # "proved"
    <3>1. OutcomeStatus({x}, ProofStatus({x}, drawn)) # "proved"
      BY <2>5, <2>6, OpenIsNotProved
    <3>2. m.by = {x.by} /\ m.gate = x.work.gate /\ m.outcome = OutcomeStatus({x}, ProofStatus({x}, drawn))
      <4>1. in.run = {x}
        BY <1>3, <2>5
      <4> QED
        BY <1>3, <4>1, ModelOfRecord
    <3> QED
      BY <2>5, <3>1, <3>2
  <2>8. \E y : files.record = {y} /\ y.by = p /\ y.work = Own(p)
    BY <2>2, <2>3 DEF BeforeBuild
  <2>9. AfterBuild(p)'
    <3> HIDE DEF m
    <3>0. PICK n : n = m
      OBVIOUS
    <3>1. mine'[p].model = {n} /\ mine'[p].resume = {ResumePacket(n, files'.continuity)}
      BY <1>1, <1>5, <1>6, <2>4, <3>0
    <3>2. Tells(p, n)'
      BY <1>1, <2>7, <2>8, <3>0 DEF Tells
    <3> QED
      BY <1>2, <3>1, <3>2 DEF AfterBuild
  <2> QED
    BY <1>2, <2>1, <2>9 DEF Undisturbed
<1>9. WorkHeld'
  BY <1>1, <1>6, WorkHeldOn DEF WorkInv, WorkShapes
<1> QED
  BY <1>7, <1>8, <1>9 DEF WorkInv, WorkStory

LEMMA ContinueAfter ==
    ASSUME WorkShapes, NEW p \in Processes, NEW next \in Stages, Continue(p, next)
    PROVE  /\ Go(p, next)
           /\ DOMAIN mine' = Processes /\ mine' = [q \in Processes |-> mine'[q]]
           /\ \A q \in Processes : Has(mine'[q], HeldFields)
           /\ \A q \in Processes \ {p} : mine'[q] = mine[q]
           /\ mine'[p] = IF next = "done" THEN Nothing ELSE mine[p]
<1>1. DOMAIN mine = Processes /\ mine = [q \in Processes |-> mine[q]]
      /\ \A q \in Processes : Has(mine[q], HeldFields)
  BY DEF WorkShapes
<1>2. CASE next = "done"
  BY <1>1, <1>2, NothingShape DEF Continue
<1>3. CASE next # "done"
  BY <1>1, <1>3 DEF Continue
<1> QED
  BY <1>2, <1>3

LEMMA WriteLatestStory ==
    ASSUME WorkInv, NEW p \in Processes, NEW ok \in BOOLEAN, WriteLatest(p, ok)
    PROVE  WorkInv' /\ QuietStep
<1> DEFINE next == IF ok THEN "append" ELSE "done"
           held == mine[p].model
<1>1. WorkShapes /\ WorkStory /\ Continue(p, next) /\ Disturb(p, ok)
      /\ next \in Stages \ {"context", "continuity"}
  BY DEF WriteLatest, WorkInv, Stages
<1>2. /\ Go(p, next) /\ DOMAIN mine' = Processes /\ mine' = [q \in Processes |-> mine'[q]]
      /\ \A q \in Processes : Has(mine'[q], HeldFields)
      /\ \A q \in Processes \ {p} : mine'[q] = mine[q]
      /\ (ok => mine'[p] = mine[p]) /\ (~ok => mine'[p] = Nothing)
  BY <1>1, ContinueAfter
<1>3. stage' \in [Processes -> Stages] /\ stage'[p] = next /\ (Active \subseteq {p} => Active' \subseteq {p})
  BY <1>1, <1>2, StageAfter DEF WorkShapes
<1>4. Has(files', FileFields) /\ files'.history = files.history /\ files'.continuity = files.continuity
      /\ files'.record = files.record /\ files'.readable = files.readable
      /\ (ok => files'.latest = held)
  <2>1. Has(files, FileFields) /\ "latest" \in FileFields
        /\ {"continuity", "history", "record", "readable"} \subseteq FileFields \ {"latest"}
    BY <1>1 DEF WorkShapes, FileFields
  <2>2. files' = (IF ok THEN [files EXCEPT !.latest = held] ELSE files)
    BY DEF WriteLatest
  <2> HIDE DEF held
  <2>3. CASE ok
    BY <2>1, <2>2, <2>3, FileAfter
  <2> QED
    BY <2>1, <2>2, <2>3
<1>5. WorkShapes'
  BY <1>1, <1>2, <1>3, <1>4 DEF WorkShapes
<1>6. ASSUME NEW t \in alone' PROVE Undisturbed(t)'
  <2>1. t = p /\ ok /\ Undisturbed(p)
    BY <1>1, <1>6, AloneAfter
  <2>2. stage[p] = "latest"
    BY DEF WriteLatest, At
  <2>3. PICK m : /\ mine[p].model = {m} /\ Tells(p, m)
                 /\ mine[p].resume = {ResumePacket(m, files.continuity)}
    BY <2>1, <2>2 DEF Undisturbed, AfterBuild
  <2>4. Tells(p, m)'
    BY <1>4, <2>3 DEF Tells
  <2>5. AfterBuild(p)'
    BY <1>2, <1>3, <1>4, <2>1, <2>3, <2>4 DEF AfterBuild
  <2> QED
    BY <1>3, <2>1, <2>5 DEF Undisturbed
<1>7. WorkHeld'
  BY <1>1, <1>2, WorkHeldOn DEF WorkInv, WorkShapes
<1>8. QuietStep
  <2>1. stage[p] = "latest" /\ mine'[p].model \subseteq mine[p].model
    BY <1>2, NothingShape DEF WriteLatest, At
  <2>2. next \notin {"idle", "build"} /\ (next = "append" => mine'[p].model = mine[p].model) /\ next # "latest"
    BY <1>2
  <2> HIDE DEF next
  <2> QED
    BY <1>1, <1>2, <1>4, <2>1, <2>2, QuietMove DEF WorkShapes, Disturb
<1> QED
  BY <1>5, <1>6, <1>7, <1>8 DEF WorkInv, WorkStory

(* What is appended comes last.                                            *)
LEMMA LastOfAppend ==
    ASSUME NEW S, NEW h \in Seq(S), NEW e
    PROVE  /\ Append(h, e) \in Seq(S \cup {e}) /\ Last(Append(h, e)) = e
           /\ Len(Append(h, e)) = Len(h) + 1 /\ Len(h) \in Nat
           /\ \A i \in 1..Len(h) : Append(h, e)[i] = h[i]
<1>1. h \in Seq(S \cup {e})
  OBVIOUS
<1> QED
  BY <1>1 DEF Last

LEMMA AppendHistoryStory ==
    ASSUME WorkInv, NEW p \in Processes, NEW ok \in BOOLEAN, AppendHistory(p, ok)
    PROVE  WorkInv'
<1> DEFINE next == IF ok THEN "resume" ELSE "done"
           e == HistoryEntry(The(mine[p].model))
           longer == Append(files.history, e)
<1>1. WorkShapes /\ WorkStory /\ Continue(p, next) /\ Disturb(p, ok)
      /\ next \in Stages \ {"context", "continuity"}
  BY DEF AppendHistory, WorkInv, Stages
<1>2. /\ Go(p, next) /\ DOMAIN mine' = Processes /\ mine' = [q \in Processes |-> mine'[q]]
      /\ \A q \in Processes : Has(mine'[q], HeldFields)
      /\ \A q \in Processes \ {p} : mine'[q] = mine[q]
      /\ ok => mine'[p] = mine[p]
  BY <1>1, ContinueAfter
<1>3. stage' \in [Processes -> Stages] /\ stage'[p] = next /\ (Active \subseteq {p} => Active' \subseteq {p})
  BY <1>1, <1>2, StageAfter DEF WorkShapes
<1>4. Has(files', FileFields) /\ files'.continuity = files.continuity
      /\ files'.record = files.record /\ files'.latest = files.latest
      /\ files'.history = (IF ok THEN longer ELSE files.history)
  <2>1. Has(files, FileFields) /\ "history" \in FileFields
        /\ {"continuity", "latest", "record"} \subseteq FileFields \ {"history"}
    BY <1>1 DEF WorkShapes, FileFields
  <2>2. files' = (IF ok THEN [files EXCEPT !.history = longer] ELSE files)
    <3>1. "history" \in DOMAIN files
      BY <2>1 DEF Has
    <3> QED
      BY <3>1 DEF AppendHistory
  <2> HIDE DEF longer
  <2>3. CASE ok
    BY <2>1, <2>2, <2>3, FileAfter
  <2> QED
    BY <2>1, <2>2, <2>3
<1> HIDE DEF e
<1>5. (\E S : files'.history \in Seq(S)) /\ (ok => Last(files'.history) = e)
  <2>1. PICK S : files.history \in Seq(S)
    BY <1>1 DEF WorkShapes
  <2>2. longer \in Seq(S \cup {e}) /\ Last(longer) = e
    BY <2>1, LastOfAppend
  <2> HIDE DEF longer
  <2> QED
    BY <1>4, <2>1, <2>2
<1>6. WorkShapes'
  BY <1>1, <1>2, <1>3, <1>4, <1>5 DEF WorkShapes
<1>7. ASSUME NEW t \in alone' PROVE Undisturbed(t)'
  <2>1. t = p /\ ok /\ Undisturbed(p)
    BY <1>1, <1>7, AloneAfter
  <2>2. stage[p] = "append"
    BY DEF AppendHistory, At
  <2>3. PICK m : /\ mine[p].model = {m} /\ Tells(p, m) /\ files.latest = {m}
                 /\ mine[p].resume = {ResumePacket(m, files.continuity)}
    BY <2>1, <2>2 DEF Undisturbed, AfterBuild
  <2>4. Tells(p, m)'
    BY <1>4, <2>3 DEF Tells
  <2>5. e = HistoryEntry(m)
    BY <2>3, TheOne DEF e
  <2>6. AfterBuild(p)'
    BY <1>2, <1>3, <1>4, <1>5, <2>1, <2>3, <2>4, <2>5 DEF AfterBuild
  <2> QED
    BY <1>3, <2>1, <2>6 DEF Undisturbed
<1>8. WorkHeld'
  BY <1>1, <1>2, WorkHeldOn DEF WorkInv, WorkShapes
<1> QED
  BY <1>6, <1>7, <1>8 DEF WorkInv, WorkStory

LEMMA WriteResumeStory ==
    ASSUME WorkInv, NEW p \in Processes, NEW ok \in BOOLEAN, WriteResume(p, ok)
    PROVE  WorkInv' /\ QuietStep
<1> DEFINE next == IF ok /\ p \in Readers /\ ~mine[p].again THEN "show" ELSE "done"
           held == mine[p].resume
<1>1. WorkShapes /\ WorkStory /\ Continue(p, next) /\ Disturb(p, ok)
      /\ next \in Stages \ {"context", "continuity"}
  BY DEF WriteResume, WorkInv, Stages
<1>2. /\ Go(p, next) /\ DOMAIN mine' = Processes /\ mine' = [q \in Processes |-> mine'[q]]
      /\ \A q \in Processes : Has(mine'[q], HeldFields)
      /\ \A q \in Processes \ {p} : mine'[q] = mine[q]
      /\ mine'[p] = IF next = "done" THEN Nothing ELSE mine[p]
  BY <1>1, ContinueAfter
<1>3. stage' \in [Processes -> Stages] /\ stage'[p] = next /\ (Active \subseteq {p} => Active' \subseteq {p})
  BY <1>1, <1>2, StageAfter DEF WorkShapes
<1>4. Has(files', FileFields) /\ files'.history = files.history /\ files'.continuity = files.continuity
      /\ files'.record = files.record /\ files'.latest = files.latest
      /\ files'.readable = files.readable /\ (ok => files'.resume = held)
  <2>1. Has(files, FileFields) /\ "resume" \in FileFields
        /\ {"continuity", "history", "record", "latest", "readable"} \subseteq FileFields \ {"resume"}
    BY <1>1 DEF WorkShapes, FileFields
  <2>2. files' = (IF ok THEN [files EXCEPT !.resume = held] ELSE files)
    BY DEF WriteResume
  <2> HIDE DEF held
  <2>3. CASE ok
    BY <2>1, <2>2, <2>3, FileAfter
  <2> QED
    BY <2>1, <2>2, <2>3
<1>5. WorkShapes'
  BY <1>1, <1>2, <1>3, <1>4 DEF WorkShapes
<1>6. ASSUME NEW t \in alone' PROVE Undisturbed(t)'
  <2>1. t = p /\ ok /\ Undisturbed(p) /\ p \in Sessions
    BY <1>1, <1>6, AloneAfter DEF Undisturbed
  <2>2. stage[p] = "resume" /\ next = "done"
    BY <2>1, ProcessesAssumption DEF WriteResume, At
  <2>3. PICK m : /\ Tells(p, m) /\ files.latest = {m}
                 /\ mine[p].resume = {ResumePacket(m, files.continuity)}
                 /\ HistoryEntry(m) = Last(files.history)
    BY <2>1, <2>2 DEF Undisturbed, AfterBuild
  <2>4. Tells(p, m)'
    BY <1>4, <2>3 DEF Tells
  <2>5. AtEnd(p)'
    BY <1>2, <1>4, <2>1, <2>2, <2>3, <2>4, NothingShape DEF AtEnd
  <2> QED
    BY <1>3, <2>1, <2>2, <2>5 DEF Undisturbed
<1>7. WorkHeld'
  BY <1>1, <1>2, WorkHeldOn DEF WorkInv, WorkShapes
<1>8. QuietStep
  <2>1. mine'[p].model \subseteq mine[p].model
    BY <1>2, NothingShape
  <2>2. next \notin {"idle", "build", "latest", "append"}
    OBVIOUS
  <2> HIDE DEF next
  <2> QED
    BY <1>1, <1>2, <1>4, <2>1, <2>2, QuietMove DEF WorkShapes, Disturb
<1> QED
  BY <1>5, <1>6, <1>7, <1>8 DEF WorkInv, WorkStory

LEMMA LookStory ==
    ASSUME WorkInv, NEW r \in Readers, NEW latest, Look(r, latest)
    PROVE  WorkInv' /\ QuietStep
<1> DEFINE next == IF latest = {} THEN "history" ELSE "show"
<1>1. r \in Processes /\ WorkShapes /\ WorkStory /\ Go(r, next) /\ Disturb(r, TRUE)
      /\ next \in Stages \ {"context", "continuity"} /\ UNCHANGED <<files, mine>> /\ stage[r] = "idle"
  BY DEF Look, WorkInv, Stages, Processes, At
<1>2. stage' \in [Processes -> Stages]
  BY <1>1, StageAfter DEF WorkShapes
<1>3. WorkShapes'
  BY <1>1, <1>2 DEF WorkShapes
<1>4. ASSUME NEW t \in alone' PROVE FALSE
  <2>1. t = r /\ Undisturbed(r)
    BY <1>1, <1>4, AloneAfter
  <2> QED
    BY <1>1, <2>1 DEF Undisturbed
<1>5. WorkHeld'
  BY <1>1, WorkHeldOn DEF WorkInv, WorkShapes
<1>6. QuietStep
  <2>1. next \notin {"idle", "build", "latest", "append"}
    OBVIOUS
  <2> HIDE DEF next
  <2> QED
    BY <1>1, <2>1, QuietMove DEF WorkShapes, Disturb
<1> QED
  BY <1>3, <1>4, <1>5, <1>6 DEF WorkInv, WorkStory

LEMMA ShowStory ==
    ASSUME WorkInv, NEW r \in Readers, NEW resume, Show(r, resume)
    PROVE  WorkInv' /\ QuietStep
<1> DEFINE next == IF resume = {} THEN "history" ELSE "done"
           value == (resume = {})
<1>1. r \in Processes /\ WorkShapes /\ WorkStory /\ Go(r, next) /\ Disturb(r, TRUE)
      /\ next \in Stages \ {"context", "continuity"} /\ UNCHANGED files /\ stage[r] = "show"
      /\ "again" \in HeldFields
  BY DEF Show, WorkInv, Stages, Processes, At, HeldFields
<1>2. stage' \in [Processes -> Stages]
  BY <1>1, StageAfter DEF WorkShapes
<1>3. Keep(r, "again", value)
  BY DEF Show, Keep
<1> HIDE DEF value
<1>4. /\ DOMAIN mine' = Processes /\ mine' = [q \in Processes |-> mine'[q]]
      /\ \A q \in Processes : Has(mine'[q], HeldFields)
      /\ (\A q \in Processes \ {r} : mine'[q] = mine[q]) /\ mine'[r].model = mine[r].model
  BY <1>1, <1>3, HeldAfter DEF HeldFields
<1>5. WorkShapes'
  BY <1>1, <1>2, <1>4 DEF WorkShapes
<1>6. ASSUME NEW t \in alone' PROVE FALSE
  <2>1. t = r /\ Undisturbed(r)
    BY <1>1, <1>6, AloneAfter
  <2> QED
    BY <1>1, <2>1 DEF Undisturbed
<1>7. WorkHeld'
  BY <1>1, <1>4, WorkHeldOn DEF WorkInv, WorkShapes
<1>8. QuietStep
  <2>1. next \notin {"idle", "build", "latest", "append"}
    OBVIOUS
  <2> HIDE DEF next
  <2> QED
    BY <1>1, <1>4, <2>1, QuietMove DEF WorkShapes, Disturb
<1> QED
  BY <1>5, <1>6, <1>7, <1>8 DEF WorkInv, WorkStory

(* A command that writes one file leaves nobody alone.                     *)
LEMMA CommandStory ==
    ASSUME WorkInv, NEW name \in FileFields \ {"history", "record", "readable"}, NEW value,
           files' = [files EXCEPT ![name] = value],
           name = "continuity" => AtMostOne(value, Packets),
           alone' = {}, UNCHANGED <<stage, mine>>
    PROVE  WorkInv' /\ QuietStep
<1>1. Has(files, FileFields) /\ {"history", "continuity", "record", "readable"} \subseteq FileFields
  BY DEF WorkInv, WorkShapes, FileFields
<1>2. Has(files', FileFields) /\ files'[name] = value /\ \A f \in FileFields \ {name} : files'[f] = files[f]
  BY <1>1, FileAfter
<1>3. files'.history = files.history /\ files'.record = files.record /\ files'.readable = files.readable
  BY <1>1, <1>2
<1>4. files'.continuity = files.continuity \/ AtMostOne(files'.continuity, Packets)
  BY <1>1, <1>2
<1>5. WorkShapes'
  BY <1>2, <1>3, <1>4 DEF WorkInv, WorkShapes
<1>6. WorkHeld'
  BY DEF WorkInv, WorkHeld
<1>7. QuietStep
  BY <1>3 DEF QuietStep
<1> QED
  BY <1>5, <1>6, <1>7 DEF WorkInv, WorkStory

LEMMA PrepareStory ==
    ASSUME WorkInv, NEW w \in Works, Prepare(w)
    PROVE  WorkInv' /\ QuietStep
<1> DEFINE value == {PrepareContinuity(w)}
<1>1. AtMostOne(value, Packets)
  BY PreparedTyped DEF AtMostOne
<1>2. files' = [files EXCEPT !.continuity = value] /\ alone' = {} /\ UNCHANGED <<stage, mine>>
  BY DEF Prepare
<1>3. "continuity" \in FileFields \ {"history", "record", "readable"}
  BY DEF FileFields
<1> HIDE DEF value
<1> QED
  BY <1>1, <1>2, <1>3, CommandStory

LEMMA ReportBuildStory ==
    ASSUME WorkInv, ReportBuild
    PROVE  WorkInv' /\ QuietStep
<1> DEFINE value == {BuildProofReport(files.continuity, files.tokens, "none")}
<1>1. files' = [files EXCEPT !.report = value] /\ alone' = {} /\ UNCHANGED <<stage, mine>>
  BY DEF ReportBuild
<1>2. "report" \in FileFields \ {"history", "record", "readable"} /\ "report" # "continuity"
  BY DEF FileFields
<1> HIDE DEF value
<1> QED
  BY <1>1, <1>2, CommandStory

(* A packet that expired is one with the same gaps.                        *)
LEMMA Expired ==
    ASSUME NEW c \in Packets
    PROVE  LET d == [c EXCEPT !.fresh = FALSE] IN d \in Packets /\ d.missing = c.missing
  BY DEF Packets, NextRunContinuityPackets

LEMMA DayPassesStory ==
    ASSUME WorkInv, DayPasses
    PROVE  WorkInv' /\ QuietStep
<1> DEFINE value == {[c EXCEPT !.fresh = FALSE] : c \in files.continuity}
<1>1. PICK c \in Packets : files.continuity = {c}
  BY DEF DayPasses, WorkInv, WorkShapes, AtMostOne
<1>2. PICK d : d = [c EXCEPT !.fresh = FALSE]
  OBVIOUS
<1>3. d \in Packets /\ d.missing = c.missing
  BY <1>2, Expired
<1>4. value = {d}
  BY <1>1, <1>2
<1>5. Has(files', FileFields) /\ files'.continuity = {d} /\ files'.record = files.record
      /\ files'.latest = files.latest /\ files'.resume = files.resume /\ files'.history = files.history
      /\ files'.readable = files.readable
  <2>1. Has(files, FileFields) /\ "continuity" \in FileFields
        /\ {"history", "record", "latest", "resume", "readable"} \subseteq FileFields \ {"continuity"}
    BY DEF WorkInv, WorkShapes, FileFields
  <2>2. files' = [files EXCEPT !.continuity = value]
    <3>1. "continuity" \in DOMAIN files
      BY <2>1 DEF Has
    <3> QED
      BY <3>1 DEF DayPasses
  <2> HIDE DEF value
  <2>3. Has(files', FileFields) /\ files'.continuity = value
        /\ \A f \in FileFields \ {"continuity"} : files'[f] = files[f]
    BY <2>1, <2>2, FileAfter
  <2> QED
    BY <1>4, <2>1, <2>3
<1>6. UNCHANGED <<stage, mine, alone>> /\ Active = {}
  BY DEF DayPasses
<1>7. WorkShapes'
  BY <1>3, <1>5, <1>6 DEF WorkInv, WorkShapes, AtMostOne
<1>8. ASSUME NEW t \in alone' PROVE Undisturbed(t)'
  <2>1. Undisturbed(t)
    BY <1>6, <1>8 DEF WorkInv, WorkStory
  <2>2. stage[t] = "done"
    BY <1>6, <2>1 DEF Undisturbed, Active, Processes
  <2>3. PICK m : /\ files.latest = {m} /\ Tells(t, m) /\ HistoryEntry(m) = Last(files.history)
                 /\ files.resume = {ResumePacket(m, files.continuity)} /\ mine[t].model = {}
    BY <2>1, <2>2 DEF Undisturbed, AtEnd
  <2>4. Tells(t, m)'
    BY <1>5, <2>3 DEF Tells
  <2>5. ResumePacket(m, {c}) = ResumePacket(m, {d})
    BY <1>3, TheOne DEF ResumePacket
  <2>6. AtEnd(t)'
    BY <1>1, <1>5, <1>6, <2>3, <2>4, <2>5 DEF AtEnd
  <2> QED
    BY <1>6, <2>1, <2>2, <2>6 DEF Undisturbed, Active
<1>9. WorkHeld'
  BY <1>6 DEF WorkInv, WorkHeld
<1>10. QuietStep
  BY <1>5, <1>6 DEF QuietStep
<1> QED
  BY <1>7, <1>8, <1>9, <1>10 DEF WorkInv, WorkStory

LEMMA KillStory ==
    ASSUME WorkInv, NEW p \in Processes, Kill(p)
    PROVE  WorkInv' /\ QuietStep
<1>1. WorkShapes /\ WorkStory /\ Continue(p, "done") /\ Disturb(p, FALSE)
      /\ "done" \in Stages \ {"context", "continuity"}
  BY DEF Kill, WorkInv, Stages
<1>2. /\ Go(p, "done") /\ DOMAIN mine' = Processes /\ mine' = [q \in Processes |-> mine'[q]]
      /\ \A q \in Processes : Has(mine'[q], HeldFields)
      /\ (\A q \in Processes \ {p} : mine'[q] = mine[q]) /\ mine'[p] = Nothing
  BY <1>1, ContinueAfter
<1>3. stage' \in [Processes -> Stages]
  BY <1>1, <1>2, StageAfter DEF WorkShapes
<1>4. Has(files', FileFields) /\ files'.history = files.history /\ AtMostOne(files'.continuity, Packets)
      /\ (files'.readable = files.readable \/ files'.readable = FALSE) /\ files'.record \subseteq files.record
  <2>1. Has(files, FileFields) /\ AtMostOne(files.continuity, Packets)
        /\ {"history", "continuity", "record", "readable"} \subseteq FileFields
    BY <1>1 DEF WorkShapes, FileFields
  <2>2. ASSUME NEW name \in FileFields \ {"history"}, NEW value,
               files' = [files EXCEPT ![name] = value], name \in {"continuity", "record"} => value = {},
               name = "readable" => value = FALSE
        PROVE  Has(files', FileFields) /\ files'.history = files.history
               /\ AtMostOne(files'.continuity, Packets)
               /\ (files'.readable = files.readable \/ files'.readable = FALSE)
               /\ files'.record \subseteq files.record
    <3>1. Has(files', FileFields) /\ files'[name] = value
          /\ \A f \in FileFields \ {name} : files'[f] = files[f]
      BY <2>1, <2>2, FileAfter
    <3> QED
      BY <2>1, <2>2, <3>1 DEF AtMostOne
  <2>3. CASE files' = files
    BY <2>1, <2>3
  <2>4. CASE \E name \in Writing(p) : files' = [files EXCEPT ![name] = {}]
    <3>1. PICK name \in Writing(p) : files' = [files EXCEPT ![name] = {}]
      BY <2>4
    <3>2. name \in FileFields \ {"history", "readable"}
      BY <3>1 DEF Writing, Writes, FileFields
    <3> QED
      BY <3>1, <3>2, <2>2
  <2>5. CASE files' = [files EXCEPT !.readable = FALSE]
    <3>1. "readable" \in FileFields \ {"history"} /\ "readable" \notin {"continuity", "record"}
      BY DEF FileFields
    <3> QED
      BY <2>5, <3>1, <2>2
  <2> QED
    BY <2>3, <2>4, <2>5 DEF Kill
<1>5. WorkShapes'
  BY <1>1, <1>2, <1>3, <1>4 DEF WorkShapes
<1>6. ASSUME NEW t \in alone' PROVE FALSE
  BY <1>1, <1>6, AloneAfter
<1>7. WorkHeld'
  BY <1>1, <1>2, WorkHeldOn DEF WorkInv, WorkShapes
<1>8. QuietStep
  BY <1>1, <1>2, <1>4, NothingShape, QuietMove DEF WorkShapes, Disturb
<1> QED
  BY <1>5, <1>6, <1>7, <1>8 DEF WorkInv, WorkStory

LEMMA WorkStep == WorkInv /\ [WorkNext]_workVars => WorkInv'
<1> SUFFICES ASSUME WorkInv, [WorkNext]_workVars PROVE WorkInv'
  OBVIOUS
<1>1. CASE UNCHANGED workVars
  <2>1. WorkShapes'
    BY <1>1 DEF WorkInv, WorkShapes, workVars
  <2>2. WorkHeld'
    BY <1>1 DEF WorkInv, WorkHeld, workVars
  <2>3. ASSUME NEW t \in alone' PROVE Undisturbed(t)'
    <3>1. Undisturbed(t)
      BY <1>1, <2>3 DEF WorkInv, WorkStory, workVars
    <3>2. (BeforeBuild(t) => BeforeBuild(t)') /\ (AfterBuild(t) => AfterBuild(t)') /\ (AtEnd(t) => AtEnd(t)')
      BY <1>1 DEF BeforeBuild, AfterBuild, AtEnd, Tells, Own, workVars
    <3> QED
      BY <1>1, <3>1, <3>2 DEF Undisturbed, Active, workVars
  <2> QED
    BY <2>1, <2>2, <2>3 DEF WorkInv, WorkStory
<1>2. ASSUME NEW p \in Processes, Upsert(p) PROVE WorkInv'
  <2>1. CASE LoadHistory(p)
    BY <2>1, LoadHistoryStory
  <2>2. ASSUME NEW record \in Seen(p, "record"), NEW continuity \in Seen(p, "continuity"),
               NEW packet \in Seen(p, "packet"), NEW pack \in Seen(p, "pack"), NEW report \in Seen(p, "report"),
               Build(p, record, continuity, packet, pack, report)
        PROVE  WorkInv'
    BY <2>2, BuildStory
  <2>3. ASSUME NEW ok \in BOOLEAN, WriteLatest(p, ok) \/ AppendHistory(p, ok) \/ WriteResume(p, ok)
        PROVE  WorkInv'
    BY <2>3, WriteLatestStory, AppendHistoryStory, WriteResumeStory
  <2>4. CASE Kill(p)
    BY <2>4, KillStory
  <2> QED
    BY <1>2, <2>1, <2>2, <2>3, <2>4 DEF Upsert
<1>3. ASSUME NEW s \in Sessions, SessionStep(s) PROVE WorkInv'
  <2>1. ASSUME NEW w \in Works, StartSession(s, w) PROVE WorkInv'
    BY <2>1, StartStory
  <2>2. ASSUME NEW ok \in BOOLEAN,
               WriteContext(s, ok) \/ WriteContinuity(s, ok) \/ WriteReport(s, ok) \/ WriteRecord(s, ok)
        PROVE  WorkInv'
    BY <2>2, WriteContextStory, WriteContinuityStory, WriteReportStory, WriteRecordStory
  <2>3. ASSUME NEW adapter \in Adapters, NEW continuity \in Seen(s, "continuity"),
               BuildReport(s, adapter, continuity)
        PROVE  WorkInv'
    BY <2>3, BuildReportStory
  <2> QED
    BY <1>3, <2>1, <2>2, <2>3 DEF SessionStep
<1>4. ASSUME NEW r \in Readers, ReaderStep(r) PROVE WorkInv'
  BY <1>4, LookStory, ShowStory DEF ReaderStep
<1>5. ASSUME NEW w \in Works, Prepare(w) PROVE WorkInv'
  BY <1>5, PrepareStory
<1>6. CASE ReportBuild
  BY <1>6, ReportBuildStory
<1>7. CASE DayPasses
  BY <1>7, DayPassesStory
<1> QED
  BY <1>1, <1>2, <1>3, <1>4, <1>5, <1>6, <1>7 DEF WorkNext

(* Whatever the works, the sessions and the readers, and however many of   *)
(* them are at work: a session that nobody disturbed and that lost no      *)
(* write holds no work intelligence that calls its work proved.            *)
THEOREM UndisturbedWorkStaysOpen == WorkSpec => []AloneStaysOpen
<1>1. WorkInv => AloneStaysOpen
  <2> SUFFICES ASSUME WorkInv, NEW s \in alone, NEW m \in mine[s].model
               PROVE  m.by = {s} /\ m.outcome # "proved"
    BY DEF AloneStaysOpen
  <2>1. Undisturbed(s) /\ stage[s] \in Stages
    BY DEF WorkInv, WorkStory, WorkShapes, Undisturbed, Processes
  <2> QED
    BY <2>1 DEF Undisturbed, Stages, BeforeBuild, AfterBuild, AtEnd, Tells
<1> QED
  BY <1>1, InitStory, WorkStep, PTL DEF WorkSpec

(* And once it is done, the record, the work intelligence, the resume      *)
(* packet and the last line of the history tell the same of it.            *)
THEOREM UndisturbedFilesAgree == WorkSpec => []FilesTellOneStory
<1>1. WorkInv => FilesTellOneStory
  <2> SUFFICES ASSUME WorkInv, NEW s \in alone, At(s, "done")
               PROVE  LET shown == BuildControlCenter
                      IN /\ shown.work.by = {s}
                         /\ \E x \in shown.runtime : x.by = s /\ x.gate = shown.work.gate
                         /\ HistoryEntry(shown.work) = Last(files.history)
                         /\ files.resume = {ResumePacket(shown.work, files.continuity)}
    BY DEF FilesTellOneStory
  <2>1. PICK m : /\ files.latest = {m} /\ Tells(s, m) /\ HistoryEntry(m) = Last(files.history)
                 /\ files.resume = {ResumePacket(m, files.continuity)}
    BY DEF WorkInv, WorkStory, Undisturbed, AtEnd, At
  <2>2. PICK x : files.record = {x} /\ x.by = s /\ x.work.gate = m.gate
    BY <2>1 DEF Tells
  <2>3. WorkSection = m
    BY <2>1, TheOne DEF WorkSection
  <2>4. BuildControlCenter.work = m
        /\ BuildControlCenter.runtime = {[by |-> y.by, gate |-> y.work.gate, adapter |-> y.adapter] : y \in files.record}
    BY <2>3 DEF BuildControlCenter
  <2>5. \E y \in BuildControlCenter.runtime : y.by = s /\ y.gate = m.gate
    <3> DEFINE z == [by |-> x.by, gate |-> x.work.gate, adapter |-> x.adapter]
    <3>1. z.by = s /\ z.gate = m.gate
      BY <2>2
    <3>2. z \in {[by |-> y.by, gate |-> y.work.gate, adapter |-> y.adapter] : y \in files.record}
      BY <2>2
    <3> HIDE DEF z, BuildControlCenter
    <3> QED
      BY <2>4, <3>1, <3>2
  <2> HIDE DEF BuildControlCenter
  <2> QED
    BY <2>1, <2>4, <2>5 DEF Tells
<1> QED
  BY <1>1, InitStory, WorkStep, PTL DEF WorkSpec

(***************************************************************************)
(* What the history counts                                                 *)
(***************************************************************************)

(* Where a history says that o was left unproved.                          *)
Unproved(history, o) == {j \in DOMAIN history : history[j].objective = o /\ history[j].outcome # "proved"}
Times(history, o) == Cardinality(Unproved(history, o))
StoredAsItIs(o) == o \notin {"redacted", "no recorded objective"}

(* What was loaded of the history is in it still.                          *)
LoadedIsThere ==
    \A p \in Processes : stage[p] = "build" =>
        \A i \in DOMAIN mine[p].history :
            i \in DOMAIN files.history /\ mine[p].history[i] = files.history[i]

ModelHeld == \A p \in Processes : stage[p] \in {"latest", "append"} => \E m : mine[p].model = {m}

(* Nobody holds a count of attempts beyond those in the history.           *)
CountIsThere ==
    \A p \in Processes : stage[p] \in {"latest", "append"} =>
        \A m \in mine[p].model : StoredAsItIs(m.objective) =>
            m.repeated \in Nat /\ m.repeated <= Times(files.history, m.objective)

(* And an undisturbed session has them all, if the history can be read.    *)
AloneMissesNone ==
    \A s \in alone : files.readable =>
        /\ stage[s] = "build" => mine[s].history = files.history
        /\ stage[s] \in {"latest", "append"} =>
              \A m \in mine[s].model :
                  StoredAsItIs(m.objective) => m.repeated = Times(files.history, m.objective)

(* A session that has not begun has left nothing behind.                   *)
LeavesNoTrace ==
    \A s \in Sessions : stage[s] = "idle" =>
        /\ \A x \in files.record : x.by # s
        /\ \A i \in DOMAIN files.history : s \notin files.history[i].by
        /\ \A p \in Processes : \A m \in mine[p].model : s \notin m.by

CountInv == LoadedIsThere /\ ModelHeld /\ CountIsThere /\ AloneMissesNone /\ LeavesNoTrace /\ RepeatsCounted

LEMMA InitCount == WorkInit => CountInv
<1> SUFFICES ASSUME WorkInit PROVE CountInv
  OBVIOUS
<1>1. files.record = {} /\ files.history = <<>> /\ alone = {}
      /\ \A p \in Processes : stage[p] = "idle" /\ mine[p].model = {}
  BY NothingShape DEF WorkInit, NoFiles
<1> QED
  BY <1>1 DEF CountInv, LoadedIsThere, ModelHeld, CountIsThere, AloneMissesNone, LeavesNoTrace, RepeatsCounted

(* Most steps count nothing.                                               *)
LEMMA QuietCount ==
    ASSUME WorkInv, WorkStory', CountInv, QuietStep
    PROVE  CountInv'
<1>1. LoadedIsThere'
  BY DEF CountInv, LoadedIsThere, QuietStep
<1>0. ModelHeld'
  BY DEF CountInv, ModelHeld, QuietStep
<1>2. CountIsThere'
  BY DEF CountInv, CountIsThere, QuietStep
<1>3. AloneMissesNone'
  <2> SUFFICES ASSUME NEW s \in alone', files'.readable
               PROVE  /\ stage'[s] = "build" => mine'[s].history = files'.history
                      /\ stage'[s] \in {"latest", "append"} =>
                            \A m \in mine'[s].model :
                                StoredAsItIs(m.objective) => m.repeated = Times(files'.history, m.objective)
    BY DEF AloneMissesNone
  <2>1. files.readable /\ s \in Processes
    BY DEF QuietStep, WorkStory, Undisturbed, Processes
  <2>2. CASE s \in alone
    BY <2>1, <2>2 DEF CountInv, AloneMissesNone, QuietStep
  <2>3. CASE stage'[s] \in {"context", "record"}
    BY <2>3
  <2> QED
    BY <2>2, <2>3 DEF QuietStep
<1>4. LeavesNoTrace'
  <2> SUFFICES ASSUME NEW s \in Sessions, stage'[s] = "idle"
               PROVE  /\ \A x \in files'.record : x.by # s
                      /\ \A i \in DOMAIN files'.history : s \notin files'.history[i].by
                      /\ \A p \in Processes : \A m \in mine'[p].model : s \notin m.by
    BY DEF LeavesNoTrace
  <2>1. stage[s] = "idle"
    BY DEF QuietStep, Processes
  <2> QED
    BY <2>1 DEF CountInv, LeavesNoTrace, QuietStep
<1>5. RepeatsCounted'
  <2> SUFFICES ASSUME NEW i \in DOMAIN files'.history
               PROVE  LET e == files'.history[i]
                          earlier == {j \in 1..(i - 1) : /\ files'.history[j].objective = e.objective
                                                         /\ files'.history[j].outcome # "proved"}
                      IN e.objective \notin {"redacted", "no recorded objective"} =>
                           /\ e.repeated <= Cardinality(earlier)
                           /\ e.by \cap alone' # {} /\ files'.readable => e.repeated = Cardinality(earlier)
    BY DEF RepeatsCounted
  <2>1. files'.history = files.history /\ (files'.readable => files.readable)
    BY DEF QuietStep
  <2>2. ASSUME NEW s \in files.history[i].by, s \in alone' PROVE s \in alone
    <3>1. s \in Sessions
      BY <2>2 DEF WorkStory, Undisturbed
    <3>2. stage[s] # "idle"
      BY <2>1, <2>2, <3>1 DEF CountInv, LeavesNoTrace
    <3> QED
      BY <2>2, <3>2 DEF QuietStep
  <2> QED
    BY <2>1, <2>2 DEF CountInv, RepeatsCounted
<1> QED
  BY <1>0, <1>1, <1>2, <1>3, <1>4, <1>5 DEF CountInv

LEMMA TimesTyped ==
    ASSUME NEW S, NEW h \in Seq(S), NEW o
    PROVE  IsFiniteSet(Unproved(h, o)) /\ Times(h, o) \in Nat
<1>1. Unproved(h, o) \subseteq 1..Len(h) /\ Len(h) \in Nat
  BY DEF Unproved
<1>2. IsFiniteSet(1..Len(h))
  BY <1>1, FS_Interval
<1>3. IsFiniteSet(Unproved(h, o))
  BY <1>1, <1>2, FS_Subset
<1> QED
  BY <1>3, FS_CardinalityType DEF Times

(* What is in a history counts for no more than the history.               *)
LEMMA TimesOlder ==
    ASSUME NEW S, NEW h \in Seq(S), NEW k, \A i \in DOMAIN k : i \in DOMAIN h /\ k[i] = h[i], NEW o
    PROVE  Times(k, o) \in Nat /\ Times(k, o) <= Times(h, o)
<1>1. IsFiniteSet(Unproved(h, o))
  BY TimesTyped
<1>2. Unproved(k, o) \subseteq Unproved(h, o)
  BY DEF Unproved
<1>3. IsFiniteSet(Unproved(k, o)) /\ Cardinality(Unproved(k, o)) <= Cardinality(Unproved(h, o))
  BY <1>1, <1>2, FS_Subset
<1>4. Cardinality(Unproved(k, o)) \in Nat
  BY <1>3, FS_CardinalityType
<1> QED
  BY <1>3, <1>4 DEF Times

(* The work intelligence counts what it was given of the history, under    *)
(* the objective it stores, if it stores it as it is.                      *)
LEMMA ModelCounts ==
    ASSUME NEW in
    PROVE  LET m == BuildWorkIntelligence(in)
           IN /\ m.by = {x.by : x \in in.run}
              /\ StoredAsItIs(m.objective) => m.repeated = Times(in.history, m.objective)
<1> DEFINE m == BuildWorkIntelligence(in)
           subject == Subject(in.run, in.continuity)
<1>1. m.by = {x.by : x \in in.run} /\ m.objective = Remembered(subject)
      /\ m.repeated = RepeatedSetups(subject, in.history)
  BY DEF BuildWorkIntelligence
<1> HIDE DEF m, subject
<1>2. StoredAsItIs(Remembered(subject)) => Remembered(subject) = LookedUp(subject)
  BY DEF StoredAsItIs, Remembered, LookedUp
<1>3. RepeatedSetups(subject, in.history) = Times(in.history, LookedUp(subject))
  BY DEF RepeatedSetups, Times, Unproved
<1>4. m.by = {x.by : x \in in.run} /\ (StoredAsItIs(m.objective) => m.repeated = Times(in.history, m.objective))
  BY <1>1, <1>2, <1>3
<1> QED
  BY <1>4 DEF m

(* The history is as it was: what was told of it is true still.            *)
LEMMA HistoryKept ==
    ASSUME CountInv, UNCHANGED files, alone' \subseteq alone
    PROVE  RepeatsCounted'
  BY DEF CountInv, RepeatsCounted

LEMMA LoadHistoryCount ==
    ASSUME WorkInv, CountInv, NEW p \in Processes, LoadHistory(p)
    PROVE  CountInv'
<1> DEFINE h == IF files.readable THEN files.history ELSE <<>>
<1>1. WorkShapes /\ WorkStory /\ Go(p, "build") /\ Keep(p, "history", h) /\ UNCHANGED files
      /\ Disturb(p, TRUE) /\ "build" \in Stages /\ "history" \in HeldFields
  BY DEF LoadHistory, WorkInv, Stages, HeldFields
<1>2. stage' \in [Processes -> Stages] /\ stage'[p] = "build"
      /\ \A q \in Processes \ {p} : stage'[q] = stage[q]
  BY <1>1, StageAfter DEF WorkShapes
<1>3. /\ mine'[p].history = h /\ mine'[p].model = mine[p].model
      /\ \A q \in Processes \ {p} : mine'[q] = mine[q]
  <2> HIDE DEF h
  <2> QED
    BY <1>1, HeldAfter DEF HeldFields
<1>4. LoadedIsThere'
  BY <1>1, <1>2, <1>3 DEF CountInv, LoadedIsThere
<1>5. ModelHeld' /\ CountIsThere'
  BY <1>1, <1>2, <1>3 DEF CountInv, ModelHeld, CountIsThere
<1>6. AloneMissesNone'
  <2>1. \A s \in alone' : s = p
    BY <1>1, AloneAfter
  <2> QED
    BY <1>1, <1>2, <1>3, <2>1 DEF AloneMissesNone
<1>7. LeavesNoTrace'
  <2>1. \A q \in Processes : mine'[q].model = mine[q].model
    BY <1>3
  <2> QED
    BY <1>1, <1>2, <2>1 DEF CountInv, LeavesNoTrace, Processes
<1>8. RepeatsCounted'
  BY <1>1, HistoryKept DEF Disturb
<1> QED
  BY <1>4, <1>5, <1>6, <1>7, <1>8 DEF CountInv

LEMMA BuildCount ==
    ASSUME WorkInv, CountInv, NEW p \in Processes,
           NEW record \in Seen(p, "record"), NEW continuity, NEW packet, NEW pack, NEW report,
           Build(p, record, continuity, packet, pack, report)
    PROVE  CountInv'
<1> DEFINE run == IF p \in Sessions THEN {Record(p)} ELSE record
           drawn == IF report = {} THEN BuildProofReport(continuity, files.tokens, "none") ELSE The(report)
           in == [run |-> run, continuity |-> continuity, packet |-> packet, pack |-> pack,
                  report |-> drawn, history |-> mine[p].history, receipts |-> receipts]
           m == BuildWorkIntelligence(in)
           held == [Nothing EXCEPT !.model = {m}, !.again = mine[p].again, !.resume = {ResumePacket(m, continuity)}]
<1>1. WorkShapes /\ WorkStory /\ Go(p, "latest") /\ UNCHANGED files /\ Disturb(p, TRUE) /\ "latest" \in Stages
      /\ stage[p] = "build"
  BY DEF Build, WorkInv, Stages, At
<1>2. stage' \in [Processes -> Stages] /\ stage'[p] = "latest"
      /\ \A q \in Processes \ {p} : stage'[q] = stage[q]
  BY <1>1, StageAfter DEF WorkShapes
<1>3. mine' = [mine EXCEPT ![p] = held]
  BY DEF Build
<1>4. in.run = run /\ in.history = mine[p].history
  OBVIOUS
<1> HIDE DEF in, drawn
<1>5. held.model = {m}
  BY DEF Nothing
<1> HIDE DEF held
<1>6. m.by = {x.by : x \in run} /\ (StoredAsItIs(m.objective) => m.repeated = Times(mine[p].history, m.objective))
  BY <1>4, ModelCounts
<1> HIDE DEF m
<1>7. mine'[p].model = {m} /\ \A q \in Processes \ {p} : mine'[q] = mine[q]
  BY <1>1, <1>3, <1>5 DEF WorkShapes
<1>8. PICK n : n = m
  OBVIOUS
<1>9. PICK S : files.history \in Seq(S)
  BY <1>1 DEF WorkShapes
<1>10. StoredAsItIs(n.objective) =>
         /\ n.repeated \in Nat /\ n.repeated <= Times(files.history, n.objective)
         /\ p \in alone /\ files.readable => n.repeated = Times(files.history, n.objective)
  <2>1. \A i \in DOMAIN mine[p].history : i \in DOMAIN files.history /\ mine[p].history[i] = files.history[i]
    BY <1>1 DEF CountInv, LoadedIsThere
  <2>2. Times(mine[p].history, n.objective) \in Nat
        /\ Times(mine[p].history, n.objective) <= Times(files.history, n.objective)
    BY <1>9, <2>1, TimesOlder
  <2>3. p \in alone /\ files.readable => mine[p].history = files.history
    BY <1>1 DEF CountInv, AloneMissesNone
  <2> QED
    BY <1>6, <1>8, <2>2, <2>3
<1>11. LoadedIsThere'
  BY <1>1, <1>2, <1>7 DEF CountInv, LoadedIsThere
<1>12. ModelHeld' /\ CountIsThere'
  <2>1. mine'[p].model = {n}
    BY <1>7, <1>8
  <2> QED
    BY <1>1, <1>2, <1>7, <1>10, <2>1 DEF CountInv, ModelHeld, CountIsThere
<1>13. AloneMissesNone'
  <2>1. \A s \in alone' : s = p /\ s \in alone
    BY <1>1, AloneAfter
  <2>2. mine'[p].model = {n}
    BY <1>7, <1>8
  <2> QED
    BY <1>1, <1>2, <1>10, <2>1, <2>2 DEF AloneMissesNone
<1>14. LeavesNoTrace'
  <2> SUFFICES ASSUME NEW s \in Sessions, stage'[s] = "idle"
               PROVE  /\ \A x \in files'.record : x.by # s
                      /\ \A i \in DOMAIN files'.history : s \notin files'.history[i].by
                      /\ \A q \in Processes : \A o \in mine'[q].model : s \notin o.by
    BY DEF LeavesNoTrace
  <2>1. s # p /\ stage[s] = "idle"
    BY <1>2 DEF Processes
  <2>2. \A x \in run : x.by # s
    <3>1. CASE p \in Sessions
      BY <2>1, <3>1 DEF Record
    <3>2. CASE p \notin Sessions
      BY <2>1, <3>2 DEF Seen, CountInv, LeavesNoTrace
    <3> QED
      BY <3>1, <3>2
  <2> HIDE DEF run
  <2>3. s \notin m.by
    BY <1>6, <2>2
  <2> QED
    BY <1>1, <1>7, <2>1, <2>3 DEF CountInv, LeavesNoTrace
<1>15. RepeatsCounted'
  BY <1>1, HistoryKept DEF Disturb
<1> QED
  BY <1>11, <1>12, <1>13, <1>14, <1>15 DEF CountInv

LEMMA AppendHistoryCount ==
    ASSUME WorkInv, WorkInv', CountInv, NEW p \in Processes, NEW ok \in BOOLEAN, AppendHistory(p, ok)
    PROVE  CountInv'
<1> DEFINE e == HistoryEntry(The(mine[p].model))
           old == files.history
           longer == Append(old, e)
           next == IF ok THEN "resume" ELSE "done"
<1>1. WorkShapes /\ WorkStory /\ Continue(p, next) /\ Disturb(p, ok) /\ next \in Stages /\ stage[p] = "append"
  BY DEF AppendHistory, WorkInv, Stages, At
<1>2. /\ Go(p, next) /\ \A q \in Processes \ {p} : mine'[q] = mine[q]
      /\ mine'[p] = IF next = "done" THEN Nothing ELSE mine[p]
  BY <1>1, ContinueAfter
<1>3. CASE ~ok
  <2>1. UNCHANGED files
    BY <1>3 DEF AppendHistory
  <2>2. next = "done" /\ mine'[p].model \subseteq mine[p].model
    BY <1>2, <1>3, NothingShape
  <2>3. QuietStep
    BY <1>1, <1>2, <2>1, <2>2, QuietMove DEF WorkShapes, Disturb
  <2> QED
    BY <2>3, QuietCount DEF WorkInv
<1>4. CASE ok
  <2>1. Has(files, FileFields) /\ {"record", "readable"} \subseteq FileFields \ {"history"}
        /\ "history" \in FileFields
    BY <1>1 DEF WorkShapes, FileFields
  <2>2. files'.history = longer /\ files'.record = files.record /\ files'.readable = files.readable
    <3>1. files' = [files EXCEPT !.history = longer]
      <4>1. "history" \in DOMAIN files
        BY <2>1 DEF Has
      <4> QED
        BY <1>4, <4>1 DEF AppendHistory
    <3> HIDE DEF longer
    <3> QED
      BY <2>1, <3>1, FileAfter
  <2>3. stage' \in [Processes -> Stages] /\ stage'[p] = "resume"
        /\ \A q \in Processes \ {p} : stage'[q] = stage[q]
    BY <1>1, <1>2, <1>4, StageAfter DEF WorkShapes
  <2>4. \A q \in Processes : mine'[q] = mine[q]
    BY <1>2, <1>4
  <2>5. PICK S : old \in Seq(S)
    BY <1>1 DEF WorkShapes
  <2>6. /\ longer \in Seq(S \cup {e}) /\ Len(longer) = Len(old) + 1 /\ Len(old) \in Nat
        /\ longer[Len(old) + 1] = e /\ \A i \in 1..Len(old) : longer[i] = old[i]
    <3> HIDE DEF e
    <3>1. /\ longer \in Seq(S \cup {e}) /\ Last(longer) = e /\ Len(longer) = Len(old) + 1 /\ Len(old) \in Nat
          /\ \A i \in 1..Len(old) : longer[i] = old[i]
      BY <2>5, LastOfAppend
    <3> QED
      BY <3>1 DEF Last
  <2> HIDE DEF longer, old, e
  <2>7. DOMAIN old = 1..Len(old) /\ DOMAIN longer = 1..(Len(old) + 1)
    BY <2>5, <2>6
  <2>8. \A i \in DOMAIN old : i \in DOMAIN longer /\ longer[i] = old[i]
    BY <2>6, <2>7
  <2>9. PICK m : mine[p].model = {m}
    BY <1>1 DEF CountInv, ModelHeld
  <2>10. e.by = m.by /\ e.objective = m.objective /\ e.repeated = m.repeated
    <3>1. e = HistoryEntry(m)
      BY <2>9, TheOne DEF e
    <3> QED
      BY <3>1 DEF HistoryEntry
  <2>11. LoadedIsThere'
    BY <2>2, <2>3, <2>4, <2>8 DEF CountInv, LoadedIsThere, old
  <2>12. ModelHeld'
    BY <2>3, <2>4 DEF CountInv, ModelHeld
  <2>13. CountIsThere'
    <3> SUFFICES ASSUME NEW q \in Processes, stage'[q] \in {"latest", "append"}, NEW o \in mine'[q].model,
                        StoredAsItIs(o.objective)
                 PROVE  o.repeated \in Nat /\ o.repeated <= Times(files'.history, o.objective)
      BY DEF CountIsThere
    <3>1. o.repeated \in Nat /\ o.repeated <= Times(old, o.objective)
      BY <2>3, <2>4 DEF CountInv, CountIsThere, old
    <3>2. Times(old, o.objective) \in Nat /\ Times(old, o.objective) <= Times(longer, o.objective)
      BY <2>6, <2>8, TimesOlder
    <3>3. Times(longer, o.objective) \in Nat
      BY <2>6, TimesTyped
    <3> QED
      BY <2>2, <3>1, <3>2, <3>3
  <2>14. AloneMissesNone'
    <3>1. \A s \in alone' : s = p
      BY <1>1, AloneAfter
    <3> QED
      BY <2>3, <3>1 DEF AloneMissesNone
  <2>15. LeavesNoTrace'
    <3> SUFFICES ASSUME NEW s \in Sessions, stage'[s] = "idle"
                 PROVE  /\ \A x \in files'.record : x.by # s
                        /\ \A i \in DOMAIN files'.history : s \notin files'.history[i].by
                        /\ \A q \in Processes : \A o \in mine'[q].model : s \notin o.by
      BY DEF LeavesNoTrace
    <3>1. stage[s] = "idle"
      BY <2>3 DEF Processes
    <3>2. /\ \A x \in files.record : x.by # s
          /\ \A i \in DOMAIN old : s \notin old[i].by
          /\ \A q \in Processes : \A o \in mine[q].model : s \notin o.by
      BY <3>1 DEF CountInv, LeavesNoTrace, old
    <3>3. s \notin e.by
      BY <2>9, <2>10, <3>2
    <3>4. \A i \in DOMAIN longer : s \notin longer[i].by
      <4> SUFFICES ASSUME NEW i \in DOMAIN longer PROVE s \notin longer[i].by
        OBVIOUS
      <4>1. i \in DOMAIN old \/ i = Len(old) + 1
        BY <2>6, <2>7
      <4> QED
        BY <2>6, <2>8, <3>2, <3>3, <4>1
    <3> QED
      BY <2>2, <2>4, <3>2, <3>4
  <2>16. RepeatsCounted'
    <3> SUFFICES ASSUME NEW i \in DOMAIN longer
                 PROVE  LET x == longer[i]
                            earlier == {j \in 1..(i - 1) : /\ longer[j].objective = x.objective
                                                           /\ longer[j].outcome # "proved"}
                        IN x.objective \notin {"redacted", "no recorded objective"} =>
                             /\ x.repeated <= Cardinality(earlier)
                             /\ x.by \cap alone' # {} /\ files.readable => x.repeated = Cardinality(earlier)
      BY <2>2 DEF RepeatsCounted
    <3> DEFINE x == longer[i]
               before == {j \in 1..(i - 1) : /\ longer[j].objective = x.objective
                                             /\ longer[j].outcome # "proved"}
    <3>1. i \in 1..Len(old) \/ i = Len(old) + 1
      BY <2>6, <2>7
    <3>2. CASE i \in 1..Len(old)
      <4>1. x = old[i] /\ i \in DOMAIN old
        BY <2>6, <2>7, <3>2
      <4>2. before = {j \in 1..(i - 1) : old[j].objective = x.objective /\ old[j].outcome # "proved"}
        BY <2>6, <3>2
      <4>3. alone' \subseteq alone
        BY <1>1 DEF Disturb
      <4> HIDE DEF before, x
      <4>4. x.objective \notin {"redacted", "no recorded objective"} =>
              /\ x.repeated <= Cardinality(before)
              /\ x.by \cap alone # {} /\ files.readable => x.repeated = Cardinality(before)
        BY <4>1, <4>2 DEF CountInv, RepeatsCounted, old
      <4> QED
        BY <4>3, <4>4 DEF before, x
    <3>3. CASE i = Len(old) + 1
      <4>1. x = e
        BY <2>6, <3>3
      <4>2. before = Unproved(old, e.objective)
        BY <2>6, <2>7, <3>3, <4>1 DEF Unproved
      <4> HIDE DEF before, x
      <4>3. StoredAsItIs(e.objective) => e.repeated <= Times(old, e.objective)
        BY <1>1, <2>9, <2>10 DEF CountInv, CountIsThere, old
      <4>4. StoredAsItIs(e.objective) /\ e.by \cap alone' # {} /\ files.readable
              => e.repeated = Times(old, e.objective)
        <5>1. \A s \in alone' : s = p /\ s \in alone
          BY <1>1, AloneAfter
        <5> QED
          BY <1>1, <2>9, <2>10, <5>1 DEF CountInv, AloneMissesNone, old
      <4> QED
        BY <4>1, <4>2, <4>3, <4>4 DEF Times, StoredAsItIs, before, x
    <3> QED
      BY <3>1, <3>2, <3>3
  <2> QED
    BY <2>11, <2>12, <2>13, <2>14, <2>15, <2>16 DEF CountInv
<1> QED
  BY <1>3, <1>4

LEMMA CountStep == WorkInv /\ WorkInv' /\ CountInv /\ [WorkNext]_workVars => CountInv'
<1> SUFFICES ASSUME WorkInv, WorkInv', CountInv, [WorkNext]_workVars PROVE CountInv'
  OBVIOUS
<1>0. ASSUME QuietStep PROVE CountInv'
  BY <1>0, QuietCount DEF WorkInv
<1>1. CASE UNCHANGED workVars
  BY <1>0, <1>1 DEF QuietStep, workVars
<1>2. ASSUME NEW p \in Processes, Upsert(p) PROVE CountInv'
  <2>1. CASE LoadHistory(p)
    BY <2>1, LoadHistoryCount
  <2>2. ASSUME NEW record \in Seen(p, "record"), NEW continuity \in Seen(p, "continuity"),
               NEW packet \in Seen(p, "packet"), NEW pack \in Seen(p, "pack"), NEW report \in Seen(p, "report"),
               Build(p, record, continuity, packet, pack, report)
        PROVE  CountInv'
    BY <2>2, BuildCount
  <2>3. ASSUME NEW ok \in BOOLEAN, WriteLatest(p, ok) \/ AppendHistory(p, ok) \/ WriteResume(p, ok)
        PROVE  CountInv'
    BY <1>0, <2>3, WriteLatestStory, AppendHistoryCount, WriteResumeStory
  <2>4. CASE Kill(p)
    BY <1>0, <2>4, KillStory
  <2> QED
    BY <1>2, <2>1, <2>2, <2>3, <2>4 DEF Upsert
<1>3. ASSUME NEW s \in Sessions, SessionStep(s) PROVE CountInv'
  <2>1. ASSUME NEW w \in Works, StartSession(s, w) PROVE CountInv'
    BY <1>0, <2>1, StartStory
  <2>2. ASSUME NEW ok \in BOOLEAN,
               WriteContext(s, ok) \/ WriteContinuity(s, ok) \/ WriteReport(s, ok) \/ WriteRecord(s, ok)
        PROVE  CountInv'
    BY <1>0, <2>2, WriteContextStory, WriteContinuityStory, WriteReportStory, WriteRecordStory
  <2>3. ASSUME NEW adapter \in Adapters, NEW continuity \in Seen(s, "continuity"),
               BuildReport(s, adapter, continuity)
        PROVE  CountInv'
    BY <1>0, <2>3, BuildReportStory
  <2> QED
    BY <1>3, <2>1, <2>2, <2>3 DEF SessionStep
<1>4. ASSUME NEW r \in Readers, ReaderStep(r) PROVE CountInv'
  BY <1>0, <1>4, LookStory, ShowStory DEF ReaderStep
<1>5. ASSUME NEW w \in Works, Prepare(w) PROVE CountInv'
  BY <1>0, <1>5, PrepareStory
<1>6. CASE ReportBuild
  BY <1>0, <1>6, ReportBuildStory
<1>7. CASE DayPasses
  BY <1>0, <1>7, DayPassesStory
<1> QED
  BY <1>1, <1>2, <1>3, <1>4, <1>5, <1>6, <1>7 DEF WorkNext

(* However sessions and readers interleave, fail or are killed: a line of  *)
(* the history counts no earlier attempt that is not in the history before *)
(* it, and that of an undisturbed session counts every one.                *)
THEOREM RepeatedWorkIsCounted == WorkSpec => []RepeatsCounted
<1>1. WorkInv /\ CountInv /\ [WorkNext]_workVars => WorkInv' /\ CountInv'
  BY WorkStep, CountStep
<1>2. CountInv => RepeatsCounted
  BY DEF CountInv
<1> QED
  BY <1>1, <1>2, InitStory, InitCount, PTL DEF WorkSpec
=============================================================================
