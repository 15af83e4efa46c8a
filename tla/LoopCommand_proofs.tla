------------------------- MODULE LoopCommand_proofs -------------------------
(***************************************************************************)
(* Theorems about LoopCommand, for every number of loops over a directory, *)
(* everything that may be asked of them, and every project.                *)
(***************************************************************************)
EXTENDS LoopCommand, FiniteSetTheorems, TLAPS

(* Where a loop process holds its locals, and where its metadata is there. *)
Working == {"opening", "naming", "top", "gate", "recording", "saving"}
Named == {"top", "gate", "recording", "saving", "clearing"}
Budget == "budget_max_iterations"

(* How often --max lets a loop work, and whether the iterations can reach  *)
(* it.                                                                     *)
AllowedWork(max) == IF max.kind = "NaN" \/ max.n < 0 THEN 0 ELSE max.n
Reachable(max) == max.kind = "whole" \/ (max.kind = "fraction" /\ max.n < 0)

(* The budget of a loop bounds its work, and is bounded by the task's risk.*)
Bounded(x) ==
    /\ x.task # "destructive"
    /\ AllowedWork(x.policy.maxIterations)
         <= IF x.task \in {"risky", "broad"} THEN 1 ELSE IterationCap
    /\ x.used <= AllowedWork(x.policy.maxIterations)
    /\ x.stop # "success"

Judged(max, stop, receipt) ==
    receipt = IF stop = Budget /\ ~Reachable(max) THEN "CONTINUE" ELSE "STOP_BLOCKED"

(* What a loop's file says is what its receipt says.                       *)
Recorded(l, d, receipt) ==
    /\ d.loop = l
    /\ Judged(d.maxIterations, d.stopReason, receipt)
    /\ d.stopReason = Budget => d.iterationsRun = AllowedWork(d.maxIterations)
    /\ d.stopReason # "success" /\ d.proofState # "proved"

(* One loop: where it is, its locals, its metadata file and its receipt.   *)
LoopFacts(l, at, xs, file, receipt) ==
    /\ at \in Working => \E x \in xs : xs = {x}
    /\ at \notin Working => xs = {}
    /\ \A x \in xs :
         /\ Bounded(x)
         /\ IsFiniteSet(x.policy.requiredChecks)
         /\ x.failed \subseteq x.policy.requiredChecks
         /\ at \in {"opening", "naming", "top"} => x.stop = Budget
         /\ at \in {"gate", "recording", "saving"} /\ x.stop = Budget
              => ~MayWork(x.policy.maxIterations, x.used)
         /\ at \in {"recording", "saving"} => Judged(x.policy.maxIterations, x.stop, receipt)
    /\ at \in {"idle", "refused"} \union (Working \ {"saving"}) => file.text = "none"
    /\ at = "saving" => file.text = "torn"
    /\ at \in {"clearing", "closing", "done"} => file.text = "whole"
    /\ file.text = "none" => file.data = {}
    /\ file.text # "none" => \E d \in file.data : file.data = {d}
    /\ \A d \in file.data : Recorded(l, d, receipt)

LoopsInv == \A l \in Loops : LoopFacts(l, pc[l], loop[l], metadata[l], receipts[l])

(* active.json and the loops under way.                                    *)
ActiveInv ==
    /\ active.text = "running" => \A l \in active.loop : pc[l] \in Named \union {"dead"}
    /\ \A l \in Loops \ crowded : pc[l] \in Live => Others(l) = {}
    /\ \A l \in Loops \ crowded : pc[l] \in Named => active.text = "running" /\ active.loop = {l}

(* The reader has seen, of what was there when it began, all but the rest. *)
Seen(l) == \E f \in reader.found : \A d \in metadata[l].data : f.createdAt >= d.createdAt

ReaderInv ==
    /\ reader.before \subseteq Whole
    /\ \A l \in reader.before \ reader.left : Seen(l)
    /\ reader.at \in {"none", "latest"} => reader.left = {}

CommandInv == TypeOK /\ LoopsInv /\ ActiveInv /\ ReaderInv
-----------------------------------------------------------------------------
(* Operators.                                                              *)

(* Four things at most are finitely many.                                  *)
LEMMA FourFinite == ASSUME NEW a, NEW b, NEW c, NEW d PROVE IsFiniteSet({a, b, c, d})
<1>1. IsFiniteSet({a}) /\ IsFiniteSet({b}) /\ IsFiniteSet({c}) /\ IsFiniteSet({d})
  BY FS_Singleton
<1>2. IsFiniteSet({a} \union {b}) /\ IsFiniteSet({c} \union {d})
  BY <1>1, FS_Union
<1>3. IsFiniteSet(({a} \union {b}) \union ({c} \union {d}))
  BY <1>2, FS_Union
<1>4. {a, b, c, d} = ({a} \union {b}) \union ({c} \union {d})
  OBVIOUS
<1> QED BY <1>3, <1>4

(* Detection finds finitely many checks.                                   *)
LEMMA DetectedFinite == IsFiniteSet(detectCheckCommands)
<1> DEFINE S == {"lint", "test:local", "test", "typecheck"}
           T == {"type-check", "pytest", "go test", "cargo test"}
<1>1. IsFiniteSet(S \union T)
  <2>1. IsFiniteSet(S) /\ IsFiniteSet(T)
    BY FourFinite
  <2> QED BY <2>1, FS_Union
<1>2. detectCheckCommands \subseteq S \union T
  BY DEF detectCheckCommands, detectFromPackageJson
<1> HIDE DEF S, T
<1> QED BY <1>1, <1>2, FS_Subset

(* So every policy has finitely many checks.                               *)
LEMMA ChecksFinite ==
    ASSUME NEW l \in Loops, NEW r \in Requests[l]
    PROVE  IsFiniteSet(buildChecks(r.checks)) /\ buildChecks(r.checks) \in SUBSET CheckNames
<1>1. IsFiniteSet({ScopeCheck}) /\ IsFiniteSet(r.checks)
  BY FS_Singleton, CommandAssumption
<1>2. IsFiniteSet(buildChecks(r.checks))
  BY <1>1, DetectedFinite, FS_Union DEF buildChecks
<1>3. r.checks \subseteq CheckNames
  BY DEF CheckNames
<1>4. {ScopeCheck} \union detectCheckCommands \subseteq CheckNames
  BY DEF CheckNames
<1> QED BY <1>2, <1>3, <1>4 DEF buildChecks

(* What a loop starts with: its budget is bounded by its task's risk.      *)
LEMMA StartBounded ==
    ASSUME NEW l \in Loops, NEW r \in Requests[l],
           LoopCheck(r).readiness.classification # "blocked"
    PROVE  LET x == [task |-> r.task, policy |-> LoopCheck(r).policy,
                     used |-> 0, failed |-> {}, stop |-> Budget]
           IN  /\ x \in LoopStates
               /\ Bounded(x)
               /\ IsFiniteSet(x.policy.requiredChecks)
<1> DEFINE ready == classifyLoopReadiness(r.task)
           max == buildLoopPolicy(ready, r.max, r.checks).maxIterations
<1>1. /\ r.task \in TaskKinds /\ r.max \in MaxOptions
      /\ IterationCap \in Nat /\ IterationCap >= 3
  BY CommandAssumption
<1>2. r.task # "destructive"
  BY DEF LoopCheck, classifyLoopReadiness, result, defaultMode, defaultIterations
<1>3. CASE r.task \in {"broad", "risky"}
  <2>1. Mode(ready) = "single_run"
    BY <1>3 DEF Mode, classifyLoopReadiness, result, defaultMode, defaultIterations
  <2>2. max = [kind |-> "whole", n |-> 1]
    BY <2>1 DEF buildLoopPolicy
  <2> QED BY <1>1, <1>2, <1>3, <2>1, <2>2, ChecksFinite
    DEF LoopCheck, buildLoopPolicy, LoopStates, LoopPolicies, LoopModes, Numbers, Bounded, AllowedWork, LoopStopReasons, Budget
<1>4. CASE r.task = "plain"
  <2>1. /\ Mode(ready) = "bounded_loop"
        /\ ready.classification = "safe_with_bounded_loop"
        /\ ready.recommendedMaxIterations = 3
    BY <1>4 DEF Mode, classifyLoopReadiness, result, defaultMode, defaultIterations
  <2>2. max = MaxIterations(ready, r.max)
    BY <2>1 DEF buildLoopPolicy
  <2>3. CASE r.max.kind = "absent"
    <3>1. max = [kind |-> "whole", n |-> 3]
      BY <2>1, <2>2, <2>3 DEF MaxIterations
    <3> QED BY <1>1, <1>2, <1>4, <2>1, <3>1, ChecksFinite
      DEF LoopCheck, buildLoopPolicy, LoopStates, LoopPolicies, LoopModes, Numbers, Bounded, AllowedWork, LoopStopReasons, Budget
  <2>4. CASE r.max.kind # "absent"
    <3>1. max = Capped(r.max)
      BY <2>2, <2>4 DEF MaxIterations
    <3>2. max \in Numbers
      BY <1>1, <2>4, <3>1 DEF Capped, MaxOptions, Numbers
    <3>3. max.n <= IterationCap
      BY <1>1, <2>4, <3>1 DEF Capped, MaxOptions, Numbers
    <3>4. AllowedWork(max) \in Nat /\ AllowedWork(max) <= IterationCap
      BY <1>1, <3>2, <3>3 DEF AllowedWork, Numbers
    <3> HIDE DEF max
    <3> QED BY <1>1, <1>2, <1>4, <2>1, <3>2, <3>4, ChecksFinite
      DEF LoopCheck, buildLoopPolicy, LoopStates, LoopPolicies, LoopModes, Bounded, LoopStopReasons, Budget, max
  <2> QED BY <2>3, <2>4
<1> QED BY <1>1, <1>2, <1>3, <1>4 DEF TaskKinds
-----------------------------------------------------------------------------
(* Steps of a loop process.                                                *)

(* The locals of a loop that has some.                                     *)
LEMMA TheOnly == ASSUME NEW l, NEW x, loop[l] = {x} PROVE The(l) = x
  BY DEF The

(* A loop process moves nothing of another loop.                           *)
LEMMA OthersStay ==
    ASSUME TypeOK, NEW l \in Loops, LoopStep(l), NEW k \in Loops, k # l
    PROVE  /\ pc'[k] = pc[k] /\ loop'[k] = loop[k]
           /\ metadata'[k] = metadata[k] /\ receipts'[k] = receipts[k]
  BY DEF TypeOK, LoopStep, StartBlocked, Start, StartUnavailable, OpenActive, NameActive,
         LeaveOnBudget, LeaveOnRuntime, Iterate, PersistReceipt, OpenMetadata,
         persistLoopMetadata, clearActiveLoop, CloseActive, Kill, Goto, Becomes

(* Steps that touch neither locals nor files.                              *)
LEMMA PlainSteps ==
    ASSUME TypeOK, NEW l \in Loops, LoopFacts(l, pc[l], loop[l], metadata[l], receipts[l]),
           \/ \E r \in Requests[l] : StartBlocked(l, r)
           \/ StartUnavailable(l) \/ OpenActive(l) \/ NameActive(l) \/ LeaveOnBudget(l)
           \/ clearActiveLoop(l) \/ CloseActive(l) \/ Kill(l)
    PROVE  TypeOK' /\ LoopFacts(l, pc'[l], loop'[l], metadata'[l], receipts'[l])
<1>1. CASE (\E r \in Requests[l] : StartBlocked(l, r)) \/ StartUnavailable(l)
  BY <1>1 DEF StartBlocked, StartUnavailable, Goto, TypeOK, LoopFacts, Working, Live
<1>2. CASE OpenActive(l)
  BY <1>2 DEF OpenActive, TruncateActive, Goto, TypeOK, LoopFacts, Working, Live
<1>3. CASE NameActive(l)
  BY <1>3 DEF NameActive, PutActive, Goto, TypeOK, LoopFacts, Working, Live
<1>4. CASE LeaveOnBudget(l)
  <2>1. PICK x \in loop[l] : loop[l] = {x}
    BY <1>4 DEF LeaveOnBudget, LoopFacts, Working
  <2>2. ~MayWork(x.policy.maxIterations, x.used)
    BY <1>4, <2>1, TheOnly DEF LeaveOnBudget
  <2> QED BY <1>4, <2>1, <2>2 DEF LeaveOnBudget, Goto, TypeOK, LoopFacts, Working, Live
<1>5. CASE clearActiveLoop(l)
  BY <1>5 DEF clearActiveLoop, TruncateActive, Goto, TypeOK, LoopFacts, Working, Live
<1>6. CASE CloseActive(l)
  BY <1>6 DEF CloseActive, PutActive, Goto, TypeOK, LoopFacts, Working, Live
<1>7. CASE Kill(l)
  <2>1. pc'[l] = "dead" /\ loop'[l] = {} /\ UNCHANGED <<metadata, receipts>>
    BY <1>7 DEF Kill, Goto, TypeOK
  <2>2. TypeOK'
    BY <1>7 DEF Kill, Goto, TypeOK, Live
  <2> QED BY <2>1, <2>2 DEF LoopFacts, Working
<1> QED BY <1>1, <1>2, <1>3, <1>4, <1>5, <1>6, <1>7

(* A loop starts with its budget unspent.                                  *)
LEMMA StartStep ==
    ASSUME TypeOK, NEW l \in Loops, LoopFacts(l, pc[l], loop[l], metadata[l], receipts[l]),
           NEW r \in Requests[l], Start(l, r)
    PROVE  TypeOK' /\ LoopFacts(l, pc'[l], loop'[l], metadata'[l], receipts'[l])
<1> DEFINE x == [task |-> r.task, policy |-> LoopCheck(r).policy,
                 used |-> 0, failed |-> {}, stop |-> Budget]
<1>1. x \in LoopStates /\ Bounded(x) /\ IsFiniteSet(x.policy.requiredChecks)
      /\ x.stop = Budget /\ x.failed = {}
  BY StartBounded DEF Start
<1>2. /\ pc[l] = "idle" /\ pc' = [pc EXCEPT ![l] = "opening"]
      /\ loop' = [loop EXCEPT ![l] = {x}]
      /\ crowded' \in {crowded, crowded \union {l} \union Others(l)}
      /\ UNCHANGED <<active, metadata, receipts, now, reader>>
  BY DEF Start, Goto, Becomes, Budget
<1> HIDE DEF x
<1>3. TypeOK'
  BY <1>1, <1>2 DEF TypeOK, Live, Others
<1>4. pc'[l] = "opening" /\ loop'[l] = {x}
  BY <1>2 DEF TypeOK
<1> QED BY <1>1, <1>2, <1>3, <1>4 DEF LoopFacts, Working

(* The clock ends the loop before its budget does.                         *)
LEMMA RuntimeStep ==
    ASSUME TypeOK, NEW l \in Loops, LoopFacts(l, pc[l], loop[l], metadata[l], receipts[l]),
           LeaveOnRuntime(l)
    PROVE  TypeOK' /\ LoopFacts(l, pc'[l], loop'[l], metadata'[l], receipts'[l])
<1>1. PICK x \in loop[l] : loop[l] = {x}
  BY DEF LeaveOnRuntime, LoopFacts, Working
<1> DEFINE y == [x EXCEPT !.stop = "budget_max_runtime"]
<1>2. /\ pc[l] = "top" /\ pc' = [pc EXCEPT ![l] = "gate"]
      /\ loop' = [loop EXCEPT ![l] = {y}]
      /\ MayWork(x.policy.maxIterations, x.used)
      /\ UNCHANGED <<active, metadata, receipts, now, reader, crowded>>
  BY <1>1, TheOnly DEF LeaveOnRuntime, Goto, Becomes
<1>3. x \in LoopStates
  BY <1>1 DEF TypeOK
<1>4. /\ y \in LoopStates /\ y.stop = "budget_max_runtime" /\ y.task = x.task
      /\ y.policy = x.policy /\ y.used = x.used /\ y.failed = x.failed
  BY <1>3 DEF LoopStates, LoopStopReasons
<1> HIDE DEF y
<1>5. Bounded(y) /\ IsFiniteSet(y.policy.requiredChecks) /\ y.failed \subseteq y.policy.requiredChecks
  BY <1>1, <1>4 DEF LoopFacts, Bounded
<1>6. TypeOK'
  BY <1>2, <1>4 DEF TypeOK, Live
<1>7. pc'[l] = "gate" /\ loop'[l] = {y}
  BY <1>2 DEF TypeOK
<1> QED BY <1>2, <1>4, <1>5, <1>6, <1>7 DEF LoopFacts, Working, Budget

(* An iteration is counted; whatever it comes to, its verdict is no        *)
(* success.                                                                *)
LEMMA IterateStep ==
    ASSUME TypeOK, NEW l \in Loops, LoopFacts(l, pc[l], loop[l], metadata[l], receipts[l]),
           Iterate(l)
    PROVE  TypeOK' /\ LoopFacts(l, pc'[l], loop'[l], metadata'[l], receipts'[l])
<1>1. PICK x \in loop[l] : loop[l] = {x}
  BY DEF Iterate, LoopFacts, Working
<1>2. PICK o \in Outcomes(x) :
        /\ loop' = [loop EXCEPT ![l] =
             {[x EXCEPT !.used = @ + 1, !.failed = o.failed,
                        !.stop = IF Verdict(x, o) = "go_on" THEN @ ELSE Verdict(x, o)]}]
        /\ pc' = [pc EXCEPT ![l] = IF Verdict(x, o) = "go_on" THEN "top" ELSE "gate"]
        /\ pc[l] = "top" /\ MayWork(x.policy.maxIterations, x.used)
        /\ UNCHANGED <<active, metadata, receipts, now, reader, crowded>>
  BY <1>1, TheOnly DEF Iterate, Goto, Becomes
<1> DEFINE v == Verdict(x, o)
           y == [x EXCEPT !.used = x.used + 1, !.failed = o.failed,
                          !.stop = IF v = "go_on" THEN x.stop ELSE v]
<1>3. x \in LoopStates /\ Bounded(x) /\ x.stop = Budget /\ IsFiniteSet(x.policy.requiredChecks)
  BY <1>1, <1>2 DEF TypeOK, LoopFacts
<1>4. o.failed \subseteq x.policy.requiredChecks /\ v \in {"safety", "failure", "go_on"}
  BY DEF Outcomes, Verdict
<1>5. /\ y \in LoopStates /\ y.used = x.used + 1 /\ y.task = x.task /\ y.policy = x.policy
      /\ y.failed = o.failed /\ y.stop = IF v = "go_on" THEN Budget ELSE v
  <2> HIDE DEF v
  <2> DEFINE stop == IF v = "go_on" THEN x.stop ELSE v
  <2>1. o.failed \in SUBSET CheckNames /\ x.used + 1 \in Nat /\ stop \in LoopStopReasons
    BY <1>3, <1>4 DEF LoopStates, LoopPolicies, LoopStopReasons, Budget
  <2>2. stop = IF v = "go_on" THEN Budget ELSE v
    BY <1>3
  <2> HIDE DEF stop
  <2>3. y = [x EXCEPT !.used = x.used + 1, !.failed = o.failed, !.stop = stop]
    BY DEF stop
  <2> QED BY <1>3, <2>1, <2>2, <2>3 DEF LoopStates
<1>6. /\ loop' = [loop EXCEPT ![l] = {y}]
      /\ pc' = [pc EXCEPT ![l] = IF v = "go_on" THEN "top" ELSE "gate"]
      /\ UNCHANGED <<active, metadata, receipts, now, reader, crowded>>
  BY <1>2
<1> HIDE DEF y, v
<1>7. Bounded(y)
  <2>1. x.used + 1 <= AllowedWork(x.policy.maxIterations)
    BY <1>2, <1>3 DEF MayWork, AllowedWork, LoopStates, LoopPolicies, Numbers
  <2> QED BY <1>3, <1>4, <1>5, <2>1 DEF Bounded, Budget
<1>8. TypeOK'
  BY <1>5, <1>6 DEF TypeOK, Live
<1>9. pc'[l] = (IF v = "go_on" THEN "top" ELSE "gate") /\ loop'[l] = {y}
  BY <1>6 DEF TypeOK
<1> QED BY <1>2, <1>3, <1>4, <1>5, <1>7, <1>8, <1>9 DEF LoopFacts, Working, Budget

(* The receipt says stop unless the budget ended the loop and was one that *)
(* no number of iterations reaches.                                        *)
LEMMA ReceiptStep ==
    ASSUME TypeOK, NEW l \in Loops, LoopFacts(l, pc[l], loop[l], metadata[l], receipts[l]),
           PersistReceipt(l)
    PROVE  TypeOK' /\ LoopFacts(l, pc'[l], loop'[l], metadata'[l], receipts'[l])
<1>1. PICK x \in loop[l] : loop[l] = {x}
  BY DEF PersistReceipt, LoopFacts, Working
<1> DEFINE max == x.policy.maxIterations
           decision == IF x.stop = "safety" \/ StopConditionMet(x.stop, max, x.used)
                       THEN "STOP_BLOCKED" ELSE "CONTINUE"
<1>2. /\ pc[l] = "gate" /\ pc' = [pc EXCEPT ![l] = "recording"]
      /\ receipts' = [receipts EXCEPT ![l] = decision]
      /\ UNCHANGED <<loop, active, metadata, now, reader, crowded>>
  BY <1>1, TheOnly DEF PersistReceipt, Goto
<1>3. /\ x \in LoopStates /\ Bounded(x)
      /\ x.stop = Budget => ~MayWork(max, x.used)
  BY <1>1, <1>2 DEF TypeOK, LoopFacts
<1>4. Judged(max, x.stop, decision)
  <2>1. max \in Numbers /\ x.used \in Nat
    BY <1>3 DEF LoopStates, LoopPolicies
  <2>2. ASSUME x.stop = Budget PROVE LimitReached(max, x.used) <=> Reachable(max)
    <3>1. x.used <= AllowedWork(max) /\ ~MayWork(max, x.used)
      BY <1>3, <2>2 DEF Bounded
    <3> HIDE DEF max
    <3>2. CASE max.kind = "NaN"
      BY <3>2 DEF LimitReached, Reachable
    <3>3. CASE max.kind = "whole"
      <4>1. LimitReached(max, x.used) <=> x.used >= max.n
        BY <3>3 DEF LimitReached
      <4>2. x.used >= max.n
        BY <2>1, <3>1, <3>3 DEF Numbers, MayWork
      <4> QED BY <3>3, <4>1, <4>2 DEF Reachable
    <3>4. CASE max.kind = "fraction"
      <4>1. LimitReached(max, x.used) <=> x.used > max.n
        BY <3>4 DEF LimitReached
      <4>2. x.used > max.n <=> max.n < 0
        BY <2>1, <3>1, <3>4 DEF Numbers, MayWork, AllowedWork
      <4> QED BY <3>4, <4>1, <4>2 DEF Reachable
    <3> QED BY <2>1, <3>2, <3>3, <3>4 DEF Numbers
  <2> QED BY <2>2 DEF Judged, StopConditionMet, Budget
<1>5. TypeOK'
  BY <1>2 DEF TypeOK, Live
<1>6. pc'[l] = "recording" /\ receipts'[l] = decision
  BY <1>2 DEF TypeOK
<1> HIDE DEF decision
<1> QED BY <1>1, <1>2, <1>3, <1>4, <1>5, <1>6 DEF LoopFacts, Working

(* The metadata says what the locals say.                                  *)
LEMMA MetadataStep ==
    ASSUME TypeOK, NEW l \in Loops, LoopFacts(l, pc[l], loop[l], metadata[l], receipts[l]),
           OpenMetadata(l)
    PROVE  TypeOK' /\ LoopFacts(l, pc'[l], loop'[l], metadata'[l], receipts'[l])
<1>1. PICK x \in loop[l] : loop[l] = {x}
  BY DEF OpenMetadata, LoopFacts, Working
<1> DEFINE d == buildLoopMetadata(l, x, now')
<1>2. /\ pc[l] = "recording" /\ pc' = [pc EXCEPT ![l] = "saving"] /\ now' \in 0..MaxTime
      /\ metadata' = [metadata EXCEPT ![l] = [text |-> "torn", data |-> {d}]]
      /\ UNCHANGED <<loop, active, receipts, reader, crowded>>
  BY <1>1, TheOnly DEF OpenMetadata, Goto
<1>3. /\ x \in LoopStates /\ Bounded(x) /\ Judged(x.policy.maxIterations, x.stop, receipts[l])
      /\ IsFiniteSet(x.policy.requiredChecks) /\ x.failed \subseteq x.policy.requiredChecks
  BY <1>1, <1>2 DEF TypeOK, LoopFacts
<1>4. Cardinality(x.failed) \in Nat
  BY <1>3, FS_Subset, FS_CardinalityType
<1>5. d \in LoopMetadata
  BY <1>2, <1>3, <1>4 DEF buildLoopMetadata, LoopMetadata, LoopStates, LoopPolicies,
     deriveProofState, LoopProofStates
<1>6. Recorded(l, d, receipts[l])
  <2>1. x.policy.maxIterations \in Numbers /\ x.used \in Nat
    BY <1>3 DEF LoopStates, LoopPolicies
  <2>2. x.stop = Budget => ~MayWork(x.policy.maxIterations, x.used)
    BY <1>1, <1>2 DEF LoopFacts
  <2>3. x.stop = Budget => x.used = AllowedWork(x.policy.maxIterations)
    BY <1>3, <2>1, <2>2 DEF Numbers, MayWork, Bounded, AllowedWork
  <2> QED BY <1>3, <2>3 DEF Recorded, buildLoopMetadata, deriveProofState, Bounded
<1> HIDE DEF d
<1>7. TypeOK'
  BY <1>2, <1>5 DEF TypeOK, Live
<1>8. /\ pc'[l] = "saving" /\ metadata'[l].text = "torn" /\ metadata'[l].data = {d}
      /\ loop'[l] = loop[l] /\ receipts'[l] = receipts[l]
  BY <1>2 DEF TypeOK
<1> QED BY <1>1, <1>2, <1>3, <1>6, <1>7, <1>8 DEF LoopFacts, Working

(* The file is whole, the locals are no longer needed.                     *)
LEMMA SaveStep ==
    ASSUME TypeOK, NEW l \in Loops, LoopFacts(l, pc[l], loop[l], metadata[l], receipts[l]),
           persistLoopMetadata(l)
    PROVE  TypeOK' /\ LoopFacts(l, pc'[l], loop'[l], metadata'[l], receipts'[l])
<1>1. /\ pc[l] = "saving" /\ pc' = [pc EXCEPT ![l] = "clearing"]
      /\ metadata' = [metadata EXCEPT ![l] = [metadata[l] EXCEPT !.text = "whole"]]
      /\ loop' = [loop EXCEPT ![l] = {}]
      /\ UNCHANGED <<active, receipts, now, reader, crowded>>
  BY DEF persistLoopMetadata, Goto
<1>2. metadata[l] \in [text : {"none", "torn", "whole"}, data : SUBSET LoopMetadata]
  BY DEF TypeOK
<1> DEFINE file == [metadata[l] EXCEPT !.text = "whole"]
<1>3. /\ file \in [text : {"none", "torn", "whole"}, data : SUBSET LoopMetadata]
      /\ file.text = "whole" /\ file.data = metadata[l].data
  BY <1>2
<1> HIDE DEF file
<1>4. metadata' = [metadata EXCEPT ![l] = file]
  BY <1>1 DEF file
<1>5. TypeOK'
  BY <1>1, <1>3, <1>4 DEF TypeOK, Live
<1>6. pc'[l] = "clearing" /\ metadata'[l] = file /\ loop'[l] = {} /\ receipts'[l] = receipts[l]
  BY <1>1, <1>4 DEF TypeOK
<1> QED BY <1>1, <1>3, <1>5, <1>6 DEF LoopFacts, Working

(* Every step of a loop process keeps what is said of it.                  *)
LEMMA LoopStepKeeps ==
    ASSUME TypeOK, LoopsInv, NEW l \in Loops, LoopStep(l)
    PROVE  TypeOK' /\ LoopsInv'
<1>1. LoopFacts(l, pc[l], loop[l], metadata[l], receipts[l])
  BY DEF LoopsInv
<1>2. TypeOK' /\ LoopFacts(l, pc'[l], loop'[l], metadata'[l], receipts'[l])
  BY <1>1, PlainSteps, StartStep, RuntimeStep, IterateStep, ReceiptStep, MetadataStep, SaveStep
     DEF LoopStep
<1>3. ASSUME NEW k \in Loops, k # l
      PROVE  LoopFacts(k, pc'[k], loop'[k], metadata'[k], receipts'[k])
  <2>1. LoopFacts(k, pc[k], loop[k], metadata[k], receipts[k])
    BY DEF LoopsInv
  <2> QED BY <1>3, <2>1, OthersStay
<1> QED BY <1>2, <1>3 DEF LoopsInv
-----------------------------------------------------------------------------
(* active.json.                                                            *)

(* Steps that leave active.json alone: a named loop stays named or dies.   *)
LEMMA QuietStep ==
    ASSUME TypeOK, ActiveInv, NEW l \in Loops, NEW q, pc' = [pc EXCEPT ![l] = q],
           UNCHANGED <<active, crowded>>,
           \/ pc[l] \in Named /\ q \in Named
           \/ pc[l] = "idle" /\ q = "refused"
           \/ pc[l] \in Live /\ q = "dead"
    PROVE  ActiveInv'
<1>1. \A k \in Loops : pc'[k] = IF k = l THEN q ELSE pc[k]
  BY DEF TypeOK
<1>2. active.text = "running" => \A k \in active.loop : pc'[k] \in Named \union {"dead"}
  BY <1>1 DEF ActiveInv, Named, Live, TypeOK
<1>3. ASSUME NEW k \in Loops \ crowded, pc'[k] \in Live PROVE Others(k)' = {}
  BY <1>1, <1>3 DEF ActiveInv, Others, Named, Live
<1>4. ASSUME NEW k \in Loops \ crowded, pc'[k] \in Named
      PROVE  active.text = "running" /\ active.loop = {k}
  BY <1>1, <1>4 DEF ActiveInv, Named
<1> QED BY <1>2, <1>3, <1>4 DEF ActiveInv

(* A loop that starts beside another one is crowded, and so is the other.  *)
LEMMA StartAlone ==
    ASSUME TypeOK, ActiveInv, NEW l \in Loops, NEW r \in Requests[l], Start(l, r)
    PROVE  ActiveInv'
<1>1. /\ pc[l] = "idle" /\ pc' = [pc EXCEPT ![l] = "opening"] /\ active' = active
      /\ crowded' = IF Others(l) = {} THEN crowded ELSE crowded \union {l} \union Others(l)
  BY DEF Start, Goto
<1>2. \A k \in Loops : pc'[k] = IF k = l THEN "opening" ELSE pc[k]
  BY <1>1 DEF TypeOK
<1>3. active.text = "running" => \A k \in active.loop : pc'[k] \in Named \union {"dead"}
  BY <1>1, <1>2 DEF ActiveInv, Named, TypeOK
<1>4. ASSUME NEW k \in Loops \ crowded', pc'[k] \in Live PROVE k = l /\ Others(k)' = {}
  <2>1. k = l
    BY <1>1, <1>2, <1>4 DEF Others
  <2>2. Others(l) = {}
    BY <1>1, <1>4, <2>1
  <2> QED BY <1>2, <2>1, <2>2 DEF Others
<1> QED BY <1>1, <1>2, <1>3, <1>4 DEF ActiveInv, Named, Live

(* Only a loop under way writes active.json: what it overwrites is no      *)
(* uncrowded loop's entry.                                                 *)
LEMMA WriteActive ==
    ASSUME TypeOK, ActiveInv, NEW l \in Loops, NEW q, pc' = [pc EXCEPT ![l] = q],
           crowded' = crowded, pc[l] \in Live,
           \/ q \notin Named /\ active'.text # "running"
           \/ q = "top" /\ active' = [text |-> "running", loop |-> {l}]
    PROVE  ActiveInv'
<1>1. \A k \in Loops : pc'[k] = IF k = l THEN q ELSE pc[k]
  BY DEF TypeOK
<1>2. active'.text = "running" => \A k \in active'.loop : pc'[k] \in Named \union {"dead"}
  BY <1>1 DEF Named
<1>3. ASSUME NEW k \in Loops \ crowded, pc'[k] \in Live PROVE Others(k)' = {}
  BY <1>1, <1>3 DEF ActiveInv, Others
<1>4. ASSUME NEW k \in Loops \ crowded, k # l PROVE pc'[k] \notin Live
  BY <1>1, <1>4 DEF ActiveInv, Others
<1>5. ASSUME NEW k \in Loops \ crowded, pc'[k] \in Named
      PROVE  active'.text = "running" /\ active'.loop = {k}
  <2>1. k = l
    BY <1>4, <1>5 DEF Named, Live
  <2> QED BY <1>1, <1>5, <2>1
<1> QED BY <1>2, <1>3, <1>5 DEF ActiveInv

(* Every step of a loop process keeps active.json truthful.                *)
LEMMA LoopStepActive ==
    ASSUME TypeOK, ActiveInv, NEW l \in Loops, LoopStep(l)
    PROVE  ActiveInv'
<1>1. CASE (\E r \in Requests[l] : StartBlocked(l, r)) \/ StartUnavailable(l)
  BY <1>1, QuietStep DEF StartBlocked, StartUnavailable, Goto
<1>2. CASE \E r \in Requests[l] : Start(l, r)
  BY <1>2, StartAlone
<1>3. CASE OpenActive(l)
  <2>1. /\ pc[l] \in Live /\ pc' = [pc EXCEPT ![l] = "naming"] /\ crowded' = crowded
        /\ active'.text = "empty"
    BY <1>3 DEF OpenActive, TruncateActive, Goto, Live
  <2> QED BY <2>1, WriteActive DEF Named
<1>4. CASE NameActive(l)
  <2>1. /\ pc[l] \in Live /\ pc' = [pc EXCEPT ![l] = "top"] /\ crowded' = crowded
        /\ active' = [text |-> "running", loop |-> {l}]
    BY <1>4 DEF NameActive, PutActive, Goto, Live
  <2> QED BY <2>1, WriteActive
<1>5. CASE LeaveOnBudget(l) \/ LeaveOnRuntime(l) \/ PersistReceipt(l) \/ OpenMetadata(l)
             \/ persistLoopMetadata(l)
  <2>1. \E q \in Named : pc[l] \in Named /\ pc' = [pc EXCEPT ![l] = q] /\ UNCHANGED <<active, crowded>>
    BY <1>5 DEF LeaveOnBudget, LeaveOnRuntime, PersistReceipt, OpenMetadata, persistLoopMetadata,
       Goto, Named
  <2> QED BY <2>1, QuietStep
<1>6. CASE Iterate(l)
  <2>1. \E q \in Named : pc[l] \in Named /\ pc' = [pc EXCEPT ![l] = q] /\ UNCHANGED <<active, crowded>>
    BY <1>6 DEF Iterate, Goto, Named
  <2> QED BY <2>1, QuietStep
<1>7. CASE clearActiveLoop(l)
  <2>1. /\ pc[l] \in Live /\ pc' = [pc EXCEPT ![l] = "closing"] /\ crowded' = crowded
        /\ active'.text = "empty"
    BY <1>7 DEF clearActiveLoop, TruncateActive, Goto, Live
  <2> QED BY <2>1, WriteActive DEF Named
<1>8. CASE CloseActive(l)
  <2>1. /\ pc[l] \in Live /\ pc' = [pc EXCEPT ![l] = "done"] /\ crowded' = crowded
        /\ active'.text \in {"torn", "cleared"}
    BY <1>8 DEF CloseActive, PutActive, Goto, Live
  <2> QED BY <2>1, WriteActive DEF Named
<1>9. CASE Kill(l)
  BY <1>9, QuietStep DEF Kill, Goto
<1> QED BY <1>1, <1>2, <1>3, <1>4, <1>5, <1>6, <1>7, <1>8, <1>9 DEF LoopStep
-----------------------------------------------------------------------------
(* The reader.                                                             *)

(* What a whole metadata file says never changes.                          *)
LEMMA WholeStays ==
    ASSUME TypeOK, LoopsInv, NEW l \in Loops, LoopStep(l), NEW k \in Whole
    PROVE  metadata'[k] = metadata[k]
<1>1. k \in Loops /\ metadata[k].text = "whole"
  BY DEF Whole
<1>2. CASE k # l
  BY <1>1, <1>2, OthersStay
<1>3. CASE k = l
  <2>1. pc[l] \notin {"recording", "saving"}
    BY <1>1, <1>3 DEF LoopsInv, LoopFacts, Working
  <2> QED BY <1>3, <2>1
    DEF LoopStep, StartBlocked, Start, StartUnavailable, OpenActive, NameActive,
        LeaveOnBudget, LeaveOnRuntime, Iterate, PersistReceipt, OpenMetadata,
        persistLoopMetadata, clearActiveLoop, CloseActive, Kill
<1> QED BY <1>2, <1>3

(* So a loop's step leaves true what the reader has seen.                  *)
LEMMA LoopStepReader ==
    ASSUME TypeOK, LoopsInv, ReaderInv, NEW l \in Loops, LoopStep(l)
    PROVE  ReaderInv'
<1>1. reader' = reader
  BY DEF LoopStep, StartBlocked, Start, StartUnavailable, OpenActive, NameActive,
         LeaveOnBudget, LeaveOnRuntime, Iterate, PersistReceipt, OpenMetadata,
         persistLoopMetadata, clearActiveLoop, CloseActive, Kill
<1>2. \A k \in Whole : metadata'[k] = metadata[k]
  BY WholeStays
<1>3. reader.before \subseteq Whole'
  BY <1>2 DEF ReaderInv, Whole
<1>4. ASSUME NEW k \in reader.before \ reader.left PROVE Seen(k)'
  <2>1. k \in Whole /\ Seen(k)
    BY DEF ReaderInv
  <2>2. metadata'[k] = metadata[k]
    BY <1>2, <2>1
  <2> QED BY <1>1, <2>1, <2>2 DEF Seen
<1> QED BY <1>1, <1>3, <1>4 DEF ReaderInv

(* Reading a file makes it seen, and what was seen before stays seen: the  *)
(* record shown so far gives way to a younger one only.                    *)
LEMMA ScanSees ==
    ASSUME TypeOK, LoopsInv, ReaderInv, NEW l \in Loops, ScanLoop(l)
    PROVE  TypeOK' /\ ReaderInv'
<1> DEFINE takes == Parsed(l) # {} /\ \A d \in Parsed(l), f \in reader.found :
                                         d.createdAt > f.createdAt
           found == IF takes THEN Parsed(l) ELSE reader.found
<1>1. /\ reader.at = "scan" /\ l \in reader.left
      /\ reader' = [reader EXCEPT !.left = reader.left \ {l}, !.found = found]
      /\ UNCHANGED <<pc, loop, active, metadata, receipts, now, crowded>>
  BY DEF ScanLoop
<1>2. Parsed(l) \subseteq LoopMetadata /\ reader.found \subseteq LoopMetadata
  BY DEF TypeOK, Parsed, Whole
<1>3. \A d \in LoopMetadata : d.createdAt \in 0..MaxTime
  BY DEF LoopMetadata
<1>4. reader' \in [at : {"prompt", "scan", "none", "latest"}, left : SUBSET Loops,
                   before : SUBSET Loops, found : SUBSET LoopMetadata]
  <2>1. found \in SUBSET LoopMetadata /\ reader.left \ {l} \in SUBSET Loops
    BY <1>2 DEF TypeOK
  <2> HIDE DEF found
  <2> QED BY <1>1, <2>1 DEF TypeOK
<1>5. /\ reader'.at = "scan" /\ reader'.left = reader.left \ {l}
      /\ reader'.before = reader.before /\ reader'.found = found
  <2> HIDE DEF found
  <2> QED BY <1>1 DEF TypeOK
<1>6. ASSUME NEW k \in reader.before, k \notin reader.left
      PROVE  \E f \in found : \A d \in metadata[k].data : f.createdAt >= d.createdAt
  <2>1. PICK f \in reader.found : \A d \in metadata[k].data : f.createdAt >= d.createdAt
    BY <1>6 DEF ReaderInv, Seen
  <2>2. CASE takes
    <3>1. PICK e \in Parsed(l) : e.createdAt > f.createdAt
      BY <2>1, <2>2
    <3>2. \A d \in metadata[k].data : d \in LoopMetadata
      BY DEF TypeOK
    <3>3. \A d \in metadata[k].data : e.createdAt >= d.createdAt
      BY <1>2, <1>3, <2>1, <3>1, <3>2, CommandAssumption
    <3> QED BY <2>2, <3>1, <3>3
  <2> QED BY <2>1, <2>2
<1>7. ASSUME l \in reader.before
      PROVE  \E f \in found : \A d \in metadata[l].data : f.createdAt >= d.createdAt
  <2>1. metadata[l].text = "whole" /\ Parsed(l) = metadata[l].data
    BY <1>7 DEF ReaderInv, Whole, Parsed
  <2>2. PICK d \in metadata[l].data : metadata[l].data = {d}
    BY <2>1 DEF LoopsInv, LoopFacts
  <2>3. d \in LoopMetadata
    BY <1>2, <2>1
  <2>4. CASE takes
    BY <1>3, <2>1, <2>2, <2>3, <2>4, CommandAssumption
  <2>5. CASE ~takes
    <3>1. PICK f \in reader.found : ~(d.createdAt > f.createdAt)
      BY <2>1, <2>2, <2>5
    <3> QED BY <1>2, <1>3, <2>2, <2>3, <2>5, <3>1, CommandAssumption
  <2> QED BY <2>4, <2>5
<1>8. TypeOK'
  BY <1>1, <1>4 DEF TypeOK
<1>9. Whole' = Whole /\ metadata' = metadata
  BY <1>1 DEF Whole
<1>10. \A k \in reader'.before \ reader'.left : Seen(k)'
  <2> HIDE DEF found
  <2> QED BY <1>5, <1>6, <1>7, <1>9 DEF Seen
<1> HIDE DEF found
<1> QED BY <1>5, <1>8, <1>9, <1>10 DEF ReaderInv

(* The reader writes nothing.                                              *)
LEMMA ReaderStepKeeps ==
    ASSUME CommandInv, ReaderStep
    PROVE  CommandInv'
<1>1. UNCHANGED <<pc, loop, active, metadata, receipts, now, crowded>>
  BY DEF ReaderStep, ListLoops, ShowLatest, Prompt, ScanLoop
<1>2. LoopsInv' /\ ActiveInv'
  BY <1>1 DEF CommandInv, LoopsInv, ActiveInv, Others
<1>3. CASE ListLoops
  <2>1. reader' = [at |-> "scan", left |-> {l \in Loops : metadata[l].text # "none"},
                   before |-> Whole, found |-> {}]
    BY <1>3 DEF ListLoops, NotReading
  <2>2. Whole \subseteq {l \in Loops : metadata[l].text # "none"}
    BY DEF Whole
  <2>3. TypeOK'
    BY <1>1, <2>1 DEF CommandInv, TypeOK, Whole
  <2>4. Whole' = Whole
    BY <1>1 DEF Whole
  <2>5. ReaderInv'
    BY <2>1, <2>2, <2>4 DEF ReaderInv
  <2> QED BY <1>2, <2>3, <2>5 DEF CommandInv
<1>4. CASE ShowLatest
  <2>1. /\ reader' = [reader EXCEPT !.at = IF reader.found = {} THEN "none" ELSE "latest"]
        /\ reader.left = {}
    BY <1>4 DEF ShowLatest
  <2>2. /\ reader'.left = {} /\ reader'.before = reader.before /\ reader'.found = reader.found
        /\ reader' \in [at : {"prompt", "scan", "none", "latest"}, left : SUBSET Loops,
                        before : SUBSET Loops, found : SUBSET LoopMetadata]
    BY <2>1 DEF CommandInv, TypeOK
  <2>3. TypeOK'
    BY <1>1, <2>2 DEF CommandInv, TypeOK
  <2>4. ReaderInv'
    BY <1>1, <2>1, <2>2 DEF CommandInv, ReaderInv, Seen, Whole
  <2> QED BY <1>2, <2>3, <2>4 DEF CommandInv
<1>5. CASE Prompt
  <2>1. reader' = NotReading
    BY <1>5 DEF Prompt
  <2>2. TypeOK' /\ ReaderInv'
    BY <1>1, <2>1 DEF CommandInv, TypeOK, ReaderInv, NotReading
  <2> QED BY <1>2, <2>2 DEF CommandInv
<1>6. CASE \E l \in Loops : ScanLoop(l)
  BY <1>2, <1>6, ScanSees DEF CommandInv
<1> QED BY <1>3, <1>4, <1>5, <1>6 DEF ReaderStep
-----------------------------------------------------------------------------
(* The invariant and what it implies.                                      *)

(* It holds of a directory no loop has run in.                             *)
LEMMA InitInv == Init => CommandInv
<1> SUFFICES ASSUME Init PROVE CommandInv
  OBVIOUS
<1>1. TypeOK
  BY CommandAssumption DEF Init, TypeOK, NotReading
<1>2. LoopsInv
  BY DEF Init, LoopsInv, LoopFacts, Working
<1>3. ActiveInv /\ ReaderInv
  BY DEF Init, ActiveInv, ReaderInv, NotReading, Named, Live, Others, Whole
<1> QED BY <1>1, <1>2, <1>3 DEF CommandInv

(* Every step keeps it.                                                    *)
LEMMA NextInv == CommandInv /\ [Next]_vars => CommandInv'
<1> SUFFICES ASSUME CommandInv, [Next]_vars PROVE CommandInv'
  OBVIOUS
<1>1. CASE \E l \in Loops : LoopStep(l)
  BY <1>1, LoopStepKeeps, LoopStepActive, LoopStepReader DEF CommandInv
<1>2. CASE ReaderStep
  BY <1>2, ReaderStepKeeps
<1>3. CASE UNCHANGED vars
  BY <1>3 DEF CommandInv, TypeOK, LoopsInv, ActiveInv, Others, ReaderInv, Seen, Whole, vars
<1> QED BY <1>1, <1>2, <1>3 DEF Next

(* So it holds throughout.                                                 *)
LEMMA Invariance == Spec => []CommandInv
  BY InitInv, NextInv, PTL DEF Spec

(* Every variable keeps its type.                                          *)
THEOREM TypeCorrect == Spec => []TypeOK
<1>1. CommandInv => TypeOK
  BY DEF CommandInv
<1> QED BY <1>1, Invariance, PTL

(* However much the user asks for, a destructive task gets no agent, a     *)
(* risky or a broad one gets it once, no task more often than the cap: the *)
(* budget a policy gives is bounded by the task's risk, and the head of    *)
(* runLoop compares it with what is spent before it works.                 *)
THEOREM RiskBounded == Spec => []RiskIsBounded
<1>1. CommandInv => RiskIsBounded
  <2> SUFFICES ASSUME CommandInv, NEW l \in Loops, NEW x \in loop[l]
               PROVE  /\ x.task # "destructive"
                      /\ x.used <= IF x.task \in {"risky", "broad"} THEN 1 ELSE IterationCap
    BY DEF RiskIsBounded
  <2>1. Bounded(x) /\ x \in LoopStates
    BY DEF CommandInv, LoopsInv, LoopFacts, TypeOK
  <2>2. x.used \in Nat /\ AllowedWork(x.policy.maxIterations) \in Nat /\ IterationCap \in Nat
    BY <2>1, CommandAssumption DEF LoopStates, LoopPolicies, Numbers, AllowedWork
  <2> QED BY <2>1, <2>2 DEF Bounded
<1> QED BY <1>1, Invariance, PTL

(* A loop that left on its budget worked as often as --max let it; its     *)
(* receipt says CONTINUE exactly when --max was NaN or a fraction, which   *)
(* the iterations never reach; every other receipt says stop, and no       *)
(* record claims success or proof.                                         *)
THEOREM VerdictsFollowWork == Spec => []VerdictFollowsWork
<1>1. CommandInv => VerdictFollowsWork
  <2> SUFFICES ASSUME CommandInv, NEW l \in Whole, NEW d \in metadata[l].data
               PROVE  /\ receipts[l] # "none"
                      /\ receipts[l] = "CONTINUE" <=> (d.stopReason = Budget /\ ~Reachable(d.maxIterations))
                      /\ d.stopReason = Budget => d.iterationsRun = AllowedWork(d.maxIterations)
                      /\ d.stopReason # "success" /\ d.proofState # "proved"
    BY DEF VerdictFollowsWork, Reachable, AllowedWork, Budget
  <2>1. Recorded(l, d, receipts[l])
    BY DEF CommandInv, LoopsInv, LoopFacts, Whole
  <2> QED BY <2>1 DEF Recorded, Judged
<1> QED BY <1>1, Invariance, PTL

(* active.json never names a loop that has come to its end, an undisturbed *)
(* loop is named while it works, and the record `loop status' prints is    *)
(* that of a loop about to clear its entry, or of a dead one.              *)
THEOREM ActiveIsTruthful == Spec => []ActiveTellsTruth
<1>1. CommandInv => ActiveTellsTruth
  <2> SUFFICES ASSUME CommandInv PROVE ActiveTellsTruth
    OBVIOUS
  <2>1. \A l \in readActiveLoop : l \in Loops /\ pc[l] \in Named \union {"dead"}
    BY DEF CommandInv, TypeOK, ActiveInv, readActiveLoop
  <2>2. \A l \in Loops \ crowded : pc[l] \in Named => readActiveLoop = {l}
    BY DEF CommandInv, ActiveInv, readActiveLoop
  <2>3. ASSUME NEW d \in Status PROVE pc[d.loop] \in {"clearing", "dead"}
    <3>1. PICK l \in readActiveLoop : d \in Parsed(l)
      BY DEF Status
    <3>2. l \in Loops /\ metadata[l].text = "whole" /\ d \in metadata[l].data
      BY <3>1 DEF Parsed, Whole
    <3>3. d.loop = l /\ pc[l] \notin {"top", "gate", "recording", "saving"}
      BY <3>2 DEF CommandInv, LoopsInv, LoopFacts, Recorded, Working
    <3> QED BY <2>1, <3>1, <3>3 DEF Named
  <2> QED BY <2>1, <2>2, <2>3 DEF ActiveTellsTruth, Named, Live
<1> QED BY <1>1, Invariance, PTL

(* `loop latest' shows a loop at least as young as each one whose file was *)
(* there when it began, whatever is torn or written meanwhile.             *)
THEOREM LatestYoungest == Spec => []LatestIsYoungest
<1>1. CommandInv => LatestIsYoungest
  BY DEF CommandInv, ReaderInv, Seen, LatestIsYoungest
<1> QED BY <1>1, Invariance, PTL
=============================================================================
