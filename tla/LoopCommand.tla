---------------------------- MODULE LoopCommand ----------------------------
(***************************************************************************)
(* `avorelo loop check|start|status|latest|resume|receipt` over one        *)
(* directory (surfaces/cli/avorelo.ts, cmdLoop): readiness, the policy and *)
(* its checks, several loop processes that share active.json, and a reader *)
(* of what they leave in .avorelo/loops.                                   *)
(*                                                                         *)
(* What one loop does between its files is the module LoopControl; here an *)
(* iteration is its verdict.  The Claude Code adapter reports no command   *)
(* and never lets the event loop turn, so that neither a destructive       *)
(* command nor an abort ends a loop of this command line.  A task is       *)
(* the pattern list it matches first.  A file write is two steps, the      *)
(* truncation and the text; an exception leaves the files a kill leaves.   *)
(***************************************************************************)
EXTENDS Integers, FiniteSets

CONSTANTS Loops,      \* loop processes, and the ids of their loops
          Requests,   \* what each may be asked: the task, --max and --check
          Project,    \* what check detection finds in the directory
          IterationCap, \* the most --max can ask for (10 in the code)
          MaxTime     \* bound of the clock

TaskKinds == {"destructive", "broad", "risky", "plain"}

(* What Number() makes of a text: a whole number, a fraction (between n    *)
(* and n + 1), or NaN; an infinity is a whole number beyond every bound.   *)
Numbers == [kind : {"whole", "fraction"}, n : Int] \union [kind : {"NaN"}, n : {0}]

(* --max may be left out.                                                  *)
MaxOptions == Numbers \union [kind : {"absent"}, n : {0}]

(* No recommendation is above the cap.                                     *)
ASSUME CommandAssumption ==
    /\ \A l \in Loops : \A r \in Requests[l] :
          r.task \in TaskKinds /\ r.max \in MaxOptions /\ IsFiniteSet(r.checks)
    /\ IterationCap \in Nat /\ IterationCap >= 3
    /\ MaxTime \in Nat

LoopModes == {"single_run", "bounded_loop"}
LoopReadinessStatus == {"safe_to_loop", "safe_with_bounded_loop", "needs_human_gate",
                        "not_suitable", "blocked"}
RiskClasses == {"low", "medium", "high", "critical"}
(* Why a loop stops, up to what the files tell apart: the budget of        *)
(* iterations, that of minutes, and three kinds of last iteration.         *)
LoopStopReasons == {"budget_max_iterations", "budget_max_runtime", "failure", "safety",
                    "success"}
LoopProofStates == {"proved", "partially_proved", "not_proved", "needs_attention"}
-----------------------------------------------------------------------------
(* Readiness.                                                              *)

LoopReadinessResults ==
    [classification : LoopReadinessStatus, riskTier : RiskClasses,
     recommendedMode : LoopModes, recommendedMaxIterations : 1..5]

defaultIterations == [low |-> 5, medium |-> 3, high |-> 2, critical |-> 1]

defaultMode(risk) == IF risk = "critical" THEN "single_run" ELSE "bounded_loop"

result(classification, risk) ==
    [classification |-> classification, riskTier |-> risk,
     recommendedMode |-> defaultMode(risk),
     recommendedMaxIterations |-> defaultIterations[risk]]

(* No caller passes a contract: its branches are left out.                 *)
classifyLoopReadiness(task) ==
    CASE task = "destructive" -> result("blocked", "critical")
      [] task = "broad" ->
            [result("not_suitable", "medium") EXCEPT !.recommendedMode = "single_run",
                                                     !.recommendedMaxIterations = 1]
      [] task = "risky" -> result("needs_human_gate", "high")
      [] task = "plain" -> result("safe_with_bounded_loop", "medium")
-----------------------------------------------------------------------------
(* The checks and the policy.                                              *)

(* A package.json that does not parse yields nothing.  test:local hides    *)
(* test, typecheck hides type-check.                                       *)
detectFromPackageJson ==
    LET s == IF Project.packageParses THEN Project.scripts ELSE {}
    IN  (s \intersect {"lint"})
          \union (IF "test:local" \in s THEN {"test:local"} ELSE s \intersect {"test"})
          \union (IF "typecheck" \in s THEN {"typecheck"} ELSE s \intersect {"type-check"})

detectCheckCommands ==
    detectFromPackageJson \union (Project.tools \intersect {"pytest", "go test", "cargo test"})

ScopeCheck == "scope check"

(* Every policy ends in a scope check, which has no command.               *)
buildChecks(userChecks) ==
    {ScopeCheck} \union (IF userChecks # {} THEN userChecks ELSE detectCheckCommands)

(* The checks there may be.                                                *)
CheckNames ==
    {ScopeCheck} \union detectCheckCommands
        \union UNION {r.checks : r \in UNION {Requests[l] : l \in Loops}}

(* Math.min(userMax, IterationCap): NaN stays NaN, and a fraction or a     *)
(* negative number what it is.                                             *)
Capped(max) ==
    IF max.kind # "NaN" /\ max.n >= IterationCap
    THEN [kind |-> "whole", n |-> IterationCap] ELSE max

MaxIterations(readiness, userMax) ==
    IF userMax.kind # "absent" THEN Capped(userMax)
    ELSE [kind |-> "whole",
          n |-> IF readiness.classification \in {"needs_human_gate", "blocked"} THEN 1
                ELSE readiness.recommendedMaxIterations]

Mode(readiness) ==
    IF readiness.classification \in {"needs_human_gate", "blocked"} THEN "single_run"
    ELSE readiness.recommendedMode

LoopPolicies == [mode : LoopModes, maxIterations : Numbers,
                 requiredChecks : SUBSET CheckNames]

(* The locals of runLoop.                                                  *)
LoopStates == [task : TaskKinds, policy : LoopPolicies, used : Nat, failed : SUBSET CheckNames,
               stop : LoopStopReasons]

(* Slip: what the user asks for is applied last.                           *)
SlipPolicy(readiness, userMax, userChecks) ==
    [mode |-> Mode(readiness), maxIterations |-> MaxIterations(readiness, userMax),
     requiredChecks |-> buildChecks(userChecks)]

buildLoopPolicy(readiness, userMax, userChecks) ==
    [mode |-> Mode(readiness),
     maxIterations |-> IF Mode(readiness) = "single_run" THEN [kind |-> "whole", n |-> 1]
                       ELSE MaxIterations(readiness, userMax),
     requiredChecks |-> buildChecks(userChecks)]

(* What loop check shows (it takes no --max) and loop start works with.    *)
LoopCheck(r) ==
    LET readiness == classifyLoopReadiness(r.task)
    IN  [readiness |-> readiness, policy |-> buildLoopPolicy(readiness, r.max, r.checks)]

(* i <= policy.maxIterations for the next i.                               *)
MayWork(max, used) == max.kind # "NaN" /\ used + 1 <= max.n

(* iterations.length >= policy.maxIterations: no whole number reaches a    *)
(* fraction before it exceeds it, and none reaches NaN.                    *)
LimitReached(max, used) ==
    CASE max.kind = "whole" -> used >= max.n
      [] max.kind = "fraction" -> used > max.n
      [] max.kind = "NaN" -> FALSE

(* Slip: a limit counts as reached when the loop may not work again.       *)
SlipConditionMet(stop, max, used) ==
    stop # "budget_max_iterations" \/ ~MayWork(max, used)

StopConditionMet(stop, max, used) ==
    stop # "budget_max_iterations" \/ LimitReached(max, used)
-----------------------------------------------------------------------------
VARIABLES
    pc,        \* where each loop process is
    loop,      \* its local state, as a set of at most one record
    active,    \* active.json
    metadata,  \* loop_<id>.json of each loop
    receipts,  \* the decision of the kernel receipt of each loop
    now,       \* the clock, as far as two loops can tell times apart
    reader,    \* the process that shows loops
    crowded    \* (history) loops under way together with another one

vars == <<pc, loop, active, metadata, receipts, now, reader, crowded>>

NotReading == [at |-> "prompt", left |-> {}, before |-> {}, found |-> {}]

Live == {"opening", "naming", "top", "gate", "recording", "saving", "clearing", "closing"}

Init ==
    /\ pc = [l \in Loops |-> "idle"]
    /\ loop = [l \in Loops |-> {}]
    /\ active = [text |-> "none", loop |-> {}]
    /\ metadata = [l \in Loops |-> [text |-> "none", data |-> {}]]
    /\ receipts = [l \in Loops |-> "none"]
    /\ now = 0
    /\ reader = NotReading
    /\ crowded = {}

Goto(l, label) == pc' = [pc EXCEPT ![l] = label]
The(l) == CHOOSE x \in loop[l] : TRUE
Becomes(l, x) == loop' = [loop EXCEPT ![l] = {x}]
-----------------------------------------------------------------------------
(* loop start.                                                             *)

Others(l) == {k \in Loops \ {l} : pc[k] \in Live}

StartBlocked(l, r) ==
    /\ pc[l] = "idle"
    /\ LoopCheck(r).readiness.classification = "blocked"
    /\ Goto(l, "refused")
    /\ UNCHANGED <<loop, active, metadata, receipts, now, reader, crowded>>

(* `claude --version' fails.                                               *)
StartUnavailable(l) ==
    /\ pc[l] = "idle"
    /\ Goto(l, "refused")
    /\ UNCHANGED <<loop, active, metadata, receipts, now, reader, crowded>>

Start(l, r) ==
    /\ pc[l] = "idle"
    /\ LoopCheck(r).readiness.classification # "blocked"
    /\ Becomes(l, [task |-> r.task, policy |-> LoopCheck(r).policy,
                   used |-> 0, failed |-> {}, stop |-> "budget_max_iterations"])
    /\ crowded' = IF Others(l) = {} THEN crowded ELSE crowded \union {l} \union Others(l)
    /\ Goto(l, "opening")
    /\ UNCHANGED <<active, metadata, receipts, now, reader>>

(* writeFileSync: the file is truncated, then the text written from the    *)
(* start.  A text that is shorter than what another process has written    *)
(* meanwhile leaves the other's tail; the cleared text is the shorter one. *)
TruncateActive == active' = [text |-> "empty", loop |-> {}]

PutActive(text, ids) ==
    active' = IF text = "cleared" /\ active.text \in {"running", "torn"}
              THEN [text |-> "torn", loop |-> {}]
              ELSE [text |-> text, loop |-> ids]

OpenActive(l) ==
    /\ pc[l] = "opening"
    /\ TruncateActive
    /\ Goto(l, "naming")
    /\ UNCHANGED <<loop, metadata, receipts, now, reader, crowded>>

NameActive(l) ==
    /\ pc[l] = "naming"
    /\ PutActive("running", {l})
    /\ Goto(l, "top")
    /\ UNCHANGED <<loop, metadata, receipts, now, reader, crowded>>

(* The head of the loop: the budget, then the clock.                       *)
LeaveOnBudget(l) ==
    /\ pc[l] = "top"
    /\ ~MayWork(The(l).policy.maxIterations, The(l).used)
    /\ Goto(l, "gate")
    /\ UNCHANGED <<loop, active, metadata, receipts, now, reader, crowded>>

LeaveOnRuntime(l) ==
    /\ pc[l] = "top"
    /\ MayWork(The(l).policy.maxIterations, The(l).used)
    /\ Becomes(l, [The(l) EXCEPT !.stop = "budget_max_runtime"])
    /\ Goto(l, "gate")
    /\ UNCHANGED <<active, metadata, receipts, now, reader, crowded>>

(* What an iteration may come to, tested in the order of the code: a       *)
(* blocking finding; an agent that fails, a check that fails again or no   *)
(* change; going on.  All checks never pass, the scope check being one.    *)
Outcomes(x) ==
    [failed : SUBSET (x.policy.requiredChecks \ {ScopeCheck}), blocked : BOOLEAN,
     stuck : BOOLEAN]

Verdict(x, o) ==
    IF o.blocked THEN "safety"
    ELSE IF o.stuck \/ o.failed \intersect x.failed # {} THEN "failure"
    ELSE "go_on"

Iterate(l) ==
    /\ pc[l] = "top"
    /\ MayWork(The(l).policy.maxIterations, The(l).used)
    /\ \E o \in Outcomes(The(l)) :
         LET v == Verdict(The(l), o)
         IN  /\ Becomes(l, [The(l) EXCEPT !.used = @ + 1, !.failed = o.failed,
                                          !.stop = IF v = "go_on" THEN @ ELSE v])
             /\ Goto(l, IF v = "go_on" THEN "top" ELSE "gate")
    /\ UNCHANGED <<active, metadata, receipts, now, reader, crowded>>

(* The gate's verdict without OUTCOME evidence, and the receipt.           *)
PersistReceipt(l) ==
    /\ pc[l] = "gate"
    /\ receipts' = [receipts EXCEPT ![l] =
         IF \/ The(l).stop = "safety"
            \/ StopConditionMet(The(l).stop, The(l).policy.maxIterations, The(l).used)
         THEN "STOP_BLOCKED" ELSE "CONTINUE"]
    /\ Goto(l, "recording")
    /\ UNCHANGED <<loop, active, metadata, now, reader, crowded>>

(* The scope check is not_run, so that not every result is "passed".       *)
deriveProofState(x) ==
    IF x.stop = "safety" THEN "needs_attention"
    ELSE IF x.failed # {} THEN "partially_proved" ELSE "not_proved"

LoopMetadata ==
    [loop : Loops, createdAt : 0..MaxTime, iterationsRun : Nat,
     maxIterations : Numbers, stopReason : LoopStopReasons,
     proofState : LoopProofStates, checksFailed : Nat]

buildLoopMetadata(l, x, createdAt) ==
    [loop |-> l, createdAt |-> createdAt, iterationsRun |-> x.used,
     maxIterations |-> x.policy.maxIterations, stopReason |-> x.stop,
     proofState |-> deriveProofState(x), checksFailed |-> Cardinality(x.failed)]

OpenMetadata(l) ==
    /\ pc[l] = "recording"
    /\ now' \in {now, now + 1} \intersect 0..MaxTime
    /\ metadata' = [metadata EXCEPT ![l] =
                      [text |-> "torn", data |-> {buildLoopMetadata(l, The(l), now')}]]
    /\ Goto(l, "saving")
    /\ UNCHANGED <<loop, active, receipts, reader, crowded>>

persistLoopMetadata(l) ==
    /\ pc[l] = "saving"
    /\ metadata' = [metadata EXCEPT ![l].text = "whole"]
    /\ loop' = [loop EXCEPT ![l] = {}]
    /\ Goto(l, "clearing")
    /\ UNCHANGED <<active, receipts, now, reader, crowded>>

(* Slip: a loop that did not succeed returns before it clears the file.    *)
SlipClearActive(l) ==
    /\ pc[l] = "clearing"
    /\ Goto(l, "done")
    /\ UNCHANGED <<active, loop, metadata, receipts, now, reader, crowded>>

clearActiveLoop(l) ==
    /\ pc[l] = "clearing"
    /\ TruncateActive
    /\ Goto(l, "closing")
    /\ UNCHANGED <<loop, metadata, receipts, now, reader, crowded>>

CloseActive(l) ==
    /\ pc[l] = "closing"
    /\ PutActive("cleared", {})
    /\ Goto(l, "done")
    /\ UNCHANGED <<loop, metadata, receipts, now, reader, crowded>>

(* A kill, or an exception of the adapter or of a write: nothing catches.  *)
Kill(l) ==
    /\ pc[l] \in Live
    /\ Goto(l, "dead")
    /\ loop' = [loop EXCEPT ![l] = {}]
    /\ UNCHANGED <<active, metadata, receipts, now, reader, crowded>>
-----------------------------------------------------------------------------
(* The readers.                                                            *)

Whole == {l \in Loops : metadata[l].text = "whole"}
Parsed(l) == IF l \in Whole THEN metadata[l].data ELSE {}

(* readActiveLoop: only a whole file that names a loop is one; loop stop   *)
(* reads the same and does nothing but print.                              *)
readActiveLoop == IF active.text = "running" THEN active.loop ELSE {}

(* loop status: the record of the loop that active.json names, if any.     *)
Status == UNION {Parsed(l) : l \in readActiveLoop}

(* readLatestLoopMetadata: the names are listed once, then the files read  *)
(* one after another; a torn one is passed over.                           *)
ListLoops ==
    /\ reader.at = "prompt"
    /\ reader' = [NotReading EXCEPT !.at = "scan", !.before = Whole,
                    !.left = {l \in Loops : metadata[l].text # "none"}]
    /\ UNCHANGED <<pc, loop, active, metadata, receipts, now, crowded>>

(* Slip: a file that does not parse ends the scan.                         *)
SlipScan(l) ==
    /\ reader.at = "scan" /\ l \in reader.left
    /\ reader' = [reader EXCEPT !.left = IF Parsed(l) = {} THEN {} ELSE @ \ {l},
         !.found = IF \A d \in Parsed(l), f \in @ : d.createdAt > f.createdAt
                   THEN (IF Parsed(l) = {} THEN @ ELSE Parsed(l)) ELSE @]
    /\ UNCHANGED <<pc, loop, active, metadata, receipts, now, crowded>>

ScanLoop(l) ==
    /\ reader.at = "scan" /\ l \in reader.left
    /\ reader' = [reader EXCEPT !.left = @ \ {l},
         !.found = IF Parsed(l) # {} /\ \A d \in Parsed(l), f \in @ : d.createdAt > f.createdAt
                   THEN Parsed(l) ELSE @]
    /\ UNCHANGED <<pc, loop, active, metadata, receipts, now, crowded>>

ShowLatest ==
    /\ reader.at = "scan" /\ reader.left = {}
    /\ reader' = [reader EXCEPT !.at = IF reader.found = {} THEN "none" ELSE "latest"]
    /\ UNCHANGED <<pc, loop, active, metadata, receipts, now, crowded>>

Prompt ==
    /\ reader.at \in {"none", "latest"}
    /\ reader' = NotReading
    /\ UNCHANGED <<pc, loop, active, metadata, receipts, now, crowded>>
-----------------------------------------------------------------------------
LoopStep(l) ==
    \/ \E r \in Requests[l] : StartBlocked(l, r) \/ Start(l, r)
    \/ StartUnavailable(l)
    \/ OpenActive(l) \/ NameActive(l) \/ LeaveOnBudget(l) \/ LeaveOnRuntime(l)
    \/ Iterate(l) \/ PersistReceipt(l) \/ OpenMetadata(l) \/ persistLoopMetadata(l)
    \/ clearActiveLoop(l) \/ CloseActive(l) \/ Kill(l)

ReaderStep ==
    \/ ListLoops \/ ShowLatest \/ Prompt
    \/ \E l \in Loops : ScanLoop(l)

Next == ReaderStep \/ \E l \in Loops : LoopStep(l)

Spec == Init /\ [][Next]_vars
-----------------------------------------------------------------------------
(* Properties.                                                             *)

(* Every variable has its type.                                            *)
TypeOK ==
    /\ pc \in [Loops -> Live \union {"idle", "refused", "done", "dead"}]
    /\ loop \in [Loops -> SUBSET LoopStates]
    /\ active \in [text : {"none", "empty", "torn", "cleared", "running"}, loop : SUBSET Loops]
    /\ metadata \in [Loops -> [text : {"none", "torn", "whole"}, data : SUBSET LoopMetadata]]
    /\ receipts \in [Loops -> {"none", "STOP_BLOCKED", "CONTINUE"}]
    /\ now \in 0..MaxTime
    /\ reader \in [at : {"prompt", "scan", "none", "latest"}, left : SUBSET Loops,
                   before : SUBSET Loops, found : SUBSET LoopMetadata]
    /\ crowded \in SUBSET Loops

(* However much the user asks for: a task the readiness check calls        *)
(* destructive never gets an agent, a risky or a broad one gets it once,   *)
(* and no task more often than the cap (readiness.ts, policy-builder.ts and    *)
(* the head of runLoop).                                                   *)
RiskIsBounded ==
    \A l \in Loops : \A x \in loop[l] :
        /\ x.task # "destructive"
        /\ x.used <= IF x.task \in {"risky", "broad"} THEN 1 ELSE IterationCap

(* A loop that left at the head of its for loop has worked as often as     *)
(* --max let it; its receipt lets work go on exactly when --max was no     *)
(* whole number that the iterations could reach (NaN, or 2.5), and the     *)
(* receipt of every other recorded loop says stop.  None is recorded as a  *)
(* success or proved: the scope check is never passed.                     *)
VerdictFollowsWork ==
    \A l \in Whole : \A d \in metadata[l].data :
        LET max == d.maxIterations
            reachable == max.kind = "whole" \/ (max.kind = "fraction" /\ max.n < 0)
        IN  /\ receipts[l] # "none"
            /\ receipts[l] = "CONTINUE" <=>
                  d.stopReason = "budget_max_iterations" /\ ~reachable
            /\ d.stopReason = "budget_max_iterations" =>
                  d.iterationsRun = IF max.kind = "NaN" \/ max.n < 0 THEN 0 ELSE max.n
            /\ d.stopReason # "success" /\ d.proofState # "proved"

(* Whatever runs at the same time, active.json never names a loop that has *)
(* come to its end, so `loop status' never calls one running; and a loop   *)
(* that shares the directory with no other is named as long as it works.   *)
(* The record status prints beside "running" is that of a loop about to    *)
(* clear its entry.  A loop that died keeps its entry.                     *)
ActiveTellsTruth ==
    /\ \A l \in readActiveLoop : pc[l] \in Live \union {"dead"}
    /\ \A l \in Loops \ crowded :
          pc[l] \in {"top", "gate", "recording", "saving", "clearing"} =>
              readActiveLoop = {l}
    /\ \A d \in Status : pc[d.loop] \in {"clearing", "dead"}

(* `loop latest' and `loop resume' show no loop that is older than one     *)
(* whose file was there when the command began, and show one if there was  *)
(* one, whatever is torn or written meanwhile.                             *)
LatestIsYoungest ==
    reader.at \in {"none", "latest"} =>
        \A l \in reader.before : \E f \in reader.found :
            \A d \in metadata[l].data : f.createdAt >= d.createdAt
=============================================================================
