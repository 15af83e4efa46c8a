-------------------------- MODULE TaskQueue_proofs --------------------------
(***************************************************************************)
(* Theorems about TaskQueue, for every number of tasks, clock bound, set   *)
(* of configurations and choice of retries; and about WorkArtifacts, the   *)
(* files that say how a task is to be done, for every set of tasks,        *)
(* processes, worktrees and changes.                                       *)
(***************************************************************************)
EXTENDS TaskQueue, WorkArtifacts, FiniteSetTheorems, TLAPS

(* The ids are finitely many, so every set of them has a cardinality.      *)
LEMMA IdSetsFinite ==
    /\ IsFiniteSet(Ids)
    /\ \A S \in SUBSET Ids : IsFiniteSet(S) /\ Cardinality(S) \in Nat
<1>1. IsFiniteSet(Ids)
  BY FS_Interval, QueueAssumption DEF Ids
<1> QED
  BY <1>1, FS_Subset, FS_CardinalityType

(* The size of a list after one task is pushed onto it or spliced out.     *)
LEMMA AddedToIds ==
    ASSUME NEW S \in SUBSET Ids, NEW x
    PROVE  /\ Cardinality(S \union {x}) \in Nat
           /\ Cardinality(S \union {x}) <= Cardinality(S) + 1
<1>1. IsFiniteSet(S) /\ Cardinality(S) \in Nat
  BY IdSetsFinite
<1>2. Cardinality(S \union {x}) = IF x \in S THEN Cardinality(S) ELSE Cardinality(S) + 1
  BY <1>1, FS_AddElement
<1> QED
  BY <1>1, <1>2

(* What each operation writes into a task object is a task object.         *)
LEMMA StatusTyped ==
    ASSUME NEW r \in TaskRecords, NEW s \in Statuses
    PROVE  [r EXCEPT !.status = s] \in TaskRecords
  BY DEF TaskRecords

(* dequeueNext marks a task running and stamps its start.                  *)
LEMMA StartedTyped ==
    ASSUME NEW r \in TaskRecords, NEW n \in Nat
    PROVE  [r EXCEPT !.status = "running", !.startedAt = n] \in TaskRecords
  BY DEF TaskRecords, Statuses

(* failTask puts a task back with one retry more and no start time.        *)
LEMMA RequeuedTyped ==
    ASSUME NEW r \in TaskRecords, NEW k \in Nat, NEW n \in Nat
    PROVE  [r EXCEPT !.status = "queued", !.retryCount = k, !.startedAt = 0, !.pushed = n]
             \in TaskRecords
  BY DEF TaskRecords, Statuses

(* The module's initial variables are well typed.                          *)
LEMMA InitTyped == Init => TypeOK
  BY QueueAssumption DEF Init, Fresh, TypeOK, TaskRecords, NoTask, Statuses, Ids

(* Every exported operation keeps the queue well typed.                    *)
LEMMA NextTyped == TypeOK /\ [Next]_vars => TypeOK'
<1> SUFFICES ASSUME TypeOK, [Next]_vars PROVE TypeOK'
  OBVIOUS
<1>1. ASSUME NEW c \in Configs, configureTaskQueue(c) PROVE TypeOK'
  BY <1>1 DEF TypeOK, configureTaskQueue, lists, totals
<1>2. ASSUME NEW p \in Priorities, NEW r \in RetryChoices, NEW ms \in Timeouts,
             enqueueTask(p, r, ms)
      PROVE TypeOK'
  <2>1. [priority |-> p, status |-> "queued", maxRetries |-> r, retryCount |-> 0,
         timeoutMs |-> ms, queuedAt |-> now, startedAt |-> 0, pushed |-> pushes + 1]
          \in TaskRecords
    BY QueueAssumption DEF TypeOK, TaskRecords, Statuses
  <2>2. task' \in [Ids -> TaskRecords]
    BY <1>2, <2>1 DEF TypeOK, enqueueTask, Push
  <2>3. nextId' \in 1..(MaxTasks + 1)
    BY <1>2, QueueAssumption DEF TypeOK, enqueueTask, Ids
  <2> QED
    BY <1>2, <2>2, <2>3 DEF TypeOK, enqueueTask, Push, totals
<1>3. ASSUME NEW t \in Ids, dequeueNext(t) PROVE TypeOK'
  <2>1. task' \in [Ids -> TaskRecords]
    BY <1>3, StartedTyped DEF TypeOK, dequeueNext
  <2> QED
    BY <1>3, <2>1 DEF TypeOK, dequeueNext, totals
<1>4. ASSUME NEW t \in Ids, completeTask(t) PROVE TypeOK'
  <2>1. task' \in [Ids -> TaskRecords]
    BY <1>4, StatusTyped DEF TypeOK, completeTask, Statuses
  <2> QED
    BY <1>4, <2>1 DEF TypeOK, completeTask
<1>5. ASSUME NEW t \in Ids, RetryTask(t) PROVE TypeOK'
  <2> DEFINE requeued == [task[t] EXCEPT !.status = "queued", !.retryCount = @ + 1,
                                         !.startedAt = 0, !.pushed = pushes + 1]
  <2>1. requeued \in TaskRecords
    <3>1. task[t] \in TaskRecords /\ pushes + 1 \in Nat
      BY DEF TypeOK
    <3>2. task[t].retryCount + 1 \in Nat
      BY <3>1 DEF TaskRecords
    <3> QED
      BY <3>1, <3>2, RequeuedTyped
  <2>2. task' \in [Ids -> TaskRecords]
    BY <1>5, <2>1 DEF TypeOK, RetryTask, Push
  <2> QED
    BY <1>5, <2>2 DEF TypeOK, RetryTask, Push, totals
<1>6. ASSUME NEW t \in Ids, FailForGood(t) PROVE TypeOK'
  <2>1. task' \in [Ids -> TaskRecords]
    BY <1>6, StatusTyped DEF TypeOK, FailForGood, Statuses
  <2> QED
    BY <1>6, <2>1 DEF TypeOK, FailForGood
<1>7. ASSUME NEW t \in Ids, cancelTask(t) PROVE TypeOK'
  <2>1. task' \in [Ids -> TaskRecords]
    BY <1>7, StatusTyped DEF TypeOK, cancelTask, Statuses
  <2> QED
    BY <1>7, <2>1 DEF TypeOK, cancelTask, totals
<1>8. ASSUME timeoutExpiredTasks PROVE TypeOK'
  <2> DEFINE timedOut == {t \in running : Expired(t)}
  <2>1. timedOut \subseteq Ids /\ Cardinality(timedOut) \in Nat
    BY IdSetsFinite DEF TypeOK
  <2>2. /\ failed' = failed \union timedOut
        /\ running' = running \ timedOut
        /\ totalTimedOut' = totalTimedOut + Cardinality(timedOut)
        /\ task' = [t \in Ids |-> IF t \in timedOut
                                   THEN [task[t] EXCEPT !.status = "timed_out"] ELSE task[t]]
    BY <1>8 DEF timeoutExpiredTasks
  <2> HIDE DEF timedOut
  <2>3. task' \in [Ids -> TaskRecords]
    BY <2>2, StatusTyped DEF TypeOK, Statuses
  <2> QED
    BY <1>8, <2>1, <2>2, <2>3 DEF TypeOK, timeoutExpiredTasks
<1>9. ASSUME resetTaskQueue PROVE TypeOK'
  BY <1>9, QueueAssumption DEF TypeOK, resetTaskQueue, TaskRecords, NoTask, Statuses, Ids
<1>10. ASSUME Tick PROVE TypeOK'
  BY <1>10 DEF TypeOK, Tick, lists, totals
<1>11. CASE UNCHANGED vars
  BY <1>11 DEF TypeOK, vars, lists, totals
<1> QED
  BY <1>1, <1>2, <1>3, <1>4, <1>5, <1>6, <1>7, <1>8, <1>9, <1>10, <1>11
     DEF Next, Operation, failTask

(* Every reachable state of the queue is well typed.                       *)
THEOREM TypeCorrect == Spec => []TypeOK
  BY InitTyped, NextTyped, PTL DEF Spec
-----------------------------------------------------------------------------
(* An id not issued is blank, a task waits without a start time and runs   *)
(* with one; with the types and the lists this is inductive.               *)
StartMatchesStatus ==
    \A t \in Ids :
        /\ task[t].status = "none" => task[t] = NoTask
        /\ task[t].status = "queued" => task[t].startedAt = 0
        /\ task[t].status = "running" => task[t].startedAt # 0

QueueInv == TypeOK /\ OneList /\ StartMatchesStatus /\ AttemptsBounded

(* An empty queue satisfies the inductive invariant.                       *)
LEMMA InitQueueInv == Init => QueueInv
<1> SUFFICES ASSUME Init PROVE QueueInv
  OBVIOUS
<1>1. TypeOK
  BY InitTyped
<1>2. \A t \in Ids : task[t] = NoTask /\ starts[t] = 0 /\ t >= 1
  BY QueueAssumption DEF Init, Fresh, Ids
<1>3. OneList
  BY <1>2 DEF Init, Fresh, OneList, WithStatus, NoTask
<1>4. StartMatchesStatus /\ AttemptsBounded
  BY <1>2 DEF StartMatchesStatus, AttemptsBounded, NoTask
<1> QED
  BY <1>1, <1>3, <1>4 DEF QueueInv

(* How an operation that rewrites one task object changes the lists.       *)
LEMMA NextOneList == QueueInv /\ [Next]_vars => OneList'
<1> SUFFICES ASSUME QueueInv, [Next]_vars PROVE OneList'
  OBVIOUS
<1> USE DEF QueueInv, OneList, WithStatus
<1>0. task \in [Ids -> TaskRecords]
  BY DEF TypeOK
<1>1. ASSUME NEW c \in Configs, configureTaskQueue(c) PROVE OneList'
  BY <1>1 DEF configureTaskQueue, lists
<1>2. ASSUME NEW p \in Priorities, NEW r \in RetryChoices, NEW ms \in Timeouts,
             enqueueTask(p, r, ms)
      PROVE OneList'
  <2>1. /\ \A u \in Ids \ {nextId} : task'[u] = task[u]
        /\ task'[nextId].status = "queued" /\ task[nextId].status = "none"
        /\ nextId \in Ids /\ nextId' = nextId + 1
    BY <1>2, <1>0 DEF enqueueTask, Push, Ids
  <2> QED
    BY <1>2, <2>1 DEF enqueueTask, Push, Ids
<1>3. ASSUME NEW t \in Ids, dequeueNext(t) PROVE OneList'
  <2>1. /\ \A u \in Ids \ {t} : task'[u] = task[u]
        /\ task'[t].status = "running" /\ task[t].status = "queued"
    BY <1>3, <1>0 DEF dequeueNext, TaskRecords
  <2> QED
    BY <1>3, <2>1 DEF dequeueNext
<1>4. ASSUME NEW t \in Ids, completeTask(t) PROVE OneList'
  <2>1. /\ \A u \in Ids \ {t} : task'[u] = task[u]
        /\ task'[t].status = "completed" /\ task[t].status = "running"
    BY <1>4, <1>0 DEF completeTask, TaskRecords
  <2> QED
    BY <1>4, <2>1 DEF completeTask
<1>5. ASSUME NEW t \in Ids, RetryTask(t) PROVE OneList'
  <2>1. /\ \A u \in Ids \ {t} : task'[u] = task[u]
        /\ task'[t].status = "queued" /\ task[t].status = "running"
    BY <1>5, <1>0 DEF RetryTask, Push, TaskRecords
  <2> QED
    BY <1>5, <2>1 DEF RetryTask, Push
<1>6. ASSUME NEW t \in Ids, FailForGood(t) PROVE OneList'
  <2>1. /\ \A u \in Ids \ {t} : task'[u] = task[u]
        /\ task'[t].status = "failed" /\ task[t].status = "running"
    BY <1>6, <1>0 DEF FailForGood, TaskRecords
  <2> QED
    BY <1>6, <2>1 DEF FailForGood
<1>7. ASSUME NEW t \in Ids, cancelTask(t) PROVE OneList'
  <2>1. /\ \A u \in Ids \ {t} : task'[u] = task[u]
        /\ task'[t].status = "cancelled" /\ task[t].status \in {"queued", "running"}
    BY <1>7, <1>0 DEF cancelTask, TaskRecords
  <2> QED
    BY <1>7, <2>1 DEF cancelTask
<1>8. ASSUME timeoutExpiredTasks PROVE OneList'
  <2> DEFINE timedOut == {t \in running : Expired(t)}
  <2>1. /\ \A u \in Ids \ timedOut : task'[u] = task[u]
        /\ \A u \in timedOut : u \in running /\ task'[u].status = "timed_out"
        /\ failed' = failed \union timedOut /\ running' = running \ timedOut
    BY <1>8, <1>0 DEF timeoutExpiredTasks, TaskRecords
  <2>2. timedOut \subseteq WithStatus("running")
    OBVIOUS
  <2> HIDE DEF timedOut
  <2> QED
    BY <1>8, <2>1, <2>2 DEF timeoutExpiredTasks
<1>9. ASSUME resetTaskQueue PROVE OneList'
  BY <1>9, QueueAssumption DEF resetTaskQueue, NoTask, Ids
<1>10. ASSUME Tick PROVE OneList'
  BY <1>10 DEF Tick, lists
<1>11. CASE UNCHANGED vars
  BY <1>11 DEF vars, lists
<1> QED
  BY <1>1, <1>2, <1>3, <1>4, <1>5, <1>6, <1>7, <1>8, <1>9, <1>10, <1>11
     DEF Next, Operation, failTask
-----------------------------------------------------------------------------
(* startedAt is set exactly while a task has an attempt that no retry has  *)
(* taken back, so each start is paid for by a retry (failTask).            *)
LEMMA NextAttempts == QueueInv /\ [Next]_vars => (StartMatchesStatus /\ AttemptsBounded)'
<1> DEFINE Goal == StartMatchesStatus /\ AttemptsBounded
<1> SUFFICES ASSUME QueueInv, [Next]_vars PROVE Goal'
  OBVIOUS
<1> USE DEF QueueInv, StartMatchesStatus, AttemptsBounded
<1>0. /\ task \in [Ids -> TaskRecords] /\ starts \in [Ids -> Nat] /\ now \in Nat \ {0}
      /\ \A t \in Ids : task[t].retryCount \in Nat /\ task[t].maxRetries \in Nat
  BY QueueAssumption DEF TypeOK, TaskRecords
<1>1. ASSUME NEW c \in Configs, configureTaskQueue(c) PROVE Goal'
  BY <1>1 DEF configureTaskQueue, lists
<1>2. ASSUME NEW p \in Priorities, NEW r \in RetryChoices, NEW ms \in Timeouts,
             enqueueTask(p, r, ms)
      PROVE Goal'
  <2>1. /\ \A u \in Ids \ {nextId} : task'[u] = task[u]
        /\ task'[nextId].status = "queued" /\ task'[nextId].startedAt = 0
        /\ task'[nextId].retryCount = 0 /\ task'[nextId].maxRetries = r
        /\ nextId \in Ids /\ starts' = starts
    BY <1>2, <1>0 DEF enqueueTask, Push
  <2>2. task[nextId].status = "none"
    BY <2>1, <1>0 DEF OneList, Ids
  <2>3. starts[nextId] = 0
    <3>1. task[nextId] = NoTask
      BY <2>1, <2>2
    <3> QED
      BY <2>1, <3>1, <1>0 DEF NoTask
  <2> QED
    BY <2>1, <2>3, <1>0, QueueAssumption
<1>3. ASSUME NEW t \in Ids, dequeueNext(t) PROVE Goal'
  <2>1. /\ \A u \in Ids \ {t} : task'[u] = task[u] /\ starts'[u] = starts[u]
        /\ task'[t].status = "running" /\ task'[t].startedAt = now
        /\ task'[t].retryCount = task[t].retryCount
        /\ task'[t].maxRetries = task[t].maxRetries
        /\ starts'[t] = starts[t] + 1 /\ task[t].status = "queued"
    BY <1>3, <1>0 DEF dequeueNext, TaskRecords, OneList, WithStatus
  <2> QED
    BY <2>1, <1>0
<1>4. ASSUME NEW t \in Ids, completeTask(t) PROVE Goal'
  <2>1. /\ \A u \in Ids \ {t} : task'[u] = task[u]
        /\ task'[t] = [task[t] EXCEPT !.status = "completed"] /\ starts' = starts
    BY <1>4, <1>0 DEF completeTask
  <2> QED
    BY <2>1, <1>0 DEF TaskRecords
<1>5. ASSUME NEW t \in Ids, RetryTask(t) PROVE Goal'
  <2>1. /\ \A u \in Ids \ {t} : task'[u] = task[u]
        /\ task'[t].status = "queued" /\ task'[t].startedAt = 0
        /\ task'[t].retryCount = task[t].retryCount + 1
        /\ task'[t].maxRetries = task[t].maxRetries
        /\ task[t].status = "running" /\ task[t].retryCount < task[t].maxRetries
        /\ starts' = starts
    BY <1>5, <1>0 DEF RetryTask, Push, TaskRecords, OneList, WithStatus
  <2> QED
    BY <2>1, <1>0
<1>6. ASSUME NEW t \in Ids, FailForGood(t) PROVE Goal'
  <2>1. /\ \A u \in Ids \ {t} : task'[u] = task[u]
        /\ task'[t] = [task[t] EXCEPT !.status = "failed"] /\ starts' = starts
    BY <1>6, <1>0 DEF FailForGood
  <2> QED
    BY <2>1, <1>0 DEF TaskRecords
<1>7. ASSUME NEW t \in Ids, cancelTask(t) PROVE Goal'
  <2>1. /\ \A u \in Ids \ {t} : task'[u] = task[u]
        /\ task'[t] = [task[t] EXCEPT !.status = "cancelled"] /\ starts' = starts
    BY <1>7, <1>0 DEF cancelTask
  <2> QED
    BY <2>1, <1>0 DEF TaskRecords
<1>8. ASSUME timeoutExpiredTasks PROVE Goal'
  <2> DEFINE timedOut == {t \in running : Expired(t)}
  <2>1. \A u \in Ids : task'[u] = IF u \in timedOut
                                  THEN [task[u] EXCEPT !.status = "timed_out"] ELSE task[u]
    BY <1>8 DEF timeoutExpiredTasks
  <2> HIDE DEF timedOut
  <2>2. starts' = starts
    BY <1>8 DEF timeoutExpiredTasks
  <2>3. \A u \in Ids :
           /\ task'[u] = task[u] \/ task'[u].status = "timed_out"
           /\ task'[u].retryCount = task[u].retryCount
           /\ task'[u].maxRetries = task[u].maxRetries
           /\ task'[u].startedAt = task[u].startedAt
    BY <2>1, <1>0 DEF TaskRecords
  <2> QED
    BY <2>2, <2>3, <1>0
<1>9. ASSUME resetTaskQueue PROVE Goal'
  BY <1>9 DEF resetTaskQueue, NoTask
<1>10. ASSUME Tick PROVE Goal'
  BY <1>10 DEF Tick, lists
<1>11. CASE UNCHANGED vars
  BY <1>11 DEF vars, lists
<1> QED
  BY <1>1, <1>2, <1>3, <1>4, <1>5, <1>6, <1>7, <1>8, <1>9, <1>10, <1>11
     DEF Next, Operation, failTask

(* The inductive invariant of the queue: types, lists, start times and     *)
(* attempts.                                                               *)
THEOREM QueueInvariant == Spec => []QueueInv
<1>1. QueueInv /\ [Next]_vars => QueueInv'
  BY NextTyped, NextOneList, NextAttempts DEF QueueInv
<1> QED
  BY InitQueueInv, <1>1, PTL DEF Spec

(* Every task is in exactly the array its status names.                    *)
THEOREM OneListHolds == Spec => []OneList
  BY QueueInvariant, PTL DEF QueueInv

(* No task starts more often than its retries allow.                       *)
THEOREM AttemptsAreBounded == Spec => []AttemptsBounded
  BY QueueInvariant, PTL DEF QueueInv
-----------------------------------------------------------------------------
(* Retries bypass maxQueueSize, yet waiting plus running tasks stay under  *)
(* the largest queue plus the largest concurrency ever configured: a retry *)
(* only moves a task, and an enqueue finds the queue below its maximum.    *)
LEMMA NextWorkBounded == QueueInv /\ WorkBounded /\ [Next]_vars => WorkBounded'
<1> SUFFICES ASSUME QueueInv, WorkBounded, [Next]_vars PROVE WorkBounded'
  OBVIOUS
<1> USE QueueAssumption DEF WorkBounded
<1>0. /\ queue \subseteq Ids /\ running \subseteq Ids
      /\ IsFiniteSet(queue) /\ IsFiniteSet(running)
      /\ Cardinality(queue) \in Nat /\ Cardinality(running) \in Nat
      /\ config.maxQueueSize \in 0..MostQueued /\ config.maxConcurrent \in 0..MostRunning
  BY IdSetsFinite DEF QueueInv, TypeOK
<1>1. ASSUME NEW c \in Configs, configureTaskQueue(c) PROVE WorkBounded'
  BY <1>1 DEF configureTaskQueue, lists
<1>2. ASSUME NEW p \in Priorities, NEW r \in RetryChoices, NEW ms \in Timeouts,
             enqueueTask(p, r, ms)
      PROVE WorkBounded'
  <2>1. queue' = queue \union {nextId} /\ running' = running
        /\ Cardinality(queue) < config.maxQueueSize
    BY <1>2 DEF enqueueTask, Push
  <2>2. Cardinality(queue') <= Cardinality(queue) + 1 /\ Cardinality(queue') \in Nat
    BY <2>1, <1>0, AddedToIds
  <2> QED
    BY <2>1, <2>2, <1>0
<1>3. ASSUME NEW t \in Ids, dequeueNext(t) PROVE WorkBounded'
  <2>1. /\ queue' = queue \ {t} /\ running' = running \union {t} /\ t \in queue
        /\ Cardinality(running) < config.maxConcurrent
    BY <1>3 DEF dequeueNext
  <2>2. Cardinality(queue') = Cardinality(queue) - 1
    BY <2>1, <1>0, FS_RemoveElement
  <2>3. Cardinality(running') <= Cardinality(running) + 1 /\ Cardinality(running') \in Nat
    BY <2>1, <1>0, AddedToIds
  <2> QED
    BY <2>1, <2>2, <2>3, <1>0
<1>4. ASSUME NEW t \in Ids, completeTask(t) \/ FailForGood(t) PROVE WorkBounded'
  <2>1. queue' = queue /\ running' = running \ {t} /\ t \in running
    BY <1>4 DEF completeTask, FailForGood
  <2>2. Cardinality(running') = Cardinality(running) - 1
    BY <2>1, <1>0, FS_RemoveElement
  <2> QED
    BY <2>1, <2>2, <1>0
<1>5. ASSUME NEW t \in Ids, RetryTask(t) PROVE WorkBounded'
  <2>1. queue' = queue \union {t} /\ running' = running \ {t} /\ t \in running
    BY <1>5 DEF RetryTask, Push
  <2>2. Cardinality(running') = Cardinality(running) - 1
    BY <2>1, <1>0, FS_RemoveElement
  <2>3. Cardinality(queue') <= Cardinality(queue) + 1 /\ Cardinality(queue') \in Nat
    BY <2>1, <1>0, AddedToIds
  <2> QED
    BY <2>2, <2>3, <1>0
<1>6. ASSUME queue' \subseteq queue, running' \subseteq running PROVE WorkBounded'
  <2>1. Cardinality(queue') <= Cardinality(queue) /\ Cardinality(queue') \in Nat
    BY <1>6, <1>0, FS_Subset, FS_CardinalityType
  <2>2. Cardinality(running') <= Cardinality(running) /\ Cardinality(running') \in Nat
    BY <1>6, <1>0, FS_Subset, FS_CardinalityType
  <2> QED
    BY <2>1, <2>2, <1>0
<1>7. ASSUME NEW t \in Ids, cancelTask(t) PROVE WorkBounded'
  BY <1>6, <1>7 DEF cancelTask
<1>8. ASSUME timeoutExpiredTasks PROVE WorkBounded'
  BY <1>6, <1>8 DEF timeoutExpiredTasks
<1>9. ASSUME resetTaskQueue PROVE WorkBounded'
  BY <1>6, <1>9 DEF resetTaskQueue
<1>10. CASE Tick \/ UNCHANGED vars
  BY <1>10 DEF Tick, vars, lists
<1> QED
  BY <1>1, <1>2, <1>3, <1>4, <1>5, <1>7, <1>8, <1>9, <1>10 DEF Next, Operation, failTask

(* Waiting and running tasks stay under the largest queue plus the largest *)
(* concurrency configured (enqueueTask, dequeueNext, failTask).            *)
THEOREM WorkIsBounded == Spec => []WorkBounded
<1>1. Init => WorkBounded
  BY FS_EmptySet, QueueAssumption DEF Init, Fresh, WorkBounded
<1> QED
  BY <1>1, NextWorkBounded, QueueInvariant, PTL DEF Spec
-----------------------------------------------------------------------------
(* A finished task is never finished again, revived or rewritten.          *)
LEMMA StepKeepsEnded ==
    ASSUME QueueInv, [Next]_vars, nextId' >= nextId
    PROVE  /\ completed \subseteq completed' /\ failed \subseteq failed'
           /\ \A t \in completed \union failed : task'[t] = task[t]
<1> DEFINE Ended == completed \union failed
           Goal == /\ completed \subseteq completed' /\ failed \subseteq failed'
                   /\ \A t \in Ended : task'[t] = task[t]
<1> USE DEF QueueInv
<1>0. /\ task \in [Ids -> TaskRecords] /\ Ended \subseteq Ids /\ nextId \in Nat
      /\ Ended \intersect (queue \union running) = {}
      /\ \A t \in Ended : task[t].status # "none"
      /\ \A t \in Ids : task[t].status = "none" <=> t >= nextId
  BY QueueAssumption DEF TypeOK, OneList, WithStatus
<1>1. ASSUME NEW p \in Priorities, NEW r \in RetryChoices, NEW ms \in Timeouts,
             enqueueTask(p, r, ms)
      PROVE Goal
  <2>1. nextId \notin Ended
    BY <1>0
  <2> QED
    BY <1>1, <2>1, <1>0 DEF enqueueTask, Push
<1>2. ASSUME NEW t \in Ids, dequeueNext(t) PROVE Goal
  BY <1>2, <1>0 DEF dequeueNext
<1>3. ASSUME NEW t \in Ids, completeTask(t) PROVE Goal
  BY <1>3, <1>0 DEF completeTask
<1>4. ASSUME NEW t \in Ids, RetryTask(t) PROVE Goal
  BY <1>4, <1>0 DEF RetryTask, Push
<1>5. ASSUME NEW t \in Ids, FailForGood(t) PROVE Goal
  BY <1>5, <1>0 DEF FailForGood
<1>6. ASSUME NEW t \in Ids, cancelTask(t) PROVE Goal
  BY <1>6, <1>0 DEF cancelTask
<1>7. ASSUME timeoutExpiredTasks PROVE Goal
  BY <1>7, <1>0 DEF timeoutExpiredTasks
<1>8. ASSUME resetTaskQueue PROVE Goal
  <2>1. nextId = 1
    BY <1>8, <1>0, QueueAssumption DEF resetTaskQueue, TypeOK
  <2>2. Ended = {}
    BY <2>1, <1>0, QueueAssumption DEF Ids
  <2> QED
    BY <2>2
<1>9. ASSUME UNCHANGED <<task, completed, failed>> PROVE Goal
  BY <1>9
<1> QED
  BY <1>1, <1>2, <1>3, <1>4, <1>5, <1>6, <1>7, <1>8, <1>9
     DEF Next, Operation, failTask, configureTaskQueue, Tick, vars, lists

(* completeTask, failTask, cancelTask and timeoutExpiredTasks never touch a*)
(* task that has ended, however late an answer is.                         *)
THEOREM EndedTasksStay == Spec => EndedStaysEnded
<1>1. QueueInv /\ [Next]_vars =>
        [nextId' >= nextId =>
           /\ completed \subseteq completed'
           /\ failed \subseteq failed'
           /\ \A t \in completed \union failed : task'[t] = task[t]]_vars
  BY StepKeepsEnded
<1> QED
  BY <1>1, QueueInvariant, PTL DEF Spec, EndedStaysEnded
-----------------------------------------------------------------------------
(* The queue implements the abstract life cycle: every operation is one    *)
(* abstract step of the tasks it moves, or none.                           *)
LEMMA InitLifecycle == Init => Lifecycle!LInit
  BY DEF Init, Fresh, Lifecycle!LInit, LifecycleState, NoTask

(* Every operation maps to a step of the life cycle or to none.            *)
LEMMA NextLifecycle ==
    QueueInv /\ [Next]_vars => [Lifecycle!LNext]_(Lifecycle!lVars)
<1> SUFFICES ASSUME QueueInv, [Next]_vars PROVE [Lifecycle!LNext]_(Lifecycle!lVars)
  OBVIOUS
<1> USE DEF QueueInv
<1>0. /\ task \in [Ids -> TaskRecords] /\ starts \in [Ids -> Nat]
      /\ \A t \in Ids : task[t].retryCount \in Nat /\ task[t].maxRetries \in 0..MaxRetries
      /\ \A t \in Ids : starts[t] \in Nat
  BY DEF TypeOK, TaskRecords
<1>1. ASSUME NEW c \in Configs, configureTaskQueue(c) PROVE UNCHANGED Lifecycle!lVars
  BY <1>1 DEF configureTaskQueue, Lifecycle!lVars, LifecycleState
<1>2. ASSUME NEW p \in Priorities, NEW r \in RetryChoices, NEW ms \in Timeouts,
             enqueueTask(p, r, ms)
      PROVE Lifecycle!Accept(nextId) /\ nextId \in Ids
  <2>1. /\ \A u \in Ids \ {nextId} : task'[u] = task[u]
        /\ task'[nextId].status = "queued" /\ nextId \in Ids /\ starts' = starts
    BY <1>2, <1>0 DEF enqueueTask, Push
  <2>2. task[nextId].status = "none"
    BY <2>1 DEF OneList, Ids
  <2> QED
    BY <2>1, <2>2 DEF Lifecycle!Accept, LifecycleState
<1>3. ASSUME NEW t \in Ids, dequeueNext(t) PROVE Lifecycle!Begin(t)
  <2>1. /\ \A u \in Ids \ {t} : task'[u] = task[u]
        /\ task'[t].status = "running" /\ task[t].status = "queued"
        /\ starts' = [starts EXCEPT ![t] = @ + 1]
    BY <1>3, <1>0 DEF dequeueNext, TaskRecords, OneList, WithStatus
  <2>2. starts[t] < MaxRetries + 1
    BY <2>1, <1>0, QueueAssumption DEF AttemptsBounded, StartMatchesStatus
  <2> QED
    BY <2>1, <2>2 DEF Lifecycle!Begin, LifecycleState
<1>4. ASSUME NEW t \in Ids, RetryTask(t) PROVE Lifecycle!Requeue(t)
  <2>1. /\ \A u \in Ids \ {t} : task'[u] = task[u]
        /\ task'[t].status = "queued" /\ task[t].status = "running" /\ starts' = starts
        /\ task[t].retryCount < task[t].maxRetries
    BY <1>4, <1>0 DEF RetryTask, Push, TaskRecords, OneList, WithStatus
  <2>2. starts[t] < MaxRetries + 1
    BY <2>1, <1>0, QueueAssumption DEF AttemptsBounded
  <2> QED
    BY <2>1, <2>2 DEF Lifecycle!Requeue, LifecycleState
<1>5. ASSUME NEW t \in Ids, NEW s \in {"completed", "failed", "cancelled"},
             task' = [task EXCEPT ![t] = [@ EXCEPT !.status = s]], starts' = starts,
             task[t].status = "running" \/ (task[t].status = "queued" /\ s = "cancelled")
      PROVE Lifecycle!Finish({t}, s)
  <2>1. (\A u \in Ids \ {t} : task'[u] = task[u]) /\ task'[t].status = s
    BY <1>5, <1>0 DEF TaskRecords
  <2> QED
    BY <1>5, <2>1 DEF Lifecycle!Finish, LifecycleState
<1>6. ASSUME NEW t \in Ids, completeTask(t) PROVE Lifecycle!Finish({t}, "completed")
  BY <1>5, <1>6 DEF completeTask, OneList, WithStatus
<1>7. ASSUME NEW t \in Ids, FailForGood(t) PROVE Lifecycle!Finish({t}, "failed")
  BY <1>5, <1>7 DEF FailForGood, OneList, WithStatus
<1>8. ASSUME NEW t \in Ids, cancelTask(t) PROVE Lifecycle!Finish({t}, "cancelled")
  BY <1>5, <1>8 DEF cancelTask, OneList, WithStatus
<1>9. ASSUME timeoutExpiredTasks
      PROVE \E T \in SUBSET Ids : Lifecycle!Finish(T, "timed_out")
  <2> DEFINE timedOut == {t \in running : Expired(t)}
  <2>1. timedOut \subseteq Ids /\ \A u \in timedOut : task[u].status = "running"
    BY DEF OneList, WithStatus
  <2>2. /\ task' = [t \in Ids |-> IF t \in timedOut
                                   THEN [task[t] EXCEPT !.status = "timed_out"] ELSE task[t]]
        /\ starts' = starts
    BY <1>9 DEF timeoutExpiredTasks
  <2> HIDE DEF timedOut
  <2>3. Lifecycle!Finish(timedOut, "timed_out")
    <3>1. /\ \A u \in Ids \ timedOut : task'[u] = task[u]
          /\ \A u \in timedOut : task'[u].status = "timed_out"
      BY <2>1, <2>2, <1>0 DEF TaskRecords
    <3> QED
      BY <2>1, <2>2, <3>1 DEF Lifecycle!Finish, LifecycleState
  <2> QED
    BY <2>1, <2>3
<1>10. ASSUME resetTaskQueue PROVE Lifecycle!Clear
  BY <1>10 DEF resetTaskQueue, Lifecycle!Clear, LifecycleState, NoTask
<1>11. CASE Tick \/ UNCHANGED vars
  BY <1>11 DEF Tick, vars, Lifecycle!lVars, LifecycleState
<1> QED
  BY <1>1, <1>2, <1>3, <1>4, <1>6, <1>7, <1>8, <1>9, <1>10, <1>11
     DEF Next, Operation, failTask, Lifecycle!LNext, Lifecycle!EndStates

(* The four arrays and the status fields implement the abstract life cycle *)
(* of a task, with at most MaxRetries + 1 attempts.                        *)
THEOREM QueueImplementsLifecycle == Spec => ImplementsTaskLifecycle
  BY InitLifecycle, NextLifecycle, QueueInvariant, PTL
     DEF Spec, ImplementsTaskLifecycle, Lifecycle!LSpec
-----------------------------------------------------------------------------
(* The order of first starts.                                              *)

(* Ids, times and pushes are issued in one order: of two tasks the earlier *)
(* one was queued no later, and as long as it was never started, and so    *)
(* never retried, it was also pushed first.                                *)
IssuedInOrder ==
    /\ \A t \in Ids : t < nextId => task[t].queuedAt <= now /\ task[t].pushed <= pushes
    /\ \A t, u \in Ids :
         t < u /\ u < nextId =>
           /\ task[t].queuedAt <= task[u].queuedAt
           /\ starts[t] = 0 => task[t].pushed < task[u].pushed

OrderInv == IssuedInOrder /\ FirstStartsInOrder

(* The numbers the order is made of.                                       *)
LEMMA OrderNumbers ==
    ASSUME QueueInv
    PROVE  /\ task \in [Ids -> TaskRecords] /\ starts \in [Ids -> Nat]
           /\ now \in Nat /\ pushes \in Nat /\ nextId \in Nat /\ Ids \subseteq Nat
           /\ \A t \in Ids : /\ task[t].queuedAt \in Nat /\ task[t].pushed \in Nat
                             /\ starts[t] \in Nat
           /\ \A t \in running : t \in Ids /\ starts[t] > 0
           /\ \A t \in Ids : t >= nextId => starts[t] = 0
           /\ \A t \in Ids : task[t].priority \in Nat
<1>1. /\ task \in [Ids -> TaskRecords] /\ starts \in [Ids -> Nat]
      /\ now \in Nat /\ pushes \in Nat /\ nextId \in Nat /\ Ids \subseteq Nat
  BY QueueAssumption DEF QueueInv, TypeOK, Ids
<1>2. \A t \in Ids : /\ task[t].queuedAt \in Nat /\ task[t].pushed \in Nat
                     /\ task[t].retryCount \in Nat /\ starts[t] \in Nat
  BY <1>1 DEF TaskRecords
<1>3. \A t \in running : t \in Ids /\ starts[t] > 0
  BY <1>2 DEF QueueInv, OneList, WithStatus, StartMatchesStatus, AttemptsBounded
<1>4. \A t \in Ids : t >= nextId => starts[t] = 0
  <2>1. \A t \in Ids : t >= nextId => task[t] = NoTask
    BY DEF QueueInv, OneList, StartMatchesStatus
  <2> QED
    BY <2>1 DEF QueueInv, AttemptsBounded, NoTask
<1>5. \A t \in Ids : task[t].priority \in Nat
  <2>1. \A t \in Ids : task[t].priority \in Priorities \cup {0}
    BY <1>1 DEF TaskRecords
  <2>2. \A n \in Priorities \cup {0} : n \in Nat
    BY QueueAssumption
  <2> QED
    BY <2>1, <2>2
<1> QED
  BY <1>1, <1>2, <1>3, <1>4, <1>5

(* What leaves the order of the tasks alone: an operation that issues no   *)
(* task, pushes none and starts none, and puts none back into the queue.   *)
LEMMA OrderUndisturbed ==
    ASSUME QueueInv, OrderInv, nextId' = nextId, pushes' = pushes, now' \in Nat, now <= now',
           starts' = starts,
           \A t \in Ids : /\ task'[t].queuedAt = task[t].queuedAt
                          /\ task'[t].pushed = task[t].pushed
                          /\ task'[t].priority = task[t].priority
                          /\ task'[t].status = "queued" => task[t].status = "queued"
    PROVE  OrderInv'
<1>1. IssuedInOrder'
  BY OrderNumbers DEF OrderInv, IssuedInOrder
<1>2. FirstStartsInOrder'
  BY DEF OrderInv, FirstStartsInOrder
<1> QED
  BY <1>1, <1>2 DEF OrderInv

(* A task that enters the queue is the last one pushed.                    *)
LEMMA EnqueueKeepsOrder ==
    ASSUME QueueInv, OrderInv, NEW p \in Priorities, NEW r \in RetryChoices, NEW ms \in Timeouts,
           enqueueTask(p, r, ms)
    PROVE  OrderInv'
<1>1. /\ \A u \in Ids \ {nextId} : task'[u] = task[u]
      /\ task'[nextId].queuedAt = now /\ task'[nextId].pushed = pushes + 1
      /\ nextId \in Ids /\ nextId' = nextId + 1 /\ pushes' = pushes + 1
      /\ starts' = starts /\ now' = now
  BY OrderNumbers DEF enqueueTask, Push
<1>2. \A t \in Ids : t < nextId' /\ t # nextId => t < nextId
  BY <1>1, OrderNumbers
<1>3. IssuedInOrder'
  <2>1. \A t \in Ids : t < nextId' => task'[t].queuedAt <= now' /\ task'[t].pushed <= pushes'
    BY <1>1, <1>2, OrderNumbers DEF OrderInv, IssuedInOrder
  <2>2. ASSUME NEW t \in Ids, NEW u \in Ids, t < u, u < nextId'
        PROVE  /\ task'[t].queuedAt <= task'[u].queuedAt
               /\ starts'[t] = 0 => task'[t].pushed < task'[u].pushed
    <3>1. t < nextId /\ t # nextId
      BY <2>2, <1>1, OrderNumbers
    <3>2. CASE u = nextId
      BY <3>1, <3>2, <1>1, OrderNumbers DEF OrderInv, IssuedInOrder
    <3>3. CASE u # nextId
      BY <2>2, <3>1, <3>3, <1>1, <1>2 DEF OrderInv, IssuedInOrder
    <3> QED
      BY <3>2, <3>3
  <2> QED
    BY <2>1, <2>2 DEF IssuedInOrder
<1>4. FirstStartsInOrder'
  <2>1. SUFFICES ASSUME NEW t \in Ids, NEW u \in Ids, t < u, starts'[u] > 0,
                        task'[t].priority = task'[u].priority, task'[t].status = "queued"
                 PROVE  starts'[t] > 0
    BY DEF FirstStartsInOrder
  <2>2. u < nextId
    BY <2>1, <1>1, OrderNumbers
  <2>3. t # nextId /\ u # nextId
    BY <2>1, <2>2, OrderNumbers
  <2> QED
    BY <2>1, <2>3, <1>1 DEF OrderInv, FirstStartsInOrder
<1> QED
  BY <1>3, <1>4 DEF OrderInv

(* A task that starts stands before every other task of the queue, so no   *)
(* earlier one of its priority still waits for its first start.            *)
LEMMA DequeueKeepsOrder ==
    ASSUME QueueInv, OrderInv, NEW x \in Ids, dequeueNext(x)
    PROVE  OrderInv'
<1>1. /\ \A u \in Ids \ {x} : task'[u] = task[u] /\ starts'[u] = starts[u]
      /\ task'[x].queuedAt = task[x].queuedAt /\ task'[x].pushed = task[x].pushed
      /\ task'[x].priority = task[x].priority /\ task'[x].status = "running"
      /\ starts'[x] = starts[x] + 1
      /\ nextId' = nextId /\ pushes' = pushes /\ now' = now
      /\ x \in queue /\ \A u \in queue \ {x} : Before(x, u)
  BY OrderNumbers DEF dequeueNext, TaskRecords
<1>2. IssuedInOrder'
  BY <1>1, OrderNumbers DEF OrderInv, IssuedInOrder
<1>3. FirstStartsInOrder'
  <2>1. SUFFICES ASSUME NEW t \in Ids, NEW u \in Ids, t < u, starts'[u] > 0,
                        task'[t].priority = task'[u].priority, task'[t].status = "queued"
                 PROVE  starts'[t] > 0
    BY DEF FirstStartsInOrder
  <2>2. t # x /\ task[t].status = "queued" /\ starts'[t] = starts[t]
    BY <2>1, <1>1
  <2>3. CASE u # x
    BY <2>1, <2>2, <2>3, <1>1 DEF OrderInv, FirstStartsInOrder
  <2>4. CASE u = x
    <3>1. t \in queue /\ Before(u, t)
      BY <2>2, <2>4, <1>1 DEF QueueInv, OneList, WithStatus
    <3>2. task[u].priority = task[t].priority
      BY <2>1, <2>2, <2>4, <1>1
    <3>3. \/ task[u].queuedAt < task[t].queuedAt
          \/ task[u].queuedAt = task[t].queuedAt /\ task[u].pushed < task[t].pushed
      <4>1. task[u].priority \in Nat /\ task[t].priority \in Nat
        BY OrderNumbers
      <4> QED
        BY <3>1, <3>2, <4>1 DEF Before
    <3>4. u < nextId
      <4>1. task[u].status # "none"
        BY <2>4, <1>1 DEF QueueInv, OneList, WithStatus
      <4> QED
        BY <4>1, OrderNumbers DEF QueueInv, OneList
    <3>5. /\ task[t].queuedAt <= task[u].queuedAt
          /\ starts[t] = 0 => task[t].pushed < task[u].pushed
      BY <2>1, <3>4 DEF OrderInv, IssuedInOrder
    <3> QED
      BY <2>2, <3>3, <3>5, OrderNumbers
  <2> QED
    BY <2>3, <2>4
<1> QED
  BY <1>2, <1>3 DEF OrderInv

(* A retried task goes behind its equals, and it has started before.       *)
LEMMA RetryKeepsOrder ==
    ASSUME QueueInv, OrderInv, NEW x \in Ids, RetryTask(x)
    PROVE  OrderInv'
<1>1. /\ \A u \in Ids \ {x} : task'[u] = task[u]
      /\ task'[x].queuedAt = task[x].queuedAt /\ task'[x].pushed = pushes + 1
      /\ task'[x].priority = task[x].priority
      /\ nextId' = nextId /\ pushes' = pushes + 1 /\ now' = now /\ starts' = starts
      /\ x \in running
  BY OrderNumbers DEF RetryTask, Push, TaskRecords
<1>2. starts[x] > 0
  BY <1>1, OrderNumbers
<1>3. IssuedInOrder'
  <2>1. \A t \in Ids : t < nextId' => task'[t].queuedAt <= now' /\ task'[t].pushed <= pushes'
    BY <1>1, OrderNumbers DEF OrderInv, IssuedInOrder
  <2>2. ASSUME NEW t \in Ids, NEW u \in Ids, t < u, u < nextId'
        PROVE  /\ task'[t].queuedAt <= task'[u].queuedAt
               /\ starts'[t] = 0 => task'[t].pushed < task'[u].pushed
    <3>1. t < nextId /\ u < nextId
      BY <2>2, <1>1, OrderNumbers
    <3>2. /\ task[t].queuedAt <= task[u].queuedAt
          /\ starts[t] = 0 => task[t].pushed < task[u].pushed
          /\ task[t].pushed <= pushes
      BY <2>2, <3>1 DEF OrderInv, IssuedInOrder
    <3>3. CASE t = x
      BY <3>2, <3>3, <2>2, <1>1, <1>2, OrderNumbers
    <3>4. CASE t # x /\ u = x
      BY <3>2, <3>4, <1>1, OrderNumbers
    <3>5. CASE t # x /\ u # x
      BY <3>2, <3>5, <1>1
    <3> QED
      BY <3>3, <3>4, <3>5
  <2> QED
    BY <2>1, <2>2 DEF IssuedInOrder
<1>4. FirstStartsInOrder'
  BY <1>1, <1>2 DEF OrderInv, FirstStartsInOrder
<1> QED
  BY <1>3, <1>4 DEF OrderInv

(* Every operation keeps the order.                                        *)
LEMMA NextOrder == ASSUME QueueInv, OrderInv, [Next]_vars PROVE OrderInv'
<1> USE DEF TaskRecords
<1>1. ASSUME NEW c \in Configs, configureTaskQueue(c) PROVE OrderInv'
  BY <1>1, OrderUndisturbed, OrderNumbers DEF configureTaskQueue
<1>2. ASSUME NEW p \in Priorities, NEW r \in RetryChoices, NEW ms \in Timeouts,
             enqueueTask(p, r, ms)
      PROVE OrderInv'
  BY <1>2, EnqueueKeepsOrder
<1>3. ASSUME NEW t \in Ids, dequeueNext(t) PROVE OrderInv'
  BY <1>3, DequeueKeepsOrder
<1>4. ASSUME NEW t \in Ids, completeTask(t) PROVE OrderInv'
  BY <1>4, OrderUndisturbed, OrderNumbers DEF completeTask
<1>5. ASSUME NEW t \in Ids, RetryTask(t) PROVE OrderInv'
  BY <1>5, RetryKeepsOrder
<1>6. ASSUME NEW t \in Ids, FailForGood(t) PROVE OrderInv'
  BY <1>6, OrderUndisturbed, OrderNumbers DEF FailForGood
<1>7. ASSUME NEW t \in Ids, cancelTask(t) PROVE OrderInv'
  BY <1>7, OrderUndisturbed, OrderNumbers DEF cancelTask
<1>8. ASSUME timeoutExpiredTasks PROVE OrderInv'
  <2> DEFINE timedOut == {t \in running : Expired(t)}
  <2>1. \A u \in Ids : task'[u] = IF u \in timedOut
                                  THEN [task[u] EXCEPT !.status = "timed_out"] ELSE task[u]
    BY <1>8 DEF timeoutExpiredTasks
  <2> HIDE DEF timedOut
  <2>2. \A u \in Ids : /\ task'[u].queuedAt = task[u].queuedAt
                       /\ task'[u].pushed = task[u].pushed
                       /\ task'[u].priority = task[u].priority
                       /\ task'[u].status = "queued" => task[u].status = "queued"
    BY <2>1, OrderNumbers
  <2> QED
    BY <1>8, <2>2, OrderUndisturbed, OrderNumbers DEF timeoutExpiredTasks
<1>9. ASSUME resetTaskQueue PROVE OrderInv'
  <2>1. nextId' = 1 /\ \A t \in Ids : t >= 1 /\ starts'[t] = 0
    BY <1>9, QueueAssumption DEF resetTaskQueue, Ids
  <2> QED
    BY <2>1, OrderNumbers DEF OrderInv, IssuedInOrder, FirstStartsInOrder
<1>10. ASSUME Tick PROVE OrderInv'
  BY <1>10, OrderUndisturbed, OrderNumbers DEF Tick
<1>11. CASE UNCHANGED vars
  BY <1>11 DEF vars, OrderInv, IssuedInOrder, FirstStartsInOrder
<1> QED
  BY <1>1, <1>2, <1>3, <1>4, <1>5, <1>6, <1>7, <1>8, <1>9, <1>10, <1>11
     DEF Next, Operation, failTask

(* dequeueNext against sortQueue: a task that has started overtook no      *)
(* earlier task of its priority that still waits for its first start,      *)
(* whatever was retried, cancelled or timed out in between.                *)
THEOREM FirstStartsAreInOrder == Spec => []FirstStartsInOrder
<1>1. Init => OrderInv
  <2>1. SUFFICES ASSUME Init PROVE OrderInv
    OBVIOUS
  <2>2. nextId = 1 /\ \A t \in Ids : t >= 1 /\ t \in Nat /\ starts[t] = 0
    BY <2>1, QueueAssumption DEF Init, Fresh, Ids
  <2> QED
    BY <2>2 DEF OrderInv, IssuedInOrder, FirstStartsInOrder
<1>2. OrderInv => FirstStartsInOrder
  BY DEF OrderInv
<1> QED
  BY <1>1, <1>2, NextOrder, QueueInvariant, PTL DEF Spec

-----------------------------------------------------------------------------
(***************************************************************************)
(* The files the commands leave for one another: theorems about            *)
(* WorkArtifacts.                                                          *)
(***************************************************************************)

(* A task that was given, and whose brief is blocked.                      *)
BriefStops(source, t) ==
    source = "explicit_task" /\ Briefs[<<"explicit_task", t>>].state = "BLOCKED"

(* What the radar says of a worktree, of its task and of each path.        *)
RadarOk(r) ==
    /\ r.source = "explicit_task" => r.task # NoneGiven
    /\ BriefStops(r.source, r.task) => r.state \in {"BLOCKED", "UNAVAILABLE"}
    /\ \A q \in r.items : Benign(q) \/ Severity[CheckOf(q, r).state] <= Severity[r.state]

HandoffOk(h) ==
    /\ h.source = "explicit_task" => h.task # NoneGiven
    /\ BriefStops(h.source, h.task) /\ h.radar # "UNAVAILABLE" => ~h.safe
    /\ h.safe => \A q \in h.items : ~Blocking(q) /\ ~Reviewed(q)

(* A command under way, and what it holds of either file by then.          *)
Fields == {"cmd", "how", "task", "pc", "target", "brief", "profile", "own", "git",
           "changed", "made", "fresh"}
Shaped(a) == a = [f \in Fields |-> a[f]]

CommandOk(a) ==
    /\ Shaped(a)
    /\ a.task \in Tasks \cup {NoneGiven}
    /\ "" \notin a.changed
    /\ a.pc \in {"brief", "profile", "git"} => a.target # "handoff"
    /\ a.pc = "build" /\ a.target = "handoff" => RadarOk(a.made)
    /\ a.pc \in {"open", "fill"} /\ a.target = "radar" => RadarOk(a.made)
    /\ a.pc \in {"open", "fill"} /\ a.target = "handoff" => HandoffOk(a.made)

(* What becomes of the command b when it goes on reading: it has made       *)
(* nothing to write yet, and a brief it holds is the one of the file f.     *)
Reads(b, f, a) == a.pc \notin {"open", "fill"} /\ a.brief \in {Missing, b.brief, Load(f)}

(* What becomes of b when it makes what it will write, and writes it.       *)
Makes(b, made, a) == a.pc = "open" /\ a.target = b.target /\ a.brief = b.brief /\ a.made = made
Writes(b, a) ==
    /\ a.brief \in {Missing, b.brief}
    /\ \/ a.pc \notin {"open", "fill"}
       \/ b.pc = "open" /\ a.target = b.target /\ a.made = b.made

ArtifactInv ==
    /\ file = [f \in Names |-> file[f]]
    /\ at = [p \in Procs |-> at[p]]
    /\ "" \notin changed
    /\ \A p \in Procs : CommandOk(at[p])
    /\ file["radar"].kind = "stored" => RadarOk(file["radar"].is)
    /\ file["handoff"].kind = "stored" => HandoffOk(file["handoff"].is)
-----------------------------------------------------------------------------
(* The brief of a given task is that task's, whatever session there was.   *)
LEMMA GivenTaskDecides ==
    ASSUME NEW t \in Tasks, t # NoneGiven
    PROVE  /\ BriefOf(t) = Briefs[<<"explicit_task", t>>]
           /\ BriefOf(t) \in AllBriefs
<1>1. ResolveTask(t, session, NoneGiven, NoneGiven) = [task |-> t, source |-> "explicit_task"]
  BY DEF ResolveTask
<1>2. BriefOf(t) = Briefs[<<"explicit_task", t>>]
  BY <1>1 DEF BriefOf
<1>3. <<"explicit_task", t>> \in DOMAIN Briefs
  BY DEF Briefs
<1> QED
  BY <1>2, <1>3 DEF AllBriefs

(* A blocked brief gives a profile that asks for a decision.               *)
LEMMA BlockedBriefStopsProfile ==
    ASSUME NEW b \in AllBriefs, b.state = "BLOCKED"
    PROVE  Profiles[<<"generated", b>>].mode = "blocked_needs_decision"
<1>1. Profiles[<<"generated", b>>] = BuildProfile(b, "generated", WordsOf(b.task), Present)
  BY DEF Profiles
<1>2. ASSUME NEW size, NEW complexity, NEW risk, NEW sens
      PROVE  RecommendedMode(b, size, complexity, risk, sens) = "blocked_needs_decision"
  BY DEF RecommendedMode
<1>3. \E size, complexity, risk, sens :
         BuildProfile(b, "generated", WordsOf(b.task), Present).mode
           = RecommendedMode(b, size, complexity, risk, sens)
  BY DEF BuildProfile
<1> QED
  BY <1>1, <1>2, <1>3

(* How severe the answers of the path check and of the radar are.          *)
LEMMA StatesAreOrdered ==
    ASSUME NEW c \in {"BLOCKED", "NEEDS_REVIEW", "DRIFT_DETECTED", "ON_TRACK", "ON_TRACK_WITH_WARNINGS"},
           NEW s \in RadarStates,
           c = "BLOCKED" => s \in {"BLOCKED", "UNAVAILABLE"},
           c = "NEEDS_REVIEW" => s \in {"NEEDS_REVIEW", "BLOCKED", "UNAVAILABLE"},
           c = "DRIFT_DETECTED" => s \in {"DRIFT_DETECTED", "NEEDS_REVIEW", "BLOCKED", "UNAVAILABLE"}
    PROVE  Severity[c] <= Severity[s]
BY DEF Severity, RadarStates

(* An assessment stops where one of its paths alone would stop, and where  *)
(* the profile does.                                                       *)
LEMMA AssessmentIsOk ==
    ASSUME NEW in, "" \notin in.changed,
           in.source = "explicit_task" => in.task # NoneGiven,
           BriefStops(in.source, in.task)
             => in.profiled /\ in.profile.mode = "blocked_needs_decision"
    PROVE  RadarOk(BuildAssessment(in))
<1> DEFINE r == BuildAssessment(in)
           f == Found(in)
           acted == {p \in in.changed : ~Benign(p)}
           mode == IF in.profiled THEN in.profile.mode ELSE "simple_fast"
           evidence == f.noValidation \/ f.noEvidence
           warned == r.warnings
<1>1. /\ r.source = in.source /\ r.task = in.task /\ r.items = in.changed /\ r.scope = f.scope
      /\ r.state = RadarState(in.git, f.blocked, f.review /\ ~f.blocked, f.drift,
                              ~f.review /\ evidence, warned)
  BY DEF BuildAssessment
<1>2. /\ f.scope = IF in.briefed THEN in.brief.scope ELSE {}
      /\ f.blocked <=> (\E p \in acted : Blocking(p)) \/ Has(in.profiled, mode, "blocked_needs_decision")
      /\ f.review <=> \/ f.blocked \/ \E p \in acted : Reviewed(p)
                      \/ Has(in.profiled, mode, "human_review_required")
      /\ f.drift <=> \/ in.briefed /\ (\E p \in acted : ~InExpectedScope(p, f.scope) /\ ~Aside(p))
                     \/ \E p \in acted : Aside(p)
  BY DEF Found
<1> HIDE DEF r, f
<1>3. /\ r.state \in RadarStates
      /\ f.blocked => r.state \in {"BLOCKED", "UNAVAILABLE"}
      /\ f.review => r.state \in {"NEEDS_REVIEW", "BLOCKED", "UNAVAILABLE"}
      /\ f.drift => r.state \in {"DRIFT_DETECTED", "NEEDS_REVIEW", "BLOCKED", "UNAVAILABLE"}
  BY <1>1 DEF RadarState, RadarStates
<1>4. BriefStops(r.source, r.task) => r.state \in {"BLOCKED", "UNAVAILABLE"}
  BY <1>1, <1>2, <1>3 DEF Has
<1>5. ASSUME NEW q \in r.items, ~Benign(q)
      PROVE  Severity[CheckOf(q, r).state] <= Severity[r.state]
  <2> DEFINE c == CheckOf(q, r).state
  <2>1. c = PathCheckState(q, r.scope # {}, r.scope, r.mode # "none", r.mode)
    BY DEF CheckOf, RadarPathCheck
  <2>2. q \in acted /\ q # ""
    BY <1>1, <1>5
  <2>3. \/ c = "BLOCKED" /\ Blocking(q)
        \/ c = "NEEDS_REVIEW" /\ Reviewed(q)
        \/ c = "DRIFT_DETECTED" /\ (Aside(q) \/ (r.scope # {} /\ ~InExpectedScope(q, r.scope)))
        \/ c \in {"ON_TRACK", "ON_TRACK_WITH_WARNINGS"}
    BY <2>1, <2>2 DEF PathCheckState
  <2> HIDE DEF c, acted
  <2>4. /\ c = "BLOCKED" => f.blocked
        /\ c = "NEEDS_REVIEW" => f.review
        /\ c = "DRIFT_DETECTED" => f.drift
    BY <1>1, <1>2, <2>2, <2>3
  <2>5. /\ c \in {"BLOCKED", "NEEDS_REVIEW", "DRIFT_DETECTED", "ON_TRACK", "ON_TRACK_WITH_WARNINGS"}
        /\ c = "BLOCKED" => r.state \in {"BLOCKED", "UNAVAILABLE"}
        /\ c = "NEEDS_REVIEW" => r.state \in {"NEEDS_REVIEW", "BLOCKED", "UNAVAILABLE"}
        /\ c = "DRIFT_DETECTED" => r.state \in {"DRIFT_DETECTED", "NEEDS_REVIEW", "BLOCKED", "UNAVAILABLE"}
        /\ r.state \in RadarStates
    BY <1>3, <2>3, <2>4
  <2>6. Severity[c] <= Severity[r.state]
    BY <2>5, StatesAreOrdered
  <2> QED
    BY <2>6 DEF c
<1>6. RadarOk(r)
  BY <1>1, <1>4, <1>5 DEF RadarOk
<1> QED
  BY <1>6 DEF r

(* The categories of a handoff miss no path the radar would hold up.       *)
LEMMA CategoriesMissNothing ==
    ASSUME NEW q, Blocking(q) \/ Reviewed(q)
    PROVE  AuthOrDashboard(q) \/ Category(q) \in ReviewCategories
<1>1. q \in {"billing", "env", "board", "auth", "securityDir", "release", "deploy", "releaseDir"}
  BY DEF Blocking, Reviewed, Production, AuthOrDashboard, Marked
<1> QED
  BY <1>1 DEF Category, ReviewCategories, Production, AuthOrDashboard, Marked

(* A handoff of such a radar stops with it.                                *)
LEMMA HandoffIsOk ==
    ASSUME NEW r, RadarOk(r), NEW fresh, NEW briefed, NEW profiled, NEW mode, NEW b, NEW listed
    PROVE  HandoffOk(BuildHandoff(r, fresh, briefed, profiled, mode, b, listed))
<1> DEFINE h == BuildHandoff(r, fresh, briefed, profiled, mode, b, listed)
           review == \E p \in r.items : AuthOrDashboard(p) \/ Category(p) \in ReviewCategories
<1>1. /\ h.source = r.source /\ h.task = r.task /\ h.radar = r.state /\ h.items = r.items
      /\ h.safe = SafeToContinue(h.state)
      /\ \E noValidation, noEvidence, dependency, warnings :
            h.state = HandoffState(r.state = "BLOCKED", review, noValidation, noEvidence, dependency, warnings)
  BY DEF BuildHandoff
<1> HIDE DEF h, review
<1>2. h.safe => r.state # "BLOCKED" /\ ~review
  BY <1>1 DEF HandoffState, SafeToContinue
<1>3. BriefStops(h.source, h.task) /\ h.radar # "UNAVAILABLE" => ~h.safe
  BY <1>1, <1>2 DEF RadarOk
<1>4. h.safe => \A q \in h.items : ~Blocking(q) /\ ~Reviewed(q)
  BY <1>1, <1>2, CategoriesMissNothing DEF review
<1>5. HandoffOk(h)
  BY <1>1, <1>3, <1>4 DEF HandoffOk, RadarOk
<1> QED
  BY <1>5 DEF h
-----------------------------------------------------------------------------
(* A command that is not under way holds nothing.                          *)
LEMMA IdleIsOk == CommandOk(Idle) /\ \A b, f : Reads(b, f, Idle)
BY DEF CommandOk, Reads, Shaped, Fields, Idle

(* One process moves, the others stay as they are.                         *)
LEMMA OneGoes ==
    ASSUME ArtifactInv, NEW p \in Procs, NEW a, CommandOk(a), Goes(p, a)
    PROVE  /\ at' = [q \in Procs |-> at'[q]]
           /\ \A q \in Procs : CommandOk(at'[q])
<1>1. at' = [q \in Procs |-> IF q = p THEN a ELSE at[q]]
  BY DEF ArtifactInv, Goes
<1>2. \A q \in Procs : CommandOk(IF q = p THEN a ELSE at[q])
  BY DEF ArtifactInv
<1> QED
  BY <1>1, <1>2

(* Of a command that goes on, all is as before but what it has just read.  *)
Kept(b, c, fields) == Shaped(c) /\ \A f \in Fields \ fields : c[f] = b[f]

LEMMA KeptFields ==
    ASSUME NEW b, NEW c, NEW fields, Kept(b, c, fields), CommandOk(b),
           "made" \notin fields, "task" \notin fields, "target" \notin fields, "changed" \notin fields,
           c.pc \notin {"open", "fill"},
           c.pc = "build" => b.pc = "build" \/ b.target # "handoff",
           c.pc \in {"brief", "profile", "git"} => b.target # "handoff"
    PROVE  CommandOk(c) /\ ("brief" \notin fields => \A f : Reads(b, f, c))
<1>1. c.made = b.made /\ c.task = b.task /\ c.target = b.target /\ c.changed = b.changed
  BY DEF Kept, Fields
<1>2. "brief" \notin fields => c.brief = b.brief
  BY DEF Kept, Fields
<1> QED
  BY <1>1, <1>2 DEF CommandOk, Kept, Reads

(* Reading the latest files, and asking git.                               *)
LEMMA ReadersGoOn ==
    ASSUME ArtifactInv, NEW p \in Procs,
           LoadOwn(p) \/ LoadRadar(p) \/ LoadBrief(p) \/ LoadProfile(p) \/ AskGit(p)
    PROVE  UNCHANGED <<file, commands, World>> /\ \E a : CommandOk(a) /\ Reads(at[p], file["brief"], a) /\ Goes(p, a)
<1> DEFINE b == at[p]
<1>0. CommandOk(b) /\ Shaped(b)
  BY DEF ArtifactInv, CommandOk
<1>1. ASSUME LoadOwn(p) PROVE \E a : CommandOk(a) /\ Reads(at[p], file["brief"], a) /\ Goes(p, a)
  <2>1. CASE b.pc = "ownBrief"
    <3> DEFINE c == [b EXCEPT !.pc = "ownProfile", !.own[1] = Load(file["brief"]).kind = "stored"]
    <3>1. Goes(p, c)
      BY <1>1, <2>1 DEF LoadOwn
    <3> HIDE DEF b
    <3>2. Kept(b, c, {"pc", "own"}) /\ c.pc = "ownProfile"
      BY <1>0 DEF Kept, Shaped, Fields
    <3> HIDE DEF c
    <3>3. CommandOk(c) /\ \A g : Reads(b, g, c)
      BY <1>0, <3>2, KeptFields
    <3> QED
      BY <3>1, <3>3 DEF b
  <2>2. CASE b.pc = "ownProfile"
    <3> DEFINE f == Load(file["profile"])
               mode == IF f.kind = "stored" THEN f.is.mode ELSE "none"
               c == [b EXCEPT !.pc = "radar", !.own[2] = f.kind = "stored", !.own[3] = mode]
    <3>1. Goes(p, c)
      BY <1>1, <2>2 DEF LoadOwn
    <3> HIDE DEF b, f, mode
    <3>2. Kept(b, c, {"pc", "own"}) /\ c.pc = "radar"
      BY <1>0 DEF Kept, Shaped, Fields
    <3> HIDE DEF c
    <3>3. CommandOk(c) /\ \A g : Reads(b, g, c)
      BY <1>0, <3>2, KeptFields
    <3> QED
      BY <3>1, <3>3 DEF b
  <2> QED
    BY <1>1, <2>1, <2>2 DEF LoadOwn
<1>2. ASSUME LoadRadar(p) PROVE \E a : CommandOk(a) /\ Reads(at[p], file["brief"], a) /\ Goes(p, a)
  <2> DEFINE latest == Load(file["radar"])
             found == [b EXCEPT !.pc = "build", !.made = latest.is]
             fresh == [b EXCEPT !.pc = "brief", !.target = "radar", !.fresh = TRUE]
  <2>1. (latest.kind = "stored" /\ Goes(p, found)) \/ Quit(p) \/ Goes(p, fresh)
    BY <1>2 DEF LoadRadar
  <2>2. latest.kind = "stored" => RadarOk(latest.is)
    BY DEF ArtifactInv, Load, Missing
  <2> DEFINE old == file["brief"]
  <2> HIDE DEF latest, b, old
  <2>3. /\ Shaped(found) /\ found.pc = "build" /\ found.made = latest.is
        /\ found.task = b.task /\ found.changed = b.changed
        /\ Shaped(fresh) /\ fresh.pc = "brief" /\ fresh.target = "radar"
        /\ fresh.task = b.task /\ fresh.changed = b.changed
        /\ found.brief = b.brief /\ fresh.brief = b.brief
    BY <1>0 DEF Shaped, Fields
  <2> HIDE DEF found, fresh
  <2>4. /\ latest.kind = "stored" => CommandOk(found)
        /\ CommandOk(fresh) /\ Reads(b, old, found) /\ Reads(b, old, fresh)
    BY <1>0, <2>2, <2>3 DEF CommandOk, Reads
  <2> QED
    BY <2>1, <2>4, IdleIsOk DEF Quit, b, old
<1>3. ASSUME LoadBrief(p) PROVE \E a : CommandOk(a) /\ Reads(at[p], file["brief"], a) /\ Goes(p, a)
  <2> DEFINE f == Load(file["brief"])
             c(pc) == [b EXCEPT !.brief = f, !.pc = pc]
  <2>1. b.pc = "brief" /\ (Quit(p) \/ Goes(p, c("build")) \/ Goes(p, c("profile")))
    BY <1>3 DEF LoadBrief
  <2>2. b.target # "handoff"
    BY <1>0, <2>1 DEF CommandOk
  <2> HIDE DEF f, b
  <2>3. ASSUME NEW pc \in {"build", "profile"} PROVE CommandOk(c(pc)) /\ Reads(b, file["brief"], c(pc))
    <3>1. Kept(b, c(pc), {"pc", "brief"}) /\ c(pc).pc = pc /\ c(pc).brief = f
      BY <1>0 DEF Kept, Shaped, Fields
    <3> HIDE DEF c
    <3>2. CommandOk(c(pc))
      BY <1>0, <2>2, <3>1, KeptFields
    <3> QED
      BY <3>1, <3>2 DEF Reads, f
  <2> HIDE DEF c
  <2> QED
    BY <2>1, <2>3, IdleIsOk DEF Quit, b
<1>4. ASSUME LoadProfile(p) PROVE \E a : CommandOk(a) /\ Reads(at[p], file["brief"], a) /\ Goes(p, a)
  <2> DEFINE f == Load(file["profile"])
             c == [b EXCEPT !.profile = f, !.pc = "git"]
  <2>1. b.pc = "profile" /\ (Quit(p) \/ Goes(p, c))
    BY <1>4 DEF LoadProfile
  <2>2. b.target # "handoff"
    BY <1>0, <2>1 DEF CommandOk
  <2> HIDE DEF f, b
  <2>3. Kept(b, c, {"pc", "profile"}) /\ c.pc = "git"
    BY <1>0 DEF Kept, Shaped, Fields
  <2> HIDE DEF c
  <2>4. CommandOk(c) /\ \A g : Reads(b, g, c)
    BY <1>0, <2>2, <2>3, KeptFields
  <2> QED
    BY <2>1, <2>4, IdleIsOk DEF Quit, b
<1>5. ASSUME AskGit(p) PROVE \E a : CommandOk(a) /\ Reads(at[p], file["brief"], a) /\ Goes(p, a)
  <2> DEFINE told == [b EXCEPT !.pc = "build", !.changed = Status]
             late == [b EXCEPT !.pc = "build", !.git = FALSE]
  <2>1. b.pc = "git" /\ (Goes(p, told) \/ Goes(p, late))
    BY <1>5 DEF AskGit
  <2>2. "" \notin Status
    BY DEF Status, ArtifactInv
  <2>3. b.target # "handoff"
    BY <1>0, <2>1 DEF CommandOk
  <2> HIDE DEF b
  <2>4. /\ Kept(b, late, {"pc", "git"}) /\ late.pc = "build"
        /\ Shaped(told) /\ told.pc = "build" /\ told.changed = Status
        /\ told.task = b.task /\ told.target = b.target /\ told.made = b.made
        /\ told.brief = b.brief
    BY <1>0 DEF Kept, Shaped, Fields
  <2> HIDE DEF told, late
  <2>5. CommandOk(late) /\ \A g : Reads(b, g, late)
    BY <1>0, <2>3, <2>4, KeptFields
  <2>6. CommandOk(told) /\ \A g : Reads(b, g, told)
    BY <1>0, <2>2, <2>3, <2>4 DEF CommandOk, Reads
  <2> QED
    BY <2>1, <2>5, <2>6 DEF b
<1>6. UNCHANGED <<file, commands, World>>
  BY DEF LoadOwn, LoadRadar, LoadBrief, LoadProfile, AskGit
<1> QED
  BY <1>1, <1>2, <1>3, <1>4, <1>5, <1>6

(* A task that is given is served by its own brief and its own profile.    *)
LEMMA GivenTaskIsServed ==
    ASSUME NEW a, a.task \in Tasks \cup {NoneGiven}
    PROVE  /\ Sources(a).source = "explicit_task" => Sources(a).task # NoneGiven
           /\ BriefStops(Sources(a).source, Sources(a).task)
                => Sources(a).profiled /\ Sources(a).profile.mode = "blocked_needs_decision"
<1>1. CASE a.task # NoneGiven
  <2>1. /\ Sources(a).source = "explicit_task" /\ Sources(a).task = a.task /\ Sources(a).profiled
        /\ Sources(a).profile = Profiles[<<"generated", BriefOf(a.task)>>]
    BY <1>1 DEF Sources, TaskProfile
  <2>2. BriefOf(a.task) = Briefs[<<"explicit_task", a.task>>] /\ BriefOf(a.task) \in AllBriefs
    BY <1>1, GivenTaskDecides
  <2> QED
    BY <1>1, <2>1, <2>2, BlockedBriefStopsProfile DEF BriefStops
<1>2. CASE a.task = NoneGiven
  <2>1. Sources(a).source # "explicit_task"
    BY <1>2 DEF Sources
  <2> QED
    BY <2>1 DEF BriefStops
<1> QED
  BY <1>1, <1>2

(* What a command has to say agrees with what it has read.                 *)
LEMMA BuildersAreOk ==
    ASSUME ArtifactInv, NEW p \in Procs, Build(p)
    PROVE  /\ UNCHANGED <<file, commands, World>>
           /\ \E a : CommandOk(a) /\ Goes(p, a) /\ Makes(at[p], Made(at[p]), a)
<1> DEFINE b == at[p]
           made == Made(b)
           c == [b EXCEPT !.pc = "open", !.made = made]
<1>1. b.pc = "build" /\ Goes(p, c) /\ UNCHANGED <<file, commands, World>>
  BY DEF Build
<1>2. CommandOk(b) /\ Shaped(b)
  BY DEF ArtifactInv, CommandOk
<1>3. b.target = "radar" => RadarOk(made)
  <2> DEFINE in == AssessmentInput(b, Sources(b))
  <2>1. /\ in.changed = b.changed /\ in.source = Sources(b).source /\ in.task = Sources(b).task
        /\ in.profiled = Sources(b).profiled /\ in.profile = Sources(b).profile
    BY DEF AssessmentInput
  <2>2. b.target = "radar" => made = BuildAssessment(in)
    BY DEF Made
  <2> HIDE DEF in, b
  <2>3. RadarOk(BuildAssessment(in))
    BY <1>2, <2>1, GivenTaskIsServed, AssessmentIsOk DEF CommandOk
  <2> QED
    BY <2>2, <2>3
<1>4. b.target = "handoff" => HandoffOk(made)
  <2>1. b.target = "handoff" => RadarOk(b.made)
    BY <1>1, <1>2 DEF CommandOk
  <2>2. b.target = "handoff" =>
          made = BuildHandoff(b.made, b.fresh, b.own[1], b.own[2], b.own[3], base, ArtifactSources)
    BY DEF Made
  <2> QED
    BY <2>1, <2>2, HandoffIsOk
<1> HIDE DEF b, made
<1>5. /\ Shaped(c) /\ c.brief = b.brief /\ c.pc = "open" /\ c.made = made
      /\ c.task = b.task /\ c.target = b.target /\ c.changed = b.changed
  BY <1>2 DEF Shaped, Fields
<1> HIDE DEF c
<1>6. CommandOk(c)
  BY <1>2, <1>3, <1>4, <1>5 DEF CommandOk
<1>7. Makes(b, made, c)
  BY <1>5 DEF Makes
<1> QED
  BY <1>1, <1>6, <1>7 DEF b, made

(* The two files, and that they are in order.                              *)
FilesOk ==
    /\ file = [f \in Names |-> file[f]]
    /\ file["radar"].kind = "stored" => RadarOk(file["radar"].is)
    /\ file["handoff"].kind = "stored" => HandoffOk(file["handoff"].is)

(* A file is cut off, then filled with what its command holds.             *)
LEMMA WritersAreOk ==
    ASSUME ArtifactInv, NEW p \in Procs, OpenFile(p) \/ FillFile(p)
    PROVE  /\ UNCHANGED <<commands, World>> /\ FilesOk'
           /\ \E a : CommandOk(a) /\ Goes(p, a) /\ Writes(at[p], a)
           /\ \A f \in Names :
                 \/ file'[f] \in {file[f], Torn}
                 \/ at[p].pc = "fill" /\ at[p].target = f /\ file'[f] = Stored(at[p].made)
<1> DEFINE b == at[p]
<1>1. CommandOk(b) /\ Shaped(b) /\ FilesOk
  BY DEF ArtifactInv, CommandOk, FilesOk
<1>2. CASE OpenFile(p)
  <2> DEFINE c == [b EXCEPT !.pc = "fill"]
  <2>1. /\ b.pc = "open" /\ Goes(p, c) /\ file' = [file EXCEPT ![b.target] = Torn]
        /\ UNCHANGED <<commands, World>>
    BY <1>2 DEF OpenFile
  <2> HIDE DEF b
  <2>2. /\ Shaped(c) /\ c.pc = "fill" /\ c.made = b.made /\ c.brief = b.brief
        /\ c.task = b.task /\ c.target = b.target /\ c.changed = b.changed
    BY <1>1 DEF Shaped, Fields
  <2> HIDE DEF c
  <2>3. CommandOk(c)
    BY <1>1, <2>1, <2>2 DEF CommandOk
  <2>4. file' = [f \in Names |-> IF f = b.target THEN Torn ELSE file[f]] /\ Torn.kind # "stored"
    BY <1>1, <2>1 DEF FilesOk, Torn
  <2>5. FilesOk' /\ \A f \in Names : file'[f] \in {file[f], Torn}
    BY <1>1, <2>4 DEF FilesOk, Names
  <2>6. Writes(b, c)
    BY <2>1, <2>2 DEF Writes
  <2> QED
    BY <2>1, <2>3, <2>5, <2>6 DEF b
<1>3. CASE FillFile(p)
  <2> DEFINE c == [b EXCEPT !.pc = "build", !.target = "handoff"]
             full == Stored(b.made)
  <2>1. /\ b.pc = "fill" /\ file' = [file EXCEPT ![b.target] = full]
        /\ UNCHANGED <<commands, World>>
        /\ (b.target = "radar" /\ Goes(p, c)) \/ Quit(p)
    BY <1>3 DEF FillFile
  <2>2. full.kind = "stored" /\ full.is = b.made
    BY DEF Stored
  <2> HIDE DEF b, full
  <2>3. /\ Shaped(c) /\ c.pc = "build" /\ c.made = b.made /\ c.brief = b.brief
        /\ c.task = b.task /\ c.target = "handoff" /\ c.changed = b.changed
    BY <1>1 DEF Shaped, Fields
  <2> HIDE DEF c
  <2>4. b.target = "radar" => CommandOk(c)
    BY <1>1, <2>1, <2>3 DEF CommandOk
  <2>5. file' = [f \in Names |-> IF f = b.target THEN full ELSE file[f]]
    BY <1>1, <2>1 DEF FilesOk
  <2>6. FilesOk'
    BY <1>1, <2>1, <2>2, <2>5 DEF FilesOk, Names, CommandOk
  <2>7. \A f \in Names :
          \/ file'[f] \in {file[f], Torn}
          \/ b.target = f /\ file'[f] = full
    BY <2>5
  <2>8. Writes(b, c) /\ Writes(b, Idle)
    BY <2>3 DEF Writes, Idle
  <2> QED
    BY <2>1, <2>4, <2>6, <2>7, <2>8, IdleIsOk DEF Quit, b, full
<1> QED
  BY <1>2, <1>3

(* What the commands leave, and hold, stays in order.                      *)
LEMMA ArtifactStep ==
    ASSUME ArtifactInv, [ArtifactNext]_artifactVars
    PROVE  ArtifactInv'
<1>1. CASE UNCHANGED artifactVars
  BY <1>1 DEF artifactVars, ArtifactInv
<1>2. ASSUME FilesOk', "" \notin changed', NEW p \in Procs, NEW a, CommandOk(a), Goes(p, a)
      PROVE  ArtifactInv'
  BY <1>2, OneGoes DEF ArtifactInv, FilesOk
<1>3. FilesOk /\ "" \notin changed
  BY DEF ArtifactInv, FilesOk
<1>4. ASSUME NEW p \in Procs, Step(p) PROVE ArtifactInv'
  <2>1. CASE LoadOwn(p) \/ LoadRadar(p) \/ LoadBrief(p) \/ LoadProfile(p) \/ AskGit(p) \/ Build(p)
    <3>1. UNCHANGED <<file, changed>> /\ \E a : CommandOk(a) /\ Goes(p, a)
      BY <2>1, ReadersGoOn, BuildersAreOk DEF World
    <3>2. FilesOk'
      BY <1>3, <3>1 DEF FilesOk
    <3> QED
      BY <1>2, <1>3, <3>1, <3>2
  <2>2. CASE OpenFile(p) \/ FillFile(p)
    <3>1. FilesOk' /\ changed' = changed /\ \E a : CommandOk(a) /\ Goes(p, a)
      BY <2>2, WritersAreOk DEF World
    <3> QED
      BY <1>2, <1>3, <3>1
  <2> QED
    BY <1>4, <2>1, <2>2 DEF Step
<1>5. ASSUME NEW p \in Procs, Kill(p) PROVE ArtifactInv'
  <2>1. UNCHANGED <<file, changed>> /\ Goes(p, Idle)
    BY <1>5 DEF Kill, Quit, World
  <2>2. FilesOk'
    BY <1>3, <2>1 DEF FilesOk
  <2> QED
    BY <1>2, <1>3, <2>1, <2>2, IdleIsOk
<1>6. ASSUME NEW p \in Procs, NEW cmd \in Names, NEW how \in Options[cmd],
             NEW t \in Tasks \cup {NoneGiven}, Start(p, cmd, how, t)
      PROVE  ArtifactInv'
  <2> DEFINE c == [Idle EXCEPT !.cmd = cmd, !.how = how, !.task = t, !.pc = First[cmd], !.target = cmd]
  <2>1. UNCHANGED <<file, changed>> /\ Goes(p, c)
    BY <1>6 DEF Start, Goes, World
  <2>2. /\ Shaped(c) /\ c.pc = First[cmd] /\ c.task = t /\ c.target = cmd /\ c.changed = {}
    BY DEF Shaped, Fields, Idle
  <2>3. First[cmd] \in {"build", "brief", "ownBrief"} /\ (First[cmd] # "ownBrief" => cmd # "handoff")
    BY DEF First, Names
  <2> HIDE DEF c
  <2>4. CommandOk(c)
    BY <2>2, <2>3 DEF CommandOk
  <2>5. FilesOk'
    BY <1>3, <2>1 DEF FilesOk
  <2> QED
    BY <1>2, <1>3, <2>1, <2>4, <2>5
<1>7. ASSUME Edit PROVE ArtifactInv'
  <2>1. UNCHANGED <<file, at>>
    BY <1>7 DEF Edit
  <2>2. changed' = changed \/ \E q \in TreePlaces : changed' \in {changed \ {q}, changed \cup {q}}
    BY <1>7 DEF Edit
  <2>3. "" \notin changed'
    BY <1>3, <2>2, ArtifactAssumption DEF ArtifactAssumption
  <2> QED
    BY <2>1, <2>3 DEF ArtifactInv
<1> QED
  BY <1>1, <1>4, <1>5, <1>6, <1>7 DEF ArtifactNext

(* No file, no command, nothing to disagree about.                         *)
LEMMA ArtifactStart == ArtifactInit => ArtifactInv
<1> SUFFICES ASSUME ArtifactInit PROVE ArtifactInv
  OBVIOUS
<1>1. Missing.kind # "stored"
  BY DEF Missing
<1> QED
  BY <1>1, IdleIsOk DEF ArtifactInit, ArtifactInv, Names

(* A path that the path check would stop at has stopped the assessment     *)
(* that saw it, whichever brief and profile that used (buildWorkflowRadar- *)
(* Assessment, buildWorkflowRadarPathCheck).                               *)
THEOREM PathsAreJudgedAlike == ArtifactSpec => []PathChecksAgree
<1>1. ArtifactInv => PathChecksAgree
  BY DEF ArtifactInv, PathChecksAgree, RadarOk, Radar
<1> QED
  BY <1>1, ArtifactStart, ArtifactStep, PTL DEF ArtifactSpec

(* However commands overlap, die and reuse each other's files, a task with *)
(* a blocked brief is not handed on as safe, unless git did not answer     *)
(* (buildSessionContinuityHandoff of a radar found or made).               *)
THEOREM BlockedTasksAreStopped == ArtifactSpec => []BlockedTaskStops
<1>1. ASSUME ArtifactInv, file["handoff"].kind = "stored", Handoff.source = "explicit_task",
             BriefOf(Handoff.task).state = "BLOCKED", Handoff.radar # "UNAVAILABLE"
      PROVE  ~Handoff.safe
  <2>1. HandoffOk(Handoff)
    BY <1>1 DEF ArtifactInv, Handoff
  <2>2. BriefOf(Handoff.task) = Briefs[<<"explicit_task", Handoff.task>>]
    BY <1>1, <2>1 DEF HandoffOk, BriefOf, ResolveTask
  <2> QED
    BY <1>1, <2>1, <2>2 DEF HandoffOk, BriefStops
<1>2. ArtifactInv => BlockedTaskStops
  BY <1>1 DEF BlockedTaskStops
<1> QED
  BY <1>2, ArtifactStart, ArtifactStep, PTL DEF ArtifactSpec

(* A handoff that is safe to continue lists no path that the handoff's own *)
(* path check would stop or ask at (pathReviewRequired,                    *)
(* buildSessionContinuityPathCheck).                                       *)
THEOREM SafeHandoffsAreClean == ArtifactSpec => []SafeHandoffIsClean
<1>1. ASSUME ArtifactInv, file["handoff"].kind = "stored", Handoff.safe, NEW q \in Handoff.items
      PROVE  HandoffPathCheck(q, RadarPathCheck(q, FALSE, {}, FALSE, "none", Present)).state
                \notin {"BLOCKED", "NEEDS_REVIEW"}
  <2> DEFINE check == RadarPathCheck(q, FALSE, {}, FALSE, "none", Present)
  <2>1. ~Blocking(q) /\ ~Reviewed(q)
    BY <1>1 DEF ArtifactInv, HandoffOk, Handoff
  <2>2. check.state = PathCheckState(q, FALSE, {}, FALSE, "none")
    BY DEF RadarPathCheck
  <2>3. check.state \notin {"BLOCKED", "NEEDS_REVIEW"}
    BY <2>1, <2>2 DEF PathCheckState
  <2> HIDE DEF check
  <2>4. HandoffPathCheck(q, check).state \notin {"BLOCKED", "NEEDS_REVIEW"}
    BY <2>3 DEF HandoffPathCheck
  <2> QED
    BY <2>4 DEF check
<1>2. ArtifactInv => SafeHandoffIsClean
  BY <1>1 DEF SafeHandoffIsClean
<1> QED
  BY <1>2, ArtifactStart, ArtifactStep, PTL DEF ArtifactSpec

(* Any six places, and so all of them, are finitely many.                  *)
LEMMA FewPlaces ==
    ASSUME NEW a, NEW b, NEW c, NEW d, NEW e, NEW f
    PROVE  IsFiniteSet({a, b, c, d, e, f})
<1>1. IsFiniteSet({a})
  BY FS_Singleton
<1>2. IsFiniteSet({a} \cup {b})
  BY <1>1, FS_AddElement
<1>3. IsFiniteSet({a} \cup {b} \cup {c})
  BY <1>2, FS_AddElement
<1>4. IsFiniteSet({a} \cup {b} \cup {c} \cup {d})
  BY <1>3, FS_AddElement
<1>5. IsFiniteSet({a} \cup {b} \cup {c} \cup {d} \cup {e})
  BY <1>4, FS_AddElement
<1>6. IsFiniteSet({a} \cup {b} \cup {c} \cup {d} \cup {e} \cup {f})
  BY <1>5, FS_AddElement
<1>7. {a} \cup {b} \cup {c} \cup {d} \cup {e} \cup {f} = {a, b, c, d, e, f}
  OBVIOUS
<1> QED
  BY <1>6, <1>7

LEMMA PlacesAreFinite ==
    \A S \in SUBSET Places : IsFiniteSet(S) /\ Cardinality(S) \in Nat
<1> DEFINE A == {"", "dist", "pages", "artifact", "handoffs", "release"}
           B == {"deploy", "billing", "env", "static", "board", "auth"}
           C == {"capability", "cli", "tests", "docs", "readme", "product"}
           D == {"package", "code", "spaced", "note", "srcDir", "testsDir"}
           E == {"docsDir", "releaseDir", "securityDir", "productDir", "staticDir", "githubDir"}
           F == {"capabilityDir", "surfacesDir"}
<1>1. IsFiniteSet(A) /\ IsFiniteSet(B) /\ IsFiniteSet(C) /\ IsFiniteSet(D) /\ IsFiniteSet(E)
  BY FewPlaces
<1>a. IsFiniteSet(F)
  BY FS_Singleton, FS_AddElement, IsFiniteSet({"capabilityDir"} \cup {"surfacesDir"})
<1>2. Places = A \cup B \cup C \cup D \cup E \cup F
  BY DEF Places, Directories
<1> HIDE DEF A, B, C, D, E, F
<1>3. IsFiniteSet(A \cup B)
  BY <1>1, FS_Union
<1>4. IsFiniteSet(A \cup B \cup C)
  BY <1>1, <1>3, FS_Union
<1>5. IsFiniteSet(A \cup B \cup C \cup D)
  BY <1>1, <1>4, FS_Union
<1>b. IsFiniteSet(A \cup B \cup C \cup D \cup E)
  BY <1>1, <1>5, FS_Union
<1>6. IsFiniteSet(Places)
  BY <1>a, <1>b, <1>2, FS_Union
<1> QED
  BY <1>6, FS_Subset, FS_CardinalityType

(* The first pattern that fits gives one of the work types.                *)
LEMMA WorkTypeIsOne == \A t : InferWorkType(t) \in WorkTypes
<1> TAKE t
<1> DEFINE seen == t.words \cup (IF t.class = "docs" THEN {"docs"} ELSE {})
                           \cup (IF t.class = "testing" THEN {"test"} ELSE {})
           hits == {i \in DOMAIN Rules : Rules[i].word \in seen}
           first == CHOOSE i \in hits : \A j \in hits : i <= j
<1>1. InferWorkType(t) = IF hits = {} THEN "unknown" ELSE Rules[first].type
  BY DEF InferWorkType
<1>2. DOMAIN Rules = 1..9 /\ \A i \in 1..9 : Rules[i].type \in WorkTypes
  BY DEF Rules, WorkTypes
<1>3. hits \subseteq 1..9
  BY <1>2
<1> HIDE DEF seen, hits, first
<1>4. hits # {} => \E i \in hits : \A j \in hits : i <= j
  <2> SUFFICES ASSUME hits # {}, ~(\E i \in hits : \A j \in hits : i <= j)
               PROVE  FALSE
    OBVIOUS
  <2>1. \A i \in hits : \E j \in hits : j < i
    BY <1>3
  <2>2. \A i \in 1..9 : i \in {1, 2, 3, 4, 5, 6, 7, 8, 9}
    OBVIOUS
  <2>3. 1 \notin hits
    BY <1>3, <2>1
  <2>4. 2 \notin hits
    BY <1>3, <2>1, <2>3
  <2>5. 3 \notin hits
    BY <1>3, <2>1, <2>3, <2>4
  <2>6. 4 \notin hits
    BY <1>3, <2>1, <2>3, <2>4, <2>5
  <2>7. 5 \notin hits
    BY <1>3, <2>1, <2>3, <2>4, <2>5, <2>6
  <2>8. 6 \notin hits
    BY <1>3, <2>1, <2>3, <2>4, <2>5, <2>6, <2>7
  <2>9. 7 \notin hits
    BY <1>3, <2>1, <2>3, <2>4, <2>5, <2>6, <2>7, <2>8
  <2>10. 8 \notin hits /\ 9 \notin hits
    BY <1>3, <2>1, <2>3, <2>4, <2>5, <2>6, <2>7, <2>8, <2>9
  <2>11. PICK x \in hits : TRUE
    OBVIOUS
  <2>12. x \in 1..9
    BY <1>3, <2>11
  <2>13. x \in {1, 2, 3, 4, 5, 6, 7, 8, 9}
    BY <2>2, <2>12
  <2> QED
    BY <2>3, <2>4, <2>5, <2>6, <2>7, <2>8, <2>9, <2>10, <2>11, <2>13
<1>5. hits # {} => first \in 1..9
  BY <1>3, <1>4 DEF first
<1>6. "unknown" \in WorkTypes
  BY DEF WorkTypes
<1> QED
  BY <1>1, <1>2, <1>5, <1>6

(* The directories a type of work adds are none of the sources and paths   *)
(* that a task has to name.                                                 *)
LEMMA DefaultsAreDirectories ==
    ASSUME NEW y \in WorkTypes
    PROVE  /\ DefaultTruth[y] \subseteq Directories \cup {"product", "board", "readme", "package"}
           /\ DefaultAreas[y] \subseteq Directories \cup {"readme", "package"}
           /\ DefaultTruth[y] # {}
<1>1. /\ DefaultTruth["public_site"] = {"product", "staticDir"}
      /\ DefaultTruth["dashboard_ux"] = {"product", "board"}
      /\ DefaultTruth["billing_or_entitlement"] = {"testsDir"}
      /\ DefaultTruth["documentation"] = {"readme", "docsDir"}
      /\ DefaultTruth["test_repair"] = {"testsDir", "srcDir"}
      /\ DefaultTruth["security_review"] = {"securityDir", "srcDir"}
      /\ DefaultTruth["feature_development"] = {"srcDir", "testsDir"}
      /\ DefaultTruth["bug_fix"] = {"srcDir", "testsDir"}
      /\ DefaultTruth["release_preparation"] = {"releaseDir", "package"}
      /\ DefaultTruth["unknown"] = {"srcDir", "testsDir", "docsDir"}
  BY DEF DefaultTruth
<1>2. /\ DefaultAreas["public_site"] = {"staticDir", "productDir", "testsDir"}
      /\ DefaultAreas["dashboard_ux"] = {"staticDir", "productDir", "testsDir"}
      /\ DefaultAreas["billing_or_entitlement"] = {"testsDir"}
      /\ DefaultAreas["documentation"] = {"readme", "docsDir", "testsDir"}
      /\ DefaultAreas["test_repair"] = {"testsDir", "srcDir", "package"}
      /\ DefaultAreas["security_review"] = {"srcDir", "testsDir", "securityDir"}
      /\ DefaultAreas["feature_development"] = {"srcDir", "testsDir", "docsDir"}
      /\ DefaultAreas["bug_fix"] = {"srcDir", "testsDir", "docsDir"}
      /\ DefaultAreas["release_preparation"] = {"releaseDir", "package", "githubDir"}
      /\ DefaultAreas["unknown"] = {"srcDir", "testsDir", "docsDir"}
  BY DEF DefaultAreas
<1> QED
  BY <1>1, <1>2 DEF WorkTypes, Directories

(* The sizes of a plan are numbers, and two sources of truth are included. *)
LEMMA PlanCounts ==
    ASSUME NEW packet, NEW truth, NEW gated, NEW summarized,
           Cardinality(packet.refs) \in Nat, Cardinality(truth) \in Nat, Cardinality(gated) \in Nat,
           Cardinality(summarized \cup packet.short) \in Nat
    PROVE  LET plan == ContextPlan(packet, truth, gated, summarized)
           IN /\ plan.include \in Nat /\ plan.summarize \in Nat
              /\ plan.defer \in Nat /\ plan.confirm \in Nat
              /\ Cardinality(truth) >= 2 => plan.include >= 2
<1> DEFINE n == Cardinality(packet.refs)
           m == Cardinality(truth)
           waiting == IF n > 4 THEN n - 4 ELSE 0
           later == IF m > 4 THEN m - 4 ELSE 0
           briefly == Cardinality(summarized \cup packet.short)
           asked == Cardinality(gated)
           plan == ContextPlan(packet, truth, gated, summarized)
<1>1. /\ plan.include = AtMost(m, 4) /\ plan.summarize = AtMost(briefly, 8)
      /\ plan.defer = AtMost(waiting + later, 8) /\ plan.confirm = AtMost(asked, 8)
  BY DEF ContextPlan
<1>2. n \in Nat /\ m \in Nat /\ briefly \in Nat /\ asked \in Nat
  OBVIOUS
<1> HIDE DEF n, m, briefly, asked, plan
<1>3. waiting \in Nat /\ later \in Nat
  BY <1>2
<1> HIDE DEF waiting, later
<1>4. waiting + later \in Nat
  BY <1>3
<1>5. /\ \A k \in Nat : AtMost(k, 8) \in Nat /\ AtMost(k, 4) \in Nat
      /\ m >= 2 => AtMost(m, 4) >= 2
  BY <1>2 DEF AtMost
<1> QED
  BY <1>1, <1>2, <1>4, <1>5 DEF plan, m

(* Two places are at least two.                                            *)
LEMMA TwoPlaces ==
    ASSUME NEW S \in SUBSET Places, NEW q \in S, NEW d \in S, d # q
    PROVE  Cardinality(S) >= 2
<1> DEFINE one == {q}
           pair == one \cup {d}
           n == Cardinality(S)
           m == Cardinality(pair)
<1>1. IsFiniteSet(S) /\ n \in Nat
  BY PlacesAreFinite
<1>2. IsFiniteSet(one) /\ Cardinality(one) = 1 /\ d \notin one /\ pair \in SUBSET S
  BY FS_Singleton
<1> HIDE DEF one
<1>3. m = 1 + 1
  BY <1>2, FS_AddElement
<1> HIDE DEF pair
<1>4. m <= n
  BY <1>1, <1>2, FS_Subset
<1> HIDE DEF n, m
<1>5. n >= 2
  BY <1>1, <1>3, <1>4
<1> QED
  BY <1>5 DEF n

(* The area of a path is a place too, and never a source of the tool.      *)
LEMMA AreasArePlaces ==
    \A p \in Places \ {""} : /\ Area(p) \in Places \ {""} /\ Area(p) \notin {"capability", "cli"}
                             /\ Area(p) = "release" => p = "release"
<1> SUFFICES ASSUME NEW p \in Places \ {""}
             PROVE  /\ Area(p) \in Places \ {""} /\ Area(p) \notin {"capability", "cli"}
                    /\ Area(p) = "release" => p = "release"
  OBVIOUS
<1>1. DOMAIN LayerOf = {"capability", "spaced", "cli", "pages", "static", "board"}
  BY DEF LayerOf
<1>2. CASE p \in DOMAIN LayerOf
  <2>1. Area(p) = LayerOf[p]
    BY <1>2 DEF Area
  <2>2. /\ LayerOf["capability"] = "capabilityDir" /\ LayerOf["spaced"] = "capabilityDir"
        /\ LayerOf["cli"] = "surfacesDir" /\ LayerOf["pages"] = "surfacesDir"
        /\ LayerOf["static"] = "surfacesDir" /\ LayerOf["board"] = "surfacesDir"
    BY DEF LayerOf
  <2>3. Area(p) \in {"capabilityDir", "surfacesDir"}
    BY <1>1, <1>2, <2>1, <2>2
  <2> QED
    BY <2>3 DEF Places, Directories
<1>3. CASE p \notin DOMAIN LayerOf
  BY <1>1, <1>3 DEF Area
<1> QED
  BY <1>2, <1>3

(* What a brief says of the work that its scope is about: a release path   *)
(* blocks it, and a source of the tool's own makes its plan two files long *)
(* at least, that source and a directory of its type.                      *)
LEMMA BriefKnowsItsScope ==
    ASSUME NEW name, NEW source, NEW t, source # "fallback" => t.mentions \subseteq Places \ {""}
    PROVE  LET b == BuildBrief(name, source, t)
           IN /\ b.scope \subseteq Places \ {""}
              /\ b.type \in WorkTypes
              /\ "release" \in b.scope => b.state = "BLOCKED"
              /\ b.plan.include \in Nat /\ b.plan.summarize \in Nat
              /\ b.plan.defer \in Nat /\ b.plan.confirm \in Nat
              /\ b.scope \cap Marked.capability # {} => b.plan.include >= 2
<1> DEFINE asked == source # "fallback"
           packet == IF asked THEN CompileContext(t) ELSE NoPacket
           type == IF asked THEN InferWorkType(t) ELSE "unknown"
           truth == packet.truth \cup DefaultTruth[type]
           gated == {p \in packet.refs : \E m \in {"billing", "secret", "dashboard", "release"} : p \in Marked[m]}
           summarized == {p \in gated : p \notin Marked.release}
           plan == ContextPlan(packet, truth, gated, summarized)
           b == BuildBrief(name, source, t)
<1>1. /\ b.scope = truth \cup {Area(p) : p \in packet.refs} \cup DefaultAreas[type]
      /\ b.type = type /\ b.plan = plan
      /\ \E gate, n, warnings :
            b.state = BriefState(asked, type, gate, packet.refs \cap Marked.release, n, warnings)
  BY DEF BuildBrief
<1>2. /\ packet.refs \subseteq Places \ {""} /\ packet.truth \subseteq packet.refs
      /\ packet.short \subseteq Places
      /\ "release" \in packet.truth \cup packet.refs => asked
      /\ packet.refs \cap Marked.capability \subseteq packet.truth
  <2>1. CASE asked
    <3>1. /\ NamedRefs(t) \subseteq Places \ {""}
          /\ DefaultRefs(t) \subseteq {"tests", "docs", "readme", "githubDir", "note"}
      BY <2>1 DEF NamedRefs, DefaultRefs
    <3>2. {"tests", "docs", "readme", "githubDir", "note"} \subseteq Places \ {""}
      BY DEF Places, Directories
    <3>3. \E expand, high \in BOOLEAN :
            /\ packet.refs = (IF expand THEN NamedRefs(t) \cup DefaultRefs(t) ELSE {})
            /\ packet.truth = (IF expand THEN {p \in NamedRefs(t) : ~SensitiveRef(p)} ELSE {})
            /\ packet.short = (IF ~expand THEN {}
                               ELSE {p \in NamedRefs(t) : SensitiveRef(p) \/ high} \cup DefaultRefs(t))
      BY <2>1 DEF CompileContext
    <3> HIDE DEF packet
    <3>4. packet.refs \cap Marked.capability \subseteq packet.truth
      BY <3>1, <3>3 DEF Marked, SensitiveRef
    <3> DEFINE named == NamedRefs(t)
               default == DefaultRefs(t)
               light == {p \in named : ~SensitiveRef(p)}
    <3>5. named \subseteq Places \ {""} /\ default \subseteq Places \ {""} /\ light \subseteq named
      BY <3>1, <3>2
    <3>6. /\ packet.refs \in {{}, named \cup default} /\ packet.truth \subseteq packet.refs
          /\ packet.short \subseteq named \cup default
      BY <3>3, <3>5
    <3> HIDE DEF named, default, light
    <3>7. /\ packet.refs \subseteq Places \ {""} /\ packet.truth \subseteq packet.refs
          /\ packet.short \subseteq Places
      BY <3>5, <3>6
    <3> QED
      BY <2>1, <3>4, <3>7
  <2>2. CASE ~asked
    BY <2>2 DEF NoPacket
  <2> QED
    BY <2>1, <2>2
<1>3. type \in WorkTypes
  BY WorkTypeIsOne DEF WorkTypes
<1> HIDE DEF packet, type
<1>a. \A p \in Places \ {""} : /\ Area(p) \in Places \ {""} /\ Area(p) \notin {"capability", "cli"}
                               /\ Area(p) = "release" => p = "release"
  BY AreasArePlaces
<1>4. \A y \in WorkTypes :
        /\ DefaultTruth[y] \subseteq Places \ {""} /\ DefaultAreas[y] \subseteq Places \ {""}
        /\ DefaultTruth[y] \cap {"capability", "cli", "release"} = {}
        /\ DefaultAreas[y] \cap {"capability", "cli", "release"} = {}
        /\ DefaultTruth[y] # {}
  BY DefaultsAreDirectories DEF Places, Directories
<1> DEFINE refs == packet.refs
           areas == {Area(p) : p \in refs}
<1>b. /\ areas \subseteq Places \ {""} /\ areas \cap {"capability", "cli"} = {}
      /\ "release" \in areas => "release" \in packet.refs
  <2>1. refs \subseteq Places \ {""}
    BY <1>2
  <2> HIDE DEF refs
  <2>2. \A x \in areas : \E p \in refs : x = Area(p)
    OBVIOUS
  <2> HIDE DEF areas
  <2>3. \A x \in areas : \E p \in refs : x = Area(p) /\ p \in Places \ {""}
    BY <2>1, <2>2
  <2>4. ASSUME NEW x \in areas
        PROVE  /\ x \in Places \ {""} /\ x \notin {"capability", "cli"}
               /\ x = "release" => x \in refs
    <3>1. PICK p \in refs : x = Area(p) /\ p \in Places \ {""}
      BY <2>3
    <3> QED
      BY <1>a, <3>1
  <2> QED
    BY <2>4 DEF refs
<1>c. b.scope = truth \cup areas \cup DefaultAreas[type]
  BY <1>1
<1> HIDE DEF areas, b
<1>5. truth \subseteq Places \ {""} /\ b.scope \subseteq Places \ {""}
  BY <1>b, <1>c, <1>2, <1>3, <1>4
<1>6. "release" \in b.scope => b.state = "BLOCKED"
  <2>1. "release" \in b.scope => asked /\ packet.refs \cap Marked.release # {}
    BY <1>b, <1>c, <1>2, <1>3, <1>4 DEF Marked
  <2> HIDE DEF asked
  <2> QED
    BY <1>1, <2>1 DEF BriefState
<1>7. /\ Cardinality(truth) \in Nat /\ Cardinality(gated) \in Nat /\ Cardinality(packet.refs) \in Nat
      /\ Cardinality(summarized \cup packet.short) \in Nat
  <2>1. /\ truth \in SUBSET Places /\ gated \in SUBSET Places /\ packet.refs \in SUBSET Places
        /\ summarized \cup packet.short \in SUBSET Places
    BY <1>2, <1>5
  <2> QED
    BY <2>1, PlacesAreFinite
<1>8. b.scope \cap Marked.capability # {} => Cardinality(truth) >= 2
  <2> SUFFICES ASSUME NEW q \in b.scope, q \in Marked.capability PROVE Cardinality(truth) >= 2
    OBVIOUS
  <2>1. q \in truth /\ q \in {"capability", "cli"}
    BY <1>b, <1>c, <1>2, <1>3, <1>4 DEF Marked
  <2>2. PICK d \in DefaultTruth[type] : d # q
    BY <1>3, <1>4, <2>1
  <2>3. d \in truth /\ truth \in SUBSET Places
    BY <1>5, <2>2
  <2> QED
    BY <2>1, <2>2, <2>3, TwoPlaces
<1> HIDE DEF truth, gated, summarized
<1>9. /\ plan.include \in Nat /\ plan.summarize \in Nat
      /\ plan.defer \in Nat /\ plan.confirm \in Nat
      /\ Cardinality(truth) >= 2 => plan.include >= 2
  BY <1>7, PlanCounts
<1> HIDE DEF plan
<1>11. /\ b.scope \subseteq Places \ {""} /\ b.type \in WorkTypes
       /\ "release" \in b.scope => b.state = "BLOCKED"
       /\ b.plan.include \in Nat /\ b.plan.summarize \in Nat
       /\ b.plan.defer \in Nat /\ b.plan.confirm \in Nat
       /\ b.scope \cap Marked.capability # {} => b.plan.include >= 2
  BY <1>1, <1>3, <1>5, <1>6, <1>8, <1>9
<1> QED
  BY <1>11 DEF b

(* How a path would be judged alone: by its class.                         *)
LEMMA PathModes ==
    ASSUME NEW q \in Places \ {""}, q \in Present, ~Aside(q)
    PROVE  LET c == BriefPathCheck(q, Present)
           IN \/ q = "release" /\ PathMode(c) = "blocked_needs_decision"
              \/ /\ q \in {"billing", "env", "board"} /\ PathMode(c) = "human_review_required"
                 /\ q = "billing" => c.reason = "billing_scope_review"
                 /\ q = "env" => c.reason = "secret_scope_review"
                 /\ q = "board" => c.reason = "dashboard_scope_review"
              \/ q \in Marked.capability /\ PathMode(c) = "standard_reasoning"
              \/ PathMode(c) = "simple_fast"
<1> DEFINE v == ClassifyPath(q, Present)
           c == BriefPathCheck(q, Present)
           hint == FirstHint(q)
<1>1. /\ c.recommendation = v.recommendation /\ c.state = v.state /\ c.risk = v.risk
      /\ c.reason = v.reason /\ c.hint = hint
  BY DEF BriefPathCheck
<1>2. q \notin {"", "dist", "pages", "artifact", "handoffs"}
  BY DEF Aside, Marked
<1>3. /\ q = "release" => v.state = "BLOCKED"
      /\ q = "billing" => v = Verdict("requires_user_confirmation", "NEEDS_REVIEW", "high", "billing_scope_review")
      /\ q = "env" => v = Verdict("requires_user_confirmation", "NEEDS_REVIEW", "critical", "secret_scope_review")
      /\ q = "board" => v = Verdict("summarize", "NEEDS_REVIEW", "high", "dashboard_scope_review")
      /\ q \notin {"release", "billing", "env", "board"} =>
           v = Verdict("include", "READY",
                       IF q \in Marked.publicWeb \cup Marked.capability THEN "medium" ELSE "low", "none")
  <2>1. /\ Marked.generated = {"dist", "pages"} /\ Marked.runtime = {"artifact", "handoffs"}
        /\ Marked.release = {"release"} /\ Marked.billing = {"billing"} /\ Marked.secret = {"env"}
        /\ Marked.dashboard = {"board"}
    BY DEF Marked
  <2>2. UNION {Marked[m] : m \in {"generated", "runtime", "release", "billing", "secret", "dashboard"}}
          = Marked.generated \cup Marked.runtime \cup Marked.release \cup Marked.billing
            \cup Marked.secret \cup Marked.dashboard
    OBVIOUS
  <2>3. q = "release" => v = Verdict("requires_user_confirmation", "BLOCKED", "critical", "release_scope_blocked")
    BY <2>1 DEF ClassifyPath
  <2> QED
    BY <1>2, <2>1, <2>2, <2>3 DEF ClassifyPath, Verdict
<1>4. hint \in {"public_site", "feature_development", "billing_or_entitlement", "documentation", "unknown"}
      /\ (hint = "feature_development" => q \in Marked.capability)
  BY DEF FirstHint
<1> HIDE DEF v, c, hint
<1>5. q = "release" => PathMode(c) = "blocked_needs_decision"
  BY <1>1, <1>3 DEF PathMode
<1>6. q = "billing" => /\ c.reason = "billing_scope_review"
                       /\ c.state = "NEEDS_REVIEW" /\ c.recommendation # "exclude"
  BY <1>1, <1>3 DEF Verdict
<1>7. q = "env" => /\ c.reason = "secret_scope_review"
                   /\ c.state = "NEEDS_REVIEW" /\ c.recommendation # "exclude"
  BY <1>1, <1>3 DEF Verdict
<1>8. q = "board" => /\ c.reason = "dashboard_scope_review"
                     /\ c.state = "NEEDS_REVIEW" /\ c.recommendation # "exclude"
  BY <1>1, <1>3 DEF Verdict
<1>9. q \in {"billing", "env", "board"} => PathMode(c) = "human_review_required"
  BY <1>6, <1>7, <1>8 DEF PathMode
<1>10. CASE q \notin {"release", "billing", "env", "board"}
  <2>1. PICK r \in {"low", "medium"} : v = Verdict("include", "READY", r, "none")
    BY <1>3, <1>10
  <2>2. c.recommendation = "include" /\ c.state = "READY" /\ c.risk \in {"low", "medium"} /\ c.reason = "none"
    BY <1>1, <2>1 DEF Verdict
  <2>3. PathMode(c) = "simple_fast" \/ (PathMode(c) = "standard_reasoning" /\ q \in Marked.capability)
    BY <1>1, <1>4, <2>2 DEF PathMode
  <2> QED
    BY <2>3 DEF c
<1> QED
  BY <1>5, <1>6, <1>7, <1>8, <1>9, <1>10 DEF c

(* A plan of two files or more is not a tiny one.                          *)
LEMMA TwoFilesAreNotTiny ==
    ASSUME NEW b, b.plan.include \in Nat, b.plan.summarize \in Nat, b.plan.defer \in Nat,
           b.plan.confirm \in Nat, b.plan.include >= 2
    PROVE  ContextSize(b) \in {"small", "medium", "large"}
BY DEF ContextSize

(* Work of a middling size is never simple.                                *)
LEMMA MiddlingIsNotSimple ==
    ASSUME NEW b, NEW risk, NEW sens
    PROVE  Complexity(b, "medium", risk, sens) # "simple"
BY DEF Complexity

(* How strict the modes are.                                               *)
LEMMA ModesAreOrdered ==
    ASSUME NEW alone \in Modes, NEW mode \in Modes,
           \/ mode = "blocked_needs_decision"
           \/ alone = "human_review_required" /\ mode = "human_review_required"
           \/ alone = "standard_reasoning" /\ mode # "simple_fast"
           \/ alone = "simple_fast"
    PROVE  ModeRank[alone] <= ModeRank[mode]
BY DEF Modes, ModeRank

(* The mode for a brief is at least as strict as a path of its scope alone *)
(* would have it.                                                          *)
LEMMA ModeIsStrictEnough ==
    ASSUME NEW b, NEW source, NEW words,
           b.scope \subseteq Places \ {""}, "release" \in b.scope => b.state = "BLOCKED",
           b.plan.include \in Nat, b.plan.summarize \in Nat, b.plan.defer \in Nat, b.plan.confirm \in Nat,
           b.scope \cap Marked.capability # {} => b.plan.include >= 2,
           NEW q \in b.scope, q \in Present, ~Aside(q)
    PROVE  ModeRank[PathMode(BriefPathCheck(q, Present))]
             <= ModeRank[BuildProfile(b, source, words, Present).mode]
<1> DEFINE c == BriefPathCheck(q, Present)
           checks == {BriefPathCheck(p, Present) : p \in b.scope}
           risk == PathRisk(checks)
           size == ContextSize(b)
           sens == Sensitivities(b, words, checks)
           complexity == Complexity(b, size, risk, sens)
           mode == RecommendedMode(b, size, complexity, risk, sens)
<1>1. BuildProfile(b, source, words, Present).mode = mode
  BY DEF BuildProfile
<1>2. c \in checks
  OBVIOUS
<1>3. /\ c.reason = "billing_scope_review" => sens.billing
      /\ c.reason = "secret_scope_review" => sens.secret
      /\ c.reason = "dashboard_scope_review" => sens.surface
  BY <1>2 DEF Sensitivities
<1>4. /\ b.scope \cap Marked.capability # {} => size \in {"small", "medium", "large"}
      /\ size = "medium" => complexity # "simple"
  BY TwoFilesAreNotTiny, MiddlingIsNotSimple
<1> HIDE DEF checks, risk, size, sens, complexity
<1>5. /\ mode \in Modes
      /\ b.state = "BLOCKED" => mode = "blocked_needs_decision"
      /\ sens.billing \/ sens.secret \/ sens.surface => mode \in {"blocked_needs_decision", "human_review_required"}
      /\ size = "small" \/ size = "large" \/ (size = "medium" /\ complexity # "simple") => mode # "simple_fast"
  BY DEF RecommendedMode, Modes
<1> HIDE DEF mode
<1>6. \/ q = "release" /\ PathMode(c) = "blocked_needs_decision"
      \/ /\ PathMode(c) = "human_review_required"
         /\ c.reason \in {"billing_scope_review", "secret_scope_review", "dashboard_scope_review"}
      \/ q \in Marked.capability /\ PathMode(c) = "standard_reasoning"
      \/ PathMode(c) = "simple_fast"
  BY PathModes
<1> HIDE DEF c
<1>7. \/ mode = "blocked_needs_decision"
      \/ PathMode(c) = "human_review_required" /\ mode = "human_review_required"
      \/ PathMode(c) = "standard_reasoning" /\ mode \in Modes \ {"simple_fast"}
      \/ PathMode(c) = "simple_fast"
  BY <1>3, <1>4, <1>5, <1>6
<1>8. PathMode(c) \in Modes
  BY <1>6 DEF Modes
<1>9. ModeRank[PathMode(c)] <= ModeRank[mode]
  BY <1>5, <1>7, <1>8, ModesAreOrdered
<1> QED
  BY <1>1, <1>9 DEF c

(* The brief of a task, if the latest session was about s.                 *)
BriefWith(t, s) ==
    LET r == ResolveTask(t, s, NoneGiven, NoneGiven) IN Briefs[<<r.source, r.task>>]

(* A profile that is as strict as each path in the scope of its task.      *)
ModeFits(r, s) ==
    r.source = "generated" =>
        \A q \in {p \in BriefWith(r.task, s).scope \cap Present : ~Aside(p)} :
            ModeRank[PathMode(BriefPathCheck(q, Present))] <= ModeRank[r.mode]

(* What a command holds of the briefs and of its own profile.              *)
HoldsFit(a, s) ==
    /\ a.brief.kind = "stored" => a.brief.is \in AllBriefs
    /\ a.pc \in {"open", "fill"} /\ a.target = "brief" => a.made \in AllBriefs
    /\ a.pc \in {"open", "fill"} /\ a.target = "profile" => ModeFits(a.made, s)

ScopeInv ==
    /\ session \in Sessions
    /\ file["brief"].kind = "stored" => file["brief"].is \in AllBriefs
    /\ file["profile"].kind = "stored" => ModeFits(file["profile"].is, session)
    /\ \A p \in Procs : HoldsFit(at[p], session)

(* The brief that a task resolves to is of a task that resolves to the     *)
(* same scope.                                                             *)
LEMMA ScopeOfItsTask ==
    ASSUME NEW t \in Tasks \cup {NoneGiven}, NEW s \in Tasks \cup {NoneGiven}
    PROVE  LET b == BriefWith(t, s)
           IN b \in AllBriefs /\ BriefWith(b.task, s).scope = b.scope
<1> DEFINE u == IF t # NoneGiven THEN t ELSE s
           r == ResolveTask(t, s, NoneGiven, NoneGiven)
           k == <<r.source, r.task>>
           facts(x) == Facts[IF x = NoneGiven THEN CHOOSE y \in Tasks : TRUE ELSE x]
<1>1. /\ r.task = u
      /\ u # NoneGiven => r.source \in {"explicit_task", "runtime_flow"}
      /\ u = NoneGiven => r.source = "fallback"
  BY DEF ResolveTask
<1>2. k \in DOMAIN Briefs /\ BriefWith(t, s) = Briefs[k]
  BY <1>1 DEF Briefs, BriefWith
<1>3. \A j \in DOMAIN Briefs : Briefs[j] = BuildBrief(j[2], j[1], facts(j[2]))
  BY DEF Briefs
<1>4. BriefWith(t, s) = BuildBrief(u, r.source, facts(u))
  BY <1>1, <1>2, <1>3
<1>5. BriefWith(t, s).task = u
  BY <1>4 DEF BuildBrief
<1>6. BriefWith(u, s).scope = BriefWith(t, s).scope
  <2>1. CASE u = NoneGiven
    BY <2>1 DEF BriefWith
  <2>2. CASE u # NoneGiven
    <3>1. BriefWith(u, s) = Briefs[<<"explicit_task", u>>] /\ <<"explicit_task", u>> \in DOMAIN Briefs
      BY <2>2 DEF BriefWith, ResolveTask, Briefs
    <3>2. BriefWith(u, s) = BuildBrief(u, "explicit_task", facts(u))
      BY <1>3, <3>1
    <3> HIDE DEF facts, u
    <3>3. \A x : BuildBrief(u, "explicit_task", x).scope = BuildBrief(u, "runtime_flow", x).scope
      BY DEF BuildBrief
    <3> QED
      BY <1>1, <1>4, <2>2, <3>2, <3>3
  <2> QED
    BY <2>1, <2>2
<1>7. BriefWith(t, s) \in AllBriefs
  BY <1>2 DEF AllBriefs
<1> QED
  BY <1>5, <1>6, <1>7

(* What is known of each brief.                                            *)
LEMMA BriefsKnowTheirScope ==
    ASSUME NEW b \in AllBriefs
    PROVE  /\ b.scope \subseteq Places \ {""}
           /\ "release" \in b.scope => b.state = "BLOCKED"
           /\ b.plan.include \in Nat /\ b.plan.summarize \in Nat
           /\ b.plan.defer \in Nat /\ b.plan.confirm \in Nat
           /\ b.scope \cap Marked.capability # {} => b.plan.include >= 2
<1>1. PICK k \in DOMAIN Briefs : b = Briefs[k]
  BY DEF AllBriefs
<1> DEFINE t == Facts[IF k[2] = NoneGiven THEN CHOOSE y \in Tasks : TRUE ELSE k[2]]
<1>2. b = BuildBrief(k[2], k[1], t)
  BY <1>1 DEF Briefs
<1>3. k[1] # "fallback" => k[2] \in Tasks /\ k[2] # NoneGiven
  <2>1. k \in {"explicit_task", "runtime_flow"} \X Tasks \/ k = <<"fallback", NoneGiven>>
    BY DEF Briefs
  <2>2. k \in {"explicit_task", "runtime_flow"} \X Tasks => k[2] \in Tasks
    OBVIOUS
  <2>3. k = <<"fallback", NoneGiven>> => k[1] = "fallback"
    OBVIOUS
  <2>4. NoneGiven \notin Tasks
    BY ArtifactAssumption
  <2> QED
    BY <2>1, <2>2, <2>3, <2>4
<1>4. k[1] # "fallback" => t.mentions \subseteq Places \ {""}
  BY <1>3, FactsAssumption
<1> HIDE DEF t
<1> QED
  BY <1>2, <1>4, BriefKnowsItsScope

(* The profile made of a brief of that task is strict enough for its scope.*)
LEMMA ProfilesFit ==
    ASSUME NEW t \in Tasks \cup {NoneGiven}, session \in Tasks \cup {NoneGiven}, NEW how,
           NEW loaded, loaded.kind = "stored" => loaded.is \in AllBriefs
    PROVE  ModeFits(ProfileOf(how, t, loaded), session)
<1> DEFINE r == ProfileOf(how, t, loaded)
           b == BriefWith(t, session)
<1>1. CASE t = NoneGiven /\ loaded.kind = "stored"
  <2>1. r = Profiles[<<"latest_brief", loaded.is>>] /\ <<"latest_brief", loaded.is>> \in DOMAIN Profiles
    BY <1>1 DEF ProfileOf, Profiles
  <2>2. r = BuildProfile(loaded.is, "latest_brief", WordsOf(loaded.is.task), Present)
    BY <2>1 DEF Profiles
  <2>3. r.source = "latest_brief"
    BY <2>2 DEF BuildProfile
  <2> QED
    BY <2>3 DEF ModeFits
<1>2. CASE ~(t = NoneGiven /\ loaded.kind = "stored")
  <2>1. BriefOf(t) = b /\ b \in AllBriefs /\ BriefWith(b.task, session).scope = b.scope
    BY ScopeOfItsTask DEF BriefOf, BriefWith
  <2> HIDE DEF b
  <2>2. r = Profiles[<<"generated", b>>] /\ <<"generated", b>> \in DOMAIN Profiles
    BY <1>2, <2>1 DEF ProfileOf, TaskProfile, Profiles
  <2>3. r = BuildProfile(b, "generated", WordsOf(b.task), Present)
    BY <2>2 DEF Profiles
  <2>4. r.task = b.task
    BY <2>3 DEF BuildProfile
  <2> HIDE DEF r
  <2>5. ASSUME NEW q \in b.scope, q \in Present, ~Aside(q)
        PROVE  ModeRank[PathMode(BriefPathCheck(q, Present))] <= ModeRank[r.mode]
    BY <2>1, <2>3, <2>5, BriefsKnowTheirScope, ModeIsStrictEnough
  <2>6. ModeFits(r, session)
    BY <2>1, <2>4, <2>5 DEF ModeFits
  <2> QED
    BY <2>6 DEF r
<1> QED
  BY <1>1, <1>2

(* What a command goes on with holds only what is strict enough.           *)
LEMMA HeldStaysFit ==
    ASSUME NEW s, NEW b, NEW a, HoldsFit(b, s), a.brief \in {Missing, b.brief},
           a.pc \notin {"open", "fill"} \/ (b.pc = "open" /\ a.target = b.target /\ a.made = b.made)
    PROVE  HoldsFit(a, s)
<1>1. Missing.kind # "stored"
  BY DEF Missing
<1> QED
  BY <1>1 DEF HoldsFit

(* Each step of a command keeps the files and what it holds strict enough. *)
LEMMA CommandKeepsScope ==
    ASSUME ArtifactInv, ScopeInv, NEW p \in Procs, Step(p) \/ Kill(p)
    PROVE  /\ session' = session
           /\ file'["brief"].kind = "stored" => file'["brief"].is \in AllBriefs
           /\ file'["profile"].kind = "stored" => ModeFits(file'["profile"].is, session)
           /\ \E a : CommandOk(a) /\ HoldsFit(a, session) /\ Goes(p, a)
<1> DEFINE b == at[p]
           old == file["brief"]
           new == file'["brief"]
           prof == file["profile"]
           newProf == file'["profile"]
           s == session
<1>1. HoldsFit(b, s) /\ CommandOk(b)
  BY DEF ScopeInv, ArtifactInv
<1>2. /\ old.kind = "stored" => old.is \in AllBriefs
      /\ prof.kind = "stored" => ModeFits(prof.is, s)
  BY DEF ScopeInv
<1>3. Missing.kind # "stored" /\ Torn.kind # "stored"
  BY DEF Missing, Torn
<1>4. CASE LoadOwn(p) \/ LoadRadar(p) \/ LoadBrief(p) \/ LoadProfile(p) \/ AskGit(p)
  <2>1. UNCHANGED <<file, session>> /\ \E a : CommandOk(a) /\ Reads(b, old, a) /\ Goes(p, a)
    BY <1>4, ReadersGoOn DEF World
  <2>2. PICK a : CommandOk(a) /\ Reads(b, old, a) /\ Goes(p, a)
    BY <2>1
  <2> HIDE DEF b, old, prof, s
  <2>3. HoldsFit(a, s)
    BY <1>1, <1>2, <1>3, <2>2 DEF HoldsFit, Reads, Load
  <2> QED
    BY <1>2, <2>1, <2>2, <2>3 DEF old, prof, s
<1>5. CASE Build(p)
  <2>1. UNCHANGED <<file, session>> /\ \E a : CommandOk(a) /\ Makes(b, Made(b), a) /\ Goes(p, a)
    BY <1>5, BuildersAreOk DEF World
  <2>2. PICK a : CommandOk(a) /\ Makes(b, Made(b), a) /\ Goes(p, a)
    BY <2>1
  <2>3. b.task \in Tasks \cup {NoneGiven} /\ s \in Tasks \cup {NoneGiven}
    BY <1>1, ArtifactAssumption DEF CommandOk, ScopeInv
  <2>4. b.target = "brief" => Made(b) \in AllBriefs
    <3>1. BriefOf(b.task) = BriefWith(b.task, s)
      BY DEF BriefOf, BriefWith
    <3> QED
      BY <2>3, <3>1, ScopeOfItsTask DEF Made
  <2>5. b.target = "profile" => ModeFits(Made(b), s)
    <3>1. b.brief.kind = "stored" => b.brief.is \in AllBriefs
      BY <1>1 DEF HoldsFit
    <3>2. ModeFits(ProfileOf(b.how, b.task, b.brief), s)
      BY <2>3, <3>1, ProfilesFit
    <3> QED
      BY <3>2 DEF Made
  <2>6. HoldsFit(a, s)
    BY <1>1, <2>2, <2>4, <2>5 DEF HoldsFit, Makes
  <2> QED
    BY <1>2, <2>1, <2>2, <2>6
<1>6. CASE OpenFile(p) \/ FillFile(p)
  <2>1. /\ session' = session /\ \E a : CommandOk(a) /\ Goes(p, a) /\ Writes(b, a)
        /\ \A f \in Names :
             \/ file'[f] \in {file[f], Torn}
             \/ b.pc = "fill" /\ b.target = f /\ file'[f] = Stored(b.made)
    BY <1>6, WritersAreOk DEF World
  <2>2. PICK a : CommandOk(a) /\ Goes(p, a) /\ Writes(b, a)
    BY <2>1
  <2>3. HoldsFit(a, s)
    BY <1>1, <2>2, HeldStaysFit DEF Writes
  <2>4. Stored(b.made).is = b.made
    BY DEF Stored
  <2>5. /\ new \in {old, Torn} \/ (b.pc = "fill" /\ b.target = "brief" /\ new = Stored(b.made))
        /\ newProf \in {prof, Torn} \/ (b.pc = "fill" /\ b.target = "profile" /\ newProf = Stored(b.made))
    BY <2>1 DEF Names
  <2> HIDE DEF b, old, new, prof, newProf, s
  <2>6. /\ new.kind = "stored" => new.is \in AllBriefs
        /\ newProf.kind = "stored" => ModeFits(newProf.is, s)
    BY <1>1, <1>2, <1>3, <2>4, <2>5 DEF HoldsFit
  <2> QED
    BY <2>1, <2>2, <2>3, <2>6 DEF new, newProf, s
<1>7. CASE Kill(p)
  <2>1. UNCHANGED <<file, session>> /\ Goes(p, Idle)
    BY <1>7 DEF Kill, Quit, World
  <2>2. Idle.brief = Missing /\ Idle.pc \notin {"open", "fill"}
    BY DEF Idle
  <2>3. HoldsFit(Idle, s)
    BY <1>1, <2>2, HeldStaysFit
  <2> QED
    BY <1>2, <2>1, <2>3, IdleIsOk
<1> QED
  BY <1>4, <1>5, <1>6, <1>7 DEF Step

(* The files, and what the commands hold, stay strict enough.              *)
LEMMA ScopeStep ==
    ASSUME ArtifactInv, ScopeInv, [ArtifactNext]_artifactVars
    PROVE  ScopeInv'
<1> DEFINE FilesFit == /\ file["brief"].kind = "stored" => file["brief"].is \in AllBriefs
                       /\ file["profile"].kind = "stored" => ModeFits(file["profile"].is, session)
<1>1. CASE UNCHANGED artifactVars
  BY <1>1 DEF artifactVars, ScopeInv
<1>2. FilesFit /\ session \in Sessions
  BY DEF ScopeInv
<1>3. ASSUME FilesFit', session' = session, NEW p \in Procs, NEW a, HoldsFit(a, session), Goes(p, a)
      PROVE  ScopeInv'
  <2>1. at' = [q \in Procs |-> IF q = p THEN a ELSE at[q]]
    BY <1>3 DEF ArtifactInv, Goes
  <2>2. \A q \in Procs : HoldsFit(IF q = p THEN a ELSE at[q], session)
    BY <1>3 DEF ScopeInv
  <2>3. \A q \in Procs : HoldsFit(at'[q], session')
    BY <1>3, <2>1, <2>2
  <2> QED
    BY <1>2, <1>3, <2>3 DEF ScopeInv
<1>4. ASSUME NEW p \in Procs, Step(p) \/ Kill(p) PROVE ScopeInv'
  <2>1. FilesFit' /\ session' = session /\ \E a : HoldsFit(a, session) /\ Goes(p, a)
    BY <1>4, CommandKeepsScope
  <2> QED
    BY <1>3, <2>1
<1>5. ASSUME NEW p \in Procs, NEW cmd \in Names, NEW how \in Options[cmd],
             NEW t \in Tasks \cup {NoneGiven}, Start(p, cmd, how, t)
      PROVE  ScopeInv'
  <2> DEFINE c == [Idle EXCEPT !.cmd = cmd, !.how = how, !.task = t, !.pc = First[cmd], !.target = cmd]
  <2>1. UNCHANGED <<file, session>> /\ Goes(p, c)
    BY <1>5 DEF Start, Goes, World
  <2>2. c.pc = First[cmd] /\ c.brief = Missing
    BY DEF Idle
  <2>3. First[cmd] \notin {"open", "fill"} /\ Missing.kind # "stored"
    BY DEF First, Names, Missing
  <2> HIDE DEF c
  <2>4. HoldsFit(c, session)
    BY <2>2, <2>3 DEF HoldsFit
  <2>5. FilesFit'
    BY <1>2, <2>1
  <2> QED
    BY <1>3, <2>1, <2>4, <2>5
<1>6. ASSUME Edit PROVE ScopeInv'
  BY <1>6 DEF Edit, ScopeInv
<1> QED
  BY <1>1, <1>4, <1>5, <1>6 DEF ArtifactNext

(* However the commands overlap, die and reuse each other's files, a       *)
(* profile made for a task is at least as strict as the path check of each *)
(* source in the scope of that task (buildModelRoutingInputProfile,        *)
(* buildModelRoutingPathCheck).                                            *)
THEOREM ModesCoverTheirScope == ArtifactSpec => []ModeCoversScope
<1>1. ArtifactInit => ScopeInv
  <2>1. Missing.kind # "stored" /\ Idle.brief = Missing /\ Idle.pc \notin {"open", "fill"}
    BY DEF Missing, Idle
  <2>2. \A s : HoldsFit(Idle, s)
    BY <2>1 DEF HoldsFit
  <2> QED
    BY <2>1, <2>2 DEF ArtifactInit, ScopeInv, Names
<1>2. ScopeInv => ModeCoversScope
  BY DEF ScopeInv, ModeCoversScope, ModeFits, BriefOf, BriefWith
<1> QED
  BY <1>1, <1>2, ArtifactStart, ArtifactStep, ScopeStep, PTL DEF ArtifactSpec

(* A task that both gates allow has a route, and some proof is asked of it *)
(* (what WorkIntelligence assumes of the works a session is about).        *)
THEOREM AllowedTasksWantProof ==
    ASSUME NEW t, t.kind \in Kinds, NEW verdict,
           MergeRuntimeGate(RouteGate(RouteWorkContract(t)), verdict) = "allow"
    PROVE  /\ RouteWorkContract(t).route # "blocked"
           /\ RouteWorkContract(t).proof \in {"tests", "browser", "production", "local"}
<1> DEFINE c == RouteRules(t)
           asked == IF t.safeRun = "require_approval" /\ c.approval = "none"
                    THEN [c EXCEPT !.approval = "require_manual_review"] ELSE c
<1>1. c \in EnrichedWorkContracts /\ c.route # "blocked"
      /\ c.proof \in {"tests", "browser", "production", "local"}
  BY DEF RouteRules, Kinds, Contract, EnrichedWorkContracts, RiskClasses, Routes, ApprovalPolicies, ProofRank
<1>2. t.safeRun # "block"
  <2>1. Blocked.route = "blocked"
    BY DEF Blocked, Contract
  <2>2. ASSUME t.safeRun = "block" PROVE FALSE
    <3>1. RouteWorkContract(t) = Blocked
      BY <2>2 DEF RouteWorkContract, Assemble
    <3>2. RouteGate(RouteWorkContract(t)) = "blocked"
      BY <2>1, <3>1 DEF RouteGate
    <3> QED
      BY <3>2 DEF MergeRuntimeGate
  <2> QED
    BY <2>2
<1> HIDE DEF c
<1>3. asked.route = c.route /\ asked.proof = c.proof /\ asked \in EnrichedWorkContracts
  BY <1>1 DEF EnrichedWorkContracts, ApprovalPolicies
<1>4. RouteWorkContract(t) = Assemble(c, t)
  BY <1>2 DEF RouteWorkContract, c
<1> HIDE DEF asked
<1>5. CASE t.secret
  <2>1. Assemble(c, t) =
          [asked EXCEPT !.approval = IF @ = "blocked" THEN @ ELSE "require_manual_review",
                        !.risk = IF @ \in {"low", "medium"} THEN "high" ELSE @,
                        !.proof = MaxProof(@, "tests")]
    BY <1>2, <1>5 DEF Assemble, asked
  <2>2. MaxProof(asked.proof, "tests") \in {"tests", "browser", "production", "local"}
    BY <1>1, <1>3 DEF MaxProof
  <2> QED
    BY <1>1, <1>3, <1>4, <2>1, <2>2 DEF EnrichedWorkContracts
<1>6. CASE ~t.secret
  BY <1>1, <1>2, <1>3, <1>4, <1>6 DEF Assemble, asked
<1> QED
  BY <1>5, <1>6
=============================================================================
