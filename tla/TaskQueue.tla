----------------------------- MODULE TaskQueue -----------------------------
(***************************************************************************)
(* The adapter task queue (kernel/tool-adapters/task-queue.ts).            *)
(*                                                                         *)
(* Task n is the n-th id issued since the last reset.  The array `queue'   *)
(* is kept sorted by priority and queuedAt with a stable sort after a      *)
(* push, so it is the set of its tasks in the order of (priority,          *)
(* queuedAt, last push); the other three arrays are only searched and      *)
(* counted, and are sets.  Descriptions and error texts are left out.      *)
(***************************************************************************)
EXTENDS Naturals, FiniteSets

CONSTANTS MaxTasks,       \* bound on the ids issued between two resets
          MaxTime,        \* bound on the clock (Date.now), which starts at 1
          Priorities,     \* ranks: 0 is the most urgent
          MaxRetries,     \* bound on the maxRetries of a task
          RetryChoices,   \* maxRetries a task may be given
          Timeouts,       \* timeoutMs a task may be given
          Configs,        \* [maxConcurrent, maxQueueSize] a caller may set
          DefaultConfig,
          MostRunning, MostQueued   \* bounds on the configurations

Ids == 1..MaxTasks

ASSUME QueueAssumption ==
    /\ MaxTasks \in Nat
    /\ MaxTime \in Nat
    /\ Priorities \subseteq Nat
    /\ MaxRetries \in Nat
    /\ RetryChoices \subseteq 0..MaxRetries
    /\ Timeouts \subseteq Nat
    /\ MostRunning \in Nat /\ MostQueued \in Nat
    /\ Configs \subseteq [maxConcurrent : 0..MostRunning, maxQueueSize : 0..MostQueued]
    /\ DefaultConfig \in Configs

VARIABLES
    task,       \* the task objects, by id
    queue, running, completed, failed,
    totalProcessed, totalFailed, totalTimedOut,
    config,
    nextId,
    pushes,     \* pushes onto the queue so far (only their order matters)
    now,        \* the clock
    starts      \* history: attempts started per task

lists == <<queue, running, completed, failed>>
totals == <<totalProcessed, totalFailed, totalTimedOut>>
vars == <<task, lists, totals, config, nextId, pushes, now, starts>>

Statuses == {"none", "queued", "running", "completed", "failed", "cancelled", "timed_out"}

TaskRecords ==
    [priority : Priorities \union {0}, status : Statuses, maxRetries : 0..MaxRetries,
     retryCount : Nat, timeoutMs : Nat, queuedAt : Nat, startedAt : Nat, pushed : Nat]

(* An id not issued yet; startedAt = 0 stands for null.                    *)
NoTask == [priority |-> 0, status |-> "none", maxRetries |-> 0, retryCount |-> 0,
           timeoutMs |-> 0, queuedAt |-> 0, startedAt |-> 0, pushed |-> 0]

Fresh ==
    /\ task = [t \in Ids |-> NoTask]
    /\ queue = {} /\ running = {} /\ completed = {} /\ failed = {}
    /\ totalProcessed = 0 /\ totalFailed = 0 /\ totalTimedOut = 0
    /\ config = DefaultConfig
    /\ nextId = 1
    /\ pushes = 0
    /\ starts = [t \in Ids |-> 0]

Init == Fresh /\ now = 1

resetTaskQueue ==
    /\ task' = [t \in Ids |-> NoTask]
    /\ queue' = {} /\ running' = {} /\ completed' = {} /\ failed' = {}
    /\ totalProcessed' = 0 /\ totalFailed' = 0 /\ totalTimedOut' = 0
    /\ config' = DefaultConfig
    /\ nextId' = 1
    /\ pushes' = 0
    /\ starts' = [t \in Ids |-> 0]
    /\ UNCHANGED now

configureTaskQueue(c) ==
    /\ config' = c
    /\ UNCHANGED <<task, lists, totals, nextId, pushes, now, starts>>
-----------------------------------------------------------------------------
(* queue.push(task); sortQueue()                                           *)
Push(t, record) ==
    /\ queue' = queue \union {t}
    /\ pushes' = pushes + 1
    /\ task' = [task EXCEPT ![t] = record]

(* Slip: of two equal tasks the one pushed last comes first.               *)
LastInFirst(t, u) ==
    \/ task[t].priority < task[u].priority
    \/ task[t].priority = task[u].priority /\ task[t].pushed > task[u].pushed

(* t stands before u in the sorted array.                                  *)
Before(t, u) ==
    \/ task[t].priority < task[u].priority
    \/ /\ task[t].priority = task[u].priority
       /\ \/ task[t].queuedAt < task[u].queuedAt
          \/ task[t].queuedAt = task[u].queuedAt /\ task[t].pushed < task[u].pushed

(* The model stops issuing ids at MaxTasks; the code goes on.              *)
enqueueTask(priority, maxRetries, timeoutMs) ==
    /\ Cardinality(queue) < config.maxQueueSize
    /\ nextId \in Ids
    /\ Push(nextId, [priority |-> priority, status |-> "queued", maxRetries |-> maxRetries,
                     retryCount |-> 0, timeoutMs |-> timeoutMs, queuedAt |-> now,
                     startedAt |-> 0, pushed |-> pushes + 1])
    /\ nextId' = nextId + 1
    /\ UNCHANGED <<running, completed, failed, totals, config, now, starts>>

(* Slip: one task more than maxConcurrent.                                 *)
dequeueOneMore(t) ==
    /\ Cardinality(running) <= config.maxConcurrent
    /\ t \in queue
    /\ \A u \in queue \ {t} : Before(t, u)
    /\ queue' = queue \ {t}
    /\ running' = running \union {t}
    /\ task' = [task EXCEPT ![t] = [@ EXCEPT !.status = "running", !.startedAt = now]]
    /\ starts' = [starts EXCEPT ![t] = @ + 1]
    /\ UNCHANGED <<completed, failed, totals, config, nextId, pushes, now>>

dequeueNext(t) ==
    /\ Cardinality(running) < config.maxConcurrent
    /\ t \in queue
    /\ \A u \in queue \ {t} : Before(t, u)
    /\ queue' = queue \ {t}
    /\ running' = running \union {t}
    /\ task' = [task EXCEPT ![t] = [@ EXCEPT !.status = "running", !.startedAt = now]]
    /\ starts' = [starts EXCEPT ![t] = @ + 1]
    /\ UNCHANGED <<completed, failed, totals, config, nextId, pushes, now>>

completeTask(t) ==
    /\ t \in running
    /\ running' = running \ {t}
    /\ completed' = completed \union {t}
    /\ task' = [task EXCEPT ![t].status = "completed"]
    /\ totalProcessed' = totalProcessed + 1
    /\ UNCHANGED <<queue, failed, totalFailed, totalTimedOut, config, nextId, pushes, now, starts>>

(* Slip: one retry too many.                                               *)
RetryOnceMore(t) ==
    /\ t \in running
    /\ task[t].retryCount <= task[t].maxRetries
    /\ running' = running \ {t}
    /\ Push(t, [task[t] EXCEPT !.status = "queued", !.retryCount = @ + 1, !.startedAt = 0,
                               !.pushed = pushes + 1])
    /\ UNCHANGED <<completed, failed, totals, config, nextId, now, starts>>

(* A retry keeps queuedAt and does not look at maxQueueSize.               *)
RetryTask(t) ==
    /\ t \in running
    /\ task[t].retryCount < task[t].maxRetries
    /\ running' = running \ {t}
    /\ Push(t, [task[t] EXCEPT !.status = "queued", !.retryCount = @ + 1, !.startedAt = 0,
                               !.pushed = pushes + 1])
    /\ UNCHANGED <<completed, failed, totals, config, nextId, now, starts>>

FailForGood(t) ==
    /\ t \in running
    /\ task[t].retryCount >= task[t].maxRetries
    /\ running' = running \ {t}
    /\ failed' = failed \union {t}
    /\ task' = [task EXCEPT ![t].status = "failed"]
    /\ totalFailed' = totalFailed + 1
    /\ UNCHANGED <<queue, completed, totalProcessed, totalTimedOut, config, nextId, pushes,
                   now, starts>>

failTask(t) == RetryTask(t) \/ FailForGood(t)

(* Slip: a cancelled task still occupies its slot.                         *)
cancelInPlace(t) ==
    /\ t \in queue \union running
    /\ queue' = queue \ {t}
    /\ failed' = failed \union {t}
    /\ task' = [task EXCEPT ![t].status = "cancelled"]
    /\ UNCHANGED <<running, completed, totals, config, nextId, pushes, now, starts>>

cancelTask(t) ==
    /\ t \in queue \union running
    /\ queue' = queue \ {t}
    /\ running' = running \ {t}
    /\ failed' = failed \union {t}
    /\ task' = [task EXCEPT ![t].status = "cancelled"]
    /\ UNCHANGED <<completed, totals, config, nextId, pushes, now, starts>>

Expired(t) == task[t].startedAt # 0 /\ now - task[t].startedAt > task[t].timeoutMs

(* Without an expired task the sweep changes nothing.                      *)
timeoutExpiredTasks ==
    LET timedOut == {t \in running : Expired(t)}
    IN  /\ timedOut # {}
        /\ running' = running \ timedOut
        /\ failed' = failed \union timedOut
        /\ task' = [t \in Ids |-> IF t \in timedOut THEN [task[t] EXCEPT !.status = "timed_out"]
                                                    ELSE task[t]]
        /\ totalTimedOut' = totalTimedOut + Cardinality(timedOut)
        /\ UNCHANGED <<queue, completed, totalProcessed, totalFailed, config, nextId, pushes,
                       now, starts>>

Tick ==
    /\ now < MaxTime
    /\ now' = now + 1
    /\ UNCHANGED <<task, lists, totals, config, nextId, pushes, starts>>

Operation ==
    \/ \E c \in Configs : configureTaskQueue(c)
    \/ \E p \in Priorities, r \in RetryChoices, ms \in Timeouts : enqueueTask(p, r, ms)
    \/ \E t \in Ids : dequeueNext(t) \/ completeTask(t) \/ failTask(t) \/ cancelTask(t)
    \/ timeoutExpiredTasks

Next == Operation \/ resetTaskQueue \/ Tick

Spec == Init /\ [][Next]_vars
-----------------------------------------------------------------------------
(* Properties.                                                             *)

TypeOK ==
    /\ task \in [Ids -> TaskRecords]
    /\ queue \subseteq Ids /\ running \subseteq Ids
    /\ completed \subseteq Ids /\ failed \subseteq Ids
    /\ totalProcessed \in Nat /\ totalFailed \in Nat /\ totalTimedOut \in Nat
    /\ config \in Configs
    /\ nextId \in 1..(MaxTasks + 1)
    /\ pushes \in Nat
    /\ now \in Nat \ {0}
    /\ starts \in [Ids -> Nat]

(* An issued task is in exactly one of the four arrays, the one its status *)
(* names; an id not issued is in none (the pushes and splices of every     *)
(* operation against the status it sets).                                  *)
WithStatus(status) == {t \in Ids : task[t].status = status}

OneList ==
    /\ queue = WithStatus("queued")
    /\ running = WithStatus("running")
    /\ completed = WithStatus("completed")
    /\ failed = WithStatus("failed") \union WithStatus("cancelled") \union WithStatus("timed_out")
    /\ \A t \in Ids : task[t].status = "none" <=> t >= nextId

(* However retries bypass maxQueueSize and the configuration changes, the  *)
(* tasks waiting or running never outnumber the largest queue plus the     *)
(* largest concurrency ever configured.                                    *)
WorkBounded ==
    /\ Cardinality(running) <= MostRunning
    /\ Cardinality(queue) + Cardinality(running) <= MostQueued + MostRunning

(* A task is started at most maxRetries + 1 times, one start per retry.    *)
AttemptsBounded ==
    \A t \in Ids :
        /\ task[t].retryCount <= task[t].maxRetries
        /\ starts[t] = task[t].retryCount + (IF task[t].startedAt # 0 THEN 1 ELSE 0)

(* FIFO within a priority, for first attempts: a task that has started     *)
(* overtook no earlier task of its priority that still waits for its first *)
(* start.                                                                  *)
FirstStartsInOrder ==
    \A t, u \in Ids :
        t < u /\ starts[u] > 0 /\ task[t].priority = task[u].priority
          /\ task[t].status = "queued" => starts[t] > 0

(* A finished task is never finished again or revived, short of a reset: a *)
(* late answer for a task that timed out, failed or was cancelled is void. *)
EndedStaysEnded ==
    [][nextId' >= nextId =>
         /\ completed \subseteq completed'
         /\ failed \subseteq failed'
         /\ \A t \in completed \union failed : task'[t] = task[t]]_vars

(* The queue implements the life cycle of TaskLifecycle: the abstract      *)
(* state of a task is its status, whatever list it sits in.                *)
LifecycleState ==
    [t \in Ids |-> IF task[t].status = "none" THEN "unknown" ELSE task[t].status]

Lifecycle ==
    INSTANCE TaskLifecycle WITH
        Tasks <- Ids,
        MaxAttempts <- MaxRetries + 1,
        state <- LifecycleState,
        attempts <- starts

ImplementsTaskLifecycle == Lifecycle!LSpec
=============================================================================
