--------------------------- MODULE TaskLifecycle ---------------------------
(***************************************************************************)
(* What a queue of tasks with retries promises about each task: it is      *)
(* accepted once, every attempt starts from the queue, a task gets at most *)
(* MaxAttempts attempts, and a task that has ended never moves again.      *)
(***************************************************************************)
EXTENDS Naturals

CONSTANTS Tasks, MaxAttempts   \* MaxAttempts: a positive number

VARIABLES state,     \* of each task
          attempts   \* started so far, per task

lVars == <<state, attempts>>

EndStates == {"completed", "failed", "cancelled", "timed_out"}
TaskStates == {"unknown", "queued", "running"} \union EndStates

LInit ==
    /\ state = [t \in Tasks |-> "unknown"]
    /\ attempts = [t \in Tasks |-> 0]

Accept(t) ==
    /\ state[t] = "unknown"
    /\ state' = [state EXCEPT ![t] = "queued"]
    /\ UNCHANGED attempts

Begin(t) ==
    /\ state[t] = "queued" /\ attempts[t] < MaxAttempts
    /\ state' = [state EXCEPT ![t] = "running"]
    /\ attempts' = [attempts EXCEPT ![t] = @ + 1]

Requeue(t) ==
    /\ state[t] = "running" /\ attempts[t] < MaxAttempts
    /\ state' = [state EXCEPT ![t] = "queued"]
    /\ UNCHANGED attempts

(* Several tasks may time out at once.  Only a cancellation ends a task    *)
(* that is waiting.                                                        *)
Finish(T, outcome) ==
    /\ \A t \in T : state[t] = "running" \/ (state[t] = "queued" /\ outcome = "cancelled")
    /\ state' = [t \in Tasks |-> IF t \in T THEN outcome ELSE state[t]]
    /\ UNCHANGED attempts

Clear ==
    /\ state' = [t \in Tasks |-> "unknown"]
    /\ attempts' = [t \in Tasks |-> 0]

LNext ==
    \/ \E t \in Tasks : Accept(t) \/ Begin(t) \/ Requeue(t)
    \/ \E T \in SUBSET Tasks, outcome \in EndStates : Finish(T, outcome)
    \/ Clear

LSpec == LInit /\ [][LNext]_lVars
=============================================================================
