# Avorelo verification project

TLA+ models of the control kernel of Avorelo and of the capabilities around it,
TLC configurations that check them on small instances, and theorems that TLAPS
proves for every value of the constants. Paths below are relative to
`src/avorelo/` of the repository unless they start with `docs/` or `tests/`.

Contents: 1 inventory, 2 modules and their correspondence to the code, 3 runs,
4 bounds, 5 fairness, 6 where code and text disagree, 7 proofs, 8 what is not
modelled, 9 plan.

## 1. Inventory

Avorelo is a single-user tool around coding agents: a command line, hooks an
agent calls, and a kernel of deterministic deciders. There is no server and no
lock; components share state through files under `.avorelo/` and `.claude/`
and through module-level variables of one process.

| component | state | operations | what makes it correct |
|---|---|---|---|
| evidence router `kernel/evidence` | none | `gradeAll`, `isReadyEligible`, `plausibleForReady` | an artifact is graded at most what its kind allows |
| stop/continue gate `kernel/stop-continue-gate` | none | `decide` | a policy block beats evidence; done needs an outcome seen after the action |
| drift guard `kernel/drift-guard` | none | scope and method drift | a disallowed path or a destructive command is always a blocking finding |
| loop control `capabilities/loop-control` | locals of `runLoop`; receipt, metadata, `active.json` | `runLoop`; `loop check/start/status/latest/resume/receipt` | leaves at the first stop verdict, within its budget; says why; its files appear in an order, and a reader of many loops' files is not misled |
| loop adapter `adapters/claude-code/loop-adapter` | none | `executeIteration` | one bounded agent run; never yields to the event loop |
| adapter task queue `kernel/tool-adapters/task-queue` | four arrays, totals, configuration | enqueue, dequeue, complete, fail/retry, cancel, timeout, reset | one list per task; bounded work and attempts; late answers are void |
| control sessions `capabilities/session` | a JSON file per session, receipts, resume packets | create, hook event, watch, evidence report, end | a destructive command is never let through; an ended session stays ended and leaves its papers |
| PreToolUse gate, lifecycle hook, runtime boundary `kernel/pretooluse-gate`, `adapters/claude-code`, `kernel/runtime-boundary` | none | `preToolUse`, `handleLifecycleHook`, `checkWrite` | the gate's refusal stands, whatever happens to the session |
| single run, receipts, redaction `kernel/run.ts`, `kernel/receipts`, `shared/redaction` | receipt files | `runSlice1`, `persistReceipt` | a receipt says what the gate decided |
| proof contract, evidence gate, proof adapters, verification receipt `kernel/proof-contract` ... | receipt files | `prove`: contract, adapters, verdict, receipt, pruning | "safe to close" is earned; the newest receipts are kept |
| hook installation, activation, instruction management, workspace `adapters/claude-code`, `capabilities/activation`, `capabilities/instruction-management`, `capabilities/workspace` | `settings.json` with backups, managed blocks, `.gitignore`, activation and workspace files | `activate`, `init`, `settings`, `uninstall`, `status`, `verify` | the user's hooks and text survive; Avorelo's go; the workspace keeps its identity |
| context control `kernel/context-control` | `items.jsonl`, conflicts, receipts | discover, brief, promote, forget | secrets are never shown; a claim needs evidence; forgotten is hidden |
| work contract, work controls, tool adapters, runtime flow `kernel/work-contract`, `kernel/work-controls`, `kernel/tool-adapters`, `capabilities/runtime-flow` | the session record | `routeCanonical`, `runRuntimeSession` | what is not approved is not executed; a fallback loosens nothing; a review fails closed |
| token cost, proof report, value ledger, efficiency sync, continuity | appended lines and latest files | import, build, record, sync | a cost shown is a sum of costs on record |
| work intelligence `capabilities/work-intelligence` | summary, history, resume packet | upsert, read | it says what the session's record says |
| context compiler and brief, route profile, workflow radar, session continuity | latest file of each, by task | `context brief`, `model route`, `workflow radar`, `session handoff` | each judges a path as the next one will; blocked work is not handed on as safe |
| control router, state ledger, secret boundary, context check, company loop, readiness reports, guided modes, update check, other agents' adapters, browser QA, feedback, preview server, schemas, dogfood scripts | little or none | rule tables, rendering, drivers | section 8 |

How they interact: the CLI runs `runLoop` in its own process, which calls an
adapter, the drift guard and the checks, then the gate, the receipt writer and
the loop metadata. A hook is a process of its own for each event: it asks the
PreToolUse gate, reads the latest open session file, updates it up to three
times, and on SessionEnd calls `runSlice1`, writes the receipt and closes the
session. `runRuntimeSession` makes a contract, lets the gate decide, plans and
executes tool adapters, asks for a review, and hands its outcome to continuity,
cost evidence, proof report, ledger, sync and work intelligence, each of which
may fail without stopping the next. The brief, route, radar and handoff commands
read the files the ones before have left. `activate`, `init`, `settings` and
`uninstall` rewrite files the user edits too.

Hard behaviour, where the properties aim: processes that read, merge and rewrite
a file without a lock; a file truncated before it is written; a kill between two
of several files; a signal that only the event loop can deliver; tests in an
order in which one shadows another; snapshots used after they went stale; late
answers for tasks that timed out; stages that throw and are passed over. The
list, each at its line and with the properties that cover it, is under
`hazards` in `PROJECT.json`. Left off it for its length, and covered by no
property: a required scope check that no code runs (section 6), a torn receipt
that makes the receipt listing give up, and queue limits lowered by
reconfiguration while tasks run (the instance of `queue_configs` does it).

## 2. Modules

| module | models | how |
|---|---|---|
| `StopGate` | `kernel/evidence`, `kernel/stop-continue-gate` | operators; shared by the two state machines that ask the gate |
| `LoopControl` | `runLoop` with drift guard, iteration drift, checks runner, metadata, `active.json` | a program counter; one action per exit of the loop and per file written |
| `BoundedLoop` | what a loop promises (abstract) | budget, taint, verdict |
| `LoopCommand` | the loop command: readiness, policy, several loops over one directory, a reader | each file write two steps; an iteration is its verdict |
| `TaskQueue`, `TaskLifecycle` | `task-queue.ts`; what it promises about one task (abstract) | one action per exported operation |
| `PreToolGate`, `SessionControl` | the gate; session store, orchestrator, drift detector, interventions, watcher, resume packet and lifecycle hook | processes over shared files; read, truncation, write are steps |
| `ProofContract`, `VerificationRun` | contract, evidence gate, adapters; the `prove` command | operators; a command per process, one step per adapter and file |
| `ManagedBlocks`, `Workspace`, `Activation` | blocks in a text; workspace, settings and record files; the commands that write them | a text is a sequence of parts; a command is a sequence of writes with kills between |
| `ContextMemory` | context control from discovery to brief, mode of work, promote, forget | processes that load all items and write all of them |
| `WorkContract`, `ToolAdapters`, `ModelRouting`, `RuntimeFlow` | contract and gate; planner, fallbacks, results, review; primitive, model, verifier; `runRuntimeSession` | operators; a stage at a time, any of which may throw |
| `TokenCost`, `EvidenceLedger` | cost records and their sums; the recording layers | operators; processes over the evidence files |
| `WorkReports`, `WorkIntelligence` | what packet, report, intelligence and cards say; who writes them when | operators; processes over six files |
| `WorkPaths`, `WorkBrief`, `RouteProfile`, `WorkflowRadar`, `WorkArtifacts` | what a path is to each tool; packet and brief; profile; radar and handoff; the four commands over their files | operators, each on the one before; processes over files |
| `MC...` | values of the constants for TLC | definitions only |
| `LoopControl_proofs`, `LoopCommand_proofs`, `TaskQueue_proofs`, `SessionControl_proofs`, `VerificationRun_proofs`, `RuntimeFlow_proofs`, `ContextMemory_proofs`, `Activation_proofs` | theorems | section 7 |

**LoopControl.** `pc` says where `runLoop` is: `top` is the head of the `for`,
`agent` the awaited `executeIteration`, `gate`, `metadata`, `clear` the three
file writes that follow. From the adapter's answer to the next loop head
nothing else of the process can run, so an iteration's end is one step with one
disjunct per exit of the code, guarded by the negation of those before it. A
file is what the patterns make of it (`Allowed`, `Disallowed`), a command is
blocked or harmless, a check is one that runs a command, one that has none, or a
scope/drift entry that `runCheck` hands back untouched. `AdapterYields` says
whether the adapter ever lets the event loop turn. The limit is any value of
`Number("...")`: whole, a fraction or NaN, for the test of the `for` and that of the
gate cut a fraction differently. `endedBy` is a history variable, the output of
the iteration that left the loop. `Crash` stands for a kill and
for an exception of the adapter or a write, which nothing in `runLoop` catches.

**LoopCommand.** Above it: a task is the pattern list it matches first, `--max`
is absent, a whole number, a fraction or NaN, the checks are what `detectCheckCommands` finds in
the project. An iteration is its verdict, for what happens inside one is
`LoopControl`'s. `active.json` is absent, torn or names a loop; so are the
metadata files, which `loop latest` reads one after the other.

**TaskQueue.** A task is the n-th id since the last reset. `queue` is sorted
after each push by a stable sort, so it is a set with the order `Before`
(priority, queuedAt, last push); the other arrays are only searched and
counted. `starts` is a history variable. A retry pushes without looking at
`maxQueueSize`, as the code does.

**SessionControl.** `disk` holds the session files, `torn` those truncated and
not yet rewritten, which no reader can parse. `at[p]` is a process: its event,
the update under way, the step of it, the snapshot it loaded and what it will
write. `Patch` computes each patch from the snapshot, exactly where the code
does, and `ReadFile` merges it into what is on disk by then. `Throw` is an
exception of the session code, which the hook swallows: the gate's answer then
stands alone. `Routed` says whether a hook reaches the session at all: its
caller must name a directory, which the installed hooks do not
(`surfaces/cli/avorelo.ts:830`), and the bare `require` of
`adapters/claude-code/index.ts:179` must work, which it does in the bundle and
not in the ES modules that node runs itself; the error is swallowed. A content
with a raw secret is a case of the gate's own. The
second `processHookEvent` call of SessionEnd is an action. The 500-character limit of
the redaction is kept by a command whose dangerous part the stored copy no
longer has. `raced` is a history variable: two handlers overlapped, or one died.

**VerificationRun.** A project is its scripts, manifest, schema, secrets and
worktree; a command reads the changed files once and makes the contract, then
each adapter looks at the project as it is when it runs, because the agent
works on. A receipt is written in two steps under the name of its millisecond;
pruning lists, then unlinks one by one, and ends at a file that is gone.

**Activation.** A command's writes are the values of `op`, in the code's order;
a kill inside one leaves a JSON file torn and cuts an instruction file short,
for both are written in place. `spoilt` is a history variable: which of the
accidents have happened that the code does not recover from. The user adds and removes hooks,
text and marker lines only between commands. The hook groups of an event are a
set: no code looks at their order, and Avorelo's group is found by what it
holds. The user's text is which pieces there are and which stands before which;
the runs of blank lines among them are parts of their own, which a removal
narrows in the whole file. Events are alike and so are pieces of text, hence the symmetry. `Workspace` has the files of `init` and
`settings` and what the readers make of them; an id is the number of the command
that made it up.

**ContextMemory.** A text is the set of pattern families it matches, a
repository a sequence of sections with the signals mode detection reads. An item
has its trust, freshness, status and visibility; the budget is numbers of
tokens, scaled down.

**RuntimeFlow.** A task is what the classifiers find in it and a machine is what
detection finds on it; TLC goes through every combination. `pc` is the stage;
a stage that the code wraps in try/catch may be passed over. `RecordOf` is what
the session would put on record, and `ValidateRuntimeSession` the checks of it
that depend on what the flow did. The layers after
the record are `EvidenceLedger`'s, where each file read or write is a step.

**WorkArtifacts.** A command loads, one file at a time, what its code loads,
then git's view of the worktree, then writes: truncation, text. A torn file
parses as none. Paths are `WorkPaths`' places: the names the patterns of the four
tools tell apart. The scope of a brief names a source of the tool by the
directory of its layer, as three segments of its path do.

**Slips.** A definition commented "Slip:" is not the code's: it is a plausible
mistake in the definition that follows it, and `mutants` in `PROJECT.json` says
which property catches it under which run. They appear in no specification.

`PROJECT.json` maps each definition to the lines it models, about a third of the
implementation's lines. The rest is mostly wording, rendering, schemas,
argument parsing, scripts and the components of section 8.

## 3. Runs

| run | asks | distinct states |
|---|---|---|
| `loop_checks` | an adapter that really waits, kills and signals at every step, and a limit of three and a half | 145 thousand |
| `loop_command` | two loops and a reader over one directory, kills between any two steps, every kind of `--max` | 2.9 million |
| `queue_configs` | limits change, tasks expire, the queue is reset | 351 thousand |
| `session_race` | two overlapping processes killed anywhere | 1.5 million |
| `session_serial` | one event after the other over two sessions, from callers that reach the session and callers that do not | 3.1 million |
| `runtime_flow` | every task and machine the classifiers tell apart, every stage failing | 73 thousand |
| `evidence_ledger` | two sessions, a recorder and an import over the evidence files | 528 thousand |
| `activation_cycle` | activations, sessions, removals, user edits and kills between and inside the writes | 4.4 million |
| `verification_run` | two `prove` commands over a project that is edited meanwhile | 1.1 million |
| `context_memory` | two overlapping commands among brief, promote and forget | 707 thousand |
| `work_artifacts` | two overlapping commands among brief, route, radar, handoff | 775 thousand |
| `work_reports` | two sessions and a reader of the work intelligence, one trouble | 1.0 million |

What they show, by property:

- `StopsAtFirstVerdict`, `StopReasonJustified`, `ProvedIsClean`: the reason on
  record is what the last iteration, or the head of the loop, came to, and
  nothing that the code looks at before it came about as well; a loop recorded
  as proved was clean. `FilesOrdered`: whatever the moment of a
  kill, metadata implies a receipt and a cleared `active.json` implies both.
  `AbortHonoured`, `EveryRunEnds`: an abort that arrives during an iteration lets
  it end and starts no other, and the loop then says so even when its time or
  its budget ran out meanwhile, unless that iteration was the last or stopped it
  for a reason of its own; every run ends. `ImplementsBoundedLoop`: refinement.
- `RiskIsBounded`: a destructive task never gets an agent and a risky one gets
  it once, whatever `--max` says. `VerdictFollowsWork`: the only receipts that let
  work go on are those of loops that used up a limit no count of iterations
  reaches, 2.5 or NaN; every other says stop. `ActiveTellsTruth`: `active.json` never
  names a loop that ended, and a loop alone is named while it works; a dead one
  stays. `LatestIsYoungest`: the reader shows no older loop than was there when
  it began.
- `OneList`, `WorkBounded`, `FirstStartsInOrder`, `ImplementsTaskLifecycle`: the
  queue's bookkeeping under late answers, retries, cancels and timeouts.
- `DestructiveNeedsApproval`: although updates are lost and files are torn, a
  hook never lets through what the gate refuses or its session calls
  destructive. `EndsLeavePapers`: a closed session has a receipt across races
  and kills. `DestructiveSticks`, `EndedIsFinal` hold without overlap, and their
  statements say so; with overlap the store loses updates by design.
- `FallbackKeepsPrivacy`, `UnapprovedRiskNeverExecutes`, `ReviewFailsClosed`: see
  section 6 for how little else holds a gated session back. `RecordsValidate`:
  the flow builds no record that its own validation would refuse, so that no
  session vanishes for it; in particular no tool, fallback or fake one, has
  done a forbidden task.
- `EntriesMatchThePast`: whatever report of whatever session the ledger takes its
  token entries from, each tells what all the records said at one moment, no
  earlier than the record of the session whose report it is: no unknown cost
  counted as zero, no two currencies in one sum. That the costs summed were
  measured is not so (section 6). `OwnRecordCounted`: a session's own record is in
  its own report and sync.
- `UninstallLeavesNone`, `ForeignHooksKept`, `UserTextIntact`, `IdentityKept`: an
  uninstall leaves no Avorelo hook; the user's hooks and text survive, as far as
  the statements say: the text not a kill in the middle of a write, and the
  blank lines not a removal (section 6); the workspace id survives everything
  but a reset.
- `SafeIsEarned`, `NewestAreKept`: a safe verdict means that the build and tests
  ran and no scanned file held a secret, whatever changed meanwhile; pruning by
  a stale list takes none of the newest.
- `SecretsKeptOut`, `ClaimsHaveEvidence`, `ForgottenHidden`: across lost updates
  of the items file.
- `PathChecksAgree`, `BlockedTaskStops`, `SafeHandoffIsClean`: the tools agree
  on a path, although each has a pattern list of its own and reads the files of
  others; what is blocked is not handed on, as long as git answers.
- `AloneStaysOpen`, `RepeatsCounted`, `FilesTellOneStory`: what an undisturbed
  session leaves is about itself, open where its tier's proof is missing.

Each module's `TypeOK` was checked as well and is in no run. Other stated
properties that hold and are in no run: `ModeCoversScope` (`WorkArtifacts`), and
those proved in section 7.

Deadlock is checked in `runtime_flow`, whose sessions follow one another. The
other runs say `CHECK_DEADLOCK FALSE`: processes end, and the bounds on
commands, clocks and events leave them nothing to do.

## 4. Bounds

- Loop: three iterations are needed for the detectors that compare two earlier
  ones, and a limit of 3.5 gives three and a receipt that lets work go on; two checks for a repeated failure that differs from a single one; one
  disallowed file and one outside the allow list for the two severities.
- Loop command: two loops, one of which may be asked anything and has three
  iterations at most (`IterationCap`, 10 in the code; only the comparison
  matters), asked for by a number too large, 2.5, -0.5, NaN or not at all; a clock of two values, so that loops may start in one millisecond.
- Queue: three tasks (one running, one waiting, one retried), one retry, a clock
  of three ticks with a timeout of one, two configurations. `MaxTasks` and
  `MaxTime` stop the model only, never the code.
- Sessions: two processes and one session for races, one process and two
  sessions for the second SessionEnd; three and four events. The thresholds of
  the detector are constants, scaled down so that each signal occurs within the
  bound; only their comparisons are in the model.
- Runtime flow: tasks and machines are sets of what the classifiers and the
  detection find. Plain tasks go with every mix of planner words, risky ones
  with every mix of rules; the two mixes are not multiplied.
- Evidence: two sessions, one recorder, one import, one failed write and an
  estimate that was there before; three imports that differ in confidence,
  currency and in having a cost at all.
- Activation: two events, one foreign hook, two pieces of text, two hosts with
  different preflight failures; three runs (activate, again, uninstall) and two
  edits, and one objective of a session. Two runs would never restore a backup
  that a second activation made. The instruction file is cut short once.
- Verification: lists of one and three files against `ScanLimit` and
  `SurfaceLimit` of two (50 and 100 in the code), three projects, one edit, one
  receipt kept (100 in the code), two clock values, two starts.
- Context: three repositories of three sections each, so that budget, conflict,
  secret and mode each occur; three commands, two at a time.
- Work artifacts: three tasks or none, two commands per process, one edit of the
  worktree over three of the places, one silent git. Briefs name eight paths at
  most (`SizesAssumption`), so that the caps of brief and profile drop none.
- Work reports: an allowed and a blocked work, three receipts, one trouble (a
  failed write, a kill or another command).

## 5. Fairness

`LoopControl`'s `FairSpec` is weak fairness of `Run`, the process being
scheduled: an iteration ends because the adapter gives the agent a timeout
(`loop-adapter.ts`, `execSync` with `timeout`). Nothing is assumed of signals,
of the clock or of a crash. The other specifications have no fairness and claim
no liveness: the queue does nothing on its own, and the processes of the others
are straight sequences that wait for nobody.

## 6. Where code and text disagree

Statements of the repository that TLC refutes. They are stated in the module
and are in no run: the configuration of the run named refutes each when the
statement takes the place of its properties and the constants named are changed.

1. `loop_checks` with `AdapterYields = FALSE`, `SignalStopsLoop`: "The active loop
   will stop after the current iteration." With the Claude Code adapter the
   handler never runs before the loop is over; and `loop stop` only prints that
   it sent a signal.
2. `loop_checks` with `ScopeChecks = {"scope"}` and everything allowed,
   `PassedChecksSucceed`: "All required checks passed" is a success condition
   that no policy of `buildLoopPolicy` can meet, for it requires a scope check
   that is never run: `loop start` never exits 0.
3. `session_serial` with `Routed <- NoneRouted`, `HooksReachTheSession`: "All events
   route through the session orchestrator when a session exists." The installed
   hooks name no directory and never do.
4. `session_serial` with `Routed <- AllRouted`, `EventKinds <- EditsOnly`,
   `SensitiveNeedsApproval`: "This file requires explicit approval before
   modification." The hook records the file as touched before it looks for
   drift, and the detector ignores recorded files.
5. `verification_run` with `Projects <- DirtyProjects`, `Commands <- OneRelease`,
   `DirtyBlocksRelease`: "Dirty worktree blocks release readiness" is a closure
   rule that no adapter produces evidence for.
6. `activation_cycle`, `ForeignHooksIntact`: "merge/uninstall never touch other
   tools' hooks". Hooks added after the install go with the restored backup.
7. `runtime_flow`, `GatedRunsNothing`:
   docs/architecture/routing-execution-ownership-contract.md says adapters
   cannot bypass the contract's gate. A gated session runs its plan with
   `approved` false, and what asks for no approval is executed.
8. `work_artifacts` with `Tasks`, `Sessions <- MCBilled`, `Bases <- MCBases`,
   `HandoffKeepsReview`: docs/development/session-continuity.md:75-81 calls the
   radar the primary source of review requirements; the handoff takes them from
   the changed paths.
9. `activation_cycle`, `BlankLinesKept`: "User content outside markers is never
   touched" (`capabilities/instruction-management/managed-blocks.ts:2`). A removal
   narrows the blank lines of the whole file and trims its ends (line 112).
10. `activation_cycle`, `TextSurvivesKills`: the same of the text itself. The file
   is written in place (lines 84, 93 and 118, and
   `capabilities/activation/activation-run-entry.ts:79`), and a kill in the middle
   loses what was behind.
11. `evidence_ledger`, `CostsAreFirm`: "A cost summary is shown only from
   measured/imported cost evidence" (`capabilities/proof-report/index.ts:54-55`). An import that
   knows its tokens alone lets an estimate of the cost that was there before
   appear as an imported cost.

Observations the models rest on, without a statement to refute:

- Queue: a retry may fill the queue over its limit.
- Sessions: SessionEnd asks the gate without a stop condition and gets
  CONTINUE; two SessionEnd processes overwrite one receipt file.
- Loop command: `--max` with a text that is no number gives a receipt CONTINUE
  without an iteration, and `--max 2.5` one after two iterations; in `loop start --max 3 "fix"` the 3 becomes the task;
  untracked files are not among the changed ones; the abort and the
  destructive-command stop cannot happen with the Claude adapter; the first of
  two loops to end may clear the other's entry, and a killed one is named for
  good; `validateLoopMetadata` has no caller.
- Prove: the rule "explicit skip reason" is never evaluated; `browser_proof` can
  never be satisfied; the secret scan counts all files and reads the first 50,
  by paths relative to the current directory.
- Model routing: the rules for dashboards and for plain documents override the
  production rule, so that the verifier rejects the route and the record says
  `deterministic_local_read`; the verifier looks at the selected model only, and
  the fallback plan of a task with a credential names a provider that trains on
  its data (`kernel/model-routing/verifier.ts:66`).
- Redaction: the redactor lacks the JWT pattern that other lists have.
- Ledger: a faked adapter's report item is inferred and its ledger entry
  measured; `value record` builds a new report without verified
  items; a session may enter another session's report.
- Work intelligence: an undisturbed session is never "proved"; a nested
  reference counts as stale on POSIX, for "/" is replaced by a backslash; a torn
  history line empties the history for good; "expired" and "awaiting_approval"
  are never produced; `resume.history.jsonl` has no reader.
- Activation: settings keep "ws_unknown", or the id from before a reset; the
  record and the workspace have unrelated ids; `repairActivationState` repairs
  nothing; `activate --install-hooks` skips preflight.
- Context: `avorelo brief` prints the same safety line for every mode
  (`surfaces/cli/avorelo.ts:1460`), although a documentation brief has no
  constraints; the mode's constraints are dropped as soon as one policy item is
  included; no command passes what would make production_release detectable;
  what did not fit the budget is in no exclusion receipt.
- Work artifacts: where git times out, the radar is silent and a blocked task's
  handoff is safe, which is why `BlockedTaskStops` leaves that case out; the
  handoff's own file is drift when `.avorelo` is not ignored; a torn artifact is
  "available"; a git-quoted path loses its ending; no workspace map is ever
  written, so that ON_TRACK is unreachable.

## 7. What is proved

The theorems hold for every value of the constants that the named assumptions
admit, where TLC has one small instance: any number of loops, tasks, processes,
sessions, files, projects, sources, hooks and events. Each assumption is in the
module that declares the constants, is evaluated by TLC with the run, and says
what a constant is (patterns match files, limits are numbers, what is checked
is finite), never what the code does. Of each component, an invariant that is
inductive is proved first, and the properties of the runs follow from it.

`LoopControl_proofs`, from `LoopAssumption`:

- `TypeCorrect` first, for it needs no more than the actions.
- The other properties speak of what is in the files, or of the time after the
  loop; none is inductive alone. `LoopInv` adds what holds while the loop runs:
  which files exist at which control point (`FilesAtPoint`), which stop reason
  is possible there (`ReasonAtPoint`), and that the last two iterations share no
  failed check as long as the loop goes on (`NoRepetitionYet`). The last one is
  the reason one of the four iteration detectors never reports (`ProofDriftIsDead`).
  From it follow `LeavesAtFirstVerdict`, `ReceiptsFollowTheLimit`, `FilesInOrder`,
  `ReasonsAreJustified`, `AbortIsHonoured` and `HistoryGrows`. `LoopAssumption`
  admits every number `--max` can be, fractions and NaN included.
- `ReceiptsFollowTheLimit`: a loop's receipt is never STOP_DONE, whatever
  happened, because a passed check is graded below an outcome; it is CONTINUE of
  exactly the loops that used up a limit they cannot reach.
- `UnrunnableBlocks` has its own invariant: a check that no command backs is
  never recorded as passed (`UnrunnableNeverPass`).
- `ProvedLoopsAreClean` needs `LocalsAgree`: the locals that `deriveProofState`
  reads, collected one by one, agree with the iterations they were collected
  from.
- `LoopImplementsBounded`: initial states and steps map to `BoundedLoop` under
  the mapping at the end of `LoopControl`.

The second half of `LoopControl_proofs` is about `WorkIntelligence` (`WorkSpec`),
from `ProcessesAssumption`, that each process has one work, and
`WorksAssumption`, that an allowed work has a route and a proof asked of it;
`AllowedTasksWantProof` in `TaskQueue_proofs` proves the latter of the contract
that the code makes. Two invariants:

- `WorkInv` says of a session nobody disturbed what each stage has left in its
  memory and on disk (`Undisturbed`): the proofs its packet misses are open items
  of its report (`ReportListsOpen`), and what is open is not called proved
  (`OpenIsNotProved`). `UndisturbedWorkStaysOpen` and `UndisturbedFilesAgree`
  follow.
- `CountInv` counts. What a process loaded of the history is in it still, the
  repeats a model names are no more than the history holds, an undisturbed
  session misses none of them, and a session that has not begun has left no
  entry; most steps touch none of this (`QuietStep`). `RepeatedWorkIsCounted`
  follows.

`LoopCommand_proofs`, from `CommandAssumption`: `CommandInv` says for each loop
what its control point implies of its request, policy and files (`LoopsInv`),
for `active.json` whose entry it can be (`ActiveInv`), and for the reader that of
what was there when it began it has seen all but what is left (`ReaderInv`).
`RiskBounded`, `VerdictsFollowWork`, `ActiveIsTruthful` and `LatestYoungest`
follow. The limits that are a fraction or NaN are cases of their own throughout.

`TaskQueue_proofs`, from `QueueAssumption`:

- `QueueInv` is `TypeOK` with `OneList`, `AttemptsBounded` and
  `StartMatchesStatus`: a queued task carries no start time and a running one
  does. Without it a dequeued task could count a start twice. `OneListHolds`
  and `AttemptsAreBounded` follow.
- `WorkIsBounded` needs cardinalities: the queue may exceed its own limit, but a
  retry only moves a task from one list to the other.
- `FirstStartsAreInOrder` needs `IssuedInOrder`: ids, times and pushes are given
  out in one order, and a task keeps its push until it is first started. A
  retry pushes again, which is why the order is one of first starts.
- `EndedTasksStay` and `QueueImplementsLifecycle` are step properties from
  `QueueInv`.

The second half of `TaskQueue_proofs` is about `WorkArtifacts` (`ArtifactSpec`),
from `ArtifactAssumption`: git reports no empty name. `ArtifactInv` says of the
radar and the handoff on disk, and of those a command holds, what each says of its
task and of each of its paths (`RadarOk`, `HandoffOk`); a command can only pass on
what it has read, so neither an overlap nor a kill can break it. The lemmas are
about the tables: a blocked brief gives a profile that stops
(`BlockedBriefStopsProfile`), an assessment is as severe as its worst path and
its profile (`AssessmentIsOk`), and the categories of a handoff miss no path of
the radar's (`CategoriesMissNothing`). `PathsAreJudgedAlike`,
`BlockedTasksAreStopped` and `SafeHandoffsAreClean` follow.

`ScopeInv`, from `FactsAssumption` too (a task mentions no empty path), says that
the profile on disk, and the one a command is about to write, is as strict as
each path in the scope of its task (`ModeFits`). The mode of a profile comes of
weights and counts of the whole brief, the mode of a path of a pattern; that the
first is never behind the second rests on what the tables put into a brief
(`BriefKnowsItsScope`): a release path blocks it, and a source of the tool's own
makes its plan too large to be tiny. `ModesCoverTheirScope` follows.
`AllowedTasksWantProof` is about the contract of a task and supports
`WorksAssumption` above.

`SessionControl_proofs`, from `SessionAssumption`, has three invariants:

- `SessionInv` holds whatever overlaps, is torn or is killed. It says what each
  process may hold at its stage (`HandlerFits`): a snapshot of a session that
  exists, and from the stage that records a command on, that command in what it
  has in memory; and that a closed session has a receipt. `TypeCorrect` and
  `DestructiveNeverAllowed` follow: lost updates can lose the record of a
  command but not the verdict on it.
- `SerialInv` holds while no two handlers overlapped and none died: one process
  at most is at work, the papers of every other session are in order, and how
  far the process has come says which of its own papers are due (`Progress`).
  `PapersAreLeft`, `DestructiveStays` and `EndedStaysFinal` follow. The latest
  open session exists because a finite set of numbers has a greatest one, which
  is proved by well-foundedness of strict inclusion (`FiniteHasMax`).
- `GrowthInv` adds, without overlap, that what a process is about to write
  extends what is on disk of its session (`Current`); the action property
  `RecordsGrow` follows.

`VerificationRun_proofs`, from `ReceiptsAssumption`, `ProjectsAssumption`,
`LimitsAssumption`, `BoundsAssumption` and `CommandsAssumption` (the changed
files are a list): `RunInv` says that an undisturbed command's contract and
results are those of the project as it is (`Sound`), and that a receipt that is
gone, or stands on the list of a command that will unlink it, has enough
younger names (`PruneInv`), a fact that no other command can undo since names
are only added. `VerdictIsEarned` and `NewestReceiptsKept` follow. `TypeInv`
adds that each adapter is listed once and crossed off as its result comes in,
that a receipt's stamp is a moment the clock has shown, and that every text has
a work type: a finite set of scores has a greatest and a finite set of places a
first (`FiniteHasEnds`, by well-foundedness of strict inclusion). `TypeCorrect`
follows.

`RuntimeFlow_proofs`, from `TasksAssumption`: `FlowInv` ties the plan, the
fallbacks still to be tried and the outcome so far to the task's class. The
lemmas under it are about the tables: the policy of a class lists no adapter
looser than a fallback may be, a production task is given to no model, and the
verifier's word decides a review. `FallbacksKeepPrivacy`,
`UnapprovedRiskRunsNothing`, `ReviewsFailClosed`, `RecordsAreValid` and
`TypeCorrect` follow.

The second half of `RuntimeFlow_proofs` is about the layers that a session ends
with; it extends `EvidenceLedger`, whose specification is `LedgerSpec`, and starts
from `ProcsAssumption`, that a process runs one command. `LayerInv` says what a
session has in memory at each stage and that its own record, once in the file,
stays there; `OwnRecordIsCounted` follows. `PastInv` says of the report, the
reports in memory, the ledger and the cards that each tells what a prefix of the
list of records said, the report no shorter a one than its session's own record
needs; what comes later changes no prefix, since the records are only appended
to (`PastStays`, `SaidStays`). `EntriesTellThePast` follows. What the sum over a
prefix is stays uninterpreted in the proof: it is the same sum on both sides.

`ContextMemory_proofs`, from `DiscoveryAssumption` and `BoundsAssumption`:
`MemoryInv` says of every
item, on disk or in the memory of a command, that what holds a secret is
withheld and what claims without evidence is not promoted; it holds for all
overlaps, since a stale snapshot consists of items that were fine.
`SecretsStayOut` and `ClaimsNeedEvidence` follow. `LoneInv` adds, while no two
commands overlap, that no number is given twice and that a command has in memory
what is on disk; `ForgottenStaysHidden` follows and says so. `TypeInv` follows
the items through discovery, triage, budget and brief, and `ReceiptsInv` counts:
the names of receipts are in one order, so that the oldest of those a pruning
leaves has all the others behind it, and these are fewer than the limit.
`TypeCorrect` has both, across overlaps.

`Activation_proofs`, from `ActivationAssumption` (no other tool is called
avorelo): `HookInv` has the three hook properties together, for they need each
other: a restored backup is stripped like any settings and so must be pristine,
and a group that Avorelo shares with another tool is stripped whole, so the
user's hooks are only safe in groups of their own (`OwnGroups`, as long as the
user does not put one into Avorelo's). `UninstallIsComplete` and `ForeignHooksSurvive` follow. `IdentityInv` says what
is on disk between the writes of one `init`; `IdentityStays` follows.
`UserTextIntact` is not inductive either: an update finds the end of a block by
its marker alone. `TextInv` says that every block stands whole and once (`Whole`),
and the lemmas under it follow the places of the parts through each of the three
updates, a removal and an insertion outside the blocks (`Replaced`, `Appended`,
`Removed`, `Inserted`): the pieces of the user are found again, in their order
(`SameText`), and so they are when blank lines are narrowed. `UserTextStays`
follows, of files that no kill has cut short, and with all of these `TypeCorrect`.

Only model-checked:

- `EveryRunEnds`: liveness under fairness.
- `ModesTyped` of `ContextMemory`: the detected mode is decided by a sum over a
  fold.
- `LedgerTypeOK`, `ArtifactTypeOK` and `WorkTypeOK`; the theorems about these
  modules rest on invariants of their own.

Where a `CASE` has arms that overlap, TLC takes the first and the logic does not
say which; the proofs rely on none such. Where the order of the code's tests
matters, the definition is a chain of `IF`.

## 8. What is not modelled

- Two processes writing the same bytes at once: a file is absent, torn or
  somebody's whole text. Listing a directory is one step.
- Rule tables over text without state: control router, secret boundary, context
  check, skill registry. Where a modelled component asks one,
  its answer is part of the input.
- The adapters of other agents each update one managed block, as `ManagedBlocks`
  has it for one file; session start and interventions call them. Readiness reports, guided modes, context budget and tool
  governance are single passes over tables or a checkout.
- The state ledger is an in-memory list that the modelled code writes and does
  not read. The company loop is a report behind a development command. Browser
  QA, the preview server, feedback bundles and the dogfood scripts drive or
  display. The command line beyond the commands above parses and prints.
- `failedCommands` of a session: the adapter never reports `success`. Evidence
  is added by any process the model allows to report it.
- Correction files and managed blocks of a session, the Cursor rule file, the
  wording of findings, receipts, packets, briefs and cards.
- Adapter health, team policy and cost benchmarks: nothing in the program marks
  an adapter unhealthy, so that no cooldown ever starts.
- The health of a model's provider, which nothing in the program changes, and
  the route memory of a session, which is told one route and dropped.
- `mode.json` and `state.json` of context control, which only a status display
  reads; `checkModelRead`, `evaluateAgentAction`, `evaluateCompletionClaim` and
  the enriched contract of readiness, which no command calls.
- Git and external sources of context, which no discovery finds; the UI browser
  adapter, which never runs.

## 9. Plan

In this order:

1. The type invariants `LedgerTypeOK`, `ArtifactTypeOK` and `WorkTypeOK` as theorems.
2. The control router as operators under `RuntimeFlow`.
