--------------------------- MODULE SessionControl ---------------------------
(***************************************************************************)
(* Control sessions on disk and the processes that update them: the store, *)
(* orchestrator, drift detector, interventions and watcher of              *)
(* capabilities/session, as the Claude Code lifecycle hook calls them.     *)
(*                                                                         *)
(* Every hook event, watch and evidence report is a process of its own     *)
(* over the same files.  updateSession reads a session file, merges its    *)
(* patch and writes the whole file: a read, a truncation and a write that  *)
(* other processes may interleave with.  A session list is kept as the set *)
(* or the counts the detector tells apart; the correction text file, the   *)
(* managed blocks and the wording of messages are left out, and so are     *)
(* failedCommands, which stay empty because the adapter never passes       *)
(* `success'.  Reading one file, listing the directory, and persisting a   *)
(* receipt or a packet are each one step.                                  *)
(*                                                                         *)
(* handleLifecycleHook reaches the session only when its caller names the  *)
(* project directory, which the lifecycle-hook command of the installed    *)
(* hooks does not and an embedding may, and when its bare `require' of the *)
(* session works: esbuild resolves it in the bundle, but an ES module that *)
(* node runs itself has no `require', and the error is swallowed.  Routed  *)
(* says which hooks an instance has.                                       *)
(***************************************************************************)
EXTENDS Naturals, FiniteSets, StopGate, PreToolGate

CONSTANTS Ids,             \* session ids, in the order of their file names
          Hooks,           \* processes
          Files, InScope, Sensitive,
          EventKinds,      \* which kinds of event the processes handle
          EvidenceChoices, \* sets of artifact kinds one report may add
          Routed,          \* whether a hook reaches the session
          SecretContents,  \* whether what an edit or another tool carries has a secret
          MaxEvents,       \* bound on the events handled
          EVIDENCE_STALL_THRESHOLD, LOOP_THRESHOLD, CONTEXT_BLOAT_THRESHOLD,
          SKIPPED_CALLS, SKIPPED_FILES   \* of proof_skipped

ASSUME SessionAssumption ==
    /\ Ids \subseteq Nat /\ IsFiniteSet(Ids)
    /\ InScope \subseteq Files /\ Sensitive \subseteq Files
    /\ IsFiniteSet(Files) /\ Unwritable \subseteq Files
    /\ Routed \subseteq BOOLEAN /\ SecretContents \subseteq BOOLEAN
    /\ \A K \in EvidenceChoices : K \subseteq Kinds /\ K # {}
    /\ {MaxEvents, EVIDENCE_STALL_THRESHOLD, LOOP_THRESHOLD, CONTEXT_BLOAT_THRESHOLD,
        SKIPPED_CALLS, SKIPPED_FILES} \subseteq Nat

VARIABLES
    disk,      \* the session files, by id (status "none": no file)
    torn,      \* files truncated and not yet written again: they do not parse
    receipt,   \* the receipt file of each session: its decision, or "none"
    packets,   \* sessions with a resume packet
    at,        \* what each process is doing
    answer,    \* last answer to a PreToolUse event, per process
    events,    \* events handled so far
    raced      \* history: two handlers overlapped, or one died

vars == <<disk, torn, receipt, packets, at, answer, events, raced>>

(* "wipe" is destructive for the gate alone (mkfs), "reset" for the session *)
(* alone (git reset --hard), and "buried" is such a one whose dangerous    *)
(* part lies beyond the 500 characters the redaction of the store keeps.   *)
Commands == {"safe", "wipe", "reset", "buried"}
Destructive == {"reset", "buried"}

SignalTypes == {"scope_drift", "evidence_stall", "loop_detected", "sensitive_file_touched",
                "context_bloat", "proof_skipped", "destructive_action_attempted"}
Blocking == {"sensitive_file_touched", "destructive_action_attempted"}
Corrective == SignalTypes \ (Blocking \union {"context_bloat"})

PreToolUse == {"edit", "bash"} \union OtherTools
Own == {"watch", "evidence"}   \* commands of their own, not hooks
Event ==
    {e \in [kind : {"edit"}, file : Files, secret : SecretContents]
             \union [kind : OtherTools, secret : SecretContents]
             \union [kind : {"bash"}, command : Commands]
             \union [kind : {"watch"}, changed : SUBSET Files \ {{}}]
             \union [kind : {"evidence"}, kinds : EvidenceChoices]
             \union [kind : {"UserPromptSubmit", "PostToolUse", "Stop", "SessionEnd"}] :
        e.kind \in EventKinds}

Sessions ==
    [status : {"none", "open", "closed", "interrupted"},
     closeReason : {"none", "No evidence collected"} \union Decisions,
     calls : Nat, files : [Files -> Nat], commands : SUBSET Commands,
     sensitive : SUBSET Sensitive, evidence : SUBSET Kinds, signals : SUBSET SignalTypes,
     corrections : Nat, routing : {"low", "medium", "high"}]

EmptySession ==
    [status |-> "none", closeReason |-> "none", calls |-> 0,
     files |-> [f \in Files |-> 0], commands |-> {}, sensitive |-> {}, evidence |-> {},
     signals |-> {}, corrections |-> 0, routing |-> "low"]

(* `stage' is the update or file write under way, `io' the step of it,     *)
(* `session' the snapshot loaded at the start, `mem' what is to be written,*)
(* `round' counts the two SessionEnd calls of the adapter.                 *)
Idle == [stage |-> "idle", io |-> "none", event |-> [kind |-> "none"], id |-> 0,
         session |-> EmptySession, mem |-> EmptySession, found |-> {}, round |-> 0]

NoAnswer == [event |-> [kind |-> "none"], seen |-> {}, session |-> "none",
             verdict |-> "recorded"]

Init ==
    /\ disk = [i \in Ids |-> EmptySession]
    /\ torn = {}
    /\ receipt = [i \in Ids |-> "none"]
    /\ packets = {}
    /\ at = [p \in Hooks |-> Idle]
    /\ answer = [p \in Hooks |-> NoAnswer]
    /\ events = 0
    /\ raced = FALSE
-----------------------------------------------------------------------------
(* Drift.                                                                  *)

Touched(s) == {f \in Files : s.files[f] > 0}
EditCount(s) == Cardinality(UNION {{f} \X (1..s.files[f]) : f \in Files})

detectDrift(s) ==
    {type \in SignalTypes :
        \/ type = "scope_drift" /\ Touched(s) \ InScope # {}
        \/ type = "evidence_stall" /\ s.calls > EVIDENCE_STALL_THRESHOLD /\ s.evidence = {}
        \/ type = "loop_detected" /\ \E f \in Files : s.files[f] >= LOOP_THRESHOLD
        \/ type = "sensitive_file_touched"
             /\ (Touched(s) \intersect Sensitive) \ s.sensitive # {}
        \/ type = "context_bloat" /\ s.calls > CONTEXT_BLOAT_THRESHOLD
        \/ type = "proof_skipped"
             /\ s.calls > SKIPPED_CALLS /\ EditCount(s) > SKIPPED_FILES /\ s.evidence = {}
        \/ type = "destructive_action_attempted" /\ s.commands \intersect Destructive # {}}

buildCorrectionGuidance(found) == found \intersect Corrective
hasApprovalRequired(found) == found \intersect Blocking # {}

(* The routing after the drift, if it changes the routing at all.          *)
rerouteOnDrift(found, routing) ==
    IF "sensitive_file_touched" \in found THEN "high"
    ELSE IF "proof_skipped" \in found THEN "medium"
    ELSE routing
-----------------------------------------------------------------------------
(* The store.                                                              *)

(* What JSON.stringify(redact(session)) keeps of a session.                *)
redact(s) == [s EXCEPT !.commands = {IF c = "buried" THEN "safe" ELSE c : c \in @}]

Readable(i) == i \notin torn /\ disk[i].status # "none"

(* Slip: the status is not looked at.                                      *)
AnySessions == {i \in Ids : Readable(i)}

OpenSessions == {i \in Ids : Readable(i) /\ disk[i].status = "open"}

(* loadLatestSession: the greatest file name, not the youngest session.    *)
Latest == CHOOSE i \in OpenSessions : \A j \in OpenSessions : j <= i

(* Session ids are random: any free one may come next.                     *)
createSession(i) ==
    /\ disk[i].status = "none"
    /\ disk' = [disk EXCEPT ![i] = [EmptySession EXCEPT !.status = "open"]]
    /\ UNCHANGED <<torn, receipt, packets, at, answer, events, raced>>
-----------------------------------------------------------------------------
(* The patches handed to updateSession, applied to the session s that it   *)
(* reads: their values are computed from the snapshot `old', and what a    *)
(* patch does not name stays as it is in s.                                *)

(* Slip: a command replaces the list instead of joining it.                *)
LastCommandPatch(e, old, s) ==
    IF e.kind = "bash" THEN [s EXCEPT !.calls = old.calls + 1, !.commands = {e.command}] ELSE s

RecordPatch(e, old, s) ==
    CASE e.kind \in OtherTools \union {"UserPromptSubmit"} -> [s EXCEPT !.calls = old.calls + 1]
      [] e.kind = "edit" ->
            [s EXCEPT !.calls = old.calls + 1,
                      !.files = [old.files EXCEPT ![e.file] = old.files[e.file] + 1],
                      !.sensitive = IF e.file \in Sensitive THEN old.sensitive \union {e.file}
                                                            ELSE @]
      [] e.kind = "bash" ->
            [s EXCEPT !.calls = old.calls + 1, !.commands = old.commands \union {e.command}]
      [] OTHER -> s

NewFiles(e, old) == e.changed \ Touched(old)

WatchView(e, old) ==
    [old EXCEPT !.files = [f \in Files |-> IF f \in NewFiles(e, old) THEN 1 ELSE old.files[f]],
                !.calls = old.calls + Cardinality(NewFiles(e, old))]

WatchPatch(e, old, s) ==
    LET found == detectDrift(WatchView(e, old))
    IN  [s EXCEPT !.files = WatchView(e, old).files, !.calls = WatchView(e, old).calls,
                  !.sensitive = old.sensitive \union (NewFiles(e, old) \intersect Sensitive),
                  !.signals = old.signals \union found,
                  !.corrections = IF buildCorrectionGuidance(found) = {} THEN @
                                  ELSE old.corrections + 1]

(* runSlice1 as SessionEnd calls it: no content, no reviewers and no       *)
(* stopConditionMet.  Every artifact carries a reference.                  *)
sessionGate(s) ==
    decide([graded |-> gradeAll([kind : s.evidence, hasRef : {TRUE}]),
            policyVerdict |-> "allow", reviewerNoGo |-> FALSE,
            environmentCompromised |-> FALSE, stopConditionMet |-> FALSE])

Patch(x, s) ==
    CASE x.stage = "record" -> RecordPatch(x.event, x.session, s)
      [] x.stage = "drift" -> [s EXCEPT !.signals = x.session.signals \union x.found,
                                        !.routing = rerouteOnDrift(x.found, @)]
      [] x.stage = "correct" -> [s EXCEPT !.corrections = x.session.corrections + 1]
      [] x.stage = "watch" -> WatchPatch(x.event, x.session, s)
      [] x.stage = "evidence" -> [s EXCEPT !.evidence = x.session.evidence \union x.event.kinds]
      [] x.stage = "end" -> s
      [] x.stage = "close" ->
            [s EXCEPT !.status = "closed", !.closeReason = sessionGate(x.session)]
      [] x.stage = "interrupt" ->
            [s EXCEPT !.status = "interrupted", !.closeReason = "No evidence collected"]

Updates == {"record", "drift", "correct", "watch", "evidence", "end", "close", "interrupt"}

(* Slip: without an updated session, go on with the snapshot.              *)
SnapshotOnly(x) == x.session

(* What the handler goes on with: the updated session, unredacted, or when *)
(* updateSession returned null its own copy with the patch.                *)
Fallback(x) == Patch(x, x.session)

To(x, stage) == [x EXCEPT !.stage = stage, !.io = "read", !.mem = EmptySession]

(* The adapter handles SessionEnd twice, as any event and on its own.      *)
EndHandled(x) == IF x.round = 1 THEN To(x, "again") ELSE Idle

(* The handler after the update of x.stage left it with session c.         *)
After(x, c) ==
    CASE x.stage = "record" ->
            IF detectDrift(c) = {} THEN Idle
            ELSE [To(x, "drift") EXCEPT !.found = detectDrift(c)]
      [] x.stage = "drift" ->
            IF buildCorrectionGuidance(x.found) = {} THEN Idle ELSE To(x, "correct")
      [] x.stage \in {"correct", "watch", "evidence"} -> Idle
      [] x.stage = "end" ->
            [To(x, IF c.evidence = {} THEN "interrupt" ELSE "receipt") EXCEPT !.session = c]
      [] x.stage = "close" -> EndHandled(x)
      [] x.stage = "interrupt" -> To(x, "packet")

Found(x, c) == IF x.stage = "record" THEN detectDrift(c) ELSE x.found

(* What the hook says of a tool use, given the session's verdict: "none"   *)
(* without a session, and when its handling threw.                         *)
Answer(e, seen, verdict) ==
    IF e.kind \notin PreToolUse THEN NoAnswer
    ELSE [event |-> e, seen |-> seen, session |-> verdict, verdict |-> hookVerdict(e, verdict)]

(* The return of processHookEvent and the verdict it gives a PreToolUse.   *)
Continue(p, c) ==
    LET x == at[p]
    IN  /\ at' = [at EXCEPT ![p] = After(x, c)]
        /\ answer' = [answer EXCEPT ![p] =
              IF After(x, c) # Idle THEN @
              ELSE Answer(x.event, x.session.commands,
                          IF hasApprovalRequired(Found(x, c)) THEN "needs_approval" ELSE "allow")]
-----------------------------------------------------------------------------
FirstStage(e) ==
    CASE e.kind = "watch" -> "watch"
      [] e.kind = "evidence" -> "evidence"
      [] e.kind = "SessionEnd" -> "end"
      [] OTHER -> "record"

Load(e, round) ==
    IF OpenSessions = {} THEN Idle
    ELSE [Idle EXCEPT !.stage = FirstStage(e), !.io = "read", !.event = e,
                      !.id = Latest, !.session = disk[Latest], !.round = round]

Arrives(p) ==
    /\ at[p] = Idle
    /\ events < MaxEvents
    /\ events' = events + 1
    /\ raced' = (raced \/ \E q \in Hooks \ {p} : at[q] # Idle)
    /\ UNCHANGED <<disk, torn, receipt, packets>>

(* A process starts and loads the latest open session; without one the     *)
(* gate alone answers.                                                     *)
Handle(p, e) ==
    /\ e.kind \in Own \/ TRUE \in Routed
    /\ Arrives(p)
    /\ at' = [at EXCEPT ![p] = Load(e, 1)]
    /\ answer' = [answer EXCEPT ![p] =
          IF OpenSessions = {} THEN Answer(e, {}, "none") ELSE NoAnswer]

(* No directory, or no `require': the gate alone answers.                  *)
HandleUnrouted(p, e) ==
    /\ e.kind \notin Own /\ FALSE \in Routed
    /\ Arrives(p)
    /\ at' = at
    /\ answer' = [answer EXCEPT ![p] = Answer(e, {}, "none")]

ReadFile(p) ==
    /\ at[p].stage \in Updates /\ at[p].io = "read"
    /\ Readable(at[p].id)
    /\ at' = [at EXCEPT ![p].mem = Patch(at[p], disk[at[p].id]), ![p].io = "truncate"]
    /\ UNCHANGED <<disk, torn, receipt, packets, answer, events, raced>>

ReadFails(p) ==
    /\ at[p].stage \in Updates /\ at[p].io = "read"
    /\ ~Readable(at[p].id)
    /\ Continue(p, Fallback(at[p]))
    /\ UNCHANGED <<disk, torn, receipt, packets, events, raced>>

Truncate(p) ==
    /\ at[p].io = "truncate"
    /\ torn' = torn \union {at[p].id}
    /\ at' = [at EXCEPT ![p].io = "write"]
    /\ UNCHANGED <<disk, receipt, packets, answer, events, raced>>

WriteFile(p) ==
    /\ at[p].io = "write"
    /\ disk' = [disk EXCEPT ![at[p].id] = redact(at[p].mem)]
    /\ torn' = torn \ {at[p].id}
    /\ Continue(p, at[p].mem)
    /\ UNCHANGED <<receipt, packets, events, raced>>

(* Slip: a receipt only for a proven session.                              *)
persistProof(p) ==
    /\ at[p].stage = "receipt"
    /\ receipt' = [receipt EXCEPT ![at[p].id] =
          IF sessionGate(at[p].session) = "STOP_DONE" THEN "STOP_DONE" ELSE @]
    /\ at' = [at EXCEPT ![p] = To(@, "close")]
    /\ UNCHANGED <<disk, torn, packets, answer, events, raced>>

persistReceipt(p) ==
    /\ at[p].stage = "receipt"
    /\ receipt' = [receipt EXCEPT ![at[p].id] = sessionGate(at[p].session)]
    /\ at' = [at EXCEPT ![p] = To(@, "close")]
    /\ UNCHANGED <<disk, torn, packets, answer, events, raced>>

writeResumePacket(p) ==
    /\ at[p].stage = "packet"
    /\ packets' = packets \union {at[p].id}
    /\ at' = [at EXCEPT ![p] = EndHandled(@)]
    /\ UNCHANGED <<disk, torn, receipt, answer, events, raced>>

EndAgain(p) ==
    /\ at[p].stage = "again"
    /\ at' = [at EXCEPT ![p] = Load(at[p].event, 2)]
    /\ UNCHANGED <<disk, torn, receipt, packets, answer, events, raced>>

(* A write throws (a full disk, say).  The adapter swallows it and goes on *)
(* without the session's verdict, at SessionEnd with the second call; the  *)
(* file may already be truncated.                                          *)
Throw(p) ==
    /\ at[p].io \in {"truncate", "write"} \/ at[p].stage \in {"receipt", "packet"}
    /\ at' = [at EXCEPT ![p] = IF at[p].event.kind = "SessionEnd" THEN EndHandled(@) ELSE Idle]
    /\ answer' = [answer EXCEPT ![p] = Answer(at[p].event, {}, "none")]
    /\ raced' = TRUE
    /\ UNCHANGED <<disk, torn, receipt, packets, events>>

(* The process is killed.                                                  *)
Crash(p) ==
    /\ at[p] # Idle
    /\ at' = [at EXCEPT ![p] = Idle]
    /\ raced' = TRUE
    /\ UNCHANGED <<disk, torn, receipt, packets, answer, events>>

Step(p) == \/ ReadFile(p) \/ ReadFails(p) \/ Truncate(p) \/ WriteFile(p)
           \/ persistReceipt(p) \/ writeResumePacket(p) \/ EndAgain(p)

Next ==
    \/ \E i \in Ids : createSession(i)
    \/ \E p \in Hooks :
         \/ Step(p) \/ Throw(p) \/ Crash(p)
         \/ \E e \in Event : Handle(p, e) \/ HandleUnrouted(p, e)

Spec == Init /\ [][Next]_vars

(* A process that has started is scheduled until it ends.                  *)
FairSpec == Spec /\ \A p \in Hooks : WF_vars(Step(p))
-----------------------------------------------------------------------------
(* Properties.                                                             *)

TypeOK ==
    /\ disk \in [Ids -> Sessions]
    /\ torn \subseteq {i \in Ids : disk[i].status # "none"}
    /\ receipt \in [Ids -> Decisions \union {"none"}]
    /\ packets \subseteq Ids
    /\ \A p \in Hooks :
         /\ at[p].stage \in Updates \union {"idle", "receipt", "packet", "again"}
         /\ at[p].io \in {"none", "read", "truncate", "write"}
         /\ at[p] # Idle => at[p].id \in Ids /\ disk[at[p].id].status # "none"
         /\ at[p].session \in Sessions /\ at[p].mem \in Sessions
         /\ at[p].io \in {"truncate", "write"} => at[p].stage \in Updates
    /\ events \in 0..MaxEvents
    /\ raced \in BOOLEAN

(* However hooks overlap, whatever file is torn and whichever update is    *)
(* lost, a hook never lets a command through that the gate refuses, nor,   *)
(* when its session answered, one that is destructive for the session,     *)
(* also where the stored copy truncates it.                                *)
DestructiveNeedsApproval ==
    \A p \in Hooks : answer[p].event.kind = "bash" /\ answer[p].verdict = "allow" =>
        /\ answer[p].event.command \notin Refused
        /\ answer[p].session # "none" => answer[p].event.command \notin Destructive

(* As long as handlers run one after the other, a destructive command on   *)
(* record keeps every later tool use of the session under approval.        *)
DestructiveSticks ==
    \A p \in Hooks :
        ~raced /\ answer[p].event.kind \in PreToolUse /\ "reset" \in answer[p].seen
          => answer[p].verdict # "allow"

(* Even across crashes and races, a closed session has a receipt, and a    *)
(* session with a receipt ends closed unless a process died or raced: the  *)
(* close reason is then the decision of the receipt, and an interrupted    *)
(* session at rest can be resumed.                                         *)
EndsLeavePapers ==
    \A i \in Ids :
        /\ disk[i].status = "closed" => receipt[i] # "none"
        /\ ~raced /\ (\A p \in Hooks : at[p] = Idle) =>
             /\ receipt[i] # "none" <=> disk[i].status = "closed"
             /\ disk[i].status = "closed" => disk[i].closeReason = receipt[i]
             /\ disk[i].status = "interrupted" <=> i \in packets

(* Without races, a session that has ended is never written again: not by  *)
(* a later hook, watch or report, nor by the second SessionEnd call.       *)
EndedIsFinal ==
    [][~raced' => \A i \in Ids : disk[i].status \in {"closed", "interrupted"}
                                   => disk'[i] = disk[i]]_vars

(* Without races, what a session has recorded is never lost again, though  *)
(* every update writes back lists of its snapshot.                         *)
RecordsOnlyGrow ==
    [][~raced' => \A i \in Ids :
         /\ disk[i].commands \subseteq disk'[i].commands
         /\ disk[i].sensitive \subseteq disk'[i].sensitive
         /\ disk[i].evidence \subseteq disk'[i].evidence
         /\ disk[i].signals \subseteq disk'[i].signals
         /\ disk[i].calls <= disk'[i].calls
         /\ disk[i].corrections <= disk'[i].corrections
         /\ \A f \in Files : disk[i].files[f] <= disk'[i].files[f]]_vars
-----------------------------------------------------------------------------
(* What the repository says, and the code does not do.                     *)

(* adapters/claude-code/index.ts: "All events route through the session     *)
(* orchestrator when a session exists."  A hook that answers at once has   *)
(* found no open session.                                                  *)
HooksReachTheSession ==
    [][\A p \in Hooks :
         at[p] = Idle /\ answer'[p] # answer[p] /\ answer'[p].event.kind \in PreToolUse
           => OpenSessions = {}]_vars

(* drift-detector.ts, of a sensitive file: "This file requires explicit    *)
(* approval before modification."                                          *)
SensitiveNeedsApproval ==
    \A p \in Hooks :
        /\ answer[p].event.kind = "edit" /\ answer[p].event.file \in Sensitive
        /\ answer[p].session # "none"
        => answer[p].verdict # "allow"
=============================================================================
