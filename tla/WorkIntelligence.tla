-------------------------- MODULE WorkIntelligence --------------------------
(***************************************************************************)
(* The files of .avorelo that say how a piece of work stands, and those    *)
(* who write them: runtime sessions (runRuntimeSession and                 *)
(* upsertWorkIntelligence at its end), `avorelo work`, which reads the     *)
(* work intelligence or makes it, `avorelo continuity prepare` and         *)
(* `avorelo report build`.                                                 *)
(*                                                                         *)
(* A step is one read or one write.  A write may fail; a process may be    *)
(* killed, and what it was writing is torn: every loader takes a torn file *)
(* for none, and one torn line for an empty history.  Who reads a file     *)
(* while another process writes it may find it empty.                      *)
(***************************************************************************)
EXTENDS WorkReports

CONSTANTS Sessions,     \* runtime sessions, each run once
          Readers,      \* runs of avorelo work
          Works,        \* the works a session may be about
          Adapters,     \* what the proof adapter of a session may come to
          ReceiptSets,  \* what may be in .avorelo/receipts
          MaxActive,    \* bound: processes at work at once
          MaxTroubles   \* bound: failed writes, kills, prepare and report commands

ASSUME ProcessesAssumption == Sessions \cap Readers = {}

(* A task that may run has a route, and a proof is asked of it             *)
(* (routeWorkContract, mergeRuntimeGate).                                  *)
ASSUME WorksAssumption ==
    \A w \in Works : /\ w.gate \in Gates
                     /\ w.gate = "allow" => /\ w.route # "blocked"
                                            /\ w.tier \in {"tests", "browser", "production", "local"}

VARIABLES files,     \* the shared files
          receipts,  \* the receipts, which nobody here writes
          stage,     \* where a process is
          mine,      \* what it holds in memory
          alone,     \* sessions nobody and nothing has disturbed so far
          troubles

workVars == <<files, receipts, stage, mine, alone, troubles>>

Processes == Sessions \cup Readers

(* A file is a set of at most one; tokens says whether there is any token  *)
(* cost evidence.                                                          *)
NoFiles == [packet |-> {}, pack |-> {}, continuity |-> {}, report |-> {}, record |-> {},
            latest |-> {}, resume |-> {}, history |-> <<>>, readable |-> TRUE, tokens |-> FALSE]

(* What a process holds in memory; nothing of it is needed at its end.      *)
Nothing == [work |-> {}, prepared |-> FALSE, adapter |-> "none", report |-> {}, reported |-> FALSE,
            history |-> <<>>, model |-> {}, resume |-> {}, again |-> FALSE]

WorkInit ==
    /\ files = NoFiles
    /\ receipts \in ReceiptSets
    /\ stage = [p \in Processes |-> "idle"]
    /\ mine = [p \in Processes |-> Nothing]
    /\ alone = {} /\ troubles = 0

Active == {p \in Processes : stage[p] \notin {"idle", "done"}}

(* What a process at this stage is writing.                                *)
Writes == [context |-> {"packet", "pack"}, continuity |-> {"continuity"}, publish |-> {"report"},
           record |-> {"record"}, latest |-> {"latest"}, resume |-> {"resume"}]
Writing(p) == IF stage[p] \in DOMAIN Writes THEN Writes[stage[p]] ELSE {}

Seen(p, name) ==
    {files[name]} \cup {none \in {{}} : \E q \in Processes \ {p} : name \in Writing(q)}

(* Any step of a process disturbs the sessions of the others.              *)
Disturb(p, ok) ==
    /\ alone' = IF ok THEN alone \cap {p} ELSE {}
    /\ ok \/ troubles < MaxTroubles
    /\ troubles' = IF ok THEN troubles ELSE troubles + 1

At(p, at) == stage[p] = at
Go(p, next) == stage' = [stage EXCEPT ![p] = next]
Keep(p, field, value) == mine' = [mine EXCEPT ![p][field] = value]
Continue(p, next) ==
    /\ Go(p, next)
    /\ mine' = IF next = "done" THEN [mine EXCEPT ![p] = Nothing] ELSE mine

(***************************************************************************)
(* A session                                                               *)
(***************************************************************************)

(* Only an allowed task goes through the layers.                           *)
StartSession(s, w) ==
    /\ At(s, "idle") /\ Cardinality(Active) < MaxActive
    /\ mine' = [mine EXCEPT ![s] = [Nothing EXCEPT !.work = {w}]]
    /\ Go(s, IF w.gate = "allow" THEN "context" ELSE "record")
    /\ alone' = IF Active = {} THEN {s} ELSE {}
    /\ UNCHANGED <<files, receipts, troubles>>

WriteContext(s, ok) ==
    /\ At(s, "context")
    /\ LET w == mine[s].work
       IN files' = IF ok THEN [files EXCEPT !.packet = w, !.pack = w] ELSE [files EXCEPT !.pack = w]
    /\ Keep(s, "prepared", TRUE)
    /\ Go(s, "continuity") /\ Disturb(s, ok)
    /\ UNCHANGED receipts

WriteContinuity(s, ok) ==
    /\ At(s, "continuity")
    /\ files' = IF ok THEN [files EXCEPT !.continuity = {PrepareContinuity(The(mine[s].work))}] ELSE files
    /\ Go(s, "report") /\ Disturb(s, ok)
    /\ UNCHANGED <<receipts, mine>>

(* The session's token cost record, then the report, from the latest packet *)
(* whoever prepared it and from what the session's adapter did.            *)
BuildReport(s, adapter, continuity) ==
    /\ At(s, "report")
    /\ files' = [files EXCEPT !.tokens = TRUE]
    /\ mine' = [mine EXCEPT ![s].adapter = adapter, ![s].reported = TRUE,
                            ![s].report = {BuildProofReport(continuity, TRUE, adapter)}]
    /\ Go(s, "publish") /\ Disturb(s, TRUE)
    /\ UNCHANGED receipts

WriteReport(s, ok) ==
    /\ At(s, "publish")
    /\ files' = IF ok THEN [files EXCEPT !.report = mine[s].report] ELSE files
    /\ Keep(s, "report", {})
    /\ Go(s, "record") /\ Disturb(s, ok)
    /\ UNCHANGED receipts

Record(s) ==
    [by |-> s, work |-> The(mine[s].work), prepared |-> mine[s].prepared, reported |-> mine[s].reported,
     adapter |-> mine[s].adapter]

WriteRecord(s, ok) ==
    /\ At(s, "record")
    /\ files' = IF ok THEN [files EXCEPT !.record = {Record(s)}] ELSE files
    /\ Go(s, "history") /\ Disturb(s, ok)
    /\ UNCHANGED <<receipts, mine>>

(***************************************************************************)
(* upsertWorkIntelligence, by a session or a reader.  A write that throws  *)
(* ends it: a session notes a warning, a command fails.                    *)
(***************************************************************************)
LoadHistory(p) ==
    /\ At(p, "history")
    /\ Keep(p, "history", IF files.readable THEN files.history ELSE <<>>)
    /\ Go(p, "build") /\ Disturb(p, TRUE)
    /\ UNCHANGED <<files, receipts>>

(* A session is about its own record; a reader about the latest one.  A    *)
(* report that is not there is drawn up from the latest packet.            *)
Build(p, record, continuity, packet, pack, report) ==
    /\ At(p, "build")
    /\ LET run == IF p \in Sessions THEN {Record(p)} ELSE record
           drawn == IF report = {} THEN BuildProofReport(continuity, files.tokens, "none") ELSE The(report)
           model == BuildWorkIntelligence([run |-> run, continuity |-> continuity, packet |-> packet,
                        pack |-> pack, report |-> drawn, history |-> mine[p].history, receipts |-> receipts])
       IN mine' = [mine EXCEPT ![p] = [Nothing EXCEPT !.model = {model}, !.again = mine[p].again,
                                                      !.resume = {ResumePacket(model, continuity)}]]
    /\ Go(p, "latest") /\ Disturb(p, TRUE)
    /\ UNCHANGED <<files, receipts>>

WriteLatest(p, ok) ==
    /\ At(p, "latest")
    /\ files' = IF ok THEN [files EXCEPT !.latest = mine[p].model] ELSE files
    /\ Continue(p, IF ok THEN "append" ELSE "done") /\ Disturb(p, ok)
    /\ UNCHANGED receipts

AppendHistory(p, ok) ==
    /\ At(p, "append")
    /\ files' = IF ok THEN [files EXCEPT !.history = Append(@, HistoryEntry(The(mine[p].model)))] ELSE files
    /\ Continue(p, IF ok THEN "resume" ELSE "done") /\ Disturb(p, ok)
    /\ UNCHANGED receipts

(* Slip: a packet that is not ready is not worth writing.                  *)
SlipWriteResume(p, ok) ==
    /\ At(p, "resume")
    /\ files' = IF ok /\ The(mine[p].resume).readiness = "ready"
                THEN [files EXCEPT !.resume = mine[p].resume] ELSE files
    /\ Continue(p, IF ok /\ p \in Readers /\ ~mine[p].again THEN "show" ELSE "done") /\ Disturb(p, ok)
    /\ UNCHANGED receipts

(* Its history, appended after it, is read by nobody.                      *)
WriteResume(p, ok) ==
    /\ At(p, "resume")
    /\ files' = IF ok THEN [files EXCEPT !.resume = mine[p].resume] ELSE files
    /\ Continue(p, IF ok /\ p \in Readers /\ ~mine[p].again THEN "show" ELSE "done") /\ Disturb(p, ok)
    /\ UNCHANGED receipts

(***************************************************************************)
(* Commands                                                                *)
(***************************************************************************)

(* avorelo work: what there is, or made now.                               *)
Look(r, latest) ==
    /\ At(r, "idle") /\ Cardinality(Active) < MaxActive
    /\ Go(r, IF latest = {} THEN "history" ELSE "show")
    /\ Disturb(r, TRUE)
    /\ UNCHANGED <<files, receipts, mine>>

(* Then the resume packet; without one all is made again, and shown.       *)
Show(r, resume) ==
    /\ At(r, "show")
    /\ Go(r, IF resume = {} THEN "history" ELSE "done")
    /\ mine' = [mine EXCEPT ![r].again = (resume = {})]
    /\ Disturb(r, TRUE)
    /\ UNCHANGED <<files, receipts>>

Prepare(w) ==
    /\ files' = [files EXCEPT !.continuity = {PrepareContinuity(w)}]
    /\ alone' = {}
    /\ troubles < MaxTroubles /\ troubles' = troubles + 1
    /\ UNCHANGED <<receipts, stage, mine>>

ReportBuild ==
    /\ files' = [files EXCEPT !.report = {BuildProofReport(files.continuity, files.tokens, "none")}]
    /\ alone' = {}
    /\ troubles < MaxTroubles /\ troubles' = troubles + 1
    /\ UNCHANGED <<receipts, stage, mine>>

(* A day later: the packet has expired.                                    *)
DayPasses ==
    /\ Active = {}
    /\ \E c \in files.continuity : c.fresh
    /\ files' = [files EXCEPT !.continuity = {[c EXCEPT !.fresh = FALSE] : c \in @}]
    /\ UNCHANGED <<receipts, stage, mine, alone, troubles>>

Kill(p) ==
    /\ p \in Active
    /\ \/ files' = files
       \/ \E name \in Writing(p) : files' = [files EXCEPT ![name] = {}]
       \/ At(p, "append") /\ files' = [files EXCEPT !.readable = FALSE]
    /\ Continue(p, "done") /\ Disturb(p, FALSE)
    /\ UNCHANGED receipts

Upsert(p) ==
    \/ LoadHistory(p)
    \/ \E record \in Seen(p, "record"), continuity \in Seen(p, "continuity"), packet \in Seen(p, "packet"),
          pack \in Seen(p, "pack"), report \in Seen(p, "report") :
            Build(p, record, continuity, packet, pack, report)
    \/ \E ok \in BOOLEAN : WriteLatest(p, ok) \/ AppendHistory(p, ok) \/ WriteResume(p, ok)
    \/ Kill(p)

SessionStep(s) ==
    \/ \E w \in Works : StartSession(s, w)
    \/ \E ok \in BOOLEAN : WriteContext(s, ok) \/ WriteContinuity(s, ok) \/ WriteReport(s, ok) \/ WriteRecord(s, ok)
    \/ \E adapter \in Adapters, continuity \in Seen(s, "continuity") : BuildReport(s, adapter, continuity)

ReaderStep(r) ==
    \/ \E latest \in Seen(r, "latest") : Look(r, latest)
    \/ \E resume \in Seen(r, "resume") : Show(r, resume)

WorkNext ==
    \/ \E p \in Processes : Upsert(p)
    \/ \E s \in Sessions : SessionStep(s)
    \/ \E r \in Readers : ReaderStep(r)
    \/ \E w \in Works : Prepare(w)
    \/ ReportBuild
    \/ DayPasses

WorkSpec == WorkInit /\ [][WorkNext]_workVars
-----------------------------------------------------------------------------
Objectives == {w.id : w \in Works} \cup {"redacted", "no recorded objective"}
Writers == {{}} \cup {{s} : s \in Sessions}

WorkTypeOK ==
    LET refs == UNION {w.refs : w \in Works}
        resumes == WorkResumePackets(Writers, Objectives)
    IN /\ files.packet \cup files.pack \subseteq Works
       /\ files.continuity \subseteq NextRunContinuityPackets(Works)
       /\ \A m \in files.latest : IsWorkIntelligence(m)
       /\ files.resume \subseteq resumes
       /\ \A i \in DOMAIN files.history :
             files.history[i] \in WorkIntelligenceHistoryEntries(Writers, Objectives, refs, i - 1)
       /\ \A p \in Processes : /\ mine[p].resume \subseteq resumes
                               /\ \A m \in mine[p].model : IsWorkIntelligence(m)
       /\ \A w \in files.packet : References({w}, {}) \subseteq WorkReferences(refs)
       /\ troubles \in 0..MaxTroubles

(* What the control center shows at a moment when nobody writes: each      *)
(* section of buildControlCenter reads its own file.                       *)
ProofSection ==
    IF files.report # {} THEN The(files.report) ELSE BuildProofReport(files.continuity, files.tokens, "none")
WorkSection ==
    IF files.latest # {} THEN The(files.latest)
    ELSE BuildWorkIntelligence([run |-> files.record, continuity |-> files.continuity, packet |-> files.packet,
             pack |-> files.pack, report |-> ProofSection,
             history |-> IF files.readable THEN files.history ELSE <<>>, receipts |-> receipts])
BuildControlCenter ==
    [runtime |-> {[by |-> x.by, gate |-> x.work.gate, adapter |-> x.adapter] : x \in files.record},
     proof |-> ProofSection, cost |-> files.tokens,
     continuity |-> {[status |-> c.status, missing |-> c.missing] : c \in files.continuity},
     receipts |-> CardTotals(receipts), work |-> WorkSection]

(* A session that nobody disturbed and that lost no write never calls its  *)
(* work proved, whatever its adapter did and whatever older files say: its *)
(* own packet lists the proofs of its tier as missing, and they are open   *)
(* items of its own report (prepareContinuity, buildProofStatus).          *)
AloneStaysOpen ==
    \A s \in alone : \A m \in mine[s].model : m.by = {s} /\ m.outcome # "proved"

(* Of an objective that is stored as it is, no line of the history counts   *)
(* an earlier attempt that is not in the history as unproved, whoever wrote *)
(* in between; and that of an undisturbed session misses none, if the      *)
(* history is readable (buildWasteWarnings, loadHistory).  An objective     *)
(* that is not stored as it is, is looked up by the original all the same.  *)
RepeatsCounted ==
    \A i \in DOMAIN files.history :
        LET e == files.history[i]
            earlier == {j \in 1..(i - 1) : /\ files.history[j].objective = e.objective
                                           /\ files.history[j].outcome # "proved"}
        IN e.objective \notin {"redacted", "no recorded objective"} =>
             /\ e.repeated <= Cardinality(earlier)
             /\ e.by \cap alone # {} /\ files.readable => e.repeated = Cardinality(earlier)

(* After an undisturbed session the record, the work intelligence, the     *)
(* resume packet and the last line of the history are of that session and  *)
(* say the same of it: the control center shows its outcome beside its     *)
(* record.                                                                  *)
FilesTellOneStory ==
    \A s \in alone : At(s, "done") =>
        LET shown == BuildControlCenter
        IN /\ shown.work.by = {s} /\ \E x \in shown.runtime : x.by = s /\ x.gate = shown.work.gate
           /\ HistoryEntry(shown.work) = Last(files.history)
           /\ files.resume = {ResumePacket(shown.work, files.continuity)}
=============================================================================
