---------------------------- MODULE WorkArtifacts ----------------------------
(***************************************************************************)
(* The commands context brief, model route, workflow radar and session     *)
(* handoff over the files they leave for one another                        *)
(* (surfaces/cli/avorelo.ts and the persistence modules).                   *)
(*                                                                         *)
(* Each command loads the latest files it builds on one by one, asks git    *)
(* and the proof reports, and rewrites its own file: the file is cut off    *)
(* first and filled then.  A file that cannot be parsed counts as none.     *)
(* Commands of several processes overlap and may be killed; the worktree    *)
(* changes meanwhile.                                                       *)
(***************************************************************************)
EXTENDS WorkflowRadar

CONSTANTS Procs, Tasks, NoneGiven,
          Facts,           \* what the patterns find in a task
          Present,         \* the places that are in the checkout
          Sessions,        \* the objectives a runtime session may have left
          Bases,           \* what git knows of the branch
          TreePlaces,      \* the places an agent may change
          GitMayFail,      \* whether git status may run into its timeout
          MaxCommands,     \* bounds the commands started
          MaxEdits         \* bounds the changes of the worktree

ASSUME ArtifactAssumption ==
    /\ NoneGiven \notin Tasks /\ Sessions \subseteq Tasks \cup {NoneGiven}
    /\ Present \subseteq Places /\ TreePlaces \subseteq Places \ (Directories \cup {""})
    /\ GitMayFail \in BOOLEAN /\ MaxCommands \in Nat /\ MaxEdits \in Nat

\* extractPaths finds no empty path
ASSUME FactsAssumption == \A t \in Tasks : Facts[t].mentions \subseteq Places \ {""}

\* a brief keeps eight paths of each list, and a profile checks eight in all:
\* the tasks name so few that none is dropped
ASSUME SizesAssumption ==
    \A t \in Tasks : Cardinality(BuildBrief(t, "explicit_task", Facts[t]).scope) <= 8

VARIABLES
    file,        \* brief, profile, radar, handoff: missing, torn or a record
    changed,     \* the places git status reports, but for the tools' files
    ignored,     \* whether git ignores the tools' own files
    session,     \* the objective of the latest runtime session, or NoneGiven
    base,        \* what the branch is based on
    proof,       \* whether a report verified something, whether a receipt exists
    at,          \* the commands under way
    commands, edits
artifactVars == <<file, changed, ignored, session, base, proof, at, commands, edits>>

Names == {"brief", "profile", "radar", "handoff"}
NoRecord == [task |-> NoneGiven, state |-> "none"]
Missing == [kind |-> "missing", is |-> NoRecord]
Torn == [kind |-> "torn", is |-> NoRecord]
Stored(r) == [kind |-> "stored", is |-> r]

(* A reader's view of a file: null when it is missing or torn.              *)
Load(f) == IF f.kind = "stored" THEN f ELSE Missing

Idle == [cmd |-> "none", how |-> "none", task |-> NoneGiven, pc |-> "idle", target |-> "none",
         brief |-> Missing, profile |-> Missing, own |-> <<FALSE, FALSE, "none">>,
         git |-> TRUE, changed |-> {}, made |-> NoRecord, fresh |-> FALSE]

WordsOf(task) == IF task = NoneGiven THEN {} ELSE Facts[task].words

(* The brief of each task, and the profile of each brief: they depend on    *)
(* nothing that changes.                                                    *)
Briefs ==
    [k \in ({"explicit_task", "runtime_flow"} \X Tasks) \cup {<<"fallback", NoneGiven>>} |->
        BuildBrief(k[2], k[1], Facts[IF k[2] = NoneGiven THEN CHOOSE t \in Tasks : TRUE ELSE k[2]])]
AllBriefs == {Briefs[k] : k \in DOMAIN Briefs}
Profiles ==
    [k \in {"generated", "latest_brief"} \X AllBriefs |->
        BuildProfile(k[2], k[1], WordsOf(k[2].task), Present)]

(***************************************************************************)
(* What is built                                                           *)
(***************************************************************************)
BriefOf(explicit) ==
    LET r == ResolveTask(explicit, session, NoneGiven, NoneGiven) IN Briefs[<<r.source, r.task>>]

TaskProfile(task) == Profiles[<<"generated", BriefOf(task)>>]

(* resolveContextBrief, from the brief that was loaded.                     *)
ProfileOf(how, task, loaded) ==
    IF task = NoneGiven /\ loaded.kind = "stored" THEN Profiles[<<"latest_brief", loaded.is>>]
    ELSE TaskProfile(task)

(* resolveSources: an explicit task is served by a brief and a profile of   *)
(* its own, which are not stored; otherwise the latest ones are used, of    *)
(* whatever task each of them is.                                           *)
Sources(a) ==
    CASE a.task # NoneGiven ->
            [source |-> "explicit_task", task |-> a.task, brief |-> BriefOf(a.task), briefed |-> TRUE,
             profile |-> TaskProfile(a.task), profiled |-> TRUE]
      [] a.task = NoneGiven /\ a.how # "from_route" /\ a.brief.kind = "stored" ->
            [source |-> "context_efficiency_latest", task |-> a.brief.is.task, brief |-> a.brief.is,
             briefed |-> TRUE, profile |-> a.profile.is, profiled |-> a.profile.kind = "stored"]
      [] /\ a.task = NoneGiven /\ a.profile.kind = "stored"
         /\ a.how = "from_route" \/ a.brief.kind # "stored" ->
            [source |-> "model_routing_latest", task |-> a.profile.is.task, brief |-> a.brief.is,
             briefed |-> a.brief.kind = "stored", profile |-> a.profile.is, profiled |-> TRUE]
      [] OTHER ->
            [source |-> "fallback", task |-> NoneGiven, brief |-> NoRecord, briefed |-> FALSE,
             profile |-> NoRecord, profiled |-> FALSE]

AssessmentInput(a, s) ==
    [source |-> s.source, task |-> s.task, brief |-> s.brief, briefed |-> s.briefed,
     profile |-> s.profile, profiled |-> s.profiled, git |-> a.git, changed |-> a.changed,
     verified |-> proof.verified, receipts |-> proof.receipts, present |-> Present]

(* What git status prints: the tools' own files are there unless ignored.   *)
Status ==
    changed \cup IF ignored THEN {}
                 ELSE (IF \E f \in Names \ {"handoff"} : file[f].kind # "missing" THEN {"artifact"} ELSE {})
                      \cup (IF file["handoff"].kind # "missing" THEN {"handoffs"} ELSE {})

(***************************************************************************)
(* The commands                                                            *)
(***************************************************************************)
ArtifactInit ==
    /\ file = [f \in Names |-> Missing]
    /\ changed = {} /\ ignored \in BOOLEAN
    /\ session \in Sessions
    /\ base \in Bases
    /\ proof = [verified |-> FALSE, receipts |-> FALSE]
    /\ at = [p \in Procs |-> Idle]
    /\ commands = 0 /\ edits = 0

World == <<changed, ignored, session, base, proof, edits>>

(* The options of a command exclude one another; a task may go without.     *)
Options == [brief |-> {"plain"}, profile |-> {"plain", "from_brief"},
            radar |-> {"plain", "from_brief", "from_route"}, handoff |-> {"plain", "from_radar"}]
First == [brief |-> "build", profile |-> "brief", radar |-> "brief", handoff |-> "ownBrief"]

Start(p, cmd, how, task) ==
    /\ at[p].pc = "idle" /\ commands < MaxCommands
    /\ how # "plain" => task = NoneGiven
    /\ at' = [at EXCEPT ![p] = [Idle EXCEPT !.cmd = cmd, !.how = how, !.task = task,
                                            !.pc = First[cmd], !.target = cmd]]
    /\ commands' = commands + 1
    /\ UNCHANGED <<file, World>>

Goes(p, a) == at' = [at EXCEPT ![p] = a]
Quit(p) == Goes(p, Idle)

(* The handoff loads the brief and the profile for itself first.            *)
LoadOwn(p) ==
    /\ \/ /\ at[p].pc = "ownBrief"
          /\ Goes(p, [at[p] EXCEPT !.pc = "ownProfile", !.own[1] = Load(file["brief"]).kind = "stored"])
       \/ /\ at[p].pc = "ownProfile"
          /\ LET f == Load(file["profile"])
             IN Goes(p, [at[p] EXCEPT !.pc = "radar", !.own[2] = f.kind = "stored",
                                      !.own[3] = IF f.kind = "stored" THEN f.is.mode ELSE "none"])
    /\ UNCHANGED <<file, commands, World>>

(* resolveWorkflowRadar: without a task the latest radar will do, however   *)
(* old it is; otherwise one is built, and stored, as by its own command.    *)
LoadRadar(p) ==
    /\ at[p].pc = "radar"
    /\ LET latest == Load(file["radar"])
       IN \/ /\ latest.kind = "stored" /\ (at[p].how = "from_radar" \/ at[p].task = NoneGiven)
             /\ Goes(p, [at[p] EXCEPT !.pc = "build", !.made = latest.is])
          \/ /\ latest.kind # "stored" /\ at[p].how = "from_radar"
             /\ Quit(p)
          \/ /\ at[p].how # "from_radar" /\ (latest.kind # "stored" \/ at[p].task # NoneGiven)
             /\ Goes(p, [at[p] EXCEPT !.pc = "brief", !.target = "radar", !.fresh = TRUE])
    /\ UNCHANGED <<file, commands, World>>

(* A command told to build on a file that is not there gives up.            *)
LoadBrief(p) ==
    /\ at[p].pc = "brief"
    /\ LET f == Load(file["brief"])
       IN \/ /\ at[p].cmd = "profile" /\ at[p].how = "from_brief" /\ f.kind # "stored"
             /\ Quit(p)
          \/ /\ ~(at[p].cmd = "profile" /\ at[p].how = "from_brief" /\ f.kind # "stored")
             /\ Goes(p, [at[p] EXCEPT !.brief = f,
                                      !.pc = IF at[p].cmd = "profile" THEN "build" ELSE "profile"])
    /\ UNCHANGED <<file, commands, World>>

LoadProfile(p) ==
    /\ at[p].pc = "profile"
    /\ LET f == Load(file["profile"])
           fails == \/ at[p].how = "from_brief" /\ at[p].brief.kind # "stored"
                    \/ at[p].how = "from_route" /\ f.kind # "stored"
       IN \/ fails /\ Quit(p)
          \/ ~fails /\ Goes(p, [at[p] EXCEPT !.profile = f, !.pc = "git"])
    /\ UNCHANGED <<file, commands, World>>

(* readWorkflowRadarChangedPaths: up to ten seconds, or no answer.          *)
AskGit(p) ==
    /\ at[p].pc = "git"
    /\ \/ Goes(p, [at[p] EXCEPT !.pc = "build", !.changed = Status])
       \/ GitMayFail /\ Goes(p, [at[p] EXCEPT !.pc = "build", !.git = FALSE])
    /\ UNCHANGED <<file, commands, World>>

(* buildArtifactSources: a file that is there is listed, readable or not.   *)
ArtifactSources ==
    {n \in {"brief", "profile"} : file[n].kind # "missing"} \cup {"radar"}
    \cup (IF proof.receipts THEN {"receipts"} ELSE {}) \cup (IF proof.verified THEN {"report"} ELSE {})

(* What the command has to say.  The proof is looked up last.               *)
Made(a) ==
    CASE a.target = "brief" -> BriefOf(a.task)
      [] a.target = "profile" -> ProfileOf(a.how, a.task, a.brief)
      [] a.target = "radar" -> BuildAssessment(AssessmentInput(a, Sources(a)))
      [] a.target = "handoff" ->
            BuildHandoff(a.made, a.fresh, a.own[1], a.own[2], a.own[3], base, ArtifactSources)

Build(p) ==
    /\ at[p].pc = "build"
    /\ Goes(p, [at[p] EXCEPT !.pc = "open", !.made = Made(at[p])])
    /\ UNCHANGED <<file, commands, World>>

(* writeFileSync: cut off, then filled.  A handoff goes on after its radar. *)
OpenFile(p) ==
    /\ at[p].pc = "open"
    /\ file' = [file EXCEPT ![at[p].target] = Torn]
    /\ Goes(p, [at[p] EXCEPT !.pc = "fill"])
    /\ UNCHANGED <<commands, World>>

FillFile(p) ==
    /\ at[p].pc = "fill"
    /\ file' = [file EXCEPT ![at[p].target] = Stored(at[p].made)]
    /\ IF at[p].cmd = "handoff" /\ at[p].target = "radar"
       THEN Goes(p, [at[p] EXCEPT !.pc = "build", !.target = "handoff"])
       ELSE Quit(p)
    /\ UNCHANGED <<commands, World>>

Kill(p) ==
    /\ at[p].pc # "idle"
    /\ Quit(p)
    /\ UNCHANGED <<file, commands, World>>

(* The agent works on; a proof report or a receipt appears.                 *)
Edit ==
    /\ edits < MaxEdits /\ edits' = edits + 1
    /\ \/ \E q \in TreePlaces :
             /\ changed' = IF q \in changed THEN changed \ {q} ELSE changed \cup {q}
             /\ UNCHANGED proof
       \/ /\ proof' \in {[proof EXCEPT !.verified = TRUE], [proof EXCEPT !.receipts = TRUE]}
          /\ proof' # proof
          /\ UNCHANGED changed
    /\ UNCHANGED <<file, ignored, session, base, at, commands>>

Step(p) ==
    \/ LoadOwn(p) \/ LoadRadar(p) \/ LoadBrief(p) \/ LoadProfile(p) \/ AskGit(p)
    \/ Build(p) \/ OpenFile(p) \/ FillFile(p)

ArtifactNext ==
    \/ \E p \in Procs : Step(p) \/ Kill(p)
    \/ \E p \in Procs, cmd \in Names : \E how \in Options[cmd], task \in Tasks \cup {NoneGiven} :
          Start(p, cmd, how, task)
    \/ Edit

ArtifactSpec == ArtifactInit /\ [][ArtifactNext]_artifactVars

(***************************************************************************)
(* Properties                                                              *)
(***************************************************************************)

ArtifactTypeOK ==
    LET names == Tasks \cup {NoneGiven}
        type == [brief |-> BriefType(names), profile |-> ProfileType(names),
                 radar |-> AssessmentType(names), handoff |-> HandoffType(names)]
    IN /\ \A f \in Names : /\ file[f].kind \in {"missing", "torn", "stored"}
                           /\ file[f].kind = "stored" => file[f].is \in type[f]
       /\ changed \subseteq TreePlaces

Radar == file["radar"].is
Handoff == file["handoff"].is

(* The path check and the assessment answer the same questions in two      *)
(* places.  A path the check would stop at stops the assessment that saw    *)
(* it, and an assessment that lets the work go on saw no path the check     *)
(* would hold up, whichever brief and profile it used.                      *)
Severity == [ON_TRACK |-> 0, ON_TRACK_WITH_WARNINGS |-> 0, NEEDS_EVIDENCE |-> 1, DRIFT_DETECTED |-> 2,
             NEEDS_REVIEW |-> 3, BLOCKED |-> 4, UNAVAILABLE |-> 5]
CheckOf(q, r) == RadarPathCheck(q, r.scope # {}, r.scope, r.mode # "none", r.mode, Present)
PathChecksAgree ==
    file["radar"].kind = "stored" =>
        \A q \in Radar.items : Benign(q) \/ Severity[CheckOf(q, Radar).state] <= Severity[Radar.state]

(* A task whose brief is blocked is not handed on as safe, however the      *)
(* commands overlap, die or reuse each other's files: the brief is not      *)
(* asked by the radar, it only gets there through the mode of a profile.    *)
(* Where git does not answer the radar says nothing, and this fails.        *)
BlockedTaskStops ==
    file["handoff"].kind = "stored"
        /\ Handoff.source = "explicit_task" /\ BriefOf(Handoff.task).state = "BLOCKED"
        /\ Handoff.radar # "UNAVAILABLE"
    => ~Handoff.safe

(* A handoff that is safe to continue lists no path at which the handoff's  *)
(* own path check, made of the radar's, would stop or ask: its categories   *)
(* miss nothing that the radar's patterns find.                             *)
SafeHandoffIsClean ==
    file["handoff"].kind = "stored" /\ Handoff.safe =>
        \A q \in Handoff.items :
            Benign(q) \/ HandoffPathCheck(q, RadarPathCheck(q, FALSE, {}, FALSE, "none", Present)).state
                            \notin {"BLOCKED", "NEEDS_REVIEW"}

(* The profile of a task is at least as strict as the profile's own path    *)
(* check of each source in the task's scope: no scope is let into a mode    *)
(* that one of its paths alone would not be let into.                       *)
ModeCoversScope ==
    file["profile"].kind = "stored" /\ file["profile"].is.source = "generated" =>
        LET task == file["profile"].is.task
        IN \A q \in {p \in BriefOf(task).scope \cap Present : ~Aside(p)} :
              ModeRank[PathMode(BriefPathCheck(q, Present))] <= ModeRank[file["profile"].is.mode]

(* "Workflow Radar is the primary source for [...] human review              *)
(* requirements": what the radar holds for a review is not handed on.       *)
HandoffKeepsReview ==
    file["handoff"].kind = "stored" /\ Handoff.radar = "NEEDS_REVIEW" => ~Handoff.safe
=============================================================================
