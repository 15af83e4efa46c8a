----------------------------- MODULE Workspace ------------------------------
(***************************************************************************)
(* The local files that say whether Avorelo is set up in a repository, and *)
(* what its commands make of them: workspace.json and activation.json of   *)
(* `avorelo init`, settings.json of .avorelo, and the activation record of *)
(* `avorelo activate`, with the preflight and the detection in front.      *)
(*                                                                         *)
(* A file is absent, torn or whole.  Of a whole file only the workspace id *)
(* and what a reader decides by are kept; an id is the number of the       *)
(* command that made it up.                                                *)
(***************************************************************************)
EXTENDS Integers, Sequences, FiniteSets

CONSTANT RepoFiles    \* files and directories at the root of the repository

Unknown == 0          \* "ws_unknown" and "ws_uninitialized"

NoFile == [kind |-> "absent"]
TornFile == [kind |-> "torn"]
Workspaces(ids) == {NoFile, TornFile} \union [kind : {"whole"}, id : ids]
WorkspaceRecord(id) == [kind |-> "whole", id |-> id]

(* Settings also say whether the notice has been shown.                    *)
AvoSettings(ids) == {NoFile, TornFile} \union [kind : {"whole"}, id : ids, shown : BOOLEAN]

ActivationStatus == {"active_with_holds", "blocked"}
ActivationStates(ids) ==
    {NoFile, TornFile} \union [kind : {"whole"}, id : ids, since : ids, status : ActivationStatus]

(* loadWorkspace, loadSettings, readActivationState: what does not parse   *)
(* counts as absent.                                                       *)
Loaded(f) == f.kind = "whole"

(***************************************************************************)
(* runPreflight: which checks of the machine pass.                         *)
(***************************************************************************)
PreflightCheckId ==
    {"node_available", "npm_available", "npx_available", "npm_cache_writable", "temp_dir_writable",
     "target_dir_writable", "powershell_execution_policy", "network_npm_registry"}

ActivationFailureTaxonomy ==
    {"READY", "LOCAL_PREFLIGHT_FAILED", "BLOCKED_BY_RUNNER_BEFORE_AVORELO_STARTED"}

runPreflight(passed) ==
    LET ok == PreflightCheckId \subseteq passed
        canStart == {"node_available", "npm_available", "npx_available"} \subseteq passed
    IN [ok |-> ok, canStart |-> canStart,
        taxonomy |-> IF ok THEN "READY"
                     ELSE IF canStart THEN "LOCAL_PREFLIGHT_FAILED"
                     ELSE "BLOCKED_BY_RUNNER_BEFORE_AVORELO_STARTED"]

(***************************************************************************)
(* The detection.                                                          *)
(***************************************************************************)
LockFiles == <<<<"pnpm-lock.yaml", "pnpm">>, <<"yarn.lock", "yarn">>, <<"bun.lockb", "bun">>,
               <<"package-lock.json", "npm">>, <<"package.json", "npm">>>>

(* The first lock file there is decides.                                   *)
packageManager ==
    LET found == SelectSeq(LockFiles, LAMBDA l : l[1] \in RepoFiles)
    IN IF found = <<>> THEN "none" ELSE found[1][2]

gitDetected == ".git" \in RepoFiles

(* The tools named in the record: by what lies in the repository.          *)
detectAiTools(claudeDir) ==
    (IF claudeDir THEN {"Claude Code"} ELSE {}) \union
    {t \in {"Codex", "Cursor", "CLAUDE.md", "AGENTS.md"} :
        CASE t = "Codex" -> ".codex" \in RepoFiles
          [] t = "Cursor" -> ".cursor" \in RepoFiles
          [] OTHER -> t \in RepoFiles}

toolsDetected(claudeDir) ==
    detectAiTools(claudeDir) \union (IF gitDetected THEN {"git"} ELSE {})
                             \union (IF packageManager # "none" THEN {packageManager} ELSE {})

(***************************************************************************)
(* `avorelo init`.                                                         *)
(***************************************************************************)
(* Slip: the id of an earlier init is not looked for.                      *)
SlipWorkspaceId(w, reset, fresh) == fresh

(* The id outlives a repeated init, unless --reset is given.               *)
WorkspaceId(w, reset, fresh) == IF ~reset /\ Loaded(w) THEN w.id ELSE fresh

(* The contract as it is built for a reader; on disk it only serves to be  *)
(* looked at.                                                              *)
buildActivationContract(w) ==
    [workspaceId |-> IF Loaded(w) THEN w.id ELSE Unknown,
     initialized |-> Loaded(w),
     repoDetected |-> gitDetected \/ "package.json" \in RepoFiles,
     packageManager |-> packageManager,
     firstRunRecommended |-> IF Loaded(w) THEN "run" ELSE "init"]

buildDefaultSettings(id) == [kind |-> "whole", id |-> id, shown |-> FALSE]

(* ensureSettings: settings that parse stay, with the id they have.        *)
ensureSettings(s, id) == IF Loaded(s) THEN s ELSE buildDefaultSettings(id)

resetSettings(s, w) ==
    buildDefaultSettings(IF Loaded(w) THEN w.id ELSE IF Loaded(s) THEN s.id ELSE Unknown)

(***************************************************************************)
(* `avorelo activate`: the record.                                         *)
(***************************************************************************)
(* An earlier record that parses lends its id and date; a repair that was  *)
(* blocked makes the status.                                               *)
runFullActivation(r, blocked, fresh) ==
    [kind |-> "whole",
     id |-> IF Loaded(r) THEN r.id ELSE fresh,
     since |-> IF Loaded(r) THEN r.since ELSE fresh,
     status |-> IF blocked THEN "blocked" ELSE "active_with_holds"]

(* The steps the record lists, and what needs attention in its first value.*)
setupSteps(tools, repaired, blocked, entry) ==
    [workspace_detected |-> "passed", environment_scanned |-> "passed",
     tools_detected |-> IF tools = {} THEN "left out" ELSE "passed",
     safe_repairs |-> IF repaired THEN "fixed" ELSE "left out",
     repairs_blocked |-> IF blocked THEN "blocked" ELSE "left out",
     run_entry |-> IF entry THEN "passed" ELSE "hold",
     production |-> "hold"]

needsAttention(r) == Loaded(r) /\ r.status = "blocked"

(***************************************************************************)
(* The readers.                                                            *)
(***************************************************************************)
(* `avorelo status`: the workspace is only shown while nothing is          *)
(* activated.                                                              *)
cmdStatus(w, r) ==
    IF Loaded(r) THEN "activated"
    ELSE IF Loaded(w) THEN "initialized" ELSE "not initialized"

(* `avorelo verify`: what the writer wrote passes every check, so only a   *)
(* record that does not parse fails; the repair then only gives advice.    *)
verifyActivationState(r) == Loaded(r)
repairActivationState(r) == IF Loaded(r) THEN "valid" ELSE "run activate"

(* `avorelo dogfood-check`.                                                *)
buildDogfoodCheck(w, hasRun, sources) ==
    [initialized |-> Loaded(w), latestRuntimeSession |-> hasRun,
     controlCenterData |-> hasRun /\ sources > 0,
     ready |-> Loaded(w) /\ hasRun,
     safeNextStep |-> IF ~Loaded(w) THEN "init" ELSE IF ~hasRun THEN "run" ELSE "control-center"]
=============================================================================
