----------------------------- MODULE Activation -----------------------------
(***************************************************************************)
(* Activation and removal of Avorelo in one repository: the hooks in       *)
(* .claude/settings.json with their backups (adapters/claude-code), the    *)
(* blocks in an instruction file, the entry in .gitignore, the activation  *)
(* record, the workspace files of init, and the uninstall command that     *)
(* takes it all back.                                                      *)
(*                                                                         *)
(* A command is a sequence of writes and may be killed between two of them *)
(* or inside one: a file is written in place, so that a JSON file is torn  *)
(* then and an instruction file cut short.  A write the disk refuses ends  *)
(* the command likewise.  The user edits the same files when no command    *)
(* runs.  op says what the running command does next.                      *)
(*                                                                         *)
(* The instruction file is AGENTS.md with the codex adapter, which all     *)
(* three kinds of block are put in; CLAUDE.md gets no corrections.  A hook *)
(* group is the set of its hooks: Avorelo's one and those of other tools.  *)
(* The groups of an event are a set, for nothing looks at their order.     *)
(***************************************************************************)
EXTENDS ManagedBlocks, Workspace

CONSTANTS Events,         \* LIFECYCLE_EVENTS
          Foreign,        \* hooks of the user and of other tools
          Pieces,         \* pieces of text the user may write
          Objectives,     \* what a session may put in the guidance
          Hosts,          \* machines: the preflight checks that pass
          MaxEdits,       \* bound: edits by the user
          MaxRuns         \* bound: commands run

ASSUME ActivationAssumption == MaxRuns \in Nat /\ "avorelo" \notin Foreign

VARIABLES settings,   \* settings.json: [kind, hooks]
          backups,    \* .avorelo/backups, the newest last
          doc,        \* the instruction file
          ignored,    \* .gitignore names .avorelo
          workspace,  \* .avorelo/workspace.json
          contract,   \* .avorelo/activation.json
          prefs,      \* .avorelo/settings.json
          record,     \* .avorelo/activation/activation-state.json
          op,         \* what the running command does next, or "idle"
          runs, edits,
          wanted,     \* history: the hooks the user has set up, <<event, hook>>
          text,       \* history: the user's text
          named,      \* history: the id a finished init has shown, or Unknown
          spoilt      \* history: which of Accidents have happened

local == <<workspace, contract, prefs, named>>
vars == <<settings, backups, doc, ignored, record, local, op, runs, edits, wanted, text, spoilt>>

(* What the code does not recover from: a command killed, a kill that cuts *)
(* the instruction file short, a backup brought back that lacks the user's *)
(* hooks, a foreign hook in Avorelo's group, a marker line deleted by the  *)
(* user.                                                                   *)
Accidents == {"killed", "torn text", "stale backup", "shared group", "cut marker"}

Avorelo == "avorelo"

(* Slip: every hook is taken for Avorelo's.                                *)
SlipAnyHook(g) == g # {}

IsAvoreloHook(g) == Avorelo \in g

NoHooks == [e \in Events |-> {}]
Absent == [kind |-> "absent", hooks |-> NoHooks]
TornSettings == [kind |-> "torn", hooks |-> NoHooks]
Json(h) == [kind |-> "json", hooks |-> h]

ForeignHooks(s) == {w \in Events \X Foreign : w[2] \in UNION s.hooks[w[1]]}

AlreadyHasAvorelo(s) == \E e \in Events : \E g \in s.hooks[e] : IsAvoreloHook(g)

Strip(h) == [e \in Events |-> {g \in h[e] : ~IsAvoreloHook(g)}]

Merge(h) == [e \in Events |-> Strip(h)[e] \union {{Avorelo}}]

Init ==
    /\ \/ settings \in {Absent, Json(NoHooks)}
       \/ \E e \in Events, f \in Foreign : settings = Json([NoHooks EXCEPT ![e] = {{f}}])
    /\ wanted = ForeignHooks(settings)
    /\ backups = <<>>
    /\ doc \in {<<>>} \union {<<Piece(t), Wide>> : t \in Pieces}
    /\ text = UserText(doc)
    /\ ignored \in BOOLEAN
    /\ record = NoFile /\ workspace = NoFile /\ contract = NoFile /\ prefs = NoFile
    /\ named = Unknown /\ op = "idle" /\ runs = 0 /\ edits = 0 /\ spoilt = {}

(* A command starts: its first step is st.                                 *)
Starts(st) ==
    /\ op = "idle"
    /\ runs < MaxRuns
    /\ runs' = runs + 1
    /\ op' = st

Continues(from, to) == op = from /\ op' = to /\ UNCHANGED runs

ByTheUser == <<edits, wanted, text>>
Spoil(accident, happened) == spoilt' = IF happened THEN spoilt \union {accident} ELSE spoilt

(***************************************************************************)
(* activate [--install-hooks --approve].                                   *)
(***************************************************************************)

(* installHooks copies a baseline aside: whatever shows no Avorelo hook, a *)
(* file that does not parse included.                                      *)
BackUpSettings ==
    /\ Starts("hooks")
    /\ backups' = IF settings.kind = "absent" \/ AlreadyHasAvorelo(settings) THEN backups
                  ELSE Append(backups, settings)
    /\ UNCHANGED <<settings, doc, ignored, record, ByTheUser, spoilt, local>>

(* What does not parse counts as empty.                                    *)
WriteHooks ==
    /\ Continues("hooks", "repair")
    /\ settings' = Json(Merge(settings.hooks))
    /\ UNCHANGED <<backups, doc, ignored, record, ByTheUser, spoilt, local>>

(* Without hooks the preflight comes first; what is missing but needed ends *)
(* the command, the rest only warns.                                       *)
Activate(passed) ==
    /\ runPreflight(passed).canStart
    /\ Starts("repair")
    /\ UNCHANGED <<settings, backups, doc, ignored, record, ByTheUser, spoilt, local>>

(* The entry in .gitignore, unless the file refuses it: that repair is     *)
(* blocked then, and the record will say so.                               *)
RunSafeRepairs ==
    /\ Continues("repair", "entry")
    /\ ignored' \in {TRUE, ignored}
    /\ UNCHANGED <<settings, backups, doc, record, ByTheUser, spoilt, local>>

InstallRunEntry ==
    /\ Continues("entry", "record")
    /\ doc' = InstallBlock(doc, "run-entry", "entry")
    /\ UNCHANGED <<settings, backups, ignored, record, ByTheUser, spoilt, local>>

PersistActivation ==
    /\ Continues("record", "idle")
    /\ record' = runFullActivation(record, ~ignored, runs)
    /\ UNCHANGED <<settings, backups, doc, ignored, ByTheUser, spoilt, local>>

(***************************************************************************)
(* A session: installAll of startSession, and applyCorrection.             *)
(***************************************************************************)
StartSession(objective) ==
    /\ Starts("idle")
    /\ doc' = UpdateManagedBlock(doc, "guidance", objective)
    /\ UNCHANGED <<settings, backups, ignored, record, ByTheUser, spoilt, local>>

ApplyCorrection ==
    /\ Starts("idle")
    /\ Count(doc, Begin("guidance")) > 0     \* a session has been started
    /\ doc' = UpdateManagedBlock(doc, "correction", "correction")
    /\ UNCHANGED <<settings, backups, ignored, record, ByTheUser, spoilt, local>>

(***************************************************************************)
(* uninstall: the adapters' uninstall, then the hooks' once more (which    *)
(* finds the same backup and comes to the same), then .avorelo is deleted. *)
(***************************************************************************)
RemoveGuidance ==
    /\ Starts("restore")
    /\ doc' = RemoveManagedBlock(doc, "guidance")
    /\ UNCHANGED <<settings, backups, ignored, record, ByTheUser, spoilt, local>>

RestoreSettings ==
    /\ Continues("restore", "strip")
    /\ settings' = IF backups = <<>> THEN settings ELSE backups[Len(backups)]
    /\ Spoil("stale backup", ForeignHooks(settings') # wanted)
    /\ UNCHANGED <<backups, doc, ignored, record, ByTheUser, local>>

(* Slip: a restored file is not looked at any more.                        *)
SlipOnlyUnrestored(s, bs) == IF s.kind = "json" /\ bs # <<>> THEN Json(Strip(s.hooks)) ELSE s

Stripped(s, bs) == IF s.kind = "json" THEN Json(Strip(s.hooks)) ELSE s

StripHooks ==
    /\ Continues("strip", "delete")
    /\ settings' = Stripped(settings, backups)
    /\ UNCHANGED <<backups, doc, ignored, record, ByTheUser, spoilt, local>>

DeleteAvorelo ==
    /\ Continues("delete", "idle")
    /\ backups' = <<>>
    /\ record' = NoFile /\ workspace' = NoFile /\ contract' = NoFile /\ prefs' = NoFile
    /\ named' = Unknown
    /\ UNCHANGED <<settings, doc, ignored, ByTheUser, spoilt>>

(***************************************************************************)
(* init [--reset], settings and settings reset.                            *)
(***************************************************************************)
StartInit(reset) ==
    /\ Starts(IF reset THEN "reset" ELSE "init")
    /\ named' = IF reset THEN Unknown ELSE named
    /\ UNCHANGED <<settings, backups, doc, ignored, record, workspace, contract, prefs, ByTheUser, spoilt>>

InitWorkspace ==
    /\ \E step \in {"init", "reset"} :
          /\ Continues(step, "contract")
          /\ workspace' = WorkspaceRecord(WorkspaceId(workspace, step = "reset", runs))
    /\ UNCHANGED <<settings, backups, doc, ignored, record, contract, prefs, named, ByTheUser, spoilt>>

WriteContract ==
    /\ Continues("contract", "prefs")
    /\ contract' = WorkspaceRecord(buildActivationContract(workspace).workspaceId)
    /\ UNCHANGED <<settings, backups, doc, ignored, record, workspace, prefs, named, ByTheUser, spoilt>>

(* A new workspace is shown the notice, unless these settings have it.     *)
Created == Loaded(workspace) /\ workspace.id = runs

EnsureSettings ==
    /\ Continues("prefs", "idle")
    /\ prefs' = LET s == ensureSettings(prefs, workspace.id)
                IN [s EXCEPT !.shown = @ \/ Created]
    /\ named' = workspace.id
    /\ UNCHANGED <<settings, backups, doc, ignored, record, workspace, contract, ByTheUser, spoilt>>

ShowSettings ==
    /\ Starts("idle")
    /\ ~Loaded(prefs)
    /\ prefs' = ensureSettings(prefs, buildActivationContract(workspace).workspaceId)
    /\ UNCHANGED <<settings, backups, doc, ignored, record, workspace, contract, named, ByTheUser, spoilt>>

ResetSettings ==
    /\ Starts("idle")
    /\ prefs' = resetSettings(prefs, workspace)
    /\ UNCHANGED <<settings, backups, doc, ignored, record, workspace, contract, named, ByTheUser, spoilt>>

(* The command is killed.  The file it was writing may be torn, the        *)
(* instruction file cut short; of what it was deleting any part may be     *)
(* gone.  Bound: the instruction file is cut short once.                   *)
CutShort(written) ==
    IF written = doc \/ "torn text" \in spoilt THEN {} ELSE {SubSeq(written, 1, k) : k \in 0..(Len(written) - 1)}
KilledIn == spoilt' = spoilt \union {"killed"} \union IF doc' = doc THEN {} ELSE {"torn text"}

Torn(f, steps) == IF op \in steps THEN {f, TornFile} ELSE {f}
Gone(f) == IF op = "delete" THEN {f, NoFile} ELSE {f}

Kill ==
    /\ op # "idle"
    /\ op' = "idle"
    /\ settings' \in {settings} \union IF op \in {"hooks", "restore", "strip"} THEN {TornSettings} ELSE {}
    /\ backups' \in {backups} \union IF op = "delete" THEN {<<>>} ELSE {}
    /\ record' \in Torn(record, {"record"}) \union Gone(record)
    /\ workspace' \in Torn(workspace, {"init", "reset"}) \union Gone(workspace)
    /\ contract' \in Torn(contract, {"contract"}) \union Gone(contract)
    /\ prefs' \in Torn(prefs, IF Loaded(prefs) /\ ~(Created /\ ~prefs.shown) THEN {} ELSE {"prefs"})
                  \union Gone(prefs)
    /\ named' = IF Loaded(workspace') THEN named ELSE Unknown
    /\ doc' \in {doc} \union
              IF op = "entry" THEN CutShort(InstallBlock(doc, "run-entry", "entry")) ELSE {}
    /\ KilledIn
    /\ UNCHANGED <<ignored, runs, ByTheUser>>

(* The same inside the first write of a session, a correction or an        *)
(* uninstall, and in that of settings.                                     *)
FirstWrites ==
    {UpdateManagedBlock(doc, "guidance", o) : o \in Objectives}
    \union {RemoveManagedBlock(doc, "guidance")}
    \union IF Count(doc, Begin("guidance")) = 0 THEN {}
           ELSE {UpdateManagedBlock(doc, "correction", "correction")}

KillFirstWrite ==
    /\ Starts("idle")
    /\ \/ /\ \E written \in FirstWrites : doc' \in CutShort(written)
          /\ UNCHANGED prefs
       \/ prefs' = TornFile /\ UNCHANGED doc
    /\ KilledIn
    /\ UNCHANGED <<settings, backups, ignored, record, workspace, contract, named, ByTheUser>>

(***************************************************************************)
(* The user, between two commands.                                         *)
(***************************************************************************)
Edits == op = "idle" /\ edits < MaxEdits /\ edits' = edits + 1

(* A hook is added, in a group of its own or in one that is there.         *)
AddHook(e, f, groups) ==
    /\ Edits
    /\ settings.kind = "json" /\ <<e, f>> \notin wanted \union ForeignHooks(settings)
    /\ settings' = Json([settings.hooks EXCEPT ![e] = groups])
    /\ wanted' = wanted \union {<<e, f>>}
    /\ Spoil("shared group", \E g \in groups : {Avorelo, f} \subseteq g)
    /\ UNCHANGED <<backups, doc, ignored, record, op, runs, text, local>>

OwnGroup(e, f) == {settings.hooks[e] \union {{f}}}
JoinGroup(e, f) ==
    {(settings.hooks[e] \ {g}) \union {g \union {f}} : g \in settings.hooks[e]}

(* All hooks of one event are deleted, Avorelo's among them.               *)
RemoveHooks(e) ==
    /\ Edits
    /\ settings.kind = "json" /\ settings.hooks[e] # {}
    /\ settings' = Json([settings.hooks EXCEPT ![e] = {}])
    /\ wanted' = {w \in wanted : w[1] # e}
    /\ UNCHANGED <<backups, doc, ignored, record, op, runs, text, spoilt, local>>

(* Is a part put after place i inside a block?                             *)
Inside(d, i) ==
    \E b \in {"guidance", "run-entry", "correction"} :
        Count(SubSeq(d, 1, i), Begin(b)) > Count(SubSeq(d, 1, i), End(b))

WriteText(t, i) ==
    /\ Edits
    /\ Count(doc, Piece(t)) = 0 /\ ~Inside(doc, i)
    /\ doc' = SubSeq(doc, 1, i) \o <<Piece(t)>> \o After(doc, i)
    /\ text' = UserText(doc')
    /\ UNCHANGED <<settings, backups, ignored, record, op, runs, wanted, spoilt, local>>

CutMarker(i) ==
    /\ Edits
    /\ Spoil("cut marker", TRUE)
    /\ doc[i][1] \in {"begin", "end"}
    /\ doc' = Upto(doc, i) \o After(doc, i)
    /\ UNCHANGED <<settings, backups, ignored, record, op, runs, wanted, text, local>>

Next ==
    \/ BackUpSettings \/ WriteHooks
    \/ \E passed \in Hosts : Activate(passed)
    \/ RunSafeRepairs \/ InstallRunEntry \/ PersistActivation
    \/ \E o \in Objectives : StartSession(o)
    \/ ApplyCorrection
    \/ RemoveGuidance \/ RestoreSettings \/ StripHooks \/ DeleteAvorelo
    \/ \E reset \in BOOLEAN : StartInit(reset)
    \/ InitWorkspace \/ WriteContract \/ EnsureSettings
    \/ ShowSettings \/ ResetSettings
    \/ Kill \/ KillFirstWrite
    \/ \E e \in Events, f \in Foreign : \E groups \in OwnGroup(e, f) \union JoinGroup(e, f) :
          AddHook(e, f, groups)
    \/ \E e \in Events : RemoveHooks(e)
    \/ \E t \in Pieces, i \in 0..Len(doc) : WriteText(t, i)
    \/ \E i \in DOMAIN doc : CutMarker(i)

Spec == Init /\ [][Next]_vars
-----------------------------------------------------------------------------
(* An event has Avorelo's hook once at most: a repeated activation         *)
(* replaces it.                                                            *)
TypeOK ==
    /\ settings.kind \in {"absent", "torn", "json"}
    /\ settings.hooks \in [Events -> SUBSET SUBSET (Foreign \union {Avorelo})]
    /\ \A e \in Events : \A g, h \in settings.hooks[e] : IsAvoreloHook(g) /\ IsAvoreloHook(h) => g = h
    /\ \A i \in DOMAIN doc : doc[i][1] \in {"user", "gap", "begin", "body", "end"}
    /\ ignored \in BOOLEAN
    /\ {workspace, contract} \subseteq Workspaces(1..MaxRuns)
    /\ prefs \in AvoSettings(0..MaxRuns) /\ record \in ActivationStates(1..MaxRuns)
    /\ named \in 0..MaxRuns
    /\ op \in {"idle", "hooks", "repair", "entry", "record", "restore", "strip", "delete",
              "init", "reset", "contract", "prefs"}
    /\ wanted \subseteq Events \X Foreign
    /\ spoilt \subseteq Accidents

(* An uninstall leaves no Avorelo hook in settings that parse, whichever   *)
(* backup came back and whatever the user changed since the install.       *)
UninstallLeavesNone ==
    op = "delete" /\ settings.kind = "json" =>
        \A e \in Events : \A g \in settings.hooks[e] : Avorelo \notin g

(* The user's hooks outlive activations, sessions and uninstalls, in any   *)
(* order, while no command is killed, no backup without them is brought    *)
(* back and none of them stands in Avorelo's group (installHooks,          *)
(* uninstall).                                                             *)
ForeignHooksKept ==
    spoilt \subseteq {"cut marker"} => ForeignHooks(settings) = wanted

(* "Preserves all user content outside markers" (activation-run-entry.ts): *)
(* every piece of the user's text stands in the file, in the order it was  *)
(* written in, and each block once, whatever activations, sessions and     *)
(* removals came between, while the user leaves the marker lines alone and *)
(* no kill cuts the file short.  Blank lines are no piece of text.         *)
UserTextIntact ==
    spoilt \intersect {"cut marker", "torn text"} = {} =>
    /\ UserText(doc) = text
    /\ \A b \in {"guidance", "run-entry", "correction"} : Count(doc, Begin(b)) <= 1

(* "Idempotent: the workspaceId and original createdAt are preserved        *)
(* across runs unless `reset` is set" (init.ts:161): the id a finished     *)
(* init has shown stays the workspace's through activations, sessions,     *)
(* settings and kills of any of them, until a reset, an uninstall, or a    *)
(* kill that tears workspace.json itself; the contract names it when it    *)
(* parses, and status, dogfood-check and the contract agree on it.         *)
IdentityKept ==
    named # Unknown =>
    /\ workspace = WorkspaceRecord(named)
    /\ Loaded(contract) => contract.id = named
    /\ cmdStatus(workspace, record) # "not initialized"
    /\ buildDogfoodCheck(workspace, FALSE, 0).safeNextStep = buildActivationContract(workspace).firstRunRecommended

(* "User content outside markers is never touched" (managed-blocks.ts:2):  *)
(* the blank lines the user left are as the user left them.                *)
BlankLinesKept == \A i \in DOMAIN doc : doc[i] \notin {Narrow, None}

(* The same of the text, also when a command is killed.                    *)
TextSurvivesKills == "cut marker" \notin spoilt => UserText(doc) = text

(* "merge/uninstall never touch other tools' hooks" (claude-code/index.ts):*)
(* the settings an uninstall leaves have the hooks the user set up, unless *)
(* a command was killed.                                                   *)
ForeignHooksIntact ==
    op = "delete" /\ "killed" \notin spoilt => ForeignHooks(settings) = wanted
=============================================================================
