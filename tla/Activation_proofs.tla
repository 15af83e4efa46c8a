-------------------------- MODULE Activation_proofs --------------------------
(***************************************************************************)
(* Theorems about Activation, for every set of events and foreign hooks,   *)
(* every text and every number of commands and edits: what becomes of the  *)
(* hooks in settings.json, of the identity of the workspace and of the     *)
(* user's text around the blocks, and what the files can hold.             *)
(***************************************************************************)
EXTENDS Activation, FiniteSetTheorems, SequenceTheorems, WellFoundedInduction, TLAPS

(* What settings.json can hold: for each event a set of hook groups.       *)
HookMaps == [Events -> SUBSET SUBSET (Foreign \union {Avorelo})]
SettingsFiles == [kind : {"absent", "torn", "json"}, hooks : HookMaps]

HooksTyped ==
    /\ settings \in SettingsFiles
    /\ backups \in Seq(SettingsFiles)
    /\ wanted \subseteq Events \X Foreign

(* Nobody else's hook stands in a group with Avorelo's.                    *)
OwnGroups(h) == \A e \in Events : \A g \in h[e] : IsAvoreloHook(g) => g = {Avorelo}

(* installHooks backs a file up only when it shows no Avorelo hook, so     *)
(* that no backup that parses has one ("All retained backups are           *)
(* pre-Avorelo by construction"), whatever the user deletes by hand.       *)
BackupsPristine ==
    \A i \in DOMAIN backups : \A e \in Events : \A g \in backups[i].hooks[e] : Avorelo \notin g

(* The inductive invariant of the hooks.  ForeignHooksKept alone is not    *)
(* one: a group that Avorelo shares is stripped whole, and a restored      *)
(* backup is stripped like any settings, so that it must be pristine.      *)
HookInv ==
    /\ HooksTyped
    /\ BackupsPristine
    /\ UninstallLeavesNone
    /\ ForeignHooksKept
    /\ spoilt \subseteq {"cut marker"} => OwnGroups(settings.hooks)
-----------------------------------------------------------------------------
(* The hooks of other tools in a map of groups.                            *)
HooksIn(h) == {w \in Events \X Foreign : w[2] \in UNION h[w[1]]}

(* A settings file that parses is its hooks.                               *)
LEMMA JsonFile ==
    ASSUME NEW h \in HookMaps
    PROVE  /\ Json(h) \in SettingsFiles /\ Json(h).kind = "json" /\ Json(h).hooks = h
           /\ ForeignHooks(Json(h)) = HooksIn(h)
  BY DEF Json, SettingsFiles, ForeignHooks, HooksIn

(* The files without hooks are settings files.                             *)
LEMMA EmptyFiles ==
    /\ NoHooks \in HookMaps
    /\ Absent \in SettingsFiles /\ TornSettings \in SettingsFiles
    /\ TornSettings.hooks = NoHooks /\ TornSettings.kind = "torn"
    /\ Absent.hooks = NoHooks /\ Absent.kind = "absent"
  BY DEF NoHooks, HookMaps, Absent, TornSettings, SettingsFiles

(* Every settings file has a map of groups.                                *)
LEMMA FileParts ==
    ASSUME NEW s \in SettingsFiles
    PROVE  s.hooks \in HookMaps /\ ForeignHooks(s) = HooksIn(s.hooks)
  BY DEF SettingsFiles, ForeignHooks, HooksIn

(* strip removes every group with Avorelo's hook and, as long as Avorelo's *)
(* groups are its own, no hook of another tool.                            *)
LEMMA StripKeepsOthers ==
    ASSUME NEW h \in HookMaps
    PROVE  /\ Strip(h) \in HookMaps
           /\ \A e \in Events : \A g \in Strip(h)[e] : ~IsAvoreloHook(g)
           /\ OwnGroups(h) => HooksIn(Strip(h)) = HooksIn(h)
<1>1. \A e \in Events : Strip(h)[e] = {g \in h[e] : ~IsAvoreloHook(g)}
  BY DEF Strip
<1>2. Strip(h) \in HookMaps
  BY DEF Strip, HookMaps
<1>3. ASSUME OwnGroups(h), NEW e \in Events, NEW f \in Foreign
      PROVE  f \in UNION h[e] <=> f \in UNION Strip(h)[e]
  <2>1. ASSUME NEW g \in h[e], f \in g PROVE g \in Strip(h)[e]
    <3>1. f # Avorelo
      BY ActivationAssumption DEF Avorelo
    <3>2. ~IsAvoreloHook(g)
      BY <1>3, <2>1, <3>1 DEF OwnGroups
    <3> QED
      BY <3>2, <1>1
  <2> QED
    BY <2>1, <1>1
<1>4. OwnGroups(h) => HooksIn(Strip(h)) = HooksIn(h)
  BY <1>3 DEF HooksIn
<1> QED
  BY <1>1, <1>2, <1>4

(* installHooks puts one group of Avorelo's own into each event and leaves *)
(* the hooks of other tools where they are.                                *)
LEMMA MergeKeepsOthers ==
    ASSUME NEW h \in HookMaps
    PROVE  /\ Merge(h) \in HookMaps
           /\ OwnGroups(Merge(h))
           /\ OwnGroups(h) => HooksIn(Merge(h)) = HooksIn(h)
<1>1. /\ Strip(h) \in HookMaps
      /\ \A e \in Events : \A g \in Strip(h)[e] : ~IsAvoreloHook(g)
      /\ OwnGroups(h) => HooksIn(Strip(h)) = HooksIn(h)
  BY StripKeepsOthers
<1>2. \A e \in Events : Merge(h)[e] = Strip(h)[e] \union {{Avorelo}}
  BY DEF Merge
<1>3. Merge(h) \in HookMaps
  BY <1>1 DEF Merge, HookMaps
<1>4. OwnGroups(Merge(h))
  BY <1>1, <1>2 DEF OwnGroups
<1>5. HooksIn(Merge(h)) = HooksIn(Strip(h))
  <2>1. \A f \in Foreign : f # Avorelo
    BY ActivationAssumption DEF Avorelo
  <2>2. \A e \in Events, f \in Foreign : f \in UNION Merge(h)[e] <=> f \in UNION Strip(h)[e]
    BY <1>2, <2>1
  <2> QED
    BY <2>2 DEF HooksIn
<1> QED
  BY <1>1, <1>3, <1>4, <1>5
-----------------------------------------------------------------------------
(* The invariant of the hooks is kept by what does not touch them.         *)
LEMMA HooksUndisturbed ==
    ASSUME HookInv, UNCHANGED <<settings, backups, wanted>>, spoilt \subseteq spoilt',
           op' = "delete" => op = "delete"
    PROVE  HookInv'
  BY DEF HookInv, HooksTyped, SettingsFiles, HookMaps, BackupsPristine, UninstallLeavesNone,
         ForeignHooksKept, ForeignHooks, OwnGroups, IsAvoreloHook, Avorelo

(* Initially there are the user's hooks and no backup.                     *)
LEMMA InitHooks == Init => HookInv
<1> SUFFICES ASSUME Init PROVE HookInv
  OBVIOUS
<1> DEFINE Clean == /\ settings \in SettingsFiles
                    /\ \A d \in Events : \A g \in settings.hooks[d] : Avorelo \notin g
<1>1. Clean
  <2>1. CASE settings = Absent
    BY <2>1, EmptyFiles DEF NoHooks
  <2>2. CASE settings = Json(NoHooks)
    BY <2>2, EmptyFiles, JsonFile DEF NoHooks
  <2>3. ASSUME NEW e \in Events, NEW f \in Foreign,
               settings = Json([NoHooks EXCEPT ![e] = {{f}}])
        PROVE  Clean
    <3> DEFINE h == [NoHooks EXCEPT ![e] = {{f}}]
    <3>1. h \in HookMaps
      BY EmptyFiles DEF HookMaps
    <3>2. \A d \in Events : \A g \in h[d] : g = {f}
      BY DEF NoHooks
    <3>3. Avorelo \notin {f}
      BY ActivationAssumption DEF Avorelo
    <3> HIDE DEF h
    <3>4. settings \in SettingsFiles /\ settings.hooks = h
      BY <3>1, <2>3, JsonFile DEF h
    <3> QED
      BY <3>2, <3>3, <3>4
  <2>4. \/ settings \in {Absent, Json(NoHooks)}
        \/ \E e \in Events, f \in Foreign : settings = Json([NoHooks EXCEPT ![e] = {{f}}])
    BY DEF Init
  <2> HIDE DEF Clean
  <2> QED
    BY <2>1, <2>2, <2>3, <2>4
<1>2. backups = <<>> /\ wanted = ForeignHooks(settings) /\ op = "idle"
  BY DEF Init
<1>3. wanted \subseteq Events \X Foreign
  BY <1>2 DEF ForeignHooks
<1>4. HooksTyped /\ BackupsPristine /\ UninstallLeavesNone /\ ForeignHooksKept
  BY <1>1, <1>2, <1>3 DEF HooksTyped, BackupsPristine, UninstallLeavesNone, ForeignHooksKept
<1>5. OwnGroups(settings.hooks)
  BY <1>1 DEF OwnGroups, IsAvoreloHook
<1> QED
  BY <1>4, <1>5 DEF HookInv

(* installHooks: the backup it makes shows no Avorelo hook.                *)
LEMMA BackUpKeeps == ASSUME HookInv, BackUpSettings PROVE HookInv'
<1>1. UNCHANGED <<settings, wanted, spoilt>> /\ op' = "hooks"
  BY DEF BackUpSettings, Starts, ByTheUser
<1>2. settings \in SettingsFiles /\ backups \in Seq(SettingsFiles)
  BY DEF HookInv, HooksTyped
<1>3. CASE backups' = backups
  BY <1>1, <1>3, HooksUndisturbed
<1>4. CASE backups' = Append(backups, settings) /\ ~AlreadyHasAvorelo(settings)
  <2>1. backups' \in Seq(SettingsFiles)
    BY <1>2, <1>4
  <2>2. \A i \in DOMAIN backups' : \/ i \in DOMAIN backups /\ backups'[i] = backups[i]
                                   \/ backups'[i] = settings
    BY <1>2, <1>4
  <2>3. \A e \in Events : \A g \in settings.hooks[e] : Avorelo \notin g
    BY <1>4 DEF AlreadyHasAvorelo, IsAvoreloHook
  <2>4. BackupsPristine'
    BY <2>2, <2>3 DEF BackupsPristine, HookInv, Avorelo
  <2>5. HooksTyped'
    BY <1>1, <2>1 DEF HookInv, HooksTyped, SettingsFiles, HookMaps, Avorelo
  <2> QED
    BY <1>1, <2>4, <2>5
       DEF HookInv, UninstallLeavesNone, ForeignHooksKept, ForeignHooks, OwnGroups,
           IsAvoreloHook, Avorelo
<1> QED
  BY <1>3, <1>4 DEF BackUpSettings

(* A step that replaces settings.json by a map of groups.                  *)
LEMMA SettingsReplaced ==
    ASSUME HookInv, NEW s \in SettingsFiles, settings' = s,
           backups' = backups, spoilt \subseteq spoilt',
           wanted' \subseteq Events \X Foreign,
           op' = "delete" /\ s.kind = "json" =>
               \A e \in Events : \A g \in s.hooks[e] : ~IsAvoreloHook(g),
           spoilt' \subseteq {"cut marker"} =>
               HooksIn(s.hooks) = wanted' /\ OwnGroups(s.hooks)
    PROVE  HookInv'
<1>1. s.hooks \in HookMaps /\ ForeignHooks(s) = HooksIn(s.hooks)
  BY FileParts
<1>2. HooksTyped'
  BY DEF HookInv, HooksTyped, SettingsFiles, HookMaps, Avorelo
<1>3. BackupsPristine'
  BY DEF HookInv, BackupsPristine, Avorelo
<1>4. UninstallLeavesNone'
  BY DEF UninstallLeavesNone, IsAvoreloHook, Avorelo
<1>5. ForeignHooksKept'
  <2>1. ForeignHooks(settings)' = ForeignHooks(s)
    BY DEF ForeignHooks
  <2> QED
    BY <1>1, <2>1 DEF ForeignHooksKept
<1>6. (spoilt \subseteq {"cut marker"} => OwnGroups(settings.hooks))'
  BY DEF OwnGroups, IsAvoreloHook, Avorelo
<1> QED
  BY <1>2, <1>3, <1>4, <1>5, <1>6 DEF HookInv

(* What the invariant says of the settings there are.                      *)
LEMMA HooksNow ==
    ASSUME HookInv
    PROVE  /\ settings \in SettingsFiles /\ settings.hooks \in HookMaps
           /\ wanted \subseteq Events \X Foreign
           /\ spoilt \subseteq {"cut marker"} =>
                HooksIn(settings.hooks) = wanted /\ OwnGroups(settings.hooks)
  BY FileParts DEF HookInv, HooksTyped, ForeignHooksKept

(* The hooks are merged into whatever settings parse.                      *)
LEMMA WriteKeeps == ASSUME HookInv, WriteHooks PROVE HookInv'
<1>1. PICK h : h = Merge(settings.hooks)
  OBVIOUS
<1>2. /\ settings' = Json(h) /\ UNCHANGED <<backups, wanted, spoilt>> /\ op' = "repair"
  BY <1>1 DEF WriteHooks, Continues, ByTheUser
<1>3. /\ h \in HookMaps /\ OwnGroups(h)
      /\ OwnGroups(settings.hooks) => HooksIn(h) = HooksIn(settings.hooks)
  BY <1>1, HooksNow, MergeKeepsOthers
<1>4. PICK s : s = Json(h)
  OBVIOUS
<1>5. s \in SettingsFiles /\ s.hooks = h
  BY <1>3, <1>4, JsonFile
<1> QED
  BY <1>2, <1>3, <1>4, <1>5, HooksNow, SettingsReplaced

(* uninstall brings the newest backup back; one that lacks hooks of the    *)
(* user's is a stale one.                                                  *)
LEMMA RestoreKeeps == ASSUME HookInv, RestoreSettings PROVE HookInv'
<1>1. /\ UNCHANGED <<backups, wanted>> /\ op' = "strip"
      /\ settings' = IF backups = <<>> THEN settings ELSE backups[Len(backups)]
      /\ spoilt' = IF ForeignHooks(settings') # wanted THEN spoilt \union {"stale backup"}
                   ELSE spoilt
  BY DEF RestoreSettings, Continues, ByTheUser, Spoil
<1>2. CASE backups = <<>>
  BY <1>1, <1>2, HooksUndisturbed
<1>3. CASE backups # <<>>
  <2>1. PICK s : s = backups[Len(backups)]
    OBVIOUS
  <2>2. s \in SettingsFiles /\ Len(backups) \in DOMAIN backups
    <3>1. backups \in Seq(SettingsFiles)
      BY DEF HookInv, HooksTyped
    <3> HIDE DEF HookInv
    <3>2. Len(backups) \in 1..Len(backups) /\ DOMAIN backups = 1..Len(backups)
      BY <1>3, <3>1
    <3> QED
      BY <2>1, <3>1, <3>2
  <2>3. OwnGroups(s.hooks)
    BY <2>1, <2>2 DEF HookInv, BackupsPristine, OwnGroups, IsAvoreloHook
  <2>4. settings' = s /\ ForeignHooks(settings') = HooksIn(s.hooks)
    BY <1>1, <1>3, <2>1, <2>2, FileParts
  <2>5. spoilt \subseteq spoilt' /\ (spoilt' \subseteq {"cut marker"} => HooksIn(s.hooks) = wanted)
    BY <1>1, <2>4
  <2> QED
    BY <1>1, <2>2, <2>3, <2>4, <2>5, HooksNow, SettingsReplaced
<1> QED
  BY <1>2, <1>3

(* What came back is stripped of Avorelo's hooks once more.                *)
LEMMA StripKeeps == ASSUME HookInv, StripHooks PROVE HookInv'
<1>1. /\ UNCHANGED <<backups, wanted, spoilt>> /\ op' = "delete"
      /\ settings' = IF settings.kind = "json" THEN Json(Strip(settings.hooks)) ELSE settings
  BY DEF StripHooks, Continues, ByTheUser, Stripped
<1>2. CASE settings.kind = "json"
  <2>1. PICK h : h = Strip(settings.hooks)
    OBVIOUS
  <2>2. /\ h \in HookMaps
        /\ \A e \in Events : \A g \in h[e] : ~IsAvoreloHook(g)
        /\ OwnGroups(settings.hooks) => HooksIn(h) = HooksIn(settings.hooks)
    BY <2>1, HooksNow, StripKeepsOthers
  <2>3. PICK s : s = Json(h)
    OBVIOUS
  <2>4. s \in SettingsFiles /\ s.hooks = h /\ settings' = s
    BY <1>1, <1>2, <2>1, <2>2, <2>3, JsonFile
  <2>5. OwnGroups(h)
    BY <2>2 DEF OwnGroups
  <2> QED
    BY <1>1, <2>2, <2>4, <2>5, HooksNow, SettingsReplaced
<1>3. CASE settings.kind # "json"
  <2>1. PICK s : s = settings
    OBVIOUS
  <2> QED
    BY <1>1, <1>3, <2>1, HooksNow, SettingsReplaced
<1> QED
  BY <1>2, <1>3

(* A kill may tear settings.json, and says so.                             *)
LEMMA KillKeeps == ASSUME HookInv, Kill PROVE HookInv'
<1>1. /\ op' = "idle" /\ wanted' = wanted /\ "killed" \in spoilt'
      /\ settings' \in {settings, TornSettings} /\ backups' \in {backups, <<>>}
  BY DEF Kill, ByTheUser, KilledIn
<1>2. ~(spoilt' \subseteq {"cut marker"})
  BY <1>1
<1>3. HooksTyped'
  <2>1. settings \in SettingsFiles /\ backups \in Seq(SettingsFiles)
    BY DEF HookInv, HooksTyped
  <2>2. settings' \in SettingsFiles
    BY <1>1, <2>1, EmptyFiles
  <2>3. backups' \in Seq(SettingsFiles)
    <3>1. CASE backups' = backups
      BY <2>1, <3>1
    <3>2. CASE backups' = <<>>
      BY <3>2
    <3> QED
      BY <1>1, <3>1, <3>2
  <2> QED
    BY <1>1, <2>2, <2>3 DEF HookInv, HooksTyped, SettingsFiles, HookMaps, Avorelo
<1>4. BackupsPristine'
  <2>1. CASE backups' = backups
    BY <2>1 DEF HookInv, BackupsPristine, Avorelo
  <2>2. CASE backups' = <<>>
    BY <2>2 DEF BackupsPristine
  <2> QED
    BY <1>1, <2>1, <2>2
<1> QED
  BY <1>1, <1>2, <1>3, <1>4 DEF HookInv, UninstallLeavesNone, ForeignHooksKept

(* A hook that joins a group adds itself to the hooks there are.           *)
LEMMA JoinedGroup ==
    ASSUME NEW H, NEW g \in H, NEW f
    PROVE  UNION ((H \ {g}) \union {g \union {f}}) = (UNION H) \union {f}
<1> DEFINE joined == (H \ {g}) \union {g \union {f}}
<1>1. ASSUME NEW x \in UNION joined PROVE x \in (UNION H) \union {f}
  BY <1>1
<1>2. ASSUME NEW x \in UNION H PROVE x \in UNION joined
  <2>1. PICK k \in H : x \in k
    BY <1>2
  <2>2. CASE k = g
    <3>1. g \union {f} \in joined /\ x \in g \union {f}
      BY <2>1, <2>2
    <3> QED
      BY <3>1
  <2>3. CASE k # g
    <3>1. k \in joined
      BY <2>3
    <3> QED
      BY <2>1, <3>1
  <2> QED
    BY <2>2, <2>3
<1>3. f \in UNION joined
  <2>1. g \union {f} \in joined /\ f \in g \union {f}
    OBVIOUS
  <2> QED
    BY <2>1
<1> QED
  BY <1>1, <1>2, <1>3

(* The user adds a hook of another tool; in Avorelo's group it is lost     *)
(* with the next activation, which is noted.                               *)
LEMMA AddHookKeeps ==
    ASSUME HookInv, NEW e \in Events, NEW f \in Foreign,
           NEW groups \in OwnGroup(e, f) \union JoinGroup(e, f), AddHook(e, f, groups)
    PROVE  HookInv'
<1>1. PICK h : h = [settings.hooks EXCEPT ![e] = groups]
  OBVIOUS
<1>2. /\ settings' = Json(h) /\ backups' = backups /\ op' = op /\ op = "idle"
      /\ wanted' = wanted \union {<<e, f>>}
      /\ spoilt' = IF \E g \in groups : {Avorelo, f} \subseteq g
                   THEN spoilt \union {"shared group"} ELSE spoilt
  BY <1>1 DEF AddHook, Edits, Spoil
<1>3. settings.hooks \in HookMaps
  BY HooksNow
<1>4. /\ groups \in SUBSET SUBSET (Foreign \union {Avorelo})
      /\ (UNION groups) = (UNION settings.hooks[e]) \union {f}
      /\ \A g \in groups : g \in settings.hooks[e] \/ f \in g
  <2>1. settings.hooks[e] \in SUBSET SUBSET (Foreign \union {Avorelo})
    BY <1>3 DEF HookMaps
  <2>2. CASE groups \in OwnGroup(e, f)
    BY <2>1, <2>2 DEF OwnGroup
  <2>3. CASE groups \in JoinGroup(e, f)
    <3>1. PICK g \in settings.hooks[e] : groups = (settings.hooks[e] \ {g}) \union {g \union {f}}
      BY <2>3 DEF JoinGroup
    <3>2. \A x \in groups : x \in settings.hooks[e] \/ x = g \union {f}
      BY <3>1
    <3>3. groups \in SUBSET SUBSET (Foreign \union {Avorelo})
      BY <2>1, <3>2
    <3>4. (UNION groups) = (UNION settings.hooks[e]) \union {f}
      BY <3>1, JoinedGroup
    <3> QED
      BY <3>2, <3>3, <3>4
  <2> QED
    BY <2>2, <2>3
<1>5. h \in HookMaps /\ \A d \in Events : h[d] = IF d = e THEN groups ELSE settings.hooks[d]
  BY <1>1, <1>3, <1>4 DEF HookMaps
<1>6. PICK s : s = Json(h)
  OBVIOUS
<1>7. s \in SettingsFiles /\ s.hooks = h /\ settings' = s
  BY <1>2, <1>5, <1>6, JsonFile
<1>8. ASSUME spoilt' \subseteq {"cut marker"}
      PROVE  HooksIn(h) = wanted' /\ OwnGroups(h)
  <2>1. /\ spoilt \subseteq {"cut marker"}
        /\ \A g \in groups : ~({Avorelo, f} \subseteq g)
    BY <1>2, <1>8
  <2>2. HooksIn(settings.hooks) = wanted /\ OwnGroups(settings.hooks)
    BY <2>1, HooksNow
  <2>3. HooksIn(h) = HooksIn(settings.hooks) \union {<<e, f>>}
    <3>1. ASSUME NEW d \in Events, NEW x \in Foreign
          PROVE  x \in UNION h[d] <=> x \in UNION settings.hooks[d] \/ (d = e /\ x = f)
      BY <1>4, <1>5
    <3>2. ASSUME NEW w \in Events \X Foreign
          PROVE  w \in HooksIn(h) <=> w \in HooksIn(settings.hooks) \/ w = <<e, f>>
      BY <3>1 DEF HooksIn
    <3> QED
      BY <3>2 DEF HooksIn
  <2>4. OwnGroups(h)
    <3>1. ASSUME NEW g \in groups, IsAvoreloHook(g) PROVE g \in settings.hooks[e]
      <4>1. ~(f \in g)
        BY <2>1, <3>1 DEF IsAvoreloHook
      <4> QED
        BY <1>4, <4>1
    <3> QED
      BY <1>5, <2>2, <3>1 DEF OwnGroups
  <2> QED
    BY <1>2, <2>2, <2>3, <2>4
<1>9. spoilt \subseteq spoilt' /\ wanted' \subseteq Events \X Foreign /\ op' # "delete"
  <2>1. wanted \subseteq Events \X Foreign /\ <<e, f>> \in Events \X Foreign
    BY HooksNow
  <2> QED
    BY <1>2, <2>1
<1>10. UNCHANGED backups
  BY <1>2
<1> QED
  BY <1>7, <1>8, <1>9, <1>10, SettingsReplaced

(* The user removes all hooks of an event.                                 *)
LEMMA RemoveKeeps == ASSUME HookInv, NEW e \in Events, RemoveHooks(e) PROVE HookInv'
<1>1. PICK h : h = [settings.hooks EXCEPT ![e] = {}]
  OBVIOUS
<1>2. /\ settings' = Json(h) /\ backups' = backups /\ op' = op /\ op = "idle"
      /\ wanted' = {w \in wanted : w[1] # e} /\ spoilt' = spoilt
  BY <1>1 DEF RemoveHooks, Edits
<1>3. h \in HookMaps /\ \A d \in Events : h[d] = IF d = e THEN {} ELSE settings.hooks[d]
  BY <1>1, HooksNow DEF HookMaps
<1>4. PICK s : s = Json(h)
  OBVIOUS
<1>5. s \in SettingsFiles /\ s.hooks = h /\ settings' = s
  BY <1>2, <1>3, <1>4, JsonFile
<1>6. HooksIn(h) = {w \in HooksIn(settings.hooks) : w[1] # e}
  BY <1>3 DEF HooksIn
<1>7. OwnGroups(settings.hooks) => OwnGroups(h)
  BY <1>3 DEF OwnGroups
<1> QED
  BY <1>2, <1>5, <1>6, <1>7, HooksNow, SettingsReplaced

(* Every step keeps the invariant of the hooks.                            *)
LEMMA NextHooks == ASSUME HookInv, [Next]_vars PROVE HookInv'
<1>1. CASE BackUpSettings
  BY <1>1, BackUpKeeps
<1>2. CASE WriteHooks
  BY <1>2, WriteKeeps
<1>3. CASE RestoreSettings
  BY <1>3, RestoreKeeps
<1>4. CASE StripHooks
  BY <1>4, StripKeeps
<1>5. CASE Kill
  BY <1>5, KillKeeps
<1>13. CASE KillFirstWrite
  <2>1. /\ op' = "idle" /\ UNCHANGED <<settings, backups, wanted>> /\ spoilt \subseteq spoilt'
    BY <1>13 DEF KillFirstWrite, Starts, ByTheUser, KilledIn
  <2> QED
    BY <2>1, HooksUndisturbed
<1>6. ASSUME NEW e \in Events, NEW f \in Foreign,
             NEW groups \in OwnGroup(e, f) \union JoinGroup(e, f), AddHook(e, f, groups)
      PROVE  HookInv'
  BY <1>6, AddHookKeeps
<1>7. ASSUME NEW e \in Events, RemoveHooks(e) PROVE HookInv'
  BY <1>7, RemoveKeeps
<1>8. CASE DeleteAvorelo
  <2>1. /\ backups' = <<>> /\ op' = "idle" /\ UNCHANGED <<settings, wanted, spoilt>>
    BY <1>8 DEF DeleteAvorelo, Continues, ByTheUser
  <2>2. backups' \in Seq(SettingsFiles) /\ BackupsPristine'
    BY <2>1 DEF BackupsPristine
  <2> QED
    BY <2>1, <2>2
            DEF HookInv, HooksTyped, SettingsFiles, HookMaps, UninstallLeavesNone, ForeignHooksKept, ForeignHooks, OwnGroups,
                IsAvoreloHook, Avorelo
<1>9. CASE \/ \E passed \in Hosts : Activate(passed)
           \/ RunSafeRepairs \/ InstallRunEntry \/ PersistActivation
           \/ \E o \in Objectives : StartSession(o)
           \/ ApplyCorrection \/ RemoveGuidance
  BY <1>9, HooksUndisturbed
     DEF Activate, RunSafeRepairs, InstallRunEntry, PersistActivation, StartSession,
         ApplyCorrection, RemoveGuidance, Starts, Continues, ByTheUser
<1>10. CASE \/ \E reset \in BOOLEAN : StartInit(reset)
            \/ InitWorkspace \/ WriteContract \/ EnsureSettings
            \/ ShowSettings \/ ResetSettings
  BY <1>10, HooksUndisturbed
     DEF StartInit, InitWorkspace, WriteContract, EnsureSettings, ShowSettings, ResetSettings,
         Starts, Continues, ByTheUser
<1>11. CASE \/ \E t \in Pieces, i \in 0..Len(doc) : WriteText(t, i)
            \/ \E i \in DOMAIN doc : CutMarker(i)
  BY <1>11, HooksUndisturbed DEF WriteText, CutMarker, Edits, Spoil
<1>12. CASE UNCHANGED vars
  BY <1>12, HooksUndisturbed DEF vars
<1> QED
  BY <1>1, <1>2, <1>3, <1>4, <1>5, <1>6, <1>7, <1>8, <1>9, <1>10, <1>11, <1>12, <1>13 DEF Next

(* HookInv is an invariant of every sequence of commands, kills and edits. *)
THEOREM HooksInvariant == Spec => []HookInv
  BY InitHooks, NextHooks, PTL DEF Spec

(* uninstall leaves no Avorelo hook in settings that parse.                *)
THEOREM UninstallIsComplete == Spec => []UninstallLeavesNone
  BY HooksInvariant, PTL DEF HookInv

(* The user's hooks survive activations, sessions and uninstalls, up to    *)
(* the named accidents.                                                    *)
THEOREM ForeignHooksSurvive == Spec => []ForeignHooksKept
  BY HooksInvariant, PTL DEF HookInv
-----------------------------------------------------------------------------
(* The identity of the workspace.                                          *)

(* The inductive invariant of the identity: from the moment the workspace  *)
(* is written to the end of the command, contract and settings are made    *)
(* from it, and a reset has made the earlier id void before it writes.     *)
IdentityInv ==
    /\ workspace \in Workspaces(Nat) /\ contract \in Workspaces(Nat)
    /\ runs \in Nat /\ named \in Nat
    /\ op = "reset" => named = Unknown
    /\ op \in {"contract", "prefs"} => Loaded(workspace)
    /\ op = "prefs" => contract = WorkspaceRecord(workspace.id)
    /\ named # Unknown =>
         /\ workspace = WorkspaceRecord(named)
         /\ Loaded(contract) => contract.id = named

(* A workspace file that parses is its id.                                 *)
LEMMA LoadedFile ==
    /\ ~Loaded(NoFile) /\ ~Loaded(TornFile)
    /\ NoFile \in Workspaces(Nat) /\ TornFile \in Workspaces(Nat)
    /\ \A n \in Nat : /\ WorkspaceRecord(n) \in Workspaces(Nat)
                      /\ Loaded(WorkspaceRecord(n)) /\ WorkspaceRecord(n).id = n
    /\ \A w \in Workspaces(Nat) : Loaded(w) => w.id \in Nat /\ w = WorkspaceRecord(w.id)
<1>1. ~Loaded(NoFile) /\ ~Loaded(TornFile)
  BY DEF Loaded, NoFile, TornFile
<1>2. NoFile \in Workspaces(Nat) /\ TornFile \in Workspaces(Nat)
  BY DEF Workspaces
<1>3. ASSUME NEW n \in Nat
      PROVE  /\ WorkspaceRecord(n) \in Workspaces(Nat)
             /\ Loaded(WorkspaceRecord(n)) /\ WorkspaceRecord(n).id = n
  BY DEF Workspaces, WorkspaceRecord, Loaded
<1>4. ASSUME NEW w \in Workspaces(Nat), Loaded(w)
      PROVE  w.id \in Nat /\ w = WorkspaceRecord(w.id)
  <2>1. w \in [kind : {"whole"}, id : Nat]
    BY <1>1, <1>4 DEF Workspaces
  <2> QED
    BY <2>1 DEF WorkspaceRecord
<1> QED
  BY <1>1, <1>2, <1>3, <1>4

(* What touches neither file nor leads into `init' keeps the invariant; so *)
(* does taking the shown id back.                                          *)
LEMMA IdentityUndisturbed ==
    ASSUME IdentityInv, UNCHANGED <<workspace, contract>>, runs' \in Nat,
           named' \in {named, Unknown},
           op' \notin {"reset", "contract", "prefs"} \/ (op' = "reset" /\ named' = Unknown)
    PROVE  IdentityInv'
<1>1. named' \in Nat
  BY DEF IdentityInv, Unknown
<1> QED
  BY <1>1 DEF IdentityInv, Loaded, WorkspaceRecord, Unknown

(* A killed command leaves workspace and contract as they were or not      *)
(* parsing; without a workspace that parses, no id is claimed.             *)
LEMMA KillKeepsIdentity == ASSUME IdentityInv, Kill PROVE IdentityInv'
<1>1. /\ op' = "idle" /\ runs' = runs
      /\ workspace' \in {workspace, TornFile, NoFile}
      /\ contract' \in {contract, TornFile, NoFile}
      /\ named' = IF Loaded(workspace') THEN named ELSE Unknown
  BY DEF Kill, Torn, Gone
<1>2. workspace' \in Workspaces(Nat) /\ contract' \in Workspaces(Nat) /\ named' \in Nat
  BY <1>1, LoadedFile DEF IdentityInv, Unknown
<1>3. named' # Unknown => workspace' = workspace /\ named' = named
  BY <1>1, LoadedFile
<1>4. Loaded(contract') => contract' = contract
  BY <1>1, LoadedFile
<1>5. ASSUME named' # Unknown
      PROVE  /\ workspace' = WorkspaceRecord(named')
             /\ Loaded(contract') => contract'.id = named'
  BY <1>3, <1>4, <1>5 DEF IdentityInv
<1> QED
  BY <1>1, <1>2, <1>5 DEF IdentityInv, Loaded, WorkspaceRecord, Unknown

(* init keeps the id of a workspace that parses, unless it was reset.      *)
LEMMA InitWorkspaceKeeps == ASSUME IdentityInv, InitWorkspace PROVE IdentityInv'
<1>1. PICK step \in {"init", "reset"} :
        /\ op = step /\ op' = "contract"
        /\ workspace' = WorkspaceRecord(WorkspaceId(workspace, step = "reset", runs))
  BY DEF InitWorkspace, Continues
<1>2. UNCHANGED <<contract, named, runs>>
  BY DEF InitWorkspace, Continues
<1>3. PICK n : n = WorkspaceId(workspace, step = "reset", runs)
  OBVIOUS
<1>4. n \in Nat
  BY <1>3, LoadedFile DEF WorkspaceId, IdentityInv
<1>5. workspace' = WorkspaceRecord(n)
  BY <1>1, <1>3
<1>6. named # Unknown => n = named
  <2>1. SUFFICES ASSUME named # Unknown PROVE n = named
    OBVIOUS
  <2>2. step = "init" /\ workspace = WorkspaceRecord(named) /\ named \in Nat
    BY <1>1, <2>1 DEF IdentityInv
  <2> QED
    BY <1>3, <2>2, LoadedFile DEF WorkspaceId
<1>7. workspace' \in Workspaces(Nat) /\ Loaded(workspace')
  BY <1>4, <1>5, LoadedFile
<1> QED
  BY <1>1, <1>2, <1>5, <1>6, <1>7 DEF IdentityInv, Loaded, WorkspaceRecord, Unknown

(* The contract names the workspace that is on disk.                       *)
LEMMA WriteContractKeeps == ASSUME IdentityInv, WriteContract PROVE IdentityInv'
<1>1. /\ op = "contract" /\ op' = "prefs" /\ UNCHANGED <<workspace, named, runs>>
      /\ contract' = WorkspaceRecord(buildActivationContract(workspace).workspaceId)
  BY DEF WriteContract, Continues
<1>2. Loaded(workspace) /\ workspace \in Workspaces(Nat)
  BY <1>1 DEF IdentityInv
<1>3. buildActivationContract(workspace).workspaceId = workspace.id
  BY <1>2 DEF buildActivationContract
<1>4. workspace.id \in Nat /\ workspace = WorkspaceRecord(workspace.id)
  BY <1>2, LoadedFile
<1>5. contract' = WorkspaceRecord(workspace.id)
  BY <1>1, <1>3
<1>6. contract' \in Workspaces(Nat) /\ contract'.id = workspace.id
  BY <1>4, <1>5, LoadedFile
<1>7. named # Unknown => workspace.id = named
  <2>1. SUFFICES ASSUME named # Unknown PROVE workspace.id = named
    OBVIOUS
  <2>2. workspace = WorkspaceRecord(named) /\ named \in Nat
    BY <2>1 DEF IdentityInv
  <2> QED
    BY <2>2, LoadedFile
<1>8. contract' = WorkspaceRecord(workspace'.id) /\ Loaded(workspace')
  BY <1>1, <1>2, <1>5 DEF Loaded
<1> QED
  BY <1>1, <1>2, <1>6, <1>7, <1>8 DEF IdentityInv, WorkspaceRecord, Unknown

(* init shows the id that workspace and contract have.                     *)
LEMMA EnsureSettingsKeeps == ASSUME IdentityInv, EnsureSettings PROVE IdentityInv'
<1>1. /\ op = "prefs" /\ op' = "idle" /\ named' = workspace.id
      /\ UNCHANGED <<workspace, contract, runs>>
  BY DEF EnsureSettings, Continues
<1>2. workspace.id \in Nat /\ workspace = WorkspaceRecord(workspace.id)
  BY <1>1, LoadedFile DEF IdentityInv
<1>3. contract = WorkspaceRecord(workspace.id) /\ contract.id = workspace.id
  BY <1>1, <1>2, LoadedFile DEF IdentityInv
<1>4. workspace' = WorkspaceRecord(named') /\ contract'.id = named' /\ named' \in Nat
  BY <1>1, <1>2, <1>3 DEF WorkspaceRecord
<1> QED
  BY <1>1, <1>4 DEF IdentityInv, Loaded, WorkspaceRecord, Unknown

(* Every step keeps the identity.                                          *)
LEMMA NextIdentity == ASSUME IdentityInv, [Next]_vars PROVE IdentityInv'
<1>0. runs \in Nat /\ runs + 1 \in Nat
  BY DEF IdentityInv
<1>1. CASE InitWorkspace
  BY <1>1, InitWorkspaceKeeps
<1>2. CASE WriteContract
  BY <1>2, WriteContractKeeps
<1>3. CASE EnsureSettings
  BY <1>3, EnsureSettingsKeeps
<1>4. CASE Kill
  BY <1>4, KillKeepsIdentity
<1>5. CASE DeleteAvorelo
  <2>1. /\ op' = "idle" /\ workspace' = NoFile /\ contract' = NoFile
        /\ named' = Unknown /\ runs' = runs
    BY <1>5 DEF DeleteAvorelo, Continues
  <2> QED
    BY <2>1, <1>0, LoadedFile DEF IdentityInv, Unknown
<1>6. ASSUME NEW reset \in BOOLEAN, StartInit(reset) PROVE IdentityInv'
  <2>1. /\ runs' = runs + 1 /\ UNCHANGED <<workspace, contract>>
        /\ op' = IF reset THEN "reset" ELSE "init"
        /\ named' = IF reset THEN Unknown ELSE named
    BY <1>6 DEF StartInit, Starts
  <2> QED
    BY <2>1, <1>0, IdentityUndisturbed
<1>7. CASE \/ BackUpSettings \/ (\E passed \in Hosts : Activate(passed))
           \/ (\E o \in Objectives : StartSession(o)) \/ ApplyCorrection
           \/ RemoveGuidance \/ ShowSettings \/ ResetSettings \/ KillFirstWrite
  <2>1. /\ runs' = runs + 1 /\ UNCHANGED <<workspace, contract, named>>
        /\ op' \in {"hooks", "repair", "idle", "restore"}
    BY <1>7 DEF BackUpSettings, Activate, StartSession, ApplyCorrection, RemoveGuidance,
                ShowSettings, ResetSettings, KillFirstWrite, Starts, local
  <2> QED
    BY <2>1, <1>0, IdentityUndisturbed
<1>8. CASE \/ WriteHooks \/ RunSafeRepairs \/ InstallRunEntry \/ PersistActivation
           \/ RestoreSettings \/ StripHooks
  <2>1. /\ runs' = runs /\ UNCHANGED <<workspace, contract, named>>
        /\ op' \in {"repair", "entry", "record", "idle", "strip", "delete"}
    BY <1>8 DEF WriteHooks, RunSafeRepairs, InstallRunEntry, PersistActivation,
                RestoreSettings, StripHooks, Continues, local
  <2> QED
    BY <2>1, <1>0, IdentityUndisturbed
<1>9. CASE \/ \E e \in Events, f \in Foreign :
                \E groups \in OwnGroup(e, f) \union JoinGroup(e, f) : AddHook(e, f, groups)
           \/ \E e \in Events : RemoveHooks(e)
           \/ \E t \in Pieces, i \in 0..Len(doc) : WriteText(t, i)
           \/ \E i \in DOMAIN doc : CutMarker(i)
  <2>1. /\ op' = "idle" /\ UNCHANGED <<runs, workspace, contract, named>>
    BY <1>9 DEF AddHook, RemoveHooks, WriteText, CutMarker, Edits, local
  <2> QED
    BY <2>1, <1>0, IdentityUndisturbed
<1>10. CASE UNCHANGED vars
  BY <1>10 DEF vars, local, IdentityInv, Loaded, WorkspaceRecord, Unknown
<1> QED
  BY <1>1, <1>2, <1>3, <1>4, <1>5, <1>6, <1>7, <1>8, <1>9, <1>10 DEF Next

(* IdentityInv is an invariant.                                            *)
THEOREM IdentityInvariant == Spec => []IdentityInv
<1>1. Init => IdentityInv
  <2>1. SUFFICES ASSUME Init PROVE IdentityInv
    OBVIOUS
  <2>2. workspace = NoFile /\ contract = NoFile /\ named = Unknown /\ runs = 0 /\ op = "idle"
    BY <2>1 DEF Init
  <2> QED
    BY <2>2, LoadedFile DEF IdentityInv, Unknown
<1> QED
  BY <1>1, NextIdentity, PTL DEF Spec

(* The id that a finished init has shown stays the workspace's until a     *)
(* reset, an uninstall or a kill that tears the file, and the contract,    *)
(* status and dogfood-check agree on it (init.ts: "Idempotent").           *)
THEOREM IdentityStays == Spec => []IdentityKept
<1>1. ASSUME IdentityInv PROVE IdentityKept
  <2>1. SUFFICES ASSUME named # Unknown
                 PROVE  /\ workspace = WorkspaceRecord(named)
                        /\ Loaded(contract) => contract.id = named
                        /\ cmdStatus(workspace, record) # "not initialized"
                        /\ buildDogfoodCheck(workspace, FALSE, 0).safeNextStep
                             = buildActivationContract(workspace).firstRunRecommended
    BY DEF IdentityKept
  <2>2. /\ workspace = WorkspaceRecord(named) /\ named \in Nat
        /\ Loaded(contract) => contract.id = named
    BY <1>1, <2>1 DEF IdentityInv
  <2>3. Loaded(workspace)
    BY <2>2, LoadedFile
  <2>4. cmdStatus(workspace, record) # "not initialized"
    BY <2>3 DEF cmdStatus
  <2>5. buildDogfoodCheck(workspace, FALSE, 0).safeNextStep = "run"
    BY <2>3 DEF buildDogfoodCheck
  <2>6. buildActivationContract(workspace).firstRunRecommended = "run"
    BY <2>3 DEF buildActivationContract
  <2> QED
    BY <2>2, <2>4, <2>5, <2>6
<1> QED
  BY <1>1, IdentityInvariant, PTL
-----------------------------------------------------------------------------
(* The user's text.                                                        *)

BlockNames == {"guidance", "run-entry", "correction"}
Bodies == Objectives \union {"entry", "correction"}
Parts == ({"user"} \X Pieces) \union ({"begin", "end"} \X BlockNames)
         \union ({"body"} \X Bodies) \union {Wide, Narrow, None}

(* Every block stands whole, and once: its markers around one body.        *)
Whole(d) ==
    /\ \A i \in 1..Len(d) : d[i][1] = "begin" =>
         i + 2 \in 1..Len(d) /\ d[i + 1][1] = "body" /\ d[i + 2] = End(d[i][2])
    /\ \A i \in 1..Len(d) : d[i][1] = "end" =>
         i - 2 \in 1..Len(d) /\ d[i - 2] = Begin(d[i][2])
    /\ \A i, j \in 1..Len(d) : d[i][1] = "begin" /\ d[i] = d[j] => i = j

(* UserTextIntact is not inductive: the updates find the end of a block by *)
(* its marker, so that the blocks must be whole.                           *)
TextInv ==
    /\ doc \in Seq(Parts)
    /\ spoilt \intersect {"cut marker", "torn text"} = {} => Whole(doc) /\ UserText(doc) = text

(* A part is a kind with what it says.                                     *)
LEMMA PartKinds ==
    /\ \A t : Piece(t)[1] = "user" /\ \A b : Begin(b)[1] = "begin" /\ Begin(b)[2] = b
    /\ \A b : End(b)[1] = "end" /\ End(b)[2] = b
    /\ \A p \in Parts : p = <<p[1], p[2]>> /\ p[1] \in {"user", "gap", "begin", "body", "end"}
    /\ \A p \in Parts : /\ p[1] = "begin" => p = Begin(p[2]) /\ p[2] \in BlockNames
                        /\ p[1] = "end" => p = End(p[2]) /\ p[2] \in BlockNames
  BY DEF Piece, Begin, End, Parts, Wide, Narrow, None

(* What stands after a place.                                              *)
LEMMA RestShape ==
    ASSUME NEW S, NEW d \in Seq(S), NEW z \in 0..Len(d)
    PROVE  LET r == SubSeq(d, z + 1, Len(d))
           IN /\ r \in Seq(S) /\ Len(r) = Len(d) - z
              /\ \A i \in 1..(Len(d) - z) : r[i] = d[z + i]
<1> DEFINE r == SubSeq(d, z + 1, Len(d))
<1>1. Len(d) \in Nat /\ z \in Nat /\ z <= Len(d) /\ \A i \in 1..Len(d) : d[i] \in S
  OBVIOUS
<1>2. \A i \in (z + 1)..Len(d) : d[i] \in S
  BY <1>1
<1>3. z + 1 \in Int /\ Len(d) \in Int
  BY <1>1
<1>4. /\ r \in Seq(S) /\ Len(r) = IF z + 1 <= Len(d) THEN Len(d) - (z + 1) + 1 ELSE 0
      /\ \A i \in 1..(Len(d) - (z + 1) + 1) : r[i] = d[z + 1 + i - 1]
  BY <1>2, <1>3, SubSeqProperties
<1> HIDE DEF r
<1>5. Len(r) = Len(d) - z
  BY <1>1, <1>4
<1>6. ASSUME NEW i \in 1..(Len(d) - z) PROVE r[i] = d[z + i]
  <2>1. i \in 1..(Len(d) - (z + 1) + 1) /\ z + 1 + i - 1 = z + i
    BY <1>1
  <2> QED BY <1>4, <2>1
<1> QED BY <1>4, <1>5, <1>6 DEF r

(* What is left of a text without the parts after a and up to z.           *)
LEMMA CutShape ==
    ASSUME NEW S, NEW d \in Seq(S), NEW a \in 0..Len(d), NEW z \in 0..Len(d)
    PROVE  LET e == SubSeq(d, 1, a) \o SubSeq(d, z + 1, Len(d))
           IN /\ e \in Seq(S) /\ Len(e) = a + Len(d) - z
              /\ \A i \in 1..Len(e) : e[i] = IF i <= a THEN d[i] ELSE d[i - a + z]
<1> DEFINE l == SubSeq(d, 1, a)
           r == SubSeq(d, z + 1, Len(d))
           e == l \o r
<1>1. Len(d) \in Nat /\ \A i \in 1..Len(d) : d[i] \in S
  OBVIOUS
<1>2. l \in Seq(S) /\ Len(l) = a /\ \A i \in 1..a : l[i] = d[i]
  <2>1. \A i \in 1..a : d[i] \in S
    BY <1>1
  <2> QED BY <1>1, <2>1, SubSeqProperties
<1>3. r \in Seq(S) /\ Len(r) = Len(d) - z /\ \A i \in 1..(Len(d) - z) : r[i] = d[z + i]
  BY RestShape
<1> HIDE DEF l, r
<1>4. /\ e \in Seq(S) /\ Len(e) = Len(l) + Len(r)
      /\ \A i \in 1..(Len(l) + Len(r)) : e[i] = IF i <= Len(l) THEN l[i] ELSE r[i - Len(l)]
  BY <1>2, <1>3, ConcatProperties
<1> HIDE DEF e
<1>5. Len(e) = a + Len(d) - z
  BY <1>1, <1>2, <1>3, <1>4
<1>6. ASSUME NEW i \in 1..Len(e) PROVE e[i] = IF i <= a THEN d[i] ELSE d[i - a + z]
  <2>1. CASE i <= a
    BY <1>2, <1>4, <1>5, <2>1
  <2>2. CASE ~(i <= a)
    <3>1. i - a \in 1..(Len(d) - z) /\ z + (i - a) = i - a + z
      BY <1>1, <1>5, <2>2
    <3>2. e[i] = r[i - a]
      BY <1>2, <1>3, <1>4, <1>5, <2>2
    <3> QED BY <1>3, <2>2, <3>1, <3>2
  <2> QED BY <2>1, <2>2
<1> QED BY <1>4, <1>5, <1>6 DEF e, l, r

(* What is made of a text by putting parts in their place.                 *)
LEMMA SpliceShape ==
    ASSUME NEW S, NEW d \in Seq(S), NEW a \in 0..Len(d), NEW z \in 0..Len(d), NEW m \in Seq(S)
    PROVE  LET e == SubSeq(d, 1, a) \o m \o SubSeq(d, z + 1, Len(d))
           IN /\ e \in Seq(S) /\ Len(e) = a + Len(m) + Len(d) - z
              /\ \A i \in 1..Len(e) :
                   e[i] = IF i <= a THEN d[i]
                          ELSE IF i <= a + Len(m) THEN m[i - a] ELSE d[i - a - Len(m) + z]
<1> DEFINE l == SubSeq(d, 1, a)
           r == SubSeq(d, z + 1, Len(d))
           c == l \o m
           e == c \o r
<1>1. Len(d) \in Nat /\ Len(m) \in Nat /\ \A i \in 1..Len(d) : d[i] \in S
  OBVIOUS
<1>2. l \in Seq(S) /\ Len(l) = a /\ \A i \in 1..a : l[i] = d[i]
  <2>1. \A i \in 1..a : d[i] \in S
    BY <1>1
  <2> QED BY <1>1, <2>1, SubSeqProperties
<1>3. r \in Seq(S) /\ Len(r) = Len(d) - z /\ \A i \in 1..(Len(d) - z) : r[i] = d[z + i]
  BY RestShape
<1> HIDE DEF l, r
<1>4. /\ c \in Seq(S) /\ Len(c) = Len(l) + Len(m)
      /\ \A i \in 1..(Len(l) + Len(m)) : c[i] = IF i <= Len(l) THEN l[i] ELSE m[i - Len(l)]
  BY <1>2, ConcatProperties
<1> HIDE DEF c
<1>5. /\ e \in Seq(S) /\ Len(e) = Len(c) + Len(r)
      /\ \A i \in 1..(Len(c) + Len(r)) : e[i] = IF i <= Len(c) THEN c[i] ELSE r[i - Len(c)]
  <2>1. c \in Seq(S) /\ r \in Seq(S)
    BY <1>3, <1>4
  <2> QED BY <2>1, ConcatProperties
<1> HIDE DEF e
<1>6. Len(e) = a + Len(m) + Len(d) - z
  BY <1>1, <1>2, <1>3, <1>4, <1>5
<1>7. ASSUME NEW i \in 1..Len(e)
      PROVE  e[i] = IF i <= a THEN d[i]
                    ELSE IF i <= a + Len(m) THEN m[i - a] ELSE d[i - a - Len(m) + z]
  <2>1. CASE i <= a
    <3>1. i <= Len(c) /\ i \in 1..(Len(c) + Len(r)) /\ i \in 1..(Len(l) + Len(m)) /\ i \in 1..a
      BY <1>1, <1>2, <1>4, <1>5, <2>1
    <3>2. e[i] = c[i] /\ c[i] = l[i] /\ l[i] = d[i]
      BY <1>2, <1>4, <1>5, <3>1
    <3> QED BY <2>1, <3>2
  <2>2. CASE ~(i <= a) /\ i <= a + Len(m)
    <3>1. i <= Len(c) /\ i \in 1..(Len(c) + Len(r)) /\ i \in 1..(Len(l) + Len(m)) /\ ~(i <= Len(l))
      BY <1>1, <1>2, <1>4, <1>5, <2>2
    <3>2. e[i] = c[i] /\ c[i] = m[i - a]
      BY <1>2, <1>4, <1>5, <3>1
    <3> QED BY <2>2, <3>2
  <2>3. CASE ~(i <= a) /\ ~(i <= a + Len(m))
    <3>1. /\ ~(i <= Len(c)) /\ i \in 1..(Len(c) + Len(r)) /\ Len(c) = a + Len(m)
          /\ i - Len(c) \in 1..(Len(d) - z) /\ z + (i - Len(c)) = i - a - Len(m) + z
      BY <1>1, <1>2, <1>3, <1>4, <1>5, <1>6, <2>3
    <3>2. e[i] = r[i - Len(c)] /\ r[i - Len(c)] = d[z + (i - Len(c))]
      BY <1>3, <1>5, <3>1
    <3> QED BY <2>3, <3>1, <3>2
  <2> QED BY <2>1, <2>2, <2>3
<1> QED BY <1>5, <1>6, <1>7 DEF e, c, l, r

(* Pieces that are found again in a text, in their order, are part of its  *)
(* user's text.                                                            *)
LEMMA TextWithin ==
    ASSUME NEW d \in Seq(Parts), NEW e \in Seq(Parts), NEW f,
           \A i \in 1..Len(d) : d[i][1] = "user" => f[i] \in 1..Len(e) /\ e[f[i]] = d[i],
           \A i, j \in 1..Len(d) : d[i][1] = "user" /\ d[j][1] = "user" /\ i < j => f[i] < f[j]
    PROVE  /\ UserText(d).pieces \subseteq UserText(e).pieces
           /\ UserText(d).before \subseteq UserText(e).before
<1> DEFINE P(s) == {s[i] : i \in {j \in DOMAIN s : s[j][1] = "user"}}
           B(s) == {w \in P(s) \X P(s) : \E i, j \in DOMAIN s : i < j /\ w = <<s[i], s[j]>>}
<1>1. DOMAIN d = 1..Len(d) /\ DOMAIN e = 1..Len(e)
  OBVIOUS
<1>2. \A s : UserText(s).pieces = P(s) /\ UserText(s).before = B(s)
  BY DEF UserText
<1>3. P(d) \subseteq P(e)
  BY <1>1
<1>4. ASSUME NEW w \in B(d) PROVE w \in B(e)
  <2>1. PICK i \in 1..Len(d), j \in 1..Len(d) : i < j /\ w = <<d[i], d[j]>>
    BY <1>1
  <2>2. d[i] \in P(d) /\ d[j] \in P(d)
    BY <2>1
  <2>3. d[i][1] = "user" /\ d[j][1] = "user"
    BY <2>2
  <2>4. f[i] \in DOMAIN e /\ f[j] \in DOMAIN e /\ f[i] < f[j] /\ w = <<e[f[i]], e[f[j]]>>
    BY <1>1, <2>1, <2>3
  <2>5. w \in P(e) \X P(e)
    BY <1>3, <2>1, <2>2
  <2> HIDE DEF P
  <2> QED BY <2>4, <2>5
<1> HIDE DEF P, B
<1> QED BY <1>2, <1>3, <1>4

(* The user's text is the same where the same pieces stand in one order.   *)
LEMMA SameText ==
    ASSUME NEW d \in Seq(Parts), NEW e \in Seq(Parts), NEW f, NEW g,
           \A i \in 1..Len(d) : d[i][1] = "user" => f[i] \in 1..Len(e) /\ e[f[i]] = d[i],
           \A i, j \in 1..Len(d) : d[i][1] = "user" /\ d[j][1] = "user" /\ i < j => f[i] < f[j],
           \A i \in 1..Len(e) : e[i][1] = "user" => g[i] \in 1..Len(d) /\ d[g[i]] = e[i],
           \A i, j \in 1..Len(e) : e[i][1] = "user" /\ e[j][1] = "user" /\ i < j => g[i] < g[j]
    PROVE  UserText(e) = UserText(d)
<1>1. /\ UserText(d).pieces \subseteq UserText(e).pieces
      /\ UserText(d).before \subseteq UserText(e).before
  BY TextWithin
<1>2. /\ UserText(e).pieces \subseteq UserText(d).pieces
      /\ UserText(e).before \subseteq UserText(d).before
  BY TextWithin
<1>3. \A s : UserText(s) = [pieces |-> UserText(s).pieces, before |-> UserText(s).before]
  BY DEF UserText
<1>4. UserText(e).pieces = UserText(d).pieces /\ UserText(e).before = UserText(d).before
  BY <1>1, <1>2
<1> QED BY <1>3, <1>4

(* A block is three parts.                                                 *)
LEMMA BlockShape ==
    ASSUME NEW b \in BlockNames, NEW body \in Bodies
    PROVE  LET m == Block(b, body)
           IN /\ m \in Seq(Parts) /\ Len(m) = 3
              /\ m[1] = Begin(b) /\ m[2][1] = "body" /\ m[3] = End(b)
<1>1. Begin(b) \in Parts /\ <<"body", body>> \in Parts /\ End(b) \in Parts
  BY DEF Begin, End, Parts, BlockNames
<1> QED BY <1>1 DEF Block

(* A block put at the end of the text.                                     *)
LEMMA Appended ==
    ASSUME NEW d \in Seq(Parts), NEW b \in BlockNames,
           NEW body \in Bodies
    PROVE  LET e == d \o Block(b, body)
           IN /\ e \in Seq(Parts)
              /\ Whole(d) /\ (\A i \in 1..Len(d) : d[i] # Begin(b)) =>
                   Whole(e) /\ UserText(e) = UserText(d)
<1> DEFINE m == Block(b, body)
           e == d \o m
<1>1. m \in Seq(Parts) /\ Len(m) = 3 /\ m[1] = Begin(b) /\ m[2][1] = "body" /\ m[3] = End(b)
  BY BlockShape
<1> HIDE DEF m
<1>2. /\ e \in Seq(Parts) /\ Len(e) = Len(d) + 3 /\ Len(d) \in Nat
      /\ \A i \in 1..(Len(d) + 3) : e[i] = IF i <= Len(d) THEN d[i] ELSE m[i - Len(d)]
  <2>1. m \in Seq(Parts) /\ Len(m) = 3 /\ Len(d) \in Nat
    BY <1>1
  <2>2. /\ e \in Seq(Parts) /\ Len(e) = Len(d) + Len(m)
        /\ \A i \in 1..(Len(d) + Len(m)) : e[i] = IF i <= Len(d) THEN d[i] ELSE m[i - Len(d)]
    BY <2>1, ConcatProperties
  <2> HIDE DEF e
  <2> QED BY <2>1, <2>2
<1> HIDE DEF e
<1>3. /\ \A i \in 1..Len(d) : e[i] = d[i] /\ i \in 1..Len(e)
      /\ e[Len(d) + 1] = Begin(b) /\ e[Len(d) + 2][1] = "body" /\ e[Len(d) + 3] = End(b)
      /\ \A i \in 1..Len(e) : i \in 1..Len(d) \/ i \in {Len(d) + 1, Len(d) + 2, Len(d) + 3}
  <2> DEFINE n == Len(d)
  <2> HIDE DEF n
  <2>1. /\ n \in Nat /\ Len(e) = n + 3
        /\ \A i \in 1..(n + 3) : e[i] = IF i <= n THEN d[i] ELSE m[i - n]
    BY <1>2 DEF n
  <2>2. \A i \in 1..n : e[i] = d[i] /\ i \in 1..Len(e)
    BY <2>1
  <2>3. e[n + 1] = m[1] /\ e[n + 2] = m[2] /\ e[n + 3] = m[3]
    <3>1. \A k \in {1, 2, 3} : n + k \in 1..(n + 3) /\ ~(n + k <= n) /\ n + k - n = k
      BY <2>1
    <3> QED BY <2>1, <3>1
  <2>4. \A i \in 1..Len(e) : i \in 1..n \/ i \in {n + 1, n + 2, n + 3}
    BY <2>1
  <2> QED BY <1>1, <2>2, <2>3, <2>4 DEF n
<1>4. Begin(b)[1] = "begin" /\ End(b)[1] = "end" /\ End(b)[2] = b /\ Begin(b)[2] = b
  BY PartKinds
<1>5. ASSUME Whole(d), \A i \in 1..Len(d) : d[i] # Begin(b)
      PROVE  Whole(e) /\ UserText(e) = UserText(d)
  <2>1. ASSUME NEW i \in 1..Len(e), e[i][1] = "begin"
        PROVE  i + 2 \in 1..Len(e) /\ e[i + 1][1] = "body" /\ e[i + 2] = End(e[i][2])
    <3>1. CASE i \in 1..Len(d)
      <4>1. i + 2 \in 1..Len(d) /\ d[i + 1][1] = "body" /\ d[i + 2] = End(d[i][2])
        BY <1>3, <1>5, <2>1, <3>1 DEF Whole
      <4>2. i + 1 \in 1..Len(d)
        BY <1>2, <4>1
      <4> QED BY <1>3, <3>1, <4>1, <4>2
    <3>2. CASE i \notin 1..Len(d)
      <4>1. i = Len(d) + 1
        BY <1>3, <1>4, <2>1, <3>2
      <4>2. i + 1 = Len(d) + 2 /\ i + 2 = Len(d) + 3 /\ i + 2 \in 1..Len(e)
        BY <1>2, <4>1
      <4> QED BY <1>3, <1>4, <4>1, <4>2
    <3> QED BY <3>1, <3>2
  <2>2. ASSUME NEW i \in 1..Len(e), e[i][1] = "end"
        PROVE  i - 2 \in 1..Len(e) /\ e[i - 2] = Begin(e[i][2])
    <3>1. CASE i \in 1..Len(d)
      <4>1. i - 2 \in 1..Len(d) /\ d[i - 2] = Begin(d[i][2])
        BY <1>3, <1>5, <2>2, <3>1 DEF Whole
      <4> QED BY <1>3, <3>1, <4>1
    <3>2. CASE i \notin 1..Len(d)
      <4>1. i = Len(d) + 3
        BY <1>3, <1>4, <2>2, <3>2
      <4>2. i - 2 = Len(d) + 1 /\ i - 2 \in 1..Len(e)
        BY <1>2, <4>1
      <4> QED BY <1>3, <1>4, <4>1, <4>2
    <3> QED BY <3>1, <3>2
  <2>3. ASSUME NEW i \in 1..Len(e), NEW j \in 1..Len(e), e[i][1] = "begin", e[i] = e[j]
        PROVE  i = j
    <3>1. CASE i \in 1..Len(d) /\ j \in 1..Len(d)
      BY <1>3, <1>5, <2>3, <3>1 DEF Whole
    <3>2. CASE i \notin 1..Len(d) /\ j \notin 1..Len(d)
      BY <1>3, <1>4, <2>3, <3>2
    <3>3. \A x \in 1..Len(d) : \A y \in 1..Len(e) \ 1..Len(d) :
             e[x] = e[y] /\ e[x][1] = "begin" => FALSE
      BY <1>3, <1>4, <1>5
    <3> QED BY <2>3, <3>1, <3>2, <3>3
  <2>4. Whole(e)
    BY <2>1, <2>2, <2>3 DEF Whole
  <2> DEFINE f == [i \in Nat |-> i]
  <2>5. /\ \A i \in 1..Len(d) : f[i] = i
        /\ \A i \in 1..Len(e) : f[i] = i
    OBVIOUS
  <2> HIDE DEF f
  <2>6. \A i \in 1..Len(e) : e[i][1] = "user" => i \in 1..Len(d)
    BY <1>3, <1>4
  <2>7. /\ \A i \in 1..Len(d) : d[i][1] = "user" => f[i] \in 1..Len(e) /\ e[f[i]] = d[i]
        /\ \A i, j \in 1..Len(d) : d[i][1] = "user" /\ d[j][1] = "user" /\ i < j => f[i] < f[j]
    BY <1>3, <2>5
  <2>8. /\ \A i \in 1..Len(e) : e[i][1] = "user" => f[i] \in 1..Len(d) /\ d[f[i]] = e[i]
        /\ \A i, j \in 1..Len(e) : e[i][1] = "user" /\ e[j][1] = "user" /\ i < j => f[i] < f[j]
    BY <1>3, <2>5, <2>6
  <2>9. UserText(e) = UserText(d)
    BY <1>2, <2>7, <2>8, SameText
  <2> QED BY <2>4, <2>9
<1> QED BY <1>2, <1>5 DEF e, m

(* A block written over the one that is there.                             *)
LEMMA Replaced ==
    ASSUME NEW d \in Seq(Parts), Whole(d), NEW b \in BlockNames, NEW body \in Bodies,
           NEW k \in 1..Len(d), d[k] = Begin(b)
    PROVE  LET e == Upto(d, k) \o Block(b, body) \o After(d, k + 2)
           IN e \in Seq(Parts) /\ Whole(e) /\ UserText(e) = UserText(d)
<1> DEFINE m == Block(b, body)
           e == SubSeq(d, 1, k - 1) \o m \o SubSeq(d, k + 2 + 1, Len(d))
<1>1. m \in Seq(Parts) /\ Len(m) = 3 /\ m[1] = Begin(b) /\ m[2][1] = "body" /\ m[3] = End(b)
  BY BlockShape
<1> HIDE DEF m
<1>2. Begin(b)[1] = "begin" /\ End(b)[1] = "end" /\ End(b)[2] = b /\ Begin(b)[2] = b
  BY PartKinds
<1>3. /\ k + 2 \in 1..Len(d) /\ d[k + 1][1] = "body" /\ d[k + 2] = End(b)
      /\ k - 1 \in 0..Len(d) /\ k + 2 \in 0..Len(d)
  BY <1>2 DEF Whole
<1>4. /\ e \in Seq(Parts) /\ Len(e) = k - 1 + Len(m) + Len(d) - (k + 2)
      /\ \A i \in 1..Len(e) :
           e[i] = IF i <= k - 1 THEN d[i]
                  ELSE IF i <= k - 1 + Len(m) THEN m[i - (k - 1)]
                  ELSE d[i - (k - 1) - Len(m) + (k + 2)]
  <2> DEFINE a == k - 1
             z == k + 2
             c == SubSeq(d, 1, a) \o m \o SubSeq(d, z + 1, Len(d))
  <2>1. a \in 0..Len(d) /\ z \in 0..Len(d)
    BY <1>3
  <2> HIDE DEF a, z
  <2>2. /\ c \in Seq(Parts) /\ Len(c) = a + Len(m) + Len(d) - z
        /\ \A i \in 1..Len(c) :
             c[i] = IF i <= a THEN d[i]
                    ELSE IF i <= a + Len(m) THEN m[i - a] ELSE d[i - a - Len(m) + z]
    <3>1. m \in Seq(Parts)
      BY <1>1
    <3> QED BY <2>1, <3>1, SpliceShape, Zenon
  <2> QED BY <2>2 DEF a, z
<1> HIDE DEF e
<1>5. Len(e) = Len(d) /\ Len(d) \in Nat
  BY <1>1, <1>4
<1>6. ASSUME NEW i \in 1..Len(d), i # k + 1 PROVE e[i] = d[i]
  <2>1. CASE i < k
    BY <1>4, <1>5, <2>1
  <2>2. CASE i = k
    <3>1. i - (k - 1) = 1 /\ ~(i <= k - 1) /\ i <= k - 1 + 3
      BY <2>2
    <3>2. e[i] = m[i - (k - 1)]
      BY <1>1, <1>4, <1>5, <3>1
    <3> QED BY <1>1, <2>2, <3>1, <3>2
  <2>3. CASE i = k + 2
    <3>1. i - (k - 1) = 3 /\ ~(i <= k - 1) /\ i <= k - 1 + 3
      BY <2>3
    <3>2. e[i] = m[i - (k - 1)]
      BY <1>1, <1>4, <1>5, <3>1
    <3> QED BY <1>1, <1>3, <2>3, <3>1, <3>2
  <2>4. CASE i > k + 2
    <3>1. i - (k - 1) - 3 + (k + 2) = i /\ ~(i <= k - 1) /\ ~(i <= k - 1 + 3)
      BY <2>4
    <3> QED BY <1>1, <1>4, <1>5, <3>1
  <2> QED BY <1>6, <2>1, <2>2, <2>3, <2>4
<1>7. e[k + 1][1] = "body"
  <2>1. (k + 1) - (k - 1) = 2 /\ ~(k + 1 <= k - 1) /\ k + 1 <= k - 1 + 3 /\ k + 1 \in 1..Len(e)
    BY <1>3, <1>5
  <2>2. e[k + 1] = m[(k + 1) - (k - 1)]
    BY <1>1, <1>4, <2>1
  <2> QED BY <1>1, <2>1, <2>2
<1>8. \A i \in 1..Len(d) : e[i][1] = d[i][1] /\ (e[i][1] # "body" => i # k + 1 /\ e[i] = d[i])
  BY <1>3, <1>6, <1>7
<1>9. Whole(e)
  <2>1. ASSUME NEW i \in 1..Len(e), e[i][1] = "begin"
        PROVE  i + 2 \in 1..Len(e) /\ e[i + 1][1] = "body" /\ e[i + 2] = End(e[i][2])
    <3>1. e[i] = d[i] /\ d[i][1] = "begin"
      BY <1>5, <1>8, <2>1
    <3>2. i + 2 \in 1..Len(d) /\ d[i + 1][1] = "body" /\ d[i + 2] = End(d[i][2])
      BY <1>5, <3>1 DEF Whole
    <3>3. i + 1 \in 1..Len(d)
      BY <1>5, <3>2
    <3>4. d[i + 2][1] = "end"
      BY <3>2, PartKinds
    <3> QED BY <1>5, <1>8, <3>1, <3>2, <3>3, <3>4
  <2>2. ASSUME NEW i \in 1..Len(e), e[i][1] = "end"
        PROVE  i - 2 \in 1..Len(e) /\ e[i - 2] = Begin(e[i][2])
    <3>1. e[i] = d[i] /\ d[i][1] = "end"
      BY <1>5, <1>8, <2>2
    <3>2. i - 2 \in 1..Len(d) /\ d[i - 2] = Begin(d[i][2])
      BY <1>5, <3>1 DEF Whole
    <3>3. d[i - 2][1] = "begin"
      BY <3>2, PartKinds
    <3> QED BY <1>5, <1>8, <3>1, <3>2, <3>3
  <2>3. ASSUME NEW i \in 1..Len(e), NEW j \in 1..Len(e), e[i][1] = "begin", e[i] = e[j]
        PROVE  i = j
    <3>1. e[i] = d[i] /\ e[j] = d[j] /\ d[i][1] = "begin"
      BY <1>5, <1>8, <2>3
    <3> QED BY <1>5, <2>3, <3>1 DEF Whole
  <2> QED BY <2>1, <2>2, <2>3 DEF Whole
<1> DEFINE f == [i \in Nat |-> i]
<1>10. \A i \in 1..Len(d) : f[i] = i
  OBVIOUS
<1> HIDE DEF f
<1>11. /\ \A i \in 1..Len(d) : d[i][1] = "user" => f[i] \in 1..Len(e) /\ e[f[i]] = d[i]
       /\ \A i, j \in 1..Len(d) : d[i][1] = "user" /\ d[j][1] = "user" /\ i < j => f[i] < f[j]
  BY <1>5, <1>8, <1>10
<1>12. /\ \A i \in 1..Len(e) : e[i][1] = "user" => f[i] \in 1..Len(d) /\ d[f[i]] = e[i]
       /\ \A i, j \in 1..Len(e) : e[i][1] = "user" /\ e[j][1] = "user" /\ i < j => f[i] < f[j]
  BY <1>5, <1>8, <1>10
<1>13. UserText(e) = UserText(d)
  BY <1>4, <1>11, <1>12, SameText
<1> QED BY <1>4, <1>9, <1>13 DEF e, m, Upto, After

(* A block taken out.                                                      *)
LEMMA Removed ==
    ASSUME NEW d \in Seq(Parts), Whole(d), NEW b \in BlockNames,
           NEW k \in 1..Len(d), d[k] = Begin(b)
    PROVE  LET e == Upto(d, k) \o After(d, k + 2)
           IN e \in Seq(Parts) /\ Whole(e) /\ UserText(e) = UserText(d)
<1> DEFINE e == SubSeq(d, 1, k - 1) \o SubSeq(d, k + 2 + 1, Len(d))
           up == [i \in Int |-> IF i < k THEN i ELSE i + 3]
           down == [i \in Int |-> IF i < k THEN i ELSE i - 3]
<1>2. Begin(b)[1] = "begin" /\ End(b)[1] = "end" /\ End(b)[2] = b /\ Begin(b)[2] = b
  BY PartKinds
<1>3. /\ k + 2 \in 1..Len(d) /\ d[k + 1][1] = "body" /\ d[k + 2] = End(b)
      /\ k - 1 \in 0..Len(d) /\ k + 2 \in 0..Len(d)
  BY <1>2 DEF Whole
<1>4. /\ e \in Seq(Parts) /\ Len(e) = k - 1 + Len(d) - (k + 2)
      /\ \A i \in 1..Len(e) : e[i] = IF i <= k - 1 THEN d[i] ELSE d[i - (k - 1) + (k + 2)]
  BY <1>3, CutShape
<1> HIDE DEF e
<1>5. Len(e) = Len(d) - 3 /\ Len(d) \in Nat /\ Len(e) \in Int
  BY <1>4
<1>6. /\ \A i \in Int : (i < k => up[i] = i) /\ (~(i < k) => up[i] = i + 3)
      /\ \A i \in Int : (i < k => down[i] = i) /\ (~(i < k) => down[i] = i - 3)
  OBVIOUS
<1> HIDE DEF up, down
<1>7. ASSUME NEW i \in 1..Len(e)
      PROVE  e[i] = d[up[i]] /\ up[i] \in 1..Len(d) /\ up[i] \notin {k, k + 1, k + 2}
  <2>1. CASE i < k
    <3>1. i <= k - 1 /\ i \in Int /\ i \in 1..Len(d) /\ i \notin {k, k + 1, k + 2}
      BY <1>5, <2>1
    <3>2. up[i] = i /\ e[i] = d[i]
      BY <1>4, <1>6, <2>1, <3>1
    <3> QED BY <3>1, <3>2
  <2>2. CASE ~(i < k)
    <3>1. /\ i - (k - 1) + (k + 2) = i + 3 /\ ~(i <= k - 1) /\ i \in Int
          /\ i + 3 \in 1..Len(d) /\ i + 3 \notin {k, k + 1, k + 2}
      BY <1>5, <2>2
    <3>2. up[i] = i + 3 /\ e[i] = d[i + 3]
      BY <1>4, <1>6, <2>2, <3>1
    <3> QED BY <3>1, <3>2
  <2> QED BY <2>1, <2>2
<1>8. ASSUME NEW i \in 1..Len(d), i \notin {k, k + 1, k + 2}
      PROVE  down[i] \in 1..Len(e) /\ up[down[i]] = i
  <2>1. CASE i < k
    <3>1. i \in Int /\ i \in 1..Len(e)
      BY <1>3, <1>5, <2>1
    <3>2. down[i] = i /\ up[i] = i
      BY <1>6, <2>1, <3>1
    <3> QED BY <3>1, <3>2
  <2>2. CASE i > k + 2
    <3>1. i - 3 \in 1..Len(e) /\ ~(i - 3 < k) /\ i - 3 + 3 = i /\ ~(i < k) /\ i - 3 \in Int /\ i \in Int
      BY <1>3, <1>5, <2>2
    <3>2. down[i] = i - 3 /\ up[i - 3] = i - 3 + 3
      BY <1>6, <3>1
    <3> QED BY <3>1, <3>2
  <2> QED BY <1>8, <2>1, <2>2
<1>14. Whole(e)
  <2>1. ASSUME NEW i \in 1..Len(e), e[i][1] = "begin"
        PROVE  i + 2 \in 1..Len(e) /\ e[i + 1][1] = "body" /\ e[i + 2] = End(e[i][2])
    <3>0. PICK u \in 1..Len(d) : u = up[i] /\ d[u] = e[i] /\ u \notin {k, k + 1, k + 2}
      BY <1>7
    <3>9. i \in Int /\ u \in Int /\ k \in Int /\ (i < k => u = i) /\ (~(i < k) => u = i + 3)
      <4>1. i \in Int /\ u \in Int /\ k \in Int
        BY <1>5
      <4>2. (i < k => up[i] = i) /\ (~(i < k) => up[i] = i + 3)
        BY <1>6, <4>1
      <4> QED BY <3>0, <4>1, <4>2
    <3>1. d[u][1] = "begin"
      BY <2>1, <3>0
    <3>2. u + 2 \in 1..Len(d) /\ d[u + 1][1] = "body" /\ d[u + 2] = End(e[i][2])
      BY <3>0, <3>1 DEF Whole
    <3>3. d[u + 2][1] = "end"
      BY <3>2, PartKinds
    <3>4. u + 1 # k /\ u + 2 # k
      BY <1>2, <3>2, <3>3
    <3>5. CASE i < k
      <4>1. u = i /\ i + 2 < k /\ i + 1 < k
        BY <3>4, <3>5, <3>9
      <4>2. i + 1 \in 1..Len(e) /\ i + 2 \in 1..Len(e)
        BY <1>3, <1>5, <4>1
      <4>3. e[i + 1] = d[i + 1] /\ e[i + 2] = d[i + 2]
        <5>1. up[i + 1] = i + 1 /\ up[i + 2] = i + 2
          BY <3>9, <4>1 DEF up
        <5> QED BY <1>7, <4>2, <5>1
      <4> QED BY <3>2, <4>1, <4>2, <4>3
    <3>6. CASE ~(i < k)
      <4>1. u = i + 3 /\ i + 1 + 3 = u + 1 /\ i + 2 + 3 = u + 2 /\ ~(i + 1 < k) /\ ~(i + 2 < k)
        BY <3>6, <3>9
      <4>2. i + 1 \in 1..Len(e) /\ i + 2 \in 1..Len(e)
        BY <1>5, <3>2, <3>9, <4>1
      <4>3. e[i + 1] = d[u + 1] /\ e[i + 2] = d[u + 2]
        <5>1. up[i + 1] = u + 1 /\ up[i + 2] = u + 2
          BY <3>9, <4>1 DEF up
        <5> QED BY <1>7, <4>2, <5>1
      <4> QED BY <3>2, <4>2, <4>3
    <3> QED BY <3>5, <3>6
  <2>2. ASSUME NEW i \in 1..Len(e), e[i][1] = "end"
        PROVE  i - 2 \in 1..Len(e) /\ e[i - 2] = Begin(e[i][2])
    <3>0. PICK u \in 1..Len(d) : u = up[i] /\ d[u] = e[i] /\ u \notin {k, k + 1, k + 2}
      BY <1>7
    <3>9. i \in Int /\ u \in Int /\ k \in Int /\ (i < k => u = i) /\ (~(i < k) => u = i + 3)
      <4>1. i \in Int /\ u \in Int /\ k \in Int
        BY <1>5
      <4>2. (i < k => up[i] = i) /\ (~(i < k) => up[i] = i + 3)
        BY <1>6, <4>1
      <4> QED BY <3>0, <4>1, <4>2
    <3>1. d[u][1] = "end"
      BY <2>2, <3>0
    <3>2. u - 2 \in 1..Len(d) /\ d[u - 2] = Begin(e[i][2])
      BY <3>0, <3>1 DEF Whole
    <3>3. d[u - 2][1] = "begin"
      BY <3>2, PartKinds
    <3>4. u - 2 # k + 1 /\ u - 2 # k + 2 /\ u - 2 # k
      BY <1>2, <1>3, <3>0, <3>3
    <3>5. CASE i < k
      <4>1. u = i /\ i - 2 < k
        BY <3>5, <3>9
      <4>2. i - 2 \in 1..Len(e)
        BY <1>3, <1>5, <3>2, <4>1
      <4>3. e[i - 2] = d[i - 2]
        <5>1. up[i - 2] = i - 2
          BY <3>9, <4>1 DEF up
        <5> QED BY <1>7, <4>2, <5>1
      <4> QED BY <3>2, <4>1, <4>2, <4>3
    <3>6. CASE ~(i < k)
      <4>1. u = i + 3 /\ i - 2 + 3 = u - 2 /\ ~(i - 2 < k)
        BY <3>4, <3>6, <3>9
      <4>2. i - 2 \in 1..Len(e)
        BY <1>3, <1>5, <4>1
      <4>3. e[i - 2] = d[u - 2]
        <5>1. up[i - 2] = u - 2
          BY <3>9, <4>1 DEF up
        <5> QED BY <1>7, <4>2, <5>1
      <4> QED BY <3>2, <4>2, <4>3
    <3> QED BY <3>5, <3>6
  <2>3. ASSUME NEW i \in 1..Len(e), NEW j \in 1..Len(e), e[i][1] = "begin", e[i] = e[j]
        PROVE  i = j
    <3>1. PICK u \in 1..Len(d) : u = up[i] /\ d[u] = e[i]
      BY <1>7
    <3>2. PICK v \in 1..Len(d) : v = up[j] /\ d[v] = e[j]
      BY <1>7
    <3>3. d[u][1] = "begin" /\ d[u] = d[v]
      BY <2>3, <3>1, <3>2
    <3>4. u = v
      BY <3>3 DEF Whole
    <3>5. i \in Int /\ j \in Int /\ k \in Int /\ u \in Int /\ up[i] = u /\ up[j] = u
      BY <1>5, <3>1, <3>2, <3>4
    <3>6. /\ (i < k => u = i) /\ (~(i < k) => u = i + 3)
          /\ (j < k => u = j) /\ (~(j < k) => u = j + 3)
      BY <1>6, <3>5
    <3>7. u \notin {k, k + 1, k + 2}
      BY <1>7, <3>5
    <3> QED BY <3>5, <3>6, <3>7
  <2> QED BY <2>1, <2>2, <2>3 DEF Whole
<1>9. \A i \in 1..Len(d) : d[i][1] = "user" => i \notin {k, k + 1, k + 2}
  BY <1>2, <1>3
<1>10. ASSUME NEW i \in Int, NEW j \in Int, i < j
       PROVE  /\ i \notin {k, k + 1, k + 2} /\ j \notin {k, k + 1, k + 2} => down[i] < down[j]
              /\ up[i] < up[j]
  <2>1. k \in Int
    BY <1>5
  <2>2. up[i] < up[j]
    BY <1>10, <2>1 DEF up
  <2>3. ASSUME i \notin {k, k + 1, k + 2}, j \notin {k, k + 1, k + 2} PROVE down[i] < down[j]
    BY <1>10, <2>1, <2>3 DEF down
  <2> QED BY <2>2, <2>3
<1>15. \A i \in 1..Len(d) : i \in Int
  BY <1>5
<1>16. \A i \in 1..Len(e) : i \in Int
  BY <1>5
<1>11. /\ \A i \in 1..Len(d) : d[i][1] = "user" => down[i] \in 1..Len(e) /\ e[down[i]] = d[i]
       /\ \A i, j \in 1..Len(d) : d[i][1] = "user" /\ d[j][1] = "user" /\ i < j => down[i] < down[j]
  <2>1. \A i \in 1..Len(d) : d[i][1] = "user" => down[i] \in 1..Len(e) /\ up[down[i]] = i
    BY <1>8, <1>9
  <2>2. \A i \in 1..Len(d) : d[i][1] = "user" => e[down[i]] = d[up[down[i]]]
    BY <1>7, <2>1
  <2>3. \A i, j \in 1..Len(d) : d[i][1] = "user" /\ d[j][1] = "user" /\ i < j => down[i] < down[j]
    BY <1>9, <1>10, <1>15
  <2> QED BY <2>1, <2>2, <2>3
<1>12. /\ \A i \in 1..Len(e) : e[i][1] = "user" => up[i] \in 1..Len(d) /\ d[up[i]] = e[i]
       /\ \A i, j \in 1..Len(e) : e[i][1] = "user" /\ e[j][1] = "user" /\ i < j => up[i] < up[j]
  BY <1>7, <1>10, <1>16
<1>13. UserText(e) = UserText(d)
  BY <1>4, <1>11, <1>12, SameText
<1> QED BY <1>4, <1>13, <1>14 DEF e, Upto, After


(* A part stands at some place, or its count is zero.                      *)
LEMMA Counted ==
    ASSUME NEW S, NEW d \in Seq(S), NEW p
    PROVE  /\ Count(d, p) \in Nat
           /\ Count(d, p) > 0 <=> \E i \in 1..Len(d) : d[i] = p
           /\ \A k \in 1..Len(d) :
                (\A i \in 1..Len(d) : d[i] = p => i = k) => Count(d, p) <= 1
<1> DEFINE at == {i \in 1..Len(d) : d[i] = p}
<1>1. Len(d) \in Nat /\ DOMAIN d = 1..Len(d) /\ 1 \in Int /\ Len(d) \in Int
  OBVIOUS
<1>2. Count(d, p) = Cardinality(at)
  BY <1>1 DEF Count
<1>3. IsFiniteSet(1..Len(d)) /\ at \in SUBSET (1..Len(d))
  BY <1>1, FS_Interval
<1>4. IsFiniteSet(at)
  BY <1>3, FS_Subset
<1>5. at = {} <=> ~\E i \in 1..Len(d) : d[i] = p
  OBVIOUS
<1>6. \A k \in 1..Len(d) : (\A i \in 1..Len(d) : d[i] = p => i = k) => at \in SUBSET {k}
  OBVIOUS
<1> HIDE DEF at
<1>7. Cardinality(at) \in Nat /\ (Cardinality(at) = 0 <=> at = {})
  BY <1>4, FS_CardinalityType, FS_EmptySet
<1>8. \A k : at \in SUBSET {k} => Cardinality(at) <= 1
  <2>1. \A k : IsFiniteSet({k}) /\ Cardinality({k}) = 1
    BY FS_Singleton
  <2> TAKE k
  <2> HAVE at \in SUBSET {k}
  <2>2. Cardinality(at) <= Cardinality({k})
    BY <2>1, FS_Subset
  <2> QED BY <2>1, <2>2
<1> QED BY <1>2, <1>5, <1>6, <1>7, <1>8

(* indexOf finds a place where there is one.                               *)
LEMMA Placed ==
    ASSUME NEW S, NEW d \in Seq(S), NEW p
    PROVE  /\ IndexOf(d, p) \in 0..Len(d)
           /\ IndexOf(d, p) > 0 <=> \E i \in 1..Len(d) : d[i] = p
           /\ IndexOf(d, p) > 0 => d[IndexOf(d, p)] = p
<1> DEFINE at == {i \in 1..Len(d) : d[i] = p}
<1>1. Len(d) \in Nat /\ DOMAIN d = 1..Len(d)
  OBVIOUS
<1>2. CASE at = {}
  <2>1. IndexOf(d, p) = 0
    BY <1>1, <1>2 DEF IndexOf
  <2>2. ~\E i \in 1..Len(d) : d[i] = p
    BY <1>2
  <2> QED BY <1>1, <2>1, <2>2
<1>3. CASE at # {}
  <2>1. \E i \in at : \A j \in at : <<j, i>> \notin OpToRel(<, Nat)
    <3>1. at \subseteq Nat
      OBVIOUS
    <3> HIDE DEF at
    <3> QED BY <1>3, <3>1, WFMin, NatLessThanWellFounded, Zenon
  <2>2. PICK i \in at : \A j \in at : <<j, i>> \notin OpToRel(<, Nat)
    BY <2>1
  <2>3. \A j \in 1..(i - 1) : d[j] # p
    <3>1. SUFFICES ASSUME NEW j \in 1..(i - 1), d[j] = p PROVE FALSE
      OBVIOUS
    <3>2. j \in at /\ j \in Nat /\ i \in Nat /\ j < i
      BY <1>1, <3>1
    <3>3. <<j, i>> \in OpToRel(<, Nat)
      BY <3>2, Zenon DEF OpToRel
    <3> QED BY <2>2, <3>2, <3>3
  <2>4. IndexOf(d, p) = CHOOSE x \in 1..Len(d) : d[x] = p /\ \A j \in 1..(x - 1) : d[j] # p
    <3>1. p \in {d[x] : x \in DOMAIN d}
      BY <1>1, <1>3
    <3> QED BY <1>1, <3>1 DEF IndexOf
  <2>5. IndexOf(d, p) \in 1..Len(d) /\ d[IndexOf(d, p)] = p
    BY <2>2, <2>3, <2>4
  <2> QED BY <1>1, <2>5
<1> QED BY <1>2, <1>3

(* Where the blocks stand whole, a block is nowhere or at one place.       *)
LEMMA Spots ==
    ASSUME NEW d \in Seq(Parts), Whole(d), NEW b \in BlockNames
    PROVE  \/ /\ \A i \in 1..Len(d) : d[i] # Begin(b)
              /\ ~HasBlock(d, b) /\ Count(d, Begin(b)) <= 1
           \/ \E k \in 1..Len(d) :
                /\ d[k] = Begin(b)
                /\ IndexOf(d, Begin(b)) = k /\ IndexOf(d, End(b)) = k + 2
                /\ HasBlock(d, b) /\ Count(d, Begin(b)) <= 1
<1>1. /\ Begin(b)[1] = "begin" /\ Begin(b)[2] = b /\ End(b)[1] = "end" /\ End(b)[2] = b
  BY PartKinds
<1>2. CASE \A i \in 1..Len(d) : d[i] # Begin(b)
  <2>1. ~(Count(d, Begin(b)) > 0) /\ Count(d, Begin(b)) \in Nat
    BY <1>2, Counted
  <2>2. ~(IndexOf(d, Begin(b)) > 0) /\ IndexOf(d, Begin(b)) \in 0..Len(d)
    BY <1>2, Placed
  <2> QED BY <1>2, <2>1, <2>2 DEF HasBlock
<1>3. ASSUME NEW k \in 1..Len(d), d[k] = Begin(b)
      PROVE  /\ IndexOf(d, Begin(b)) = k /\ IndexOf(d, End(b)) = k + 2
             /\ HasBlock(d, b) /\ Count(d, Begin(b)) <= 1
  <2>1. \A i \in 1..Len(d) : d[i] = Begin(b) => i = k
    BY <1>1, <1>3 DEF Whole
  <2>2. k + 2 \in 1..Len(d) /\ d[k + 2] = End(b)
    BY <1>1, <1>3 DEF Whole
  <2>3. \A i \in 1..Len(d) : d[i] = End(b) => i = k + 2
    <3> SUFFICES ASSUME NEW i \in 1..Len(d), d[i] = End(b) PROVE i = k + 2
      OBVIOUS
    <3>1. i - 2 \in 1..Len(d) /\ d[i - 2] = Begin(b)
      BY <1>1 DEF Whole
    <3>2. i - 2 = k
      BY <2>1, <3>1
    <3> QED BY <3>2
  <2>4. IndexOf(d, Begin(b)) = k
    BY <1>3, <2>1, Placed
  <2>5. IndexOf(d, End(b)) = k + 2
    BY <2>2, <2>3, Placed
  <2>6. Count(d, Begin(b)) <= 1
    BY <2>1, Counted
  <2>7. HasBlock(d, b)
    BY <2>4, <2>5 DEF HasBlock
  <2> QED BY <2>4, <2>5, <2>6, <2>7
<1> QED BY <1>2, <1>3

(* A piece of text written outside the blocks.                             *)
LEMMA Inserted ==
    ASSUME NEW d \in Seq(Parts), NEW t \in Pieces, NEW i \in 0..Len(d)
    PROVE  LET e == SubSeq(d, 1, i) \o <<Piece(t)>> \o After(d, i)
           IN e \in Seq(Parts) /\ (Whole(d) /\ ~Inside(d, i) => Whole(e))
<1> DEFINE m == <<Piece(t)>>
           e == SubSeq(d, 1, i) \o m \o SubSeq(d, i + 1, Len(d))
<1>1. m \in Seq(Parts) /\ Len(m) = 1 /\ m[1] = Piece(t) /\ m[1][1] = "user"
  BY DEF Piece, Parts
<1> HIDE DEF m
<1>2. /\ e \in Seq(Parts) /\ Len(e) = i + Len(m) + Len(d) - i
      /\ \A j \in 1..Len(e) :
           e[j] = IF j <= i THEN d[j] ELSE IF j <= i + Len(m) THEN m[j - i] ELSE d[j - i - Len(m) + i]
  <2>1. m \in Seq(Parts)
    BY <1>1
  <2> QED BY <2>1, SpliceShape, Zenon
<1> HIDE DEF e
<1>3. Len(e) = Len(d) + 1 /\ Len(d) \in Nat /\ i \in Nat /\ i <= Len(d)
  BY <1>1, <1>2
<1>4. /\ \A j \in 1..Len(e) : j <= i => j \in 1..Len(d) /\ e[j] = d[j]
      /\ \A j \in 1..Len(e) : j = i + 1 => e[j][1] = "user"
      /\ \A j \in 1..Len(e) : j > i + 1 => j - 1 \in 1..Len(d) /\ e[j] = d[j - 1]
  <2>1. \A j \in 1..Len(e) : j <= i => j \in 1..Len(d) /\ e[j] = d[j]
    BY <1>2, <1>3
  <2>2. ASSUME NEW j \in 1..Len(e), j = i + 1 PROVE e[j][1] = "user"
    <3>1. ~(j <= i) /\ j <= i + Len(m) /\ j - i = 1
      BY <1>1, <1>3, <2>2
    <3> QED BY <1>1, <1>2, <3>1
  <2>3. ASSUME NEW j \in 1..Len(e), j > i + 1 PROVE j - 1 \in 1..Len(d) /\ e[j] = d[j - 1]
    <3>1. ~(j <= i) /\ ~(j <= i + Len(m)) /\ j - i - Len(m) + i = j - 1 /\ j - 1 \in 1..Len(d)
      BY <1>1, <1>3, <2>3
    <3> QED BY <1>2, <3>1
  <2> QED BY <2>1, <2>2, <2>3
<1>5. ASSUME Whole(d), ~Inside(d, i) PROVE Whole(e)
  <2>1. ASSUME NEW k \in 1..Len(d), d[k][1] = "begin", k <= i PROVE k + 2 <= i
    <3> DEFINE s == SubSeq(d, 1, i)
    <3>1. PICK b \in BlockNames : d[k] = Begin(b)
      <4>1. d[k] \in Parts
        OBVIOUS
      <4>2. \A p \in Parts : p[1] = "begin" => p = Begin(p[2]) /\ p[2] \in BlockNames
        BY DEF Parts, Begin, Wide, Narrow, None
      <4> QED BY <2>1, <4>1, <4>2, Zenon
    <3>2. s \in Seq(Parts) /\ Len(s) = i /\ \A j \in 1..i : s[j] = d[j]
      <4>1. \A j \in 1..i : d[j] \in Parts
        BY <1>3
      <4> QED BY <1>3, <4>1, SubSeqProperties
    <3> HIDE DEF s
    <3>3. Count(s, Begin(b)) > 0 /\ Count(s, Begin(b)) \in Nat
      <4>1. k \in 1..Len(s) /\ s[k] = Begin(b)
        BY <1>3, <2>1, <3>1, <3>2
      <4> QED BY <3>2, <4>1, Counted
    <3>4. ~(Count(s, Begin(b)) > Count(s, End(b)))
      <4>1. b \in {"guidance", "run-entry", "correction"}
        BY DEF BlockNames
      <4> QED BY <1>5, <4>1, Zenon DEF Inside, s
    <3>5. Count(s, End(b)) > 0
      <4>1. Count(s, End(b)) \in Nat
        BY <3>2, Counted
      <4> QED BY <3>3, <3>4, <4>1
    <3>6. PICK j \in 1..Len(s) : s[j] = End(b)
      BY <3>2, <3>5, Counted
    <3>7. j \in 1..Len(d) /\ j <= i /\ d[j] = End(b) /\ j \in Int
      BY <1>3, <3>2, <3>6
    <3>8. j - 2 \in 1..Len(d) /\ d[j - 2] = Begin(b)
      BY <1>5, <3>7, PartKinds DEF Whole
    <3>9. j - 2 = k
      BY <1>5, <2>1, <3>1, <3>8 DEF Whole
    <3> QED BY <3>7, <3>9
  <2>2. ASSUME NEW j \in 1..Len(e), e[j][1] = "begin"
        PROVE  j + 2 \in 1..Len(e) /\ e[j + 1][1] = "body" /\ e[j + 2] = End(e[j][2])
    <3>1. CASE j <= i
      <4>1. j \in 1..Len(d) /\ e[j] = d[j] /\ d[j][1] = "begin"
        BY <1>4, <2>2, <3>1
      <4>2. j + 2 <= i /\ j + 1 <= i /\ j + 1 \in 1..Len(e) /\ j + 2 \in 1..Len(e)
        BY <1>3, <2>1, <3>1, <4>1
      <4>3. e[j + 1] = d[j + 1] /\ e[j + 2] = d[j + 2]
        BY <1>4, <4>2
      <4> QED BY <1>5, <4>1, <4>2, <4>3 DEF Whole
    <3>2. CASE ~(j <= i)
      <4>1. j > i + 1
        BY <1>3, <1>4, <2>2, <3>2
      <4>2. PICK u \in 1..Len(d) : u = j - 1 /\ e[j] = d[u] /\ u \in Int
        BY <1>4, <4>1
      <4>3. u + 2 \in 1..Len(d) /\ d[u + 1][1] = "body" /\ d[u + 2] = End(d[u][2])
        BY <1>5, <2>2, <4>2 DEF Whole
      <4>4. /\ j + 1 \in 1..Len(e) /\ j + 2 \in 1..Len(e) /\ j + 1 > i + 1 /\ j + 2 > i + 1
            /\ j + 1 - 1 = u + 1 /\ j + 2 - 1 = u + 2
        BY <1>3, <4>1, <4>2, <4>3
      <4>5. e[j + 1] = d[u + 1] /\ e[j + 2] = d[u + 2]
        BY <1>4, <4>4
      <4> QED BY <4>2, <4>3, <4>4, <4>5
    <3> QED BY <3>1, <3>2
  <2>3. ASSUME NEW j \in 1..Len(e), e[j][1] = "end"
        PROVE  j - 2 \in 1..Len(e) /\ e[j - 2] = Begin(e[j][2])
    <3>1. CASE j <= i
      <4>1. j \in 1..Len(d) /\ e[j] = d[j] /\ d[j][1] = "end"
        BY <1>4, <2>3, <3>1
      <4>2. j - 2 \in 1..Len(d) /\ d[j - 2] = Begin(d[j][2])
        BY <1>5, <4>1 DEF Whole
      <4>3. j - 2 <= i /\ j - 2 \in 1..Len(e)
        BY <1>3, <3>1, <4>2
      <4> QED BY <1>4, <4>1, <4>2, <4>3
    <3>2. CASE ~(j <= i)
      <4>1. j > i + 1
        BY <1>3, <1>4, <2>3, <3>2
      <4>2. PICK u \in 1..Len(d) : u = j - 1 /\ e[j] = d[u] /\ u \in Int
        BY <1>4, <4>1
      <4>3. u - 2 \in 1..Len(d) /\ d[u - 2] = Begin(d[u][2])
        BY <1>5, <2>3, <4>2 DEF Whole
      <4>4. d[u - 2][1] = "begin"
        BY <4>3, PartKinds
      <4>5. u - 2 > i
        <5>1. PICK w \in 1..Len(d) : w = u - 2
          BY <4>3
        <5>2. w <= i => w + 2 <= i
          BY <2>1, <4>4, <5>1
        <5> QED BY <1>3, <4>1, <4>2, <5>1, <5>2
      <4>6. j - 2 \in 1..Len(e) /\ j - 2 > i + 1 /\ j - 2 - 1 = u - 2
        BY <1>3, <4>2, <4>3, <4>5
      <4>7. e[j - 2] = d[u - 2]
        BY <1>4, <4>6
      <4> QED BY <4>2, <4>3, <4>6, <4>7
    <3> QED BY <3>1, <3>2
  <2>4. ASSUME NEW j \in 1..Len(e), NEW l \in 1..Len(e), e[j][1] = "begin", e[j] = e[l]
        PROVE  j = l
    <3>1. ASSUME NEW x \in 1..Len(e), e[x][1] = "begin"
          PROVE  \E u \in 1..Len(d) : /\ d[u] = e[x] /\ (x <= i => u = x)
                                      /\ (~(x <= i) => x > i + 1 /\ u = x - 1)
      <4>1. x = i + 1 => e[x][1] = "user"
        BY <1>4
      <4>2. x <= i \/ x > i + 1
        BY <1>3, <3>1, <4>1
      <4>3. CASE x <= i
        BY <1>4, <4>3
      <4>4. CASE x > i + 1
        <5>1. x - 1 \in 1..Len(d) /\ e[x] = d[x - 1] /\ ~(x <= i)
          BY <1>3, <1>4, <4>4
        <5> QED BY <4>4, <5>1
      <4> QED BY <4>2, <4>3, <4>4
    <3>2. PICK u \in 1..Len(d) : /\ d[u] = e[j] /\ (j <= i => u = j)
                                 /\ (~(j <= i) => j > i + 1 /\ u = j - 1)
      BY <2>4, <3>1
    <3>3. PICK v \in 1..Len(d) : /\ d[v] = e[l] /\ (l <= i => v = l)
                                 /\ (~(l <= i) => l > i + 1 /\ v = l - 1)
      BY <2>4, <3>1
    <3>4. u = v
      BY <1>5, <2>4, <3>2, <3>3 DEF Whole
    <3>5. j \in Int /\ l \in Int /\ u \in Int
      BY <1>3
    <3> QED BY <1>3, <3>2, <3>3, <3>4, <3>5
  <2> QED BY <2>2, <2>3, <2>4 DEF Whole
<1> QED BY <1>2, <1>5 DEF e, m, After

(* Only marker lines are spoilt by hand: what a command makes of a text    *)
(* with whole blocks has whole blocks again, and the user's text.          *)
Intact(d, e) == e \in Seq(Parts) /\ (Whole(d) => Whole(e) /\ UserText(e) = UserText(d))

(* What a removal leaves, wherever it finds the markers.                   *)
LEMMA CutTyped ==
    ASSUME NEW d \in Seq(Parts), NEW k \in 1..Len(d), NEW n \in 1..Len(d), NEW m \in Seq(Parts)
    PROVE  /\ Upto(d, k) \o After(d, n) \in Seq(Parts)
           /\ Upto(d, k) \o m \o After(d, n) \in Seq(Parts)
<1>1. k - 1 \in 0..Len(d) /\ n \in 0..Len(d)
  OBVIOUS
<1>2. SubSeq(d, 1, k - 1) \o SubSeq(d, n + 1, Len(d)) \in Seq(Parts)
  BY <1>1, CutShape
<1>3. SubSeq(d, 1, k - 1) \o m \o SubSeq(d, n + 1, Len(d)) \in Seq(Parts)
  BY <1>1, SpliceShape
<1> QED BY <1>2, <1>3 DEF Upto, After

(* A block that counts has its two places.                                 *)
LEMMA BlockPlaced ==
    ASSUME NEW d \in Seq(Parts), NEW b
    PROVE  HasBlock(d, b) \/ (Count(d, Begin(b)) > 0 /\ Count(d, End(b)) > 0) =>
             IndexOf(d, Begin(b)) \in 1..Len(d) /\ IndexOf(d, End(b)) \in 1..Len(d)
<1>1. /\ IndexOf(d, Begin(b)) \in 0..Len(d) /\ IndexOf(d, End(b)) \in 0..Len(d)
      /\ Count(d, Begin(b)) > 0 => IndexOf(d, Begin(b)) > 0
      /\ Count(d, End(b)) > 0 => IndexOf(d, End(b)) > 0
  BY Counted, Placed
<1> QED BY <1>1 DEF HasBlock

(* upsertManagedBlock keeps the user's text.                               *)
LEMMA Updated ==
    ASSUME NEW d \in Seq(Parts), NEW b \in BlockNames, NEW body \in Bodies
    PROVE  Intact(d, UpdateManagedBlock(d, b, body))
<1> DEFINE e == UpdateManagedBlock(d, b, body)
<1>1. Block(b, body) \in Seq(Parts)
  BY BlockShape
<1>2. d \o Block(b, body) \in Seq(Parts)
  BY Appended
<1>3. e \in Seq(Parts)
  BY <1>1, <1>2, BlockPlaced, CutTyped DEF UpdateManagedBlock
<1>4. ASSUME Whole(d) PROVE Whole(e) /\ UserText(e) = UserText(d)
  <2>1. CASE ~HasBlock(d, b)
    <3>1. \A i \in 1..Len(d) : d[i] # Begin(b)
      BY <1>4, <2>1, Spots
    <3> QED BY <1>4, <2>1, <3>1, Appended DEF UpdateManagedBlock
  <2>2. CASE HasBlock(d, b)
    <3>1. PICK k \in 1..Len(d) : /\ d[k] = Begin(b)
                                 /\ IndexOf(d, Begin(b)) = k /\ IndexOf(d, End(b)) = k + 2
      BY <1>4, <2>2, Spots
    <3>2. e = Upto(d, k) \o Block(b, body) \o After(d, k + 2)
      BY <2>2, <3>1 DEF UpdateManagedBlock
    <3> HIDE DEF e
    <3> QED BY <1>4, <3>1, <3>2, Replaced
  <2> QED BY <2>1, <2>2
<1> QED BY <1>3, <1>4 DEF Intact

(* installBlock does too.                                                  *)
LEMMA Installed ==
    ASSUME NEW d \in Seq(Parts), NEW b \in BlockNames, NEW body \in Bodies
    PROVE  Intact(d, InstallBlock(d, b, body))
<1> DEFINE e == InstallBlock(d, b, body)
           both == Count(d, Begin(b)) > 0 /\ Count(d, End(b)) > 0
<1>1. Block(b, body) \in Seq(Parts)
  BY BlockShape
<1>2. d \o Block(b, body) \in Seq(Parts)
  BY Appended
<1>3. e \in Seq(Parts)
  BY <1>1, <1>2, BlockPlaced, CutTyped DEF InstallBlock
<1>4. ASSUME Whole(d) PROVE Whole(e) /\ UserText(e) = UserText(d)
  <2>0. ASSUME NEW k \in 1..Len(d), d[k] = Begin(b) PROVE both
    <3>1. k + 2 \in 1..Len(d) /\ d[k + 2] = End(b)
      BY <1>4, <2>0, PartKinds DEF Whole
    <3> QED BY <2>0, <3>1, Counted
  <2>1. CASE ~both
    <3>1. \A i \in 1..Len(d) : d[i] # Begin(b)
      BY <2>0, <2>1
    <3>2. e = d \o Block(b, body)
      BY <2>1 DEF InstallBlock
    <3> HIDE DEF e
    <3> QED BY <1>4, <3>1, <3>2, Appended
  <2>2. CASE both
    <3>1. \E i \in 1..Len(d) : d[i] = Begin(b)
      BY <2>2, Counted
    <3>2. PICK k \in 1..Len(d) : /\ d[k] = Begin(b)
                                 /\ IndexOf(d, Begin(b)) = k /\ IndexOf(d, End(b)) = k + 2
      BY <1>4, <3>1, Spots
    <3>3. e = Upto(d, k) \o Block(b, body) \o After(d, k + 2)
      BY <2>2, <3>2 DEF InstallBlock
    <3> HIDE DEF e
    <3> QED BY <1>4, <3>2, <3>3, Replaced
  <2> QED BY <2>1, <2>2
<1> QED BY <1>3, <1>4 DEF Intact

(* Narrowing the blank lines moves no block and no piece of the text.      *)
LEMMA Tidied ==
    ASSUME NEW d \in Seq(Parts)
    PROVE  Intact(d, Tidy(d))
<1> DEFINE e == Tidy(d)
           same == [i \in 1..Len(d) |-> i]
<1>1. /\ Narrow \in Parts /\ None \in Parts /\ Narrow[1] = "gap" /\ None[1] = "gap"
      /\ Len(d) \in Nat /\ DOMAIN d = 1..Len(d) /\ \A i \in 1..Len(d) : d[i] \in Parts
  BY DEF Parts, Narrow, None
<1>2. \A i \in 1..Len(d) :
        /\ e[i] \in Parts
        /\ d[i][1] # "gap" => e[i] = d[i]
        /\ d[i][1] = "gap" => e[i][1] = "gap"
  BY <1>1 DEF Tidy
<1>3. e \in Seq(Parts) /\ Len(e) = Len(d)
  <2>1. e = [i \in 1..Len(d) |-> e[i]]
    BY <1>1 DEF Tidy
  <2> HIDE DEF e
  <2>2. e \in [1..Len(d) -> Parts]
    BY <1>2, <2>1
  <2> QED BY <1>1, <2>2
<1> HIDE DEF e
<1>4. \A i \in 1..Len(d) : /\ e[i][1] = d[i][1]
                           /\ d[i][1] # "gap" => e[i] = d[i]
                           /\ e[i][1] # "gap" => e[i] = d[i]
  BY <1>2
<1>5. UserText(e) = UserText(d)
  <2>1. \A i \in 1..Len(d) : same[i] = i
    OBVIOUS
  <2> HIDE DEF same
  <2>2. \A i \in 1..Len(d) : d[i][1] = "user" => same[i] \in 1..Len(e) /\ e[same[i]] = d[i]
    BY <1>3, <1>4, <2>1
  <2>3. \A i \in 1..Len(e) : e[i][1] = "user" => same[i] \in 1..Len(d) /\ d[same[i]] = e[i]
    BY <1>3, <1>4, <2>1
  <2>4. \A i, j \in 1..Len(d) : i < j => same[i] < same[j]
    BY <2>1
  <2> QED BY <1>3, <2>2, <2>3, <2>4, SameText
<1>6. ASSUME Whole(d) PROVE Whole(e)
  <2>0. \A b : Begin(b)[1] = "begin" /\ End(b)[1] = "end"
    BY PartKinds
  <2>1. ASSUME NEW i \in 1..Len(e), e[i][1] = "begin"
        PROVE  i + 2 \in 1..Len(e) /\ e[i + 1][1] = "body" /\ e[i + 2] = End(e[i][2])
    <3>1. i \in 1..Len(d) /\ e[i] = d[i] /\ d[i][1] = "begin"
      BY <1>3, <1>4, <2>1
    <3>2. i + 2 \in 1..Len(d) /\ d[i + 1][1] = "body" /\ d[i + 2] = End(d[i][2])
      BY <1>6, <3>1 DEF Whole
    <3>3. i + 1 \in 1..Len(d) /\ d[i + 2][1] = "end"
      BY <1>1, <2>0, <3>1, <3>2
    <3> QED BY <1>3, <1>4, <3>1, <3>2, <3>3
  <2>2. ASSUME NEW i \in 1..Len(e), e[i][1] = "end"
        PROVE  i - 2 \in 1..Len(e) /\ e[i - 2] = Begin(e[i][2])
    <3>1. i \in 1..Len(d) /\ e[i] = d[i] /\ d[i][1] = "end"
      BY <1>3, <1>4, <2>2
    <3>2. i - 2 \in 1..Len(d) /\ d[i - 2] = Begin(d[i][2])
      BY <1>6, <3>1 DEF Whole
    <3>3. d[i - 2][1] = "begin"
      BY <2>0, <3>2
    <3> QED BY <1>3, <1>4, <3>1, <3>2, <3>3
  <2>3. ASSUME NEW i \in 1..Len(e), NEW j \in 1..Len(e), e[i][1] = "begin", e[i] = e[j]
        PROVE  i = j
    <3>1. /\ i \in 1..Len(d) /\ e[i] = d[i] /\ j \in 1..Len(d) /\ e[j] = d[j]
      BY <1>3, <1>4, <2>3
    <3> QED BY <1>6, <2>3, <3>1 DEF Whole
  <2> QED BY <2>1, <2>2, <2>3 DEF Whole
<1> QED BY <1>3, <1>5, <1>6 DEF Intact, e

(* removeManagedBlock takes the block, and no piece of the text.           *)
LEMMA Withdrawn ==
    ASSUME NEW d \in Seq(Parts), NEW b \in BlockNames
    PROVE  Intact(d, RemoveManagedBlock(d, b))
<1>1. CASE ~HasBlock(d, b)
  BY <1>1 DEF RemoveManagedBlock, Intact
<1>2. CASE HasBlock(d, b)
  <2>1. PICK e : e = Upto(d, IndexOf(d, Begin(b))) \o After(d, IndexOf(d, End(b)))
    OBVIOUS
  <2>2. <<>> \in Seq(Parts) /\ e \in Seq(Parts)
    BY <1>2, <2>1, BlockPlaced, CutTyped
  <2>3. ASSUME Whole(d) PROVE Whole(e) /\ UserText(e) = UserText(d)
    <3>1. PICK k \in 1..Len(d) : /\ d[k] = Begin(b)
                                 /\ IndexOf(d, Begin(b)) = k /\ IndexOf(d, End(b)) = k + 2
      BY <1>2, <2>3, Spots
    <3>2. e = Upto(d, k) \o After(d, k + 2)
      BY <2>1, <3>1
    <3> QED BY <2>3, <3>1, <3>2, Removed
  <2>4. RemoveManagedBlock(d, b) = Tidy(e)
    BY <1>2, <2>1 DEF RemoveManagedBlock
  <2>5. Intact(e, Tidy(e))
    BY <2>2, Tidied
  <2> QED BY <2>3, <2>4, <2>5 DEF Intact
<1> QED BY <1>1, <1>2

(* The file starts without blocks.                                         *)
LEMMA InitText == Init => TextInv
<1> SUFFICES ASSUME Init PROVE TextInv
  OBVIOUS
<1>1. doc = <<>> \/ \E t \in Pieces : doc = <<Piece(t), Wide>>
  BY DEF Init
<1>2. doc \in Seq(Parts) /\ \A i \in 1..Len(doc) : doc[i][1] \in {"user", "gap"}
  <2>1. CASE doc = <<>>
    BY <2>1
  <2>2. ASSUME NEW t \in Pieces, doc = <<Piece(t), Wide>>
        PROVE  doc \in Seq(Parts) /\ \A i \in 1..Len(doc) : doc[i][1] \in {"user", "gap"}
    <3>1. PICK p, w : p = Piece(t) /\ w = Wide
      OBVIOUS
    <3>2. p \in Parts /\ p[1] = "user" /\ w \in Parts /\ w[1] = "gap"
      BY <3>1 DEF Piece, Wide, Parts
    <3>3. doc = <<p, w>>
      BY <2>2, <3>1
    <3>4. doc \in Seq(Parts) /\ Len(doc) = 2 /\ doc[1] = p /\ doc[2] = w
      BY <3>2, <3>3
    <3> QED BY <3>2, <3>4
  <2> QED BY <1>1, <2>1, <2>2
<1>3. Whole(doc)
  BY <1>2 DEF Whole
<1> QED BY <1>2, <1>3 DEF TextInv, Init

(* A command that keeps a text keeps it in the file.                       *)
LEMMA TextKept ==
    ASSUME TextInv, Intact(doc, doc'), UNCHANGED <<text, spoilt>>
    PROVE  TextInv'
  BY DEF TextInv, Intact

(* What touches neither the file nor the user's text.                      *)
LEMMA TextUndisturbed ==
    ASSUME TextInv, UNCHANGED <<doc, text>>, spoilt \subseteq spoilt'
    PROVE  TextInv'
  BY DEF TextInv

(* A write cut short leaves parts, and says so if they are not those there *)
(* were.                                                                   *)
LEMMA TextKilled ==
    ASSUME TextInv, KilledIn, text' = text,
           doc' = doc \/ \E written \in Seq(Parts) : doc' \in CutShort(written)
    PROVE  TextInv'
<1>1. doc' \in Seq(Parts)
  <2>1. ASSUME NEW written \in Seq(Parts), doc' \in CutShort(written) PROVE doc' \in Seq(Parts)
    <3>1. PICK k \in 0..(Len(written) - 1) : doc' = SubSeq(written, 1, k)
      BY <2>1 DEF CutShort
    <3>2. Len(written) \in Nat /\ \A i \in 1..k : written[i] \in Parts
      OBVIOUS
    <3> QED BY <3>1, <3>2, SubSeqProperties
  <2> QED BY <2>1 DEF TextInv
<1>2. CASE doc' = doc
  BY <1>2, TextUndisturbed DEF KilledIn
<1>3. CASE doc' # doc
  <2>1. "torn text" \in spoilt'
    BY <1>3 DEF KilledIn
  <2> QED BY <1>1, <2>1 DEF TextInv
<1> QED BY <1>2, <1>3

(* Every step keeps the blocks whole and the text as the user wrote it.    *)
LEMMA NextText == ASSUME TextInv, [Next]_vars PROVE TextInv'
<1>1. doc \in Seq(Parts)
  BY DEF TextInv
<1>2. \A accident, happened : Spoil(accident, happened) => spoilt \subseteq spoilt'
  BY DEF Spoil
<1>3. CASE InstallRunEntry
  <2>1. "run-entry" \in BlockNames /\ "entry" \in Bodies
    BY DEF BlockNames, Bodies
  <2>2. Intact(doc, InstallBlock(doc, "run-entry", "entry"))
    BY <1>1, <2>1, Installed
  <2> QED BY <1>3, <2>2, TextKept DEF InstallRunEntry, ByTheUser
<1>4. CASE \E o \in Objectives : StartSession(o)
  <2>1. PICK o \in Objectives : StartSession(o)
    BY <1>4
  <2>2. "guidance" \in BlockNames /\ o \in Bodies
    BY DEF BlockNames, Bodies
  <2>3. Intact(doc, UpdateManagedBlock(doc, "guidance", o))
    BY <1>1, <2>2, Updated
  <2> QED BY <2>1, <2>3, TextKept DEF StartSession, ByTheUser
<1>5. CASE ApplyCorrection
  <2>1. "correction" \in BlockNames /\ "correction" \in Bodies
    BY DEF BlockNames, Bodies
  <2>2. Intact(doc, UpdateManagedBlock(doc, "correction", "correction"))
    BY <1>1, <2>1, Updated
  <2> QED BY <1>5, <2>2, TextKept DEF ApplyCorrection, ByTheUser
<1>6. CASE RemoveGuidance
  <2>1. "guidance" \in BlockNames
    BY DEF BlockNames
  <2>2. Intact(doc, RemoveManagedBlock(doc, "guidance"))
    BY <1>1, <2>1, Withdrawn
  <2> QED BY <1>6, <2>2, TextKept DEF RemoveGuidance, ByTheUser
<1>7. CASE \E t \in Pieces, i \in 0..Len(doc) : WriteText(t, i)
  <2>1. PICK t \in Pieces, i \in 0..Len(doc) : WriteText(t, i)
    BY <1>7
  <2>2. doc' \in Seq(Parts) /\ (Whole(doc) => Whole(doc'))
    BY <1>1, <2>1, Inserted DEF WriteText
  <2> QED BY <2>1, <2>2 DEF WriteText, TextInv
<1>8. CASE \E i \in DOMAIN doc : CutMarker(i)
  <2>1. PICK i \in DOMAIN doc : CutMarker(i)
    BY <1>8
  <2>2. i \in 1..Len(doc)
    BY <1>1
  <2>3. doc' \in Seq(Parts)
    BY <1>1, <2>1, <2>2, CutTyped DEF CutMarker
  <2>4. "cut marker" \in spoilt'
    BY <2>1 DEF CutMarker, Spoil
  <2> QED BY <2>3, <2>4 DEF TextInv
<1>9. CASE BackUpSettings \/ WriteHooks \/ RunSafeRepairs \/ PersistActivation
           \/ \E passed \in Hosts : Activate(passed)
  BY <1>9, TextUndisturbed
  DEF BackUpSettings, WriteHooks, RunSafeRepairs, PersistActivation, Activate, ByTheUser
<1>10. CASE StripHooks \/ DeleteAvorelo \/ InitWorkspace \/ WriteContract \/ EnsureSettings
            \/ ShowSettings \/ ResetSettings \/ \E reset \in BOOLEAN : StartInit(reset)
  BY <1>10, TextUndisturbed
  DEF StripHooks, DeleteAvorelo, InitWorkspace, WriteContract, EnsureSettings, ShowSettings,
      ResetSettings, StartInit, ByTheUser
<1>11. CASE RestoreSettings
  BY <1>2, <1>11, TextUndisturbed DEF RestoreSettings, ByTheUser
<1>14. CASE Kill
  <2>1. "run-entry" \in BlockNames /\ "entry" \in Bodies
    BY DEF BlockNames, Bodies
  <2>2. InstallBlock(doc, "run-entry", "entry") \in Seq(Parts)
    BY <1>1, <2>1, Installed DEF Intact
  <2> QED BY <1>14, <2>2, TextKilled DEF Kill, ByTheUser
<1>15. CASE KillFirstWrite
  <2>1. /\ {"guidance", "correction"} \subseteq BlockNames /\ "correction" \in Bodies
        /\ \A o \in Objectives : o \in Bodies
    BY DEF BlockNames, Bodies
  <2>2. /\ \A o \in Objectives : UpdateManagedBlock(doc, "guidance", o) \in Seq(Parts)
        /\ UpdateManagedBlock(doc, "correction", "correction") \in Seq(Parts)
    BY <1>1, <2>1, Updated DEF Intact
  <2>3. RemoveManagedBlock(doc, "guidance") \in Seq(Parts)
    BY <1>1, <2>1, Withdrawn DEF Intact
  <2>4. FirstWrites \subseteq Seq(Parts)
    BY <2>2, <2>3 DEF FirstWrites
  <2> QED BY <1>15, <2>4, TextKilled DEF KillFirstWrite, ByTheUser
<1>12. CASE \/ \E e \in Events, f \in Foreign : \E groups \in OwnGroup(e, f) \union JoinGroup(e, f) :
                  AddHook(e, f, groups)
            \/ \E e \in Events : RemoveHooks(e)
  BY <1>2, <1>12, TextUndisturbed DEF AddHook, RemoveHooks
<1>13. CASE UNCHANGED vars
  BY <1>13, TextUndisturbed DEF vars
<1> QED
  BY <1>3, <1>4, <1>5, <1>6, <1>7, <1>8, <1>9, <1>10, <1>11, <1>12, <1>13, <1>14, <1>15 DEF Next

(* Whatever commands run, the blocks of the instruction file stand whole   *)
(* and the pieces of the user's text around them in the order they were    *)
(* written in, while no marker line is deleted by hand and no kill cuts    *)
(* the file short.                                                         *)
THEOREM TextInvariant == Spec => []TextInv
<1>1. Init => TextInv
  BY InitText
<1>2. TextInv /\ [Next]_vars => TextInv'
  BY NextText
<1> QED BY <1>1, <1>2, PTL DEF Spec

(* The property of the runs: no piece of the user's text is lost, doubled  *)
(* or moved, and no block is there twice, in a file that was neither cut   *)
(* short nor robbed of a marker.                                           *)
THEOREM UserTextStays == Spec => []UserTextIntact
<1>1. TextInv => UserTextIntact
  <2> SUFFICES ASSUME TextInv, spoilt \intersect {"cut marker", "torn text"} = {}
               PROVE  UserTextIntact
    BY DEF UserTextIntact
  <2>1. doc \in Seq(Parts) /\ Whole(doc) /\ UserText(doc) = text
    BY DEF TextInv
  <2>2. \A b \in BlockNames : Count(doc, Begin(b)) <= 1
    BY <2>1, Spots
  <2> QED BY <2>1, <2>2 DEF UserTextIntact, BlockNames
<1> QED BY <1>1, TextInvariant, PTL
-----------------------------------------------------------------------------
(* What the files can hold.                                                *)
Ops == {"idle", "hooks", "repair", "entry", "record", "restore", "strip", "delete",
        "init", "reset", "contract", "prefs"}

(* An id is the number of a command, so that a running one has a number.   *)
StepInv ==
    /\ runs \in 0..MaxRuns /\ op \in Ops
    /\ op # "idle" => runs \in 1..MaxRuns
    /\ ignored \in BOOLEAN /\ spoilt \subseteq Accidents

FilesInv ==
    /\ {workspace, contract} \subseteq Workspaces(1..MaxRuns)
    /\ prefs \in AvoSettings(0..MaxRuns) /\ record \in ActivationStates(1..MaxRuns)
    /\ named \in 0..MaxRuns

(* An event has one group of Avorelo's at most.                            *)
Once(h) == \A e \in Events : \A g, k \in h[e] : IsAvoreloHook(g) /\ IsAvoreloHook(k) => g = k

(* TypeOK holds with the invariants of the hooks, the identity and the text.*)
AllInv == HookInv /\ IdentityInv /\ TextInv /\ StepInv /\ FilesInv /\ Once(settings.hooks)

(* What an id of such a file is.                                           *)
LEMMA FileShapes ==
    ASSUME NEW S
    PROVE  /\ NoFile \in Workspaces(S) /\ TornFile \in Workspaces(S)
           /\ NoFile \in AvoSettings(S) /\ TornFile \in AvoSettings(S)
           /\ NoFile \in ActivationStates(S) /\ TornFile \in ActivationStates(S)
           /\ \A n \in S : /\ WorkspaceRecord(n) \in Workspaces(S)
                           /\ buildDefaultSettings(n) \in AvoSettings(S)
           /\ \A w \in Workspaces(S) : Loaded(w) => w.id \in S
           /\ \A s \in AvoSettings(S) :
                Loaded(s) => s.id \in S /\ s \in [kind : {"whole"}, id : S, shown : BOOLEAN]
           /\ \A r \in ActivationStates(S) : Loaded(r) => r.id \in S /\ r.since \in S
<1>1. ~Loaded(NoFile) /\ ~Loaded(TornFile)
  BY DEF Loaded, NoFile, TornFile
<1>2. \A n \in S : /\ WorkspaceRecord(n) \in [kind : {"whole"}, id : S]
                   /\ buildDefaultSettings(n) \in [kind : {"whole"}, id : S, shown : BOOLEAN]
  BY DEF WorkspaceRecord, buildDefaultSettings
<1>3. \A w \in Workspaces(S) : Loaded(w) => w \in [kind : {"whole"}, id : S]
  BY <1>1 DEF Workspaces
<1>4. \A s \in AvoSettings(S) : Loaded(s) => s \in [kind : {"whole"}, id : S, shown : BOOLEAN]
  BY <1>1 DEF AvoSettings
<1>5. \A r \in ActivationStates(S) :
        Loaded(r) => r \in [kind : {"whole"}, id : S, since : S, status : ActivationStatus]
  BY <1>1 DEF ActivationStates
<1>6. /\ NoFile \in Workspaces(S) /\ TornFile \in Workspaces(S)
      /\ NoFile \in AvoSettings(S) /\ TornFile \in AvoSettings(S)
      /\ NoFile \in ActivationStates(S) /\ TornFile \in ActivationStates(S)
  BY DEF Workspaces, AvoSettings, ActivationStates
<1>7. \A n \in S : /\ WorkspaceRecord(n) \in Workspaces(S)
                   /\ buildDefaultSettings(n) \in AvoSettings(S)
  BY <1>2 DEF Workspaces, AvoSettings
<1>8. \A w \in Workspaces(S) : Loaded(w) => w.id \in S
  BY <1>3
<1>9. \A s \in AvoSettings(S) : Loaded(s) => s.id \in S
  BY <1>4
<1>10. \A r \in ActivationStates(S) : Loaded(r) => r.id \in S /\ r.since \in S
  BY <1>5
<1> QED BY <1>4, <1>6, <1>7, <1>8, <1>9, <1>10

(* A command has its number from its first step to its last.               *)
LEMMA NextStep == ASSUME StepInv, [Next]_vars PROVE StepInv'
<1>1. MaxRuns \in Nat
  BY ActivationAssumption
<1>2. \A st \in Ops : Starts(st) =>
        runs' \in 0..MaxRuns /\ op' \in Ops /\ (op' # "idle" => runs' \in 1..MaxRuns)
  BY <1>1 DEF StepInv, Starts
<1>3. \A from : \A to \in Ops : from # "idle" /\ Continues(from, to) =>
        runs' \in 0..MaxRuns /\ op' \in Ops /\ (op' # "idle" => runs' \in 1..MaxRuns)
  BY <1>1 DEF StepInv, Continues
<1>4. \A accident \in Accidents : \A happened :
        Spoil(accident, happened) => spoilt' \subseteq Accidents
  BY DEF StepInv, Spoil
<1>5. {"idle", "hooks", "repair", "entry", "record", "restore", "strip", "delete",
        "init", "reset", "contract", "prefs"} \subseteq Ops
  BY DEF Ops
<1>6. CASE \/ BackUpSettings \/ (\E passed \in Hosts : Activate(passed))
           \/ (\E o \in Objectives : StartSession(o)) \/ ApplyCorrection \/ RemoveGuidance
           \/ ShowSettings \/ ResetSettings
  <2>1. \E st \in {"hooks", "repair", "idle", "restore"} : Starts(st)
    BY <1>6 DEF BackUpSettings, Activate, StartSession, ApplyCorrection, RemoveGuidance,
                ShowSettings, ResetSettings
  <2>2. ignored' = ignored /\ spoilt' = spoilt
    BY <1>6 DEF BackUpSettings, Activate, StartSession, ApplyCorrection, RemoveGuidance,
                ShowSettings, ResetSettings
  <2> QED BY <1>2, <1>5, <2>1, <2>2 DEF StepInv
<1>7. ASSUME NEW reset \in BOOLEAN, StartInit(reset) PROVE StepInv'
  <2>1. Starts("reset") \/ Starts("init")
    BY <1>7 DEF StartInit
  <2>2. ignored' = ignored /\ spoilt' = spoilt
    BY <1>7 DEF StartInit
  <2> QED BY <1>2, <1>5, <2>1, <2>2 DEF StepInv
<1>8. CASE \/ WriteHooks \/ RunSafeRepairs \/ InstallRunEntry \/ PersistActivation
           \/ RestoreSettings \/ StripHooks
           \/ DeleteAvorelo \/ InitWorkspace \/ WriteContract \/ EnsureSettings
  <2>1. \E from \in Ops \ {"idle"}, to \in Ops : Continues(from, to)
    BY <1>5, <1>8 DEF WriteHooks, RunSafeRepairs, InstallRunEntry, PersistActivation,
       RestoreSettings, StripHooks, DeleteAvorelo, InitWorkspace, WriteContract, EnsureSettings
  <2>2. ignored' \in {TRUE, ignored}
    BY <1>8 DEF WriteHooks, RunSafeRepairs, InstallRunEntry, PersistActivation,
       RestoreSettings, StripHooks, DeleteAvorelo, InitWorkspace, WriteContract, EnsureSettings
  <2>3. spoilt' = spoilt \/ RestoreSettings
    BY <1>8 DEF WriteHooks, RunSafeRepairs, InstallRunEntry, PersistActivation,
       StripHooks, DeleteAvorelo, InitWorkspace, WriteContract, EnsureSettings
  <2>4. spoilt' \subseteq Accidents
    <3>1. "stale backup" \in Accidents
      BY DEF Accidents
    <3> QED BY <1>4, <2>3, <3>1 DEF RestoreSettings, StepInv
  <2>5. ignored' \in BOOLEAN
    BY <2>2 DEF StepInv
  <2> QED BY <1>3, <2>1, <2>4, <2>5 DEF StepInv
<1>9. CASE Kill \/ KillFirstWrite
  <2>1. (op' = "idle" /\ runs' = runs) \/ Starts("idle")
    BY <1>9 DEF Kill, KillFirstWrite
  <2>2. ignored' = ignored /\ KilledIn
    BY <1>9 DEF Kill, KillFirstWrite
  <2>3. spoilt' \subseteq Accidents
    BY <2>2 DEF KilledIn, Accidents, StepInv
  <2> QED BY <1>2, <1>5, <2>1, <2>2, <2>3 DEF StepInv
<1>10. CASE \/ \E e \in Events, f \in Foreign :
                 \E groups \in OwnGroup(e, f) \union JoinGroup(e, f) : AddHook(e, f, groups)
            \/ \E e \in Events : RemoveHooks(e)
            \/ \E t \in Pieces, i \in 0..Len(doc) : WriteText(t, i)
            \/ \E i \in DOMAIN doc : CutMarker(i)
  <2>1. /\ op' = op /\ runs' = runs /\ ignored' = ignored
        /\ \/ spoilt' = spoilt
           \/ \E accident \in {"shared group", "cut marker"}, happened \in BOOLEAN :
                Spoil(accident, happened)
    BY <1>10 DEF AddHook, RemoveHooks, WriteText, CutMarker, Edits
  <2>2. {"shared group", "cut marker"} \subseteq Accidents
    BY DEF Accidents
  <2> QED BY <1>4, <2>1, <2>2 DEF StepInv
<1>11. CASE UNCHANGED vars
  BY <1>11 DEF vars, StepInv
<1> QED BY <1>6, <1>7, <1>8, <1>9, <1>10, <1>11 DEF Next

(* The files of init and of activate hold ids that commands have made up.  *)
LEMMA NextFiles == ASSUME StepInv, IdentityInv, FilesInv, [Next]_vars PROVE FilesInv'
<1> DEFINE Ids == 1..MaxRuns
           Any == 0..MaxRuns
<1>1. MaxRuns \in Nat /\ Unknown \in Any /\ \A n \in Ids : n \in Any
  BY ActivationAssumption DEF Unknown
<1>2. op # "idle" => runs \in Ids
  BY DEF StepInv
<1>3. /\ workspace \in Workspaces(Ids) /\ contract \in Workspaces(Ids)
      /\ prefs \in AvoSettings(Any) /\ record \in ActivationStates(Ids) /\ named \in Any
  BY DEF FilesInv
<1>4. SUFFICES /\ workspace' \in Workspaces(Ids) /\ contract' \in Workspaces(Ids)
               /\ prefs' \in AvoSettings(Any) /\ record' \in ActivationStates(Ids)
               /\ named' \in Any
  BY DEF FilesInv
<1> HIDE DEF Ids, Any
<1>5. Loaded(workspace) => workspace.id \in Ids
  BY <1>3, FileShapes
<1>6. Loaded(workspace) => workspace.id \in Any
  BY <1>1, <1>5
<1>7. CASE PersistActivation
  <2>1. /\ op = "record" /\ record' = runFullActivation(record, ~ignored, runs)
        /\ UNCHANGED <<workspace, contract, prefs, named>>
    BY <1>7 DEF PersistActivation, Continues, local
  <2>2. (Loaded(record) => record.id \in Ids /\ record.since \in Ids) /\ runs \in Ids
    BY <1>2, <1>3, <2>1, FileShapes
  <2>3. runFullActivation(record, ~ignored, runs)
          \in [kind : {"whole"}, id : Ids, since : Ids, status : ActivationStatus]
    BY <2>2 DEF runFullActivation, ActivationStatus
  <2> QED BY <1>3, <2>1, <2>3 DEF ActivationStates
<1>8. CASE InitWorkspace
  <2>1. PICK step \in {"init", "reset"} :
          op = step /\ workspace' = WorkspaceRecord(WorkspaceId(workspace, step = "reset", runs))
    BY <1>8 DEF InitWorkspace, Continues
  <2>2. UNCHANGED <<contract, prefs, record, named>>
    BY <1>8 DEF InitWorkspace
  <2>3. runs \in Ids
    BY <1>2, <2>1
  <2>4. WorkspaceId(workspace, step = "reset", runs) \in Ids
    BY <1>5, <2>3 DEF WorkspaceId
  <2>5. workspace' \in Workspaces(Ids)
    BY <2>1, <2>4, FileShapes
  <2> QED BY <1>3, <2>2, <2>5
<1>9. CASE WriteContract
  <2>1. /\ op = "contract" /\ UNCHANGED <<workspace, prefs, record, named>>
        /\ contract' = WorkspaceRecord(buildActivationContract(workspace).workspaceId)
    BY <1>9 DEF WriteContract, Continues
  <2>2. Loaded(workspace)
    BY <2>1 DEF IdentityInv
  <2>3. buildActivationContract(workspace).workspaceId = workspace.id
    BY <2>2 DEF buildActivationContract
  <2>4. contract' \in Workspaces(Ids)
    BY <1>5, <2>1, <2>2, <2>3, FileShapes
  <2> QED BY <1>3, <2>1, <2>4
<1>10. ASSUME NEW id \in Any PROVE ensureSettings(prefs, id) \in AvoSettings(Any)
  BY <1>3, FileShapes DEF ensureSettings
<1>11. CASE EnsureSettings
  <2>1. /\ op = "prefs" /\ UNCHANGED <<workspace, contract, record>> /\ named' = workspace.id
        /\ prefs' = LET s == ensureSettings(prefs, workspace.id)
                    IN [s EXCEPT !.shown = @ \/ Created]
    BY <1>11 DEF EnsureSettings, Continues
  <2>2. workspace.id \in Any
    BY <1>6, <2>1 DEF IdentityInv
  <2>3. PICK s : s = ensureSettings(prefs, workspace.id)
    OBVIOUS
  <2>4. s \in AvoSettings(Any) /\ Loaded(s)
    <3>1. Loaded(buildDefaultSettings(workspace.id))
      BY DEF Loaded, buildDefaultSettings
    <3> QED BY <1>10, <2>2, <2>3, <3>1 DEF ensureSettings
  <2>5. s \in [kind : {"whole"}, id : Any, shown : BOOLEAN]
    BY <2>4, FileShapes
  <2>6. prefs' = [s EXCEPT !.shown = s.shown \/ Created]
    BY <2>1, <2>3
  <2>7. Created \in BOOLEAN
    BY DEF Created, Loaded
  <2>8. prefs' \in [kind : {"whole"}, id : Any, shown : BOOLEAN]
    <3>1. PICK c \in BOOLEAN : c = (s.shown \/ Created)
      BY <2>5, <2>7
    <3>2. prefs' = [s EXCEPT !.shown = c]
      BY <2>6, <3>1
    <3> QED BY <2>5, <3>2
  <2> QED BY <1>3, <2>1, <2>2, <2>8 DEF AvoSettings
<1>12. CASE ShowSettings
  <2>1. /\ UNCHANGED <<workspace, contract, record, named>>
        /\ prefs' = ensureSettings(prefs, buildActivationContract(workspace).workspaceId)
    BY <1>12 DEF ShowSettings
  <2>2. buildActivationContract(workspace).workspaceId \in Any
    BY <1>1, <1>6 DEF buildActivationContract
  <2> QED BY <1>3, <1>10, <2>1, <2>2
<1>13. CASE ResetSettings
  <2>1. /\ UNCHANGED <<workspace, contract, record, named>>
        /\ prefs' = resetSettings(prefs, workspace)
    BY <1>13 DEF ResetSettings
  <2>2. Loaded(prefs) => prefs.id \in Any
    BY <1>3, FileShapes
  <2>3. prefs' \in AvoSettings(Any)
    BY <1>1, <1>6, <2>1, <2>2, FileShapes DEF resetSettings
  <2> QED BY <1>3, <2>1, <2>3
<1>14. CASE DeleteAvorelo
  BY <1>1, <1>14, FileShapes DEF DeleteAvorelo
<1>15. CASE \E reset \in BOOLEAN : StartInit(reset)
  BY <1>1, <1>3, <1>15 DEF StartInit
<1>16. CASE Kill
  <2>1. /\ workspace' \in {workspace, TornFile, NoFile} /\ contract' \in {contract, TornFile, NoFile}
        /\ prefs' \in {prefs, TornFile, NoFile} /\ record' \in {record, TornFile, NoFile}
        /\ named' \in {named, Unknown}
    BY <1>16 DEF Kill, Torn, Gone
  <2>2. \A S : /\ {NoFile, TornFile} \subseteq Workspaces(S)
               /\ {NoFile, TornFile} \subseteq AvoSettings(S)
               /\ {NoFile, TornFile} \subseteq ActivationStates(S)
    BY FileShapes
  <2> QED BY <1>1, <1>3, <2>1, <2>2
<1>18. CASE KillFirstWrite
  <2>1. UNCHANGED <<workspace, contract, record, named>> /\ prefs' \in {prefs, TornFile}
    BY <1>18 DEF KillFirstWrite
  <2> QED BY <1>3, <2>1, FileShapes
<1>17. CASE \/ BackUpSettings \/ WriteHooks \/ (\E passed \in Hosts : Activate(passed))
            \/ RunSafeRepairs \/ InstallRunEntry \/ (\E o \in Objectives : StartSession(o))
            \/ ApplyCorrection \/ RemoveGuidance \/ RestoreSettings \/ StripHooks
            \/ (\E e \in Events, f \in Foreign :
                 \E groups \in OwnGroup(e, f) \union JoinGroup(e, f) : AddHook(e, f, groups))
            \/ (\E e \in Events : RemoveHooks(e))
            \/ (\E t \in Pieces, i \in 0..Len(doc) : WriteText(t, i))
            \/ (\E i \in DOMAIN doc : CutMarker(i)) \/ UNCHANGED vars
  <2>1. UNCHANGED <<workspace, contract, prefs, record, named>>
    BY <1>17 DEF BackUpSettings, WriteHooks, Activate, RunSafeRepairs, InstallRunEntry,
       StartSession, ApplyCorrection, RemoveGuidance, RestoreSettings, StripHooks, AddHook,
       RemoveHooks, WriteText, CutMarker, vars, local
  <2> QED BY <1>3, <2>1
<1> QED
  BY <1>7, <1>8, <1>9, <1>11, <1>12, <1>13, <1>14, <1>15, <1>16, <1>17, <1>18 DEF Next

(* A repeated activation replaces Avorelo's group; a backup has none.      *)
LEMMA NextOnce ==
    ASSUME HookInv, Once(settings.hooks), [Next]_vars PROVE Once(settings'.hooks)
<1>1. settings.hooks \in HookMaps
  BY HooksNow
<1>2. \A h \in HookMaps : Json(h).hooks = h
  BY JsonFile
<1>3. CASE settings' = settings
  BY <1>3
<1>4. CASE WriteHooks
  <2>1. PICK h : h = Merge(settings.hooks)
    OBVIOUS
  <2>2. h \in HookMaps /\ settings'.hooks = h
    BY <1>1, <1>2, <1>4, <2>1, MergeKeepsOthers DEF WriteHooks
  <2>3. \A e \in Events : \A g \in h[e] : IsAvoreloHook(g) => g = {Avorelo}
    BY <1>1, <2>1, MergeKeepsOthers DEF OwnGroups
  <2> QED BY <2>2, <2>3 DEF Once
<1>5. CASE RestoreSettings
  <2>1. backups # <<>> => settings' = backups[Len(backups)]
    BY <1>5 DEF RestoreSettings
  <2>2. CASE backups = <<>>
    BY <1>3, <1>5, <2>2 DEF RestoreSettings
  <2>3. CASE backups # <<>>
    <3>1. Len(backups) \in DOMAIN backups
      <4>1. backups \in Seq(SettingsFiles)
        BY DEF HookInv, HooksTyped
      <4>2. Len(backups) \in Nat /\ DOMAIN backups = 1..Len(backups) /\ Len(backups) # 0
        BY <2>3, <4>1
      <4> QED BY <4>2
    <3>2. \A e \in Events : \A g \in backups[Len(backups)].hooks[e] : ~IsAvoreloHook(g)
      BY <3>1 DEF HookInv, BackupsPristine, IsAvoreloHook, Avorelo
    <3> QED BY <2>1, <2>3, <3>2 DEF Once
  <2> QED BY <2>2, <2>3
<1>6. CASE StripHooks
  <2>1. CASE settings.kind # "json"
    BY <1>3, <1>6, <2>1 DEF StripHooks, Stripped
  <2>2. CASE settings.kind = "json"
    <3>1. PICK h : h = Strip(settings.hooks)
      OBVIOUS
    <3>2. h \in HookMaps /\ \A e \in Events : \A g \in h[e] : ~IsAvoreloHook(g)
      BY <1>1, <3>1, StripKeepsOthers
    <3>3. settings'.hooks = h
      BY <1>2, <1>6, <2>2, <3>1, <3>2 DEF StripHooks, Stripped
    <3> QED BY <3>2, <3>3 DEF Once
  <2> QED BY <2>1, <2>2
<1>7. CASE Kill
  <2>1. settings' = settings \/ settings' = TornSettings
    BY <1>7 DEF Kill
  <2>2. \A e \in Events : TornSettings.hooks[e] = {}
    BY EmptyFiles DEF NoHooks
  <2> QED BY <1>3, <2>1, <2>2 DEF Once
<1>8. ASSUME NEW e \in Events, NEW f \in Foreign,
             NEW groups \in OwnGroup(e, f) \union JoinGroup(e, f), AddHook(e, f, groups)
      PROVE  Once(settings'.hooks)
  <2>1. PICK h : h = [settings.hooks EXCEPT ![e] = groups]
    OBVIOUS
  <2>2. settings' = Json(h) /\ \A d \in Events : h[d] = IF d = e THEN groups ELSE settings.hooks[d]
    BY <1>1, <1>8, <2>1 DEF AddHook, HookMaps
  <2>3. settings'.hooks = h
    BY <2>2 DEF Json
  <2>4. f # Avorelo
    BY ActivationAssumption DEF Avorelo
  <2>5. \A g, k \in settings.hooks[e] : IsAvoreloHook(g) /\ IsAvoreloHook(k) => g = k
    BY DEF Once
  <2>6. \A g, k \in groups : IsAvoreloHook(g) /\ IsAvoreloHook(k) => g = k
    <3>1. CASE groups \in OwnGroup(e, f)
      BY <2>4, <2>5, <3>1 DEF OwnGroup, IsAvoreloHook
    <3>2. CASE groups \in JoinGroup(e, f)
      <4>1. PICK q \in settings.hooks[e] : groups = (settings.hooks[e] \ {q}) \union {q \union {f}}
        BY <3>2 DEF JoinGroup
      <4>2. IsAvoreloHook(q \union {f}) => IsAvoreloHook(q)
        BY <2>4 DEF IsAvoreloHook
      <4> QED BY <2>5, <4>1, <4>2
    <3> QED BY <3>1, <3>2
  <2> QED BY <2>2, <2>3, <2>6 DEF Once
<1>9. ASSUME NEW e \in Events, RemoveHooks(e) PROVE Once(settings'.hooks)
  <2>1. PICK h : h = [settings.hooks EXCEPT ![e] = {}]
    OBVIOUS
  <2>2. settings' = Json(h) /\ \A d \in Events : h[d] = IF d = e THEN {} ELSE settings.hooks[d]
    BY <1>1, <1>9, <2>1 DEF RemoveHooks, HookMaps
  <2>3. settings'.hooks = h
    BY <2>2 DEF Json
  <2> QED BY <2>2, <2>3 DEF Once
<1>10. CASE \/ BackUpSettings \/ (\E passed \in Hosts : Activate(passed))
            \/ RunSafeRepairs \/ InstallRunEntry \/ PersistActivation
            \/ (\E o \in Objectives : StartSession(o)) \/ ApplyCorrection
            \/ RemoveGuidance \/ DeleteAvorelo \/ (\E reset \in BOOLEAN : StartInit(reset))
            \/ InitWorkspace \/ WriteContract \/ EnsureSettings \/ ShowSettings \/ ResetSettings
            \/ (\E t \in Pieces, i \in 0..Len(doc) : WriteText(t, i))
            \/ (\E i \in DOMAIN doc : CutMarker(i)) \/ KillFirstWrite \/ UNCHANGED vars
  <2>1. settings' = settings
    BY <1>10 DEF BackUpSettings, Activate, RunSafeRepairs, InstallRunEntry, PersistActivation,
       StartSession, ApplyCorrection, RemoveGuidance, DeleteAvorelo, StartInit, InitWorkspace,
       WriteContract, EnsureSettings, ShowSettings, ResetSettings, WriteText, CutMarker,
       KillFirstWrite, vars
  <2> QED BY <1>3, <2>1
<1> QED BY <1>4, <1>5, <1>6, <1>7, <1>8, <1>9, <1>10 DEF Next

(* Activation's files, and what its commands remember, have their types,   *)
(* and an event has Avorelo's group once at most.                          *)
THEOREM TypeCorrect == Spec => []TypeOK
<1>1. Init => StepInv /\ FilesInv /\ Once(settings.hooks)
  <2> SUFFICES ASSUME Init PROVE StepInv /\ FilesInv /\ Once(settings.hooks)
    OBVIOUS
  <2>1. /\ record = NoFile /\ workspace = NoFile /\ contract = NoFile /\ prefs = NoFile
        /\ named = 0 /\ op = "idle" /\ runs = 0 /\ spoilt = {} /\ ignored \in BOOLEAN
    BY DEF Init, Unknown
  <2>2. 0 \in 0..MaxRuns
    BY ActivationAssumption
  <2>3. StepInv
    BY <2>1, <2>2 DEF StepInv, Ops
  <2>4. FilesInv
    BY <2>1, <2>2, FileShapes DEF FilesInv
  <2>5. Once(settings.hooks)
    <3>1. \A f \in Foreign : f # Avorelo
      BY ActivationAssumption DEF Avorelo
    <3>2. \A e \in Events : NoHooks[e] = {}
      BY DEF NoHooks
    <3>3. CASE settings \in {Absent, Json(NoHooks)}
      BY <3>2, <3>3 DEF Absent, Json, Once
    <3>4. ASSUME NEW e \in Events, NEW f \in Foreign,
                 settings = Json([NoHooks EXCEPT ![e] = {{f}}])
          PROVE  Once(settings.hooks)
      <4>1. PICK h : h = [NoHooks EXCEPT ![e] = {{f}}]
        OBVIOUS
      <4>2. settings.hooks = h /\ \A d \in Events : h[d] = {} \/ h[d] = {{f}}
        BY <3>4, <4>1 DEF Json, NoHooks
      <4> QED BY <4>2 DEF Once
    <3> QED BY <3>3, <3>4 DEF Init
  <2> QED BY <2>3, <2>4, <2>5
<1>2. StepInv /\ FilesInv /\ Once(settings.hooks) /\ HookInv /\ IdentityInv /\ [Next]_vars
        => (StepInv /\ FilesInv /\ Once(settings.hooks))'
  <2> SUFFICES ASSUME StepInv, FilesInv, Once(settings.hooks), HookInv, IdentityInv, [Next]_vars
               PROVE  StepInv' /\ FilesInv' /\ (Once(settings.hooks))'
    OBVIOUS
  <2>1. Once(settings'.hooks)
    BY NextOnce
  <2>2. (Once(settings.hooks))'
    BY <2>1 DEF Once, IsAvoreloHook, Avorelo
  <2> QED BY <2>2, NextStep, NextFiles
<1>3. AllInv => TypeOK
  <2> SUFFICES ASSUME AllInv PROVE TypeOK
    OBVIOUS
  <2>1. /\ settings.kind \in {"absent", "torn", "json"}
        /\ settings.hooks \in [Events -> SUBSET SUBSET (Foreign \union {Avorelo})]
        /\ wanted \subseteq Events \X Foreign
    BY DEF AllInv, HookInv, HooksTyped, SettingsFiles, HookMaps
  <2>2. \A i \in DOMAIN doc : doc[i][1] \in {"user", "gap", "begin", "body", "end"}
    <3>1. \A i \in DOMAIN doc : doc[i] \in Parts
      <4>1. doc \in Seq(Parts)
        BY DEF AllInv, TextInv
      <4> QED BY <4>1
    <3> QED BY <3>1, PartKinds
  <2>3. \A e \in Events : \A g, h \in settings.hooks[e] :
          IsAvoreloHook(g) /\ IsAvoreloHook(h) => g = h
    BY DEF AllInv, Once
  <2>4. /\ ignored \in BOOLEAN /\ spoilt \subseteq Accidents
        /\ {workspace, contract} \subseteq Workspaces(1..MaxRuns)
        /\ prefs \in AvoSettings(0..MaxRuns) /\ record \in ActivationStates(1..MaxRuns)
        /\ named \in 0..MaxRuns
    BY DEF AllInv, StepInv, FilesInv
  <2>5. op \in {"idle", "hooks", "repair", "entry", "record", "restore", "strip", "delete",
                "init", "reset", "contract", "prefs"}
    BY DEF AllInv, StepInv, Ops
  <2> QED BY <2>1, <2>2, <2>3, <2>4, <2>5 DEF TypeOK
<1>4. HookInv /\ IdentityInv /\ TextInv /\ StepInv /\ FilesInv /\ Once(settings.hooks) => AllInv
  BY DEF AllInv
<1> QED
  BY <1>1, <1>2, <1>3, <1>4, HooksInvariant, IdentityInvariant, TextInvariant, PTL DEF Spec
=============================================================================
