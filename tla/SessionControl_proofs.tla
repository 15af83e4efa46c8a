----------------------- MODULE SessionControl_proofs -----------------------
(***************************************************************************)
(* Theorems about the control sessions: their types, what no hook lets     *)
(* through, and what an ended session leaves behind.                       *)
(***************************************************************************)
EXTENDS SessionControl, FiniteSetTheorems, WellFoundedInduction, TLAPS

(* A finite set of numbers has a greatest one: what loadLatestSession      *)
(* takes, for the sorted file names.                                       *)
LEMMA FiniteHasMax ==
    ASSUME NEW T \in SUBSET Nat, IsFiniteSet(T), T # {}
    PROVE  \E i \in T : \A j \in T : j <= i
<1> DEFINE Above(i) == {j \in T : j > i}
           All == {Above(i) : i \in T}
<1>1. All \subseteq FiniteSubsetsOf(T) /\ All # {}
  <2>1. \A i \in T : Above(i) \in FiniteSubsetsOf(T)
    BY FS_Subset DEF FiniteSubsetsOf
  <2> QED
    BY <2>1
<1>2. IsWellFoundedOn(StrictSubsetOrdering(T), FiniteSubsetsOf(T))
  BY FS_StrictSubsetOrderingWellFounded
<1>3. PICK A \in All : \A B \in All : <<B, A>> \notin StrictSubsetOrdering(T)
  <2> HIDE DEF All
  <2> QED
    BY <1>1, <1>2, WFMin
<1>4. PICK i \in T : A = Above(i)
  BY <1>3
<1>5. ASSUME NEW j \in T, j > i PROVE FALSE
  <2>1. \A k \in T : (k > j => k > i) /\ ~(j > j)
    BY <1>5
  <2>2. Above(j) \subseteq Above(i) /\ j \in Above(i) /\ ~(j \in Above(j))
    BY <1>5, <2>1
  <2>3. <<Above(j), Above(i)>> \in StrictSubsetOrdering(T)
    BY <2>2 DEF StrictSubsetOrdering
  <2> QED
    BY <1>3, <1>4, <2>3
<1> QED
  BY <1>5

(* Where there is an open session, the latest is one of them.              *)
LEMMA LatestIsOpen ==
    ASSUME OpenSessions # {}
    PROVE  Latest \in OpenSessions
<1>1. OpenSessions \in SUBSET Nat /\ IsFiniteSet(OpenSessions)
  BY SessionAssumption, FS_Subset DEF OpenSessions
<1> QED
  BY <1>1, FiniteHasMax DEF Latest
-----------------------------------------------------------------------------
(* Types.                                                                  *)

Stages == Updates \union {"idle", "receipt", "packet", "again"}
Io == {"none", "read", "truncate", "write"}
NoEvent == [kind |-> "none"]

Handlers ==
    [stage : Stages, io : Io, event : Event \union {NoEvent}, id : Ids \union {0},
     session : Sessions, mem : Sessions, found : SUBSET SignalTypes, round : 0..2]

(* The stages that the kind of an event leads to.                          *)
Ending == {"end", "receipt", "close", "interrupt", "packet", "again"}
StagesOf(e) ==
    CASE e.kind = "watch" -> {"watch"}
      [] e.kind = "evidence" -> {"evidence"}
      [] e.kind = "SessionEnd" -> Ending
      [] OTHER -> {"record", "drift", "correct"}

(* An event carries what its kind says.                                    *)
LEMMA EventFacts ==
    ASSUME NEW e \in Event
    PROVE  /\ e.kind \in EventKinds /\ e.kind # "none"
           /\ e.kind = "edit" => e.file \in Files
           /\ e.kind = "bash" => e.command \in Commands
           /\ e.kind = "watch" => e.changed \subseteq Files
           /\ e.kind = "evidence" => e.kinds \in EvidenceChoices
<1>1. CASE e \in [kind : {"edit"}, file : Files, secret : SecretContents]
  BY <1>1 DEF Event
<1>2. CASE e \in [kind : {"bash"}, command : Commands]
  BY <1>2 DEF Event
<1>3. CASE e \in [kind : {"watch"}, changed : SUBSET Files \ {{}}]
  BY <1>3 DEF Event
<1>4. CASE e \in [kind : {"evidence"}, kinds : EvidenceChoices]
  BY <1>4 DEF Event
<1>5. CASE e \in [kind : OtherTools, secret : SecretContents]
  BY <1>5 DEF Event, OtherTools
<1>6. CASE e \in [kind : {"UserPromptSubmit", "PostToolUse", "Stop", "SessionEnd"}]
  BY <1>6 DEF Event
<1> QED
  BY <1>1, <1>2, <1>3, <1>4, <1>5, <1>6 DEF Event

(* The gate's decision over a session is a decision.                       *)
LEMMA GateDecides == ASSUME NEW s PROVE sessionGate(s) \in Decisions
<1> DEFINE input == [graded |-> gradeAll([kind : s.evidence, hasRef : {TRUE}]),
                     policyVerdict |-> "allow", reviewerNoGo |-> FALSE,
                     environmentCompromised |-> FALSE, stopConditionMet |-> FALSE]
<1>1. sessionGate(s) = decide(input)
  BY DEF sessionGate
<1>2. input.policyVerdict = "allow"
  OBVIOUS
<1> HIDE DEF input
<1> QED
  BY <1>1, <1>2 DEF decide, Decisions

(* The fields of a session, and the numbers a patch makes of them.         *)
LEMMA SessionFields ==
    ASSUME NEW s \in Sessions
    PROVE  /\ s.calls \in Nat /\ s.corrections \in Nat /\ s.files \in [Files -> Nat]
           /\ s.commands \subseteq Commands /\ s.sensitive \subseteq Sensitive
           /\ s.evidence \subseteq Kinds /\ s.signals \subseteq SignalTypes
           /\ s.calls + 1 \in Nat /\ s.corrections + 1 \in Nat
<1>1. /\ s.calls \in Nat /\ s.corrections \in Nat /\ s.files \in [Files -> Nat]
      /\ s.commands \subseteq Commands /\ s.sensitive \subseteq Sensitive
      /\ s.evidence \subseteq Kinds /\ s.signals \subseteq SignalTypes
  BY DEF Sessions
<1>2. \A n \in Nat : n + 1 \in Nat
  OBVIOUS
<1> QED
  BY <1>1, <1>2

(* A patch keeps a session a session.                                      *)
LEMMA RecordTyped ==
    ASSUME NEW e \in Event, NEW old \in Sessions, NEW s \in Sessions
    PROVE  RecordPatch(e, old, s) \in Sessions
<1>0. old.calls + 1 \in Nat
  BY SessionFields
<1>1. CASE e.kind \in OtherTools \union {"UserPromptSubmit"}
  <2>1. RecordPatch(e, old, s) = [s EXCEPT !.calls = old.calls + 1]
    BY <1>1 DEF RecordPatch, OtherTools
  <2> QED
    BY <1>0, <2>1 DEF Sessions
<1>2. CASE e.kind = "edit"
  <2>1. e.file \in Files
    BY <1>2, EventFacts
  <2> DEFINE files == [old.files EXCEPT ![e.file] = old.files[e.file] + 1]
             sensitive == IF e.file \in Sensitive THEN old.sensitive \union {e.file}
                                                  ELSE s.sensitive
  <2>2. files \in [Files -> Nat]
    <3>1. old.files \in [Files -> Nat]
      BY SessionFields
    <3>2. old.files[e.file] + 1 \in Nat
      BY <2>1, <3>1
    <3> QED
      BY <3>1, <3>2
  <2>3. sensitive \subseteq Sensitive
    BY SessionFields
  <2>4. RecordPatch(e, old, s) =
          [s EXCEPT !.calls = old.calls + 1, !.files = files, !.sensitive = sensitive]
    BY <1>2 DEF RecordPatch, OtherTools
  <2> HIDE DEF files, sensitive
  <2> QED
    BY <1>0, <2>2, <2>3, <2>4 DEF Sessions
<1>3. CASE e.kind = "bash"
  <2>1. old.commands \union {e.command} \subseteq Commands
    BY <1>3, EventFacts, SessionFields
  <2>2. RecordPatch(e, old, s) =
          [s EXCEPT !.calls = old.calls + 1, !.commands = old.commands \union {e.command}]
    BY <1>3 DEF RecordPatch, OtherTools
  <2> QED
    BY <1>0, <2>1, <2>2 DEF Sessions
<1>4. CASE e.kind \notin OtherTools \union {"UserPromptSubmit", "edit", "bash"}
  BY <1>4 DEF RecordPatch
<1> QED
  BY <1>1, <1>2, <1>3, <1>4

(* watchOnce leaves a session record: changed files count once each.       *)
LEMMA WatchTyped ==
    ASSUME NEW e \in Event, e.kind = "watch", NEW old \in Sessions, NEW s \in Sessions
    PROVE  WatchPatch(e, old, s) \in Sessions
<1>1. NewFiles(e, old) \subseteq Files /\ Cardinality(NewFiles(e, old)) \in Nat
  BY EventFacts, SessionAssumption, FS_Subset, FS_CardinalityType DEF NewFiles
<1>2. WatchView(e, old) \in Sessions
  <2>1. [f \in Files |-> IF f \in NewFiles(e, old) THEN 1 ELSE old.files[f]] \in [Files -> Nat]
    BY SessionFields
  <2>2. old.calls + Cardinality(NewFiles(e, old)) \in Nat
    <3>1. \A m, n \in Nat : m + n \in Nat
      OBVIOUS
    <3> QED
      BY <1>1, <3>1, SessionFields
  <2> QED
    BY <2>1, <2>2 DEF WatchView, Sessions
<1>3. detectDrift(WatchView(e, old)) \subseteq SignalTypes
  BY DEF detectDrift
<1> DEFINE found == detectDrift(WatchView(e, old))
           view == WatchView(e, old)
<1>4. WatchPatch(e, old, s) =
        [s EXCEPT !.files = view.files, !.calls = view.calls,
                  !.sensitive = old.sensitive \union (NewFiles(e, old) \intersect Sensitive),
                  !.signals = old.signals \union found,
                  !.corrections = IF buildCorrectionGuidance(found) = {} THEN s.corrections
                                  ELSE old.corrections + 1]
  BY DEF WatchPatch
<1>5. view \in Sessions /\ found \subseteq SignalTypes
  BY <1>2, <1>3
<1> HIDE DEF view, found
<1>6. /\ view.files \in [Files -> Nat] /\ view.calls \in Nat
      /\ old.sensitive \union (NewFiles(e, old) \intersect Sensitive) \subseteq Sensitive
      /\ old.signals \union found \subseteq SignalTypes
      /\ (IF buildCorrectionGuidance(found) = {} THEN s.corrections ELSE old.corrections + 1) \in Nat
  BY <1>5, SessionFields
<1> QED
  BY <1>4, <1>6 DEF Sessions

(* Whatever the stage, the patch of an update is a session record.         *)
LEMMA PatchTyped ==
    ASSUME NEW x \in Handlers, x.event \in Event, x.stage \in Updates,
           x.stage \in StagesOf(x.event), NEW s \in Sessions
    PROVE  Patch(x, s) \in Sessions
<1>0. x.session \in Sessions /\ x.found \subseteq SignalTypes
  BY DEF Handlers
<1>1. CASE x.stage = "record"
  BY <1>0, <1>1, RecordTyped DEF Patch
<1>2. CASE x.stage = "drift"
  BY <1>0, <1>2 DEF Patch, Sessions, rerouteOnDrift
<1>3. CASE x.stage = "correct"
  <2>1. x.session.corrections + 1 \in Nat
    BY <1>0, SessionFields
  <2> QED
    BY <1>3, <2>1 DEF Patch, Sessions
<1>4. CASE x.stage = "watch"
  BY <1>0, <1>4, WatchTyped DEF Patch, StagesOf, Ending
<1>5. CASE x.stage = "evidence"
  <2>1. x.event.kinds \subseteq Kinds
    BY <1>5, EventFacts, SessionAssumption DEF StagesOf, Ending
  <2> QED
    BY <1>0, <1>5, <2>1 DEF Patch, Sessions
<1>6. CASE x.stage = "end"
  BY <1>6 DEF Patch
<1>7. CASE x.stage = "close"
  BY <1>7, GateDecides DEF Patch, Sessions
<1>8. CASE x.stage = "interrupt"
  BY <1>8 DEF Patch, Sessions
<1> QED
  BY <1>1, <1>2, <1>3, <1>4, <1>5, <1>6, <1>7, <1>8 DEF Updates
-----------------------------------------------------------------------------
(* The invariant of all behaviours, races, crashes and torn files included.*)

Known == {i \in Ids : disk[i].status # "none"}
Receipted == {i \in Ids : receipt[i] # "none"}

(* A handler between two of its steps: it works on a known session, at a   *)
(* stage of its event; what it is about to write closes no session without *)
(* a receipt; and a command has not got lost on the way from the event     *)
(* through the session to the signals.                                     *)
HandlerFits(x, known, receipted) ==
    /\ x.stage = "idle" => x = Idle
    /\ x.stage # "idle" => x.event \in Event /\ x.id \in known /\ x.stage \in StagesOf(x.event)
    /\ x.io \in {"truncate", "write"} =>
         /\ x.stage \in Updates
         /\ x.mem.status # "none"
         /\ x.mem.status = "closed" => x.id \in receipted
    /\ x.stage = "close" => x.id \in receipted
    /\ x.event.kind = "bash" =>
         /\ x.stage = "record" /\ x.io \in {"truncate", "write"} =>
              x.event.command \in x.mem.commands
         /\ x.stage \in {"drift", "correct"} /\ x.event.command \in Destructive =>
              "destructive_action_attempted" \in x.found

(* What DestructiveNeedsApproval says of one answer.                       *)
AnswerSafe(a) ==
    a.event.kind = "bash" /\ a.verdict = "allow" =>
        /\ a.event.command \notin Refused
        /\ a.session # "none" => a.event.command \notin Destructive

SessionInv ==
    /\ disk \in [Ids -> Sessions]
    /\ torn \subseteq Known
    /\ receipt \in [Ids -> Decisions \union {"none"}]
    /\ packets \subseteq Ids
    /\ at \in [Hooks -> Handlers]
    /\ answer = [p \in Hooks |-> answer[p]]
    /\ events \in 0..MaxEvents
    /\ raced \in BOOLEAN
    /\ \A p \in Hooks : HandlerFits(at[p], Known, Receipted)
    /\ \A p \in Hooks : AnswerSafe(answer[p])
    /\ \A i \in Ids : disk[i].status = "closed" => i \in Receipted
-----------------------------------------------------------------------------
(* The invariant of behaviours without a race or a crash.                  *)

(* A session nobody works on has the papers of its status.                 *)
Papers(i) ==
    /\ receipt[i] # "none" <=> disk[i].status = "closed"
    /\ disk[i].status = "closed" => disk[i].closeReason = receipt[i]
    /\ disk[i].status = "interrupted" <=> i \in packets

(* What a lone handler has done so far to its session, and what it holds.  *)
Progress(x) ==
    /\ x.id \in torn <=> x.io = "write"
    /\ x.stage = "again" => Papers(x.id)
    /\ x.stage \in Updates \union {"receipt"} =>
         disk[x.id].status = "open" /\ x.id \notin packets
    /\ x.stage \in (Updates \union {"receipt", "packet"}) \ {"close"} => receipt[x.id] = "none"
    /\ x.stage = "close" => receipt[x.id] = sessionGate(x.session)
    /\ x.stage = "packet" => disk[x.id].status = "interrupted"
    /\ x.io \in {"truncate", "write"} =>
         x.mem.status = CASE x.stage = "close" -> "closed"
                          [] x.stage = "interrupt" -> "interrupted"
                          [] OTHER -> "open"
    /\ x.io \in {"truncate", "write"} /\ x.stage = "close" =>
         x.mem.closeReason = sessionGate(x.session)
    /\ x.event.kind \in PreToolUse /\ "reset" \in x.session.commands =>
         /\ x.stage = "record" /\ x.io = "read" => "reset" \in disk[x.id].commands
         /\ x.stage = "record" /\ x.io \in {"truncate", "write"} => "reset" \in x.mem.commands
         /\ x.stage \in {"drift", "correct"} => "destructive_action_attempted" \in x.found

AnswerSticks(a) == a.event.kind \in PreToolUse /\ "reset" \in a.seen => a.verdict # "allow"

SerialInv ==
    ~raced =>
        /\ \A p, q \in Hooks : at[p] # Idle /\ at[q] # Idle => p = q
        /\ \A i \in Ids : (\A p \in Hooks : at[p] = Idle \/ at[p].id # i) =>
              Papers(i) /\ i \notin torn
        /\ \A p \in Hooks : at[p] # Idle => Progress(at[p])
        /\ \A p \in Hooks : AnswerSticks(answer[p])
-----------------------------------------------------------------------------
(* The steps of a handler keep it fitting.                                 *)

(* Files and receipts that come into being do not disturb a handler.       *)
LEMMA FitsMonotone ==
    ASSUME NEW x, NEW k, NEW r, NEW k2, NEW r2, HandlerFits(x, k, r), k \subseteq k2, r \subseteq r2
    PROVE  HandlerFits(x, k2, r2)
  BY DEF HandlerFits

(* A process that handles nothing fits the invariant, and a session that   *)
(* does not exist is a record like the others.                             *)
LEMMA IdleFits ==
    /\ Idle \in Handlers
    /\ EmptySession \in Sessions
    /\ \A k, r : HandlerFits(Idle, k, r)
<1>1. EmptySession \in Sessions
  <2>1. [f \in Files |-> 0] \in [Files -> Nat]
    OBVIOUS
  <2> QED
    BY <2>1 DEF EmptySession, Sessions
<1>2. Idle \in Handlers
  BY <1>1 DEF Idle, Handlers, Stages, Io, NoEvent
<1>3. \A k, r : HandlerFits(Idle, k, r)
  BY DEF HandlerFits, Idle
<1> QED
  BY <1>1, <1>2, <1>3

(* Going on to another stage of the same event.                            *)
LEMMA ToFits ==
    ASSUME NEW x \in Handlers, NEW k, NEW r, HandlerFits(x, k, r), x.stage # "idle",
           NEW stage \in Stages \ {"idle"}, stage \in StagesOf(x.event),
           stage = "close" => x.id \in r,
           x.event.kind = "bash" /\ stage \in {"drift", "correct"}
             /\ x.event.command \in Destructive => "destructive_action_attempted" \in x.found
    PROVE  To(x, stage) \in Handlers /\ HandlerFits(To(x, stage), k, r)
<1>1. To(x, stage) \in Handlers
  BY IdleFits DEF To, Handlers, Io
<1>2. /\ To(x, stage).stage = stage /\ To(x, stage).io = "read" /\ To(x, stage).event = x.event
      /\ To(x, stage).id = x.id /\ To(x, stage).found = x.found
  BY DEF To, Handlers
<1> QED
  BY <1>1, <1>2 DEF HandlerFits

(* Going back to the second SessionEnd, or to the end.                     *)
LEMMA EndFits ==
    ASSUME NEW x \in Handlers, NEW k, NEW r, HandlerFits(x, k, r), x.stage # "idle",
           x.event.kind = "SessionEnd"
    PROVE  EndHandled(x) \in Handlers /\ HandlerFits(EndHandled(x), k, r)
<1>1. "again" \in Stages \ {"idle"} /\ "again" \in StagesOf(x.event)
  BY DEF Stages, StagesOf, Ending
<1>2. To(x, "again") \in Handlers /\ HandlerFits(To(x, "again"), k, r)
  BY <1>1, ToFits
<1> QED
  BY <1>2, IdleFits DEF EndHandled

(* What follows an update.  A command that the written session carries is  *)
(* seen by the detector when it is destructive.                            *)
LEMMA AfterFits ==
    ASSUME NEW x \in Handlers, NEW k, NEW r, HandlerFits(x, k, r), x.stage \in Updates,
           NEW c \in Sessions,
           x.stage = "record" /\ x.event.kind = "bash" => x.event.command \in c.commands
    PROVE  After(x, c) \in Handlers /\ HandlerFits(After(x, c), k, r)
<1>0. x.stage # "idle" /\ x.stage \in StagesOf(x.event)
  BY DEF HandlerFits, Updates
<1>1. CASE x.stage = "record"
  <2> DEFINE y == [To(x, "drift") EXCEPT !.found = detectDrift(c)]
  <2>1. After(x, c) = IF detectDrift(c) = {} THEN Idle ELSE y
    BY <1>1 DEF After
  <2>2. "drift" \in StagesOf(x.event)
    BY <1>0, <1>1 DEF StagesOf, Ending
  <2>3. detectDrift(c) \subseteq SignalTypes
    BY DEF detectDrift
  <2>4. y \in Handlers
    BY <2>3, IdleFits DEF To, Handlers, Stages, Io, Updates
  <2>5. /\ y.stage = "drift" /\ y.io = "read" /\ y.event = x.event
        /\ y.id = x.id /\ y.found = detectDrift(c)
    BY DEF To, Handlers
  <2>6. x.event.kind = "bash" /\ x.event.command \in Destructive =>
          "destructive_action_attempted" \in detectDrift(c)
    BY <1>1 DEF detectDrift, SignalTypes
  <2>7. HandlerFits(y, k, r)
    BY <1>0, <2>2, <2>5, <2>6 DEF HandlerFits
  <2> QED
    BY <2>1, <2>4, <2>7, IdleFits
<1>2. CASE x.stage = "drift"
  <2>1. After(x, c) = IF buildCorrectionGuidance(x.found) = {} THEN Idle ELSE To(x, "correct")
    BY <1>2 DEF After
  <2>2. "correct" \in StagesOf(x.event) /\ "correct" \in Stages \ {"idle"}
    BY <1>0, <1>2 DEF StagesOf, Ending, Stages, Updates
  <2>3. x.event.kind = "bash" /\ x.event.command \in Destructive =>
          "destructive_action_attempted" \in x.found
    BY <1>2 DEF HandlerFits
  <2>4. To(x, "correct") \in Handlers /\ HandlerFits(To(x, "correct"), k, r)
    BY <1>0, <2>2, <2>3, ToFits
  <2> QED
    BY <2>1, <2>4, IdleFits
<1>3. CASE x.stage \in {"correct", "watch", "evidence"}
  BY <1>3, IdleFits DEF After
<1>4. CASE x.stage = "end"
  <2> DEFINE next == IF c.evidence = {} THEN "interrupt" ELSE "receipt"
             y == [To(x, next) EXCEPT !.session = c]
  <2>1. After(x, c) = y
    BY <1>4 DEF After
  <2>2. next \in StagesOf(x.event) /\ next \in Stages /\ next \notin {"idle", "close", "drift", "correct", "record"}
    BY <1>0, <1>4 DEF StagesOf, Ending, Stages, Updates
  <2>3. y \in Handlers
    BY <2>2, IdleFits DEF To, Handlers, Io
  <2>4. y.stage = next /\ y.io = "read" /\ y.event = x.event /\ y.id = x.id
    BY DEF To, Handlers
  <2> HIDE DEF next, y
  <2>5. HandlerFits(y, k, r)
    BY <1>0, <2>2, <2>4 DEF HandlerFits
  <2> QED
    BY <2>1, <2>3, <2>5
<1>5. CASE x.stage = "close"
  <2>1. x.event.kind = "SessionEnd"
    BY <1>0, <1>5 DEF StagesOf
  <2> QED
    BY <1>0, <1>5, <2>1, EndFits DEF After
<1>6. CASE x.stage = "interrupt"
  <2>1. "packet" \in StagesOf(x.event) /\ "packet" \in Stages \ {"idle"}
    BY <1>0, <1>6 DEF StagesOf, Ending, Stages
  <2>2. To(x, "packet") \in Handlers /\ HandlerFits(To(x, "packet"), k, r)
    BY <1>0, <2>1, ToFits
  <2> QED
    BY <1>6, <2>2 DEF After
<1> QED
  BY <1>1, <1>2, <1>3, <1>4, <1>5, <1>6 DEF Updates

(* A process that starts, or comes to its second SessionEnd.               *)
LEMMA LoadFits ==
    ASSUME SessionInv, NEW e \in Event, NEW round \in 0..2
    PROVE  Load(e, round) \in Handlers /\ HandlerFits(Load(e, round), Known, Receipted)
<1>1. CASE OpenSessions = {}
  BY <1>1, IdleFits DEF Load
<1>2. CASE OpenSessions # {}
  <2>1. Latest \in Known /\ Latest \in Ids
    BY <1>2, LatestIsOpen DEF OpenSessions, Known
  <2>2. FirstStage(e) \in StagesOf(e) /\ FirstStage(e) \in {"watch", "evidence", "end", "record"}
    BY DEF FirstStage, StagesOf, Ending
  <2>3. Load(e, round) = [Idle EXCEPT !.stage = FirstStage(e), !.io = "read", !.event = e,
                                      !.id = Latest, !.session = disk[Latest], !.round = round]
    BY <1>2 DEF Load
  <2>4. disk[Latest] \in Sessions
    BY <2>1 DEF SessionInv
  <2>5. Load(e, round) \in Handlers
    BY <2>1, <2>2, <2>3, <2>4, IdleFits DEF Handlers, Stages, Updates, Io
  <2>6. /\ Load(e, round).stage = FirstStage(e) /\ Load(e, round).io = "read"
        /\ Load(e, round).event = e /\ Load(e, round).id = Latest
    BY <2>3 DEF Idle
  <2> QED
    BY <2>1, <2>2, <2>5, <2>6 DEF HandlerFits
<1> QED
  BY <1>1, <1>2
-----------------------------------------------------------------------------
(* Answers.                                                                *)

(* The session can only make the gate stricter.                            *)
LEMMA GateStands ==
    ASSUME NEW e, NEW verdict, hookVerdict(e, verdict) = "allow"
    PROVE  /\ verdict # "needs_approval"
           /\ e.kind = "bash" => e.command \notin Refused
<1>1. preToolUse(e) = "allow" /\ verdict # "needs_approval"
  BY DEF hookVerdict
<1>2. e.kind = "bash" /\ e.command \in Refused => preToolUse(e) = "block"
  BY DEF preToolUse, classify
<1> QED
  BY <1>1, <1>2

(* An answer without a session's verdict is the gate's.                    *)
LEMMA GateAnswers ==
    ASSUME NEW e, NEW seen
    PROVE  AnswerSafe(Answer(e, seen, "none")) /\ AnswerSafe(NoAnswer)
<1>1. AnswerSafe(NoAnswer)
  BY DEF AnswerSafe, NoAnswer
<1>2. CASE e.kind \in PreToolUse
  <2>1. /\ Answer(e, seen, "none").event = e /\ Answer(e, seen, "none").session = "none"
        /\ Answer(e, seen, "none").verdict = hookVerdict(e, "none")
    BY <1>2 DEF Answer
  <2> QED
    BY <1>1, <2>1, GateStands DEF AnswerSafe
<1> QED
  BY <1>1, <1>2 DEF Answer

(* The answer at the end of an update: a destructive command has left its  *)
(* signal by then, whichever copy of the session the handler went on with. *)
LEMMA SessionAnswers ==
    ASSUME NEW x \in Handlers, NEW k, NEW r, HandlerFits(x, k, r), x.stage \in Updates,
           NEW c, x.stage = "record" /\ x.event.kind = "bash" => x.event.command \in c.commands,
           After(x, c) = Idle
    PROVE  AnswerSafe(Answer(x.event, x.session.commands,
                             IF hasApprovalRequired(Found(x, c)) THEN "needs_approval" ELSE "allow"))
<1> DEFINE verdict == IF hasApprovalRequired(Found(x, c)) THEN "needs_approval" ELSE "allow"
           a == Answer(x.event, x.session.commands, verdict)
<1>1. ASSUME x.event.kind = "bash", x.event.command \in Destructive
      PROVE  verdict = "needs_approval"
  <2>1. x.stage \in {"record", "drift", "correct"}
    BY <1>1 DEF HandlerFits, StagesOf, Updates
  <2>2. CASE x.stage = "record"
    <3>1. "destructive_action_attempted" \in detectDrift(c)
      BY <1>1, <2>2 DEF detectDrift, SignalTypes
    <3> QED
      BY <2>2, <3>1 DEF Found, hasApprovalRequired, Blocking
  <2>3. CASE x.stage \in {"drift", "correct"}
    <3>1. "destructive_action_attempted" \in x.found
      BY <1>1, <2>3 DEF HandlerFits
    <3> QED
      BY <2>3, <3>1 DEF Found, hasApprovalRequired, Blocking
  <2> QED
    BY <2>1, <2>2, <2>3
<1>2. CASE x.event.kind \in PreToolUse
  <2>1. a.event = x.event /\ a.session = verdict /\ a.verdict = hookVerdict(x.event, verdict)
    BY <1>2 DEF Answer
  <2> HIDE DEF a, verdict
  <2>2. AnswerSafe(a)
    BY <1>1, <2>1, GateStands DEF AnswerSafe
  <2> QED
    BY <2>2 DEF a, verdict
<1>3. CASE x.event.kind \notin PreToolUse
  BY <1>3, GateAnswers DEF Answer
<1> QED
  BY <1>2, <1>3
-----------------------------------------------------------------------------
(* One step of one process.                                                *)

(* One process moves, the others keep what fits them.                      *)
LEMMA HandlerStep ==
    ASSUME SessionInv, NEW p \in Hooks, NEW y \in Handlers, at' = [at EXCEPT ![p] = y],
           Known \subseteq Known', Receipted \subseteq Receipted',
           HandlerFits(y, Known', Receipted')
    PROVE  /\ at' \in [Hooks -> Handlers]
           /\ \A q \in Hooks : HandlerFits(at'[q], Known', Receipted')
<1>1. at \in [Hooks -> Handlers] /\ \A q \in Hooks : HandlerFits(at[q], Known, Receipted)
  BY DEF SessionInv
<1>2. at' \in [Hooks -> Handlers]
  BY <1>1
<1>3. ASSUME NEW q \in Hooks PROVE HandlerFits(at'[q], Known', Receipted')
  <2>1. CASE q = p
    BY <1>1, <2>1
  <2>2. CASE q # p
    <3>1. at'[q] = at[q]
      BY <1>1, <2>2
    <3> QED
      BY <1>1, <3>1, FitsMonotone
  <2> QED
    BY <2>1, <2>2
<1> QED
  BY <1>2, <1>3

(* One process answers, and the others' answers stay safe.                 *)
LEMMA AnswerStep ==
    ASSUME SessionInv, NEW p \in Hooks, NEW a, AnswerSafe(a),
           answer' = [answer EXCEPT ![p] = a]
    PROVE  /\ answer' = [q \in Hooks |-> answer'[q]]
           /\ \A q \in Hooks : AnswerSafe(answer'[q])
<1>1. answer = [q \in Hooks |-> answer[q]] /\ \A q \in Hooks : AnswerSafe(answer[q])
  BY DEF SessionInv
<1>2. answer' = [q \in Hooks |-> IF q = p THEN a ELSE answer[q]]
  BY <1>1
<1>3. \A q \in Hooks : answer'[q] = IF q = p THEN a ELSE answer[q]
  BY <1>2
<1> QED
  BY <1>1, <1>2, <1>3

(* The next stage of a handler fits what is on disk, when the command it   *)
(* handles has been recorded.                                              *)
LEMMA ContinueStep ==
    ASSUME SessionInv, NEW p \in Hooks, NEW c \in Sessions, Continue(p, c),
           at[p].stage \in Updates,
           at[p].stage = "record" /\ at[p].event.kind = "bash" =>
             at[p].event.command \in c.commands,
           Known \subseteq Known', Receipted \subseteq Receipted'
    PROVE  /\ at' \in [Hooks -> Handlers]
           /\ \A q \in Hooks : HandlerFits(at'[q], Known', Receipted')
           /\ answer' = [q \in Hooks |-> answer'[q]]
           /\ \A q \in Hooks : AnswerSafe(answer'[q])
<1> DEFINE x == at[p]
           a == Answer(x.event, x.session.commands,
                       IF hasApprovalRequired(Found(x, c)) THEN "needs_approval" ELSE "allow")
<1>1. x \in Handlers /\ HandlerFits(x, Known, Receipted)
  BY DEF SessionInv
<1>2. HandlerFits(x, Known', Receipted')
  BY <1>1, FitsMonotone
<1>3. After(x, c) \in Handlers /\ HandlerFits(After(x, c), Known', Receipted')
  BY <1>1, <1>2, AfterFits
<1>4. at' = [at EXCEPT ![p] = After(x, c)]
  BY DEF Continue
<1>5. After(x, c) = Idle => AnswerSafe(a)
  BY <1>1, SessionAnswers
<1>6. answer' = [answer EXCEPT ![p] = IF After(x, c) # Idle THEN answer[p] ELSE a]
  BY DEF Continue
<1>7. AnswerSafe(IF After(x, c) # Idle THEN answer[p] ELSE a)
  BY <1>5 DEF SessionInv
<1> HIDE DEF x, a
<1> QED
  BY <1>3, <1>4, <1>6, <1>7, HandlerStep, AnswerStep

(* What an update makes of a session, on disk or in the handler's copy,    *)
(* still has the command of the event.                                     *)
LEMMA RecordKeepsCommand ==
    ASSUME NEW x \in Handlers, x.event \in Event, x.stage = "record", x.event.kind = "bash",
           NEW s \in Sessions
    PROVE  Patch(x, s).commands = x.session.commands \union {x.event.command}
<1>1. Patch(x, s) = [s EXCEPT !.calls = x.session.calls + 1,
                              !.commands = x.session.commands \union {x.event.command}]
  BY DEF Patch, RecordPatch, OtherTools
<1> QED
  BY <1>1 DEF Sessions

(* The redacted copy differs in the commands only.                         *)
LEMMA RedactTyped ==
    ASSUME NEW s \in Sessions
    PROVE  /\ redact(s) \in Sessions
           /\ redact(s).status = s.status /\ redact(s).closeReason = s.closeReason
           /\ "reset" \in s.commands => "reset" \in redact(s).commands
<1> DEFINE kept == {IF c = "buried" THEN "safe" ELSE c : c \in s.commands}
<1>1. redact(s) = [s EXCEPT !.commands = kept]
  BY DEF redact
<1>2. kept \subseteq Commands
  BY SessionFields DEF Commands
<1>3. "reset" \in s.commands => "reset" \in kept
  OBVIOUS
<1> HIDE DEF kept
<1> QED
  BY <1>1, <1>2, <1>3 DEF Sessions
-----------------------------------------------------------------------------
(* The actions keep the invariant.                                         *)

(* No process is at work at first, and there is no session.                *)
LEMMA InitSession == Init => SessionInv
<1> SUFFICES ASSUME Init PROVE SessionInv
  OBVIOUS
<1>1. disk \in [Ids -> Sessions] /\ at \in [Hooks -> Handlers]
  BY IdleFits DEF Init
<1>2. \A p \in Hooks : at[p] = Idle /\ answer[p] = NoAnswer
  BY DEF Init
<1>3. \A i \in Ids : disk[i].status = "none"
  BY DEF Init, EmptySession
<1>4. 0 \in 0..MaxEvents
  BY SessionAssumption
<1> QED
  BY <1>1, <1>2, <1>3, <1>4, IdleFits, GateAnswers DEF Init, SessionInv

(* createSession writes a record of its own id.                            *)
LEMMA CreateKeeps ==
    ASSUME SessionInv, NEW i \in Ids, createSession(i)
    PROVE  SessionInv' /\ Known \subseteq Known'
<1> DEFINE new == [EmptySession EXCEPT !.status = "open"]
<1>1. new \in Sessions /\ new.status = "open"
  BY IdleFits DEF Sessions
<1>2. disk' = [disk EXCEPT ![i] = new] /\ disk \in [Ids -> Sessions]
  BY DEF createSession, SessionInv
<1> HIDE DEF new
<1>3. /\ disk' \in [Ids -> Sessions]
      /\ \A j \in Ids : disk'[j] = IF j = i THEN new ELSE disk[j]
  BY <1>1, <1>2
<1>4. Known \subseteq Known' /\ Receipted' = Receipted
  BY <1>1, <1>3 DEF Known, Receipted, createSession
<1>5. UNCHANGED <<torn, receipt, packets, at, answer, events, raced>>
  BY DEF createSession
<1>6. \A p \in Hooks : HandlerFits(at[p], Known', Receipted')
  BY <1>4, FitsMonotone DEF SessionInv
<1>7. \A j \in Ids : disk'[j].status = "closed" => j \in Receipted'
  BY <1>1, <1>3, <1>4 DEF SessionInv
<1> QED
  BY <1>3, <1>4, <1>5, <1>6, <1>7 DEF SessionInv

(* A process starts, with a session or without.                            *)
LEMMA HandleKeeps ==
    ASSUME SessionInv, NEW p \in Hooks, NEW e \in Event, Handle(p, e) \/ HandleUnrouted(p, e)
    PROVE  SessionInv'
<1>1. /\ events' \in 0..MaxEvents /\ raced' \in BOOLEAN
      /\ UNCHANGED <<disk, torn, receipt, packets>>
  <2>1. events \in 0..MaxEvents /\ events < MaxEvents /\ events' = events + 1
    BY DEF Handle, HandleUnrouted, Arrives, SessionInv
  <2>2. events' \in 0..MaxEvents
    BY <2>1, SessionAssumption
  <2> QED
    BY <2>2 DEF Handle, HandleUnrouted, Arrives, SessionInv
<1>2. Known' = Known /\ Receipted' = Receipted
  BY <1>1 DEF Known, Receipted
<1>3. CASE Handle(p, e)
  <2> DEFINE a == IF OpenSessions = {} THEN Answer(e, {}, "none") ELSE NoAnswer
  <2>1. /\ at' = [at EXCEPT ![p] = Load(e, 1)]
        /\ answer' = [answer EXCEPT ![p] = a]
    BY <1>3 DEF Handle
  <2>2. AnswerSafe(a)
    BY GateAnswers
  <2>3. Load(e, 1) \in Handlers /\ HandlerFits(Load(e, 1), Known, Receipted)
    BY LoadFits
  <2> HIDE DEF a
  <2>4. /\ at' \in [Hooks -> Handlers]
        /\ \A q \in Hooks : HandlerFits(at'[q], Known', Receipted')
    BY <1>2, <2>1, <2>3, HandlerStep
  <2>5. /\ answer' = [q \in Hooks |-> answer'[q]]
        /\ \A q \in Hooks : AnswerSafe(answer'[q])
    BY <2>1, <2>2, AnswerStep
  <2> QED
    BY <1>1, <1>2, <2>4, <2>5 DEF SessionInv
<1>4. CASE HandleUnrouted(p, e)
  <2>1. at' = at /\ answer' = [answer EXCEPT ![p] = Answer(e, {}, "none")]
    BY <1>4 DEF HandleUnrouted
  <2>2. AnswerSafe(Answer(e, {}, "none"))
    BY GateAnswers
  <2>3. /\ answer' = [q \in Hooks |-> answer'[q]]
        /\ \A q \in Hooks : AnswerSafe(answer'[q])
    BY <2>1, <2>2, AnswerStep
  <2> QED
    BY <1>1, <1>2, <2>1, <2>3 DEF SessionInv
<1> QED
  BY <1>3, <1>4

(* What a patch does to the status and its reason.                         *)
LEMMA PatchStatus ==
    ASSUME NEW x \in Handlers, x.stage \in Updates, x.event \in Event, NEW s \in Sessions
    PROVE  /\ Patch(x, s).status = CASE x.stage = "close" -> "closed"
                                     [] x.stage = "interrupt" -> "interrupted"
                                     [] OTHER -> s.status
           /\ x.stage = "close" => Patch(x, s).closeReason = sessionGate(x.session)
<1>1. CASE x.stage = "record"
  <2>1. RecordPatch(x.event, x.session, s).status = s.status
    BY DEF RecordPatch, Sessions, OtherTools
  <2> QED
    BY <1>1, <2>1 DEF Patch
<1>2. CASE x.stage = "watch"
  <2>1. WatchPatch(x.event, x.session, s).status = s.status
    BY DEF WatchPatch, Sessions
  <2> QED
    BY <1>2, <2>1 DEF Patch
<1>3. CASE x.stage \in {"drift", "correct", "evidence", "end"}
  BY <1>3 DEF Patch, Sessions
<1>4. CASE x.stage \in {"close", "interrupt"}
  BY <1>4 DEF Patch, Sessions
<1> QED
  BY <1>1, <1>2, <1>3, <1>4 DEF Updates

(* updateSession's patch, made of the snapshot and merged into what is     *)
(* read.                                                                   *)
LEMMA ReadKeeps ==
    ASSUME SessionInv, NEW p \in Hooks, ReadFile(p)
    PROVE  SessionInv'
<1> DEFINE x == at[p]
           mem == Patch(x, disk[x.id])
           y == [x EXCEPT !.mem = mem, !.io = "truncate"]
<1>1. /\ x \in Handlers /\ HandlerFits(x, Known, Receipted)
      /\ x.stage \in Updates /\ x.stage # "idle"
  BY DEF SessionInv, ReadFile, Updates
<1>2. /\ x.event \in Event /\ x.id \in Known /\ x.id \in Ids /\ x.stage \in StagesOf(x.event)
  BY <1>1 DEF HandlerFits, Known
<1>3. disk[x.id] \in Sessions /\ disk[x.id].status # "none"
      /\ (disk[x.id].status = "closed" => x.id \in Receipted)
  BY <1>2 DEF SessionInv, Known
<1>4. mem \in Sessions
  BY <1>1, <1>2, <1>3, PatchTyped
<1>5. mem.status # "none" /\ (mem.status = "closed" => x.id \in Receipted)
  <2>1. mem.status = CASE x.stage = "close" -> "closed"
                       [] x.stage = "interrupt" -> "interrupted"
                       [] OTHER -> disk[x.id].status
    BY <1>1, <1>2, <1>3, PatchStatus
  <2> QED
    BY <1>1, <1>3, <2>1 DEF HandlerFits
<1>6. x.event.kind = "bash" /\ x.stage = "record" => x.event.command \in mem.commands
  BY <1>1, <1>2, <1>3, RecordKeepsCommand
<1>7. at' = [at EXCEPT ![p] = y]
  BY DEF ReadFile
<1>8. UNCHANGED <<disk, torn, receipt, packets, answer, events, raced>>
  BY DEF ReadFile
<1> HIDE DEF x, mem
<1>9. y \in Handlers
  BY <1>1, <1>4 DEF Handlers, Io
<1>10. HandlerFits(y, Known, Receipted)
  <2>1. /\ y.stage = x.stage /\ y.io = "truncate" /\ y.event = x.event /\ y.id = x.id
        /\ y.found = x.found /\ y.mem = mem
    BY <1>1 DEF Handlers
  <2> HIDE DEF y
  <2> QED
    BY <1>1, <1>5, <1>6, <2>1 DEF HandlerFits
<1>11. Known' = Known /\ Receipted' = Receipted
  BY <1>8 DEF Known, Receipted
<1> HIDE DEF y
<1>12. /\ at' \in [Hooks -> Handlers]
       /\ \A q \in Hooks : HandlerFits(at'[q], Known', Receipted')
  BY <1>7, <1>9, <1>10, <1>11, HandlerStep
<1> QED
  BY <1>8, <1>11, <1>12 DEF SessionInv

(* updateSession on a file that does not parse ends that update, not the   *)
(* handler.                                                                *)
LEMMA ReadFailsKeeps ==
    ASSUME SessionInv, NEW p \in Hooks, ReadFails(p)
    PROVE  SessionInv'
<1> DEFINE x == at[p]
<1>1. /\ x \in Handlers /\ HandlerFits(x, Known, Receipted)
      /\ x.stage \in Updates /\ x.stage # "idle"
  BY DEF SessionInv, ReadFails, Updates
<1>2. x.event \in Event /\ x.stage \in StagesOf(x.event) /\ x.session \in Sessions
  BY <1>1 DEF HandlerFits, Handlers
<1>3. Fallback(x) \in Sessions
  BY <1>1, <1>2, PatchTyped DEF Fallback
<1>4. x.stage = "record" /\ x.event.kind = "bash" => x.event.command \in Fallback(x).commands
  BY <1>1, <1>2, RecordKeepsCommand DEF Fallback
<1>5. UNCHANGED <<disk, torn, receipt, packets, events, raced>> /\ Continue(p, Fallback(x))
  BY DEF ReadFails
<1>6. Known' = Known /\ Receipted' = Receipted
  BY <1>5 DEF Known, Receipted
<1>7. /\ at' \in [Hooks -> Handlers]
      /\ \A q \in Hooks : HandlerFits(at'[q], Known', Receipted')
      /\ answer' = [q \in Hooks |-> answer'[q]]
      /\ \A q \in Hooks : AnswerSafe(answer'[q])
  BY <1>1, <1>3, <1>4, <1>5, <1>6, ContinueStep
<1> QED
  BY <1>5, <1>6, <1>7 DEF SessionInv

(* writeFileSync empties the file first; no reader can parse it then.      *)
LEMMA TruncateKeeps ==
    ASSUME SessionInv, NEW p \in Hooks, Truncate(p)
    PROVE  SessionInv'
<1> DEFINE x == at[p]
           y == [x EXCEPT !.io = "write"]
<1>1. x \in Handlers /\ HandlerFits(x, Known, Receipted) /\ x.io = "truncate"
  BY DEF SessionInv, Truncate
<1>2. x.stage \in Updates /\ x.id \in Known
  BY <1>1 DEF HandlerFits, Updates
<1>3. /\ at' = [at EXCEPT ![p] = y] /\ torn' = torn \union {x.id}
      /\ UNCHANGED <<disk, receipt, packets, answer, events, raced>>
  BY DEF Truncate
<1> HIDE DEF x
<1>4. y \in Handlers
  BY <1>1 DEF Handlers, Io
<1>5. HandlerFits(y, Known, Receipted)
  <2>1. /\ y.stage = x.stage /\ y.io = "write" /\ y.event = x.event /\ y.id = x.id
        /\ y.found = x.found /\ y.mem = x.mem
    BY <1>1 DEF Handlers
  <2> HIDE DEF y
  <2> QED
    BY <1>1, <1>2, <2>1 DEF HandlerFits, Updates
<1>6. Known' = Known /\ Receipted' = Receipted
  BY <1>3 DEF Known, Receipted
<1> HIDE DEF y
<1>7. /\ at' \in [Hooks -> Handlers]
      /\ \A q \in Hooks : HandlerFits(at'[q], Known', Receipted')
  BY <1>3, <1>4, <1>5, <1>6, HandlerStep
<1> QED
  BY <1>2, <1>3, <1>6, <1>7 DEF SessionInv

(* writeFileSync puts the text in, and the handler goes on.                *)
LEMMA WriteKeeps ==
    ASSUME SessionInv, NEW p \in Hooks, WriteFile(p)
    PROVE  /\ SessionInv'
           /\ Known \subseteq Known'
<1> DEFINE x == at[p]
<1>1. x \in Handlers /\ HandlerFits(x, Known, Receipted) /\ x.io = "write"
  BY DEF SessionInv, WriteFile
<1>2. /\ x.stage \in Updates /\ x.id \in Known /\ x.id \in Ids /\ x.mem \in Sessions
      /\ x.mem.status # "none" /\ (x.mem.status = "closed" => x.id \in Receipted)
  BY <1>1 DEF HandlerFits, Updates, Known, Handlers
<1>3. /\ disk' = [disk EXCEPT ![x.id] = redact(x.mem)] /\ torn' = torn \ {x.id}
      /\ Continue(p, x.mem) /\ UNCHANGED <<receipt, packets, events, raced>>
  BY DEF WriteFile
<1>4. redact(x.mem) \in Sessions /\ redact(x.mem).status = x.mem.status
  BY <1>2, RedactTyped
<1>5. /\ disk' \in [Ids -> Sessions]
      /\ \A i \in Ids : disk'[i] = IF i = x.id THEN redact(x.mem) ELSE disk[i]
  BY <1>2, <1>3, <1>4 DEF SessionInv
<1>6. Known' = Known /\ Receipted' = Receipted
  BY <1>2, <1>3, <1>4, <1>5 DEF Known, Receipted
<1>7. x.stage = "record" /\ x.event.kind = "bash" => x.event.command \in x.mem.commands
  BY <1>1 DEF HandlerFits
<1>8. /\ at' \in [Hooks -> Handlers]
      /\ \A q \in Hooks : HandlerFits(at'[q], Known', Receipted')
      /\ answer' = [q \in Hooks |-> answer'[q]]
      /\ \A q \in Hooks : AnswerSafe(answer'[q])
  BY <1>2, <1>3, <1>6, <1>7, ContinueStep
<1>9. \A i \in Ids : disk'[i].status = "closed" => i \in Receipted'
  BY <1>2, <1>4, <1>5, <1>6 DEF SessionInv
<1> QED
  BY <1>3, <1>5, <1>6, <1>8, <1>9 DEF SessionInv

(* The receipt of an ending session; from then on it may be closed.        *)
LEMMA ReceiptKeeps ==
    ASSUME SessionInv, NEW p \in Hooks, persistReceipt(p)
    PROVE  SessionInv'
<1> DEFINE x == at[p]
<1>1. x \in Handlers /\ HandlerFits(x, Known, Receipted) /\ x.stage = "receipt"
  BY DEF SessionInv, persistReceipt
<1>2. x.id \in Ids /\ x.stage \in StagesOf(x.event)
  BY <1>1 DEF HandlerFits, Known
<1>3. /\ receipt' = [receipt EXCEPT ![x.id] = sessionGate(x.session)]
      /\ at' = [at EXCEPT ![p] = To(x, "close")]
      /\ UNCHANGED <<disk, torn, packets, answer, events, raced>>
  BY DEF persistReceipt, SessionInv
<1>4. sessionGate(x.session) \in Decisions /\ "none" \notin Decisions
  BY GateDecides DEF Decisions
<1>5. /\ receipt' \in [Ids -> Decisions \union {"none"}]
      /\ \A i \in Ids : receipt'[i] = IF i = x.id THEN sessionGate(x.session) ELSE receipt[i]
  BY <1>2, <1>3, <1>4 DEF SessionInv
<1>6. Known' = Known /\ Receipted \subseteq Receipted' /\ x.id \in Receipted'
  BY <1>2, <1>3, <1>4, <1>5 DEF Known, Receipted
<1>7. HandlerFits(x, Known', Receipted')
  BY <1>1, <1>6, FitsMonotone
<1>8. "close" \in Stages \ {"idle"} /\ "close" \in StagesOf(x.event)
  BY <1>1, <1>2 DEF Stages, Updates, StagesOf, Ending
<1>9. To(x, "close") \in Handlers /\ HandlerFits(To(x, "close"), Known', Receipted')
  BY <1>1, <1>6, <1>7, <1>8, ToFits
<1>10. /\ at' \in [Hooks -> Handlers]
       /\ \A q \in Hooks : HandlerFits(at'[q], Known', Receipted')
  BY <1>3, <1>6, <1>9, HandlerStep
<1> QED
  BY <1>3, <1>5, <1>6, <1>10 DEF SessionInv

(* The resume packet, and the second call of SessionEnd.                   *)
LEMMA PacketKeeps ==
    ASSUME SessionInv, NEW p \in Hooks, writeResumePacket(p) \/ EndAgain(p)
    PROVE  SessionInv'
<1> DEFINE x == at[p]
<1>1. /\ x \in Handlers /\ HandlerFits(x, Known, Receipted)
      /\ x.stage \in {"packet", "again"}
  BY DEF SessionInv, writeResumePacket, EndAgain
<1>2. x.id \in Ids /\ x.event \in Event /\ x.event.kind = "SessionEnd"
  BY <1>1 DEF HandlerFits, Known, StagesOf
<1>3. UNCHANGED <<disk, torn, receipt, answer, events, raced>> /\ packets' \subseteq Ids
  BY <1>2 DEF writeResumePacket, EndAgain, SessionInv
<1>4. Known' = Known /\ Receipted' = Receipted
  BY <1>3 DEF Known, Receipted
<1>5. PICK y \in Handlers : at' = [at EXCEPT ![p] = y] /\ HandlerFits(y, Known, Receipted)
  <2>1. CASE writeResumePacket(p)
    <3>1. EndHandled(x) \in Handlers /\ HandlerFits(EndHandled(x), Known, Receipted)
      BY <1>1, <1>2, EndFits
    <3>2. at' = [at EXCEPT ![p] = EndHandled(x)]
      BY <2>1 DEF writeResumePacket, SessionInv
    <3> QED
      BY <3>1, <3>2
  <2>2. CASE EndAgain(p)
    <3>1. Load(x.event, 2) \in Handlers /\ HandlerFits(Load(x.event, 2), Known, Receipted)
      BY <1>2, LoadFits
    <3>2. at' = [at EXCEPT ![p] = Load(x.event, 2)]
      BY <2>2 DEF EndAgain
    <3> QED
      BY <3>1, <3>2
  <2> QED
    BY <2>1, <2>2
<1>6. /\ at' \in [Hooks -> Handlers]
      /\ \A q \in Hooks : HandlerFits(at'[q], Known', Receipted')
  BY <1>4, <1>5, HandlerStep
<1> QED
  BY <1>3, <1>4, <1>6 DEF SessionInv

(* A write that throws and a process that is killed.                       *)
LEMMA ThrowKeeps ==
    ASSUME SessionInv, NEW p \in Hooks, Throw(p)
    PROVE  SessionInv'
<1> DEFINE x == at[p]
           y == IF x.event.kind = "SessionEnd" THEN EndHandled(x) ELSE Idle
<1>1. x \in Handlers /\ HandlerFits(x, Known, Receipted) /\ x.stage # "idle"
  BY DEF SessionInv, Throw, HandlerFits, Updates
<1>2. y \in Handlers /\ HandlerFits(y, Known, Receipted)
  BY <1>1, EndFits, IdleFits
<1>3. /\ at' = [at EXCEPT ![p] = y]
      /\ answer' = [answer EXCEPT ![p] = Answer(x.event, {}, "none")]
      /\ raced' \in BOOLEAN /\ UNCHANGED <<disk, torn, receipt, packets, events>>
  BY DEF Throw, SessionInv
<1> HIDE DEF y
<1>4. Known' = Known /\ Receipted' = Receipted
  BY <1>3 DEF Known, Receipted
<1>5. /\ at' \in [Hooks -> Handlers]
      /\ \A q \in Hooks : HandlerFits(at'[q], Known', Receipted')
  BY <1>2, <1>3, <1>4, HandlerStep
<1>6. AnswerSafe(Answer(x.event, {}, "none"))
  BY GateAnswers
<1>7. /\ answer' = [q \in Hooks |-> answer'[q]]
      /\ \A q \in Hooks : AnswerSafe(answer'[q])
  BY <1>3, <1>6, AnswerStep
<1> QED
  BY <1>3, <1>4, <1>5, <1>7 DEF SessionInv

(* A hook is killed: what it left on disk stays, what it held is gone.     *)
LEMMA CrashKeeps ==
    ASSUME SessionInv, NEW p \in Hooks, Crash(p)
    PROVE  SessionInv'
<1>1. /\ at' = [at EXCEPT ![p] = Idle] /\ raced' \in BOOLEAN
      /\ UNCHANGED <<disk, torn, receipt, packets, answer, events>>
  BY DEF Crash
<1>2. Known' = Known /\ Receipted' = Receipted
  BY <1>1 DEF Known, Receipted
<1>3. /\ at' \in [Hooks -> Handlers]
      /\ \A q \in Hooks : HandlerFits(at'[q], Known', Receipted')
  BY <1>1, <1>2, IdleFits, HandlerStep
<1> QED
  BY <1>1, <1>2, <1>3 DEF SessionInv

(* Every step of every process keeps the invariant.                        *)
LEMMA NextSession == SessionInv /\ [Next]_vars => SessionInv'
<1> SUFFICES ASSUME SessionInv, [Next]_vars PROVE SessionInv'
  OBVIOUS
<1>1. CASE UNCHANGED vars
  BY <1>1 DEF vars, SessionInv, Known, Receipted
<1>2. ASSUME NEW i \in Ids, createSession(i) PROVE SessionInv'
  BY <1>2, CreateKeeps
<1>3. ASSUME NEW p \in Hooks, Step(p) PROVE SessionInv'
  BY <1>3, ReadKeeps, ReadFailsKeeps, TruncateKeeps, WriteKeeps, ReceiptKeeps, PacketKeeps
     DEF Step
<1>4. ASSUME NEW p \in Hooks, Throw(p) \/ Crash(p) PROVE SessionInv'
  BY <1>4, ThrowKeeps, CrashKeeps
<1>5. ASSUME NEW p \in Hooks, NEW e \in Event, Handle(p, e) \/ HandleUnrouted(p, e)
      PROVE  SessionInv'
  BY <1>5, HandleKeeps
<1> QED
  BY <1>1, <1>2, <1>3, <1>4, <1>5 DEF Next

(* Every reachable state satisfies the invariant of all behaviours.        *)
THEOREM SessionInvariant == Spec => []SessionInv
  BY InitSession, NextSession, PTL DEF Spec

(* Every reachable state is well typed, for every set of sessions,         *)
(* processes, files and events.                                            *)
THEOREM TypeCorrect == Spec => []TypeOK
<1>1. ASSUME SessionInv PROVE TypeOK
  <2>1. ASSUME NEW p \in Hooks
        PROVE  /\ at[p].stage \in Updates \union {"idle", "receipt", "packet", "again"}
               /\ at[p].io \in {"none", "read", "truncate", "write"}
               /\ at[p] # Idle => at[p].id \in Ids /\ disk[at[p].id].status # "none"
               /\ at[p].session \in Sessions /\ at[p].mem \in Sessions
               /\ at[p].io \in {"truncate", "write"} => at[p].stage \in Updates
    <3>1. at[p] \in Handlers /\ HandlerFits(at[p], Known, Receipted)
      BY <1>1 DEF SessionInv
    <3>2. at[p] # Idle => at[p].id \in Known
      BY <3>1 DEF HandlerFits
    <3>3. at[p].io \in {"truncate", "write"} => at[p].stage \in Updates
      BY <3>1 DEF HandlerFits
    <3> QED
      BY <3>1, <3>2, <3>3 DEF Handlers, Stages, Io, Known
  <2> QED
    BY <1>1, <2>1 DEF SessionInv, TypeOK, Known
<1> QED
  BY <1>1, SessionInvariant, PTL

(* However hooks overlap and wherever they are killed, none lets a command *)
(* through that the gate refuses or that is destructive for the session    *)
(* that answered (preToolUse, detectDrift, handleLifecycleHook).           *)
THEOREM DestructiveNeverAllowed == Spec => []DestructiveNeedsApproval
<1>1. SessionInv => DestructiveNeedsApproval
  BY DEF SessionInv, AnswerSafe, DestructiveNeedsApproval
<1> QED
  BY <1>1, SessionInvariant, PTL
-----------------------------------------------------------------------------
(* Behaviours without a race.  One process at a time is at work: x, or     *)
(* none when x is Idle.                                                    *)
Settled(x) ==
    /\ \A i \in Ids : x = Idle \/ x.id # i => Papers(i) /\ i \notin torn
    /\ x # Idle => Progress(x)

(* The process at work is alone, and the rest is settled.                  *)
LEMMA LoneView ==
    ASSUME SessionInv, SerialInv, ~raced, NEW p \in Hooks, at[p] # Idle, NEW x, x = at[p]
    PROVE  (\A q \in Hooks \ {p} : at[q] = Idle) /\ Settled(x)
<1>1. \A q \in Hooks \ {p} : at[q] = Idle
  BY DEF SerialInv
<1>2. ASSUME NEW i \in Ids, x.id # i PROVE Papers(i) /\ i \notin torn
  BY <1>1, <1>2 DEF SerialInv
<1> QED
  BY <1>1, <1>2 DEF SerialInv, Settled

(* While nobody is at work and nothing has raced, the papers of every      *)
(* session are in order.                                                   *)
LEMMA QuietView ==
    ASSUME SerialInv, ~raced, \A q \in Hooks : at[q] = Idle
    PROVE  \A i \in Ids : Papers(i) /\ i \notin torn
  BY DEF SerialInv

(* A step of the lone process, given what it leaves.                       *)
LEMMA LoneStep ==
    ASSUME SessionInv, NEW p \in Hooks, \A q \in Hooks \ {p} : at[q] = Idle,
           NEW y, at' = [at EXCEPT ![p] = y], Settled(y)',
           \A q \in Hooks : AnswerSticks(answer'[q])
    PROVE  SerialInv'
<1>1. at \in [Hooks -> Handlers]
  BY DEF SessionInv
<1>2. at'[p] = y /\ \A q \in Hooks \ {p} : at'[q] = Idle
  BY <1>1
<1>3. \A q, r \in Hooks : at'[q] # Idle /\ at'[r] # Idle => q = r
  BY <1>2
<1>4. ASSUME NEW i \in Ids, \A q \in Hooks : at'[q] = Idle \/ at'[q].id # i
      PROVE  Papers(i)' /\ i \notin torn'
  BY <1>2, <1>4 DEF Settled
<1>5. ASSUME NEW q \in Hooks, at'[q] # Idle PROVE Progress(at[q])'
  <2>1. q = p /\ at'[q] = y /\ Progress(y)'
    BY <1>2, <1>5 DEF Settled
  <2> QED
    BY <2>1 DEF Progress, Papers
<1> QED
  BY <1>3, <1>4, <1>5 DEF SerialInv

(* A handler that has come to a new stage, before its first step there.    *)
LEMMA FreshProgress ==
    ASSUME NEW y, y.io = "read", y.id \notin torn,
           y.stage = "again" => Papers(y.id),
           y.stage \in Updates \union {"receipt"} =>
             disk[y.id].status = "open" /\ y.id \notin packets,
           y.stage \in (Updates \union {"receipt", "packet"}) \ {"close"} => receipt[y.id] = "none",
           y.stage = "close" => receipt[y.id] = sessionGate(y.session),
           y.stage = "packet" => disk[y.id].status = "interrupted",
           y.event.kind \in PreToolUse /\ "reset" \in y.session.commands =>
             /\ y.stage = "record" => "reset" \in disk[y.id].commands
             /\ y.stage \in {"drift", "correct"} => "destructive_action_attempted" \in y.found
    PROVE  Progress(y)
  BY DEF Progress

(* Kinds of events that are tool uses lead to the update of the record.    *)
LEMMA ToolUseStages ==
    ASSUME NEW e, e.kind \in PreToolUse
    PROVE  StagesOf(e) = {"record", "drift", "correct"}
  BY DEF PreToolUse, OtherTools, StagesOf

(* An answer that saw no command on record claims nothing.                 *)
LEMMA QuietSticks ==
    ASSUME NEW e
    PROVE  AnswerSticks(NoAnswer) /\ AnswerSticks(Answer(e, {}, "none"))
<1>1. AnswerSticks(NoAnswer)
  BY DEF AnswerSticks, NoAnswer
<1>2. e.kind \in PreToolUse => Answer(e, {}, "none").seen = {}
  BY DEF Answer
<1> QED
  BY <1>1, <1>2 DEF AnswerSticks, Answer

(* One process answers, and the others' answers keep their claim.          *)
LEMMA StickyStep ==
    ASSUME SessionInv, NEW p \in Hooks, \A q \in Hooks : AnswerSticks(answer[q]),
           NEW a, AnswerSticks(a), answer' = [answer EXCEPT ![p] = a]
    PROVE  \A q \in Hooks : AnswerSticks(answer'[q])
<1>1. answer' = [q \in Hooks |-> IF q = p THEN a ELSE answer[q]]
  BY DEF SessionInv
<1> QED
  BY <1>1

(* createSession while nothing races: a new session owes no papers.        *)
LEMMA CreateSerial ==
    ASSUME SessionInv, SerialInv, ~raced, NEW i \in Ids, createSession(i)
    PROVE  SerialInv'
<1>1. /\ disk \in [Ids -> Sessions] /\ disk[i].status = "none"
      /\ disk' = [disk EXCEPT ![i] = [EmptySession EXCEPT !.status = "open"]]
      /\ UNCHANGED <<torn, receipt, packets, at, answer, events, raced>>
  BY DEF createSession, SessionInv
<1>2. [EmptySession EXCEPT !.status = "open"].status = "open"
  BY DEF EmptySession
<1>3. disk'[i].status = "open" /\ \A j \in Ids \ {i} : disk'[j] = disk[j]
  BY <1>1, <1>2
<1>4. \A p \in Hooks : at[p] # Idle => at[p].id \in Ids \ {i}
  <2>1. ASSUME NEW p \in Hooks, at[p] # Idle PROVE at[p].id \in Known
    BY <2>1 DEF SessionInv, HandlerFits
  <2> QED
    BY <1>1, <2>1 DEF Known
<1>5. Papers(i) /\ i \notin torn
  BY <1>4 DEF SerialInv
<1>6. Papers(i)'
  BY <1>1, <1>3, <1>5 DEF Papers
<1>7. ASSUME NEW j \in Ids, \A p \in Hooks : at'[p] = Idle \/ at'[p].id # j
      PROVE  Papers(j)' /\ j \notin torn'
  <2>1. CASE j = i
    BY <1>1, <1>5, <1>6, <2>1
  <2>2. CASE j # i
    BY <1>1, <1>3, <1>7, <2>2 DEF SerialInv, Papers
  <2> QED
    BY <2>1, <2>2
<1>8. ASSUME NEW p \in Hooks, at'[p] # Idle PROVE Progress(at[p])'
  <2>1. Progress(at[p]) /\ at'[p] = at[p] /\ disk'[at[p].id] = disk[at[p].id]
    BY <1>1, <1>3, <1>4, <1>8 DEF SerialInv
  <2> QED
    BY <1>1, <2>1 DEF Progress, Papers
<1> QED
  BY <1>1, <1>7, <1>8 DEF SerialInv

(* The latest open session, loaded when nobody is at work.                 *)
LEMMA LoadSettled ==
    ASSUME SessionInv, \A i \in Ids : Papers(i) /\ i \notin torn,
           NEW e \in Event, NEW round \in 0..2, NEW y, y = Load(e, round)
    PROVE  Settled(y)
<1>1. CASE OpenSessions = {}
  BY <1>1 DEF Load, Settled
<1>2. CASE OpenSessions # {}
  <2>1. Latest \in Ids /\ disk[Latest].status = "open"
    BY <1>2, LatestIsOpen DEF OpenSessions
  <2>2. /\ y.stage = FirstStage(e) /\ y.io = "read" /\ y.event = e
        /\ y.id = Latest /\ y.session = disk[Latest]
    BY <1>2 DEF Load, Idle
  <2>3. FirstStage(e) \in {"watch", "evidence", "end", "record"}
    BY DEF FirstStage
  <2>4. Latest \notin packets /\ receipt[Latest] = "none" /\ Latest \notin torn
    BY <2>1 DEF Papers
  <2>5. Progress(y)
    BY <2>1, <2>2, <2>3, <2>4, FreshProgress
  <2> QED
    BY <2>5 DEF Settled
<1> QED
  BY <1>1, <1>2

(* A process starts while all others are idle, for else it races.          *)
LEMMA HandleSerial ==
    ASSUME SessionInv, SerialInv, ~raced', NEW p \in Hooks, NEW e \in Event,
           Handle(p, e) \/ HandleUnrouted(p, e)
    PROVE  SerialInv'
<1>1. /\ ~raced /\ (\A q \in Hooks : at[q] = Idle)
      /\ UNCHANGED <<disk, torn, receipt, packets>>
  BY DEF Handle, HandleUnrouted, Arrives, SessionInv
<1>2. \A i \in Ids : Papers(i) /\ i \notin torn
  BY <1>1, QuietView
<1>3. \A q \in Hooks : AnswerSticks(answer[q])
  BY <1>1 DEF SerialInv
<1>4. CASE Handle(p, e)
  <2>1. PICK y : y = Load(e, 1) /\ at' = [at EXCEPT ![p] = y]
    BY <1>4 DEF Handle
  <2>2. Settled(y)
    BY <1>2, <2>1, LoadSettled
  <2>3. Settled(y)'
    BY <1>1, <2>2 DEF Settled, Progress, Papers
  <2>4. PICK a : AnswerSticks(a) /\ answer' = [answer EXCEPT ![p] = a]
    <3>1. answer' = [answer EXCEPT ![p] =
                       IF OpenSessions = {} THEN Answer(e, {}, "none") ELSE NoAnswer]
      BY <1>4 DEF Handle
    <3> QED
      BY <3>1, QuietSticks
  <2>5. \A q \in Hooks : AnswerSticks(answer'[q])
    BY <1>3, <2>4, StickyStep
  <2> QED
    BY <1>1, <2>1, <2>3, <2>5, LoneStep
<1>5. CASE HandleUnrouted(p, e)
  <2>1. at' = at /\ answer' = [answer EXCEPT ![p] = Answer(e, {}, "none")]
    BY <1>5 DEF HandleUnrouted
  <2>2. \A q \in Hooks : AnswerSticks(answer'[q])
    BY <1>3, <2>1, QuietSticks, StickyStep
  <2>3. \A i \in Ids : Papers(i)' /\ i \notin torn'
    BY <1>1, <1>2 DEF Papers
  <2> QED
    BY <1>1, <2>1, <2>2, <2>3 DEF SerialInv
<1> QED
  BY <1>4, <1>5

(* What an update of the record makes of the commands.                     *)
LEMMA RecordCommands ==
    ASSUME NEW x \in Handlers, x.stage = "record", NEW s \in Sessions,
           "reset" \in s.commands, "reset" \in x.session.commands
    PROVE  "reset" \in Patch(x, s).commands
<1>1. "reset" \in RecordPatch(x.event, x.session, s).commands
  BY DEF RecordPatch, Sessions, OtherTools
<1> QED
  BY <1>1 DEF Patch

(* Updating a file: the read cannot fail, the truncation tears the file,   *)
(* the write mends it.                                                     *)
LEMMA ReadSerial ==
    ASSUME SessionInv, SerialInv, ~raced, NEW p \in Hooks, ReadFile(p) \/ Truncate(p)
    PROVE  SerialInv'
<1>1. PICK x : x = at[p]
  OBVIOUS
<1>2. /\ x \in Handlers /\ HandlerFits(x, Known, Receipted) /\ x.stage \in Updates
      /\ x # Idle
  BY <1>1 DEF SessionInv, ReadFile, Truncate, HandlerFits, Idle, Updates
<1>3. /\ x.event \in Event /\ x.id \in Ids /\ disk[x.id] \in Sessions
  BY <1>2 DEF HandlerFits, Known, Updates, SessionInv
<1>4. (\A q \in Hooks \ {p} : at[q] = Idle) /\ Settled(x)
  BY <1>1, <1>2, LoneView
<1>5. Progress(x) /\ \A i \in Ids : x.id # i => Papers(i) /\ i \notin torn
  BY <1>2, <1>4 DEF Settled
<1>6. disk[x.id].status = "open" /\ x.id \notin packets
  BY <1>2, <1>5 DEF Progress
<1>7. UNCHANGED <<disk, receipt, packets, answer, raced>>
  BY DEF ReadFile, Truncate
<1>8. \A q \in Hooks : AnswerSticks(answer'[q])
  BY <1>7 DEF SerialInv
<1>9. CASE ReadFile(p)
  <2>1. PICK mem : mem = Patch(x, disk[x.id])
    OBVIOUS
  <2>2. PICK y : y = [x EXCEPT !.mem = mem, !.io = "truncate"]
    OBVIOUS
  <2>3. at' = [at EXCEPT ![p] = y] /\ torn' = torn /\ x.io = "read"
    BY <1>1, <1>9, <2>1, <2>2 DEF ReadFile
  <2>4. /\ y.stage = x.stage /\ y.io = "truncate" /\ y.event = x.event /\ y.id = x.id
        /\ y.found = x.found /\ y.session = x.session /\ y.mem = mem
    BY <1>2, <2>2 DEF Handlers
  <2>5. /\ mem.status = CASE x.stage = "close" -> "closed"
                          [] x.stage = "interrupt" -> "interrupted"
                          [] OTHER -> "open"
        /\ x.stage = "close" => mem.closeReason = sessionGate(x.session)
    BY <1>2, <1>3, <1>6, <2>1, PatchStatus
  <2>6. x.event.kind \in PreToolUse /\ "reset" \in x.session.commands /\ x.stage = "record"
          => "reset" \in mem.commands
    <3>1. x.event.kind \in PreToolUse /\ "reset" \in x.session.commands /\ x.stage = "record"
            => "reset" \in disk[x.id].commands
      BY <1>5, <2>3 DEF Progress
    <3> QED
      BY <1>2, <1>3, <2>1, <3>1, RecordCommands
  <2>7. Progress(y)'
    BY <1>2, <1>5, <1>7, <2>3, <2>4, <2>5, <2>6 DEF Progress, Updates
  <2>8. Settled(y)'
    BY <1>5, <1>7, <2>3, <2>4, <2>7 DEF Settled, Papers, Idle
  <2> QED
    BY <1>4, <1>8, <2>3, <2>8, LoneStep
<1>10. CASE Truncate(p)
  <2>1. PICK y : y = [x EXCEPT !.io = "write"]
    OBVIOUS
  <2>2. at' = [at EXCEPT ![p] = y] /\ torn' = torn \union {x.id} /\ x.io = "truncate"
    BY <1>1, <1>10, <2>1 DEF Truncate
  <2>3. /\ y.stage = x.stage /\ y.io = "write" /\ y.event = x.event /\ y.id = x.id
        /\ y.found = x.found /\ y.session = x.session /\ y.mem = x.mem
    BY <1>2, <2>1 DEF Handlers
  <2>4. Progress(y)'
    BY <1>2, <1>5, <1>7, <2>2, <2>3 DEF Progress, Updates
  <2>5. Settled(y)'
    BY <1>5, <1>7, <2>2, <2>3, <2>4 DEF Settled, Papers, Idle
  <2> QED
    BY <1>4, <1>8, <2>2, <2>5, LoneStep
<1> QED
  BY <1>9, <1>10

(* The lone process finds its session readable.                            *)
LEMMA ReadSucceeds ==
    ASSUME SessionInv, SerialInv, ~raced, NEW p \in Hooks, ReadFails(p)
    PROVE  FALSE
<1>1. PICK x : x = at[p]
  OBVIOUS
<1>2. HandlerFits(x, Known, Receipted) /\ x.stage \in Updates /\ x.io = "read" /\ x # Idle
  BY <1>1 DEF SessionInv, ReadFails, Idle, Updates
<1>3. Progress(x)
  BY <1>1, <1>2, LoneView DEF Settled
<1>4. x.id \in Known /\ x.id \notin torn
  BY <1>2, <1>3 DEF HandlerFits, Progress, Updates
<1> QED
  BY <1>1, <1>4 DEF ReadFails, Readable, Known

(* A written update: the file has the status its stage gives it, and what  *)
(* follows starts from there.                                              *)
LEMMA WriteSerial ==
    ASSUME SessionInv, SerialInv, ~raced, NEW p \in Hooks, WriteFile(p)
    PROVE  SerialInv'
<1>1. PICK x : x = at[p]
  OBVIOUS
<1>2. x \in Handlers /\ HandlerFits(x, Known, Receipted) /\ x.io = "write" /\ x # Idle
  BY <1>1 DEF SessionInv, WriteFile, Idle
<1>3. /\ x.stage \in Updates /\ x.event \in Event /\ x.id \in Ids /\ x.mem \in Sessions
      /\ x.stage \in StagesOf(x.event)
  BY <1>2 DEF HandlerFits, Known, Updates, Handlers
<1>4. (\A q \in Hooks \ {p} : at[q] = Idle) /\ Settled(x)
  BY <1>1, <1>2, LoneView
<1>5. Progress(x) /\ \A i \in Ids : x.id # i => Papers(i) /\ i \notin torn
  BY <1>2, <1>4 DEF Settled
<1>6. PICK c \in Sessions : c = x.mem
  BY <1>3
<1>7. PICK y : y = After(x, c)
  OBVIOUS
<1>8. /\ at' = [at EXCEPT ![p] = y]
      /\ answer' = [answer EXCEPT ![p] =
            IF y # Idle THEN answer[p]
            ELSE Answer(x.event, x.session.commands,
                        IF hasApprovalRequired(Found(x, c)) THEN "needs_approval" ELSE "allow")]
      /\ disk' = [disk EXCEPT ![x.id] = redact(c)] /\ torn' = torn \ {x.id}
      /\ UNCHANGED <<receipt, packets, raced>>
  BY <1>1, <1>6, <1>7 DEF WriteFile, Continue
<1>9. /\ disk'[x.id].status = c.status /\ disk'[x.id].closeReason = c.closeReason
      /\ \A i \in Ids \ {x.id} : disk'[i] = disk[i]
  BY <1>3, <1>8, RedactTyped DEF SessionInv
<1>10. \A i \in Ids : x.id # i => Papers(i)' /\ i \notin torn'
  BY <1>5, <1>8, <1>9 DEF Papers
<1>11. x.id \notin torn' /\ x.id \notin packets'
  BY <1>3, <1>5, <1>8 DEF Progress
<1>12. /\ x.stage \notin {"close", "interrupt"} =>
            disk'[x.id].status = "open" /\ receipt'[x.id] = "none"
       /\ x.stage = "close" =>
            /\ disk'[x.id].status = "closed"
            /\ disk'[x.id].closeReason = receipt'[x.id] /\ receipt'[x.id] # "none"
       /\ x.stage = "interrupt" =>
            disk'[x.id].status = "interrupted" /\ receipt'[x.id] = "none"
  <2>1. /\ c.status = CASE x.stage = "close" -> "closed"
                        [] x.stage = "interrupt" -> "interrupted"
                        [] OTHER -> "open"
        /\ x.stage = "close" =>
             c.closeReason = sessionGate(x.session) /\ receipt[x.id] = sessionGate(x.session)
        /\ x.stage # "close" => receipt[x.id] = "none"
    BY <1>2, <1>3, <1>5, <1>6 DEF Progress
  <2>2. sessionGate(x.session) # "none"
    BY GateDecides DEF Decisions
  <2> QED
    BY <1>8, <1>9, <2>1, <2>2
<1>13. x.stage # "interrupt" => Papers(x.id)'
  BY <1>11, <1>12 DEF Papers
<1>14. x.event.kind \in PreToolUse /\ "reset" \in x.session.commands =>
         /\ x.stage \in {"record", "drift", "correct"}
         /\ x.stage = "record" => "destructive_action_attempted" \in detectDrift(c)
         /\ x.stage \in {"drift", "correct"} => "destructive_action_attempted" \in x.found
  <2>1. x.event.kind \in PreToolUse => x.stage \in {"record", "drift", "correct"}
    BY <1>3, ToolUseStages
  <2>2. "reset" \in c.commands => "destructive_action_attempted" \in detectDrift(c)
    BY DEF detectDrift, SignalTypes, Destructive
  <2> QED
    BY <1>2, <1>5, <1>6, <2>1, <2>2 DEF Progress
<1>15. Settled(y)'
  <2>1. CASE y = Idle
    <3>1. x.stage # "interrupt"
      <4>1. x.stage = "interrupt" => y.stage = "packet"
        BY <1>2, <1>7 DEF After, To, Handlers
      <4> QED
        BY <2>1, <4>1 DEF Idle
    <3> QED
      BY <1>10, <1>11, <1>13, <2>1, <3>1 DEF Settled
  <2>2. CASE y # Idle
    <3>1. y.io = "read" /\ y.id = x.id /\ y.event = x.event
      BY <1>2, <1>7, <2>2, <1>3 DEF After, To, EndHandled, Handlers, Updates
    <3>2. \/ /\ x.stage = "record" /\ y.stage = "drift"
             /\ y.session = x.session /\ y.found = detectDrift(c)
          \/ /\ x.stage = "drift" /\ y.stage = "correct"
             /\ y.session = x.session /\ y.found = x.found
          \/ x.stage = "end" /\ y.stage \in {"receipt", "interrupt"}
          \/ x.stage = "close" /\ y.stage = "again"
          \/ x.stage = "interrupt" /\ y.stage = "packet"
      BY <1>2, <1>7, <2>2, <1>3 DEF After, To, EndHandled, Handlers, Updates
    <3>3. Progress(y)'
      <4>1. y.event.kind \in PreToolUse /\ "reset" \in y.session.commands =>
              y.stage # "record" /\ "destructive_action_attempted" \in y.found
        BY <1>14, <3>1, <3>2, <1>3, ToolUseStages
      <4>2. y.stage = "again" => Papers(y.id)'
        BY <1>13, <3>1, <3>2
      <4> QED
        BY <1>11, <1>12, <3>1, <3>2, <4>1, <4>2 DEF Progress, Papers, Updates
    <3> QED
      BY <1>10, <2>2, <3>1, <3>3 DEF Settled
  <2> QED
    BY <2>1, <2>2
<1>16. PICK a : /\ a = IF y # Idle THEN answer[p]
                      ELSE Answer(x.event, x.session.commands,
                        IF hasApprovalRequired(Found(x, c)) THEN "needs_approval" ELSE "allow")
                /\ answer' = [answer EXCEPT ![p] = a]
  BY <1>8
<1>17. AnswerSticks(a)
  <2>1. CASE y # Idle
    BY <1>16, <2>1 DEF SerialInv
  <2>2. CASE y = Idle
    <3>1. PICK verdict : verdict = IF hasApprovalRequired(Found(x, c)) THEN "needs_approval" ELSE "allow"
      OBVIOUS
    <3>2. a = Answer(x.event, x.session.commands, verdict)
      BY <1>16, <2>2, <3>1
    <3>3. x.event.kind \in PreToolUse /\ "reset" \in x.session.commands =>
            verdict = "needs_approval"
      <4>1. x.event.kind \in PreToolUse /\ "reset" \in x.session.commands =>
              "destructive_action_attempted" \in Found(x, c)
        BY <1>14 DEF Found
      <4> QED
        BY <3>1, <4>1 DEF hasApprovalRequired, Blocking
    <3>4. CASE x.event.kind \in PreToolUse
      <4>1. /\ a.event = x.event /\ a.seen = x.session.commands
            /\ a.verdict = hookVerdict(x.event, verdict)
        BY <3>2, <3>4 DEF Answer
      <4> QED
        BY <3>3, <3>4, <4>1, GateStands DEF AnswerSticks
    <3>5. CASE x.event.kind \notin PreToolUse
      BY <3>2, <3>5, QuietSticks DEF Answer
    <3> QED
      BY <3>4, <3>5
  <2> QED
    BY <2>1, <2>2
<1>18. \A q \in Hooks : AnswerSticks(answer'[q])
  BY <1>16, <1>17, StickyStep DEF SerialInv
<1> QED
  BY <1>4, <1>8, <1>15, <1>18, LoneStep

(* The papers of an ending session, and the second call.                   *)
LEMMA EndSerial ==
    ASSUME SessionInv, SerialInv, ~raced, NEW p \in Hooks,
           persistReceipt(p) \/ writeResumePacket(p) \/ EndAgain(p)
    PROVE  SerialInv'
<1>1. PICK x : x = at[p]
  OBVIOUS
<1>2. /\ x \in Handlers /\ HandlerFits(x, Known, Receipted) /\ x # Idle
      /\ x.stage \in {"receipt", "packet", "again"}
  BY <1>1 DEF SessionInv, persistReceipt, writeResumePacket, EndAgain, Idle
<1>3. /\ x.event \in Event /\ x.id \in Ids /\ x.event.kind = "SessionEnd" /\ x.io # "write"
  BY <1>2 DEF HandlerFits, Known, StagesOf, Updates
<1>4. (\A q \in Hooks \ {p} : at[q] = Idle) /\ Settled(x)
  BY <1>1, <1>2, LoneView
<1>5. Progress(x) /\ \A i \in Ids : x.id # i => Papers(i) /\ i \notin torn
  BY <1>2, <1>4 DEF Settled
<1>6. x.id \notin torn
  BY <1>3, <1>5 DEF Progress
<1>7. UNCHANGED <<disk, torn, answer, raced>>
  BY DEF persistReceipt, writeResumePacket, EndAgain
<1>8. \A q \in Hooks : AnswerSticks(answer'[q])
  BY <1>7 DEF SerialInv
<1>9. "SessionEnd" \notin PreToolUse
  BY DEF PreToolUse, OtherTools
<1>10. CASE persistReceipt(p)
  <2>1. PICK y : y = To(x, "close")
    OBVIOUS
  <2>2. /\ at' = [at EXCEPT ![p] = y] /\ x.stage = "receipt" /\ packets' = packets
        /\ receipt' = [receipt EXCEPT ![x.id] = sessionGate(x.session)]
    BY <1>1, <1>10, <2>1 DEF persistReceipt, SessionInv
  <2>3. /\ receipt'[x.id] = sessionGate(x.session)
        /\ \A i \in Ids : x.id # i => receipt'[i] = receipt[i]
    BY <1>3, <2>2 DEF SessionInv
  <2>4. /\ y.stage = "close" /\ y.io = "read" /\ y.id = x.id /\ y.event = x.event
        /\ y.session = x.session
    BY <1>2, <2>1 DEF To, Handlers
  <2>5. Progress(y)'
    BY <1>3, <1>5, <1>6, <1>7, <1>9, <2>2, <2>3, <2>4 DEF Progress, Updates
  <2>6. Settled(y)'
    BY <1>5, <1>7, <2>2, <2>3, <2>4, <2>5 DEF Settled, Papers, Idle
  <2> QED
    BY <1>4, <1>8, <2>2, <2>6, LoneStep
<1>11. CASE writeResumePacket(p)
  <2>1. PICK y : y = EndHandled(x)
    OBVIOUS
  <2>2. /\ at' = [at EXCEPT ![p] = y] /\ x.stage = "packet" /\ receipt' = receipt
        /\ packets' = packets \union {x.id}
    BY <1>1, <1>11, <2>1 DEF writeResumePacket, SessionInv
  <2>3. Papers(x.id)'
    <3>1. disk[x.id].status = "interrupted" /\ receipt[x.id] = "none"
      BY <1>5, <2>2 DEF Progress
    <3> QED
      BY <1>7, <2>2, <3>1 DEF Papers
  <2>4. y = Idle \/ (/\ y.stage = "again" /\ y.io = "read" /\ y.id = x.id /\ y.event = x.event)
    BY <1>2, <2>1 DEF EndHandled, To, Handlers
  <2>5. \A i \in Ids : x.id # i => Papers(i)'
    BY <1>5, <1>7, <2>2 DEF Papers
  <2>6. y # Idle => Progress(y)'
    BY <1>3, <1>6, <1>7, <1>9, <2>3, <2>4 DEF Progress, Papers, Updates
  <2>7. Settled(y)'
    BY <1>5, <1>6, <1>7, <2>3, <2>4, <2>5, <2>6 DEF Settled
  <2> QED
    BY <1>4, <1>8, <2>2, <2>7, LoneStep
<1>12. CASE EndAgain(p)
  <2>1. PICK y : y = Load(x.event, 2)
    OBVIOUS
  <2>2. at' = [at EXCEPT ![p] = y] /\ x.stage = "again" /\ UNCHANGED <<receipt, packets>>
    BY <1>1, <1>12, <2>1 DEF EndAgain
  <2>3. \A i \in Ids : Papers(i) /\ i \notin torn
    BY <1>5, <1>6, <2>2 DEF Progress
  <2>4. Settled(y)
    BY <1>3, <2>1, <2>3, LoadSettled
  <2>5. Settled(y)'
    BY <1>7, <2>2, <2>4 DEF Settled, Progress, Papers
  <2> QED
    BY <1>4, <1>8, <2>2, <2>5, LoneStep
<1> QED
  BY <1>10, <1>11, <1>12

(* No step without a race disturbs the papers; a race ends the matter.     *)
LEMMA NextSerial ==
    ASSUME SessionInv, SerialInv, [Next]_vars
    PROVE  SerialInv'
<1>1. CASE raced'
  BY <1>1 DEF SerialInv
<1>2. CASE UNCHANGED vars
  BY <1>2 DEF vars, SerialInv, Progress, Papers
<1>3. CASE ~raced' /\ Next
  <2>1. ASSUME NEW i \in Ids, createSession(i) PROVE SerialInv'
    BY <1>3, <2>1, CreateSerial DEF createSession
  <2>2. ASSUME NEW p \in Hooks, ReadFile(p) \/ Truncate(p) PROVE SerialInv'
    BY <1>3, <2>2, ReadSerial DEF ReadFile, Truncate
  <2>3. ASSUME NEW p \in Hooks, ReadFails(p) PROVE SerialInv'
    BY <1>3, <2>3, ReadSucceeds DEF ReadFails
  <2>4. ASSUME NEW p \in Hooks, WriteFile(p) PROVE SerialInv'
    BY <1>3, <2>4, WriteSerial DEF WriteFile
  <2>5. ASSUME NEW p \in Hooks, persistReceipt(p) \/ writeResumePacket(p) \/ EndAgain(p)
        PROVE  SerialInv'
    BY <1>3, <2>5, EndSerial DEF persistReceipt, writeResumePacket, EndAgain
  <2>6. ASSUME NEW p \in Hooks, Throw(p) \/ Crash(p) PROVE FALSE
    BY <1>3, <2>6 DEF Throw, Crash
  <2>7. ASSUME NEW p \in Hooks, NEW e \in Event, Handle(p, e) \/ HandleUnrouted(p, e)
        PROVE  SerialInv'
    BY <1>3, <2>7, HandleSerial
  <2> QED
    BY <1>3, <2>1, <2>2, <2>3, <2>4, <2>5, <2>6, <2>7 DEF Next, Step
<1> QED
  BY <1>1, <1>2, <1>3

(* At first there is no session that could owe papers.                     *)
LEMMA InitSerial == Init => SerialInv
<1> SUFFICES ASSUME Init PROVE SerialInv
  OBVIOUS
<1>1. \A p \in Hooks : at[p] = Idle /\ answer[p] = NoAnswer
  BY DEF Init
<1>2. \A i \in Ids : disk[i].status = "none" /\ receipt[i] = "none"
  BY DEF Init, EmptySession
<1> QED
  BY <1>1, <1>2, QuietSticks DEF Init, SerialInv, Papers

(* While handlers run one after the other and none dies, the papers of the *)
(* sessions and the claims of the answers agree with the files             *)
(* (processHookEvent, endSession, writeResumePacket).                      *)
THEOREM SerialInvariant == Spec => []SerialInv
  BY InitSerial, NextSerial, SessionInvariant, PTL DEF Spec

(* As long as handlers run one after the other, a destructive command on   *)
(* the record of a session keeps every later tool use under approval: no   *)
(* update drops it and each detects it anew (processHookEvent, detectDrift,*)
(* hasApprovalRequired).                                                   *)
THEOREM DestructiveStays == Spec => []DestructiveSticks
<1>1. SerialInv => DestructiveSticks
  BY DEF SerialInv, AnswerSticks, DestructiveSticks
<1> QED
  BY <1>1, SerialInvariant, PTL

(* Across crashes and races a closed session has a receipt; without them   *)
(* receipt, close reason and resume packet agree with the status whenever  *)
(* no handler is at work (persistReceipt, closeSession, interruptSession). *)
THEOREM PapersAreLeft == Spec => []EndsLeavePapers
<1>1. SessionInv /\ SerialInv => EndsLeavePapers
  BY DEF SessionInv, SerialInv, EndsLeavePapers, Papers, Receipted
<1> QED
  BY <1>1, SessionInvariant, SerialInvariant, PTL

(* Without races no process writes a session that has ended: only an open  *)
(* one is ever loaded, and nobody else ends it meanwhile.                  *)
THEOREM EndedStaysFinal == Spec => EndedIsFinal
<1>1. ASSUME SessionInv, SerialInv, Next, ~raced',
             NEW i \in Ids, disk[i].status \in {"closed", "interrupted"}
      PROVE  disk'[i] = disk[i]
  <2>1. CASE \E j \in Ids : createSession(j)
    BY <1>1, <2>1 DEF createSession, SessionInv
  <2>2. ASSUME NEW p \in Hooks, WriteFile(p) PROVE disk'[i] = disk[i]
    <3>1. PICK x : x = at[p]
      OBVIOUS
    <3>2. HandlerFits(x, Known, Receipted) /\ x.io = "write" /\ x # Idle /\ ~raced
      BY <1>1, <2>2, <3>1 DEF SessionInv, WriteFile, Idle
    <3>3. x.stage \in Updates /\ Progress(x)
      BY <1>1, <3>1, <3>2 DEF HandlerFits, SerialInv
    <3>4. disk[x.id].status = "open"
      BY <3>3 DEF Progress
    <3>5. disk' = [disk EXCEPT ![x.id] = redact(at[p].mem)] /\ i # x.id
      BY <1>1, <2>2, <3>1, <3>4 DEF WriteFile
    <3> QED
      BY <1>1, <3>5 DEF SessionInv
  <2>3. CASE \E p \in Hooks : WriteFile(p)
    BY <2>2, <2>3
  <2>4. CASE \/ \E p \in Hooks : \/ ReadFile(p) \/ ReadFails(p) \/ Truncate(p)
                                 \/ persistReceipt(p) \/ writeResumePacket(p) \/ EndAgain(p)
                                 \/ Throw(p) \/ Crash(p)
             \/ \E p \in Hooks, e \in Event : Handle(p, e) \/ HandleUnrouted(p, e)
    BY <2>4 DEF ReadFile, ReadFails, Truncate, persistReceipt, writeResumePacket, EndAgain,
                Throw, Crash, Handle, HandleUnrouted, Arrives
  <2> QED
    BY <1>1, <2>1, <2>3, <2>4 DEF Next, Step
<1>2. SessionInv /\ SerialInv /\ [Next]_vars =>
        [~raced' => \A i \in Ids : disk[i].status \in {"closed", "interrupted"}
                                     => disk'[i] = disk[i]]_vars
  BY <1>1
<1> QED
  BY <1>2, SessionInvariant, SerialInvariant, PTL DEF Spec, EndedIsFinal
-----------------------------------------------------------------------------
(* What is on record stays there, as long as handlers run one after the    *)
(* other.  An update writes lists of its snapshot, so that the snapshot    *)
(* must be what is on disk in the fields the update is about.              *)

(* Session b has all that session a has recorded.                          *)
Extends(b, a) ==
    /\ a.commands \subseteq b.commands
    /\ a.sensitive \subseteq b.sensitive
    /\ a.evidence \subseteq b.evidence
    /\ a.signals \subseteq b.signals
    /\ a.calls <= b.calls
    /\ a.corrections <= b.corrections
    /\ \A f \in Files : a.files[f] <= b.files[f]

(* Of the session s, x knows what its update is about.                     *)
Knows(x, s) ==
    /\ x.stage \in {"record", "watch", "evidence"} => x.session = s
    /\ x.stage = "drift" => x.session.signals = s.signals
    /\ x.stage \in {"drift", "correct"} => x.session.corrections = s.corrections

(* What it is about to write is more than s, and no more than it must be   *)
(* for the update after it.                                                *)
Keeps(x, mem, s) ==
    /\ Extends(mem, s)
    /\ x.stage = "record" => mem.signals = s.signals
    /\ x.stage \in {"record", "drift"} => mem.corrections = s.corrections

Current(x) ==
    /\ Knows(x, disk[x.id])
    /\ x.io \in {"truncate", "write"} => Keeps(x, x.mem, disk[x.id])

GrowthInv ==
    ~raced =>
        /\ \A i \in Ids : disk[i].status = "none" => disk[i] = EmptySession
        /\ \A i \in Ids : "buried" \notin disk[i].commands
        /\ \A p \in Hooks : at[p] # Idle => Current(at[p])

(* The numbers of a session are comparable.                                *)
LEMMA Reflexive ==
    ASSUME NEW s \in Sessions
    PROVE  Extends(s, s) /\ s.calls <= s.calls + 1 /\ s.corrections <= s.corrections + 1
<1>1. \A n \in Nat : n <= n /\ n <= n + 1
  OBVIOUS
<1>2. \A f \in Files : s.files[f] \in Nat
  BY SessionFields
<1> QED
  BY <1>1, <1>2, SessionFields DEF Extends

(* The update of the record adds to the snapshot it was made of.           *)
LEMMA RecordExtends ==
    ASSUME NEW e \in Event, NEW s \in Sessions, NEW mem, mem = RecordPatch(e, s, s)
    PROVE  Extends(mem, s) /\ mem.signals = s.signals /\ mem.corrections = s.corrections
<1>1. CASE e.kind \in OtherTools \union {"UserPromptSubmit"}
  <2>1. mem = [s EXCEPT !.calls = s.calls + 1]
    BY <1>1 DEF RecordPatch, OtherTools
  <2>2. /\ mem.calls = s.calls + 1 /\ mem.commands = s.commands /\ mem.files = s.files
        /\ mem.sensitive = s.sensitive /\ mem.evidence = s.evidence
        /\ mem.signals = s.signals /\ mem.corrections = s.corrections
    BY <2>1 DEF Sessions
  <2> QED
    BY <2>2, Reflexive DEF Extends
<1>2. CASE e.kind = "edit"
  <2> DEFINE files == [s.files EXCEPT ![e.file] = s.files[e.file] + 1]
             sensitive == IF e.file \in Sensitive THEN s.sensitive \union {e.file}
                                                  ELSE s.sensitive
  <2>1. e.file \in Files /\ s.files \in [Files -> Nat]
    BY <1>2, EventFacts, SessionFields
  <2>2. \A f \in Files : s.files[f] <= files[f]
    BY <2>1
  <2>3. mem = [s EXCEPT !.calls = s.calls + 1, !.files = files, !.sensitive = sensitive]
    BY <1>2 DEF RecordPatch, OtherTools
  <2>4. s.sensitive \subseteq sensitive
    OBVIOUS
  <2> HIDE DEF files, sensitive
  <2>5. /\ mem.calls = s.calls + 1 /\ mem.commands = s.commands /\ mem.files = files
        /\ mem.sensitive = sensitive /\ mem.evidence = s.evidence
        /\ mem.signals = s.signals /\ mem.corrections = s.corrections
    BY <2>3 DEF Sessions
  <2> QED
    BY <2>2, <2>4, <2>5, Reflexive DEF Extends
<1>3. CASE e.kind = "bash"
  <2>1. mem = [s EXCEPT !.calls = s.calls + 1, !.commands = s.commands \union {e.command}]
    BY <1>3 DEF RecordPatch, OtherTools
  <2>2. /\ mem.calls = s.calls + 1 /\ mem.commands = s.commands \union {e.command}
        /\ mem.files = s.files /\ mem.sensitive = s.sensitive /\ mem.evidence = s.evidence
        /\ mem.signals = s.signals /\ mem.corrections = s.corrections
    BY <2>1 DEF Sessions
  <2> QED
    BY <2>2, Reflexive DEF Extends
<1>4. CASE e.kind \notin OtherTools \union {"UserPromptSubmit", "edit", "bash"}
  <2>1. mem = s
    BY <1>4 DEF RecordPatch
  <2> QED
    BY <2>1, Reflexive
<1> QED
  BY <1>1, <1>2, <1>3, <1>4

(* So does a watch: a file that is new to it had no edit on record.        *)
LEMMA WatchExtends ==
    ASSUME NEW e \in Event, e.kind = "watch", NEW s \in Sessions,
           NEW mem, mem = WatchPatch(e, s, s)
    PROVE  Extends(mem, s)
<1> DEFINE view == WatchView(e, s)
           found == detectDrift(view)
           sensitive == s.sensitive \union (NewFiles(e, s) \intersect Sensitive)
           corrections == IF buildCorrectionGuidance(found) = {} THEN s.corrections
                          ELSE s.corrections + 1
<1>1. Cardinality(NewFiles(e, s)) \in Nat
  BY EventFacts, SessionAssumption, FS_Subset, FS_CardinalityType DEF NewFiles
<1>2. /\ view.files = [f \in Files |-> IF f \in NewFiles(e, s) THEN 1 ELSE s.files[f]]
      /\ view.calls = s.calls + Cardinality(NewFiles(e, s))
  BY DEF WatchView, Sessions
<1>3. \A f \in Files : s.files[f] <= view.files[f]
  <2>1. ASSUME NEW f \in Files PROVE s.files[f] <= view.files[f]
    <3>1. s.files[f] \in Nat
      BY SessionFields
    <3>2. CASE f \in NewFiles(e, s)
      <4>1. ~(s.files[f] > 0) /\ view.files[f] = 1
        BY <1>2, <3>2 DEF NewFiles, Touched
      <4> QED
        BY <3>1, <4>1
    <3>3. CASE f \notin NewFiles(e, s)
      <4>1. view.files[f] = s.files[f]
        BY <1>2, <3>3
      <4> QED
        BY <3>1, <4>1
    <3> QED
      BY <3>2, <3>3
  <2> QED
    BY <2>1
<1>4. s.calls <= view.calls
  BY <1>1, <1>2, SessionFields
<1>5. mem = [s EXCEPT !.files = view.files, !.calls = view.calls, !.sensitive = sensitive,
                      !.signals = s.signals \union found, !.corrections = corrections]
  BY DEF WatchPatch
<1>6. s.sensitive \subseteq sensitive /\ s.corrections <= corrections
  BY Reflexive, SessionFields
<1> HIDE DEF view, found, sensitive, corrections
<1>7. /\ mem.calls = view.calls /\ mem.commands = s.commands /\ mem.files = view.files
      /\ mem.sensitive = sensitive /\ mem.evidence = s.evidence
      /\ mem.signals = s.signals \union found /\ mem.corrections = corrections
  BY <1>5 DEF Sessions
<1> QED
  BY <1>3, <1>4, <1>6, <1>7 DEF Extends

(* And so does every update by a process that knows what it is about.      *)
LEMMA PatchKeeps ==
    ASSUME NEW x \in Handlers, x.event \in Event, x.stage \in Updates,
           x.stage \in StagesOf(x.event), NEW s \in Sessions, Knows(x, s),
           NEW mem, mem = Patch(x, s)
    PROVE  Keeps(x, mem, s)
<1>1. CASE x.stage = "record"
  <2>1. mem = RecordPatch(x.event, s, s)
    BY <1>1 DEF Patch, Knows
  <2> QED
    BY <1>1, <2>1, RecordExtends DEF Keeps
<1>2. CASE x.stage = "watch"
  <2>1. mem = WatchPatch(x.event, s, s) /\ x.event.kind = "watch"
    BY <1>2 DEF Patch, Knows, StagesOf, Ending
  <2> QED
    BY <1>2, <2>1, WatchExtends DEF Keeps
<1>3. CASE x.stage = "drift"
  <2>1. mem = [s EXCEPT !.signals = s.signals \union x.found,
                        !.routing = rerouteOnDrift(x.found, s.routing)]
    BY <1>3 DEF Patch, Knows
  <2>2. /\ mem.calls = s.calls /\ mem.commands = s.commands /\ mem.files = s.files
        /\ mem.sensitive = s.sensitive /\ mem.evidence = s.evidence
        /\ mem.signals = s.signals \union x.found /\ mem.corrections = s.corrections
    BY <2>1 DEF Sessions
  <2> QED
    BY <1>3, <2>2, Reflexive DEF Keeps, Extends
<1>4. CASE x.stage = "correct"
  <2>1. mem = [s EXCEPT !.corrections = s.corrections + 1]
    BY <1>4 DEF Patch, Knows
  <2>2. /\ mem.calls = s.calls /\ mem.commands = s.commands /\ mem.files = s.files
        /\ mem.sensitive = s.sensitive /\ mem.evidence = s.evidence
        /\ mem.signals = s.signals /\ mem.corrections = s.corrections + 1
    BY <2>1 DEF Sessions
  <2> QED
    BY <1>4, <2>2, Reflexive DEF Keeps, Extends
<1>5. CASE x.stage = "evidence"
  <2>1. mem = [s EXCEPT !.evidence = s.evidence \union x.event.kinds]
    BY <1>5 DEF Patch, Knows
  <2>2. /\ mem.calls = s.calls /\ mem.commands = s.commands /\ mem.files = s.files
        /\ mem.sensitive = s.sensitive /\ mem.evidence = s.evidence \union x.event.kinds
        /\ mem.signals = s.signals /\ mem.corrections = s.corrections
    BY <2>1 DEF Sessions
  <2> QED
    BY <1>5, <2>2, Reflexive DEF Keeps, Extends
<1>6. CASE x.stage \in {"end", "close", "interrupt"}
  <2>1. /\ mem.calls = s.calls /\ mem.commands = s.commands /\ mem.files = s.files
        /\ mem.sensitive = s.sensitive /\ mem.evidence = s.evidence
        /\ mem.signals = s.signals /\ mem.corrections = s.corrections
    BY <1>6 DEF Patch, Sessions
  <2> QED
    BY <1>6, <2>1, Reflexive DEF Keeps, Extends
<1> QED
  BY <1>1, <1>2, <1>3, <1>4, <1>5, <1>6 DEF Updates

(* What is written is redacted; on disk nothing was left to redact.        *)
LEMMA RedactKeeps ==
    ASSUME NEW s \in Sessions, NEW c \in Sessions, Extends(c, s), "buried" \notin s.commands
    PROVE  /\ Extends(redact(c), s) /\ "buried" \notin redact(c).commands
           /\ redact(c).signals = c.signals /\ redact(c).corrections = c.corrections
<1> DEFINE kept == {IF d = "buried" THEN "safe" ELSE d : d \in c.commands}
<1>1. redact(c) = [c EXCEPT !.commands = kept]
  BY DEF redact
<1>2. s.commands \subseteq kept /\ "buried" \notin kept
  BY DEF Extends
<1> HIDE DEF kept
<1>3. /\ redact(c).commands = kept /\ redact(c).calls = c.calls /\ redact(c).files = c.files
      /\ redact(c).sensitive = c.sensitive /\ redact(c).evidence = c.evidence
      /\ redact(c).signals = c.signals /\ redact(c).corrections = c.corrections
  BY <1>1 DEF Sessions
<1> QED
  BY <1>2, <1>3 DEF Extends

(* Whoever loads the latest session knows it.                              *)
LEMMA LoadKnows ==
    ASSUME NEW e \in Event, NEW round \in 0..2, NEW y, y = Load(e, round), y # Idle
    PROVE  Current(y)
<1>1. /\ y.io = "read" /\ y.id = Latest /\ y.session = disk[Latest]
      /\ y.stage \in {"watch", "evidence", "end", "record"}
  BY DEF Load, Idle, FirstStage
<1> QED
  BY <1>1 DEF Current, Knows

(* A step of the lone process that writes no session file.                 *)
LEMMA LoneGrowth ==
    ASSUME SessionInv, GrowthInv, ~raced, NEW p \in Hooks, \A q \in Hooks \ {p} : at[q] = Idle,
           disk' = disk, NEW y, at' = [at EXCEPT ![p] = y], y # Idle => Current(y)
    PROVE  GrowthInv'
<1>1. at'[p] = y /\ \A q \in Hooks \ {p} : at'[q] = Idle
  BY DEF SessionInv
<1>2. ASSUME NEW q \in Hooks, at'[q] # Idle PROVE Current(at[q])'
  <2>1. q = p /\ at'[q] = y /\ Current(y)
    BY <1>1, <1>2
  <2> QED
    BY <2>1 DEF Current
<1> QED
  BY <1>2 DEF GrowthInv

(* A written update leaves more on record than there was, and what the     *)
(* next update is about is as its process knows it.                        *)
LEMMA WriteGrows ==
    ASSUME SessionInv, SerialInv, GrowthInv, ~raced, NEW p \in Hooks, WriteFile(p)
    PROVE  GrowthInv' /\ \A i \in Ids : Extends(disk'[i], disk[i])
<1>1. PICK x : x = at[p]
  OBVIOUS
<1>2. x \in Handlers /\ HandlerFits(x, Known, Receipted) /\ x.io = "write" /\ x # Idle
  BY <1>1 DEF SessionInv, WriteFile, Idle
<1>3. /\ x.stage \in Updates /\ x.id \in Ids /\ x.mem \in Sessions /\ disk[x.id] \in Sessions
      /\ x.mem.status # "none"
  BY <1>2 DEF HandlerFits, Known, Updates, Handlers, SessionInv
<1>4. \A q \in Hooks \ {p} : at[q] = Idle
  BY <1>1, <1>2, LoneView
<1>5. /\ Knows(x, disk[x.id]) /\ Keeps(x, x.mem, disk[x.id])
      /\ "buried" \notin disk[x.id].commands
  BY <1>1, <1>2, <1>3 DEF GrowthInv, Current
<1>6. PICK c \in Sessions : c = x.mem
  BY <1>3
<1>7. PICK y : y = After(x, c)
  OBVIOUS
<1>8. PICK new : new = redact(c)
  OBVIOUS
<1>9. at' = [at EXCEPT ![p] = y] /\ disk' = [disk EXCEPT ![x.id] = new]
  BY <1>1, <1>6, <1>7, <1>8 DEF WriteFile, Continue
<1>10. disk'[x.id] = new /\ \A i \in Ids \ {x.id} : disk'[i] = disk[i]
  BY <1>3, <1>9 DEF SessionInv
<1>11. /\ Extends(new, disk[x.id]) /\ "buried" \notin new.commands
       /\ new.signals = c.signals /\ new.corrections = c.corrections /\ new.status # "none"
  BY <1>3, <1>5, <1>6, <1>8, RedactKeeps, RedactTyped DEF Keeps
<1>12. \A i \in Ids : Extends(disk'[i], disk[i])
  <2>1. \A i \in Ids : Extends(disk[i], disk[i])
    BY Reflexive DEF SessionInv
  <2> QED
    BY <1>10, <1>11, <2>1
<1>13. at'[p] = y /\ \A q \in Hooks \ {p} : at'[q] = Idle
  BY <1>4, <1>9 DEF SessionInv
<1>14. ASSUME y # Idle PROVE y.id = x.id /\ y.io = "read" /\ Knows(y, new)
  <2>1. y.id = x.id /\ y.io = "read"
    BY <1>2, <1>3, <1>7, <1>14 DEF After, To, EndHandled, Handlers, Updates
  <2>2. \/ x.stage = "record" /\ y.stage = "drift" /\ y.session = x.session
        \/ x.stage = "drift" /\ y.stage = "correct" /\ y.session = x.session
        \/ y.stage \in {"receipt", "interrupt", "again", "packet"}
    BY <1>2, <1>3, <1>7, <1>14 DEF After, To, EndHandled, Handlers, Updates
  <2> QED
    BY <1>5, <1>6, <1>11, <2>1, <2>2 DEF Knows, Keeps
<1>15. ASSUME NEW q \in Hooks, at'[q] # Idle PROVE Current(at[q])'
  <2>1. q = p /\ at'[q] = y /\ y # Idle
    BY <1>13, <1>15
  <2> QED
    BY <1>10, <1>14, <2>1 DEF Current
<1>16. \A i \in Ids : disk'[i].status = "none" => disk'[i] = EmptySession
  BY <1>10, <1>11 DEF GrowthInv
<1>17. \A i \in Ids : "buried" \notin disk'[i].commands
  BY <1>10, <1>11 DEF GrowthInv
<1> QED
  BY <1>12, <1>15, <1>16, <1>17 DEF GrowthInv

(* A new session replaces one that had nothing on record.                  *)
LEMMA CreateGrows ==
    ASSUME SessionInv, GrowthInv, ~raced, NEW i \in Ids, createSession(i)
    PROVE  GrowthInv' /\ \A j \in Ids : Extends(disk'[j], disk[j])
<1>1. PICK new : new = [EmptySession EXCEPT !.status = "open"]
  OBVIOUS
<1>2. /\ disk[i].status = "none" /\ disk' = [disk EXCEPT ![i] = new] /\ at' = at /\ raced' = raced
  BY <1>1 DEF createSession
<1>3. disk'[i] = new /\ \A j \in Ids \ {i} : disk'[j] = disk[j]
  BY <1>2 DEF SessionInv
<1>4. EmptySession \in Sessions /\ disk[i] = EmptySession
  BY <1>2, IdleFits DEF GrowthInv
<1>5. /\ new.status = "open" /\ new.commands = {} /\ new.files = EmptySession.files
      /\ new.calls = EmptySession.calls /\ new.corrections = EmptySession.corrections
      /\ new.sensitive = EmptySession.sensitive /\ new.evidence = EmptySession.evidence
      /\ new.signals = EmptySession.signals /\ EmptySession.commands = {}
  BY <1>1 DEF EmptySession
<1>6. Extends(new, EmptySession)
  BY <1>4, <1>5, Reflexive DEF Extends
<1>7. \A j \in Ids : Extends(disk'[j], disk[j])
  <2>1. \A j \in Ids : Extends(disk[j], disk[j])
    BY Reflexive DEF SessionInv
  <2> QED
    BY <1>3, <1>4, <1>6, <2>1
<1>8. \A p \in Hooks : at[p] # Idle => at[p].id \in Ids \ {i}
  <2>1. ASSUME NEW p \in Hooks, at[p] # Idle PROVE at[p].id \in Known
    BY <2>1 DEF SessionInv, HandlerFits
  <2> QED
    BY <1>2, <2>1 DEF Known
<1>9. ASSUME NEW p \in Hooks, at'[p] # Idle PROVE Current(at[p])'
  <2>1. Current(at[p]) /\ at'[p] = at[p] /\ disk'[at[p].id] = disk[at[p].id]
    BY <1>2, <1>3, <1>8, <1>9 DEF GrowthInv
  <2> QED
    BY <2>1 DEF Current
<1>10. \A j \in Ids : /\ disk'[j].status = "none" => disk'[j] = EmptySession
                      /\ "buried" \notin disk'[j].commands
  BY <1>3, <1>5 DEF GrowthInv
<1> QED
  BY <1>7, <1>9, <1>10 DEF GrowthInv

(* The steps of a handler that write no session file.                      *)
LEMMA HandlerGrows ==
    ASSUME SessionInv, SerialInv, GrowthInv, ~raced, NEW p \in Hooks,
           \/ ReadFile(p) \/ Truncate(p)
           \/ persistReceipt(p) \/ writeResumePacket(p) \/ EndAgain(p)
    PROVE  GrowthInv' /\ disk' = disk
<1>1. PICK x : x = at[p]
  OBVIOUS
<1>2. x \in Handlers /\ HandlerFits(x, Known, Receipted) /\ x # Idle
  BY <1>1 DEF SessionInv, ReadFile, Truncate, persistReceipt, writeResumePacket, EndAgain,
              Idle, Updates
<1>3. x.event \in Event /\ x.id \in Ids /\ disk[x.id] \in Sessions /\ x.stage \in StagesOf(x.event)
  BY <1>2 DEF HandlerFits, Known, SessionInv
<1>4. \A q \in Hooks \ {p} : at[q] = Idle
  BY <1>1, <1>2, LoneView
<1>5. Current(x) /\ disk' = disk
  BY <1>1, <1>2 DEF GrowthInv, ReadFile, Truncate, persistReceipt, writeResumePacket, EndAgain
<1>6. CASE ReadFile(p)
  <2>1. PICK mem : mem = Patch(x, disk[x.id])
    OBVIOUS
  <2>2. PICK y : y = [x EXCEPT !.mem = mem, !.io = "truncate"]
    OBVIOUS
  <2>3. at' = [at EXCEPT ![p] = y] /\ x.stage \in Updates
    BY <1>1, <1>6, <2>1, <2>2 DEF ReadFile
  <2>4. Keeps(x, mem, disk[x.id])
    BY <1>2, <1>3, <1>5, <2>1, <2>3, PatchKeeps DEF Current
  <2>5. /\ y.stage = x.stage /\ y.id = x.id /\ y.session = x.session /\ y.mem = mem
    BY <1>2, <2>2 DEF Handlers
  <2>6. Current(y)
    BY <1>5, <2>4, <2>5 DEF Current, Knows, Keeps
  <2> QED
    BY <1>4, <1>5, <2>3, <2>6, LoneGrowth
<1>7. CASE Truncate(p)
  <2>1. PICK y : y = [x EXCEPT !.io = "write"]
    OBVIOUS
  <2>2. at' = [at EXCEPT ![p] = y] /\ x.io = "truncate"
    BY <1>1, <1>7, <2>1 DEF Truncate
  <2>3. /\ y.stage = x.stage /\ y.id = x.id /\ y.session = x.session /\ y.mem = x.mem
    BY <1>2, <2>1 DEF Handlers
  <2>4. Current(y)
    BY <1>5, <2>2, <2>3 DEF Current, Knows, Keeps
  <2> QED
    BY <1>4, <1>5, <2>2, <2>4, LoneGrowth
<1>8. CASE persistReceipt(p) \/ writeResumePacket(p)
  <2>1. PICK y : y = IF x.stage = "receipt" THEN To(x, "close") ELSE EndHandled(x)
    OBVIOUS
  <2>2. at' = [at EXCEPT ![p] = y]
    BY <1>1, <1>8, <2>1 DEF persistReceipt, writeResumePacket, SessionInv
  <2>3. y # Idle => y.stage \in {"close", "again"} /\ y.io = "read"
    BY <1>2, <2>1 DEF To, EndHandled, Handlers
  <2>4. y # Idle => Current(y)
    BY <2>3 DEF Current, Knows
  <2> QED
    BY <1>4, <1>5, <2>2, <2>4, LoneGrowth
<1>9. CASE EndAgain(p)
  <2>1. PICK y : y = Load(x.event, 2)
    OBVIOUS
  <2>2. at' = [at EXCEPT ![p] = y]
    BY <1>1, <1>9, <2>1 DEF EndAgain
  <2>3. y # Idle => Current(y)
    BY <1>3, <2>1, LoadKnows
  <2> QED
    BY <1>4, <1>5, <2>2, <2>3, LoneGrowth
<1> QED
  BY <1>5, <1>6, <1>7, <1>8, <1>9

(* A process that starts while all others are idle.                        *)
LEMMA HandleGrows ==
    ASSUME SessionInv, GrowthInv, ~raced', NEW p \in Hooks, NEW e \in Event,
           Handle(p, e) \/ HandleUnrouted(p, e)
    PROVE  GrowthInv' /\ disk' = disk
<1>1. ~raced /\ (\A q \in Hooks \ {p} : at[q] = Idle) /\ disk' = disk /\ at[p] = Idle
  BY DEF Handle, HandleUnrouted, Arrives, SessionInv
<1>2. CASE Handle(p, e)
  <2>1. PICK y : y = Load(e, 1) /\ at' = [at EXCEPT ![p] = y]
    BY <1>2 DEF Handle
  <2>2. y # Idle => Current(y)
    BY <2>1, LoadKnows
  <2> QED
    BY <1>1, <2>1, <2>2, LoneGrowth
<1>3. CASE HandleUnrouted(p, e)
  <2>1. at' = at
    BY <1>3 DEF HandleUnrouted
  <2> QED
    BY <1>1, <2>1 DEF GrowthInv
<1> QED
  BY <1>2, <1>3

(* No step without a race takes anything off the record.                   *)
LEMMA NextGrows ==
    ASSUME SessionInv, SerialInv, GrowthInv, [Next]_vars, ~raced'
    PROVE  GrowthInv' /\ \A i \in Ids : Extends(disk'[i], disk[i])
<1>0. \A i \in Ids : Extends(disk[i], disk[i])
  BY Reflexive DEF SessionInv
<1>1. CASE UNCHANGED vars
  BY <1>0, <1>1 DEF vars, GrowthInv, Current
<1>2. CASE Next
  <2> DEFINE Goal == GrowthInv' /\ \A i \in Ids : Extends(disk'[i], disk[i])
  <2>1. ASSUME NEW i \in Ids, createSession(i) PROVE Goal
    BY <2>1, CreateGrows DEF createSession
  <2>2. ASSUME NEW p \in Hooks, \/ ReadFile(p) \/ Truncate(p) \/ persistReceipt(p)
                                \/ writeResumePacket(p) \/ EndAgain(p)
        PROVE  Goal
    <3>1. ~raced
      BY <2>2 DEF ReadFile, Truncate, persistReceipt, writeResumePacket, EndAgain
    <3>2. GrowthInv' /\ disk' = disk
      BY <2>2, <3>1, HandlerGrows
    <3> QED
      BY <1>0, <3>2
  <2>3. ASSUME NEW p \in Hooks, ReadFails(p) PROVE Goal
    BY <2>3, ReadSucceeds DEF ReadFails
  <2>4. ASSUME NEW p \in Hooks, WriteFile(p) PROVE Goal
    BY <2>4, WriteGrows DEF WriteFile
  <2>5. ASSUME NEW p \in Hooks, Throw(p) \/ Crash(p) PROVE FALSE
    BY <2>5 DEF Throw, Crash
  <2>6. ASSUME NEW p \in Hooks, NEW e \in Event, Handle(p, e) \/ HandleUnrouted(p, e)
        PROVE  Goal
    <3>1. GrowthInv' /\ disk' = disk
      BY <2>6, HandleGrows
    <3> QED
      BY <1>0, <3>1
  <2> HIDE DEF Goal
  <2> QED
    BY <1>2, <2>1, <2>2, <2>3, <2>4, <2>5, <2>6 DEF Next, Step, Goal
<1> QED
  BY <1>1, <1>2

(* Nothing is on record at first.                                          *)
LEMMA InitGrowth == Init => GrowthInv
  BY DEF Init, GrowthInv, EmptySession

(* While handlers run one after the other, a process knows what its update *)
(* is about.                                                               *)
THEOREM GrowthInvariant == Spec => []GrowthInv
<1>1. SessionInv /\ SerialInv /\ GrowthInv /\ [Next]_vars => GrowthInv'
  BY NextGrows DEF GrowthInv
<1> QED
  BY <1>1, InitGrowth, SessionInvariant, SerialInvariant, PTL DEF Spec

(* Without races, what a session has recorded is never lost again, though  *)
(* every update writes back lists of its snapshot (processHookEvent,       *)
(* updateSession).                                                         *)
THEOREM RecordsGrow == Spec => RecordsOnlyGrow
<1>1. SessionInv /\ SerialInv /\ GrowthInv /\ [Next]_vars =>
        [~raced' => \A i \in Ids :
         /\ disk[i].commands \subseteq disk'[i].commands
         /\ disk[i].sensitive \subseteq disk'[i].sensitive
         /\ disk[i].evidence \subseteq disk'[i].evidence
         /\ disk[i].signals \subseteq disk'[i].signals
         /\ disk[i].calls <= disk'[i].calls
         /\ disk[i].corrections <= disk'[i].corrections
         /\ \A f \in Files : disk[i].files[f] <= disk'[i].files[f]]_vars
  BY NextGrows DEF Extends
<1> QED
  BY <1>1, SessionInvariant, SerialInvariant, GrowthInvariant, PTL DEF Spec, RecordsOnlyGrow
=============================================================================
