-------------------------- MODULE VerificationRun ---------------------------
(***************************************************************************)
(* `avorelo prove` (cmdProve): discover, contract, one adapter after the   *)
(* other, gate, receipt file, pruning of old receipt files.  A build or a  *)
(* test run takes minutes, in which the agent goes on editing the project  *)
(* and another command may run; a command may be killed at any step.       *)
(*                                                                         *)
(* A receipt file is named after the millisecond of its receipt: the clock *)
(* value is the name.  MaxClock, MaxEdits and MaxStarts bound the          *)
(* instance.                                                               *)
(***************************************************************************)
EXTENDS ProofContract, Functions

CONSTANTS Provers,        \* processes that run the command, over and over
          Projects,       \* states the project can be in
          Commands,       \* [Provers -> the command lines it may be given]
          MaxReceipts,    \* receipt files kept (100 in the code)
          MaxClock, MaxEdits, MaxStarts

ASSUME ReceiptsAssumption == MaxReceipts \in Nat \ {0}
ASSUME BoundsAssumption == MaxClock \in Nat \ {0} /\ MaxEdits \in Nat /\ MaxStarts \in Nat
ASSUME CommandsAssumption ==
    \A p \in Provers : \A c \in Commands[p] : c.files \in Seq({c.files[i] : i \in DOMAIN c.files})
ASSUME ProjectsAssumption == \A q \in Projects : q.scripts \subseteq Scripts /\ q.schema \in Schemas

VARIABLES project, clock, edits, starts,
          provers,      \* [Provers -> what the process holds]
          receipts,     \* [file names on disk -> contents]
          written       \* every name a file was ever written under

vars == <<project, clock, edits, starts, provers, receipts, written>>

NoCommand == [files |-> <<>>, readable |-> TRUE]
NoContract == [type |-> "none", required |-> {}, optional |-> {}]
NoReceipt == [type |-> "none", safe |-> FALSE, overall |-> "none"]
Torn == [type |-> "torn", safe |-> FALSE, overall |-> "none"]

Idle == [pc |-> "idle", command |-> NoCommand, contract |-> NoContract, todo |-> <<>>,
         results |-> {}, receipt |-> NoReceipt, stamp |-> 0, doomed |-> {}, disturbed |-> FALSE]

Init ==
    /\ project \in Projects
    /\ clock = 1 /\ edits = 0 /\ starts = 0
    /\ provers = [p \in Provers |-> Idle]
    /\ receipts = <<>>
    /\ written = {}

At(p, from) == provers[p].pc = from

(* Discovery and contract, before the first await.                         *)
Start(p) ==
    /\ At(p, "idle") /\ starts < MaxStarts
    /\ \E command \in Commands[p] :
         provers' = [provers EXCEPT ![p] = [Idle EXCEPT
             !.pc = "contracted", !.command = command,
             !.contract = GenerateProofContract(command.files, DiscoverCapabilities(project))]]
    /\ starts' = starts + 1
    /\ UNCHANGED <<project, clock, edits, receipts, written>>

(* runAllProof looks at the project again to find its adapters.            *)
ListAdapters(p) ==
    /\ At(p, "contracted")
    /\ provers' = [provers EXCEPT ![p].pc = "proving",
                      ![p].todo = AutomaticAdapters(DiscoverCapabilities(project))]
    /\ UNCHANGED <<project, clock, edits, starts, receipts, written>>

(* One turn of the loop of runAllProof.                                    *)
TurnOf(p, adapter) ==
    At(p, "proving") /\ provers[p].todo # <<>> /\ Head(provers[p].todo) = adapter

TakeResult(p, result) ==
    /\ provers' = [provers EXCEPT ![p].results = @ \cup {result}, ![p].todo = Tail(@)]
    /\ UNCHANGED <<project, clock, edits, starts, receipts, written>>

(* The scripts are those of the package.json by now, their outcome anyone's *)
(* guess.                                                                  *)
RunBuildTest(p) ==
    /\ TurnOf(p, "build-test")
    /\ \E ok \in SUBSET project.scripts :
         TakeResult(p, BuildTest(DiscoverCapabilities(project), ok))

RunSecuritySecrets(p) ==
    /\ TurnOf(p, "security-secrets")
    /\ \E audit \in BOOLEAN :
         TakeResult(p, SecuritySecrets(project, provers[p].command, audit))

RunProductSurface(p) ==
    /\ TurnOf(p, "product-surface")
    /\ TakeResult(p, ProductSurface(project, provers[p].command))

RunApiContract(p) ==
    /\ TurnOf(p, "api-contract")
    /\ TakeResult(p, ApiContract(project))

CreateVerificationReceipt(contract, gate) ==
    [type |-> contract.type, safe |-> gate.safe, overall |-> gate.overall]

(* Gate and receipt; the receipt's timestamp will be the file's name.      *)
Judge(p) ==
    /\ At(p, "proving") /\ provers[p].todo = <<>>
    /\ provers' = [provers EXCEPT ![p].pc = "judged", ![p].stamp = clock,
           ![p].receipt = CreateVerificationReceipt(provers[p].contract,
               EvaluateEvidence(provers[p].contract, provers[p].results))]
    /\ UNCHANGED <<project, clock, edits, starts, receipts, written>>

Put(name, content) ==
    [n \in DOMAIN receipts \cup {name} |-> IF n = name THEN content ELSE receipts[n]]

(* writeFileSync opens the file empty, then fills it.  From here on only   *)
(* the receipt and its name matter.                                        *)
OpenReceipt(p) ==
    /\ At(p, "judged")
    /\ provers' = [provers EXCEPT ![p] = [Idle EXCEPT
           !.pc = "writing", !.receipt = provers[p].receipt, !.stamp = provers[p].stamp]]
    /\ receipts' = Put(provers[p].stamp, Torn)
    /\ written' = written \cup {provers[p].stamp}
    /\ UNCHANGED <<project, clock, edits, starts>>

(* The file may be gone by now: a pruning command took it.  The open       *)
(* descriptor then fills a file without a name.                            *)
FillReceipt(p) ==
    /\ At(p, "writing")
    /\ provers' = [provers EXCEPT ![p].pc = "written"]
    /\ receipts' = IF provers[p].stamp \in DOMAIN receipts
                   THEN Put(provers[p].stamp, provers[p].receipt)
                   ELSE receipts
    /\ UNCHANGED <<project, clock, edits, starts, written>>

(* Slip: the list is cut off at the wrong end.                             *)
SlipPruneNewest(names) ==
    {n \in names : Cardinality({m \in names : m < n}) >= MaxReceipts}

(* What pruneOldReceipts shifts off the sorted list.                       *)
Oldest(names) == {n \in names : Cardinality({m \in names : m > n}) >= MaxReceipts}

ListReceipts(p) ==
    /\ At(p, "written")
    /\ provers' = [provers EXCEPT ![p].pc = "pruning", ![p].doomed = Oldest(DOMAIN receipts)]
    /\ UNCHANGED <<project, clock, edits, starts, receipts, written>>

(* A file that is gone makes unlinkSync throw and ends the pruning.        *)
Unlink(p) ==
    /\ At(p, "pruning")
    /\ \E name \in provers[p].doomed :
         /\ \A other \in provers[p].doomed : name <= other
         /\ provers' = [provers EXCEPT ![p].doomed =
                IF name \in DOMAIN receipts THEN @ \ {name} ELSE {}]
         /\ receipts' = [n \in DOMAIN receipts \ {name} |-> receipts[n]]
    /\ UNCHANGED <<project, clock, edits, starts, written>>

(* The command prints its verdict and ends.                                *)
Finish(p) ==
    /\ At(p, "pruning") /\ provers[p].doomed = {}
    /\ provers' = [provers EXCEPT ![p] = Idle]
    /\ UNCHANGED <<project, clock, edits, starts, receipts, written>>

Kill(p) ==
    /\ ~At(p, "idle")
    /\ provers' = [provers EXCEPT ![p] = Idle]
    /\ UNCHANGED <<project, clock, edits, starts, receipts, written>>

Edit ==
    /\ edits < MaxEdits
    /\ project' \in Projects \ {project}
    /\ edits' = edits + 1
    /\ provers' = [p \in Provers |->
           IF At(p, "idle") THEN provers[p] ELSE [provers[p] EXCEPT !.disturbed = TRUE]]
    /\ UNCHANGED <<clock, starts, receipts, written>>

Tick ==
    /\ clock < MaxClock
    /\ clock' = clock + 1
    /\ UNCHANGED <<project, edits, starts, provers, receipts, written>>

Step(p) ==
    \/ Start(p) \/ ListAdapters(p)
    \/ RunBuildTest(p) \/ RunSecuritySecrets(p) \/ RunProductSurface(p) \/ RunApiContract(p)
    \/ Judge(p) \/ OpenReceipt(p) \/ FillReceipt(p)
    \/ ListReceipts(p) \/ Unlink(p) \/ Finish(p) \/ Kill(p)

Next == (\E p \in Provers : Step(p)) \/ Edit \/ Tick

Spec == Init /\ [][Next]_vars

-----------------------------------------------------------------------------
Adapters == {"build-test", "security-secrets", "product-surface", "api-contract"}
ReceiptSet == [type : WorkTypeSet \cup {"none"}, safe : BOOLEAN,
               overall : {"none", "safe", "needs_review", "blocked"}]

TypeOK ==
    /\ project \in Projects
    /\ clock \in 1..MaxClock /\ edits \in 0..MaxEdits /\ starts \in 0..MaxStarts
    /\ \A p \in Provers :
         /\ provers[p].pc \in {"idle", "contracted", "proving", "judged", "writing", "written",
                               "pruning"}
         /\ provers[p].command \in Commands[p] \cup {NoCommand}
         /\ provers[p].contract.type \in WorkTypeSet \cup {"none"}
         /\ Range(provers[p].todo) \subseteq Adapters
         /\ \A r, s \in provers[p].results : r.adapter = s.adapter => r = s
         /\ provers[p].receipt \in ReceiptSet
         /\ provers[p].doomed \subseteq written
    /\ receipts \in [DOMAIN receipts -> ReceiptSet \cup {Torn}]
    /\ DOMAIN receipts \subseteq written
    /\ written \subseteq 1..MaxClock

(* The verdicts of commands during which nobody touched the project.       *)
Verdicts == {c \in {provers[p] : p \in Provers} : c.pc = "judged" /\ ~c.disturbed}

(* A verdict that it is safe to close is earned, whatever work type the    *)
(* changed files add up to: the build ran and passed, so did the tests     *)
(* unless it is documentation, the audit was clean for new dependencies,   *)
(* and no file the scan reads holds a secret (evaluateEvidence; the        *)
(* closure rules of the contract).                                         *)
SafeIsEarned ==
    \A c \in Verdicts : c.receipt.safe =>
        /\ \A s \in project.scripts \cap {"build", "test"} :
             \/ s = "test" /\ c.contract.type = "docs_marketing"
             \/ \E r \in c.results : Found(s, TRUE) \in r.evidence
        /\ c.contract.type = "dependency_package" /\ project.manifest =>
             \E r \in c.results : Found("package_audit", TRUE) \in r.evidence
        /\ c.command.readable => FirstNames(c.command.files, ScanLimit) \cap project.secrets = {}

(* Pruning never takes one of the newest receipts, although a command      *)
(* prunes by a list that others have made stale (pruneOldReceipts).        *)
NewestAreKept ==
    \A n \in written \ DOMAIN receipts :
        Cardinality({m \in written : m > n}) >= MaxReceipts

(* "Dirty worktree blocks release readiness", says the contract            *)
(* (buildClosureRules).                                                    *)
DirtyBlocksRelease ==
    \A c \in Verdicts :
        c.contract.type = "release_readiness" /\ project.dirty => ~c.receipt.safe
=============================================================================
