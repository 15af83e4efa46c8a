----------------------- MODULE VerificationRun_proofs ------------------------
(***************************************************************************)
(* Theorems about VerificationRun, for every set of processes, command     *)
(* lines, projects and limits: a safe verdict is earned, and pruning keeps *)
(* the newest receipts.                                                    *)
(***************************************************************************)
EXTENDS VerificationRun, FiniteSetTheorems, WellFoundedInduction, TLAPS

(* What a process holds is a record of these fields.                       *)
Fields == {"pc", "command", "contract", "todo", "results", "receipt", "stamp", "doomed",
           "disturbed"}
Shaped(c) == c = [f \in Fields |-> c[f]]
Shapes ==
    /\ provers = [p \in Provers |-> provers[p]]
    /\ \A p \in Provers : Shaped(provers[p])

(* What an adapter may hand back for a command on the project as it is.    *)
Honest(command, r) ==
    \/ \E ok \in SUBSET project.scripts : r = BuildTest(DiscoverCapabilities(project), ok)
    \/ \E audit \in BOOLEAN : r = SecuritySecrets(project, command, audit)
    \/ r = ProductSurface(project, command)
    \/ r = ApiContract(project)

(* A command whose project nobody touched judges what is there by the      *)
(* contract for what is there.                                             *)
Sound(c) ==
    ~c.disturbed /\ c.pc \in {"contracted", "proving", "judged"} =>
        /\ c.contract = GenerateProofContract(c.command.files, DiscoverCapabilities(project))
        /\ \A r \in c.results : Honest(c.command, r)
        /\ c.pc = "judged" =>
             c.receipt = CreateVerificationReceipt(c.contract,
                                                   EvaluateEvidence(c.contract, c.results))

(* A name that enough greater names were written after or before.          *)
Spare(n) == Cardinality({m \in written : m > n}) >= MaxReceipts

(* Whatever is gone, or stands on a list of what is to go, is spare.       *)
PruneInv ==
    /\ IsFiniteSet(written)
    /\ DOMAIN receipts \subseteq written
    /\ \A n \in written \ DOMAIN receipts : Spare(n)
    /\ \A p \in Provers : \A n \in provers[p].doomed : n \in written /\ Spare(n)

RunInv == Shapes /\ project \in Projects /\ (\A p \in Provers : Sound(provers[p])) /\ PruneInv
-----------------------------------------------------------------------------
(* Operators.                                                              *)

(* A spare name stays spare: names are only added.                         *)
LEMMA SpareStays ==
    ASSUME IsFiniteSet(written'), written \subseteq written', NEW n, Spare(n)
    PROVE  Spare(n)'
<1> DEFINE before == {m \in written : m > n}
           after == {m \in written' : m > n}
<1>1. before \in SUBSET after /\ after \in SUBSET written'
  OBVIOUS
<1>2. IsFiniteSet(after)
  BY <1>1, FS_Subset
<1>3. IsFiniteSet(before) /\ Cardinality(before) <= Cardinality(after)
  BY <1>1, <1>2, FS_Subset
<1>4. Cardinality(before) \in Nat /\ Cardinality(after) \in Nat
  BY <1>2, <1>3, FS_CardinalityType
<1>5. Cardinality(before) >= MaxReceipts
  BY DEF Spare
<1> HIDE DEF before
<1>6. Cardinality(after) >= MaxReceipts
  BY <1>3, <1>4, <1>5, ReceiptsAssumption
<1> QED BY <1>6 DEF Spare

(* What the pruning takes off a list of receipts is spare.                 *)
LEMMA OldestSpare ==
    ASSUME IsFiniteSet(written), NEW names \in SUBSET written, NEW n \in Oldest(names)
    PROVE  n \in written /\ Spare(n)
<1> DEFINE some == {m \in names : m > n}
           all == {m \in written : m > n}
<1>1. n \in names /\ Cardinality(some) >= MaxReceipts
  BY DEF Oldest
<1>2. some \in SUBSET all /\ all \in SUBSET written
  OBVIOUS
<1>3. IsFiniteSet(all)
  BY <1>2, FS_Subset
<1>4. IsFiniteSet(some) /\ Cardinality(some) <= Cardinality(all)
  BY <1>2, <1>3, FS_Subset
<1>5. Cardinality(some) \in Nat /\ Cardinality(all) \in Nat
  BY <1>3, <1>4, FS_CardinalityType
<1> HIDE DEF some
<1>6. Cardinality(all) >= MaxReceipts
  BY <1>1, <1>4, <1>5, ReceiptsAssumption
<1> QED BY <1>1, <1>6 DEF Spare

(* A requirement of the contract that is critical is met when the gate     *)
(* calls the work safe to close.                                           *)
LEMMA SafeMeetsCritical ==
    ASSUME NEW contract, NEW results, EvaluateEvidence(contract, results).safe,
           NEW q \in contract.required, q.critical
    PROVE  Satisfied(q, results)
  BY DEF EvaluateEvidence

(* Each adapter signs its result.                                          *)
LEMMA AdapterNames ==
    ASSUME project \in Projects, NEW command
    PROVE  /\ \A ok : BuildTest(DiscoverCapabilities(project), ok).adapter = "build-test"
           /\ \A audit : SecuritySecrets(project, command, audit).adapter = "security-secrets"
           /\ ProductSurface(project, command).adapter = "product-surface"
           /\ ApiContract(project).adapter = "api-contract"
<1>1. ASSUME NEW a, NEW status, NEW evidence PROVE Result(a, status, evidence).adapter = a
  BY DEF Result
<1>2. project.schema \in Schemas
  BY ProjectsAssumption
<1>3. ApiContract(project).adapter = "api-contract"
  BY <1>1, <1>2 DEF ApiContract, Schemas
<1>4. \A ok : BuildTest(DiscoverCapabilities(project), ok).adapter = "build-test"
  BY <1>1 DEF BuildTest
<1>5. \A audit : SecuritySecrets(project, command, audit).adapter = "security-secrets"
  BY <1>1 DEF SecuritySecrets
<1>6. ProductSurface(project, command).adapter = "product-surface"
  BY <1>1 DEF ProductSurface
<1> QED BY <1>3, <1>4, <1>5, <1>6

(* A script the contract asks for is met by a run of it that passed.       *)
LEMMA ScriptRan ==
    ASSUME project \in Projects, NEW command, NEW results, \A r \in results : Honest(command, r),
           NEW s \in project.scripts \cap {"build", "test"}, NEW id,
           RelevantEvidence(id) = {s}, Satisfied(Need(id, TRUE, "build-test"), results)
    PROVE  \E r \in results : Found(s, TRUE) \in r.evidence
<1>1. PICK r \in results :
        /\ r.adapter = "build-test"
        /\ r.status # "skip"
        /\ {e \in r.evidence : e.type = s} # {} =>
             \A e \in r.evidence : e.type = s => e.passed
  BY DEF Satisfied, Need
<1>2. PICK ok \in SUBSET project.scripts : r = BuildTest(DiscoverCapabilities(project), ok)
  <2>1. Honest(command, r)
    OBVIOUS
  <2> QED BY <1>1, <2>1, AdapterNames DEF Honest
<1>3. Found(s, s \in ok) \in r.evidence
  BY <1>2 DEF BuildTest, Result, DiscoverCapabilities
<1>4. Found(s, s \in ok).type = s /\ (Found(s, s \in ok).passed <=> s \in ok)
  BY DEF Found
<1>5. s \in ok
  BY <1>1, <1>3, <1>4
<1>6. Found(s, s \in ok) = Found(s, TRUE)
  BY <1>5 DEF Found
<1> QED BY <1>3, <1>6

(* An audit or a scan the contract asks for is met by the security         *)
(* adapter's result.                                                       *)
LEMMA SecurityRan ==
    ASSUME project \in Projects, NEW command, NEW results, \A r \in results : Honest(command, r),
           NEW id, Satisfied(Need(id, TRUE, "security-secrets"), results)
    PROVE  \E r \in results, audit \in BOOLEAN :
             /\ r = SecuritySecrets(project, command, audit)
             /\ IF {e \in r.evidence : e.type \in RelevantEvidence(id)} = {}
                THEN r.status = "pass"
                ELSE \A e \in r.evidence : e.type \in RelevantEvidence(id) => e.passed
<1>1. PICK r \in results :
        /\ r.adapter = "security-secrets"
        /\ IF {e \in r.evidence : e.type \in RelevantEvidence(id)} = {}
           THEN r.status = "skip" \/ r.status = "pass"
           ELSE r.status = "skip" \/ \A e \in r.evidence : e.type \in RelevantEvidence(id) => e.passed
        /\ r.status # "skip"
  BY DEF Satisfied, Need
<1>2. Honest(command, r)
  OBVIOUS
<1>3. PICK audit \in BOOLEAN : r = SecuritySecrets(project, command, audit)
  BY <1>1, <1>2, AdapterNames DEF Honest
<1> QED BY <1>1, <1>3

(* A clean audit is what the audit requirement is met by.                  *)
LEMMA AuditRan ==
    ASSUME project \in Projects, NEW command, NEW results, \A r \in results : Honest(command, r),
           project.manifest, Satisfied(Need("dep_audit", TRUE, "security-secrets"), results)
    PROVE  \E r \in results : Found("package_audit", TRUE) \in r.evidence
<1>1. PICK r \in results, audit \in BOOLEAN :
        /\ r = SecuritySecrets(project, command, audit)
        /\ IF {e \in r.evidence : e.type \in RelevantEvidence("dep_audit")} = {}
           THEN r.status = "pass"
           ELSE \A e \in r.evidence : e.type \in RelevantEvidence("dep_audit") => e.passed
  BY SecurityRan
<1>2. Found("package_audit", audit) \in r.evidence
  BY <1>1 DEF SecuritySecrets, When, Result
<1>3. RelevantEvidence("dep_audit") = {"package_audit"}
  BY DEF RelevantEvidence
<1>4. Found("package_audit", audit).type = "package_audit"
      /\ Found("package_audit", audit).passed = audit
  BY DEF Found
<1>5. audit = TRUE
  BY <1>1, <1>2, <1>3, <1>4
<1> QED BY <1>2, <1>5

(* A scan that met a secret fails the artifact guard of every contract.    *)
LEMMA ScanWasClean ==
    ASSUME project \in Projects, NEW command, NEW results, \A r \in results : Honest(command, r),
           command.readable, Satisfied(Need("artifact_guard", TRUE, "security-secrets"), results)
    PROVE  FirstNames(command.files, ScanLimit) \cap project.secrets = {}
<1> SUFFICES ASSUME FirstNames(command.files, ScanLimit) \cap project.secrets # {} PROVE FALSE
  OBVIOUS
<1> DEFINE relevant == RelevantEvidence("artifact_guard")
<1>1. PICK r \in results, audit \in BOOLEAN :
        /\ r = SecuritySecrets(project, command, audit)
        /\ IF {e \in r.evidence : e.type \in relevant} = {} THEN r.status = "pass"
           ELSE \A e \in r.evidence : e.type \in relevant => e.passed
  BY SecurityRan
<1> DEFINE evidence == {Found("secret_finding", FALSE)}
                         \cup When(project.manifest, {Found("package_audit", audit)})
<1>2. r = Result("security-secrets", Status(\A e \in evidence : e.passed), evidence)
  BY <1>1 DEF SecuritySecrets
<1>3. r.evidence = evidence /\ r.status = Status(\A e \in evidence : e.passed)
  BY <1>2 DEF Result
<1>4. relevant = {"no_secret_findings", "product_surface_clean"}
  BY DEF RelevantEvidence
<1>5. \A e \in evidence : e.type \notin relevant
  BY <1>4 DEF When, Found
<1>6. r.status = "pass"
  BY <1>1, <1>3, <1>5
<1>7. ~(\A e \in evidence : e.passed)
  <2>1. Found("secret_finding", FALSE) \in evidence /\ Found("secret_finding", FALSE).passed = FALSE
    BY DEF Found
  <2> QED BY <2>1
<1>8. Status(\A e \in evidence : e.passed) = "fail"
  BY <1>7 DEF Status
<1> QED BY <1>3, <1>6, <1>8

(* So a verdict that is sound and safe is earned.                          *)
LEMMA SoundIsEarned ==
    ASSUME project \in Projects, NEW c, Sound(c), c.pc = "judged", ~c.disturbed, c.receipt.safe
    PROVE  /\ \A s \in project.scripts \cap {"build", "test"} :
                \/ s = "test" /\ c.contract.type = "docs_marketing"
                \/ \E r \in c.results : Found(s, TRUE) \in r.evidence
           /\ c.contract.type = "dependency_package" /\ project.manifest =>
                \E r \in c.results : Found("package_audit", TRUE) \in r.evidence
           /\ c.command.readable =>
                FirstNames(c.command.files, ScanLimit) \cap project.secrets = {}
<1> DEFINE caps == DiscoverCapabilities(project)
           type == c.contract.type
<1>1. /\ c.contract = GenerateProofContract(c.command.files, caps)
      /\ \A r \in c.results : Honest(c.command, r)
      /\ EvaluateEvidence(c.contract, c.results).safe
  BY DEF Sound, CreateVerificationReceipt
<1>2. c.contract.required = BuildRequiredProof(type, caps)
  BY <1>1 DEF GenerateProofContract
<1>3. \A id, adapter : Need(id, TRUE, adapter) \in BuildRequiredProof(type, caps) =>
                          Satisfied(Need(id, TRUE, adapter), c.results)
  <2>1. \A id, adapter : Need(id, TRUE, adapter).critical
    BY DEF Need
  <2> QED BY <1>1, <1>2, <2>1, SafeMeetsCritical
<1>4. caps.scripts = project.scripts
  BY DEF DiscoverCapabilities
<1>5. ASSUME "build" \in project.scripts
      PROVE  \E r \in c.results : Found("build", TRUE) \in r.evidence
  <2>1. Need("build_pass", TRUE, "build-test") \in BuildRequiredProof(type, caps)
    BY <1>4, <1>5 DEF BuildRequiredProof, When
  <2>2. RelevantEvidence("build_pass") = {"build"}
    BY DEF RelevantEvidence
  <2> QED BY <1>1, <1>3, <1>5, <2>1, <2>2, ScriptRan
<1>6. ASSUME "test" \in project.scripts, type # "docs_marketing"
      PROVE  \E r \in c.results : Found("test", TRUE) \in r.evidence
  <2>1. Need("tests_pass", type # "docs_marketing", "build-test") \in BuildRequiredProof(type, caps)
    BY <1>4, <1>6 DEF BuildRequiredProof, When
  <2>2. (type # "docs_marketing") = TRUE
    BY <1>6
  <2>3. Need("tests_pass", TRUE, "build-test") \in BuildRequiredProof(type, caps)
    BY <2>1, <2>2
  <2>4. RelevantEvidence("tests_pass") = {"test"}
    BY DEF RelevantEvidence
  <2> QED BY <1>1, <1>3, <1>6, <2>3, <2>4, ScriptRan
<1>7. ASSUME type = "dependency_package", project.manifest
      PROVE  \E r \in c.results : Found("package_audit", TRUE) \in r.evidence
  <2>1. Need("dep_audit", TRUE, "security-secrets") \in BuildRequiredProof(type, caps)
    BY <1>7 DEF BuildRequiredProof, RequiredForType
  <2> QED BY <1>1, <1>3, <1>7, <2>1, AuditRan
<1>8. ASSUME c.command.readable
      PROVE  FirstNames(c.command.files, ScanLimit) \cap project.secrets = {}
  <2>1. Need("artifact_guard", TRUE, "security-secrets") \in BuildRequiredProof(type, caps)
    BY DEF BuildRequiredProof
  <2> QED BY <1>1, <1>3, <1>8, <2>1, ScanWasClean
<1> QED BY <1>5, <1>6, <1>7, <1>8
-----------------------------------------------------------------------------
(* Steps.                                                                  *)

(* A process moves nothing of another one.                                 *)
LEMMA OthersStay ==
    ASSUME Shapes, NEW p \in Provers, Step(p)
    PROVE  /\ \A q \in Provers \ {p} : provers'[q] = provers[q]
           /\ project' = project
  BY DEF Shapes, Step, Start, ListAdapters, RunBuildTest, RunSecuritySecrets, RunProductSurface,
         RunApiContract, TakeResult, Judge, OpenReceipt, FillReceipt, ListReceipts, Unlink,
         Finish, Kill

(* What a step makes of a process keeps the fields of the record.          *)
LEMMA ShapesStay ==
    ASSUME Shapes, NEW p \in Provers, Step(p)
    PROVE  Shapes'
<1>1. CASE Start(p)
  <2>1. PICK command \in Commands[p] : provers' = [provers EXCEPT ![p] = [Idle EXCEPT
             !.pc = "contracted", !.command = command,
             !.contract = GenerateProofContract(command.files, DiscoverCapabilities(project))]]
    BY <1>1 DEF Start
  <2> DEFINE contract == GenerateProofContract(command.files, DiscoverCapabilities(project))
             c == [Idle EXCEPT !.pc = "contracted", !.command = command, !.contract = contract]
  <2>2. Shaped(c)
    <3> HIDE DEF contract
    <3> QED BY DEF Idle, Shaped, Fields
  <2>3. provers' = [provers EXCEPT ![p] = c]
    BY <2>1
  <2> HIDE DEF c
  <2> QED BY <2>2, <2>3 DEF Shapes
<1>2. CASE ListAdapters(p) \/ Judge(p)
  BY <1>2 DEF ListAdapters, Judge, Shapes, Shaped, Fields
<1>3. ASSUME NEW result, TakeResult(p, result) PROVE Shapes'
  BY <1>3 DEF TakeResult, Shapes, Shaped, Fields
<1>4. CASE RunBuildTest(p) \/ RunSecuritySecrets(p) \/ RunProductSurface(p) \/ RunApiContract(p)
  BY <1>3, <1>4 DEF RunBuildTest, RunSecuritySecrets, RunProductSurface, RunApiContract
<1>5. CASE OpenReceipt(p) \/ FillReceipt(p)
  BY <1>5 DEF OpenReceipt, FillReceipt, Shapes, Shaped, Fields, Idle
<1>6. CASE ListReceipts(p)
  BY <1>6 DEF ListReceipts, Shapes, Shaped, Fields
<1>8. CASE Unlink(p)
  <2>1. PICK doomed : provers' = [provers EXCEPT ![p].doomed = doomed]
    BY <1>8 DEF Unlink
  <2> QED BY <2>1 DEF Shapes, Shaped, Fields
<1>7. CASE Finish(p) \/ Kill(p)
  BY <1>7 DEF Finish, Kill, Shapes, Shaped, Fields, Idle
<1> QED BY <1>1, <1>2, <1>4, <1>5, <1>6, <1>7, <1>8 DEF Step

(* What a step of a process makes of its judgement.                        *)
LEMMA SoundStays ==
    ASSUME Shapes, NEW p \in Provers, Sound(provers[p]), Step(p)
    PROVE  Sound(provers[p])'
<1>0. project' = project
  BY OthersStay
<1>1. CASE Start(p)
  <2>1. PICK command \in Commands[p] : provers' = [provers EXCEPT ![p] = [Idle EXCEPT
             !.pc = "contracted", !.command = command,
             !.contract = GenerateProofContract(command.files, DiscoverCapabilities(project))]]
    BY <1>1 DEF Start
  <2> DEFINE contract == GenerateProofContract(command.files, DiscoverCapabilities(project))
  <2>2. /\ provers'[p].pc = "contracted" /\ provers'[p].command = command
        /\ provers'[p].contract = contract /\ provers'[p].results = {}
    <3> HIDE DEF contract
    <3>1. provers' = [provers EXCEPT ![p] = [Idle EXCEPT
             !.pc = "contracted", !.command = command, !.contract = contract]]
      BY <2>1 DEF contract
    <3> QED BY <3>1 DEF Idle, Shapes
  <2> QED BY <1>0, <2>2 DEF Sound
<1>2. CASE ListAdapters(p)
  <2>1. /\ provers[p].pc = "contracted" /\ provers'[p].pc = "proving"
        /\ provers'[p].command = provers[p].command
        /\ provers'[p].contract = provers[p].contract
        /\ provers'[p].results = provers[p].results
        /\ provers'[p].disturbed = provers[p].disturbed
    BY <1>2 DEF ListAdapters, At, Shapes, Shaped, Fields
  <2> QED BY <1>0, <2>1 DEF Sound, Honest
<1>3. ASSUME NEW result, TakeResult(p, result), provers[p].pc = "proving",
             Honest(provers[p].command, result)
      PROVE  Sound(provers[p])'
  <2>1. /\ provers'[p].pc = "proving"
        /\ provers'[p].command = provers[p].command
        /\ provers'[p].contract = provers[p].contract
        /\ provers'[p].results = provers[p].results \cup {result}
        /\ provers'[p].disturbed = provers[p].disturbed
    BY <1>3 DEF TakeResult, Shapes, Shaped, Fields
  <2> QED BY <1>0, <1>3, <2>1 DEF Sound, Honest
<1>4. CASE RunBuildTest(p) \/ RunSecuritySecrets(p) \/ RunProductSurface(p) \/ RunApiContract(p)
  <2>1. PICK result : TakeResult(p, result) /\ Honest(provers[p].command, result)
    BY <1>4 DEF RunBuildTest, RunSecuritySecrets, RunProductSurface, RunApiContract, Honest
  <2>2. provers[p].pc = "proving"
    BY <1>4 DEF RunBuildTest, RunSecuritySecrets, RunProductSurface, RunApiContract, TurnOf, At
  <2> QED BY <1>3, <2>1, <2>2
<1>5. CASE Judge(p)
  <2>1. /\ provers[p].pc = "proving" /\ provers'[p].pc = "judged"
        /\ provers'[p].command = provers[p].command
        /\ provers'[p].contract = provers[p].contract
        /\ provers'[p].results = provers[p].results
        /\ provers'[p].disturbed = provers[p].disturbed
        /\ provers'[p].receipt = CreateVerificationReceipt(provers[p].contract,
               EvaluateEvidence(provers[p].contract, provers[p].results))
    BY <1>5 DEF Judge, At, Shapes, Shaped, Fields
  <2> QED BY <1>0, <2>1 DEF Sound, Honest
<1>6. CASE OpenReceipt(p) \/ FillReceipt(p) \/ ListReceipts(p) \/ Unlink(p) \/ Finish(p) \/ Kill(p)
  <2>1. CASE OpenReceipt(p)
    <3>1. PICK receipt, stamp : provers' = [provers EXCEPT ![p] =
             [Idle EXCEPT !.pc = "writing", !.receipt = receipt, !.stamp = stamp]]
      BY <2>1 DEF OpenReceipt
    <3>2. provers'[p].pc = "writing"
      BY <3>1 DEF Shapes, Idle
    <3> QED BY <3>2 DEF Sound
  <2>4. CASE Finish(p) \/ Kill(p)
    <3>1. provers'[p].pc = "idle"
      BY <2>4 DEF Finish, Kill, Shapes, Idle
    <3> QED BY <3>1 DEF Sound
  <2>2. CASE FillReceipt(p) \/ ListReceipts(p)
    BY <2>2 DEF FillReceipt, ListReceipts, Sound, Shapes, Shaped, Fields
  <2>3. CASE Unlink(p)
    <3>1. PICK doomed : provers' = [provers EXCEPT ![p].doomed = doomed]
      BY <2>3 DEF Unlink
    <3>2. provers'[p].pc = "pruning"
      BY <2>3, <3>1 DEF Unlink, At, Shapes, Shaped, Fields
    <3> QED BY <3>2 DEF Sound
  <2> QED BY <1>6, <2>1, <2>2, <2>3, <2>4
<1> QED BY <1>1, <1>2, <1>4, <1>5, <1>6 DEF Step

(* What a step of a process makes of the receipts.                         *)
LEMMA PruneStays ==
    ASSUME Shapes, PruneInv, NEW p \in Provers, Step(p)
    PROVE  PruneInv'
<1>1. ASSUME provers'[p].doomed \subseteq provers[p].doomed, UNCHANGED <<receipts, written>>
      PROVE  PruneInv'
  BY <1>1, OthersStay DEF PruneInv, Spare
<1>2. CASE Start(p) \/ Finish(p) \/ Kill(p)
  <2>1. CASE Start(p)
    <3>1. PICK command, contract : provers' = [provers EXCEPT ![p] = [Idle EXCEPT
             !.pc = "contracted", !.command = command, !.contract = contract]]
      BY <2>1 DEF Start
    <3>2. provers'[p].doomed = {}
      BY <3>1 DEF Shapes, Idle
    <3> QED BY <1>1, <2>1, <3>2 DEF Start
  <2>2. CASE Finish(p) \/ Kill(p)
    <3>1. provers'[p].doomed = {} /\ UNCHANGED <<receipts, written>>
      BY <2>2 DEF Finish, Kill, Shapes, Idle
    <3> QED BY <1>1, <3>1
  <2> QED BY <1>2, <2>1, <2>2
<1>3. CASE \/ ListAdapters(p) \/ RunBuildTest(p) \/ RunSecuritySecrets(p) \/ RunProductSurface(p)
           \/ RunApiContract(p) \/ Judge(p)
  <2>1. UNCHANGED <<receipts, written>>
    BY <1>3 DEF ListAdapters, RunBuildTest, RunSecuritySecrets, RunProductSurface,
       RunApiContract, TakeResult, Judge
  <2>2. CASE ListAdapters(p)
    BY <1>1, <2>1, <2>2 DEF ListAdapters, Shapes, Shaped, Fields
  <2>3. ASSUME NEW result, TakeResult(p, result) PROVE provers'[p].doomed = provers[p].doomed
    BY <2>3 DEF TakeResult, Shapes, Shaped, Fields
  <2>4. CASE \/ RunBuildTest(p) \/ RunSecuritySecrets(p) \/ RunProductSurface(p)
             \/ RunApiContract(p)
    BY <1>1, <2>1, <2>3, <2>4
       DEF RunBuildTest, RunSecuritySecrets, RunProductSurface, RunApiContract
  <2>5. CASE Judge(p)
    <3>1. PICK stamp, receipt : provers' = [provers EXCEPT ![p].pc = "judged",
             ![p].stamp = stamp, ![p].receipt = receipt]
      BY <2>5 DEF Judge
    <3>2. provers'[p].doomed = provers[p].doomed
      BY <3>1 DEF Shapes, Shaped, Fields
    <3> QED BY <1>1, <2>1, <3>2
  <2> QED BY <1>3, <2>2, <2>4, <2>5
<1>4. CASE OpenReceipt(p)
  <2> DEFINE name == provers[p].stamp
  <2>1. /\ provers'[p].doomed = {} /\ written' = written \cup {name}
        /\ DOMAIN receipts' = DOMAIN receipts \cup {name}
    BY <1>4 DEF OpenReceipt, Put, Shapes, Idle
  <2> HIDE DEF name
  <2>2. IsFiniteSet(written') /\ written \subseteq written'
    BY <2>1, FS_AddElement DEF PruneInv
  <2>3. \A n : Spare(n) => Spare(n)'
    BY <2>2, SpareStays
  <2>4. \A n \in written' \ DOMAIN receipts' : Spare(n)'
    BY <2>1, <2>3 DEF PruneInv
  <2>5. ASSUME NEW q \in Provers, NEW n \in provers'[q].doomed PROVE n \in written' /\ Spare(n)'
    BY <2>1, <2>2, <2>3, OthersStay DEF PruneInv
  <2> QED BY <2>1, <2>2, <2>4, <2>5 DEF PruneInv
<1>5. CASE FillReceipt(p)
  <2>1. /\ provers'[p].doomed = provers[p].doomed /\ written' = written
        /\ DOMAIN receipts' = DOMAIN receipts
    BY <1>5 DEF FillReceipt, Put, Shapes, Shaped, Fields
  <2> QED BY <2>1, OthersStay DEF PruneInv, Spare
<1>6. CASE ListReceipts(p)
  <2>1. provers'[p].doomed = Oldest(DOMAIN receipts) /\ UNCHANGED <<receipts, written>>
    BY <1>6 DEF ListReceipts, Shapes, Shaped, Fields
  <2>2. \A n \in Oldest(DOMAIN receipts) : n \in written /\ Spare(n)
    BY OldestSpare DEF PruneInv
  <2>3. ASSUME NEW q \in Provers, NEW n \in provers'[q].doomed PROVE n \in written /\ Spare(n)
    BY <2>1, <2>2, OthersStay DEF PruneInv
  <2> QED BY <2>1, <2>3 DEF PruneInv, Spare
<1>7. CASE Unlink(p)
  <2>1. PICK name \in provers[p].doomed :
          /\ provers' = [provers EXCEPT ![p].doomed =
                IF name \in DOMAIN receipts THEN @ \ {name} ELSE {}]
          /\ receipts' = [n \in DOMAIN receipts \ {name} |-> receipts[n]]
    BY <1>7 DEF Unlink
  <2>2. provers'[p].doomed \subseteq provers[p].doomed /\ written' = written
    BY <1>7, <2>1 DEF Unlink, Shapes, Shaped, Fields
  <2>3. DOMAIN receipts' = DOMAIN receipts \ {name} /\ name \in written /\ Spare(name)
    BY <2>1 DEF PruneInv
  <2> QED BY <2>2, <2>3, OthersStay DEF PruneInv, Spare
<1> QED BY <1>2, <1>3, <1>4, <1>5, <1>6, <1>7 DEF Step

(* An edit disturbs every command under way.                               *)
LEMMA EditKeeps ==
    ASSUME RunInv, Edit
    PROVE  RunInv'
<1>1. /\ project' \in Projects /\ UNCHANGED <<receipts, written>>
      /\ provers' = [p \in Provers |->
           IF At(p, "idle") THEN provers[p] ELSE [provers[p] EXCEPT !.disturbed = TRUE]]
  BY DEF Edit
<1>2. ASSUME NEW p \in Provers
      PROVE  /\ Shaped(provers'[p])
             /\ provers'[p].pc = "idle" \/ provers'[p].disturbed
             /\ provers'[p].doomed = provers[p].doomed
  BY <1>1 DEF RunInv, Shapes, Shaped, Fields, At
<1>3. Shapes'
  BY <1>1, <1>2 DEF Shapes
<1>4. \A p \in Provers : Sound(provers[p])'
  BY <1>2 DEF Sound
<1>5. PruneInv'
  BY <1>1, <1>2 DEF RunInv, PruneInv, Spare
<1> QED BY <1>1, <1>3, <1>4, <1>5 DEF RunInv
-----------------------------------------------------------------------------
(* The invariant and what it implies.                                      *)

(* It holds of a project nothing was proved in.                            *)
LEMMA InitInv == Init => RunInv
<1> SUFFICES ASSUME Init PROVE RunInv
  OBVIOUS
<1>1. Shapes /\ project \in Projects
  BY DEF Init, Shapes, Shaped, Fields, Idle
<1>2. \A p \in Provers : provers[p].pc = "idle" /\ provers[p].doomed = {}
  BY DEF Init, Idle
<1>3. \A p \in Provers : Sound(provers[p])
  BY <1>2 DEF Sound
<1>4. PruneInv
  BY <1>2, FS_EmptySet DEF Init, PruneInv
<1> QED BY <1>1, <1>3, <1>4 DEF RunInv

(* Every step keeps it.                                                    *)
LEMMA NextInv == RunInv /\ [Next]_vars => RunInv'
<1> SUFFICES ASSUME RunInv, [Next]_vars PROVE RunInv'
  OBVIOUS
<1>1. ASSUME NEW p \in Provers, Step(p) PROVE RunInv'
  <2>1. Shapes' /\ PruneInv' /\ project' \in Projects
    BY <1>1, ShapesStay, PruneStays, OthersStay DEF RunInv
  <2>2. Sound(provers[p])'
    BY <1>1, SoundStays DEF RunInv
  <2>3. ASSUME NEW q \in Provers \ {p} PROVE Sound(provers[q])'
    <3>1. provers'[q] = provers[q] /\ project' = project
      BY <1>1, OthersStay DEF RunInv
    <3> QED BY <3>1 DEF RunInv, Sound, Honest
  <2> QED BY <2>1, <2>2, <2>3 DEF RunInv
<1>2. CASE Edit
  BY <1>2, EditKeeps
<1>3. CASE Tick \/ UNCHANGED vars
  <2>1. UNCHANGED <<project, provers, receipts, written>>
    BY <1>3 DEF Tick, vars
  <2> QED BY <2>1 DEF RunInv, Shapes, Shaped, Sound, Honest, PruneInv, Spare
<1> QED BY <1>1, <1>2, <1>3 DEF Next

(* So it holds throughout.                                                 *)
LEMMA Invariance == Spec => []RunInv
  BY InitInv, NextInv, PTL DEF Spec

(* A verdict that it is safe to close is earned: the contract asks for the *)
(* build, the tests, the audit and a clean scan as critical, and the gate  *)
(* accepts for each only what the adapter that does it has found.          *)
THEOREM VerdictIsEarned == Spec => []SafeIsEarned
<1>1. RunInv => SafeIsEarned
  <2> SUFFICES ASSUME RunInv PROVE SafeIsEarned
    OBVIOUS
  <2>1. \A c \in Verdicts : Sound(c) /\ c.pc = "judged" /\ ~c.disturbed
    BY DEF RunInv, Verdicts
  <2> QED BY <2>1, SoundIsEarned DEF RunInv, SafeIsEarned
<1> QED BY <1>1, Invariance, PTL

(* Pruning never takes one of the newest receipts, however stale the list  *)
(* a command prunes by: names are only added, so that what was old enough  *)
(* when the list was made still is.                                        *)
THEOREM NewestReceiptsKept == Spec => []NewestAreKept
<1>1. RunInv => NewestAreKept
  BY DEF RunInv, PruneInv, Spare, NewestAreKept
<1> QED BY <1>1, Invariance, PTL
-----------------------------------------------------------------------------
(* Type correctness.                                                       *)

Stages == {"idle", "contracted", "proving", "judged", "writing", "written", "pruning"}

(* Each adapter of the list comes once, and none has a result yet.         *)
OnceEach(c) ==
    /\ c.todo \in Seq(Adapters)
    /\ \A i, j \in 1..Len(c.todo) : c.todo[i] = c.todo[j] => i = j
    /\ \A r \in c.results : \A i \in 1..Len(c.todo) : r.adapter # c.todo[i]
    /\ \A r, s \in c.results : r.adapter = s.adapter => r = s
    /\ c.pc = "contracted" => c.results = {}

(* What a process may hold.                                                *)
Typed(p, c) ==
    /\ c.pc \in Stages
    /\ c.command \in Commands[p] \cup {NoCommand}
    /\ c.contract.type \in WorkTypeSet \cup {"none"}
    /\ OnceEach(c)
    /\ c.receipt \in ReceiptSet
    /\ c.pc = "judged" => c.stamp \in 1..MaxClock
    /\ c.pc = "writing" => c.stamp \in written

FilesTyped ==
    /\ receipts \in [DOMAIN receipts -> ReceiptSet \cup {Torn}]
    /\ written \subseteq 1..MaxClock

CountsTyped == clock \in 1..MaxClock /\ edits \in 0..MaxEdits /\ starts \in 0..MaxStarts

TypeInv == RunInv /\ FilesTyped /\ CountsTyped /\ \A p \in Provers : Typed(p, provers[p])

(* A finite set of numbers has a greatest one and a smallest one.          *)
LEMMA FiniteHasEnds ==
    ASSUME NEW T \in SUBSET Int, IsFiniteSet(T), T # {}
    PROVE  (\E i \in T : \A j \in T : i >= j) /\ (\E i \in T : \A j \in T : i <= j)
<1>1. ASSUME NEW R, \A i \in T : <<i, i>> \notin R,
             \A i, j, k \in T : <<i, j>> \in R /\ <<j, k>> \in R => <<i, k>> \in R
      PROVE  \E i \in T : \A j \in T : <<i, j>> \notin R
  <2> DEFINE Beyond(i) == {j \in T : <<i, j>> \in R}
             All == {Beyond(i) : i \in T}
  <2>1. All \subseteq FiniteSubsetsOf(T) /\ All # {}
    <3>1. \A i \in T : Beyond(i) \in FiniteSubsetsOf(T)
      BY FS_Subset DEF FiniteSubsetsOf
    <3> QED BY <3>1
  <2>2. IsWellFoundedOn(StrictSubsetOrdering(T), FiniteSubsetsOf(T))
    BY FS_StrictSubsetOrderingWellFounded
  <2>3. PICK A \in All : \A B \in All : <<B, A>> \notin StrictSubsetOrdering(T)
    <3> HIDE DEF All
    <3> QED BY <2>1, <2>2, WFMin
  <2>4. PICK i \in T : A = Beyond(i)
    BY <2>3
  <2>5. ASSUME NEW j \in T, <<i, j>> \in R PROVE FALSE
    <3>1. Beyond(j) \subseteq Beyond(i) /\ j \in Beyond(i) /\ j \notin Beyond(j)
      BY <1>1, <2>5
    <3>2. <<Beyond(j), Beyond(i)>> \in StrictSubsetOrdering(T)
      BY <3>1 DEF StrictSubsetOrdering
    <3> QED BY <2>3, <2>4, <3>2
  <2> QED BY <2>5
<1> DEFINE Less == {e \in T \X T : e[1] < e[2]}
           More == {e \in T \X T : e[1] > e[2]}
<1>2. \A i, j \in T : (<<i, j>> \in Less <=> i < j) /\ (<<i, j>> \in More <=> i > j)
  OBVIOUS
<1> HIDE DEF Less, More
<1>3. \E i \in T : \A j \in T : <<i, j>> \notin Less
  BY <1>1, <1>2
<1>4. \E i \in T : \A j \in T : <<i, j>> \notin More
  BY <1>1, <1>2
<1>5. \A i, j \in T : (~(i < j) <=> i >= j) /\ (~(i > j) <=> i <= j)
  OBVIOUS
<1> QED BY <1>2, <1>3, <1>4, <1>5

(* A score is a number.                                                    *)
LEMMA ScoreIsNumber ==
    ASSUME NEW files, \E n \in Nat : DOMAIN files = 1..n, Len(files) \in Nat, NEW type
    PROVE  Score(files, type) \in Nat
<1> DEFINE S == {i \in DOMAIN files : type \in files[i].kinds}
<1>1. PICK n \in Nat : DOMAIN files = 1..n
  OBVIOUS
<1>2. IsFiniteSet(DOMAIN files) /\ S \subseteq DOMAIN files
  BY <1>1, FS_Interval
<1>3. Cardinality(S) \in Nat
  BY <1>2, FS_Subset, FS_CardinalityType
<1>4. PathScore(files, type) \in Nat
  <2>1. PathScore(files, type) = (IF type = "security_sensitive" THEN 3 ELSE 2) * Cardinality(S)
    BY DEF PathScore
  <2> HIDE DEF S
  <2> QED BY <1>3, <2>1
<1> QED BY <1>4 DEF Score

(* The work type is one of the table: one of them has the best score.      *)
LEMMA WorkTypeTyped ==
    ASSUME NEW files, \E n \in Nat : DOMAIN files = 1..n, Len(files) \in Nat
    PROVE  InferWorkType(files) \in WorkTypeSet
<1> DEFINE scores == {Score(files, WorkTypes[i]) : i \in DOMAIN WorkTypes}
           best == Max(scores)
           leaders == {i \in DOMAIN WorkTypes : Score(files, WorkTypes[i]) = best}
<1>1. DOMAIN WorkTypes = 1..10
  BY DEF WorkTypes
<1>2. scores \in SUBSET Int /\ scores # {}
  BY <1>1, ScoreIsNumber
<1>3. IsFiniteSet(scores)
  <2>1. IsFiniteSet(1..10)
    <3>1. 1 \in Int /\ 10 \in Int
      OBVIOUS
    <3> QED BY <3>1, FS_Interval
  <2>2. [i \in 1..10 |-> Score(files, WorkTypes[i])] \in Surjection(1..10, scores)
    BY <1>1 DEF Surjection
  <2> HIDE DEF scores
  <2> QED BY <2>1, <2>2, FS_Surjection
<1>4. best \in scores
  <2>1. \E i \in scores : \A j \in scores : i >= j
    BY <1>2, <1>3, FiniteHasEnds
  <2> HIDE DEF scores
  <2> QED BY <2>1 DEF Max
<1>5. leaders # {} /\ leaders \in SUBSET (1..10)
  BY <1>1, <1>4
<1>6. Min(leaders) \in leaders
  <2>1. IsFiniteSet(leaders) /\ leaders \in SUBSET Int
    <3>1. 1 \in Int /\ 10 \in Int /\ 1..10 \subseteq Int
      OBVIOUS
    <3>2. IsFiniteSet(1..10)
      BY <3>1, FS_Interval
    <3> HIDE DEF leaders
    <3> QED BY <1>5, <3>1, <3>2, FS_Subset
  <2>2. \E i \in leaders : \A j \in leaders : i <= j
    BY <1>5, <2>1, FiniteHasEnds
  <2> HIDE DEF leaders
  <2> QED BY <2>2 DEF Min
<1>7. WorkTypes[Min(leaders)] \in WorkTypeSet
  <2>1. Min(leaders) \in DOMAIN WorkTypes
    BY <1>1, <1>5, <1>6
  <2> HIDE DEF leaders
  <2> QED BY <2>1 DEF WorkTypeSet
<1> QED BY <1>7 DEF InferWorkType, WorkTypeSet

(* The adapters of a project come once each.                               *)
LEMMA AdaptersListed ==
    ASSUME NEW caps
    PROVE  /\ AutomaticAdapters(caps) \in Seq(Adapters)
           /\ \A i, j \in 1..Len(AutomaticAdapters(caps)) :
                AutomaticAdapters(caps)[i] = AutomaticAdapters(caps)[j] => i = j
<1> DEFINE mid == <<"security-secrets", "product-surface">>
           Once(list) == /\ list \in Seq(Adapters)
                         /\ \A i, j \in 1..Len(list) : list[i] = list[j] => i = j
<1>1. Once(<<"build-test">> \o mid \o <<"api-contract">>)
  <2> DEFINE list == <<"build-test">> \o mid \o <<"api-contract">>
  <2>1. /\ Len(list) = 4 /\ list[1] = "build-test" /\ list[2] = "security-secrets"
        /\ list[3] = "product-surface" /\ list[4] = "api-contract"
    OBVIOUS
  <2>2. list \in Seq(Adapters)
    BY DEF Adapters
  <2>3. \A i, j \in 1..Len(list) : list[i] = list[j] => i = j
    <3> HIDE DEF list
    <3> QED BY <2>1
  <2> QED BY <2>2, <2>3
<1>2. Once(<<"build-test">> \o mid \o <<>>)
  <2> DEFINE list == <<"build-test">> \o mid \o <<>>
  <2>1. /\ Len(list) = 3 /\ list[1] = "build-test" /\ list[2] = "security-secrets"
        /\ list[3] = "product-surface"
    OBVIOUS
  <2>2. list \in Seq(Adapters)
    BY DEF Adapters
  <2>3. \A i, j \in 1..Len(list) : list[i] = list[j] => i = j
    <3> HIDE DEF list
    <3> QED BY <2>1
  <2> QED BY <2>2, <2>3
<1>3. Once(<<>> \o mid \o <<"api-contract">>)
  <2> DEFINE list == <<>> \o mid \o <<"api-contract">>
  <2>1. /\ Len(list) = 3 /\ list[1] = "security-secrets" /\ list[2] = "product-surface"
        /\ list[3] = "api-contract"
    OBVIOUS
  <2>2. list \in Seq(Adapters)
    BY DEF Adapters
  <2>3. \A i, j \in 1..Len(list) : list[i] = list[j] => i = j
    <3> HIDE DEF list
    <3> QED BY <2>1
  <2> QED BY <2>2, <2>3
<1>4. Once(<<>> \o mid \o <<>>)
  <2> DEFINE list == <<>> \o mid \o <<>>
  <2>1. Len(list) = 2 /\ list[1] = "security-secrets" /\ list[2] = "product-surface"
    OBVIOUS
  <2>2. list \in Seq(Adapters)
    BY DEF Adapters
  <2>3. \A i, j \in 1..Len(list) : list[i] = list[j] => i = j
    <3> HIDE DEF list
    <3> QED BY <2>1
  <2> QED BY <2>2, <2>3
<1>5. Once(AutomaticAdapters(caps))
  <2> HIDE DEF Once
  <2> QED BY <1>1, <1>2, <1>3, <1>4 DEF AutomaticAdapters
<1> QED BY <1>5

(* What is left of a list in which each comes once.                        *)
LEMMA TailOnce ==
    ASSUME NEW todo \in Seq(Adapters), todo # <<>>,
           \A i, j \in 1..Len(todo) : todo[i] = todo[j] => i = j
    PROVE  /\ Tail(todo) \in Seq(Adapters) /\ Head(todo) = todo[1] /\ 1 \in 1..Len(todo)
           /\ \A i \in 1..Len(Tail(todo)) : i + 1 \in 1..Len(todo) /\ Tail(todo)[i] = todo[i + 1]
           /\ \A i, j \in 1..Len(Tail(todo)) : Tail(todo)[i] = Tail(todo)[j] => i = j
           /\ \A i \in 1..Len(Tail(todo)) : Tail(todo)[i] # Head(todo)
<1>1. /\ Tail(todo) \in Seq(Adapters) /\ Head(todo) = todo[1] /\ Len(todo) \in Nat /\ Len(todo) >= 1
      /\ Len(Tail(todo)) = Len(todo) - 1
      /\ \A i \in 1..Len(Tail(todo)) : Tail(todo)[i] = todo[i + 1]
  OBVIOUS
<1>2. \A i \in 1..Len(Tail(todo)) : i \in Int /\ i + 1 \in 1..Len(todo) /\ i + 1 # 1
  BY <1>1
<1>3. \A i, j \in 1..Len(Tail(todo)) : i + 1 = j + 1 => i = j
  OBVIOUS
<1> QED BY <1>1, <1>2, <1>3

(* The work type of a command line is one of the table.                    *)
LEMMA CommandTyped ==
    ASSUME NEW p \in Provers, NEW command \in Commands[p]
    PROVE  InferWorkType(command.files) \in WorkTypeSet
<1> DEFINE files == command.files
           S == {files[i] : i \in DOMAIN files}
<1>1. files \in Seq(S)
  BY CommandsAssumption
<1> HIDE DEF files, S
<1>2. Len(files) \in Nat /\ DOMAIN files = 1..Len(files)
  BY <1>1
<1>3. InferWorkType(files) \in WorkTypeSet
  BY <1>2, WorkTypeTyped
<1> QED BY <1>3 DEF files

(* What an adapter hands back is its own.                                  *)
LEMMA TurnNames ==
    ASSUME project \in Projects, NEW p \in Provers,
           \/ RunBuildTest(p) \/ RunSecuritySecrets(p) \/ RunProductSurface(p) \/ RunApiContract(p)
    PROVE  \E result : /\ TakeResult(p, result)
                       /\ provers[p].pc = "proving" /\ provers[p].todo # <<>>
                       /\ result.adapter = Head(provers[p].todo)
<1>1. CASE RunBuildTest(p)
  <2>1. PICK ok \in SUBSET project.scripts :
          TakeResult(p, BuildTest(DiscoverCapabilities(project), ok))
    BY <1>1 DEF RunBuildTest
  <2> QED BY <1>1, <2>1, AdapterNames DEF RunBuildTest, TurnOf, At
<1>2. CASE RunSecuritySecrets(p)
  <2>1. PICK audit \in BOOLEAN :
          TakeResult(p, SecuritySecrets(project, provers[p].command, audit))
    BY <1>2 DEF RunSecuritySecrets
  <2>2. SecuritySecrets(project, provers[p].command, audit).adapter = "security-secrets"
    BY AdapterNames
  <2>3. TurnOf(p, "security-secrets")
    BY <1>2 DEF RunSecuritySecrets
  <2> DEFINE result == SecuritySecrets(project, provers[p].command, audit)
  <2> HIDE DEF result
  <2>4. TakeResult(p, result) /\ result.adapter = "security-secrets"
    BY <2>1, <2>2 DEF result
  <2> QED BY <2>3, <2>4 DEF TurnOf, At
<1>3. CASE RunProductSurface(p)
  BY <1>3, AdapterNames DEF RunProductSurface, TurnOf, At
<1>4. CASE RunApiContract(p)
  BY <1>4, AdapterNames DEF RunApiContract, TurnOf, At
<1> QED BY <1>1, <1>2, <1>3, <1>4

(* A result crosses its adapter off the list.                              *)
LEMMA OnceStays ==
    ASSUME NEW c, OnceEach(c), c.todo # <<>>, NEW result, result.adapter = Head(c.todo),
           NEW d, d.todo = Tail(c.todo), d.results = c.results \cup {result}, d.pc = "proving"
    PROVE  OnceEach(d)
<1>1. c.todo \in Seq(Adapters) /\ \A i, j \in 1..Len(c.todo) : c.todo[i] = c.todo[j] => i = j
  BY DEF OnceEach
<1> DEFINE todo == c.todo
           tail == Tail(todo)
<1>2. /\ tail \in Seq(Adapters) /\ Head(todo) = todo[1] /\ 1 \in 1..Len(todo)
      /\ \A i \in 1..Len(tail) : i + 1 \in 1..Len(todo) /\ tail[i] = todo[i + 1]
      /\ \A i, j \in 1..Len(tail) : tail[i] = tail[j] => i = j
      /\ \A i \in 1..Len(tail) : tail[i] # Head(todo)
  BY <1>1, TailOnce
<1> HIDE DEF tail
<1>3. d.todo = tail /\ result.adapter = todo[1]
  BY <1>2 DEF tail
<1>4. \A r \in c.results : r.adapter # result.adapter /\ \A i \in 1..Len(tail) : r.adapter # tail[i]
  BY <1>2, <1>3 DEF OnceEach
<1>5. \A i \in 1..Len(tail) : result.adapter # tail[i]
  BY <1>2
<1>6. \A r, s \in c.results : r.adapter = s.adapter => r = s
  BY DEF OnceEach
<1> QED BY <1>2, <1>3, <1>4, <1>5, <1>6 DEF OnceEach

(* The gate's verdict is one of three.                                     *)
LEMMA VerdictTyped ==
    ASSUME NEW contract, contract.type \in WorkTypeSet \cup {"none"}, NEW results
    PROVE  CreateVerificationReceipt(contract, EvaluateEvidence(contract, results)) \in ReceiptSet
<1> DEFINE gate == EvaluateEvidence(contract, results)
<1>1. gate.safe \in BOOLEAN /\ gate.overall \in {"safe", "needs_review", "blocked"}
  BY DEF EvaluateEvidence
<1> HIDE DEF gate
<1>2. CreateVerificationReceipt(contract, gate) \in ReceiptSet
  BY <1>1 DEF CreateVerificationReceipt, ReceiptSet
<1> QED BY <1>2 DEF gate

(* What an idle process holds is typed.                                    *)
LEMMA IdleTyped == \A p : Typed(p, Idle)
<1>1. /\ Idle.pc = "idle" /\ Idle.command = NoCommand /\ Idle.contract.type = "none"
      /\ Idle.todo = <<>> /\ Idle.results = {} /\ Idle.receipt = NoReceipt
  BY DEF Idle, NoContract
<1>2. NoReceipt \in ReceiptSet
  BY DEF NoReceipt, ReceiptSet
<1>3. OnceEach(Idle)
  <2>1. \A c : c.todo = <<>> /\ c.results = {} /\ c.pc = "idle" => OnceEach(c)
    BY DEF OnceEach
  <2> QED BY <1>1, <2>1
<1> QED BY <1>1, <1>2, <1>3 DEF Typed, Stages

(* What a step of a process makes of what it holds.                        *)
LEMMA TypedStays ==
    ASSUME TypeInv, NEW p \in Provers, Step(p)
    PROVE  Typed(p, provers[p])'
<1>1. Shapes /\ project \in Projects /\ Typed(p, provers[p]) /\ clock \in 1..MaxClock
  BY DEF TypeInv, RunInv, CountsTyped
<1> DEFINE c == provers[p]
           d == provers'[p]
<1>2. ASSUME d.pc \in Stages, d.command \in Commands[p] \cup {NoCommand},
             d.contract.type \in WorkTypeSet \cup {"none"}, OnceEach(d),
             d.receipt \in ReceiptSet, d.pc = "judged" => d.stamp \in 1..MaxClock,
             d.pc = "writing" => d.stamp \in written'
      PROVE  Typed(p, provers[p])'
  BY <1>2 DEF Typed, OnceEach, Stages
<1>3. CASE Start(p)
  <2>1. PICK command \in Commands[p] : provers' = [provers EXCEPT ![p] = [Idle EXCEPT
             !.pc = "contracted", !.command = command,
             !.contract = GenerateProofContract(command.files, DiscoverCapabilities(project))]]
    BY <1>3 DEF Start
  <2> DEFINE contract == GenerateProofContract(command.files, DiscoverCapabilities(project))
  <2>2. contract.type \in WorkTypeSet
    BY CommandTyped DEF GenerateProofContract
  <2> HIDE DEF contract
  <2>3. provers' = [provers EXCEPT ![p] = [Idle EXCEPT
             !.pc = "contracted", !.command = command, !.contract = contract]]
    BY <2>1 DEF contract
  <2>4. /\ d.pc = "contracted" /\ d.command = command /\ d.contract = contract
        /\ d.todo = <<>> /\ d.results = {} /\ d.receipt = NoReceipt
    BY <1>1, <2>3 DEF Shapes, Idle
  <2>5. OnceEach(d)
    BY <2>4 DEF OnceEach
  <2>6. NoReceipt \in ReceiptSet
    BY DEF NoReceipt, ReceiptSet
  <2> HIDE DEF d
  <2> QED BY <1>2, <2>2, <2>4, <2>5, <2>6 DEF Stages
<1>4. CASE ListAdapters(p)
  <2> DEFINE list == AutomaticAdapters(DiscoverCapabilities(project))
  <2>1. provers' = [provers EXCEPT ![p].pc = "proving", ![p].todo = list]
    BY <1>4 DEF ListAdapters
  <2>2. list \in Seq(Adapters) /\ \A i, j \in 1..Len(list) : list[i] = list[j] => i = j
    BY AdaptersListed
  <2> HIDE DEF list
  <2>3. /\ d.pc = "proving" /\ d.command = c.command /\ d.contract = c.contract
        /\ d.todo = list /\ d.results = c.results /\ d.receipt = c.receipt
    BY <1>1, <2>1 DEF Shapes, Shaped, Fields
  <2>4. c.results = {}
    BY <1>1, <1>4 DEF ListAdapters, At, Typed, OnceEach
  <2> HIDE DEF d
  <2>5. OnceEach(d)
    BY <2>2, <2>3, <2>4 DEF OnceEach
  <2> QED BY <1>1, <1>2, <2>3, <2>5 DEF Typed, Stages
<1>5. CASE RunBuildTest(p) \/ RunSecuritySecrets(p) \/ RunProductSurface(p) \/ RunApiContract(p)
  <2>1. PICK result : /\ TakeResult(p, result)
                      /\ c.pc = "proving" /\ c.todo # <<>>
                      /\ result.adapter = Head(c.todo)
    BY <1>1, <1>5, TurnNames
  <2>2. /\ d.pc = "proving" /\ d.command = c.command /\ d.contract = c.contract
        /\ d.todo = Tail(c.todo) /\ d.results = c.results \cup {result} /\ d.receipt = c.receipt
    BY <1>1, <2>1 DEF TakeResult, Shapes, Shaped, Fields
  <2> HIDE DEF c, d
  <2>3. OnceEach(c)
    BY <1>1 DEF Typed, c
  <2>4. OnceEach(d)
    BY <2>1, <2>2, <2>3, OnceStays
  <2> QED BY <1>1, <1>2, <2>2, <2>4 DEF Typed, Stages, c
<1>6. CASE Judge(p)
  <2> DEFINE receipt == CreateVerificationReceipt(c.contract,
                                                  EvaluateEvidence(c.contract, c.results))
  <2>1. receipt \in ReceiptSet
    BY <1>1, VerdictTyped DEF Typed
  <2>2. provers' = [provers EXCEPT ![p].pc = "judged", ![p].stamp = clock, ![p].receipt = receipt]
    BY <1>6 DEF Judge
  <2> HIDE DEF receipt
  <2>3. /\ d.pc = "judged" /\ d.command = c.command /\ d.contract = c.contract
        /\ d.todo = c.todo /\ d.results = c.results /\ d.receipt = receipt /\ d.stamp = clock
    BY <1>1, <2>2 DEF Shapes, Shaped, Fields
  <2> HIDE DEF d
  <2>4. OnceEach(d)
    BY <1>1, <2>3 DEF Typed, OnceEach
  <2> QED BY <1>1, <1>2, <2>1, <2>3, <2>4 DEF Typed, Stages
<1>7. CASE OpenReceipt(p)
  <2>1. provers' = [provers EXCEPT ![p] = [Idle EXCEPT
             !.pc = "writing", !.receipt = c.receipt, !.stamp = c.stamp]]
    BY <1>7 DEF OpenReceipt
  <2>2. /\ d.pc = "writing" /\ d.command = NoCommand /\ d.contract = NoContract
        /\ d.todo = <<>> /\ d.results = {} /\ d.receipt = c.receipt /\ d.stamp = c.stamp
    BY <1>1, <2>1 DEF Shapes, Idle
  <2>3. c.stamp \in written'
    BY <1>7 DEF OpenReceipt
  <2> HIDE DEF d
  <2>4. OnceEach(d)
    BY <2>2 DEF OnceEach
  <2> QED BY <1>1, <1>2, <2>2, <2>3, <2>4 DEF Typed, Stages, NoContract
<1>8. CASE FillReceipt(p) \/ ListReceipts(p) \/ Unlink(p)
  <2>1. /\ d.pc \in {"written", "pruning"} /\ d.command = c.command /\ d.contract = c.contract
        /\ d.todo = c.todo /\ d.results = c.results /\ d.receipt = c.receipt
    <3>1. CASE FillReceipt(p) \/ ListReceipts(p)
      BY <1>1, <3>1 DEF FillReceipt, ListReceipts, Shapes, Shaped, Fields
    <3>2. CASE Unlink(p)
      <4>1. PICK doomed : provers' = [provers EXCEPT ![p].doomed = doomed]
        BY <3>2 DEF Unlink
      <4> QED BY <1>1, <3>2, <4>1 DEF Unlink, At, Shapes, Shaped, Fields
    <3> QED BY <1>8, <3>1, <3>2
  <2> HIDE DEF d
  <2>2. OnceEach(d)
    BY <1>1, <2>1 DEF Typed, OnceEach
  <2> QED BY <1>1, <1>2, <2>1, <2>2 DEF Typed, Stages
<1>9. CASE Finish(p) \/ Kill(p)
  <2>1. d = Idle
    BY <1>1, <1>9 DEF Finish, Kill, Shapes
  <2>2. Typed(p, Idle) /\ Idle.pc = "idle"
    BY IdleTyped DEF Idle
  <2> HIDE DEF d
  <2> QED BY <1>2, <2>1, <2>2 DEF Typed
<1> QED BY <1>3, <1>4, <1>5, <1>6, <1>7, <1>8, <1>9 DEF Step

(* What a step of a process makes of the files.                            *)
LEMMA FilesStay ==
    ASSUME TypeInv, NEW p \in Provers, Step(p)
    PROVE  FilesTyped' /\ CountsTyped' /\ written \subseteq written'
<1>1. /\ FilesTyped /\ CountsTyped /\ Shapes
      /\ provers[p].pc \in {"judged", "writing"} => provers[p].receipt \in ReceiptSet
      /\ provers[p].pc = "judged" => provers[p].stamp \in 1..MaxClock
  BY DEF TypeInv, RunInv, Typed
<1>2. CASE \/ Start(p) \/ ListAdapters(p) \/ RunBuildTest(p) \/ RunSecuritySecrets(p)
           \/ RunProductSurface(p) \/ RunApiContract(p) \/ Judge(p) \/ ListReceipts(p)
           \/ Finish(p) \/ Kill(p)
  <2>1. /\ UNCHANGED <<clock, edits, receipts, written>>
        /\ starts' = starts \/ (starts < MaxStarts /\ starts' = starts + 1)
    BY <1>2 DEF Start, ListAdapters, RunBuildTest, RunSecuritySecrets, RunProductSurface,
       RunApiContract, TakeResult, Judge, ListReceipts, Finish, Kill
  <2> QED BY <1>1, <2>1, BoundsAssumption DEF FilesTyped, CountsTyped
<1>3. CASE OpenReceipt(p)
  <2> DEFINE name == provers[p].stamp
  <2>1. /\ UNCHANGED <<clock, edits, starts>> /\ written' = written \cup {name}
        /\ receipts' = Put(name, Torn) /\ name \in 1..MaxClock
    BY <1>1, <1>3 DEF OpenReceipt, At
  <2> HIDE DEF name
  <2> QED BY <1>1, <2>1 DEF FilesTyped, CountsTyped, Put
<1>4. CASE FillReceipt(p)
  <2> DEFINE name == provers[p].stamp
             content == provers[p].receipt
  <2>1. /\ UNCHANGED <<clock, edits, starts, written>>
        /\ receipts' = IF name \in DOMAIN receipts THEN Put(name, content) ELSE receipts
        /\ content \in ReceiptSet
    BY <1>1, <1>4 DEF FillReceipt, At
  <2> HIDE DEF name, content
  <2> QED BY <1>1, <2>1 DEF FilesTyped, CountsTyped, Put
<1>5. CASE Unlink(p)
  <2>1. PICK name : receipts' = [n \in DOMAIN receipts \ {name} |-> receipts[n]]
    BY <1>5 DEF Unlink
  <2>2. UNCHANGED <<clock, edits, starts, written>>
    BY <1>5 DEF Unlink
  <2> QED BY <1>1, <2>1, <2>2 DEF FilesTyped, CountsTyped
<1> QED BY <1>2, <1>3, <1>4, <1>5 DEF Step

(* Every step keeps the types.                                             *)
LEMMA NextTyped == TypeInv /\ [Next]_vars => TypeInv'
<1> SUFFICES ASSUME TypeInv, [Next]_vars PROVE TypeInv'
  OBVIOUS
<1>0. RunInv'
  BY NextInv DEF TypeInv
<1>1. ASSUME NEW p \in Provers, Step(p) PROVE TypeInv'
  <2>1. FilesTyped' /\ CountsTyped' /\ written \subseteq written' /\ Typed(p, provers[p])'
    BY <1>1, FilesStay, TypedStays
  <2>2. ASSUME NEW q \in Provers \ {p} PROVE Typed(q, provers[q])'
    <3>1. provers'[q] = provers[q] /\ Typed(q, provers[q])
      BY <1>1, OthersStay DEF TypeInv, RunInv
    <3> QED BY <2>1, <3>1 DEF Typed, OnceEach, Stages
  <2> QED BY <1>0, <2>1, <2>2 DEF TypeInv
<1>2. CASE Edit
  <2>1. /\ edits < MaxEdits /\ edits' = edits + 1 /\ UNCHANGED <<clock, starts, receipts, written>>
        /\ provers' = [p \in Provers |->
             IF At(p, "idle") THEN provers[p] ELSE [provers[p] EXCEPT !.disturbed = TRUE]]
    BY <1>2 DEF Edit
  <2>2. FilesTyped' /\ CountsTyped'
    BY <2>1, BoundsAssumption DEF TypeInv, FilesTyped, CountsTyped
  <2>3. ASSUME NEW p \in Provers PROVE Typed(p, provers[p])'
    <3>1. LET c == provers[p]
              d == provers'[p]
          IN /\ d.pc = c.pc /\ d.command = c.command /\ d.contract = c.contract /\ d.todo = c.todo
             /\ d.results = c.results /\ d.receipt = c.receipt /\ d.stamp = c.stamp
      BY <2>1 DEF TypeInv, RunInv, Shapes, Shaped, Fields
    <3>2. Typed(p, provers[p]) /\ written' = written
      BY <2>1 DEF TypeInv
    <3> QED BY <3>1, <3>2 DEF Typed, OnceEach, Stages
  <2> QED BY <1>0, <2>2, <2>3 DEF TypeInv
<1>3. CASE Tick \/ UNCHANGED vars
  <2>1. /\ UNCHANGED <<project, edits, starts, provers, receipts, written>>
        /\ clock' = clock \/ (clock < MaxClock /\ clock' = clock + 1)
    BY <1>3 DEF Tick, vars
  <2>2. FilesTyped' /\ CountsTyped'
    BY <2>1, BoundsAssumption DEF TypeInv, FilesTyped, CountsTyped
  <2>3. \A p \in Provers : Typed(p, provers[p])'
    BY <2>1 DEF TypeInv, Typed, OnceEach, Stages
  <2> QED BY <1>0, <2>2, <2>3 DEF TypeInv
<1> QED BY <1>1, <1>2, <1>3 DEF Next

(* The types hold throughout: no adapter has two results, whatever happens *)
(* to the project between the listing and the runs of the adapters; every  *)
(* verdict is one of the gate's three; and every file, torn or filled,     *)
(* carries a moment the clock has shown.                                   *)
THEOREM TypeCorrect == Spec => []TypeOK
<1>1. Init => TypeInv
  <2> SUFFICES ASSUME Init PROVE TypeInv
    OBVIOUS
  <2>1. RunInv
    BY InitInv
  <2>2. FilesTyped
    BY DEF Init, FilesTyped
  <2>3. CountsTyped
    BY BoundsAssumption DEF Init, CountsTyped
  <2>4. ASSUME NEW p \in Provers PROVE Typed(p, provers[p])
    <3>1. provers[p] = Idle
      BY DEF Init
    <3> QED BY <3>1, IdleTyped
  <2> QED BY <2>1, <2>2, <2>3, <2>4 DEF TypeInv
<1>2. TypeInv => TypeOK
  <2> SUFFICES ASSUME TypeInv PROVE TypeOK
    OBVIOUS
  <2>1. /\ project \in Projects /\ FilesTyped /\ CountsTyped
        /\ DOMAIN receipts \subseteq written
    BY DEF TypeInv, RunInv, PruneInv
  <2>2. ASSUME NEW p \in Provers
        PROVE  /\ Typed(p, provers[p]) /\ provers[p].doomed \subseteq written
               /\ Range(provers[p].todo) \subseteq Adapters
    <3>1. Typed(p, provers[p]) /\ provers[p].doomed \subseteq written
      BY DEF TypeInv, RunInv, PruneInv
    <3>2. provers[p].todo \in Seq(Adapters)
      BY <3>1 DEF Typed, OnceEach
    <3>3. Range(provers[p].todo) \subseteq Adapters
      BY <3>2 DEF Range
    <3> QED BY <3>1, <3>3
  <2> QED BY <2>1, <2>2 DEF TypeOK, FilesTyped, CountsTyped, Typed, OnceEach, Stages
<1> QED BY <1>1, <1>2, NextTyped, PTL DEF Spec
=============================================================================
