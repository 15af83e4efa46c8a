---------------------------- MODULE WorkReports ----------------------------
(***************************************************************************)
(* What Avorelo says of a piece of work: the continuity packet             *)
(* (capabilities/continuity), the proof report's sections, the work        *)
(* intelligence made of both (capabilities/work-intelligence) and the      *)
(* cards of the local dashboard.  Operators over what is on disk; the      *)
(* files and who writes them are in WorkIntelligence.                      *)
(*                                                                         *)
(* A work stands for a task as the classifiers see it:                     *)
(*   id its normalized objective        plain: no address, mail or path in *)
(*   the objective, so that the stored objective is the original one       *)
(*   gate, route, risk, tier, approval of its contract                     *)
(*   words: which of docs, tests, sensitive, public its objective names    *)
(*   secret: a secret risk was found    refs: the references of its packet *)
(*   capabilities: how many are chosen  expects: evidence they are to leave*)
(*   model: a model profile is chosen   skipped: skill replay leaves some out *)
(* A reference is [like: what its name looks like, form: "plain", "nested"  *)
(* (a name with a slash) or "pattern", there: is it in the checkout, truth, *)
(* sensitive].  Something that may be missing is a set of at most one.      *)
(***************************************************************************)
EXTENDS Integers, Sequences, FiniteSets, SequencesExt

Gates == {"allow", "require_approval", "blocked"}
OutcomeStatuses == {"proved", "open", "blocked", "unavailable"}
ProofStatuses == {"proved", "partial", "blocked", "unavailable"}
Readiness == {"ready", "needs_attention", "blocked", "unavailable"}
HealthStatuses == {"healthy", "warning", "critical"}
WasteLevels == {"low", "medium", "high"}
AdapterResults == {"none", "executed", "unproved"}

The(opt) == CHOOSE x \in opt : TRUE

(***************************************************************************)
(* Continuity                                                              *)
(***************************************************************************)

(* proofNeededFor, as a number of proofs.                                  *)
ProofNeeded(tier) ==
    CASE tier = "production" -> 3 [] tier = "browser" -> 2 [] tier \in {"tests", "local"} -> 1 [] OTHER -> 0

(* prepareContinuity.  No caller names a proof as captured, so every proof *)
(* of the tier is missing.                                                 *)
PrepareContinuity(w) ==
    LET blocked == w.route = "blocked"
    IN [work |-> w, fresh |-> TRUE,
        status |-> IF blocked THEN "blocked" ELSE "prepared",
        questions |-> (IF w.route = "needs_decision" THEN 1 ELSE 0)
                    + (IF w.approval = "require_manual_review" THEN 1 ELSE 0),
        missing |-> IF blocked THEN 0 ELSE ProofNeeded(w.tier)]

ContinuityStatuses == {"prepared", "blocked"}
NextRunContinuityPackets(works) ==
    [work : works, fresh : BOOLEAN, status : ContinuityStatuses, questions : 0 .. 2, missing : 0 .. 3]

(* canInjectContinuity                                                     *)
CanInject(c) ==
    /\ c.status = "prepared" /\ c.work.route # "blocked"
    /\ c.fresh
    /\ c.work.approval \notin {"require_manual_review", "require_confirmation", "blocked"}
    /\ c.questions = 0

(***************************************************************************)
(* Proof report: the numbers of items in its sections.                     *)
(***************************************************************************)

(* buildProofAdapterReportItems                                            *)
AdapterVerified(adapter) == IF adapter = "executed" THEN 1 ELSE 0
AdapterOpen(adapter) == IF adapter = "unproved" THEN 1 ELSE 0

(* buildProofReport: the gaps of the latest packet are open items.         *)
BuildProofReport(continuity, tokens, adapter) ==
    [verified |-> AdapterVerified(adapter),
     open |-> AdapterOpen(adapter)
              + (IF continuity = {} THEN 0 ELSE The(continuity).missing + The(continuity).questions),
     found |-> IF tokens THEN 1 ELSE 0]

(***************************************************************************)
(* References                                                              *)
(***************************************************************************)

(* referenceExists turns every slash of a name into a backslash.  On POSIX *)
(* no file has such a name.                                                *)
ReferenceExists(r) ==
    CASE r.form = "pattern" -> "unknown"
      [] r.form = "nested" -> "no"
      [] OTHER -> IF r.there THEN "yes" ELSE "no"

(* buildWorkspaceReferences: the packet's, then those only the pack has.   *)
References(packet, pack) ==
    LET listed(opt) == UNION {w.refs : w \in opt}
        relevance(r) == CASE ReferenceExists(r) = "no" -> "stale"
                          [] ReferenceExists(r) # "no" /\ r.sensitive -> "sensitive"
                          [] OTHER -> IF r.truth /\ r \in listed(packet) THEN "primary" ELSE "supporting"
    IN {[ref |-> r, exists |-> ReferenceExists(r), relevance |-> relevance(r)]
          : r \in listed(packet) \cup listed(pack)}

WorkReferences(refs) ==
    [ref : refs, exists : {"yes", "no", "unknown"},
     relevance : {"primary", "supporting", "stale", "sensitive"}]

Looks(refs) == {r.ref.like : r \in refs}
Stale(refs) == \E r \in refs : r.exists = "no"

(* buildMissingObviousReferences.  run: the runtime record or nothing.     *)
MissingObvious(run, packet, refs) ==
    IF run = {} /\ packet = {} THEN {}
    ELSE LET w == IF run # {} THEN The(run).work ELSE The(packet)
         IN (IF w.tier \in {"tests", "browser", "production"} THEN {"tests"} \ Looks(refs) ELSE {})
            \cup ((w.words \cap {"docs", "sensitive"}) \ Looks(refs))

(* buildIrrelevantReferences                                               *)
Irrelevant(run, refs) ==
    LET words == IF run = {} THEN {} ELSE The(run).work.words
        off == (IF "docs" \in words THEN {"tests"} ELSE {}) \cup (IF "tests" \in words THEN {"public"} ELSE {})
    IN {r.ref : r \in {x \in refs : x.ref.like \in off}}

(***************************************************************************)
(* Receipts and their cards.  A receipt is [decision, proofs: has it       *)
(* OUTCOME and POST_ACTION, old: beyond fourteen days, unsafe, dirty: was  *)
(* the environment compromised].                                           *)
(***************************************************************************)
ReceiptReady(r) == r.decision = "STOP_DONE" /\ r.proofs

CardKind(r) ==
    CASE r.decision = "STOP_BLOCKED" -> "blocked"
      [] r.decision = "STOP_DONE" -> IF ReceiptReady(r) /\ ~r.old THEN "done" ELSE "needs_attention"
      [] OTHER -> IF r.dirty THEN "needs_attention" ELSE "in_progress"

CardTotals(receipts) ==
    [kind \in {"blocked", "done", "needs_attention", "in_progress"} |->
        Cardinality({r \in receipts : CardKind(r) = kind})]

(***************************************************************************)
(* Warnings.  One of a code is enough, but the waste level counts them.    *)
(***************************************************************************)
Critical == {"RECEIPT_UNSAFE_FIELDS", "UNSUPPORTED_DONE_CLAIM", "MISSING_PROOF_COMMAND",
             "REPEATED_SETUP_AGAIN"}

If(cond, code) == IF cond THEN {code} ELSE {}

SeverityStatus(warnings) ==
    IF warnings = {} THEN "healthy" ELSE IF warnings \cap Critical # {} THEN "critical" ELSE "warning"
WasteStatus(warnings) ==
    IF warnings = {} THEN "low"
    ELSE IF warnings \cap Critical # {} \/ Cardinality(warnings) >= 3 THEN "high" ELSE "medium"

UnsupportedDone(receipts) == {r \in receipts : r.decision = "STOP_DONE" /\ ~ReceiptReady(r)}

ReceiptWarnings(receipts, run) ==
    If(\E r \in receipts : r.unsafe, "RECEIPT_UNSAFE_FIELDS")
    \cup If(\E r \in receipts : r.old, "RECEIPT_STALE")
    \cup If(UnsupportedDone(receipts) # {}, "UNSUPPORTED_DONE_CLAIM")
    \cup If(run = {} \/ \E x \in run : ~x.reported, "RECEIPT_PROOF_MISSING")

(* No stored packet has the status "expired": the warning of it never comes. *)
ArtifactWarnings(run, packet, refs) ==
    If(run # {} /\ packet = {}, "CONTEXT_PACKET_MISSING")
    \cup If(Stale(refs), "STALE_REFERENCES_DETECTED")
    \cup If("generated" \in Looks(refs), "GENERATED_OUTPUT_EDITED_AS_SOURCE")
    \cup If(/\ \E x \in run : "public" \in x.work.words
            /\ "generated" \in Looks(refs) /\ "static" \notin Looks(refs), "PUBLIC_WEB_SOURCE_OF_TRUTH_MISSING")

(* evidenceCoverage: what the record itself holds.                         *)
Coverage(x) ==
    {"kernel_receipt_ref", "model_routing_projection"}
    \cup (IF x.prepared THEN {"context_budget_summary", "context_pack"} ELSE {})
    \cup If(x.reported, "proof_report")
    \cup If(x.adapter # "none", "tool_execution_receipt")

(* The capability route never holds a capability twice.                    *)
CapabilityWarnings(run) ==
    UNION {If((x.work.risk = "low" \/ x.work.route = "deterministic_only") /\ x.work.capabilities >= 5,
              "OVER_SKILLED_LOW_RISK_TASK")
           \cup If(~(x.work.expects \subseteq Coverage(x)), "CAPABILITY_SELECTED_WITHOUT_EVIDENCE")
           \cup If(x.work.skipped, "SKILL_RECOMMENDED_BUT_NOT_APPLICABLE") : x \in run}

(***************************************************************************)
(* Memory of earlier sessions                                              *)
(***************************************************************************)

(* The objective work is remembered by, and the one it is looked up by.    *)
Subject(run, continuity) ==
    IF run # {} THEN {The(run).work} ELSE {c.work : c \in continuity}
Remembered(subject) ==
    IF subject = {} THEN "no recorded objective" ELSE IF The(subject).plain THEN The(subject).id ELSE "redacted"
LookedUp(subject) == IF subject = {} THEN "" ELSE The(subject).id

Matching(subject, history) == SelectSeq(history, LAMBDA e : e.objective = LookedUp(subject))

(* Slip: attempts that were proved count as well.                          *)
SlipRepeatedSetups(subject, history) ==
    Cardinality({i \in DOMAIN history : history[i].objective = LookedUp(subject)})

RepeatedSetups(subject, history) ==
    Cardinality({i \in DOMAIN history : /\ history[i].objective = LookedUp(subject)
                                        /\ history[i].outcome # "proved"})

WasteWarnings(run, continuity, refs, missing, irrelevant, history, verified) ==
    LET subject == Subject(run, continuity)
        repeated == RepeatedSetups(subject, history)
        earlier == Matching(subject, history)
    IN If(repeated = 1, "REPEATED_SETUP") \cup If(repeated > 1, "REPEATED_SETUP_AGAIN")
       \cup If(\E w \in subject : w.route = "needs_decision", "BROAD_TASK_NEEDS_SCOPE")
       \cup If(irrelevant # {}, "IRRELEVANT_REFERENCES_INCLUDED")
       \cup If(Stale(refs), "STALE_CONTEXT_REFERENCES")
       \cup If(missing # {}, "MISSING_OBVIOUS_REFERENCES")
       \cup If(verified = 0 /\ \E x \in run : x.work.tier \in {"tests", "browser", "production"},
               "MISSING_PROOF_COMMAND")
       \cup If(/\ earlier # <<>> /\ verified = 0
               /\ Last(earlier).outcome # "proved" /\ Last(earlier).proof # "proved",
               "REPEATED_FAILED_CHECKS_WITHOUT_NEW_EVIDENCE")
       \cup If(\E x \in run : x.work.route = "deterministic_only" /\ x.work.model, "UNNECESSARY_MODEL_ESCALATION")

(***************************************************************************)
(* The model                                                               *)
(***************************************************************************)

(* Slip: open items do not stand in the way of a proof.                    *)
SlipProofStatus(run, report) ==
    CASE \E x \in run : x.work.gate = "blocked" -> "blocked"
      [] OTHER -> IF report.verified > 0 THEN "proved"
                  ELSE IF report.found + report.open > 0 THEN "partial" ELSE "unavailable"

ProofStatus(run, report) ==
    CASE \E x \in run : x.work.gate = "blocked" -> "blocked"
      [] OTHER -> IF report.verified > 0 /\ report.open = 0 THEN "proved"
                  ELSE IF report.verified + report.open + report.found > 0 THEN "partial"
                  ELSE "unavailable"

OutcomeStatus(run, proof) ==
    IF run = {} THEN "unavailable"
    ELSE LET gate == The(run).work.gate
         IN CASE gate = "blocked" -> "blocked"
              [] gate = "require_approval" -> "open"
              [] gate = "allow" -> IF proof = "proved" THEN "proved" ELSE "open"

ResumeReadiness(continuity, outcome) ==
    IF \E c \in continuity : CanInject(c) THEN "ready"
    ELSE IF outcome = "blocked" THEN "blocked"
    ELSE IF continuity # {} THEN "needs_attention" ELSE "unavailable"

ClaimsNotAllowed(run, warnings, proof) ==
    {"raw", "savings"} \cup If(proof # "proved", "done")
    \cup If("UNSUPPORTED_DONE_CLAIM" \in warnings, "receipts")
    \cup If(\E x \in run : x.work.gate = "blocked", "executed")

(* buildEfficiencyMetrics, each by its code; -1 stands for null.  Each     *)
(* receipt that claims too much has a warning that names it.               *)
EfficiencyMetrics(run, repeated, irrelevant, waste, unsupported, readiness) ==
    [repeated_setup_sessions |-> repeated,
     irrelevant_reference_count |-> Cardinality(irrelevant),
     missing_proof_command_count |-> Cardinality(waste \cap {"MISSING_PROOF_COMMAND"}),
     broad_task_rate |-> Cardinality({x \in run : x.work.route = "needs_decision"}),
     unsupported_done_claim_count |-> Cardinality(unsupported),
     resume_readiness |-> CASE readiness = "ready" -> 1
                            [] readiness = "needs_attention" -> 0
                            [] OTHER -> -1]

(* buildWorkIntelligence over what was read: in.run, in.continuity,        *)
(* in.packet and in.pack each a set of at most one, in.report, in.history, *)
(* in.receipts.                                                            *)
BuildWorkIntelligence(in) ==
    LET refs == References(in.packet, in.pack)
        missing == MissingObvious(in.run, in.packet, refs)
        irrelevant == Irrelevant(in.run, refs)
        proof == ProofStatus(in.run, in.report)
        outcome == OutcomeStatus(in.run, proof)
        subject == Subject(in.run, in.continuity)
        repeated == RepeatedSetups(subject, in.history)
        waste == WasteWarnings(in.run, in.continuity, refs, missing, irrelevant, in.history, in.report.verified)
        receipt == ReceiptWarnings(in.receipts, in.run)
        readiness == ResumeReadiness(in.continuity, outcome)
    IN [by |-> {x.by : x \in in.run},
        objective |-> Remembered(subject),
        gate |-> IF in.run = {} THEN "unavailable" ELSE The(in.run).work.gate,
        outcome |-> outcome, proof |-> proof,
        readiness |-> readiness,
        depth |-> Len(in.history),
        repeated |-> repeated,
        irrelevant |-> irrelevant,
        again |-> irrelevant \cap UNION {in.history[i].irrelevant : i \in DOMAIN in.history},
        waste |-> WasteStatus(waste),
        receipt |-> SeverityStatus(receipt),
        claims |-> ClaimsNotAllowed(in.run, receipt, proof),
        metrics |-> EfficiencyMetrics(in.run, repeated, irrelevant, waste, UnsupportedDone(in.receipts), readiness),
        artifact |-> SeverityStatus(ArtifactWarnings(in.run, in.packet, refs)),
        capability |-> SeverityStatus(CapabilityWarnings(in.run))]

(* buildHistoryEntry                                                       *)
HistoryEntry(m) ==
    [by |-> m.by, objective |-> m.objective, outcome |-> m.outcome, proof |-> m.proof,
     repeated |-> m.repeated, irrelevant |-> m.irrelevant]

(* buildResumePacket: what it keeps of the model and of the packet.        *)
ResumePacket(m, continuity) ==
    [by |-> m.by, objective |-> m.objective, readiness |-> m.readiness,
     failed |-> IF continuity = {} THEN 0 ELSE The(continuity).missing]

(***************************************************************************)
(* What may be stored                                                      *)
(***************************************************************************)
Claims == {"raw", "savings", "done", "receipts", "executed"}

IsOutcomeReceipt360(m) ==
    /\ m.gate \in Gates \cup {"unavailable"}
    /\ m.outcome \in OutcomeStatuses /\ m.proof \in ProofStatuses
    /\ {"raw", "savings"} \subseteq m.claims /\ m.claims \subseteq Claims

IsWorkEfficiencyMetrics(metrics) ==
    /\ \A code \in DOMAIN metrics \ {"resume_readiness"} : metrics[code] \in Nat
    /\ metrics.resume_readiness \in {-1, 0, 1}

IsWorkIntelligence(m) ==
    /\ IsOutcomeReceipt360(m) /\ IsWorkEfficiencyMetrics(m.metrics)
    /\ m.depth \in Nat /\ m.repeated \in 0 .. m.depth
    /\ m.readiness \in Readiness /\ m.waste \in WasteLevels /\ m.again \subseteq m.irrelevant
    /\ {m.receipt, m.artifact, m.capability} \subseteq HealthStatuses

WorkIntelligenceHistoryEntries(bys, objectives, refs, depth) ==
    [by : bys, objective : objectives, outcome : OutcomeStatuses, proof : ProofStatuses,
     repeated : 0 .. depth, irrelevant : SUBSET refs]

WorkResumePackets(bys, objectives) ==
    [by : bys, objective : objectives, readiness : Readiness, failed : 0 .. 3]
=============================================================================
