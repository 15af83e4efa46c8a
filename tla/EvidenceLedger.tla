--------------------------- MODULE EvidenceLedger ---------------------------
(***************************************************************************)
(* The layers a runtime session ends with and the files they share in one  *)
(* directory (.avorelo): continuity, token cost evidence, proof report,    *)
(* value ledger and efficiency sync (capabilities of these names, and the  *)
(* stages of runRuntimeSession that call them).                            *)
(*                                                                         *)
(* Several processes may work in the directory at once: runtime sessions,  *)
(* and the commands that import evidence, build a report and record its    *)
(* value.  A step is one read or one write of a file.  Every write may     *)
(* fail, and every stage goes on when it does.  A process that is killed   *)
(* is one that takes no further step.                                      *)
(***************************************************************************)
EXTENDS TokenCost, SequencesExt

CONSTANTS Sessions,       \* runtime sessions, each run once
          Reporters,      \* processes of avorelo report build
          Recorders,      \* processes of avorelo value record
          ProofOutcomes,  \* what becomes of a session's proof adapter
          Imports,        \* what the user may import
          Earlier,        \* what may have been imported before
          MaxImports,     \* bound: imports
          MaxFailures     \* bound: writes that fail

Procs == Sessions \union Reporters \union Recorders

(* A proof adapter ran, ran as a fake, did not run; or there was none.     *)
ASSUME OutcomesAssumption ==
    ProofOutcomes \subseteq {"executed", "faked", "skipped", "failed", "none"}

ASSUME ProcsAssumption ==
    /\ Sessions \intersect (Reporters \union Recorders) = {}
    /\ Reporters \intersect Recorders = {}

VARIABLES tokens,    \* token-cost.jsonl
          packet,    \* is there a continuity/latest.json?
          report,    \* proof-report.latest.json: a set of at most one report
          ledger,    \* value-ledger.jsonl
          cards,     \* cards.latest.json
          queue,     \* efficiency-metadata.queue.jsonl: whose records it holds
          imports,   \* imports so far
          failures,  \* failed writes so far
          pc,        \* the stage each process is in
          mine       \* what each process holds in memory

ledgerVars == <<tokens, packet, report, ledger, cards, queue, imports, failures, pc, mine>>

(* Slip: the report is drawn up before the session's own record is in.     *)
SlipReportFirst ==
    <<"continuity", "report", "publish", "evidence", "value", "cards", "sync", "done">>

SessionStages ==
    <<"continuity", "evidence", "report", "publish", "value", "cards", "sync", "done">>

Stages(p) ==
    CASE p \in Sessions  -> SessionStages
      [] p \in Reporters -> <<"report", "publish", "done">>
      [] p \in Recorders -> <<"value", "cards", "done">>

After(p, st) == Stages(p)[1 + CHOOSE i \in DOMAIN Stages(p) : Stages(p)[i] = st]

NoMemory == [stored |-> FALSE, built |-> {}, queued |-> FALSE]

(* avorelo token-cost import appends the record, if it accepts it.         *)
Imported(in) ==
    SetToSeq({[e |-> e, by |-> "import"] : e \in ImportTokenCostEvidence(in)})

(* Earlier, at most one import.                                            *)
LedgerInit ==
    /\ tokens \in {<<>>} \union {Imported(in) : in \in Earlier}
    /\ packet = FALSE /\ report = {} /\ ledger = <<>>
    /\ cards = {} /\ queue = {}
    /\ imports = 0 /\ failures = 0
    /\ pc = [p \in Procs |-> Head(Stages(p))]
    /\ mine = [p \in Procs |-> NoMemory]

At(p, st) == pc[p] = st
Go(p) == pc' = [pc EXCEPT ![p] = After(p, @)]

(* The stage of p ends with a write, which fails or not.                   *)
Write(p, ok) ==
    /\ failures' = failures + (IF ok THEN 0 ELSE 1)
    /\ failures' <= MaxFailures
    /\ Go(p)

(* The packet before decides only the wording of the session's own record: *)
(* reading it is left out.  The session's packet replaces it.              *)
WriteContinuity(p, ok) ==
    /\ At(p, "continuity")
    /\ packet' = (packet \/ ok)
    /\ Write(p, ok)
    /\ UNCHANGED <<tokens, report, ledger, cards, queue, imports, mine>>

(***************************************************************************)
(* Token cost evidence.                                                    *)
(***************************************************************************)
Import(in) ==
    /\ imports < MaxImports
    /\ imports' = imports + 1
    /\ tokens' = tokens \o Imported(in)
    /\ UNCHANGED <<packet, report, ledger, cards, queue, pc, mine, failures>>

(* A session has measured nothing and says so.                             *)
WriteEvidence(p, ok) ==
    /\ At(p, "evidence")
    /\ tokens' = IF ok THEN Append(tokens, [e |-> UnavailableEvidence, by |-> p]) ELSE tokens
    /\ mine' = [mine EXCEPT ![p].stored = ok]
    /\ Write(p, ok)
    /\ UNCHANGED <<packet, report, ledger, cards, queue, imports>>

Evidence(ts) == [i \in DOMAIN ts |-> ts[i].e]
Records(ts) == {ts[i].by : i \in DOMAIN ts}

(***************************************************************************)
(* Proof report: built from the evidence and the latest packet, whoever    *)
(* wrote them, and from what became of the session's proof adapter.  An    *)
(* item is [code, conf]; items that repeat a code stand for one.  The      *)
(* tasks are those that need some proof, so a packet always names a gap    *)
(* (no caller passes proof that was captured) and a next action.           *)
(***************************************************************************)
Item(code, conf) == [code |-> code, conf |-> conf]
Sections == {"found", "protected", "prepared", "verified", "needsAttention", "next"}

(* buildProofAdapterReportItems.                                           *)
VerifiedItems(outcome) ==
    CASE outcome = "executed" -> {Item("PROOF_ADAPTER_EXECUTED", "measured")}
      [] outcome = "faked"    -> {Item("PROOF_ADAPTER_EXECUTED", "inferred")}
      [] OTHER                -> {}

AttentionItems(outcome) ==
    CASE outcome = "skipped" -> {Item("PROOF_ADAPTER_SKIPPED", "unavailable")}
      [] outcome = "failed"  -> {Item("PROOF_ADAPTER_NOT_READY", "measured")}
      [] OTHER               -> {}

(* The confidence buildSavingsSection gives the cost, and the items the    *)
(* evidence itself.                                                        *)
CostConfidence(items) ==
    CASE Counted(items, {"measured"}) > 0 -> "measured"
      [] Counted(items, {"measured"}) = 0 /\ Counted(items, {"imported"}) > 0 -> "imported"
      [] OTHER -> "unavailable"

(* Nothing to compare with: savings are refused, with or without evidence. *)
BuildSavingsSection(sum, items) ==
    [allowed |-> FALSE, amount |-> Unknown,
     refusal |-> IF items = <<>> THEN "no_token_cost_evidence" ELSE "no_comparative_evidence",
     cost |-> IF sum.canUseForCostSummary THEN sum.cost ELSE Unknown,
     currency |-> IF sum.canUseForCostSummary THEN sum.currency ELSE NoCurrency,
     conf |-> IF sum.canUseForCostSummary THEN CostConfidence(items) ELSE "unavailable",
     mixed |-> sum.mixed]

ProofReportSavingsSections ==
    [allowed : BOOLEAN, amount : Maybe, cost : Maybe, currency : STRING, mixed : BOOLEAN,
     refusal : {"no_token_cost_evidence", "no_comparative_evidence"},
     conf : {"measured", "imported", "unavailable"}]

BuildProofReport(p, outcome) ==
    LET items == Evidence(tokens)
        sum == SummarizeTokenCostEvidence(items)
    IN [by |-> p, evidence |-> Records(tokens),
        sections |->
          [found |-> {Item("TOKEN_COST_EVIDENCE", CostConfidence(items)) : r \in Records(tokens)},
           protected |-> {}, prepared |-> {},
           verified |-> VerifiedItems(outcome),
           needsAttention |-> AttentionItems(outcome) \union
                              {Item("PROOF_GAP", "unavailable") : x \in {TRUE} \intersect {packet}},
           next |-> {Item("NEXT_ACTION", "inferred") : x \in {TRUE} \intersect {packet}}],
        savings |-> BuildSavingsSection(sum, items),
        count |-> Len(items), breakdown |-> sum.breakdown,
        canShowCost |-> sum.canUseForCostSummary]

(* What validateProofReport asks: savings and their amount go together.    *)
ValidateProofReport(r) == r.savings.allowed <=> Known(r.savings.amount)

(* Only counts and codes leave the directory.                              *)
ProofReportSyncMetadata(r) ==
    [sectionCounts |-> [s \in Sections |-> Cardinality(r.sections[s])],
     evidenceCounts |-> r.breakdown, canShowCostSummary |-> r.canShowCost,
     savingsClaimAllowed |-> r.savings.allowed, savingsRefusalReason |-> r.savings.refusal]

BuildReport(p, outcome) ==
    /\ At(p, "report")
    /\ outcome \in IF p \in Sessions THEN ProofOutcomes ELSE {"none"}
    /\ mine' = [mine EXCEPT ![p].built = {BuildProofReport(p, outcome)}]
    /\ Go(p)
    /\ UNCHANGED <<tokens, packet, report, ledger, cards, queue, imports, failures>>

WriteProofReport(p, ok) ==
    /\ At(p, "publish")
    /\ report' = IF ok /\ \A r \in mine[p].built : ValidateProofReport(r)
                 THEN mine[p].built ELSE report
    /\ Write(p, ok)
    /\ UNCHANGED <<tokens, packet, ledger, cards, queue, imports, mine>>

(***************************************************************************)
(* Value ledger: a session enters the report on disk, which need not be    *)
(* its own, and one built on the spot when there is none; avorelo value    *)
(* record always builds one.  The entries of one report stand together as  *)
(* one element of the ledger.                                              *)
(***************************************************************************)
Categories == {"scope_safety_protected", "secret_boundary_protected", "proof_captured",
               "next_run_prepared", "review_load_reduced", "rework_avoided",
               "token_cost_evidence", "needs_attention"}

Entry(category, status, conf, metric, value) ==
    [category |-> category, status |-> status, conf |-> conf, metric |-> metric, value |-> value]

ValueLedgerEntries ==
    [category : Categories, conf : Confidences, value : Maybe,
     status : {"captured", "prepared", "protected", "verified", "needs_attention", "unavailable"},
     metric : {"count", "cost_summary", "evidence_count", "proof_count", "none"}]

ProtectedEntries(r) ==
    {Entry("secret_boundary_protected", "protected", "measured", "count",
           Cardinality(r.sections.protected)) : x \in r.sections.protected}

(* Whatever the confidence of the item, proof counts as measured.          *)
ProofEntry(r) ==
    LET n == Cardinality(r.sections.verified)
    IN IF n > 0 THEN Entry("proof_captured", "verified", "measured", "proof_count", n)
       ELSE Entry("proof_captured", "unavailable", "unavailable", "proof_count", Unknown)

PreparedEntries(r) ==
    LET items == r.sections.prepared \union r.sections.next
    IN {Entry("next_run_prepared", "prepared", "inferred", "count", Cardinality(items)) : x \in items}

(* The cost when the report shows one, the number of records otherwise.    *)
CostEntries(r) ==
    IF r.count = 0 THEN {}
    ELSE IF r.canShowCost /\ Known(r.savings.cost)
         THEN {Entry("token_cost_evidence", "captured", r.savings.conf, "cost_summary", r.savings.cost)}
         ELSE {Entry("token_cost_evidence", "captured",
                     IF r.breakdown["measured"] > 0 THEN "measured"
                     ELSE IF r.breakdown["imported"] > 0 THEN "imported" ELSE "unavailable",
                     "evidence_count", r.count)}

AttentionEntries(r) ==
    {Entry("needs_attention", "needs_attention", "unavailable", "none", Unknown)
       : i \in r.sections.needsAttention}

EntriesFromProofReport(r) ==
    {ProofEntry(r)} \union ProtectedEntries(r) \union PreparedEntries(r)
                    \union CostEntries(r) \union AttentionEntries(r)

AppendValueLedgerEntry(p, ok) ==
    /\ At(p, "value")
    /\ LET source == IF p \in Sessions /\ report # {} THEN report
                     ELSE {BuildProofReport(p, "none")}
           batches == {[of |-> r.by, entries |-> EntriesFromProofReport(r)] : r \in source}
       IN ledger' = IF ok THEN ledger \o SetToSeq(batches) ELSE ledger
    /\ Write(p, ok)
    /\ UNCHANGED <<tokens, packet, report, cards, queue, imports, mine>>

(***************************************************************************)
(* The eight cards: one per category.                                      *)
(***************************************************************************)
Batches(l) == Range(l)
EntriesOf(l, category) ==
    {e \in UNION {b.entries : b \in Batches(l)} : e.category = category}

(* The best confidence there is among the entries a card stands for.       *)
BestConfidence(entries) ==
    LET order == <<"measured", "imported", "estimated", "inferred", "unavailable">>
        ranks == {i \in DOMAIN order : \E e \in entries : e.conf = order[i]}
    IN order[CHOOSE i \in ranks : \A j \in ranks : i <= j]

(* The cost card shows the first cost entry there is in the ledger.        *)
CostShown(l) ==
    LET priced(i) == {e \in l[i].entries : e.metric = "cost_summary"}
        at == {i \in DOMAIN l : priced(i) # {}}
    IN IF at = {} THEN Unknown ELSE (CHOOSE e \in priced(Min(at)) : TRUE).value

(* A card is available on an entry that carries value; the card of what    *)
(* needs attention needs none.                                             *)
CompactCard(l, category) ==
    LET matching == EntriesOf(l, category)
        carrying == {e \in matching : e.status # "unavailable" /\ e.conf # "unavailable"}
        alert == category = "needs_attention"
        shown == IF alert THEN matching ELSE carrying
    IN [title |-> category,
        status |-> IF shown = {} THEN "unavailable"
                   ELSE IF alert THEN "needs_attention" ELSE "available",
        conf |-> IF shown = {} THEN "unavailable" ELSE BestConfidence(shown),
        value |-> IF category = "token_cost_evidence" /\ shown # {} THEN CostShown(l) ELSE Unknown]

CompactValueCards ==
    [title : Categories, status : {"available", "unavailable", "needs_attention"},
     conf : Confidences, value : Maybe]

BuildCompactValueCards(l) == {CompactCard(l, c) : c \in Categories}

WriteValueCards(p, ok) ==
    /\ At(p, "cards")
    /\ cards' = IF ok THEN BuildCompactValueCards(ledger) ELSE cards
    /\ Write(p, ok)
    /\ UNCHANGED <<tokens, packet, report, ledger, queue, imports, mine>>

(* What the sync says of the ledger: how many entries of each category and *)
(* confidence, and what the cards show.                                    *)
ValueLedgerSyncMetadata(l) ==
    LET In(P(_)) == SumFunction([i \in DOMAIN l |-> Cardinality({e \in l[i].entries : P(e)})])
    IN [entryCount |-> In(LAMBDA e : TRUE),
        categories |-> [c \in Categories |-> In(LAMBDA e : e.category = c)],
        confidenceBreakdown |-> [c \in Confidences |-> In(LAMBDA e : e.conf = c)],
        cardStatuses |-> {[title |-> c.title, status |-> c.status, conf |-> c.conf]
                     : c \in BuildCompactValueCards(l)}]

(***************************************************************************)
(* Efficiency sync, dry run: projections of the records, of a report built *)
(* anew, of the ledger and of the packet are appended to the queue, those  *)
(* already there once more.                                                *)
(***************************************************************************)
FullArtifactKeys ==
    {"objective", "sections", "entries", "found", "verified", "fixedOrPrepared", "needsAttention",
     "next", "summary", "notes", "findings", "tokens", "cost", "proofMissing", "openQuestions",
     "safeNextActions", "decisionsMade", "contextSummary"}

Candidate(of, metadata) == [of |-> of, metadata |-> metadata]

CollectProjections ==
    {Candidate(t.by, TokenCostSyncMetadata(t.e)) : t \in Range(tokens)}
    \union {Candidate("proof_report", ProofReportSyncMetadata(BuildProofReport("sync", "none")))}
    \union {Candidate("value_ledger", ValueLedgerSyncMetadata(l)) : l \in {ledger} \ {<<>>}}
    \union {Candidate("continuity", [proofMissingCount |-> 1, safeNextActionCount |-> 1])
              : x \in {TRUE} \intersect {packet}}

(* What bears the name of a field of a whole artifact is held back.        *)
ScreenProjectionMetadata(metadata) == DOMAIN metadata \intersect FullArtifactKeys = {}

BuildEnvelope(candidates) ==
    [eligible |-> {c \in candidates : ScreenProjectionMetadata(c.metadata)},
     blocked |-> {c.of : c \in {d \in candidates : ~ScreenProjectionMetadata(d.metadata)}}]

WriteSyncQueue(p, ok) ==
    /\ At(p, "sync")
    /\ queue' = IF ok THEN queue \union {c.of : c \in BuildEnvelope(CollectProjections).eligible}
                ELSE queue
    /\ mine' = [mine EXCEPT ![p].queued = ok]
    /\ Write(p, ok)
    /\ UNCHANGED <<tokens, packet, report, ledger, cards, imports>>

Step(p) ==
    \/ \E ok \in BOOLEAN : \/ WriteContinuity(p, ok) \/ WriteEvidence(p, ok)
                           \/ WriteProofReport(p, ok) \/ AppendValueLedgerEntry(p, ok)
                           \/ WriteValueCards(p, ok) \/ WriteSyncQueue(p, ok)
    \/ \E outcome \in ProofOutcomes \union {"none"} : BuildReport(p, outcome)

LedgerNext ==
    \/ \E p \in Procs : Step(p)
    \/ \E in \in Imports : Import(in)

LedgerSpec == LedgerInit /\ [][LedgerNext]_ledgerVars
-----------------------------------------------------------------------------
LedgerTypeOK ==
    /\ Imports \union Earlier \subseteq TokenCostEvidenceImports
    /\ \A i \in DOMAIN tokens : /\ tokens[i].by \in Sessions \union {"import"}
                                /\ IsTokenCostEvidence(tokens[i].e)
                                /\ ValidateTokenCostEvidence(tokens[i].e)
    /\ packet \in BOOLEAN /\ Cardinality(report) <= 1
    /\ \A r \in report : DOMAIN r.sections = Sections /\ r.savings \in ProofReportSavingsSections
    /\ SummarizeTokenCostEvidence(Evidence(tokens)) \in TokenCostSummaries
    /\ Len(ledger) <= Cardinality(Sessions \union Recorders)
    /\ UNION {b.entries : b \in Batches(ledger)} \subseteq ValueLedgerEntries
    /\ cards \subseteq CompactValueCards
    /\ queue \subseteq Sessions \union {"import", "proof_report", "value_ledger", "continuity"}
    /\ imports \in 0..MaxImports /\ failures \in 0..MaxFailures
    /\ pc \in [Procs -> Range(SessionStages)]

(* What the list of records, when it was n long, says a cost is: there is  *)
(* one when a record is measured or imported, and it is the sum of all the *)
(* costs there are, which are in one currency.                             *)
Priced(ts, n) == {j \in 1..n : Known(ts[j].e.cost)}

CostAt(ts, n, v) ==
    /\ \E j \in 1..n : ts[j].e.conf \in {"measured", "imported"}
    /\ Cardinality({ts[j].e.currency : j \in Priced(ts, n)}) = 1
    /\ v = SumFunction([j \in Priced(ts, n) |-> ts[j].e.cost])

SaidAt(ts, n, e) ==
    \/ e.metric = "cost_summary" /\ CostAt(ts, n, e.value)
    \/ e.metric = "evidence_count" /\ e.value = n

(* What the value ledger says of token evidence is what the records said   *)
(* at one moment of the past, all of them at that moment and none other:   *)
(* how many there were, or what they cost.  A report that is drawn up,     *)
(* overtaken by another one or by an import, and entered by a session that *)
(* did not draw it up, still tells one state of the file; a cost that is   *)
(* not known never counts as zero, dollars are never added to euros, and   *)
(* the moment is no earlier than the record of the session whose report it *)
(* is.  The cost card shows such a cost, or none.                          *)
EntriesMatchThePast ==
    /\ \A b \in Batches(ledger) : \A e \in b.entries :
          e.category = "token_cost_evidence" =>
            \E n \in 0..Len(tokens) :
              /\ SaidAt(tokens, n, e)
              /\ b.of \in Sessions /\ mine[b.of].stored => \E i \in 1..n : tokens[i].by = b.of
    /\ \A c \in cards : Known(c.value) => \E n \in 0..Len(tokens) : CostAt(tokens, n, c.value)

(* What the comment of buildSavingsSection says (proof-report/index.ts:55):*)
(* a cost comes from measured or imported costs only.  In no run, for it   *)
(* does not hold: one imported record without a cost makes the report show *)
(* an earlier estimate, as a cost that is imported.                        *)
CostsAreFirm ==
    \A b \in Batches(ledger) : \A e \in b.entries :
      e.metric = "cost_summary" =>
        \E J \in SUBSET {j \in DOMAIN tokens : tokens[j].e.costConf \in {"measured", "imported"}} :
          e.value = SumFunction([j \in J |-> tokens[j].e.cost])

(* A session that says "unavailable" says it in time: its record, once     *)
(* written, is among what its own report counts and what its own sync      *)
(* queues, however the processes interleave and whatever else fails.       *)
OwnRecordCounted ==
    \A s \in Sessions : mine[s].stored =>
        /\ \A r \in mine[s].built : s \in r.evidence
        /\ mine[s].queued => s \in queue
=============================================================================
