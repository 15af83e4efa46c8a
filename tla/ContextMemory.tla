---------------------------- MODULE ContextMemory ----------------------------
(***************************************************************************)
(* Trusted context (kernel/context-control): what an agent is told about   *)
(* the repository.  A brief turns the sources found into items, decides    *)
(* which of them count as true, finds what contradicts what, and fits the  *)
(* promoted ones into a budget.  The commands `context promote` and        *)
(* `context forget` change single items afterwards.  Each command loads    *)
(* all of items.jsonl, and writes all of it, without a lock.               *)
(*                                                                         *)
(* A text is the set of the pattern families it matches:                   *)
(*   unverified ready   UNVERIFIED_READY_PATTERNS of promotion.ts          *)
(*   ready claim        readyClaims of promote-forget.ts                   *)
(*   production, deploy missing, finished       conflicts.ts               *)
(*   prohibits, permits                         hasConflictingContent      *)
(* A source has sections; each is one item, found by its place in the list.*)
(* Discovery finds no source of kind git or external, so the rules for     *)
(* those, and the conflict between tests and a dirty worktree, are left    *)
(* out, and so are the wording of the brief, mode.json and state.json.     *)
(***************************************************************************)
EXTENDS Naturals, SequencesExt, FiniteSetsExt

CONSTANTS Discoveries,    \* what a brief may start from: the list of sections that
                          \* discovery finds, and the signals of the mode of work
          Commands,       \* processes that run commands
          Evidence,       \* receipt ids a user may name
          MaxTokens,      \* DEFAULT_MAX_TOKENS
          Reserved,       \* DEFAULT_RESERVED, tier by tier
          MaxReceipts,    \* MAX_RECEIPTS
          MaxRuns         \* bound: commands run

(* A section of a source, as discovery may find it.                        *)
SourceKinds == {"file", "receipt", "dashboard_state", "policy"}
ItemTypes == {"instruction", "policy", "decision", "proof", "constraint", "handoff", "release_state",
              "workstream_state", "risk_signal", "dependency", "artifact"}
Freshness == {"current", "recent", "stale", "expired"}

IsSource(s) ==
    /\ s.kind \in SourceKinds /\ s.type \in ItemTypes /\ s.age \in Freshness
    /\ s.tokens \in Nat
    /\ {s.claude, s.impact, s.json, s.unreadable, s.secret, s.sensitive} \subseteq BOOLEAN

ASSUME DiscoveryAssumption ==
    \A d \in Discoveries :
        /\ d.sections \in Seq({d.sections[i] : i \in DOMAIN d.sections})
        /\ \A i \in DOMAIN d.sections : IsSource(d.sections[i])
ASSUME BoundsAssumption == MaxReceipts \in Nat /\ MaxRuns \in Nat

VARIABLES items,      \* items.jsonl
          receipts,   \* receipts/context: [type, n], n counts all that were written
          latest,     \* work-briefs/latest.md: a set of at most one brief
          run,        \* what each process does
          briefs, runs, written,  \* briefs begun, commands run, receipts written
          forgotten,  \* history: items a forget command has stored
          raced       \* history: two commands have run at once

vars == <<items, receipts, latest, run, briefs, runs, written, forgotten, raced>>

Types == <<"agent_context_decision_receipt", "context_conflict_receipt",
           "context_exclusion_receipt", "memory_promotion_receipt", "work_brief_receipt">>

(***************************************************************************)
(* Items: normalization.ts and trust.ts.                                   *)
(***************************************************************************)

NeedsRedaction(s) == s.unreadable \/ s.secret \/ s.sensitive
HasSecret(s) == s.unreadable \/ s.secret

InferTrust(s) ==
    IF HasSecret(s) THEN "unsafe"
    ELSE [receipt |-> "verified", policy |-> "confirmed",
          dashboard_state |-> "confirmed", file |-> "inferred"][s.kind]

NewItem(id, s) ==
    [id |-> id, src |-> s, status |-> "candidate", level |-> InferTrust(s),
     evidence |-> IF s.kind = "receipt" /\ s.json /\ ~s.unreadable THEN {"source"} ELSE {},
     visible |-> ~NeedsRedaction(s)]

NormalizeSources(found, gen) == [i \in DOMAIN found |-> NewItem(<<gen, i>>, found[i])]

ScoreTrust(it) ==
    IF NeedsRedaction(it.src) THEN "unsafe" ELSE
    IF it.src.kind = "receipt" THEN "verified" ELSE
    IF it.src.kind \in {"policy", "dashboard_state"} \/ it.src.type = "instruction" THEN "confirmed"
    ELSE it.level

(* trustBeats; the confidence tells two unsafe items apart.                *)
TrustRank(it) ==
    IF HasSecret(it.src) THEN 1
    ELSE [unsafe |-> 0, inferred |-> 3, confirmed |-> 4, verified |-> 5][ScoreTrust(it)]
TrustBeats(a, b) == TrustRank(a) > TrustRank(b)

(* Slip: a claim of readiness is believed when it is fresh.                *)
SlipFreshClaims(it) ==
    LET trust == ScoreTrust(it) IN
    IF trust = "unsafe" THEN "mark_unsafe" ELSE
    IF it.src.age = "expired" THEN "reject" ELSE
    IF it.src.age = "stale" /\ trust # "verified" THEN "mark_unverified" ELSE "promote"

(* An inferred item that comes to the last line is current or recent.      *)
EvaluatePromotion(it) ==
    LET trust == ScoreTrust(it) IN
    IF trust = "unsafe" THEN "mark_unsafe" ELSE
    IF "unverified ready" \in it.src.says /\ trust # "verified" THEN "reject" ELSE
    IF it.src.age = "expired" THEN "reject" ELSE
    IF it.src.age = "stale" /\ trust # "verified" THEN "mark_unverified" ELSE "promote"

Promotes(it) == EvaluatePromotion(it) = "promote"

(***************************************************************************)
(* Conflicts between items: conflicts.ts, of the ids in conflict.          *)
(***************************************************************************)

ProductionStatusConflicts(its) ==
    {<<"production_status_conflict", {pair[1].id, pair[2].id}>> : pair \in
        {x \in its \X its : "production" \in x[1].src.says /\ "deploy missing" \in x[2].src.says}}

IsPolicy(it) == it.src.type = "policy" \/ it.src.claude

ConflictingContent(a, b) ==
    LET differ(p) == (p \in a.src.says) # (p \in b.src.says) IN
    \/ differ("prohibits")
    \/ differ("permits") /\ "prohibits" \in a.src.says

InstructionConflicts(its) ==
    LET told == {it \in its : it.src.type \in {"instruction", "policy"}} IN
    {<<"instruction_conflict", {pair[1].id, pair[2].id}>> : pair \in
        {x \in told \X told : /\ x[1].src.path # x[2].src.path
                              /\ IsPolicy(x[1]) /\ ~IsPolicy(x[2])
                              /\ ConflictingContent(x[1], x[2])}}

(* One conflict per stale handoff, with the first item that beats it.      *)
HandoffConflicts(its) ==
    {<<"stale_handoff_conflict", {h.id}>> : h \in
        {x \in its : /\ x.src.type = "handoff" /\ x.src.age \in {"stale", "expired"}
                     /\ \E s \in its : /\ s.src.kind \in {"receipt", "dashboard_state"}
                                       /\ TrustBeats(s, x)}}

(* No item has a feature, so any verified proof settles every claim.       *)
MissingProofConflicts(its) ==
    {<<"missing_proof_conflict", {c.id}>> : c \in
        {x \in its : /\ "finished" \in x.src.says /\ x.level # "verified"
                     /\ ~\E p \in its : p.src.type = "proof" /\ p.level = "verified"}}

DetectConflicts(its) ==
    ProductionStatusConflicts(its) \union InstructionConflicts(its)
        \union HandoffConflicts(its) \union MissingProofConflicts(its)

(***************************************************************************)
(* The budget: budget.ts.                                                  *)
(***************************************************************************)

IsSafety(it) == it.src.type \in {"constraint", "policy"} \/ it.src.impact

Tier(it) ==
    IF IsSafety(it) THEN 1 ELSE IF it.level = "verified" THEN 2 ELSE
    IF it.src.type = "proof" THEN 3 ELSE
    IF it.src.type \in {"workstream_state", "release_state"} THEN 4 ELSE 5

(* The promoted items, by their places, are offered tier by tier.          *)
Offered(its) == {i \in DOMAIN its : Promotes(its[i])}
OfferedBefore(its, i) ==
    {j \in Offered(its) : \/ Tier(its[j]) < Tier(its[i])
                          \/ Tier(its[j]) = Tier(its[i]) /\ j < i}

Tokens(its, places) == MapThenSumSet(LAMBDA i : its[i].src.tokens, places)

(* Whether an item fits next to those that were taken in before it.        *)
Fits(its) ==
    LET fits[i \in DOMAIN its] ==
            LET taken == {j \in OfferedBefore(its, i) : fits[j]}
                sameTier == {j \in taken : Tier(its[j]) = Tier(its[i])}
            IN  /\ Tokens(its, taken \union {i}) <= MaxTokens
                /\ Tokens(its, sameTier \union {i}) <= Reserved[Tier(its[i])]
    IN  fits

AllocateBudget(its) ==
    LET taken == {i \in Offered(its) : Fits(its)[i]}
    IN  [included |-> {its[i].id : i \in taken},
         excluded |-> {its[i].id : i \in (DOMAIN its) \ taken}]

(***************************************************************************)
(* The mode of work: mode-detection.ts.  The commands pass a branch, a     *)
(* task and whether there is an activation state, never an approval.       *)
(***************************************************************************)

Modes == <<"feature_development", "bugfix", "release_verification", "production_release",
           "qa_proof", "security_guard", "activation_support", "docs_product">>

(* Tenths for each signal that speaks for the mode.                        *)
Points ==
    [feature_development |-> "feature branch" :> 4 @@ "src changed" :> 2 @@ "build words" :> 2
                             @@ "no release receipt" :> 1,
     bugfix |-> "fix branch" :> 4 @@ "fix words" :> 3 @@ "tests fail" :> 2,
     release_verification |-> "release branch" :> 4 @@ "version changed" :> 3 @@ "release words" :> 2,
     production_release |-> "approved" :> 5 @@ "ship words" :> 2 @@ "ship command" :> 2,
     qa_proof |-> "qa words" :> 3 @@ "test command" :> 2 @@ "tests changed" :> 3,
     security_guard |-> "findings" :> 4 @@ "security words" :> 3 @@ "security branch" :> 2,
     activation_support |-> "activated" :> 1 @@ "activation words" :> 3 @@ "activation changed" :> 3,
     docs_product |-> "docs changed" :> 4 @@ "docs words" :> 3 @@ "docs branch" :> 2]

Score(mode, signals) ==
    MapThenSumSet(LAMBDA s : Points[mode][s], signals \intersect DOMAIN Points[mode])

(* The best score wins, the earlier mode on a tie; confidence in percent.  *)
DetectWorkMode(signals) ==
    LET score(i) == Score(Modes[i], signals)
        best == CHOOSE i \in DOMAIN Modes : \A j \in DOMAIN Modes :
                    score(j) < score(i) \/ (score(j) = score(i) /\ i <= j)
    IN  CASE score(best) < 3 -> [mode |-> "unknown", confidence |-> 20]
          [] score(best) >= 3 /\ Modes[best] = "production_release" /\ "approved" \notin signals ->
                [mode |-> "release_verification", confidence |-> 8 * score(best)]
          [] OTHER -> [mode |-> Modes[best], confidence |-> 10 * score(best)]

(* MODE_SAFETY: what the mode forbids.  Docs forbid nothing, and where     *)
(* releases are verified or made production is not blocked.                *)
SafetyConstraints(mode) ==
    (IF mode \in {"release_verification", "production_release", "docs_product"}
     THEN {} ELSE {"production blocked"})
    \union
    CASE mode \in {"feature_development", "bugfix"} -> {"publish blocked"}
      [] mode = "release_verification" -> {"publish needs approval"}
      [] mode = "production_release" -> {"approval required", "tests must pass"}
      [] mode = "security_guard" -> {"secrets blocked"}
      [] mode = "unknown" -> {"publish blocked", "deploy blocked"}
      [] OTHER -> {}

RequiredProof ==
    [feature_development |-> {"targeted tests", "receipt", "conflicts checked"},
     bugfix |-> {"regression tests", "root cause", "receipt"},
     release_verification |-> {"full tests", "verification receipt", "readiness check"},
     production_release |-> {"production receipt", "approval receipt", "full tests"},
     qa_proof |-> {"test evidence", "proof receipt"},
     security_guard |-> {"security scan receipt", "no secret findings"},
     activation_support |-> {"activation receipt"}, docs_product |-> {"docs reviewed"},
     unknown |-> {"targeted tests", "receipt"}]

(***************************************************************************)
(* Storage: storage.ts.                                                    *)
(***************************************************************************)

RankOf(type) == CHOOSE k \in DOMAIN Types : Types[k] = type

(* Receipts sort by file name: the type, then the time.                    *)
Precedes(a, b) == \/ RankOf(a.type) < RankOf(b.type)
                  \/ a.type = b.type /\ a.n < b.n

(* pruneReceipts keeps the last names.                                     *)
Pruned(all) == {r \in all : Cardinality({q \in all : Precedes(r, q)}) < MaxReceipts}

StoreContextReceipt(type) ==
    /\ written' = written + 1
    /\ receipts' = Pruned(receipts \union {[type |-> type, n |-> written + 1]})

Idle == [step |-> "idle"]

(* items.jsonl is written in place: a command killed in the middle leaves  *)
(* the lines before the cut, or nothing that parses.                       *)
Cut(its) == {[i \in 1..k |-> its[i]] : k \in 0..Len(its)}

Init ==
    /\ items = <<>> /\ receipts = {} /\ latest = {}
    /\ run = [c \in Commands |-> Idle]
    /\ briefs = 0 /\ runs = 0 /\ written = 0
    /\ forgotten = {} /\ raced = FALSE

At(c, step) == run[c].step = step
Becomes(c, r) == run' = [run EXCEPT ![c] = r]
Goes(c, step) == run' = [run EXCEPT ![c].step = step]

(* A command starts; raced if another one is under way.                    *)
Starts(c) ==
    /\ At(c, "idle")
    /\ runs < MaxRuns
    /\ runs' = runs + 1
    /\ raced' = (raced \/ \E d \in Commands \ {c} : ~At(d, "idle"))

(***************************************************************************)
(* brief and context verify: generateBrief.                                *)
(***************************************************************************)
Discover(c, found) ==
    /\ Starts(c)
    /\ briefs' = briefs + 1
    /\ Becomes(c, [step |-> "store", its |-> NormalizeSources(found.sections, briefs + 1),
                   mode |-> DetectWorkMode(found.signals).mode])
    /\ UNCHANGED <<items, receipts, latest, written, forgotten>>

StoreItems(c) ==
    /\ At(c, "store")
    /\ items' = run[c].its
    /\ Goes(c, "promotion")
    /\ UNCHANGED <<receipts, latest, briefs, runs, written, forgotten, raced>>

PromotionReceipt(c) ==
    /\ At(c, "promotion")
    /\ StoreContextReceipt("memory_promotion_receipt")
    /\ Goes(c, "conflict")
    /\ UNCHANGED <<items, latest, briefs, runs, forgotten, raced>>

ConflictReceipt(c) ==
    /\ At(c, "conflict")
    /\ IF DetectConflicts(Range(run[c].its)) # {}
       THEN StoreContextReceipt("context_conflict_receipt") ELSE UNCHANGED <<receipts, written>>
    /\ Goes(c, "exclusion")
    /\ UNCHANGED <<items, latest, briefs, runs, forgotten, raced>>

(* What did not fit the budget is in no exclusion receipt.                 *)
ExclusionReceipt(c) ==
    /\ At(c, "exclusion")
    /\ IF \E it \in Range(run[c].its) : ~Promotes(it)
       THEN StoreContextReceipt("context_exclusion_receipt") ELSE UNCHANGED <<receipts, written>>
    /\ Goes(c, "brief")
    /\ UNCHANGED <<items, latest, briefs, runs, forgotten, raced>>

(* The constraints to follow are those of the items, or else of the mode.  *)
CompileBrief(its, mode) ==
    LET budget == AllocateBudget(its)
        told == {it.id : it \in {x \in Range(its) : IsSafety(x) /\ x.id \in budget.included}}
    IN  [its |-> its, budget |-> budget, conflicts |-> DetectConflicts(Range(its)), mode |-> mode,
         mustFollow |-> told, fallback |-> IF told = {} THEN SafetyConstraints(mode) ELSE {},
         working |-> SafetyConstraints(mode), proof |-> RequiredProof[mode]]

StoreBrief(c) ==
    /\ At(c, "brief")
    /\ latest' = {CompileBrief(run[c].its, run[c].mode)}
    /\ Goes(c, "seal")
    /\ UNCHANGED <<items, receipts, briefs, runs, written, forgotten, raced>>

BriefReceipt(c) ==
    /\ At(c, "seal")
    /\ StoreContextReceipt("work_brief_receipt")
    /\ Becomes(c, [step |-> "answer", receipt |-> written'])
    /\ UNCHANGED <<items, latest, briefs, runs, forgotten, raced>>

(***************************************************************************)
(* context promote and context forget.                                     *)
(***************************************************************************)

(* loadItems.  ev holds the receipts named with --evidence; a forget names *)
(* what supersedes the item, or nothing.                                   *)
Load(c, op, id, ev) ==
    /\ Starts(c)
    /\ Becomes(c, [step |-> op, its |-> items, id |-> id, ev |-> ev])
    /\ UNCHANGED <<items, receipts, latest, briefs, written, forgotten>>

(* Slip: only what is known to hold a secret is refused.                   *)
SlipOnlySecretsRefused(it, ev) ==
    \/ HasSecret(it.src)
    \/ "ready claim" \in it.src.says /\ ev = {}

(* promoteItem asks neither whether the item was forgotten, nor whether it *)
(* is stale or contradicted.                                               *)
Refused(it, ev) ==
    \/ HasSecret(it.src) \/ ScoreTrust(it) = "unsafe" \/ EvaluatePromotion(it) = "mark_unsafe"
    \/ "ready claim" \in it.src.says /\ ev = {}

Promoted(it, ev) ==
    [it EXCEPT !.status = "promoted", !.level = IF ev = {} THEN "confirmed" ELSE "verified",
               !.evidence = @ \union ev]

(* Slip: a superseded item stays visible.                                  *)
SlipSupersededVisible(it, ev) ==
    [it EXCEPT !.status = IF ev = {} THEN "forgotten" ELSE "superseded",
               !.visible = @ /\ ev # {}]

Forgotten(it, ev) ==
    [it EXCEPT !.status = IF ev = {} THEN "forgotten" ELSE "superseded", !.visible = FALSE]

(* The item the command is about, unless it is not there or is refused.    *)
Places(r) ==
    {i \in DOMAIN r.its : r.its[i].id = r.id /\ (r.step = "promote" => ~Refused(r.its[i], r.ev))}

(* What the command writes: all it has loaded, with that item changed.     *)
Changed(r) ==
    [i \in DOMAIN r.its |->
        IF i \notin Places(r) THEN r.its[i] ELSE
        IF r.step = "promote" THEN Promoted(r.its[i], r.ev) ELSE Forgotten(r.its[i], r.ev)]

PromoteItem(c) ==
    /\ At(c, "promote")
    /\ items' = IF Places(run[c]) = {} THEN items ELSE Changed(run[c])
    /\ Goes(c, "decided")
    /\ UNCHANGED <<receipts, latest, briefs, runs, written, forgotten, raced>>

ForgetItem(c) ==
    /\ At(c, "forget")
    /\ items' = IF Places(run[c]) = {} THEN items ELSE Changed(run[c])
    /\ forgotten' = forgotten \union {id \in {run[c].id} : Places(run[c]) # {}}
    /\ Goes(c, "decided")
    /\ UNCHANGED <<receipts, latest, briefs, runs, written, raced>>

(* createPromoteForgetReceipt, after every attempt.                        *)
DecisionReceipt(c) ==
    /\ At(c, "decided")
    /\ StoreContextReceipt("agent_context_decision_receipt")
    /\ Becomes(c, [step |-> "answer", receipt |-> written'])
    /\ UNCHANGED <<items, latest, briefs, runs, forgotten, raced>>

(* The command prints the id of its receipt and ends.                      *)
Answer(c) ==
    /\ At(c, "answer")
    /\ Becomes(c, Idle)
    /\ UNCHANGED <<items, receipts, latest, briefs, runs, written, forgotten, raced>>

(* A command is killed, after a step or inside the write of items.jsonl.   *)
Kill(c) ==
    /\ ~At(c, "idle")
    /\ Becomes(c, Idle)
    /\ items' \in {items} \union
           CASE At(c, "store") -> Cut(run[c].its)
             [] run[c].step \in {"promote", "forget"} /\ Places(run[c]) # {} -> Cut(Changed(run[c]))
             [] OTHER -> {}
    /\ UNCHANGED <<receipts, latest, briefs, runs, written, forgotten, raced>>

AllIds == {<<g, i>> : g \in 1..briefs, i \in 1..Max({Len(d.sections) : d \in Discoveries})}

Next ==
    \E c \in Commands :
        \/ \E found \in Discoveries : Discover(c, found)
        \/ StoreItems(c) \/ PromotionReceipt(c) \/ ConflictReceipt(c) \/ ExclusionReceipt(c)
        \/ StoreBrief(c) \/ BriefReceipt(c)
        \/ \E op \in {"promote", "forget"}, id \in AllIds, ev \in SUBSET Evidence : Load(c, op, id, ev)
        \/ PromoteItem(c) \/ ForgetItem(c) \/ DecisionReceipt(c) \/ Answer(c)
        \/ Kill(c)

Spec == Init /\ [][Next]_vars
-----------------------------------------------------------------------------
TrustLevels == {"verified", "confirmed", "inferred", "unsafe"}
Statuses == {"candidate", "promoted", "forgotten", "superseded"}
ConflictTypes == {"production_status_conflict", "instruction_conflict", "stale_handoff_conflict",
                  "missing_proof_conflict"}

IsItem(it) ==
    /\ it.id[1] \in 1..briefs /\ IsSource(it.src)
    /\ it.status \in Statuses /\ it.level \in TrustLevels
    /\ it.evidence \subseteq Evidence \union {"source"}
    /\ it.visible \in BOOLEAN

IsBudget(budget, ids) ==
    /\ budget.included \union budget.excluded = ids
    /\ budget.included \intersect budget.excluded = {}

IsConflict(x, ids) == x[1] \in ConflictTypes /\ x[2] \subseteq ids

IsBrief(b) ==
    LET ids == {it.id : it \in Range(b.its)}
    IN  /\ \A it \in Range(b.its) : IsItem(it)
        /\ IsBudget(b.budget, ids) /\ \A x \in b.conflicts : IsConflict(x, ids)
        /\ b.mustFollow \subseteq ids

ContextReceipts == [type : Range(Types), n : 1..written]

(* The items on disk are of one brief, and the receipts stay within their  *)
(* limit.                                                                  *)
ItemsTyped == \A i \in DOMAIN items : IsItem(items[i]) /\ items[i].id = <<items[1].id[1], i>>
ReceiptsTyped == receipts \subseteq ContextReceipts /\ Cardinality(receipts) <= MaxReceipts
BriefsTyped == \A b \in latest : IsBrief(b)
ModesTyped == \A b \in latest : b.mode \in DOMAIN RequiredProof
RunsTyped ==
    /\ \A c \in Commands : run[c].step \in {"idle", "store", "promotion", "conflict", "exclusion",
                                 "brief", "seal", "promote", "forget", "decided", "answer"}
    /\ briefs <= runs /\ runs <= MaxRuns /\ raced \in BOOLEAN

TypeOK == ItemsTyped /\ ReceiptsTyped /\ BriefsTyped /\ ModesTyped /\ RunsTyped

Included(b) == {it \in Range(b.its) : it.id \in b.budget.included}

(* What holds a secret or needs redaction is never promoted, by a brief or *)
(* by hand, never shown to an agent and never in a brief, whichever        *)
(* commands overlap or are killed (evaluatePromotion, promoteItem).        *)
SecretsKeptOut ==
    /\ \A it \in Range(items) : NeedsRedaction(it.src) => it.status # "promoted" /\ ~it.visible
    /\ \A b \in latest : \A it \in Included(b) : ~NeedsRedaction(it.src)

(* A claim of readiness counts as true only with evidence: in a brief when *)
(* a receipt file makes it, by hand when the user names one.  The two ask for   *)
(* different words (promotion.ts, promote-forget.ts).                      *)
ClaimsHaveEvidence ==
    /\ \A it \in Range(items) :
          it.status = "promoted" /\ "ready claim" \in it.src.says => it.evidence # {}
    /\ \A b \in latest : \A it \in Included(b) :
          "unverified ready" \in it.src.says => it.level = "verified"

(* What the user has had forgotten stays hidden from agents, also when it  *)
(* is promoted afterwards, until a brief makes new items of the sources;   *)
(* two commands at once may lose it (forgetItem).                          *)
ForgottenHidden ==
    ~raced => \A it \in Range(items) : it.id \in forgotten => ~it.visible

=============================================================================
