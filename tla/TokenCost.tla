----------------------------- MODULE TokenCost ------------------------------
(***************************************************************************)
(* Token and cost evidence (capabilities/token-cost-evidence): how one     *)
(* record is built, checked, imported and projected for the sync, and what *)
(* a list of records adds up to.  A number that is not known is Unknown,   *)
(* never zero (null in the code; negative numbers are refused there).      *)
(*                                                                         *)
(* An input is [conf, input, output, total, cost, currency, raw]; raw says *)
(* that it has a field for raw content (a prompt, a diff, a log).  Ids,    *)
(* dates, models, notes and the counts of cached tokens are left out.      *)
(***************************************************************************)
EXTENDS Integers, Sequences, FiniteSets, Functions

Unknown == -1
Known(v) == v # Unknown
Maybe == Nat \union {Unknown}
OrZero(v) == IF Known(v) THEN v ELSE 0

Confidences == {"measured", "imported", "estimated", "inferred", "unavailable"}
NoCurrency == "none"

(***************************************************************************)
(* One record.                                                             *)
(***************************************************************************)
TokenCostSource ==
    [measured |-> "measured_runtime", imported |-> "imported_provider_usage",
     estimated |-> "estimated_context_budget", inferred |-> "inferred_from_metadata",
     unavailable |-> "unavailable"]

CostSource ==
    [measured |-> "measured", imported |-> "imported",
     estimated |-> "configured_rate_estimate", inferred |-> "configured_rate_estimate",
     unavailable |-> "unavailable"]

(* The type TokenCostEvidence, and what its labels allow: a record never   *)
(* supports a claim of savings.                                            *)
IsTokenCostEvidence(e) ==
    /\ DOMAIN e = {"source", "conf", "input", "output", "total", "cost", "currency",
                   "costConf", "costSource", "labels"}
    /\ e.conf \in Confidences /\ e.costConf \in Confidences
    /\ e.source = TokenCostSource[e.conf]
    /\ {e.input, e.output, e.total, e.cost} \subseteq Maybe
    /\ e.labels \subseteq {"cost_summary", "trend", "exact_billing"}

UnavailableEvidence ==
    [source |-> "unavailable", conf |-> "unavailable",
     input |-> Unknown, output |-> Unknown, total |-> Unknown,
     cost |-> Unknown, currency |-> NoCurrency,
     costConf |-> "unavailable", costSource |-> "unavailable", labels |-> {}]

(* The total is added up when only its parts are given.                    *)
TotalOf(in) ==
    IF ~Known(in.total) /\ (Known(in.input) \/ Known(in.output))
    THEN OrZero(in.input) + OrZero(in.output) ELSE in.total

BuildNumeric(in) ==
    LET costConf == IF Known(in.cost) THEN in.conf ELSE "unavailable"
        firm == in.conf \in {"measured", "imported"}
    IN [source |-> TokenCostSource[in.conf], conf |-> in.conf,
        input |-> in.input, output |-> in.output, total |-> TotalOf(in),
        cost |-> in.cost, currency |-> in.currency,
        costConf |-> costConf, costSource |-> CostSource[costConf],
        labels |-> (IF firm THEN {"cost_summary", "trend"} ELSE {})
                   \union (IF firm /\ Known(in.cost) THEN {"exact_billing"} ELSE {})]

(* What buildNumeric throws on, and validateTokenCostEvidence refuses.     *)
ValidateTokenCostEvidence(e) ==
    /\ e.conf = "unavailable" => \A v \in {e.input, e.output, e.total, e.cost} : ~Known(v)
    /\ e.conf \in {"measured", "imported"} => \E v \in {e.input, e.output, e.total} : Known(v)
    /\ Known(e.cost) <=> e.currency # NoCurrency

TokenCostEvidenceImports ==
    [conf : Confidences, input : Maybe, output : Maybe, total : Maybe, cost : Maybe,
     currency : STRING, raw : BOOLEAN]

(* The records an import adds: one, or none when it is refused.            *)
ImportTokenCostEvidence(in) ==
    LET e == IF in.conf = "unavailable" THEN UnavailableEvidence ELSE BuildNumeric(in)
    IN {x \in {e} : ~in.raw /\ ValidateTokenCostEvidence(x)}

(* Its only projection that may be queued: no labels, no notes.            *)
TokenCostSyncMetadata(e) ==
    [source |-> e.source, confidence |-> e.conf,
     inputTokens |-> e.input, outputTokens |-> e.output, totalTokens |-> e.total,
     costAmount |-> e.cost, currency |-> e.currency, costConfidence |-> e.costConf]

(***************************************************************************)
(* summarizeTokenCostEvidence.                                             *)
(***************************************************************************)
Counted(items, confs) == Cardinality({i \in DOMAIN items : items[i].conf \in confs})
Breakdown(items) == [c \in Confidences |-> Counted(items, {c})]

Currencies(items) == {items[i].currency : i \in DOMAIN items} \ {NoCurrency}
MixedCurrency(items) == Cardinality(Currencies(items)) > 1

(* Slip: an unknown cost is a cost of zero.                                *)
SlipUnknownIsZero(items) == SumFunction([i \in DOMAIN items |-> OrZero(items[i].cost)])

(* No total over two currencies, and none where no cost is known.          *)
TotalCost(items) ==
    LET priced == {i \in DOMAIN items : Known(items[i].cost)}
    IN IF priced = {} \/ MixedCurrency(items) THEN Unknown
       ELSE SumFunction([i \in priced |-> items[i].cost])

(* All three totals are shown as soon as one number of tokens is known:    *)
(* a total of which no record says anything is then a zero.                *)
TotalTokens(items) ==
    LET any == \E i \in DOMAIN items, f \in {"input", "output", "total"} : Known(items[i][f])
    IN [f \in {"input", "output", "total"} |->
          IF any THEN SumFunction([i \in DOMAIN items |-> OrZero(items[i][f])]) ELSE Unknown]

CanShowCostSummary(items) == Counted(items, {"measured", "imported"}) > 0

SummarizeTokenCostEvidence(items) ==
    [tokens |-> TotalTokens(items), cost |-> TotalCost(items),
     currency |-> IF Cardinality(Currencies(items)) = 1
                  THEN CHOOSE c \in Currencies(items) : TRUE ELSE NoCurrency,
     mixed |-> MixedCurrency(items), breakdown |-> Breakdown(items),
     canUseForCostSummary |-> CanShowCostSummary(items)]

TokenCostSummaries ==
    [tokens : [{"input", "output", "total"} -> Maybe], cost : Maybe, currency : STRING,
     mixed : BOOLEAN, breakdown : [Confidences -> Nat], canUseForCostSummary : BOOLEAN]
=============================================================================
