------------------------ MODULE ContextMemory_proofs ------------------------
(***************************************************************************)
(* Theorems about trusted context: what never reaches an agent, and what a *)
(* claim needs to count as true.                                           *)
(***************************************************************************)
EXTENDS ContextMemory, FiniteSetTheorems, WellFoundedInduction, TLAPS

BriefSteps == {"store", "promotion", "conflict", "exclusion", "brief"}

Listed(its) == its \in Seq({its[i] : i \in DOMAIN its})

(* An item that may be on disk.                                            *)
ItemFine(it) ==
    /\ DOMAIN it = {"id", "src", "status", "level", "evidence", "visible"}
    /\ NeedsRedaction(it.src) => it.status # "promoted" /\ ~it.visible
    /\ it.status = "promoted" /\ "ready claim" \in it.src.says => it.evidence # {}

ItemsFine(its) == Listed(its) /\ \A i \in DOMAIN its : ItemFine(its[i])

(* An item of a brief is new, and its number is its place in the list.     *)
ItemsNew(its) ==
    Listed(its) /\ \A i \in DOMAIN its :
        its[i] = NewItem(its[i].id, its[i].src) /\ its[i].id = <<its[i].id[1], i>>

(* What a command holds in memory between two of its steps.                *)
RunFits(r) ==
    /\ r.step \in BriefSteps => DOMAIN r = {"step", "its", "mode"} /\ ItemsNew(r.its)
    /\ r.step \in {"promote", "forget"} =>
         DOMAIN r = {"step", "its", "id", "ev"} /\ ItemsFine(r.its)

BriefFine(b) ==
    \A it \in Included(b) :
        /\ ~NeedsRedaction(it.src)
        /\ "unverified ready" \in it.src.says => it.level = "verified"

MemoryInv ==
    /\ ItemsFine(items)
    /\ \A b \in latest : BriefFine(b)
    /\ run = [c \in Commands |-> run[c]]
    /\ \A c \in Commands : RunFits(run[c])
    /\ briefs \in Nat

(* Without two commands at once: no number is given twice, and a command   *)
(* that changes an item has in memory what is on disk.                     *)
LoneInv ==
    ~raced =>
        /\ \A c, d \in Commands : run[c].step # "idle" /\ run[d].step # "idle" => c = d
        /\ \A i \in DOMAIN items : items[i].id[1] \in 1..briefs
        /\ \A id \in forgotten : id[1] \in 1..briefs
        /\ \A i \in DOMAIN items : items[i].id \in forgotten => ~items[i].visible
        /\ \A c \in Commands :
             /\ run[c].step = "store" =>
                  \A i \in DOMAIN run[c].its :
                      run[c].its[i].id[1] \in 1..briefs /\ run[c].its[i].id \notin forgotten
             /\ run[c].step \in {"promote", "forget"} => run[c].its = items
-----------------------------------------------------------------------------
(* Items.                                                                  *)

(* A function on the numbers up to some n is a list.                       *)
LEMMA ListOf ==
    ASSUME NEW n \in Nat, NEW new, new = [i \in 1..n |-> new[i]]
    PROVE  Listed(new)
<1> DEFINE S == {new[i] : i \in 1..n}
<1>1. \A i \in 1..n : new[i] \in S
  OBVIOUS
<1>2. DOMAIN new = 1..n /\ S = {new[i] : i \in DOMAIN new}
  OBVIOUS
<1> HIDE DEF S
<1>3. new \in [1..n -> S]
  BY <1>1
<1>4. new \in Seq(S)
  BY <1>3
<1> QED
  BY <1>2, <1>4 DEF Listed

(* A list with as many entries as a list is a list.                        *)
LEMMA SameLength ==
    ASSUME NEW its, Listed(its), NEW new, new = [i \in DOMAIN its |-> new[i]]
    PROVE  Listed(new)
<1>1. Len(its) \in Nat /\ DOMAIN its = 1..Len(its)
  BY DEF Listed
<1> QED
  BY <1>1, ListOf

(* A prefix of a list of fine items is one.                                *)
LEMMA CutFine ==
    ASSUME NEW its, ItemsFine(its), NEW new \in Cut(its)
    PROVE  /\ ItemsFine(new)
           /\ \A i \in DOMAIN new : i \in DOMAIN its /\ new[i] = its[i]
<1>1. Len(its) \in Nat /\ DOMAIN its = 1..Len(its)
  BY DEF ItemsFine, Listed
<1>2. PICK k \in 0..Len(its) : new = [i \in 1..k |-> its[i]]
  BY DEF Cut
<1>3. k \in Nat /\ 1..k \subseteq DOMAIN its
  BY <1>1
<1>4. DOMAIN new = 1..k /\ new = [i \in 1..k |-> new[i]]
  BY <1>2
<1>5. Listed(new)
  BY <1>3, <1>4, ListOf
<1>6. \A i \in DOMAIN new : i \in DOMAIN its /\ new[i] = its[i]
  BY <1>2, <1>3, <1>4
<1> QED
  BY <1>5, <1>6 DEF ItemsFine

(* What a brief promotes holds nothing that needs redaction.               *)
LEMMA PromotesClean ==
    ASSUME NEW it, Promotes(it)
    PROVE  ~NeedsRedaction(it.src)
BY DEF Promotes, EvaluatePromotion, ScoreTrust

(* A new item that claims readiness is promoted when a receipt makes the   *)
(* claim, and then it counts as verified.                                  *)
LEMMA NewClaimsVerified ==
    ASSUME NEW id, NEW s, NEW it, it = NewItem(id, s), Promotes(it),
           "unverified ready" \in it.src.says
    PROVE  it.level = "verified"
<1>1. it.src = s /\ it.level = InferTrust(s)
  BY DEF NewItem
<1>2. ~NeedsRedaction(s)
  BY <1>1, PromotesClean
<1>3. ScoreTrust(it) = "verified"
  BY DEF Promotes, EvaluatePromotion
<1>4. CASE s.kind = "receipt"
  <2>1. ~HasSecret(s)
    BY <1>2 DEF NeedsRedaction, HasSecret
  <2>2. InferTrust(s) = [receipt |-> "verified", policy |-> "confirmed",
                         dashboard_state |-> "confirmed", file |-> "inferred"].receipt
    BY <1>4, <2>1 DEF InferTrust
  <2> QED
    BY <1>1, <2>2
<1>5. CASE s.kind # "receipt"
  BY <1>1, <1>2, <1>3, <1>5 DEF ScoreTrust
<1> QED
  BY <1>4, <1>5

(* New items may be stored.                                                *)
LEMMA NewIsFine == ASSUME NEW its, ItemsNew(its) PROVE ItemsFine(its)
<1>1. \A id, s : ItemFine(NewItem(id, s))
  BY DEF NewItem, ItemFine
<1> QED
  BY <1>1 DEF ItemsNew, ItemsFine

(* The items of a brief are new, and numbered.                             *)
LEMMA NormalizedNew ==
    ASSUME NEW d \in Discoveries, NEW gen
    PROVE  /\ ItemsNew(NormalizeSources(d.sections, gen))
           /\ \A i \in DOMAIN NormalizeSources(d.sections, gen) :
                 NormalizeSources(d.sections, gen)[i].id = <<gen, i>>
<1> DEFINE found == d.sections
           its == NormalizeSources(found, gen)
<1>1. Listed(found)
  BY DiscoveryAssumption DEF Listed
<1>2. DOMAIN its = DOMAIN found /\ its = [i \in DOMAIN found |-> its[i]]
  BY DEF NormalizeSources
<1>3. \A i \in DOMAIN its : its[i] = NewItem(<<gen, i>>, found[i])
  BY DEF NormalizeSources
<1> HIDE DEF found, its
<1>4. Listed(its)
  BY <1>1, <1>2, SameLength
<1>5. \A i \in DOMAIN its : its[i].id = <<gen, i>> /\ its[i].src = found[i]
  BY <1>3 DEF NewItem
<1>6. \A i \in DOMAIN its : its[i] = NewItem(its[i].id, its[i].src) /\ its[i].id = <<its[i].id[1], i>>
  BY <1>3, <1>5
<1>7. ItemsNew(its)
  BY <1>4, <1>6 DEF ItemsNew
<1> QED
  BY <1>5, <1>7 DEF its, found

(* No brief includes an item that it does not promote: an item is found by *)
(* its number, and no two items have the same.                             *)
LEMMA CompiledFine ==
    ASSUME NEW its, ItemsNew(its), NEW mode
    PROVE  BriefFine(CompileBrief(its, mode))
<1> DEFINE b == CompileBrief(its, mode)
<1>1. b.its = its /\ b.budget = AllocateBudget(its)
  BY DEF CompileBrief
<1>2. AllocateBudget(its).included \subseteq {its[i].id : i \in {j \in DOMAIN its : Promotes(its[j])}}
  BY DEF AllocateBudget, Offered
<1> HIDE DEF b
<1> SUFFICES ASSUME NEW it \in Included(b)
             PROVE  ~NeedsRedaction(it.src) /\ ("unverified ready" \in it.src.says => it.level = "verified")
  BY DEF BriefFine, b
<1>3. PICK j \in DOMAIN its : it = its[j]
  BY <1>1 DEF Included, Range
<1>4. PICK i \in DOMAIN its : Promotes(its[i]) /\ its[i].id = it.id
  BY <1>1, <1>2 DEF Included
<1>5. i = j
  BY <1>3, <1>4 DEF ItemsNew
<1>6. it = NewItem(it.id, it.src) /\ Promotes(it)
  BY <1>3, <1>4, <1>5 DEF ItemsNew
<1> QED
  BY <1>6, PromotesClean, NewClaimsVerified

(* Promoting and forgetting keep an item fine.                             *)
LEMMA PromotedFine ==
    ASSUME NEW it, ItemFine(it), NEW ev, ~Refused(it, ev)
    PROVE  /\ ItemFine(Promoted(it, ev)) /\ Promoted(it, ev).id = it.id
           /\ Promoted(it, ev).visible = it.visible
<1>1. ~NeedsRedaction(it.src) /\ ("ready claim" \in it.src.says => ev # {})
  BY DEF Refused, ScoreTrust
<1>2. /\ DOMAIN Promoted(it, ev) = DOMAIN it
      /\ Promoted(it, ev).id = it.id /\ Promoted(it, ev).src = it.src
      /\ Promoted(it, ev).visible = it.visible
      /\ Promoted(it, ev).evidence = it.evidence \union ev
  BY DEF ItemFine, Promoted
<1>3. ev # {} => it.evidence \union ev # {}
  OBVIOUS
<1> QED
  BY <1>1, <1>2, <1>3 DEF ItemFine

(* Forgetting hides the item.                                              *)
LEMMA ForgottenFine ==
    ASSUME NEW it, ItemFine(it), NEW ev
    PROVE  ItemFine(Forgotten(it, ev)) /\ Forgotten(it, ev).id = it.id /\ ~Forgotten(it, ev).visible
<1>1. /\ DOMAIN Forgotten(it, ev) = DOMAIN it
      /\ Forgotten(it, ev).id = it.id /\ Forgotten(it, ev).src = it.src
      /\ Forgotten(it, ev).visible = FALSE /\ Forgotten(it, ev).status # "promoted"
  BY DEF ItemFine, Forgotten
<1> QED
  BY <1>1 DEF ItemFine

(* What a command writes is a list of fine items, with the same numbers;   *)
(* only forgetting changes what is visible.                                *)
LEMMA ChangedFine ==
    ASSUME NEW r, ItemsFine(r.its), r.step \in {"promote", "forget"}
    PROVE  /\ ItemsFine(Changed(r)) /\ DOMAIN Changed(r) = DOMAIN r.its
           /\ \A i \in DOMAIN r.its :
                 /\ Changed(r)[i].id = r.its[i].id
                 /\ Changed(r)[i].visible => r.its[i].visible
                 /\ r.step = "forget" /\ r.its[i].id = r.id => ~Changed(r)[i].visible
<1> DEFINE new == Changed(r)
<1>1. DOMAIN new = DOMAIN r.its /\ new = [i \in DOMAIN r.its |-> new[i]]
  BY DEF Changed
<1> HIDE DEF new
<1>2. ASSUME NEW i \in DOMAIN r.its
      PROVE  /\ ItemFine(new[i]) /\ new[i].id = r.its[i].id
             /\ new[i].visible => r.its[i].visible
             /\ r.step = "forget" /\ r.its[i].id = r.id => ~new[i].visible
  <2>0. ItemFine(r.its[i])
    BY DEF ItemsFine
  <2>1. CASE i \notin Places(r)
    <3>1. new[i] = r.its[i]
      BY <2>1 DEF new, Changed
    <3>2. ~(r.step = "forget" /\ r.its[i].id = r.id)
      BY <2>1 DEF Places
    <3> QED
      BY <2>0, <3>1, <3>2
  <2>2. CASE i \in Places(r) /\ r.step = "promote"
    <3>1. new[i] = Promoted(r.its[i], r.ev) /\ ~Refused(r.its[i], r.ev)
      BY <2>2 DEF new, Changed, Places
    <3> QED
      BY <2>0, <2>2, <3>1, PromotedFine
  <2>3. CASE i \in Places(r) /\ r.step = "forget"
    <3>1. new[i] = Forgotten(r.its[i], r.ev)
      BY <2>3 DEF new, Changed
    <3> QED
      BY <2>0, <3>1, ForgottenFine
  <2> QED
    BY <2>1, <2>2, <2>3
<1>3. Listed(new)
  BY <1>1, SameLength DEF ItemsFine
<1>4. ItemsFine(new)
  BY <1>1, <1>2, <1>3 DEF ItemsFine
<1> QED
  BY <1>1, <1>2, <1>4 DEF new
-----------------------------------------------------------------------------
(* Commands.                                                               *)

(* A command that goes on to a step keeps all else that it holds.          *)
LEMMA GoesOn ==
    ASSUME NEW f, f = [d \in Commands |-> f[d]], NEW c \in Commands, "step" \in DOMAIN f[c],
           NEW s, NEW g, g = [f EXCEPT ![c].step = s]
    PROVE  /\ g = [d \in Commands |-> g[d]]
           /\ DOMAIN g[c] = DOMAIN f[c] /\ g[c].step = s
           /\ "its" \in DOMAIN f[c] => g[c].its = f[c].its
           /\ \A d \in Commands : d # c => g[d] = f[d]
<1>1. g[c] = [f[c] EXCEPT !.step = s]
  OBVIOUS
<1>2. DOMAIN g = Commands
  OBVIOUS
<1> QED
  BY <1>1, <1>2

Later == {"promotion", "conflict", "exclusion", "brief", "seal", "decided"}

(* It still holds what it should.                                          *)
LEMMA GoesFits ==
    ASSUME MemoryInv, NEW c \in Commands, NEW s \in Later, Goes(c, s),
           run[c].step \in BriefSteps \union {"promote", "forget"},
           s \in BriefSteps => run[c].step \in BriefSteps
    PROVE  /\ run' = [d \in Commands |-> run'[d]]
           /\ \A d \in Commands : RunFits(run'[d])
           /\ run'[c].step = s /\ \A d \in Commands : d # c => run'[d] = run[d]
<1>1. PICK f : f = run
  OBVIOUS
<1>2. PICK g : g = run'
  OBVIOUS
<1>3. /\ f = [d \in Commands |-> f[d]] /\ \A d \in Commands : RunFits(f[d])
      /\ f[c].step \in BriefSteps \union {"promote", "forget"}
      /\ s \in BriefSteps => f[c].step \in BriefSteps
      /\ g = [f EXCEPT ![c].step = s]
  BY <1>1, <1>2 DEF MemoryInv, Goes
<1>4. "step" \in DOMAIN f[c] /\ "its" \in DOMAIN f[c]
  BY <1>3 DEF RunFits
<1>5. /\ g = [d \in Commands |-> g[d]]
      /\ DOMAIN g[c] = DOMAIN f[c] /\ g[c].step = s /\ g[c].its = f[c].its
      /\ \A d \in Commands : d # c => g[d] = f[d]
  BY <1>3, <1>4, GoesOn
<1>6. RunFits(g[c])
  BY <1>3, <1>5 DEF RunFits, Later
<1> QED
  BY <1>1, <1>2, <1>3, <1>5, <1>6

(* The same for a command that starts, ends or answers.                    *)
LEMMA BecomesFits ==
    ASSUME MemoryInv, NEW c \in Commands, NEW r, RunFits(r), Becomes(c, r)
    PROVE  /\ run' = [d \in Commands |-> run'[d]]
           /\ \A d \in Commands : RunFits(run'[d])
           /\ run'[c] = r /\ \A d \in Commands : d # c => run'[d] = run[d]
BY DEF MemoryInv, Becomes

(* What a killed command leaves of items.jsonl.                            *)
LEMMA KillLeaves ==
    ASSUME MemoryInv, NEW c \in Commands, Kill(c)
    PROVE  \/ items' = items
           \/ run[c].step = "store" /\ items' \in Cut(run[c].its)
           \/ run[c].step \in {"promote", "forget"} /\ items' \in Cut(Changed(run[c]))
<1> DEFINE cut == CASE At(c, "store") -> Cut(run[c].its)
                    [] run[c].step \in {"promote", "forget"} /\ Places(run[c]) # {} ->
                          Cut(Changed(run[c]))
                    [] OTHER -> {}
<1>1. items' = items \/ items' \in cut
  BY DEF Kill
<1>2. CASE run[c].step = "store"
  <2>1. cut = Cut(run[c].its)
    BY <1>2 DEF At
  <2> QED
    BY <1>1, <1>2, <2>1
<1>3. CASE run[c].step \in {"promote", "forget"} /\ Places(run[c]) # {}
  <2>1. cut = Cut(Changed(run[c]))
    BY <1>3 DEF At
  <2> QED
    BY <1>1, <1>3, <2>1
<1>4. CASE run[c].step # "store" /\ ~(run[c].step \in {"promote", "forget"} /\ Places(run[c]) # {})
  <2>1. cut = {}
    BY <1>4 DEF At
  <2> QED
    BY <1>1, <2>1
<1> QED
  BY <1>2, <1>3, <1>4

(* What is on disk after a command is killed may be there.                 *)
LEMMA KillFine ==
    ASSUME MemoryInv, NEW c \in Commands, Kill(c)
    PROVE  ItemsFine(items')
<1>1. ItemsFine(items) /\ RunFits(run[c])
  BY DEF MemoryInv
<1>2. ASSUME run[c].step = "store", items' \in Cut(run[c].its) PROVE ItemsFine(items')
  <2>1. ItemsFine(run[c].its)
    BY <1>1, <1>2, NewIsFine DEF RunFits, BriefSteps
  <2> QED
    BY <1>2, <2>1, CutFine
<1>3. ASSUME run[c].step \in {"promote", "forget"}, items' \in Cut(Changed(run[c]))
      PROVE  ItemsFine(items')
  <2>1. ItemsFine(Changed(run[c]))
    BY <1>1, <1>3, ChangedFine DEF RunFits
  <2> QED
    BY <1>3, <2>1, CutFine
<1> QED
  BY <1>1, <1>2, <1>3, KillLeaves

(* Nothing is on disk and no command runs.                                 *)
LEMMA MemoryInit == Init => MemoryInv
<1> SUFFICES ASSUME Init PROVE MemoryInv
  OBVIOUS
<1>1. items = <<>> /\ latest = {} /\ run = [c \in Commands |-> Idle] /\ briefs = 0
  BY DEF Init
<1>2. ItemsFine(<<>>)
  BY DEF ItemsFine, Listed
<1>3. RunFits(Idle)
  BY DEF RunFits, Idle, BriefSteps
<1> QED
  BY <1>1, <1>2, <1>3 DEF MemoryInv

(* Every step of a command keeps the invariant.                            *)
LEMMA MemoryStep == MemoryInv /\ [Next]_vars => MemoryInv'
<1> SUFFICES ASSUME MemoryInv, [Next]_vars PROVE MemoryInv'
  OBVIOUS
<1>0. /\ ItemsFine(items) /\ \A b \in latest : BriefFine(b) /\ briefs \in Nat
      /\ \A c \in Commands : RunFits(run[c])
  BY DEF MemoryInv
<1>1. ASSUME NEW c \in Commands, NEW found \in Discoveries, Discover(c, found) PROVE MemoryInv'
  <2> DEFINE r == [step |-> "store", its |-> NormalizeSources(found.sections, briefs + 1),
                   mode |-> DetectWorkMode(found.signals).mode]
  <2>1. ItemsNew(r.its)
    BY NormalizedNew
  <2>2. DOMAIN r = {"step", "its", "mode"} /\ r.step = "store"
    OBVIOUS
  <2>3. Becomes(c, r)
    BY <1>1 DEF Discover
  <2> HIDE DEF r
  <2>4. RunFits(r)
    BY <2>1, <2>2 DEF RunFits
  <2>5. items' = items /\ latest' = latest /\ briefs' = briefs + 1
    BY <1>1 DEF Discover
  <2> QED
    BY <1>0, <2>3, <2>4, <2>5, BecomesFits DEF MemoryInv
<1>2. ASSUME NEW c \in Commands, StoreItems(c) PROVE MemoryInv'
  <2>1. /\ run[c].step = "store" /\ items' = run[c].its /\ Goes(c, "promotion")
        /\ latest' = latest /\ briefs' = briefs
    BY <1>2 DEF StoreItems, At
  <2>2. ItemsFine(items')
    BY <1>0, <2>1, NewIsFine DEF RunFits, BriefSteps
  <2> QED
    BY <1>0, <2>1, <2>2, GoesFits DEF MemoryInv, Later, BriefSteps
<1>3. ASSUME NEW c \in Commands, PromotionReceipt(c) PROVE MemoryInv'
  <2>1. /\ run[c].step = "promotion" /\ Goes(c, "conflict")
        /\ items' = items /\ latest' = latest /\ briefs' = briefs
    BY <1>3 DEF PromotionReceipt, At
  <2> QED
    BY <1>0, <2>1, GoesFits DEF MemoryInv, Later, BriefSteps
<1>4. ASSUME NEW c \in Commands, ConflictReceipt(c) PROVE MemoryInv'
  <2>1. /\ run[c].step = "conflict" /\ Goes(c, "exclusion")
        /\ items' = items /\ latest' = latest /\ briefs' = briefs
    BY <1>4 DEF ConflictReceipt, At
  <2> QED
    BY <1>0, <2>1, GoesFits DEF MemoryInv, Later, BriefSteps
<1>5. ASSUME NEW c \in Commands, ExclusionReceipt(c) PROVE MemoryInv'
  <2>1. /\ run[c].step = "exclusion" /\ Goes(c, "brief")
        /\ items' = items /\ latest' = latest /\ briefs' = briefs
    BY <1>5 DEF ExclusionReceipt, At
  <2> QED
    BY <1>0, <2>1, GoesFits DEF MemoryInv, Later, BriefSteps
<1>6. ASSUME NEW c \in Commands, StoreBrief(c) PROVE MemoryInv'
  <2>1. /\ run[c].step = "brief" /\ Goes(c, "seal")
        /\ items' = items /\ briefs' = briefs
        /\ latest' = {CompileBrief(run[c].its, run[c].mode)}
    BY <1>6 DEF StoreBrief, At
  <2>2. ItemsNew(run[c].its)
    BY <1>0, <2>1 DEF RunFits, BriefSteps
  <2>3. \A b \in latest' : BriefFine(b)
    BY <2>1, <2>2, CompiledFine
  <2> QED
    BY <1>0, <2>1, <2>3, GoesFits DEF MemoryInv, Later, BriefSteps
<1>7. ASSUME NEW c \in Commands, BriefReceipt(c) \/ DecisionReceipt(c) PROVE MemoryInv'
  <2>1. /\ Becomes(c, [step |-> "answer", receipt |-> written'])
        /\ items' = items /\ latest' = latest /\ briefs' = briefs
    BY <1>7 DEF BriefReceipt, DecisionReceipt
  <2>2. RunFits([step |-> "answer", receipt |-> written'])
    BY DEF RunFits, BriefSteps
  <2> QED
    BY <1>0, <2>1, <2>2, BecomesFits DEF MemoryInv
<1>8. ASSUME NEW c \in Commands, NEW op \in {"promote", "forget"}, NEW id, NEW ev, Load(c, op, id, ev)
      PROVE  MemoryInv'
  <2> DEFINE r == [step |-> op, its |-> items, id |-> id, ev |-> ev]
  <2>1. Becomes(c, r) /\ items' = items /\ latest' = latest /\ briefs' = briefs
    BY <1>8 DEF Load
  <2>2. RunFits(r)
    BY <1>0 DEF RunFits, BriefSteps
  <2> HIDE DEF r
  <2> QED
    BY <1>0, <2>1, <2>2, BecomesFits DEF MemoryInv
<1>9. ASSUME NEW c \in Commands, PromoteItem(c) \/ ForgetItem(c) PROVE MemoryInv'
  <2>1. /\ run[c].step \in {"promote", "forget"} /\ Goes(c, "decided")
        /\ items' = items \/ items' = Changed(run[c])
        /\ latest' = latest /\ briefs' = briefs
    BY <1>9 DEF PromoteItem, ForgetItem, At
  <2>2. ItemsFine(items')
    BY <1>0, <2>1, ChangedFine DEF RunFits
  <2> QED
    BY <1>0, <2>1, <2>2, GoesFits DEF MemoryInv, Later, BriefSteps
<1>10. ASSUME NEW c \in Commands, Answer(c) PROVE MemoryInv'
  <2>1. Becomes(c, Idle) /\ items' = items /\ latest' = latest /\ briefs' = briefs
    BY <1>10 DEF Answer
  <2> QED
    BY <1>0, <2>1, BecomesFits DEF MemoryInv, RunFits, Idle, BriefSteps
<1>11. ASSUME NEW c \in Commands, Kill(c) PROVE MemoryInv'
  <2>1. Becomes(c, Idle) /\ latest' = latest /\ briefs' = briefs
    BY <1>11 DEF Kill
  <2>2. RunFits(Idle)
    BY DEF RunFits, Idle, BriefSteps
  <2> QED
    BY <1>0, <1>11, <2>1, <2>2, BecomesFits, KillFine DEF MemoryInv
<1>12. CASE UNCHANGED vars
  <2>1. items' = items /\ latest' = latest /\ run' = run /\ briefs' = briefs
    BY <1>12 DEF vars
  <2> QED
    BY <2>1 DEF MemoryInv
<1> QED
  BY <1>1, <1>2, <1>3, <1>4, <1>5, <1>6, <1>7, <1>8, <1>9, <1>10, <1>11, <1>12 DEF Next

(* Whichever commands overlap or are killed, what is on disk and what      *)
(* every command holds in memory fit together.                             *)
THEOREM MemoryInvariant == Spec => []MemoryInv
<1> QED
  BY MemoryInit, MemoryStep, PTL DEF Spec

(* What holds a secret or needs redaction is never promoted, shown to an   *)
(* agent or put in a brief, for any sources and any overlap of commands    *)
(* (evaluatePromotion, promoteItem).                                       *)
THEOREM SecretsStayOut == Spec => []SecretsKeptOut
<1>1. MemoryInv => SecretsKeptOut
  BY DEF MemoryInv, SecretsKeptOut, ItemsFine, ItemFine, BriefFine, Range
<1> QED
  BY <1>1, MemoryInvariant, PTL

(* A claim of readiness counts as true only with evidence, in a brief and  *)
(* by hand (promotion.ts, promote-forget.ts).                              *)
THEOREM ClaimsNeedEvidence == Spec => []ClaimsHaveEvidence
<1>1. MemoryInv => ClaimsHaveEvidence
  BY DEF MemoryInv, ClaimsHaveEvidence, ItemsFine, ItemFine, BriefFine, Range
<1> QED
  BY <1>1, MemoryInvariant, PTL
-----------------------------------------------------------------------------
(* Commands that do not overlap.                                           *)

(* Numbers that have been given.                                           *)
Given(its, n) == \A i \in DOMAIN its : its[i].id[1] \in 1..n
Hidden(its, ids) == \A i \in DOMAIN its : its[i].id \in ids => ~its[i].visible

(* While one command runs, the others do not.                              *)
LEMMA OthersIdle ==
    ASSUME LoneInv, ~raced, NEW c \in Commands,
           \/ run[c].step # "idle"
           \/ Starts(c) /\ ~raced'
    PROVE  \A d \in Commands : d # c => run[d].step = "idle"
<1>1. CASE run[c].step # "idle"
  BY <1>1 DEF LoneInv
<1>2. CASE Starts(c) /\ ~raced'
  BY <1>2 DEF Starts, At
<1> QED
  BY <1>1, <1>2

(* What LoneInv asks when the process c may be the only one that runs.     *)
LEMMA LoneAgain ==
    ASSUME NEW c \in Commands, \A d \in Commands : d # c => run'[d].step = "idle",
           Given(items', briefs'), Hidden(items', forgotten'),
           \A id \in forgotten' : id[1] \in 1..briefs',
           run'[c].step = "store" =>
               \A i \in DOMAIN run'[c].its :
                   run'[c].its[i].id[1] \in 1..briefs' /\ run'[c].its[i].id \notin forgotten',
           run'[c].step \in {"promote", "forget"} => run'[c].its = items'
    PROVE  LoneInv'
BY DEF LoneInv, Given, Hidden

(* Every step of a command keeps the invariant.                            *)
LEMMA LoneStep == MemoryInv /\ LoneInv /\ [Next]_vars => LoneInv'
<1> SUFFICES ASSUME MemoryInv, LoneInv, [Next]_vars, ~raced' PROVE LoneInv'
  BY DEF LoneInv
<1>0. /\ ItemsFine(items) /\ briefs \in Nat
      /\ \A c \in Commands : RunFits(run[c])
  BY DEF MemoryInv
<1>1. ASSUME ~raced
      PROVE  /\ Given(items, briefs) /\ Hidden(items, forgotten)
             /\ \A id \in forgotten : id[1] \in 1..briefs
  BY <1>1 DEF LoneInv, Given, Hidden
<1>2. ASSUME NEW c \in Commands, NEW found \in Discoveries, Discover(c, found) PROVE LoneInv'
  <2> DEFINE its == NormalizeSources(found.sections, briefs + 1)
             r == [step |-> "store", its |-> its, mode |-> DetectWorkMode(found.signals).mode]
  <2>1. /\ Starts(c) /\ Becomes(c, r) /\ briefs' = briefs + 1
        /\ items' = items /\ forgotten' = forgotten
    BY <1>2 DEF Discover
  <2>2. ~raced
    BY <2>1 DEF Starts
  <2>3. /\ ItemsNew(its) /\ r.step = "store" /\ r.its = its /\ DOMAIN r = {"step", "its", "mode"}
        /\ \A i \in DOMAIN its : its[i].id = <<briefs + 1, i>>
    BY NormalizedNew
  <2> HIDE DEF r, its
  <2>4. \A d \in Commands : d # c => run[d].step = "idle"
    BY <2>1, <2>2, OthersIdle
  <2>5. run'[c] = r /\ \A d \in Commands : d # c => run'[d] = run[d]
    BY <2>1, <2>3, BecomesFits DEF RunFits
  <2>6. briefs + 1 \in 1..(briefs + 1) /\ briefs + 1 \notin 1..briefs /\ 1..briefs \subseteq 1..(briefs + 1)
    BY <1>0
  <2>7. Given(items', briefs') /\ Hidden(items', forgotten') /\ \A id \in forgotten' : id[1] \in 1..briefs'
    BY <1>1, <2>1, <2>2, <2>6 DEF Given
  <2>8. \A i \in DOMAIN its : its[i].id[1] \in 1..briefs' /\ its[i].id \notin forgotten'
    BY <1>1, <2>1, <2>2, <2>3, <2>6
  <2> QED
    BY <2>3, <2>4, <2>5, <2>7, <2>8, LoneAgain
<1>3. ASSUME NEW c \in Commands, StoreItems(c) PROVE LoneInv'
  <2>1. /\ run[c].step = "store" /\ items' = run[c].its /\ Goes(c, "promotion")
        /\ forgotten' = forgotten /\ briefs' = briefs /\ raced' = raced
    BY <1>3 DEF StoreItems, At
  <2>2. \A d \in Commands : d # c => run[d].step = "idle"
    BY <2>1, OthersIdle
  <2>3. run'[c].step = "promotion" /\ \A d \in Commands : d # c => run'[d] = run[d]
    BY <2>1, GoesFits DEF Later, BriefSteps
  <2>4. \A i \in DOMAIN items' : items'[i].id[1] \in 1..briefs' /\ items'[i].id \notin forgotten'
    BY <2>1 DEF LoneInv
  <2>5. Given(items', briefs') /\ Hidden(items', forgotten')
    BY <2>4 DEF Given, Hidden
  <2> QED
    BY <1>1, <2>1, <2>2, <2>3, <2>5, LoneAgain
<1>4. ASSUME NEW c \in Commands,
             \/ PromotionReceipt(c) \/ ConflictReceipt(c) \/ ExclusionReceipt(c) \/ StoreBrief(c)
      PROVE  LoneInv'
  <2>1. /\ run[c].step \in BriefSteps
        /\ items' = items /\ forgotten' = forgotten /\ briefs' = briefs /\ raced' = raced
    BY <1>4 DEF PromotionReceipt, ConflictReceipt, ExclusionReceipt, StoreBrief, At, BriefSteps
  <2>2. PICK s \in {"conflict", "exclusion", "brief", "seal"} : Goes(c, s)
    BY <1>4 DEF PromotionReceipt, ConflictReceipt, ExclusionReceipt, StoreBrief
  <2>3. \A d \in Commands : d # c => run[d].step = "idle"
    BY <2>1, OthersIdle DEF BriefSteps
  <2>4. run'[c].step = s /\ \A d \in Commands : d # c => run'[d] = run[d]
    BY <2>1, <2>2, GoesFits DEF Later
  <2> QED
    BY <1>1, <2>1, <2>2, <2>3, <2>4, LoneAgain
<1>5. ASSUME NEW c \in Commands, BriefReceipt(c) \/ DecisionReceipt(c) \/ Answer(c) PROVE LoneInv'
  <2>1. /\ run[c].step # "idle"
        /\ items' = items /\ forgotten' = forgotten /\ briefs' = briefs /\ raced' = raced
    BY <1>5 DEF BriefReceipt, DecisionReceipt, Answer, At
  <2>2. \E r : Becomes(c, r) /\ (r = Idle \/ r = [step |-> "answer", receipt |-> written'])
    BY <1>5 DEF BriefReceipt, DecisionReceipt, Answer
  <2>3. PICK r : Becomes(c, r) /\ r.step \in {"idle", "answer"}
    BY <2>2 DEF Idle
  <2>4. \A d \in Commands : d # c => run[d].step = "idle"
    BY <2>1, OthersIdle
  <2>5. run'[c] = r /\ \A d \in Commands : d # c => run'[d] = run[d]
    BY <2>3, BecomesFits DEF RunFits, BriefSteps
  <2> QED
    BY <1>1, <2>1, <2>3, <2>4, <2>5, LoneAgain
<1>6. ASSUME NEW c \in Commands, NEW op \in {"promote", "forget"}, NEW id, NEW ev, Load(c, op, id, ev)
      PROVE  LoneInv'
  <2> DEFINE r == [step |-> op, its |-> items, id |-> id, ev |-> ev]
  <2>1. /\ Starts(c) /\ Becomes(c, r)
        /\ items' = items /\ forgotten' = forgotten /\ briefs' = briefs
    BY <1>6 DEF Load
  <2>2. ~raced
    BY <2>1 DEF Starts
  <2>3. r.step = op /\ r.its = items /\ DOMAIN r = {"step", "its", "id", "ev"}
    OBVIOUS
  <2> HIDE DEF r
  <2>4. RunFits(r)
    BY <1>0, <2>3 DEF RunFits, BriefSteps
  <2>5. \A d \in Commands : d # c => run[d].step = "idle"
    BY <2>1, <2>2, OthersIdle
  <2>6. run'[c] = r /\ \A d \in Commands : d # c => run'[d] = run[d]
    BY <2>1, <2>4, BecomesFits
  <2> QED
    BY <1>1, <2>1, <2>2, <2>3, <2>5, <2>6, LoneAgain
<1>7. ASSUME NEW c \in Commands, PromoteItem(c) \/ ForgetItem(c) PROVE LoneInv'
  <2>1. run[c].step \in {"promote", "forget"} /\ Goes(c, "decided") /\ briefs' = briefs /\ raced' = raced
    BY <1>7 DEF PromoteItem, ForgetItem, At
  <2>2. \A d \in Commands : d # c => run[d].step = "idle"
    BY <2>1, OthersIdle
  <2>3. run'[c].step = "decided" /\ \A d \in Commands : d # c => run'[d] = run[d]
    BY <2>1, GoesFits DEF Later, BriefSteps
  <2>4. PICK r : r = run[c]
    OBVIOUS
  <2>5. r.its = items /\ ItemsFine(r.its) /\ r.step \in {"promote", "forget"}
    BY <1>0, <2>1, <2>4 DEF LoneInv, RunFits
  <2>6. items' = IF Places(r) = {} THEN items ELSE Changed(r)
    BY <1>7, <2>4 DEF PromoteItem, ForgetItem
  <2>7. /\ DOMAIN Changed(r) = DOMAIN items
        /\ \A i \in DOMAIN items :
              /\ Changed(r)[i].id = items[i].id
              /\ Changed(r)[i].visible => items[i].visible
              /\ r.step = "forget" /\ items[i].id = r.id => ~Changed(r)[i].visible
    BY <2>5, ChangedFine
  <2>8. /\ forgotten' \in {forgotten, forgotten \union {r.id}}
        /\ forgotten' # forgotten => Places(r) # {} /\ r.step = "forget"
    <3>1. CASE PromoteItem(c)
      BY <3>1 DEF PromoteItem
    <3>2. CASE ForgetItem(c)
      <4>1. forgotten' = forgotten \union {id \in {r.id} : Places(r) # {}} /\ r.step = "forget"
        BY <2>4, <3>2 DEF ForgetItem, At
      <4>2. CASE Places(r) = {}
        BY <4>1, <4>2
      <4>3. CASE Places(r) # {}
        BY <4>1, <4>3
      <4> QED
        BY <4>2, <4>3
    <3> QED
      BY <1>7, <3>1, <3>2
  <2>9. Given(items', briefs')
    BY <1>1, <2>1, <2>6, <2>7 DEF Given
  <2>10. \A id \in forgotten' : id[1] \in 1..briefs'
    <3>1. Places(r) # {} => \E i \in DOMAIN items : items[i].id = r.id
      BY <2>5 DEF Places
    <3> QED
      BY <1>1, <2>1, <2>8, <3>1 DEF Given
  <2>11. Hidden(items', forgotten')
    BY <1>1, <2>1, <2>6, <2>7, <2>8 DEF Hidden
  <2> QED
    BY <2>2, <2>3, <2>9, <2>10, <2>11, LoneAgain
<1>8. ASSUME NEW c \in Commands, Kill(c) PROVE LoneInv'
  <2>1. /\ run[c].step # "idle" /\ Becomes(c, Idle)
        /\ forgotten' = forgotten /\ briefs' = briefs /\ raced' = raced
    BY <1>8 DEF Kill, At
  <2>2. \A d \in Commands : d # c => run[d].step = "idle"
    BY <2>1, OthersIdle
  <2>3. run'[c].step = "idle" /\ \A d \in Commands : d # c => run'[d] = run[d]
    BY <2>1, BecomesFits DEF RunFits, Idle, BriefSteps
  <2>4. CASE items' = items
    BY <1>1, <2>1, <2>2, <2>3, <2>4, LoneAgain
  <2>5. CASE run[c].step = "store" /\ items' \in Cut(run[c].its)
    <3>1. ItemsFine(run[c].its)
      BY <1>0, <2>5, NewIsFine DEF RunFits, BriefSteps
    <3>2. \A i \in DOMAIN items' : i \in DOMAIN run[c].its /\ items'[i] = run[c].its[i]
      BY <2>5, <3>1, CutFine
    <3>3. \A i \in DOMAIN items' : items'[i].id[1] \in 1..briefs' /\ items'[i].id \notin forgotten'
      BY <2>1, <2>5, <3>2 DEF LoneInv
    <3>4. Given(items', briefs') /\ Hidden(items', forgotten')
      BY <3>3 DEF Given, Hidden
    <3> QED
      BY <1>1, <2>1, <2>2, <2>3, <3>4, LoneAgain
  <2>6. CASE run[c].step \in {"promote", "forget"} /\ items' \in Cut(Changed(run[c]))
    <3>1. PICK r : r = run[c]
      OBVIOUS
    <3>2. r.its = items /\ ItemsFine(r.its) /\ r.step \in {"promote", "forget"}
      BY <1>0, <2>1, <2>6, <3>1 DEF LoneInv, RunFits
    <3>3. /\ ItemsFine(Changed(r)) /\ DOMAIN Changed(r) = DOMAIN items
          /\ \A i \in DOMAIN items :
                Changed(r)[i].id = items[i].id /\ (Changed(r)[i].visible => items[i].visible)
      BY <3>2, ChangedFine
    <3>4. \A i \in DOMAIN items' : i \in DOMAIN items /\ items'[i] = Changed(r)[i]
      BY <2>6, <3>1, <3>3, CutFine
    <3>5. Given(items', briefs') /\ Hidden(items', forgotten')
      BY <1>1, <2>1, <3>3, <3>4 DEF Given, Hidden
    <3> QED
      BY <1>1, <2>1, <2>2, <2>3, <3>5, LoneAgain
  <2> QED
    BY <1>8, <2>4, <2>5, <2>6, KillLeaves
<1>9. CASE UNCHANGED vars
  BY <1>9 DEF vars, LoneInv
<1> QED
  BY <1>2, <1>3, <1>4, <1>5, <1>6, <1>7, <1>8, <1>9 DEF Next

(* As long as no two commands have run at once, no number is given twice   *)
(* and a command that changes an item has loaded what is still on disk.    *)
THEOREM LoneInvariant == Spec => []LoneInv
<1>1. Init => LoneInv
  BY DEF Init, LoneInv, Idle
<1> QED
  BY <1>1, MemoryInit, MemoryStep, LoneStep, PTL DEF Spec

(* What the user has had forgotten stays hidden from agents, also when it  *)
(* is promoted afterwards or a later command is killed (forgetItem).       *)
THEOREM ForgottenStaysHidden == Spec => []ForgottenHidden
<1>1. LoneInv => ForgottenHidden
  BY DEF LoneInv, ForgottenHidden, Range
<1> QED
  BY <1>1, LoneInvariant, PTL
-----------------------------------------------------------------------------
(* Receipts and their limit.                                               *)

AllReceipts == [type : Range(Types), n : Nat]

(* A type has one rank.                                                    *)
LEMMA TypeRanks ==
    /\ \A t \in Range(Types) : RankOf(t) \in 1..5 /\ Types[RankOf(t)] = t
<1>1. DOMAIN Types = 1..5
  BY DEF Types
<1>2. ASSUME NEW t \in Range(Types) PROVE \E k \in DOMAIN Types : Types[k] = t
  BY DEF Range
<1> QED
  BY <1>1, <1>2 DEF RankOf

(* The names of receipts are in one order.                                 *)
LEMMA NamesInOrder ==
    /\ \A a, b \in AllReceipts : a # b => Precedes(a, b) \/ Precedes(b, a)
    /\ \A a \in AllReceipts : ~Precedes(a, a)
    /\ \A a, b, c \in AllReceipts : Precedes(a, b) /\ Precedes(b, c) => Precedes(a, c)
<1>1. \A a \in AllReceipts : RankOf(a.type) \in Nat /\ a.n \in Nat /\ Types[RankOf(a.type)] = a.type
  BY TypeRanks DEF AllReceipts
<1>2. ASSUME NEW a \in AllReceipts, NEW b \in AllReceipts, a # b
      PROVE  Precedes(a, b) \/ Precedes(b, a)
  <2>1. CASE a.type = b.type
    <3>1. a.n # b.n
      BY <1>2, <2>1 DEF AllReceipts
    <3> QED
      BY <1>1, <2>1, <3>1 DEF Precedes
  <2>2. CASE a.type # b.type
    <3>1. RankOf(a.type) # RankOf(b.type)
      BY <1>1, <2>2
    <3> QED
      BY <1>1, <3>1 DEF Precedes
  <2> QED
    BY <2>1, <2>2
<1>3. \A a \in AllReceipts : ~Precedes(a, a)
  BY <1>1 DEF Precedes
<1>4. \A a, b, c \in AllReceipts : Precedes(a, b) /\ Precedes(b, c) => Precedes(a, c)
  BY <1>1 DEF Precedes
<1> QED
  BY <1>2, <1>3, <1>4

(* Of finitely many receipts one comes first.                              *)
LEMMA FirstReceipt ==
    ASSUME NEW S \in SUBSET AllReceipts, IsFiniteSet(S), S # {}
    PROVE  \E r \in S : \A q \in S \ {r} : Precedes(r, q)
<1> DEFINE Below(r) == {q \in S : Precedes(q, r)}
           All == {Below(r) : r \in S}
<1>1. All \subseteq FiniteSubsetsOf(S) /\ All # {}
  <2>1. \A r \in S : Below(r) \in FiniteSubsetsOf(S)
    BY FS_Subset DEF FiniteSubsetsOf
  <2> QED
    BY <2>1
<1>2. IsWellFoundedOn(StrictSubsetOrdering(S), FiniteSubsetsOf(S))
  BY FS_StrictSubsetOrderingWellFounded
<1>3. PICK A \in All : \A B \in All : <<B, A>> \notin StrictSubsetOrdering(S)
  <2> HIDE DEF All
  <2> QED
    BY <1>1, <1>2, WFMin
<1>4. PICK r \in S : A = Below(r)
  BY <1>3
<1>5. ASSUME NEW q \in S, Precedes(q, r) PROVE FALSE
  <2>1. \A k \in S : (Precedes(k, q) => Precedes(k, r)) /\ ~Precedes(q, q)
    BY <1>5, NamesInOrder
  <2>2. Below(q) \subseteq Below(r) /\ q \in Below(r) /\ ~(q \in Below(q))
    BY <1>5, <2>1
  <2>3. <<Below(q), Below(r)>> \in StrictSubsetOrdering(S)
    BY <2>2 DEF StrictSubsetOrdering
  <2> QED
    BY <1>3, <1>4, <2>3
<1>6. \A q \in S \ {r} : Precedes(r, q)
  BY <1>5, NamesInOrder
<1> QED
  BY <1>6

(* pruneReceipts leaves no more than the limit: the first of those that    *)
(* stay has all others of them behind it.                                  *)
LEMMA PrunedBounded ==
    ASSUME NEW all \in SUBSET AllReceipts, IsFiniteSet(all)
    PROVE  IsFiniteSet(Pruned(all)) /\ Cardinality(Pruned(all)) <= MaxReceipts
<1> DEFINE S == Pruned(all)
<1>1. S \subseteq all /\ IsFiniteSet(S)
  BY FS_Subset DEF Pruned
<1>2. CASE S = {}
  BY <1>1, <1>2, FS_EmptySet, BoundsAssumption
<1>3. CASE S # {}
  <2>1. PICK r \in S : \A q \in S \ {r} : Precedes(r, q)
    BY <1>1, <1>3, FirstReceipt
  <2> DEFINE behind == {q \in all : Precedes(r, q)}
  <2>2. Cardinality(behind) < MaxReceipts
    BY <2>1 DEF Pruned
  <2>3. S \ {r} \subseteq behind /\ behind \subseteq all
    BY <1>1, <2>1
  <2>4. IsFiniteSet(behind) /\ IsFiniteSet(S \ {r})
    BY <1>1, <2>3, FS_Subset
  <2>5. Cardinality(S \ {r}) <= Cardinality(behind)
    BY <2>3, <2>4, FS_Subset
  <2>6. Cardinality(S \ {r}) = Cardinality(S) - 1
    BY <1>1, <2>1, FS_RemoveElement
  <2>7. Cardinality(S) \in Nat /\ Cardinality(behind) \in Nat
    BY <1>1, <2>4, FS_CardinalityType
  <2> HIDE DEF S, behind
  <2>8. Cardinality(S) <= MaxReceipts
    BY <2>2, <2>5, <2>6, <2>7, BoundsAssumption
  <2> QED
    BY <1>1, <2>8 DEF S
<1> QED
  BY <1>2, <1>3
-----------------------------------------------------------------------------
(* Types.                                                                  *)

(* An item with a number that n briefs may have given.                     *)
TypedItem(it, n) ==
    /\ it.id[1] \in 1..n /\ IsSource(it.src)
    /\ it.status \in Statuses /\ it.level \in TrustLevels
    /\ it.evidence \subseteq Evidence \union {"source"}
    /\ it.visible \in BOOLEAN

TypedList(its, n) ==
    \A i \in DOMAIN its : TypedItem(its[i], n) /\ its[i].id = <<its[1].id[1], i>>

Steps == BriefSteps \union {"promote", "forget", "idle", "seal", "decided", "answer"}

TypedRun(r, n) ==
    /\ r.step \in Steps
    /\ r.step \in BriefSteps \union {"promote", "forget"} => TypedList(r.its, n)
    /\ r.step \in {"promote", "forget"} => r.ev \subseteq Evidence

(* A brief as its items, given by n briefs, have it.                       *)
TypedBrief(b, n) ==
    LET ids == {it.id : it \in Range(b.its)}
    IN  /\ \A it \in Range(b.its) : TypedItem(it, n)
        /\ IsBudget(b.budget, ids) /\ \A x \in b.conflicts : IsConflict(x, ids)
        /\ b.mustFollow \subseteq ids

TypeInv ==
    /\ TypedList(items, briefs)
    /\ \A c \in Commands : TypedRun(run[c], briefs)
    /\ \A b \in latest : TypedBrief(b, briefs)
    /\ briefs \in Nat /\ runs \in Nat /\ briefs <= runs /\ runs <= MaxRuns /\ raced \in BOOLEAN

ReceiptsInv ==
    ReceiptsTyped /\ IsFiniteSet(receipts) /\ written \in Nat

(* The numbers that have been given stay so.                               *)
LEMMA TypedLater ==
    ASSUME NEW n \in Nat, NEW m \in Nat, n <= m
    PROVE  /\ \A its : TypedList(its, n) => TypedList(its, m)
           /\ \A r : TypedRun(r, n) => TypedRun(r, m)
           /\ \A b : TypedBrief(b, n) => TypedBrief(b, m)
<1>1. 1..n \subseteq 1..m
  OBVIOUS
<1>2. \A it : TypedItem(it, n) => TypedItem(it, m)
  BY <1>1 DEF TypedItem
<1>3. \A its : TypedList(its, n) => TypedList(its, m)
  BY <1>2 DEF TypedList
<1>4. \A r : TypedRun(r, n) => TypedRun(r, m)
  BY <1>3 DEF TypedRun
<1>5. \A b : TypedBrief(b, n) => TypedBrief(b, m)
  BY <1>2 DEF TypedBrief
<1> QED
  BY <1>3, <1>4, <1>5

(* A source is trusted in one of four ways.                                *)
LEMMA TrustTyped ==
    ASSUME NEW s, IsSource(s)
    PROVE  InferTrust(s) \in TrustLevels
<1> DEFINE trust == [receipt |-> "verified", policy |-> "confirmed",
                     dashboard_state |-> "confirmed", file |-> "inferred"]
<1>1. CASE HasSecret(s)
  BY <1>1 DEF InferTrust, TrustLevels
<1>2. CASE ~HasSecret(s)
  <2>1. InferTrust(s) = trust[s.kind]
    BY <1>2 DEF InferTrust
  <2>2. /\ trust["receipt"] = "verified" /\ trust["policy"] = "confirmed"
        /\ trust["dashboard_state"] = "confirmed" /\ trust["file"] = "inferred"
    OBVIOUS
  <2>3. s.kind \in {"file", "receipt", "dashboard_state", "policy"}
    BY DEF IsSource, SourceKinds
  <2> QED
    BY <2>1, <2>2, <2>3 DEF TrustLevels
<1> QED
  BY <1>1, <1>2

(* The items of a brief are typed, and carry its number.                   *)
LEMMA NormalizedTyped ==
    ASSUME NEW d \in Discoveries, NEW n \in Nat
    PROVE  TypedList(NormalizeSources(d.sections, n + 1), n + 1)
<1> DEFINE its == NormalizeSources(d.sections, n + 1)
<1>1. \A i \in DOMAIN its : i \in DOMAIN d.sections /\ its[i] = NewItem(<<n + 1, i>>, d.sections[i])
  BY DEF NormalizeSources
<1>2. DOMAIN its = DOMAIN d.sections
  BY DEF NormalizeSources
<1>3. d.sections \in Seq({d.sections[i] : i \in DOMAIN d.sections})
      /\ \A i \in DOMAIN d.sections : IsSource(d.sections[i])
  BY DiscoveryAssumption
<1>4. \A i \in DOMAIN its : 1 \in DOMAIN its
  <2>1. Len(d.sections) \in Nat /\ DOMAIN d.sections = 1..Len(d.sections)
    BY <1>3
  <2> QED
    BY <1>2, <2>1
<1> HIDE DEF its
<1>5. ASSUME NEW i \in DOMAIN its
      PROVE  TypedItem(its[i], n + 1) /\ its[i].id = <<n + 1, i>>
  <2>1. PICK s : s = d.sections[i] /\ IsSource(s)
    BY <1>1, <1>3
  <2>2. its[i] = NewItem(<<n + 1, i>>, s)
    BY <1>1, <2>1
  <2>3. /\ its[i].id = <<n + 1, i>> /\ its[i].src = s /\ its[i].status = "candidate"
        /\ its[i].level = InferTrust(s) /\ its[i].visible = ~NeedsRedaction(s)
        /\ its[i].evidence = IF s.kind = "receipt" /\ s.json /\ ~s.unreadable THEN {"source"} ELSE {}
    BY <2>2 DEF NewItem
  <2>4. its[i].visible \in BOOLEAN
    BY <2>3 DEF NeedsRedaction
  <2>5. its[i].evidence \subseteq {"source"}
    BY <2>3
  <2>6. n + 1 \in 1..(n + 1) /\ its[i].id[1] = n + 1
    BY <2>3
  <2> QED
    BY <2>1, <2>3, <2>4, <2>5, <2>6, TrustTyped DEF TypedItem, Statuses
<1>6. \A i \in DOMAIN its : its[1].id[1] = n + 1
  BY <1>4, <1>5
<1> QED
  BY <1>5, <1>6 DEF TypedList, its

(* A budget divides the items of its brief.                                *)
LEMMA CompiledTyped ==
    ASSUME NEW n, NEW its, ItemsNew(its), TypedList(its, n), NEW mode
    PROVE  TypedBrief(CompileBrief(its, mode), n)
<1> DEFINE b == CompileBrief(its, mode)
           ids == {it.id : it \in Range(its)}
           taken == {i \in Offered(its) : Fits(its)[i]}
<1>1. /\ b.its = its /\ b.budget = AllocateBudget(its)
      /\ b.conflicts = DetectConflicts(Range(its))
      /\ b.mustFollow = {it.id : it \in {x \in Range(its) : IsSafety(x) /\ x.id \in b.budget.included}}
  BY DEF CompileBrief
<1>2. \A i \in DOMAIN its : its[i].id = <<its[1].id[1], i>>
  BY DEF TypedList
<1>3. \A i, j \in DOMAIN its : its[i].id = its[j].id => i = j
  BY <1>2
<1>4. ids = {its[i].id : i \in DOMAIN its}
  BY DEF Range
<1>5. taken \subseteq DOMAIN its
  BY DEF Offered
<1>6. /\ b.budget.included = {its[i].id : i \in taken}
      /\ b.budget.excluded = {its[i].id : i \in (DOMAIN its) \ taken}
  BY <1>1 DEF AllocateBudget
<1>7. IsBudget(b.budget, ids)
  <2> HIDE DEF b, ids, taken
  <2> QED
    BY <1>3, <1>4, <1>5, <1>6 DEF IsBudget
<1>8. \A x \in DetectConflicts(Range(its)) : IsConflict(x, ids)
  <2> SUFFICES ASSUME NEW x \in DetectConflicts(Range(its)) PROVE IsConflict(x, ids)
    OBVIOUS
  <2>1. CASE x \in ProductionStatusConflicts(Range(its))
    <3>1. PICK pair \in Range(its) \X Range(its) :
            x = <<"production_status_conflict", {pair[1].id, pair[2].id}>>
      BY <2>1 DEF ProductionStatusConflicts
    <3>2. pair[1] \in Range(its) /\ pair[2] \in Range(its)
      OBVIOUS
    <3> QED
      BY <3>1, <3>2 DEF IsConflict, ConflictTypes
  <2>2. CASE x \in InstructionConflicts(Range(its))
    <3>1. PICK pair \in Range(its) \X Range(its) :
            x = <<"instruction_conflict", {pair[1].id, pair[2].id}>>
      BY <2>2 DEF InstructionConflicts
    <3>2. pair[1] \in Range(its) /\ pair[2] \in Range(its)
      OBVIOUS
    <3> QED
      BY <3>1, <3>2 DEF IsConflict, ConflictTypes
  <2>3. CASE x \in HandoffConflicts(Range(its))
    BY <2>3 DEF HandoffConflicts, IsConflict, ConflictTypes
  <2>4. CASE x \in MissingProofConflicts(Range(its))
    BY <2>4 DEF MissingProofConflicts, IsConflict, ConflictTypes
  <2> QED
    BY <2>1, <2>2, <2>3, <2>4 DEF DetectConflicts
<1>9. b.mustFollow \subseteq ids
  BY <1>1
<1>10. \A it \in Range(its) : TypedItem(it, n)
  BY DEF Range, TypedList
<1> HIDE DEF b
<1> QED
  BY <1>1, <1>7, <1>8, <1>9, <1>10 DEF TypedBrief, b

(* A prefix of a typed list is one.                                        *)
LEMMA CutTyped ==
    ASSUME NEW n, NEW its, Listed(its), TypedList(its, n), NEW new \in Cut(its)
    PROVE  TypedList(new, n)
<1>1. Len(its) \in Nat /\ DOMAIN its = 1..Len(its)
  BY DEF Listed
<1>2. PICK k \in 0..Len(its) : new = [i \in 1..k |-> its[i]]
  BY DEF Cut
<1>3. DOMAIN new = 1..k /\ 1..k \subseteq DOMAIN its /\ \A i \in 1..k : new[i] = its[i] /\ 1 \in 1..k
  BY <1>1, <1>2
<1> QED
  BY <1>3 DEF TypedList

(* So is what a command writes that promotes or forgets one.               *)
LEMMA ChangedTyped ==
    ASSUME NEW n, NEW r, ItemsFine(r.its), r.step \in {"promote", "forget"},
           TypedList(r.its, n), r.ev \subseteq Evidence
    PROVE  TypedList(Changed(r), n)
<1> DEFINE new == Changed(r)
<1>1. /\ DOMAIN new = DOMAIN r.its
      /\ \A i \in DOMAIN r.its : new[i].id = r.its[i].id
  BY ChangedFine
<1>2. \A i \in DOMAIN r.its :
        new[i] \in {r.its[i], Promoted(r.its[i], r.ev), Forgotten(r.its[i], r.ev)}
  BY DEF Changed
<1> HIDE DEF new
<1>3. ASSUME NEW i \in DOMAIN r.its PROVE TypedItem(new[i], n)
  <2>1. PICK it : it = r.its[i] /\ TypedItem(it, n) /\ ItemFine(it)
    BY DEF TypedList, ItemsFine
  <2>2. CASE new[i] = it
    BY <2>1, <2>2
  <2>3. CASE new[i] = Promoted(it, r.ev)
    <3>1. /\ new[i].id = it.id /\ new[i].src = it.src /\ new[i].visible = it.visible
          /\ new[i].status = "promoted" /\ new[i].level \in {"confirmed", "verified"}
          /\ new[i].evidence = it.evidence \union r.ev
      BY <2>1, <2>3 DEF Promoted, ItemFine
    <3> QED
      BY <2>1, <3>1 DEF TypedItem, Statuses, TrustLevels
  <2>4. CASE new[i] = Forgotten(it, r.ev)
    <3>1. /\ new[i].id = it.id /\ new[i].src = it.src /\ new[i].visible = FALSE
          /\ new[i].status \in {"forgotten", "superseded"} /\ new[i].level = it.level
          /\ new[i].evidence = it.evidence
      BY <2>1, <2>4 DEF Forgotten, ItemFine
    <3> QED
      BY <2>1, <3>1 DEF TypedItem, Statuses
  <2> QED
    BY <1>2, <2>1, <2>2, <2>3, <2>4
<1>4. \A i \in DOMAIN r.its : 1 \in DOMAIN r.its
  <2>1. Len(r.its) \in Nat /\ DOMAIN r.its = 1..Len(r.its)
    BY DEF ItemsFine, Listed
  <2> QED
    BY <2>1
<1>5. \A i \in DOMAIN r.its : new[i].id = <<new[1].id[1], i>>
  BY <1>1, <1>4 DEF TypedList
<1> QED
  BY <1>1, <1>3, <1>5 DEF TypedList, new

(* A command that goes on keeps the items it holds.                        *)
LEMMA GoesTyped ==
    ASSUME MemoryInv, TypeInv, NEW c \in Commands, NEW s \in Later, Goes(c, s),
           run[c].step \in BriefSteps \union {"promote", "forget"},
           s \in BriefSteps => run[c].step \in BriefSteps
    PROVE  \A d \in Commands : TypedRun(run'[d], briefs)
<1>1. PICK f : f = run
  OBVIOUS
<1>2. PICK g : g = run'
  OBVIOUS
<1>3. /\ f = [d \in Commands |-> f[d]] /\ \A d \in Commands : RunFits(f[d])
      /\ \A d \in Commands : TypedRun(f[d], briefs)
      /\ f[c].step \in BriefSteps \union {"promote", "forget"}
      /\ g = [f EXCEPT ![c].step = s]
  BY <1>1, <1>2 DEF MemoryInv, TypeInv, Goes
<1>4. "step" \in DOMAIN f[c] /\ "its" \in DOMAIN f[c]
  BY <1>3 DEF RunFits
<1>5. g[c].step = s /\ g[c].its = f[c].its /\ \A d \in Commands : d # c => g[d] = f[d]
  BY <1>3, <1>4, GoesOn
<1>6. TypedRun(g[c], briefs)
  BY <1>3, <1>5 DEF TypedRun, Later, Steps, BriefSteps
<1> QED
  BY <1>2, <1>3, <1>5, <1>6

(* One that starts, ends or answers.                                       *)
LEMMA BecomesTyped ==
    ASSUME MemoryInv, TypeInv, NEW c \in Commands, NEW r, TypedRun(r, briefs'), Becomes(c, r),
           briefs' \in Nat, briefs <= briefs'
    PROVE  \A d \in Commands : TypedRun(run'[d], briefs')
<1>1. /\ run'[c] = r /\ \A d \in Commands : d # c => run'[d] = run[d]
  BY DEF MemoryInv, Becomes
<1>2. \A d \in Commands : TypedRun(run[d], briefs')
  BY TypedLater DEF TypeInv
<1> QED
  BY <1>1, <1>2

(* Every step of a command keeps the types.                                *)
LEMMA TypesStay ==
    ASSUME MemoryInv, TypeInv, [Next]_vars
    PROVE  TypeInv'
<1>0. /\ TypedList(items, briefs) /\ \A b \in latest : TypedBrief(b, briefs)
      /\ \A c \in Commands : TypedRun(run[c], briefs) /\ RunFits(run[c])
      /\ ItemsFine(items)
      /\ briefs \in Nat /\ runs \in Nat /\ briefs <= runs /\ runs <= MaxRuns /\ raced \in BOOLEAN
  BY DEF TypeInv, MemoryInv
<1>1. ASSUME NEW c \in Commands, Starts(c)
      PROVE  runs' = runs + 1 /\ runs' <= MaxRuns /\ raced' \in BOOLEAN
  BY <1>0, <1>1, BoundsAssumption DEF Starts
<1>2. ASSUME NEW c \in Commands, NEW found \in Discoveries, Discover(c, found) PROVE TypeInv'
  <2> DEFINE r == [step |-> "store", its |-> NormalizeSources(found.sections, briefs + 1),
                   mode |-> DetectWorkMode(found.signals).mode]
  <2>1. TypedList(r.its, briefs + 1) /\ r.step = "store"
    BY <1>0, NormalizedTyped
  <2>2. /\ Becomes(c, r) /\ Starts(c) /\ items' = items /\ latest' = latest
        /\ briefs' = briefs + 1
    BY <1>2 DEF Discover
  <2> HIDE DEF r
  <2>3. TypedRun(r, briefs')
    BY <2>1, <2>2 DEF TypedRun, Steps, BriefSteps
  <2>4. briefs' \in Nat /\ briefs <= briefs' /\ runs' \in Nat /\ briefs' <= runs'
    BY <1>0, <1>1, <2>2
  <2>5. \A d \in Commands : TypedRun(run'[d], briefs')
    BY <2>2, <2>3, <2>4, BecomesTyped
  <2>6. TypedList(items', briefs') /\ \A b \in latest' : TypedBrief(b, briefs')
    BY <1>0, <2>2, <2>4, TypedLater
  <2> QED
    BY <1>1, <2>2, <2>4, <2>5, <2>6 DEF TypeInv
<1>3. ASSUME NEW c \in Commands, StoreItems(c) PROVE TypeInv'
  <2>1. /\ run[c].step = "store" /\ items' = run[c].its /\ Goes(c, "promotion")
        /\ latest' = latest /\ briefs' = briefs /\ runs' = runs /\ raced' = raced
    BY <1>3 DEF StoreItems, At
  <2>2. TypedList(items', briefs)
    BY <1>0, <2>1 DEF TypedRun, BriefSteps
  <2>3. \A d \in Commands : TypedRun(run'[d], briefs)
    BY <2>1, GoesTyped DEF Later, BriefSteps
  <2> QED
    BY <1>0, <2>1, <2>2, <2>3 DEF TypeInv
<1>4. ASSUME NEW c \in Commands, PromotionReceipt(c) \/ ConflictReceipt(c) \/ ExclusionReceipt(c)
      PROVE  TypeInv'
  <2>1. /\ run[c].step \in BriefSteps
        /\ items' = items /\ latest' = latest /\ briefs' = briefs /\ runs' = runs /\ raced' = raced
    BY <1>4 DEF PromotionReceipt, ConflictReceipt, ExclusionReceipt, At, BriefSteps
  <2>2. PICK s \in {"conflict", "exclusion", "brief"} : Goes(c, s)
    BY <1>4 DEF PromotionReceipt, ConflictReceipt, ExclusionReceipt
  <2>3. \A d \in Commands : TypedRun(run'[d], briefs)
    BY <2>1, <2>2, GoesTyped DEF Later
  <2> QED
    BY <1>0, <2>1, <2>3 DEF TypeInv
<1>5. ASSUME NEW c \in Commands, StoreBrief(c) PROVE TypeInv'
  <2>1. /\ run[c].step = "brief" /\ Goes(c, "seal") /\ latest' = {CompileBrief(run[c].its, run[c].mode)}
        /\ items' = items /\ briefs' = briefs /\ runs' = runs /\ raced' = raced
    BY <1>5 DEF StoreBrief, At
  <2>2. ItemsNew(run[c].its) /\ TypedList(run[c].its, briefs)
    BY <1>0, <2>1 DEF RunFits, TypedRun, BriefSteps
  <2>3. \A b \in latest' : TypedBrief(b, briefs)
    BY <2>1, <2>2, CompiledTyped
  <2>4. \A d \in Commands : TypedRun(run'[d], briefs)
    BY <2>1, GoesTyped DEF Later, BriefSteps
  <2> QED
    BY <1>0, <2>1, <2>3, <2>4 DEF TypeInv
<1>6. ASSUME NEW c \in Commands, BriefReceipt(c) \/ DecisionReceipt(c) \/ Answer(c) PROVE TypeInv'
  <2>1. items' = items /\ latest' = latest /\ briefs' = briefs /\ runs' = runs /\ raced' = raced
    BY <1>6 DEF BriefReceipt, DecisionReceipt, Answer
  <2>2. \E r : Becomes(c, r) /\ (r = Idle \/ r = [step |-> "answer", receipt |-> written'])
    BY <1>6 DEF BriefReceipt, DecisionReceipt, Answer
  <2>3. PICK r : Becomes(c, r) /\ r.step \in {"idle", "answer"}
    BY <2>2 DEF Idle
  <2>4. TypedRun(r, briefs')
    BY <2>3 DEF TypedRun, Steps, BriefSteps
  <2>5. \A d \in Commands : TypedRun(run'[d], briefs')
    BY <1>0, <2>1, <2>3, <2>4, BecomesTyped
  <2> QED
    BY <1>0, <2>1, <2>5 DEF TypeInv
<1>7. ASSUME NEW c \in Commands, NEW op \in {"promote", "forget"}, NEW id, NEW ev \in SUBSET Evidence,
             Load(c, op, id, ev)
      PROVE  TypeInv'
  <2> DEFINE r == [step |-> op, its |-> items, id |-> id, ev |-> ev]
  <2>1. Starts(c) /\ Becomes(c, r) /\ items' = items /\ latest' = latest /\ briefs' = briefs
    BY <1>7 DEF Load
  <2>2. r.step = op /\ r.its = items /\ r.ev = ev
    OBVIOUS
  <2> HIDE DEF r
  <2>3. TypedRun(r, briefs')
    BY <1>0, <2>1, <2>2 DEF TypedRun, Steps
  <2>4. \A d \in Commands : TypedRun(run'[d], briefs')
    BY <1>0, <2>1, <2>3, BecomesTyped
  <2>5. runs' \in Nat /\ briefs' <= runs'
    BY <1>0, <1>1, <2>1
  <2> QED
    BY <1>0, <1>1, <2>1, <2>4, <2>5 DEF TypeInv
<1>8. ASSUME NEW c \in Commands, PromoteItem(c) \/ ForgetItem(c) PROVE TypeInv'
  <2>1. /\ run[c].step \in {"promote", "forget"} /\ Goes(c, "decided")
        /\ items' = items \/ items' = Changed(run[c])
        /\ latest' = latest /\ briefs' = briefs /\ runs' = runs /\ raced' = raced
    BY <1>8 DEF PromoteItem, ForgetItem, At
  <2>2. TypedList(items', briefs)
    BY <1>0, <2>1, ChangedTyped DEF RunFits, TypedRun
  <2>3. \A d \in Commands : TypedRun(run'[d], briefs)
    BY <2>1, GoesTyped DEF Later, BriefSteps
  <2> QED
    BY <1>0, <2>1, <2>2, <2>3 DEF TypeInv
<1>9. ASSUME NEW c \in Commands, Kill(c) PROVE TypeInv'
  <2>1. /\ Becomes(c, Idle) /\ latest' = latest /\ briefs' = briefs /\ runs' = runs /\ raced' = raced
    BY <1>9 DEF Kill
  <2>2. TypedRun(Idle, briefs')
    BY DEF TypedRun, Idle, Steps, BriefSteps
  <2>3. \A d \in Commands : TypedRun(run'[d], briefs')
    BY <1>0, <2>1, <2>2, BecomesTyped
  <2>4. CASE run[c].step = "store" /\ items' \in Cut(run[c].its)
    <3>1. Listed(run[c].its) /\ TypedList(run[c].its, briefs)
      BY <1>0, <2>4 DEF RunFits, TypedRun, BriefSteps, ItemsNew
    <3>2. TypedList(items', briefs)
      BY <2>4, <3>1, CutTyped
    <3> QED
      BY <1>0, <2>1, <2>3, <3>2 DEF TypeInv
  <2>5. CASE run[c].step \in {"promote", "forget"} /\ items' \in Cut(Changed(run[c]))
    <3>1. PICK r : r = run[c]
      OBVIOUS
    <3>2. /\ ItemsFine(r.its) /\ r.step \in {"promote", "forget"} /\ TypedList(r.its, briefs)
          /\ r.ev \subseteq Evidence
      BY <1>0, <2>5, <3>1 DEF RunFits, TypedRun
    <3>3. TypedList(Changed(r), briefs) /\ Listed(Changed(r))
      BY <3>2, ChangedTyped, ChangedFine DEF ItemsFine
    <3>4. TypedList(items', briefs)
      BY <2>5, <3>1, <3>3, CutTyped
    <3> QED
      BY <1>0, <2>1, <2>3, <3>4 DEF TypeInv
  <2>6. CASE items' = items
    BY <1>0, <2>1, <2>3, <2>6 DEF TypeInv
  <2> QED
    BY <1>9, <2>4, <2>5, <2>6, KillLeaves
<1>10. CASE UNCHANGED vars
  BY <1>10 DEF vars, TypeInv
<1> QED
  BY <1>2, <1>3, <1>4, <1>5, <1>6, <1>7, <1>8, <1>9, <1>10 DEF Next

(* Nor does one put more receipts on disk than the limit.                  *)
LEMMA ReceiptsStay ==
    ASSUME ReceiptsInv, [Next]_vars
    PROVE  ReceiptsInv'
<1>1. ASSUME NEW type \in Range(Types), StoreContextReceipt(type) PROVE ReceiptsInv'
  <2> DEFINE all == receipts \union {[type |-> type, n |-> written + 1]}
  <2>1. written' = written + 1 /\ receipts' = Pruned(all)
    BY <1>1 DEF StoreContextReceipt
  <2>2. /\ written \in Nat /\ IsFiniteSet(receipts)
        /\ receipts \subseteq [type : Range(Types), n : 1..written]
    BY DEF ReceiptsInv, ReceiptsTyped, ContextReceipts
  <2>3. 1..written \subseteq 1..(written + 1) /\ written + 1 \in 1..(written + 1)
        /\ 1..(written + 1) \subseteq Nat
    BY <2>2
  <2>4. all \subseteq [type : Range(Types), n : 1..(written + 1)]
    BY <2>2, <2>3
  <2>5. IsFiniteSet(all)
    BY <2>2, FS_AddElement
  <2> HIDE DEF all
  <2>6. all \subseteq AllReceipts
    BY <2>3, <2>4 DEF AllReceipts
  <2>7. IsFiniteSet(Pruned(all)) /\ Cardinality(Pruned(all)) <= MaxReceipts /\ Pruned(all) \subseteq all
    BY <2>5, <2>6, PrunedBounded DEF Pruned
  <2> QED
    BY <2>1, <2>2, <2>4, <2>7 DEF ReceiptsInv, ReceiptsTyped, ContextReceipts
<1>2. CASE UNCHANGED <<receipts, written>>
  BY <1>2 DEF ReceiptsInv, ReceiptsTyped, ContextReceipts
<1>3. {"memory_promotion_receipt", "context_conflict_receipt", "context_exclusion_receipt",
       "work_brief_receipt", "agent_context_decision_receipt"} \subseteq Range(Types)
  <2>1. /\ DOMAIN Types = 1..5
        /\ Types[1] = "agent_context_decision_receipt" /\ Types[2] = "context_conflict_receipt"
        /\ Types[3] = "context_exclusion_receipt" /\ Types[4] = "memory_promotion_receipt"
        /\ Types[5] = "work_brief_receipt"
    BY DEF Types
  <2>2. \A k \in 1..5 : Types[k] \in Range(Types)
    BY <2>1 DEF Range
  <2> QED
    BY <2>1, <2>2
<1>4. ASSUME NEW c \in Commands, PromotionReceipt(c) \/ ConflictReceipt(c) \/ ExclusionReceipt(c)
                                 \/ BriefReceipt(c) \/ DecisionReceipt(c)
      PROVE  ReceiptsInv'
  <2>1. \/ UNCHANGED <<receipts, written>>
        \/ \E type \in {"memory_promotion_receipt", "context_conflict_receipt",
                        "context_exclusion_receipt", "work_brief_receipt",
                        "agent_context_decision_receipt"} : StoreContextReceipt(type)
    BY <1>4 DEF PromotionReceipt, ConflictReceipt, ExclusionReceipt, BriefReceipt, DecisionReceipt
  <2> QED
    BY <1>1, <1>2, <1>3, <2>1
<1> QED
  BY <1>2, <1>4 DEF Next, vars, Discover, StoreItems, StoreBrief, Load, PromoteItem, ForgetItem,
     Answer, Kill

(* The items on disk and in briefs are what they should be, and no more    *)
(* receipts are kept than the limit allows, whichever commands overlap.    *)
THEOREM TypeInvariant == Spec => []TypeInv
<1>1. ASSUME Init PROVE TypeInv
  <2>1. /\ items = <<>> /\ latest = {} /\ briefs = 0 /\ runs = 0 /\ raced = FALSE
        /\ run = [c \in Commands |-> Idle]
    BY <1>1 DEF Init
  <2>2. TypedList(<<>>, 0)
    BY DEF TypedList
  <2>3. TypedRun(Idle, 0)
    BY DEF TypedRun, Idle, Steps, BriefSteps
  <2>4. TypedList(items, briefs) /\ \A c \in Commands : TypedRun(run[c], briefs)
    BY <2>1, <2>2, <2>3
  <2>5. briefs \in Nat /\ runs \in Nat /\ briefs <= runs /\ runs <= MaxRuns
    BY <2>1, BoundsAssumption
  <2> QED
    BY <2>1, <2>4, <2>5 DEF TypeInv
<1> QED
  BY <1>1, MemoryInit, MemoryStep, TypesStay, PTL DEF Spec

(* pruneReceipts keeps within its limit and touches nothing else.          *)
THEOREM ReceiptsInvariant == Spec => []ReceiptsInv
<1>1. Init => ReceiptsInv
  BY BoundsAssumption, FS_EmptySet DEF Init, ReceiptsInv, ReceiptsTyped
<1> QED
  BY <1>1, ReceiptsStay, PTL DEF Spec

(* Every variable stays in its type: the items on disk are those of one    *)
(* brief or a prefix of them, a brief's budget divides its items, and no   *)
(* more receipts are kept than the limit (storage.ts, budget.ts).          *)
THEOREM TypeCorrect ==
    Spec => [](ItemsTyped /\ ReceiptsTyped /\ BriefsTyped /\ RunsTyped)
<1>1. TypeInv /\ ReceiptsInv => ItemsTyped /\ ReceiptsTyped /\ BriefsTyped /\ RunsTyped
  <2>1. \A it : TypedItem(it, briefs) => IsItem(it)
    BY DEF TypedItem, IsItem
  <2>2. \A b : TypedBrief(b, briefs) => IsBrief(b)
    BY <2>1 DEF TypedBrief, IsBrief
  <2>3. TypeInv => ItemsTyped /\ BriefsTyped
    BY <2>1, <2>2 DEF TypeInv, TypedList, ItemsTyped, BriefsTyped
  <2>4. TypeInv => RunsTyped
    BY DEF TypeInv, RunsTyped, TypedRun, Steps, BriefSteps
  <2> QED
    BY <2>3, <2>4 DEF ReceiptsInv
<1> QED
  BY <1>1, TypeInvariant, ReceiptsInvariant, PTL
=============================================================================
