---------------------------- MODULE WorkContract ----------------------------
(***************************************************************************)
(* The work contract and the work controls: how a task becomes a route, a  *)
(* risk, a proof tier, an approval policy and a gate                       *)
(* (kernel/work-contract/routing.ts, kernel/work-controls).  All of it is  *)
(* a function of the task.                                                 *)
(*                                                                         *)
(* The texts the regular expressions read are left out.  A task t is what  *)
(* they find in it:                                                        *)
(*   safeRun    what the secret boundary's safe-run check decides          *)
(*   kind       the first rule of routeWorkContract that fits; its seventh *)
(*              tells what mentions tests from other docs, and tests from  *)
(*              a build, a lint or a check of types                        *)
(*   sensitive  a sensitive word or path                                   *)
(*   secret     a raw credential in the text                               *)
(*   hint       the strongest hint of detectProposalHints                  *)
(***************************************************************************)
EXTENDS Naturals

Gates == {"allow", "require_approval", "blocked"}
Kinds == {"remediation", "scope", "deploy", "browser", "auth", "docs", "docs and tests",
          "tests", "build", "code"}
Hints == {"destructive", "risky", "bounded", "none"}
ActionVerdicts == {"allow", "allow_with_bounds", "suggest_safer_action", "require_approval", "block"}

ProofRank == [none |-> 0, local |-> 1, tests |-> 2, browser |-> 3, production |-> 4]
MaxProof(a, b) == IF ProofRank[a] >= ProofRank[b] THEN a ELSE b

(* No rule chooses deep reasoning.                                         *)
RiskClasses == {"low", "medium", "high", "critical"}
Routes == {"deterministic_only", "targeted_code_edit", "browser_proof_required", "needs_decision", "blocked"}
ApprovalPolicies == {"none", "require_confirmation", "require_manual_review", "blocked"}
EnrichedWorkContracts ==
    [risk : RiskClasses, route : Routes, proof : DOMAIN ProofRank, approval : ApprovalPolicies]

Contract(risk, route, proof, approval) ==
    [risk |-> risk, route |-> route, proof |-> proof, approval |-> approval]

Blocked == Contract("critical", "blocked", "none", "blocked")

(* The rules, before the safety boundary has the last word.                *)
RouteRules(t) ==
    CASE t.kind = "remediation" ->
            Contract(IF t.sensitive THEN "critical" ELSE "high", "targeted_code_edit", "tests",
                     IF t.sensitive THEN "require_manual_review" ELSE "require_confirmation")
      [] t.kind = "scope"   -> Contract("medium", "needs_decision", "tests", "require_confirmation")
      [] t.kind = "deploy"  -> Contract("critical", "needs_decision", "production", "require_manual_review")
      [] t.kind = "browser" -> Contract("high", "browser_proof_required", "browser", "require_confirmation")
      [] t.kind = "auth"    -> Contract("high", "targeted_code_edit", "tests", "require_manual_review")
      [] t.kind \in {"docs", "docs and tests"} ->
            Contract("low", "targeted_code_edit", IF t.kind = "docs" THEN "local" ELSE "tests", "none")
      [] t.kind \in {"tests", "build"} ->
            Contract("low", "deterministic_only", IF t.kind = "tests" THEN "tests" ELSE "local", "none")
      [] t.kind = "code"    ->
            Contract(IF t.sensitive THEN "high" ELSE "medium", "targeted_code_edit",
                     IF t.sensitive THEN "tests" ELSE "local",
                     IF t.sensitive THEN "require_confirmation" ELSE "none")

(* The boundary may raise the approval, the risk and the proof, never      *)
(* lower them.                                                             *)
Assemble(c, t) ==
    LET asked == IF t.safeRun = "require_approval" /\ c.approval = "none"
                 THEN [c EXCEPT !.approval = "require_manual_review"] ELSE c
    IN CASE t.safeRun = "block" -> Blocked
         [] t.safeRun # "block" /\ t.secret ->
              [asked EXCEPT !.approval = IF @ = "blocked" THEN @ ELSE "require_manual_review",
                            !.risk = IF @ \in {"low", "medium"} THEN "high" ELSE @,
                            !.proof = MaxProof(@, "tests")]
         [] OTHER -> asked

RouteWorkContract(t) ==
    IF t.safeRun = "block" THEN Assemble(Blocked, t) ELSE Assemble(RouteRules(t), t)

(* The gate of decideRouting.                                              *)
RouteGate(c) ==
    CASE c.route = "blocked" \/ c.approval = "blocked" -> "blocked"
      [] c.route # "blocked" /\ c.approval \in {"require_manual_review", "require_confirmation"}
            -> "require_approval"
      [] OTHER -> "allow"

(***************************************************************************)
(* Work controls: is the action worth doing without asking?                *)
(***************************************************************************)
EvaluateActionWorthiness(t, c) ==
    LET byHint == CASE t.hint = "destructive" -> "block"
                    [] t.hint = "risky" -> "require_approval"
                    [] t.hint = "bounded" -> "allow_with_bounds"
                    [] t.hint = "none" -> "allow"
    IN CASE c.approval = "blocked" -> "block"
         [] c.approval # "blocked" /\ c.approval # "none" /\ byHint = "allow" -> "suggest_safer_action"
         [] OTHER -> byHint

(* The gate a runtime session obeys.                                       *)
MergeRuntimeGate(baseGate, verdict) ==
    CASE baseGate = "blocked" \/ verdict = "block" -> "blocked"
      [] /\ baseGate # "blocked" /\ verdict # "block"
         /\ \/ baseGate = "require_approval"
            \/ verdict \in {"require_approval", "suggest_safer_action"} -> "require_approval"
      [] OTHER -> "allow"
=============================================================================
