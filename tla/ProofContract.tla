--------------------------- MODULE ProofContract ----------------------------
(***************************************************************************)
(* What `avorelo prove` asks for and how it judges: the capabilities of a  *)
(* project, the work type of the changed files, the proof contract, what   *)
(* each proof adapter hands back, and the evidence gate.  All of it is     *)
(* pure; VerificationRun puts the calls in order.                          *)
(*                                                                         *)
(* A file is [name, kinds], kinds being the work types whose path patterns *)
(* it matches.  A project is [scripts, manifest, browser, schema, dirty,   *)
(* secrets, noisy]: the package.json scripts found, whether there is a     *)
(* package.json, browser tooling, the API schema, the git state, and the   *)
(* names of the files in which a scanner would find something.             *)
(***************************************************************************)
EXTENDS Integers, Sequences, FiniteSets, FiniteSetsExt

CONSTANTS ScanLimit,      \* changed files the secret scan reads (50 in the code)
          SurfaceLimit    \* changed files the surface scan reads (100 in the code)

ASSUME LimitsAssumption == ScanLimit \in Nat /\ SurfaceLimit \in Nat

Scripts == {"build", "test", "lint", "typecheck"}
Schemas == {"none", "valid", "invalid"}

(* The order of the keys of scores, which decides between equal scores.    *)
WorkTypes == <<"quick_code_fix", "ui_product_surface", "api_backend", "security_sensitive",
               "dependency_package", "docs_marketing", "release_readiness",
               "activation_onboarding", "dashboard_receipt", "model_routing_control">>
WorkTypeSet == {WorkTypes[i] : i \in DOMAIN WorkTypes} \cup {"unknown_mixed"}

(***************************************************************************)
(* Discovery and the contract                                              *)
(***************************************************************************)
DiscoverCapabilities(project) ==
    [scripts |-> project.scripts, browser |-> project.browser,
     api |-> project.schema # "none", dirty |-> project.dirty]

PathScore(files, type) ==
    (IF type = "security_sensitive" THEN 3 ELSE 2)
      * Cardinality({i \in DOMAIN files : type \in files[i].kinds})

(* A small change that no kind stands out of is a quick fix.               *)
Score(files, type) ==
    IF type = "quick_code_fix"
    THEN IF Len(files) <= 3 /\ \A t \in WorkTypeSet : PathScore(files, t) <= 2 THEN 1 ELSE 0
    ELSE PathScore(files, type)

(* The first of the greatest scores; nothing scores for no files at all.   *)
InferWorkType(files) ==
    LET best == Max({Score(files, WorkTypes[i]) : i \in DOMAIN WorkTypes})
    IN IF files = <<>> \/ best = 0 THEN "unknown_mixed"
       ELSE WorkTypes[Min({i \in DOMAIN WorkTypes : Score(files, WorkTypes[i]) = best})]

When(condition, set) == IF condition THEN set ELSE {}
Need(id, critical, adapter) == [id |-> id, critical |-> critical, adapter |-> adapter]

(* What the work type adds to the contract.                                *)
RequiredForType(type, caps) ==
    CASE type = "ui_product_surface" ->
           {Need("product_surface", TRUE, "product-surface")}
             \cup When(caps.browser, {Need("browser_proof", TRUE, "ui-browser")})
      [] type = "api_backend" ->
           When(caps.api, {Need("api_contract", TRUE, "api-contract")})
      [] type = "security_sensitive" ->
           {Need(id, TRUE, "security-secrets") : id \in {"secret_scan", "no_raw_secrets"}}
      [] type = "dependency_package" -> {Need("dep_audit", TRUE, "security-secrets")}
      [] type = "docs_marketing" -> {Need("claims_check", TRUE, "product-surface")}
      [] type = "release_readiness" ->
           {Need("clean_worktree", TRUE, "build-test"),
            Need("product_surface", TRUE, "product-surface")}
      [] type \in {"activation_onboarding", "dashboard_receipt"} ->
           {Need("product_surface", TRUE, "product-surface")}
      [] type = "model_routing_control" -> {Need("routing_proof", FALSE, "build-test")}
      [] OTHER -> {}

BuildRequiredProof(type, caps) ==
    {Need("artifact_guard", TRUE, "security-secrets")}
      \cup When("build" \in caps.scripts, {Need("build_pass", TRUE, "build-test")})
      \cup When("test" \in caps.scripts,
                {Need("tests_pass", type # "docs_marketing", "build-test")})
      \cup RequiredForType(type, caps)

BuildOptionalProof(type, caps) ==
    When("lint" \in caps.scripts, {Need("lint_pass", FALSE, "build-test")})
      \cup When("typecheck" \in caps.scripts, {Need("typecheck_pass", FALSE, "build-test")})
      \cup When(type = "ui_product_surface" /\ ~caps.browser,
                {Need("manual_ui_check", FALSE, "ui-browser")})

GenerateProofContract(files, caps) ==
    LET type == InferWorkType(files)
    IN [type |-> type, required |-> BuildRequiredProof(type, caps),
        optional |-> BuildOptionalProof(type, caps)]

(***************************************************************************)
(* The adapters.  ui-browser is never run: it refuses to run automatically *)
(* and no caller names it.                                                 *)
(***************************************************************************)
Found(type, passed) == [type |-> type, passed |-> passed]
Result(adapter, status, evidence) ==
    [adapter |-> adapter, status |-> status, evidence |-> evidence]
Status(pass) == IF pass THEN "pass" ELSE "fail"

(* In the order of ALL_ADAPTERS, those that apply to the project.          *)
AutomaticAdapters(caps) ==
    (IF caps.scripts \cap {"build", "test"} # {} THEN <<"build-test">> ELSE <<>>)
      \o <<"security-secrets", "product-surface">>
      \o (IF caps.api THEN <<"api-contract">> ELSE <<>>)

(* ok: the scripts that end well. A lint failure is evidence without       *)
(* consequence for the status.                                             *)
BuildTest(caps, ok) ==
    Result("build-test",
           IF caps.scripts = {} THEN "skip" ELSE Status(caps.scripts \ {"lint"} \subseteq ok),
           {Found(s, s \in ok) : s \in caps.scripts})

FirstNames(files, limit) == {files[i].name : i \in 1..Min({Len(files), limit})}

(* A command is [files, readable]: the paths of --files, and whether they  *)
(* lead to files from the directory the command was started in (those of a *)
(* project given by --target need not).                                    *)
(* audit: npm audit is clean, or fails in a way that counts as clean.      *)
SecuritySecrets(project, command, audit) ==
    LET hit == command.readable /\ FirstNames(command.files, ScanLimit) \cap project.secrets # {}
        evidence == {IF hit THEN Found("secret_finding", FALSE)
                     ELSE Found("no_secret_findings", TRUE)}
                    \cup When(project.manifest, {Found("package_audit", audit)})
    IN Result("security-secrets", Status(\A e \in evidence : e.passed), evidence)

ProductSurface(project, command) ==
    LET hit == command.readable /\ FirstNames(command.files, SurfaceLimit) \cap project.noisy # {}
    IN Result("product-surface", Status(~hit),
              {IF hit THEN Found("noisy_ui", FALSE) ELSE Found("product_surface_clean", TRUE)})

ApiContract(project) ==
    CASE project.schema = "none" ->
           Result("api-contract", "skip", {Found("api_schema_missing", TRUE)})
      [] project.schema = "valid" ->
           Result("api-contract", "pass", {Found("api_schema_valid", TRUE)})
      [] project.schema = "invalid" ->
           Result("api-contract", "fail", {Found("api_schema_invalid", FALSE)})

(***************************************************************************)
(* The evidence gate                                                       *)
(***************************************************************************)
RelevantEvidence(id) ==
    CASE id = "build_pass" -> {"build"}
      [] id = "tests_pass" -> {"test"}
      [] id = "artifact_guard" -> {"no_secret_findings", "product_surface_clean"}
      [] id \in {"secret_scan", "no_raw_secrets"} -> {"no_secret_findings"}
      [] id = "dep_audit" -> {"package_audit"}
      [] id \in {"product_surface", "claims_check"} -> {"product_surface_clean"}
      [] id = "browser_proof" -> {"browser_tooling_detected"}
      [] id = "api_contract" -> {"api_schema_valid"}
      [] OTHER -> {}

(* Slip: a requirement for which there is no evidence is met.              *)
SlipNoEvidencePasses(req, results) ==
    \E r \in results :
        /\ r.adapter = req.adapter
        /\ \A e \in r.evidence : e.type \in RelevantEvidence(req.id) => e.passed

(* matchRequirementToResult: without evidence of the kinds that belong to  *)
(* the requirement, the status of the whole adapter decides.               *)
Satisfied(req, results) ==
    \E r \in results :
        LET relevant == {e \in r.evidence : e.type \in RelevantEvidence(req.id)} IN
        /\ r.adapter = req.adapter
        /\ IF r.status = "skip" THEN ~req.critical
           ELSE IF relevant = {} THEN r.status = "pass"
           ELSE \A e \in relevant : e.passed

EvaluateEvidence(contract, results) ==
    LET open == {q \in contract.required \cup contract.optional : ~Satisfied(q, results)}
        safe == \A q \in open : ~q.critical
    IN [safe |-> safe,
        overall |-> IF ~safe THEN "blocked" ELSE IF open = {} THEN "safe" ELSE "needs_review"]
=============================================================================
