--------------------------- MODULE MCRuntimeFlow ----------------------------
(* Instances of RuntimeFlow: what the classifiers may find in a task, and  *)
(* the tools a machine may have.                                           *)
EXTENDS RuntimeFlow

(* Tasks no rule objects to, with every mix of words the planner looks for:*)
(* "product" counts as production, "author" as auth.                       *)
PlainTasks ==
    [kind : {"code", "docs", "tests", "build"}, sensitive : {FALSE}, secret : {FALSE}, safeRun : {"allow"},
     hint : {"none", "bounded"}, safety : {"sandbox_safe", "needs_approval"}, plain : BOOLEAN,
     fake : BOOLEAN, prod : BOOLEAN, pay : {FALSE}, auth : BOOLEAN, ci : BOOLEAN, browser : BOOLEAN,
     dashboard : BOOLEAN, copy : BOOLEAN]

(* Tasks a rule, a hint or the secret boundary objects to.                 *)
RiskyTasks ==
    [kind : Kinds, sensitive : BOOLEAN, secret : BOOLEAN, safeRun : {"allow", "require_approval", "block"},
     hint : Hints, safety : SafetyClasses, plain : {TRUE},
     fake : {FALSE}, prod : BOOLEAN, pay : BOOLEAN, auth : {FALSE}, ci : {FALSE}, browser : {FALSE},
     dashboard : BOOLEAN, copy : {FALSE}]

AllTasks == PlainTasks \union {t \in RiskyTasks : t.kind = "remediation" => t.safeRun = "allow"}

(* An empty one, one that looks like it had tools, and three that do.      *)
SomeMachines == {{}, {".git", ".semgrep"}, {"semgrep in PATH"}, {"CLAUDE.md", "AGENTS.md"},
                 {"gh in PATH", "playwright module", ".aider.conf.yml"}}
=============================================================================
