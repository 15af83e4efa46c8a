------------------------- MODULE MCWorkIntelligence -------------------------
(* Two works: a plain one that is allowed, and one that is blocked and      *)
(* whose objective is not stored as it is.                                 *)
EXTENDS WorkIntelligence, TLC

Ref(like, form, truth, sensitive) ==
    [like |-> like, form |-> form, there |-> TRUE, truth |-> truth, sensitive |-> sensitive]

Allowed ==
    [id |-> "fix the tests", plain |-> TRUE, gate |-> "allow", route |-> "deterministic_only", risk |-> "low",
     tier |-> "tests", approval |-> "none", words |-> {"tests"}, refs |-> {Ref("public", "nested", TRUE, FALSE),
     Ref("tests", "pattern", FALSE, FALSE)}, capabilities |-> 5, expects |-> {"proof_report", "context_pack"},
     model |-> FALSE, skipped |-> FALSE]
Blocked == [Allowed EXCEPT !.id = "print secrets", !.plain = FALSE, !.gate = "blocked", !.route = "blocked", !.risk = "critical",
     !.tier = "none", !.approval = "blocked", !.words = {}, !.refs = {}]

MCWorks == {Allowed, Blocked}
Receipt(decision, proofs) ==
    [decision |-> decision, proofs |-> proofs, old |-> FALSE, unsafe |-> FALSE, dirty |-> FALSE]
MCReceiptSets == {{Receipt("STOP_DONE", FALSE), Receipt("STOP_BLOCKED", TRUE)}}

Symmetry == Permutations(Sessions)
=============================================================================
