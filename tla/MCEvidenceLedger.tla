-------------------------- MODULE MCEvidenceLedger --------------------------
(* Instances of EvidenceLedger: two sessions, a command that records their *)
(* value, and what may be imported.                                        *)
EXTENDS EvidenceLedger

CONSTANTS s1, s2, c1, c2
TwoSessions == {s1, s2}
OneSession == {s1}
OneRecorder == {c1}
OneReporter == {c2}
SessionSymmetry == Permutations(TwoSessions)

In(conf, total, cost, currency) ==
    [conf |-> conf, input |-> Unknown, output |-> Unknown, total |-> total,
     cost |-> cost, currency |-> currency, raw |-> FALSE]

(* Tokens without a cost, costs of two currencies; and, before, a cost     *)
(* that is an estimate.                                                    *)
SomeImports == {In("imported", 5, Unknown, NoCurrency), In("measured", 5, 2, "usd"),
                In("imported", 5, 1, "eur")}
AnEstimate == {In("estimated", Unknown, 4, "usd")}
=============================================================================
