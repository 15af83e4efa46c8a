--------------------------- MODULE MCWorkArtifacts ---------------------------
(* An instance of WorkArtifacts: one task that is ready, one that names a   *)
(* release path, one about billing.                                         *)
EXTENDS WorkArtifacts, TLC

CONSTANTS p1, p2, noTask

Plain(words, class, mentions) ==
    [safeRun |-> "allow", kind |-> "code", sensitive |-> FALSE, secret |-> FALSE, hint |-> "none",
     words |-> words, class |-> class, mentions |-> mentions]

MCProcs == {p1, p2}
MCFacts == [fix |-> Plain({"bug"}, "bug_fix", {"capability"}),
            release |-> Plain({"bug"}, "bug_fix", {"release"}),
            bill |-> [Plain({"billing"}, "feature", {"billing"}) EXCEPT !.kind = "auth", !.sensitive = TRUE],
            docs |-> Plain({"docs"}, "docs", {"release", "docs"}),
            tidy |-> Plain({}, "feature", {"deploy", "env"}),
            look |-> Plain({"feature"}, "feature", {"board", "pages"}),
            login |-> [Plain({"security"}, "feature", {"auth"}) EXCEPT !.kind = "auth", !.sensitive = TRUE]]
MCThree == {"fix", "release", "look"}
MCBases == {[upstream |-> "own", ancestors |-> {"main"}], [upstream |-> "none", ancestors |-> {"feature", "main"}]}
MCFeature == {[upstream |-> "none", ancestors |-> {"feature", "main"}]}
MCSessions == {noTask, "look"}
MCBilled == {"fix", "bill"}
MCPresent == {"srcDir", "testsDir", "docsDir", "capability", "release", "billing", "readme", "docs",
              "deploy", "env", "board", "pages", "auth", "package", "capabilityDir", "surfacesDir"}
MCFew == {"capability", "deploy", "billing"}
Symmetry == Permutations(MCProcs)
=============================================================================
