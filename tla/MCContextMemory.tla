--------------------------- MODULE MCContextMemory ---------------------------
(***************************************************************************)
(* Values for the constants of ContextMemory: three repositories with      *)
(* three sections each.                                                    *)
(***************************************************************************)
EXTENDS ContextMemory, TLC

CONSTANTS c1, c2

TwoCommands == {c1, c2}
CommandSymmetry == Permutations(TwoCommands)

Plain == [kind |-> "file", path |-> "docs", type |-> "artifact", claude |-> FALSE, says |-> {},
          age |-> "current", tokens |-> 1, impact |-> FALSE, json |-> FALSE,
          unreadable |-> FALSE, secret |-> FALSE, sensitive |-> FALSE]
ReadyText == {"unverified ready", "ready claim", "production", "finished"}

Receipt == [Plain EXCEPT !.kind = "receipt", !.path = "receipt", !.json = TRUE, !.type = "proof", !.says = ReadyText]
Readme == [Plain EXCEPT !.path = "README.md", !.type = "instruction", !.says = {"permits", "ready claim"},
                        !.tokens = 2]
Policy == [Plain EXCEPT !.kind = "policy", !.path = "policy", !.type = "policy", !.says = {"prohibits"},
                        !.tokens = 2]
Handoff == [Plain EXCEPT !.path = "handoff", !.type = "handoff", !.age = "stale", !.says = {"deploy missing"}]
Claim == [Plain EXCEPT !.path = "claim", !.says = ReadyText]
Leak == [Plain EXCEPT !.path = "leak", !.secret = TRUE]
Sensitive == [Plain EXCEPT !.path = "credentials.md", !.sensitive = TRUE, !.kind = "receipt", !.type = "proof"]

Work(sections, signals) == [sections |-> sections, signals |-> signals \union {"no release receipt"}]

Repositories == {Work(<<Readme, Receipt, Policy>>, {"feature branch", "ship words"}),
                 Work(<<Sensitive, Claim, Handoff>>, {"docs branch", "docs words"}),
                 Work(<<Leak, Handoff, Receipt>>, {"activated"})}

SmallReserved == <<2, 2, 1, 1, 2>>
=============================================================================
