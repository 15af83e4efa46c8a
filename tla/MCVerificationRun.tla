------------------------- MODULE MCVerificationRun --------------------------
(* Instances of VerificationRun for TLC.                                   *)
EXTENDS VerificationRun, TLC

Util == [name |-> "util", kinds |-> {}]
Page == [name |-> "page", kinds |-> {"ui_product_surface"}]
Form == [name |-> "form", kinds |-> {"ui_product_surface"}]
Login == [name |-> "login", kinds |-> {"security_sensitive"}]
Guide == [name |-> "guide", kinds |-> {"docs_marketing"}]
Deploy == [name |-> "deploy", kinds |-> {"release_readiness"}]
Lock == [name |-> "lock", kinds |-> {"dependency_package"}]
Route == [name |-> "route", kinds |-> {"api_backend", "model_routing_control"}]

Here(files) == [files |-> files, readable |-> TRUE]
Elsewhere(files) == [files |-> files, readable |-> FALSE]

CONSTANTS p1, p2

(* A security file alone, and one outvoted by two pages.                   *)
SomeChanges == {<<Login>>, <<Page, Form, Login>>, <<Guide>>, <<Lock>>, <<Route>>}

(* Only the first process tries every list; the other one, with a small    *)
(* change, is there for the receipts.                                      *)
SomeCommands == p1 :> {Here(c) : c \in SomeChanges} \cup {Elsewhere(<<Login>>)}
                @@ p2 :> {Here(<<Util>>)}
OneRelease == p1 :> {Here(<<Deploy>>)}

Plain == [scripts |-> {"build", "test"}, manifest |-> TRUE, browser |-> FALSE,
          schema |-> "none", dirty |-> FALSE, secrets |-> {}, noisy |-> {}]
Bare == [Plain EXCEPT !.scripts = {}, !.manifest = FALSE, !.schema = "valid"]
Leaky == [Plain EXCEPT !.scripts = {"build"}, !.secrets = {"login", "form"}]
Strict == [Plain EXCEPT !.scripts = {"test", "lint"}, !.browser = TRUE, !.schema = "invalid",
                        !.noisy = {"guide"}]

SomeProjects == {Bare, Leaky, Strict}
DirtyProjects == {[Plain EXCEPT !.dirty = d] : d \in BOOLEAN}
=============================================================================
