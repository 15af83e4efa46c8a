--------------------------- MODULE MCLoopControl ---------------------------
(* Instances of LoopControl for TLC.  "src" is inside the allow list,      *)
(* "docs" outside it, "billing" disallowed.                                *)
EXTENDS LoopControl

TwoFiles == {"docs", "billing"}
OneFile == {"src"}
Nothing == {}

(* --max 3.5: three iterations, and a limit that is never reached.         *)
ThreeAndAHalf == [kind |-> "fraction", n |-> 3]
Blocklist == {"billing"}
=============================================================================
