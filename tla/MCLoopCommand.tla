--------------------------- MODULE MCLoopCommand ---------------------------
(* Instances of LoopCommand for TLC.                                       *)
EXTENDS LoopCommand

Absent == [kind |-> "absent", n |-> 0]
NotANumber == [kind |-> "NaN", n |-> 0]
Number(n) == [kind |-> "whole", n |-> n]
TwoAndAHalf == [kind |-> "fraction", n |-> 2]
MinusAHalf == [kind |-> "fraction", n |-> -1]

MCLoops == {"many", "one"}

(* Anything may be asked of the first loop; the second is a plain task     *)
(* with --max 1.                                                           *)
MCRequests ==
    [many |-> [task : TaskKinds, max : {Absent, NotANumber, Number(5), TwoAndAHalf, MinusAHalf}, checks : {{}}],
     one |-> [task : {"plain"}, max : {Number(1)}, checks : {{}}]]

(* test:local hides test: one check with a command.                        *)
MCProject == [packageParses |-> TRUE, scripts |-> {"test", "test:local"}, tools |-> {}]
=============================================================================
