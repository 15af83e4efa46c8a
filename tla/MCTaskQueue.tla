---------------------------- MODULE MCTaskQueue ----------------------------
(* Instances of TaskQueue for TLC.                                         *)
EXTENDS TaskQueue

Small == [maxConcurrent |-> 1, maxQueueSize |-> 1]
Wide == [maxConcurrent |-> 2, maxQueueSize |-> 2]

TwoConfigs == {Small, Wide}
=============================================================================
