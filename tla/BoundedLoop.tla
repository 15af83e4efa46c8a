---------------------------- MODULE BoundedLoop ----------------------------
(***************************************************************************)
(* What a bounded agent loop promises, whatever the agent does: it never   *)
(* works more than Budget times, it does no work after a blocking finding, *)
(* and it publishes one verdict.  A loop, whose checks are only signals,   *)
(* cannot declare the work done; it asks for more only if its limit is not *)
(* exactly its budget, all of the budget is used and nothing was blocked.  *)
(***************************************************************************)
EXTENDS Naturals

CONSTANTS Budget,   \* how often it may work
          Exact     \* is the limit it was given its budget?

VARIABLES phase,    \* "running", "ending", "ended", "crashed"
          used,     \* iterations worked
          tainted,  \* a blocking finding was made
          verdict   \* what was published: "none", "STOP_BLOCKED" or "CONTINUE"

aVars == <<phase, used, tainted, verdict>>

AInit ==
    /\ phase = "running"
    /\ used = 0
    /\ tainted = FALSE
    /\ verdict = "none"

Work ==
    /\ phase = "running" /\ ~tainted
    /\ used < Budget
    /\ used' = used + 1
    /\ tainted' \in BOOLEAN
    /\ phase' \in IF tainted' THEN {"ending"} ELSE {"running", "ending"}
    /\ UNCHANGED verdict

Stop ==
    /\ phase = "running"
    /\ phase' = "ending"
    /\ UNCHANGED <<used, tainted, verdict>>

Publish ==
    /\ phase = "ending" /\ verdict = "none"
    /\ \/ verdict' = "STOP_BLOCKED"
       \/ ~Exact /\ ~tainted /\ used = Budget /\ verdict' = "CONTINUE"
    /\ UNCHANGED <<phase, used, tainted>>

End ==
    /\ phase = "ending" /\ verdict # "none"
    /\ phase' = "ended"
    /\ UNCHANGED <<used, tainted, verdict>>

Fail ==
    /\ phase \in {"running", "ending"}
    /\ phase' = "crashed"
    /\ UNCHANGED <<used, tainted, verdict>>

ANext == Work \/ Stop \/ Publish \/ End \/ Fail

ASpec == AInit /\ [][ANext]_aVars
=============================================================================
