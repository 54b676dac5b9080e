---------------------------- MODULE CheckQueueAbs ----------------------------
(***************************************************************************)
(* What ConnectBlock relies on when it uses CCheckQueueControl             *)
(* (src/src/checkqueue.h): a sequential object.  Checks are added while it *)
(* is open; once it is closed it delivers one verdict, the conjunction of  *)
(* all of its checks, or none when the block has been given up.            *)
(***************************************************************************)
CONSTANTS Checks, Fails

VARIABLES phase, added, verdict

vars == <<phase, added, verdict>>

Init == phase = "idle" /\ added = {} /\ verdict = "none"

Open ==
    /\ phase = "idle"
    /\ phase' = "open"
    /\ added' = {}
    /\ verdict' = "none"

Add ==
    /\ phase = "open"
    /\ \E S \in SUBSET (Checks \ added) : added' = added \cup S
    /\ UNCHANGED <<phase, verdict>>

Close ==
    /\ phase = "open"
    /\ phase' = "draining"
    /\ UNCHANGED <<added, verdict>>

Finish ==
    /\ phase = "draining"
    /\ phase' = "idle"
    /\ verdict' \in {"aborted", IF added \cap Fails = {} THEN "valid" ELSE "invalid"}
    /\ UNCHANGED added

\* The process ends inside the destructor's Wait.
Terminate ==
    /\ phase = "draining"
    /\ phase' = "terminated"
    /\ UNCHANGED <<added, verdict>>

Next == Open \/ Add \/ Close \/ Finish \/ Terminate

Spec == Init /\ [][Next]_vars
FairSpec == Spec /\ WF_vars(Finish)
=============================================================================
