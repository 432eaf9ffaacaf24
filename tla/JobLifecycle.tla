---------------------------- MODULE JobLifecycle ----------------------------
(***************************************************************************)
(* What the P41 runtime promises about a job, with no word about tables,   *)
(* tokens, leases, workers or transactions: a job is offered once, is held *)
(* by one owner at a time, is charged one attempt for each time it is lost *)
(* or fails, is offered again only within its budget, and rests for good   *)
(* once it is done or buried.                                              *)
(***************************************************************************)
EXTENDS Naturals

CONSTANTS
    Jobs,     \* the jobs there may ever be
    Budget    \* [Jobs -> Nat]: how many attempts a job is worth

VARIABLES
    phase,    \* [Jobs -> Phase]
    charged   \* [Jobs -> Nat]: the attempts used up

abstractVars == <<phase, charged>>

\* A parked job is one that was written down without being offered.
Phase == {"unborn", "parked", "open", "held", "done", "failed", "buried"}

-----------------------------------------------------------------------------
Turn(j, from, to) ==
    /\ phase[j] = from
    /\ phase' = [phase EXCEPT ![j] = to]

Park(j)    == Turn(j, "unborn", "parked") /\ UNCHANGED charged
Offer(j)   == Turn(j, "unborn", "open")   /\ UNCHANGED charged
Claim(j)   == Turn(j, "open", "held")     /\ UNCHANGED charged
Succeed(j) == Turn(j, "held", "done")     /\ UNCHANGED charged
Bury(j)    == Turn(j, "failed", "buried") /\ UNCHANGED charged

Fail(j) ==
    /\ Turn(j, "held", "failed")
    /\ charged' = [charged EXCEPT ![j] = @ + 1]

Retry(j) ==
    /\ charged[j] < Budget[j]
    /\ Turn(j, "failed", "open")
    /\ UNCHANGED charged

\* A sweep may take several jobs back from their owners at once.
TakeBack(S) ==
    /\ \A j \in S : phase[j] = "held"
    /\ phase' = [j \in Jobs |-> IF j \in S THEN "open" ELSE phase[j]]
    /\ UNCHANGED charged

Init ==
    /\ phase = [j \in Jobs |-> "unborn"]
    /\ charged = [j \in Jobs |-> 0]

Next ==
    \/ \E j \in Jobs :
          Park(j) \/ Offer(j) \/ Claim(j) \/ Succeed(j) \/ Fail(j) \/ Retry(j) \/ Bury(j)
    \/ \E S \in SUBSET Jobs : TakeBack(S)

Spec == Init /\ [][Next]_abstractVars
=============================================================================
