------------------------- MODULE AutomationLiveness -------------------------
(***************************************************************************)
(* Progress of the P41 runtime.                                            *)
(*                                                                         *)
(* Nothing in the code runs by itself: a request that is not killed ends,  *)
(* clocks advance, and everything else is called through the ops routes.   *)
(* The operator the fairness below describes is the one of                 *)
(* docs/P41_OPERATIONS_GUIDE.md: expired leases are released and stale     *)
(* executions recovered whenever there is one to release or to recover.    *)
(* Nothing is assumed of the workers, who may fall silent at any time, nor *)
(* of heartbeats, which need not age: an expired lease is enough.          *)
(*                                                                         *)
(* What the operator can end depends on the faults.  A refused acquire     *)
(* strands its reservation, and a worker that overlaps its own requests,   *)
(* or whose failure died half way, can leave a run that neither operation  *)
(* touches.                                                                *)
(***************************************************************************)
EXTENDS AutomationRecovery

\* The second half of a request of one worker.
ContinueFor(w) ==
    /\ \E r \in inflight : r.worker = w /\ Continue(r)
    /\ UNCHANGED recoveryVars

RequestsEnd == \A w \in Workers : WF_vars(ContinueFor(w))

TimePasses ==
    /\ \A t \in Tokens : WF_vars(LeaseAges(t) /\ UNCHANGED recoveryVars)
    /\ \A j \in Jobs : WF_vars(BecomeReady(j) /\ UNCHANGED <<runtimeVars, recoveryVars>>)

OperatorSweeps ==
    /\ WF_vars(ReleaseExpired /\ UNCHANGED recoveryVars)
    /\ \A e \in Execs : WF_vars(\E t \in Tokens : RecoverExecution(e, t))

FairSpec == Spec /\ RequestsEnd /\ TimePasses /\ OperatorSweeps

-----------------------------------------------------------------------------
(* Properties                                                               *)

\* The reservation of a job has its lease, and no request is at work under the
\* same token.
Leased(j, t) ==
    /\ job[j].status = "RESERVED" /\ job[j].token = t
    /\ lease[t].status = "ACTIVE" /\ lease[t].job = j
    /\ \A r \in inflight : r.token # t

\* No job stays reserved under a lease for good: its worker starts it, or the
\* lease expires and the sweep gives the job back.
ReservationsEnd ==
    \A j \in Jobs : (\E t \in Tokens : Leased(j, t)) ~> job[j].status # "RESERVED"

\* No execution stays open for good: its worker settles it, or its lease
\* expires and it is recovered.
RunsEnd ==
    \A e \in Execs : Running(e) ~> ~Running(e)

\* A worker that an ended reservation or run occupied is free again: the
\* record does not name a job for ever.
WorkersAreFreed ==
    \A w \in Workers : worker[w].current # NoJob ~> worker[w].current = NoJob
=============================================================================
