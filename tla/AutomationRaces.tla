--------------------------- MODULE AutomationRaces ---------------------------
(***************************************************************************)
(* The P41 runtime with the start, the completion, the failure and the     *)
(* recovery of an execution split where the database splits them.  Each    *)
(* reads its rows without a lock, compares them, and ends with UPDATEs     *)
(* that name rows by id: they write the columns the request has changed,   *)
(* whatever the rows have become, and leave the other columns alone.  So   *)
(* any request may commit between the read and the commit, the operations  *)
(* of the base module included, which stay single steps: they are the      *)
(* requests that nothing overtakes.                                        *)
(*                                                                         *)
(* A completion and a failure read the job last: the query flushes the     *)
(* run's outcome first, which locks the run's row, and no request moves an *)
(* owned job without writing its run.  So their comparison of the token is *)
(* made in the step of the commit, with rows that may have changed since   *)
(* the lease and the run were read.                                        *)
(***************************************************************************)
EXTENDS AutomationRecovery

CONSTANT MaxReads    \* bound on requests between their reads and their commit

VARIABLE reads       \* those requests, with the rows they have read

racesVars == <<vars, reads>>

-----------------------------------------------------------------------------
(* Reads                                                                    *)

NoRun == 0

\* What the session of a request holds after its last read.
View(op, w, t, e) ==
    [op     |-> op,
     worker |-> w,
     token  |-> t,
     run    |-> e,
     job    |-> lease[t].job,
     sawWorker |-> worker[w],
     sawLease  |-> lease[t],
     sawJob    |-> job[lease[t].job]]

Read(op, w, t, e) ==
    /\ Cardinality(reads) < MaxReads
    /\ reads' = reads \cup {View(op, w, t, e)}
    /\ UNCHANGED vars

\* start_job_execution up to the look for an execution of the job.
ReadStart(w, t) == MayStart(w, t) /\ Read("start", w, t, NoRun)

\* complete_job_execution and fail_job_execution up to their run.
ReadEnd(op, w, t, e) == NewestRun(w, t, e) /\ Read(op, w, t, e)

\* recover_expired_execution up to its last check.
ReadRecover(e, t) == Recoverable(e, t) /\ Read("recover", exec[e].worker, t, e)

-----------------------------------------------------------------------------
(* Commits                                                                  *)

Done(v) == reads' = reads \ {v}

\* The rest of start_job_execution.
CommitStart(v, e) ==
    /\ v.op = "start"
    /\ NextRow(e)
    /\ worker' = [worker EXCEPT ![v.worker].status =
                     IF v.sawWorker.status = "RESERVED" THEN "RUNNING" ELSE @]
    /\ job' = [job EXCEPT ![v.job].status =
                  IF v.sawJob.status = "RESERVED" THEN "RUNNING" ELSE @]
    /\ exec' = [exec EXCEPT ![e] = [status |-> "STARTED", worker |-> v.worker, job |-> v.job]]
    /\ Done(v)
    /\ UNCHANGED <<queue, issue, lease, beaten, inflight, recoveryVars>>

\* The run's outcome commits with the job's, and the request goes on.
EndRun(v, outcome) ==
    /\ Cardinality(inflight) < MaxInFlight
    /\ exec' = [exec EXCEPT ![v.run].status = outcome]
    /\ inflight' = inflight \cup {[op |-> "finish", worker |-> v.worker, token |-> v.token,
                                   job |-> v.job]}
    /\ Done(v)
    /\ UNCHANGED <<worker, lease, beaten, recoveryVars>>

\* SLIP: the token is compared with the job as it was when the run was read.
CommitCompleteAsRead(v) ==
    /\ v.op = "complete"
    /\ v.sawJob.token = v.token
    /\ job' = [job EXCEPT ![v.job] = Settled(@, "COMPLETED")]
    /\ EndRun(v, "COMPLETED")
    /\ UNCHANGED <<queue, issue>>

\* The rest of complete_job_execution, up to the ledger's commit.
CommitComplete(v) ==
    /\ v.op = "complete"
    /\ MarkCompleted(v.job, v.token)
    /\ EndRun(v, "COMPLETED")

\* The rest of fail_job_execution, up to the ledger's commit.
CommitFail(v, reason) ==
    /\ v.op = "fail"
    /\ MarkFailed(v.job, v.token, <<v.worker, reason>>)
    /\ EndRun(v, "FAILED")

\* SLIP: the job is left to whoever owns it.
CommitRecoverWithoutJob(v) ==
    /\ v.op = "recover"
    /\ exec' = [exec EXCEPT ![v.run].status = "ABANDONED"]
    /\ Done(v)
    /\ UNCHANGED <<jobVars, worker, lease, beaten, inflight, recoveryVars>>

\* The rest of recover_expired_execution.  If the run was recovered meanwhile,
\* the failure event repeats a checksum unless its type, the lease's status or
\* the job's differ; that refusal is left out.
CommitRecover(v) ==
    /\ v.op = "recover"
    /\ lease' = [lease EXCEPT ![v.token].status =
                    IF v.sawLease.status = "ACTIVE" THEN "EXPIRED" ELSE @]
    /\ exec' = [exec EXCEPT ![v.run].status = "ABANDONED"]
    /\ worker' = [worker EXCEPT
                     ![v.worker].current = IF v.sawWorker.current # NoJob THEN NoJob ELSE @,
                     ![v.worker].status = IF v.sawWorker.status \in Owned THEN "IDLE" ELSE @]
    /\ job' = IF v.sawJob.status \in Owned
              THEN [job EXCEPT ![v.job] = [Settled(@, "FAILED") EXCEPT
                                              !.attempts = v.sawJob.attempts + 1]]
              ELSE job
    /\ Done(v)
    /\ UNCHANGED <<queue, issue, beaten, inflight, recoveryVars>>

-----------------------------------------------------------------------------
RacesInit == Init /\ reads = {}

ReadSome ==
    \/ \E w \in Workers, t \in Tokens :
          \/ ReadStart(w, t)
          \/ \E e \in Execs, op \in {"complete", "fail"} : ReadEnd(op, w, t, e)
    \/ \E e \in Execs, t \in Tokens : ReadRecover(e, t)

CommitSome ==
    \E v \in reads :
        \/ \E e \in Execs : CommitStart(v, e)
        \/ CommitComplete(v)
        \/ \E reason \in Reasons : CommitFail(v, reason)
        \/ CommitRecover(v)

\* The request is refused, or killed before it has written anything.
GiveUp == \E v \in reads : Done(v) /\ UNCHANGED vars

RacesNext == (Next /\ UNCHANGED reads) \/ ReadSome \/ CommitSome \/ GiveUp

RacesSpec == RacesInit /\ [][RacesNext]_racesVars

-----------------------------------------------------------------------------
(* Properties                                                               *)

\* A recovered run stays recovered: a completion or a failure that read its
\* run before the recovery, and commits after it, gives the run no other
\* outcome.
AbandonedIsFinal ==
    [][\A e \in Execs : exec[e].status = "ABANDONED" => exec'[e].status = "ABANDONED"]_racesVars
=============================================================================
