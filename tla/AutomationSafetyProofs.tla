----------------------- MODULE AutomationSafetyProofs -----------------------
(***************************************************************************)
(* The safety properties of the P41 runtime that hold whatever clients and *)
(* processes do wrong, proved for every instance.  Two lemmas say what a   *)
(* step may do to the job table and to the executions; the invariants      *)
(* follow from them.                                                       *)
(***************************************************************************)
EXTENDS AutomationTypeProofs

-----------------------------------------------------------------------------
(* What a step does to the job table                                        *)

\* What may become of one job's row, whichever action does it.
RowStep(j, old, new) ==
    \/ new = old
    \/ /\ old.status = "ABSENT" /\ new.status \in {"QUEUED", "AVAILABLE"}
       /\ new.token = NoToken /\ new.attempts = 0
    \/ /\ new.token = old.token /\ new.attempts = old.attempts
       /\ \/ old.status = "AVAILABLE" /\ new.status = "AVAILABLE"
          \/ old.status = "RESERVED" /\ new.status = "RUNNING"
          \/ old.status = "FAILED" /\ new.status = "DEAD_LETTER" /\ deadLetter'[j] # "ABSENT"
          \/ old.status = "FAILED" /\ new.status = "AVAILABLE" /\ old.attempts < MaxAttempts[j]
    \/ /\ old.status = "AVAILABLE" /\ new.status = "RESERVED"
       /\ old.token = NoToken /\ new.token \in Tokens /\ new.attempts = old.attempts
    \/ /\ old.status \in Owned /\ new.token = NoToken
       /\ \/ new.status \in {"AVAILABLE", "COMPLETED"} /\ new.attempts = old.attempts
          \/ new.status = "FAILED" /\ new.attempts = old.attempts + 1

\* One job changes, or a sweep takes several reserved ones back.
OneJob(j) ==
    /\ \A k \in Jobs \ {j} : job'[k] = job[k]
    /\ RowStep(j, job[j], job'[j])

SweptJobs ==
    \A j \in Jobs :
        \/ job'[j] = job[j]
        \/ /\ job[j].status = "RESERVED" /\ job'[j].status = "AVAILABLE"
           /\ job'[j].token = NoToken /\ job'[j].attempts = job[j].attempts

JobStep == SweptJobs \/ \E j \in Jobs : OneJob(j)

\* Both ways to create a job write a fresh row, owned by nobody.
LEMMA CreateStep ==
    ASSUME JobsTypeOK, NEW j \in Jobs, CreateRuleJob(j) \/ \E due \in BOOLEAN : CreateJob(j, due)
    PROVE  OneJob(j)
<1>1. CASE CreateRuleJob(j)
  <2>1. /\ job'[j] = [AbsentJob EXCEPT !.status = "QUEUED", !.ready = TRUE, !.rank = 1]
        /\ \A k \in Jobs \ {j} : job'[k] = job[k]
    BY <1>1 DEF CreateRuleJob, JobsTypeOK
  <2> QED
    BY <1>1, <2>1 DEF CreateRuleJob, OneJob, RowStep, AbsentJob
<1>2. ASSUME NEW due \in BOOLEAN, CreateJob(j, due)
      PROVE  OneJob(j)
  <2> DEFINE row(n) == [Moved(AbsentJob, "AVAILABLE") EXCEPT !.ready = due, !.rank = n]
  <2>1. PICK n : job'[j] = row(n) /\ \A k \in Jobs \ {j} : job'[k] = job[k]
    BY <1>2 DEF CreateJob, JobsTypeOK
  <2>2. row(n).status = "AVAILABLE" /\ row(n).token = NoToken /\ row(n).attempts = 0
    BY DEF Moved, AbsentJob
  <2> HIDE DEF row
  <2> QED
    BY <1>2, <2>1, <2>2 DEF CreateJob, OneJob, RowStep
<1> QED
  BY <1>1, <1>2

\* Completion and failure end an ownership and charge at most one attempt.
LEMMA SettleStep ==
    ASSUME JobsTypeOK, NEW j \in Jobs, NEW t \in Tokens,
           MarkCompleted(j, t) \/ \E k \in FailureKeys : MarkFailed(j, t, k)
    PROVE  OneJob(j)
<1> DEFINE start == Started(job[j])
<1>1. job[j] \in JobRow
  BY DEF JobsTypeOK
<1>2. /\ start.status = "RUNNING" => job[j].status \in Owned
      /\ start.attempts = job[j].attempts
      /\ start \in JobRow
  BY <1>1 DEF Started, Moved, Owned, JobRow, JobStatus
<1> HIDE DEF start
<1>3. start.status = "RUNNING"
  BY DEF start, MarkCompleted, MarkFailed, CanMove, AllowedJobTransitions
<1>4. CASE MarkCompleted(j, t)
  <2> DEFINE row == Settled(start, "COMPLETED")
  <2>1. job'[j] = row /\ \A k \in Jobs \ {j} : job'[k] = job[k]
    BY <1>4 DEF start, MarkCompleted, JobsTypeOK
  <2>2. /\ row.status = "COMPLETED" /\ row.token = NoToken
        /\ row.attempts = start.attempts
    BY <1>2 DEF Settled, Moved, JobRow
  <2> QED
    BY <1>2, <1>3, <2>1, <2>2 DEF OneJob, RowStep
<1>5. CASE \E k \in FailureKeys : MarkFailed(j, t, k)
  <2> DEFINE row == [Settled(start, "FAILED") EXCEPT !.attempts = job[j].attempts + 1]
  <2>1. job'[j] = row /\ \A k \in Jobs \ {j} : job'[k] = job[k]
    BY <1>5 DEF start, MarkFailed, JobsTypeOK
  <2>2. /\ row.status = "FAILED" /\ row.token = NoToken
        /\ row.attempts = job[j].attempts + 1
    BY <1>2 DEF Settled, Moved, JobRow
  <2> QED
    BY <1>2, <1>3, <2>1, <2>2 DEF OneJob, RowStep
<1> QED
  BY <1>4, <1>5

\* Recovery of an execution touches its job only, and fails it if it is owned.
LEMMA RecoverStep ==
    ASSUME TypeInv, NEW e \in Execs, NEW t \in Tokens, RecoverExecution(e, t)
    PROVE  exec[e].job \in Jobs /\ OneJob(exec[e].job)
<1> USE DEF TypeInv, TypeOK, WorkersTypeOK, JobsTypeOK
<1>1. exec[e].job \in Jobs
  BY RowsThere DEF RecoverExecution, Recoverable, Running, ExecRow
<1>2. CASE job[exec[e].job].status \in Owned
  BY <1>1, <1>2 DEF RecoverExecution, FailOwned, Settled, Moved, OneJob, RowStep, JobRow
<1>3. CASE job[exec[e].job].status \notin Owned
  BY <1>1, <1>3 DEF RecoverExecution, FailOwned, OneJob, RowStep
<1> QED
  BY <1>1, <1>2, <1>3

\* A retry reopens a failed job within its budget; a dead letter is written
\* with the transfer.
LEMMA RetryStep ==
    ASSUME TypeInv, NEW j \in Jobs,
           (\E p \in Policies : ScheduleRetry(j, p)) \/ TransferToDeadLetter(j)
    PROVE  OneJob(j)
<1> USE DEF TypeInv, TypeOK, WorkersTypeOK, JobsTypeOK, OneJob, RowStep, Moved, JobRow
<1>1. ASSUME NEW p \in Policies, ScheduleRetry(j, p)
      PROVE  OneJob(j)
  <2>1. p.max \in Nat /\ MaxAttempts[j] \in Nat
    BY RecoveryAssumption, JobsAssumption
  <2>2. job[j].attempts < MaxAttempts[j]
    BY <1>1, <2>1 DEF ScheduleRetry, RetryLimit
  <2> QED
    BY <1>1, <2>2 DEF ScheduleRetry
<1>2. CASE TransferToDeadLetter(j)
  <2>1. deadLetter'[j] # "ABSENT"
    BY <1>2 DEF TransferToDeadLetter
  <2> QED
    BY <1>2, <2>1 DEF TransferToDeadLetter
<1> QED
  BY <1>1, <1>2

\* Intake creates one job or makes one ready, or touches a queue only.
LEMMA IntakeStep ==
    ASSUME JobsTypeOK, Intake
    PROVE  JobStep
<1>1. ASSUME NEW j \in Jobs, BecomeReady(j)
      PROVE  OneJob(j)
  BY <1>1 DEF BecomeReady, OneJob, RowStep, JobsTypeOK, JobRow
<1>2. ASSUME NEW q \in Queues, NEW s \in {"ACTIVE", "PAUSED"}, SetQueueStatus(q, s)
      PROVE  SweptJobs
  BY <1>2 DEF SetQueueStatus, SweptJobs
<1> QED
  BY <1>1, <1>2, CreateStep, JobsAssumption DEF Intake, JobStep

\* A reservation moves one waiting job, which had no token.
LEMMA ReserveStep ==
    ASSUME JobsTypeOK, NEW q, NEW t \in Tokens, NEW j \in Jobs, ReserveJob(q, t, j)
    PROVE  OneJob(j)
  BY DEF ReserveJob, Reservable, Candidates, WriteReservation, Moved, OneJob, RowStep,
         JobsTypeOK, JobRow

\* Every step of the runtime changes one job the way RowStep allows, sweeps,
\* or leaves the job table alone.
LEMMA JobSteps ==
    ASSUME TypeInv, [Next]_vars
    PROVE  JobStep
<1> USE DEF TypeInv, TypeOK, WorkersTypeOK, JobsTypeOK
<1>0. ASSUME job' = job PROVE SweptJobs
  BY <1>0 DEF SweptJobs
<1>1. CASE Intake
  BY <1>1, IntakeStep
<1>2. ASSUME NEW w \in Workers, WorkerRequest(w)
      PROVE  JobStep
  <2>1. CASE RegisterWorker(w) \/ \E b \in Beats : Heartbeat(w, b)
    BY <1>0, <2>1 DEF RegisterWorker, Heartbeat, jobVars, JobStep
  <2>2. ASSUME NEW t \in Tokens, NEW j \in Jobs, AcquireReserve(w, t, j)
        PROVE  OneJob(j)
    BY <2>2, ReserveStep DEF AcquireReserve
  <2>3. ASSUME NEW t \in Tokens, RenewLease(w, t)
        PROVE  SweptJobs
    BY <1>0, <2>3 DEF RenewLease, jobVars
  <2>4. ASSUME NEW t \in Tokens, NEW e \in Execs, StartExecution(w, t, e)
        PROVE  \E j \in Jobs : OneJob(j)
    <3>1. lease[t].job \in Jobs
      BY <2>4, RowsThere DEF StartExecution, MayStart, HoldsLease, LeaseRow
    <3>2. OneJob(lease[t].job)
      BY <2>4, <3>1 DEF StartExecution, Started, Moved, OneJob, RowStep, JobRow
    <3> QED
      BY <3>1, <3>2
  <2>5. ASSUME NEW t \in Tokens, NEW e \in Execs,
               CompleteExecution(w, t, e) \/ \E reason \in Reasons : FailExecution(w, t, e, reason)
        PROVE  \E j \in Jobs : OneJob(j)
    <3>1. lease[t].job \in Jobs
      BY <2>5, RowsThere DEF CompleteExecution, FailExecution, SettlesRun, NewestRun, HoldsLease, LeaseRow
    <3>2. MarkCompleted(lease[t].job, t) \/ \E k \in FailureKeys : MarkFailed(lease[t].job, t, k)
      BY <2>5, WorkersAssumption DEF CompleteExecution, FailExecution
    <3> QED
      BY <3>1, <3>2, SettleStep
  <2> QED
    BY <1>2, <2>1, <2>2, <2>3, <2>4, <2>5 DEF WorkerRequest, JobStep
<1>3. ASSUME NEW r \in inflight, Continue(r) \/ RequestDies(r)
      PROVE  SweptJobs
  BY <1>0, <1>3 DEF Continue, AcquireLease, AcquireRefused, FinishExecution, RequestDies, jobVars
<1>4. CASE Clock
  BY <1>0, <1>4 DEF Clock, HeartbeatAges, LeaseAges, jobVars, JobStep
<1>5. CASE ReleaseExpired
  BY <1>5 DEF ReleaseExpired, SweptJob, SweptJobs, JobStep, JobRow
<1>6. CASE RecoveryRequest
  <2>1. ASSUME NEW j \in Jobs, ReplayJob(j)
        PROVE  JobStep
    <3>1. ReplayOf[j] \in Jobs /\ CreateJob(ReplayOf[j], TRUE)
      BY <2>1, RecoveryAssumption DEF ReplayJob
    <3> QED
      BY <3>1, CreateStep DEF JobStep
  <2>2. ASSUME NEW j \in Jobs, ReplayAgain(j)
        PROVE  SweptJobs
    BY <1>0, <2>2 DEF ReplayAgain, workerVars, jobVars
  <2> QED
    BY <1>6, <2>1, <2>2, RecoverStep, RetryStep DEF RecoveryRequest, RetryExhausted, JobStep
<1>7. ASSUME NEW j \in Jobs, NEW s \in {"FAILED", "DEAD_LETTER"}, FinishReplay(j, s) \/ ReplayDies(j, s)
      PROVE  SweptJobs
  BY <1>0, <1>7 DEF FinishReplay, ReplayDies, workerVars, jobVars
<1>8. CASE UNCHANGED vars
  BY <1>0, <1>8 DEF vars, workerVars, jobVars, JobStep
<1> QED
  BY <1>1, <1>2, <1>3, <1>4, <1>5, <1>6, <1>7, <1>8 DEF Next, WorkersNext, JobStep

\* Hence every row changes the way RowStep allows, whatever the step.
LEMMA RowSteps ==
    ASSUME TypeInv, [Next]_vars, NEW j \in Jobs
    PROVE  RowStep(j, job[j], job'[j])
<1>1. CASE SweptJobs
  BY <1>1 DEF SweptJobs, RowStep, Owned
<1>2. ASSUME NEW k \in Jobs, OneJob(k)
      PROVE  RowStep(j, job[j], job'[j])
  BY <1>2 DEF OneJob, RowStep
<1> QED
  BY <1>1, <1>2, JobSteps DEF JobStep

-----------------------------------------------------------------------------
(* The job table                                                            *)

\* A token is on a job exactly while the job is owned, across every crash,
\* sweep, recovery and retry.
THEOREM TokenWhileOwnedHolds ==
    Spec => []TokenWhileOwned
<1>1. Init => TokenWhileOwned
  BY DEF Init, WorkersInit, JobsInit, TokenWhileOwned, AbsentJob, Owned
<1>2. TypeInv /\ TokenWhileOwned /\ [Next]_vars => TokenWhileOwned'
  <2> SUFFICES ASSUME TypeInv, TokenWhileOwned, [Next]_vars, NEW j \in Jobs
               PROVE  job'[j].token # NoToken <=> job'[j].status \in Owned
    BY DEF TokenWhileOwned
  <2>1. RowStep(j, job[j], job'[j])
    BY RowSteps
  <2>2. job[j].token # NoToken <=> job[j].status \in Owned
    BY DEF TokenWhileOwned
  <2> QED
    BY <2>1, <2>2, JobsAssumption DEF RowStep, Owned
<1> QED
  BY TypeInit, TypeStep, <1>1, <1>2, PTL DEF Spec

\* No sequence of failures, retries and recoveries spends more attempts than
\* the job has, and a job that may still run has one left.
THEOREM AttemptBudgetHolds ==
    Spec => []AttemptBudget
<1>1. Init => AttemptBudget
  BY JobsAssumption DEF Init, WorkersInit, JobsInit, AttemptBudget, AbsentJob, Owned
<1>2. TypeInv /\ AttemptBudget /\ [Next]_vars => AttemptBudget'
  <2> SUFFICES ASSUME TypeInv, AttemptBudget, [Next]_vars, NEW j \in Jobs
               PROVE  /\ job'[j].attempts <= MaxAttempts[j]
                      /\ job'[j].status \in {"AVAILABLE"} \cup Owned =>
                            job'[j].attempts < MaxAttempts[j]
    BY DEF AttemptBudget
  <2>1. RowStep(j, job[j], job'[j])
    BY RowSteps
  <2>2. /\ job[j].attempts <= MaxAttempts[j]
        /\ job[j].status \in {"AVAILABLE"} \cup Owned => job[j].attempts < MaxAttempts[j]
    BY DEF AttemptBudget
  <2>3. MaxAttempts[j] \in Nat \ {0} /\ job[j].attempts \in Nat
    BY JobsAssumption DEF TypeInv, TypeOK, WorkersTypeOK, JobsTypeOK, JobRow
  <2> QED
    BY <2>1, <2>2, <2>3 DEF RowStep, Owned
<1> QED
  BY TypeInit, TypeStep, <1>1, <1>2, PTL DEF Spec

-----------------------------------------------------------------------------
(* What a step does to the executions                                       *)

\* The executions stay, no job starts, completes or stops running, and no
\* attempt is charged.
Quiet ==
    /\ exec' = exec
    /\ \A j \in Jobs : job[j].status = "ABSENT" \/ job'[j].attempts = job[j].attempts
    /\ \A j \in Jobs, s \in {"RUNNING", "COMPLETED"} : job'[j].status = s <=> job[j].status = s

\* A run of j appears, and j runs if it was reserved.
RunStarts(e, j) ==
    /\ ~HasRun(j)
    /\ exec[e].status = "ABSENT"
    /\ exec'[e].status = "STARTED" /\ exec'[e].job = j
    /\ \A d \in Execs \ {e} : exec'[d] = exec[d]
    /\ job'[j].status = IF job[j].status = "RESERVED" THEN "RUNNING" ELSE job[j].status
    /\ \A k \in Jobs \ {j} : job'[k] = job[k]

\* A run of j ends with outcome s.
RunEnds(e, j, s) ==
    /\ Running(e)
    /\ exec[e].job = j /\ exec'[e].job = j
    /\ exec'[e].status = s
    /\ \A d \in Execs \ {e} : exec'[d] = exec[d]
    /\ \A k \in Jobs \ {j} : job'[k] = job[k]
    /\ \/ s = "COMPLETED" /\ job[j].status \in Owned /\ job'[j].status = "COMPLETED"
       \/ s # "COMPLETED" /\ job[j].status \in Owned /\ job'[j].status = "FAILED"
       \/ s = "ABANDONED" /\ job[j].status \notin Owned /\ job'[j] = job[j]

ExecStep ==
    \/ Quiet
    \/ \E e \in Execs, j \in Jobs :
          RunStarts(e, j) \/ \E s \in {"COMPLETED", "FAILED", "ABANDONED"} : RunEnds(e, j, s)

\* start_job_execution creates the one run of the leased job.
LEMMA StartIsRunStart ==
    ASSUME TypeInv, NEW w \in Workers, NEW t \in Tokens, NEW e \in Execs, StartExecution(w, t, e)
    PROVE  lease[t].job \in Jobs /\ RunStarts(e, lease[t].job)
<1> DEFINE j == lease[t].job
<1> USE DEF TypeInv, TypeOK, WorkersTypeOK, JobsTypeOK
<1>1. j \in Jobs
  BY RowsThere DEF StartExecution, MayStart, HoldsLease, LeaseRow
<1>2. /\ exec' = [exec EXCEPT ![e] = [status |-> "STARTED", worker |-> w, job |-> j]]
      /\ job' = [job EXCEPT ![j] = Started(@)]
  BY DEF StartExecution
<1>3. Started(job[j]).status = IF job[j].status = "RESERVED" THEN "RUNNING" ELSE job[j].status
  BY <1>1 DEF Started, Moved, JobRow
<1> QED
  BY <1>1, <1>2, <1>3 DEF StartExecution, MayStart, NextRow, RunStarts

\* The first commit of a completion or a failure ends a run and settles its job
\* under the worker's lease.
LEMMA SettleIsRunEnd ==
    ASSUME TypeInv, NEW w \in Workers, NEW t \in Tokens, NEW e \in Execs,
           NEW s \in {"COMPLETED", "FAILED"},
           \/ s = "COMPLETED" /\ CompleteExecution(w, t, e)
           \/ s = "FAILED" /\ \E reason \in Reasons : FailExecution(w, t, e, reason)
    PROVE  lease[t].job \in Jobs /\ RunEnds(e, lease[t].job, s)
<1> DEFINE j == lease[t].job
<1> USE DEF TypeInv, TypeOK, WorkersTypeOK, JobsTypeOK
<1>1. SettlesRun(w, t, e)
  BY DEF CompleteExecution, FailExecution
<1>2. j \in Jobs
  BY <1>1, RowsThere DEF SettlesRun, NewestRun, HoldsLease, LeaseRow
<1>3. Running(e) /\ exec[e] \in ExecRow /\ exec[e].job = j
  BY <1>1, RowsThere DEF SettlesRun, NewestRun, RunsOf, Running
<1>4. exec' = [exec EXCEPT ![e].status = s]
  BY DEF CompleteExecution, FailExecution
<1>5. exec'[e].status = s /\ exec'[e].job = j /\ \A d \in Execs \ {e} : exec'[d] = exec[d]
  BY <1>3, <1>4 DEF ExecRow
<1>6. MarkCompleted(j, t) \/ \E k \in FailureKeys : MarkFailed(j, t, k)
  BY WorkersAssumption DEF CompleteExecution, FailExecution
<1>7. /\ \A k \in Jobs \ {j} : job'[k] = job[k]
      /\ job[j].status \in Owned
      /\ job'[j].status = s
  <2>1. Started(job[j]) \in JobRow
    BY <1>2, RowTypes DEF JobStatus
  <2>2. Started(job[j]).status = "RUNNING"
    BY <1>6 DEF MarkCompleted, MarkFailed, CanMove, AllowedJobTransitions
  <2>3. job[j].status \in Owned
    BY <2>2 DEF Started, Owned
  <2>4. CASE s = "COMPLETED"
    <3>1. MarkCompleted(j, t)
      BY <2>4 DEF CompleteExecution
    <3>2. job' = [job EXCEPT ![j] = Settled(Started(@), "COMPLETED")]
      BY <3>1 DEF MarkCompleted
    <3>3. Settled(Started(job[j]), "COMPLETED").status = "COMPLETED"
      BY <2>1 DEF Settled, Moved, JobRow
    <3> QED
      BY <1>2, <2>3, <2>4, <3>2, <3>3
  <2>5. CASE s = "FAILED"
    <3>1. PICK k \in FailureKeys : MarkFailed(j, t, k)
      BY <2>5, WorkersAssumption DEF FailExecution
    <3>2. job' = [job EXCEPT ![j] = [Settled(Started(@), "FAILED") EXCEPT
                                        !.attempts = job[j].attempts + 1]]
      BY <3>1 DEF MarkFailed
    <3>3. [Settled(Started(job[j]), "FAILED") EXCEPT
              !.attempts = job[j].attempts + 1].status = "FAILED"
      BY <2>1 DEF Settled, Moved, JobRow
    <3> QED
      BY <1>2, <2>3, <2>5, <3>2, <3>3
  <2> QED
    BY <2>4, <2>5
<1> QED
  BY <1>2, <1>3, <1>5, <1>7 DEF RunEnds

\* recover_expired_execution abandons a run, and fails its job if it is owned.
LEMMA RecoveryIsRunEnd ==
    ASSUME TypeInv, NEW e \in Execs, NEW t \in Tokens, RecoverExecution(e, t)
    PROVE  exec[e].job \in Jobs /\ RunEnds(e, exec[e].job, "ABANDONED")
<1> DEFINE j == exec[e].job
<1> USE DEF TypeInv, TypeOK, WorkersTypeOK, JobsTypeOK
<1>1. Running(e) /\ exec[e] \in ExecRow
  BY RowsThere DEF RecoverExecution, Recoverable, Running
<1>2. j \in Jobs
  BY <1>1 DEF ExecRow
<1>3. exec' = [exec EXCEPT ![e].status = "ABANDONED"]
  BY DEF RecoverExecution, AbandonRun
<1>4. /\ exec'[e].status = "ABANDONED" /\ exec'[e].job = j
      /\ \A d \in Execs \ {e} : exec'[d] = exec[d]
  BY <1>1, <1>3 DEF ExecRow
<1>5. CASE job[j].status \in Owned
  BY <1>1, <1>2, <1>4, <1>5
  DEF RecoverExecution, FailOwned, Settled, Moved, JobRow, RunEnds
<1>6. CASE job[j].status \notin Owned
  BY <1>1, <1>2, <1>4, <1>6 DEF RecoverExecution, FailOwned, RunEnds
<1> QED
  BY <1>2, <1>5, <1>6

\* Creating a job concerns no run.
LEMMA CreateQuiet ==
    ASSUME JobsTypeOK, NEW j \in Jobs, exec' = exec,
           CreateRuleJob(j) \/ \E due \in BOOLEAN : CreateJob(j, due)
    PROVE  Quiet
<1>1. job[j].status = "ABSENT"
  BY DEF CreateRuleJob, CreateJob
<1>2. OneJob(j)
  BY CreateStep
<1>3. job'[j].status \in {"ABSENT", "QUEUED", "AVAILABLE"}
  BY <1>1, <1>2 DEF OneJob, RowStep, Owned
<1> QED
  BY <1>1, <1>2, <1>3 DEF OneJob, Quiet

\* Every step starts a run, ends one, or concerns none.
LEMMA ExecSteps ==
    ASSUME TypeInv, [Next]_vars
    PROVE  ExecStep
<1> USE DEF TypeInv, TypeOK, WorkersTypeOK, JobsTypeOK
<1>0. ASSUME job' = job, exec' = exec PROVE Quiet
  BY <1>0 DEF Quiet
<1>1. ASSUME NEW j \in Jobs, job' = [job EXCEPT ![j] = job'[j]], exec' = exec,
             {job[j].status, job'[j].status} \cap {"RUNNING", "COMPLETED"} = {},
             job'[j].attempts = job[j].attempts
      PROVE  Quiet
  BY <1>1 DEF Quiet
<1>2. CASE Intake /\ UNCHANGED runtimeVars
  <2> USE DEF runtimeVars
  <2>1. ASSUME NEW j \in Jobs, BecomeReady(j)
        PROVE  Quiet
    BY <1>1, <1>2, <2>1 DEF BecomeReady, JobRow
  <2>2. ASSUME NEW q \in Queues, NEW s \in {"ACTIVE", "PAUSED"}, SetQueueStatus(q, s)
        PROVE  Quiet
    BY <1>0, <1>2, <2>2 DEF SetQueueStatus
  <2>3. ASSUME NEW j \in Jobs, CreateRuleJob(j) \/ \E due \in BOOLEAN : CreateJob(j, due)
        PROVE  Quiet
    BY <1>2, <2>3, CreateQuiet
  <2> QED
    BY <1>2, <2>1, <2>2, <2>3, JobsAssumption DEF Intake, ExecStep
<1>3. ASSUME NEW w \in Workers, WorkerRequest(w)
      PROVE  ExecStep
  <2>1. CASE RegisterWorker(w) \/ \E b \in Beats : Heartbeat(w, b)
    BY <1>0, <2>1 DEF RegisterWorker, Heartbeat, jobVars, ExecStep
  <2>2. ASSUME NEW t \in Tokens, NEW j \in Jobs, AcquireReserve(w, t, j)
        PROVE  Quiet
    <3>1. job[j].status = "AVAILABLE" /\ WriteReservation(j, t) /\ exec' = exec
      BY <2>2 DEF AcquireReserve, ReserveJob, Reservable, Candidates
    <3> QED
      BY <1>1, <3>1 DEF WriteReservation, Moved, JobRow
  <2>3. ASSUME NEW t \in Tokens, RenewLease(w, t)
        PROVE  Quiet
    BY <1>0, <2>3 DEF RenewLease, jobVars
  <2> QED
    BY <1>3, <2>1, <2>2, <2>3, StartIsRunStart, SettleIsRunEnd DEF WorkerRequest, ExecStep
<1>4. ASSUME NEW r \in inflight, Continue(r) \/ RequestDies(r)
      PROVE  Quiet
  BY <1>0, <1>4 DEF Continue, AcquireLease, AcquireRefused, FinishExecution, RequestDies, jobVars
<1>5. CASE Clock
  BY <1>0, <1>5 DEF Clock, HeartbeatAges, LeaseAges, jobVars, ExecStep
<1>6. CASE ReleaseExpired
  <2>1. exec' = exec /\ \A j \in Jobs : job'[j] = SweptJob(j)
    BY <1>6 DEF ReleaseExpired
  <2>2. ASSUME NEW j \in Jobs
        PROVE  \/ SweptJob(j) = job[j]
               \/ /\ job[j].status = "RESERVED" /\ SweptJob(j).status = "AVAILABLE"
                  /\ SweptJob(j).attempts = job[j].attempts
    <3>1. job[j] \in JobRow
      OBVIOUS
    <3> QED
      BY <3>1 DEF SweptJob, JobRow
  <2>3. Quiet
    BY <2>1, <2>2 DEF Quiet
  <2> QED
    BY <2>3 DEF ExecStep
<1>7. CASE RecoveryRequest
  <2>1. ASSUME NEW j \in Jobs, ReplayJob(j)
        PROVE  Quiet
    <3>1. ReplayOf[j] \in Jobs /\ CreateJob(ReplayOf[j], TRUE) /\ exec' = exec
      BY <2>1, RecoveryAssumption DEF ReplayJob, runtimeVars
    <3> QED
      BY <3>1, CreateQuiet
  <2>2. ASSUME NEW j \in Jobs, ReplayAgain(j)
        PROVE  Quiet
    BY <1>0, <2>2 DEF ReplayAgain, workerVars, jobVars, runtimeVars
  <2>3. ASSUME NEW j \in Jobs, NEW p \in Policies, ScheduleRetry(j, p)
        PROVE  Quiet
    BY <1>1, <2>3 DEF ScheduleRetry, Moved, JobRow, runtimeVars
  <2>4. ASSUME NEW j \in Jobs, TransferToDeadLetter(j)
        PROVE  Quiet
    BY <1>1, <2>4 DEF TransferToDeadLetter, Moved, JobRow, runtimeVars
  <2> QED
    BY <1>7, <2>1, <2>2, <2>3, <2>4, RecoveryIsRunEnd DEF RecoveryRequest, RetryExhausted, ExecStep
<1>8. ASSUME NEW j \in Jobs, NEW s \in {"FAILED", "DEAD_LETTER"}, FinishReplay(j, s) \/ ReplayDies(j, s)
      PROVE  Quiet
  BY <1>0, <1>8 DEF FinishReplay, ReplayDies, workerVars, jobVars, runtimeVars
<1>9. CASE UNCHANGED vars
  BY <1>0, <1>9 DEF vars, workerVars, jobVars, runtimeVars, ExecStep
<1> QED
  BY <1>2, <1>3, <1>4, <1>5, <1>6, <1>7, <1>8, <1>9 DEF Next, WorkersNext, ExecStep

-----------------------------------------------------------------------------
(* The executions                                                           *)

RunInv == OneRunPerJob /\ RunningHasRun /\ CompletedOnce

\* With no job and no run, the invariant of the runs holds.
LEMMA RunInit ==
    Init => RunInv
  BY DEF Init, WorkersInit, JobsInit, RuntimeInit, AbsentJob, AbsentExec,
         RunInv, OneRunPerJob, RunningHasRun, CompletedOnce, Running

\* Starting a run keeps it, because the job had none.
LEMMA RunStartKeeps ==
    ASSUME RunInv, NEW e \in Execs, NEW j \in Jobs, RunStarts(e, j)
    PROVE  RunInv'
<1> USE DEF RunInv, RunStarts
<1>1. OneRunPerJob'
  BY DEF OneRunPerJob, HasRun, Running
<1>2. RunningHasRun'
  BY DEF RunningHasRun, HasRun, Running
<1>3. CompletedOnce'
  BY DEF CompletedOnce
<1> QED
  BY <1>1, <1>2, <1>3

\* Ending a run keeps it, because the job's outcome is written with the run's.
LEMMA RunEndKeeps ==
    ASSUME RunInv, NEW e \in Execs, NEW j \in Jobs,
           NEW s \in {"COMPLETED", "FAILED", "ABANDONED"}, RunEnds(e, j, s)
    PROVE  RunInv'
<1> USE DEF RunInv, RunEnds
<1>1. OneRunPerJob'
  BY DEF OneRunPerJob, Running
<1>2. RunningHasRun'
  BY DEF RunningHasRun, HasRun, Running, Owned
<1>3. CompletedOnce'
  BY DEF CompletedOnce, Running, Owned
<1> QED
  BY <1>1, <1>2, <1>3

\* So every step keeps it.
LEMMA RunStep ==
    TypeInv /\ RunInv /\ [Next]_vars => RunInv'
<1>1. ASSUME RunInv, Quiet PROVE RunInv'
  BY <1>1 DEF Quiet, RunInv, OneRunPerJob, RunningHasRun, CompletedOnce, HasRun, Running
<1> QED
  BY <1>1, ExecSteps, RunStartKeeps, RunEndKeeps DEF ExecStep

\* A RUNNING job has a run to recover it by.
THEOREM RunningHasRunHolds ==
    Spec => []RunningHasRun
<1>1. RunInv => RunningHasRun
  BY DEF RunInv
<1> QED
  BY TypeInit, TypeStep, RunInit, RunStep, <1>1, PTL DEF Spec

\* A job completes once, and its execution with it.
THEOREM CompletedOnceHolds ==
    Spec => []CompletedOnce
<1>1. RunInv => CompletedOnce
  BY DEF RunInv
<1> QED
  BY TypeInit, TypeStep, RunInit, RunStep, <1>1, PTL DEF Spec

-----------------------------------------------------------------------------
(* Dead letters                                                             *)

(***************************************************************************)
(* DeadLetterMatchesJob is not inductive by itself: the second half of a   *)
(* replay writes to the dead letter without looking at the job again.      *)
(***************************************************************************)
ReplayingBuried ==
    \A j \in Jobs : <<j, "DEAD_LETTER">> \in replaying => job[j].status = "DEAD_LETTER"

LetterInv == DeadLetterMatchesJob /\ ReplayingBuried

\* Every step keeps the job table and the dead-letter table in agreement.
LEMMA LetterStep ==
    TypeInv /\ LetterInv /\ [Next]_vars => LetterInv'
<1> SUFFICES ASSUME TypeInv, LetterInv, [Next]_vars PROVE LetterInv'
  OBVIOUS
<1> USE DEF LetterInv, DeadLetterMatchesJob, ReplayingBuried
<1>1. \A j \in Jobs : RowStep(j, job[j], job'[j])
  BY RowSteps
<1>2. \A j \in Jobs : job[j].status = "DEAD_LETTER" => job'[j].status = "DEAD_LETTER"
  BY <1>1 DEF RowStep, Owned
<1>3. CASE UNCHANGED <<deadLetter, replaying>>
  BY <1>1, <1>2, <1>3 DEF RowStep, Owned
<1>4. ASSUME NEW j \in Jobs, TransferToDeadLetter(j)
      PROVE  LetterInv'
  <2>1. job'[j].status = "DEAD_LETTER" /\ \A k \in Jobs \ {j} : job'[k] = job[k]
    BY <1>4 DEF TransferToDeadLetter, Moved, TypeInv, TypeOK, WorkersTypeOK, JobsTypeOK, JobRow
  <2>2. /\ deadLetter'[j] # "ABSENT"
        /\ \A k \in Jobs \ {j} : deadLetter'[k] = deadLetter[k]
        /\ replaying' = replaying
    BY <1>4 DEF TransferToDeadLetter, TypeInv, TypeOK
  <2> QED
    BY <1>2, <2>1, <2>2
<1>5. ASSUME NEW j \in Jobs, ReplayJob(j) \/ ReplayAgain(j)
      PROVE  LetterInv'
  <2>1. \A k \in Jobs : job'[k].status = "DEAD_LETTER" <=> job[k].status = "DEAD_LETTER"
    <3>1. CASE ReplayJob(j)
      <4>1. ReplayOf[j] \in Jobs /\ CreateJob(ReplayOf[j], TRUE)
        BY <3>1, RecoveryAssumption DEF ReplayJob
      <4>2. OneJob(ReplayOf[j]) /\ job[ReplayOf[j]].status = "ABSENT"
        BY <4>1, CreateStep DEF CreateJob, TypeInv, TypeOK, WorkersTypeOK
      <4> QED
        BY <4>1, <4>2 DEF OneJob, RowStep, Owned
    <3>2. CASE ReplayAgain(j)
      BY <3>2 DEF ReplayAgain, workerVars, jobVars
    <3> QED
      BY <1>5, <3>1, <3>2
  <2>2. \A k \in Jobs : deadLetter'[k] = "ABSENT" <=> deadLetter[k] = "ABSENT"
    BY <1>5 DEF ReplayJob, ReplayAgain, TypeInv, TypeOK
  <2>3. replaying' \subseteq replaying \cup {<<j, job[j].status>>}
    BY <1>5 DEF ReplayJob, ReplayAgain
  <2> QED
    BY <1>2, <2>1, <2>2, <2>3
<1>6. ASSUME NEW j \in Jobs, NEW s \in {"FAILED", "DEAD_LETTER"},
             FinishReplay(j, s) \/ ReplayDies(j, s)
      PROVE  LetterInv'
  <2>1. job' = job /\ replaying' \subseteq replaying /\ <<j, s>> \in replaying
    BY <1>6 DEF FinishReplay, ReplayDies, workerVars, jobVars
  <2>2. \A k \in Jobs : deadLetter'[k] = "ABSENT" <=> deadLetter[k] = "ABSENT"
    BY <1>6, <2>1 DEF FinishReplay, ReplayDies, TypeInv, TypeOK
  <2> QED
    BY <2>1, <2>2
<1>7. \/ UNCHANGED <<deadLetter, replaying>>
      \/ \E j \in Jobs : TransferToDeadLetter(j) \/ ReplayJob(j) \/ ReplayAgain(j)
      \/ \E j \in Jobs, s \in {"FAILED", "DEAD_LETTER"} : FinishReplay(j, s) \/ ReplayDies(j, s)
  BY DEF Next, RecoveryRequest, ScheduleRetry, RetryExhausted, RecoverExecution, vars, recoveryVars
<1> QED
  BY <1>3, <1>4, <1>5, <1>6, <1>7

\* A job is in DEAD_LETTER exactly when the dead-letter table has it.
THEOREM DeadLetterMatches ==
    Spec => []DeadLetterMatchesJob
<1>1. Init => LetterInv
  BY DEF Init, WorkersInit, JobsInit, AbsentJob, LetterInv, DeadLetterMatchesJob, ReplayingBuried
<1>2. LetterInv => DeadLetterMatchesJob
  BY DEF LetterInv
<1> QED
  BY TypeInit, TypeStep, LetterStep, <1>1, <1>2, PTL DEF Spec

(***************************************************************************)
(* ResolvedHasReplay is not inductive by itself: a replay resolves its     *)
(* dead letter after its commit, when other requests have run.             *)
(***************************************************************************)
ReplayThere(j) == ReplayOf[j] \in Jobs /\ job[ReplayOf[j]].status # "ABSENT"

ReplayInv ==
    /\ \A j \in Jobs : deadLetter[j] = "RESOLVED" => ReplayThere(j)
    /\ \A j \in Jobs, s \in {"FAILED", "DEAD_LETTER"} : <<j, s>> \in replaying => ReplayThere(j)

\* Every step keeps the replays that dead letters rely on.
LEMMA ReplayStep ==
    TypeInv /\ ReplayInv /\ [Next]_vars => ReplayInv'
<1> SUFFICES ASSUME TypeInv, ReplayInv, [Next]_vars PROVE ReplayInv'
  OBVIOUS
<1> USE DEF ReplayInv
<1>1. \A j \in Jobs : job[j].status # "ABSENT" => job'[j].status # "ABSENT"
  BY RowSteps DEF RowStep, Owned
<1>2. \A j \in Jobs : ReplayThere(j) => ReplayThere(j)'
  BY <1>1 DEF ReplayThere
<1>3. CASE UNCHANGED <<deadLetter, replaying>>
  BY <1>2, <1>3
<1>4. ASSUME NEW j \in Jobs, TransferToDeadLetter(j)
      PROVE  ReplayInv'
  <2>1. /\ \A k \in Jobs : deadLetter'[k] = "RESOLVED" => deadLetter[k] = "RESOLVED"
        /\ replaying' = replaying
    BY <1>4 DEF TransferToDeadLetter, TypeInv, TypeOK
  <2> QED
    BY <1>2, <2>1
<1>5. ASSUME NEW j \in Jobs, ReplayJob(j) \/ ReplayAgain(j)
      PROVE  ReplayInv'
  <2>1. ReplayThere(j)'
    <3>1. ReplayOf[j] \in Jobs
      BY <1>5, RecoveryAssumption DEF ReplayJob, ReplayAgain
    <3>2. CASE ReplayJob(j)
      <4>1. job'[ReplayOf[j]].status = "AVAILABLE"
        BY <3>1, <3>2 DEF ReplayJob, CreateJob, Moved, AbsentJob, TypeInv, TypeOK,
                          WorkersTypeOK, JobsTypeOK
      <4> QED
        BY <3>1, <4>1 DEF ReplayThere
    <3>3. CASE ReplayAgain(j)
      BY <1>1, <3>1, <3>3 DEF ReplayAgain, ReplayThere
    <3> QED
      BY <1>5, <3>2, <3>3
  <2>2. \A k \in Jobs \ {j} : deadLetter'[k] = deadLetter[k]
    BY <1>5 DEF ReplayJob, ReplayAgain, TypeInv, TypeOK
  <2>3. replaying' \subseteq replaying \cup {<<j, job[j].status>>}
    BY <1>5 DEF ReplayJob, ReplayAgain
  <2> QED
    BY <1>2, <2>1, <2>2, <2>3
<1>6. ASSUME NEW j \in Jobs, NEW s \in {"FAILED", "DEAD_LETTER"},
             FinishReplay(j, s) \/ ReplayDies(j, s)
      PROVE  ReplayInv'
  <2>1. ReplayThere(j) /\ replaying' \subseteq replaying
    BY <1>6 DEF FinishReplay, ReplayDies
  <2>2. \A k \in Jobs \ {j} : deadLetter'[k] = deadLetter[k]
    BY <1>6 DEF FinishReplay, ReplayDies, TypeInv, TypeOK
  <2> QED
    BY <1>2, <2>1, <2>2
<1>7. \/ UNCHANGED <<deadLetter, replaying>>
      \/ \E j \in Jobs : TransferToDeadLetter(j) \/ ReplayJob(j) \/ ReplayAgain(j)
      \/ \E j \in Jobs, s \in {"FAILED", "DEAD_LETTER"} : FinishReplay(j, s) \/ ReplayDies(j, s)
  BY DEF Next, RecoveryRequest, ScheduleRetry, RetryExhausted, RecoverExecution, vars, recoveryVars
<1> QED
  BY <1>3, <1>4, <1>5, <1>6, <1>7

\* A dead letter is resolved only when the job's replay exists, although the
\* replay commits before its dead letter and may die in between.
THEOREM ResolvedHasReplayHolds ==
    Spec => []ResolvedHasReplay
<1>1. Init => ReplayInv
  BY DEF Init, ReplayInv
<1>2. ReplayInv => ResolvedHasReplay
  BY RecoveryAssumption, WorkersAssumption DEF ReplayInv, ReplayThere, ResolvedHasReplay
<1> QED
  BY TypeInit, TypeStep, ReplayStep, <1>1, <1>2, PTL DEF Spec

-----------------------------------------------------------------------------
(* Worker records                                                           *)

(***************************************************************************)
(* IdleWorkerFree is not inductive by itself: registration makes a record  *)
(* IDLE, and the second half of an acquire names a job in it.              *)
(***************************************************************************)
AbsentWorkerFree == \A w \in Workers : worker[w].status = "ABSENT" => worker[w].current = NoJob

RequesterKnown == \A r \in inflight : worker[r.worker].status # "ABSENT"

IdleInv == IdleWorkerFree /\ AbsentWorkerFree /\ RequesterKnown

\* What may become of one worker's record.
WorkerStep(old, new) ==
    \/ new.status = old.status /\ new.current = old.current
    \/ new.current = NoJob /\ (new.status = "ABSENT" => old.status = "ABSENT")
    \/ old.status = "ABSENT" /\ new.status = "IDLE" /\ new.current = old.current
    \/ old.status # "ABSENT" /\ new.status \notin {"ABSENT", "IDLE"}

WorkerSteps == \A w \in Workers : WorkerStep(worker[w], worker'[w])

\* The invariant of the worker records follows from what WorkerStep allows of
\* each record, if a new request comes from a registered worker.
LEMMA WorkerStepKeeps ==
    ASSUME TypeInv, IdleInv, WorkerSteps,
           \A r \in inflight' : r \in inflight \/ worker[r.worker].status # "ABSENT",
           inflight' \subseteq Request
    PROVE  IdleInv'
<1> USE DEF IdleInv, IdleWorkerFree, AbsentWorkerFree, RequesterKnown, WorkerSteps, WorkerStep
<1>1. \A w \in Workers : worker'[w].status = "ABSENT" => worker[w].status = "ABSENT"
  OBVIOUS
<1>2. IdleWorkerFree' /\ AbsentWorkerFree'
  OBVIOUS
<1>3. RequesterKnown'
  BY <1>1 DEF Request
<1> QED
  BY <1>2, <1>3

\* Every step changes worker records the way WorkerStep allows, and only a
\* registered worker sends a request.
LEMMA WorkerChanges ==
    ASSUME TypeInv, IdleInv, [Next]_vars
    PROVE  /\ WorkerSteps
           /\ \A r \in inflight' : r \in inflight \/ worker[r.worker].status # "ABSENT"
<1> DEFINE Known == \A r \in inflight' : r \in inflight \/ worker[r.worker].status # "ABSENT"
<1> USE DEF TypeInv, TypeOK, WorkersTypeOK, WorkerSteps
<1>0. ASSUME worker' = worker PROVE WorkerSteps
  BY <1>0 DEF WorkerStep
<1>1. CASE Intake /\ UNCHANGED runtimeVars
  BY <1>0, <1>1 DEF runtimeVars
<1>2. ASSUME NEW w \in Workers, WorkerRequest(w)
      PROVE  WorkerSteps /\ Known
  <2>0. worker[w] \in WorkerRow
    OBVIOUS
  <2>1. CASE RegisterWorker(w) \/ \E b \in Beats : Heartbeat(w, b)
    <3>1. CASE RegisterWorker(w)
      BY <2>0, <3>1 DEF RegisterWorker, WorkerStep, WorkerRow
    <3>2. ASSUME NEW b \in Beats, Heartbeat(w, b)
          PROVE  WorkerSteps /\ Known
      BY <2>0, <3>2 DEF Heartbeat, WorkerStep, WorkerRow
    <3> QED
      BY <2>1, <3>1, <3>2
  <2>2. ASSUME NEW t \in Tokens, (\E j \in Jobs : AcquireReserve(w, t, j)) \/ RenewLease(w, t)
        PROVE  WorkerSteps /\ Known
    <3>1. ASSUME NEW j \in Jobs, AcquireReserve(w, t, j)
          PROVE  WorkerSteps /\ Known
      <4>1. worker' = worker /\ worker[w].status # "ABSENT"
        BY <3>1 DEF AcquireReserve, MayCall
      <4>2. inflight' = inflight \cup
                           {[op |-> "acquire", worker |-> w, token |-> t, job |-> j]}
        BY <3>1 DEF AcquireReserve
      <4> QED
        BY <1>0, <4>1, <4>2
    <3>2. CASE RenewLease(w, t)
      BY <1>0, <3>2 DEF RenewLease
    <3> QED
      BY <2>2, <3>1, <3>2
  <2>3. ASSUME NEW t \in Tokens, NEW e \in Execs, StartExecution(w, t, e)
        PROVE  WorkerSteps /\ Known
    BY <2>3 DEF StartExecution, MoveWorker, AllowedWorkerTransitions, WorkerStep, WorkerRow
  <2>4. ASSUME NEW t \in Tokens, NEW e \in Execs,
               CompleteExecution(w, t, e) \/ \E reason \in Reasons : FailExecution(w, t, e, reason)
        PROVE  WorkerSteps /\ Known
    <3>1. worker' = worker /\ SettlesRun(w, t, e)
      BY <2>4 DEF CompleteExecution, FailExecution
    <3>2. /\ worker[w].status # "ABSENT"
          /\ inflight' = inflight \cup
                            {[op |-> "finish", worker |-> w, token |-> t, job |-> lease[t].job]}
      BY <3>1 DEF SettlesRun, NewestRun, MayCall
    <3> QED
      BY <1>0, <3>1, <3>2
  <2> QED
    BY <1>2, <2>1, <2>2, <2>3, <2>4 DEF WorkerRequest
<1>3. ASSUME NEW r \in inflight, Continue(r) \/ RequestDies(r)
      PROVE  WorkerSteps /\ Known
  <2>1. r.worker \in Workers /\ worker[r.worker] \in WorkerRow
    BY DEF Request
  <2>2. CASE AcquireLease(r)
    <3>1. worker[r.worker].status \in {"IDLE", "RESERVED", "RUNNING"}
      BY <2>1 DEF IdleInv, RequesterKnown, WorkerRow, WorkerStatus
    <3>2. MoveWorker(worker[r.worker], "IDLE", "RESERVED").status \in {"RESERVED", "RUNNING"}
      BY <2>1, <3>1 DEF MoveWorker, AllowedWorkerTransitions, WorkerRow
    <3>3. MoveWorker(worker[r.worker], "IDLE", "RESERVED") \in WorkerRow
      BY <2>1, MoveWorkerType DEF WorkerStatus
    <3> QED
      BY <2>1, <2>2, <3>1, <3>2, <3>3 DEF AcquireLease, WorkerStep, WorkerRow
  <2>3. CASE FinishExecution(r)
    <3>1. MoveWorker(worker[r.worker], "RUNNING", "IDLE") \in WorkerRow
      BY <2>1, MoveWorkerType DEF WorkerStatus
    <3>2. MoveWorker(worker[r.worker], "RUNNING", "IDLE").status # "ABSENT"
      BY <2>1 DEF MoveWorker, IdleInv, RequesterKnown, WorkerRow
    <3> QED
      BY <2>1, <2>3, <3>1, <3>2 DEF FinishExecution, WorkerStep, WorkerRow
  <2>4. CASE AcquireRefused(r) \/ RequestDies(r)
    BY <1>0, <2>4 DEF AcquireRefused, RequestDies
  <2> QED
    BY <1>3, <2>2, <2>3, <2>4 DEF Continue
<1>4. CASE Clock
  BY <1>0, <1>4 DEF Clock, HeartbeatAges, LeaseAges, WorkerStep, WorkerRow
<1>5. CASE ReleaseExpired
  <2>1. ASSUME NEW w \in Workers PROVE WorkerStep(worker[w], SweptWorker(w))
    <3>1. worker[w] \in WorkerRow
      OBVIOUS
    <3>2. \/ SweptWorker(w) = worker[w]
          \/ SweptWorker(w) = [worker[w] EXCEPT !.current = NoJob,
                                  !.status = IF @ = "RESERVED" THEN "IDLE" ELSE @]
      BY DEF SweptWorker
    <3> QED
      BY <3>1, <3>2 DEF WorkerStep, WorkerRow
  <2>2. worker' = [w \in Workers |-> SweptWorker(w)] /\ inflight' = inflight
    BY <1>5 DEF ReleaseExpired
  <2> QED
    BY <2>1, <2>2
<1>6. ASSUME NEW e \in Execs, NEW t \in Tokens, RecoverExecution(e, t)
      PROVE  WorkerSteps /\ Known
  <2>1. exec[e].worker \in Workers
    BY <1>6, RowsThere DEF RecoverExecution, Recoverable, Running, ExecRow
  <2>2. worker' = [worker EXCEPT ![exec[e].worker] = Freed(@)] /\ inflight' = inflight
    BY <1>6 DEF RecoverExecution, AbandonRun
  <2>3. \A row \in WorkerRow : Freed(row).current = NoJob /\
                               (Freed(row).status = "ABSENT" => row.status = "ABSENT")
    BY DEF Freed, WorkerRow, Owned
  <2> QED
    BY <2>1, <2>2, <2>3 DEF WorkerStep
<1>7. ASSUME NEW j \in Jobs,
             \/ TransferToDeadLetter(j) \/ ReplayJob(j) \/ ReplayAgain(j)
             \/ \E p \in Policies : ScheduleRetry(j, p)
             \/ \E s \in {"FAILED", "DEAD_LETTER"} : FinishReplay(j, s) \/ ReplayDies(j, s)
      PROVE  WorkerSteps /\ Known
  BY <1>0, <1>7 DEF TransferToDeadLetter, ReplayJob, ReplayAgain, ScheduleRetry, FinishReplay,
                    ReplayDies, workerVars, runtimeVars
<1>8. CASE UNCHANGED vars
  BY <1>0, <1>8 DEF vars, workerVars, runtimeVars
<1> QED
  BY <1>1, <1>2, <1>3, <1>4, <1>5, <1>6, <1>7, <1>8
  DEF Next, WorkersNext, RecoveryRequest, RetryExhausted

\* A worker record that says IDLE names no job.
THEOREM IdleWorkerIsFree ==
    Spec => []IdleWorkerFree
<1>1. Init => IdleInv
  BY DEF Init, WorkersInit, RuntimeInit, IdleInv, IdleWorkerFree, AbsentWorkerFree, RequesterKnown
<1>2. TypeInv /\ IdleInv /\ [Next]_vars => IdleInv'
  <2> SUFFICES ASSUME TypeInv, IdleInv, [Next]_vars PROVE IdleInv'
    OBVIOUS
  <2>1. TypeInv'
    BY TypeStep
  <2> QED
    BY <2>1, WorkerChanges, WorkerStepKeeps DEF TypeInv, TypeOK, WorkersTypeOK
<1>3. IdleInv => IdleWorkerFree
  BY DEF IdleInv
<1> QED
  BY TypeInit, TypeStep, <1>1, <1>2, <1>3, PTL DEF Spec
=============================================================================
