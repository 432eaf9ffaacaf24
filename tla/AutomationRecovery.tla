------------------------- MODULE AutomationRecovery -------------------------
(***************************************************************************)
(* The recovery engine of automation_recovery.py, composed with the job    *)
(* ledger and the worker runtime into the whole P41 runtime: retries,      *)
(* dead letters, recovery of stale executions and replay.                  *)
(***************************************************************************)
EXTENDS AutomationWorkers

CONSTANTS
    Policies,   \* retry policies: [max : Nat, deadLetter : BOOLEAN]
    ReplayOf    \* [Jobs -> Jobs and NoJob]: the row a replay of the job creates,
                \* NoJob where the model stops creating replays of replays

ASSUME RecoveryAssumption ==
    /\ Policies \subseteq [max : Nat, deadLetter : BOOLEAN]
    /\ ReplayOf \in [Jobs -> Jobs \cup {NoJob}]
    /\ \A j \in Jobs : ReplayOf[j] # NoJob =>
          /\ ReplayOf[j] \notin Submitted
          /\ QueueOf[ReplayOf[j]] = QueueOf[j]
          /\ MaxAttempts[ReplayOf[j]] = MaxAttempts[j]
    /\ \A j, k \in Jobs : ReplayOf[j] = ReplayOf[k] /\ j # k => ReplayOf[j] = NoJob

VARIABLES
    deadLetter,   \* [Jobs -> status]: automation_dead_letter_jobs by original job
    replayed,     \* the (job, status) pairs whose replay recorded a failure event
    replaying     \* replays between their two commits, by (job, status)

recoveryVars == <<deadLetter, replayed, replaying>>
vars == <<workerVars, recoveryVars>>

\* Nothing writes ACKNOWLEDGED or ARCHIVED; no operation below tells them from
\* ACTIVE.
DeadLetterStatus == {"ABSENT", "ACTIVE", "ACKNOWLEDGED", "REPLAY_PENDING", "RESOLVED",
                     "ARCHIVED"}

-----------------------------------------------------------------------------
(* Retries and dead letters                                                 *)

\* SLIP: the policy alone sets the limit.
PolicyLimit(j, p) == p.max

\* The attempt limit schedule_retry compares the next attempt with.
RetryLimit(j, p) == IF p.max <= MaxAttempts[j] THEN p.max ELSE MaxAttempts[j]

\* SLIP: whatever ended without success may be retried.
RetryOfAny(j, p) ==
    /\ job[j].status \in {"FAILED", "DEAD_LETTER"}
    /\ job[j].attempts + 1 <= RetryLimit(j, p)
    /\ job' = [job EXCEPT ![j] = [Moved(@, "AVAILABLE") EXCEPT !.ready = FALSE]]
    /\ UNCHANGED <<queue, issue, runtimeVars, recoveryVars>>

\* schedule_retry with an attempt left: FAILED, RETRY_PENDING and AVAILABLE in
\* one transaction, available after the policy's delay.
ScheduleRetry(j, p) ==
    /\ job[j].status = "FAILED"
    /\ job[j].attempts + 1 <= RetryLimit(j, p)
    /\ CanMove("FAILED", "RETRY_PENDING") /\ CanMove("RETRY_PENDING", "AVAILABLE")
    /\ job' = [job EXCEPT ![j] = [Moved(@, "AVAILABLE") EXCEPT !.ready = FALSE]]
    /\ UNCHANGED <<queue, issue, runtimeVars, recoveryVars>>

\* transfer_to_dead_letter of a failed job, asked for by an operator; on a job
\* already there it only records another run.
TransferToDeadLetter(j) ==
    /\ job[j].status = "FAILED"
    /\ CanMove("FAILED", "DEAD_LETTER")
    /\ job' = [job EXCEPT ![j] = Moved(@, "DEAD_LETTER")]
    /\ deadLetter' = [deadLetter EXCEPT ![j] = IF @ = "ABSENT" THEN "ACTIVE" ELSE @]
    /\ UNCHANGED <<queue, issue, runtimeVars, replayed, replaying>>

\* SLIP: the exhausted job moves, and no dead letter is written for it.
ExhaustedWithoutLetter(j, p) ==
    /\ job[j].status = "FAILED"
    /\ job[j].attempts + 1 > RetryLimit(j, p)
    /\ p.deadLetter
    /\ job' = [job EXCEPT ![j] = Moved(@, "DEAD_LETTER")]
    /\ UNCHANGED <<queue, issue, runtimeVars, recoveryVars>>

\* schedule_retry with no attempt left under a policy that dead-letters.
RetryExhausted(j, p) ==
    /\ job[j].attempts + 1 > RetryLimit(j, p)
    /\ p.deadLetter
    /\ TransferToDeadLetter(j)

-----------------------------------------------------------------------------
(* Stale executions                                                         *)

\* The newest lease of the run's worker on the run's job.
LeaseOfRun(e, t) ==
    /\ lease[t].worker = exec[e].worker
    /\ lease[t].job = exec[e].job
    /\ \A u \in Tokens :
          lease[u].worker = exec[e].worker /\ lease[u].job = exec[e].job =>
              lease[u].id <= lease[t].id

\* What recover_expired_execution asks for.  A run under a live lease of a
\* worker with a fresh heartbeat is refused.  A job in RESERVED cannot move to
\* FAILED, so the transition raises and the whole recovery rolls back.
Recoverable(e, t) ==
    /\ Running(e)
    /\ LeaseOfRun(e, t)
    /\ lease[t].status = "ACTIVE" => lease[t].ttl = 0 \/ worker[exec[e].worker].beat # "fresh"
    /\ job[exec[e].job].status \in Owned => CanMove(job[exec[e].job].status, "FAILED")

ExpireLease(t) == lease' = [lease EXCEPT ![t].status = IF @ = "ACTIVE" THEN "EXPIRED" ELSE @]

Freed(row) ==
    [row EXCEPT !.current = NoJob, !.status = IF @ \in Owned THEN "IDLE" ELSE @]

\* The run ends, and its worker is free.
AbandonRun(e) ==
    /\ exec' = [exec EXCEPT ![e].status = "ABANDONED"]
    /\ worker' = [worker EXCEPT ![exec[e].worker] = Freed(@)]

\* The job fails if anybody owns it, and an attempt is used up.
FailOwned(j) ==
    job' = IF job[j].status \in Owned
           THEN [job EXCEPT ![j] = [Settled(@, "FAILED") EXCEPT !.attempts = job[j].attempts + 1]]
           ELSE job

\* SLIP: the job is left to whoever owns it.
RecoverWithoutJob(e, t) ==
    /\ Recoverable(e, t)
    /\ ExpireLease(t)
    /\ AbandonRun(e)
    /\ UNCHANGED <<jobVars, beaten, inflight, recoveryVars>>

\* SLIP: the lease is left to the sweep.
RecoverKeepingLease(e, t) ==
    /\ Recoverable(e, t)
    /\ AbandonRun(e)
    /\ FailOwned(exec[e].job)
    /\ UNCHANGED <<queue, issue, lease, beaten, inflight, recoveryVars>>

\* SLIP: recovery waits for the sweep, which waits for the run to end.
RecoverAfterSweep(e, t) ==
    /\ Recoverable(e, t)
    /\ lease[t].status = "EXPIRED"
    /\ AbandonRun(e)
    /\ FailOwned(exec[e].job)
    /\ UNCHANGED <<queue, issue, lease, beaten, inflight, recoveryVars>>

\* recover_expired_execution, with nothing between its checks and its commit.
RecoverExecution(e, t) ==
    /\ Recoverable(e, t)
    /\ ExpireLease(t)
    /\ AbandonRun(e)
    /\ FailOwned(exec[e].job)
    /\ UNCHANGED <<queue, issue, beaten, inflight, recoveryVars>>

-----------------------------------------------------------------------------
(* Replay                                                                   *)

\* replay_failed_job up to the commit inside create_automation_job.  The
\* failure event is unique per (job, type, job status), so a second replay of
\* the job in the same status rolls back.
ReplayJob(j) ==
    LET s == job[j].status
        r == ReplayOf[j]
    IN
    /\ s \in {"FAILED", "DEAD_LETTER"}
    /\ <<j, s>> \notin replayed
    /\ r # NoJob
    /\ CreateJob(r, TRUE)
    /\ deadLetter' = [deadLetter EXCEPT ![j] = IF @ = "ABSENT" THEN @ ELSE "REPLAY_PENDING"]
    /\ replayed' = replayed \cup {<<j, s>>}
    /\ replaying' = replaying \cup {<<j, s>>}
    /\ UNCHANGED runtimeVars

\* SLIP: the dead letter is resolved whether there is a replay or not.
ReplayAgainBlind(j) ==
    /\ job[j].status \in {"FAILED", "DEAD_LETTER"}
    /\ <<j, job[j].status>> \notin replayed
    /\ Accepting(QueueOf[j])
    /\ deadLetter' = [deadLetter EXCEPT ![j] = IF @ = "ABSENT" THEN @ ELSE "RESOLVED"]
    /\ replayed' = replayed \cup {<<j, job[j].status>>}
    /\ UNCHANGED <<workerVars, replaying>>

\* replay_failed_job when the replay row exists already: nothing commits in
\* between, and the dead letter is resolved in the same transaction.
ReplayAgain(j) ==
    LET s == job[j].status
        r == ReplayOf[j]
    IN
    /\ s \in {"FAILED", "DEAD_LETTER"}
    /\ <<j, s>> \notin replayed
    /\ r # NoJob
    /\ job[r].status # "ABSENT"
    /\ Accepting(QueueOf[j])
    /\ deadLetter' = [deadLetter EXCEPT ![j] = IF @ = "ABSENT" THEN @ ELSE "RESOLVED"]
    /\ replayed' = replayed \cup {<<j, s>>}
    /\ UNCHANGED <<workerVars, replaying>>

\* SLIP: the replay is created and the dead letter forgotten.
FinishUnresolved(j, s) ==
    /\ <<j, s>> \in replaying
    /\ replaying' = replaying \ {<<j, s>>}
    /\ UNCHANGED <<workerVars, deadLetter, replayed>>

\* The rest of replay_failed_job.  The dead letter it resolves is the one it
\* found at its start: a job that was only FAILED then had none.
FinishReplay(j, s) ==
    /\ <<j, s>> \in replaying
    /\ deadLetter' = [deadLetter EXCEPT ![j] = IF s = "DEAD_LETTER" THEN "RESOLVED" ELSE @]
    /\ replaying' = replaying \ {<<j, s>>}
    /\ UNCHANGED <<workerVars, replayed>>

\* The replay dies between its commits.
ReplayDies(j, s) ==
    /\ "crash" \in Faults
    /\ <<j, s>> \in replaying
    /\ replaying' = replaying \ {<<j, s>>}
    /\ UNCHANGED <<workerVars, deadLetter, replayed>>

-----------------------------------------------------------------------------
Init ==
    /\ WorkersInit
    /\ deadLetter = [j \in Jobs |-> "ABSENT"]
    /\ replayed = {}
    /\ replaying = {}

RecoveryRequest ==
    \/ \E j \in Jobs : TransferToDeadLetter(j) \/ ReplayJob(j) \/ ReplayAgain(j)
    \/ \E j \in Jobs, p \in Policies : ScheduleRetry(j, p) \/ RetryExhausted(j, p)
    \/ \E e \in Execs, t \in Tokens : RecoverExecution(e, t)

Next ==
    \/ WorkersNext /\ UNCHANGED recoveryVars
    \/ RecoveryRequest
    \/ \E j \in Jobs, s \in {"FAILED", "DEAD_LETTER"} : FinishReplay(j, s) \/ ReplayDies(j, s)

Spec == Init /\ [][Next]_vars

-----------------------------------------------------------------------------
(* The abstract specification                                               *)

\* What a job's status means to the outside.
PhaseOf(status) ==
    CASE status = "ABSENT" -> "unborn"
      [] status = "QUEUED" -> "parked"
      [] status = "AVAILABLE" -> "open"
      [] status \in Owned -> "held"
      [] status = "COMPLETED" -> "done"
      [] status = "FAILED" -> "failed"
      [] status = "DEAD_LETTER" -> "buried"
      [] OTHER -> "in transit"

Lifecycle == INSTANCE JobLifecycle WITH
                 Budget  <- MaxAttempts,
                 phase   <- [j \in Jobs |-> PhaseOf(job[j].status)],
                 charged <- [j \in Jobs |-> job[j].attempts]

-----------------------------------------------------------------------------
(* Properties                                                               *)

\* The whole runtime, with its split transactions, sweeps, recoveries and
\* replays, implements the job lifecycle.
ImplementsLifecycle == Lifecycle!Spec

TypeOK ==
    /\ WorkersTypeOK
    /\ deadLetter \in [Jobs -> DeadLetterStatus]
    /\ replayed \subseteq Jobs \X {"FAILED", "DEAD_LETTER"}
    /\ replaying \subseteq replayed

\* The attempt count is the number of runs that ended badly for the job: every
\* failed run is counted, and nothing but a failed or an abandoned run is.
AttemptsAccounted ==
    \A j \in Jobs :
        LET ended(s) == {e \in Execs : exec[e].status = s /\ exec[e].job = j} IN
        /\ Cardinality(ended("FAILED")) <= job[j].attempts
        /\ job[j].attempts <= Cardinality(ended("FAILED") \cup ended("ABANDONED"))

\* The dead-letter table and the job table name the same jobs.
DeadLetterMatchesJob ==
    \A j \in Jobs : deadLetter[j] # "ABSENT" <=> job[j].status = "DEAD_LETTER"

\* A dead letter waits for its replay only while the replay is at work: what
\* is left waiting stays so, because the failure event of a second replay
\* repeats the first one's checksum.
PendingIsReplaying ==
    \A j \in Jobs : deadLetter[j] = "REPLAY_PENDING" => <<j, "DEAD_LETTER">> \in replaying

\* A resolved dead letter has its replay.
ResolvedHasReplay ==
    \A j \in Jobs : deadLetter[j] = "RESOLVED" =>
        ReplayOf[j] # NoJob /\ job[ReplayOf[j]].status # "ABSENT"
=============================================================================
