------------------------ MODULE AutomationTypeProofs ------------------------
(***************************************************************************)
(* Type correctness of the P41 runtime, proved for every set of jobs,      *)
(* workers, tokens and queues, for every combination of Faults and for     *)
(* every bound.  The other proofs start from the invariant found here.     *)
(***************************************************************************)
EXTENDS AutomationRecovery, FiniteSetTheorems, TLAPS

(***************************************************************************)
(* TypeOK is not inductive: finishing a request writes to the lease row it *)
(* names, which is a row only because no request finishes without one.     *)
(***************************************************************************)
FinishHasLease ==
    \A r \in inflight : r.op = "finish" => lease[r.token].status # "ABSENT"

TypeInv == TypeOK /\ FinishHasLease

-----------------------------------------------------------------------------
(* Rows                                                                     *)

\* Moving, starting and settling a job row give a job row.
LEMMA RowTypes ==
    ASSUME NEW row \in JobRow, NEW to \in JobStatus
    PROVE  /\ Moved(row, to) \in JobRow
           /\ Started(row) \in JobRow
           /\ Settled(row, to) \in JobRow
           /\ [Moved(row, to) EXCEPT !.ready = FALSE] \in JobRow
           /\ \A n \in Nat : [Settled(row, to) EXCEPT !.attempts = n] \in JobRow
           /\ \A t \in Tokens : [Moved(row, to) EXCEPT !.token = t] \in JobRow
<1>1. ASSUME NEW s \in JobStatus
      PROVE  Moved(row, s) \in JobRow
  BY <1>1 DEF Moved, JobRow
<1>2. Started(row) \in JobRow
  BY <1>1 DEF Started, JobStatus
<1>3. Settled(row, to) \in JobRow
  BY <1>1 DEF Settled, JobRow
<1> QED
  BY <1>1, <1>2, <1>3 DEF JobRow

\* A created row is a job row: its rank is bounded by a count of a finite table.
LEMMA CreatedType ==
    ASSUME NEW q \in Queues, NEW due \in BOOLEAN, NEW n \in RanksFor(q)
    PROVE  [Moved(AbsentJob, "AVAILABLE") EXCEPT !.ready = due, !.rank = n] \in JobRow
<1> DEFINE Created == {j \in Jobs : QueueOf[j] = q /\ job[j].status # "ABSENT"}
<1>1. Cardinality(Created) \in Nat
  BY JobsAssumption, FS_Subset, FS_CardinalityType
<1>2. n \in Nat
  BY <1>1 DEF RanksFor
<1> QED
  BY <1>2 DEF Moved, AbsentJob, JobRow, JobStatus

\* A worker row keeps its type whatever transition it is asked for.
LEMMA MoveWorkerType ==
    ASSUME NEW row \in WorkerRow, NEW from \in WorkerStatus, NEW to \in WorkerStatus
    PROVE  MoveWorker(row, from, to) \in WorkerRow
  BY DEF MoveWorker, WorkerRow, WorkerStatus

\* So does one that recovery frees.
LEMMA FreedType ==
    ASSUME NEW row \in WorkerRow
    PROVE  Freed(row) \in WorkerRow
  BY DEF Freed, WorkerRow, WorkerStatus, Owned

-----------------------------------------------------------------------------
(* The ledger's operations keep its types                                   *)

\* Creation does, whoever asks for it.
LEMMA CreateJobType ==
    ASSUME JobsTypeOK, NEW j \in Jobs, NEW due \in BOOLEAN, CreateJob(j, due)
    PROVE  JobsTypeOK'
<1> DEFINE created(n) == [Moved(AbsentJob, "AVAILABLE") EXCEPT !.ready = due, !.rank = n]
<1>1. QueueOf[j] \in Queues
  BY JobsAssumption
<1>2. PICK n \in RanksFor(QueueOf[j]) : job' = [job EXCEPT ![j] = created(n)]
  BY DEF CreateJob
<1>3. created(n) \in JobRow
  BY <1>1, <1>2, CreatedType
<1> HIDE DEF created
<1>4. job' \in [Jobs -> JobRow]
  BY <1>2, <1>3 DEF JobsTypeOK
<1>5. queue' \in [Queues -> QueueStatus]
  BY <1>1 DEF CreateJob, JobsTypeOK, QueueStatus
<1> QED
  BY <1>4, <1>5 DEF CreateJob, JobsTypeOK

\* Creation, the passage of time and queue controls keep the ledger's types.
LEMMA IntakeType ==
    ASSUME JobsTypeOK, Intake
    PROVE  JobsTypeOK'
<1> USE JobsAssumption DEF JobsTypeOK
<1>1. ASSUME NEW j \in Submitted, CreateRuleJob(j)
      PROVE  JobsTypeOK'
  <2>1. [AbsentJob EXCEPT !.status = "QUEUED", !.ready = TRUE, !.rank = 1] \in JobRow
    BY DEF AbsentJob, JobRow, JobStatus
  <2> QED
    BY <1>1, <2>1 DEF CreateRuleJob
<1>2. ASSUME NEW j \in Submitted, NEW due \in BOOLEAN, CreateJob(j, due)
      PROVE  JobsTypeOK'
  <2>1. j \in Jobs
    OBVIOUS
  <2> QED
    BY <1>2, <2>1, CreateJobType
<1>3. ASSUME NEW j \in Jobs, BecomeReady(j)
      PROVE  JobsTypeOK'
  BY <1>3 DEF BecomeReady, JobRow
<1>4. ASSUME NEW q \in Queues, NEW s \in {"ACTIVE", "PAUSED"}, SetQueueStatus(q, s)
      PROVE  JobsTypeOK'
  BY <1>4 DEF SetQueueStatus, QueueStatus
<1> QED
  BY <1>1, <1>2, <1>3, <1>4 DEF Intake

\* So do completion and failure,
LEMMA SettleType ==
    ASSUME JobsTypeOK,
           NEW j \in Jobs, NEW t \in Tokens,
           MarkCompleted(j, t) \/ \E k \in FailureKeys : MarkFailed(j, t, k)
    PROVE  JobsTypeOK'
<1> DEFINE row == job[j]
<1>1. /\ row \in JobRow
      /\ Started(row) \in JobRow
      /\ row.attempts + 1 \in Nat
  <2>1. row \in JobRow
    BY DEF JobsTypeOK
  <2>2. "FAILED" \in JobStatus
    BY DEF JobStatus
  <2> HIDE DEF row
  <2>3. row.attempts + 1 \in Nat
    BY <2>1 DEF JobRow
  <2> QED
    BY <2>1, <2>2, <2>3, RowTypes
<1>2. CASE MarkCompleted(j, t)
  <2>1. Settled(Started(row), "COMPLETED") \in JobRow
    BY <1>1, RowTypes DEF JobStatus
  <2> QED
    BY <1>2, <2>1 DEF MarkCompleted, JobsTypeOK
<1>3. ASSUME NEW k \in FailureKeys, MarkFailed(j, t, k)
      PROVE  JobsTypeOK'
  <2>1. [Settled(Started(row), "FAILED") EXCEPT !.attempts = row.attempts + 1] \in JobRow
    BY <1>1, RowTypes DEF JobStatus
  <2> QED
    BY <1>3, <2>1 DEF MarkFailed, JobsTypeOK
<1> QED
  BY <1>2, <1>3

\* and reservation.
LEMMA ReserveType ==
    ASSUME JobsTypeOK, NEW q \in Queues, NEW t \in Tokens, NEW j \in Jobs, ReserveJob(q, t, j)
    PROVE  JobsTypeOK'
<1>1. [Moved(job[j], "RESERVED") EXCEPT !.token = t] \in JobRow
  BY RowTypes DEF JobsTypeOK, JobStatus
<1> QED
  BY <1>1 DEF ReserveJob, WriteReservation, JobsTypeOK

-----------------------------------------------------------------------------
(* Each action keeps TypeInv                                                *)

\* A lease, a worker or a run that is there is a row.
LEMMA RowsThere ==
    ASSUME WorkersTypeOK
    PROVE  /\ \A t \in Tokens : lease[t].status # "ABSENT" => lease[t] \in LeaseRow
           /\ \A t \in Tokens : lease[t].worker \in Workers => lease[t] \in LeaseRow
           /\ \A e \in Execs : exec[e].status # "ABSENT" => exec[e] \in ExecRow
           /\ \A w \in Workers : worker[w] \in WorkerRow
  BY WorkersAssumption DEF WorkersTypeOK, AbsentLease, AbsentExec

\* Registration, heartbeats and their ageing keep the types.
LEMMA WorkerRecordTypes ==
    ASSUME TypeInv, NEW w \in Workers,
           \/ RegisterWorker(w)
           \/ \E b \in Beats : Heartbeat(w, b)
           \/ HeartbeatAges(w),
           UNCHANGED recoveryVars
    PROVE  TypeInv'
<1> USE DEF TypeInv, TypeOK, WorkersTypeOK, JobsTypeOK, FinishHasLease, jobVars, recoveryVars
<1>1. worker[w] \in WorkerRow
  OBVIOUS
<1>2. /\ [worker[w] EXCEPT !.status = "IDLE"] \in WorkerRow
      /\ [worker[w] EXCEPT !.beat = "fresh"] \in WorkerRow
      /\ [worker[w] EXCEPT !.beat = "stale"] \in WorkerRow
  BY <1>1 DEF WorkerRow, WorkerStatus
<1>3. CASE RegisterWorker(w)
  BY <1>2, <1>3 DEF RegisterWorker
<1>4. CASE \E b \in Beats : Heartbeat(w, b)
  BY <1>2, <1>4 DEF Heartbeat
<1>5. CASE HeartbeatAges(w)
  BY <1>2, <1>5 DEF HeartbeatAges
<1> QED
  BY <1>3, <1>4, <1>5

\* So does the first commit of acquire_job_lease,
LEMMA AcquireTypes ==
    ASSUME TypeInv, NEW w \in Workers, NEW t \in Tokens, NEW j \in Jobs,
           AcquireReserve(w, t, j), UNCHANGED recoveryVars
    PROVE  TypeInv'
<1>1. PICK i \in DOMAIN Scope[w] : ReserveJob(Scope[w][i], t, j)
  BY DEF AcquireReserve
<1>2. Scope[w][i] \in Queues
  BY WorkersAssumption
<1>3. JobsTypeOK'
  BY <1>1, <1>2, ReserveType DEF TypeInv, TypeOK, WorkersTypeOK
<1>4. [op |-> "acquire", worker |-> w, token |-> t, job |-> j] \in Request
  BY DEF Request
<1> QED
  BY <1>3, <1>4 DEF AcquireReserve, TypeInv, TypeOK, WorkersTypeOK, FinishHasLease, recoveryVars

\* the id it gives the next lease row being a number,
LEMMA LeaseIdType ==
    Cardinality({t \in Tokens : lease[t].status # "ABSENT"}) + 1 \in Nat
  BY WorkersAssumption, FS_Subset, FS_CardinalityType

\* and its second.
LEMMA AcquireLeaseTypes ==
    ASSUME TypeInv, NEW r \in inflight, AcquireLease(r), UNCHANGED recoveryVars
    PROVE  TypeInv'
<1>1. r \in Request
  BY DEF TypeInv, TypeOK, WorkersTypeOK
<1>2. /\ r.worker \in Workers /\ r.token \in Tokens /\ r.job \in Jobs
      /\ worker[r.worker] \in WorkerRow
  BY <1>1, RowsThere DEF Request, TypeInv, TypeOK
<1>3. worker' \in [Workers -> WorkerRow]
  <2>1. MoveWorker(worker[r.worker], "IDLE", "RESERVED") \in WorkerRow
    BY <1>2, MoveWorkerType DEF WorkerStatus
  <2>2. [MoveWorker(worker[r.worker], "IDLE", "RESERVED") EXCEPT !.current = r.job] \in WorkerRow
    BY <1>2, <2>1 DEF WorkerRow
  <2> QED
    BY <1>2, <2>2 DEF AcquireLease, TypeInv, TypeOK, WorkersTypeOK
<1>4. PICK n \in 1 .. LeaseTtl :
         lease' = [lease EXCEPT ![r.token] =
                      [status |-> "ACTIVE", worker |-> r.worker, job |-> r.job, ttl |-> n,
                       id |-> Cardinality({t \in Tokens : lease[t].status # "ABSENT"}) + 1]]
  BY DEF AcquireLease
<1>5. [status |-> "ACTIVE", worker |-> r.worker, job |-> r.job, ttl |-> n,
       id |-> Cardinality({t \in Tokens : lease[t].status # "ABSENT"}) + 1] \in LeaseRow
  BY <1>2, LeaseIdType, WorkersAssumption DEF LeaseRow
<1>6. lease' \in [Tokens -> LeaseRow \cup {AbsentLease}]
  BY <1>4, <1>5 DEF TypeInv, TypeOK, WorkersTypeOK
<1>7. FinishHasLease'
  BY <1>1, <1>2, <1>4 DEF AcquireLease, FinishHasLease, TypeInv, TypeOK, WorkersTypeOK, Request
<1> QED
  BY <1>3, <1>6, <1>7
  DEF AcquireLease, TypeInv, TypeOK, WorkersTypeOK, JobsTypeOK, jobVars, recoveryVars

\* A lease that is renewed or ages stays a lease.
LEMMA LeaseTypes ==
    ASSUME TypeInv, NEW t \in Tokens,
           (\E w \in Workers : RenewLease(w, t)) \/ LeaseAges(t), UNCHANGED recoveryVars
    PROVE  TypeInv'
<1> USE DEF TypeInv, TypeOK, WorkersTypeOK, JobsTypeOK, FinishHasLease, jobVars, recoveryVars
<1>1. lease[t] \in LeaseRow
  BY RowsThere DEF RenewLease, LeaseAges, HoldsLease
<1>2. \A n \in 0 .. LeaseTtl : [lease[t] EXCEPT !.ttl = n] \in LeaseRow
  BY <1>1 DEF LeaseRow
<1>3. ASSUME NEW w \in Workers, RenewLease(w, t)
      PROVE  TypeInv'
  <2>1. PICK n \in 1 .. LeaseTtl : lease' = [lease EXCEPT ![t].ttl = n]
    BY <1>3 DEF RenewLease
  <2>2. n \in 0 .. LeaseTtl
    BY WorkersAssumption
  <2> QED
    BY <1>2, <1>3, <2>1, <2>2 DEF RenewLease, Request
<1>4. CASE LeaseAges(t)
  <2>1. lease[t].ttl - 1 \in 0 .. LeaseTtl
    BY <1>1, <1>4, WorkersAssumption DEF LeaseAges, LeaseRow
  <2> QED
    BY <1>2, <1>4, <2>1 DEF LeaseAges, Request
<1> QED
  BY <1>3, <1>4

\* What the sweep writes over a job's row and a worker's record is one.
LEMMA SweptRowTypes ==
    /\ \A row \in JobRow : [row EXCEPT !.status = "AVAILABLE", !.token = NoToken] \in JobRow
    /\ \A row \in WorkerRow :
          [row EXCEPT !.current = NoJob,
                      !.status = IF @ = "RESERVED" THEN "IDLE" ELSE @] \in WorkerRow
<1>1. ASSUME NEW row \in JobRow
      PROVE  [row EXCEPT !.status = "AVAILABLE", !.token = NoToken] \in JobRow
  BY DEF JobRow, JobStatus
<1>2. ASSUME NEW row \in WorkerRow
      PROVE  [row EXCEPT !.current = NoJob,
                         !.status = IF @ = "RESERVED" THEN "IDLE" ELSE @] \in WorkerRow
  BY DEF WorkerRow, WorkerStatus
<1> QED
  BY <1>1, <1>2

\* The sweep keeps the types of the three tables it writes; a lease it expires
\* is one with a row, so a finishing request still has its lease.
LEMMA SweepTypes ==
    ASSUME TypeInv, ReleaseExpired, UNCHANGED recoveryVars
    PROVE  TypeInv'
<1> USE DEF TypeInv, TypeOK, WorkersTypeOK, JobsTypeOK
<1>1. \A t \in Tokens : SweptLease(t) \in LeaseRow \cup {AbsentLease}
  <2> TAKE t \in Tokens
  <2>1. t \in Lapsed => lease[t] \in LeaseRow
    BY RowsThere DEF Lapsed
  <2>2. t \in Lapsed => [lease[t] EXCEPT !.status = "EXPIRED"] \in LeaseRow
    BY <2>1 DEF LeaseRow
  <2> QED
    BY <2>2 DEF SweptLease
<1>2. \A j \in Jobs : SweptJob(j) \in JobRow
  <2> TAKE j \in Jobs
  <2>1. job[j] \in JobRow
    OBVIOUS
  <2> QED
    BY <2>1, SweptRowTypes DEF SweptJob
<1>3. \A w \in Workers : SweptWorker(w) \in WorkerRow
  <2> TAKE w \in Workers
  <2>1. worker[w] \in WorkerRow
    OBVIOUS
  <2> QED
    BY <2>1, SweptRowTypes DEF SweptWorker
<1>4. FinishHasLease'
  BY DEF ReleaseExpired, SweptLease, FinishHasLease, Request
<1> QED
  BY <1>1, <1>2, <1>3, <1>4 DEF ReleaseExpired, recoveryVars

\* start_job_execution keeps the types: the lease it reads has a row.
LEMMA StartTypes ==
    ASSUME TypeInv, NEW w \in Workers, NEW t \in Tokens, NEW e \in Execs,
           StartExecution(w, t, e), UNCHANGED recoveryVars
    PROVE  TypeInv'
<1> DEFINE j == lease[t].job
<1> USE DEF TypeInv, TypeOK, WorkersTypeOK, JobsTypeOK
<1>1. lease[t] \in LeaseRow
  BY RowsThere DEF StartExecution, MayStart, HoldsLease
<1>2. j \in Jobs
  BY <1>1 DEF LeaseRow
<1>3. worker' \in [Workers -> WorkerRow]
  <2>1. MoveWorker(worker[w], "RESERVED", "RUNNING") \in WorkerRow
    BY MoveWorkerType DEF WorkerStatus
  <2> QED
    BY <2>1 DEF StartExecution
<1>4. job' \in [Jobs -> JobRow]
  <2>1. Started(job[j]) \in JobRow
    <3>1. job[j] \in JobRow /\ "FAILED" \in JobStatus
      BY <1>2 DEF JobStatus
    <3> QED
      BY <3>1, RowTypes
  <2> QED
    BY <1>2, <2>1 DEF StartExecution
<1>5. [status |-> "STARTED", worker |-> w, job |-> j] \in ExecRow
  BY <1>2 DEF ExecRow
<1> QED
  BY <1>3, <1>4, <1>5 DEF StartExecution, FinishHasLease, recoveryVars

\* The first commit of a completion or a failure keeps the types, and the
\* request it leaves in flight has a lease row.
LEMMA SettleRunTypes ==
    ASSUME TypeInv, NEW w \in Workers, NEW t \in Tokens, NEW e \in Execs,
           \/ CompleteExecution(w, t, e)
           \/ \E reason \in Reasons : FailExecution(w, t, e, reason),
           UNCHANGED recoveryVars
    PROVE  TypeInv'
<1> USE DEF TypeInv, TypeOK, WorkersTypeOK
<1>1. SettlesRun(w, t, e)
  BY DEF CompleteExecution, FailExecution
<1>2. lease[t] \in LeaseRow
  BY <1>1, RowsThere DEF SettlesRun, NewestRun, HoldsLease
<1>3. lease[t].job \in Jobs
  BY <1>2 DEF LeaseRow
<1>4. JobsTypeOK'
  <2>1. MarkCompleted(lease[t].job, t) \/ \E k \in FailureKeys : MarkFailed(lease[t].job, t, k)
    BY WorkersAssumption DEF CompleteExecution, FailExecution
  <2> QED
    BY <1>3, <2>1, SettleType
<1>5. exec[e] \in ExecRow
  BY <1>1, RowsThere DEF SettlesRun, NewestRun, RunsOf, Running
<1>6. /\ [exec[e] EXCEPT !.status = "COMPLETED"] \in ExecRow
      /\ [exec[e] EXCEPT !.status = "FAILED"] \in ExecRow
  BY <1>5 DEF ExecRow
<1>7. exec' \in [Execs -> ExecRow \cup {AbsentExec}]
  BY <1>6 DEF CompleteExecution, FailExecution
<1>8. inflight' \subseteq Request
  BY <1>1, <1>3 DEF SettlesRun, Request
<1>9. FinishHasLease'
  <2>1. lease' = lease /\ lease[t].status = "ACTIVE"
    BY <1>1 DEF CompleteExecution, FailExecution, SettlesRun, NewestRun, HoldsLease
  <2> QED
    BY <1>1, <2>1 DEF SettlesRun, FinishHasLease
<1> QED
  BY <1>4, <1>7, <1>8, <1>9 DEF CompleteExecution, FailExecution, recoveryVars

\* The end of a request keeps the types; the release of a lease needs its row
\* to be there.
LEMMA RequestEndTypes ==
    ASSUME TypeInv, NEW r \in inflight,
           FinishExecution(r) \/ AcquireRefused(r) \/ RequestDies(r),
           UNCHANGED recoveryVars
    PROVE  TypeInv'
<1> USE DEF TypeInv, TypeOK, WorkersTypeOK, JobsTypeOK, jobVars, recoveryVars
<1>1. /\ r \in Request
      /\ r.worker \in Workers /\ r.token \in Tokens
  BY DEF Request
<1>2. CASE FinishExecution(r)
  <2>1. lease[r.token] \in LeaseRow
    BY <1>1, <1>2, RowsThere DEF FinishExecution, FinishHasLease
  <2>2. [lease[r.token] EXCEPT !.status = "RELEASED"] \in LeaseRow
    BY <2>1 DEF LeaseRow
  <2>3. MoveWorker(worker[r.worker], "RUNNING", "IDLE") \in WorkerRow
    BY <1>1, MoveWorkerType DEF WorkerStatus
  <2>4. [MoveWorker(worker[r.worker], "RUNNING", "IDLE") EXCEPT !.current = NoJob] \in WorkerRow
    BY <2>3 DEF WorkerRow
  <2>5. FinishHasLease'
    BY <1>1, <1>2 DEF FinishExecution, FinishHasLease, Request
  <2> QED
    BY <1>1, <1>2, <2>2, <2>4, <2>5 DEF FinishExecution
<1>3. CASE AcquireRefused(r) \/ RequestDies(r)
  BY <1>3 DEF AcquireRefused, RequestDies, FinishHasLease
<1> QED
  BY <1>2, <1>3

\* Retries and dead letters keep the types.
LEMMA RetryTypes ==
    ASSUME TypeInv, NEW j \in Jobs,
           (\E p \in Policies : ScheduleRetry(j, p)) \/ TransferToDeadLetter(j)
    PROVE  TypeInv'
<1> USE DEF TypeInv, TypeOK, WorkersTypeOK, JobsTypeOK, FinishHasLease, runtimeVars, recoveryVars
<1>1. /\ [Moved(job[j], "AVAILABLE") EXCEPT !.ready = FALSE] \in JobRow
      /\ Moved(job[j], "DEAD_LETTER") \in JobRow
  BY RowTypes DEF JobStatus
<1>2. CASE \E p \in Policies : ScheduleRetry(j, p)
  BY <1>1, <1>2 DEF ScheduleRetry
<1>3. CASE TransferToDeadLetter(j)
  BY <1>1, <1>3 DEF TransferToDeadLetter, DeadLetterStatus
<1> QED
  BY <1>2, <1>3

\* Recovery of an execution keeps the types.
LEMMA RecoverTypes ==
    ASSUME TypeInv, NEW e \in Execs, NEW t \in Tokens, RecoverExecution(e, t)
    PROVE  TypeInv'
<1> USE DEF TypeInv, TypeOK, WorkersTypeOK, JobsTypeOK
<1>1. exec[e] \in ExecRow
  BY RowsThere DEF RecoverExecution, Recoverable, Running
<1>2. exec[e].worker \in Workers /\ exec[e].job \in Jobs
  BY <1>1 DEF ExecRow
<1>3. lease[t] \in LeaseRow
  BY <1>2, RowsThere DEF RecoverExecution, Recoverable, LeaseOfRun
<1>4. lease' \in [Tokens -> LeaseRow \cup {AbsentLease}]
  <2>1. [lease[t] EXCEPT !.status = IF @ = "ACTIVE" THEN "EXPIRED" ELSE @] \in LeaseRow
    BY <1>3 DEF LeaseRow
  <2> QED
    BY <2>1 DEF RecoverExecution, ExpireLease
<1>5. exec' \in [Execs -> ExecRow \cup {AbsentExec}]
  <2>1. [exec[e] EXCEPT !.status = "ABANDONED"] \in ExecRow
    BY <1>1 DEF ExecRow
  <2> QED
    BY <2>1 DEF RecoverExecution, AbandonRun
<1>6. worker' \in [Workers -> WorkerRow]
  <2>1. Freed(worker[exec[e].worker]) \in WorkerRow
    BY <1>2, FreedType
  <2> QED
    BY <1>2, <2>1 DEF RecoverExecution, AbandonRun
<1>7. job' \in [Jobs -> JobRow]
  <2> DEFINE row == job[exec[e].job]
  <2>1. row \in JobRow /\ row.attempts + 1 \in Nat /\ "FAILED" \in JobStatus
    BY <1>2 DEF JobRow, JobStatus
  <2>2. [Settled(row, "FAILED") EXCEPT !.attempts = row.attempts + 1] \in JobRow
    BY <2>1, RowTypes
  <2> QED
    BY <1>2, <2>2 DEF RecoverExecution, FailOwned
<1>8. FinishHasLease'
  BY <1>3 DEF RecoverExecution, ExpireLease, FinishHasLease, Request
<1> QED
  BY <1>4, <1>5, <1>6, <1>7, <1>8 DEF RecoverExecution, recoveryVars

\* Every step of a replay keeps the types.
LEMMA ReplayTypes ==
    ASSUME TypeInv, NEW j \in Jobs,
           \/ ReplayJob(j)
           \/ ReplayAgain(j)
           \/ \E s \in {"FAILED", "DEAD_LETTER"} : FinishReplay(j, s) \/ ReplayDies(j, s)
    PROVE  TypeInv'
<1> USE DEF TypeInv, TypeOK, FinishHasLease, DeadLetterStatus, workerVars, runtimeVars,
            WorkersTypeOK
<1>1. CASE ReplayJob(j)
  <2> DEFINE c == ReplayOf[j]
  <2>1. c \in Jobs
    BY <1>1, RecoveryAssumption DEF ReplayJob
  <2>2. CreateJob(c, TRUE)
    BY <1>1 DEF ReplayJob
  <2>3. JobsTypeOK'
    BY <2>1, <2>2, CreateJobType
  <2> QED
    BY <1>1, <2>3 DEF ReplayJob
<1>2. CASE ReplayAgain(j)
  BY <1>2 DEF ReplayAgain, JobsTypeOK, jobVars
<1>3. CASE \E s \in {"FAILED", "DEAD_LETTER"} : FinishReplay(j, s) \/ ReplayDies(j, s)
  BY <1>3 DEF FinishReplay, ReplayDies, JobsTypeOK, jobVars
<1> QED
  BY <1>1, <1>2, <1>3

-----------------------------------------------------------------------------
(* Type correctness                                                         *)

\* The empty database is well typed.
LEMMA TypeInit ==
    Init => TypeInv
<1> SUFFICES ASSUME Init PROVE TypeInv
  OBVIOUS
<1>1. AbsentJob \in JobRow
  BY DEF AbsentJob, JobRow, JobStatus
<1>2. [status |-> "ABSENT", current |-> NoJob, beat |-> "never"] \in WorkerRow
  BY DEF WorkerRow, WorkerStatus
<1>3. WorkersTypeOK
  BY <1>1, <1>2 DEF Init, WorkersInit, RuntimeInit, JobsInit, WorkersTypeOK, JobsTypeOK, QueueStatus
<1> QED
  BY <1>3 DEF Init, WorkersInit, RuntimeInit, TypeInv, TypeOK, DeadLetterStatus, FinishHasLease

\* Every step keeps the types, by the lemma of its action.
LEMMA TypeStep ==
    TypeInv /\ [Next]_vars => TypeInv'
<1> SUFFICES ASSUME TypeInv, [Next]_vars PROVE TypeInv'
  OBVIOUS
<1>1. CASE Intake /\ UNCHANGED <<runtimeVars, recoveryVars>>
  BY <1>1, IntakeType
  DEF TypeInv, TypeOK, WorkersTypeOK, FinishHasLease, runtimeVars, recoveryVars
<1>2. ASSUME NEW w \in Workers, WorkerRequest(w), UNCHANGED recoveryVars
      PROVE  TypeInv'
  BY <1>2, WorkerRecordTypes, AcquireTypes, LeaseTypes, StartTypes, SettleRunTypes
  DEF WorkerRequest
<1>3. ASSUME NEW r \in inflight, Continue(r) \/ RequestDies(r), UNCHANGED recoveryVars
      PROVE  TypeInv'
  BY <1>3, AcquireLeaseTypes, RequestEndTypes DEF Continue
<1>4. CASE Clock /\ UNCHANGED recoveryVars
  BY <1>4, WorkerRecordTypes, LeaseTypes DEF Clock
<1>5. CASE ReleaseExpired /\ UNCHANGED recoveryVars
  BY <1>5, SweepTypes
<1>6. CASE RecoveryRequest
  BY <1>6, RetryTypes, RecoverTypes, ReplayTypes DEF RecoveryRequest, RetryExhausted
<1>7. ASSUME NEW j \in Jobs, NEW s \in {"FAILED", "DEAD_LETTER"}, FinishReplay(j, s) \/ ReplayDies(j, s)
      PROVE  TypeInv'
  BY <1>7, ReplayTypes
<1>8. CASE UNCHANGED vars
  BY <1>8 DEF vars, workerVars, runtimeVars, jobVars, recoveryVars,
              TypeInv, TypeOK, WorkersTypeOK, JobsTypeOK, FinishHasLease
<1> QED
  BY <1>1, <1>2, <1>3, <1>4, <1>5, <1>6, <1>7, <1>8 DEF Next, WorkersNext

\* Type correctness of the whole runtime.
THEOREM TypeCorrect ==
    Spec => []TypeOK
<1>1. TypeInv => TypeOK
  BY DEF TypeInv
<1> QED
  BY TypeInit, TypeStep, <1>1, PTL DEF Spec
=============================================================================
