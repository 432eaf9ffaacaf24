-------------------------- MODULE AutomationWorkers --------------------------
(***************************************************************************)
(* The worker runtime of automation_workers.py on top of the job ledger:   *)
(* registration, heartbeats, leases, executions and the expiry sweep.      *)
(*                                                                         *)
(* acquire_job_lease, complete_job_execution and fail_job_execution commit *)
(* twice, because the ledger function they call commits on its own.  Each  *)
(* is two actions with the request in flight between them, where other     *)
(* requests run and where the request may die with its process.  What a    *)
(* transaction reads is read in the step of its commit: nothing overtakes  *)
(* it.  AutomationRaces opens that window where the documents say it is    *)
(* safe.                                                                   *)
(***************************************************************************)
EXTENDS AutomationJobs, Sequences

CONSTANTS
    Workers,          \* worker identifiers
    NoJob,            \* current_job_id IS NULL
    NoWorker,         \* the worker of a row that does not exist
    Scope,            \* [Workers -> Seq(Queues)]: queue_scope_json.queue_keys; of a
                      \* worker without a scope, all queues in the order of their keys
    Unscoped,         \* the workers without a scope
    MaxConcurrency,   \* [Workers -> Nat]: max_concurrency, at least 1
    Reasons,          \* failure_reason payloads
    Beats,            \* (heartbeat_status, active_job_count) payloads
    LeaseTtl,         \* longest lease, in clock steps
    MaxExecutions,    \* bound on rows of automation_worker_executions
    MaxInFlight,      \* bound on requests between their two commits
    Faults            \* what clients and processes may do wrong, see below

\* "crash": a request dies between its commits.  "overlap": a worker sends a
\* request while one of its own is in flight.  "token_reuse": an acquire
\* repeats a reservation token.  "busy_acquire": a worker asks for a job while
\* its record still names one.
FaultKinds == {"crash", "overlap", "token_reuse", "busy_acquire"}

ASSUME WorkersAssumption ==
    /\ IsFiniteSet(Tokens)
    /\ NoJob \notin Jobs
    /\ NoWorker \notin Workers
    /\ Scope \in [Workers -> Seq(Queues)]
    /\ Unscoped \subseteq Workers
    /\ MaxConcurrency \in [Workers -> Nat \ {0}]
    /\ FailureKeys = Workers \X Reasons
    /\ LeaseTtl \in Nat \ {0}
    /\ MaxExecutions \in Nat
    /\ MaxInFlight \in Nat
    /\ Faults \subseteq FaultKinds

VARIABLES
    worker,    \* [Workers -> row]: automation_workers
    lease,     \* [Tokens -> row]: automation_worker_leases, unique by token
    exec,      \* [Execs -> row]: automation_worker_executions, by id
    beaten,    \* the (worker, beat) pairs in automation_worker_history
    inflight   \* requests between their two commits

runtimeVars == <<worker, lease, exec, beaten, inflight>>
workerVars == <<jobVars, runtimeVars>>

-----------------------------------------------------------------------------
(* Rows                                                                     *)

Execs == 1 .. MaxExecutions

\* The statuses of a worker that can still be used; nothing writes the others.
WorkerStatus == {"ABSENT", "IDLE", "RESERVED", "RUNNING"}

\* beat is the age of last_heartbeat_at against the 120 second limit.
WorkerRow == [status  : WorkerStatus,
              current : Jobs \cup {NoJob},
              beat    : {"never", "fresh", "stale"}]

\* ttl is the time to lease_expires_at; id is the row's id.
LeaseRow == [status : {"ACTIVE", "RELEASED", "EXPIRED"},
             worker : Workers,
             job    : Jobs,
             ttl    : 0 .. LeaseTtl,
             id     : Nat]

AbsentLease == [status |-> "ABSENT", worker |-> NoWorker, job |-> NoJob, ttl |-> 0, id |-> 0]

ExecRow == [status : {"STARTED", "COMPLETED", "FAILED", "ABANDONED"},
            worker : Workers,
            job    : Jobs]

AbsentExec == [status |-> "ABSENT", worker |-> NoWorker, job |-> NoJob]

\* op "acquire" holds a reservation without a lease yet; op "finish" has
\* settled the job and still holds the lease.
Request == [op : {"acquire", "finish"}, worker : Workers, token : Tokens, job : Jobs]

AllowedWorkerTransitions ==
    {<<"STARTING", "IDLE">>, <<"IDLE", "RESERVED">>, <<"RESERVED", "RUNNING">>,
     <<"RUNNING", "IDLE">>, <<"RUNNING", "ERROR">>, <<"RUNNING", "SHUTTING_DOWN">>,
     <<"SHUTTING_DOWN", "OFFLINE">>, <<"ERROR", "OFFLINE">>}

-----------------------------------------------------------------------------
(* Queries                                                                  *)

LiveLeases(w) ==
    {t \in Tokens : lease[t].status = "ACTIVE" /\ lease[t].worker = w /\ lease[t].ttl > 0}

Running(e) == exec[e].status = "STARTED"

RunsOf(w, j) == {e \in Execs : Running(e) /\ exec[e].worker = w /\ exec[e].job = j}

HasRun(j) == \E e \in Execs : Running(e) /\ exec[e].job = j

\* The lease a worker's request names by its token.
HoldsLease(w, t) == lease[t].status = "ACTIVE" /\ lease[t].worker = w

\* _ensure_worker_job_access
MayTake(w, j) ==
    ~ /\ worker[w].current \notin {NoJob, j}
      /\ worker[w].status \in Owned

Busy(w) == \E r \in inflight : r.worker = w

UsedToken(t) ==
    \/ lease[t].status # "ABSENT"
    \/ \E r \in inflight : r.token = t
    \/ \E j \in Jobs : job[j].token = t

\* A registered worker that may send a request now.
MayCall(w) ==
    /\ worker[w].status # "ABSENT"
    /\ Busy(w) => "overlap" \in Faults

MoveWorker(row, from, to) ==
    IF row.status = from /\ <<from, to>> \in AllowedWorkerTransitions
    THEN [row EXCEPT !.status = to] ELSE row

-----------------------------------------------------------------------------
(* Registration and heartbeats                                              *)

\* register_worker: STARTING and IDLE in one transaction; the key is a hash of
\* the identity, so registering again finds the row.
RegisterWorker(w) ==
    /\ worker[w].status = "ABSENT"
    /\ worker' = [worker EXCEPT ![w].status = "IDLE"]
    /\ UNCHANGED <<jobVars, lease, exec, beaten, inflight>>

\* record_worker_heartbeat: the HEARTBEAT_RECORDED history row is unique per
\* (worker, checksum of status and count), so a beat that repeats an earlier
\* payload rolls back, last_heartbeat_at included.
Heartbeat(w, b) ==
    /\ MayCall(w)
    /\ <<w, b>> \notin beaten
    /\ beaten' = beaten \cup {<<w, b>>}
    /\ worker' = [worker EXCEPT ![w].beat = "fresh"]
    /\ UNCHANGED <<jobVars, lease, exec, inflight>>

\* 120 seconds pass without a heartbeat.
HeartbeatAges(w) ==
    /\ worker[w].beat = "fresh"
    /\ worker' = [worker EXCEPT ![w].beat = "stale"]
    /\ UNCHANGED <<jobVars, lease, exec, beaten, inflight>>

-----------------------------------------------------------------------------
(* Leases                                                                   *)

\* acquire_job_lease up to the commit inside reserve_automation_job: the first
\* queue of the scope with a candidate is reserved from; a queue before it that
\* does not accept work refuses the whole request, and so does one that does
\* not exist, unless the worker has no scope and only existing queues are asked.
AcquireReserve(w, t, j) ==
    /\ MayCall(w)
    /\ UsedToken(t) => "token_reuse" \in Faults
    /\ worker[w].current # NoJob => "busy_acquire" \in Faults
    /\ Cardinality(inflight) < MaxInFlight
    /\ Cardinality(LiveLeases(w))
          + Cardinality({e \in Execs : Running(e) /\ exec[e].worker = w}) < MaxConcurrency[w]
    /\ \E i \in DOMAIN Scope[w] :
          /\ \A h \in 1 .. i - 1 :
                \/ Accepting(Scope[w][h]) /\ Candidates(Scope[w][h]) = {}
                \/ w \in Unscoped /\ queue[Scope[w][h]] = "ABSENT"
          /\ ReserveJob(Scope[w][i], t, j)
    /\ inflight' = inflight \cup {[op |-> "acquire", worker |-> w, token |-> t, job |-> j]}
    /\ UNCHANGED <<worker, lease, exec, beaten>>

\* The rest of acquire_job_lease, with the worker read again after the commit.
AcquireLease(r) ==
    /\ r.op = "acquire"
    /\ MayTake(r.worker, r.job)
    /\ lease[r.token].status = "ABSENT"
    /\ worker' = [worker EXCEPT ![r.worker] =
                     [MoveWorker(@, "IDLE", "RESERVED") EXCEPT !.current = r.job]]
    /\ \E n \in 1 .. LeaseTtl :
          lease' = [lease EXCEPT ![r.token] =
                       [status |-> "ACTIVE", worker |-> r.worker, job |-> r.job, ttl |-> n,
                        id |-> Cardinality({t \in Tokens : lease[t].status # "ABSENT"}) + 1]]
    /\ inflight' = inflight \ {r}
    /\ UNCHANGED <<jobVars, exec, beaten>>

\* The request is refused after its reservation committed: the worker owns
\* another job, or a lease row with this token exists already.
AcquireRefused(r) ==
    /\ r.op = "acquire"
    /\ ~MayTake(r.worker, r.job) \/ lease[r.token].status # "ABSENT"
    /\ inflight' = inflight \ {r}
    /\ UNCHANGED <<jobVars, worker, lease, exec, beaten>>

\* renew_worker_lease
RenewLease(w, t) ==
    /\ MayCall(w)
    /\ HoldsLease(w, t)
    /\ lease[t].ttl > 0
    /\ \E n \in 1 .. LeaseTtl : lease' = [lease EXCEPT ![t].ttl = n]
    /\ UNCHANGED <<jobVars, worker, exec, beaten, inflight>>

\* Time passes for one lease.
LeaseAges(t) ==
    /\ lease[t].status = "ACTIVE"
    /\ lease[t].ttl > 0
    /\ lease' = [lease EXCEPT ![t].ttl = @ - 1]
    /\ UNCHANGED <<jobVars, worker, exec, beaten, inflight>>

\* SLIP: leases are swept from under their runs.
LapsedInUse == {t \in Tokens : lease[t].status = "ACTIVE" /\ lease[t].ttl = 0}

\* The leases release_expired_leases selects: expired, and no run of that
\* worker on that job.
Lapsed ==
    {t \in Tokens : /\ lease[t].status = "ACTIVE"
                    /\ lease[t].ttl = 0
                    /\ RunsOf(lease[t].worker, lease[t].job) = {}}

\* What the sweep leaves of a lease, a job and a worker.  The job goes back to
\* AVAILABLE without a history row.
SweptLease(t) == IF t \in Lapsed THEN [lease[t] EXCEPT !.status = "EXPIRED"] ELSE lease[t]

SweptJob(j) ==
    IF job[j].status = "RESERVED" /\ \E t \in Lapsed : lease[t].job = j /\ job[j].token = t
    THEN [job[j] EXCEPT !.status = "AVAILABLE", !.token = NoToken]
    ELSE job[j]

SweptWorker(w) ==
    IF \E t \in Lapsed : lease[t].worker = w /\ worker[w].current = lease[t].job
    THEN [worker[w] EXCEPT !.current = NoJob,
                           !.status = IF @ = "RESERVED" THEN "IDLE" ELSE @]
    ELSE worker[w]

\* SLIP: the job stays reserved under the lease that expired.
ReleaseLeasesOnly ==
    /\ Lapsed # {}
    /\ lease' = [t \in Tokens |-> SweptLease(t)]
    /\ worker' = [w \in Workers |-> SweptWorker(w)]
    /\ UNCHANGED <<jobVars, exec, beaten, inflight>>

\* SLIP: the job keeps the token of the lease that expired.
ReleaseKeepingToken ==
    /\ Lapsed # {}
    /\ lease' = [t \in Tokens |-> SweptLease(t)]
    /\ job' = [j \in Jobs |-> [SweptJob(j) EXCEPT !.token = job[j].token]]
    /\ worker' = [w \in Workers |-> SweptWorker(w)]
    /\ UNCHANGED <<queue, issue, exec, beaten, inflight>>

\* release_expired_leases, one transaction for all the leases it selects.
ReleaseExpired ==
    /\ Lapsed # {}
    /\ lease' = [t \in Tokens |-> SweptLease(t)]
    /\ job' = [j \in Jobs |-> SweptJob(j)]
    /\ worker' = [w \in Workers |-> SweptWorker(w)]
    /\ UNCHANGED <<queue, issue, exec, beaten, inflight>>

-----------------------------------------------------------------------------
(* Executions                                                               *)

\* The checks of start_job_execution: those of the lease, not of the job's own
\* token.
MayStart(w, t) ==
    /\ MayCall(w)
    /\ HoldsLease(w, t)
    /\ lease[t].ttl > 0
    /\ ~HasRun(lease[t].job)

\* The id of the next execution row.
NextRow(e) == exec[e].status = "ABSENT" /\ \A d \in 1 .. e - 1 : exec[d].status # "ABSENT"

\* start_job_execution
StartExecution(w, t, e) ==
    LET j == lease[t].job IN
    /\ MayStart(w, t)
    /\ NextRow(e)
    /\ worker' = [worker EXCEPT ![w] = MoveWorker(@, "RESERVED", "RUNNING")]
    /\ job' = [job EXCEPT ![j] = Started(@)]
    /\ exec' = [exec EXCEPT ![e] = [status |-> "STARTED", worker |-> w, job |-> j]]
    /\ UNCHANGED <<queue, issue, lease, beaten, inflight>>

\* The worker's newest run of the leased job.
NewestRun(w, t, e) ==
    /\ MayCall(w)
    /\ HoldsLease(w, t)
    /\ e \in RunsOf(w, lease[t].job)
    /\ \A d \in RunsOf(w, lease[t].job) : d <= e

\* The request goes on after its first commit.
SettlesRun(w, t, e) ==
    /\ NewestRun(w, t, e)
    /\ Cardinality(inflight) < MaxInFlight
    /\ inflight' = inflight \cup {[op |-> "finish", worker |-> w, token |-> t,
                                   job |-> lease[t].job]}

\* SLIP: the execution's outcome commits before the job's token is compared.
CompleteBeforeCheck(w, t, e) ==
    /\ SettlesRun(w, t, e)
    /\ \/ MarkCompleted(lease[t].job, t)
       \/ job[lease[t].job].token # t /\ UNCHANGED jobVars
    /\ exec' = [exec EXCEPT ![e].status = "COMPLETED"]
    /\ UNCHANGED <<worker, lease, beaten>>

\* complete_job_execution up to the commit inside mark_automation_job_completed,
\* which commits the execution's outcome with the job's.
CompleteExecution(w, t, e) ==
    /\ SettlesRun(w, t, e)
    /\ MarkCompleted(lease[t].job, t)
    /\ exec' = [exec EXCEPT ![e].status = "COMPLETED"]
    /\ UNCHANGED <<worker, lease, beaten>>

\* fail_job_execution up to the commit inside mark_automation_job_failed.
FailExecution(w, t, e, reason) ==
    /\ SettlesRun(w, t, e)
    /\ MarkFailed(lease[t].job, t, <<w, reason>>)
    /\ exec' = [exec EXCEPT ![e].status = "FAILED"]
    /\ UNCHANGED <<worker, lease, beaten>>

\* SLIP: the worker goes to ERROR, which only OFFLINE follows.
FinishInError(r) ==
    /\ r.op = "finish"
    /\ lease' = [lease EXCEPT ![r.token].status = "RELEASED"]
    /\ worker' = [worker EXCEPT ![r.worker] =
                     [MoveWorker(@, "RUNNING", "ERROR") EXCEPT !.current = NoJob]]
    /\ inflight' = inflight \ {r}
    /\ UNCHANGED <<jobVars, exec, beaten>>

\* SLIP: the worker's record keeps the job.
FinishKeepingJob(r) ==
    /\ r.op = "finish"
    /\ lease' = [lease EXCEPT ![r.token].status = "RELEASED"]
    /\ worker' = [worker EXCEPT ![r.worker] = MoveWorker(@, "RUNNING", "IDLE")]
    /\ inflight' = inflight \ {r}
    /\ UNCHANGED <<jobVars, exec, beaten>>

\* The rest of complete_job_execution and of fail_job_execution: the lease is
\* released and the worker freed without looking at either again.
FinishExecution(r) ==
    /\ r.op = "finish"
    /\ lease' = [lease EXCEPT ![r.token].status = "RELEASED"]
    /\ worker' = [worker EXCEPT ![r.worker] =
                     [MoveWorker(@, "RUNNING", "IDLE") EXCEPT !.current = NoJob]]
    /\ inflight' = inflight \ {r}
    /\ UNCHANGED <<jobVars, exec, beaten>>

\* The request dies between its commits; the session's rest is rolled back.
RequestDies(r) ==
    /\ "crash" \in Faults
    /\ inflight' = inflight \ {r}
    /\ UNCHANGED <<jobVars, worker, lease, exec, beaten>>

-----------------------------------------------------------------------------
RuntimeInit ==
    /\ worker = [w \in Workers |-> [status |-> "ABSENT", current |-> NoJob, beat |-> "never"]]
    /\ lease = [t \in Tokens |-> AbsentLease]
    /\ exec = [e \in Execs |-> AbsentExec]
    /\ beaten = {}
    /\ inflight = {}

WorkersInit == JobsInit /\ RuntimeInit

\* What a worker's client asks for.
WorkerRequest(w) ==
    \/ RegisterWorker(w)
    \/ \E b \in Beats : Heartbeat(w, b)
    \/ \E t \in Tokens :
          \/ \E j \in Jobs : AcquireReserve(w, t, j)
          \/ RenewLease(w, t)
          \/ \E e \in Execs :
                \/ StartExecution(w, t, e)
                \/ CompleteExecution(w, t, e)
                \/ \E reason \in Reasons : FailExecution(w, t, e, reason)

\* What follows the first commit of a request.
Continue(r) == AcquireLease(r) \/ AcquireRefused(r) \/ FinishExecution(r)

Clock ==
    \/ \E w \in Workers : HeartbeatAges(w)
    \/ \E t \in Tokens : LeaseAges(t)

WorkersNext ==
    \/ Intake /\ UNCHANGED runtimeVars
    \/ \E w \in Workers : WorkerRequest(w)
    \/ \E r \in inflight : Continue(r) \/ RequestDies(r)
    \/ Clock
    \/ ReleaseExpired

WorkersSpec == WorkersInit /\ [][WorkersNext]_workerVars

-----------------------------------------------------------------------------
(* Properties                                                               *)

WorkersTypeOK ==
    /\ JobsTypeOK
    /\ worker \in [Workers -> WorkerRow]
    /\ lease \in [Tokens -> LeaseRow \cup {AbsentLease}]
    /\ exec \in [Execs -> ExecRow \cup {AbsentExec}]
    /\ beaten \subseteq Workers \X Beats
    /\ inflight \subseteq Request

\* No job is executed twice at a time, as long as no start commits between
\* the check and the insert of another (AutomationRaces opens that window).
\* Part of the invariant the proofs use, not a property of the code.
OneRunPerJob ==
    \A d, e \in Execs : Running(d) /\ Running(e) /\ exec[d].job = exec[e].job => d = e

\* A job in RUNNING has a run: recover_expired_execution is addressed by
\* execution, so a RUNNING job without one could never be recovered.
RunningHasRun ==
    \A j \in Jobs : job[j].status = "RUNNING" => HasRun(j)

\* A job's success is recorded once and in both tables or in neither: the
\* execution's outcome commits with the job's, whatever the request, its
\* retries and a recovery do around it.
CompletedOnce ==
    \A j \in Jobs :
        LET wins == {e \in Execs : exec[e].status = "COMPLETED" /\ exec[e].job = j} IN
        /\ job[j].status = "COMPLETED" <=> wins # {}
        /\ \A d, e \in wins : d = e

\* An idle worker record names no job.
IdleWorkerFree ==
    \A w \in Workers : worker[w].status = "IDLE" => worker[w].current = NoJob

\* Every reservation is tied to a worker: unless its acquire is still in
\* flight, a reserved job has an active lease under its token, so the sweep
\* or the worker can end the reservation.
ReservationHasLease ==
    \A j \in Jobs :
        /\ job[j].status = "RESERVED"
        /\ ~\E r \in inflight : r.op = "acquire" /\ r.job = j
        => \E t \in Tokens : /\ t = job[j].token
                              /\ lease[t].status = "ACTIVE"
                              /\ lease[t].job = j

\* Every active lease is good for its job: unless its request is finishing,
\* the job carries the lease's token.
LeaseHoldsJob ==
    \A t \in Tokens :
        /\ lease[t].status = "ACTIVE"
        /\ ~\E r \in inflight : r.op = "finish" /\ r.token = t
        => job[lease[t].job].token = t

\* Every run belongs to a running job that its worker holds and names.
RunHasOwner ==
    \A e \in Execs : Running(e) =>
        LET j == exec[e].job
            w == exec[e].worker
        IN
        /\ job[j].status = "RUNNING"
        /\ worker[w].status = "RUNNING" /\ worker[w].current = j
        /\ job[j].token \in {t \in Tokens : HoldsLease(w, t) /\ lease[t].job = j}
=============================================================================
