--------------------------- MODULE AutomationJobs ---------------------------
(***************************************************************************)
(* The automation job ledger of automation_jobs.py and its state machine,  *)
(* automation_queue_state.py.  A step is one database transaction: what    *)
(* the code does between two commits is one action.  The worker runtime    *)
(* and the recovery engine extend this module and call its operations the  *)
(* way automation_workers.py and automation_recovery.py call the service.  *)
(*                                                                         *)
(* A definition marked SLIP is not the code's: it is a plausible mistake   *)
(* in the definition after it, and a run shows that a property catches it. *)
(***************************************************************************)
EXTENDS Naturals, FiniteSets

CONSTANTS
    Jobs,           \* the rows automation_jobs may ever hold
    Submitted,      \* those an owner or a rule creates; a replay creates the others
    Queues,         \* queue keys
    Tokens,         \* reservation tokens callers supply
    NoToken,        \* reservation_token IS NULL
    FailureKeys,    \* (failure_reason, metadata) pairs, as hashed by the issue
    QueueOf,        \* [Jobs -> Queues]: queue_key of the creation payload
    Priority,       \* [Jobs -> Nat]: weight of the job's priority
    MaxAttempts     \* [Jobs -> Nat]: max_attempts, at least 1 (schema: ge=1)

ASSUME JobsAssumption ==
    /\ IsFiniteSet(Jobs)
    /\ Submitted \subseteq Jobs
    /\ NoToken \notin Tokens
    /\ QueueOf \in [Jobs -> Queues]
    /\ Priority \in [Jobs -> Nat]
    /\ MaxAttempts \in [Jobs -> Nat \ {0}]

VARIABLES
    job,     \* [Jobs -> row]: the automation_jobs table
    queue,   \* [Queues -> QueueStatus]: the automation_queues table
    issue    \* the (job, failure key) pairs in automation_job_issues

jobVars == <<job, queue, issue>>

-----------------------------------------------------------------------------
(* Rows                                                                     *)

\* ABSENT stands for "no such row"; the others are job_status values.  QUEUED
\* is written only by the rules engine.
JobStatus == {"ABSENT", "PENDING", "AVAILABLE", "RESERVED", "RUNNING",
              "COMPLETED", "FAILED", "RETRY_PENDING", "DEAD_LETTER",
              "CANCELLED", "QUEUED"}

QueueStatus == {"ABSENT", "ACTIVE", "DRAINING", "PAUSED"}

\* ready is available_at <= now.
JobRow == [status   : JobStatus,
           token    : Tokens \cup {NoToken},
           attempts : Nat,
           ready    : BOOLEAN,
           rank     : Nat]

AbsentJob == [status |-> "ABSENT", token |-> NoToken, attempts |-> 0,
              ready |-> FALSE, rank |-> 0]

Owned == {"RESERVED", "RUNNING"}

-----------------------------------------------------------------------------
(* The job state machine                                                    *)

AllowedJobTransitions ==
    {<<"PENDING", "AVAILABLE">>,
     <<"AVAILABLE", "RESERVED">>,   <<"AVAILABLE", "CANCELLED">>,
     <<"RESERVED", "RUNNING">>,     <<"RESERVED", "AVAILABLE">>,
     <<"RUNNING", "COMPLETED">>,    <<"RUNNING", "FAILED">>,
     <<"FAILED", "RETRY_PENDING">>, <<"FAILED", "DEAD_LETTER">>,
     <<"RETRY_PENDING", "AVAILABLE">>}

\* validate_job_transition raises ValueError when this is false, which rolls
\* the caller's transaction back.
CanMove(from, to) == <<from, to>> \in AllowedJobTransitions

\* transition_automation_job_status.  Its history row is not kept.
Moved(row, to) == [row EXCEPT !.status = to]

\* The implicit start that completion and failure make first.
Started(row) == IF row.status = "RESERVED" THEN Moved(row, "RUNNING") ELSE row

\* What completion and failure leave of a job: moved, and owned by nobody.
Settled(row, to) == [Moved(row, to) EXCEPT !.token = NoToken]

Accepting(q) == queue[q] \in {"ACTIVE", "DRAINING"}

-----------------------------------------------------------------------------
(* Ordering                                                                 *)

Candidates(q) ==
    {j \in Jobs : QueueOf[j] = q /\ job[j].status = "AVAILABLE" /\ job[j].ready}

\* Priority descending, then deterministic_rank.  Ranks may tie; then
\* available_at, created_at and id decide, instants and numbers that are not
\* kept here, so of tied jobs either may go first.
Before(j, k) ==
    \/ Priority[j] > Priority[k]
    \/ Priority[j] = Priority[k] /\ job[j].rank < job[k].rank

\* deterministic_rank is one more than the rows of the queue when the request
\* counted them, which may be well before it commits: rows are never deleted,
\* so it is any number up to one more than there are now.
RanksFor(q) ==
    1 .. Cardinality({j \in Jobs : QueueOf[j] = q /\ job[j].status # "ABSENT"}) + 1

-----------------------------------------------------------------------------
(* Operations                                                               *)

\* create_automation_job: the queue is created on first use; PENDING and
\* AVAILABLE are reached in one transaction.  A repeated creation finds the
\* existing row and changes nothing.
CreateJob(j, due) ==
    LET q == QueueOf[j] IN
    /\ job[j].status = "ABSENT"
    /\ queue[q] = "ABSENT" \/ Accepting(q)
    /\ CanMove("PENDING", "AVAILABLE")
    /\ queue' = [queue EXCEPT ![q] = IF @ = "ABSENT" THEN "ACTIVE" ELSE @]
    /\ \E n \in RanksFor(q) :
          job' = [job EXCEPT ![j] = [Moved(AbsentJob, "AVAILABLE") EXCEPT
                                        !.ready = due, !.rank = n]]
    /\ UNCHANGED issue

\* The rules engine's job_create side effect inserts a row of its own, with
\* job_status QUEUED, no history row and the planned action's rank.
CreateRuleJob(j) ==
    /\ job[j].status = "ABSENT"
    /\ queue[QueueOf[j]] # "ABSENT"
    /\ job' = [job EXCEPT ![j] = [AbsentJob EXCEPT !.status = "QUEUED",
                                                   !.ready = TRUE, !.rank = 1]]
    /\ UNCHANGED <<queue, issue>>

\* reserve_automation_job up to its last check: no candidate goes before j.  A
\* token already on the head stops the reservation.
Reservable(q, j) ==
    /\ Accepting(q)
    /\ j \in Candidates(q)
    /\ \A k \in Candidates(q) : ~Before(k, j)
    /\ job[j].token = NoToken
    /\ CanMove(job[j].status, "RESERVED")

\* What its commit writes.
WriteReservation(j, t) ==
    /\ job' = [job EXCEPT ![j] = [Moved(@, "RESERVED") EXCEPT !.token = t]]
    /\ UNCHANGED <<queue, issue>>

\* reserve_automation_job: the head of the queue takes the caller's token.
ReserveJob(q, t, j) == Reservable(q, j) /\ WriteReservation(j, t)

\* release_automation_job_reservation
ReleaseReservation(j, t) ==
    /\ job[j].status = "RESERVED"
    /\ job[j].token = t
    /\ job' = [job EXCEPT ![j] = Settled(@, "AVAILABLE")]
    /\ UNCHANGED <<queue, issue>>

\* mark_automation_job_completed
MarkCompleted(j, t) ==
    /\ job[j].token = t
    /\ CanMove(Started(job[j]).status, "COMPLETED")
    /\ job' = [job EXCEPT ![j] = Settled(Started(@), "COMPLETED")]
    /\ UNCHANGED <<queue, issue>>

\* SLIP: the attempt is not counted.
MarkFailedUncharged(j, t, k) ==
    /\ job[j].token = t
    /\ CanMove(Started(job[j]).status, "FAILED")
    /\ <<j, k>> \notin issue
    /\ job' = [job EXCEPT ![j] = Settled(Started(@), "FAILED")]
    /\ issue' = issue \cup {<<j, k>>}
    /\ UNCHANGED queue

\* mark_automation_job_failed: one more attempt is used up.  The issue row is
\* unique per (job, checksum), so a failure that repeats the reason and the
\* metadata of an earlier one cannot commit.
MarkFailed(j, t, k) ==
    /\ job[j].token = t
    /\ CanMove(Started(job[j]).status, "FAILED")
    /\ <<j, k>> \notin issue
    /\ job' = [job EXCEPT ![j] = [Settled(Started(@), "FAILED") EXCEPT
                                     !.attempts = job[j].attempts + 1]]
    /\ issue' = issue \cup {<<j, k>>}
    /\ UNCHANGED queue

\* PAUSE_QUEUE and RESUME_QUEUE, from the ops dashboard or a rule.
SetQueueStatus(q, s) ==
    /\ queue[q] # "ABSENT"
    /\ queue' = [queue EXCEPT ![q] = s]
    /\ UNCHANGED <<job, issue>>

\* Time passes available_at.
BecomeReady(j) ==
    /\ job[j].status = "AVAILABLE"
    /\ ~job[j].ready
    /\ job' = [job EXCEPT ![j].ready = TRUE]
    /\ UNCHANGED <<queue, issue>>

-----------------------------------------------------------------------------
JobsInit ==
    /\ job = [j \in Jobs |-> AbsentJob]
    /\ queue = [q \in Queues |-> "ABSENT"]
    /\ issue = {}

Intake ==
    \/ \E j \in Submitted : CreateRuleJob(j) \/ \E due \in BOOLEAN : CreateJob(j, due)
    \/ \E j \in Jobs : BecomeReady(j)
    \/ \E q \in Queues, s \in {"ACTIVE", "PAUSED"} : SetQueueStatus(q, s)

\* How an owner ends its ownership.
Settle(j, t) ==
    \/ ReleaseReservation(j, t)
    \/ MarkCompleted(j, t)
    \/ \E k \in FailureKeys : MarkFailed(j, t, k)

-----------------------------------------------------------------------------
(* Properties                                                               *)

JobsTypeOK ==
    /\ job \in [Jobs -> JobRow]
    /\ queue \in [Queues -> QueueStatus]
    /\ issue \subseteq Jobs \X FailureKeys

\* A reservation token is on a job exactly while somebody owns it: nothing
\* that ends an ownership may leave its token behind, or the job could never
\* be reserved again, and nothing may drop it early, or its owner could never
\* settle the job.
TokenWhileOwned ==
    \A j \in Jobs : job[j].token # NoToken <=> job[j].status \in Owned

\* The attempt budget: a job that may still run has an attempt left, so the
\* count cannot pass max_attempts whatever sequence of failures, retries and
\* recoveries the job goes through.
AttemptBudget ==
    \A j \in Jobs :
        /\ job[j].attempts <= MaxAttempts[j]
        /\ job[j].status \in {"AVAILABLE"} \cup Owned => job[j].attempts < MaxAttempts[j]
=============================================================================
