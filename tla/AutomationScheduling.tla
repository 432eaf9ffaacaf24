------------------------ MODULE AutomationScheduling ------------------------
(***************************************************************************)
(* Schedules and triggers that become workflow executions, and executions  *)
(* that queue jobs (automation_scheduling.py).  Nothing runs by itself: an *)
(* ops request is a pass over the pending triggers or the due schedules,   *)
(* in one database session.  What the pass has written and not committed   *)
(* is a field of its record, and a commit anywhere in it, that of          *)
(* create_automation_job included, commits all of that.                    *)
(*                                                                         *)
(* Every workflow of the code has one step (_WORKFLOW_BLUEPRINTS is the    *)
(* only source of steps), so an execution queues one job or is blocked.    *)
(*                                                                         *)
(* A definition marked SLIP is not the code's: it is a plausible mistake   *)
(* in the definition after it, and a run shows that a property catches it. *)
(***************************************************************************)
EXTENDS Naturals, FiniteSets

CONSTANTS
    Triggers,       \* automation_trigger ids, in the order of triggered_at
    Schedules,      \* automation_schedule ids
    Workflows,
    Queues,
    WorkflowOf,     \* [Triggers \cup Schedules -> Workflows]
    QueueOf,        \* [Workflows -> Queues]
    Conditional,    \* workflows whose step has an unmet condition
    OneTime,        \* schedules of type ONE_TIME
    EventDriven,    \* schedules of type EVENT_DRIVEN
    Interval,       \* [Schedules -> Nat]: seconds, a day for cron, or 0
    FirstRun,       \* [Schedules -> Times \cup {Never}]: next_run_at
    MaxTime,        \* bound on the clock
    MaxExecutions,  \* bound on execution rows
    Passes,         \* ops request threads
    Never,          \* next_run_at IS NULL
    NoSource,
    Faults          \* what may happen, a subset of Disturbances

\* "crash": a pass dies between two commits.  "overlap": a pass starts while
\* another runs.  "pause": the ops dashboard or a rule pauses a queue.
Disturbances == {"crash", "overlap", "pause"}

Rows == Triggers \cup Schedules

Sources == Rows \cup Workflows

Times == 0..MaxTime

Ids == 1..MaxExecutions

ASSUME SchedulingAssumption ==
    /\ Rows \subseteq Nat /\ Triggers \cap Schedules = {}
    /\ Workflows \cap Rows = {} /\ NoSource \notin Sources
    /\ WorkflowOf \in [Rows -> Workflows]
    /\ QueueOf \in [Workflows -> Queues]
    /\ Conditional \subseteq Workflows
    /\ OneTime \subseteq Schedules
    /\ EventDriven \subseteq Schedules \ OneTime
    /\ Interval \in [Schedules -> Nat]
    /\ \A s \in Schedules \ (OneTime \cup EventDriven) : Interval[s] > 0
    /\ FirstRun \in [Schedules -> Times \cup {Never}]
    /\ Never \notin Nat
    /\ MaxTime \in Nat /\ MaxExecutions \in Nat
    /\ Faults \subseteq Disturbances

VARIABLES
    now,
    paused,     \* the queues that accept no jobs
    trigger,    \* [Triggers -> TriggerStatus]
    next,       \* [Schedules -> Nat \cup {Never}]: next_run_at
    execution,  \* set of workflow execution rows
    processed,  \* the <<source, execution id>> of the TRIGGER_PROCESSED and
                \* SCHEDULE_PROCESSED history rows, which a checksum makes unique
    pass        \* [Passes -> Pass]

vars == <<now, paused, trigger, next, execution, processed, pass>>

-----------------------------------------------------------------------------
(* Rows                                                                     *)

TriggerStatus == {"ABSENT", "PENDING", "PROCESSED", "FAILED"}

\* The activation key: the workflow, and the trigger's checksum or the
\* schedule's with its next_run_at.
Activation == [source : Sources, at : Nat \cup {Never}]

Key(x, at) == [source |-> x, at |-> at]

\* A RUNNING row has execution_checksum "pending", and the column is unique.
Execution == [id     : Ids,
              key    : Activation,
              status : {"RUNNING", "COMPLETED", "BLOCKED"},
              queued : BOOLEAN]

Workflow(x) == IF x \in Rows THEN WorkflowOf[x] ELSE x

\* next_run_at after an occurrence at the given time.
Following(s, at) ==
    IF s \in OneTime THEN Never
    ELSE IF Interval[s] > 0 THEN at + Interval[s] ELSE at

-----------------------------------------------------------------------------
(* Passes                                                                   *)

Steps == {"idle", "look", "insert", "steps", "finish"}

\* todo: the rows still to do, each with the time it was listed with.  expired:
\* a commit made the session forget what it had loaded.  current: the execution
\* at hand.  fresh: executions flushed and not committed.  done, failed and
\* moved: history rows, failed triggers and new next_run_at values, likewise.
Pass == [kind    : {"none", "triggers", "schedules", "direct"},
         step    : Steps,
         todo    : SUBSET (Sources \X Nat),
         expired : BOOLEAN,
         current : Activation \cup {NoSource},
         fresh   : SUBSET Execution,
         done    : SUBSET (Rows \X Ids),
         failed  : SUBSET Triggers,
         moved   : SUBSET (Schedules \X (Nat \cup {Never}))]

Idle == [kind |-> "none", step |-> "idle", todo |-> {}, expired |-> FALSE,
         current |-> NoSource, fresh |-> {}, done |-> {}, failed |-> {}, moved |-> {}]

CanBegin(p) ==
    /\ pass[p] = Idle
    /\ "overlap" \in Faults \/ \A q \in Passes : pass[q] = Idle

Begin(p, kind, todo) ==
    /\ CanBegin(p)
    /\ pass' = [pass EXCEPT ![p] = [Idle EXCEPT !.kind = kind, !.step = "look", !.todo = todo]]
    /\ UNCHANGED <<now, paused, trigger, next, execution, processed>>

\* An exception nobody handles, or a dead thread: the session rolls back.
Abort(p) ==
    /\ pass' = [pass EXCEPT ![p] = Idle]
    /\ UNCHANGED <<now, paused, trigger, next, execution, processed>>

\* SLIP: rows are taken as the database returns them.
SlipAnyFirst(e, todo) == e \in todo

\* The order of a list: by time, then by id.
First(e, todo) ==
    e \in todo /\ \A f \in todo \ {e} : e[2] < f[2] \/ (e[2] = f[2] /\ e[1] < f[1])

\* The history rows of p are new to the table.
Unrepeated(p) == pass[p].done \cap processed = {}

\* A commit of the session of p, which flushes the execution rows given too.
Committed(p, rows) ==
    /\ Unrepeated(p)
    /\ execution' = {e \in execution : \A f \in rows : f.id # e.id} \cup rows
    /\ processed' = processed \cup pass[p].done
    /\ trigger' = [t \in Triggers |->
           IF t \in pass[p].failed THEN "FAILED"
           ELSE IF \E d \in pass[p].done : d[1] = t THEN "PROCESSED" ELSE trigger[t]]
    /\ next' = [s \in Schedules |->
           IF \E m \in pass[p].moved : m[1] = s
           THEN (CHOOSE m \in pass[p].moved : m[1] = s)[2] ELSE next[s]]
    /\ UNCHANGED <<now, paused>>

\* The session after a commit.
Renewed(q) ==
    [q EXCEPT !.expired = TRUE, !.fresh = {}, !.done = {}, !.failed = {}, !.moved = {}]

\* What the loop writes for source x once execution id stands for it: the
\* history row, the trigger's PROCESSED, and next_run_at counted from "at".
Marked(q, x, id, at) ==
    [q EXCEPT !.step = "look",
              !.current = NoSource,
              !.todo = {e \in @ : e[1] # x},
              !.done = IF x \in Rows THEN @ \cup {<<x, id>>} ELSE @,
              !.moved = IF x \in Schedules THEN @ \cup {<<x, Following(x, at)>>} ELSE @]

-----------------------------------------------------------------------------
(* Intake                                                                   *)

\* create_trigger.  A trigger with the checksum of an earlier one is that one.
CreateTrigger(t) ==
    /\ trigger[t] = "ABSENT"
    /\ \A u \in Triggers : u < t => trigger[u] # "ABSENT"
    /\ trigger' = [trigger EXCEPT ![t] = "PENDING"]
    /\ UNCHANGED <<now, paused, next, execution, processed, pass>>

SetQueueStatus(q) ==
    /\ "pause" \in Faults
    /\ paused' = IF q \in paused THEN paused \ {q} ELSE paused \cup {q}
    /\ UNCHANGED <<now, trigger, next, execution, processed, pass>>

Tick ==
    /\ now < MaxTime
    /\ now' = now + 1
    /\ UNCHANGED <<paused, trigger, next, execution, processed, pass>>

\* process_triggers lists the pending triggers.
StartTriggers(p) ==
    LET pending == {t \in Triggers : trigger[t] = "PENDING"} IN
    /\ pending # {}
    /\ Begin(p, "triggers", pending \X {0})

\* SLIP: a schedule without next_run_at is due.
SlipNullIsDue(p) ==
    LET due == {s \in Schedules : next[s] = Never \/ next[s] <= now} IN
    /\ due # {}
    /\ Begin(p, "schedules", {<<s, next[s]>> : s \in due})

\* SLIP: what is due before the next tick is taken now.
SlipDueSoon(p) ==
    LET due == {s \in Schedules : next[s] # Never /\ next[s] <= now + 1} IN
    /\ due # {}
    /\ Begin(p, "schedules", {<<s, next[s]>> : s \in due})

\* process_due_schedules lists the due schedules; a NULL is never due.
StartSchedules(p) ==
    LET due == {s \in Schedules : next[s] # Never /\ next[s] <= now} IN
    /\ due # {}
    /\ Begin(p, "schedules", {<<s, next[s]>> : s \in due})

\* The ops route that executes a workflow by hand.
StartDirect(p, w) ==
    /\ w \in {WorkflowOf[x] : x \in Schedules \cup {t \in Triggers : trigger[t] # "ABSENT"}}
    /\ Begin(p, "direct", {<<w, 0>>})

-----------------------------------------------------------------------------
(* execute_workflow                                                         *)

\* The time of source x as the session sees it.
Seen(p, e) ==
    IF e[1] \in Schedules /\ pass[p].expired THEN next[e[1]] ELSE e[2]

KeyOf(p, e) ==
    Key(e[1], IF e[1] \in Schedules THEN Seen(p, e) ELSE Never)

\* SLIP: an execution that did not complete is not found.
SlipKnownCompleted(p, k) ==
    {e \in execution \cup pass[p].fresh : e.key = k /\ e.status = "COMPLETED"}

\* The execution of an activation, as the session of p finds it.
Known(p, k) == {e \in execution \cup pass[p].fresh : e.key = k}

\* An activation that has an execution, of whatever status, is done.
FindExecution(p) ==
    /\ pass[p].step = "look"
    /\ \E e \in pass[p].todo : \E x \in Known(p, KeyOf(p, e)) :
          /\ First(e, pass[p].todo)
          /\ pass' = [pass EXCEPT ![p] = Marked(@, e[1], x.id, Seen(p, e))]
    /\ UNCHANGED <<now, paused, trigger, next, execution, processed>>

FindNone(p) ==
    /\ pass[p].step = "look"
    /\ \E e \in pass[p].todo :
          /\ First(e, pass[p].todo)
          /\ Known(p, KeyOf(p, e)) = {}
          /\ pass' = [pass EXCEPT ![p].step = "insert", ![p].current = KeyOf(p, e)]
    /\ UNCHANGED <<now, paused, trigger, next, execution, processed>>

Pending(es) == {e \in es : e.status = "RUNNING"}

\* The flush of the new row.  Another session's uncommitted "pending" makes it
\* wait.
InsertExecution(p) ==
    /\ pass[p].step = "insert"
    /\ Pending(execution \cup pass[p].fresh) = {}
    /\ \A q \in Passes : Pending(pass[q].fresh) = {}
    /\ \E id \in Ids :
          /\ id = Cardinality(execution) + 1
          /\ pass' = [pass EXCEPT
                 ![p].step = "steps",
                 ![p].fresh = @ \cup {[id |-> id, key |-> pass[p].current,
                                       status |-> "RUNNING", queued |-> FALSE]}]
    /\ UNCHANGED <<now, paused, trigger, next, execution, processed>>

\* The IntegrityError is no HTTPException: it ends the pass.
InsertCollides(p) ==
    /\ pass[p].step = "insert"
    /\ Pending(execution \cup pass[p].fresh) # {}
    /\ Abort(p)

At(p) == pass[p].current.source

Fresh(p) == {e \in pass[p].fresh : e.key = pass[p].current}

\* The commit at the end of execute_workflow, and what the loop writes next.
EndExecution(p, e, status) ==
    LET x == At(p) IN
    /\ Committed(p, (pass[p].fresh \ {e}) \cup {[e EXCEPT !.status = status]})
    /\ pass' = [pass EXCEPT ![p] =
           Marked(Renewed(@), x, e.id, IF x \in Schedules THEN next[x] ELSE 0)]

\* A CONDITIONAL step whose condition is not met.
BlockExecution(p) ==
    /\ pass[p].step = "steps"
    /\ Workflow(At(p)) \in Conditional
    /\ \E e \in Fresh(p) : EndExecution(p, e, "BLOCKED")

\* create_automation_job commits the job, and the execution with it.
QueueJob(p) ==
    /\ pass[p].step = "steps"
    /\ Workflow(At(p)) \notin Conditional
    /\ QueueOf[Workflow(At(p))] \notin paused
    /\ \E e \in Fresh(p) :
          Committed(p, (pass[p].fresh \ {e}) \cup {[e EXCEPT !.queued = TRUE]})
    /\ pass' = [pass EXCEPT ![p] = [Renewed(@) EXCEPT !.step = "finish"]]

Refused(p) ==
    /\ pass[p].step = "steps"
    /\ Workflow(At(p)) \notin Conditional
    /\ QueueOf[Workflow(At(p))] \in paused

\* SLIP: the trigger is taken for processed whatever became of its execution.
SlipProcessAnyway(p) ==
    /\ Refused(p) /\ pass[p].kind = "triggers"
    /\ \E e \in Fresh(p) : pass' = [pass EXCEPT ![p] = Marked(@, At(p), e.id, 0)]
    /\ UNCHANGED <<now, paused, trigger, next, execution, processed>>

\* The queue's 409 is caught by process_triggers.  Nothing is rolled back: the
\* execution stays in the session and commits as it is.
FailTrigger(p) ==
    /\ Refused(p) /\ pass[p].kind = "triggers"
    /\ pass' = [pass EXCEPT ![p].step = "look", ![p].current = NoSource,
                            ![p].failed = @ \cup {At(p)},
                            ![p].todo = {e \in @ : e[1] # At(p)}]
    /\ UNCHANGED <<now, paused, trigger, next, execution, processed>>

\* SLIP: a refused schedule is caught as a refused trigger is.
SlipKeepRefused(p) ==
    /\ Refused(p) /\ pass[p].kind # "triggers"
    /\ pass' = [pass EXCEPT ![p].step = "look", ![p].current = NoSource,
                            ![p].todo = {e \in @ : e[1] # At(p)}]
    /\ UNCHANGED <<now, paused, trigger, next, execution, processed>>

\* Nothing else catches it.
RefusePass(p) ==
    /\ Refused(p) /\ pass[p].kind # "triggers"
    /\ Abort(p)

FinishExecution(p) ==
    /\ pass[p].step = "finish"
    /\ \E e \in execution : e.key = pass[p].current /\ e.status = "RUNNING"
                           /\ EndExecution(p, e, "COMPLETED")

-----------------------------------------------------------------------------
(* The end of a pass                                                        *)

EndPass(p) ==
    /\ pass[p].step = "look" /\ pass[p].todo = {}
    /\ Committed(p, pass[p].fresh)
    /\ pass' = [pass EXCEPT ![p] = Idle]

\* A history row that is there already: the flush before a commit fails.
HistoryCollides(p) ==
    /\ pass[p].step \in {"look", "steps", "finish"}
    /\ ~Unrepeated(p)
    /\ Abort(p)

Crash(p) ==
    /\ "crash" \in Faults
    /\ pass[p] # Idle
    /\ Abort(p)

-----------------------------------------------------------------------------
Init ==
    /\ now = 0
    /\ paused = {}
    /\ trigger = [t \in Triggers |-> "ABSENT"]
    /\ next = FirstRun
    /\ execution = {}
    /\ processed = {}
    /\ pass = [p \in Passes |-> Idle]

Advance(p) ==
    \/ FindExecution(p) \/ FindNone(p)
    \/ InsertExecution(p) \/ InsertCollides(p)
    \/ BlockExecution(p) \/ QueueJob(p) \/ FailTrigger(p) \/ RefusePass(p)
    \/ FinishExecution(p) \/ EndPass(p) \/ HistoryCollides(p)

Next ==
    \/ Tick
    \/ \E t \in Triggers : CreateTrigger(t)
    \/ \E q \in Queues : SetQueueStatus(q)
    \/ \E p \in Passes :
          \/ StartTriggers(p) \/ StartSchedules(p)
          \/ \E w \in Workflows : StartDirect(p, w)
          \/ Advance(p) \/ Crash(p)

Spec == Init /\ [][Next]_vars

-----------------------------------------------------------------------------
(* Properties                                                               *)

TypeOK ==
    /\ now \in Times
    /\ paused \subseteq Queues
    /\ trigger \in [Triggers -> TriggerStatus]
    /\ next \in [Schedules -> Nat \cup {Never}]
    /\ execution \subseteq Execution
    /\ processed \subseteq Rows \X Ids
    /\ pass \in [Passes -> Pass]

\* docs/P41_WORKFLOW_SCHEDULING_ARCHITECTURE.md:43, "repeated identical inputs
\* resolve to the same execution record": an activation is executed at most
\* once, whatever dies, fails or is asked for again.
ExecutedOnce ==
    \A e, f \in execution : e.key = f.key => e = f

\* The activation did its work: its job is queued, or its step was blocked.
Done(k) == \E e \in execution : e.key = k /\ (e.queued \/ e.status = "BLOCKED")

\* The occurrences of a schedule before the given time.
Occurrences(s) ==
    IF next[s] = FirstRun[s] THEN {}
    ELSE IF s \in OneTime THEN {FirstRun[s]}
    ELSE {k \in FirstRun[s]..(next[s] - 1) : (k - FirstRun[s]) % Interval[s] = 0}

\* Nothing is skipped: a trigger that counts as processed and every occurrence
\* a schedule has moved past did their work.
NothingSkipped ==
    /\ \A t \in Triggers : trigger[t] = "PROCESSED" => Done(Key(t, Never))
    /\ \A s \in Schedules : \A k \in Occurrences(s) : Done(Key(s, k))

\* Pending triggers are processed in the order in which they were made.
InOrder ==
    \A t, u \in Triggers :
        t < u /\ trigger[u] \in {"PROCESSED", "FAILED"} => trigger[t] # "PENDING"

\* No occurrence is executed before its time, or after its schedule is over.
NotEarly ==
    \A e \in execution : e.key.source \in Schedules => e.key.at # Never /\ e.key.at <= now

\* An execution that nobody runs and that is still RUNNING, and whose checksum
\* therefore refuses every later execution, is one whose pass died after its
\* job was queued, or the execution of a trigger that failed.
LeftRunningIsExplained ==
    (\A p \in Passes : pass[p] = Idle) =>
        \A e \in Pending(execution) :
            e.queued \/ (e.key.source \in Triggers /\ trigger[e.key.source] = "FAILED")
=============================================================================
