--------------------- MODULE AutomationSchedulingProofs ---------------------
(***************************************************************************)
(* Scheduling for every number of triggers, schedules, workflows, queues   *)
(* and passes.  Types are correct whatever happens; as long as no two      *)
(* passes overlap, an activation is executed once, in order, not early and *)
(* without gaps, even if passes die and queues are paused.                 *)
(***************************************************************************)
EXTENDS AutomationScheduling, FiniteSetTheorems, TLAPS

-----------------------------------------------------------------------------
(* Types                                                                    *)

(***************************************************************************)
(* TypeOK is not inductive: what a pass writes for the row at hand depends *)
(* on the kind of the row and on its next_run_at, so it has to be known    *)
(* that a pass works on a row it listed, of its own kind, and that only a  *)
(* ONE_TIME schedule loses its next_run_at once it has one.                *)
(***************************************************************************)
Working == {"insert", "steps", "finish"}

Listed(q) ==
    /\ q.kind = "triggers" => \A e \in q.todo : e[1] \in Triggers
    /\ q.kind = "schedules" => \A e \in q.todo : e[1] \in Schedules
    /\ q.kind = "direct" => \A e \in q.todo : e[1] \in Workflows
    /\ q.kind = "none" => q.step = "idle"
    /\ q.step \in Working =>
        q.current \in Activation /\ \E e \in q.todo : First(e, q.todo) /\ e[1] = q.current.source

Timed(q, times) ==
    /\ \A e \in q.todo : e[1] \in Schedules \ OneTime => times[e[1]] # Never
    /\ \A m \in q.moved : m[1] \notin OneTime => m[2] # Never

TypeInv == TypeOK /\ \A p \in Passes : Listed(pass[p]) /\ Timed(pass[p], next)

\* What a step of one pass has to keep.
LEMMA TypeStep ==
    ASSUME TypeInv, NEW p \in Passes, NEW q \in Pass,
           pass' = [pass EXCEPT ![p] = q], Listed(q), Timed(q, next'),
           now' = now, paused' = paused, trigger' \in [Triggers -> TriggerStatus],
           next' \in [Schedules -> Nat \cup {Never}], execution' \subseteq Execution,
           processed' \subseteq Rows \X Ids,
           \A s \in Schedules \ OneTime : next[s] # Never => next'[s] # Never
    PROVE  TypeInv'
<1>1. \A r \in Passes : pass'[r] = IF r = p THEN q ELSE pass[r]
  BY DEF TypeInv, TypeOK
<1>2. TypeOK'
  BY DEF TypeInv, TypeOK
<1>3. ASSUME NEW r \in Passes, r # p
      PROVE  Listed(pass[r]) /\ Timed(pass[r], next')
  BY <1>3 DEF TypeInv, Timed
<1> QED
  BY <1>1, <1>2, <1>3 DEF TypeInv

\* What a commit writes has the types of the rows.
LEMMA CommitTypes ==
    ASSUME TypeInv, NEW p \in Passes, NEW rows \in SUBSET Execution, Committed(p, rows)
    PROVE  /\ now' = now /\ paused' = paused /\ trigger' \in [Triggers -> TriggerStatus]
           /\ next' \in [Schedules -> Nat \cup {Never}] /\ execution' \subseteq Execution
           /\ processed' \subseteq Rows \X Ids
           /\ \A s \in Schedules \ OneTime : next[s] # Never => next'[s] # Never
<1>1. pass[p] \in Pass /\ Timed(pass[p], next)
  BY DEF TypeInv, TypeOK
<1>2. now' = now /\ paused' = paused /\ execution' \subseteq Execution
  BY DEF Committed, TypeInv, TypeOK
<1>3. trigger' \in [Triggers -> TriggerStatus] /\ processed' \subseteq Rows \X Ids
  BY <1>1 DEF Committed, TypeInv, TypeOK, TriggerStatus, Pass
<1>4. ASSUME NEW s \in Schedules
      PROVE  /\ next'[s] \in Nat \cup {Never}
             /\ s \notin OneTime /\ next[s] # Never => next'[s] # Never
  <2>1. next[s] \in Nat \cup {Never}
    BY DEF TypeInv, TypeOK
  <2>2. CASE \E m \in pass[p].moved : m[1] = s
    <3>1. PICK m \in pass[p].moved :
              m = (CHOOSE k \in pass[p].moved : k[1] = s) /\ m[1] = s
      BY <2>2
    <3>2. next'[s] = m[2]
      BY <2>2, <3>1 DEF Committed
    <3>3. m \in Schedules \X (Nat \cup {Never})
      BY <1>1 DEF Pass
    <3> QED
      BY <1>1, <3>1, <3>2, <3>3 DEF Timed
  <2>3. CASE ~ \E m \in pass[p].moved : m[1] = s
    BY <2>1, <2>3 DEF Committed
  <2> QED
    BY <2>2, <2>3
<1>5. next' \in [Schedules -> Nat \cup {Never}]
  BY <1>4 DEF Committed
<1> QED
  BY <1>2, <1>3, <1>4, <1>5

\* The session after a commit.
LEMMA RenewedType ==
    ASSUME NEW q \in Pass, Listed(q), NEW times, \A e \in q.todo :
               e[1] \in Schedules \ OneTime => times[e[1]] # Never
    PROVE  Renewed(q) \in Pass /\ Listed(Renewed(q)) /\ Timed(Renewed(q), times)
  BY DEF Renewed, Pass, Listed, Timed

\* What the loop writes for a source keeps the pass in order.
LEMMA MarkedType ==
    ASSUME NEW q \in Pass, Listed(q), NEW times, Timed(q, times),
           NEW x \in Sources, NEW id \in Ids, NEW at \in Nat \cup {Never},
           x \in Schedules \ OneTime => at # Never, q.kind # "none"
    PROVE  /\ Marked(q, x, id, at) \in Pass /\ Listed(Marked(q, x, id, at))
           /\ Timed(Marked(q, x, id, at), times)
<1> DEFINE n == Marked(q, x, id, at)
           moved == IF x \in Schedules THEN q.moved \cup {<<x, Following(x, at)>>} ELSE q.moved
           done == IF x \in Rows THEN q.done \cup {<<x, id>>} ELSE q.done
<1>1. x \in Schedules => /\ Following(x, at) \in Nat \cup {Never}
                         /\ x \notin OneTime => Following(x, at) # Never
  BY SchedulingAssumption DEF Following
<1>2. /\ moved \subseteq Schedules \X (Nat \cup {Never})
      /\ \A m \in moved : m[1] \notin OneTime => m[2] # Never
      /\ done \subseteq Rows \X Ids
  BY <1>1 DEF Pass, Timed
<1>3. n = [q EXCEPT !.step = "look", !.current = NoSource,
                    !.todo = {e \in q.todo : e[1] # x}, !.done = done, !.moved = moved]
  BY DEF Marked, Pass
<1> HIDE DEF n, moved, done
<1>4. /\ n \in Pass /\ n.step = "look" /\ n.kind = q.kind /\ n.moved = moved
      /\ n.todo = {e \in q.todo : e[1] # x}
  BY <1>2, <1>3 DEF Pass, Steps
<1>5. Listed(n) /\ Timed(n, times)
  BY <1>2, <1>4 DEF Listed, Timed, Working
<1> QED
  BY <1>4, <1>5 DEF n

\* A pass that looks at a row.
LEMMA LookType ==
    ASSUME TypeInv, NEW p \in Passes, FindExecution(p) \/ FindNone(p)
    PROVE  TypeInv'
<1>1. PICK e \in pass[p].todo : First(e, pass[p].todo) /\
          \/ \E x \in Known(p, KeyOf(p, e)) :
                 pass' = [pass EXCEPT ![p] = Marked(pass[p], e[1], x.id, Seen(p, e))]
          \/ pass' = [pass EXCEPT ![p] = [pass[p] EXCEPT !.step = "insert",
                                                         !.current = KeyOf(p, e)]]
  BY DEF FindExecution, FindNone, TypeInv, TypeOK
<1>2. /\ pass[p] \in Pass /\ Listed(pass[p]) /\ Timed(pass[p], next)
      /\ pass[p].step = "look" /\ pass[p].kind # "none"
      /\ UNCHANGED <<now, paused, trigger, next, execution, processed>>
  BY DEF FindExecution, FindNone, TypeInv, TypeOK, Listed
<1>3. e[1] \in Sources /\ e[2] \in Nat /\ e = <<e[1], e[2]>>
  BY <1>2 DEF Pass
<1>4. /\ Seen(p, e) \in Nat \cup {Never}
      /\ e[1] \in Schedules \ OneTime => Seen(p, e) # Never
  BY <1>2, <1>3, SchedulingAssumption DEF Seen, TypeInv, TypeOK, Timed
<1>5. CASE \E x \in Known(p, KeyOf(p, e)) :
              pass' = [pass EXCEPT ![p] = Marked(pass[p], e[1], x.id, Seen(p, e))]
  <2>1. PICK x \in Known(p, KeyOf(p, e)) :
            pass' = [pass EXCEPT ![p] = Marked(pass[p], e[1], x.id, Seen(p, e))]
    BY <1>5
  <2>2. x.id \in Ids
    BY <1>2, <2>1 DEF Known, Pass, Execution, TypeInv, TypeOK
  <2>3. /\ Marked(pass[p], e[1], x.id, Seen(p, e)) \in Pass
        /\ Listed(Marked(pass[p], e[1], x.id, Seen(p, e)))
        /\ Timed(Marked(pass[p], e[1], x.id, Seen(p, e)), next)
    BY <1>2, <1>3, <1>4, <2>2, MarkedType
  <2> QED
    BY <1>2, <2>1, <2>3, TypeStep DEF TypeInv, TypeOK
<1>6. CASE pass' = [pass EXCEPT ![p] = [pass[p] EXCEPT !.step = "insert",
                                                       !.current = KeyOf(p, e)]]
  <2> DEFINE q == [pass[p] EXCEPT !.step = "insert", !.current = KeyOf(p, e)]
  <2>1. KeyOf(p, e) \in Activation /\ KeyOf(p, e).source = e[1]
    BY <1>3, <1>4 DEF KeyOf, Key, Activation
  <2>2. /\ q \in Pass /\ q.current = KeyOf(p, e) /\ q.todo = pass[p].todo
        /\ q.kind = pass[p].kind /\ q.step = "insert" /\ q.moved = pass[p].moved
    BY <1>2, <2>1 DEF Pass, Steps
  <2> HIDE DEF q
  <2>3. Listed(q) /\ Timed(q, next)
    BY <1>1, <1>2, <2>1, <2>2 DEF Listed, Timed, Working
  <2> QED
    BY <1>2, <1>6, <2>2, <2>3, TypeStep DEF q, TypeInv, TypeOK
<1> QED
  BY <1>1, <1>5, <1>6

\* A pass that inserts the execution.
LEMMA InsertType ==
    ASSUME TypeInv, NEW p \in Passes, InsertExecution(p)
    PROVE  TypeInv'
<1>1. /\ pass[p] \in Pass /\ Listed(pass[p]) /\ Timed(pass[p], next)
      /\ pass[p].step = "insert"
      /\ UNCHANGED <<now, paused, trigger, next, execution, processed>>
  BY DEF InsertExecution, TypeInv, TypeOK
<1>2. PICK id \in Ids : pass' = [pass EXCEPT
          ![p].step = "steps",
          ![p].fresh = @ \cup {[id |-> id, key |-> pass[p].current,
                                status |-> "RUNNING", queued |-> FALSE]}]
  BY DEF InsertExecution
<1> DEFINE e == [id |-> id, key |-> pass[p].current, status |-> "RUNNING", queued |-> FALSE]
           q == [pass[p] EXCEPT !.step = "steps", !.fresh = pass[p].fresh \cup {e}]
<1>3. pass[p].current \in Activation
  BY <1>1 DEF Listed, Working
<1>4. e \in Execution
  BY <1>3 DEF Execution
<1>5. pass' = [pass EXCEPT ![p] = q]
  BY <1>2 DEF TypeInv, TypeOK
<1> HIDE DEF e
<1>6. /\ q \in Pass /\ q.current = pass[p].current /\ q.todo = pass[p].todo
      /\ q.kind = pass[p].kind /\ q.step = "steps" /\ q.moved = pass[p].moved
  BY <1>1, <1>4 DEF Pass, Steps
<1> HIDE DEF q
<1>7. Listed(q) /\ Timed(q, next)
  BY <1>1, <1>6 DEF Listed, Timed, Working
<1> QED
  BY <1>1, <1>5, <1>6, <1>7, TypeStep DEF TypeInv, TypeOK

\* The commit that ends an execution, and what the loop writes next.
LEMMA EndType ==
    ASSUME TypeInv, NEW p \in Passes, NEW e \in Execution, e.key = pass[p].current,
           NEW status \in {"COMPLETED", "BLOCKED"}, pass[p].step \in {"steps", "finish"},
           EndExecution(p, e, status)
    PROVE  TypeInv'
<1> DEFINE x == At(p)
           at == IF x \in Schedules THEN next[x] ELSE 0
           rows == (pass[p].fresh \ {e}) \cup {[e EXCEPT !.status = status]}
           q == Marked(Renewed(pass[p]), x, e.id, at)
<1>1. /\ pass[p] \in Pass /\ Listed(pass[p]) /\ Timed(pass[p], next)
      /\ pass[p].kind # "none"
  BY DEF TypeInv, TypeOK, Listed
<1>2. rows \in SUBSET Execution
  BY <1>1 DEF Execution, Pass
<1>3. Committed(p, rows) /\ pass' = [pass EXCEPT ![p] = q]
  BY DEF EndExecution, TypeInv, TypeOK
<1>4. x \in Sources /\ e.id \in Ids
  BY DEF At, Execution, Activation
<1>5. at \in Nat \cup {Never} /\ (x \in Schedules \ OneTime => at # Never)
  <2>1. x \in Schedules => next[x] \in Nat \cup {Never}
    BY DEF TypeInv, TypeOK
  <2>2. x \in Schedules \ OneTime => next[x] # Never
    BY <1>1 DEF Listed, Timed, Working, At
  <2> QED
    BY <2>1, <2>2
<1> HIDE DEF rows, at, x
<1>6. /\ now' = now /\ paused' = paused /\ trigger' \in [Triggers -> TriggerStatus]
      /\ next' \in [Schedules -> Nat \cup {Never}] /\ execution' \subseteq Execution
      /\ processed' \subseteq Rows \X Ids
      /\ \A s \in Schedules \ OneTime : next[s] # Never => next'[s] # Never
  BY <1>2, <1>3, CommitTypes
<1>7. \A d \in pass[p].todo : d[1] \in Schedules \ OneTime => next'[d[1]] # Never
  BY <1>1, <1>6 DEF Timed
<1>8. /\ Renewed(pass[p]) \in Pass /\ Listed(Renewed(pass[p]))
      /\ Timed(Renewed(pass[p]), next') /\ Renewed(pass[p]).kind # "none"
  <2>1. Renewed(pass[p]).kind = pass[p].kind
    BY <1>1 DEF Renewed, Pass
  <2> QED
    BY <1>1, <1>7, <2>1, RenewedType
<1>9. q \in Pass /\ Listed(q) /\ Timed(q, next')
  BY <1>4, <1>5, <1>8, MarkedType
<1> QED
  BY <1>3, <1>6, <1>9, TypeStep

\* The steps of a workflow: blocked, queued, refused, finished.
LEMMA StepsType ==
    ASSUME TypeInv, NEW p \in Passes,
           BlockExecution(p) \/ QueueJob(p) \/ FailTrigger(p) \/ FinishExecution(p)
    PROVE  TypeInv'
<1>1. /\ pass[p] \in Pass /\ Listed(pass[p]) /\ Timed(pass[p], next)
      /\ pass[p].step \in {"steps", "finish"}
  BY DEF BlockExecution, QueueJob, FailTrigger, FinishExecution, Refused, TypeInv, TypeOK
<1>2. CASE BlockExecution(p)
  <2>1. PICK e \in Fresh(p) : EndExecution(p, e, "BLOCKED")
    BY <1>2 DEF BlockExecution
  <2>2. e \in Execution /\ e.key = pass[p].current
    BY <1>1 DEF Fresh, Pass
  <2> QED
    BY <1>1, <2>1, <2>2, EndType
<1>3. CASE FinishExecution(p)
  <2>1. PICK e \in execution : e.key = pass[p].current /\ EndExecution(p, e, "COMPLETED")
    BY <1>3 DEF FinishExecution
  <2>2. e \in Execution
    BY DEF TypeInv, TypeOK
  <2> QED
    BY <1>1, <2>1, <2>2, EndType
<1>4. CASE QueueJob(p)
  <2> DEFINE q == [Renewed(pass[p]) EXCEPT !.step = "finish"]
  <2>1. PICK e \in Fresh(p) :
            Committed(p, (pass[p].fresh \ {e}) \cup {[e EXCEPT !.queued = TRUE]})
    BY <1>4 DEF QueueJob
  <2>2. (pass[p].fresh \ {e}) \cup {[e EXCEPT !.queued = TRUE]} \in SUBSET Execution
    BY <1>1 DEF Fresh, Pass, Execution
  <2>3. /\ now' = now /\ paused' = paused /\ trigger' \in [Triggers -> TriggerStatus]
        /\ next' \in [Schedules -> Nat \cup {Never}] /\ execution' \subseteq Execution
        /\ processed' \subseteq Rows \X Ids
        /\ \A s \in Schedules \ OneTime : next[s] # Never => next'[s] # Never
    BY <2>1, <2>2, CommitTypes
  <2>4. pass' = [pass EXCEPT ![p] = q]
    BY <1>4 DEF QueueJob, TypeInv, TypeOK
  <2>5. /\ q \in Pass /\ q.current = pass[p].current /\ q.todo = pass[p].todo
        /\ q.kind = pass[p].kind /\ q.step = "finish" /\ q.moved = {}
    BY <1>1 DEF Renewed, Pass, Steps
  <2> HIDE DEF q
  <2>6. pass[p].step = "steps"
    BY <1>4 DEF QueueJob
  <2>7. Listed(q) /\ Timed(q, next')
    BY <1>1, <2>3, <2>5, <2>6 DEF Listed, Timed, Working
  <2> QED
    BY <2>3, <2>4, <2>5, <2>7, TypeStep
<1>5. CASE FailTrigger(p)
  <2> DEFINE q == [pass[p] EXCEPT !.step = "look", !.current = NoSource,
                                  !.failed = pass[p].failed \cup {At(p)},
                                  !.todo = {e \in pass[p].todo : e[1] # At(p)}]
  <2>1. /\ pass' = [pass EXCEPT ![p] = q] /\ pass[p].kind = "triggers"
        /\ UNCHANGED <<now, paused, trigger, next, execution, processed>>
    BY <1>5 DEF FailTrigger, TypeInv, TypeOK
  <2>2. At(p) \in Triggers
    BY <1>1, <2>1 DEF Listed, Working, At
  <2>3. /\ q \in Pass /\ q.todo \subseteq pass[p].todo
        /\ q.kind = pass[p].kind /\ q.step = "look" /\ q.moved = pass[p].moved
    BY <1>1, <2>2 DEF Pass, Steps
  <2> HIDE DEF q
  <2>4. Listed(q) /\ Timed(q, next)
    BY <1>1, <2>1, <2>3 DEF Listed, Timed, Working
  <2> QED
    BY <2>1, <2>3, <2>4, TypeStep DEF TypeInv, TypeOK
<1> QED
  BY <1>2, <1>3, <1>4, <1>5

\* Idle passes have nothing to keep.
LEMMA IdleType ==
    Idle \in Pass /\ Listed(Idle) /\ \A times : Timed(Idle, times)
  BY DEF Idle, Pass, Steps, Listed, Timed, Working

\* The end of a pass, by itself or by an exception.
LEMMA EndPassType ==
    ASSUME TypeInv, NEW p \in Passes, EndPass(p) \/ Abort(p)
    PROVE  TypeInv'
<1>1. CASE EndPass(p)
  <2>1. Committed(p, pass[p].fresh) /\ pass' = [pass EXCEPT ![p] = Idle]
    BY <1>1 DEF EndPass
  <2>2. pass[p].fresh \in SUBSET Execution
    BY DEF TypeInv, TypeOK, Pass
  <2> QED
    BY <2>1, <2>2, CommitTypes, IdleType, TypeStep
<1>2. CASE Abort(p)
  BY <1>2, IdleType, TypeStep DEF Abort, TypeInv, TypeOK
<1> QED
  BY <1>1, <1>2

\* A pass begins.
LEMMA BeginType ==
    ASSUME TypeInv, NEW p \in Passes,
           StartTriggers(p) \/ StartSchedules(p) \/ \E w \in Workflows : StartDirect(p, w)
    PROVE  TypeInv'
<1>1. PICK kind \in {"triggers", "schedules", "direct"}, todo \in SUBSET (Sources \X Nat) :
          /\ Begin(p, kind, todo)
          /\ kind = "triggers" => \A e \in todo : e[1] \in Triggers
          /\ kind = "schedules" => \A e \in todo : e[1] \in Schedules /\ next[e[1]] # Never
          /\ kind = "direct" => \A e \in todo : e[1] \in Workflows
  <2>1. CASE StartTriggers(p)
    <3>1. {t \in Triggers : trigger[t] = "PENDING"} \X {0} \in SUBSET (Sources \X Nat)
      BY DEF Sources, Rows
    <3> QED
      BY <2>1, <3>1 DEF StartTriggers
  <2>2. CASE StartSchedules(p)
    <3> DEFINE due == {s \in Schedules : next[s] # Never /\ next[s] <= now}
    <3>1. {<<s, next[s]>> : s \in due} \in SUBSET (Sources \X Nat)
      BY DEF Sources, Rows, TypeInv, TypeOK
    <3> QED
      BY <2>2, <3>1 DEF StartSchedules
  <2>3. CASE \E w \in Workflows : StartDirect(p, w)
    BY <2>3 DEF StartDirect, Sources
  <2> QED
    BY <2>1, <2>2, <2>3
<1> DEFINE q == [Idle EXCEPT !.kind = kind, !.step = "look", !.todo = todo]
<1>2. /\ pass' = [pass EXCEPT ![p] = q]
      /\ UNCHANGED <<now, paused, trigger, next, execution, processed>>
  BY <1>1 DEF Begin
<1>3. /\ q \in Pass /\ q.kind = kind /\ q.step = "look" /\ q.todo = todo /\ q.moved = {}
  BY <1>1 DEF Idle, Pass, Steps
<1> HIDE DEF q
<1>4. \A e \in todo : e[1] \in Schedules => next[e[1]] # Never
  BY <1>1, SchedulingAssumption DEF Rows
<1>5. Listed(q) /\ Timed(q, next)
  BY <1>1, <1>3, <1>4 DEF Listed, Timed, Working
<1> QED
  BY <1>2, <1>3, <1>5, TypeStep DEF TypeInv, TypeOK

\* Steps outside every pass.
LEMMA OutsideType ==
    ASSUME TypeInv, Tick \/ (\E t \in Triggers : CreateTrigger(t))
                        \/ (\E q \in Queues : SetQueueStatus(q)) \/ UNCHANGED vars
    PROVE  TypeInv'
<1>1. UNCHANGED <<next, execution, processed, pass>>
  BY DEF Tick, CreateTrigger, SetQueueStatus, vars
<1>2. /\ now' \in Times /\ paused' \subseteq Queues
      /\ trigger' \in [Triggers -> TriggerStatus]
  BY SchedulingAssumption
     DEF TypeInv, TypeOK, Times, TriggerStatus, Tick, CreateTrigger, SetQueueStatus, vars
<1> QED
  BY <1>1, <1>2 DEF TypeInv, TypeOK

\* Every behaviour keeps the type invariant.
THEOREM TypeInvariant == Spec => []TypeInv
<1>1. Init => TypeInv
  BY IdleType, SchedulingAssumption
     DEF Init, TypeInv, TypeOK, Times, TriggerStatus, Rows
<1>2. ASSUME TypeInv, [Next]_vars
      PROVE  TypeInv'
  <2>1. ASSUME NEW p \in Passes, Advance(p) \/ Crash(p)
        PROVE  TypeInv'
    BY <1>2, <2>1, LookType, InsertType, StepsType, EndPassType
       DEF Advance, Crash, InsertCollides, RefusePass, HistoryCollides
  <2> QED
    BY <1>2, <2>1, BeginType, OutsideType DEF Next
<1> QED
  BY <1>1, <1>2, PTL DEF Spec

\* TypeOK holds for every number of triggers, schedules, queues and passes and
\* whatever dies, overlaps or is paused.
THEOREM TypeCorrect == Spec => []TypeOK
<1>1. TypeInv => TypeOK
  BY DEF TypeInv
<1> QED
  BY <1>1, TypeInvariant, PTL

-----------------------------------------------------------------------------
(* Passes that do not overlap                                               *)

(***************************************************************************)
(* From here on no two passes overlap.  What a pass has in hand then still *)
(* agrees with the tables, since nobody else writes them: what it listed   *)
(* is pending or due, what it wrote and has not committed had its          *)
(* execution, and the row it flushed is the only one of its activation.    *)
(***************************************************************************)
\* The sources p has written something for and not committed it.
Written(q) == q.failed \cup {d[1] : d \in q.done} \cup {m[1] : m \in q.moved}

ListedSources(q) == {e[1] : e \in q.todo}

\* Done, in the given table of executions.
DoneIn(ex, k) == \E e \in ex : e.key = k /\ (e.queued \/ e.status = "BLOCKED")

\* What is listed waits for its execution.
Waiting(q, tr, nx, time) ==
    /\ ListedSources(q) \cap Written(q) = {}
    /\ \A e \in q.todo :
          /\ e[1] \in Triggers => e[2] = 0 /\ tr[e[1]] = "PENDING"
          /\ e[1] \in Schedules => e[2] = nx[e[1]] /\ e[2] <= time

\* What is written is of rows still as they were, and was executed.
Earned(q, tr, nx, ex) ==
    /\ \A t \in q.failed : tr[t] = "PENDING"
    /\ \A d \in q.done : d[1] \in Triggers =>
          tr[d[1]] = "PENDING" /\ DoneIn(ex, Key(d[1], Never))
    /\ \A m \in q.moved :
          /\ nx[m[1]] # Never /\ m[2] = Following(m[1], nx[m[1]])
          /\ DoneIn(ex, Key(m[1], nx[m[1]]))

\* A pass goes through the pending triggers in their order and leaves none out.
Sorted(q, tr) ==
    \A t, u \in Triggers : t < u =>
        /\ u \in Written(q) => t \notin ListedSources(q)
        /\ u \in Written(q) \cup ListedSources(q) /\ tr[t] = "PENDING"
             => t \in Written(q) \cup ListedSources(q)

\* At most one row is flushed, and it is the one at hand or that of a trigger
\* that failed.
Flushed(q, ex) ==
    /\ \A e, f \in q.fresh : e = f
    /\ \A e \in q.fresh :
          /\ e.status = "RUNNING" /\ ~e.queued /\ e.id = Cardinality(ex) + 1
          /\ \A f \in ex : f.key # e.key
          /\ \/ q.step \in {"look", "insert"} /\ e.key.source \in q.failed
             \/ q.step = "steps" /\ e.key = q.current

\* The key at hand is that of the row at hand.
AtHand(q, nx, ex) ==
    q.step \in Working =>
        /\ q.current.at = IF q.current.source \in Schedules
                          THEN nx[q.current.source] ELSE Never
        /\ q.step = "insert" => \A f \in ex : f.key # q.current

Sound(q, tr, nx, ex, time) ==
    /\ Waiting(q, tr, nx, time)
    /\ Earned(q, tr, nx, ex)
    /\ Sorted(q, tr)
    /\ Flushed(q, ex)
    /\ AtHand(q, nx, ex)

\* Executions are numbered, and none is of an activation another is of.
Numbered(ex) ==
    /\ IsFiniteSet(ex)
    /\ \A e \in ex : e.id \in 1..Cardinality(ex)
    /\ \A e, f \in ex : e.id = f.id \/ e.key = f.key => e = f

\* What the status of an execution says.
Explained(ex, tr, time) ==
    \A e \in ex :
        /\ e.status = "COMPLETED" => e.queued
        /\ e.status = "RUNNING" /\ ~e.queued =>
              e.key.source \in Triggers /\ tr[e.key.source] = "FAILED"
        /\ e.key.source \in Schedules => e.key.at # Never /\ e.key.at <= time

\* Triggers are made and processed in order, and processed ones were executed.
Ordered(tr, ex) ==
    /\ \A t, u \in Triggers : t < u =>
          /\ tr[u] # "ABSENT" => tr[t] # "ABSENT"
          /\ tr[u] \in {"PROCESSED", "FAILED"} => tr[t] # "PENDING"
    /\ \A t \in Triggers : tr[t] = "PROCESSED" => DoneIn(ex, Key(t, Never))

\* A schedule moves from an occurrence to the next once that was executed.
Gapless(nx, ex) ==
    \A s \in Schedules :
        \/ nx[s] = FirstRun[s]
        \/ s \in OneTime /\ DoneIn(ex, Key(s, FirstRun[s]))
        \/ /\ s \notin OneTime /\ FirstRun[s] \in Nat /\ nx[s] \in Nat
           /\ Interval[s] > 0 /\ FirstRun[s] <= nx[s]
           /\ (nx[s] - FirstRun[s]) % Interval[s] = 0
           /\ \A k \in FirstRun[s]..(nx[s] - 1) :
                 (k - FirstRun[s]) % Interval[s] = 0 => DoneIn(ex, Key(s, k))

SerialInv ==
    /\ TypeInv
    /\ \A p, q \in Passes : p = q \/ pass[p] = Idle \/ pass[q] = Idle
    /\ \A p \in Passes : Sound(pass[p], trigger, next, execution, now)
    /\ Numbered(execution)
    /\ Explained(execution, trigger, now)
    /\ Ordered(trigger, execution)
    /\ Gapless(next, execution)

-----------------------------------------------------------------------------
(* Rows                                                                     *)

\* A row with the next number and a key of its own.
LEMMA AddRow ==
    ASSUME NEW ex, Numbered(ex), NEW f, f.id = Cardinality(ex) + 1,
           \A e \in ex : e.key # f.key
    PROVE  /\ {e \in ex : e.id # f.id} = ex
           /\ Numbered(ex \cup {f})
<1>1. IsFiniteSet(ex) /\ Cardinality(ex) \in Nat /\ f \notin ex
  BY FS_CardinalityType DEF Numbered
<1>2. IsFiniteSet(ex \cup {f}) /\ Cardinality(ex \cup {f}) = Cardinality(ex) + 1
  BY <1>1, FS_AddElement
<1>3. \A e \in ex : e.id # f.id
  BY <1>1 DEF Numbered
<1>4. \A e \in ex \cup {f} : e.id \in 1..Cardinality(ex \cup {f})
  BY <1>1, <1>2 DEF Numbered
<1>5. \A e, g \in ex \cup {f} : e.id = g.id \/ e.key = g.key => e = g
  BY <1>3 DEF Numbered
<1> QED
  BY <1>2, <1>3, <1>4, <1>5 DEF Numbered

\* A row that takes the place of the one with its number and key.
LEMMA ReplaceRow ==
    ASSUME NEW ex, Numbered(ex), NEW e \in ex, NEW f, f.id = e.id, f.key = e.key
    PROVE  /\ {g \in ex : g.id # f.id} = ex \ {e}
           /\ Numbered((ex \ {e}) \cup {f})
<1>1. {g \in ex : g.id # f.id} = ex \ {e}
  BY DEF Numbered
<1>2. /\ IsFiniteSet(ex \ {e}) /\ Cardinality(ex) \in Nat
      /\ Cardinality(ex \ {e}) = Cardinality(ex) - 1
  BY FS_CardinalityType, FS_RemoveElement DEF Numbered
<1>3. f \notin ex \ {e}
  BY DEF Numbered
<1>4. /\ IsFiniteSet((ex \ {e}) \cup {f})
      /\ Cardinality((ex \ {e}) \cup {f}) = Cardinality(ex)
  BY <1>2, <1>3, FS_AddElement
<1> QED
  BY <1>1, <1>4 DEF Numbered

\* What is done stays done where rows are added, or replaced by done ones.
DoneKept(ex, ey) == \A k : DoneIn(ex, k) => DoneIn(ey, k)

\* A pass that took the first of its list stays sorted.
LEMMA SortedStep ==
    ASSUME NEW q, NEW n, NEW tr, NEW nx, NEW time, Waiting(q, tr, nx, time), Sorted(q, tr),
           NEW e \in q.todo, First(e, q.todo), ListedSources(n) = ListedSources(q) \ {e[1]},
           Written(q) \subseteq Written(n), Written(n) \subseteq Written(q) \cup {e[1]},
           e[1] \in Triggers => e[1] \in Written(n)
    PROVE  Sorted(n, tr)
<1> SUFFICES ASSUME NEW t \in Triggers, NEW u \in Triggers, t < u
             PROVE  /\ u \in Written(n) => t \notin ListedSources(n)
                    /\ u \in Written(n) \cup ListedSources(n) /\ tr[t] = "PENDING"
                         => t \in Written(n) \cup ListedSources(n)
  BY DEF Sorted
<1>1. e[1] \in ListedSources(q)
  BY DEF ListedSources
<1>2. u = e[1] => t \notin ListedSources(q)
  <2> SUFFICES ASSUME u = e[1], NEW f \in q.todo, f[1] = t
               PROVE  FALSE
    BY DEF ListedSources
  <2>1. e[2] = 0 /\ f[2] = 0 /\ u \in Nat /\ t \in Nat
    BY SchedulingAssumption DEF Waiting, Rows
  <2> QED
    BY <2>1 DEF First
<1> QED
  BY <1>1, <1>2 DEF Sorted

\* What the loop writes for the first of the listed sources keeps the pass sound.
LEMMA MarkedSound ==
    ASSUME NEW q \in Pass, NEW tr, NEW nx, NEW ex, NEW time,
           Waiting(q, tr, nx, time), Earned(q, tr, nx, ex), Sorted(q, tr), Flushed(q, ex),
           q.step = "look" \/ q.fresh = {},
           NEW e \in q.todo, First(e, q.todo), NEW id, NEW at,
           e[1] \in Triggers => DoneIn(ex, Key(e[1], Never)),
           e[1] \in Schedules => /\ nx[e[1]] # Never /\ at = nx[e[1]]
                                 /\ DoneIn(ex, Key(e[1], at))
    PROVE  Sound(Marked(q, e[1], id, at), tr, nx, ex, time)
<1> DEFINE x == e[1]
           n == Marked(q, x, id, at)
<1>1. /\ n.step = "look" /\ n.todo = {f \in q.todo : f[1] # x} /\ n.fresh = q.fresh
      /\ n.failed = q.failed
      /\ n.done = IF x \in Rows THEN q.done \cup {<<x, id>>} ELSE q.done
      /\ n.moved = IF x \in Schedules THEN q.moved \cup {<<x, Following(x, at)>>}
                   ELSE q.moved
  BY DEF Marked, Pass
<1>2. Written(q) \subseteq Written(n) /\ Written(n) \subseteq Written(q) \cup {x}
  BY <1>1 DEF Written
<1>3. x \in Triggers => x \in Written(n)
  <2>1. x \in Triggers => <<x, id>> \in n.done
    BY <1>1 DEF Rows
  <2> QED
    BY <2>1 DEF Written
<1>4. ListedSources(n) = ListedSources(q) \ {x}
  BY <1>1 DEF ListedSources
<1> HIDE DEF n
<1>5. Waiting(n, tr, nx, time)
  BY <1>1, <1>2, <1>4 DEF Waiting
<1>6. Earned(n, tr, nx, ex)
  <2>1. \A t \in n.failed : tr[t] = "PENDING"
    BY <1>1 DEF Earned
  <2>2. ASSUME NEW d \in n.done, d[1] \in Triggers
        PROVE  tr[d[1]] = "PENDING" /\ DoneIn(ex, Key(d[1], Never))
    BY <1>1, <2>2 DEF Earned, Waiting
  <2>3. ASSUME NEW m \in n.moved
        PROVE  /\ nx[m[1]] # Never /\ m[2] = Following(m[1], nx[m[1]])
               /\ DoneIn(ex, Key(m[1], nx[m[1]]))
    BY <1>1, <2>3 DEF Earned
  <2> QED
    BY <2>1, <2>2, <2>3 DEF Earned
<1>7. Sorted(n, tr)
  BY <1>2, <1>3, <1>4, SortedStep
<1>8. Flushed(n, ex) /\ AtHand(n, nx, ex)
  BY <1>1 DEF Flushed, AtHand, Working
<1> QED
  BY <1>5, <1>6, <1>7, <1>8 DEF Sound, n

\* Two multiples of an interval that are less than it apart are the same.
LEMMA SameOccurrence ==
    ASSUME NEW i \in Nat, i > 0, NEW a \in Nat, a % i = 0, NEW b \in Nat, b % i = 0,
           a <= b, b < a + i
    PROVE  a = b
<1> DEFINE x == a \div i
           y == b \div i
<1>1. x \in Nat /\ y \in Nat /\ a = i * x /\ b = i * y
  OBVIOUS
<1> HIDE DEF x, y
<1>2. ~ x + 1 <= y
  <2> SUFFICES ASSUME x + 1 <= y
               PROVE  FALSE
    OBVIOUS
  <2>1. PICK z \in Nat : y = x + 1 + z
    <3>1. y - (x + 1) \in Nat /\ y = x + 1 + (y - (x + 1))
      BY <1>1
    <3> QED
      BY <3>1
  <2>2. i * y = i * x + i + i * z /\ i * z \in Nat
    BY <1>1, <2>1
  <2> QED
    BY <1>1, <2>2
<1>3. ~ y + 1 <= x
  <2> SUFFICES ASSUME y + 1 <= x
               PROVE  FALSE
    OBVIOUS
  <2>1. PICK z \in Nat : x = y + 1 + z
    <3>1. x - (y + 1) \in Nat /\ x = y + 1 + (x - (y + 1))
      BY <1>1
    <3> QED
      BY <3>1
  <2>2. i * x = i * y + i + i * z /\ i * z \in Nat
    BY <1>1, <2>1
  <2> QED
    BY <1>1, <2>2
<1> QED
  BY <1>1, <1>2, <1>3

\* The next multiple.
LEMMA NextOccurrence ==
    ASSUME NEW i \in Nat, i > 0, NEW a \in Nat, a % i = 0
    PROVE  (a + i) % i = 0
<1> DEFINE x == a \div i
           r == (a + i) % i
           y == (a + i) \div i
<1>1. x \in Nat /\ y \in Nat /\ a = i * x /\ r \in 0..(i - 1) /\ a + i = i * y + r
  OBVIOUS
<1> HIDE DEF x, r, y
<1>2. ~ y <= x
  <2> SUFFICES ASSUME y <= x
               PROVE  FALSE
    OBVIOUS
  <2>1. PICK z \in Nat : x = y + z
    <3>1. x - y \in Nat /\ x = y + (x - y)
      BY <1>1
    <3> QED
      BY <3>1
  <2>2. i * x = i * y + i * z /\ i * z \in Nat
    BY <1>1, <2>1
  <2> QED
    BY <1>1, <2>2
<1>3. ~ x + 2 <= y
  <2> SUFFICES ASSUME x + 2 <= y
               PROVE  FALSE
    OBVIOUS
  <2>1. PICK z \in Nat : y = x + 2 + z
    <3>1. y - (x + 2) \in Nat /\ y = x + 2 + (y - (x + 2))
      BY <1>1
    <3> QED
      BY <3>1
  <2>2. i * y = i * x + i + i + i * z /\ i * z \in Nat
    BY <1>1, <2>1
  <2> QED
    BY <1>1, <2>2
<1>4. y = x + 1
  BY <1>1, <1>2, <1>3
<1>5. i * y = i * x + i
  BY <1>1, <1>4
<1> QED
  BY <1>1, <1>5 DEF r

\* What a commit does to the triggers, the schedules and what is still listed.
LEMMA TablesCommitted ==
    ASSUME SerialInv, NEW p \in Passes, NEW rows, Committed(p, rows),
           DoneKept(execution, execution')
    PROVE  /\ Ordered(trigger, execution)' /\ Gapless(next, execution)'
           /\ \A t \in Triggers :
                 t \in pass[p].failed \/ trigger[t] = "FAILED" => trigger'[t] = "FAILED"
           /\ \A s \in Schedules : s \notin Written(pass[p]) => next'[s] = next[s]
           /\ Waiting(Renewed(pass[p]), trigger', next', now')
           /\ Sorted(Renewed(pass[p]), trigger')
<1> DEFINE q == pass[p]
           n == Renewed(q)
<1>1. /\ q \in Pass /\ Waiting(q, trigger, next, now)
      /\ Earned(q, trigger, next, execution) /\ Sorted(q, trigger)
      /\ Ordered(trigger, execution) /\ Gapless(next, execution) /\ now' = now
      /\ trigger \in [Triggers -> TriggerStatus]
  BY DEF SerialInv, TypeInv, TypeOK, Sound, Committed
<1>2. /\ n.todo = q.todo /\ n.failed = {} /\ n.done = {} /\ n.moved = {}
  BY <1>1 DEF Renewed, Pass
<1>3. ListedSources(n) = ListedSources(q) /\ Written(n) = {}
  BY <1>2 DEF ListedSources, Written
<1>4. ASSUME NEW t \in Triggers
      PROVE  /\ trigger'[t] = IF t \in q.failed THEN "FAILED"
                              ELSE IF \E d \in q.done : d[1] = t THEN "PROCESSED"
                              ELSE trigger[t]
             /\ t \in Written(q) <=> t \in q.failed \/ \E d \in q.done : d[1] = t
             /\ t \in Written(q) => trigger[t] = "PENDING"
  <2>1. \A m \in q.moved : m[1] # t
    BY <1>1, SchedulingAssumption DEF Pass
  <2> QED
    BY <1>1, <2>1 DEF Committed, Written, Earned
<1>5. ASSUME NEW s \in Schedules
      PROVE  \/ next'[s] = next[s]
             \/ /\ s \in Written(q) /\ next[s] # Never
                /\ next'[s] = Following(s, next[s])
                /\ DoneIn(execution, Key(s, next[s]))
  <2>1. CASE \E m \in q.moved : m[1] = s
    <3>1. PICK m \in q.moved : m = (CHOOSE k \in q.moved : k[1] = s) /\ m[1] = s
      BY <2>1
    <3>2. next'[s] = m[2]
      BY <2>1, <3>1 DEF Committed
    <3> QED
      BY <1>1, <3>1, <3>2 DEF Earned, Written
  <2>2. CASE ~ \E m \in q.moved : m[1] = s
    BY <2>2 DEF Committed
  <2> QED
    BY <2>1, <2>2
<1> HIDE DEF n
<1>6. ASSUME NEW k, DoneIn(execution, k)
      PROVE  DoneIn(execution', k)
  BY <1>6 DEF DoneKept
<1>7. Ordered(trigger, execution)'
  <2>1. ASSUME NEW t \in Triggers, NEW u \in Triggers, t < u
        PROVE  /\ trigger'[u] # "ABSENT" => trigger'[t] # "ABSENT"
               /\ trigger'[u] \in {"PROCESSED", "FAILED"} => trigger'[t] # "PENDING"
    <3>1. /\ trigger[u] # "ABSENT" => trigger[t] # "ABSENT"
          /\ trigger[u] \in {"PROCESSED", "FAILED"} => trigger[t] # "PENDING"
      BY <1>1, <2>1 DEF Ordered
    <3>2. u \in Written(q) => t \notin ListedSources(q)
      BY <1>1, <2>1 DEF Sorted
    <3>3. u \in Written(q) /\ trigger[t] = "PENDING" => t \in Written(q) \cup ListedSources(q)
      BY <1>1, <2>1 DEF Sorted
    <3> QED
      BY <1>4, <3>1, <3>2, <3>3
  <2>2. ASSUME NEW t \in Triggers, trigger'[t] = "PROCESSED"
        PROVE  DoneIn(execution', Key(t, Never))
    <3>1. CASE trigger[t] = "PROCESSED"
      BY <1>1, <1>6, <3>1 DEF Ordered
    <3>2. CASE trigger[t] # "PROCESSED"
      <4>1. PICK d \in q.done : d[1] = t
        BY <1>4, <2>2, <3>2
      <4> QED
        BY <1>1, <1>6, <4>1 DEF Earned
    <3> QED
      BY <3>1, <3>2
  <2> QED
    BY <2>1, <2>2 DEF Ordered
<1>8. Gapless(next, execution)'
  <2> SUFFICES ASSUME NEW s \in Schedules
               PROVE  \/ next'[s] = FirstRun[s]
                      \/ s \in OneTime /\ DoneIn(execution', Key(s, FirstRun[s]))
                      \/ /\ s \notin OneTime /\ FirstRun[s] \in Nat /\ next'[s] \in Nat
                         /\ Interval[s] > 0 /\ FirstRun[s] <= next'[s]
                         /\ (next'[s] - FirstRun[s]) % Interval[s] = 0
                         /\ \A k \in FirstRun[s]..(next'[s] - 1) :
                               (k - FirstRun[s]) % Interval[s] = 0
                                 => DoneIn(execution', Key(s, k))
    BY DEF Gapless
  <2>1. \/ next[s] = FirstRun[s]
        \/ s \in OneTime /\ DoneIn(execution, Key(s, FirstRun[s]))
        \/ /\ s \notin OneTime /\ FirstRun[s] \in Nat /\ next[s] \in Nat
           /\ Interval[s] > 0 /\ FirstRun[s] <= next[s]
           /\ (next[s] - FirstRun[s]) % Interval[s] = 0
           /\ \A k \in FirstRun[s]..(next[s] - 1) :
                 (k - FirstRun[s]) % Interval[s] = 0 => DoneIn(execution, Key(s, k))
    BY <1>1 DEF Gapless
  <2>2. CASE next'[s] = next[s]
    BY <1>6, <2>1, <2>2
  <2>3. CASE s \in OneTime /\ next'[s] # next[s]
    BY <1>5, <1>6, <2>1, <2>3
  <2>4. CASE s \notin OneTime /\ next'[s] # next[s]
    <3> DEFINE i == Interval[s]
               f == FirstRun[s]
               o == next[s]
    <3>1. /\ i \in Nat /\ i > 0 /\ f \in Nat /\ o \in Nat /\ f <= o
          /\ next'[s] = o + i /\ DoneIn(execution, Key(s, o))
      <4>1. /\ next[s] # Never /\ next'[s] = Following(s, next[s])
            /\ DoneIn(execution, Key(s, next[s]))
        BY <1>5, <2>4
      <4>2. FirstRun[s] \in Nat \cup {Never} /\ i \in Nat
        BY SchedulingAssumption DEF Times
      <4> QED
        BY <2>1, <2>4, <4>1, <4>2 DEF Following
    <3>2. (o - f) % i = 0 /\ o - f \in Nat
      <4>1. 0 % i = 0
        BY <3>1
      <4> QED
        BY <2>1, <2>4, <3>1, <4>1
    <3>3. ((o - f) + i) % i = 0 /\ (o + i) - f = (o - f) + i
      <4> DEFINE d == o - f
      <4>1. d \in Nat /\ d % i = 0 /\ (o + i) - f = d + i
        BY <3>1, <3>2
      <4> HIDE DEF d
      <4>2. (d + i) % i = 0
        BY <3>1, <4>1, NextOccurrence
      <4> QED
        BY <4>1, <4>2 DEF d
    <3>4. ASSUME NEW k \in f..(o + i - 1), (k - f) % i = 0
          PROVE  DoneIn(execution', Key(s, k))
      <4>1. CASE k < o
        BY <1>6, <2>1, <2>4, <3>1, <3>4, <4>1
      <4>2. CASE o <= k
        <5>1. k - f \in Nat /\ o - f <= k - f /\ k - f < (o - f) + i
          BY <3>1, <4>2
        <5>2. o - f = k - f
          BY <3>1, <3>2, <3>4, <5>1, SameOccurrence
        <5>3. k = o
          BY <3>1, <5>2
        <5> QED
          BY <1>6, <3>1, <5>3
      <4> QED
        BY <3>1, <4>1, <4>2
    <3> HIDE DEF i, f, o
    <3>5. o + i \in Nat /\ f <= o + i
      BY <3>1
    <3> QED
      BY <2>4, <3>1, <3>3, <3>4, <3>5 DEF i, f, o
  <2> QED
    BY <2>2, <2>3, <2>4
<1>9. Waiting(n, trigger', next', now')
  <2>1. ASSUME NEW e \in q.todo
        PROVE  /\ e[1] \in Triggers => e[2] = 0 /\ trigger'[e[1]] = "PENDING"
               /\ e[1] \in Schedules => e[2] = next'[e[1]] /\ e[2] <= now
    <3>1. e[1] \notin Written(q)
      BY <1>1 DEF Waiting, ListedSources
    <3> QED
      BY <1>1, <1>4, <1>5, <3>1 DEF Waiting
  <2> QED
    BY <1>1, <1>2, <1>3, <2>1 DEF Waiting
<1>10. Sorted(n, trigger')
  <2> SUFFICES ASSUME NEW t \in Triggers, NEW u \in Triggers, t < u,
                      u \in ListedSources(q), trigger'[t] = "PENDING"
               PROVE  t \in ListedSources(q)
    BY <1>3 DEF Sorted
  <2>1. t \notin Written(q) /\ trigger[t] = "PENDING"
    BY <1>4
  <2> QED
    BY <1>1, <2>1 DEF Sorted
<1> QED
  BY <1>1, <1>4, <1>5, <1>7, <1>8, <1>9, <1>10 DEF n, Ordered

-----------------------------------------------------------------------------
(* Steps                                                                    *)

\* An idle pass is sound.
LEMMA IdleSound ==
    ASSUME NEW tr, NEW nx, NEW ex, NEW time
    PROVE  Sound(Idle, tr, nx, ex, time)
  BY DEF Idle, Sound, Waiting, Earned, Sorted, Flushed, AtHand, Written, ListedSources, Working

\* What a step of one pass has to keep.
LEMMA SerialStep ==
    ASSUME SerialInv, TypeInv', NEW p \in Passes, NEW q, pass' = [pass EXCEPT ![p] = q],
           pass[p] # Idle \/ \A r \in Passes : pass[r] = Idle,
           Sound(q, trigger', next', execution', now'), Numbered(execution)',
           Explained(execution, trigger, now)', Ordered(trigger, execution)',
           Gapless(next, execution)'
    PROVE  SerialInv'
<1>1. \A r \in Passes : r # p => pass[r] = Idle
  BY DEF SerialInv
<1>2. \A r \in Passes : pass'[r] = IF r = p THEN q ELSE Idle
  BY <1>1 DEF SerialInv, TypeInv, TypeOK
<1>3. \A r \in Passes : Sound(pass'[r], trigger', next', execution', now')
  BY <1>2, IdleSound
<1> QED
  BY <1>2, <1>3 DEF SerialInv

\* A step of one pass that leaves the tables alone.
LEMMA PassStep ==
    ASSUME SerialInv, TypeInv', NEW p \in Passes, NEW q, pass' = [pass EXCEPT ![p] = q],
           pass[p] # Idle \/ \A r \in Passes : pass[r] = Idle,
           UNCHANGED <<now, trigger, next, execution>>,
           Sound(q, trigger, next, execution, now)
    PROVE  SerialInv'
<1>1. /\ Numbered(execution)' /\ Explained(execution, trigger, now)'
      /\ Ordered(trigger, execution)' /\ Gapless(next, execution)'
  BY DEF SerialInv, Numbered, Explained, Ordered, Gapless, DoneIn
<1>2. Sound(q, trigger', next', execution', now')
  OBVIOUS
<1> QED
  BY <1>1, <1>2, SerialStep

\* The row at hand, of a pass that works on one.
LEMMA HandRow ==
    ASSUME SerialInv, NEW p \in Passes, pass[p].step \in Working
    PROVE  /\ pass[p].current \in Activation /\ At(p) \in Sources
           /\ pass[p].current = Key(At(p), IF At(p) \in Schedules THEN next[At(p)] ELSE Never)
           /\ \E e \in pass[p].todo : First(e, pass[p].todo) /\ e[1] = At(p)
           /\ At(p) \in ListedSources(pass[p]) /\ At(p) \notin Written(pass[p])
           /\ At(p) \in Triggers => trigger[At(p)] = "PENDING"
           /\ At(p) \in Schedules => next[At(p)] # Never /\ next[At(p)] <= now
<1>1. /\ pass[p] \in Pass /\ Listed(pass[p])
      /\ Waiting(pass[p], trigger, next, now) /\ AtHand(pass[p], next, execution)
  BY DEF SerialInv, TypeInv, TypeOK, Sound
<1>2. PICK e \in pass[p].todo : First(e, pass[p].todo) /\ e[1] = At(p)
  BY <1>1 DEF Listed, At
<1>3. e[2] \in Nat /\ At(p) \in ListedSources(pass[p])
  BY <1>1, <1>2 DEF Pass, ListedSources
<1>4. pass[p].current \in Activation
  BY <1>1 DEF Listed
<1>5. pass[p].current = Key(At(p), IF At(p) \in Schedules THEN next[At(p)] ELSE Never)
  BY <1>1, <1>4 DEF AtHand, At, Key, Activation
<1> QED
  BY <1>1, <1>2, <1>3, <1>4, <1>5, SchedulingAssumption DEF Waiting, At, Activation

\* An execution of a row that waits for one is done, unless its trigger failed.
LEMMA FoundDone ==
    ASSUME SerialInv, NEW x \in execution,
           x.key.source \in Triggers => trigger[x.key.source] # "FAILED"
    PROVE  DoneIn(execution, x.key)
<1>1. x \in Execution /\ Explained(execution, trigger, now)
  BY DEF SerialInv, TypeInv, TypeOK
<1>2. x.queued \/ x.status = "BLOCKED"
  BY <1>1 DEF Explained, Execution
<1> QED
  BY <1>2 DEF DoneIn

\* A pass that looks at a row.
LEMMA LookSerial ==
    ASSUME SerialInv, TypeInv', NEW p \in Passes, FindExecution(p) \/ FindNone(p)
    PROVE  SerialInv'
<1> DEFINE q == pass[p]
<1>1. PICK e \in q.todo : First(e, q.todo) /\
          \/ \E x \in Known(p, KeyOf(p, e)) :
                 pass' = [pass EXCEPT ![p] = Marked(q, e[1], x.id, Seen(p, e))]
          \/ /\ Known(p, KeyOf(p, e)) = {}
             /\ pass' = [pass EXCEPT ![p] = [q EXCEPT !.step = "insert",
                                                      !.current = KeyOf(p, e)]]
  BY DEF FindExecution, FindNone, SerialInv, TypeInv, TypeOK
<1>2. /\ q \in Pass /\ q # Idle /\ q.step = "look"
      /\ Sound(q, trigger, next, execution, now)
      /\ UNCHANGED <<now, trigger, next, execution>>
  BY DEF FindExecution, FindNone, SerialInv, TypeInv, TypeOK, Idle
<1>3. /\ Waiting(q, trigger, next, now) /\ Earned(q, trigger, next, execution)
      /\ Sorted(q, trigger) /\ Flushed(q, execution)
  BY <1>2 DEF Sound
<1>4. /\ e[1] \in Sources /\ e[2] \in Nat /\ e[1] \in ListedSources(q)
      /\ e[1] \notin Written(q)
      /\ e[1] \in Triggers => trigger[e[1]] = "PENDING"
  BY <1>2, <1>3 DEF Pass, ListedSources, Waiting
<1>5. e[1] \in Schedules => Seen(p, e) = next[e[1]] /\ next[e[1]] # Never
  BY <1>3, <1>4, SchedulingAssumption DEF Waiting, Seen
<1>6. /\ KeyOf(p, e).source = e[1]
      /\ KeyOf(p, e) = Key(e[1], IF e[1] \in Schedules THEN next[e[1]] ELSE Never)
  BY <1>5 DEF KeyOf, Key
<1>7. \A x \in q.fresh : x.key # KeyOf(p, e)
  BY <1>2, <1>3, <1>4, <1>6 DEF Flushed, Written
<1>8. CASE \E x \in Known(p, KeyOf(p, e)) :
              pass' = [pass EXCEPT ![p] = Marked(q, e[1], x.id, Seen(p, e))]
  <2>1. PICK x \in Known(p, KeyOf(p, e)) :
            pass' = [pass EXCEPT ![p] = Marked(q, e[1], x.id, Seen(p, e))]
    BY <1>8
  <2>2. x \in execution /\ x.key = KeyOf(p, e)
    BY <1>7, <2>1 DEF Known
  <2>3. DoneIn(execution, KeyOf(p, e))
    BY <1>4, <1>6, <2>2, FoundDone
  <2>4. /\ e[1] \in Triggers => DoneIn(execution, Key(e[1], Never))
        /\ e[1] \in Schedules => /\ next[e[1]] # Never /\ Seen(p, e) = next[e[1]]
                                 /\ DoneIn(execution, Key(e[1], Seen(p, e)))
    BY <1>5, <1>6, <2>3, SchedulingAssumption
  <2>5. Sound(Marked(q, e[1], x.id, Seen(p, e)), trigger, next, execution, now)
    BY <1>1, <1>2, <1>3, <2>4, MarkedSound
  <2> QED
    BY <1>2, <2>1, <2>5, PassStep
<1>9. CASE /\ Known(p, KeyOf(p, e)) = {}
           /\ pass' = [pass EXCEPT ![p] = [q EXCEPT !.step = "insert",
                                                    !.current = KeyOf(p, e)]]
  <2> DEFINE n == [q EXCEPT !.step = "insert", !.current = KeyOf(p, e)]
  <2>1. /\ n.step = "insert" /\ n.current = KeyOf(p, e) /\ n.todo = q.todo
        /\ n.fresh = q.fresh /\ n.failed = q.failed /\ n.done = q.done /\ n.moved = q.moved
    BY <1>2 DEF Pass
  <2> HIDE DEF n
  <2>2. ListedSources(n) = ListedSources(q) /\ Written(n) = Written(q)
    BY <2>1 DEF ListedSources, Written
  <2>3. Waiting(n, trigger, next, now) /\ Earned(n, trigger, next, execution)
    BY <1>3, <2>1, <2>2 DEF Waiting, Earned
  <2>4. Sorted(n, trigger) /\ Flushed(n, execution)
    BY <1>2, <1>3, <2>1, <2>2 DEF Sorted, Flushed
  <2>5. AtHand(n, next, execution)
    <3>1. n.current.at = IF n.current.source \in Schedules THEN next[n.current.source]
                         ELSE Never
      BY <1>6, <2>1 DEF Key
    <3>2. \A f \in execution : f.key # n.current
      BY <1>9, <2>1 DEF Known
    <3> QED
      BY <3>1, <3>2 DEF AtHand
  <2>6. Sound(n, trigger, next, execution, now)
    BY <2>3, <2>4, <2>5 DEF Sound
  <2> QED
    BY <1>2, <1>9, <2>6, PassStep DEF n
<1> QED
  BY <1>1, <1>8, <1>9

\* A pass that inserts the execution.
LEMMA InsertSerial ==
    ASSUME SerialInv, TypeInv', NEW p \in Passes, InsertExecution(p)
    PROVE  SerialInv'
<1> DEFINE q == pass[p]
           row == [id |-> Cardinality(execution) + 1, key |-> q.current,
                   status |-> "RUNNING", queued |-> FALSE]
           n == [q EXCEPT !.step = "steps", !.fresh = {row}]
<1>1. /\ q \in Pass /\ q # Idle /\ q.step = "insert"
      /\ Sound(q, trigger, next, execution, now)
      /\ UNCHANGED <<now, trigger, next, execution>>
  BY DEF InsertExecution, SerialInv, TypeInv, TypeOK, Idle
<1>2. q.fresh = {}
  BY <1>1 DEF InsertExecution, Pending, Sound, Flushed
<1>3. pass' = [pass EXCEPT ![p] = n]
  BY <1>2 DEF InsertExecution, SerialInv, TypeInv, TypeOK
<1> HIDE DEF row
<1>4. /\ n.step = "steps" /\ n.current = q.current /\ n.todo = q.todo /\ n.fresh = {row}
      /\ n.failed = q.failed /\ n.done = q.done /\ n.moved = q.moved
  BY <1>1 DEF Pass
<1> HIDE DEF n
<1>5. ListedSources(n) = ListedSources(q) /\ Written(n) = Written(q)
  BY <1>4 DEF ListedSources, Written
<1>6. /\ Waiting(n, trigger, next, now) /\ Earned(n, trigger, next, execution)
      /\ Sorted(n, trigger)
  BY <1>1, <1>4, <1>5 DEF Sound, Waiting, Earned, Sorted
<1>7. AtHand(n, next, execution)
  BY <1>1, <1>4 DEF Sound, AtHand, Working
<1>8. Flushed(n, execution)
  <2>1. \A f \in execution : f.key # q.current
    BY <1>1 DEF Sound, AtHand, Working
  <2> QED
    BY <1>4, <2>1 DEF Flushed, row
<1> QED
  BY <1>1, <1>3, <1>6, <1>7, <1>8, PassStep DEF Sound

\* What is left of a pass after a commit.
LEMMA RenewedSound ==
    ASSUME SerialInv, NEW p \in Passes, NEW rows, Committed(p, rows),
           DoneKept(execution, execution')
    PROVE  LET n == Renewed(pass[p]) IN
           /\ n \in Pass /\ n.step = pass[p].step /\ n.fresh = {}
           /\ n.todo = pass[p].todo /\ n.current = pass[p].current
           /\ Waiting(n, trigger', next', now') /\ Earned(n, trigger', next', execution')
           /\ Sorted(n, trigger') /\ Flushed(n, execution')
<1> DEFINE n == Renewed(pass[p])
<1>1. pass[p] \in Pass
  BY DEF SerialInv, TypeInv, TypeOK
<1>2. /\ n \in Pass /\ n.step = pass[p].step /\ n.fresh = {} /\ n.failed = {} /\ n.done = {}
      /\ n.moved = {} /\ n.todo = pass[p].todo /\ n.current = pass[p].current
  BY <1>1 DEF Renewed, Pass
<1>3. Waiting(n, trigger', next', now') /\ Sorted(n, trigger')
  BY TablesCommitted
<1> HIDE DEF n
<1>4. Earned(n, trigger', next', execution') /\ Flushed(n, execution')
  BY <1>2 DEF Earned, Flushed
<1> QED
  BY <1>2, <1>3, <1>4 DEF n

\* What stands in the table after a commit of the row at hand, new or not.
LEMMA RowCommitted ==
    ASSUME SerialInv, NEW p \in Passes, NEW e, NEW f,
           \/ e \in Fresh(p) /\ pass[p].step = "steps"
           \/ e \in execution /\ e.key = pass[p].current /\ pass[p].step = "finish",
           f.id = e.id, f.key = e.key, f.queued \/ f.status = "BLOCKED",
           Committed(p, (pass[p].fresh \ {e}) \cup {f})
    PROVE  /\ Numbered(execution)' /\ DoneKept(execution, execution')
           /\ DoneIn(execution', pass[p].current)
           /\ \A g \in execution' : g = f \/ g \in execution
<1> DEFINE rows == (pass[p].fresh \ {e}) \cup {f}
<1>1. /\ Numbered(execution) /\ Flushed(pass[p], execution)
  BY DEF SerialInv, Sound
<1>2. execution' = {g \in execution : \A r \in rows : r.id # g.id} \cup rows
  BY DEF Committed
<1>3. CASE e \in Fresh(p) /\ pass[p].step = "steps"
  <2>1. /\ pass[p].fresh \ {e} = {} /\ e.key = pass[p].current
        /\ e.id = Cardinality(execution) + 1 /\ \A g \in execution : g.key # e.key
    BY <1>1, <1>3 DEF Fresh, Flushed
  <2>2. execution' = execution \cup {f} /\ Numbered(execution \cup {f})
    <3>1. {g \in execution : g.id # f.id} = execution /\ Numbered(execution \cup {f})
      BY <1>1, <2>1, AddRow
    <3>2. rows = {f}
      BY <2>1
    <3> QED
      BY <1>2, <3>1, <3>2
  <2>3. Numbered(execution)'
    BY <2>2
  <2> QED
    BY <2>1, <2>2, <2>3 DEF DoneKept, DoneIn
<1>4. CASE e \in execution /\ e.key = pass[p].current /\ pass[p].step = "finish"
  <2>1. pass[p].fresh = {}
    BY <1>1, <1>4 DEF Flushed
  <2>2. execution' = (execution \ {e}) \cup {f} /\ Numbered((execution \ {e}) \cup {f})
    <3>1. /\ {g \in execution : g.id # f.id} = execution \ {e}
          /\ Numbered((execution \ {e}) \cup {f})
      BY <1>1, <1>4, ReplaceRow
    <3>2. rows = {f}
      BY <2>1
    <3> QED
      BY <1>2, <3>1, <3>2
  <2>3. Numbered(execution)'
    BY <2>2
  <2> QED
    BY <1>4, <2>2, <2>3 DEF DoneKept, DoneIn
<1> QED
  BY <1>3, <1>4

\* What the statuses say after a commit of the row at hand.
LEMMA ExplainedCommitted ==
    ASSUME SerialInv, NEW p \in Passes, NEW rows, Committed(p, rows),
           DoneKept(execution, execution'), NEW f, f.key = pass[p].current,
           f.queued \/ f.status = "BLOCKED", pass[p].step \in Working,
           \A g \in execution' : g = f \/ g \in execution
    PROVE  Explained(execution, trigger, now)'
<1>1. ASSUME NEW t \in Triggers, trigger[t] = "FAILED"
      PROVE  trigger'[t] = "FAILED"
  BY <1>1, TablesCommitted
<1>2. now' = now /\ Explained(execution, trigger, now)
  BY DEF Committed, SerialInv
<1>3. /\ f.key.source = At(p)
      /\ f.key.source \in Schedules => f.key.at # Never /\ f.key.at <= now
  <2>1. /\ f.key = Key(At(p), IF At(p) \in Schedules THEN next[At(p)] ELSE Never)
        /\ At(p) \in Schedules => next[At(p)] # Never /\ next[At(p)] <= now
    BY HandRow
  <2> QED
    BY <2>1 DEF Key
<1>4. ASSUME NEW g \in execution'
      PROVE  /\ g.status = "COMPLETED" => g.queued
             /\ g.status = "RUNNING" /\ ~g.queued =>
                   g.key.source \in Triggers /\ trigger'[g.key.source] = "FAILED"
             /\ g.key.source \in Schedules => g.key.at # Never /\ g.key.at <= now'
  <2>1. CASE g = f
    BY <1>2, <1>3, <2>1
  <2>2. CASE g \in execution
    BY <1>1, <1>2, <2>2 DEF Explained
  <2> QED
    BY <1>4, <2>1, <2>2
<1> QED
  BY <1>4 DEF Explained

\* The commit that ends an execution, and what the loop writes next.
LEMMA EndSerial ==
    ASSUME SerialInv, TypeInv', NEW p \in Passes, NEW e, NEW status,
           \/ e \in Fresh(p) /\ pass[p].step = "steps" /\ status = "BLOCKED"
           \/ /\ e \in execution /\ e.key = pass[p].current /\ pass[p].step = "finish"
              /\ e.queued,
           EndExecution(p, e, status)
    PROVE  SerialInv'
<1> DEFINE f == [e EXCEPT !.status = status]
           rows == (pass[p].fresh \ {e}) \cup {f}
           at == IF At(p) \in Schedules THEN next[At(p)] ELSE 0
           n == Renewed(pass[p])
<1>1. pass[p] \in Pass /\ pass[p] # Idle /\ pass[p].step \in Working
  BY DEF SerialInv, TypeInv, TypeOK, Idle, Working
<1>2. e \in Execution /\ e.key = pass[p].current
  BY <1>1 DEF Fresh, Pass, SerialInv, TypeInv, TypeOK
<1>3. f.id = e.id /\ f.key = e.key /\ (f.queued \/ f.status = "BLOCKED")
  BY <1>2 DEF Execution
<1>4. Committed(p, rows) /\ pass' = [pass EXCEPT ![p] = Marked(n, At(p), e.id, at)]
  BY DEF EndExecution, SerialInv, TypeInv, TypeOK
<1> HIDE DEF f, at
<1>5. /\ Numbered(execution)' /\ DoneKept(execution, execution')
      /\ DoneIn(execution', pass[p].current)
      /\ \A g \in execution' : g = f \/ g \in execution
  BY <1>3, <1>4, RowCommitted
<1> HIDE DEF rows
<1>6. Explained(execution, trigger, now)'
  BY <1>1, <1>2, <1>3, <1>4, <1>5, ExplainedCommitted
<1>7. /\ Ordered(trigger, execution)' /\ Gapless(next, execution)'
      /\ \A s \in Schedules : s \notin Written(pass[p]) => next'[s] = next[s]
  BY <1>4, <1>5, TablesCommitted
<1>8. /\ n \in Pass /\ n.fresh = {} /\ n.todo = pass[p].todo
      /\ Waiting(n, trigger', next', now') /\ Earned(n, trigger', next', execution')
      /\ Sorted(n, trigger') /\ Flushed(n, execution')
  BY <1>4, <1>5, RenewedSound
<1> HIDE DEF n
<1>9. PICK d \in n.todo : First(d, n.todo) /\ d[1] = At(p)
  BY <1>1, <1>8, HandRow
<1>10. /\ d[1] \in Triggers => DoneIn(execution', Key(d[1], Never))
       /\ d[1] \in Schedules => /\ next'[d[1]] # Never /\ at = next'[d[1]]
                                /\ DoneIn(execution', Key(d[1], at))
  BY <1>1, <1>5, <1>7, <1>9, HandRow, SchedulingAssumption DEF at
<1>11. Sound(Marked(n, At(p), e.id, at), trigger', next', execution', now')
  BY <1>8, <1>9, <1>10, MarkedSound
<1> QED
  BY <1>1, <1>4, <1>5, <1>6, <1>7, <1>11, SerialStep

\* The commit inside create_automation_job.
LEMMA QueueSerial ==
    ASSUME SerialInv, TypeInv', NEW p \in Passes, QueueJob(p)
    PROVE  SerialInv'
<1> DEFINE n == Renewed(pass[p])
           m == [n EXCEPT !.step = "finish"]
<1>1. PICK e \in Fresh(p) :
          Committed(p, (pass[p].fresh \ {e}) \cup {[e EXCEPT !.queued = TRUE]})
  BY DEF QueueJob
<1>2. /\ pass[p] \in Pass /\ pass[p] # Idle /\ pass[p].step = "steps"
      /\ pass' = [pass EXCEPT ![p] = m]
  BY DEF QueueJob, SerialInv, TypeInv, TypeOK, Idle
<1> DEFINE f == [e EXCEPT !.queued = TRUE]
           rows == (pass[p].fresh \ {e}) \cup {f}
<1>3. e \in Execution /\ e.key = pass[p].current
  BY <1>2 DEF Fresh, Pass
<1>4. f.id = e.id /\ f.key = e.key /\ f.queued /\ Committed(p, rows)
  BY <1>1, <1>3 DEF Execution
<1> HIDE DEF f
<1>5. /\ Numbered(execution)' /\ DoneKept(execution, execution')
      /\ \A g \in execution' : g = f \/ g \in execution
  BY <1>2, <1>4, RowCommitted
<1> HIDE DEF rows
<1>6. Explained(execution, trigger, now)'
  BY <1>2, <1>3, <1>4, <1>5, ExplainedCommitted DEF Working
<1>7. /\ Ordered(trigger, execution)' /\ Gapless(next, execution)'
      /\ \A s \in Schedules : s \notin Written(pass[p]) => next'[s] = next[s]
  BY <1>4, <1>5, TablesCommitted
<1>8. /\ n \in Pass /\ n.fresh = {} /\ n.current = pass[p].current
      /\ Waiting(n, trigger', next', now') /\ Earned(n, trigger', next', execution')
      /\ Sorted(n, trigger')
  BY <1>4, <1>5, RenewedSound
<1> HIDE DEF n
<1>9. /\ m.step = "finish" /\ m.fresh = {} /\ m.current = pass[p].current
      /\ m.todo = n.todo /\ m.failed = n.failed /\ m.done = n.done /\ m.moved = n.moved
  BY <1>8 DEF Pass
<1> HIDE DEF m
<1>10. ListedSources(m) = ListedSources(n) /\ Written(m) = Written(n)
  BY <1>9 DEF ListedSources, Written
<1>11. /\ Waiting(m, trigger', next', now') /\ Earned(m, trigger', next', execution')
       /\ Sorted(m, trigger') /\ Flushed(m, execution')
  BY <1>8, <1>9, <1>10 DEF Waiting, Earned, Sorted, Flushed
<1>12. AtHand(m, next', execution')
  <2>1. /\ pass[p].current.source = At(p)
        /\ pass[p].current.at = IF At(p) \in Schedules THEN next[At(p)] ELSE Never
        /\ At(p) \notin Written(pass[p])
    <3>1. /\ pass[p].current = Key(At(p), IF At(p) \in Schedules THEN next[At(p)] ELSE Never)
          /\ At(p) \notin Written(pass[p])
      BY <1>2, HandRow DEF Working
    <3> QED
      BY <3>1 DEF Key, At
  <2> QED
    BY <1>7, <1>9, <2>1 DEF AtHand, At
<1>13. Sound(m, trigger', next', execution', now')
  BY <1>11, <1>12 DEF Sound
<1> QED
  BY <1>2, <1>5, <1>6, <1>7, <1>13, SerialStep

\* A trigger whose queue refuses: nothing is committed, and its row stays flushed.
LEMMA FailSerial ==
    ASSUME SerialInv, TypeInv', NEW p \in Passes, FailTrigger(p)
    PROVE  SerialInv'
<1> DEFINE q == pass[p]
           x == At(p)
           n == [q EXCEPT !.step = "look", !.current = NoSource,
                          !.failed = q.failed \cup {x}, !.todo = {e \in q.todo : e[1] # x}]
<1>1. /\ q \in Pass /\ q # Idle /\ q.step = "steps" /\ q.kind = "triggers" /\ Listed(q)
      /\ Waiting(q, trigger, next, now) /\ Earned(q, trigger, next, execution)
      /\ Sorted(q, trigger) /\ Flushed(q, execution)
      /\ UNCHANGED <<now, trigger, next, execution>> /\ pass' = [pass EXCEPT ![p] = n]
  <2>1. UNCHANGED <<now, trigger, next, execution>> /\ pass' = [pass EXCEPT ![p] = n]
    BY DEF FailTrigger, SerialInv, TypeInv, TypeOK
  <2>2. q.step = "steps" /\ q.kind = "triggers"
    BY DEF FailTrigger, Refused
  <2>3. q \in Pass /\ q # Idle /\ Listed(q)
    BY <2>2 DEF SerialInv, TypeInv, TypeOK, Idle
  <2> QED
    BY <2>1, <2>2, <2>3 DEF SerialInv, Sound
<1>2. PICK e \in q.todo : First(e, q.todo) /\ e[1] = x
  BY <1>1, HandRow DEF Working
<1>3. x \in Triggers /\ trigger[x] = "PENDING"
  BY <1>1, <1>2, HandRow DEF Listed, Working
<1>4. /\ n.step = "look" /\ n.todo = {f \in q.todo : f[1] # x} /\ n.fresh = q.fresh
      /\ n.failed = q.failed \cup {x} /\ n.done = q.done /\ n.moved = q.moved
  BY <1>1 DEF Pass
<1>5. q.current.source = x
  BY DEF At
<1> HIDE DEF n, x
<1>6. ListedSources(n) = ListedSources(q) \ {x} /\ Written(n) = Written(q) \cup {x}
  BY <1>4 DEF ListedSources, Written
<1>7. Waiting(n, trigger, next, now) /\ Earned(n, trigger, next, execution)
  BY <1>1, <1>3, <1>4, <1>6 DEF Waiting, Earned
<1>8. Sorted(n, trigger)
  BY <1>1, <1>2, <1>6, SortedStep
<1>9. Flushed(n, execution) /\ AtHand(n, next, execution)
  BY <1>1, <1>4, <1>5 DEF Flushed, AtHand, Working
<1> QED
  BY <1>1, <1>7, <1>8, <1>9, PassStep DEF Sound

\* The end of a pass: what is flushed is the execution of a trigger that failed.
LEMMA EndPassSerial ==
    ASSUME SerialInv, TypeInv', NEW p \in Passes, EndPass(p)
    PROVE  SerialInv'
<1> DEFINE q == pass[p]
<1>1. /\ q \in Pass /\ q # Idle /\ q.step = "look" /\ Committed(p, q.fresh)
      /\ Flushed(q, execution) /\ Numbered(execution) /\ Explained(execution, trigger, now)
      /\ now' = now /\ pass' = [pass EXCEPT ![p] = Idle]
  BY DEF EndPass, Committed, SerialInv, TypeInv, TypeOK, Idle, Sound
<1>2. execution' = {g \in execution : \A r \in q.fresh : r.id # g.id} \cup q.fresh
  BY <1>1 DEF Committed
<1>3. Numbered(execution)' /\ execution' = execution \cup q.fresh
  <2>1. CASE q.fresh = {}
    BY <1>1, <1>2, <2>1
  <2>2. CASE q.fresh # {}
    <3>1. PICK f \in q.fresh : q.fresh = {f}
      BY <1>1, <2>2 DEF Flushed
    <3>2. f.id = Cardinality(execution) + 1 /\ \A g \in execution : g.key # f.key
      BY <1>1, <3>1 DEF Flushed
    <3>3. {g \in execution : g.id # f.id} = execution /\ Numbered(execution \cup {f})
      BY <1>1, <3>2, AddRow
    <3>4. execution' = execution \cup {f}
      BY <1>2, <3>1, <3>3
    <3> QED
      BY <3>1, <3>3, <3>4
  <2> QED
    BY <2>1, <2>2
<1>4. DoneKept(execution, execution')
  BY <1>3 DEF DoneKept, DoneIn
<1>5. /\ Ordered(trigger, execution)' /\ Gapless(next, execution)'
      /\ \A t \in Triggers : t \in q.failed \/ trigger[t] = "FAILED" => trigger'[t] = "FAILED"
  BY <1>1, <1>4, TablesCommitted
<1>6. ASSUME NEW g \in execution'
      PROVE  /\ g.status = "COMPLETED" => g.queued
             /\ g.status = "RUNNING" /\ ~g.queued =>
                   g.key.source \in Triggers /\ trigger'[g.key.source] = "FAILED"
             /\ g.key.source \in Schedules => g.key.at # Never /\ g.key.at <= now'
  <2>1. CASE g \in q.fresh
    <3>1. g.status = "RUNNING" /\ g.key.source \in q.failed
      BY <1>1, <2>1 DEF Flushed
    <3>2. g.key.source \in Triggers
      BY <1>1, <3>1 DEF Pass
    <3> QED
      BY <1>5, <3>1, <3>2, SchedulingAssumption
  <2>2. CASE g \in execution
    BY <1>1, <1>5, <2>2 DEF Explained
  <2> QED
    BY <1>3, <1>6, <2>1, <2>2
<1>7. Explained(execution, trigger, now)'
  BY <1>6 DEF Explained
<1> QED
  BY <1>1, <1>3, <1>5, <1>7, IdleSound, SerialStep

\* A pass that is given up.
LEMMA AbortSerial ==
    ASSUME SerialInv, TypeInv', NEW p \in Passes, Abort(p), pass[p] # Idle
    PROVE  SerialInv'
  BY IdleSound, PassStep DEF Abort

\* A pass begins.
LEMMA BeginSerial ==
    ASSUME "overlap" \notin Faults, SerialInv, TypeInv', NEW p \in Passes,
           StartTriggers(p) \/ StartSchedules(p) \/ \E w \in Workflows : StartDirect(p, w)
    PROVE  SerialInv'
<1>1. PICK kind, todo :
          /\ Begin(p, kind, todo)
          /\ \A e \in todo :
                /\ e[1] \in Triggers => e[2] = 0 /\ trigger[e[1]] = "PENDING"
                /\ e[1] \in Schedules => e[2] = next[e[1]] /\ e[2] <= now
          /\ (\A e \in todo : e[1] \notin Triggers)
             \/ \A t \in Triggers : trigger[t] = "PENDING" => <<t, 0>> \in todo
  <2>1. CASE StartTriggers(p)
    BY <2>1, SchedulingAssumption DEF StartTriggers
  <2>2. CASE StartSchedules(p)
    BY <2>2, SchedulingAssumption DEF StartSchedules
  <2>3. CASE \E w \in Workflows : StartDirect(p, w)
    <3>1. PICK w \in Workflows : StartDirect(p, w)
      BY <2>3
    <3>2. w \notin Triggers /\ w \notin Schedules
      BY SchedulingAssumption DEF Rows
    <3> QED
      BY <3>1, <3>2 DEF StartDirect
  <2> QED
    BY <2>1, <2>2, <2>3
<1> DEFINE q == [Idle EXCEPT !.kind = kind, !.step = "look", !.todo = todo]
<1>2. /\ pass' = [pass EXCEPT ![p] = q] /\ UNCHANGED <<now, trigger, next, execution>>
      /\ \A r \in Passes : pass[r] = Idle
  BY <1>1 DEF Begin, CanBegin
<1>3. /\ q.step = "look" /\ q.todo = todo /\ q.fresh = {} /\ q.failed = {} /\ q.done = {}
      /\ q.moved = {}
  BY DEF Idle
<1> HIDE DEF q
<1>4. Written(q) = {}
  BY <1>3 DEF Written
<1>5. Waiting(q, trigger, next, now) /\ Earned(q, trigger, next, execution)
  BY <1>1, <1>3, <1>4 DEF Waiting, Earned
<1>6. Sorted(q, trigger)
  <2>1. \A u \in Triggers : (\A e \in todo : e[1] \notin Triggers) => u \notin ListedSources(q)
    BY <1>3 DEF ListedSources
  <2>2. \A t \in Triggers : <<t, 0>> \in todo => t \in ListedSources(q)
    BY <1>3 DEF ListedSources
  <2> QED
    BY <1>1, <1>4, <2>1, <2>2 DEF Sorted
<1>7. Flushed(q, execution) /\ AtHand(q, next, execution)
  BY <1>3 DEF Flushed, AtHand, Working
<1> QED
  BY <1>2, <1>5, <1>6, <1>7, PassStep DEF Sound

\* Steps outside every pass.
LEMMA OutsideSerial ==
    ASSUME SerialInv, TypeInv', Tick \/ (\E t \in Triggers : CreateTrigger(t))
                                     \/ (\E q \in Queues : SetQueueStatus(q)) \/ UNCHANGED vars
    PROVE  SerialInv'
<1>1. UNCHANGED <<next, execution, pass>>
  BY DEF Tick, CreateTrigger, SetQueueStatus, vars
<1>2. /\ now' \in Nat /\ now \in Nat /\ now <= now'
      /\ execution \subseteq Execution /\ pass \in [Passes -> Pass]
  BY SchedulingAssumption
     DEF SerialInv, TypeInv, TypeOK, Times, Tick, CreateTrigger, SetQueueStatus, vars
<1>3. \A t \in Triggers :
          \/ trigger'[t] = trigger[t]
          \/ /\ trigger[t] = "ABSENT" /\ trigger'[t] = "PENDING"
             /\ \A u \in Triggers : u < t => trigger[u] # "ABSENT"
  BY DEF SerialInv, TypeInv, TypeOK, Tick, CreateTrigger, SetQueueStatus, vars
<1>4. ASSUME NEW p \in Passes
      PROVE  Sound(pass[p], trigger', next, execution, now')
  <2> DEFINE q == pass[p]
  <2>1. /\ Waiting(q, trigger, next, now) /\ Earned(q, trigger, next, execution)
        /\ Sorted(q, trigger) /\ Flushed(q, execution) /\ AtHand(q, next, execution)
        /\ Ordered(trigger, execution) /\ q \in Pass
    BY <1>2 DEF SerialInv, Sound
  <2>2. Waiting(q, trigger', next, now')
    <3>1. ASSUME NEW e \in q.todo, e[1] \in Schedules, e[2] <= now
          PROVE  e[2] <= now'
      BY <1>2, <2>1, <3>1 DEF Pass
    <3> QED
      BY <1>3, <2>1, <3>1 DEF Waiting
  <2>3. Earned(q, trigger', next, execution)
    BY <1>3, <2>1 DEF Earned, Pass
  <2>4. ASSUME NEW u \in Triggers, u \in Written(q) \cup ListedSources(q)
        PROVE  trigger[u] = "PENDING"
    <3>1. \A m \in q.moved : m[1] # u
      BY <2>1, SchedulingAssumption DEF Pass
    <3> QED
      BY <2>1, <2>4, <3>1 DEF Written, ListedSources, Earned, Waiting
  <2>5. Sorted(q, trigger')
    <3> SUFFICES ASSUME NEW t \in Triggers, NEW u \in Triggers, t < u
                 PROVE  /\ u \in Written(q) => t \notin ListedSources(q)
                        /\ u \in Written(q) \cup ListedSources(q) /\ trigger'[t] = "PENDING"
                             => t \in Written(q) \cup ListedSources(q)
      BY DEF Sorted
    <3>1. u \in Written(q) \cup ListedSources(q) => trigger[t] # "ABSENT"
      BY <2>1, <2>4 DEF Ordered
    <3> QED
      BY <1>3, <2>1, <3>1 DEF Sorted
  <2> QED
    BY <2>1, <2>2, <2>3, <2>5 DEF Sound
<1>5. Ordered(trigger', execution)
  <2>1. Ordered(trigger, execution)
    BY DEF SerialInv
  <2>2. \A t \in Triggers : t \in Nat
    BY SchedulingAssumption DEF Rows
  <2> QED
    BY <1>3, <2>1, <2>2 DEF Ordered
<1>6. Explained(execution, trigger', now')
  <2>1. Explained(execution, trigger, now)
    BY DEF SerialInv
  <2>2. ASSUME NEW e \in execution, e.key.at # Never, e.key.at <= now
        PROVE  e.key.at <= now'
    <3>1. e.key.at \in Nat
      BY <1>2, <2>2 DEF Execution, Activation
    <3> QED
      BY <1>2, <2>2, <3>1
  <2> QED
    BY <1>3, <2>1, <2>2 DEF Explained
<1>7. /\ \A p, q \in Passes : p = q \/ pass[p] = Idle \/ pass[q] = Idle
      /\ Numbered(execution) /\ Gapless(next, execution)
  BY DEF SerialInv
<1> QED
  BY <1>1, <1>4, <1>5, <1>6, <1>7 DEF SerialInv

\* As long as passes do not overlap, every behaviour keeps the invariant.
THEOREM SerialInvariant ==
    ASSUME "overlap" \notin Faults
    PROVE  Spec => []SerialInv
<1>1. Init => SerialInv
  <2> SUFFICES ASSUME Init
               PROVE  SerialInv
    OBVIOUS
  <2>1. TypeInv
    BY IdleType, SchedulingAssumption DEF Init, TypeInv, TypeOK, Times, TriggerStatus, Rows
  <2>2. \A p \in Passes : pass[p] = Idle
    BY DEF Init
  <2>3. Numbered(execution) /\ Explained(execution, trigger, now)
    BY FS_EmptySet DEF Init, Numbered, Explained
  <2>4. Ordered(trigger, execution) /\ Gapless(next, execution)
    BY DEF Init, Ordered, Gapless
  <2> QED
    BY <2>1, <2>2, <2>3, <2>4, IdleSound DEF SerialInv
<1>2. ASSUME TypeInv, TypeInv', SerialInv, [Next]_vars
      PROVE  SerialInv'
  <2>1. ASSUME NEW p \in Passes, BlockExecution(p)
        PROVE  SerialInv'
    BY <1>2, <2>1, EndSerial DEF BlockExecution
  <2>2. ASSUME NEW p \in Passes, FinishExecution(p)
        PROVE  SerialInv'
    <3>1. PICK e \in execution : e.key = pass[p].current /\ e.status = "RUNNING"
                                 /\ EndExecution(p, e, "COMPLETED")
      BY <2>2 DEF FinishExecution
    <3>2. pass[p].step = "finish"
      BY <2>2 DEF FinishExecution
    <3>3. e.queued
      <4>1. e.key.source = At(p)
        BY <3>1 DEF At
      <4>2. At(p) \in Triggers => trigger[At(p)] = "PENDING"
        BY <1>2, <3>2, HandRow DEF Working
      <4> QED
        BY <1>2, <3>1, <4>1, <4>2 DEF SerialInv, Explained
    <3> QED
      BY <1>2, <3>1, <3>2, <3>3, EndSerial
  <2>3. ASSUME NEW p \in Passes,
               InsertCollides(p) \/ RefusePass(p) \/ HistoryCollides(p) \/ Crash(p)
        PROVE  SerialInv'
    <3>1. pass[p] # Idle /\ Abort(p)
      BY <2>3 DEF InsertCollides, RefusePass, Refused, HistoryCollides, Crash, Idle
    <3> QED
      BY <1>2, <3>1, AbortSerial
  <2>4. ASSUME NEW p \in Passes, Advance(p) \/ Crash(p)
        PROVE  SerialInv'
    BY <1>2, <2>1, <2>2, <2>3, <2>4, LookSerial, InsertSerial, QueueSerial, FailSerial,
       EndPassSerial
       DEF Advance
  <2> QED
    BY <1>2, <2>4, BeginSerial, OutsideSerial DEF Next
<1> QED
  BY <1>1, <1>2, TypeInvariant, PTL DEF Spec

-----------------------------------------------------------------------------
(* What follows                                                             *)

\* An activation is executed once, whatever dies or is refused, as long as
\* passes do not overlap.
THEOREM ExecutedOnceAlways ==
    ASSUME "overlap" \notin Faults
    PROVE  Spec => []ExecutedOnce
<1>1. SerialInv => ExecutedOnce
  BY DEF SerialInv, Numbered, ExecutedOnce
<1> QED
  BY <1>1, SerialInvariant, PTL

\* No trigger and no occurrence is passed over without its job or its block.
THEOREM NothingSkippedAlways ==
    ASSUME "overlap" \notin Faults
    PROVE  Spec => []NothingSkipped
<1>1. SerialInv => NothingSkipped
  <2> SUFFICES ASSUME SerialInv
               PROVE  NothingSkipped
    OBVIOUS
  <2>1. \A k : Done(k) <=> DoneIn(execution, k)
    BY DEF Done, DoneIn
  <2>2. \A t \in Triggers : trigger[t] = "PROCESSED" => Done(Key(t, Never))
    BY <2>1 DEF SerialInv, Ordered
  <2>3. ASSUME NEW s \in Schedules, NEW k \in Occurrences(s)
        PROVE  Done(Key(s, k))
    <3>1. Gapless(next, execution)
      BY DEF SerialInv
    <3>2. next[s] # FirstRun[s]
      BY <2>3 DEF Occurrences
    <3>3. CASE s \in OneTime
      <4>1. k = FirstRun[s]
        BY <2>3, <3>2, <3>3 DEF Occurrences
      <4> QED
        BY <2>1, <3>1, <3>2, <3>3, <4>1 DEF Gapless
    <3>4. CASE s \notin OneTime
      <4>1. k \in FirstRun[s]..(next[s] - 1) /\ (k - FirstRun[s]) % Interval[s] = 0
        BY <2>3, <3>2, <3>4 DEF Occurrences
      <4> QED
        BY <2>1, <3>1, <3>2, <3>4, <4>1 DEF Gapless
    <3> QED
      BY <3>3, <3>4
  <2> QED
    BY <2>2, <2>3 DEF NothingSkipped
<1> QED
  BY <1>1, SerialInvariant, PTL

\* Pending triggers are processed in the order in which they were made.
THEOREM InOrderAlways ==
    ASSUME "overlap" \notin Faults
    PROVE  Spec => []InOrder
<1>1. SerialInv => InOrder
  BY DEF SerialInv, Ordered, InOrder
<1> QED
  BY <1>1, SerialInvariant, PTL

\* No occurrence is executed before its time.
THEOREM NotEarlyAlways ==
    ASSUME "overlap" \notin Faults
    PROVE  Spec => []NotEarly
<1>1. SerialInv => NotEarly
  BY DEF SerialInv, Explained, NotEarly
<1> QED
  BY <1>1, SerialInvariant, PTL

\* What is left RUNNING was left by a dead pass or a refused trigger.
THEOREM LeftRunningExplained ==
    ASSUME "overlap" \notin Faults
    PROVE  Spec => []LeftRunningIsExplained
<1>1. SerialInv => LeftRunningIsExplained
  BY DEF SerialInv, Explained, LeftRunningIsExplained, Pending
<1> QED
  BY <1>1, SerialInvariant, PTL

=============================================================================
