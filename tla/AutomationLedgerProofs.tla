----------------------- MODULE AutomationLedgerProofs -----------------------
(***************************************************************************)
(* What the job table accounts for, whatever goes wrong.  The whole P41    *)
(* runtime implements the job lifecycle of JobLifecycle: every step maps   *)
(* to one step of the lifecycle or to a stutter.  The attempts of a job    *)
(* are the runs that ended badly.  And a running job has its run even when *)
(* requests commit between the reads and the commits of others.            *)
(***************************************************************************)
EXTENDS AutomationSafetyProofs, AutomationRaces

\* What PhaseOf's CASE says of each status the code writes.
LEMMA PhaseValues ==
    /\ PhaseOf("ABSENT") = "unborn"
    /\ PhaseOf("QUEUED") = "parked"
    /\ PhaseOf("AVAILABLE") = "open"
    /\ PhaseOf("RESERVED") = "held"
    /\ PhaseOf("RUNNING") = "held"
    /\ PhaseOf("COMPLETED") = "done"
    /\ PhaseOf("FAILED") = "failed"
    /\ PhaseOf("DEAD_LETTER") = "buried"
  BY DEF PhaseOf, Owned

\* A row that does not exist has used nothing up.
AbsentUncharged == \A j \in Jobs : job[j].status = "ABSENT" => job[j].attempts = 0

\* A row that is not there has no attempt charged: no step charges before it
\* creates.
LEMMA AbsentStep ==
    TypeInv /\ AbsentUncharged /\ [Next]_vars => AbsentUncharged'
<1> SUFFICES ASSUME TypeInv, AbsentUncharged, [Next]_vars, NEW j \in Jobs
             PROVE  job'[j].status = "ABSENT" => job'[j].attempts = 0
  BY DEF AbsentUncharged
<1>1. RowStep(j, job[j], job'[j])
  BY RowSteps
<1> QED
  BY <1>1 DEF RowStep, AbsentUncharged

\* An empty job table is a lifecycle in which no job is born.
LEMMA LifecycleInit ==
    Init => Lifecycle!Init
<1> SUFFICES ASSUME Init PROVE Lifecycle!Init
  OBVIOUS
<1>1. job = [j \in Jobs |-> AbsentJob]
  BY DEF Init, WorkersInit, JobsInit
<1>2. AbsentJob.status = "ABSENT" /\ AbsentJob.attempts = 0
  BY DEF AbsentJob
<1> QED
  BY <1>1, <1>2, PhaseValues DEF Lifecycle!Init

-----------------------------------------------------------------------------
(* A change of one job is a turn of that job, and a sweep takes jobs back.  *)

\* A step that changes one job turns that job's phase, or keeps it.
LEMMA OneTurn ==
    ASSUME NEW j \in Jobs, OneJob(j)
    PROVE  Lifecycle!Turn(j, PhaseOf(job[j].status), PhaseOf(job'[j].status))
<1>1. \A k \in Jobs \ {j} : job'[k] = job[k]
  BY DEF OneJob
<1> QED
  BY <1>1 DEF Lifecycle!Turn

\* A step that changes one job and keeps its count keeps every count.
LEMMA ChargeKept ==
    ASSUME NEW j \in Jobs, OneJob(j), job'[j].attempts = job[j].attempts
    PROVE  [k \in Jobs |-> job[k].attempts]' = [k \in Jobs |-> job[k].attempts]
  BY DEF OneJob

\* A step that changes one job maps to an action of the lifecycle or to a
\* stutter: one case per way RowStep allows.
LEMMA OneJobStep ==
    ASSUME AbsentUncharged, NEW j \in Jobs, OneJob(j)
    PROVE  [Lifecycle!Next]_(Lifecycle!abstractVars)
<1> DEFINE from == job[j].status
           to == job'[j].status
<1>1. Lifecycle!Turn(j, PhaseOf(from), PhaseOf(to))
  BY OneTurn
<1>2. RowStep(j, job[j], job'[j])
  BY DEF OneJob
<1>3. CASE job'[j] = job[j]
  <2>1. \A k \in Jobs : job'[k] = job[k]
    BY <1>3 DEF OneJob
  <2> QED
    BY <2>1 DEF Lifecycle!abstractVars
<1>4. CASE from = "ABSENT" /\ to = "QUEUED" /\ job'[j].attempts = job[j].attempts
  BY <1>1, <1>4, PhaseValues, ChargeKept DEF Lifecycle!Next, Lifecycle!Park
<1>5. CASE from = "ABSENT" /\ to = "AVAILABLE" /\ job'[j].attempts = job[j].attempts
  BY <1>1, <1>5, PhaseValues, ChargeKept DEF Lifecycle!Next, Lifecycle!Offer
<1>6. CASE from = "AVAILABLE" /\ to = "RESERVED" /\ job'[j].attempts = job[j].attempts
  BY <1>1, <1>6, PhaseValues, ChargeKept DEF Lifecycle!Next, Lifecycle!Claim
<1>7. CASE /\ <<from, to>> \in {<<"AVAILABLE", "AVAILABLE">>, <<"RESERVED", "RUNNING">>}
           /\ job'[j].attempts = job[j].attempts
  <2>1. \A k \in Jobs : /\ PhaseOf(job'[k].status) = PhaseOf(job[k].status)
                        /\ job'[k].attempts = job[k].attempts
    BY <1>7, PhaseValues DEF OneJob
  <2> QED
    BY <2>1 DEF Lifecycle!abstractVars
<1>8. CASE from = "FAILED" /\ to = "DEAD_LETTER" /\ job'[j].attempts = job[j].attempts
  BY <1>1, <1>8, PhaseValues, ChargeKept DEF Lifecycle!Next, Lifecycle!Bury
<1>9. CASE /\ from = "FAILED" /\ to = "AVAILABLE" /\ job'[j].attempts = job[j].attempts
           /\ job[j].attempts < MaxAttempts[j]
  BY <1>1, <1>9, PhaseValues, ChargeKept DEF Lifecycle!Next, Lifecycle!Retry
<1>10. CASE from \in Owned /\ to = "COMPLETED" /\ job'[j].attempts = job[j].attempts
  BY <1>1, <1>10, PhaseValues, ChargeKept DEF Lifecycle!Next, Lifecycle!Succeed, Owned
<1>11. CASE from \in Owned /\ to = "AVAILABLE" /\ job'[j].attempts = job[j].attempts
  <2>1. Lifecycle!TakeBack({j})
    <3>1. \A k \in Jobs \ {j} : job'[k] = job[k]
      BY DEF OneJob
    <3>2. PhaseOf(from) = "held" /\ PhaseOf(to) = "open"
      BY <1>11, PhaseValues DEF Owned
    <3> QED
      BY <1>11, <3>1, <3>2, ChargeKept DEF Lifecycle!TakeBack
  <2> QED
    BY <2>1 DEF Lifecycle!Next
<1>12. CASE from \in Owned /\ to = "FAILED" /\ job'[j].attempts = job[j].attempts + 1
  <2>1. [k \in Jobs |-> job'[k].attempts] =
           [[k \in Jobs |-> job[k].attempts] EXCEPT ![j] = @ + 1]
    <3>1. \A k \in Jobs \ {j} : job'[k].attempts = job[k].attempts
      BY DEF OneJob
    <3> QED
      BY <1>12, <3>1
  <2>2. PhaseOf(from) = "held" /\ PhaseOf(to) = "failed"
    BY <1>12, PhaseValues DEF Owned
  <2>3. Lifecycle!Fail(j)
    BY <1>1, <2>1, <2>2 DEF Lifecycle!Fail
  <2> QED
    BY <2>3 DEF Lifecycle!Next
<1>13. from = "ABSENT" => job[j].attempts = 0
  BY DEF AbsentUncharged
<1> QED
  BY <1>2, <1>3, <1>4, <1>5, <1>6, <1>7, <1>8, <1>9, <1>10, <1>11, <1>12, <1>13 DEF RowStep

\* A sweep maps to taking back the jobs it changes.
LEMMA SweepStep ==
    ASSUME SweptJobs
    PROVE  [Lifecycle!Next]_(Lifecycle!abstractVars)
<1> DEFINE S == {j \in Jobs : job'[j] # job[j]}
<1>1. \A j \in S : job[j].status = "RESERVED" /\ job'[j].status = "AVAILABLE"
  BY DEF SweptJobs
<1>2. \A j \in Jobs : job'[j].attempts = job[j].attempts
  BY DEF SweptJobs
<1>3. Lifecycle!TakeBack(S)
  BY <1>1, <1>2, PhaseValues DEF Lifecycle!TakeBack
<1> QED
  BY <1>3 DEF Lifecycle!Next

\* The runtime implements the lifecycle: a job is offered once, held by one
\* owner at a time, charged once for each loss, offered again only within its
\* budget, and at rest once done or buried.
THEOREM Implements ==
    Spec => ImplementsLifecycle
<1>1. Init => AbsentUncharged
  BY DEF Init, WorkersInit, JobsInit, AbsentJob, AbsentUncharged
<1>2. TypeInv /\ AbsentUncharged /\ [Next]_vars => [Lifecycle!Next]_(Lifecycle!abstractVars)
  BY JobSteps, OneJobStep, SweepStep DEF JobStep
<1> QED
  BY TypeInit, TypeStep, LifecycleInit, AbsentStep, <1>1, <1>2, PTL
  DEF Spec, ImplementsLifecycle, Lifecycle!Spec

-----------------------------------------------------------------------------
(* Attempts                                                                 *)

\* The runs of a job with an outcome.
Ended(j, s) == {e \in Execs : exec[e].status = s /\ exec[e].job = j}

\* They form finite sets, so that they can be counted.
LEMMA EndedFinite ==
    ASSUME NEW j, NEW s
    PROVE  IsFiniteSet(Ended(j, s)) /\ Cardinality(Ended(j, s)) \in Nat
<1>1. IsFiniteSet(Execs)
  BY WorkersAssumption, FS_Interval DEF Execs
<1> QED
  BY <1>1, FS_Subset, FS_CardinalityType DEF Ended

\* A job and its count, in the words of Ended.
Accounted(j) ==
    /\ Cardinality(Ended(j, "FAILED")) <= job[j].attempts
    /\ job[j].attempts <= Cardinality(Ended(j, "FAILED") \cup Ended(j, "ABANDONED"))

\* A count that keeps up with the runs that ended badly does so after a run
\* started or ended: a run ends badly once, and an attempt is charged with it.
LEMMA RunKeepsAccount ==
    ASSUME TypeInv, TypeInv', AbsentUncharged, [Next]_vars,
           NEW j \in Jobs, Accounted(j), NEW e \in Execs, NEW i \in Jobs,
           RunStarts(e, i) \/ \E s \in {"COMPLETED", "FAILED", "ABANDONED"} : RunEnds(e, i, s)
    PROVE  Accounted(j)'
<1> DEFINE F == Ended(j, "FAILED")
           A == Ended(j, "ABANDONED")
<1>1. RowStep(j, job[j], job'[j])
  BY RowSteps
<1>2. /\ IsFiniteSet(F) /\ IsFiniteSet(A) /\ IsFiniteSet(F \cup A)
      /\ Cardinality(F) \in Nat /\ Cardinality(F \cup A) \in Nat
      /\ job[j].attempts \in Nat
  BY EndedFinite, FS_Union, FS_CardinalityType
  DEF TypeInv, TypeOK, WorkersTypeOK, JobsTypeOK, JobRow
<1>3. \A d \in Execs \ {e} : exec'[d] = exec[d]
  BY DEF RunStarts, RunEnds
<1>4. e \notin F \cup A
  BY DEF RunStarts, RunEnds, Running, Ended
<1>5. CASE i # j \/ exec'[e].status \notin {"FAILED", "ABANDONED"}
  <2>1. F' = F /\ A' = A
    BY <1>3, <1>4, <1>5 DEF RunStarts, RunEnds, Ended
  <2>2. job'[j].attempts = job[j].attempts
    <3>1. CASE i # j
      BY <3>1 DEF RunStarts, RunEnds
    <3>2. CASE i = j
      BY <1>1, <1>5, <3>2 DEF RowStep, RunStarts, RunEnds, Owned, AbsentUncharged
    <3> QED
      BY <3>1, <3>2
  <2> QED
    BY <2>1, <2>2 DEF Accounted
<1>6. CASE i = j /\ exec'[e].status = "FAILED"
  <2>1. F' = F \cup {e} /\ A' = A
    BY <1>3, <1>4, <1>6 DEF RunStarts, RunEnds, Ended
  <2>2. job'[j].attempts = job[j].attempts + 1
    BY <1>1, <1>6 DEF RowStep, RunStarts, RunEnds, Owned
  <2>3. F' \cup A' = (F \cup A) \cup {e}
    BY <2>1
  <2>4. Cardinality(F') = Cardinality(F) + 1
    BY <1>2, <1>4, <2>1, FS_AddElement
  <2>5. Cardinality(F' \cup A') = Cardinality(F \cup A) + 1
    BY <1>2, <1>4, <2>3, FS_AddElement
  <2> HIDE DEF F, A
  <2>6. Cardinality(F') <= job'[j].attempts /\ job'[j].attempts <= Cardinality(F' \cup A')
    BY <1>2, <2>2, <2>4, <2>5 DEF Accounted, F, A
  <2> QED
    BY <2>6 DEF Accounted, F, A
<1>7. CASE i = j /\ exec'[e].status = "ABANDONED"
  <2>1. F' = F /\ A' = A \cup {e}
    BY <1>3, <1>4, <1>7 DEF RunStarts, RunEnds, Ended
  <2>2. job'[j].attempts \in {job[j].attempts, job[j].attempts + 1}
    BY <1>1, <1>7 DEF RowStep, RunStarts, RunEnds, Owned
  <2>3. F' \cup A' = (F \cup A) \cup {e}
    BY <2>1
  <2>4. Cardinality(F' \cup A') = Cardinality(F \cup A) + 1
    BY <1>2, <1>4, <2>3, FS_AddElement
  <2>5. Cardinality(F') = Cardinality(F)
    BY <2>1
  <2> HIDE DEF F, A
  <2>6. Cardinality(F') <= job'[j].attempts /\ job'[j].attempts <= Cardinality(F' \cup A')
    BY <1>2, <2>2, <2>4, <2>5 DEF Accounted, F, A
  <2> QED
    BY <2>6 DEF Accounted, F, A
<1> QED
  BY <1>5, <1>6, <1>7

\* The attempt count is between the failed runs and the failed and abandoned
\* ones, across every crash, sweep, recovery, retry and replay.
THEOREM AttemptsAccountedHolds ==
    Spec => []AttemptsAccounted
<1>1. AttemptsAccounted <=> \A j \in Jobs : Accounted(j)
  BY DEF AttemptsAccounted, Accounted, Ended
<1>2. Init => AbsentUncharged
  BY DEF Init, WorkersInit, JobsInit, AbsentJob, AbsentUncharged
<1>3. Init => AttemptsAccounted
  <2> SUFFICES ASSUME Init, NEW j \in Jobs PROVE Accounted(j)
    BY <1>1
  <2>1. job[j].attempts = 0
    BY DEF Init, WorkersInit, JobsInit, AbsentJob
  <2>2. Ended(j, "FAILED") = {} /\ Ended(j, "ABANDONED") = {}
    BY DEF Init, WorkersInit, RuntimeInit, AbsentExec, Ended
  <2> QED
    BY <2>1, <2>2, FS_EmptySet DEF Accounted
<1>4. TypeInv /\ TypeInv' /\ AbsentUncharged /\ AttemptsAccounted /\ [Next]_vars => AttemptsAccounted'
  <2> SUFFICES ASSUME TypeInv, TypeInv', AbsentUncharged, AttemptsAccounted, [Next]_vars,
                      NEW j \in Jobs
               PROVE  Accounted(j)'
    BY <1>1 DEF AttemptsAccounted, Accounted, Ended
  <2>1. Accounted(j)
    BY <1>1
  <2>2. CASE Quiet
    <3>1. job'[j].attempts = job[j].attempts
      <4>1. RowStep(j, job[j], job'[j])
        BY RowSteps
      <4> QED
        BY <2>2, <4>1 DEF Quiet, RowStep, AbsentUncharged, Owned
    <3> QED
      BY <2>1, <2>2, <3>1 DEF Quiet, Accounted, Ended
  <2>3. CASE ~Quiet
    BY <2>1, <2>3, ExecSteps, RunKeepsAccount DEF ExecStep
  <2> QED
    BY <2>2, <2>3
<1> QED
  BY TypeInit, TypeStep, AbsentStep, <1>2, <1>3, <1>4, PTL DEF Spec

-----------------------------------------------------------------------------
(* Requests that overtake each other                                        *)

(***************************************************************************)
(* RunningHasRun is not inductive once a recovery may commit late: it ends *)
(* its run whatever the job has become, and fails the job only if somebody *)
(* owned it when it was read.  So a running job needs a run that no such   *)
(* recovery is about to end, and a view has to name a run of its own job.  *)
(***************************************************************************)
ReadOK(v) ==
    /\ v.worker \in Workers /\ v.token \in Tokens /\ v.job \in Jobs
    /\ v.sawJob \in JobRow
    /\ lease[v.token].status # "ABSENT"
    /\ v.op # "start" =>
          v.run \in Execs /\ exec[v.run].status # "ABSENT" /\ exec[v.run].job = v.job

ReadsOK == \A v \in reads : ReadOK(v)

Safe(e) == \A v \in reads : v.op = "recover" /\ v.run = e => v.sawJob.status \in Owned

HasSafeRun(j) == \E e \in Execs : Running(e) /\ exec[e].job = j /\ Safe(e)

RunningHasSafeRun == \A j \in Jobs : job[j].status = "RUNNING" => HasSafeRun(j)

RacesInv == TypeInv /\ ReadsOK /\ RunningHasSafeRun

\* A lease row stays.
LEMMA LeaseStays ==
    ASSUME TypeInv, [Next]_vars, NEW t \in Tokens, lease[t].status # "ABSENT"
    PROVE  lease'[t].status # "ABSENT"
<1> USE DEF TypeInv, TypeOK, WorkersTypeOK
<1>0. lease[t] \in LeaseRow
  BY RowsThere
<1>1. ASSUME lease' = lease PROVE lease'[t].status # "ABSENT"
  BY <1>1
<1>2. ASSUME NEW u \in Tokens, NEW n, lease' = [lease EXCEPT ![u].ttl = n]
      PROVE  lease'[t].status # "ABSENT"
  BY <1>0, <1>2 DEF LeaseRow
<1>3. ASSUME NEW u \in Tokens, NEW s \in {"EXPIRED", "RELEASED"}, lease' = [lease EXCEPT ![u].status = s]
      PROVE  lease'[t].status # "ABSENT"
  BY <1>0, <1>3 DEF LeaseRow
<1>4. ASSUME NEW w \in Workers, WorkerRequest(w)
      PROVE  lease'[t].status # "ABSENT"
  <2>1. ASSUME NEW u \in Tokens, RenewLease(w, u)
        PROVE  lease'[t].status # "ABSENT"
    BY <1>2, <2>1 DEF RenewLease
  <2>2. ASSUME NEW u \in Tokens, NEW e \in Execs,
               \/ StartExecution(w, u, e)
               \/ CompleteExecution(w, u, e)
               \/ \E reason \in Reasons : FailExecution(w, u, e, reason)
        PROVE  lease' = lease
    BY <2>2 DEF StartExecution, CompleteExecution, FailExecution
  <2>3. ASSUME NEW u \in Tokens, NEW j \in Jobs, AcquireReserve(w, u, j)
        PROVE  lease' = lease
    BY <2>3 DEF AcquireReserve
  <2>4. ASSUME RegisterWorker(w) \/ \E b \in Beats : Heartbeat(w, b)
        PROVE  lease' = lease
    BY <2>4 DEF RegisterWorker, Heartbeat
  <2> QED
    BY <1>1, <1>4, <2>1, <2>2, <2>3, <2>4 DEF WorkerRequest
<1>5. ASSUME NEW r \in inflight, Continue(r) \/ RequestDies(r)
      PROVE  lease'[t].status # "ABSENT"
  <2>1. r.token \in Tokens
    BY DEF Request
  <2>2. CASE AcquireLease(r)
    <3>1. r.token # t
      BY <2>2 DEF AcquireLease
    <3> QED
      BY <2>1, <2>2, <3>1 DEF AcquireLease
  <2>3. CASE FinishExecution(r)
    BY <1>3, <2>1, <2>3 DEF FinishExecution
  <2> QED
    BY <1>1, <1>5, <2>2, <2>3 DEF Continue, AcquireRefused, RequestDies
<1>6. CASE Clock
  <2>1. ASSUME NEW u \in Tokens, LeaseAges(u)
        PROVE  lease'[t].status # "ABSENT"
    BY <1>2, <2>1 DEF LeaseAges
  <2> QED
    BY <1>1, <1>6, <2>1 DEF Clock, HeartbeatAges
<1>7. CASE ReleaseExpired
  <2>1. SweptLease(t).status # "ABSENT"
    BY <1>0 DEF SweptLease, LeaseRow
  <2> QED
    BY <1>7, <2>1 DEF ReleaseExpired
<1>8. ASSUME NEW e \in Execs, NEW u \in Tokens, RecoverExecution(e, u)
      PROVE  lease'[t].status # "ABSENT"
  BY <1>0, <1>8 DEF RecoverExecution, ExpireLease, LeaseRow
<1>9. CASE UNCHANGED lease
  BY <1>1, <1>9
<1> QED
  BY <1>4, <1>5, <1>6, <1>7, <1>8, <1>9
  DEF Next, WorkersNext, RecoveryRequest, TransferToDeadLetter, ReplayJob, ReplayAgain,
      ScheduleRetry, RetryExhausted, FinishReplay, ReplayDies, runtimeVars, workerVars, vars

\* A step of the base module keeps the invariant: what it does to the runs is
\* what ExecStep says.
LEMMA BaseKeepsReads ==
    ASSUME RacesInv, [Next]_vars, reads' = reads
    PROVE  RacesInv'
<1> USE DEF RacesInv
<1>1. TypeInv'
  BY TypeStep
<1>2. ASSUME NEW d \in Execs, exec[d].status # "ABSENT"
      PROVE  exec'[d].status # "ABSENT" /\ exec'[d].job = exec[d].job
  BY <1>2, ExecSteps DEF ExecStep, Quiet, RunStarts, RunEnds
<1>3. ReadsOK'
  BY <1>2, LeaseStays DEF ReadsOK, ReadOK
<1>4. ASSUME NEW j \in Jobs, job'[j].status = "RUNNING"
      PROVE  HasSafeRun(j)'
  <2>1. CASE Quiet
    BY <1>4, <2>1 DEF Quiet, RunningHasSafeRun, HasSafeRun, Running, Safe
  <2>2. ASSUME NEW e \in Execs, NEW i \in Jobs, RunStarts(e, i)
        PROVE  HasSafeRun(j)'
    <3>1. CASE i = j
      <4>1. Safe(e)'
        BY <2>2 DEF RunStarts, Safe, ReadsOK, ReadOK
      <4> QED
        BY <2>2, <3>1, <4>1 DEF RunStarts, HasSafeRun, Running
    <3>2. CASE i # j
      <4>1. PICK d \in Execs : Running(d) /\ exec[d].job = j /\ Safe(d)
        BY <1>4, <2>2, <3>2 DEF RunStarts, RunningHasSafeRun, HasSafeRun
      <4>2. exec'[d] = exec[d] /\ Safe(d)'
        BY <2>2, <4>1 DEF RunStarts, Running, Safe
      <4> QED
        BY <4>1, <4>2 DEF HasSafeRun, Running
    <3> QED
      BY <3>1, <3>2
  <2>3. ASSUME NEW e \in Execs, NEW i \in Jobs, NEW s \in {"COMPLETED", "FAILED", "ABANDONED"},
               RunEnds(e, i, s)
        PROVE  HasSafeRun(j)'
    <3>1. i # j /\ job'[j] = job[j]
      BY <1>4, <2>3 DEF RunEnds, Owned
    <3>2. PICK d \in Execs : Running(d) /\ exec[d].job = j /\ Safe(d)
      BY <1>4, <3>1 DEF RunningHasSafeRun, HasSafeRun
    <3>3. exec'[d] = exec[d] /\ Safe(d)'
      BY <2>3, <3>1, <3>2 DEF RunEnds, Safe
    <3> QED
      BY <3>2, <3>3 DEF HasSafeRun, Running
  <2> QED
    BY <2>1, <2>2, <2>3, ExecSteps DEF ExecStep
<1> QED
  BY <1>1, <1>3, <1>4 DEF RunningHasSafeRun

\* A read keeps it: a recovery reads its run's job together with its run.
LEMMA ReadKeepsReads ==
    ASSUME RacesInv, ReadSome
    PROVE  RacesInv'
<1> USE DEF RacesInv, TypeInv, TypeOK, WorkersTypeOK, JobsTypeOK
<1>1. ASSUME NEW w \in Workers, NEW t \in Tokens, NEW e, NEW op, Read(op, w, t, e),
             lease[t].status # "ABSENT",
             op # "start" => e \in Execs /\ Running(e) /\ exec[e].job = lease[t].job
      PROVE  RacesInv'
  <2>0. PICK v : v = View(op, w, t, e)
    OBVIOUS
  <2>1. reads' = reads \cup {v} /\ UNCHANGED <<job, exec, lease>> /\ TypeInv'
    <3>1. UNCHANGED vars
      BY <1>1 DEF Read
    <3> QED
      BY <1>1, <2>0, <3>1 DEF Read, FinishHasLease, vars, workerVars, jobVars, runtimeVars, recoveryVars
  <2>2. lease[t].job \in Jobs
    BY <1>1, RowsThere DEF LeaseRow
  <2>3. /\ v.worker = w /\ v.token = t /\ v.job = lease[t].job /\ v.run = e /\ v.op = op
        /\ v.sawJob = job[lease[t].job]
    BY <2>0 DEF View
  <2>4. ReadOK(v)'
    BY <1>1, <2>1, <2>2, <2>3 DEF ReadOK, Running
  <2>5. ReadsOK'
    BY <2>1, <2>4 DEF ReadsOK, ReadOK
  <2>6. ASSUME NEW j \in Jobs, job'[j].status = "RUNNING"
        PROVE  HasSafeRun(j)'
    <3>1. PICK d \in Execs : Running(d) /\ exec[d].job = j /\ Safe(d)
      BY <2>1, <2>6 DEF RunningHasSafeRun, HasSafeRun
    <3>2. v.op = "recover" /\ v.run = d => v.sawJob.status \in Owned
      BY <1>1, <2>1, <2>3, <2>6, <3>1 DEF Owned
    <3>3. Safe(d)'
      BY <2>1, <3>1, <3>2 DEF Safe
    <3> QED
      BY <2>1, <3>1, <3>3 DEF HasSafeRun, Running
  <2> QED
    BY <2>1, <2>5, <2>6 DEF RunningHasSafeRun
<1>2. ASSUME NEW w \in Workers, NEW t \in Tokens, ReadStart(w, t)
      PROVE  RacesInv'
  <2>1. Read("start", w, t, NoRun) /\ lease[t].status # "ABSENT"
    BY <1>2 DEF ReadStart, MayStart, HoldsLease
  <2> QED
    BY <1>1, <2>1
<1>3. ASSUME NEW w \in Workers, NEW t \in Tokens, NEW e \in Execs, NEW op, ReadEnd(op, w, t, e)
      PROVE  RacesInv'
  <2>1. Read(op, w, t, e) /\ lease[t].status # "ABSENT" /\ Running(e) /\ exec[e].job = lease[t].job
    BY <1>3 DEF ReadEnd, NewestRun, HoldsLease, RunsOf
  <2> QED
    BY <1>1, <2>1
<1>4. ASSUME NEW e \in Execs, NEW t \in Tokens, ReadRecover(e, t)
      PROVE  RacesInv'
  <2>1. /\ Read("recover", exec[e].worker, t, e)
        /\ Running(e) /\ exec[e].job = lease[t].job /\ lease[t].worker = exec[e].worker
    BY <1>4 DEF ReadRecover, Recoverable, LeaseOfRun
  <2>2. exec[e].worker \in Workers
    BY <2>1, RowsThere DEF Running, ExecRow
  <2>3. lease[t].status # "ABSENT"
    BY <2>1, <2>2, RowsThere DEF LeaseRow
  <2> QED
    BY <1>1, <2>1, <2>2, <2>3
<1> QED
  BY <1>2, <1>3, <1>4 DEF ReadSome

\* A commit that removes its view, no run and no lease keeps the other views
\* right, and what was safe stays so.
LEMMA CommitKeepsViews ==
    ASSUME ReadsOK, NEW v \in reads, Done(v),
           \A d \in Execs : exec[d].status # "ABSENT" =>
                               exec'[d].status # "ABSENT" /\ exec'[d].job = exec[d].job,
           \A t \in Tokens : lease[t].status # "ABSENT" => lease'[t].status # "ABSENT"
    PROVE  ReadsOK' /\ \A d : Safe(d) => Safe(d)'
<1>1. reads' \subseteq reads
  BY DEF Done
<1>2. ReadsOK'
  BY <1>1 DEF ReadsOK, ReadOK
<1>3. ASSUME NEW d, Safe(d) PROVE Safe(d)'
  BY <1>1, <1>3 DEF Safe
<1> QED
  BY <1>2, <1>3

\* A start that commits late gives its job a run that no request has read.
LEMMA StartCommits ==
    ASSUME RacesInv, NEW v \in reads, NEW e \in Execs, CommitStart(v, e)
    PROVE  RacesInv'
<1> USE DEF RacesInv, TypeInv, TypeOK, WorkersTypeOK, JobsTypeOK
<1>1. v.worker \in Workers /\ v.job \in Jobs
  BY DEF ReadsOK, ReadOK
<1>2. exec[e].status = "ABSENT"
  BY DEF CommitStart, NextRow
<1>3. /\ exec'[e].status = "STARTED" /\ exec'[e].job = v.job
      /\ \A d \in Execs \ {e} : exec'[d] = exec[d]
      /\ \A k \in Jobs \ {v.job} : job'[k] = job[k]
      /\ lease' = lease /\ Done(v)
  BY <1>1 DEF CommitStart
<1>4. worker' \in [Workers -> WorkerRow]
  <2>1. worker[v.worker] \in WorkerRow
    BY <1>1
  <2>2. /\ [worker[v.worker] EXCEPT !.status = "RUNNING"] \in WorkerRow
        /\ [worker[v.worker] EXCEPT !.status = @] \in WorkerRow
    BY <2>1 DEF WorkerRow, WorkerStatus
  <2> QED
    BY <2>2 DEF CommitStart
<1>5. job' \in [Jobs -> JobRow]
  <2>1. job[v.job] \in JobRow
    BY <1>1
  <2>2. /\ [job[v.job] EXCEPT !.status = "RUNNING"] \in JobRow
        /\ [job[v.job] EXCEPT !.status = @] \in JobRow
    BY <2>1 DEF JobRow, JobStatus
  <2> QED
    BY <2>2 DEF CommitStart
<1>6. [status |-> "STARTED", worker |-> v.worker, job |-> v.job] \in ExecRow
  BY <1>1 DEF ExecRow
<1>7. TypeInv'
  BY <1>4, <1>5, <1>6 DEF CommitStart, FinishHasLease, recoveryVars
<1>8. ReadsOK' /\ \A d : Safe(d) => Safe(d)'
  BY <1>2, <1>3, CommitKeepsViews
<1>9. Safe(e)'
  BY <1>2, <1>3 DEF Safe, ReadsOK, ReadOK, Done
<1>10. ASSUME NEW j \in Jobs, job'[j].status = "RUNNING"
       PROVE  HasSafeRun(j)'
  <2>1. CASE j = v.job
    BY <1>3, <1>9, <2>1 DEF HasSafeRun, Running
  <2>2. CASE j # v.job
    <3>1. PICK d \in Execs : Running(d) /\ exec[d].job = j /\ Safe(d)
      BY <1>3, <1>10, <2>2 DEF RunningHasSafeRun, HasSafeRun
    <3> QED
      BY <1>2, <1>3, <1>8, <3>1 DEF HasSafeRun, Running
  <2> QED
    BY <2>1, <2>2
<1> QED
  BY <1>7, <1>8, <1>10 DEF RunningHasSafeRun

\* A completion or a failure that commits late ends its run with its job,
\* because it compares the job's token then.
LEMMA EndCommits ==
    ASSUME RacesInv, NEW v \in reads,
           CommitComplete(v) \/ \E reason \in Reasons : CommitFail(v, reason)
    PROVE  RacesInv'
<1> USE DEF RacesInv, TypeInv, TypeOK, WorkersTypeOK
<1>1. /\ v.worker \in Workers /\ v.token \in Tokens /\ v.job \in Jobs /\ v.run \in Execs
      /\ exec[v.run].status # "ABSENT" /\ exec[v.run].job = v.job
      /\ lease[v.token].status # "ABSENT"
  BY DEF ReadsOK, ReadOK, CommitComplete, CommitFail
<1>2. PICK outcome \in {"COMPLETED", "FAILED"} : EndRun(v, outcome)
  BY DEF CommitComplete, CommitFail
<1>3. MarkCompleted(v.job, v.token) \/ \E k \in FailureKeys : MarkFailed(v.job, v.token, k)
  BY <1>1, WorkersAssumption DEF CommitComplete, CommitFail
<1>4. /\ job'[v.job].status \in {"COMPLETED", "FAILED"}
      /\ \A k \in Jobs \ {v.job} : job'[k] = job[k]
  <2>1. job \in [Jobs -> JobRow] /\ job[v.job] \in JobRow
    BY <1>1 DEF JobsTypeOK
  <2>2. CASE MarkCompleted(v.job, v.token)
    BY <1>1, <2>1, <2>2 DEF MarkCompleted, Settled, Moved, Started, JobRow
  <2>3. CASE \E k \in FailureKeys : MarkFailed(v.job, v.token, k)
    BY <1>1, <2>1, <2>3 DEF MarkFailed, Settled, Moved, Started, JobRow
  <2> QED
    BY <1>3, <2>2, <2>3
<1>5. exec[v.run] \in ExecRow
  BY <1>1, RowsThere
<1>6. /\ exec'[v.run].status = outcome /\ exec'[v.run].job = v.job
      /\ \A d \in Execs \ {v.run} : exec'[d] = exec[d]
      /\ lease' = lease /\ Done(v)
  BY <1>1, <1>2, <1>5 DEF EndRun, ExecRow
<1>7. TypeInv'
  <2>1. JobsTypeOK'
    BY <1>1, <1>3, SettleType
  <2>2. [exec[v.run] EXCEPT !.status = outcome] \in ExecRow
    BY <1>2, <1>5 DEF ExecRow
  <2>3. exec' \in [Execs -> ExecRow \cup {AbsentExec}]
    BY <1>2, <2>2 DEF EndRun
  <2>4. inflight' \subseteq Request
    BY <1>1, <1>2 DEF EndRun, Request
  <2>5. FinishHasLease'
    BY <1>1, <1>2, <1>6 DEF EndRun, FinishHasLease
  <2> QED
    BY <1>2, <2>1, <2>3, <2>4, <2>5 DEF EndRun, recoveryVars
<1>8. ReadsOK' /\ \A d : Safe(d) => Safe(d)'
  BY <1>1, <1>2, <1>6, CommitKeepsViews
<1>9. ASSUME NEW j \in Jobs, job'[j].status = "RUNNING"
      PROVE  HasSafeRun(j)'
  <2>1. j # v.job
    BY <1>4, <1>9
  <2>2. PICK d \in Execs : Running(d) /\ exec[d].job = j /\ Safe(d)
    BY <1>4, <1>9, <2>1 DEF RunningHasSafeRun, HasSafeRun
  <2>3. exec'[d] = exec[d] /\ Safe(d)'
    BY <1>1, <1>6, <1>8, <2>1, <2>2
  <2> QED
    BY <2>2, <2>3 DEF HasSafeRun, Running
<1> QED
  BY <1>7, <1>8, <1>9 DEF RunningHasSafeRun

\* A recovery that commits late fails the job whose owner it has read, or ends
\* a run that its job does not need.
LEMMA RecoveryCommits ==
    ASSUME RacesInv, NEW v \in reads, CommitRecover(v)
    PROVE  RacesInv'
<1> USE DEF RacesInv, TypeInv, TypeOK, WorkersTypeOK, JobsTypeOK
<1>1. /\ v.worker \in Workers /\ v.token \in Tokens /\ v.job \in Jobs /\ v.run \in Execs
      /\ v.sawJob \in JobRow
      /\ exec[v.run].status # "ABSENT" /\ exec[v.run].job = v.job
      /\ lease[v.token].status # "ABSENT"
      /\ v.op = "recover"
  BY DEF ReadsOK, ReadOK, CommitRecover
<1>2. exec[v.run] \in ExecRow /\ lease[v.token] \in LeaseRow
  BY <1>1, RowsThere
<1>3. /\ exec'[v.run].status # "ABSENT" /\ exec'[v.run].job = v.job
      /\ \A d \in Execs \ {v.run} : exec'[d] = exec[d]
      /\ \A t \in Tokens : lease[t].status # "ABSENT" => lease'[t].status # "ABSENT"
      /\ Done(v)
  BY <1>1, <1>2 DEF CommitRecover, ExecRow, LeaseRow
<1>4. /\ v.sawJob.status \notin Owned => job' = job
      /\ v.sawJob.status \in Owned =>
            job' = [job EXCEPT ![v.job] = [Settled(@, "FAILED") EXCEPT
                                              !.attempts = v.sawJob.attempts + 1]]
  BY DEF CommitRecover
<1>5. [Settled(job[v.job], "FAILED") EXCEPT !.attempts = v.sawJob.attempts + 1] \in JobRow
  <2>1. job[v.job] \in JobRow /\ v.sawJob.attempts + 1 \in Nat /\ "FAILED" \in JobStatus
    BY <1>1 DEF JobRow, JobStatus
  <2> QED
    BY <2>1, RowTypes
<1>6. TypeInv'
  <2>1. job' \in [Jobs -> JobRow]
    BY <1>1, <1>4, <1>5
  <2>2. exec' \in [Execs -> ExecRow \cup {AbsentExec}]
    <3>1. [exec[v.run] EXCEPT !.status = "ABANDONED"] \in ExecRow
      BY <1>2 DEF ExecRow
    <3> QED
      BY <3>1 DEF CommitRecover
  <2>3. lease' \in [Tokens -> LeaseRow \cup {AbsentLease}]
    <3>1. /\ [lease[v.token] EXCEPT !.status = "EXPIRED"] \in LeaseRow
          /\ [lease[v.token] EXCEPT !.status = @] \in LeaseRow
      BY <1>2 DEF LeaseRow
    <3> QED
      BY <3>1 DEF CommitRecover
  <2>4. worker' \in [Workers -> WorkerRow]
    <3>1. worker[v.worker] \in WorkerRow
      BY <1>1
    <3>2. \A c \in Jobs \cup {NoJob}, s \in WorkerStatus :
             [worker[v.worker] EXCEPT !.current = c, !.status = s] \in WorkerRow
      BY <3>1 DEF WorkerRow
    <3>3. /\ worker[v.worker].current \in Jobs \cup {NoJob}
          /\ worker[v.worker].status \in WorkerStatus /\ "IDLE" \in WorkerStatus
      BY <3>1 DEF WorkerRow, WorkerStatus
    <3> QED
      BY <3>2, <3>3 DEF CommitRecover
  <2>5. FinishHasLease'
    BY <1>3 DEF CommitRecover, FinishHasLease, Request
  <2> QED
    BY <2>1, <2>2, <2>3, <2>4, <2>5 DEF CommitRecover, recoveryVars
<1>7. ReadsOK' /\ \A d : Safe(d) => Safe(d)'
  BY <1>1, <1>3, CommitKeepsViews
<1>8. ASSUME NEW j \in Jobs, job'[j].status = "RUNNING"
      PROVE  HasSafeRun(j)'
  <2>1. v.sawJob.status \in Owned => j # v.job
    <3>1. job[v.job] \in JobRow
      BY <1>1
    <3> QED
      BY <1>1, <1>4, <1>8, <3>1 DEF Settled, Moved, JobRow
  <2>2. job'[j] = job[j]
    BY <1>1, <1>4, <2>1
  <2>3. PICK d \in Execs : Running(d) /\ exec[d].job = j /\ Safe(d)
    BY <1>8, <2>2 DEF RunningHasSafeRun, HasSafeRun
  <2>4. d # v.run
    BY <1>1, <2>1, <2>3 DEF Safe
  <2> QED
    BY <1>3, <1>7, <2>3, <2>4 DEF HasSafeRun, Running
<1> QED
  BY <1>6, <1>7, <1>8 DEF RunningHasSafeRun

\* A running job has a run, whatever commits between the reads and the commit
\* of a start, a completion, a failure or a recovery: a recovery that is
\* overtaken by a retry and a second start ends its own run and no other.
THEOREM RacesRunningHasRun ==
    RacesSpec => []RunningHasRun
<1>1. RacesInit => RacesInv
  <2> SUFFICES ASSUME RacesInit PROVE RacesInv
    OBVIOUS
  <2>1. \A j \in Jobs : job[j].status = "ABSENT"
    BY DEF RacesInit, Init, WorkersInit, JobsInit, AbsentJob
  <2> QED
    BY <2>1, TypeInit DEF RacesInit, RacesInv, ReadsOK, RunningHasSafeRun
<1>2. RacesInv /\ [RacesNext]_racesVars => RacesInv'
  <2> SUFFICES ASSUME RacesInv, [RacesNext]_racesVars PROVE RacesInv'
    OBVIOUS
  <2>1. CASE Next /\ UNCHANGED reads
    BY <2>1, BaseKeepsReads
  <2>2. CASE UNCHANGED racesVars
    BY <2>2, BaseKeepsReads DEF racesVars
  <2>3. CASE CommitSome
    BY <2>3, StartCommits, EndCommits, RecoveryCommits DEF CommitSome
  <2>4. CASE GiveUp
    <3>1. PICK v \in reads : Done(v) /\ UNCHANGED vars
      BY <2>4 DEF GiveUp
    <3>2. /\ UNCHANGED <<job, exec, lease>>
          /\ TypeInv'
      BY <3>1, TypeStep DEF RacesInv, vars, workerVars, jobVars, runtimeVars
    <3>3. ReadsOK' /\ \A d : Safe(d) => Safe(d)'
      BY <3>1, <3>2, CommitKeepsViews DEF RacesInv
    <3> QED
      BY <3>2, <3>3 DEF RacesInv, RunningHasSafeRun, HasSafeRun, Running
  <2> QED
    BY <2>1, <2>2, <2>3, <2>4, ReadKeepsReads DEF RacesNext
<1>3. RacesInv => RunningHasRun
  BY DEF RacesInv, RunningHasSafeRun, HasSafeRun, RunningHasRun, HasRun
<1> QED
  BY <1>1, <1>2, <1>3, PTL DEF RacesSpec
=============================================================================
