---------------------- MODULE AutomationOwnershipProofs ----------------------
(***************************************************************************)
(* Who owns what in the P41 runtime.  While requests end and workers wait  *)
(* for their answers, every active lease is good for its job and every run *)
(* belongs to a worker that holds and names its job, even if workers       *)
(* repeat tokens and ask for a second job.  If they do not do that either, *)
(* every reservation has its lease.  While no replay dies, no dead letter  *)
(* is left waiting for one.                                                *)
(***************************************************************************)
EXTENDS AutomationSafetyProofs

(***************************************************************************)
(* The invariants about ownership are not inductive.  What has to be known *)
(* besides is what each request in flight found and still relies on when   *)
(* it goes on (AcquireSound, FinishSound), that the second half of a       *)
(* request is alone with its worker (OneRequest), that a worker's lease is *)
(* one lease (OneLease), that a worker that looks busy has something to    *)
(* lose (WorkerHeld), and that the newest lease of a worker, which         *)
(* recovery picks by its id, is the active one (LeaseOrder).               *)
(***************************************************************************)
LeaseLive(t) == lease[t].status = "ACTIVE"

Finishing(t) == \E r \in inflight : r.op = "finish" /\ r.token = t

RunsAny(w) == \E e \in Execs : Running(e) /\ exec[e].worker = w

OneRequest ==
    \A r, s \in inflight : r.worker = s.worker => r = s

OneLease ==
    \A t, u \in Tokens : LeaseLive(t) /\ LeaseLive(u) /\ lease[t].worker = lease[u].worker => t = u

\* An acquire between its commits that will get its lease has its reservation:
\* one whose token has a lease by now will be refused.
AcquireSound ==
    \A r \in inflight : r.op = "acquire" /\ lease[r.token].status = "ABSENT" =>
        job[r.job].status = "RESERVED" /\ job[r.job].token = r.token

\* A request that is finishing has settled its job and its run; a sweep may
\* have taken its lease since.
FinishSound ==
    \A r \in inflight : r.op = "finish" =>
        /\ lease[r.token].status \in {"ACTIVE", "EXPIRED"}
        /\ lease[r.token].worker = r.worker
        /\ \A t \in Tokens : HoldsLease(r.worker, t) => t = r.token
        /\ worker[r.worker].status = "RUNNING"
        /\ LeaseLive(r.token) => worker[r.worker].current = lease[r.token].job
        /\ ~LeaseLive(r.token) => worker[r.worker].current = NoJob
        /\ ~RunsAny(r.worker)

\* Lease t of worker w is good for job j, and the two are at the same point:
\* reserved with no run, or running with one.
GoodFor(t, w, j) ==
    /\ job[j].token = t
    /\ worker[w].current = j
    /\ job[j].status = worker[w].status
    /\ \/ job[j].status = "RESERVED" /\ ~RunsAny(w)
       \/ job[j].status = "RUNNING" /\ RunsOf(w, j) # {}

LeaseSound ==
    \A t \in Tokens :
        LeaseLive(t) /\ ~Finishing(t) => GoodFor(t, lease[t].worker, lease[t].job)

\* The worker of run e holds the job of the run and names it.
Owner(e) ==
    LET j == exec[e].job
        w == exec[e].worker
    IN
    /\ job[j].status = "RUNNING"
    /\ worker[w].status = "RUNNING" /\ worker[w].current = j
    /\ job[j].token \in Tokens
    /\ HoldsLease(w, job[j].token) /\ lease[job[j].token].job = j

WorkerHeld ==
    \A w \in Workers : worker[w].status \in Owned =>
        \/ \E t \in Tokens : HoldsLease(w, t)
        \/ \E r \in inflight : r.op = "finish" /\ r.worker = w

Leased == {t \in Tokens : lease[t].status # "ABSENT"}

LeaseOrder ==
    /\ \A t \in Leased : lease[t].id <= Cardinality(Leased)
    /\ \A t, u \in Leased : lease[t].id = lease[u].id => t = u
    /\ \A t, u \in Leased : LeaseLive(t) /\ lease[t].worker = lease[u].worker =>
                               lease[u].id <= lease[t].id

OwnInv ==
    /\ OneRequest /\ OneLease
    /\ AcquireSound /\ FinishSound /\ LeaseSound
    /\ WorkerHeld /\ LeaseOrder
    /\ RunHasOwner

(***************************************************************************)
(* ReservationHasLease needs more, and fails if tokens are repeated or a   *)
(* worker asks for a second job: an acquire in flight must not be refused, *)
(* so its worker has no job and its token is nobody else's (AcquireAlone), *)
(* and the release of a finished lease must not take it from under another *)
(* reservation (TokenOfOneJob, FinishSettled).                             *)
(***************************************************************************)
AcquireAlone ==
    \A r \in inflight : r.op = "acquire" =>
        /\ lease[r.token].status = "ABSENT"
        /\ worker[r.worker].current = NoJob
        /\ \A s \in inflight : s.token = r.token => s = r

TokenOfOneJob ==
    \A j, k \in Jobs : job[j].token # NoToken /\ job[j].token = job[k].token => j = k

FinishSettled ==
    \A r \in inflight : r.op = "finish" => \A j \in Jobs : job[j].token # r.token

TieInv == AcquireAlone /\ TokenOfOneJob /\ FinishSettled /\ ReservationHasLease

\* What the proofs before this one have shown of every state.
Base == TypeInv /\ RunInv /\ IdleInv /\ TokenWhileOwned

-----------------------------------------------------------------------------
(* Steps that own and settle nothing                                        *)

\* No job is taken or settled, no lease, run or request comes or goes.
Aside ==
    /\ \A j \in Jobs :
          /\ job'[j].token = job[j].token
          /\ job[j].status \in Owned \/ job'[j].status \in Owned => job'[j].status = job[j].status
    /\ \A t \in Tokens :
          /\ lease'[t].status = lease[t].status /\ lease'[t].worker = lease[t].worker
          /\ lease'[t].job = lease[t].job /\ lease'[t].id = lease[t].id
    /\ \A w \in Workers :
          /\ worker'[w].current = worker[w].current
          /\ \/ worker'[w].status = worker[w].status
             \/ worker[w].status = "ABSENT" /\ worker'[w].status = "IDLE"
    /\ exec' = exec /\ inflight' = inflight

\* The fields of a lease with a row.
LEMMA LeaseFields ==
    ASSUME TypeInv, NEW t \in Tokens
    PROVE  /\ lease[t].id \in Nat
           /\ lease[t].status # "ABSENT" => lease[t].worker \in Workers /\ lease[t].job \in Jobs
           /\ lease[t].worker \in Workers => lease[t].status # "ABSENT"
<1>1. lease[t] \in LeaseRow \cup {AbsentLease} /\ NoWorker \notin Workers
  BY WorkersAssumption DEF TypeInv, TypeOK, WorkersTypeOK
<1>2. CASE lease[t] \in LeaseRow
  BY <1>2 DEF LeaseRow
<1>3. CASE lease[t] = AbsentLease
  BY <1>1, <1>3 DEF AbsentLease
<1> QED
  BY <1>1, <1>2, <1>3

\* The fields of a run and of a request.
LEMMA RunFields ==
    ASSUME TypeInv
    PROVE  /\ \A e \in Execs : Running(e) => exec[e].worker \in Workers /\ exec[e].job \in Jobs
           /\ \A r \in inflight : r.worker \in Workers /\ r.token \in Tokens /\ r.job \in Jobs
                                  /\ r.op \in {"acquire", "finish"}
<1>1. \A e \in Execs : Running(e) => exec[e] \in ExecRow
  BY RowsThere DEF TypeInv, TypeOK, Running
<1>2. inflight \subseteq Request
  BY DEF TypeInv, TypeOK, WorkersTypeOK
<1> QED
  BY <1>1, <1>2 DEF ExecRow, Request

\* Such a step keeps both invariants.
LEMMA AsideKeeps ==
    ASSUME Base, Base', OwnInv, Aside
    PROVE  OwnInv' /\ (TieInv => TieInv')
<1> USE DEF OwnInv, Aside, Base
<1>1. OneRequest' /\ OneLease'
  BY DEF OneRequest, OneLease, LeaseLive
<1>2. AcquireSound'
  BY RunFields DEF AcquireSound, Owned
<1>3. FinishSound'
  BY RunFields DEF FinishSound, HoldsLease, LeaseLive, RunsAny, Running
<1>4. LeaseSound'
  <2> SUFFICES ASSUME NEW t \in Tokens, LeaseLive(t)', ~Finishing(t)'
               PROVE  GoodFor(t, lease[t].worker, lease[t].job)'
    BY DEF LeaseSound
  <2>1. LeaseLive(t) /\ ~Finishing(t)
    BY DEF LeaseLive, Finishing
  <2>2. lease[t].job \in Jobs /\ lease[t].worker \in Workers
    BY <2>1, LeaseFields DEF LeaseLive
  <2>3. GoodFor(t, lease[t].worker, lease[t].job)
    BY <2>1 DEF LeaseSound
  <2>4. lease'[t].worker = lease[t].worker /\ lease'[t].job = lease[t].job
    OBVIOUS
  <2> QED
    BY <2>2, <2>3, <2>4 DEF GoodFor, RunsAny, RunsOf, Running, Owned
<1>5. WorkerHeld'
  BY DEF WorkerHeld, HoldsLease, Owned
<1>6. LeaseOrder'
  <2>1. Leased' = Leased
    BY DEF Leased
  <2> QED
    BY <2>1 DEF LeaseOrder, LeaseLive, Leased
<1>7. RunHasOwner'
  <2> SUFFICES ASSUME NEW e \in Execs, Running(e)
               PROVE  Owner(e)'
    BY DEF RunHasOwner, Owner, Running
  <2>1. Owner(e) /\ exec[e].worker \in Workers /\ exec[e].job \in Jobs
    BY RunFields DEF RunHasOwner, Owner
  <2> QED
    BY <2>1 DEF Owner, HoldsLease, Owned
<1>8. ASSUME TieInv
      PROVE  TieInv'
  <2>1. AcquireAlone'
    BY <1>8, RunFields DEF TieInv, AcquireAlone
  <2>2. TokenOfOneJob' /\ FinishSettled'
    BY <1>8 DEF TieInv, TokenOfOneJob, FinishSettled
  <2>3. ReservationHasLease'
    BY <1>8 DEF TieInv, ReservationHasLease, Owned
  <2> QED
    BY <2>1, <2>2, <2>3 DEF TieInv
<1> QED
  BY <1>1, <1>2, <1>3, <1>4, <1>5, <1>6, <1>7, <1>8

-----------------------------------------------------------------------------
(* Acquiring                                                                *)

\* What a worker with no request in flight has: its leases are good for their
\* jobs, and if its record names no job it has none and is not at work.
LEMMA WorkerAtRest ==
    ASSUME Base, OwnInv, NEW w \in Workers, ~Busy(w)
    PROVE  /\ \A t \in Tokens : HoldsLease(w, t) => ~Finishing(t) /\ GoodFor(t, w, lease[t].job)
           /\ worker[w].current = NoJob =>
                 /\ \A t \in Tokens : ~HoldsLease(w, t)
                 /\ worker[w].status \notin Owned
<1> USE DEF OwnInv, Base
<1>1. ASSUME NEW t \in Tokens, HoldsLease(w, t)
      PROVE  ~Finishing(t) /\ GoodFor(t, w, lease[t].job)
  <2>1. ~Finishing(t)
    BY <1>1 DEF Finishing, FinishSound, HoldsLease, Busy
  <2> QED
    BY <1>1, <2>1 DEF LeaseSound, HoldsLease, LeaseLive
<1>2. ASSUME worker[w].current = NoJob
      PROVE  \A t \in Tokens : ~HoldsLease(w, t)
  <2>1. ASSUME NEW t \in Tokens, HoldsLease(w, t)
        PROVE  FALSE
    <3>1. worker[w].current = lease[t].job
      BY <1>1, <2>1 DEF GoodFor
    <3>2. lease[t].job \in Jobs
      BY <2>1, LeaseFields DEF HoldsLease
    <3> QED
      BY <1>2, <3>1, <3>2, WorkersAssumption
  <2> QED
    BY <2>1
<1>3. worker[w].current = NoJob => worker[w].status \notin Owned
  BY <1>2 DEF WorkerHeld, Busy
<1> QED
  BY <1>1, <1>2, <1>3

\* A run has its owner, in the words of Owner.
LEMMA RunOwner ==
    RunHasOwner <=> \A e \in Execs : Running(e) => Owner(e)
  BY DEF RunHasOwner, Owner

\* The first commit of an acquire reserves a job nobody owns, for a worker with
\* no other request.
LEMMA AcquireReserveKeeps ==
    ASSUME Base, Base', OwnInv, "overlap" \notin Faults,
           NEW w \in Workers, NEW t \in Tokens, NEW j \in Jobs, AcquireReserve(w, t, j)
    PROVE  OwnInv'
<1> DEFINE r == [op |-> "acquire", worker |-> w, token |-> t, job |-> j]
<1> USE DEF OwnInv, Base
<1>1. /\ job[j].status = "AVAILABLE" /\ job'[j].status = "RESERVED" /\ job'[j].token = t
      /\ \A k \in Jobs \ {j} : job'[k] = job[k]
  BY DEF AcquireReserve, ReserveJob, Reservable, Candidates, WriteReservation, Moved,
         TypeInv, TypeOK, WorkersTypeOK, JobsTypeOK, JobRow
<1>2. /\ inflight' = inflight \cup {r}
      /\ worker' = worker /\ lease' = lease /\ exec' = exec
  BY DEF AcquireReserve
<1>3. \A s \in inflight : s.worker # w
  BY DEF AcquireReserve, MayCall, Busy
<1>4. r.op = "acquire" /\ r.worker = w /\ r.token = t /\ r.job = j
  OBVIOUS
<1> HIDE DEF r
<1>5. OneRequest'
  BY <1>2, <1>3, <1>4 DEF OneRequest
<1>6. OneLease' /\ LeaseOrder'
  BY <1>2 DEF OneLease, LeaseLive, LeaseOrder, Leased
<1>7. AcquireSound'
  <2>1. \A s \in inflight : s.op = "acquire" /\ lease[s.token].status = "ABSENT" =>
            s.job \in Jobs /\ s.job # j
    BY <1>1, RunFields DEF AcquireSound
  <2> QED
    BY <1>1, <1>2, <1>4, <2>1 DEF AcquireSound
<1>8. FinishSound'
  BY <1>2, <1>4 DEF FinishSound, HoldsLease, LeaseLive, RunsAny, Running
<1>9. LeaseSound'
  <2> SUFFICES ASSUME NEW u \in Tokens, LeaseLive(u), ~Finishing(u)'
               PROVE  GoodFor(u, lease[u].worker, lease[u].job)'
    BY <1>2 DEF LeaseSound, LeaseLive
  <2>1. GoodFor(u, lease[u].worker, lease[u].job) /\ lease[u].job \in Jobs
    BY <1>2, LeaseFields DEF LeaseSound, Finishing, LeaseLive
  <2>2. lease[u].job # j
    BY <1>1, <2>1 DEF GoodFor
  <2> QED
    BY <1>1, <1>2, <2>1, <2>2 DEF GoodFor, RunsAny, RunsOf, Running
<1>10. WorkerHeld'
  BY <1>2 DEF WorkerHeld, HoldsLease
<1>11. RunHasOwner'
  <2>1. \A e \in Execs : Running(e) => Owner(e) /\ exec[e].job \in Jobs
    BY RunOwner, RunFields
  <2> QED
    BY <1>1, <1>2, <2>1 DEF RunHasOwner, Owner, Running, HoldsLease
<1> QED
  BY <1>5, <1>6, <1>7, <1>8, <1>9, <1>10, <1>11

\* Without faults its token is nobody else's and its worker has no job.
LEMMA AcquireReserveTies ==
    ASSUME Base, TieInv, Faults = {},
           NEW w \in Workers, NEW t \in Tokens, NEW j \in Jobs, AcquireReserve(w, t, j)
    PROVE  TieInv'
<1> DEFINE r == [op |-> "acquire", worker |-> w, token |-> t, job |-> j]
<1> USE DEF TieInv, Base
<1>1. /\ job'[j].token = t
      /\ \A k \in Jobs \ {j} : job'[k] = job[k]
  BY DEF AcquireReserve, ReserveJob, Reservable, Candidates, WriteReservation, Moved,
         TypeInv, TypeOK, WorkersTypeOK, JobsTypeOK, JobRow
<1>2. /\ inflight' = inflight \cup {r}
      /\ worker' = worker /\ lease' = lease
  BY DEF AcquireReserve
<1>3. /\ lease[t].status = "ABSENT" /\ worker[w].current = NoJob
      /\ \A s \in inflight : s.token # t
      /\ \A k \in Jobs : job[k].token # t
  BY DEF AcquireReserve, UsedToken
<1>4. r.op = "acquire" /\ r.worker = w /\ r.token = t /\ r.job = j
  OBVIOUS
<1> HIDE DEF r
<1>5. AcquireAlone'
  BY <1>2, <1>3, <1>4 DEF AcquireAlone
<1>6. TokenOfOneJob'
  BY <1>1, <1>3 DEF TokenOfOneJob
<1>7. FinishSettled'
  BY <1>1, <1>2, <1>3, <1>4 DEF FinishSettled
<1>8. ReservationHasLease'
  BY <1>1, <1>2, <1>4 DEF ReservationHasLease
<1> QED
  BY <1>5, <1>6, <1>7, <1>8

\* A lease is written only for a worker that has none and is not at work, even
\* if it had a job when it asked for another.
LEMMA AcquirerFree ==
    ASSUME Base, OwnInv, NEW r \in inflight, AcquireLease(r)
    PROVE  /\ job[r.job].status = "RESERVED" /\ job[r.job].token = r.token
           /\ worker[r.worker].status = "IDLE"
           /\ \A t \in Tokens : ~HoldsLease(r.worker, t)
<1> DEFINE w == r.worker
           j == r.job
<1> USE DEF Base, OwnInv
<1>1. /\ w \in Workers /\ j \in Jobs /\ r.op = "acquire"
      /\ lease[r.token].status = "ABSENT" /\ MayTake(w, j)
  BY RunFields DEF AcquireLease
<1>2. job[j].status = "RESERVED" /\ job[j].token = r.token
  BY <1>1 DEF AcquireSound
<1>3. ~\E s \in inflight : s.op = "finish" /\ s.worker = w
  BY <1>1 DEF OneRequest
<1>4. ASSUME NEW t \in Tokens, HoldsLease(w, t)
      PROVE  FALSE
  <2>1. lease[t].worker = w /\ LeaseLive(t) /\ lease[t].job \in Jobs
    BY <1>4, LeaseFields DEF HoldsLease, LeaseLive
  <2>2. ~Finishing(t)
    BY <1>3, <2>1 DEF Finishing, FinishSound
  <2>3. GoodFor(t, w, lease[t].job)
    BY <2>1, <2>2 DEF LeaseSound
  <2>4. lease[t].job = j
    BY <1>1, <2>1, <2>3, WorkersAssumption DEF GoodFor, MayTake, Owned
  <2>5. r.token = t
    BY <1>2, <2>3, <2>4 DEF GoodFor
  <2> QED
    BY <1>1, <2>1, <2>5 DEF LeaseLive
<1>5. worker[w].status \notin Owned
  BY <1>1, <1>3, <1>4 DEF WorkerHeld
<1>6. worker[w].status # "ABSENT" /\ worker[w].status \in WorkerStatus
  BY <1>1 DEF IdleInv, RequesterKnown, TypeInv, TypeOK, WorkersTypeOK, WorkerRow
<1> QED
  BY <1>2, <1>4, <1>5, <1>6 DEF Owned, WorkerStatus

\* The second commit writes the lease, the newest there is, and puts the job
\* in the worker's record.
LEMMA AcquireLeaseKeeps ==
    ASSUME Base, Base', OwnInv, NEW r \in inflight, AcquireLease(r)
    PROVE  OwnInv'
<1> DEFINE w == r.worker
           t == r.token
           j == r.job
<1> USE DEF OwnInv, Base
<1>1. w \in Workers /\ t \in Tokens /\ j \in Jobs /\ r.op = "acquire"
  BY RunFields DEF AcquireLease
<1>2. /\ job[j].status = "RESERVED" /\ job[j].token = t
      /\ lease[t].status = "ABSENT"
      /\ worker[w].status = "IDLE"
      /\ \A u \in Tokens : ~HoldsLease(w, u)
  BY AcquirerFree DEF AcquireLease
<1>3. /\ worker'[w].status = "RESERVED" /\ worker'[w].current = j
      /\ \A x \in Workers \ {w} : worker'[x] = worker[x]
  BY <1>1, <1>2 DEF AcquireLease, MoveWorker, AllowedWorkerTransitions,
                    TypeInv, TypeOK, WorkersTypeOK, WorkerRow
<1>4. /\ lease'[t].status = "ACTIVE" /\ lease'[t].worker = w /\ lease'[t].job = j
      /\ lease'[t].id = Cardinality(Leased) + 1
      /\ \A u \in Tokens \ {t} : lease'[u] = lease[u]
  BY <1>1 DEF AcquireLease, Leased, TypeInv, TypeOK, WorkersTypeOK
<1>5. /\ inflight' = inflight \ {r} /\ job' = job /\ exec' = exec
      /\ \A s \in inflight' : /\ s \in inflight /\ s.worker # w
                              /\ s.op = "finish" => s.token # t
  BY <1>2 DEF AcquireLease, jobVars, OneRequest, FinishSound
<1>6. ~RunsAny(w)
  <2>1. \A e \in Execs : Running(e) => Owner(e)
    BY RunOwner
  <2> QED
    BY <1>2, <2>1 DEF RunsAny, Owner
<1> HIDE DEF w, t, j
<1>7. OneRequest'
  BY <1>5 DEF OneRequest
<1>8. OneLease'
  BY <1>1, <1>2, <1>4 DEF OneLease, LeaseLive, HoldsLease
<1>9. AcquireSound'
  BY <1>1, <1>4, <1>5, RunFields DEF AcquireSound
<1>10. FinishSound'
  BY <1>1, <1>3, <1>4, <1>5, RunFields
  DEF FinishSound, HoldsLease, LeaseLive, RunsAny, Running
<1>11. LeaseSound'
  <2> SUFFICES ASSUME NEW u \in Tokens, LeaseLive(u)', ~Finishing(u)'
               PROVE  GoodFor(u, lease[u].worker, lease[u].job)'
    BY DEF LeaseSound
  <2>1. CASE u = t
    BY <1>1, <1>2, <1>3, <1>4, <1>5, <1>6, <2>1 DEF GoodFor, RunsAny, Running
  <2>2. CASE u # t
    <3>1. lease'[u] = lease[u] /\ LeaseLive(u) /\ ~Finishing(u)
      BY <1>1, <1>4, <1>5, <2>2 DEF LeaseLive, Finishing
    <3>2. GoodFor(u, lease[u].worker, lease[u].job) /\ lease[u].worker \in Workers \ {w}
      BY <1>2, <3>1, LeaseFields DEF LeaseSound, LeaseLive, HoldsLease
    <3> QED
      BY <1>3, <1>5, <3>1, <3>2 DEF GoodFor, RunsAny, RunsOf, Running
  <2> QED
    BY <2>1, <2>2
<1>12. WorkerHeld'
  BY <1>1, <1>2, <1>3, <1>4, <1>5 DEF WorkerHeld, HoldsLease
<1>13. LeaseOrder'
  <2>1. Leased' = Leased \cup {t} /\ t \notin Leased /\ Leased \subseteq Tokens
    BY <1>1, <1>2, <1>4 DEF Leased
  <2>2. IsFiniteSet(Leased) /\ Cardinality(Leased) \in Nat
    BY <2>1, WorkersAssumption, FS_Subset, FS_CardinalityType
  <2>3. Cardinality(Leased') = Cardinality(Leased) + 1
    BY <2>1, <2>2, FS_AddElement
  <2>4. \A u \in Leased : lease'[u] = lease[u] /\ lease[u].id \in Nat
    BY <1>4, <2>1, LeaseFields
  <2>5. \A u \in Leased : LeaseLive(u) => lease[u].worker # w
    BY <1>2, <2>1 DEF LeaseLive, HoldsLease
  <2> DEFINE n == Cardinality(Leased)
  <2>6. /\ \A u \in Leased : lease[u].id <= n
        /\ \A u, v \in Leased : lease[u].id = lease[v].id => u = v
        /\ \A u, v \in Leased : LeaseLive(u) /\ lease[u].worker = lease[v].worker =>
                                    lease[v].id <= lease[u].id
    BY DEF LeaseOrder
  <2> HIDE DEF n
  <2>7. /\ \A u \in Leased' : lease'[u].id <= n + 1
        /\ \A u, v \in Leased' : lease'[u].id = lease'[v].id => u = v
        /\ \A u, v \in Leased' : LeaseLive(u)' /\ lease'[u].worker = lease'[v].worker =>
                                    lease'[v].id <= lease'[u].id
    BY <1>4, <2>1, <2>2, <2>4, <2>5, <2>6 DEF n, LeaseLive
  <2> QED
    BY <2>3, <2>7 DEF LeaseOrder, n
<1>14. RunHasOwner'
  <2>1. \A e \in Execs : Running(e) => Owner(e) /\ exec[e].worker \in Workers \ {w}
    BY <1>6, RunOwner, RunFields DEF RunsAny
  <2>2. \A e \in Execs : Running(e) => job[exec[e].job].token # t
    BY <1>2, <2>1 DEF Owner, HoldsLease
  <2> QED
    BY <1>3, <1>4, <1>5, <2>1, <2>2 DEF RunHasOwner, Owner, Running, HoldsLease
<1> QED
  BY <1>7, <1>8, <1>9, <1>10, <1>11, <1>12, <1>13, <1>14

\* The reservation then has its lease.
LEMMA AcquireLeaseTies ==
    ASSUME Base, OwnInv, TieInv, NEW r \in inflight, AcquireLease(r)
    PROVE  TieInv'
<1> DEFINE w == r.worker
           t == r.token
           j == r.job
<1> USE DEF TieInv, Base
<1>1. w \in Workers /\ t \in Tokens /\ j \in Jobs /\ r.op = "acquire"
  BY RunFields DEF AcquireLease
<1>2. job[j].token = t /\ lease[t].status = "ABSENT"
  BY AcquirerFree DEF AcquireLease
<1>3. /\ lease'[t].status = "ACTIVE" /\ lease'[t].job = j
      /\ \A u \in Tokens \ {t} : lease'[u] = lease[u]
      /\ \A x \in Workers \ {w} : worker'[x] = worker[x]
  BY <1>1 DEF AcquireLease, TypeInv, TypeOK, WorkersTypeOK
<1>4. /\ inflight' = inflight \ {r} /\ job' = job
      /\ \A s \in inflight' : s.worker \in Workers \ {w} /\ s.token \in Tokens
  BY RunFields DEF AcquireLease, jobVars, OwnInv, OneRequest
<1> HIDE DEF w, t, j
<1>5. AcquireAlone'
  <2>1. \A s \in inflight' : s.token # t
    BY <1>1, <1>4 DEF AcquireAlone, t
  <2> QED
    BY <1>3, <1>4, <2>1 DEF AcquireAlone
<1>6. TokenOfOneJob' /\ FinishSettled'
  BY <1>4 DEF TokenOfOneJob, FinishSettled
<1>7. ReservationHasLease'
  <2> SUFFICES ASSUME NEW k \in Jobs, job[k].status = "RESERVED",
                      ~\E s \in inflight' : s.op = "acquire" /\ s.job = k
               PROVE  \E u \in Tokens : /\ u = job[k].token
                                        /\ lease'[u].status = "ACTIVE" /\ lease'[u].job = k
    BY <1>4 DEF ReservationHasLease
  <2>1. CASE k = j
    BY <1>1, <1>2, <1>3, <2>1
  <2>2. CASE k # j
    <3>1. ~\E s \in inflight : s.op = "acquire" /\ s.job = k
      BY <1>4, <2>2 DEF j
    <3> QED
      BY <1>2, <1>3, <3>1 DEF ReservationHasLease
  <2> QED
    BY <2>1, <2>2
<1> QED
  BY <1>5, <1>6, <1>7

-----------------------------------------------------------------------------
(* Running and settling                                                     *)

\* A start finds job and worker reserved, and leaves both running with a run.
LEMMA StartKeeps ==
    ASSUME Base, Base', OwnInv, "overlap" \notin Faults,
           NEW w \in Workers, NEW t \in Tokens, NEW e \in Execs, StartExecution(w, t, e)
    PROVE  OwnInv'
<1> DEFINE j == lease[t].job
<1> USE DEF OwnInv, Base
<1>1. HoldsLease(w, t) /\ ~Busy(w) /\ j \in Jobs
  BY LeaseFields DEF StartExecution, MayStart, MayCall, HoldsLease
<1>2. GoodFor(t, w, j) /\ ~Finishing(t)
  BY <1>1, WorkerAtRest
<1>3. job[j].status = "RESERVED" /\ worker[w].status = "RESERVED" /\ ~RunsAny(w)
  BY <1>2 DEF GoodFor, RunsOf, StartExecution, MayStart, HasRun
<1>4. /\ exec'[e] = [status |-> "STARTED", worker |-> w, job |-> j]
      /\ ~Running(e)
      /\ \A d \in Execs \ {e} : exec'[d] = exec[d]
  BY DEF StartExecution, NextRow, Running, TypeInv, TypeOK, WorkersTypeOK
<1>5. /\ job'[j].status = "RUNNING" /\ job'[j].token = t
      /\ \A k \in Jobs \ {j} : job'[k] = job[k]
  BY <1>1, <1>2, <1>3 DEF StartExecution, Started, Moved, GoodFor,
                          TypeInv, TypeOK, WorkersTypeOK, JobsTypeOK, JobRow
<1>6. /\ worker'[w].status = "RUNNING" /\ worker'[w].current = j
      /\ \A x \in Workers \ {w} : worker'[x] = worker[x]
  BY <1>2, <1>3 DEF StartExecution, MoveWorker, AllowedWorkerTransitions, GoodFor,
                    TypeInv, TypeOK, WorkersTypeOK, WorkerRow
<1>7. lease' = lease /\ inflight' = inflight
  BY DEF StartExecution
<1>8. /\ exec'[e].status = "STARTED" /\ exec'[e].worker = w /\ exec'[e].job = j
      /\ lease[t].status = "ACTIVE" /\ lease[t].worker = w /\ lease[t].job = j
      /\ \A r \in inflight : r.worker # w
      /\ job[j].token = t
  BY <1>1, <1>2, <1>4 DEF HoldsLease, Busy, GoodFor
<1> HIDE DEF j
<1>9. OneRequest' /\ OneLease' /\ LeaseOrder'
  BY <1>7 DEF OneRequest, OneLease, LeaseLive, LeaseOrder, Leased
<1>11. AcquireSound'
  <2>1. \A r \in inflight : r.op = "acquire" => r.job \in Jobs
    BY RunFields
  <2>2. \A r \in inflight : r.op = "acquire" /\ r.job = j => lease[r.token].status # "ABSENT"
    BY <1>8 DEF AcquireSound
  <2> QED
    BY <1>5, <1>7, <2>1, <2>2 DEF AcquireSound
<1>12. FinishSound'
  <2>1. \A r \in inflight : r.worker \in Workers \ {w}
    BY <1>8, RunFields
  <2>3. \A x \in Workers \ {w} : RunsAny(x)' <=> RunsAny(x)
    BY <1>4, <1>8 DEF RunsAny, Running
  <2> QED
    BY <1>6, <1>7, <2>1, <2>3 DEF FinishSound, HoldsLease, LeaseLive
<1>13. LeaseSound'
  <2> SUFFICES ASSUME NEW u \in Tokens, LeaseLive(u), ~Finishing(u)
               PROVE  GoodFor(u, lease[u].worker, lease[u].job)'
    BY <1>7 DEF LeaseSound, LeaseLive, Finishing
  <2>1. CASE u = t
    BY <1>4, <1>5, <1>6, <1>7, <1>8, <2>1 DEF GoodFor, RunsOf, Running
  <2>2. CASE u # t
    <3>1. /\ GoodFor(u, lease[u].worker, lease[u].job)
          /\ lease[u].worker \in Workers /\ lease[u].job \in Jobs
      BY LeaseFields DEF LeaseSound, LeaseLive
    <3>2. lease[u].worker # w /\ lease[u].job # j
      BY <1>8, <2>2, <3>1 DEF OneLease, LeaseLive, GoodFor
    <3> DEFINE x == lease[u].worker
               k == lease[u].job
    <3>3. (RunsAny(x)' <=> RunsAny(x)) /\ RunsOf(x, k)' = RunsOf(x, k)
      BY <1>4, <1>7, <1>8, <3>2 DEF RunsAny, RunsOf, Running
    <3> QED
      BY <1>5, <1>6, <1>7, <3>1, <3>2, <3>3 DEF GoodFor
  <2> QED
    BY <2>1, <2>2
<1>14. WorkerHeld'
  BY <1>6, <1>7, <1>8 DEF WorkerHeld, HoldsLease
<1>15. RunHasOwner'
  <2>1. \A d \in Execs : Running(d) =>
            Owner(d) /\ exec[d].worker \in Workers \ {w} /\ exec[d].job \in Jobs \ {j}
    BY <1>3, RunOwner, RunFields DEF RunsAny, Owner
  <2>2. \A d \in Execs \ {e} : Running(d)' => Owner(d)'
    BY <1>4, <1>5, <1>6, <1>7, <2>1 DEF Owner, Running, HoldsLease
  <2>3. Owner(e)'
    BY <1>5, <1>6, <1>7, <1>8 DEF Owner, HoldsLease
  <2> QED
    BY <2>2, <2>3 DEF RunHasOwner, Owner
<1> QED
  BY <1>9, <1>11, <1>12, <1>13, <1>14, <1>15

\* The start reserves nothing and changes no token.
LEMMA StartTies ==
    ASSUME Base, OwnInv, TieInv, "overlap" \notin Faults,
           NEW w \in Workers, NEW t \in Tokens, NEW e \in Execs, StartExecution(w, t, e)
    PROVE  TieInv'
<1> DEFINE j == lease[t].job
<1> USE DEF TieInv, OwnInv, Base
<1>1. HoldsLease(w, t) /\ ~Busy(w) /\ j \in Jobs
  BY LeaseFields DEF StartExecution, MayStart, MayCall, HoldsLease
<1>2. GoodFor(t, w, j)
  BY <1>1, WorkerAtRest
<1>3. job[j].status = "RESERVED" /\ job[j].token = t
  BY <1>2 DEF GoodFor, RunsOf, RunsAny, StartExecution, MayStart, HasRun
<1>4. /\ job'[j].status = "RUNNING" /\ job'[j].token = job[j].token
      /\ \A k \in Jobs \ {j} : job'[k] = job[k]
  BY <1>1, <1>3 DEF StartExecution, Started, Moved,
                    TypeInv, TypeOK, WorkersTypeOK, JobsTypeOK, JobRow
<1>5. \A x \in Workers : worker'[x].current = worker[x].current
  BY DEF StartExecution, MoveWorker, TypeInv, TypeOK, WorkersTypeOK, WorkerRow
<1>6. lease' = lease /\ inflight' = inflight
  BY DEF StartExecution
<1> HIDE DEF j
<1>7. AcquireAlone'
  BY <1>5, <1>6, RunFields DEF AcquireAlone
<1>8. TokenOfOneJob' /\ FinishSettled'
  BY <1>4, <1>6 DEF TokenOfOneJob, FinishSettled
<1>9. ReservationHasLease'
  BY <1>4, <1>6 DEF ReservationHasLease
<1> QED
  BY <1>7, <1>8, <1>9

\* The first commit of a completion or a failure ends the worker's only run
\* and takes the token off its job.
LEMMA SettleKeeps ==
    ASSUME Base, Base', OwnInv, "overlap" \notin Faults,
           NEW w \in Workers, NEW t \in Tokens, NEW e \in Execs,
           CompleteExecution(w, t, e) \/ \E reason \in Reasons : FailExecution(w, t, e, reason)
    PROVE  OwnInv'
<1> DEFINE j == lease[t].job
           r == [op |-> "finish", worker |-> w, token |-> t, job |-> j]
<1> USE DEF OwnInv, Base
<1>1. SettlesRun(w, t, e)
  BY DEF CompleteExecution, FailExecution
<1>2. /\ HoldsLease(w, t) /\ ~Busy(w) /\ j \in Jobs
      /\ Running(e) /\ exec[e].worker = w /\ exec[e].job = j
  BY <1>1, LeaseFields DEF SettlesRun, NewestRun, MayCall, HoldsLease, RunsOf
<1>3. GoodFor(t, w, j) /\ ~Finishing(t)
  BY <1>2, WorkerAtRest
<1>4. /\ job[j].status = "RUNNING" /\ job[j].token = t
      /\ worker[w].status = "RUNNING" /\ worker[w].current = j
  BY <1>2, <1>3 DEF GoodFor, RunsAny
<1>5. \E s \in {"COMPLETED", "FAILED"} : RunEnds(e, j, s)
  BY SettleIsRunEnd
<1>6. /\ job'[j].status \in {"COMPLETED", "FAILED"} /\ job'[j].token = NoToken
      /\ \A k \in Jobs \ {j} : job'[k] = job[k]
      /\ ~Running(e)' /\ \A d \in Execs \ {e} : exec'[d] = exec[d]
  <2>1. MarkCompleted(j, t) \/ \E k \in FailureKeys : MarkFailed(j, t, k)
    BY WorkersAssumption DEF CompleteExecution, FailExecution
  <2>2. OneJob(j)
    BY <1>2, <2>1, SettleStep DEF TypeInv, TypeOK, WorkersTypeOK
  <2>3. RowStep(j, job[j], job'[j])
    BY <2>2 DEF OneJob
  <2> HIDE DEF j
  <2> QED
    BY <1>4, <1>5, <2>2, <2>3 DEF RowStep, RunEnds, Running, Owned
<1>7. inflight' = inflight \cup {r} /\ lease' = lease /\ worker' = worker
  BY <1>1 DEF SettlesRun, CompleteExecution, FailExecution
<1>8. r.op = "finish" /\ r.worker = w /\ r.token = t /\ r.job = j
  OBVIOUS
<1>9. /\ lease[t].status = "ACTIVE" /\ lease[t].worker = w /\ lease[t].job = j
      /\ \A s \in inflight : s.worker # w
  BY <1>2 DEF HoldsLease, Busy
<1>10. \A d \in Execs \ {e} : Running(d) =>
           /\ Owner(d) /\ exec[d].job \in Jobs \ {j} /\ exec[d].worker \in Workers \ {w}
  <2> SUFFICES ASSUME NEW d \in Execs \ {e}, Running(d)
               PROVE  Owner(d) /\ exec[d].job # j /\ exec[d].worker # w
    BY RunFields
  <2>1. Owner(d)
    BY RunOwner
  <2>2. exec[d].job # j
    BY <1>2 DEF RunInv, OneRunPerJob
  <2>3. exec[d].worker # w
    BY <1>4, <2>1, <2>2 DEF Owner
  <2> QED
    BY <2>1, <2>2, <2>3
<1> HIDE DEF j, r
<1>11. OneRequest'
  BY <1>7, <1>8, <1>9 DEF OneRequest
<1>13. OneLease' /\ LeaseOrder'
  BY <1>7 DEF OneLease, LeaseLive, LeaseOrder, Leased
<1>14. AcquireSound'
  <2>1. \A s \in inflight' : s.op = "acquire" => s \in inflight /\ s.job \in Jobs
    BY <1>7, <1>8, RunFields
  <2>2. \A s \in inflight : s.op = "acquire" /\ s.job = j => lease[s.token].status # "ABSENT"
    BY <1>4 DEF AcquireSound
  <2> QED
    BY <1>6, <1>7, <2>1, <2>2 DEF AcquireSound
<1>15. FinishSound'
  <2>2. ~RunsAny(w)'
    BY <1>6, <1>10 DEF RunsAny, Running
  <2>3. \A u \in Tokens : HoldsLease(w, u) => u = t
    BY <1>9 DEF OneLease, LeaseLive, HoldsLease
  <2>4. \A x : RunsAny(x)' => RunsAny(x)
    BY <1>6 DEF RunsAny, Running
  <2> QED
    BY <1>4, <1>7, <1>8, <1>9, <2>2, <2>3, <2>4 DEF FinishSound, HoldsLease, LeaseLive
<1>16. LeaseSound'
  <2> SUFFICES ASSUME NEW u \in Tokens, LeaseLive(u), ~Finishing(u), u # t
               PROVE  GoodFor(u, lease[u].worker, lease[u].job)'
    BY <1>7, <1>8 DEF LeaseSound, LeaseLive, Finishing
  <2> DEFINE x == lease[u].worker
             k == lease[u].job
  <2>1. GoodFor(u, x, k) /\ x \in Workers /\ k \in Jobs
    BY LeaseFields DEF LeaseSound, LeaseLive
  <2>2. x # w /\ k # j
    BY <1>4, <1>9, <2>1 DEF OneLease, LeaseLive, GoodFor
  <2>3. (RunsAny(x)' <=> RunsAny(x)) /\ RunsOf(x, k)' = RunsOf(x, k)
    BY <1>2, <1>6, <1>7, <2>2 DEF RunsAny, RunsOf, Running
  <2>4. lease'[u] = lease[u] /\ worker'[x] = worker[x] /\ job'[k] = job[k]
    BY <1>6, <1>7, <2>1, <2>2
  <2> QED
    BY <2>1, <2>3, <2>4 DEF GoodFor
<1>17. WorkerHeld'
  BY <1>7 DEF WorkerHeld, HoldsLease
<1>18. RunHasOwner'
  BY <1>6, <1>7, <1>10 DEF RunHasOwner, Owner, Running, HoldsLease
<1> QED
  BY <1>11, <1>13, <1>14, <1>15, <1>16, <1>17, <1>18

\* It takes the token off the one job that has it.
LEMMA SettleTies ==
    ASSUME Base, OwnInv, TieInv, "overlap" \notin Faults,
           NEW w \in Workers, NEW t \in Tokens, NEW e \in Execs,
           CompleteExecution(w, t, e) \/ \E reason \in Reasons : FailExecution(w, t, e, reason)
    PROVE  TieInv'
<1> DEFINE j == lease[t].job
           r == [op |-> "finish", worker |-> w, token |-> t, job |-> j]
<1> USE DEF TieInv, OwnInv, Base
<1>1. SettlesRun(w, t, e)
  BY DEF CompleteExecution, FailExecution
<1>2. HoldsLease(w, t) /\ j \in Jobs /\ ~Busy(w)
  BY <1>1, LeaseFields DEF SettlesRun, NewestRun, MayCall, HoldsLease
<1>3. MarkCompleted(j, t) \/ \E k \in FailureKeys : MarkFailed(j, t, k)
  BY WorkersAssumption DEF CompleteExecution, FailExecution
<1>4. job[j].token = t /\ job[j].status \in Owned
  BY <1>2, WorkerAtRest DEF GoodFor, Owned
<1>5. /\ job'[j].status \notin Owned /\ job'[j].token = NoToken
      /\ \A k \in Jobs \ {j} : job'[k] = job[k]
  <2>1. OneJob(j)
    BY <1>2, <1>3, SettleStep DEF TypeInv, TypeOK, WorkersTypeOK
  <2>2. \E s \in {"COMPLETED", "FAILED"} : RunEnds(e, j, s)
    BY SettleIsRunEnd
  <2>3. RowStep(j, job[j], job'[j])
    BY <2>1 DEF OneJob
  <2> HIDE DEF j
  <2> QED
    BY <1>4, <2>1, <2>2, <2>3 DEF OneJob, RowStep, RunEnds, Owned
<1>6. inflight' = inflight \cup {r} /\ lease' = lease /\ worker' = worker
  BY <1>1 DEF SettlesRun, CompleteExecution, FailExecution
<1>7. r.op = "finish" /\ r.token = t /\ t # NoToken /\ lease[t].status # "ABSENT"
  BY <1>2, JobsAssumption DEF HoldsLease
<1> HIDE DEF j, r
<1>8. AcquireAlone'
  BY <1>6, <1>7 DEF AcquireAlone
<1>9. TokenOfOneJob'
  BY <1>5 DEF TokenOfOneJob
<1>10. FinishSettled'
  <2>1. \A k \in Jobs : job'[k].token # t /\ job'[k].token \in {job[k].token, NoToken}
    BY <1>2, <1>4, <1>5, <1>7 DEF TokenOfOneJob
  <2>2. \A s \in inflight : s.token # NoToken
    BY RunFields, JobsAssumption
  <2> QED
    BY <1>6, <1>7, <2>1, <2>2 DEF FinishSettled
<1>11. ReservationHasLease'
  BY <1>5, <1>6, <1>7 DEF ReservationHasLease, Owned
<1> QED
  BY <1>8, <1>9, <1>10, <1>11

\* The second commit of a completion or a failure releases the lease and frees
\* the worker without looking at them, and finds nothing of anybody else's.
LEMMA FinishKeeps ==
    ASSUME Base, Base', OwnInv, NEW r \in inflight, FinishExecution(r)
    PROVE  OwnInv'
<1> DEFINE w == r.worker
           t == r.token
<1> USE DEF OwnInv, Base
<1>1. w \in Workers /\ t \in Tokens /\ r.op = "finish"
  BY RunFields DEF FinishExecution
<1>2. /\ lease[t].status \in {"ACTIVE", "EXPIRED"} /\ lease[t].worker = w
      /\ \A u \in Tokens : HoldsLease(w, u) => u = t
      /\ worker[w].status = "RUNNING" /\ ~RunsAny(w)
  BY <1>1 DEF FinishSound
<1>3. /\ worker'[w].status = "IDLE" /\ worker'[w].current = NoJob
      /\ \A x \in Workers \ {w} : worker'[x] = worker[x]
  BY <1>1, <1>2 DEF FinishExecution, MoveWorker, AllowedWorkerTransitions,
                    TypeInv, TypeOK, WorkersTypeOK, WorkerRow
<1>4. /\ lease'[t].status = "RELEASED" /\ lease'[t].worker = w
      /\ lease'[t].job = lease[t].job /\ lease'[t].id = lease[t].id
      /\ \A u \in Tokens \ {t} : lease'[u] = lease[u]
  <2>1. lease[t] \in LeaseRow
    BY <1>1, <1>2 DEF TypeInv, TypeOK, WorkersTypeOK, AbsentLease
  <2> QED
    BY <1>1, <1>2, <2>1 DEF FinishExecution, TypeInv, TypeOK, WorkersTypeOK, LeaseRow
<1>5. /\ inflight' = inflight \ {r} /\ job' = job /\ exec' = exec
      /\ \A s \in inflight' : /\ s \in inflight /\ s.worker \in Workers \ {w}
                              /\ s.op = "finish" => s.token # t
  BY <1>2, RunFields DEF FinishExecution, jobVars, OneRequest, FinishSound
<1> HIDE DEF w, t
<1>6. OneRequest'
  BY <1>5 DEF OneRequest
<1>7. OneLease'
  BY <1>1, <1>4 DEF OneLease, LeaseLive
<1>8. AcquireSound'
  BY <1>2, <1>4, <1>5, RunFields DEF AcquireSound
<1>9. FinishSound'
  BY <1>3, <1>4, <1>5, RunFields DEF FinishSound, HoldsLease, LeaseLive, RunsAny, Running
<1>10. LeaseSound'
  <2> SUFFICES ASSUME NEW u \in Tokens, LeaseLive(u)', ~Finishing(u)'
               PROVE  GoodFor(u, lease[u].worker, lease[u].job)'
    BY DEF LeaseSound
  <2>1. u # t /\ lease'[u] = lease[u] /\ LeaseLive(u) /\ ~Finishing(u)
    BY <1>4, <1>5 DEF LeaseLive, Finishing, t
  <2>2. GoodFor(u, lease[u].worker, lease[u].job) /\ lease[u].worker \in Workers \ {w}
    BY <1>2, <2>1, LeaseFields DEF LeaseSound, LeaseLive, HoldsLease
  <2> QED
    BY <1>3, <1>5, <2>1, <2>2 DEF GoodFor, RunsAny, RunsOf, Running
<1>11. WorkerHeld'
  <2> SUFFICES ASSUME NEW x \in Workers, worker'[x].status \in Owned
               PROVE  \/ \E u \in Tokens : HoldsLease(x, u)'
                      \/ \E s \in inflight' : s.op = "finish" /\ s.worker = x
    BY DEF WorkerHeld
  <2>1. x # w /\ worker[x].status \in Owned
    BY <1>3 DEF Owned
  <2>2. CASE \E u \in Tokens : HoldsLease(x, u)
    BY <1>2, <1>4, <2>1, <2>2 DEF HoldsLease
  <2>3. CASE \E s \in inflight : s.op = "finish" /\ s.worker = x
    BY <1>5, <2>1, <2>3 DEF w
  <2> QED
    BY <2>1, <2>2, <2>3 DEF WorkerHeld
<1>12. LeaseOrder'
  <2>1. Leased' = Leased
    BY <1>1, <1>2, <1>4 DEF Leased
  <2>2. \A u \in Leased : /\ lease'[u].id = lease[u].id
                          /\ lease'[u].worker = lease[u].worker
                          /\ LeaseLive(u)' => LeaseLive(u)
    BY <1>2, <1>4 DEF Leased, LeaseLive
  <2> QED
    BY <2>1, <2>2 DEF LeaseOrder
<1>13. RunHasOwner'
  <2>1. \A d \in Execs : Running(d) => Owner(d) /\ exec[d].worker \in Workers \ {w}
    BY <1>2, RunOwner, RunFields DEF RunsAny
  <2>2. \A d \in Execs : Running(d) => job[exec[d].job].token # t
    BY <1>2, <2>1 DEF Owner, HoldsLease
  <2> QED
    BY <1>3, <1>4, <1>5, <2>1, <2>2 DEF RunHasOwner, Owner, Running, HoldsLease
<1> QED
  BY <1>6, <1>7, <1>8, <1>9, <1>10, <1>11, <1>12, <1>13

\* No reservation has the token of the lease that is released.
LEMMA FinishTies ==
    ASSUME Base, OwnInv, TieInv, NEW r \in inflight, FinishExecution(r)
    PROVE  TieInv'
<1> DEFINE w == r.worker
           t == r.token
<1> USE DEF TieInv, OwnInv, Base
<1>1. /\ w \in Workers /\ t \in Tokens /\ r.op = "finish"
      /\ lease[t].status # "ABSENT" /\ \A k \in Jobs : job[k].token # t
  BY RunFields DEF FinishExecution, FinishSound, FinishSettled
<1>2. /\ \A x \in Workers \ {w} : worker'[x] = worker[x]
      /\ \A u \in Tokens \ {t} : lease'[u] = lease[u]
      /\ inflight' = inflight \ {r} /\ job' = job
      /\ \A s \in inflight' : s.worker \in Workers \ {w} /\ s.token \in Tokens
  BY RunFields DEF FinishExecution, jobVars, OneRequest, TypeInv, TypeOK, WorkersTypeOK
<1> HIDE DEF w, t
<1>3. AcquireAlone'
  BY <1>1, <1>2 DEF AcquireAlone
<1>4. TokenOfOneJob' /\ FinishSettled'
  BY <1>2 DEF TokenOfOneJob, FinishSettled
<1>5. ReservationHasLease'
  <2> SUFFICES ASSUME NEW k \in Jobs, job[k].status = "RESERVED",
                      ~\E s \in inflight' : s.op = "acquire" /\ s.job = k
               PROVE  \E u \in Tokens : /\ u = job[k].token
                                        /\ lease'[u].status = "ACTIVE" /\ lease'[u].job = k
    BY <1>2 DEF ReservationHasLease
  <2>1. ~\E s \in inflight : s.op = "acquire" /\ s.job = k
    BY <1>1, <1>2
  <2> QED
    BY <1>1, <1>2, <2>1 DEF ReservationHasLease
<1> QED
  BY <1>3, <1>4, <1>5

-----------------------------------------------------------------------------
(* Sweeping and recovering                                                  *)

\* A lease the sweep selects is either reserved with nothing run yet, or its
\* request is finishing.
LEMMA LapsedLease ==
    ASSUME Base, OwnInv, NEW t \in Lapsed
    PROVE  /\ t \in Tokens /\ LeaseLive(t)
           /\ lease[t].worker \in Workers /\ lease[t].job \in Jobs
           /\ worker[lease[t].worker].current = lease[t].job
           /\ \/ /\ ~Finishing(t)
                 /\ job[lease[t].job].status = "RESERVED" /\ job[lease[t].job].token = t
                 /\ worker[lease[t].worker].status = "RESERVED"
              \/ /\ \E r \in inflight : /\ r.op = "finish" /\ r.token = t
                                        /\ r.worker = lease[t].worker
                 /\ worker[lease[t].worker].status = "RUNNING"
<1> USE DEF Base, OwnInv
<1>1. /\ t \in Tokens /\ LeaseLive(t)
      /\ RunsOf(lease[t].worker, lease[t].job) = {}
      /\ lease[t].worker \in Workers /\ lease[t].job \in Jobs
  BY LeaseFields DEF Lapsed, LeaseLive
<1>2. CASE Finishing(t)
  <2>1. PICK r \in inflight : r.op = "finish" /\ r.token = t
    BY <1>2 DEF Finishing
  <2> QED
    BY <1>1, <2>1 DEF FinishSound
<1>3. CASE ~Finishing(t)
  BY <1>1, <1>3 DEF LeaseSound, GoodFor
<1> QED
  BY <1>1, <1>2, <1>3

\* What the sweep does to each lease, job and worker.
LEMMA SweepChanges ==
    ASSUME Base, OwnInv, ReleaseExpired
    PROVE  /\ \A t \in Tokens :
                 /\ lease'[t].worker = lease[t].worker /\ lease'[t].job = lease[t].job
                 /\ lease'[t].id = lease[t].id
                 /\ IF t \in Lapsed THEN lease'[t].status = "EXPIRED"
                                    ELSE lease'[t].status = lease[t].status
           /\ \A j \in Jobs :
                 \/ job'[j] = job[j]
                 \/ /\ job[j].status = "RESERVED" /\ job[j].token \in Lapsed
                    /\ job'[j].status = "AVAILABLE" /\ job'[j].token = NoToken
           /\ \A j \in Jobs, t \in Lapsed :
                 job[j].status = "RESERVED" /\ job[j].token = t /\ lease[t].job = j =>
                     job'[j].status = "AVAILABLE"
           /\ \A w \in Workers :
                 \/ worker'[w] = worker[w] /\ ~\E t \in Lapsed : lease[t].worker = w
                 \/ /\ \E t \in Lapsed : lease[t].worker = w
                    /\ worker'[w].current = NoJob
                    /\ worker'[w].status = IF worker[w].status = "RESERVED" THEN "IDLE"
                                                                  ELSE worker[w].status
           /\ exec' = exec /\ inflight' = inflight
<1> USE DEF Base
<1>1. ASSUME NEW t \in Tokens
      PROVE  /\ lease'[t].worker = lease[t].worker /\ lease'[t].job = lease[t].job
             /\ lease'[t].id = lease[t].id
             /\ IF t \in Lapsed THEN lease'[t].status = "EXPIRED"
                                ELSE lease'[t].status = lease[t].status
  <2>1. lease'[t] = SweptLease(t)
    BY DEF ReleaseExpired
  <2>2. CASE t \in Lapsed
    <3>1. lease[t] \in LeaseRow
      BY <2>2 DEF Lapsed, TypeInv, TypeOK, WorkersTypeOK, AbsentLease
    <3> QED
      BY <2>1, <2>2, <3>1 DEF SweptLease, LeaseRow
  <2>3. CASE t \notin Lapsed
    BY <2>1, <2>3 DEF SweptLease
  <2> QED
    BY <2>2, <2>3
<1>2. ASSUME NEW j \in Jobs
      PROVE  /\ \/ job'[j] = job[j]
                \/ /\ job[j].status = "RESERVED" /\ job[j].token \in Lapsed
                   /\ job'[j].status = "AVAILABLE" /\ job'[j].token = NoToken
             /\ \A t \in Lapsed :
                   job[j].status = "RESERVED" /\ job[j].token = t /\ lease[t].job = j =>
                       job'[j].status = "AVAILABLE"
  <2>1. job'[j] = SweptJob(j) /\ job[j] \in JobRow
    BY DEF ReleaseExpired, TypeInv, TypeOK, WorkersTypeOK, JobsTypeOK
  <2> QED
    BY <2>1 DEF SweptJob, JobRow
<1>3. ASSUME NEW w \in Workers
      PROVE  \/ worker'[w] = worker[w] /\ ~\E t \in Lapsed : lease[t].worker = w
             \/ /\ \E t \in Lapsed : lease[t].worker = w
                /\ worker'[w].current = NoJob
                /\ worker'[w].status = IF worker[w].status = "RESERVED" THEN "IDLE"
                                                              ELSE worker[w].status
  <2>1. worker'[w] = SweptWorker(w) /\ worker[w] \in WorkerRow
    BY DEF ReleaseExpired, TypeInv, TypeOK, WorkersTypeOK
  <2>2. CASE \E t \in Lapsed : lease[t].worker = w
    <3>1. \E t \in Lapsed : lease[t].worker = w /\ worker[w].current = lease[t].job
      BY <2>2, LapsedLease
    <3>2. SweptWorker(w) = [worker[w] EXCEPT !.current = NoJob,
                               !.status = IF @ = "RESERVED" THEN "IDLE" ELSE @]
      BY <3>1 DEF SweptWorker
    <3> QED
      BY <2>1, <2>2, <3>2 DEF WorkerRow
  <2>3. CASE ~\E t \in Lapsed : lease[t].worker = w
    BY <2>1, <2>3 DEF SweptWorker
  <2> QED
    BY <2>2, <2>3
<1>4. exec' = exec /\ inflight' = inflight
  BY DEF ReleaseExpired
<1> QED
  BY <1>1, <1>2, <1>3, <1>4

\* The sweep of lapsed leases takes exactly what those leases held: nobody
\* else's job, record or lease depends on them.
LEMMA SweepKeeps ==
    ASSUME Base, Base', OwnInv, ReleaseExpired
    PROVE  OwnInv'
<1> USE DEF OwnInv, Base
<1>1. /\ \A t \in Tokens :
            /\ lease'[t].worker = lease[t].worker /\ lease'[t].job = lease[t].job
            /\ lease'[t].id = lease[t].id
            /\ IF t \in Lapsed THEN lease'[t].status = "EXPIRED"
                               ELSE lease'[t].status = lease[t].status
      /\ exec' = exec /\ inflight' = inflight
  BY SweepChanges
<1>2. \A j \in Jobs : \/ job'[j] = job[j]
                      \/ /\ job[j].status = "RESERVED" /\ job[j].token \in Lapsed
                         /\ job'[j].status = "AVAILABLE" /\ job'[j].token = NoToken
  BY SweepChanges
<1>3. \A w \in Workers : (~\E t \in Lapsed : lease[t].worker = w) => worker'[w] = worker[w]
  BY SweepChanges
<1>4. \A t \in Lapsed : t \in Tokens /\ LeaseLive(t) /\ lease[t].worker \in Workers
  BY LapsedLease
<1>5. OneRequest' /\ OneLease'
  BY <1>1 DEF OneRequest, OneLease, LeaseLive
<1>7. AcquireSound'
  <2> SUFFICES ASSUME NEW r \in inflight, r.op = "acquire", lease'[r.token].status = "ABSENT"
               PROVE  job'[r.job].status = "RESERVED" /\ job'[r.job].token = r.token
    BY <1>1 DEF AcquireSound
  <2>1. r.token \in Tokens /\ r.job \in Jobs
    BY RunFields
  <2>2. r.token \notin Lapsed /\ lease[r.token].status = "ABSENT"
    BY <1>1, <2>1
  <2> QED
    BY <1>2, <2>1, <2>2 DEF AcquireSound
<1>8. FinishSound'
  <2> SUFFICES ASSUME NEW r \in inflight, r.op = "finish"
               PROVE  /\ lease'[r.token].status \in {"ACTIVE", "EXPIRED"}
                      /\ lease'[r.token].worker = r.worker
                      /\ \A t \in Tokens : HoldsLease(r.worker, t)' => t = r.token
                      /\ worker'[r.worker].status = "RUNNING"
                      /\ LeaseLive(r.token)' => worker'[r.worker].current = lease'[r.token].job
                      /\ ~LeaseLive(r.token)' => worker'[r.worker].current = NoJob
                      /\ ~RunsAny(r.worker)'
    BY <1>1 DEF FinishSound
  <2>1. /\ lease[r.token].status \in {"ACTIVE", "EXPIRED"}
        /\ lease[r.token].worker = r.worker
        /\ \A t \in Tokens : HoldsLease(r.worker, t) => t = r.token
        /\ worker[r.worker].status = "RUNNING"
        /\ LeaseLive(r.token) => worker[r.worker].current = lease[r.token].job
        /\ ~LeaseLive(r.token) => worker[r.worker].current = NoJob
        /\ ~RunsAny(r.worker)
    BY DEF FinishSound
  <2>2. r.worker \in Workers /\ r.token \in Tokens
    BY RunFields
  <2>3. \A t \in Lapsed : lease[t].worker = r.worker <=> t = r.token
    BY <1>4, <2>1 DEF HoldsLease, LeaseLive
  <2>4. /\ worker'[r.worker].status = "RUNNING"
        /\ r.token \in Lapsed => worker'[r.worker].current = NoJob
        /\ r.token \notin Lapsed => worker'[r.worker] = worker[r.worker]
    BY <2>1, <2>2, <2>3, SweepChanges
  <2>5. ~RunsAny(r.worker)'
    BY <1>1, <2>1 DEF RunsAny, Running
  <2>6. \A t \in Tokens : HoldsLease(r.worker, t)' => HoldsLease(r.worker, t)
    BY <1>1, <1>4 DEF HoldsLease, LeaseLive
  <2> QED
    BY <1>1, <1>4, <2>1, <2>2, <2>4, <2>5, <2>6 DEF LeaseLive
<1>9. LeaseSound'
  <2> SUFFICES ASSUME NEW t \in Tokens, LeaseLive(t)', ~Finishing(t)'
               PROVE  GoodFor(t, lease[t].worker, lease[t].job)'
    BY DEF LeaseSound
  <2>1. t \notin Lapsed /\ LeaseLive(t) /\ ~Finishing(t)
    BY <1>1, <1>4 DEF LeaseLive, Finishing
  <2>2. GoodFor(t, lease[t].worker, lease[t].job)
        /\ lease[t].worker \in Workers /\ lease[t].job \in Jobs
    BY <2>1, LeaseFields DEF LeaseSound, LeaseLive
  <2>3. ~\E u \in Lapsed : lease[u].worker = lease[t].worker
    BY <1>4, <2>1 DEF OneLease
  <2>4. worker'[lease[t].worker] = worker[lease[t].worker] /\ job'[lease[t].job] = job[lease[t].job]
    BY <1>2, <1>3, <2>1, <2>2, <2>3 DEF GoodFor
  <2> QED
    BY <1>1, <2>2, <2>4 DEF GoodFor, RunsAny, RunsOf, Running
<1>10. WorkerHeld'
  <2> SUFFICES ASSUME NEW w \in Workers, worker'[w].status \in Owned
               PROVE  \/ \E t \in Tokens : HoldsLease(w, t)'
                      \/ \E r \in inflight : r.op = "finish" /\ r.worker = w
    BY <1>1 DEF WorkerHeld
  <2>1. worker[w].status \in Owned
    BY SweepChanges DEF Owned
  <2>2. CASE \E t \in Lapsed : lease[t].worker = w
    <3>1. PICK t \in Lapsed : lease[t].worker = w
      BY <2>2
    <3>2. worker[w].status # "RESERVED"
      BY <2>2, SweepChanges DEF Owned
    <3> QED
      BY <3>1, <3>2, LapsedLease
  <2>3. CASE ~\E t \in Lapsed : lease[t].worker = w
    BY <1>1, <2>1, <2>3 DEF WorkerHeld, HoldsLease
  <2> QED
    BY <2>2, <2>3
<1>11. LeaseOrder'
  <2>1. Leased' = Leased
    BY <1>1, <1>4 DEF Leased, LeaseLive
  <2>2. \A t \in Leased : /\ lease'[t].id = lease[t].id
                          /\ lease'[t].worker = lease[t].worker
                          /\ LeaseLive(t)' => LeaseLive(t)
    BY <1>1 DEF Leased, LeaseLive
  <2> QED
    BY <2>1, <2>2 DEF LeaseOrder
<1>12. RunHasOwner'
  <2> SUFFICES ASSUME NEW e \in Execs, Running(e)
               PROVE  Owner(e)'
    BY <1>1 DEF RunHasOwner, Owner, Running
  <2>1. Owner(e) /\ exec[e].worker \in Workers /\ exec[e].job \in Jobs
    BY RunFields, RunOwner
  <2> DEFINE t == job[exec[e].job].token
  <2>2. t \in Tokens /\ LeaseLive(t) /\ lease[t].worker = exec[e].worker
        /\ lease[t].job = exec[e].job
    BY <2>1 DEF Owner, HoldsLease, LeaseLive
  <2>3. t \notin Lapsed
    BY <2>2 DEF Lapsed, RunsOf
  <2>4. ~\E u \in Lapsed : lease[u].worker = exec[e].worker
    BY <1>4, <2>2, <2>3 DEF OneLease
  <2>5. worker'[exec[e].worker] = worker[exec[e].worker] /\ job'[exec[e].job] = job[exec[e].job]
    BY <1>2, <1>3, <2>1, <2>4 DEF Owner
  <2>6. lease'[t].status = lease[t].status /\ lease'[t].worker = lease[t].worker
        /\ lease'[t].job = lease[t].job
    BY <1>1, <2>2, <2>3
  <2> QED
    BY <1>1, <2>1, <2>5, <2>6 DEF Owner, HoldsLease
<1> QED
  BY <1>5, <1>7, <1>8, <1>9, <1>10, <1>11, <1>12

\* A reservation that keeps its status keeps its lease.
LEMMA SweepTies ==
    ASSUME Base, OwnInv, TieInv, ReleaseExpired
    PROVE  TieInv'
<1> USE DEF TieInv, Base
<1>1. /\ \A t \in Tokens :
            /\ lease'[t].job = lease[t].job
            /\ IF t \in Lapsed THEN lease'[t].status = "EXPIRED"
                               ELSE lease'[t].status = lease[t].status
      /\ inflight' = inflight
      /\ \A t \in Lapsed : LeaseLive(t)
  BY SweepChanges, LapsedLease
<1>2. \A j \in Jobs : \/ job'[j] = job[j]
                      \/ job'[j].status = "AVAILABLE" /\ job'[j].token = NoToken
  BY SweepChanges
<1>3. \A w \in Workers : worker'[w].current \in {worker[w].current, NoJob}
  BY SweepChanges
<1>4. AcquireAlone'
  BY <1>1, <1>3, RunFields DEF AcquireAlone, LeaseLive
<1>5. TokenOfOneJob'
  BY <1>2 DEF TokenOfOneJob
<1>6. FinishSettled'
  BY <1>1, <1>2, RunFields, JobsAssumption DEF FinishSettled
<1>7. ReservationHasLease'
  <2> SUFFICES ASSUME NEW j \in Jobs, job'[j].status = "RESERVED",
                      ~\E r \in inflight : r.op = "acquire" /\ r.job = j
               PROVE  \E t \in Tokens : /\ t = job'[j].token
                                        /\ lease'[t].status = "ACTIVE" /\ lease'[t].job = j
    BY <1>1 DEF ReservationHasLease
  <2>1. job'[j] = job[j]
    BY <1>2
  <2>2. PICK t \in Tokens : t = job[j].token /\ LeaseLive(t) /\ lease[t].job = j
    BY <2>1 DEF ReservationHasLease, LeaseLive
  <2>3. t \notin Lapsed
    BY <2>1, <2>2, SweepChanges
  <2> QED
    BY <1>1, <2>1, <2>2, <2>3 DEF LeaseLive
<1> QED
  BY <1>4, <1>5, <1>6, <1>7

\* The newest lease of a run's worker on its job, which recovery picks, is the
\* active one, and the worker has no other run and finishes none.
LEMMA RecoveredRun ==
    ASSUME Base, OwnInv, NEW e \in Execs, NEW t \in Tokens, Running(e), LeaseOfRun(e, t)
    PROVE  /\ Owner(e) /\ exec[e].worker \in Workers /\ exec[e].job \in Jobs
           /\ job[exec[e].job].token = t
           /\ \A r \in inflight : r.op = "finish" => r.worker # exec[e].worker /\ r.token # t
           /\ \A d \in Execs \ {e} : Running(d) =>
                 exec[d].job # exec[e].job /\ exec[d].worker # exec[e].worker
<1> DEFINE w == exec[e].worker
           j == exec[e].job
           held == job[j].token
<1> USE DEF OwnInv, Base
<1>1. Owner(e) /\ w \in Workers /\ j \in Jobs
  BY RunOwner, RunFields
<1>2. /\ worker[w].status = "RUNNING" /\ worker[w].current = j /\ job[j].status = "RUNNING"
      /\ held \in Tokens /\ LeaseLive(held) /\ lease[held].worker = w /\ lease[held].job = j
  BY <1>1 DEF Owner, HoldsLease, LeaseLive
<1>3. held = t
  <2>1. /\ lease[t].worker = w /\ lease[t].job = j
        /\ lease[held].id <= lease[t].id
    BY <1>2 DEF LeaseOfRun
  <2>2. t \in Leased /\ held \in Leased
    BY <1>1, <1>2, <2>1, LeaseFields DEF Leased, LeaseLive
  <2>3. lease[t].id <= lease[held].id
    BY <1>2, <2>1, <2>2 DEF LeaseOrder
  <2>4. lease[t].id \in Nat /\ lease[held].id \in Nat
    BY <1>2, LeaseFields
  <2>5. lease[t].id = lease[held].id
    BY <2>1, <2>3, <2>4
  <2> QED
    BY <2>2, <2>5 DEF LeaseOrder
<1>4. ASSUME NEW r \in inflight, r.op = "finish"
      PROVE  r.worker # w /\ r.token # t
  BY <1>1, <1>2, <1>3, <1>4 DEF FinishSound, RunsAny
<1>5. ASSUME NEW d \in Execs \ {e}, Running(d)
      PROVE  exec[d].job # j /\ exec[d].worker # w
  <2>1. exec[d].job # j
    BY <1>5 DEF RunInv, OneRunPerJob
  <2>2. Owner(d)
    BY <1>5, RunOwner
  <2> QED
    BY <1>2, <2>1, <2>2 DEF Owner
<1> QED
  BY <1>1, <1>3, <1>4, <1>5

\* A recovery takes job, lease, run and worker together.
LEMMA RecoverKeeps ==
    ASSUME Base, Base', OwnInv, NEW e \in Execs, NEW t \in Tokens, RecoverExecution(e, t)
    PROVE  OwnInv'
<1> DEFINE w == exec[e].worker
           j == exec[e].job
<1> USE DEF OwnInv, Base
<1>1. Running(e) /\ LeaseOfRun(e, t)
  BY DEF RecoverExecution, Recoverable
<1>2. /\ w \in Workers /\ j \in Jobs
      /\ job[j].status = "RUNNING" /\ job[j].token = t
      /\ worker[w].status = "RUNNING" /\ worker[w].current = j
      /\ lease[t].status = "ACTIVE" /\ lease[t].worker = w /\ lease[t].job = j
      /\ \A r \in inflight : r.op = "finish" => r.worker # w /\ r.token # t
  BY <1>1, RecoveredRun DEF Owner, HoldsLease
<1>3. \A d \in Execs \ {e} : Running(d) =>
          Owner(d) /\ exec[d].job \in Jobs \ {j} /\ exec[d].worker \in Workers \ {w}
  BY <1>1, RecoveredRun, RunOwner, RunFields
<1>4. /\ job'[j].status = "FAILED" /\ job'[j].token = NoToken
      /\ \A k \in Jobs \ {j} : job'[k] = job[k]
      /\ ~Running(e)' /\ \A d \in Execs \ {e} : exec'[d] = exec[d]
  <2>1. OneJob(j) /\ RunEnds(e, j, "ABANDONED")
    BY RecoverStep, RecoveryIsRunEnd
  <2>2. RowStep(j, job[j], job'[j]) /\ job'[j].status = "FAILED"
    BY <1>2, <2>1 DEF OneJob, RunEnds, Owned
  <2> HIDE DEF j
  <2> QED
    BY <1>2, <2>1, <2>2 DEF OneJob, RowStep, RunEnds, Running, Owned
<1>5. /\ worker'[w].status = "IDLE" /\ worker'[w].current = NoJob
      /\ \A x \in Workers \ {w} : worker'[x] = worker[x]
  <2>1. worker' = [worker EXCEPT ![w] = Freed(@)] /\ worker[w] \in WorkerRow
    BY <1>2 DEF RecoverExecution, AbandonRun, TypeInv, TypeOK, WorkersTypeOK
  <2> QED
    BY <1>2, <2>1 DEF Freed, Owned, TypeInv, TypeOK, WorkersTypeOK, WorkerRow
<1>6. /\ lease'[t].status = "EXPIRED" /\ lease'[t].worker = w
      /\ lease'[t].job = j /\ lease'[t].id = lease[t].id
      /\ \A u \in Tokens \ {t} : lease'[u] = lease[u]
  <2>1. lease[t] \in LeaseRow
    BY <1>2 DEF TypeInv, TypeOK, WorkersTypeOK, AbsentLease
  <2> QED
    BY <1>2, <2>1 DEF RecoverExecution, ExpireLease, TypeInv, TypeOK, WorkersTypeOK, LeaseRow
<1>7. inflight' = inflight
  BY DEF RecoverExecution
<1> HIDE DEF w, j
<1>8. OneRequest'
  BY <1>7 DEF OneRequest
<1>10. OneLease'
  BY <1>6 DEF OneLease, LeaseLive
<1>11. \A x : RunsAny(x)' => RunsAny(x)
  BY <1>4 DEF RunsAny, Running
<1>12. AcquireSound'
  <2>1. \A r \in inflight : r.op = "acquire" /\ lease[r.token].status = "ABSENT" =>
            r.job \in Jobs \ {j}
    BY <1>2, RunFields DEF AcquireSound
  <2> QED
    BY <1>2, <1>4, <1>6, <1>7, <2>1, RunFields DEF AcquireSound
<1>13. FinishSound'
  BY <1>2, <1>5, <1>6, <1>7, <1>11, RunFields DEF FinishSound, HoldsLease, LeaseLive
<1>14. LeaseSound'
  <2> SUFFICES ASSUME NEW u \in Tokens, LeaseLive(u)', ~Finishing(u)'
               PROVE  GoodFor(u, lease[u].worker, lease[u].job)'
    BY DEF LeaseSound
  <2> DEFINE x == lease[u].worker
             k == lease[u].job
  <2>1. u # t /\ lease'[u] = lease[u] /\ LeaseLive(u) /\ ~Finishing(u)
    BY <1>6, <1>7 DEF LeaseLive, Finishing
  <2>2. GoodFor(u, x, k) /\ x \in Workers /\ k \in Jobs
    BY <2>1, LeaseFields DEF LeaseSound, LeaseLive
  <2>3. x # w /\ k # j
    BY <1>2, <2>1, <2>2 DEF OneLease, LeaseLive, GoodFor
  <2>4. worker'[x] = worker[x] /\ job'[k] = job[k]
    BY <1>4, <1>5, <2>2, <2>3
  <2>5. (RunsAny(x)' <=> RunsAny(x)) /\ RunsOf(x, k)' = RunsOf(x, k)
    BY <1>1, <1>4, <2>1, <2>3 DEF RunsAny, RunsOf, Running, w, j
  <2> QED
    BY <2>1, <2>2, <2>4, <2>5 DEF GoodFor
<1>15. WorkerHeld'
  BY <1>2, <1>5, <1>6, <1>7 DEF WorkerHeld, HoldsLease, Owned
<1>16. LeaseOrder'
  <2>1. Leased' = Leased
    BY <1>2, <1>6 DEF Leased
  <2>2. \A u \in Leased : /\ lease'[u].id = lease[u].id
                          /\ lease'[u].worker = lease[u].worker
                          /\ LeaseLive(u)' => LeaseLive(u)
    BY <1>2, <1>6 DEF Leased, LeaseLive
  <2> QED
    BY <2>1, <2>2 DEF LeaseOrder
<1>17. RunHasOwner'
  <2>1. \A d \in Execs \ {e} : Running(d) => job[exec[d].job].token # t
    BY <1>2, <1>3 DEF Owner, HoldsLease
  <2>2. \A d \in Execs \ {e} : Running(d)' => Owner(d)'
    BY <1>3, <1>4, <1>5, <1>6, <2>1 DEF Owner, Running, HoldsLease
  <2> QED
    BY <1>4, <2>2 DEF RunHasOwner, Owner
<1> QED
  BY <1>8, <1>10, <1>12, <1>13, <1>14, <1>15, <1>16, <1>17

\* No reservation has the token of the lease that is taken.
LEMMA RecoverTies ==
    ASSUME Base, OwnInv, TieInv, NEW e \in Execs, NEW t \in Tokens, RecoverExecution(e, t)
    PROVE  TieInv'
<1> DEFINE w == exec[e].worker
           j == exec[e].job
<1> USE DEF TieInv, Base
<1>1. Running(e) /\ LeaseOfRun(e, t)
  BY DEF RecoverExecution, Recoverable
<1>2. /\ w \in Workers /\ j \in Jobs
      /\ job[j].status = "RUNNING" /\ job[j].token = t
      /\ lease[t].status = "ACTIVE" /\ lease[t].job = j
  BY <1>1, RecoveredRun DEF Owner, HoldsLease
<1>3. /\ job'[j].status = "FAILED" /\ job'[j].token = NoToken
      /\ \A k \in Jobs \ {j} : job'[k] = job[k]
  <2>1. OneJob(j) /\ RunEnds(e, j, "ABANDONED")
    BY RecoverStep, RecoveryIsRunEnd DEF OwnInv
  <2>2. RowStep(j, job[j], job'[j]) /\ job'[j].status = "FAILED"
    BY <1>2, <2>1 DEF OneJob, RunEnds, Owned
  <2> HIDE DEF j
  <2> QED
    BY <1>2, <2>1, <2>2 DEF OneJob, RowStep, Owned
<1>4. \A x \in Workers : worker'[x].current \in {worker[x].current, NoJob}
  <2>1. worker' = [worker EXCEPT ![w] = Freed(@)] /\ worker[w] \in WorkerRow
    BY <1>2 DEF RecoverExecution, AbandonRun, TypeInv, TypeOK, WorkersTypeOK
  <2> QED
    BY <1>2, <2>1 DEF Freed, TypeInv, TypeOK, WorkersTypeOK, WorkerRow
<1>5. /\ \A u \in Tokens \ {t} : lease'[u] = lease[u]
      /\ inflight' = inflight
  BY DEF RecoverExecution, ExpireLease, TypeInv, TypeOK, WorkersTypeOK
<1> HIDE DEF w, j
<1>6. AcquireAlone'
  BY <1>2, <1>4, <1>5, RunFields DEF AcquireAlone
<1>7. TokenOfOneJob'
  BY <1>3 DEF TokenOfOneJob
<1>8. FinishSettled'
  BY <1>3, <1>5, RunFields, JobsAssumption DEF FinishSettled
<1>9. ReservationHasLease'
  <2> SUFFICES ASSUME NEW k \in Jobs, job'[k].status = "RESERVED",
                      ~\E r \in inflight : r.op = "acquire" /\ r.job = k
               PROVE  \E u \in Tokens : /\ u = job'[k].token
                                        /\ lease'[u].status = "ACTIVE" /\ lease'[u].job = k
    BY <1>5 DEF ReservationHasLease
  <2>1. k # j /\ job'[k] = job[k]
    BY <1>3
  <2> QED
    BY <1>2, <1>5, <2>1 DEF ReservationHasLease
<1> QED
  BY <1>6, <1>7, <1>8, <1>9

-----------------------------------------------------------------------------
(* Every step                                                               *)

\* A job that changes without being taken or settled.
IdleJobs ==
    \A j \in Jobs :
        /\ job'[j].token = job[j].token
        /\ job[j].status \in Owned \/ job'[j].status \in Owned => job'[j].status = job[j].status

\* Creating, delaying, retrying and burying jobs take none and settle none.
LEMMA IdleSteps ==
    ASSUME Base, NEW j \in Jobs,
           \/ CreateRuleJob(j) \/ (\E due \in BOOLEAN : CreateJob(j, due))
           \/ BecomeReady(j) \/ TransferToDeadLetter(j) \/ \E p \in Policies : ScheduleRetry(j, p)
    PROVE  IdleJobs
<1> USE DEF Base
<1>1. OneJob(j)
  <2>1. CASE CreateRuleJob(j) \/ \E due \in BOOLEAN : CreateJob(j, due)
    BY <2>1, CreateStep DEF TypeInv, TypeOK, WorkersTypeOK
  <2>2. CASE BecomeReady(j)
    BY <2>2 DEF BecomeReady, OneJob, RowStep, TypeInv, TypeOK, WorkersTypeOK, JobsTypeOK, JobRow
  <2>3. CASE TransferToDeadLetter(j) \/ \E p \in Policies : ScheduleRetry(j, p)
    BY <2>3, RetryStep
  <2> QED
    BY <2>1, <2>2, <2>3
<1>2. job[j].status \notin Owned
  BY DEF CreateRuleJob, CreateJob, BecomeReady, TransferToDeadLetter, ScheduleRetry, Owned
<1>3. job'[j].status # "RESERVED"
  <2>1. job[j].status = "AVAILABLE" => BecomeReady(j)
    BY DEF CreateRuleJob, CreateJob, TransferToDeadLetter, ScheduleRetry
  <2>2. CASE BecomeReady(j)
    BY <2>2 DEF BecomeReady, TypeInv, TypeOK, WorkersTypeOK, JobsTypeOK, JobRow
  <2>3. CASE job[j].status # "AVAILABLE"
    BY <1>1, <1>2, <2>3 DEF OneJob, RowStep, Owned
  <2> QED
    BY <2>1, <2>2, <2>3
<1>4. job[j].token = NoToken
  BY <1>2 DEF TokenWhileOwned
<1> QED
  BY <1>1, <1>2, <1>3, <1>4 DEF OneJob, RowStep, IdleJobs, Owned

\* A step that leaves the runtime alone and takes or settles no job is aside.
LEMMA IdleIsAside ==
    ASSUME IdleJobs, UNCHANGED runtimeVars
    PROVE  Aside
  BY DEF IdleJobs, runtimeVars, Aside

\* So are the clock, registrations, heartbeats, renewals and second halves of
\* replays.
LEMMA RuntimeAside ==
    ASSUME Base,
           \/ \E w \in Workers : \/ RegisterWorker(w) \/ (\E b \in Beats : Heartbeat(w, b))
                                 \/ HeartbeatAges(w) \/ \E t \in Tokens : RenewLease(w, t)
           \/ \E t \in Tokens : LeaseAges(t)
    PROVE  Aside
<1> USE DEF Base
<1>1. job' = job /\ exec' = exec /\ inflight' = inflight
  BY DEF RegisterWorker, Heartbeat, HeartbeatAges, RenewLease, LeaseAges, jobVars
<1>2. \A t \in Tokens : /\ lease'[t].status = lease[t].status /\ lease'[t].worker = lease[t].worker
                        /\ lease'[t].job = lease[t].job /\ lease'[t].id = lease[t].id
  <2>1. CASE lease' = lease
    BY <2>1
  <2>2. ASSUME NEW t \in Tokens, NEW n, lease' = [lease EXCEPT ![t].ttl = n],
               lease[t].status = "ACTIVE"
        PROVE  \A u \in Tokens : /\ lease'[u].status = lease[u].status
                                 /\ lease'[u].worker = lease[u].worker
                                 /\ lease'[u].job = lease[u].job /\ lease'[u].id = lease[u].id
    <3>1. lease[t] \in LeaseRow
      BY <2>2 DEF TypeInv, TypeOK, WorkersTypeOK, AbsentLease
    <3> QED
      BY <2>2, <3>1 DEF TypeInv, TypeOK, WorkersTypeOK, LeaseRow
  <2> QED
    BY <2>1, <2>2 DEF RegisterWorker, Heartbeat, HeartbeatAges, RenewLease, LeaseAges, HoldsLease
<1>3. \A w \in Workers : /\ worker'[w].current = worker[w].current
                         /\ \/ worker'[w].status = worker[w].status
                            \/ worker[w].status = "ABSENT" /\ worker'[w].status = "IDLE"
  <2> USE DEF TypeInv, TypeOK, WorkersTypeOK, WorkerRow
  <2>1. CASE worker' = worker
    BY <2>1
  <2>2. ASSUME NEW w \in Workers, RegisterWorker(w)
        PROVE  \A x \in Workers : /\ worker'[x].current = worker[x].current
                                  /\ \/ worker'[x].status = worker[x].status
                                     \/ worker[x].status = "ABSENT" /\ worker'[x].status = "IDLE"
    BY <2>2 DEF RegisterWorker
  <2>3. ASSUME NEW w \in Workers, NEW b, worker' = [worker EXCEPT ![w].beat = b]
        PROVE  \A x \in Workers : /\ worker'[x].current = worker[x].current
                                  /\ worker'[x].status = worker[x].status
    BY <2>3
  <2> HIDE DEF TypeInv, TypeOK, WorkersTypeOK, WorkerRow, Base
  <2>4. \/ worker' = worker
        \/ \E w \in Workers : RegisterWorker(w)
        \/ \E w \in Workers, b \in {"fresh", "stale"} : worker' = [worker EXCEPT ![w].beat = b]
    BY DEF RenewLease, LeaseAges, HeartbeatAges, Heartbeat
  <2> QED
    BY <2>1, <2>2, <2>3, <2>4
<1> QED
  BY <1>1, <1>2, <1>3 DEF Aside

\* A refused acquire leaves its reservation and nothing else behind.
LEMMA RefusalKeeps ==
    ASSUME Base, OwnInv, NEW r \in inflight, AcquireRefused(r)
    PROVE  OwnInv'
<1> USE DEF OwnInv
<1>1. /\ inflight' = inflight \ {r} /\ job' = job /\ worker' = worker
      /\ lease' = lease /\ exec' = exec
      /\ \A s \in inflight : s.op = "finish" => s \in inflight'
  BY DEF AcquireRefused, jobVars
<1>2. OneRequest' /\ OneLease' /\ AcquireSound' /\ LeaseOrder'
  BY <1>1 DEF OneRequest, OneLease, LeaseLive, AcquireSound, LeaseOrder, Leased
<1>3. FinishSound'
  BY <1>1 DEF FinishSound, HoldsLease, LeaseLive, RunsAny, Running
<1>4. LeaseSound'
  BY <1>1 DEF LeaseSound, LeaseLive, Finishing, GoodFor, RunsAny, RunsOf, Running
<1>5. WorkerHeld'
  BY <1>1 DEF WorkerHeld, HoldsLease
<1>6. RunHasOwner'
  BY <1>1 DEF RunHasOwner, Running, HoldsLease
<1> QED
  BY <1>2, <1>3, <1>4, <1>5, <1>6

\* Without faults no acquire is refused: its worker still has no job and its
\* token no lease.
LEMMA NeverRefused ==
    ASSUME TieInv, NEW r \in inflight, AcquireRefused(r)
    PROVE  FALSE
  BY DEF AcquireRefused, TieInv, AcquireAlone, MayTake

\* So every step keeps the invariants.
LEMMA OwnStep ==
    ASSUME Faults \subseteq {"token_reuse", "busy_acquire"}
    PROVE  /\ Base /\ Base' /\ OwnInv /\ [Next]_vars => OwnInv'
           /\ Faults = {} => (Base /\ Base' /\ OwnInv /\ TieInv /\ [Next]_vars => TieInv')
<1> SUFFICES ASSUME Base, Base', OwnInv, [Next]_vars
             PROVE  OwnInv' /\ (TieInv /\ Faults = {} => TieInv')
  OBVIOUS
<1> DEFINE Kept == OwnInv' /\ (TieInv /\ Faults = {} => TieInv')
<1>faults. "overlap" \notin Faults /\ "crash" \notin Faults
  OBVIOUS
<1>0. Aside => Kept
  BY AsideKeeps
<1>1. CASE Intake /\ UNCHANGED runtimeVars
  <2>1. CASE \E q \in Queues, s \in {"ACTIVE", "PAUSED"} : SetQueueStatus(q, s)
    BY <1>0, <1>1, <2>1, IdleIsAside DEF SetQueueStatus, IdleJobs
  <2>2. CASE \E j \in Jobs : \/ CreateRuleJob(j) \/ BecomeReady(j)
                             \/ \E due \in BOOLEAN : CreateJob(j, due)
    BY <1>0, <1>1, <2>2, IdleSteps, IdleIsAside
  <2> QED
    BY <1>1, <2>1, <2>2, JobsAssumption DEF Intake
<1>2. ASSUME NEW w \in Workers, WorkerRequest(w)
      PROVE  Kept
  <2>1. CASE \/ RegisterWorker(w) \/ (\E b \in Beats : Heartbeat(w, b))
             \/ \E t \in Tokens : RenewLease(w, t)
    BY <1>0, <2>1, RuntimeAside
  <2>2. ASSUME NEW t \in Tokens, NEW j \in Jobs, AcquireReserve(w, t, j)
        PROVE  Kept
    BY <1>faults, <2>2, AcquireReserveKeeps, AcquireReserveTies
  <2>3. ASSUME NEW t \in Tokens, NEW e \in Execs, StartExecution(w, t, e)
        PROVE  Kept
    BY <1>faults, <2>3, StartKeeps, StartTies
  <2>4. ASSUME NEW t \in Tokens, NEW e \in Execs,
               CompleteExecution(w, t, e) \/ \E reason \in Reasons : FailExecution(w, t, e, reason)
        PROVE  Kept
    BY <1>faults, <2>4, SettleKeeps, SettleTies
  <2> QED
    BY <1>2, <2>1, <2>2, <2>3, <2>4 DEF WorkerRequest
<1>3. ASSUME NEW r \in inflight, Continue(r) \/ RequestDies(r)
      PROVE  Kept
  <2>1. CASE AcquireLease(r)
    BY <2>1, AcquireLeaseKeeps, AcquireLeaseTies
  <2>2. CASE AcquireRefused(r)
    BY <2>2, RefusalKeeps, NeverRefused
  <2>3. CASE FinishExecution(r)
    BY <2>3, FinishKeeps, FinishTies
  <2> QED
    BY <1>faults, <1>3, <2>1, <2>2, <2>3 DEF Continue, RequestDies
<1>4. CASE Clock
  BY <1>0, <1>4, RuntimeAside DEF Clock
<1>5. CASE ReleaseExpired
  BY <1>5, SweepKeeps, SweepTies
<1>6. CASE RecoveryRequest
  <2>1. ASSUME NEW e \in Execs, NEW t \in Tokens, RecoverExecution(e, t)
        PROVE  Kept
    BY <2>1, RecoverKeeps, RecoverTies
  <2>2. ASSUME NEW j \in Jobs, TransferToDeadLetter(j) \/ \E p \in Policies : ScheduleRetry(j, p)
        PROVE  Kept
    <3>1. UNCHANGED runtimeVars
      BY <2>2 DEF TransferToDeadLetter, ScheduleRetry
    <3> QED
      BY <1>0, <2>2, <3>1, IdleSteps, IdleIsAside
  <2>3. ASSUME NEW j \in Jobs, ReplayJob(j)
        PROVE  Kept
    <3>1. ReplayOf[j] \in Jobs /\ CreateJob(ReplayOf[j], TRUE) /\ UNCHANGED runtimeVars
      BY <2>3, RecoveryAssumption DEF ReplayJob
    <3> QED
      BY <1>0, <3>1, IdleSteps, IdleIsAside
  <2>4. ASSUME NEW j \in Jobs, ReplayAgain(j)
        PROVE  Kept
    BY <1>0, <2>4, IdleIsAside DEF ReplayAgain, workerVars, jobVars, IdleJobs
  <2> QED
    BY <1>6, <2>1, <2>2, <2>3, <2>4 DEF RecoveryRequest, RetryExhausted
<1>7. ASSUME NEW j \in Jobs, NEW s \in {"FAILED", "DEAD_LETTER"},
             FinishReplay(j, s) \/ ReplayDies(j, s)
      PROVE  Kept
  BY <1>0, <1>7, IdleIsAside DEF FinishReplay, ReplayDies, workerVars, jobVars, IdleJobs
<1>8. CASE UNCHANGED vars
  BY <1>0, <1>8, IdleIsAside DEF vars, workerVars, jobVars, IdleJobs
<1> QED
  BY <1>1, <1>2, <1>3, <1>4, <1>5, <1>6, <1>7, <1>8 DEF Next, WorkersNext

\* With no job, no lease and no request, nobody owns anything.
LEMMA OwnInit ==
    Init => OwnInv /\ TieInv
<1> SUFFICES ASSUME Init PROVE OwnInv /\ TieInv
  OBVIOUS
<1>1. /\ job = [j \in Jobs |-> AbsentJob]
      /\ worker = [w \in Workers |-> [status |-> "ABSENT", current |-> NoJob, beat |-> "never"]]
      /\ lease = [t \in Tokens |-> AbsentLease]
      /\ exec = [e \in Execs |-> AbsentExec] /\ inflight = {}
  BY DEF Init, WorkersInit, JobsInit, RuntimeInit
<1>2. /\ \A j \in Jobs : job[j].status = "ABSENT" /\ job[j].token = NoToken
      /\ \A t \in Tokens : lease[t].status = "ABSENT"
      /\ \A e \in Execs : ~Running(e)
  BY <1>1 DEF AbsentJob, AbsentLease, AbsentExec, Running
<1>3. OneRequest /\ OneLease /\ AcquireSound /\ FinishSound
  BY <1>1, <1>2 DEF OneRequest, OneLease, AcquireSound, FinishSound, LeaseLive
<1>4. LeaseSound /\ LeaseOrder
  BY <1>2 DEF LeaseSound, LeaseOrder, Leased, LeaseLive
<1>5. WorkerHeld /\ RunHasOwner
  BY <1>1, <1>2 DEF WorkerHeld, RunHasOwner, Owned
<1>6. TieInv
  BY <1>1, <1>2 DEF TieInv, AcquireAlone, TokenOfOneJob, FinishSettled, ReservationHasLease
<1> QED
  BY <1>3, <1>4, <1>5, <1>6 DEF OwnInv

\* The conjuncts of Base, each with its step.
LEMMA BaseHolds ==
    Spec => []Base
<1>1. Init => IdleInv
  BY DEF Init, WorkersInit, RuntimeInit, IdleInv, IdleWorkerFree, AbsentWorkerFree, RequesterKnown
<1>2. TypeInv /\ TypeInv' /\ IdleInv /\ [Next]_vars => IdleInv'
  BY WorkerChanges, WorkerStepKeeps DEF TypeInv, TypeOK, WorkersTypeOK
<1> QED
  BY TypeInit, TypeStep, RunInit, RunStep, TokenWhileOwnedHolds, <1>1, <1>2, PTL DEF Spec, Base

-----------------------------------------------------------------------------
(* The theorems                                                             *)

\* When nothing goes wrong, every reservation is tied to a worker: a reserved
\* job has an active lease under its token, or the acquire that reserved it is
\* still at work, across every sweep, recovery and retry.
THEOREM ReservationHasLeaseHolds ==
    ASSUME Faults = {}
    PROVE  Spec => []ReservationHasLease
<1>1. TieInv => ReservationHasLease
  BY DEF TieInv
<1>2. Base /\ Base' /\ OwnInv /\ TieInv /\ [Next]_vars => OwnInv' /\ TieInv'
  BY OwnStep
<1> QED
  BY BaseHolds, OwnInit, <1>1, <1>2, PTL DEF Spec

\* While requests end and workers wait for their answers, every active lease is
\* good for its job, or its request has settled the job and is about to release
\* it, whichever tokens workers send and whatever they ask for.
THEOREM LeaseHoldsJobHolds ==
    ASSUME Faults \subseteq {"token_reuse", "busy_acquire"}
    PROVE  Spec => []LeaseHoldsJob
<1>1. OwnInv => LeaseHoldsJob
  BY DEF OwnInv, LeaseSound, LeaseHoldsJob, LeaseLive, Finishing, GoodFor
<1>2. Base /\ Base' /\ OwnInv /\ [Next]_vars => OwnInv'
  BY OwnStep
<1> QED
  BY BaseHolds, OwnInit, <1>1, <1>2, PTL DEF Spec

\* In the same conditions, every run belongs to a running job that its worker
\* holds and names, so a worker's own requests can settle it.
THEOREM RunHasOwnerHolds ==
    ASSUME Faults \subseteq {"token_reuse", "busy_acquire"}
    PROVE  Spec => []RunHasOwner
<1>1. OwnInv => RunHasOwner
  BY DEF OwnInv
<1>2. Base /\ Base' /\ OwnInv /\ [Next]_vars => OwnInv'
  BY OwnStep
<1> QED
  BY BaseHolds, OwnInit, <1>1, <1>2, PTL DEF Spec

\* While no replay dies between its commits, a dead letter waits for its
\* replay only as long as the replay is at work.
THEOREM PendingIsReplayingHolds ==
    ASSUME "crash" \notin Faults
    PROVE  Spec => []PendingIsReplaying
<1>1. Init => LetterInv /\ PendingIsReplaying
  BY DEF Init, WorkersInit, JobsInit, AbsentJob, LetterInv, DeadLetterMatchesJob,
         ReplayingBuried, PendingIsReplaying
<1>2. TypeInv /\ LetterInv /\ PendingIsReplaying /\ [Next]_vars => PendingIsReplaying'
  <2> SUFFICES ASSUME TypeInv, LetterInv, PendingIsReplaying, [Next]_vars
               PROVE  PendingIsReplaying'
    OBVIOUS
  <2> USE DEF PendingIsReplaying
  <2>1. CASE UNCHANGED <<deadLetter, replaying>>
    BY <2>1
  <2>2. ASSUME NEW j \in Jobs, TransferToDeadLetter(j)
        PROVE  PendingIsReplaying'
    BY <2>2 DEF TransferToDeadLetter, TypeInv, TypeOK
  <2>3. ASSUME NEW j \in Jobs, ReplayJob(j) \/ ReplayAgain(j)
        PROVE  PendingIsReplaying'
    <3>1. deadLetter[j] # "ABSENT" => job[j].status = "DEAD_LETTER"
      BY DEF LetterInv, DeadLetterMatchesJob
    <3>2. CASE ReplayJob(j)
      BY <3>1, <3>2 DEF ReplayJob, TypeInv, TypeOK
    <3>3. CASE ReplayAgain(j)
      BY <3>3 DEF ReplayAgain, TypeInv, TypeOK
    <3> QED
      BY <2>3, <3>2, <3>3
  <2>4. ASSUME NEW j \in Jobs, NEW s \in {"FAILED", "DEAD_LETTER"}, FinishReplay(j, s)
        PROVE  PendingIsReplaying'
    BY <2>4 DEF FinishReplay, TypeInv, TypeOK
  <2>5. \/ UNCHANGED <<deadLetter, replaying>>
        \/ \E j \in Jobs : TransferToDeadLetter(j) \/ ReplayJob(j) \/ ReplayAgain(j)
        \/ \E j \in Jobs, s \in {"FAILED", "DEAD_LETTER"} : FinishReplay(j, s)
    BY DEF Next, RecoveryRequest, ScheduleRetry, RetryExhausted, RecoverExecution, ReplayDies,
           vars, recoveryVars
  <2> QED
    BY <2>1, <2>2, <2>3, <2>4, <2>5
<1> QED
  BY TypeInit, TypeStep, LetterStep, <1>1, <1>2, PTL DEF Spec
=============================================================================
