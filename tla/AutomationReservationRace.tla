---------------------- MODULE AutomationReservationRace ----------------------
(***************************************************************************)
(* The job ledger with reserve_automation_job split where the database     *)
(* splits it.  The function reads its candidates without a row lock and    *)
(* without a version check, so another request may commit between its read *)
(* and its own commit; the UPDATE that ends it names the row by its id and *)
(* writes the status and the token whatever they are by then.  The other   *)
(* operations of the ledger stay single steps.                             *)
(***************************************************************************)
EXTENDS AutomationJobs

CONSTANT MaxReaders    \* bound on reservations between their read and their commit

VARIABLE chosen        \* the (token, job) pairs read and not committed yet

raceVars == <<jobVars, chosen>>

\* The read, up to the last check of the candidate.
ChooseJob(q, t, j) ==
    /\ Cardinality(chosen) < MaxReaders
    /\ Reservable(q, j)
    /\ chosen' = chosen \cup {<<t, j>>}
    /\ UNCHANGED jobVars

\* The commit, whatever became of the job since.
CommitReservation(t, j) ==
    /\ <<t, j>> \in chosen
    /\ WriteReservation(j, t)
    /\ chosen' = chosen \ {<<t, j>>}

RaceInit == JobsInit /\ chosen = {}

RaceNext ==
    \/ Intake /\ UNCHANGED chosen
    \/ \E j \in Jobs, t \in Tokens :
          \/ \E q \in Queues : ChooseJob(q, t, j)
          \/ CommitReservation(t, j)
          \/ Settle(j, t) /\ UNCHANGED chosen

RaceSpec == RaceInit /\ [][RaceNext]_raceVars

-----------------------------------------------------------------------------
(* Properties                                                               *)

\* "The queue foundation prevents double reservation by refusing conflicting
\* reservation state rather than overwriting it": a token leaves a job only
\* when its ownership ends, never for another token.
ReservationNotOverwritten ==
    [][\A j \in Jobs : job[j].token # NoToken => job'[j].token \in {job[j].token, NoToken}]_jobVars
=============================================================================
