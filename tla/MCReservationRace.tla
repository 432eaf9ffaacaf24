-------------------------- MODULE MCReservationRace -------------------------
(* Small instances of the job ledger with the read-commit window of a reservation. *)
EXTENDS AutomationReservationRace, TLC

MCQueueOf == [j \in Jobs |-> CHOOSE q \in Queues : TRUE]
MCPriority == [j \in Jobs |-> 1]
MCMaxAttempts == [j \in Jobs |-> 1]

Interchangeable == Permutations(Tokens)
=============================================================================
