---------------------------- MODULE MCAutomation ----------------------------
(* Small instances of the P41 runtime for TLC. *)
EXTENDS AutomationRecovery, TLC

CONSTANTS j1, j2, j1r, q1, q2

MCQueueOf == [j \in Jobs |-> IF j = j2 /\ Queues # {q1} THEN q2 ELSE q1]
MCPriority == [j \in Jobs |-> IF j = j2 THEN 2 ELSE 1]
OneAttempt == [j \in Jobs |-> 1]
TwoAttempts == [j \in Jobs |-> 2]
MCScope == [w \in Workers |-> IF Queues = {q1} THEN <<q1>> ELSE <<q1, q2>>]
OneSlot == [w \in Workers |-> 1]
MCFailureKeys == Workers \X Reasons
MCPolicies == {[max |-> 1, deadLetter |-> TRUE], [max |-> 3, deadLetter |-> FALSE]}
NoReplay == [j \in Jobs |-> NoJob]
OneReplay == [j \in Jobs |-> IF j = j1 THEN j1r ELSE NoJob]

\* Workers share one scope and one limit, and nothing orders tokens, so both
\* may be permuted.
Interchangeable == Permutations(Workers) \cup Permutations(Tokens)
=============================================================================
