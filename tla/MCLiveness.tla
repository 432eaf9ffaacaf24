----------------------------- MODULE MCLiveness -----------------------------
(* Small instances of the fair runtime.  Temporal properties are checked     *)
(* without symmetry.                                                         *)
EXTENDS AutomationLiveness

MCQueueOf == [j \in Jobs |-> CHOOSE q \in Queues : TRUE]
MCPriority == [j \in Jobs |-> 1]
TwoAttemptsOnce == [j \in Jobs |-> IF j = CHOOSE k \in Jobs : TRUE THEN 2 ELSE 1]
MCScope == [w \in Workers |-> <<CHOOSE q \in Queues : TRUE>>]
TwoSlots == [w \in Workers |-> 2]
MCFailureKeys == Workers \X Reasons
MCPolicies == {[max |-> 3, deadLetter |-> TRUE]}
NoReplay == [j \in Jobs |-> NoJob]
=============================================================================
