---------------------------- MODULE MCScheduling ----------------------------
(* Small instances of the workflow scheduling for TLC. *)
EXTENDS AutomationScheduling

CONSTANTS wq, wb, q1

\* Triggers 1 and 3 and every schedule queue a job; trigger 2 asks for the
\* workflow whose step is blocked.
MCWorkflowOf == [x \in Rows |-> IF x = 2 THEN wb ELSE wq]
MCQueueOf == [w \in Workflows |-> q1]
MCInterval == [s \in Schedules |-> IF s \in OneTime \cup EventDriven THEN 0 ELSE 1]
MCFirstRun == [s \in Schedules |-> 0]
=============================================================================
