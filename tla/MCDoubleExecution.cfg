SPECIFICATION Spec
CONSTANTS
    wq = wq
    wb = wb
    q1 = q1
    Never = Never
    NoSource = NoSource
    Triggers = {1, 2}
    Schedules = {4}
    Workflows = {wq, wb}
    Queues = {q1}
    Conditional = {wb}
    OneTime = {}
    EventDriven = {}
    MaxTime = 1
    MaxExecutions = 5
    Passes = {p1, p2}
    Faults = {"overlap"}
    WorkflowOf <- MCWorkflowOf
    QueueOf <- MCQueueOf
    Interval <- MCInterval
    FirstRun <- MCFirstRun
CHECK_DEADLOCK FALSE
INVARIANTS
    ExecutedOnce
