SPECIFICATION Spec
CONSTANTS
    wq = wq
    wb = wb
    q1 = q1
    Never = Never
    NoSource = NoSource
    Triggers = {1, 2, 3}
    Schedules = {4, 5, 6}
    Workflows = {wq, wb}
    Queues = {q1}
    Conditional = {wb}
    OneTime = {5}
    EventDriven = {6}
    MaxTime = 1
    MaxExecutions = 8
    Passes = {p1}
    Faults = {"crash", "pause"}
    WorkflowOf <- MCWorkflowOf
    QueueOf <- MCQueueOf
    Interval <- MCInterval
    FirstRun <- MCFirstRun
CHECK_DEADLOCK FALSE
INVARIANTS
    TypeOK
    ExecutedOnce
    NothingSkipped
    InOrder
    NotEarly
    LeftRunningIsExplained
