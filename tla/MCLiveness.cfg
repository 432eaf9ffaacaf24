SPECIFICATION FairSpec
CONSTANTS
    NoToken = NoToken
    NoJob = NoJob
    NoWorker = NoWorker
    Jobs = {j1, j2}
    Submitted = {j1, j2}
    Queues = {q1}
    Tokens = {t1, t2}
    Workers = {w1, w2}
    Reasons = {r1}
    Beats = {}
    LeaseTtl = 1
    MaxExecutions = 2
    MaxInFlight = 2
    Faults = {"busy_acquire"}
    Unscoped = {}
    FailureKeys <- MCFailureKeys
    QueueOf <- MCQueueOf
    Priority <- MCPriority
    MaxAttempts <- TwoAttemptsOnce
    Scope <- MCScope
    MaxConcurrency <- TwoSlots
    Policies <- MCPolicies
    ReplayOf <- NoReplay
CHECK_DEADLOCK FALSE
PROPERTIES
    ReservationsEnd
    RunsEnd
    WorkersAreFreed
