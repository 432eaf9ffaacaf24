SPECIFICATION Spec
CONSTANTS
    j1 = j1
    j2 = j2
    j1r = j1r
    q1 = q1
    q2 = q2
    NoToken = NoToken
    NoJob = NoJob
    NoWorker = NoWorker
    Jobs = {j1, j2}
    Submitted = {j1, j2}
    Queues = {q1}
    Tokens = {t1, t2}
    Workers = {w1}
    Reasons = {r1}
    Beats = {}
    LeaseTtl = 1
    MaxExecutions = 2
    MaxInFlight = 2
    Faults = {"busy_acquire"}
    Unscoped = {}
    FailureKeys <- MCFailureKeys
    QueueOf <- MCQueueOf
    Priority <- MCPriority
    MaxAttempts <- OneAttempt
    Scope <- MCScope
    MaxConcurrency <- OneSlot
    Policies <- MCPolicies
    ReplayOf <- NoReplay
SYMMETRY Interchangeable
CHECK_DEADLOCK FALSE
INVARIANTS
    ReservationHasLease
