SPECIFICATION Spec
CONSTANTS
    j1 = j1
    j2 = j2
    j1r = j1r
    q1 = q1
    q2 = q2
    NoToken = NoToken
    NoJob = NoJob
    NoWorker = NoWorker
    Jobs = {j1, j2, j1r}
    Submitted = {j1, j2}
    Queues = {q1, q2}
    Tokens = {t1, t2, t3}
    Workers = {w1, w2}
    Reasons = {r1}
    Beats = {}
    LeaseTtl = 1
    MaxExecutions = 2
    MaxInFlight = 2
    Faults = {}
    Unscoped = {w1, w2}
    FailureKeys <- MCFailureKeys
    QueueOf <- MCQueueOf
    Priority <- MCPriority
    MaxAttempts <- OneAttempt
    Scope <- MCScope
    MaxConcurrency <- OneSlot
    Policies <- MCPolicies
    ReplayOf <- OneReplay
SYMMETRY Interchangeable
CHECK_DEADLOCK FALSE
INVARIANTS
    ReservationHasLease
    LeaseHoldsJob
    RunHasOwner
    PendingIsReplaying
