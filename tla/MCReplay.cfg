SPECIFICATION Spec
CONSTANTS
    j1 = j1
    j2 = j2
    j1r = j1r
    q1 = q1
    q2 = q2
    NoToken = NoToken
    NoJob = NoJob
    NoWorker = NoWorker
    Jobs = {j1, j1r}
    Submitted = {j1}
    Queues = {q1}
    Tokens = {t1, t2}
    Workers = {w1}
    Reasons = {r1}
    Beats = {b1}
    LeaseTtl = 2
    MaxExecutions = 2
    MaxInFlight = 1
    Faults = {"crash", "overlap"}
    Unscoped = {}
    FailureKeys <- MCFailureKeys
    QueueOf <- MCQueueOf
    Priority <- MCPriority
    MaxAttempts <- TwoAttempts
    Scope <- MCScope
    MaxConcurrency <- OneSlot
    Policies <- MCPolicies
    ReplayOf <- OneReplay
SYMMETRY Interchangeable
CHECK_DEADLOCK FALSE
INVARIANTS
    ResolvedHasReplay
