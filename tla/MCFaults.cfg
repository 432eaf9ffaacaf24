SPECIFICATION Spec
CONSTANTS
    j1 = j1
    j2 = j2
    j1r = j1r
    q1 = q1
    q2 = q2
    NoToken = NoToken
    NoJob = NoJob
    NoWorker = NoWorker
    Jobs = {j1}
    Submitted = {j1}
    Queues = {q1}
    Tokens = {t1, t2, t3}
    Workers = {w1, w2}
    Reasons = {r1}
    Beats = {b1}
    LeaseTtl = 1
    MaxExecutions = 3
    MaxInFlight = 2
    Faults = {"crash", "overlap", "token_reuse", "busy_acquire"}
    Unscoped = {}
    FailureKeys <- MCFailureKeys
    QueueOf <- MCQueueOf
    Priority <- MCPriority
    MaxAttempts <- TwoAttempts
    Scope <- MCScope
    MaxConcurrency <- OneSlot
    Policies <- MCPolicies
    ReplayOf <- NoReplay
SYMMETRY Interchangeable
CHECK_DEADLOCK FALSE
INVARIANTS
    TypeOK
    TokenWhileOwned
    AttemptBudget
    RunningHasRun
    CompletedOnce
    IdleWorkerFree
    AttemptsAccounted
    DeadLetterMatchesJob
PROPERTIES
    ImplementsLifecycle
