SPECIFICATION RaceSpec
CONSTANTS
    MaxReaders = 2
    NoToken = NoToken
    Jobs = {j1, j2}
    Submitted = {j1, j2}
    Queues = {q1}
    Tokens = {t1, t2}
    FailureKeys = {k1}
    QueueOf <- MCQueueOf
    Priority <- MCPriority
    MaxAttempts <- MCMaxAttempts
SYMMETRY Interchangeable
CHECK_DEADLOCK FALSE
PROPERTIES
    ReservationNotOverwritten
