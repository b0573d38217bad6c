SPECIFICATION CallbackSpec
CONSTANTS
    Calls = {q1}
    MaxRetries = 4
    Attempts = 5
    Backoff <- Seconds
    SendSeconds = {0, 5}
    SoftLimit = 30
INVARIANTS RunsBounded GivesUpLate LastAttemptIsLate
PROPERTIES CallbackSettles
CHECK_DEADLOCK FALSE
