SPECIFICATION Spec
CONSTANTS
    Workers = {w1}
    Envelopes = {e1, e2}
    Skew = 1
    Lag = 1
    Period = 3
    IdempTtl = 1
    Timeout = 1
    Grace = 2
    Wait = 1
    Visibility = 1
    MaxRetries = 2
    BackoffBase = 4
    BackoffFactor = 0
    BackoffMax = 4
    MaxDelay = 9
    Countdowns <- Far
    ExpiresAt <- OneExpires
    QueueTtl <- OneTtl
    None = None
    MaxTime = 5
    MaxFaults = 1
INVARIANTS ClockBehind Exclusive ExpiredBurnsNoKey
PROPERTIES RetryNotEarly
CHECK_DEADLOCK FALSE
