SPECIFICATION DemandSpec
CONSTANTS
    Callers = {c1, c2}
    Permits = 2
    FailureThreshold = 2
    RecoveryTimeout = 4
    HalfOpenMaxCalls = 1
    MaxAttempts = 2
    Backoff = 1
    CallTimeout = 2
    MinInterval = 1
PROPERTIES BreakerRecovers
