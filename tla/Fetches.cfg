SPECIFICATION FairSpec
CONSTANTS
    Callers = {c1, c2, c3}
    Permits = 2
    FailureThreshold = 2
    RecoveryTimeout = 3
    HalfOpenMaxCalls = 1
    MaxAttempts = 2
    Backoff = 1
    CallTimeout = 2
    MinInterval = 1
INVARIANTS ProbesAreBounded NothingStartsWhileOpen
PROPERTIES FirstAttemptsAreSpaced EveryFetchReturns
