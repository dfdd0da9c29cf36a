SPECIFICATION Spec
CONSTANTS
    Requests = {q1}
    Strategies = {s1}
    MaxDay = 1
    MaxDbErrors = 1
    MaxCrashes = 0
INVARIANTS NoRowLeftPending
CHECK_DEADLOCK FALSE
