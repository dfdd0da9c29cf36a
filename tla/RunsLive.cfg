SPECIFICATION FairSpec
CONSTANTS
    Requests = {q1, q2}
    Strategies = {s1}
    MaxDay = 1
    MaxDbErrors = 1
    MaxCrashes = 1
PROPERTIES EveryRequestEnds
CHECK_DEADLOCK FALSE
