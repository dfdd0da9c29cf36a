SPECIFICATION Spec
CONSTANTS
    Requests = {q1, q2}
    Strategies = {s1, s2}
    MaxDay = 2
    MaxDbErrors = 1
    MaxCrashes = 1
SYMMETRY Symmetry
INVARIANTS NoPartialCompleted RunningIsNeverVisible RequestsEndTruthfully DatesBracketResults
PROPERTIES CompletedIsImmutable ImplementsRunSnapshots
CHECK_DEADLOCK FALSE
