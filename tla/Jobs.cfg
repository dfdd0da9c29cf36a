SPECIFICATION FairSpec
CONSTANTS
    Workers = {w1, w2, w3}
    Strategies = {s1, s2}
    Free = free
    MaxDay = 2
    MaxFaults = 2
INVARIANTS OneJobAtATime
PROPERTIES LockIsLostByItsOwner DayIsServed
CHECK_DEADLOCK FALSE
