SPECIFICATION FairSpec
CONSTANTS
    Securities = {s1}
    Writers = {w1}
    Refreshers = {r1, r2}
    Nobody = nobody
    MaxDay = 2
    ExDates = {2, 3}
    MaxDbErrors = 1
INVARIANTS ColumnsAgree OnlyLaterActions
PROPERTIES FactorsCatchUp
CHECK_DEADLOCK FALSE
