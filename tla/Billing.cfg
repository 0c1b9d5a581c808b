CONSTANTS
    Workers = {w1}
    Orders = {a, b}
    Free = Free
    Period = 1
    MaxTime = 1
SPECIFICATION FairSpec
INVARIANTS
    TypeOK
    PaymentsCount
    PeriodsAdd
PROPERTY PaidIsActivated
CHECK_DEADLOCK FALSE
