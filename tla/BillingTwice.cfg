CONSTANTS
    Workers = {w1, w2}
    Orders = {a, b}
    Free = Free
    Period = 2
    MaxTime = 1
SPECIFICATION Spec
INVARIANT ExtendedOnce
CHECK_DEADLOCK FALSE
