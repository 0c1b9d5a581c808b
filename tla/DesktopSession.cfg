CONSTANTS
    Workers = {w1, w2}
    MaxSessions = 1
    MaxEvents = 2
    NoRow = NoRow
SPECIFICATION Spec
INVARIANTS
    TypeOK
    
CHECK_DEADLOCK FALSE
