CONSTANTS
    Workers = {w1, w2}
    Processes = {p1, p2}
    Exams = {e1, e2}
    Certified = {e1}
    Questions = {q1}
    PassMarks = 1
    MaxAttempts = 1
    MaxRows = 2
    Main = w1
    Home = p1
    Cloud = FALSE
    FlagAt = 2
    MaxSessions = 2
    MaxEvents = 2
    MaxEvidence = 1
    Sockets = {k1, k2, k3}
    Requests = {r1, r2}
    PoolSize = 2
SPECIFICATION Spec
INVARIANTS
    StudentTypeOK
    AttemptsStand
PROPERTIES
    WaitsEnd
    
CHECK_DEADLOCK FALSE
