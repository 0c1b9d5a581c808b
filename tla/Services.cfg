CONSTANTS
    Workers = {w1, w2}
    Processes = {p1, p2}
    Pupils = {s1}
    MaxPolls = 1
    MaxMessages = 2
    Allowance = 2
    MaxOpen = 1
    AutoRevoke = TRUE
    MaxSessions = 2
    MaxBeats = 1
    MaxWatched = 3
    Makers = {w1, w2}
    MaxBodies = 2
    Leads = {w1, w2}
    Calls = {c1}
    DailyLimit = 2
    MaxDelivered = 2
    Invites = {i1, i2}
    Kinds = {mcq}
    Emails = {x1, x2}
    FreeOfKind = 1
    FreeCandidates = 1
    Recruiters = {w1, w2}
    MaxMonth = 2
    Limiters = {w1, w2}
    MaxRequests = 2
    Window = 3
    RetryAfter = 1
    MaxLosses = 1
SPECIFICATION ServicesSpec
SYMMETRY Symmetric
INVARIANTS
    ServicesTypeOK
    CountsKept
PROPERTIES
    MessagesSeen
    OverIsOver
CHECK_DEADLOCK FALSE
