CONSTANTS
    Workers = {w1, w2}
    Applications = {a}
    Headcount = 1
    Pay = {1}
    Targets = {"interview", "hired"}
    MaxLinks = 2
    Runs = {w1, w2}
    Keys = {k1, k2}
    MaxMails = 2
    Handlers = {w1, w2}
    Settings = {s1, s2}
    MaxGrants = 2
    MaxEvents = 1
    Owner = o
    Others = {u}
    Desks = {w1, w2}
    MaxOwn = 2
SPECIFICATION DeskSpec
SYMMETRY Sym
INVARIANTS
    HiringTypeOK
    DecisionsHold
    DeskHolds
PROPERTY AnswerIsFinal
CHECK_DEADLOCK FALSE
