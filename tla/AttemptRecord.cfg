CONSTANTS
    Workers = {t1, t2}
    Signals = {a, b}
    Threshold = 2
    Editors = {t1, t2}
    Candidates = {c1}
    Limits = {1, 2}
    MaxQuestions = 2
    Uploads = {t1, t2}
    MaxFiles = 3
    Items = {i1, i2, i3}
    Marks = 100
    MaxWeight = 2
    Trainers = {t1, t2}
    Judged = {s1}
    MaxRuns = 2
SPECIFICATION AttemptSpec
SYMMETRY Symmetric
INVARIANTS
    AttemptTypeOK
    FlagsHold
    
PROPERTY RecordGrows
CHECK_DEADLOCK FALSE
