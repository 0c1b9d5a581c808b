CONSTANTS
    Workers = {w1, w2}
    SubmissionIds = {a, b}
    MaxInvites = 2
    MaxSessions = 2
    MaxRevision = 2
    NoWorker = NoWorker
    NoId = NoId
SPECIFICATION Spec
SYMMETRY Sym
INVARIANTS
    TypeOK
    AckedOnRecord
    OneSubmission
PROPERTY WorkKept
CHECK_DEADLOCK FALSE
