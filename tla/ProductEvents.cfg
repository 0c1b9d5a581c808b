CONSTANTS
    Pipelines = {w1, w2}
    Events = {1, 2}
    Batch = 2
    MaxLength = 1
    MaxFaults = 2
SPECIFICATION FairSpec
INVARIANTS
    TypeOK
    OnlyTrimmingLoses
PROPERTIES
    AckedIsAccepted
    Delivers
CHECK_DEADLOCK FALSE
