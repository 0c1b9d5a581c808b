CONSTANTS
    MaxContent = 1
    MaxRevision = 2
    MaxLoads = 2
    MaxFailures = 1
    WarningLimit = 2
    SectionTicks = 3
    RecordTicks = 2
    MaxVisits = 2
    MaxTries = 2
    AwayTicks = 3
    CoolTicks = 4
    GraceTicks = 2
    FacesTicks = 2
SPECIFICATION PageSpec
INVARIANTS
    PageTypeOK
    ShownIsStored
    
 
CHECK_DEADLOCK FALSE
