CONSTANTS
    Workers = {w1}
    MaxSessions = 2
    MaxEvents = 1
    NoRow = NoRow
SPECIFICATION FairSpec
INVARIANT OnlyLatestHoldsKey
 
CHECK_DEADLOCK FALSE
