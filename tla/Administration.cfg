SPECIFICATION AdministrationSpec
CONSTANTS
    Threads = {t1, t2}
    Clients = {t1, t2}
    Uploaders = {t1, t2}
    Desks = {t1, t2}
    Hands = {t1, t2}
    Domains = {d1, d2}
    NoDomain = nd
    Issues = {i1}
    Own = {i1}
    Requests = {r1}
    MaxRows = 2
    MaxActs = 3
    Chunks = {k1, k2}
    Recorders = {t1, t2}
    Pieces = {k1, k2}
    MaxNews = 2
    Spellings = 2
SYMMETRY Symmetric
CHECK_DEADLOCK FALSE
INVARIANTS
    AdministrationTypeOK
    
    
PROPERTIES
    ErasureInTurn
