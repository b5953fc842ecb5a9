\* Three threads: one refreshes, one waits, and one comes too late or interferes.
SPECIFICATION FairTokensSpec
CONSTANTS
    t1 = t1
    t2 = t2
    t3 = t3
    Threads = {t1, t2, t3}
    Nobody = Nobody
    i1 = i1
    i2 = i2
    Issuers = {i1, i2}
    ServerUrl = ServerUrl
    NoIssuer = NoIssuer
    Scenes <- MCScenes
    MaxIssued = 3
INVARIANTS NoStaleRefresh IssuerIsPinned
PROPERTIES CallsReturn
CHECK_DEADLOCK FALSE
