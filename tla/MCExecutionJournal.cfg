SPECIFICATION FairEJSpec
CONSTANTS
    w1 = w1
    w2 = w2
    i1 = i1
    i2 = i2
    e1 = e1
    e2 = e2
    Workers = {w1, w2}
    Nobody = Nobody
    Identities = {i1, i2}
    NoIdentity = NoIdentity
    Evidence = {e1, e2}
    NoEvidence = NoEvidence
    MaxRunAttempts = 3
    MaxFaults = 2
INVARIANTS OnePublication
PROPERTIES DecidedStays CompletedIsReported
CHECK_DEADLOCK FALSE
