SPECIFICATION FairDRSpec
CONSTANTS
    ann = ann
    bob = bob
    c1 = c1
    c2 = c2
    c3 = c3
    p1 = p1
    w1 = w1
    w2 = w2
    Subjects = {ann, bob}
    Workers = {w1, w2}
    Configs = {c1}
    RolesOf <- MCRolesOf
    FreshMfa = {bob}
    OwnerGroup <- MCOwnerGroup
    Nobody = Nobody
    NoConfig = NoConfig
    Receipts = {1, 2}
    LeaseTTL = 1
    MaxRetryDelay = 1
    MaxDrift = 0
    MaxRevisions = 1
    MaxOperations = 2
    MaxFence = 3
    Profiles = {p1}
    ProfileOf <- MCProfileOf
    Registered = {c1}
    MaxAttempts = 2
    BaseRetry = 1
    MaxOp = 2
    MaxReqFence = 3
    MaxClock = 0
    MaxFaults = 1
PROPERTIES EveryOperationResolves ImplementsDeskAndTarget
CHECK_DEADLOCK FALSE
