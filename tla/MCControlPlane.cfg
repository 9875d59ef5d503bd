SPECIFICATION CPSpec
CONSTANTS
    ann = ann
    bob = bob
    eve = eve
    Subjects = {ann, bob, eve}
    Workers = {w1}
    w1 = w1
    c1 = c1
    c2 = c2
    Configs = {c1, c2}
    RolesOf <- MCRolesOf
    FreshMfa = {ann, bob}
    OwnerGroup <- MCOwnerGroup
    Nobody = Nobody
    NoConfig = NoConfig
    Receipts = {1}
    LeaseTTL = 1
    MaxRetryDelay = 1
    MaxDrift = 0
    MaxRevisions = 2
    MaxOperations = 3
    MaxFence = 2
SYMMETRY Symmetry
INVARIANTS OutboxIsOneLine SeparationOfDuties AuditReconstructs
CHECK_DEADLOCK FALSE
