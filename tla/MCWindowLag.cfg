SPECIFICATION RCSpec
CONSTANTS
    c1 = c1
    c2 = c2
    c3 = c3
    p1 = p1
    w1 = w1
    w2 = w2
    Configs = {c1, c2, c3}
    Profiles = {p1}
    ProfileOf <- MCProfileOf
    MaxOp = 2
    MaxReqFence = 1
    MaxClock = 0
    Workers = {w1, w2}
    Nobody = Nobody
    Schedule <- MCSchedule
    RunLeaseTTL = 2
    MaxRunAttempts = 2
    MaxRunRetry = 1
    MaxClockError = 1
    MaxCommitDelay = 1
    MaxWindows = 3
    MaxNewRuns = 2
    MaxNow = 5
SYMMETRY Symmetry
INVARIANTS WindowsBelongToOneDeployment
CHECK_DEADLOCK FALSE
