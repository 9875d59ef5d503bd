SPECIFICATION RWSpec
CONSTANTS
    c1 = c1
    p1 = p1
    w1 = w1
    w2 = w2
    Interval = 1
    Lag = 0
    Configs = {c1}
    Profiles = {p1}
    ProfileOf <- MCProfileOf
    MaxOp = 1
    MaxReqFence = 1
    MaxClock = 0
    Workers = {w1, w2}
    Nobody = Nobody
    Schedule <- MCSchedule
    RunLeaseTTL = 1
    MaxRunAttempts = 2
    MaxRunRetry = 1
    MaxClockError = 0
    MaxCommitDelay = 0
    MaxWindows = 2
    MaxNewRuns = 1
    MaxNow = 3
    BaseRetry = 1
    MaxFaults = 1
SYMMETRY Symmetry
PROPERTIES ImplementsCatalog
