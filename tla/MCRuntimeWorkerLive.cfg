SPECIFICATION FairRWSpec
CONSTANTS
    c1 = c1
    p1 = p1
    w1 = w1
    w2 = w2
    Interval = 2
    Lag = 1
    Configs = {c1}
    Profiles = {p1}
    ProfileOf <- MCProfileOf
    MaxOp = 1
    MaxReqFence = 1
    MaxClock = 0
    Workers = {w1, w2}
    Nobody = Nobody
    Schedule <- MCSchedule
    RunLeaseTTL = 2
    MaxRunAttempts = 2
    MaxRunRetry = 1
    MaxClockError = 0
    MaxCommitDelay = 0
    MaxWindows = 3
    MaxNewRuns = 3
    MaxNow = 3
    BaseRetry = 1
    MaxFaults = 1
PROPERTIES EveryRunEnds DueWindowsBecomeRuns StopDrains
