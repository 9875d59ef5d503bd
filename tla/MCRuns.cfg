\* The catalog: three configurations, two worker clocks off by a second, five seconds.  The
\* recovery: one PAM row, fences that end at or before the end of the successor's lease.
SPECIFICATION RunsSpec
CONSTANTS
    c1 = c1
    c2 = c2
    c3 = c3
    p1 = p1
    w1 = w1
    w2 = w2
    Configs = {c1, c2, c3}
    Profiles = {p1}
    ProfileOf <- MCProfileOf
    MaxOp = 2
    MaxReqFence = 1
    MaxClock = 0
    Workers = {w1, w2}
    Nobody = Nobody
    Schedule <- MCSchedule
    RunLeaseTTL = 2
    MaxRunAttempts = 2
    MaxRunRetry = 1
    MaxClockError = 1
    MaxCommitDelay = 1
    MaxWindows = 3
    MaxNewRuns = 2
    MaxNow = 5
    Nil = Nil
    Publishers = {w1, w2}
    People = {ana, bob}
    LeaseTimes <- MCLeaseTimes
    CredentialTime = 1
    MaxInflight = 1
    Skew = 1
    Spans = {3, 4}
    RequestTime = 4
    AuthorizationTime = 1
    MaxLeases = 2
    MaxRows = 1
    MaxTime = 4
    MaxDocuments <- MCDocuments
SYMMETRY RunsSymmetry
INVARIANTS HistoryIsOneChain RunsAreAccounted AdoptedAlone
PROPERTIES WindowsAreExact NothingIsRewritten
CHECK_DEADLOCK FALSE
