CONSTANTS
    \* PAM
    Leases = {l1, l2}
    Brokers = {b1, b2}
    Recoverers = {b2}
    MaxFaults = 1
    Acquisitions = {a1, a2}
    TokenBrokers = {b1}
    MinTtl = 1
    MaxTtl = 1
    MaxLifetime = 2
    Skew = 1
    Timeout = 2
    MaxTime = 3
    MaxTokenFaults = 1
    Records = {r1, r2}
    MaxFence = 2
    MaxNow = 2
    MaxLife = 2
    \* sign-in
    Logins = {l1, l2}
    Sources = {s1}
    Callbacks = {b1, b2}
    GlobalLimit = 2
    SourceLimit = 2
    BurnCapacity = 1
    ReservationTtl = 1
    TransactionTtl = 2
    SessionTtl = 1
    BurnRetention = 1
    MaxTokenAge = 1
    MaxAuthAge = 1
    TokenSkew = 0
    Lag = 1
    MaxInstant = 3
    \* key sets
    Threads = {t1, t2, t3}
    MaxRotation = 2
    CacheSeconds = 2
    NegativeSeconds = 1
    MaxMoment = 3
SPECIFICATION AccessSpec
INVARIANTS RevokedMeansDead ExposureIsCovered CaptureIsClosed FencedMeansDrained
    OneSessionPerLogin AuthenticationAgeIsBounded GetsAreBounded
PROPERTIES EveryLeaseIsRevoked KeySetsNeverGoBack
CHECK_DEADLOCK FALSE
