SPECIFICATION FairSpec
CONSTANTS
    w1 = w1
    w2 = w2
    k1 = k1
    k2 = k2
    u1 = u1
    u2 = u2
    d1 = d1
    d2 = d2
    Workers = {w1, w2}
    Keys = {k1, k2}
    Users = {u1}
    Tokens = {d1}
    NoToken = none
    Audience <- SameAudience
    FirstDelays = {0}
    MaxEvents = 2
    MaxClaims = 4
    MaxFaults = 1
    MaxAttempts = 2
    StaleLock = 2
    BatchSize = 1
    BackoffUnit = 1
    BackoffCap = 1
    Prompt = TRUE
INVARIANTS
    LeaseIsExclusive
PROPERTIES
    EventuallySettled
