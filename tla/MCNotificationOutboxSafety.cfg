SPECIFICATION Spec
CONSTANTS
    w1 = w1
    w2 = w2
    k1 = k1
    k2 = k2
    u1 = u1
    u2 = u2
    d1 = d1
    d2 = d2
    Workers = {w1, w2}
    Keys = {k1}
    Users = {u1, u2}
    Tokens = {d1}
    NoToken = none
    Audience <- OneAudience
    FirstDelays = {0}
    MaxEvents = 1
    MaxClaims = 3
    MaxFaults = 1
    MaxAttempts = 2
    StaleLock = 3
    BatchSize = 2
    BackoffUnit = 1
    BackoffCap = 3
    Prompt = FALSE
SYMMETRY Symmetry
INVARIANTS
    AttemptsCounted
PROPERTIES
    TerminalIsFinal
    SentOnlyIfDelivered
