SPECIFICATION Spec
CONSTANTS
    clean = clean
    worker = worker
    boss = boss
    morning = morning
    now = now
    r1 = r1
    r2 = r2
    Requests = {r1, r2}
    Users = {worker, boss}
    Admins = {boss}
    Sequences_ = {clean}
    Schedules = {morning}
    Now = now
    SiteDay <- Twice
    UserDay <- Days
    Times = {5, 6}
    Second = 4
    Cards = {}
    ByHand <- Today
    StopInputs <- Stops
    UpdateInputs <- Updates
    CreateInputs <- Creates
    None = none
    MaxExecutions = 2
CONSTRAINT FirstTear
SYMMETRY Symmetry
INVARIANTS
    PlannedOnce
    CompletedWhole
PROPERTIES
    RecordedStays
