SPECIFICATION Spec
CONSTANTS
    ana = ana
    bob = bob
    am = am
    pm = pm
    press = press
    oven = oven
    A1 = A1
    B1 = B1
    p1 = p1
    p2 = p2
    clean = clean
    oil = oil
    six = six
    None = None
    Unassigned = Unassigned
    NoName = NoName
    Likes <- Exactly
    Site <- ThisSite
    Today = 10
    Zones <- TheZones
    Users = {ana, bob}
    Levels <- Tree_
    Positions = {p1, p2}
    Masters <- TheMasters
    CiltSequences <- TheSequences
    CiltSchedules <- TheSchedules
    CardRows <- TheCards
    ExecutionRows <- TheExecutions
    PlacementRows <- ThePlacements
    PositionLevelRows <- ThePositionLevels
    MaxRows = 4
CONSTRAINT OneSubject
CHECK_DEADLOCK FALSE
INVARIANTS
    DrillDownAgrees
    ListsAgree
    CountsAddUp
    PlansAgree
