SPECIFICATION SetupSpec
CONSTANTS
    s1 = s1
    s2 = s2
    e1 = e1
    e2 = e2
    e3 = e3
    d1 = d1
    d2 = d2
    d3 = d3
    v1 = v1
    v2 = v2
    u1 = u1
    m1 = m1
    r1 = r1
    r2 = r2
    Requests = {r1, r2}
    Sites = {s1, s2}
    Emails = {e1, e2, e3}
    Digests = {d1, d2, d3}
    Nothing = Nothing
    FirstUsers <- TwoUsers
    FirstPosts <- TheirPosts
    Administrators = {2}
    PlatformAdmins = {}
    MaxUsers = 4
    MaxCalls = 2
    MoreCalls = 3
    Plants = {s1}
    MachineIds = {m1}
    BigintIsString = TRUE
    FirstLevels <- Plant
    FirstCards <- ItsCards
    MaxLevels = 6
    MaxCards = 2
    Values = {v1, v2}
    FirstEntries <- OfEachKind
    MaxEntries = 4
    MaxWorn = 1
    MaxTime = 2
    Operators = {u1}
    FirstPositions <- ThreePositions
    MaxOrder = 4
    MaxPositions = 4
    MaxNamed = 2
CONSTRAINT FirstTear
SYMMETRY Symmetry
CHECK_DEADLOCK FALSE
INVARIANTS
    TreeIsForest
    ActiveIsReachable
    CardsFollowTree
    ClonesAreSound
    PeopleUnique
    FastPasswordsUnique
    CatalogHolds
    RevisionTellsChange
    PositionsKept
