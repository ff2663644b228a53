SPECIFICATION Spec
CONSTANTS
    s1 = s1
    m1 = m1
    r1 = r1
    r2 = r2
    Requests = {r1, r2}
    Sites = {s1}
    MachineIds = {m1}
    None = None
    BigintIsString = TRUE
    FirstLevels <- Plant
    FirstCards <- ItsCards
    MaxLevels = 6
    MaxCards = 2
    MaxCalls = 1
SYMMETRY Symmetry
CHECK_DEADLOCK FALSE
INVARIANTS
    ChildrenReassigned
