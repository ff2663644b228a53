SPECIFICATION Spec
CONSTANTS
    Requests = {r1, r2, r3}
    Cards = {c1}
    Users = {u1}
    Priorities = {low, xx}
    Wildcard = xx
    Days = {d1}
    Evidences = {e1}
    None = null
SYMMETRY Symmetry
CHECK_DEADLOCK FALSE
INVARIANTS
    CardIsSupported
    ToldTheTruth
PROPERTIES
    LedgerSpec
