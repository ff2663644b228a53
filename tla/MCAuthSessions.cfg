SPECIFICATION Spec
CONSTANTS
    Users = {ana, ben}
    NoUser = nobody
    Requests = {r1, r2}
    MaxSessions = 3
    MaxChanges = 1
    MaxCodes = 1
CONSTRAINT Bounded
SYMMETRY Symmetry
INVARIANTS
    FastNeedsPrimary
    ReplacedOnce
    OnlyCredentialChangesDeadlock
PROPERTIES
    ClosesEverySession
