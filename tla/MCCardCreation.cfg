SPECIFICATION Spec
CONSTANTS
    x = x
    y = y
    s1 = s1
    s2 = s2
    text = text
    note = note
    low = low
    high = high
    safe = safe
    photo = photo
    responsible = responsible
    Requests = {r1, r2}
    Uuids = {x, y}
    Sites = {s1, s2}
    Contents = {text, note}
    Priorities = {low, high}
    Values = {safe}
    NoValue = null
    EmptyValue = empty
    Parts = {photo, responsible}
    SiteEvent = site_event
    Drafts <- ThreeDrafts
    NoDraft = none
    MaxBatch = 2
SYMMETRY Symmetry
INVARIANTS
    FoliosConsecutive
    CardIsWhole
    NeverDuplicateRecord
    SuccessIsTrue
    NoCircularWait
