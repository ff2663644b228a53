SPECIFICATION PlanSpec
CONSTANTS
    s1 = s1
    a = a
    b = b
    c = c
    d = d
    e = e
    n1 = n1
    n2 = n2
    n3 = n3
    r1 = r1
    r2 = r2
    Ids = {a, b, c, d, e, n1, n2, n3}
    Sites = {s1}
    Requests = {r1, r2}
    None = None
    Orders <- TheOrders
    NewOrders <- Asked
    FirstRows <- TheRows
    MaxCalls = 3
    Rules <- TheRules
    Dates <- TheDates
    FirstTables <- Tables
    MaxSchedules = 4
    MaxTimes = 2
    MaxSchedCalls = 2
    MaxPlanCalls = 2
CONSTRAINT Bounded
SYMMETRY Symmetry
CHECK_DEADLOCK FALSE
INVARIANTS
    ScheduleOrdersUnique
    SchedulesAgree
    OrdersUnique
PROPERTIES
    DetailsHaveMasters
    ImplementsList
