\* Units, members, axes, periods, and what is planned under them.
SPECIFICATION MCSpec
CONSTANTS
    FullBp = 20
    NoWeight = NoWeight
    NoUnit = NoUnit
    NoAxis = NoAxis
    Keep = Keep
    Idle = Idle
    r = r
    u1 = u1
    u2 = u2
    u3 = u3
    ann = ann
    bob = bob
    p1 = p1
    p2 = p2
    q1 = q1
    o1 = o1
    o2 = o2
    x1 = x1
    a1 = a1
    a2 = a2
    here = here
    there = there
    Superadmin = Superadmin
    Cron = Cron
    Units = {r, u1, u2, u3}
    Axes = {a1, a2}
    Periods = {p1, p2, q1}
    Objectives = {o1, o2}
    Projects = {x1}
    Users = {ann, bob}
    Organizations = {here, there}
    Here = here
    MaxDepth = 3
    MinDays = 1
    MaxDays = 3
    LastDay = 4
    Calls <- AllCalls
    Requests = {s1, s2, Cron}
    Chosen = {"tree", "scopes", "places", "axes", "periods", "planned", "at_once"}
    ReadingOf <- ReadingsOfObjectives
INVARIANTS
    StructureStands
    PlanHangsTogether
    TreeAccountsForEverything
PROPERTIES
    ClosedPeriodsRest
    WritesStayInScope
    ExpiredPeriodsClose
CHECK_DEADLOCK FALSE
