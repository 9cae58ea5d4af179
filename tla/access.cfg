\* Who signs in, what is enabled, what the connector and the assistant let through.
SPECIFICATION MCSpec
CONSTANTS
    sol = sol
    luz = luz
    e1 = e1
    e2 = e2
    e3 = e3
    here = here
    there = there
    addr = addr
    ana = ana
    leo = leo
    kim = kim
    sup = sup
    u1 = u1
    u2 = u2
    d = d
    v = v
    Identities = {sol, luz}
    Emails = {e1, e2, e3}
    Boss = e1
    Logins = {l1, l2}
    Pending = Pending
    Nobody = Nobody
    Organizations = {here, there}
    Modules = {"okr", "indicadores-gestion", "indicadores-okr", "mcp"}
    RequiredBy <- Requires
    DefaultModules = {"okr", "indicadores-gestion"}
    Lookups = {g1, g2}
    Ttl = 2
    MaxLookup = 1
    LastTick = 6
    Idle = Idle
    Second = 2
    Minute = 3
    Day = 5
    LimitOf <- Limits
    DailyWrites = 3
    SweepSize = 3
    Callers = {c1}
    Users = {ana, leo, kim, sup}
    SuperadminUsers = {sup}
    UnitsOf <- Units
    Requests = {q1, q2}
    Everywhere = Everywhere
    Addresses = {addr}
    NoOrganization = NoOrganization
    Asks = {a1, a2}
    Prompts = {d, v}
    OperationOf <- Operation
    Costs = {1}
    LastMonth = 1
    Nothing = Nothing
    EventIds = {1, 2, 3}
    Writers = {t1, t2}
    Readers = {r1}
    Owners = {here, there}
    Anyone = Anyone
    PageSizes = {1, 2}
    LastInstant = 1
    Unread = Unread
INVARIANTS
    SignInsAreExact
    DependenciesEnabled
    GuardFollowsToggles
    LimiterIsExact
    AssistantIsExact
    PagesAreExact
    DoorsAgree
PROPERTIES
    OnlyTwoPeopleConflict
    CutAtOnce
    GrantsStayWithin
SYMMETRY Symmetric
CHECK_DEADLOCK FALSE
