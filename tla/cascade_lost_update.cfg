SPECIFICATION Spec
CONSTANTS
    t1 = t1
    t2 = t2
    t3 = t3
    p1 = p1
    p2 = p2
    Tasks = {t1, t2, t3}
    Projects = {p1, p2}
    ParentOf <- Parents
    InitialTasks = {t1, t3}
    InitialProjects = {p1, p2}
    Requests = {r1, r2}
    Calls <- ProgressLoads
    Nobody = Nobody
    ProgressOf <- AggregateProgressBp
    FullBp = 2
    NoWeight = NoWeight
INVARIANTS
    ObjectiveReadingExact
CHECK_DEADLOCK FALSE
