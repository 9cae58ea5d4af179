SPECIFICATION Spec
CONSTANTS
    t1 = t1
    t2 = t2
    t3 = t3
    p1 = p1
    p2 = p2
    Tasks = {t1, t2, t3}
    Projects = {p1, p2}
    ParentOf <- Parents
    InitialTasks = {t1}
    InitialProjects = {p1}
    Requests = {r1, r2}
    Calls <- RacingCalls
    Nobody = Nobody
    ProgressOf <- AggregateProgressBp
    FullBp = 2
    NoWeight = NoWeight
INVARIANTS
    ProjectReadingExact
    ObjectiveGroupValid
CHECK_DEADLOCK FALSE
