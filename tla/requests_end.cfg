SPECIFICATION MCSpec
CONSTANTS
    t1 = t1
    t2 = t2
    t3 = t3
    p1 = p1
    p2 = p2
    i1 = i1
    i2 = i2
    Tasks = {t1, t2, t3}
    Projects = {p1, p2}
    ParentOf <- Parents
    InitialTasks = {t1}
    InitialProjects = {p1, p2}
    Requests = {r1, r2}
    Calls <- OneOfEach
    Nobody = Nobody
    ProgressOf <- AggregateProgressBp
    FullBp = 2
    NoWeight = NoWeight
    Indicators = {i1, i2}
    Contributions = {1, 2}
    IndicatorOf <- Takers
    Values = {1}
    Operations = {"complete", "reopen", "create", "alter", "edit"}
PROPERTIES
    RequestsEnd
CHECK_DEADLOCK FALSE
