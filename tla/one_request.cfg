SPECIFICATION MCSpec
CONSTANTS
    t1 = t1
    t2 = t2
    t3 = t3
    p1 = p1
    p2 = p2
    i1 = i1
    i2 = i2
    Tasks = {t1, t2, t3}
    Projects = {p1, p2}
    ParentOf <- Parents
    InitialTasks = {t1}
    InitialProjects = {p1}
    Requests = {r1}
    Calls <- AllCalls
    Nobody = Nobody
    ProgressOf <- AggregateProgressBp
    FullBp = 2
    NoWeight = NoWeight
    Indicators = {i1, i2}
    Contributions = {1, 2, 3}
    ContributingProject <- Givers
    IndicatorOf <- Takers
    Values = {1}
    Operations = {"complete", "reopen", "deleteProject", "create", "alter", "edit", "deleteIndicator"}
    MayFail = TRUE
INVARIANTS
    RowsStaySound
    ObjectiveReadingExact
    CompletionIsReal
    ContributionsFollowTasks
    ContributionsLeaveNoTrace
CHECK_DEADLOCK FALSE
