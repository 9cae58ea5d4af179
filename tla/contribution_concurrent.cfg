SPECIFICATION Spec
CONSTANTS
    p1 = p1
    p2 = p2
    i1 = i1
    i2 = i2
    Projects = {p1}
    Indicators = {i1, i2}
    Contributions = {1, 2}
    ProjectOf <- OneProject
    IndicatorOf <- TwoIndicators
    Values = {1, 2}
    Requests = {r1, r2}
    Nobody = Nobody
    Operations = {"complete", "reopen", "change", "deleteProject", "create", "alter", "edit", "deleteIndicator"}
    MayFail = TRUE
INVARIANTS
    EntriesSound
PROPERTIES
    LedgersKept
CHECK_DEADLOCK FALSE
