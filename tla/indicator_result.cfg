SPECIFICATION MCSpec
SYMMETRY Slots
CONSTANTS
    m1 = m1
    m2 = m2
    i1 = i1
    i2 = i2
    i3 = i3
    i4 = i4
    e1 = e1
    e2 = e2
    e3 = e3
    e4 = e4
    FullBp = 2
    NoWeight = NoWeight
    Objectives = {1, 2}
    Metrics = {m1, m2}
    Indicators = {i1, i2, i3, i4}
    Entries = {e1, e2, e3, e4}
    ObjectiveOf <- ObjectiveOfPair
    MetricOf <- MetricOfPair
    SeriesOf <- SeriesOfEntry
    Targets = {1, 2}
    Baselines = {0, 1}
    Increments = {1}
    Calls <- AllCalls
    Requests = {r1, r2}
    Nobody = Nobody
    Keep = Keep
    Absent = Absent
    Deleted = Deleted
    NoPoints = NoPoints
INVARIANTS
    ProgressFollowsSeries
    GroupsStayValid
    OkrFollowsMetrics
    IndicatorsStaySound
    LoadsDoNotDeadlock
CHECK_DEADLOCK FALSE
