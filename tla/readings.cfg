\* What is read of an objective over its period.
SPECIFICATION Spec
CONSTANTS
    FullBp = 20
    NoWeight = NoWeight
    MonthStart <- Months
    FirstWeekday = 3
    DayLength = 2
    GraceDays = 3
    Plans <- AllPlans
    LoadIds = {l1, l2}
    Values <- Increments2
    Instants <- AllInstants
SYMMETRY
    Ids
INVARIANTS
    LoadsAreAskedOnTime
    CurvesKeepTheirPromise
    ReadingsAgree
PROPERTIES
    LoadsSettleTheirBucket
CHECK_DEADLOCK FALSE
