\* The demo seeds, cut, repeated and met by a member who writes.
SPECIFICATION Spec
CONSTANTS
    FullBp = 10000
    NoWeight = NoWeight
    MonthStart <- Months
    FirstWeekday = 4
    DayLength = 1
    GraceDays = 5
    NoUnit = NoUnit
    Moments <- MayAndNovember
    MaxDepth = 4
    MaxRuns = 2
    Extra = Extra
INVARIANTS
    DemoIsLegal
    QuietRunsAreNotRefused
CHECK_DEADLOCK FALSE
