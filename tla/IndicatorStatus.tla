--------------------------- MODULE IndicatorStatus ---------------------------
(***************************************************************************)
(* What the system reads of one objective while its period goes by:        *)
(* indicator-status.service.ts of modules/metrics over the loads of        *)
(* metric-entry.service.ts, the automatic loads of                         *)
(* project-contribution-applier.service.ts and the caches that             *)
(* okr-contracts.module.ts reads.                                          *)
(*                                                                         *)
(* Each indicator of the objective has a metric of its own.  What the      *)
(* organisation planned does not change here; IndicatorResult has the      *)
(* editing, and that the cached progress is the one computed below.        *)
(* A status is a function of the state: nothing of it is stored.           *)
(***************************************************************************)
EXTENDS MetricsCalendar, PlanningDomain

CONSTANTS
    Plans,      \* the plans: the period, the frequency, the rows of the
                \* indicators, and the one project with its tasks
    LoadIds,    \* the loads there may be
    Values,     \* the increments of a load
    Instants    \* the instants at which anything happens

\* A plan as the services leave it: rows and tasks whose weights form a valid
\* group, a manual curve that is a value by day and a stepped one that is a value
\* by project; a period that ends after it begins, within the calendar.
SoundRows(rows) ==
    /\ IsFiniteSet(DOMAIN rows)
    /\ rows \in [DOMAIN rows -> [mode : {"linear", "manual", "from_projects"},
           baseline : Int, target : Int, metricBaseline : Int, weight : Weight,
           points : {rows[i].points : i \in DOMAIN rows},
           steps : {rows[i].steps : i \in DOMAIN rows}]]
    /\ ValidWeightGroup([i \in DOMAIN rows |-> rows[i].weight])
    /\ \A i \in DOMAIN rows :
         /\ \A d \in DOMAIN rows[i].points : rows[i].points[d] \in Int
         /\ IsFiniteSet(DOMAIN rows[i].steps)
         /\ \A s \in DOMAIN rows[i].steps : rows[i].steps[s].value \in Int
SoundTasks(tasks) ==
    /\ IsFiniteSet(DOMAIN tasks)
    /\ \A t \in DOMAIN tasks : /\ tasks[t].startsAt \in Int /\ tasks[t].endsAt \in Int
                             /\ tasks[t].weight \in Weight
    /\ ValidWeightGroup([t \in DOMAIN tasks |-> tasks[t].weight])
ASSUME PlansAssumption == \A p \in Plans :
    /\ p \in [range : [startsAt : Nat, endsAt : Nat], frequency : Frequencies,
               rows : {p.rows}, tasks : {p.tasks}, projectEndsAt : Int]
    /\ p.range.startsAt < p.range.endsAt
    /\ \E k \in DOMAIN MonthStart : k % 12 = 0 /\ LastDay(p.range) < MonthStart[k]
    /\ SoundRows(p.rows) /\ SoundTasks(p.tasks)
ASSUME ValuesAssumption == Values \subseteq Int
ASSUME InstantsAssumption == Instants \subseteq Nat /\ \E t \in Instants : \A u \in Instants : t <= u

VARIABLES
    plan,       \* one of Plans; closing early moves the end of its period
    now,
    closed,     \* whether the period is closed
    load,       \* the live loads: indicator, day, value and origin
    progress    \* the progress of each task

vars == <<plan, now, closed, load, progress>>

Row(i) == plan.rows[i]
LoadsOf(i) == [l \in {x \in DOMAIN load : load[x].indicator = i} |-> load[l]]
Increments(i) == [l \in DOMAIN LoadsOf(i) |-> load[l].value]
LoadedDays(i) == {load[l].day : l \in DOMAIN LoadsOf(i)}
Buckets == BuildBuckets(plan.range, plan.frequency)

Init ==
    /\ plan \in {p \in Plans : \A i \in DOMAIN p.rows :
                    ValidTargetPoints(p.rows[i].points, p.range, p.frequency, p.rows[i].target)}
    /\ now = Earliest(Instants)
    /\ closed = FALSE
    /\ load = <<>>
    /\ progress = [t \in DOMAIN plan.tasks |-> 0]

Pass ==
    /\ \E later \in Instants : later > now /\ now' = later
    /\ UNCHANGED <<plan, closed, load, progress>>

-----------------------------------------------------------------------------
(* Loads.                                                                  *)

NewLoad(indicator, day, value, origin) ==
    \E l \in LoadIds \ DOMAIN load :
        load' = [x \in DOMAIN load \cup {l} |->
                    IF x = l THEN [indicator |-> indicator, day |-> day,
                                   value |-> value, origin |-> origin]
                    ELSE load[x]]

\* MetricEntryService.create: on any bucket, of the past or to come.
Load(i, day, value) ==
    /\ ~closed
    /\ IsValidBucketDate(day, plan.range, plan.frequency)
    /\ NewLoad(i, day, value, "manual")
    /\ UNCHANGED <<plan, now, closed, progress>>

\* update and softDelete: of what someone loaded.
ManualLoads == {l \in DOMAIN load : load[l].origin = "manual"}

ChangeLoad(l, value) ==
    /\ ~closed
    /\ load' = [load EXCEPT ![l].value = value]
    /\ UNCHANGED <<plan, now, closed, progress>>

RemoveLoad(l) ==
    /\ ~closed
    /\ load' = [x \in DOMAIN load \ {l} |-> load[x]]
    /\ UNCHANGED <<plan, now, closed, progress>>

\* createAutomaticEntry: the contribution of a project, or its compensation, in
\* the bucket of the day it happens; a reconciliation does not mind a period
\* that closed meanwhile.
AutomaticLoad(i, value) ==
    /\ DOMAIN Row(i).steps # {}
    /\ NewLoad(i, BucketContaining(Day(now), Buckets), value, "project")
    /\ UNCHANGED <<plan, now, closed, progress>>

\* The progress of a task (ExecutionCascade has the service).
LoadTask(t, bp) ==
    /\ ~closed
    /\ progress' = [progress EXCEPT ![t] = bp]
    /\ UNCHANGED <<plan, now, closed, load>>

\* closePeriod by hand: the period ends at the midnight before, unless it was
\* over; chk_period_range refuses a period that would end before it begins.
ClosePeriod ==
    LET early == now < plan.range.endsAt
    IN  /\ ~closed
        /\ early => Midnight(Day(now)) > plan.range.startsAt
        /\ plan' = IF early THEN [plan EXCEPT !.range.endsAt = Midnight(Day(now))] ELSE plan
        /\ closed' = TRUE
        /\ UNCHANGED <<now, load, progress>>

Next ==
    \/ Pass
    \/ \E i \in DOMAIN plan.rows, day \in Buckets, value \in Values : Load(i, day, value)
    \/ \E l \in ManualLoads, value \in Values : ChangeLoad(l, value)
    \/ \E l \in ManualLoads : RemoveLoad(l)
    \/ \E i \in DOMAIN plan.rows, value \in Values : AutomaticLoad(i, value)
    \/ \E t \in DOMAIN plan.tasks, bp \in {FullBp \div 2, FullBp} : LoadTask(t, bp)
    \/ ClosePeriod

Spec == Init /\ [][Next]_vars

-----------------------------------------------------------------------------
(* The readings.                                                           *)

ActualValue(i) == AccumulatedValue(Row(i).metricBaseline, Increments(i))
AsOf(i) == Latest(LoadedDays(i))
ExpectedToday(i) == ExpectedCurve(Row(i), Midnight(Day(now)), plan.range)
ResultProgress(i) ==
    ObjectiveIndicatorProgressBp(Row(i).metricBaseline, Increments(i), Row(i).baseline, Row(i).target)

Pending(i) == PendingBuckets(LoadedDays(i), Buckets, Day(now), LastDay(plan.range))

\* buildStatus: the deviation is that of the last bucket with a load.
BuildStatus(i) ==
    LET hasData == DOMAIN LoadsOf(i) # {}
        expected == ExpectedCurve(Row(i), Midnight(AsOf(i)), plan.range)
        deviation == IF hasData
                     THEN DeviationBp(ActualValue(i), expected, Row(i).baseline, Row(i).target)
                     ELSE None
    IN  [hasData |-> hasData, deviation |-> deviation, semaphore |-> SemaphoreOf(deviation),
         pending |-> Pending(i)]

\* readObjectiveProgress: the two caches, and what was planned by now.
Tasks == [t \in DOMAIN plan.tasks |->
    [weight |-> plan.tasks[t].weight, startsAt |-> plan.tasks[t].startsAt,
     endsAt |-> plan.tasks[t].endsAt, progress |-> progress[t]]]
ProgressReading ==
    [result |-> AggregateProgressBp([i \in DOMAIN plan.rows |->
                    [weight |-> Row(i).weight, progress |-> ResultProgress(i)]]),
     execution |-> AggregateProgressBp(Tasks),
     planned |-> PlannedExecutionProgress([p \in {"project"} |-> [weight |-> None, tasks |-> Tasks]], now)]

\* composeObjectiveStatus: two readings that are never combined.
ObjectiveStatus ==
    LET statuses == [i \in DOMAIN plan.rows |-> BuildStatus(i)]
        result == AggregateDeviationBp([i \in DOMAIN plan.rows |->
                      [weight |-> Row(i).weight, deviation |-> statuses[i].deviation]])
        execution == ProgressDeviationBp(ProgressReading.execution, ProgressReading.planned)
    IN  [result |-> [progress |-> ProgressReading.result, deviation |-> result,
                     semaphore |-> SemaphoreOf(result),
                     pending |-> SumFunction([i \in DOMAIN statuses |->
                                                Cardinality(statuses[i].pending)])],
         execution |-> [progress |-> ProgressReading.execution, planned |-> ProgressReading.planned,
                        deviation |-> execution, semaphore |-> Semaphore(execution)]]

\* getSeries of the metric: the curve of what was loaded.
Series(i) == CumulativeSeries(LoadsOf(i), Row(i).metricBaseline)

-----------------------------------------------------------------------------
(* Properties.                                                             *)

Colours == {"green", "yellow", "red"}

\* The state and both readings are of their types: in particular every share of
\* a hundred percent is one, whatever was loaded.
TypeOK ==
    /\ plan.rows \in [DOMAIN plan.rows -> [mode : {"linear", "manual", "from_projects"},
           baseline : Int, target : Int, metricBaseline : Int, weight : Weight,
           points : {Row(i).points : i \in DOMAIN plan.rows},
           steps : {Row(i).steps : i \in DOMAIN plan.rows}]]
    /\ now \in Instants
    /\ closed \in BOOLEAN
    /\ DOMAIN load \subseteq LoadIds
    /\ \A l \in DOMAIN load : load[l] \in [indicator : DOMAIN plan.rows, day : Nat,
                                           value : Values, origin : {"manual", "project"}]
    /\ LET status == ObjectiveStatus
       IN  /\ {status.result.progress, status.execution.progress, status.execution.planned}
                \subseteq Progress
           /\ status.result.semaphore \in Colours \cup {None}

\* The buckets of a period are the days a calendar gives them: its first day, and
\* every day of it that is a Monday, a first or sixteenth, or the first of the
\* month at which a quarter, a half or a year begins.  buildBuckets finds them
\* by stepping from one to the next.
StartsOn(frequency, day) ==
    CASE frequency = "weekly" -> Weekday(day) = 1
      [] frequency = "biweekly" -> DayOfMonth(day) \in {1, 16}
      [] OTHER -> DayOfMonth(day) = 1 /\ Month(day) % MonthsOf(frequency) = 0
BucketsFollowTheCalendar ==
    Buckets = {FirstDay(plan.range)} \cup
              {day \in FirstDay(plan.range)..LastDay(plan.range) : StartsOn(plan.frequency, day)}

\* A bucket is pending when, and only when, nobody loaded it and the days it
\* stands for have been over for longer than the grace: no day of it is recent,
\* and no day after it is that old without it being pending.
PendingIsOverdue ==
    LET buckets == Buckets
        today == Day(now)
    IN  \A i \in DOMAIN plan.rows :
          LET pending == Pending(i)
          IN  \A bucket \in buckets :
                LET days == {d \in FirstDay(plan.range)..LastDay(plan.range) :
                                BucketContaining(d, buckets) = bucket}
                IN  /\ bucket \in pending =>
                         bucket \notin LoadedDays(i) /\ \A d \in days : today - d > GraceDays
                    /\ bucket \notin LoadedDays(i) /\ (\A d \in days : today - d > GraceDays + 1)
                         => bucket \in pending

\* A load is asked for when it is due: the buckets are those of the calendar, and
\* those that are overdue, and no other, are pending.
LoadsAreAskedOnTime == BucketsFollowTheCalendar /\ PendingIsOverdue

\* What the series of a metric shows at its last point is the value its
\* indicators are measured with: the curve and the status agree.
SeriesEndsAtTheValue ==
    \A i \in DOMAIN plan.rows :
        BuildStatus(i).hasData => Series(i)[AsOf(i)] = ActualValue(i)

\* An indicator on a linear curve that has reached its target, from below or
\* from above, is never behind, whenever it was last loaded.
Reached(i) ==
    IF Row(i).target >= Row(i).baseline THEN ActualValue(i) >= Row(i).target
    ELSE ActualValue(i) <= Row(i).target
ReachedIsNotBehind ==
    \A i \in DOMAIN plan.rows :
        Row(i).mode = "linear" /\ BuildStatus(i).hasData /\ Reached(i)
        => BuildStatus(i).semaphore = "green"

\* A curve stays on its way: a linear one between baseline and target, and on
\* the target once the period is over; a manual one on the target from its last
\* point on, even if the period closed before.
Between(x, a, b) == (a <= x /\ x <= b) \/ (b <= x /\ x <= a)
CurvesReachTheirTarget ==
    \A i \in DOMAIN plan.rows :
        /\ Row(i).mode = "linear" =>
             /\ Between(ExpectedToday(i), Row(i).baseline, Row(i).target)
             /\ Midnight(Day(now)) >= plan.range.endsAt => ExpectedToday(i) = Row(i).target
        /\ Row(i).mode = "manual" /\ DOMAIN Row(i).points # {} =>
             (Day(now) >= Latest(DOMAIN Row(i).points) => ExpectedToday(i) = Row(i).target)

\* The warning that the projects do not cover the target agrees with the curve:
\* once the last project has ended, the stepped curve is short of the target
\* exactly when the warning is given.
WarningAgreesWithCurve ==
    \A i \in DOMAIN plan.rows :
        LET row == Row(i)
        IN  /\ row.mode = "from_projects"
            /\ \A s \in DOMAIN row.steps : row.steps[s].endsAt <= Midnight(Day(now))
            => (CoversTarget(row.baseline, row.target,
                             [s \in DOMAIN row.steps |-> row.steps[s].value])
                <=> IF row.target >= row.baseline THEN ExpectedToday(i) >= row.target
                    ELSE ExpectedToday(i) <= row.target)

\* A curve keeps what it promises: it gets to its target, or a warning says that
\* it does not.
CurvesKeepTheirPromise == CurvesReachTheirTarget /\ WarningAgreesWithCurve

\* The deviation of an objective lies between those of its indicators that can
\* be measured: one without loads makes it neither better nor worse.
ObjectiveWithinItsIndicators ==
    LET measured == {BuildStatus(i).deviation : i \in DOMAIN plan.rows} \ {None}
        deviation == ObjectiveStatus.result.deviation
    IN  IF measured = {} THEN deviation = None
        ELSE /\ deviation # None
             /\ Earliest(measured) <= deviation /\ deviation <= Latest(measured)

\* Once every task should be over, the execution is behind its plan if and only
\* if some task that weighs is overdue; once the project should be, if and only
\* if it is overdue, and then it has a task to blame.  The statuses of tasks and
\* project and the deviation of the objective are computed apart.
OverdueTasksShow ==
    LET behind == ObjectiveStatus.execution.deviation < 0
        delay == DelayReasons([progress |-> ProgressReading.execution, mode |-> "from_tasks",
                               endsAt |-> plan.projectEndsAt, tasks |-> Tasks], now)
    IN  (DOMAIN plan.tasks # {} /\ \A t \in DOMAIN plan.tasks : plan.tasks[t].endsAt < now)
        => /\ behind <=> \E t \in DOMAIN plan.tasks :
                           /\ plan.tasks[t].weight # 0
                           /\ TaskStatus(progress[t], plan.tasks[t].endsAt, now) = "overdue"
           /\ plan.projectEndsAt < now =>
                /\ "vencido" \in delay <=> behind
                /\ "vencido" \in delay => "tareas_vencidas" \in delay

\* Readings computed apart, from the same loads and tasks, tell the same story:
\* series and value, curve and semaphore, objective and indicators, deviation of
\* the execution and delays.
ReadingsAgree ==
    /\ TypeOK
    /\ SeriesEndsAtTheValue
    /\ ReachedIsNotBehind
    /\ ObjectiveWithinItsIndicators
    /\ OverdueTasksShow

\* A contribution counts in the bucket of the day it happened: that bucket had
\* begun, unless none had, and no later one had.
ContributionsCountWhenTheyHappen ==
    \A l \in DOMAIN load' \ DOMAIN load :
        load'[l].origin = "project" =>
        /\ load'[l].day \in Buckets
        /\ load'[l].day <= Day(now) \/ load'[l].day = Earliest(Buckets)
        /\ \A b \in Buckets : b > load'[l].day => b > Day(now)

\* What is pending stays so until it is loaded or its period is closed, and
\* becomes so by the passing of time or by removing a load: a load elsewhere, an
\* automatic one or the closing of the period never makes a bucket pending.
PendingEndsWithALoad ==
    \A i \in DOMAIN plan.rows :
        LET before == Pending(i)
            after == Pending(i)'
        IN  /\ closed' = closed => \A b \in before \ after : b \in LoadedDays(i)'
            /\ now' = now => \A b \in after \ before : b \in LoadedDays(i)

\* Every load, by hand or by a project, settles its own bucket and no other.
LoadsSettleTheirBucket == [][ContributionsCountWhenTheyHappen /\ PendingEndsWithALoad]_vars
=============================================================================
