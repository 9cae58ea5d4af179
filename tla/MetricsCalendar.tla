-------------------------- MODULE MetricsCalendar --------------------------
(***************************************************************************)
(* The dates of packages/metrics-domain: the buckets of a period (RN-C4),  *)
(* the loads that are overdue (RN-P15) and the curve a result is expected  *)
(* to follow (RN-C8, RN-P17).                                              *)
(*                                                                         *)
(* Days are numbered; MonthStart is the calendar: the day each month       *)
(* begins, month 0 being a January.  An instant is a number of moments,    *)
(* DayLength to a day; buckets, loads and points are dated with days.      *)
(***************************************************************************)
EXTENDS MetricsDomain, Sequences

CONSTANTS
    MonthStart,     \* the first day of each month, from 0
    FirstWeekday,   \* the day of the week of day 0: 0 is a Sunday
    DayLength,      \* the moments of a day
    GraceDays       \* DEFAULT_GRACE_DAYS

\* The calendar begins with a January and has no gap; no month is shorter than
\* its half and five days.
ASSUME CalendarAssumption ==
    /\ \E n \in DOMAIN MonthStart : n \in Nat /\ DOMAIN MonthStart = 0..n
    /\ MonthStart[0] = 0
    /\ \A k \in DOMAIN MonthStart : MonthStart[k] \in Nat
    /\ \A k \in DOMAIN MonthStart \ {0} : MonthStart[k - 1] + 20 < MonthStart[k]
    /\ FirstWeekday \in 0..6
    /\ DayLength \in Nat \ {0} /\ GraceDays \in Nat

Frequencies == {"weekly", "biweekly", "monthly", "quarterly", "semiannual", "annual"}

\* toUTCMidnight, and the fields of a date.
Day(instant) == instant \div DayLength
Midnight(day) == day * DayLength
Weekday(day) == (day + FirstWeekday) % 7
Month(day) == CHOOSE k \in DOMAIN MonthStart :
    MonthStart[k] <= day /\ (k + 1 \in DOMAIN MonthStart => day < MonthStart[k + 1])
DayOfMonth(day) == day - MonthStart[Month(day)] + 1

MonthsOf(frequency) == CASE frequency = "quarterly" -> 3
                     [] frequency = "semiannual" -> 6
                     [] frequency = "annual" -> 12
                     [] OTHER -> 1

\* nextBoundary: the natural start of a bucket strictly after a day.
NextMonday(day) ==
    IF (8 - Weekday(day)) % 7 = 0 THEN day + 7 ELSE day + ((8 - Weekday(day)) % 7)
NextBoundary(day, frequency) ==
    CASE frequency = "weekly" -> NextMonday(day)
      [] frequency = "biweekly" ->
           IF DayOfMonth(day) < 16 THEN MonthStart[Month(day)] + 15 ELSE MonthStart[Month(day) + 1]
      [] OTHER -> MonthStart[(Month(day) \div MonthsOf(frequency) + 1) * MonthsOf(frequency)]

\* A period: its first and its last instant.
FirstDay(range) == Day(range.startsAt)
LastDay(range) == Day(range.endsAt)

\* buildBuckets: the first day of the period and every boundary up to its last
\* day.  (Up to the day before.)
BucketsOf(range, frequency, last) ==
    LET from[day \in Nat] ==
            IF day > last THEN {} ELSE {day} \cup from[NextBoundary(day, frequency)]
    IN  {FirstDay(range)} \cup from[NextBoundary(FirstDay(range), frequency)]
BuildBucketsOpen(range, frequency) == BucketsOf(range, frequency, LastDay(range) - 1)
BuildBuckets(range, frequency) == BucketsOf(range, frequency, LastDay(range))

IsValidBucketDate(day, range, frequency) == day \in BuildBuckets(range, frequency)

Latest(days) == CHOOSE d \in days : \A x \in days : x <= d
Earliest(days) == CHOOSE d \in days : \A x \in days : d <= x

\* bucketContaining: the last bucket that starts by the date; the first one for
\* a date before the period.
BucketContaining(day, buckets) ==
    LET started == {b \in buckets : b <= day}
    IN  IF started = {} THEN Earliest(buckets) ELSE Latest(started)

\* pendingBuckets: closed for more than the days of grace, and without a load.
\* A bucket closes when the next one starts, the last one with the period.
\* (Forgiven once a later one is loaded.)
ClosesOn(bucket, buckets, lastDay) ==
    LET later == {b \in buckets : b > bucket} IN IF later = {} THEN lastDay ELSE Earliest(later)
PendingSinceLastLoad(loaded, buckets, today, lastDay) ==
    {b \in buckets : /\ \A x \in loaded : x < b
                     /\ today - ClosesOn(b, buckets, lastDay) > GraceDays}
PendingBuckets(loaded, buckets, today, lastDay) ==
    {b \in buckets \ loaded : today - ClosesOn(b, buckets, lastDay) > GraceDays}

-----------------------------------------------------------------------------
(* The expected curve.                                                     *)

\* expectedAt: the line from the baseline to the target over the period.
ExpectedAt(at, range, baseline, target) ==
    LET total == range.endsAt - range.startsAt
        clamped == IF at < range.startsAt THEN range.startsAt
                   ELSE IF at > range.endsAt THEN range.endsAt ELSE at
    IN  IF total <= 0 THEN target
        ELSE baseline + Quotient((target - baseline) * (clamped - range.startsAt), total)

\* The steps of from_projects: what the projects that end by then contribute.
\* (That end before.)
SteppedBefore(at, baseline, steps) ==
    baseline + SumFunction([x \in {s \in DOMAIN steps : steps[s].endsAt < at} |-> steps[x].value])
SteppedAt(at, baseline, steps) ==
    baseline + SumFunction([x \in {s \in DOMAIN steps : steps[s].endsAt <= at} |-> steps[x].value])

\* The manual curve: points maps days to expected values.  The line between two
\* anchors; a point on the start of the period takes the place of the baseline.
Anchors(points, range, baseline) ==
    LET dated == [t \in {Midnight(d) : d \in DOMAIN points} |-> points[Day(t)]]
    IN  IF \E t \in DOMAIN dated : t <= range.startsAt THEN dated
        ELSE [t \in DOMAIN dated \cup {range.startsAt} |->
                 IF t = range.startsAt THEN baseline ELSE dated[t]]
Interpolated(at, anchors) ==
    LET prev == Latest({t \in DOMAIN anchors : t < at})
        next == Earliest({t \in DOMAIN anchors : t >= at})
    IN  anchors[prev] + Quotient((anchors[next] - anchors[prev]) * (at - prev), next - prev)
ManualAt(at, points, range, baseline) ==
    LET anchors == Anchors(points, range, baseline)
        first == Earliest(DOMAIN anchors)
        last == Latest(DOMAIN anchors)
    IN  IF at <= first THEN anchors[first]
        ELSE IF at >= last THEN anchors[last]
        ELSE Interpolated(at, anchors)

\* expectedCurve, by the mode of the indicator.
ExpectedCurve(row, at, range) ==
    CASE row.mode = "manual" -> ManualAt(at, row.points, range, row.baseline)
      [] row.mode = "from_projects" -> SteppedAt(at, row.baseline, row.steps)
      [] OTHER -> ExpectedAt(at, range, row.baseline, row.target)

\* validateTargetPoints: points on buckets, and the last of them on the target.
ValidTargetPoints(points, range, frequency, target) ==
    /\ \A d \in DOMAIN points : IsValidBucketDate(d, range, frequency)
    /\ DOMAIN points # {} => points[Latest(DOMAIN points)] = target

\* cumulativeToDate and the points of cumulativeSeries: loads maps load ids to
\* their day and increment.
CumulativeToDate(loads, baseline, day) ==
    baseline + SumFunction([x \in {l \in DOMAIN loads : loads[l].day <= day} |-> loads[x].value])
CumulativeSeries(loads, baseline) ==
    [d \in {loads[l].day : l \in DOMAIN loads} |-> CumulativeToDate(loads, baseline, d)]
=============================================================================
