--------------------------- MODULE MetricsDomain ---------------------------
(***************************************************************************)
(* The pure rules of packages/metrics-domain and packages/deviation-domain *)
(* (RN-C4, RN-C5, RN-C8, RN-P8, RN-P9, RN-P15, RN-P17): what a series of   *)
(* loads amounts to, how far that is on the way from a baseline to a       *)
(* target, and what was expected by a date.                                *)
(*                                                                         *)
(* Values are the scaled integers the code computes with (a decimal times  *)
(* ten thousand), so its arithmetic is exact; a bigint quotient truncates  *)
(* toward zero.  Instants are integers of one unit, and DayLength units    *)
(* make a day.                                                             *)
(*                                                                         *)
(* An operator described in parentheses is a slip of the one it precedes:  *)
(* no specification uses it.                                               *)
(***************************************************************************)
EXTENDS OkrDomain

\* The quotient of two bigints.
Quotient(a, b) ==
    IF b < 0 THEN IF a > 0 THEN -(a \div (-b)) ELSE (-a) \div (-b)
    ELSE IF a < 0 THEN -((-a) \div b) ELSE a \div b

-----------------------------------------------------------------------------
(* Progress.                                                               *)

\* accumulatedValue: the baseline of the metric and every increment.
AccumulatedValue(baseline, increments) == baseline + SumFunction(increments)

\* progressBp: the way from baseline to target, clamped; a target that is the
\* baseline is reached or not.
ProgressBp(actual, baseline, target) ==
    LET raw == Quotient((actual - baseline) * FullBp, target - baseline)
    IN  IF target = baseline THEN IF actual = target THEN FullBp ELSE 0
        ELSE IF raw <= 0 THEN 0
        ELSE IF raw >= FullBp THEN FullBp ELSE raw

\* An indicator without loads has no progress, wherever its baseline is.
ObjectiveIndicatorProgressBp(metricBaseline, increments, baseline, target) ==
    IF DOMAIN increments = {} THEN 0
    ELSE ProgressBp(AccumulatedValue(metricBaseline, increments), baseline, target)
\* summarizeContributions: whether the projects that contribute would reach the
\* target, whichever way it lies.
CoversTarget(baseline, target, contributions) ==
    LET projected == baseline + SumFunction(contributions)
    IN  IF target >= baseline THEN projected >= target ELSE projected <= target

-----------------------------------------------------------------------------
(* Deviation and semaphore (packages/deviation-domain).                    *)

None == NoWeight    \* null: a deviation or a mean that cannot be measured

\* deviationBp of a result, and progressDeviationBp of the execution.
DeviationBp(actual, expected, baseline, target) ==
    IF target = baseline THEN 0
    ELSE Quotient((actual - expected) * FullBp, target - baseline)
ProgressDeviationBp(actualBp, expectedBp) == actualBp - expectedBp

\* aggregateDeviationBp: the mean of the members that can be measured, with
\* their weights if every member has one.  (Over all members' weight.)
AggregateDeviationOfAll(items) ==
    LET measurable == {x \in DOMAIN items : items[x].deviation # None}
        weights == [x \in DOMAIN items |-> items[x].weight]
    IN  IF measurable = {} THEN None
        ELSE IF \A x \in DOMAIN items : items[x].weight # None
        THEN Quotient(SumFunction([x \in measurable |-> items[x].weight * items[x].deviation]),
                      SumFunction(weights))
        ELSE Quotient(SumFunction([x \in measurable |-> items[x].deviation]),
                      Cardinality(DOMAIN items))
AggregateDeviationBp(items) ==
    LET measurable == {x \in DOMAIN items : items[x].deviation # None}
        weighted == \A x \in DOMAIN items : items[x].weight # None
        total == SumFunction([x \in measurable |-> items[x].weight])
    IN  IF measurable = {} THEN None
        ELSE IF weighted /\ total > 0
        THEN Quotient(SumFunction([x \in measurable |-> items[x].weight * items[x].deviation]), total)
        ELSE Quotient(SumFunction([x \in measurable |-> items[x].deviation]),
                      Cardinality(measurable))

\* DEFAULT_SEMAPHORE_THRESHOLDS: a tenth and a quarter of the way.
YellowBp == FullBp \div 10
RedBp == FullBp \div 4

Semaphore(deviation) ==
    IF deviation >= -YellowBp THEN "green"
    ELSE IF deviation >= -RedBp THEN "yellow" ELSE "red"
SemaphoreOf(deviation) == IF deviation = None THEN None ELSE Semaphore(deviation)
=============================================================================
