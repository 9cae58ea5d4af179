------------------------- MODULE MCIndicatorStatus -------------------------
(***************************************************************************)
(* A calendar of months of twenty-one days, of two moments each, and plans *)
(* of every kind of curve: a period that begins within a month and a whole *)
(* year, weights or none, a metric that did not start at its indicator's   *)
(* baseline, targets above and below it, projects that cover the target    *)
(* and projects that do not.                                               *)
(***************************************************************************)
EXTENDS IndicatorStatus, TLC

Months == [k \in 0..24 |-> 21 * k]

Linear(baseline, target, metricBaseline, weight) ==
    [mode |-> "linear", baseline |-> baseline, target |-> target,
     metricBaseline |-> metricBaseline, weight |-> weight, points |-> <<>>, steps |-> <<>>]
Manual(baseline, target, points) ==
    [mode |-> "manual", baseline |-> baseline, target |-> target,
     metricBaseline |-> baseline, weight |-> None, points |-> points, steps |-> <<>>]
Stepped(baseline, target, steps) ==
    [mode |-> "from_projects", baseline |-> baseline, target |-> target,
     metricBaseline |-> baseline, weight |-> None, points |-> <<>>, steps |-> steps]

Span(first, last) == [startsAt |-> Midnight(first), endsAt |-> Midnight(last)]
Task(first, last, weight) == [startsAt |-> Midnight(first), endsAt |-> Midnight(last), weight |-> weight]
Step(day, value) == [endsAt |-> Midnight(day), value |-> value]

\* Two weighted indicators, one of them falling, measured every half month.
Weighted ==
    [range |-> Span(5, 23), frequency |-> "biweekly",
     rows |-> <<Linear(0, 3, 1, 15), Linear(2, -2, 2, 5)>>,
     tasks |-> <<>>, projectEndsAt |-> 0]

\* A manual curve and a linear one, by the week.
Drawn ==
    [range |-> Span(5, 19), frequency |-> "weekly",
     rows |-> <<Manual(0, 4, (5 :> 1) @@ (12 :> 4)), Linear(3, 0, 2, None)>>,
     tasks |-> <<>>, projectEndsAt |-> 0]

\* Curves of the projects, that cover the target or do not, by the month.
Projected ==
    [range |-> Span(0, 62), frequency |-> "monthly",
     rows |-> <<Stepped(0, 3, (1 :> Step(18, 1)) @@ (2 :> Step(44, 2))),
                Stepped(2, 0, (1 :> Step(36, -1)))>>,
     tasks |-> <<>>, projectEndsAt |-> 0]

\* By the quarter, half or year.
Yearly(frequency, range) ==
    [range |-> range, frequency |-> frequency,
     rows |-> <<Linear(0, 2, 0, None)>>, tasks |-> <<>>, projectEndsAt |-> 0]

\* Tasks that weigh, do not weigh or weigh nothing.
Worked(weights) ==
    [range |-> Span(5, 15), frequency |-> "monthly",
     rows |-> <<Linear(0, 2, 0, None)>>,
     tasks |-> <<Task(5, 9, weights[1]), Task(7, 15, weights[2])>>,
     projectEndsAt |-> Midnight(20)]

AllPlans == {Weighted, Drawn, Projected,
             Yearly("quarterly", Span(55, 70)),
             Yearly("semiannual", Span(120, 130)),
             Yearly("annual", Span(245, 260)),
             Worked(<<None, None>>), Worked(<<5, 15>>), Worked(<<0, 20>>)}

AllInstants == {2 * d + 1 : d \in {0, 9, 13, 18, 24, 36, 44, 67, 135, 270}}
Increments2 == {-2, 4}
Ids == Permutations(LoadIds)
=============================================================================
