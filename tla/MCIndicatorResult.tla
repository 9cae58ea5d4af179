------------------------- MODULE MCIndicatorResult -------------------------
(***************************************************************************)
(* Instances of IndicatorResult: objectives 1 and 2, measured by metric m1 *)
(* (indicators i1 and i2) and by metric m2 (indicators i3 of objective 1   *)
(* and i4 of objective 2).  One hundred percent is 2 basis points.         *)
(***************************************************************************)
EXTENDS IndicatorResult

CONSTANTS m1, m2, i1, i2, i3, i4, e1, e2, e3, e4

Pairs == i1 :> <<1, m1>> @@ i2 :> <<2, m1>> @@ i3 :> <<1, m2>> @@ i4 :> <<2, m2>>
ObjectiveOfPair == [i \in Indicators |-> Pairs[i][1]]
MetricOfPair == [i \in Indicators |-> Pairs[i][2]]
SeriesOfEntry == [e \in Entries |-> IF e = e2 THEN m2 ELSE m1]

Load(ms, writes) == [op |-> "load", metrics |-> ms, writes |-> writes]
Create(i, target, weight, link, mode, last) ==
    [op |-> "create", indicator |-> i, inline |-> FALSE, kind |-> "output", target |-> target,
     weight |-> weight, link |-> link, mode |-> mode, last |-> last]
Plain(i, weight) == Create(i, 2, weight, "independent", "linear", NoPoints)
Update(i, target, weight, link, mode, last) ==
    [op |-> "update", indicator |-> i, target |-> target, weight |-> weight,
     link |-> link, mode |-> mode, last |-> last]
SetPoints(i, last) == [op |-> "set_points", indicator |-> i, last |-> last]
SetWeights(o, w) == [op |-> "set_weights", objective |-> o, weights |-> w]
Delete(i) == [op |-> "delete", indicator |-> i]
NewMetric(m, baseline) ==
    [op |-> "create_metric", metric |-> m, baseline |-> baseline, kind |-> "output"]
EditMetric(m, baseline, kind) ==
    [op |-> "update_metric", metric |-> m, baseline |-> baseline, kind |-> kind]
DeleteObjective1 == [op |-> "delete_objective", objective |-> 1]
DropMetric(m) == [op |-> "delete_metric", metric |-> m]

-----------------------------------------------------------------------------
(***************************************************************************)
(* A scenario is a set of calls and the indicators that are already there, *)
(* with their metrics: a state that Init reaches by create_metric and      *)
(* create.  The behaviours of a run are those of all its scenarios.        *)
(***************************************************************************)
VARIABLE scenario

Row(weight) == [NoIndicator EXCEPT !.life = "live", !.target = 2, !.weight = weight]

Scenarios == [
    \* Loads of one and of two metrics that share their objectives.
    loads |->
      [rows |-> i1 :> Row(NoWeight) @@ i2 :> Row(NoWeight) @@ i4 :> Row(NoWeight),
       calls |-> {Load(<<m1>>, e1 :> 1), Load(<<m1>>, e1 :> Deleted), Load(<<m1>>, e3 :> 1),
                  Load(<<m2, m1>>, e2 :> 1 @@ e4 :> 1), Delete(i2)}],
    \* A baseline and a target that move under the loads.
    edits |->
      [rows |-> i1 :> Row(NoWeight),
       calls |-> {Load(<<m1>>, e1 :> 1), Load(<<m1>>, e1 :> Deleted), Plain(i2, NoWeight),
                  Update(i1, 1, Keep, Keep, Keep, Keep), EditMetric(m1, 1, Keep)}],
    \* Weights that meet loads, edits, creations and deletions.
    weights |->
      [rows |-> i1 :> Row(2),
       calls |-> {Load(<<m1>>, e1 :> 1), Plain(i3, NoWeight), Plain(i3, 0),
                  Update(i1, 1, Keep, Keep, Keep, Keep), Update(i1, Keep, NoWeight, Keep, Keep, Keep),
                  SetWeights(1, i1 :> 1 @@ i3 :> 1), SetWeights(1, i1 :> 2 @@ i3 :> 0),
                  SetWeights(1, i1 :> NoWeight @@ i3 :> NoWeight),
                  Delete(i1), Delete(i3)}],
    \* Kinds, links, curves and the end of a metric.
    checks |->
      [rows |-> i1 :> Row(NoWeight),
       calls |-> {Create(i2, 2, NoWeight, "feeds", "from_projects", NoPoints),
                  Update(i1, Keep, Keep, "feeds", Keep, Keep),
                  Update(i1, 1, Keep, Keep, Keep, Keep), Update(i1, Keep, Keep, Keep, "manual", 2),
                  SetPoints(i1, NoPoints), SetPoints(i1, 2),
                  EditMetric(m1, Keep, "outcome"), EditMetric(m1, Keep, "output"),
                  DropMetric(m1), DeleteObjective1}],
    \* From nothing: metrics created alone and with an indicator.
    creation |->
      [rows |-> [i \in {} |-> NoIndicator],
       calls |-> {NewMetric(m1, 1), Plain(i1, 2), [Plain(i1, NoWeight) EXCEPT !.inline = TRUE],
                  Plain(i3, 2), [Plain(i3, 2) EXCEPT !.inline = TRUE],
                  Load(<<m1>>, e1 :> 1), Load(<<m2>>, e2 :> 1)}]]

AllCalls == UNION {Scenarios[s].calls : s \in DOMAIN Scenarios}

MCInit ==
    \E s \in DOMAIN Scenarios :
        LET rows == Scenarios[s].rows
            used == {MetricOf[i] : i \in DOMAIN rows}
        IN  /\ scenario = s
            /\ Quiet([m \in Metrics |-> IF m \in used THEN [Unborn EXCEPT !.life = "live"] ELSE Unborn],
                     [i \in Indicators |-> IF i \in DOMAIN rows THEN rows[i] ELSE NoIndicator])

MCNext == Step(Scenarios[scenario].calls) /\ UNCHANGED scenario

MCSpec == MCInit /\ [][MCNext]_<<vars, scenario>>

\* The request slots are interchangeable.
Slots == Permutations(Requests)
=============================================================================
