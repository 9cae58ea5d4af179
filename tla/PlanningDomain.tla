-------------------------- MODULE PlanningDomain ---------------------------
(***************************************************************************)
(* The pure readings of packages/okr-domain: what was planned by an        *)
(* instant (RN-P9), the status of tasks and projects, and the aggregates   *)
(* of the planning tree by unit and axis (RN-P10).                         *)
(*                                                                         *)
(* Units, objectives and the other rows are functions from their ids.      *)
(***************************************************************************)
EXTENDS MetricsDomain

\* plannedTaskProgressBp: the share of the task's time that has passed.
PlannedTaskProgressBp(task, at) ==
    IF at >= task.endsAt THEN FullBp
    ELSE IF at <= task.startsAt THEN 0
    ELSE ((at - task.startsAt) * FullBp) \div (task.endsAt - task.startsAt)

\* plannedProgress of a group of tasks, and plannedExecutionProgress of a group
\* of projects: the same mean as the real progress.
PlannedProgress(tasks, at) ==
    AggregateProgressBp([t \in DOMAIN tasks |->
        [weight |-> tasks[t].weight, progress |-> PlannedTaskProgressBp(tasks[t], at)]])
PlannedExecutionProgress(projects, at) ==
    AggregateProgressBp([p \in DOMAIN projects |->
        [weight |-> projects[p].weight, progress |-> PlannedProgress(projects[p].tasks, at)]])

\* computeTaskStatus, which is also that of a project.
TaskStatus(progress, endsAt, now) ==
    IF progress >= FullBp THEN "done"
    ELSE IF now > endsAt THEN "overdue"
    ELSE IF progress > 0 THEN "in_progress" ELSE "pending"

\* isProjectDelayed: the reasons, of which there may be none.
DelayReasons(project, now) ==
    {reason \in {"vencido", "tareas_vencidas"} :
        CASE reason = "vencido" -> TaskStatus(project.progress, project.endsAt, now) = "overdue"
          [] OTHER -> /\ project.mode = "from_tasks"
                      /\ \E t \in DOMAIN project.tasks :
                           LET task == project.tasks[t]
                           IN  TaskStatus(task.progress, task.endsAt, now) = "overdue"}

-----------------------------------------------------------------------------
(* Aggregates of objectives: two readings that are never combined.         *)

\* meanBp: truncated toward zero, null of nothing.
MeanBp(values) ==
    IF DOMAIN values = {} THEN None ELSE Quotient(SumFunction(values), Cardinality(DOMAIN values))

\* simpleDeviation: nobody weighs.
SimpleDeviation(values) ==
    AggregateDeviationBp([x \in DOMAIN values |-> [weight |-> None, deviation |-> values[x]]])

\* aggregateObjectiveReadings.
AggregateObjectiveReadings(readings) ==
    LET Column(field) == [o \in DOMAIN readings |-> readings[o][field]]
        result == SimpleDeviation(Column("resultDeviation"))
        execution == SimpleDeviation(Column("executionDeviation"))
    IN  [objectives |-> Cardinality(DOMAIN readings),
         result |-> [progress |-> MeanBp(Column("result")), deviation |-> result,
                     semaphore |-> SemaphoreOf(result),
                     pending |-> SumFunction(Column("pending"))],
         execution |-> [progress |-> MeanBp(Column("execution")), deviation |-> execution,
                        semaphore |-> SemaphoreOf(execution)]]

\* aggregateObjectiveReadingsBy: one aggregate for every key there is.
AggregateObjectiveReadingsBy(readings, key) ==
    [k \in {key[o] : o \in DOMAIN readings} |->
        AggregateObjectiveReadings([o \in {x \in DOMAIN readings : key[x] = k} |-> readings[o]])]

-----------------------------------------------------------------------------
(* The tree: parent maps every unit of the list to its parent.             *)

\* A unit is a root when its parent is not in the list.
Roots(parent) == {u \in DOMAIN parent : parent[u] \notin DOMAIN parent \/ parent[u] = u}
ChildrenOf(parent, u) == {v \in DOMAIN parent \ Roots(parent) : parent[v] = u}

\* The units buildUnitAggregates shows: those it reaches from a root.  In what
\* is not a forest the rest is not shown.
ReachedFrom(parent, roots) ==
    LET reached[n \in Nat] ==
            IF n = 0 THEN roots
            ELSE reached[n - 1] \cup UNION {ChildrenOf(parent, u) : u \in reached[n - 1]}
    IN  reached[Cardinality(DOMAIN parent)]
ShownUnits(parent) == ReachedFrom(parent, Roots(parent))

\* unitSubtreeIds: the unit and all below it, by their parents, cycles or not.
UnitSubtreeIds(parent, u) ==
    LET below[n \in Nat] ==
            IF n = 0 THEN {u}
            ELSE below[n - 1] \cup {v \in DOMAIN parent : parent[v] \in below[n - 1]}
    IN  IF u \in DOMAIN parent THEN below[Cardinality(DOMAIN parent)] ELSE {}

\* buildUnitAggregates: for every unit that is shown, its own objectives, their
\* aggregate and that of the whole subtree.
InUnits(readings, units) == [o \in {x \in DOMAIN readings : readings[x].unit \in units} |-> readings[o]]
BuildUnitAggregates(parent, readings) ==
    [u \in ShownUnits(parent) |->
        [objectives |-> DOMAIN InUnits(readings, {u}),
         direct |-> AggregateObjectiveReadings(InUnits(readings, {u})),
         aggregate |-> AggregateObjectiveReadings(InUnits(readings, ReachedFrom(parent, {u})))]]
=============================================================================
