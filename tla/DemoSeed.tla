------------------------------ MODULE DemoSeed ------------------------------
(***************************************************************************)
(* The demo seeds as a program (seed-demo.ts and the three files it runs): *)
(* every run wipes what the demo organisations hold and creates it again,  *)
(* one statement of the database at a time and in no transaction, while    *)
(* the application may be in use.  The database refuses a row whose key    *)
(* exists or that refers to a row that does not, and the deletion of a row *)
(* that another refers to; a refused statement ends the run.               *)
(*                                                                         *)
(* The tables of an organisation map keys to rows; a user is kept in the   *)
(* table of each organisation that names it.                               *)
(*                                                                         *)
(* An operator described in parentheses is a slip of the one it precedes:  *)
(* no specification uses it.                                               *)
(***************************************************************************)
EXTENDS DemoCatalogue, OrgUnits

CONSTANTS
    Moments,    \* the days on which a seed may be run
    MaxDepth,   \* ORG_UNIT_MAX_DEPTH
    MaxRuns,    \* how often it is run
    Extra       \* the key of a row that no seed creates

Orgs == Range(Organizations)
NoRow == NoUnit

\* The foreign keys of the schema: the fields of each table that refer to a
\* row, and its table.  All of them restrict.
References ==
    [organization |-> {}, user |-> {}, module |-> {}, period |-> {}, plan |-> {},
     axis |-> {<<"plan", "plan">>},
     unit |-> {<<"parent", "unit">>},
     member |-> {<<"user", "user">>, <<"unit", "unit">>},
     metric |-> {<<"period", "period">>},
     entry |-> {<<"metric", "metric">>, <<"project", "project">>},
     objective |-> {<<"period", "period">>, <<"unit", "unit">>, <<"axis", "axis">>,
                    <<"owner", "user">>},
     indicator |-> {<<"objective", "objective">>, <<"metric", "metric">>},
     point |-> {<<"indicator", "indicator">>},
     context |-> {<<"objective", "objective">>, <<"metric", "metric">>},
     project |-> {<<"objective", "objective">>, <<"unit", "unit">>, <<"owner", "user">>,
                  <<"source", "indicator">>},
     task |-> {<<"project", "project">>, <<"owner", "user">>},
     contribution |-> {<<"project", "project">>, <<"indicator", "indicator">>,
                       <<"entry", "entry">>}]
Tables == DOMAIN References

RefersTo(table, row) ==
    {<<f[2], row[f[1]]>> : f \in References[table]} \ {<<t, NoRow>> : t \in Tables}

-----------------------------------------------------------------------------
(* Statements.                                                             *)

Upsert(table, key, row, update) ==
    [op |-> "upsert", table |-> table, key |-> key, row |-> row, update |-> update]
Create(table, key, row) == [op |-> "create", table |-> table, key |-> key, row |-> row]
SetFields(table, key, update) ==
    [op |-> "set", table |-> table, key |-> key, update |-> update]
DeleteMany(table, test) == [op |-> "deleteMany", table |-> table, test |-> test]
Nullify(table, field) == [op |-> "updateMany", table |-> table, field |-> field]
Throw == [op |-> "throw"]

With(row, update) ==
    [f \in DOMAIN row |-> IF f \in DOMAIN update THEN update[f] ELSE row[f]]

Deleted(tables, s) ==
    {<<s.table, k>> : k \in {x \in DOMAIN tables[s.table] :
                              s.test = "any" \/ tables[s.table][x].kind = s.test}}

\* Whether the database refuses a statement, or the code throws before it.
Refused(tables, s) ==
    CASE s.op = "throw" -> TRUE
      [] s.op \in {"create", "upsert"} ->
           \/ s.op = "create" /\ s.key \in DOMAIN tables[s.table]
           \/ \E ref \in RefersTo(s.table, s.row) : ref[2] \notin DOMAIN tables[ref[1]]
      [] s.op = "deleteMany" ->
           \E t \in {x \in Tables : \E f \in References[x] : f[2] = s.table} :
             \E k \in DOMAIN tables[t] :
               /\ <<t, k>> \notin Deleted(tables, s)
               /\ RefersTo(t, tables[t][k]) \cap Deleted(tables, s) # {}
      [] OTHER -> FALSE

\* The table of a statement, after it.
After(tables, s) ==
    LET old == tables[s.table]
    IN  CASE s.op \in {"upsert", "set"} /\ s.key \in DOMAIN old ->
               [old EXCEPT ![s.key] = With(@, s.update)]
          [] s.op \in {"upsert", "create"} -> (s.key :> s.row) @@ old
          [] s.op = "deleteMany" ->
               Restrict(old, {k \in DOMAIN old : <<s.table, k>> \notin Deleted(tables, s)})
          [] OTHER -> [k \in DOMAIN old |-> [old[k] EXCEPT ![s.field] = NoRow]]
Applied(tables, s) == [tables EXCEPT ![s.table] = After(tables, s)]

-----------------------------------------------------------------------------
(* What each organisation's seed executes.                                 *)

\* utc(month, day) of the year under way, and the period.
Utc(date) == MonthStart[date[1] - 1] + date[2] - 1
Year == [startsAt |-> Utc(<<1, 1>>), endsAt |-> Utc(<<12, 31>>)]

\* buildBuckets(...)[index], of which there may be none.
BucketAt(frequency, index) ==
    LET buckets == BuildBuckets(Year, frequency)
    IN  {b \in buckets : Cardinality({x \in buckets : x < b}) = index}

Each(items, Op(_)) ==
    LET upTo[n \in 0..Len(items)] == IF n = 0 THEN <<>> ELSE upTo[n - 1] \o Op(items[n])
    IN  upTo[Len(items)]

\* wipeBusinessData.  (The objectives are deleted before what hangs from them.)
WipeObjectivesFirst ==
    <<DeleteMany("context", "any"), DeleteMany("contribution", "any"),
      DeleteMany("entry", "any"), DeleteMany("objective", "any"),
      Nullify("project", "source"),
      DeleteMany("task", "any"), DeleteMany("project", "any"), DeleteMany("point", "any"),
      DeleteMany("indicator", "any"), DeleteMany("metric", "any"),
      DeleteMany("period", "any"), DeleteMany("axis", "any"), DeleteMany("plan", "any"),
      Nullify("member", "unit"),
      DeleteMany("unit", "area"), DeleteMany("unit", "ministry")>>
Wipe ==
    <<DeleteMany("context", "any"), DeleteMany("contribution", "any"),
      DeleteMany("entry", "any"), Nullify("project", "source"),
      DeleteMany("task", "any"), DeleteMany("project", "any"), DeleteMany("point", "any"),
      DeleteMany("indicator", "any"), DeleteMany("objective", "any"),
      DeleteMany("metric", "any"), DeleteMany("period", "any"),
      DeleteMany("axis", "any"), DeleteMany("plan", "any"), Nullify("member", "unit"),
      DeleteMany("unit", "area"), DeleteMany("unit", "ministry")>>

\* The organisation, its administrator and its modules, which a run finds or
\* creates; Lumbre and Semillero give the administrator its role back.
Accounts(o, c) ==
    LET admin == [user |-> "adm", role |-> "role_org_admin", unit |-> NoRow]
        User(key) == Upsert("user", key, [email |-> key], <<>>)
        Module(key) == <<Upsert("module", key, [disabled |-> FALSE], [disabled |-> FALSE])>>
    IN  <<User("adm"), Upsert("organization", o, [status |-> "active"], [status |-> "active"])>>
        \o Wipe
        \o <<Upsert("member", "adm", admin, IF c.applies THEN [role |-> admin.role] ELSE <<>>)>>
        \o Each(<<"okr", "indicadores-gestion", "indicadores-okr", "mcp">>, Module)
        \o [n \in DOMAIN c.people |-> User(c.people[n][1])]

\* The period, the plan and its axes, the units, and who writes in which.
Structure(c) ==
    LET Axis(key) == <<Create("axis", key, [plan |-> "plan"])>>
        Unit(u) == <<Create("unit", u.key, [kind |-> u.kind, parent |-> u.parent])>>
        Person(p) == <<Upsert("member", p[1],
            [user |-> p[1], role |-> "role_org_user", unit |-> p[2]],
            [role |-> "role_org_user", unit |-> p[2]])>>
    IN  <<Create("period", "year",
              [status |-> "open", startsAt |-> Year.startsAt, endsAt |-> Year.endsAt]),
          Create("plan", "plan", [status |-> "active"])>>
        \o Each(c.axes, Axis)
        \o <<Upsert("unit", "central", [kind |-> "central", parent |-> NoRow], <<>>)>>
        \o Each(c.units, Unit) \o Each(c.people, Person)

\* projectEnd, isComplete, and the progress a project is created with.
ProjectEnd(p) == Latest({Utc(p.tasks[n].end) : n \in DOMAIN p.tasks})
IsComplete(p) == \A n \in DOMAIN p.tasks : p.tasks[n].progress = FullBp
ProjectProgress(p) == AggregateProgressBp([n \in DOMAIN p.tasks |->
    [weight |-> p.tasks[n].weight, progress |-> p.tasks[n].progress]])

\* The projects of an organisation, and those that load what they contribute.
AllProjects(c) == UNION {Range(c.objectives[n].projects) : n \in DOMAIN c.objectives}
Contributors(c, metric) ==
    {p \in AllProjects(c) : /\ c.applies /\ IsComplete(p)
                            /\ p.contribution # <<>> /\ p.contribution[1] = metric}

\* The entries of a metric whose bucket has begun.
StartedEntries(m, today) ==
    {n \in DOMAIN m.entries : \E b \in BucketAt(m.frequency, m.entries[n][1]) : b <= today}

\* The keys of the entries: those of a metric's list, and that of a project.
EntryKey(m, n) == <<m.key, n>>
AutoKey(p) == <<"auto", p.key, 0>>

Metric(m, today) ==
    LET started == StartedEntries(m, today)
        Entry(n) ==
            IF n \notin started THEN <<>>
            ELSE <<Create("entry", EntryKey(m, n),
                     [metric |-> m.key, value |-> m.entries[n][2], origin |-> "manual",
                      project |-> NoRow,
                      day |-> CHOOSE b \in BucketAt(m.frequency, m.entries[n][1]) : TRUE])>>
    IN  <<Create("metric", m.key,
            [period |-> "year", kind |-> m.kind, direction |-> m.direction,
             frequency |-> m.frequency, baseline |-> m.baseline, target |-> m.target])>>
        \o Each([n \in DOMAIN m.entries |-> n], Entry)

\* incrementsByMetric: what was loaded, and what complete projects contribute.
\* (Only what was loaded.)
LoadedIncrements(c, m, today) == [n \in StartedEntries(m, today) |-> m.entries[n][2]]
Increments(c, m, today) ==
    [n \in {EntryKey(m, x) : x \in StartedEntries(m, today)} |-> m.entries[n[2]][2]]
    @@ [n \in {AutoKey(p) : p \in Contributors(c, m.key)} |->
           (CHOOSE p \in Contributors(c, m.key) : AutoKey(p) = n).contribution[2]]

MetricOf(c, key) == c.metrics[CHOOSE n \in DOMAIN c.metrics : c.metrics[n].key = key]
IndicatorProgress(c, i, today) ==
    LET m == MetricOf(c, i.metric)
    IN  ObjectiveIndicatorProgressBp(m.baseline, Increments(c, m, today), m.baseline, m.target)

IndicatorKey(objective, metric) == <<objective, metric>>
Indicator(c, objective, i, today) ==
    LET m == MetricOf(c, i.metric)
        Point(p) == <<Create("point", <<objective, m.key, p[1]>>,
            [indicator |-> IndicatorKey(objective, m.key), value |-> p[2],
             day |-> CHOOSE b \in BucketAt(m.frequency, p[1]) : TRUE])>>
    IN  IF i.feeds /\ (m.kind # "output" \/ m.points # <<>>) THEN <<Throw>>
        ELSE <<Create("indicator", IndicatorKey(objective, m.key),
                [objective |-> objective, metric |-> m.key, baseline |-> m.baseline,
                 target |-> m.target, direction |-> m.direction, weight |-> i.weight,
                 curve |-> IF i.feeds THEN "from_projects"
                           ELSE IF m.points # <<>> THEN "manual" ELSE "linear",
                 link |-> IF i.feeds THEN "execution_feeds_indicator" ELSE "independent",
                 progress |-> IndicatorProgress(c, i, today)])>>
             \o Each(m.points, Point)

\* What a project contributes, once created: the entry of a complete one falls
\* on the bucket of its last day.
Contribution(c, objective, p) ==
    LET metric == p.contribution[1]
        feeds == \E n \in DOMAIN objective.indicators :
                   objective.indicators[n].metric = metric /\ objective.indicators[n].feeds
        complete == ProjectProgress(p) >= FullBp
        entry == Create("entry", AutoKey(p),
            [metric |-> metric, value |-> p.contribution[2], origin |-> "project_contribution",
             project |-> p.key,
             day |-> BucketContaining(ProjectEnd(p),
                         BuildBuckets(Year, MetricOf(c, metric).frequency))])
    IN  IF ~feeds \/ (complete /\ ~c.applies) THEN <<Throw>>
        ELSE (IF complete THEN <<entry>> ELSE <<>>)
             \o <<Create("contribution", <<p.key, metric>>,
                    [project |-> p.key, indicator |-> IndicatorKey(objective.key, metric),
                     value |-> p.contribution[2],
                     entry |-> IF complete THEN entry.key ELSE NoRow])>>

Project(c, objective, p) ==
    LET Task(n) == Create("task", <<p.key, n>>,
            [project |-> p.key, owner |-> p.tasks[n].owner, weight |-> p.tasks[n].weight,
             progress |-> p.tasks[n].progress, startsAt |-> Utc(p.tasks[n].start),
             endsAt |-> Utc(p.tasks[n].end)])
    IN  <<Create("project", p.key,
            [objective |-> objective.key, unit |-> objective.unit, owner |-> p.owner,
             weight |-> p.weight, progress |-> ProjectProgress(p), source |-> NoRow,
             startsAt |-> Earliest({Utc(p.tasks[n].start) : n \in DOMAIN p.tasks}),
             endsAt |-> ProjectEnd(p)])>>
        \o [n \in DOMAIN p.tasks |-> Task(n)]
        \o (IF p.contribution = <<>> THEN <<>> ELSE Contribution(c, objective, p))

\* An objective with all that hangs from it; its two readings are written last.
Objective(c, objective, today) ==
    LET key == objective.key
        IndicatorRows(i) == Indicator(c, key, i, today)
        Context(m) == <<Create("context", <<key, m>>, [objective |-> key, metric |-> m])>>
        ProjectRows(p) == Project(c, objective, p)
    IN  <<Create("objective", key,
            [period |-> "year", unit |-> objective.unit,
             axis |-> IF objective.axis = "none" THEN NoRow ELSE objective.axis,
             owner |-> objective.owner, result |-> 0, execution |-> 0])>>
        \o Each(objective.indicators, IndicatorRows)
        \o Each(objective.contexts, Context)
        \o Each(objective.projects, ProjectRows)
        \o <<SetFields("objective", key,
              [result |-> AggregateProgressBp([n \in DOMAIN objective.indicators |->
                  [weight |-> objective.indicators[n].weight,
                   progress |-> IndicatorProgress(c, objective.indicators[n], today)]]),
               execution |-> AggregateProgressBp([n \in DOMAIN objective.projects |->
                  [weight |-> objective.projects[n].weight,
                   progress |-> ProjectProgress(objective.projects[n])]])])>>

\* main: the statements of a seed run on a day.
Statements(o, c, today) ==
    LET MetricRows(m) == Metric(m, today)
        ObjectiveRows(x) == Objective(c, x, today)
    IN  Accounts(o, c) \o Structure(c) \o Each(c.metrics, MetricRows)
        \o Each(c.objectives, ObjectiveRows)

\* The demo that statements describe: the rows they create, each with its table
\* and key, and with the readings written to it later.
Effect(statements) ==
    LET those(ops) == {s \in Range(statements) : s.op \in ops}
        Final(s) ==
            LET later == {x \in those({"set"}) : x.table = s.table /\ x.key = s.key}
            IN  IF later = {} THEN s.row ELSE With(s.row, (CHOOSE x \in later : TRUE).update)
    IN  {<<s.table, s.key, Final(s)>> : s \in those({"create", "upsert"})}

\* Every script with what it leaves, tabulated.
ScriptOf(o, today, statements) ==
    [org |-> o, today |-> today, statements |-> statements, leaves |-> Effect(statements)]
Scripts == {ScriptOf(o, today, Statements(o, Catalogue[o], today)) : o \in Orgs, today \in Moments}
Script(o, today) == CHOOSE x \in Scripts : x.org = o /\ x.today = today
Program(o, today) == Script(o, today).statements
Seeded(o, today) == Script(o, today).leaves

\* The statements of the wipe among them.
InWipe(o, step) == step \in 3..(2 + Len(Wipe))

-----------------------------------------------------------------------------
VARIABLES
    db,         \* the tables of each organisation
    running,    \* the run under way: its organisation, statement and day
    outcome,    \* how the last run ended, and whether it had the database to itself
    starts,     \* how many there were
    disturbed   \* whether a run was cut or somebody else has written

vars == <<db, running, outcome, starts, disturbed>>

Idle == [org |-> 0, step |-> 0, today |-> 0]

NoTables == [t \in Tables |-> <<>>]

Init ==
    /\ db = [o \in Orgs |-> NoTables]
    /\ running = Idle
    /\ outcome = [result |-> "none", alone |-> TRUE, today |-> 0]
    /\ starts = 0
    /\ disturbed = FALSE

\* seed-demo.ts is started; its day is the machine's.
Start ==
    /\ running = Idle /\ starts < MaxRuns
    /\ \E today \in Moments :
         /\ today >= outcome.today
         /\ running' = [org |-> 1, step |-> 1, today |-> today]
         /\ outcome' = [result |-> "none", alone |-> TRUE, today |-> today]
    /\ starts' = starts + 1
    /\ UNCHANGED <<db, disturbed>>

\* One statement; the organisations are seeded in order, and the first error
\* ends the run.
Execute ==
    /\ running # Idle
    /\ LET o == Organizations[running.org]
           program == Program(o, running.today)
           s == program[running.step]
       IN  IF Refused(db[o], s)
           THEN /\ running' = Idle /\ outcome' = [outcome EXCEPT !.result = "failed"]
                /\ UNCHANGED db
           ELSE /\ db' = [db EXCEPT ![o] = Applied(@, s)]
                /\ IF running.step < Len(program)
                   THEN running' = [running EXCEPT !.step = @ + 1] /\ UNCHANGED outcome
                   ELSE IF running.org < Len(Organizations)
                   THEN running' = [running EXCEPT !.org = @ + 1, !.step = 1] /\ UNCHANGED outcome
                   ELSE running' = Idle /\ outcome' = [outcome EXCEPT !.result = "ended"]
    /\ UNCHANGED <<starts, disturbed>>

\* The process is killed between two statements.
Die ==
    /\ running # Idle /\ ~disturbed
    /\ running' = Idle
    /\ outcome' = [outcome EXCEPT !.result = "died"]
    /\ disturbed' = TRUE
    /\ UNCHANGED <<db, starts>>

\* A member adds a row like the seeded ones to an organisation, while nothing is
\* seeded or the organisation is being wiped.  (Nobody creates a central unit.)
Add ==
    /\ ~disturbed
    /\ \E o \in Orgs, t \in Tables \ {"organization", "user", "module"} :
         LET like == {x[3] : x \in {y \in Seeded(o, outcome.today) :
                        /\ y[1] = t /\ (t = "unit" => y[3].kind # "central")
                        /\ \A ref \in RefersTo(t, y[3]) : ref[2] \in DOMAIN db[o][ref[1]]}}
             row == CHOOSE r \in like : TRUE
         IN  /\ starts > 0
             /\ running # Idle => o = Organizations[running.org] /\ InWipe(o, running.step)
             /\ like # {}
             /\ db' = [db EXCEPT ![o][t] = (Extra :> row) @@ @]
    /\ outcome' = [outcome EXCEPT !.alone = FALSE]
    /\ disturbed' = TRUE
    /\ UNCHANGED <<running, starts>>

Next == Start \/ Execute \/ Die \/ Add
Spec == Init /\ [][Next]_vars

-----------------------------------------------------------------------------
(* The rules the application keeps, of the rows of an organisation.        *)

RowsOf(r, t, field, key) == {k \in DOMAIN r[t] : r[t][k][field] = key}
Shares(rows, members) ==
    [k \in members |-> [weight |-> rows[k].weight, progress |-> rows[k].progress]]
Weights(rows, members) == [k \in members |-> rows[k].weight]

\* RN-P1 to RN-P4.
StructureLegal(r) ==
    LET parent == [u \in DOMAIN r.unit |-> r.unit[u].parent]
    IN  /\ \A u \in DOMAIN r.unit :
             IF parent[u] = NoUnit THEN r.unit[u].kind = "central"
             ELSE /\ CanBeChildOf(r.unit[parent[u]].kind, r.unit[u].kind)
                  /\ DepthOf(parent, u) <= MaxDepth
        /\ \A x \in DOMAIN r.objective : r.unit[r.objective[x].unit].kind # "central"
        /\ \A p \in DOMAIN r.project :
             LET project == r.project[p]
                 period == r.period[r.objective[project.objective].period]
             IN  /\ IsLiveSelfOrDescendant(parent, r.objective[project.objective].unit, project.unit)
                 /\ period.startsAt <= project.startsAt /\ project.endsAt <= period.endsAt
                 /\ \A t \in RowsOf(r, "task", "project", p) :
                      /\ project.startsAt <= r.task[t].startsAt
                      /\ r.task[t].startsAt <= r.task[t].endsAt
                      /\ r.task[t].endsAt <= project.endsAt

\* RN-P6 and RN-P8: groups of weights, and the readings they give.
ReadingsLegal(r) ==
    /\ \A p \in DOMAIN r.project :
         LET group == RowsOf(r, "task", "project", p)
         IN  /\ ValidWeightGroup(Weights(r.task, group))
             /\ r.project[p].progress = AggregateProgressBp(Shares(r.task, group))
    /\ \A i \in DOMAIN r.indicator :
         LET indicator == r.indicator[i]
             loads == RowsOf(r, "entry", "metric", indicator.metric)
         IN  indicator.progress = ObjectiveIndicatorProgressBp(
                 r.metric[indicator.metric].baseline,
                 [e \in loads |-> r.entry[e].value], indicator.baseline, indicator.target)
    /\ \A x \in DOMAIN r.objective :
         LET indicators == RowsOf(r, "indicator", "objective", x)
             projects == RowsOf(r, "project", "objective", x)
         IN  /\ ValidWeightGroup(Weights(r.indicator, indicators))
             /\ ValidWeightGroup(Weights(r.project, projects))
             /\ r.objective[x].result = AggregateProgressBp(Shares(r.indicator, indicators))
             /\ r.objective[x].execution = AggregateProgressBp(Shares(r.project, projects))

\* RN-P12, RN-P13 and RN-P17: directions, links, curves and contributions.
IndicatorsLegal(r, today) ==
    /\ \A i \in DOMAIN r.indicator :
         LET indicator == r.indicator[i]
             points == RowsOf(r, "point", "indicator", i)
             drawn == [d \in {r.point[p].day : p \in points} |->
                          r.point[CHOOSE p \in points : r.point[p].day = d].value]
         IN  /\ indicator.direction = IF indicator.target > indicator.baseline
                                      THEN "increasing" ELSE "decreasing"
             /\ indicator.curve = "from_projects" <=> indicator.link = "execution_feeds_indicator"
             /\ indicator.curve = "from_projects" => r.metric[indicator.metric].kind = "output"
             /\ (indicator.curve = "manual") = (points # {})
             /\ ValidTargetPoints(drawn, Year, r.metric[indicator.metric].frequency, indicator.target)
    /\ \A c \in DOMAIN r.contribution :
         LET contribution == r.contribution[c]
             indicator == r.indicator[contribution.indicator]
         IN  /\ contribution.value # 0 /\ indicator.link = "execution_feeds_indicator"
             /\ indicator.objective = r.project[contribution.project].objective
             /\ (contribution.entry # NoRow) = (r.project[contribution.project].progress = FullBp)
             /\ contribution.entry # NoRow =>
                  LET entry == r.entry[contribution.entry]
                  IN  /\ entry.value = contribution.value /\ entry.metric = indicator.metric
                      /\ entry.project = contribution.project
    /\ \A e \in DOMAIN r.entry :
         LET entry == r.entry[e]
         IN  /\ IsValidBucketDate(entry.day, Year, r.metric[entry.metric].frequency)
             /\ entry.origin = "manual" => entry.day <= today

\* The rows of an organisation, each with its table and key.
AllRows(r) == UNION {{<<t, k, r[t][k]>> : k \in DOMAIN r[t]} : t \in Tables}

\* A run that had the database to itself, whatever was there before it and
\* however the one before it ended, leaves the demo of a run on an empty
\* database; that demo keeps the rules the application enforces, its cached
\* readings are those of its rows, and who was not seeded writes anywhere
\* (seed-demo-*.ts, "Idempotente").
DemoIsLegal ==
    outcome.result = "ended" /\ outcome.alone =>
        \A o \in Orgs :
          /\ Seeded(o, outcome.today) \subseteq AllRows(db[o])
          /\ \A x \in AllRows(db[o]) \ Seeded(o, outcome.today) :
               x[1] = "member" /\ x[3].unit = NoRow
          /\ StructureLegal(db[o]) /\ ReadingsLegal(db[o])
          /\ IndicatorsLegal(db[o], outcome.today)

\* A run that has the database to itself is refused nothing, whatever a run
\* that was cut or a member of the organisation left behind: the wipe deletes
\* what refers to a row before the row, and every key is free when it is
\* created.
QuietRunsAreNotRefused == outcome.result = "failed" => ~outcome.alone
=============================================================================
