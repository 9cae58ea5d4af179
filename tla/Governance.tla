----------------------------- MODULE Governance -----------------------------
(***************************************************************************)
(* Where the planning of an organisation hangs from: the tree of its units *)
(* (OrgUnitService), the write scopes of its members (MemberService,       *)
(* OrgUnitScopeService), its strategic plan and axes (StrategicPlanService,*)
(* AxisService), its periods and their automatic closing (PeriodService,   *)
(* PeriodAutoCloseCron), and the place and period of its objectives and    *)
(* projects (ObjectiveService, ProjectService).                            *)
(*                                                                         *)
(* A request reads and decides, then writes by id: what it read is not     *)
(* locked and its write repeats no condition, so between the two any other *)
(* request may commit.  Only unique indexes are looked at by the write.    *)
(* Begin is the reads of a request, Commit its transaction.                *)
(*                                                                         *)
(* Weights, progress and tasks are of ExecutionCascade; roles, names,      *)
(* owners and the audit trail are left out.                                *)
(*                                                                         *)
(* An operator described in parentheses is a slip of the one it precedes:  *)
(* no specification uses it.                                               *)
(***************************************************************************)
EXTENDS OrgUnits, TLC

CONSTANTS
    Units, Axes, Periods, Objectives, Projects,     \* ids, past and future
    Users, Superadmin,      \* who calls; Superadmin is nobody's member
    Organizations, Here,    \* periods belong to any, the rest to Here
    MaxDepth,               \* MAX_ORG_UNIT_DEPTH
    MinDays, MaxDays,       \* the shortest and the longest period
    LastDay,                \* the days of this instance are 0..LastDay
    Calls,                  \* the calls this instance makes
    Requests, Cron,         \* the request slots, one of them the cron's
    Keep, NoAxis, Idle,
    ReadingOf               \* what is read of each objective (IndicatorStatus)

ASSUME PeriodAssumption ==
    MinDays \in Nat \ {0} /\ MaxDays \in Nat /\ MinDays <= MaxDays /\ LastDay \in Nat
ASSUME DepthAssumption == MaxDepth \in Nat \ {0}
ASSUME NoUnitAssumption == NoUnit \notin Units
ASSUME OrganizationAssumption == Here \in Organizations
ASSUME CronAssumption == Cron \in Requests

\* What the DTOs of the calls let through.
IsCall(c) ==
    CASE c.op = "create_unit" -> c.unit \in Units
      [] c.op = "update_unit" -> c.kind \in {Keep, "ministry", "area"}
      [] c.op = "invite" -> c.user \in Users
      [] c.op = "create_axis" -> c.axis \in Axes
      [] c.op = "create_period" ->
            /\ c.period \in Periods /\ c.organization \in Organizations
            /\ c.status \in {"future", "open"} /\ c.startsAt \in 0..LastDay /\ c.endsAt \in 0..LastDay
      [] c.op = "close_period" -> c.automatic = FALSE
      [] c.op = "create_objective" -> c.objective \in Objectives
      [] c.op = "create_project" -> c.project \in Projects
      [] OTHER -> c.op \in {"delete_unit", "set_scope", "remove", "upsert_plan", "delete_axis",
            "open_period", "delete_period", "update_objective", "delete_objective",
            "update_project", "delete_project"}
ASSUME CallsAssumption == \A c \in Calls : IsCall(c)

VARIABLES
    unit,       \* the rows of the tree: kind, parent, live
    member,     \* the scope of each member
    plan,       \* whether the organisation has its active plan
    axis,       \* whether each axis is live
    period,     \* organisation, status, dates and live
    objective,  \* unit, axis, period and live
    project,    \* objective, unit, end and live
    today,
    request,    \* the requests that have read and not written
    expired     \* the periods the running automatic closing has still to visit

structure == <<unit, member, plan, axis>>
work == <<objective, project>>
vars == <<unit, member, plan, axis, period, objective, project, today, request, expired>>

\* The live rows of a table.
LiveOf(table) == {r \in DOMAIN table : table[r].live}
Parents == [u \in LiveOf(unit) |-> unit[u].parent]
OpenIn(o) == {p \in LiveOf(period) : period[p].organization = o /\ period[p].status = "open"}
OpenPeriod(o) == period[objective[o].period].status = "open"

With(table, id, row) == [r \in DOMAIN table \cup {id} |-> IF r = id THEN row ELSE table[r]]
Without(table, ids) == [r \in DOMAIN table |->
    IF r \in ids THEN [table[r] EXCEPT !.live = FALSE] ELSE table[r]]
\* A field that an edit may leave out.
Edited(field, value) == IF value = Keep THEN field ELSE value

-----------------------------------------------------------------------------
(* Scopes (RN-P19, RN-P20).                                                *)

Scope(u) == IF u = Superadmin THEN NoUnit ELSE member[u]
\* assertCentralScope
CentralScope(u) == Scope(u) = NoUnit
\* assertCanWriteInUnit
CanWriteIn(u, x) == Scope(u) # NoUnit => x \in ScopeUnits(Parents, Scope(u))
\* assertCanGrantScope
CanGrant(u, scope) == IF scope = NoUnit THEN CentralScope(u) ELSE CanWriteIn(u, scope)

-----------------------------------------------------------------------------
(* The guards of each call, over what it reads.                            *)

MayCreateUnit(c) ==
    /\ CentralScope(c.by)
    /\ c.parent \in DOMAIN Parents
    /\ CanBeChildOf(unit[c.parent].kind, c.kind)
    /\ DepthOf(Parents, c.parent) + 1 <= MaxDepth

MayMove(u, parent) ==
    /\ parent \in DOMAIN Parents
    /\ ~IsSelfOrDescendant(Parents, u, parent)
    /\ DepthOf(Parents, parent) + SubtreeHeight(Parents, u) <= MaxDepth

MayUpdateUnit(c) ==
    /\ CentralScope(c.by)
    /\ c.unit \in DOMAIN Parents
    /\ LET old == unit[c.unit]
           kind == Edited(old.kind, c.kind)
           parent == Edited(old.parent, c.parent)
       IN  /\ old.kind # "central"
           /\ parent # old.parent => MayMove(c.unit, parent)
           /\ (<<kind, parent>> # <<old.kind, old.parent>> /\ parent \in DOMAIN Parents) =>
                CanBeChildOf(unit[parent].kind, kind)
           /\ kind # old.kind =>
                \A v \in DOMAIN Parents : Parents[v] = c.unit => CanBeChildOf(kind, unit[v].kind)

MayDeleteUnit(c) ==
    /\ CentralScope(c.by)
    /\ c.unit \in DOMAIN Parents /\ unit[c.unit].kind # "central"
    /\ \A v \in DOMAIN Parents : Parents[v] # c.unit
    /\ \A o \in LiveOf(objective) : objective[o].unit # c.unit
    /\ \A m \in DOMAIN member : member[m] # c.unit

MayInvite(c) ==
    /\ CanGrant(c.by, c.scope)
    /\ c.scope # NoUnit => c.scope \in DOMAIN Parents
\* setScope.  (Whatever the scope now.)
MaySetScopeOfAnyone(c) ==
    /\ c.user \in DOMAIN member
    /\ CanGrant(c.by, c.scope)
    /\ c.scope # NoUnit => c.scope \in DOMAIN Parents
MaySetScope(c) ==
    /\ c.user \in DOMAIN member
    /\ CanGrant(c.by, c.scope) /\ CanGrant(c.by, member[c.user])
    /\ c.scope # NoUnit => c.scope \in DOMAIN Parents
MayRemove(c) == c.user \in DOMAIN member /\ CanGrant(c.by, member[c.user])

\* createForOrganization.
Overlaps(c, p) == period[p].startsAt < c.endsAt /\ period[p].endsAt > c.startsAt
MayCreatePeriod(c) ==
    /\ CentralScope(c.by)
    /\ (c.endsAt - c.startsAt) \in MinDays..MaxDays
    /\ \A p \in LiveOf(period) : period[p].organization = c.organization => ~Overlaps(c, p)
\* (A closed one too.)
MayReopenPeriod(c) == c.period \in LiveOf(period) /\ CentralScope(c.by)
MayOpenPeriod(c) ==
    c.period \in LiveOf(period) /\ CentralScope(c.by) /\ period[c.period].status = "future"
MayClosePeriod(c) ==
    /\ c.period \in LiveOf(period)
    /\ ~c.automatic => CentralScope(c.by)
    /\ period[c.period].status = "open"

\* assertOrgUnitAssignable.  (To any unit.)
AssignableToAny(u) == u \in DOMAIN Parents
Assignable(u) == u \in DOMAIN Parents /\ unit[u].kind \in {"ministry", "area"}
\* isAxisInActivePlan
AxisInActivePlan(a) == plan /\ a \in LiveOf(axis)

MayCreateObjective(c) ==
    /\ CanWriteIn(c.by, c.unit)
    /\ OpenIn(Here) # {}
    /\ Assignable(c.unit)
    /\ c.axis # NoAxis => AxisInActivePlan(c.axis)
MayUpdateObjective(c) ==
    /\ c.objective \in LiveOf(objective) /\ OpenPeriod(c.objective)
    /\ LET old == objective[c.objective] IN
        /\ CanWriteIn(c.by, old.unit)
        /\ c.unit \notin {Keep, old.unit} => CanWriteIn(c.by, c.unit) /\ Assignable(c.unit)
        /\ c.axis \notin {Keep, NoAxis, old.axis} => AxisInActivePlan(c.axis)
MayDeleteObjective(c) ==
    /\ c.objective \in LiveOf(objective) /\ OpenPeriod(c.objective)
    /\ CanWriteIn(c.by, objective[c.objective].unit)
    /\ \A p \in LiveOf(project) : project[p].objective # c.objective

\* assertOrgUnitInScope (RN-P4), assertDatesWithinPeriod
InScopeOf(o, u) == IsLiveSelfOrDescendant(Parents, objective[o].unit, u)
WithinPeriod(o, endsAt) ==
    endsAt \in period[objective[o].period].startsAt..period[objective[o].period].endsAt
UnitOfProject(c) == IF c.unit = Keep THEN objective[c.objective].unit ELSE c.unit
MayCreateProject(c) ==
    /\ c.objective \in LiveOf(objective) /\ OpenPeriod(c.objective)
    /\ CanWriteIn(c.by, UnitOfProject(c))
    /\ InScopeOf(c.objective, UnitOfProject(c))
    /\ WithinPeriod(c.objective, c.endsAt)
MayUpdateProject(c) ==
    /\ c.project \in LiveOf(project)
    /\ LET old == project[c.project] IN
        /\ old.objective \in LiveOf(objective) /\ OpenPeriod(old.objective)
        /\ CanWriteIn(c.by, old.unit)
        /\ c.unit \notin {Keep, old.unit} =>
             CanWriteIn(c.by, c.unit) /\ InScopeOf(old.objective, c.unit)
        /\ c.endsAt # Keep => WithinPeriod(old.objective, c.endsAt)
MayDeleteProject(c) ==
    /\ c.project \in LiveOf(project)
    /\ project[c.project].objective \in LiveOf(objective)
    /\ OpenPeriod(project[c.project].objective)
    /\ CanWriteIn(c.by, project[c.project].unit)

\* Ids are new: a call that creates carries the id it will create.
Fresh(c) ==
    CASE c.op = "create_unit" -> c.unit \notin DOMAIN unit
      [] c.op = "create_axis" -> c.axis \notin DOMAIN axis
      [] c.op = "create_period" -> c.period \notin DOMAIN period
      [] c.op = "create_objective" -> c.objective \notin DOMAIN objective
      [] c.op = "create_project" -> c.project \notin DOMAIN project
      [] OTHER -> TRUE

May(c) ==
    CASE c.op = "create_unit" -> MayCreateUnit(c)
      [] c.op = "update_unit" -> MayUpdateUnit(c)
      [] c.op = "delete_unit" -> MayDeleteUnit(c)
      [] c.op = "invite" -> MayInvite(c)
      [] c.op = "set_scope" -> MaySetScope(c)
      [] c.op = "remove" -> MayRemove(c)
      [] c.op = "upsert_plan" -> CentralScope(c.by)
      [] c.op = "create_axis" -> CentralScope(c.by) /\ plan
      [] c.op = "delete_axis" -> CentralScope(c.by) /\ c.axis \in LiveOf(axis)
      [] c.op = "create_period" -> MayCreatePeriod(c)
      [] c.op = "open_period" -> MayOpenPeriod(c)
      [] c.op = "close_period" -> MayClosePeriod(c)
      [] c.op = "delete_period" -> CentralScope(c.by) /\ c.period \in LiveOf(period)
      [] c.op = "create_objective" -> MayCreateObjective(c)
      [] c.op = "update_objective" -> MayUpdateObjective(c)
      [] c.op = "delete_objective" -> MayDeleteObjective(c)
      [] c.op = "create_project" -> MayCreateProject(c)
      [] c.op = "update_project" -> MayUpdateProject(c)
      [] c.op = "delete_project" -> MayDeleteProject(c)

-----------------------------------------------------------------------------
(* Requests.                                                               *)

\* What a request has read and its write still uses.
Given(c) ==
    CASE c.op = "upsert_plan" -> plan
      [] c.op = "delete_axis" -> {o \in LiveOf(objective) : objective[o].axis = c.axis}
      [] c.op = "close_period" ->
            IF ~c.automatic /\ today < period[c.period].endsAt THEN today ELSE Keep
      [] c.op = "create_objective" -> CHOOSE p \in OpenIn(Here) : TRUE
      [] c.op = "create_project" -> UnitOfProject(c)
      [] OTHER -> Keep

Busy == {s \in Requests : request[s] # Idle}
Take(s, c) == request' = [request EXCEPT ![s] = [call |-> c, given |-> Given(c)]]

Begin(s) ==
    /\ s # Cron /\ request[s] = Idle
    /\ \E c \in Calls :
         /\ \A other \in Busy : request[other].call # c
         /\ c.by = Superadmin \/ c.by \in DOMAIN member
         /\ Fresh(c) /\ May(c)
         /\ Take(s, c)
    /\ UNCHANGED <<structure, period, work, today, expired>>

-----------------------------------------------------------------------------
(* What each call writes.                                                  *)

WriteUnit(c) ==
    /\ CASE c.op = "create_unit" ->
              unit' = With(unit, c.unit, [kind |-> c.kind, parent |-> c.parent, live |-> TRUE])
         [] c.op = "update_unit" ->
              unit' = [unit EXCEPT ![c.unit].kind = Edited(@, c.kind),
                                   ![c.unit].parent = Edited(@, c.parent)]
         [] c.op = "delete_unit" -> unit' = Without(unit, {c.unit})
    /\ UNCHANGED <<member, plan, axis, period, work>>

\* A second invitation is refused, a lost member is not found.
WriteMember(c) ==
    /\ CASE c.op = "invite" -> c.user \notin DOMAIN member /\ member' = With(member, c.user, c.scope)
         [] c.op = "set_scope" ->
              c.user \in DOMAIN member /\ member' = [member EXCEPT ![c.user] = c.scope]
         [] c.op = "remove" ->
              /\ c.user \in DOMAIN member
              /\ member' = [m \in DOMAIN member \ {c.user} |-> member[m]]
    /\ UNCHANGED <<unit, plan, axis, period, work>>

\* upsertActive: creates when it saw none; uq_strategic_plan_active refuses a
\* second active plan.
UpsertPlan(c, existed) ==
    /\ existed \/ ~plan
    /\ plan' = TRUE
    /\ UNCHANGED <<unit, member, axis, period, work>>

CreateAxis(c) ==
    /\ axis' = With(axis, c.axis, [live |-> TRUE])
    /\ UNCHANGED <<unit, member, plan, period, work>>

\* unassignAxisFromObjectives clears the axis of those it found, by their ids.
DeleteAxis(c, assigned) ==
    /\ axis' = Without(axis, {c.axis})
    /\ objective' = [o \in DOMAIN objective |->
                        IF o \in assigned THEN [objective[o] EXCEPT !.axis = NoAxis] ELSE objective[o]]
    /\ UNCHANGED <<unit, member, plan, period, project>>

\* uq_period_org_one_open: one live open period in an organisation, whoever
\* writes it.
NoOtherOpen(o, p) == OpenIn(o) \subseteq {p}

WritePeriod(c, endsAt) ==
    /\ CASE c.op = "create_period" ->
              /\ c.status = "open" => NoOtherOpen(c.organization, c.period)
              /\ period' = With(period, c.period,
                    [organization |-> c.organization, status |-> c.status,
                     startsAt |-> c.startsAt, endsAt |-> c.endsAt, live |-> TRUE])
         [] c.op = "open_period" ->
              /\ period[c.period].live => NoOtherOpen(period[c.period].organization, c.period)
              /\ period' = [period EXCEPT ![c.period].status = "open"]
         [] c.op = "close_period" ->    \* chk_period_range
              /\ Edited(period[c.period].endsAt, endsAt) > period[c.period].startsAt
              /\ period' = [period EXCEPT ![c.period].status = "closed",
                                          ![c.period].endsAt = Edited(@, endsAt)]
    /\ UNCHANGED <<structure, work>>

\* softDeletePeriod: everything planned in it goes with it.
DeletePeriod(c) ==
    LET planned == {o \in LiveOf(objective) : objective[o].period = c.period}
    IN  /\ period' = Without(period, {c.period})
        /\ objective' = Without(objective, planned)
        /\ project' = Without(project, {p \in DOMAIN project : project[p].objective \in planned})
        /\ UNCHANGED structure

WriteObjective(c, open) ==
    /\ CASE c.op = "create_objective" ->
              objective' = With(objective, c.objective,
                    [unit |-> c.unit, axis |-> c.axis, period |-> open, live |-> TRUE])
         [] c.op = "update_objective" ->
              objective' = [objective EXCEPT ![c.objective].unit = Edited(@, c.unit),
                                             ![c.objective].axis = Edited(@, c.axis)]
         [] c.op = "delete_objective" -> objective' = Without(objective, {c.objective})
    /\ UNCHANGED <<structure, period, project>>

WriteProject(c, place) ==
    /\ CASE c.op = "create_project" ->
              project' = With(project, c.project,
                    [objective |-> c.objective, unit |-> place, endsAt |-> c.endsAt, live |-> TRUE])
         [] c.op = "update_project" ->
              project' = [project EXCEPT ![c.project].unit = Edited(@, c.unit),
                                         ![c.project].endsAt = Edited(@, c.endsAt)]
         [] c.op = "delete_project" -> project' = Without(project, {c.project})
    /\ UNCHANGED <<structure, period, objective>>

Write(c, given) ==
    \/ c.op \in {"create_unit", "update_unit", "delete_unit"} /\ WriteUnit(c)
    \/ c.op \in {"invite", "set_scope", "remove"} /\ WriteMember(c)
    \/ c.op = "upsert_plan" /\ UpsertPlan(c, given)
    \/ c.op = "create_axis" /\ CreateAxis(c)
    \/ c.op = "delete_axis" /\ DeleteAxis(c, given)
    \/ c.op \in {"create_period", "open_period", "close_period"} /\ WritePeriod(c, given)
    \/ c.op = "delete_period" /\ DeletePeriod(c)
    \/ c.op \in {"create_objective", "update_objective", "delete_objective"} /\ WriteObjective(c, given)
    \/ c.op \in {"create_project", "update_project", "delete_project"} /\ WriteProject(c, given)

Commit(s) ==
    /\ request[s] # Idle
    /\ Write(request[s].call, request[s].given)
    /\ request' = [request EXCEPT ![s] = Idle]
    /\ UNCHANGED <<today, expired>>

\* An index or a constraint refuses, or the database fails.
RollBack(s) ==
    /\ request[s] # Idle
    /\ request' = [request EXCEPT ![s] = Idle]
    /\ UNCHANGED <<structure, period, work, today, expired>>

-----------------------------------------------------------------------------
(* The hourly closing: it lists the expired periods of every organisation  *)
(* and closes them one by one; one that fails is logged and left for the   *)
(* next hour.                                                              *)

\* (Only those that ended before today.)
EndedYesterday == {p \in LiveOf(period) : period[p].status = "open" /\ period[p].endsAt < today}
Expired == {p \in LiveOf(period) : period[p].status = "open" /\ period[p].endsAt <= today}

CronLists ==
    /\ request[Cron] = Idle /\ expired = {}
    /\ Expired # {} /\ expired' = Expired
    /\ UNCHANGED <<structure, period, work, today, request>>

AutomaticClose(p) == [op |-> "close_period", by |-> Superadmin, period |-> p, automatic |-> TRUE]
CronCloses(p) ==
    /\ request[Cron] = Idle /\ p \in expired
    /\ expired' = expired \ {p}
    /\ IF MayClosePeriod(AutomaticClose(p)) THEN Take(Cron, AutomaticClose(p)) ELSE UNCHANGED request
    /\ UNCHANGED <<structure, period, work, today>>

Tick ==
    /\ today < LastDay /\ today' = today + 1
    /\ UNCHANGED <<structure, period, work, request, expired>>

\* ensureCentralRoot gives the tree its root when the organisation is created.
Init ==
    /\ \E root \in Units :
         unit = [u \in {root} |-> [kind |-> "central", parent |-> NoUnit, live |-> TRUE]]
    /\ member = <<>> /\ plan = FALSE /\ axis = <<>> /\ period = <<>>
    /\ objective = <<>> /\ project = <<>>
    /\ today = 0
    /\ request = [s \in Requests |-> Idle]
    /\ expired = {}

Next ==
    \/ \E s \in Requests : Begin(s) \/ Commit(s) \/ RollBack(s)
    \/ CronLists \/ \E p \in Periods : CronCloses(p)
    \/ Tick

\* The scheduler comes back every hour, and not every closing fails.
Fairness ==
    /\ WF_vars(CronLists)
    /\ WF_vars(\E p \in Periods : CronCloses(p))
    /\ SF_vars(Commit(Cron))

Spec == Init /\ [][Next]_vars /\ Fairness

-----------------------------------------------------------------------------
(* Readings of the whole (planning-tree.service.ts and                     *)
(* planning-gantt.service.ts): the objectives of a period whose unit and   *)
(* axis pass the filters; an axis that is not of the active plan is none.  *)

PlannedIn(p) == {o \in LiveOf(objective) : objective[o].period = p}
ShownAxis(o) == IF AxisInActivePlan(objective[o].axis) THEN objective[o].axis ELSE NoAxis
\* (Of the unit itself.)
SelectedInUnit(p, axes, u) == {o \in PlannedIn(p) : ShownAxis(o) \in axes /\ objective[o].unit = u}
Selected(p, axes, u) ==
    {o \in PlannedIn(p) : /\ ShownAxis(o) \in axes
                          /\ objective[o].unit \in UnitSubtreeIds(Parents, u)}
Readings(objectives) ==
    [o \in objectives |-> [
        unit |-> objective[o].unit, pending |-> ReadingOf[o].pending,
        result |-> ReadingOf[o].result, resultDeviation |-> ReadingOf[o].resultDeviation,
        execution |-> ReadingOf[o].execution, executionDeviation |-> ReadingOf[o].executionDeviation]]

PlanningTree(p, axes, u) ==
    LET shown == Readings(Selected(p, axes, u))
        scope == UnitSubtreeIds(Parents, u)
    IN  [plan |-> AggregateObjectiveReadings(shown),
         axes |-> AggregateObjectiveReadingsBy(shown, [o \in DOMAIN shown |-> ShownAxis(o)]),
         units |-> BuildUnitAggregates([v \in scope |-> Parents[v]], shown)]

\* The bar of an objective spans its projects.
PlanningGantt(p, axes, u) ==
    [o \in Selected(p, axes, u) |->
        [axis |-> ShownAxis(o), unit |-> objective[o].unit,
         projects |-> {x \in LiveOf(project) : project[x].objective = o}]]

-----------------------------------------------------------------------------
(* Properties.                                                             *)

TypeOK ==
    /\ DOMAIN unit \subseteq Units
    /\ \A u \in DOMAIN unit :
         unit[u] \in [kind : {"central", "ministry", "area"}, parent : Units \cup {NoUnit}, live : BOOLEAN]
    /\ DOMAIN member \subseteq Users
    /\ \A m \in DOMAIN member : member[m] \in Units \cup {NoUnit}
    /\ plan \in BOOLEAN /\ DOMAIN axis \subseteq Axes
    /\ DOMAIN period \subseteq Periods
    /\ \A p \in DOMAIN period :
         period[p] \in [organization : Organizations, status : {"future", "open", "closed"},
                        startsAt : 0..LastDay, endsAt : 1..LastDay, live : BOOLEAN]
    /\ DOMAIN objective \subseteq Objectives
    /\ \A o \in DOMAIN objective :
         objective[o] \in [unit : Units, axis : Axes \cup {NoAxis}, period : Periods, live : BOOLEAN]
    /\ DOMAIN project \subseteq Projects
    /\ \A p \in DOMAIN project :
         project[p] \in [objective : Objectives, unit : Units, endsAt : 0..LastDay, live : BOOLEAN]
    /\ today \in 0..LastDay /\ expired \subseteq Periods

\* The live units are one tree under the central root (RN-P1), no deeper than
\* MaxDepth, and no ministry hangs from an area: no sequence of
\* creations, moves, changes of kind and deletions leaves a unit without its
\* parent or apart from the root.
UnitsFormATree ==
    /\ ShownUnits(Parents) = DOMAIN Parents
    /\ {u \in DOMAIN Parents : unit[u].kind = "central"} = Roots(Parents)
    /\ Cardinality(Roots(Parents)) = 1
    /\ \A u \in DOMAIN Parents :
         /\ DepthOf(Parents, u) <= MaxDepth
         /\ unit[u].kind = "ministry" => unit[Parents[u]].kind # "area"

\* Nobody's scope is a unit that is gone: whoever could write somewhere still can
\* (deleting a unit asks for its members first).
ScopesAreLive == \A m \in DOMAIN member : member[m] # NoUnit => member[m] \in DOMAIN Parents

\* The structure stands through any sequence of calls: one tree, and members
\* whose scopes are in it.
StructureStands == TypeOK /\ UnitsFormATree /\ ScopesAreLive

\* A live objective has a live ministry or area, a live period and, if any, a
\* live axis of the active plan (RN-P2, RN-P3), whatever was moved, changed or
\* deleted since it was placed.
ObjectivesArePlaced ==
    \A o \in LiveOf(objective) :
        /\ objective[o].unit \in LiveOf(unit) /\ unit[objective[o].unit].kind # "central"
        /\ objective[o].axis # NoAxis => plan /\ objective[o].axis \in LiveOf(axis)
        /\ objective[o].period \in LiveOf(period)

\* No live project is left under an objective that is gone, by its own deletion
\* or by that of its period.
ProjectsHaveTheirObjective ==
    \A p \in LiveOf(project) : project[p].objective \in LiveOf(objective)

\* One period of an organisation at most is open (D3-A), however many requests open,
\* create and close them at once: the unique index decides.
OneOpenPeriod == \A o \in Organizations : Cardinality(OpenIn(o)) <= 1

\* And no day belongs to two periods of an organisation.
PeriodsApart ==
    /\ OneOpenPeriod
    /\ \A p, q \in LiveOf(period) :
          p # q /\ period[p].organization = period[q].organization =>
              period[p].endsAt <= period[q].startsAt \/ period[q].endsAt <= period[p].startsAt

\* While its period is open a project ends within it (RN-P4): only closing early
\* leaves projects past the end.
ProjectsWithinPeriod ==
    \A p \in LiveOf(project) :
        LET of == period[objective[project[p].objective].period]
        IN  of.status = "open" => project[p].endsAt <= of.endsAt

\* What is planned hangs together: projects from objectives, and objectives from
\* units, axes and periods that keep apart, none of which goes from under them.
PlanHangsTogether ==
    /\ ObjectivesArePlaced
    /\ ProjectsHaveTheirObjective
    /\ PeriodsApart
    /\ ProjectsWithinPeriod

\* The planning tree and the Gantt account for every live objective and project
\* of a period once: by units and by axes the counts add up to the plan's, the
\* aggregate of the root is the plan's, and what is shown of a unit when the tree
\* is filtered by it is what the whole tree shows of it.
TreeAccountsForEverything ==
    \A p \in LiveOf(period) :
        LET all == Axes \cup {NoAxis}
            root == CHOOSE u \in Roots(Parents) : TRUE
            tree == PlanningTree(p, all, root)
            gantt == PlanningGantt(p, all, root)
        IN  /\ tree.plan.objectives = Cardinality(PlannedIn(p))
            /\ tree.units[root].aggregate = tree.plan
            /\ UNION {tree.units[u].objectives : u \in DOMAIN tree.units} = PlannedIn(p)
            /\ SumFunction([a \in DOMAIN tree.axes |-> tree.axes[a].objectives]) = tree.plan.objectives
            /\ \A u \in DOMAIN Parents \ {root} :
                 LET filtered == PlanningTree(p, all, u)
                 IN  /\ filtered.plan = tree.units[u].aggregate
                     /\ filtered.units[u] = tree.units[u]
            /\ UNION {gantt[o].projects : o \in DOMAIN gantt} =
                 {x \in LiveOf(project) : objective[project[x].objective].period = p}

\* What a step leaves of the closed periods.
RestWhenClosed ==
    \A p \in DOMAIN period : period[p].status = "closed" =>
        /\ period'[p] \in {period[p], [period[p] EXCEPT !.live = FALSE]}
        /\ \A o \in DOMAIN objective' : (objective'[o].period = p /\ period'[p].live) =>
             /\ o \in DOMAIN objective
             /\ objective'[o] \in {objective[o], [objective[o] EXCEPT !.axis = NoAxis]}
        /\ \A x \in DOMAIN project' :
             (objective'[project'[x].objective].period = p /\ period'[p].live) =>
                x \in DOMAIN project /\ project'[x] = project[x]

\* A closed period never opens again nor changes its dates, and nothing is
\* planned or edited in it: its objectives and projects change only by losing a
\* deleted axis or by going with the period.
ClosedPeriodsRest == [][RestWhenClosed]_vars

\* Who has a scope writes only in it (RN-P20) and leaves the structure to the
\* central unit (RN-P19): every row its request changes was and stays in the
\* scope, be it an objective, a project or the scope of another member, so nobody
\* widens a scope beyond the own.
Changed(old, new) == {r \in DOMAIN old \cup DOMAIN new :
    ~(r \in DOMAIN old \cap DOMAIN new) \/ old[r] # new[r]}
PlacesOf(old, new, r) ==
    {old[x].unit : x \in {r} \cap DOMAIN old} \cup {new[x].unit : x \in {r} \cap DOMAIN new}
WritesInScope(u) ==
    LET mine == {v \in DOMAIN unit : member[u] \in Climb(Parents, v)}
    IN  /\ UNCHANGED <<unit, plan, axis, period>>
        /\ \A m \in Changed(member, member') :
             {member[x] : x \in {m} \cap DOMAIN member} \cup
             {member'[x] : x \in {m} \cap DOMAIN member'} \subseteq mine
        /\ \A o \in Changed(objective, objective') : PlacesOf(objective, objective', o) \subseteq mine
        /\ \A p \in Changed(project, project') : PlacesOf(project, project', p) \subseteq mine
StayInScope ==
    \A s \in Busy :
        LET caller == request[s].call.by
        IN  (request'[s] = Idle /\ caller # Superadmin /\ member[caller] # NoUnit) =>
                WritesInScope(caller)
WritesStayInScope == [][StayInScope]_vars

\* An open period does not outlive its end for ever: it is closed, by somebody or
\* by the hourly closing, whatever fails on the way, or deleted.
Lingers(p) == p \in LiveOf(period) /\ period[p].status = "open" /\ period[p].endsAt <= today
ExpiredPeriodsClose == \A p \in Periods : Lingers(p) ~> ~Lingers(p)

\* RN-P4: the unit of a project is that of its objective or one below it.
ProjectsInScopeOfTheirObjective ==
    \A p \in LiveOf(project) : InScopeOf(project[p].objective, project[p].unit)
=============================================================================
