# Verification of integral-gestion

TLA+ models, model-checking configurations and machine-checked proofs of integral-gestion: a multi-tenant
NestJS application over PostgreSQL (through Prisma), with a Next.js front end and an MCP connector, in which the
organizations of a government plan objectives, measure them with indicators and execute them with projects and
tasks.

The models cover the business rules of the API and the places where its requests meet: the cascade of management
progress, contributions from projects to indicators, the result of objectives, the calendar and the curves that
readings are made of, the structure everything hangs from (units, scopes, axes, periods), who gets in and what
they may do, the connector and the assistant, the demo seeds, and the pages of the web application that write.

## 1. Inventory

All handlers run in API processes that share one PostgreSQL database. A handler usually **reads what it was asked
about first, outside any transaction** (existence, permissions, open period), and then runs
`PrismaService.runInTransaction`: an interactive transaction at PostgreSQL's default level, READ COMMITTED. What
serializes two handlers is therefore only what they lock explicitly (row locks, advisory locks) and the unique
indexes, and whatever was read before the lock may be stale under it. Side effects in other modules are calls made
*after* the commit (`EventEmitter2.emitAsync`), whose failures are logged and never retried. Two caches live in
the memory of a process: the answers of `ModuleEnabledGuard` and the windows of the MCP rate limiter.

| Component (under `apps/api/src/modules`, `packages` or `apps/web`) | State | Operations | Hard behaviour | What makes it correct |
|---|---|---|---|---|
| `okr`: tasks, projects, objective execution | task and project rows (weight, progress, deletedAt), `progressCachedBp`, `executionProgressCachedBp` | create, update, reweigh, delete, load progress | two lock orders, checks on rows read before the lock, aggregates over rows another transaction is changing, rollbacks | valid weight groups (RN-P6); cached readings equal to the aggregate (RN-P8); a deletion takes everything |
| `okr-domain` | none (pure) | weight modes, aggregation, planned progress, statuses, planning tree | truncation, empty and zero-weight groups, objectives outside the tree | 100 % exactly when all that weighs is complete; counts that add up |
| `okr`: publication of completion | none | publish after commit | events lost, reordered, overlapping | contributions follow the tasks (RN-P13) |
| `metrics`: contributions | `project_contribution` rows, automatic `metric_entry` rows | create, update, remove, reconcile | concurrent reconciliations, stale project, locks on several rows | posted once, compensated exactly, following its project |
| `metrics`: indicators of an objective | indicator rows, weight group, curve, `progressCachedBp` | create, update, points, weights, delete, recompute | advisory locks on several objectives, write-back of a stale row, events after the commit | valid groups; cached progress exact; links and curves consistent |
| `metrics`: metrics and entries | metric and entry rows | create, update, delete, load | readers before locks | series sums; a metric in use stays |
| `okr`: objectives, listener of indicator progress | objective rows, `resultProgressCachedBp` | create, update, delete, set result | events out of order, count outside the transaction | placed in a live unit, axis and period; latest result |
| `metrics-domain`, `deviation-domain` | none (pure) | buckets, curves, progress, deviation, semaphore | rounding, boundaries of buckets and periods | agreement with the calendar and with each other |
| views: status, series, planning tree, Gantt | none | read | several queries, the same figure computed in several places | readings that tell the same story |
| `core`: periods and their hourly closing | period rows | create, open, close, delete, job | check-then-act, job against manual closing, failures inside the job | no overlap, one open, the closed rests, the expired closes |
| `core`: organization units, scopes | unit tree, scope of each member | create, move, change kind, delete; the guard of every write | long sequences of legal calls, moves that meet | one tree of bounded depth; writes inside the scope |
| `planning`: strategic plan, axes | plan and axis rows | upsert, create, delete | one active plan, deletion under objectives | no objective on a deleted axis |
| `core`: organizations, members | organizations, memberships | create, activate, deactivate, invite, roles, scopes, remove | rights read in one organization and used on another; checks before the transaction | a grant never exceeds the granter's |
| `core`: user synchronization | users | resolve, claim, create, promote | concurrent first sign-ins and invitations | one user per identity, one first superadmin |
| `core`: module enablement and its guard | enabled modules, cache with a time to live | enable, disable, ask | lookups that overlap a toggle | dependencies enabled; bounded staleness |
| `mcp`: dispatcher, rate limiter, guards | windows of timestamps | receive, throttle, dispatch | several windows at once; a module, a membership or an organization that goes away mid-call | exact windows; cut at once; as strict as the web |
| `ai`: assistant and quota | settings, usage, prompt log | gate, reuse, call, count | check-then-act around a slow provider; refused answers in the log | overshoot bounded by the calls in flight; every token counted once; only a reused answer is off topic |
| `auth`: tenant context, guards, tenant-scoped client | asynchronous context | guard, scope | a route that acts on another organization than the one its rights were read in | rights and handler agree |
| `audit` | event rows | append, list | commits between two pages | stable pages |
| `apps/web`: pages, dialogs and forms that write | page, drafts, pending actions | open, type, save, refresh | late, lost and crossed answers, rows edited by others under a dialog | what is offered can be saved; forms write what was typed; saved work shows |
| demo seeds | the tables of the demo organizations | wipe and create, statement by statement | killed, run again, disturbed | a legal demo after any complete run |
| health, configuration, filters, interceptors, DTO validators, layout | none | – | – | not modelled |

`PROJECT.json` lists these components with their files and, under `hazards`, the points of the code that are hard
to test, each at its line with the property that would notice; section 3 says which of them are real disagreements.

How they interact: `okr` → `metrics` by `project.completed` / `project.reopened` after the commit; `metrics` → `okr`
by `indicator.progress_changed` after the commit; `metrics` reads projects through the port `PROJECT_LINK_READER`
(committed rows, no lock) and the cached readings of objectives through `OBJECTIVE_PROGRESS_READER`; `core` and
`planning` count and unassign objectives through ports of `okr-contracts`; all validate weights with `okr-domain`;
the tools of `mcp` call the same services as the controllers; the web application reads in Server Components and
writes through server actions.

## 2. Modules

Sources of truth first: `A ← B` says that `B` extends `A`.

| Hierarchy | |
|---|---|
| pure rules | `OkrDomain` ← `MetricsDomain` ← `MetricsCalendar`; `MetricsDomain` ← `PlanningDomain`; `OrgUnits` |
| cascade and contributions | `OkrDomain` ← `ExecutionCascade` ← `CompletionFlow`, which instantiates `ContributionReconciliation`, which implements `ContributionLedger` |
| results and readings | `MetricsDomain` ← `IndicatorResult`; `MetricsCalendar`, `PlanningDomain` ← `IndicatorStatus` |
| structure | `OrgUnits` ← `Governance` |
| access | `RestRoutes` ← `ConnectorTools`; with `ModuleAccess` and `RateLimiter` ← `Connector` ← `Members`; `UserSync`; `AiCopilot`; `AuditTrail`; all ← `MCAccess` |
| seeds | `MetricsCalendar` ← `DemoCatalogue` ← `DemoSeed` |
| web | `WebPage` ← `SiblingsPage` (with `OkrDomain`), `EditForms` |
| proofs | `OkrDomainProofs` ← `ExecutionCascadeProofs`, also about `CompletionFlow`, which uses `ContributionReconciliationProofs`; `OkrDomainProofs` ← `IndicatorResultProofs`, `IndicatorStatusProofs`, `GovernanceProofs`, `AccessProofs`, `WebPageProofs` |
| instances | `MCExecutionCascade`, `MCContributionReconciliation`, `MCCompletionFlow`, `MCRequestsEnd`, `MCIndicatorResult`, `MCIndicatorStatus`, `MCGovernance`, `MCAccess`, `MCDemoSeed`, `MCWebPage` |

Each specification module holds a few operators described in parentheses ("slips"): the form its predecessor or
successor would have after a plausible mistake. They belong to no specification; `PROJECT.json` (`mutants`) says
which property notices each.

### Pure rules: OkrDomain, MetricsDomain, MetricsCalendar, PlanningDomain, OrgUnits

Operators for `packages/okr-domain`, `metrics-domain`, `deviation-domain` and `org-unit-tree`: weight groups and
aggregation, accumulated values and progress, deviations and semaphores; buckets, overdue loads and curves over a
calendar given as a constant; planned progress, statuses, reasons of delay and the aggregates of the planning tree;
depth, height and scope in the tree of units. Decimals are the scaled integers the code computes with, and a bigint
quotient truncates toward zero. They have no state; the services that call them are the other modules, and what is
checked of them are the properties of the runs that use them.

### ExecutionCascade

State: committed task and project rows (`status`, `weight`, `progress`), the objective's `execution`, the row locks
of projects and of the objective, and per request its position, its call, the `weightChanged` of an update (decided
from the early read), the aggregates it computed and the tasks a project deletion listed.

| Action | Code |
|---|---|
| `BeginTask`, `BeginProject` | the reads before the transaction (`findTaskWithParentOrThrow`, `findProjectOrThrow`, `findObjectiveOrThrow`) |
| `LockProject` / `LockObjective` | `lockProject` in task handlers, `lockObjective` in project handlers |
| `WriteTask`, `RejectTask` | validation, writes and `recomputeProjectAndObjectiveExecution` up to the update of the objective's row; or the throw |
| `CommitTask` | that update, which waits for the objective's row, and the commit |
| `CommitPlainUpdate` | an update that saw no change of weight: written, nothing recomputed |
| `MarkTasks`, `WriteProject`, `RejectProject`, `CommitProject` | project handlers; a deletion lists and deletes tasks before it reaches the project's row; the rows it updates are waited for and locked |
| `RollBack` | Prisma's time limit, a lost connection, a dead process |
| `BreakDeadlock` | PostgreSQL's victim when a task transaction (project, then objective) meets a project one (objective, then project) |

Abstractions. A transaction's writes become visible at its commit, as in READ COMMITTED. One objective, live
throughout. All projects are `from_tasks`: `assertProgressModeOperable` refuses the other mode. The row locks that
updates take on *tasks* are not modelled: a task row is only written under its project's lock, or by a project
deletion, which in the model need not wait for a task handler in flight before its own project row does.
`unvalidated` and `unvalidatedObjective` are history variables: the groups in which an update wrote a weight it had
taken for unchanged. The aggregation is a constant `ProgressOf`, instantiated with `AggregateProgressBp`, so the
proofs hold for any aggregation that stays in range and gives zero for a group without progress.

### ContributionReconciliation, ContributionLedger

State: each project (`open`, `complete`, `deleted`), each indicator (live, fed by projects), the contribution rows
(`value`, `applied`: the amount of the entry `appliedEntryId` names), the `balance` of automatic entries made for
each, the row locks and decisions of open reconciliations, and per request its position, the project it saw, the
rows it has still to lock and its draft.

| Action | Code |
|---|---|
| `CompleteProject`, `ReopenProject`, `DeleteProject` | an `okr` commit that `publishTransitions` / `publishDeleted` reports |
| `ChangeProgress` | any other commit: publishes nothing |
| `ReadProject` | `findLiveProject`, before the transaction |
| `ListContributions`, `LockContribution`, `CommitReconciliation` | `reconcileInTransaction`, its loop and its commit (`apply`, `revert`, `deleteMany`) |
| `Fail` | the listener throws (logged by `emit`) or the process dies |
| `BeginCreate`, `InsertContribution`, `RefuseInsertion` | `create`: early reads, transaction under the group's advisory lock, reconciliation afterwards if the project *was* complete |
| `BeginAlter`, `UpdateContribution`, `RemoveContribution`, `RefuseAlter` | `update` and `remove`, with `assertNotApplied` under the row's lock |
| `BeginEdit`, `CommitEdit`, `RefuseEdit` | `update` of an indicator: the link mode it read, checked and written back |
| `DeleteIndicator` | `softDelete` of an indicator |

Abstractions. Transactions that take a single lock are one step from the lock to the commit, preceded by their early
reads. Entries are summed per contribution: their buckets are in `IndicatorStatus`, what they recompute is in
`IndicatorResult`. `lost` is a history variable: projects whose last reconciliation failed and that have not changed
since; the properties of the settled state exclude them, as the code's comment does.

`ContributionLedger` is what a contribution is promised: a `worth` and what was `posted` for it; a worth is assigned
only while nothing is posted, posting and compensating move exactly the worth, and a contribution is withdrawn
compensated or abandoned with its indicator. The refinement maps `worth` to the row's value and `posted` to its
balance.

### CompletionFlow

The composition: `ContributionReconciliation` with its `project` replaced by the completion computed from the rows
of `ExecutionCascade`. A step of the cascade that changes the completion of a project publishes it in the same
request (`Publish`), one that does not leaves the contributions alone; a handler of contributions leaves the cascade
alone. It is where RN-P13 is stated end to end, from the progress of a task to the entry in the series.

### IndicatorResult

State: metrics (life, baseline, kind), entries, indicator rows (target, weight, link, curve, cached progress),
objectives (live, result), the advisory lock of each group, and per request what it has read, the groups it has
still to lock, what it has written and the events it has still to publish.

| Action | Code |
|---|---|
| `BeginLoad`, `LockGroup`, `NextMetric`, `CommitLoad` | an entry created, changed or deleted, or a reconciliation: the readings of `recomputeForMetric`, its locks in the order of objectives, its writes, metric by metric |
| `BeginCreate` / `CommitCreate`, `BeginUpdate` / `CommitUpdate`, `BeginPoints` / `CommitPoints`, `BeginWeights` / `CommitWeights`, `BeginDelete` / `CommitDelete` | the handlers of `ObjectiveIndicatorService`: the checks before the transaction, and the transaction under `lockGroup` |
| `CreateMetric`, `BeginUpdateMetric` / `CommitUpdateMetric`, `BeginDeleteMetric` / `CommitDeleteMetric` | `MetricService` |
| `DeleteObjective` | `ObjectiveService.softDelete`, as indicators see it |
| `Deliver`, `LoseEvent` | `IndicatorProgressListener.handle`, or its failure |
| `RollBack` | a refused check, a lost connection, a deadlock's victim |

Abstractions. The baseline of an indicator is 0. From the lock to the commit of an edit is one step: nothing another
request does in between can be told apart. The readings before a load's transaction are merged with its begin. The
events of one recompute are collapsed per objective. Names, periods, permissions and the refusals for linked
projects are left to `RollBack`. Three history variables say what races did: `stale` (indicators last written from
old readings), `unchecked` (written on checks another commit made old), `behind` (objectives whose last event was
lost or outrun). The properties except them, so they hold of everything the races did not touch.

### IndicatorStatus

One objective with its indicators, and one project with its tasks, while the period goes by. State: the plan (whose
end closing early moves), the instant, whether the period is closed, the loads and the progress of tasks. Actions:
time (`Pass`), the handlers of loads (`Load`, `ChangeLoad`, `RemoveLoad`), the automatic load of a contribution
(`AutomaticLoad`), a task's progress (`LoadTask`) and `ClosePeriod`. The readings (`BuildStatus`, `ObjectiveStatus`,
`ProgressReading`, `Series`) are operators on that state. Each status is read on one snapshot, where the code makes
several queries. `PlansAssumption` says which plans the services leave: rows and tasks in valid weight groups, curves
by day or by project, a period that ends after it begins and whose last day the calendar has.

### Governance

State: units (kind, parent), scopes of members, the plan and its axes, periods, the place and period of objectives
and projects, the day, what each request in flight has read, and what the running hourly closing has still to visit.

| Action | Code |
|---|---|
| `Begin` | the reads and guards of a call (`May…`): `OrgUnitService`, `MemberService`, `StrategicPlanService`, `AxisService`, `PeriodService`, `ObjectiveService`, `ProjectService`, with `assertCentralScope`, `assertCanWriteInUnit`, `assertCanGrantScope` |
| `Commit` | its transaction, which writes by id (`Write…`) and repeats no condition; only a unique index refuses |
| `RollBack` | a refused index, a lost connection |
| `CronLists`, `CronCloses` | `PeriodAutoCloseCron`: the list, and period by period the same `closePeriod`, which may fail and is left for the next hour |
| `Tick` | midnight |

`PlanningTree` and `PlanningGantt` are the two readings of `planning-tree.service` and `gantt.service`. Abstractions:
each call is in flight at most once; no request lasts past midnight; the start of a project is that of its period;
roles, names, owners, vision and mission, and the audit trail are left out; scopes are read once per request.

### Access: UserSync, ModuleAccess, RestRoutes, Members, RateLimiter, ConnectorTools, Connector, AiCopilot, AuditTrail

| Module | State | Actions and what they are |
|---|---|---|
| `UserSync` | users, emails at the identity provider, requests signing in, an invitation | every statement of `UserSyncService` (`FindBySub`, `Refresh`, `FindByEmail`, `Claim`, `Create`, `Reread`, `Rebind`, `Bootstrap`, `Promote`), `FindLinked` (a connector's token), and the read and write of `inviteByEmail`; there is no transaction, only unique columns |
| `ModuleAccess` | enabled pairs, the guard's cache, lookups and a toggle in flight | `CreateOrganization`, `BeginToggle` / `CommitToggle`, `GuardAsks` / `GuardKeeps`, `Tick` |
| `RestRoutes` | none | one record per route: guards, permission, modules, and the organization its handler acts on |
| `Members` | calls between the guards and the transaction | `Enter` (the guards of a route), `Handle` (what the handler reads and checks), `WriteMember`, `WriteModule`, `WriteOrganization` |
| `RateLimiter` | none (operators on the windows) | `Consume`, with pruning and the sweep |
| `ConnectorTools` | none | what each tool declares, and the routes that read the same |
| `Connector` | the limiter's windows, memberships, active organizations, calls | one action per step of a tool call, from `Receive` (address limit) to `Run`; `Join`, `LeaveOrganization`, `Deactivate`, `Activate` around them |
| `AiCopilot` | settings, usage by month, reusable answers, requests | `CreateSettings`, `Gate`, `Lookup`, `Answer`, `FailCall`, `Count`, `Forget`, `NextMonth` |
| `AuditTrail` | committed and uncommitted events, what each reader was answered | `EmitEvent`, `EndTransaction`, `Moment`, `ListFirst`, `ListNext` |

Abstractions. The parts run one at a time in `MCAccess`: they share no state but memberships and modules, which
`Connector` and `Members` have in common. One superadmin toggles one module at a time. `ChangeEmail` gives nobody an
email that a row or a token in flight has (the comment at `user-sync.service.ts:92` takes a row found by email for a
placeholder). The case-insensitive comparison of the first superadmin's email is left out. A tool call lasts within
a tick, a guard's lookup at most `MaxLookup`. Windows are instantiated with few ticks. The providers of the
assistant and the identity provider are external. An answer of theirs is two bits: whether it is on topic, and whether
an object can be read in it; an answer without the mark is on topic whatever it says. In the run, where nothing reads
an object in a draft, drafts have none (`DraftsHaveNoObject`).

### DemoCatalogue, DemoSeed

The data of the three demo seeds (`DemoCatalogue`) and the seeds as a program over the tables they write: statement
by statement, outside any transaction, with foreign keys that refuse (`Execute`), a start on a given day (`Start`),
a death anywhere (`Die`) and a member's insertion (`Add`). The readings the seed stores are recomputed by the
operators of the services, over the tables it leaves.

### WebPage, SiblingsPage, EditForms

`WebPage` is a page with the API behind it: what is stored, what the last rendering showed, the renderings wanted
and on their way (`router.refresh`), the server actions each runner (`useActionRunner`) waits for. Actions:
`Submit`, `Accept`, `Refuse`, `HearAccepted`, `HearFailure` (which may follow a request that was carried out),
`Break` (the promise of the action fails, and the runner stays pending), `Render`, `Land`, `Reload`, and
`WrittenByOther`.

`SiblingsPage` is the list of the projects of an objective or of the tasks of a project: the weights control
(`useWeightDraft`, `useWeightedGroup`, `weights-dialog`) and the dialogs of the panel that create and delete members.
`EditForms` follows one of ten edit forms, which differ in when they take their values (when the dialog opens, or
when the component mounts) and in what they compare with to decide which fields to send (`FormOf`).

Abstractions. Next serializes server actions; the model lets them run in any order. Error texts, titles, dates and
the other columns are left out. Dialogs are modal.

## 3. Runs

| Run | Instance | Shows |
|---|---|---|
| `one_request` | cascade and contributions composed; 3 tasks, 2 projects, 2 indicators, 3 contributions, 1 request, 100 % = 2 bp, reconciliations that may fail | any sequence of handlers keeps weight groups valid and no task without its project (`RowsStaySound`), the reading of the objective exact (`ObjectiveReadingExact`), 100 % a fact (`CompletionIsReal`), contributions in step with the tasks (`ContributionsFollowTasks`) and the series of the metrics clean of what is gone (`ContributionsLeaveNoTrace`) |
| `requests_end` | 2 requests on the cascade, and 2 on the contributions of one project, fairness | every request ends (`RequestsEnd`), although task and project handlers lock in opposite orders and a reconciliation locks several rows |
| `cascade_concurrent` | 2 requests, calls of every kind that can meet, rollbacks and deadlocks | `ProjectReadingExact` and `ObjectiveGroupValid` survive every interleaving |
| `contribution_concurrent` | 1 project, 2 indicators, 2 contributions, 2 requests that may fail | entries match rows and are posted once (`EntriesSound`), and the ledger is implemented (`LedgersKept`) |
| `indicator_result` | 2 objectives, 2 metrics, 4 indicators, 4 entries, 2 requests; scenarios of loads, edits, weights, checks and creation | cached progress follows the series (`ProgressFollowsSeries`), groups stay valid although edits write back an old weight (`GroupsStayValid`), the result of objectives follows the events (`OkrFollowsMetrics`), links and curves fit (`IndicatorsStaySound`), loads of one metric never wait in a circle (`LoadsDoNotDeadlock`) |
| `readings` | 9 plans: every frequency, every kind of curve, weights or none; 2 loads of 2 values, 10 instants, early closing | buckets and overdue loads are those of the calendar (`LoadsAreAskedOnTime`), curves reach their target or a warning says so (`CurvesKeepTheirPromise`), readings computed apart agree (`ReadingsAgree`), a load settles its bucket (`LoadsSettleTheirBucket`) |
| `governance` | 4 units, depth 3, 3 periods, 5 days, 2 objectives, 1 project, 2 axes, 2 members; scenarios of the tree, scopes, places, axes, periods, what is planned, and requests at once | one tree and live scopes (`StructureStands`), a plan that hangs together (`PlanHangsTogether`), readings that account for every objective (`TreeAccountsForEverything`), closed periods that rest (`ClosedPeriodsRest`), writes inside the scope (`WritesStayInScope`), expired periods that close (`ExpiredPeriodsClose`) |
| `access` | one part at a time: 2 people and an invitation, 3 modules, every route by every kind of caller, 2 calls of members at once, limited calls, tool calls, 2 requests of the assistant, 3 events | `SignInsAreExact`, `OnlyTwoPeopleConflict`, `DependenciesEnabled`, `GuardFollowsToggles`, `DoorsAgree`, `GrantsStayWithin`, `LimiterIsExact`, `CutAtOnce`, `AssistantIsExact`, `PagesAreExact` |
| `seeds` | the three demo seeds with their real data, run in May or November, twice, with one death or one disturbance | a run that ends alone leaves the demo, legal by the rules of the services (`DemoIsLegal`), and is refused nothing (`QuietRunsAreNotRefused`) |
| `web` | a list of up to 2 siblings, or a row with one of five forms; 2 writes, the user's and others' | what is offered to save can be saved (`ListSound`), what is typed is written and nothing else, answers close their own weights dialog (`TypingIsRespected`), and what was accepted comes to the screen (`OwnWritesShow`) |

Two runs are expected to find a violation: there the code does not do what its comment or document says.

| Run | What happens |
|---|---|
| `cascade_lost_update` | `project-recompute.ts:97` aggregates the objective without `lockObjective`: two loads in different projects, and the last commit forgets the other |
| `governance_project_unit` | `project.service.ts:405` checks the unit of a project when the project is written and never again: its objective then moves to another unit, or its unit, which has no objectives, is deleted (RN-P4, `docs/features/planificacion-gobierno.md:83`) |

### Bounds, and why they are enough

With 2 basis points for one hundred percent a weight is nothing, a half or the whole, and a mean of a half and a whole
truncates: every case of the weight rules occurs; where remainders matter (the equal split of the web, the readings)
one hundred percent is 3 or 20. Two tasks in a project are the smallest group with siblings, two projects the smallest
group above it, and a third task lets both levels be groups. Two requests suffice for every race in the hazard list,
all of which are between a pair of transactions; that more requests cannot break the properties of
`cascade_concurrent` and `contribution_concurrent`, nor those of `indicator_result` and `access`, is proved, not
assumed (section 4); so is that larger trees, more periods and longer plans cannot break those of `governance`, one
request at a time. In the contributions a third id names the pair of the
first, so a removed contribution can be created again; two contributions of the same project are what a lock order
needs. `Operations`, `MayFail` and the scenarios restrict an instance to what its question needs; between them they
make every call.

The calendar of `readings` has months of 21 days, so that weeks, halves and quarters of a year meet in a short period,
and two moments a day, so that an instant is not a midnight. Values of both signs let series rise, fall and overshoot;
10 instants are before, on and after every boundary of the plans. The tree of `governance` may be 3 deep instead of 4
and periods last 1 to 3 days instead of 7 to 366: the bound is met and exceeded by the calls in both cases. The
windows of `access` are 3 and 5 ticks with limits of 1 to 3 calls; the theorems have any. `MaxWrites`, `MaxItems` and
`MaxTyping` in `web` let one write of each user meet, and a slider has a place between its start and its end; the five
forms treat each of their fields as the other five treat theirs (`SameForms`, evaluated by the run). `seeds` has the
real data, on a day before and a day after most of its loads are due.

Deadlock checking is off where callers may stop calling (all but `web`): that requests end is checked as a liveness
property.

### Fairness

A step that needs no lock is weakly fair: it is a statement of a running process. A step that waits for a row lock is
strongly fair, since PostgreSQL queues the waiters of a row. No caller is obliged to call, and no transaction is
obliged to time out, so nothing ends because of a rollback except the deadlock victim, which PostgreSQL does choose.
In `Governance` the hourly job lists (`WF`) and goes through its list (`WF`), as the scheduler and the `for` of the
cron do; its commit is strongly fair because a failure leaves the period for the next hour and a database that
refuses for ever is not what the property is about. In the web application a rendering that was asked for is made and
arrives (`WF`), as Next promises of `router.refresh`; nobody has to submit, and an answer may never come.

### Disagreements

What follows is real in the code and was found while modelling. The two runs above show two of them; of the others,
the passing runs state how far the properties hold (one request at a time, or except what a history variable
records), and dropping that restriction gives the violation.

*Cascade.* `task.service.ts:206` (and `update` of a project) decides `weightChanged` before the lock: an edit to the
weight the row *had* is written unchecked after another edit of the group, and every later recompute throws
(`RowsStaySound` with two requests). `task.service.ts:134` checks the project before the lock: a task created during
the deletion outlives the project.

*Contributions.* `project-contribution-applier.service.ts:71` reads the project before its transaction: the older
reading can be applied last, although the comment at line 42 says it tolerates events out of order.
`project-contribution.service.ts:186` decides from the project read before the insertion: a completion in between is
seen by neither; likewise a deletion in between leaves a contribution nobody removes (`:129`).
`objective-indicator.service.ts:299` writes back the link mode it read before the lock, so an indicator with
contributions can cease to be fed. An entry posted to an indicator that is deleted before its compensation stays in
the series (`project-contribution-applier.service.ts:111`). After a failed `project.reopened` a later change of the
project that does not cross 100 % publishes nothing (`project-lifecycle-publisher.ts:47`, against the comment at line
31, "cualquier cambio posterior del proyecto lo reconcilia").

*Results.* A load that races another one of the same metric, or an edit of the baseline of the metric
(`metric.service.ts:234`), leaves an indicator with the progress of an older series until the next load. A
reconciliation, which locks groups metric by metric, can deadlock with another one. Two events of an objective can
arrive in the other order. Checks of kinds and links precede the transaction that writes on them
(`objective-indicator.service.ts:290`).

*Structure.* Nothing locks the tree: two moves, each valid alone, make a cycle or exceed the depth
(`org-unit.service.ts:170`); a unit is created, or an objective placed, under a unit that is being deleted (`:118`).
Two creations of overlapping periods both pass (`period.service.ts:149`). A period opened and closed while a request
to open it is under way opens again (`:213`), and an early closing under way when the hourly job closes rewrites the
end of a closed period. An objective can be created in a period that closes or is deleted meanwhile, given an axis
that is being deleted, or be deleted while a project is created in it (`objective.service.ts:326`). Closing early
leaves projects that end after their period. RN-P3 says the dates of a period can be edited; there is no such
operation. The planning tree is read in three queries, between which objectives move (comments "inalcanzable",
`planning-tree.service.ts:116`).

*Readings.* Closing early sets the end to that day's UTC midnight: later buckets fall off, and a period cannot be
closed on its first day (`chk_period_range`). A closed period keeps asking for its overdue loads, which nobody can
make any more. Loads on buckets still to come are accepted.

*Access.* The routes of audit have no `TenantGuard`, so `AuditReadAccessGuard` (`audit-read-access.guard.ts:25`) reads
the permissions of a context nobody has filled: an administrator with `audit:read` never passes, against ADR 0004. No
migration grants `ai:use`, `ai:admin` or `core:module:manage` to a role, against ADR 0005. A returning user whose new
email belongs to a placeholder is refused for good: it is the case `OnlyTwoPeopleConflict` describes. Enabling a
module checks what it requires while another request may disable it (`module-enablement.service.ts:87`). `/me` lists
inactive organizations, the selector does not. Two first uses of the assistant at once make the second fail
(`quota.service.ts:125`). Calls are counted only when they succeed and the monthly quota of calls is never enforced,
against ADR 0005; tokens of a call whose process dies before counting are lost. What is off
topic is refused after it is logged as a success, and the same prompt is answered with it for a day: a draft always
(`ai.service.ts:88`), an analysis when an object can be read after the mark (`ai.service.ts:199` reads the object and
does not look for the mark, `ai.service.ts:292` does). `ServedAsWritten`, in `AssistantIsExact`, says so: only a
reused answer is off topic. No test or document says what the log may be read for. The audit events a migration
back-filled have microseconds, which the cursor of a page cuts.

*Seeds.* The headers of two seeds say they do not touch memberships, but the wipe frees every member of its unit, and
a run that dies before the people are written leaves members who may write everywhere. A member who writes while a
seed wipes can make it fail.

*Web.* A refusal, or an API that cannot be reached, does not read the page again: the retry is refused again until
the user reloads. A server action whose promise fails leaves its buttons disabled until a reload
(`useActionRunner.ts:22`). Fields stay enabled while a save is pending, and what is typed then is lost when it is
accepted. An older answer closes a newer dialog of the panels; only the weights control cannot be opened while it
waits. The dialogs of metrics and objectives take their values when they mount, so cancelled text comes back and
others' edits are overwritten; the forms of the plan, of entries and of contributions send every field; the form of a
project compares with the live page, so a refresh under the open dialog makes it take back others' edits
(`project-form.ts:69`). The slider of a task never takes the page's value again. An edit of an indicator is two
requests, of which the second may fail alone (`useObjectiveIndicators.ts:57`). The deletion of a member that has
weight is offered although the API refuses it. `candidateParents` (`tree.ts`) offers moves the API refuses, for it
looks at the old kind and not at the height of the subtree.

## 4. Proofs

What TLC checks on the instances of section 3 is proved here for every value of the constants: any ids, calls,
requests, units of a basis point. Eight modules hold the proofs, beside the modules they are about.

### OkrDomainProofs: sums and the aggregate

`AggregateIsExact`: the aggregate of a finite valid weight group is a progress, zero when nothing has any, and one
hundred percent exactly when everything that weighs is complete. Truncation can neither reach it nor hide it. It is
what makes the `ProgressOfAssumption` of `ExecutionCascade` true of `AggregateProgressBp`.

A sum over a set is a fold, which adds in an order nobody knows. `SetInduction` is induction on the subsets of a
finite set, from the existence of minimal elements of a well-founded relation; with it `SumIsAddition` shows that
every order gives the same sum. The lemmas that follow (`SumOfAny`, `SumSplits`, `SumChanges`, `SumIsMonotone`,
`SumFallsShort`, `SumOfScaled`) are those the other modules cite.

### ExecutionCascadeProofs

For any interleaving of requests, rollbacks and deadlocks:

- `TypeCorrectness`: `Spec => []TypeOK`;
- `ObjectiveGroup`: `Spec => []ObjectiveGroupValid`;
- `ProjectReading`: `Spec => []ProjectReadingExact`.

`ProjectReadingExact` is not inductive. The strengthening, `ReadingInv`, says that whoever changes the tasks of a
project holds its row (`HoldsItsProject`) and changes no other project's (`WritesItsProject`, `DeletesItsTasks`),
that the aggregate a request has computed is that of the rows it will commit (`ResultIsCurrent`), that ids are
created once (`CreatesFreshProject`, `DeletedExists`) and that a project that does not exist has no task and no
progress (`AbsentIsEmpty`). Mutual exclusion then lets each commit install an aggregate computed from rows nobody
else could change. `ObjectiveGroupValid` follows one level up from `GroupInv`: whoever changes the group of projects
holds the objective's row (`HoldsObjective`), so the group it validated is the one it leaves (`ObjectiveChecked`).

When no two requests overlap (`[]OneAtATime`, which constrains the behaviour and not the calls):

- `OneRequestAtATime`: `RowsStaySound`, and `ObjectiveReading`: `ObjectiveReadingExact`. `SequentialInv` adds to the
  two invariants above that what the only open request read before its locks still holds (`ReadsAreFresh`): what it
  took for a change of weight, the project it creates in, the tasks it deletes, the aggregates it has computed. No
  group then goes unvalidated;
- `CompletionReached`: `CompletionIsReal`, from these and `AggregateIsExact`.

The hypothesis is needed: with two requests the run `cascade_lost_update` and the disagreements of section 3 show
how these properties fail, and that each of them fails by a read that is no longer fresh.

### ContributionReconciliationProofs, and the composition in ExecutionCascadeProofs

For any interleaving:

- `ContributionTypes`: `Spec => []TypeOK`;
- `EntriesMatchRows`: `Spec => []EntriesSound`, from the inductive `LedgerInv`: a locked row is live and stays as it
  was (`LockedRowsStand`), a pending decision still fits its row (`DecisionsStand`), nothing is posted for an absent
  row (`AbsentIsUnposted`) and ids in creation are fresh (`CreatesFresh`);
- `Refinement`: `Spec => LedgersKept`, one step of the ledger for each step of the module, from the same invariant;
- `FlowIsBoth`: a behaviour of `CompletionFlow` is one of `ExecutionCascade` and, with the completion computed from
  its rows, one of `ContributionReconciliation`; so every theorem about either holds of the composition;
- `FlowKeepsReadings`: in the composition `ProjectReadingExact` is an invariant.

For calls that come one after another (`OneSlot`):

- `ContributionsSettle`: `SpecFlow => []ContributionsFollowTasks`, which is RN-P13 from the progress of a task to the
  entry of a series. `FollowInv` says that the rows of a project nobody is reconciling are settled (`RowsFollow`)
  and, of a reconciliation under way, that the rows it has locked and those still to do are all the live rows of the
  project, with the decision the project's state asks for (`LocalsAreFresh`). It is proved of the contributions alone
  and carried over by `FlowIsBoth`; `CompletionReached` then turns "the reading is 100 %" into "the tasks are
  complete";
- `ContributionsGone`: `SpecFlow => []ContributionsLeaveNoTrace`, from `RowsAreFed` and `GoneIsUnposted` of the same
  invariant.

### IndicatorResultProofs

For any number of requests, and with no hypothesis on how they meet: the properties except what the history
variables record, and the proofs show that these record enough.

- `IndicatorWeights`: `Spec => []GroupsStayValid`, although an update writes back the row it read before its
  transaction. `GroupInv` follows each step through the *shape* of the group it leaves (`Shape`): a request that
  writes a weight has checked the whole group, and one that does not keeps the committed weight;
- `OneMetricLoads`: `Spec => []LoadsDoNotDeadlock`. `LockInv` says that only loads hold groups (`OnlyLoadsHold`) and
  that a load of one metric has taken them in order (`TakenInOrder`): each request of a circle wants a group above all
  it holds, so the highest group wanted in the circle, which exists because objectives are finite, is held by nobody
  who waits;
- `ResultsReachOkr`: `Spec => []OkrFollowsMetrics`. `OkrInv`: of an objective that is not `behind`, at most one
  request still has something to tell, and its last word is the aggregate of the group as it is (`ResultFollows`);
  a load that goes on holds every group it has events for, so they stay right until it commits (`OutboxHolds`);
- `IndicatorsFollow`: `Spec => []ProgressFollowsSeries`. `SeriesInv`: what a request has read of a metric is right as
  long as the request is fresh, for every metric it has come to (`LoadRight`, `BaselineHolds`);
- `IndicatorsSound`: `Spec => []IndicatorsStaySound`, for finitely many indicators and entries. `TypesInv` types
  every row, draft and event; `SoundInv` adds that what a request has checked of the kind of a metric, of a link and
  of a curve still holds unless another commit touched it (`ChecksHold`).

### IndicatorStatusProofs

For any plan, any loads and any instants; nothing here assumes that calls come one after another, for each reading is
made on one snapshot:

- `LoadsAreDue`: `Spec => []LoadsAreAskedOnTime`;
- `CurvesArrive`: `Spec => []CurvesKeepTheirPromise`;
- `ReadingsTellOneStory`: `Spec => []ReadingsAgree`;
- `LoadsSettle`: `Spec => LoadsSettleTheirBucket`.

The inductive invariant, `Standing`, is small: the plan stays one of `Plans` except that its period may have been
closed early (`PlanStands`), the loads are of its indicators, finitely many (`LoadsStand`), progress is a
progress. The work is in the readings, which are functions of that state.

- *Buckets.* `buildBuckets` goes from boundary to boundary until the end of the period. `NextBoundaryIsNext` shows,
  for each frequency and across the months of any length, that the next boundary is the first later day that starts a
  bucket. The function with that recursion therefore exists, a witness being the starting days in increasing order,
  and is unique: of two that differ, take the last day on which they do (`GoingIsDays`). `BucketsAreDays` then
  says what the buckets are without a recursion, from which what is pending and overdue follows
  (`PendingAndOverdue`), and that closing early leaves no bucket pending that was not (`ClosingAddsNothing`).
- *Curves.* Quotients are truncated towards zero, of integers of either sign. `QuotientBetween` and `ShareOfTheWay`
  bound them: a share of the way lies on the way, and the whole of it is the way.
  `LinearCurve` and `ManualCurve` apply them to the two kinds of curve, by cases on where the day falls between points.
- *One story.* A weighted mean of readings lies between the least and the greatest (`MeanBetween`), so the deviation
  of an objective lies between those of its indicators that can be measured (`DeviationOfAGroup`). Execution and
  overdue tasks agree because an aggregate of one hundred percent has every task that weighs complete:
  `AggregateIsExact` once more.

### AccessProofs

- `Dependencies`: `AccessSpec => []DependenciesEnabled`, for any modules and requirements between them, as long as
  one toggle is made at a time;
- `GuardAnswers`: `AccessSpec => []GuardFollowsToggles`: a lookup that read an old value began before the change, at
  most `MaxLookup` ago, and an answer is kept `Ttl`, however many lookups overwrite each other;
- `SignInsExact`: `SyncSpec => []SignInsAreExact`, and `TwoPeopleConflict`: `SyncSpec => OnlyTwoPeopleConflict`, for
  any number of requests at any statement of the service. `SyncInv`: the unique columns hold (`UniqueRows`), an email
  speaks for one person over rows, tokens and requests in flight (`OneVoice`), and the row a request goes on with is
  its subject's, or a placeholder with its email (`LoginHolds`). A row never changes its subject once it has one,
  which is why reads made statements ago still hold;
- `AssistantExact`: `CopilotSpec => []AssistantIsExact`. `RoomIsLeft` counts the requests past the check of the
  quota: what is used, plus the costliest answer for each of them, stays below the quota plus one such answer per
  request; and `billed` is the sum of what every month has counted and what every request has still to count.
  `AskHolds` says of an answer in flight what is served of it: an analysis can be read, and one that has just been
  written is on topic;
- `PagesExact`: `AuditSpec => []PagesAreExact`, for pages of any size. `TrailInv`: what there was at the first page
  and has not been listed follows, in the order of the trail, all that has (`Exact`), however events are inserted
  between pages.

*The doors.* `DoorsSpec` is both doors at once: any calls of the web (`WebRequests`, every route with any arguments),
any calls of tools, members and organizations that come and go, modules that are enabled and disabled, any members to
begin with.

- `LimiterKeepsItsPromise`: `DoorsSpec => []LimiterIsExact`, for any limits and windows;
- `DisablingCutsAtOnce`: `DoorsSpec => CutAtOnce`;
- `DoorsLetInTheSame`: `DoorsSpec => []DoorsAgree`;
- `MembersWriteWithinTheirGrant`: `DoorsSpec => GrantsStayWithin`.

`DoorsInv` holds throughout. `Fits` relates what the limiter remembers to all it ever let through: each window has as
much of one as of the other, which pruning and the sweep do not change, and no window that ends at any time holds
more than its limit. `CallsOK` says of a tool call that each module, membership and organization it has asked about
is there, or went at a time no earlier than the call came. `RequestsOK` says of a call of the web that whoever is no
superadmin acts where it was a member, with the scope and a permission it had there (`Confined`), and that a handler
that goes on to write has checked what it may grant (`Checked`). What is proved of the routes (`Guarded`: which
guards go with which organization; `ReadBy`: what is asked of a reader) is proved of each controller's table and then
of all of them together; what a tool declares is compared, tool by tool, with the routes it reads.

### GovernanceProofs

For calls that do not overlap (`[]OneAtATime`), of any units, depth, periods, members and plan, with the hourly job
failing where it may:

- `PlanKeepsTogether`: `Spec /\ []OneAtATime => []PlanHangsTogether`;
- `ClosedPeriodsStayClosed`: `ClosedPeriodsRest`;
- `StructureKeepsStanding`: `[]StructureStands`;
- `NobodyLeavesTheirScope`: `WritesStayInScope`;
- `ReadingsMissNothing`: `[]TreeAccountsForEverything`.

All five come from `Sound`, whose parts are the plan (`Planning`: periods apart, one open at most, what is planned in
what is live, projects within their period), the units (`Tree`), that what the one open request has read is still so
(`ReadsHold`, which is what the hypothesis is for), that objectives are finitely many and that only periods expire.
`Planning` alone is inductive with `ReadsHold`, and `Tree` is not proved without them.

- `TheIndexDecides`: `Spec => []OneOpenPeriod`, with no hypothesis: however many requests and the hourly job open
  and close periods at once, the partial unique index leaves one open.

The ancestors, the height and the scope of a unit are recursive functions. That a function with such a recursion
exists is proved by induction over the naturals (`Iteration`), and what it computes by a level for each unit
(`Levelled`): a numbering in which every parent is one below its child, which is what a cycle could not have. A
creation, a move or a deletion is shown to leave such a numbering, with the levels of the moved subtree shifted.
The readings are sums over partitions: of the live objectives by their unit, and by their axis or none.

### WebPageProofs

For groups of any size, rows of any values, any number of writes, and any interleaving of the user, the others, the
answers of the API and the renderings:

- `ListsAskForGroups`: `Spec => []ListSound`;
- `WhatIsTypedIsSaved`: `Spec => TypingIsRespected`, of all ten forms, where the run follows five.

Of a list, `ListInv` says that what is stored, shown and on its way are valid groups (`PagesStand`), that what a page
has asked is something the API takes of the group the page showed when it was asked (`Askable`, which outlives any
change of either), that a draft nobody typed in is a whole (`DialogsStand`), and that a dialog that is open while its
save is pending is the one that asked (`OwnStands`). `EqualSplitIsWhole` is the arithmetic under it: the quotient for
each member, and one more for the first so many as the remainder, sum one hundred percent; it rests on
`FirstAreCounted`, by induction on the greatest member. A deletion the API refuses is of a member that weighs
(`RefusedDeletion`).

Of a form, `FormInv` says that a field nobody typed in holds what the row had when the dialog opened (`FieldsStand`)
and that what was asked names what was typed, and nothing else but where the form compares with what it should not
(`NamesTyped`); what the API then writes follows from the request alone.

### Assumptions

Those of the modules' `ASSUME`s, each evaluated by a run: ids in their sets, well-formed calls, `Nobody` not a
request, contribution values not zero (a database constraint), the default modules closed under requirements,
objectives finite, and for the aggregation that it stays in range and gives zero without progress, which
`AggregateIsExact` proves of the code's. The calendar of `MetricsCalendar` begins with a January, has no gap and
months of more than twenty days (`CalendarAssumption`), for any number of them. `PlansAssumption` of `IndicatorStatus`
asks of a plan what its editors leave, which `IndicatorResult` and `ExecutionCascade` show of the weight groups and
`chk_period_range` says of the period; loads are integers (`ValuesAssumption`), and instants have a first
(`InstantsAssumption`). `CallsAssumption` of `Governance` is what the DTOs let through; its periods have a least and a
greatest length, its tree a depth of at least one (`PeriodAssumption`, `DepthAssumption`), and no unit is the absence
of one. The limits and windows of the limiter are positive (`LimiterAssumption`), and no organization is the absence
of one (`DoorsAssumption`). A page first shows a valid group (`SiblingsAssumption`) or a row its form can hold
(`EditFormsAssumption`). `FlowAssumption` leaves `ChangeProgress` out of the composition, where the cascade makes that
change. `CopilotAssumption` has finitely many costs, of at least one token, and finitely many requests at once: a
provider's answer is bounded, and so is a process. Hypotheses of theorems:

| Hypothesis | Why it is the code's |
|---|---|
| `[]OneAtATime`, `OneSlot` | nobody else is calling: between what it reads and what it writes, the code of the cascade and of the structure takes no lock; what happens otherwise is section 3, *Disagreements* |
| finite `Tasks`, `Projects`, `Indicators`, `Entries` | tables are finite |
| `AggregatesAsInCode` | `ProgressOf` is `AggregateProgressBp`, as in every instance |
| `KnownPeople` (in `SyncSpec`) | the unique columns of `core.user`, one superadmin at most, and emails that mean one person: the comment at `user-sync.service.ts:92` |

### Only model-checked

- the liveness properties, since the provers at hand have no ENABLED: `RequestsEnd`, `ExpiredPeriodsClose`,
  `OwnWritesShow`;
- what rests on the data of the seeds, which the run evaluates: `DemoIsLegal`, `QuietRunsAreNotRefused`.

## 5. Not modelled

- *Metric links* (`metric-link.service.ts`): rows that show a metric beside an objective and that no rule reads. Their
  hazards: the link of a deleted metric makes the list fail (`:111`), and two insertions at once meet a unique index
  (`:45`).
- *Verification of the MCP token* and the record and shrinking of its answers: cryptography, logging and layout.
- *The tenant-scoped client* (`prisma-tenant-extension`): it rewrites the arguments of one query and has no state.
- *Bodies and shapes*: the DTO validators are taken as the sets of calls the models enumerate; presenters, filters,
  interceptors, configuration and health only convert.
- *The rest of the web application*: pages that only show, navigation, sign-in, charts and layout; the texts of errors.
- *Names, descriptions, owners, comments and order* everywhere, and the audit rows written in each transaction, except
  in `AuditTrail`.
- *Processes*: the limiter and the guard's cache are those of one replica, as deployed.

## 6. Plan

What a continuation would add, in order:

1. `ObjectiveReadingExact` under a `lockObjective` in the task handlers, to show that it is what the code needs.
2. The composition of `CompletionFlow` with `IndicatorResult`: from the progress of a task to the result of the
   objective that an indicator of it measures.
3. The two requests of an indicator's form, and the forms that create, as more of `EditForms`.
4. `governance` with a lock on the tree and periods excluded by the database: the properties at once.
