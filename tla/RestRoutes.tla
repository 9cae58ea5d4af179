----------------------------- MODULE RestRoutes -----------------------------
(***************************************************************************)
(* The roles and the routes of the API: what each role may do, and, of     *)
(* every route, the guards a call passes and the organisation its handler  *)
(* acts on.  The controllers are one operator each.                        *)
(*                                                                         *)
(* An operator described in parentheses is a slip of the one it precedes:  *)
(* no specification uses it.                                               *)
(***************************************************************************)
EXTENDS Integers, FiniteSets

CONSTANTS
    NoOrganization,   \* a call that names none
    Everywhere        \* the scope of who may write in the whole organisation: null

Anything == "*"      \* ALL_PERMISSIONS
NoPermission == "none"

RoleKeys == {"org-reader", "org-user", "org-admin", "external-auditor"}

\* auth.role_permission, as the migrations leave it.
PermissionsOf ==
    LET Reader == {"okr:read", "metrics:read"}
        User == Reader \cup {"okr:progress:write", "metrics:entry:write",
                             "core:org-unit:vision:write"}
    IN  [r \in RoleKeys |->
          CASE r = "org-reader" -> Reader
            [] r = "org-user" -> User
            [] r = "org-admin" -> User \cup {"okr:write", "metrics:write", "core:period:manage",
                 "core:member:manage", "core:user:read", "audit:read", "core:org-unit:manage",
                 "planning:plan:manage"}
            [] r = "external-auditor" -> {}]

\* hasPermission.
HasPermission(permissions, key) == Anything \in permissions \/ key \in permissions

-----------------------------------------------------------------------------
\* A route: the guards it declares, and which organisation its handler is given:
\* the one of the header ("context"), the one in the path, or none.
Open == [tenant |-> FALSE, param |-> FALSE, superadmin |-> FALSE, modules |-> {},
         permission |-> NoPermission, acts |-> "none"]
Tenant == [Open EXCEPT !.tenant = TRUE, !.acts = "context"]
OfPath(guards) == [guards EXCEPT !.param = TRUE, !.acts = "path"]
Superadmin(guards) == [guards EXCEPT !.superadmin = TRUE]

Handlers(guards, permission, names) ==
    [n \in names |-> [guards EXCEPT !.permission = permission]]

\* The routes of several controllers, or handlers.
Together(controllers) ==
    [n \in UNION {DOMAIN f : f \in controllers} |->
       (CHOOSE f \in controllers : n \in DOMAIN f)[n]]

MemberController ==
    LET members == OfPath(Tenant)
    IN  Together({
          Handlers(members, "core:member:manage", {"list members"}),
          Handlers(members, "core:member:manage", {"invite member", "change role",
             "assign member", "update member", "remove member"}),
          Handlers(members, "core:org-unit:manage", {"set scope"})})

OrgUnitController ==
    LET units == OfPath(Tenant)
    IN  Together({
          Handlers(units, NoPermission, {"list units", "unit tree", "get unit"}),
          Handlers(units, "core:org-unit:manage", {"create unit", "update unit", "remove unit"}),
          Handlers(units, "core:org-unit:vision:write", {"update vision and mission"})})

OrganizationModuleController ==
    LET modules == OfPath(Tenant)
    IN  Together({
          Handlers(modules, "core:module:manage", {"list modules of organization"}),
          Handlers(Superadmin(modules), NoPermission, {"enable module", "disable module"})})

OrganizationController ==
    LET one == [Superadmin(Open) EXCEPT !.acts = "path"]
    IN  Together({
          Handlers(Superadmin(Open), NoPermission, {"list organizations"}),
          Handlers(OfPath(Tenant), NoPermission, {"get organization"}),
          Handlers(Superadmin(Open), NoPermission, {"create organization"}),
          Handlers(OfPath(Tenant), "core:org-unit:manage", {"update organization"}),
          Handlers(one, NoPermission, {"update sector", "deactivate", "activate"})})

PeriodController ==
    Together({
      Handlers(OfPath(Tenant), NoPermission, {"list periods"}),
      Handlers(OfPath(Tenant), "core:period:manage", {"create period"}),
      Handlers(Tenant, NoPermission, {"get period"}),
      Handlers(Tenant, "core:period:manage", {"open period", "close period", "remove period"})})

StrategicPlanController ==
    LET plan == OfPath(Tenant)
    IN  Together({
          Handlers(plan, "okr:read", {"get plan", "list axes", "get axis"}),
          Handlers(plan, "planning:plan:manage", {"upsert plan", "create axis", "update axis",
             "remove axis"})})

Okr == [Tenant EXCEPT !.modules = {"okr"}]
Metrics == [Tenant EXCEPT !.modules = {"indicadores-gestion"}]
OkrMetrics == [Tenant EXCEPT !.modules = {"okr", "indicadores-gestion"}]

ObjectiveController ==
    Together({
      Handlers(Okr, "okr:read", {"list objectives", "get objective"}),
      Handlers(Okr, "okr:write", {"create objective", "update objective", "remove objective"})})

ProjectController ==
    Together({
      Handlers(Okr, "okr:read", {"list projects", "get project", "list tasks"}),
      Handlers(Okr, "okr:write", {"create project", "weigh projects", "update project",
         "remove project", "create task", "weigh tasks"})})

TaskController ==
    Together({
      Handlers(Okr, "okr:read", {"get task"}),
      Handlers(Okr, "okr:write", {"update task", "remove task"}),
      Handlers(Okr, "okr:progress:write", {"set progress"})})

PlanningControllers == Handlers(Okr, "okr:read", {"planning tree", "planning gantt"})

MetricController ==
    Together({
      Handlers(OfPath(Metrics), "metrics:read", {"list metrics"}),
      Handlers(OfPath(Metrics), "metrics:write", {"create metric"}),
      Handlers(Metrics, "metrics:read", {"get metric", "get series"}),
      Handlers(Metrics, "metrics:write", {"update metric", "remove metric"})})

MetricEntryController ==
    Together({
      Handlers(Metrics, "metrics:read", {"list entries"}),
      Handlers(Metrics, "metrics:entry:write", {"create entry", "update entry", "remove entry"})})

MetricLinkController ==
    LET links == [Tenant EXCEPT !.modules = {"indicadores-okr", "indicadores-gestion"}]
    IN  Together({
          Handlers(links, "metrics:read", {"list context metrics"}),
          Handlers(links, "metrics:write", {"add context metric", "remove context metric"})})

ObjectiveIndicatorController ==
    Together({
      Handlers(OkrMetrics, "okr:read", {"list indicators", "get indicator", "indicator status",
         "objective status", "get target points"}),
      Handlers(OkrMetrics, "okr:write", {"create indicator", "weigh indicators",
         "set target points", "update indicator", "remove indicator"})})

ProjectContributionController ==
    Together({
      Handlers(OkrMetrics, "okr:read", {"contributions of indicator", "contributions of project"}),
      Handlers(OkrMetrics, "okr:write", {"create contribution", "update contribution",
         "remove contribution"})})

AiController ==
    Together({
      Handlers(Tenant, "ai:use", {"draft", "validate"}),
      Handlers(Tenant, "ai:use", {"assistant status"}),
      Handlers(Tenant, "ai:admin", {"assistant usage"})})

\* Its guard reads the context as signing in leaves it.
AuditController == Handlers(Open, "audit:read", {"list events", "get event"})

RolesControllers == Handlers(Superadmin(Open), NoPermission,
    {"list roles", "get role", "permissions of role", "list permissions", "get permission"})

MeControllers == Handlers(Open, NoPermission, {"me", "list modules"})

Routes == Together(
    {MemberController, OrgUnitController, OrganizationModuleController,
     OrganizationController, PeriodController, StrategicPlanController,
     ObjectiveController, ProjectController, TaskController, PlanningControllers,
     MetricController, MetricEntryController, MetricLinkController,
     ObjectiveIndicatorController, ProjectContributionController,
     AiController, AuditController, RolesControllers, MeControllers})

-----------------------------------------------------------------------------
(* The context of a call, and the guards that read it.                     *)

\* AuthGuard: somebody who signed in, in no organisation yet.
SignedIn(user, superadmin) ==
    [user |-> user, superadmin |-> superadmin, organization |-> NoOrganization,
     scope |-> Everywhere, permissions |-> IF superadmin THEN {Anything} ELSE {}]

\* (Any organisation in the path will do.)
ParamOfContext(context, path) == path # NoOrganization /\ context.organization # NoOrganization

\* OrgParamGuard and OrgIdParamGuard.
ParamIsContext(context, path) ==
    context.organization # NoOrganization /\ path = context.organization

\* The guards of a route, once the organisation of the header is resolved.
Admitted(route, context, path, modules) ==
    /\ route.param => ParamIsContext(context, path)
    /\ route.superadmin => context.superadmin
    /\ route.modules \subseteq modules
    /\ route.permission # NoPermission =>
         context.superadmin \/ HasPermission(context.permissions, route.permission)

\* The organisation the handler acts on.
ActsOn(route, context, path) ==
    CASE route.acts = "path" -> path
      [] route.acts = "context" -> context.organization
      [] OTHER -> NoOrganization
=============================================================================
