------------------------------ MODULE Members ------------------------------
(***************************************************************************)
(* Calls of the API from the guards to the handler, for every route, and   *)
(* what the handlers of members, modules and organisations change, of      *)
(* several calls at once: a call passes the guards with the role its user  *)
(* then has, reads and checks what it is to change, and writes it in a     *)
(* transaction.  A call the guards refuse changes nothing.  The units are  *)
(* those of one level (Governance has the tree), and the guards of a call  *)
(* see one moment.                                                         *)
(*                                                                         *)
(* An operator described in parentheses is a slip of the one it precedes:  *)
(* no specification uses it.                                               *)
(***************************************************************************)
EXTENDS Connector

CONSTANTS
    SuperadminUsers,
    UnitsOf,     \* the live units of each organisation
    Requests     \* calls under way

ASSUME DoorsAssumption == NoOrganization \notin Organizations

VARIABLES request, entered

membersVars == <<request, entered>>

\* INVITABLE_ROLE_KEYS.
InvitableRoles == {"org-admin", "org-user", "org-reader"}

NoRow == [role |-> "none", scope |-> Everywhere]
RowOf(k) == IF k \in DOMAIN member THEN member[k] ELSE NoRow

-----------------------------------------------------------------------------
\* TenantMembershipResolver.resolve, for the web: a superadmin enters any active
\* organisation, anybody else one where they are a member.
MayResolve(user, o) ==
    o \in active \cap created /\ (user \in SuperadminUsers \/ <<user, o>> \in DOMAIN member)

Resolved(user, o) ==
    IF user \in SuperadminUsers
    THEN [SignedIn(user, TRUE) EXCEPT !.organization = o]
    ELSE [SignedIn(user, FALSE) EXCEPT !.organization = o, !.scope = member[<<user, o>>].scope,
                                       !.permissions = PermissionsOf[member[<<user, o>>].role]]

ContextOf(route, user, header) ==
    IF route.tenant THEN Resolved(user, header) ELSE SignedIn(user, user \in SuperadminUsers)

ModulesOf(o) == {m \in Modules : <<o, m>> \in enabled}

\* The guards.  What the user is in each organisation at that time is kept for
\* the properties.
Enter(r, q) ==
    LET route == Routes[q.route]
        context == ContextOf(route, q.user, q.header)
    IN  /\ request[r] = Free
        /\ route.tenant => MayResolve(q.user, q.header)
        /\ Admitted(route, context, q.path, ModulesOf(context.organization))
        /\ request' = [request EXCEPT ![r] =
             [stage |-> "handler", asked |-> q, context |-> context,
              acts |-> ActsOn(route, context, q.path), row |-> NoRow,
              was |-> [o \in {p \in Organizations : <<q.user, p>> \in DOMAIN member} |->
                         member[<<q.user, o>>]]]]
        /\ entered' = entered + 1
        /\ UNCHANGED <<hits, passed, call, directory>> /\ UNCHANGED accessVars

\* (Whoever has a unit may grant any unit.)
CanGrantUnits(context, scope) == context.scope = Everywhere \/ scope # Everywhere

\* assertCanGrantScope: a scope no wider than the caller's.
CanGrant(context, scope) == context.scope \in {Everywhere, scope}

UnitInOrg(o, unit) == unit \in {Everywhere} \cup UnitsOf[o]

\* What each handler checks before its transaction, of the row it reads.
MayWrite(q, context, o, row) ==
    LET member_ == row # NoRow
    IN  CASE q.route = "invite member" ->
               /\ q.role \in InvitableRoles
               /\ CanGrant(context, q.unit) /\ UnitInOrg(o, q.unit)
          [] q.route = "change role" ->
               /\ q.role \in InvitableRoles /\ member_
               /\ CanGrant(context, row.scope) /\ row.role # q.role
          [] q.route = "set scope" ->
               /\ member_ /\ CanGrant(context, q.unit) /\ CanGrant(context, row.scope)
               /\ UnitInOrg(o, q.unit) /\ row.scope # q.unit
          [] q.route = "assign member" -> context.scope = Everywhere /\ ~member_
          [] q.route = "update member" -> member_ /\ CanGrant(context, row.scope)
          [] q.route = "remove member" -> member_ /\ CanGrant(context, row.scope)
          [] q.route = "enable module" -> MayEnable(o, q.module)
          [] q.route = "disable module" -> MayDisable(o, q.module)
          [] q.route = "deactivate" -> o \in active
          [] q.route = "activate" -> o \notin active
          [] OTHER -> FALSE

\* The handler reads the member, and goes on to write or answers.
Handle(r) ==
    /\ request[r].stage = "handler"
    /\ LET q == request[r].asked
           o == request[r].acts
           row == RowOf(<<q.target, o>>)
       IN  request' = [request EXCEPT ![r] =
             IF MayWrite(q, @.context, o, row) THEN [@ EXCEPT !.stage = "write", !.row = row]
             ELSE Free]
    /\ UNCHANGED <<entered, hits, passed, call, directory>> /\ UNCHANGED accessVars

\* The member as the transaction leaves it: a new row only where there is none,
\* and a change only of a row that is still there.
Written(q, row) ==
    CASE q.route = "invite member" /\ row = NoRow -> [role |-> q.role, scope |-> q.unit]
      [] q.route = "assign member" /\ row = NoRow -> [role |-> q.role, scope |-> Everywhere]
      [] q.route \in {"change role", "update member"} /\ row # NoRow -> [row EXCEPT !.role = q.role]
      [] q.route = "set scope" /\ row # NoRow -> [row EXCEPT !.scope = q.unit]
      [] q.route = "remove member" -> NoRow
      [] OTHER -> row

MemberRoutes == DOMAIN MemberController

WriteMember(r) ==
    /\ request[r].stage = "write" /\ request[r].asked.route \in MemberRoutes
    /\ LET q == request[r].asked
           k == <<q.target, request[r].acts>>
           row == Written(q, RowOf(k))
       IN  /\ member' = IF row = NoRow THEN Restrict(member, DOMAIN member \ {k})
                        ELSE Put(k, row)
           /\ left' = IF k \in DOMAIN member /\ row = NoRow THEN [left EXCEPT ![k] = now] ELSE left
    /\ request' = [request EXCEPT ![r] = Free]
    /\ UNCHANGED <<entered, hits, passed, active, stopped, call>> /\ UNCHANGED accessVars

WriteModule(r) ==
    /\ request[r].stage = "write" /\ request[r].asked.route \in {"enable module", "disable module"}
    /\ LET k == <<request[r].acts, request[r].asked.module>>
       IN  enabled' = IF request[r].asked.route = "enable module" THEN enabled \cup {k}
                      ELSE enabled \ {k}
    /\ changed' = [k \in Pairs |-> IF (k \in enabled') # (k \in enabled) THEN now ELSE changed[k]]
    /\ request' = [request EXCEPT ![r] = Free]
    /\ UNCHANGED <<entered, now, created, cache, lookup, toggle, hits, passed, call, directory>>

WriteOrganization(r) ==
    /\ request[r].stage = "write" /\ request[r].asked.route \in {"activate", "deactivate"}
    /\ LET o == request[r].acts
       IN  IF request[r].asked.route = "activate" THEN active' = active \cup {o} /\ UNCHANGED stopped
           ELSE active' = active \ {o} /\ stopped' = [stopped EXCEPT ![o] = now]
    /\ request' = [request EXCEPT ![r] = Free]
    /\ UNCHANGED <<entered, hits, passed, member, left, call>> /\ UNCHANGED accessVars

Serve(calls) ==
    \E r \in Requests :
        \/ \E q \in calls : Enter(r, q)
        \/ Handle(r) \/ WriteMember(r) \/ WriteModule(r) \/ WriteOrganization(r)

MembersInit == request = [r \in Requests |-> Free] /\ entered = 0

Scopes == {Everywhere} \cup UNION {UnitsOf[o] : o \in Organizations}

\* What a call of the web may carry: it names an organisation where its route does.
WebRequests ==
    {q \in [user : Users, route : DOMAIN Routes, target : Users, role : RoleKeys,
            header : Organizations \cup {NoOrganization}, path : Organizations \cup {NoOrganization},
            unit : Scopes, module : Modules] :
        Routes[q.route].acts = "path" => q.path # NoOrganization}

\* Both doors, with any members to begin with.
DoorsInit ==
    /\ \E organizations \in SUBSET Organizations : AccessInit(organizations)
    /\ \E members \in UNION {[K -> [role : RoleKeys, scope : Scopes]] : K \in SUBSET Memberships} :
         ConnectorInit(members)
    /\ MembersInit

DoorsNext == Serve(WebRequests) \/ (ConnectorNext /\ UNCHANGED membersVars)

DoorsSpec == DoorsInit /\ [][DoorsNext]_<<accessVars, connectorVars, membersVars>>

-----------------------------------------------------------------------------
\* Whatever organisation a handler acts on, its caller was a superadmin, or a
\* member of it whose role there grants what the route asks for: no call that
\* passes the guards with the rights of one organisation reaches another
\* (org-param.guard.ts, and the services that take the organisation of the
\* context).
CallsStayInTheirOrganization ==
    \A r \in Requests :
        LET q == request[r].asked
            route == Routes[q.route]
            o == request[r].acts
        IN  request[r] # Free /\ o # NoOrganization /\ q.user \notin SuperadminUsers =>
              /\ ~route.superadmin
              /\ o \in DOMAIN request[r].was
              /\ route.permission # NoPermission =>
                   route.permission \in PermissionsOf[request[r].was[o].role]

\* What the dispatcher asks before a tool runs, of a member's role and of what
\* the organisation has enabled.
ToolRuns(tool, user, o) ==
    /\ o \in active /\ <<user, o>> \in DOMAIN member
    /\ {"mcp"} \cup tool.modules \subseteq ModulesOf(o)
    /\ tool.permission # NoPermission =>
         HasPermission(PermissionsOf[member[<<user, o>>].role], tool.permission)

\* "Permiso RBAC equivalente al del endpoint REST" (tool-types.ts:77): whoever
\* reads something with a tool may read it through the routes of the web.
ToolsAskWhatRoutesAsk ==
    \A t \in DOMAIN Registry, k \in DOMAIN member :
        ToolRuns(Registry[t].declares, k[1], k[2]) =>
            \A n \in RoutesOf(Registry[t], PermissionsOf[member[k].role]) :
                Admitted(Routes[n], ContextOf(Routes[n], k[1], k[2]), k[2], ModulesOf(k[2]))

\* The two doors of the system: no call of the web leaves the organisation its
\* caller's role is of, and no tool reads more than the web shows.
DoorsAgree == CallsStayInTheirOrganization /\ ToolsAskWhatRoutesAsk

\* "Un actor con alcance en una unidad no puede dar un alcance mayor al suyo"
\* (member.service.ts:178): a member is written by a superadmin, or by somebody
\* who had the whole organisation or the unit that is the scope of the member
\* once written, and before it unless it moved since the handler read it, and
\* who then managed members there; modules and organisations by superadmins.
WritesWithinGrant ==
    \A r \in Requests :
         request[r] # Free /\ request'[r] = Free /\ request[r].asked.user \notin SuperadminUsers =>
            /\ enabled' = enabled /\ active' = active
            /\ \A k \in DOMAIN member \cup DOMAIN member' :
                 LET before == RowOf(k)
                     after == RowOf(k)'
                     own == request[r].was[k[2]]
                 IN  before # after =>
                       /\ k[2] \in DOMAIN request[r].was /\ own.role = "org-admin"
                       /\ after # NoRow /\ (before = NoRow \/ after.scope # before.scope) =>
                            own.scope \in {Everywhere, after.scope}
                       /\ before # NoRow /\ before.scope = request[r].row.scope =>
                            own.scope \in {Everywhere, before.scope}
GrantsStayWithin == [][WritesWithinGrant]_<<accessVars, connectorVars, membersVars>>
=============================================================================
