------------------------------ MODULE MCAccess ------------------------------
(***************************************************************************)
(* What surrounds the model of planning, one part at a time: who signs in, *)
(* what modules there are and how the guard learns of them, which calls of *)
(* the web go through and what they change, how calls of tools are limited *)
(* and which run, what the assistant costs and how audit events are listed.*)
(* The other parts do not move.  One superadmin toggles one module at a    *)
(* time, and no tool call lasts longer than a tick.                        *)
(***************************************************************************)
EXTENDS Members, UserSync, AiCopilot, AuditTrail, TLC

CONSTANTS sol, luz, e1, e2, e3, here, there, addr, ana, leo, kim, sup, u1, u2, d, v

VARIABLE part

vars == <<part, accessVars, connectorVars, membersVars, syncVars, copilotVars, trailVars>>

Requires == [m \in Modules |-> IF m = "indicadores-okr" THEN {"indicadores-gestion"} ELSE {}]
Limits == [read |-> 1, write |-> 2, ip |-> 3, user |-> 2]
Operation == d :> "draft" @@ v :> "validate"

\* Tools that are there, and two that write, which there may be.
Placeless == Registry["listar_organizaciones"].declares
Reader == Registry["listar_objetivos"].declares
Writer == [Reader EXCEPT !.kind = "write", !.permission = "okr:write"]
WriterOfNothing == [Placeless EXCEPT !.kind = "write"]

Member(role, scope) == [role |-> role, scope |-> scope]
Units == here :> {u1, u2} @@ there :> {}

Row(s, e, super) == [sub |-> s, email |-> e, superadmin |-> super]

\* Nobody yet; sol by an older email; a superadmin already there.
People == {<<>>, <<Row(sol, e3, FALSE)>>, <<Row(luz, e2, TRUE)>>}

MCInit ==
    /\ part \in {"sign in", "modules", "doors", "routes", "limits", "calls", "assistant", "audit"}
    /\ AccessInit(IF part = "modules" THEN {here} ELSE Organizations)
    /\ ConnectorInit(
         IF part \in {"doors", "routes"}
         THEN <<ana, here>> :> Member("org-admin", Everywhere) @@ <<leo, here>> :> Member("org-admin", u1)
              @@ <<leo, there>> :> Member("org-reader", Everywhere)
              @@ <<kim, there>> :> Member("org-admin", Everywhere)
         ELSE <<leo, here>> :> Member("org-reader", Everywhere)
              @@ <<leo, there>> :> Member("org-admin", Everywhere))
    /\ MembersInit
    /\ \E rows \in IF part = "sign in" THEN People ELSE {<<>>} :
         SyncInit(rows, sol :> e1 @@ luz :> e2)
    /\ \E row \in IF part = "assistant"
                  THEN {Nothing, [enabled |-> TRUE, quota |-> 0], [enabled |-> FALSE, quota |-> 2]}
                  ELSE {Nothing} : CopilotInit(row)
    /\ AuditInit

NoCall == \A c \in Callers : call[c] = Free

\* A limited call needs no organisation, and one that needs one, the only call
\* of its part, does not meet a limit.
Limited == [address : {addr}, user : {ana}, tool : {Placeless, WriterOfNothing},
            organization : {NoOrganization}, writes : {TRUE}]
Placed == {[address |-> addr, user |-> leo, tool |-> Reader, organization |-> o, writes |-> FALSE] :
              o \in {here, NoOrganization}}
     \cup {[address |-> addr, user |-> leo, tool |-> Writer, organization |-> here, writes |-> w] :
              w \in BOOLEAN}
Calls == Connect(IF part = "limits" THEN Limited ELSE IF now = 1 /\ hits = <<>> THEN Placed ELSE {})

\* During a call either the user leaves and returns, or the organisation does.
Members ==
    \/ /\ stopped[here] = 0
       /\ (left[<<leo, here>>] = 0 /\ LeaveOrganization(<<leo, here>>)) \/ Join(<<leo, here>>, "org-admin")
    \/ /\ left[<<leo, here>>] = 0
       /\ (stopped[here] = 0 /\ Deactivate(here)) \/ Activate(here)

NoConnector == UNCHANGED connectorVars

\* Nobody looks for an object in a draft.
DraftsHaveNoObject == \A r \in Asks : ask[r].prompt = d /\ ask[r].fresh => ~ask[r].answer.readable

\* Calls about a member of an organisation, by anybody, and about its modules.
Asked(u, h, p, n) == [user |-> u, header |-> h, path |-> p, route |-> n, target |-> leo,
                      role |-> "org-user", unit |-> Everywhere, module |-> "indicadores-gestion"]
Changes ==
    LET By(n) == {Asked(u, h, here, n) : u \in Users, h \in Organizations}
    IN  {[q EXCEPT !.role = "org-admin", !.unit = s] : q \in By("invite member"), s \in Scopes}
        \cup {[q EXCEPT !.unit = u1, !.target = kim] : q \in By("invite member")}
        \cup {[q EXCEPT !.role = x] : q \in By("change role"), x \in {"org-user", "org-admin"}}
        \cup {[q EXCEPT !.role = "external-auditor"] : q \in By("update member") \cup By("assign member")}
        \cup {[q EXCEPT !.unit = s] : q \in By("set scope"), s \in Scopes}
        \cup By("remove member")
Toggles == {[Asked(sup, here, here, n) EXCEPT !.module = m] :
              n \in {"enable module", "disable module"}, m \in {"mcp", "indicadores-gestion"}}

\* Every route, called by anybody for any organisation.
EveryCall ==
    {Asked(u, h, p, n) : u \in Users, h \in Organizations \cup {NoOrganization},
       p \in Organizations, n \in {x \in DOMAIN Routes : Routes[x].acts = "path"}}
    \cup {Asked(u, h, NoOrganization, n) : u \in Users, h \in Organizations \cup {NoOrganization},
             n \in {x \in DOMAIN Routes : Routes[x].acts # "path"}}

\* Two calls at once, about members or modules, and then one about a member.
NoRequest == \A r \in Requests : request[r] = Free
WebCalls ==
    CASE part = "routes" -> IF entered = 0 THEN EveryCall ELSE {}
      [] part = "doors" -> (IF entered < 2 \/ (entered = 2 /\ NoRequest) THEN Changes ELSE {})
                           \cup (IF entered < 2 THEN Toggles ELSE {})

Step ==
    \/ part = "sign in" /\ SyncNext
    \/ part = "modules" /\ (Administer \/ Guard \/ Tick)
    \/ part \in {"doors", "routes"} /\ Serve(WebCalls)
    \/ part \in {"limits", "calls"} /\ Calls
    \/ part \in {"limits", "calls"} /\ NoCall /\ Tick /\ NoConnector
    \/ part = "calls" /\ now = 0 /\ cache = <<>> /\ Guard /\ NoConnector
    \/ part = "calls" /\ (now = 0 \/ ~NoCall) /\ Administer /\ NoConnector
    \/ part = "calls" /\ ~NoCall /\ Members
    \/ part = "assistant" /\ Assist /\ billed' <= 4 /\ DraftsHaveNoObject'
    \/ part = "audit" /\ Audit

Still ==
    /\ part = "sign in" \/ UNCHANGED syncVars
    /\ part \in {"modules", "doors", "routes", "limits", "calls"} \/ UNCHANGED accessVars
    /\ part \in {"doors", "routes", "limits", "calls"} \/ UNCHANGED connectorVars
    /\ part \in {"doors", "routes"} \/ UNCHANGED membersVars
    /\ part = "assistant" \/ UNCHANGED copilotVars
    /\ part = "audit" \/ UNCHANGED trailVars
    /\ UNCHANGED part

\* What is toggled and asked for, by how many and for how long.
Toggled == IF part = "modules" THEN {here} \X {"indicadores-gestion", "indicadores-okr"}
           ELSE (IF now = 0 THEN Organizations ELSE {here}) \X {"mcp"}
Guarded == {here} \X (IF part = "modules" THEN {"indicadores-gestion"} ELSE {"mcp"})
Until == [modules |-> 4, doors |-> 0, routes |-> 0, limits |-> LastTick, calls |-> 1]

MCNext ==
    /\ Step
    /\ Still
    /\ toggle' # toggle /\ toggle' # Idle => toggle'.pair \in Toggled
    /\ \A g \in Lookups : lookup'[g] # Idle => lookup'[g].pair \in Guarded
    /\ part = "calls" => \E g \in Lookups : lookup'[g] = Idle
    /\ now' # now => now' <= Until[part]
    /\ created' # created => now = 0 /\ \A g \in Lookups : lookup[g] = Idle

Symmetric == Permutations(Asks) \cup Permutations(Requests) \cup Permutations(Logins) \cup Permutations(Lookups)

MCSpec == MCInit /\ [][MCNext]_vars
=============================================================================
