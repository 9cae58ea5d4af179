----------------------------- MODULE Connector -----------------------------
(***************************************************************************)
(* A tool call through the connector, from the limit by address to the     *)
(* handler: the guards of the endpoint and ToolDispatcher.execute, with    *)
(* the limiter and the modules as they are when each step asks for them.   *)
(* A call that is not let on ends; what it answers, and the record of the  *)
(* call, are left out, as is what the handler does.                        *)
(***************************************************************************)
EXTENDS ModuleAccess, RateLimiter, ConnectorTools

CONSTANTS Callers, Users, Addresses

VARIABLES hits,     \* the limiter's memory
          passed,   \* when the calls of each prefix were let through, ever
          member,   \* the role and the scope of each member, by user and organisation
          left,     \* when a user last lost a membership
          active,   \* the organisations that are active
          stopped,  \* when an organisation was last deactivated
          call      \* the calls under way

connectorVars == <<hits, passed, member, left, active, stopped, call>>

directory == <<member, left, active, stopped>>

Subjects == [kind : {"ip"}, who : Addresses] \cup [kind : {"user", "read", "write"}, who : Users]
Memberships == Users \X Organizations

\* What a tool may declare.
Tools == [kind : {"read", "write"}, needsOrganization : BOOLEAN,
          permission : {NoPermission} \cup UNION {PermissionsOf[r] : r \in RoleKeys},
          modules : SUBSET Modules]
ToolCalls == [address : Addresses, user : Users, tool : Tools,
              organization : Organizations \cup {NoOrganization}, writes : BOOLEAN]

Free == [stage |-> "free"]
OrganizationsOf(u) == {o \in active : <<u, o>> \in DOMAIN member}

Stage(c, stage) == call' = [call EXCEPT ![c].stage = stage]
End(c) == call' = [call EXCEPT ![c] = Free]

\* The limiter decides on a call of prefix p: it goes on, or ends.
Throttle(c, p, on) ==
    /\ hits' = Consume(hits, p, now)
    /\ passed' = IF Allowed(hits, p, now) THEN [passed EXCEPT ![p] = Append(@, now)] ELSE passed
    /\ call' = [call EXCEPT ![c] = IF Allowed(hits, p, now) THEN on ELSE Free]

-----------------------------------------------------------------------------
\* McpIpThrottleGuard, before the token is verified.
Receive(c, q) ==
    /\ call[c] = Free
    /\ Throttle(c, [kind |-> "ip", who |-> q.address],
                [stage |-> "token", user |-> q.user, tool |-> q.tool, organization |-> q.organization,
                 writes |-> q.writes, since |-> now, todo |-> {}, found |-> {}, role |-> "none"])
    /\ UNCHANGED directory

\* McpUserThrottleGuard, after it.
ThrottleUser(c) ==
    /\ call[c].stage = "token"
    /\ Throttle(c, [kind |-> "user", who |-> call[c].user], [call[c] EXCEPT !.stage = "dispatch"])
    /\ UNCHANGED directory

\* The dispatcher: the scope of the token, and then the limit of the tool.
MissesScope(c) ==
    /\ call[c].stage = "dispatch"
    /\ call[c].tool.kind = "write" /\ ~call[c].writes
    /\ End(c)
    /\ UNCHANGED <<hits, passed, directory>>

Dispatch(c) ==
    /\ call[c].stage = "dispatch"
    /\ call[c].tool.kind = "write" => call[c].writes
    /\ Throttle(c, [kind |-> call[c].tool.kind, who |-> call[c].user],
                [call[c] EXCEPT !.stage =
                    IF call[c].tool.needsOrganization THEN "memberships" ELSE "run"])
    /\ UNCHANGED directory

\* resolveOrganization: the memberships, and, of a call that names no
\* organisation, those with the connector enabled, asked for one by one.
ReadMemberships(c) ==
    /\ call[c].stage = "memberships"
    /\ LET mine == OrganizationsOf(call[c].user)
       IN call' = [call EXCEPT ![c] =
            IF call[c].organization = NoOrganization
            THEN [@ EXCEPT !.stage = "candidates", !.todo = mine]
            ELSE [@ EXCEPT !.stage = "resolve", !.found = mine]]
    /\ UNCHANGED <<hits, passed, directory>>

AskCandidate(c) ==
    /\ call[c].stage = "candidates"
    /\ \E o \in call[c].todo :
         call' = [call EXCEPT ![c].todo = @ \ {o},
                              ![c].found = @ \cup {p \in {o} : <<p, "mcp">> \in enabled}]
    /\ UNCHANGED <<hits, passed, directory>>

\* None, or more than one, is an answer to the caller.
PickCandidate(c) ==
    /\ call[c].stage = "candidates" /\ call[c].todo = {}
    /\ IF Cardinality(call[c].found) = 1
       THEN call' = [call EXCEPT ![c].stage = "resolve",
                                 ![c].organization = CHOOSE o \in call[c].found : TRUE]
       ELSE End(c)
    /\ UNCHANGED <<hits, passed, directory>>

\* The organisation and the membership are read again, with its role; it must
\* have been there before.
Resolve(c) ==
    /\ call[c].stage = "resolve"
    /\ LET k == <<call[c].user, call[c].organization>>
       IN IF k \in DOMAIN member /\ k[2] \in active \cap call[c].found
          THEN call' = [call EXCEPT ![c].stage = "modules", ![c].role = member[k].role,
                                    ![c].todo = {"mcp"} \cup call[c].tool.modules]
          ELSE End(c)
    /\ UNCHANGED <<hits, passed, directory>>

\* (What the guard of the web keeps, if it keeps anything.)
ModuleIsOnCached(k) == IF Kept(k) THEN cache[k].enabled ELSE k \in enabled

\* The modules are asked for without the cache.
ModuleIsOn(k) == k \in enabled

AskModule(c) ==
    /\ call[c].stage = "modules"
    /\ \E m \in call[c].todo :
         IF ModuleIsOn(<<call[c].organization, m>>) THEN call' = [call EXCEPT ![c].todo = @ \ {m}]
         ELSE End(c)
    /\ UNCHANGED <<hits, passed, directory>>

Authorized(c) ==
    /\ call[c].stage = "modules" /\ call[c].todo = {}
    /\ LET permission == call[c].tool.permission
       IN IF permission = NoPermission \/ HasPermission(PermissionsOf[call[c].role], permission)
          THEN Stage(c, "run") ELSE End(c)
    /\ UNCHANGED <<hits, passed, directory>>

Run(c) ==
    /\ call[c].stage = "run"
    /\ End(c)
    /\ UNCHANGED <<hits, passed, directory>>

\* The calls of a set of requests.
Connect(requests) ==
    /\ \E c \in Callers :
         \/ \E q \in requests : Receive(c, q)
         \/ ThrottleUser(c) \/ MissesScope(c) \/ Dispatch(c)
         \/ ReadMemberships(c) \/ AskCandidate(c) \/ PickCandidate(c) \/ Resolve(c)
         \/ AskModule(c) \/ Authorized(c) \/ Run(c)
    /\ UNCHANGED accessVars

\* The members with a row written.
Put(k, row) == [x \in DOMAIN member \cup {k} |-> IF x = k THEN row ELSE member[x]]

\* Memberships come and go (member.service.ts).
Join(k, role) ==
    /\ k \notin DOMAIN member
    /\ member' = Put(k, [role |-> role, scope |-> Everywhere])
    /\ UNCHANGED <<hits, passed, left, active, stopped, call>> /\ UNCHANGED accessVars

LeaveOrganization(k) ==
    /\ k \in DOMAIN member
    /\ member' = Restrict(member, DOMAIN member \ {k})
    /\ left' = [left EXCEPT ![k] = now]
    /\ UNCHANGED <<hits, passed, active, stopped, call>> /\ UNCHANGED accessVars

\* Organisations are deactivated and activated again (organization.service.ts).
Deactivate(o) ==
    /\ o \in active
    /\ active' = active \ {o}
    /\ stopped' = [stopped EXCEPT ![o] = now]
    /\ UNCHANGED <<hits, passed, member, left, call>> /\ UNCHANGED accessVars

Activate(o) ==
    /\ o \notin active
    /\ active' = active \cup {o}
    /\ UNCHANGED <<hits, passed, member, left, stopped, call>> /\ UNCHANGED accessVars

ConnectorInit(members) ==
    /\ hits = <<>>
    /\ passed = [p \in Subjects |-> <<>>]
    /\ member = members
    /\ left = [k \in Memberships |-> 0]
    /\ active = Organizations
    /\ stopped = [o \in Organizations |-> 0]
    /\ call = [c \in Callers |-> Free]

\* Any calls, while members, organisations and modules change.
ConnectorNext ==
    \/ Connect(ToolCalls)
    \/ \E k \in Memberships : (\E role \in RoleKeys : Join(k, role)) \/ LeaveOrganization(k)
    \/ \E o \in Organizations : Deactivate(o) \/ Activate(o)
    \/ AccessNext /\ UNCHANGED connectorVars

-----------------------------------------------------------------------------
ConnectorTypeOK ==
    /\ DOMAIN hits \subseteq Subjects \X {"min", "day"}
    /\ \A k \in DOMAIN hits : hits[k] \in Seq(0 .. now)
    /\ \A p \in Subjects : passed[p] \in Seq(0 .. now)
    /\ DOMAIN member \subseteq Memberships
    /\ \A k \in DOMAIN member : member[k].role \in RoleKeys
    /\ left \in [Memberships -> 0 .. now]
    /\ active \subseteq Organizations /\ stopped \in [Organizations -> 0 .. now]
    /\ \A c \in Callers : call[c] # Free =>
         /\ call[c].stage \in {"token", "dispatch", "memberships", "candidates", "resolve",
                               "modules", "run"}
         /\ call[c].organization \in Organizations \cup {NoOrganization}
         /\ call[c].role \in {"none"} \cup RoleKeys

\* The prefixes the limiter knows or has let a call of through.
Counted == {k[1] : k \in DOMAIN hits} \cup {p \in Subjects : passed[p] # <<>>}

\* Calls of prefix p let through after time s and up to time t.
PassedBetween(p, s, t) == Len(After(passed[p], s)) - Len(After(passed[p], t))

\* No caller passes more calls than the limit in any minute, nor writes in any
\* day, wherever the minute or the day begins, though the limiter forgets.
WindowsHold ==
    \A p \in Counted : \A t \in 0 .. now :
        /\ PassedBetween(p, t - Minute, t) <= LimitOf[p.kind]
        /\ p.kind = "write" => PassedBetween(p, t - Day, t) <= DailyWrites

\* "Si no pasa, no consume cupo" (mcp-rate-limiter.service.ts:36): what counts
\* in each window is exactly the calls that were let through.
RefusalsConsumeNothing ==
    \A p \in Counted : \A w \in Windows(p.kind) :
        Recent(hits, p, w, now) = After(passed[p], now - w.ms)

\* A caller told to try again in some seconds is let through then if it has
\* waited, however many windows it had filled.
RetryIsEnough ==
    \A p \in Counted :
        ~Allowed(hits, p, now) =>
            Full(hits, p, now + Second * RetryAfterSeconds(hits, p, now)) = {}

\* The limiter lets through what it promises and no more, counts it in every
\* window or in none, and tells who is refused when to return.
LimiterIsExact ==
    AccessTypeOK /\ ConnectorTypeOK /\ WindowsHold /\ RefusalsConsumeNothing /\ RetryIsEnough

\* "Deshabilitar corta al instante" (tool-dispatcher.service.ts:143): no call
\* that comes after a module was disabled, the user left or the organisation
\* was deactivated, runs.
RunsWhatIsOn ==
    \A c \in Callers :
        call[c].stage = "modules" /\ call'[c] # Free /\ call'[c].stage = "run" =>
            /\ \A m \in {"mcp"} \cup call[c].tool.modules :
                 LET k == <<call[c].organization, m>>
                 IN k \in enabled \/ changed[k] >= call[c].since
            /\ LET k == <<call[c].user, call[c].organization>>
               IN /\ k \in DOMAIN member \/ left[k] >= call[c].since
                  /\ k[2] \in active \/ stopped[k[2]] >= call[c].since
CutAtOnce == [][RunsWhatIsOn]_<<accessVars, connectorVars>>
=============================================================================
