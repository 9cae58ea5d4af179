---------------------------- MODULE ModuleAccess ----------------------------
(***************************************************************************)
(* The organisations and the modules each has enabled: the superadmin's    *)
(* toggles, with the dependencies between modules, and the guard of the    *)
(* web, which keeps each answer for a time.  A pair is an organisation and *)
(* a module.                                                               *)
(*                                                                         *)
(* An operator described in parentheses is a slip of the one it precedes:  *)
(* no specification uses it.                                               *)
(***************************************************************************)
EXTENDS Integers, FiniteSets

CONSTANTS Organizations, Modules,
          RequiredBy,   \* MODULE_DEPENDENCIES: what a module requires
          DefaultModules,
          Lookups,      \* requests whose guard is asking the database
          Ttl,          \* CACHE_TTL_MS, in ticks
          MaxLookup,    \* the ticks a lookup lasts at most
          LastTick,
          Idle

ASSUME AccessAssumption ==
    /\ RequiredBy \in [Modules -> SUBSET Modules] /\ DefaultModules \subseteq Modules
    /\ \A m \in DefaultModules : RequiredBy[m] \subseteq DefaultModules
    /\ Ttl \in Nat \ {0} /\ MaxLookup \in Nat /\ LastTick \in Nat

Pairs == Organizations \X Modules

VARIABLES now,
          created,  \* the organisations there are
          enabled,  \* the pairs whose row has no disabled_at
          cache,    \* the guard's answers: a function on the pairs it has asked for
          lookup,   \* what a guard has read and not yet kept
          toggle,   \* a toggle checked and not yet written
          changed   \* when each pair was last written

accessVars == <<now, created, enabled, cache, lookup, toggle, changed>>

-----------------------------------------------------------------------------
\* OrganizationService.create: with its default modules, in one transaction.
CreateOrganization(o) ==
    /\ o \notin created
    /\ created' = created \cup {o}
    /\ enabled' = enabled \cup ({o} \X DefaultModules)
    /\ changed' = [k \in Pairs |-> IF k \in enabled' \ enabled THEN now ELSE changed[k]]
    /\ UNCHANGED <<now, cache, lookup, toggle>>

\* enableModule: what the module requires is enabled.
MayEnable(o, m) == \A n \in RequiredBy[m] : <<o, n>> \in enabled

\* (Nobody asks who depends on it.)
MayDisableAny(o, m) == <<o, m>> \in enabled

\* disableModule: it is enabled, and nothing enabled depends on it.
MayDisable(o, m) ==
    /\ <<o, m>> \in enabled
    /\ \A n \in Modules : m \in RequiredBy[n] => <<o, n>> \notin enabled

\* The checks of a toggle are made before the transaction that writes it.
BeginToggle(o, m, on) ==
    /\ toggle = Idle /\ o \in created
    /\ IF on THEN MayEnable(o, m) ELSE MayDisable(o, m)
    /\ toggle' = [pair |-> <<o, m>>, on |-> on]
    /\ UNCHANGED <<now, created, enabled, cache, lookup, changed>>

CommitToggle ==
    /\ toggle # Idle
    /\ enabled' = IF toggle.on THEN enabled \cup {toggle.pair} ELSE enabled \ {toggle.pair}
    /\ changed' = IF enabled' # enabled THEN [changed EXCEPT ![toggle.pair] = now] ELSE changed
    /\ toggle' = Idle
    /\ UNCHANGED <<now, created, cache, lookup>>

-----------------------------------------------------------------------------
\* (An answer is kept through its last tick.)
KeptThrough(k) == k \in DOMAIN cache /\ cache[k].expiresAt >= now

\* isEnabledCached answers from the cache while the answer lasts.
Kept(k) == k \in DOMAIN cache /\ cache[k].expiresAt > now

GuardAsks(r, k) ==
    /\ lookup[r] = Idle /\ k[1] \in created /\ ~Kept(k)
    /\ lookup' = [lookup EXCEPT ![r] = [pair |-> k, enabled |-> k \in enabled, at |-> now]]
    /\ UNCHANGED <<now, created, enabled, cache, toggle, changed>>

\* The answer lasts from when it is kept, not from when it was read.
GuardKeeps(r) ==
    /\ lookup[r] # Idle
    /\ LET answer == [enabled |-> lookup[r].enabled, expiresAt |-> now + Ttl]
       IN cache' = [k \in DOMAIN cache \cup {lookup[r].pair} |->
                       IF k = lookup[r].pair THEN answer ELSE cache[k]]
    /\ lookup' = [lookup EXCEPT ![r] = Idle]
    /\ UNCHANGED <<now, created, enabled, toggle, changed>>

Tick ==
    /\ now < LastTick
    /\ \A r \in Lookups : lookup[r] # Idle => now < lookup[r].at + MaxLookup
    /\ now' = now + 1
    /\ UNCHANGED <<created, enabled, cache, lookup, toggle, changed>>

Administer ==
    \/ \E o \in Organizations : CreateOrganization(o)
    \/ \E o \in Organizations, m \in Modules, on \in BOOLEAN : BeginToggle(o, m, on)
    \/ CommitToggle

Guard == \E r \in Lookups : GuardKeeps(r) \/ \E k \in Pairs : GuardAsks(r, k)

AccessNext == Administer \/ Guard \/ Tick

\* Some organisations are there, with their default modules.
AccessInit(organizations) ==
    /\ now = 0
    /\ created = organizations
    /\ enabled = organizations \X DefaultModules
    /\ cache = <<>>
    /\ lookup = [r \in Lookups |-> Idle]
    /\ toggle = Idle
    /\ changed = [k \in Pairs |-> 0]

AccessSpec == (\E orgs \in SUBSET Organizations : AccessInit(orgs)) /\ [][AccessNext]_accessVars

-----------------------------------------------------------------------------
AccessTypeOK ==
    /\ now \in 0 .. LastTick
    /\ created \subseteq Organizations
    /\ enabled \subseteq created \X Modules
    /\ DOMAIN cache \subseteq Pairs
    /\ \A k \in DOMAIN cache :
         cache[k] \in [enabled : BOOLEAN, expiresAt : 0 .. LastTick + Ttl]
    /\ \A r \in Lookups : lookup[r] # Idle =>
         lookup[r] \in [pair : Pairs, enabled : BOOLEAN, at : 0 .. now]
    /\ toggle # Idle => toggle \in [pair : Pairs, on : BOOLEAN]
    /\ changed \in [Pairs -> 0 .. now]

\* A module is enabled only with what it requires, as long as one toggle is
\* made at a time (module-enablement.service.ts, the dependency rules).
DependenciesEnabled ==
    \A o \in Organizations, m \in Modules, n \in Modules :
        <<o, m>> \in enabled /\ n \in RequiredBy[m] => <<o, n>> \in enabled

\* "A superadmin toggle may take up to this long to propagate"
\* (module-enabled.guard.ts:13): the guard never answers with a value that has
\* not been true for longer than the time an answer lasts and the lookup that
\* was under way when it changed, whatever lookups overwrite each other's answers.
GuardFollowsToggles ==
    \A k \in DOMAIN cache :
        Kept(k) /\ cache[k].enabled # (k \in enabled) => now - changed[k] < Ttl + MaxLookup
=============================================================================
