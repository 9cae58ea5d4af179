---------------------------- MODULE AccessProofs ----------------------------
(***************************************************************************)
(* Proofs about what surrounds planning, for any organisations, modules,   *)
(* people, requests and events: the modules and their guard, who signs in, *)
(* what the assistant costs, how audit events are listed, and the two      *)
(* doors of the system, the web and the connector, with what the tools and *)
(* the handlers of members, modules and organisations do through them: for *)
(* every set of users, calls and tools, every limit, window and time, and  *)
(* any members to begin with.                                              *)
(*                                                                         *)
(* Each part is about the specification of one module; the doors are that  *)
(* of Members.  The sums of tokens rest on the facts of OkrDomainProofs.   *)
(***************************************************************************)
EXTENDS Members, UserSync, AiCopilot, AuditTrail, OkrDomainProofs, SequenceTheorems

-----------------------------------------------------------------------------
(***************************************************************************)
(* ModuleAccess: the modules of an organisation, and the guard of the web. *)
(***************************************************************************)

\* An organisation and a module make a pair, and the other way round.
LEMMA PairParts ==
    /\ \A o \in Organizations, m \in Modules : <<o, m>> \in Pairs
    /\ \A k \in Pairs : k[1] \in Organizations /\ k[2] \in Modules /\ k = <<k[1], k[2]>>
BY DEF Pairs

-----------------------------------------------------------------------------
(***************************************************************************)
(* Types, of what the other invariants need.                               *)
(***************************************************************************)
Types ==
    /\ now \in 0 .. LastTick
    /\ created \subseteq Organizations
    /\ enabled \subseteq created \X Modules
    /\ DOMAIN cache \subseteq Pairs
    /\ \A k \in DOMAIN cache :
         cache[k] \in [enabled : BOOLEAN, expiresAt : 0 .. LastTick + Ttl]
    /\ lookup = [r \in Lookups |-> lookup[r]]
    /\ \A r \in Lookups : lookup[r] # Idle =>
         lookup[r] \in [pair : Pairs, enabled : BOOLEAN, at : 0 .. now]
    /\ toggle # Idle => toggle \in [pair : Pairs, on : BOOLEAN]
    /\ toggle # Idle => toggle.pair[1] \in created
    /\ changed \in [Pairs -> 0 .. now]

\* It begins right.
LEMMA InitTypes == ASSUME NEW orgs \in SUBSET Organizations, AccessInit(orgs) PROVE Types
<1>1. now \in 0 .. LastTick /\ 0 \in 0 .. now
  BY AccessAssumption DEF AccessInit
<1>2. enabled \subseteq created \X Modules
  BY AccessAssumption DEF AccessInit
<1>3. DOMAIN cache = {}
  BY DEF AccessInit
<1>4. /\ lookup = [r \in Lookups |-> lookup[r]]
      /\ \A r \in Lookups : lookup[r] = Idle
  BY DEF AccessInit
<1> QED
  BY <1>1, <1>2, <1>3, <1>4 DEF AccessInit, Types

\* And every step keeps it so.
LEMMA NextTypes == ASSUME Types, [AccessNext]_accessVars PROVE Types'
<1>1. ASSUME NEW o \in Organizations, CreateOrganization(o) PROVE Types'
  <2>1. created' \subseteq Organizations /\ created \subseteq created'
    BY <1>1 DEF CreateOrganization, Types
  <2>2. enabled' \subseteq created' \X Modules
    BY <1>1, AccessAssumption DEF CreateOrganization, Types
  <2>3. changed' \in [Pairs -> 0 .. now']
    BY <1>1, AccessAssumption DEF CreateOrganization, Types
  <2> QED
    BY <1>1, <2>1, <2>2, <2>3 DEF CreateOrganization, Types
<1>2. ASSUME NEW o \in Organizations, NEW m \in Modules, NEW on \in BOOLEAN, BeginToggle(o, m, on)
      PROVE  Types'
  <2>1. toggle' \in [pair : Pairs, on : BOOLEAN] /\ toggle'.pair[1] \in created'
    BY <1>2, PairParts DEF BeginToggle
  <2> QED
    BY <1>2, <2>1 DEF BeginToggle, Types
<1>3. CASE CommitToggle
  <2>1. toggle.pair \in Pairs /\ toggle.pair[1] \in created
    BY <1>3 DEF CommitToggle, Types
  <2>2. toggle.pair \in created \X Modules
    BY <2>1, PairParts
  <2>3. enabled' \subseteq created' \X Modules
    BY <1>3, <2>2 DEF CommitToggle, Types
  <2>4. changed' \in [Pairs -> 0 .. now']
    BY <1>3, <2>1, AccessAssumption DEF CommitToggle, Types
  <2> QED
    BY <1>3, <2>3, <2>4 DEF CommitToggle, Types
<1>4. ASSUME NEW r \in Lookups, NEW k \in Pairs, GuardAsks(r, k) PROVE Types'
  <2>1. [pair |-> k, enabled |-> k \in enabled, at |-> now]
          \in [pair : Pairs, enabled : BOOLEAN, at : 0 .. now]
    BY AccessAssumption DEF Types
  <2>2. lookup' = [s \in Lookups |-> lookup'[s]]
    BY <1>4 DEF GuardAsks, Types
  <2>3. \A s \in Lookups : lookup'[s] = IF s = r THEN [pair |-> k, enabled |-> k \in enabled, at |-> now]
                                        ELSE lookup[s]
    BY <1>4 DEF GuardAsks, Types
  <2>4. \A s \in Lookups : lookup'[s] # Idle =>
          lookup'[s] \in [pair : Pairs, enabled : BOOLEAN, at : 0 .. now]
    BY <2>1, <2>3 DEF Types
  <2> QED
    BY <1>4, <2>2, <2>4 DEF GuardAsks, Types
<1>5. ASSUME NEW r \in Lookups, GuardKeeps(r) PROVE Types'
  <2> DEFINE answer == [enabled |-> lookup[r].enabled, expiresAt |-> now + Ttl]
  <2>1. lookup[r] \in [pair : Pairs, enabled : BOOLEAN, at : 0 .. now]
    BY <1>5 DEF GuardKeeps, Types
  <2>2. answer \in [enabled : BOOLEAN, expiresAt : 0 .. LastTick + Ttl]
    BY <2>1, AccessAssumption DEF Types
  <2>3. cache' = [k \in DOMAIN cache \cup {lookup[r].pair} |->
                     IF k = lookup[r].pair THEN answer ELSE cache[k]]
    BY <1>5 DEF GuardKeeps
  <2>4. /\ DOMAIN cache' \subseteq Pairs
        /\ \A k \in DOMAIN cache' :
             cache'[k] \in [enabled : BOOLEAN, expiresAt : 0 .. LastTick + Ttl]
    BY <2>1, <2>2, <2>3 DEF Types
  <2>5. lookup' = [s \in Lookups |-> lookup'[s]]
    BY <1>5 DEF GuardKeeps, Types
  <2>6. \A s \in Lookups : lookup'[s] = IF s = r THEN Idle ELSE lookup[s]
    BY <1>5 DEF GuardKeeps, Types
  <2> QED
    BY <1>5, <2>4, <2>5, <2>6 DEF GuardKeeps, Types
<1>6. CASE Tick
  <2>1. now' \in 0 .. LastTick /\ 0 .. now \subseteq 0 .. now'
    BY <1>6, AccessAssumption DEF Tick, Types
  <2>2. changed' \in [Pairs -> 0 .. now']
    BY <1>6, <2>1 DEF Tick, Types
  <2>3. \A s \in Lookups : lookup'[s] # Idle =>
          lookup'[s] \in [pair : Pairs, enabled : BOOLEAN, at : 0 .. now']
    BY <1>6, <2>1 DEF Tick, Types
  <2> QED
    BY <1>6, <2>1, <2>2, <2>3 DEF Tick, Types
<1>7. CASE UNCHANGED accessVars
  BY <1>7 DEF accessVars, Types
<1> QED
  BY <1>1, <1>2, <1>3, <1>4, <1>5, <1>6, <1>7 DEF AccessNext, Administer, Guard

-----------------------------------------------------------------------------
(***************************************************************************)
(* Dependencies: what a pending toggle was allowed by still holds when it  *)
(* is written, because it is the only one.                                 *)
(***************************************************************************)
ToggleStillAllowed ==
    toggle # Idle =>
        IF toggle.on THEN MayEnable(toggle.pair[1], toggle.pair[2])
        ELSE MayDisable(toggle.pair[1], toggle.pair[2])

DependencyInv == Types /\ DependenciesEnabled /\ ToggleStillAllowed

\* An organisation that is created changes the modules of no other.
LEMMA OthersStay ==
    ASSUME Types, NEW o \in Organizations, CreateOrganization(o),
           NEW p \in created, NEW m \in Modules
    PROVE  <<p, m>> \in enabled' <=> <<p, m>> \in enabled
BY DEF CreateOrganization, Types

\* Every toggle keeps the dependencies.
LEMMA NextDependencies ==
    ASSUME DependencyInv, [AccessNext]_accessVars PROVE DependencyInv'
<1> USE DEF DependencyInv
<1>0. Types'
  BY NextTypes
<1>1. ASSUME NEW o \in Organizations, CreateOrganization(o) PROVE DependencyInv'
  <2>1. ASSUME NEW p \in Organizations, NEW m \in Modules, NEW n \in Modules,
               <<p, m>> \in enabled', n \in RequiredBy[m]
        PROVE  <<p, n>> \in enabled'
    <3>1. CASE p = o
      <4>1. <<o, m>> \notin enabled
        BY <1>1 DEF CreateOrganization, Types
      <4>2. m \in DefaultModules
        BY <1>1, <2>1, <3>1, <4>1 DEF CreateOrganization
      <4>3. n \in DefaultModules
        BY <2>1, <4>2, AccessAssumption
      <4> QED
        BY <1>1, <3>1, <4>3 DEF CreateOrganization
    <3>2. CASE p # o
      <4>1. <<p, m>> \in enabled
        BY <1>1, <2>1, <3>2 DEF CreateOrganization
      <4> QED
        BY <1>1, <2>1, <4>1 DEF CreateOrganization, DependenciesEnabled
    <3> QED
      BY <3>1, <3>2
  <2>2. ToggleStillAllowed'
    <3> SUFFICES ASSUME toggle # Idle
                 PROVE  ToggleStillAllowed'
      BY <1>1 DEF CreateOrganization, ToggleStillAllowed
    <3>1. /\ toggle' = toggle /\ toggle.on \in BOOLEAN
          /\ toggle.pair[1] \in created /\ toggle.pair[2] \in Modules
      BY <1>1, PairParts DEF CreateOrganization, Types
    <3>2. \A n \in Modules : <<toggle.pair[1], n>> \in enabled' <=> <<toggle.pair[1], n>> \in enabled
      BY <1>1, <3>1, OthersStay
    <3>3. RequiredBy[toggle.pair[2]] \subseteq Modules
      BY <3>1, AccessAssumption
    <3> QED
      BY <3>1, <3>2, <3>3 DEF ToggleStillAllowed, MayEnable, MayDisable
  <2> QED
    BY <1>0, <2>1, <2>2 DEF DependenciesEnabled
<1>2. ASSUME NEW o \in Organizations, NEW m \in Modules, NEW on \in BOOLEAN, BeginToggle(o, m, on)
      PROVE  DependencyInv'
  <2>1. toggle'.pair[1] = o /\ toggle'.pair[2] = m /\ toggle'.on = on
    BY <1>2 DEF BeginToggle
  <2>2. ToggleStillAllowed'
    BY <1>2, <2>1 DEF BeginToggle, ToggleStillAllowed, MayEnable, MayDisable
  <2> QED
    BY <1>0, <1>2, <2>2 DEF BeginToggle, DependenciesEnabled
<1>3. CASE CommitToggle
  <2>1. /\ toggle.pair \in Pairs /\ toggle.on \in BOOLEAN
        /\ toggle.pair = <<toggle.pair[1], toggle.pair[2]>>
    BY <1>3, PairParts DEF CommitToggle, Types
  <2>2. ASSUME NEW p \in Organizations, NEW m \in Modules, NEW n \in Modules,
               <<p, m>> \in enabled', n \in RequiredBy[m]
        PROVE  <<p, n>> \in enabled'
    <3>1. CASE toggle.on
      BY <1>3, <2>1, <2>2, <3>1 DEF CommitToggle, ToggleStillAllowed, MayEnable, DependenciesEnabled
    <3>2. CASE ~toggle.on
      BY <1>3, <2>1, <2>2, <3>2 DEF CommitToggle, ToggleStillAllowed, MayDisable, DependenciesEnabled
    <3> QED
      BY <3>1, <3>2
  <2>3. ToggleStillAllowed'
    BY <1>3 DEF CommitToggle, ToggleStillAllowed
  <2> QED
    BY <1>0, <2>2, <2>3 DEF DependenciesEnabled
<1>4. ASSUME UNCHANGED <<enabled, toggle>> PROVE DependencyInv'
  BY <1>0, <1>4 DEF DependenciesEnabled, ToggleStillAllowed, MayEnable, MayDisable
<1>5. (Guard \/ Tick \/ UNCHANGED accessVars) => UNCHANGED <<enabled, toggle>>
  BY DEF Guard, GuardAsks, GuardKeeps, Tick, accessVars
<1> QED
  BY <1>1, <1>2, <1>3, <1>4, <1>5 DEF AccessNext, Administer

\* However organisations are created and modules toggled, one toggle at a time,
\* a module is enabled only with every module it requires
\* (module-enablement.service.ts: enableModule, disableModule).
THEOREM Dependencies == AccessSpec => []DependenciesEnabled
<1>1. ASSUME NEW orgs \in SUBSET Organizations, AccessInit(orgs) PROVE DependencyInv
  <2>1. DependenciesEnabled
    BY <1>1, AccessAssumption DEF AccessInit, DependenciesEnabled
  <2>2. ToggleStillAllowed
    BY <1>1 DEF AccessInit, ToggleStillAllowed
  <2> QED
    BY <1>1, <2>1, <2>2, InitTypes DEF DependencyInv
<1>2. (\E orgs \in SUBSET Organizations : AccessInit(orgs)) => DependencyInv
  BY <1>1
<1>3. DependencyInv /\ [AccessNext]_accessVars => DependencyInv'
  BY NextDependencies
<1>4. DependencyInv => DependenciesEnabled
  BY DEF DependencyInv
<1> QED
  BY <1>2, <1>3, <1>4, PTL DEF AccessSpec

-----------------------------------------------------------------------------
(***************************************************************************)
(* The answers of the guard.  An answer that is no longer true was read    *)
(* before the module was toggled, and kept by a lookup that lasted no      *)
(* longer than MaxLookup.                                                  *)
(***************************************************************************)
LookupsAreShort == \A r \in Lookups : lookup[r] # Idle => now <= lookup[r].at + MaxLookup

LookupsPrecedeChanges ==
    \A r \in Lookups :
        lookup[r] # Idle /\ lookup[r].enabled # (lookup[r].pair \in enabled) =>
            lookup[r].at <= changed[lookup[r].pair]

AnswersAreRecent == \A k \in DOMAIN cache : cache[k].expiresAt <= now + Ttl

StaleAnswersExpire ==
    \A k \in DOMAIN cache :
        cache[k].enabled # (k \in enabled) => cache[k].expiresAt <= changed[k] + Ttl + MaxLookup

GuardInv ==
    /\ Types
    /\ LookupsAreShort /\ LookupsPrecedeChanges
    /\ AnswersAreRecent /\ StaleAnswersExpire

\* A change of the modules dates what it changes, and nothing else.
LEMMA ChangesAreDated ==
    ASSUME GuardInv, UNCHANGED <<now, cache, lookup>>, changed' \in [Pairs -> 0 .. now],
           \A k \in Pairs : IF (k \in enabled') # (k \in enabled) THEN changed'[k] = now
                            ELSE changed'[k] \in {changed[k], now},
           Types'
    PROVE  GuardInv'
<1> USE DEF GuardInv
<1>1. \A k \in Pairs : changed[k] \in 0 .. now /\ changed[k] <= changed'[k] /\ now \in Int
  BY DEF Types
<1>2. LookupsAreShort' /\ AnswersAreRecent'
  BY DEF LookupsAreShort, AnswersAreRecent
<1>3. LookupsPrecedeChanges'
  <2> SUFFICES ASSUME NEW r \in Lookups, lookup[r] # Idle,
                      lookup[r].enabled # (lookup[r].pair \in enabled')
               PROVE  lookup[r].at <= changed'[lookup[r].pair]
    BY DEF LookupsPrecedeChanges
  <2>1. lookup[r].pair \in Pairs /\ lookup[r].at \in 0 .. now /\ lookup[r].enabled \in BOOLEAN
    BY DEF Types
  <2>2. CASE (lookup[r].pair \in enabled') # (lookup[r].pair \in enabled)
    BY <2>1, <2>2, <1>1
  <2>3. CASE (lookup[r].pair \in enabled') = (lookup[r].pair \in enabled)
    <3>1. lookup[r].at <= changed[lookup[r].pair]
      BY <2>3 DEF LookupsPrecedeChanges
    <3> QED
      BY <2>1, <3>1, <1>1
  <2> QED
    BY <2>2, <2>3
<1>4. StaleAnswersExpire'
  <2> SUFFICES ASSUME NEW k \in DOMAIN cache, cache[k].enabled # (k \in enabled')
               PROVE  cache[k].expiresAt <= changed'[k] + Ttl + MaxLookup
    BY DEF StaleAnswersExpire
  <2>1. k \in Pairs /\ cache[k].expiresAt \in Int /\ cache[k].expiresAt <= now + Ttl
    BY DEF Types, AnswersAreRecent
  <2>2. changed[k] \in Int /\ changed'[k] \in Int /\ Ttl \in Int /\ MaxLookup \in Nat /\ now \in Int
    BY <2>1, AccessAssumption DEF Types
  <2>3. CASE (k \in enabled') # (k \in enabled)
    BY <2>1, <2>2, <2>3
  <2>4. CASE (k \in enabled') = (k \in enabled)
    <3>1. cache[k].expiresAt <= changed[k] + Ttl + MaxLookup
      BY <2>4 DEF StaleAnswersExpire
    <3> QED
      BY <2>1, <2>2, <3>1, <1>1
  <2> QED
    BY <2>3, <2>4
<1> QED
  BY <1>2, <1>3, <1>4

\* Every step keeps what a stale answer rests on.
LEMMA NextGuard == ASSUME GuardInv, [AccessNext]_accessVars PROVE GuardInv'
<1> USE DEF GuardInv
<1>0. Types'
  BY NextTypes
<1>1. ASSUME NEW o \in Organizations, CreateOrganization(o) PROVE GuardInv'
  <2>1. changed' = [k \in Pairs |-> IF k \in enabled' \ enabled THEN now ELSE changed[k]]
    BY <1>1 DEF CreateOrganization
  <2>2. changed' \in [Pairs -> 0 .. now] /\ enabled \subseteq enabled'
    BY <1>0, <1>1 DEF CreateOrganization, Types
  <2> QED
    BY <1>0, <1>1, <2>1, <2>2, ChangesAreDated DEF CreateOrganization
<1>2. CASE CommitToggle
  <2>1. toggle.pair \in Pairs
    BY <1>2 DEF CommitToggle, Types
  <2>2. changed' \in [Pairs -> 0 .. now]
    BY <1>0, <1>2 DEF CommitToggle, Types
  <2>3. \A k \in Pairs : k # toggle.pair =>
          (k \in enabled' <=> k \in enabled) /\ changed'[k] = changed[k]
    BY <1>2 DEF CommitToggle, Types
  <2>4. (toggle.pair \in enabled') # (toggle.pair \in enabled) => changed'[toggle.pair] = now
    BY <1>2, <2>1 DEF CommitToggle, Types
  <2>5. changed'[toggle.pair] \in {changed[toggle.pair], now}
    BY <1>2, <2>1 DEF CommitToggle, Types
  <2> QED
    BY <1>0, <1>2, <2>2, <2>3, <2>4, <2>5, ChangesAreDated DEF CommitToggle
<1>3. ASSUME NEW r \in Lookups, NEW k \in Pairs, GuardAsks(r, k) PROVE GuardInv'
  <2>1. \A s \in Lookups : lookup'[s] = IF s = r THEN [pair |-> k, enabled |-> k \in enabled, at |-> now]
                                        ELSE lookup[s]
    BY <1>3 DEF GuardAsks, Types
  <2>2. now \in Int /\ MaxLookup \in Nat
    BY AccessAssumption DEF Types
  <2>3. LookupsAreShort'
    BY <1>3, <2>1, <2>2 DEF GuardAsks, LookupsAreShort
  <2>4. LookupsPrecedeChanges'
    BY <1>3, <2>1 DEF GuardAsks, LookupsPrecedeChanges
  <2>5. AnswersAreRecent' /\ StaleAnswersExpire'
    BY <1>3 DEF GuardAsks, AnswersAreRecent, StaleAnswersExpire
  <2> QED
    BY <1>0, <2>3, <2>4, <2>5
<1>4. ASSUME NEW r \in Lookups, GuardKeeps(r) PROVE GuardInv'
  <2>1. \A s \in Lookups : lookup'[s] = IF s = r THEN Idle ELSE lookup[s]
    BY <1>4 DEF GuardKeeps, Types
  <2>2. LookupsAreShort' /\ LookupsPrecedeChanges'
    BY <1>4, <2>1 DEF GuardKeeps, LookupsAreShort, LookupsPrecedeChanges
  <2>3. lookup[r] \in [pair : Pairs, enabled : BOOLEAN, at : 0 .. now]
    BY <1>4 DEF GuardKeeps, Types
  <2>4. \A k \in DOMAIN cache' : \/ /\ k = lookup[r].pair
                                    /\ cache'[k] = [enabled |-> lookup[r].enabled, expiresAt |-> now + Ttl]
                                 \/ k \in DOMAIN cache /\ cache'[k] = cache[k]
    BY <1>4 DEF GuardKeeps
  <2>5. now \in Int /\ MaxLookup \in Nat /\ Ttl \in Nat
    BY AccessAssumption DEF Types
  <2>6. AnswersAreRecent'
    BY <1>4, <2>4, <2>5 DEF GuardKeeps, AnswersAreRecent
  <2>7. ASSUME NEW k \in DOMAIN cache', cache'[k].enabled # (k \in enabled)
        PROVE  cache'[k].expiresAt <= changed[k] + Ttl + MaxLookup
    <3>1. CASE k \in DOMAIN cache /\ cache'[k] = cache[k]
      BY <2>7, <3>1 DEF StaleAnswersExpire
    <3>2. CASE /\ k = lookup[r].pair
               /\ cache'[k] = [enabled |-> lookup[r].enabled, expiresAt |-> now + Ttl]
      <4>1. lookup[r].at <= changed[k] /\ now <= lookup[r].at + MaxLookup
        BY <1>4, <2>7, <3>2 DEF GuardKeeps, LookupsAreShort, LookupsPrecedeChanges
      <4>2. changed[k] \in Int /\ lookup[r].at \in Int
        BY <2>3, <3>2 DEF Types
      <4> QED
        BY <2>5, <3>2, <4>1, <4>2
    <3> QED
      BY <2>4, <3>1, <3>2
  <2>8. StaleAnswersExpire'
    BY <1>4, <2>7 DEF GuardKeeps, StaleAnswersExpire
  <2> QED
    BY <1>0, <2>2, <2>6, <2>8
<1>5. CASE Tick
  <2>1. now \in Int /\ MaxLookup \in Nat /\ Ttl \in Nat /\ now' = now + 1
    BY <1>5, AccessAssumption DEF Tick, Types
  <2>2. \A s \in Lookups : lookup[s] # Idle => lookup[s].at \in Int
    BY DEF Types
  <2>3. \A k \in DOMAIN cache : cache[k].expiresAt \in Int
    BY DEF Types
  <2>4. LookupsAreShort'
    BY <1>5, <2>1, <2>2 DEF Tick, LookupsAreShort
  <2>5. AnswersAreRecent'
    BY <1>5, <2>1, <2>3 DEF Tick, AnswersAreRecent
  <2>6. LookupsPrecedeChanges' /\ StaleAnswersExpire'
    BY <1>5 DEF Tick, LookupsPrecedeChanges, StaleAnswersExpire
  <2> QED
    BY <1>0, <2>4, <2>5, <2>6
<1>6. ASSUME UNCHANGED <<now, enabled, cache, lookup, changed>> PROVE GuardInv'
  BY <1>0, <1>6 DEF LookupsAreShort, LookupsPrecedeChanges, AnswersAreRecent, StaleAnswersExpire
<1>7. \A o \in Organizations, m \in Modules, on \in BOOLEAN :
        BeginToggle(o, m, on) => UNCHANGED <<now, enabled, cache, lookup, changed>>
  BY DEF BeginToggle
<1>8. UNCHANGED accessVars => UNCHANGED <<now, enabled, cache, lookup, changed>>
  BY DEF accessVars
<1> QED
  BY <1>1, <1>2, <1>3, <1>4, <1>5, <1>6, <1>7, <1>8 DEF AccessNext, Administer, Guard

\* Whatever guards are asking while modules are toggled, and however often they
\* overwrite each other's answers, the guard stops giving an answer that is no
\* longer true within the time an answer lasts and the longest lookup
\* (module-enabled.guard.ts: isEnabledCached).
THEOREM GuardAnswers == AccessSpec => []GuardFollowsToggles
<1>1. ASSUME NEW orgs \in SUBSET Organizations, AccessInit(orgs) PROVE GuardInv
  <2>1. DOMAIN cache = {} /\ \A r \in Lookups : lookup[r] = Idle
    BY <1>1 DEF AccessInit
  <2> QED
    BY <1>1, <2>1, InitTypes
       DEF GuardInv, LookupsAreShort, LookupsPrecedeChanges, AnswersAreRecent, StaleAnswersExpire
<1>2. (\E orgs \in SUBSET Organizations : AccessInit(orgs)) => GuardInv
  BY <1>1
<1>3. GuardInv /\ [AccessNext]_accessVars => GuardInv'
  BY NextGuard
<1>4. GuardInv => GuardFollowsToggles
  <2> SUFFICES ASSUME GuardInv, NEW k \in DOMAIN cache, Kept(k), cache[k].enabled # (k \in enabled)
               PROVE  now - changed[k] < Ttl + MaxLookup
    BY DEF GuardFollowsToggles
  <2>1. cache[k].expiresAt > now /\ cache[k].expiresAt <= changed[k] + Ttl + MaxLookup
    BY DEF GuardInv, StaleAnswersExpire, Kept
  <2>2. /\ k \in Pairs /\ now \in Int /\ changed[k] \in Int /\ cache[k].expiresAt \in Int
        /\ Ttl \in Int /\ MaxLookup \in Int
    BY AccessAssumption DEF GuardInv, Types
  <2> QED
    BY <2>1, <2>2
<1> QED
  BY <1>2, <1>3, <1>4, PTL DEF AccessSpec

-----------------------------------------------------------------------------
(***************************************************************************)
(* UserSync: the row of a request is that of its token.  Emails mean one   *)
(* person each as long as nobody takes one that a row, a token or the      *)
(* identity provider still has for somebody else.                          *)
(***************************************************************************)

\* An email speaks for a subject: at the identity provider, in a token being
\* resolved, or in a row.
Speaks(s, e) ==
    \/ emailOf[s] = e
    \/ \E r \in Logins : login[r].sub = s /\ login[r].email = e
    \/ \E i \in Ids : account[i].sub = s /\ account[i].email = e
OneVoice == \A s, t \in Identities, e \in Emails : Speaks(s, e) /\ Speaks(t, e) => s = t

UniqueRows ==
    \A i, j \in Ids : i # j =>
        /\ account[i].email # account[j].email
        /\ account[i].sub # Pending => account[i].sub # account[j].sub

\* What a request knows of the row it goes on with: it is that of its subject,
\* or a placeholder with its email.
LoginHolds(r) ==
    LET l == login[r]
    IN  /\ l.stage # "away" => l.sub \in Identities
        /\ l.stage \notin {"away", "in", "conflict"} => l.email \in Emails
        /\ l.stage \in {"refresh", "bootstrap", "promote", "in"} => l.id \in Ids /\ account[l.id].sub = l.sub
        /\ l.stage \in {"claim", "rebind"} =>
             /\ l.id \in Ids
             /\ \/ account[l.id].sub = l.sub
                \/ account[l.id].sub = Pending /\ account[l.id].email = l.email
        /\ l.stage = "reread" => WhoCameFirst(r) # {}
        /\ l.stage = "promote" => l.email = Boss /\ Superadmins \subseteq {l.id}

LoginRow == [stage : Stages, sub : Identities \cup {Nobody}, email : Emails \cup {Nobody}, id : Nat]
SyncInv ==
    /\ account \in Seq(Account) /\ emailOf \in [Identities -> Emails]
    /\ login \in [Logins -> LoginRow]
    /\ \A r \in Logins : login[r].id \in 0 .. Len(account)
    /\ invitation \in Emails \cup {Nobody}
    /\ UniqueRows /\ OneVoice
    /\ \A i, j \in Superadmins : i = j
    /\ \A r \in Logins : LoginHolds(r)

\* A row keeps its subject, and a placeholder its email until it is claimed by
\* whom the email speaks for.
Moves ==
    \A i \in Ids :
        /\ i \in Ids'
        /\ IF account[i].sub = Pending
           THEN \/ account'[i].sub = Pending /\ account'[i].email = account[i].email
                \/ account'[i].sub \in Identities /\ Speaks(account'[i].sub, account[i].email)
           ELSE account'[i].sub = account[i].sub

\* What a row holds.
LEMMA AccountTyped ==
    ASSUME SyncInv, NEW i \in Ids
    PROVE  /\ account[i] \in Account /\ account[i].email \in Emails
           /\ account[i].sub \in Identities \cup {Pending} /\ i \in 1 .. Len(account)
<1>1. account \in Seq(Account) /\ i \in DOMAIN account
  BY DEF SyncInv, Ids
<1>2. i \in 1 .. Len(account) /\ account[i] \in Account
  BY <1>1, ElementOfSeq
<1> QED
  BY <1>2 DEF Account

\* The places of rows are numbers.
LEMMA Places ==
    ASSUME SyncInv
    PROVE  /\ Len(account) \in Nat /\ 0 \in 0 .. Len(account)
           /\ \A i \in 1 .. Len(account) : i \in 0 .. Len(account)
           /\ \A i \in 0 .. Len(account) : i \in Nat
<1>1. Len(account) \in Nat
  BY DEF SyncInv
<1> QED
  BY <1>1

\* Who a request goes on as does not change under it.
LEMMA LoginKept ==
    ASSUME SyncInv, Moves, NEW r \in Logins, login'[r] = login[r],
           login[r].stage = "promote" => Superadmins' \subseteq {login[r].id}
    PROVE  LoginHolds(r)'
<1>0. PICK l : l = login[r]
  OBVIOUS
<1>1. LoginHolds(r)
  BY DEF SyncInv
<1>2. ASSUME NEW s \in Identities, l.sub \in Identities, l.email \in Emails, Speaks(s, l.email) PROVE s = l.sub
  BY <1>0, <1>2 DEF SyncInv, OneVoice, Speaks
<1>3. ASSUME l.stage \in {"refresh", "bootstrap", "promote", "in"}
      PROVE  l.id \in Ids' /\ account'[l.id].sub = l.sub
  <2>1. l.id \in Ids /\ account[l.id].sub = l.sub
    BY <1>0, <1>1, <1>3 DEF LoginHolds
  <2>3. l.sub # Pending
    BY <1>0, <1>1, <1>3, SyncAssumption DEF LoginHolds
  <2> QED
    BY <2>1, <2>3 DEF Moves
<1>4. ASSUME l.stage \in {"claim", "rebind"}
      PROVE  /\ l.id \in Ids'
             /\ \/ account'[l.id].sub = l.sub
                \/ account'[l.id].sub = Pending /\ account'[l.id].email = l.email
  <2>1. /\ l.id \in Ids /\ l.sub \in Identities /\ l.email \in Emails /\ l.sub # Pending
        /\ account[l.id].sub = l.sub \/ (account[l.id].sub = Pending /\ account[l.id].email = l.email)
    BY <1>0, <1>1, <1>4, SyncAssumption DEF LoginHolds
  <2> QED
    BY <1>2, <2>1 DEF Moves
<1>5. ASSUME l.stage = "reread" PROVE WhoCameFirst(r)' # {}
  <2>1. l.sub \in Identities /\ l.email \in Emails /\ l.sub # Pending
    BY <1>0, <1>1, <1>5, SyncAssumption DEF LoginHolds
  <2>2. PICK i \in Ids : account[i].sub = l.sub \/ account[i].email = l.email
    BY <1>0, <1>1, <1>5 DEF LoginHolds, WhoCameFirst, BySub, ByEmail
  <2>3. account[i].sub # l.sub => account[i].sub = Pending /\ account[i].email = l.email
    <3> SUFFICES ASSUME account[i].sub # Pending, account[i].email = l.email PROVE account[i].sub = l.sub
      BY <2>2
    <3>1. account[i].sub \in Identities /\ Speaks(account[i].sub, l.email)
      BY AccountTyped DEF Speaks
    <3> QED
      BY <1>2, <2>1, <3>1
  <2>4. i \in Ids' /\ (account'[i].sub = l.sub \/ account'[i].email = l.email)
    BY <1>2, <2>1, <2>3 DEF Moves
  <2> QED
    BY <1>0, <2>4 DEF WhoCameFirst, BySub, ByEmail, Ids
<1> QED
  BY <1>0, <1>1, <1>3, <1>4, <1>5 DEF LoginHolds

\* A step is right if it leaves the rows, the emails and its own request right.
LEMMA StepKeeps ==
    ASSUME SyncInv, Moves, NEW R \in SUBSET Logins, \A q \in Logins \ R : login'[q] = login[q],
           login' \in [Logins -> LoginRow],
           \A r \in R : LoginHolds(r)' /\ login'[r].id \in 0 .. Len(account'),
           account' \in Seq(Account), Len(account') >= Len(account), emailOf' \in [Identities -> Emails],
           invitation' \in Emails \cup {Nobody},
           UniqueRows', OneVoice', \A i, j \in Superadmins' : i = j,
           \A q \in Logins \ R : login[q].stage = "promote" => Superadmins' \subseteq {login[q].id}
    PROVE  SyncInv'
<1>1. \A q \in Logins : LoginHolds(q)'
  BY LoginKept
<1>2. \A q \in Logins : login'[q].id \in 0 .. Len(account')
  <2>1. Len(account) \in Nat /\ Len(account') \in Nat
    BY DEF SyncInv
  <2>2. \A q \in Logins : login[q].id \in 0 .. Len(account)
    BY DEF SyncInv
  <2> QED
    BY <2>1, <2>2
<1> QED
  BY <1>1, <1>2 DEF SyncInv

\* No new voices.
LEMMA SameVoices ==
    ASSUME OneVoice, \A s \in Identities, e \in Emails : Speaks(s, e)' => Speaks(s, e)
    PROVE  OneVoice'
<1> SUFFICES ASSUME NEW s \in Identities, NEW t \in Identities, NEW e \in Emails, Speaks(s, e)', Speaks(t, e)'
             PROVE  s = t
  BY DEF OneVoice
<1> QED
  BY DEF OneVoice

\* A step of a request that writes no row.
LEMMA LoginSteps ==
    ASSUME SyncInv, NEW r \in Logins, UNCHANGED <<account, emailOf, invitation>>, NEW l \in LoginRow,
           login' = [login EXCEPT ![r] = l], LoginHolds(r)', l.id \in 0 .. Len(account),
           l.sub \in Identities /\ l.email \in Emails => Speaks(l.sub, l.email)
    PROVE  SyncInv'
<1>1. Moves
  BY DEF Moves, Ids
<1>2. /\ login' \in [Logins -> LoginRow] /\ login'[r] = l
      /\ \A q \in Logins \ {r} : login'[q] = login[q]
  BY DEF SyncInv
<1>3. OneVoice'
  <2>1. ASSUME NEW s \in Identities, NEW e \in Emails, Speaks(s, e)' PROVE Speaks(s, e)
    BY <1>2, <2>1 DEF Speaks, Ids
  <2> QED
    BY <2>1, SameVoices DEF SyncInv
<1>4. UniqueRows' /\ UNCHANGED Superadmins
  BY DEF SyncInv, UniqueRows, Ids, Superadmins
<1>5. /\ \A i, j \in Superadmins' : i = j
      /\ \A q \in Logins \ {r} : login[q].stage = "promote" => Superadmins' \subseteq {login[q].id}
  BY <1>4 DEF SyncInv, LoginHolds
<1>6. Len(account) \in Nat
  BY DEF SyncInv
<1> QED
  <2>1. {r} \in SUBSET Logins /\ \A q \in {r} : LoginHolds(q)' /\ login'[q].id \in 0 .. Len(account')
    BY <1>2
  <2>2. /\ Len(account') >= Len(account) /\ emailOf' \in [Identities -> Emails]
        /\ invitation' \in Emails \cup {Nobody} /\ account' \in Seq(Account)
    BY <1>6 DEF SyncInv
  <2> QED
    BY <1>1, <1>2, <1>3, <1>4, <1>5, <2>1, <2>2, StepKeeps

\* Only the rows of a step that moves no voice but one already heard.
LEMMA RowWritten ==
    ASSUME SyncInv, NEW r \in Logins, NEW l, l = login[r], l.stage # "away", l.email \in Emails,
           NEW i \in Ids, NEW row \in Account,
           \/ account[i].sub = l.sub
           \/ account[i].sub = Pending /\ account[i].email = l.email,
           row.sub = l.sub, row.superadmin = account[i].superadmin,
           row.email = l.email \/ (account[i].sub = l.sub /\ row.email = account[i].email),
           Unique(i, row), account' = [account EXCEPT ![i] = row], GoTo(r, "bootstrap", i),
           UNCHANGED <<emailOf, invitation>>
    PROVE  SyncInv'
<1>1. /\ account' \in Seq(Account) /\ Len(account') = Len(account) /\ Ids' = Ids /\ account'[i] = row
      /\ \A j \in Ids \ {i} : account'[j] = account[j]
  BY ExceptSeq DEF SyncInv, Ids
<1>2. l.sub \in Identities /\ l.sub # Pending /\ l \in LoginRow
  BY SyncAssumption DEF SyncInv, LoginHolds
<1>3. i \in 0 .. Len(account) /\ i \in Nat
  BY AccountTyped DEF SyncInv
<1>4. /\ login' \in [Logins -> LoginRow]
      /\ login'[r].stage = "bootstrap" /\ login'[r].id = i
      /\ login'[r].sub = l.sub /\ login'[r].email = l.email
      /\ \A q \in Logins \ {r} : login'[q] = login[q]
  BY <1>2, <1>3 DEF SyncInv, GoTo, LoginRow, Stages
<1>5. Speaks(l.sub, l.email)
  BY DEF Speaks
<1>6. Moves
  BY <1>1, <1>2, <1>5 DEF Moves
<1>7. UniqueRows'
  <2> SUFFICES ASSUME NEW j \in Ids, NEW k \in Ids, j # k
               PROVE  /\ account'[j].email # account'[k].email
                      /\ account'[j].sub # Pending => account'[j].sub # account'[k].sub
    BY <1>1 DEF UniqueRows
  <2>1. CASE j # i /\ k # i
    BY <1>1, <2>1 DEF SyncInv, UniqueRows
  <2>2. CASE j = i
    BY <1>1, <2>2 DEF Unique
  <2>3. CASE k = i
    BY <1>1, <2>3 DEF Unique
  <2> QED
    BY <2>1, <2>2, <2>3
<1>8. OneVoice'
  <2>1. ASSUME NEW s \in Identities, NEW e \in Emails, Speaks(s, e)' PROVE Speaks(s, e)
    <3>1. CASE emailOf'[s] = e
      BY <3>1 DEF Speaks
    <3>2. CASE \E q \in Logins : login'[q].sub = s /\ login'[q].email = e
      BY <1>4, <3>2 DEF Speaks
    <3>3. CASE \E j \in Ids : account'[j].sub = s /\ account'[j].email = e
      BY <1>1, <1>5, <3>3 DEF Speaks
    <3> QED
      BY <1>1, <2>1, <3>1, <3>2, <3>3 DEF Speaks
  <2> QED
    BY <2>1, SameVoices DEF SyncInv
<1>9. Superadmins' = Superadmins
  BY <1>1 DEF Superadmins
<1>10. LoginHolds(r)'
  BY <1>1, <1>2, <1>4 DEF LoginHolds
<1>11. \A q \in Logins \ {r} : login[q].stage = "promote" => Superadmins' \subseteq {login[q].id}
  BY <1>9 DEF SyncInv, LoginHolds
<1> QED
  <2>1. {r} \in SUBSET Logins /\ \A q \in {r} : LoginHolds(q)' /\ login'[q].id \in 0 .. Len(account')
    BY <1>1, <1>3, <1>4, <1>10
  <2>2. /\ Len(account') >= Len(account) /\ emailOf' \in [Identities -> Emails]
        /\ invitation' \in Emails \cup {Nobody} /\ \A j, k \in Superadmins' : j = k
    BY <1>1, <1>9 DEF SyncInv
  <2> QED
    BY <1>1, <1>4, <1>6, <1>7, <1>8, <1>11, <2>1, <2>2, StepKeeps

\* A new row, of nobody yet or of whom the email already speaks for.
LEMMA RowAdded ==
    ASSUME SyncInv, NEW row \in Account, Unique(0, row), ~row.superadmin,
           row.sub \in Identities => Speaks(row.sub, row.email),
           account' = Append(account, row), UNCHANGED emailOf,
           \A q \in Logins : login'[q].sub = login[q].sub /\ login'[q].email = login[q].email
    PROVE  /\ account' \in Seq(Account) /\ Len(account') = Len(account) + 1
           /\ Ids' = 1 .. Len(account) + 1 /\ account'[Len(account) + 1] = row
           /\ Moves /\ UniqueRows' /\ OneVoice' /\ Superadmins' = Superadmins
<1>1. /\ account' \in Seq(Account) /\ Len(account) \in Nat /\ Len(account') = Len(account) + 1
      /\ Ids = 1 .. Len(account) /\ Ids' = 1 .. Len(account) + 1
      /\ account'[Len(account) + 1] = row
      /\ \A j \in Ids : account'[j] = account[j]
  BY DEF SyncInv, Ids
<1>2. Ids' = Ids \cup {Len(account) + 1} /\ Len(account) + 1 \notin Ids /\ 0 \notin Ids
  BY <1>1
<1>3. Moves
  BY <1>1, <1>2, AccountTyped DEF Moves
<1>4. UniqueRows'
  <2> DEFINE n == Len(account) + 1
  <2>0. Ids' = Ids \cup {n} /\ n \notin Ids /\ 0 \notin Ids /\ account'[n] = row
    BY <1>1, <1>2
  <2> HIDE DEF n
  <2> SUFFICES ASSUME NEW j \in Ids', NEW k \in Ids', j # k
               PROVE  /\ account'[j].email # account'[k].email
                      /\ account'[j].sub # Pending => account'[j].sub # account'[k].sub
    BY DEF UniqueRows
  <2>1. CASE j \in Ids /\ k \in Ids
    BY <1>1, <2>1 DEF SyncInv, UniqueRows
  <2>2. CASE j = n /\ k \in Ids
    BY <1>1, <2>0, <2>2 DEF Unique
  <2>3. CASE k = n /\ j \in Ids
    BY <1>1, <2>0, <2>3 DEF Unique
  <2> QED
    BY <2>0, <2>1, <2>2, <2>3
<1>5. OneVoice'
  <2>1. ASSUME NEW s \in Identities, NEW e \in Emails, Speaks(s, e)' PROVE Speaks(s, e)
    <3>1. CASE emailOf'[s] = e
      BY <3>1 DEF Speaks
    <3>2. CASE \E q \in Logins : login'[q].sub = s /\ login'[q].email = e
      BY <3>2 DEF Speaks
    <3>3. CASE \E j \in Ids' : account'[j].sub = s /\ account'[j].email = e
      BY <1>1, <1>2, <3>3 DEF Speaks
    <3> QED
      BY <2>1, <3>1, <3>2, <3>3 DEF Speaks
  <2> QED
    BY <2>1, SameVoices DEF SyncInv
<1>6. Superadmins' = Superadmins
  BY <1>1, <1>2 DEF Superadmins
<1> QED
  BY <1>1, <1>3, <1>4, <1>5, <1>6

\* A step of a request that only goes on.
LEMMA GoesOn ==
    ASSUME SyncInv, NEW r \in Logins, UNCHANGED <<account, emailOf, invitation>>,
           NEW stage \in Stages, NEW id \in 0 .. Len(account), GoTo(r, stage, id), LoginHolds(r)'
    PROVE  SyncInv'
<1>1. PICK l : l = [login[r] EXCEPT !.stage = stage, !.id = id]
  OBVIOUS
<1>2. login[r] \in LoginRow /\ Len(account) \in Nat
  BY DEF SyncInv
<1>3. l \in LoginRow /\ l.id = id /\ l.sub = login[r].sub /\ l.email = login[r].email
  <2>1. id \in Nat
    BY <1>2
  <2>2. PICK k : k = login[r] /\ k \in LoginRow
    BY <1>2
  <2>3. k.sub \in Identities \cup {Nobody} /\ k.email \in Emails \cup {Nobody}
    BY <2>2 DEF LoginRow
  <2>4. l = [stage |-> stage, sub |-> k.sub, email |-> k.email, id |-> id]
    BY <1>1, <2>2 DEF LoginRow
  <2> QED
    BY <2>1, <2>2, <2>3, <2>4 DEF LoginRow
<1>4. login' = [login EXCEPT ![r] = l]
  BY <1>1 DEF GoTo
<1>5. l.sub \in Identities /\ l.email \in Emails => Speaks(l.sub, l.email)
  BY <1>3 DEF Speaks
<1> QED
  BY <1>3, <1>4, <1>5, LoginSteps

\* What going on changes of the request, and that it leaves the others.
LEMMA WentOn ==
    ASSUME SyncInv, NEW r \in Logins, NEW stage, NEW id, GoTo(r, stage, id)
    PROVE  /\ login'[r].stage = stage /\ login'[r].id = id
           /\ login'[r].sub = login[r].sub /\ login'[r].email = login[r].email
           /\ \A q \in Logins \ {r} : login'[q] = login[q]
BY DEF SyncInv, GoTo, LoginRow

\* A row is written by its id or the request is refused.
LEMMA RowStep ==
    ASSUME SyncInv, NEW r \in Logins, NEW l, l = login[r], l.stage # "away", l.email \in Emails,
           NEW i \in Ids, NEW row \in Account,
           \/ account[i].sub = l.sub
           \/ account[i].sub = Pending /\ account[i].email = l.email,
           row.sub = l.sub, row.superadmin = account[i].superadmin,
           row.email = l.email \/ (account[i].sub = l.sub /\ row.email = account[i].email),
           WriteRow(r, i, row), UNCHANGED <<emailOf, invitation>>
    PROVE  /\ SyncInv'
           /\ login'[r].stage = "conflict" =>
                \E a \in BySub(l.sub), b \in ByEmail(l.email) : a # b
<1>1. CASE Unique(i, row)
  <2>1. account' = [account EXCEPT ![i] = row] /\ GoTo(r, "bootstrap", i)
    BY <1>1 DEF WriteRow
  <2>2. login'[r].stage = "bootstrap"
    BY <2>1, WentOn
  <2> QED
    BY <1>1, <2>1, <2>2, RowWritten
<1>2. CASE ~Unique(i, row)
  <2>1. UNCHANGED account /\ GoTo(r, "conflict", i)
    BY <1>2 DEF WriteRow
  <2>2. i \in 0 .. Len(account)
    BY AccountTyped DEF SyncInv
  <2>3. LoginHolds(r)'
    BY <2>1, WentOn DEF SyncInv, LoginHolds
  <2>4. SyncInv'
    BY <2>1, <2>2, <2>3, GoesOn DEF Stages
  <2>5. PICK j \in Ids \ {i} : account[j].email = row.email \/ account[j].sub = row.sub
    BY <1>2 DEF Unique
  <2>6. l.sub \in Identities /\ l.sub # Pending
    BY SyncAssumption DEF SyncInv, LoginHolds
  <2>7. /\ account[i].email # account[j].email
        /\ account[i].sub # Pending => account[i].sub # account[j].sub
    BY <2>5 DEF SyncInv, UniqueRows
  <2>8. CASE account[i].sub = l.sub
    <3>1. account[j].email = l.email
      BY <2>5, <2>6, <2>7, <2>8
    <3> QED
      BY <2>4, <2>5, <2>8, <3>1 DEF BySub, ByEmail
  <2>9. CASE account[i].sub = Pending /\ account[i].email = l.email
    <3>1. account[j].sub = l.sub
      BY <2>5, <2>6, <2>7, <2>9
    <3> QED
      BY <2>4, <2>5, <2>9, <3>1 DEF BySub, ByEmail
  <2> QED
    BY <2>8, <2>9
<1> QED
  BY <1>1, <1>2

\* An email found in a row is of the subject of the token, or of nobody yet.
LEMMA FoundByEmail ==
    ASSUME SyncInv, NEW r \in Logins, login[r].sub \in Identities, login[r].email \in Emails,
           NEW i \in ByEmail(login[r].email)
    PROVE  i \in Ids /\ account[i].email = login[r].email /\ account[i].sub \in {login[r].sub, Pending}
<1>1. i \in Ids /\ account[i].email = login[r].email
  BY DEF ByEmail
<1>2. Speaks(login[r].sub, login[r].email)
  BY DEF Speaks
<1>3. account[i].sub \in Identities => Speaks(account[i].sub, login[r].email)
  BY <1>1 DEF Speaks
<1> QED
  BY <1>1, <1>2, <1>3, AccountTyped DEF SyncInv, OneVoice

\* What a step of a request leaves.
SignedInRight(r) ==
    /\ SyncInv'
    /\ \A q \in Logins \ {r} : login'[q] = login[q]
    /\ login[r].stage # "conflict" /\ login'[r].stage = "conflict" =>
         \E a \in BySub(login[r].sub), b \in ByEmail(login[r].email) : a # b

\* A returning user is found, or not, by the subject.
LEMMA FindsBySub ==
    ASSUME SyncInv, NEW r \in Logins, NEW s \in Identities, FindBySub(r, s)
    PROVE  SignedInRight(r)
<1>1. PICK l : l = [stage |-> IF BySub(s) = {} THEN "find email" ELSE "refresh", sub |-> s,
                    email |-> emailOf[s], id |-> IF BySub(s) = {} THEN 0 ELSE CHOOSE i \in BySub(s) : TRUE]
  OBVIOUS
<1>2. login' = [login EXCEPT ![r] = l] /\ UNCHANGED <<account, emailOf, invitation>>
  BY <1>1 DEF FindBySub
<1>3. Len(account) \in Nat /\ emailOf[s] \in Emails /\ Speaks(s, emailOf[s])
  BY DEF SyncInv, Speaks
<1>4. BySub(s) # {} => l.id \in Ids /\ account[l.id].sub = s /\ l.id \in 1 .. Len(account)
  BY <1>1, AccountTyped DEF BySub
<1>5. l \in LoginRow /\ l.id \in 0 .. Len(account) /\ l.sub = s /\ l.email = emailOf[s]
  <2>1. l.id \in 0 .. Len(account) /\ l.id \in Nat
    <3>1. BySub(s) = {} => l.id = 0
      BY <1>1
    <3>2. l.id \in 0 .. Len(account)
      BY <1>4, <3>1, Places
    <3> QED
      BY <3>2, Places
  <2>2. l.sub = s /\ l.email = emailOf[s] /\ l.stage \in Stages
    BY <1>1 DEF Stages
  <2>3. l = [stage |-> l.stage, sub |-> l.sub, email |-> l.email, id |-> l.id]
    BY <1>1
  <2> QED
    BY <1>3, <2>1, <2>2, <2>3 DEF LoginRow
<1>6. /\ login'[r] = l /\ \A q \in Logins \ {r} : login'[q] = login[q]
      /\ l.stage \in {"find email", "refresh"} /\ (l.stage = "refresh" => BySub(s) # {})
  BY <1>1, <1>2 DEF SyncInv
<1>7. LoginHolds(r)'
  BY <1>2, <1>3, <1>4, <1>5, <1>6 DEF LoginHolds, Ids
<1> QED
  BY <1>2, <1>3, <1>5, <1>6, <1>7, LoginSteps DEF SignedInRight

\* So is the caller of a connector, without an email.
LEMMA FindsLinked ==
    ASSUME SyncInv, NEW r \in Logins, NEW s \in Identities, FindLinked(r, s)
    PROVE  SignedInRight(r)
<1>1. PICK l : l = [stage |-> "in", sub |-> s, email |-> Nobody, id |-> CHOOSE i \in BySub(s) : TRUE]
  OBVIOUS
<1>2. login' = [login EXCEPT ![r] = l] /\ UNCHANGED <<account, emailOf, invitation>>
  BY <1>1 DEF FindLinked
<1>3. Len(account) \in Nat
  BY DEF SyncInv
<1>4. l.id \in Ids /\ account[l.id].sub = s /\ l.id \in 1 .. Len(account)
  BY <1>1, AccountTyped DEF BySub, FindLinked
<1>5. l \in LoginRow /\ l.id \in 0 .. Len(account) /\ l.sub = s /\ l.email \notin Emails
  BY <1>1, <1>3, <1>4, SyncAssumption DEF LoginRow, Stages
<1>6. login'[r] = l /\ (\A q \in Logins \ {r} : login'[q] = login[q]) /\ l.stage = "in"
  BY <1>1, <1>2 DEF SyncInv
<1>7. LoginHolds(r)'
  BY <1>2, <1>4, <1>5, <1>6 DEF LoginHolds, Ids
<1> QED
  BY <1>2, <1>5, <1>6, <1>7, LoginSteps DEF SignedInRight

\* Every other step of a request is one of these.
LEMMA Resolves ==
    ASSUME SyncInv, NEW r \in Logins,
           \/ Refresh(r) \/ FindByEmail(r) \/ Claim(r) \/ Create(r) \/ Reread(r) \/ Rebind(r)
           \/ Bootstrap(r) \/ Promote(r)
    PROVE  SignedInRight(r)
<1>0. PICK l : l = login[r]
  OBVIOUS
<1>1. /\ LoginHolds(r) /\ l \in LoginRow /\ Len(account) \in Nat /\ l.id \in 0 .. Len(account)
      /\ l.stage \in {"refresh", "find email", "claim", "create", "reread", "rebind", "bootstrap", "promote"}
  <2>1. LoginHolds(r) /\ l \in LoginRow /\ Len(account) \in Nat /\ l.id \in 0 .. Len(account)
    BY <1>0 DEF SyncInv
  <2> QED
    BY <1>0, <2>1, Zenon DEF Refresh, FindByEmail, Claim, Create, Reread, Rebind, Bootstrap, Promote
<1>2. l.sub \in Identities /\ l.email \in Emails /\ l.sub # Pending
  BY <1>0, <1>1, SyncAssumption DEF LoginHolds
<1>3. ASSUME NEW stage, NEW id, GoTo(r, stage, id)
      PROVE  /\ login'[r].stage = stage /\ login'[r].id = id
             /\ login'[r].sub = l.sub /\ login'[r].email = l.email
             /\ \A q \in Logins \ {r} : login'[q] = login[q]
  BY <1>0, <1>3, WentOn
<1>4. ASSUME NEW stage \in Stages \ {"conflict"}, NEW id \in 0 .. Len(account), GoTo(r, stage, id),
             UNCHANGED <<account, emailOf, invitation>>, LoginHolds(r)'
      PROVE  SignedInRight(r)
  BY <1>3, <1>4, GoesOn DEF SignedInRight
<1>5. ASSUME NEW i \in Ids, NEW row, WriteRow(r, i, row), UNCHANGED <<emailOf, invitation>>, row \in Account,
             \/ account[i].sub = l.sub
             \/ account[i].sub = Pending /\ account[i].email = l.email,
             row.sub = l.sub, row.superadmin = account[i].superadmin,
             row.email = l.email \/ (account[i].sub = l.sub /\ row.email = account[i].email)
      PROVE  SignedInRight(r)
  <2>1. l.stage # "away"
    BY <1>1
  <2>2. \A q \in Logins \ {r} : login'[q] = login[q]
    BY <1>3, <1>5 DEF WriteRow
  <2> QED
    BY <1>0, <1>2, <1>5, <2>1, <2>2, RowStep DEF SignedInRight
<1>6. CASE Refresh(r)
  <2>1. l.stage = "refresh" /\ l.id \in Ids /\ account[l.id].sub = l.sub
    BY <1>0, <1>1, <1>6 DEF Refresh, LoginHolds
  <2>2. PICK row : row = [account[l.id] EXCEPT !.email = l.email]
    OBVIOUS
  <2>3. WriteRow(r, l.id, row) /\ UNCHANGED <<emailOf, invitation>>
    BY <1>0, <1>6, <2>2 DEF Refresh
  <2>4. row \in Account /\ row.sub = l.sub /\ row.superadmin = account[l.id].superadmin /\ row.email = l.email
    BY <1>2, <2>1, <2>2, AccountTyped DEF Account
  <2> QED
    BY <1>5, <2>1, <2>3, <2>4
<1>7. CASE FindByEmail(r)
  <2>1. UNCHANGED <<account, emailOf, invitation>> /\ l.stage = "find email"
    BY <1>0, <1>7 DEF FindByEmail
  <2>2. CASE ByEmail(l.email) = {}
    <3>1. GoTo(r, "create", 0)
      BY <1>0, <1>7, <2>2 DEF FindByEmail
    <3>2. LoginHolds(r)'
      BY <1>2, <1>3, <3>1 DEF LoginHolds
    <3>3. 0 \in 0 .. Len(account) /\ "create" \in Stages \ {"conflict"}
      BY Places DEF Stages
    <3> QED
      BY <1>4, <2>1, <3>1, <3>2, <3>3
  <2>3. CASE ByEmail(l.email) # {}
    <3>1. PICK i \in ByEmail(l.email) : GoTo(r, "claim", i)
      BY <1>0, <1>7, <2>3 DEF FindByEmail
    <3>2. i \in Ids /\ account[i].email = l.email /\ account[i].sub \in {l.sub, Pending}
      BY <1>0, <1>2, FoundByEmail
    <3>3. LoginHolds(r)'
      BY <1>2, <1>3, <2>1, <3>1, <3>2 DEF LoginHolds, Ids
    <3>4. i \in 0 .. Len(account)
      BY <3>2, AccountTyped DEF SyncInv
    <3> QED
      BY <1>4, <2>1, <3>1, <3>3, <3>4 DEF Stages
  <2> QED
    BY <2>2, <2>3
<1>8. CASE Claim(r)
  <2>1. /\ l.stage = "claim" /\ l.id \in Ids
        /\ account[l.id].sub = l.sub \/ (account[l.id].sub = Pending /\ account[l.id].email = l.email)
    BY <1>0, <1>1, <1>8 DEF Claim, LoginHolds
  <2>2. PICK row : row = [account[l.id] EXCEPT !.sub = l.sub]
    OBVIOUS
  <2>3. WriteRow(r, l.id, row) /\ UNCHANGED <<emailOf, invitation>>
    BY <1>0, <1>8, <2>2 DEF Claim, Claimed
  <2>4. row \in Account /\ row.sub = l.sub /\ row.superadmin = account[l.id].superadmin
        /\ row.email = account[l.id].email
    BY <1>2, <2>1, <2>2, AccountTyped DEF Account
  <2> QED
    BY <1>5, <2>1, <2>3, <2>4
<1>9. CASE Create(r)
  <2>1. PICK row : row = [sub |-> l.sub, email |-> l.email, superadmin |-> FALSE]
    OBVIOUS
  <2>2. row \in Account /\ row.sub = l.sub /\ row.email = l.email /\ ~row.superadmin
    BY <1>2, <2>1 DEF Account
  <2>3. UNCHANGED <<emailOf, invitation>> /\ l.stage = "create"
    BY <1>0, <1>9 DEF Create
  <2>4. CASE Unique(0, row)
    <3>1. account' = Append(account, row) /\ GoTo(r, "bootstrap", Len(account) + 1)
      BY <1>0, <1>9, <2>1, <2>4 DEF Create
    <3>2. Speaks(row.sub, row.email)
      BY <1>0, <2>2 DEF Speaks
    <3>3. /\ login'[r].stage = "bootstrap" /\ login'[r].id = Len(account) + 1
          /\ login'[r].sub = l.sub /\ login'[r].email = l.email
          /\ \A q \in Logins \ {r} : login'[q] = login[q]
      BY <1>3, <3>1
    <3>4. /\ account' \in Seq(Account) /\ Len(account') = Len(account) + 1
          /\ Ids' = 1 .. Len(account) + 1 /\ account'[Len(account) + 1] = row
          /\ Moves /\ UniqueRows' /\ OneVoice' /\ Superadmins' = Superadmins
      BY <1>0, <2>2, <2>3, <2>4, <3>1, <3>2, <3>3, RowAdded
    <3>5. /\ Len(account) + 1 \in Nat /\ Len(account) + 1 \in Ids'
          /\ Len(account') >= Len(account) /\ Len(account) + 1 \in 0 .. Len(account')
      <4>1. PICK n \in Nat : n = Len(account)
        BY <1>1
      <4>2. Ids' = 1 .. n + 1 /\ Len(account') = n + 1
        BY <3>4, <4>1
      <4> QED
        BY <4>1, <4>2
    <3>6. LoginHolds(r)'
      BY <1>2, <2>2, <3>3, <3>4, <3>5 DEF LoginHolds
    <3>7. login' \in [Logins -> LoginRow]
      BY <1>0, <1>1, <3>1, <3>5 DEF SyncInv, GoTo, LoginRow, Stages
    <3>8. {r} \in SUBSET Logins /\ \A q \in {r} : LoginHolds(q)' /\ login'[q].id \in 0 .. Len(account')
      BY <3>3, <3>5, <3>6
    <3>9. \A q \in Logins \ {r} : login[q].stage = "promote" => Superadmins' \subseteq {login[q].id}
      BY <3>4 DEF SyncInv, LoginHolds
    <3>10. /\ Len(account') >= Len(account) /\ emailOf' \in [Identities -> Emails]
           /\ invitation' \in Emails \cup {Nobody} /\ \A j, k \in Superadmins' : j = k
      BY <2>3, <3>4, <3>5 DEF SyncInv
    <3>11. SyncInv'
      BY <3>3, <3>4, <3>7, <3>8, <3>9, <3>10, StepKeeps
    <3> QED
      BY <3>3, <3>11 DEF SignedInRight
  <2>5. CASE ~Unique(0, row)
    <3>1. UNCHANGED account /\ GoTo(r, "reread", 0)
      BY <1>0, <1>9, <2>1, <2>5 DEF Create
    <3>2. PICK j \in Ids : account[j].email = l.email \/ account[j].sub = l.sub
      BY <2>2, <2>5 DEF Unique
    <3>3. WhoCameFirst(r)' # {}
      BY <1>3, <3>1, <3>2 DEF WhoCameFirst, BySub, ByEmail, Ids
    <3>4. LoginHolds(r)'
      BY <1>2, <1>3, <3>1, <3>3 DEF LoginHolds
    <3>5. 0 \in 0 .. Len(account) /\ "reread" \in Stages \ {"conflict"}
      BY Places DEF Stages
    <3> QED
      BY <1>4, <2>3, <3>1, <3>4, <3>5
  <2> QED
    BY <2>4, <2>5
<1>10. CASE Reread(r)
  <2>1. WhoCameFirst(r) # {} /\ UNCHANGED <<account, emailOf, invitation>>
    BY <1>0, <1>1, <1>10 DEF Reread, LoginHolds
  <2>2. PICK i \in WhoCameFirst(r) : GoTo(r, "rebind", i)
    BY <1>10, <2>1 DEF Reread
  <2>3. /\ i \in Ids
        /\ account[i].sub = l.sub \/ (account[i].sub = Pending /\ account[i].email = l.email)
    <3>1. CASE i \in BySub(l.sub)
      BY <3>1 DEF BySub
    <3>2. CASE i \in ByEmail(l.email)
      BY <1>0, <1>2, <3>2, FoundByEmail
    <3> QED
      BY <1>0, <2>2, <3>1, <3>2 DEF WhoCameFirst
  <2>4. LoginHolds(r)'
    BY <1>2, <1>3, <2>1, <2>2, <2>3 DEF LoginHolds, Ids
  <2>5. i \in 0 .. Len(account)
    BY <2>3, AccountTyped DEF SyncInv
  <2> QED
    BY <1>4, <2>1, <2>2, <2>4, <2>5 DEF Stages
<1>11. CASE Rebind(r)
  <2>1. /\ l.stage = "rebind" /\ l.id \in Ids
        /\ account[l.id].sub = l.sub \/ (account[l.id].sub = Pending /\ account[l.id].email = l.email)
    BY <1>0, <1>1, <1>11 DEF Rebind, LoginHolds
  <2>2. PICK row : row = [account[l.id] EXCEPT !.sub = l.sub, !.email = l.email]
    OBVIOUS
  <2>3. WriteRow(r, l.id, row) /\ UNCHANGED <<emailOf, invitation>>
    BY <1>0, <1>11, <2>2 DEF Rebind
  <2>4. row \in Account /\ row.sub = l.sub /\ row.superadmin = account[l.id].superadmin
        /\ row.email = l.email
    BY <1>2, <2>1, <2>2, AccountTyped DEF Account
  <2> QED
    BY <1>5, <2>1, <2>3, <2>4
<1>12. CASE Bootstrap(r)
  <2>1. /\ l.stage = "bootstrap" /\ l.id \in Ids /\ account[l.id].sub = l.sub
        /\ UNCHANGED <<account, emailOf, invitation>>
    BY <1>0, <1>1, <1>12 DEF Bootstrap, LoginHolds
  <2>2. CASE GoTo(r, "in", l.id)
    <3>1. LoginHolds(r)'
      BY <1>2, <1>3, <2>1, <2>2 DEF LoginHolds, Ids
    <3> QED
      BY <1>1, <1>4, <2>1, <2>2, <3>1 DEF Stages
  <2>3. CASE GoTo(r, "promote", l.id) /\ MayBePromoted(r)
    <3>1. l.email = Boss /\ Superadmins' \subseteq {l.id}
      BY <1>0, <2>1, <2>3 DEF MayBePromoted, Superadmins, Ids
    <3>2. LoginHolds(r)'
      BY <1>2, <1>3, <2>1, <2>3, <3>1 DEF LoginHolds, Ids
    <3> QED
      BY <1>1, <1>4, <2>1, <2>3, <3>2 DEF Stages
  <2> QED
    BY <1>0, <1>12, <2>2, <2>3 DEF Bootstrap
<1>13. CASE Promote(r)
  <2>1. /\ l.stage = "promote" /\ l.id \in Ids /\ account[l.id].sub = l.sub
        /\ l.email = Boss /\ Superadmins \subseteq {l.id}
    BY <1>0, <1>1, <1>13 DEF Promote, LoginHolds
  <2>2. PICK row : row = [account[l.id] EXCEPT !.superadmin = TRUE]
    OBVIOUS
  <2>3. /\ account' = [account EXCEPT ![l.id] = row] /\ GoTo(r, "in", l.id)
        /\ UNCHANGED <<emailOf, invitation>>
    BY <1>0, <1>13, <2>2 DEF Promote
  <2>4. row \in Account /\ row.sub = l.sub /\ row.email = account[l.id].email
    BY <2>1, <2>2, AccountTyped DEF Account
  <2>5. /\ account' \in Seq(Account) /\ Len(account') = Len(account) /\ Ids' = Ids
        /\ \A j \in Ids : account'[j].sub = account[j].sub /\ account'[j].email = account[j].email
        /\ \A j \in Ids \ {l.id} : account'[j] = account[j]
    BY <2>1, <2>3, <2>4, ExceptSeq DEF SyncInv, Ids
  <2>6. /\ login'[r].stage = "in" /\ login'[r].id = l.id
        /\ login'[r].sub = l.sub /\ login'[r].email = l.email
        /\ \A q \in Logins \ {r} : login'[q] = login[q]
    BY <1>3, <2>3
  <2>7. Superadmins' \subseteq {l.id}
    BY <2>1, <2>5 DEF Superadmins
  <2>8. Moves /\ UniqueRows'
    BY <2>5, AccountTyped DEF SyncInv, Moves, UniqueRows
  <2>9. OneVoice'
    <3>1. ASSUME NEW s \in Identities, NEW e \in Emails, Speaks(s, e)' PROVE Speaks(s, e)
      <4>1. CASE emailOf'[s] = e
        BY <2>3, <4>1 DEF Speaks
      <4>2. CASE \E q \in Logins : login'[q].sub = s /\ login'[q].email = e
        BY <1>0, <2>6, <4>2 DEF Speaks
      <4>3. CASE \E j \in Ids : account'[j].sub = s /\ account'[j].email = e
        BY <2>5, <4>3 DEF Speaks
      <4> QED
        BY <2>5, <3>1, <4>1, <4>2, <4>3 DEF Speaks
    <3> QED
      BY <3>1, SameVoices DEF SyncInv
  <2>10. ASSUME NEW q \in Logins \ {r}, login[q].stage = "promote" PROVE login[q].id = l.id
    <3>1. PICK k : k = login[q]
      OBVIOUS
    <3>2. k.sub \in Identities /\ k.email \in Emails /\ k.email = Boss /\ k.id \in Ids /\ account[k.id].sub = k.sub
      BY <2>10, <3>1 DEF SyncInv, LoginHolds
    <3>3. Speaks(k.sub, Boss) /\ Speaks(l.sub, Boss)
      BY <1>0, <2>1, <3>1, <3>2 DEF Speaks
    <3>4. k.sub = l.sub
      BY <1>2, <3>2, <3>3 DEF SyncInv, OneVoice
    <3> QED
      BY <1>2, <2>1, <3>1, <3>2, <3>4 DEF SyncInv, UniqueRows
  <2>11. LoginHolds(r)'
    BY <1>2, <2>1, <2>5, <2>6 DEF LoginHolds
  <2>12. login' \in [Logins -> LoginRow]
    BY <1>0, <1>1, <2>3 DEF SyncInv, GoTo, LoginRow, Stages
  <2>13. {r} \in SUBSET Logins /\ \A q \in {r} : LoginHolds(q)' /\ login'[q].id \in 0 .. Len(account')
    BY <1>1, <2>5, <2>6, <2>11
  <2>14. /\ Len(account') >= Len(account) /\ emailOf' \in [Identities -> Emails]
         /\ invitation' \in Emails \cup {Nobody} /\ \A j, k \in Superadmins' : j = k
         /\ \A q \in Logins \ {r} : login[q].stage = "promote" => Superadmins' \subseteq {login[q].id}
    <3>1. Len(account') >= Len(account)
      <4>1. PICK n \in Nat : n = Len(account)
        BY Places
      <4> QED
        BY <2>5, <4>1
    <3>2. emailOf' \in [Identities -> Emails] /\ invitation' \in Emails \cup {Nobody}
      BY <2>3 DEF SyncInv
    <3>3. \A j, k \in Superadmins' : j = k
      BY <2>7
    <3>4. \A q \in Logins \ {r} : login[q].stage = "promote" => Superadmins' \subseteq {login[q].id}
      BY <2>7, <2>10
    <3> QED
      BY <3>1, <3>2, <3>3, <3>4
  <2>15. SyncInv'
    BY <2>5, <2>6, <2>8, <2>9, <2>12, <2>13, <2>14, StepKeeps
  <2> QED
    BY <2>6, <2>15 DEF SignedInRight
<1> QED
  BY <1>6, <1>7, <1>8, <1>9, <1>10, <1>11, <1>12, <1>13

\* An invitation reads, and then adds a placeholder.
LEMMA Invites ==
    ASSUME SyncInv, InviteSomeone
    PROVE  SyncInv' /\ UNCHANGED login
<1>1. /\ UNCHANGED <<emailOf, login>> /\ invitation' \in Emails \cup {Nobody}
      /\ \/ UNCHANGED account
         \/ /\ invitation \in Emails
            /\ \E row : /\ row = [sub |-> Pending, email |-> invitation, superadmin |-> FALSE]
                        /\ Unique(0, row) /\ account' = Append(account, row)
  BY DEF SyncInv, InviteSomeone, BeginInvite, CommitInvite
<1>2. Len(account) \in Nat /\ account \in Seq(Account)
  BY DEF SyncInv
<1>3. /\ account' \in Seq(Account) /\ Len(account') >= Len(account)
      /\ Moves /\ UniqueRows' /\ OneVoice' /\ Superadmins' = Superadmins
  <2>1. CASE UNCHANGED account
    <3>1. Moves /\ UniqueRows' /\ Superadmins' = Superadmins
      BY <2>1 DEF SyncInv, Moves, UniqueRows, Superadmins, Ids
    <3>2. OneVoice'
      BY <1>1, <2>1 DEF SyncInv, OneVoice, Speaks, Ids
    <3> QED
      BY <1>2, <2>1, <3>1, <3>2
  <2>2. ASSUME NEW row, row = [sub |-> Pending, email |-> invitation, superadmin |-> FALSE],
               invitation \in Emails, Unique(0, row), account' = Append(account, row)
        PROVE  /\ account' \in Seq(Account) /\ Len(account') >= Len(account)
               /\ Moves /\ UniqueRows' /\ OneVoice' /\ Superadmins' = Superadmins
    <3>1. row \in Account /\ ~row.superadmin /\ row.sub \notin Identities
      BY <2>2, SyncAssumption DEF Account
    <3>2. /\ account' \in Seq(Account) /\ Len(account') = Len(account) + 1
          /\ Moves /\ UniqueRows' /\ OneVoice' /\ Superadmins' = Superadmins
      BY <1>1, <2>2, <3>1, RowAdded
    <3> QED
      BY <1>2, <3>2
  <2> QED
    BY <1>1, <2>1, <2>2
<1>4. /\ {} \in SUBSET Logins /\ \A q \in Logins \ {} : login'[q] = login[q]
      /\ \A q \in {} : LoginHolds(q)' /\ login'[q].id \in 0 .. Len(account')
  BY <1>1
<1>5. /\ login' \in [Logins -> LoginRow] /\ emailOf' \in [Identities -> Emails]
      /\ \A j, k \in Superadmins' : j = k
      /\ \A q \in Logins \ {} : login[q].stage = "promote" => Superadmins' \subseteq {login[q].id}
  BY <1>1, <1>3 DEF SyncInv, LoginHolds
<1>6. SyncInv'
  BY <1>1, <1>3, <1>4, <1>5, StepKeeps
<1> QED
  BY <1>1, <1>6

\* Nobody else has the email somebody changes to.
LEMMA ChangesEmail ==
    ASSUME SyncInv, NEW s \in Identities, NEW e \in Emails, ChangeEmail(s, e)
    PROVE  SyncInv' /\ UNCHANGED login
<1>1. /\ UNCHANGED <<account, login, invitation>> /\ emailOf' = [emailOf EXCEPT ![s] = e]
      /\ ByEmail(e) = {} /\ \A r \in Logins : login[r].email # e
      /\ \A t \in Identities : emailOf[t] # e
  BY DEF ChangeEmail
<1>2. /\ emailOf' \in [Identities -> Emails] /\ emailOf'[s] = e
      /\ \A t \in Identities \ {s} : emailOf'[t] = emailOf[t]
  BY <1>1 DEF SyncInv
<1>3. \A t \in Identities : Speaks(t, e)' => t = s
  BY <1>1, <1>2 DEF Speaks, Ids, ByEmail
<1>4. ASSUME NEW t \in Identities, NEW f \in Emails, f # e, Speaks(t, f)' PROVE Speaks(t, f)
  BY <1>1, <1>2, <1>4 DEF Speaks, Ids
<1>5. OneVoice'
  <2> SUFFICES ASSUME NEW t \in Identities, NEW u \in Identities, NEW f \in Emails, Speaks(t, f)', Speaks(u, f)'
               PROVE  t = u
    BY DEF OneVoice
  <2>1. CASE f = e
    BY <1>3, <2>1
  <2>2. CASE f # e
    BY <1>4, <2>2 DEF SyncInv, OneVoice
  <2> QED
    BY <2>1, <2>2
<1>6. Moves /\ UniqueRows' /\ Superadmins' = Superadmins
  BY <1>1 DEF SyncInv, Moves, UniqueRows, Superadmins, Ids
<1>7. /\ {} \in SUBSET Logins /\ \A q \in Logins \ {} : login'[q] = login[q]
      /\ \A q \in {} : LoginHolds(q)' /\ login'[q].id \in 0 .. Len(account')
  BY <1>1
<1>8. /\ login' \in [Logins -> LoginRow] /\ invitation' \in Emails \cup {Nobody}
      /\ account' \in Seq(Account) /\ \A j, k \in Superadmins' : j = k
      /\ \A q \in Logins \ {} : login[q].stage = "promote" => Superadmins' \subseteq {login[q].id}
  BY <1>1, <1>6 DEF SyncInv, LoginHolds
<1>9. Len(account) \in Nat /\ Len(account') >= Len(account)
  BY <1>1 DEF SyncInv
<1>10. SyncInv'
  BY <1>2, <1>5, <1>6, <1>7, <1>8, <1>9, StepKeeps
<1> QED
  BY <1>1, <1>10

\* No request comes to conflict but for two rows of its token.
RefusedForTwo ==
    \A r \in Logins :
        login[r].stage # "conflict" /\ login'[r].stage = "conflict" =>
           \E i \in BySub(login[r].sub), j \in ByEmail(login[r].email) : i # j

\* Every step keeps what is known of rows and requests, and refuses only for two rows.
LEMMA NextSync ==
    ASSUME SyncInv, [SyncNext]_syncVars
    PROVE  SyncInv' /\ RefusedForTwo
<1>1. ASSUME NEW r \in Logins, SignIn(r) PROVE SignedInRight(r)
  BY <1>1, FindsBySub, FindsLinked, Resolves DEF SignIn
<1>2. ASSUME NEW r \in Logins, SignedInRight(r) PROVE SyncInv' /\ RefusedForTwo
  BY <1>2 DEF SignedInRight, RefusedForTwo
<1>3. CASE InviteSomeone
  BY <1>3, Invites DEF RefusedForTwo
<1>4. CASE \E s \in Identities, e \in Emails : ChangeEmail(s, e)
  BY <1>4, ChangesEmail DEF RefusedForTwo
<1>5. CASE UNCHANGED syncVars
  <2>1. UNCHANGED <<account, emailOf, login, invitation>>
    BY <1>5 DEF syncVars
  <2>2. RefusedForTwo
    BY <2>1 DEF RefusedForTwo
  <2>3. UniqueRows' /\ OneVoice' /\ Superadmins' = Superadmins /\ \A r \in Logins : LoginHolds(r)'
    BY <2>1 DEF SyncInv, UniqueRows, OneVoice, Speaks, Superadmins, LoginHolds, WhoCameFirst, BySub, ByEmail, Ids
  <2> QED
    BY <2>1, <2>2, <2>3 DEF SyncInv
<1> QED
  BY <1>1, <1>2, <1>3, <1>4, <1>5 DEF SyncNext

\* People that are known make a right beginning.
LEMMA InitSync ==
    ASSUME NEW rows, NEW emails, KnownPeople(rows, emails), SyncInit(rows, emails)
    PROVE  SyncInv
<1>1. /\ account = rows /\ emailOf = emails /\ login = [r \in Logins |-> Away] /\ invitation = Nobody
      /\ rows \in Seq(Account) /\ Len(rows) \in Nat /\ emails \in [Identities -> Emails]
  BY DEF SyncInit, KnownPeople
<1>2. \A r \in Logins : login[r] = Away
  BY <1>1
<1>3. Away \in LoginRow /\ Away.stage = "away" /\ Away.id = 0 /\ Away.sub = Nobody
  BY DEF Away, LoginRow, Stages
<1>4. login \in [Logins -> LoginRow] /\ \A r \in Logins : login[r].id \in 0 .. Len(account)
  BY <1>1, <1>2, <1>3
<1>5. \A r \in Logins : LoginHolds(r)
  BY <1>2, <1>3 DEF LoginHolds
<1>6. \A i, j \in Superadmins : i = j
  BY <1>1 DEF KnownPeople, Superadmins, Ids
<1>7. UniqueRows
  BY <1>1 DEF KnownPeople, UniqueRows, Ids
<1>8. OneVoice
  <2> SUFFICES ASSUME NEW s \in Identities, NEW t \in Identities, NEW e \in Emails, Speaks(s, e), Speaks(t, e)
               PROVE  s = t
    BY DEF OneVoice
  <2>1. ASSUME NEW u \in Identities, Speaks(u, e)
        PROVE  emailOf[u] = e \/ \E i \in Ids : account[i].sub = u /\ account[i].email = e
    BY <1>2, <1>3, <2>1, SyncAssumption DEF Speaks
  <2>2. ASSUME NEW u \in Identities, NEW w \in Identities, emailOf[u] = e, Speaks(w, e) PROVE u = w
    BY <1>1, <2>1, <2>2, SyncAssumption DEF KnownPeople, Ids
  <2>3. CASE emailOf[s] = e
    BY <2>2, <2>3
  <2>4. CASE emailOf[t] = e
    BY <2>2, <2>4
  <2>5. CASE emailOf[s] # e /\ emailOf[t] # e
    <3>1. PICK i \in Ids : account[i].sub = s /\ account[i].email = e
      BY <2>1, <2>5
    <3>2. PICK j \in Ids : account[j].sub = t /\ account[j].email = e
      BY <2>1, <2>5
    <3> QED
      BY <1>7, <3>1, <3>2 DEF UniqueRows
  <2> QED
    BY <2>3, <2>4, <2>5
<1> QED
  BY <1>1, <1>4, <1>5, <1>6, <1>7, <1>8 DEF SyncInv

\* What is known of rows and requests is enough.
LEMMA PeopleExact ==
    ASSUME SyncInv
    PROVE  SignInsAreExact
<1>1. SyncTypeOK
  <2>1. \A r \in Logins : login[r] \in LoginRow /\ login[r].id \in 0 .. Len(account)
    BY DEF SyncInv
  <2>2. account \in Seq(Account) /\ emailOf \in [Identities -> Emails] /\ invitation \in Emails \cup {Nobody}
    BY DEF SyncInv
  <2> QED
    BY <2>1, <2>2 DEF SyncTypeOK, LoginRow
<1>2. OneSuperadmin
  <2>1. CASE Superadmins = {}
    BY <2>1, FS_EmptySet DEF OneSuperadmin
  <2>2. CASE Superadmins # {}
    <3>1. PICK i : i \in Superadmins
      BY <2>2
    <3>2. Superadmins = {i}
      BY <3>1 DEF SyncInv
    <3> QED
      BY <3>2, FS_Singleton DEF OneSuperadmin
  <2> QED
    BY <2>1, <2>2
<1>3. InAsOneself
  BY DEF SyncInv, InAsOneself, LoginHolds
<1> QED
  BY <1>1, <1>2, <1>3 DEF SignInsAreExact

\* Whoever signs in and is invited meanwhile, of emails that mean one person
\* each: every request is let in as the person of its token, and there is one
\* superadmin at most.
THEOREM SignInsExact == SyncSpec => []SignInsAreExact
<1>1. SyncInv /\ [SyncNext]_syncVars => SyncInv'
  BY NextSync
<1>2. (\E rows \in Seq(Account), emails \in [Identities -> Emails] :
         KnownPeople(rows, emails) /\ SyncInit(rows, emails)) => SyncInv
  BY InitSync
<1>3. SyncInv => SignInsAreExact
  BY PeopleExact
<1> QED
  BY <1>1, <1>2, <1>3, PTL DEF SyncSpec

\* And nobody is refused for a conflict unless the token names two people here.
THEOREM TwoPeopleConflict == SyncSpec => OnlyTwoPeopleConflict
<1>1. SyncInv /\ [SyncNext]_syncVars => SyncInv'
  BY NextSync
<1>2. (\E rows \in Seq(Account), emails \in [Identities -> Emails] :
         KnownPeople(rows, emails) /\ SyncInit(rows, emails)) => SyncInv
  BY InitSync
<1>3. SyncInv /\ [SyncNext]_syncVars => [RefusedForTwo]_syncVars
  BY NextSync
<1>4. [RefusedForTwo]_syncVars
      <=> [\A r \in Logins :
             login[r].stage # "conflict" /\ login'[r].stage = "conflict" =>
                \E i \in BySub(login[r].sub), j \in ByEmail(login[r].email) : i # j]_syncVars
  BY DEF RefusedForTwo
<1> QED
  BY <1>1, <1>2, <1>3, <1>4, PTL DEF SyncSpec, OnlyTwoPeopleConflict

-----------------------------------------------------------------------------
(***************************************************************************)
(* AiCopilot: what the answers in flight may still cost is bounded by one  *)
(* answer for each request there can be.                                   *)
(***************************************************************************)

\* What a finite set of costs may reach.
LEMMA LargestCost == Max(Costs) \in Costs /\ \A c \in Costs : c <= Max(Costs)
<1> DEFINE T == {{d \in Costs : d > c} : c \in Costs}
<1>1. T \subseteq SUBSET Costs /\ T # {}
  <2>1. Costs # {}
    BY CopilotAssumption
  <2> QED
    BY <2>1
<1>2. IsWellFoundedOn(StrictSubsetOrdering(Costs), SUBSET Costs)
  BY CopilotAssumption, FS_FiniteSubsetsOfFinite, FS_StrictSubsetOrderingWellFounded
<1>3. PICK x \in T : \A y \in T : <<y, x>> \notin StrictSubsetOrdering(Costs)
  <2> HIDE DEF T
  <2> QED
    BY <1>1, <1>2, WFMin
<1>4. PICK c \in Costs : x = {d \in Costs : d > c}
  OBVIOUS
<1>5. ASSUME NEW d \in Costs, d > c PROVE FALSE
  <2>0. Costs \subseteq Int
    BY CopilotAssumption
  <2>1. PICK y \in T : y = {e \in Costs : e > d}
    BY <1>5
  <2>2. y \subseteq x /\ d \in x /\ d \notin y
    <3>1. c \in Int /\ d \in Int /\ d > c
      BY <1>5, <2>0
    <3>2. ASSUME NEW e \in y PROVE e \in x
      <4>1. e \in Costs /\ e > d /\ e \in Int
        BY <2>0, <2>1
      <4> QED
        BY <1>4, <3>1, <4>1
    <3>3. d \in x
      BY <1>4, <1>5
    <3>4. d \notin y
      BY <2>1, <3>1
    <3> QED
      BY <3>2, <3>3, <3>4
  <2> HIDE DEF T
  <2> QED
    BY <1>1, <1>3, <2>1, <2>2 DEF StrictSubsetOrdering
<1>6. \A d \in Costs : c >= d
  BY <1>5, CopilotAssumption
<1>7. Max(Costs) \in Costs /\ \A d \in Costs : Max(Costs) >= d
  BY <1>6 DEF Max
<1> QED
  BY <1>7, CopilotAssumption

\* What an answer may cost, or nothing.
LEMMA CostsAreNumbers == \A c \in Costs \cup {0} : c \in Nat /\ c <= Max(Costs)
<1>1. Costs \subseteq Nat
  BY CopilotAssumption
<1>2. Max(Costs) \in Nat
  BY <1>1, LargestCost
<1> QED
  BY <1>1, <1>2, LargestCost

Settings == [enabled : BOOLEAN, quota : Nat]
AskRow == [stage : {"none", "settings", "quota", "lookup", "call", "count", "answered", "refused", "failed"},
           prompt : Prompts \cup {Nothing}, answer : {Nothing} \cup Answers,
           cost : Costs \cup {0}, fresh : BOOLEAN]

\* Who is past the check of the quota and may still be counted.
Flying == {r \in Asks : ask[r].stage \in {"lookup", "call", "count"}}

\* What each month has counted, and what each request has still to count.
CountedIn == [m \in Months |-> UsedIn(m)]
Owed == [r \in Asks |-> IF ask[r].stage = "count" THEN ask[r].cost ELSE 0]

CopilotTypes ==
    /\ settings \in {Nothing} \cup Settings
    /\ month \in Months /\ used \in [Months -> [{"draft", "validate"} -> Nat]]
    /\ reusable \in [Prompts -> {Nothing} \cup Answers] /\ billed \in Nat
    /\ ask \in [Asks -> AskRow]

\* The costliest answers of those in flight are within what one answer for each
\* request there can be adds to the quota.
RoomIsLeft ==
    settings # Nothing =>
        \/ settings.quota = 0
        \/ UsedIn(month) + Max(Costs) * Cardinality(Flying)
             < settings.quota + Max(Costs) * Cardinality(Asks)

FirstUse ==
    settings = Nothing =>
        /\ UsedIn(month) = 0
        /\ \A r \in Asks : ask[r].stage \in {"none", "settings"}

\* A request asks for a prompt; an analysis that was not asked of the provider
\* now can be read, and what is served of an answer that was is on topic.
AskHolds(q) ==
    /\ q.stage # "none" => q.prompt \in Prompts
    /\ q.stage = "answered" \/ (q.stage = "count" /\ ~q.fresh) =>
         (OperationOf[q.prompt] = "validate" => q.answer.readable)
    /\ q.stage = "answered" => q.answer.onTopic \/ ~q.fresh

CopilotInv ==
    /\ CopilotTypes /\ RoomIsLeft /\ FirstUse
    /\ \A m \in Months : m > month => UsedIn(m) = 0
    /\ \A r \in Asks : AskHolds(ask[r])
    /\ billed = SumFunctionOnSet(CountedIn, Months) + SumFunctionOnSet(Owed, Asks)

\* What is counted are numbers.
LEMMA CopilotNumbers ==
    ASSUME CopilotTypes
    PROVE  /\ \A m \in Months : UsedIn(m) \in Nat
           /\ month \in Months /\ month \in Nat /\ IsFiniteSet(Months)
           /\ \A m \in Months : CountedIn[m] = UsedIn(m)
           /\ \A r \in Asks : Owed[r] \in Nat /\ ask[r] \in AskRow
           /\ IsFiniteSet(Flying) /\ Cardinality(Flying) \in Nat /\ Flying \subseteq Asks
           /\ Cardinality(Asks) \in Nat /\ Cardinality(Flying) <= Cardinality(Asks)
           /\ Max(Costs) \in Nat
<1>1. \A m \in Months : UsedIn(m) \in Nat
  <2> SUFFICES ASSUME NEW m \in Months PROVE UsedIn(m) \in Nat
    OBVIOUS
  <2>1. used[m] \in [{"draft", "validate"} -> Nat]
    BY DEF CopilotTypes
  <2>2. used[m]["draft"] \in Nat /\ used[m]["validate"] \in Nat
    BY <2>1
  <2> QED
    BY <2>2 DEF UsedIn
<1>2. month \in Months /\ month \in Nat
  BY CopilotAssumption DEF CopilotTypes, Months
<1>3. IsFiniteSet(Months)
  <2>1. LastMonth \in Int
    BY CopilotAssumption
  <2> QED
    BY <2>1, FS_Interval DEF Months
<1>4. \A r \in Asks : Owed[r] \in Nat /\ ask[r] \in AskRow
  <2> SUFFICES ASSUME NEW r \in Asks PROVE Owed[r] \in Nat /\ ask[r] \in AskRow
    OBVIOUS
  <2>1. ask[r] \in AskRow
    BY DEF CopilotTypes
  <2>2. ask[r].cost \in Costs \cup {0}
    BY <2>1 DEF AskRow
  <2>4. ask[r].cost \in Nat
    BY <2>2, CostsAreNumbers
  <2> QED
    BY <2>1, <2>4 DEF Owed
<1>5. /\ IsFiniteSet(Flying) /\ Cardinality(Flying) \in Nat /\ Flying \subseteq Asks
      /\ Cardinality(Asks) \in Nat /\ Cardinality(Flying) <= Cardinality(Asks)
  <2>1. Flying \subseteq Asks /\ IsFiniteSet(Asks)
    BY CopilotAssumption DEF Flying
  <2> QED
    BY <2>1, FS_Subset, FS_CardinalityType
<1>6. Max(Costs) \in Nat
  BY LargestCost, CopilotAssumption
<1> QED
  BY <1>1, <1>2, <1>3, <1>4, <1>5, <1>6 DEF CountedIn

\* How the request that moves counts.
LEMMA AskMoves ==
    ASSUME CopilotTypes, NEW r \in Asks, NEW q \in AskRow, ask' = [ask EXCEPT ![r] = q]
    PROVE  /\ ask' \in [Asks -> AskRow] /\ ask'[r] = q /\ \A s \in Asks \ {r} : ask'[s] = ask[s]
           /\ Flying' = IF q.stage \in {"lookup", "call", "count"} THEN Flying \cup {r} ELSE Flying \ {r}
           /\ SumFunctionOnSet(Owed, Asks)'
                = SumFunctionOnSet(Owed, Asks) + (IF q.stage = "count" THEN q.cost ELSE 0) - Owed[r]
<1>1. ask' \in [Asks -> AskRow] /\ ask'[r] = q /\ \A s \in Asks \ {r} : ask'[s] = ask[s]
  BY DEF CopilotTypes
<1>2. Flying' = IF q.stage \in {"lookup", "call", "count"} THEN Flying \cup {r} ELSE Flying \ {r}
  BY <1>1 DEF Flying
<1>3. PICK e, f : e = Owed /\ f = Owed'
  OBVIOUS
<1>4. \A s \in Asks : e[s] \in Int /\ f[s] \in Int
  <2>1. \A s \in Asks : ask'[s].cost \in Int
    <3>1. \A s \in Asks : ask'[s].cost \in Costs \cup {0}
      BY <1>1 DEF AskRow
    <3> QED
      BY <3>1, CostsAreNumbers
  <2> QED
    BY <1>3, <2>1, CopilotNumbers DEF Owed
<1>5. (\A s \in Asks \ {r} : e[s] = f[s]) /\ f[r] = IF q.stage = "count" THEN q.cost ELSE 0
  BY <1>1, <1>3 DEF Owed
<1>6. SumFunctionOnSet(f, Asks) = SumFunctionOnSet(e, Asks) + f[r] - e[r]
  BY <1>4, <1>5, CopilotAssumption, SumChanges
<1> QED
  BY <1>1, <1>2, <1>3, <1>5, <1>6

\* Steps of a request that add nothing to what is used or owed.
LEMMA QuietSteps ==
    ASSUME CopilotInv, NEW r \in Asks, NEW q \in AskRow, ask' = [ask EXCEPT ![r] = q],
           UNCHANGED <<settings, month, used, billed, reusable>>,
           (IF q.stage = "count" THEN q.cost ELSE 0) = Owed[r],
           \/ q.stage \notin {"lookup", "call", "count"}
           \/ ask[r].stage \in {"lookup", "call", "count"}
           \/ settings # Nothing /\ ~OverQuota(settings),
           settings = Nothing => q.stage \in {"none", "settings"}, AskHolds(q)
    PROVE  CopilotInv'
<1>0. CopilotTypes
  BY DEF CopilotInv
<1>1. /\ ask' \in [Asks -> AskRow] /\ ask'[r] = q /\ \A s \in Asks \ {r} : ask'[s] = ask[s]
      /\ Flying' = IF q.stage \in {"lookup", "call", "count"} THEN Flying \cup {r} ELSE Flying \ {r}
      /\ SumFunctionOnSet(Owed, Asks)' = SumFunctionOnSet(Owed, Asks) + Owed[r] - Owed[r]
  BY <1>0, AskMoves
<1>2. CopilotTypes'
  BY <1>0, <1>1 DEF CopilotTypes
<1>3. \A m \in Months : UsedIn(m)' = UsedIn(m)
  BY DEF UsedIn
<1>4. CountedIn' = CountedIn
  BY <1>3 DEF CountedIn
<1>5. SumFunctionOnSet(Owed, Asks) \in Int /\ Owed[r] \in Int
  BY <1>0, CopilotNumbers, CopilotAssumption, SumType
<1>6. billed' = SumFunctionOnSet(CountedIn, Months)' + SumFunctionOnSet(Owed, Asks)'
  BY <1>1, <1>4, <1>5 DEF CopilotInv
<1>7. RoomIsLeft'
  <2> SUFFICES ASSUME settings # Nothing, settings.quota # 0
               PROVE  UsedIn(month) + Max(Costs) * Cardinality(Flying')
                        < settings.quota + Max(Costs) * Cardinality(Asks)
    BY <1>0, <1>3, CopilotNumbers DEF RoomIsLeft
  <2>0. /\ UsedIn(month) \in Nat /\ Max(Costs) \in Nat /\ Cardinality(Flying) \in Nat
        /\ Cardinality(Asks) \in Nat /\ settings.quota \in Nat
    BY <1>0, CopilotNumbers DEF CopilotTypes, Settings
  <2>1. Cardinality(Flying') \in Nat /\ Cardinality(Flying') <= Cardinality(Asks)
    <3>1. Flying' \subseteq Asks /\ IsFiniteSet(Asks)
      BY CopilotAssumption DEF Flying
    <3> QED
      BY <3>1, FS_Subset, FS_CardinalityType
  <2>2. CASE Flying' \subseteq Flying
    <3>1. Cardinality(Flying') <= Cardinality(Flying)
      BY <1>0, <2>2, CopilotNumbers, FS_Subset
    <3>2. Max(Costs) * Cardinality(Flying') <= Max(Costs) * Cardinality(Flying)
      BY <2>0, <2>1, <3>1
    <3>3. UsedIn(month) + Max(Costs) * Cardinality(Flying) < settings.quota + Max(Costs) * Cardinality(Asks)
      BY DEF CopilotInv, RoomIsLeft
    <3>4. /\ Max(Costs) * Cardinality(Flying') \in Nat /\ Max(Costs) * Cardinality(Flying) \in Nat
          /\ Max(Costs) * Cardinality(Asks) \in Nat
      BY <2>0, <2>1
    <3> QED
      BY <2>0, <3>2, <3>3, <3>4
  <2>3. CASE ~OverQuota(settings)
    <3>1. UsedIn(month) < settings.quota
      BY <2>0, <2>3 DEF OverQuota
    <3>2. Max(Costs) * Cardinality(Flying') <= Max(Costs) * Cardinality(Asks)
      BY <2>0, <2>1
    <3>3. Max(Costs) * Cardinality(Flying') \in Nat /\ Max(Costs) * Cardinality(Asks) \in Nat
      BY <2>0, <2>1
    <3> QED
      BY <2>0, <3>1, <3>2, <3>3
  <2> QED
    BY <1>1, <2>2, <2>3 DEF Flying
<1>8. FirstUse'
  BY <1>0, <1>1, <1>3, CopilotNumbers DEF CopilotInv, FirstUse
<1>9. \A s \in Asks : AskHolds(ask'[s])
  BY <1>1 DEF CopilotInv
<1>10. \A m \in Months : m > month' => UsedIn(m)' = 0
  BY <1>3 DEF CopilotInv
<1> QED
  BY <1>2, <1>6, <1>7, <1>8, <1>9, <1>10 DEF CopilotInv

\* The steps of a request, one by one, each of which moves only its request.
LEMMA Asking ==
    ASSUME CopilotInv, NEW r \in Asks,
           \/ \E p \in Prompts : BeginAsk(r, p)
           \/ Gate(r) \/ Lookup(r) \/ FailCall(r) \/ Leave(r)
    PROVE  CopilotInv'
<1>0. PICK l : l = ask[r]
  OBVIOUS
<1>1. CopilotTypes /\ AskHolds(l) /\ l \in AskRow
  BY <1>0 DEF CopilotInv, CopilotTypes
<1>2. Owed[r] = IF l.stage = "count" THEN l.cost ELSE 0
  BY <1>0 DEF Owed
<1>3. settings = Nothing => l.stage \in {"none", "settings"}
  BY <1>0 DEF CopilotInv, FirstUse
<1>4. CASE \E p \in Prompts : BeginAsk(r, p)
  <2>1. PICK p \in Prompts : BeginAsk(r, p)
    BY <1>4
  <2>2. PICK q : q = [NoAsk EXCEPT !.prompt = p, !.stage = IF settings = Nothing THEN "settings" ELSE "quota"]
    OBVIOUS
  <2>3. /\ l.stage = "none" /\ ask' = [ask EXCEPT ![r] = q]
        /\ UNCHANGED <<settings, month, used, billed, reusable>>
    BY <1>0, <2>1, <2>2 DEF BeginAsk
  <2>4. /\ q.stage = (IF settings = Nothing THEN "settings" ELSE "quota") /\ q.prompt = p
        /\ q \in AskRow
    BY <2>2 DEF NoAsk, AskRow
  <2>5. AskHolds(q) /\ (IF q.stage = "count" THEN q.cost ELSE 0) = Owed[r]
    BY <1>2, <2>3, <2>4 DEF AskHolds
  <2> QED
    BY <2>3, <2>4, <2>5, QuietSteps
<1>5. ASSUME NEW stage \in {"refused", "lookup", "call", "failed"}, To(r, stage), l.stage \in {"quota", "lookup", "call"},
             UNCHANGED <<settings, month, used, billed, reusable>>,
             stage = "lookup" => ~OverQuota(settings),
             stage = "call" => l.stage = "lookup"
      PROVE  CopilotInv'
  <2>1. PICK q : q = [l EXCEPT !.stage = stage]
    OBVIOUS
  <2>2. q.stage = stage /\ q.prompt = l.prompt /\ q \in AskRow
    BY <1>1, <1>5, <2>1 DEF AskRow
  <2>3. ask' = [ask EXCEPT ![r] = q]
    BY <1>0, <1>5, <2>1 DEF To
  <2>4. AskHolds(q) /\ (IF q.stage = "count" THEN q.cost ELSE 0) = Owed[r]
    BY <1>1, <1>2, <1>5, <2>2 DEF AskHolds
  <2>5. settings # Nothing
    BY <1>3, <1>5
  <2>6. \/ q.stage \notin {"lookup", "call", "count"}
        \/ ask[r].stage \in {"lookup", "call", "count"}
        \/ settings # Nothing /\ ~OverQuota(settings)
    BY <1>0, <1>5, <2>2, <2>5
  <2> QED
    BY <1>5, <2>2, <2>3, <2>4, <2>5, <2>6, QuietSteps
<1>6. CASE Gate(r)
  <2>1. l.stage = "quota" /\ UNCHANGED <<settings, month, used, billed, reusable>>
    BY <1>0, <1>6 DEF Gate
  <2>2. To(r, "refused") \/ (To(r, "lookup") /\ ~OverQuota(settings))
    BY <1>6 DEF Gate
  <2> QED
    BY <1>5, <2>1, <2>2
<1>7. CASE FailCall(r)
  <2>1. l.stage = "call" /\ UNCHANGED <<settings, month, used, billed, reusable>> /\ To(r, "failed")
    BY <1>0, <1>7 DEF FailCall
  <2> QED
    BY <1>5, <2>1
<1>8. CASE Lookup(r)
  <2>1. l.stage = "lookup" /\ UNCHANGED <<settings, month, used, billed, reusable>>
    BY <1>0, <1>8 DEF Lookup
  <2>2. CASE ~Usable(l.prompt)
    <3>1. To(r, "call")
      BY <1>0, <1>8, <2>2 DEF Lookup
    <3> QED
      BY <1>5, <2>1, <3>1
  <2>3. CASE Usable(l.prompt)
    <3>1. PICK q : q = [l EXCEPT !.stage = "count", !.answer = reusable[l.prompt], !.cost = 0]
      OBVIOUS
    <3>2. l.prompt \in Prompts
      BY <1>1, <2>1 DEF AskHolds
    <3>3. reusable[l.prompt] \in {Nothing} \cup Answers
      BY <1>1, <3>2 DEF CopilotTypes
    <3>4. /\ q.stage = "count" /\ q.cost = 0 /\ q.prompt = l.prompt /\ q.answer = reusable[l.prompt]
          /\ q \in AskRow
      BY <1>1, <3>1, <3>3 DEF AskRow
    <3>5. ask' = [ask EXCEPT ![r] = q]
      BY <1>0, <1>8, <2>3, <3>1 DEF Lookup
    <3>6. AskHolds(q) /\ (IF q.stage = "count" THEN q.cost ELSE 0) = Owed[r]
      BY <1>2, <2>1, <2>3, <3>2, <3>4 DEF AskHolds, Usable
    <3>7. settings # Nothing
      BY <1>3, <2>1
    <3> QED
      BY <1>0, <2>1, <3>4, <3>5, <3>6, <3>7, QuietSteps
  <2> QED
    BY <2>2, <2>3
<1>9. CASE Leave(r)
  <2>1. /\ l.stage \in {"answered", "refused", "failed"} /\ ask' = [ask EXCEPT ![r] = NoAsk]
        /\ UNCHANGED <<settings, month, used, billed, reusable>>
    BY <1>0, <1>9 DEF Leave
  <2>2. NoAsk \in AskRow /\ NoAsk.stage = "none"
    BY DEF NoAsk, AskRow
  <2>3. AskHolds(NoAsk) /\ (IF NoAsk.stage = "count" THEN NoAsk.cost ELSE 0) = Owed[r]
    BY <1>2, <2>1, <2>2 DEF AskHolds
  <2> QED
    BY <2>1, <2>2, <2>3, QuietSteps
<1> QED
  BY <1>4, <1>6, <1>7, <1>8, <1>9

\* The first use sets the quota, of which nothing is used.
LEMMA FirstUses ==
    ASSUME CopilotInv, NEW r \in Asks, CreateSettings(r)
    PROVE  CopilotInv'
<1>0. PICK l : l = ask[r]
  OBVIOUS
<1>1. /\ CopilotTypes /\ AskHolds(l) /\ l \in AskRow /\ l.stage = "settings"
      /\ UNCHANGED <<month, used, billed, reusable>>
  BY <1>0 DEF CopilotInv, CopilotTypes, CreateSettings
<1>2. PICK q : q = [l EXCEPT !.stage = IF settings = Nothing THEN "quota" ELSE "failed"]
  OBVIOUS
<1>3. /\ q.stage = (IF settings = Nothing THEN "quota" ELSE "failed") /\ q.prompt = l.prompt
      /\ q \in AskRow
  BY <1>1, <1>2 DEF AskRow
<1>4. /\ ask' = [ask EXCEPT ![r] = q]
      /\ settings' = IF settings = Nothing THEN Default ELSE settings
  BY <1>0, <1>2 DEF CreateSettings, To
<1>5. AskHolds(q) /\ Owed[r] = 0
  BY <1>0, <1>1, <1>3 DEF AskHolds, Owed
<1>6. CASE settings # Nothing
  <2>1. settings' = settings /\ q.stage = "failed"
    BY <1>3, <1>4, <1>6
  <2> QED
    BY <1>1, <1>3, <1>4, <1>5, <1>6, <2>1, QuietSteps
<1>7. CASE settings = Nothing
  <2>1. /\ ask' \in [Asks -> AskRow] /\ ask'[r] = q /\ \A s \in Asks \ {r} : ask'[s] = ask[s]
        /\ Flying' = IF q.stage \in {"lookup", "call", "count"} THEN Flying \cup {r} ELSE Flying \ {r}
        /\ SumFunctionOnSet(Owed, Asks)'
              = SumFunctionOnSet(Owed, Asks) + (IF q.stage = "count" THEN q.cost ELSE 0) - Owed[r]
    BY <1>1, <1>3, <1>4, AskMoves
  <2>2. q.stage = "quota" /\ settings' = Default /\ Default \in Settings /\ Default # Nothing
        /\ Default.quota = 2
    <3>1. Default \in Settings /\ Default.quota = 2
      BY DEF Default, Settings
    <3>2. Default # Nothing
      BY <3>1, CopilotAssumption DEF Settings
    <3> QED
      BY <1>3, <1>4, <1>7, <3>1, <3>2
  <2>3. CopilotTypes'
    BY <1>1, <2>1, <2>2 DEF CopilotTypes
  <2>4. \A m \in Months : UsedIn(m)' = UsedIn(m)
    BY <1>1 DEF UsedIn
  <2>5. CountedIn' = CountedIn
    BY <2>4 DEF CountedIn
  <2>6. SumFunctionOnSet(Owed, Asks) \in Int
    BY <1>1, CopilotNumbers, CopilotAssumption, SumType
  <2>7. billed' = SumFunctionOnSet(CountedIn, Months)' + SumFunctionOnSet(Owed, Asks)'
    BY <1>1, <1>5, <2>1, <2>2, <2>5, <2>6 DEF CopilotInv
  <2>8. Flying' = {}
    BY <1>7, <2>1, <2>2 DEF CopilotInv, FirstUse, Flying
  <2>9. RoomIsLeft'
    <3>1. Cardinality(Flying') = 0
      BY <2>8, FS_EmptySet
    <3>2. UsedIn(month)' = 0
      BY <1>1, <1>7, <2>4, CopilotNumbers DEF CopilotInv, FirstUse
    <3>3. Max(Costs) * 0 = 0 /\ Max(Costs) * Cardinality(Asks) \in Nat
      BY <1>1, CopilotNumbers
    <3>4. settings'.quota = 2
      BY <2>2
    <3> QED
      BY <3>1, <3>2, <3>3, <3>4 DEF RoomIsLeft
  <2>10. FirstUse'
    BY <2>2 DEF FirstUse
  <2>11. \A s \in Asks : AskHolds(ask'[s])
    BY <1>5, <2>1 DEF CopilotInv
  <2>12. \A m \in Months : m > month' => UsedIn(m)' = 0
    BY <1>1, <2>4 DEF CopilotInv
  <2> QED
    BY <2>3, <2>7, <2>9, <2>10, <2>11, <2>12 DEF CopilotInv
<1> QED
  BY <1>6, <1>7

\* What the provider answers is owed.
LEMMA ProviderAnswers ==
    ASSUME CopilotInv, NEW r \in Asks, NEW a \in Answers, NEW c \in Costs, Answer(r, a, c)
    PROVE  CopilotInv'
<1>0. PICK l : l = ask[r]
  OBVIOUS
<1>1. /\ CopilotTypes /\ AskHolds(l) /\ l \in AskRow /\ l.stage = "call"
      /\ UNCHANGED <<settings, month, used>> /\ billed' = billed + c /\ c \in Nat
  BY <1>0, CopilotAssumption DEF CopilotInv, CopilotTypes, Answer
<1>2. PICK q : q = [l EXCEPT !.stage = "count", !.answer = a, !.cost = c, !.fresh = TRUE]
  OBVIOUS
<1>3. /\ q.stage = "count" /\ q.prompt = l.prompt /\ q.cost = c /\ q.fresh = TRUE
      /\ q \in AskRow
  BY <1>1, <1>2 DEF AskRow
<1>4. ask' = [ask EXCEPT ![r] = q]
  BY <1>0, <1>2 DEF Answer
<1>5. AskHolds(q) /\ Owed[r] = 0 /\ l.prompt \in Prompts
  BY <1>0, <1>1, <1>3 DEF AskHolds, Owed
<1>6. reusable' \in [Prompts -> {Nothing} \cup Answers]
  <2>1. PICK kept \in {a, reusable[l.prompt]} : reusable' = [reusable EXCEPT ![l.prompt] = kept]
    BY <1>0 DEF Answer
  <2>2. kept \in {Nothing} \cup Answers
    BY <1>1, <1>5, <2>1 DEF CopilotTypes
  <2> QED
    BY <1>1, <2>1, <2>2 DEF CopilotTypes
<1>7. /\ ask' \in [Asks -> AskRow] /\ ask'[r] = q /\ \A s \in Asks \ {r} : ask'[s] = ask[s]
      /\ Flying' = IF q.stage \in {"lookup", "call", "count"} THEN Flying \cup {r} ELSE Flying \ {r}
      /\ SumFunctionOnSet(Owed, Asks)'
            = SumFunctionOnSet(Owed, Asks) + (IF q.stage = "count" THEN q.cost ELSE 0) - Owed[r]
  BY <1>1, <1>3, <1>4, AskMoves
<1>8. CopilotTypes'
  BY <1>1, <1>6, <1>7 DEF CopilotTypes
<1>9. \A m \in Months : UsedIn(m)' = UsedIn(m)
  BY <1>1 DEF UsedIn
<1>10. CountedIn' = CountedIn
  BY <1>9 DEF CountedIn
<1>11. SumFunctionOnSet(Owed, Asks) \in Int /\ SumFunctionOnSet(CountedIn, Months) \in Int
  BY <1>1, CopilotNumbers, CopilotAssumption, SumType
<1>12. billed' = SumFunctionOnSet(CountedIn, Months)' + SumFunctionOnSet(Owed, Asks)'
  BY <1>1, <1>3, <1>5, <1>7, <1>10, <1>11 DEF CopilotInv
<1>13. Flying' = Flying
  BY <1>0, <1>1, <1>3, <1>7 DEF Flying
<1>14. RoomIsLeft' /\ FirstUse'
  BY <1>0, <1>1, <1>7, <1>9, <1>13, CopilotNumbers DEF CopilotInv, RoomIsLeft, FirstUse
<1>15. \A s \in Asks : AskHolds(ask'[s])
  BY <1>5, <1>7 DEF CopilotInv
<1>16. \A m \in Months : m > month' => UsedIn(m)' = 0
  BY <1>1, <1>9 DEF CopilotInv
<1> QED
  BY <1>8, <1>12, <1>14, <1>15, <1>16 DEF CopilotInv

\* What is owed is counted, of which one request less is in flight.
LEMMA Counts ==
    ASSUME CopilotInv, NEW r \in Asks, Count(r)
    PROVE  CopilotInv'
<1>0. PICK l : l = ask[r]
  OBVIOUS
<1>1. /\ CopilotTypes /\ AskHolds(l) /\ l \in AskRow /\ l.stage = "count"
      /\ UNCHANGED <<settings, month, reusable, billed>>
  BY <1>0 DEF CopilotInv, CopilotTypes, Count
<1>2. PICK q : q = [l EXCEPT !.stage = IF l.fresh /\ Unfit(l.prompt, l.answer) THEN "refused" ELSE "answered"]
  OBVIOUS
<1>3. /\ q.stage = (IF l.fresh /\ Unfit(l.prompt, l.answer) THEN "refused" ELSE "answered")
      /\ q.prompt = l.prompt /\ q.answer = l.answer /\ q.fresh = l.fresh /\ q \in AskRow
  BY <1>1, <1>2 DEF AskRow
<1>4. ask' = [ask EXCEPT ![r] = q]
  BY <1>0, <1>2 DEF Count, To
<1>5. l.prompt \in Prompts /\ OperationOf[l.prompt] \in {"draft", "validate"}
  BY <1>1, CopilotAssumption DEF AskHolds
<1>6. AskHolds(q)
  <2>1. l.fresh \in BOOLEAN /\ l.stage = "count" /\ q.stage # "none"
    BY <1>1, <1>3 DEF AskRow
  <2>2. OperationOf[q.prompt] = "validate" => q.stage = "refused" \/ q.answer.readable
    BY <1>1, <1>3, <2>1 DEF AskHolds, Unfit
  <2>3. q.stage = "answered" => q.answer.onTopic \/ ~q.fresh
    BY <1>3, <2>1 DEF Unfit
  <2> QED
    BY <1>3, <1>5, <2>1, <2>2, <2>3 DEF AskHolds
<1>7. /\ ask' \in [Asks -> AskRow] /\ ask'[r] = q /\ \A s \in Asks \ {r} : ask'[s] = ask[s]
      /\ Flying' = IF q.stage \in {"lookup", "call", "count"} THEN Flying \cup {r} ELSE Flying \ {r}
      /\ SumFunctionOnSet(Owed, Asks)'
            = SumFunctionOnSet(Owed, Asks) + (IF q.stage = "count" THEN q.cost ELSE 0) - Owed[r]
  BY <1>1, <1>3, <1>4, AskMoves
<1>8. Owed[r] = l.cost /\ l.cost \in Nat /\ l.cost <= Max(Costs) /\ q.stage \notin {"lookup", "call", "count"}
  <2>1. l.cost \in Costs \cup {0}
    BY <1>1 DEF AskRow
  <2>3. l.cost \in Nat /\ l.cost <= Max(Costs)
    BY <2>1, CostsAreNumbers
  <2> QED
    BY <1>0, <1>1, <1>3, <2>3 DEF Owed
<1>9. PICK op \in {"draft", "validate"} : op = OperationOf[l.prompt]
  BY <1>5
<1>10. used' = [used EXCEPT ![month][op] = @ + l.cost]
  BY <1>0, <1>9 DEF Count
<1>11. /\ used' \in [Months -> [{"draft", "validate"} -> Nat]]
       /\ UsedIn(month)' = UsedIn(month) + l.cost
       /\ \A m \in Months \ {month} : UsedIn(m)' = UsedIn(m)
  <2>1. month \in Months /\ used \in [Months -> [{"draft", "validate"} -> Nat]]
    BY <1>1 DEF CopilotTypes
  <2>2. PICK u \in [{"draft", "validate"} -> Nat] : u = used[month]
    BY <2>1
  <2>3. PICK v : v = [u EXCEPT ![op] = @ + l.cost]
    OBVIOUS
  <2>4. used' = [used EXCEPT ![month] = v]
    BY <1>10, <2>2, <2>3
  <2>5. v \in [{"draft", "validate"} -> Nat] /\ v["draft"] + v["validate"] = u["draft"] + u["validate"] + l.cost
    <3>1. u["draft"] \in Nat /\ u["validate"] \in Nat /\ u[op] + l.cost \in Nat
      BY <1>8, <2>2
    <3>2. v \in [{"draft", "validate"} -> Nat]
      BY <2>2, <2>3, <3>1
    <3>3. CASE op = "draft"
      BY <1>8, <2>2, <2>3, <3>1, <3>3
    <3>4. CASE op = "validate"
      BY <1>8, <2>2, <2>3, <3>1, <3>4
    <3> QED
      BY <1>9, <3>2, <3>3, <3>4
  <2>6. used'[month] = v /\ \A m \in Months \ {month} : used'[m] = used[m]
    BY <2>1, <2>4
  <2>7. used' \in [Months -> [{"draft", "validate"} -> Nat]]
    BY <2>1, <2>4, <2>5
  <2>8. UsedIn(month)' = v["draft"] + v["validate"] /\ UsedIn(month) = u["draft"] + u["validate"]
    BY <1>1, <2>2, <2>6 DEF UsedIn
  <2>9. \A m \in Months \ {month} : UsedIn(m)' = UsedIn(m)
    BY <2>6 DEF UsedIn
  <2> QED
    BY <2>5, <2>7, <2>8, <2>9
<1>12. CopilotTypes'
  BY <1>1, <1>7, <1>11 DEF CopilotTypes
<1>13. SumFunctionOnSet(CountedIn, Months)' = SumFunctionOnSet(CountedIn, Months) + l.cost
  <2>1. PICK e, f : e = CountedIn /\ f = CountedIn'
    OBVIOUS
  <2>2. /\ month \in Months /\ IsFiniteSet(Months)
        /\ \A m \in Months : e[m] = UsedIn(m) /\ UsedIn(m) \in Nat
    BY <1>1, <2>1, CopilotNumbers
  <2>3. \A m \in Months : f[m] = UsedIn(m)'
    BY <2>1 DEF CountedIn
  <2>4. PICK y \in Months : y = month
    BY <2>2
  <2>8. f[y] = e[y] + l.cost
    <3>1. UsedIn(y)' = UsedIn(month)' /\ UsedIn(y) = UsedIn(month)
      BY <1>1, <2>4 DEF UsedIn
    <3>2. e[y] = UsedIn(y) /\ f[y] = UsedIn(y)'
      BY <2>2, <2>3
    <3> QED
      BY <1>11, <3>1, <3>2
  <2>9. \A m \in Months \ {y} : e[m] = f[m]
    BY <1>11, <2>2, <2>3, <2>4
  <2>5. \A m \in Months : e[m] \in Int /\ f[m] \in Int
    <3>1. \A m \in Months : e[m] \in Int
      BY <2>2
    <3> QED
      BY <1>8, <2>8, <2>9, <3>1
  <2>6. SumFunctionOnSet(f, Months) = SumFunctionOnSet(e, Months) + f[y] - e[y]
    BY <2>2, <2>9, <2>5, SumChanges
  <2>7. SumFunctionOnSet(e, Months) \in Int
    BY <2>2, <2>5, SumType
  <2> QED
    BY <1>8, <2>1, <2>5, <2>6, <2>7, <2>8
<1>14. SumFunctionOnSet(Owed, Asks) \in Int /\ SumFunctionOnSet(CountedIn, Months) \in Int
  BY <1>1, CopilotNumbers, CopilotAssumption, SumType
<1>15. billed' = SumFunctionOnSet(CountedIn, Months)' + SumFunctionOnSet(Owed, Asks)'
  BY <1>1, <1>7, <1>8, <1>13, <1>14 DEF CopilotInv
<1>16. settings # Nothing
  BY <1>0, <1>1 DEF CopilotInv, FirstUse
<1>17. RoomIsLeft'
  <2> SUFFICES ASSUME settings.quota # 0
               PROVE  UsedIn(month)' + Max(Costs) * Cardinality(Flying')
                        < settings.quota + Max(Costs) * Cardinality(Asks)
    BY <1>1 DEF RoomIsLeft
  <2>1. PICK n : n = Cardinality(Flying')
    OBVIOUS
  <2>2. n \in Nat /\ Cardinality(Flying) = n + 1
    <3>1. r \in Flying /\ Flying' = Flying \ {r} /\ IsFiniteSet(Flying)
      BY <1>0, <1>1, <1>7, <1>8, CopilotNumbers DEF Flying
    <3>2. Cardinality(Flying') = Cardinality(Flying) - 1 /\ IsFiniteSet(Flying')
      BY <3>1, FS_RemoveElement
    <3>3. Cardinality(Flying') \in Nat /\ Cardinality(Flying) \in Nat
      BY <3>1, <3>2, FS_CardinalityType
    <3> QED
      BY <2>1, <3>2, <3>3
  <2>3. UsedIn(month) + Max(Costs) * Cardinality(Flying) < settings.quota + Max(Costs) * Cardinality(Asks)
    BY <1>16 DEF CopilotInv, RoomIsLeft
  <2>4. UsedIn(month) \in Nat /\ Max(Costs) \in Nat /\ Cardinality(Asks) \in Nat /\ settings.quota \in Nat
    BY <1>1, <1>16, CopilotNumbers DEF CopilotTypes, Settings
  <2>5. PICK k \in Nat : k = Max(Costs)
    BY <2>4
  <2>6. k * (n + 1) = k * n + k /\ k * n \in Nat /\ k * Cardinality(Asks) \in Nat
    BY <2>2, <2>4
  <2> QED
    BY <1>8, <1>11, <2>1, <2>2, <2>3, <2>4, <2>5, <2>6
<1>18. FirstUse'
  BY <1>1, <1>16 DEF FirstUse
<1>19. \A s \in Asks : AskHolds(ask'[s])
  BY <1>6, <1>7 DEF CopilotInv
<1>20. \A m \in Months : m > month' => UsedIn(m)' = 0
  <2>1. \A m \in Months : m > month => m # month
    BY <1>1, CopilotNumbers
  <2> QED
    BY <1>1, <1>11, <2>1 DEF CopilotInv
<1> QED
  BY <1>12, <1>15, <1>17, <1>18, <1>19, <1>20 DEF CopilotInv

\* A new month has used nothing.
LEMMA MonthsPass ==
    ASSUME CopilotInv, NextMonth
    PROVE  CopilotInv'
<1>1. CopilotTypes /\ month' = month + 1 /\ month < LastMonth /\ UNCHANGED <<settings, used, reusable, ask, billed>>
  BY DEF CopilotInv, NextMonth
<1>2. month' \in Months /\ \A m \in Months : m > month' => m > month
  BY <1>1, CopilotNumbers, CopilotAssumption DEF Months
<1>3. CopilotTypes'
  BY <1>1, <1>2 DEF CopilotTypes
<1>4. \A m \in Months : UsedIn(m)' = UsedIn(m)
  BY <1>1 DEF UsedIn
<1>5. UsedIn(month') = 0 /\ UsedIn(month)' = UsedIn(month')
  <2>1. month' > month
    BY <1>1, CopilotNumbers
  <2>2. UsedIn(month') = 0
    BY <1>2, <2>1 DEF CopilotInv
  <2> QED
    BY <1>1, <2>2 DEF UsedIn
<1>6. CountedIn' = CountedIn /\ Owed' = Owed /\ Flying' = Flying
  BY <1>1, <1>4 DEF CountedIn, Owed, Flying
<1>7. RoomIsLeft'
  <2> SUFFICES ASSUME settings # Nothing, settings.quota # 0
               PROVE  0 + Max(Costs) * Cardinality(Flying) < settings.quota + Max(Costs) * Cardinality(Asks)
    BY <1>1, <1>5, <1>6 DEF RoomIsLeft
  <2>1. settings.quota \in Nat /\ Max(Costs) \in Nat
    BY <1>1, CopilotNumbers DEF CopilotTypes, Settings
  <2>2. /\ Cardinality(Flying) \in Nat /\ Cardinality(Asks) \in Nat
        /\ Cardinality(Flying) <= Cardinality(Asks)
    BY <1>1, CopilotNumbers
  <2>3. /\ Max(Costs) * Cardinality(Flying) <= Max(Costs) * Cardinality(Asks)
        /\ Max(Costs) * Cardinality(Flying) \in Nat /\ Max(Costs) * Cardinality(Asks) \in Nat
    BY <2>1, <2>2
  <2> QED
    BY <2>1, <2>3
<1>8. FirstUse'
  BY <1>1, <1>5 DEF CopilotInv, FirstUse
<1>9. \A m \in Months : m > month' => UsedIn(m)' = 0
  BY <1>2, <1>4 DEF CopilotInv
<1>10. billed' = SumFunctionOnSet(CountedIn, Months)' + SumFunctionOnSet(Owed, Asks)'
  BY <1>1, <1>6 DEF CopilotInv
<1>11. \A s \in Asks : AskHolds(ask'[s])
  BY <1>1 DEF CopilotInv
<1> QED
  BY <1>3, <1>7, <1>8, <1>9, <1>10, <1>11 DEF CopilotInv

\* Every step keeps the count and the room there is.
LEMMA NextCopilot == ASSUME CopilotInv, [Assist]_copilotVars PROVE CopilotInv'
<1>1. ASSUME UNCHANGED <<settings, month, used, ask, billed>>,
             reusable' \in [Prompts -> {Nothing} \cup Answers]
      PROVE  CopilotInv'
  <2>1. \A m \in Months : UsedIn(m)' = UsedIn(m)
    BY <1>1 DEF UsedIn
  <2>2. CountedIn' = CountedIn /\ Owed' = Owed /\ Flying' = Flying
    BY <1>1, <2>1 DEF CountedIn, Owed, Flying
  <2>3. CopilotTypes'
    BY <1>1 DEF CopilotInv, CopilotTypes
  <2>4. UsedIn(month)' = UsedIn(month)
    BY <1>1 DEF UsedIn
  <2>5. RoomIsLeft' /\ FirstUse'
    BY <1>1, <2>2, <2>4 DEF CopilotInv, RoomIsLeft, FirstUse
  <2>6. (\A m \in Months : m > month' => UsedIn(m)' = 0) /\ \A s \in Asks : AskHolds(ask'[s])
    BY <1>1, <2>1 DEF CopilotInv
  <2>7. billed' = SumFunctionOnSet(CountedIn, Months)' + SumFunctionOnSet(Owed, Asks)'
    BY <1>1, <2>2 DEF CopilotInv
  <2> QED
    BY <2>3, <2>5, <2>6, <2>7 DEF CopilotInv
<1>2. CASE \E p \in Prompts : Forget(p)
  <2>1. UNCHANGED <<settings, month, used, ask, billed>>
    BY <1>2 DEF Forget
  <2>2. reusable' \in [Prompts -> {Nothing} \cup Answers]
    BY <1>2 DEF Forget, CopilotInv, CopilotTypes
  <2> QED
    BY <1>1, <2>1, <2>2
<1>3. CASE UNCHANGED copilotVars
  <2>1. UNCHANGED <<settings, month, used, ask, billed, reusable>>
    BY <1>3 DEF copilotVars
  <2> QED
    BY <1>1, <2>1 DEF CopilotInv, CopilotTypes
<1> QED
  BY <1>2, <1>3, Asking, FirstUses, ProviderAnswers, Counts, MonthsPass DEF Assist

\* Nothing is used, asked or owed at first.
LEMMA InitCopilot ==
    ASSUME NEW row \in {Nothing} \cup Settings, CopilotInit(row)
    PROVE  CopilotInv
<1>1. /\ settings = row /\ month = 0 /\ billed = 0
      /\ used = [m \in Months |-> [o \in {"draft", "validate"} |-> 0]]
      /\ reusable = [p \in Prompts |-> Nothing] /\ ask = [r \in Asks |-> NoAsk]
  BY DEF CopilotInit
<1>2. NoAsk \in AskRow /\ NoAsk.stage = "none"
  BY DEF NoAsk, AskRow
<1>3. 0 \in Months
  BY CopilotAssumption DEF Months
<1>4. CopilotTypes
  BY <1>1, <1>2, <1>3 DEF CopilotTypes
<1>5. \A m \in Months : UsedIn(m) = 0
  BY <1>1 DEF UsedIn
<1>6. Flying = {} /\ \A r \in Asks : Owed[r] = 0
  BY <1>1, <1>2 DEF Flying, Owed
<1>7. Cardinality(Flying) = 0
  BY <1>6, FS_EmptySet
<1>8. RoomIsLeft
  <2> SUFFICES ASSUME settings # Nothing, settings.quota # 0
               PROVE  0 + Max(Costs) * 0 < settings.quota + Max(Costs) * Cardinality(Asks)
    BY <1>1, <1>3, <1>5, <1>7 DEF RoomIsLeft
  <2>1. settings.quota \in Nat /\ Max(Costs) \in Nat /\ Cardinality(Asks) \in Nat
    BY <1>4, CopilotNumbers DEF CopilotTypes, Settings
  <2>2. Max(Costs) * Cardinality(Asks) \in Nat /\ Max(Costs) * 0 = 0
    BY <2>1
  <2> QED
    BY <2>1, <2>2
<1>9. FirstUse
  BY <1>1, <1>2, <1>3, <1>5 DEF FirstUse
<1>10. \A r \in Asks : AskHolds(ask[r])
  BY <1>1, <1>2 DEF AskHolds
<1>11. SumFunctionOnSet(CountedIn, Months) = 0 /\ SumFunctionOnSet(Owed, Asks) = 0
  <2>1. ASSUME NEW S, IsFiniteSet(S), NEW f, \A x \in S : f[x] = 0 PROVE SumFunctionOnSet(f, S) = 0
    <3>1. \A x \in S : f[x] \in Int /\ f[x] = 0 * f[x]
      BY <2>1
    <3>2. SumFunctionOnSet(f, S) = 0 * SumFunctionOnSet(f, S) /\ SumFunctionOnSet(f, S) \in Int
      BY <2>1, <3>1, SumOfScaled, SumType
    <3> QED
      BY <3>2
  <2> QED
    BY <1>4, <1>5, <1>6, <2>1, CopilotNumbers, CopilotAssumption
<1> QED
  BY <1>1, <1>4, <1>5, <1>8, <1>9, <1>10, <1>11 DEF CopilotInv

\* The count and the room are enough.
LEMMA CopilotHolds ==
    ASSUME CopilotInv
    PROVE  AssistantIsExact
<1>1. CopilotTypes
  BY DEF CopilotInv
<1>2. CopilotTypeOK
  <2>1. \A r \in Asks : ask[r] \in AskRow
    BY <1>1 DEF CopilotTypes
  <2> QED
    BY <1>1, <2>1 DEF CopilotTypes, CopilotTypeOK, AskRow, Settings
<1>3. QuotaPassedOnce
  <2> SUFFICES ASSUME settings # Nothing, settings.quota # 0
               PROVE  UsedIn(month) < settings.quota + Max(Costs) * Cardinality(Asks)
    BY DEF QuotaPassedOnce
  <2>1. UsedIn(month) + Max(Costs) * Cardinality(Flying) < settings.quota + Max(Costs) * Cardinality(Asks)
    BY DEF CopilotInv, RoomIsLeft
  <2>2. UsedIn(month) \in Nat /\ settings.quota \in Nat
    BY <1>1, CopilotNumbers DEF CopilotTypes, Settings
  <2>3. Max(Costs) * Cardinality(Flying) \in Nat /\ Max(Costs) * Cardinality(Asks) \in Nat
    BY <1>1, CopilotNumbers
  <2> QED
    BY <2>1, <2>2, <2>3
<1>4. TokensCountedOnce
  BY DEF CopilotInv, TokensCountedOnce, CountedIn, Owed
<1>5. ServedAsWritten
  BY DEF CopilotInv, ServedAsWritten, AskHolds
<1> QED
  BY <1>2, <1>3, <1>4, <1>5 DEF AssistantIsExact

\* Whoever asks at once, in any month: the quota is passed by no more than one
\* answer each, every token of the provider is counted once, what is served as an
\* analysis can be read, and only a reused answer is off topic.
THEOREM AssistantExact == CopilotSpec => []AssistantIsExact
<1>1. (\E row \in {Nothing} \cup [enabled : BOOLEAN, quota : Nat] : CopilotInit(row)) => CopilotInv
  BY InitCopilot DEF Settings
<1>2. CopilotInv /\ [Assist]_copilotVars => CopilotInv'
  BY NextCopilot
<1>3. CopilotInv => AssistantIsExact
  BY CopilotHolds
<1> QED
  BY <1>1, <1>2, <1>3, PTL DEF CopilotSpec

-----------------------------------------------------------------------------
(***************************************************************************)
(* AuditTrail: a page goes on where the last one ended.                    *)
(***************************************************************************)

\* Events that can be told apart by their ids.
Identified(S) == \A e, f \in S : e.id = f.id => e = f

\* The order of the listing is total, because ids break the ties of instants.
LEMMA Precedence ==
    ASSUME NEW S \in SUBSET Events, Identified(S)
    PROVE  \A e, f, g \in S :
             /\ ~Precedes(e, e)
             /\ Precedes(e, f) /\ Precedes(f, g) => Precedes(e, g)
             /\ e = f \/ Precedes(e, f) \/ Precedes(f, e)
             /\ PastCursor(e, f) <=> Precedes(f, e)
<1>1. ASSUME NEW e \in S PROVE e.at \in Int /\ e.id \in Int
  <2>1. e \in Events /\ EventIds \subseteq Nat
    BY AuditAssumption
  <2>2. e.at \in 0 .. LastInstant /\ e.id \in EventIds
    BY <2>1 DEF Events
  <2>3. e.id \in Nat
    BY <2>1, <2>2
  <2>4. \A n \in 0 .. LastInstant : n \in Int
    BY AuditAssumption
  <2> QED
    BY <2>2, <2>3, <2>4
<1> QED
  BY <1>1 DEF Precedes, PastCursor, Identified

\* Of some of these sets one has none of the others inside.
LEMMA SmallestOf ==
    ASSUME NEW S, IsFiniteSet(S), S # {}, NEW f \in [S -> SUBSET S]
    PROVE  \E e \in S : \A g \in S : f[g] \subseteq f[e] => f[g] = f[e]
<1> DEFINE T == {f[e] : e \in S}
<1>1. T \subseteq SUBSET S /\ T # {}
  OBVIOUS
<1>2. IsWellFoundedOn(StrictSubsetOrdering(S), SUBSET S)
  BY FS_FiniteSubsetsOfFinite, FS_StrictSubsetOrderingWellFounded
<1>3. PICK x \in T : \A y \in T : <<y, x>> \notin StrictSubsetOrdering(S)
  <2> HIDE DEF T
  <2> QED
    BY <1>1, <1>2, WFMin
<1>4. PICK e \in S : x = f[e]
  OBVIOUS
<1>5. \A g \in S : f[g] \subseteq f[e] => f[g] = f[e]
  BY <1>3, <1>4 DEF StrictSubsetOrdering
<1> QED
  BY <1>5

\* Some events, if there are any, have a first and a last one.
LEMMA FirstAndLast ==
    ASSUME NEW S \in SUBSET Events, Identified(S), IsFiniteSet(S), S # {}
    PROVE  /\ \E e \in S : \A f \in S : ~Precedes(f, e)
           /\ \E e \in S : \A f \in S : f = e \/ Precedes(f, e)
<1> DEFINE before == [e \in S |-> {f \in S : Precedes(f, e)}]
           after == [e \in S |-> {f \in S : Precedes(e, f)}]
<1>0. \A e, f, g \in S :
        /\ ~Precedes(e, e)
        /\ Precedes(e, f) /\ Precedes(f, g) => Precedes(e, g)
        /\ e = f \/ Precedes(e, f) \/ Precedes(f, e)
  BY Precedence
<1>1. \E e \in S : \A f \in S : ~Precedes(f, e)
  <2>1. before \in [S -> SUBSET S]
    OBVIOUS
  <2>2. PICK e \in S : \A g \in S : before[g] \subseteq before[e] => before[g] = before[e]
    <3> HIDE DEF before
    <3> QED
      BY <2>1, SmallestOf
  <2>3. ASSUME NEW f \in S, Precedes(f, e) PROVE FALSE
    <3>1. before[f] \subseteq before[e]
      BY <1>0, <2>3
    <3>2. f \in before[e] /\ f \notin before[f]
      BY <1>0, <2>3
    <3> QED
      BY <2>2, <3>1, <3>2
  <2> QED
    BY <2>3
<1>2. \E e \in S : \A f \in S : f = e \/ Precedes(f, e)
  <2>1. after \in [S -> SUBSET S]
    OBVIOUS
  <2>2. PICK e \in S : \A g \in S : after[g] \subseteq after[e] => after[g] = after[e]
    <3> HIDE DEF after
    <3> QED
      BY <2>1, SmallestOf
  <2>3. ASSUME NEW f \in S, Precedes(e, f) PROVE FALSE
    <3>1. after[f] \subseteq after[e]
      BY <1>0, <2>3
    <3>2. f \in after[e] /\ f \notin after[f]
      BY <1>0, <2>3
    <3> QED
      BY <2>2, <3>1, <3>2
  <2> QED
    BY <1>0, <2>3
<1> QED
  BY <1>1, <1>2

\* A page holds what precedes what it holds, comes before all it leaves out,
\* and is empty only if there is nothing to list.
LEMMA PageIsFirst ==
    ASSUME NEW rows \in SUBSET Events, Identified(rows), IsFiniteSet(rows), NEW limit \in Nat \ {0}
    PROVE  /\ PageOf(rows, limit) \subseteq rows
           /\ \A e \in PageOf(rows, limit), g \in rows \ PageOf(rows, limit) : Precedes(e, g)
           /\ rows # {} => PageOf(rows, limit) # {}
<1> DEFINE before(e) == {f \in rows : Precedes(f, e)}
           page == PageOf(rows, limit)
<1>0. \A e, f, g \in rows :
        /\ ~Precedes(e, e)
        /\ Precedes(e, f) /\ Precedes(f, g) => Precedes(e, g)
        /\ e = f \/ Precedes(e, f) \/ Precedes(f, e)
  BY Precedence
<1>1. \A e \in rows : IsFiniteSet(before(e)) /\ Cardinality(before(e)) \in Nat
  BY FS_Subset, FS_CardinalityType
<1>2. page = {e \in rows : Cardinality(before(e)) < limit}
  BY DEF PageOf
<1>3. ASSUME NEW e \in page, NEW g \in rows \ page PROVE Precedes(e, g)
  <2> SUFFICES ASSUME Precedes(g, e) PROVE FALSE
    BY <1>0, <1>2, <1>3
  <2>1. before(g) \in SUBSET before(e)
    BY <1>0, <1>2
  <2>2. Cardinality(before(g)) <= Cardinality(before(e))
    BY <1>1, <1>2, <2>1, FS_Subset
  <2> HIDE DEF before
  <2>3. Cardinality(before(g)) \in Nat /\ Cardinality(before(e)) \in Nat /\ Cardinality(before(e)) < limit
    BY <1>1, <1>2
  <2> QED
    BY <1>2, <2>2, <2>3
<1>4. ASSUME rows # {} PROVE page # {}
  <2>1. PICK e \in rows : \A f \in rows : ~Precedes(f, e)
    BY <1>4, FirstAndLast
  <2>2. before(e) = {}
    BY <2>1
  <2>3. Cardinality(before(e)) = 0
    BY <2>2, FS_EmptySet
  <2> QED
    BY <1>2, <2>3
<1> QED
  BY <1>2, <1>3, <1>4

\* The last event of a page that is not empty.
LEMMA LastIsLast ==
    ASSUME NEW page \in SUBSET Events, Identified(page), IsFiniteSet(page), page # {}
    PROVE  LastOf(page) \in page /\ \A f \in page : f = LastOf(page) \/ Precedes(f, LastOf(page))
<1>1. \E e \in page : \A f \in page : f = e \/ Precedes(f, e)
  BY FirstAndLast
<1> QED
  BY <1>1 DEF LastOf

-----------------------------------------------------------------------------
WrittenEvents == UNION {written[t] : t \in Writers}

\* What a reader has been answered, by what there is in the trail: what there
\* was at the first page and is not listed yet follows all that is.
Exact(l) ==
    /\ l.there \subseteq Matching(l.owner)
    /\ l.seen \cup l.page \subseteq Matching(l.owner)
    /\ \A e \in l.page, f \in l.seen : Precedes(f, e)
    /\ l.more => l.page # {}
    /\ \A e \in l.there \ (l.seen \cup l.page) : l.more /\ \A f \in l.page : Precedes(f, e)

Listing == [owner : Owners \cup {Anyone}, page : SUBSET trail, more : BOOLEAN,
            seen : SUBSET trail, there : SUBSET trail]
TrailInv ==
    /\ instant \in 0 .. LastInstant
    /\ trail \subseteq Events /\ IsFiniteSet(trail)
    /\ written \in [Writers -> SUBSET Events]
    /\ \A t \in Writers : IsFiniteSet(written[t])
    /\ Identified(trail \cup WrittenEvents)
    /\ DOMAIN listing = Readers
    /\ \A r \in Readers : listing[r] # Unread => listing[r] \in Listing /\ Exact(listing[r])

\* A listing does not change when events are committed after it.
LEMMA ListingStays ==
    ASSUME TrailInv, trail \subseteq trail', UNCHANGED listing, NEW r \in Readers, listing[r] # Unread
    PROVE  (listing[r] \in Listing /\ Exact(listing[r]))'
<1>1. PICK l : l = listing[r]
  OBVIOUS
<1>2. l \in Listing /\ Exact(l)
  BY <1>1 DEF TrailInv
<1>3. l \in Listing'
  BY <1>2 DEF Listing
<1>4. Matching(l.owner) \subseteq Matching(l.owner)'
  BY DEF Matching
<1>5. Exact(l)'
  BY <1>2, <1>4 DEF Exact
<1> QED
  BY <1>1, <1>3, <1>5

\* The answer of a page.
LEMMA PageAnswered ==
    ASSUME TrailInv, UNCHANGED <<instant, trail, written>>, NEW r \in Readers, NEW l,
           listing' = [listing EXCEPT ![r] = l], l \in Listing, Exact(l)
    PROVE  TrailInv'
<1>1. UNCHANGED WrittenEvents
  BY DEF WrittenEvents
<1>2. ASSUME NEW q \in Readers, listing'[q] # Unread PROVE (listing[q] \in Listing /\ Exact(listing[q]))'
  <2>1. PICK k : k = listing'[q]
    OBVIOUS
  <2>2. k \in Listing /\ Exact(k)
    BY <1>2, <2>1 DEF TrailInv
  <2>3. k \in Listing' /\ Exact(k)'
    BY <2>2 DEF Listing, Exact, Matching
  <2> QED
    BY <2>1, <2>3
<1> QED
  BY <1>1, <1>2 DEF TrailInv

\* Every write, page and start keeps the listings right.
LEMMA NextTrail == ASSUME TrailInv, [Audit]_trailVars PROVE TrailInv'
<1>1. ASSUME NEW t \in Writers, NEW o \in Owners, EmitEvent(t, o) PROVE TrailInv'
  <2>1. PICK i, e :
          /\ i \in EventIds \ UsedIds /\ e = [id |-> i, at |-> instant, owner |-> o]
          /\ written' = [written EXCEPT ![t] = @ \cup {e}]
    BY <1>1 DEF EmitEvent
  <2>2. e \in Events /\ UNCHANGED <<instant, trail, listing>>
    BY <1>1, <2>1 DEF EmitEvent, TrailInv, Events
  <2>3. written' \in [Writers -> SUBSET Events] /\ \A u \in Writers : IsFiniteSet(written'[u])
    BY <2>1, <2>2, FS_AddElement DEF TrailInv
  <2>4. WrittenEvents' \subseteq WrittenEvents \cup {e}
    BY <2>1 DEF WrittenEvents, TrailInv
  <2>5. \A f \in trail \cup WrittenEvents : f.id # e.id
    BY <2>1 DEF UsedIds, WrittenEvents
  <2>6. Identified(trail \cup WrittenEvents)'
    BY <2>2, <2>4, <2>5 DEF Identified, TrailInv
  <2> QED
    BY <2>2, <2>3, <2>6, ListingStays DEF TrailInv
<1>2. ASSUME NEW t \in Writers, NEW commits \in BOOLEAN, EndTransaction(t, commits) PROVE TrailInv'
  <2>1. /\ written' = [written EXCEPT ![t] = {}] /\ UNCHANGED <<instant, listing>>
        /\ trail' = trail \/ trail' = trail \cup written[t]
    BY <1>2 DEF EndTransaction
  <2>2. trail \subseteq trail' /\ trail' \subseteq Events /\ IsFiniteSet(trail')
    BY <2>1, FS_Union DEF TrailInv
  <2>3. written' \in [Writers -> SUBSET Events] /\ \A u \in Writers : IsFiniteSet(written'[u])
    BY <2>1, FS_EmptySet DEF TrailInv
  <2>4. trail' \cup WrittenEvents' \subseteq trail \cup WrittenEvents
    BY <2>1 DEF WrittenEvents, TrailInv
  <2>5. Identified(trail \cup WrittenEvents)'
    BY <2>4 DEF Identified, TrailInv
  <2> QED
    BY <2>1, <2>2, <2>3, <2>5, ListingStays DEF TrailInv
<1>3. ASSUME Moment \/ UNCHANGED trailVars PROVE TrailInv'
  <2>1. instant' \in 0 .. LastInstant /\ UNCHANGED <<trail, written, listing>>
    BY <1>3, AuditAssumption DEF Moment, trailVars, TrailInv
  <2>2. UNCHANGED WrittenEvents
    BY <2>1 DEF WrittenEvents
  <2> QED
    BY <2>1, <2>2, ListingStays DEF TrailInv
<1>4. ASSUME NEW o PROVE Matching(o) \in SUBSET Events /\ Identified(Matching(o)) /\ IsFiniteSet(Matching(o))
  <2>1. Matching(o) \in SUBSET trail
    BY DEF Matching
  <2> QED
    BY <2>1, FS_Subset DEF TrailInv, Identified
<1>5. ASSUME NEW r \in Readers, NEW owner \in Owners \cup {Anyone}, NEW limit \in PageSizes,
             ListFirst(r, owner, limit)
      PROVE  TrailInv'
  <2>1. PICK rows, page : rows = Matching(owner) /\ page = PageOf(rows, limit)
    OBVIOUS
  <2>2. PICK l : l = [owner |-> owner, page |-> page, more |-> rows # page, seen |-> {}, there |-> rows]
    OBVIOUS
  <2>3. listing' = [listing EXCEPT ![r] = l] /\ UNCHANGED <<instant, trail, written>>
    BY <1>5, <2>1, <2>2 DEF ListFirst
  <2>4. /\ page \subseteq rows /\ rows \subseteq trail
        /\ \A e \in page, g \in rows \ page : Precedes(e, g)
        /\ rows # {} => page # {}
    <3>1. limit \in Nat \ {0}
      BY AuditAssumption
    <3>2. rows \subseteq trail
      BY <2>1 DEF Matching
    <3> QED
      BY <1>4, <2>1, <3>1, <3>2, PageIsFirst
  <2>5. l \in Listing
    BY <2>2, <2>4 DEF Listing
  <2>6. Exact(l)
    BY <2>1, <2>2, <2>4 DEF Exact
  <2> QED
    BY <2>3, <2>5, <2>6, PageAnswered
<1>6. ASSUME NEW r \in Readers, NEW limit \in PageSizes, ListNext(r, limit)
      PROVE  TrailInv'
  <2>0. PICK k : k = listing[r]
    OBVIOUS
  <2>1. PICK cursor, rows, page :
          /\ cursor = LastOf(k.page)
          /\ rows = {e \in Matching(k.owner) : PastCursor(e, cursor)}
          /\ page = PageOf(rows, limit)
    OBVIOUS
  <2>2. k \in Listing /\ Exact(k) /\ k.more
    BY <1>6, <2>0 DEF ListNext, TrailInv
  <2>3. PICK more, seen :
          more \in BOOLEAN /\ more = (rows # page) /\ seen = k.seen \cup k.page
    OBVIOUS
  <2>4. PICK l : l = [k EXCEPT !.page = page, !.more = more, !.seen = seen]
    OBVIOUS
  <2>5. listing' = [listing EXCEPT ![r] = l] /\ UNCHANGED <<instant, trail, written>>
    <3>1. listing' = [listing EXCEPT ![r].page = page, ![r].more = rows # page,
                                     ![r].seen = @ \cup listing[r].page]
      BY <1>6, <2>0, <2>1 DEF ListNext
    <3> QED
      BY <1>6, <2>0, <2>3, <2>4, <3>1 DEF ListNext
  <2>6. /\ l.owner = k.owner /\ l.there = k.there
         /\ l.page = page /\ l.more = more /\ l.seen = seen
    BY <2>2, <2>4 DEF Listing
  <2>7. PICK M : M = Matching(k.owner)
    OBVIOUS
  <2>8. M \in SUBSET Events /\ Identified(M) /\ IsFiniteSet(M) /\ M \subseteq trail
    BY <1>4, <2>7 DEF Matching
  <2>9. /\ k.page \subseteq M /\ k.seen \subseteq M /\ k.there \subseteq M /\ k.page # {}
        /\ \A e \in k.page, f \in k.seen : Precedes(f, e)
        /\ \A e \in k.there \ (k.seen \cup k.page) : \A f \in k.page : Precedes(f, e)
    BY <2>2, <2>7 DEF Exact
  <2>10. cursor \in k.page /\ \A f \in k.page : f = cursor \/ Precedes(f, cursor)
    <3>1. IsFiniteSet(k.page) /\ k.page \in SUBSET Events /\ Identified(k.page)
      BY <2>8, <2>9, FS_Subset DEF Identified
    <3> QED
      BY <2>1, <2>9, <3>1, LastIsLast
  <2>11. /\ \A e, f, g \in M : Precedes(e, f) /\ Precedes(f, g) => Precedes(e, g)
        /\ \A e, f \in M : PastCursor(e, f) <=> Precedes(f, e)
    BY <2>8, Precedence
  <2>12. rows = {e \in M : Precedes(cursor, e)}
    BY <2>1, <2>7, <2>9, <2>10, <2>11
  <2>13. /\ page \subseteq rows
         /\ \A e \in page, g \in rows \ page : Precedes(e, g)
         /\ rows # {} => page # {}
    <3>1. limit \in Nat \ {0}
      BY AuditAssumption
    <3>2. rows \in SUBSET M
      BY <2>12
    <3>3. rows \in SUBSET Events /\ Identified(rows) /\ IsFiniteSet(rows)
      BY <2>8, <3>2, FS_Subset DEF Identified
    <3> QED
      BY <2>1, <3>1, <3>3, PageIsFirst
  <2>14. \A e \in rows, f \in k.seen \cup k.page : Precedes(f, e)
    BY <2>9, <2>10, <2>11, <2>12
  <2>15. l \in Listing
    <3>1. page \in SUBSET trail /\ seen \in SUBSET trail
      BY <2>3, <2>8, <2>9, <2>12, <2>13
    <3> QED
      BY <2>2, <2>3, <2>4, <3>1 DEF Listing
  <2>16. Exact(l)
    <3>1. \A e \in k.there \ (k.seen \cup k.page) : e \in rows
      BY <2>9, <2>10, <2>12
    <3> QED
      BY <2>3, <2>7, <2>9, <2>12, <2>13, <2>14, <2>6, <3>1 DEF Exact
  <2> QED
    BY <2>15, <2>16, <2>5, PageAnswered
<1> QED
  BY <1>1, <1>2, <1>3, <1>5, <1>6 DEF Audit

\* However many transactions write events and commit, in whatever order, while
\* readers list them, and whatever sizes of page they ask for, no event is
\* listed twice, pages come in the order of the trail, and a listing that has
\* ended has left out nothing that there was when it began ("cursor basado en
\* (occurred_at, id) es estable"; AuditQueryService.listEvents).
THEOREM PagesExact == AuditSpec => []PagesAreExact
<1>1. AuditInit => TrailInv
  <2> SUFFICES ASSUME AuditInit PROVE TrailInv
    OBVIOUS
  <2>1. WrittenEvents = {}
    BY DEF AuditInit, WrittenEvents
  <2> QED
    BY <2>1, FS_EmptySet, AuditAssumption DEF AuditInit, TrailInv, Identified
<1>2. TrailInv /\ [Audit]_trailVars => TrailInv'
  BY NextTrail
<1>3. TrailInv => PagesAreExact
  BY DEF TrailInv, Exact, Listing, PagesAreExact, AuditTypeOK
<1> QED
  BY <1>1, <1>2, <1>3, PTL DEF AuditSpec

-----------------------------------------------------------------------------
(***************************************************************************)
(* The doors.  The routes are what the controllers of the code declare:    *)
(* what is said of them is proved of each controller, and of all of them   *)
(* together.  What the limiter remembers is related to all it ever let     *)
(* through: a memory Fits a history when each window holds as much of the  *)
(* one as of the other.                                                    *)
(***************************************************************************)

-----------------------------------------------------------------------------
(***************************************************************************)
(* What is later than a time, in a sequence of times.                      *)
(***************************************************************************)

\* What holds of the empty sequence and of every longer one holds of all.
LEMMA Longer ==
    ASSUME NEW S, NEW Good, <<>> \in Good,
           \A s \in Seq(S), x \in S : s \in Good => Append(s, x) \in Good
    PROVE  Seq(S) \subseteq Good
<1> SUFFICES ASSUME NEW bad \in Seq(S), bad \notin Good PROVE FALSE
  OBVIOUS
<1> DEFINE Lengths == {Len(s) : s \in {r \in Seq(S) : r \notin Good}}
<1>1. Lengths \subseteq Nat /\ Lengths # {}
  BY LenProperties
<1>2. PICK m \in Lengths : \A n \in Lengths : <<n, m>> \notin OpToRel(<, Nat)
  <2> HIDE DEF Lengths
  <2> QED
    BY <1>1, NatLessThanWellFounded, WFMin
<1>3. PICK s \in Seq(S) : s \notin Good /\ Len(s) = m
  OBVIOUS
<1>4. PICK r \in Seq(S), x \in S : s = Append(r, x)
  BY <1>3, SequenceEmptyOrAppend
<1>5. Len(r) \in Nat /\ Len(s) = Len(r) + 1
  BY <1>4, AppendProperties, LenProperties
<1>6. <<Len(r), m>> \in OpToRel(<, Nat)
  BY <1>1, <1>3, <1>5 DEF OpToRel
<1>7. r \notin Good
  BY <1>3, <1>4
<1>8. Len(r) \in Lengths
  BY <1>7
<1> QED
  BY <1>2, <1>6, <1>8

\* What After keeps of every beginning of the times.
Keeps(times, t, kept) ==
    kept = [n \in 0 .. Len(times) |->
               IF n = 0 THEN <<>>
               ELSE IF times[n] > t THEN Append(kept[n - 1], times[n]) ELSE kept[n - 1]]

\* What it keeps, entry by entry.
LEMMA KeepsUnfolds ==
    ASSUME NEW times, Len(times) \in Nat, NEW t, NEW f, Keeps(times, t, f)
    PROVE  /\ f = [n \in 0 .. Len(times) |-> f[n]]
           /\ f[0] = <<>>
           /\ \A n \in 1 .. Len(times) :
                f[n] = IF times[n] > t THEN Append(f[n - 1], times[n]) ELSE f[n - 1]
<1> DEFINE g == [n \in 0 .. Len(times) |->
                   IF n = 0 THEN <<>>
                   ELSE IF times[n] > t THEN Append(f[n - 1], times[n]) ELSE f[n - 1]]
<1>1. f = g
  BY DEF Keeps
<1>2. g = [n \in 0 .. Len(times) |-> g[n]]
  OBVIOUS
<1>3. \A n \in 0 .. Len(times) :
        g[n] = IF n = 0 THEN <<>>
               ELSE IF times[n] > t THEN Append(f[n - 1], times[n]) ELSE f[n - 1]
  OBVIOUS
<1>4. 0 \in 0 .. Len(times) /\ \A n \in 1 .. Len(times) : n \in 0 .. Len(times) /\ n # 0
  OBVIOUS
<1>5. f = [n \in 0 .. Len(times) |-> f[n]]
  BY <1>1, <1>2
<1>6. \A n \in 0 .. Len(times) : f[n] = g[n]
  BY <1>1
<1> HIDE DEF g
<1> QED
  BY <1>3, <1>4, <1>5, <1>6

\* It is a function, and there is one only.
LEMMA KeepsOnce ==
    ASSUME NEW times, Len(times) \in Nat, NEW t,
           NEW f, Keeps(times, t, f), NEW g, Keeps(times, t, g)
    PROVE  f = g
<1> DEFINE N == Len(times)
           Differ == {n \in 0 .. N : f[n] # g[n]}
<1>0. /\ f = [n \in 0 .. N |-> f[n]] /\ g = [n \in 0 .. N |-> g[n]]
      /\ f[0] = <<>> /\ g[0] = <<>>
      /\ \A n \in 1 .. N :
           /\ f[n] = IF times[n] > t THEN Append(f[n - 1], times[n]) ELSE f[n - 1]
           /\ g[n] = IF times[n] > t THEN Append(g[n - 1], times[n]) ELSE g[n - 1]
  BY KeepsUnfolds
<1>1. CASE Differ = {}
  BY <1>0, <1>1
<1>2. CASE Differ # {}
  <2>1. Differ \subseteq Nat
    OBVIOUS
  <2>2. PICK m \in Differ : \A n \in Differ : <<n, m>> \notin OpToRel(<, Nat)
    <3> HIDE DEF Differ
    <3> QED
      BY <1>2, <2>1, NatLessThanWellFounded, WFMin
  <2>3. m # 0 /\ m \in 1 .. N /\ m - 1 \in 0 .. N
    BY <1>0
  <2>4. <<m - 1, m>> \in OpToRel(<, Nat)
    BY <2>3 DEF OpToRel
  <2>5. f[m - 1] = g[m - 1]
    BY <2>2, <2>3, <2>4
  <2>6. f[m] = g[m]
    BY <1>0, <2>3, <2>5
  <2> QED
    BY <2>6
<1> QED
  BY <1>1, <1>2

\* The last time is kept or not, after what is kept of the others.
LEMMA KeepsLonger ==
    ASSUME NEW times \in Seq(Int), NEW x \in Int, NEW t \in Int,
           NEW f, Keeps(times, t, f)
    PROVE  LET N == Len(times)
               g == [n \in 0 .. N + 1 |->
                       IF n <= N THEN f[n] ELSE IF x > t THEN Append(f[N], x) ELSE f[N]]
           IN  Keeps(Append(times, x), t, g)
<1> DEFINE N == Len(times)
           g == [n \in 0 .. N + 1 |->
                   IF n <= N THEN f[n] ELSE IF x > t THEN Append(f[N], x) ELSE f[N]]
           longer == Append(times, x)
<1>1. N \in Nat /\ Len(longer) = N + 1
  BY LenProperties, AppendProperties
<1>2. \A n \in 1 .. N : longer[n] = times[n]
  BY AppendProperties
<1>3. longer[N + 1] = x
  BY AppendProperties
<1>4. f[0] = <<>> /\ \A n \in 1 .. N :
          f[n] = IF times[n] > t THEN Append(f[n - 1], times[n]) ELSE f[n - 1]
  BY <1>1, KeepsUnfolds
<1> HIDE DEF longer, N
<1>5. g[0] = <<>>
  BY <1>1, <1>4
<1>6. ASSUME NEW n \in 1 .. N + 1
      PROVE  g[n] = IF longer[n] > t THEN Append(g[n - 1], longer[n]) ELSE g[n - 1]
  <2>1. CASE n <= N
    <3>1. n \in 1 .. N /\ n \in 0 .. N + 1 /\ n - 1 \in 0 .. N + 1 /\ n - 1 <= N
      BY <1>1, <2>1
    <3>2. g[n] = f[n] /\ g[n - 1] = f[n - 1] /\ longer[n] = times[n]
      BY <1>2, <2>1, <3>1
    <3> HIDE DEF g
    <3> QED
      BY <1>4, <3>1, <3>2
  <2>2. CASE n = N + 1
    <3>1. n \in 0 .. N + 1 /\ ~(n <= N) /\ n - 1 = N /\ N \in 0 .. N + 1 /\ N <= N
      BY <1>1, <2>2
    <3>2. g[n] = (IF x > t THEN Append(f[N], x) ELSE f[N]) /\ g[N] = f[N]
      BY <3>1
    <3> HIDE DEF g
    <3> QED
      BY <1>3, <2>2, <3>1, <3>2
  <2> QED
    BY <1>1, <2>1, <2>2
<1>7. g = [n \in 0 .. N + 1 |->
             IF n = 0 THEN <<>>
             ELSE IF longer[n] > t THEN Append(g[n - 1], longer[n]) ELSE g[n - 1]]
  <2> DEFINE h == [n \in 0 .. N + 1 |->
             IF n = 0 THEN <<>>
             ELSE IF longer[n] > t THEN Append(g[n - 1], longer[n]) ELSE g[n - 1]]
  <2>1. \A n \in 0 .. N + 1 : g[n] = h[n]
    <3>1. \A n \in 0 .. N + 1 : n = 0 \/ n \in 1 .. N + 1
      BY <1>1
    <3>2. \A n \in 0 .. N + 1 :
            h[n] = IF n = 0 THEN <<>>
                   ELSE IF longer[n] > t THEN Append(g[n - 1], longer[n]) ELSE g[n - 1]
      OBVIOUS
    <3> HIDE DEF h, g
    <3> QED
      BY <1>5, <1>6, <3>1, <3>2
  <2>2. g = [n \in 0 .. N + 1 |-> g[n]]
    OBVIOUS
  <2> HIDE DEF g
  <2> QED
    BY <2>1, <2>2
<1> QED
  BY <1>1, <1>7 DEF Keeps, longer, N

\* There is such a function for all times.
LEMMA KeepsExists ==
    ASSUME NEW times \in Seq(Int), NEW t \in Int
    PROVE  \E f : Keeps(times, t, f)
<1> DEFINE Good == {s \in Seq(Int) : \E f : Keeps(s, t, f)}
<1>1. <<>> \in Good
  <2> DEFINE f == [n \in 0 .. 0 |-> <<>>]
  <2>1. Len(<<>>) = 0 /\ <<>> \in Seq(Int)
    BY EmptySeq
  <2>2. Keeps(<<>>, t, f)
    BY <2>1 DEF Keeps
  <2> QED
    BY <2>1, <2>2
<1>2. ASSUME NEW s \in Seq(Int), NEW x \in Int, s \in Good PROVE Append(s, x) \in Good
  <2>1. PICK f : Keeps(s, t, f)
    BY <1>2
  <2>2. \E g : Keeps(Append(s, x), t, g)
    BY <2>1, KeepsLonger
  <2> QED
    BY <2>2, AppendProperties
<1>3. Seq(Int) \subseteq Good
  <2> HIDE DEF Good
  <2> QED
    BY <1>1, <1>2, Longer
<1> QED
  BY <1>3

\* The recursive function of After is that function.
LEMMA AfterIsKept ==
    ASSUME NEW times \in Seq(Int), NEW t \in Int, NEW f, Keeps(times, t, f)
    PROVE  After(times, t) = f[Len(times)]
<1> DEFINE g == CHOOSE k : Keeps(times, t, k)
<1>1. Keeps(times, t, g)
  OBVIOUS
<1>2. After(times, t) = g[Len(times)]
  BY DEF After, Keeps
<1>3. Len(times) \in Nat
  BY LenProperties
<1>4. f = g
  <2> HIDE DEF g
  <2> QED
    BY <1>1, <1>3, KeepsOnce
<1> QED
  BY <1>2, <1>4

\* What After keeps, time by time.
LEMMA AfterLonger ==
    ASSUME NEW t \in Int
    PROVE  /\ After(<<>>, t) = <<>>
           /\ \A s \in Seq(Int), x \in Int :
                After(Append(s, x), t) = IF x > t THEN Append(After(s, t), x) ELSE After(s, t)
<1>1. After(<<>>, t) = <<>>
  <2>1. Len(<<>>) = 0 /\ <<>> \in Seq(Int)
    BY EmptySeq
  <2>2. PICK f : Keeps(<<>>, t, f)
    BY <2>1, KeepsExists
  <2>3. f[0] = <<>>
    BY <2>1, <2>2 DEF Keeps
  <2> QED
    BY <2>1, <2>2, <2>3, AfterIsKept
<1>2. ASSUME NEW s \in Seq(Int), NEW x \in Int
      PROVE  After(Append(s, x), t) = IF x > t THEN Append(After(s, t), x) ELSE After(s, t)
  <2>1. PICK f : Keeps(s, t, f)
    BY KeepsExists
  <2> DEFINE N == Len(s)
             g == [n \in 0 .. N + 1 |->
                     IF n <= N THEN f[n] ELSE IF x > t THEN Append(f[N], x) ELSE f[N]]
  <2>2. Keeps(Append(s, x), t, g)
    BY <2>1, KeepsLonger
  <2>3. N \in Nat /\ Append(s, x) \in Seq(Int) /\ Len(Append(s, x)) = N + 1
    BY LenProperties, AppendProperties
  <2>4. g[N + 1] = IF x > t THEN Append(f[N], x) ELSE f[N]
    BY <2>3
  <2>5. After(s, t) = f[N]
    BY <2>1, AfterIsKept
  <2>6. After(Append(s, x), t) = g[N + 1]
    <3> HIDE DEF g
    <3> QED
      BY <2>2, <2>3, AfterIsKept
  <2> QED
    BY <2>4, <2>5, <2>6
<1> QED
  BY <1>1, <1>2

\* Times of the sequence, all of them later.
LEMMA AfterHasLater ==
    ASSUME NEW t \in Int
    PROVE  \A s \in Seq(Int) :
             /\ After(s, t) \in Seq(Int) /\ Len(After(s, t)) <= Len(s)
             /\ \A i \in 1 .. Len(After(s, t)) :
                  After(s, t)[i] > t /\ \E j \in 1 .. Len(s) : After(s, t)[i] = s[j]
<1> DEFINE Right(s) == /\ After(s, t) \in Seq(Int) /\ Len(After(s, t)) <= Len(s)
                       /\ \A i \in 1 .. Len(After(s, t)) :
                            After(s, t)[i] > t /\ \E j \in 1 .. Len(s) : After(s, t)[i] = s[j]
           Good == {s \in Seq(Int) : Right(s)}
<1>1. <<>> \in Good
  <2>1. After(<<>>, t) = <<>>
    BY AfterLonger
  <2>2. <<>> \in Seq(Int) /\ Len(<<>>) = 0
    BY EmptySeq
  <2>0. 1 .. Len(<<>>) = {}
    BY <2>2
  <2>3. 1 .. Len(After(<<>>, t)) = {} /\ Len(After(<<>>, t)) = 0 /\ After(<<>>, t) \in Seq(Int)
    BY <2>0, <2>1, <2>2, Zenon
  <2>4. Right(<<>>)
    BY <2>2, <2>3
  <2> QED
    BY <2>2, <2>4
<1>2. ASSUME NEW s \in Seq(Int), NEW x \in Int, s \in Good PROVE Append(s, x) \in Good
  <2> DEFINE a == After(s, t)
             b == After(Append(s, x), t)
  <2>1. /\ Append(s, x) \in Seq(Int) /\ Len(Append(s, x)) = Len(s) + 1 /\ Len(s) \in Nat
        /\ \A j \in 1 .. Len(s) : Append(s, x)[j] = s[j]
        /\ Append(s, x)[Len(s) + 1] = x
    BY AppendProperties, LenProperties
  <2>2. /\ a \in Seq(Int) /\ Len(a) \in Nat /\ Len(a) <= Len(s)
        /\ \A i \in 1 .. Len(a) : a[i] > t /\ \E j \in 1 .. Len(s) : a[i] = s[j]
    BY <1>2, LenProperties
  <2>3. b = IF x > t THEN Append(a, x) ELSE a
    BY AfterLonger
  <2>4. \A i \in 1 .. Len(a) : \E j \in 1 .. Len(s) + 1 : a[i] = Append(s, x)[j]
    <3> SUFFICES ASSUME NEW i \in 1 .. Len(a) PROVE \E j \in 1 .. Len(s) + 1 : a[i] = Append(s, x)[j]
      OBVIOUS
    <3>1. PICK j \in 1 .. Len(s) : a[i] = s[j]
      BY <2>2
    <3>2. j \in 1 .. Len(s) + 1 /\ a[i] = Append(s, x)[j]
      BY <2>1, <3>1
    <3> QED
      BY <3>2
  <2>5. CASE ~(x > t)
    <3>1. b = a
      BY <2>3, <2>5
    <3>2. Len(a) <= Len(Append(s, x))
      BY <2>1, <2>2
    <3> HIDE DEF a, b
    <3>3. Right(Append(s, x))
      BY <2>1, <2>2, <2>4, <3>1, <3>2 DEF b
    <3> QED
      BY <2>1, <3>3
  <2>6. CASE x > t
    <3>1. /\ Append(a, x) \in Seq(Int) /\ Len(Append(a, x)) = Len(a) + 1
          /\ \A i \in 1 .. Len(a) : Append(a, x)[i] = a[i]
          /\ Append(a, x)[Len(a) + 1] = x
      BY <2>2, AppendProperties
    <3>2. b = Append(a, x)
      BY <2>3, <2>6
    <3>3. Len(s) + 1 \in 1 .. Len(s) + 1
      BY <2>1
    <3> HIDE DEF a, b
    <3>4. ASSUME NEW i \in 1 .. Len(b)
          PROVE  b[i] > t /\ \E j \in 1 .. Len(Append(s, x)) : b[i] = Append(s, x)[j]
      <4>1. CASE i \in 1 .. Len(a)
        BY <2>1, <2>2, <2>4, <3>1, <3>2, <4>1
      <4>2. CASE i = Len(a) + 1
        BY <2>1, <2>6, <3>1, <3>2, <3>3, <4>2
      <4> QED
        BY <2>2, <3>1, <3>2, <4>1, <4>2
    <3>5. b \in Seq(Int) /\ Len(b) <= Len(Append(s, x))
      BY <2>1, <2>2, <3>1, <3>2
    <3> QED
      BY <2>1, <3>4, <3>5 DEF b
  <2> QED
    BY <2>5, <2>6
<1>3. Seq(Int) \subseteq Good
  <2> HIDE DEF Good
  <2> QED
    BY <1>1, <1>2, Longer
<1> QED
  BY <1>3

\* All of them if all are later, and none if none is.
LEMMA AfterAllOrNone ==
    ASSUME NEW t \in Int
    PROVE  \A s \in Seq(Int) :
             /\ (\A i \in 1 .. Len(s) : s[i] > t) => After(s, t) = s
             /\ (\A i \in 1 .. Len(s) : s[i] <= t) => After(s, t) = <<>>
<1> DEFINE Right(s) == /\ (\A i \in 1 .. Len(s) : s[i] > t) => After(s, t) = s
                       /\ (\A i \in 1 .. Len(s) : s[i] <= t) => After(s, t) = <<>>
           Good == {s \in Seq(Int) : Right(s)}
<1>1. <<>> \in Good
  BY AfterLonger, EmptySeq
<1>2. ASSUME NEW s \in Seq(Int), NEW x \in Int, s \in Good PROVE Append(s, x) \in Good
  <2>1. /\ Append(s, x) \in Seq(Int) /\ Len(Append(s, x)) = Len(s) + 1 /\ Len(s) \in Nat
        /\ \A j \in 1 .. Len(s) : Append(s, x)[j] = s[j]
        /\ Append(s, x)[Len(s) + 1] = x
    BY AppendProperties, LenProperties
  <2>2. After(Append(s, x), t) = IF x > t THEN Append(After(s, t), x) ELSE After(s, t)
    BY AfterLonger
  <2>3. Len(s) + 1 \in 1 .. Len(s) + 1 /\ \A j \in 1 .. Len(s) : j \in 1 .. Len(s) + 1
    BY <2>1
  <2>4. ASSUME \A i \in 1 .. Len(Append(s, x)) : Append(s, x)[i] > t
        PROVE  After(Append(s, x), t) = Append(s, x)
    <3>1. x > t /\ \A i \in 1 .. Len(s) : s[i] > t
      BY <2>1, <2>3, <2>4
    <3> QED
      BY <1>2, <2>2, <3>1
  <2>5. ASSUME \A i \in 1 .. Len(Append(s, x)) : Append(s, x)[i] <= t
        PROVE  After(Append(s, x), t) = <<>>
    <3>1. x <= t /\ \A i \in 1 .. Len(s) : s[i] <= t
      BY <2>1, <2>3, <2>5
    <3> QED
      BY <1>2, <2>2, <3>1
  <2> QED
    BY <2>1, <2>4, <2>5
<1>3. Seq(Int) \subseteq Good
  <2> HIDE DEF Good
  <2> QED
    BY <1>1, <1>2, Longer
<1> QED
  BY <1>3

\* Later, and later still.
LEMMA AfterAfter ==
    ASSUME NEW a \in Int, NEW b \in Int, a <= b
    PROVE  \A s \in Seq(Int) :
             After(After(s, a), b) = After(s, b) /\ Len(After(s, b)) <= Len(After(s, a))
<1> DEFINE Good == {s \in Seq(Int) : After(After(s, a), b) = After(s, b)}
<1>1. <<>> \in Good
  BY AfterLonger, EmptySeq
<1>2. ASSUME NEW s \in Seq(Int), NEW x \in Int, s \in Good PROVE Append(s, x) \in Good
  <2>1. Append(s, x) \in Seq(Int) /\ After(s, a) \in Seq(Int)
    BY AppendProperties, AfterHasLater
  <2>2. After(Append(s, x), a) = IF x > a THEN Append(After(s, a), x) ELSE After(s, a)
    BY AfterLonger
  <2>3. After(Append(s, x), b) = IF x > b THEN Append(After(s, b), x) ELSE After(s, b)
    BY AfterLonger
  <2>4. After(Append(After(s, a), x), b)
          = IF x > b THEN Append(After(After(s, a), b), x) ELSE After(After(s, a), b)
    BY <2>1, AfterLonger
  <2>5. x > b => x > a
    OBVIOUS
  <2>6. After(After(s, a), b) = After(s, b)
    BY <1>2
  <2> QED
    BY <2>1, <2>2, <2>3, <2>4, <2>5, <2>6
<1>3. Seq(Int) \subseteq Good
  <2> HIDE DEF Good
  <2> QED
    BY <1>1, <1>2, Longer
<1>4. ASSUME NEW s \in Seq(Int) PROVE Len(After(s, b)) <= Len(After(s, a))
  <2>1. After(s, a) \in Seq(Int)
    BY AfterHasLater
  <2>2. Len(After(After(s, a), b)) <= Len(After(s, a))
    BY <2>1, AfterHasLater
  <2> QED
    BY <1>3, <2>2
<1> QED
  BY <1>3, <1>4

\* Fewer, once the first one is not.
LEMMA AfterTheFirst ==
    ASSUME NEW t \in Int
    PROVE  \A s \in Seq(Int) : s # <<>> /\ s[1] <= t => Len(After(s, t)) < Len(s)
<1> DEFINE Good == {s \in Seq(Int) : s # <<>> /\ s[1] <= t => Len(After(s, t)) < Len(s)}
<1>1. <<>> \in Good
  BY EmptySeq
<1>2. ASSUME NEW s \in Seq(Int), NEW x \in Int, s \in Good, Append(s, x)[1] <= t
      PROVE  Len(After(Append(s, x), t)) < Len(Append(s, x))
  <2>1. /\ Append(s, x) \in Seq(Int) /\ Len(Append(s, x)) = Len(s) + 1 /\ Len(s) \in Nat
        /\ \A j \in 1 .. Len(s) : Append(s, x)[j] = s[j]
        /\ Append(s, x)[Len(s) + 1] = x
    BY AppendProperties, LenProperties
  <2>2. After(Append(s, x), t) = IF x > t THEN Append(After(s, t), x) ELSE After(s, t)
    BY AfterLonger
  <2>3. After(s, t) \in Seq(Int) /\ Len(After(s, t)) <= Len(s) /\ Len(After(s, t)) \in Nat
    BY AfterHasLater, LenProperties
  <2>4. Len(Append(After(s, t), x)) = Len(After(s, t)) + 1
    BY <2>3, AppendProperties
  <2>5. CASE s = <<>>
    <3>1. Len(s) = 0
      BY <2>5, EmptySeq
    <3>2. x <= t
      BY <1>2, <2>1, <3>1
    <3> QED
      BY <2>1, <2>2, <2>3, <3>2
  <2>6. CASE s # <<>>
    <3>1. Len(s) \in Nat \ {0}
      BY <2>6, EmptySeq
    <3>2. s[1] <= t
      BY <1>2, <2>1, <3>1
    <3>3. Len(After(s, t)) < Len(s)
      BY <1>2, <2>6, <3>2
    <3>4. CASE x > t
      BY <2>1, <2>2, <2>3, <2>4, <3>3, <3>4
    <3>5. CASE ~(x > t)
      BY <2>1, <2>2, <2>3, <3>3, <3>5
    <3> QED
      BY <3>4, <3>5
  <2> QED
    BY <2>5, <2>6
<1>3. ASSUME NEW s \in Seq(Int), NEW x \in Int, s \in Good PROVE Append(s, x) \in Good
  BY <1>2, <1>3, AppendProperties
<1>4. Seq(Int) \subseteq Good
  <2> HIDE DEF Good
  <2> QED
    BY <1>1, <1>3, Longer
<1> QED
  BY <1>4

-----------------------------------------------------------------------------
(***************************************************************************)
(* The limiter on its own: what Consume makes of its memory.               *)
(***************************************************************************)
InOrder(times) == \A i, j \in 1 .. Len(times) : i <= j => times[i] <= times[j]

\* Times with one more are in order when the last is the latest.
LEMMA AppendInOrder ==
    ASSUME NEW s \in Seq(Int), NEW x \in Int
    PROVE  InOrder(Append(s, x)) <=> InOrder(s) /\ \A i \in 1 .. Len(s) : s[i] <= x
<1> DEFINE r == Append(s, x)
           N == Len(s)
<1>1. /\ N \in Nat /\ Len(r) = N + 1 /\ r[N + 1] = x
      /\ \A i \in 1 .. N : r[i] = s[i]
  BY AppendProperties, LenProperties
<1>2. \A i \in 1 .. N : s[i] \in Int
  BY ElementOfSeq
<1> HIDE DEF r, N
<1>3. ASSUME InOrder(r) PROVE InOrder(s) /\ \A i \in 1 .. N : s[i] <= x
  <2>1. \A i, j \in 1 .. N + 1 : i <= j => r[i] <= r[j]
    BY <1>1, <1>3 DEF InOrder
  <2>2. \A i, j \in 1 .. N : i <= j => s[i] <= s[j]
    <3> SUFFICES ASSUME NEW i \in 1 .. N, NEW j \in 1 .. N, i <= j PROVE s[i] <= s[j]
      OBVIOUS
    <3>1. i \in 1 .. N + 1 /\ j \in 1 .. N + 1
      BY <1>1
    <3>2. r[i] <= r[j]
      BY <2>1, <3>1
    <3> QED
      BY <1>1, <3>2
  <2>3. ASSUME NEW i \in 1 .. N PROVE s[i] <= x
    <3>1. i \in 1 .. N + 1 /\ N + 1 \in 1 .. N + 1 /\ i <= N + 1
      BY <1>1
    <3>2. r[i] <= r[N + 1]
      BY <2>1, <3>1
    <3> QED
      BY <1>1, <3>2
  <2> QED
    BY <2>2, <2>3 DEF InOrder, N
<1>4. ASSUME InOrder(s), \A i \in 1 .. N : s[i] <= x PROVE InOrder(r)
  <2>1. ASSUME NEW i \in 1 .. N + 1, NEW j \in 1 .. N + 1, i <= j PROVE r[i] <= r[j]
    <3>1. CASE j \in 1 .. N
      <4>1. i \in 1 .. N
        BY <1>1, <2>1, <3>1
      <4>2. s[i] <= s[j]
        BY <1>4, <2>1, <3>1, <4>1 DEF InOrder, N
      <4> QED
        BY <1>1, <3>1, <4>1, <4>2
    <3>2. CASE j = N + 1 /\ i \in 1 .. N
      BY <1>1, <1>4, <3>2
    <3>3. CASE j = N + 1 /\ i = N + 1
      BY <1>1, <3>3
    <3> QED
      BY <1>1, <2>1, <3>1, <3>2, <3>3
  <2> QED
    BY <1>1, <2>1 DEF InOrder
<1> QED
  BY <1>3, <1>4 DEF r, N

\* What is kept of times in order is in order.
LEMMA AfterInOrder ==
    ASSUME NEW t \in Int
    PROVE  \A s \in Seq(Int) : InOrder(s) => InOrder(After(s, t))
<1> DEFINE Good == {s \in Seq(Int) : InOrder(s) => InOrder(After(s, t))}
<1>1. <<>> \in Good
  <2>1. After(<<>>, t) = <<>>
    BY AfterLonger
  <2>2. InOrder(<<>>) /\ <<>> \in Seq(Int)
    BY EmptySeq DEF InOrder
  <2> QED
    BY <2>1, <2>2, Zenon
<1>2. ASSUME NEW s \in Seq(Int), NEW x \in Int, s \in Good PROVE Append(s, x) \in Good
  <2>1. Append(s, x) \in Seq(Int)
    BY AppendProperties
  <2> SUFFICES ASSUME InOrder(Append(s, x)) PROVE InOrder(After(Append(s, x), t))
    BY <2>1
  <2>2. InOrder(s) /\ \A i \in 1 .. Len(s) : s[i] <= x
    BY AppendInOrder
  <2> DEFINE a == After(s, t)
  <2>3. /\ a \in Seq(Int)
        /\ \A i \in 1 .. Len(a) : \E j \in 1 .. Len(s) : a[i] = s[j]
    BY AfterHasLater
  <2>4. InOrder(a)
    BY <1>2, <2>2
  <2>5. After(Append(s, x), t) = IF x > t THEN Append(a, x) ELSE a
    BY AfterLonger
  <2> HIDE DEF a
  <2>6. \A i \in 1 .. Len(a) : a[i] <= x
    BY <2>2, <2>3
  <2>7. InOrder(Append(a, x))
    BY <2>3, <2>4, <2>6, AppendInOrder
  <2> QED
    BY <2>4, <2>5, <2>7
<1>3. Seq(Int) \subseteq Good
  <2> HIDE DEF Good
  <2> QED
    BY <1>1, <1>2, Longer
<1> QED
  BY <1>3

\* A memory that was last written no later than n.
Memory(m, n) ==
    /\ m = [k \in DOMAIN m |-> m[k]]
    /\ DOMAIN m \subseteq Subjects \X {"min", "day"}
    /\ \A k \in DOMAIN m : m[k] \in Seq(0 .. n) /\ InOrder(m[k])

\* What the windows of anybody have in common.
LEMMA WindowFacts ==
    ASSUME NEW p \in Subjects
    PROVE  /\ p.kind \in {"ip", "user", "read", "write"}
           /\ \A w \in Windows(p.kind) :
                /\ w.ms \in Nat \ {0} /\ w.ms <= Day /\ w.limit \in Nat \ {0}
                /\ w.name \in {"min", "day"} /\ Key(p, w) \in Subjects \X {"min", "day"}
           /\ \A v, w \in Windows(p.kind) : v.name = w.name => v = w
           /\ Day \in Nat
<1>1. p.kind \in {"ip", "user", "read", "write"}
  BY DEF Subjects
<1>2. /\ Minute \in Nat \ {0} /\ Day \in Nat \ {0} /\ DailyWrites \in Nat \ {0} /\ Minute <= Day
      /\ LimitOf[p.kind] \in Nat \ {0}
  BY <1>1, LimiterAssumption
<1> QED
  BY <1>1, <1>2 DEF Windows, Key

\* Times are numbers.
LEMMA TimesAreNumbers == ASSUME NEW n \in Nat, NEW s \in Seq(0 .. n) PROVE s \in Seq(Int)
BY SeqMonotonic, 0 .. n \subseteq Int

\* What the memory has of a key is times, in order.
LEMMA StampsAreTimes ==
    ASSUME NEW n \in Nat, NEW m, Memory(m, n), NEW k
    PROVE  Stamps(m, k) \in Seq(0 .. n) /\ Stamps(m, k) \in Seq(Int) /\ InOrder(Stamps(m, k))
<1>1. <<>> \in Seq(0 .. n) /\ InOrder(<<>>)
  BY EmptySeq DEF InOrder
<1>2. Stamps(m, k) \in Seq(0 .. n) /\ InOrder(Stamps(m, k))
  BY <1>1 DEF Memory, Stamps
<1> QED
  BY <1>2, TimesAreNumbers

\* So are those of a window.
LEMMA RecentAreTimes ==
    ASSUME NEW n \in Nat, NEW m, Memory(m, n), NEW p \in Subjects, NEW w \in Windows(p.kind),
           NEW t \in Nat
    PROVE  /\ Recent(m, p, w, t) \in Seq(Int) /\ Len(Recent(m, p, w, t)) \in Nat
           /\ \A i \in 1 .. Len(Recent(m, p, w, t)) : Recent(m, p, w, t)[i] \in (t - w.ms + 1) .. n
           /\ InOrder(Recent(m, p, w, t)) /\ Recent(m, p, w, t) \in Seq(0 .. n)
<1>1. t - w.ms \in Int /\ w.ms \in Nat
  BY WindowFacts
<1> DEFINE s == Stamps(m, Key(p, w))
           a == After(s, t - w.ms)
<1>2. s \in Seq(0 .. n) /\ s \in Seq(Int)
  BY StampsAreTimes
<1>3. /\ a \in Seq(Int)
      /\ \A i \in 1 .. Len(a) : a[i] > t - w.ms /\ \E j \in 1 .. Len(s) : a[i] = s[j]
  BY <1>1, <1>2, AfterHasLater
<1>4. Len(a) \in Nat /\ InOrder(a)
  <2>1. InOrder(s)
    BY StampsAreTimes
  <2> HIDE DEF s
  <2> QED
    BY <1>1, <1>2, <1>3, <2>1, LenProperties, AfterInOrder
<1>5. \A j \in 1 .. Len(s) : s[j] \in 0 .. n
  BY <1>2, ElementOfSeq
<1> HIDE DEF a, s
<1>6. ASSUME NEW i \in 1 .. Len(a) PROVE a[i] \in (t - w.ms + 1) .. n
  <2>1. PICK j \in 1 .. Len(s) : a[i] = s[j]
    BY <1>3
  <2>2. a[i] \in 0 .. n /\ a[i] > t - w.ms
    BY <1>3, <1>5, <2>1
  <2> QED
    BY <1>1, <2>2
<1>7. a \in Seq(0 .. n)
  <2>1. \A i \in 1 .. Len(a) : a[i] \in 0 .. n
    BY <1>3, <1>5
  <2> QED
    BY <1>3, <2>1
<1> QED
  BY <1>3, <1>4, <1>6, <1>7 DEF Recent, a, s

\* The largest of three numbers at most.
LEMMA LargestOfFew ==
    ASSUME NEW x \in Int, NEW y \in Int, NEW z \in Int, NEW S \in SUBSET {x, y, z}, S # {}
    PROVE  Max(S) \in S /\ \A e \in S : e <= Max(S)
<1>1. \E e \in S : \A f \in S : e >= f
  <2>1. CASE x \in S /\ y \in S /\ z \in S
    BY <2>1
  <2>2. CASE x \in S /\ y \in S /\ z \notin S
    BY <2>2
  <2>3. CASE x \in S /\ y \notin S /\ z \in S
    BY <2>3
  <2>4. CASE x \in S /\ y \notin S /\ z \notin S
    BY <2>4
  <2>5. CASE x \notin S /\ y \in S /\ z \in S
    BY <2>5
  <2>6. CASE x \notin S /\ y \in S /\ z \notin S
    BY <2>6
  <2>7. CASE x \notin S /\ y \notin S
    <3>1. S = {z}
      BY <2>7
    <3> QED
      BY <3>1
  <2> QED
    BY <2>1, <2>2, <2>3, <2>4, <2>5, <2>6, <2>7
<1>2. Max(S) \in S /\ \A e \in S : Max(S) >= e
  BY <1>1 DEF Max
<1>3. S \subseteq Int
  OBVIOUS
<1> QED
  BY <1>2, <1>3

\* A call goes on when every window has room, and who is refused is told a time
\* at which the oldest call of every full window is out of it.
LEMMA Decides ==
    ASSUME NEW n \in Nat, NEW m, Memory(m, n), NEW p \in Subjects
    PROVE  /\ RetryAfterTicks(m, p, n) \in Nat
           /\ Allowed(m, p, n) <=> Full(m, p, n) = {}
           /\ \A w \in Full(m, p, n) :
                /\ Recent(m, p, w, n) # <<>>
                /\ Recent(m, p, w, n)[1] + w.ms <= n + RetryAfterTicks(m, p, n)
<1> DEFINE wait(w) == Head(Recent(m, p, w, n)) + w.ms - n
           S == {0} \cup {wait(w) : w \in Full(m, p, n)}
<1>1. ASSUME NEW w \in Full(m, p, n)
      PROVE  /\ Recent(m, p, w, n) # <<>>
             /\ Head(Recent(m, p, w, n)) = Recent(m, p, w, n)[1]
             /\ wait(w) \in Nat \ {0}
  <2>1. w \in Windows(p.kind) /\ Len(Recent(m, p, w, n)) >= w.limit
    BY DEF Full
  <2>2. w.ms \in Nat /\ w.limit \in Nat \ {0}
    BY <2>1, WindowFacts
  <2> DEFINE r == Recent(m, p, w, n)
  <2>3. /\ r \in Seq(Int) /\ Len(r) \in Nat
        /\ \A i \in 1 .. Len(r) : r[i] \in (n - w.ms + 1) .. n
    BY <2>1, RecentAreTimes
  <2> HIDE DEF r
  <2>4. 1 \in 1 .. Len(r) /\ r # <<>>
    BY <2>1, <2>2, <2>3, EmptySeq DEF r
  <2>5. r[1] \in (n - w.ms + 1) .. n /\ Head(r) = r[1]
    BY <2>3, <2>4
  <2>6. r[1] + w.ms - n \in Nat \ {0}
    BY <2>2, <2>5
  <2> QED
    BY <2>4, <2>5, <2>6 DEF r
<1>2. \E y, z \in Int : S \subseteq {0, y, z}
  <2> DEFINE u == [name |-> "min", ms |-> Minute, limit |-> LimitOf[p.kind]]
             v == [name |-> "day", ms |-> Day, limit |-> DailyWrites]
             y == IF u \in Full(m, p, n) THEN wait(u) ELSE 0
             z == IF v \in Full(m, p, n) THEN wait(v) ELSE 0
  <2>1. Full(m, p, n) \subseteq {u, v}
    BY DEF Full, Windows
  <2>2. y \in Int /\ z \in Int
    BY <1>1
  <2>3. S \subseteq {0, y, z}
    <3>1. ASSUME NEW w \in Full(m, p, n) PROVE wait(w) \in {0, y, z}
      <4>1. w = u \/ w = v
        BY <2>1
      <4>2. CASE w = u
        <5>1. wait(w) = y
          BY <4>2
        <5> QED
          BY <5>1
      <4>3. CASE w = v
        <5>1. wait(w) = z
          BY <4>3
        <5> QED
          BY <5>1
      <4> QED
        BY <4>1, <4>2, <4>3
    <3> HIDE DEF wait, y, z
    <3> QED
      BY <3>1
  <2> HIDE DEF S, y, z
  <2> QED
    BY <2>2, <2>3
<1>3. Max(S) \in S /\ \A e \in S : e <= Max(S)
  <2>0. S # {}
    OBVIOUS
  <2> HIDE DEF S
  <2>1. PICK y \in Int, z \in Int : S \subseteq {0, y, z}
    BY <1>2
  <2>2. S \in SUBSET {0, y, z} /\ S # {}
    BY <2>0, <2>1
  <2>3. \A T \in SUBSET {0, y, z} : T # {} => Max(T) \in T /\ \A e \in T : e <= Max(T)
    BY 0 \in Int, LargestOfFew, Zenon
  <2> QED
    BY <2>2, <2>3
<1>4. RetryAfterTicks(m, p, n) = Max(S)
  BY DEF RetryAfterTicks
<1> DEFINE M == Max(S)
<1>5. M \in Nat
  <2>1. M \in S
    BY <1>3
  <2> HIDE DEF M
  <2> QED
    BY <1>1, <2>1
<1>6. ASSUME NEW w \in Full(m, p, n) PROVE wait(w) <= M
  <2>1. wait(w) \in S
    OBVIOUS
  <2> HIDE DEF S
  <2> QED
    BY <1>3, <2>1
<1>7. M = 0 <=> Full(m, p, n) = {}
  <2>1. CASE Full(m, p, n) = {}
    <3>1. S = {0}
      BY <2>1
    <3>2. M \in {0}
      BY <1>3, <3>1
    <3> HIDE DEF M
    <3> QED
      BY <2>1, <3>2
  <2>2. ASSUME NEW w \in Full(m, p, n) PROVE M # 0
    <3>1. wait(w) \in Nat \ {0} /\ wait(w) <= M
      BY <1>1, <1>6
    <3> HIDE DEF M, wait
    <3> QED
      BY <1>5, <3>1
  <2> HIDE DEF M
  <2> QED
    BY <2>1, <2>2
<1>8. ASSUME NEW w \in Full(m, p, n)
      PROVE  Recent(m, p, w, n)[1] + w.ms <= n + M
  <2>1. wait(w) <= M /\ Head(Recent(m, p, w, n)) = Recent(m, p, w, n)[1]
    BY <1>1, <1>6
  <2>2. w \in Windows(p.kind)
    BY DEF Full
  <2>3. w.ms \in Nat
    BY <2>2, WindowFacts
  <2>4. Recent(m, p, w, n)[1] \in Int
    <3>1. Recent(m, p, w, n) \in Seq(Int) /\ Recent(m, p, w, n) # <<>>
      BY <1>1, <2>2, RecentAreTimes
    <3> QED
      BY <3>1
  <2> HIDE DEF M
  <2> QED
    BY <1>5, <2>1, <2>3, <2>4
<1> QED
  BY <1>1, <1>4, <1>5, <1>7, <1>8 DEF Allowed

\* Sweeping forgets nothing that counts.
LEMMA SweepIsHarmless ==
    ASSUME NEW n \in Nat, NEW m, Memory(m, n)
    PROVE  /\ Memory(Swept(m, n), n)
           /\ \A p \in Subjects : \A w \in Windows(p.kind) :
                Recent(Swept(m, n), p, w, n) = Recent(m, p, w, n)
<1> DEFINE kept == {k \in DOMAIN m : m[k] # <<>> /\ Last(m[k]) >= n - Day}
           r == [k \in kept |-> m[k]]
<1>1. Swept(m, n) = m \/ Swept(m, n) = r
  BY DEF Swept, Restrict
<1>2. Memory(r, n)
  BY DEF Memory
<1>3. ASSUME NEW p \in Subjects, NEW w \in Windows(p.kind)
      PROVE  Recent(r, p, w, n) = Recent(m, p, w, n)
  <2> DEFINE k == Key(p, w)
  <2>0. w.ms \in Nat /\ w.ms <= Day /\ Day \in Nat /\ n - w.ms \in Int
    BY <1>3, WindowFacts
  <2>1. CASE k \in kept
    BY <2>1 DEF Recent, Stamps
  <2>2. CASE k \notin DOMAIN m
    <3>1. Stamps(r, k) = Stamps(m, k)
      BY <2>2 DEF Stamps
    <3> QED
      BY <3>1 DEF Recent
  <2>3. CASE k \in DOMAIN m /\ k \notin kept
    <3>1. Stamps(r, k) = <<>> /\ Stamps(m, k) = m[k]
      BY <2>3 DEF Stamps
    <3>2. After(<<>>, n - w.ms) = <<>>
      BY <2>0, AfterLonger
    <3>3. m[k] \in Seq(0 .. n) /\ m[k] \in Seq(Int) /\ InOrder(m[k])
      BY <2>3, <3>1, StampsAreTimes
    <3>4. CASE m[k] = <<>>
      BY <3>1, <3>4 DEF Recent
    <3>5. CASE m[k] # <<>>
      <4> DEFINE s == m[k]
      <4>1. Len(s) \in Nat \ {0} /\ s \in Seq(Int)
        BY <3>3, <3>5, EmptySeq
      <4>2. s[Len(s)] < n - Day /\ s[Len(s)] \in Int
        <5>1. s[Len(s)] \in Int
          BY <4>1, ElementOfSeq
        <5>2. ~(s[Len(s)] >= n - Day)
          BY <2>3, <3>5 DEF Last
        <5> QED
          BY <2>0, <5>1, <5>2
      <4>3. ASSUME NEW i \in 1 .. Len(s) PROVE s[i] <= n - w.ms
        <5>1. s[i] <= s[Len(s)]
          BY <3>3, <4>1 DEF InOrder
        <5>2. s[i] \in Int
          BY <4>1, ElementOfSeq
        <5> HIDE DEF s
        <5> QED
          BY <2>0, <4>2, <5>1, <5>2
      <4>4. After(s, n - w.ms) = <<>>
        <5> HIDE DEF s
        <5> QED
          BY <2>0, <4>1, <4>3, AfterAllOrNone
      <4> QED
        BY <3>1, <3>2, <4>4 DEF Recent
    <3> QED
      BY <3>4, <3>5
  <2> QED
    BY <2>1, <2>2, <2>3
<1> QED
  BY <1>1, <1>2, <1>3

\* A call is added to every window of its prefix, or to none, and to no other.
LEMMA ConsumeCounts ==
    ASSUME NEW n \in Nat, NEW m, Memory(m, n), NEW p \in Subjects
    PROVE  /\ Memory(Consume(m, p, n), n)
           /\ \A q \in Subjects : \A w \in Windows(q.kind) :
                Recent(Consume(m, p, n), q, w, n)
                  = IF q = p /\ Allowed(m, p, n) THEN Append(Recent(m, q, w, n), n)
                    ELSE Recent(m, q, w, n)
<1> DEFINE new == [k \in {Key(p, w) : w \in Windows(p.kind)} |->
                     Pushed(m, p, n, CHOOSE w \in Windows(p.kind) : Key(p, w) = k)]
           all == [k \in DOMAIN m \cup DOMAIN new |-> IF k \in DOMAIN new THEN new[k] ELSE m[k]]
<1>1. Consume(m, p, n) = IF Allowed(m, p, n) THEN Swept(all, n) ELSE all
  BY DEF Consume
<1>2. ASSUME NEW w \in Windows(p.kind)
      PROVE  Key(p, w) \in DOMAIN new /\ new[Key(p, w)] = Pushed(m, p, n, w)
  <2> DEFINE c == CHOOSE v \in Windows(p.kind) : Key(p, v) = Key(p, w)
  <2>1. c \in Windows(p.kind) /\ Key(p, c) = Key(p, w)
    OBVIOUS
  <2>2. c = w
    <3>1. c.name = w.name
      BY <2>1 DEF Key
    <3> HIDE DEF c
    <3> QED
      BY <2>1, <3>1, WindowFacts
  <2> QED
    BY <2>2
<1>3. ASSUME NEW w \in Windows(p.kind)
      PROVE  /\ Pushed(m, p, n, w) \in Seq(0 .. n) /\ InOrder(Pushed(m, p, n, w))
             /\ After(Pushed(m, p, n, w), n - w.ms)
                  = IF Allowed(m, p, n) THEN Append(Recent(m, p, w, n), n) ELSE Recent(m, p, w, n)
  <2> DEFINE c == Recent(m, p, w, n)
             x == Pushed(m, p, n, w)
             t == n - w.ms
  <2>1. /\ c \in Seq(Int) /\ c \in Seq(0 .. n) /\ InOrder(c)
        /\ \A i \in 1 .. Len(c) : c[i] \in (n - w.ms + 1) .. n
    BY RecentAreTimes
  <2>2. w.ms \in Nat \ {0} /\ t \in Int /\ n > t /\ n \in 0 .. n
    BY WindowFacts
  <2>3. x = c \o IF Allowed(m, p, n) THEN <<n>> ELSE <<>>
    BY DEF Pushed
  <2>4. c \o <<n>> = Append(c, n) /\ c \o <<>> = c
    BY <2>1, AppendIsConcat, ConcatEmptySeq
  <2>5. After(c, t) = c
    <3>1. \A i \in 1 .. Len(c) : c[i] > t
      BY <2>1, <2>2
    <3> HIDE DEF c, t
    <3> QED
      BY <2>1, <2>2, <3>1, AfterAllOrNone
  <2>6. After(Append(c, n), t) = Append(c, n)
    <3> HIDE DEF c, t
    <3> QED
      BY <2>1, <2>2, <2>5, AfterLonger
  <2>7. Append(c, n) \in Seq(0 .. n) /\ InOrder(Append(c, n))
    <3>1. \A i \in 1 .. Len(c) : c[i] <= n
      BY <2>1, <2>2
    <3> HIDE DEF c
    <3> QED
      BY <2>1, <2>2, <3>1, AppendProperties, AppendInOrder
  <2>8. CASE Allowed(m, p, n)
    <3>1. x = Append(c, n)
      BY <2>3, <2>4, <2>8
    <3> HIDE DEF x, c, t
    <3>2. x \in Seq(0 .. n) /\ InOrder(x) /\ After(x, t) = Append(c, n)
      BY <2>6, <2>7, <3>1
    <3> QED
      BY <2>8, <3>2 DEF x, c, t
  <2>9. CASE ~Allowed(m, p, n)
    <3>1. x = c
      BY <2>3, <2>4, <2>9
    <3> HIDE DEF x, c, t
    <3>2. x \in Seq(0 .. n) /\ InOrder(x) /\ After(x, t) = c
      BY <2>1, <2>5, <3>1
    <3> QED
      BY <2>9, <3>2 DEF x, c, t
  <2> QED
    BY <2>8, <2>9
<1>4. Memory(all, n)
  <2>1. DOMAIN new = {Key(p, w) : w \in Windows(p.kind)}
    OBVIOUS
  <2>2. DOMAIN new \subseteq Subjects \X {"min", "day"}
    BY <2>1, WindowFacts
  <2>3. ASSUME NEW k \in DOMAIN new PROVE new[k] \in Seq(0 .. n) /\ InOrder(new[k])
    <3>1. PICK w \in Windows(p.kind) : k = Key(p, w)
      BY <2>1
    <3> HIDE DEF new
    <3> QED
      BY <1>2, <1>3, <3>1
  <2> HIDE DEF new
  <2> QED
    BY <2>2, <2>3 DEF Memory
<1>5. ASSUME NEW q \in Subjects, NEW w \in Windows(q.kind)
      PROVE  Recent(all, q, w, n)
               = IF q = p /\ Allowed(m, p, n) THEN Append(Recent(m, q, w, n), n)
                 ELSE Recent(m, q, w, n)
  <2>1. CASE q = p
    <3>1. Stamps(all, Key(q, w)) = Pushed(m, p, n, w)
      BY <1>2, <2>1 DEF Stamps
    <3> QED
      BY <1>3, <2>1, <3>1 DEF Recent
  <2>2. CASE q # p
    <3>1. Key(q, w) \notin DOMAIN new
      BY <2>2 DEF Key
    <3>2. Stamps(all, Key(q, w)) = Stamps(m, Key(q, w))
      BY <3>1 DEF Stamps
    <3> QED
      BY <2>2, <3>2 DEF Recent
  <2> QED
    BY <2>1, <2>2
<1>6. /\ Memory(Swept(all, n), n)
      /\ \A q \in Subjects : \A w \in Windows(q.kind) :
           Recent(Swept(all, n), q, w, n) = Recent(all, q, w, n)
  <2> HIDE DEF all
  <2> QED
    BY <1>4, SweepIsHarmless
<1> HIDE DEF new, all
<1> QED
  BY <1>1, <1>4, <1>5, <1>6

-----------------------------------------------------------------------------
(***************************************************************************)
(* The routes: what those of each kind have in common.                     *)
(***************************************************************************)

\* What guards a route whose handler acts on an organisation, and those that
\* write members, modules and organisations.
Guarded(n, route) ==
    /\ route.tenant \in BOOLEAN /\ route.param \in BOOLEAN /\ route.superadmin \in BOOLEAN
    /\ route.acts \in {"none", "context", "path"}
    /\ route.acts = "context" => route.tenant
    /\ route.acts = "path" => route.superadmin \/ (route.tenant /\ route.param)
    /\ n \in {"enable module", "disable module"} =>
         route.tenant /\ route.param /\ route.superadmin /\ route.acts = "path"
    /\ n \in {"activate", "deactivate"} => route.superadmin /\ route.acts = "path"
    /\ n \in {"invite member", "change role", "assign member", "update member", "remove member",
              "set scope"} =>
         /\ ~route.superadmin /\ route.acts = "path"
         /\ route.permission \in {"core:member:manage", "core:org-unit:manage"}

\* What a route that a tool reads asks of its caller.
OpenTo(route, permission, modules) ==
    /\ ~route.superadmin /\ route.acts \in {"none", "context", "path"}
    /\ route.param => route.tenant
    /\ route.permission = permission /\ route.modules = modules
    /\ permission # NoPermission \/ modules # {} => route.tenant

\* What those routes ask for.
ReadBy(n, route) ==
    /\ n \in {"me", "list periods", "get period", "list units"} => OpenTo(route, NoPermission, {})
    /\ n = "list axes" => OpenTo(route, "okr:read", {})
    /\ n \in {"planning tree", "planning gantt", "get objective", "list projects", "get project",
              "list tasks"} => OpenTo(route, "okr:read", {"okr"})
    /\ n \in {"objective status", "list indicators", "get indicator", "indicator status"} =>
         OpenTo(route, "okr:read", {"okr", "indicadores-gestion"})
    /\ n = "get series" => OpenTo(route, "metrics:read", {"indicadores-gestion"})

WellGuarded(f) == \A n \in DOMAIN f : Guarded(n, f[n]) /\ ReadBy(n, f[n])

\* What holds of the parts holds of them together.
LEMMA GuardedTogether ==
    ASSUME NEW S, \A f \in S : WellGuarded(f)
    PROVE  WellGuarded(Together(S))
<1> SUFFICES ASSUME NEW n \in UNION {DOMAIN f : f \in S}
             PROVE  Guarded(n, Together(S)[n]) /\ ReadBy(n, Together(S)[n])
  BY DEF WellGuarded, Together
<1> DEFINE f == CHOOSE f \in S : n \in DOMAIN f
<1>1. f \in S /\ n \in DOMAIN f
  OBVIOUS
<1>2. Together(S)[n] = f[n]
  BY DEF Together
<1> HIDE DEF f
<1> QED
  BY <1>1, <1>2 DEF WellGuarded

\* The handlers of one kind.
LEMMA GuardedHandlers ==
    ASSUME NEW guards, NEW permission, NEW names,
           \A n \in names : Guarded(n, [guards EXCEPT !.permission = permission])
                            /\ ReadBy(n, [guards EXCEPT !.permission = permission])
    PROVE  WellGuarded(Handlers(guards, permission, names))
BY DEF WellGuarded, Handlers

\* The controllers, one by one.
LEMMA MemberControllerGuarded == WellGuarded(MemberController)
<1>1. WellGuarded(Handlers(OfPath(Tenant), "core:member:manage", {"list members"}))
  BY GuardedHandlers DEF Guarded, ReadBy, OpenTo, NoPermission, OfPath, Tenant, Open
<1>2. WellGuarded(Handlers(OfPath(Tenant), "core:member:manage", {"invite member", "change role",
     "assign member", "update member", "remove member"}))
  BY GuardedHandlers DEF Guarded, ReadBy, OpenTo, NoPermission, OfPath, Tenant, Open
<1>3. WellGuarded(Handlers(OfPath(Tenant), "core:org-unit:manage", {"set scope"}))
  BY GuardedHandlers DEF Guarded, ReadBy, OpenTo, NoPermission, OfPath, Tenant, Open
<1> QED
  BY <1>1, <1>2, <1>3, GuardedTogether DEF MemberController

\* The routes of org-unit.controller.ts.
LEMMA OrgUnitControllerGuarded == WellGuarded(OrgUnitController)
<1>1. WellGuarded(Handlers(OfPath(Tenant), NoPermission, {"list units", "unit tree", "get unit"}))
  BY GuardedHandlers DEF Guarded, ReadBy, OpenTo, NoPermission, OfPath, Tenant, Open
<1>2. WellGuarded(Handlers(OfPath(Tenant), "core:org-unit:manage", {"create unit", "update unit",
     "remove unit"}))
  BY GuardedHandlers DEF Guarded, ReadBy, OpenTo, NoPermission, OfPath, Tenant, Open
<1>3. WellGuarded(Handlers(OfPath(Tenant), "core:org-unit:vision:write",
     {"update vision and mission"}))
  BY GuardedHandlers DEF Guarded, ReadBy, OpenTo, NoPermission, OfPath, Tenant, Open
<1> QED
  BY <1>1, <1>2, <1>3, GuardedTogether DEF OrgUnitController

\* The routes of organization-module.controller.ts.
LEMMA OrganizationModuleControllerGuarded == WellGuarded(OrganizationModuleController)
<1>1. WellGuarded(Handlers(OfPath(Tenant), "core:module:manage",
     {"list modules of organization"}))
  BY GuardedHandlers DEF Guarded, ReadBy, OpenTo, NoPermission, OfPath, Tenant, Open
<1>2. WellGuarded(Handlers(Superadmin(OfPath(Tenant)), NoPermission, {"enable module",
     "disable module"}))
  BY GuardedHandlers DEF Guarded, ReadBy, OpenTo, NoPermission, OfPath, Tenant, Superadmin, Open
<1> QED
  BY <1>1, <1>2, GuardedTogether DEF OrganizationModuleController

\* The routes of organization.controller.ts.
LEMMA OrganizationControllerGuarded == WellGuarded(OrganizationController)
<1>1. WellGuarded(Handlers(Superadmin(Open), NoPermission, {"list organizations"}))
  BY GuardedHandlers DEF Guarded, ReadBy, OpenTo, NoPermission, Open, Superadmin
<1>2. WellGuarded(Handlers(OfPath(Tenant), NoPermission, {"get organization"}))
  BY GuardedHandlers DEF Guarded, ReadBy, OpenTo, NoPermission, OfPath, Tenant, Open
<1>3. WellGuarded(Handlers(Superadmin(Open), NoPermission, {"create organization"}))
  BY GuardedHandlers DEF Guarded, ReadBy, OpenTo, NoPermission, Open, Superadmin
<1>4. WellGuarded(Handlers(OfPath(Tenant), "core:org-unit:manage", {"update organization"}))
  BY GuardedHandlers DEF Guarded, ReadBy, OpenTo, NoPermission, OfPath, Tenant, Open
<1>5. WellGuarded(Handlers([Superadmin(Open) EXCEPT !.acts = "path"], NoPermission,
     {"update sector", "deactivate", "activate"}))
  BY GuardedHandlers DEF Guarded, ReadBy, OpenTo, NoPermission, Open, Superadmin
<1> QED
  BY <1>1, <1>2, <1>3, <1>4, <1>5, GuardedTogether DEF OrganizationController

\* The routes of period.controller.ts.
LEMMA PeriodControllerGuarded == WellGuarded(PeriodController)
<1>1. WellGuarded(Handlers(OfPath(Tenant), NoPermission, {"list periods"}))
  BY GuardedHandlers DEF Guarded, ReadBy, OpenTo, NoPermission, OfPath, Tenant, Open
<1>2. WellGuarded(Handlers(OfPath(Tenant), "core:period:manage", {"create period"}))
  BY GuardedHandlers DEF Guarded, ReadBy, OpenTo, NoPermission, OfPath, Tenant, Open
<1>3. WellGuarded(Handlers(Tenant, NoPermission, {"get period"}))
  BY GuardedHandlers DEF Guarded, ReadBy, OpenTo, NoPermission, Tenant, Open
<1>4. WellGuarded(Handlers(Tenant, "core:period:manage", {"open period", "close period",
     "remove period"}))
  BY GuardedHandlers DEF Guarded, ReadBy, OpenTo, NoPermission, Tenant, Open
<1> QED
  BY <1>1, <1>2, <1>3, <1>4, GuardedTogether DEF PeriodController

\* The routes of strategic-plan.controller.ts.
LEMMA StrategicPlanControllerGuarded == WellGuarded(StrategicPlanController)
<1>1. WellGuarded(Handlers(OfPath(Tenant), "okr:read", {"get plan", "list axes", "get axis"}))
  BY GuardedHandlers DEF Guarded, ReadBy, OpenTo, NoPermission, OfPath, Tenant, Open
<1>2. WellGuarded(Handlers(OfPath(Tenant), "planning:plan:manage", {"upsert plan", "create axis",
     "update axis", "remove axis"}))
  BY GuardedHandlers DEF Guarded, ReadBy, OpenTo, NoPermission, OfPath, Tenant, Open
<1> QED
  BY <1>1, <1>2, GuardedTogether DEF StrategicPlanController

\* The routes of objective.controller.ts.
LEMMA ObjectiveControllerGuarded == WellGuarded(ObjectiveController)
<1>1. WellGuarded(Handlers(Okr, "okr:read", {"list objectives", "get objective"}))
  BY GuardedHandlers DEF Guarded, ReadBy, OpenTo, NoPermission, Okr, Tenant, Open
<1>2. WellGuarded(Handlers(Okr, "okr:write", {"create objective", "update objective",
     "remove objective"}))
  BY GuardedHandlers DEF Guarded, ReadBy, OpenTo, NoPermission, Okr, Tenant, Open
<1> QED
  BY <1>1, <1>2, GuardedTogether DEF ObjectiveController

\* The routes of project.controller.ts.
LEMMA ProjectControllerGuarded == WellGuarded(ProjectController)
<1>1. WellGuarded(Handlers(Okr, "okr:read", {"list projects", "get project", "list tasks"}))
  BY GuardedHandlers DEF Guarded, ReadBy, OpenTo, NoPermission, Okr, Tenant, Open
<1>2. WellGuarded(Handlers(Okr, "okr:write", {"create project", "weigh projects",
     "update project", "remove project", "create task", "weigh tasks"}))
  BY GuardedHandlers DEF Guarded, ReadBy, OpenTo, NoPermission, Okr, Tenant, Open
<1> QED
  BY <1>1, <1>2, GuardedTogether DEF ProjectController

\* The routes of task.controller.ts.
LEMMA TaskControllerGuarded == WellGuarded(TaskController)
<1>1. WellGuarded(Handlers(Okr, "okr:read", {"get task"}))
  BY GuardedHandlers DEF Guarded, ReadBy, OpenTo, NoPermission, Okr, Tenant, Open
<1>2. WellGuarded(Handlers(Okr, "okr:write", {"update task", "remove task"}))
  BY GuardedHandlers DEF Guarded, ReadBy, OpenTo, NoPermission, Okr, Tenant, Open
<1>3. WellGuarded(Handlers(Okr, "okr:progress:write", {"set progress"}))
  BY GuardedHandlers DEF Guarded, ReadBy, OpenTo, NoPermission, Okr, Tenant, Open
<1> QED
  BY <1>1, <1>2, <1>3, GuardedTogether DEF TaskController

\* Those of the planning tree and the Gantt.
LEMMA PlanningControllersGuarded == WellGuarded(PlanningControllers)
<1>1. WellGuarded(Handlers(Okr, "okr:read", {"planning tree", "planning gantt"}))
  BY GuardedHandlers DEF Guarded, ReadBy, OpenTo, NoPermission, Okr, Tenant, Open
<1> QED
  BY <1>1, Zenon DEF PlanningControllers

\* The routes of metric.controller.ts.
LEMMA MetricControllerGuarded == WellGuarded(MetricController)
<1>1. WellGuarded(Handlers(OfPath(Metrics), "metrics:read", {"list metrics"}))
  BY GuardedHandlers DEF Guarded, ReadBy, OpenTo, NoPermission, OfPath, Metrics, Tenant, Open
<1>2. WellGuarded(Handlers(OfPath(Metrics), "metrics:write", {"create metric"}))
  BY GuardedHandlers DEF Guarded, ReadBy, OpenTo, NoPermission, OfPath, Metrics, Tenant, Open
<1>3. WellGuarded(Handlers(Metrics, "metrics:read", {"get metric", "get series"}))
  BY GuardedHandlers DEF Guarded, ReadBy, OpenTo, NoPermission, Metrics, Tenant, Open
<1>4. WellGuarded(Handlers(Metrics, "metrics:write", {"update metric", "remove metric"}))
  BY GuardedHandlers DEF Guarded, ReadBy, OpenTo, NoPermission, Metrics, Tenant, Open
<1> QED
  BY <1>1, <1>2, <1>3, <1>4, GuardedTogether DEF MetricController

\* The routes of metric-entry.controller.ts.
LEMMA MetricEntryControllerGuarded == WellGuarded(MetricEntryController)
<1>1. WellGuarded(Handlers(Metrics, "metrics:read", {"list entries"}))
  BY GuardedHandlers DEF Guarded, ReadBy, OpenTo, NoPermission, Metrics, Tenant, Open
<1>2. WellGuarded(Handlers(Metrics, "metrics:entry:write", {"create entry", "update entry",
     "remove entry"}))
  BY GuardedHandlers DEF Guarded, ReadBy, OpenTo, NoPermission, Metrics, Tenant, Open
<1> QED
  BY <1>1, <1>2, GuardedTogether DEF MetricEntryController

\* The routes of metric-link.controller.ts.
LEMMA MetricLinkControllerGuarded == WellGuarded(MetricLinkController)
<1>1. WellGuarded(Handlers([Tenant EXCEPT !.modules = {"indicadores-okr",
     "indicadores-gestion"}], "metrics:read", {"list context metrics"}))
  BY GuardedHandlers DEF Guarded, ReadBy, OpenTo, NoPermission, Tenant, Open
<1>2. WellGuarded(Handlers([Tenant EXCEPT !.modules = {"indicadores-okr",
     "indicadores-gestion"}], "metrics:write", {"add context metric", "remove context metric"}))
  BY GuardedHandlers DEF Guarded, ReadBy, OpenTo, NoPermission, Tenant, Open
<1> QED
  BY <1>1, <1>2, GuardedTogether DEF MetricLinkController

\* The routes of objective-indicator.controller.ts.
LEMMA ObjectiveIndicatorControllerGuarded == WellGuarded(ObjectiveIndicatorController)
<1>1. WellGuarded(Handlers(OkrMetrics, "okr:read", {"list indicators", "get indicator",
     "indicator status", "objective status", "get target points"}))
  BY GuardedHandlers DEF Guarded, ReadBy, OpenTo, NoPermission, OkrMetrics, Tenant, Open
<1>2. WellGuarded(Handlers(OkrMetrics, "okr:write", {"create indicator", "weigh indicators",
     "set target points", "update indicator", "remove indicator"}))
  BY GuardedHandlers DEF Guarded, ReadBy, OpenTo, NoPermission, OkrMetrics, Tenant, Open
<1> QED
  BY <1>1, <1>2, GuardedTogether DEF ObjectiveIndicatorController

\* The routes of project-contribution.controller.ts.
LEMMA ProjectContributionControllerGuarded == WellGuarded(ProjectContributionController)
<1>1. WellGuarded(Handlers(OkrMetrics, "okr:read", {"contributions of indicator",
     "contributions of project"}))
  BY GuardedHandlers DEF Guarded, ReadBy, OpenTo, NoPermission, OkrMetrics, Tenant, Open
<1>2. WellGuarded(Handlers(OkrMetrics, "okr:write", {"create contribution",
     "update contribution", "remove contribution"}))
  BY GuardedHandlers DEF Guarded, ReadBy, OpenTo, NoPermission, OkrMetrics, Tenant, Open
<1> QED
  BY <1>1, <1>2, GuardedTogether DEF ProjectContributionController

\* The routes of ai.controller.ts.
LEMMA AiControllerGuarded == WellGuarded(AiController)
<1>1. WellGuarded(Handlers(Tenant, "ai:use", {"draft", "validate"}))
  BY GuardedHandlers DEF Guarded, ReadBy, OpenTo, NoPermission, Tenant, Open
<1>2. WellGuarded(Handlers(Tenant, "ai:use", {"assistant status"}))
  BY GuardedHandlers DEF Guarded, ReadBy, OpenTo, NoPermission, Tenant, Open
<1>3. WellGuarded(Handlers(Tenant, "ai:admin", {"assistant usage"}))
  BY GuardedHandlers DEF Guarded, ReadBy, OpenTo, NoPermission, Tenant, Open
<1> QED
  BY <1>1, <1>2, <1>3, GuardedTogether DEF AiController

\* The routes of audit.controller.ts.
LEMMA AuditControllerGuarded == WellGuarded(AuditController)
<1>1. WellGuarded(Handlers(Open, "audit:read", {"list events", "get event"}))
  BY GuardedHandlers DEF Guarded, ReadBy, OpenTo, NoPermission, Open
<1> QED
  BY <1>1, Zenon DEF AuditController

\* Those of roles and users.
LEMMA RolesControllersGuarded == WellGuarded(RolesControllers)
<1>1. WellGuarded(Handlers(Superadmin(Open), NoPermission, {"list roles", "get role",
     "permissions of role", "list permissions", "get permission"}))
  BY GuardedHandlers DEF Guarded, ReadBy, OpenTo, NoPermission, Open, Superadmin
<1> QED
  BY <1>1, Zenon DEF RolesControllers

\* Those of the caller itself.
LEMMA MeControllersGuarded == WellGuarded(MeControllers)
<1>1. WellGuarded(Handlers(Open, NoPermission, {"me", "list modules"}))
  BY GuardedHandlers DEF Guarded, ReadBy, OpenTo, NoPermission, Open
<1> QED
  BY <1>1, Zenon DEF MeControllers

\* So it is with every route.
LEMMA RoutesGuarded == WellGuarded(Routes)
BY GuardedTogether,
   MemberControllerGuarded, OrgUnitControllerGuarded, OrganizationModuleControllerGuarded,
   OrganizationControllerGuarded, PeriodControllerGuarded, StrategicPlanControllerGuarded,
   ObjectiveControllerGuarded, ProjectControllerGuarded, TaskControllerGuarded,
   PlanningControllersGuarded, MetricControllerGuarded, MetricEntryControllerGuarded,
   MetricLinkControllerGuarded, ObjectiveIndicatorControllerGuarded,
      ProjectContributionControllerGuarded,
   AiControllerGuarded, AuditControllerGuarded, RolesControllersGuarded,
   MeControllersGuarded
   DEF Routes

-----------------------------------------------------------------------------
(***************************************************************************)
(* The limiter: what it remembers is what was let through, as far as it    *)
(* counts.                                                                 *)
(***************************************************************************)
Fits(h, s, n) ==
    /\ Memory(h, n)
    /\ s \in [Subjects -> Seq(0 .. n)]
    /\ \A p \in Subjects : \A w \in Windows(p.kind) :
         /\ Recent(h, p, w, n) = After(s[p], n - w.ms)
         /\ \A t \in 0 .. n : Len(After(s[p], t - w.ms)) - Len(After(s[p], t)) <= w.limit

\* What there is of the times of a prefix.
LEMMA PassedTimes ==
    ASSUME NEW n \in Nat, NEW s \in [Subjects -> Seq(0 .. n)], NEW p \in Subjects
    PROVE  /\ s[p] \in Seq(Int)
           /\ \A t \in Int : After(s[p], t) \in Seq(Int) /\ Len(After(s[p], t)) \in Nat
           /\ After(s[p], n) = <<>> /\ After(s[p], n + 1) = <<>>
           /\ \A a, b \in Int : a <= b => Len(After(s[p], b)) <= Len(After(s[p], a))
<1>0. s[p] \in Seq(0 .. n)
  OBVIOUS
<1>1. s[p] \in Seq(Int)
  BY <1>0, TimesAreNumbers
<1>2. ASSUME NEW t \in Int PROVE After(s[p], t) \in Seq(Int) /\ Len(After(s[p], t)) \in Nat
  BY <1>1, AfterHasLater, LenProperties
<1>3. \A i \in 1 .. Len(s[p]) : s[p][i] \in 0 .. n
  BY <1>0, ElementOfSeq
<1>4. (\A i \in 1 .. Len(s[p]) : s[p][i] <= n) /\ (\A i \in 1 .. Len(s[p]) : s[p][i] <= n + 1)
  BY <1>3
<1>5. n \in Int /\ n + 1 \in Int
  OBVIOUS
<1>6. After(s[p], n) = <<>> /\ After(s[p], n + 1) = <<>>
  BY <1>1, <1>4, <1>5, AfterAllOrNone
<1>7. ASSUME NEW a \in Int, NEW b \in Int, a <= b PROVE Len(After(s[p], b)) <= Len(After(s[p], a))
  BY <1>1, <1>7, AfterAfter
<1> QED
  BY <1>1, <1>2, <1>6, <1>7

\* Nobody has called yet.
LEMMA FitsAtFirst == Fits(<<>>, [p \in Subjects |-> <<>>], 0)
<1> DEFINE s == [p \in Subjects |-> <<>>]
<1>0. <<>> \in Seq(0 .. 0) /\ <<>> \in Seq(Int) /\ Len(<<>>) = 0
  BY EmptySeq
<1>1. Memory(<<>>, 0)
  <2>1. DOMAIN <<>> = {}
    BY <1>0, LenProperties
  <2>2. <<>> = [k \in DOMAIN <<>> |-> <<>>[k]]
    BY <2>1
  <2> QED
    BY <2>1, <2>2 DEF Memory
<1>2. s \in [Subjects -> Seq(0 .. 0)]
  BY <1>0
<1>3. ASSUME NEW p \in Subjects, NEW w \in Windows(p.kind)
      PROVE  /\ Recent(<<>>, p, w, 0) = After(s[p], 0 - w.ms)
             /\ \A t \in 0 .. 0 : Len(After(s[p], t - w.ms)) - Len(After(s[p], t)) <= w.limit
  <2>1. w.ms \in Nat /\ w.limit \in Nat
    BY WindowFacts
  <2>2. Stamps(<<>>, Key(p, w)) = <<>>
    BY <1>0, LenProperties DEF Stamps
  <2>3. \A t \in Int : After(<<>>, t) = <<>>
    BY AfterLonger
  <2>4. s[p] = <<>>
    OBVIOUS
  <2> HIDE DEF s
  <2>5. ASSUME NEW t \in 0 .. 0 PROVE Len(After(s[p], t - w.ms)) - Len(After(s[p], t)) <= w.limit
    <3>1. t \in Int /\ t - w.ms \in Int
      BY <2>1
    <3> QED
      BY <1>0, <2>1, <2>3, <2>4, <3>1
  <2> QED
    BY <2>2, <2>4, <2>5 DEF Recent
<1> QED
  BY <1>1, <1>2, <1>3 DEF Fits

\* Time passes.
LEMMA FitsLater ==
    ASSUME NEW n \in Nat, NEW h, NEW s, Fits(h, s, n)
    PROVE  Fits(h, s, n + 1)
<1> DEFINE m == n + 1
<1>0. m \in Nat /\ 0 .. n \subseteq 0 .. m /\ m = n + 1
  OBVIOUS
<1> HIDE DEF m
<1>1. Seq(0 .. n) \subseteq Seq(0 .. m)
  BY <1>0, SeqMonotonic
<1>2. Memory(h, n) /\ Memory(h, m)
  BY <1>1 DEF Fits, Memory
<1>3. s \in [Subjects -> Seq(0 .. n)] /\ s \in [Subjects -> Seq(0 .. m)]
  BY <1>1 DEF Fits
<1>4. ASSUME NEW p \in Subjects, NEW w \in Windows(p.kind)
      PROVE  /\ Recent(h, p, w, m) = After(s[p], m - w.ms)
             /\ \A t \in 0 .. m : Len(After(s[p], t - w.ms)) - Len(After(s[p], t)) <= w.limit
  <2>1. w.ms \in Nat \ {0} /\ w.limit \in Nat /\ n - w.ms \in Int /\ m - w.ms \in Int
        /\ n - w.ms <= m - w.ms
    BY <1>0, WindowFacts
  <2>2. /\ s[p] \in Seq(Int)
        /\ \A t \in Int : After(s[p], t) \in Seq(Int) /\ Len(After(s[p], t)) \in Nat
        /\ After(s[p], n) = <<>> /\ After(s[p], m) = <<>>
        /\ \A a, b \in Int : a <= b => Len(After(s[p], b)) <= Len(After(s[p], a))
    BY <1>0, <1>3, PassedTimes
  <2>3. Recent(h, p, w, n) = After(s[p], n - w.ms)
        /\ \A t \in 0 .. n : Len(After(s[p], t - w.ms)) - Len(After(s[p], t)) <= w.limit
    BY DEF Fits
  <2>4. Recent(h, p, w, m) = After(s[p], m - w.ms)
    <3> DEFINE x == Stamps(h, Key(p, w))
    <3>1. x \in Seq(Int)
      BY <1>2, StampsAreTimes
    <3>2. After(x, m - w.ms) = After(After(x, n - w.ms), m - w.ms)
      BY <2>1, <3>1, AfterAfter
    <3>3. After(s[p], m - w.ms) = After(After(s[p], n - w.ms), m - w.ms)
      BY <2>1, <2>2, AfterAfter
    <3>4. After(x, n - w.ms) = After(s[p], n - w.ms)
      BY <2>3 DEF Recent
    <3> QED
      BY <3>2, <3>3, <3>4, Zenon DEF Recent
  <2>5. ASSUME NEW t \in 0 .. m
        PROVE  Len(After(s[p], t - w.ms)) - Len(After(s[p], t)) <= w.limit
    <3>0. t \in 0 .. n \/ t = m
      BY <1>0
    <3>1. CASE t \in 0 .. n
      BY <2>3, <3>1
    <3>2. CASE t = m
      <4>1. Len(After(s[p], n - w.ms)) - Len(After(s[p], n)) <= w.limit
        BY <2>3
      <4>2. Len(After(s[p], n)) = Len(After(s[p], m))
        BY <2>2
      <4>3. Len(After(s[p], m - w.ms)) <= Len(After(s[p], n - w.ms))
        BY <2>1, <2>2
      <4>4. /\ Len(After(s[p], n - w.ms)) \in Nat /\ Len(After(s[p], n)) \in Nat
            /\ Len(After(s[p], m - w.ms)) \in Nat
        BY <2>1, <2>2
      <4> QED
        BY <2>1, <3>2, <4>1, <4>2, <4>3, <4>4
    <3> QED
      BY <3>0, <3>1, <3>2
  <2> QED
    BY <2>4, <2>5
<1> QED
  BY <1>2, <1>3, <1>4, Zenon DEF Fits, m

\* A call is let through, or refused.
LEMMA FitsAfterCall ==
    ASSUME NEW n \in Nat, NEW h, NEW s, Fits(h, s, n), NEW p \in Subjects
    PROVE  Fits(Consume(h, p, n),
                IF Allowed(h, p, n) THEN [s EXCEPT ![p] = Append(@, n)] ELSE s, n)
<1> DEFINE r == IF Allowed(h, p, n) THEN [s EXCEPT ![p] = Append(@, n)] ELSE s
           g == Consume(h, p, n)
<1>1. Memory(h, n) /\ s \in [Subjects -> Seq(0 .. n)] /\ n \in 0 .. n /\ n \in Int
  BY DEF Fits
<1>2. /\ Memory(g, n)
      /\ \A q \in Subjects : \A w \in Windows(q.kind) :
           Recent(g, q, w, n)
             = IF q = p /\ Allowed(h, p, n) THEN Append(Recent(h, q, w, n), n)
               ELSE Recent(h, q, w, n)
  BY <1>1, ConsumeCounts
<1>3. r \in [Subjects -> Seq(0 .. n)]
  <2>1. Append(s[p], n) \in Seq(0 .. n)
    BY <1>1, AppendProperties
  <2> QED
    BY <1>1, <2>1
<1>4. ASSUME NEW q \in Subjects, NEW w \in Windows(q.kind)
      PROVE  /\ Recent(g, q, w, n) = After(r[q], n - w.ms)
             /\ \A t \in 0 .. n : Len(After(r[q], t - w.ms)) - Len(After(r[q], t)) <= w.limit
  <2>1. Recent(h, q, w, n) = After(s[q], n - w.ms)
        /\ \A t \in 0 .. n : Len(After(s[q], t - w.ms)) - Len(After(s[q], t)) <= w.limit
    BY DEF Fits
  <2>2. CASE q # p \/ ~Allowed(h, p, n)
    <3>1. r[q] = s[q] /\ Recent(g, q, w, n) = Recent(h, q, w, n)
      BY <1>1, <1>2, <2>2
    <3> QED
      BY <2>1, <3>1
  <2>3. CASE q = p /\ Allowed(h, p, n)
    <3>1. r[q] = Append(s[q], n) /\ Recent(g, q, w, n) = Append(Recent(h, q, w, n), n)
      BY <1>1, <1>2, <2>3
    <3>2. w.ms \in Nat \ {0} /\ w.limit \in Nat /\ n - w.ms \in Int /\ n > n - w.ms
      BY WindowFacts
    <3>3. /\ s[q] \in Seq(Int)
          /\ \A t \in Int : After(s[q], t) \in Seq(Int) /\ Len(After(s[q], t)) \in Nat
          /\ After(s[q], n) = <<>>
      BY <1>1, PassedTimes
    <3>4. \A t \in Int : After(Append(s[q], n), t)
                           = IF n > t THEN Append(After(s[q], t), n) ELSE After(s[q], t)
      BY <1>1, <3>3, AfterLonger
    <3>5. \A t \in Int : Len(After(Append(s[q], n), t))
                           = IF n > t THEN Len(After(s[q], t)) + 1 ELSE Len(After(s[q], t))
      <4>1. \A x \in Seq(Int) : Len(Append(x, n)) = Len(x) + 1
        BY <1>1
      <4> QED
        BY <3>3, <3>4, <4>1
    <3>6. Len(After(s[q], n - w.ms)) < w.limit
      <4>1. w \notin Full(h, p, n)
        BY <1>1, <2>3, Decides
      <4>2. ~(Len(Recent(h, q, w, n)) >= w.limit)
        BY <2>3, <4>1 DEF Full
      <4>3. Len(Recent(h, q, w, n)) = Len(After(s[q], n - w.ms))
            /\ Len(After(s[q], n - w.ms)) \in Nat
        BY <2>1, <3>2, <3>3
      <4> QED
        BY <3>2, <4>2, <4>3
    <3>7. ASSUME NEW t \in 0 .. n
          PROVE  Len(After(r[q], t - w.ms)) - Len(After(r[q], t)) <= w.limit
      <4>1. t \in Int /\ t - w.ms \in Int /\ n > t - w.ms
        BY <3>2
      <4>2. Len(After(r[q], t - w.ms)) = Len(After(s[q], t - w.ms)) + 1
        BY <3>1, <3>5, <4>1
      <4>3. Len(After(s[q], t - w.ms)) \in Nat /\ Len(After(s[q], t)) \in Nat
        BY <3>3, <4>1
      <4>4. CASE t < n
        <5>1. Len(After(r[q], t)) = Len(After(s[q], t)) + 1
          BY <3>1, <3>5, <4>1, <4>4
        <5>2. Len(After(s[q], t - w.ms)) - Len(After(s[q], t)) <= w.limit
          BY <2>1
        <5> QED
          BY <3>2, <4>2, <4>3, <5>1, <5>2
      <4>5. CASE t = n
        <5>1. Len(After(r[q], t)) = Len(After(s[q], t))
          BY <3>1, <3>5, <4>1, <4>5
        <5>2. Len(After(s[q], t)) = 0
          BY <3>3, <4>5, EmptySeq
        <5> QED
          BY <3>2, <3>6, <4>2, <4>3, <4>5, <5>1, <5>2
      <4> QED
        BY <4>4, <4>5
    <3>8. Recent(g, q, w, n) = After(r[q], n - w.ms)
      BY <2>1, <3>1, <3>2, <3>4
    <3> QED
      BY <3>7, <3>8
  <2> QED
    BY <2>2, <2>3
<1> QED
  BY <1>2, <1>3, <1>4 DEF Fits

\* Rounding up to whole seconds waits long enough.
LEMMA RoundedUp ==
    ASSUME NEW a \in Nat, NEW b \in Nat \ {0}
    PROVE  /\ (a + b - 1) \div b \in Nat
           /\ a <= b * ((a + b - 1) \div b)
<1> DEFINE x == a + b - 1
           q == x \div b
<1>1. x \in Nat
  OBVIOUS
<1>2. q \in Int /\ x = b * q + (x % b) /\ x % b \in 0 .. b - 1
  BY <1>1
<1>3. q \in Nat
  BY <1>1
<1>4. b * q \in Int
  BY <1>2
<1> HIDE DEF q
<1>5. a <= b * q
  BY <1>2, <1>4
<1> QED
  BY <1>3, <1>5 DEF q

\* Who is refused finds room in every window after the time it is told.
LEMMA RefusedThenLetThrough ==
    ASSUME NEW n \in Nat, NEW h, NEW s, Fits(h, s, n), NEW p \in Subjects
    PROVE  Full(h, p, n + Second * RetryAfterSeconds(h, p, n)) = {}
<1> DEFINE wait == RetryAfterTicks(h, p, n)
           seconds == RetryAfterSeconds(h, p, n)
           u == n + Second * seconds
<1>1. /\ Memory(h, n) /\ s \in [Subjects -> Seq(0 .. n)] /\ wait \in Nat /\ Second \in Nat \ {0}
  BY Decides, LimiterAssumption DEF Fits
<1>2. u \in Nat /\ n <= u /\ n + wait <= u
  <2> DEFINE q == (wait + Second - 1) \div Second
  <2>1. q \in Nat /\ wait <= Second * q
    <3> HIDE DEF wait
    <3> QED
      BY <1>1, RoundedUp
  <2>2. seconds = Max({1, q})
    BY DEF RetryAfterSeconds
  <2> HIDE DEF q, wait
  <2>3. seconds \in {1, q} /\ 1 <= seconds /\ q <= seconds
    <3>1. {1, q} \in SUBSET {1, q, q} /\ {1, q} # {}
      OBVIOUS
    <3>2. 1 \in Int /\ q \in Int
      BY <2>1
    <3>3. \A T \in SUBSET {1, q, q} : T # {} => Max(T) \in T /\ \A e \in T : e <= Max(T)
      BY <3>2, LargestOfFew, Zenon
    <3>4. Max({1, q}) \in {1, q} /\ \A e \in {1, q} : e <= Max({1, q})
      BY <3>1, <3>3
    <3> QED
      BY <2>2, <3>4
  <2> HIDE DEF seconds
  <2>4. seconds \in Nat
    BY <2>1, <2>3
  <2>5. seconds = q \/ (q = 0 /\ seconds = 1) \/ (q \in Nat \ {0} /\ seconds = 1)
    BY <2>1, <2>3
  <2>6. Second * q <= Second * seconds /\ Second * q \in Int /\ Second * seconds \in Nat
    <3>1. \A c, x, y \in Nat : x <= y => c * x <= c * y /\ c * x \in Nat /\ c * y \in Nat
      OBVIOUS
    <3> QED
      BY <1>1, <2>1, <2>3, <2>4, <3>1
  <2> QED
    BY <1>1, <2>1, <2>6
<1>3. ASSUME NEW w \in Windows(p.kind) PROVE ~(Len(Recent(h, p, w, u)) >= w.limit)
  <2> DEFINE x == Stamps(h, Key(p, w))
             r == Recent(h, p, w, n)
  <2>1. w.ms \in Nat \ {0} /\ w.limit \in Nat /\ n - w.ms \in Int
    BY WindowFacts
  <2> DEFINE from == u - w.ms
  <2>2. from \in Int /\ n - w.ms <= from
    <3> HIDE DEF u
    <3> QED
      BY <1>2, <2>1
  <2>3. x \in Seq(Int) /\ r \in Seq(Int) /\ Len(r) \in Nat
    BY <1>1, StampsAreTimes, RecentAreTimes
  <2>4. Recent(h, p, w, u) = After(x, from) /\ r = After(x, n - w.ms)
    BY Zenon DEF Recent
  <2> HIDE DEF x, u
  <2>5. Recent(h, p, w, u) = After(r, from)
    <3>1. After(After(x, n - w.ms), from) = After(x, from)
      BY <2>1, <2>2, <2>3, AfterAfter
    <3> QED
      BY <2>4, <3>1
  <2>6. Len(After(r, from)) \in Nat /\ Len(After(r, from)) <= Len(r)
    <3> HIDE DEF r, from
    <3> QED
      BY <2>2, <2>3, AfterHasLater, LenProperties
  <2>7. CASE w \in Full(h, p, n)
    <3>1. r # <<>> /\ r[1] + w.ms <= n + wait
      BY <1>1, <2>7, Decides
    <3>2. r[1] \in Int
      <4> HIDE DEF r
      <4> QED
        BY <2>3, <3>1
    <3>3. r[1] <= from
      <4> HIDE DEF r, wait
      <4> QED
        BY <1>1, <1>2, <2>1, <3>1, <3>2
    <3>4. Len(After(r, from)) < Len(r)
      <4> HIDE DEF r, from
      <4> QED
        BY <2>2, <2>3, <3>1, <3>3, AfterTheFirst
    <3>5. Len(r) <= w.limit
      <4>1. r = After(s[p], n - w.ms) /\ n \in 0 .. n
        BY DEF Fits
      <4>2. Len(After(s[p], n - w.ms)) - Len(After(s[p], n)) <= w.limit
        BY <4>1 DEF Fits
      <4>3. Len(After(s[p], n)) = 0
        BY <1>1, PassedTimes, EmptySeq
      <4> HIDE DEF r
      <4> QED
        BY <2>1, <2>3, <4>1, <4>2, <4>3
    <3> HIDE DEF r, from
    <3> QED
      BY <2>1, <2>3, <2>5, <2>6, <3>4, <3>5
  <2>8. CASE w \notin Full(h, p, n)
    <3>1. ~(Len(r) >= w.limit)
      BY <2>8 DEF Full
    <3> HIDE DEF r, from
    <3> QED
      BY <2>1, <2>3, <2>5, <2>6, <3>1
  <2> QED
    BY <2>7, <2>8
<1> HIDE DEF u
<1>4. Full(h, p, u) = {}
  BY <1>3 DEF Full
<1> QED
  BY <1>4 DEF u

-----------------------------------------------------------------------------
(***************************************************************************)
(* Members, organisations and modules: their types, and that whatever is   *)
(* taken away is dated.                                                    *)
(***************************************************************************)
Rows == [role : RoleKeys, scope : Scopes]

Directory ==
    /\ DOMAIN member \subseteq Memberships
    /\ \A k \in DOMAIN member : member[k] \in Rows
    /\ left \in [Memberships -> 0 .. now]
    /\ active \subseteq Organizations
    /\ stopped \in [Organizations -> 0 .. now]

\* Nothing is taken away without its time.
ModulesDated ==
    /\ now <= now' /\ created \subseteq created'
    /\ \A k \in Pairs :
         /\ changed[k] <= changed'[k]
         /\ k \in enabled => k \in enabled' \/ now <= changed'[k]

DirectoryDated ==
    /\ \A k \in Memberships :
         /\ left[k] <= left'[k]
         /\ k \in DOMAIN member => k \in DOMAIN member' \/ now <= left'[k]
    /\ \A o \in Organizations :
         /\ stopped[o] <= stopped'[o]
         /\ o \in active => o \in active' \/ now <= stopped'[o]

\* The toggles of the modules date what they disable.
LEMMA AccessDates ==
    ASSUME Types, [AccessNext]_accessVars PROVE Types' /\ ModulesDated
<1>1. Types'
  BY NextTypes
<1>2. now \in Nat /\ changed \in [Pairs -> 0 .. now]
  BY AccessAssumption DEF Types
<1>3. \A k \in Pairs : changed[k] \in Int /\ changed[k] <= now
  BY <1>2
<1>4. ASSUME NEW o \in Organizations, CreateOrganization(o) PROVE ModulesDated
  <2>1. now' = now /\ created \subseteq created' /\ enabled \subseteq enabled'
    BY <1>4 DEF CreateOrganization
  <2>2. \A k \in Pairs : changed'[k] \in {changed[k], now}
    BY <1>4 DEF CreateOrganization
  <2> QED
    BY <1>2, <1>3, <2>1, <2>2 DEF ModulesDated
<1>5. CASE CommitToggle
  <2>1. toggle.pair \in Pairs
    BY <1>5 DEF CommitToggle, Types
  <2>2. UNCHANGED <<now, created>>
    BY <1>5 DEF CommitToggle
  <2>3. changed' = IF enabled' # enabled THEN [changed EXCEPT ![toggle.pair] = now] ELSE changed
    BY <1>5 DEF CommitToggle
  <2>4. \A k \in Pairs : k # toggle.pair => (k \in enabled' <=> k \in enabled)
    BY <1>5 DEF CommitToggle
  <2>5. ASSUME NEW k \in Pairs
        PROVE  changed[k] <= changed'[k] /\ (k \in enabled => k \in enabled' \/ now <= changed'[k])
    <3>1. CASE enabled' = enabled
      BY <1>2, <1>3, <2>3, <3>1
    <3>2. CASE enabled' # enabled
      <4>1. changed'[k] = IF k = toggle.pair THEN now ELSE changed[k]
        BY <1>2, <2>1, <2>3, <3>2
      <4> QED
        BY <1>2, <1>3, <2>4, <4>1
    <3> QED
      BY <3>1, <3>2
  <2>6. now <= now' /\ created \subseteq created'
    BY <1>2, <2>2
  <2> QED
    BY <1>1, <2>5, <2>6, Zenon DEF ModulesDated
<1>6. ASSUME UNCHANGED <<created, enabled, changed>>, now' \in {now, now + 1} PROVE ModulesDated
  BY <1>2, <1>3, <1>6 DEF ModulesDated
<1>7. (\E o \in Organizations, m \in Modules, on \in BOOLEAN : BeginToggle(o, m, on))
        => UNCHANGED <<created, enabled, changed>> /\ now' \in {now, now + 1}
  BY DEF BeginToggle
<1>8. Guard \/ Tick \/ UNCHANGED accessVars
        => UNCHANGED <<created, enabled, changed>> /\ now' \in {now, now + 1}
  BY DEF Guard, GuardAsks, GuardKeeps, Tick, accessVars
<1> QED
  BY <1>1, <1>4, <1>5, <1>6, <1>7, <1>8 DEF AccessNext, Administer

\* Time passes for the members too.
LEMMA DirectoryLater ==
    ASSUME Types, Directory, ModulesDated, Types', UNCHANGED directory
    PROVE  Directory' /\ DirectoryDated
<1>1. UNCHANGED <<member, left, active, stopped>>
  BY DEF directory
<1>2. now \in Nat /\ now' \in Nat /\ now <= now'
  BY AccessAssumption DEF Types, ModulesDated
<1>3. 0 .. now \subseteq 0 .. now'
  BY <1>2
<1>4. left' \in [Memberships -> 0 .. now'] /\ stopped' \in [Organizations -> 0 .. now']
  BY <1>1, <1>3 DEF Directory
<1>5. \A k \in Memberships : left[k] \in 0 .. now
  BY DEF Directory
<1>6. \A o \in Organizations : stopped[o] \in 0 .. now
  BY DEF Directory
<1>7. DirectoryDated
  BY <1>1, <1>2, <1>5, <1>6 DEF DirectoryDated
<1> QED
  BY <1>1, <1>4, <1>7 DEF Directory

\* A member is written, or leaves, at a time that is kept.
LEMMA MemberWritten ==
    ASSUME Types, Directory, UNCHANGED <<now, active, stopped>>, NEW k \in Memberships,
           \/ UNCHANGED left /\ \E row \in Rows : member' = Put(k, row)
           \/ /\ member' = Restrict(member, DOMAIN member \ {k})
              /\ left' = [left EXCEPT ![k] = now] \/ (k \notin DOMAIN member /\ left' = left)
    PROVE  Directory' /\ DirectoryDated
<1>1. now \in Nat /\ now \in 0 .. now
  BY AccessAssumption DEF Types
<1>2. \A j \in Memberships : left[j] \in 0 .. now
  BY DEF Directory
<1>3. \A o \in Organizations : stopped[o] \in 0 .. now
  BY DEF Directory
<1>4. CASE UNCHANGED left /\ \E row \in Rows : member' = Put(k, row)
  <2>1. PICK row \in Rows : member' = Put(k, row)
    BY <1>4
  <2>2. /\ DOMAIN member' = DOMAIN member \cup {k}
        /\ \A j \in DOMAIN member' : member'[j] = IF j = k THEN row ELSE member[j]
    BY <2>1 DEF Put
  <2>3. Directory'
    BY <1>1, <1>4, <2>2 DEF Directory
  <2>4. DirectoryDated
    BY <1>1, <1>2, <1>3, <1>4, <2>2 DEF DirectoryDated
  <2> QED
    BY <2>3, <2>4
<1>5. CASE /\ member' = Restrict(member, DOMAIN member \ {k})
           /\ left' = [left EXCEPT ![k] = now] \/ (k \notin DOMAIN member /\ left' = left)
  <2>1. /\ DOMAIN member' = DOMAIN member \ {k}
        /\ \A j \in DOMAIN member' : member'[j] = member[j]
    BY <1>5 DEF Restrict
  <2>2. left' \in [Memberships -> 0 .. now]
    BY <1>1, <1>5 DEF Directory
  <2>3. Directory'
    BY <2>1, <2>2 DEF Directory
  <2>4. \A j \in Memberships : left'[j] = left[j] \/ left'[j] = now
    BY <1>5 DEF Directory
  <2>5. k \in DOMAIN member => left'[k] = now
    BY <1>5 DEF Directory
  <2>6. DirectoryDated
    BY <1>1, <1>2, <1>3, <2>1, <2>4, <2>5 DEF DirectoryDated
  <2> QED
    BY <2>3, <2>6
<1> QED
  BY <1>4, <1>5

\* So does an organisation.
LEMMA OrganizationWritten ==
    ASSUME Types, Directory, UNCHANGED <<now, member, left>>, NEW o \in Organizations,
           \/ active' = active \cup {o} /\ UNCHANGED stopped
           \/ active' = active \ {o} /\ stopped' = [stopped EXCEPT ![o] = now]
    PROVE  Directory' /\ DirectoryDated
<1>1. now \in Nat /\ now \in 0 .. now
  BY AccessAssumption DEF Types
<1>2. \A j \in Memberships : left[j] \in 0 .. now
  BY DEF Directory
<1>3. \A p \in Organizations : stopped[p] \in 0 .. now
  BY DEF Directory
<1>4. stopped' \in [Organizations -> 0 .. now] /\ active' \subseteq Organizations
  BY <1>1 DEF Directory
<1>5. Directory'
  BY <1>4 DEF Directory
<1>6. \A p \in Organizations : stopped'[p] = stopped[p] \/ (p = o /\ stopped'[p] = now)
  BY DEF Directory
<1>7. \A p \in Organizations : p \in active => p \in active' \/ stopped'[p] = now
  BY DEF Directory
<1>8. DirectoryDated
  BY <1>1, <1>2, <1>3, <1>6, <1>7 DEF DirectoryDated
<1> QED
  BY <1>5, <1>8

-----------------------------------------------------------------------------
(***************************************************************************)
(* Calls of tools: what each has been asked before it runs.                *)
(***************************************************************************)
CallStages == {"token", "dispatch", "memberships", "candidates", "resolve", "modules", "run"}

CallRecords ==
    [stage : CallStages, user : Users, tool : Tools, organization : Organizations \cup {NoOrganization},
     writes : BOOLEAN, since : Nat, todo : SUBSET (Organizations \cup Modules \cup {"mcp"}),
     found : SUBSET Organizations, role : {"none"} \cup RoleKeys]

ModuleHeld(k, since) == k \in Pairs /\ (k \in enabled \/ changed[k] >= since)

MembershipHeld(k, since) ==
    /\ k \in Memberships
    /\ k \in DOMAIN member \/ left[k] >= since
    /\ k[2] \in active \/ stopped[k[2]] >= since

\* What has been asked for was there, if it is not now, when the call came.
CallOK(x) ==
    /\ x \in CallRecords /\ x.since <= now
    /\ x.stage = "modules" =>
         /\ x.role \in RoleKeys
         /\ \A m \in ({"mcp"} \cup x.tool.modules) \ x.todo :
              ModuleHeld(<<x.organization, m>>, x.since)
         /\ MembershipHeld(<<x.user, x.organization>>, x.since)

CallsOK ==
    /\ call = [c \in Callers |-> call[c]]
    /\ \A c \in Callers : call[c] = Free \/ CallOK(call[c])

\* A membership names a user and an organisation.
LEMMA MembershipParts ==
    /\ \A u \in Users, o \in Organizations : <<u, o>> \in Memberships
    /\ \A k \in Memberships : k[1] \in Users /\ k[2] \in Organizations
    /\ \A u, o : <<u, o>> \in Memberships => u \in Users /\ o \in Organizations
BY DEF Memberships

\* What is taken away after the call came is dated after that.
LEMMA CallStays ==
    ASSUME Types, Types', Directory, Directory', ModulesDated, DirectoryDated, NEW x, CallOK(x)
    PROVE  CallOK(x)'
<1>1. now \in Nat /\ now' \in Nat /\ now <= now' /\ x.since \in Nat /\ x.since <= now
  BY AccessAssumption DEF Types, ModulesDated, CallOK, CallRecords
<1>2. /\ \A k \in Pairs : changed[k] \in 0 .. now /\ changed'[k] \in 0 .. now'
      /\ \A k \in Memberships : left[k] \in 0 .. now /\ left'[k] \in 0 .. now'
      /\ \A o \in Organizations : stopped[o] \in 0 .. now /\ stopped'[o] \in 0 .. now'
  BY DEF Types, Directory
<1>3. ASSUME NEW k, ModuleHeld(k, x.since) PROVE ModuleHeld(k, x.since)'
  <2>1. k \in Pairs /\ (k \in enabled \/ changed[k] >= x.since)
    BY <1>3 DEF ModuleHeld
  <2>2. changed[k] <= changed'[k] /\ (k \in enabled => k \in enabled' \/ now <= changed'[k])
    BY <2>1 DEF ModulesDated
  <2>3. changed[k] \in Int /\ changed'[k] \in Int
    BY <1>2, <2>1
  <2>4. k \in enabled' \/ changed'[k] >= x.since
    BY <1>1, <2>1, <2>2, <2>3
  <2> QED
    BY <2>1, <2>4 DEF ModuleHeld
<1>4. ASSUME NEW k, MembershipHeld(k, x.since) PROVE MembershipHeld(k, x.since)'
  <2>1. /\ k \in Memberships /\ k[2] \in Organizations
        /\ k \in DOMAIN member \/ left[k] >= x.since
        /\ k[2] \in active \/ stopped[k[2]] >= x.since
    BY <1>4, MembershipParts DEF MembershipHeld
  <2>2. /\ left[k] <= left'[k] /\ (k \in DOMAIN member => k \in DOMAIN member' \/ now <= left'[k])
        /\ stopped[k[2]] <= stopped'[k[2]]
        /\ k[2] \in active => k[2] \in active' \/ now <= stopped'[k[2]]
    BY <2>1 DEF DirectoryDated
  <2>3. /\ left[k] \in Int /\ left'[k] \in Int
        /\ stopped[k[2]] \in Int /\ stopped'[k[2]] \in Int
    BY <1>2, <2>1
  <2>4. k \in DOMAIN member' \/ left'[k] >= x.since
    BY <1>1, <2>1, <2>2, <2>3
  <2>5. k[2] \in active' \/ stopped'[k[2]] >= x.since
    BY <1>1, <2>1, <2>2, <2>3
  <2> QED
    BY <2>1, <2>4, <2>5 DEF MembershipHeld
<1>5. x.since <= now'
  BY <1>1
<1> QED
  BY <1>3, <1>4, <1>5 DEF CallOK

\* One call moves at most, and the others stay so.
CallsMove ==
    \/ UNCHANGED call
    \/ \E c \in Callers : \E x : (x = Free \/ CallOK(x)) /\ call' = [call EXCEPT ![c] = x]

\* What the other calls have asked stays asked.
LEMMA CallsStay ==
    ASSUME Types, Types', Directory, Directory', ModulesDated, DirectoryDated, CallsOK, CallsMove
    PROVE  CallsOK'
<1>1. ASSUME NEW c \in Callers PROVE (call[c] = Free \/ CallOK(call[c]))'
  <2>1. PICK x : x = call'[c]
    OBVIOUS
  <2>2. x = Free \/ CallOK(x)
    BY <2>1 DEF CallsOK, CallsMove
  <2>3. x = Free \/ CallOK(x)'
    BY <2>2, CallStays
  <2> QED
    BY <2>1, <2>3
<1> QED
  BY <1>1 DEF CallsOK, CallsMove

\* A call at a prefix, when it goes on to a right record.
LEMMA Throttled ==
    ASSUME Types, Fits(hits, passed, now), CallsOK, NEW c \in Callers, NEW p \in Subjects,
           NEW on, on = Free \/ CallOK(on), Throttle(c, p, on)
    PROVE  /\ Fits(hits', passed', now)
           /\ \E x : (x = Free \/ CallOK(x)) /\ call' = [call EXCEPT ![c] = x]
<1>1. now \in Nat
  BY AccessAssumption DEF Types
<1>2. Fits(Consume(hits, p, now),
           IF Allowed(hits, p, now) THEN [passed EXCEPT ![p] = Append(@, now)] ELSE passed, now)
  BY <1>1, FitsAfterCall
<1>3. /\ hits' = Consume(hits, p, now)
      /\ passed' = IF Allowed(hits, p, now) THEN [passed EXCEPT ![p] = Append(@, now)] ELSE passed
      /\ call' = [call EXCEPT ![c] = IF Allowed(hits, p, now) THEN on ELSE Free]
  BY DEF Throttle
<1>4. Fits(hits', passed', now)
  BY <1>2, <1>3, Zenon
<1>5. PICK x : x = IF Allowed(hits, p, now) THEN on ELSE Free
  OBVIOUS
<1>6. x = Free \/ CallOK(x)
  BY <1>5
<1> QED
  BY <1>3, <1>4, <1>5, <1>6

\* Whom a call counts for.
LEMMA SubjectsOf ==
    /\ \A a \in Addresses : [kind |-> "ip", who |-> a] \in Subjects
    /\ \A u \in Users : \A k \in {"user", "read", "write"} : [kind |-> k, who |-> u] \in Subjects
BY DEF Subjects

\* Every step of a call leaves it, or ends it, right.
LEMMA ConnectKeeps ==
    ASSUME Types, Directory, Fits(hits, passed, now), CallsOK, Connect(ToolCalls)
    PROVE  /\ UNCHANGED <<accessVars, directory>>
           /\ Fits(hits', passed', now)
           /\ \E c \in Callers : \E x : (x = Free \/ CallOK(x)) /\ call' = [call EXCEPT ![c] = x]
<1> DEFINE Right(c) ==
      /\ UNCHANGED directory
      /\ Fits(hits', passed', now)
      /\ \E x : (x = Free \/ CallOK(x)) /\ call' = [call EXCEPT ![c] = x]
<1>0. now \in Nat
  BY AccessAssumption DEF Types
<1>1. ASSUME NEW c \in Callers, NEW q \in ToolCalls, Receive(c, q) PROVE Right(c)
  <2> DEFINE p == [kind |-> "ip", who |-> q.address]
             on == [stage |-> "token", user |-> q.user, tool |-> q.tool,
                    organization |-> q.organization, writes |-> q.writes, since |-> now,
                    todo |-> {}, found |-> {}, role |-> "none"]
  <2>1. p \in Subjects
    BY SubjectsOf DEF ToolCalls
  <2>2. on \in CallRecords
    BY <1>0 DEF CallRecords, CallStages, ToolCalls
  <2>3. on.since <= now /\ on.stage # "modules"
    BY <1>0
  <2>4. Throttle(c, p, on) /\ UNCHANGED directory
    BY <1>1 DEF Receive
  <2> HIDE DEF on, p
  <2>5. CallOK(on)
    BY <2>2, <2>3 DEF CallOK
  <2> QED
    BY <2>1, <2>4, <2>5, Throttled
<1>2. ASSUME NEW c \in Callers, call[c] # Free PROVE CallOK(call[c])
  BY <1>2 DEF CallsOK
<1>3. \A c \in Callers : \A g \in CallStages : call[c].stage = g => call[c] # Free
  BY DEF Free, CallStages
<1>4. ASSUME NEW x, CallOK(x), NEW g \in CallStages \ {"modules"}
      PROVE  CallOK([x EXCEPT !.stage = g])
  BY <1>4 DEF CallOK, CallRecords
<1>5. ASSUME NEW c \in Callers, ThrottleUser(c) PROVE Right(c)
  <2> DEFINE p == [kind |-> "user", who |-> call[c].user]
             on == [call[c] EXCEPT !.stage = "dispatch"]
  <2>1. CallOK(call[c]) /\ Throttle(c, p, on) /\ UNCHANGED directory
    BY <1>2, <1>3, <1>5 DEF ThrottleUser, CallStages
  <2>2. p \in Subjects
    BY <2>1, SubjectsOf DEF CallOK, CallRecords
  <2>3. CallOK(on)
    BY <1>4, <2>1 DEF CallStages
  <2> HIDE DEF p, on
  <2> QED
    BY <2>1, <2>2, <2>3, Throttled
<1>6. ASSUME NEW c \in Callers, Dispatch(c) PROVE Right(c)
  <2> DEFINE p == [kind |-> call[c].tool.kind, who |-> call[c].user]
             g == IF call[c].tool.needsOrganization THEN "memberships" ELSE "run"
             on == [call[c] EXCEPT !.stage = g]
  <2>1. CallOK(call[c]) /\ Throttle(c, p, on) /\ UNCHANGED directory
    BY <1>2, <1>3, <1>6 DEF Dispatch, CallStages
  <2>2. p \in Subjects
    <3>1. call[c].tool.kind \in {"read", "write"} /\ call[c].user \in Users
      BY <2>1 DEF CallOK, CallRecords, Tools
    <3> QED
      BY <3>1, SubjectsOf
  <2>3. g \in CallStages \ {"modules"}
    BY DEF CallStages
  <2> HIDE DEF g, p
  <2>4. CallOK(on)
    BY <1>4, <2>1, <2>3
  <2> HIDE DEF on
  <2> QED
    BY <2>1, <2>2, <2>4, Throttled
<1>7. ASSUME NEW c \in Callers, NEW x, x = Free \/ CallOK(x), call' = [call EXCEPT ![c] = x],
             UNCHANGED <<hits, passed, directory>>
      PROVE  Right(c)
  BY <1>7
<1>8. ASSUME NEW c \in Callers, MissesScope(c) \/ Run(c) PROVE Right(c)
  BY <1>7, <1>8 DEF MissesScope, Run, End
<1>9. ASSUME NEW c \in Callers, ReadMemberships(c) PROVE Right(c)
  <2> DEFINE mine == OrganizationsOf(call[c].user)
             x == IF call[c].organization = NoOrganization
                  THEN [call[c] EXCEPT !.stage = "candidates", !.todo = mine]
                  ELSE [call[c] EXCEPT !.stage = "resolve", !.found = mine]
  <2>1. mine \subseteq Organizations
    BY DEF OrganizationsOf, Directory
  <2>2. CallOK(call[c]) /\ call' = [call EXCEPT ![c] = x] /\ UNCHANGED <<hits, passed, directory>>
    BY <1>2, <1>3, <1>9 DEF ReadMemberships, CallStages
  <2>3. CallOK(x)
    <3> HIDE DEF mine
    <3> QED
      BY <2>1, <2>2 DEF CallOK, CallRecords, CallStages
  <2> HIDE DEF x
  <2> QED
    BY <1>7, <2>2, <2>3
<1>10. ASSUME NEW c \in Callers, AskCandidate(c) PROVE Right(c)
  <2>1. CallOK(call[c]) /\ call[c].stage = "candidates" /\ UNCHANGED <<hits, passed, directory>>
    BY <1>2, <1>3, <1>10 DEF AskCandidate, CallStages
  <2>2. PICK o \in call[c].todo :
          call' = [call EXCEPT ![c].todo = @ \ {o},
                               ![c].found = @ \cup {p \in {o} : <<p, "mcp">> \in enabled}]
    BY <1>10 DEF AskCandidate
  <2> DEFINE more == {p \in {o} : <<p, "mcp">> \in enabled}
             x == [call[c] EXCEPT !.todo = @ \ {o}, !.found = @ \cup more]
  <2>3. more \subseteq Organizations
    <3>1. \A p, m : <<p, m>> \in enabled => p \in Organizations
      BY DEF Types
    <3> QED
      BY <3>1
  <2>4. CallOK(x)
    <3> HIDE DEF more
    <3> QED
      BY <2>1, <2>3 DEF CallOK, CallRecords
  <2>5. call' = [call EXCEPT ![c] = x]
    BY <2>2
  <2> HIDE DEF x
  <2> QED
    BY <1>7, <2>1, <2>4, <2>5
<1>11. ASSUME NEW c \in Callers, PickCandidate(c) PROVE Right(c)
  <2>1. CallOK(call[c]) /\ call[c].stage = "candidates" /\ UNCHANGED <<hits, passed, directory>>
    BY <1>2, <1>3, <1>11 DEF PickCandidate, CallStages
  <2>2. CASE Cardinality(call[c].found) = 1
    <3> DEFINE o == CHOOSE o \in call[c].found : TRUE
               x == [call[c] EXCEPT !.stage = "resolve", !.organization = o]
    <3>1. call[c].found # {} /\ call[c].found \subseteq Organizations
      BY <2>1, <2>2, FS_EmptySet DEF CallOK, CallRecords
    <3>2. o \in Organizations
      BY <3>1
    <3>3. call' = [call EXCEPT ![c] = x]
      BY <1>11, <2>2 DEF PickCandidate
    <3> HIDE DEF o
    <3>4. CallOK(x)
      BY <2>1, <3>2 DEF CallOK, CallRecords, CallStages
    <3> HIDE DEF x
    <3> QED
      BY <1>7, <2>1, <3>3, <3>4
  <2>3. CASE Cardinality(call[c].found) # 1
    BY <1>7, <1>11, <2>1, <2>3 DEF PickCandidate, End
  <2> QED
    BY <2>2, <2>3
<1>12. ASSUME NEW c \in Callers, Resolve(c) PROVE Right(c)
  <2> DEFINE k == <<call[c].user, call[c].organization>>
             x == [call[c] EXCEPT !.stage = "modules", !.role = member[k].role,
                                  !.todo = {"mcp"} \cup call[c].tool.modules]
  <2>1. CallOK(call[c]) /\ UNCHANGED <<hits, passed, directory>>
    BY <1>2, <1>3, <1>12 DEF Resolve, CallStages
  <2>2. CASE k \in DOMAIN member /\ k[2] \in active \cap call[c].found
    <3>1. member[k].role \in RoleKeys /\ k \in Memberships /\ MembershipHeld(k, call[c].since)
      BY <2>2 DEF Directory, Rows, MembershipHeld
    <3>2. call[c].tool.modules \subseteq Modules
      BY <2>1 DEF CallOK, CallRecords, Tools
    <3>3. call' = [call EXCEPT ![c] = x]
      BY <1>12, <2>2 DEF Resolve
    <3>4. PICK role, modules, y : role = member[k].role /\ modules = call[c].tool.modules /\ y = call[c]
      OBVIOUS
    <3>5. x = [y EXCEPT !.stage = "modules", !.role = role, !.todo = {"mcp"} \cup modules]
      BY <3>4
    <3>6. /\ y \in CallRecords /\ y.since <= now /\ role \in RoleKeys /\ modules \subseteq Modules
          /\ y.tool.modules = modules
          /\ MembershipHeld(<<y.user, y.organization>>, y.since)
      BY <2>1, <3>1, <3>2, <3>4 DEF CallOK
    <3> HIDE DEF x, k
    <3>7. /\ x \in CallRecords /\ x.since = y.since /\ x.role = role
          /\ x.todo = {"mcp"} \cup modules /\ x.tool = y.tool
          /\ x.user = y.user /\ x.organization = y.organization
      BY <3>5, <3>6 DEF CallRecords, CallStages
    <3>8. CallOK(x)
      BY <3>6, <3>7 DEF CallOK
    <3> QED
      BY <1>7, <2>1, <3>3, <3>8
  <2>3. CASE ~(k \in DOMAIN member /\ k[2] \in active \cap call[c].found)
    BY <1>7, <1>12, <2>1, <2>3 DEF Resolve, End
  <2> QED
    BY <2>2, <2>3
<1>13. ASSUME NEW c \in Callers, AskModule(c) PROVE Right(c)
  <2>1. CallOK(call[c]) /\ call[c].stage = "modules" /\ UNCHANGED <<hits, passed, directory>>
    BY <1>2, <1>3, <1>13 DEF AskModule, CallStages
  <2>2. PICK m \in call[c].todo :
          IF <<call[c].organization, m>> \in enabled THEN call' = [call EXCEPT ![c].todo = @ \ {m}]
          ELSE call' = [call EXCEPT ![c] = Free]
    BY <1>13 DEF AskModule, ModuleIsOn, End
  <2>3. PICK y : y = call[c]
    OBVIOUS
  <2> DEFINE k == <<y.organization, m>>
             x == [y EXCEPT !.todo = y.todo \ {m}]
  <2>4. CASE k \in enabled
    <3>1. k \in Pairs
      BY <2>4 DEF Types, Pairs
    <3>2. ModuleHeld(k, y.since)
      BY <2>4, <3>1 DEF ModuleHeld
    <3>3. call' = [call EXCEPT ![c] = x]
      BY <2>2, <2>3, <2>4
    <3>4. /\ x \in CallRecords /\ x.since = y.since /\ x.role = y.role /\ x.stage = y.stage
          /\ x.todo = y.todo \ {m} /\ x.tool = y.tool
          /\ x.user = y.user /\ x.organization = y.organization
      BY <2>1, <2>3 DEF CallOK, CallRecords
    <3> HIDE DEF x
    <3>5. CallOK(x)
      BY <2>1, <2>3, <3>2, <3>4 DEF CallOK
    <3> QED
      BY <1>7, <2>1, <3>3, <3>5
  <2>5. CASE k \notin enabled
    BY <1>7, <2>1, <2>2, <2>3, <2>5
  <2> QED
    BY <2>4, <2>5
<1>14. ASSUME NEW c \in Callers, Authorized(c) PROVE Right(c)
  <2>1. CallOK(call[c]) /\ UNCHANGED <<hits, passed, directory>>
    BY <1>2, <1>3, <1>14 DEF Authorized, CallStages
  <2>2. CallOK([call[c] EXCEPT !.stage = "run"])
    BY <1>4, <2>1 DEF CallStages
  <2>3. \/ call' = [call EXCEPT ![c] = [call[c] EXCEPT !.stage = "run"]]
        \/ call' = [call EXCEPT ![c] = Free]
    BY <1>14 DEF Authorized, Stage, End
  <2> QED
    BY <1>7, <2>1, <2>2, <2>3
<1>15. PICK c \in Callers : Right(c)
  <2> HIDE DEF Right
  <2> QED
    BY <1>1, <1>5, <1>6, <1>8, <1>9, <1>10, <1>11, <1>12, <1>13, <1>14 DEF Connect
<1> QED
  BY <1>15 DEF Connect

-----------------------------------------------------------------------------
(***************************************************************************)
(* Calls of the web: what the guards let through, and what the handlers    *)
(* have checked.                                                           *)
(***************************************************************************)
WritingRoutes ==
    {"invite member", "change role", "set scope", "assign member", "update member",
     "remove member", "enable module", "disable module", "activate", "deactivate"}

\* Whoever is no superadmin acts where it is a member, with the scope and the
\* permission it has there.
Confined(x) ==
    LET route == Routes[x.asked.route]
    IN  /\ ~route.superadmin
        /\ x.acts # NoOrganization =>
             /\ x.acts \in DOMAIN x.was
             /\ x.context.scope = x.was[x.acts].scope
             /\ route.permission # NoPermission =>
                  route.permission \in PermissionsOf[x.was[x.acts].role]

\* What a handler that goes on to write has checked of scopes.
Checked(x) ==
    LET q == x.asked
    IN  /\ q.route \in WritingRoutes
        /\ q.route = "invite member" => CanGrant(x.context, q.unit)
        /\ q.route \in {"change role", "update member", "remove member", "set scope"} =>
             x.row # NoRow /\ CanGrant(x.context, x.row.scope)
        /\ q.route = "set scope" => CanGrant(x.context, q.unit)
        /\ q.route = "assign member" => x.context.scope = Everywhere

RequestOK(x) ==
    /\ x = [stage |-> x.stage, asked |-> x.asked, context |-> x.context, acts |-> x.acts,
            row |-> x.row, was |-> x.was]
    /\ x.stage \in {"handler", "write"}
    /\ x.asked \in WebRequests
    /\ x.acts \in Organizations \cup {NoOrganization}
    /\ x.asked.route \in {"enable module", "disable module"} => x.acts \in created
    /\ Routes[x.asked.route].acts = "path" => x.acts \in Organizations
    /\ DOMAIN x.was \subseteq Organizations
    /\ \A o \in DOMAIN x.was : x.was[o] \in Rows
    /\ x.asked.user \notin SuperadminUsers => Confined(x)
    /\ x.stage = "write" => Checked(x)

RequestsOK ==
    /\ request = [r \in Requests |-> request[r]]
    /\ \A r \in Requests : request[r] = Free \/ RequestOK(request[r])

\* A call of the web and its route.
LEMMA WebCalls ==
    ASSUME NEW q \in WebRequests
    PROVE  /\ q.user \in Users /\ q.target \in Users /\ q.role \in RoleKeys /\ q.unit \in Scopes
           /\ q.module \in Modules
           /\ q.route \in DOMAIN Routes
           /\ q.path \in Organizations \cup {NoOrganization}
           /\ q.header \in Organizations \cup {NoOrganization}
           /\ Routes[q.route].acts = "path" => q.path \in Organizations
           /\ Guarded(q.route, Routes[q.route])
<1>1. WellGuarded(Routes)
  BY RoutesGuarded
<1>2. q.route \in DOMAIN Routes
  BY DEF WebRequests
<1>3. Guarded(q.route, Routes[q.route])
  BY <1>1, <1>2 DEF WellGuarded
<1>4. /\ q.user \in Users /\ q.target \in Users /\ q.role \in RoleKeys /\ q.unit \in Scopes
      /\ q.module \in Modules
      /\ q.path \in Organizations \cup {NoOrganization}
      /\ q.header \in Organizations \cup {NoOrganization}
      /\ Routes[q.route].acts = "path" => q.path # NoOrganization
  BY DEF WebRequests
<1> QED
  BY <1>2, <1>3, <1>4

\* No role may do anything.
LEMMA NoRoleDoesAnything == \A r \in RoleKeys : Anything \notin PermissionsOf[r]
BY DEF RoleKeys, PermissionsOf, Anything

\* The context of somebody who is no superadmin.
LEMMA ContextOfUser ==
    ASSUME NEW route, NEW user, user \notin SuperadminUsers, NEW header
    PROVE  LET context == ContextOf(route, user, header)
           IN  /\ ~context.superadmin
               /\ route.tenant =>
                    /\ context.organization = header
                    /\ context.scope = member[<<user, header>>].scope
                    /\ context.permissions = PermissionsOf[member[<<user, header>>].role]
               /\ ~route.tenant => context.organization = NoOrganization /\ context.permissions = {}
<1>1. CASE route.tenant
  BY <1>1 DEF ContextOf, Resolved, SignedIn
<1>2. CASE ~route.tenant
  <2>1. ContextOf(route, user, header) = SignedIn(user, FALSE)
    <3>1. (user \in SuperadminUsers) = FALSE
      OBVIOUS
    <3>2. ContextOf(route, user, header) = SignedIn(user, user \in SuperadminUsers)
      BY <1>2 DEF ContextOf
    <3> QED
      BY <3>1, <3>2, Zenon
  <2> QED
    BY <1>2, <2>1 DEF SignedIn
<1> QED
  BY <1>1, <1>2

\* The organisation of any context.
LEMMA ContextOrganization ==
    ASSUME NEW route, NEW user, NEW header
    PROVE  ContextOf(route, user, header).organization
             = IF route.tenant THEN header ELSE NoOrganization
<1>1. CASE user \in SuperadminUsers
  BY <1>1 DEF ContextOf, Resolved, SignedIn
<1>2. CASE user \notin SuperadminUsers
  BY <1>2 DEF ContextOf, Resolved, SignedIn
<1> QED
  BY <1>1, <1>2

\* What the guards let through.
LEMMA EntersRight ==
    ASSUME Types, Directory, NEW q \in WebRequests,
           Routes[q.route].tenant => MayResolve(q.user, q.header),
           Admitted(Routes[q.route], ContextOf(Routes[q.route], q.user, q.header), q.path,
                    ModulesOf(ContextOf(Routes[q.route], q.user, q.header).organization)),
           NEW x,
           x = [stage |-> "handler", asked |-> q,
                context |-> ContextOf(Routes[q.route], q.user, q.header),
                acts |-> ActsOn(Routes[q.route], ContextOf(Routes[q.route], q.user, q.header), q.path),
                row |-> NoRow,
                was |-> [o \in {p \in Organizations : <<q.user, p>> \in DOMAIN member} |->
                           member[<<q.user, o>>]]]
    PROVE  RequestOK(x)
<1>0. PICK route, context :
        route = Routes[q.route] /\ context = ContextOf(Routes[q.route], q.user, q.header)
  OBVIOUS
<1>1. /\ q.path \in Organizations \cup {NoOrganization}
      /\ route.acts = "path" => q.path \in Organizations
      /\ Guarded(q.route, route)
  BY <1>0, WebCalls
<1>2. context.organization = IF route.tenant THEN q.header ELSE NoOrganization
  BY <1>0, ContextOrganization
<1>3. route.tenant =>
        /\ q.header \in active /\ q.header \in created /\ q.header \in Organizations
        /\ q.header # NoOrganization
        /\ q.user \notin SuperadminUsers => <<q.user, q.header>> \in DOMAIN member
  BY <1>0, DoorsAssumption DEF MayResolve, Directory
<1>4. /\ route.param => q.path = context.organization /\ context.organization # NoOrganization
      /\ route.superadmin => context.superadmin
      /\ route.permission # NoPermission =>
           context.superadmin \/ Anything \in context.permissions
                              \/ route.permission \in context.permissions
  BY <1>0 DEF Admitted, ParamIsContext, HasPermission
<1>5. /\ x.stage = "handler" /\ x.asked = q /\ x.context = context
      /\ x.acts = ActsOn(route, context, q.path)
      /\ x.was = [o \in {p \in Organizations : <<q.user, p>> \in DOMAIN member} |->
                           member[<<q.user, o>>]]
      /\ x = [stage |-> x.stage, asked |-> x.asked, context |-> x.context, acts |-> x.acts,
              row |-> x.row, was |-> x.was]
  BY <1>0
<1>6. /\ route.acts = "path" => x.acts = q.path
      /\ route.acts = "context" => x.acts = context.organization
      /\ route.acts = "none" => x.acts = NoOrganization
  BY <1>5 DEF ActsOn
<1>7. route.acts \in {"none", "context", "path"}
  BY <1>1 DEF Guarded
<1>8. x.acts \in Organizations \cup {NoOrganization}
  BY <1>1, <1>2, <1>3, <1>6, <1>7
<1>9. q.route \in {"enable module", "disable module"} => x.acts \in created
  BY <1>1, <1>2, <1>3, <1>4, <1>6 DEF Guarded
<1>10. DOMAIN x.was \subseteq Organizations /\ \A o \in DOMAIN x.was : x.was[o] \in Rows
  BY <1>5 DEF Directory
<1>11. ASSUME q.user \notin SuperadminUsers PROVE Confined(x)
  <2>1. /\ ~context.superadmin
        /\ route.tenant =>
             /\ context.organization = q.header
             /\ context.scope = member[<<q.user, q.header>>].scope
             /\ context.permissions = PermissionsOf[member[<<q.user, q.header>>].role]
        /\ ~route.tenant => context.permissions = {}
    <3>1. ~ContextOf(route, q.user, q.header).superadmin
      BY <1>11, ContextOfUser
    <3>2. LET c == ContextOf(route, q.user, q.header)
          IN  /\ route.tenant =>
                   /\ c.organization = q.header
                   /\ c.scope = member[<<q.user, q.header>>].scope
                   /\ c.permissions = PermissionsOf[member[<<q.user, q.header>>].role]
              /\ ~route.tenant => c.permissions = {}
      BY <1>11, ContextOfUser
    <3> QED
      BY <1>0, <3>1, <3>2
  <2>2. ~route.superadmin
    BY <1>4, <2>1
  <2>3. ASSUME x.acts # NoOrganization
        PROVE  /\ x.acts \in DOMAIN x.was
               /\ context.scope = x.was[x.acts].scope
               /\ route.permission # NoPermission =>
                    route.permission \in PermissionsOf[x.was[x.acts].role]
    <3>1. route.tenant /\ x.acts = q.header
      BY <1>1, <1>2, <1>4, <1>6, <1>7, <2>2, <2>3 DEF Guarded
    <3>2. <<q.user, q.header>> \in DOMAIN member /\ q.header \in Organizations
      BY <1>3, <1>11, <3>1
    <3>3. x.acts \in DOMAIN x.was /\ x.was[x.acts] = member[<<q.user, q.header>>]
      BY <1>5, <3>1, <3>2
    <3>4. member[<<q.user, q.header>>].role \in RoleKeys
      BY <3>2 DEF Directory, Rows
    <3>5. Anything \notin PermissionsOf[member[<<q.user, q.header>>].role]
      BY <3>4, NoRoleDoesAnything
    <3> QED
      BY <1>4, <2>1, <3>1, <3>3, <3>5
  <2> QED
    BY <1>0, <1>5, <2>2, <2>3 DEF Confined
<1> QED
  BY <1>0, <1>1, <1>5, <1>6, <1>8, <1>9, <1>10, <1>11 DEF RequestOK

\* What a handler checks before it writes.
LEMMA HandledRight ==
    ASSUME NEW x, RequestOK(x), NEW row, MayWrite(x.asked, x.context, x.acts, row)
    PROVE  RequestOK([x EXCEPT !.stage = "write", !.row = row])
<1>1. PICK y : y = [x EXCEPT !.stage = "write", !.row = row]
  OBVIOUS
<1>2. x = [stage |-> x.stage, asked |-> x.asked, context |-> x.context, acts |-> x.acts,
           row |-> x.row, was |-> x.was]
  BY DEF RequestOK
<1>3. /\ y.stage = "write" /\ y.asked = x.asked /\ y.context = x.context /\ y.acts = x.acts
      /\ y.row = row /\ y.was = x.was
      /\ y = [stage |-> y.stage, asked |-> y.asked, context |-> y.context, acts |-> y.acts,
              row |-> y.row, was |-> y.was]
  BY <1>1, <1>2
<1>4. PICK q, context : q = x.asked /\ context = x.context
  OBVIOUS
<1>5. /\ q.route \in WritingRoutes
      /\ q.route = "invite member" => CanGrant(context, q.unit)
      /\ q.route \in {"change role", "update member", "remove member", "set scope"} =>
           row # NoRow /\ CanGrant(context, row.scope)
      /\ q.route = "set scope" => CanGrant(context, q.unit)
      /\ q.route = "assign member" => context.scope = Everywhere
  <2>1. MayWrite(q, context, x.acts, row)
    BY <1>4
  <2> QED
    BY <2>1 DEF MayWrite, WritingRoutes
<1>6. Checked(y)
  BY <1>3, <1>4, <1>5 DEF Checked
<1>7. Confined(x) => Confined(y)
  BY <1>3 DEF Confined
<1>8. RequestOK(y)
  BY <1>3, <1>6, <1>7 DEF RequestOK
<1> QED
  BY <1>1, <1>8

\* Organisations do not go.
LEMMA RequestStays ==
    ASSUME created \subseteq created', NEW x, RequestOK(x)
    PROVE  RequestOK(x)'
BY DEF RequestOK, Confined, Checked

\* One request moves at most.
RequestsMove ==
    \/ UNCHANGED request
    \/ \E r \in Requests : \E x : (x = Free \/ RequestOK(x)) /\ request' = [request EXCEPT ![r] = x]

\* The other requests stay right.
LEMMA RequestsStay ==
    ASSUME created \subseteq created', RequestsOK, RequestsMove
    PROVE  RequestsOK'
<1>1. ASSUME NEW r \in Requests PROVE (request[r] = Free \/ RequestOK(request[r]))'
  <2>1. PICK x : x = request'[r]
    OBVIOUS
  <2>2. x = Free \/ RequestOK(x)
    BY <2>1 DEF RequestsOK, RequestsMove
  <2>3. x = Free \/ RequestOK(x)'
    BY <2>2, RequestStays
  <2> QED
    BY <2>1, <2>3
<1> QED
  BY <1>1 DEF RequestsOK, RequestsMove

-----------------------------------------------------------------------------
(***************************************************************************)
(* The invariant of both doors.                                            *)
(***************************************************************************)
doorsVars == <<accessVars, connectorVars, membersVars>>

DoorsInv ==
    /\ Types /\ Directory
    /\ Fits(hits, passed, now)
    /\ CallsOK /\ RequestsOK

\* What a step has to keep.
LEMMA DoorsKept ==
    ASSUME DoorsInv, Types', Directory', ModulesDated, DirectoryDated, Fits(hits', passed', now'),
           CallsMove, RequestsMove
    PROVE  DoorsInv'
<1>1. created \subseteq created'
  BY DEF ModulesDated
<1>2. CallsOK' /\ RequestsOK'
  BY <1>1, CallsStay, RequestsStay DEF DoorsInv
<1> QED
  BY <1>2 DEF DoorsInv

\* What a step that leaves modules and members alone keeps.
LEMMA StillDated ==
    ASSUME Types, Directory, UNCHANGED accessVars, UNCHANGED directory
    PROVE  Types' /\ Directory' /\ ModulesDated /\ DirectoryDated
<1>1. Types' /\ ModulesDated
  BY AccessDates
<1> QED
  BY <1>1, DirectoryLater

\* Every step of the modules' own.
LEMMA AccessSteps ==
    ASSUME DoorsInv, AccessNext, UNCHANGED connectorVars, UNCHANGED membersVars
    PROVE  DoorsInv'
<1>1. Types' /\ ModulesDated
  BY AccessDates DEF DoorsInv
<1>2. UNCHANGED <<hits, passed, directory, call, request>>
  BY DEF connectorVars, membersVars, directory
<1>3. Directory' /\ DirectoryDated
  BY <1>1, <1>2, DirectoryLater DEF DoorsInv
<1>4. Fits(hits', passed', now')
  <2>1. now' = now \/ now' = now + 1
    BY DEF AccessNext, Administer, CreateOrganization, BeginToggle, CommitToggle, Guard, GuardAsks,
           GuardKeeps, Tick
  <2>2. Fits(hits, passed, now) /\ now \in Nat
    BY AccessAssumption DEF DoorsInv, Types
  <2>3. Fits(hits, passed, now + 1)
    BY <2>2, FitsLater
  <2> QED
    BY <1>2, <2>1, <2>2, <2>3
<1> QED
  BY <1>1, <1>2, <1>3, <1>4, DoorsKept DEF CallsMove, RequestsMove

\* Every step of a tool call.
LEMMA ConnectSteps ==
    ASSUME DoorsInv, Connect(ToolCalls), UNCHANGED membersVars
    PROVE  DoorsInv'
<1>1. /\ UNCHANGED <<accessVars, directory>>
      /\ Fits(hits', passed', now)
      /\ \E c \in Callers : \E x : (x = Free \/ CallOK(x)) /\ call' = [call EXCEPT ![c] = x]
  BY ConnectKeeps DEF DoorsInv
<1>2. CallsMove /\ RequestsMove /\ now' = now
  BY <1>1 DEF CallsMove, RequestsMove, membersVars, accessVars
<1>3. Types' /\ Directory' /\ ModulesDated /\ DirectoryDated
  BY <1>1, StillDated DEF DoorsInv
<1> QED
  BY <1>1, <1>2, <1>3, DoorsKept

\* Members and organisations of the connector.
LEMMA ComingAndGoing ==
    ASSUME DoorsInv, UNCHANGED membersVars,
           \/ \E k \in Memberships : (\E role \in RoleKeys : Join(k, role)) \/ LeaveOrganization(k)
           \/ \E o \in Organizations : Deactivate(o) \/ Activate(o)
    PROVE  DoorsInv'
<1>1. UNCHANGED accessVars /\ UNCHANGED <<hits, passed, call, request, now>>
  BY DEF Join, LeaveOrganization, Deactivate, Activate, membersVars, accessVars
<1>2. Types' /\ ModulesDated
  BY <1>1, AccessDates DEF DoorsInv
<1>3. Directory' /\ DirectoryDated
  <2>1. ASSUME NEW k \in Memberships, NEW role \in RoleKeys, Join(k, role)
        PROVE  Directory' /\ DirectoryDated
    <3>1. [role |-> role, scope |-> Everywhere] \in Rows
      BY DEF Rows, Scopes
    <3>2. UNCHANGED <<now, left, active, stopped>> /\ \E row \in Rows : member' = Put(k, row)
      BY <1>1, <2>1, <3>1 DEF Join
    <3> QED
      BY <3>2, MemberWritten DEF DoorsInv
  <2>2. ASSUME NEW k \in Memberships, LeaveOrganization(k) PROVE Directory' /\ DirectoryDated
    <3>1. /\ UNCHANGED <<now, active, stopped>>
          /\ member' = Restrict(member, DOMAIN member \ {k})
          /\ left' = [left EXCEPT ![k] = now]
      BY <1>1, <2>2 DEF LeaveOrganization
    <3> QED
      BY <3>1, MemberWritten DEF DoorsInv
  <2>3. ASSUME NEW o \in Organizations, Deactivate(o) \/ Activate(o)
        PROVE  Directory' /\ DirectoryDated
    <3>1. /\ UNCHANGED <<now, member, left>>
          /\ \/ active' = active \cup {o} /\ UNCHANGED stopped
             \/ active' = active \ {o} /\ stopped' = [stopped EXCEPT ![o] = now]
      BY <1>1, <2>3 DEF Deactivate, Activate
    <3> QED
      BY <3>1, OrganizationWritten DEF DoorsInv
  <2> QED
    BY <2>1, <2>2, <2>3
<1> QED
  BY <1>1, <1>2, <1>3, DoorsKept DEF CallsMove, RequestsMove, DoorsInv

\* What a handler writes is a row, or none, of a member of the organisation.
LEMMA WrittenRow ==
    ASSUME NEW q \in WebRequests, NEW row \in Rows \cup {NoRow}
    PROVE  Written(q, row) \in Rows \cup {NoRow}
<1>1. q.role \in RoleKeys /\ q.unit \in Scopes /\ Everywhere \in Scopes
  BY WebCalls DEF Scopes
<1>2. row # NoRow => row \in Rows
  OBVIOUS
<1>3. [role |-> q.role, scope |-> q.unit] \in Rows /\ [role |-> q.role, scope |-> Everywhere] \in Rows
  BY <1>1 DEF Rows
<1>4. row \in Rows => [row EXCEPT !.role = q.role] \in Rows /\ [row EXCEPT !.scope = q.unit] \in Rows
  BY <1>1 DEF Rows
<1> QED
  BY <1>2, <1>3, <1>4 DEF Written

\* The organisation a writing route acts on, and who may write there.
LEMMA WritesWhere ==
    ASSUME NEW x, RequestOK(x), x.stage = "write"
    PROVE  /\ x.acts \in Organizations /\ Checked(x) /\ x.asked \in WebRequests
           /\ x.asked.user \notin SuperadminUsers =>
                /\ x.asked.route \in {"invite member", "change role", "set scope", "assign member",
                                      "update member", "remove member"}
                /\ Confined(x)
                /\ Routes[x.asked.route].permission \in {"core:member:manage", "core:org-unit:manage"}
<1>1. x.asked \in WebRequests /\ Checked(x) /\ (x.asked.user \notin SuperadminUsers => Confined(x))
  BY DEF RequestOK
<1>2. PICK n, route : n = x.asked.route /\ route = Routes[x.asked.route]
  OBVIOUS
<1>3. Guarded(n, route)
  BY <1>1, <1>2, WebCalls
<1>4. n \in WritingRoutes
  BY <1>1, <1>2 DEF Checked
<1>5. route.acts = "path"
  BY <1>3, <1>4 DEF Guarded, WritingRoutes
<1>6. x.acts \in Organizations
  BY <1>2, <1>5 DEF RequestOK
<1>7. ASSUME x.asked.user \notin SuperadminUsers
      PROVE  /\ n \in {"invite member", "change role", "set scope", "assign member",
                       "update member", "remove member"}
             /\ route.permission \in {"core:member:manage", "core:org-unit:manage"}
  <2>1. ~route.superadmin
    BY <1>1, <1>2, <1>7 DEF Confined
  <2> QED
    BY <1>3, <1>4, <2>1 DEF Guarded, WritingRoutes
<1> QED
  BY <1>1, <1>2, <1>6, <1>7

\* Of a member that may be there or not.
LEMMA RowsOfMembers ==
    ASSUME Directory, NEW k
    PROVE  RowOf(k) \in Rows \cup {NoRow} /\ (RowOf(k) # NoRow <=> k \in DOMAIN member)
<1>1. NoRow \notin Rows
  BY DEF NoRow, Rows, RoleKeys
<1> QED
  BY <1>1 DEF RowOf, Directory

\* A handler writes a member.
LEMMA MemberSteps ==
    ASSUME DoorsInv, NEW r \in Requests, WriteMember(r)
    PROVE  DoorsInv'
<1>1. PICK x : x = request[r]
  OBVIOUS
<1>2. RequestOK(x) /\ x.stage = "write"
  BY <1>1 DEF DoorsInv, RequestsOK, WriteMember, Free
<1>3. x.acts \in Organizations /\ x.asked \in WebRequests
  BY <1>2, WritesWhere
<1>4. PICK k, row : k = <<x.asked.target, x.acts>> /\ row = Written(x.asked, RowOf(k))
  OBVIOUS
<1>5. k \in Memberships
  BY <1>3, <1>4, WebCalls, MembershipParts
<1>6. row \in Rows \cup {NoRow}
  BY <1>3, <1>4, WrittenRow, RowsOfMembers DEF DoorsInv
<1>7. /\ member' = IF row = NoRow THEN Restrict(member, DOMAIN member \ {k}) ELSE Put(k, row)
      /\ left' = IF k \in DOMAIN member /\ row = NoRow THEN [left EXCEPT ![k] = now] ELSE left
      /\ request' = [request EXCEPT ![r] = Free]
      /\ UNCHANGED <<hits, passed, active, stopped, call>> /\ UNCHANGED accessVars
  BY <1>1, <1>4 DEF WriteMember
<1>8. Types' /\ ModulesDated /\ UNCHANGED now
  BY <1>7, AccessDates DEF DoorsInv, accessVars
<1>9. Directory' /\ DirectoryDated
  <2>1. CASE row = NoRow
    BY <1>5, <1>7, <1>8, <2>1, MemberWritten DEF DoorsInv
  <2>2. CASE row # NoRow
    <3>1. row \in Rows /\ member' = Put(k, row) /\ UNCHANGED left
      BY <1>6, <1>7, <2>2
    <3> QED
      BY <1>5, <1>7, <1>8, <3>1, MemberWritten DEF DoorsInv
  <2> QED
    BY <2>1, <2>2
<1>10. CallsMove /\ RequestsMove /\ Fits(hits', passed', now')
  BY <1>7, <1>8 DEF CallsMove, RequestsMove, DoorsInv
<1> QED
  BY <1>8, <1>9, <1>10, DoorsKept

\* A handler enables or disables a module.
LEMMA ModuleSteps ==
    ASSUME DoorsInv, NEW r \in Requests, WriteModule(r)
    PROVE  DoorsInv'
<1>1. PICK x : x = request[r]
  OBVIOUS
<1>2. /\ RequestOK(x) /\ x.stage = "write"
      /\ x.asked.route \in {"enable module", "disable module"}
  <2>1. x.stage = "write"
    BY <1>1 DEF WriteModule
  <2>2. x.asked.route \in {"enable module", "disable module"}
    BY <1>1 DEF WriteModule
  <2>3. x # Free
    BY <2>1 DEF Free
  <2>4. x = Free \/ RequestOK(x)
    BY <1>1 DEF DoorsInv, RequestsOK
  <2> QED
    BY <2>1, <2>2, <2>3, <2>4
<1>3. x.acts \in created /\ x.asked.module \in Modules
  BY <1>2, WebCalls DEF RequestOK
<1>4. PICK k : k = <<x.acts, x.asked.module>>
  OBVIOUS
<1>5. /\ enabled' = enabled \cup {k} \/ enabled' = enabled \ {k}
      /\ changed' = [j \in Pairs |-> IF (j \in enabled') # (j \in enabled) THEN now ELSE changed[j]]
      /\ request' = [request EXCEPT ![r] = Free]
      /\ UNCHANGED <<now, created, cache, lookup, toggle, hits, passed, call, directory>>
  BY <1>1, <1>4 DEF WriteModule
<1>6. now \in Nat /\ now \in 0 .. now /\ \A j \in Pairs : changed[j] \in 0 .. now
  BY AccessAssumption DEF DoorsInv, Types
<1>7. Types'
  <2>1. enabled' \subseteq created \X Modules
    BY <1>3, <1>4, <1>5 DEF DoorsInv, Types
  <2>2. changed' \in [Pairs -> 0 .. now]
    BY <1>5, <1>6
  <2> QED
    BY <1>5, <2>1, <2>2 DEF DoorsInv, Types
<1>8. ModulesDated
  <2>1. ASSUME NEW j \in Pairs
        PROVE  changed[j] <= changed'[j] /\ (j \in enabled => j \in enabled' \/ now <= changed'[j])
    <3>1. changed'[j] = IF (j \in enabled') # (j \in enabled) THEN now ELSE changed[j]
      BY <1>5
    <3> QED
      BY <1>6, <3>1
  <2>2. now <= now' /\ created \subseteq created'
    BY <1>5, <1>6
  <2> QED
    BY <2>1, <2>2, Zenon DEF ModulesDated
<1>9. Directory' /\ DirectoryDated
  BY <1>5, <1>7, <1>8, DirectoryLater DEF DoorsInv
<1>10. CallsMove /\ RequestsMove /\ Fits(hits', passed', now')
  BY <1>5 DEF CallsMove, RequestsMove, DoorsInv
<1> QED
  BY <1>7, <1>8, <1>9, <1>10, DoorsKept

\* A handler deactivates an organisation, or activates it.
LEMMA OrganizationSteps ==
    ASSUME DoorsInv, NEW r \in Requests, WriteOrganization(r)
    PROVE  DoorsInv'
<1>1. PICK x : x = request[r]
  OBVIOUS
<1>2. RequestOK(x) /\ x.stage = "write"
  BY <1>1 DEF DoorsInv, RequestsOK, WriteOrganization, Free
<1>3. PICK o : o = x.acts
  OBVIOUS
<1>4. o \in Organizations
  BY <1>2, <1>3, WritesWhere
<1>5. /\ \/ active' = active \cup {o} /\ UNCHANGED stopped
         \/ active' = active \ {o} /\ stopped' = [stopped EXCEPT ![o] = now]
      /\ request' = [request EXCEPT ![r] = Free]
      /\ UNCHANGED <<hits, passed, member, left, call>> /\ UNCHANGED accessVars
  BY <1>1, <1>3 DEF WriteOrganization
<1>6. Types' /\ ModulesDated /\ UNCHANGED now
  BY <1>5, AccessDates DEF DoorsInv, accessVars
<1>7. Directory' /\ DirectoryDated
  BY <1>4, <1>5, <1>6, OrganizationWritten DEF DoorsInv
<1>8. CallsMove /\ RequestsMove /\ Fits(hits', passed', now')
  BY <1>5, <1>6 DEF CallsMove, RequestsMove, DoorsInv
<1> QED
  BY <1>6, <1>7, <1>8, DoorsKept

\* A call passes the guards, and its handler reads and checks.
LEMMA GuardSteps ==
    ASSUME DoorsInv, NEW r \in Requests,
           (\E q \in WebRequests : Enter(r, q)) \/ Handle(r)
    PROVE  DoorsInv'
<1>1. UNCHANGED accessVars /\ UNCHANGED directory /\ UNCHANGED <<hits, passed, call>>
  BY DEF Enter, Handle
<1>2. Types' /\ Directory' /\ ModulesDated /\ DirectoryDated /\ UNCHANGED now
  BY <1>1, StillDated DEF DoorsInv, accessVars
<1>3. RequestsMove
  <2>1. ASSUME NEW q \in WebRequests, Enter(r, q) PROVE RequestsMove
    <3>1. PICK x :
            x = [stage |-> "handler", asked |-> q,
                 context |-> ContextOf(Routes[q.route], q.user, q.header),
                 acts |-> ActsOn(Routes[q.route], ContextOf(Routes[q.route], q.user, q.header), q.path),
                 row |-> NoRow,
                 was |-> [o \in {p \in Organizations : <<q.user, p>> \in DOMAIN member} |->
                            member[<<q.user, o>>]]]
      OBVIOUS
    <3>2. /\ Routes[q.route].tenant => MayResolve(q.user, q.header)
          /\ Admitted(Routes[q.route], ContextOf(Routes[q.route], q.user, q.header), q.path,
                      ModulesOf(ContextOf(Routes[q.route], q.user, q.header).organization))
          /\ request' = [request EXCEPT ![r] = x]
      BY <2>1, <3>1 DEF Enter
    <3>3. RequestOK(x)
      BY <3>1, <3>2, EntersRight DEF DoorsInv
    <3> QED
      BY <3>2, <3>3 DEF RequestsMove
  <2>2. ASSUME Handle(r) PROVE RequestsMove
    <3>1. PICK x, row : x = request[r] /\ row = RowOf(<<x.asked.target, x.acts>>)
      OBVIOUS
    <3>2. RequestOK(x)
      BY <2>2, <3>1 DEF Handle, DoorsInv, RequestsOK, Free
    <3>3. request' = [request EXCEPT ![r] =
            IF MayWrite(x.asked, x.context, x.acts, row) THEN [x EXCEPT !.stage = "write", !.row = row]
            ELSE Free]
      BY <2>2, <3>1 DEF Handle
    <3>4. CASE MayWrite(x.asked, x.context, x.acts, row)
      <4>1. PICK y : y = [x EXCEPT !.stage = "write", !.row = row]
        OBVIOUS
      <4>2. RequestOK(y)
        BY <3>2, <3>4, <4>1, HandledRight
      <4>3. request' = [request EXCEPT ![r] = y]
        BY <3>3, <3>4, <4>1
      <4> QED
        BY <4>2, <4>3 DEF RequestsMove
    <3>5. CASE ~MayWrite(x.asked, x.context, x.acts, row)
      BY <3>3, <3>5 DEF RequestsMove
    <3> QED
      BY <3>4, <3>5
  <2> QED
    BY <2>1, <2>2
<1>4. CallsMove /\ Fits(hits', passed', now')
  BY <1>1, <1>2 DEF CallsMove, DoorsInv
<1> QED
  BY <1>2, <1>3, <1>4, DoorsKept

\* Every step of both doors keeps it.
LEMMA NextDoors == ASSUME DoorsInv, [DoorsNext]_doorsVars PROVE DoorsInv'
<1>1. CASE Serve(WebRequests)
  BY <1>1, MemberSteps, ModuleSteps, OrganizationSteps, GuardSteps DEF Serve
<1>2. CASE ConnectorNext /\ UNCHANGED membersVars
  BY <1>2, AccessSteps, ConnectSteps, ComingAndGoing DEF ConnectorNext
<1>3. CASE UNCHANGED doorsVars
  <2>1. UNCHANGED accessVars /\ UNCHANGED <<hits, passed, call, directory, request, now>>
    BY <1>3 DEF doorsVars, accessVars, connectorVars, membersVars, directory
  <2>2. Types' /\ Directory' /\ ModulesDated /\ DirectoryDated
    BY <2>1, StillDated DEF DoorsInv
  <2>3. CallsMove /\ RequestsMove /\ Fits(hits', passed', now')
    BY <2>1 DEF CallsMove, RequestsMove, DoorsInv
  <2> QED
    BY <2>2, <2>3, DoorsKept
<1> QED
  BY <1>1, <1>2, <1>3 DEF DoorsNext

\* It holds to begin with.
LEMMA InitDoors == DoorsInit => DoorsInv
<1> SUFFICES ASSUME NEW orgs \in SUBSET Organizations, AccessInit(orgs),
                    NEW K \in SUBSET Memberships, NEW members \in [K -> Rows],
                    ConnectorInit(members), MembersInit
             PROVE  DoorsInv
  BY DEF DoorsInit, Rows
<1>1. Types /\ now = 0
  BY InitTypes DEF AccessInit
<1>2. Directory
  BY <1>1 DEF ConnectorInit, Directory
<1>3. Fits(hits, passed, now)
  BY <1>1, FitsAtFirst DEF ConnectorInit
<1>4. CallsOK /\ RequestsOK
  BY DEF ConnectorInit, MembersInit, CallsOK, RequestsOK
<1> QED
  BY <1>1, <1>2, <1>3, <1>4 DEF DoorsInv

\* And always.
LEMMA DoorsAlways == DoorsSpec => []DoorsInv
<1>1. DoorsInv /\ [DoorsNext]_<<accessVars, connectorVars, membersVars>> => DoorsInv'
  BY NextDoors DEF doorsVars
<1> QED
  BY <1>1, InitDoors, PTL DEF DoorsSpec

-----------------------------------------------------------------------------
(***************************************************************************)
(* What follows.                                                           *)
(***************************************************************************)

\* The limiter promises what it counts.
LEMMA WindowsOf ==
    ASSUME NEW p \in Subjects
    PROVE  /\ \E w \in Windows(p.kind) : w.ms = Minute /\ w.limit = LimitOf[p.kind]
           /\ p.kind = "write" => \E w \in Windows(p.kind) : w.ms = Day /\ w.limit = DailyWrites
<1> DEFINE u == [name |-> "min", ms |-> Minute, limit |-> LimitOf[p.kind]]
           v == [name |-> "day", ms |-> Day, limit |-> DailyWrites]
<1>1. u \in Windows(p.kind) /\ (p.kind = "write" => v \in Windows(p.kind))
  BY DEF Windows
<1>2. u.ms = Minute /\ u.limit = LimitOf[p.kind] /\ v.ms = Day /\ v.limit = DailyWrites
  OBVIOUS
<1> HIDE DEF u, v
<1> QED
  BY <1>1, <1>2

\* The whole of what the limiter promises, from the invariant.
LEMMA LimiterFollows == DoorsInv => LimiterIsExact
<1> SUFFICES ASSUME DoorsInv PROVE LimiterIsExact
  OBVIOUS
<1>1. Fits(hits, passed, now) /\ Memory(hits, now) /\ now \in Nat /\ Types /\ Directory
  BY AccessAssumption DEF DoorsInv, Fits, Types
<1>2. Counted \subseteq Subjects
  BY <1>1 DEF Counted, Memory
<1>3. WindowsHold
  <2> SUFFICES ASSUME NEW p \in Subjects, NEW t \in 0 .. now
               PROVE  /\ PassedBetween(p, t - Minute, t) <= LimitOf[p.kind]
                      /\ p.kind = "write" => PassedBetween(p, t - Day, t) <= DailyWrites
    BY <1>2 DEF WindowsHold
  <2>1. ASSUME NEW w \in Windows(p.kind) PROVE PassedBetween(p, t - w.ms, t) <= w.limit
    BY <1>1 DEF Fits, PassedBetween
  <2> QED
    BY <2>1, WindowsOf
<1>4. RefusalsConsumeNothing
  BY <1>1, <1>2 DEF RefusalsConsumeNothing, Fits
<1>5. RetryIsEnough
  BY <1>1, <1>2, RefusedThenLetThrough DEF RetryIsEnough
<1>6. AccessTypeOK
  BY <1>1 DEF Types, AccessTypeOK
<1>7. ConnectorTypeOK
  <2>1. /\ DOMAIN hits \subseteq Subjects \X {"min", "day"}
        /\ \A k \in DOMAIN hits : hits[k] \in Seq(0 .. now)
        /\ \A p \in Subjects : passed[p] \in Seq(0 .. now)
    BY <1>1 DEF Fits, Memory
  <2>2. /\ DOMAIN member \subseteq Memberships
        /\ \A k \in DOMAIN member : member[k].role \in RoleKeys
        /\ left \in [Memberships -> 0 .. now]
        /\ active \subseteq Organizations /\ stopped \in [Organizations -> 0 .. now]
    BY <1>1 DEF Directory, Rows
  <2>3. ASSUME NEW c \in Callers, call[c] # Free
        PROVE  /\ call[c].stage \in {"token", "dispatch", "memberships", "candidates", "resolve",
                                     "modules", "run"}
               /\ call[c].organization \in Organizations \cup {NoOrganization}
               /\ call[c].role \in {"none"} \cup RoleKeys
    BY <2>3 DEF DoorsInv, CallsOK, CallOK, CallRecords, CallStages
  <2> QED
    BY <2>1, <2>2, <2>3 DEF ConnectorTypeOK
<1> QED
  BY <1>3, <1>4, <1>5, <1>6, <1>7 DEF LimiterIsExact

\* For any limits and windows, and whatever calls come, in whatever order: in no
\* minute and no day, wherever they begin, does anybody pass more calls than the
\* limit, refused calls count nowhere, what is swept away counted nowhere, and
\* who is refused is told a time at which every window has room
\* (mcp-rate-limiter.service.ts: consume, prune, sweepIfLarge).
THEOREM LimiterKeepsItsPromise == DoorsSpec => []LimiterIsExact
BY DoorsAlways, LimiterFollows, PTL

\* A step of a call that then runs has asked everything.
LEMMA RunsAfterAsking ==
    ASSUME DoorsInv, [DoorsNext]_doorsVars PROVE RunsWhatIsOn
<1> SUFFICES ASSUME NEW c \in Callers,
                    call[c].stage = "modules", call'[c] # Free, call'[c].stage = "run"
             PROVE  /\ \A m \in {"mcp"} \cup call[c].tool.modules :
                         LET k == <<call[c].organization, m>>
                         IN  k \in enabled \/ changed[k] >= call[c].since
                    /\ LET k == <<call[c].user, call[c].organization>>
                       IN  /\ k \in DOMAIN member \/ left[k] >= call[c].since
                           /\ k[2] \in active \/ stopped[k[2]] >= call[c].since
  BY DEF RunsWhatIsOn
<1>1. CallOK(call[c]) /\ call = [d \in Callers |-> call[d]]
  BY DEF DoorsInv, CallsOK, Free
<1>2. call'[c] # call[c]
  OBVIOUS
<1>3. PICK d \in Callers :
        \/ \E q \in ToolCalls : Receive(d, q)
        \/ ThrottleUser(d) \/ MissesScope(d) \/ Dispatch(d)
        \/ ReadMemberships(d) \/ AskCandidate(d) \/ PickCandidate(d) \/ Resolve(d)
        \/ AskModule(d) \/ Authorized(d) \/ Run(d)
  <2>1. UNCHANGED call \/ Connect(ToolCalls)
    BY DEF DoorsNext, doorsVars, ConnectorNext, Serve, Enter, Handle, WriteMember, WriteModule,
           WriteOrganization, Join, LeaveOrganization, Deactivate, Activate, connectorVars
  <2> QED
    BY <1>2, <2>1 DEF Connect
<1>4. \E y : call' = [call EXCEPT ![d] = y]
  BY <1>3 DEF Receive, ThrottleUser, MissesScope, Dispatch, ReadMemberships, AskCandidate,
              PickCandidate, Resolve, AskModule, Authorized, Run, Throttle, End, Stage
<1>5. d = c
  BY <1>1, <1>2, <1>4
<1>6. call[c].stage = "modules" /\ call[c].todo = {}
  <2>1. ~(\E q \in ToolCalls : Receive(c, q)) /\ ~ThrottleUser(c) /\ ~MissesScope(c) /\ ~Dispatch(c)
    <3>1. call[c] # Free
      BY DEF Free
    <3>2. ASSUME NEW q \in ToolCalls PROVE ~Receive(c, q)
      BY <3>1 DEF Receive
    <3> QED
      BY <3>2 DEF ThrottleUser, MissesScope, Dispatch
  <2>2. /\ ~ReadMemberships(c) /\ ~AskCandidate(c) /\ ~PickCandidate(c)
        /\ ~Resolve(c) /\ ~Run(c)
    BY DEF ReadMemberships, AskCandidate, PickCandidate, Resolve, Run
  <2>3. ASSUME AskModule(c) PROVE FALSE
    <3>1. PICK m \in call[c].todo :
            \/ call' = [call EXCEPT ![c].todo = @ \ {m}]
            \/ call' = [call EXCEPT ![c] = Free]
      BY <2>3 DEF AskModule, End
    <3>2. call'[c].stage = "modules"
      BY <1>1, <3>1 DEF CallOK, CallRecords
    <3> QED
      BY <3>2
  <2>4. Authorized(c)
    BY <1>3, <1>5, <2>1, <2>2, <2>3
  <2> QED
    BY <2>4 DEF Authorized
<1> QED
  BY <1>1, <1>6 DEF CallOK, ModuleHeld, MembershipHeld

\* However calls of tools interleave with toggles, with members who leave and
\* return and with organisations that are deactivated, through any of the two
\* doors: no call that comes after a module was disabled, its user left or its
\* organisation was deactivated runs, unless it was put back
\* (tool-dispatcher.service.ts: execute, resolveOrganization).
THEOREM DisablingCutsAtOnce == DoorsSpec => CutAtOnce
<1>1. DoorsInv /\ [DoorsNext]_doorsVars => [RunsWhatIsOn]_<<accessVars, connectorVars>>
  BY RunsAfterAsking
<1> QED
  BY <1>1, DoorsAlways, PTL DEF DoorsSpec, CutAtOnce, doorsVars

\* The organisation a call of the web acts in, from the invariant.
LEMMA CallsStayFollows == DoorsInv => CallsStayInTheirOrganization
<1> SUFFICES ASSUME DoorsInv, NEW r \in Requests, request[r] # Free,
                    request[r].acts # NoOrganization,
                    request[r].asked.user \notin SuperadminUsers
             PROVE  LET route == Routes[request[r].asked.route]
                        o == request[r].acts
                    IN  /\ ~route.superadmin
                        /\ o \in DOMAIN request[r].was
                        /\ route.permission # NoPermission =>
                             route.permission \in PermissionsOf[request[r].was[o].role]
  BY DEF CallsStayInTheirOrganization
<1>1. RequestOK(request[r])
  BY DEF DoorsInv, RequestsOK
<1>2. Confined(request[r])
  BY <1>1 DEF RequestOK
<1> QED
  BY <1>2 DEF Confined

\* The context of a superadmin.
LEMMA ContextOfSuperadmin ==
    ASSUME NEW route, NEW user \in SuperadminUsers, NEW header
    PROVE  ContextOf(route, user, header).superadmin
<1>1. (user \in SuperadminUsers) = TRUE
  OBVIOUS
<1>2. CASE route.tenant
  BY <1>2 DEF ContextOf, Resolved, SignedIn
<1>3. CASE ~route.tenant
  <2>1. ContextOf(route, user, header) = SignedIn(user, user \in SuperadminUsers)
    BY <1>3 DEF ContextOf
  <2>2. ContextOf(route, user, header) = SignedIn(user, TRUE)
    BY <1>1, <2>1, Zenon
  <2> QED
    BY <2>2 DEF SignedIn
<1> QED
  BY <1>2, <1>3

\* A route lets a member read that has the permission it asks for, where the
\* modules it asks for are enabled.
LEMMA ReaderAdmitted ==
    ASSUME NEW route, NEW permission, NEW modules, OpenTo(route, permission, modules),
           NEW user, NEW o \in Organizations, modules \subseteq ModulesOf(o),
           permission # NoPermission =>
               HasPermission(PermissionsOf[member[<<user, o>>].role], permission)
    PROVE  LET context == ContextOf(route, user, o)
           IN  Admitted(route, context, o, ModulesOf(o))
<1>1. PICK context : context = ContextOf(route, user, o)
  OBVIOUS
<1>2. /\ ~route.superadmin /\ (route.param => route.tenant)
      /\ route.permission = permission /\ route.modules = modules
      /\ permission # NoPermission \/ modules # {} => route.tenant
  BY DEF OpenTo
<1>3. context.organization = IF route.tenant THEN o ELSE NoOrganization
  BY <1>1, ContextOrganization
<1>4. o # NoOrganization
  BY DoorsAssumption
<1>5. route.param => ParamIsContext(context, o)
  BY <1>2, <1>3, <1>4 DEF ParamIsContext
<1>6. route.modules \subseteq ModulesOf(o)
  BY <1>2
<1>7. ASSUME permission # NoPermission
      PROVE  context.superadmin \/ HasPermission(context.permissions, permission)
  <2>1. CASE user \in SuperadminUsers
    BY <1>1, <2>1, ContextOfSuperadmin
  <2>2. CASE user \notin SuperadminUsers
    <3>1. route.tenant
      BY <1>2, <1>7
    <3>2. ContextOf(route, user, o).permissions = PermissionsOf[member[<<user, o>>].role]
      BY <2>2, <3>1, ContextOfUser
    <3> QED
      BY <1>1, <1>7, <3>2
  <2> QED
    BY <2>1, <2>2
<1>8. Admitted(route, context, o, ModulesOf(o))
  BY <1>2, <1>5, <1>6, <1>7 DEF Admitted
<1> QED
  BY <1>1, <1>8, Zenon

\* The routes that tools read.
ReadableRoutes ==
    {"me", "list periods", "get period", "list units", "list axes", "planning tree",
     "planning gantt", "get objective", "list projects", "get project", "list tasks",
     "objective status", "list indicators", "get indicator", "indicator status", "get series"}

\* What a tool declares is as much as a route it reads asks for.
DeclaresFor(declares, permissions, n) ==
    \/ n \in {"me", "list periods", "get period", "list units"}
    \/ n = "list axes" /\ declares.permission = "okr:read"
    \/ /\ n \in {"planning tree", "planning gantt", "get objective", "list projects", "get project",
                "list tasks"}
       /\ declares.permission = "okr:read" /\ {"okr"} \subseteq declares.modules
    \/ /\ n \in {"objective status", "list indicators", "get indicator", "indicator status"}
       /\ declares.permission = "okr:read"
       /\ {"okr", "indicadores-gestion"} \subseteq declares.modules
    \/ /\ n = "get series"
       /\ HasPermission(permissions, "metrics:read")
       /\ {"indicadores-gestion"} \subseteq declares.modules

DeclaresEnough(tool) ==
    \A permissions : \A n \in RoutesOf(tool, permissions) :
        DeclaresFor(tool.declares, permissions, n)

\* Routes that are read always.
LEMMA ReadAlways ==
    ASSUME NEW tool, NEW S, tool.reads = Always(S), NEW permissions
    PROVE  RoutesOf(tool, permissions) \subseteq S
BY DEF RoutesOf, Always

\* Every tool declares enough.
LEMMA ToolsDeclareEnough == \A t \in DOMAIN Registry : DeclaresEnough(Registry[t])
<1>1. DeclaresEnough(ListarOrganizaciones)
  <2>1. \A permissions : RoutesOf(ListarOrganizaciones, permissions) \subseteq {"me"}
    BY ReadAlways DEF ListarOrganizaciones
  <2> QED
    BY <2>1 DEF DeclaresEnough, DeclaresFor
<1>2. DeclaresEnough(ListarPeriodos)
  <2>1. \A permissions : RoutesOf(ListarPeriodos, permissions) \subseteq {"list periods"}
    BY ReadAlways DEF ListarPeriodos
  <2> QED
    BY <2>1 DEF DeclaresEnough, DeclaresFor
<1>3. DeclaresEnough(VerArbolPlanificacion)
  <2>1. \A permissions : RoutesOf(VerArbolPlanificacion, permissions) \subseteq
                            {"planning tree", "get period"}
    BY ReadAlways DEF VerArbolPlanificacion
  <2>2. /\ VerArbolPlanificacion.declares.permission = "okr:read"
        /\ VerArbolPlanificacion.declares.modules = {"okr"}
    BY DEF VerArbolPlanificacion, Tool
  <2> QED
    BY <2>1, <2>2 DEF DeclaresEnough, DeclaresFor
<1>4. DeclaresEnough(ListarObjetivos)
  <2>1. \A permissions : RoutesOf(ListarObjetivos, permissions) \subseteq
                            {"planning tree", "get period", "list units"}
    BY ReadAlways DEF ListarObjetivos
  <2>2. /\ ListarObjetivos.declares.permission = "okr:read"
        /\ ListarObjetivos.declares.modules = {"okr"}
    BY DEF ListarObjetivos, Tool
  <2> QED
    BY <2>1, <2>2 DEF DeclaresEnough, DeclaresFor
<1>5. DeclaresEnough(VerObjetivo)
  <2>1. \A permissions : RoutesOf(VerObjetivo, permissions) \subseteq
                            {"get objective", "objective status", "list indicators",
                             "list projects", "list units", "list axes"}
    BY ReadAlways DEF VerObjetivo
  <2>2. /\ VerObjetivo.declares.permission = "okr:read"
        /\ VerObjetivo.declares.modules = {"okr", "indicadores-gestion"}
    BY DEF VerObjetivo, Tool
  <2> QED
    BY <2>1, <2>2 DEF DeclaresEnough, DeclaresFor
<1>6. DeclaresEnough(VerIndicador)
  <2>1. ASSUME NEW permissions, NEW n \in RoutesOf(VerIndicador, permissions)
        PROVE  \/ n \in {"get indicator", "indicator status", "get objective"}
               \/ n = "get series" /\ HasPermission(permissions, "metrics:read")
    <3>1. VerIndicador.reads = Always({"get indicator", "indicator status", "get objective"})
                               \cup {[route |-> "get series", needs |-> "metrics:read"]}
      BY DEF VerIndicador
    <3>2. PICK x \in VerIndicador.reads :
            /\ x.needs # NoPermission => HasPermission(permissions, x.needs)
            /\ n = x.route
      BY DEF RoutesOf
    <3>3. CASE x \in Always({"get indicator", "indicator status", "get objective"})
      <4>1. \A S : \A y \in Always(S) : y.route \in S
        BY DEF Always
      <4>2. x.route \in {"get indicator", "indicator status", "get objective"}
        BY <3>3, <4>1
      <4> QED
        BY <3>2, <4>2
    <3>4. CASE x = [route |-> "get series", needs |-> "metrics:read"]
      BY <3>2, <3>4 DEF NoPermission
    <3> QED
      BY <3>1, <3>3, <3>4
  <2>2. /\ VerIndicador.declares.permission = "okr:read"
        /\ VerIndicador.declares.modules = {"okr", "indicadores-gestion"}
    BY DEF VerIndicador, Tool
  <2> QED
    BY <2>1, <2>2 DEF DeclaresEnough, DeclaresFor
<1>7. DeclaresEnough(ListarProyectosAtrasados)
  <2>1. \A permissions : RoutesOf(ListarProyectosAtrasados, permissions) \subseteq
                            {"planning gantt", "get period"}
    BY ReadAlways DEF ListarProyectosAtrasados
  <2>2. /\ ListarProyectosAtrasados.declares.permission = "okr:read"
        /\ ListarProyectosAtrasados.declares.modules = {"okr"}
    BY DEF ListarProyectosAtrasados, Tool
  <2> QED
    BY <2>1, <2>2 DEF DeclaresEnough, DeclaresFor
<1>8. DeclaresEnough(VerProyecto)
  <2>1. \A permissions : RoutesOf(VerProyecto, permissions) \subseteq
                            {"get project", "list tasks", "get objective", "list units"}
    BY ReadAlways DEF VerProyecto
  <2>2. /\ VerProyecto.declares.permission = "okr:read"
        /\ VerProyecto.declares.modules = {"okr"}
    BY DEF VerProyecto, Tool
  <2> QED
    BY <2>1, <2>2 DEF DeclaresEnough, DeclaresFor
<1>9. ASSUME NEW t \in DOMAIN Registry
      PROVE  Registry[t] \in {ListarOrganizaciones, ListarPeriodos, VerArbolPlanificacion,
                               ListarObjetivos, VerObjetivo, VerIndicador,
                               ListarProyectosAtrasados, VerProyecto}
  BY DEF Registry
<1> QED
  BY <1>1, <1>2, <1>3, <1>4, <1>5, <1>6, <1>7, <1>8, <1>9

\* Routes of a controller are routes.
LEMMA RoutesTogether ==
    ASSUME NEW S, NEW f \in S, NEW n \in DOMAIN f
    PROVE  n \in DOMAIN Together(S)
BY DEF Together

\* The routes that tools read are there.
LEMMA ReadableRoutesThere == ReadableRoutes \subseteq DOMAIN Routes
<1>1. {"me"} \subseteq DOMAIN MeControllers
  BY DEF MeControllers, Handlers
<1>2. {"list periods", "get period"} \subseteq DOMAIN PeriodController
  BY DEF PeriodController, Handlers, Together
<1>3. {"list units"} \subseteq DOMAIN OrgUnitController
  BY DEF OrgUnitController, Handlers, Together
<1>4. {"list axes"} \subseteq DOMAIN StrategicPlanController
  BY DEF StrategicPlanController, Handlers, Together
<1>5. {"planning tree", "planning gantt"} \subseteq DOMAIN PlanningControllers
  BY DEF PlanningControllers, Handlers
<1>6. {"get objective"} \subseteq DOMAIN ObjectiveController
  BY DEF ObjectiveController, Handlers, Together
<1>7. {"list projects", "get project", "list tasks"} \subseteq DOMAIN ProjectController
  BY DEF ProjectController, Handlers, Together
<1>8. {"objective status", "list indicators", "get indicator", "indicator status"}
         \subseteq DOMAIN ObjectiveIndicatorController
  BY DEF ObjectiveIndicatorController, Handlers, Together
<1>9. {"get series"} \subseteq DOMAIN MetricController
  BY DEF MetricController, Handlers, Together
<1>10. \A f \in {MeControllers, PeriodController, OrgUnitController,
                 StrategicPlanController, PlanningControllers, ObjectiveController,
                 ProjectController, ObjectiveIndicatorController, MetricController} :
             DOMAIN f \subseteq DOMAIN Routes
  BY RoutesTogether DEF Routes
<1> QED
  BY <1>1, <1>2, <1>3, <1>4, <1>5, <1>6, <1>7, <1>8, <1>9, <1>10 DEF ReadableRoutes

\* What a member reads with a tool, from the invariant.
LEMMA ToolsFollow == DoorsInv => ToolsAskWhatRoutesAsk
<1> SUFFICES ASSUME DoorsInv, NEW t \in DOMAIN Registry, NEW k \in DOMAIN member,
                    ToolRuns(Registry[t].declares, k[1], k[2]),
                    NEW n \in RoutesOf(Registry[t], PermissionsOf[member[k].role])
             PROVE  Admitted(Routes[n], ContextOf(Routes[n], k[1], k[2]), k[2], ModulesOf(k[2]))
  BY DEF ToolsAskWhatRoutesAsk
<1>1. PICK declares, permissions, user, o, route :
        /\ declares = Registry[t].declares /\ permissions = PermissionsOf[member[k].role]
        /\ user = k[1] /\ o = k[2] /\ route = Routes[n]
  OBVIOUS
<1>2. o \in Organizations /\ k = <<user, o>>
  BY <1>1 DEF DoorsInv, Directory, Memberships
<1>3. /\ declares.modules \subseteq ModulesOf(o)
      /\ declares.permission # NoPermission => HasPermission(permissions, declares.permission)
  BY <1>1, <1>2 DEF ToolRuns
<1>4. DeclaresFor(declares, permissions, n)
  BY <1>1, ToolsDeclareEnough DEF DeclaresEnough
<1>5. ReadBy(n, route)
  <2>1. n \in ReadableRoutes
    BY <1>4 DEF DeclaresFor, ReadableRoutes
  <2> QED
    BY <1>1, <2>1, ReadableRoutesThere, RoutesGuarded DEF WellGuarded
<1>6. \E permission, modules :
        /\ OpenTo(route, permission, modules)
        /\ modules \subseteq ModulesOf(o)
        /\ permission # NoPermission => HasPermission(permissions, permission)
  <2>1. CASE n \in {"me", "list periods", "get period", "list units"}
    <3>1. OpenTo(route, NoPermission, {})
      BY <1>5, <2>1 DEF ReadBy
    <3> QED
      BY <3>1
  <2>2. CASE n = "list axes" /\ declares.permission = "okr:read"
    <3>1. OpenTo(route, "okr:read", {})
      BY <1>5, <2>2 DEF ReadBy
    <3>2. HasPermission(permissions, "okr:read")
      BY <1>3, <2>2 DEF NoPermission
    <3> QED
      BY <3>1, <3>2
  <2>3. CASE /\ n \in {"planning tree", "planning gantt", "get objective", "list projects",
                       "get project", "list tasks"}
             /\ declares.permission = "okr:read" /\ {"okr"} \subseteq declares.modules
    <3>1. OpenTo(route, "okr:read", {"okr"})
      BY <1>5, <2>3 DEF ReadBy
    <3>2. HasPermission(permissions, "okr:read") /\ {"okr"} \subseteq ModulesOf(o)
      BY <1>3, <2>3 DEF NoPermission
    <3> QED
      BY <3>1, <3>2
  <2>4. CASE /\ n \in {"objective status", "list indicators", "get indicator", "indicator status"}
             /\ declares.permission = "okr:read"
             /\ {"okr", "indicadores-gestion"} \subseteq declares.modules
    <3>1. OpenTo(route, "okr:read", {"okr", "indicadores-gestion"})
      BY <1>5, <2>4 DEF ReadBy
    <3>2. HasPermission(permissions, "okr:read")
          /\ {"okr", "indicadores-gestion"} \subseteq ModulesOf(o)
      BY <1>3, <2>4 DEF NoPermission
    <3> QED
      BY <3>1, <3>2
  <2>5. CASE /\ n = "get series"
             /\ HasPermission(permissions, "metrics:read")
             /\ {"indicadores-gestion"} \subseteq declares.modules
    <3>1. OpenTo(route, "metrics:read", {"indicadores-gestion"})
      BY <1>5, <2>5 DEF ReadBy
    <3>2. {"indicadores-gestion"} \subseteq ModulesOf(o)
      BY <1>3, <2>5
    <3> QED
      BY <2>5, <3>1, <3>2
  <2> QED
    BY <1>4, <2>1, <2>2, <2>3, <2>4, <2>5 DEF DeclaresFor
<1>7. PICK permission, modules :
        /\ OpenTo(route, permission, modules)
        /\ modules \subseteq ModulesOf(o)
        /\ permission # NoPermission => HasPermission(permissions, permission)
  BY <1>6
<1>8. permissions = PermissionsOf[member[<<user, o>>].role]
  BY <1>1, <1>2
<1>9. Admitted(route, ContextOf(route, user, o), o, ModulesOf(o))
  BY <1>2, <1>7, <1>8, ReaderAdmitted
<1> QED
  BY <1>1, <1>9

\* Whatever members, modules and organisations become, through any calls of the
\* two doors: whoever is no superadmin acts, in every call of the web that
\* passes the guards, in an organisation where its role grants what the route
\* asks for, and whatever a tool reads for a member the web would show it
\* (org-param.guard.ts, permissions.guard.ts, tool-dispatcher.service.ts).
THEOREM DoorsLetInTheSame == DoorsSpec => []DoorsAgree
<1>1. DoorsInv => DoorsAgree
  BY CallsStayFollows, ToolsFollow DEF DoorsAgree
<1> QED
  BY <1>1, DoorsAlways, PTL

\* Only the administrators of an organisation manage its members.
LEMMA WhoManages ==
    \A role \in RoleKeys :
        (\E p \in {"core:member:manage", "core:org-unit:manage"} : p \in PermissionsOf[role]) =>
            role = "org-admin"
BY DEF RoleKeys, PermissionsOf

\* A member that a handler writes for somebody who is no superadmin is, and was,
\* within what that user may grant.
LEMMA WrittenWithin ==
    ASSUME NEW x, RequestOK(x), x.stage = "write", x.asked.user \notin SuperadminUsers,
           NEW before, NEW after, after = Written(x.asked, before), before # after,
           before # NoRow => before \in Rows
    PROVE  /\ x.acts \in DOMAIN x.was /\ x.was[x.acts].role = "org-admin"
           /\ after # NoRow /\ (before = NoRow \/ after.scope # before.scope) =>
                x.was[x.acts].scope \in {Everywhere, after.scope}
           /\ before # NoRow /\ before.scope = x.row.scope =>
                x.was[x.acts].scope \in {Everywhere, before.scope}
<1>1. PICK q, context, own : q = x.asked /\ context = x.context /\ own = x.was[x.acts]
  OBVIOUS
<1>2. /\ x.acts \in Organizations /\ Checked(x) /\ Confined(x)
      /\ Routes[q.route].permission \in {"core:member:manage", "core:org-unit:manage"}
  BY <1>1, WritesWhere
<1>3. /\ x.acts \in DOMAIN x.was /\ context.scope = own.scope
      /\ Routes[q.route].permission # NoPermission =>
           Routes[q.route].permission \in PermissionsOf[own.role]
  BY <1>1, <1>2, DoorsAssumption DEF Confined
<1>4. own.role = "org-admin"
  <2>1. own \in Rows
    BY <1>1, <1>3 DEF RequestOK
  <2>2. own.role \in RoleKeys
    BY <2>1 DEF Rows
  <2>3. Routes[q.route].permission \in PermissionsOf[own.role]
    BY <1>2, <1>3 DEF NoPermission
  <2> QED
    BY <1>2, <2>2, <2>3, WhoManages
<1>5. /\ q.route = "invite member" => own.scope \in {Everywhere, q.unit}
      /\ q.route \in {"change role", "update member", "remove member", "set scope"} =>
           own.scope \in {Everywhere, x.row.scope}
      /\ q.route = "set scope" => own.scope \in {Everywhere, q.unit}
      /\ q.route = "assign member" => own.scope = Everywhere
  BY <1>1, <1>2, <1>3 DEF Checked, CanGrant
<1>6. /\ after # NoRow /\ (before = NoRow \/ after.scope # before.scope) =>
           own.scope \in {Everywhere, after.scope}
      /\ before # NoRow /\ before.scope = x.row.scope => own.scope \in {Everywhere, before.scope}
  <2>1. CASE q.route = "invite member" /\ before = NoRow
    <3>1. after.scope = q.unit
      BY <1>1, <2>1 DEF Written
    <3> QED
      BY <1>5, <2>1, <3>1
  <2>2. CASE q.route = "assign member" /\ before = NoRow
    BY <1>5, <2>2
  <2>3. CASE q.route \in {"change role", "update member"} /\ before # NoRow
    <3>1. after = [before EXCEPT !.role = q.role]
      BY <1>1, <2>3 DEF Written
    <3>2. after.scope = before.scope
      BY <2>3, <3>1 DEF Rows
    <3> QED
      BY <1>5, <2>3, <3>2
  <2>4. CASE q.route = "set scope" /\ before # NoRow
    <3>1. after = [before EXCEPT !.scope = q.unit]
      BY <1>1, <2>4 DEF Written
    <3>2. after.scope = q.unit
      BY <2>4, <3>1 DEF Rows
    <3> QED
      BY <1>5, <2>4, <3>2
  <2>5. CASE q.route = "remove member"
    <3>1. after = NoRow
      BY <1>1, <2>5 DEF Written
    <3> QED
      BY <1>5, <2>5, <3>1
  <2>6. CASE \/ q.route \notin {"invite member", "assign member", "change role", "update member",
                                "set scope", "remove member"}
             \/ q.route \in {"invite member", "assign member"} /\ before # NoRow
             \/ q.route \in {"change role", "update member", "set scope"} /\ before = NoRow
    <3>1. after = before
      BY <1>1, <2>6 DEF Written
    <3> QED
      BY <3>1
  <2> QED
    BY <2>1, <2>2, <2>3, <2>4, <2>5, <2>6
<1> QED
  BY <1>1, <1>3, <1>4, <1>6

\* A step of the members, modules and organisations of the API stays within what
\* its user may grant.
LEMMA StepsWithinGrant ==
    ASSUME DoorsInv, [DoorsNext]_doorsVars PROVE WritesWithinGrant
<1> SUFFICES ASSUME NEW r \in Requests, request[r] # Free, request'[r] = Free,
                    request[r].asked.user \notin SuperadminUsers
             PROVE  /\ enabled' = enabled /\ active' = active
                    /\ \A k \in DOMAIN member \cup DOMAIN member' :
                         LET before == RowOf(k)
                             after == RowOf(k)'
                             own == request[r].was[k[2]]
                         IN  before # after =>
                               /\ k[2] \in DOMAIN request[r].was /\ own.role = "org-admin"
                               /\ after # NoRow /\ (before = NoRow \/ after.scope # before.scope) =>
                                    own.scope \in {Everywhere, after.scope}
                               /\ before # NoRow /\ before.scope = request[r].row.scope =>
                                    own.scope \in {Everywhere, before.scope}
  BY DEF WritesWithinGrant
<1>1. PICK x : x = request[r]
  OBVIOUS
<1>2. RequestOK(x) /\ request = [s \in Requests |-> request[s]]
  BY <1>1 DEF DoorsInv, RequestsOK
<1>3. Serve(WebRequests)
  <2>1. request' # request
    OBVIOUS
  <2> QED
    BY <2>1 DEF DoorsNext, doorsVars, membersVars
<1>4. PICK s \in Requests :
        (\E q \in WebRequests : Enter(s, q)) \/ Handle(s) \/ WriteMember(s) \/ WriteModule(s)
        \/ WriteOrganization(s)
  BY <1>3 DEF Serve
<1>5. CASE \E q \in WebRequests : Enter(s, q)
  <2>1. UNCHANGED <<enabled, active, member>>
    BY <1>5 DEF Enter, accessVars, directory
  <2> QED
    BY <2>1 DEF RowOf
<1>6. CASE Handle(s)
  <2>1. UNCHANGED <<enabled, active, member>>
    BY <1>6 DEF Handle, accessVars, directory
  <2> QED
    BY <2>1 DEF RowOf
<1>7. ASSUME request' = [request EXCEPT ![s] = Free] PROVE s = r
  BY <1>2, <1>7
<1>8. x.stage = "write" =>
        /\ x.asked.route \in {"invite member", "change role", "set scope", "assign member",
                              "update member", "remove member"}
        /\ x.asked \in WebRequests /\ x.acts \in Organizations
  BY <1>1, <1>2, WritesWhere
<1>9. CASE WriteMember(s)
  <2>1. /\ s = r /\ x.stage = "write"
        /\ UNCHANGED <<enabled, active>>
    BY <1>1, <1>7, <1>9 DEF WriteMember, accessVars
  <2>2. PICK k, before, after :
          k = <<x.asked.target, x.acts>> /\ before = RowOf(k) /\ after = Written(x.asked, RowOf(k))
    OBVIOUS
  <2>3. member' = IF after = NoRow THEN Restrict(member, DOMAIN member \ {k}) ELSE Put(k, after)
    BY <1>1, <1>9, <2>1, <2>2 DEF WriteMember
  <2>4. \A j : RowOf(j)' = IF j = k THEN after ELSE RowOf(j)
    <3>1. CASE after = NoRow
      <4>1. /\ DOMAIN member' = DOMAIN member \ {k}
            /\ \A j \in DOMAIN member' : member'[j] = member[j]
        BY <2>3, <3>1 DEF Restrict
      <4> QED
        BY <3>1, <4>1 DEF RowOf
    <3>2. CASE after # NoRow
      <4>1. /\ DOMAIN member' = DOMAIN member \cup {k}
            /\ \A j \in DOMAIN member' : member'[j] = IF j = k THEN after ELSE member[j]
        BY <2>3, <3>2 DEF Put
      <4> QED
        BY <3>2, <4>1 DEF RowOf
    <3> QED
      BY <3>1, <3>2
  <2>5. before # NoRow => before \in Rows
    BY <2>2, RowsOfMembers DEF DoorsInv
  <2>6. before # after =>
          /\ x.acts \in DOMAIN x.was /\ x.was[x.acts].role = "org-admin"
          /\ after # NoRow /\ (before = NoRow \/ after.scope # before.scope) =>
               x.was[x.acts].scope \in {Everywhere, after.scope}
          /\ before # NoRow /\ before.scope = x.row.scope =>
               x.was[x.acts].scope \in {Everywhere, before.scope}
    BY <1>1, <1>2, <2>1, <2>2, <2>5, WrittenWithin
  <2>7. k[2] = x.acts
    BY <2>2
  <2> QED
    BY <1>1, <2>1, <2>2, <2>4, <2>6, <2>7
<1>10. CASE WriteModule(s)
  <2>1. x.stage = "write" /\ x.asked.route \in {"enable module", "disable module"}
    BY <1>1, <1>7, <1>10 DEF WriteModule
  <2> QED
    BY <1>8, <2>1
<1>11. CASE WriteOrganization(s)
  <2>1. x.stage = "write" /\ x.asked.route \in {"activate", "deactivate"}
    BY <1>1, <1>7, <1>11 DEF WriteOrganization
  <2> QED
    BY <1>8, <2>1
<1> QED
  BY <1>4, <1>5, <1>6, <1>9, <1>10, <1>11

\* "Un actor con alcance en una unidad no puede dar un alcance mayor al suyo":
\* through any calls of any users at once, a handler changes a member for nobody
\* but a superadmin or an administrator of that organisation, with a scope its
\* caller has and, unless it moved since it was read, had in the caller's own
\* (member.service.ts: assertCanGrantScope).
THEOREM MembersWriteWithinTheirGrant == DoorsSpec => GrantsStayWithin
<1>1. DoorsInv /\ [DoorsNext]_<<accessVars, connectorVars, membersVars>> => WritesWithinGrant
  BY StepsWithinGrant DEF doorsVars
<1>2. DoorsInv /\ [DoorsNext]_<<accessVars, connectorVars, membersVars>>
        => [WritesWithinGrant]_<<accessVars, connectorVars, membersVars>>
  BY <1>1
<1> QED
  BY <1>2, DoorsAlways, PTL DEF DoorsSpec, GrantsStayWithin
=============================================================================
