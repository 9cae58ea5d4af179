------------------------------ MODULE OrgUnits ------------------------------
(***************************************************************************)
(* The tree of organisation units as org-unit-tree.ts of modules/core      *)
(* reads it, and the units a member with a scope may write in              *)
(* (org-unit-scope.service.ts).                                            *)
(*                                                                         *)
(* A tree maps the live units to their parents; NoUnit is the parent of a  *)
(* root and the scope of who may write everywhere.                         *)
(*                                                                         *)
(* An operator described in parentheses is a slip of the one it precedes:  *)
(* no specification uses it.                                               *)
(***************************************************************************)
EXTENDS PlanningDomain

CONSTANT NoUnit

\* canBeChildOf: the kinds that may hang from a kind.
CanBeChildOf(parent, child) ==
    CASE parent \in {"central", "ministry"} -> child \in {"ministry", "area"}
      [] parent = "area" -> child = "area"
      [] OTHER -> FALSE

\* The unit and what is above it, the first that is not live included; a cycle
\* is walked once.
Climb(parent, u) ==
    LET up[n \in Nat] ==
            IF n = 0 THEN {u}
            ELSE up[n - 1] \cup ({parent[v] : v \in up[n - 1] \cap DOMAIN parent} \ {NoUnit})
    IN  up[Cardinality(DOMAIN parent) + 1]

\* depthOf: the level of a unit, 1 for a root.
DepthOf(parent, u) == Cardinality(Climb(parent, u))

\* subtreeHeight: the levels that hang from a unit, its own included.  (Only
\* its own.)
HeightOfOne(parent, u) == 1
SubtreeHeight(parent, u) ==
    LET level[n \in Nat] ==
            IF n = 0 THEN {u}
            ELSE {v \in DOMAIN parent \ {u} : parent[v] \in level[n - 1]}
    IN  Cardinality({n \in 0..Cardinality(DOMAIN parent) : level[n] # {}})

\* isSelfOrDescendant: whether u is ancestor or below it.
IsSelfOrDescendant(parent, ancestor, u) == ancestor \in Climb(parent, u)

\* The same of PrismaOrgUnitHierarchy: every unit on the way must be live.
IsLiveSelfOrDescendant(parent, ancestor, u) ==
    /\ u \in DOMAIN parent /\ ancestor \in DOMAIN parent
    /\ ancestor \in Climb(parent, u)

\* resolve, load: a scope reaches its unit, deleted or not, and the live units
\* below it.
ScopeUnits(parent, u) == {u} \cup {v \in DOMAIN parent : u \in Climb(parent, v)}
=============================================================================
