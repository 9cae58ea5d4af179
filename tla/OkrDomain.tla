----------------------------- MODULE OkrDomain -----------------------------
(***************************************************************************)
(* The pure rules of packages/okr-domain: weight groups (RN-P6) and the    *)
(* aggregation of sibling progress (RN-P8).                                *)
(*                                                                         *)
(* A sibling group is a function from the ids of its members to their      *)
(* weight, or to a record with their weight and progress.  Basis points    *)
(* are 0..FullBp; the code's 10000 is the parameter FullBp.                *)
(*                                                                         *)
(* An operator described in parentheses is a slip of the one it precedes:  *)
(* no specification uses it.                                               *)
(***************************************************************************)
EXTENDS Integers, FiniteSets, Functions

CONSTANTS
    FullBp,     \* BP_MAX: one hundred percent in basis points
    NoWeight    \* the null weightBp of an unweighted member

ASSUME FullBpAssumption == FullBp \in Nat \ {0}
ASSUME NoWeightAssumption == NoWeight \notin Int

Progress == 0..FullBp
Weight == (0..FullBp) \cup {NoWeight}

\* What a group is by its weights; an empty group is unweighted.
WeightMode(weights) ==
    IF \A x \in DOMAIN weights : weights[x] = NoWeight THEN "unweighted"
    ELSE IF \A x \in DOMAIN weights : weights[x] # NoWeight THEN "weighted"
    ELSE "mixed"

\* validateWeightSumInvariant as assertValidWeightGroup uses it: all or
\* nothing, and the weights of a weighted group sum to one hundred percent.
ValidWeightGroup(weights) ==
    \/ WeightMode(weights) = "unweighted"
    \/ /\ WeightMode(weights) = "weighted"
       /\ SumFunction(weights) = FullBp

\* The weights that remain when one member leaves the group; the code throws
\* when the member is not in it, which a caller sees as a refused deletion.
SumAfterDelete(weights, member) ==
    LET rest == DOMAIN weights \ {member}
    IN  CASE WeightMode(weights) = "unweighted" -> IF rest = {} THEN 0 ELSE FullBp
          [] OTHER -> SumFunctionOnSet(weights, rest)

\* The deletion check both soft deletes share.
DeletionKeepsGroup(weights, member) ==
    /\ WeightMode(weights) = "weighted"
    /\ Cardinality(DOMAIN weights) > 1
    => /\ member \in DOMAIN weights
       /\ SumAfterDelete(weights, member) = FullBp

\* assertSameSiblingSet: a replacement of weights, which names each id once,
\* names exactly the live siblings.
SameSiblingSet(liveIds, weights) == DOMAIN weights = liveIds

\* The mean of the members' progress, truncated.  The caller has established
\* that the group is valid: the code throws otherwise.  (Or rounded up.)
AggregateRoundedUp(items) ==
    LET members == DOMAIN items
        weights == [x \in members |-> items[x].weight]
        points  == [x \in members |-> items[x].progress]
        shares  == [x \in members |-> items[x].weight * items[x].progress]
        Up(total, parts) == (total + parts - 1) \div parts
    IN  CASE members = {} -> 0
          [] members # {} /\ WeightMode(weights) = "unweighted" ->
               Up(SumFunction(points), Cardinality(members))
          [] OTHER -> Up(SumFunction(shares), FullBp)
AggregateProgressBp(items) ==
    LET members == DOMAIN items
        weights == [x \in members |-> items[x].weight]
        points  == [x \in members |-> items[x].progress]
        shares  == [x \in members |-> items[x].weight * items[x].progress]
    IN  CASE members = {} -> 0
          [] members # {} /\ WeightMode(weights) = "unweighted" ->
               SumFunction(points) \div Cardinality(members)
          [] OTHER -> SumFunction(shares) \div FullBp

\* What one hundred percent should mean: some member, and every member that
\* weighs is complete.
CompleteGroup(items) ==
    /\ DOMAIN items # {}
    /\ \A x \in DOMAIN items : items[x].weight # 0 => items[x].progress = FullBp
=============================================================================
