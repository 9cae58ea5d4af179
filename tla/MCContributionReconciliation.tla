-------------------- MODULE MCContributionReconciliation --------------------
(***************************************************************************)
(* Instances of ContributionReconciliation with up to three contribution   *)
(* ids.  Id 3 names the pair of id 1: a contribution that is removed and   *)
(* created again gets a new row.                                           *)
(***************************************************************************)
EXTENDS ContributionReconciliation

CONSTANTS p1, p2, i1, i2

OneProject == [c \in Contributions |-> p1]
TwoProjects == [c \in Contributions |-> IF c = 2 THEN p2 ELSE p1]
OneIndicator == [c \in Contributions |-> i1]
TwoIndicators == [c \in Contributions |-> IF c = 2 THEN i2 ELSE i1]
=============================================================================
