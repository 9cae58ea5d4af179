--------------------------- MODULE MCRequestsEnd ---------------------------
(***************************************************************************)
(* Whether requests end, in two instances checked side by side: two        *)
(* requests on the cascade, one call of each kind; and two requests on the *)
(* contributions of one project.  `part` says which of the two moves: the  *)
(* other stays in its initial state.                                       *)
(***************************************************************************)
EXTENDS MCExecutionCascade

CONSTANTS i1, i2, Indicators, Contributions, IndicatorOf, Values, Operations

VARIABLES
    part,
    completion, indicator, row, balance, rowLock, decision, stage, job, seen, todo,
    draft, lost

Contributing == INSTANCE ContributionReconciliation WITH
    project <- completion, pc <- stage, Projects <- {p1},
    ProjectOf <- [c \in Contributions |-> p1], MayFail <- FALSE

Takers == [c \in Contributions |-> IF c = 2 THEN i2 ELSE i1]

contributing == <<completion, indicator, row, balance, rowLock, decision, stage, job,
                  seen, todo, draft, lost>>

MCInit == Init /\ Contributing!Init /\ part \in {"cascade", "contributions"}

MCNext ==
    /\ UNCHANGED part
    /\ \/ part = "cascade" /\ Next /\ UNCHANGED contributing
       \/ part = "contributions" /\ Contributing!Next /\ UNCHANGED vars

MCSpec ==
    /\ MCInit /\ [][MCNext]_<<part, vars, contributing>>
    /\ Fairness /\ Contributing!Fairness

\* Whatever the others do, a request ends: it commits, is refused, or is the
\* victim the database chose to break a wait between the two lock orders of
\* the cascade; and reconciliations that meet on the same rows of
\* contributions wait for each other and end (lockProject, lockObjective,
\* lockContribution).
RequestsEnd == EveryRequestEnds /\ Contributing!EveryRequestEnds
=============================================================================
