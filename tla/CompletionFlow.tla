--------------------------- MODULE CompletionFlow ---------------------------
(***************************************************************************)
(* The two components that share a project: the management cascade, which  *)
(* owns it (ExecutionCascade), and the contributions to indicators, which  *)
(* follow its completion (ContributionReconciliation).                     *)
(*                                                                         *)
(* The contributions see of a project only whether it is open, complete or *)
(* deleted.  A request whose commit changes that publishes it and, in the  *)
(* same request, runs the reconciliation; one that does not leaves the     *)
(* contributions alone.  Here the completion is computed from the cascade, *)
(* so that the changes the second component is told of are those the first *)
(* makes.                                                                  *)
(***************************************************************************)
EXTENDS ExecutionCascade

CONSTANTS
    Indicators, Contributions, ContributingProject, IndicatorOf,
    Values, Operations, MayFail     \* those of ContributionReconciliation

VARIABLES
    indicator, row, balance, rowLock, decision, stage, job, seen, todo, draft, lost

PROJECT_COMPLETE_BP == FullBp

\* What publishTransitions and publishDeleted look at.
Completion(p) ==
    IF project[p].status = "deleted" THEN "deleted"
    ELSE IF project[p].progress = PROJECT_COMPLETE_BP THEN "complete" ELSE "open"

Flow == INSTANCE ContributionReconciliation WITH
            project <- [p \in Projects |-> Completion(p)], pc <- stage,
            ProjectOf <- ContributingProject

\* A change of progress that completes nothing is a step of the cascade.
ASSUME FlowAssumption ==
    /\ Contributions \subseteq Nat /\ Contributions # {}
    /\ ContributingProject \in [Contributions -> Projects]
    /\ IndicatorOf \in [Contributions -> Indicators]
    /\ Values # {} /\ Values \subseteq Int \ {0}
    /\ Operations \subseteq Flow!AllOperations \ {"change"}
    /\ MayFail \in BOOLEAN

contributions == <<indicator, row, balance, rowLock, decision, stage, job, seen, todo,
                   draft, lost>>
flowVars == <<vars, contributions>>

InitFlow == Init /\ Flow!Init

\* A request that changed the completion of a project publishes the change
\* once it has committed it.  (Without the projects that stop being complete.)
PublishCompleted(r) ==
    IF \A p \in Projects : Completion(p)' = "complete" => Completion(p) = "complete"
    THEN UNCHANGED contributions
    ELSE \E p \in Projects : Flow!CompleteProject(r, p)
Publish(r) ==
    IF \A p \in Projects : Completion(p)' = Completion(p)
    THEN UNCHANGED contributions
    ELSE \E p \in Projects :
           Flow!CompleteProject(r, p) \/ Flow!ReopenProject(r, p) \/ Flow!DeleteProject(r, p)

PlanStep(r) ==
    /\ stage[r] = "idle"
    /\ Begin(r) \/ Acquire(r) \/ Proceed(r) \/ RollBack(r)
    /\ Publish(r)

\* Contributions are for projects that exist.
ForRows(r) ==
    stage'[r] = "creating" =>
        project[ContributingProject[draft'[r].contribution]].status = "live"

ContributionStep(r) ==
    /\ pc[r] = "idle"
    /\ UNCHANGED vars
    /\ Flow!Call(r) \/ Flow!Proceed(r) \/ Flow!Acquire(r) \/ Flow!Fail(r)
    /\ ForRows(r)

NextFlow == \E r \in Requests : PlanStep(r) \/ ContributionStep(r)

SpecFlow == InitFlow /\ [][NextFlow]_flowVars

-----------------------------------------------------------------------------
\* RN-P13 end to end: once every request is over, a live contribution of a
\* project is applied if the tasks of the project are all complete, and only
\* then, whatever tasks were loaded, reweighed, added or deleted and whatever
\* contributions and indicators were edited in between; one of a deleted
\* project is not there any more.  A reconciliation that failed is made good by
\* the next event of its project (ProjectLifecyclePublisher, applier).
ContributionsFollowTasks ==
    (\A r \in Requests : pc[r] = "idle" /\ stage[r] = "idle") =>
        \A c \in Contributions :
            LET p == ContributingProject[c]
            IN  row[c].status = "live" /\ p \notin lost =>
                  /\ project[p].status = "live"
                  /\ row[c].applied # 0 <=> CompleteGroup(Items(task, LiveTasks(task, p)))

\* What the series of the metrics keep of the contributions: each live one
\* feeds an indicator that projects feed (ADR-0009 D5), and one that is gone,
\* by hand or with its project, left no entry behind (RN-P13).
ContributionsLeaveNoTrace ==
    /\ \A c \in Contributions :
         row[c].status = "live" /\ Completion(ContributingProject[c]) # "deleted" =>
             indicator[IndicatorOf[c]].live /\ indicator[IndicatorOf[c]].feeds
    /\ \A c \in Contributions : row[c].status = "gone" => balance[c] = 0
=============================================================================
