-------------------------- MODULE MCCompletionFlow --------------------------
(***************************************************************************)
(* One request at a time through the cascade and the contributions: every  *)
(* call on a plan of two projects without contributions, and the calls     *)
(* that complete, reopen and delete a project while its contributions are  *)
(* created, altered and removed.  Id 3 names the pair of id 1: a           *)
(* contribution that is removed and created again gets a new row.          *)
(***************************************************************************)
EXTENDS CompletionFlow, MCExecutionCascade

CONSTANTS i1, i2

VARIABLE part

Givers == [c \in Contributions |-> IF c = 2 THEN p2 ELSE p1]
Takers == [c \in Contributions |-> IF c = 2 THEN i2 ELSE i1]

\* The calls that meet contributions.
FlowCalls ==
    UNION {SetProgress({t1, t3}), DeleteTasks({t2}), DeleteProjects({p1})}
        \cup {TCall("createTask", t2, t2 :> NoWeight, 0),
              TCall("createTask", t3, t3 :> NoWeight, 0),
              PCall("createProject", p2, p2 :> NoWeight)}

MCInit == InitFlow /\ part \in {"plan", "flow"}

MCNext ==
    /\ UNCHANGED part
    /\ \E r \in Requests :
         \/ /\ PlanStep(r)
            /\ part = "flow" /\ pc'[r] = "lock" => call'[r] \in FlowCalls
         \/ /\ ContributionStep(r)
            /\ part = "plan" => stage[r] # "idle" /\ lost' = {}

MCSpec == MCInit /\ [][MCNext]_<<flowVars, part>>
=============================================================================
