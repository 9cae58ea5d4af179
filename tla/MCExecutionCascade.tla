------------------------- MODULE MCExecutionCascade -------------------------
(***************************************************************************)
(* Instances of ExecutionCascade: one objective with a project of two      *)
(* tasks and a project of one.  One hundred percent is 2 basis points, so  *)
(* a weight is a half or the whole and a mean of two can truncate.         *)
(***************************************************************************)
EXTENDS ExecutionCascade, TLC

CONSTANTS t1, t2, t3, p1, p2

Parents == t1 :> p1 @@ t2 :> p1 @@ t3 :> p2
None == [x \in {} |-> NoWeight]

TCall(kind, target, weights, progress) ==
    [kind |-> kind, project |-> Parents[target], target |-> target,
     weights |-> weights, progress |-> progress]
PCall(kind, target, weights) ==
    [kind |-> kind, project |-> target, target |-> target,
     weights |-> weights, progress |-> 0]

SetProgress(T) == {TCall("setProgress", t, None, v) : t \in T, v \in {0, FullBp}}
CreateTasks(T) == {TCall("createTask", t, t :> w, 0) : t \in T, w \in {NoWeight, 1, 2}}
UpdateTasks(T) == {TCall("updateTask", t, t :> w, 0) : t \in T, w \in {1, 2}}
DeleteTasks(T) == {TCall("deleteTask", t, None, 0) : t \in T}
ReweighTasks ==
    {TCall("setTaskWeights", t1, w, 0) : w \in
        {t1 :> 1 @@ t2 :> 1, t1 :> 2 @@ t2 :> 0, t1 :> NoWeight @@ t2 :> NoWeight,
         t1 :> 2}}
CreateProjects == {PCall("createProject", p2, p2 :> w) : w \in {NoWeight, 1}}
UpdateProjects == {PCall("updateProject", p1, p1 :> w) : w \in {1, 2}}
ReweighProjects ==
    {PCall("setProjectWeights", p1, w) : w \in
        {p1 :> 1 @@ p2 :> 1, p1 :> 2 @@ p2 :> 0, p1 :> NoWeight @@ p2 :> NoWeight,
         p1 :> 2}}
DeleteProjects(P) == {PCall("deleteProject", p, None) : p \in P}

\* Every kind of call: for one request at a time.
AllCalls ==
    UNION {SetProgress(Tasks), CreateTasks({t2, t3}), UpdateTasks({t1, t2}),
           DeleteTasks(Tasks), ReweighTasks, CreateProjects, UpdateProjects,
           ReweighProjects, DeleteProjects(Projects)}

\* Enough calls of every kind to meet each other in two requests.
RacingCalls ==
    UNION {SetProgress({t1}), CreateTasks({t2}), UpdateTasks({t1}),
           DeleteTasks({t2}), ReweighTasks, UpdateProjects,
           ReweighProjects, DeleteProjects({p1})}
           \cup {PCall("createProject", p2, p2 :> NoWeight)}

\* One call of each kind, for the runs that ask whether requests end.
OneOfEach ==
    {TCall("setProgress", t1, None, FullBp), TCall("createTask", t2, t2 :> NoWeight, 0),
     TCall("updateTask", t1, t1 :> 1, 0), TCall("deleteTask", t1, None, 0),
     PCall("updateProject", p1, p1 :> 2), PCall("deleteProject", p2, None)}

\* Progress loads on tasks of two projects of the same objective.
ProgressLoads == SetProgress({t1, t3})
=============================================================================
