-------------------------- MODULE ExecutionCascade --------------------------
(***************************************************************************)
(* The management reading of one objective (apps/api/src/modules/okr):     *)
(*                                                                         *)
(*   Task.progressBp -> Project.progressCachedBp                           *)
(*                   -> Objective.executionProgressCachedBp                *)
(*                                                                         *)
(* Concurrent requests create, edit, reweigh and delete tasks and          *)
(* projects.  A request first reads what it was asked about outside any    *)
(* transaction, then opens a READ COMMITTED transaction that takes a row   *)
(* lock (the project's for the task handlers, the objective's for the      *)
(* project handlers), validates, writes and recomputes.  The writes of an  *)
(* open transaction are invisible to the others until its commit.          *)
(*                                                                         *)
(* The steps of a task handler are its read (BeginTask), lockProject       *)
(* (LockProject), its statements on tasks and the two recomputes up to the *)
(* UPDATE of the objective row (WriteTask), and that UPDATE with the       *)
(* commit (CommitTask): between the last two the row of the objective may  *)
(* be locked by someone else.  A project handler takes the objective's     *)
(* row first (LockObjective) and those of projects afterwards.             *)
(*                                                                         *)
(* An operator described in parentheses is a slip of the one it precedes:  *)
(* no specification uses it, it is put in the place of that operator to    *)
(* see which properties notice.                                            *)
(***************************************************************************)
EXTENDS OkrDomain

CONSTANTS
    Tasks, Projects,    \* ids, of rows that exist and of rows still to come
    ParentOf,           \* the project of each task: a task never moves
    InitialTasks, InitialProjects,  \* the rows that exist at the start
    Requests,           \* the request slots of the API processes
    Calls,              \* the calls its callers may make
    Nobody,             \* the holder of a free lock
    ProgressOf(_)       \* the aggregation passed to the recomputes

TaskKinds == {"createTask", "updateTask", "setTaskWeights", "deleteTask",
              "setProgress"}
ProjectKinds == {"createProject", "updateProject", "setProjectWeights",
                 "deleteProject"}

\* What the recomputes select of a sibling row.
Item == [weight : Weight, progress : Progress]

ASSUME ParentAssumption ==
    /\ ParentOf \in [Tasks -> Projects]
    /\ InitialTasks \subseteq Tasks
    /\ InitialProjects \subseteq Projects
    /\ \A t \in InitialTasks : ParentOf[t] \in InitialProjects
Creations == {"createTask", "createProject"}
Updates == {"updateTask", "updateProject"}
Reweighings == {"setTaskWeights", "setProjectWeights"}
Deletions == {"deleteTask", "deleteProject"}

\* A call is a record: its kind, its project, its target row, the weights it
\* assigns and the progress it sets.  A creation or an update names the
\* weight of its target, a reweighing those of the ids it lists.
WellFormed(c, Ids) ==
    /\ c.project \in Projects
    /\ c.target \in Ids
    /\ c.kind \in Creations \cup Updates => DOMAIN c.weights = {c.target}
    /\ c.kind \notin Creations \cup Updates \cup Reweighings => DOMAIN c.weights = {}
    /\ \A x \in DOMAIN c.weights : x \in Ids /\ c.weights[x] \in Weight
    /\ c.progress \in Progress
ASSUME CallsAssumption ==
    /\ Calls # {}
    /\ \A c \in Calls :
         \/ /\ c.kind \in TaskKinds
            /\ WellFormed(c, Tasks)
            /\ c.kind # "setTaskWeights" => ParentOf[c.target] = c.project
         \/ /\ c.kind \in ProjectKinds
            /\ WellFormed(c, Projects)
            /\ c.project = c.target
ASSUME NobodyAssumption == Nobody \notin Requests
ASSUME ProgressOfAssumption ==
    \A S \in (SUBSET Tasks) \cup (SUBSET Projects) : \A g \in [S -> Item] :
         ValidWeightGroup([x \in S |-> g[x].weight]) =>
             /\ ProgressOf(g) \in Progress
             /\ (\A x \in S : g[x].progress = 0) => ProgressOf(g) = 0

VARIABLES
    task,          \* the committed task rows
    project,       \* the committed project rows
    execution,     \* the committed executionProgressCachedBp
    projectLock,   \* who holds the row lock of each project
    objectiveLock, \* who holds the row lock of the objective
    pc,            \* where each request is
    call,          \* the call each request serves
    weightChanged, \* what its update decided from the row read at the start
    result,        \* the two aggregates its recompute has computed
    doomed,        \* the tasks it deletes along with their project
    unvalidated,   \* history: projects whose tasks got a weight no one checked
    unvalidatedObjective  \* history: the same for the group of projects

database == <<task, project, execution>>
locks == <<projectLock, objectiveLock>>
local == <<pc, call, weightChanged, result, doomed>>
history == <<unvalidated, unvalidatedObjective>>
vars == <<database, locks, local, history>>

RowStatus == {"absent", "live", "deleted"}
Row == [status : RowStatus, weight : Weight, progress : Progress]
PC == {"idle", "lock", "work", "marked", "wrote"}
NoRow == [status |-> "absent", weight |-> NoWeight, progress |-> 0]
NoResult == [progress |-> 0, execution |-> 0]
NoCall == CHOOSE c \in Calls : TRUE
NewRow == [status |-> "live", weight |-> NoWeight, progress |-> 0]

LiveTasks(rows, p) == {t \in Tasks : ParentOf[t] = p /\ rows[t].status = "live"}
LiveProjects(rows) == {p \in Projects : rows[p].status = "live"}
Weights(rows, S) == [x \in S |-> rows[x].weight]
Items(rows, S) == [x \in S |-> [weight |-> rows[x].weight,
                                progress |-> rows[x].progress]]

-----------------------------------------------------------------------------
(***************************************************************************)
(* What a call does to the rows, and when its handler accepts it.          *)
(***************************************************************************)

StatusAfter(c, x, status) ==
    IF x = c.target /\ c.kind \in Creations THEN "live"
    ELSE IF x = c.target /\ c.kind \in Deletions THEN "deleted" ELSE status

\* The rows once the statements of the call have run on them.  A new row has
\* no progress, like the absent one it replaces.
Effect(c, rows) ==
    [x \in DOMAIN rows |->
        [status |-> StatusAfter(c, x, rows[x].status),
         weight |-> IF x \in DOMAIN c.weights THEN c.weights[x] ELSE rows[x].weight,
         progress |-> IF x = c.target /\ c.kind = "setProgress" THEN c.progress
                                                               ELSE rows[x].progress]]

\* The validations of the handler against the live siblings it reads under
\* its lock; `changed` is the weightChanged of an update.
Accepts(c, rows, siblings, changed) ==
    /\ c.kind \in Creations \/ (c.kind \in Updates /\ changed) =>
           ValidWeightGroup(Weights(Effect(c, rows), siblings \cup {c.target}))
    /\ c.kind \in Reweighings => /\ SameSiblingSet(siblings, c.weights)
                                /\ ValidWeightGroup(c.weights)
    /\ c.kind \in Deletions => DeletionKeepsGroup(Weights(rows, siblings), c.target)

\* An update that saw no change of weight recomputes nothing.
Recomputes(r) ==
    call[r].kind \in Updates => weightChanged[r]

\* The recompute of a project reads its live tasks and throws on a group
\* that is not valid; that of the objective does the same over projects.
CanRecomputeProject(rows, p) == ValidWeightGroup(Weights(rows, LiveTasks(rows, p)))
ProjectProgress(rows, p) == ProgressOf(Items(rows, LiveTasks(rows, p)))
CanRecomputeObjective(rows) == ValidWeightGroup(Weights(rows, LiveProjects(rows)))
ObjectiveExecution(rows) == ProgressOf(Items(rows, LiveProjects(rows)))

TasksAfter(r) == Effect(call[r], task)

\* The project rows a task transaction sees after it wrote its own project.
\* (Recomputing the objective before writing it.)
ProjectsSeenStale(r) == project
ProjectsSeenBy(r) ==
    LET p == call[r].project
    IN  [project EXCEPT ![p].progress = ProjectProgress(TasksAfter(r), p)]

TaskCallSucceeds(r) ==
    LET c == call[r]
    IN  /\ Accepts(c, task, LiveTasks(task, c.project), weightChanged[r])
        /\ Recomputes(r) => /\ CanRecomputeProject(TasksAfter(r), c.project)
                            /\ CanRecomputeObjective(project)

ProjectsAfter(r) == Effect(call[r], project)

ProjectCallSucceeds(r) ==
    /\ Accepts(call[r], project, LiveProjects(project), weightChanged[r])
    /\ Recomputes(r) => CanRecomputeObjective(ProjectsAfter(r))

\* Deleting a project deletes, in the same transaction, the tasks it found.
WithoutTasks(gone) ==
    [t \in Tasks |-> IF t \in gone THEN [task[t] EXCEPT !.status = "deleted"]
                                  ELSE task[t]]

\* The project rows a project transaction updates one by one: it waits for
\* the lock of each.
RowsUpdated(r) ==
    LET c == call[r]
    IN  {p \in Projects :
            \/ p = c.target /\ c.kind \in Updates \cup Deletions
            \/ /\ c.kind \in Reweighings
               /\ p \in DOMAIN c.weights
               /\ c.weights[p] # project[p].weight}

-----------------------------------------------------------------------------
Init ==
    /\ task = [t \in Tasks |-> IF t \in InitialTasks THEN NewRow ELSE NoRow]
    /\ project = [p \in Projects |-> IF p \in InitialProjects THEN NewRow
                                                              ELSE NoRow]
    /\ execution = 0
    /\ projectLock = [p \in Projects |-> Nobody]
    /\ objectiveLock = Nobody
    /\ pc = [r \in Requests |-> "idle"]
    /\ call = [r \in Requests |-> NoCall]
    /\ weightChanged = [r \in Requests |-> FALSE]
    /\ result = [r \in Requests |-> NoResult]
    /\ doomed = [r \in Requests |-> {}]
    /\ unvalidated = {}
    /\ unvalidatedObjective = FALSE

\* Row ids are generated, so no two requests ever create the same one.
FreshId(c, rows) ==
    /\ rows[c.target].status = "absent"
    /\ \A q \in Requests :
         pc[q] # "idle" /\ call[q].kind = c.kind => call[q].target # c.target

\* weightChanged, from the row as the request read it.  (A row without weight
\* taken for unchanged.)
WeightDiffersWhenSet(c, rows) ==
    /\ c.kind \in Updates
    /\ rows[c.target].weight # NoWeight
    /\ c.weights[c.target] # rows[c.target].weight
WeightDiffers(c, rows) ==
    /\ c.kind \in Updates
    /\ c.weights[c.target] # rows[c.target].weight

\* The read that opens a task handler: the project must be live to add a
\* task or to reweigh its tasks, the task itself must be live otherwise.
BeginTask(r, c) ==
    /\ pc[r] = "idle"
    /\ c.kind \in TaskKinds
    /\ IF c.kind \in {"createTask", "setTaskWeights"}
       THEN project[c.project].status = "live"
       ELSE task[c.target].status = "live"
    /\ c.kind = "createTask" => FreshId(c, task)
    /\ pc' = [pc EXCEPT ![r] = "lock"]
    /\ call' = [call EXCEPT ![r] = c]
    /\ weightChanged' = [weightChanged EXCEPT ![r] = WeightDiffers(c, task)]
    /\ UNCHANGED <<database, locks, result, doomed, history>>

\* The read that opens a project handler.  The objective is live throughout.
BeginProject(r, c) ==
    /\ pc[r] = "idle"
    /\ c.kind \in ProjectKinds
    /\ c.kind = "createProject" => FreshId(c, project)
    /\ c.kind \in {"updateProject", "deleteProject"} =>
           project[c.target].status = "live"
    /\ pc' = [pc EXCEPT ![r] = "lock"]
    /\ call' = [call EXCEPT ![r] = c]
    /\ weightChanged' = [weightChanged EXCEPT ![r] = WeightDiffers(c, project)]
    /\ UNCHANGED <<database, locks, result, doomed, history>>

\* FOR UPDATE waits for the holder of a row.  (Plain reads do not.)
ProjectRead(p) == TRUE
ProjectFree(p) == projectLock[p] = Nobody
ObjectiveRead == TRUE
ObjectiveFree == objectiveLock = Nobody

\* lockProject: SELECT ... FOR UPDATE, whether or not the row is still live.
LockProject(r) ==
    LET p == call[r].project
    IN  /\ pc[r] = "lock"
        /\ call[r].kind \in TaskKinds
        /\ ProjectFree(p)
        /\ projectLock' = [projectLock EXCEPT ![p] = r]
        /\ pc' = [pc EXCEPT ![r] = "work"]
        /\ UNCHANGED <<database, objectiveLock, call, weightChanged, result, doomed,
                       history>>

\* lockObjective: SELECT ... FOR UPDATE.
LockObjective(r) ==
    /\ pc[r] = "lock"
    /\ call[r].kind \in ProjectKinds
    /\ ObjectiveFree
    /\ objectiveLock' = r
    /\ pc' = [pc EXCEPT ![r] = "work"]
    /\ UNCHANGED <<database, projectLock, call, weightChanged, result, doomed,
                       history>>

\* Who holds the objective once r is over.
ObjectiveReleased(r) == IF objectiveLock = r THEN Nobody ELSE objectiveLock

\* The end of a transaction, whichever way: its locks are released.
EndRequest(r) ==
    /\ pc' = [pc EXCEPT ![r] = "idle"]
    /\ projectLock' = [p \in Projects |->
                          IF projectLock[p] = r THEN Nobody ELSE projectLock[p]]
    /\ objectiveLock' = ObjectiveReleased(r)
    /\ call' = [call EXCEPT ![r] = NoCall]
    /\ weightChanged' = [weightChanged EXCEPT ![r] = FALSE]
    /\ result' = [result EXCEPT ![r] = NoResult]
    /\ doomed' = [doomed EXCEPT ![r] = {}]

\* The statements of a task handler, up to the UPDATE of the objective row.
WriteTask(r) ==
    /\ pc[r] = "work"
    /\ call[r].kind \in TaskKinds
    /\ TaskCallSucceeds(r)
    /\ pc' = [pc EXCEPT ![r] = "wrote"]
    /\ result' = IF Recomputes(r)
                 THEN [result EXCEPT ![r] =
                         [progress |-> ProjectProgress(TasksAfter(r), call[r].project),
                          execution |-> ObjectiveExecution(ProjectsSeenBy(r))]]
                 ELSE result
    /\ UNCHANGED <<database, locks, call, weightChanged, doomed, history>>

\* A validation or a recompute throws: the transaction rolls back.
RejectTask(r) ==
    /\ pc[r] = "work"
    /\ call[r].kind \in TaskKinds
    /\ ~TaskCallSucceeds(r)
    /\ EndRequest(r)
    /\ UNCHANGED <<database, history>>

\* The UPDATE of the objective row, once nobody else holds it, and the commit.
CommitTask(r) ==
    LET p == call[r].project
    IN  /\ pc[r] = "wrote"
        /\ call[r].kind \in TaskKinds
        /\ Recomputes(r)
        /\ ObjectiveFree
        /\ task' = TasksAfter(r)
        /\ project' = [project EXCEPT ![p].progress = result[r].progress]
        /\ execution' = result[r].execution
        /\ unvalidated' = unvalidated \ {p}
        /\ EndRequest(r)
        /\ UNCHANGED unvalidatedObjective

\* The commit of an update whose weight looked unchanged: it is written
\* nevertheless, and nothing is recomputed.
CommitPlainUpdate(r) ==
    LET c == call[r]
    IN  /\ pc[r] = "wrote"
        /\ call[r].kind \in TaskKinds
        /\ ~Recomputes(r)
        /\ task' = TasksAfter(r)
        /\ unvalidated' = IF task[c.target].status = "live" /\ WeightDiffers(c, task)
                          THEN unvalidated \cup {c.project}
                          ELSE unvalidated
        /\ EndRequest(r)
        /\ UNCHANGED <<project, execution, unvalidatedObjective>>

\* A deletion reads the live tasks of the project and deletes them before it
\* reaches the row of the project.
MarkTasks(r) ==
    /\ pc[r] = "work"
    /\ call[r].kind = "deleteProject"
    /\ ProjectCallSucceeds(r)
    /\ pc' = [pc EXCEPT ![r] = "marked"]
    /\ doomed' = [doomed EXCEPT ![r] = LiveTasks(task, call[r].target)]
    /\ UNCHANGED <<database, locks, call, weightChanged, result, history>>

\* A project handler is about to update rows of projects.
ReachesProjectRows(r) ==
    /\ pc[r] = IF call[r].kind = "deleteProject" THEN "marked" ELSE "work"
    /\ call[r].kind \in ProjectKinds
    /\ ProjectCallSucceeds(r)

\* Its statements, once the project rows it updates are free; they are locked
\* from then on.
WriteProject(r) ==
    /\ ReachesProjectRows(r)
    /\ \A p \in RowsUpdated(r) : ProjectFree(p)
    /\ projectLock' = [p \in Projects |->
                          IF p \in RowsUpdated(r) THEN r ELSE projectLock[p]]
    /\ pc' = [pc EXCEPT ![r] = "wrote"]
    /\ result' = IF Recomputes(r)
                 THEN [result EXCEPT ![r].execution =
                          ObjectiveExecution(ProjectsAfter(r))]
                 ELSE result
    /\ UNCHANGED <<database, objectiveLock, call, weightChanged, doomed, history>>

RejectProject(r) ==
    /\ pc[r] = "work"
    /\ call[r].kind \in ProjectKinds
    /\ ~ProjectCallSucceeds(r)
    /\ EndRequest(r)
    /\ UNCHANGED <<database, history>>

CommitProject(r) ==
    LET c == call[r]
    IN  /\ pc[r] = "wrote"
        /\ c.kind \in ProjectKinds
        /\ project' = ProjectsAfter(r)
        /\ task' = IF c.kind = "deleteProject" THEN WithoutTasks(doomed[r]) ELSE task
        /\ execution' = IF Recomputes(r) THEN result[r].execution ELSE execution
        /\ unvalidatedObjective' =
               IF Recomputes(r) THEN FALSE
               ELSE \/ unvalidatedObjective
                    \/ project[c.target].status = "live" /\ WeightDiffers(c, project)
        /\ EndRequest(r)
        /\ UNCHANGED unvalidated

\* An open transaction may be rolled back at any moment: Prisma's time limit
\* for interactive transactions, a dropped connection, a process that dies.
RollBack(r) ==
    /\ pc[r] # "idle"
    /\ EndRequest(r)
    /\ UNCHANGED <<database, history>>

\* A task transaction waits for the objective's row, held by a project
\* transaction that waits for the row of the former's project.
WaitCycle(q, r) ==
    /\ pc[q] = "wrote" /\ call[q].kind \in TaskKinds /\ Recomputes(q)
    /\ ReachesProjectRows(r)
    /\ \E p \in RowsUpdated(r) : projectLock[p] = q

\* PostgreSQL rolls back one of the transactions of a wait cycle.
BreakDeadlock(v) ==
    /\ \E r \in Requests : WaitCycle(v, r) \/ WaitCycle(r, v)
    /\ EndRequest(v)
    /\ UNCHANGED <<database, history>>

Begin(r) == \E c \in Calls : BeginTask(r, c) \/ BeginProject(r, c)
Acquire(r) == LockProject(r) \/ LockObjective(r) \/ WriteProject(r) \/ CommitTask(r)
Proceed(r) ==
    \/ WriteTask(r) \/ RejectTask(r) \/ MarkTasks(r) \/ RejectProject(r)
    \/ CommitPlainUpdate(r) \/ CommitProject(r)
    \/ BreakDeadlock(r)

Next ==
    \E r \in Requests :
        \/ Begin(r)
        \/ Acquire(r)
        \/ Proceed(r)
        \/ RollBack(r)

Spec == Init /\ [][Next]_vars

(***************************************************************************)
(* A request that can go on does, and row locks are granted in the order   *)
(* in which they were asked for, so the steps that wait for one (Acquire)  *)
(* are strongly fair.  Nothing obliges a caller to make a call, nor a      *)
(* transaction to time out.                                                *)
(***************************************************************************)
Fairness == \A r \in Requests : SF_vars(Acquire(r)) /\ WF_vars(Proceed(r))

FairSpec == Spec /\ Fairness

-----------------------------------------------------------------------------
\* Every variable holds a value of its type.
TypeOK ==
    /\ task \in [Tasks -> Row]
    /\ project \in [Projects -> Row]
    /\ execution \in Progress
    /\ projectLock \in [Projects -> Requests \cup {Nobody}]
    /\ objectiveLock \in Requests \cup {Nobody}
    /\ pc \in [Requests -> PC]
    /\ call \in [Requests -> Calls]
    /\ weightChanged \in [Requests -> BOOLEAN]
    /\ result \in [Requests -> [progress : Progress, execution : Progress]]
    /\ doomed \in [Requests -> SUBSET Tasks]
    /\ unvalidated \subseteq Projects
    /\ unvalidatedObjective \in BOOLEAN

\* RN-P6 as the code maintains it under concurrency: the live tasks of a
\* live project form a valid weight group and its cached progress is exactly
\* their aggregate, from one commit to the next, unless an update wrote a
\* weight it took for unchanged (task.service.ts, update).
ProjectReadingExact ==
    \A p \in LiveProjects(project) \ unvalidated :
        /\ ValidWeightGroup(Weights(task, LiveTasks(task, p)))
        /\ project[p].progress = ProjectProgress(task, p)

\* The same for the group of the objective's projects (project.service.ts).
ObjectiveGroupValid ==
    ~unvalidatedObjective => ValidWeightGroup(Weights(project, LiveProjects(project)))

\* No committed state has a group with mixed weights, or with weights that
\* do not sum to one hundred percent.
WeightGroupsAlwaysValid ==
    /\ \A p \in LiveProjects(project) :
           ValidWeightGroup(Weights(task, LiveTasks(task, p)))
    /\ ValidWeightGroup(Weights(project, LiveProjects(project)))

\* The objective's cached execution is the aggregate of its live projects.
ObjectiveReadingExact == execution = ObjectiveExecution(project)

\* A reading of one hundred percent, the only one that is published and that
\* loads indicators, is never the effect of rounding, of an empty group or of
\* a weight: it says that all the siblings that weigh are complete, and it is
\* reached as soon as they are, at both levels (aggregateProgressBp).
CompletionIsReal ==
    /\ \A p \in LiveProjects(project) :
           project[p].progress = FullBp <=> CompleteGroup(Items(task, LiveTasks(task, p)))
    /\ execution = FullBp <=> CompleteGroup(Items(project, LiveProjects(project)))

\* Deleting a project takes every task with it.
NoTaskOutlivesItsProject ==
    \A t \in Tasks : task[t].status = "live" => project[ParentOf[t]].status = "live"

\* Whatever is created, reweighed and deleted, one request after another, the
\* rows of both levels are those of a plan: valid groups of weights (RN-P6), and
\* no task without its project.
RowsStaySound == TypeOK /\ WeightGroupsAlwaysValid /\ NoTaskOutlivesItsProject

\* Whatever the others do, a request ends: it commits, is refused, or is the
\* victim the database chose to break a wait between the two lock orders.
EveryRequestEnds == \A r \in Requests : pc[r] # "idle" ~> pc[r] = "idle"
=============================================================================
