----------------------- MODULE ExecutionCascadeProofs -----------------------
(***************************************************************************)
(* Proofs about ExecutionCascade, for any tasks, projects, calls, requests *)
(* and aggregation function that satisfy its assumptions.                  *)
(*                                                                         *)
(* Then, about CompletionFlow: the composition of the cascade and the      *)
(* contributions is a behaviour of both, neither is disturbed by the       *)
(* other, so what is proved of each alone holds of the two together.       *)
(***************************************************************************)
EXTENDS CompletionFlow, OkrDomainProofs

\* A call is well formed, in the form the proofs use.
LEMMA CallShape ==
    ASSUME NEW c \in Calls
    PROVE  /\ c.kind \in TaskKinds \cup ProjectKinds
           /\ c.project \in Projects
           /\ c.progress \in Progress
           /\ \A x \in DOMAIN c.weights : c.weights[x] \in Weight
           /\ c.kind \in TaskKinds => /\ c.target \in Tasks
                                      /\ DOMAIN c.weights \subseteq Tasks
           /\ c.kind \in ProjectKinds => /\ c.target \in Projects
                                         /\ DOMAIN c.weights \subseteq Projects
                                         /\ c.project = c.target
           /\ c.kind \in TaskKinds \ Reweighings =>
                  /\ ParentOf[c.target] = c.project
                  /\ DOMAIN c.weights \subseteq {c.target}
           /\ c.kind \in Creations \cup Updates => DOMAIN c.weights = {c.target}
BY CallsAssumption
   DEF WellFormed, TaskKinds, ProjectKinds, Creations, Updates, Reweighings

LEMMA NoCallIsACall == NoCall \in Calls
BY CallsAssumption DEF NoCall

LEMMA RowTypes ==
    /\ NoWeight \in Weight /\ 0 \in Progress
    /\ NoRow \in Row /\ NewRow \in Row
    /\ NoResult \in [progress : Progress, execution : Progress]
BY FullBpAssumption DEF Weight, Progress, NoRow, NoResult, NewRow, Row, RowStatus

\* The statements of a call turn rows into rows.
LEMMA EffectType ==
    ASSUME NEW c \in Calls, NEW Ids, NEW rows \in [Ids -> Row]
    PROVE  Effect(c, rows) \in [Ids -> Row]
<1>1. ASSUME NEW x \in Ids
      PROVE  /\ StatusAfter(c, x, rows[x].status) \in RowStatus
             /\ (IF x \in DOMAIN c.weights THEN c.weights[x] ELSE rows[x].weight)
                    \in Weight
             /\ (IF x = c.target /\ c.kind = "setProgress" THEN c.progress
                                                         ELSE rows[x].progress)
                    \in Progress
  <2>1. rows[x] \in Row
    BY <1>1
  <2>2. StatusAfter(c, x, rows[x].status) \in RowStatus
    BY <2>1 DEF StatusAfter, Row, RowStatus
  <2> QED
    BY <2>1, <2>2, CallShape DEF Row
<1> QED
  BY <1>1, Zenon DEF Effect, Row

\* The aggregate of a valid group of rows is a progress.
LEMMA AggregateInRange ==
    ASSUME NEW Ids, NEW rows \in [Ids -> Row], NEW S \in SUBSET Ids,
           S \in (SUBSET Tasks) \cup (SUBSET Projects),
           ValidWeightGroup(Weights(rows, S))
    PROVE  ProgressOf(Items(rows, S)) \in Progress
<1>1. Items(rows, S) \in [S -> Item]
  BY DEF Items, Item, Row
<1>2. [x \in S |-> Items(rows, S)[x].weight] = Weights(rows, S)
  BY DEF Items, Weights
<1> QED
  BY <1>1, <1>2, ProgressOfAssumption

\* Recomputing a project yields a progress.
LEMMA ProjectProgressType ==
    ASSUME NEW rows \in [Tasks -> Row], NEW p \in Projects,
           CanRecomputeProject(rows, p)
    PROVE  ProjectProgress(rows, p) \in Progress
<1> DEFINE S == LiveTasks(rows, p)
<1>1. S \in SUBSET Tasks
  BY DEF LiveTasks
<1> QED
  BY <1>1, AggregateInRange DEF CanRecomputeProject, ProjectProgress

\* Recomputing the objective yields a progress.
LEMMA ObjectiveExecutionType ==
    ASSUME NEW rows \in [Projects -> Row], CanRecomputeObjective(rows)
    PROVE  ObjectiveExecution(rows) \in Progress
<1> DEFINE S == LiveProjects(rows)
<1>1. S \in SUBSET Projects
  BY DEF LiveProjects
<1> QED
  BY <1>1, AggregateInRange DEF CanRecomputeObjective, ObjectiveExecution

\* The objective's group depends on the weights and statuses of its projects.
LEMMA SameObjectiveGroup ==
    ASSUME NEW rows \in [Projects -> Row], NEW after \in [Projects -> Row],
           \A q \in Projects : /\ after[q].weight = rows[q].weight
                               /\ after[q].status = rows[q].status
    PROVE  /\ LiveProjects(after) = LiveProjects(rows)
           /\ Weights(after, LiveProjects(after)) = Weights(rows, LiveProjects(rows))
<1>1. LiveProjects(after) = LiveProjects(rows)
  BY DEF LiveProjects
<1> QED
  BY <1>1 DEF Weights, LiveProjects

\* Writing the progress of one project disturbs no weight and no status.
LEMMA ProgressLeavesGroup ==
    ASSUME NEW rows \in [Projects -> Row], NEW p \in Projects, NEW v \in Progress
    PROVE  /\ [rows EXCEPT ![p].progress = v] \in [Projects -> Row]
           /\ \A q \in Projects :
                  /\ [rows EXCEPT ![p].progress = v][q].weight = rows[q].weight
                  /\ [rows EXCEPT ![p].progress = v][q].status = rows[q].status
BY DEF Row

-----------------------------------------------------------------------------
(***************************************************************************)
(* Types.                                                                  *)
(***************************************************************************)

LEMMA EndRequestType ==
    ASSUME TypeOK, NEW r \in Requests, EndRequest(r)
    PROVE  /\ pc' \in [Requests -> PC]
           /\ call' \in [Requests -> Calls]
           /\ weightChanged' \in [Requests -> BOOLEAN]
           /\ result' \in [Requests -> [progress : Progress, execution : Progress]]
           /\ projectLock' \in [Projects -> Requests \cup {Nobody}]
           /\ objectiveLock' \in Requests \cup {Nobody}
           /\ doomed' \in [Requests -> SUBSET Tasks]
BY NoCallIsACall, RowTypes DEF TypeOK, EndRequest, ObjectiveReleased, PC

LEMMA InitType == Init => TypeOK
<1> SUFFICES ASSUME Init PROVE TypeOK
  OBVIOUS
<1>1. task \in [Tasks -> Row] /\ project \in [Projects -> Row]
  BY RowTypes DEF Init
<1>2. result \in [Requests -> [progress : Progress, execution : Progress]]
  BY RowTypes DEF Init
<1>3. call \in [Requests -> Calls]
  BY NoCallIsACall DEF Init
<1> QED
  BY <1>1, <1>2, <1>3, RowTypes DEF Init, TypeOK, PC

LEMMA NextType == TypeOK /\ [Next]_vars => TypeOK'
<1> SUFFICES ASSUME TypeOK, [Next]_vars PROVE TypeOK'
  OBVIOUS
<1> USE DEF database, locks, local, history
<1>1. ASSUME NEW r \in Requests, NEW c \in Calls, BeginTask(r, c) \/ BeginProject(r, c)
      PROVE  TypeOK'
  BY <1>1 DEF TypeOK, BeginTask, BeginProject, PC, WeightDiffers
<1>2. ASSUME NEW r \in Requests, LockProject(r) \/ LockObjective(r)
      PROVE  TypeOK'
  BY <1>2 DEF TypeOK, LockProject, LockObjective, ProjectFree, ObjectiveFree, PC
<1>3. ASSUME NEW r \in Requests, WriteTask(r)
      PROVE  TypeOK'
  <2> DEFINE p == call[r].project
  <2>1. p \in Projects /\ TasksAfter(r) \in [Tasks -> Row]
    BY CallShape, EffectType DEF TypeOK, TasksAfter
  <2>2. CASE Recomputes(r)
    <3>1. ProjectProgress(TasksAfter(r), p) \in Progress
      BY <1>3, <2>1, <2>2, ProjectProgressType DEF WriteTask, TaskCallSucceeds
    <3>2. /\ ProjectsSeenBy(r) \in [Projects -> Row]
          /\ \A q \in Projects : /\ ProjectsSeenBy(r)[q].weight = project[q].weight
                                 /\ ProjectsSeenBy(r)[q].status = project[q].status
      <4> DEFINE v == ProjectProgress(TasksAfter(r), p)
      <4>1. ProjectsSeenBy(r) = [project EXCEPT ![p].progress = v]
        BY DEF ProjectsSeenBy
      <4>2. project \in [Projects -> Row] /\ p \in Projects /\ v \in Progress
        BY <2>1, <3>1 DEF TypeOK
      <4> HIDE DEF p, v
      <4> QED
        BY <4>1, <4>2, ProgressLeavesGroup
    <3>3. CanRecomputeObjective(ProjectsSeenBy(r))
      BY <1>3, <2>2, <3>2, SameObjectiveGroup
      DEF WriteTask, TaskCallSucceeds, CanRecomputeObjective, TypeOK
    <3>4. ObjectiveExecution(ProjectsSeenBy(r)) \in Progress
      BY <3>2, <3>3, ObjectiveExecutionType
    <3> QED
      BY <1>3, <2>2, <3>1, <3>4 DEF WriteTask, TypeOK, PC
  <2>3. CASE ~Recomputes(r)
    BY <1>3, <2>3 DEF WriteTask, TypeOK, PC
  <2> QED
    BY <2>2, <2>3
<1>4. ASSUME NEW r \in Requests,
             RejectTask(r) \/ RejectProject(r) \/ RollBack(r) \/ BreakDeadlock(r)
      PROVE  TypeOK'
  BY <1>4, EndRequestType DEF TypeOK, RejectTask, RejectProject, RollBack, BreakDeadlock
<1>5. ASSUME NEW r \in Requests, CommitTask(r)
      PROVE  TypeOK'
  <2>1. TasksAfter(r) \in [Tasks -> Row] /\ call[r].project \in Projects
    BY CallShape, EffectType DEF TypeOK, TasksAfter
  <2>2. result[r].progress \in Progress /\ result[r].execution \in Progress
    BY DEF TypeOK
  <2>3. project' \in [Projects -> Row]
    BY <1>5, <2>1, <2>2, ProgressLeavesGroup DEF CommitTask, TypeOK
  <2> QED
    BY <1>5, <2>1, <2>2, <2>3, EndRequestType DEF CommitTask, TypeOK
<1>6. ASSUME NEW r \in Requests, CommitPlainUpdate(r)
      PROVE  TypeOK'
  <2>1. TasksAfter(r) \in [Tasks -> Row] /\ call[r].project \in Projects
    BY CallShape, EffectType DEF TypeOK, TasksAfter
  <2> QED
    BY <1>6, <2>1, EndRequestType DEF CommitPlainUpdate, TypeOK
<1>7. ASSUME NEW r \in Requests, WriteProject(r)
      PROVE  TypeOK'
  <2>1. ProjectsAfter(r) \in [Projects -> Row]
    BY EffectType DEF TypeOK, ProjectsAfter
  <2>2. Recomputes(r) => ObjectiveExecution(ProjectsAfter(r)) \in Progress
    BY <1>7, <2>1, ObjectiveExecutionType
    DEF WriteProject, ReachesProjectRows, ProjectCallSucceeds
  <2> QED
    BY <1>7, <2>2 DEF WriteProject, TypeOK, PC
<1>8. ASSUME NEW r \in Requests, CommitProject(r)
      PROVE  TypeOK'
  <2>1. ProjectsAfter(r) \in [Projects -> Row]
    BY EffectType DEF TypeOK, ProjectsAfter
  <2>2. WithoutTasks(doomed[r]) \in [Tasks -> Row]
    BY DEF TypeOK, WithoutTasks, Row, RowStatus
  <2>3. result[r].execution \in Progress
    BY DEF TypeOK
  <2>4. unvalidatedObjective' \in BOOLEAN
    BY <1>8 DEF CommitProject, TypeOK, WeightDiffers
  <2> QED
    BY <1>8, <2>1, <2>2, <2>3, <2>4, EndRequestType DEF CommitProject, TypeOK
<1>9. ASSUME NEW r \in Requests, MarkTasks(r)
      PROVE  TypeOK'
  BY <1>9 DEF MarkTasks, LiveTasks, TypeOK, PC
<1>10. CASE UNCHANGED vars
  BY <1>10 DEF TypeOK, vars
<1> QED
  BY <1>1, <1>2, <1>3, <1>4, <1>5, <1>6, <1>7, <1>8, <1>9, <1>10
  DEF Next, Begin, Acquire, Proceed

\* Every reachable state is well typed: in particular the two cached readings
\* are basis points, whatever the interleaving.
THEOREM TypeCorrectness == Spec => []TypeOK
BY InitType, NextType, PTL DEF Spec

-----------------------------------------------------------------------------
(***************************************************************************)
(* The reading of every project is exact.  What makes it so: the tasks of  *)
(* a project change only under its row lock, so what a transaction         *)
(* computed from them when it wrote still holds when it commits.           *)
(***************************************************************************)
InTask(r) == pc[r] \in {"work", "wrote"} /\ call[r].kind \in TaskKinds

\* The row lock that covers the tasks a transaction is about to change.
HoldsItsProject ==
    \A r \in Requests :
        /\ InTask(r) => projectLock[call[r].project] = r
        /\ pc[r] = "wrote" /\ call[r].kind = "deleteProject" =>
               projectLock[call[r].project] = r

\* The rows a task transaction has written are tasks of the locked project.
WritesItsProject ==
    \A r \in Requests :
        pc[r] = "wrote" /\ call[r].kind \in TaskKinds =>
            \A t \in DOMAIN call[r].weights : ParentOf[t] = call[r].project

\* The aggregate it computed is that of the rows it will leave.
ResultIsCurrent ==
    \A r \in Requests :
        pc[r] = "wrote" /\ call[r].kind \in TaskKinds /\ Recomputes(r) =>
            /\ CanRecomputeProject(TasksAfter(r), call[r].project)
            /\ result[r].progress = ProjectProgress(TasksAfter(r), call[r].project)

\* A project id is created once.
CreatesFreshProject ==
    \A r \in Requests :
        pc[r] # "idle" /\ call[r].kind = "createProject" =>
            /\ project[call[r].target].status = "absent"
            /\ \A q \in Requests :
                   pc[q] # "idle" /\ call[q].kind = "createProject" /\ q # r =>
                       call[q].target # call[r].target

\* A project that does not exist yet has no progress, no task and no caller.
AbsentIsEmpty ==
    \A p \in Projects : project[p].status = "absent" =>
        /\ project[p].progress = 0
        /\ LiveTasks(task, p) = {}
        /\ \A r \in Requests :
               pc[r] # "idle" /\ call[r].kind \in TaskKinds => call[r].project # p

\* A deletion names a project that was created.
DeletedExists ==
    \A r \in Requests :
        pc[r] # "idle" /\ call[r].kind = "deleteProject" =>
            project[call[r].target].status # "absent"

\* What a deletion deletes along with its project are tasks of that project.
DeletesItsTasks ==
    \A r \in Requests : /\ \A t \in doomed[r] : ParentOf[t] = call[r].project
                        /\ pc[r] = "idle" => doomed[r] = {}

ReadingInv ==
    /\ TypeOK
    /\ HoldsItsProject
    /\ WritesItsProject
    /\ ResultIsCurrent
    /\ CreatesFreshProject
    /\ DeletedExists
    /\ DeletesItsTasks
    /\ AbsentIsEmpty
    /\ ProjectReadingExact

(***************************************************************************)
(* The objective's group of projects changes only under the objective's    *)
(* row lock.                                                               *)
(***************************************************************************)
HoldsObjective ==
    \A r \in Requests :
        pc[r] \in {"work", "marked", "wrote"} /\ call[r].kind \in ProjectKinds =>
            objectiveLock = r

ObjectiveChecked ==
    \A r \in Requests :
        pc[r] = "wrote" /\ call[r].kind \in ProjectKinds /\ Recomputes(r) =>
            CanRecomputeObjective(ProjectsAfter(r))

GroupInv ==
    /\ TypeOK
    /\ HoldsObjective
    /\ ObjectiveChecked
    /\ ObjectiveGroupValid

\* A group without weights is valid.
LEMMA UnweightedIsValid ==
    ASSUME NEW w, \A x \in DOMAIN w : w[x] = NoWeight
    PROVE  ValidWeightGroup(w)
BY DEF ValidWeightGroup, WeightMode

\* What a call makes of a row depends on that row alone; a call that creates
\* and deletes nothing leaves the statuses as they are.
LEMMA EffectOnRow ==
    ASSUME NEW c, NEW Ids, NEW rows \in [Ids -> Row], NEW x \in Ids
    PROVE  /\ Effect(c, rows)[x].status = StatusAfter(c, x, rows[x].status)
           /\ Effect(c, rows)[x].weight =
                  IF x \in DOMAIN c.weights THEN c.weights[x] ELSE rows[x].weight
           /\ Effect(c, rows)[x].progress =
                  IF x = c.target /\ c.kind = "setProgress" THEN c.progress
                                                           ELSE rows[x].progress
BY DEF Effect

\* Two states of the projects with the same weights and statuses.
SameGroup(rows, after) ==
    \A q \in Projects : /\ after[q].weight = rows[q].weight
                        /\ after[q].status = rows[q].status

LEMMA EffectKeepsSameGroup ==
    ASSUME NEW c \in Calls, NEW rows \in [Projects -> Row],
           NEW after \in [Projects -> Row], SameGroup(rows, after)
    PROVE  SameGroup(Effect(c, rows), Effect(c, after))
BY EffectOnRow DEF SameGroup, StatusAfter

LEMMA SameGroupSameVerdict ==
    ASSUME NEW rows \in [Projects -> Row], NEW after \in [Projects -> Row],
           SameGroup(rows, after)
    PROVE  CanRecomputeObjective(rows) <=> CanRecomputeObjective(after)
BY SameObjectiveGroup DEF SameGroup, CanRecomputeObjective

LEMMA GroupInit == Init => GroupInv
<1> SUFFICES ASSUME Init PROVE GroupInv
  OBVIOUS
<1>1. TypeOK
  BY InitType
<1>2. HoldsObjective /\ ObjectiveChecked
  BY DEF Init, HoldsObjective, ObjectiveChecked
<1>3. \A p \in Projects : project[p].weight = NoWeight
  BY DEF Init, NewRow, NoRow
<1>4. \A p \in LiveProjects(project) :
          Weights(project, LiveProjects(project))[p] = NoWeight
  BY <1>3 DEF LiveProjects, Weights
<1>5. DOMAIN Weights(project, LiveProjects(project)) = LiveProjects(project)
  BY DEF Weights
<1>6. ObjectiveGroupValid
  BY <1>4, <1>5, UnweightedIsValid DEF ObjectiveGroupValid
<1> QED
  BY <1>1, <1>2, <1>6 DEF GroupInv

\* A step that keeps every weight and status of the projects, the calls of
\* the requests that wrote and the lock of the objective's holder.
LEMMA GroupUndisturbed ==
    ASSUME GroupInv, TypeOK', SameGroup(project, project'),
           unvalidatedObjective' = unvalidatedObjective,
           NEW r \in Requests,
           objectiveLock # r => objectiveLock' = objectiveLock,
           \A q \in Requests \ {r} : /\ pc'[q] = pc[q]
                                     /\ call'[q] = call[q]
                                     /\ weightChanged'[q] = weightChanged[q],
           pc'[r] \in {"work", "marked", "wrote"} /\ call'[r].kind \in ProjectKinds =>
               objectiveLock' = r,
           pc'[r] = "wrote" /\ call'[r].kind \in ProjectKinds =>
               /\ Recomputes(r)' => CanRecomputeObjective(ProjectsAfter(r))'
    PROVE  GroupInv'
<1>1. project \in [Projects -> Row] /\ project' \in [Projects -> Row]
  BY DEF TypeOK, GroupInv
<1>2. HoldsObjective'
  BY DEF GroupInv, HoldsObjective
<1>3. ASSUME NEW q \in Requests, (pc[q] = "wrote")', (call[q].kind \in ProjectKinds)',
             Recomputes(q)'
      PROVE  CanRecomputeObjective(ProjectsAfter(q))'
  <2>1. CASE q = r
    BY <1>3, <2>1
  <2>2. CASE q # r
    <3>1. call'[q] = call[q] /\ call[q] \in Calls
      BY <2>2 DEF GroupInv, TypeOK
    <3>2. CanRecomputeObjective(ProjectsAfter(q))
      BY <1>3, <2>2, <3>1 DEF GroupInv, ObjectiveChecked, Recomputes
    <3>3. SameGroup(ProjectsAfter(q), ProjectsAfter(q)')
      BY <1>1, <3>1, EffectKeepsSameGroup DEF ProjectsAfter
    <3>4. ProjectsAfter(q) \in [Projects -> Row] /\ ProjectsAfter(q)' \in [Projects -> Row]
      BY <1>1, <3>1, EffectType DEF ProjectsAfter
    <3>5. CanRecomputeObjective(ProjectsAfter(q)')
      BY <3>2, <3>3, <3>4, SameGroupSameVerdict
    <3> QED
      BY <3>5 DEF CanRecomputeObjective, LiveProjects
  <2> QED
    BY <2>1, <2>2
<1>4. ObjectiveChecked'
  BY <1>3 DEF ObjectiveChecked
<1>5. ObjectiveGroupValid'
  BY <1>1, SameGroupSameVerdict
  DEF GroupInv, ObjectiveGroupValid, CanRecomputeObjective
<1> QED
  BY <1>2, <1>4, <1>5 DEF GroupInv

\* A rollback, a refusal or the end of a transaction that left the group alone.
LEMMA GroupAfterEnd ==
    ASSUME GroupInv, TypeOK', NEW r \in Requests, EndRequest(r),
           SameGroup(project, project'),
           unvalidatedObjective' = unvalidatedObjective
    PROVE  GroupInv'
<1>1. pc'[r] = "idle"
  BY DEF GroupInv, TypeOK, EndRequest
<1>2. \A q \in Requests \ {r} : /\ pc'[q] = pc[q]
                               /\ call'[q] = call[q]
                               /\ weightChanged'[q] = weightChanged[q]
  BY DEF GroupInv, TypeOK, EndRequest
<1>3. objectiveLock # r => objectiveLock' = objectiveLock
  BY DEF EndRequest, ObjectiveReleased
<1> QED
  BY <1>1, <1>2, <1>3, GroupUndisturbed

LEMMA GroupNext == GroupInv /\ [Next]_vars => GroupInv'
<1> SUFFICES ASSUME GroupInv, [Next]_vars PROVE GroupInv'
  OBVIOUS
<1>0. TypeOK /\ TypeOK'
  BY NextType DEF GroupInv
<1> USE DEF database, locks, local, history
<1>1. ASSUME NEW r \in Requests, NEW c \in Calls, BeginTask(r, c) \/ BeginProject(r, c)
      PROVE  GroupInv'
  <2>1. /\ pc'[r] = "lock" /\ project' = project /\ objectiveLock' = objectiveLock
        /\ unvalidatedObjective' = unvalidatedObjective
    BY <1>0, <1>1 DEF BeginTask, BeginProject, TypeOK
  <2>2. \A q \in Requests \ {r} : /\ pc'[q] = pc[q] /\ call'[q] = call[q]
                                 /\ weightChanged'[q] = weightChanged[q]
    BY <1>0, <1>1 DEF BeginTask, BeginProject, TypeOK
  <2> QED
    BY <1>0, <2>1, <2>2, GroupUndisturbed DEF SameGroup
<1>2. ASSUME NEW r \in Requests, LockProject(r) \/ LockObjective(r)
      PROVE  GroupInv'
  <2>1. /\ pc'[r] = "work" /\ project' = project
        /\ unvalidatedObjective' = unvalidatedObjective
        /\ objectiveLock # r => objectiveLock' \in {objectiveLock, r}
        /\ call' = call /\ weightChanged' = weightChanged
        /\ call[r].kind \in ProjectKinds => objectiveLock' = r
    BY <1>0, <1>2 DEF LockProject, LockObjective, TypeOK, TaskKinds, ProjectKinds
  <2>2. \A q \in Requests \ {r} : pc'[q] = pc[q]
    BY <1>0, <1>2 DEF LockProject, LockObjective, TypeOK
  <2>3. objectiveLock # r /\ objectiveLock' # objectiveLock => objectiveLock = Nobody
    BY <1>2 DEF LockProject, LockObjective, ObjectiveFree
  <2>4. HoldsObjective'
    BY <2>1, <2>2, <2>3, NobodyAssumption DEF GroupInv, HoldsObjective
  <2>5. ObjectiveChecked'
    BY <2>1, <2>2 DEF GroupInv, ObjectiveChecked, Recomputes, ProjectsAfter,
                      CanRecomputeObjective, LiveProjects
  <2>6. ObjectiveGroupValid'
    BY <2>1 DEF GroupInv, ObjectiveGroupValid, LiveProjects
  <2> QED
    BY <1>0, <2>4, <2>5, <2>6 DEF GroupInv
<1>3. ASSUME NEW r \in Requests, WriteTask(r) \/ WriteProject(r)
      PROVE  GroupInv'
  <2>1. /\ project' = project /\ objectiveLock' = objectiveLock
        /\ unvalidatedObjective' = unvalidatedObjective
        /\ call' = call /\ weightChanged' = weightChanged
        /\ pc[r] \in {"work", "marked"} /\ pc'[r] = "wrote"
        /\ call[r].kind \in ProjectKinds => ProjectCallSucceeds(r)
    BY <1>0, <1>3
    DEF WriteTask, WriteProject, ReachesProjectRows, TypeOK, TaskKinds, ProjectKinds
  <2>2. \A q \in Requests \ {r} : pc'[q] = pc[q]
    BY <1>0, <1>3 DEF WriteTask, WriteProject, ReachesProjectRows, TypeOK
  <2>3. HoldsObjective'
    BY <2>1, <2>2 DEF GroupInv, HoldsObjective
  <2>4. ObjectiveChecked'
    BY <2>1, <2>2 DEF GroupInv, ObjectiveChecked, ProjectCallSucceeds, Recomputes,
                      ProjectsAfter, CanRecomputeObjective, LiveProjects
  <2>5. ObjectiveGroupValid'
    BY <2>1 DEF GroupInv, ObjectiveGroupValid, LiveProjects
  <2> QED
    BY <1>0, <2>3, <2>4, <2>5 DEF GroupInv
<1>4. ASSUME NEW r \in Requests,
             RejectTask(r) \/ RejectProject(r) \/ RollBack(r) \/ BreakDeadlock(r)
      PROVE  GroupInv'
  BY <1>0, <1>4, GroupAfterEnd
  DEF RejectTask, RejectProject, RollBack, BreakDeadlock, SameGroup
<1>5. ASSUME NEW r \in Requests, CommitTask(r)
      PROVE  GroupInv'
  <2>1. call[r].project \in Projects /\ result[r].progress \in Progress
    BY <1>0, CallShape DEF TypeOK
  <2>2. SameGroup(project, project')
    BY <1>0, <1>5, <2>1, ProgressLeavesGroup DEF SameGroup, CommitTask, TypeOK
  <2> QED
    BY <1>0, <1>5, <2>2, GroupAfterEnd DEF CommitTask
<1>6. ASSUME NEW r \in Requests, CommitPlainUpdate(r)
      PROVE  GroupInv'
  BY <1>0, <1>6, GroupAfterEnd DEF CommitPlainUpdate, SameGroup
<1>7. ASSUME NEW r \in Requests, CommitProject(r)
      PROVE  GroupInv'
  <2>1. /\ EndRequest(r) /\ project' = ProjectsAfter(r)
        /\ pc[r] = "wrote" /\ call[r].kind \in ProjectKinds
        /\ call[r] \in Calls /\ project \in [Projects -> Row]
    BY <1>0, <1>7 DEF CommitProject, TypeOK
  <2>2. objectiveLock = r
    BY <2>1 DEF GroupInv, HoldsObjective
  <2>3. \A q \in Requests : pc'[q] \in {"work", "marked", "wrote"} /\ call'[q].kind \in ProjectKinds
                                => q # r /\ pc[q] = pc'[q] /\ call[q] = call'[q]
    BY <1>0, <2>1 DEF EndRequest, TypeOK
  <2>4. \A q \in Requests : ~(pc'[q] \in {"work", "marked", "wrote"} /\ call'[q].kind \in ProjectKinds)
    BY <2>2, <2>3 DEF GroupInv, HoldsObjective
  <2>5. HoldsObjective' /\ ObjectiveChecked'
    BY <2>4 DEF HoldsObjective, ObjectiveChecked
  <2>6. ObjectiveGroupValid'
    <3>1. CASE Recomputes(r)
      <4>1. CanRecomputeObjective(ProjectsAfter(r))
        BY <2>1, <3>1 DEF GroupInv, ObjectiveChecked
      <4> QED
        BY <2>1, <4>1 DEF ObjectiveGroupValid, CanRecomputeObjective, LiveProjects
    <3>2. CASE ~Recomputes(r)
      <4>1. /\ call[r].kind \in Updates /\ DOMAIN call[r].weights = {call[r].target}
            /\ call[r].target \in Projects
        BY <2>1, <3>2, CallShape DEF Recomputes
      <4>2. CASE unvalidatedObjective'
        BY <4>2 DEF ObjectiveGroupValid
      <4>3. CASE ~unvalidatedObjective'
        <5>1. /\ ~unvalidatedObjective
              /\ project[call[r].target].status = "live" =>
                     call[r].weights[call[r].target] = project[call[r].target].weight
          BY <1>7, <3>2, <4>1, <4>3 DEF CommitProject, WeightDiffers
        <5>2. \A q \in Projects :
                 /\ project'[q].status = project[q].status
                 /\ project[q].status = "live" => project'[q].weight = project[q].weight
          BY <2>1, <4>1, <5>1, EffectOnRow
          DEF ProjectsAfter, StatusAfter, Updates, Creations, Deletions
        <5>3. LiveProjects(project') = LiveProjects(project)
          BY <5>2 DEF LiveProjects
        <5>4. Weights(project', LiveProjects(project')) =
                  Weights(project, LiveProjects(project))
          BY <5>2, <5>3 DEF LiveProjects, Weights
        <5> QED
          BY <5>1, <5>4 DEF GroupInv, ObjectiveGroupValid, LiveProjects
      <4> QED
        BY <4>2, <4>3
    <3> QED
      BY <3>1, <3>2
  <2> QED
    BY <1>0, <2>5, <2>6 DEF GroupInv
<1>8. ASSUME NEW r \in Requests, MarkTasks(r)
      PROVE  GroupInv'
  <2>1. /\ project' = project /\ objectiveLock' = objectiveLock
        /\ unvalidatedObjective' = unvalidatedObjective
        /\ call' = call /\ weightChanged' = weightChanged
        /\ pc[r] = "work" /\ pc'[r] = "marked"
    BY <1>0, <1>8 DEF MarkTasks, TypeOK
  <2>2. \A q \in Requests \ {r} : pc'[q] = pc[q]
    BY <1>0, <1>8 DEF MarkTasks, TypeOK
  <2>3. HoldsObjective'
    BY <2>1, <2>2 DEF GroupInv, HoldsObjective
  <2>4. ObjectiveChecked'
    BY <2>1, <2>2 DEF GroupInv, ObjectiveChecked, Recomputes, ProjectsAfter,
                      CanRecomputeObjective, LiveProjects
  <2>5. ObjectiveGroupValid'
    BY <2>1 DEF GroupInv, ObjectiveGroupValid, LiveProjects
  <2> QED
    BY <1>0, <2>3, <2>4, <2>5 DEF GroupInv
<1>9. CASE UNCHANGED vars
  <2>1. GroupInv' <=> GroupInv
    BY <1>9 DEF vars, GroupInv, TypeOK, HoldsObjective, ObjectiveChecked, Recomputes,
                ObjectiveGroupValid, ProjectsAfter, CanRecomputeObjective, LiveProjects
  <2> QED
    BY <2>1
<1> QED
  BY <1>1, <1>2, <1>3, <1>4, <1>5, <1>6, <1>7, <1>8, <1>9 DEF Next, Begin, Acquire, Proceed

\* RN-P6 for the projects of an objective (project.service.ts): whatever the
\* interleaving, the only way to an invalid group is an update that took a
\* new weight for the one it had read before its transaction.
THEOREM ObjectiveGroup == Spec => []ObjectiveGroupValid
<1>1. GroupInv => ObjectiveGroupValid
  BY DEF GroupInv
<1> QED
  BY <1>1, GroupInit, GroupNext, PTL DEF Spec

-----------------------------------------------------------------------------
\* Two states of the tasks that agree on the rows of project p.
SameTasks(p, rows, after) ==
    \A t \in Tasks : ParentOf[t] = p => /\ after[t].status = rows[t].status
                                       /\ after[t].weight = rows[t].weight
                                       /\ after[t].progress = rows[t].progress

\* The reading of a project depends on its live tasks.
LEMMA SameReading ==
    ASSUME NEW rows \in [Tasks -> Row], NEW after \in [Tasks -> Row], NEW p,
           \A t \in Tasks : ParentOf[t] = p =>
               /\ after[t].status = "live" <=> rows[t].status = "live"
               /\ rows[t].status = "live" => /\ after[t].weight = rows[t].weight
                                             /\ after[t].progress = rows[t].progress
    PROVE  /\ LiveTasks(after, p) = LiveTasks(rows, p)
           /\ Weights(after, LiveTasks(after, p)) = Weights(rows, LiveTasks(rows, p))
           /\ CanRecomputeProject(after, p) <=> CanRecomputeProject(rows, p)
           /\ ProjectProgress(after, p) = ProjectProgress(rows, p)
<1>1. LiveTasks(after, p) = LiveTasks(rows, p)
  BY DEF LiveTasks
<1>2. Weights(after, LiveTasks(after, p)) = Weights(rows, LiveTasks(rows, p))
  BY <1>1 DEF Weights, LiveTasks
<1>3. Items(after, LiveTasks(after, p)) = Items(rows, LiveTasks(rows, p))
  BY <1>1 DEF Items, LiveTasks
<1> QED
  BY <1>1, <1>2, <1>3 DEF CanRecomputeProject, ProjectProgress

LEMMA SameTasksSameReading ==
    ASSUME NEW rows \in [Tasks -> Row], NEW after \in [Tasks -> Row], NEW p,
           SameTasks(p, rows, after)
    PROVE  /\ LiveTasks(after, p) = LiveTasks(rows, p)
           /\ Weights(after, LiveTasks(after, p)) = Weights(rows, LiveTasks(rows, p))
           /\ CanRecomputeProject(after, p) <=> CanRecomputeProject(rows, p)
           /\ ProjectProgress(after, p) = ProjectProgress(rows, p)
BY SameReading DEF SameTasks

LEMMA EffectKeepsSameTasks ==
    ASSUME NEW c, NEW rows \in [Tasks -> Row], NEW after \in [Tasks -> Row], NEW p,
           SameTasks(p, rows, after)
    PROVE  SameTasks(p, Effect(c, rows), Effect(c, after))
BY EffectOnRow DEF SameTasks, StatusAfter

\* A call that writes tasks of its project only leaves those of the others.
LEMMA EffectElsewhere ==
    ASSUME NEW c \in Calls, c.kind \in TaskKinds,
           \A t \in DOMAIN c.weights : ParentOf[t] = c.project,
           NEW rows \in [Tasks -> Row], NEW p, p # c.project
    PROVE  SameTasks(p, rows, Effect(c, rows))
<1>1. c.kind # "setTaskWeights" => ParentOf[c.target] = c.project
  BY CallShape DEF Reweighings, TaskKinds
<1> QED
  BY <1>1, EffectOnRow
  DEF SameTasks, StatusAfter, TaskKinds, Creations, Deletions

\* A project without live tasks reads zero.
LEMMA EmptyReading ==
    ASSUME NEW rows \in [Tasks -> Row], NEW p,
           \A t \in LiveTasks(rows, p) : /\ rows[t].weight = NoWeight
                                         /\ rows[t].progress = 0
    PROVE  /\ ValidWeightGroup(Weights(rows, LiveTasks(rows, p)))
           /\ ProjectProgress(rows, p) = 0
<1> DEFINE S == LiveTasks(rows, p)
           g == Items(rows, S)
<1>1. S \in SUBSET Tasks
  BY DEF LiveTasks
<1>2. g \in [S -> Item] /\ \A t \in S : g[t].progress = 0
  BY <1>1 DEF Items, Item, Row
<1>3. [x \in S |-> g[x].weight] = Weights(rows, S)
  BY DEF Items, Weights
<1>4. /\ DOMAIN Weights(rows, S) = S
      /\ \A t \in S : Weights(rows, S)[t] = NoWeight
  BY DEF Weights
<1>5. ValidWeightGroup(Weights(rows, S))
  BY <1>4, UnweightedIsValid
<1> HIDE DEF S, g
<1>6. ProgressOf(g) = 0
  BY <1>1, <1>2, <1>3, <1>5, ProgressOfAssumption
<1> QED
  BY <1>5, <1>6 DEF ProjectProgress, S, g

LEMMA ReadingInit == Init => ReadingInv
<1> SUFFICES ASSUME Init PROVE ReadingInv
  OBVIOUS
<1>1. TypeOK
  BY InitType
<1>2. /\ HoldsItsProject /\ WritesItsProject /\ ResultIsCurrent
      /\ CreatesFreshProject /\ DeletedExists /\ DeletesItsTasks
  BY DEF Init, HoldsItsProject, WritesItsProject, ResultIsCurrent,
         CreatesFreshProject, DeletedExists, DeletesItsTasks, InTask
<1>3. \A t \in Tasks : task[t].weight = NoWeight /\ task[t].progress = 0
  BY DEF Init, NewRow, NoRow
<1>4. \A p \in Projects : project[p].progress = 0
  BY DEF Init, NewRow, NoRow
<1>5. AbsentIsEmpty
  <2>1. ASSUME NEW t \in Tasks, task[t].status = "live"
        PROVE  project[ParentOf[t]].status # "absent"
    BY <2>1, ParentAssumption DEF Init, NewRow, NoRow
  <2> QED
    BY <1>4, <2>1 DEF AbsentIsEmpty, LiveTasks, Init
<1>6. ProjectReadingExact
  <2>1. ASSUME NEW p \in Projects
        PROVE  /\ ValidWeightGroup(Weights(task, LiveTasks(task, p)))
               /\ ProjectProgress(task, p) = 0
    <3>1. \A t \in LiveTasks(task, p) : task[t].weight = NoWeight /\ task[t].progress = 0
      BY <1>3 DEF LiveTasks
    <3> QED
      BY <1>1, <3>1, EmptyReading DEF TypeOK
  <2> QED
    BY <1>4, <2>1 DEF ProjectReadingExact, LiveProjects
<1> QED
  BY <1>1, <1>2, <1>5, <1>6 DEF ReadingInv

\* What a step of request r leaves alone in the others.
OthersStay(r) ==
    /\ \A q \in Requests \ {r} : /\ pc'[q] = pc[q]
                                 /\ call'[q] = call[q]
                                 /\ weightChanged'[q] = weightChanged[q]
                                 /\ result'[q] = result[q]
                                 /\ doomed'[q] = doomed[q]
    /\ \A p \in Projects : projectLock[p] \in Requests \ {r} =>
                              projectLock'[p] = projectLock[p]

\* A step of request r outside the database, which settles its own case.
LEMMA ReadingUndisturbed ==
    ASSUME ReadingInv, TypeOK', NEW r \in Requests, OthersStay(r),
           task' = task, project' = project, unvalidated' = unvalidated,
           InTask(r)' => projectLock'[call'[r].project] = r,
           pc'[r] = "wrote" /\ call'[r].kind = "deleteProject" =>
               projectLock'[call'[r].project] = r,
           \A t \in doomed'[r] : ParentOf[t] = call'[r].project,
           pc'[r] = "idle" => doomed'[r] = {},
           pc'[r] = "wrote" /\ call'[r].kind \in TaskKinds =>
               /\ \A t \in DOMAIN call'[r].weights : ParentOf[t] = call'[r].project
               /\ Recomputes(r)' =>
                      /\ CanRecomputeProject(TasksAfter(r), call[r].project)'
                      /\ (result[r].progress =
                               ProjectProgress(TasksAfter(r), call[r].project))',
           pc'[r] # "idle" => \/ pc[r] # "idle" /\ call'[r] = call[r]
                              \/ /\ call'[r].kind \in TaskKinds
                                 /\ project[call'[r].project].status # "absent"
                              \/ /\ call'[r].kind \in ProjectKinds
                                 /\ call'[r].kind = "createProject" =>
                                        FreshId(call'[r], project)
                                 /\ call'[r].kind = "deleteProject" =>
                                        project[call'[r].target].status # "absent"
    PROVE  ReadingInv'
<1>1. HoldsItsProject'
  <2>1. ASSUME NEW q \in Requests
        PROVE  /\ InTask(q)' => projectLock'[call'[q].project] = q
               /\ pc'[q] = "wrote" /\ call'[q].kind = "deleteProject" =>
                      projectLock'[call'[q].project] = q
    <3>1. CASE q = r
      BY <3>1
    <3>2. CASE q # r
      <4>1. call[q].project \in Projects
        BY CallShape DEF ReadingInv, TypeOK
      <4> QED
        BY <3>2, <4>1 DEF ReadingInv, HoldsItsProject, InTask, OthersStay
    <3> QED
      BY <3>1, <3>2
  <2> QED
    BY <2>1 DEF HoldsItsProject
<1>2. WritesItsProject'
  BY DEF ReadingInv, WritesItsProject, OthersStay
<1>3. ResultIsCurrent'
  <2>1. ASSUME NEW q \in Requests, pc'[q] = "wrote", call'[q].kind \in TaskKinds,
               Recomputes(q)'
        PROVE  /\ CanRecomputeProject(TasksAfter(q), call[q].project)'
               /\ (result[q].progress = ProjectProgress(TasksAfter(q), call[q].project))'
    <3>1. CASE q = r
      BY <2>1, <3>1
    <3>2. CASE q # r
      <4>1. /\ pc[q] = "wrote" /\ call'[q] = call[q] /\ result'[q] = result[q]
            /\ weightChanged'[q] = weightChanged[q]
        BY <2>1, <3>2 DEF OthersStay
      <4>2. /\ CanRecomputeProject(TasksAfter(q), call[q].project)
            /\ result[q].progress = ProjectProgress(TasksAfter(q), call[q].project)
        BY <2>1, <4>1 DEF ReadingInv, ResultIsCurrent, Recomputes
      <4> QED
        BY <4>1, <4>2 DEF CanRecomputeProject, ProjectProgress, LiveTasks, TasksAfter
    <3> QED
      BY <3>1, <3>2
  <2> QED
    BY <2>1 DEF ResultIsCurrent
<1>4. CreatesFreshProject'
  <2>1. ASSUME NEW q \in Requests, pc'[q] # "idle", call'[q].kind = "createProject"
        PROVE  /\ project[call'[q].target].status = "absent"
               /\ \A s \in Requests :
                      pc'[s] # "idle" /\ call'[s].kind = "createProject" /\ s # q =>
                          call'[s].target # call'[q].target
    <3>1. \A s \in Requests : pc'[s] # "idle" /\ call'[s].kind = "createProject" =>
              \/ pc[s] # "idle" /\ call'[s] = call[s]
              \/ s = r /\ FreshId(call'[r], project)
      BY DEF OthersStay, TaskKinds
    <3>2. \A s \in Requests : pc[s] # "idle" /\ call[s].kind = "createProject" =>
              /\ project[call[s].target].status = "absent"
              /\ \A u \in Requests :
                     pc[u] # "idle" /\ call[u].kind = "createProject" /\ u # s =>
                         call[u].target # call[s].target
      BY DEF ReadingInv, CreatesFreshProject
    <3> QED
      BY <2>1, <3>1, <3>2 DEF FreshId, OthersStay
  <2> QED
    BY <2>1 DEF CreatesFreshProject
<1>5. AbsentIsEmpty'
  <2>1. ASSUME NEW q \in Requests, pc'[q] # "idle", call'[q].kind \in TaskKinds
        PROVE  project[call'[q].project].status # "absent"
    <3>1. \/ pc[q] # "idle" /\ call'[q] = call[q]
          \/ project[call'[q].project].status # "absent"
      BY <2>1 DEF OthersStay, TaskKinds, ProjectKinds
    <3>2. call[q].project \in Projects
      BY CallShape DEF ReadingInv, TypeOK
    <3> QED
      BY <2>1, <3>1, <3>2 DEF ReadingInv, AbsentIsEmpty
  <2> QED
    BY <2>1 DEF ReadingInv, AbsentIsEmpty, LiveTasks
<1>6. ProjectReadingExact'
  BY DEF ReadingInv, ProjectReadingExact, LiveProjects, LiveTasks, ProjectProgress
<1>7. DeletedExists'
  BY DEF ReadingInv, DeletedExists, OthersStay, TaskKinds
<1>8. DeletesItsTasks'
  BY DEF ReadingInv, DeletesItsTasks, OthersStay
<1> QED
  BY <1>1, <1>2, <1>3, <1>4, <1>5, <1>6, <1>7, <1>8 DEF ReadingInv

\* The end of a request leaves the others alone.
LEMMA EndLeavesOthers ==
    ASSUME TypeOK, NEW r \in Requests, EndRequest(r)
    PROVE  OthersStay(r) /\ pc'[r] = "idle" /\ doomed'[r] = {}
BY DEF TypeOK, EndRequest, OthersStay

\* A commit of request r: the tasks other transactions have locked stay.
LEMMA ReadingAfterCommit ==
    ASSUME ReadingInv, TypeOK', NEW r \in Requests, EndRequest(r),
           \A q \in Requests \ {r} : InTask(q) => SameTasks(call[q].project, task, task'),
           \A p \in Projects : project[p].status # "absent" =>
                                 project'[p].status # "absent",
           \A p \in Projects : project'[p].status = "absent" =>
                                 project'[p].progress = 0 /\ LiveTasks(task', p) = {},
           \A q \in Requests \ {r} : pc[q] # "idle" /\ call[q].kind = "createProject" =>
                                      project'[call[q].target].status = "absent",
           ProjectReadingExact'
    PROVE  ReadingInv'
<1>0. OthersStay(r) /\ pc'[r] = "idle" /\ doomed'[r] = {}
  BY EndLeavesOthers DEF ReadingInv
<1>1. HoldsItsProject'
  <2>1. ASSUME NEW q \in Requests
        PROVE  /\ InTask(q)' => projectLock'[call'[q].project] = q
               /\ pc'[q] = "wrote" /\ call'[q].kind = "deleteProject" =>
                      projectLock'[call'[q].project] = q
    <3>1. CASE q = r
      BY <1>0, <3>1 DEF InTask
    <3>2. CASE q # r
      <4>1. call[q].project \in Projects
        BY CallShape DEF ReadingInv, TypeOK
      <4> QED
        BY <1>0, <3>2, <4>1 DEF ReadingInv, HoldsItsProject, InTask, OthersStay
    <3> QED
      BY <3>1, <3>2
  <2> QED
    BY <2>1 DEF HoldsItsProject
<1>2. WritesItsProject'
  BY <1>0 DEF ReadingInv, WritesItsProject, OthersStay
<1>3. ResultIsCurrent'
  <2>1. ASSUME NEW q \in Requests, pc'[q] = "wrote", call'[q].kind \in TaskKinds,
               Recomputes(q)'
        PROVE  /\ CanRecomputeProject(TasksAfter(q), call[q].project)'
               /\ (result[q].progress = ProjectProgress(TasksAfter(q), call[q].project))'
    <3> DEFINE p == call[q].project
    <3>1. /\ q # r /\ pc[q] = "wrote" /\ call'[q] = call[q] /\ result'[q] = result[q]
          /\ weightChanged'[q] = weightChanged[q]
      BY <1>0, <2>1 DEF OthersStay
    <3>2. /\ CanRecomputeProject(TasksAfter(q), p)
          /\ result[q].progress = ProjectProgress(TasksAfter(q), p)
      BY <2>1, <3>1 DEF ReadingInv, ResultIsCurrent, Recomputes
    <3>3. SameTasks(p, task, task')
      BY <2>1, <3>1 DEF InTask
    <3>4. task \in [Tasks -> Row] /\ task' \in [Tasks -> Row] /\ call[q] \in Calls
      BY DEF ReadingInv, TypeOK
    <3>5. SameTasks(p, TasksAfter(q), TasksAfter(q)')
      BY <3>1, <3>3, <3>4, EffectKeepsSameTasks DEF TasksAfter
    <3>6. TasksAfter(q) \in [Tasks -> Row] /\ TasksAfter(q)' \in [Tasks -> Row]
      BY <3>1, <3>4, EffectType DEF TasksAfter
    <3>7. /\ CanRecomputeProject(TasksAfter(q)', p)
          /\ result[q].progress = ProjectProgress(TasksAfter(q)', p)
      BY <3>2, <3>5, <3>6, SameTasksSameReading
    <3> QED
      BY <3>1, <3>7 DEF CanRecomputeProject, ProjectProgress, LiveTasks
  <2> QED
    BY <2>1 DEF ResultIsCurrent
<1>4. CreatesFreshProject'
  BY <1>0 DEF ReadingInv, CreatesFreshProject, OthersStay
<1>5. AbsentIsEmpty'
  <2>1. ASSUME NEW q \in Requests, pc'[q] # "idle", call'[q].kind \in TaskKinds
        PROVE  project'[call'[q].project].status # "absent"
    <3>1. q # r /\ pc[q] # "idle" /\ call'[q] = call[q]
      BY <1>0, <2>1 DEF OthersStay
    <3>2. call[q].project \in Projects
      BY CallShape DEF ReadingInv, TypeOK
    <3> QED
      BY <2>1, <3>1, <3>2 DEF ReadingInv, AbsentIsEmpty
  <2> QED
    BY <2>1 DEF AbsentIsEmpty, LiveTasks
<1>6. DeletedExists'
  <2>1. \A q \in Requests : call[q].kind = "deleteProject" => call[q].target \in Projects
    BY CallShape DEF ReadingInv, TypeOK, TaskKinds, ProjectKinds
  <2> QED
    BY <1>0, <2>1 DEF ReadingInv, DeletedExists, OthersStay
<1>7. DeletesItsTasks'
  BY <1>0 DEF ReadingInv, DeletesItsTasks, OthersStay
<1> QED
  BY <1>1, <1>2, <1>3, <1>4, <1>5, <1>6, <1>7 DEF ReadingInv

\* What a task transaction writes, seen from the other transactions and from
\* the other projects.
LEMMA TaskCommitShape ==
    ASSUME ReadingInv, NEW r \in Requests, pc[r] = "wrote", call[r].kind \in TaskKinds,
           task' = TasksAfter(r)
    PROVE  /\ \A p \in Projects \ {call[r].project} : SameTasks(p, task, task')
           /\ \A q \in Requests \ {r} : InTask(q) => SameTasks(call[q].project, task, task')
           /\ project[call[r].project].status # "absent"
<1>1. /\ call[r] \in Calls /\ call[r].project \in Projects
      /\ task \in [Tasks -> Row]
  BY CallShape DEF ReadingInv, TypeOK
<1>2. \A t \in DOMAIN call[r].weights : ParentOf[t] = call[r].project
  BY DEF ReadingInv, WritesItsProject
<1>3. \A p \in Projects \ {call[r].project} : SameTasks(p, task, task')
  BY <1>1, <1>2, EffectElsewhere DEF TasksAfter
<1>4. ASSUME NEW q \in Requests \ {r}, InTask(q)
      PROVE  call[q].project \in Projects \ {call[r].project}
  <2>1. projectLock[call[q].project] = q /\ projectLock[call[r].project] = r
    BY <1>4 DEF ReadingInv, HoldsItsProject, InTask
  <2> QED
    BY <1>4, <2>1, CallShape DEF ReadingInv, TypeOK
<1> QED
  BY <1>1, <1>3, <1>4 DEF ReadingInv, AbsentIsEmpty

\* The commit of a task transaction, given what it does to its own project.
LEMMA ReadingAfterTaskCommit ==
    ASSUME ReadingInv, TypeOK', NEW r \in Requests, EndRequest(r), pc[r] = "wrote",
           call[r].kind \in TaskKinds, task' = TasksAfter(r),
           \A p \in Projects : project'[p].status = project[p].status,
           \A p \in Projects \ {call[r].project} : /\ project'[p] = project[p]
                                                   /\ p \in unvalidated => p \in unvalidated',
           call[r].project \in LiveProjects(project') \ unvalidated' =>
               /\ ValidWeightGroup(Weights(task', LiveTasks(task', call[r].project)))
               /\ project'[call[r].project].progress =
                      ProjectProgress(task', call[r].project)
    PROVE  ReadingInv'
<1>1. task \in [Tasks -> Row] /\ task' \in [Tasks -> Row]
  BY DEF ReadingInv, TypeOK
<1>2. \A p \in Projects \ {call[r].project} :
          /\ LiveTasks(task', p) = LiveTasks(task, p)
          /\ Weights(task', LiveTasks(task', p)) = Weights(task, LiveTasks(task, p))
          /\ ProjectProgress(task', p) = ProjectProgress(task, p)
  BY <1>1, TaskCommitShape, SameTasksSameReading
<1>3. ProjectReadingExact'
  <2>1. ASSUME NEW p \in LiveProjects(project') \ unvalidated'
        PROVE  /\ ValidWeightGroup(Weights(task', LiveTasks(task', p)))
               /\ project'[p].progress = ProjectProgress(task', p)
    <3>1. CASE p = call[r].project
      BY <2>1, <3>1
    <3>2. CASE p # call[r].project
      <4>1. p \in LiveProjects(project) \ unvalidated /\ project'[p] = project[p]
        BY <2>1, <3>2 DEF LiveProjects
      <4>2. p \in Projects \ {call[r].project}
        BY <3>2, <4>1 DEF LiveProjects
      <4> QED
        BY <1>2, <4>1, <4>2 DEF ReadingInv, ProjectReadingExact
    <3> QED
      BY <3>1, <3>2
  <2> QED
    BY <2>1 DEF ProjectReadingExact, LiveProjects, LiveTasks, ProjectProgress
<1>4. \A p \in Projects : project'[p].status = "absent" =>
          project'[p].progress = 0 /\ LiveTasks(task', p) = {}
  BY <1>2, TaskCommitShape DEF ReadingInv, AbsentIsEmpty
<1>5. \A q \in Requests \ {r} : pc[q] # "idle" /\ call[q].kind = "createProject" =>
          project'[call[q].target].status = "absent"
  BY CallShape DEF ReadingInv, CreatesFreshProject, TypeOK, ProjectKinds, TaskKinds
<1> QED
  BY <1>3, <1>4, <1>5, TaskCommitShape, ReadingAfterCommit

LEMMA ReadingAfterProjectCommit ==
    ASSUME ReadingInv, TypeOK', NEW r \in Requests, CommitProject(r)
    PROVE  ReadingInv'
<1> DEFINE c == call[r]
<1>1. /\ c \in Calls /\ c.kind \in ProjectKinds /\ c.target \in Projects
      /\ c.project = c.target /\ project' = ProjectsAfter(r)
      /\ EndRequest(r) /\ pc[r] = "wrote" /\ unvalidated' = unvalidated
      /\ task \in [Tasks -> Row] /\ task' \in [Tasks -> Row]
      /\ project \in [Projects -> Row]
  BY CallShape DEF CommitProject, ReadingInv, TypeOK
<1>2. c.kind # "deleteProject" => task' = task
  BY DEF CommitProject
<1>3. c.kind = "deleteProject" => task' = WithoutTasks(doomed[r])
  BY DEF CommitProject
<1>4. \A p \in Projects : project'[p].progress = project[p].progress
  BY <1>1, EffectOnRow DEF ProjectsAfter, ProjectKinds
<1>5. \A p \in Projects : project'[p].status = StatusAfter(c, p, project[p].status)
  BY <1>1, EffectOnRow DEF ProjectsAfter
<1>6. ASSUME NEW p \in Projects, c.kind = "deleteProject" => p # c.target
      PROVE  SameTasks(p, task, task')
  <2>1. CASE c.kind # "deleteProject"
    BY <1>2, <2>1 DEF SameTasks
  <2>2. CASE c.kind = "deleteProject"
    <3>1. \A t \in doomed[r] : ParentOf[t] # p
      BY <1>1, <1>6, <2>2 DEF ReadingInv, DeletesItsTasks
    <3>2. \A t \in Tasks : ParentOf[t] = p => task'[t] = task[t]
      BY <1>3, <2>2, <3>1 DEF WithoutTasks
    <3> QED
      BY <3>2 DEF SameTasks
  <2> QED
    BY <2>1, <2>2
<1>7. \A q \in Requests \ {r} : InTask(q) => SameTasks(call[q].project, task, task')
  <2>1. ASSUME NEW q \in Requests \ {r}, InTask(q)
        PROVE  SameTasks(call[q].project, task, task')
    <3>1. call[q].project \in Projects
      BY CallShape DEF ReadingInv, TypeOK
    <3>2. c.kind = "deleteProject" => call[q].project # c.target
      BY <1>1, <2>1 DEF ReadingInv, HoldsItsProject
    <3> QED
      BY <1>6, <3>1, <3>2
  <2> QED
    BY <2>1
<1>8. \A p \in Projects : project[p].status # "absent" => project'[p].status # "absent"
  BY <1>5 DEF StatusAfter
<1>9. \A p \in Projects : project'[p].status = "absent" =>
          project'[p].progress = 0 /\ LiveTasks(task', p) = {}
  <2>1. ASSUME NEW p \in Projects, project'[p].status = "absent"
        PROVE  project'[p].progress = 0 /\ LiveTasks(task', p) = {}
    <3>1. project[p].status = "absent"
      BY <1>8, <2>1
    <3>2. c.kind = "deleteProject" => p # c.target
      BY <1>5, <2>1 DEF StatusAfter, Creations, Deletions
    <3>3. LiveTasks(task', p) = LiveTasks(task, p)
      BY <1>1, <1>6, <3>2, SameTasksSameReading
    <3> QED
      BY <1>4, <3>1, <3>3 DEF ReadingInv, AbsentIsEmpty
  <2> QED
    BY <2>1
<1>10. \A q \in Requests \ {r} : pc[q] # "idle" /\ call[q].kind = "createProject" =>
           project'[call[q].target].status = "absent"
  <2>1. ASSUME NEW q \in Requests \ {r}, pc[q] # "idle", call[q].kind = "createProject"
        PROVE  project'[call[q].target].status = "absent"
    <3>1. /\ project[call[q].target].status = "absent"
          /\ c.kind = "createProject" => c.target # call[q].target
      BY <1>1, <2>1 DEF ReadingInv, CreatesFreshProject
    <3>2. call[q].target \in Projects
      BY <2>1, CallShape DEF ReadingInv, TypeOK, TaskKinds, ProjectKinds
    <3>3. c.kind = "deleteProject" /\ call[q].target = c.target => FALSE
      <4>1. SUFFICES ASSUME c.kind = "deleteProject", call[q].target = c.target
                     PROVE  FALSE
        OBVIOUS
      <4> QED
        BY <1>1, <3>1, <4>1 DEF ReadingInv, DeletedExists
    <3> QED
      BY <1>1, <1>5, <3>1, <3>2, <3>3
      DEF StatusAfter, Creations, Deletions, ProjectKinds
  <2> QED
    BY <2>1
<1>11. ProjectReadingExact'
  <2>1. ASSUME NEW p \in LiveProjects(project') \ unvalidated'
        PROVE  /\ ValidWeightGroup(Weights(task', LiveTasks(task', p)))
               /\ project'[p].progress = ProjectProgress(task', p)
    <3>1. p \in Projects /\ p \notin unvalidated /\ project'[p].status = "live"
      BY <1>1, <2>1 DEF LiveProjects
    <3>2. c.kind = "deleteProject" => p # c.target
      BY <1>5, <3>1 DEF StatusAfter, Creations, Deletions
    <3>3. SameTasks(p, task, task')
      BY <1>6, <3>1, <3>2
    <3>4. CASE project[p].status = "live"
      <4>1. /\ ValidWeightGroup(Weights(task, LiveTasks(task, p)))
            /\ project[p].progress = ProjectProgress(task, p)
        BY <3>1, <3>4 DEF ReadingInv, ProjectReadingExact, LiveProjects
      <4> QED
        BY <1>1, <1>4, <3>1, <3>3, <4>1, SameTasksSameReading
    <3>5. CASE project[p].status # "live"
      <4>1. c.kind = "createProject" /\ p = c.target
        BY <1>1, <1>5, <3>1, <3>5 DEF StatusAfter, Creations, ProjectKinds
      <4>2. project[p].status = "absent"
        BY <1>1, <4>1 DEF ReadingInv, CreatesFreshProject
      <4>3. project[p].progress = 0 /\ LiveTasks(task, p) = {}
        BY <3>1, <4>2 DEF ReadingInv, AbsentIsEmpty
      <4>4. LiveTasks(task', p) = {}
        BY <1>1, <3>3, <4>3, SameTasksSameReading
      <4> QED
        BY <1>1, <1>4, <3>1, <4>3, <4>4, EmptyReading
    <3> QED
      BY <3>4, <3>5
  <2> QED
    BY <2>1 DEF ProjectReadingExact, LiveProjects, LiveTasks, ProjectProgress
<1> QED
  BY <1>1, <1>7, <1>8, <1>9, <1>10, <1>11, ReadingAfterCommit

LEMMA ReadingNext == ReadingInv /\ [Next]_vars => ReadingInv'
<1> SUFFICES ASSUME ReadingInv, [Next]_vars PROVE ReadingInv'
  OBVIOUS
<1>0. TypeOK /\ TypeOK'
  BY NextType DEF ReadingInv
<1> USE DEF database, locks, local, history
<1>1. ASSUME NEW r \in Requests, NEW c \in Calls, BeginTask(r, c) \/ BeginProject(r, c)
      PROVE  ReadingInv'
  <2>1. /\ OthersStay(r) /\ pc'[r] = "lock" /\ call'[r] = c
        /\ \A t \in doomed'[r] : ParentOf[t] = c.project
        /\ task' = task /\ project' = project /\ unvalidated' = unvalidated
    BY <1>0, <1>1
    DEF BeginTask, BeginProject, TypeOK, OthersStay, ReadingInv, DeletesItsTasks
  <2>2. CASE BeginTask(r, c)
    <3>1. c.kind \in TaskKinds /\ c.project \in Projects
      BY <2>2, CallShape DEF BeginTask
    <3>2. CASE c.kind \in {"createTask", "setTaskWeights"}
      BY <1>0, <2>1, <2>2, <3>1, <3>2, ReadingUndisturbed DEF BeginTask, InTask
    <3>3. CASE c.kind \notin {"createTask", "setTaskWeights"}
      <4>1. task[c.target].status = "live" /\ c.target \in LiveTasks(task, c.project)
        BY <2>2, <3>1, <3>3, CallShape DEF BeginTask, LiveTasks, Reweighings, TaskKinds
      <4>2. project[c.project].status # "absent"
        BY <3>1, <4>1 DEF ReadingInv, AbsentIsEmpty
      <4> QED
        BY <1>0, <2>1, <3>1, <4>2, ReadingUndisturbed DEF InTask
    <3> QED
      BY <3>2, <3>3
  <2>3. CASE BeginProject(r, c)
    <3>1. /\ c.kind \in ProjectKinds
          /\ c.kind = "createProject" => FreshId(c, project)
          /\ c.kind = "deleteProject" => project[c.target].status # "absent"
      BY <2>3 DEF BeginProject
    <3> QED
      BY <1>0, <2>1, <3>1, ReadingUndisturbed DEF InTask
  <2> QED
    BY <1>1, <2>2, <2>3
<1>2. ASSUME NEW r \in Requests, LockProject(r) \/ LockObjective(r)
      PROVE  ReadingInv'
  <2>1. /\ pc[r] = "lock" /\ pc'[r] = "work" /\ call'[r] = call[r]
        /\ \A t \in doomed'[r] : ParentOf[t] = call[r].project
        /\ task' = task /\ project' = project /\ unvalidated' = unvalidated
    BY <1>0, <1>2 DEF LockProject, LockObjective, TypeOK, ReadingInv, DeletesItsTasks
  <2>2. call[r].kind \in TaskKinds => projectLock'[call[r].project] = r
    BY <1>0, <1>2, CallShape DEF LockProject, LockObjective, TypeOK, TaskKinds, ProjectKinds
  <2>3. OthersStay(r)
    BY <1>0, <1>2, NobodyAssumption DEF LockProject, ProjectFree, LockObjective, TypeOK, OthersStay
  <2> QED
    BY <1>0, <2>1, <2>2, <2>3, ReadingUndisturbed DEF InTask
<1>3. ASSUME NEW r \in Requests, WriteTask(r)
      PROVE  ReadingInv'
  <2>1. /\ pc[r] = "work" /\ pc'[r] = "wrote" /\ call' = call /\ task' = task
        /\ project' = project /\ projectLock' = projectLock
        /\ unvalidated' = unvalidated /\ weightChanged' = weightChanged
        /\ call[r].kind \in TaskKinds /\ TaskCallSucceeds(r)
        /\ call[r] \in Calls
        /\ \A t \in doomed'[r] : ParentOf[t] = call[r].project
    BY <1>0, <1>3 DEF WriteTask, TypeOK, ReadingInv, DeletesItsTasks
  <2>2. OthersStay(r)
    BY <1>0, <1>3 DEF WriteTask, TypeOK, OthersStay
  <2>3. \A t \in DOMAIN call[r].weights : ParentOf[t] = call[r].project
    <3>1. CASE call[r].kind = "setTaskWeights"
      <4>1. DOMAIN call[r].weights = LiveTasks(task, call[r].project)
        BY <2>1, <3>1 DEF TaskCallSucceeds, Accepts, SameSiblingSet, Reweighings
      <4> QED
        BY <4>1 DEF LiveTasks
    <3>2. CASE call[r].kind # "setTaskWeights"
      BY <2>1, <3>2, CallShape DEF Reweighings, TaskKinds
    <3> QED
      BY <3>1, <3>2
  <2>4. projectLock[call[r].project] = r
    BY <2>1 DEF ReadingInv, HoldsItsProject, InTask
  <2>5. Recomputes(r) =>
            /\ CanRecomputeProject(TasksAfter(r), call[r].project)
            /\ result'[r].progress = ProjectProgress(TasksAfter(r), call[r].project)
    BY <1>0, <1>3 DEF WriteTask, TaskCallSucceeds, TypeOK
  <2>6. Recomputes(r)' => /\ CanRecomputeProject(TasksAfter(r), call[r].project)'
                          /\ (result[r].progress =
                                   ProjectProgress(TasksAfter(r), call[r].project))'
    BY <2>1, <2>5 DEF Recomputes, TasksAfter, CanRecomputeProject, ProjectProgress, LiveTasks
  <2> QED
    BY <1>0, <2>1, <2>2, <2>3, <2>4, <2>6, ReadingUndisturbed DEF TaskKinds, InTask
<1>4. ASSUME NEW r \in Requests,
             RejectTask(r) \/ RejectProject(r) \/ RollBack(r) \/ BreakDeadlock(r)
      PROVE  ReadingInv'
  <2>1. EndRequest(r) /\ task' = task /\ project' = project /\ unvalidated' = unvalidated
    BY <1>4 DEF RejectTask, RejectProject, RollBack, BreakDeadlock
  <2> QED
    BY <1>0, <2>1, EndLeavesOthers, ReadingUndisturbed DEF InTask
<1>5. ASSUME NEW r \in Requests, CommitTask(r)
      PROVE  ReadingInv'
  <2> DEFINE p == call[r].project
  <2>1. /\ EndRequest(r) /\ pc[r] = "wrote" /\ call[r].kind \in TaskKinds
        /\ Recomputes(r) /\ task' = TasksAfter(r) /\ p \in Projects
        /\ unvalidated' = unvalidated \ {p}
    BY <1>0, <1>5, CallShape DEF CommitTask, TypeOK
  <2>2. /\ \A q \in Projects : project'[q].status = project[q].status
        /\ \A q \in Projects \ {p} : project'[q] = project[q]
        /\ project'[p].progress = result[r].progress
    BY <1>0, <1>5, <2>1 DEF CommitTask, TypeOK, Row
  <2>3. /\ ValidWeightGroup(Weights(task', LiveTasks(task', p)))
        /\ project'[p].progress = ProjectProgress(task', p)
    BY <2>1, <2>2 DEF ReadingInv, ResultIsCurrent, CanRecomputeProject
  <2> HIDE DEF p
  <2>4. \A q \in Projects \ {p} : q \in unvalidated => q \in unvalidated'
    BY <2>1
  <2> QED
    BY <1>0, <2>1, <2>2, <2>3, <2>4, ReadingAfterTaskCommit DEF p
<1>6. ASSUME NEW r \in Requests, CommitPlainUpdate(r)
      PROVE  ReadingInv'
  <2> DEFINE c == call[r]
             p == call[r].project
  <2>1. /\ EndRequest(r) /\ pc[r] = "wrote" /\ c.kind \in TaskKinds
        /\ ~Recomputes(r) /\ task' = TasksAfter(r) /\ p \in Projects
        /\ project' = project /\ unvalidated \subseteq unvalidated'
        /\ task \in [Tasks -> Row] /\ task' \in [Tasks -> Row]
    BY <1>0, <1>6, CallShape DEF CommitPlainUpdate, TypeOK
  <2>2. c.kind \in Updates /\ DOMAIN c.weights = {c.target} /\ c.target \in Tasks
    BY <1>0, <2>1, CallShape DEF Recomputes, TypeOK
  <2>3. ASSUME p \in LiveProjects(project') \ unvalidated'
        PROVE  /\ ValidWeightGroup(Weights(task', LiveTasks(task', p)))
               /\ project'[p].progress = ProjectProgress(task', p)
    <3>1. task[c.target].status = "live" => c.weights[c.target] = task[c.target].weight
      BY <1>6, <2>2, <2>3 DEF CommitPlainUpdate, WeightDiffers
    <3>2. \A t \in Tasks :
             /\ task'[t].status = task[t].status
             /\ task'[t].progress = task[t].progress
             /\ task[t].status = "live" => task'[t].weight = task[t].weight
      BY <2>1, <2>2, <3>1, EffectOnRow
      DEF TasksAfter, StatusAfter, Updates, Creations, Deletions
    <3>3. p \in LiveProjects(project) \ unvalidated
      BY <2>1, <2>3
    <3>4. /\ ValidWeightGroup(Weights(task, LiveTasks(task, p)))
          /\ project[p].progress = ProjectProgress(task, p)
      BY <3>3 DEF ReadingInv, ProjectReadingExact
    <3> QED
      BY <2>1, <3>2, <3>4, SameReading
  <2> QED
    BY <1>0, <2>1, <2>3, ReadingAfterTaskCommit
<1>7. ASSUME NEW r \in Requests, WriteProject(r)
      PROVE  ReadingInv'
  <2>1. /\ pc[r] # "idle" /\ pc'[r] = "wrote" /\ call' = call /\ task' = task
        /\ project' = project /\ unvalidated' = unvalidated
        /\ call[r].kind \in ProjectKinds /\ call[r] \in Calls
        /\ \A t \in doomed'[r] : ParentOf[t] = call[r].project
    BY <1>0, <1>7
    DEF WriteProject, ReachesProjectRows, TypeOK, ReadingInv, DeletesItsTasks
  <2>2. OthersStay(r)
    BY <1>0, <1>7, NobodyAssumption DEF WriteProject, ProjectFree, TypeOK, OthersStay
  <2>3. call[r].kind = "deleteProject" => projectLock'[call[r].project] = r
    <3>1. call[r].kind = "deleteProject" => call[r].project \in RowsUpdated(r)
      BY <2>1, CallShape DEF RowsUpdated, Deletions
    <3>2. RowsUpdated(r) \subseteq Projects
      BY DEF RowsUpdated
    <3> QED
      BY <1>7, <3>1, <3>2 DEF WriteProject
  <2>4. call[r].kind \notin TaskKinds
    BY <2>1 DEF TaskKinds, ProjectKinds
  <2> QED
    BY <1>0, <2>1, <2>2, <2>3, <2>4, ReadingUndisturbed DEF InTask
<1>8. ASSUME NEW r \in Requests, CommitProject(r)
      PROVE  ReadingInv'
  BY <1>0, <1>8, ReadingAfterProjectCommit
<1>9. ASSUME NEW r \in Requests, MarkTasks(r)
      PROVE  ReadingInv'
  <2>1. /\ pc[r] = "work" /\ pc'[r] = "marked" /\ call' = call /\ task' = task
        /\ project' = project /\ unvalidated' = unvalidated
        /\ call[r].kind = "deleteProject" /\ call[r] \in Calls
    BY <1>0, <1>9 DEF MarkTasks, TypeOK
  <2>2. OthersStay(r)
    BY <1>0, <1>9 DEF MarkTasks, TypeOK, OthersStay
  <2>3. call[r].project = call[r].target
    BY <2>1, CallShape DEF ProjectKinds
  <2>4. \A t \in doomed'[r] : ParentOf[t] = call[r].project
    BY <1>0, <1>9, <2>3 DEF MarkTasks, TypeOK, LiveTasks
  <2> QED
    BY <1>0, <2>1, <2>2, <2>4, ReadingUndisturbed DEF InTask
<1>10. CASE UNCHANGED vars
  <2>1. ReadingInv' <=> ReadingInv
    BY <1>10 DEF vars, ReadingInv, TypeOK, HoldsItsProject, WritesItsProject,
                ResultIsCurrent, CreatesFreshProject, DeletedExists, DeletesItsTasks, AbsentIsEmpty,
                ProjectReadingExact, InTask, Recomputes, TasksAfter,
                CanRecomputeProject, ProjectProgress, LiveProjects, LiveTasks
  <2> QED
    BY <2>1
<1> QED
  BY <1>1, <1>2, <1>3, <1>4, <1>5, <1>6, <1>7, <1>8, <1>9, <1>10
  DEF Next, Begin, Acquire, Proceed

\* RN-P6 and RN-P8 for the tasks of a project (task.service.ts): whatever the
\* interleaving of requests, rollbacks and deadlocks, the cached progress of
\* a live project is the aggregate of its live tasks, which form a valid
\* weight group, unless an update wrote a weight it took for unchanged.
THEOREM ProjectReading == Spec => []ProjectReadingExact
<1>1. ReadingInv => ProjectReadingExact
  BY DEF ReadingInv
<1> QED
  BY <1>1, ReadingInit, ReadingNext, PTL DEF Spec

-----------------------------------------------------------------------------
(***************************************************************************)
(* One request after another.                                              *)
(*                                                                         *)
(* Without a second request, what an update read before its transaction is *)
(* what it finds in it, so no weight escapes validation, and the aggregate *)
(* of the objective is computed from the rows it is written beside.        *)
(***************************************************************************)

\* No two requests are ever open together.
OneAtATime == \A r, q \in Requests : pc[r] # "idle" /\ pc[q] # "idle" => r = q

\* What the only open request has read and computed still holds of the rows.
ReadsAreFresh ==
    \A r \in Requests : pc[r] # "idle" =>
        /\ weightChanged[r] =
               WeightDiffers(call[r], IF call[r].kind \in TaskKinds THEN task ELSE project)
        /\ call[r].kind = "createTask" => project[call[r].project].status = "live"
        /\ pc[r] = "wrote" /\ call[r].kind = "deleteProject" =>
               doomed[r] = LiveTasks(task, call[r].target)
        /\ pc[r] = "marked" =>
               doomed[r] = LiveTasks(task, call[r].target)
        /\ pc[r] = "wrote" /\ Recomputes(r) =>
               result[r].execution = IF call[r].kind \in TaskKinds
                                     THEN ObjectiveExecution(ProjectsSeenBy(r))
                                     ELSE ObjectiveExecution(ProjectsAfter(r))

\* With it no weight goes unvalidated, and the reading of the objective and the
\* tasks of deleted projects are right.
SequentialInv ==
    /\ ReadsAreFresh
    /\ ObjectiveReadingExact
    /\ NoTaskOutlivesItsProject
    /\ unvalidated = {}
    /\ ~unvalidatedObjective

\* At the start nobody has progress.
LEMMA SequentialInit == Init => SequentialInv
<1> SUFFICES ASSUME Init PROVE SequentialInv
  OBVIOUS
<1>1. ReadsAreFresh
  BY DEF Init, ReadsAreFresh
<1>2. ObjectiveReadingExact
  <2> DEFINE S == LiveProjects(project)
             g == Items(project, S)
  <2>1. S \in SUBSET Projects
    BY DEF LiveProjects
  <2>2. \A p \in Projects : project[p].weight = NoWeight /\ project[p].progress = 0
    BY DEF Init, NewRow, NoRow
  <2>3. g \in [S -> Item] /\ \A p \in S : g[p].progress = 0 /\ g[p].weight = NoWeight
    BY <2>1, <2>2, RowTypes DEF Items, Item
  <2>4. ValidWeightGroup([p \in S |-> g[p].weight])
    BY <2>3, UnweightedIsValid
  <2> HIDE DEF S, g
  <2>5. ProgressOf(g) = 0
    BY <2>1, <2>3, <2>4, ProgressOfAssumption
  <2> QED
    BY <2>5 DEF ObjectiveReadingExact, ObjectiveExecution, S, g, Init
<1>3. NoTaskOutlivesItsProject
  BY ParentAssumption DEF Init, NoTaskOutlivesItsProject, NewRow, NoRow
<1> QED
  BY <1>1, <1>2, <1>3 DEF Init, SequentialInv

\* A step of the only open request that commits nothing.
LEMMA FreshWhileOpen ==
    ASSUME SequentialInv, OneAtATime', NEW r \in Requests, pc'[r] # "idle",
           UNCHANGED <<database, history>>,
           /\ (weightChanged[r] = WeightDiffers(call[r],
                  IF call[r].kind \in TaskKinds THEN task ELSE project))'
           /\ (call[r].kind = "createTask" => project[call[r].project].status = "live")'
           /\ (pc[r] = "wrote" /\ call[r].kind = "deleteProject" =>
                   doomed[r] = LiveTasks(task, call[r].target))'
           /\ (pc[r] = "marked" => doomed[r] = LiveTasks(task, call[r].target))'
           /\ (pc[r] = "wrote" /\ Recomputes(r) =>
                   result[r].execution = IF call[r].kind \in TaskKinds
                                         THEN ObjectiveExecution(ProjectsSeenBy(r))
                                         ELSE ObjectiveExecution(ProjectsAfter(r)))'
    PROVE  SequentialInv'
<1>1. \A q \in Requests : pc'[q] # "idle" => q = r
  BY DEF OneAtATime
<1>2. ReadsAreFresh'
  BY <1>1 DEF ReadsAreFresh
<1>3. ObjectiveReadingExact' /\ NoTaskOutlivesItsProject'
  BY DEF SequentialInv, ObjectiveReadingExact, NoTaskOutlivesItsProject, database,
         ObjectiveExecution, LiveProjects
<1> QED
  BY <1>2, <1>3 DEF SequentialInv, history

\* Once the only open request ends, nothing is read any more.
LEMMA FreshAfterEnd ==
    ASSUME TypeOK, OneAtATime, NEW r \in Requests, pc[r] # "idle", EndRequest(r)
    PROVE  ReadsAreFresh'
<1>1. \A q \in Requests : pc'[q] = "idle"
  BY DEF TypeOK, OneAtATime, EndRequest
<1> QED
  BY <1>1 DEF ReadsAreFresh

\* Every step of the only open request keeps it.
LEMMA SequentialNext ==
    ReadingInv /\ SequentialInv /\ OneAtATime /\ OneAtATime' /\ [Next]_vars => SequentialInv'
<1> SUFFICES ASSUME ReadingInv, SequentialInv, OneAtATime, OneAtATime', [Next]_vars
             PROVE  SequentialInv'
  OBVIOUS
<1>0. TypeOK /\ TypeOK'
  BY NextType DEF ReadingInv
<1> USE DEF database, locks, local, history
<1>1. ASSUME NEW r \in Requests, NEW c \in Calls, BeginTask(r, c) \/ BeginProject(r, c)
      PROVE  SequentialInv'
  <2>1. /\ UNCHANGED <<database, history>> /\ pc'[r] = "lock" /\ call'[r] = c
        /\ c.kind = "createTask" => project[c.project].status = "live"
    BY <1>0, <1>1 DEF BeginTask, BeginProject, TypeOK, TaskKinds, ProjectKinds
  <2>2. weightChanged'[r] = WeightDiffers(c, IF c.kind \in TaskKinds THEN task ELSE project)
    BY <1>0, <1>1 DEF BeginTask, BeginProject, TypeOK, TaskKinds, ProjectKinds
  <2>3. (weightChanged[r] = WeightDiffers(call[r],
             IF call[r].kind \in TaskKinds THEN task ELSE project))'
    BY <2>1, <2>2
  <2> QED
    BY <2>1, <2>3, FreshWhileOpen
<1>2. ASSUME NEW r \in Requests, LockProject(r) \/ LockObjective(r)
      PROVE  SequentialInv'
  <2>1. /\ UNCHANGED <<database, history>> /\ pc[r] = "lock" /\ pc'[r] = "work"
        /\ call' = call /\ weightChanged' = weightChanged
    BY <1>0, <1>2 DEF LockProject, LockObjective, TypeOK
  <2> QED
    BY <2>1, FreshWhileOpen DEF SequentialInv, ReadsAreFresh
<1>3. ASSUME NEW r \in Requests, WriteTask(r)
      PROVE  SequentialInv'
  <2>1. /\ UNCHANGED <<database, history>> /\ pc[r] = "work" /\ pc'[r] = "wrote"
        /\ call' = call /\ weightChanged' = weightChanged
        /\ call[r].kind \in TaskKinds
    BY <1>0, <1>3 DEF WriteTask, TypeOK
  <2>2. Recomputes(r) => result'[r].execution = ObjectiveExecution(ProjectsSeenBy(r))
    BY <1>0, <1>3 DEF WriteTask, TypeOK
  <2>3. (Recomputes(r) => result[r].execution = ObjectiveExecution(ProjectsSeenBy(r)))'
    BY <2>1, <2>2 DEF Recomputes, ProjectsSeenBy, TasksAfter, ObjectiveExecution,
                      LiveProjects, ProjectProgress, LiveTasks
  <2> QED
    BY <2>1, <2>3, FreshWhileOpen DEF SequentialInv, ReadsAreFresh, TaskKinds
<1>4. ASSUME NEW r \in Requests,
             RejectTask(r) \/ RejectProject(r) \/ RollBack(r) \/ BreakDeadlock(r)
      PROVE  SequentialInv'
  <2>1. UNCHANGED <<database, history>> /\ pc[r] # "idle" /\ EndRequest(r)
    BY <1>4 DEF RejectTask, RejectProject, RollBack, BreakDeadlock, WaitCycle,
                ReachesProjectRows
  <2>2. ReadsAreFresh'
    BY <1>0, <2>1, FreshAfterEnd
  <2> QED
    BY <2>1, <2>2 DEF SequentialInv, ObjectiveReadingExact, NoTaskOutlivesItsProject,
                      ObjectiveExecution, LiveProjects
<1>5. ASSUME NEW r \in Requests, CommitTask(r)
      PROVE  SequentialInv'
  <2> DEFINE c == call[r]
             p == call[r].project
  <2>1. /\ EndRequest(r) /\ pc[r] = "wrote" /\ c.kind \in TaskKinds /\ Recomputes(r)
        /\ task' = TasksAfter(r) /\ execution' = result[r].execution
        /\ project' = [project EXCEPT ![p].progress = result[r].progress]
        /\ unvalidated' = unvalidated \ {p} /\ unvalidatedObjective' = unvalidatedObjective
        /\ c \in Calls /\ p \in Projects
    BY <1>0, <1>5, CallShape DEF CommitTask, TypeOK
  <2>2. ReadsAreFresh'
    BY <1>0, <2>1, FreshAfterEnd
  <2>3. project' = ProjectsSeenBy(r)
    BY <2>1 DEF ReadingInv, ResultIsCurrent, ProjectsSeenBy
  <2>4. result[r].execution = ObjectiveExecution(ProjectsSeenBy(r))
    BY <2>1 DEF SequentialInv, ReadsAreFresh
  <2>5. ObjectiveReadingExact'
    BY <2>1, <2>3, <2>4 DEF ObjectiveReadingExact, ObjectiveExecution, LiveProjects
  <2>6. \A q \in Projects : project'[q].status = project[q].status
    BY <1>0, <2>1 DEF TypeOK, Row
  <2>7. NoTaskOutlivesItsProject'
    <3>1. ASSUME NEW t \in Tasks, task'[t].status = "live"
          PROVE  project[ParentOf[t]].status = "live"
      <4>1. CASE task[t].status = "live"
        BY <4>1 DEF SequentialInv, NoTaskOutlivesItsProject
      <4>2. CASE task[t].status # "live"
        <5>1. c.kind = "createTask" /\ t = c.target
          BY <1>0, <2>1, <3>1, <4>2, EffectOnRow
          DEF TypeOK, TasksAfter, StatusAfter, Creations, TaskKinds
        <5> QED
          BY <2>1, <5>1, CallShape DEF SequentialInv, ReadsAreFresh, Reweighings, TaskKinds
      <4> QED
        BY <4>1, <4>2
    <3>2. \A t \in Tasks : ParentOf[t] \in Projects
      BY ParentAssumption
    <3> QED
      BY <2>6, <3>1, <3>2 DEF NoTaskOutlivesItsProject
  <2> QED
    BY <2>1, <2>2, <2>5, <2>7 DEF SequentialInv
<1>6. ASSUME NEW r \in Requests, CommitPlainUpdate(r)
      PROVE  SequentialInv'
  <2> DEFINE c == call[r]
  <2>1. /\ EndRequest(r) /\ pc[r] = "wrote" /\ c.kind \in TaskKinds /\ ~Recomputes(r)
        /\ task' = TasksAfter(r) /\ UNCHANGED <<project, execution, unvalidatedObjective>>
        /\ c \in Calls
    BY <1>0, <1>6 DEF CommitPlainUpdate, TypeOK
  <2>2. ReadsAreFresh'
    BY <1>0, <2>1, FreshAfterEnd
  <2>3. ~WeightDiffers(c, task) /\ c.kind \in Updates
    BY <2>1 DEF SequentialInv, ReadsAreFresh, Recomputes
  <2>4. unvalidated' = {}
    BY <1>6, <2>3 DEF CommitPlainUpdate, SequentialInv
  <2>5. \A t \in Tasks : task'[t].status = task[t].status
    <3>1. c.kind \notin Creations /\ c.kind \notin Deletions
      BY <2>3 DEF Updates, Creations, Deletions
    <3>2. task \in [Tasks -> Row]
      BY <1>0 DEF TypeOK
    <3> QED
      BY <2>1, <3>1, <3>2, EffectOnRow DEF TasksAfter, StatusAfter
  <2> QED
    BY <2>1, <2>2, <2>4, <2>5
    DEF SequentialInv, ObjectiveReadingExact, NoTaskOutlivesItsProject,
        ObjectiveExecution, LiveProjects
<1>7. ASSUME NEW r \in Requests, WriteProject(r)
      PROVE  SequentialInv'
  <2>1. /\ UNCHANGED <<database, history>> /\ pc'[r] = "wrote"
        /\ call' = call /\ weightChanged' = weightChanged /\ doomed' = doomed
        /\ pc[r] = IF call[r].kind = "deleteProject" THEN "marked" ELSE "work"
        /\ call[r].kind \in ProjectKinds
    BY <1>0, <1>7 DEF WriteProject, ReachesProjectRows, TypeOK
  <2>2. Recomputes(r) => result'[r].execution = ObjectiveExecution(ProjectsAfter(r))
    BY <1>0, <1>7 DEF WriteProject, TypeOK
  <2>3. (Recomputes(r) => result[r].execution = ObjectiveExecution(ProjectsAfter(r)))'
    BY <2>1, <2>2 DEF Recomputes, ProjectsAfter, ObjectiveExecution, LiveProjects
  <2>4. (pc[r] = "wrote" /\ call[r].kind = "deleteProject" =>
             doomed[r] = LiveTasks(task, call[r].target))'
    BY <2>1 DEF SequentialInv, ReadsAreFresh, LiveTasks
  <2>5. pc[r] # "idle" /\ call[r].kind \notin TaskKinds
    BY <2>1 DEF TaskKinds, ProjectKinds
  <2> QED
    BY <2>1, <2>3, <2>4, <2>5, FreshWhileOpen DEF SequentialInv, ReadsAreFresh
<1>8. ASSUME NEW r \in Requests, CommitProject(r)
      PROVE  SequentialInv'
  <2> DEFINE c == call[r]
  <2>1. /\ EndRequest(r) /\ pc[r] = "wrote" /\ c.kind \in ProjectKinds
        /\ c \in Calls /\ c.target \in Projects /\ c.kind \notin TaskKinds
        /\ project' = ProjectsAfter(r) /\ unvalidated' = unvalidated
        /\ project \in [Projects -> Row]
    BY <1>0, <1>8, CallShape DEF CommitProject, TypeOK, TaskKinds, ProjectKinds
  <2>2. ReadsAreFresh'
    BY <1>0, <2>1, FreshAfterEnd
  <2>3. weightChanged[r] = WeightDiffers(c, project)
    BY <2>1 DEF SequentialInv, ReadsAreFresh
  <2>4. ~unvalidatedObjective'
    BY <1>8, <2>3 DEF CommitProject, Recomputes, SequentialInv, WeightDiffers
  <2>5. ObjectiveReadingExact'
    <3>1. CASE Recomputes(r)
      <4>1. execution' = result[r].execution
        BY <1>8, <3>1 DEF CommitProject
      <4>2. result[r].execution = ObjectiveExecution(ProjectsAfter(r))
        BY <2>1, <3>1 DEF SequentialInv, ReadsAreFresh
      <4> QED
        BY <2>1, <4>1, <4>2 DEF ObjectiveReadingExact, ObjectiveExecution, LiveProjects
    <3>2. CASE ~Recomputes(r)
      <4>1. c.kind \in Updates /\ DOMAIN c.weights = {c.target}
        BY <2>1, <3>2, CallShape DEF Recomputes
      <4>2. c.weights[c.target] = project[c.target].weight
        BY <2>3, <3>2, <4>1 DEF Recomputes, WeightDiffers
      <4>3. \A q \in Projects : /\ project'[q].status = project[q].status
                                /\ project'[q].weight = project[q].weight
                                /\ project'[q].progress = project[q].progress
        BY <2>1, <4>1, <4>2, EffectOnRow
        DEF ProjectsAfter, StatusAfter, Updates, Creations, Deletions
      <4>4. LiveProjects(project') = LiveProjects(project)
        BY <4>3 DEF LiveProjects
      <4>5. Items(project', LiveProjects(project')) = Items(project, LiveProjects(project))
        BY <4>3, <4>4 DEF Items, LiveProjects
      <4>6. execution' = execution
        BY <1>8, <3>2 DEF CommitProject
      <4> QED
        BY <4>5, <4>6 DEF SequentialInv, ObjectiveReadingExact, ObjectiveExecution,
                          LiveProjects
    <3> QED
      BY <3>1, <3>2
  <2>6. NoTaskOutlivesItsProject'
    <3>1. ASSUME NEW t \in Tasks, task'[t].status = "live"
          PROVE  project'[ParentOf[t]].status = "live"
      <4>1. ParentOf[t] \in Projects
        BY ParentAssumption
      <4>2. project'[ParentOf[t]].status = StatusAfter(c, ParentOf[t], project[ParentOf[t]].status)
        BY <2>1, <4>1, EffectOnRow DEF ProjectsAfter
      <4>3. CASE c.kind = "deleteProject"
        <5>1. task' = WithoutTasks(doomed[r])
          BY <1>8, <4>3 DEF CommitProject
        <5>2. doomed[r] = LiveTasks(task, c.target)
          BY <2>1, <4>3 DEF SequentialInv, ReadsAreFresh
        <5>3. task[t].status = "live" /\ t \notin doomed[r]
          BY <1>0, <3>1, <5>1 DEF WithoutTasks, TypeOK, Row
        <5>4. ParentOf[t] # c.target
          BY <5>2, <5>3 DEF LiveTasks
        <5>5. project[ParentOf[t]].status = "live"
          BY <5>3 DEF SequentialInv, NoTaskOutlivesItsProject
        <5> QED
          BY <4>2, <5>4, <5>5 DEF StatusAfter
      <4>4. CASE c.kind # "deleteProject"
        <5>1. task' = task
          BY <1>8, <4>4 DEF CommitProject
        <5>2. project[ParentOf[t]].status = "live"
          BY <3>1, <5>1 DEF SequentialInv, NoTaskOutlivesItsProject
        <5> QED
          BY <2>1, <4>2, <4>4, <5>2 DEF StatusAfter, Deletions, ProjectKinds
      <4> QED
        BY <4>3, <4>4
    <3> QED
      BY <3>1 DEF NoTaskOutlivesItsProject
  <2> QED
    BY <2>1, <2>2, <2>4, <2>5, <2>6 DEF SequentialInv
<1>9. ASSUME NEW r \in Requests, MarkTasks(r)
      PROVE  SequentialInv'
  <2>1. /\ UNCHANGED <<database, history>> /\ pc[r] = "work" /\ pc'[r] = "marked"
        /\ call' = call /\ weightChanged' = weightChanged
        /\ doomed'[r] = LiveTasks(task, call[r].target)
    BY <1>0, <1>9 DEF MarkTasks, TypeOK, LiveTasks
  <2>2. (doomed[r] = LiveTasks(task, call[r].target))'
    BY <2>1 DEF LiveTasks
  <2> QED
    BY <2>1, <2>2, FreshWhileOpen DEF SequentialInv, ReadsAreFresh
<1>10. CASE UNCHANGED vars
  <2>1. ReadsAreFresh'
    <3>1. SUFFICES ASSUME NEW r \in Requests, pc'[r] # "idle"
                   PROVE  (/\ weightChanged[r] = WeightDiffers(call[r],
                                  IF call[r].kind \in TaskKinds THEN task ELSE project)
                           /\ call[r].kind = "createTask" =>
                                  project[call[r].project].status = "live"
                           /\ pc[r] = "wrote" /\ call[r].kind = "deleteProject" =>
                                  doomed[r] = LiveTasks(task, call[r].target)
                           /\ pc[r] = "marked" =>
                                  doomed[r] = LiveTasks(task, call[r].target)
                           /\ pc[r] = "wrote" /\ Recomputes(r) =>
                                  result[r].execution =
                                      IF call[r].kind \in TaskKinds
                                      THEN ObjectiveExecution(ProjectsSeenBy(r))
                                      ELSE ObjectiveExecution(ProjectsAfter(r)))'
      BY DEF ReadsAreFresh
    <3>2. UNCHANGED <<task, project, pc, call, weightChanged, doomed, result>>
      BY <1>10 DEF vars
    <3>3. (weightChanged[r] = WeightDiffers(call[r],
               IF call[r].kind \in TaskKinds THEN task ELSE project))'
      BY <3>1, <3>2 DEF SequentialInv, ReadsAreFresh
    <3>4. (pc[r] = "wrote" /\ Recomputes(r) =>
               result[r].execution = IF call[r].kind \in TaskKinds
                                     THEN ObjectiveExecution(ProjectsSeenBy(r))
                                     ELSE ObjectiveExecution(ProjectsAfter(r)))'
      <4>1. ProjectsSeenBy(r)' = ProjectsSeenBy(r) /\ ProjectsAfter(r)' = ProjectsAfter(r)
        BY <3>2 DEF ProjectsSeenBy, ProjectsAfter, TasksAfter, ProjectProgress, LiveTasks
      <4>2. /\ ObjectiveExecution(ProjectsSeenBy(r))' = ObjectiveExecution(ProjectsSeenBy(r))
            /\ ObjectiveExecution(ProjectsAfter(r))' = ObjectiveExecution(ProjectsAfter(r))
        BY <4>1 DEF ObjectiveExecution, LiveProjects
      <4>3. pc[r] = "wrote" /\ Recomputes(r) =>
                result[r].execution = IF call[r].kind \in TaskKinds
                                      THEN ObjectiveExecution(ProjectsSeenBy(r))
                                      ELSE ObjectiveExecution(ProjectsAfter(r))
        BY <3>1, <3>2 DEF SequentialInv, ReadsAreFresh
      <4>4. Recomputes(r)' <=> Recomputes(r)
        BY <3>2 DEF Recomputes
      <4> QED
        BY <3>2, <4>2, <4>3, <4>4
    <3>5. (pc[r] \in {"wrote", "marked"} /\ doomed[r] = LiveTasks(task, call[r].target))' <=>
          (pc[r] \in {"wrote", "marked"} /\ doomed[r] = LiveTasks(task, call[r].target))
      BY <3>2 DEF LiveTasks
    <3> QED
      BY <3>1, <3>2, <3>3, <3>4, <3>5 DEF SequentialInv, ReadsAreFresh
  <2> QED
    BY <1>10, <2>1 DEF vars, SequentialInv, ObjectiveReadingExact,
                       NoTaskOutlivesItsProject, ObjectiveExecution, LiveProjects
<1> QED
  BY <1>1, <1>2, <1>3, <1>4, <1>5, <1>6, <1>7, <1>8, <1>9, <1>10
  DEF Next, Begin, Acquire, Proceed

\* Together with what concurrent requests keep, the rows are those of a plan.
LEMMA SoundRows == ReadingInv /\ GroupInv /\ SequentialInv => RowsStaySound
<1> SUFFICES ASSUME ReadingInv, GroupInv, SequentialInv PROVE RowsStaySound
  OBVIOUS
<1>1. \A p \in LiveProjects(project) :
          ValidWeightGroup(Weights(task, LiveTasks(task, p)))
  BY DEF ReadingInv, ProjectReadingExact, SequentialInv
<1>2. ValidWeightGroup(Weights(project, LiveProjects(project)))
  BY DEF GroupInv, ObjectiveGroupValid, SequentialInv
<1> QED
  BY <1>1, <1>2 DEF RowsStaySound, WeightGroupsAlwaysValid, ReadingInv, SequentialInv

\* RN-P6 when no two requests overlap (project.service.ts, task.service.ts):
\* whatever is created, reweighed, completed and deleted, both levels keep valid
\* groups and no live task is left in a deleted project.
THEOREM OneRequestAtATime == Spec /\ []OneAtATime => []RowsStaySound
  BY SoundRows, ReadingInit, ReadingNext, GroupInit, GroupNext, SequentialInit, SequentialNext,
     PTL DEF Spec

\* RN-P8 for the objective when no two requests overlap
\* (recomputeProjectAndObjectiveExecution): its cached execution is the aggregate of
\* its live projects.  Two task transactions at once lose it, as a run shows.
THEOREM ObjectiveReading == Spec /\ []OneAtATime => []ObjectiveReadingExact
<1>1. SequentialInv => ObjectiveReadingExact
  BY DEF SequentialInv
<1> QED
  BY <1>1, ReadingInit, ReadingNext, GroupInit, GroupNext, SequentialInit, SequentialNext, PTL DEF Spec

\* The readings of this module are the code's.
AggregatesAsInCode ==
    \A S \in (SUBSET Tasks) \cup (SUBSET Projects) : \A g \in [S -> Item] :
        ProgressOf(g) = AggregateProgressBp(g)

\* With the aggregation of the code and no two requests at once, both cached
\* readings say one hundred percent exactly when the group they are about is
\* complete (recomputeProjectAndObjectiveExecution): what is published to the
\* indicators is never the effect of rounding.
THEOREM CompletionReached ==
    ASSUME IsFiniteSet(Tasks), IsFiniteSet(Projects), AggregatesAsInCode
    PROVE  Spec /\ []OneAtATime => []CompletionIsReal
<1>1. ASSUME NEW Ids, IsFiniteSet(Ids), Ids \in {Tasks, Projects},
             NEW rows \in [Ids -> Row], NEW S \in SUBSET Ids,
             ValidWeightGroup(Weights(rows, S))
      PROVE  ProgressOf(Items(rows, S)) = FullBp <=> CompleteGroup(Items(rows, S))
  <2> DEFINE g == Items(rows, S)
  <2>1. IsFiniteSet(S) /\ S \in (SUBSET Tasks) \cup (SUBSET Projects)
    BY <1>1, FS_Subset
  <2>2. g \in [S -> Item]
    BY <1>1 DEF Items, Item, Row
  <2>3. [x \in S |-> g[x].weight] = Weights(rows, S)
    BY DEF Items, Weights
  <2> HIDE DEF g
  <2>4. AggregateProgressBp(g) = FullBp <=> CompleteGroup(g)
    BY <1>1, <2>1, <2>2, <2>3, AggregateIsExact DEF Item
  <2>5. ProgressOf(g) = AggregateProgressBp(g)
    BY <2>1, <2>2 DEF AggregatesAsInCode
  <2> QED
    BY <2>4, <2>5 DEF g
<1>2. TypeOK /\ RowsStaySound /\ ReadingInv /\ SequentialInv => CompletionIsReal
  <2> SUFFICES ASSUME TypeOK, RowsStaySound, ReadingInv, SequentialInv
               PROVE  CompletionIsReal
    OBVIOUS
  <2>1. ASSUME NEW p \in LiveProjects(project)
        PROVE  project[p].progress = FullBp <=>
                   CompleteGroup(Items(task, LiveTasks(task, p)))
    <3>1. LiveTasks(task, p) \in SUBSET Tasks /\ task \in [Tasks -> Row]
      BY DEF LiveTasks, TypeOK
    <3>2. /\ ValidWeightGroup(Weights(task, LiveTasks(task, p)))
          /\ project[p].progress = ProgressOf(Items(task, LiveTasks(task, p)))
      BY <2>1 DEF ReadingInv, ProjectReadingExact, SequentialInv, ProjectProgress
    <3> QED
      BY <1>1, <3>1, <3>2
  <2>2. execution = FullBp <=> CompleteGroup(Items(project, LiveProjects(project)))
    <3>1. LiveProjects(project) \in SUBSET Projects /\ project \in [Projects -> Row]
      BY DEF LiveProjects, TypeOK
    <3>2. /\ ValidWeightGroup(Weights(project, LiveProjects(project)))
          /\ execution = ProgressOf(Items(project, LiveProjects(project)))
      BY DEF RowsStaySound, WeightGroupsAlwaysValid, SequentialInv,
             ObjectiveReadingExact, ObjectiveExecution
    <3> QED
      BY <1>1, <3>1, <3>2
  <2> QED
    BY <2>1, <2>2 DEF CompletionIsReal
<1>3. ReadingInv /\ GroupInv /\ SequentialInv => TypeOK /\ RowsStaySound
  BY SoundRows DEF ReadingInv
<1> QED
  BY <1>2, <1>3, ReadingInit, ReadingNext, GroupInit, GroupNext, SequentialInit,
     SequentialNext, PTL DEF Spec

-----------------------------------------------------------------------------
(* The cascade and the contributions together. *)

\* A commit that publishes is a step of the contributions; any other leaves
\* what they see as it was.
LEMMA PublishIsAStep ==
    ASSUME NEW r \in Requests, Publish(r)
    PROVE  [Flow!Next]_(Flow!vars)
<1>1. CASE \A p \in Projects : Completion(p)' = Completion(p)
  <2>1. UNCHANGED contributions
    BY <1>1 DEF Publish
  <2>2. UNCHANGED [p \in Projects |-> Completion(p)]
    BY <1>1
  <2> QED
    BY <2>1, <2>2 DEF contributions, Flow!vars, Flow!metrics, Flow!request
<1>2. CASE ~\A p \in Projects : Completion(p)' = Completion(p)
  <2>1. PICK p \in Projects : \/ Flow!CompleteProject(r, p)
                              \/ Flow!ReopenProject(r, p)
                              \/ Flow!DeleteProject(r, p)
    BY <1>2 DEF Publish
  <2>2. Flow!Call(r)
    BY <2>1 DEF Flow!Call
  <2> QED
    BY <2>2 DEF Flow!Next
<1> QED
  BY <1>1, <1>2

\* The two components are together what each is alone: every behaviour of the
\* composition is one of the cascade and, through the completion of the
\* projects, one of the contributions (task.service.ts runWithTransitions, with
\* ProjectLifecyclePublisher between the two).
THEOREM FlowIsBoth == SpecFlow => Spec /\ Flow!Spec
<1>1. InitFlow => Init /\ Flow!Init
  BY DEF InitFlow
<1>2. [NextFlow]_flowVars => [Next]_vars
  <2>1. ASSUME NEW r \in Requests, PlanStep(r) PROVE Next
    BY <2>1 DEF PlanStep, Next
  <2>2. ASSUME NEW r \in Requests, ContributionStep(r) PROVE UNCHANGED vars
    BY <2>2 DEF ContributionStep
  <2>3. UNCHANGED flowVars => UNCHANGED vars
    BY DEF flowVars
  <2> QED
    BY <2>1, <2>2, <2>3 DEF NextFlow
<1>3. [NextFlow]_flowVars => [Flow!Next]_(Flow!vars)
  <2>1. ASSUME NEW r \in Requests, PlanStep(r) PROVE [Flow!Next]_(Flow!vars)
    BY <2>1, PublishIsAStep DEF PlanStep
  <2>2. ASSUME NEW r \in Requests, ContributionStep(r) PROVE Flow!Next
    BY <2>2 DEF ContributionStep, Flow!Next
  <2>3. ASSUME UNCHANGED flowVars PROVE UNCHANGED Flow!vars
    <3>1. UNCHANGED project
      BY <2>3 DEF flowVars, vars, database
    <3>2. UNCHANGED [p \in Projects |-> Completion(p)]
      BY <3>1 DEF Completion
    <3> QED
      BY <2>3, <3>2 DEF flowVars, contributions, Flow!vars, Flow!metrics, Flow!request
  <2> QED
    BY <2>1, <2>2, <2>3 DEF NextFlow
<1> QED
  BY <1>1, <1>2, <1>3, PTL DEF SpecFlow, Spec, Flow!Spec

\* The readings of the projects stay exact in the composition
\* (recomputeProjectAndObjectiveExecution): the reconciliations that run beside
\* the cascade cannot disturb them.
THEOREM FlowKeepsReadings == SpecFlow => []ProjectReadingExact
  BY FlowIsBoth, ProjectReading, PTL

-----------------------------------------------------------------------------
(***************************************************************************)
(* The contributions follow the tasks.  What is shown of the contributions *)
(* alone relates them to the completion of their projects, what is shown   *)
(* of the cascade relates that to the tasks; between the two, the row of a *)
(* contribution must have a project.                                       *)
(***************************************************************************)
Shown == INSTANCE ContributionReconciliationProofs WITH
            project <- [p \in Projects |-> Completion(p)], pc <- stage,
            ProjectOf <- ContributingProject

\* Requests are served one after another.
OneSlot == \A r, q \in Requests : r = q

\* The constants are those the facts about contributions assume.
LEMMA FlowAssumptions ==
    /\ Shown!PairAssumption /\ Shown!ValuesAssumption /\ Shown!SlotAssumption /\
        Shown!ScopeAssumption
BY FlowAssumption, NobodyAssumption
DEF Shown!PairAssumption, Shown!ValuesAssumption, Shown!SlotAssumption,
    Shown!ScopeAssumption, Shown!AllOperations, Flow!AllOperations

\* They are stated of another instance of the same module, whose definitions
\* are word for word those of the composition.
LEMMA SameInit == Flow!Init => Shown!Init
  BY DEF Flow!Init, Shown!Init, Flow!NoRow, Shown!NoRow, Flow!NoJob, Shown!NoJob,
     Flow!NoDraft,
         Shown!NoDraft, Flow!Draft, Shown!Draft, Flow!NotApplied, Shown!NotApplied

\* So are its steps.
LEMMA SameNext == [Flow!Next]_(Flow!vars) => [Shown!Next]_(Shown!vars)
BY DEF Flow!Next, Shown!Next, Flow!vars, Shown!vars, Flow!Acquire, Shown!Acquire,
   Flow!Applied, Shown!Applied, Flow!BeginAlter, Shown!BeginAlter,
   Flow!BeginCreate, Shown!BeginCreate, Flow!BeginEdit, Shown!BeginEdit,
   Flow!Call, Shown!Call, Flow!ChangeProgress, Shown!ChangeProgress,
   Flow!CommitAndPublish, Shown!CommitAndPublish, Flow!CommitEdit,
   Shown!CommitEdit, Flow!CommitReconciliation, Shown!CommitReconciliation,
   Flow!CompleteProject, Shown!CompleteProject, Flow!DeleteIndicator,
   Shown!DeleteIndicator, Flow!DeleteProject, Shown!DeleteProject, Flow!Draft,
   Shown!Draft, Flow!Due, Shown!Due, Flow!EndRequest, Shown!EndRequest,
   Flow!EntryOf, Shown!EntryOf, Flow!Fail, Shown!Fail, Flow!Feeds, Shown!Feeds,
   Flow!FoundComplete, Shown!FoundComplete, Flow!FreshId, Shown!FreshId,
   Flow!InsertContribution, Shown!InsertContribution, Flow!Linked, Shown!Linked,
   Flow!ListContributions, Shown!ListContributions, Flow!Live, Shown!Live,
   Flow!LockContribution, Shown!LockContribution, Flow!Locked, Shown!Locked,
   Flow!MayAlter, Shown!MayAlter, Flow!MayEdit, Shown!MayEdit, Flow!MayInsert,
   Shown!MayInsert, Flow!NewRow, Shown!NewRow, Flow!NextRow, Shown!NextRow,
   Flow!NoDraft, Shown!NoDraft, Flow!NoJob, Shown!NoJob, Flow!NoRow, Shown!NoRow,
   Flow!NotApplied, Shown!NotApplied, Flow!Proceed, Shown!Proceed,
   Flow!ReadProject, Shown!ReadProject, Flow!RefuseAlter, Shown!RefuseAlter,
   Flow!RefuseEdit, Shown!RefuseEdit, Flow!RefuseInsertion, Shown!RefuseInsertion,
   Flow!Release, Shown!Release, Flow!RemoveContribution, Shown!RemoveContribution,
   Flow!ReopenProject, Shown!ReopenProject, Flow!RowAfter, Shown!RowAfter,
   Flow!RowFree, Shown!RowFree, Flow!RowLeft, Shown!RowLeft,
   Flow!UpdateContribution, Shown!UpdateContribution, Flow!metrics, Shown!metrics,
   Flow!request, Shown!request, Flow!rows, Shown!rows

\* And those of one request.
LEMMA SameSteps ==
    ASSUME NEW r, Flow!Call(r) \/ Flow!Proceed(r) \/ Flow!Acquire(r) \/ Flow!Fail(r)
    PROVE  Shown!Call(r) \/ Shown!Proceed(r) \/ Shown!Acquire(r) \/ Shown!Fail(r)
BY DEF Flow!Next, Shown!Next, Flow!vars, Shown!vars, Flow!Acquire, Shown!Acquire,
   Flow!Applied, Shown!Applied, Flow!BeginAlter, Shown!BeginAlter,
   Flow!BeginCreate, Shown!BeginCreate, Flow!BeginEdit, Shown!BeginEdit,
   Flow!Call, Shown!Call, Flow!ChangeProgress, Shown!ChangeProgress,
   Flow!CommitAndPublish, Shown!CommitAndPublish, Flow!CommitEdit,
   Shown!CommitEdit, Flow!CommitReconciliation, Shown!CommitReconciliation,
   Flow!CompleteProject, Shown!CompleteProject, Flow!DeleteIndicator,
   Shown!DeleteIndicator, Flow!DeleteProject, Shown!DeleteProject, Flow!Draft,
   Shown!Draft, Flow!Due, Shown!Due, Flow!EndRequest, Shown!EndRequest,
   Flow!EntryOf, Shown!EntryOf, Flow!Fail, Shown!Fail, Flow!Feeds, Shown!Feeds,
   Flow!FoundComplete, Shown!FoundComplete, Flow!FreshId, Shown!FreshId,
   Flow!InsertContribution, Shown!InsertContribution, Flow!Linked, Shown!Linked,
   Flow!ListContributions, Shown!ListContributions, Flow!Live, Shown!Live,
   Flow!LockContribution, Shown!LockContribution, Flow!Locked, Shown!Locked,
   Flow!MayAlter, Shown!MayAlter, Flow!MayEdit, Shown!MayEdit, Flow!MayInsert,
   Shown!MayInsert, Flow!NewRow, Shown!NewRow, Flow!NextRow, Shown!NextRow,
   Flow!NoDraft, Shown!NoDraft, Flow!NoJob, Shown!NoJob, Flow!NoRow, Shown!NoRow,
   Flow!NotApplied, Shown!NotApplied, Flow!Proceed, Shown!Proceed,
   Flow!ReadProject, Shown!ReadProject, Flow!RefuseAlter, Shown!RefuseAlter,
   Flow!RefuseEdit, Shown!RefuseEdit, Flow!RefuseInsertion, Shown!RefuseInsertion,
   Flow!Release, Shown!Release, Flow!RemoveContribution, Shown!RemoveContribution,
   Flow!ReopenProject, Shown!ReopenProject, Flow!RowAfter, Shown!RowAfter,
   Flow!RowFree, Shown!RowFree, Flow!RowLeft, Shown!RowLeft,
   Flow!UpdateContribution, Shown!UpdateContribution, Flow!metrics, Shown!metrics,
   Flow!request, Shown!request, Flow!rows, Shown!rows


\* A row of a contribution, or one about to be created, has a project.
RowsHaveProjects ==
    /\ \A c \in Contributions : row[c].status = "live" =>
           project[ContributingProject[c]].status # "absent"
    /\ \A r \in Requests : stage[r] = "creating" =>
           project[ContributingProject[draft[r].contribution]].status # "absent"

\* Ids are not reused: a project that exists never becomes one that does not.
LEMMA ProjectsStay ==
    ASSUME TypeOK, [Next]_vars, NEW p \in Projects, project[p].status # "absent"
    PROVE  project'[p].status # "absent"
<1>1. project' = project => project'[p].status # "absent"
  OBVIOUS
<1>2. ASSUME NEW r \in Requests, CommitTask(r) PROVE project'[p].status # "absent"
  <2>1. call[r].project \in Projects /\ result[r].progress \in Progress
    BY CallShape DEF TypeOK
  <2> QED
    BY <1>2, <2>1, ProgressLeavesGroup DEF CommitTask, TypeOK
<1>3. ASSUME NEW r \in Requests, CommitProject(r) PROVE project'[p].status #
    "absent"
  <2>1. project'[p].status = StatusAfter(call[r], p, project[p].status)
    BY <1>3, EffectOnRow DEF CommitProject, ProjectsAfter, TypeOK
  <2> QED
    BY <2>1 DEF StatusAfter
<1> QED
  BY <1>1, <1>2, <1>3
  DEF Next, Begin, Acquire, Proceed, BeginTask, BeginProject, LockProject,
      LockObjective,
      WriteTask, RejectTask, MarkTasks, RejectProject, CommitPlainUpdate,
          BreakDeadlock,
      RollBack, WriteProject, database, vars

\* No step leaves a row, or a creation, without its project.
LEMMA RowsHaveProjectsNext ==
    ASSUME TypeOK, TypeOK', Shown!TypeOK, Shown!TypeOK', RowsHaveProjects,
        [NextFlow]_flowVars
    PROVE  RowsHaveProjects'
<1>0. /\ \A c \in Contributions : ContributingProject[c] \in Projects
      /\ \A r \in Requests : draft[r].contribution \in Contributions
      /\ \A r \in Requests : draft'[r].contribution \in Contributions
  BY FlowAssumption DEF Shown!TypeOK, Shown!Draft
<1>1. ASSUME NEW r \in Requests, PlanStep(r) PROVE RowsHaveProjects'
  <2>1. Next
    BY <1>1 DEF PlanStep, Next
  <2>2. /\ row' = row /\ draft' = draft
        /\ \A q \in Requests : stage'[q] = stage[q] \/ stage'[q] = "published"
    BY <1>1 DEF PlanStep, Publish, contributions, Flow!CompleteProject,
       Flow!ReopenProject,
       Flow!DeleteProject, Flow!CommitAndPublish, Flow!metrics, Shown!TypeOK
  <2> QED
    BY <1>0, <2>1, <2>2, ProjectsStay DEF RowsHaveProjects
<1>2. ASSUME NEW r \in Requests, ContributionStep(r) PROVE RowsHaveProjects'
  <2>1. project' = project
    BY <1>2 DEF ContributionStep, vars, database
  <2>2. Shown!Call(r) \/ Shown!Proceed(r) \/ Shown!Acquire(r) \/ Shown!Fail(r)
    BY <1>2, SameSteps DEF ContributionStep
  <2>3. /\ \A c \in Contributions : Shown!Live(c)' =>
               Shown!Live(c) \/ (stage[r] = "creating" /\ draft[r].contribution = c)
        /\ \A q \in Requests \ {r} : stage'[q] = stage[q] /\ draft'[q] = draft[q]
    BY <2>2, FlowAssumptions, Shown!RowsComeFromCreations
  <2>4. stage'[r] = "creating" =>
            project[ContributingProject[draft'[r].contribution]].status = "live"
    BY <1>2 DEF ContributionStep, ForRows
  <2> QED
    BY <1>0, <2>1, <2>3, <2>4 DEF RowsHaveProjects, Shown!Live
<1>3. CASE UNCHANGED flowVars
  BY <1>3 DEF flowVars, vars, database, contributions, RowsHaveProjects
<1> QED
  BY <1>1, <1>2, <1>3 DEF NextFlow

\* What is shown of the contributions.
FollowingInv == Shown!LedgerInv /\ Shown!FollowInv

\* It holds along the composition.
LEMMA Following == ASSUME OneSlot PROVE SpecFlow => []FollowingInv
<1>1. Flow!Init => FollowingInv
  BY SameInit, FlowAssumptions, Shown!InitLedger, Shown!FollowInit DEF FollowingInv
<1>2. FollowingInv /\ [Flow!Next]_(Flow!vars) => FollowingInv'
  <2>1. Shown!OneSlot /\ "change" \notin Operations
    BY FlowAssumption DEF OneSlot, Shown!OneSlot
  <2> QED
    BY <2>1, SameNext, FlowAssumptions, Shown!NextLedger, Shown!FollowNext DEF
       FollowingInv
<1> QED
  BY <1>1, <1>2, FlowIsBoth, PTL DEF Flow!Spec

\* No contribution ever is one of a project that does not exist.
LEMMA RowsKeepProjects == ASSUME OneSlot PROVE SpecFlow => []RowsHaveProjects
<1>1. InitFlow => RowsHaveProjects
  BY DEF InitFlow, Flow!Init, Flow!NoRow, RowsHaveProjects
<1>2. FollowingInv => Shown!TypeOK
  BY DEF FollowingInv, Shown!LedgerInv
<1>3. SpecFlow => []TypeOK
  BY FlowIsBoth, TypeCorrectness, PTL
<1>4. TypeOK /\ TypeOK' /\ Shown!TypeOK /\ Shown!TypeOK' /\ RowsHaveProjects /\
    [NextFlow]_flowVars
          => RowsHaveProjects'
  BY RowsHaveProjectsNext
<1> QED
  BY <1>1, <1>2, <1>3, <1>4, Following, PTL DEF SpecFlow

\* RN-P13 end to end, for any plan, indicators, contributions and calls that
\* come one after another (runWithTransitions, ProjectContributionApplier): once
\* a request is over, a contribution is applied exactly when the tasks of its
\* project are all complete, unless the last reconciliation of it failed.
THEOREM ContributionsSettle ==
    ASSUME OneSlot, IsFiniteSet(Tasks), IsFiniteSet(Projects), AggregatesAsInCode
    PROVE  SpecFlow => []ContributionsFollowTasks
<1>1. TypeOK /\ FollowingInv /\ RowsHaveProjects /\ CompletionIsReal =>
    ContributionsFollowTasks
  <2> SUFFICES ASSUME TypeOK, FollowingInv, RowsHaveProjects, CompletionIsReal,
                      \A r \in Requests : pc[r] = "idle" /\ stage[r] = "idle",
                      NEW c \in Contributions, row[c].status = "live",
                      ContributingProject[c] \notin lost
               PROVE  /\ project[ContributingProject[c]].status = "live"
                      /\ row[c].applied # 0 <=>
                             CompleteGroup(Items(task, LiveTasks(task,
                                 ContributingProject[c])))
    BY DEF ContributionsFollowTasks
  <2> DEFINE p == ContributingProject[c]
  <2>1. p \in Projects /\ project[p].status # "absent"
    BY FlowAssumption DEF RowsHaveProjects
  <2>2. Shown!Settled(c)
    BY DEF FollowingInv, Shown!FollowInv, Shown!RowsFollow, Shown!Live,
       Shown!Reconciling
  <2>3. Completion(p) # "deleted" /\ (row[c].applied # 0 <=> Completion(p) =
      "complete")
    BY <2>1, <2>2 DEF Shown!Settled, Shown!Applied, Shown!NotApplied
  <2>4. p \in LiveProjects(project)
    BY <2>1, <2>3 DEF Completion, TypeOK, Row, RowStatus, LiveProjects
  <2> QED
    BY <2>3, <2>4 DEF CompletionIsReal, Completion, PROJECT_COMPLETE_BP,
       LiveProjects
<1>2. OneAtATime
  BY DEF OneSlot, OneAtATime
<1>3. SpecFlow => []TypeOK /\ []CompletionIsReal
  BY <1>2, FlowIsBoth, TypeCorrectness, CompletionReached, PTL
<1> QED
  BY <1>1, <1>3, Following, RowsKeepProjects, PTL

\* RN-P13 and ADR-0009 D5 under the same sequence of calls: a live contribution
\* feeds an indicator that projects feed, and one that is gone, by hand or with
\* its project, left no entry in the series.
THEOREM ContributionsGone ==
    ASSUME OneSlot PROVE SpecFlow => []ContributionsLeaveNoTrace
<1>1. FollowingInv => ContributionsLeaveNoTrace
  BY FlowAssumption
  DEF FollowingInv, Shown!FollowInv, Shown!RowsAreFed, Shown!GoneIsUnposted,
      Shown!Live, Shown!Feeds,
      ContributionsLeaveNoTrace
<1> QED
  BY <1>1, Following, PTL
=============================================================================
