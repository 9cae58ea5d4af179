----------------------- MODULE IndicatorResultProofs -----------------------
(***************************************************************************)
(* Proofs about IndicatorResult, for any objectives, metrics, indicators,  *)
(* loads, calls and number of requests: the weights of every group stay    *)
(* valid, loads of one metric do not wait for each other in a circle, and  *)
(* okr shows the result of the group unless an event was lost or outrun.   *)
(* Then, of what requests read before they write: the progress of an       *)
(* indicator is that of its series, every row and result keeps its type,   *)
(* and an indicator is as sound as the checks of its last edit.  The rule  *)
(* that makes a weight group valid is not looked into.                     *)
(***************************************************************************)
EXTENDS IndicatorResult, OkrDomainProofs, FiniteSetTheorems, SequenceTheorems, WellFoundedInduction, TLAPS

RowFields == {"life", "target", "weight", "link", "mode", "last", "progress"}
RequestFields == {"at", "call", "seen", "baseline", "todo", "wanted", "groups",
                  "draft", "outbox", "fresh"}

Shape ==
    /\ DOMAIN indicator = Indicators
    /\ \A i \in Indicators : DOMAIN indicator[i] = RowFields
    /\ owner \in [Objectives -> Requests \cup {Nobody}]
    /\ DOMAIN req = Requests
    /\ \A r \in Requests :
         /\ DOMAIN req[r] = RequestFields
         /\ req[r].at = "begun" => req[r].call \in Calls
         /\ req[r].at = "recomputing" => req[r].groups \subseteq Objectives

\* What a step of request r may do to the requests: r leaves its transaction
\* and the others keep what they have, their freshness apart.
OthersKeep(r) ==
    /\ DOMAIN req' = Requests
    /\ \A q \in Requests : DOMAIN req'[q] = RequestFields
    /\ \A q \in Requests \ {r} :
         /\ req'[q].at = req[q].at /\ req'[q].call = req[q].call
         /\ req'[q].todo = req[q].todo /\ req'[q].groups = req[q].groups
         /\ req'[q].wanted = req[q].wanted /\ req'[q].draft = req[q].draft
         /\ req'[q].outbox = req[q].outbox /\ req'[q].baseline = req[q].baseline
         /\ req'[q].seen = req[q].seen
Leaves(r) == OthersKeep(r) /\ req'[r].at \in {"idle", "publishing"}
Begins(r) ==
    OthersKeep(r) /\ req[r].at = "idle" /\ req'[r].at = "begun" /\ req'[r].call \in Calls

\* A free slot has every field of a request.
LEMMA IdleFields == DOMAIN Idle = RequestFields /\ Idle.at = "idle"
BY DEF Idle, RequestFields

\* A commit ends the transaction of its request and, of the others, changes only
\* whether they are fresh.
LEMMA FinishLeaves ==
    ASSUME Shape, NEW r \in Requests, NEW sent, Finish(r, sent)
    PROVE  Leaves(r)
<1>1. DOMAIN req' = Requests
  BY DEF Finish
<1>2. req'[r] = IF sent = <<>> THEN Idle
                ELSE [Idle EXCEPT !.at = "publishing", !.outbox = sent]
  BY DEF Finish
<1>3. DOMAIN req'[r] = RequestFields /\ req'[r].at \in {"idle", "publishing"}
  BY <1>2 DEF Idle, RequestFields
<1>4. ASSUME NEW q \in Requests \ {r}
      PROVE  /\ DOMAIN req'[q] = RequestFields
             /\ req'[q].at = req[q].at /\ req'[q].call = req[q].call
             /\ req'[q].todo = req[q].todo /\ req'[q].groups = req[q].groups
             /\ req'[q].wanted = req[q].wanted /\ req'[q].draft = req[q].draft
             /\ req'[q].outbox = req[q].outbox /\ req'[q].baseline = req[q].baseline
             /\ req'[q].seen = req[q].seen
  <2>1. PICK b : req'[q] = [req[q] EXCEPT !.fresh = b]
    BY DEF Finish
  <2> QED
    BY <2>1 DEF Shape, RequestFields
<1> QED
  BY <1>1, <1>3, <1>4 DEF Leaves, OthersKeep

\* So does the end of a delivery.
LEMMA AfterEventLeaves ==
    ASSUME Shape, NEW r \in Requests, req[r].at = "publishing", AfterEvent(r)
    PROVE  Leaves(r)
<1>1. /\ DOMAIN req' = Requests
      /\ req'[r] = IF Tail(req[r].outbox) = <<>> THEN Idle
                   ELSE [req[r] EXCEPT !.outbox = Tail(req[r].outbox)]
      /\ \A q \in Requests \ {r} : req'[q] = req[q]
  BY DEF AfterEvent, Shape
<1>2. req'[r].at \in {"idle", "publishing"} /\ DOMAIN req'[r] = RequestFields
  BY <1>1, IdleFields DEF Shape, RequestFields
<1> QED
  BY <1>1, <1>2 DEF Shape, Leaves, OthersKeep

\* And a transaction that is undone.
LEMMA RollBackLeaves ==
    ASSUME Shape, NEW r \in Requests, RollBack(r)
    PROVE  Leaves(r)
BY IdleFields DEF Shape, RollBack, Leaves, OthersKeep

\* Every commit is such an end.
LEMMA CommitLeaves ==
    ASSUME Shape, NEW r \in Requests, Commit(r)
    PROVE  Leaves(r)
<1>1. \E sent : Finish(r, sent)
  BY DEF Commit, CommitLoad, CommitCreate, CommitUpdate, CommitPoints, CommitWeights,
         CommitDelete, CommitUpdateMetric, CommitDeleteMetric
<1> QED
  BY <1>1, FinishLeaves

\* An accepted call is a request whose transaction is still to come.
LEMMA AcceptBegins ==
    ASSUME Shape, NEW r \in Requests, NEW c \in Calls, NEW row, NEW m, Accept(r, c, row, m)
    PROVE  Begins(r)
<1>1. req' = [req EXCEPT ![r] = [Idle EXCEPT !.at = "begun", !.call = c, !.seen = row,
                                             !.baseline = metric[m].baseline]]
  BY DEF Accept
<1>2. /\ req'[r].at = "begun" /\ req'[r].call = c
      /\ DOMAIN req'[r] = RequestFields
  BY <1>1 DEF Shape, Idle, RequestFields
<1> QED
  BY <1>1, <1>2 DEF Shape, Begins, OthersKeep, Accept

\* The calls but a load begin with their guards and no lock.
LEMMA BeginBegins ==
    ASSUME Shape, NEW r \in Requests, NEW c \in Calls, Begin(r, c), ~BeginLoad(r, c)
    PROVE  Begins(r) /\ UNCHANGED <<indicator, owner>>
<1>1. \E row, m : Accept(r, c, row, m)
  BY DEF Begin, BeginCreate, BeginUpdate, BeginPoints, BeginWeights, BeginDelete,
         BeginUpdateMetric, BeginDeleteMetric
<1>2. UNCHANGED <<indicator, owner>>
  BY <1>1 DEF Accept, committed
<1> QED
  BY <1>1, <1>2, AcceptBegins

\* A load begins with the groups of its first metric.
LEMMA LoadBegins ==
    ASSUME Shape, NEW r \in Requests, NEW c \in Calls, BeginLoad(r, c)
    PROVE  /\ OthersKeep(r)
           /\ req'[r].at = "recomputing" /\ req'[r].call = c
           /\ req'[r].todo = c.metrics /\ req'[r].groups \subseteq Objectives
           /\ req[r].at = "idle"
           /\ UNCHANGED <<indicator, owner>>
<1> DEFINE rq == [Idle EXCEPT !.at = "recomputing", !.call = c, !.todo = c.metrics]
<1>1. req' = [req EXCEPT ![r] = Snapshot(rq, indicator, Head(c.metrics))]
  BY DEF BeginLoad
<1>2. /\ rq.at = "recomputing" /\ rq.call = c /\ rq.todo = c.metrics
      /\ DOMAIN rq = RequestFields
  BY DEF Idle, RequestFields
<1> HIDE DEF rq
<1>3. PICK w : Snapshot(rq, indicator, Head(c.metrics)) =
          [rq EXCEPT !.wanted = w,
                     !.groups = {ObjectiveOf[i] : i \in LinksOf(indicator, Head(c.metrics))}]
  BY DEF Snapshot
<1>4. {ObjectiveOf[i] : i \in LinksOf(indicator, Head(c.metrics))} \subseteq Objectives
  BY PairsAssumption DEF LinksOf, LiveIndicators
<1>5. /\ DOMAIN req'[r] = RequestFields
      /\ req'[r].at = "recomputing" /\ req'[r].call = c
      /\ req'[r].todo = c.metrics /\ req'[r].groups \subseteq Objectives
  BY <1>1, <1>2, <1>3, <1>4 DEF Shape, RequestFields
<1> QED
  BY <1>1, <1>5 DEF Shape, BeginLoad, OthersKeep, committed

\* A load of several metrics goes on with the groups of the next.
LEMMA LoadContinues ==
    ASSUME Shape, NEW r \in Requests, NextMetric(r)
    PROVE  /\ OthersKeep(r)
           /\ req'[r].at = "recomputing" /\ req'[r].call = req[r].call
           /\ req'[r].groups \subseteq Objectives
           /\ UNCHANGED <<indicator, owner>>
<1> DEFINE rq == [req[r] EXCEPT !.todo = Tail(req[r].todo), !.draft = Drafted(r),
                                !.outbox = LoadOutbox(r)]
           m == req[r].todo[2]
<1>1. /\ DOMAIN req' = Requests
      /\ req'[r] = Snapshot(rq, LoadRows(r), m)
      /\ \A q \in Requests \ {r} : req'[q] = req[q]
  BY DEF NextMetric, Shape
<1>2. rq.at = "recomputing" /\ rq.call = req[r].call /\ DOMAIN rq = RequestFields
  BY DEF Shape, RequestFields, NextMetric, Recomputed
<1> HIDE DEF rq
<1>3. PICK w : Snapshot(rq, LoadRows(r), m) =
          [rq EXCEPT !.wanted = w,
                     !.groups = {ObjectiveOf[i] : i \in LinksOf(LoadRows(r), m)}]
  BY DEF Snapshot
<1>4. {ObjectiveOf[i] : i \in LinksOf(LoadRows(r), m)} \subseteq Objectives
  BY PairsAssumption DEF LinksOf, LiveIndicators
<1>5. /\ DOMAIN req'[r] = RequestFields
      /\ req'[r].at = "recomputing" /\ req'[r].call = req[r].call
      /\ req'[r].groups \subseteq Objectives
  BY <1>1, <1>2, <1>3, <1>4 DEF Shape, RequestFields
<1> QED
  BY <1>1, <1>5 DEF Shape, NextMetric, OthersKeep, committed

-----------------------------------------------------------------------------
(***************************************************************************)
(* The shape of the state.                                                 *)
(***************************************************************************)
LEMMA InitShape == Init => Shape
<1> SUFFICES ASSUME Init PROVE Shape
  OBVIOUS
<1>1. \A i \in Indicators : DOMAIN indicator[i] = RowFields
  BY DEF Init, Quiet, NoIndicator, RowFields
<1> QED
  BY <1>1, IdleFields DEF Init, Quiet, Shape

\* A request that commits writes rows of indicators, and frees its groups or
\* none.
LEMMA CommitRows ==
    ASSUME Shape, NEW r \in Requests, Commit(r)
    PROVE  /\ DOMAIN indicator' = Indicators
           /\ \A i \in Indicators : DOMAIN indicator'[i] = RowFields
           /\ owner' = Released(r) \/ (UNCHANGED owner /\ req[r].at = "begun")
<1> USE DEF RowFields
<1>1. CASE CommitLoad(r)
  <2> DEFINE progress == Drafted(r)
  <2>1. indicator' = Overlay(indicator, progress)
    BY <1>1 DEF CommitLoad, LoadRows
  <2> HIDE DEF progress
  <2> QED
    BY <1>1, <2>1 DEF CommitLoad, Overlay, Shape
<1>2. CASE CommitCreate(r)
  <2>1. DOMAIN CreatedRow(r) = RowFields
    BY DEF CreatedRow
  <2>2. indicator' = [indicator EXCEPT ![req[r].call.indicator] = CreatedRow(r)]
    BY <1>2 DEF CommitCreate, With
  <2> QED
    BY <1>2, <2>1, <2>2 DEF CommitCreate, Shape
<1>3. CASE CommitUpdate(r)
  <2> DEFINE i == req[r].call.indicator
  <2>1. i \in Indicators => DOMAIN UpdatedRow(r) = RowFields
    BY DEF UpdatedRow, Shape
  <2>2. indicator' = IF indicator[i].life = "live"
                     THEN [indicator EXCEPT ![i] = UpdatedRow(r)] ELSE indicator
    BY <1>3 DEF CommitUpdate, With
  <2> QED
    BY <1>3, <2>1, <2>2 DEF CommitUpdate, Shape
<1>4. CASE CommitPoints(r)
  BY <1>4 DEF CommitPoints, Shape
<1>5. CASE CommitWeights(r)
  BY <1>5 DEF CommitWeights, Weighed, Shape
<1>6. CASE CommitDelete(r)
  <2>1. DOMAIN GoneIndicator = RowFields
    BY DEF GoneIndicator, NoIndicator
  <2> QED
    BY <1>6, <2>1 DEF CommitDelete, With, Shape
<1>7. CASE CommitUpdateMetric(r) \/ CommitDeleteMetric(r)
  BY <1>7 DEF CommitUpdateMetric, CommitDeleteMetric, Shape
<1> QED
  BY <1>1, <1>2, <1>3, <1>4, <1>5, <1>6, <1>7 DEF Commit

\* Freed groups belong to nobody.
LEMMA ReleasedType ==
    ASSUME Shape, NEW r \in Requests
    PROVE  Released(r) \in [Objectives -> Requests \cup {Nobody}]
BY DEF Released, Shape

\* A lock is all that changes when a load takes a group.
LEMMA LockGroupShape ==
    ASSUME Shape, NEW r \in Requests, LockGroup(r)
    PROVE  Shape' /\ UNCHANGED <<indicator, req>>
BY DEF Shape, LockGroup, committed

\* The steps, by what they do to the indicators, the groups and the requests.
Quits(r) == Leaves(r) /\ UNCHANGED indicator
StepOf(r) ==
    \/ \E c \in Calls : BeginLoad(r, c)
    \/ Begins(r) /\ UNCHANGED <<indicator, owner>>
    \/ LockGroup(r)
    \/ NextMetric(r)
    \/ Commit(r) /\ Leaves(r)
    \/ Quits(r) /\ req[r].at = "publishing" /\ UNCHANGED owner
    \/ Quits(r) /\ owner' = Released(r)

\* Every step of the specification is one of these.
LEMMA NextSteps ==
    ASSUME Shape, [Next]_vars
    PROVE  UNCHANGED <<indicator, owner, req>> \/ \E r \in Requests : StepOf(r)
<1>1. ASSUME NEW r \in Requests, NEW c \in Calls, Begin(r, c) PROVE StepOf(r)
  BY <1>1, BeginBegins DEF StepOf
<1>2. ASSUME NEW r \in Requests, NEW c \in Calls, CreateMetric(r, c) \/ DeleteObjective(r, c)
      PROVE  UNCHANGED <<indicator, owner, req>>
  BY <1>2 DEF CreateMetric, DeleteObjective, committed
<1>3. ASSUME NEW r \in Requests, Commit(r) PROVE StepOf(r)
  BY <1>3, CommitLeaves DEF StepOf
<1>4. ASSUME NEW r \in Requests, Deliver(r) \/ LoseEvent(r) PROVE StepOf(r)
  BY <1>4, AfterEventLeaves DEF Deliver, LoseEvent, committed, StepOf, Quits
<1>5. ASSUME NEW r \in Requests, RollBack(r) PROVE StepOf(r)
  BY <1>5, RollBackLeaves DEF RollBack, committed, StepOf, Quits
<1>6. ASSUME NEW r \in Requests, LockGroup(r) \/ NextMetric(r) PROVE StepOf(r)
  BY <1>6 DEF StepOf
<1>7. UNCHANGED vars => UNCHANGED <<indicator, owner, req>>
  BY DEF vars, committed
<1> QED
  BY <1>1, <1>2, <1>3, <1>4, <1>5, <1>6, <1>7 DEF Next, Step

\* And keeps the shape.
LEMMA NextShape == ASSUME Shape, [Next]_vars PROVE Shape'
<1>1. ASSUME NEW r \in Requests, OthersKeep(r),
             req'[r].at = "begun" => req'[r].call \in Calls,
             req'[r].at = "recomputing" => req'[r].groups \subseteq Objectives,
             DOMAIN indicator' = Indicators,
             \A i \in Indicators : DOMAIN indicator'[i] = RowFields,
             owner' \in {owner, Released(r)}
      PROVE  Shape'
  BY <1>1, ReleasedType DEF Shape, OthersKeep
<1>2. ASSUME NEW r \in Requests, StepOf(r) PROVE Shape'
  <2>1. ASSUME NEW c \in Calls, BeginLoad(r, c) PROVE Shape'
    BY <2>1, <1>1, LoadBegins DEF Shape
  <2>2. CASE Begins(r) /\ UNCHANGED <<indicator, owner>>
    BY <2>2, <1>1 DEF Shape, Begins
  <2>3. CASE LockGroup(r)
    BY <2>3, LockGroupShape
  <2>4. CASE NextMetric(r)
    BY <2>4, <1>1, LoadContinues DEF Shape
  <2>5. CASE Commit(r) /\ Leaves(r)
    BY <2>5, <1>1, CommitRows DEF Leaves
  <2>6. CASE Quits(r) /\ owner' \in {owner, Released(r)}
    BY <2>6, <1>1 DEF Shape, Leaves, Quits
  <2> QED
    BY <1>2, <2>1, <2>2, <2>3, <2>4, <2>5, <2>6 DEF StepOf
<1>3. CASE UNCHANGED <<indicator, owner, req>>
  BY <1>3 DEF Shape
<1> QED
  BY <1>2, <1>3, NextSteps

-----------------------------------------------------------------------------
(***************************************************************************)
(* The weights of a group.                                                 *)
(***************************************************************************)
GroupInv == Shape /\ \A o \in Objectives : GroupValid(indicator, o)

\* A group whose members and weights stay is as valid as before.
LEMMA SameGroup ==
    ASSUME NEW old, NEW new, NEW o \in Objectives, GroupValid(old, o),
           \A i \in Indicators : ObjectiveOf[i] = o =>
               new[i].life = old[i].life /\ (new[i].life = "live" => new[i].weight = old[i].weight)
    PROVE  GroupValid(new, o)
<1>1. Group(new, o) = Group(old, o)
  BY DEF Group, LiveIndicators
<1>2. \A i \in Group(new, o) : new[i].weight = old[i].weight
  BY DEF Group, LiveIndicators
<1>3. [i \in Group(new, o) |-> new[i].weight] = [i \in Group(old, o) |-> old[i].weight]
  BY <1>1, <1>2
<1> QED
  BY <1>3 DEF GroupValid

\* So are the groups of the objectives a request writes no indicator of.
LEMMA OneRow ==
    ASSUME GroupInv, NEW i, NEW row, GroupValid(With(i, row), ObjectiveOf[i]),
           NEW o \in Objectives
    PROVE  GroupValid(With(i, row), o)
<1> SUFFICES ASSUME o # ObjectiveOf[i] PROVE GroupValid(With(i, row), o)
  OBVIOUS
<1>1. \A j \in Indicators : ObjectiveOf[j] = o => With(i, row)[j] = indicator[j]
  BY DEF With, GroupInv, Shape
<1> QED
  BY <1>1, SameGroup DEF GroupInv

\* New progress changes no group.
LEMMA OverlaidGroups ==
    ASSUME GroupInv, NEW progress, NEW o \in Objectives
    PROVE  GroupValid(Overlay(indicator, progress), o)
<1> DEFINE new == Overlay(indicator, progress)
<1>1. \A i \in Indicators : new[i].life = indicator[i].life /\ new[i].weight = indicator[i].weight
  BY DEF Overlay, GroupInv, Shape, RowFields
<1> HIDE DEF new
<1> QED
  BY <1>1, SameGroup DEF GroupInv, new

\* A commit leaves every group valid: the one it writes because it checks it, the
\* others because it leaves their members and their weights alone.
LEMMA CommitGroups ==
    ASSUME GroupInv, NEW r \in Requests, Commit(r), NEW o \in Objectives
    PROVE  GroupValid(indicator', o)
<1>1. CASE CommitLoad(r)
  BY <1>1, OverlaidGroups DEF CommitLoad, LoadRows
<1>2. CASE CommitCreate(r)
  BY <1>2, OneRow DEF CommitCreate
<1>3. CASE CommitUpdate(r)
  BY <1>3, OneRow DEF CommitUpdate, GroupInv
<1>4. CASE CommitPoints(r)
  <2>1. \A i \in Indicators :
          indicator'[i].life = indicator[i].life /\ indicator'[i].weight = indicator[i].weight
    BY <1>4 DEF CommitPoints, GroupInv, Shape, RowFields
  <2> QED
    BY <2>1, SameGroup DEF GroupInv
<1>5. CASE CommitWeights(r)
  <2> DEFINE c == req[r].call
  <2>1. /\ c.weights \in [DOMAIN c.weights -> Weight] /\ c.op = "set_weights"
        /\ DOMAIN c.weights = Group(indicator, c.objective)
        /\ ValidWeightGroup(c.weights)
    BY <1>5, CallsAssumption DEF CommitWeights, SameSiblingSet, GroupInv, Shape
  <2>2. \A i \in Indicators :
          /\ indicator'[i].life = indicator[i].life
          /\ indicator'[i].weight = IF i \in DOMAIN c.weights THEN c.weights[i]
                                    ELSE indicator[i].weight
    BY <1>5 DEF CommitWeights, Weighed, GroupInv, Shape, RowFields
  <2> HIDE DEF c
  <2>3. CASE o = c.objective
    <3>1. Group(indicator', o) = DOMAIN c.weights
      BY <2>1, <2>2, <2>3 DEF Group, LiveIndicators
    <3>2. \A i \in DOMAIN c.weights : indicator'[i].weight = c.weights[i]
      BY <2>1, <2>2 DEF Group, LiveIndicators
    <3>3. [i \in Group(indicator', o) |-> indicator'[i].weight] = c.weights
      BY <2>1, <3>1, <3>2
    <3> QED
      BY <2>1, <3>3 DEF GroupValid
  <2>4. CASE o # c.objective
    <3>1. \A i \in Indicators : ObjectiveOf[i] = o => i \notin DOMAIN c.weights
      BY <2>1, <2>4 DEF Group
    <3> QED
      BY <2>2, <3>1, SameGroup DEF GroupInv
  <2> QED
    BY <2>3, <2>4
<1>6. CASE CommitDelete(r)
  BY <1>6, OneRow DEF CommitDelete
<1>7. CASE CommitUpdateMetric(r) \/ CommitDeleteMetric(r)
  BY <1>7 DEF CommitUpdateMetric, CommitDeleteMetric, GroupInv
<1> QED
  BY <1>1, <1>2, <1>3, <1>4, <1>5, <1>6, <1>7 DEF Commit

\* No step leaves a group that is not valid.
LEMMA NextGroups == ASSUME GroupInv, [Next]_vars PROVE GroupInv'
<1>1. Shape'
  BY NextShape DEF GroupInv
<1>2. ASSUME NEW r \in Requests, StepOf(r) PROVE UNCHANGED indicator \/ Commit(r)
  BY <1>2, LoadBegins, LoadContinues, LockGroupShape DEF StepOf, Quits, GroupInv
<1>3. UNCHANGED indicator \/ \E r \in Requests : Commit(r)
  BY <1>2, NextSteps DEF GroupInv
<1> QED
  BY <1>1, <1>3, CommitGroups DEF GroupInv

\* However many requests create, edit, weigh and delete indicators and load
\* metrics at once, the weights of the indicators of an objective are all there
\* and sum to one hundred percent, or none is there (RN-P6;
\* objective-indicator.service.ts: validateGroupAndRecompute, setWeights).
THEOREM IndicatorWeights == Spec => []GroupsStayValid
<1>1. Init => GroupInv
  <2> SUFFICES ASSUME Init, NEW o \in Objectives PROVE GroupValid(indicator, o)
    BY InitShape DEF GroupInv
  <2>1. Group(indicator, o) = {}
    BY DEF Init, Quiet, Group, LiveIndicators, NoIndicator
  <2> QED
    BY <2>1 DEF GroupValid, ValidWeightGroup, WeightMode
<1>2. GroupInv /\ [Next]_vars => GroupInv'
  BY NextGroups
<1>3. GroupInv => GroupsStayValid
  BY DEF GroupInv, GroupsStayValid, GroupValid
<1> QED
  BY <1>1, <1>2, <1>3, PTL DEF Spec

-----------------------------------------------------------------------------
(***************************************************************************)
(* Deadlocks.  A load of one metric takes its groups in ascending order:   *)
(* what it holds is below what it waits for.                               *)
(***************************************************************************)
OnlyLoadsHold ==
    \A r \in Requests, o \in Objectives : owner[o] = r => req[r].at = "recomputing"

LoadOfOne(r) == req[r].at = "recomputing" /\ ~(Len(req[r].call.metrics) > 1)
TakenInOrder ==
    \A r \in Requests :
        LoadOfOne(r) =>
            /\ req[r].todo = req[r].call.metrics
            /\ \A o \in Objectives, p \in MissingGroups(r) : owner[o] = r => o < p

LockInv == Shape /\ OnlyLoadsHold /\ TakenInOrder

\* Among sets of groups there is a least one.
LEMMA LeastSet ==
    ASSUME NEW S, S # {}, NEW f \in [S -> SUBSET Objectives]
    PROVE  \E o \in S : \A p \in S : f[p] \subseteq f[o] => f[p] = f[o]
<1> DEFINE T == {f[o] : o \in S}
<1>1. T \subseteq SUBSET Objectives /\ T # {}
  OBVIOUS
<1>2. IsWellFoundedOn(StrictSubsetOrdering(Objectives), SUBSET Objectives)
  BY GroupAssumption, FS_FiniteSubsetsOfFinite, FS_StrictSubsetOrderingWellFounded
<1>3. PICK x \in T : \A y \in T : <<y, x>> \notin StrictSubsetOrdering(Objectives)
  <2> HIDE DEF T
  <2> QED
    BY <1>1, <1>2, WFMin
<1>4. PICK o \in S : x = f[o]
  OBVIOUS
<1>5. \A p \in S : f[p] \subseteq f[o] => f[p] = f[o]
  BY <1>3, <1>4 DEF StrictSubsetOrdering
<1> QED
  BY <1>5

\* So a set of groups has a highest one, with the fewest above, and a lowest.
LEMMA Highest ==
    ASSUME NEW S \in SUBSET Objectives, S # {}
    PROVE  \E o \in S : \A p \in S : p <= o
<1> DEFINE above == [o \in S |-> {p \in Objectives : p > o}]
<1>1. above \in [S -> SUBSET Objectives]
  OBVIOUS
<1>2. PICK o \in S : \A p \in S : above[p] \subseteq above[o] => above[p] = above[o]
  <2> HIDE DEF above
  <2> QED
    BY <1>1, LeastSet
<1>3. ASSUME NEW p \in S, ~(p <= o) PROVE FALSE
  <2>1. p \in Nat /\ o \in Nat /\ p > o
    BY <1>3, GroupAssumption
  <2>2. above[p] \subseteq above[o]
    <3> SUFFICES ASSUME NEW q \in Objectives, q > p PROVE q > o
      OBVIOUS
    <3> QED
      BY <2>1, GroupAssumption
  <2>3. p \in above[o] /\ p \notin above[p]
    BY <2>1
  <2> QED
    BY <1>2, <2>2, <2>3
<1> QED
  BY <1>3

\* A set of groups has a lowest.
LEMMA Lowest ==
    ASSUME NEW S \in SUBSET Objectives, S # {}
    PROVE  \E o \in S : \A p \in S : o <= p
<1> DEFINE below == [o \in S |-> {p \in Objectives : p < o}]
<1>1. below \in [S -> SUBSET Objectives]
  OBVIOUS
<1>2. PICK o \in S : \A p \in S : below[p] \subseteq below[o] => below[p] = below[o]
  <2> HIDE DEF below
  <2> QED
    BY <1>1, LeastSet
<1>3. ASSUME NEW p \in S, ~(o <= p) PROVE FALSE
  <2>1. p \in Nat /\ o \in Nat /\ p < o
    BY <1>3, GroupAssumption
  <2>2. below[p] \subseteq below[o]
    <3> SUFFICES ASSUME NEW q \in Objectives, q < p PROVE q < o
      OBVIOUS
    <3> QED
      BY <2>1, GroupAssumption
  <2>3. p \in below[o] /\ p \notin below[p]
    BY <2>1
  <2> QED
    BY <1>2, <2>2, <2>3
<1> QED
  BY <1>3

\* The next group of a load that misses one.
LEMMA NextGroupIsLowest ==
    ASSUME Shape, NEW r \in Requests, req[r].at = "recomputing", MissingGroups(r) # {}
    PROVE  /\ NextGroup(r) \in MissingGroups(r) /\ NextGroup(r) \in Objectives
           /\ \A p \in MissingGroups(r) : NextGroup(r) <= p
<1>1. MissingGroups(r) \subseteq Objectives
  BY DEF Shape, MissingGroups
<1>2. \E o \in MissingGroups(r) : \A p \in MissingGroups(r) : o <= p
  BY <1>1, Lowest
<1> QED
  BY <1>1, <1>2 DEF NextGroup

\* Every request holds the lowest groups of those it needs.
LEMMA NextLocks == ASSUME LockInv, [Next]_vars PROVE LockInv'
<1> USE DEF LockInv
<1>0. Shape'
  BY NextShape
<1>1. ASSUME NEW r \in Requests, OthersKeep(r), UNCHANGED owner,
             \A o \in Objectives : owner[o] = r => req'[r].at = "recomputing",
             LoadOfOne(r)' => /\ req'[r].todo = req'[r].call.metrics
                              /\ \A o \in Objectives : owner[o] # r
      PROVE  LockInv'
  <2>1. OnlyLoadsHold'
    BY <1>1 DEF OnlyLoadsHold, OthersKeep
  <2>2. TakenInOrder'
    BY <1>1 DEF TakenInOrder, LoadOfOne, MissingGroups, OthersKeep
  <2> QED
    BY <1>0, <2>1, <2>2
<1>2. ASSUME NEW r \in Requests, Leaves(r), owner' = Released(r) PROVE LockInv'
  <2>1. \A o \in Objectives : owner'[o] # r /\ \A q \in Requests \ {r} : owner'[o] = q <=> owner[o] = q
    BY <1>2, OwnersAssumption DEF Released, Shape
  <2>2. OnlyLoadsHold'
    BY <1>2, <2>1 DEF OnlyLoadsHold, Leaves, OthersKeep
  <2>3. \A q \in Requests \ {r} : \A o \in Objectives : o \in MissingGroups(q)' => o \in MissingGroups(q)
    BY <1>2, <2>1 DEF MissingGroups, Leaves, OthersKeep
  <2>4. ASSUME NEW q \in Requests, LoadOfOne(q)'
        PROVE  /\ req'[q].todo = req'[q].call.metrics
               /\ \A o \in Objectives, p \in MissingGroups(q)' : owner'[o] = q => o < p
    <3>1. q # r /\ LoadOfOne(q)
      BY <1>2, <2>4 DEF LoadOfOne, Leaves, OthersKeep
    <3>2. MissingGroups(q)' \subseteq Objectives
      BY <1>0, <2>4 DEF Shape, LoadOfOne, MissingGroups
    <3> QED
      BY <1>2, <2>1, <2>3, <3>1, <3>2 DEF TakenInOrder, Leaves, OthersKeep
  <2> QED
    BY <1>0, <2>2, <2>4 DEF TakenInOrder
<1>3. ASSUME NEW r \in Requests, LockGroup(r) PROVE LockInv'
  <2> DEFINE g == NextGroup(r)
  <2>1. /\ req[r].at = "recomputing" /\ UNCHANGED req
        /\ g \in MissingGroups(r) /\ g \in Objectives
        /\ \A p \in MissingGroups(r) : g <= p
        /\ owner[g] = Nobody /\ owner' = [owner EXCEPT ![g] = r]
    BY <1>3, NextGroupIsLowest DEF LockGroup
  <2> HIDE DEF g
  <2>2. \A o \in Objectives : owner'[o] = IF o = g THEN r ELSE owner[o]
    BY <2>1 DEF Shape
  <2>3. OnlyLoadsHold'
    BY <2>1, <2>2 DEF OnlyLoadsHold
  <2>4. ASSUME NEW q \in Requests, LoadOfOne(q)', NEW o \in Objectives, NEW p \in MissingGroups(q)',
               owner'[o] = q
        PROVE  o < p
    <3>1. LoadOfOne(q) /\ p \in Objectives
      BY <2>1, <2>4 DEF LoadOfOne, MissingGroups, Shape
    <3>2. p \in MissingGroups(q)
      BY <2>1, <2>2, <2>4, <3>1, OwnersAssumption DEF MissingGroups
    <3>3. CASE o = g
      <4>1. q = r
        BY <2>2, <2>4, <3>3
      <4>2. p # g
        BY <2>2, <2>4, <3>1, <4>1 DEF MissingGroups
      <4> QED
        BY <2>1, <3>1, <3>2, <3>3, <4>1, <4>2, GroupAssumption
    <3>4. CASE o # g
      BY <2>2, <2>4, <3>1, <3>2, <3>4 DEF TakenInOrder
    <3> QED
      BY <3>3, <3>4
  <2>5. \A q \in Requests : LoadOfOne(q)' => req'[q].todo = req'[q].call.metrics
    BY <2>1 DEF TakenInOrder, LoadOfOne
  <2> QED
    BY <1>0, <2>3, <2>4, <2>5 DEF TakenInOrder
<1>4. ASSUME NEW r \in Requests, StepOf(r) PROVE LockInv'
  <2>1. ASSUME NEW c \in Calls, BeginLoad(r, c) PROVE LockInv'
    BY <2>1, <1>1, LoadBegins DEF LoadOfOne, OnlyLoadsHold
  <2>2. CASE Begins(r) /\ UNCHANGED <<indicator, owner>>
    <3>1. \A o \in Objectives : owner[o] # r
      BY <2>2 DEF OnlyLoadsHold, Begins
    <3> QED
      BY <2>2, <3>1, <1>1 DEF Begins, LoadOfOne
  <2>3. CASE LockGroup(r)
    BY <2>3, <1>3
  <2>4. CASE NextMetric(r)
    <3>1. ~LoadOfOne(r)'
      <4> SUFFICES ASSUME LoadOfOne(r)' PROVE FALSE
        OBVIOUS
      <4>1. LoadOfOne(r) /\ Len(req[r].todo) > 1
        BY <2>4, LoadContinues DEF LoadOfOne, NextMetric, Recomputed
      <4> QED
        BY <4>1 DEF TakenInOrder, LoadOfOne
    <3> QED
      BY <2>4, <3>1, <1>1, LoadContinues
  <2>5. CASE Commit(r) /\ Leaves(r)
    <3>1. CASE owner' = Released(r)
      BY <2>5, <3>1, <1>2
    <3>2. CASE UNCHANGED owner /\ req[r].at = "begun"
      <4>1. \A o \in Objectives : owner[o] # r
        BY <3>2 DEF OnlyLoadsHold
      <4> QED
        BY <2>5, <3>2, <4>1, <1>1 DEF Leaves, LoadOfOne
    <3> QED
      BY <2>5, <3>1, <3>2, CommitRows
  <2>6. CASE Quits(r) /\ req[r].at = "publishing" /\ UNCHANGED owner
    <3>1. \A o \in Objectives : owner[o] # r
      BY <2>6 DEF OnlyLoadsHold
    <3> QED
      BY <2>6, <3>1, <1>1 DEF Quits, Leaves, LoadOfOne
  <2>7. CASE Quits(r) /\ owner' = Released(r)
    BY <2>7, <1>2 DEF Quits
  <2> QED
    BY <1>4, <2>1, <2>2, <2>3, <2>4, <2>5, <2>6, <2>7 DEF StepOf
<1>5. CASE UNCHANGED <<indicator, owner, req>>
  BY <1>0, <1>5 DEF OnlyLoadsHold, TakenInOrder, LoadOfOne, MissingGroups
<1> QED
  BY <1>4, <1>5, NextSteps

\* However many requests load however many metrics over however many
\* objectives, every circle of requests that wait for the groups of each other
\* has a reconciliation of several metrics in it: the loads of one metric alone
\* never wait for each other in a circle
\* (objective-indicator.service.ts: recomputeForMetric, lockObjectives).
THEOREM OneMetricLoads == Spec => []LoadsDoNotDeadlock
<1>1. Init => LockInv
  <2> SUFFICES ASSUME Init PROVE LockInv
    OBVIOUS
  <2>1. \A r \in Requests : req[r].at = "idle"
    BY IdleFields DEF Init, Quiet
  <2>2. \A o \in Objectives : owner[o] = Nobody
    BY DEF Init, Quiet
  <2> QED
    BY <2>1, <2>2, InitShape, OwnersAssumption
       DEF LockInv, OnlyLoadsHold, TakenInOrder, LoadOfOne
<1>2. LockInv /\ [Next]_vars => LockInv'
  BY NextLocks
<1>3. LockInv => LoadsDoNotDeadlock
  <2> SUFFICES ASSUME LockInv, NEW S \in SUBSET Requests, Entangled(S),
                      \A r \in S : ~(Len(req[r].call.metrics) > 1)
               PROVE  FALSE
    BY DEF LoadsDoNotDeadlock
  <2> DEFINE wanted == {NextGroup(r) : r \in S}
  <2>1. ASSUME NEW r \in S
        PROVE  \E q \in S : NextGroup(r) \in Objectives /\ NextGroup(r) < NextGroup(q)
    <3>1. PICK q \in S : WaitsFor(r, q)
      BY DEF Entangled
    <3>2. LoadOfOne(r) /\ MissingGroups(r) # {} /\ owner[NextGroup(r)] = q
      BY <3>1 DEF WaitsFor, LoadOfOne
    <3>3. LoadOfOne(q) /\ MissingGroups(q) # {}
      BY DEF Entangled, WaitsFor, LoadOfOne
    <3>4. NextGroup(r) \in Objectives /\ NextGroup(q) \in MissingGroups(q)
      BY <3>2, <3>3, NextGroupIsLowest DEF LockInv, LoadOfOne
    <3> QED
      BY <3>2, <3>3, <3>4 DEF LockInv, TakenInOrder
  <2>2. wanted \in SUBSET Objectives /\ wanted # {}
    BY <2>1 DEF Entangled
  <2>3. PICK r \in S : \A q \in S : NextGroup(q) <= NextGroup(r)
    BY <2>2, Highest
  <2>4. PICK q \in S : NextGroup(r) < NextGroup(q)
    BY <2>1
  <2>5. NextGroup(r) \in Nat /\ NextGroup(q) \in Nat /\ NextGroup(q) <= NextGroup(r)
    BY <2>1, <2>3, GroupAssumption
  <2> QED
    BY <2>4, <2>5
<1> QED
  BY <1>1, <1>2, <1>3, PTL DEF Spec

-----------------------------------------------------------------------------
(***************************************************************************)
(* What a list of events says, delivered in its order, and the order in    *)
(* which a commit publishes those of its groups.                           *)
(***************************************************************************)
\* The objectives a list of events tells of, and what the last of those about an
\* objective says of it.
Told(events) == {events[n].objective : n \in DOMAIN events}
LastSays(events, o, result) ==
    \E n \in DOMAIN events :
        /\ events[n].objective = o /\ events[n].result = result
        /\ \A k \in DOMAIN events : k > n => events[k].objective # o

\* Events that follow others have the last word.
LEMMA AppendedEvents ==
    ASSUME NEW X, NEW s \in Seq(X), NEW t \in Seq(X)
    PROVE  /\ s \o t \in Seq(X)
           /\ Told(s \o t) = Told(s) \cup Told(t)
           /\ \A o, x : LastSays(t, o, x) => LastSays(s \o t, o, x)
           /\ \A o, x : LastSays(s, o, x) /\ o \notin Told(t) => LastSays(s \o t, o, x)
<1> DEFINE u == s \o t
<1>1. /\ u \in Seq(X) /\ Len(u) = Len(s) + Len(t)
      /\ \A n \in 1 .. Len(s) : u[n] = s[n]
      /\ \A n \in 1 .. Len(t) : u[Len(s) + n] = t[n]
      /\ Len(s) \in Nat /\ Len(t) \in Nat
  BY ConcatProperties, LenProperties
<1>2. DOMAIN s = 1 .. Len(s) /\ DOMAIN t = 1 .. Len(t) /\ DOMAIN u = 1 .. Len(u)
  BY <1>1, LenProperties
<1> HIDE DEF u
<1>3. \A n \in 1 .. Len(u) : n \in 1 .. Len(s) \/ (n - Len(s) \in 1 .. Len(t) /\ u[n] = t[n - Len(s)])
  <2>1. ASSUME NEW n \in 1 .. Len(u), n \notin 1 .. Len(s)
        PROVE  n - Len(s) \in 1 .. Len(t) /\ n = Len(s) + (n - Len(s))
    BY <1>1, <2>1
  <2> QED
    BY <1>1, <2>1
<1>4. Told(u) = Told(s) \cup Told(t)
  <2>1. ASSUME NEW n \in 1 .. Len(s) PROVE n \in 1 .. Len(u)
    BY <1>1
  <2>2. ASSUME NEW n \in 1 .. Len(t) PROVE Len(s) + n \in 1 .. Len(u)
    BY <1>1
  <2>3. Told(s) \subseteq Told(u)
    <3>1. ASSUME NEW n \in DOMAIN s PROVE s[n].objective \in Told(u)
      <4>1. n \in DOMAIN u /\ u[n] = s[n]
        BY <1>1, <1>2, <2>1
      <4> QED
        BY <4>1 DEF Told
    <3> QED
      BY <3>1 DEF Told
  <2>4. Told(t) \subseteq Told(u)
    <3>1. ASSUME NEW n \in DOMAIN t PROVE t[n].objective \in Told(u)
      <4>1. Len(s) + n \in DOMAIN u /\ u[Len(s) + n] = t[n]
        BY <1>1, <1>2, <2>2
      <4> QED
        BY <4>1 DEF Told
    <3> QED
      BY <3>1 DEF Told
  <2>5. ASSUME NEW n \in DOMAIN u PROVE u[n].objective \in Told(s) \cup Told(t)
    <3>1. CASE n \in 1 .. Len(s)
      BY <1>1, <1>2, <3>1 DEF Told
    <3>2. CASE n \notin 1 .. Len(s)
      BY <1>2, <1>3, <3>2 DEF Told
    <3> QED
      BY <3>1, <3>2
  <2>6. Told(u) \subseteq Told(s) \cup Told(t)
    BY <2>5 DEF Told
  <2> QED
    BY <2>3, <2>4, <2>6
<1>5. ASSUME NEW o, NEW x, LastSays(t, o, x) PROVE LastSays(u, o, x)
  <2>1. PICK n \in 1 .. Len(t) : /\ t[n].objective = o /\ t[n].result = x
                                 /\ \A k \in 1 .. Len(t) : k > n => t[k].objective # o
    BY <1>2, <1>5 DEF LastSays
  <2>2. Len(s) + n \in DOMAIN u /\ u[Len(s) + n] = t[n]
    BY <1>1, <1>2
  <2>3. ASSUME NEW k \in DOMAIN u, k > Len(s) + n PROVE u[k].objective # o
    <3>1. k \notin 1 .. Len(s) /\ k \in 1 .. Len(u)
      BY <1>1, <1>2, <2>3
    <3>2. k - Len(s) \in 1 .. Len(t) /\ u[k] = t[k - Len(s)] /\ k - Len(s) > n
      BY <1>1, <1>3, <2>3, <3>1
    <3> QED
      BY <2>1, <3>2
  <2> QED
    BY <2>1, <2>2, <2>3 DEF LastSays
<1>6. ASSUME NEW o, NEW x, LastSays(s, o, x), o \notin Told(t) PROVE LastSays(u, o, x)
  <2>1. PICK n \in 1 .. Len(s) : /\ s[n].objective = o /\ s[n].result = x
                                 /\ \A k \in 1 .. Len(s) : k > n => s[k].objective # o
    BY <1>2, <1>6 DEF LastSays
  <2>2. n \in DOMAIN u /\ u[n] = s[n]
    BY <1>1, <1>2
  <2>3. ASSUME NEW k \in DOMAIN u, k > n PROVE u[k].objective # o
    BY <1>1, <1>2, <1>3, <1>6, <2>1, <2>3 DEF Told
  <2> QED
    BY <2>1, <2>2, <2>3 DEF LastSays
<1> QED
  BY <1>1, <1>4, <1>5, <1>6 DEF u

\* When the first event is delivered, the rest still says the last word on the
\* objectives it tells of, and the first was the last word on its own otherwise.
LEMMA DeliveredEvents ==
    ASSUME NEW X, NEW s \in Seq(X), s # <<>>
    PROVE  /\ Tail(s) \in Seq(X) /\ Head(s) = s[1]
           /\ Told(s) = Told(Tail(s)) \cup {Head(s).objective}
           /\ \A o, x : LastSays(s, o, x) =>
                 \/ o \in Told(Tail(s)) /\ LastSays(Tail(s), o, x)
                 \/ o \notin Told(Tail(s)) /\ Head(s).objective = o /\ Head(s).result = x
<1> DEFINE u == Tail(s)
<1>1. /\ u \in Seq(X) /\ Len(s) \in Nat \ {0} /\ Len(u) = Len(s) - 1
      /\ Head(s) = s[1]
      /\ \A n \in 1 .. Len(u) : u[n] = s[n + 1]
      /\ DOMAIN s = 1 .. Len(s) /\ DOMAIN u = 1 .. Len(u)
  BY HeadTailProperties, LenProperties, EmptySeq
<1> HIDE DEF u
<1>2. \A n \in 1 .. Len(s) : n = 1 \/ (n - 1 \in 1 .. Len(u) /\ u[n - 1] = s[n])
  <2>1. ASSUME NEW n \in 1 .. Len(s), n # 1 PROVE n - 1 \in 1 .. Len(u) /\ n = (n - 1) + 1
    BY <1>1, <2>1
  <2> QED
    BY <1>1, <2>1
<1>3. Told(s) = Told(u) \cup {Head(s).objective}
  <2>1. \A n \in 1 .. Len(u) : n + 1 \in 1 .. Len(s)
    BY <1>1
  <2>2. Told(u) \subseteq Told(s)
    BY <1>1, <2>1 DEF Told
  <2>3. 1 \in DOMAIN s
    BY <1>1
  <2>4. Head(s).objective \in Told(s)
    BY <1>1, <2>3 DEF Told
  <2>5. ASSUME NEW n \in DOMAIN s PROVE s[n].objective \in Told(u) \cup {Head(s).objective}
    <3>1. CASE n = 1
      BY <1>1, <3>1
    <3>2. CASE n # 1
      <4>1. n - 1 \in DOMAIN u /\ u[n - 1] = s[n]
        BY <1>1, <1>2, <3>2
      <4> QED
        BY <4>1 DEF Told
    <3> QED
      BY <3>1, <3>2
  <2>6. Told(s) \subseteq Told(u) \cup {Head(s).objective}
    BY <2>5 DEF Told
  <2> QED
    BY <2>2, <2>4, <2>6
<1>4. ASSUME NEW o, NEW x, LastSays(s, o, x)
      PROVE  \/ o \in Told(u) /\ LastSays(u, o, x)
             \/ o \notin Told(u) /\ Head(s).objective = o /\ Head(s).result = x
  <2>1. PICK n \in 1 .. Len(s) : /\ s[n].objective = o /\ s[n].result = x
                                 /\ \A k \in 1 .. Len(s) : k > n => s[k].objective # o
    BY <1>1, <1>4 DEF LastSays
  <2>2. \A k \in 1 .. Len(u) : k + 1 \in 1 .. Len(s) /\ u[k] = s[k + 1]
    BY <1>1
  <2>3. CASE n = 1
    <3>1. \A k \in 1 .. Len(u) : u[k].objective # o
      BY <2>1, <2>2, <2>3
    <3> QED
      BY <1>1, <2>1, <2>3, <3>1 DEF Told
  <2>4. CASE n # 1
    <3>1. n - 1 \in DOMAIN u /\ u[n - 1] = s[n]
      BY <1>1, <1>2, <2>4
    <3>2. ASSUME NEW k \in DOMAIN u, k > n - 1 PROVE u[k].objective # o
      <4>1. k + 1 > n
        BY <1>1, <3>2
      <4> QED
        BY <1>1, <2>1, <2>2, <4>1
    <3> QED
      BY <2>1, <3>1, <3>2 DEF LastSays, Told
  <2> QED
    BY <2>3, <2>4
<1> QED
  BY <1>1, <1>3, <1>4 DEF u

-----------------------------------------------------------------------------
\* The objectives of a set have one order, and every one has its place in it.
InAscent(s, S) ==
    /\ s \in [1 .. Cardinality(S) -> S]
    /\ \A a, b \in DOMAIN s : a < b => s[a] < s[b]

\* Any groups can be put in the order of their ids, one at a time from the highest.
LEMMA OrderExists == \A S \in SUBSET Objectives : \E s : InAscent(s, S)
<1> DEFINE Good == {S \in SUBSET Objectives : \E s : InAscent(s, S)}
<1>1. ASSUME NEW T \in SUBSET Objectives, \A U \in SUBSET T : U # T => U \in Good
      PROVE  T \in Good
  <2>1. IsFiniteSet(T)
    BY GroupAssumption, FS_Subset
  <2>2. CASE T = {}
    <3>1. Cardinality(T) = 0
      BY <2>2, FS_EmptySet
    <3>2. InAscent([n \in 1 .. 0 |-> 0], T)
      BY <3>1 DEF InAscent
    <3> QED
      BY <3>2
  <2>3. CASE T # {}
    <3>1. PICK o \in T : \A p \in T : p <= o
      BY <2>3, Highest
    <3> DEFINE U == T \ {o}
               c == Cardinality(T)
    <3>2. PICK s : InAscent(s, U)
      BY <1>1, <3>1
    <3>3. Cardinality(U) = c - 1 /\ c \in Nat \ {0}
      BY <2>1, <3>1, FS_RemoveElement, FS_CardinalityType, FS_EmptySet
    <3> HIDE DEF c
    <3>4. DOMAIN s = 1 .. (c - 1) /\ \A n \in 1 .. (c - 1) : s[n] \in T /\ s[n] # o
      BY <3>2, <3>3 DEF InAscent
    <3> DEFINE t == [n \in 1 .. c |-> IF n = c THEN o ELSE s[n]]
    <3>5. t \in [1 .. c -> T]
      BY <3>1, <3>3, <3>4
    <3>6. ASSUME NEW a \in 1 .. c, NEW b \in 1 .. c, a < b PROVE t[a] < t[b]
      <4>1. a \in 1 .. (c - 1) /\ t[a] = s[a]
        BY <3>3, <3>6
      <4>2. CASE b = c
        <5>1. s[a] \in Nat /\ o \in Nat /\ s[a] <= o /\ s[a] # o
          BY <3>1, <3>4, <4>1, GroupAssumption
        <5> QED
          BY <4>1, <4>2, <5>1
      <4>3. CASE b # c
        <5>1. b \in 1 .. (c - 1) /\ t[b] = s[b]
          BY <3>3, <4>3
        <5> QED
          BY <3>2, <3>4, <3>6, <4>1, <5>1 DEF InAscent
      <4> QED
        BY <4>2, <4>3
    <3> HIDE DEF t
    <3>7. DOMAIN t = 1 .. c
      BY <3>5
    <3>8. InAscent(t, T)
      BY <3>5, <3>6, <3>7 DEF InAscent, c
    <3> QED
      BY <3>8
  <2> QED
    BY <2>2, <2>3
<1>2. Good \in SUBSET SUBSET Objectives
  OBVIOUS
<1> HIDE DEF Good
<1>3. \A S \in SUBSET Objectives : S \in Good
  BY <1>1, <1>2, GroupAssumption, SetInduction
<1> QED
  BY <1>3 DEF Good

\* The order a load publishes in leaves out no group.
LEMMA InOrderIsOnto ==
    ASSUME NEW S \in SUBSET Objectives
    PROVE  /\ Cardinality(S) \in Nat
           /\ InAscent(InOrder(S), S)
           /\ \A o \in S : \E n \in 1 .. Cardinality(S) : InOrder(S)[n] = o
<1> DEFINE s == InOrder(S)
           c == Cardinality(S)
<1>1. IsFiniteSet(S) /\ c \in Nat
  BY GroupAssumption, FS_Subset, FS_CardinalityType
<1>2. InAscent(s, S)
  <2>1. PICK t : InAscent(t, S)
    BY OrderExists
  <2>2. t \in [1 .. Cardinality(S) -> S] /\ \A a, b \in DOMAIN t : a < b => t[a] < t[b]
    BY <2>1 DEF InAscent
  <2>3. /\ s \in [1 .. Cardinality(S) -> S]
        /\ \A a, b \in DOMAIN s : a < b => s[a] < s[b]
    BY <2>2 DEF InOrder
  <2> QED
    BY <2>3 DEF InAscent
<1> HIDE DEF s
<1>3. s \in [1 .. c -> S] /\ DOMAIN s = 1 .. c
  BY <1>2 DEF InAscent
<1>4. s \in Injection(1 .. c, S)
  <2>1. ASSUME NEW a \in 1 .. c, NEW b \in 1 .. c, s[a] = s[b] PROVE a = b
    <3>1. s[a] \in Nat /\ s[b] \in Nat
      BY <1>3, GroupAssumption
    <3>2. a < b \/ b < a \/ a = b
      BY <1>1
    <3> QED
      BY <1>2, <1>3, <2>1, <3>1, <3>2 DEF InAscent
  <2> HIDE DEF c
  <2> QED
    BY <1>3, <2>1 DEF Injection, IsInjective
<1>5. IsFiniteSet(1 .. c) /\ Cardinality(1 .. c) = c
  BY <1>1, FS_Interval
<1>6. s \in Surjection(1 .. c, S)
  BY <1>1, <1>4, <1>5, FS_Injection
<1> QED
  BY <1>1, <1>2, <1>6 DEF s, Surjection

\* The events of a commit: one for each group, with its result.
LEMMA EventsTell ==
    ASSUME NEW rows, NEW S \in SUBSET Objectives
    PROVE  /\ \E X : Events(rows, S) \in Seq(X)
           /\ Told(Events(rows, S)) = S
           /\ \A o \in S : LastSays(Events(rows, S), o, Aggregate(rows, o))
           /\ S # {} => Events(rows, S) # <<>>
<1> DEFINE s == InOrder(S)
           c == Cardinality(S)
           e == Events(rows, S)
<1>1. c \in Nat /\ InAscent(s, S) /\ \A o \in S : \E n \in 1 .. c : s[n] = o
  BY InOrderIsOnto
<1>2. s \in [1 .. c -> S] /\ DOMAIN s = 1 .. c
  BY <1>1 DEF InAscent
<1>3. e = [n \in 1 .. c |-> Event(rows, s[n])]
  BY DEF Events
<1> HIDE DEF s, e, c
<1>4. DOMAIN e = 1 .. c /\ \A n \in 1 .. c : e[n].objective = s[n] /\ e[n].result = Aggregate(rows, s[n])
  BY <1>3 DEF Event
<1>5. e \in Seq({e[n] : n \in 1 .. c})
  BY <1>1, <1>3, IsASeq
<1>6. Told(e) = S
  BY <1>1, <1>2, <1>4 DEF Told
<1>7. ASSUME NEW o \in S PROVE LastSays(e, o, Aggregate(rows, o))
  <2>1. PICK n \in 1 .. c : s[n] = o
    BY <1>1
  <2>2. ASSUME NEW k \in 1 .. c, k > n PROVE s[k] # o
    <3>1. s[n] < s[k] /\ s[n] \in Nat /\ s[k] \in Nat
      BY <1>1, <1>2, <2>2, GroupAssumption DEF InAscent
    <3> QED
      BY <2>1, <3>1
  <2> QED
    BY <1>4, <2>1, <2>2 DEF LastSays
<1>8. S # {} => e # <<>>
  BY <1>6 DEF Told
<1> QED
  BY <1>5, <1>6, <1>7, <1>8 DEF e
-----------------------------------------------------------------------------
(***************************************************************************)
(* The result okr shows.  Of the requests that publish, one at most tells  *)
(* of an objective that is not behind, and its last word is the result of  *)
(* the group as it is; a load that goes on keeps the groups it has events  *)
(* for locked, so those events stay right until it commits.                *)
(***************************************************************************)
Waiting(r, o) == req[r].at = "publishing" /\ o \in Told(req[r].outbox)

\* What request r will publish, so far.
OutboxHolds(r) ==
    /\ \E X : req[r].outbox \in Seq(X)
    /\ req[r].at \in {"recomputing", "publishing"} => Told(req[r].outbox) \subseteq Objectives
    /\ req[r].at = "publishing" => req[r].outbox # <<>>
    /\ req[r].at = "recomputing" =>
         /\ \A o \in Told(req[r].outbox) :
              /\ owner[o] = r
              /\ LastSays(req[r].outbox, o, Aggregate(Overlay(indicator, req[r].draft), o))
         /\ \A i \in DOMAIN req[r].draft : i \in Indicators /\ ObjectiveOf[i] \in Told(req[r].outbox)
         /\ \A i \in DOMAIN req[r].wanted : i \in Indicators /\ ObjectiveOf[i] \in req[r].groups

ResultFollows(o) ==
    /\ (\A r \in Requests : ~Waiting(r, o)) => objective[o].result = Aggregate(indicator, o)
    /\ \A r \in Requests : Waiting(r, o) =>
         /\ LastSays(req[r].outbox, o, Aggregate(indicator, o))
         /\ \A q \in Requests \ {r} : ~Waiting(q, o)

ObjectivesShape ==
    /\ DOMAIN objective = Objectives
    /\ \A o \in Objectives : DOMAIN objective[o] = {"live", "result"}

OkrInv ==
    /\ Shape /\ ObjectivesShape
    /\ \A r \in Requests : OutboxHolds(r)
    /\ \A o \in Objectives \ behind : objective[o].live => ResultFollows(o)

\* The rows of a group are the same for its result.
SameRows(new, old, o) ==
    \A i \in Indicators : ObjectiveOf[i] = o =>
        /\ new[i].life = old[i].life
        /\ new[i].weight = old[i].weight
        /\ new[i].progress = old[i].progress

\* A group whose rows stay has the result it had.
LEMMA SameAggregate ==
    ASSUME NEW new, NEW old, NEW o, SameRows(new, old, o)
    PROVE  Aggregate(new, o) = Aggregate(old, o)
<1>1. Group(new, o) = Group(old, o)
  BY DEF SameRows, Group, LiveIndicators
<1>2. \A i \in Group(new, o) : new[i].weight = old[i].weight /\ new[i].progress = old[i].progress
  BY DEF SameRows, Group, LiveIndicators
<1>3. [i \in Group(new, o) |-> [weight |-> new[i].weight, progress |-> new[i].progress]]
        = [i \in Group(old, o) |-> [weight |-> old[i].weight, progress |-> old[i].progress]]
  BY <1>1, <1>2
<1> QED
  BY <1>3 DEF Aggregate

\* So are they under what a load wrote so far.
LEMMA SameOverlay ==
    ASSUME NEW new, NEW old, NEW o, NEW draft, SameRows(new, old, o),
           \A i \in Indicators : DOMAIN new[i] = RowFields /\ DOMAIN old[i] = RowFields
    PROVE  SameRows(Overlay(new, draft), Overlay(old, draft), o)
BY DEF SameRows, Overlay, RowFields

\* The reading of recomputeForMetric changes what is wanted and nothing else.
LEMMA SnapshotTakes ==
    ASSUME NEW rq, DOMAIN rq = RequestFields, NEW rows, NEW m
    PROVE  LET s == Snapshot(rq, rows, m)
           IN  /\ s.at = rq.at /\ s.call = rq.call /\ s.todo = rq.todo /\ s.draft = rq.draft
               /\ s.outbox = rq.outbox /\ s.fresh = rq.fresh
               /\ DOMAIN s.wanted \subseteq LinksOf(rows, m)
               /\ s.groups = {ObjectiveOf[i] : i \in LinksOf(rows, m)}
<1> DEFINE links == LinksOf(rows, m)
           new == [i \in links |->
                     ProgressOf(Written(rq.call), m, metric[m].baseline, rows[i].target)]
           w == [i \in {j \in links : new[j] # rows[j].progress} |-> new[i]]
<1>1. Snapshot(rq, rows, m) = [rq EXCEPT !.wanted = w, !.groups = {ObjectiveOf[i] : i \in links}]
  BY DEF Snapshot
<1>2. DOMAIN w \subseteq links
  OBVIOUS
<1> HIDE DEF w, links
<1> QED
  BY <1>1, <1>2 DEF RequestFields, links

\* A request keeps what it will publish while others leave its groups alone.
LEMMA OutboxKept ==
    ASSUME OkrInv, Shape', NEW r \in Requests, OthersKeep(r), NEW q \in Requests \ {r},
           \A o \in Objectives : owner[o] = q => owner'[o] = q /\ SameRows(indicator', indicator, o)
    PROVE  OutboxHolds(q)'
<1>1. /\ req'[q].at = req[q].at /\ req'[q].outbox = req[q].outbox /\ req'[q].draft = req[q].draft
      /\ req'[q].wanted = req[q].wanted /\ req'[q].groups = req[q].groups
  BY DEF OthersKeep
<1>2. OutboxHolds(q)
  BY DEF OkrInv
<1>3. ASSUME req[q].at = "recomputing", NEW o \in Told(req[q].outbox)
      PROVE  /\ owner'[o] = q
             /\ LastSays(req[q].outbox, o, Aggregate(Overlay(indicator', req[q].draft), o))
  <2>1. o \in Objectives /\ owner[o] = q
        /\ LastSays(req[q].outbox, o, Aggregate(Overlay(indicator, req[q].draft), o))
    BY <1>2, <1>3 DEF OutboxHolds
  <2>2. SameRows(Overlay(indicator', req[q].draft), Overlay(indicator, req[q].draft), o)
    BY <2>1, SameOverlay DEF OkrInv, Shape
  <2>3. Aggregate(Overlay(indicator', req[q].draft), o) = Aggregate(Overlay(indicator, req[q].draft), o)
    BY <2>2, SameAggregate
  <2> QED
    BY <2>1, <2>3
<1> QED
  BY <1>1, <1>2, <1>3 DEF OutboxHolds

\* A step of a request that publishes nothing before or after, and writes no
\* row, disturbs no result.
LEMMA SilentStep ==
    ASSUME OkrInv, Shape', ObjectivesShape', NEW r \in Requests, OthersKeep(r),
           req[r].at # "publishing", req'[r].at # "publishing",
           UNCHANGED <<indicator, behind>>,
           \A o \in Objectives : objective'[o].live =>
               objective[o].live /\ objective'[o].result = objective[o].result,
           \A o \in Objectives, q \in Requests \ {r} : owner[o] = q => owner'[o] = q,
           OutboxHolds(r)'
    PROVE  OkrInv'
<1>1. ASSUME NEW q \in Requests \ {r} PROVE OutboxHolds(q)'
  <2>1. \A o \in Objectives : SameRows(indicator', indicator, o)
    BY DEF SameRows
  <2> QED
    BY <2>1, OutboxKept
<1>2. \A q \in Requests, o \in Objectives : Waiting(q, o)' <=> Waiting(q, o)
  BY DEF Waiting, OthersKeep
<1>3. \A q \in Requests, o \in Objectives : Waiting(q, o) => req'[q].outbox = req[q].outbox
  BY DEF Waiting, OthersKeep
<1>4. ASSUME NEW o \in Objectives \ behind', objective'[o].live PROVE ResultFollows(o)'
  <2>1. ResultFollows(o) /\ objective'[o].result = objective[o].result
    BY <1>4 DEF OkrInv
  <2>2. Aggregate(indicator, o)' = Aggregate(indicator, o)
    BY DEF Aggregate, Group, LiveIndicators
  <2> QED
    BY <1>2, <1>3, <2>1, <2>2 DEF ResultFollows
<1>5. \A q \in Requests : OutboxHolds(q)'
  BY <1>1
<1> QED
  BY <1>4, <1>5 DEF OkrInv

\* What a commit writes is in groups that are free or that it holds.
LEMMA CommitWrites ==
    ASSUME OkrInv, NEW r \in Requests, Commit(r), NEW o \in Objectives,
           owner[o] # Nobody, owner[o] # r
    PROVE  SameRows(indicator', indicator, o)
<1>1. CASE CommitLoad(r)
  <2>1. \A i \in DOMAIN Drafted(r) : i \in Indicators => owner[ObjectiveOf[i]] = r
    <3>1. OutboxHolds(r) /\ req[r].at = "recomputing" /\ MissingGroups(r) = {}
      BY <1>1 DEF OkrInv, CommitLoad, Recomputed
    <3>2. \A i \in DOMAIN req[r].draft : owner[ObjectiveOf[i]] = r
      BY <3>1 DEF OutboxHolds
    <3>3. \A i \in DOMAIN req[r].wanted : owner[ObjectiveOf[i]] = r
      BY <3>1 DEF OutboxHolds, MissingGroups
    <3> QED
      BY <3>2, <3>3 DEF Drafted
  <2> DEFINE progress == Drafted(r)
  <2>2. indicator' = Overlay(indicator, progress)
    BY <1>1 DEF CommitLoad, LoadRows
  <2>3. \A i \in DOMAIN progress : i \in Indicators => owner[ObjectiveOf[i]] = r
    BY <2>1
  <2> HIDE DEF progress
  <2> QED
    BY <2>2, <2>3 DEF SameRows, Overlay
<1>2. CASE CommitCreate(r)
  BY <1>2 DEF CommitCreate, With, SameRows, OkrInv, Shape
<1>3. CASE CommitUpdate(r)
  BY <1>3 DEF CommitUpdate, With, SameRows, OkrInv, Shape
<1>4. CASE CommitPoints(r)
  BY <1>4 DEF CommitPoints, SameRows, OkrInv, Shape, RowFields
<1>5. CASE CommitWeights(r)
  <2>1. DOMAIN req[r].call.weights = Group(indicator, req[r].call.objective) /\ o # req[r].call.objective
    BY <1>5 DEF CommitWeights, SameSiblingSet
  <2>2. \A i \in Indicators : ObjectiveOf[i] = o => i \notin DOMAIN req[r].call.weights
    BY <2>1 DEF Group
  <2> QED
    BY <1>5, <2>2 DEF CommitWeights, Weighed, SameRows
<1>6. CASE CommitDelete(r)
  BY <1>6 DEF CommitDelete, With, SameRows, OkrInv, Shape
<1>7. CASE CommitUpdateMetric(r) \/ CommitDeleteMetric(r)
  BY <1>7 DEF CommitUpdateMetric, CommitDeleteMetric, SameRows
<1> QED
  BY <1>1, <1>2, <1>3, <1>4, <1>5, <1>6, <1>7 DEF Commit

\* What a commit publishes: the results of the groups it changed, as it leaves
\* them.
Tells(sent) ==
    /\ \E X : sent \in Seq(X)
    /\ Told(sent) \subseteq Objectives
    /\ \A o \in Objectives :
         \/ o \in Told(sent) /\ LastSays(sent, o, Aggregate(indicator', o))
         \/ o \notin Told(sent) /\ Aggregate(indicator', o) = Aggregate(indicator, o)

\* A commit without events has to change no result.
LEMMA NoEventTells ==
    ASSUME \A o \in Objectives : SameRows(indicator', indicator, o)
    PROVE  Tells(<<>>)
<1>1. Told(<<>>) = {} /\ <<>> \in Seq({})
  BY DEF Told
<1> QED
  BY <1>1, SameAggregate DEF Tells

\* A commit with one event may change the result it tells of.
LEMMA OneEventTells ==
    ASSUME NEW g \in Objectives, \A o \in Objectives \ {g} : SameRows(indicator', indicator, o)
    PROVE  Tells(Events(indicator', {g}))
BY EventsTell, SameAggregate DEF Tells

\* The events of a load, those of the metrics before and those of the last one.
LEMMA LoadTells ==
    ASSUME OkrInv, NEW r \in Requests, Recomputed(r)
    PROVE  /\ \E X : LoadOutbox(r) \in Seq(X)
           /\ Told(LoadOutbox(r)) = Told(req[r].outbox) \cup req[r].groups
           /\ Told(LoadOutbox(r)) \subseteq Objectives
           /\ \A o \in Told(LoadOutbox(r)) :
                 owner[o] = r /\ LastSays(LoadOutbox(r), o, Aggregate(LoadRows(r), o))
           /\ \A i \in DOMAIN Drafted(r) : i \in Indicators /\ ObjectiveOf[i] \in Told(LoadOutbox(r))
<1> DEFINE rows == LoadRows(r)
           s == req[r].outbox
           t == Events(rows, req[r].groups)
           d == req[r].draft
           w == req[r].wanted
<1>1. OutboxHolds(r) /\ req[r].at = "recomputing" /\ MissingGroups(r) = {}
      /\ req[r].groups \subseteq Objectives
  BY DEF OkrInv, Recomputed, Shape
<1>2. /\ \E X : t \in Seq(X)
      /\ Told(t) = req[r].groups
      /\ \A o \in req[r].groups : LastSays(t, o, Aggregate(rows, o))
  BY <1>1, EventsTell
<1>3. PICK X, Y : s \in Seq(X) /\ t \in Seq(Y)
  BY <1>1, <1>2 DEF OutboxHolds
<1>4. s \in Seq(X \cup Y) /\ t \in Seq(X \cup Y)
  <2> HIDE DEF s, t
  <2> QED
    BY <1>3, SeqMonotonic
<1>5. /\ s \o t \in Seq(X \cup Y)
      /\ Told(s \o t) = Told(s) \cup Told(t)
      /\ \A o, x : LastSays(t, o, x) => LastSays(s \o t, o, x)
      /\ \A o, x : LastSays(s, o, x) /\ o \notin Told(t) => LastSays(s \o t, o, x)
  <2> HIDE DEF s, t
  <2> QED
    BY <1>4, AppendedEvents
<1>6. LoadOutbox(r) = s \o t
  BY DEF LoadOutbox
<1>7. \A i \in DOMAIN Drafted(r) : i \in DOMAIN w \/ i \in DOMAIN d
  BY DEF Drafted
<1>8. \A i \in DOMAIN Drafted(r) : i \in Indicators /\ ObjectiveOf[i] \in Told(s) \cup req[r].groups
  BY <1>1, <1>7 DEF OutboxHolds
<1>9. ASSUME NEW o \in Told(s), o \notin req[r].groups
      PROVE  LastSays(s, o, Aggregate(rows, o))
  <2>1. LastSays(s, o, Aggregate(Overlay(indicator, d), o))
    BY <1>1, <1>9 DEF OutboxHolds
  <2>2. \A i \in Indicators : ObjectiveOf[i] = o =>
          /\ i \in DOMAIN Drafted(r) <=> i \in DOMAIN d
          /\ i \in DOMAIN d => Drafted(r)[i] = d[i]
    BY <1>1, <1>9 DEF OutboxHolds, Drafted
  <2> DEFINE e == Drafted(r)
  <2>3. SameRows(Overlay(indicator, e), Overlay(indicator, d), o)
    <3> HIDE DEF e, d
    <3> QED
      BY <2>2 DEF SameRows, Overlay, e
  <2>4. Aggregate(rows, o) = Aggregate(Overlay(indicator, d), o)
    BY <2>3, SameAggregate DEF LoadRows
  <2> QED
    BY <2>1, <2>4
<1>10. \A o \in Told(s) \cup req[r].groups : o \in Objectives /\ owner[o] = r
  BY <1>1 DEF OutboxHolds, MissingGroups
<1>11. \A o \in Told(s) \cup Told(t) : LastSays(s \o t, o, Aggregate(rows, o))
  BY <1>2, <1>5, <1>9
<1> QED
  BY <1>2, <1>5, <1>6, <1>8, <1>10, <1>11

\* Every commit publishes the results it changes, as it leaves them.
LEMMA CommitTells ==
    ASSUME OkrInv, NEW r \in Requests, Commit(r)
    PROVE  \E sent : Finish(r, sent) /\ Tells(sent)
<1>1. CASE CommitLoad(r)
  <2>1. /\ \E X : LoadOutbox(r) \in Seq(X)
        /\ Told(LoadOutbox(r)) \subseteq Objectives
        /\ \A o \in Told(LoadOutbox(r)) : LastSays(LoadOutbox(r), o, Aggregate(LoadRows(r), o))
        /\ \A i \in DOMAIN Drafted(r) : i \in Indicators /\ ObjectiveOf[i] \in Told(LoadOutbox(r))
    BY <1>1, LoadTells DEF CommitLoad
  <2>2. indicator' = LoadRows(r) /\ Finish(r, LoadOutbox(r))
    BY <1>1 DEF CommitLoad
  <2>3. ASSUME NEW o \in Objectives, o \notin Told(LoadOutbox(r))
        PROVE  Aggregate(indicator', o) = Aggregate(indicator, o)
    <3>1. \A i \in Indicators : ObjectiveOf[i] = o => i \notin DOMAIN Drafted(r)
      BY <2>1, <2>3
    <3>2. SameRows(indicator', indicator, o)
      <4> DEFINE e == Drafted(r)
      <4>1. indicator' = Overlay(indicator, e) /\ \A i \in Indicators : ObjectiveOf[i] = o => i \notin DOMAIN e
        BY <2>2, <3>1 DEF LoadRows
      <4> HIDE DEF e
      <4> QED
        BY <4>1 DEF SameRows, Overlay
    <3> QED
      BY <3>2, SameAggregate
  <2>4. Tells(LoadOutbox(r))
    BY <2>1, <2>2, <2>3 DEF Tells
  <2> QED
    BY <2>2, <2>4
<1>2. ASSUME NEW i \in Indicators, Finish(r, Events(indicator', {ObjectiveOf[i]})),
             (\E row : indicator' = With(i, row)) \/ UNCHANGED indicator
      PROVE  \E sent : Finish(r, sent) /\ Tells(sent)
  <2>1. ObjectiveOf[i] \in Objectives
    BY PairsAssumption
  <2>2. \A o \in Objectives \ {ObjectiveOf[i]} : SameRows(indicator', indicator, o)
    BY <1>2 DEF With, SameRows, OkrInv, Shape
  <2> QED
    BY <1>2, <2>1, <2>2, OneEventTells
<1>3. ASSUME NEW i \in Indicators, i = req[r].call.indicator,
             CommitCreate(r) \/ CommitUpdate(r) \/ CommitDelete(r)
      PROVE  \E sent : Finish(r, sent) /\ Tells(sent)
  <2>1. Finish(r, Events(indicator', {ObjectiveOf[i]}))
    BY <1>3 DEF CommitCreate, CommitUpdate, CommitDelete
  <2>2. (\E row : indicator' = With(i, row)) \/ UNCHANGED indicator
    BY <1>3 DEF CommitCreate, CommitUpdate, CommitDelete
  <2> QED
    BY <1>2, <2>1, <2>2
<1>4. CASE CommitCreate(r) \/ CommitUpdate(r) \/ CommitDelete(r)
  <2> DEFINE i == req[r].call.indicator
  <2>1. i \in Indicators
    BY <1>4, CallsAssumption DEF OkrInv, Shape, CommitCreate, CommitUpdate, CommitDelete
  <2> HIDE DEF i
  <2>2. i = req[r].call.indicator
    BY DEF i
  <2> QED
    BY <1>3, <1>4, <2>1, <2>2
<1>5. CASE CommitPoints(r)
  <2>1. \A o \in Objectives : SameRows(indicator', indicator, o)
    BY <1>5 DEF CommitPoints, SameRows, OkrInv, Shape, RowFields
  <2> QED
    BY <1>5, <2>1, NoEventTells DEF CommitPoints
<1>6. CASE CommitWeights(r)
  <2> DEFINE o == req[r].call.objective
  <2>1. o \in Objectives
    BY <1>6, CallsAssumption DEF OkrInv, Shape, CommitWeights
  <2>2. CASE indicator' = indicator
    <3>1. \A p \in Objectives : SameRows(indicator', indicator, p)
      BY <2>2 DEF SameRows
    <3> QED
      BY <1>6, <2>2, <3>1, NoEventTells DEF CommitWeights
  <2>3. CASE indicator' # indicator
    <3>1. DOMAIN req[r].call.weights = Group(indicator, o)
      BY <1>6 DEF CommitWeights, SameSiblingSet
    <3>2. \A i \in DOMAIN req[r].call.weights : ObjectiveOf[i] = o
      BY <3>1 DEF Group
    <3>3. \A p \in Objectives \ {o} : SameRows(indicator', indicator, p)
      BY <1>6, <3>2 DEF CommitWeights, Weighed, SameRows
    <3>4. Finish(r, Events(indicator', {o}))
      BY <1>6, <2>3 DEF CommitWeights
    <3> QED
      BY <2>1, <3>3, <3>4, OneEventTells
  <2> QED
    BY <2>2, <2>3
<1>7. CASE CommitUpdateMetric(r) \/ CommitDeleteMetric(r)
  <2>1. \A o \in Objectives : SameRows(indicator', indicator, o)
    BY <1>7 DEF CommitUpdateMetric, CommitDeleteMetric, SameRows
  <2> QED
    BY <1>7, <2>1, NoEventTells DEF CommitUpdateMetric, CommitDeleteMetric
<1> QED
  BY <1>1, <1>4, <1>5, <1>6, <1>7 DEF Commit

\* A commit leaves right results, or events that make them right.
LEMMA CommitFollows ==
    ASSUME OkrInv, Shape', NEW r \in Requests, Commit(r), UNCHANGED objective
    PROVE  OkrInv'
<1>1. Leaves(r)
  BY CommitLeaves DEF OkrInv
<1>2. PICK sent : Finish(r, sent) /\ Tells(sent)
  BY CommitTells
<1>3. req[r].at \in {"begun", "recomputing"}
  BY DEF Commit, CommitLoad, Recomputed, CommitCreate, CommitUpdate, CommitPoints, CommitWeights,
         CommitDelete, CommitUpdateMetric, CommitDeleteMetric
<1>4. req'[r] = IF sent = <<>> THEN Idle
                ELSE [Idle EXCEPT !.at = "publishing", !.outbox = sent]
  BY <1>2 DEF Finish
<1>5. /\ req'[r].at = "publishing" => sent # <<>> /\ req'[r].outbox = sent
      /\ req'[r].at = "idle" => sent = <<>> /\ req'[r].outbox = <<>>
      /\ req'[r].at \in {"idle", "publishing"}
  BY <1>4 DEF Idle
<1>6. OutboxHolds(r)'
  <2>1. <<>> \in Seq({})
    OBVIOUS
  <2> QED
    BY <1>2, <1>5, <2>1 DEF OutboxHolds, Tells
<1>7. \A o \in Objectives, q \in Requests \ {r} : owner[o] = q => owner'[o] = q
  BY CommitRows DEF OkrInv, Shape, Released
<1>8. ASSUME NEW q \in Requests \ {r} PROVE OutboxHolds(q)'
  <2>1. \A o \in Objectives : owner[o] = q => SameRows(indicator', indicator, o)
    BY CommitWrites, OwnersAssumption
  <2> QED
    BY <1>1, <1>7, <2>1, OutboxKept DEF Leaves
<1>9. \A q \in Requests \ {r}, o \in Objectives :
         /\ Waiting(q, o)' <=> Waiting(q, o)
         /\ req'[q].outbox = req[q].outbox
  BY <1>1 DEF Waiting, Leaves, OthersKeep
<1>10. \A o \in Objectives : Waiting(r, o)' <=> o \in Told(sent)
  <2>1. Told(<<>>) = {}
    BY DEF Told
  <2> QED
    BY <1>5, <2>1 DEF Waiting
<1>11. \A o \in Objectives : o \notin behind' =>
          IF o \in Told(sent) THEN \A q \in Requests \ {r} : ~Pending(q, o) ELSE o \notin behind
  <2>1. behind' = (behind \ Told(sent)) \cup
                    {o \in Told(sent) : \E q \in Requests \ {r} : Pending(q, o)}
    BY <1>2 DEF Finish, Told
  <2> QED
    BY <2>1
<1>12. \A q \in Requests, o \in Objectives : Waiting(q, o) => Pending(q, o)
  BY DEF Waiting, Pending, Told
<1>13. ASSUME NEW o \in Objectives \ behind', objective'[o].live PROVE ResultFollows(o)'
  <2>1. CASE o \in Told(sent)
    <3>1. \A q \in Requests \ {r} : ~Waiting(q, o)'
      BY <1>9, <1>11, <1>12, <1>13, <2>1
    <3>2. Waiting(r, o)' /\ req'[r].outbox = sent
      BY <1>5, <1>10, <2>1 DEF Waiting
    <3>3. LastSays(sent, o, Aggregate(indicator', o))
      BY <1>2, <2>1 DEF Tells
    <3> QED
      BY <3>1, <3>2, <3>3 DEF ResultFollows
  <2>2. CASE o \notin Told(sent)
    <3>1. ResultFollows(o)
      BY <1>11, <1>13, <2>2 DEF OkrInv
    <3>2. Aggregate(indicator', o) = Aggregate(indicator, o)
      BY <1>2, <2>2 DEF Tells
    <3>3. ~Waiting(r, o) /\ ~Waiting(r, o)'
      BY <1>3, <1>10, <2>2 DEF Waiting
    <3> QED
      BY <1>9, <3>1, <3>2, <3>3 DEF ResultFollows
  <2> QED
    BY <2>1, <2>2
<1>14. \A q \in Requests : OutboxHolds(q)'
  BY <1>6, <1>8
<1> QED
  BY <1>13, <1>14 DEF OkrInv, ObjectivesShape

\* The first event of a request is delivered, or lost and its objective behind.
LEMMA EventFollows ==
    ASSUME OkrInv, Shape', ObjectivesShape', NEW r \in Requests, req[r].at = "publishing",
           AfterEvent(r), UNCHANGED <<indicator, owner>>,
           \/ /\ objective' = IF objective[NextEvent(r).objective].live
                              THEN [objective EXCEPT ![NextEvent(r).objective].result = NextEvent(r).result]
                              ELSE objective
              /\ behind' = behind
           \/ UNCHANGED objective /\ behind' = behind \cup {NextEvent(r).objective}
    PROVE  OkrInv'
<1> DEFINE s == req[r].outbox
           g == NextEvent(r).objective
<1>1. PICK X : s \in Seq(X)
  BY DEF OkrInv, OutboxHolds
<1>2. s # <<>> /\ Told(s) \subseteq Objectives
  BY DEF OkrInv, OutboxHolds
<1>3. /\ Tail(s) \in Seq(X)
      /\ Told(s) = Told(Tail(s)) \cup {g}
      /\ \A o, x : LastSays(s, o, x) =>
            \/ o \in Told(Tail(s)) /\ LastSays(Tail(s), o, x)
            \/ o \notin Told(Tail(s)) /\ g = o /\ NextEvent(r).result = x
  BY <1>1, <1>2, DeliveredEvents DEF NextEvent
<1>4. Leaves(r)
  BY AfterEventLeaves DEF OkrInv
<1>5. req'[r] = IF Tail(s) = <<>> THEN Idle ELSE [req[r] EXCEPT !.outbox = Tail(s)]
  BY DEF AfterEvent, OkrInv, Shape
<1>6. /\ req'[r].outbox = Tail(s)
      /\ req'[r].at = IF Tail(s) = <<>> THEN "idle" ELSE "publishing"
  <2>1. CASE Tail(s) = <<>>
    BY <1>5, <2>1 DEF Idle
  <2>2. CASE Tail(s) # <<>>
    <3>1. DOMAIN req[r] = RequestFields /\ req'[r] = [req[r] EXCEPT !.outbox = Tail(s)]
      BY <1>5, <2>2 DEF OkrInv, Shape
    <3> HIDE DEF s
    <3> QED
      BY <2>2, <3>1 DEF RequestFields
  <2> QED
    BY <2>1, <2>2
<1> HIDE DEF s, g
<1>7. OutboxHolds(r)'
  BY <1>2, <1>3, <1>6 DEF OutboxHolds
<1>8. ASSUME NEW q \in Requests \ {r} PROVE OutboxHolds(q)'
  <2>1. \A o \in Objectives : SameRows(indicator', indicator, o)
    BY DEF SameRows
  <2> QED
    BY <1>4, <2>1, OutboxKept DEF Leaves
<1>9. \A q \in Requests \ {r}, o \in Objectives :
         (Waiting(q, o)' <=> Waiting(q, o)) /\ req'[q].outbox = req[q].outbox
  BY <1>4 DEF Waiting, Leaves, OthersKeep
<1>10. \A o \in Objectives :
          /\ Waiting(r, o) <=> o \in Told(s)
          /\ Waiting(r, o)' <=> o \in Told(Tail(s))
  <2>1. Told(<<>>) = {}
    BY DEF Told
  <2> QED
    BY <1>6, <2>1 DEF Waiting, s
<1>11. ASSUME NEW o \in Objectives \ behind', objective'[o].live PROVE ResultFollows(o)'
  <2>1. o \notin behind /\ objective[o].live /\ g \in Objectives
    BY <1>2, <1>3, <1>11 DEF ObjectivesShape, OkrInv, g
  <2>2. ResultFollows(o)
    BY <2>1 DEF OkrInv
  <2>3. Aggregate(indicator, o)' = Aggregate(indicator, o)
    BY DEF Aggregate, Group, LiveIndicators
  <2>4. CASE o \in Told(s)
    <3>1. LastSays(s, o, Aggregate(indicator, o)) /\ \A q \in Requests \ {r} : ~Waiting(q, o)
      BY <1>10, <2>2, <2>4 DEF ResultFollows, s
    <3>2. CASE o \in Told(Tail(s))
      <4>1. LastSays(Tail(s), o, Aggregate(indicator, o))
        BY <1>3, <3>1, <3>2
      <4>2. Waiting(r, o)'
        BY <1>10, <3>2
      <4> QED
        BY <1>6, <1>9, <2>3, <3>1, <4>1, <4>2 DEF ResultFollows
    <3>3. CASE o \notin Told(Tail(s))
      <4>1. g = o /\ NextEvent(r).result = Aggregate(indicator, o)
        BY <1>3, <3>1, <3>3
      <4>2. objective'[o].result = Aggregate(indicator, o)
        BY <1>11, <2>1, <4>1 DEF ObjectivesShape, OkrInv, g
      <4>3. \A q \in Requests : ~Waiting(q, o)'
        BY <1>9, <1>10, <3>1, <3>3
      <4> QED
        BY <2>3, <4>2, <4>3 DEF ResultFollows
    <3> QED
      BY <3>2, <3>3
  <2>5. CASE o \notin Told(s)
    <3>1. objective'[o] = objective[o]
      BY <1>3, <2>1, <2>5 DEF ObjectivesShape, OkrInv, g
    <3>2. ~Waiting(r, o) /\ ~Waiting(r, o)'
      BY <1>3, <1>10, <2>5
    <3> QED
      BY <1>9, <2>2, <2>3, <3>1, <3>2 DEF ResultFollows
  <2> QED
    BY <2>4, <2>5
<1>12. \A q \in Requests : OutboxHolds(q)'
  BY <1>7, <1>8
<1> QED
  BY <1>11, <1>12 DEF OkrInv

\* A load begins, or goes on with the next metric.
LEMMA LoadHolds ==
    ASSUME OkrInv, NEW r \in Requests, NEW c \in Calls, BeginLoad(r, c)
    PROVE  OutboxHolds(r)'
<1> DEFINE rq == [Idle EXCEPT !.at = "recomputing", !.call = c, !.todo = c.metrics]
           links == LinksOf(indicator, Head(c.metrics))
           t == Snapshot(rq, indicator, Head(c.metrics))
<1>1. /\ DOMAIN rq = RequestFields /\ rq.at = "recomputing"
      /\ rq.outbox = <<>> /\ rq.draft = NoRows
  BY DEF Idle, RequestFields
<1>2. req'[r] = t
  BY DEF BeginLoad, OkrInv, Shape
<1>3. /\ t.at = rq.at /\ t.draft = rq.draft /\ t.outbox = rq.outbox
      /\ DOMAIN t.wanted \subseteq links
      /\ t.groups = {ObjectiveOf[i] : i \in links}
  <2> HIDE DEF rq
  <2> QED
    BY <1>1, SnapshotTakes
<1>4. links \subseteq Indicators
  BY DEF LinksOf, LiveIndicators
<1> HIDE DEF rq, t, links
<1>5. Told(<<>>) = {} /\ <<>> \in Seq({}) /\ DOMAIN NoRows = {}
  BY DEF Told, NoRows
<1> QED
  BY <1>1, <1>2, <1>3, <1>4, <1>5 DEF OutboxHolds

\* A load that goes on to its next metric keeps the groups it has written and the
\* events it owes.
LEMMA NextMetricHolds ==
    ASSUME OkrInv, NEW r \in Requests, NextMetric(r)
    PROVE  OutboxHolds(r)'
<1> DEFINE rq == [req[r] EXCEPT !.todo = Tail(req[r].todo), !.draft = Drafted(r),
                                !.outbox = LoadOutbox(r)]
           m == req[r].todo[2]
           links == LinksOf(LoadRows(r), m)
           t == Snapshot(rq, LoadRows(r), m)
<1>1. /\ DOMAIN rq = RequestFields /\ rq.at = "recomputing"
      /\ rq.outbox = LoadOutbox(r) /\ rq.draft = Drafted(r)
  BY DEF OkrInv, Shape, RequestFields, NextMetric, Recomputed
<1>2. req'[r] = t /\ UNCHANGED <<indicator, owner>>
  BY DEF NextMetric, OkrInv, Shape, committed
<1>3. /\ t.at = rq.at /\ t.draft = rq.draft /\ t.outbox = rq.outbox
      /\ DOMAIN t.wanted \subseteq links
      /\ t.groups = {ObjectiveOf[i] : i \in links}
  <2> HIDE DEF rq
  <2> QED
    BY <1>1, SnapshotTakes
<1>4. links \subseteq Indicators
  BY DEF LinksOf, LiveIndicators
<1>5. /\ \E X : LoadOutbox(r) \in Seq(X)
      /\ Told(LoadOutbox(r)) \subseteq Objectives
      /\ \A o \in Told(LoadOutbox(r)) :
            owner[o] = r /\ LastSays(LoadOutbox(r), o, Aggregate(LoadRows(r), o))
      /\ \A i \in DOMAIN Drafted(r) : i \in Indicators /\ ObjectiveOf[i] \in Told(LoadOutbox(r))
  BY LoadTells DEF NextMetric
<1>6. Overlay(indicator', Drafted(r)) = LoadRows(r)
  BY <1>2 DEF LoadRows
<1> HIDE DEF rq, t, links
<1> QED
  BY <1>1, <1>2, <1>3, <1>4, <1>5, <1>6 DEF OutboxHolds

\* No step leaves okr behind without an event on its way, or a record of the loss.
LEMMA NextFollows == ASSUME OkrInv, [Next]_vars PROVE OkrInv'
<1>1. Shape'
  BY NextShape DEF OkrInv
<1>2. ObjectivesShape'
  <2>1. ASSUME NEW r \in Requests, NEW c \in Calls, Begin(r, c) PROVE UNCHANGED objective
    BY <2>1 DEF Begin, BeginLoad, BeginCreate, BeginUpdate, BeginPoints, BeginWeights,
           BeginDelete, BeginUpdateMetric, BeginDeleteMetric, Accept
  <2>2. ASSUME NEW r \in Requests, NEW c \in Calls, CreateMetric(r, c) \/ DeleteObjective(r, c)
        PROVE  ObjectivesShape'
    BY <2>2 DEF CreateMetric, DeleteObjective, ObjectivesShape, OkrInv
  <2>3. ASSUME NEW r \in Requests,
               LockGroup(r) \/ NextMetric(r) \/ Commit(r) \/ LoseEvent(r) \/ RollBack(r)
        PROVE  UNCHANGED objective
    BY <2>3 DEF LockGroup, NextMetric, LoseEvent, RollBack, Commit, CommitLoad, CommitCreate,
           CommitUpdate, CommitPoints, CommitWeights, CommitDelete, CommitUpdateMetric, CommitDeleteMetric
  <2>4. ASSUME NEW r \in Requests, Deliver(r) PROVE ObjectivesShape'
    BY <2>4 DEF Deliver, ObjectivesShape, OkrInv
  <2>5. UNCHANGED objective => ObjectivesShape'
    BY DEF ObjectivesShape, OkrInv
  <2>6. UNCHANGED vars => UNCHANGED objective
    BY DEF vars
  <2> QED
    BY <2>1, <2>2, <2>3, <2>4, <2>5, <2>6 DEF Next, Step
<1>3. ASSUME NEW r \in Requests, NEW c \in Calls, Begin(r, c) PROVE OkrInv'
  <2>1. CASE BeginLoad(r, c)
    <3>1. OthersKeep(r) /\ req'[r].at = "recomputing" /\ req[r].at = "idle"
          /\ UNCHANGED <<indicator, owner>>
      BY <2>1, LoadBegins DEF OkrInv
    <3>2. OutboxHolds(r)'
      BY <2>1, LoadHolds
    <3>3. UNCHANGED <<objective, behind>>
      BY <2>1 DEF BeginLoad, history
    <3> QED
      BY <1>1, <1>2, <3>1, <3>2, <3>3, SilentStep
  <2>2. CASE ~BeginLoad(r, c)
    <3>1. Begins(r) /\ UNCHANGED <<indicator, owner>>
      BY <1>3, <2>2, BeginBegins DEF OkrInv
    <3>2. \E row, m : Accept(r, c, row, m)
      BY <1>3, <2>2 DEF Begin, BeginCreate, BeginUpdate, BeginPoints, BeginWeights, BeginDelete,
             BeginUpdateMetric, BeginDeleteMetric
    <3>3. UNCHANGED <<objective, behind>> /\ req'[r].outbox = <<>>
      BY <3>2 DEF Accept, history, OkrInv, Shape, Idle
    <3>4. <<>> \in Seq({})
      OBVIOUS
    <3>5. OutboxHolds(r)'
      BY <3>1, <3>3, <3>4 DEF OutboxHolds, Begins
    <3> QED
      BY <1>1, <1>2, <3>1, <3>3, <3>5, SilentStep DEF Begins
  <2> QED
    BY <2>1, <2>2
<1>4. ASSUME NEW r \in Requests, LockGroup(r) PROVE OkrInv'
  <2>1. owner[NextGroup(r)] = Nobody /\ owner' = [owner EXCEPT ![NextGroup(r)] = r]
        /\ UNCHANGED <<req, indicator, objective, behind>> /\ req[r].at = "recomputing"
    BY <1>4 DEF LockGroup, committed, history
  <2>2. \A o \in Objectives, q \in Requests : owner[o] = q => owner'[o] = q
    BY <2>1, OwnersAssumption DEF OkrInv, Shape
  <2>3. OutboxHolds(r)'
    BY <2>1, <2>2 DEF OkrInv, OutboxHolds
  <2>4. OthersKeep(r)
    BY <2>1 DEF OthersKeep, OkrInv, Shape
  <2> QED
    BY <1>1, <1>2, <2>1, <2>2, <2>3, <2>4, SilentStep
<1>5. ASSUME NEW r \in Requests, NextMetric(r) PROVE OkrInv'
  <2>1. OthersKeep(r) /\ req'[r].at = "recomputing" /\ UNCHANGED <<indicator, owner>>
    BY <1>5, LoadContinues DEF OkrInv
  <2>2. UNCHANGED <<objective, behind>> /\ req[r].at = "recomputing"
    BY <1>5 DEF NextMetric, Recomputed, history
  <2>3. OutboxHolds(r)'
    BY <1>5, NextMetricHolds
  <2> QED
    BY <1>1, <1>2, <2>1, <2>2, <2>3, SilentStep
<1>6. ASSUME NEW r \in Requests, Commit(r) PROVE OkrInv'
  <2>1. UNCHANGED objective
    BY <1>6 DEF Commit, CommitLoad, CommitCreate, CommitUpdate, CommitPoints, CommitWeights,
           CommitDelete, CommitUpdateMetric, CommitDeleteMetric
  <2> QED
    BY <1>1, <1>6, <2>1, CommitFollows
<1>7. ASSUME NEW r \in Requests, Deliver(r) \/ LoseEvent(r) PROVE OkrInv'
  <2>1. req[r].at = "publishing" /\ AfterEvent(r) /\ UNCHANGED <<indicator, owner>>
    BY <1>7 DEF Deliver, LoseEvent, committed
  <2>2. CASE Deliver(r)
    <3>1. /\ behind' = behind
          /\ objective' = IF objective[NextEvent(r).objective].live
                          THEN [objective EXCEPT ![NextEvent(r).objective].result = NextEvent(r).result]
                          ELSE objective
      BY <2>2 DEF Deliver, history
    <3> QED
      BY <1>1, <1>2, <2>1, <3>1, EventFollows
  <2>3. CASE LoseEvent(r)
    <3>1. UNCHANGED objective /\ behind' = behind \cup {NextEvent(r).objective}
      BY <2>3 DEF LoseEvent
    <3> QED
      BY <1>1, <1>2, <2>1, <3>1, EventFollows
  <2> QED
    BY <1>7, <2>2, <2>3
<1>8. ASSUME NEW r \in Requests, RollBack(r) PROVE OkrInv'
  <2>1. Leaves(r) /\ req'[r] = Idle /\ req[r].at # "publishing"
        /\ UNCHANGED <<indicator, objective, behind>> /\ owner' = Released(r)
    BY <1>8, RollBackLeaves DEF OkrInv, Shape, RollBack, committed, history
  <2>2. req'[r].at = "idle" /\ req'[r].outbox = <<>> /\ <<>> \in Seq({})
    BY <2>1 DEF Idle
  <2>3. OutboxHolds(r)'
    BY <2>2 DEF OutboxHolds
  <2>4. \A o \in Objectives, q \in Requests \ {r} : owner[o] = q => owner'[o] = q
    BY <2>1 DEF Released, OkrInv, Shape
  <2> QED
    BY <1>1, <1>2, <2>1, <2>2, <2>3, <2>4, SilentStep DEF Leaves
<1>9. ASSUME UNCHANGED <<indicator, owner, req, behind>>,
             \A o \in Objectives : objective'[o].live =>
               objective[o].live /\ objective'[o].result = objective[o].result
      PROVE  OkrInv'
  <2>1. \A r \in Requests : OutboxHolds(r)'
    BY <1>9 DEF OkrInv, OutboxHolds
  <2>2. ASSUME NEW o \in Objectives \ behind', objective'[o].live PROVE ResultFollows(o)'
    <3>1. ResultFollows(o) /\ objective'[o].result = objective[o].result
      BY <1>9, <2>2 DEF OkrInv
    <3>2. Aggregate(indicator, o)' = Aggregate(indicator, o)
      BY <1>9 DEF Aggregate, Group, LiveIndicators
    <3>3. \A r \in Requests : Waiting(r, o)' <=> Waiting(r, o)
      BY <1>9 DEF Waiting
    <3> QED
      BY <1>9, <3>1, <3>2, <3>3 DEF ResultFollows
  <2> QED
    BY <1>1, <1>2, <2>1, <2>2 DEF OkrInv
<1>10. ASSUME NEW r \in Requests, NEW c \in Calls, CreateMetric(r, c) \/ DeleteObjective(r, c)
       PROVE  OkrInv'
  <2>1. UNCHANGED <<indicator, owner, req, behind>>
    BY <1>10 DEF CreateMetric, DeleteObjective, committed, history
  <2>2. \A o \in Objectives : objective'[o].live =>
               objective[o].live /\ objective'[o].result = objective[o].result
    BY <1>10 DEF CreateMetric, DeleteObjective, OkrInv, ObjectivesShape
  <2> QED
    BY <1>9, <2>1, <2>2
<1>11. CASE UNCHANGED vars
  BY <1>9, <1>11 DEF vars, committed, history
<1> QED
  BY <1>3, <1>4, <1>5, <1>6, <1>7, <1>8, <1>10, <1>11 DEF Next, Step

\* The result okr shows for a living objective is the aggregate of its group as
\* metrics keeps it, once the events are delivered, unless the last one was lost
\* or met an earlier one (indicator-progress.listener.ts: handle;
\* objective-indicator.service.ts: recomputeForMetric, buildEvent): whatever
\* loads, edits and weights meet.
THEOREM ResultsReachOkr == Spec => []OkrFollowsMetrics
<1>1. Init => OkrInv
  <2> SUFFICES ASSUME Init PROVE OkrInv
    OBVIOUS
  <2>1. \A r \in Requests : req[r].at = "idle" /\ req[r].outbox = <<>>
    BY DEF Init, Quiet, Idle
  <2>2. <<>> \in Seq({})
    OBVIOUS
  <2>3. \A r \in Requests : OutboxHolds(r)
    BY <2>1, <2>2 DEF OutboxHolds
  <2>4. ASSUME NEW o \in Objectives PROVE ResultFollows(o)
    <3>1. Group(indicator, o) = {}
      BY DEF Init, Quiet, Group, LiveIndicators, NoIndicator
    <3>2. Aggregate(indicator, o) = 0
      BY <3>1 DEF Aggregate, AggregateProgressBp
    <3>3. objective[o].result = 0 /\ \A r \in Requests : ~Waiting(r, o)
      BY <2>1 DEF Init, Quiet, Waiting
    <3> QED
      BY <3>2, <3>3 DEF ResultFollows
  <2>5. ObjectivesShape
    BY DEF Init, Quiet, ObjectivesShape
  <2> QED
    BY <2>3, <2>4, <2>5, InitShape DEF OkrInv
<1>2. OkrInv /\ [Next]_vars => OkrInv'
  BY NextFollows
<1>3. OkrInv => OkrFollowsMetrics
  BY DEF OkrInv, OkrFollowsMetrics, ResultFollows, Waiting, Pending, Told
<1> QED
  BY <1>1, <1>2, <1>3, PTL DEF Spec

-----------------------------------------------------------------------------
(***************************************************************************)
(* The progress of an indicator.  What a request has read of a metric      *)
(* holds as long as the request is fresh, because a commit that changes    *)
(* the series, the baseline or the indicators of a metric tells every      *)
(* request that touches it.                                                *)
(***************************************************************************)
Started(m) == metric[m].life # "unborn"

\* Request r, a load, would leave the indicators of metric m with the progress
\* of their series.
Right(r, m) ==
    \A i \in LinksOf(indicator, m) :
        LoadRows(r)[i].progress =
            ProgressOf(Written(req[r].call), m, metric[m].baseline, indicator[i].target)

\* A call that reads the baseline of a metric before its transaction.
ReadsBaseline(c) == c.op = "update" \/ (c.op = "create" /\ ~c.inline)

Unprocessed(r) == {req[r].todo[n] : n \in 2 .. Len(req[r].todo)}

\* The baseline read before the transaction, and the readings of a load: right
\* for every metric it has come to, the one it is at included.
BaselineHolds(r) ==
    req[r].at = "begun" /\ ReadsBaseline(req[r].call) =>
        LET m == MetricOf[req[r].call.indicator]
        IN  Started(m) /\ (req[r].fresh => req[r].baseline = metric[m].baseline)
LoadInOrder(r) ==
    req[r].at = "recomputing" =>
        /\ req[r].call \in Calls /\ req[r].call.op = "load"
        /\ req[r].todo \in Seq(Metrics) /\ req[r].todo # <<>>
        /\ \A n \in DOMAIN req[r].todo : req[r].todo[n] \in Touches(req[r].call)
        /\ \A m \in Touches(req[r].call) : Started(m)
        /\ \A i \in DOMAIN Drafted(r) : i \in Indicators /\ MetricOf[i] \in Touches(req[r].call)
LoadRight(r) ==
    req[r].at = "recomputing" /\ req[r].fresh =>
        \A m \in Touches(req[r].call) \ Unprocessed(r) : Right(r, m)
Reads(r) == BaselineHolds(r) /\ LoadInOrder(r) /\ LoadRight(r)

MetricsShape ==
    /\ DOMAIN metric = Metrics
    /\ \A m \in Metrics : DOMAIN metric[m] = {"life", "baseline", "kind"}
    /\ DOMAIN entry = Entries

NothingUnborn ==
    /\ \A i \in LiveIndicators(indicator) : Started(MetricOf[i])
    /\ \A e \in Entries : entry[e] \in Int => Started(SeriesOf[e])

SeriesInv ==
    /\ Shape /\ MetricsShape /\ NothingUnborn
    /\ \A r \in Requests : Reads(r)
    /\ ProgressFollowsSeries

\* The progress of a series depends on its own entries.
LEMMA SameSeries ==
    ASSUME NEW s, NEW t, NEW m, \A e \in Entries : SeriesOf[e] = m => s[e] = t[e],
           NEW baseline, NEW target
    PROVE  ProgressOf(s, m, baseline, target) = ProgressOf(t, m, baseline, target)
<1>1. {e \in Entries : SeriesOf[e] = m /\ s[e] \in Int} = {e \in Entries : SeriesOf[e] = m /\ t[e] \in Int}
  OBVIOUS
<1>2. IncrementsOf(s, m) = IncrementsOf(t, m)
  BY <1>1 DEF IncrementsOf
<1> QED
  BY <1>2 DEF ProgressOf

\* A metric nothing was loaded for yields no progress, whatever its baseline.
LEMMA NoSeries ==
    ASSUME NEW s, NEW m, \A e \in Entries : SeriesOf[e] = m => s[e] \notin Int,
           NEW baseline, NEW target
    PROVE  ProgressOf(s, m, baseline, target) = 0
<1>1. DOMAIN IncrementsOf(s, m) = {}
  BY DEF IncrementsOf
<1> QED
  BY <1>1 DEF ProgressOf, ObjectiveIndicatorProgressBp

\* What a step leaves alone of a metric, its loads and its indicators.
Undisturbed(m) ==
    /\ metric'[m].baseline = metric[m].baseline
    /\ \A e \in Entries : SeriesOf[e] = m => entry'[e] = entry[e]
    /\ \A i \in Indicators : MetricOf[i] = m =>
         /\ indicator'[i].life = indicator[i].life
         /\ indicator'[i].target = indicator[i].target
         /\ indicator'[i].progress = indicator[i].progress

\* The readings of a load stay right while nobody disturbs the metric.
LEMMA RightKept ==
    ASSUME SeriesInv, Shape', NEW r \in Requests, NEW m, Undisturbed(m), Right(r, m),
           req'[r].call = req[r].call, req'[r].wanted = req[r].wanted, req'[r].draft = req[r].draft
    PROVE  Right(r, m)'
<1> DEFINE d == Drafted(r)
           c == req[r].call
<1>1. Drafted(r)' = d
  BY DEF Drafted
<1>2. \A i \in LinksOf(indicator', m) :
         /\ i \in LinksOf(indicator, m)
         /\ i \in Indicators /\ MetricOf[i] = m
         /\ indicator'[i].target = indicator[i].target
  BY DEF Undisturbed, LinksOf, LiveIndicators
<1>3. ASSUME NEW i \in LinksOf(indicator', m)
      PROVE  Overlay(indicator', d)[i].progress = Overlay(indicator, d)[i].progress
  <2> HIDE DEF d
  <2> QED
    BY <1>2, <1>3 DEF Undisturbed, Overlay, SeriesInv, Shape, RowFields
<1>4. \A e \in Entries : SeriesOf[e] = m => Written(c)'[e] = Written(c)[e]
  BY DEF Written, Undisturbed
<1>5. ASSUME NEW i \in LinksOf(indicator', m)
      PROVE  ProgressOf(Written(c)', m, metric'[m].baseline, indicator'[i].target)
               = ProgressOf(Written(c), m, metric[m].baseline, indicator[i].target)
  <2>1. metric'[m].baseline = metric[m].baseline /\ indicator'[i].target = indicator[i].target
    BY <1>2, <1>5 DEF Undisturbed
  <2> QED
    BY <1>4, <2>1, SameSeries
<1>6. Written(req[r].call)' = Written(c)'
  BY DEF Written
<1>7. LoadRows(r)' = Overlay(indicator', d) /\ LoadRows(r) = Overlay(indicator, d)
  BY <1>1 DEF LoadRows
<1> HIDE DEF d, c
<1> QED
  BY <1>2, <1>3, <1>5, <1>6, <1>7 DEF Right, c

\* A request keeps what it has read while others leave its metrics alone, or
\* tell it that they did not.
LEMMA ReadsKept ==
    ASSUME SeriesInv, Shape', NEW r \in Requests, OthersKeep(r), NEW q \in Requests \ {r},
           \A m \in Metrics : Started(m) => Started(m)',
           req'[q].fresh => req[q].fresh,
           req'[q].fresh => \A m \in Metrics \cap Touches(req[q].call) : Started(m) => Undisturbed(m)
    PROVE  Reads(q)'
<1> DEFINE c == req[q].call
<1>1. /\ req'[q].at = req[q].at /\ req'[q].call = c /\ req'[q].todo = req[q].todo
      /\ req'[q].wanted = req[q].wanted /\ req'[q].draft = req[q].draft
      /\ req'[q].baseline = req[q].baseline
  BY DEF OthersKeep
<1>2. Reads(q)
  BY DEF SeriesInv
<1>3. BaselineHolds(q)'
  <2> SUFFICES ASSUME req[q].at = "begun", ReadsBaseline(c)
               PROVE  /\ Started(MetricOf[c.indicator])'
                      /\ req'[q].fresh => req'[q].baseline = metric'[MetricOf[c.indicator]].baseline
    BY <1>1 DEF BaselineHolds, Started, ReadsBaseline
  <2>1. c \in Calls /\ c.indicator \in Indicators /\ MetricOf[c.indicator] \in Metrics
    BY CallsAssumption, PairsAssumption DEF SeriesInv, Shape, ReadsBaseline
  <2>2. MetricOf[c.indicator] \in Touches(c)
    BY DEF Touches, ReadsBaseline
  <2>3. Started(MetricOf[c.indicator]) /\ (req[q].fresh => req[q].baseline = metric[MetricOf[c.indicator]].baseline)
    BY <1>2 DEF Reads, BaselineHolds
  <2> QED
    BY <1>1, <2>1, <2>2, <2>3 DEF Undisturbed
<1>4. Drafted(q)' = Drafted(q)
  BY <1>1 DEF Drafted
<1>5. ASSUME req[q].at = "recomputing"
      PROVE  c \in Calls /\ c.op = "load" /\ Touches(c) \subseteq Metrics /\ \A m \in Touches(c) : Started(m)
  <2>1. c \in Calls /\ c.op = "load" /\ \A m \in Touches(c) : Started(m)
    BY <1>2, <1>5 DEF Reads, LoadInOrder
  <2>2. c.metrics \in Seq(Metrics)
    BY <2>1, CallsAssumption
  <2> QED
    BY <2>1, <2>2 DEF Touches
<1>6. req[q].at = "recomputing" => \A m \in Touches(c) : Started(m)'
  BY <1>5
<1>7. LoadInOrder(q)'
  <2>1. LoadInOrder(q)
    BY <1>2 DEF Reads
  <2> HIDE DEF c
  <2>2. req[q].call = c
    BY DEF c
  <2> QED
    BY <1>1, <1>4, <1>6, <2>1, <2>2 DEF LoadInOrder
<1>8. ASSUME req[q].at = "recomputing", req'[q].fresh, NEW m \in Touches(c) \ Unprocessed(q)
      PROVE  Right(q, m)'
  <2>1. Right(q, m) /\ Undisturbed(m)
    BY <1>2, <1>5, <1>8 DEF Reads, LoadRight
  <2> QED
    BY <1>1, <2>1, RightKept
<1>9. LoadRight(q)'
  <2>1. Unprocessed(q)' = Unprocessed(q)
    BY <1>1 DEF Unprocessed
  <2> HIDE DEF c
  <2> QED
    BY <1>1, <1>8, <2>1 DEF LoadRight
<1> QED
  BY <1>3, <1>7, <1>9 DEF Reads

\* The reading of recomputeForMetric wants the progress of the series of the
\* metric for its indicators, unless they have it.
LEMMA SnapshotRight ==
    ASSUME NEW rq, DOMAIN rq = RequestFields, NEW rows, NEW m, NEW i \in LinksOf(rows, m)
    PROVE  LET s == Snapshot(rq, rows, m)
               p == ProgressOf(Written(rq.call), m, metric[m].baseline, rows[i].target)
           IN  IF i \in DOMAIN s.wanted THEN s.wanted[i] = p ELSE rows[i].progress = p
<1> DEFINE links == LinksOf(rows, m)
           p(j) == ProgressOf(Written(rq.call), m, metric[m].baseline, rows[j].target)
           new == [j \in links |-> p(j)]
           w == [j \in {k \in links : new[k] # rows[k].progress} |-> new[j]]
<1>1. Snapshot(rq, rows, m) = [rq EXCEPT !.wanted = w, !.groups = {ObjectiveOf[j] : j \in links}]
  BY DEF Snapshot
<1>2. IF i \in DOMAIN w THEN w[i] = p(i) ELSE rows[i].progress = p(i)
  <2> HIDE DEF p
  <2> QED
    OBVIOUS
<1> HIDE DEF w, links
<1>3. Snapshot(rq, rows, m).wanted = w
  BY <1>1 DEF RequestFields
<1> HIDE DEF p
<1> QED
  BY <1>2, <1>3 DEF p

\* What the progress of an indicator has to be.
Follows(i) ==
    LET m == MetricOf[i]
    IN  indicator[i].progress = ProgressOf(entry, m, metric[m].baseline, indicator[i].target)

\* An indicator of a metric nobody disturbed follows its series as before.
LEMMA OthersFollow ==
    ASSUME SeriesInv, NEW i \in LiveIndicators(indicator'), i \notin stale, Undisturbed(MetricOf[i])
    PROVE  Follows(i)'
<1> DEFINE m == MetricOf[i]
<1>1. i \in Indicators /\ i \in LiveIndicators(indicator)
  BY DEF Undisturbed, LiveIndicators
<1>2. Follows(i)
  BY <1>1 DEF SeriesInv, ProgressFollowsSeries, Follows
<1>3. ProgressOf(entry', m, metric[m].baseline, indicator[i].target)
        = ProgressOf(entry, m, metric[m].baseline, indicator[i].target)
  BY SameSeries DEF Undisturbed
<1>4. /\ metric'[m].baseline = metric[m].baseline
      /\ indicator'[i].target = indicator[i].target /\ indicator'[i].progress = indicator[i].progress
  BY <1>1 DEF Undisturbed
<1> QED
  BY <1>2, <1>3, <1>4 DEF Follows

\* What the commit of request r owes to the others.
Spares(r) ==
    /\ MetricsShape' /\ NothingUnborn'
    /\ \A i \in LiveIndicators(indicator') \ stale' : Follows(i)'
    /\ \A m \in Metrics : Started(m) => Started(m)'
    /\ \A m \in Metrics \ Touches(req[r].call) : Undisturbed(m)

\* A load leaves its metrics the progress of the series it wrote.
LEMMA LoadSpares ==
    ASSUME SeriesInv, NEW r \in Requests, CommitLoad(r)
    PROVE  Spares(r)
<1> DEFINE c == req[r].call
           d == Drafted(r)
<1>1. /\ c \in Calls /\ c.op = "load"
      /\ \A m \in Touches(c) : Started(m)
      /\ \A i \in DOMAIN d : i \in Indicators /\ MetricOf[i] \in Touches(c)
      /\ Unprocessed(r) = {}
      /\ req[r].fresh => \A m \in Touches(c) : Right(r, m)
  BY DEF SeriesInv, Reads, LoadInOrder, LoadRight, CommitLoad, Recomputed, Unprocessed
<1>2. /\ entry' = Written(c) /\ indicator' = Overlay(indicator, d) /\ UNCHANGED metric
      /\ LoadRows(r) = Overlay(indicator, d)
  BY DEF CommitLoad, LoadRows
<1>3. \A e \in Entries :
        /\ entry'[e] = IF e \in DOMAIN c.writes THEN c.writes[e] ELSE entry[e]
        /\ e \in DOMAIN c.writes => SeriesOf[e] \in Touches(c)
  <2>1. \A e \in DOMAIN c.writes : SeriesOf[e] \in Touches(c)
    BY <1>1, CallsAssumption DEF Touches
  <2> HIDE DEF c
  <2> QED
    BY <1>2, <2>1 DEF Written
<1>4. \A i \in Indicators :
        /\ indicator'[i].life = indicator[i].life /\ indicator'[i].target = indicator[i].target
        /\ MetricOf[i] \notin Touches(c) => indicator'[i].progress = indicator[i].progress
  <2> HIDE DEF d, c
  <2> QED
    BY <1>1, <1>2 DEF Overlay, SeriesInv, Shape, RowFields
<1>5. \A m \in Metrics \ Touches(c) : Undisturbed(m)
  BY <1>2, <1>3, <1>4 DEF Undisturbed
<1>6. MetricsShape'
  BY <1>2 DEF SeriesInv, MetricsShape, Written
<1>7. NothingUnborn'
  BY <1>1, <1>2, <1>3, <1>4 DEF SeriesInv, NothingUnborn, LiveIndicators, Started
<1>8. ASSUME NEW i \in LiveIndicators(indicator'), i \notin stale' PROVE Follows(i)'
  <2> DEFINE m == MetricOf[i]
  <2>1. i \in Indicators /\ i \in LinksOf(indicator, m) /\ m \in Metrics
    BY <1>4, <1>8, PairsAssumption DEF LinksOf, LiveIndicators
  <2>2. CASE m \notin Touches(c)
    <3>1. i \notin stale
      <4>1. i \notin UNION {LinksOf(indicator, n) : n \in Touches(c)}
        BY <2>2 DEF LinksOf
      <4> QED
        BY <1>8, <4>1 DEF CommitLoad, Wrote
    <3> QED
      BY <1>5, <1>8, <2>1, <2>2, <3>1, OthersFollow
  <2>3. CASE m \in Touches(c)
    <3>1. req[r].fresh
      BY <1>8, <2>1, <2>3 DEF CommitLoad, Wrote
    <3>2. indicator'[i].progress = ProgressOf(entry', m, metric[m].baseline, indicator[i].target)
      BY <1>1, <1>2, <2>1, <2>3, <3>1 DEF Right
    <3> QED
      BY <1>2, <1>4, <2>1, <3>2 DEF Follows
  <2> QED
    BY <2>2, <2>3
<1>9. \A m \in Metrics : Started(m) => Started(m)'
  BY <1>2 DEF Started
<1> QED
  BY <1>5, <1>6, <1>7, <1>8, <1>9 DEF Spares

\* An indicator is created with the progress of the series, or with no progress
\* on a metric that comes with it and has no series yet.
LEMMA CreateSpares ==
    ASSUME SeriesInv, NEW r \in Requests, CommitCreate(r)
    PROVE  Spares(r)
<1> DEFINE c == req[r].call
           row == CreatedRow(r)
<1>0. PICK i, m : i = c.indicator /\ m = MetricOf[i]
  OBVIOUS
<1>1. /\ req[r].at = "begun" /\ c.op = "create"
      /\ c.inline => metric[m].life = "unborn"
      /\ metric' = CreatedMetric(r) /\ indicator' = [indicator EXCEPT ![i] = row]
      /\ UNCHANGED entry /\ Wrote(r, {i})
  BY <1>0 DEF CommitCreate, With
<1>2. c \in Calls /\ i \in Indicators /\ m \in Metrics /\ c.inline \in BOOLEAN /\ Touches(c) = {m}
  BY <1>0, <1>1, CallsAssumption, PairsAssumption DEF SeriesInv, Shape, Touches
<1>3. ~c.inline => /\ UNCHANGED metric /\ Started(m)
                   /\ req[r].fresh => req[r].baseline = metric[m].baseline
  BY <1>0, <1>1 DEF CreatedMetric, SeriesInv, Reads, BaselineHolds, ReadsBaseline
<1>4. c.inline => /\ metric' = [metric EXCEPT ![m] = [life |-> "live", baseline |-> Baseline, kind |-> c.kind]]
                  /\ ~Started(m)
  BY <1>0, <1>1 DEF CreatedMetric, Started
<1>5. /\ row.life = "live" /\ row.target = c.target
      /\ row.progress = IF c.inline THEN 0 ELSE ProgressOf(entry, m, req[r].baseline, c.target)
  BY <1>0 DEF CreatedRow
<1> HIDE DEF row
<1>6. MetricsShape'
  <2>1. CASE ~c.inline
    BY <1>1, <1>3, <2>1 DEF SeriesInv, MetricsShape
  <2>2. CASE c.inline
    BY <1>1, <1>2, <1>4, <2>2 DEF SeriesInv, MetricsShape
  <2> QED
    BY <1>2, <2>1, <2>2
<1>7. \A n \in Metrics : n # m => metric'[n] = metric[n]
  BY <1>1, <1>2, <1>3, <1>4 DEF SeriesInv, MetricsShape
<1>8. Started(m)'
  BY <1>2, <1>3, <1>4 DEF SeriesInv, MetricsShape, Started
<1>9. \A n \in Metrics : Started(n) => Started(n)'
  BY <1>7, <1>8 DEF Started
<1>10. \A j \in Indicators : j # i => indicator'[j] = indicator[j]
  BY <1>1 DEF SeriesInv, Shape
<1>11. indicator'[i] = row
  BY <1>1, <1>2 DEF SeriesInv, Shape
<1>12. \A n \in Metrics \ Touches(c) : Undisturbed(n)
  <2>1. \A n \in Metrics \ {m} : \A j \in Indicators : MetricOf[j] = n => j # i
    BY <1>0
  <2> QED
    BY <1>1, <1>2, <1>7, <1>10, <2>1 DEF Undisturbed
<1>13. NothingUnborn'
  <2>1. \A j \in LiveIndicators(indicator') : Started(MetricOf[j])'
    <3> SUFFICES ASSUME NEW j \in LiveIndicators(indicator') PROVE Started(MetricOf[j])'
      OBVIOUS
    <3>1. CASE j = i
      BY <1>0, <1>8, <3>1 DEF Started
    <3>2. CASE j # i
      <4>1. j \in LiveIndicators(indicator) /\ MetricOf[j] \in Metrics
        BY <1>10, <3>2, PairsAssumption DEF LiveIndicators
      <4> QED
        BY <1>9, <4>1 DEF SeriesInv, NothingUnborn
    <3> QED
      BY <3>1, <3>2
  <2>2. \A e \in Entries : entry'[e] \in Int => Started(SeriesOf[e])'
    BY <1>1, <1>9, PairsAssumption DEF SeriesInv, NothingUnborn
  <2> QED
    BY <2>1, <2>2 DEF NothingUnborn, Started
<1>14. ASSUME NEW j \in LiveIndicators(indicator'), j \notin stale' PROVE Follows(j)'
  <2>1. CASE j # i
    <3>1. j \in Indicators /\ j \in LiveIndicators(indicator) /\ MetricOf[j] \in Metrics /\ indicator'[j] = indicator[j]
      BY <1>10, <1>14, <2>1, PairsAssumption DEF LiveIndicators
    <3>2. j \notin stale
      BY <1>1, <1>14, <2>1 DEF Wrote
    <3>3. metric'[MetricOf[j]] = metric[MetricOf[j]]
      <4>1. Started(MetricOf[j])
        BY <3>1 DEF SeriesInv, NothingUnborn
      <4> QED
        BY <1>2, <1>3, <1>4, <1>7, <3>1, <4>1
    <3>4. Follows(j)
      BY <3>1, <3>2 DEF SeriesInv, ProgressFollowsSeries, Follows
    <3> QED
      BY <1>1, <3>1, <3>3, <3>4 DEF Follows
  <2>2. CASE j = i
    <3>1. req[r].fresh
      BY <1>1, <1>14, <2>2 DEF Wrote
    <3>2. CASE c.inline
      <4>1. \A e \in Entries : SeriesOf[e] = m => entry[e] \notin Int
        BY <1>4, <3>2 DEF SeriesInv, NothingUnborn
      <4>2. ProgressOf(entry, m, metric'[m].baseline, c.target) = 0
        BY <4>1, NoSeries
      <4> QED
        BY <1>1, <1>5, <1>11, <2>2, <3>2, <4>2, <1>0 DEF Follows
    <3>3. CASE ~c.inline
      BY <1>1, <1>3, <1>5, <1>11, <2>2, <3>1, <3>3, <1>0 DEF Follows
    <3> QED
      BY <1>2, <3>2, <3>3
  <2> QED
    BY <2>1, <2>2
<1> QED
  BY <1>6, <1>9, <1>12, <1>13, <1>14 DEF Spares

\* A commit that leaves the metrics, the series and all indicators but one as
\* they are to the progress of the others.
LEMMA RowsSpare ==
    ASSUME SeriesInv, NEW r \in Requests, UNCHANGED <<metric, entry>>, NEW i,
           \A j \in Indicators \ {i} : indicator'[j].life = "live" =>
               /\ indicator[j].life = "live" /\ (j \in stale => j \in stale')
               /\ indicator'[j].target = indicator[j].target
               /\ indicator'[j].progress = indicator[j].progress,
           i \in Indicators /\ indicator'[i].life = "live" =>
               Started(MetricOf[i]) /\ (i \notin stale' => Follows(i)'),
           \A m \in Metrics \ Touches(req[r].call) : Undisturbed(m)
    PROVE  Spares(r)
<1>1. MetricsShape' /\ \A m \in Metrics : Started(m) => Started(m)'
  BY DEF SeriesInv, MetricsShape, Started
<1>2. NothingUnborn'
  BY DEF SeriesInv, NothingUnborn, LiveIndicators, Started
<1>3. ASSUME NEW j \in LiveIndicators(indicator'), j \notin stale' PROVE Follows(j)'
  <2>1. CASE j = i
    BY <1>3, <2>1 DEF LiveIndicators
  <2>2. CASE j # i
    <3>1. /\ j \in Indicators /\ j \in LiveIndicators(indicator) /\ j \notin stale
          /\ indicator'[j].target = indicator[j].target /\ indicator'[j].progress = indicator[j].progress
      BY <1>3, <2>2 DEF LiveIndicators
    <3>2. Follows(j)
      BY <3>1 DEF SeriesInv, ProgressFollowsSeries, Follows
    <3> QED
      BY <3>1, <3>2 DEF Follows
  <2> QED
    BY <2>1, <2>2
<1> QED
  BY <1>1, <1>2, <1>3 DEF Spares

\* An edit writes the progress of the series with the target it writes.
LEMMA UpdateSpares ==
    ASSUME SeriesInv, NEW r \in Requests, CommitUpdate(r)
    PROVE  Spares(r)
<1> DEFINE c == req[r].call
           row == UpdatedRow(r)
<1>0. PICK i, m : i = c.indicator /\ m = MetricOf[i]
  OBVIOUS
<1>1. /\ req[r].at = "begun" /\ c.op = "update"
      /\ indicator' = IF indicator[i].life = "live" THEN [indicator EXCEPT ![i] = row] ELSE indicator
      /\ UNCHANGED <<metric, entry>> /\ Wrote(r, {i})
  BY <1>0 DEF CommitUpdate, With
<1>2. i \in Indicators /\ m \in Metrics /\ Touches(c) = {m}
  BY <1>0, <1>1, CallsAssumption, PairsAssumption DEF SeriesInv, Shape, Touches
<1>3. Started(m) /\ (req[r].fresh => req[r].baseline = metric[m].baseline)
  BY <1>0, <1>1 DEF SeriesInv, Reads, BaselineHolds, ReadsBaseline
<1>4. row.progress = ProgressOf(entry, m, req[r].baseline, row.target)
  BY <1>0, <1>2 DEF UpdatedRow, SeriesInv, Shape, RowFields
<1> HIDE DEF row
<1>5. \A j \in Indicators \ {i} : indicator'[j] = indicator[j]
  BY <1>1 DEF SeriesInv, Shape
<1>6. indicator[i].life = "live" => indicator'[i] = row
  BY <1>1, <1>2 DEF SeriesInv, Shape
<1>7. indicator[i].life # "live" => indicator'[i] = indicator[i]
  BY <1>1, <1>2
<1>8. ASSUME indicator'[i].life = "live", i \notin stale' PROVE Follows(i)'
  <2>1. indicator[i].life = "live" /\ req[r].fresh
    BY <1>1, <1>7, <1>8 DEF Wrote
  <2> QED
    BY <1>0, <1>1, <1>3, <1>4, <1>6, <2>1 DEF Follows
<1>9. \A n \in Metrics \ Touches(c) : Undisturbed(n)
  <2>1. \A n \in Metrics \ {m} : \A j \in Indicators : MetricOf[j] = n => j # i
    BY <1>0
  <2> QED
    BY <1>1, <1>2, <1>5, <2>1 DEF Undisturbed
<1>10. \A j \in Indicators \ {i} : j \in stale => j \in stale'
  BY <1>1 DEF Wrote
<1> QED
  BY <1>0, <1>1, <1>3, <1>5, <1>8, <1>9, <1>10, RowsSpare

\* Points and weights are no part of the progress.
LEMMA PointsSpare ==
    ASSUME SeriesInv, NEW r \in Requests, CommitPoints(r) \/ CommitWeights(r)
    PROVE  Spares(r)
<1>1. \A j \in Indicators :
        /\ indicator'[j].life = indicator[j].life /\ indicator'[j].target = indicator[j].target
        /\ indicator'[j].progress = indicator[j].progress
  BY DEF CommitPoints, CommitWeights, Weighed, SeriesInv, Shape, RowFields
<1>2. UNCHANGED <<metric, entry, stale>>
  BY DEF CommitPoints, CommitWeights
<1>3. \A m \in Metrics : Undisturbed(m)
  BY <1>1, <1>2 DEF Undisturbed
<1>4. ASSUME NEW i \in Indicators, indicator'[i].life = "live"
      PROVE  Started(MetricOf[i]) /\ (i \notin stale' => Follows(i)')
  <2>1. i \in LiveIndicators(indicator) /\ i \in LiveIndicators(indicator') /\ MetricOf[i] \in Metrics
    BY <1>1, <1>4, PairsAssumption DEF LiveIndicators
  <2>2. i \notin stale' => Follows(i)'
    BY <1>2, <1>3, <2>1, OthersFollow
  <2> QED
    BY <2>1, <2>2 DEF SeriesInv, NothingUnborn
<1> QED
  BY <1>1, <1>2, <1>3, <1>4, RowsSpare

\* A deleted indicator follows nothing.
LEMMA DeleteSpares ==
    ASSUME SeriesInv, NEW r \in Requests, CommitDelete(r)
    PROVE  Spares(r)
<1> DEFINE c == req[r].call
<1>0. PICK i : i = c.indicator
  OBVIOUS
<1>1. /\ req[r].at = "begun" /\ c.op = "delete"
      /\ indicator' = [indicator EXCEPT ![i] = GoneIndicator]
      /\ UNCHANGED <<metric, entry>> /\ stale' = stale \ {i}
  BY <1>0 DEF CommitDelete, With
<1>2. i \in Indicators /\ Touches(c) = {MetricOf[i]}
  BY <1>0, <1>1, CallsAssumption DEF SeriesInv, Shape, Touches
<1>3. \A j \in Indicators \ {i} : indicator'[j] = indicator[j]
  BY <1>1 DEF SeriesInv, Shape
<1>4. indicator'[i].life # "live"
  BY <1>1, <1>2 DEF SeriesInv, Shape, GoneIndicator, NoIndicator
<1>5. \A n \in Metrics \ Touches(c) : Undisturbed(n)
  BY <1>1, <1>2, <1>3 DEF Undisturbed
<1> QED
  BY <1>1, <1>3, <1>4, <1>5, RowsSpare

\* An edit of the baseline of a metric leaves its indicators stale: nothing
\* recomputes them.
LEMMA MetricSpares ==
    ASSUME SeriesInv, NEW r \in Requests, CommitUpdateMetric(r) \/ CommitDeleteMetric(r)
    PROVE  Spares(r)
<1> DEFINE c == req[r].call
<1>0. PICK m : m = c.metric
  OBVIOUS
<1>1. /\ req[r].at = "begun" /\ c.op \in {"update_metric", "delete_metric"}
      /\ UNCHANGED <<entry, indicator>>
  BY DEF CommitUpdateMetric, CommitDeleteMetric
<1>2. m \in Metrics /\ Touches(c) = {m}
  BY <1>0, <1>1, CallsAssumption DEF SeriesInv, Shape, Touches
<1>3. DOMAIN metric' = Metrics /\ \A n \in Metrics \ {m} : metric'[n] = metric[n]
  BY <1>0 DEF CommitUpdateMetric, CommitDeleteMetric, SeriesInv, MetricsShape
<1>4. DOMAIN metric'[m] = {"life", "baseline", "kind"}
  BY <1>0, <1>2 DEF CommitUpdateMetric, CommitDeleteMetric, SeriesInv, MetricsShape
<1>5. metric'[m].life = metric[m].life \/ metric'[m].life = "gone"
  BY <1>0, <1>2 DEF CommitUpdateMetric, CommitDeleteMetric, SeriesInv, MetricsShape
<1>6. \/ metric'[m].baseline = metric[m].baseline /\ UNCHANGED stale
      \/ stale' = stale \cup LinksOf(indicator, m)
  BY <1>0, <1>2 DEF CommitUpdateMetric, CommitDeleteMetric, SeriesInv, MetricsShape
<1>7. MetricsShape'
  BY <1>1, <1>3, <1>4 DEF SeriesInv, MetricsShape
<1>8. \A n \in Metrics : Started(n) => Started(n)'
  BY <1>3, <1>5 DEF Started
<1>9. NothingUnborn'
  BY <1>1, <1>8, PairsAssumption DEF SeriesInv, NothingUnborn, LiveIndicators
<1>10. \A n \in Metrics \ {m} : Undisturbed(n)
  BY <1>1, <1>3 DEF Undisturbed
<1>11. ASSUME NEW j \in LiveIndicators(indicator'), j \notin stale' PROVE Follows(j)'
  <2>1. j \in LiveIndicators(indicator) /\ j \in Indicators /\ MetricOf[j] \in Metrics /\ j \notin stale
    BY <1>1, <1>6, <1>11, PairsAssumption DEF LiveIndicators
  <2>2. metric'[MetricOf[j]].baseline = metric[MetricOf[j]].baseline
    BY <1>1, <1>3, <1>6, <1>11, <2>1 DEF LinksOf
  <2>3. Follows(j)
    BY <2>1 DEF SeriesInv, ProgressFollowsSeries, Follows
  <2> QED
    BY <1>1, <2>2, <2>3 DEF Follows
<1> QED
  BY <1>2, <1>7, <1>8, <1>9, <1>10, <1>11 DEF Spares

\* Every commit leaves right what it writes, and alone the metrics it does not touch.
LEMMA CommitSpares ==
    ASSUME SeriesInv, NEW r \in Requests, Commit(r)
    PROVE  Spares(r)
BY LoadSpares, CreateSpares, UpdateSpares, PointsSpare, DeleteSpares, MetricSpares DEF Commit

\* A commit tells the requests whose readings it makes old.
LEMMA CommitTellsOthers ==
    ASSUME Shape, NEW r \in Requests, Commit(r), NEW q \in Requests \ {r}
    PROVE  req'[q].fresh => req[q].fresh /\ Touches(req[q].call) \cap Touches(req[r].call) = {}
<1> DEFINE apart == Touches(req[q].call) \cap Touches(req[r].call) = {}
<1>1. \E sent : Finish(r, sent)
  BY DEF Commit, CommitLoad, CommitCreate, CommitUpdate, CommitPoints, CommitWeights,
         CommitDelete, CommitUpdateMetric, CommitDeleteMetric
<1>2. req'[q] = [req[q] EXCEPT !.fresh = @ /\ apart]
  BY <1>1 DEF Finish
<1>3. "fresh" \in DOMAIN req[q]
  BY DEF Shape, RequestFields
<1> HIDE DEF apart
<1>4. req'[q].fresh = (req[q].fresh /\ apart)
  BY <1>2, <1>3, Zenon
<1> QED
  BY <1>4 DEF apart

\* A commit keeps the readings of the requests it does not tell of it.
LEMMA CommitSeries ==
    ASSUME SeriesInv, Shape', NEW r \in Requests, Commit(r)
    PROVE  SeriesInv'
<1>1. Spares(r) /\ Leaves(r)
  BY CommitSpares, CommitLeaves DEF SeriesInv
<1>3. ASSUME NEW q \in Requests \ {r}
      PROVE  req'[q].fresh => req[q].fresh /\ Touches(req[q].call) \cap Touches(req[r].call) = {}
  BY CommitTellsOthers DEF SeriesInv
<1>4. ASSUME NEW q \in Requests \ {r} PROVE Reads(q)'
  <2>1. req'[q].fresh => \A m \in Metrics \cap Touches(req[q].call) : Started(m) => Undisturbed(m)
    BY <1>1, <1>3 DEF Spares
  <2> QED
    BY <1>1, <1>3, <2>1, ReadsKept DEF Spares, Leaves
<1>5. Reads(r)'
  BY <1>1 DEF Leaves, Reads, BaselineHolds, LoadInOrder, LoadRight
<1>6. \A q \in Requests : Reads(q)'
  BY <1>4, <1>5
<1>7. ProgressFollowsSeries'
  BY <1>1 DEF Spares, Follows, ProgressFollowsSeries
<1> QED
  BY <1>1, <1>6, <1>7 DEF SeriesInv, Spares

\* The other steps leave the series and the indicators alone.
LEMMA QuietSeries ==
    ASSUME SeriesInv, Shape', NEW r \in Requests, OthersKeep(r), UNCHANGED <<committed, stale>>,
           \A q \in Requests \ {r} : req'[q].fresh => req[q].fresh,
           Reads(r)'
    PROVE  SeriesInv'
<1>1. UNCHANGED <<metric, entry, indicator, stale>>
  BY DEF committed
<1>2. \A m : Undisturbed(m) /\ (Started(m) => Started(m)')
  BY <1>1 DEF Undisturbed, Started
<1>3. ASSUME NEW q \in Requests \ {r} PROVE Reads(q)'
  BY <1>2, ReadsKept
<1>4. \A q \in Requests : Reads(q)'
  BY <1>3
<1>5. ProgressFollowsSeries'
  BY <1>1 DEF SeriesInv, ProgressFollowsSeries
<1>6. MetricsShape' /\ NothingUnborn'
  BY <1>1 DEF SeriesInv, MetricsShape, NothingUnborn, Started
<1> QED
  BY <1>4, <1>5, <1>6 DEF SeriesInv

\* A load begins with the readings of its first metric.
LEMMA LoadBeginsRight ==
    ASSUME SeriesInv, Shape', NEW r \in Requests, NEW c \in Calls, BeginLoad(r, c)
    PROVE  Reads(r)'
<1> DEFINE rq == [Idle EXCEPT !.at = "recomputing", !.call = c, !.todo = c.metrics]
<1>0. PICK m : m = Head(c.metrics)
  OBVIOUS
<1>1. /\ c.op = "load" /\ \A n \in DOMAIN c.metrics : LiveMetric(c.metrics[n])
      /\ req'[r] = Snapshot(rq, indicator, m)
      /\ UNCHANGED <<metric, entry, indicator>>
  BY <1>0 DEF BeginLoad, SeriesInv, Shape, committed
<1>2. /\ rq.at = "recomputing" /\ rq.call = c /\ rq.todo = c.metrics /\ rq.draft = NoRows
      /\ DOMAIN rq = RequestFields
  BY DEF Idle, RequestFields
<1>3. c.metrics \in Seq(Metrics) /\ c.metrics # <<>>
  BY <1>1, CallsAssumption
<1>4. /\ \A n \in DOMAIN c.metrics : c.metrics[n] \in Touches(c)
      /\ m \in Touches(c) /\ Touches(c) \subseteq Metrics
      /\ \A n \in Touches(c) : Started(n)
  BY <1>0, <1>1, <1>3 DEF Touches, LiveMetric, Started
<1> HIDE DEF rq
<1>5. PICK w : w = Snapshot(rq, indicator, m).wanted
  OBVIOUS
<1>6. /\ req'[r].at = "recomputing" /\ req'[r].call = c /\ req'[r].todo = c.metrics
      /\ req'[r].draft = NoRows /\ req'[r].wanted = w
      /\ DOMAIN w \subseteq LinksOf(indicator, m)
  BY <1>1, <1>2, <1>5, SnapshotTakes
<1>7. PICK d : d = Drafted(r)'
  OBVIOUS
<1>8. DOMAIN d = DOMAIN w /\ \A i \in DOMAIN w : d[i] = w[i]
  BY <1>6, <1>7 DEF Drafted, NoRows
<1>9. Right(r, m)'
  <2> SUFFICES ASSUME NEW i \in LinksOf(indicator, m)
               PROVE  Overlay(indicator, d)[i].progress
                        = ProgressOf(Written(c), m, metric[m].baseline, indicator[i].target)
    BY <1>1, <1>6, <1>7 DEF Right, LoadRows, Overlay, Written
  <2>1. IF i \in DOMAIN w THEN w[i] = ProgressOf(Written(c), m, metric[m].baseline, indicator[i].target)
        ELSE indicator[i].progress = ProgressOf(Written(c), m, metric[m].baseline, indicator[i].target)
    BY <1>2, <1>5, SnapshotRight
  <2>2. i \in Indicators /\ indicator[i].life = "live" /\ "progress" \in DOMAIN indicator[i]
    BY DEF LinksOf, LiveIndicators, SeriesInv, Shape, RowFields
  <2>3. Overlay(indicator, d)[i].progress = IF i \in DOMAIN d THEN d[i] ELSE indicator[i].progress
    BY <2>2 DEF Overlay
  <2> QED
    BY <1>8, <2>1, <2>3
<1>10. ASSUME NEW n \in Touches(c) \ Unprocessed(r)' PROVE n = m
  <2>1. PICK k \in DOMAIN c.metrics : n = c.metrics[k]
    BY <1>1 DEF Touches
  <2>2. k \notin 2 .. Len(c.metrics)
    BY <1>6, <1>10, <2>1 DEF Unprocessed
  <2> QED
    BY <1>0, <1>3, <2>1, <2>2
<1>11. \A i \in DOMAIN d : i \in Indicators /\ MetricOf[i] \in Touches(c)
  BY <1>4, <1>6, <1>8 DEF LinksOf, LiveIndicators
<1>12. LoadInOrder(r)'
  BY <1>1, <1>3, <1>4, <1>6, <1>7, <1>11 DEF LoadInOrder, Started
<1>13. LoadRight(r)'
  BY <1>6, <1>9, <1>10 DEF LoadRight
<1> QED
  BY <1>6, <1>12, <1>13 DEF Reads, BaselineHolds

\* A load goes on with the readings of its next metric, in the rows it has
\* written so far.
LEMMA LoadGoesOnRight ==
    ASSUME SeriesInv, Shape', NEW r \in Requests, NextMetric(r)
    PROVE  Reads(r)'
<1> DEFINE rq == [req[r] EXCEPT !.todo = Tail(req[r].todo), !.draft = Drafted(r), !.outbox = LoadOutbox(r)]
<1>0. PICK m, c, d, rows : m = req[r].todo[2] /\ c = req[r].call /\ d = Drafted(r) /\ rows = LoadRows(r)
  OBVIOUS
<1>1. /\ req[r].at = "recomputing" /\ Len(req[r].todo) > 1
      /\ req'[r] = Snapshot(rq, rows, m)
      /\ UNCHANGED <<metric, entry, indicator>>
  BY <1>0 DEF NextMetric, Recomputed, SeriesInv, Shape, committed
<1>2. /\ c \in Calls /\ c.op = "load"
      /\ req[r].todo \in Seq(Metrics) /\ req[r].todo # <<>>
      /\ \A n \in DOMAIN req[r].todo : req[r].todo[n] \in Touches(c)
      /\ \A n \in Touches(c) : Started(n)
      /\ \A i \in DOMAIN d : i \in Indicators /\ MetricOf[i] \in Touches(c)
      /\ req[r].fresh => \A n \in Touches(c) \ Unprocessed(r) : Right(r, n)
  BY <1>0, <1>1 DEF SeriesInv, Reads, LoadInOrder, LoadRight
<1>3. /\ rq.at = "recomputing" /\ rq.call = c /\ rq.todo = Tail(req[r].todo) /\ rq.draft = d
      /\ rq.fresh = req[r].fresh /\ DOMAIN rq = RequestFields
  BY <1>0, <1>1 DEF SeriesInv, Shape, RequestFields
<1>4. rows = Overlay(indicator, d)
  BY <1>0 DEF LoadRows
<1> HIDE DEF rq
<1>5. PICK w : w = Snapshot(rq, rows, m).wanted
  OBVIOUS
<1>6. /\ req'[r].at = "recomputing" /\ req'[r].call = c /\ req'[r].todo = Tail(req[r].todo)
      /\ req'[r].draft = d /\ req'[r].wanted = w /\ req'[r].fresh = req[r].fresh
      /\ DOMAIN w \subseteq LinksOf(rows, m)
  BY <1>1, <1>3, <1>5, SnapshotTakes
<1>7. PICK e : e = Drafted(r)'
  OBVIOUS
<1>8. /\ DOMAIN e = DOMAIN w \cup DOMAIN d
      /\ \A i \in DOMAIN e : e[i] = IF i \in DOMAIN w THEN w[i] ELSE d[i]
  BY <1>6, <1>7 DEF Drafted
<1>9. \A i \in Indicators :
        /\ rows[i].life = indicator[i].life /\ rows[i].target = indicator[i].target
        /\ indicator[i].life = "live" =>
             /\ rows[i].progress = IF i \in DOMAIN d THEN d[i] ELSE indicator[i].progress
             /\ Overlay(indicator, e)[i].progress = IF i \in DOMAIN e THEN e[i] ELSE indicator[i].progress
  BY <1>4 DEF Overlay, SeriesInv, Shape, RowFields
<1>10. \A i \in Indicators : indicator[i].life = "live" =>
         Overlay(indicator, e)[i].progress = IF i \in DOMAIN w THEN w[i] ELSE rows[i].progress
  BY <1>8, <1>9
<1>11. LinksOf(rows, m) = LinksOf(indicator, m)
  BY <1>9 DEF LinksOf, LiveIndicators
<1>12. ASSUME NEW n,
              \A i \in LinksOf(indicator, n) : (IF i \in DOMAIN w THEN w[i] ELSE rows[i].progress)
                 = ProgressOf(Written(c), n, metric[n].baseline, indicator[i].target)
       PROVE  Right(r, n)'
  <2>1. \A i \in LinksOf(indicator, n) :
           Overlay(indicator, e)[i].progress
             = ProgressOf(Written(c), n, metric[n].baseline, indicator[i].target)
    BY <1>10, <1>12 DEF LinksOf, LiveIndicators
  <2> QED
    BY <1>1, <1>6, <1>7, <2>1 DEF Right, LoadRows, Overlay, Written
<1>13. Right(r, m)'
  <2> SUFFICES ASSUME NEW i \in LinksOf(indicator, m)
               PROVE  (IF i \in DOMAIN w THEN w[i] ELSE rows[i].progress)
                        = ProgressOf(Written(c), m, metric[m].baseline, indicator[i].target)
    BY <1>12
  <2>2. IF i \in DOMAIN w THEN w[i] = ProgressOf(Written(c), m, metric[m].baseline, rows[i].target)
        ELSE rows[i].progress = ProgressOf(Written(c), m, metric[m].baseline, rows[i].target)
    BY <1>3, <1>5, <1>11, SnapshotRight
  <2>3. rows[i].target = indicator[i].target
    BY <1>9 DEF LinksOf, LiveIndicators
  <2> QED
    BY <2>2, <2>3
<1>14. ASSUME NEW n \in Touches(c), n # m, Right(r, n) PROVE Right(r, n)'
  <2> SUFFICES ASSUME NEW i \in LinksOf(indicator, n)
               PROVE  (IF i \in DOMAIN w THEN w[i] ELSE rows[i].progress)
                        = ProgressOf(Written(c), n, metric[n].baseline, indicator[i].target)
    BY <1>12
  <2>1. i \notin DOMAIN w
    BY <1>6, <1>11, <1>14 DEF LinksOf
  <2> QED
    BY <1>0, <1>14, <2>1 DEF Right
<1>15. ASSUME NEW n \in Touches(c) \ Unprocessed(r)', n # m PROVE n \notin Unprocessed(r)
  <2> SUFFICES ASSUME NEW k \in 2 .. Len(req[r].todo), n = req[r].todo[k] PROVE FALSE
    BY DEF Unprocessed
  <2>1. k # 2
    BY <1>0, <1>15
  <2>2. k - 1 \in 2 .. Len(Tail(req[r].todo)) /\ Tail(req[r].todo)[k - 1] = n
    BY <1>1, <1>2, <2>1
  <2> QED
    BY <1>6, <1>15, <2>2 DEF Unprocessed
<1>16. LoadRight(r)'
  BY <1>2, <1>6, <1>13, <1>14, <1>15 DEF LoadRight
<1>17. \A i \in DOMAIN e : i \in Indicators /\ MetricOf[i] \in Touches(c)
  <2>1. m \in Touches(c)
    BY <1>0, <1>1, <1>2
  <2> QED
    BY <1>2, <1>6, <1>8, <1>11, <2>1 DEF LinksOf, LiveIndicators
<1>18. /\ Tail(req[r].todo) \in Seq(Metrics) /\ Tail(req[r].todo) # <<>>
       /\ \A n \in DOMAIN Tail(req[r].todo) : Tail(req[r].todo)[n] \in Touches(c)
  <2>1. PICK t \in Seq(Metrics) : t = req[r].todo
    BY <1>2
  <2>2. Len(t) \in Nat /\ Len(t) > 1 /\ \A n \in 1 .. Len(t) : t[n] \in Touches(c)
    BY <1>1, <1>2, <2>1
  <2>3. /\ Tail(t) \in Seq(Metrics) /\ Len(Tail(t)) = Len(t) - 1
        /\ \A n \in 1 .. Len(t) - 1 : Tail(t)[n] = t[n + 1]
    BY <2>2
  <2>4. \A n \in 1 .. Len(t) - 1 : Tail(t)[n] \in Touches(c)
    BY <2>2, <2>3
  <2>5. PICK u \in Seq(Metrics) : u = Tail(t)
    BY <2>3
  <2>6. DOMAIN u = 1 .. Len(t) - 1
    BY <2>3, <2>5
  <2>7. Len(<<>>) = 0
    OBVIOUS
  <2> QED
    <3>1. u \in Seq(Metrics) /\ u # <<>> /\ \A n \in DOMAIN u : u[n] \in Touches(c)
      <4>1. Len(u) # 0
        BY <2>2, <2>3, <2>5
      <4>2. u # <<>>
        BY <2>7, <4>1
      <4> QED
        BY <2>4, <2>5, <2>6, <4>2
    <3>2. u = Tail(req[r].todo)
      BY <2>1, <2>5
    <3> QED
      BY <3>1, <3>2
<1>19. LoadInOrder(r)'
  BY <1>1, <1>2, <1>6, <1>7, <1>17, <1>18 DEF LoadInOrder, Started
<1> QED
  BY <1>6, <1>16, <1>19 DEF Reads, BaselineHolds

\* A request that begins keeps the baseline it has just read.
LEMMA AcceptSeries ==
    ASSUME SeriesInv, Shape', NEW r \in Requests, NEW c \in Calls, NEW row, NEW m,
           Accept(r, c, row, m), ReadsBaseline(c) => m = MetricOf[c.indicator] /\ LiveMetric(m)
    PROVE  SeriesInv'
<1>1. Begins(r)
  BY AcceptBegins DEF SeriesInv
<1>2. /\ req'[r].at = "begun" /\ req'[r].call = c /\ req'[r].baseline = metric[m].baseline
      /\ UNCHANGED <<committed, stale>> /\ \A q \in Requests \ {r} : req'[q] = req[q]
  <2>1. req' = [req EXCEPT ![r] = [Idle EXCEPT !.at = "begun", !.call = c, !.seen = row,
                                               !.baseline = metric[m].baseline]]
    BY DEF Accept
  <2> QED
    BY <2>1 DEF SeriesInv, Shape, Accept, Idle, history
<1>3. Reads(r)'
  BY <1>2 DEF Reads, BaselineHolds, LoadInOrder, LoadRight, committed, Started, LiveMetric
<1> QED
  BY <1>1, <1>2, <1>3, QuietSeries DEF Begins

\* A request begins with readings that hold.
LEMMA BeginSeries ==
    ASSUME SeriesInv, Shape', NEW r \in Requests, NEW c \in Calls, Begin(r, c)
    PROVE  SeriesInv'
<1>1. CASE BeginLoad(r, c)
  <2>1. OthersKeep(r) /\ \A q \in Requests \ {r} : req'[q] = req[q]
    BY <1>1, LoadBegins DEF SeriesInv, BeginLoad, Shape
  <2>2. Reads(r)' /\ UNCHANGED <<committed, stale>>
    BY <1>1, LoadBeginsRight DEF BeginLoad, history
  <2> QED
    BY <2>1, <2>2, QuietSeries
<1>2. CASE BeginCreate(r, c)
  BY <1>2, AcceptSeries DEF BeginCreate, ReadsBaseline
<1>3. CASE BeginUpdate(r, c)
  BY <1>3, AcceptSeries DEF BeginUpdate, ReadsBaseline
<1>4. CASE BeginPoints(r, c) \/ BeginDelete(r, c)
  <2>1. ~ReadsBaseline(c)
    BY <1>4 DEF BeginPoints, BeginDelete, ReadsBaseline
  <2> QED
    BY <1>4, <2>1, AcceptSeries DEF BeginPoints, BeginDelete
<1>5. CASE BeginWeights(r, c)
  <2>1. ~ReadsBaseline(c)
    BY <1>5 DEF BeginWeights, ReadsBaseline
  <2> QED
    BY <1>5, <2>1, AcceptSeries DEF BeginWeights
<1>6. CASE BeginUpdateMetric(r, c) \/ BeginDeleteMetric(r, c)
  <2>1. ~ReadsBaseline(c)
    BY <1>6 DEF BeginUpdateMetric, BeginDeleteMetric, ReadsBaseline
  <2> QED
    BY <1>6, <2>1, AcceptSeries DEF BeginUpdateMetric, BeginDeleteMetric
<1> QED
  BY <1>1, <1>2, <1>3, <1>4, <1>5, <1>6 DEF Begin

\* A metric is created before anything refers to it.
LEMMA NewMetricSeries ==
    ASSUME SeriesInv, Shape', NEW r \in Requests, NEW c \in Calls, CreateMetric(r, c)
    PROVE  SeriesInv'
<1> DEFINE m == c.metric
           row == [life |-> "live", baseline |-> c.baseline, kind |-> c.kind]
<1>1. /\ c.op = "create_metric" /\ req[r].at = "idle" /\ ~Started(m)
      /\ metric' = [metric EXCEPT ![m] = row]
      /\ UNCHANGED <<entry, indicator, req, stale>>
  BY DEF CreateMetric, Started, history
<1>2. m \in Metrics
  BY <1>1, CallsAssumption
<1>3. /\ DOMAIN metric' = Metrics /\ metric'[m] = row
      /\ \A n \in Metrics \ {m} : metric'[n] = metric[n]
  BY <1>1, <1>2 DEF SeriesInv, MetricsShape
<1>4. row.life = "live" /\ DOMAIN row = {"life", "baseline", "kind"}
  OBVIOUS
<1> HIDE DEF m, row
<1>5. MetricsShape'
  BY <1>1, <1>3, <1>4 DEF SeriesInv, MetricsShape
<1>6. \A n \in Metrics : Started(n) => Started(n)' /\ Undisturbed(n)
  BY <1>1, <1>3, <1>4 DEF Started, Undisturbed
<1>7. NothingUnborn'
  BY <1>1, <1>6, PairsAssumption DEF SeriesInv, NothingUnborn, LiveIndicators
<1>8. OthersKeep(r)
  BY <1>1 DEF SeriesInv, Shape, OthersKeep
<1>9. ASSUME NEW q \in Requests PROVE Reads(q)'
  <2>1. CASE q # r
    BY <1>1, <1>6, <1>8, <2>1, ReadsKept
  <2>2. CASE q = r
    BY <1>1, <2>2 DEF Reads, BaselineHolds, LoadInOrder, LoadRight
  <2> QED
    BY <2>1, <2>2
<1>10. ASSUME NEW i \in LiveIndicators(indicator') \ stale' PROVE Follows(i)'
  <2>1. MetricOf[i] \in Metrics /\ Started(MetricOf[i]) /\ i \notin stale
    BY <1>1, <1>10, PairsAssumption DEF LiveIndicators, SeriesInv, NothingUnborn
  <2> QED
    BY <1>6, <2>1, OthersFollow
<1>11. ProgressFollowsSeries'
  BY <1>10 DEF Follows, ProgressFollowsSeries
<1> QED
  BY <1>5, <1>7, <1>9, <1>11 DEF SeriesInv

\* No step leaves an indicator that does not follow its series and is not stale.
LEMMA NextSeries == ASSUME SeriesInv, [Next]_vars PROVE SeriesInv'
<1>0. Shape /\ Shape'
  BY NextShape DEF SeriesInv
<1>1. ASSUME NEW r \in Requests, UNCHANGED <<committed, req, stale>> PROVE SeriesInv'
  <2>1. OthersKeep(r)
    BY <1>0, <1>1 DEF Shape, OthersKeep
  <2>2. Reads(r)
    BY DEF SeriesInv
  <2>3. Reads(r)'
    <3>1. /\ UNCHANGED <<metric, entry, indicator, req>>
          /\ Drafted(r)' = Drafted(r) /\ Unprocessed(r)' = Unprocessed(r)
      BY <1>1 DEF committed, Drafted, Unprocessed
    <3>2. \A m : Undisturbed(m)
      BY <3>1 DEF Undisturbed
    <3>3. \A m : Right(r, m) => Right(r, m)'
      BY <1>0, <3>1, <3>2, RightKept
    <3>4. LoadRight(r)'
      BY <2>2, <3>1, <3>3 DEF Reads, LoadRight
    <3>5. BaselineHolds(r)' /\ LoadInOrder(r)'
      BY <2>2, <3>1 DEF Reads, BaselineHolds, LoadInOrder, Started
    <3> QED
      BY <3>4, <3>5 DEF Reads
  <2> QED
    BY <1>0, <1>1, <2>1, <2>3, QuietSeries
<1>2. ASSUME NEW r \in Requests, NEW c \in Calls, DeleteObjective(r, c) PROVE SeriesInv'
  BY <1>1, <1>2 DEF DeleteObjective, history
<1>3. ASSUME NEW r \in Requests, LockGroup(r) PROVE SeriesInv'
  BY <1>1, <1>3 DEF LockGroup, history
<1>4. ASSUME NEW r \in Requests, NextMetric(r) PROVE SeriesInv'
  <2>1. OthersKeep(r) /\ \A q \in Requests \ {r} : req'[q] = req[q]
    BY <1>0, <1>4, LoadContinues DEF NextMetric, Shape
  <2>2. Reads(r)' /\ UNCHANGED <<committed, stale>>
    BY <1>0, <1>4, LoadGoesOnRight DEF NextMetric, history
  <2> QED
    BY <1>0, <2>1, <2>2, QuietSeries
<1>5. ASSUME NEW r \in Requests, Deliver(r) \/ LoseEvent(r) \/ RollBack(r) PROVE SeriesInv'
  <2>1. Leaves(r)
    BY <1>0, <1>5, AfterEventLeaves, RollBackLeaves DEF Deliver, LoseEvent
  <2>2. UNCHANGED <<committed, stale>> /\ \A q \in Requests \ {r} : req'[q] = req[q]
    BY <1>0, <1>5 DEF Deliver, LoseEvent, RollBack, AfterEvent, Shape, history
  <2>3. Reads(r)'
    BY <2>1 DEF Leaves, Reads, BaselineHolds, LoadInOrder, LoadRight
  <2> QED
    BY <1>0, <2>1, <2>2, <2>3, QuietSeries DEF Leaves
<1>6. ASSUME UNCHANGED vars PROVE SeriesInv'
  <2>1. UNCHANGED <<metric, entry, indicator, stale, req, owner>>
    BY <1>6 DEF vars
  <2>2. \A r \in Requests : Reads(r)'
    BY <1>1, <2>1 DEF SeriesInv, committed
  <2> QED
    BY <1>0, <2>1, <2>2 DEF SeriesInv, MetricsShape, NothingUnborn, Started, ProgressFollowsSeries
<1> QED
  BY <1>0, <1>2, <1>3, <1>4, <1>5, <1>6, BeginSeries, NewMetricSeries, CommitSeries DEF Next, Step

\* Nothing is written yet.
LEMMA InitSeries == Init => SeriesInv
<1> SUFFICES ASSUME Init PROVE SeriesInv
  OBVIOUS
<1>1. Shape
  BY InitShape
<1>2. \A r \in Requests : req[r].at = "idle"
  BY IdleFields DEF Init, Quiet
<1>3. MetricsShape
  BY DEF Init, Quiet, MetricsShape, Unborn
<1>4. LiveIndicators(indicator) = {} /\ \A e \in Entries : entry[e] \notin Int
  BY NumbersAssumption DEF Init, Quiet, LiveIndicators, NoIndicator
<1>5. NothingUnborn /\ ProgressFollowsSeries
  BY <1>4 DEF NothingUnborn, ProgressFollowsSeries
<1> QED
  BY <1>1, <1>2, <1>3, <1>5 DEF SeriesInv, Reads, BaselineHolds, LoadInOrder, LoadRight

\* However many requests load metrics, edit their baselines and create, edit and
\* delete indicators at once, an indicator shows the progress of the series of
\* its metric, unless the write that last computed it had read what another
\* commit changed in the meantime, or the baseline was edited since (RN-P8;
\* objective-indicator.service.ts: recomputeForMetric, create, update).
THEOREM IndicatorsFollow == Spec => []ProgressFollowsSeries
<1>1. Init => SeriesInv
  BY InitSeries
<1>2. SeriesInv /\ [Next]_vars => SeriesInv'
  BY NextSeries
<1>3. SeriesInv => ProgressFollowsSeries
  BY DEF SeriesInv
<1> QED
  BY <1>1, <1>2, <1>3, PTL DEF Spec

-----------------------------------------------------------------------------
(***************************************************************************)
(* The types: every progress and every result is between nothing and one   *)
(* hundred percent.                                                        *)
(***************************************************************************)
EventRow == [objective : Objectives, result : Progress]
ProgressRows(f) == \A i \in DOMAIN f : f[i] \in Progress

RequestTyped(r) ==
    /\ req[r].at \in {"idle", "begun", "recomputing", "publishing"}
    /\ req[r].at = "idle" => req[r] = Idle
    /\ req[r].seen \in IndicatorRow
    /\ req[r].groups \subseteq Objectives
    /\ req[r].at = "begun" /\ ReadsBaseline(req[r].call) => req[r].baseline \in Int
    /\ req[r].outbox \in Seq(EventRow)
    /\ req[r].at = "publishing" => req[r].outbox # <<>>
    /\ ProgressRows(req[r].wanted) /\ ProgressRows(req[r].draft)
    /\ req[r].at = "recomputing" => req[r].call \in Calls /\ req[r].call.op = "load"

MetricRow == [life : Life, baseline : Baselines \cup {0}, kind : Kinds]
RowsTyped ==
    /\ metric \in [Metrics -> MetricRow]
    /\ entry \in [Entries -> Increments \cup {Absent, Deleted}]
    /\ indicator \in [Indicators -> IndicatorRow]
    /\ objective \in [Objectives -> [live : BOOLEAN, result : Progress]]
    /\ stale \subseteq Indicators /\ unchecked \subseteq Indicators
    /\ behind \subseteq Objectives

TypesInv ==
    /\ GroupInv /\ RowsTyped
    /\ \A r \in Requests : RequestTyped(r)

\* The ends of an indicator and of a metric are numbers.
LEMMA TargetsAreNumbers ==
    /\ \A t \in Targets \cup {0} : t \in Int
    /\ \A b \in Baselines \cup {0} : b \in Int
<1>1. ASSUME NEW t \in Targets \cup {0} PROVE t \in Int
  <2>1. CASE t \in Targets
    BY <2>1, NumbersAssumption
  <2>2. CASE t = 0
    BY <2>2
  <2> QED
    BY <2>1, <2>2
<1>2. ASSUME NEW b \in Baselines \cup {0} PROVE b \in Int
  <2>1. CASE b \in Baselines
    BY <2>1, NumbersAssumption
  <2>2. CASE b = 0
    BY <2>2
  <2> QED
    BY <2>1, <2>2
<1> QED
  BY <1>1, <1>2

\* A progress is clamped between nothing and one hundred percent, whatever the
\* series amounts to.
LEMMA ProgressType ==
    ASSUME IsFiniteSet(Entries), NEW series, NEW m, NEW baseline \in Int, NEW target \in Int
    PROVE  ProgressOf(series, m, baseline, target) \in Progress
<1> DEFINE inc == IncrementsOf(series, m)
           actual == AccumulatedValue(baseline, inc)
<1>1. IsFiniteSet(DOMAIN inc) /\ \A e \in DOMAIN inc : inc[e] \in Int
  <2>1. DOMAIN inc \subseteq Entries /\ \A e \in DOMAIN inc : inc[e] \in Int
    BY DEF IncrementsOf
  <2> QED
    BY <2>1, FS_Subset
<1>2. actual \in Int
  <2> HIDE DEF inc
  <2>1. SumFunctionOnSet(inc, DOMAIN inc) \in Int
    BY <1>1, SumType
  <2> QED
    BY <2>1 DEF AccumulatedValue, SumFunction
<1>3. ProgressOf(series, m, baseline, target) =
        IF DOMAIN inc = {} THEN 0 ELSE ProgressBp(actual, Baseline, target)
  BY DEF ProgressOf, ObjectiveIndicatorProgressBp
<1> HIDE DEF actual, inc
<1>4. ProgressBp(actual, Baseline, target) \in Progress
  <2> DEFINE a == (actual - Baseline) * FullBp
             b == target - Baseline
             raw == Quotient(a, b)
  <2>1. a \in Int /\ b \in Int /\ FullBp \in Nat /\ (b = 0 <=> target = Baseline)
    BY <1>2, FullBpAssumption DEF Baseline
  <2> HIDE DEF a, b
  <2>2. b # 0 => raw \in Int
    BY <2>1 DEF Quotient
  <2>3. ProgressBp(actual, Baseline, target) =
          IF target = Baseline THEN IF actual = target THEN FullBp ELSE 0
          ELSE IF raw <= 0 THEN 0 ELSE IF raw >= FullBp THEN FullBp ELSE raw
    BY DEF ProgressBp, a, b
  <2> HIDE DEF raw
  <2> QED
    BY <2>1, <2>2, <2>3 DEF Progress
<1> QED
  BY <1>3, <1>4, FullBpAssumption DEF Progress

\* The result of a valid group is a progress.
LEMMA AggregateType ==
    ASSUME IsFiniteSet(Indicators), NEW rows \in [Indicators -> IndicatorRow], NEW o,
           GroupValid(rows, o)
    PROVE  Aggregate(rows, o) \in Progress
<1> DEFINE S == Group(rows, o)
           g == [i \in S |-> [weight |-> rows[i].weight, progress |-> rows[i].progress]]
<1>1. S \subseteq Indicators /\ IsFiniteSet(S)
  <2>1. S \subseteq Indicators
    BY DEF Group, LiveIndicators
  <2> QED
    BY <2>1, FS_Subset
<1> HIDE DEF S
<1>2. g \in [S -> [weight : Weight, progress : Progress]]
  BY <1>1 DEF IndicatorRow
<1>3. [i \in S |-> g[i].weight] = [i \in S |-> rows[i].weight]
  OBVIOUS
<1> HIDE DEF g
<1>4. AggregateProgressBp(g) \in Progress
  BY <1>1, <1>2, <1>3, AggregateIsExact DEF GroupValid, S
<1> QED
  BY <1>4 DEF Aggregate, g, S

\* Events tell objectives of results.
LEMMA EventsType ==
    ASSUME NEW rows, NEW S \in SUBSET Objectives, \A o \in S : Aggregate(rows, o) \in Progress
    PROVE  Events(rows, S) \in Seq(EventRow)
<1> DEFINE s == InOrder(S)
           c == Cardinality(S)
<1>1. c \in Nat /\ s \in [1 .. c -> S]
  BY InOrderIsOnto DEF InAscent
<1>2. Events(rows, S) = [n \in 1 .. c |-> Event(rows, s[n])]
  BY DEF Events
<1> HIDE DEF s, c
<1>3. \A n \in 1 .. c : Event(rows, s[n]) \in EventRow
  BY <1>1 DEF Event, EventRow
<1> QED
  BY <1>1, <1>2, <1>3, IsASeq

\* The rows a transaction sees keep their types.
LEMMA OverlayType ==
    ASSUME NEW rows \in [Indicators -> IndicatorRow], NEW d, ProgressRows(d)
    PROVE  Overlay(rows, d) \in [Indicators -> IndicatorRow]
BY DEF Overlay, ProgressRows, IndicatorRow

\* A load wants progress, for every indicator it means to write.
LEMMA SnapshotType ==
    ASSUME IsFiniteSet(Entries), RowsTyped, NEW rq, DOMAIN rq = RequestFields,
           NEW rows \in [Indicators -> IndicatorRow], NEW m \in Metrics
    PROVE  ProgressRows(Snapshot(rq, rows, m).wanted)
<1> DEFINE links == LinksOf(rows, m)
           new == [i \in links |->
                     ProgressOf(Written(rq.call), m, metric[m].baseline, rows[i].target)]
           w == [i \in {j \in links : new[j] # rows[j].progress} |-> new[i]]
<1>1. Snapshot(rq, rows, m) = [rq EXCEPT !.wanted = w, !.groups = {ObjectiveOf[i] : i \in links}]
  BY DEF Snapshot
<1>2. ASSUME NEW i \in links PROVE new[i] \in Progress
  <2>1. i \in Indicators /\ rows[i].target \in Int /\ metric[m].baseline \in Int
    <3>1. i \in Indicators /\ rows[i] \in IndicatorRow
      BY DEF LinksOf, LiveIndicators
    <3> HIDE DEF new, w
    <3>2. metric[m] \in MetricRow
      BY DEF RowsTyped
    <3>3. rows[i].target \in Targets \cup {0}
      BY <3>1 DEF IndicatorRow
    <3>4. metric[m].baseline \in Baselines \cup {0}
      BY <3>2 DEF MetricRow
    <3> QED
      BY <3>1, <3>3, <3>4, TargetsAreNumbers
  <2> QED
    BY <2>1, ProgressType
<1>3. ProgressRows(w)
  <2> HIDE DEF new
  <2> QED
    BY <1>2 DEF ProgressRows
<1> HIDE DEF w, links
<1> QED
  BY <1>1, <1>3 DEF RequestFields

\* What a load has written and what it will publish.
LEMMA LoadType ==
    ASSUME IsFiniteSet(Indicators), TypesInv, NEW r \in Requests, Recomputed(r)
    PROVE  /\ ProgressRows(Drafted(r))
           /\ LoadRows(r) \in [Indicators -> IndicatorRow]
           /\ LoadOutbox(r) \in Seq(EventRow)
<1>1. RequestTyped(r)
  BY DEF TypesInv
<1>2. ProgressRows(Drafted(r))
  BY <1>1 DEF RequestTyped, ProgressRows, Drafted
<1>3. LoadRows(r) \in [Indicators -> IndicatorRow]
  BY <1>2, OverlayType DEF LoadRows, TypesInv, RowsTyped
<1>4. req[r].groups \in SUBSET Objectives
  BY <1>1 DEF RequestTyped
<1>5. \A o \in req[r].groups : Aggregate(LoadRows(r), o) \in Progress
  BY <1>3, AggregateType DEF Recomputed
<1>6. Events(LoadRows(r), req[r].groups) \in Seq(EventRow)
  BY <1>4, <1>5, EventsType
<1> QED
  BY <1>1, <1>2, <1>3, <1>6, ConcatProperties DEF LoadOutbox, RequestTyped

\* A commit with events of the right type.
LEMMA FinishType ==
    ASSUME TypesInv, NEW r \in Requests, NEW sent \in Seq(EventRow), Finish(r, sent)
    PROVE  /\ \A q \in Requests : RequestTyped(q)'
           /\ behind' \subseteq Objectives
<1>1. Shape
  BY DEF TypesInv, GroupInv
<1>2. behind' \subseteq Objectives
  <2>1. \A n \in DOMAIN sent : sent[n].objective \in Objectives
    <3>1. sent \in [1 .. Len(sent) -> EventRow]
      BY LenProperties
    <3> QED
      BY <3>1 DEF EventRow
  <2>2. behind \subseteq Objectives
    BY DEF TypesInv, RowsTyped
  <2> QED
    BY <2>1, <2>2 DEF Finish
<1>3. RequestTyped(r)'
  <2>1. req'[r] = IF sent = <<>> THEN Idle ELSE [Idle EXCEPT !.at = "publishing", !.outbox = sent]
    BY DEF Finish
  <2>2. NoIndicator \in IndicatorRow
    BY FullBpAssumption DEF NoIndicator, IndicatorRow, Life, Links, CurveModes, Weight, Progress, Value
  <2> QED
    BY <2>1, <2>2 DEF RequestTyped, Idle, ProgressRows, NoRows
<1>4. ASSUME NEW q \in Requests \ {r} PROVE RequestTyped(q)'
  <2>1. /\ req'[q].at = req[q].at /\ req'[q].call = req[q].call /\ req'[q].groups = req[q].groups
        /\ req'[q].wanted = req[q].wanted /\ req'[q].draft = req[q].draft
        /\ req'[q].outbox = req[q].outbox /\ req'[q].baseline = req[q].baseline
        /\ req'[q].seen = req[q].seen
    BY <1>1, FinishLeaves DEF Leaves, OthersKeep
  <2>2. ASSUME req[q].at = "idle" PROVE req'[q] = Idle
    <3>1. req[q] = Idle
      BY <2>2 DEF TypesInv, RequestTyped
    <3>2. Touches(Idle.call) = {}
      BY DEF Idle, NoCall, Touches
    <3>3. req'[q] = [Idle EXCEPT !.fresh = @ /\ Touches(Idle.call) \cap Touches(req[r].call) = {}]
      BY <3>1 DEF Finish
    <3>4. Idle.fresh = TRUE
      BY DEF Idle
    <3>5. (Idle.fresh /\ Touches(Idle.call) \cap Touches(req[r].call) = {}) = TRUE
      BY <3>2, <3>4
    <3>6. [Idle EXCEPT !.fresh = TRUE] = Idle
      <4>1. Idle = [f \in DOMAIN Idle |-> Idle[f]]
        BY DEF Idle
      <4>2. [Idle EXCEPT !.fresh = TRUE] = [f \in DOMAIN Idle |-> IF f = "fresh" THEN TRUE ELSE Idle[f]]
        BY <4>1
      <4> QED
        BY <3>4, <4>1, <4>2
    <3> QED
      BY <3>3, <3>5, <3>6
  <2>3. RequestTyped(q)
    BY DEF TypesInv
  <2> QED
    BY <2>1, <2>2, <2>3 DEF RequestTyped
<1> QED
  BY <1>2, <1>3, <1>4

\* The rows edits write have their types.
LEMMA CreatedType ==
    ASSUME IsFiniteSet(Entries), TypesInv, NEW r \in Requests,
           req[r].at = "begun", req[r].call.op = "create"
    PROVE  /\ req[r].call.indicator \in Indicators /\ CreatedRow(r) \in IndicatorRow
           /\ CreatedMetric(r) \in [Metrics -> MetricRow]
<1> DEFINE c == req[r].call
           i == c.indicator
<1>1. /\ c \in Calls /\ i \in Indicators /\ MetricOf[i] \in Metrics
      /\ c.inline \in BOOLEAN /\ c.kind \in Kinds
      /\ c.target \in Targets /\ c.weight \in Weight
      /\ c.link \in Links /\ c.mode \in CurveModes
      /\ c.last \in Targets \cup {NoPoints}
  BY CallsAssumption, PairsAssumption DEF TypesInv, GroupInv, Shape
<1>2. ~c.inline => req[r].baseline \in Int
  BY DEF TypesInv, RequestTyped, ReadsBaseline
<1>3. c.target \in Int /\ 0 \in Progress
  BY <1>1, TargetsAreNumbers, FullBpAssumption DEF Progress
<1>4. ~c.inline => ProgressOf(entry, MetricOf[i], req[r].baseline, c.target) \in Progress
  BY <1>2, <1>3, ProgressType
<1>5. (IF c.inline THEN 0 ELSE ProgressOf(entry, MetricOf[i], req[r].baseline, c.target)) \in Progress
  BY <1>3, <1>4
<1>6. PICK p \in Progress : p = IF c.inline THEN 0 ELSE ProgressOf(entry, MetricOf[i], req[r].baseline, c.target)
  BY <1>5
<1>7. CreatedRow(r) = [life |-> "live", target |-> c.target, weight |-> c.weight, link |-> c.link,
                       mode |-> c.mode, last |-> c.last, progress |-> p]
  BY <1>6 DEF CreatedRow
<1>8. CreatedRow(r) \in IndicatorRow
  <2> HIDE DEF c
  <2> QED
    BY <1>1, <1>6, <1>7 DEF IndicatorRow, Life, Value
<1>9. CreatedMetric(r) \in [Metrics -> MetricRow]
  <2>1. metric \in [Metrics -> MetricRow]
    BY DEF TypesInv, RowsTyped
  <2>2. [life |-> "live", baseline |-> Baseline, kind |-> c.kind] \in MetricRow
    BY <1>1 DEF MetricRow, Life, Baseline
  <2> QED
    BY <1>1, <2>1, <2>2 DEF CreatedMetric
<1> QED
  BY <1>1, <1>8, <1>9

\* An edit may leave any field as it was.
LEMMA UpdatedType ==
    ASSUME IsFiniteSet(Entries), TypesInv, NEW r \in Requests,
           req[r].at = "begun", req[r].call.op = "update"
    PROVE  req[r].call.indicator \in Indicators /\ UpdatedRow(r) \in IndicatorRow
<1> DEFINE c == req[r].call
           i == c.indicator
           old == req[r].seen
           target == Given(c.target, old.target)
           weight == Given(c.weight, old.weight)
           link == Given(c.link, old.link)
           mode == Given(c.mode, old.mode)
           last == Given(c.last, indicator[i].last)
           p == ProgressOf(entry, MetricOf[i], req[r].baseline, target)
<1>1. /\ c \in Calls /\ i \in Indicators
      /\ c.target \in Targets \cup {Keep} /\ c.weight \in Weight \cup {Keep}
      /\ c.link \in Links \cup {Keep} /\ c.mode \in CurveModes \cup {Keep}
      /\ c.last \in Targets \cup {NoPoints, Keep}
  BY CallsAssumption DEF TypesInv, GroupInv, Shape
<1>2. old \in IndicatorRow /\ indicator[i] \in IndicatorRow /\ req[r].baseline \in Int
  BY <1>1 DEF TypesInv, RequestTyped, RowsTyped, ReadsBaseline
<1>3. target \in Targets \cup {0}
  BY <1>1, <1>2 DEF Given, IndicatorRow
<1>4. weight \in Weight
  BY <1>1, <1>2 DEF Given, IndicatorRow
<1>5. link \in Links
  BY <1>1, <1>2 DEF Given, IndicatorRow
<1>6. mode \in CurveModes
  BY <1>1, <1>2 DEF Given, IndicatorRow
<1>7. last \in Value(Targets, NoPoints)
  BY <1>1, <1>2 DEF Given, IndicatorRow, Value
<1>8. p \in Progress
  BY <1>2, <1>3, TargetsAreNumbers, ProgressType
<1>9. UpdatedRow(r) = [indicator[i] EXCEPT !.target = target, !.weight = weight, !.link = link,
                                           !.mode = mode, !.last = last, !.progress = p]
  BY DEF UpdatedRow
<1> HIDE DEF target, weight, link, mode, last, p
<1> QED
  BY <1>1, <1>2, <1>3, <1>4, <1>5, <1>6, <1>7, <1>8, <1>9 DEF IndicatorRow

\* A commit of rows of the right type publishes the results of valid groups.
LEMMA RowsPublish ==
    ASSUME IsFiniteSet(Indicators), GroupInv', indicator' \in [Indicators -> IndicatorRow],
           NEW S \in SUBSET Objectives
    PROVE  Events(indicator', S) \in Seq(EventRow)
<1>1. \A o \in S : GroupValid(indicator', o)
  BY DEF GroupInv
<1>2. \A o \in S : Aggregate(indicator', o) \in Progress
  BY <1>1, AggregateType
<1> QED
  BY <1>2, EventsType

\* What commits write has its type.
LEMMA CommitType ==
    ASSUME IsFiniteSet(Indicators), IsFiniteSet(Entries), TypesInv, GroupInv',
           NEW r \in Requests, Commit(r)
    PROVE  TypesInv'
<1> DEFINE c == req[r].call
<1>0. RequestTyped(r) /\ RowsTyped /\ Shape
  BY DEF TypesInv, GroupInv
<1>1. ASSUME metric' \in [Metrics -> MetricRow], indicator' \in [Indicators -> IndicatorRow],
             entry' \in [Entries -> Increments \cup {Absent, Deleted}], UNCHANGED objective,
             stale' \subseteq Indicators, unchecked' \subseteq Indicators,
             \E sent \in Seq(EventRow) : Finish(r, sent)
      PROVE  TypesInv'
  <2>1. (\A q \in Requests : RequestTyped(q)') /\ behind' \subseteq Objectives
    BY <1>1, FinishType
  <2>2. RowsTyped'
    BY <1>0, <1>1, <2>1 DEF RowsTyped
  <2> QED
    BY <2>1, <2>2 DEF TypesInv
<1>2. /\ metric \in [Metrics -> MetricRow] /\ indicator \in [Indicators -> IndicatorRow]
      /\ entry \in [Entries -> Increments \cup {Absent, Deleted}]
      /\ stale \subseteq Indicators /\ unchecked \subseteq Indicators
  BY <1>0 DEF RowsTyped
<1>3. ASSUME NEW S \in SUBSET Indicators
      PROVE  /\ Wrote(r, S) => stale' \subseteq Indicators
             /\ Checked(r, S) => unchecked' \subseteq Indicators
  BY <1>2 DEF Wrote, Checked
<1>4. CASE CommitLoad(r)
  <2>1. LoadRows(r) \in [Indicators -> IndicatorRow] /\ LoadOutbox(r) \in Seq(EventRow)
    BY <1>4, LoadType DEF CommitLoad
  <2>2. Written(c) \in [Entries -> Increments \cup {Absent, Deleted}]
    <3>1. c \in Calls /\ c.op = "load"
      BY <1>0, <1>4 DEF CommitLoad, Recomputed, RequestTyped
    <3>2. \A e \in DOMAIN c.writes : c.writes[e] \in Increments \cup {Deleted}
      BY <3>1, CallsAssumption
    <3> HIDE DEF c
    <3> QED
      BY <1>2, <3>2 DEF Written
  <2>3. UNION {LinksOf(indicator, m) : m \in Touches(c)} \subseteq Indicators
    BY DEF LinksOf, LiveIndicators
  <2> QED
    BY <1>1, <1>2, <1>3, <1>4, <2>1, <2>2, <2>3 DEF CommitLoad
<1>5. CASE CommitCreate(r)
  <2>1. c.indicator \in Indicators /\ CreatedRow(r) \in IndicatorRow /\ CreatedMetric(r) \in [Metrics -> MetricRow]
    BY <1>5, CreatedType DEF CommitCreate
  <2>2. indicator' \in [Indicators -> IndicatorRow]
    BY <1>2, <1>5, <2>1 DEF CommitCreate, With
  <2>3. Events(indicator', {ObjectiveOf[c.indicator]}) \in Seq(EventRow)
    <3>1. {ObjectiveOf[c.indicator]} \in SUBSET Objectives
      BY <2>1, PairsAssumption
    <3> QED
      BY <2>2, <3>1, RowsPublish
  <2>4. {c.indicator} \in SUBSET Indicators
    BY <2>1
  <2> QED
    BY <1>1, <1>2, <1>3, <1>5, <2>1, <2>2, <2>3, <2>4 DEF CommitCreate
<1>6. CASE CommitUpdate(r)
  <2>1. c.indicator \in Indicators /\ UpdatedRow(r) \in IndicatorRow
    BY <1>6, UpdatedType DEF CommitUpdate
  <2>2. indicator' \in [Indicators -> IndicatorRow]
    BY <1>2, <1>6, <2>1 DEF CommitUpdate, With
  <2>3. Events(indicator', {ObjectiveOf[c.indicator]}) \in Seq(EventRow)
    <3>1. {ObjectiveOf[c.indicator]} \in SUBSET Objectives
      BY <2>1, PairsAssumption
    <3> QED
      BY <2>2, <3>1, RowsPublish
  <2>4. {c.indicator} \in SUBSET Indicators
    BY <2>1
  <2> QED
    BY <1>1, <1>2, <1>3, <1>6, <2>2, <2>3, <2>4 DEF CommitUpdate
<1>7. CASE CommitPoints(r)
  <2>1. c.indicator \in Indicators /\ c.last \in Value(Targets, NoPoints)
    BY <1>0, <1>7, CallsAssumption DEF CommitPoints, Shape, Value
  <2>2. indicator' \in [Indicators -> IndicatorRow]
    BY <1>2, <1>7, <2>1 DEF CommitPoints, IndicatorRow
  <2>3. {c.indicator} \in SUBSET Indicators /\ <<>> \in Seq(EventRow)
    BY <2>1
  <2> QED
    BY <1>1, <1>2, <1>3, <1>7, <2>2, <2>3 DEF CommitPoints
<1>8. CASE CommitWeights(r)
  <2>1. c.objective \in Objectives /\ c.weights \in [DOMAIN c.weights -> Weight]
    BY <1>0, <1>8, CallsAssumption DEF CommitWeights, Shape
  <2>2. indicator' \in [Indicators -> IndicatorRow]
    <3>1. indicator' = Weighed(c.weights)
      BY <1>8 DEF CommitWeights
    <3> HIDE DEF c
    <3> QED
      BY <1>2, <2>1, <3>1 DEF Weighed, IndicatorRow
  <2>3. Events(indicator', {c.objective}) \in Seq(EventRow) /\ <<>> \in Seq(EventRow)
    BY <2>1, <2>2, RowsPublish
  <2> QED
    BY <1>1, <1>2, <1>8, <2>2, <2>3 DEF CommitWeights
<1>9. CASE CommitDelete(r)
  <2>1. c.indicator \in Indicators
    BY <1>0, <1>9, CallsAssumption DEF CommitDelete, Shape
  <2>2. GoneIndicator \in IndicatorRow
    BY FullBpAssumption DEF GoneIndicator, NoIndicator, IndicatorRow, Life, Links, CurveModes, Weight, Progress, Value
  <2>3. indicator' \in [Indicators -> IndicatorRow]
    BY <1>2, <1>9, <2>1, <2>2 DEF CommitDelete, With
  <2>4. Events(indicator', {ObjectiveOf[c.indicator]}) \in Seq(EventRow)
    <3>1. {ObjectiveOf[c.indicator]} \in SUBSET Objectives
      BY <2>1, PairsAssumption
    <3> QED
      BY <2>3, <3>1, RowsPublish
  <2> QED
    BY <1>1, <1>2, <1>9, <2>3, <2>4 DEF CommitDelete
<1>10. CASE CommitUpdateMetric(r)
  <2>1. /\ c.metric \in Metrics /\ c.baseline \in Baselines \cup {Keep}
        /\ c.kind \in Kinds \cup {Keep}
    BY <1>0, <1>10, CallsAssumption DEF CommitUpdateMetric, Shape
  <2>2. metric' \in [Metrics -> MetricRow]
    <3> DEFINE b == Given(c.baseline, metric[c.metric].baseline)
               k == Given(c.kind, metric[c.metric].kind)
    <3>1. metric[c.metric] \in MetricRow
      BY <1>2, <2>1
    <3>2. b \in Baselines \cup {0}
      BY <2>1, <3>1 DEF Given, MetricRow
    <3>3. k \in Kinds
      BY <2>1, <3>1 DEF Given, MetricRow
    <3>4. metric' = [metric EXCEPT ![c.metric].baseline = b, ![c.metric].kind = k]
      BY <1>2, <1>10, <2>1 DEF CommitUpdateMetric
    <3> HIDE DEF b, k, c
    <3> QED
      BY <1>2, <2>1, <3>1, <3>2, <3>3, <3>4 DEF MetricRow
  <2>3. LinksOf(indicator, c.metric) \in SUBSET Indicators /\ <<>> \in Seq(EventRow)
    BY DEF LinksOf, LiveIndicators
  <2>4. stale' \subseteq Indicators
    BY <1>2, <1>10, <2>3 DEF CommitUpdateMetric
  <2> QED
    BY <1>1, <1>2, <1>3, <1>10, <2>2, <2>3, <2>4 DEF CommitUpdateMetric
<1>11. CASE CommitDeleteMetric(r)
  <2>1. c.metric \in Metrics
    BY <1>0, <1>11, CallsAssumption DEF CommitDeleteMetric, Shape
  <2>2. metric' \in [Metrics -> MetricRow]
    BY <1>2, <1>11, <2>1 DEF CommitDeleteMetric, MetricRow, Life
  <2>3. LinksOf(indicator, c.metric) \in SUBSET Indicators /\ <<>> \in Seq(EventRow)
    BY DEF LinksOf, LiveIndicators
  <2> QED
    BY <1>1, <1>2, <1>3, <1>11, <2>2, <2>3 DEF CommitDeleteMetric
<1> QED
  BY <1>4, <1>5, <1>6, <1>7, <1>8, <1>9, <1>10, <1>11 DEF Commit

\* The other steps, by the request that takes them.
LEMMA StepType ==
    ASSUME TypesInv, GroupInv', RowsTyped', NEW r \in Requests,
           \A q \in Requests \ {r} : req'[q] = req[q], RequestTyped(r)'
    PROVE  TypesInv'
<1>1. \A q \in Requests \ {r} : RequestTyped(q)'
  BY DEF TypesInv, RequestTyped
<1> QED
  BY <1>1 DEF TypesInv

\* A free slot is typed.
LEMMA IdleType == ASSUME NEW r \in Requests, req'[r] = Idle PROVE RequestTyped(r)'
<1>1. NoIndicator \in IndicatorRow
  BY FullBpAssumption DEF NoIndicator, IndicatorRow, Life, Links, CurveModes, Weight, Progress, Value
<1> QED
  BY <1>1 DEF RequestTyped, Idle, ProgressRows, NoRows

\* What a request reads before its transaction has its type.
LEMMA AcceptType ==
    ASSUME TypesInv, GroupInv', NEW r \in Requests, NEW c \in Calls, NEW row \in IndicatorRow, NEW m,
           Accept(r, c, row, m), ReadsBaseline(c) => m \in Metrics
    PROVE  TypesInv'
<1>1. Shape /\ RowsTyped
  BY DEF TypesInv, GroupInv
<1>2. RowsTyped'
  BY <1>1 DEF Accept, committed, history, RowsTyped
<1> DEFINE new == [Idle EXCEPT !.at = "begun", !.call = c, !.seen = row, !.baseline = metric[m].baseline]
<1>3. req'[r] = new /\ \A q \in Requests \ {r} : req'[q] = req[q]
  BY <1>1 DEF Accept, Shape
<1>4. /\ new.at = "begun" /\ new.call = c /\ new.seen = row /\ new.baseline = metric[m].baseline
      /\ new.groups = {} /\ new.outbox = <<>> /\ new.wanted = NoRows /\ new.draft = NoRows
  BY DEF Idle
<1>5. ASSUME ReadsBaseline(c) PROVE metric[m].baseline \in Int
  <2>1. metric[m] \in MetricRow
    BY <1>1, <1>5 DEF RowsTyped
  <2> QED
    BY <2>1, TargetsAreNumbers DEF MetricRow
<1> HIDE DEF new
<1>6. RequestTyped(r)'
  BY <1>3, <1>4, <1>5 DEF RequestTyped, ProgressRows, NoRows
<1> QED
  BY <1>2, <1>3, <1>6, StepType

\* So every request begins typed.
LEMMA BeginType ==
    ASSUME IsFiniteSet(Entries), TypesInv, GroupInv', NEW r \in Requests, NEW c \in Calls, Begin(r, c)
    PROVE  TypesInv'
<1>1. Shape /\ RowsTyped /\ NoIndicator \in IndicatorRow
  BY FullBpAssumption DEF TypesInv, GroupInv, NoIndicator, IndicatorRow, Life, Links, CurveModes, Weight, Progress, Value
<1>2. CASE BeginLoad(r, c)
  <2> DEFINE rq == [Idle EXCEPT !.at = "recomputing", !.call = c, !.todo = c.metrics]
             t == Snapshot(rq, indicator, Head(c.metrics))
  <2>1. c.op = "load" /\ req'[r] = t /\ \A q \in Requests \ {r} : req'[q] = req[q]
    BY <1>1, <1>2 DEF BeginLoad, Shape
  <2>2. /\ DOMAIN rq = RequestFields /\ rq.at = "recomputing" /\ rq.call = c
        /\ rq.seen = NoIndicator /\ rq.outbox = <<>> /\ rq.draft = NoRows
    BY DEF Idle, RequestFields
  <2>3. Head(c.metrics) \in Metrics
    BY <2>1, CallsAssumption
  <2>4. /\ t.at = "recomputing" /\ t.call = c /\ t.outbox = <<>> /\ t.draft = NoRows
        /\ t.groups = {ObjectiveOf[i] : i \in LinksOf(indicator, Head(c.metrics))}
    <3> HIDE DEF rq
    <3> QED
      BY <2>2, SnapshotTakes
  <2>5. t.seen = NoIndicator
    BY <2>2 DEF Snapshot, RequestFields
  <2>6. ProgressRows(t.wanted)
    <3> HIDE DEF rq
    <3> QED
      BY <1>1, <2>2, <2>3, SnapshotType DEF RowsTyped
  <2>7. t.groups \subseteq Objectives
    BY <2>4, PairsAssumption DEF LinksOf, LiveIndicators
  <2>8. RowsTyped'
    BY <1>1, <1>2 DEF BeginLoad, committed, history, RowsTyped
  <2> HIDE DEF t
  <2>9. RequestTyped(r)'
    BY <1>1, <2>1, <2>4, <2>5, <2>6, <2>7 DEF RequestTyped, ProgressRows, NoRows
  <2> QED
    BY <2>1, <2>8, <2>9, StepType
<1>3. c.op \in {"create", "update", "set_points", "delete"} =>
        c.indicator \in Indicators /\ MetricOf[c.indicator] \in Metrics /\ indicator[c.indicator] \in IndicatorRow
  BY <1>1, CallsAssumption, PairsAssumption DEF RowsTyped
<1>4. CASE BeginCreate(r, c)
  BY <1>1, <1>3, <1>4, AcceptType DEF BeginCreate
<1>5. CASE BeginUpdate(r, c)
  BY <1>1, <1>3, <1>5, AcceptType DEF BeginUpdate
<1>6. CASE BeginPoints(r, c)
  BY <1>1, <1>3, <1>6, AcceptType DEF BeginPoints
<1>7. CASE BeginDelete(r, c)
  BY <1>1, <1>3, <1>7, AcceptType DEF BeginDelete
<1>8. CASE BeginWeights(r, c) \/ BeginUpdateMetric(r, c) \/ BeginDeleteMetric(r, c)
  <2>1. ~ReadsBaseline(c)
    BY <1>8 DEF BeginWeights, BeginUpdateMetric, BeginDeleteMetric, ReadsBaseline
  <2> QED
    BY <1>1, <1>8, <2>1, AcceptType DEF BeginWeights, BeginUpdateMetric, BeginDeleteMetric
<1> QED
  BY <1>2, <1>4, <1>5, <1>6, <1>7, <1>8 DEF Begin

\* A load that goes on keeps progress in what it has written and in its events.
LEMMA NextMetricType ==
    ASSUME IsFiniteSet(Entries), IsFiniteSet(Indicators), TypesInv, GroupInv',
           NEW r \in Requests, LoadInOrder(r), NextMetric(r)
    PROVE  TypesInv'
<1> DEFINE rq == [req[r] EXCEPT !.todo = Tail(req[r].todo), !.draft = Drafted(r), !.outbox = LoadOutbox(r)]
           m == req[r].todo[2]
           t == Snapshot(rq, LoadRows(r), m)
<1>1. Shape /\ RowsTyped /\ RequestTyped(r) /\ req[r].at = "recomputing"
  BY DEF TypesInv, GroupInv, NextMetric, Recomputed
<1>2. req'[r] = t /\ \A q \in Requests \ {r} : req'[q] = req[q]
  BY <1>1 DEF NextMetric, Shape
<1>3. /\ DOMAIN rq = RequestFields /\ rq.at = "recomputing" /\ rq.call = req[r].call
      /\ rq.seen = req[r].seen /\ rq.outbox = LoadOutbox(r) /\ rq.draft = Drafted(r)
  BY <1>1 DEF Shape, RequestFields
<1>4. m \in Metrics
  BY <1>1 DEF NextMetric, LoadInOrder
<1>5. /\ ProgressRows(Drafted(r)) /\ LoadRows(r) \in [Indicators -> IndicatorRow]
      /\ LoadOutbox(r) \in Seq(EventRow)
  BY LoadType DEF NextMetric
<1> HIDE DEF rq, m
<1>6. /\ t.at = "recomputing" /\ t.call = req[r].call /\ t.outbox = LoadOutbox(r) /\ t.draft = Drafted(r)
      /\ t.groups = {ObjectiveOf[i] : i \in LinksOf(LoadRows(r), m)}
  BY <1>3, SnapshotTakes
<1>7. t.seen = req[r].seen
  BY <1>3 DEF Snapshot, RequestFields
<1>8. ProgressRows(t.wanted)
  BY <1>1, <1>3, <1>4, <1>5, SnapshotType
<1>9. t.groups \subseteq Objectives
  BY <1>6, PairsAssumption DEF LinksOf, LiveIndicators
<1>10. RowsTyped'
  BY <1>1 DEF NextMetric, committed, history, RowsTyped
<1> HIDE DEF t
<1>11. RequestTyped(r)'
  BY <1>1, <1>2, <1>5, <1>6, <1>7, <1>8, <1>9 DEF RequestTyped
<1> QED
  BY <1>2, <1>10, <1>11, StepType

\* What okr is told is a progress.
LEMMA EventType ==
    ASSUME TypesInv, GroupInv', NEW r \in Requests, Deliver(r) \/ LoseEvent(r) \/ RollBack(r)
    PROVE  TypesInv'
<1>1. Shape /\ RowsTyped /\ RequestTyped(r)
  BY DEF TypesInv, GroupInv
<1>2. CASE RollBack(r)
  <2>1. req'[r] = Idle /\ \A q \in Requests \ {r} : req'[q] = req[q]
    BY <1>1, <1>2 DEF RollBack, Shape
  <2>2. RowsTyped'
    BY <1>1, <1>2 DEF RollBack, committed, history, RowsTyped
  <2> QED
    BY <2>1, <2>2, IdleType, StepType
<1>3. CASE Deliver(r) \/ LoseEvent(r)
  <2> DEFINE s == req[r].outbox
             u == Tail(s)
  <2>1. req[r].at = "publishing" /\ s \in Seq(EventRow) /\ s # <<>>
    BY <1>1, <1>3 DEF Deliver, LoseEvent, RequestTyped
  <2>2. u \in Seq(EventRow) /\ Head(s) \in EventRow
    BY <2>1
  <2>3. /\ req'[r] = IF u = <<>> THEN Idle ELSE [req[r] EXCEPT !.outbox = u]
        /\ \A q \in Requests \ {r} : req'[q] = req[q]
    BY <1>1, <1>3 DEF Deliver, LoseEvent, AfterEvent, Shape
  <2> HIDE DEF u
  <2>4. RequestTyped(r)'
    <3>1. CASE u = <<>>
      BY <2>3, <3>1, IdleType
    <3>2. CASE u # <<>>
      <4>1. /\ req'[r].at = "publishing" /\ req'[r].outbox = u /\ req'[r].seen = req[r].seen
            /\ req'[r].groups = req[r].groups /\ req'[r].wanted = req[r].wanted
            /\ req'[r].draft = req[r].draft
        BY <1>1, <2>1, <2>3, <3>2 DEF Shape, RequestFields
      <4> QED
        BY <1>1, <2>2, <3>2, <4>1 DEF RequestTyped
    <3> QED
      BY <3>1, <3>2
  <2>5. NextEvent(r).objective \in Objectives /\ NextEvent(r).result \in Progress
    BY <2>2 DEF NextEvent, EventRow
  <2>6. RowsTyped'
    BY <1>1, <1>3, <2>5 DEF Deliver, LoseEvent, committed, history, RowsTyped
  <2> QED
    BY <2>3, <2>4, <2>6, StepType
<1> QED
  BY <1>2, <1>3

\* No step leaves a row, a result or a request out of its type.
LEMMA NextTypes ==
    ASSUME IsFiniteSet(Indicators), IsFiniteSet(Entries), TypesInv, SeriesInv, [Next]_vars
    PROVE  TypesInv'
<1>1. GroupInv' /\ Shape /\ RowsTyped /\ \A r \in Requests : RequestTyped(r) /\ LoadInOrder(r)
  BY NextGroups DEF TypesInv, GroupInv, SeriesInv, Reads
<1>2. ASSUME RowsTyped', UNCHANGED req PROVE TypesInv'
  BY <1>1, <1>2 DEF TypesInv, RequestTyped
<1>3. ASSUME NEW r \in Requests, NEW c \in Calls, CreateMetric(r, c) PROVE TypesInv'
  <2>1. c.metric \in Metrics /\ c.baseline \in Baselines /\ c.kind \in Kinds
    BY <1>3, CallsAssumption DEF CreateMetric
  <2>2. [life |-> "live", baseline |-> c.baseline, kind |-> c.kind] \in MetricRow
    BY <2>1 DEF MetricRow, Life
  <2>3. metric' \in [Metrics -> MetricRow]
    BY <1>1, <1>3, <2>1, <2>2 DEF CreateMetric, RowsTyped
  <2> QED
    BY <1>1, <1>2, <1>3, <2>3 DEF CreateMetric, history, RowsTyped
<1>4. ASSUME NEW r \in Requests, NEW c \in Calls, DeleteObjective(r, c) PROVE TypesInv'
  <2>1. objective' \in [Objectives -> [live : BOOLEAN, result : Progress]]
    BY <1>1, <1>4 DEF DeleteObjective, RowsTyped
  <2> QED
    BY <1>1, <1>2, <1>4, <2>1 DEF DeleteObjective, committed, history, RowsTyped
<1>5. ASSUME NEW r \in Requests, LockGroup(r) PROVE TypesInv'
  BY <1>1, <1>2, <1>5 DEF LockGroup, committed, history, RowsTyped
<1>6. ASSUME UNCHANGED vars PROVE TypesInv'
  BY <1>1, <1>2, <1>6 DEF vars, RowsTyped
<1> QED
  BY <1>1, <1>3, <1>4, <1>5, <1>6, BeginType, NextMetricType, CommitType, EventType DEF Next, Step

\* There are no rows at first.
LEMMA InitTypes == Init => TypesInv
<1> SUFFICES ASSUME Init PROVE TypesInv
  OBVIOUS
<1>1. GroupInv
  <2> SUFFICES ASSUME NEW o \in Objectives PROVE GroupValid(indicator, o)
    BY InitShape DEF GroupInv
  <2>1. Group(indicator, o) = {}
    BY DEF Init, Quiet, Group, LiveIndicators, NoIndicator
  <2> QED
    BY <2>1 DEF GroupValid, ValidWeightGroup, WeightMode
<1>2. NoIndicator \in IndicatorRow
  BY FullBpAssumption DEF NoIndicator, IndicatorRow, Life, Links, CurveModes, Weight, Progress, Value
<1>3. RowsTyped
  BY <1>2, FullBpAssumption DEF Init, Quiet, RowsTyped, MetricRow, Unborn, Life, Kinds, Progress
<1>4. \A r \in Requests : RequestTyped(r)
  <2> SUFFICES ASSUME NEW r \in Requests PROVE RequestTyped(r)
    OBVIOUS
  <2>1. req[r] = Idle
    BY DEF Init, Quiet
  <2> QED
    BY <1>2, <2>1 DEF RequestTyped, Idle, ProgressRows, NoRows
<1> QED
  BY <1>1, <1>3, <1>4 DEF TypesInv

\* The types the run checks are among these.
LEMMA TypesImplyTypeOK == TypesInv => TypeOK
BY DEF TypesInv, GroupInv, Shape, RowsTyped, MetricRow, RequestTyped, TypeOK

-----------------------------------------------------------------------------
(***************************************************************************)
(* The checks of an edit.  What was checked before the transaction holds   *)
(* in it as long as the request is fresh.                                  *)
(***************************************************************************)

\* Two rows an edit cannot tell apart, their weights and progress aside.
SameEdit(new, old) ==
    /\ new.life = old.life /\ new.target = old.target /\ new.link = old.link
    /\ new.mode = old.mode /\ new.last = old.last

CreateHolds(r) ==
    LET c == req[r].call
        m == MetricOf[c.indicator]
    IN  req[r].at = "begun" /\ c.op = "create" =>
            /\ Curve(c.mode, c.last, c.target)
            /\ c.inline => LinkAllowed(c.link, c.kind) /\ CurveAllowed(c.mode, c.kind, c.link)
            /\ req[r].fresh /\ ~c.inline =>
                  /\ LiveMetric(m) /\ LinkAllowed(c.link, metric[m].kind)
                  /\ CurveAllowed(c.mode, metric[m].kind, c.link)

UpdateHolds(r) ==
    LET c == req[r].call
        m == MetricOf[c.indicator]
        row == req[r].seen
        link == Given(c.link, row.link)
        mode == Given(c.mode, row.mode)
        points == IF c.last # Keep THEN c.last
                  ELSE IF mode = "manual" THEN row.last ELSE NoPoints
    IN  req[r].at = "begun" /\ c.op = "update" /\ req[r].fresh =>
            /\ LiveMetric(m) /\ SameEdit(indicator[c.indicator], row)
            /\ link # row.link => LinkAllowed(link, metric[m].kind)
            /\ CurveAllowed(mode, metric[m].kind, link)
            /\ Curve(mode, points, Given(c.target, row.target))

PointsHold(r) ==
    LET c == req[r].call
    IN  req[r].at = "begun" /\ c.op = "set_points" /\ req[r].fresh =>
            /\ LiveMetric(MetricOf[c.indicator])
            /\ SameEdit(indicator[c.indicator], req[r].seen)
            /\ PointsAllowed(c, req[r].seen)

MetricHolds(r) ==
    LET c == req[r].call
    IN  /\ req[r].at = "begun" /\ c.op = "update_metric" /\ req[r].fresh =>
             LiveMetric(c.metric) /\ KindMayChange(c.metric, Given(c.kind, metric[c.metric].kind))
        /\ req[r].at = "begun" /\ c.op = "delete_metric" /\ req[r].fresh =>
             LiveMetric(c.metric) /\ MeasuresNothing(c.metric)

ChecksHold(r) == CreateHolds(r) /\ UpdateHolds(r) /\ PointsHold(r) /\ MetricHolds(r)

Sound(i) ==
    objective[ObjectiveOf[i]].live =>
        LET row == indicator[i]
            kind == metric[MetricOf[i]].kind
        IN  /\ LiveMetric(MetricOf[i]) /\ LinkAllowed(row.link, kind)
            /\ CurveAllowed(row.mode, kind, row.link)
            /\ row.mode = "manual" => row.last = row.target

SoundInv ==
    /\ TypesInv /\ SeriesInv
    /\ \A r \in Requests : ChecksHold(r)
    /\ \A i \in LiveIndicators(indicator) \ unchecked : Sound(i)

\* What a step leaves alone of a metric and of the edits of its indicators.
Unmoved(m) ==
    /\ metric'[m] = metric[m]
    /\ \A i \in Indicators : MetricOf[i] = m => SameEdit(indicator'[i], indicator[i])
ObjectivesEnd == \A o \in Objectives : objective'[o].live => objective[o].live

\* A metric that measures less may change its kind more.
LEMMA LessMeasured ==
    ASSUME Shape, NEW m, Unmoved(m), ObjectivesEnd
    PROVE  /\ \A kind : KindMayChange(m, kind) => KindMayChange(m, kind)'
           /\ MeasuresNothing(m) => MeasuresNothing(m)'
           /\ LiveMetric(m) => LiveMetric(m)'
<1>1. Measured(m)' \subseteq Measured(m)
  BY PairsAssumption DEF Measured, LinksOf, LiveIndicators, Unmoved, SameEdit, ObjectivesEnd
<1>2. \A i \in Measured(m)' : indicator'[i].link = indicator[i].link
  BY DEF Measured, LinksOf, LiveIndicators, Unmoved, SameEdit
<1>3. metric'[m] = metric[m]
  BY DEF Unmoved
<1>4. ASSUME NEW kind, KindMayChange(m, kind) PROVE KindMayChange(m, kind)'
  BY <1>1, <1>2, <1>3, <1>4 DEF KindMayChange
<1> QED
  BY <1>1, <1>3, <1>4 DEF MeasuresNothing, LiveMetric

\* A request keeps its checks while others leave its metric alone, or tell it
\* that they did not.
LEMMA ChecksKept ==
    ASSUME TypesInv, NEW q \in Requests, ChecksHold(q), ObjectivesEnd,
           req'[q].at = req[q].at, req'[q].call = req[q].call, req'[q].seen = req[q].seen,
           req'[q].fresh => req[q].fresh,
           req'[q].fresh => \A m \in Metrics \cap Touches(req[q].call) : LiveMetric(m) => Unmoved(m)
    PROVE  ChecksHold(q)'
<1>0. PICK c, row : c = req[q].call /\ row = req[q].seen
  OBVIOUS
<1> DEFINE i == c.indicator
           m == MetricOf[i]
<1>1. Shape /\ (req[q].at = "begun" => c \in Calls)
  BY <1>0 DEF TypesInv, GroupInv, Shape
<1>2. ASSUME req[q].at = "begun", c.op \in {"create", "update", "set_points"}
      PROVE  i \in Indicators /\ m \in Metrics \cap Touches(c)
  BY <1>1, <1>2, CallsAssumption, PairsAssumption DEF Touches
<1>3. ASSUME req[q].at = "begun", c.op \in {"create", "update", "set_points"}, req'[q].fresh, LiveMetric(m)
      PROVE  /\ req[q].fresh /\ metric'[m] = metric[m] /\ LiveMetric(m)'
             /\ SameEdit(indicator'[i], indicator[i])
  BY <1>0, <1>2, <1>3 DEF Unmoved, LiveMetric
<1>4. CreateHolds(q)'
  <2>1. CreateHolds(q)
    BY DEF ChecksHold
  <2> QED
    BY <1>0, <1>3, <2>1 DEF CreateHolds, LiveMetric
<1>5. UpdateHolds(q)'
  <2>1. UpdateHolds(q)
    BY DEF ChecksHold
  <2> SUFFICES ASSUME req[q].at = "begun", c.op = "update", req'[q].fresh PROVE UpdateHolds(q)'
    BY <1>0 DEF UpdateHolds
  <2>2. req[q].fresh /\ LiveMetric(m) /\ SameEdit(indicator[i], row)
    BY <1>0, <2>1 DEF UpdateHolds
  <2>3. metric'[m] = metric[m] /\ LiveMetric(m)' /\ SameEdit(indicator'[i], row)
    BY <1>3, <2>2 DEF SameEdit
  <2> QED
    BY <1>0, <2>1, <2>2, <2>3 DEF UpdateHolds, LiveMetric
<1>6. PointsHold(q)'
  <2>1. PointsHold(q)
    BY DEF ChecksHold
  <2> SUFFICES ASSUME req[q].at = "begun", c.op = "set_points", req'[q].fresh PROVE PointsHold(q)'
    BY <1>0 DEF PointsHold
  <2>2. req[q].fresh /\ LiveMetric(m) /\ SameEdit(indicator[i], row) /\ PointsAllowed(c, row)
    BY <1>0, <2>1 DEF PointsHold
  <2>3. LiveMetric(m)' /\ SameEdit(indicator'[i], row)
    BY <1>3, <2>2 DEF SameEdit
  <2> QED
    BY <1>0, <2>2, <2>3 DEF PointsHold, LiveMetric
<1>7. MetricHolds(q)'
  <2>1. MetricHolds(q)
    BY DEF ChecksHold
  <2> SUFFICES ASSUME req[q].at = "begun", c.op \in {"update_metric", "delete_metric"}, req'[q].fresh
               PROVE  MetricHolds(q)'
    BY <1>0 DEF MetricHolds
  <2>2. PICK n : n = c.metric
    OBVIOUS
  <2>3. n \in Metrics \cap Touches(c)
    BY <1>1, <2>2, CallsAssumption DEF Touches
  <2>4. req[q].fresh /\ LiveMetric(n)
    BY <1>0, <2>1, <2>2 DEF MetricHolds
  <2>5. Unmoved(n)
    BY <1>0, <2>3, <2>4
  <2>6. metric'[n] = metric[n]
    BY <2>5 DEF Unmoved
  <2>7. PICK k : k = Given(c.kind, metric[n].kind)
    OBVIOUS
  <2>8. /\ LiveMetric(n)'
        /\ KindMayChange(n, k) => KindMayChange(n, k)'
        /\ MeasuresNothing(n) => MeasuresNothing(n)'
    BY <1>1, <2>4, <2>5, LessMeasured
  <2>9. /\ c.op = "update_metric" => KindMayChange(n, k)
        /\ c.op = "delete_metric" => MeasuresNothing(n)
    BY <1>0, <2>1, <2>2, <2>4, <2>7 DEF MetricHolds
  <2> QED
    BY <1>0, <2>2, <2>6, <2>7, <2>8, <2>9 DEF MetricHolds
<1> QED
  BY <1>4, <1>5, <1>6, <1>7 DEF ChecksHold

\* So does an indicator no edit came to.
LEMMA SoundKept ==
    ASSUME NEW i \in LiveIndicators(indicator'), ObjectivesEnd, Unmoved(MetricOf[i]),
           i \in LiveIndicators(indicator) => Sound(i)
    PROVE  Sound(i)'
<1>1. i \in Indicators /\ i \in LiveIndicators(indicator) /\ SameEdit(indicator'[i], indicator[i])
  BY DEF Unmoved, SameEdit, LiveIndicators
<1>2. metric'[MetricOf[i]] = metric[MetricOf[i]]
  BY DEF Unmoved
<1>3. objective'[ObjectiveOf[i]].live => objective[ObjectiveOf[i]].live
  BY <1>1, PairsAssumption DEF ObjectivesEnd
<1> QED
  BY <1>1, <1>2, <1>3 DEF Sound, SameEdit, LiveMetric

\* What the commit of request r owes to the soundness of the indicators.
Respects(r) ==
    /\ UNCHANGED objective
    /\ \A m \in Metrics \ Touches(req[r].call) : Unmoved(m)
    /\ \A i \in LiveIndicators(indicator') \ unchecked' : Sound(i)'

\* A commit answers for the indicators of the metrics it touches; the others
\* are as sound as they were.
LEMMA OthersSound ==
    ASSUME SoundInv, NEW r \in Requests, UNCHANGED objective,
           \A m \in Metrics \ Touches(req[r].call) : Unmoved(m),
           \A i \in LiveIndicators(indicator') \ unchecked' :
               IF MetricOf[i] \in Touches(req[r].call) THEN Sound(i)'
               ELSE i \notin unchecked
    PROVE  Respects(r)
<1> SUFFICES ASSUME NEW i \in LiveIndicators(indicator') \ unchecked',
                    MetricOf[i] \notin Touches(req[r].call)
             PROVE  Sound(i)'
  BY DEF Respects
<1>1. i \in LiveIndicators(indicator') /\ MetricOf[i] \in Metrics
  BY PairsAssumption DEF LiveIndicators
<1>2. i \in LiveIndicators(indicator) => Sound(i)
  BY DEF SoundInv
<1>3. ObjectivesEnd
  BY DEF ObjectivesEnd
<1> QED
  BY <1>1, <1>2, <1>3, SoundKept

\* Points, weights and progress are no part of what is sound, or are checked.
LEMMA LoadRespects ==
    ASSUME SoundInv, NEW r \in Requests, CommitLoad(r) \/ CommitWeights(r)
    PROVE  Respects(r)
<1>1. \A i \in Indicators : SameEdit(indicator'[i], indicator[i])
  <2>1. CASE CommitLoad(r)
    <3>1. indicator' = Overlay(indicator, Drafted(r))
      BY <2>1 DEF CommitLoad, LoadRows
    <3> QED
      BY <3>1 DEF Overlay, SameEdit, SoundInv, SeriesInv, Shape, RowFields
  <2>2. CASE CommitWeights(r)
    BY <2>2 DEF CommitWeights, Weighed, SameEdit, SoundInv, SeriesInv, Shape, RowFields
  <2> QED
    BY <2>1, <2>2
<1>2. UNCHANGED <<metric, objective, unchecked>>
  BY DEF CommitLoad, CommitWeights
<1>3. (\A m \in Metrics : Unmoved(m)) /\ ObjectivesEnd
  BY <1>1, <1>2 DEF Unmoved, ObjectivesEnd
<1>4. ASSUME NEW i \in LiveIndicators(indicator') \ unchecked' PROVE Sound(i)'
  <2>1. MetricOf[i] \in Metrics /\ (i \in LiveIndicators(indicator) => Sound(i))
    BY <1>2, PairsAssumption DEF SoundInv, LiveIndicators
  <2> QED
    BY <1>3, <1>4, <2>1, SoundKept
<1> QED
  BY <1>2, <1>3, <1>4 DEF Respects

\* A commit that writes one indicator, and no metric, is sound if that row is.
LEMMA RowRespects ==
    ASSUME SoundInv, NEW r \in Requests, NEW i \in Indicators, UNCHANGED <<metric, objective>>,
           \A j \in Indicators \ {i} : indicator'[j] = indicator[j],
           Touches(req[r].call) = {MetricOf[i]},
           \A j \in Indicators \ {i} : j \in unchecked => j \in unchecked',
           i \in LiveIndicators(indicator') /\ i \notin unchecked' => Sound(i)'
    PROVE  Respects(r)
<1>1. \A m \in Metrics \ Touches(req[r].call) : Unmoved(m)
  BY DEF Unmoved, SameEdit
<1>2. ASSUME NEW j \in LiveIndicators(indicator') \ unchecked', j # i PROVE Sound(j)' /\ j \notin unchecked
  <2>1. j \in LiveIndicators(indicator) \ unchecked /\ indicator'[j] = indicator[j] /\ j \in Indicators
    BY <1>2 DEF LiveIndicators
  <2>2. Sound(j)
    BY <2>1 DEF SoundInv
  <2> QED
    BY <2>1, <2>2 DEF Sound, LiveMetric
<1>3. \A j \in LiveIndicators(indicator') \ unchecked' :
        IF MetricOf[j] \in Touches(req[r].call) THEN Sound(j)' ELSE j \notin unchecked
  BY <1>2
<1> QED
  BY <1>1, <1>3, OthersSound

\* A new indicator is sound by the checks of its creation: on a metric that
\* comes with it, whatever other requests did, because nothing measures with a
\* metric that is not there yet.
LEMMA CreateRespects ==
    ASSUME SoundInv, NEW r \in Requests, CommitCreate(r)
    PROVE  Respects(r)
<1> DEFINE c == req[r].call
           row == CreatedRow(r)
<1>0. PICK i, m : i = c.indicator /\ m = MetricOf[i]
  OBVIOUS
<1>1. /\ req[r].at = "begun" /\ c.op = "create"
      /\ c.inline => metric[m].life = "unborn"
      /\ metric' = CreatedMetric(r) /\ indicator' = [indicator EXCEPT ![i] = row]
      /\ UNCHANGED objective /\ Checked(r, {i})
  BY <1>0 DEF CommitCreate, With
<1>2. c \in Calls /\ i \in Indicators /\ m \in Metrics /\ c.inline \in BOOLEAN /\ Touches(c) = {m}
  BY <1>0, <1>1, CallsAssumption, PairsAssumption DEF SoundInv, SeriesInv, Shape, Touches
<1>3. /\ Curve(c.mode, c.last, c.target)
      /\ c.inline => LinkAllowed(c.link, c.kind) /\ CurveAllowed(c.mode, c.kind, c.link)
      /\ req[r].fresh /\ ~c.inline =>
            LiveMetric(m) /\ LinkAllowed(c.link, metric[m].kind) /\ CurveAllowed(c.mode, metric[m].kind, c.link)
  <2>1. CreateHolds(r)
    BY DEF SoundInv, ChecksHold
  <2> QED
    BY <1>0, <1>1, <2>1 DEF CreateHolds
<1>4. row.target = c.target /\ row.link = c.link /\ row.mode = c.mode /\ row.last = c.last
  BY DEF CreatedRow
<1> HIDE DEF row
<1>5. indicator'[i] = row /\ \A j \in Indicators \ {i} : indicator'[j] = indicator[j]
  BY <1>1, <1>2 DEF SoundInv, SeriesInv, Shape
<1>6. unchecked \subseteq unchecked' /\ (i \notin unchecked' => req[r].fresh)
  BY <1>1 DEF Checked
<1>7. ASSUME i \notin unchecked', LiveMetric(m)', LinkAllowed(c.link, metric'[m].kind),
             CurveAllowed(c.mode, metric'[m].kind, c.link)
      PROVE  Sound(i)'
  <2>1. c.mode = "manual" => c.last = c.target
    BY <1>3 DEF Curve, PointsEnd
  <2> QED
    BY <1>0, <1>4, <1>5, <1>7, <2>1 DEF Sound, LiveMetric
<1>8. CASE ~c.inline
  <2>1. UNCHANGED metric
    BY <1>1, <1>8 DEF CreatedMetric
  <2>2. i \notin unchecked' => Sound(i)'
    BY <1>3, <1>6, <1>7, <1>8, <2>1 DEF LiveMetric
  <2> QED
    BY <1>0, <1>1, <1>2, <1>5, <1>6, <2>1, <2>2, RowRespects
<1>9. CASE c.inline
  <2>1. metric' = [metric EXCEPT ![m] = [life |-> "live", baseline |-> Baseline, kind |-> c.kind]]
    BY <1>0, <1>1, <1>9 DEF CreatedMetric
  <2>2. metric'[m].life = "live" /\ metric'[m].kind = c.kind /\ \A n \in Metrics \ {m} : metric'[n] = metric[n]
    BY <1>2, <2>1 DEF SoundInv, SeriesInv, MetricsShape
  <2>3. i \notin unchecked' => Sound(i)'
    BY <1>3, <1>7, <1>9, <2>2 DEF LiveMetric
  <2>4. \A n \in Metrics \ Touches(c) : Unmoved(n)
    BY <1>0, <1>2, <1>5, <2>2 DEF Unmoved, SameEdit
  <2>5. ASSUME NEW j \in LiveIndicators(indicator') \ unchecked', j # i
        PROVE  MetricOf[j] \notin Touches(c) /\ j \notin unchecked
    <3>1. j \in LiveIndicators(indicator) /\ j \notin unchecked
      BY <1>5, <1>6, <2>5 DEF LiveIndicators
    <3>2. Started(MetricOf[j])
      BY <3>1 DEF SoundInv, SeriesInv, NothingUnborn
    <3> QED
      BY <1>1, <1>2, <1>9, <3>1, <3>2 DEF Started
  <2>6. \A j \in LiveIndicators(indicator') \ unchecked' :
          IF MetricOf[j] \in Touches(c) THEN Sound(j)' ELSE j \notin unchecked
    BY <1>0, <1>2, <2>3, <2>5
  <2> QED
    BY <1>1, <2>4, <2>6, OthersSound
<1> QED
  BY <1>2, <1>8, <1>9

\* An edit leaves a sound row: the link was checked, or is the one it had; the
\* curve was checked with the row it read, and the row is still that one.
LEMMA UpdateRespects ==
    ASSUME SoundInv, NEW r \in Requests, CommitUpdate(r)
    PROVE  Respects(r)
<1> DEFINE new == UpdatedRow(r)
<1>0. PICK c, i, m, row : c = req[r].call /\ i = c.indicator /\ m = MetricOf[i] /\ row = req[r].seen
  OBVIOUS
<1>1. /\ req[r].at = "begun" /\ c.op = "update"
      /\ indicator' = IF indicator[i].life = "live" THEN [indicator EXCEPT ![i] = new] ELSE indicator
      /\ UNCHANGED <<metric, objective>> /\ Checked(r, {i})
  BY <1>0 DEF CommitUpdate, With
<1>2. i \in Indicators /\ m \in Metrics /\ Touches(c) = {m}
  BY <1>0, <1>1, CallsAssumption, PairsAssumption DEF SoundInv, SeriesInv, Shape, Touches
<1>3. PICK link, mode, target, points :
        /\ link = Given(c.link, row.link) /\ mode = Given(c.mode, row.mode)
        /\ target = Given(c.target, row.target)
        /\ points = IF c.last # Keep THEN c.last
                    ELSE IF mode = "manual" THEN row.last ELSE NoPoints
  OBVIOUS
<1>4. req[r].fresh =>
        /\ LiveMetric(m) /\ SameEdit(indicator[i], row)
        /\ link # row.link => LinkAllowed(link, metric[m].kind)
        /\ CurveAllowed(mode, metric[m].kind, link)
        /\ Curve(mode, points, target)
  <2>1. UpdateHolds(r)
    BY DEF SoundInv, ChecksHold
  <2> QED
    BY <1>0, <1>1, <1>3, <2>1 DEF UpdateHolds
<1>5. /\ new.target = target /\ new.link = link /\ new.mode = mode
      /\ new.last = Given(c.last, indicator[i].last)
  BY <1>0, <1>2, <1>3 DEF UpdatedRow, SoundInv, SeriesInv, Shape, RowFields
<1> HIDE DEF new
<1>6. \A j \in Indicators \ {i} : indicator'[j] = indicator[j]
  BY <1>1 DEF SoundInv, SeriesInv, Shape
<1>7. unchecked \subseteq unchecked' /\ (i \notin unchecked' => req[r].fresh)
  BY <1>1 DEF Checked
<1>8. ASSUME i \in LiveIndicators(indicator'), i \notin unchecked' PROVE Sound(i)'
  <2>1. indicator[i].life = "live" /\ indicator'[i] = new
    BY <1>1, <1>2, <1>8 DEF LiveIndicators, SoundInv, SeriesInv, Shape
  <2>2. Sound(i)
    BY <1>2, <1>7, <1>8, <2>1 DEF SoundInv, LiveIndicators
  <2>3. LiveMetric(m) /\ CurveAllowed(mode, metric[m].kind, link) /\ SameEdit(indicator[i], row)
    BY <1>4, <1>7, <1>8
  <2>4. objective[ObjectiveOf[i]].live => LinkAllowed(link, metric[m].kind)
    BY <1>0, <1>4, <1>7, <1>8, <2>2, <2>3 DEF Sound, SameEdit
  <2>5. mode = "manual" => new.last = target
    BY <1>3, <1>4, <1>5, <1>7, <1>8, <2>3 DEF Curve, PointsEnd, Given, SameEdit
  <2> QED
    BY <1>0, <1>1, <1>5, <2>1, <2>3, <2>4, <2>5 DEF Sound, LiveMetric
<1> QED
  BY <1>0, <1>1, <1>2, <1>6, <1>7, <1>8, RowRespects

\* New points end at the target the row still has.
LEMMA PointsRespect ==
    ASSUME SoundInv, NEW r \in Requests, CommitPoints(r)
    PROVE  Respects(r)
<1>0. PICK c, i, m, row : c = req[r].call /\ i = c.indicator /\ m = MetricOf[i] /\ row = req[r].seen
  OBVIOUS
<1>1. /\ req[r].at = "begun" /\ c.op = "set_points"
      /\ indicator' = IF indicator[i].life = "live" THEN [indicator EXCEPT ![i].last = c.last] ELSE indicator
      /\ UNCHANGED <<metric, objective>> /\ Checked(r, {i})
  BY <1>0 DEF CommitPoints
<1>2. i \in Indicators /\ m \in Metrics /\ Touches(c) = {m}
  BY <1>0, <1>1, CallsAssumption, PairsAssumption DEF SoundInv, SeriesInv, Shape, Touches
<1>3. req[r].fresh => LiveMetric(m) /\ SameEdit(indicator[i], row) /\ PointsAllowed(c, row)
  <2>1. PointsHold(r)
    BY DEF SoundInv, ChecksHold
  <2> QED
    BY <1>0, <1>1, <2>1 DEF PointsHold
<1>4. \A j \in Indicators \ {i} : indicator'[j] = indicator[j]
  BY <1>1 DEF SoundInv, SeriesInv, Shape
<1>5. unchecked \subseteq unchecked' /\ (i \notin unchecked' => req[r].fresh)
  BY <1>1 DEF Checked
<1>6. ASSUME i \in LiveIndicators(indicator'), i \notin unchecked' PROVE Sound(i)'
  <2>1. /\ indicator[i].life = "live"
        /\ indicator'[i].last = c.last /\ indicator'[i].mode = indicator[i].mode
        /\ indicator'[i].link = indicator[i].link /\ indicator'[i].target = indicator[i].target
    BY <1>1, <1>2, <1>6 DEF LiveIndicators, SoundInv, SeriesInv, Shape, RowFields
  <2>2. Sound(i)
    BY <1>2, <1>5, <1>6, <2>1 DEF SoundInv, LiveIndicators
  <2>3. indicator[i].mode = "manual" => c.last = indicator[i].target
    BY <1>3, <1>5, <1>6 DEF PointsAllowed, Curve, PointsEnd, SameEdit
  <2> QED
    BY <1>1, <2>1, <2>2, <2>3 DEF Sound, LiveMetric
<1> QED
  BY <1>0, <1>1, <1>2, <1>4, <1>5, <1>6, RowRespects

\* A deleted indicator has nothing to respect.
LEMMA DeleteRespects ==
    ASSUME SoundInv, NEW r \in Requests, CommitDelete(r)
    PROVE  Respects(r)
<1>0. PICK c, i : c = req[r].call /\ i = c.indicator
  OBVIOUS
<1>1. /\ req[r].at = "begun" /\ c.op = "delete"
      /\ indicator' = [indicator EXCEPT ![i] = GoneIndicator]
      /\ UNCHANGED <<metric, objective>> /\ unchecked' = unchecked \ {i}
  BY <1>0 DEF CommitDelete, With
<1>2. i \in Indicators /\ Touches(c) = {MetricOf[i]}
  BY <1>0, <1>1, CallsAssumption DEF SoundInv, SeriesInv, Shape, Touches
<1>3. \A j \in Indicators \ {i} : indicator'[j] = indicator[j]
  BY <1>1 DEF SoundInv, SeriesInv, Shape
<1>4. i \notin LiveIndicators(indicator')
  BY <1>1, <1>2 DEF SoundInv, SeriesInv, Shape, GoneIndicator, NoIndicator, LiveIndicators
<1> QED
  BY <1>0, <1>1, <1>2, <1>3, <1>4, RowRespects

\* The kind of a metric changes only as far as what measures with it allows.
LEMMA KindRespects ==
    ASSUME SoundInv, NEW r \in Requests, CommitUpdateMetric(r)
    PROVE  Respects(r)
<1>0. PICK c, m : c = req[r].call /\ m = c.metric
  OBVIOUS
<1>1. /\ req[r].at = "begun" /\ c.op = "update_metric"
      /\ UNCHANGED <<indicator, objective>> /\ Checked(r, LinksOf(indicator, m))
  BY <1>0 DEF CommitUpdateMetric
<1>2. /\ c \in Calls /\ m \in Metrics /\ Touches(c) = {m} /\ c.kind \in Kinds \cup {Keep}
      /\ DOMAIN metric = Metrics /\ DOMAIN metric[m] = {"life", "baseline", "kind"}
      /\ metric[m].kind \in Kinds
  <2>1. metric[m] \in MetricRow => metric[m].kind \in Kinds
    BY DEF MetricRow
  <2> QED
    BY <1>0, <1>1, <2>1, CallsAssumption DEF SoundInv, TypesInv, RowsTyped, SeriesInv, Shape, MetricsShape, Touches
<1>3. PICK k \in Kinds : k = Given(c.kind, metric[m].kind)
  BY <1>2 DEF Given
<1>4. /\ metric'[m].life = metric[m].life /\ metric'[m].kind = k
      /\ \A n \in Metrics \ {m} : metric'[n] = metric[n]
  BY <1>0, <1>2, <1>3 DEF CommitUpdateMetric
<1>5. req[r].fresh => LiveMetric(m) /\ KindMayChange(m, k)
  <2>1. MetricHolds(r)
    BY DEF SoundInv, ChecksHold
  <2> QED
    BY <1>0, <1>1, <1>3, <2>1 DEF MetricHolds
<1>6. \A n \in Metrics \ Touches(c) : Unmoved(n)
  BY <1>1, <1>2, <1>4 DEF Unmoved, SameEdit
<1>7. unchecked \subseteq unchecked' /\ (req[r].fresh \/ LinksOf(indicator, m) \subseteq unchecked')
  BY <1>1 DEF Checked
<1>8. ASSUME NEW i \in LiveIndicators(indicator') \ unchecked', MetricOf[i] = m PROVE Sound(i)'
  <2>1. i \in LiveIndicators(indicator) /\ i \notin unchecked /\ i \in LinksOf(indicator, m)
    BY <1>1, <1>7, <1>8 DEF LiveIndicators, LinksOf
  <2>2. Sound(i)
    BY <2>1 DEF SoundInv
  <2>3. LiveMetric(m) /\ KindMayChange(m, k)
    BY <1>5, <1>7, <1>8, <2>1
  <2> SUFFICES ASSUME objective[ObjectiveOf[i]].live
               PROVE  LinkAllowed(indicator[i].link, k) /\ CurveAllowed(indicator[i].mode, k, indicator[i].link)
    BY <1>1, <1>4, <1>8, <2>2, <2>3 DEF Sound, LiveMetric
  <2>4. i \in Measured(m)
    BY <2>1 DEF Measured
  <2>5. k = metric[m].kind \/ k = "output" \/ indicator[i].link # "feeds"
    BY <1>2, <1>3, <2>3, <2>4 DEF KindMayChange, Kinds
  <2>6. /\ LinkAllowed(indicator[i].link, metric[m].kind)
        /\ CurveAllowed(indicator[i].mode, metric[m].kind, indicator[i].link)
    BY <1>8, <2>2 DEF Sound
  <2> QED
    BY <1>2, <2>5, <2>6 DEF LinkAllowed, CurveAllowed
<1>9. \A i \in LiveIndicators(indicator') \ unchecked' :
        IF MetricOf[i] \in Touches(c) THEN Sound(i)' ELSE i \notin unchecked
  BY <1>2, <1>7, <1>8
<1> QED
  BY <1>0, <1>1, <1>6, <1>9, OthersSound

\* A metric goes only when nothing that lives is measured with it.
LEMMA GoneRespects ==
    ASSUME SoundInv, NEW r \in Requests, CommitDeleteMetric(r)
    PROVE  Respects(r)
<1>0. PICK c, m : c = req[r].call /\ m = c.metric
  OBVIOUS
<1>1. /\ req[r].at = "begun" /\ c.op = "delete_metric"
      /\ metric' = [metric EXCEPT ![m].life = "gone"]
      /\ UNCHANGED <<indicator, objective>> /\ Checked(r, LinksOf(indicator, m))
  BY <1>0 DEF CommitDeleteMetric
<1>2. m \in Metrics /\ Touches(c) = {m}
  BY <1>0, <1>1, CallsAssumption DEF SoundInv, SeriesInv, Shape, Touches
<1>3. \A n \in Metrics \ Touches(c) : Unmoved(n)
  BY <1>1, <1>2 DEF Unmoved, SameEdit, SoundInv, SeriesInv, MetricsShape
<1>4. req[r].fresh => MeasuresNothing(m)
  <2>1. MetricHolds(r)
    BY DEF SoundInv, ChecksHold
  <2> QED
    BY <1>0, <1>1, <2>1 DEF MetricHolds
<1>5. unchecked \subseteq unchecked' /\ (req[r].fresh \/ LinksOf(indicator, m) \subseteq unchecked')
  BY <1>1 DEF Checked
<1>6. ASSUME NEW i \in LiveIndicators(indicator') \ unchecked', MetricOf[i] = m PROVE Sound(i)'
  <2>1. i \in LinksOf(indicator, m)
    BY <1>1, <1>6 DEF LiveIndicators, LinksOf
  <2>2. MeasuresNothing(m)
    BY <1>4, <1>5, <1>6, <2>1
  <2>3. ~objective[ObjectiveOf[i]].live
    BY <2>1, <2>2 DEF MeasuresNothing, Measured
  <2> QED
    BY <1>1, <2>3 DEF Sound
<1>7. \A i \in LiveIndicators(indicator') \ unchecked' :
        IF MetricOf[i] \in Touches(c) THEN Sound(i)' ELSE i \notin unchecked
  BY <1>2, <1>5, <1>6
<1> QED
  BY <1>0, <1>1, <1>3, <1>7, OthersSound

\* Every commit leaves sound what it writes, and alone the metrics it does not touch.
LEMMA CommitRespects ==
    ASSUME SoundInv, NEW r \in Requests, Commit(r)
    PROVE  Respects(r)
BY LoadRespects, CreateRespects, UpdateRespects, PointsRespect, DeleteRespects, KindRespects,
   GoneRespects DEF Commit

\* Checks bind a request between its guards and its commit only.
LEMMA NotBegun ==
    ASSUME NEW r, req'[r].at # "begun"
    PROVE  ChecksHold(r)'
BY DEF ChecksHold, CreateHolds, UpdateHolds, PointsHold, MetricHolds

\* A commit leaves the checks of the requests it does not tell of it, and the
\* indicators, sound.
LEMMA CommitSound ==
    ASSUME SoundInv, TypesInv', SeriesInv', NEW r \in Requests, Commit(r)
    PROVE  SoundInv'
<1>1. Respects(r) /\ Leaves(r) /\ Shape
  BY CommitRespects, CommitLeaves DEF SoundInv, SeriesInv
<1>2. ObjectivesEnd
  BY <1>1 DEF Respects, ObjectivesEnd
<1>3. ASSUME NEW q \in Requests \ {r} PROVE ChecksHold(q)'
  <2>1. /\ req'[q].at = req[q].at /\ req'[q].call = req[q].call /\ req'[q].seen = req[q].seen
        /\ req'[q].fresh => req[q].fresh /\ Touches(req[q].call) \cap Touches(req[r].call) = {}
    BY <1>1, CommitTellsOthers DEF Leaves, OthersKeep
  <2>2. req'[q].fresh => \A m \in Metrics \cap Touches(req[q].call) : LiveMetric(m) => Unmoved(m)
    BY <1>1, <2>1 DEF Respects
  <2>3. ChecksHold(q) /\ TypesInv
    BY DEF SoundInv
  <2> QED
    BY <1>2, <2>1, <2>2, <2>3, ChecksKept
<1>4. ChecksHold(r)'
  BY <1>1, NotBegun DEF Leaves
<1>5. \A q \in Requests : ChecksHold(q)'
  BY <1>3, <1>4
<1> QED
  BY <1>1, <1>5 DEF SoundInv, Respects

\* The other steps move no metric that lives, and no indicator.
LEMMA QuietSound ==
    ASSUME SoundInv, TypesInv', SeriesInv', ObjectivesEnd, UNCHANGED <<indicator, unchecked>>,
           \A m \in Metrics : Started(m) => metric'[m] = metric[m],
           \A q \in Requests : ChecksHold(q)' \/ ( /\ req'[q].at = req[q].at /\ req'[q].call = req[q].call
                                                   /\ req'[q].seen = req[q].seen
                                                   /\ req'[q].fresh => req[q].fresh )
    PROVE  SoundInv'
<1>1. \A m \in Metrics : Started(m) => Unmoved(m)
  BY DEF Unmoved, SameEdit
<1>2. ASSUME NEW q \in Requests PROVE ChecksHold(q)'
  <2>1. ChecksHold(q) /\ TypesInv
    BY DEF SoundInv
  <2>2. \A m \in Metrics : LiveMetric(m) => Unmoved(m)
    BY <1>1 DEF LiveMetric, Started
  <2> QED
    BY <2>1, <2>2, ChecksKept
<1>3. ASSUME NEW i \in LiveIndicators(indicator') \ unchecked' PROVE Sound(i)'
  <2>1. /\ i \in LiveIndicators(indicator) /\ i \in LiveIndicators(indicator')
        /\ MetricOf[i] \in Metrics /\ Sound(i) /\ Started(MetricOf[i])
    BY PairsAssumption DEF SoundInv, SeriesInv, NothingUnborn, LiveIndicators
  <2> QED
    BY <1>1, <2>1, SoundKept
<1> QED
  BY <1>2, <1>3 DEF SoundInv

\* The guards of a request are its checks.
LEMMA BeginChecks ==
    ASSUME SoundInv, NEW r \in Requests, NEW c \in Calls, Begin(r, c)
    PROVE  /\ UNCHANGED <<metric, indicator, objective, unchecked>>
           /\ \A q \in Requests \ {r} : req'[q] = req[q]
           /\ ChecksHold(r)'
<1>1. Shape
  BY DEF SoundInv, SeriesInv
<1>2. CASE BeginLoad(r, c)
  <2>1. req'[r].at = "recomputing"
    BY <1>1, <1>2, LoadBegins
  <2>2. ChecksHold(r)'
    BY <2>1, NotBegun
  <2> QED
    BY <1>1, <1>2, <2>2 DEF BeginLoad, Shape, committed, history
<1>3. ASSUME NEW row, NEW m, Accept(r, c, row, m)
      PROVE  /\ UNCHANGED <<metric, indicator, objective, unchecked>>
             /\ \A q \in Requests \ {r} : req'[q] = req[q]
             /\ req'[r].call = c /\ req'[r].seen = row
  <2>1. req' = [req EXCEPT ![r] = [Idle EXCEPT !.at = "begun", !.call = c, !.seen = row,
                                               !.baseline = metric[m].baseline]]
    BY <1>3 DEF Accept
  <2> QED
    BY <1>1, <1>3, <2>1 DEF Accept, Shape, Idle, committed, history
<1>4. CASE BeginCreate(r, c)
  <2>1. PICK i, m : i = c.indicator /\ m = MetricOf[i]
    OBVIOUS
  <2>2. /\ c.op = "create" /\ Accept(r, c, NoIndicator, m)
        /\ Curve(c.mode, c.last, c.target)
        /\ c.inline => LinkAllowed(c.link, c.kind) /\ CurveAllowed(c.mode, c.kind, c.link)
        /\ ~c.inline => /\ LiveMetric(m) /\ LinkAllowed(c.link, metric[m].kind)
                        /\ CurveAllowed(c.mode, metric[m].kind, c.link)
    BY <1>4, <2>1 DEF BeginCreate
  <2>3. UNCHANGED metric /\ req'[r].call = c
    BY <1>3, <2>2
  <2>4. ChecksHold(r)'
    BY <2>1, <2>2, <2>3 DEF ChecksHold, CreateHolds, UpdateHolds, PointsHold, MetricHolds, LiveMetric
  <2> QED
    BY <1>3, <2>2, <2>4
<1>5. CASE BeginUpdate(r, c)
  <2>1. PICK i, m, row : i = c.indicator /\ m = MetricOf[i] /\ row = indicator[i]
    OBVIOUS
  <2>2. PICK link, mode, points :
          /\ link = Given(c.link, row.link) /\ mode = Given(c.mode, row.mode)
          /\ points = IF c.last # Keep THEN c.last
                      ELSE IF mode = "manual" THEN row.last ELSE NoPoints
    OBVIOUS
  <2>3. /\ c.op = "update" /\ Accept(r, c, row, m) /\ LiveMetric(m)
        /\ link # row.link => LinkAllowed(link, metric[m].kind)
        /\ CurveAllowed(mode, metric[m].kind, link)
        /\ Curve(mode, points, Given(c.target, row.target))
    BY <1>5, <2>1, <2>2 DEF BeginUpdate
  <2>4. UNCHANGED <<metric, indicator>> /\ req'[r].call = c /\ req'[r].seen = row
    BY <1>3, <2>3
  <2>5. UpdateHolds(r)'
    BY <2>1, <2>2, <2>3, <2>4 DEF UpdateHolds, LiveMetric, SameEdit
  <2>6. ChecksHold(r)'
    BY <2>3, <2>4, <2>5 DEF ChecksHold, CreateHolds, PointsHold, MetricHolds
  <2> QED
    BY <1>3, <2>3, <2>6
<1>6. CASE BeginPoints(r, c)
  <2>1. PICK i, m, row : i = c.indicator /\ m = MetricOf[i] /\ row = indicator[i]
    OBVIOUS
  <2>2. /\ c.op = "set_points" /\ Accept(r, c, row, m) /\ LiveMetric(m) /\ PointsAllowed(c, row)
    BY <1>6, <2>1 DEF BeginPoints
  <2>3. UNCHANGED <<metric, indicator>> /\ req'[r].call = c /\ req'[r].seen = row
    BY <1>3, <2>2
  <2>4. ChecksHold(r)'
    BY <2>1, <2>2, <2>3 DEF ChecksHold, CreateHolds, UpdateHolds, PointsHold, MetricHolds, LiveMetric, SameEdit
  <2> QED
    BY <1>3, <2>2, <2>4
<1>7. CASE BeginWeights(r, c) \/ BeginDelete(r, c)
  <2>1. c.op \in {"set_weights", "delete"} /\ \E m : Accept(r, c, NoIndicator, m)
    BY <1>7 DEF BeginWeights, BeginDelete
  <2>2. req'[r].call = c
    BY <1>3, <2>1
  <2>3. ChecksHold(r)'
    BY <2>1, <2>2 DEF ChecksHold, CreateHolds, UpdateHolds, PointsHold, MetricHolds
  <2> QED
    BY <1>3, <2>1, <2>3
<1>8. CASE BeginUpdateMetric(r, c)
  <2>1. PICK m, k : m = c.metric /\ k = Given(c.kind, metric[m].kind)
    OBVIOUS
  <2>2. c.op = "update_metric" /\ Accept(r, c, NoIndicator, m) /\ LiveMetric(m) /\ KindMayChange(m, k)
    BY <1>8, <2>1 DEF BeginUpdateMetric
  <2>3. UNCHANGED <<metric, indicator, objective>> /\ req'[r].call = c
    BY <1>3, <2>2
  <2>4. KindMayChange(m, k)' /\ LiveMetric(m)'
    BY <2>2, <2>3 DEF KindMayChange, Measured, LinksOf, LiveIndicators, LiveMetric
  <2>5. k = Given(c.kind, metric'[m].kind)
    BY <2>1, <2>3
  <2>6. MetricHolds(r)'
    BY <2>1, <2>2, <2>3, <2>4, <2>5 DEF MetricHolds
  <2>7. ChecksHold(r)'
    BY <2>2, <2>3, <2>6 DEF ChecksHold, CreateHolds, UpdateHolds, PointsHold
  <2> QED
    BY <1>3, <2>2, <2>7
<1>9. CASE BeginDeleteMetric(r, c)
  <2>1. PICK m : m = c.metric
    OBVIOUS
  <2>2. c.op = "delete_metric" /\ Accept(r, c, NoIndicator, m) /\ LiveMetric(m) /\ MeasuresNothing(m)
    BY <1>9, <2>1 DEF BeginDeleteMetric
  <2>3. UNCHANGED <<metric, indicator, objective>> /\ req'[r].call = c
    BY <1>3, <2>2
  <2>4. MeasuresNothing(m)' /\ LiveMetric(m)'
    BY <2>2, <2>3 DEF MeasuresNothing, Measured, LinksOf, LiveIndicators, LiveMetric
  <2>5. MetricHolds(r)'
    BY <2>1, <2>2, <2>3, <2>4 DEF MetricHolds
  <2>6. ChecksHold(r)'
    BY <2>2, <2>3, <2>5 DEF ChecksHold, CreateHolds, UpdateHolds, PointsHold
  <2> QED
    BY <1>3, <2>2, <2>6
<1> QED
  BY <1>2, <1>4, <1>5, <1>6, <1>7, <1>8, <1>9 DEF Begin

\* No step leaves an indicator unsound that is not marked as written on old checks.
LEMMA NextSound ==
    ASSUME IsFiniteSet(Indicators), IsFiniteSet(Entries), SoundInv, [Next]_vars
    PROVE  SoundInv'
<1>1. SeriesInv' /\ Shape /\ MetricsShape /\ RowsTyped
  BY NextSeries DEF SoundInv, SeriesInv, TypesInv
<1>2. TypesInv'
  BY NextTypes DEF SoundInv
<1>3. ASSUME NEW r \in Requests, UNCHANGED <<metric, indicator, unchecked>>, ObjectivesEnd,
             \A q \in Requests \ {r} : req'[q] = req[q], ChecksHold(r)'
      PROVE  SoundInv'
  BY <1>1, <1>2, <1>3, QuietSound
<1>4. ASSUME UNCHANGED <<indicator, unchecked, req>>, ObjectivesEnd,
             \A m \in Metrics : Started(m) => metric'[m] = metric[m]
      PROVE  SoundInv'
  BY <1>1, <1>2, <1>4, QuietSound
<1>5. UNCHANGED objective => ObjectivesEnd
  BY DEF ObjectivesEnd
<1>6. ASSUME NEW r \in Requests, NEW c \in Calls, Begin(r, c) PROVE SoundInv'
  BY <1>3, <1>5, <1>6, BeginChecks
<1>7. ASSUME NEW r \in Requests, NEW c \in Calls, CreateMetric(r, c) PROVE SoundInv'
  <2>1. \A m \in Metrics : Started(m) => metric'[m] = metric[m]
    BY <1>1, <1>7 DEF CreateMetric, MetricsShape, Started
  <2> QED
    BY <1>4, <1>5, <1>7, <2>1 DEF CreateMetric, history
<1>8. ASSUME NEW r \in Requests, NEW c \in Calls, DeleteObjective(r, c) PROVE SoundInv'
  <2>1. ObjectivesEnd
    BY <1>1, <1>8 DEF DeleteObjective, ObjectivesEnd, RowsTyped
  <2> QED
    BY <1>4, <1>8, <2>1 DEF DeleteObjective, committed, history
<1>9. ASSUME NEW r \in Requests, LockGroup(r) \/ UNCHANGED vars PROVE SoundInv'
  BY <1>4, <1>5, <1>9 DEF LockGroup, committed, history, vars
<1>10. ASSUME NEW r \in Requests, NextMetric(r) PROVE SoundInv'
  <2>1. req'[r].at = "recomputing"
    BY <1>1, <1>10, LoadContinues
  <2> QED
    BY <1>1, <1>3, <1>5, <1>10, <2>1, NotBegun DEF NextMetric, committed, history, Shape
<1>11. ASSUME NEW r \in Requests, Deliver(r) \/ LoseEvent(r) \/ RollBack(r) PROVE SoundInv'
  <2>1. Leaves(r)
    BY <1>1, <1>11, AfterEventLeaves, RollBackLeaves DEF Deliver, LoseEvent
  <2>2. ChecksHold(r)'
    BY <2>1, NotBegun DEF Leaves
  <2>3. UNCHANGED <<metric, indicator, unchecked>> /\ \A q \in Requests \ {r} : req'[q] = req[q]
    BY <1>1, <1>11 DEF Deliver, LoseEvent, RollBack, AfterEvent, committed, history, Shape
  <2>4. ObjectivesEnd
    BY <1>1, <1>11 DEF Deliver, LoseEvent, RollBack, ObjectivesEnd, RowsTyped
  <2> QED
    BY <1>3, <2>2, <2>3, <2>4
<1>12. CASE UNCHANGED vars
  BY <1>4, <1>5, <1>12 DEF vars
<1> QED
  BY <1>1, <1>2, <1>6, <1>7, <1>8, <1>9, <1>10, <1>11, <1>12, CommitSound DEF Next, Step

\* An indicator of a live objective measures with a live metric, as its kind
\* and its curve allow, unless it was written on checks that another commit
\* made old.
THEOREM IndicatorsSound ==
    ASSUME IsFiniteSet(Indicators), IsFiniteSet(Entries)
    PROVE  Spec => []IndicatorsStaySound
<1>1. Init => SoundInv
  <2> SUFFICES ASSUME Init PROVE SoundInv
    OBVIOUS
  <2>1. TypesInv /\ SeriesInv
    BY InitTypes, InitSeries
  <2>2. \A r \in Requests : ChecksHold(r)
    BY DEF Init, Quiet, Idle, ChecksHold, CreateHolds, UpdateHolds, PointsHold, MetricHolds
  <2>3. LiveIndicators(indicator) = {}
    BY DEF Init, Quiet, LiveIndicators, NoIndicator
  <2> QED
    BY <2>1, <2>2, <2>3 DEF SoundInv
<1>2. SoundInv /\ [Next]_vars => SoundInv'
  BY NextSound
<1>3. SoundInv => IndicatorsStaySound
  <2> SUFFICES ASSUME SoundInv PROVE IndicatorsStaySound
    OBVIOUS
  <2>1. TypeOK
    BY TypesImplyTypeOK DEF SoundInv
  <2>2. \A i \in LiveIndicators(indicator) \ unchecked : Sound(i)
    BY DEF SoundInv
  <2> QED
    BY <2>1, <2>2 DEF IndicatorsStaySound, Sound
<1> QED
  BY <1>1, <1>2, <1>3, PTL DEF Spec
=============================================================================
