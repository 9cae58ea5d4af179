-------------------------- MODULE IndicatorResult --------------------------
(***************************************************************************)
(* How the loads of a metric become the result of an objective (RN-P8).    *)
(* Module metrics keeps metrics, their loads and the indicators that join  *)
(* a metric to an objective (MetricService, MetricEntryService,            *)
(* ObjectiveIndicatorService); it recomputes the progress of its           *)
(* indicators in the transaction of the change and publishes               *)
(* indicator.progress_changed after the commit; okr sets the result of the *)
(* objective to what the event carries (IndicatorProgressListener).        *)
(*                                                                         *)
(* The indicators of an objective are a group, serialised by an advisory   *)
(* lock.  What a request reads before it holds that lock may be old when   *)
(* it writes: an edit writes back the row it read before its transaction,  *)
(* and a load reads the series and the indicators before it locks their    *)
(* groups, one after the other.  From the lock to the commit of an edit    *)
(* nothing another request does can be told apart: it is one step.         *)
(*                                                                         *)
(* Statements run at READ COMMITTED.  A reconciliation of contributions    *)
(* (ContributionReconciliation) is a load of several metrics: it writes    *)
(* all its entries and then recomputes metric by metric.                   *)
(*                                                                         *)
(* An operator described in parentheses is a slip of the one it precedes:  *)
(* no specification uses it, it is put in the place of that operator to    *)
(* see which properties notice.                                            *)
(***************************************************************************)
EXTENDS MetricsDomain, Sequences, TLC

CONSTANTS
    Objectives,     \* ids, numbers: the groups are locked in their order
    Metrics, Indicators, Entries,   \* ids, past and future
    ObjectiveOf, MetricOf,          \* the pair each indicator joins
    SeriesOf,       \* the metric of each entry
    Targets,        \* the targets of indicators, never their baseline
    Baselines,      \* the baselines of metrics
    Increments,     \* the values of entries
    Calls,          \* the calls this instance makes
    Requests,       \* the request slots of the API processes
    Nobody,         \* the owner of a free group
    Keep,           \* a field an edit leaves alone
    Absent, Deleted,    \* an entry that is not there yet, or no longer
    NoPoints        \* a manual curve without points

ASSUME GroupAssumption == Objectives \subseteq Nat /\ IsFiniteSet(Objectives)
ASSUME PairsAssumption ==
    /\ ObjectiveOf \in [Indicators -> Objectives]
    /\ MetricOf \in [Indicators -> Metrics]
    /\ SeriesOf \in [Entries -> Metrics]
ASSUME NumbersAssumption ==
    /\ Targets \subseteq Int \ {0} /\ Baselines \subseteq Int /\ Increments \subseteq Int
    /\ Absent \notin Int /\ Deleted \notin Int /\ NoPoints \notin Int
ASSUME OwnersAssumption == Nobody \notin Requests

VARIABLES
    metric,     \* each metric: its life, its baseline and its kind
    entry,      \* the committed value of each entry
    indicator,  \* the committed indicator rows
    objective,  \* okr: whether each objective lives, and its result
    owner,      \* who holds the advisory lock of each group
    req,        \* where each request is and what it has read
    stale,      \* history: indicators whose last write used old readings
    unchecked,  \* history: indicators written on checks that were old
    behind      \* history: objectives whose last event was lost or outrun

committed == <<metric, entry, indicator>>
history == <<stale, unchecked, behind>>
vars == <<metric, entry, indicator, objective, owner, req, stale, unchecked, behind>>

Baseline == 0       \* the baseline of every indicator
Life == {"unborn", "live", "gone"}
Kinds == {"output", "outcome"}
Links == {"independent", "feeds"}
CurveModes == {"linear", "manual", "from_projects"}
NoIndicator == [life |-> "unborn", target |-> 0, weight |-> NoWeight,
                link |-> "independent", mode |-> "linear", last |-> NoPoints,
                progress |-> 0]
GoneIndicator == [NoIndicator EXCEPT !.life = "gone"]
NoRows == [i \in {} |-> 0]
NoCall == [op |-> "none"]
Idle == [at |-> "idle", call |-> NoCall, seen |-> NoIndicator, baseline |-> 0,
         todo |-> <<>>, wanted |-> NoRows, groups |-> {},
         draft |-> NoRows, outbox |-> <<>>, fresh |-> TRUE]

\* What calls carry; an edit may leave any field alone, and the entries a load
\* writes are of the metrics it names.
ASSUME CallsAssumption ==
    /\ Keep \notin Targets \cup Baselines \cup Weight \cup {NoPoints}
    /\ Keep \notin Links \cup CurveModes \cup Kinds
    /\ \A c \in Calls :
         /\ c.op \in {"create", "update", "set_points", "delete"} => c.indicator \in Indicators
         /\ c.op \in {"create_metric", "update_metric", "delete_metric"} => c.metric \in Metrics
         /\ c.op \in {"set_weights", "delete_objective"} => c.objective \in Objectives
         /\ c.op = "set_weights" => c.weights \in [DOMAIN c.weights -> Weight]
         /\ c.op = "set_points" => c.last \in Targets \cup {NoPoints}
         /\ c.op = "create" => /\ c.inline \in BOOLEAN /\ c.kind \in Kinds
                              /\ c.target \in Targets /\ c.weight \in Weight
                              /\ c.link \in Links /\ c.mode \in CurveModes
                              /\ c.last \in Targets \cup {NoPoints}
         /\ c.op = "update" => /\ c.target \in Targets \cup {Keep} /\ c.weight \in Weight \cup {Keep}
                              /\ c.link \in Links \cup {Keep} /\ c.mode \in CurveModes \cup {Keep}
                              /\ c.last \in Targets \cup {NoPoints, Keep}
         /\ c.op = "create_metric" => c.baseline \in Baselines /\ c.kind \in Kinds
         /\ c.op = "update_metric" => c.baseline \in Baselines \cup {Keep} /\ c.kind \in Kinds \cup {Keep}
         /\ c.op = "load" =>
              /\ c.metrics \in Seq(Metrics) /\ c.metrics # <<>>
              /\ \A e \in DOMAIN c.writes :
                   /\ e \in Entries /\ c.writes[e] \in Increments \cup {Deleted}
                   /\ \E n \in DOMAIN c.metrics : c.metrics[n] = SeriesOf[e]

LiveMetric(m) == metric[m].life = "live"
LiveIndicators(rows) == {i \in Indicators : rows[i].life = "live"}
Group(rows, o) == {i \in LiveIndicators(rows) : ObjectiveOf[i] = o}
LinksOf(rows, m) == {i \in LiveIndicators(rows) : MetricOf[i] = m}

\* aggregateResult: the result of the group, which throws if the weights of
\* the group are not valid.  (Or only if some members have none.)
Aggregate(rows, o) ==
    AggregateProgressBp([i \in Group(rows, o) |->
        [weight |-> rows[i].weight, progress |-> rows[i].progress]])
NotMixed(rows, o) == WeightMode([i \in Group(rows, o) |-> rows[i].weight]) # "mixed"
GroupValid(rows, o) == ValidWeightGroup([i \in Group(rows, o) |-> rows[i].weight])

\* loadIncrements and the progress of one indicator.
IncrementsOf(series, m) ==
    [e \in {x \in Entries : SeriesOf[x] = m /\ series[x] \in Int} |-> series[e]]
ProgressOf(series, m, baseline, target) ==
    ObjectiveIndicatorProgressBp(baseline, IncrementsOf(series, m), Baseline, target)

\* The metrics whose series, baseline or indicators a call changes or reads.
Touches(c) ==
    CASE c.op = "load" -> {c.metrics[n] : n \in DOMAIN c.metrics}
      [] c.op \in {"create", "update", "set_points", "delete"} -> {MetricOf[c.indicator]}
      [] c.op \in {"create_metric", "update_metric", "delete_metric"} -> {c.metric}
      [] OTHER -> {}
-----------------------------------------------------------------------------
Unborn == [life |-> "unborn", baseline |-> 0, kind |-> "output"]

\* Nothing runs, and nothing was loaded yet.
Quiet(metrics, rows) ==
    /\ metric = metrics
    /\ indicator = rows
    /\ entry = [e \in Entries |-> Absent]
    /\ objective = [o \in Objectives |-> [live |-> TRUE, result |-> 0]]
    /\ owner = [o \in Objectives |-> Nobody]
    /\ req = [r \in Requests |-> Idle]
    /\ stale = {} /\ unchecked = {} /\ behind = {}

Init == Quiet([m \in Metrics |-> Unborn], [i \in Indicators |-> NoIndicator])

\* A call is accepted: what it read before its transaction goes with it.
Accept(r, c, row, m) ==
    /\ req[r].at = "idle"
    /\ req' = [req EXCEPT ![r] = [Idle EXCEPT
                 !.at = "begun", !.call = c, !.seen = row,
                 !.baseline = metric[m].baseline]]
    /\ UNCHANGED <<committed, objective, owner, history>>

Pending(q, o) == \E n \in DOMAIN req[q].outbox : req[q].outbox[n].objective = o

\* Request r commits and has these events to publish.  Requests that read what
\* it changes are no longer fresh; an objective with another event under way
\* may end with the wrong one.
Finish(r, sent) ==
    LET told == {sent[n].objective : n \in DOMAIN sent}
        outrun == {o \in told : \E q \in Requests \ {r} : Pending(q, o)}
        mine == Touches(req[r].call)
    IN  /\ req' = [q \in Requests |->
                 IF q = r
                 THEN IF sent = <<>> THEN Idle
                      ELSE [Idle EXCEPT !.at = "publishing", !.outbox = sent]
                 ELSE [req[q] EXCEPT !.fresh = @ /\ Touches(req[q].call) \cap mine = {}]]
        /\ behind' = (behind \ told) \cup outrun

\* buildEvent: the result of the group as the transaction leaves it.
Event(rows, o) == [objective |-> o, result |-> Aggregate(rows, o)]
InOrder(S) ==
    CHOOSE s \in [1..Cardinality(S) -> S] :
        \A a, b \in DOMAIN s : a < b => s[a] < s[b]
Events(rows, S) == [n \in 1..Cardinality(S) |-> Event(rows, InOrder(S)[n])]

\* The indicators a commit wrote: with readings that still hold, or not.
Wrote(r, S) == stale' = IF req[r].fresh THEN stale \ S ELSE stale \cup S
Checked(r, S) == unchecked' = IF req[r].fresh THEN unchecked ELSE unchecked \cup S

-----------------------------------------------------------------------------
(***************************************************************************)
(* MetricEntryService and the automatic entries of a reconciliation: the   *)
(* entries are written, and recomputeForMetric runs for every metric.      *)
(***************************************************************************)

\* What the transaction of a load sees of the series and of the indicators.
Overlay(rows, progress) ==
    [i \in Indicators |-> IF i \in DOMAIN progress /\ rows[i].life = "live"
                          THEN [rows[i] EXCEPT !.progress = progress[i]] ELSE rows[i]]
Written(c) == [e \in Entries |-> IF e \in DOMAIN c.writes THEN c.writes[e] ELSE entry[e]]

\* The readings of recomputeForMetric: the indicators of metric m with the
\* progress each should have, kept where it differs, and their groups.
Snapshot(rq, rows, m) ==
    LET links == LinksOf(rows, m)
        new == [i \in links |->
                   ProgressOf(Written(rq.call), m, metric[m].baseline, rows[i].target)]
    IN  [rq EXCEPT !.wanted = [i \in {j \in links : new[j] # rows[j].progress} |-> new[i]],
                   !.groups = {ObjectiveOf[i] : i \in links}]

\* An entry is inserted, or the row of a live one is free to be written.
EntryFree(c, e) ==
    /\ entry[e] = Absent => c.writes[e] \in Int
    /\ entry[e] # Deleted
    /\ \A q \in Requests : req[q].at = "recomputing" => e \notin DOMAIN req[q].call.writes

BeginLoad(r, c) ==
    /\ c.op = "load"
    /\ req[r].at = "idle"
    /\ \A n \in DOMAIN c.metrics : LiveMetric(c.metrics[n])
    /\ \A e \in DOMAIN c.writes : EntryFree(c, e)
    /\ req' = [req EXCEPT ![r] =
                 Snapshot([Idle EXCEPT !.at = "recomputing", !.call = c, !.todo = c.metrics],
                          indicator, Head(c.metrics))]
    /\ UNCHANGED <<committed, objective, owner, history>>

\* The groups of a metric, in the order of their ids.  (In the opposite order
\* when the load removes an entry.)
MissingGroups(r) == {o \in req[r].groups : owner[o] # r}
NextGroupByLoad(r) ==
    CHOOSE o \in MissingGroups(r) : \A p \in MissingGroups(r) :
        IF Deleted \in {req[r].call.writes[e] : e \in DOMAIN req[r].call.writes}
        THEN p <= o ELSE o <= p
NextGroup(r) == CHOOSE o \in MissingGroups(r) : \A p \in MissingGroups(r) : o <= p

LockGroup(r) ==
    /\ req[r].at = "recomputing"
    /\ MissingGroups(r) # {}
    /\ owner[NextGroup(r)] = Nobody
    /\ owner' = [owner EXCEPT ![NextGroup(r)] = r]
    /\ UNCHANGED <<committed, objective, req, history>>

\* With its groups locked, the load writes what it wants and aggregates them.
\* (Aggregates them before it writes.)
Drafted(r) ==
    [i \in DOMAIN req[r].wanted \cup DOMAIN req[r].draft |->
        IF i \in DOMAIN req[r].wanted THEN req[r].wanted[i] ELSE req[r].draft[i]]
LoadRows(r) == Overlay(indicator, Drafted(r))
LoadOutboxEarly(r) == req[r].outbox \o Events(indicator, req[r].groups)
LoadOutbox(r) == req[r].outbox \o Events(LoadRows(r), req[r].groups)
Recomputed(r) ==
    /\ req[r].at = "recomputing"
    /\ MissingGroups(r) = {}
    /\ \A o \in req[r].groups : GroupValid(LoadRows(r), o)

NextMetric(r) ==
    /\ Recomputed(r)
    /\ Len(req[r].todo) > 1
    /\ req' = [req EXCEPT ![r] =
                 Snapshot([req[r] EXCEPT !.todo = Tail(req[r].todo), !.draft = Drafted(r),
                                         !.outbox = LoadOutbox(r)],
                          LoadRows(r), req[r].todo[2])]
    /\ UNCHANGED <<committed, objective, owner, history>>

Released(r) == [o \in Objectives |-> IF owner[o] = r THEN Nobody ELSE owner[o]]

CommitLoad(r) ==
    /\ Recomputed(r)
    /\ Len(req[r].todo) = 1
    /\ entry' = Written(req[r].call)
    /\ indicator' = LoadRows(r)
    /\ owner' = Released(r)
    /\ Wrote(r, UNION {LinksOf(indicator, m) : m \in Touches(req[r].call)})
    /\ Finish(r, LoadOutbox(r))
    /\ UNCHANGED <<metric, objective, unchecked>>
-----------------------------------------------------------------------------
(***************************************************************************)
(* ObjectiveIndicatorService: the indicators of an objective.              *)
(***************************************************************************)

\* assertLinkModeAllowedForKind, assertCurveModeAvailable and, for the points
\* of the request or those that stay, validateTargetPoints.
LinkAllowed(link, kind) == link = "feeds" => kind = "output"
CurveAllowed(mode, kind, link) == mode = "from_projects" => kind = "output" /\ link = "feeds"
PointsEnd(points, target) == points # NoPoints => points = target
Curve(mode, points, target) ==
    PointsEnd(points, target) /\ (mode = "manual" => points # NoPoints)

Given(field, old) == IF field = Keep THEN old ELSE field

\* The unique index of live rows on the pair.
PairFree(i) ==
    \A j \in LiveIndicators(indicator) : <<ObjectiveOf[j], MetricOf[j]>> # <<ObjectiveOf[i], MetricOf[i]>>

BeginCreate(r, c) ==
    LET i == c.indicator
        m == MetricOf[i]
        kind == IF c.inline THEN c.kind ELSE metric[m].kind
    IN  /\ c.op = "create"
        /\ indicator[i].life = "unborn"
        /\ objective[ObjectiveOf[i]].live
        /\ ~c.inline => LiveMetric(m) /\ PairFree(i)
        /\ LinkAllowed(c.link, kind)
        /\ CurveAllowed(c.mode, kind, c.link)
        /\ Curve(c.mode, c.last, c.target)
        /\ Accept(r, c, NoIndicator, m)

\* The new row; its metric, when it comes with the request, is inserted first
\* and takes the baseline of the indicator.
CreatedMetric(r) ==
    LET c == req[r].call
    IN  IF c.inline
        THEN [metric EXCEPT ![MetricOf[c.indicator]] =
                 [life |-> "live", baseline |-> Baseline, kind |-> c.kind]]
        ELSE metric
CreatedRow(r) ==
    LET c == req[r].call
    IN  [life |-> "live", target |-> c.target, weight |-> c.weight, link |-> c.link,
         mode |-> c.mode, last |-> c.last,
         progress |-> IF c.inline THEN 0
                      ELSE ProgressOf(entry, MetricOf[c.indicator], req[r].baseline, c.target)]

\* Its rows, when request r leaves indicator i with this row.
With(i, row) == [indicator EXCEPT ![i] = row]
CommitCreate(r) ==
    LET i == req[r].call.indicator
        o == ObjectiveOf[i]
    IN  /\ req[r].at = "begun" /\ req[r].call.op = "create"
        /\ owner[o] = Nobody
        /\ indicator[i].life = "unborn"
        /\ req[r].call.inline => metric[MetricOf[i]].life = "unborn"
        /\ PairFree(i)
        /\ metric' = CreatedMetric(r)
        /\ indicator' = With(i, CreatedRow(r))
        /\ GroupValid(indicator', o)
        /\ Wrote(r, {i}) /\ Checked(r, {i})
        /\ Finish(r, Events(indicator', {o}))
        /\ UNCHANGED <<entry, objective, owner>>

\* The checks of an edit, on what was read before its transaction.
BeginUpdate(r, c) ==
    LET i == c.indicator
        row == indicator[i]
        kind == metric[MetricOf[i]].kind
        link == Given(c.link, row.link)
        mode == Given(c.mode, row.mode)
        points == IF c.last # Keep THEN c.last
                  ELSE IF mode = "manual" THEN row.last ELSE NoPoints
    IN  /\ c.op = "update"
        /\ row.life = "live"
        /\ objective[ObjectiveOf[i]].live
        /\ LiveMetric(MetricOf[i])
        /\ link # row.link => LinkAllowed(link, kind)
        /\ CurveAllowed(mode, kind, link)
        /\ Curve(mode, points, Given(c.target, row.target))
        /\ Accept(r, c, row, MetricOf[i])

\* The row an edit writes: what it read, what it was asked for, and the
\* progress of the series as it is now.  (Without that progress.)
UpdatedRowKeepingProgress(r) ==
    LET c == req[r].call
        old == req[r].seen
    IN  [indicator[c.indicator] EXCEPT
            !.target = Given(c.target, old.target), !.weight = Given(c.weight, old.weight),
            !.link = Given(c.link, old.link), !.mode = Given(c.mode, old.mode),
            !.last = Given(c.last, @)]
UpdatedRow(r) ==
    LET c == req[r].call
        old == req[r].seen
        target == Given(c.target, old.target)
    IN  [indicator[c.indicator] EXCEPT
            !.target = target, !.weight = Given(c.weight, old.weight),
            !.link = Given(c.link, old.link), !.mode = Given(c.mode, old.mode),
            !.last = Given(c.last, @),
            !.progress = ProgressOf(entry, MetricOf[c.indicator], req[r].baseline, target)]

\* A new weight is checked with the siblings of the row.
WeightChangeValid(r) ==
    LET c == req[r].call
        i == c.indicator
    IN  c.weight \notin {Keep, req[r].seen.weight} =>
          ValidWeightGroup([j \in Group(indicator, ObjectiveOf[i]) \cup {i} |->
                               IF j = i THEN c.weight ELSE indicator[j].weight])

\* An edit of a row that is gone by now leaves it gone.
CommitUpdate(r) ==
    LET i == req[r].call.indicator
        o == ObjectiveOf[i]
    IN  /\ req[r].at = "begun" /\ req[r].call.op = "update"
        /\ owner[o] = Nobody
        /\ WeightChangeValid(r)
        /\ indicator' = IF indicator[i].life = "live" THEN With(i, UpdatedRow(r)) ELSE indicator
        /\ GroupValid(indicator', o)
        /\ Wrote(r, {i}) /\ Checked(r, {i})
        /\ Finish(r, Events(indicator', {o}))
        /\ UNCHANGED <<metric, entry, objective, owner>>

\* setTargetPoints: the points, checked against the target read before.  (The
\* list of a manual curve may be emptied.)
PointsAllowedEmpty(c, row) == PointsEnd(c.last, row.target)
PointsAllowed(c, row) == Curve(row.mode, c.last, row.target)
BeginPoints(r, c) ==
    LET i == c.indicator
    IN  /\ c.op = "set_points"
        /\ indicator[i].life = "live"
        /\ objective[ObjectiveOf[i]].live
        /\ LiveMetric(MetricOf[i])
        /\ PointsAllowed(c, indicator[i])
        /\ Accept(r, c, indicator[i], MetricOf[i])

CommitPoints(r) ==
    LET i == req[r].call.indicator
    IN  /\ req[r].at = "begun" /\ req[r].call.op = "set_points"
        /\ owner[ObjectiveOf[i]] = Nobody
        /\ indicator' = IF indicator[i].life = "live"
                        THEN [indicator EXCEPT ![i].last = req[r].call.last] ELSE indicator
        /\ Checked(r, {i})
        /\ Finish(r, <<>>)
        /\ UNCHANGED <<metric, entry, objective, owner, stale>>

\* setWeights: the group is read under its lock; the event tells of a change.
BeginWeights(r, c) ==
    /\ c.op = "set_weights"
    /\ objective[c.objective].live
    /\ Accept(r, c, NoIndicator, CHOOSE m \in Metrics : TRUE)

Weighed(weights) ==
    [i \in Indicators |-> IF i \in DOMAIN weights
                          THEN [indicator[i] EXCEPT !.weight = weights[i]] ELSE indicator[i]]
CommitWeights(r) ==
    LET c == req[r].call
        o == c.objective
    IN  /\ req[r].at = "begun" /\ c.op = "set_weights"
        /\ owner[o] = Nobody
        /\ SameSiblingSet(Group(indicator, o), c.weights)
        /\ ValidWeightGroup(c.weights)
        /\ indicator' = Weighed(c.weights)
        /\ Finish(r, IF indicator' = indicator THEN <<>> ELSE Events(indicator', {o}))
        /\ UNCHANGED <<metric, entry, objective, owner, stale, unchecked>>

BeginDelete(r, c) ==
    /\ c.op = "delete"
    /\ indicator[c.indicator].life = "live"
    /\ objective[ObjectiveOf[c.indicator]].live
    /\ Accept(r, c, NoIndicator, MetricOf[c.indicator])

\* The check that no weight is left over.
MayLeave(i) ==
    DeletionKeepsGroup([j \in Group(indicator, ObjectiveOf[i]) |-> indicator[j].weight], i)

CommitDelete(r) ==
    LET i == req[r].call.indicator
        o == ObjectiveOf[i]
    IN  /\ req[r].at = "begun" /\ req[r].call.op = "delete"
        /\ owner[o] = Nobody
        /\ MayLeave(i)
        /\ indicator' = With(i, GoneIndicator)
        /\ GroupValid(indicator', o)
        /\ stale' = stale \ {i} /\ unchecked' = unchecked \ {i}
        /\ Finish(r, Events(indicator', {o}))
        /\ UNCHANGED <<metric, entry, objective, owner>>
-----------------------------------------------------------------------------
(***************************************************************************)
(* MetricService.  Nothing here recomputes an indicator.                   *)
(***************************************************************************)
CreateMetric(r, c) ==
    /\ c.op = "create_metric"
    /\ req[r].at = "idle"
    /\ metric[c.metric].life = "unborn"
    /\ metric' = [metric EXCEPT ![c.metric] =
                    [life |-> "live", baseline |-> c.baseline, kind |-> c.kind]]
    /\ UNCHANGED <<entry, indicator, objective, owner, req, history>>

\* findLiveObjectiveIndicators: the links of a metric that measure something.
Measured(m) == {i \in LinksOf(indicator, m) : objective[ObjectiveOf[i]].live}

\* assertNoExecutionFeedsIndicator.
KindMayChange(m, kind) ==
    kind = "outcome" /\ metric[m].kind = "output" =>
        \A i \in Measured(m) : indicator[i].link # "feeds"

BeginUpdateMetric(r, c) ==
    /\ c.op = "update_metric"
    /\ LiveMetric(c.metric)
    /\ KindMayChange(c.metric, Given(c.kind, metric[c.metric].kind))
    /\ Accept(r, c, NoIndicator, c.metric)

CommitUpdateMetric(r) ==
    LET c == req[r].call
        m == c.metric
        links == LinksOf(indicator, m)
        baseline == Given(c.baseline, metric[m].baseline)
    IN  /\ req[r].at = "begun" /\ c.op = "update_metric"
        /\ metric' = [metric EXCEPT ![m].baseline = baseline, ![m].kind = Given(c.kind, @)]
        /\ stale' = IF baseline = metric[m].baseline THEN stale ELSE stale \cup links
        /\ Checked(r, links)
        /\ Finish(r, <<>>)
        /\ UNCHANGED <<entry, indicator, objective, owner>>

\* A metric that measures an objective is not deleted.
MeasuresNothing(m) == Measured(m) = {}
BeginDeleteMetric(r, c) ==
    /\ c.op = "delete_metric"
    /\ LiveMetric(c.metric)
    /\ MeasuresNothing(c.metric)
    /\ Accept(r, c, NoIndicator, c.metric)

CommitDeleteMetric(r) ==
    LET m == req[r].call.metric
    IN  /\ req[r].at = "begun" /\ req[r].call.op = "delete_metric"
        /\ metric' = [metric EXCEPT ![m].life = "gone"]
        /\ Checked(r, LinksOf(indicator, m))
        /\ Finish(r, <<>>)
        /\ UNCHANGED <<entry, indicator, objective, owner, stale>>

-----------------------------------------------------------------------------
(***************************************************************************)
(* okr: the end of an objective, and the listener.                         *)
(***************************************************************************)
DeleteObjective(r, c) ==
    /\ c.op = "delete_objective"
    /\ req[r].at = "idle"
    /\ objective[c.objective].live
    /\ objective' = [objective EXCEPT ![c.objective].live = FALSE]
    /\ UNCHANGED <<committed, owner, req, history>>

\* The events of a request are delivered one after the other.
NextEvent(r) == Head(req[r].outbox)
AfterEvent(r) ==
    LET left == Tail(req[r].outbox)
    IN  req' = [req EXCEPT ![r] = IF left = <<>> THEN Idle ELSE [req[r] EXCEPT !.outbox = left]]

\* IndicatorProgressListener.handle: the result is what the event says.
Deliver(r) ==
    /\ req[r].at = "publishing"
    /\ LET o == NextEvent(r).objective
       IN  objective' = IF objective[o].live
                        THEN [objective EXCEPT ![o].result = NextEvent(r).result] ELSE objective
    /\ AfterEvent(r)
    /\ UNCHANGED <<committed, owner, history>>

\* The listener fails, or the process dies: the event is not published again.
LoseEvent(r) ==
    /\ req[r].at = "publishing"
    /\ behind' = behind \cup {NextEvent(r).objective}
    /\ AfterEvent(r)
    /\ UNCHANGED <<committed, objective, owner, stale, unchecked>>

\* A refused check, a lost connection, a constraint, a deadlock that the
\* database breaks: the transaction leaves nothing.
RollBack(r) ==
    /\ req[r].at \in {"begun", "recomputing"}
    /\ req' = [req EXCEPT ![r] = Idle]
    /\ owner' = Released(r)
    /\ UNCHANGED <<committed, objective, history>>

Begin(r, c) ==
    \/ BeginLoad(r, c) \/ BeginCreate(r, c) \/ BeginUpdate(r, c) \/ BeginPoints(r, c)
    \/ BeginWeights(r, c) \/ BeginDelete(r, c) \/ BeginUpdateMetric(r, c)
    \/ BeginDeleteMetric(r, c)

Commit(r) ==
    \/ CommitLoad(r) \/ CommitCreate(r) \/ CommitUpdate(r) \/ CommitPoints(r)
    \/ CommitWeights(r) \/ CommitDelete(r) \/ CommitUpdateMetric(r)
    \/ CommitDeleteMetric(r)

Step(calls) ==
    \/ \E r \in Requests, c \in calls : Begin(r, c) \/ CreateMetric(r, c) \/ DeleteObjective(r, c)
    \/ \E r \in Requests :
          LockGroup(r) \/ NextMetric(r) \/ Commit(r) \/ Deliver(r) \/ LoseEvent(r) \/ RollBack(r)

Next == Step(Calls)

Spec == Init /\ [][Next]_vars

-----------------------------------------------------------------------------
Value(S, none) == S \cup {none}
IndicatorRow == [life : Life, target : Targets \cup {0}, weight : Weight, link : Links,
                 mode : CurveModes, last : Value(Targets, NoPoints), progress : Progress]

\* The types of the state.
TypeOK ==
    /\ metric \in [Metrics -> [life : Life, baseline : Baselines \cup {0}, kind : Kinds]]
    /\ entry \in [Entries -> Increments \cup {Absent, Deleted}]
    /\ indicator \in [Indicators -> IndicatorRow]
    /\ objective \in [Objectives -> [live : BOOLEAN, result : Progress]]
    /\ owner \in [Objectives -> Requests \cup {Nobody}]
    /\ \A r \in Requests :
         /\ req[r].at \in {"idle", "begun", "recomputing", "publishing"}
         /\ req[r].seen \in IndicatorRow
         /\ req[r].groups \subseteq Objectives
         /\ req[r].at = "idle" => req[r] = Idle
    /\ stale \subseteq Indicators /\ unchecked \subseteq Indicators
    /\ behind \subseteq Objectives

\* The progress of an indicator is that of the series of its metric, with its
\* own target (RN-P8), unless its last write raced another change of the
\* metric or the baseline of the metric was edited since: the next load of the
\* metric that meets no other change repairs it.
ProgressFollowsSeries ==
    \A i \in LiveIndicators(indicator) \ stale :
        LET m == MetricOf[i]
        IN  indicator[i].progress = ProgressOf(entry, m, metric[m].baseline, indicator[i].target)

\* The weights of the indicators of an objective are all there and sum to one
\* hundred percent, or none is there (RN-P6): also when edits write back the
\* weight they read before another request distributed them again.
GroupsStayValid ==
    \A o \in Objectives :
        ValidWeightGroup([i \in Group(indicator, o) |-> indicator[i].weight])

\* The result okr shows is the aggregate of the group metrics keeps, once the
\* events are delivered, unless the last event was lost or met an earlier one
\* on its way: the next change of the group repairs it.
OkrFollowsMetrics ==
    \A o \in Objectives \ behind :
        objective[o].live /\ (\A r \in Requests : ~Pending(r, o)) =>
            objective[o].result = Aggregate(indicator, o)

\* The indicators of a live objective measure with a live metric, are fed by
\* projects only if it is an output, follow the projects only if fed by them,
\* and a manual curve ends at the target; unless they were written on checks
\* that another commit made old.  Everything keeps its type.
IndicatorsStaySound ==
    /\ TypeOK
    /\ \A i \in LiveIndicators(indicator) \ unchecked :
         objective[ObjectiveOf[i]].live =>
             LET row == indicator[i]
             IN  /\ LiveMetric(MetricOf[i])
                 /\ LinkAllowed(row.link, metric[MetricOf[i]].kind)
                 /\ CurveAllowed(row.mode, metric[MetricOf[i]].kind, row.link)
                 /\ row.mode = "manual" => row.last = row.target

\* Requests that wait for groups of each other.
WaitsFor(r, q) ==
    /\ req[r].at = "recomputing"
    /\ MissingGroups(r) # {}
    /\ owner[NextGroup(r)] = q
Entangled(S) == S # {} /\ \A r \in S : \E q \in S : WaitsFor(r, q)

\* Loads of one metric never wait for each other in a circle, because each
\* takes its groups in order ("para evitar deadlocks entre cargas
\* concurrentes"): only a reconciliation, which locks again for every metric,
\* can be part of one.
LoadsDoNotDeadlock ==
    \A S \in SUBSET Requests :
        Entangled(S) => \E r \in S : Len(req[r].call.metrics) > 1
=============================================================================
