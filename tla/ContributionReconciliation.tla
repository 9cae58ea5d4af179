--------------------- MODULE ContributionReconciliation ---------------------
(***************************************************************************)
(* How the completion of projects reaches the indicators they contribute   *)
(* to (RN-P13): okr commits a change of a project, publishes               *)
(* project.completed or project.reopened after the commit, and metrics     *)
(* reconciles the project's contributions in a transaction of its own      *)
(* (apps/api/src/modules/metrics, ProjectContributionApplier).             *)
(*                                                                         *)
(* The event is a call in the process that committed: what is lost is not  *)
(* delivered again, and two requests run their reconciliations of the same *)
(* project side by side.  A reconciliation reads the project before its    *)
(* transaction (findLiveProject), lists the contributions, locks and       *)
(* decides them one by one in the order of their ids, and commits.         *)
(*                                                                         *)
(* The other transactions (insertion, update and removal of a              *)
(* contribution, edit and removal of an indicator) hold one lock: each is  *)
(* one step from that lock to its commit, after the reads outside it.      *)
(*                                                                         *)
(* An operator described in parentheses is a slip of the one it precedes:  *)
(* no specification uses it, it is put in the place of that operator to    *)
(* see which properties notice.                                            *)
(***************************************************************************)
EXTENDS Integers, FiniteSets, Functions

CONSTANTS
    Projects, Indicators,
    Contributions,  \* ids of contributions, past and future, in lock order
    ProjectOf, IndicatorOf,  \* the pair of each contribution
    Values,         \* the contribution values: never zero
    Requests,       \* the request slots of the API processes
    Nobody,         \* the holder of a free row
    Operations,     \* the operations the callers of this instance use
    MayFail         \* whether a listener or a process may fail

AllOperations == {"complete", "reopen", "change", "deleteProject", "create",
                  "alter", "edit", "deleteIndicator"}

ASSUME PairAssumption ==
    /\ Contributions \subseteq Nat /\ Contributions # {}
    /\ ProjectOf \in [Contributions -> Projects]
    /\ IndicatorOf \in [Contributions -> Indicators]
ASSUME ValuesAssumption == Values # {} /\ Values \subseteq Int \ {0}
ASSUME SlotAssumption == Nobody \notin Requests
ASSUME ScopeAssumption == Operations \subseteq AllOperations /\ MayFail \in BOOLEAN

VARIABLES
    project,    \* okr: whether each project is open, complete or deleted
    indicator,  \* metrics: each indicator, and whether projects feed it
    row,        \* metrics: the committed contribution rows
    balance,    \* metrics: the sum of the automatic entries of each row
    rowLock,    \* who holds each contribution row
    decision,   \* what the holder of a row decided for it
    pc,         \* where each request is
    job,        \* the project it reconciles
    seen,       \* what findLiveProject told it of a project
    todo,       \* the contributions it has still to lock
    draft,      \* the contribution it creates or the indicator it edits
    lost        \* history: projects whose last reconciliation failed

metrics == <<indicator, row, balance>>
rows == <<row, balance, rowLock, decision>>
request == <<pc, job, seen, todo, draft>>
vars == <<project, metrics, rowLock, decision, request, lost>>

NotApplied == 0     \* a null appliedEntryId: no entry is worth zero
ProjectState == {"open", "complete", "deleted"}
Row == [status : {"absent", "live", "gone"},
        value : Values \cup {NotApplied}, applied : Values \cup {NotApplied}]
Decisions == {"apply", "revert", "keep"}
PC == {"idle", "published", "read", "locking", "creating", "altering",
       "editing"}
Draft == [contribution : Contributions, value : Values, indicator : Indicators,
          from : BOOLEAN, to : BOOLEAN]
NoRow == [status |-> "absent", value |-> NotApplied, applied |-> NotApplied]
NoJob == CHOOSE p \in Projects : TRUE
NoDraft == CHOOSE d \in Draft : d.from = FALSE /\ d.to = FALSE

Live(c) == row[c].status = "live"
Applied(c) == row[c].applied # NotApplied
Feeds(i) == indicator[i].live /\ indicator[i].feeds
Locked(r) == {c \in Contributions : rowLock[c] = r}

\* findLinkedProjects: only the contributions of live projects count.
Linked(i) == \E c \in Contributions :
                 Live(c) /\ IndicatorOf[c] = i /\ project[ProjectOf[c]] # "deleted"

-----------------------------------------------------------------------------
Init ==
    /\ project = [p \in Projects |-> "open"]
    /\ indicator = [i \in Indicators |-> [live |-> TRUE, feeds |-> FALSE]]
    /\ row = [c \in Contributions |-> NoRow]
    /\ balance = [c \in Contributions |-> 0]
    /\ rowLock = [c \in Contributions |-> Nobody]
    /\ decision = [c \in Contributions |-> "keep"]
    /\ pc = [r \in Requests |-> "idle"]
    /\ job = [r \in Requests |-> NoJob]
    /\ seen = [r \in Requests |-> "open"]
    /\ todo = [r \in Requests |-> {}]
    /\ draft = [r \in Requests |-> NoDraft]
    /\ lost = {}

\* Request r is over, whichever way.
EndRequest(r) ==
    /\ pc' = [pc EXCEPT ![r] = "idle"]
    /\ job' = [job EXCEPT ![r] = NoJob]
    /\ seen' = [seen EXCEPT ![r] = "open"]
    /\ todo' = [todo EXCEPT ![r] = {}]
    /\ draft' = [draft EXCEPT ![r] = NoDraft]

\* Its row locks are released.
Release(r) ==
    /\ rowLock' = [c \in Contributions |->
                      IF rowLock[c] = r THEN Nobody ELSE rowLock[c]]
    /\ decision' = [c \in Contributions |->
                      IF rowLock[c] = r THEN "keep" ELSE decision[c]]

-----------------------------------------------------------------------------
(***************************************************************************)
(* okr: a change of a project commits; a change to or from one hundred     *)
(* percent, and a deletion, are then published by the same request.        *)
(***************************************************************************)
CommitAndPublish(r, p, state) ==
    /\ pc[r] = "idle"
    /\ project' = [project EXCEPT ![p] = state]
    /\ lost' = lost \ {p}
    /\ pc' = [pc EXCEPT ![r] = "published"]
    /\ job' = [job EXCEPT ![r] = p]
    /\ UNCHANGED <<metrics, rowLock, decision, seen, todo, draft>>

CompleteProject(r, p) ==
    /\ "complete" \in Operations
    /\ project[p] = "open"
    /\ CommitAndPublish(r, p, "complete")

ReopenProject(r, p) ==
    /\ "reopen" \in Operations
    /\ project[p] = "complete"
    /\ CommitAndPublish(r, p, "open")

DeleteProject(r, p) ==
    /\ "deleteProject" \in Operations
    /\ project[p] # "deleted"
    /\ CommitAndPublish(r, p, "deleted")

\* Any other change of progress publishes nothing.
ChangeProgress(r, p) ==
    /\ "change" \in Operations
    /\ pc[r] = "idle"
    /\ project[p] = "open"
    /\ lost' = lost \ {p}
    /\ UNCHANGED <<project, metrics, rowLock, decision, request>>

-----------------------------------------------------------------------------
(***************************************************************************)
(* metrics: the reconciliation.                                            *)
(***************************************************************************)

\* findLiveProject, outside the transaction.
ReadProject(r) ==
    /\ pc[r] = "published"
    /\ seen' = [seen EXCEPT ![r] = project[job[r]]]
    /\ pc' = [pc EXCEPT ![r] = "read"]
    /\ UNCHANGED <<project, metrics, rowLock, decision, job, todo, draft, lost>>

\* The transaction lists the contributions of the project.
ListContributions(r) ==
    /\ pc[r] = "read"
    /\ todo' = [todo EXCEPT ![r] = {c \in Contributions : Live(c) /\ ProjectOf[c] = job[r]}]
    /\ pc' = [pc EXCEPT ![r] = "locking"]
    /\ UNCHANGED <<project, metrics, rowLock, decision, job, seen, draft, lost>>

\* The rows are taken in the order of their ids.
\* (Compensating in the opposite order.)
NextRowByState(r) ==
    CHOOSE c \in todo[r] : \A d \in todo[r] :
        IF seen[r] = "complete" THEN c <= d ELSE d <= c
NextRow(r) == CHOOSE c \in todo[r] : \A d \in todo[r] : c <= d

\* What is due to a row, given what the project looked like.  (Whatever the row
\* says.)
DueByEvent(c, state) ==
    IF state = "complete" /\ Feeds(IndicatorOf[c]) THEN "apply"
    ELSE IF state # "complete" /\ indicator[IndicatorOf[c]].live THEN "revert"
    ELSE "keep"
Due(c, state) ==
    LET i == IndicatorOf[c]
    IN  IF state = "complete" /\ ~Applied(c) /\ Feeds(i) THEN "apply"
        ELSE IF state # "complete" /\ Applied(c) /\ indicator[i].live THEN "revert"
        ELSE "keep"

\* A row is free to be locked.
RowFree(c) == rowLock[c] = Nobody

\* SELECT ... FOR UPDATE, and the row read again under its lock; one that was
\* removed since it was listed is skipped.
LockContribution(r) ==
    /\ pc[r] = "locking"
    /\ todo[r] # {}
    /\ LET c == NextRow(r)
       IN  /\ RowFree(c)
           /\ todo' = [todo EXCEPT ![r] = @ \ {c}]
           /\ IF Live(c)
              THEN /\ rowLock' = [rowLock EXCEPT ![c] = r]
                   /\ decision' = [decision EXCEPT ![c] = Due(c, seen[r])]
              ELSE UNCHANGED <<rowLock, decision>>
    /\ UNCHANGED <<project, metrics, pc, job, seen, draft, lost>>

\* The automatic entry of a decision: the value, or what was applied with the
\* opposite sign.  (Without the compensation.)
EntryOnlyApplied(c) == IF decision[c] = "apply" THEN row[c].value ELSE 0
EntryOf(c) ==
    IF decision[c] = "apply" THEN row[c].value
    ELSE IF decision[c] = "revert" THEN -row[c].applied ELSE 0

\* The row it leaves: the id of that entry, or none again.
RowAfter(c) ==
    IF decision[c] = "apply" THEN [row[c] EXCEPT !.applied = row[c].value]
    ELSE IF decision[c] = "revert" THEN [row[c] EXCEPT !.applied = NotApplied]
    ELSE row[c]

\* The row of a deleted project goes with it.
RowLeft(r, c) ==
    IF seen[r] = "deleted" THEN [NoRow EXCEPT !.status = "gone"] ELSE RowAfter(c)

CommitReconciliation(r) ==
    /\ pc[r] = "locking"
    /\ todo[r] = {}
    /\ balance' = [c \in Contributions |->
                      IF c \in Locked(r) THEN balance[c] + EntryOf(c) ELSE balance[c]]
    /\ row' = [c \in Contributions |->
                  IF c \in Locked(r) THEN RowLeft(r, c) ELSE row[c]]
    /\ Release(r)
    /\ EndRequest(r)
    /\ UNCHANGED <<project, indicator, lost>>

\* The listener throws, or the process dies: what it did is rolled back, and
\* nobody delivers the event again.
Fail(r) ==
    /\ MayFail
    /\ pc[r] # "idle"
    /\ lost' = IF pc[r] \in {"published", "read", "locking"} THEN lost \cup {job[r]}
                                                             ELSE lost
    /\ Release(r)
    /\ EndRequest(r)
    /\ UNCHANGED <<project, metrics>>

-----------------------------------------------------------------------------
(***************************************************************************)
(* metrics: the contributions and the indicators they are for.             *)
(***************************************************************************)
FreshId(c) ==
    /\ row[c].status = "absent"
    /\ \A q \in Requests : pc[q] = "creating" => draft[q].contribution # c

\* create: the project and the indicator are read before the transaction.
BeginCreate(r, c, v) ==
    /\ "create" \in Operations
    /\ pc[r] = "idle"
    /\ FreshId(c)
    /\ project[ProjectOf[c]] # "deleted"
    /\ Feeds(IndicatorOf[c])
    /\ pc' = [pc EXCEPT ![r] = "creating"]
    /\ seen' = [seen EXCEPT ![r] = project[ProjectOf[c]]]
    /\ draft' = [draft EXCEPT ![r].contribution = c, ![r].value = v]
    /\ UNCHANGED <<project, metrics, rowLock, decision, job, todo, lost>>

\* What create checks again under the lock of the objective's indicators.
MayInsert(c) ==
    /\ Feeds(IndicatorOf[c])
    /\ ~\E d \in Contributions : /\ Live(d)
                                 /\ ProjectOf[d] = ProjectOf[c]
                                 /\ IndicatorOf[d] = IndicatorOf[c]

\* The new row.
NewRow(v) == [status |-> "live", value |-> v, applied |-> NotApplied]

\* The project was complete when the request read it.
FoundComplete(r) == seen[r] = "complete"

\* The insertion commits; a project that was complete is reconciled next.
InsertContribution(r) ==
    LET c == draft[r].contribution
    IN  /\ pc[r] = "creating"
        /\ MayInsert(c)
        /\ row' = [row EXCEPT ![c] = NewRow(draft[r].value)]
        /\ IF FoundComplete(r)
           THEN /\ pc' = [pc EXCEPT ![r] = "published"]
                /\ job' = [job EXCEPT ![r] = ProjectOf[c]]
                /\ draft' = [draft EXCEPT ![r] = NoDraft]
                /\ seen' = [seen EXCEPT ![r] = "open"]
                /\ UNCHANGED todo
           ELSE EndRequest(r)
        /\ UNCHANGED <<project, indicator, balance, rowLock, decision, lost>>

RefuseInsertion(r) ==
    /\ pc[r] = "creating"
    /\ ~MayInsert(draft[r].contribution)
    /\ EndRequest(r)
    /\ UNCHANGED <<project, metrics, rowLock, decision, lost>>

\* update and remove: the contribution and its indicator are read before the
\* transaction.
BeginAlter(r, c) ==
    /\ "alter" \in Operations
    /\ pc[r] = "idle"
    /\ Live(c)
    /\ indicator[IndicatorOf[c]].live
    /\ pc' = [pc EXCEPT ![r] = "altering"]
    /\ draft' = [draft EXCEPT ![r].contribution = c]
    /\ UNCHANGED <<project, metrics, rowLock, decision, job, seen, todo, lost>>

\* assertNotApplied, on the row read again under its lock.
MayAlter(c) == Live(c) /\ ~Applied(c)

UpdateContribution(r, v) ==
    LET c == draft[r].contribution
    IN  /\ pc[r] = "altering"
        /\ RowFree(c)
        /\ MayAlter(c)
        /\ row' = [row EXCEPT ![c].value = v]
        /\ EndRequest(r)
        /\ UNCHANGED <<project, indicator, balance, rowLock, decision, lost>>

RemoveContribution(r) ==
    LET c == draft[r].contribution
    IN  /\ pc[r] = "altering"
        /\ RowFree(c)
        /\ MayAlter(c)
        /\ row' = [row EXCEPT ![c] = [NoRow EXCEPT !.status = "gone"]]
        /\ EndRequest(r)
        /\ UNCHANGED <<project, indicator, balance, rowLock, decision, lost>>

RefuseAlter(r) ==
    LET c == draft[r].contribution
    IN  /\ pc[r] = "altering"
        /\ RowFree(c)
        /\ ~MayAlter(c)
        /\ EndRequest(r)
        /\ UNCHANGED <<project, metrics, rowLock, decision, lost>>

\* update of an indicator: the row is read before the transaction, and every
\* column is written back, the link mode too when the request names none.
BeginEdit(r, i, feeds) ==
    /\ "edit" \in Operations
    /\ pc[r] = "idle"
    /\ indicator[i].live
    /\ pc' = [pc EXCEPT ![r] = "editing"]
    /\ draft' = [draft EXCEPT ![r].indicator = i, ![r].from = indicator[i].feeds,
                              ![r].to = feeds]
    /\ UNCHANGED <<project, metrics, rowLock, decision, job, seen, todo, lost>>

\* assertNoLinkedProjects, when the link mode differs from the one it read.
\* (Or not asserted.)
MayAlwaysEdit(r) == TRUE
MayEdit(r) == draft[r].to # draft[r].from => ~Linked(draft[r].indicator)

CommitEdit(r) ==
    /\ pc[r] = "editing"
    /\ MayEdit(r)
    /\ indicator' = [indicator EXCEPT ![draft[r].indicator].feeds = draft[r].to]
    /\ EndRequest(r)
    /\ UNCHANGED <<project, rows, lost>>

RefuseEdit(r) ==
    /\ pc[r] = "editing"
    /\ ~MayEdit(r)
    /\ EndRequest(r)
    /\ UNCHANGED <<project, metrics, rowLock, decision, lost>>

DeleteIndicator(r, i) ==
    /\ "deleteIndicator" \in Operations
    /\ pc[r] = "idle"
    /\ indicator[i].live
    /\ ~Linked(i)
    /\ indicator' = [indicator EXCEPT ![i].live = FALSE]
    /\ UNCHANGED <<project, rows, request, lost>>

-----------------------------------------------------------------------------
Call(r) ==
    \/ \E p \in Projects : \/ CompleteProject(r, p) \/ ReopenProject(r, p)
                           \/ DeleteProject(r, p) \/ ChangeProgress(r, p)
    \/ \E c \in Contributions, v \in Values : BeginCreate(r, c, v)
    \/ \E c \in Contributions : BeginAlter(r, c)
    \/ \E i \in Indicators, feeds \in BOOLEAN : BeginEdit(r, i, feeds)
    \/ \E i \in Indicators : DeleteIndicator(r, i)

Proceed(r) ==
    \/ ReadProject(r) \/ ListContributions(r) \/ CommitReconciliation(r)
    \/ InsertContribution(r) \/ RefuseInsertion(r)
    \/ CommitEdit(r) \/ RefuseEdit(r)

\* The steps that wait for the lock of a row.
Acquire(r) ==
    \/ LockContribution(r)
    \/ \E v \in Values : UpdateContribution(r, v)
    \/ RemoveContribution(r) \/ RefuseAlter(r)

Next ==
    \E r \in Requests : Call(r) \/ Proceed(r) \/ Acquire(r) \/ Fail(r)

Spec == Init /\ [][Next]_vars

\* A request that can go on does; a row lock is granted in the order of the
\* requests that wait for it.
Fairness == \A r \in Requests : WF_vars(Proceed(r)) /\ SF_vars(Acquire(r))

FairSpec == Spec /\ Fairness

-----------------------------------------------------------------------------
\* Every variable holds a value of its type; a live row is worth something.
TypeOK ==
    /\ project \in [Projects -> ProjectState]
    /\ indicator \in [Indicators -> [live : BOOLEAN, feeds : BOOLEAN]]
    /\ row \in [Contributions -> Row]
    /\ \A c \in Contributions : Live(c) => row[c].value \in Values
    /\ balance \in [Contributions -> Int]
    /\ rowLock \in [Contributions -> Requests \cup {Nobody}]
    /\ decision \in [Contributions -> Decisions]
    /\ pc \in [Requests -> PC]
    /\ job \in [Requests -> Projects]
    /\ seen \in [Requests -> ProjectState]
    /\ todo \in [Requests -> SUBSET Contributions]
    /\ draft \in [Requests -> Draft]
    /\ lost \subseteq Projects

\* RN-P13, "dos reconciliaciones concurrentes no duplican la carga": the
\* automatic entries of a contribution sum to what its row says is applied,
\* whatever reconciliations ran, failed or overlapped, and to the value it
\* shows, for an applied contribution is not edited.
AppliedOnce ==
    \A c \in Contributions : Live(c) =>
        /\ balance[c] = row[c].applied
        /\ Applied(c) => row[c].applied = row[c].value

\* The rows are of their types, and the series of the metrics hold of each
\* contribution what its row says.
EntriesSound == TypeOK /\ AppliedOnce

\* Every contribution keeps the promise of its ledger: the requests of this
\* module, however they overlap and fail, post a worth once, compensate what
\* was posted and never edit a posted worth.
Ledger == INSTANCE ContributionLedger WITH
              Worths <- Values, Nothing <- NotApplied,
              worth <- [c \in Contributions |-> row[c].value], posted <- balance
LedgersKept == Ledger!Spec

\* Reconciliations of the same rows wait for each other and end.
EveryRequestEnds == \A r \in Requests : pc[r] # "idle" ~> pc[r] = "idle"
=============================================================================
