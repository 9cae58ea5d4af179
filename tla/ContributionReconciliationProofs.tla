------------------ MODULE ContributionReconciliationProofs ------------------
(***************************************************************************)
(* Proofs about ContributionReconciliation, for any projects, indicators,  *)
(* contributions, values and requests, whatever operations are used and    *)
(* whether or not listeners fail.                                          *)
(***************************************************************************)
EXTENDS ContributionReconciliation, WellFoundedInduction, TLAPS

-----------------------------------------------------------------------------
(***************************************************************************)
(* Types.                                                                  *)
(***************************************************************************)
LEMMA Placeholders ==
    /\ NoJob \in Projects
    /\ NoDraft \in Draft
    /\ NoRow \in Row /\ [NoRow EXCEPT !.status = "gone"] \in Row
    /\ \A v \in Values : NewRow(v) \in Row
    /\ NotApplied \notin Values /\ Values \subseteq Int
<1>1. PICK c \in Contributions, v \in Values : TRUE
  BY PairAssumption, ValuesAssumption
<1>2. ProjectOf[c] \in Projects /\ IndicatorOf[c] \in Indicators
  BY PairAssumption
<1>3. NoJob \in Projects
  BY <1>2 DEF NoJob
<1>4. [contribution |-> c, value |-> v, indicator |-> IndicatorOf[c],
       from |-> FALSE, to |-> FALSE] \in Draft
  BY <1>2 DEF Draft
<1>5. \E d \in Draft : d.from = FALSE /\ d.to = FALSE
  BY <1>4
<1>6. NoDraft \in Draft
  BY <1>5 DEF NoDraft
<1> QED
  BY <1>3, <1>6, ValuesAssumption DEF NoRow, NewRow, Row, NotApplied

\* The locals of a request that is over.
LEMMA EndRequestType ==
    ASSUME TypeOK, NEW r \in Requests, EndRequest(r)
    PROVE  /\ pc' \in [Requests -> PC] /\ job' \in [Requests -> Projects]
           /\ seen' \in [Requests -> ProjectState]
           /\ todo' \in [Requests -> SUBSET Contributions]
           /\ draft' \in [Requests -> Draft]
BY Placeholders DEF EndRequest, TypeOK, PC, ProjectState

LEMMA ReleaseType ==
    ASSUME TypeOK, NEW r \in Requests, Release(r)
    PROVE  /\ rowLock' \in [Contributions -> Requests \cup {Nobody}]
           /\ decision' \in [Contributions -> Decisions]
BY DEF Release, TypeOK, Decisions

LEMMA InitType == Init => TypeOK
BY Placeholders DEF Init, TypeOK, PC, ProjectState, Decisions, Live, NoRow

\* What is posted and written for a row at a commit.
LEMMA CommitType ==
    ASSUME TypeOK, NEW c \in Contributions
    PROVE  /\ EntryOf(c) \in Int
           /\ RowAfter(c) \in Row
           /\ RowAfter(c).status = row[c].status /\ RowAfter(c).value = row[c].value
<1>1. row[c] \in Row /\ row[c].value \in Int /\ row[c].applied \in Int
  <2>1. row[c] \in Row
    BY DEF TypeOK
  <2>2. Values \cup {NotApplied} \subseteq Int
    BY ValuesAssumption DEF NotApplied
  <2> QED
    BY <2>1, <2>2 DEF Row
<1>2. EntryOf(c) \in Int
  BY <1>1 DEF EntryOf
<1>3. ASSUME NEW a \in Values \cup {NotApplied}
      PROVE  /\ [row[c] EXCEPT !.applied = a] \in Row
             /\ [row[c] EXCEPT !.applied = a].status = row[c].status
             /\ [row[c] EXCEPT !.applied = a].value = row[c].value
  BY <1>1, <1>3 DEF Row
<1>4. row[c].value \in Values \cup {NotApplied}
  BY <1>1 DEF Row
<1> QED
  BY <1>1, <1>2, <1>3, <1>4 DEF RowAfter

LEMMA NextType == TypeOK /\ [Next]_vars => TypeOK'
<1> SUFFICES ASSUME TypeOK, [Next]_vars PROVE TypeOK'
  OBVIOUS
<1> USE Placeholders
<1>1. CASE UNCHANGED vars
  BY <1>1 DEF vars, metrics, request, TypeOK, Live
<1>2. ASSUME NEW r \in Requests, Call(r) PROVE TypeOK'
  <2>1. ASSUME NEW p \in Projects, NEW state \in ProjectState,
               CommitAndPublish(r, p, state)
        PROVE  TypeOK'
    BY <2>1 DEF CommitAndPublish, TypeOK, Live, metrics, PC
  <2>2. ASSUME NEW p \in Projects,
               CompleteProject(r, p) \/ ReopenProject(r, p) \/ DeleteProject(r, p)
        PROVE  TypeOK'
    BY <2>1, <2>2 DEF CompleteProject, ReopenProject, DeleteProject, ProjectState
  <2>3. ASSUME NEW p \in Projects, ChangeProgress(r, p) PROVE TypeOK'
    BY <2>3 DEF ChangeProgress, TypeOK, Live, metrics, request
  <2>4. ASSUME NEW c \in Contributions, NEW v \in Values, BeginCreate(r, c, v)
        PROVE  TypeOK'
    <3>1. project[ProjectOf[c]] \in ProjectState
      BY PairAssumption DEF TypeOK
    <3>2. [draft[r] EXCEPT !.contribution = c, !.value = v] \in Draft
      BY DEF TypeOK, Draft
    <3> QED
      BY <2>4, <3>1, <3>2 DEF BeginCreate, TypeOK, Live, metrics, PC
  <2>5. ASSUME NEW c \in Contributions, BeginAlter(r, c) PROVE TypeOK'
    <3>1. [draft[r] EXCEPT !.contribution = c] \in Draft
      BY DEF TypeOK, Draft
    <3> QED
      BY <2>5, <3>1 DEF BeginAlter, TypeOK, Live, metrics, PC
  <2>6. ASSUME NEW i \in Indicators, NEW feeds \in BOOLEAN, BeginEdit(r, i, feeds)
        PROVE  TypeOK'
    <3>1. indicator[i].feeds \in BOOLEAN
      BY DEF TypeOK
    <3>2. [draft[r] EXCEPT !.indicator = i, !.from = indicator[i].feeds, !.to = feeds]
             \in Draft
      BY <3>1 DEF TypeOK, Draft
    <3> QED
      BY <2>6, <3>1, <3>2 DEF BeginEdit, TypeOK, Live, metrics, PC
  <2>7. ASSUME NEW i \in Indicators, DeleteIndicator(r, i) PROVE TypeOK'
    BY <2>7 DEF DeleteIndicator, TypeOK, Live, rows, request
  <2> QED
    BY <1>2, <2>2, <2>3, <2>4, <2>5, <2>6, <2>7 DEF Call
<1>3. ASSUME NEW r \in Requests, Proceed(r) PROVE TypeOK'
  <2>1. CASE ReadProject(r)
    BY <2>1 DEF ReadProject, TypeOK, Live, metrics, PC
  <2>2. CASE ListContributions(r)
    BY <2>2 DEF ListContributions, TypeOK, Live, metrics, PC
  <2>3. CASE CommitReconciliation(r)
    <3>1. /\ balance' \in [Contributions -> Int]
          /\ row' \in [Contributions -> Row]
      BY <2>3, CommitType DEF CommitReconciliation, RowLeft, TypeOK
    <3>2. \A c \in Contributions : row'[c].status = "live" => row'[c].value \in Values
      BY <2>3, CommitType DEF CommitReconciliation, RowLeft, TypeOK, Live, NoRow
    <3> QED
      BY <2>3, <3>1, <3>2, EndRequestType, ReleaseType
      DEF CommitReconciliation, TypeOK, Live
  <2>4. CASE InsertContribution(r)
    <3> DEFINE c == draft[r].contribution
    <3>1. c \in Contributions /\ draft[r].value \in Values
      BY DEF TypeOK, Draft
    <3>2. /\ row' \in [Contributions -> Row]
          /\ \A d \in Contributions : row'[d].status = "live" => row'[d].value \in Values
      BY <2>4, <3>1 DEF InsertContribution, TypeOK, Live, NewRow
    <3>3. CASE FoundComplete(r)
      <4>1. ProjectOf[c] \in Projects
        BY <3>1, PairAssumption
      <4>2. /\ pc' = [pc EXCEPT ![r] = "published"]
            /\ job' = [job EXCEPT ![r] = ProjectOf[c]]
            /\ draft' = [draft EXCEPT ![r] = NoDraft]
            /\ seen' = [seen EXCEPT ![r] = "open"]
            /\ UNCHANGED <<todo, project, indicator, balance, rowLock, decision, lost>>
        BY <2>4, <3>3 DEF InsertContribution
      <4> HIDE DEF c
      <4> QED
        BY <3>2, <4>1, <4>2 DEF TypeOK, Live, PC, ProjectState
    <3>4. CASE ~FoundComplete(r)
      BY <2>4, <3>2, <3>4, EndRequestType DEF InsertContribution, TypeOK, Live
    <3> QED
      BY <3>3, <3>4
  <2>5. CASE RefuseInsertion(r)
    BY <2>5, EndRequestType DEF RefuseInsertion, TypeOK, Live, metrics
  <2>6. CASE CommitEdit(r)
    <3>1. draft[r].indicator \in Indicators /\ draft[r].to \in BOOLEAN
      BY DEF TypeOK, Draft
    <3>2. indicator' \in [Indicators -> [live : BOOLEAN, feeds : BOOLEAN]]
      BY <2>6, <3>1 DEF CommitEdit, TypeOK
    <3> QED
      BY <2>6, <3>2, EndRequestType DEF CommitEdit, TypeOK, Live, rows
  <2>7. CASE RefuseEdit(r)
    BY <2>7, EndRequestType DEF RefuseEdit, TypeOK, Live, metrics
  <2> QED
    BY <1>3, <2>1, <2>2, <2>3, <2>4, <2>5, <2>6, <2>7 DEF Proceed
<1>4. ASSUME NEW r \in Requests, Acquire(r) PROVE TypeOK'
  <2>1. CASE LockContribution(r)
    <3> DEFINE c == NextRow(r)
    <3>1. Due(c, seen[r]) \in Decisions
      BY DEF Due, Decisions
    <3>2. /\ rowLock' \in [Contributions -> Requests \cup {Nobody}]
          /\ decision' \in [Contributions -> Decisions]
      <4> HIDE DEF c
      <4>1. \/ rowLock' = [rowLock EXCEPT ![c] = r]
               /\ decision' = [decision EXCEPT ![c] = Due(c, seen[r])]
            \/ UNCHANGED <<rowLock, decision>>
        BY <2>1 DEF LockContribution, c
      <4> QED
        BY <3>1, <4>1 DEF TypeOK
    <3>3. todo' \in [Requests -> SUBSET Contributions]
      BY <2>1 DEF LockContribution, TypeOK
    <3> QED
      BY <2>1, <3>2, <3>3 DEF LockContribution, TypeOK, Live, metrics
  <2>2. ASSUME NEW v \in Values, UpdateContribution(r, v) PROVE TypeOK'
    <3> DEFINE d == draft[r].contribution
    <3>1. row' = [row EXCEPT ![d].value = v]
      BY <2>2 DEF UpdateContribution
    <3>2. ASSUME NEW x \in Row
          PROVE  [x EXCEPT !.value = v] \in Row /\ [x EXCEPT !.value = v].value = v
      BY DEF Row
    <3>3. /\ row' \in [Contributions -> Row]
          /\ \A c \in Contributions : row'[c].status = "live" => row'[c].value \in Values
      <4> HIDE DEF d
      <4> QED
        BY <3>1, <3>2 DEF TypeOK, Live
    <3> QED
      BY <2>2, <3>3, EndRequestType DEF UpdateContribution, TypeOK, Live
  <2>3. CASE RemoveContribution(r)
    <3>1. /\ row' \in [Contributions -> Row]
          /\ \A c \in Contributions : row'[c].status = "live" => row'[c].value \in Values
      BY <2>3 DEF RemoveContribution, TypeOK, Live, NoRow
    <3> QED
      BY <2>3, <3>1, EndRequestType DEF RemoveContribution, TypeOK, Live
  <2>4. CASE RefuseAlter(r)
    BY <2>4, EndRequestType DEF RefuseAlter, TypeOK, Live, metrics
  <2> QED
    BY <1>4, <2>1, <2>2, <2>3, <2>4 DEF Acquire
<1>5. ASSUME NEW r \in Requests, Fail(r) PROVE TypeOK'
  <2>1. lost' \subseteq Projects
    BY <1>5 DEF Fail, TypeOK
  <2> QED
    BY <1>5, <2>1, EndRequestType, ReleaseType DEF Fail, TypeOK, Live, metrics
<1> QED
  BY <1>1, <1>2, <1>3, <1>4, <1>5 DEF Next

\* Every step keeps the types of the rows, the requests and the locks of a
\* reconciliation.
THEOREM ContributionTypes == Spec => []TypeOK
<1>1. Init => TypeOK
  BY InitType
<1>2. TypeOK /\ [Next]_vars => TypeOK'
  BY NextType
<1> QED
  BY <1>1, <1>2, PTL DEF Spec

-----------------------------------------------------------------------------
(***************************************************************************)
(* The entries of a contribution.                                          *)
(*                                                                         *)
(* AppliedOnce is not inductive: a commit posts what was decided when the  *)
(* row was locked.  It stands because a locked row does not change, a      *)
(* decision to apply was taken on a row that was not applied by a request  *)
(* that saw its project complete, and a creation writes a row that no one  *)
(* else has written.                                                       *)
(***************************************************************************)
LockedRowsStand ==
    \A c \in Contributions :
        rowLock[c] # Nobody => Live(c) /\ pc[rowLock[c]] = "locking"
DecisionsStand ==
    \A c \in Contributions :
        rowLock[c] # Nobody /\ decision[c] = "apply" =>
            ~Applied(c) /\ seen[rowLock[c]] = "complete"
AbsentIsUnposted ==
    \A c \in Contributions : row[c].status = "absent" => balance[c] = 0
CreatesFresh ==
    \A r \in Requests : pc[r] = "creating" =>
        /\ row[draft[r].contribution].status = "absent"
        /\ \A q \in Requests : pc[q] = "creating" /\ q # r =>
               draft[q].contribution # draft[r].contribution
LedgerInv ==
    /\ TypeOK
    /\ LockedRowsStand
    /\ DecisionsStand
    /\ AbsentIsUnposted
    /\ CreatesFresh
    /\ AppliedOnce

LEMMA InitLedger == Init => LedgerInv
<1> SUFFICES ASSUME Init PROVE LedgerInv
  OBVIOUS
<1>1. TypeOK
  BY InitType
<1>2. AppliedOnce
  BY DEF Init, AppliedOnce, Live, NoRow
<1> QED
  BY <1>1, <1>2
  DEF Init, LedgerInv, LockedRowsStand, DecisionsStand, AbsentIsUnposted, CreatesFresh

\* A step that writes no row and begins no creation, of a request that holds
\* no row.
LEMMA NoRowWritten ==
    ASSUME LedgerInv, TypeOK', NEW r \in Requests,
           UNCHANGED <<row, balance, rowLock, decision>>,
           \A q \in Requests \ {r} : UNCHANGED <<pc[q], draft[q], seen[q]>>,
           pc[r] # "locking", pc'[r] # "creating"
    PROVE  LedgerInv'
<1>1. LockedRowsStand'
  BY DEF LedgerInv, LockedRowsStand, Live, TypeOK
<1>2. DecisionsStand'
  BY DEF LedgerInv, LockedRowsStand, DecisionsStand, Applied, TypeOK
<1>3. AbsentIsUnposted' /\ AppliedOnce'
  BY DEF LedgerInv, AbsentIsUnposted, AppliedOnce, Live, Applied
<1>4. CreatesFresh'
  BY DEF LedgerInv, CreatesFresh, TypeOK
<1> QED
  BY <1>1, <1>2, <1>3, <1>4 DEF LedgerInv

\* A step of a request that holds no row, which writes one row nobody holds.
LEMMA OneRowWritten ==
    ASSUME LedgerInv, TypeOK', NEW r \in Requests, NEW c \in Contributions,
           NEW x \in Row,
           UNCHANGED <<balance, rowLock, decision>>,
           row' = [row EXCEPT ![c] = x],
           rowLock[c] = Nobody, x.status # "absent", balance[c] = 0,
           x.applied = NotApplied,
           \A q \in Requests \ {r} : UNCHANGED <<pc[q], draft[q], seen[q]>>,
           pc[r] # "locking", pc'[r] # "creating",
           \A q \in Requests \ {r} : pc[q] = "creating" => draft[q].contribution # c
    PROVE  LedgerInv'
<1>1. LockedRowsStand'
  BY DEF LedgerInv, LockedRowsStand, Live, TypeOK
<1>2. DecisionsStand'
  BY DEF LedgerInv, LockedRowsStand, DecisionsStand, Applied, TypeOK
<1>3. AbsentIsUnposted'
  BY DEF LedgerInv, AbsentIsUnposted, TypeOK
<1>4. AppliedOnce'
  BY DEF LedgerInv, AppliedOnce, Live, Applied, TypeOK, NotApplied
<1>5. CreatesFresh'
  <2>1. \A q \in Requests : pc'[q] = "creating" =>
            q # r /\ pc[q] = "creating" /\ draft'[q] = draft[q]
    OBVIOUS
  <2>2. \A d \in Contributions \ {c} : row'[d] = row[d]
    BY DEF LedgerInv, TypeOK
  <2>3. \A q \in Requests : draft[q].contribution \in Contributions
    BY DEF LedgerInv, TypeOK, Draft
  <2> QED
    BY <2>1, <2>2, <2>3 DEF LedgerInv, CreatesFresh
<1> QED
  BY <1>1, <1>2, <1>3, <1>4, <1>5 DEF LedgerInv

LEMMA NextLedger == LedgerInv /\ [Next]_vars => LedgerInv'
<1> SUFFICES ASSUME LedgerInv, [Next]_vars PROVE LedgerInv'
  OBVIOUS
<1>0. TypeOK /\ TypeOK'
  BY NextType DEF LedgerInv
<1>1. CASE UNCHANGED vars
  BY <1>0, <1>1
  DEF vars, metrics, request, LedgerInv, LockedRowsStand, DecisionsStand,
      AbsentIsUnposted, CreatesFresh, AppliedOnce, Live, Applied
<1>2. ASSUME NEW r \in Requests, Call(r) PROVE LedgerInv'
  <2>1. ASSUME NEW p \in Projects, NEW state, CommitAndPublish(r, p, state)
        PROVE  LedgerInv'
    BY <2>1, <1>0, NoRowWritten DEF CommitAndPublish, metrics, TypeOK
  <2>2. ASSUME NEW p \in Projects,
               CompleteProject(r, p) \/ ReopenProject(r, p) \/ DeleteProject(r, p)
        PROVE  LedgerInv'
    BY <2>1, <2>2 DEF CompleteProject, ReopenProject, DeleteProject
  <2>3. ASSUME NEW p \in Projects, ChangeProgress(r, p) PROVE LedgerInv'
    BY <2>3, <1>0, NoRowWritten DEF ChangeProgress, metrics, request
  <2>4. ASSUME NEW c \in Contributions, NEW v \in Values, BeginCreate(r, c, v)
        PROVE  LedgerInv'
    <3>1. UNCHANGED <<row, balance, rowLock, decision>>
      BY <2>4 DEF BeginCreate, metrics
    <3>2. LockedRowsStand' /\ DecisionsStand'
      BY <2>4, <3>1, <1>0
      DEF BeginCreate, LedgerInv, LockedRowsStand, DecisionsStand, Live, Applied, TypeOK
    <3>3. AbsentIsUnposted' /\ AppliedOnce'
      BY <3>1 DEF LedgerInv, AbsentIsUnposted, AppliedOnce, Live, Applied
    <3>4. draft'[r].contribution = c
      BY <2>4, <1>0 DEF BeginCreate, TypeOK, Draft
    <3>5. CreatesFresh'
      BY <2>4, <3>1, <3>4, <1>0 DEF BeginCreate, FreshId, LedgerInv, CreatesFresh, TypeOK
    <3> QED
      BY <1>0, <3>2, <3>3, <3>5 DEF LedgerInv
  <2>5. ASSUME NEW c \in Contributions, BeginAlter(r, c) PROVE LedgerInv'
    BY <2>5, <1>0, NoRowWritten DEF BeginAlter, metrics, TypeOK
  <2>6. ASSUME NEW i \in Indicators, NEW feeds \in BOOLEAN, BeginEdit(r, i, feeds)
        PROVE  LedgerInv'
    BY <2>6, <1>0, NoRowWritten DEF BeginEdit, metrics, TypeOK
  <2>7. ASSUME NEW i \in Indicators, DeleteIndicator(r, i) PROVE LedgerInv'
    BY <2>7, <1>0, NoRowWritten DEF DeleteIndicator, rows, request
  <2> QED
    BY <1>2, <2>2, <2>3, <2>4, <2>5, <2>6, <2>7 DEF Call
<1>3. ASSUME NEW r \in Requests, Proceed(r) PROVE LedgerInv'
  <2>1. CASE ReadProject(r)
    BY <2>1, <1>0, NoRowWritten DEF ReadProject, metrics, TypeOK
  <2>2. CASE ListContributions(r)
    BY <2>2, <1>0, NoRowWritten DEF ListContributions, metrics, TypeOK
  <2>3. CASE CommitReconciliation(r)
    <3>1. ASSUME NEW c \in Contributions, rowLock[c] # r
          PROVE  /\ UNCHANGED <<row[c], balance[c], rowLock[c], decision[c]>>
                 /\ rowLock[c] # Nobody =>
                        UNCHANGED <<pc[rowLock[c]], seen[rowLock[c]]>>
      BY <2>3, <3>1, <1>0
      DEF CommitReconciliation, Locked, Release, EndRequest, TypeOK
    <3>2. ASSUME NEW c \in Contributions, rowLock[c] = r
          PROVE  /\ rowLock'[c] = Nobody /\ row'[c].status # "absent"
                 /\ row'[c].status = "live" =>
                        /\ balance'[c] = row'[c].applied
                        /\ row'[c].applied # NotApplied => row'[c].applied = row'[c].value
      <4>1. rowLock'[c] = Nobody
        BY <2>3, <3>2, <1>0 DEF CommitReconciliation, Release, TypeOK
      <4>2. Live(c) /\ balance[c] = row[c].applied
            /\ (Applied(c) => row[c].applied = row[c].value)
            /\ (decision[c] = "apply" => row[c].applied = 0)
        BY <3>2, SlotAssumption
        DEF LedgerInv, LockedRowsStand, DecisionsStand, AppliedOnce, Applied, NotApplied
      <4>3. /\ balance'[c] = balance[c] + EntryOf(c)
            /\ row'[c] = IF seen[r] = "deleted" THEN [NoRow EXCEPT !.status = "gone"]
                                                ELSE RowAfter(c)
        BY <2>3, <3>2 DEF CommitReconciliation, Locked, RowLeft
      <4>4. row[c] \in Row /\ row[c].applied \in Int /\ row[c].value \in Int
        <5>1. row[c] \in Row
          BY <1>0 DEF TypeOK
        <5>2. Values \cup {NotApplied} \subseteq Int
          BY ValuesAssumption DEF NotApplied
        <5> QED
          BY <5>1, <5>2 DEF Row
      <4>5. CASE seen[r] = "deleted"
        BY <4>1, <4>3, <4>5 DEF NoRow
      <4>6. CASE seen[r] # "deleted"
        <5>1. row'[c] = RowAfter(c) /\ RowAfter(c).status = "live"
              /\ RowAfter(c).value = row[c].value
          BY <1>0, <4>2, <4>3, <4>6, CommitType DEF Live
        <5>2. RowAfter(c).applied = IF decision[c] = "apply" THEN row[c].value
                                    ELSE IF decision[c] = "revert" THEN 0
                                    ELSE row[c].applied
          BY <4>4 DEF RowAfter, Row, NotApplied
        <5> QED
          BY <4>1, <4>2, <4>3, <4>4, <5>1, <5>2 DEF EntryOf, Applied, NotApplied
      <4> QED
        BY <4>5, <4>6
    <3>3. LockedRowsStand' /\ DecisionsStand'
      BY <3>1, <3>2, <1>0 DEF LedgerInv, LockedRowsStand, DecisionsStand, Live, Applied
    <3>4. AbsentIsUnposted' /\ AppliedOnce'
      BY <3>1, <3>2 DEF LedgerInv, AbsentIsUnposted, AppliedOnce, Live, Applied
    <3>5. \A q \in Requests : pc'[q] = "creating" =>
              q # r /\ pc[q] = "creating" /\ draft'[q] = draft[q]
      BY <2>3, <1>0 DEF CommitReconciliation, EndRequest, TypeOK
    <3>6. \A c \in Contributions : row[c].status = "absent" => row'[c].status = "absent"
      BY <3>1, SlotAssumption DEF LedgerInv, LockedRowsStand, Live
    <3>7. CreatesFresh'
      BY <3>5, <3>6, <1>0 DEF LedgerInv, CreatesFresh, TypeOK, Draft
    <3> QED
      BY <1>0, <3>3, <3>4, <3>7 DEF LedgerInv
  <2>4. CASE InsertContribution(r)
    <3> DEFINE c == draft[r].contribution
               x == NewRow(draft[r].value)
    <3>1. c \in Contributions /\ draft[r].value \in Values
      BY <1>0 DEF TypeOK, Draft
    <3>2. x \in Row /\ x.status = "live" /\ x.applied = NotApplied
      BY <3>1, Placeholders DEF NewRow
    <3>3. /\ row[c].status = "absent" /\ balance[c] = 0 /\ rowLock[c] = Nobody
          /\ \A q \in Requests \ {r} : pc[q] = "creating" => draft[q].contribution # c
      BY <2>4, <3>1 DEF InsertContribution, LedgerInv, CreatesFresh, AbsentIsUnposted,
                        LockedRowsStand, Live
    <3>4. /\ \A q \in Requests \ {r} : UNCHANGED <<pc[q], draft[q], seen[q]>>
          /\ pc'[r] # "creating" /\ pc[r] # "locking"
      BY <2>4, <1>0 DEF InsertContribution, EndRequest, TypeOK
    <3>5. row' = [row EXCEPT ![c] = x] /\ UNCHANGED <<balance, rowLock, decision>>
      BY <2>4 DEF InsertContribution
    <3> HIDE DEF c, x
    <3> QED
      BY <1>0, <3>1, <3>2, <3>3, <3>4, <3>5, OneRowWritten
  <2>5. CASE RefuseInsertion(r)
    BY <2>5, <1>0, NoRowWritten DEF RefuseInsertion, metrics, EndRequest, TypeOK
  <2>6. CASE CommitEdit(r)
    BY <2>6, <1>0, NoRowWritten DEF CommitEdit, rows, EndRequest, TypeOK
  <2>7. CASE RefuseEdit(r)
    BY <2>7, <1>0, NoRowWritten DEF RefuseEdit, metrics, EndRequest, TypeOK
  <2> QED
    BY <1>3, <2>1, <2>2, <2>3, <2>4, <2>5, <2>6, <2>7 DEF Proceed
<1>4. ASSUME NEW r \in Requests, Acquire(r) PROVE LedgerInv'
  <2>1. CASE LockContribution(r)
    <3> DEFINE c == NextRow(r)
    <3>1. UNCHANGED <<row, balance, pc, seen, draft>>
      BY <2>1 DEF LockContribution, metrics
    <3>2. AbsentIsUnposted' /\ AppliedOnce' /\ CreatesFresh'
      BY <3>1 DEF LedgerInv, AbsentIsUnposted, AppliedOnce, CreatesFresh, Live, Applied
    <3>3. CASE ~Live(c)
      BY <2>1, <3>1, <3>2, <3>3, <1>0
      DEF LockContribution, LedgerInv, LockedRowsStand, DecisionsStand, Live, Applied
    <3>4. CASE Live(c)
      <4>1. /\ pc[r] = "locking"
            /\ rowLock' = [rowLock EXCEPT ![c] = r]
            /\ decision' = [decision EXCEPT ![c] = Due(c, seen[r])]
        BY <2>1, <3>4 DEF LockContribution
      <4>2. Due(c, seen[r]) = "apply" => ~Applied(c) /\ seen[r] = "complete"
        BY DEF Due
      <4>3. /\ rowLock'[c] = r \/ c \notin Contributions
            /\ \A d \in Contributions : d # c => /\ rowLock'[d] = rowLock[d]
                                                 /\ decision'[d] = decision[d]
            /\ c \in Contributions => decision'[c] = Due(c, seen[r])
        BY <4>1, <1>0 DEF TypeOK
      <4> HIDE DEF c
      <4>4. LockedRowsStand'
        BY <3>1, <3>4, <4>1, <4>3 DEF LedgerInv, LockedRowsStand, Live
      <4>5. DecisionsStand'
        BY <3>1, <4>2, <4>3 DEF LedgerInv, DecisionsStand, Applied
      <4> QED
        BY <1>0, <3>2, <4>4, <4>5 DEF LedgerInv
    <3> QED
      BY <3>3, <3>4
  <2>2. ASSUME NEW v \in Values, UpdateContribution(r, v) PROVE LedgerInv'
    <3> DEFINE c == draft[r].contribution
               x == [row[c] EXCEPT !.value = v]
    <3>1. c \in Contributions
      BY <1>0 DEF TypeOK, Draft
    <3>2. Live(c) /\ ~Applied(c) /\ rowLock[c] = Nobody /\ pc[r] = "altering"
          /\ row' = [row EXCEPT ![c].value = v]
          /\ UNCHANGED <<balance, rowLock, decision>>
      BY <2>2 DEF UpdateContribution, MayAlter, RowFree
    <3>3. row[c] \in Row
      BY <1>0, <3>1 DEF TypeOK
    <3>4. x \in Row /\ x.status = row[c].status /\ x.applied = row[c].applied
      <4> DEFINE y == row[c]
      <4>1. y \in Row
        BY <3>3
      <4> HIDE DEF y
      <4>2. [y EXCEPT !.value = v] \in Row
            /\ [y EXCEPT !.value = v].status = y.status
            /\ [y EXCEPT !.value = v].applied = y.applied
        BY <4>1 DEF Row
      <4> QED
        BY <4>2 DEF y
    <3>5. balance[c] = 0 /\ x.applied = NotApplied /\ x.status # "absent"
      BY <3>1, <3>2, <3>4 DEF LedgerInv, AppliedOnce, Applied, Live, NotApplied
    <3>6. row' = [row EXCEPT ![c] = x]
      BY <3>2
    <3>7. /\ \A q \in Requests \ {r} : UNCHANGED <<pc[q], draft[q], seen[q]>>
          /\ pc'[r] # "creating" /\ pc[r] # "locking"
      BY <2>2, <1>0 DEF UpdateContribution, EndRequest, TypeOK
    <3>8. \A q \in Requests \ {r} : pc[q] = "creating" => draft[q].contribution # c
      BY <3>2 DEF LedgerInv, CreatesFresh, Live
    <3> HIDE DEF c, x
    <3> QED
      BY <1>0, <3>1, <3>2, <3>4, <3>5, <3>6, <3>7, <3>8, OneRowWritten
  <2>3. CASE RemoveContribution(r)
    <3> DEFINE c == draft[r].contribution
               x == [NoRow EXCEPT !.status = "gone"]
    <3>1. c \in Contributions
      BY <1>0 DEF TypeOK, Draft
    <3>2. Live(c) /\ ~Applied(c) /\ rowLock[c] = Nobody /\ pc[r] = "altering"
          /\ row' = [row EXCEPT ![c] = x]
          /\ UNCHANGED <<balance, rowLock, decision>>
      BY <2>3 DEF RemoveContribution, MayAlter, RowFree
    <3>3. x \in Row /\ x.status # "absent" /\ x.applied = NotApplied
      BY Placeholders DEF NoRow
    <3>4. balance[c] = 0
      BY <3>1, <3>2 DEF LedgerInv, AppliedOnce, Applied, NotApplied
    <3>5. /\ \A q \in Requests \ {r} : UNCHANGED <<pc[q], draft[q], seen[q]>>
          /\ pc'[r] # "creating" /\ pc[r] # "locking"
      BY <2>3, <1>0 DEF RemoveContribution, EndRequest, TypeOK
    <3>6. \A q \in Requests \ {r} : pc[q] = "creating" => draft[q].contribution # c
      BY <3>2 DEF LedgerInv, CreatesFresh, Live
    <3> HIDE DEF c, x
    <3> QED
      BY <1>0, <3>1, <3>2, <3>3, <3>4, <3>5, <3>6, OneRowWritten
  <2>4. CASE RefuseAlter(r)
    BY <2>4, <1>0, NoRowWritten DEF RefuseAlter, metrics, EndRequest, TypeOK
  <2> QED
    BY <1>4, <2>1, <2>2, <2>3, <2>4 DEF Acquire
<1>5. ASSUME NEW r \in Requests, Fail(r) PROVE LedgerInv'
  <2>1. UNCHANGED <<row, balance>>
    BY <1>5 DEF Fail, metrics
  <2>2. \A c \in Contributions : rowLock'[c] # Nobody =>
            rowLock'[c] = rowLock[c] /\ rowLock[c] # r /\ decision'[c] = decision[c]
    BY <1>5, <1>0 DEF Fail, Release, TypeOK
  <2>3. \A q \in Requests : q # r => UNCHANGED <<pc[q], seen[q], draft[q]>>
    BY <1>5, <1>0 DEF Fail, EndRequest, TypeOK
  <2>4. LockedRowsStand' /\ DecisionsStand'
    BY <2>1, <2>2, <2>3, <1>0
    DEF LedgerInv, LockedRowsStand, DecisionsStand, Live, Applied, TypeOK
  <2>5. AbsentIsUnposted' /\ AppliedOnce'
    BY <2>1 DEF LedgerInv, AbsentIsUnposted, AppliedOnce, Live, Applied
  <2>6. pc'[r] # "creating"
    BY <1>5, <1>0 DEF Fail, EndRequest, TypeOK
  <2>7. CreatesFresh'
    BY <2>1, <2>3, <2>6 DEF LedgerInv, CreatesFresh
  <2> QED
    BY <1>0, <2>4, <2>5, <2>7 DEF LedgerInv
<1> QED
  BY <1>1, <1>2, <1>3, <1>4, <1>5 DEF Next

\* RN-P13: no overlap of reconciliations, no failure and no edit makes the
\* entries of a contribution differ from what its row says is applied.
THEOREM EntriesMatchRows == Spec => []EntriesSound
<1>1. Init => LedgerInv
  BY InitLedger
<1>2. LedgerInv /\ [Next]_vars => LedgerInv'
  BY NextLedger
<1>3. LedgerInv => EntriesSound
  BY DEF LedgerInv, EntriesSound
<1> QED
  BY <1>1, <1>2, <1>3, PTL DEF Spec

-----------------------------------------------------------------------------
(***************************************************************************)
(* The reconciliation implements ContributionLedger.                       *)
(***************************************************************************)

\* A move of one contribution in the abstract ledger, on the rows.
Move(c) ==
    \/ balance[c] = 0 /\ balance'[c] = 0 /\ row'[c].value \in Values
    \/ /\ row[c].value # NotApplied /\ row'[c].value = row[c].value
       /\ balance[c] = 0 /\ balance'[c] = row[c].value
    \/ /\ row[c].value # NotApplied /\ row'[c].value = row[c].value
       /\ balance[c] = row[c].value /\ balance'[c] = 0
    \/ row'[c].value = NotApplied /\ balance'[c] = 0
    \/ row'[c].value = NotApplied /\ balance'[c] = balance[c]
    \/ row'[c].value = row[c].value /\ balance'[c] = balance[c]

LEMMA MovesAreLedgerSteps ==
    ASSUME \A c \in Contributions : Move(c)
    PROVE  Ledger!Next
BY DEF Ledger!Next, Ledger!Assign, Ledger!Post, Ledger!Compensate, Ledger!Withdraw,
       Ledger!Abandon, Ledger!Rest, Move

\* A commit posts, compensates or withdraws what it had decided.
LEMMA CommitMoves ==
    ASSUME LedgerInv, NEW r \in Requests, CommitReconciliation(r),
           NEW c \in Contributions
    PROVE  Move(c)
<1>1. CASE rowLock[c] # r
  BY <1>1 DEF CommitReconciliation, Locked, LedgerInv, TypeOK, Move
<1>2. CASE rowLock[c] = r
  <2>1. TypeOK
    BY DEF LedgerInv
  <2>2. /\ Live(c) /\ balance[c] = row[c].applied
        /\ Applied(c) => row[c].applied = row[c].value
        /\ decision[c] = "apply" => row[c].applied = 0 /\ seen[r] = "complete"
    BY <1>2, SlotAssumption
    DEF LedgerInv, LockedRowsStand, DecisionsStand, AppliedOnce, Applied, NotApplied
  <2>3. row[c].value \in Values /\ NotApplied \notin Values
    BY <2>1, <2>2, Placeholders DEF TypeOK
  <2>4. row[c].applied \in Int /\ row[c].value \in Int
    <3>1. row[c] \in Row
      BY <2>1 DEF TypeOK
    <3>2. Values \cup {NotApplied} \subseteq Int
      BY ValuesAssumption DEF NotApplied
    <3> QED
      BY <3>1, <3>2 DEF Row
  <2>5. balance'[c] = balance[c] + EntryOf(c)
    BY <1>2 DEF CommitReconciliation, Locked
  <2>6. EntryOf(c) = IF decision[c] = "apply" THEN row[c].value
                     ELSE IF decision[c] = "revert" THEN -row[c].applied ELSE 0
    BY DEF EntryOf
  <2>7. CASE seen[r] = "deleted"
    <3>1. row'[c].value = NotApplied
      BY <1>2, <2>7 DEF CommitReconciliation, Locked, RowLeft, NoRow
    <3>2. balance'[c] = 0 \/ balance'[c] = balance[c]
      BY <2>2, <2>4, <2>5, <2>6, <2>7
    <3> QED
      BY <3>1, <3>2 DEF Move
  <2>8. CASE seen[r] # "deleted"
    <3>1. row'[c].value = row[c].value
      BY <1>2, <2>1, <2>8, CommitType DEF CommitReconciliation, Locked, RowLeft
    <3>2. \/ balance[c] = 0 /\ balance'[c] = row[c].value
          \/ balance[c] = row[c].value /\ balance'[c] = 0
          \/ balance'[c] = balance[c]
      BY <2>2, <2>4, <2>5, <2>6 DEF Applied, NotApplied
    <3> QED
      BY <2>3, <3>1, <3>2 DEF Move
  <2> QED
    BY <2>7, <2>8
<1> QED
  BY <1>1, <1>2

LEMMA LedgerStep ==
    LedgerInv /\ [Next]_vars => [Ledger!Next]_(Ledger!ledger)
<1> SUFFICES ASSUME LedgerInv, [Next]_vars
             PROVE  Ledger!Next \/ UNCHANGED Ledger!ledger
  OBVIOUS
<1>0. TypeOK
  BY DEF LedgerInv
<1>1. ASSUME UNCHANGED <<row, balance>> PROVE UNCHANGED Ledger!ledger
  BY <1>1 DEF Ledger!ledger
<1>2. CASE UNCHANGED vars
  BY <1>1, <1>2 DEF vars, metrics
<1>3. ASSUME NEW r \in Requests, Call(r) PROVE UNCHANGED <<row, balance>>
  BY <1>3 DEF Call, CompleteProject, ReopenProject, DeleteProject, CommitAndPublish,
              ChangeProgress, BeginCreate, BeginAlter, BeginEdit, DeleteIndicator,
              metrics, rows
<1>4. ASSUME NEW r \in Requests, Proceed(r) PROVE Ledger!Next \/ UNCHANGED Ledger!ledger
  <2>1. CASE CommitReconciliation(r)
    BY <2>1, CommitMoves, MovesAreLedgerSteps
  <2>2. CASE InsertContribution(r)
    <3> DEFINE d == draft[r].contribution
    <3>1. d \in Contributions /\ draft[r].value \in Values
      BY <1>0 DEF TypeOK, Draft
    <3>2. row[d].status = "absent" /\ balance[d] = 0
      BY <2>2, <3>1 DEF InsertContribution, LedgerInv, CreatesFresh, AbsentIsUnposted
    <3>3. /\ row' = [row EXCEPT ![d] = NewRow(draft[r].value)]
          /\ UNCHANGED balance
      BY <2>2 DEF InsertContribution
    <3> HIDE DEF d
    <3>4. ASSUME NEW c \in Contributions PROVE Move(c)
      BY <1>0, <3>1, <3>2, <3>3 DEF Move, NewRow, TypeOK
    <3> QED
      BY <3>4, MovesAreLedgerSteps
  <2>3. CASE ReadProject(r) \/ ListContributions(r) \/ RefuseInsertion(r)
             \/ CommitEdit(r) \/ RefuseEdit(r)
    BY <1>1, <2>3
    DEF ReadProject, ListContributions, RefuseInsertion, CommitEdit, RefuseEdit,
        metrics, rows
  <2> QED
    BY <1>4, <2>1, <2>2, <2>3 DEF Proceed
<1>5. ASSUME NEW r \in Requests, Acquire(r) PROVE Ledger!Next \/ UNCHANGED Ledger!ledger
  <2> DEFINE d == draft[r].contribution
  <2>1. CASE LockContribution(r) \/ RefuseAlter(r)
    BY <1>1, <2>1 DEF LockContribution, RefuseAlter, metrics
  <2>2. ASSUME NEW v \in Values, UpdateContribution(r, v) PROVE Ledger!Next
    <3>1. d \in Contributions
      BY <1>0 DEF TypeOK, Draft
    <3>2. /\ Live(d) /\ ~Applied(d)
          /\ row' = [row EXCEPT ![d].value = v] /\ UNCHANGED balance
      BY <2>2 DEF UpdateContribution, MayAlter
    <3>3. balance[d] = 0
      BY <3>1, <3>2 DEF LedgerInv, AppliedOnce, Applied, NotApplied
    <3>4. row[d] \in Row
      BY <1>0, <3>1 DEF TypeOK
    <3> HIDE DEF d
    <3>5. /\ row'[d].value = v
          /\ \A c \in Contributions \ {d} : row'[c] = row[c]
      BY <1>0, <3>1, <3>2, <3>4 DEF TypeOK, Row
    <3>6. ASSUME NEW c \in Contributions PROVE Move(c)
      BY <3>2, <3>3, <3>5 DEF Move
    <3> QED
      BY <3>6, MovesAreLedgerSteps
  <2>3. CASE RemoveContribution(r)
    <3>1. d \in Contributions
      BY <1>0 DEF TypeOK, Draft
    <3>2. row' = [row EXCEPT ![d] = [NoRow EXCEPT !.status = "gone"]] /\ UNCHANGED balance
      BY <2>3 DEF RemoveContribution
    <3> HIDE DEF d
    <3>3. ASSUME NEW c \in Contributions PROVE Move(c)
      BY <1>0, <3>1, <3>2 DEF Move, NoRow, TypeOK
    <3> QED
      BY <3>3, MovesAreLedgerSteps
  <2> QED
    BY <1>5, <2>1, <2>2, <2>3 DEF Acquire
<1>6. ASSUME NEW r \in Requests, Fail(r) PROVE UNCHANGED <<row, balance>>
  BY <1>6 DEF Fail, metrics
<1> QED
  BY <1>1, <1>2, <1>3, <1>4, <1>5, <1>6 DEF Next

\* RN-P13, RN-C6: whatever requests overlap and fail, every contribution is
\* posted at its worth at most once, is compensated by exactly what was
\* posted and is not edited while it is posted.
THEOREM Refinement == Spec => LedgersKept
<1>1. Init => Ledger!Init
  BY DEF Init, Ledger!Init, NoRow
<1>2. Init => LedgerInv
  BY InitLedger
<1>3. LedgerInv /\ [Next]_vars => LedgerInv'
  BY NextLedger
<1>4. LedgerInv /\ [Next]_vars => [Ledger!Next]_(Ledger!ledger)
  BY LedgerStep
<1> QED
  BY <1>1, <1>2, <1>3, <1>4, PTL DEF Spec, LedgersKept, Ledger!Spec

-----------------------------------------------------------------------------
(***************************************************************************)
(* What the rows of the contributions say of their projects, when requests *)
(* come one after another.                                                 *)
(*                                                                         *)
(* A contribution is applied exactly when its project is complete, but for *)
(* the project a request is reconciling.  The invariant that keeps it so   *)
(* follows that request: what it has read of the project and listed of its *)
(* contributions still stands when it commits, and the indicators of the   *)
(* rows it settles are there to be loaded (RowsAreFed), which edits and    *)
(* deletions of indicators see to.                                         *)
(***************************************************************************)
Reconciling(r) == pc[r] \in {"published", "read", "locking"}

\* A contribution is applied exactly when its project is complete.
Settled(c) ==
    /\ project[ProjectOf[c]] # "deleted"
    /\ Applied(c) <=> project[ProjectOf[c]] = "complete"

\* The rows of a project nobody is reconciling are settled, unless its last
\* reconciliation failed.
RowsFollow ==
    \A c \in Contributions :
        /\ Live(c) /\ ProjectOf[c] \notin lost
        /\ \A r \in Requests : Reconciling(r) => job[r] # ProjectOf[c]
        => Settled(c)

\* A live contribution of a project is for an indicator that projects feed.
RowsAreFed ==
    \A c \in Contributions : Live(c) /\ project[ProjectOf[c]] # "deleted" => Feeds(IndicatorOf[c])

\* A removed contribution left no entry.
GoneIsUnposted == \A c \in Contributions : row[c].status = "gone" => balance[c] = 0

\* What a request has read, listed and decided still holds.
LocalsAreFresh ==
    \A r \in Requests :
        /\ pc[r] \in {"read", "locking"} => seen[r] = project[job[r]]
        /\ Reconciling(r) => \A c \in Contributions :
               Live(c) /\ ProjectOf[c] = job[r] => indicator[IndicatorOf[c]].live
        /\ pc[r] = "locking" =>
               \A c \in Contributions :
                   /\ Live(c) /\ ProjectOf[c] = job[r] <=> c \in todo[r] \/ rowLock[c] = r
                   /\ rowLock[c] = r => decision[c] = Due(c, seen[r])
        /\ pc[r] = "creating" =>
               /\ seen[r] = project[ProjectOf[draft[r].contribution]]
               /\ seen[r] # "deleted"
        /\ pc[r] = "editing" => draft[r].from = indicator[draft[r].indicator].feeds

FollowInv ==
    /\ RowsFollow
    /\ RowsAreFed
    /\ GoneIsUnposted
    /\ LocalsAreFresh

\* Requests are served one after another.
OneSlot == \A r, q \in Requests : r = q

\* The row taken next is one of those to do.
LEMMA NextRowIn ==
    ASSUME NEW r \in Requests, TypeOK, todo[r] # {}
    PROVE  NextRow(r) \in todo[r]
<1>1. todo[r] \subseteq Nat
  BY PairAssumption DEF TypeOK
<1> DEFINE Less == OpToRel(<, Nat)
<1>2. \A d \in Nat, c \in Nat : d < c => <<d, c>> \in Less
  BY DEF OpToRel
<1>3. IsWellFoundedOn(Less, Nat)
  BY NatLessThanWellFounded
<1> HIDE DEF Less
<1>4. PICK c \in todo[r] : \A d \in todo[r] : <<d, c>> \notin Less
  BY <1>1, <1>3, WFMin
<1>5. ASSUME NEW d \in todo[r] PROVE c <= d
  <2>1. d \in Nat /\ c \in Nat
    BY <1>1
  <2>2. ~(d < c)
    BY <1>2, <1>4, <2>1
  <2> QED
    BY <2>1, <2>2
<1> QED
  BY <1>5 DEF NextRow

\* At the start there is no contribution.
LEMMA FollowInit == Init => FollowInv
BY DEF Init, FollowInv, RowsFollow, RowsAreFed, GoneIsUnposted, LocalsAreFresh,
       Live, NoRow, Reconciling

\* Every step of a request served alone keeps the rows at what their projects
\* say (ProjectContributionApplier.reconcile, with assertNoLinkedProjects for the
\* indicators); a change of progress that forgets a failed reconciliation is
\* not a step of these requests.
LEMMA FollowNext ==
    ASSUME OneSlot, "change" \notin Operations
    PROVE  LedgerInv /\ FollowInv /\ [Next]_vars => FollowInv'
<1> SUFFICES ASSUME LedgerInv, FollowInv, [Next]_vars PROVE FollowInv'
  OBVIOUS
<1>0. TypeOK /\ TypeOK'
  BY NextType DEF LedgerInv
<1>a. /\ \A c \in Contributions : ProjectOf[c] \in Projects /\ IndicatorOf[c] \in Indicators
      /\ Nobody \notin Requests
  BY PairAssumption, SlotAssumption
<1>1. CASE UNCHANGED vars
  BY <1>1
  DEF vars, metrics, request, FollowInv, RowsFollow, RowsAreFed, GoneIsUnposted,
      LocalsAreFresh, Live, Applied, Feeds, Settled, Reconciling, Due
<1>2. ASSUME NEW r \in Requests, Call(r) PROVE FollowInv'
  <2>1. ASSUME NEW p \in Projects, NEW state \in ProjectState,
               CommitAndPublish(r, p, state), project[p] # "deleted"
        PROVE  FollowInv'
    <3>1. /\ pc'[r] = "published" /\ job'[r] = p /\ lost' = lost \ {p}
          /\ \A q \in Projects \ {p} : project'[q] = project[q]
          /\ UNCHANGED <<row, balance, indicator>>
          /\ \A q \in Requests : q = r
      BY <1>0, <2>1 DEF CommitAndPublish, TypeOK, metrics, OneSlot
    <3>2. \A q \in Requests : ~Reconciling(q)
      BY <2>1, <3>1 DEF CommitAndPublish, Reconciling
    <3>3. RowsFollow'
      BY <3>1, <3>2, <1>a DEF FollowInv, RowsFollow, Settled, Live, Applied, Reconciling
    <3>4. RowsAreFed'
      BY <2>1, <3>1, <1>a DEF FollowInv, RowsAreFed, Live, Feeds
    <3>5. GoneIsUnposted'
      BY <3>1 DEF FollowInv, GoneIsUnposted
    <3>6. LocalsAreFresh'
      BY <2>1, <3>1, <1>a DEF FollowInv, RowsAreFed, LocalsAreFresh, Live, Feeds, Reconciling
    <3> QED
      BY <3>3, <3>4, <3>5, <3>6 DEF FollowInv
  <2>2. ASSUME NEW p \in Projects,
               CompleteProject(r, p) \/ ReopenProject(r, p) \/ DeleteProject(r, p)
        PROVE  FollowInv'
    BY <2>1, <2>2 DEF CompleteProject, ReopenProject, DeleteProject, ProjectState
  <2>3. ASSUME NEW p \in Projects, ChangeProgress(r, p) PROVE FollowInv'
    BY <2>3 DEF ChangeProgress
  <2>4. ASSUME UNCHANGED <<project, metrics, rowLock, decision, lost>>,
               pc[r] = "idle", pc'[r] \in {"creating", "altering", "editing"},
               pc'[r] = "creating" =>
                   /\ seen'[r] = project[ProjectOf[draft'[r].contribution]]
                   /\ seen'[r] # "deleted",
               pc'[r] = "editing" => draft'[r].from = indicator[draft'[r].indicator].feeds
        PROVE  FollowInv'
    <3>1. \A q \in Requests : q = r
      BY DEF OneSlot
    <3>2. \A q \in Requests : ~Reconciling(q) /\ ~Reconciling(q)'
      BY <2>4, <3>1 DEF Reconciling
    <3>3. RowsFollow' /\ RowsAreFed' /\ GoneIsUnposted'
      BY <2>4, <3>2 DEF FollowInv, RowsFollow, RowsAreFed, GoneIsUnposted, Settled,
                        Live, Applied, Feeds, metrics
    <3>4. LocalsAreFresh'
      BY <2>4, <3>1, <3>2 DEF LocalsAreFresh, metrics
    <3> QED
      BY <3>3, <3>4 DEF FollowInv
  <2>5. ASSUME NEW c \in Contributions, NEW v \in Values, BeginCreate(r, c, v)
        PROVE  FollowInv'
    <3>1. /\ pc'[r] = "creating" /\ draft'[r].contribution = c
          /\ seen'[r] = project[ProjectOf[c]] /\ seen'[r] # "deleted"
      BY <1>0, <2>5 DEF BeginCreate, TypeOK, Draft
    <3> QED
      BY <2>4, <2>5, <3>1 DEF BeginCreate
  <2>6. ASSUME NEW c \in Contributions, BeginAlter(r, c) PROVE FollowInv'
    BY <1>0, <2>4, <2>6 DEF BeginAlter, TypeOK
  <2>7. ASSUME NEW i \in Indicators, NEW feeds \in BOOLEAN, BeginEdit(r, i, feeds)
        PROVE  FollowInv'
    <3>1. /\ pc'[r] = "editing"
          /\ draft'[r].from = indicator[draft'[r].indicator].feeds
      BY <1>0, <2>7 DEF BeginEdit, TypeOK, Draft
    <3> QED
      BY <2>4, <2>7, <3>1 DEF BeginEdit
  <2>8. ASSUME NEW i \in Indicators, DeleteIndicator(r, i) PROVE FollowInv'
    <3>1. /\ \A q \in Requests : q = r
          /\ pc[r] = "idle" /\ pc'[r] = "idle" /\ ~Linked(i)
          /\ UNCHANGED <<project, row, balance, lost, pc>>
          /\ \A j \in Indicators \ {i} : indicator'[j] = indicator[j]
      BY <1>0, <2>8 DEF DeleteIndicator, OneSlot, rows, request, TypeOK
    <3>2. RowsFollow' /\ GoneIsUnposted' /\ LocalsAreFresh'
      BY <3>1 DEF FollowInv, RowsFollow, GoneIsUnposted, LocalsAreFresh, Settled, Live,
                  Applied, Reconciling
    <3>3. RowsAreFed'
      BY <3>1, <1>a DEF FollowInv, RowsAreFed, Live, Feeds, Linked
    <3> QED
      BY <3>2, <3>3 DEF FollowInv
  <2> QED
    BY <1>2, <2>2, <2>3, <2>5, <2>6, <2>7, <2>8 DEF Call
<1>3. ASSUME NEW r \in Requests, Proceed(r) \/ Acquire(r) \/ Fail(r) PROVE FollowInv'
  <2>0. \A q \in Requests : q = r
    BY DEF OneSlot
  <2>1. CASE ReadProject(r)
    <3>1. /\ pc[r] = "published" /\ pc'[r] = "read" /\ seen'[r] = project[job[r]]
          /\ UNCHANGED <<project, row, balance, indicator, lost, job>>
      BY <1>0, <2>1 DEF ReadProject, TypeOK, metrics
    <3> QED
      BY <2>0, <3>1
      DEF FollowInv, RowsFollow, RowsAreFed, GoneIsUnposted, LocalsAreFresh, Live,
          Applied, Feeds, Settled, Reconciling
  <2>2. CASE ListContributions(r)
    <3>1. /\ pc[r] = "read" /\ pc'[r] = "locking"
          /\ todo'[r] = {c \in Contributions : Live(c) /\ ProjectOf[c] = job[r]}
          /\ UNCHANGED <<project, row, balance, indicator, lost, job, seen, rowLock>>
      BY <1>0, <2>2 DEF ListContributions, TypeOK, metrics
    <3>2. \A c \in Contributions : rowLock[c] # r
      BY <3>1, <1>a DEF LedgerInv, LockedRowsStand
    <3>3. RowsFollow' /\ RowsAreFed' /\ GoneIsUnposted'
      BY <2>0, <3>1 DEF FollowInv, RowsFollow, RowsAreFed, GoneIsUnposted, Live,
                        Applied, Feeds, Settled, Reconciling
    <3>4. LocalsAreFresh'
      BY <2>0, <3>1, <3>2 DEF FollowInv, LocalsAreFresh, Live, Reconciling
    <3> QED
      BY <3>3, <3>4 DEF FollowInv
  <2>3. CASE LockContribution(r)
    <3> DEFINE c == NextRow(r)
    <3>1. /\ pc[r] = "locking" /\ todo'[r] = todo[r] \ {c}
          /\ UNCHANGED <<project, row, balance, indicator, lost, job, seen, pc>>
          /\ IF Live(c) THEN /\ rowLock' = [rowLock EXCEPT ![c] = r]
                             /\ decision' = [decision EXCEPT ![c] = Due(c, seen[r])]
             ELSE UNCHANGED <<rowLock, decision>>
      BY <1>0, <2>3 DEF LockContribution, TypeOK, metrics
    <3>2. RowsFollow' /\ RowsAreFed' /\ GoneIsUnposted'
      BY <2>0, <3>1 DEF FollowInv, RowsFollow, RowsAreFed, GoneIsUnposted, Live,
                        Applied, Feeds, Settled, Reconciling
    <3> HIDE DEF c
    <3>3. \A d \in Contributions :
              /\ Live(d) /\ ProjectOf[d] = job[r] <=> d \in todo'[r] \/ rowLock'[d] = r
              /\ rowLock'[d] = r => decision'[d] = Due(d, seen[r])
      <4>1. \A d \in Contributions :
               /\ Live(d) /\ ProjectOf[d] = job[r] <=> d \in todo[r] \/ rowLock[d] = r
               /\ rowLock[d] = r => decision[d] = Due(d, seen[r])
        BY <3>1 DEF FollowInv, LocalsAreFresh
      <4>2. c \in todo[r] /\ c \in Contributions
        <5>1. todo[r] # {}
          BY <2>3 DEF LockContribution
        <5>2. c \in todo[r]
          BY <1>0, <5>1, NextRowIn DEF c
        <5> QED
          BY <1>0, <5>2 DEF TypeOK
      <4>3. Live(c)
        BY <4>1, <4>2
      <4> QED
        BY <1>0, <3>1, <4>1, <4>2, <4>3 DEF TypeOK
    <3>4. LocalsAreFresh'
      BY <2>0, <3>1, <3>3 DEF FollowInv, LocalsAreFresh, Live, Applied, Feeds, Due, Reconciling
    <3> QED
      BY <3>2, <3>4 DEF FollowInv
  <2>4. CASE CommitReconciliation(r)
    <3>1. /\ pc[r] = "locking" /\ todo[r] = {} /\ pc'[r] = "idle"
          /\ UNCHANGED <<project, indicator, lost>>
      BY <1>0, <2>4 DEF CommitReconciliation, EndRequest, TypeOK
    <3>2. \A q \in Requests : ~Reconciling(q)'
      BY <2>0, <3>1 DEF Reconciling
    <3>3. ASSUME NEW c \in Contributions
          PROVE  rowLock[c] = r <=> Live(c) /\ ProjectOf[c] = job[r]
      BY <3>1 DEF FollowInv, LocalsAreFresh
    <3>4. ASSUME NEW c \in Contributions, rowLock[c] # r
          PROVE  row'[c] = row[c] /\ balance'[c] = balance[c]
      BY <2>4, <3>4 DEF CommitReconciliation, Locked
    <3>5. ASSUME NEW c \in Contributions, rowLock[c] = r
          PROVE  /\ row'[c].status = "gone" => balance'[c] = 0
                 /\ row'[c].status = "live" =>
                        /\ project[ProjectOf[c]] # "deleted"
                        /\ row'[c].applied # NotApplied <=> project[ProjectOf[c]] = "complete"
      <4>1. /\ Live(c) /\ ProjectOf[c] = job[r] /\ seen[r] = project[ProjectOf[c]]
            /\ decision[c] = Due(c, seen[r]) /\ indicator[IndicatorOf[c]].live
            /\ seen[r] # "deleted" => Feeds(IndicatorOf[c])
        BY <3>1, <3>3, <3>5
        DEF FollowInv, LocalsAreFresh, RowsAreFed, Reconciling
      <4>2. /\ balance'[c] = balance[c] + EntryOf(c)
            /\ row'[c] = IF seen[r] = "deleted" THEN [NoRow EXCEPT !.status = "gone"]
                                                ELSE RowAfter(c)
        BY <2>4, <3>5 DEF CommitReconciliation, Locked, RowLeft
      <4>3. /\ row[c] \in Row /\ row[c].applied \in Int /\ row[c].value \in Int \ {0}
            /\ balance[c] = row[c].applied
        <5>1. row[c] \in Row /\ row[c].value \in Values
          BY <1>0, <4>1 DEF TypeOK, Live
        <5>2. Values \cup {NotApplied} \subseteq Int /\ Values \subseteq Int \ {0}
          BY ValuesAssumption DEF NotApplied
        <5>3. balance[c] = row[c].applied
          BY <4>1 DEF LedgerInv, AppliedOnce
        <5> QED
          BY <5>1, <5>2, <5>3 DEF Row
      <4>4. CASE seen[r] = "deleted"
        <5>1. row'[c].status = "gone"
          BY <4>2, <4>4 DEF NoRow
        <5>2. EntryOf(c) = -row[c].applied
          BY <4>1, <4>3, <4>4 DEF EntryOf, Due, Applied, NotApplied
        <5> QED
          BY <4>2, <4>3, <5>1, <5>2
      <4>5. CASE seen[r] # "deleted"
        <5>1. row'[c] = RowAfter(c) /\ RowAfter(c).status = "live"
          BY <1>0, <4>1, <4>2, <4>5, CommitType DEF Live
        <5>2. RowAfter(c).applied = IF decision[c] = "apply" THEN row[c].value
                                    ELSE IF decision[c] = "revert" THEN 0
                                    ELSE row[c].applied
          BY <4>3 DEF RowAfter, Row, NotApplied
        <5>3. decision[c] = IF seen[r] = "complete" /\ row[c].applied = 0 THEN "apply"
                            ELSE IF seen[r] # "complete" /\ row[c].applied # 0 THEN "revert"
                            ELSE "keep"
          BY <4>1, <4>5 DEF Due, Applied, NotApplied
        <5> QED
          BY <4>1, <4>3, <4>5, <5>1, <5>2, <5>3 DEF NotApplied
      <4> QED
        BY <4>4, <4>5
    <3>6. LocalsAreFresh'
      BY <2>0, <3>1 DEF LocalsAreFresh, Reconciling
    <3>7. RowsFollow'
      <4>1. ASSUME NEW c \in Contributions, Live(c)', ProjectOf[c] \notin lost'
            PROVE  Settled(c)'
        <5>1. CASE rowLock[c] = r
          BY <3>1, <3>5, <4>1, <5>1 DEF Settled, Live, Applied
        <5>2. CASE rowLock[c] # r
          <6>1. row'[c] = row[c] /\ Live(c) /\ ProjectOf[c] # job[r]
            BY <3>3, <3>4, <4>1, <5>2 DEF Live
          <6>2. Settled(c)
            BY <2>0, <3>1, <4>1, <6>1 DEF FollowInv, RowsFollow
          <6> QED
            BY <3>1, <6>1, <6>2 DEF Settled, Applied
        <5> QED
          BY <5>1, <5>2
      <4> QED
        BY <4>1 DEF RowsFollow
    <3>8. RowsAreFed'
      <4>1. ASSUME NEW c \in Contributions, Live(c)' PROVE Live(c)
        BY <3>3, <3>4, <4>1 DEF Live
      <4> QED
        BY <3>1, <4>1 DEF FollowInv, RowsAreFed, Feeds
    <3>9. GoneIsUnposted'
      BY <3>4, <3>5 DEF FollowInv, GoneIsUnposted
    <3> QED
      BY <3>6, <3>7, <3>8, <3>9 DEF FollowInv
  <2>5. CASE InsertContribution(r)
    <3> DEFINE c == draft[r].contribution
    <3>1. /\ c \in Contributions /\ pc[r] = "creating"
          /\ row'[c] = NewRow(draft[r].value)
          /\ \A d \in Contributions \ {c} : row'[d] = row[d]
          /\ Feeds(IndicatorOf[c])
          /\ UNCHANGED <<project, indicator, balance, lost>>
      BY <1>0, <2>5 DEF InsertContribution, MayInsert, TypeOK, Draft
    <3>2. seen[r] = project[ProjectOf[c]] /\ seen[r] # "deleted"
      BY <3>1 DEF FollowInv, LocalsAreFresh
    <3>3. \/ pc'[r] = "published" /\ job'[r] = ProjectOf[c] /\ seen[r] = "complete"
          \/ pc'[r] = "idle" /\ seen[r] # "complete"
      BY <1>0, <2>5 DEF InsertContribution, FoundComplete, EndRequest, TypeOK
    <3> HIDE DEF c
    <3>4. row'[c].status = "live" /\ row'[c].applied = NotApplied
      BY <3>1 DEF NewRow
    <3>5. RowsFollow'
      BY <2>0, <3>1, <3>2, <3>3, <3>4 DEF FollowInv, RowsFollow, Live, Settled, Applied, Reconciling
    <3>6. RowsAreFed' /\ GoneIsUnposted'
      BY <3>1, <3>4 DEF FollowInv, RowsAreFed, GoneIsUnposted, Live, Feeds
    <3>7. LocalsAreFresh'
      BY <2>0, <3>1, <3>2, <3>3, <3>4
      DEF FollowInv, LocalsAreFresh, RowsAreFed, Live, Feeds, Reconciling
    <3> QED
      BY <3>5, <3>6, <3>7 DEF FollowInv
  <2>6. CASE RefuseInsertion(r) \/ RefuseEdit(r) \/ RefuseAlter(r)
    <3>1. /\ ~Reconciling(r) /\ pc'[r] = "idle"
          /\ UNCHANGED <<project, row, balance, indicator, lost>>
      BY <1>0, <2>6 DEF RefuseInsertion, RefuseEdit, RefuseAlter, EndRequest, TypeOK,
                        metrics, Reconciling
    <3> QED
      BY <2>0, <3>1
      DEF FollowInv, RowsFollow, RowsAreFed, GoneIsUnposted, LocalsAreFresh, Live,
          Applied, Feeds, Settled, Reconciling
  <2>7. CASE CommitEdit(r)
    <3> DEFINE i == draft[r].indicator
    <3>1. /\ ~Reconciling(r) /\ pc'[r] = "idle" /\ pc[r] = "editing" /\ i \in Indicators
          /\ UNCHANGED <<project, row, balance, lost>>
          /\ indicator'[i].live = indicator[i].live /\ indicator'[i].feeds = draft[r].to
          /\ \A j \in Indicators \ {i} : indicator'[j] = indicator[j]
          /\ draft[r].to # draft[r].from => ~Linked(i)
          /\ draft[r].from \in BOOLEAN /\ draft[r].to \in BOOLEAN
      BY <1>0, <2>7 DEF CommitEdit, MayEdit, EndRequest, TypeOK, Draft, rows, Reconciling
    <3>2. draft[r].from = indicator[i].feeds
      BY <3>1 DEF FollowInv, LocalsAreFresh
    <3> HIDE DEF i
    <3>3. RowsAreFed'
      BY <1>a, <3>1, <3>2 DEF FollowInv, RowsAreFed, Live, Feeds, Linked
    <3> QED
      BY <2>0, <3>1, <3>3
      DEF FollowInv, RowsFollow, GoneIsUnposted, LocalsAreFresh, Live,
          Applied, Settled, Reconciling
  <2>8. ASSUME NEW v \in Values, UpdateContribution(r, v) PROVE FollowInv'
    <3> DEFINE c == draft[r].contribution
    <3>1. /\ ~Reconciling(r) /\ pc'[r] = "idle" /\ c \in Contributions
          /\ row' = [row EXCEPT ![c].value = v]
          /\ UNCHANGED <<project, balance, indicator, lost>>
      BY <1>0, <2>8 DEF UpdateContribution, EndRequest, TypeOK, Draft, Reconciling
    <3> HIDE DEF c
    <3>2. \A d \in Contributions : /\ row'[d].status = row[d].status
                                   /\ row'[d].applied = row[d].applied
      BY <1>0, <3>1 DEF TypeOK, Row
    <3> QED
      BY <2>0, <3>1, <3>2
      DEF FollowInv, RowsFollow, RowsAreFed, GoneIsUnposted, LocalsAreFresh, Live,
          Applied, Feeds, Settled, Reconciling
  <2>9. CASE RemoveContribution(r)
    <3> DEFINE c == draft[r].contribution
    <3>1. /\ ~Reconciling(r) /\ pc'[r] = "idle" /\ c \in Contributions
          /\ row'[c].status = "gone" /\ MayAlter(c)
          /\ \A d \in Contributions \ {c} : row'[d] = row[d]
          /\ UNCHANGED <<project, balance, indicator, lost>>
      BY <1>0, <2>9 DEF RemoveContribution, EndRequest, TypeOK, Draft, Reconciling, NoRow
    <3> HIDE DEF c
    <3>2. balance[c] = 0
      BY <3>1 DEF MayAlter, Applied, NotApplied, LedgerInv, AppliedOnce
    <3> QED
      BY <2>0, <3>1, <3>2
      DEF FollowInv, RowsFollow, RowsAreFed, GoneIsUnposted, LocalsAreFresh, Live,
          Applied, Feeds, Settled, Reconciling
  <2>10. CASE Fail(r)
    <3>1. /\ pc'[r] = "idle" /\ UNCHANGED <<project, row, balance, indicator>>
          /\ lost' = IF Reconciling(r) THEN lost \cup {job[r]} ELSE lost
      BY <1>0, <2>10 DEF Fail, EndRequest, TypeOK, metrics, Reconciling
    <3> QED
      BY <2>0, <3>1
      DEF FollowInv, RowsFollow, RowsAreFed, GoneIsUnposted, LocalsAreFresh, Live,
          Applied, Feeds, Settled, Reconciling
  <2> QED
    BY <1>3, <2>1, <2>2, <2>3, <2>4, <2>5, <2>6, <2>7, <2>8, <2>9, <2>10
    DEF Proceed, Acquire
<1> QED
  BY <1>1, <1>2, <1>3 DEF Next

\* A live row was live before or is the one a creation inserts.
LEMMA RowsComeFromCreations ==
    ASSUME TypeOK, NEW r \in Requests, Call(r) \/ Proceed(r) \/ Acquire(r) \/ Fail(r)
    PROVE  /\ \A c \in Contributions : Live(c)' =>
                  Live(c) \/ (pc[r] = "creating" /\ draft[r].contribution = c)
           /\ \A q \in Requests \ {r} : pc'[q] = pc[q] /\ draft'[q] = draft[q]
<1>1. CASE Call(r)
  BY <1>1 DEF Call, CompleteProject, ReopenProject, DeleteProject, CommitAndPublish,
              ChangeProgress, BeginCreate, BeginAlter, BeginEdit, DeleteIndicator,
              metrics, rows, request, Live, TypeOK
<1>2. CASE ReadProject(r) \/ ListContributions(r) \/ RefuseInsertion(r) \/ CommitEdit(r)
           \/ RefuseEdit(r) \/ LockContribution(r) \/ RefuseAlter(r) \/ Fail(r)
  BY <1>2 DEF ReadProject, ListContributions, RefuseInsertion, CommitEdit, RefuseEdit,
              LockContribution, RefuseAlter, Fail, EndRequest, metrics, rows, Live, TypeOK
<1>3. CASE CommitReconciliation(r)
  <2>1. \A c \in Contributions : row'[c].status = "live" => row[c].status = "live"
    BY <1>3, CommitType DEF CommitReconciliation, RowLeft, NoRow
  <2> QED
    BY <1>3, <2>1 DEF CommitReconciliation, EndRequest, Live, TypeOK
<1>4. CASE InsertContribution(r)
  <2>1. \A c \in Contributions : c # draft[r].contribution => row'[c] = row[c]
    BY <1>4 DEF InsertContribution, TypeOK
  <2>2. \A q \in Requests \ {r} : pc'[q] = pc[q] /\ draft'[q] = draft[q]
    BY <1>4 DEF InsertContribution, EndRequest, TypeOK
  <2> QED
    BY <1>4, <2>1, <2>2 DEF InsertContribution, Live
<1>5. ASSUME NEW v \in Values, UpdateContribution(r, v) PROVE
          /\ \A c \in Contributions : Live(c)' => Live(c)
          /\ \A q \in Requests \ {r} : pc'[q] = pc[q] /\ draft'[q] = draft[q]
  BY <1>5 DEF UpdateContribution, MayAlter, EndRequest, Live, TypeOK
<1>6. CASE RemoveContribution(r)
  BY <1>6 DEF RemoveContribution, MayAlter, EndRequest, Live, TypeOK
<1> QED
  BY <1>1, <1>2, <1>3, <1>4, <1>5, <1>6 DEF Proceed, Acquire
=============================================================================
