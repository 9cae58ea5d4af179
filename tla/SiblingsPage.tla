---------------------------- MODULE SiblingsPage ----------------------------
(***************************************************************************)
(* The list of a group of siblings and the two things the web application  *)
(* lets a user do with it: the projects of an objective                    *)
(* (objective-projects-panel) and the tasks of a project                   *)
(* (project-detail-panel).  The weights control writes the weights of the  *)
(* whole group; the panel's dialogs create and delete members.  Each has a *)
(* runner of its own.                                                      *)
(*                                                                         *)
(* A member is numbered in the order of its creation, which is the order   *)
(* of the list.  Titles, dates, error texts and the other columns are left *)
(* out; the forms that edit them are the module EditForms.                 *)
(***************************************************************************)
EXTENDS OkrDomain, WebPage

CONSTANTS
    Blank,      \* a text that is not a percentage
    FirstGroups,\* the groups a page may first show
    Entries,    \* what the user types as a weight, Blank or not
    MaxItems,   \* bound: members ever created
    MaxTyping   \* bound: edits of the drafts of one opened dialog

ASSUME SiblingsAssumption ==
    /\ Blank \notin Int
    /\ Entries \subseteq Progress \cup {Blank}
    /\ {MaxItems, MaxTyping} \subseteq Nat
    /\ \A g \in FirstGroups : \E n \in 0..MaxItems : g \in [1..n -> Weight] /\ ValidWeightGroup(g)

VARIABLES
    created,    \* how many members were ever created
    control,    \* the dialog of the weights control and its drafts
    panel       \* the dialog of the panel

siblingVars == <<pageVars, created, control, panel>>

Items == 1..MaxItems
Group == UNION {[S -> Weight] : S \in SUBSET Items}
Closed == [kind |-> "closed", item |-> 0, draft |-> <<>>, typed |-> 0]

Shown == DOMAIN page.content
Weighted == Shown # {} /\ WeightMode(page.content) = "weighted"

\* equalSplitBp: the remainder goes one by one from the first.
EqualSplit(members) ==
    LET n == Cardinality(members)
        Before(i) == Cardinality({j \in members : j < i})
    IN  [i \in members |->
           (FullBp \div n) + (IF Before(i) < FullBp % n THEN 1 ELSE 0)]

\* useWeightDraft: the drafts of a dialog belong to the members listed when it
\* opened; a member listed later has none until something is typed.
FirstDraft(startEqual) ==
    [i \in Shown |-> IF startEqual \/ page.content[i] = NoWeight
                     THEN EqualSplit(Shown)[i] ELSE page.content[i]]
Entered == [i \in Shown |-> IF i \in DOMAIN control.draft THEN control.draft[i] ELSE Blank]
CanSave ==
    /\ \A i \in Shown : Entered[i] # Blank
    /\ SumFunction(Entered) = FullBp

\* What the API does with a submission: its kind and the group it is for.
Without(g, i) == [j \in DOMAIN g \ {i} |-> g[j]]
With(g, weight) == [j \in DOMAIN g \cup {created + 1} |->
                      IF j = created + 1 THEN weight ELSE g[j]]
Result(g, q) ==
    CASE q.kind \in {"save", "clear"} -> q.weights
      [] q.kind = "create" -> With(g, q.weight)
      [] q.kind = "delete" -> Without(g, q.item)
Accepted(g, q) ==
    CASE q.kind \in {"save", "clear"} ->
           SameSiblingSet(DOMAIN g, q.weights) /\ ValidWeightGroup(q.weights)
      [] q.kind = "create" -> ValidWeightGroup(With(g, q.weight))
      [] q.kind = "delete" -> q.item \in DOMAIN g /\ DeletionKeepsGroup(g, q.item)

-----------------------------------------------------------------------------
(* The weights control.  Dialogs are modal: one is open at a time.         *)

NoneOpen == control.kind = "closed" /\ panel.kind = "closed"

OpenControl(kind, draft) ==
    /\ NoneOpen /\ ~Pending("weights") /\ Shown # {}
    /\ control' = [kind |-> kind, item |-> 0, draft |-> draft, typed |-> 0]
    /\ UNCHANGED <<pageVars, created, panel>>

\* The switch asks to weigh or to stop weighing, by what the page shows.
Enable == ~Weighted /\ OpenControl("enable", FirstDraft(TRUE))
Edit == Weighted /\ OpenControl("edit", FirstDraft(FALSE))
Disable == Weighted /\ OpenControl("disable", <<>>)

\* The fields stay enabled while a save is pending.
Drafted(draft) ==
    /\ control.kind \in {"enable", "edit"} /\ control.typed < MaxTyping
    /\ control' = [control EXCEPT !.draft = draft, !.typed = @ + 1]
    /\ UNCHANGED <<pageVars, created, panel>>
Type ==
    \E i \in Shown, v \in Entries :
        /\ v # Entered[i]
        /\ Drafted([j \in DOMAIN control.draft \cup {i} |->
                      IF j = i THEN v ELSE control.draft[j]])
Equalize == EqualSplit(Shown) # control.draft /\ Drafted(EqualSplit(Shown))

\* "Guardar pesos" and "Quitar pesos" send every member the page shows, never
\* some of them.
SubmitWeights ==
    /\ control.kind \in {"enable", "edit"} /\ CanSave
    /\ Submit("weights", [kind |-> "save", weights |-> Entered])
    /\ UNCHANGED <<stored, page, refresh, owed, created, control, panel>>
SubmitClear ==
    /\ control.kind = "disable"
    /\ Submit("weights", [kind |-> "clear", weights |-> [i \in Shown |-> NoWeight]])
    /\ UNCHANGED <<stored, page, refresh, owed, created, control, panel>>

\* A dialog can always be dismissed, even while its save is pending.
Dismissed(r) == calls' = IF Pending(r) THEN [calls EXCEPT ![r].own = FALSE] ELSE calls
DismissControl ==
    /\ control.kind # "closed"
    /\ control' = Closed
    /\ Dismissed("weights")
    /\ UNCHANGED <<stored, page, refresh, owed, created, panel>>

-----------------------------------------------------------------------------
(* The dialogs of the panel, whose buttons do not mind a pending call.     *)

OpenPanel(kind, item) ==
    /\ NoneOpen
    /\ panel' = [Closed EXCEPT !.kind = kind, !.item = item]
    /\ UNCHANGED <<pageVars, created, control>>
OpenCreate == OpenPanel("create", 0)
OpenDelete == \E i \in Shown : OpenPanel("delete", i)

\* A new member of a weighted group enters with no weight at all, zero, so that
\* the group stays valid until its weights are edited.  (Or without one.)
SubmitUnweighted ==
    /\ panel.kind = "create"
    /\ Submit("panel", [kind |-> "create", weight |-> NoWeight])
    /\ UNCHANGED <<stored, page, refresh, owed, created, control, panel>>
SubmitCreate ==
    /\ panel.kind = "create"
    /\ Submit("panel", [kind |-> "create", weight |-> IF Weighted THEN 0 ELSE NoWeight])
    /\ UNCHANGED <<stored, page, refresh, owed, created, control, panel>>
SubmitDelete ==
    /\ panel.kind = "delete"
    /\ Submit("panel", [kind |-> "delete", item |-> panel.item])
    /\ UNCHANGED <<stored, page, refresh, owed, created, control, panel>>

DismissPanel ==
    /\ panel.kind # "closed"
    /\ panel' = Closed
    /\ Dismissed("panel")
    /\ UNCHANGED <<stored, page, refresh, owed, created, control>>

-----------------------------------------------------------------------------
(* The API and its answers.                                                *)

Commit(r) ==
    /\ calls[r].phase = "sent"
    /\ LET q == calls[r].request IN
         IF Accepted(stored.content, q)
         THEN /\ q.kind = "create" => created < MaxItems
              /\ Accept(r, Result(stored.content, q))
              /\ created' = IF q.kind = "create" THEN created + 1 ELSE created
         ELSE Refuse(r) /\ UNCHANGED created
    /\ UNCHANGED <<control, panel>>

\* The others write what the API lets them.
OtherWrites ==
    /\ \/ \E w \in [DOMAIN stored.content -> Weight] :
            /\ w # stored.content /\ ValidWeightGroup(w)
            /\ WrittenByOther(w) /\ UNCHANGED created
       \/ /\ created < MaxItems
          /\ \E w \in {0, NoWeight} :
               /\ ValidWeightGroup(With(stored.content, w))
               /\ WrittenByOther(With(stored.content, w))
          /\ created' = created + 1
       \/ \E i \in DOMAIN stored.content :
            /\ DeletionKeepsGroup(stored.content, i)
            /\ WrittenByOther(Without(stored.content, i)) /\ UNCHANGED created
    /\ UNCHANGED <<control, panel>>

\* An accepted save closes the dialog of its component, whichever is open.
SavedWeights == HearAccepted("weights") /\ control' = Closed /\ UNCHANGED <<created, panel>>
SavedMember == HearAccepted("panel") /\ panel' = Closed /\ UNCHANGED <<created, control>>
Failed == \E r \in {"weights", "panel"} :
             (HearFailure(r) \/ Break(r)) /\ UNCHANGED <<created, control, panel>>

RenderGroup == Render /\ UNCHANGED <<created, control, panel>>
\* The control is not there when there is nothing to weigh.
LandGroup ==
    /\ Land
    /\ control' = IF DOMAIN page'.content = {} THEN Closed ELSE control
    /\ UNCHANGED <<created, panel>>
ReloadGroup == Reload /\ control' = Closed /\ panel' = Closed /\ UNCHANGED created

SiblingsInit ==
    /\ \E g \in FirstGroups :
         /\ Opened(g)
         /\ created = Cardinality(DOMAIN g)
    /\ control = Closed
    /\ panel = Closed

SiblingsNext ==
    \/ Enable \/ Edit \/ Disable \/ Type \/ Equalize
    \/ SubmitWeights \/ SubmitClear \/ DismissControl
    \/ OpenCreate \/ OpenDelete \/ SubmitCreate \/ SubmitDelete \/ DismissPanel
    \/ \E r \in {"weights", "panel"} : Commit(r)
    \/ OtherWrites
    \/ SavedWeights \/ SavedMember \/ Failed
    \/ RenderGroup \/ LandGroup \/ ReloadGroup

-----------------------------------------------------------------------------
SiblingsTypeOK ==
    /\ {stored.content, page.content} \subseteq Group
    /\ stored.version \in 0..MaxWrites
    /\ created \in 0..MaxItems
    /\ control.kind \in {"closed", "enable", "edit", "disable"}
    /\ panel.kind \in {"closed", "create", "delete"}

\* A user is refused only because the group changed since the page was
\* rendered, or for a deletion: of a member that carries weight, which the page
\* offers and the API refuses, or of one that left the list under the dialog.
RefusedOnlyWhenStale ==
    \A r \in Runners :
        calls[r].phase = "refused" /\ calls[r].seen = calls[r].met =>
          /\ calls[r].request.kind = "delete"
          /\ \A i \in DOMAIN calls[r].met \cap {calls[r].request.item} :
               calls[r].met[i] \notin {0, NoWeight}

\* An answer closes the weights dialog it was submitted from, never one the
\* user opened meanwhile: the control cannot be opened while it is pending.
AnswersCloseTheirOwn ==
    [][calls["weights"].phase = "accepted" /\ calls'["weights"] = Idle /\ control' # control
         => calls["weights"].own]_siblingVars

\* Drafts the user has not touched can be saved as long as the page lists the
\* members they were made for: the proposal sums one hundred percent (RN-P7).
ProposalsCanBeSaved ==
    /\ control.kind \in {"enable", "edit"}
    /\ control.typed = 0 /\ DOMAIN control.draft = Shown
    => CanSave

\* Whatever the others do between a rendering and a submission, the page asks
\* the API only for groups it takes, and proposes only weights that can be
\* saved ("nunca se arman grupos mixtos desde la UI", useWeightedGroup.ts:11).
WeightsPageSound ==
    SiblingsTypeOK /\ RefusedOnlyWhenStale /\ ProposalsCanBeSaved
=============================================================================
