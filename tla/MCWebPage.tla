----------------------------- MODULE MCWebPage -----------------------------
(***************************************************************************)
(* The two kinds of page of the web application for TLC: a list of         *)
(* siblings with its weights, or a row with one of its forms.  A form that *)
(* is not followed treats every field as one that is treats one of its own.*)
(***************************************************************************)
EXTENDS SiblingsPage, EditForms

FormsFollowed == {"task", "project", "contribution", "objective", "slider"}
ASSUME SameForms ==
    /\ TaskForm = UnitForm /\ TaskForm = AxisForm
    /\ \A f \in {PlanForm, EntryForm} :
         /\ f.taken = ContributionForm.taken
         /\ \A k \in DOMAIN f.against : f.against[k] = ContributionForm.against["a"]
    /\ MetricForm.taken = ObjectiveForm.taken
    /\ \A k \in DOMAIN MetricForm.against : MetricForm.against[k] = ObjectiveForm.against["a"]
\* A slider may be moved to somewhere between the start and the end.
Held == [f \in FormsFollowed |-> IF f = "slider" THEN 0..2 ELSE 0..1]
NewRow == {[a |-> 0, b |-> 0]}

OneOrTwo == {<<NoWeight>>, <<NoWeight, NoWeight>>, <<1, 2>>}

OnList == form = "none"
formPart == <<form, open, values, base, typed>>
listPart == <<created, control, panel>>
webVars == <<pageVars, listPart, formPart>>

Init ==
    \/ /\ SiblingsInit
       /\ form = "none" /\ open = FALSE /\ values = <<>> /\ base = <<>> /\ typed = {}
    \/ /\ FormsInit
       /\ created = 0 /\ control = Closed /\ panel = Closed

Next ==
    \/ OnList /\ SiblingsNext /\ UNCHANGED formPart
    \/ ~OnList /\ FormsNext /\ UNCHANGED listPart

\* Renderings are made and arrive; nobody has to submit anything.
Renders ==
    \/ OnList /\ RenderGroup /\ UNCHANGED formPart
    \/ ~OnList /\ RenderRow /\ UNCHANGED listPart
Lands ==
    \/ OnList /\ LandGroup /\ UNCHANGED formPart
    \/ ~OnList /\ LandRow /\ UNCHANGED listPart

Spec == Init /\ [][Next]_webVars /\ WF_webVars(Renders) /\ WF_webVars(Lands)

\* The list's own type and rules hold on the pages that have a list.
ListSound == OnList => WeightsPageSound

\* What a user types is not lost to an answer nor turned against another user.
TypingIsRespected == AnswersCloseTheirOwn /\ SavesWriteWhatWasTyped
=============================================================================
