----------------------------- MODULE EditForms -----------------------------
(***************************************************************************)
(* The dialogs of apps/web that edit one row, while another user edits it  *)
(* too.  They differ in when they take the values they show (when the      *)
(* dialog opens, or once, when the component mounts) and in what they      *)
(* compare them with to decide what to send: the row captured when the     *)
(* dialog opened, the row the page shows when it is submitted, or nothing, *)
(* in which case every field is sent.                                      *)
(*                                                                         *)
(* A row has two fields, "b" the one a form with a single field lacks.     *)
(* The model follows one form, chosen at the start.                        *)
(***************************************************************************)
EXTENDS WebPage, FiniteSets

CONSTANTS
    Values,     \* form -> what its fields may hold
    FirstForms, \* the forms followed
    FirstRows,  \* the rows a page may first show
    Done        \* the progress of a finished task, whose slider is locked


VARIABLES
    form,       \* which form this is
    open,       \* whether its dialog is open
    values,     \* what its fields hold, shown or not
    base,       \* the row the page had when the dialog opened, where it matters
    typed       \* the fields typed in since the values were taken

formVars == <<pageVars, form, open, values, base, typed>>

Fields == {"a", "b"}
Rows == [Fields -> Values[form]]

\* When a form takes its values, and what it compares each field with.
TaskForm == [taken |-> "open", against |-> [a |-> "base", b |-> "base"]]
UnitForm == [taken |-> "open", against |-> [a |-> "base", b |-> "base"]]
AxisForm == [taken |-> "open", against |-> [a |-> "base", b |-> "base"]]
ProjectForm == [taken |-> "open", against |-> [a |-> "page", b |-> "page"]]
PlanForm == [taken |-> "open", against |-> [a |-> "none", b |-> "none"]]
EntryForm == [taken |-> "open", against |-> [a |-> "none", b |-> "none"]]
ContributionForm == [taken |-> "open", against |-> [a |-> "none"]]
MetricForm == [taken |-> "mount", against |-> [a |-> "none", b |-> "none"]]
ObjectiveForm == [taken |-> "mount", against |-> [a |-> "none", b |-> "page"]]
SliderForm == [taken |-> "mount", against |-> [a |-> "none"]]

FormOf ==
    [task |-> TaskForm, unit |-> UnitForm, axis |-> AxisForm, project |-> ProjectForm,
     plan |-> PlanForm, entry |-> EntryForm, contribution |-> ContributionForm,
     metric |-> MetricForm, objective |-> ObjectiveForm, slider |-> SliderForm]
Forms == DOMAIN FormOf
Against == FormOf[form].against

ASSUME EditFormsAssumption ==
    /\ FirstForms \subseteq Forms
    /\ \A f \in FirstForms : FirstRows \subseteq [Fields -> Values[f]]
    /\ "slider" \in FirstForms => Done \in Values["slider"]

\* The forms that compare with the row their dialog captured.
Captured == {"task", "unit", "axis"}

\* The dto: the fields that differ from what the form compares them with.
\* (Or from what the page shows, in every form.)
ReferenceOnPage(k) == page.content[k]
Reference(k) == IF Against[k] = "base" THEN base[k] ELSE page.content[k]
Sent == {k \in DOMAIN Against : Against[k] = "none" \/ values[k] # Reference(k)}
Dto == [k \in Sent |-> values[k]]

\* A slider is locked while its save is pending or not shown yet, and for good
\* once the page shows the task as done.
Locked ==
    /\ form = "slider"
    /\ Pending("form") \/ owed > page.version \/ page.content["a"] = Done

-----------------------------------------------------------------------------
\* A dialog that takes its values when it opens is not there when it is closed.
Closes ==
    /\ open' = FALSE
    /\ IF FormOf[form].taken = "open"
       THEN values' = <<>> /\ base' = <<>> /\ typed' = {}
       ELSE UNCHANGED <<values, base, typed>>

Open ==
    /\ ~open
    /\ open' = TRUE
    /\ IF FormOf[form].taken = "open"
       THEN values' = page.content /\ base' = page.content
       ELSE UNCHANGED <<values, base>>
    /\ UNCHANGED typed
    /\ UNCHANGED <<pageVars, form>>

TypeIn ==
    /\ open /\ ~Locked
    /\ \E k \in DOMAIN Against, v \in Values[form] :
         /\ v # values[k]
         /\ values' = [values EXCEPT ![k] = v]
         /\ typed' = typed \cup {k}
    /\ UNCHANGED <<pageVars, form, open, base>>

\* A dialog can be dismissed while its save is pending; what was typed in one
\* that takes its values when it mounts stays there.
Dismiss ==
    /\ open /\ form # "slider"
    /\ Closes
    /\ UNCHANGED <<pageVars, form>>

\* What is asked for, and beside it what the user entered and when that began.
Asked(dto, entered) == Submit("form", [dto |-> dto, typed |-> entered, base |-> base])

\* With nothing to send the dialog closes and nothing is asked.
Save ==
    /\ open /\ ~Locked /\ ~Pending("form")
    /\ form = "slider" => values["a"] # page.content["a"]
    /\ IF Sent = {} THEN Closes /\ UNCHANGED calls
       ELSE Asked(Dto, [k \in typed |-> values[k]]) /\ UNCHANGED <<open, values, base, typed>>
    /\ UNCHANGED <<stored, page, refresh, owed, form>>

\* The check next to a slider takes it to the end, wherever it had been moved.
MarkDone ==
    /\ form = "slider" /\ ~Locked
    /\ values' = [values EXCEPT !["a"] = Done]
    /\ typed' = typed \cup {"a"}
    /\ Asked([a |-> Done], [a |-> Done])
    /\ UNCHANGED <<stored, page, refresh, owed, form, open, base>>

\* A PATCH writes the fields it names.  One the API refuses ends as one that
\* did not reach it (NotSaved).
Patch ==
    /\ calls["form"].phase = "sent"
    /\ LET dto == calls["form"].request.dto
       IN  Accept("form", [k \in Fields |-> IF k \in DOMAIN dto THEN dto[k]
                                            ELSE stored.content[k]])
    /\ UNCHANGED <<form, open, values, base, typed>>

OtherEdits ==
    /\ \E k \in Fields, v \in Values[form] :
         /\ v # stored.content[k]
         /\ WrittenByOther([stored.content EXCEPT ![k] = v])
    /\ UNCHANGED <<form, open, values, base, typed>>

\* An accepted save closes the dialog, also one opened since.
Saved ==
    /\ HearAccepted("form")
    /\ IF form = "slider" THEN UNCHANGED <<open, values, base, typed>> ELSE Closes
    /\ UNCHANGED form
NotSaved ==
    /\ HearFailure("form") \/ Break("form")
    /\ UNCHANGED <<form, open, values, base, typed>>

\* Another component of the page saved something and asked for a rendering.
RefreshElsewhere ==
    /\ ~refresh.wanted
    /\ refresh' = [refresh EXCEPT !.wanted = TRUE]
    /\ UNCHANGED <<stored, page, calls, owed, form, open, values, base, typed>>

RenderRow == Render /\ UNCHANGED <<form, open, values, base, typed>>
LandRow == Land /\ UNCHANGED <<form, open, values, base, typed>>

\* A page loaded again mounts its components anew.
ReloadRow ==
    /\ Reload
    /\ open' = (form = "slider")
    /\ values' = IF FormOf[form].taken = "open" THEN <<>> ELSE page'.content
    /\ base' = <<>> /\ typed' = {}
    /\ UNCHANGED form

FormsInit ==
    /\ form \in FirstForms
    /\ \E row \in FirstRows :
         /\ Opened(row)
         /\ values = IF FormOf[form].taken = "open" THEN <<>> ELSE row
    /\ open = (form = "slider")
    /\ base = <<>>
    /\ typed = {}

FormsNext ==
    \/ Open \/ TypeIn \/ Dismiss \/ Save \/ MarkDone
    \/ Patch \/ OtherEdits \/ Saved \/ NotSaved
    \/ RefreshElsewhere \/ RenderRow \/ LandRow \/ ReloadRow

-----------------------------------------------------------------------------
\* An accepted save of a task, a unit or an axis changes no field its user did
\* not type in, whatever another user wrote meanwhile and whatever the page
\* rendered under the dialog; one of a project does so only when the page
\* rendered another value under the dialog, which it then takes back.  And what
\* was typed is stored, unless it is what the form compared it with.
SavesWriteWhatWasTyped ==
    [][calls["form"].phase = "sent" /\ calls'["form"].phase = "accepted" =>
         LET q == calls["form"].request
             seen == calls["form"].seen
             Compared(k) == IF form \in Captured THEN q.base[k] ELSE seen[k]
         IN  \A k \in Fields :
               /\ k \notin DOMAIN q.typed /\ stored'.content[k] # stored.content[k] =>
                    /\ form \notin Captured
                    /\ form = "project" => q.base[k] # seen[k]
               /\ k \in DOMAIN q.typed => \/ stored'.content[k] = q.typed[k]
                                          \/ q.typed[k] = Compared(k)]_formVars
=============================================================================
