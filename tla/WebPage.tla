------------------------------ MODULE WebPage ------------------------------
(***************************************************************************)
(* A page of apps/web as its dialogs see it: a Server Component renders    *)
(* what the API has stored and hands it to client components, which submit *)
(* server actions through useActionRunner and ask for a new rendering when *)
(* one is accepted.                                                        *)
(*                                                                         *)
(* What the API stores is opaque here: the modules that EXTEND this one    *)
(* say what it is, which submissions they make and what the API does with  *)
(* them.  It carries the number of the write that left it, so that a page  *)
(* can be compared with what its user did.                                 *)
(***************************************************************************)
EXTENDS Integers, Sequences

CONSTANT
    MaxWrites   \* bound: writes to what is stored, the user's and the others'

ASSUME MaxWritesAssumption == MaxWrites \in Nat

VARIABLES
    stored,     \* what the API has: [content, version]
    page,       \* what the last rendering gave the components, likewise
    refresh,    \* router.refresh: one wanted, and the rendering on its way
    calls,      \* runner -> the server action it waits for
    owed        \* the newest write the user was told was accepted

pageVars == <<stored, page, refresh, calls, owed>>

\* The runners a page may have: of its weights control, of the panel's own
\* dialogs, of the form the module EditForms follows.
Runners == {"weights", "panel", "form"}

Idle == [phase |-> "idle"]
Pending(r) == calls[r].phase # "idle"

Opened(content) ==
    /\ stored = [content |-> content, version |-> 0]
    /\ page = stored
    /\ refresh = [wanted |-> FALSE, coming |-> <<>>]
    /\ calls = [r \in Runners |-> Idle]
    /\ owed = 0

-----------------------------------------------------------------------------
(* The action runner.  "seen" is the page the user submitted from, "met"   *)
(* what the API had when it refused, "own" whether the dialog submitted    *)
(* from is still the one that is open.                                     *)

Submit(r, request) ==
    /\ ~Pending(r)
    /\ calls' = [calls EXCEPT ![r] =
         [phase |-> "sent", request |-> request, seen |-> page.content, own |-> TRUE]]

\* The API runs the action in one transaction.
Accept(r, content) ==
    /\ stored.version < MaxWrites
    /\ stored' = [content |-> content, version |-> stored.version + 1]
    /\ calls' = [calls EXCEPT ![r] =
         [phase |-> "accepted", version |-> stored.version + 1, own |-> calls[r].own]]
    /\ UNCHANGED <<page, refresh, owed>>
Refuse(r) ==
    /\ calls' = [calls EXCEPT ![r] =
         [phase |-> "refused", request |-> calls[r].request, seen |-> calls[r].seen,
          met |-> stored.content, own |-> calls[r].own]]
    /\ UNCHANGED <<stored, page, refresh, owed>>

\* Another user of the organization writes the same rows.
WrittenByOther(content) ==
    /\ stored.version < MaxWrites
    /\ stored' = [content |-> content, version |-> stored.version + 1]
    /\ UNCHANGED <<page, refresh, calls, owed>>

\* The runner hears it was accepted: pending is off and a rendering is wanted.
\* (Or it is not asked for.)
HearAcceptedUnrendered(r) ==
    /\ calls[r].phase = "accepted"
    /\ calls' = [calls EXCEPT ![r] = Idle]
    /\ owed' = IF calls[r].version > owed THEN calls[r].version ELSE owed
    /\ UNCHANGED <<stored, page, refresh>>
HearAccepted(r) ==
    /\ calls[r].phase = "accepted"
    /\ calls' = [calls EXCEPT ![r] = Idle]
    /\ refresh' = [refresh EXCEPT !.wanted = TRUE]
    /\ owed' = IF calls[r].version > owed THEN calls[r].version ELSE owed
    /\ UNCHANGED <<stored, page>>

\* It hears it was refused, or that the API could not be reached, which it may
\* hear of a request that was carried out: nothing is rendered again.
HearFailure(r) ==
    /\ calls[r].phase \in {"sent", "accepted", "refused"}
    /\ calls' = [calls EXCEPT ![r] = Idle]
    /\ UNCHANGED <<stored, page, refresh, owed>>

\* The promise of the server action itself fails: the runner has no handler
\* for that and stays pending.
Break(r) ==
    /\ calls[r].phase \in {"sent", "accepted", "refused"}
    /\ calls' = [calls EXCEPT ![r] = [phase |-> "broken", own |-> FALSE]]
    /\ UNCHANGED <<stored, page, refresh, owed>>

-----------------------------------------------------------------------------
(* Renderings, one at a time.                                              *)

Render ==
    /\ refresh.wanted /\ refresh.coming = <<>>
    /\ refresh' = [wanted |-> FALSE, coming |-> <<stored>>]
    /\ UNCHANGED <<stored, page, calls, owed>>

Land ==
    /\ refresh.coming # <<>>
    /\ page' = Head(refresh.coming)
    /\ refresh' = [refresh EXCEPT !.coming = <<>>]
    /\ UNCHANGED <<stored, calls, owed>>

\* The user loads the page again, which forgets every component's state.
Reload ==
    /\ \A r \in Runners : calls[r].phase # "sent"
    /\ page' = stored
    /\ refresh' = [wanted |-> FALSE, coming |-> <<>>]
    /\ calls' = [r \in Runners |-> Idle]
    /\ UNCHANGED <<stored, owed>>

\* What a user was told was saved appears on the page without a reload: the
\* rendering an accepted action asks for is made after it, whatever other
\* renderings were on their way.
OwnWritesShow ==
    \A v \in 1..MaxWrites : (owed >= v) ~> (page.version >= v)
=============================================================================
