------------------------- MODULE ContributionLedger -------------------------
(***************************************************************************)
(* What the reconciliation of contributions promises for each of them      *)
(* (RN-P13, RN-C6): the series of its metric receives its worth at most    *)
(* once and gets exactly that amount back with the opposite sign, and its  *)
(* worth is fixed while it is posted.  A transaction moves any number of   *)
(* contributions; which requests do it, and when, is left open.            *)
(***************************************************************************)
EXTENDS Integers

CONSTANTS
    Contributions,
    Worths,     \* the contribution values
    Nothing     \* the worth of a contribution that does not exist

VARIABLES
    worth,      \* the value of each contribution
    posted      \* the sum of the automatic entries made for each

ledger == <<worth, posted>>

Init ==
    /\ worth = [c \in Contributions |-> Nothing]
    /\ posted = [c \in Contributions |-> 0]

\* Created, or edited: never while it is posted.
Assign(c) ==
    /\ posted[c] = 0 /\ posted'[c] = 0
    /\ worth'[c] \in Worths

Post(c) ==
    /\ worth[c] # Nothing /\ worth'[c] = worth[c]
    /\ posted[c] = 0 /\ posted'[c] = worth[c]

Compensate(c) ==
    /\ worth[c] # Nothing /\ worth'[c] = worth[c]
    /\ posted[c] = worth[c] /\ posted'[c] = 0

\* Removed, with what it had posted compensated.
Withdraw(c) == worth'[c] = Nothing /\ posted'[c] = 0

\* Removed when its indicator is gone: what it had posted stays.
Abandon(c) == worth'[c] = Nothing /\ posted'[c] = posted[c]

Rest(c) == worth'[c] = worth[c] /\ posted'[c] = posted[c]

Next ==
    \A c \in Contributions :
        Assign(c) \/ Post(c) \/ Compensate(c) \/ Withdraw(c) \/ Abandon(c) \/ Rest(c)

Spec == Init /\ [][Next]_ledger
=============================================================================
