---------------------------- MODULE MCGovernance ----------------------------
(***************************************************************************)
(* Instances of Governance.  A scenario is a set of calls, how many        *)
(* requests run at once, and what is already there, which calls of the     *)
(* scenarios have made.  With more than one request at a time a scenario   *)
(* has only calls that do not disturb each other, or that an index keeps   *)
(* apart; the others are cases of the disagreements.  No request lasts     *)
(* past midnight.                                                          *)
(***************************************************************************)
EXTENDS Governance

CONSTANTS r, u1, u2, u3, ann, bob, p1, p2, q1, o1, o2, x1, a1, a2, here, there,
    Chosen      \* the scenarios of a run

Root == [kind |-> "central", parent |-> NoUnit, live |-> TRUE]
Unit(kind, parent) == [kind |-> kind, parent |-> parent, live |-> TRUE]
Period(o, status, from, to) ==
    [organization |-> o, status |-> status, startsAt |-> from, endsAt |-> to, live |-> TRUE]
Objective(u, a, p) == [unit |-> u, axis |-> a, period |-> p, live |-> TRUE]

CreateUnitUnder(by, u, parent, kind) ==
    [op |-> "create_unit", by |-> by, unit |-> u, parent |-> parent, kind |-> kind]
MoveUnit(by, u, parent, kind) ==
    [op |-> "update_unit", by |-> by, unit |-> u, parent |-> parent, kind |-> kind]
DropUnit(by, u) == [op |-> "delete_unit", by |-> by, unit |-> u]
Invite(by, m, scope) == [op |-> "invite", by |-> by, user |-> m, scope |-> scope]
SetScope(by, m, scope) == [op |-> "set_scope", by |-> by, user |-> m, scope |-> scope]
Remove(by, m) == [op |-> "remove", by |-> by, user |-> m]
Upsert(by, mandate) == [op |-> "upsert_plan", by |-> by, mandate |-> mandate]
NewAxis(by, a) == [op |-> "create_axis", by |-> by, axis |-> a]
DropAxis(by, a) == [op |-> "delete_axis", by |-> by, axis |-> a]
NewPeriod(by, o, p, status, from, to) ==
    [op |-> "create_period", by |-> by, organization |-> o, period |-> p, status |-> status,
     startsAt |-> from, endsAt |-> to]
Open(by, p) == [op |-> "open_period", by |-> by, period |-> p]
Close(by, p) == [op |-> "close_period", by |-> by, period |-> p, automatic |-> FALSE]
DropPeriod(by, p) == [op |-> "delete_period", by |-> by, period |-> p]
NewObjective(by, o, u, a) ==
    [op |-> "create_objective", by |-> by, objective |-> o, unit |-> u, axis |-> a]
EditObjective(by, o, u, a) ==
    [op |-> "update_objective", by |-> by, objective |-> o, unit |-> u, axis |-> a]
DropObjective(by, o) == [op |-> "delete_objective", by |-> by, objective |-> o]
NewProject(by, x, o, u, to) ==
    [op |-> "create_project", by |-> by, project |-> x, objective |-> o, unit |-> u, endsAt |-> to]
EditProject(by, x, u, to) ==
    [op |-> "update_project", by |-> by, project |-> x, unit |-> u, endsAt |-> to]
DropProject(by, x) == [op |-> "delete_project", by |-> by, project |-> x]

\* Two ministries, or a ministry with an area.
Flat == r :> Root @@ u1 :> Unit("ministry", r) @@ u2 :> Unit("ministry", r)
Deep == r :> Root @@ u1 :> Unit("ministry", r) @@ u2 :> Unit("area", u1)
Year(status) == p1 :> Period(here, status, 0, 3)
SA == Superadmin
Kinds == {"ministry", "area"}

Scenarios == [
    \* The tree alone.
    tree |->
      [units |-> r :> Root, members |-> <<>>, periods |-> <<>>, objectives |-> <<>>,
       axes |-> <<>>, from |-> 0, to |-> 0, slots |-> 1,
       calls |-> {CreateUnitUnder(SA, u, v, k) : u \in {u1, u2, u3}, v \in {r, u1, u2}, k \in Kinds}
            \cup {MoveUnit(SA, u, v, k) : u \in {u1, u2, u3}, v \in {Keep, r, u1, u2, u3},
                                          k \in Kinds \cup {Keep}}
            \cup {DropUnit(SA, u) : u \in {r, u1, u2, u3}}],
    \* Members with scopes, who move them, and the units under them.
    scopes |->
      [units |-> Deep @@ u3 :> Unit("ministry", r), members |-> ann :> u1,
       periods |-> <<>>, objectives |-> <<>>, axes |-> <<>>, from |-> 0, to |-> 0, slots |-> 1,
       calls |-> {Invite(m, bob, u) : m \in {SA, ann}, u \in {NoUnit, u1, u2, u3}}
            \cup {SetScope(m, n, u) : m \in {SA, ann, bob}, n \in {ann, bob}, u \in {NoUnit, u1, u2, u3}}
            \cup {Remove(m, n) : m \in {SA, ann, bob}, n \in {ann, bob}}
            \cup {DropUnit(m, u) : m \in {SA, ann}, u \in {u2, u3}}
            \cup {MoveUnit(m, u2, u, Keep) : m \in {ann, bob}, u \in {r, u1, u3}}],
    \* Objectives and projects by who may write somewhere, while units come and go.
    places |->
      [units |-> Deep @@ u3 :> Unit("ministry", r), members |-> ann :> u1 @@ bob :> NoUnit,
       periods |-> Year("open"), objectives |-> <<>>, axes |-> <<>>, from |-> 0, to |-> 0, slots |-> 1,
       calls |-> {NewObjective(ann, o1, u, NoAxis) : u \in {r, u1, u2, u3}}
            \cup {NewObjective(bob, o2, u, NoAxis) : u \in {r, u3}}
            \cup {EditObjective(ann, o, u, Keep) : o \in {o1, o2}, u \in {u1, u2, u3}}
            \cup {EditObjective(bob, o1, u, Keep) : u \in {r, u3}}
            \cup {DropObjective(ann, o) : o \in {o1, o2}}
            \cup {NewProject(ann, x1, o, u, 3) : o \in {o1, o2}, u \in {Keep, u2}}
            \cup {EditProject(m, x1, u, Keep) : m \in {ann, bob}, u \in {u1, u2}}
            \cup {DropProject(ann, x1), DropUnit(bob, u2), DropUnit(bob, u3)}],
    \* The plan, its axes and the objectives that carry them.
    axes |->
      [units |-> Flat, members |-> bob :> NoUnit, periods |-> Year("open"),
       objectives |-> o1 :> Objective(u1, NoAxis, p1), axes |-> <<>>, from |-> 0, to |-> 0, slots |-> 1,
       calls |-> {Upsert(bob, 1)} \cup {NewAxis(bob, a) : a \in {a1, a2}}
            \cup {DropAxis(bob, a) : a \in {a1, a2}}
            \cup {NewObjective(bob, o2, u2, a) : a \in {a1, a2}}
            \cup {EditObjective(bob, o, Keep, a) : o \in {o1, o2}, a \in {NoAxis, a1, a2}}
            \cup {DropObjective(bob, o2)}],
    \* Two organisations' periods from creation to deletion.
    periods |->
      [units |-> r :> Root, members |-> bob :> NoUnit, periods |-> <<>>, objectives |-> <<>>,
       axes |-> <<>>, from |-> 0, to |-> LastDay, slots |-> 1,
       calls |-> {NewPeriod(bob, here, p1, s, 0, 3) : s \in {"open", "future"}}
            \cup {NewPeriod(bob, here, p2, "open", d, 4) : d \in {1, 2, 3}}
            \cup {NewPeriod(SA, there, q1, "open", 0, 2)}
            \cup {Open(bob, p1), Open(bob, p2), Close(bob, p1), DropPeriod(bob, p1), Close(SA, q1)}],
    \* What is planned in a period, open, closed early or deleted.
    planned |->
      [units |-> Flat, members |-> bob :> NoUnit, periods |-> Year("future"), objectives |-> <<>>,
       axes |-> <<>>, from |-> 1, to |-> 1, slots |-> 1,
       calls |-> {Open(bob, p1), Close(bob, p1), DropPeriod(bob, p1)}
            \cup {NewPeriod(bob, here, p2, "open", d, 4) : d \in {1, 2}}
            \cup {NewObjective(bob, o, u1, NoAxis) : o \in {o1, o2}}
            \cup {EditObjective(bob, o1, u2, Keep), DropObjective(bob, o1), DropProject(bob, x1)}
            \cup {NewProject(bob, x1, o1, Keep, d) : d \in {3, 4}}
            \cup {EditProject(bob, x1, Keep, d) : d \in {2, 4}}],
    \* Requests at once, of one day: an index keeps apart periods, plans and
    \* memberships, and closing what has ended by hand meets the automatic closing.
    at_once |->
      [units |-> Flat, members |-> <<>>, periods |-> Year("open") @@ p2 :> Period(here, "future", 3, 4)
            @@ q1 :> Period(there, "open", 0, 2), objectives |-> <<>>, axes |-> <<>>,
       from |-> 2, to |-> 2, slots |-> 2,
       calls |-> {Open(SA, p2), Close(SA, p1), Close(SA, q1),
                  Upsert(SA, 1), Upsert(SA, 2), Invite(SA, ann, u1), Invite(SA, ann, u2)}]]

VARIABLE scenario

The(field) == Scenarios[scenario][field]

MCInit ==
    /\ scenario \in Chosen
    /\ unit = The("units") /\ member = The("members") /\ period = The("periods")
    /\ objective = The("objectives") /\ axis = The("axes") /\ project = <<>>
    /\ plan = FALSE /\ expired = {}
    /\ today = The("from")
    /\ request = [s \in Requests |-> Idle]

MCNext ==
    /\ Next
    /\ \A s \in Requests \ {Cron} :
         request'[s] # Idle => request'[s].call \in The("calls")
    /\ Cardinality({s \in Requests \ {Cron} : request'[s] # Idle}) <= The("slots")
    /\ today' # today => today' <= The("to") /\ Busy = {}
    /\ UNCHANGED scenario

MCSpec == MCInit /\ [][MCNext]_<<vars, scenario>> /\ Fairness

ReadingsOfObjectives ==
    o1 :> [result |-> 3, resultDeviation |-> -1, execution |-> 2, executionDeviation |-> None, pending |-> 1] @@
    o2 :> [result |-> 8, resultDeviation |-> 2, execution |-> 5, executionDeviation |-> -4, pending |-> 2]

AllCalls == UNION {Scenarios[s].calls : s \in DOMAIN Scenarios}
=============================================================================
