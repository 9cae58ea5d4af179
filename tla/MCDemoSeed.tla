----------------------------- MODULE MCDemoSeed -----------------------------
(***************************************************************************)
(* A year of 365 days, seeded in May or in November.                       *)
(***************************************************************************)
EXTENDS DemoSeed

\* The first day of each month.
Firsts == <<0, 31, 59, 90, 120, 151, 181, 212, 243, 273, 304, 334>>
Months == [k \in 0..24 |-> 365 * (k \div 12) + Firsts[(k % 12) + 1]]

MayAndNovember == {134, 313}
=============================================================================
