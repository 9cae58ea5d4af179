-------------------------- MODULE GovernanceProofs --------------------------
(***************************************************************************)
(* Theorems about Governance, for every set of units, periods, objectives, *)
(* projects, members and calls, and every depth and length of the periods. *)
(*                                                                         *)
(* The code takes no lock between what a request reads and what it writes: *)
(* two requests at once can undo what each alone keeps.  What the services *)
(* keep is what they keep one request at a time, and that is said in each  *)
(* theorem by its hypothesis []OneAtATime.                                 *)
(*                                                                         *)
(* The tree is read by recursive functions.  That there are such functions *)
(* is proved (Iteration), and what they compute in a tree is proved by the *)
(* levels of its units (Levelled), which are what a cycle could not have.  *)
(***************************************************************************)
EXTENDS Governance, OkrDomainProofs

\* Induction over the naturals, for a set of them.
LEMMA Induction ==
    ASSUME NEW Good, 0 \in Good, \A n \in Nat : n \in Good => n + 1 \in Good
    PROVE  \A n \in Nat : n \in Good
<1> SUFFICES ASSUME Nat \ Good # {} PROVE FALSE
  OBVIOUS
<1>1. PICK m \in Nat \ Good : \A n \in Nat \ Good : <<n, m>> \notin OpToRel(<, Nat)
  <2> DEFINE Bad == Nat \ Good
  <2>1. Bad \subseteq Nat /\ Bad # {}
    OBVIOUS
  <2> HIDE DEF Bad
  <2>2. \E x \in Bad : \A y \in Bad : <<y, x>> \notin OpToRel(<, Nat)
    BY <2>1, NatLessThanWellFounded, WFMin
  <2> QED
    BY <2>2 DEF Bad
<1>2. m - 1 \in Nat /\ m - 1 < m /\ (m - 1) + 1 = m
  OBVIOUS
<1>3. m - 1 \notin Good
  BY <1>2
<1>4. <<m - 1, m>> \in OpToRel(<, Nat)
  BY <1>2 DEF OpToRel
<1> QED
  BY <1>1, <1>2, <1>3, <1>4

\* A recursive function that takes a step from what it was before.
Iterates(f, a, step) == f = [n \in Nat |-> IF n = 0 THEN a ELSE step[f[n - 1]]]

\* Such a function exists.
LEMMA Iteration ==
    ASSUME NEW S, NEW a \in S, NEW step \in [S -> S]
    PROVE  \E f \in [Nat -> S] : Iterates(f, a, step)
<1> DEFINE Pre(N, g) == /\ g \in [0 .. N -> S] /\ g[0] = a
                        /\ \A n \in 0 .. N : n > 0 => g[n] = step[g[n - 1]]
           Good == {N \in Nat : \E g : Pre(N, g)}
           G(N) == CHOOSE g : Pre(N, g)
           f == [n \in Nat |-> G(n)[n]]
<1>1. 0 \in Good
  <2> DEFINE g == [n \in 0 .. 0 |-> a]
  <2>1. Pre(0, g)
    OBVIOUS
  <2> QED
    BY <2>1
<1>2. ASSUME NEW N \in Nat, N \in Good PROVE N + 1 \in Good
  <2>1. PICK g : Pre(N, g)
    BY <1>2
  <2> DEFINE h == [n \in 0 .. N + 1 |-> IF n = N + 1 THEN step[g[N]] ELSE g[n]]
  <2>2. h \in [0 .. N + 1 -> S] /\ h[0] = a
    BY <2>1
  <2>3. \A n \in 0 .. N + 1 : n > 0 => h[n] = step[h[n - 1]]
    BY <2>1
  <2> HIDE DEF h
  <2>4. Pre(N + 1, h)
    BY <2>2, <2>3
  <2>5. \E k : Pre(N + 1, k)
    <3> HIDE DEF Pre
    <3> QED
      BY <2>4
  <2> QED
    BY <2>5
<1>3. \A N \in Nat : N \in Good
  <2> HIDE DEF Good
  <2> QED
    BY <1>1, <1>2, Induction
<1>4. \A N \in Nat : Pre(N, G(N))
  BY <1>3
<1>5. ASSUME NEW N \in Nat PROVE G(N + 1)[N] = G(N)[N]
  <2> DEFINE Same == {n \in Nat : n <= N => G(N + 1)[n] = G(N)[n]}
  <2> HIDE DEF G
  <2>1. Pre(N, G(N)) /\ Pre(N + 1, G(N + 1))
    BY <1>4
  <2>2. 0 \in Same
    BY <2>1
  <2>3. ASSUME NEW n \in Nat, n \in Same PROVE n + 1 \in Same
    BY <2>1, <2>3
  <2>4. N \in Same
    <3> HIDE DEF Same
    <3> QED
      BY <2>2, <2>3, Induction
  <2> QED
    BY <2>4
<1>6. ASSUME NEW n \in Nat PROVE f[n] = IF n = 0 THEN a ELSE step[f[n - 1]]
  <2>1. CASE n = 0
    <3> HIDE DEF G
    <3> QED
      BY <2>1, <1>4
  <2>2. CASE n # 0
    <3>1. n - 1 \in Nat /\ (n - 1) + 1 = n
      BY <2>2
    <3>2. G(n)[n - 1] = G(n - 1)[n - 1]
      <4>1. G((n - 1) + 1)[n - 1] = G(n - 1)[n - 1]
        BY <3>1, <1>5
      <4> HIDE DEF G
      <4> QED
        BY <3>1, <4>1
    <3> HIDE DEF G
    <3>3. G(n)[n] = step[G(n)[n - 1]]
      BY <2>2, <1>4
    <3> QED
      BY <2>2, <3>1, <3>2, <3>3
  <2> QED
    BY <2>1, <2>2
<1>7. f = [n \in Nat |-> IF n = 0 THEN a ELSE step[f[n - 1]]]
  <2> HIDE DEF G
  <2>1. f = [n \in Nat |-> f[n]]
    OBVIOUS
  <2> HIDE DEF f
  <2> QED
    BY <1>6, <2>1
<1>8. ASSUME NEW n \in Nat PROVE f[n] \in S
  <2>1. Pre(n, G(n)) /\ f[n] = G(n)[n]
    BY <1>4
  <2> HIDE DEF G, f
  <2> QED
    BY <2>1
<1> HIDE DEF f
<1>9. f \in [Nat -> S]
  BY <1>7, <1>8
<1> QED
  BY <1>7, <1>9 DEF Iterates

-----------------------------------------------------------------------------
\* The recursive functions the tree is read with, and that there are such.
Climbs(f, parent, u) == f = [n \in Nat |->
    IF n = 0 THEN {u}
    ELSE f[n - 1] \cup ({parent[v] : v \in f[n - 1] \cap DOMAIN parent} \ {NoUnit})]
\* The ancestors of a unit, after each step of its climb (Climb's own recursion).
Up(parent, u) == CHOOSE f : Climbs(f, parent, u)

\* There is such a climb, and Climb is where it ends.
LEMMA UpExists == ASSUME NEW parent, NEW u PROVE Climbs(Up(parent, u), parent, u)
<1> DEFINE W == {u} \cup {parent[v] : v \in DOMAIN parent}
           Above(X) == X \cup ({parent[v] : v \in X \cap DOMAIN parent} \ {NoUnit})
           step == [X \in SUBSET W |-> Above(X)]
<1>1. step \in [SUBSET W -> SUBSET W] /\ {u} \in SUBSET W
  OBVIOUS
<1>2. \A X \in SUBSET W : step[X] = Above(X)
  OBVIOUS
<1> HIDE DEF W, step
<1>3. PICK f \in [Nat -> SUBSET W] : Iterates(f, {u}, step)
  BY <1>1, Iteration
<1>4. \A n \in Nat : n # 0 => step[f[n - 1]] = Above(f[n - 1])
  BY <1>2, <1>3
<1>5. f = [n \in Nat |-> IF n = 0 THEN {u} ELSE Above(f[n - 1])]
  BY <1>3, <1>4 DEF Iterates
<1>6. Climbs(f, parent, u)
  BY <1>5 DEF Climbs
<1> QED
  BY <1>6 DEF Up

\* Each step adds the parent of the last unit, as long as that unit is in the tree.
LEMMA UpSteps ==
    ASSUME NEW parent, NEW u
    PROVE  /\ Up(parent, u)[0] = {u}
           /\ \A n \in Nat : Up(parent, u)[n + 1] =
                Up(parent, u)[n] \cup ({parent[v] : v \in Up(parent, u)[n] \cap DOMAIN parent} \ {NoUnit})
<1> DEFINE f == Up(parent, u)
<1>1. Climbs(f, parent, u)
  BY UpExists
<1> HIDE DEF f
<1>2. \A n \in Nat : f[n] = IF n = 0 THEN {u}
           ELSE f[n - 1] \cup ({parent[v] : v \in f[n - 1] \cap DOMAIN parent} \ {NoUnit})
  BY <1>1 DEF Climbs
<1>3. f[0] = {u}
  BY <1>2
<1>4. ASSUME NEW n \in Nat
      PROVE  f[n + 1] = f[n] \cup ({parent[v] : v \in f[n] \cap DOMAIN parent} \ {NoUnit})
  <2>1. n + 1 \in Nat /\ n + 1 # 0 /\ (n + 1) - 1 = n
    OBVIOUS
  <2> QED
    BY <1>2, <2>1
<1> QED
  BY <1>3, <1>4 DEF f

\* Climb is the climb after as many steps as there are units.
LEMMA ClimbIsUp ==
    ASSUME NEW parent, NEW u PROVE Climb(parent, u) = Up(parent, u)[Cardinality(DOMAIN parent) + 1]
  BY DEF Climb, Up, Climbs

\* A unit is among those it climbs to.
LEMMA ClimbStarts ==
    ASSUME NEW parent, IsFiniteSet(DOMAIN parent), NEW u PROVE u \in Climb(parent, u)
<1> DEFINE Good == {n \in Nat : u \in Up(parent, u)[n]}
<1>1. 0 \in Good /\ \A n \in Nat : n \in Good => n + 1 \in Good
  BY UpSteps
<1> HIDE DEF Good
<1>2. \A n \in Nat : n \in Good
  BY <1>1, Induction
<1> QED
  BY <1>2, ClimbIsUp, FS_CardinalityType DEF Good

-----------------------------------------------------------------------------
(* A tree by its levels.                                                   *)

\* The levels of the units: 1 for those without parent, one more than that of
\* their parent for the rest.
Levelled(P, L) ==
    /\ NoUnit \notin DOMAIN P
    /\ \A u \in DOMAIN P :
         /\ L[u] \in Nat \ {0}
         /\ \/ P[u] = NoUnit /\ L[u] = 1
            \/ P[u] \in DOMAIN P /\ L[u] = L[P[u]] + 1

\* There are no more levels than units.
LEMMA LevelsBounded ==
    ASSUME NEW P, NEW L, Levelled(P, L), IsFiniteSet(DOMAIN P), NEW u \in DOMAIN P
    PROVE  L[u] <= Cardinality(DOMAIN P) /\ Cardinality(DOMAIN P) \in Nat
<1> DEFINE D == DOMAIN P
           level == [v \in D |-> L[v]]
           used == {level[v] : v \in D}
           Good == {n \in Nat : n + 1 <= L[u] => L[u] - n \in used}
<1>1. 0 \in Good
  BY DEF Levelled
<1>2. ASSUME NEW n \in Nat, n \in Good PROVE n + 1 \in Good
  <2> SUFFICES ASSUME (n + 1) + 1 <= L[u] PROVE L[u] - (n + 1) \in used
    OBVIOUS
  <2>1. PICK v \in D : L[u] - n = L[v]
    BY <1>2 DEF Levelled
  <2>2. L[v] # 1
    BY <2>1 DEF Levelled
  <2>3. P[v] \in D /\ L[v] = L[P[v]] + 1 /\ L[P[v]] \in Nat
    BY <2>1, <2>2 DEF Levelled
  <2>4. L[u] - (n + 1) = L[P[v]]
    BY <2>1, <2>3 DEF Levelled
  <2> QED
    BY <2>3, <2>4
<1>3. \A n \in Nat : n \in Good
  <2> HIDE DEF Good
  <2> QED
    BY <1>1, <1>2, Induction
<1>4. ASSUME NEW k \in 1 .. L[u] PROVE k \in used
  <2>1. L[u] - k \in Nat /\ (L[u] - k) + 1 <= L[u] /\ L[u] - (L[u] - k) = k
    BY DEF Levelled
  <2>2. L[u] - (L[u] - k) \in used
    BY <1>3, <2>1
  <2> QED
    BY <2>1, <2>2
<1>5. IsFiniteSet(used) /\ Cardinality(used) <= Cardinality(D)
  <2>1. level \in Surjection(D, used)
    BY DEF Surjection
  <2> HIDE DEF level, used
  <2> QED
    BY <2>1, FS_Surjection
<1>6. L[u] \in Nat /\ Cardinality(1 .. L[u]) = L[u]
  <2>1. L[u] \in Nat /\ L[u] >= 1
    BY DEF Levelled
  <2> QED
    BY <2>1, FS_Interval
<1> HIDE DEF used
<1>7. Cardinality(1 .. L[u]) <= Cardinality(used)
  BY <1>4, <1>5, FS_Subset
<1> QED
  BY <1>5, <1>6, <1>7, FS_CardinalityType

\* A root climbs no further, any other unit goes through its parent.
LEMMA UpOfRoot ==
    ASSUME NEW P, NEW L, Levelled(P, L), NEW u \in DOMAIN P, P[u] = NoUnit
    PROVE  \A n \in Nat : Up(P, u)[n] = {u}
<1> DEFINE Good == {n \in Nat : Up(P, u)[n] = {u}}
<1>1. 0 \in Good
  BY UpSteps
<1>2. ASSUME NEW n \in Nat, n \in Good PROVE n + 1 \in Good
  BY <1>2, UpSteps
<1> HIDE DEF Good
<1>3. \A n \in Nat : n \in Good
  BY <1>1, <1>2, Induction
<1> QED
  BY <1>3 DEF Good

\* The climb of a unit is the unit and the climb of its parent.
LEMMA UpThroughParent ==
    ASSUME NEW P, NEW L, Levelled(P, L), NEW u \in DOMAIN P, P[u] \in DOMAIN P
    PROVE  \A n \in Nat : Up(P, u)[n + 1] = {u} \cup Up(P, P[u])[n]
<1> DEFINE Good == {n \in Nat : Up(P, u)[n + 1] = {u} \cup Up(P, P[u])[n]}
<1>0. P[u] # NoUnit
  BY DEF Levelled
<1>1. 0 \in Good
  <2>1. Up(P, u)[0 + 1] = {u} \cup ({P[v] : v \in {u} \cap DOMAIN P} \ {NoUnit})
    <3>1. Up(P, u)[0 + 1] = Up(P, u)[0] \cup ({P[v] : v \in Up(P, u)[0] \cap DOMAIN P} \ {NoUnit})
      BY UpSteps
    <3>2. Up(P, u)[0] = {u}
      BY UpSteps
    <3> QED
      BY <3>1, <3>2
  <2>2. Up(P, P[u])[0] = {P[u]}
    BY UpSteps
  <2> QED
    BY <1>0, <2>1, <2>2
<1>2. ASSUME NEW n \in Nat, n \in Good PROVE n + 1 \in Good
  <2> DEFINE A == Up(P, u)[n + 1]
             B == Up(P, P[u])[n]
  <2>1. A = {u} \cup B
    BY <1>2
  <2>2. Up(P, u)[(n + 1) + 1] = A \cup ({P[v] : v \in A \cap DOMAIN P} \ {NoUnit})
    BY UpSteps
  <2>3. Up(P, P[u])[n + 1] = B \cup ({P[v] : v \in B \cap DOMAIN P} \ {NoUnit})
    BY UpSteps
  <2>4. P[u] \in Up(P, P[u])[n + 1]
    <3> DEFINE Start == {k \in Nat : P[u] \in Up(P, P[u])[k]}
    <3>1. 0 \in Start /\ \A k \in Nat : k \in Start => k + 1 \in Start
      BY UpSteps
    <3> HIDE DEF Start
    <3>2. n + 1 \in Start
      BY <3>1, Induction
    <3> QED
      BY <3>2 DEF Start
  <2>5. Up(P, u)[(n + 1) + 1] = {u} \cup Up(P, P[u])[n + 1]
    <3> DEFINE C == Up(P, P[u])[n + 1]
    <3> HIDE DEF A, B, C
    <3> QED
      BY <1>0, <2>1, <2>2, <2>3, <2>4 DEF C
  <2> QED
    BY <2>5
<1> HIDE DEF Good
<1>3. \A n \in Nat : n \in Good
  BY <1>1, <1>2, Induction
<1> QED
  BY <1>3 DEF Good

\* After as many steps as levels nothing is added.
LEMMA UpSettles ==
    ASSUME NEW P, NEW L, Levelled(P, L)
    PROVE  \A n \in Nat : \A u \in DOMAIN P : L[u] <= n + 1 => Up(P, u)[n + 1] = Up(P, u)[n]
<1> DEFINE Good == {n \in Nat : \A u \in DOMAIN P : L[u] <= n + 1 => Up(P, u)[n + 1] = Up(P, u)[n]}
<1>1. 0 \in Good
  <2>1. ASSUME NEW u \in DOMAIN P, L[u] <= 0 + 1 PROVE Up(P, u)[0 + 1] = Up(P, u)[0]
    <3>1. P[u] = NoUnit
      BY <2>1 DEF Levelled
    <3> QED
      BY <3>1, UpOfRoot
  <2> QED
    BY <2>1
<1>2. ASSUME NEW n \in Nat, n \in Good PROVE n + 1 \in Good
  <2>1. ASSUME NEW u \in DOMAIN P, L[u] <= (n + 1) + 1 PROVE Up(P, u)[(n + 1) + 1] = Up(P, u)[n + 1]
    <3>1. CASE P[u] = NoUnit
      BY <3>1, UpOfRoot
    <3>2. CASE P[u] \in DOMAIN P /\ L[u] = L[P[u]] + 1
      <4>1. L[P[u]] <= n + 1
        BY <2>1, <3>2 DEF Levelled
      <4>2. Up(P, P[u])[n + 1] = Up(P, P[u])[n]
        BY <1>2, <3>2, <4>1
      <4>3. Up(P, u)[(n + 1) + 1] = {u} \cup Up(P, P[u])[n + 1] /\ Up(P, u)[n + 1] = {u} \cup Up(P, P[u])[n]
        BY <3>2, UpThroughParent
      <4> QED
        BY <4>2, <4>3
    <3> QED
      BY <3>1, <3>2 DEF Levelled
  <2> QED
    BY <2>1
<1> HIDE DEF Good
<1>3. \A n \in Nat : n \in Good
  BY <1>1, <1>2, Induction
<1> QED
  BY <1>3 DEF Good

\* What a unit climbs to: itself and what its parent climbs to.
LEMMA ClimbGoesUp ==
    ASSUME NEW P, NEW L, Levelled(P, L), IsFiniteSet(DOMAIN P), NEW u \in DOMAIN P
    PROVE  /\ P[u] = NoUnit => Climb(P, u) = {u}
           /\ P[u] \in DOMAIN P => Climb(P, u) = {u} \cup Climb(P, P[u])
<1> DEFINE N == Cardinality(DOMAIN P)
<1>0. N \in Nat /\ \A v \in DOMAIN P : L[v] <= N /\ L[v] \in Nat
  BY LevelsBounded, FS_CardinalityType DEF Levelled
<1>1. ASSUME P[u] = NoUnit PROVE Climb(P, u) = {u}
  BY <1>0, <1>1, ClimbIsUp, UpOfRoot
<1>2. ASSUME P[u] \in DOMAIN P PROVE Climb(P, u) = {u} \cup Climb(P, P[u])
  <2>1. Climb(P, u) = Up(P, u)[N + 1] /\ Climb(P, P[u]) = Up(P, P[u])[N + 1]
    BY ClimbIsUp
  <2> HIDE DEF N
  <2>2. Up(P, u)[N + 1] = {u} \cup Up(P, P[u])[N]
    BY <1>0, <1>2, UpThroughParent
  <2>3. L[P[u]] <= N + 1
    BY <1>0, <1>2
  <2>4. Up(P, P[u])[N + 1] = Up(P, P[u])[N]
    BY <1>0, <1>2, <2>3, UpSettles
  <2> QED
    BY <2>1, <2>2, <2>4
<1> QED
  BY <1>1, <1>2

\* The units a unit climbs to are one of each level above its own.
LEMMA ClimbByLevels ==
    ASSUME NEW P, NEW L, Levelled(P, L), IsFiniteSet(DOMAIN P)
    PROVE  \A u \in DOMAIN P :
             /\ Climb(P, u) \subseteq DOMAIN P /\ IsFiniteSet(Climb(P, u))
             /\ Cardinality(Climb(P, u)) = L[u]
             /\ \A v \in Climb(P, u) : v # u => L[v] < L[u]
<1> DEFINE Fine(u) == /\ Climb(P, u) \subseteq DOMAIN P /\ IsFiniteSet(Climb(P, u))
                      /\ Cardinality(Climb(P, u)) = L[u]
                      /\ \A v \in Climb(P, u) : v # u => L[v] < L[u]
           Good == {n \in Nat : \A u \in DOMAIN P : L[u] <= n => Fine(u)}
<1>1. 0 \in Good
  BY DEF Levelled
<1>2. ASSUME NEW n \in Nat, n \in Good PROVE n + 1 \in Good
  <2>1. ASSUME NEW u \in DOMAIN P, L[u] <= n + 1 PROVE Fine(u)
    <3>1. CASE P[u] = NoUnit
      <4>1. Climb(P, u) = {u} /\ L[u] = 1
        BY <3>1, ClimbGoesUp DEF Levelled
      <4>2. IsFiniteSet({u}) /\ Cardinality({u}) = 1
        BY FS_Singleton
      <4> QED
        BY <4>1, <4>2
    <3>2. CASE P[u] \in DOMAIN P /\ L[u] = L[P[u]] + 1
      <4> DEFINE q == P[u]
                 C == Climb(P, q)
      <4>1. Climb(P, u) = {u} \cup C
        BY <3>2, ClimbGoesUp
      <4>2. L[q] <= n /\ L[q] \in Nat /\ L[q] < L[u]
        BY <2>1, <3>2 DEF Levelled
      <4>3. Fine(q)
        BY <1>2, <3>2, <4>2
      <4>4. \A v \in C : L[v] <= L[q] /\ L[v] \in Nat
        BY <4>2, <4>3 DEF Levelled
      <4>5. u \notin C
        BY <4>2, <4>4
      <4>6. IsFiniteSet(C \cup {u}) /\ Cardinality(C \cup {u}) = L[q] + 1
        <5>1. IsFiniteSet(C) /\ Cardinality(C) = L[q]
          BY <4>3
        <5> HIDE DEF C
        <5> QED
          BY <4>5, <5>1, FS_AddElement
      <4>7. Climb(P, u) = C \cup {u}
        BY <4>1
      <4> HIDE DEF C
      <4>8. \A v \in C \cup {u} : v # u => L[v] < L[u]
        BY <4>2, <4>4 DEF Levelled
      <4>9. C \subseteq DOMAIN P
        BY <4>3 DEF C
      <4> QED
        BY <3>2, <4>6, <4>7, <4>8, <4>9
    <3> QED
      BY <3>1, <3>2 DEF Levelled
  <2> QED
    BY <2>1
<1>3. \A n \in Nat : n \in Good
  <2> HIDE DEF Good
  <2> QED
    BY <1>1, <1>2, Induction
<1>4. ASSUME NEW u \in DOMAIN P PROVE Fine(u)
  <2>1. L[u] \in Nat /\ L[u] <= L[u]
    BY DEF Levelled
  <2> HIDE DEF Fine
  <2> QED
    BY <1>3, <2>1
<1> QED
  BY <1>4

\* So the depth of a unit is its level.
LEMMA DepthIsLevel ==
    ASSUME NEW P, NEW L, Levelled(P, L), IsFiniteSet(DOMAIN P), NEW u \in DOMAIN P
    PROVE  DepthOf(P, u) = L[u]
  BY ClimbByLevels DEF DepthOf

\* The levels that hang from a unit.
Hangs(f, parent, u) == f = [n \in Nat |->
    IF n = 0 THEN {u} ELSE {v \in DOMAIN parent \ {u} : parent[v] \in f[n - 1]}]
\* The units at each distance below a unit (SubtreeHeight's own recursion).
Levels(parent, u) == CHOOSE f : Hangs(f, parent, u)

\* Each step goes to the children.
LEMMA LevelsSteps ==
    ASSUME NEW parent, NEW u
    PROVE  /\ Levels(parent, u)[0] = {u}
           /\ \A n \in Nat : Levels(parent, u)[n + 1] =
                {v \in DOMAIN parent \ {u} : parent[v] \in Levels(parent, u)[n]}
<1> DEFINE W == {u} \cup DOMAIN parent
           Next1(X) == {v \in DOMAIN parent \ {u} : parent[v] \in X}
           step == [X \in SUBSET W |-> Next1(X)]
<1>1. step \in [SUBSET W -> SUBSET W] /\ {u} \in SUBSET W
  OBVIOUS
<1>2. \A X \in SUBSET W : step[X] = Next1(X)
  OBVIOUS
<1> HIDE DEF W, step
<1>3. PICK g \in [Nat -> SUBSET W] : Iterates(g, {u}, step)
  BY <1>1, Iteration
<1>4. \A n \in Nat : n # 0 => step[g[n - 1]] = Next1(g[n - 1])
  BY <1>2, <1>3
<1>5. g = [n \in Nat |-> IF n = 0 THEN {u} ELSE Next1(g[n - 1])]
  BY <1>3, <1>4 DEF Iterates
<1>6. Hangs(g, parent, u)
  BY <1>5 DEF Hangs
<1> DEFINE f == Levels(parent, u)
<1>7. Hangs(f, parent, u)
  BY <1>6 DEF Levels
<1> HIDE DEF f
<1>8. \A n \in Nat : f[n] = IF n = 0 THEN {u} ELSE {v \in DOMAIN parent \ {u} : parent[v] \in f[n - 1]}
  BY <1>7 DEF Hangs
<1>9. f[0] = {u}
  BY <1>8
<1>10. ASSUME NEW n \in Nat PROVE f[n + 1] = {v \in DOMAIN parent \ {u} : parent[v] \in f[n]}
  <2>1. n + 1 \in Nat /\ n + 1 # 0 /\ (n + 1) - 1 = n
    OBVIOUS
  <2> QED
    BY <1>8, <2>1
<1> QED
  BY <1>9, <1>10 DEF f

\* Whoever climbs to u is as far below it as their levels say, and the subtree of
\* u is at least as high as that.
LEMMA BelowByLevels ==
    ASSUME NEW P, NEW L, Levelled(P, L), IsFiniteSet(DOMAIN P), NEW u \in DOMAIN P
    PROVE  \A n \in Nat : \A v \in DOMAIN P :
              u \in Climb(P, v) /\ L[v] = L[u] + n => v \in Levels(P, u)[n]
<1> DEFINE Good == {n \in Nat : \A v \in DOMAIN P : u \in Climb(P, v) /\ L[v] = L[u] + n => v \in Levels(P, u)[n]}
<1>0. \A v \in DOMAIN P : L[v] \in Nat
  BY DEF Levelled
<1>1. 0 \in Good
  <2>1. ASSUME NEW v \in DOMAIN P, u \in Climb(P, v), L[v] = L[u] + 0 PROVE v \in Levels(P, u)[0]
    <3>1. u = v
      BY <1>0, <2>1, ClimbByLevels
    <3> QED
      BY <3>1, LevelsSteps
  <2> QED
    BY <2>1
<1>2. ASSUME NEW n \in Nat, n \in Good PROVE n + 1 \in Good
  <2>1. ASSUME NEW v \in DOMAIN P, u \in Climb(P, v), L[v] = L[u] + (n + 1) PROVE v \in Levels(P, u)[n + 1]
    <3>1. v # u /\ L[v] # 1
      BY <1>0, <2>1 DEF Levelled
    <3>2. P[v] \in DOMAIN P /\ L[v] = L[P[v]] + 1
      BY <3>1 DEF Levelled
    <3>3. u \in Climb(P, P[v])
      BY <2>1, <3>1, <3>2, ClimbGoesUp
    <3>4. L[P[v]] = L[u] + n
      BY <1>0, <2>1, <3>2
    <3>5. P[v] \in Levels(P, u)[n]
      BY <1>2, <3>2, <3>3, <3>4
    <3> QED
      BY <3>1, <3>5, LevelsSteps
  <2> QED
    BY <2>1
<1> HIDE DEF Good
<1>3. \A n \in Nat : n \in Good
  BY <1>1, <1>2, Induction
<1> QED
  BY <1>3 DEF Good

\* No unit below another is further from it than the height of its subtree.
LEMMA HeightReaches ==
    ASSUME NEW P, NEW L, Levelled(P, L), IsFiniteSet(DOMAIN P), NEW u \in DOMAIN P,
           NEW v \in DOMAIN P, u \in Climb(P, v)
    PROVE  L[v] - L[u] + 1 <= SubtreeHeight(P, u) /\ SubtreeHeight(P, u) \in Nat
<1> DEFINE N == Cardinality(DOMAIN P)
           f == Levels(P, u)
           d == L[v] - L[u]
           levels == {n \in 0 .. N : f[n] # {}}
           Good == {k \in Nat : k <= d => f[d - k] # {}}
<1>0. N \in Nat /\ L[v] <= N /\ L[v] \in Nat \ {0} /\ L[u] \in Nat \ {0}
  BY LevelsBounded DEF Levelled
<1>1. d \in Nat /\ d <= N
  <2>1. v # u => L[u] < L[v]
    BY ClimbByLevels
  <2> QED
    BY <1>0, <2>1
<1>2. f[d] # {}
  <2>1. L[v] = L[u] + d
    BY <1>0
  <2> HIDE DEF d
  <2> QED
    BY <1>1, <2>1, BelowByLevels
<1> HIDE DEF d, f, N
<1>3. 0 \in Good
  <2>1. d - 0 = d
    BY <1>1
  <2> QED
    BY <1>2, <2>1
<1>4. ASSUME NEW k \in Nat, k \in Good PROVE k + 1 \in Good
  <2> SUFFICES ASSUME k + 1 <= d PROVE f[d - (k + 1)] # {}
    OBVIOUS
  <2> DEFINE m == d - (k + 1)
  <2>1. m \in Nat /\ d - k = m + 1 /\ k <= d
    BY <1>1
  <2> HIDE DEF m
  <2>2. f[m + 1] # {}
    BY <1>4, <2>1
  <2>3. f[m + 1] = {w \in DOMAIN P \ {u} : P[w] \in f[m]}
    BY <2>1, LevelsSteps DEF f
  <2>4. f[m] # {}
    BY <2>2, <2>3
  <2> QED
    BY <2>4 DEF m
<1>5. \A k \in Nat : k \in Good
  <2> HIDE DEF Good
  <2> QED
    BY <1>3, <1>4, Induction
<1>6. ASSUME NEW n \in 0 .. d PROVE n \in levels
  <2>1. d - n \in Nat /\ d - n <= d /\ d - (d - n) = n
    BY <1>1
  <2>2. f[d - (d - n)] # {}
    BY <1>5, <2>1
  <2> QED
    BY <1>0, <1>1, <2>1, <2>2
<1>7. IsFiniteSet(levels)
  <2>1. IsFiniteSet(0 .. N)
    BY <1>0, FS_Interval
  <2>2. levels \in SUBSET (0 .. N)
    OBVIOUS
  <2> HIDE DEF levels
  <2> QED
    BY <2>1, <2>2, FS_Subset
<1>8. SubtreeHeight(P, u) = Cardinality(levels)
  BY DEF SubtreeHeight, Levels, Hangs, f, N
<1> HIDE DEF levels
<1>9. Cardinality(0 .. d) = d + 1
  BY <1>1, FS_Interval
<1>10. Cardinality(0 .. d) <= Cardinality(levels) /\ Cardinality(levels) \in Nat
  BY <1>6, <1>7, FS_Subset, FS_CardinalityType
<1> QED
  BY <1>1, <1>8, <1>9, <1>10 DEF d

-----------------------------------------------------------------------------
(* A tree that grows, loses a leaf, or has a unit moved.                   *)

\* A tree stays one when a leaf is added,
LEMMA LeafAdded ==
    ASSUME NEW P, NEW L, Levelled(P, L), NEW w, w \notin DOMAIN P, w # NoUnit, NEW q \in DOMAIN P
    PROVE  Levelled([v \in DOMAIN P \cup {w} |-> IF v = w THEN q ELSE P[v]],
                    [v \in DOMAIN P \cup {w} |-> IF v = w THEN L[q] + 1 ELSE L[v]])
<1> DEFINE R == [v \in DOMAIN P \cup {w} |-> IF v = w THEN q ELSE P[v]]
           M == [v \in DOMAIN P \cup {w} |-> IF v = w THEN L[q] + 1 ELSE L[v]]
<1>1. DOMAIN R = DOMAIN P \cup {w} /\ R[w] = q /\ M[w] = L[q] + 1
  OBVIOUS
<1>2. \A v \in DOMAIN P : R[v] = P[v] /\ M[v] = L[v]
  OBVIOUS
<1> HIDE DEF R, M
<1>3. L[q] \in Nat /\ NoUnit \notin DOMAIN R
  BY <1>1 DEF Levelled
<1>4. Levelled(R, M)
  BY <1>1, <1>2, <1>3 DEF Levelled
<1> QED
  BY <1>4 DEF R, M

\* when a leaf is removed,
LEMMA LeafRemoved ==
    ASSUME NEW P, NEW L, Levelled(P, L), NEW w, \A v \in DOMAIN P : P[v] # w
    PROVE  Levelled([v \in DOMAIN P \ {w} |-> P[v]], L)
  BY DEF Levelled

\* The levels once u and what hangs from it moved under q.
MovedLevels(P, L, u, q) ==
    [v \in DOMAIN P |-> IF u \in Climb(P, v) THEN L[v] - L[u] + (L[q] + 1) ELSE L[v]]

\* and when a unit moves to a place that is not below it.
LEMMA UnitMoved ==
    ASSUME NEW P, NEW L, Levelled(P, L), IsFiniteSet(DOMAIN P), NEW u \in DOMAIN P, NEW q \in DOMAIN P,
           u \notin Climb(P, q)
    PROVE  /\ Levelled([P EXCEPT ![u] = q], MovedLevels(P, L, u, q))
           /\ \A v \in DOMAIN P : \/ MovedLevels(P, L, u, q)[v] = L[v]
                                  \/ MovedLevels(P, L, u, q)[v] <= L[q] + SubtreeHeight(P, u)
<1> DEFINE R == [P EXCEPT ![u] = q]
           M == MovedLevels(P, L, u, q)
<1>0. \A v \in DOMAIN P : L[v] \in Nat /\ L[v] > 0
  BY DEF Levelled
<1>1. DOMAIN R = DOMAIN P /\ R[u] = q /\ \A v \in DOMAIN P : v # u => R[v] = P[v]
  OBVIOUS
<1>2. \A v \in DOMAIN P : M[v] = IF u \in Climb(P, v) THEN L[v] - L[u] + (L[q] + 1) ELSE L[v]
  BY DEF MovedLevels
<1>3. u \in Climb(P, u) /\ M[u] = L[q] + 1 /\ M[q] = L[q]
  BY <1>0, <1>2, ClimbStarts
<1> HIDE DEF R, M
<1>4. ASSUME NEW v \in DOMAIN P
      PROVE  /\ M[v] \in Nat \ {0}
             /\ \/ R[v] = NoUnit /\ M[v] = 1
                \/ R[v] \in DOMAIN P /\ M[v] = M[R[v]] + 1
  <2>1. CASE v = u
    BY <1>0, <1>1, <1>3, <2>1
  <2>2. CASE v # u /\ P[v] = NoUnit
    <3>1. Climb(P, v) = {v}
      BY <2>2, ClimbGoesUp
    <3> QED
      <4>1. M[v] = L[v] /\ R[v] = NoUnit
        BY <1>1, <1>2, <2>2, <3>1
      <4>2. L[v] = 1
        BY <2>2 DEF Levelled
      <4> QED
        BY <4>1, <4>2
  <2>3. CASE v # u /\ P[v] \in DOMAIN P /\ L[v] = L[P[v]] + 1
    <3>1. u \in Climb(P, v) <=> u \in Climb(P, P[v])
      BY <2>3, ClimbGoesUp
    <3>2. u \in Climb(P, v) => L[v] > L[u]
      BY <2>3, ClimbByLevels
    <3>3. M[v] = M[P[v]] + 1
      BY <1>0, <1>2, <2>3, <3>1
    <3>4. M[v] \in Nat \ {0}
      BY <1>0, <1>2, <2>3, <3>2
    <3> QED
      BY <1>1, <2>3, <3>3, <3>4
  <2> QED
    BY <2>1, <2>2, <2>3 DEF Levelled
<1>5. Levelled(R, M)
  BY <1>1, <1>4 DEF Levelled
<1>6. ASSUME NEW v \in DOMAIN P PROVE M[v] = L[v] \/ M[v] <= L[q] + SubtreeHeight(P, u)
  <2>1. CASE u \in Climb(P, v)
    <3>1. L[v] - L[u] + 1 <= SubtreeHeight(P, u) /\ SubtreeHeight(P, u) \in Nat
      BY <2>1, HeightReaches
    <3> QED
      BY <1>0, <1>2, <2>1, <3>1
  <2> QED
    BY <1>2, <2>1
<1> QED
  BY <1>5, <1>6 DEF R, M

-----------------------------------------------------------------------------
(* What is reached from the roots is everything.                           *)

\* The units reached from some roots after each step (the recursion of the readings).
Reaches(f, parent, roots) == f = [n \in Nat |->
    IF n = 0 THEN roots ELSE f[n - 1] \cup UNION {ChildrenOf(parent, u) : u \in f[n - 1]}]
\* The units reached from some roots after each step.
Reach(parent, roots) == CHOOSE f : Reaches(f, parent, roots)

\* Each step adds the children of what was reached.
LEMMA ReachSteps ==
    ASSUME NEW parent, NEW roots
    PROVE  /\ Reach(parent, roots)[0] = roots
           /\ \A n \in Nat : Reach(parent, roots)[n + 1] =
                Reach(parent, roots)[n] \cup UNION {ChildrenOf(parent, u) : u \in Reach(parent, roots)[n]}
<1> DEFINE W == roots \cup DOMAIN parent
           Next1(X) == X \cup UNION {ChildrenOf(parent, u) : u \in X}
           step == [X \in SUBSET W |-> Next1(X)]
<1>1. step \in [SUBSET W -> SUBSET W] /\ roots \in SUBSET W
  BY DEF ChildrenOf
<1>2. \A X \in SUBSET W : step[X] = Next1(X)
  OBVIOUS
<1> HIDE DEF W, step
<1>3. PICK g \in [Nat -> SUBSET W] : Iterates(g, roots, step)
  BY <1>1, Iteration
<1>4. \A n \in Nat : n # 0 => step[g[n - 1]] = Next1(g[n - 1])
  BY <1>2, <1>3
<1>5. g = [n \in Nat |-> IF n = 0 THEN roots ELSE Next1(g[n - 1])]
  BY <1>3, <1>4 DEF Iterates
<1>6. Reaches(g, parent, roots)
  BY <1>5 DEF Reaches
<1> DEFINE f == Reach(parent, roots)
<1>7. Reaches(f, parent, roots)
  BY <1>6 DEF Reach
<1> HIDE DEF f
<1>8. \A n \in Nat : f[n] = IF n = 0 THEN roots ELSE Next1(f[n - 1])
  BY <1>7 DEF Reaches
<1>9. f[0] = roots
  BY <1>8
<1>10. ASSUME NEW n \in Nat PROVE f[n + 1] = Next1(f[n])
  <2>1. n + 1 \in Nat /\ n + 1 # 0 /\ (n + 1) - 1 = n
    OBVIOUS
  <2> HIDE DEF Next1
  <2> QED
    BY <1>8, <2>1
<1> QED
  BY <1>9, <1>10 DEF f

\* In a tree the roots are the units without a parent,
LEMMA RootsAreParentless ==
    ASSUME NEW P, NEW L, Levelled(P, L)
    PROVE  Roots(P) = {u \in DOMAIN P : P[u] = NoUnit}
  BY DEF Levelled, Roots

\* The subtree of u is reached from it, level by level.
LEMMA SubtreeReached ==
    ASSUME NEW P, NEW L, Levelled(P, L), IsFiniteSet(DOMAIN P), NEW roots \in SUBSET DOMAIN P
    PROVE  ReachedFrom(P, roots) = {v \in DOMAIN P : Climb(P, v) \cap roots # {}}
<1> DEFINE f == Reach(P, roots)
           N == Cardinality(DOMAIN P)
           All == {v \in DOMAIN P : Climb(P, v) \cap roots # {}}
           Inside == {n \in Nat : f[n] \subseteq All}
           Good == {n \in Nat : \A v \in All : L[v] <= n + 1 => v \in f[n]}
<1>0. N \in Nat /\ \A v \in DOMAIN P : L[v] <= N /\ L[v] \in Nat /\ L[v] > 0
  BY LevelsBounded, FS_CardinalityType DEF Levelled
<1>1. ReachedFrom(P, roots) = f[N]
  BY DEF ReachedFrom, Reach, Reaches
<1> HIDE DEF N
<1>2. f[0] = roots /\ \A n \in Nat : f[n + 1] = f[n] \cup UNION {ChildrenOf(P, u) : u \in f[n]}
  BY ReachSteps
<1> HIDE DEF f
<1>3. 0 \in Inside
  BY <1>2, ClimbStarts
<1>4. ASSUME NEW n \in Nat, n \in Inside PROVE n + 1 \in Inside
  <2>1. ASSUME NEW v \in f[n + 1] PROVE v \in All
    <3>1. v \in f[n] \/ \E u \in f[n] : v \in ChildrenOf(P, u)
      BY <1>2
    <3>2. ASSUME NEW u \in f[n], v \in ChildrenOf(P, u) PROVE v \in All
      <4>1. v \in DOMAIN P /\ P[v] = u /\ u \in All
        BY <1>4, <3>2 DEF ChildrenOf
      <4>2. Climb(P, v) = {v} \cup Climb(P, u)
        BY <4>1, ClimbGoesUp
      <4> QED
        BY <4>1, <4>2
    <3> QED
      BY <1>4, <3>1, <3>2
  <2> QED
    BY <2>1
<1>5. f[N] \subseteq All
  <2> HIDE DEF Inside
  <2>1. N \in Inside
    BY <1>0, <1>3, <1>4, Induction
  <2> QED
    BY <2>1 DEF Inside
<1>6. 0 \in Good
  <2>1. ASSUME NEW v \in All, L[v] <= 0 + 1 PROVE v \in f[0]
    <3>1. P[v] = NoUnit
      BY <1>0, <2>1 DEF Levelled
    <3>2. Climb(P, v) = {v}
      BY <3>1, ClimbGoesUp
    <3> QED
      BY <1>2, <2>1, <3>2
  <2> QED
    BY <2>1
<1>7. ASSUME NEW n \in Nat, n \in Good PROVE n + 1 \in Good
  <2>1. ASSUME NEW v \in All, L[v] <= (n + 1) + 1 PROVE v \in f[n + 1]
    <3>0. roots \subseteq f[n]
      <4> DEFINE Start == {k \in Nat : roots \subseteq f[k]}
      <4>1. 0 \in Start /\ \A k \in Nat : k \in Start => k + 1 \in Start
        BY <1>2
      <4> HIDE DEF Start
      <4>2. n \in Start
        BY <4>1, Induction
      <4> QED
        BY <4>2 DEF Start
    <3>1. CASE v \in roots
      BY <1>2, <3>0, <3>1
    <3>2. CASE v \notin roots
      <4>1. P[v] # NoUnit
        BY <2>1, <3>2, ClimbGoesUp
      <4>2. P[v] \in DOMAIN P /\ L[v] = L[P[v]] + 1
        BY <4>1 DEF Levelled
      <4>3. Climb(P, v) = {v} \cup Climb(P, P[v])
        BY <4>2, ClimbGoesUp
      <4>4. P[v] \in All /\ L[P[v]] <= n + 1
        BY <1>0, <2>1, <3>2, <4>2, <4>3
      <4>5. P[v] \in f[n]
        BY <1>7, <4>4
      <4>6. v \in ChildrenOf(P, P[v])
        BY <4>1, <4>2, RootsAreParentless DEF ChildrenOf
      <4> QED
        BY <1>2, <4>5, <4>6
    <3> QED
      BY <3>1, <3>2
  <2> QED
    BY <2>1
<1>8. ASSUME NEW v \in All PROVE v \in f[N]
  <2> HIDE DEF Good, All
  <2>1. N \in Good
    BY <1>0, <1>6, <1>7, Induction
  <2>2. v \in DOMAIN P
    BY DEF All
  <2> QED
    BY <1>0, <2>1, <2>2 DEF Good
<1> QED
  BY <1>1, <1>5, <1>8

\* and every unit is reached from them: nothing is left out of the readings.
LEMMA EverythingIsShown ==
    ASSUME NEW P, NEW L, Levelled(P, L), IsFiniteSet(DOMAIN P)
    PROVE  ShownUnits(P) = DOMAIN P
<1> DEFINE Good == {n \in Nat : \A v \in DOMAIN P : L[v] <= n => Climb(P, v) \cap Roots(P) # {}}
<1>1. 0 \in Good
  BY DEF Levelled
<1>2. ASSUME NEW n \in Nat, n \in Good PROVE n + 1 \in Good
  <2>1. ASSUME NEW v \in DOMAIN P, L[v] <= n + 1 PROVE Climb(P, v) \cap Roots(P) # {}
    <3>1. CASE P[v] = NoUnit
      BY <3>1, RootsAreParentless, ClimbStarts
    <3>2. CASE P[v] \in DOMAIN P /\ L[v] = L[P[v]] + 1
      <4>1. L[P[v]] <= n
        BY <2>1, <3>2 DEF Levelled
      <4>2. Climb(P, P[v]) \cap Roots(P) # {}
        BY <1>2, <3>2, <4>1
      <4>3. Climb(P, v) = {v} \cup Climb(P, P[v])
        BY <3>2, ClimbGoesUp
      <4> QED
        BY <4>2, <4>3
    <3> QED
      BY <3>1, <3>2 DEF Levelled
  <2> QED
    BY <2>1
<1>3. \A n \in Nat : n \in Good
  <2> HIDE DEF Good
  <2> QED
    BY <1>1, <1>2, Induction
<1>4. ASSUME NEW v \in DOMAIN P PROVE Climb(P, v) \cap Roots(P) # {}
  <2>1. L[v] \in Nat /\ L[v] <= L[v]
    BY DEF Levelled
  <2> QED
    BY <1>3, <2>1
<1>5. Roots(P) \subseteq DOMAIN P
  BY DEF Roots
<1> QED
  BY <1>4, <1>5, SubtreeReached DEF ShownUnits

-----------------------------------------------------------------------------
(* Requests, one at a time.                                                *)

\* A request is served from what it reads to what it writes before the next one reads
\* (time may pass meanwhile, and it may be rolled back). The code takes no lock, so
\* this is a condition on how the system is used, never a part of Spec.
OneAtATime ==
    \A s, q \in Requests : request[s] # Idle /\ request[q] # Idle => s = q

\* A request of one of the calls, or of the cron.
IsOurs(c) == (c \in Calls /\ IsCall(c)) \/ \E p \in Periods : c = AutomaticClose(p)

\* What a request took from what it read still is what it would read.
StillGiven(c, given) ==
    IF c.op = "close_period"
    THEN given = Keep \/ (given \in 0..LastDay /\ given < period[c.period].endsAt)
    ELSE given = Given(c)

\* A request whose reading still holds.
Holds(c, given) ==
    /\ IsOurs(c)
    /\ c.by = Superadmin \/ c.by \in DOMAIN member
    /\ Fresh(c) /\ May(c)
    /\ StillGiven(c, given)

\* What every request has read still holds.
ReadsHold ==
    /\ request = [s \in Requests |-> request[s]]
    /\ today \in 0..LastDay
    /\ \A s \in Requests : request[s] # Idle => Holds(request[s].call, request[s].given)

\* A call that writes on what still holds.
Performed(c, given) == Holds(c, given) /\ Write(c, given)
\* No table changes.
Kept == UNCHANGED <<structure, period, work>>

\* What holds goes on holding while no table changes.
LEMMA StillMay ==
    ASSUME NEW c, Kept PROVE May(c)' <=> May(c)
<1> USE DEF Kept, structure, work, LiveOf, Parents, OpenIn, OpenPeriod, Scope, CentralScope, CanWriteIn, CanGrant,
      MayCreateUnit, MayMove, MayUpdateUnit, MayDeleteUnit, MayInvite, MaySetScope, MayRemove, Overlaps, MayCreatePeriod, MayOpenPeriod,
      MayClosePeriod, Assignable, AxisInActivePlan, MayCreateObjective, MayUpdateObjective, MayDeleteObjective, InScopeOf, WithinPeriod,
      UnitOfProject, MayCreateProject, MayUpdateProject, MayDeleteProject
<1> QED
  BY DEF May

\* (Its new ids.)
LEMMA StillFresh ==
    ASSUME NEW c, Kept PROVE Fresh(c)' <=> Fresh(c)
  BY DEF Kept, structure, work, Fresh

\* (What it took.)
LEMMA StillGivenStays ==
    ASSUME NEW c, NEW given, Kept, StillGiven(c, given) PROVE StillGiven(c, given)'
  BY DEF Kept, structure, work, StillGiven, Given, LiveOf, OpenIn, UnitOfProject

\* (All of it.)
LEMMA StillHolds ==
    ASSUME NEW c, NEW given, Kept, Holds(c, given) PROVE Holds(c, given)'
<1>1. member' = member
  BY DEF Kept, structure
<1> QED
  BY <1>1, StillMay, StillFresh, StillGivenStays DEF Holds, IsOurs, AutomaticClose, IsCall

\* A request that is not the cron's reads what holds.
LEMMA BeginReads ==
    ASSUME NEW s \in Requests, ReadsHold, Begin(s), NEW c, c \in Calls, c.by = Superadmin \/ c.by \in DOMAIN member,
           Fresh(c), May(c)
    PROVE  Holds(c, Given(c))
<1>1. IsCall(c)
  BY CallsAssumption
<1>2. ASSUME c.op = "close_period"
      PROVE  Given(c) = Keep \/ (Given(c) \in 0..LastDay /\ Given(c) < period[c.period].endsAt)
  BY <1>2 DEF Given, ReadsHold
<1> QED
  BY <1>1, <1>2 DEF Holds, IsOurs, StillGiven

\* So does the automatic closing.
LEMMA CronReads ==
    ASSUME NEW p \in Periods, ReadsHold, MayClosePeriod(AutomaticClose(p))
    PROVE  Holds(AutomaticClose(p), Given(AutomaticClose(p)))
<1> DEFINE c == AutomaticClose(p)
<1>1. c.op = "close_period" /\ c.by = Superadmin /\ c.automatic = TRUE /\ c.period = p
  BY DEF AutomaticClose
<1>2. Given(c) = Keep
  <2> HIDE DEF c
  <2> QED
    BY <1>1 DEF Given
<1>3. Fresh(c) /\ May(c)
  <2>1. MayClosePeriod(c)
    OBVIOUS
  <2> HIDE DEF c
  <2> QED
    BY <1>1, <2>1 DEF Fresh, May
<1>4. IsOurs(c)
  BY DEF IsOurs
<1> HIDE DEF c
<1>5. Holds(c, Given(c))
  BY <1>1, <1>2, <1>3, <1>4 DEF Holds, StillGiven
<1> QED
  BY <1>5 DEF c

\* Nobody has read at first.
LEMMA ReadsStart == Init => ReadsHold
  BY PeriodAssumption DEF Init, ReadsHold

\* One at a time, what a request has read holds until it writes.
LEMMA ReadsKeepHolding ==
    ReadsHold /\ OneAtATime /\ [Next]_vars => ReadsHold'
<1> SUFFICES ASSUME ReadsHold, OneAtATime, [Next]_vars PROVE ReadsHold'
  OBVIOUS
<1>1. ASSUME NEW s \in Requests, NEW c, Holds(c, Given(c)), Take(s, c), Kept, today' = today
      PROVE  ReadsHold'
  <2>1. PICK g : g = Given(c)
    OBVIOUS
  <2>2. Holds(c, g)'
    BY <1>1, <2>1, StillHolds
  <2>3. request' = [request EXCEPT ![s] = [call |-> c, given |-> g]]
    BY <1>1, <2>1 DEF Take
  <2>4. ASSUME NEW q \in Requests, q # s, request'[q] # Idle
        PROVE  Holds(request[q].call, request[q].given)'
    <3>1. PICK d, h : d = request[q].call /\ h = request[q].given
      OBVIOUS
    <3>2. request'[q] = request[q]
      BY <2>3, <2>4 DEF ReadsHold
    <3>3. Holds(d, h)'
      BY <1>1, <2>4, <3>1, <3>2, StillHolds DEF ReadsHold
    <3> QED
      BY <3>1, <3>2, <3>3
  <2>5. request'[s] = [call |-> c, given |-> g] /\ request' = [q \in Requests |-> request'[q]]
    BY <2>3 DEF ReadsHold
  <2>6. Holds(request[s].call, request[s].given)'
    BY <2>2, <2>5
  <2> QED
    BY <1>1, <2>4, <2>5, <2>6 DEF ReadsHold
<1>2. ASSUME NEW s \in Requests, Begin(s) PROVE ReadsHold'
  <2>1. PICK c \in Calls : /\ c.by = Superadmin \/ c.by \in DOMAIN member
                           /\ Fresh(c) /\ May(c) /\ Take(s, c)
    BY <1>2 DEF Begin
  <2>2. Kept /\ today' = today
    BY <1>2 DEF Begin, Kept
  <2> QED
    BY <1>1, <1>2, <2>1, <2>2, BeginReads
<1>3. ASSUME NEW s \in Requests, Commit(s) \/ RollBack(s) PROVE ReadsHold'
  <2>1. request' = [request EXCEPT ![s] = Idle] /\ today' = today /\ request[s] # Idle
    BY <1>3 DEF Commit, RollBack
  <2>2. \A q \in Requests : request'[q] = Idle
    BY <2>1 DEF ReadsHold, OneAtATime
  <2> QED
    BY <2>1, <2>2 DEF ReadsHold
<1>4. ASSUME Kept, UNCHANGED request, today' \in 0..LastDay PROVE ReadsHold'
  <2>1. ASSUME NEW s \in Requests, request'[s] # Idle PROVE Holds(request[s].call, request[s].given)'
    <3>1. PICK c, g : c = request[s].call /\ g = request[s].given
      OBVIOUS
    <3>2. Holds(c, g)'
      BY <1>4, <2>1, <3>1, StillHolds DEF ReadsHold
    <3> QED
      BY <1>4, <3>1, <3>2
  <2> QED
    BY <1>4, <2>1 DEF ReadsHold
<1>5. ASSUME NEW p \in Periods, CronCloses(p) PROVE ReadsHold'
  <2>1. Kept /\ today' = today
    BY <1>5 DEF CronCloses, Kept
  <2>2. CASE MayClosePeriod(AutomaticClose(p))
    BY <1>1, <1>5, <2>1, <2>2, CronReads, CronAssumption DEF CronCloses
  <2>3. CASE ~MayClosePeriod(AutomaticClose(p))
    BY <1>4, <1>5, <2>1, <2>3 DEF CronCloses, ReadsHold
  <2> QED
    BY <2>2, <2>3
<1>6. CASE CronLists
  BY <1>4, <1>6 DEF CronLists, Kept, ReadsHold
<1>7. CASE Tick
  BY <1>4, <1>7, PeriodAssumption DEF Tick, Kept, ReadsHold
<1>8. CASE UNCHANGED vars
  BY <1>4, <1>8 DEF vars, Kept, structure, work, ReadsHold
<1> QED
  BY <1>2, <1>3, <1>5, <1>6, <1>7, <1>8 DEF Next

\* A step writes for a call whose reading holds, or leaves the tables alone.
LEMMA StepsPerform ==
    ASSUME ReadsHold, [Next]_vars
    PROVE  Kept \/ \E s \in Requests : \E c, given :
               /\ request[s] # Idle /\ c = request[s].call /\ given = request[s].given
               /\ Performed(c, given)
<1>1. ASSUME NEW s \in Requests, Begin(s) \/ RollBack(s) PROVE Kept
  BY <1>1 DEF Begin, RollBack, Kept
<1>2. ASSUME NEW s \in Requests, Commit(s) PROVE Performed(request[s].call, request[s].given) /\ request[s] # Idle
  BY <1>2 DEF Commit, Performed, ReadsHold
<1>3. CASE CronLists \/ Tick \/ UNCHANGED vars
  BY <1>3 DEF CronLists, Tick, Kept, vars, structure, work
<1>4. ASSUME NEW p \in Periods, CronCloses(p) PROVE Kept
  BY <1>4 DEF CronCloses, Kept
<1> QED
  BY <1>1, <1>2, <1>3, <1>4 DEF Next

-----------------------------------------------------------------------------
(* What each call does when its reading holds.                             *)

\* Only the row of id is another.
RowChanges(old, new, id, row) ==
    /\ id \in DOMAIN old /\ DOMAIN new = DOMAIN old
    /\ new[id] = row
    /\ \A r \in DOMAIN old : r # id => new[r] = old[r]

LEMMA CreatesUnit ==
    ASSUME NEW c, NEW given, Performed(c, given), c.op = "create_unit"
    PROVE  /\ c.unit \in Units \ DOMAIN unit /\ MayCreateUnit(c)
           /\ unit' = With(unit, c.unit, [kind |-> c.kind, parent |-> c.parent, live |-> TRUE])
           /\ UNCHANGED <<member, plan, axis, period, work>>
  BY DEF Performed, Holds, IsOurs, IsCall, AutomaticClose, Fresh, May, Write, WriteUnit

LEMMA UpdatesUnit ==
    ASSUME NEW c, NEW given, Performed(c, given), c.op = "update_unit"
    PROVE  /\ MayUpdateUnit(c) /\ c.kind \in {Keep, "ministry", "area"}
           /\ LET old == unit[c.unit]
              IN  RowChanges(unit, unit', c.unit, [old EXCEPT !.kind = Edited(old.kind, c.kind),
                                                              !.parent = Edited(old.parent, c.parent)])
           /\ UNCHANGED <<member, plan, axis, period, work>>
<1>1. MayUpdateUnit(c) /\ c.kind \in {Keep, "ministry", "area"} /\ WriteUnit(c)
  BY DEF Performed, Holds, IsOurs, IsCall, AutomaticClose, May, Write
<1>2. c.unit \in DOMAIN unit
  BY <1>1 DEF MayUpdateUnit, Parents, LiveOf
<1> QED
  BY <1>1, <1>2 DEF WriteUnit, RowChanges

LEMMA DeletesUnit ==
    ASSUME NEW c, NEW given, Performed(c, given), c.op = "delete_unit"
    PROVE  /\ MayDeleteUnit(c) /\ unit' = Without(unit, {c.unit})
           /\ UNCHANGED <<member, plan, axis, period, work>>
  BY DEF Performed, Holds, IsOurs, IsCall, AutomaticClose, Fresh, May, Write, WriteUnit

LEMMA Invites ==
    ASSUME NEW c, NEW given, Performed(c, given), c.op = "invite"
    PROVE  /\ MayInvite(c) /\ c.user \in Users \ DOMAIN member /\ member' = With(member, c.user, c.scope)
           /\ UNCHANGED <<unit, plan, axis, period, work>>
  BY DEF Performed, Holds, IsOurs, IsCall, AutomaticClose, Fresh, May, Write, WriteMember, MayRemove

LEMMA SetsScope ==
    ASSUME NEW c, NEW given, Performed(c, given), c.op = "set_scope"
    PROVE  /\ MaySetScope(c) /\ member' = [member EXCEPT ![c.user] = c.scope]
           /\ UNCHANGED <<unit, plan, axis, period, work>>
  BY DEF Performed, Holds, IsOurs, IsCall, AutomaticClose, Fresh, May, Write, WriteMember, MaySetScope

LEMMA Removes ==
    ASSUME NEW c, NEW given, Performed(c, given), c.op = "remove"
    PROVE  /\ MayRemove(c) /\ member' = [m \in DOMAIN member \ {c.user} |-> member[m]]
           /\ UNCHANGED <<unit, plan, axis, period, work>>
  BY DEF Performed, Holds, IsOurs, IsCall, AutomaticClose, Fresh, May, Write, WriteMember, MayRemove

LEMMA UpsertsPlan ==
    ASSUME NEW c, NEW given, Performed(c, given), c.op = "upsert_plan"
    PROVE  /\ CentralScope(c.by) /\ plan' = TRUE
           /\ UNCHANGED <<unit, member, axis, period, work>>
  BY DEF Performed, Holds, IsOurs, IsCall, AutomaticClose, Fresh, May, Write, UpsertPlan

LEMMA CreatesAxis ==
    ASSUME NEW c, NEW given, Performed(c, given), c.op = "create_axis"
    PROVE  /\ CentralScope(c.by) /\ plan /\ c.axis \in Axes \ DOMAIN axis
           /\ axis' = With(axis, c.axis, [live |-> TRUE])
           /\ UNCHANGED <<unit, member, plan, period, work>>
  BY DEF Performed, Holds, IsOurs, IsCall, AutomaticClose, Fresh, May, Write, CreateAxis

LEMMA DeletesAxis ==
    ASSUME NEW c, NEW given, Performed(c, given), c.op = "delete_axis"
    PROVE  /\ CentralScope(c.by) /\ c.axis \in LiveOf(axis) /\ axis' = Without(axis, {c.axis})
           /\ objective' = [o \in DOMAIN objective |->
                  IF o \in LiveOf(objective) /\ objective[o].axis = c.axis
                  THEN [objective[o] EXCEPT !.axis = NoAxis] ELSE objective[o]]
           /\ UNCHANGED <<unit, member, plan, period, project>>
  BY DEF Performed, Holds, IsOurs, IsCall, AutomaticClose, Fresh, May, Write, DeleteAxis, StillGiven, Given

LEMMA CreatesPeriod ==
    ASSUME NEW c, NEW given, Performed(c, given), c.op = "create_period"
    PROVE  /\ MayCreatePeriod(c) /\ c.period \in Periods \ DOMAIN period
           /\ c.organization \in Organizations /\ c.status \in {"future", "open"}
           /\ c.startsAt \in 0..LastDay /\ c.endsAt \in 0..LastDay
           /\ c.status = "open" => NoOtherOpen(c.organization, c.period)
           /\ period' = With(period, c.period,
                 [organization |-> c.organization, status |-> c.status,
                  startsAt |-> c.startsAt, endsAt |-> c.endsAt, live |-> TRUE])
           /\ UNCHANGED <<structure, work>>
  BY DEF Performed, Holds, IsOurs, IsCall, AutomaticClose, Fresh, May, Write, WritePeriod

LEMMA OpensPeriod ==
    ASSUME NEW c, NEW given, Performed(c, given), c.op = "open_period"
    PROVE  /\ MayOpenPeriod(c) /\ NoOtherOpen(period[c.period].organization, c.period)
           /\ RowChanges(period, period', c.period, [period[c.period] EXCEPT !.status = "open"])
           /\ UNCHANGED <<structure, work>>
  BY DEF Performed, Holds, IsOurs, IsCall, AutomaticClose, Fresh, May, Write, WritePeriod, MayOpenPeriod, LiveOf, RowChanges

LEMMA ClosesPeriod ==
    ASSUME NEW c, NEW given, Performed(c, given), c.op = "close_period"
    PROVE  /\ MayClosePeriod(c) /\ (c.automatic => c.by = Superadmin) /\ c.automatic \in BOOLEAN
           /\ given = Keep \/ (given \in 0..LastDay /\ given < period[c.period].endsAt)
           /\ Edited(period[c.period].endsAt, given) > period[c.period].startsAt
           /\ LET old == period[c.period]
              IN  RowChanges(period, period', c.period, [old EXCEPT !.status = "closed",
                                                                    !.endsAt = Edited(old.endsAt, given)])
           /\ UNCHANGED <<structure, work>>
<1>1. (c.automatic => c.by = Superadmin) /\ c.automatic \in BOOLEAN
  <2>1. IsOurs(c)
    BY DEF Performed, Holds
  <2>2. CASE c \in Calls /\ IsCall(c)
    BY <2>2 DEF IsCall
  <2>3. CASE \E p \in Periods : c = AutomaticClose(p)
    BY <2>3 DEF AutomaticClose
  <2> QED
    BY <2>1, <2>2, <2>3 DEF IsOurs
<1>2. MayClosePeriod(c) /\ StillGiven(c, given) /\ Write(c, given)
  BY DEF Performed, Holds, May
<1> QED
  BY <1>1, <1>2 DEF StillGiven, Write, WritePeriod, MayClosePeriod, LiveOf, RowChanges

LEMMA DeletesPeriod ==
    ASSUME NEW c, NEW given, Performed(c, given), c.op = "delete_period"
    PROVE  /\ CentralScope(c.by) /\ c.period \in LiveOf(period) /\ period' = Without(period, {c.period})
           /\ objective' = Without(objective, PlannedIn(c.period))
           /\ project' = Without(project, {p \in DOMAIN project : project[p].objective \in PlannedIn(c.period)})
           /\ UNCHANGED structure
  BY DEF Performed, Holds, IsOurs, IsCall, AutomaticClose, Fresh, May, Write, DeletePeriod, PlannedIn

LEMMA CreatesObjective ==
    ASSUME NEW c, NEW given, Performed(c, given), c.op = "create_objective"
    PROVE  /\ MayCreateObjective(c) /\ c.objective \in Objectives \ DOMAIN objective /\ given \in OpenIn(Here)
           /\ objective' = With(objective, c.objective,
                 [unit |-> c.unit, axis |-> c.axis, period |-> given, live |-> TRUE])
           /\ UNCHANGED <<structure, period, project>>
  BY DEF Performed, Holds, IsOurs, IsCall, AutomaticClose, Fresh, May, Write, WriteObjective, StillGiven, Given, MayCreateObjective

LEMMA UpdatesObjective ==
    ASSUME NEW c, NEW given, Performed(c, given), c.op = "update_objective"
    PROVE  /\ MayUpdateObjective(c)
           /\ LET old == objective[c.objective]
              IN  RowChanges(objective, objective', c.objective, [old EXCEPT !.unit = Edited(old.unit, c.unit),
                                                                             !.axis = Edited(old.axis, c.axis)])
           /\ UNCHANGED <<structure, period, project>>
  BY DEF Performed, Holds, IsOurs, IsCall, AutomaticClose, Fresh, May, Write, WriteObjective, MayUpdateObjective, LiveOf, RowChanges

LEMMA DeletesObjective ==
    ASSUME NEW c, NEW given, Performed(c, given), c.op = "delete_objective"
    PROVE  /\ MayDeleteObjective(c) /\ objective' = Without(objective, {c.objective})
           /\ UNCHANGED <<structure, period, project>>
  BY DEF Performed, Holds, IsOurs, IsCall, AutomaticClose, Fresh, May, Write, WriteObjective

LEMMA CreatesProject ==
    ASSUME NEW c, NEW given, Performed(c, given), c.op = "create_project"
    PROVE  /\ MayCreateProject(c) /\ c.project \in Projects \ DOMAIN project
           /\ project' = With(project, c.project,
                 [objective |-> c.objective, unit |-> UnitOfProject(c), endsAt |-> c.endsAt, live |-> TRUE])
           /\ UNCHANGED <<structure, period, objective>>
  BY DEF Performed, Holds, IsOurs, IsCall, AutomaticClose, Fresh, May, Write, WriteProject, StillGiven, Given

LEMMA UpdatesProject ==
    ASSUME NEW c, NEW given, Performed(c, given), c.op = "update_project"
    PROVE  /\ MayUpdateProject(c)
           /\ LET old == project[c.project]
              IN  RowChanges(project, project', c.project, [old EXCEPT !.unit = Edited(old.unit, c.unit),
                                                                       !.endsAt = Edited(old.endsAt, c.endsAt)])
           /\ UNCHANGED <<structure, period, objective>>
  BY DEF Performed, Holds, IsOurs, IsCall, AutomaticClose, Fresh, May, Write, WriteProject, MayUpdateProject, LiveOf, RowChanges

LEMMA DeletesProject ==
    ASSUME NEW c, NEW given, Performed(c, given), c.op = "delete_project"
    PROVE  /\ MayDeleteProject(c) /\ project' = Without(project, {c.project})
           /\ UNCHANGED <<structure, period, objective>>
  BY DEF Performed, Holds, IsOurs, IsCall, AutomaticClose, Fresh, May, Write, WriteProject

\* There is no other call.
LEMMA OperationOf ==
    ASSUME NEW c, NEW given, Performed(c, given)
    PROVE  c.op \in {"create_unit", "update_unit", "delete_unit", "invite", "set_scope", "remove",
                     "upsert_plan", "create_axis", "delete_axis", "create_period", "open_period",
                     "close_period", "delete_period", "create_objective", "update_objective",
                     "delete_objective", "create_project", "update_project", "delete_project"}
  BY DEF Performed, Write

-----------------------------------------------------------------------------
(* The rows of each table.                                                 *)

\* The type of a row of each table.
UnitRow == [kind : {"central", "ministry", "area"}, parent : Units \cup {NoUnit}, live : BOOLEAN]
PeriodRow == [organization : Organizations, status : {"future", "open", "closed"},
              startsAt : 0..LastDay, endsAt : 1..LastDay, live : BOOLEAN]
ObjectiveRow == [unit : Units, axis : Axes \cup {NoAxis}, period : Periods, live : BOOLEAN]
ProjectRow == [objective : Objectives, unit : Units, endsAt : 0..LastDay, live : BOOLEAN]
Rows(table, ids, row) == DOMAIN table \subseteq ids /\ \A r \in DOMAIN table : table[r] \in row

\* The type invariant, by tables.
LEMMA TypeOfTables ==
    TypeOK <=> /\ Rows(unit, Units, UnitRow)
               /\ Rows(member, Users, Units \cup {NoUnit})
               /\ plan \in BOOLEAN /\ DOMAIN axis \subseteq Axes
               /\ Rows(period, Periods, PeriodRow)
               /\ Rows(objective, Objectives, ObjectiveRow)
               /\ Rows(project, Projects, ProjectRow)
               /\ today \in 0..LastDay /\ expired \subseteq Periods
  BY DEF TypeOK, Rows, UnitRow, PeriodRow, ObjectiveRow, ProjectRow

\* What a table is once a row is written, changed or deleted.
LEMMA WithRows ==
    ASSUME NEW table, NEW ids, NEW rows, Rows(table, ids, rows), NEW id \in ids, NEW row \in rows
    PROVE  Rows(With(table, id, row), ids, rows)
  BY DEF With, Rows

LEMMA ChangedRows ==
    ASSUME NEW old, NEW new, NEW ids, NEW rows, Rows(old, ids, rows), NEW id, NEW row \in rows,
           RowChanges(old, new, id, row)
    PROVE  Rows(new, ids, rows)
  BY DEF RowChanges, Rows

\* A row that dies is a row.
MayDie(rows) == \A row \in rows : [row EXCEPT !.live = FALSE] \in rows

LEMMA RowsDie == MayDie(UnitRow) /\ MayDie(PeriodRow) /\ MayDie(ObjectiveRow) /\ MayDie(ProjectRow)
  BY DEF MayDie, UnitRow, PeriodRow, ObjectiveRow, ProjectRow

LEMMA WithoutRows ==
    ASSUME NEW table, NEW ids, NEW rows, Rows(table, ids, rows), NEW some, MayDie(rows)
    PROVE  Rows(Without(table, some), ids, rows)
  BY DEF Without, Rows, MayDie

\* Every table has rows of its type.
Tables ==
    /\ Rows(unit, Units, UnitRow)
    /\ Rows(member, Users, Units \cup {NoUnit})
    /\ plan \in BOOLEAN /\ DOMAIN axis \subseteq Axes
    /\ Rows(period, Periods, PeriodRow)
    /\ Rows(objective, Objectives, ObjectiveRow)
    /\ Rows(project, Projects, ProjectRow)

\* Nothing is deleted for good.
References ==
    /\ \A o \in DOMAIN objective : objective[o].period \in DOMAIN period
    /\ \A p \in DOMAIN project : project[p].objective \in DOMAIN objective

\* Live rows are rows, and the tree is made of the live units.
LEMMA LiveRows ==
    ASSUME Tables
    PROVE  /\ DOMAIN Parents = LiveOf(unit) /\ LiveOf(unit) \subseteq DOMAIN unit
           /\ LiveOf(period) \subseteq DOMAIN period
           /\ LiveOf(objective) \subseteq DOMAIN objective
           /\ LiveOf(project) \subseteq DOMAIN project
           /\ LiveOf(axis) \subseteq DOMAIN axis
           /\ DOMAIN unit \subseteq Units /\ DOMAIN period \subseteq Periods
           /\ DOMAIN objective \subseteq Objectives /\ DOMAIN axis \subseteq Axes
  BY DEF Tables, Rows, LiveOf, Parents

\* Every call keeps the types.
LEMMA TablesKeepType ==
    ASSUME Tables, References, NEW c, NEW given, Performed(c, given) PROVE Tables'
<1> USE LiveRows
<1>1. CASE c.op = "create_unit"
  <2>1. c.kind \in {"ministry", "area"} /\ c.parent \in Units
    BY <1>1, CreatesUnit DEF MayCreateUnit, CanBeChildOf
  <2>2. [kind |-> c.kind, parent |-> c.parent, live |-> TRUE] \in UnitRow
    BY <2>1 DEF UnitRow
  <2>3. Rows(unit', Units, UnitRow)
    BY <1>1, <2>2, CreatesUnit, WithRows DEF Tables
  <2> QED
    BY <1>1, <2>3, CreatesUnit DEF Tables, work
<1>2. CASE c.op = "update_unit"
  <2> DEFINE old == unit[c.unit]
  <2>1. c.unit \in DOMAIN unit /\ old \in UnitRow
    BY <1>2, UpdatesUnit DEF MayUpdateUnit, Tables, Rows
  <2>2. Edited(old.parent, c.parent) \in Units \cup {NoUnit} /\ Edited(old.kind, c.kind) \in {"central", "ministry", "area"}
    BY <1>2, <2>1, UpdatesUnit DEF MayUpdateUnit, MayMove, Edited, UnitRow
  <2>3. Rows(unit', Units, UnitRow)
    BY <1>2, <2>1, <2>2, UpdatesUnit, ChangedRows DEF Tables, UnitRow
  <2> QED
    BY <1>2, <2>3, UpdatesUnit DEF Tables, work
<1>3. CASE c.op = "delete_unit"
  BY <1>3, DeletesUnit, WithoutRows, RowsDie DEF Tables, work
<1>4. CASE c.op = "invite"
  <2>1. c.scope \in Units \cup {NoUnit}
    BY <1>4, Invites DEF MayInvite
  <2> QED
    BY <1>4, <2>1, Invites, WithRows DEF Tables, work
<1>5. CASE c.op = "set_scope"
  <2>1. c.scope \in Units \cup {NoUnit}
    BY <1>5, SetsScope DEF MaySetScope
  <2> QED
    BY <1>5, <2>1, SetsScope DEF Tables, work, Rows
<1>6. CASE c.op = "remove"
  BY <1>6, Removes DEF Tables, work, Rows
<1>7. CASE c.op = "upsert_plan"
  BY <1>7, UpsertsPlan DEF Tables, work
<1>8. CASE c.op = "create_axis"
  <2>1. DOMAIN axis' = DOMAIN axis \cup {c.axis} /\ c.axis \in Axes
    BY <1>8, CreatesAxis DEF With
  <2> QED
    BY <1>8, <2>1, CreatesAxis DEF Tables, work
<1>9. CASE c.op = "delete_axis"
  <2>1. \A o \in ObjectiveRow : [o EXCEPT !.axis = NoAxis] \in ObjectiveRow
    BY DEF ObjectiveRow
  <2>2. Rows(objective', Objectives, ObjectiveRow)
    BY <1>9, <2>1, DeletesAxis DEF Tables, Rows
  <2>3. DOMAIN axis' = DOMAIN axis
    BY <1>9, DeletesAxis DEF Without
  <2> QED
    BY <1>9, <2>2, <2>3, DeletesAxis DEF Tables, work
<1>10. CASE c.op = "create_period"
  <2>1. c.endsAt \in 1..LastDay
    <3>1. (c.endsAt - c.startsAt) \in MinDays..MaxDays /\ c.startsAt \in 0..LastDay /\ c.endsAt \in 0..LastDay
      BY <1>10, CreatesPeriod DEF MayCreatePeriod
    <3> QED
      BY <3>1, PeriodAssumption
  <2>2. [organization |-> c.organization, status |-> c.status, startsAt |-> c.startsAt, endsAt |-> c.endsAt, live |-> TRUE] \in PeriodRow
    BY <1>10, <2>1, CreatesPeriod DEF PeriodRow
  <2>3. Rows(period', Periods, PeriodRow)
    BY <1>10, <2>2, CreatesPeriod, WithRows DEF Tables
  <2> QED
    BY <1>10, <2>3, CreatesPeriod DEF Tables, work, structure
<1>11. CASE c.op = "open_period"
  <2>1. [period[c.period] EXCEPT !.status = "open"] \in PeriodRow
    BY <1>11, OpensPeriod DEF MayOpenPeriod, Tables, Rows, PeriodRow
  <2>2. Rows(period', Periods, PeriodRow)
    BY <1>11, <2>1, OpensPeriod, ChangedRows DEF Tables
  <2> QED
    BY <1>11, <2>2, OpensPeriod DEF Tables, work, structure
<1>12. CASE c.op = "close_period"
  <2> DEFINE old == period[c.period]
  <2>1. old \in PeriodRow
    BY <1>12, ClosesPeriod DEF MayClosePeriod, Tables, Rows
  <2>2. Edited(old.endsAt, given) \in 1..LastDay
    <3>1. old.startsAt \in 0..LastDay /\ old.endsAt \in 1..LastDay
      BY <2>1 DEF PeriodRow
    <3>2. given = Keep \/ (given \in 0..LastDay /\ given < old.endsAt)
      BY <1>12, ClosesPeriod
    <3>3. Edited(old.endsAt, given) > old.startsAt
      BY <1>12, ClosesPeriod
    <3> QED
      BY <3>1, <3>2, <3>3, PeriodAssumption DEF Edited
  <2>3. Rows(period', Periods, PeriodRow)
    BY <1>12, <2>1, <2>2, ClosesPeriod, ChangedRows DEF Tables, PeriodRow
  <2> QED
    BY <1>12, <2>3, ClosesPeriod DEF Tables, work, structure
<1>13. CASE c.op = "delete_period"
  <2> DEFINE gone == {p \in DOMAIN project : project[p].objective \in PlannedIn(c.period)}
  <2>0. /\ period' = Without(period, {c.period}) /\ objective' = Without(objective, PlannedIn(c.period))
        /\ project' = Without(project, gone)
    BY <1>13, DeletesPeriod
  <2> HIDE DEF gone
  <2>1. Rows(period', Periods, PeriodRow)
    BY <2>0, WithoutRows, RowsDie DEF Tables
  <2>2. Rows(objective', Objectives, ObjectiveRow)
    BY <2>0, WithoutRows, RowsDie DEF Tables
  <2>3. Rows(project', Projects, ProjectRow)
    BY <2>0, WithoutRows, RowsDie DEF Tables
  <2> QED
    BY <1>13, <2>1, <2>2, <2>3, DeletesPeriod DEF Tables, structure
<1>14. CASE c.op = "create_objective"
  <2>1. [unit |-> c.unit, axis |-> c.axis, period |-> given, live |-> TRUE] \in ObjectiveRow
    BY <1>14, CreatesObjective DEF MayCreateObjective, Assignable, AxisInActivePlan, OpenIn, ObjectiveRow
  <2> QED
    BY <1>14, <2>1, CreatesObjective, WithRows DEF Tables, work, structure
<1>15. CASE c.op = "update_objective"
  <2> DEFINE old == objective[c.objective]
  <2>1. c.objective \in DOMAIN objective /\ old \in ObjectiveRow
    BY <1>15, UpdatesObjective DEF MayUpdateObjective, Tables, Rows
  <2>2. Edited(old.unit, c.unit) \in Units /\ Edited(old.axis, c.axis) \in Axes \cup {NoAxis}
    BY <1>15, <2>1, UpdatesObjective DEF MayUpdateObjective, Assignable, AxisInActivePlan, Edited, ObjectiveRow
  <2>3. Rows(objective', Objectives, ObjectiveRow)
    BY <1>15, <2>1, <2>2, UpdatesObjective, ChangedRows DEF Tables, ObjectiveRow
  <2> QED
    BY <1>15, <2>3, UpdatesObjective DEF Tables, work, structure
<1>16. CASE c.op = "delete_objective"
  BY <1>16, DeletesObjective, WithoutRows, RowsDie DEF Tables, work, structure
<1>17. CASE c.op = "create_project"
  <2>1. UnitOfProject(c) \in Units /\ c.objective \in Objectives
    BY <1>17, CreatesProject DEF MayCreateProject, InScopeOf, IsLiveSelfOrDescendant
  <2>2. c.endsAt \in 0..LastDay
    <3>1. period[objective[c.objective].period] \in PeriodRow
      BY <1>17, CreatesProject DEF MayCreateProject, References, Tables, Rows
    <3>2. WithinPeriod(c.objective, c.endsAt)
      BY <1>17, CreatesProject DEF MayCreateProject
    <3> QED
      BY <3>1, <3>2, PeriodAssumption DEF WithinPeriod, PeriodRow
  <2>3. [objective |-> c.objective, unit |-> UnitOfProject(c), endsAt |-> c.endsAt, live |-> TRUE] \in ProjectRow
    BY <2>1, <2>2 DEF ProjectRow
  <2> QED
    BY <1>17, <2>3, CreatesProject, WithRows DEF Tables, work, structure
<1>18. CASE c.op = "update_project"
  <2> DEFINE old == project[c.project]
  <2>1. c.project \in DOMAIN project /\ old \in ProjectRow
    BY <1>18, UpdatesProject DEF MayUpdateProject, Tables, Rows
  <2>2. Edited(old.unit, c.unit) \in Units
    BY <1>18, <2>1, UpdatesProject DEF MayUpdateProject, InScopeOf, IsLiveSelfOrDescendant, Edited, ProjectRow
  <2>3. Edited(old.endsAt, c.endsAt) \in 0..LastDay
    <3>1. period[objective[old.objective].period] \in PeriodRow
      BY <1>18, <2>1, UpdatesProject DEF MayUpdateProject, References, Tables, Rows
    <3>2. c.endsAt # Keep => WithinPeriod(old.objective, c.endsAt)
      BY <1>18, UpdatesProject DEF MayUpdateProject
    <3> QED
      BY <2>1, <3>1, <3>2, PeriodAssumption DEF WithinPeriod, PeriodRow, ProjectRow, Edited
  <2>4. Rows(project', Projects, ProjectRow)
    BY <1>18, <2>1, <2>2, <2>3, UpdatesProject, ChangedRows DEF Tables, ProjectRow
  <2> QED
    BY <1>18, <2>4, UpdatesProject DEF Tables, work, structure
<1>19. CASE c.op = "delete_project"
  BY <1>19, DeletesProject, WithoutRows, RowsDie DEF Tables, work, structure
<1> QED
  BY <1>1, <1>2, <1>3, <1>4, <1>5, <1>6, <1>7, <1>8, <1>9, <1>10, <1>11, <1>12, <1>13, <1>14,
     <1>15, <1>16, <1>17, <1>18, <1>19, OperationOf

-----------------------------------------------------------------------------
(* What becomes of the rows of each table.                                 *)

\* The tables a call leaves alone.
LEMMA Untouched ==
    ASSUME NEW c, NEW given, Performed(c, given)
    PROVE  /\ c.op \notin {"create_unit", "update_unit", "delete_unit"} => unit' = unit
           /\ c.op \notin {"invite", "set_scope", "remove"} => member' = member
           /\ c.op # "upsert_plan" => plan' = plan
           /\ c.op \notin {"create_axis", "delete_axis"} => axis' = axis
           /\ c.op \notin {"create_period", "open_period", "close_period", "delete_period"} => period' = period
           /\ c.op \notin {"delete_axis", "delete_period", "create_objective", "update_objective",
                           "delete_objective"} => objective' = objective
           /\ c.op \notin {"delete_period", "create_project", "update_project", "delete_project"} =>
                 project' = project
  BY DEF Performed, Write, WriteUnit, WriteMember, UpsertPlan, CreateAxis, DeleteAxis, WritePeriod,
         DeletePeriod, WriteObjective, WriteProject, structure, work

\* What a call does to the units,
UnitsFate(c) ==
    \A u \in DOMAIN unit :
        /\ u \in DOMAIN unit'
        /\ unit[u].live => unit'[u].live \/ (c.op = "delete_unit" /\ c.unit = u /\ MayDeleteUnit(c))
        /\ unit[u].kind # "central" => unit'[u].kind # "central"

\* as the operations say.
LEMMA UnitsAfter ==
    ASSUME Tables, NEW c, NEW given, Performed(c, given) PROVE UnitsFate(c)
<1> USE LiveRows
<1>1. CASE c.op = "create_unit"
  BY <1>1, CreatesUnit DEF UnitsFate, With
<1>2. CASE c.op = "update_unit"
  <2> DEFINE old == unit[c.unit]
  <2>1. RowChanges(unit, unit', c.unit, [old EXCEPT !.kind = Edited(old.kind, c.kind),
                                                    !.parent = Edited(old.parent, c.parent)])
    BY <1>2, UpdatesUnit
  <2>2. Edited(old.kind, c.kind) \in {old.kind, "ministry", "area"}
    BY <1>2, UpdatesUnit DEF Edited
  <2>3. old \in UnitRow
    BY <2>1 DEF Tables, Rows, RowChanges
  <2>4. unit'[c.unit].live = old.live /\ unit'[c.unit].kind = Edited(old.kind, c.kind)
    BY <2>1, <2>3 DEF RowChanges, UnitRow
  <2> QED
    BY <2>1, <2>2, <2>4 DEF UnitsFate, RowChanges
<1>3. CASE c.op = "delete_unit"
  <2>1. \A u \in DOMAIN unit : unit[u] \in UnitRow
    BY DEF Tables, Rows
  <2>2. \A row \in UnitRow : [row EXCEPT !.live = FALSE].kind = row.kind
    BY DEF UnitRow
  <2>3. unit' = Without(unit, {c.unit}) /\ MayDeleteUnit(c)
    BY <1>3, DeletesUnit
  <2>4. ASSUME NEW u \in DOMAIN unit
        PROVE  /\ u \in DOMAIN unit' /\ unit'[u].kind = unit[u].kind
               /\ u # c.unit => unit'[u] = unit[u]
    BY <2>1, <2>2, <2>3 DEF Without
  <2> QED
    BY <1>3, <2>3, <2>4 DEF UnitsFate
<1> QED
  BY <1>1, <1>2, <1>3, Untouched DEF UnitsFate

\* What a call does to the axes,
AxesFate(c) ==
    /\ plan => plan'
    /\ \A a \in LiveOf(axis) : a \in LiveOf(axis)' \/ (c.op = "delete_axis" /\ c.axis = a)

\* as the operations say.
LEMMA AxesAfter ==
    ASSUME NEW c, NEW given, Performed(c, given) PROVE AxesFate(c)
<1>1. CASE c.op = "create_axis"
  BY <1>1, CreatesAxis DEF AxesFate, With, LiveOf
<1>2. CASE c.op = "delete_axis"
  BY <1>2, DeletesAxis DEF AxesFate, Without, LiveOf
<1>3. CASE c.op = "upsert_plan"
  BY <1>3, UpsertsPlan DEF AxesFate, LiveOf
<1> QED
  BY <1>1, <1>2, <1>3, Untouched DEF AxesFate, LiveOf

\* What stays of a period whatever is done to it.
SamePeriod(old, new) ==
    /\ new.organization = old.organization /\ new.startsAt = old.startsAt
    /\ new.endsAt <= old.endsAt
    /\ old.status # "future" => new.status # "future"
    /\ old.status = "closed" => new.status = "closed" /\ new.endsAt = old.endsAt
    /\ new.status # "closed" => new.endsAt = old.endsAt
    /\ new.live => old.live
\* What a call does to the periods,
PeriodsFate(c) ==
    /\ \A p \in DOMAIN period :
         /\ p \in DOMAIN period' /\ SamePeriod(period[p], period'[p])
         /\ period[p].live => period'[p].live \/ (c.op = "delete_period" /\ c.period = p)
    /\ \A p \in DOMAIN period' : p \notin DOMAIN period => c.op = "create_period" /\ c.period = p

\* as the operations say.
LEMMA PeriodsAfter ==
    ASSUME Tables, NEW c, NEW given, Performed(c, given) PROVE PeriodsFate(c)
<1> USE LiveRows
<1>0. \A p \in DOMAIN period : period[p] \in PeriodRow
  BY DEF Tables, Rows
<1>a. ASSUME NEW p \in DOMAIN period PROVE SamePeriod(period[p], period[p])
  BY <1>0, PeriodAssumption DEF SamePeriod, PeriodRow
<1>1. CASE c.op = "create_period"
  <2>1. PICK row : c.period \notin DOMAIN period /\ period' = With(period, c.period, row)
    BY <1>1, CreatesPeriod
  <2> QED
    BY <1>1, <1>a, <2>1 DEF PeriodsFate, With
<1>2. CASE c.op = "open_period"
  <2> DEFINE old == period[c.period]
             new == [old EXCEPT !.status = "open"]
  <2>1. RowChanges(period, period', c.period, new) /\ old.status = "future"
    BY <1>2, OpensPeriod DEF MayOpenPeriod
  <2>2. old \in PeriodRow
    BY <1>0, <2>1 DEF RowChanges
  <2>3. SamePeriod(old, new) /\ new.live = old.live
    BY <2>1, <2>2, PeriodAssumption DEF SamePeriod, PeriodRow
  <2> HIDE DEF new
  <2> QED
    BY <1>a, <2>1, <2>3 DEF PeriodsFate, RowChanges
<1>3. CASE c.op = "close_period"
  <2> DEFINE old == period[c.period]
             new == [old EXCEPT !.status = "closed", !.endsAt = Edited(old.endsAt, given)]
  <2>1. RowChanges(period, period', c.period, new) /\ old.status = "open"
    BY <1>3, ClosesPeriod DEF MayClosePeriod
  <2>2. old \in PeriodRow
    BY <1>0, <2>1 DEF RowChanges
  <2>3. Edited(old.endsAt, given) \in Int /\ Edited(old.endsAt, given) <= old.endsAt
    <3>1. old.endsAt \in 1..LastDay
      BY <2>2 DEF PeriodRow
    <3>2. given = Keep \/ (given \in 0..LastDay /\ given < old.endsAt)
      BY <1>3, ClosesPeriod
    <3> QED
      BY <3>1, <3>2, PeriodAssumption DEF Edited
  <2>4. SamePeriod(old, new) /\ new.live = old.live
    BY <2>1, <2>2, <2>3 DEF SamePeriod, PeriodRow
  <2> HIDE DEF new
  <2> QED
    BY <1>a, <2>1, <2>4 DEF PeriodsFate, RowChanges
<1>4. CASE c.op = "delete_period"
  <2>1. \A row \in PeriodRow : SamePeriod(row, [row EXCEPT !.live = FALSE])
    BY PeriodAssumption DEF SamePeriod, PeriodRow
  <2>2. period' = Without(period, {c.period})
    BY <1>4, DeletesPeriod
  <2> QED
    BY <1>0, <1>4, <1>a, <2>1, <2>2 DEF PeriodsFate, Without
<1>5. CASE period' = period
  BY <1>5, <1>a DEF PeriodsFate
<1> QED
  BY <1>1, <1>2, <1>3, <1>4, <1>5, Untouched

\* An objective is placed, moved, and given or taken an axis.
ObjectivesFate(c) ==
    /\ \A o \in DOMAIN objective :
         /\ o \in DOMAIN objective'
         /\ objective'[o].period = objective[o].period
         /\ objective'[o].live => objective[o].live
         /\ \/ objective'[o].unit = objective[o].unit
            \/ c.op = "update_objective" /\ Assignable(objective'[o].unit)
         /\ \/ objective'[o].axis \in {NoAxis, objective[o].axis}
            \/ c.op = "update_objective" /\ AxisInActivePlan(objective'[o].axis)
         /\ (c.op = "delete_axis" /\ objective[o].live) => objective'[o].axis # c.axis \/ c.axis = NoAxis
         /\ objective[o].live => objective'[o].live \/ c.op \in {"delete_period", "delete_objective"}
         /\ (c.op = "delete_period" /\ objective[o].live /\ objective[o].period # c.period) => objective'[o].live
         /\ (c.op = "delete_period" /\ objective[o].period = c.period) => ~objective'[o].live
         /\ (c.op = "delete_objective" /\ objective[o].live /\ ~objective'[o].live) =>
               c.objective = o /\ MayDeleteObjective(c)
    /\ \A o \in DOMAIN objective' : o \notin DOMAIN objective =>
         /\ c.op = "create_objective" /\ o = c.objective
         /\ Assignable(objective'[o].unit)
         /\ objective'[o].axis = NoAxis \/ AxisInActivePlan(objective'[o].axis)
         /\ objective'[o].period \in OpenIn(Here)

\* As the operations say.
LEMMA ObjectivesAfter ==
    ASSUME Tables, NEW c, NEW given, Performed(c, given) PROVE ObjectivesFate(c)
<1> USE LiveRows
<1>0. \A o \in DOMAIN objective : objective[o] \in ObjectiveRow
  BY DEF Tables, Rows
<1>1. CASE c.op = "delete_axis"
  <2>1. objective' = [o \in DOMAIN objective |->
                  IF o \in LiveOf(objective) /\ objective[o].axis = c.axis
                  THEN [objective[o] EXCEPT !.axis = NoAxis] ELSE objective[o]]
    BY <1>1, DeletesAxis
  <2>2. ASSUME NEW o \in DOMAIN objective
        PROVE  /\ o \in DOMAIN objective'
               /\ objective'[o].period = objective[o].period /\ objective'[o].live = objective[o].live
               /\ objective'[o].unit = objective[o].unit
               /\ objective'[o].axis = IF objective[o].live /\ objective[o].axis = c.axis THEN NoAxis ELSE objective[o].axis
    BY <1>0, <2>1 DEF ObjectiveRow, LiveOf
  <2> QED
    BY <1>1, <2>1, <2>2 DEF ObjectivesFate
<1>2. CASE c.op = "delete_period"
  <2>1. objective' = Without(objective, PlannedIn(c.period))
    BY <1>2, DeletesPeriod
  <2>2. ASSUME NEW o \in DOMAIN objective
        PROVE  /\ o \in DOMAIN objective'
               /\ objective'[o].period = objective[o].period
               /\ objective'[o].live = (objective[o].live /\ objective[o].period # c.period)
               /\ objective'[o].unit = objective[o].unit /\ objective'[o].axis = objective[o].axis
    BY <1>0, <2>1 DEF ObjectiveRow, LiveOf, PlannedIn, Without
  <2> QED
    BY <1>2, <2>1, <2>2 DEF ObjectivesFate, Without
<1>3. CASE c.op = "create_objective"
  <2> DEFINE row == [unit |-> c.unit, axis |-> c.axis, period |-> given, live |-> TRUE]
  <2>1. /\ objective' = With(objective, c.objective, row)
        /\ c.objective \notin DOMAIN objective /\ given \in OpenIn(Here)
        /\ Assignable(c.unit) /\ (c.axis = NoAxis \/ AxisInActivePlan(c.axis))
    BY <1>3, CreatesObjective DEF MayCreateObjective
  <2>2. row.unit = c.unit /\ row.axis = c.axis /\ row.period = given
    OBVIOUS
  <2> HIDE DEF row
  <2> QED
    BY <1>3, <2>1, <2>2 DEF ObjectivesFate, With
<1>4. CASE c.op = "update_objective"
  <2> DEFINE old == objective[c.objective]
             new == [old EXCEPT !.unit = Edited(old.unit, c.unit), !.axis = Edited(old.axis, c.axis)]
  <2>1. RowChanges(objective, objective', c.objective, new)
    BY <1>4, UpdatesObjective
  <2>2. old \in ObjectiveRow
    BY <1>0, <2>1 DEF RowChanges
  <2>3. /\ new.unit = Edited(old.unit, c.unit) /\ new.axis = Edited(old.axis, c.axis)
        /\ new.period = old.period /\ new.live = old.live
    BY <2>2 DEF ObjectiveRow
  <2>4. /\ Edited(old.unit, c.unit) = old.unit \/ Assignable(Edited(old.unit, c.unit))
        /\ Edited(old.axis, c.axis) \in {NoAxis, old.axis} \/ AxisInActivePlan(Edited(old.axis, c.axis))
    BY <1>4, UpdatesObjective DEF MayUpdateObjective, Edited
  <2> HIDE DEF new
  <2> QED
    BY <1>4, <2>1, <2>3, <2>4 DEF ObjectivesFate, RowChanges
<1>5. CASE c.op = "delete_objective"
  <2>1. objective' = Without(objective, {c.objective}) /\ MayDeleteObjective(c)
    BY <1>5, DeletesObjective
  <2>2. ASSUME NEW o \in DOMAIN objective
        PROVE  /\ o \in DOMAIN objective'
               /\ objective'[o].period = objective[o].period
               /\ objective'[o].live = (objective[o].live /\ o # c.objective)
               /\ objective'[o].unit = objective[o].unit /\ objective'[o].axis = objective[o].axis
    BY <1>0, <2>1 DEF ObjectiveRow, Without
  <2> QED
    BY <1>5, <2>1, <2>2 DEF ObjectivesFate, Without
<1>6. CASE objective' = objective /\ c.op \notin {"delete_axis", "delete_period", "delete_objective"}
  BY <1>6 DEF ObjectivesFate
<1> QED
  BY <1>1, <1>2, <1>3, <1>4, <1>5, <1>6, Untouched

\* What a call does to the projects,
ProjectsFate(c) ==
    /\ \A x \in DOMAIN project :
         /\ x \in DOMAIN project'
         /\ project'[x].objective = project[x].objective
         /\ project'[x].live => project[x].live
         /\ \/ project'[x].endsAt = project[x].endsAt
            \/ /\ c.op = "update_project"
               /\ OpenPeriod(project[x].objective) /\ WithinPeriod(project[x].objective, project'[x].endsAt)
         /\ (c.op = "delete_period" /\ project[x].objective \in PlannedIn(c.period)) => ~project'[x].live
    /\ \A x \in DOMAIN project' : x \notin DOMAIN project =>
         /\ c.op = "create_project" /\ c.objective = project'[x].objective
         /\ project'[x].objective \in LiveOf(objective) /\ OpenPeriod(project'[x].objective)
         /\ WithinPeriod(project'[x].objective, project'[x].endsAt)

\* as the operations say.
LEMMA ProjectsAfter ==
    ASSUME Tables, NEW c, NEW given, Performed(c, given) PROVE ProjectsFate(c)
<1> USE LiveRows
<1>0. \A x \in DOMAIN project : project[x] \in ProjectRow
  BY DEF Tables, Rows
<1>1. CASE c.op = "delete_period"
  <2> DEFINE gone == {x \in DOMAIN project : project[x].objective \in PlannedIn(c.period)}
  <2>1. project' = Without(project, gone)
    BY <1>1, DeletesPeriod
  <2>2. ASSUME NEW x \in DOMAIN project
        PROVE  /\ x \in DOMAIN project'
               /\ project'[x].objective = project[x].objective /\ project'[x].endsAt = project[x].endsAt
               /\ project'[x].live = (project[x].live /\ x \notin gone)
    BY <1>0, <2>1 DEF ProjectRow, Without
  <2>3. DOMAIN project' = DOMAIN project
    BY <2>1 DEF Without
  <2> QED
    BY <1>1, <2>2, <2>3 DEF ProjectsFate
<1>2. CASE c.op = "create_project"
  <2> DEFINE row == [objective |-> c.objective, unit |-> UnitOfProject(c), endsAt |-> c.endsAt, live |-> TRUE]
  <2>1. /\ project' = With(project, c.project, row)
        /\ c.project \notin DOMAIN project
        /\ c.objective \in LiveOf(objective) /\ OpenPeriod(c.objective)
        /\ WithinPeriod(c.objective, c.endsAt)
    BY <1>2, CreatesProject DEF MayCreateProject
  <2>2. row.objective = c.objective /\ row.endsAt = c.endsAt
    OBVIOUS
  <2> HIDE DEF row
  <2> QED
    BY <1>2, <2>1, <2>2 DEF ProjectsFate, With
<1>3. CASE c.op = "update_project"
  <2> DEFINE old == project[c.project]
             new == [old EXCEPT !.unit = Edited(old.unit, c.unit), !.endsAt = Edited(old.endsAt, c.endsAt)]
  <2>1. RowChanges(project, project', c.project, new)
    BY <1>3, UpdatesProject
  <2>2. old \in ProjectRow
    BY <1>0, <2>1 DEF RowChanges
  <2>3. /\ new.objective = old.objective /\ new.endsAt = Edited(old.endsAt, c.endsAt)
        /\ new.live = old.live
    BY <2>2 DEF ProjectRow
  <2>4. \/ Edited(old.endsAt, c.endsAt) = old.endsAt
        \/ OpenPeriod(old.objective) /\ WithinPeriod(old.objective, Edited(old.endsAt, c.endsAt))
    BY <1>3, UpdatesProject DEF MayUpdateProject, Edited
  <2> HIDE DEF new
  <2> QED
    BY <1>3, <2>1, <2>3, <2>4 DEF ProjectsFate, RowChanges
<1>4. CASE c.op = "delete_project"
  <2>1. project' = Without(project, {c.project})
    BY <1>4, DeletesProject
  <2>2. ASSUME NEW x \in DOMAIN project
        PROVE  /\ x \in DOMAIN project'
               /\ project'[x].objective = project[x].objective /\ project'[x].endsAt = project[x].endsAt
               /\ project'[x].live => project[x].live
    BY <1>0, <2>1 DEF ProjectRow, Without
  <2> QED
    BY <1>4, <2>1, <2>2 DEF ProjectsFate, Without
<1>5. CASE project' = project /\ c.op # "delete_period"
  BY <1>5 DEF ProjectsFate
<1> QED
  BY <1>1, <1>2, <1>3, <1>4, <1>5, Untouched

-----------------------------------------------------------------------------
(* What is planned hangs together.                                         *)

\* What is planned is planned in a period that has been open.
PeriodsHaveBegun == \A o \in LiveOf(objective) : period[objective[o].period].status # "future"
\* An organisation has one open period at most.
OneOpen ==
    \A p, q \in LiveOf(period) :
        period[p].status = "open" /\ period[q].status = "open"
        /\ period[p].organization = period[q].organization => p = q
\* No day belongs to two periods.
DatesApart ==
    \A p, q \in LiveOf(period) :
        p # q /\ period[p].organization = period[q].organization =>
            period[p].endsAt <= period[q].startsAt \/ period[q].endsAt <= period[p].startsAt

\* What the plan rests on, table by table: the inductive invariant of the plan.
Planning ==
    /\ Tables /\ References
    /\ ScopesAreLive
    /\ ObjectivesArePlaced /\ PeriodsHaveBegun
    /\ ProjectsHaveTheirObjective
    /\ OneOpen /\ DatesApart
    /\ ProjectsWithinPeriod

\* References stay: rows are never removed, and new ones refer to live ones.
LEMMA ReferencesStay ==
    ASSUME Tables, References, NEW c, NEW given, Performed(c, given) PROVE References'
<1>1. PeriodsFate(c) /\ ObjectivesFate(c) /\ ProjectsFate(c)
  BY PeriodsAfter, ObjectivesAfter, ProjectsAfter
<1> QED
  BY <1>1, LiveRows DEF References, PeriodsFate, ObjectivesFate, ProjectsFate, OpenIn, LiveOf

\* A scope is a live unit: deleting a unit looks for members first.
LEMMA ScopesStayLive ==
    ASSUME Tables, ScopesAreLive, NEW c, NEW given, Performed(c, given) PROVE ScopesAreLive'
<1> USE LiveRows
<1>0. DOMAIN Parents' = LiveOf(unit)'
  BY DEF Parents
<1>1. CASE member' = member
  <2>1. UnitsFate(c)
    BY UnitsAfter
  <2> QED
    BY <1>0, <1>1, <2>1 DEF ScopesAreLive, UnitsFate, MayDeleteUnit, LiveOf
<1>2. CASE c.op = "invite"
  <2>1. /\ unit' = unit /\ member' = With(member, c.user, c.scope)
        /\ c.scope # NoUnit => c.scope \in DOMAIN Parents
    BY <1>2, Invites DEF MayInvite
  <2> QED
    BY <1>0, <2>1 DEF ScopesAreLive, With, LiveOf
<1>3. CASE c.op = "set_scope"
  <2>1. /\ unit' = unit /\ member' = [member EXCEPT ![c.user] = c.scope]
        /\ c.scope # NoUnit => c.scope \in DOMAIN Parents
    BY <1>3, SetsScope DEF MaySetScope
  <2> QED
    BY <1>0, <2>1 DEF ScopesAreLive, LiveOf
<1>4. CASE c.op = "remove"
  <2>1. unit' = unit /\ member' = [m \in DOMAIN member \ {c.user} |-> member[m]]
    BY <1>4, Removes
  <2> QED
    BY <1>0, <2>1 DEF ScopesAreLive, LiveOf
<1> QED
  BY <1>1, <1>2, <1>3, <1>4, Untouched

\* An objective keeps its unit, axis and period: deleting a unit looks for
\* objectives, deleting an axis takes it from them, deleting a period takes them.
LEMMA ObjectivesStayPlaced ==
    ASSUME Tables, References, ObjectivesArePlaced, NEW c, NEW given, Performed(c, given)
    PROVE  ObjectivesArePlaced'
<1> USE LiveRows
<1>0. UnitsFate(c) /\ AxesFate(c) /\ PeriodsFate(c) /\ ObjectivesFate(c)
  BY UnitsAfter, AxesAfter, PeriodsAfter, ObjectivesAfter
<1> SUFFICES ASSUME NEW o \in LiveOf(objective)'
             PROVE  /\ objective'[o].unit \in LiveOf(unit)' /\ unit'[objective'[o].unit].kind # "central"
                    /\ objective'[o].axis # NoAxis => plan' /\ objective'[o].axis \in LiveOf(axis)'
                    /\ objective'[o].period \in LiveOf(period)'
  BY DEF ObjectivesArePlaced
<1>1. o \in DOMAIN objective' /\ objective'[o].live
  BY DEF LiveOf
<1>2. objective'[o].unit \in LiveOf(unit)' /\ unit'[objective'[o].unit].kind # "central"
  <2>1. \/ Assignable(objective'[o].unit) /\ c.op \in {"create_objective", "update_objective"}
        \/ o \in LiveOf(objective) /\ objective'[o].unit = objective[o].unit
    BY <1>0, <1>1 DEF ObjectivesFate, LiveOf
  <2>2. CASE Assignable(objective'[o].unit) /\ c.op \in {"create_objective", "update_objective"}
    <3>1. unit' = unit
      BY <2>2, Untouched
    <3> QED
      BY <2>2, <3>1 DEF Assignable, LiveOf
  <2>3. CASE o \in LiveOf(objective) /\ objective'[o].unit = objective[o].unit
    <3> DEFINE u == objective[o].unit
    <3>1. u \in LiveOf(unit) /\ unit[u].kind # "central" /\ ~(c.op = "delete_unit" /\ c.unit = u /\ MayDeleteUnit(c))
      BY <2>3 DEF ObjectivesArePlaced, MayDeleteUnit
    <3> QED
      BY <1>0, <2>3, <3>1 DEF UnitsFate, LiveOf
  <2> QED
    BY <2>1, <2>2, <2>3
<1>3. ASSUME objective'[o].axis # NoAxis PROVE plan' /\ objective'[o].axis \in LiveOf(axis)'
  <2>1. \/ AxisInActivePlan(objective'[o].axis) /\ c.op \in {"create_objective", "update_objective"}
        \/ o \in LiveOf(objective) /\ objective'[o].axis = objective[o].axis
    BY <1>0, <1>1, <1>3 DEF ObjectivesFate, LiveOf
  <2>2. CASE AxisInActivePlan(objective'[o].axis) /\ c.op \in {"create_objective", "update_objective"}
    BY <1>0, <2>2 DEF AxisInActivePlan, AxesFate
  <2>3. CASE o \in LiveOf(objective) /\ objective'[o].axis = objective[o].axis
    <3> DEFINE a == objective[o].axis
    <3>1. plan /\ a \in LiveOf(axis)
      BY <1>3, <2>3 DEF ObjectivesArePlaced
    <3>2. ~(c.op = "delete_axis" /\ c.axis = a)
      BY <1>0, <1>3, <2>3 DEF ObjectivesFate, LiveOf
    <3> QED
      BY <1>0, <2>3, <3>1, <3>2 DEF AxesFate
  <2> QED
    BY <2>1, <2>2, <2>3
<1>4. objective'[o].period \in LiveOf(period)'
  <2>1. \/ objective'[o].period \in OpenIn(Here) /\ c.op = "create_objective"
        \/ o \in LiveOf(objective) /\ objective'[o].period = objective[o].period
    BY <1>0, <1>1 DEF ObjectivesFate, LiveOf
  <2>2. CASE objective'[o].period \in OpenIn(Here) /\ c.op = "create_objective"
    BY <1>0, <2>2 DEF OpenIn, PeriodsFate, LiveOf
  <2>3. CASE o \in LiveOf(objective) /\ objective'[o].period = objective[o].period
    <3>1. objective[o].period \in LiveOf(period)
      BY <2>3 DEF ObjectivesArePlaced
    <3>2. ~(c.op = "delete_period" /\ c.period = objective[o].period)
      BY <1>0, <1>1, <2>3 DEF ObjectivesFate, LiveOf
    <3> QED
      BY <1>0, <2>3, <3>1, <3>2 DEF PeriodsFate, LiveOf
  <2> QED
    BY <2>1, <2>2, <2>3
<1> QED
  BY <1>2, <1>3, <1>4

\* A period with live objectives is not back to the future.
LEMMA PeriodsStayBegun ==
    ASSUME Tables, References, PeriodsHaveBegun, NEW c, NEW given, Performed(c, given)
    PROVE  PeriodsHaveBegun'
<1>1. PeriodsFate(c) /\ ObjectivesFate(c)
  BY PeriodsAfter, ObjectivesAfter
<1> SUFFICES ASSUME NEW o \in LiveOf(objective)' PROVE period'[objective'[o].period].status # "future"
  BY DEF PeriodsHaveBegun
<1>2. \/ o \in LiveOf(objective) /\ objective'[o].period = objective[o].period
      \/ objective'[o].period \in OpenIn(Here)
  BY <1>1 DEF ObjectivesFate, LiveOf
<1>3. /\ objective'[o].period \in DOMAIN period
      /\ period[objective'[o].period].status # "future"
  BY <1>2 DEF PeriodsHaveBegun, References, LiveOf, OpenIn
<1> QED
  BY <1>1, <1>3 DEF PeriodsFate, SamePeriod

\* An objective with projects is not deleted alone.
LEMMA ProjectsKeepTheirObjective ==
    ASSUME Tables, References, ProjectsHaveTheirObjective, NEW c, NEW given, Performed(c, given)
    PROVE  ProjectsHaveTheirObjective'
<1>1. ObjectivesFate(c) /\ ProjectsFate(c)
  BY ObjectivesAfter, ProjectsAfter
<1> SUFFICES ASSUME NEW x \in LiveOf(project)' PROVE project'[x].objective \in LiveOf(objective)'
  BY DEF ProjectsHaveTheirObjective
<1>2. CASE x \in DOMAIN project
  <2> DEFINE o == project[x].objective
  <2>1. x \in LiveOf(project) /\ project'[x].objective = o /\ o \in LiveOf(objective)
    BY <1>1, <1>2 DEF ProjectsFate, LiveOf, ProjectsHaveTheirObjective
  <2>2. c.op = "delete_period" => o \notin PlannedIn(c.period)
    BY <1>1, <1>2 DEF ProjectsFate, LiveOf
  <2>3. c.op = "delete_objective" => ~(c.objective = o /\ MayDeleteObjective(c))
    BY <2>1 DEF MayDeleteObjective
  <2>4. o \in DOMAIN objective' /\ objective'[o].live
    BY <1>1, <2>1, <2>2, <2>3 DEF ObjectivesFate, PlannedIn, LiveOf
  <2> QED
    BY <2>1, <2>4 DEF LiveOf
<1>3. CASE x \notin DOMAIN project
  <2>1. c.op = "create_project" /\ project'[x].objective \in LiveOf(objective)
    BY <1>1, <1>3 DEF ProjectsFate, LiveOf
  <2>2. objective' = objective
    BY <2>1, Untouched
  <2> QED
    BY <2>1, <2>2 DEF LiveOf
<1> QED
  BY <1>2, <1>3

\* The unique index is what keeps one period open.
LEMMA OneStaysOpen ==
    ASSUME Tables, OneOpen, NEW c, NEW given, Performed(c, given) PROVE OneOpen'
<1> DEFINE Stays(p) == /\ p \in LiveOf(period) /\ period[p].status = "open"
                       /\ period'[p].organization = period[p].organization
           Opens(p) == p = c.period /\ NoOtherOpen(period'[p].organization, c.period)
<1>0. \A p \in DOMAIN period : period[p] \in PeriodRow
  BY DEF Tables, Rows
<1>1. ASSUME NEW p \in LiveOf(period)', period'[p].status = "open" PROVE Stays(p) \/ Opens(p)
  <2>0. p \in DOMAIN period' /\ period'[p].live
    BY DEF LiveOf
  <2>1. CASE c.op = "create_period"
    <3> DEFINE row == [organization |-> c.organization, status |-> c.status,
                       startsAt |-> c.startsAt, endsAt |-> c.endsAt, live |-> TRUE]
    <3>1. /\ period' = With(period, c.period, row)
          /\ c.status = "open" => NoOtherOpen(c.organization, c.period)
      BY <2>1, CreatesPeriod
    <3>2. row.status = c.status /\ row.organization = c.organization
      OBVIOUS
    <3> HIDE DEF row
    <3>3. period'[p] = IF p = c.period THEN row ELSE period[p]
      BY <2>0, <3>1 DEF With
    <3>4. p # c.period => p \in DOMAIN period
      BY <2>0, <3>1 DEF With
    <3> QED
      BY <1>1, <2>0, <3>1, <3>2, <3>3, <3>4 DEF LiveOf
  <2>2. CASE c.op = "open_period"
    <3> DEFINE old == period[c.period]
               new == [old EXCEPT !.status = "open"]
    <3>1. /\ RowChanges(period, period', c.period, new)
          /\ NoOtherOpen(old.organization, c.period)
      BY <2>2, OpensPeriod
    <3>2. new.organization = old.organization
      BY <1>0, <3>1 DEF RowChanges, PeriodRow
    <3> HIDE DEF new
    <3> QED
      BY <1>1, <2>0, <3>1, <3>2 DEF RowChanges, LiveOf
  <2>3. CASE c.op = "close_period"
    <3> DEFINE old == period[c.period]
               new == [old EXCEPT !.status = "closed", !.endsAt = Edited(old.endsAt, given)]
    <3>1. RowChanges(period, period', c.period, new)
      BY <2>3, ClosesPeriod
    <3>2. new.status = "closed"
      BY <1>0, <3>1 DEF RowChanges, PeriodRow
    <3> HIDE DEF new
    <3> QED
      BY <1>1, <2>0, <3>1, <3>2 DEF RowChanges, LiveOf
  <2>4. CASE c.op = "delete_period"
    <3>1. period' = Without(period, {c.period})
      BY <2>4, DeletesPeriod
    <3>2. \A row \in PeriodRow : [row EXCEPT !.live = FALSE].live = FALSE
      BY DEF PeriodRow
    <3>3. p \in DOMAIN period /\ period'[p] = period[p]
      BY <1>0, <2>0, <3>1, <3>2 DEF Without
    <3> QED
      BY <1>1, <2>0, <3>3 DEF LiveOf
  <2>5. CASE period' = period
    BY <1>1, <2>5 DEF LiveOf
  <2> QED
    BY <2>1, <2>2, <2>3, <2>4, <2>5, Untouched
<1>2. ASSUME NEW p \in LiveOf(period)', NEW q \in LiveOf(period)', period'[p].status = "open",
             period'[q].status = "open", period'[p].organization = period'[q].organization
      PROVE  p = q
  <2>1. (Stays(p) \/ Opens(p)) /\ (Stays(q) \/ Opens(q))
    BY <1>1, <1>2
  <2>2. CASE Stays(p) /\ Stays(q)
    BY <1>2, <2>2 DEF OneOpen
  <2>3. CASE Opens(p) /\ Stays(q)
    BY <1>2, <2>3 DEF NoOtherOpen, OpenIn
  <2>4. CASE Stays(p) /\ Opens(q)
    BY <1>2, <2>4 DEF NoOtherOpen, OpenIn
  <2>5. CASE Opens(p) /\ Opens(q)
    BY <2>5
  <2> QED
    BY <2>1, <2>2, <2>3, <2>4, <2>5
<1> QED
  BY <1>2 DEF OneOpen

\* Periods stay apart: one is created clear of the others, and closing only shortens.
LEMMA DatesStayApart ==
    ASSUME Tables, References, DatesApart, NEW c, NEW given, Performed(c, given) PROVE DatesApart'
<1> DEFINE Apart(a, b) == a.endsAt <= b.startsAt \/ b.endsAt <= a.startsAt
<1>0. \A p \in DOMAIN period : period[p].startsAt \in Int /\ period[p].endsAt \in Int
  <2>1. \A row \in PeriodRow : row.startsAt \in Int /\ row.endsAt \in Int
    BY PeriodAssumption DEF PeriodRow
  <2> QED
    BY <2>1 DEF Tables, Rows
<1>1. CASE c.op = "create_period"
  <2> DEFINE row == [organization |-> c.organization, status |-> c.status,
                     startsAt |-> c.startsAt, endsAt |-> c.endsAt, live |-> TRUE]
  <2>1. /\ period' = With(period, c.period, row) /\ c.period \notin DOMAIN period
        /\ c.startsAt \in Int /\ c.endsAt \in Int
    BY <1>1, CreatesPeriod
  <2>2. ASSUME NEW q \in LiveOf(period), period[q].organization = c.organization
        PROVE  Apart(period[q], row) /\ Apart(row, period[q])
    <3>1. ~Overlaps(c, q)
      BY <1>1, <2>2, CreatesPeriod DEF MayCreatePeriod
    <3>2. q \in DOMAIN period
      BY DEF LiveOf
    <3> QED
      BY <1>0, <2>1, <3>1, <3>2 DEF Overlaps
  <2>3. row.organization = c.organization
    OBVIOUS
  <2> HIDE DEF row
  <2>4. ASSUME NEW p \in LiveOf(period)'
        PROVE  \/ p = c.period /\ period'[p] = row
               \/ p # c.period /\ p \in LiveOf(period) /\ period'[p] = period[p]
    BY <2>1 DEF With, LiveOf
  <2>5. ASSUME NEW p \in LiveOf(period)', NEW q \in LiveOf(period)', p # q,
               period'[p].organization = period'[q].organization
        PROVE  Apart(period'[p], period'[q])
    <3>1. CASE p = c.period
      BY <2>2, <2>3, <2>4, <2>5, <3>1
    <3>2. CASE q = c.period
      BY <2>2, <2>3, <2>4, <2>5, <3>2
    <3>3. CASE p # c.period /\ q # c.period
      BY <2>4, <2>5, <3>3 DEF DatesApart
    <3> QED
      BY <3>1, <3>2, <3>3
  <2> QED
    BY <2>5 DEF DatesApart
<1>2. CASE c.op # "create_period"
  <2>1. PeriodsFate(c) /\ Tables'
    BY PeriodsAfter, TablesKeepType
  <2>2. ASSUME NEW p \in LiveOf(period)'
        PROVE  p \in LiveOf(period) /\ SamePeriod(period[p], period'[p])
    BY <1>2, <2>1 DEF PeriodsFate, SamePeriod, LiveOf
  <2>3. ASSUME NEW p \in LiveOf(period)' PROVE period'[p].endsAt \in Int
    <3>1. \A row \in PeriodRow : row.endsAt \in Int
      BY PeriodAssumption DEF PeriodRow
    <3> QED
      BY <2>1, <3>1 DEF Tables, Rows, LiveOf
  <2>4. ASSUME NEW p \in LiveOf(period)', NEW q \in LiveOf(period)', p # q,
               period'[p].organization = period'[q].organization
        PROVE  Apart(period'[p], period'[q])
    <3> DEFINE a == period[p]
               b == period[q]
               a1 == period'[p]
               b1 == period'[q]
    <3>1. a.organization = b.organization => Apart(a, b)
      BY <2>2, <2>4 DEF DatesApart
    <3>2. /\ SamePeriod(a, a1) /\ SamePeriod(b, b1) /\ a1.endsAt \in Int /\ b1.endsAt \in Int
          /\ a.startsAt \in Int /\ a.endsAt \in Int /\ b.startsAt \in Int /\ b.endsAt \in Int
      BY <1>0, <2>2, <2>3, <2>4 DEF LiveOf
    <3>3. a1.organization = b1.organization
      BY <2>4
    <3> HIDE DEF a, b, a1, b1
    <3>4. Apart(a1, b1)
      BY <3>1, <3>2, <3>3 DEF SamePeriod
    <3> QED
      BY <3>4 DEF a1, b1
  <2> QED
    BY <2>4 DEF DatesApart
<1> QED
  BY <1>1, <1>2

\* Projects stay within their open period, whose dates do not move.
LEMMA ProjectsStayWithinPeriod ==
    ASSUME Planning, NEW c, NEW given, Performed(c, given) PROVE ProjectsWithinPeriod'
<1>0. PeriodsFate(c) /\ ObjectivesFate(c) /\ ProjectsFate(c) /\ Tables'
  BY PeriodsAfter, ObjectivesAfter, ProjectsAfter, TablesKeepType DEF Planning
<1> SUFFICES ASSUME NEW x \in LiveOf(project)',
                    period'[objective'[project'[x].objective].period].status = "open"
             PROVE  project'[x].endsAt <= period'[objective'[project'[x].objective].period].endsAt
  BY DEF ProjectsWithinPeriod
<1> DEFINE o == project'[x].objective
           p == objective[o].period
<1>1. x \in DOMAIN project' /\ project'[x].live
  BY DEF LiveOf
<1>2. o \in DOMAIN objective /\ p \in DOMAIN period
  BY <1>0, <1>1 DEF ProjectsFate, Planning, References, LiveOf
<1>3. objective'[o].period = p /\ SamePeriod(period[p], period'[p])
  BY <1>0, <1>2 DEF ObjectivesFate, PeriodsFate
<1>4. CASE WithinPeriod(o, project'[x].endsAt) /\ c.op \in {"create_project", "update_project"}
  <2>1. period' = period
    BY <1>4, Untouched
  <2>2. period[p].startsAt \in Int /\ period[p].endsAt \in Int
    BY <1>2, PeriodAssumption DEF Planning, Tables, Rows, PeriodRow
  <2> QED
    BY <1>3, <1>4, <2>1, <2>2 DEF WithinPeriod
<1>5. CASE x \in DOMAIN project /\ project'[x].endsAt = project[x].endsAt
  <2>1. o = project[x].objective /\ x \in LiveOf(project)
    BY <1>0, <1>1, <1>5 DEF ProjectsFate, LiveOf
  <2>2. period[p].status # "future"
    BY <2>1 DEF Planning, ProjectsHaveTheirObjective, PeriodsHaveBegun
  <2>3. period[p].status = "open" /\ period'[p].endsAt = period[p].endsAt
    BY <1>2, <1>3, <2>2 DEF Planning, Tables, Rows, PeriodRow, SamePeriod
  <2> QED
    BY <1>3, <1>5, <2>1, <2>3 DEF Planning, ProjectsWithinPeriod
<1> QED
  BY <1>0, <1>1, <1>4, <1>5 DEF ProjectsFate

\* It holds of the empty plan.
LEMMA PlanningStarts == Init => Planning
<1> SUFFICES ASSUME Init PROVE Planning
  OBVIOUS
<1>1. PICK root \in Units : unit = [u \in {root} |-> [kind |-> "central", parent |-> NoUnit, live |-> TRUE]]
  BY DEF Init
<1>2. /\ DOMAIN member = {} /\ DOMAIN axis = {} /\ DOMAIN period = {} /\ DOMAIN objective = {}
      /\ DOMAIN project = {} /\ plan = FALSE
  BY DEF Init
<1>3. Rows(unit, Units, UnitRow)
  BY <1>1 DEF Rows, UnitRow
<1>4. Tables /\ References
  BY <1>2, <1>3 DEF Tables, Rows, References
<1> QED
  BY <1>2, <1>4 DEF Planning, ScopesAreLive, ObjectivesArePlaced, PeriodsHaveBegun, ProjectsHaveTheirObjective,
                    OneOpen, DatesApart, ProjectsWithinPeriod, LiveOf

\* And every call keeps it.
LEMMA PlanningStays == Planning /\ ReadsHold /\ [Next]_vars => Planning'
<1> SUFFICES ASSUME Planning, ReadsHold, [Next]_vars PROVE Planning'
  OBVIOUS
<1>1. CASE Kept
  BY <1>1 DEF Kept, structure, work, Planning, Tables, References, ScopesAreLive, Parents, ObjectivesArePlaced,
              PeriodsHaveBegun, ProjectsHaveTheirObjective, OneOpen, DatesApart, ProjectsWithinPeriod, LiveOf
<1>2. ASSUME NEW c, NEW given, Performed(c, given) PROVE Planning'
  BY <1>2, TablesKeepType, ReferencesStay, ScopesStayLive, ObjectivesStayPlaced, PeriodsStayBegun,
     ProjectsKeepTheirObjective, OneStaysOpen, DatesStayApart, ProjectsStayWithinPeriod DEF Planning
<1> QED
  BY <1>1, <1>2, StepsPerform

\* A set whose members are all the same has at most one.
LEMMA AtMostOne == ASSUME NEW S, \A x, y \in S : x = y PROVE Cardinality(S) <= 1
<1>1. CASE S = {}
  BY <1>1, FS_EmptySet
<1>2. CASE S # {}
  <2>1. PICK x \in S : TRUE
    BY <1>2
  <2>2. S = {x}
    BY <2>1
  <2> QED
    BY <2>2, FS_Singleton
<1> QED
  BY <1>1, <1>2

\* What it says of the plan.
LEMMA PlanningHangsTogether == Planning => PlanHangsTogether
<1> SUFFICES ASSUME Planning PROVE PlanHangsTogether
  OBVIOUS
<1>1. ASSUME NEW o \in Organizations PROVE Cardinality(OpenIn(o)) <= 1
  <2>1. \A p, q \in OpenIn(o) : p = q
    BY DEF Planning, OneOpen, OpenIn
  <2> QED
    BY <2>1, AtMostOne
<1> QED
  BY <1>1 DEF Planning, PlanHangsTogether, PeriodsApart, OneOpenPeriod, DatesApart

\* One request at a time, whatever the calls and their order, what is planned hangs
\* together: no deletion, move, early closing or lost axis leaves an objective without its
\* unit, axis or period, a project without its objective or past the end of its open
\* period, two open periods or two periods of a day (PlanHangsTogether).
THEOREM PlanKeepsTogether == Spec /\ []OneAtATime => []PlanHangsTogether
<1>1. Init => Planning /\ ReadsHold
  BY PlanningStarts, ReadsStart
<1>2. Planning /\ ReadsHold /\ OneAtATime /\ [Next]_vars => (Planning /\ ReadsHold)'
  BY PlanningStays, ReadsKeepHolding
<1>3. Planning => PlanHangsTogether
  BY PlanningHangsTogether
<1> QED
  BY <1>1, <1>2, <1>3, PTL DEF Spec

-----------------------------------------------------------------------------
(* Closed periods rest.                                                    *)

\* The periods a call leaves closed.
LEMMA ClosedPeriodsStay ==
    ASSUME Tables, NEW c, NEW given, Performed(c, given), NEW p \in DOMAIN period, period[p].status = "closed"
    PROVE  /\ period'[p] \in {period[p], [period[p] EXCEPT !.live = FALSE]}
           /\ (c.op = "delete_period" /\ c.period = p) => ~period'[p].live
<1>0. period[p] \in PeriodRow
  BY DEF Tables, Rows
<1>1. CASE c.op = "create_period"
  <2>1. PICK row : period' = With(period, c.period, row) /\ c.period \notin DOMAIN period
    BY <1>1, CreatesPeriod
  <2> QED
    BY <1>1, <2>1 DEF With
<1>2. CASE c.op = "open_period"
  <2>1. PICK row : RowChanges(period, period', c.period, row) /\ period[c.period].status = "future"
    BY <1>2, OpensPeriod DEF MayOpenPeriod
  <2> QED
    BY <1>2, <2>1 DEF RowChanges
<1>3. CASE c.op = "close_period"
  <2>1. PICK row : RowChanges(period, period', c.period, row) /\ period[c.period].status = "open"
    BY <1>3, ClosesPeriod DEF MayClosePeriod
  <2> QED
    BY <1>3, <2>1 DEF RowChanges
<1>4. CASE c.op = "delete_period"
  <2>1. period' = Without(period, {c.period})
    BY <1>4, DeletesPeriod
  <2>2. [period[p] EXCEPT !.live = FALSE].live = FALSE
    BY <1>0 DEF PeriodRow
  <2> QED
    BY <1>4, <2>1, <2>2 DEF Without
<1>5. CASE period' = period /\ c.op # "delete_period"
  BY <1>5
<1> QED
  BY <1>1, <1>2, <1>3, <1>4, <1>5, Untouched

\* What it leaves of the objectives of a closed period,
LEMMA ObjectivesOfClosedStay ==
    ASSUME Planning, NEW c, NEW given, Performed(c, given), NEW o \in DOMAIN objective',
           NEW p \in DOMAIN period, period[p].status = "closed", objective'[o].period = p, period'[p].live
    PROVE  o \in DOMAIN objective /\ objective'[o] \in {objective[o], [objective[o] EXCEPT !.axis = NoAxis]}
<1>0. ObjectivesFate(c) /\ ~(c.op = "delete_period" /\ c.period = p)
  BY ObjectivesAfter, ClosedPeriodsStay DEF Planning
<1>1. o \in DOMAIN objective /\ objective[o].period = p
  <2>1. o \notin DOMAIN objective => objective'[o].period \in OpenIn(Here)
    BY <1>0 DEF ObjectivesFate
  <2> QED
    BY <1>0, <2>1 DEF ObjectivesFate, OpenIn
<1>2. CASE c.op = "delete_axis"
  BY <1>1, <1>2, DeletesAxis
<1>3. CASE c.op = "delete_period"
  <2>1. objective' = Without(objective, PlannedIn(c.period)) /\ o \notin PlannedIn(c.period)
    BY <1>0, <1>1, <1>3, DeletesPeriod DEF PlannedIn
  <2> QED
    BY <1>1, <2>1 DEF Without
<1>4. CASE c.op = "create_objective"
  <2>1. PICK row : objective' = With(objective, c.objective, row) /\ c.objective \notin DOMAIN objective
    BY <1>4, CreatesObjective
  <2> QED
    BY <1>1, <2>1 DEF With
<1>5. CASE c.op = "update_objective"
  <2>1. PICK row : RowChanges(objective, objective', c.objective, row) /\ OpenPeriod(c.objective)
    BY <1>5, UpdatesObjective DEF MayUpdateObjective
  <2>2. o # c.objective
    BY <1>1, <2>1 DEF OpenPeriod
  <2> QED
    BY <1>1, <2>1, <2>2 DEF RowChanges
<1>6. CASE c.op = "delete_objective"
  <2>1. objective' = Without(objective, {c.objective}) /\ OpenPeriod(c.objective)
    BY <1>6, DeletesObjective DEF MayDeleteObjective
  <2>2. o # c.objective
    BY <1>1, <2>1 DEF OpenPeriod
  <2> QED
    BY <1>1, <2>1, <2>2 DEF Without
<1>7. CASE objective' = objective
  BY <1>1, <1>7
<1> QED
  BY <1>2, <1>3, <1>4, <1>5, <1>6, <1>7, Untouched

\* and of its projects.
LEMMA ProjectsOfClosedStay ==
    ASSUME Planning, NEW c, NEW given, Performed(c, given), NEW x \in DOMAIN project',
           NEW p \in DOMAIN period, period[p].status = "closed",
           objective'[project'[x].objective].period = p, period'[p].live
    PROVE  x \in DOMAIN project /\ project'[x] = project[x]
<1> DEFINE o == project'[x].objective
<1>0. /\ ObjectivesFate(c) /\ ProjectsFate(c) /\ ~(c.op = "delete_period" /\ c.period = p)
  BY ObjectivesAfter, ProjectsAfter, ClosedPeriodsStay DEF Planning
<1>1. o \in DOMAIN objective /\ objective[o].period = p /\ ~OpenPeriod(o)
  <2>1. o \in DOMAIN objective
    BY <1>0 DEF ProjectsFate, Planning, References, LiveOf
  <2> QED
    BY <1>0, <2>1 DEF ObjectivesFate, OpenPeriod
<1>2. x \in DOMAIN project /\ o = project[x].objective
  BY <1>0, <1>1 DEF ProjectsFate
<1>3. CASE c.op = "delete_period"
  <2> DEFINE gone == {y \in DOMAIN project : project[y].objective \in PlannedIn(c.period)}
  <2>1. project' = Without(project, gone)
    BY <1>3, DeletesPeriod
  <2>2. x \notin gone
    BY <1>0, <1>1, <1>2, <1>3 DEF PlannedIn
  <2> HIDE DEF gone
  <2> QED
    BY <1>2, <2>1, <2>2 DEF Without
<1>4. CASE c.op = "create_project"
  <2>1. PICK row : project' = With(project, c.project, row) /\ c.project \notin DOMAIN project
    BY <1>4, CreatesProject
  <2> QED
    BY <1>2, <2>1 DEF With
<1>5. CASE c.op = "update_project"
  <2>1. PICK row : RowChanges(project, project', c.project, row) /\ OpenPeriod(project[c.project].objective)
    BY <1>5, UpdatesProject DEF MayUpdateProject
  <2>2. x # c.project
    BY <1>1, <1>2, <2>1
  <2> QED
    BY <1>2, <2>1, <2>2 DEF RowChanges
<1>6. CASE c.op = "delete_project"
  <2>1. project' = Without(project, {c.project}) /\ OpenPeriod(project[c.project].objective)
    BY <1>6, DeletesProject DEF MayDeleteProject
  <2>2. x # c.project
    BY <1>1, <1>2, <2>1
  <2> QED
    BY <1>2, <2>1, <2>2 DEF Without
<1>7. CASE project' = project
  BY <1>2, <1>7
<1> QED
  BY <1>3, <1>4, <1>5, <1>6, <1>7, Untouched

\* One request at a time, a closed period never opens again nor changes its dates, and
\* nothing is planned or edited in it, by any service (ClosedPeriodsRest).
THEOREM ClosedPeriodsStayClosed == Spec /\ []OneAtATime => ClosedPeriodsRest
<1>1. Init => Planning /\ ReadsHold
  BY PlanningStarts, ReadsStart
<1>2. Planning /\ ReadsHold /\ OneAtATime /\ [Next]_vars => (Planning /\ ReadsHold)'
  BY PlanningStays, ReadsKeepHolding
<1>3. Planning /\ ReadsHold /\ [Next]_vars => [RestWhenClosed]_vars
  <2> SUFFICES ASSUME Planning, ReadsHold, [Next]_vars PROVE RestWhenClosed
    OBVIOUS
  <2>1. CASE Kept
    BY <2>1 DEF Kept, structure, work, RestWhenClosed
  <2>2. ASSUME NEW c, NEW given, Performed(c, given) PROVE RestWhenClosed
    BY <2>2, ClosedPeriodsStay, ObjectivesOfClosedStay, ProjectsOfClosedStay DEF RestWhenClosed, Planning
  <2> QED
    BY <2>1, <2>2, StepsPerform
<1>4. Spec /\ []OneAtATime => [][RestWhenClosed]_vars
  BY <1>1, <1>2, <1>3, PTL DEF Spec
<1> QED
  BY <1>4 DEF ClosedPeriodsRest

-----------------------------------------------------------------------------
(* The structure stands.                                                   *)

\* Every unit may be a child of its parent.
KindsFit ==
    \A u \in DOMAIN Parents :
        Parents[u] # NoUnit => CanBeChildOf(unit[Parents[u]].kind, unit[u].kind)
\* The central unit, and it alone, has no parent.
OneRoot ==
    \E root \in DOMAIN Parents :
        \A u \in DOMAIN Parents : /\ unit[u].kind = "central" <=> u = root
                                  /\ Parents[u] = NoUnit <=> u = root
\* L numbers the levels of the units, no deeper than MaxDepth.
Shallow(L) == Levelled(Parents, L) /\ \A u \in DOMAIN Parents : L[u] <= MaxDepth
\* The live units are a tree of MaxDepth levels at most, and their kinds fit: the
\* inductive invariant of the structure. The levels are what a cycle could not have.
Tree == IsFiniteSet(DOMAIN unit) /\ (\E L : Shallow(L)) /\ OneRoot /\ KindsFit

\* The central unit alone is a tree.
LEMMA TreeStarts == Init => Tree
<1> SUFFICES ASSUME Init PROVE Tree
  OBVIOUS
<1>1. PICK root \in Units : unit = [u \in {root} |-> [kind |-> "central", parent |-> NoUnit, live |-> TRUE]]
  BY DEF Init
<1>2. DOMAIN unit = {root} /\ unit[root].live = TRUE /\ unit[root].parent = NoUnit /\ unit[root].kind = "central"
  BY <1>1
<1>3. DOMAIN Parents = {root} /\ Parents[root] = NoUnit
  BY <1>2 DEF Parents, LiveOf
<1>4. IsFiniteSet(DOMAIN unit)
  BY <1>2, FS_Singleton
<1>5. Shallow([u \in {root} |-> 1])
  <2> DEFINE L == [u \in {root} |-> 1]
  <2>1. L[root] = 1
    OBVIOUS
  <2> HIDE DEF L
  <2>2. Shallow(L)
    BY <1>3, <2>1, NoUnitAssumption, DepthAssumption DEF Shallow, Levelled
  <2> QED
    BY <2>2 DEF L
<1>6. OneRoot /\ KindsFit
  BY <1>2, <1>3 DEF OneRoot, KindsFit
<1> QED
  BY <1>4, <1>5, <1>6 DEF Tree

\* Every call keeps the tree: a new unit is a leaf, a deleted one was a leaf, and one
\* that moves fits, with its subtree, under a unit that is not its own descendant.
LEMMA TreeStays ==
    ASSUME Tables, Tree, NEW c, NEW given, Performed(c, given) PROVE Tree'
<1> USE LiveRows
<1>0. PICK L : Shallow(L)
  BY DEF Tree
<1>a. PICK root \in DOMAIN Parents :
          \A u \in DOMAIN Parents : /\ unit[u].kind = "central" <=> u = root
                                    /\ Parents[u] = NoUnit <=> u = root
  BY DEF Tree, OneRoot
<1>b. IsFiniteSet(DOMAIN unit) /\ IsFiniteSet(DOMAIN Parents) /\ KindsFit
  BY FS_Subset DEF Tree
<1>c. \A u \in DOMAIN unit : unit[u] \in UnitRow
  BY DEF Tables, Rows
<1>d. \A u \in DOMAIN Parents : Parents[u] = unit[u].parent
  BY DEF Parents
<1>1. CASE c.op = "create_unit"
  <2> DEFINE w == c.unit
             q == c.parent
             row == [kind |-> c.kind, parent |-> c.parent, live |-> TRUE]
             R == [v \in DOMAIN Parents \cup {w} |-> IF v = w THEN q ELSE Parents[v]]
             M == [v \in DOMAIN Parents \cup {w} |-> IF v = w THEN L[q] + 1 ELSE L[v]]
  <2>1. /\ w \in Units \ DOMAIN unit /\ q \in DOMAIN Parents
        /\ CanBeChildOf(unit[q].kind, c.kind)
        /\ DepthOf(Parents, q) + 1 <= MaxDepth
        /\ unit' = With(unit, w, row)
    BY <1>1, CreatesUnit DEF MayCreateUnit
  <2>2. row.kind = c.kind /\ row.parent = q /\ row.live = TRUE
    OBVIOUS
  <2> HIDE DEF row
  <2>3. /\ DOMAIN unit' = DOMAIN unit \cup {w} /\ unit'[w] = row
        /\ \A u \in DOMAIN unit : unit'[u] = unit[u]
    BY <2>1 DEF With
  <2>4. Parents' = R
    BY <2>1, <2>2, <2>3 DEF Parents, LiveOf
  <2>5. Levelled(R, M)
    BY <1>0, <2>1, NoUnitAssumption, LeafAdded DEF Shallow
  <2>6. L[q] + 1 <= MaxDepth
    BY <1>0, <1>b, <2>1, DepthIsLevel DEF Shallow
  <2>7. DOMAIN R = DOMAIN Parents \cup {w} /\ R[w] = q /\ \A v \in DOMAIN Parents : R[v] = Parents[v]
    BY <2>1
  <2>8. \A v \in DOMAIN R : M[v] <= MaxDepth
    BY <1>0, <2>6 DEF Shallow
  <2> HIDE DEF R, M
  <2>9. \E K : Shallow(K)'
    <3>1. PICK K : K = M
      OBVIOUS
    <3>2. Shallow(K)'
      BY <2>4, <2>5, <2>8, <3>1 DEF Shallow
    <3> QED
      BY <3>2
  <2>10. IsFiniteSet(DOMAIN unit')
    BY <1>b, <2>3, FS_AddElement
  <2>11. OneRoot'
    <3>1. c.kind # "central" /\ q # NoUnit
      BY <1>0, <2>1 DEF CanBeChildOf, Shallow, Levelled
    <3>2. \A u \in DOMAIN Parents' : /\ unit'[u].kind = "central" <=> u = root
                                     /\ Parents'[u] = NoUnit <=> u = root
      BY <1>a, <2>1, <2>2, <2>3, <2>4, <2>7, <3>1
    <3> QED
      BY <2>4, <2>7, <3>2 DEF OneRoot
  <2>12. KindsFit'
    <3>1. \A u \in DOMAIN Parents : Parents[u] # NoUnit => Parents[u] \in DOMAIN Parents
      BY <1>0 DEF Shallow, Levelled
    <3> QED
      BY <1>b, <2>1, <2>2, <2>3, <2>4, <2>7, <3>1 DEF KindsFit
  <2> QED
    BY <2>9, <2>10, <2>11, <2>12 DEF Tree
<1>2. CASE c.op = "update_unit"
  <2> DEFINE u == c.unit
             old == unit[u]
             kind == Edited(old.kind, c.kind)
             q == Edited(old.parent, c.parent)
             row == [old EXCEPT !.kind = kind, !.parent = q]
  <2>1. RowChanges(unit, unit', u, row) /\ MayUpdateUnit(c) /\ kind \in {old.kind, "ministry", "area"}
    BY <1>2, UpdatesUnit DEF Edited
  <2>2. /\ u \in DOMAIN Parents /\ old.kind # "central"
        /\ q # old.parent => MayMove(u, q)
        /\ (<<kind, q>> # <<old.kind, old.parent>> /\ q \in DOMAIN Parents) => CanBeChildOf(unit[q].kind, kind)
        /\ kind # old.kind => \A v \in DOMAIN Parents : Parents[v] = u => CanBeChildOf(kind, unit[v].kind)
    BY <2>1 DEF MayUpdateUnit
  <2>3. row.kind = kind /\ row.parent = q /\ row.live = old.live /\ old.live
    BY <1>c, <2>2 DEF UnitRow, LiveOf
  <2>4. /\ DOMAIN unit' = DOMAIN unit /\ unit'[u] = row
        /\ \A v \in DOMAIN unit : v # u => unit'[v] = unit[v]
    BY <2>1 DEF RowChanges
  <2> HIDE DEF kind, q, row
  <2>5. Parents' = [Parents EXCEPT ![u] = q]
    <3>1. LiveOf(unit)' = LiveOf(unit)
      BY <2>2, <2>3, <2>4 DEF LiveOf
    <3> QED
      BY <1>d, <2>2, <2>3, <2>4, <3>1 DEF Parents
  <2>6. Parents[u] # NoUnit /\ Parents[u] \in DOMAIN Parents /\ old.parent = Parents[u] /\ u # root
    BY <1>0, <1>a, <1>d, <2>2 DEF Shallow, Levelled
  <2>7. q \in DOMAIN Parents /\ q # u
    <3>1. CASE q = old.parent
      BY <1>0, <2>2, <2>6, <3>1 DEF Shallow, Levelled
    <3>2. CASE q # old.parent
      <4>1. q \in DOMAIN Parents /\ ~IsSelfOrDescendant(Parents, u, q)
        BY <2>2, <3>2 DEF MayMove
      <4> QED
        BY <1>b, <4>1, ClimbStarts DEF IsSelfOrDescendant
    <3> QED
      BY <3>1, <3>2
  <2>8. \E M : Shallow(M)'
    <3>1. CASE q = old.parent
      <4>1. Parents' = Parents
        BY <2>5, <2>6, <3>1 DEF Parents
      <4>2. Shallow(L)'
        BY <1>0, <4>1 DEF Shallow
      <4> QED
        BY <4>2
    <3>2. CASE q # old.parent
      <4> DEFINE M == MovedLevels(Parents, L, u, q)
      <4>1. u \notin Climb(Parents, q) /\ DepthOf(Parents, q) + SubtreeHeight(Parents, u) <= MaxDepth
        BY <2>2, <3>2 DEF MayMove, IsSelfOrDescendant
      <4>2. L[q] + SubtreeHeight(Parents, u) <= MaxDepth
        BY <1>0, <1>b, <2>7, <4>1, DepthIsLevel DEF Shallow
      <4>3. /\ Levelled([Parents EXCEPT ![u] = q], M)
            /\ \A v \in DOMAIN Parents : M[v] = L[v] \/ M[v] <= L[q] + SubtreeHeight(Parents, u)
        BY <1>0, <1>b, <2>2, <2>7, <4>1, UnitMoved DEF Shallow
      <4>4. L[q] \in Nat /\ SubtreeHeight(Parents, u) \in Nat
        BY <1>0, <1>b, <2>2, <2>7, ClimbStarts, HeightReaches DEF Shallow, Levelled
      <4> HIDE DEF M
      <4>5. \A v \in DOMAIN Parents : M[v] \in Nat
        BY <4>3 DEF Levelled
      <4>6. \A v \in DOMAIN Parents : M[v] <= MaxDepth
        BY <1>0, <4>2, <4>3, <4>4, <4>5, DepthAssumption DEF Shallow
      <4>7. PICK K : K = M
        OBVIOUS
      <4>8. DOMAIN Parents' = DOMAIN Parents
        BY <2>5
      <4>9. Shallow(K)'
        BY <2>5, <4>3, <4>6, <4>7, <4>8 DEF Shallow
      <4> QED
        BY <4>9
    <3> QED
      BY <3>1, <3>2
  <2>9. /\ DOMAIN Parents' = DOMAIN Parents /\ Parents'[u] = q
        /\ \A v \in DOMAIN Parents : v # u => Parents'[v] = Parents[v]
    BY <2>2, <2>5
  <2>10. OneRoot'
    <3>1. kind # "central" /\ q # NoUnit
      BY <1>0, <2>1, <2>2, <2>7 DEF Shallow, Levelled, kind
    <3>2. \A v \in DOMAIN Parents' : /\ unit'[v].kind = "central" <=> v = root
                                     /\ Parents'[v] = NoUnit <=> v = root
      BY <1>a, <2>3, <2>4, <2>6, <2>9, <3>1
    <3> QED
      BY <2>9, <3>2 DEF OneRoot
  <2>11. KindsFit'
    <3>1. CanBeChildOf(unit[q].kind, kind)
      BY <1>b, <2>2, <2>6, <2>7 DEF KindsFit
    <3>2. ASSUME NEW v \in DOMAIN Parents, v # u, Parents[v] # NoUnit
          PROVE  CanBeChildOf(unit'[Parents[v]].kind, unit[v].kind)
      <4>1. Parents[v] \in DOMAIN Parents /\ CanBeChildOf(unit[Parents[v]].kind, unit[v].kind)
        BY <1>0, <1>b, <3>2 DEF Shallow, Levelled, KindsFit
      <4> QED
        BY <2>2, <2>3, <2>4, <4>1
    <3>3. unit'[q].kind = unit[q].kind /\ unit'[u].kind = kind
      BY <2>3, <2>4, <2>7
    <3>4. ASSUME NEW v \in DOMAIN Parents', Parents'[v] # NoUnit
          PROVE  CanBeChildOf(unit'[Parents'[v]].kind, unit'[v].kind)
      BY <2>4, <2>9, <3>1, <3>2, <3>3, <3>4
    <3> QED
      BY <3>4 DEF KindsFit
  <2> QED
    BY <1>b, <2>4, <2>8, <2>10, <2>11 DEF Tree
<1>3. CASE c.op = "delete_unit"
  <2> DEFINE u == c.unit
             R == [v \in DOMAIN Parents \ {u} |-> Parents[v]]
  <2>1. /\ unit' = Without(unit, {u}) /\ u \in DOMAIN Parents /\ unit[u].kind # "central"
        /\ \A v \in DOMAIN Parents : Parents[v] # u
    BY <1>3, DeletesUnit DEF MayDeleteUnit
  <2>2. /\ DOMAIN unit' = DOMAIN unit /\ unit'[u].live = FALSE
        /\ \A v \in DOMAIN unit : v # u => unit'[v] = unit[v]
    BY <1>c, <2>1 DEF Without, UnitRow
  <2>3. Parents' = R
    BY <2>1, <2>2 DEF Parents, LiveOf
  <2>4. Levelled(R, L)
    BY <1>0, <2>1, LeafRemoved DEF Shallow
  <2>5. DOMAIN R = DOMAIN Parents \ {u} /\ \A v \in DOMAIN Parents : v # u => R[v] = Parents[v]
    OBVIOUS
  <2> HIDE DEF R
  <2>6. Shallow(L)'
    BY <1>0, <2>3, <2>4, <2>5 DEF Shallow
  <2>7. OneRoot'
    <3>1. \A v \in DOMAIN Parents' : /\ unit'[v].kind = "central" <=> v = root
                                     /\ Parents'[v] = NoUnit <=> v = root
      BY <1>a, <2>2, <2>3, <2>5
    <3>2. root \in DOMAIN Parents'
      BY <1>a, <2>1, <2>3, <2>5
    <3> QED
      BY <3>1, <3>2 DEF OneRoot
  <2>8. KindsFit'
    <3>1. \A v \in DOMAIN Parents : Parents[v] # NoUnit => Parents[v] \in DOMAIN Parents
      BY <1>0 DEF Shallow, Levelled
    <3> QED
      BY <1>b, <2>1, <2>2, <2>3, <2>5, <3>1 DEF KindsFit
  <2> QED
    BY <1>b, <2>2, <2>6, <2>7, <2>8 DEF Tree
<1>4. CASE unit' = unit
  <2>1. Parents' = Parents
    BY <1>4 DEF Parents, LiveOf
  <2>2. Shallow(L)' /\ OneRoot' /\ KindsFit'
    BY <1>0, <1>4, <1>a, <1>b, <2>1 DEF Shallow, OneRoot, KindsFit
  <2> QED
    BY <1>4, <1>b, <2>2 DEF Tree
<1> QED
  BY <1>1, <1>2, <1>3, <1>4, Untouched

\* What it says of the structure.
LEMMA TreeIsOne == Planning /\ Tree => UnitsFormATree
<1> SUFFICES ASSUME Planning, Tree PROVE UnitsFormATree
  OBVIOUS
<1>0. PICK L : Shallow(L)
  BY DEF Tree
<1>1. IsFiniteSet(DOMAIN Parents) /\ Tables
  BY LiveRows, FS_Subset DEF Tree, Planning
<1>2. ShownUnits(Parents) = DOMAIN Parents
  BY <1>0, <1>1, EverythingIsShown DEF Shallow
<1>3. PICK root \in DOMAIN Parents :
          \A u \in DOMAIN Parents : /\ unit[u].kind = "central" <=> u = root
                                    /\ Parents[u] = NoUnit <=> u = root
  BY DEF Tree, OneRoot
<1>4. Roots(Parents) = {root}
  BY <1>0, <1>3, RootsAreParentless DEF Shallow
<1>5. Cardinality(Roots(Parents)) = 1
  BY <1>4, FS_Singleton
<1>6. {u \in DOMAIN Parents : unit[u].kind = "central"} = Roots(Parents)
  BY <1>3, <1>4
<1>7. ASSUME NEW u \in DOMAIN Parents
      PROVE  DepthOf(Parents, u) <= MaxDepth /\ (unit[u].kind = "ministry" => unit[Parents[u]].kind # "area")
  <2>1. DepthOf(Parents, u) <= MaxDepth
    BY <1>0, <1>1, DepthIsLevel DEF Shallow
  <2>2. ASSUME unit[u].kind = "ministry" PROVE unit[Parents[u]].kind # "area"
    <3>1. Parents[u] # NoUnit
      BY <1>3, <2>2
    <3>2. CanBeChildOf(unit[Parents[u]].kind, "ministry")
      BY <2>2, <3>1 DEF Tree, KindsFit
    <3> QED
      BY <3>2 DEF CanBeChildOf
  <2> QED
    BY <2>1, <2>2
<1> QED
  BY <1>2, <1>5, <1>6, <1>7 DEF UnitsFormATree

\* The inductive invariant of it all, while one request is served at a time.
Sound == Planning /\ Tree /\ ReadsHold /\ IsFiniteSet(DOMAIN objective) /\ expired \subseteq Periods

\* It holds at first,
LEMMA SoundStarts == Init => Sound
<1>1. Init => expired \subseteq Periods
  BY DEF Init
<1>2. Init => DOMAIN objective = {}
  BY DEF Init
<1> QED
  BY <1>1, <1>2, PlanningStarts, TreeStarts, ReadsStart, FS_EmptySet DEF Sound

\* every step keeps it,
LEMMA SoundStays == Sound /\ OneAtATime /\ [Next]_vars => Sound'
<1> SUFFICES ASSUME Sound, OneAtATime, [Next]_vars PROVE Sound'
  OBVIOUS
<1>1. Planning' /\ ReadsHold'
  BY PlanningStays, ReadsKeepHolding DEF Sound
<1>2. Tree'
  <2>1. CASE Kept
    <3>1. unit' = unit /\ Parents' = Parents
      BY <2>1 DEF Kept, structure, Parents, LiveOf
    <3>2. PICK L : Shallow(L)
      BY DEF Sound, Tree
    <3>3. Shallow(L)' /\ OneRoot' /\ KindsFit'
      BY <3>1, <3>2 DEF Sound, Tree, Shallow, OneRoot, KindsFit
    <3> QED
      BY <3>1, <3>3 DEF Sound, Tree
  <2>2. ASSUME NEW c, NEW given, Performed(c, given) PROVE Tree'
    BY <2>2, TreeStays DEF Sound, Planning
  <2> QED
    BY <2>1, <2>2, StepsPerform DEF Sound
<1>4. IsFiniteSet(DOMAIN objective)'
  <2>1. CASE Kept
    BY <2>1 DEF Kept, work, Sound
  <2>2. ASSUME NEW c, NEW given, Performed(c, given) PROVE IsFiniteSet(DOMAIN objective')
    <3>1. ObjectivesFate(c)
      BY <2>2, ObjectivesAfter DEF Sound, Planning
    <3>2. DOMAIN objective' \subseteq DOMAIN objective \cup {c.objective}
      BY <3>1 DEF ObjectivesFate
    <3> QED
      BY <3>2, FS_AddElement, FS_Subset DEF Sound
  <2> QED
    BY <2>1, <2>2, StepsPerform DEF Sound
<1>3. expired' \subseteq Periods
  <2>1. Expired \subseteq Periods
    BY LiveRows DEF Expired, Sound, Planning
  <2> QED
    BY <2>1 DEF Sound, Next, Begin, Commit, RollBack, CronLists, CronCloses, Tick, vars
<1> QED
  BY <1>1, <1>2, <1>3, <1>4 DEF Sound

\* and it is more than StructureStands.
LEMMA SoundStructure == Sound => StructureStands
<1>1. Sound => TypeOK
  BY TypeOfTables DEF Sound, Planning, Tables, ReadsHold
<1> QED
  BY <1>1, TreeIsOne DEF Sound, Planning, StructureStands

\* One request at a time, the live units are one tree under the central unit, of MaxDepth
\* levels at most and with kinds that fit, and every scope is a live unit, after any
\* sequence of creations, moves, changes of kind and deletions (StructureStands).
THEOREM StructureKeepsStanding == Spec /\ []OneAtATime => []StructureStands
  BY SoundStarts, SoundStays, SoundStructure, PTL DEF Spec

-----------------------------------------------------------------------------
(* Writes stay in scope.                                                   *)

\* Who may write in a unit, or grant it as a scope, has it in the own.
LEMMA CanWriteInOwn ==
    ASSUME Sound, NEW m \in DOMAIN member, m # Superadmin, member[m] # NoUnit, NEW x
    PROVE  /\ CanWriteIn(m, x) => x \in {v \in DOMAIN unit : member[m] \in Climb(Parents, v)}
           /\ CanGrant(m, x) => x \in {v \in DOMAIN unit : member[m] \in Climb(Parents, v)}
           /\ ~CentralScope(m)
<1>1. Scope(m) = member[m] /\ member[m] \in DOMAIN Parents
  BY DEF Scope, Sound, Planning, ScopesAreLive
<1>2. DOMAIN Parents \subseteq DOMAIN unit /\ IsFiniteSet(DOMAIN Parents)
  BY LiveRows, FS_Subset DEF Sound, Planning, Tree
<1>3. member[m] \in Climb(Parents, member[m])
  BY <1>2, ClimbStarts
<1>4. ScopeUnits(Parents, member[m]) \subseteq {v \in DOMAIN unit : member[m] \in Climb(Parents, v)}
  BY <1>1, <1>2, <1>3 DEF ScopeUnits
<1> QED
  BY <1>1, <1>4 DEF CanWriteIn, CanGrant, CentralScope

\* Whatever a member with a scope calls, it writes in that scope.
LEMMA PerformedInScope ==
    ASSUME Sound, NEW c, NEW given, Performed(c, given), c.by # Superadmin, member[c.by] # NoUnit
    PROVE  WritesInScope(c.by)
<1> DEFINE u == c.by
           mine == {v \in DOMAIN unit : member[u] \in Climb(Parents, v)}
<1>0. u \in DOMAIN member /\ Tables
  BY DEF Performed, Holds, Sound, Planning
<1>1. /\ \A x : CanWriteIn(u, x) => x \in mine
      /\ \A x : CanGrant(u, x) => x \in mine
      /\ ~CentralScope(u)
  BY <1>0, CanWriteInOwn
<1>2. c.op \in {"invite", "set_scope", "remove", "create_objective", "update_objective",
                "delete_objective", "create_project", "update_project", "delete_project"}
  <2>1. c.op # "create_unit"
    BY <1>1, CreatesUnit DEF MayCreateUnit
  <2>2. c.op # "update_unit"
    BY <1>1, UpdatesUnit DEF MayUpdateUnit
  <2>3. c.op # "delete_unit"
    BY <1>1, DeletesUnit DEF MayDeleteUnit
  <2>4. c.op # "upsert_plan"
    BY <1>1, UpsertsPlan
  <2>5. c.op # "create_axis"
    BY <1>1, CreatesAxis
  <2>6. c.op # "delete_axis"
    BY <1>1, DeletesAxis
  <2>7. c.op # "create_period"
    BY <1>1, CreatesPeriod DEF MayCreatePeriod
  <2>8. c.op # "open_period"
    BY <1>1, OpensPeriod DEF MayOpenPeriod
  <2>9. c.op # "close_period"
    BY <1>1, ClosesPeriod DEF MayClosePeriod
  <2>10. c.op # "delete_period"
    BY <1>1, DeletesPeriod
  <2> QED
    BY <2>1, <2>2, <2>3, <2>4, <2>5, <2>6, <2>7, <2>8, <2>9, <2>10, OperationOf
<1>3. UNCHANGED <<unit, plan, axis, period>>
  BY <1>2, Untouched
<1> HIDE DEF mine
<1>4. ASSUME NEW m \in Changed(member, member')
      PROVE  {member[x] : x \in {m} \cap DOMAIN member} \cup
             {member'[x] : x \in {m} \cap DOMAIN member'} \subseteq mine
  <2>1. CASE c.op = "invite"
    <3>1. /\ member' = With(member, c.user, c.scope) /\ CanGrant(u, c.scope)
          /\ c.user \notin DOMAIN member
      BY <2>1, Invites DEF MayInvite
    <3>2. m = c.user
      BY <3>1 DEF Changed, With
    <3> QED
      BY <1>1, <3>1, <3>2 DEF With
  <2>2. CASE c.op = "set_scope"
    <3>1. /\ member' = [member EXCEPT ![c.user] = c.scope] /\ c.user \in DOMAIN member
          /\ CanGrant(u, c.scope) /\ CanGrant(u, member[c.user])
      BY <2>2, SetsScope DEF MaySetScope
    <3>2. m = c.user
      BY <3>1 DEF Changed
    <3> QED
      BY <1>1, <3>1, <3>2
  <2>3. CASE c.op = "remove"
    <3>1. /\ member' = [x \in DOMAIN member \ {c.user} |-> member[x]] /\ c.user \in DOMAIN member
          /\ CanGrant(u, member[c.user])
      BY <2>3, Removes DEF MayRemove
    <3>2. m = c.user
      BY <3>1 DEF Changed
    <3> QED
      BY <1>1, <3>1, <3>2
  <2>4. CASE member' = member
    BY <2>4 DEF Changed
  <2> QED
    BY <2>1, <2>2, <2>3, <2>4, Untouched
<1>5. ASSUME NEW o \in Changed(objective, objective') PROVE PlacesOf(objective, objective', o) \subseteq mine
  <2>1. CASE c.op = "create_objective"
    <3> DEFINE row == [unit |-> c.unit, axis |-> c.axis, period |-> given, live |-> TRUE]
    <3>1. /\ objective' = With(objective, c.objective, row) /\ CanWriteIn(u, c.unit)
          /\ c.objective \notin DOMAIN objective
      BY <2>1, CreatesObjective DEF MayCreateObjective
    <3>2. row.unit = c.unit
      OBVIOUS
    <3> HIDE DEF row
    <3>3. o = c.objective
      BY <3>1 DEF Changed, With
    <3> QED
      BY <1>1, <3>1, <3>2, <3>3 DEF With, PlacesOf
  <2>2. CASE c.op = "update_objective"
    <3> DEFINE old == objective[c.objective]
               row == [old EXCEPT !.unit = Edited(old.unit, c.unit), !.axis = Edited(old.axis, c.axis)]
    <3>1. /\ RowChanges(objective, objective', c.objective, row) /\ CanWriteIn(u, old.unit)
          /\ c.unit \notin {Keep, old.unit} => CanWriteIn(u, c.unit)
      BY <2>2, UpdatesObjective DEF MayUpdateObjective
    <3>2. row.unit = Edited(old.unit, c.unit)
      BY <1>0, <3>1 DEF Tables, Rows, RowChanges, ObjectiveRow
    <3> HIDE DEF row
    <3>3. o = c.objective /\ objective'[o] = row
      BY <3>1 DEF Changed, RowChanges
    <3>4. old.unit \in mine /\ row.unit \in mine
      BY <1>1, <3>1, <3>2 DEF Edited
    <3> QED
      BY <3>3, <3>4 DEF PlacesOf
  <2>3. CASE c.op = "delete_objective"
    <3>1. /\ objective' = Without(objective, {c.objective}) /\ CanWriteIn(u, objective[c.objective].unit)
      BY <2>3, DeletesObjective DEF MayDeleteObjective
    <3>2. o = c.objective /\ o \in DOMAIN objective /\ objective'[o] = [objective[o] EXCEPT !.live = FALSE]
      BY <3>1 DEF Changed, Without
    <3>3. objective'[o].unit = objective[o].unit
      BY <1>0, <3>2 DEF Tables, Rows, ObjectiveRow
    <3> QED
      BY <1>1, <3>1, <3>2, <3>3 DEF PlacesOf
  <2>4. CASE objective' = objective
    BY <2>4 DEF Changed
  <2> QED
    BY <1>2, <2>1, <2>2, <2>3, <2>4, Untouched
<1>6. ASSUME NEW p \in Changed(project, project') PROVE PlacesOf(project, project', p) \subseteq mine
  <2>1. CASE c.op = "create_project"
    <3> DEFINE row == [objective |-> c.objective, unit |-> UnitOfProject(c), endsAt |-> c.endsAt, live |-> TRUE]
    <3>1. /\ project' = With(project, c.project, row) /\ CanWriteIn(u, UnitOfProject(c))
          /\ c.project \notin DOMAIN project
      BY <2>1, CreatesProject DEF MayCreateProject
    <3>2. row.unit = UnitOfProject(c)
      OBVIOUS
    <3> HIDE DEF row
    <3>3. p = c.project
      BY <3>1 DEF Changed, With
    <3> QED
      BY <1>1, <3>1, <3>2, <3>3 DEF With, PlacesOf
  <2>2. CASE c.op = "update_project"
    <3> DEFINE old == project[c.project]
               row == [old EXCEPT !.unit = Edited(old.unit, c.unit), !.endsAt = Edited(old.endsAt, c.endsAt)]
    <3>1. /\ RowChanges(project, project', c.project, row) /\ CanWriteIn(u, old.unit)
          /\ c.unit \notin {Keep, old.unit} => CanWriteIn(u, c.unit)
      BY <2>2, UpdatesProject DEF MayUpdateProject
    <3>2. row.unit = Edited(old.unit, c.unit)
      BY <1>0, <3>1 DEF Tables, Rows, RowChanges, ProjectRow
    <3> HIDE DEF row
    <3>3. p = c.project /\ project'[p] = row
      BY <3>1 DEF Changed, RowChanges
    <3>4. old.unit \in mine /\ row.unit \in mine
      BY <1>1, <3>1, <3>2 DEF Edited
    <3> QED
      BY <3>3, <3>4 DEF PlacesOf
  <2>3. CASE c.op = "delete_project"
    <3>1. project' = Without(project, {c.project}) /\ CanWriteIn(u, project[c.project].unit)
      BY <2>3, DeletesProject DEF MayDeleteProject
    <3>2. p = c.project /\ p \in DOMAIN project /\ project'[p] = [project[p] EXCEPT !.live = FALSE]
      BY <3>1 DEF Changed, Without
    <3>3. project'[p].unit = project[p].unit
      BY <1>0, <3>2 DEF Tables, Rows, ProjectRow
    <3> QED
      BY <1>1, <3>1, <3>2, <3>3 DEF PlacesOf
  <2>4. CASE project' = project
    BY <2>4 DEF Changed
  <2> QED
    BY <1>2, <2>1, <2>2, <2>3, <2>4, Untouched
<1> QED
  BY <1>3, <1>4, <1>5, <1>6 DEF WritesInScope, mine

\* (Nor outside it when it writes nothing.)
LEMMA NothingWritten ==
    ASSUME NEW u, Kept PROVE WritesInScope(u)
  BY DEF Kept, structure, work, WritesInScope, Changed

\* So does every step that ends its request.
LEMMA ScopeKept == Sound /\ [Next]_vars => StayInScope
<1> SUFFICES ASSUME Sound, [Next]_vars, NEW s \in Busy, request'[s] = Idle, request[s].call.by # Superadmin,
                    member[request[s].call.by] # NoUnit
             PROVE  WritesInScope(request[s].call.by)
  BY DEF StayInScope
<1>0. s \in Requests /\ request[s] # Idle
  BY DEF Busy
<1>1. PICK c, given : c = request[s].call /\ given = request[s].given
  OBVIOUS
<1>2. CASE Kept
  BY <1>1, <1>2, NothingWritten
<1>3. CASE ~Kept
  <2>1. PICK q \in Requests : Commit(q)
    BY <1>3 DEF Next, Begin, RollBack, CronLists, CronCloses, Tick, Kept, vars, structure, work
  <2>2. q = s
    BY <1>0, <2>1 DEF Commit, Sound, ReadsHold
  <2>3. Performed(c, given)
    BY <1>0, <1>1, <2>1, <2>2 DEF Commit, Performed, Sound, ReadsHold
  <2> QED
    BY <1>1, <2>3, PerformedInScope
<1> QED
  BY <1>2, <1>3

\* One request at a time, who has a scope writes only in it and leaves the structure to
\* the central unit, through moves of the units themselves (WritesStayInScope).
THEOREM NobodyLeavesTheirScope == Spec /\ []OneAtATime => WritesStayInScope
<1>1. Sound /\ [Next]_vars => [StayInScope]_vars
  BY ScopeKept
<1>2. Spec /\ []OneAtATime => [][StayInScope]_vars
  BY <1>1, SoundStarts, SoundStays, PTL DEF Spec
<1> QED
  BY <1>2 DEF WritesStayInScope

-----------------------------------------------------------------------------
(* The readings account for everything.                                    *)

\* A term one more, and the sum is.
LEMMA OneMore ==
    ASSUME NEW K, IsFiniteSet(K), NEW e, NEW f, \A k \in K : e[k] \in Int /\ f[k] \in Int,
           NEW y \in K, \A k \in K \ {y} : e[k] = f[k]
    PROVE  f[y] = e[y] + 1 => SumFunctionOnSet(f, K) = SumFunctionOnSet(e, K) + 1
<1>1. SumFunctionOnSet(f, K) = SumFunctionOnSet(e, K) + f[y] - e[y]
  BY SumChanges
<1>2. SumFunctionOnSet(e, K) \in Int
  BY SumType
<1> QED
  BY <1>1, <1>2

\* Counting a set by keys counts it once.
LEMMA CountByKeys ==
    ASSUME NEW S, IsFiniteSet(S), NEW key, NEW K, K = {key[x] : x \in S}
    PROVE  SumFunctionOnSet([k \in K |-> Cardinality({x \in S : key[x] = k})], K) = Cardinality(S)
<1> DEFINE Of(T, k) == {x \in T : key[x] = k}
           Count(T) == [k \in K |-> Cardinality(Of(T, k))]
           Good == {T \in SUBSET S : SumFunctionOnSet(Count(T), K) = Cardinality(T)}
<1>1. IsFiniteSet(K)
  <2> DEFINE h == [x \in S |-> key[x]]
  <2>1. h \in Surjection(S, K)
    BY DEF Surjection
  <2> HIDE DEF h
  <2> QED
    BY <2>1, FS_Surjection
<1>2. ASSUME NEW T \in SUBSET S, NEW k \in K
      PROVE  IsFiniteSet(Of(T, k)) /\ Count(T)[k] = Cardinality(Of(T, k)) /\ Count(T)[k] \in Nat
  <2>1. IsFiniteSet(Of(T, k))
    BY FS_Subset
  <2> QED
    BY <2>1, FS_CardinalityType
<1>3. ASSUME NEW T \in SUBSET S, \A U \in SUBSET T : U # T => U \in Good PROVE T \in Good
  <2>1. CASE T = {}
    <3>1. \A k \in K : Of(T, k) = {}
      BY <2>1
    <3>2. PICK c : c = Count(T)
      OBVIOUS
    <3>3. \A k \in K : c[k] = 0
      BY <1>2, <3>1, <3>2, FS_EmptySet
    <3>4. \A k \in K : c[k] \in Int /\ c[k] = 0 * c[k]
      BY <3>3
    <3>5. SumFunctionOnSet(c, K) \in Int
      BY <1>1, <3>4, SumType
    <3>6. SumFunctionOnSet(c, K) = 0 * SumFunctionOnSet(c, K)
      BY <1>1, <3>4, SumOfScaled
    <3>7. SumFunctionOnSet(c, K) = 0
      BY <3>5, <3>6
    <3> QED
      BY <2>1, <3>2, <3>7, FS_EmptySet
  <2>2. CASE T # {}
    <3>1. PICK y \in T : TRUE
      BY <2>2
    <3>2. PICK U : U = T \ {y}
      OBVIOUS
    <3>3. U \in SUBSET S /\ U \in SUBSET T /\ U # T /\ key[y] \in K /\ IsFiniteSet(T)
      BY <3>1, <3>2, FS_Subset
    <3>4. SumFunctionOnSet(Count(U), K) = Cardinality(U)
      BY <1>3, <3>3
    <3>5. Cardinality(U) = Cardinality(T) - 1 /\ Cardinality(T) \in Nat
      BY <3>1, <3>2, <3>3, FS_RemoveElement, FS_CardinalityType
    <3>6. Of(T, key[y]) = Of(U, key[y]) \cup {y} /\ y \notin Of(U, key[y])
      BY <3>1, <3>2
    <3>7. Count(T)[key[y]] = Count(U)[key[y]] + 1
      <4>1. IsFiniteSet(Of(U, key[y]))
        BY <1>2, <3>3
      <4>2. Cardinality(Of(T, key[y])) = Cardinality(Of(U, key[y])) + 1
        <5> HIDE DEF Of
        <5> QED
          BY <3>6, <4>1, FS_AddElement
      <4> QED
        BY <1>2, <3>3, <4>2
    <3>8. \A k \in K : Count(U)[k] \in Int /\ Count(T)[k] \in Int
      <4> HIDE DEF Count, Of
      <4> QED
        BY <1>2, <3>3
    <3>9. ASSUME NEW k \in K \ {key[y]} PROVE Count(U)[k] = Count(T)[k]
      <4>1. Of(T, k) = Of(U, k)
        BY <3>1, <3>2
      <4> QED
        BY <4>1
    <3>10. PICK e, f : e = Count(U) /\ f = Count(T)
      OBVIOUS
    <3> HIDE DEF Count, Good, Of
    <3>13. \A k \in K : e[k] \in Int /\ f[k] \in Int
      BY <3>8, <3>10
    <3>14. \A k \in K \ {key[y]} : e[k] = f[k]
      BY <3>9, <3>10
    <3>15. PICK k \in K : k = key[y]
      BY <3>3
    <3>16. SumFunctionOnSet(f, K) = SumFunctionOnSet(e, K) + 1
      BY <1>1, <3>7, <3>10, <3>13, <3>14, <3>15, OneMore
    <3>12. SumFunctionOnSet(f, K) = Cardinality(T)
      BY <3>4, <3>5, <3>10, <3>16
    <3> QED
      BY <3>10, <3>12 DEF Good
  <2> QED
    BY <2>1, <2>2
<1>4. S \in Good
  <2>1. Good \in SUBSET SUBSET S /\ S \in SUBSET S
    OBVIOUS
  <2> HIDE DEF Good
  <2> QED
    BY <1>3, <2>1, SetInduction
<1> QED
  BY <1>4

\* The units below a unit, after each step (UnitSubtreeIds' own recursion).
Belows(f, parent, u) == f = [n \in Nat |->
    IF n = 0 THEN {u} ELSE f[n - 1] \cup {v \in DOMAIN parent : parent[v] \in f[n - 1]}]
Below(parent, u) == CHOOSE f : Belows(f, parent, u)

\* Each step adds the children.
LEMMA BelowSteps ==
    ASSUME NEW parent, NEW u
    PROVE  /\ Below(parent, u)[0] = {u}
           /\ \A n \in Nat : Below(parent, u)[n + 1] =
                Below(parent, u)[n] \cup {v \in DOMAIN parent : parent[v] \in Below(parent, u)[n]}
<1> DEFINE W == {u} \cup DOMAIN parent
           Next1(X) == X \cup {v \in DOMAIN parent : parent[v] \in X}
           step == [X \in SUBSET W |-> Next1(X)]
<1>1. step \in [SUBSET W -> SUBSET W] /\ {u} \in SUBSET W
  OBVIOUS
<1>2. \A X \in SUBSET W : step[X] = Next1(X)
  OBVIOUS
<1> HIDE DEF W, step
<1>3. PICK g \in [Nat -> SUBSET W] : Iterates(g, {u}, step)
  BY <1>1, Iteration
<1>4. \A n \in Nat : n # 0 => step[g[n - 1]] = Next1(g[n - 1])
  BY <1>2, <1>3
<1>5. g = [n \in Nat |-> IF n = 0 THEN {u} ELSE Next1(g[n - 1])]
  BY <1>3, <1>4 DEF Iterates
<1>6. Belows(g, parent, u)
  BY <1>5 DEF Belows
<1> DEFINE f == Below(parent, u)
<1>7. Belows(f, parent, u)
  BY <1>6 DEF Below
<1> HIDE DEF f
<1>8. \A n \in Nat : f[n] = IF n = 0 THEN {u} ELSE Next1(f[n - 1])
  BY <1>7 DEF Belows
<1>9. f[0] = {u}
  BY <1>8
<1>10. ASSUME NEW n \in Nat PROVE f[n + 1] = Next1(f[n])
  <2>1. n + 1 \in Nat /\ n + 1 # 0 /\ (n + 1) - 1 = n
    OBVIOUS
  <2> HIDE DEF Next1
  <2> QED
    BY <1>8, <2>1
<1> QED
  BY <1>9, <1>10 DEF f

\* The children of some units, and what is reached by them.
Under(parent, X) == UNION {ChildrenOf(parent, w) : w \in X}

LEMMA ReachGrows ==
    ASSUME NEW parent, NEW roots, NEW r, r = Reach(parent, roots)
    PROVE  /\ r[0] = roots
           /\ \A n \in Nat : r[n + 1] = r[n] \cup Under(parent, r[n])
<1>1. ASSUME NEW n \in Nat PROVE r[n + 1] = r[n] \cup UNION {ChildrenOf(parent, u) : u \in r[n]}
  BY ReachSteps
<1> QED
  BY <1>1, ReachSteps DEF Under

\* In a tree both recursions reach the same, and that is who climbs to u.
LEMMA SubtreeIds ==
    ASSUME NEW P, NEW L, Levelled(P, L), IsFiniteSet(DOMAIN P), NEW u \in DOMAIN P
    PROVE  UnitSubtreeIds(P, u) = {v \in DOMAIN P : u \in Climb(P, v)}
<1> DEFINE N == Cardinality(DOMAIN P)
           b == Below(P, u)
           r == Reach(P, {u})
           Good == {n \in Nat : b[n] = r[n] /\ b[n] \subseteq DOMAIN P}
<1>0. N \in Nat
  BY FS_CardinalityType
<1>a. b[0] = {u} /\ \A n \in Nat : b[n + 1] = b[n] \cup {v \in DOMAIN P : P[v] \in b[n]}
  BY BelowSteps
<1>b. r[0] = {u} /\ \A n \in Nat : r[n + 1] = r[n] \cup Under(P, r[n])
  BY ReachGrows
<1>5. UnitSubtreeIds(P, u) = b[N]
  BY DEF UnitSubtreeIds, Below, Belows
<1>6. ReachedFrom(P, {u}) = r[N]
  BY DEF ReachedFrom, Reach, Reaches
<1> HIDE DEF b, r
<1>1. 0 \in Good
  BY <1>a, <1>b
<1>2. ASSUME NEW n \in Nat, n \in Good PROVE n + 1 \in Good
  <2>1. PICK X : X = b[n]
    OBVIOUS
  <2>2. X = r[n] /\ X \subseteq DOMAIN P
    BY <1>2, <2>1
  <2>3. {v \in DOMAIN P : P[v] \in X} = Under(P, X)
    <3>1. \A v \in DOMAIN P : P[v] \in X => v \notin Roots(P)
      BY <2>2 DEF Roots, Levelled
    <3> QED
      BY <3>1 DEF ChildrenOf, Under
  <2>4. b[n + 1] = X \cup {v \in DOMAIN P : P[v] \in X}
    BY <1>a, <2>1
  <2>5. r[n + 1] = X \cup Under(P, X)
    BY <1>b, <2>2
  <2>6. b[n + 1] = r[n + 1] /\ b[n + 1] \subseteq DOMAIN P /\ n + 1 \in Nat
    BY <2>2, <2>3, <2>4, <2>5
  <2> QED
    BY <2>6
<1> HIDE DEF Good
<1>3. \A n \in Nat : n \in Good
  BY <1>1, <1>2, Induction
<1>4. b[N] = r[N]
  BY <1>0, <1>3 DEF Good
<1>7. ReachedFrom(P, {u}) = {v \in DOMAIN P : Climb(P, v) \cap {u} # {}}
  BY SubtreeReached
<1> QED
  BY <1>4, <1>5, <1>6, <1>7

\* The subtree of a unit, taken alone, shows all of it, and only it, from u.
LEMMA SubtreeAlone ==
    ASSUME NEW P, NEW L, Levelled(P, L), IsFiniteSet(DOMAIN P), NEW u \in DOMAIN P,
           NEW S, S = {v \in DOMAIN P : u \in Climb(P, v)}, NEW Q, Q = [v \in S |-> P[v]]
    PROVE  ShownUnits(Q) = S /\ ReachedFrom(Q, {u}) = S /\ u \in S
<1> DEFINE Z == [v \in S |-> IF v = u THEN NoUnit ELSE P[v]]
           M == [v \in S |-> IF v = u THEN 1 ELSE L[v] - L[u] + 1]
<1>1. u \in S
  BY ClimbStarts
<1>2. ASSUME NEW v \in S, v # u PROVE P[v] \in S /\ L[v] = L[P[v]] + 1 /\ L[P[v]] >= L[u]
  <2>1. P[v] # NoUnit
    BY <1>2, ClimbGoesUp
  <2>2. P[v] \in DOMAIN P /\ L[v] = L[P[v]] + 1
    BY <2>1 DEF Levelled
  <2>3. u \in Climb(P, P[v])
    BY <1>2, <2>2, ClimbGoesUp
  <2>4. L[P[v]] >= L[u]
    BY <2>2, <2>3, ClimbByLevels DEF Levelled
  <2> QED
    BY <2>2, <2>3, <2>4
<1>3. P[u] \notin S
  <2> SUFFICES ASSUME P[u] \in S PROVE FALSE
    OBVIOUS
  <2>1. P[u] # u /\ P[u] \in DOMAIN P /\ L[u] = L[P[u]] + 1 /\ L[P[u]] \in Nat
    BY DEF Levelled
  <2>2. u \in Climb(P, P[u])
    OBVIOUS
  <2>3. L[u] < L[P[u]]
    BY <2>1, <2>2, ClimbByLevels
  <2> QED
    BY <2>1, <2>3
<1>4. DOMAIN Z = S /\ DOMAIN Q = S /\ Z[u] = NoUnit /\ Q[u] = P[u] /\ IsFiniteSet(S)
  BY <1>1, FS_Subset
<1>5. \A v \in S : v # u => Z[v] = P[v] /\ Q[v] = P[v]
  OBVIOUS
<1>6. Levelled(Z, M)
  <2>1. NoUnit \notin S /\ M[u] = 1 /\ L[u] \in Nat
    BY <1>1 DEF Levelled
  <2>2. \A v \in S : v # u => M[v] = L[v] - L[u] + 1 /\ L[v] \in Nat
    BY DEF Levelled
  <2>3. \A v \in S : M[v] \in Nat \ {0}
    BY <1>2, <2>1, <2>2
  <2>4. ASSUME NEW v \in S, v # u PROVE M[v] = M[P[v]] + 1
    <3>1. L[v] = L[P[v]] + 1 /\ P[v] \in S
      BY <1>2, <2>4
    <3>2. CASE P[v] = u
      BY <2>1, <2>2, <2>4, <3>1, <3>2
    <3>3. CASE P[v] # u
      BY <2>1, <2>2, <2>4, <3>1, <3>3
    <3> QED
      BY <3>2, <3>3
  <2> HIDE DEF M, Z
  <2> QED
    BY <1>1, <1>2, <1>4, <1>5, <2>1, <2>3, <2>4 DEF Levelled
<1> HIDE DEF Z, M
<1>7. Roots(Q) = {u} /\ Roots(Z) = {u}
  <2>1. u \in Roots(Q)
    BY <1>1, <1>3, <1>4 DEF Roots
  <2>2. \A v \in S : v # u => v \notin Roots(Q)
    BY <1>2, <1>4, <1>5 DEF Roots, Levelled
  <2>3. Roots(Z) = {v \in S : Z[v] = NoUnit}
    BY <1>4, <1>6, RootsAreParentless
  <2>4. \A v \in S : v # u => Z[v] # NoUnit
    BY <1>2, <1>4, <1>5, <1>6 DEF Levelled
  <2> QED
    BY <1>1, <1>4, <2>1, <2>2, <2>3, <2>4 DEF Roots
<1>8. \A w : ChildrenOf(Q, w) = ChildrenOf(Z, w)
  BY <1>4, <1>5, <1>7 DEF ChildrenOf
<1> DEFINE q == Reach(Q, {u})
           z == Reach(Z, {u})
           Good == {n \in Nat : q[n] = z[n]}
<1>12. ReachedFrom(Q, {u}) = q[Cardinality(S)]
  BY <1>4 DEF ReachedFrom, Reach, Reaches
<1>13. ReachedFrom(Z, {u}) = z[Cardinality(S)]
  BY <1>4 DEF ReachedFrom, Reach, Reaches
<1>a. q[0] = {u} /\ \A n \in Nat : q[n + 1] = q[n] \cup Under(Q, q[n])
  BY ReachGrows
<1>b. z[0] = {u} /\ \A n \in Nat : z[n + 1] = z[n] \cup Under(Z, z[n])
  BY ReachGrows
<1> HIDE DEF q, z
<1>9. 0 \in Good
  BY <1>a, <1>b
<1>10. ASSUME NEW n \in Nat, n \in Good PROVE n + 1 \in Good
  <2>1. PICK X : X = q[n]
    OBVIOUS
  <2>2. Under(Q, X) = Under(Z, X)
    BY <1>8 DEF Under
  <2>3. q[n + 1] = X \cup Under(Q, X)
    BY <1>a, <2>1
  <2>4. z[n + 1] = X \cup Under(Z, X)
    BY <1>10, <1>b, <2>1
  <2>5. q[n + 1] = z[n + 1] /\ n + 1 \in Nat
    BY <2>2, <2>3, <2>4
  <2> QED
    BY <2>5
<1> HIDE DEF Good
<1>11. \A n \in Nat : n \in Good
  BY <1>9, <1>10, Induction
<1>14. ReachedFrom(Q, {u}) = ReachedFrom(Z, {u})
  <2>1. Cardinality(S) \in Nat
    BY <1>4, FS_CardinalityType
  <2> QED
    BY <1>11, <1>12, <1>13, <2>1 DEF Good
<1>15. ShownUnits(Z) = S
  BY <1>4, <1>6, EverythingIsShown
<1> QED
  BY <1>1, <1>7, <1>14, <1>15 DEF ShownUnits
\* What is kept of some readings: those of some units, then those of fewer.
LEMMA InFewerUnits ==
    ASSUME NEW R, NEW S, NEW T \in SUBSET S PROVE InUnits(InUnits(R, S), T) = InUnits(R, T)
<1>1. DOMAIN InUnits(R, S) = {x \in DOMAIN R : R[x].unit \in S}
      /\ \A x \in DOMAIN InUnits(R, S) : InUnits(R, S)[x] = R[x]
  BY DEF InUnits
<1> DEFINE Q == InUnits(R, S)
<1> HIDE DEF Q
<1>2. {x \in DOMAIN Q : Q[x].unit \in T} = {x \in DOMAIN R : R[x].unit \in T}
  BY <1>1 DEF Q
<1>3. InUnits(Q, T) = [o \in {x \in DOMAIN R : R[x].unit \in T} |-> Q[o]]
  BY <1>2 DEF InUnits
<1>4. \A o \in {x \in DOMAIN R : R[x].unit \in T} : Q[o] = R[o]
  BY <1>1 DEF Q
<1>5. InUnits(Q, T) = InUnits(R, T)
  BY <1>3, <1>4 DEF InUnits
<1> QED
  BY <1>5 DEF Q

\* By keys, the counts of the readings add up.
LEMMA CountsAddUp ==
    ASSUME NEW R, IsFiniteSet(DOMAIN R), NEW key, NEW by, by = AggregateObjectiveReadingsBy(R, key)
    PROVE  SumFunction([k \in DOMAIN by |-> by[k].objectives]) = Cardinality(DOMAIN R)
<1> DEFINE K == {key[x] : x \in DOMAIN R}
           f == [k \in K |-> Cardinality({x \in DOMAIN R : key[x] = k})]
<1>1. DOMAIN by = K
  BY DEF AggregateObjectiveReadingsBy
<1>2. ASSUME NEW k \in K PROVE by[k].objectives = Cardinality({x \in DOMAIN R : key[x] = k})
  <2> DEFINE Rk == [o \in {x \in DOMAIN R : key[x] = k} |-> R[o]]
  <2>1. by[k] = AggregateObjectiveReadings(Rk)
    BY <1>2 DEF AggregateObjectiveReadingsBy
  <2>2. DOMAIN Rk = {x \in DOMAIN R : key[x] = k}
    OBVIOUS
  <2> HIDE DEF Rk
  <2>3. by[k].objectives = Cardinality(DOMAIN Rk)
    BY <2>1 DEF AggregateObjectiveReadings
  <2> QED
    BY <2>2, <2>3
<1>3. [k \in DOMAIN by |-> by[k].objectives] = f
  BY <1>1, <1>2
<1>4. DOMAIN f = K
  OBVIOUS
<1>5. SumFunctionOnSet(f, K) = Cardinality(DOMAIN R)
  BY CountByKeys
<1> HIDE DEF f
<1> QED
  BY <1>3, <1>4, <1>5 DEF SumFunction

\* What is read of some objectives.
LEMMA ReadingsAre ==
    ASSUME NEW X
    PROVE  /\ DOMAIN Readings(X) = X
           /\ \A o \in X : Readings(X)[o].unit = objective[o].unit
           /\ \A Y \in SUBSET X : Readings(Y) = [o \in Y |-> Readings(X)[o]]
  BY DEF Readings

\* The readings of a unit are, of all the readings, those of its subtree.
LEMMA SelectedReadings ==
    ASSUME Sound, NEW p, NEW u \in DOMAIN Parents
    PROVE  /\ Selected(p, Axes \cup {NoAxis}, u) =
                {o \in PlannedIn(p) : objective[o].unit \in UnitSubtreeIds(Parents, u)}
           /\ Readings(Selected(p, Axes \cup {NoAxis}, u)) =
                InUnits(Readings(PlannedIn(p)), UnitSubtreeIds(Parents, u))
<1> DEFINE S == UnitSubtreeIds(Parents, u)
           X == PlannedIn(p)
           Y == {o \in X : objective[o].unit \in S}
           R == Readings(X)
<1>1. \A o \in X : ShownAxis(o) \in Axes \cup {NoAxis}
  BY DEF Sound, Planning, Tables, Rows, ObjectiveRow, PlannedIn, LiveOf, ShownAxis
<1>2. Selected(p, Axes \cup {NoAxis}, u) = Y
  BY <1>1 DEF Selected
<1>3. DOMAIN R = X /\ \A o \in X : R[o].unit = objective[o].unit
  BY ReadingsAre
<1>4. Readings(Y) = [o \in Y |-> R[o]]
  BY ReadingsAre
<1> HIDE DEF R, S, X
<1>5. {x \in DOMAIN R : R[x].unit \in S} = Y
  BY <1>3
<1>6. InUnits(R, S) = [o \in Y |-> R[o]]
  BY <1>5 DEF InUnits
<1> QED
  BY <1>2, <1>4, <1>6 DEF R, S, X

\* What the tree shows of a unit is the same, filtered by it or not.
SameOfUnit(tree, filtered, u) ==
    filtered.plan = tree.units[u].aggregate /\ filtered.units[u] = tree.units[u]

LEMMA FilteredByUnit ==
    ASSUME Sound, NEW p, NEW top, Roots(Parents) = {top}, NEW u \in DOMAIN Parents,
           NEW tree, tree = PlanningTree(p, Axes \cup {NoAxis}, top),
           NEW filtered, filtered = PlanningTree(p, Axes \cup {NoAxis}, u)
    PROVE  SameOfUnit(tree, filtered, u)
<1> DEFINE P == Parents
           D == DOMAIN Parents
           S == UnitSubtreeIds(P, u)
           R == Readings(PlannedIn(p))
           F == InUnits(R, S)
           Q == [v \in S |-> P[v]]
<1>0. PICK L : Levelled(P, L)
  BY DEF Sound, Tree, Shallow
<1>1. IsFiniteSet(D) /\ top \in D /\ P = [v \in D |-> P[v]]
  BY LiveRows, FS_Subset DEF Sound, Tree, Planning, Roots, Parents
<1>2. S = {v \in D : u \in Climb(P, v)} /\ u \in S
  BY <1>0, <1>1, SubtreeIds, ClimbStarts
<1>3. ShownUnits(P) = D /\ ReachedFrom(P, {top}) = D
  BY <1>0, <1>1, EverythingIsShown DEF ShownUnits
<1>4. ReachedFrom(P, {u}) = S
  <2>1. ReachedFrom(P, {u}) = {v \in D : Climb(P, v) \cap {u} # {}}
    BY <1>0, <1>1, SubtreeReached
  <2> QED
    BY <1>2, <2>1
<1>5. UnitSubtreeIds(P, top) = D
  <2>1. UnitSubtreeIds(P, top) = {v \in D : top \in Climb(P, v)}
    BY <1>0, <1>1, SubtreeIds
  <2>2. ReachedFrom(P, {top}) = {v \in D : Climb(P, v) \cap {top} # {}}
    BY <1>0, <1>1, SubtreeReached
  <2> QED
    BY <1>3, <2>1, <2>2
<1>6. ShownUnits(Q) = S /\ ReachedFrom(Q, {u}) = S
  BY <1>0, <1>1, <1>2, SubtreeAlone
<1>7. Readings(Selected(p, Axes \cup {NoAxis}, u)) = F
  BY SelectedReadings
<1>8. Readings(Selected(p, Axes \cup {NoAxis}, top)) = InUnits(R, D)
  BY <1>1, <1>5, SelectedReadings
<1> DEFINE Show(A, X) == [objectives |-> DOMAIN InUnits(X, {u}),
                          direct |-> AggregateObjectiveReadings(InUnits(X, {u})),
                          aggregate |-> AggregateObjectiveReadings(InUnits(X, A))]
<1>9. tree.units = BuildUnitAggregates(P, InUnits(R, D))
  BY <1>1, <1>5, <1>8 DEF PlanningTree
<1>10. filtered.units = BuildUnitAggregates(Q, F) /\ filtered.plan = AggregateObjectiveReadings(F)
  BY <1>7 DEF PlanningTree
<1> HIDE DEF P, D, S, R, F, Q
<1>11. tree.units[u] = Show(S, InUnits(R, D))
  BY <1>2, <1>3, <1>4, <1>9 DEF BuildUnitAggregates
<1>12. filtered.units[u] = Show(S, F)
  BY <1>2, <1>6, <1>10 DEF BuildUnitAggregates
<1>13. InUnits(InUnits(R, D), {u}) = InUnits(R, {u}) /\ InUnits(InUnits(R, D), S) = InUnits(R, S)
  BY <1>2, InFewerUnits
<1>14. InUnits(F, {u}) = InUnits(R, {u}) /\ InUnits(F, S) = InUnits(R, S)
  BY <1>2, InFewerUnits DEF F
<1>15. Show(S, InUnits(R, D)) = Show(S, F)
  BY <1>13, <1>14
<1>16. filtered.plan = Show(S, InUnits(R, D)).aggregate
  BY <1>10, <1>13 DEF F
<1> HIDE DEF Show
<1> QED
  BY <1>11, <1>12, <1>15, <1>16 DEF SameOfUnit

\* The whole tree counts every objective of the period once.
CountsOnce(tree, p, top) ==
    /\ tree.plan.objectives = Cardinality(PlannedIn(p))
    /\ tree.units[top].aggregate = tree.plan
    /\ UNION {tree.units[u].objectives : u \in DOMAIN tree.units} = PlannedIn(p)
    /\ SumFunction([a \in DOMAIN tree.axes |-> tree.axes[a].objectives]) = tree.plan.objectives

LEMMA WholeTree ==
    ASSUME Sound, NEW p, NEW top, Roots(Parents) = {top},
           NEW tree, tree = PlanningTree(p, Axes \cup {NoAxis}, top)
    PROVE  Selected(p, Axes \cup {NoAxis}, top) = PlannedIn(p) /\ CountsOnce(tree, p, top)
<1> DEFINE X == PlannedIn(p)
           R == Readings(X)
           D == DOMAIN Parents
<1>0. PICK L : Levelled(Parents, L)
  BY DEF Sound, Tree, Shallow
<1>1. IsFiniteSet(D) /\ top \in D /\ Parents = [v \in D |-> Parents[v]]
  BY LiveRows, FS_Subset DEF Sound, Tree, Planning, Roots, Parents
<1>2. ShownUnits(Parents) = D /\ ReachedFrom(Parents, {top}) = D
  BY <1>0, <1>1, EverythingIsShown DEF ShownUnits
<1>3. UnitSubtreeIds(Parents, top) = D
  <2>1. UnitSubtreeIds(Parents, top) = {v \in D : top \in Climb(Parents, v)}
    BY <1>0, <1>1, SubtreeIds
  <2>2. ReachedFrom(Parents, {top}) = {v \in D : Climb(Parents, v) \cap {top} # {}}
    BY <1>0, <1>1, SubtreeReached
  <2> QED
    BY <1>2, <2>1, <2>2
<1>4. \A o \in X : objective[o].unit \in D
  BY LiveRows DEF Sound, Planning, ObjectivesArePlaced, PlannedIn
<1>5. Selected(p, Axes \cup {NoAxis}, top) = X
  <2>1. Selected(p, Axes \cup {NoAxis}, top) = {o \in X : objective[o].unit \in UnitSubtreeIds(Parents, top)}
    BY <1>1, SelectedReadings
  <2> HIDE DEF X, D
  <2> QED
    BY <1>3, <1>4, <2>1
<1>6. IsFiniteSet(X)
  BY FS_Subset DEF Sound, PlannedIn, LiveOf
<1>7. DOMAIN R = X /\ (\A o \in X : R[o].unit = objective[o].unit) /\ R = [o \in X |-> R[o]]
  BY ReadingsAre
<1>8. /\ tree.plan = AggregateObjectiveReadings(R)
      /\ tree.axes = AggregateObjectiveReadingsBy(R, [o \in DOMAIN R |-> ShownAxis(o)])
      /\ tree.units = BuildUnitAggregates(Parents, R)
  BY <1>1, <1>3, <1>5 DEF PlanningTree
<1> HIDE DEF R, X, D
<1>9. tree.plan.objectives = Cardinality(X)
  BY <1>7, <1>8 DEF AggregateObjectiveReadings
<1>10. SumFunction([a \in DOMAIN tree.axes |-> tree.axes[a].objectives]) = Cardinality(X)
  <2>1. PICK key, by : key = [o \in DOMAIN R |-> ShownAxis(o)] /\ by = tree.axes
    OBVIOUS
  <2>2. by = AggregateObjectiveReadingsBy(R, key) /\ IsFiniteSet(DOMAIN R)
    BY <1>6, <1>7, <1>8, <2>1
  <2>3. SumFunction([a \in DOMAIN by |-> by[a].objectives]) = Cardinality(DOMAIN R)
    BY <2>2, CountsAddUp
  <2> QED
    BY <1>7, <2>1, <2>3
<1>11. InUnits(R, D) = R
  <2>1. {x \in DOMAIN R : R[x].unit \in D} = X
    BY <1>4, <1>7
  <2> QED
    BY <1>7, <2>1 DEF InUnits
<1>12. DOMAIN tree.units = D /\ tree.units[top].aggregate = AggregateObjectiveReadings(R)
  BY <1>1, <1>2, <1>8, <1>11 DEF BuildUnitAggregates
<1>13. ASSUME NEW u \in D PROVE tree.units[u].objectives = {o \in X : objective[o].unit = u}
  <2>1. tree.units[u].objectives = DOMAIN InUnits(R, {u})
    <3>1. tree.units[u] = [objectives |-> DOMAIN InUnits(R, {u}),
                           direct |-> AggregateObjectiveReadings(InUnits(R, {u})),
                           aggregate |-> AggregateObjectiveReadings(InUnits(R, ReachedFrom(Parents, {u})))]
      BY <1>2, <1>8 DEF BuildUnitAggregates
    <3> QED
      BY <3>1
  <2> QED
    BY <1>7, <2>1 DEF InUnits
<1>14. UNION {tree.units[u].objectives : u \in DOMAIN tree.units} = X
  <2> DEFINE Of(u) == tree.units[u].objectives
  <2>1. \A u \in D : Of(u) = {o \in X : objective[o].unit = u}
    BY <1>13
  <2>2. \A o \in X : o \in Of(objective[o].unit)
    BY <1>4, <2>1
  <2> HIDE DEF Of
  <2>3. UNION {Of(u) : u \in D} = X
    BY <1>4, <2>1, <2>2
  <2> QED
    BY <1>12, <2>3 DEF Of
<1> QED
  BY <1>5, <1>8, <1>9, <1>10, <1>12, <1>14 DEF X, CountsOnce

\* The bars of the Gantt hold every project of the period.
LEMMA WholeGantt ==
    ASSUME Sound, NEW p, NEW axes, NEW u, Selected(p, axes, u) = PlannedIn(p),
           NEW gantt, gantt = PlanningGantt(p, axes, u)
    PROVE  UNION {gantt[o].projects : o \in DOMAIN gantt} =
             {x \in LiveOf(project) : objective[project[x].objective].period = p}
<1>1. DOMAIN gantt = PlannedIn(p)
  BY DEF PlanningGantt
<1>2. ASSUME NEW o \in PlannedIn(p) PROVE gantt[o].projects = {x \in LiveOf(project) : project[x].objective = o}
  BY DEF PlanningGantt
<1>3. \A x \in LiveOf(project) : project[x].objective \in LiveOf(objective)
  BY DEF Sound, Planning, ProjectsHaveTheirObjective
<1> QED
  BY <1>1, <1>2, <1>3 DEF PlannedIn

\* It all follows.
LEMMA SoundAccounts == Sound => TreeAccountsForEverything
<1> SUFFICES ASSUME Sound PROVE TreeAccountsForEverything
  OBVIOUS
<1>0. PICK L : Levelled(Parents, L)
  BY DEF Sound, Tree, Shallow
<1>1. PICK top : Roots(Parents) = {top}
  <2>1. PICK top \in DOMAIN Parents : \A u \in DOMAIN Parents : Parents[u] = NoUnit <=> u = top
    BY DEF Sound, Tree, OneRoot
  <2>2. Roots(Parents) = {top}
    BY <1>0, <2>1, RootsAreParentless
  <2> QED
    BY <2>2
<1> SUFFICES ASSUME NEW p \in LiveOf(period)
             PROVE  LET all == Axes \cup {NoAxis}
                        root == CHOOSE u \in Roots(Parents) : TRUE
                        tree == PlanningTree(p, all, root)
                        gantt == PlanningGantt(p, all, root)
                    IN  /\ tree.plan.objectives = Cardinality(PlannedIn(p))
                        /\ tree.units[root].aggregate = tree.plan
                        /\ UNION {tree.units[u].objectives : u \in DOMAIN tree.units} = PlannedIn(p)
                        /\ SumFunction([a \in DOMAIN tree.axes |-> tree.axes[a].objectives]) = tree.plan.objectives
                        /\ \A u \in DOMAIN Parents \ {root} :
                             LET filtered == PlanningTree(p, all, u)
                             IN  /\ filtered.plan = tree.units[u].aggregate
                                 /\ filtered.units[u] = tree.units[u]
                        /\ UNION {gantt[o].projects : o \in DOMAIN gantt} =
                             {x \in LiveOf(project) : objective[project[x].objective].period = p}
  BY DEF TreeAccountsForEverything
<1> DEFINE all == Axes \cup {NoAxis}
           root == CHOOSE u \in Roots(Parents) : TRUE
           tree == PlanningTree(p, all, root)
           gantt == PlanningGantt(p, all, root)
<1>2. root = top
  BY <1>1
<1> HIDE DEF root
<1>3. Selected(p, all, root) = PlannedIn(p) /\ CountsOnce(tree, p, root)
  BY <1>1, <1>2, WholeTree
<1>4. ASSUME NEW u \in DOMAIN Parents \ {root} PROVE SameOfUnit(tree, PlanningTree(p, all, u), u)
  BY <1>1, <1>2, FilteredByUnit
<1>5. UNION {gantt[o].projects : o \in DOMAIN gantt} =
        {x \in LiveOf(project) : objective[project[x].objective].period = p}
  BY <1>3, WholeGantt
<1> HIDE DEF tree, gantt, all
<1> QED
  BY <1>3, <1>4, <1>5 DEF root, tree, gantt, all, CountsOnce, SameOfUnit

\* One request at a time, the planning tree and the Gantt account for every live
\* objective and project of a period once, by units and by axes, and show of a unit the
\* same filtered by it or not (TreeAccountsForEverything).
THEOREM ReadingsMissNothing == Spec /\ []OneAtATime => []TreeAccountsForEverything
  BY SoundStarts, SoundStays, SoundAccounts, PTL DEF Spec

-----------------------------------------------------------------------------
(* What the unique index keeps, however many requests there are at once.    *)

\* A row of the table of periods, whatever its values.
IsPeriodRow(row) ==
    /\ DOMAIN row = {"organization", "status", "startsAt", "endsAt", "live"}
    /\ row = [field \in DOMAIN row |-> row[field]]
\* The open periods, and that they are rows.
Indexed == OneOpen /\ \A p \in DOMAIN period : IsPeriodRow(period[p])

\* A row that is not open, or alone is, leaves one open period at most.
LEMMA RowKeepsIndex ==
    ASSUME Indexed, NEW id, NEW row, IsPeriodRow(row), DOMAIN period' \subseteq DOMAIN period \cup {id},
           \A p \in DOMAIN period' \ {id} : period'[p] = period[p],
           id \in DOMAIN period' => period'[id] = row,
           (row.live /\ row.status = "open") => NoOtherOpen(row.organization, id)
    PROVE  Indexed'
<1>1. ASSUME NEW p \in DOMAIN period' PROVE IsPeriodRow(period'[p])
  BY DEF Indexed
<1>2. ASSUME NEW p \in LiveOf(period)', NEW q \in LiveOf(period)', period'[p].status = "open",
             period'[q].status = "open", period'[p].organization = period'[q].organization
      PROVE  p = q
  <2>1. \A r \in LiveOf(period)' : r # id => r \in LiveOf(period) /\ period'[r] = period[r]
    BY DEF LiveOf
  <2>2. ASSUME id \in LiveOf(period)', period'[id].status = "open", NEW r \in LiveOf(period)', r # id,
               period'[r].status = "open", period'[r].organization = period'[id].organization
        PROVE  FALSE
    <3>1. row.live /\ row.status = "open" /\ row.organization = period[r].organization
      BY <2>1, <2>2 DEF LiveOf
    <3>2. r \in OpenIn(row.organization)
      BY <2>1, <2>2, <3>1 DEF OpenIn
    <3> QED
      BY <2>2, <3>1, <3>2 DEF NoOtherOpen
  <2>3. CASE p # id /\ q # id
    BY <1>2, <2>1, <2>3 DEF Indexed, OneOpen
  <2> QED
    BY <1>2, <2>2, <2>3
<1> QED
  BY <1>1, <1>2 DEF Indexed, OneOpen

\* Rows that die leave no more open.
LEMMA DeathsKeepIndex ==
    ASSUME Indexed, NEW ids, period' = Without(period, ids) PROVE Indexed'
<1>1. ASSUME NEW p \in DOMAIN period
      PROVE  /\ IsPeriodRow(period'[p]) /\ period'[p].organization = period[p].organization
             /\ period'[p].status = period[p].status /\ (p \in ids => ~period'[p].live)
             /\ (p \notin ids => period'[p] = period[p])
  BY DEF Indexed, IsPeriodRow, Without
<1>2. DOMAIN period' = DOMAIN period
  BY DEF Without
<1>3. \A p \in LiveOf(period)' : p \in LiveOf(period) /\ period'[p] = period[p]
  BY <1>1, <1>2 DEF LiveOf
<1> QED
  BY <1>1, <1>2, <1>3 DEF Indexed, OneOpen

\* So every write of a period keeps the index.
LEMMA WritesKeepIndex ==
    ASSUME Indexed, NEW c, NEW given, Write(c, given) PROVE Indexed'
<1>1. CASE period' = period
  BY <1>1 DEF Indexed, OneOpen, OpenIn, LiveOf
<1>2. CASE c.op = "create_period" /\ WritePeriod(c, given)
  <2> DEFINE row == [organization |-> c.organization, status |-> c.status,
                     startsAt |-> c.startsAt, endsAt |-> c.endsAt, live |-> TRUE]
  <2>1. period' = With(period, c.period, row) /\ (c.status = "open" => NoOtherOpen(c.organization, c.period))
    BY <1>2 DEF WritePeriod
  <2>2. IsPeriodRow(row) /\ row.status = c.status /\ row.organization = c.organization
    BY DEF IsPeriodRow
  <2> HIDE DEF row
  <2> QED
    BY <2>1, <2>2, RowKeepsIndex DEF With
<1>3. CASE c.op = "open_period" /\ WritePeriod(c, given)
  <2> DEFINE row == [period[c.period] EXCEPT !.status = "open"]
  <2>1. /\ period[c.period].live => NoOtherOpen(period[c.period].organization, c.period)
        /\ period' = [period EXCEPT ![c.period].status = "open"]
    BY <1>3 DEF WritePeriod
  <2>2. CASE c.period \in DOMAIN period
    <3>1. /\ IsPeriodRow(row) /\ row.organization = period[c.period].organization
          /\ row.live = period[c.period].live
      BY <2>2 DEF Indexed, IsPeriodRow
    <3>2. DOMAIN period' = DOMAIN period /\ period'[c.period] = row
          /\ \A p \in DOMAIN period \ {c.period} : period'[p] = period[p]
      BY <2>1, <2>2
    <3> HIDE DEF row
    <3> QED
      BY <2>1, <3>1, <3>2, RowKeepsIndex
  <2>3. CASE c.period \notin DOMAIN period
    <3>1. DOMAIN period' = DOMAIN period /\ \A p \in DOMAIN period : period'[p] = period[p]
      BY <2>1, <2>3
    <3> QED
      BY <3>1 DEF Indexed, OneOpen, OpenIn, LiveOf
  <2> QED
    BY <2>2, <2>3
<1>4. CASE c.op = "close_period" /\ WritePeriod(c, given)
  <2> DEFINE old == period[c.period]
             row == [old EXCEPT !.status = "closed", !.endsAt = Edited(old.endsAt, given)]
  <2>1. period' = [period EXCEPT ![c.period].status = "closed", ![c.period].endsAt = Edited(@, given)]
    BY <1>4 DEF WritePeriod
  <2>2. CASE c.period \in DOMAIN period
    <3>1. IsPeriodRow(row) /\ row.status = "closed"
      BY <2>2 DEF Indexed, IsPeriodRow
    <3>2. DOMAIN period' = DOMAIN period /\ period'[c.period] = row
          /\ \A p \in DOMAIN period \ {c.period} : period'[p] = period[p]
      BY <2>1, <2>2
    <3> HIDE DEF row
    <3> QED
      BY <3>1, <3>2, RowKeepsIndex
  <2>3. CASE c.period \notin DOMAIN period
    <3>1. DOMAIN period' = DOMAIN period /\ \A p \in DOMAIN period : period'[p] = period[p]
      BY <2>1, <2>3
    <3> QED
      BY <3>1 DEF Indexed, OneOpen, OpenIn, LiveOf
  <2> QED
    BY <2>2, <2>3
<1>5. CASE DeletePeriod(c)
  BY <1>5, DeathsKeepIndex DEF DeletePeriod
<1>6. period' = period \/ (c.op \in {"create_period", "open_period", "close_period"} /\ WritePeriod(c, given))
      \/ DeletePeriod(c)
  BY DEF Write, WriteUnit, WriteMember, UpsertPlan, CreateAxis, DeleteAxis, WriteObjective, WriteProject
<1> QED
  BY <1>1, <1>2, <1>3, <1>4, <1>5, <1>6

\* However many requests there are at once, and whatever they read before, an
\* organisation has one open period at most: the unique index alone keeps it
\* (OneOpenPeriod, the part of PlanHangsTogether that needs no OneAtATime).
THEOREM TheIndexDecides == Spec => []OneOpenPeriod
<1>1. Init => Indexed
  BY DEF Init, Indexed, OneOpen, OpenIn, LiveOf
<1>2. Indexed /\ [Next]_vars => Indexed'
  <2> SUFFICES ASSUME Indexed, [Next]_vars PROVE Indexed'
    OBVIOUS
  <2>1. CASE period' = period
    BY <2>1 DEF Indexed, OneOpen, OpenIn, LiveOf
  <2>2. ASSUME NEW s \in Requests, Commit(s) PROVE Indexed'
    BY <2>2, WritesKeepIndex DEF Commit
  <2>3. period' = period \/ \E s \in Requests : Commit(s)
    BY DEF Next, Begin, RollBack, CronLists, CronCloses, Tick, vars, structure, work
  <2> QED
    BY <2>1, <2>2, <2>3
<1>3. Indexed => OneOpenPeriod
  <2> SUFFICES ASSUME Indexed, NEW o \in Organizations PROVE Cardinality(OpenIn(o)) <= 1
    BY DEF OneOpenPeriod
  <2>1. \A p, q \in OpenIn(o) : p = q
    BY DEF Indexed, OneOpen, OpenIn
  <2> QED
    BY <2>1, AtMostOne
<1> QED
  BY <1>1, <1>2, <1>3, PTL DEF Spec
=============================================================================
