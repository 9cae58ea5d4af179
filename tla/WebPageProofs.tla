--------------------------- MODULE WebPageProofs ---------------------------
(***************************************************************************)
(* Theorems about the pages of the web application, for groups of any      *)
(* size, rows of any values, any number of writes and any interleaving of  *)
(* the user, the others, the answers of the API and the renderings.        *)
(*                                                                         *)
(* Of a list of siblings: what a page asks of the API, it takes, unless    *)
(* the group changed since the page was rendered.  This rests on the equal *)
(* split summing one hundred percent, whatever the remainder.  Of a form:  *)
(* a save writes what its user typed and nothing else.                     *)
(***************************************************************************)
EXTENDS MCWebPage, OkrDomainProofs

-----------------------------------------------------------------------------
(***************************************************************************)
(* The equal split.                                                        *)
(***************************************************************************)

\* A finite set of numbers has a greatest.
LEMMA HasGreatest ==
    ASSUME NEW S, IsFiniteSet(S), S \subseteq Int, S # {}
    PROVE  \E m \in S : \A x \in S : x <= m
<1> DEFINE Good == {T \in SUBSET S : T # {} => \E d \in T : \A x \in T : x <= d}
<1>1. ASSUME NEW T \in SUBSET S, \A U \in SUBSET T : U # T => U \in Good
      PROVE  T \in Good
  <2>1. CASE T = {}
    BY <2>1
  <2>2. ASSUME NEW y \in T PROVE T \in Good
    <3>1. T \ {y} \in Good
      BY <1>1, <2>2
    <3>2. CASE T \ {y} = {}
      <4>1. \A x \in T : x <= y
        BY <2>2, <3>2
      <4> QED
        BY <4>1, <2>2
    <3>3. CASE T \ {y} # {}
      <4>1. PICK d \in T \ {y} : \A x \in T \ {y} : x <= d
        BY <3>1, <3>3
      <4>2. CASE d <= y
        <5>1. \A x \in T : x <= y
          BY <4>1, <4>2
        <5> QED
          BY <5>1, <2>2
      <4>3. CASE ~(d <= y)
        <5>1. \A x \in T : x <= d
          BY <4>1, <4>3
        <5> QED
          BY <5>1, <4>1
      <4> QED
        BY <4>2, <4>3
    <3> QED
      BY <3>2, <3>3
  <2> QED
    BY <2>1, <2>2
<1>2. \A T \in SUBSET S : T \in Good
  <2> HIDE DEF Good
  <2>1. Good \in SUBSET SUBSET S
    BY DEF Good
  <2> QED
    BY <1>1, <2>1, SetInduction
<1> QED
  BY <1>2

\* How many members come before one of them.
Preceding(T, i) == {j \in T : j < i}
First(T, r) == {i \in T : Cardinality(Preceding(T, i)) < r}

\* Of the members of a set, r come after fewer than r.
LEMMA FirstAreCounted ==
    ASSUME NEW S, IsFiniteSet(S), S \subseteq Int
    PROVE  \A r \in 0..Cardinality(S) : Cardinality(First(S, r)) = r
<1> DEFINE Good == {T \in SUBSET S : \A r \in 0..Cardinality(T) : Cardinality(First(T, r)) = r}
<1>1. ASSUME NEW T \in SUBSET S, \A U \in SUBSET T : U # T => U \in Good
      PROVE  T \in Good
  <2>0. IsFiniteSet(T) /\ Cardinality(T) \in Nat
    BY FS_Subset, FS_CardinalityType
  <2> SUFFICES ASSUME NEW r \in 0..Cardinality(T) PROVE Cardinality(First(T, r)) = r
    OBVIOUS
  <2>1. CASE T = {}
    <3>1. r = 0 /\ First(T, r) = {}
      BY <2>1, FS_EmptySet DEF First
    <3> QED
      BY <3>1, FS_EmptySet
  <2>2. CASE T # {}
    <3>1. PICK m \in T : \A x \in T : x <= m
      BY <2>0, <2>2, HasGreatest
    <3> DEFINE U == T \ {m}
    <3>2. /\ U \in SUBSET T /\ U # T /\ U \in Good
          /\ IsFiniteSet(U) /\ Cardinality(U) \in Nat /\ Cardinality(U) = Cardinality(T) - 1
      BY <1>1, <2>0, <3>1, FS_RemoveElement, FS_CardinalityType
    <3>3. Preceding(T, m) = U
      <4>1. \A j \in T : j \in Int
        OBVIOUS
      <4>2. \A j \in T : j < m <=> j # m
        BY <3>1, <4>1
      <4> QED
        BY <4>2 DEF Preceding
    <3>4. \A i \in U : Preceding(T, i) = Preceding(U, i)
      BY <3>1 DEF Preceding
    <3>5. CASE r <= Cardinality(U)
      <4>1. m \notin First(T, r)
        <5>1. ~(Cardinality(Preceding(T, m)) < r)
          BY <3>2, <3>3, <3>5
        <5> QED
          BY <5>1 DEF First
      <4>2. First(T, r) = First(U, r)
        BY <3>4, <4>1 DEF First
      <4>3. r \in 0..Cardinality(U)
        BY <3>2, <3>5
      <4> QED
        BY <3>2, <4>2, <4>3
    <3>6. CASE ~(r <= Cardinality(U))
      <4>1. r = Cardinality(T)
        BY <2>0, <3>2, <3>6
      <4>2. ASSUME NEW i \in T PROVE Cardinality(Preceding(T, i)) < r
        <5>1. Preceding(T, i) \in SUBSET (T \ {i})
          BY DEF Preceding
        <5>2. /\ IsFiniteSet(T \ {i}) /\ Cardinality(T \ {i}) = Cardinality(T) - 1
              /\ Cardinality(Preceding(T, i)) \in Nat
              /\ Cardinality(Preceding(T, i)) <= Cardinality(T \ {i})
          BY <2>0, <5>1, FS_RemoveElement, FS_Subset, FS_CardinalityType
        <5> QED
          BY <2>0, <4>1, <5>2
      <4>3. First(T, r) = T
        BY <4>2 DEF First
      <4> QED
        BY <4>1, <4>3
    <3> QED
      BY <3>5, <3>6
  <2> QED
    BY <2>1, <2>2
<1>2. \A T \in SUBSET S : T \in Good
  <2> HIDE DEF Good
  <2>1. Good \in SUBSET SUBSET S
    BY DEF Good
  <2> QED
    BY <1>1, <2>1, SetInduction
<1> QED
  BY <1>2

\* A sum where some members have one more than the others.
LEMMA SumWithRemainder ==
    ASSUME NEW S, IsFiniteSet(S), NEW L \in SUBSET S, NEW q \in Int, NEW f,
           \A x \in S : f[x] = q + (IF x \in L THEN 1 ELSE 0)
    PROVE  SumFunctionOnSet(f, S) = q * Cardinality(S) + Cardinality(L)
<1> DEFINE Good == {T \in SUBSET S :
                      SumFunctionOnSet(f, T) = q * Cardinality(T) + Cardinality(T \cap L)}
<1>1. ASSUME NEW T \in SUBSET S, \A U \in SUBSET T : U # T => U \in Good
      PROVE  T \in Good
  <2>1. CASE T = {}
    <3>1. T \cap L = {} /\ q * 0 = 0
      BY <2>1
    <3> QED
      BY <2>1, <3>1, SumOfNone, FS_EmptySet
  <2>2. CASE T # {}
    <3>1. PICK x \in T : TRUE
      BY <2>2
    <3> DEFINE U == T \ {x}
    <3>2. U \in Good /\ IsFiniteSet(T) /\ IsFiniteSet(U)
      BY <1>1, <3>1, FS_Subset
    <3>3. SumFunctionOnSet(f, T) = f[x] + SumFunctionOnSet(f, U)
      BY <3>1, <3>2, SumSplits
    <3>4. Cardinality(T) \in Nat /\ Cardinality(U) = Cardinality(T) - 1
      BY <3>1, <3>2, FS_CardinalityType, FS_RemoveElement
    <3>5. Cardinality(T \cap L) = Cardinality(U \cap L) + (IF x \in L THEN 1 ELSE 0)
      <4>1. IsFiniteSet(U \cap L) /\ x \notin U \cap L
        BY <3>2, FS_Subset
      <4>2. T \cap L = IF x \in L THEN (U \cap L) \cup {x} ELSE U \cap L
        BY <3>1
      <4>3. Cardinality((U \cap L) \cup {x}) = Cardinality(U \cap L) + 1 /\ Cardinality(U \cap L) \in Nat
        BY <4>1, FS_AddElement, FS_CardinalityType
      <4> QED
        BY <4>2, <4>3
    <3>6. Cardinality(U \cap L) \in Nat /\ q * Cardinality(U) \in Int
      BY <3>2, <3>4, FS_Subset, FS_CardinalityType
    <3>7. q * Cardinality(T) = q * Cardinality(U) + q
      <4> DEFINE c == Cardinality(T)
      <4>1. c \in Nat /\ Cardinality(U) = c - 1
        BY <3>4
      <4> HIDE DEF c
      <4>2. q * c = q * (c - 1) + q
        BY <4>1
      <4> QED
        BY <4>1, <4>2 DEF c
    <3>8. SumFunctionOnSet(f, U) = q * Cardinality(U) + Cardinality(U \cap L)
      BY <3>2
    <3>9. f[x] = q + (IF x \in L THEN 1 ELSE 0)
      OBVIOUS
    <3>10. q * Cardinality(T) \in Int
      BY <3>4
    <3> DEFINE a == q * Cardinality(T)
               b == q * Cardinality(U)
               k == Cardinality(U \cap L)
               e == IF x \in L THEN 1 ELSE 0
    <3>11. a \in Int /\ b \in Int /\ k \in Nat /\ a = b + q /\ e \in Int
      BY <3>6, <3>7, <3>10
    <3>12. SumFunctionOnSet(f, T) = (q + e) + (b + k) /\ Cardinality(T \cap L) = k + e
      BY <3>3, <3>5, <3>8, <3>9
    <3>13. SumFunctionOnSet(f, T) = a + (k + e)
      <4> HIDE DEF a, b, k, e
      <4> QED
        BY <3>11, <3>12
    <3> QED
      BY <3>12, <3>13
  <2> QED
    BY <2>1, <2>2
<1>2. Good \in SUBSET SUBSET S
  OBVIOUS
<1>3. S \cap L = L
  OBVIOUS
<1> HIDE DEF Good
<1>4. S \in Good
  BY <1>1, <1>2, SetInduction
<1> QED
  BY <1>3, <1>4 DEF Good

\* The equal split gives every member a weight, and one hundred percent to all.
LEMMA EqualSplitIsWhole ==
    ASSUME NEW S, IsFiniteSet(S), S \subseteq Int, S # {}
    PROVE  /\ EqualSplit(S) \in [S -> Nat]
           /\ SumFunctionOnSet(EqualSplit(S), S) = FullBp
<1> DEFINE n == Cardinality(S)
           r == FullBp % n
           q == FullBp \div n
           L == First(S, r)
           f == EqualSplit(S)
<1>1. n \in Nat \ {0}
  BY FS_CardinalityType, FS_EmptySet
<1>2. FullBp \in Nat
  BY FullBpAssumption
<1>3. q \in Nat /\ r \in 0..(n - 1) /\ FullBp = n * q + r
  <2> HIDE DEF n
  <2> QED
    BY <1>1, <1>2
<1>4. \A i \in S : f[i] = q + (IF i \in L THEN 1 ELSE 0)
  BY DEF EqualSplit, First, Preceding
<1>5. f \in [S -> Nat]
  <2>1. \A i \in S : f[i] \in Nat
    <3> HIDE DEF f, q, L
    <3> QED
      BY <1>3, <1>4
  <2>2. f = [i \in S |-> f[i]]
    BY DEF EqualSplit
  <2> HIDE DEF f
  <2> QED
    BY <2>1, <2>2
<1>6. L \in SUBSET S
  BY DEF First
<1>7. Cardinality(L) = r
  <2>1. r \in 0..n
    <3> HIDE DEF n, r
    <3> QED
      BY <1>1, <1>3
  <2> QED
    BY <2>1, FirstAreCounted
<1>8. SumFunctionOnSet(f, S) = q * n + Cardinality(L)
  <2>1. q \in Int
    BY <1>3
  <2> HIDE DEF f, q, L
  <2> QED
    BY <2>1, <1>4, <1>6, SumWithRemainder
<1>9. q * n + r = FullBp
  <2> HIDE DEF n, q, r
  <2> QED
    BY <1>1, <1>3
<1> QED
  BY <1>5, <1>7, <1>8, <1>9

-----------------------------------------------------------------------------
(***************************************************************************)
(* Groups, with one member more or less.                                   *)
(***************************************************************************)
SoundGroup(g) == g \in Group /\ ValidWeightGroup(g)

LEMMA GroupType ==
    ASSUME NEW g \in Group
    PROVE  /\ DOMAIN g \subseteq Items /\ IsFiniteSet(DOMAIN g) /\ DOMAIN g \subseteq Int
           /\ g \in [DOMAIN g -> Weight]
<1>1. PICK S \in SUBSET Items : g \in [S -> Weight]
  BY DEF Group
<1>2. MaxItems \in Nat
  BY SiblingsAssumption
<1>3. IsFiniteSet(Items) /\ Items \subseteq Int
  BY <1>2, FS_Interval DEF Items
<1> QED
  BY <1>1, <1>3, FS_Subset

LEMMA IsGroup ==
    ASSUME NEW S \in SUBSET Items, NEW g \in [S -> Weight]
    PROVE  g \in Group
BY DEF Group

\* What the weight of a member of a valid group may be.
LEMMA WeightsOfGroup ==
    ASSUME NEW g, SoundGroup(g)
    PROVE  /\ WeightMode(g) \in {"unweighted", "weighted"}
           /\ WeightMode(g) = "unweighted" <=> \A x \in DOMAIN g : g[x] = NoWeight
           /\ WeightMode(g) = "weighted" =>
                /\ DOMAIN g # {} /\ \A x \in DOMAIN g : g[x] \in Progress
                /\ SumFunctionOnSet(g, DOMAIN g) = FullBp
<1>1. WeightMode(g) \in {"unweighted", "weighted"}
  BY DEF SoundGroup, ValidWeightGroup
<1>2. WeightMode(g) = "unweighted" <=> \A x \in DOMAIN g : g[x] = NoWeight
  BY DEF WeightMode
<1>3. ASSUME WeightMode(g) = "weighted"
      PROVE  /\ DOMAIN g # {} /\ \A x \in DOMAIN g : g[x] \in Progress
             /\ SumFunctionOnSet(g, DOMAIN g) = FullBp
  <2>1. \A x \in DOMAIN g : g[x] # NoWeight
    BY <1>3 DEF WeightMode
  <2>2. DOMAIN g # {}
    BY <1>3 DEF WeightMode
  <2>3. \A x \in DOMAIN g : g[x] \in Progress
    BY <2>1, GroupType DEF SoundGroup, Weight, Progress
  <2>4. SumFunctionOnSet(g, DOMAIN g) = FullBp
    BY <1>3 DEF SoundGroup, ValidWeightGroup, SumFunction
  <2> QED
    BY <2>2, <2>3, <2>4
<1> QED
  BY <1>1, <1>2, <1>3

\* Weights that sum one hundred percent make a valid group, none above it.
LEMMA WholeIsGroup ==
    ASSUME NEW S \in SUBSET Items, S # {}, NEW w, w \in [S -> Nat], SumFunctionOnSet(w, S) = FullBp
    PROVE  SoundGroup(w)
<1>1. IsFiniteSet(S) /\ FullBp \in Nat
  <2>1. MaxItems \in Nat
    BY SiblingsAssumption
  <2>2. IsFiniteSet(Items)
    BY <2>1, FS_Interval DEF Items
  <2> QED
    BY <2>2, FullBpAssumption, FS_Subset
<1>2. ASSUME NEW i \in S PROVE w[i] <= FullBp
  <2> DEFINE T == S \ {i}
             none == [x \in T |-> 0 * 1]
  <2>1. /\ IsFiniteSet(T)
        /\ \A x \in T : /\ w[x] \in Int /\ none[x] \in Int
                       /\ none[x] <= w[x] /\ none[x] = 0 * w[x]
    BY <1>1, FS_Subset
  <2>2. SumFunctionOnSet(none, T) = 0 * SumFunctionOnSet(w, T) /\ SumFunctionOnSet(w, T) \in Int
    <3> HIDE DEF T, none
    <3> QED
      BY <2>1, SumOfScaled, SumType
  <2>3. SumFunctionOnSet(none, T) <= SumFunctionOnSet(w, T)
    <3> HIDE DEF T, none
    <3> QED
      BY <2>1, SumIsMonotone
  <2>4. SumFunctionOnSet(w, S) = w[i] + SumFunctionOnSet(w, T)
    BY <1>1, SumSplits
  <2>5. w[i] \in Nat
    OBVIOUS
  <2> DEFINE a == SumFunctionOnSet(none, T)
             b == SumFunctionOnSet(w, T)
  <2>6. b \in Int /\ a = 0 * b /\ a <= b /\ FullBp = w[i] + b
    BY <2>2, <2>3, <2>4
  <2> HIDE DEF a, b
  <2> QED
    BY <1>1, <2>5, <2>6
<1>3. w \in [S -> Weight]
  BY <1>1, <1>2 DEF Weight
<1>4. WeightMode(w) = "weighted"
  BY NoWeightAssumption DEF WeightMode
<1>5. SumFunction(w) = FullBp
  BY DEF SumFunction
<1> QED
  BY <1>3, <1>4, <1>5, IsGroup DEF SoundGroup, ValidWeightGroup

\* A group stays valid with a new member that weighs nothing, as the page asks.
LEMMA WithKeeps ==
    ASSUME NEW g, SoundGroup(g), created + 1 \notin DOMAIN g,
           NEW w, w = IF DOMAIN g # {} /\ WeightMode(g) = "weighted" THEN 0 ELSE NoWeight
    PROVE  ValidWeightGroup(With(g, w))
<1> DEFINE c == created + 1
           h == With(g, w)
<1>1. /\ DOMAIN h = DOMAIN g \cup {c} /\ h[c] = w
      /\ \A x \in DOMAIN g : h[x] = g[x]
  BY DEF With
<1>2. IsFiniteSet(DOMAIN g)
  BY GroupType DEF SoundGroup
<1> HIDE DEF h, c
<1>3. CASE WeightMode(g) = "weighted"
  <2>1. w = 0 /\ DOMAIN g # {} /\ (\A x \in DOMAIN g : g[x] \in Int) /\ SumFunctionOnSet(g, DOMAIN g) = FullBp
    BY <1>3, WeightsOfGroup DEF Progress
  <2>2. \A x \in DOMAIN h : h[x] \in Int
    BY <1>1, <2>1
  <2>3. WeightMode(h) = "weighted"
    BY <1>1, <2>2, NoWeightAssumption DEF WeightMode
  <2>4. SumFunctionOnSet(h, DOMAIN g) = FullBp
    BY <1>1, <1>2, <2>1, SumAgrees
  <2>5. SumFunctionOnSet(h, DOMAIN g \cup {c}) = SumFunctionOnSet(h, DOMAIN g) + h[c]
    <3>1. c \notin DOMAIN g
      BY DEF c
    <3> QED
      BY <1>1, <1>2, <2>2, <3>1, SumGrows
  <2>6. SumFunction(h) = FullBp
    BY <1>1, <2>1, <2>4, <2>5, FullBpAssumption DEF SumFunction
  <2> QED
    BY <2>3, <2>6 DEF ValidWeightGroup, h
<1>4. CASE WeightMode(g) # "weighted"
  <2>1. \A x \in DOMAIN h : h[x] = NoWeight
    BY <1>1, <1>4, WeightsOfGroup
  <2> QED
    BY <2>1 DEF ValidWeightGroup, WeightMode, h
<1> QED
  BY <1>3, <1>4

\* It stays valid without a member the API lets be deleted.
LEMMA WithoutKeeps ==
    ASSUME NEW g, SoundGroup(g), NEW i \in DOMAIN g, DeletionKeepsGroup(g, i)
    PROVE  SoundGroup(Without(g, i))
<1> DEFINE S == DOMAIN g \ {i}
           h == Without(g, i)
<1>1. /\ g \in Group /\ IsFiniteSet(DOMAIN g) /\ DOMAIN g \subseteq Items
      /\ g \in [DOMAIN g -> Weight]
  BY GroupType DEF SoundGroup
<1>2. DOMAIN h = S /\ \A x \in S : h[x] = g[x]
  BY DEF Without
<1>3. h \in [S -> Weight]
  BY <1>1 DEF Without
<1>4. h \in Group
  <2> HIDE DEF h
  <2> QED
    BY <1>1, <1>3, IsGroup
<1> HIDE DEF h
<1>5. CASE WeightMode(g) = "unweighted" \/ S = {}
  <2>1. \A x \in DOMAIN h : h[x] = NoWeight
    BY <1>2, <1>5, WeightsOfGroup
  <2> QED
    BY <1>4, <2>1 DEF SoundGroup, ValidWeightGroup, WeightMode, h
<1>6. CASE WeightMode(g) = "weighted" /\ S # {}
  <2>1. Cardinality(DOMAIN g) > 1
    <3>1. IsFiniteSet(S) /\ Cardinality(S) = Cardinality(DOMAIN g) - 1
      BY <1>1, FS_RemoveElement
    <3>2. Cardinality(S) \in Nat /\ Cardinality(S) # 0 /\ Cardinality(DOMAIN g) \in Nat
      BY <1>1, <1>6, <3>1, FS_CardinalityType, FS_EmptySet
    <3> QED
      BY <3>1, <3>2
  <2>2. SumFunctionOnSet(g, S) = FullBp
    BY <1>6, <2>1 DEF DeletionKeepsGroup, SumAfterDelete
  <2>3. \A x \in S : g[x] \in Int
    BY <1>6, WeightsOfGroup DEF Progress
  <2>4. SumFunctionOnSet(h, S) = FullBp
    <3>1. IsFiniteSet(S)
      BY <1>1, FS_Subset
    <3> QED
      BY <1>2, <2>2, <2>3, <3>1, SumAgrees
  <2>5. SumFunction(h) = FullBp
    BY <1>2, <2>4 DEF SumFunction
  <2>6. WeightMode(h) = "weighted"
    BY <1>2, <1>6, <2>3, NoWeightAssumption DEF WeightMode
  <2> QED
    BY <1>4, <2>5, <2>6 DEF SoundGroup, ValidWeightGroup, h
<1> QED
  BY <1>5, <1>6, WeightsOfGroup

\* A refused deletion is of a member that weighs.
LEMMA RefusedDeletion ==
    ASSUME NEW g, SoundGroup(g), NEW i \in DOMAIN g, ~DeletionKeepsGroup(g, i)
    PROVE  g[i] \notin {0, NoWeight}
<1> DEFINE S == DOMAIN g \ {i}
<1>1. WeightMode(g) = "weighted" /\ SumAfterDelete(g, i) # FullBp
  BY DEF DeletionKeepsGroup
<1>2. SumFunctionOnSet(g, S) # FullBp
  BY <1>1 DEF SumAfterDelete
<1>3. /\ \A x \in DOMAIN g : g[x] \in Int
      /\ SumFunctionOnSet(g, DOMAIN g) = FullBp /\ IsFiniteSet(DOMAIN g)
  BY <1>1, WeightsOfGroup, GroupType DEF SoundGroup, Progress
<1>4. SumFunctionOnSet(g, DOMAIN g) = g[i] + SumFunctionOnSet(g, S)
  BY <1>3, SumSplits
<1>5. SumFunctionOnSet(g, S) \in Int /\ g[i] \in Int
  BY <1>3, FS_Subset, SumType
<1> QED
  BY <1>2, <1>3, <1>4, <1>5, NoWeightAssumption

-----------------------------------------------------------------------------
(***************************************************************************)
(* The invariant of a list of siblings.                                    *)
(***************************************************************************)

\* What the API has and what the page was given are valid groups.
Snapshots == {s \in [content : Group, version : 0..MaxWrites] : ValidWeightGroup(s.content)}
PagesStand ==
    /\ stored \in Snapshots /\ page \in Snapshots
    /\ refresh \in [wanted : BOOLEAN, coming : {<<>>} \cup {<<s>> : s \in Snapshots}]
    /\ created \in 0..MaxItems /\ DOMAIN stored.content \subseteq 1..created

\* What the page asks, the API takes of the group the page shows, but for a
\* deletion.
Weighs(g) == DOMAIN g # {} /\ WeightMode(g) = "weighted"
Askable(q, g) ==
    \/ q.kind \in {"save", "clear"} /\ DOMAIN q.weights = DOMAIN g /\ SoundGroup(q.weights)
    \/ q.kind = "create" /\ q.weight = IF Weighs(g) THEN 0 ELSE NoWeight
    \/ q.kind = "delete"
RefusedDelete(q, g) ==
    /\ q.kind = "delete"
    /\ \A i \in DOMAIN g \cap {q.item} : g[i] \notin {0, NoWeight}
CallStands(c) ==
    /\ c.phase \in {"idle", "sent", "accepted", "refused", "broken"}
    /\ c.phase = "sent" => Askable(c.request, c.seen)
    /\ c.phase = "refused" /\ c.seen = c.met => RefusedDelete(c.request, c.met)
CallsStand ==
    /\ calls = [r \in Runners |-> calls[r]] /\ calls["form"] = Idle
    /\ \A r \in Runners : CallStands(calls[r])

\* A draft nobody has typed in is a whole; what is typed is a weight or not.
Whole(draft) ==
    /\ IsFiniteSet(DOMAIN draft) /\ draft \in [DOMAIN draft -> Nat]
    /\ SumFunctionOnSet(draft, DOMAIN draft) = FullBp
DialogsStand ==
    /\ control \in [kind : {"closed", "enable", "edit", "disable"}, item : {0},
                    draft : {control.draft}, typed : Nat]
    /\ control.kind = "closed" => control = Closed
    /\ control.kind \in {"enable", "edit"} =>
         /\ \A i \in DOMAIN control.draft : control.draft[i] \in Nat \cup {Blank}
         /\ control.typed = 0 => Whole(control.draft)
    /\ panel.kind \in {"closed", "create", "delete"}
OwnStands ==
    calls["weights"].phase \in {"sent", "accepted", "refused"} /\ control.kind # "closed"
      => calls["weights"].own

ListInv == PagesStand /\ CallsStand /\ DialogsStand /\ OwnStands

\* The parts of a snapshot.
LEMMA SnapshotParts ==
    ASSUME NEW s \in Snapshots
    PROVE  SoundGroup(s.content) /\ s.version \in 0..MaxWrites
BY DEF Snapshots, SoundGroup

LEMMA IdleStands == CallStands(Idle)
BY DEF CallStands, Idle

\* A submission of something the page may ask.
LEMMA SubmitKeeps ==
    ASSUME CallsStand, NEW r \in {"weights", "panel"}, NEW q, Submit(r, q),
           Askable(q, page.content)
    PROVE  /\ CallsStand' /\ calls'[r].own /\ calls'[r].phase = "sent"
           /\ \A x \in Runners \ {r} : calls'[x] = calls[x]
<1> DEFINE c == [phase |-> "sent", request |-> q, seen |-> page.content, own |-> TRUE]
<1>1. calls' = [calls EXCEPT ![r] = c] /\ r \in Runners /\ r # "form"
  BY DEF Submit, Runners
<1>2. CallStands(c)
  BY DEF CallStands
<1>3. /\ calls' = [x \in Runners |-> calls'[x]] /\ calls'[r] = c
      /\ \A x \in Runners \ {r} : calls'[x] = calls[x]
  <2> HIDE DEF c
  <2> QED
    BY <1>1 DEF CallsStand
<1>4. calls'["form"] = Idle
  BY <1>1, <1>3 DEF CallsStand, Runners
<1>5. \A x \in Runners : CallStands(calls'[x])
  <2> HIDE DEF c
  <2> QED
    BY <1>2, <1>3 DEF CallsStand
<1> QED
  BY <1>3, <1>4, <1>5 DEF CallsStand, CallStands

\* An answer, or what becomes of a call.
LEMMA AnswerKeeps ==
    ASSUME CallsStand, NEW r \in {"weights", "panel"}, NEW c, CallStands(c),
           calls' = [calls EXCEPT ![r] = c]
    PROVE  /\ CallsStand' /\ calls'[r] = c /\ \A x \in Runners \ {r} : calls'[x] = calls[x]
<1>1. r \in Runners /\ r # "form"
  BY DEF Runners
<1>2. /\ calls' = [x \in Runners |-> calls'[x]] /\ calls'[r] = c
      /\ \A x \in Runners \ {r} : calls'[x] = calls[x]
  BY <1>1 DEF CallsStand
<1>3. calls'["form"] = Idle
  BY <1>1, <1>2 DEF CallsStand, Runners
<1>4. \A x \in Runners : CallStands(calls'[x])
  BY <1>2 DEF CallsStand
<1> QED
  BY <1>2, <1>3, <1>4 DEF CallsStand, CallStands

\* What is dismissed while it is pending closes nothing any more.
LEMMA DismissedKeeps ==
    ASSUME CallsStand, NEW r \in {"weights", "panel"}, Dismissed(r)
    PROVE  /\ CallsStand' /\ \A x \in Runners \ {r} : calls'[x] = calls[x]
<1>1. CASE Pending(r)
  <2> DEFINE c == [calls[r] EXCEPT !.own = FALSE]
  <2>1. calls' = [calls EXCEPT ![r] = c]
    BY <1>1 DEF Dismissed
  <2>2. CallStands(calls[r])
    BY DEF CallsStand, Runners
  <2>3. /\ c.phase = calls[r].phase /\ c.request = calls[r].request
        /\ c.seen = calls[r].seen /\ c.met = calls[r].met
    OBVIOUS
  <2>4. CallStands(c)
    <3> HIDE DEF c
    <3> QED
      BY <2>2, <2>3 DEF CallStands
  <2> HIDE DEF c
  <2> QED
    BY <2>1, <2>4, AnswerKeeps
<1>2. CASE ~Pending(r)
  BY <1>2 DEF Dismissed, CallsStand
<1> QED
  BY <1>1, <1>2

-----------------------------------------------------------------------------
(***************************************************************************)
(* What each action of the list does to it.                                *)
(***************************************************************************)

\* The pages begin right, with nothing asked and nothing open.
LEMMA ListBegins ==
    ASSUME SiblingsInit
    PROVE  ListInv
<1>1. PICK g \in FirstGroups : /\ Opened(g) /\ created = Cardinality(DOMAIN g)
                               /\ control = Closed /\ panel = Closed
  BY DEF SiblingsInit
<1>2. PICK n \in 0..MaxItems : g \in [1..n -> Weight] /\ ValidWeightGroup(g)
  BY SiblingsAssumption
<1>3. n \in Nat /\ MaxItems \in Nat /\ MaxWrites \in Nat /\ 1..n \subseteq Items
  BY SiblingsAssumption, MaxWritesAssumption DEF Items
<1>4. g \in Group /\ DOMAIN g = 1..n
  BY <1>2, <1>3, IsGroup
<1>5. Cardinality(DOMAIN g) = n
  BY <1>3, <1>4, FS_Interval
<1>6. stored \in Snapshots /\ page = stored /\ stored.content = g
  BY <1>1, <1>2, <1>3, <1>4 DEF Opened, Snapshots
<1>7. PagesStand
  BY <1>1, <1>2, <1>4, <1>5, <1>6 DEF Opened, PagesStand
<1>8. calls = [r \in Runners |-> Idle]
  BY <1>1 DEF Opened
<1>9. CallsStand
  BY <1>8, IdleStands DEF CallsStand, Runners
<1>10. DialogsStand
  BY <1>1 DEF DialogsStand, Closed
<1>11. OwnStands
  BY <1>1 DEF OwnStands, Closed
<1> QED
  BY <1>7, <1>9, <1>10, <1>11 DEF ListInv

\* A dialog of weights opens on drafts that are a whole, and only when no save
\* is pending.
LEMMA OpenControlKeeps ==
    ASSUME ListInv, NEW kind \in {"enable", "edit", "disable"}, NEW draft, OpenControl(kind, draft),
           kind # "disable" => Whole(draft)
    PROVE  ListInv'
<1>1. /\ ~Pending("weights")
      /\ control' = [kind |-> kind, item |-> 0, draft |-> draft, typed |-> 0]
      /\ UNCHANGED <<pageVars, created, panel>>
  BY DEF OpenControl
<1>2. PagesStand' /\ CallsStand'
  BY <1>1 DEF ListInv, PagesStand, CallsStand, pageVars, CallStands
<1>3. kind # "disable" => \A i \in DOMAIN draft : draft[i] \in Nat
  BY DEF Whole
<1>4. DialogsStand'
  BY <1>1, <1>3 DEF ListInv, DialogsStand, Whole
<1>5. calls'["weights"].phase = "idle"
  BY <1>1 DEF Pending, pageVars
<1>6. OwnStands'
  BY <1>5 DEF OwnStands
<1> QED
  BY <1>2, <1>4, <1>6 DEF ListInv

\* The drafts a dialog opens with.
LEMMA FirstDraftIsWhole ==
    ASSUME PagesStand, Shown # {}, NEW equal \in BOOLEAN, equal \/ WeightMode(page.content) = "weighted"
    PROVE  Whole(FirstDraft(equal))
<1>1. SoundGroup(page.content)
  BY SnapshotParts DEF PagesStand
<1>2. IsFiniteSet(Shown) /\ Shown \subseteq Int
  BY <1>1, GroupType DEF SoundGroup, Shown
<1>3. EqualSplit(Shown) \in [Shown -> Nat] /\ SumFunctionOnSet(EqualSplit(Shown), Shown) = FullBp
  BY <1>2, EqualSplitIsWhole
<1> DEFINE d == FirstDraft(equal)
<1>4. DOMAIN d = Shown
  BY DEF FirstDraft
<1>5. CASE equal
  <2>1. d = [i \in Shown |-> EqualSplit(Shown)[i]]
    BY <1>5 DEF FirstDraft
  <2>2. d = EqualSplit(Shown)
    BY <1>3, <2>1
  <2> QED
    BY <1>2, <1>3, <2>2 DEF Whole
<1>6. CASE ~equal
  <2>1. /\ \A i \in Shown : page.content[i] \in Progress
        /\ SumFunctionOnSet(page.content, Shown) = FullBp
    BY <1>1, <1>6, WeightsOfGroup DEF Shown
  <2>2. \A i \in Shown : page.content[i] # NoWeight /\ page.content[i] \in Nat
    BY <2>1, NoWeightAssumption, FullBpAssumption DEF Progress
  <2>3. \A i \in Shown : d[i] = page.content[i]
    BY <1>6, <2>2 DEF FirstDraft
  <2>4. d \in [Shown -> Nat]
    BY <2>2, <1>6 DEF FirstDraft
  <2>5. SumFunctionOnSet(d, Shown) = FullBp
    <3>1. \A i \in Shown : d[i] \in Int /\ d[i] = page.content[i]
      BY <2>2, <2>3
    <3>2. SumFunctionOnSet(d, Shown) = SumFunctionOnSet(page.content, Shown)
      <4> HIDE DEF d
      <4> QED
        BY <1>2, <3>1, SumAgrees
    <3> QED
      BY <2>1, <3>2
  <2> QED
    BY <1>2, <1>4, <2>4, <2>5 DEF Whole
<1> QED
  BY <1>5, <1>6

LEMMA ControlOpens ==
    ASSUME ListInv, Enable \/ Edit \/ Disable
    PROVE  ListInv'
<1>1. CASE Enable
  <2>1. OpenControl("enable", FirstDraft(TRUE)) /\ Shown # {}
    BY <1>1 DEF Enable, OpenControl
  <2>2. Whole(FirstDraft(TRUE))
    BY <2>1, FirstDraftIsWhole DEF ListInv
  <2> QED
    BY <2>1, <2>2, OpenControlKeeps
<1>2. CASE Edit
  <2>1. OpenControl("edit", FirstDraft(FALSE)) /\ Shown # {} /\ WeightMode(page.content) = "weighted"
    BY <1>2 DEF Edit, OpenControl, Weighted
  <2>2. Whole(FirstDraft(FALSE))
    BY <2>1, FirstDraftIsWhole DEF ListInv
  <2> QED
    BY <2>1, <2>2, OpenControlKeeps
<1>3. CASE Disable
  <2>1. OpenControl("disable", <<>>)
    BY <1>3 DEF Disable
  <2> QED
    BY <2>1, OpenControlKeeps
<1> QED
  BY <1>1, <1>2, <1>3

\* What is typed is a weight, or not one.
LEMMA DraftedKeeps ==
    ASSUME ListInv, NEW draft, Drafted(draft), \A i \in DOMAIN draft : draft[i] \in Nat \cup {Blank}
    PROVE  ListInv'
<1>1. /\ control.kind \in {"enable", "edit"}
      /\ control' = [control EXCEPT !.draft = draft, !.typed = @ + 1]
      /\ UNCHANGED <<pageVars, created, panel>>
  BY DEF Drafted
<1>2. PagesStand' /\ CallsStand'
  BY <1>1 DEF ListInv, PagesStand, CallsStand, pageVars, CallStands
<1>3. control' = [kind |-> control.kind, item |-> 0, draft |-> draft, typed |-> control.typed + 1]
  BY <1>1 DEF ListInv, DialogsStand
<1>4. control.typed \in Nat
  BY DEF ListInv, DialogsStand
<1>5. DialogsStand'
  BY <1>1, <1>3, <1>4 DEF ListInv, DialogsStand
<1>6. OwnStands'
  BY <1>1, <1>3 DEF ListInv, OwnStands, pageVars
<1> QED
  BY <1>2, <1>5, <1>6 DEF ListInv

LEMMA TypingKeeps ==
    ASSUME ListInv, Type \/ Equalize
    PROVE  ListInv'
<1>1. CASE Type
  <2>1. PICK i \in Shown, v \in Entries :
            Drafted([j \in DOMAIN control.draft \cup {i} |-> IF j = i THEN v ELSE control.draft[j]])
    BY <1>1 DEF Type
  <2> DEFINE d == [j \in DOMAIN control.draft \cup {i} |-> IF j = i THEN v ELSE control.draft[j]]
  <2>2. control.kind \in {"enable", "edit"}
    BY <2>1 DEF Drafted
  <2>3. v \in Nat \cup {Blank}
    BY SiblingsAssumption, FullBpAssumption DEF Progress
  <2>4. \A j \in DOMAIN d : d[j] \in Nat \cup {Blank}
    BY <2>2, <2>3 DEF ListInv, DialogsStand
  <2> HIDE DEF d
  <2> QED
    BY <2>1, <2>4, DraftedKeeps DEF d
<1>2. CASE Equalize
  <2>1. Drafted(EqualSplit(Shown))
    BY <1>2 DEF Equalize
  <2>2. SoundGroup(page.content)
    BY SnapshotParts DEF ListInv, PagesStand
  <2>3. IsFiniteSet(Shown) /\ Shown \subseteq Int
    BY <2>2, GroupType DEF SoundGroup, Shown
  <2>4. DOMAIN EqualSplit(Shown) = Shown
    BY DEF EqualSplit
  <2>5. \A i \in DOMAIN EqualSplit(Shown) : EqualSplit(Shown)[i] \in Nat \cup {Blank}
    BY <2>3, <2>4, EqualSplitIsWhole
  <2> QED
    BY <2>1, <2>5, DraftedKeeps
<1> QED
  BY <1>1, <1>2

\* A submission, of the weights or of the panel, with everything else unchanged.
LEMMA AskKeeps ==
    ASSUME ListInv, NEW r \in {"weights", "panel"}, NEW q, Submit(r, q), Askable(q, page.content),
           UNCHANGED <<stored, page, refresh, owed, created, control, panel>>
    PROVE  ListInv'
<1>1. /\ CallsStand' /\ calls'[r].own /\ calls'[r].phase = "sent"
      /\ \A x \in Runners \ {r} : calls'[x] = calls[x]
  BY SubmitKeeps DEF ListInv
<1>2. PagesStand' /\ DialogsStand'
  BY DEF ListInv, PagesStand, DialogsStand
<1>3. OwnStands'
  <2>1. CASE r = "weights"
    BY <1>1, <2>1 DEF OwnStands
  <2>2. CASE r = "panel"
    <3>1. calls'["weights"] = calls["weights"]
      BY <1>1, <2>2 DEF Runners
    <3> QED
      BY <3>1 DEF ListInv, OwnStands
  <2> QED
    BY <2>1, <2>2
<1> QED
  BY <1>1, <1>2, <1>3 DEF ListInv

\* Weights that can be saved make a valid group.
LEMMA SavedIsGroup ==
    ASSUME ListInv, control.kind \in {"enable", "edit"}, CanSave
    PROVE  DOMAIN Entered = Shown /\ SoundGroup(Entered)
<1>1. DOMAIN Entered = Shown
  BY DEF Entered
<1>2. \A i \in Shown : Entered[i] \in Nat
  <2> SUFFICES ASSUME NEW i \in Shown PROVE Entered[i] \in Nat
    OBVIOUS
  <2>1. Entered[i] # Blank
    BY DEF CanSave
  <2>2. i \in DOMAIN control.draft /\ Entered[i] = control.draft[i]
    BY <2>1 DEF Entered
  <2> QED
    BY <2>1, <2>2 DEF ListInv, DialogsStand
<1>3. Entered \in [Shown -> Nat]
  BY <1>2 DEF Entered
<1>4. SumFunctionOnSet(Entered, Shown) = FullBp
  BY <1>1 DEF CanSave, SumFunction
<1>5. Shown \in SUBSET Items
  BY SnapshotParts, GroupType DEF ListInv, PagesStand, SoundGroup, Shown
<1>6. Shown # {}
  BY <1>4, SumOfNone, FullBpAssumption
<1> QED
  BY <1>1, <1>3, <1>4, <1>5, <1>6, WholeIsGroup

LEMMA SubmissionsKeep ==
    ASSUME ListInv, SubmitWeights \/ SubmitClear \/ SubmitCreate \/ SubmitDelete
    PROVE  ListInv'
<1>1. CASE SubmitWeights
  <2> DEFINE q == [kind |-> "save", weights |-> Entered]
  <2>1. /\ control.kind \in {"enable", "edit"} /\ CanSave /\ Submit("weights", q)
        /\ UNCHANGED <<stored, page, refresh, owed, created, control, panel>>
    BY <1>1 DEF SubmitWeights
  <2>2. Askable(q, page.content)
    BY <2>1, SavedIsGroup DEF Askable, Shown
  <2> HIDE DEF q
  <2> QED
    BY <2>1, <2>2, AskKeeps
<1>2. CASE SubmitClear
  <2> DEFINE none == [i \in Shown |-> NoWeight]
             q == [kind |-> "clear", weights |-> none]
  <2>1. /\ Submit("weights", q)
        /\ UNCHANGED <<stored, page, refresh, owed, created, control, panel>>
    BY <1>2 DEF SubmitClear
  <2>2. Shown \in SUBSET Items
    BY SnapshotParts, GroupType DEF ListInv, PagesStand, SoundGroup, Shown
  <2>3. none \in [Shown -> Weight]
    BY DEF Weight
  <2>4. none \in Group
    <3> HIDE DEF none
    <3> QED
      BY <2>2, <2>3, IsGroup
  <2>5. ValidWeightGroup(none)
    BY DEF ValidWeightGroup, WeightMode
  <2>6. Askable(q, page.content)
    BY <2>4, <2>5 DEF Askable, SoundGroup, Shown
  <2> HIDE DEF q
  <2> QED
    BY <2>1, <2>6, AskKeeps
<1>3. CASE SubmitCreate
  <2> DEFINE q == [kind |-> "create", weight |-> IF Weighted THEN 0 ELSE NoWeight]
  <2>1. /\ Submit("panel", q)
        /\ UNCHANGED <<stored, page, refresh, owed, created, control, panel>>
    BY <1>3 DEF SubmitCreate
  <2>2. Askable(q, page.content)
    BY DEF Askable, Weighs, Weighted, Shown
  <2> HIDE DEF q
  <2> QED
    BY <2>1, <2>2, AskKeeps
<1>4. CASE SubmitDelete
  <2> DEFINE q == [kind |-> "delete", item |-> panel.item]
  <2>1. /\ Submit("panel", q)
        /\ UNCHANGED <<stored, page, refresh, owed, created, control, panel>>
    BY <1>4 DEF SubmitDelete
  <2>2. Askable(q, page.content)
    BY DEF Askable
  <2> HIDE DEF q
  <2> QED
    BY <2>1, <2>2, AskKeeps
<1> QED
  BY <1>1, <1>2, <1>3, <1>4

LEMMA DismissalsKeep ==
    ASSUME ListInv, DismissControl \/ DismissPanel
    PROVE  ListInv'
<1>1. CASE DismissControl
  <2>1. /\ control' = Closed /\ Dismissed("weights")
        /\ UNCHANGED <<stored, page, refresh, owed, created, panel>>
    BY <1>1 DEF DismissControl
  <2>2. CallsStand'
    BY <2>1, DismissedKeeps DEF ListInv
  <2>3. PagesStand' /\ DialogsStand' /\ OwnStands'
    BY <2>1 DEF ListInv, PagesStand, DialogsStand, OwnStands, Closed
  <2> QED
    BY <2>2, <2>3 DEF ListInv
<1>2. CASE DismissPanel
  <2>1. /\ panel' = Closed /\ Dismissed("panel")
        /\ UNCHANGED <<stored, page, refresh, owed, created, control>>
    BY <1>2 DEF DismissPanel
  <2>2. CallsStand' /\ calls'["weights"] = calls["weights"]
    BY <2>1, DismissedKeeps DEF ListInv, Runners
  <2>3. PagesStand' /\ DialogsStand'
    BY <2>1 DEF ListInv, PagesStand, DialogsStand, Closed
  <2>4. OwnStands'
    BY <2>1, <2>2 DEF ListInv, OwnStands
  <2> QED
    BY <2>2, <2>3, <2>4 DEF ListInv
<1> QED
  BY <1>1, <1>2

LEMMA PanelOpens ==
    ASSUME ListInv, OpenCreate \/ OpenDelete
    PROVE  ListInv'
<1>1. PICK kind \in {"create", "delete"} : \E item : OpenPanel(kind, item)
  BY DEF OpenCreate, OpenDelete
<1>2. PICK item : panel' = [Closed EXCEPT !.kind = kind, !.item = item] /\ UNCHANGED <<pageVars, created, control>>
  BY <1>1 DEF OpenPanel
<1>3. panel'.kind = kind
  BY <1>2 DEF Closed
<1>4. PagesStand' /\ CallsStand' /\ OwnStands'
  BY <1>2 DEF ListInv, PagesStand, CallsStand, CallStands, OwnStands, pageVars
<1>5. DialogsStand'
  BY <1>2, <1>3 DEF ListInv, DialogsStand
<1> QED
  BY <1>4, <1>5 DEF ListInv

\* What is stored changes to another valid group.
LEMMA StoredStays ==
    ASSUME PagesStand, NEW g, SoundGroup(g), stored.version < MaxWrites,
           stored' = [content |-> g, version |-> stored.version + 1],
           created' \in created..MaxItems, DOMAIN g \subseteq 1..created',
           UNCHANGED <<page, refresh>>
    PROVE  PagesStand'
<1>1. stored.version + 1 \in 0..MaxWrites
  BY MaxWritesAssumption, SnapshotParts DEF PagesStand
<1>2. stored' \in Snapshots /\ stored'.content = g
  BY <1>1 DEF Snapshots, SoundGroup
<1>3. created' \in 0..MaxItems
  BY SiblingsAssumption DEF PagesStand
<1> QED
  BY <1>2, <1>3 DEF PagesStand

\* What a write leaves: another group of the same members, one with a new
\* member, or one without a member.
LEMMA NewMember ==
    ASSUME PagesStand, created < MaxItems, NEW w \in Weight,
           ValidWeightGroup(With(stored.content, w))
    PROVE  /\ SoundGroup(With(stored.content, w))
           /\ DOMAIN With(stored.content, w) \subseteq 1..(created + 1)
           /\ created + 1 \in created..MaxItems
<1> DEFINE g == stored.content
           S == DOMAIN g \cup {created + 1}
           h == With(g, w)
<1>1. SoundGroup(g) /\ DOMAIN g \subseteq 1..created /\ created \in Nat /\ MaxItems \in Nat
  BY SnapshotParts, SiblingsAssumption DEF PagesStand
<1>2. g \in [DOMAIN g -> Weight] /\ DOMAIN g \subseteq Items
  BY <1>1, GroupType DEF SoundGroup
<1>3. created + 1 \in 1..MaxItems /\ created + 1 \in created..MaxItems /\ created + 1 \in 1..(created + 1)
  BY <1>1
<1>4. S \in SUBSET Items
  BY <1>2, <1>3 DEF Items
<1>5. h \in [S -> Weight]
  BY <1>2 DEF With
<1>6. h \in Group
  <2> HIDE DEF h, S
  <2> QED
    BY <1>4, <1>5, IsGroup
<1>7. S \subseteq 1..(created + 1)
  BY <1>1
<1>8. DOMAIN h = S
  BY DEF With
<1> QED
  BY <1>3, <1>6, <1>7, <1>8 DEF SoundGroup

LEMMA OneMemberLess ==
    ASSUME PagesStand, NEW i \in DOMAIN stored.content, DeletionKeepsGroup(stored.content, i)
    PROVE  /\ SoundGroup(Without(stored.content, i))
           /\ DOMAIN Without(stored.content, i) \subseteq 1..created
<1>1. SoundGroup(stored.content) /\ DOMAIN stored.content \subseteq 1..created
  BY SnapshotParts DEF PagesStand
<1>2. DOMAIN Without(stored.content, i) \subseteq DOMAIN stored.content
  BY DEF Without
<1> QED
  BY <1>1, <1>2, WithoutKeeps

LEMMA OthersKeep ==
    ASSUME ListInv, OtherWrites
    PROVE  ListInv'
<1>1. PagesStand /\ created \in 0..MaxItems /\ MaxItems \in Nat /\ UNCHANGED <<control, panel>>
  BY SiblingsAssumption DEF ListInv, PagesStand, OtherWrites
<1>2. \E g : /\ WrittenByOther(g) /\ SoundGroup(g)
             /\ created' \in created..MaxItems /\ DOMAIN g \subseteq 1..created'
  <2>1. CASE \E w \in [DOMAIN stored.content -> Weight] :
               /\ w # stored.content /\ ValidWeightGroup(w) /\ WrittenByOther(w) /\ UNCHANGED created
    <3>1. PICK w \in [DOMAIN stored.content -> Weight] :
              ValidWeightGroup(w) /\ WrittenByOther(w) /\ UNCHANGED created
      BY <2>1
    <3>2. DOMAIN stored.content \in SUBSET Items /\ DOMAIN stored.content \subseteq 1..created
      BY <1>1, SnapshotParts, GroupType DEF PagesStand, SoundGroup
    <3>3. SoundGroup(w) /\ DOMAIN w \subseteq 1..created
      BY <3>1, <3>2, IsGroup DEF SoundGroup
    <3>4. created' \in created..MaxItems
      BY <1>1, <3>1
    <3> QED
      BY <3>1, <3>3, <3>4
  <2>2. CASE /\ created < MaxItems
             /\ \E w \in {0, NoWeight} : /\ ValidWeightGroup(With(stored.content, w))
                                         /\ WrittenByOther(With(stored.content, w))
             /\ created' = created + 1
    <3>1. PICK w \in {0, NoWeight} : /\ ValidWeightGroup(With(stored.content, w))
                                     /\ WrittenByOther(With(stored.content, w))
      BY <2>2
    <3>2. w \in Weight
      BY FullBpAssumption DEF Weight
    <3> DEFINE h == With(stored.content, w)
    <3>3. SoundGroup(h) /\ DOMAIN h \subseteq 1..(created + 1) /\ created + 1 \in created..MaxItems
      BY <1>1, <2>2, <3>1, <3>2, NewMember
    <3>4. WrittenByOther(h)
      BY <3>1
    <3> HIDE DEF h
    <3> QED
      BY <2>2, <3>3, <3>4
  <2>3. CASE \E i \in DOMAIN stored.content :
               /\ DeletionKeepsGroup(stored.content, i)
               /\ WrittenByOther(Without(stored.content, i)) /\ UNCHANGED created
    <3>1. PICK i \in DOMAIN stored.content :
               /\ DeletionKeepsGroup(stored.content, i)
               /\ WrittenByOther(Without(stored.content, i)) /\ UNCHANGED created
      BY <2>3
    <3>2. /\ SoundGroup(Without(stored.content, i))
          /\ DOMAIN Without(stored.content, i) \subseteq 1..created
      BY <1>1, <3>1, OneMemberLess
    <3>3. created' \in created..MaxItems
      BY <1>1, <3>1
    <3> QED
      BY <3>1, <3>2, <3>3
  <2> QED
    BY <2>1, <2>2, <2>3 DEF OtherWrites
<1>3. PICK g : /\ WrittenByOther(g) /\ SoundGroup(g)
               /\ created' \in created..MaxItems /\ DOMAIN g \subseteq 1..created'
  BY <1>2
<1>4. PagesStand' /\ UNCHANGED calls
  BY <1>1, <1>3, StoredStays DEF WrittenByOther
<1>5. CallsStand' /\ DialogsStand' /\ OwnStands'
  BY <1>1, <1>4 DEF ListInv, CallsStand, CallStands, DialogsStand, OwnStands
<1> QED
  BY <1>4, <1>5 DEF ListInv

\* What the API takes of a call of the page is another valid group.
LEMMA ResultIsSound ==
    ASSUME PagesStand, NEW q, NEW seen, Askable(q, seen), Accepted(stored.content, q),
           q.kind = "create" => created < MaxItems,
           created' = IF q.kind = "create" THEN created + 1 ELSE created
    PROVE  LET g == Result(stored.content, q)
           IN  SoundGroup(g) /\ created' \in created..MaxItems /\ DOMAIN g \subseteq 1..created'
<1>1. created \in 0..MaxItems /\ MaxItems \in Nat /\ DOMAIN stored.content \subseteq 1..created
  BY SiblingsAssumption DEF PagesStand
<1>2. CASE q.kind \in {"save", "clear"}
  <2>1. /\ SoundGroup(q.weights) /\ DOMAIN q.weights = DOMAIN stored.content
        /\ Result(stored.content, q) = q.weights
    BY <1>2 DEF Askable, Accepted, Result, SameSiblingSet
  <2>2. created' = created
    BY <1>2
  <2> QED
    BY <1>1, <2>1, <2>2
<1>3. CASE q.kind = "create"
  <2>1. /\ q.weight \in {0, NoWeight} /\ ValidWeightGroup(With(stored.content, q.weight))
        /\ Result(stored.content, q) = With(stored.content, q.weight)
    BY <1>3 DEF Askable, Accepted, Result
  <2>2. q.weight \in Weight
    BY <2>1, FullBpAssumption DEF Weight
  <2> QED
    BY <1>3, <2>1, <2>2, NewMember
<1>4. CASE q.kind = "delete"
  <2>1. /\ q.item \in DOMAIN stored.content /\ DeletionKeepsGroup(stored.content, q.item)
        /\ Result(stored.content, q) = Without(stored.content, q.item)
    BY <1>4 DEF Accepted, Result
  <2>2. created' = created
    BY <1>4
  <2> QED
    BY <1>1, <2>1, <2>2, OneMemberLess
<1> QED
  BY <1>2, <1>3, <1>4 DEF Askable

\* What the API refuses of it, while the page is right, is a deletion of a
\* member that weighs or is gone.
LEMMA RefusedIsDelete ==
    ASSUME PagesStand, NEW q, Askable(q, stored.content), ~Accepted(stored.content, q)
    PROVE  RefusedDelete(q, stored.content)
<1>1. /\ SoundGroup(stored.content) /\ created \in Nat /\ DOMAIN stored.content \subseteq 1..created
  BY SnapshotParts DEF PagesStand
<1>2. CASE q.kind \in {"save", "clear"}
  <2>1. DOMAIN q.weights = DOMAIN stored.content /\ ValidWeightGroup(q.weights)
    BY <1>2 DEF Askable, SoundGroup
  <2> QED
    BY <1>2, <2>1 DEF Accepted, SameSiblingSet
<1>3. CASE q.kind = "create"
  <2>1. created + 1 \notin DOMAIN stored.content
    BY <1>1
  <2>2. q.weight = IF DOMAIN stored.content # {} /\ WeightMode(stored.content) = "weighted"
                   THEN 0 ELSE NoWeight
    BY <1>3 DEF Askable, Weighs
  <2>3. ValidWeightGroup(With(stored.content, q.weight))
    BY <1>1, <2>1, <2>2, WithKeeps
  <2> QED
    BY <1>3, <2>3 DEF Accepted
<1>4. CASE q.kind = "delete"
  <2>1. ~(q.item \in DOMAIN stored.content /\ DeletionKeepsGroup(stored.content, q.item))
    BY <1>4 DEF Accepted
  <2>2. \A i \in DOMAIN stored.content \cap {q.item} : stored.content[i] \notin {0, NoWeight}
    BY <1>1, <2>1, RefusedDeletion
  <2> QED
    BY <1>4, <2>2 DEF RefusedDelete
<1> QED
  BY <1>2, <1>3, <1>4 DEF Askable

\* A call that goes on, with its dialog as it was.
LEMMA OwnGoesOn ==
    ASSUME ListInv, NEW r \in {"weights", "panel"}, NEW c, CallStands(c),
           calls' = [calls EXCEPT ![r] = c],
           \/ c.phase \in {"idle", "broken"}
           \/ c.own = calls[r].own /\ calls[r].phase \in {"sent", "accepted", "refused"},
           UNCHANGED control
    PROVE  CallsStand' /\ OwnStands'
<1>1. CallsStand' /\ calls'[r] = c /\ \A x \in Runners \ {r} : calls'[x] = calls[x]
  BY AnswerKeeps DEF ListInv
<1>2. CASE r = "weights"
  BY <1>1, <1>2 DEF ListInv, OwnStands
<1>3. CASE r = "panel"
  <2>1. calls'["weights"] = calls["weights"]
    BY <1>1, <1>3 DEF Runners
  <2> QED
    BY <1>1, <2>1 DEF ListInv, OwnStands
<1> QED
  BY <1>1, <1>2, <1>3

LEMMA CommitKeeps ==
    ASSUME ListInv, NEW r \in {"weights", "panel"}, Commit(r)
    PROVE  ListInv'
<1> DEFINE q == calls[r].request
           seen == calls[r].seen
<1>1. /\ calls[r].phase = "sent" /\ UNCHANGED <<control, panel>>
      /\ PagesStand /\ CallStands(calls[r]) /\ DialogsStand'
  BY DEF Commit, ListInv, CallsStand, Runners, DialogsStand
<1>2. Askable(q, seen)
  BY <1>1 DEF CallStands
<1>3. CASE Accepted(stored.content, q)
  <2> DEFINE g == Result(stored.content, q)
             c == [phase |-> "accepted", version |-> stored.version + 1, own |-> calls[r].own]
  <2>1. /\ q.kind = "create" => created < MaxItems
        /\ Accept(r, g)
        /\ created' = IF q.kind = "create" THEN created + 1 ELSE created
    BY <1>3 DEF Commit
  <2>2. SoundGroup(g) /\ created' \in created..MaxItems /\ DOMAIN g \subseteq 1..created'
    BY <1>1, <1>2, <1>3, <2>1, ResultIsSound
  <2>3. PagesStand'
    <3> HIDE DEF g
    <3> QED
      BY <1>1, <2>1, <2>2, StoredStays DEF Accept
  <2>4. CallStands(c) /\ calls' = [calls EXCEPT ![r] = c] /\ c.own = calls[r].own
    BY <2>1 DEF CallStands, Accept
  <2>5. CallsStand' /\ OwnStands'
    <3> HIDE DEF c
    <3> QED
      BY <1>1, <2>4, OwnGoesOn
  <2> QED
    BY <1>1, <2>3, <2>5 DEF ListInv
<1>4. CASE ~Accepted(stored.content, q)
  <2> DEFINE c == [phase |-> "refused", request |-> q, seen |-> seen, met |-> stored.content,
                   own |-> calls[r].own]
  <2>1. Refuse(r) /\ UNCHANGED created
    BY <1>4 DEF Commit
  <2>2. PagesStand' /\ calls' = [calls EXCEPT ![r] = c] /\ c.own = calls[r].own
    BY <1>1, <2>1 DEF Refuse, PagesStand
  <2>3. CallStands(c)
    <3>1. seen = stored.content => RefusedDelete(q, stored.content)
      BY <1>1, <1>2, <1>4, RefusedIsDelete
    <3> QED
      BY <3>1 DEF CallStands
  <2>4. CallsStand' /\ OwnStands'
    <3> HIDE DEF c
    <3> QED
      BY <1>1, <2>2, <2>3, OwnGoesOn
  <2> QED
    BY <1>1, <2>2, <2>4 DEF ListInv
<1> QED
  BY <1>3, <1>4

\* An answer that is heard, or a call that breaks.
LEMMA AnswersKeep ==
    ASSUME ListInv, SavedWeights \/ SavedMember \/ Failed
    PROVE  ListInv'
<1>1. CASE SavedWeights
  <2>1. /\ calls' = [calls EXCEPT !["weights"] = Idle] /\ control' = Closed
        /\ refresh' = [refresh EXCEPT !.wanted = TRUE] /\ UNCHANGED <<stored, page, created, panel>>
    BY <1>1 DEF SavedWeights, HearAccepted
  <2>2. CallsStand'
    BY <2>1, IdleStands, AnswerKeeps DEF ListInv
  <2>3. PagesStand'
    BY <2>1 DEF ListInv, PagesStand
  <2>4. DialogsStand' /\ OwnStands'
    BY <2>1 DEF ListInv, DialogsStand, OwnStands, Closed
  <2> QED
    BY <2>2, <2>3, <2>4 DEF ListInv
<1>2. CASE SavedMember
  <2>1. /\ calls' = [calls EXCEPT !["panel"] = Idle] /\ panel' = Closed
        /\ refresh' = [refresh EXCEPT !.wanted = TRUE] /\ UNCHANGED <<stored, page, created, control>>
    BY <1>2 DEF SavedMember, HearAccepted
  <2>2. CallsStand' /\ OwnStands'
    BY <2>1, IdleStands, OwnGoesOn DEF Idle
  <2>3. PagesStand'
    BY <2>1 DEF ListInv, PagesStand
  <2>4. DialogsStand'
    BY <2>1 DEF ListInv, DialogsStand, Closed
  <2> QED
    BY <2>2, <2>3, <2>4 DEF ListInv
<1>3. CASE Failed
  <2>1. PICK r \in {"weights", "panel"} : HearFailure(r) \/ Break(r)
    BY <1>3 DEF Failed
  <2>2. UNCHANGED <<stored, page, refresh, created, control, panel>>
    BY <1>3 DEF Failed, HearFailure, Break
  <2>3. \E c : CallStands(c) /\ c.phase \in {"idle", "broken"} /\ calls' = [calls EXCEPT ![r] = c]
    <3> DEFINE broken == [phase |-> "broken", own |-> FALSE]
    <3>1. CallStands(broken) /\ broken.phase = "broken" /\ Idle.phase = "idle"
      BY DEF CallStands, Idle
    <3>2. calls' = [calls EXCEPT ![r] = Idle] \/ calls' = [calls EXCEPT ![r] = broken]
      BY <2>1 DEF HearFailure, Break
    <3> HIDE DEF broken
    <3> QED
      BY <3>1, <3>2, IdleStands
  <2>4. CallsStand' /\ OwnStands'
    BY <2>2, <2>3, OwnGoesOn
  <2>5. PagesStand' /\ DialogsStand'
    BY <2>2 DEF ListInv, PagesStand, DialogsStand
  <2> QED
    BY <2>4, <2>5 DEF ListInv
<1> QED
  BY <1>1, <1>2, <1>3

\* Renderings give the page what was stored when they were made.
LEMMA RenderingsKeep ==
    ASSUME ListInv, RenderGroup \/ LandGroup \/ ReloadGroup
    PROVE  ListInv'
<1>1. CASE RenderGroup
  <2>1. /\ refresh' = [wanted |-> FALSE, coming |-> <<stored>>]
        /\ UNCHANGED <<stored, page, calls, owed, created, control, panel>>
    BY <1>1 DEF RenderGroup, Render
  <2>2. PagesStand'
    BY <2>1 DEF ListInv, PagesStand
  <2>3. CallsStand' /\ DialogsStand' /\ OwnStands'
    BY <2>1 DEF ListInv, CallsStand, CallStands, DialogsStand, OwnStands
  <2> QED
    BY <2>2, <2>3 DEF ListInv
<1>2. CASE LandGroup
  <2>1. /\ refresh.coming # <<>> /\ page' = Head(refresh.coming)
        /\ refresh' = [refresh EXCEPT !.coming = <<>>]
        /\ UNCHANGED <<stored, calls, owed, created, panel>>
        /\ control' = Closed \/ control' = control
    BY <1>2 DEF LandGroup, Land
  <2>2. PICK s \in Snapshots : refresh.coming = <<s>>
    BY <2>1 DEF ListInv, PagesStand
  <2>3. PagesStand'
    BY <2>1, <2>2 DEF ListInv, PagesStand
  <2>4. CallsStand' /\ DialogsStand' /\ OwnStands'
    BY <2>1 DEF ListInv, CallsStand, CallStands, DialogsStand, OwnStands, Closed
  <2> QED
    BY <2>3, <2>4 DEF ListInv
<1>3. CASE ReloadGroup
  <2>1. /\ page' = stored /\ refresh' = [wanted |-> FALSE, coming |-> <<>>]
        /\ calls' = [r \in Runners |-> Idle] /\ UNCHANGED <<stored, owed, created>>
        /\ control' = Closed /\ panel' = Closed
    BY <1>3 DEF ReloadGroup, Reload
  <2>2. PagesStand'
    BY <2>1 DEF ListInv, PagesStand
  <2>3. CallsStand'
    BY <2>1, IdleStands DEF CallsStand, Runners, CallStands
  <2>4. DialogsStand' /\ OwnStands'
    BY <2>1 DEF DialogsStand, OwnStands, Closed
  <2> QED
    BY <2>2, <2>3, <2>4 DEF ListInv
<1> QED
  BY <1>1, <1>2, <1>3

\* Every step of a list keeps its invariant.
LEMMA ListKeeps == ListInv /\ SiblingsNext => ListInv'
<1> SUFFICES ASSUME ListInv, SiblingsNext PROVE ListInv'
  OBVIOUS
<1>1. CASE Enable \/ Edit \/ Disable
  BY <1>1, ControlOpens
<1>2. CASE Type \/ Equalize
  BY <1>2, TypingKeeps
<1>3. CASE SubmitWeights \/ SubmitClear \/ SubmitCreate \/ SubmitDelete
  BY <1>3, SubmissionsKeep
<1>4. CASE DismissControl \/ DismissPanel
  BY <1>4, DismissalsKeep
<1>5. CASE OpenCreate \/ OpenDelete
  BY <1>5, PanelOpens
<1>6. CASE \E r \in {"weights", "panel"} : Commit(r)
  BY <1>6, CommitKeeps
<1>7. CASE OtherWrites
  BY <1>7, OthersKeep
<1>8. CASE SavedWeights \/ SavedMember \/ Failed
  BY <1>8, AnswersKeep
<1>9. CASE RenderGroup \/ LandGroup \/ ReloadGroup
  BY <1>9, RenderingsKeep
<1> QED
  BY <1>1, <1>2, <1>3, <1>4, <1>5, <1>6, <1>7, <1>8, <1>9 DEF SiblingsNext

\* What the invariant says to a user of a list.
LEMMA ListIsSound == ListInv => WeightsPageSound
<1> SUFFICES ASSUME ListInv PROVE WeightsPageSound
  OBVIOUS
<1>1. SiblingsTypeOK
  <2>1. /\ stored.content \in Group /\ page.content \in Group /\ stored.version \in 0..MaxWrites
        /\ created \in 0..MaxItems
    BY SnapshotParts DEF ListInv, PagesStand, SoundGroup
  <2>2. /\ control.kind \in {"closed", "enable", "edit", "disable"}
        /\ panel.kind \in {"closed", "create", "delete"}
    BY DEF ListInv, DialogsStand
  <2> QED
    BY <2>1, <2>2 DEF SiblingsTypeOK
<1>2. RefusedOnlyWhenStale
  BY DEF ListInv, CallsStand, CallStands, RefusedDelete, RefusedOnlyWhenStale
<1>3. ProposalsCanBeSaved
  <2> SUFFICES ASSUME control.kind \in {"enable", "edit"}, control.typed = 0,
                      DOMAIN control.draft = Shown
               PROVE  CanSave
    BY DEF ProposalsCanBeSaved
  <2>1. Whole(control.draft)
    BY DEF ListInv, DialogsStand
  <2>2. DOMAIN Entered = Shown /\ \A i \in Shown : Entered[i] = control.draft[i]
    BY DEF Entered
  <2>3. \A i \in Shown : Entered[i] \in Int /\ Entered[i] = control.draft[i]
    BY <2>1, <2>2 DEF Whole
  <2>4. SumFunctionOnSet(Entered, Shown) = SumFunctionOnSet(control.draft, Shown)
    BY <2>1, <2>3, SumAgrees DEF Whole
  <2>5. SumFunction(Entered) = FullBp
    BY <2>1, <2>2, <2>4 DEF Whole, SumFunction
  <2>6. \A i \in Shown : Entered[i] # Blank
    BY <2>3, SiblingsAssumption
  <2> QED
    BY <2>5, <2>6 DEF CanSave
<1> QED
  BY <1>1, <1>2, <1>3 DEF WeightsPageSound

\* An answer changes the weights control only by closing the dialog that asked.
LEMMA ListAnswers ==
    ASSUME ListInv, SiblingsNext, calls["weights"].phase = "accepted", control' # control
    PROVE  calls["weights"].own
<1>1. CASE control.kind # "closed"
  BY <1>1 DEF ListInv, OwnStands
<1>2. CASE control.kind = "closed"
  <2>1. control = Closed /\ Pending("weights")
    BY <1>2 DEF ListInv, DialogsStand, Pending
  <2>2. ~(Enable \/ Edit \/ Disable)
    BY <2>1 DEF Enable, Edit, Disable, OpenControl
  <2>3. ~(Type \/ Equalize)
    BY <1>2 DEF Type, Equalize, Drafted
  <2>4. control' = control \/ control' = Closed
    BY <2>2, <2>3 DEF SiblingsNext, SubmitWeights, SubmitClear, DismissControl, OpenCreate, OpenDelete,
       OpenPanel, SubmitCreate, SubmitDelete, DismissPanel, Commit, OtherWrites, SavedWeights, SavedMember,
       Failed, RenderGroup, LandGroup, ReloadGroup
  <2> QED
    BY <2>1, <2>4
<1> QED
  BY <1>1, <1>2

-----------------------------------------------------------------------------
(***************************************************************************)
(* The invariant of a form.                                                *)
(***************************************************************************)
RowSnapshots == [content : Rows, version : Int]
RowsStand ==
    /\ form \in FirstForms
    /\ stored \in RowSnapshots /\ page \in RowSnapshots
    /\ refresh \in [wanted : BOOLEAN, coming : {<<>>} \cup {<<s>> : s \in RowSnapshots}]

\* A field its user has not typed in holds what the row had when the dialog
\* opened; one that was never opened holds nothing.
FieldsStand ==
    /\ open \in BOOLEAN /\ typed \subseteq DOMAIN Against
    /\ FormOf[form].taken = "open" /\ ~open => typed = {}
    /\ FormOf[form].taken = "open" /\ open =>
         /\ values \in Rows /\ base \in Rows
         /\ \A k \in DOMAIN Against \ typed : values[k] = base[k]
    /\ FormOf[form].taken = "mount" => values \in Rows

\* What was asked names what was typed, unless it is what the form compared it
\* with, and nothing else, unless the page had changed under a form that
\* compares with the page, or the form compares with nothing.
Compares(q, seen, k) == IF form \in Captured THEN q.base[k] ELSE seen[k]
NamesTyped(q, seen) ==
    \A k \in Fields :
      /\ k \notin DOMAIN q.typed /\ k \in DOMAIN q.dto =>
           /\ form \notin Captured
           /\ form = "project" => q.base[k] # seen[k]
      /\ k \in DOMAIN q.typed => \/ k \in DOMAIN q.dto /\ q.dto[k] = q.typed[k]
                                 \/ q.typed[k] = Compares(q, seen, k)
Fitting(q) ==
    /\ DOMAIN q.dto \subseteq Fields
    /\ \A k \in DOMAIN q.dto : q.dto[k] \in Values[form]
FormCallsStand ==
    /\ calls = [r \in Runners |-> calls[r]] /\ calls["weights"] = Idle
    /\ calls["form"].phase = "sent" => /\ Fitting(calls["form"].request)
                                       /\ NamesTyped(calls["form"].request, calls["form"].seen)

FormInv == RowsStand /\ FieldsStand /\ FormCallsStand

\* The forms, one by one.
LEMMA FormsAre ==
    ASSUME form \in Forms
    PROVE  /\ DOMAIN Against \subseteq Fields
           /\ FormOf[form].taken \in {"open", "mount"}
           /\ \A k \in DOMAIN Against : Against[k] \in {"base", "page", "none"}
           /\ form \in Captured => /\ FormOf[form].taken = "open"
                                   /\ \A k \in DOMAIN Against : Against[k] = "base"
           /\ form \notin Captured => \A k \in DOMAIN Against : Against[k] # "base"
           /\ form = "project" => /\ FormOf[form].taken = "open"
                                  /\ \A k \in DOMAIN Against : Against[k] = "page"
           /\ form = "slider" => /\ FormOf[form].taken = "mount"
                                 /\ DOMAIN Against = {"a"} /\ Against["a"] = "none"
<1>1. form \in {"task", "unit", "axis", "project", "plan", "entry", "contribution", "metric",
                "objective", "slider"}
  BY DEF Forms, FormOf
<1>2. CASE form \in {"task", "unit", "axis"}
  <2>1. FormOf[form] = [taken |-> "open", against |-> [a |-> "base", b |-> "base"]]
    BY <1>2 DEF FormOf, TaskForm, UnitForm, AxisForm
  <2> QED
    BY <1>2, <2>1 DEF Against, Captured, Fields
<1>3. CASE form = "project"
  <2>1. FormOf[form] = [taken |-> "open", against |-> [a |-> "page", b |-> "page"]]
    BY <1>3 DEF FormOf, ProjectForm
  <2> QED
    BY <1>3, <2>1 DEF Against, Captured, Fields
<1>4. CASE form \in {"plan", "entry"}
  <2>1. FormOf[form] = [taken |-> "open", against |-> [a |-> "none", b |-> "none"]]
    BY <1>4 DEF FormOf, PlanForm, EntryForm
  <2> QED
    BY <1>4, <2>1 DEF Against, Captured, Fields
<1>5. CASE form = "contribution"
  <2>1. FormOf[form] = [taken |-> "open", against |-> [a |-> "none"]]
    BY <1>5 DEF FormOf, ContributionForm
  <2> QED
    BY <1>5, <2>1 DEF Against, Captured, Fields
<1>6. CASE form = "metric"
  <2>1. FormOf[form] = [taken |-> "mount", against |-> [a |-> "none", b |-> "none"]]
    BY <1>6 DEF FormOf, MetricForm
  <2> QED
    BY <1>6, <2>1 DEF Against, Captured, Fields
<1>7. CASE form = "objective"
  <2>1. FormOf[form] = [taken |-> "mount", against |-> [a |-> "none", b |-> "page"]]
    BY <1>7 DEF FormOf, ObjectiveForm
  <2> QED
    BY <1>7, <2>1 DEF Against, Captured, Fields
<1>8. CASE form = "slider"
  <2>1. FormOf[form] = [taken |-> "mount", against |-> [a |-> "none"]]
    BY <1>8 DEF FormOf, SliderForm
  <2> QED
    BY <1>8, <2>1 DEF Against, Captured, Fields
<1> QED
  BY <1>1, <1>2, <1>3, <1>4, <1>5, <1>6, <1>7, <1>8

LEMMA KnownForm == FormInv => form \in Forms /\ form # "none"
<1>1. "none" \notin Forms
  BY DEF Forms, FormOf
<1> QED
  BY <1>1, EditFormsAssumption DEF FormInv, RowsStand

\* A row has a value in each field.
LEMMA RowType ==
    ASSUME NEW row \in Rows
    PROVE  /\ DOMAIN row = Fields /\ \A k \in Fields : row[k] \in Values[form]
           /\ \A k \in Fields, v \in Values[form] : [row EXCEPT ![k] = v] \in Rows
BY DEF Rows

\* Whether calls are about the same form does not depend on anything else.
LEMMA CallsOfSameForm ==
    ASSUME FormInv, UNCHANGED form, calls' = calls
    PROVE  FormCallsStand'
BY DEF FormInv, FormCallsStand, Fitting, NamesTyped, Compares

\* The answer to a call, or a call that goes on to what is not "sent".
LEMMA FormAnswered ==
    ASSUME FormInv, UNCHANGED form, NEW c, calls' = [calls EXCEPT !["form"] = c], c.phase # "sent"
    PROVE  FormCallsStand'
<1>1. "form" \in Runners /\ "weights" \in Runners
  BY DEF Runners
<1>2. /\ calls' = [r \in Runners |-> calls'[r]] /\ calls'["form"] = c
      /\ calls'["weights"] = Idle
  BY <1>1 DEF FormInv, FormCallsStand
<1> QED
  BY <1>2 DEF FormCallsStand

\* The form begins with nothing typed.
LEMMA FormBegins ==
    ASSUME FormsInit
    PROVE  FormInv
<1>1. PICK row \in FirstRows :
          /\ Opened(row) /\ values = IF FormOf[form].taken = "open" THEN <<>> ELSE row
          /\ form \in FirstForms /\ open = (form = "slider") /\ base = <<>> /\ typed = {}
  BY DEF FormsInit
<1>2. row \in Rows /\ form \in Forms
  BY <1>1, EditFormsAssumption DEF Rows
<1>3. RowsStand
  BY <1>1, <1>2 DEF Opened, RowsStand, RowSnapshots
<1>4. FieldsStand
  <2>1. FormOf[form].taken = "open" => ~open
    BY <1>1, <1>2, FormsAre
  <2>2. open \in BOOLEAN
    BY <1>1
  <2> QED
    BY <1>1, <1>2, <2>1, <2>2 DEF FieldsStand
<1>5. FormCallsStand
  BY <1>1 DEF Opened, FormCallsStand, Runners, Idle
<1> QED
  BY <1>3, <1>4, <1>5 DEF FormInv

\* Opening a dialog, typing in it and dismissing it.
LEMMA DialogKeeps ==
    ASSUME FormInv, Open \/ TypeIn \/ Dismiss
    PROVE  FormInv'
<1>1. UNCHANGED <<pageVars, form>>
  BY DEF Open, TypeIn, Dismiss
<1>2. RowsStand' /\ FormCallsStand'
  BY <1>1, CallsOfSameForm DEF FormInv, RowsStand, RowSnapshots, Rows, pageVars
<1>3. Rows' = Rows /\ Against' = Against
  BY <1>1 DEF Rows, Against
<1>4. form \in Forms /\ page.content \in Rows
  BY KnownForm DEF FormInv, RowsStand, RowSnapshots
<1>5. CASE Open
  <2>1. /\ ~open /\ open' = TRUE /\ UNCHANGED typed
        /\ IF FormOf[form].taken = "open" THEN values' = page.content /\ base' = page.content
           ELSE UNCHANGED <<values, base>>
    BY <1>5 DEF Open
  <2>2. FieldsStand'
    BY <1>1, <1>3, <1>4, <2>1, FormsAre DEF FormInv, FieldsStand
  <2> QED
    BY <1>2, <2>2 DEF FormInv
<1>6. CASE TypeIn
  <2>1. PICK k \in DOMAIN Against, v \in Values[form] :
            open /\ values' = [values EXCEPT ![k] = v] /\ typed' = typed \cup {k}
            /\ UNCHANGED <<open, base>>
    BY <1>6 DEF TypeIn
  <2>2. values \in Rows /\ k \in Fields
    BY <1>4, <2>1, FormsAre DEF FormInv, FieldsStand
  <2>3. values' \in Rows /\ \A x \in Fields \ {k} : values'[x] = values[x]
    <3>1. values' = [values EXCEPT ![k] = v] /\ DOMAIN values = Fields
      BY <2>1, <2>2, RowType
    <3>2. [values EXCEPT ![k] = v] \in Rows
      BY <2>2, RowType
    <3> QED
      BY <3>1, <3>2
  <2>4. DOMAIN Against \subseteq Fields
    BY <1>4, FormsAre
  <2>5. FieldsStand'
    BY <1>1, <1>3, <2>1, <2>3, <2>4 DEF FormInv, FieldsStand
  <2> QED
    BY <1>2, <2>5 DEF FormInv
<1>7. CASE Dismiss
  <2>1. Closes
    BY <1>7 DEF Dismiss
  <2>2. FieldsStand'
    BY <1>1, <1>3, <2>1 DEF FormInv, FieldsStand, Closes
  <2> QED
    BY <1>2, <2>2 DEF FormInv
<1> QED
  BY <1>5, <1>6, <1>7

\* What a dialog asks for names what was typed in it.
LEMMA DtoNamesTyped ==
    ASSUME FormInv, open, ~Locked,
           NEW q, q = [dto |-> Dto, typed |-> [k \in typed |-> values[k]], base |-> base]
    PROVE  Fitting(q) /\ NamesTyped(q, page.content)
<1>1. /\ form \in Forms /\ values \in Rows /\ typed \subseteq DOMAIN Against
      /\ DOMAIN Against \subseteq Fields
  BY KnownForm, FormsAre DEF FormInv, FieldsStand
<1>2. /\ DOMAIN q.dto = Sent /\ DOMAIN q.typed = typed /\ q.base = base
      /\ (\A k \in Sent : q.dto[k] = values[k]) /\ (\A k \in typed : q.typed[k] = values[k])
  BY DEF Dto
<1>3. Sent \subseteq DOMAIN Against
  BY DEF Sent
<1>4. Fitting(q)
  BY <1>1, <1>2, <1>3, RowType DEF Fitting
<1>5. ASSUME NEW k \in Fields, k \notin typed, k \in Sent
      PROVE  form \notin Captured /\ (form = "project" => base[k] # page.content[k])
  <2>1. k \in DOMAIN Against /\ (Against[k] = "none" \/ values[k] # Reference(k))
    BY <1>5 DEF Sent
  <2>2. FormOf[form].taken = "open" => values[k] = base[k]
    BY <1>5, <2>1 DEF FormInv, FieldsStand
  <2>3. form \notin Captured
    BY <1>1, <2>1, <2>2, FormsAre DEF Reference
  <2>4. form = "project" => base[k] # page.content[k]
    BY <1>1, <2>1, <2>2, FormsAre DEF Reference
  <2> QED
    BY <2>3, <2>4
<1>6. ASSUME NEW k \in Fields, k \in typed
      PROVE  k \in Sent \/ values[k] = Compares(q, page.content, k)
  <2> SUFFICES ASSUME k \notin Sent PROVE values[k] = Compares(q, page.content, k)
    OBVIOUS
  <2>1. k \in DOMAIN Against /\ Against[k] # "none" /\ values[k] = Reference(k)
    BY <1>1, <1>6 DEF Sent
  <2>2. form \in Captured <=> Against[k] = "base"
    BY <1>1, <2>1, FormsAre
  <2> QED
    BY <1>2, <2>1, <2>2 DEF Reference, Compares
<1>7. NamesTyped(q, page.content)
  BY <1>2, <1>5, <1>6 DEF NamesTyped
<1> QED
  BY <1>4, <1>7

\* A submission that names what was typed.
LEMMA FormAsks ==
    ASSUME FormInv, UNCHANGED form, NEW q, Submit("form", q), Fitting(q), NamesTyped(q, page.content)
    PROVE  FormCallsStand'
<1> DEFINE c == [phase |-> "sent", request |-> q, seen |-> page.content, own |-> TRUE]
<1>1. calls' = [calls EXCEPT !["form"] = c] /\ "form" \in Runners /\ "weights" \in Runners
  BY DEF Submit, Runners
<1>2. /\ calls' = [r \in Runners |-> calls'[r]] /\ calls'["form"] = c
      /\ calls'["weights"] = Idle
  <2> HIDE DEF c
  <2> QED
    BY <1>1 DEF FormInv, FormCallsStand
<1>3. Fitting(q)' /\ NamesTyped(q, page.content)
  BY DEF Fitting
<1>4. calls'["form"].request = q /\ calls'["form"].seen = page.content
  BY <1>2
<1> HIDE DEF c
<1>5. Fitting(calls["form"].request)' /\ NamesTyped(calls["form"].request, calls["form"].seen)'
  BY <1>3, <1>4 DEF Fitting, NamesTyped, Compares
<1> QED
  BY <1>2, <1>5 DEF FormCallsStand

LEMMA SavingKeeps ==
    ASSUME FormInv, Save \/ MarkDone
    PROVE  FormInv'
<1>1. UNCHANGED <<stored, page, refresh, owed, form>>
  BY DEF Save, MarkDone
<1>2. RowsStand' /\ Rows' = Rows /\ Against' = Against
  BY <1>1 DEF FormInv, RowsStand, RowSnapshots, Rows, Against
<1>3. CASE Save /\ Sent = {}
  <2>1. Closes /\ UNCHANGED calls
    BY <1>3 DEF Save
  <2>2. FieldsStand'
    BY <1>1, <1>2, <2>1 DEF FormInv, FieldsStand, Closes
  <2> QED
    BY <1>1, <1>2, <2>1, <2>2, CallsOfSameForm DEF FormInv
<1>4. CASE Save /\ Sent # {}
  <2> DEFINE q == [dto |-> Dto, typed |-> [k \in typed |-> values[k]], base |-> base]
  <2>1. open /\ ~Locked /\ Submit("form", q) /\ UNCHANGED <<open, values, base, typed>>
    BY <1>4 DEF Save, Asked
  <2>2. Fitting(q) /\ NamesTyped(q, page.content)
    BY <2>1, DtoNamesTyped
  <2>3. FormCallsStand'
    <3> HIDE DEF q
    <3> QED
      BY <1>1, <2>1, <2>2, FormAsks
  <2>4. FieldsStand'
    BY <1>1, <1>2, <2>1 DEF FormInv, FieldsStand
  <2> QED
    BY <1>2, <2>3, <2>4 DEF FormInv
<1>5. CASE MarkDone
  <2> DEFINE q == [dto |-> [a |-> Done], typed |-> [a |-> Done], base |-> base]
  <2>1. /\ form = "slider" /\ Submit("form", q)
        /\ values' = [values EXCEPT !["a"] = Done] /\ typed' = typed \cup {"a"}
        /\ UNCHANGED <<open, base>>
    BY <1>5 DEF MarkDone, Asked
  <2>2. /\ form \in Forms /\ FormOf[form].taken = "mount" /\ DOMAIN Against = {"a"} /\ "a" \in Fields
        /\ values \in Rows /\ Done \in Values[form]
    BY <2>1, KnownForm, FormsAre, EditFormsAssumption DEF FormInv, RowsStand, FieldsStand, Fields
  <2>3. /\ DOMAIN q.dto = {"a"} /\ DOMAIN q.typed = {"a"}
        /\ q.dto["a"] = Done /\ q.typed["a"] = Done
    OBVIOUS
  <2>4. Fitting(q) /\ NamesTyped(q, page.content)
    <3> HIDE DEF q
    <3> QED
      BY <2>2, <2>3 DEF Fitting, NamesTyped
  <2>5. FormCallsStand'
    <3> HIDE DEF q
    <3> QED
      BY <1>1, <2>1, <2>4, FormAsks
  <2>6. FieldsStand'
    BY <1>1, <1>2, <2>1, <2>2, RowType DEF FormInv, FieldsStand
  <2> QED
    BY <1>2, <2>5, <2>6 DEF FormInv
<1> QED
  BY <1>3, <1>4, <1>5 DEF Save, MarkDone

\* Writes leave rows.
LEMMA RowsWritten ==
    ASSUME FormInv, Patch \/ OtherEdits
    PROVE  FormInv'
<1>1. UNCHANGED <<page, refresh, owed, form, open, values, base, typed>>
  BY DEF Patch, OtherEdits, Accept, WrittenByOther
<1>2. Rows' = Rows /\ Against' = Against /\ FieldsStand'
  BY <1>1 DEF FormInv, FieldsStand, Rows, Against
<1>3. stored.content \in Rows /\ stored.version \in Int
  BY DEF FormInv, RowsStand, RowSnapshots
<1>4. CASE Patch
  <2> DEFINE dto == calls["form"].request.dto
             row == [k \in Fields |-> IF k \in DOMAIN dto THEN dto[k] ELSE stored.content[k]]
             c == [phase |-> "accepted", version |-> stored.version + 1, own |-> calls["form"].own]
  <2>1. calls["form"].phase = "sent" /\ Accept("form", row)
    BY <1>4 DEF Patch
  <2>2. Fitting(calls["form"].request)
    BY <2>1 DEF FormInv, FormCallsStand
  <2>3. \A k \in Fields : row[k] \in Values[form]
    BY <1>3, <2>2, RowType DEF Fitting
  <2>4. row \in Rows
    BY <2>3 DEF Rows
  <2>5. /\ stored' = [content |-> row, version |-> stored.version + 1]
        /\ calls' = [calls EXCEPT !["form"] = c] /\ c.phase # "sent"
    BY <2>1 DEF Accept
  <2>6. RowsStand'
    <3> HIDE DEF row
    <3> QED
      BY <1>1, <1>2, <1>3, <2>4, <2>5 DEF FormInv, RowsStand, RowSnapshots
  <2>7. FormCallsStand'
    <3> HIDE DEF c
    <3> QED
      BY <1>1, <2>5, FormAnswered
  <2> QED
    BY <1>2, <2>6, <2>7 DEF FormInv
<1>5. CASE OtherEdits
  <2>1. PICK k \in Fields, v \in Values[form] : WrittenByOther([stored.content EXCEPT ![k] = v])
    BY <1>5 DEF OtherEdits
  <2> DEFINE row == [stored.content EXCEPT ![k] = v]
  <2>2. row \in Rows
    BY <1>3, RowType
  <2>3. stored' = [content |-> row, version |-> stored.version + 1] /\ UNCHANGED calls
    BY <2>1 DEF WrittenByOther
  <2>4. RowsStand'
    <3> HIDE DEF row
    <3> QED
      BY <1>1, <1>2, <1>3, <2>2, <2>3 DEF FormInv, RowsStand, RowSnapshots
  <2> QED
    BY <1>1, <1>2, <2>3, <2>4, CallsOfSameForm DEF FormInv
<1> QED
  BY <1>4, <1>5

LEMMA FormHears ==
    ASSUME FormInv, Saved \/ NotSaved
    PROVE  FormInv'
<1>1. CASE Saved
  <2>1. /\ calls' = [calls EXCEPT !["form"] = Idle] /\ refresh' = [refresh EXCEPT !.wanted = TRUE]
        /\ UNCHANGED <<stored, page, form>>
        /\ UNCHANGED <<open, values, base, typed>> \/ Closes
    BY <1>1 DEF Saved, HearAccepted
  <2>2. RowsStand' /\ Against' = Against /\ Rows' = Rows
    BY <2>1 DEF FormInv, RowsStand, RowSnapshots, Rows, Against
  <2>3. FieldsStand'
    <3>1. CASE UNCHANGED <<open, values, base, typed>>
      BY <2>1, <2>2, <3>1 DEF FormInv, FieldsStand
    <3>2. CASE Closes
      BY <2>1, <2>2, <3>2 DEF FormInv, FieldsStand, Closes
    <3> QED
      BY <2>1, <3>1, <3>2
  <2>4. FormCallsStand'
    <3>1. Idle.phase # "sent"
      BY DEF Idle
    <3>2. UNCHANGED form /\ calls' = [calls EXCEPT !["form"] = Idle]
      BY <2>1
    <3> QED
      BY <3>1, <3>2, FormAnswered
  <2> QED
    BY <2>2, <2>3, <2>4 DEF FormInv
<1>2. CASE NotSaved
  <2>1. /\ UNCHANGED <<stored, page, refresh, form, open, values, base, typed>>
        /\ HearFailure("form") \/ Break("form")
    BY <1>2 DEF NotSaved, HearFailure, Break
  <2>2. RowsStand' /\ FieldsStand'
    BY <2>1 DEF FormInv, RowsStand, RowSnapshots, Rows, FieldsStand, Against
  <2>3. FormCallsStand'
    <3> DEFINE broken == [phase |-> "broken", own |-> FALSE]
    <3>1. broken.phase # "sent" /\ Idle.phase # "sent"
      BY DEF Idle
    <3>2. calls' = [calls EXCEPT !["form"] = Idle] \/ calls' = [calls EXCEPT !["form"] = broken]
      BY <2>1 DEF HearFailure, Break
    <3> HIDE DEF broken
    <3> QED
      BY <2>1, <3>1, <3>2, FormAnswered
  <2> QED
    BY <2>2, <2>3 DEF FormInv
<1> QED
  BY <1>1, <1>2

LEMMA FormRendered ==
    ASSUME FormInv, RefreshElsewhere \/ RenderRow \/ LandRow \/ ReloadRow
    PROVE  FormInv'
<1>1. UNCHANGED form /\ Rows' = Rows /\ Against' = Against
  BY DEF RefreshElsewhere, RenderRow, LandRow, ReloadRow, Rows, Against
<1>2. CASE RefreshElsewhere \/ RenderRow \/ LandRow
  <2>1. UNCHANGED <<stored, calls, open, values, base, typed>>
    BY <1>2 DEF RefreshElsewhere, RenderRow, LandRow, Render, Land
  <2>2. RowsStand'
    <3>1. CASE RefreshElsewhere
      BY <1>1, <3>1 DEF RefreshElsewhere, FormInv, RowsStand, RowSnapshots
    <3>2. CASE RenderRow
      BY <1>1, <3>2 DEF RenderRow, Render, FormInv, RowsStand, RowSnapshots
    <3>3. CASE LandRow
      <4>1. refresh.coming # <<>> /\ page' = Head(refresh.coming)
            /\ refresh' = [refresh EXCEPT !.coming = <<>>] /\ UNCHANGED stored
        BY <3>3 DEF LandRow, Land
      <4>2. PICK s \in RowSnapshots : refresh.coming = <<s>>
        BY <4>1 DEF FormInv, RowsStand
      <4> QED
        BY <1>1, <4>1, <4>2 DEF FormInv, RowsStand, RowSnapshots
    <3> QED
      BY <1>2, <3>1, <3>2, <3>3
  <2>3. FieldsStand'
    BY <1>1, <2>1 DEF FormInv, FieldsStand
  <2> QED
    BY <1>1, <2>1, <2>2, <2>3, CallsOfSameForm DEF FormInv
<1>3. CASE ReloadRow
  <2>1. /\ page' = stored /\ refresh' = [wanted |-> FALSE, coming |-> <<>>]
        /\ calls' = [r \in Runners |-> Idle] /\ UNCHANGED stored
        /\ open' = (form = "slider") /\ typed' = {}
        /\ values' = IF FormOf[form].taken = "open" THEN <<>> ELSE page'.content
    BY <1>3 DEF ReloadRow, Reload
  <2>2. RowsStand' /\ page'.content \in Rows
    BY <1>1, <2>1 DEF FormInv, RowsStand, RowSnapshots
  <2>3. FieldsStand'
    <3>1. FormOf[form].taken = "open" => form # "slider"
      BY KnownForm, FormsAre
    <3>2. open' \in BOOLEAN /\ (FormOf[form].taken = "open" => ~open')
      BY <2>1, <3>1
    <3> QED
      BY <1>1, <2>1, <2>2, <3>2 DEF FieldsStand
  <2>4. FormCallsStand'
    BY <2>1 DEF FormCallsStand, Runners, Idle
  <2> QED
    BY <2>2, <2>3, <2>4 DEF FormInv
<1> QED
  BY <1>2, <1>3

\* Every step of a form keeps its invariant.
LEMMA FormKeeps == FormInv /\ FormsNext => FormInv'
<1> SUFFICES ASSUME FormInv, FormsNext PROVE FormInv'
  OBVIOUS
<1>1. CASE Open \/ TypeIn \/ Dismiss
  BY <1>1, DialogKeeps
<1>2. CASE Save \/ MarkDone
  BY <1>2, SavingKeeps
<1>3. CASE Patch \/ OtherEdits
  BY <1>3, RowsWritten
<1>4. CASE Saved \/ NotSaved
  BY <1>4, FormHears
<1>5. CASE RefreshElsewhere \/ RenderRow \/ LandRow \/ ReloadRow
  BY <1>5, FormRendered
<1> QED
  BY <1>1, <1>2, <1>3, <1>4, <1>5 DEF FormsNext

\* Only the API accepts what a form asked.
LEMMA AcceptedByPatch ==
    ASSUME FormInv, FormsNext, calls["form"].phase = "sent", calls'["form"].phase = "accepted"
    PROVE  Patch
<1>1. "form" \in Runners /\ calls = [r \in Runners |-> calls[r]]
  BY DEF FormInv, FormCallsStand, Runners
<1>2. calls' # calls
  OBVIOUS
<1>3. ~(Open \/ TypeIn \/ Dismiss \/ OtherEdits \/ RefreshElsewhere \/ RenderRow \/ LandRow)
  BY <1>2 DEF Open, TypeIn, Dismiss, OtherEdits, WrittenByOther, RefreshElsewhere, RenderRow, LandRow,
     Render, Land, pageVars
<1>4. ~(Save \/ MarkDone)
  <2>1. ASSUME NEW q, Submit("form", q) PROVE FALSE
    BY <2>1 DEF Submit, Pending
  <2>2. ~MarkDone
    BY <2>1 DEF MarkDone, Asked
  <2>3. ~Save
    BY <1>2, <2>1 DEF Save, Asked
  <2> QED
    BY <2>2, <2>3
<1>5. ASSUME NEW c, calls' = [calls EXCEPT !["form"] = c] PROVE calls'["form"] = c
  BY <1>1, <1>5
<1>6. ~(Saved \/ NotSaved)
  <2>1. Idle.phase # "accepted" /\ [phase |-> "broken", own |-> FALSE].phase # "accepted"
    BY DEF Idle
  <2>2. ~Saved
    BY <1>5, <2>1 DEF Saved, HearAccepted
  <2>3. ~NotSaved
    BY <1>5, <2>1 DEF NotSaved, HearFailure, Break
  <2> QED
    BY <2>2, <2>3
<1>7. ~ReloadRow
  BY <1>1 DEF ReloadRow, Reload
<1> QED
  BY <1>3, <1>4, <1>6, <1>7 DEF FormsNext

\* What is accepted then changes what was typed and nothing else.
LEMMA PatchWritesTyped ==
    ASSUME FormInv, Patch
    PROVE  LET q == calls["form"].request
               seen == calls["form"].seen
               Compared(k) == IF form \in Captured THEN q.base[k] ELSE seen[k]
           IN  \A k \in Fields :
                 /\ k \notin DOMAIN q.typed /\ stored'.content[k] # stored.content[k] =>
                      /\ form \notin Captured
                      /\ form = "project" => q.base[k] # seen[k]
                 /\ k \in DOMAIN q.typed => \/ stored'.content[k] = q.typed[k]
                                            \/ q.typed[k] = Compared(k)
<1> DEFINE q == calls["form"].request
           seen == calls["form"].seen
           row == [k \in Fields |-> IF k \in DOMAIN q.dto THEN q.dto[k] ELSE stored.content[k]]
<1>1. calls["form"].phase = "sent" /\ Accept("form", row)
  BY DEF Patch
<1>2. NamesTyped(q, seen)
  BY <1>1 DEF FormInv, FormCallsStand
<1>3. stored'.content = row
  BY <1>1 DEF Accept
<1> HIDE DEF q, seen
<1>4. \A k \in Fields : stored'.content[k] = IF k \in DOMAIN q.dto THEN q.dto[k] ELSE stored.content[k]
  BY <1>3
<1>5. ASSUME NEW k \in Fields, k \notin DOMAIN q.typed, stored'.content[k] # stored.content[k]
      PROVE  form \notin Captured /\ (form = "project" => q.base[k] # seen[k])
  BY <1>2, <1>4, <1>5 DEF NamesTyped
<1>6. ASSUME NEW k \in Fields, k \in DOMAIN q.typed
      PROVE  \/ stored'.content[k] = q.typed[k]
             \/ q.typed[k] = IF form \in Captured THEN q.base[k] ELSE seen[k]
  BY <1>2, <1>4, <1>6 DEF NamesTyped, Compares
<1> QED
  BY <1>5, <1>6 DEF q, seen

-----------------------------------------------------------------------------
(***************************************************************************)
(* The theorems.                                                           *)
(***************************************************************************)
WebInv == (OnList => ListInv) /\ (~OnList => FormInv)

LEMMA WebBegins == Init => WebInv
<1>1. ASSUME SiblingsInit, form = "none" PROVE WebInv
  BY <1>1, ListBegins DEF WebInv, OnList
<1>2. ASSUME FormsInit PROVE WebInv
  <2>1. FormInv
    BY <1>2, FormBegins
  <2> QED
    BY <2>1, KnownForm DEF WebInv, OnList
<1> QED
  BY <1>1, <1>2 DEF Init

LEMMA WebKeeps == WebInv /\ [Next]_webVars => WebInv'
<1> SUFFICES ASSUME WebInv, [Next]_webVars PROVE WebInv'
  OBVIOUS
<1>1. CASE OnList /\ SiblingsNext /\ UNCHANGED formPart
  <2>1. ListInv' /\ OnList'
    BY <1>1, ListKeeps DEF WebInv, OnList, formPart
  <2> QED
    BY <2>1 DEF WebInv
<1>2. CASE ~OnList /\ FormsNext /\ UNCHANGED listPart
  <2>1. FormInv' /\ ~OnList'
    <3>1. FormInv'
      BY <1>2, FormKeeps DEF WebInv
    <3>2. form' = form
      BY <1>2 DEF FormsNext, Open, TypeIn, Dismiss, Save, MarkDone, Patch, OtherEdits, Saved, NotSaved,
         RefreshElsewhere, RenderRow, LandRow, ReloadRow
    <3> QED
      BY <1>2, <3>1, <3>2 DEF OnList
  <2> QED
    BY <2>1 DEF WebInv
<1>3. CASE UNCHANGED webVars
  <2>1. UNCHANGED <<stored, page, refresh, calls, owed, created, control, panel,
                    form, open, values, base, typed>>
    BY <1>3 DEF webVars, pageVars, listPart, formPart
  <2>2. ListInv' = ListInv
    BY <2>1 DEF ListInv, PagesStand, CallsStand, CallStands, DialogsStand, OwnStands
  <2>3. FormInv' = FormInv
    BY <2>1, CallsOfSameForm DEF FormInv, RowsStand, RowSnapshots, Rows, FieldsStand, Against,
       FormCallsStand, Fitting, NamesTyped, Compares
  <2> QED
    BY <2>1, <2>2, <2>3 DEF WebInv, OnList
<1> QED
  BY <1>1, <1>2, <1>3 DEF Next

\* Whatever the others do between a rendering and a submission, a list asks the
\* API only for groups it takes, is refused only when the group changed or when
\* it deletes what it cannot, and proposes weights that can be saved
\* (useWeightedGroup.ts), for groups of any size.
THEOREM ListsAskForGroups == Spec => []ListSound
<1>1. WebInv => ListSound
  BY ListIsSound DEF WebInv, ListSound
<1> QED
  BY WebBegins, WebKeeps, <1>1, PTL DEF Spec

\* An accepted answer closes the weights dialog it was submitted from, and a
\* save changes what its user typed and nothing else, whatever was rendered and
\* written meanwhile (useActionRunner.ts, the forms of features/).
THEOREM WhatIsTypedIsSaved == Spec => TypingIsRespected
<1> DEFINE Closing == calls["weights"].phase = "accepted" /\ calls'["weights"] = Idle
                      /\ control' # control => calls["weights"].own
           Saving == calls["form"].phase = "sent" /\ calls'["form"].phase = "accepted" =>
             LET q == calls["form"].request
                 seen == calls["form"].seen
                 Compared(k) == IF form \in Captured THEN q.base[k] ELSE seen[k]
             IN  \A k \in Fields :
                   /\ k \notin DOMAIN q.typed /\ stored'.content[k] # stored.content[k] =>
                        /\ form \notin Captured
                        /\ form = "project" => q.base[k] # seen[k]
                   /\ k \in DOMAIN q.typed => \/ stored'.content[k] = q.typed[k]
                                              \/ q.typed[k] = Compared(k)
<1>1. WebInv /\ [Next]_webVars => [Closing]_siblingVars
  <2> SUFFICES ASSUME WebInv, [Next]_webVars PROVE [Closing]_siblingVars
    OBVIOUS
  <2>1. CASE OnList /\ SiblingsNext /\ UNCHANGED formPart
    BY <2>1, ListAnswers DEF WebInv
  <2>2. CASE ~OnList /\ FormsNext /\ UNCHANGED listPart
    BY <2>2 DEF listPart
  <2>3. CASE UNCHANGED webVars
    BY <2>3 DEF webVars, listPart, siblingVars, pageVars
  <2> QED
    BY <2>1, <2>2, <2>3 DEF Next
<1>2. WebInv /\ [Next]_webVars => [Saving]_formVars
  <2> SUFFICES ASSUME WebInv, [Next]_webVars PROVE [Saving]_formVars
    OBVIOUS
  <2>1. CASE OnList /\ SiblingsNext /\ UNCHANGED formPart
    <3>1. calls["form"].phase = "idle"
      BY <2>1 DEF WebInv, ListInv, CallsStand, Idle
    <3>2. Saving
      BY <3>1
    <3> QED
      BY <3>2
  <2>2. CASE ~OnList /\ FormsNext /\ UNCHANGED listPart
    <3>1. FormInv
      BY <2>2 DEF WebInv
    <3>2. ASSUME calls["form"].phase = "sent", calls'["form"].phase = "accepted"
          PROVE  Patch
      BY <2>2, <3>1, <3>2, AcceptedByPatch
    <3>3. Saving
      BY <3>1, <3>2, PatchWritesTyped
    <3> QED
      BY <3>3
  <2>3. CASE UNCHANGED webVars
    BY <2>3 DEF webVars, formPart, formVars, pageVars
  <2> QED
    BY <2>1, <2>2, <2>3 DEF Next
<1>3. [][Closing]_siblingVars => AnswersCloseTheirOwn
  BY PTL DEF AnswersCloseTheirOwn
<1>4. [][Saving]_formVars => SavesWriteWhatWasTyped
  BY PTL DEF SavesWriteWhatWasTyped
<1> QED
  BY WebBegins, WebKeeps, <1>1, <1>2, <1>3, <1>4, PTL DEF Spec, TypingIsRespected
=============================================================================
