-------------------------- MODULE OkrDomainProofs --------------------------
(***************************************************************************)
(* What the aggregation of OkrDomain yields, over groups of any size, and  *)
(* the facts about sums over finite sets it rests on (the shares of a      *)
(* weighted group, the points of an unweighted one).                       *)
(*                                                                         *)
(* The sum of the library is a fold that picks the members of the set one  *)
(* by one, so what it yields is shown by induction over the subsets of the *)
(* set: a collection of subsets that holds every T whose smaller subsets   *)
(* it holds is the collection of all of them (SetInduction).               *)
(***************************************************************************)
EXTENDS OkrDomain, FiniteSetTheorems, WellFoundedInduction, TLAPS

\* Induction over the subsets of a finite set.
LEMMA SetInduction ==
    ASSUME NEW S, IsFiniteSet(S), NEW Good \in SUBSET SUBSET S,
           \A T \in SUBSET S :
               (\A U \in SUBSET T : U # T => U \in Good) => T \in Good
    PROVE  \A T \in SUBSET S : T \in Good
<1> SUFFICES ASSUME (SUBSET S) \ Good # {} PROVE FALSE
  OBVIOUS
<1>1. IsWellFoundedOn(StrictSubsetOrdering(S), SUBSET S)
  <2>1. FiniteSubsetsOf(S) = SUBSET S
    BY FS_FiniteSubsetsOfFinite
  <2>2. IsWellFoundedOn(StrictSubsetOrdering(S), FiniteSubsetsOf(S))
    BY FS_StrictSubsetOrderingWellFounded
  <2> QED
    BY <2>1, <2>2
<1>2. PICK T \in (SUBSET S) \ Good :
          \A U \in (SUBSET S) \ Good : <<U, T>> \notin StrictSubsetOrdering(S)
  <2> DEFINE Bad == (SUBSET S) \ Good
  <2>1. Bad \subseteq SUBSET S /\ Bad # {}
    OBVIOUS
  <2> HIDE DEF Bad
  <2>2. \E T \in Bad : \A U \in Bad : <<U, T>> \notin StrictSubsetOrdering(S)
    BY <1>1, <2>1, WFMin
  <2> QED
    BY <2>2 DEF Bad
<1>3. \A U \in SUBSET T : U # T => U \in Good
  BY <1>2 DEF StrictSubsetOrdering
<1> QED
  BY <1>2, <1>3

\* The member the fold picks, and what it leaves.
Member(s) == CHOOSE x \in s : TRUE
Rest(s) == s \ {Member(s)}

\* Picking one leaves a smaller set.
LEMMA AnyOf == ASSUME NEW s, s # {} PROVE Member(s) \in s /\ Rest(s) \subseteq s /\ Rest(s) # s
  BY DEF Member, Rest

\* The function g adds f over each subset of S, as the fold does.
Adds(g, f, S) == g = [s \in SUBSET S |-> IF s = {} THEN 0 ELSE f[Member(s)] + g[Rest(s)]]

\* The value of such a g, unfolded once.
LEMMA AddsAt ==
    ASSUME NEW S, NEW f, NEW g, Adds(g, f, S), NEW s \in SUBSET S
    PROVE  /\ s = {} => g[s] = 0
           /\ s # {} => g[s] = f[Member(s)] + g[Rest(s)]
<1>1. g[s] = IF s = {} THEN 0 ELSE f[Member(s)] + g[Rest(s)]
  BY DEF Adds
<1> QED
  BY <1>1

\* Two of them agree wherever the functions they add agree, so the set a sum is
\* part of does not matter to it.
LEMMA AdditionsAgree ==
    ASSUME NEW U, IsFiniteSet(U), NEW S, NEW T, U \in SUBSET S, U \in SUBSET T,
           NEW e, NEW f, \A x \in U : e[x] = f[x],
           NEW g, Adds(g, e, S), NEW h, Adds(h, f, T)
    PROVE  g[U] = h[U]
<1> DEFINE Good == {V \in SUBSET U : g[V] = h[V]}
<1>1. ASSUME NEW V \in SUBSET U, \A W \in SUBSET V : W # V => W \in Good
      PROVE  V \in Good
  <2>1. CASE V = {}
    BY <2>1, AddsAt
  <2>2. CASE V # {}
    <3>1. Member(V) \in U /\ Rest(V) \in Good
      BY <1>1, <2>2, AnyOf
    <3>2. g[V] = e[Member(V)] + g[Rest(V)] /\ h[V] = f[Member(V)] + h[Rest(V)]
      BY <2>2, AddsAt
    <3> QED
      BY <3>1, <3>2
  <2> QED
    BY <2>1, <2>2
<1>2. Good \in SUBSET SUBSET U
  OBVIOUS
<1> HIDE DEF Good
<1>3. U \in Good
  BY <1>1, <1>2, SetInduction
<1> QED
  BY <1>3 DEF Good

\* There is one over every finite set: what makes the recursion of the fold a
\* definition.
LEMMA AdditionExists ==
    ASSUME NEW S, IsFiniteSet(S), NEW f, \A x \in S : f[x] \in Int
    PROVE  \E g \in [SUBSET S -> Int] : Adds(g, f, S)
<1> DEFINE Good == {T \in SUBSET S : \E g \in [SUBSET T -> Int] : Adds(g, f, T)}
<1>1. ASSUME NEW T \in SUBSET S, \A U \in SUBSET T : U # T => U \in Good
      PROVE  T \in Good
  <2> DEFINE G(U) == CHOOSE g \in [SUBSET U -> Int] : Adds(g, f, U)
             h == [s \in SUBSET T |-> IF s = {} THEN 0 ELSE f[Member(s)] + G(Rest(s))[Rest(s)]]
  <2>1. ASSUME NEW U \in SUBSET T, U # T PROVE G(U) \in [SUBSET U -> Int] /\ Adds(G(U), f, U)
    BY <1>1, <2>1
  <2>2. ASSUME NEW U \in SUBSET T, U # T PROVE h[U] = G(U)[U]
    <3>1. Adds(G(U), f, U)
      BY <2>1, <2>2
    <3>2. CASE U = {}
      <4> HIDE DEF G
      <4> QED
      BY <3>1, <3>2, AddsAt
    <3>3. CASE U # {}
      <4>1. Rest(U) \in SUBSET U /\ Rest(U) \in SUBSET T /\ Rest(U) # T
        BY <2>2, <3>3, AnyOf
      <4>2. Adds(G(Rest(U)), f, Rest(U))
        BY <2>1, <4>1
      <4>3. IsFiniteSet(Rest(U))
        BY <4>1, FS_Subset
      <4>4. G(U)[Rest(U)] = G(Rest(U))[Rest(U)]
        <5> HIDE DEF G
        <5> QED
          BY <3>1, <4>1, <4>2, <4>3, AdditionsAgree
      <4>5. G(U)[U] = f[Member(U)] + G(U)[Rest(U)]
        <5> HIDE DEF G
        <5> QED
          BY <3>1, <3>3, AddsAt
      <4>6. h[U] = f[Member(U)] + G(Rest(U))[Rest(U)]
        <5> HIDE DEF G
        <5> QED
        BY <3>3
      <4> QED
        BY <4>4, <4>5, <4>6
    <3> QED
      BY <3>2, <3>3
  <2>3. h \in [SUBSET T -> Int]
    <3>1. ASSUME NEW s \in SUBSET T, s # {} PROVE f[Member(s)] + G(Rest(s))[Rest(s)] \in Int
      <4>1. Member(s) \in S /\ Rest(s) \in SUBSET T /\ Rest(s) # T
        BY <3>1, AnyOf
      <4>2. G(Rest(s))[Rest(s)] \in Int
        <5>1. G(Rest(s)) \in [SUBSET Rest(s) -> Int]
          BY <2>1, <4>1
        <5> HIDE DEF G
        <5> QED
          BY <5>1
      <4> HIDE DEF G
      <4> QED
        BY <4>1, <4>2
    <3> HIDE DEF G
    <3> QED
      BY <3>1
  <2>4. Adds(h, f, T)
    <3>1. ASSUME NEW s \in SUBSET T, s # {} PROVE h[Rest(s)] = G(Rest(s))[Rest(s)]
      <4>1. Rest(s) \in SUBSET T /\ Rest(s) # T
        BY <3>1, AnyOf
      <4> HIDE DEF h, G
      <4> QED
        BY <2>2, <4>1
    <3>2. \A s \in SUBSET T : (IF s = {} THEN 0 ELSE f[Member(s)] + G(Rest(s))[Rest(s)])
                            = (IF s = {} THEN 0 ELSE f[Member(s)] + h[Rest(s)])
      <4> HIDE DEF h, G
      <4> QED
      BY <3>1
    <3>3. h = [s \in SUBSET T |-> IF s = {} THEN 0 ELSE f[Member(s)] + h[Rest(s)]]
      <4>1. h = [s \in SUBSET T |-> IF s = {} THEN 0 ELSE f[Member(s)] + G(Rest(s))[Rest(s)]]
        OBVIOUS
      <4> HIDE DEF h, G
      <4> QED
      BY <3>2, <4>1
    <3> HIDE DEF h
    <3> QED
      BY <3>3 DEF Adds
  <2> HIDE DEF h
  <2> QED
    BY <2>3, <2>4
<1>2. Good \in SUBSET SUBSET S
  OBVIOUS
<1> HIDE DEF Good
<1>3. S \in Good
  BY <1>1, <1>2, SetInduction
<1> QED
  BY <1>3 DEF Good

\* The library's sum is the value of one.
LEMMA SumIsAddition ==
    ASSUME NEW S, IsFiniteSet(S), NEW f, \A x \in S : f[x] \in Int
    PROVE  \E g \in [SUBSET S -> Int] : Adds(g, f, S) /\ SumFunctionOnSet(f, S) = g[S]
<1> DEFINE g == CHOOSE h : h = [s \in SUBSET S |-> IF s = {} THEN 0
                                   ELSE f[CHOOSE x \in s : TRUE] + h[s \ {CHOOSE x \in s : TRUE}]]
<1>1. SumFunctionOnSet(f, S) = g[S]
  BY DEF SumFunctionOnSet, FoldFunctionOnSet, MapThenFoldSet
<1>2. \E h \in [SUBSET S -> Int] : Adds(h, f, S)
  BY AdditionExists
<1>3. Adds(g, f, S)
  <2>1. \E h : h = [s \in SUBSET S |-> IF s = {} THEN 0
                       ELSE f[CHOOSE x \in s : TRUE] + h[s \ {CHOOSE x \in s : TRUE}]]
    BY <1>2 DEF Adds, Member, Rest
  <2>2. g = [s \in SUBSET S |-> IF s = {} THEN 0
                       ELSE f[CHOOSE x \in s : TRUE] + g[s \ {CHOOSE x \in s : TRUE}]]
    BY <2>1
  <2> HIDE DEF g
  <2> QED
    BY <2>2 DEF Adds, Member, Rest
<1>4. g \in [SUBSET S -> Int]
  <2>1. PICK h \in [SUBSET S -> Int] : Adds(h, f, S)
    BY <1>2
  <2>2. g = [s \in SUBSET S |-> g[s]]
    BY <1>3 DEF Adds
  <2> HIDE DEF g
  <2>3. ASSUME NEW U \in SUBSET S PROVE g[U] = h[U]
    BY <1>3, <2>1, FS_Subset, AdditionsAgree
  <2> QED
    BY <2>1, <2>2, <2>3
<1> HIDE DEF g
<1> QED
  BY <1>1, <1>3, <1>4

-----------------------------------------------------------------------------
\* A sum of integers is an integer.
LEMMA SumType ==
    ASSUME NEW S, IsFiniteSet(S), NEW f, \A x \in S : f[x] \in Int
    PROVE  SumFunctionOnSet(f, S) \in Int
<1>1. PICK g \in [SUBSET S -> Int] : SumFunctionOnSet(f, S) = g[S]
  BY SumIsAddition
<1> QED
  BY <1>1

\* The empty sum.
LEMMA SumOfNone == ASSUME NEW f PROVE SumFunctionOnSet(f, {}) = 0
<1>1. IsFiniteSet({})
  BY FS_EmptySet
<1>2. PICK g \in [SUBSET {} -> Int] : Adds(g, f, {}) /\ SumFunctionOnSet(f, {}) = g[{}]
  BY <1>1, SumIsAddition
<1> QED
  BY <1>2, AddsAt

\* Equal terms, equal sums.
LEMMA SumAgrees ==
    ASSUME NEW S, IsFiniteSet(S), NEW e, NEW f, \A x \in S : e[x] \in Int /\ e[x] = f[x]
    PROVE  SumFunctionOnSet(e, S) = SumFunctionOnSet(f, S)
<1>1. PICK g \in [SUBSET S -> Int] : Adds(g, e, S) /\ SumFunctionOnSet(e, S) = g[S]
  BY SumIsAddition
<1>2. PICK h \in [SUBSET S -> Int] : Adds(h, f, S) /\ SumFunctionOnSet(f, S) = h[S]
  BY SumIsAddition
<1> QED
  BY <1>1, <1>2, AdditionsAgree

\* The first step of the fold.
LEMMA SumOfAny ==
    ASSUME NEW S, IsFiniteSet(S), NEW f, \A x \in S : f[x] \in Int, S # {}
    PROVE  SumFunctionOnSet(f, S) = f[Member(S)] + SumFunctionOnSet(f, Rest(S))
<1>1. PICK g \in [SUBSET S -> Int] : Adds(g, f, S) /\ SumFunctionOnSet(f, S) = g[S]
  BY SumIsAddition
<1>2. Rest(S) \in SUBSET S /\ IsFiniteSet(Rest(S))
  BY AnyOf, FS_Subset
<1>3. PICK h \in [SUBSET Rest(S) -> Int] :
          Adds(h, f, Rest(S)) /\ SumFunctionOnSet(f, Rest(S)) = h[Rest(S)]
  BY <1>2, SumIsAddition
<1>4. g[Rest(S)] = h[Rest(S)]
  BY <1>1, <1>2, <1>3, AdditionsAgree
<1>5. g[S] = f[Member(S)] + g[Rest(S)]
  BY <1>1, AddsAt
<1> QED
  BY <1>1, <1>3, <1>4, <1>5

\* Any member may be taken out, not only the one the fold picks.
LEMMA SumSplits ==
    ASSUME NEW S, IsFiniteSet(S), NEW f, \A x \in S : f[x] \in Int, NEW y \in S
    PROVE  SumFunctionOnSet(f, S) = f[y] + SumFunctionOnSet(f, S \ {y})
<1> DEFINE Good == {T \in SUBSET S :
                      \A x \in T : SumFunctionOnSet(f, T) = f[x] + SumFunctionOnSet(f, T \ {x})}
<1>1. ASSUME NEW T \in SUBSET S, \A U \in SUBSET T : U # T => U \in Good
      PROVE  T \in Good
  <2> SUFFICES ASSUME NEW x \in T
               PROVE  SumFunctionOnSet(f, T) = f[x] + SumFunctionOnSet(f, T \ {x})
    OBVIOUS
  <2> DEFINE a == Member(T)
             Both == T \ {a, x}
  <2>1. /\ a \in T /\ IsFiniteSet(T) /\ IsFiniteSet(T \ {x}) /\ IsFiniteSet(Both)
        /\ T \ {a} = Rest(T)
    BY AnyOf, FS_Subset DEF Rest
  <2>2. SumFunctionOnSet(f, T) = f[a] + SumFunctionOnSet(f, T \ {a})
    BY <2>1, SumOfAny
  <2>3. CASE a = x
    BY <2>2, <2>3
  <2>4. CASE a # x
    <3>1. T \ {a} \in Good /\ T \ {x} \in Good
      BY <1>1, <2>1
    <3>2. x \in T \ {a} /\ a \in T \ {x} /\ (T \ {a}) \ {x} = Both /\ (T \ {x}) \ {a} = Both
      BY <2>1, <2>4
    <3>3. SumFunctionOnSet(f, T \ {a}) = f[x] + SumFunctionOnSet(f, Both)
      BY <3>1, <3>2
    <3>4. SumFunctionOnSet(f, T \ {x}) = f[a] + SumFunctionOnSet(f, Both)
      BY <3>1, <3>2
    <3>5. f[a] \in Int /\ f[x] \in Int /\ SumFunctionOnSet(f, Both) \in Int
      BY <2>1, SumType
    <3> HIDE DEF a, Both
    <3> QED
      BY <2>2, <3>3, <3>4, <3>5
  <2> QED
    BY <2>3, <2>4
<1>2. Good \in SUBSET SUBSET S
  OBVIOUS
<1> HIDE DEF Good
<1>3. S \in Good
  BY <1>1, <1>2, SetInduction
<1> QED
  BY <1>3 DEF Good

\* A new member adds its term.
LEMMA SumGrows ==
    ASSUME NEW S, IsFiniteSet(S), NEW f, NEW y, y \notin S, \A x \in S \cup {y} : f[x] \in Int
    PROVE  SumFunctionOnSet(f, S \cup {y}) = SumFunctionOnSet(f, S) + f[y]
<1>1. IsFiniteSet(S \cup {y}) /\ (S \cup {y}) \ {y} = S
  BY FS_AddElement
<1>2. SumFunctionOnSet(f, S \cup {y}) = f[y] + SumFunctionOnSet(f, S)
  BY <1>1, SumSplits
<1> QED
  BY <1>2, SumType

\* One term of a sum changes.
LEMMA SumChanges ==
    ASSUME NEW S, IsFiniteSet(S), NEW e, NEW f, NEW y \in S,
           \A x \in S : e[x] \in Int /\ f[x] \in Int, \A x \in S \ {y} : e[x] = f[x]
    PROVE  SumFunctionOnSet(f, S) = SumFunctionOnSet(e, S) + f[y] - e[y]
<1>1. IsFiniteSet(S \ {y})
  BY FS_Subset
<1>2. SumFunctionOnSet(e, S) = e[y] + SumFunctionOnSet(e, S \ {y})
  BY SumSplits
<1>3. SumFunctionOnSet(f, S) = f[y] + SumFunctionOnSet(f, S \ {y})
  BY SumSplits
<1>4. SumFunctionOnSet(e, S \ {y}) = SumFunctionOnSet(f, S \ {y}) /\ SumFunctionOnSet(e, S \ {y}) \in Int
  BY <1>1, SumAgrees, SumType
<1> QED
  BY <1>2, <1>3, <1>4

\* Smaller terms, smaller sum.
LEMMA SumIsMonotone ==
    ASSUME NEW S, IsFiniteSet(S), NEW e, NEW f,
           \A x \in S : e[x] \in Int /\ f[x] \in Int /\ e[x] <= f[x]
    PROVE  SumFunctionOnSet(e, S) <= SumFunctionOnSet(f, S)
<1> DEFINE Good == {T \in SUBSET S : SumFunctionOnSet(e, T) <= SumFunctionOnSet(f, T)}
<1>1. ASSUME NEW T \in SUBSET S, \A U \in SUBSET T : U # T => U \in Good
      PROVE  T \in Good
  <2>1. CASE T = {}
    BY <2>1, SumOfNone
  <2>2. CASE T # {}
    <3>1. PICK x \in T : TRUE
      BY <2>2
    <3>2. T \ {x} \in Good /\ IsFiniteSet(T) /\ IsFiniteSet(T \ {x})
      BY <1>1, <3>1, FS_Subset
    <3>3. /\ SumFunctionOnSet(e, T) = e[x] + SumFunctionOnSet(e, T \ {x})
          /\ SumFunctionOnSet(f, T) = f[x] + SumFunctionOnSet(f, T \ {x})
      BY <3>1, <3>2, SumSplits
    <3>4. SumFunctionOnSet(e, T \ {x}) \in Int /\ SumFunctionOnSet(f, T \ {x}) \in Int
      BY <3>2, SumType
    <3> QED
      BY <3>2, <3>3, <3>4
  <2> QED
    BY <2>1, <2>2
<1>2. Good \in SUBSET SUBSET S
  OBVIOUS
<1> HIDE DEF Good
<1>3. S \in Good
  BY <1>1, <1>2, SetInduction
<1> QED
  BY <1>3 DEF Good

\* One strictly smaller term is enough for a strictly smaller sum.
LEMMA SumFallsShort ==
    ASSUME NEW S, IsFiniteSet(S), NEW e, NEW f,
           \A x \in S : e[x] \in Int /\ f[x] \in Int /\ e[x] <= f[x],
           NEW y \in S, e[y] < f[y]
    PROVE  SumFunctionOnSet(e, S) < SumFunctionOnSet(f, S)
<1>1. IsFiniteSet(S \ {y})
  BY FS_RemoveElement
<1>2. SumFunctionOnSet(e, S \ {y}) <= SumFunctionOnSet(f, S \ {y})
  BY <1>1, SumIsMonotone
<1>3. SumFunctionOnSet(e, S \ {y}) \in Int /\ SumFunctionOnSet(f, S \ {y}) \in Int
  BY <1>1, SumType
<1> QED
  BY <1>2, <1>3, SumSplits

\* A common factor comes out of the sum.
LEMMA SumOfScaled ==
    ASSUME NEW S, IsFiniteSet(S), NEW c \in Int, NEW e, NEW f,
           \A x \in S : e[x] \in Int /\ f[x] = c * e[x]
    PROVE  SumFunctionOnSet(f, S) = c * SumFunctionOnSet(e, S)
<1> DEFINE Good == {T \in SUBSET S : SumFunctionOnSet(f, T) = c * SumFunctionOnSet(e, T)}
<1>1. ASSUME NEW T \in SUBSET S, \A U \in SUBSET T : U # T => U \in Good
      PROVE  T \in Good
  <2>1. CASE T = {}
    BY <2>1, SumOfNone
  <2>2. CASE T # {}
    <3>1. PICK x \in T : TRUE
      BY <2>2
    <3>2. T \ {x} \in Good /\ IsFiniteSet(T) /\ IsFiniteSet(T \ {x})
      BY <1>1, <3>1, FS_Subset
    <3>3. /\ SumFunctionOnSet(e, T) = e[x] + SumFunctionOnSet(e, T \ {x})
          /\ SumFunctionOnSet(f, T) = f[x] + SumFunctionOnSet(f, T \ {x})
      BY <3>1, <3>2, SumSplits
    <3>4. /\ SumFunctionOnSet(e, T \ {x}) \in Int /\ e[x] \in Int /\ f[x] = c * e[x]
          /\ SumFunctionOnSet(f, T \ {x}) = c * SumFunctionOnSet(e, T \ {x})
      BY <3>2, SumType
    <3>5. c * (e[x] + SumFunctionOnSet(e, T \ {x})) = c * e[x] + c * SumFunctionOnSet(e, T \ {x})
      BY <3>4
    <3> QED
      BY <3>3, <3>4, <3>5
  <2> QED
    BY <2>1, <2>2
<1>2. Good \in SUBSET SUBSET S
  OBVIOUS
<1> HIDE DEF Good
<1>3. S \in Good
  BY <1>1, <1>2, SetInduction
<1> QED
  BY <1>3 DEF Good

\* Adding one for each member counts them.
LEMMA SumOfOnes ==
    ASSUME NEW S, IsFiniteSet(S), NEW f, \A x \in S : f[x] = 1
    PROVE  SumFunctionOnSet(f, S) = Cardinality(S)
<1> DEFINE Good == {T \in SUBSET S : SumFunctionOnSet(f, T) = Cardinality(T)}
<1>1. ASSUME NEW T \in SUBSET S, \A U \in SUBSET T : U # T => U \in Good
      PROVE  T \in Good
  <2>1. CASE T = {}
    BY <2>1, SumOfNone, FS_EmptySet
  <2>2. CASE T # {}
    <3>1. PICK x \in T : TRUE
      BY <2>2
    <3>2. T \ {x} \in Good /\ IsFiniteSet(T) /\ IsFiniteSet(T \ {x})
      BY <1>1, <3>1, FS_Subset
    <3>3. SumFunctionOnSet(f, T) = f[x] + SumFunctionOnSet(f, T \ {x})
      BY <3>1, <3>2, SumSplits
    <3>4. Cardinality(T) \in Nat /\ Cardinality(T \ {x}) = Cardinality(T) - 1
      BY <3>1, <3>2, FS_CardinalityType, FS_RemoveElement
    <3> QED
      BY <3>2, <3>3, <3>4
  <2> QED
    BY <2>1, <2>2
<1>2. Good \in SUBSET SUBSET S
  OBVIOUS
<1> HIDE DEF Good
<1>3. S \in Good
  BY <1>1, <1>2, SetInduction
<1> QED
  BY <1>3 DEF Good

-----------------------------------------------------------------------------
(***************************************************************************)
(* The aggregation of the code, over groups of any size.                   *)
(***************************************************************************)

\* A truncated quotient reaches q only when the whole is n times q.
LEMMA TruncatedQuotient ==
    ASSUME NEW n \in Nat \ {0}, NEW q \in Nat, NEW a \in Nat
    PROVE  /\ a <= n * q => a \div n \in 0 .. q
           /\ a = n * q => a \div n = q
           /\ a < n * q => a \div n < q
<1>1. a \div n \in Nat /\ n * (a \div n) <= a /\ a < n * (a \div n) + n
  OBVIOUS
<1> DEFINE d == a \div n
<1> HIDE DEF d
<1>2. d \in Nat /\ n * d <= a /\ a < n * d + n
  BY <1>1 DEF d
<1>3. ASSUME a <= n * q PROVE d <= q
  <2> SUFFICES ASSUME d >= q + 1 PROVE FALSE
    BY <1>2
  <2>1. n * d >= n * (q + 1)
    BY <1>2
  <2>2. n * (q + 1) = n * q + n
    OBVIOUS
  <2> QED
    BY <1>2, <1>3, <2>1, <2>2
<1>4. ASSUME a = n * q PROVE d = q
  <2> SUFFICES ASSUME d <= q - 1 PROVE FALSE
    BY <1>2, <1>3, <1>4
  <2>1. n * (d + 1) <= n * q
    BY <1>2
  <2>2. n * (d + 1) = n * d + n
    BY <1>2
  <2> QED
    BY <1>2, <1>4, <2>1, <2>2
<1>5. ASSUME a < n * q PROVE d < q
  <2> SUFFICES ASSUME d >= q PROVE FALSE
    BY <1>2
  <2>1. n * d >= n * q
    BY <1>2
  <2> QED
    BY <1>2, <1>5, <2>1
<1> QED
  BY <1>2, <1>3, <1>4, <1>5 DEF d

\* aggregateProgressBp of a valid group is a progress, zero when no member has
\* any, and one hundred percent exactly when every member that weighs is
\* complete: neither truncation nor a weight of zero can make it up or hide it.
\* It is what makes the ProgressOfAssumption of ExecutionCascade true of it.
THEOREM AggregateIsExact ==
    ASSUME NEW S, IsFiniteSet(S), NEW g \in [S -> [weight : Weight, progress : Progress]],
           ValidWeightGroup([x \in S |-> g[x].weight])
    PROVE  /\ AggregateProgressBp(g) \in Progress
           /\ (\A x \in S : g[x].progress = 0) => AggregateProgressBp(g) = 0
           /\ AggregateProgressBp(g) = FullBp <=> CompleteGroup(g)
<1> DEFINE weights == [x \in S |-> g[x].weight]
           points == [x \in S |-> g[x].progress]
           shares == [x \in S |-> g[x].weight * g[x].progress]
<1>1. DOMAIN g = S /\ \A x \in S : g[x].weight \in Weight /\ g[x].progress \in 0 .. FullBp
  BY DEF Progress
<1>2. FullBp \in Nat \ {0} /\ FullBp \in Progress /\ 0 \in Progress
  BY FullBpAssumption DEF Progress
<1>3. CASE S = {}
  BY <1>1, <1>2, <1>3 DEF AggregateProgressBp, CompleteGroup
<1>4. CASE S # {} /\ WeightMode(weights) = "unweighted"
  <2> DEFINE n == Cardinality(S)
             total == SumFunctionOnSet(points, S)
             full == [x \in S |-> FullBp]
             ones == [x \in S |-> 1]
  <2>1. AggregateProgressBp(g) = total \div n
    BY <1>1, <1>4, Zenon DEF AggregateProgressBp, SumFunction
  <2>2. n \in Nat \ {0}
    BY <1>4, FS_CardinalityType, FS_EmptySet
  <2>3. SumFunctionOnSet(full, S) = n * FullBp
    <3>1. SumFunctionOnSet(ones, S) = n
      BY SumOfOnes
    <3>2. SumFunctionOnSet(full, S) = FullBp * SumFunctionOnSet(ones, S)
      BY <1>2, SumOfScaled
    <3> QED
      BY <1>2, <2>2, <3>1, <3>2
  <2>4. total \in Nat /\ total <= n * FullBp
    <3> DEFINE none == [x \in S |-> 0]
    <3>1. SumFunctionOnSet(none, S) = 0 * SumFunctionOnSet(ones, S)
      BY SumOfScaled
    <3>2. SumFunctionOnSet(none, S) <= total
      BY <1>1, SumIsMonotone
    <3>3. total <= SumFunctionOnSet(full, S)
      BY <1>1, <1>2, SumIsMonotone
    <3>4. total \in Int /\ SumFunctionOnSet(ones, S) \in Int
      BY <1>1, SumType
    <3> QED
      BY <2>3, <3>1, <3>2, <3>3, <3>4
  <2>5. ASSUME \A x \in S : g[x].progress = FullBp PROVE total = n * FullBp
    BY <2>3, <2>5, <1>1, SumAgrees
  <2>6. ASSUME NEW x \in S, g[x].progress # FullBp PROVE total < n * FullBp
    BY <2>3, <2>6, <1>1, <1>2, SumFallsShort
  <2>7. ASSUME \A x \in S : g[x].progress = 0 PROVE total = n * 0
    <3>1. total = 0 * SumFunctionOnSet(ones, S)
      BY <2>7, SumOfScaled
    <3> QED
      BY <2>2, <3>1, SumType
  <2>8. CompleteGroup(g) <=> \A x \in S : g[x].progress = FullBp
    <3>1. \A x \in S : g[x].weight = NoWeight
      BY <1>4 DEF WeightMode
    <3> QED
      BY <1>1, <1>4, <3>1, NoWeightAssumption DEF CompleteGroup
  <2> DEFINE d == total \div n
  <2> HIDE DEF total, n
  <2>9. /\ d \in Progress
        /\ total = n * FullBp => d = FullBp
        /\ total < n * FullBp => d # FullBp
    <3>1. FullBp \in Nat /\ total \in Nat /\ total <= n * FullBp
      BY <1>2, <2>4
    <3>2. /\ d \in 0 .. FullBp
          /\ total = n * FullBp => d = FullBp
          /\ total < n * FullBp => d < FullBp
      BY <2>2, <3>1, TruncatedQuotient
    <3> HIDE DEF d
    <3> QED
      BY <3>1, <3>2 DEF Progress
  <2>10. total = n * 0 => d = 0
    BY <2>2, <2>4, TruncatedQuotient
  <2> HIDE DEF d
  <2>11. AggregateProgressBp(g) = d
    BY <2>1 DEF d
  <2> QED
    BY <2>5, <2>6, <2>7, <2>8, <2>9, <2>10, <2>11
<1>5. CASE S # {} /\ WeightMode(weights) # "unweighted"
  <2> DEFINE total == SumFunctionOnSet(shares, S)
             full == [x \in S |-> FullBp * g[x].weight]
  <2>1. AggregateProgressBp(g) = total \div FullBp
    BY <1>1, <1>5, Zenon DEF AggregateProgressBp, SumFunction
  <2>2. /\ \A x \in S : g[x].weight \in 0 .. FullBp
        /\ SumFunctionOnSet(weights, S) = FullBp
    BY <1>1, <1>5 DEF ValidWeightGroup, WeightMode, Weight, SumFunction
  <2>3. SumFunctionOnSet(full, S) = FullBp * FullBp
    <3>1. \A x \in S : weights[x] \in Int /\ full[x] = FullBp * weights[x]
      BY <1>2, <2>2
    <3>2. FullBp \in Int
      BY <1>2
    <3> HIDE DEF weights, full
    <3>3. SumFunctionOnSet(full, S) = FullBp * SumFunctionOnSet(weights, S)
      BY <3>1, <3>2, SumOfScaled
    <3> QED
      BY <2>2, <3>3
  <2>4. ASSUME NEW x \in S
        PROVE  /\ shares[x] \in Nat /\ full[x] \in Nat /\ shares[x] <= full[x]
               /\ g[x].weight = 0 \/ g[x].progress = FullBp => shares[x] = full[x]
               /\ ~(g[x].weight = 0 \/ g[x].progress = FullBp) => shares[x] < full[x]
               /\ g[x].progress = 0 => shares[x] = 0
    <3> DEFINE w == g[x].weight
               p == g[x].progress
    <3>1. w \in 0 .. FullBp /\ p \in 0 .. FullBp
      BY <1>1, <2>2
    <3> HIDE DEF w, p
    <3>2. /\ w * p \in Nat /\ FullBp * w \in Nat /\ w * p <= FullBp * w
          /\ w = 0 \/ p = FullBp => w * p = FullBp * w
          /\ ~(w = 0 \/ p = FullBp) => w * p < FullBp * w
          /\ p = 0 => w * p = 0
      BY <1>2, <3>1
    <3> QED
      BY <3>2 DEF w, p
  <2>5. total \in Nat /\ total <= FullBp * FullBp
    <3> DEFINE none == [x \in S |-> 0]
    <3>1. SumFunctionOnSet(none, S) = 0 * SumFunctionOnSet(full, S)
      BY <2>4, SumOfScaled
    <3>2. SumFunctionOnSet(none, S) <= total
      BY <2>4, SumIsMonotone
    <3>3. total <= SumFunctionOnSet(full, S)
      BY <2>4, SumIsMonotone
    <3>4. total \in Int /\ SumFunctionOnSet(full, S) \in Int
      BY <2>4, SumType
    <3> QED
      BY <2>3, <3>1, <3>2, <3>3, <3>4
  <2>6. ASSUME CompleteGroup(g) PROVE total = FullBp * FullBp
    <3>1. \A x \in S : shares[x] = full[x]
      BY <1>1, <2>4, <2>6 DEF CompleteGroup
    <3> QED
      BY <2>3, <2>4, <3>1, SumAgrees
  <2>7. ASSUME ~CompleteGroup(g) PROVE total < FullBp * FullBp
    <3>1. PICK x \in S : shares[x] < full[x]
      BY <1>1, <1>5, <2>4, <2>7 DEF CompleteGroup
    <3> QED
      BY <2>3, <2>4, <3>1, SumFallsShort
  <2>8. ASSUME \A x \in S : g[x].progress = 0 PROVE total = FullBp * 0
    <3>1. \A x \in S : shares[x] = 0 * full[x]
      BY <2>4, <2>8
    <3>2. total = 0 * SumFunctionOnSet(full, S)
      BY <2>4, <3>1, SumOfScaled
    <3> QED
      BY <1>2, <2>4, <3>2, SumType
  <2> DEFINE d == total \div FullBp
  <2> HIDE DEF total
  <2>9. /\ d \in Progress
        /\ total = FullBp * FullBp => d = FullBp
        /\ total < FullBp * FullBp => d # FullBp
    <3>1. FullBp \in Nat /\ total \in Nat /\ total <= FullBp * FullBp
      BY <1>2, <2>5
    <3>2. /\ d \in 0 .. FullBp
          /\ total = FullBp * FullBp => d = FullBp
          /\ total < FullBp * FullBp => d < FullBp
      BY <1>2, <3>1, TruncatedQuotient
    <3> HIDE DEF d
    <3> QED
      BY <3>1, <3>2 DEF Progress
  <2>10. total = FullBp * 0 => d = 0
    BY <1>2, <2>5, TruncatedQuotient
  <2> HIDE DEF d
  <2>11. AggregateProgressBp(g) = d
    BY <2>1 DEF d
  <2> QED
    BY <2>6, <2>7, <2>8, <2>9, <2>10, <2>11
<1> QED
  BY <1>3, <1>4, <1>5
=============================================================================
