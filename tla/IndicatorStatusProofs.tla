----------------------- MODULE IndicatorStatusProofs -----------------------
(***************************************************************************)
(* Proofs about IndicatorStatus, for any calendar, plans, loads, values    *)
(* and instants: the buckets of a period are the days of the calendar and  *)
(* those that are overdue are asked for, every curve gets to its target or *)
(* a warning says that it does not, the readings that are computed apart   *)
(* agree, and a load settles its own bucket and no other.                  *)
(*                                                                         *)
(* The state keeps little: the invariant is that a plan stays one of Plans *)
(* but for an end that may come earlier, and that loads and progress are   *)
(* of their types.  The rest is about the operators of MetricsCalendar,    *)
(* MetricsDomain and PlanningDomain.                                       *)
(***************************************************************************)
EXTENDS IndicatorStatus, OkrDomainProofs

(* Days, and the first and last of a set of them. *)

\* What a division leaves.
LEMMA Division ==
    ASSUME NEW n \in Nat \ {0}, NEW a \in Nat
    PROVE  a \div n \in Nat /\ n * (a \div n) <= a /\ a < n * (a \div n) + n
OBVIOUS

\* A multiple of what is more is more.
LEMMA Multiples ==
    ASSUME NEW n \in Nat \ {0}, NEW a \in Int, NEW b \in Int
    PROVE  /\ n * a \in Int /\ n * b \in Int
           /\ a < b => n * a + n <= n * b
           /\ a <= b => n * a <= n * b
<1>1. PICK c \in Int : b = a + c
  <2>1. b - a \in Int /\ b = a + (b - a)
    OBVIOUS
  <2> QED
    BY <2>1
<1>2. n * b = n * a + n * c
  BY <1>1
<1>3. c >= 0 => n * c >= 0
  OBVIOUS
<1>4. c >= 1 => n * c >= n
  OBVIOUS
<1> QED
  BY <1>1, <1>2, <1>3, <1>4

\* The day of an instant, and the instant a day begins.
LEMMA DaysAndInstants ==
    ASSUME NEW x \in Nat, NEW d \in Nat
    PROVE  /\ Day(x) \in Nat /\ Midnight(d) \in Nat
           /\ d <= Day(x) <=> Midnight(d) <= x
           /\ Day(Midnight(d)) = d
<1>1. DayLength \in Nat \ {0}
  BY CalendarAssumption
<1>2. \A y \in Nat : Day(y) \in Nat /\ DayLength * Day(y) <= y /\ y < DayLength * Day(y) + DayLength
  BY <1>1, Division DEF Day
<1>3. Midnight(d) = DayLength * d /\ Midnight(d) \in Nat
  BY <1>1 DEF Midnight
<1>4. d <= Day(x) => Midnight(d) <= x
  <2> DEFINE e == Day(x)
  <2>1. e \in Int /\ DayLength * e <= x /\ DayLength * e \in Int
    BY <1>1, <1>2
  <2> HIDE DEF e
  <2>2. d <= e => DayLength * d <= DayLength * e
    BY <1>1, <2>1, Multiples
  <2>3. d <= e => Midnight(d) <= x
    BY <1>1, <1>3, <2>1, <2>2
  <2> QED
    BY <2>3 DEF e
<1>5. ~(d <= Day(x)) => Midnight(d) > x
  <2>1. Day(x) < d => DayLength * Day(x) + DayLength <= DayLength * d
    BY <1>1, <1>2, Multiples
  <2> QED
    BY <1>1, <1>2, <1>3, <2>1
<1>6. Day(Midnight(d)) = d
  <2> DEFINE m == Midnight(d)
             e == Day(m)
  <2>1. e \in Nat /\ DayLength * e <= DayLength * d /\ DayLength * d < DayLength * e + DayLength
    BY <1>2, <1>3
  <2>2. e < d => DayLength * e + DayLength <= DayLength * d
    BY <1>1, <2>1, Multiples
  <2>3. d < e => DayLength * d + DayLength <= DayLength * e
    BY <1>1, <2>1, Multiples
  <2> HIDE DEF e
  <2>4. DayLength * d \in Nat /\ DayLength * e \in Nat
    BY <1>1, <2>1
  <2>5. e = d
    BY <1>1, <2>1, <2>2, <2>3, <2>4
  <2> QED
    BY <2>5 DEF e
<1> QED
  BY <1>1, <1>2, <1>3, <1>4, <1>5, <1>6

\* A later instant is of no earlier day.
LEMMA DaysPass == ASSUME NEW x \in Nat, NEW y \in Nat, x <= y PROVE Day(x) <= Day(y)
<1>1. Day(x) \in Nat /\ Day(y) \in Nat
  BY DaysAndInstants
<1>2. Midnight(Day(x)) <= x /\ Midnight(Day(x)) \in Nat
  BY <1>1, DaysAndInstants
<1>3. Midnight(Day(x)) <= y
  BY <1>2
<1> QED
  BY <1>1, <1>3, DaysAndInstants

\* A finite set of numbers has a first and a last one.
LEMMA HasLatest ==
    ASSUME NEW S, IsFiniteSet(S), S \subseteq Int, S # {}
    PROVE  Latest(S) \in S /\ \A x \in S : x <= Latest(S)
<1> DEFINE Good == {T \in SUBSET S : T # {} => \E d \in T : \A x \in T : x <= d}
<1>1. ASSUME NEW T \in SUBSET S, \A U \in SUBSET T : U # T => U \in Good
      PROVE  T \in Good
  <2>1. CASE T = {}
    BY <2>1
  <2>2. ASSUME NEW y \in T PROVE T \in Good
    <3>1. T \ {y} \in Good
      BY <1>1, <2>2
    <3>2. CASE T \ {y} = {}
      <4>1. \A x \in T : x <= y
        BY <2>2, <3>2
      <4> QED
        BY <4>1, <2>2
    <3>3. CASE T \ {y} # {}
      <4>1. PICK d \in T \ {y} : \A x \in T \ {y} : x <= d
        BY <3>1, <3>3
      <4>2. CASE d <= y
        <5>1. \A x \in T : x <= y
          BY <4>1, <4>2
        <5> QED
          BY <5>1, <2>2
      <4>3. CASE ~(d <= y)
        <5>1. \A x \in T : x <= d
          BY <4>1, <4>3
        <5> QED
          BY <5>1, <4>1
      <4> QED
        BY <4>2, <4>3
    <3> QED
      BY <3>2, <3>3
  <2> QED
    BY <2>1, <2>2
<1>2. \A T \in SUBSET S : T \in Good
  <2> HIDE DEF Good
  <2>1. Good \in SUBSET SUBSET S
    BY DEF Good
  <2> QED
    BY <1>1, <2>1, SetInduction
<1>3. \E d \in S : \A x \in S : x <= d
  BY <1>2
<1> QED
  BY <1>3 DEF Latest

LEMMA HasEarliest ==
    ASSUME NEW S, IsFiniteSet(S), S \subseteq Int, S # {}
    PROVE  Earliest(S) \in S /\ \A x \in S : Earliest(S) <= x
<1> DEFINE Good == {T \in SUBSET S : T # {} => \E d \in T : \A x \in T : d <= x}
<1>1. ASSUME NEW T \in SUBSET S, \A U \in SUBSET T : U # T => U \in Good
      PROVE  T \in Good
  <2>1. CASE T = {}
    BY <2>1
  <2>2. ASSUME NEW y \in T PROVE T \in Good
    <3>1. T \ {y} \in Good
      BY <1>1, <2>2
    <3>2. CASE T \ {y} = {}
      <4>1. \A x \in T : y <= x
        BY <2>2, <3>2
      <4> QED
        BY <4>1, <2>2
    <3>3. CASE T \ {y} # {}
      <4>1. PICK d \in T \ {y} : \A x \in T \ {y} : d <= x
        BY <3>1, <3>3
      <4>2. CASE y <= d
        <5>1. \A x \in T : y <= x
          BY <4>1, <4>2
        <5> QED
          BY <5>1, <2>2
      <4>3. CASE ~(y <= d)
        <5>1. \A x \in T : d <= x
          BY <4>1, <4>3
        <5> QED
          BY <5>1, <4>1
      <4> QED
        BY <4>2, <4>3
    <3> QED
      BY <3>2, <3>3
  <2> QED
    BY <2>1, <2>2
<1>2. \A T \in SUBSET S : T \in Good
  <2> HIDE DEF Good
  <2>1. Good \in SUBSET SUBSET S
    BY DEF Good
  <2> QED
    BY <1>1, <2>1, SetInduction
<1>3. \E d \in S : \A x \in S : d <= x
  BY <1>2
<1> QED
  BY <1>3 DEF Earliest

-----------------------------------------------------------------------------
(* The calendar: NextBoundary finds the next day a bucket starts. *)

\* Months begin one after another, more than twenty days apart.
LEMMA MonthsGrow ==
    ASSUME NEW i \in DOMAIN MonthStart, NEW j \in DOMAIN MonthStart, i < j
    PROVE  MonthStart[i] + 20 < MonthStart[j]
<1>1. PICK n \in Nat : DOMAIN MonthStart = 0..n
  BY CalendarAssumption
<1> DEFINE Bad == {k \in 0..n : i < k /\ ~(MonthStart[i] + 20 < MonthStart[k])}
<1>2. SUFFICES ASSUME Bad # {} PROVE FALSE
  BY <1>1
<1>3. IsFiniteSet(Bad) /\ Bad \subseteq Int
  <2>1. IsFiniteSet(0..n) /\ Bad \subseteq 0..n
    BY <1>1, FS_Interval
  <2> QED
    BY <2>1, FS_Subset
<1>4. PICK k \in Bad : \A x \in Bad : k <= x
  <2> HIDE DEF Bad
  <2> QED
    BY <1>2, <1>3, HasEarliest
<1>5. k \in 1..n /\ k - 1 \in 0..n /\ i <= k - 1 /\ i \in 0..n
  BY <1>1
<1>6. MonthStart[k - 1] + 20 < MonthStart[k] /\ MonthStart[k - 1] \in Nat /\ MonthStart[k] \in Nat
      /\ MonthStart[i] \in Nat
  <2>1. \A x \in 0..n : MonthStart[x] \in Nat
    BY <1>1, CalendarAssumption
  <2>2. \A x \in (0..n) \ {0} : MonthStart[x - 1] + 20 < MonthStart[x]
    BY <1>1, CalendarAssumption
  <2>3. k \in (0..n) \ {0}
    BY <1>5
  <2> QED
    BY <1>5, <2>1, <2>2, <2>3
<1>7. k - 1 \notin Bad
  BY <1>4, <1>5
<1>8. i < k - 1 => MonthStart[i] + 20 < MonthStart[k - 1]
  BY <1>5, <1>7
<1>9. MonthStart[i] + 20 < MonthStart[k]
  BY <1>5, <1>6, <1>8
<1> QED
  BY <1>9, <1>4

\* The month of a day of the calendar.
LEMMA MonthOfADay ==
    ASSUME NEW day \in Nat, NEW J \in DOMAIN MonthStart, day < MonthStart[J]
    PROVE  /\ Month(day) \in DOMAIN MonthStart /\ Month(day) + 1 \in DOMAIN MonthStart
           /\ Month(day) \in Nat /\ J \in Nat /\ Month(day) < J
           /\ MonthStart[Month(day)] <= day /\ day < MonthStart[Month(day) + 1]
<1>1. PICK n \in Nat : DOMAIN MonthStart = 0..n
  BY CalendarAssumption
<1> DEFINE Begun == {k \in 0..n : MonthStart[k] <= day}
<1>2. 0 \in Begun
  BY <1>1, CalendarAssumption
<1>3. IsFiniteSet(Begun) /\ Begun \subseteq Int
  <2>1. IsFiniteSet(0..n) /\ Begun \subseteq 0..n
    BY <1>1, FS_Interval
  <2> QED
    BY <2>1, FS_Subset
<1>4. PICK k \in Begun : \A x \in Begun : x <= k
  <2> HIDE DEF Begun
  <2> QED
    BY <1>2, <1>3, HasLatest
<1>5. MonthStart[k] <= day /\ (k + 1 \in DOMAIN MonthStart => day < MonthStart[k + 1])
  <2> SUFFICES ASSUME k + 1 \in DOMAIN MonthStart PROVE day < MonthStart[k + 1]
    OBVIOUS
  <2>1. k + 1 \notin Begun /\ k + 1 \in 0..n
    BY <1>1, <1>4
  <2>2. MonthStart[k + 1] \in Nat
    BY <1>1, <2>1, CalendarAssumption
  <2> QED
    BY <2>1, <2>2
<1> DEFINE m == Month(day)
<1>6. m \in DOMAIN MonthStart /\ MonthStart[m] <= day
      /\ (m + 1 \in DOMAIN MonthStart => day < MonthStart[m + 1])
  <2>1. k \in DOMAIN MonthStart
    BY <1>1
  <2> QED
    BY <1>5, <2>1 DEF Month
<1> HIDE DEF m
<1>7. m < J
  <2> SUFFICES ASSUME J < m PROVE FALSE
    <3>1. m \in Int /\ J \in Int /\ MonthStart[J] \in Nat
      BY <1>1, <1>6, CalendarAssumption
    <3>2. m # J
      BY <1>6, <3>1
    <3> QED
      BY <3>1, <3>2
  <2>1. MonthStart[J] + 20 < MonthStart[m]
    BY <1>6, MonthsGrow
  <2>2. MonthStart[J] \in Nat /\ MonthStart[m] \in Nat
    BY <1>6, CalendarAssumption
  <2> QED
    BY <1>6, <2>1, <2>2
<1>8. m + 1 \in DOMAIN MonthStart
  BY <1>1, <1>6, <1>7
<1> QED
  BY <1>1, <1>6, <1>7, <1>8 DEF m

\* A day between the beginnings of two months is of the first.
LEMMA MonthBetween ==
    ASSUME NEW day \in Nat, NEW k \in DOMAIN MonthStart, k + 1 \in DOMAIN MonthStart,
           MonthStart[k] <= day, day < MonthStart[k + 1]
    PROVE  Month(day) = k
<1> DEFINE m == Month(day)
<1>1. m \in DOMAIN MonthStart /\ m + 1 \in DOMAIN MonthStart /\ m \in Nat /\ m < k + 1 /\ k \in Nat
      /\ MonthStart[m] <= day /\ day < MonthStart[m + 1]
  <2>1. k \in Nat
    BY CalendarAssumption
  <2> QED
    BY <2>1, MonthOfADay
<1> HIDE DEF m
<1>2. SUFFICES ASSUME m < k PROVE FALSE
  BY <1>1 DEF m
<1>3. MonthStart[m + 1] \in Nat /\ MonthStart[k] \in Nat
  BY <1>1, CalendarAssumption
<1>4. m + 1 < k => MonthStart[m + 1] + 20 < MonthStart[k]
  BY <1>1, MonthsGrow
<1> QED
  BY <1>1, <1>2, <1>3, <1>4

\* By the week.
LEMMA NextMondayIsNext ==
    ASSUME NEW day \in Nat
    PROVE  /\ NextMonday(day) \in Nat /\ day < NextMonday(day)
           /\ Weekday(NextMonday(day)) = 1
           /\ \A d \in Nat : day < d /\ d < NextMonday(day) => Weekday(d) # 1
<1>1. FirstWeekday \in 0..6
  BY CalendarAssumption
<1> DEFINE w == (day + FirstWeekday) % 7
           k == IF (8 - w) % 7 = 0 THEN 7 ELSE (8 - w) % 7
<1>2. w \in 0..6
  BY <1>1
<1>3. k \in 1..7 /\ (w + k) % 7 = 1 /\ \A x \in 1..6 : x < k => (w + x) % 7 # 1
  <2> HIDE DEF w
  <2> QED
    BY <1>2
<1>4. NextMonday(day) = day + k
  BY <1>1 DEF NextMonday, Weekday
<1>5. \A x \in 0..7 : Weekday(day + x) = (w + x) % 7
  BY <1>1 DEF Weekday
<1> HIDE DEF w, k
<1>6. \A d \in Nat : day < d /\ d < day + k => Weekday(d) # 1
  <2> SUFFICES ASSUME NEW d \in Nat, day < d, d < day + k PROVE Weekday(d) # 1
    OBVIOUS
  <2>1. d - day \in 1..6 /\ d - day < k /\ d = day + (d - day)
    BY <1>3
  <2> QED
    BY <1>3, <1>5, <2>1
<1> QED
  BY <1>3, <1>4, <1>5, <1>6

\* The day a month begins is its first.
LEMMA FirstOfTheMonth ==
    ASSUME NEW J \in DOMAIN MonthStart, NEW k \in DOMAIN MonthStart, MonthStart[k] < MonthStart[J]
    PROVE  Month(MonthStart[k]) = k /\ DayOfMonth(MonthStart[k]) = 1
<1>1. PICK n \in Nat : DOMAIN MonthStart = 0..n
  BY CalendarAssumption
<1>2. MonthStart[k] \in Nat /\ MonthStart[J] \in Nat
  BY CalendarAssumption
<1>3. k < J
  <2> SUFFICES ASSUME J < k PROVE FALSE
    BY <1>1, <1>2
  <2>1. MonthStart[J] + 20 < MonthStart[k]
    BY MonthsGrow
  <2> QED
    BY <1>2, <2>1
<1>4. k + 1 \in DOMAIN MonthStart
  BY <1>1, <1>3
<1>5. MonthStart[k] + 20 < MonthStart[k + 1] /\ MonthStart[k + 1] \in Nat
  <2>1. k < k + 1
    BY <1>1
  <2> QED
    BY <1>4, <2>1, MonthsGrow, CalendarAssumption
<1>6. Month(MonthStart[k]) = k
  BY <1>2, <1>4, <1>5, MonthBetween
<1> QED
  BY <1>2, <1>6 DEF DayOfMonth

\* By the half month.
LEMMA NextHalfIsNext ==
    ASSUME NEW J \in DOMAIN MonthStart, NEW day \in Nat, day < MonthStart[J]
    PROVE  LET next == NextBoundary(day, "biweekly")
           IN  /\ next \in Nat /\ day < next
               /\ next < MonthStart[J] => StartsOn("biweekly", next)
               /\ \A d \in Nat : day < d /\ d < next => ~StartsOn("biweekly", d)
<1> DEFINE M == Month(day)
           s == MonthStart[M]
           e == MonthStart[M + 1]
           next == NextBoundary(day, "biweekly")
<1>1. /\ M \in DOMAIN MonthStart /\ M + 1 \in DOMAIN MonthStart /\ M \in Nat
      /\ s \in Nat /\ e \in Nat /\ s <= day /\ day < e /\ s + 20 < e
  <2>1. /\ M \in DOMAIN MonthStart /\ M + 1 \in DOMAIN MonthStart /\ M \in Nat
        /\ s <= day /\ day < e
    BY MonthOfADay
  <2>2. s \in Nat /\ e \in Nat
    BY <2>1, CalendarAssumption
  <2>3. M < M + 1
    BY <2>1
  <2> QED
    BY <2>1, <2>2, <2>3, MonthsGrow
<1>2. DayOfMonth(day) = day - s + 1
  BY DEF DayOfMonth
<1>3. \A d \in Nat : s <= d /\ d < e => Month(d) = M /\ DayOfMonth(d) = d - s + 1
  <2> SUFFICES ASSUME NEW d \in Nat, s <= d, d < e PROVE Month(d) = M
    BY DEF DayOfMonth
  <2> QED
    BY <1>1, MonthBetween
<1>4. \A d : StartsOn("biweekly", d) <=> DayOfMonth(d) \in {1, 16}
  BY DEF StartsOn
<1>5. next = IF DayOfMonth(day) < 16 THEN s + 15 ELSE e
  BY DEF NextBoundary
<1>6. e < MonthStart[J] => DayOfMonth(e) = 1
  BY <1>1, FirstOfTheMonth
<1> HIDE DEF next, s, e, M
<1>7. CASE day - s + 1 < 16
  <2>1. next = s + 15
    BY <1>2, <1>5, <1>7
  <2>2. StartsOn("biweekly", next)
    <3>1. DayOfMonth(next) = 16
      BY <1>1, <1>3, <2>1
    <3> QED
      BY <1>4, <3>1
  <2>3. ASSUME NEW d \in Nat, day < d, d < next PROVE ~StartsOn("biweekly", d)
    <3>1. DayOfMonth(d) = d - s + 1 /\ d - s + 1 \in 2..15
      BY <1>1, <1>3, <2>1, <2>3
    <3> QED
      BY <1>4, <3>1
  <2> QED
    BY <1>1, <1>7, <2>1, <2>2, <2>3 DEF next
<1>8. CASE ~(day - s + 1 < 16)
  <2>1. next = e
    BY <1>2, <1>5, <1>8
  <2>2. ASSUME NEW d \in Nat, day < d, d < next PROVE ~StartsOn("biweekly", d)
    <3>1. DayOfMonth(d) = d - s + 1 /\ d - s + 1 > 16 /\ d - s + 1 \in Int
      BY <1>1, <1>3, <1>8, <2>1, <2>2
    <3> QED
      BY <1>4, <3>1
  <2>3. next < MonthStart[J] => StartsOn("biweekly", next)
    BY <1>4, <1>6, <2>1
  <2> QED
    BY <1>1, <2>1, <2>2, <2>3 DEF next
<1> QED
  BY <1>7, <1>8

\* The first multiple after a number, and nothing in between.
LEMMA NextMultiple ==
    ASSUME NEW m \in {1, 3, 6, 12}, NEW M \in Nat, NEW J \in Nat, J % 12 = 0, M < J
    PROVE  LET b == (M \div m + 1) * m
           IN  /\ b \in Nat /\ M < b /\ b <= J /\ b % m = 0
               /\ \A x \in Nat : M < x /\ x < b => x % m # 0
<1>1. CASE m = 1
  BY <1>1
<1>2. CASE m = 3
  BY <1>2
<1>3. CASE m = 6
  BY <1>3
<1>4. CASE m = 12
  BY <1>4
<1> QED
  BY <1>1, <1>2, <1>3, <1>4

\* By the month, the quarter, the half or the year.
LEMMA NextMonthIsNext ==
    ASSUME NEW frequency \in Frequencies \ {"weekly", "biweekly"},
           NEW J \in DOMAIN MonthStart, J % 12 = 0, NEW day \in Nat, day < MonthStart[J]
    PROVE  LET next == NextBoundary(day, frequency)
           IN  /\ next \in Nat /\ day < next
               /\ next < MonthStart[J] => StartsOn(frequency, next)
               /\ \A d \in Nat : day < d /\ d < next => ~StartsOn(frequency, d)
<1> DEFINE M == Month(day)
           m == MonthsOf(frequency)
           b == (M \div m + 1) * m
           next == NextBoundary(day, frequency)
<1>1. PICK n \in Nat : DOMAIN MonthStart = 0..n
  BY CalendarAssumption
<1>2. /\ M \in DOMAIN MonthStart /\ M + 1 \in DOMAIN MonthStart /\ M \in Nat /\ M < J /\ J \in Nat
      /\ MonthStart[M] <= day /\ day < MonthStart[M + 1]
  BY MonthOfADay
<1>3. m \in {1, 3, 6, 12}
  BY DEF MonthsOf, Frequencies
<1>4. next = MonthStart[b]
  BY DEF NextBoundary, Frequencies
<1>5. \A d : StartsOn(frequency, d) <=> DayOfMonth(d) = 1 /\ Month(d) % m = 0
  BY DEF StartsOn, Frequencies
<1> HIDE DEF M, m
<1>6. /\ b \in Nat /\ M < b /\ b <= J /\ b % m = 0
      /\ \A x \in Nat : M < x /\ x < b => x % m # 0
  BY <1>2, <1>3, NextMultiple
<1> HIDE DEF b, next
<1>7. b \in DOMAIN MonthStart
  BY <1>1, <1>6
<1>8. \A k \in DOMAIN MonthStart : MonthStart[k] \in Nat /\ k \in Nat
  BY <1>1, CalendarAssumption
<1>9. \A k, l \in DOMAIN MonthStart : k <= l => MonthStart[k] <= MonthStart[l]
  <2> SUFFICES ASSUME NEW k \in DOMAIN MonthStart, NEW l \in DOMAIN MonthStart, k <= l
               PROVE  MonthStart[k] <= MonthStart[l]
    OBVIOUS
  <2>1. k < l => MonthStart[k] + 20 < MonthStart[l]
    BY MonthsGrow
  <2> QED
    BY <1>8, <2>1
<1>10. day < next
  <2>1. MonthStart[M + 1] <= MonthStart[b]
    BY <1>2, <1>6, <1>7, <1>9
  <2> QED
    BY <1>2, <1>4, <1>7, <1>8, <2>1
<1>11. next < MonthStart[J] => StartsOn(frequency, next)
  <2>1. next < MonthStart[J] => Month(next) = b /\ DayOfMonth(next) = 1
    BY <1>4, <1>7, FirstOfTheMonth
  <2> QED
    BY <1>5, <1>6, <2>1
<1>12. ASSUME NEW d \in Nat, day < d, d < next PROVE ~StartsOn(frequency, d)
  <2> SUFFICES ASSUME StartsOn(frequency, d) PROVE FALSE
    OBVIOUS
  <2> DEFINE k == Month(d)
  <2>1. k \in DOMAIN MonthStart /\ k \in Nat
    <3>1. d < MonthStart[b]
      BY <1>4, <1>12
    <3> QED
      BY <1>7, <3>1, MonthOfADay
  <2>2. d = MonthStart[k] /\ k % m = 0
    <3>1. DayOfMonth(d) = 1 /\ k % m = 0
      BY <1>5
    <3>2. d - MonthStart[k] + 1 = 1 /\ MonthStart[k] \in Nat
      BY <1>8, <2>1, <3>1 DEF DayOfMonth
    <3> QED
      BY <3>1, <3>2
  <2> HIDE DEF k
  <2>3. M < k
    <3> SUFFICES ASSUME k <= M PROVE FALSE
      BY <1>2, <2>1
    <3>1. MonthStart[k] <= MonthStart[M]
      BY <1>2, <1>9, <2>1
    <3> QED
      BY <1>2, <1>8, <1>12, <2>1, <2>2, <3>1
  <2>4. k < b
    <3> SUFFICES ASSUME b <= k PROVE FALSE
      BY <1>6, <2>1
    <3>1. MonthStart[b] <= MonthStart[k]
      BY <1>7, <1>9, <2>1
    <3> QED
      BY <1>4, <1>7, <1>8, <1>12, <2>1, <2>2, <3>1
  <2> QED
    BY <1>6, <2>1, <2>2, <2>3, <2>4
<1> QED
  BY <1>4, <1>7, <1>8, <1>10, <1>11, <1>12 DEF next

\* nextBoundary finds the first day after another on which a bucket starts.
LEMMA NextBoundaryIsNext ==
    ASSUME NEW frequency \in Frequencies,
           NEW J \in DOMAIN MonthStart, J % 12 = 0, NEW day \in Nat, day < MonthStart[J]
    PROVE  LET next == NextBoundary(day, frequency)
           IN  /\ next \in Nat /\ day < next
               /\ next < MonthStart[J] => StartsOn(frequency, next)
               /\ \A d \in Nat : day < d /\ d < next => ~StartsOn(frequency, d)
<1>1. CASE frequency = "weekly"
  <2>1. NextBoundary(day, frequency) = NextMonday(day)
    BY <1>1 DEF NextBoundary
  <2>2. \A d : StartsOn(frequency, d) <=> Weekday(d) = 1
    BY <1>1 DEF StartsOn
  <2> QED
    BY <2>1, <2>2, NextMondayIsNext
<1>2. CASE frequency = "biweekly"
  BY <1>2, NextHalfIsNext
<1>3. CASE frequency \notin {"weekly", "biweekly"}
  BY <1>3, NextMonthIsNext
<1> QED
  BY <1>1, <1>2, <1>3

-----------------------------------------------------------------------------
(* The buckets of a period, and those that are pending. *)

\* A period within the calendar.
InCalendar(range, frequency) ==
    /\ range \in [startsAt : Nat, endsAt : Nat] /\ range.startsAt < range.endsAt
    /\ frequency \in Frequencies
    /\ \E k \in DOMAIN MonthStart : k % 12 = 0 /\ LastDay(range) < MonthStart[k]

\* The days from one on, up to the last, on which buckets start.
DaysFrom(day, frequency, last) == {x \in day..last : x = day \/ StartsOn(frequency, x)}

\* buildBuckets' own recursion.
Goes(f, frequency, last) ==
    f = [day \in Nat |->
            IF day > last THEN {} ELSE {day} \cup f[NextBoundary(day, frequency)]]
Going(frequency, last) == CHOOSE f : Goes(f, frequency, last)

\* One step of it: the day itself, and the days from the next boundary on.
LEMMA DaysFromNext ==
    ASSUME NEW frequency \in Frequencies, NEW last \in Nat,
           NEW J \in DOMAIN MonthStart, J % 12 = 0, last < MonthStart[J],
           NEW day \in Nat
    PROVE  /\ day > last => DaysFrom(day, frequency, last) = {}
           /\ day <= last =>
                LET next == NextBoundary(day, frequency)
                IN  /\ next \in Nat /\ day < next
                    /\ DaysFrom(day, frequency, last) = {day} \cup DaysFrom(next, frequency, last)
                    /\ DaysFrom(next, frequency, last)
                         = {x \in (day + 1)..last : StartsOn(frequency, x)}
<1>1. day > last => DaysFrom(day, frequency, last) = {}
  BY DEF DaysFrom
<1>2. SUFFICES ASSUME day <= last
               PROVE  LET next == NextBoundary(day, frequency)
                      IN  /\ next \in Nat /\ day < next
                          /\ DaysFrom(day, frequency, last) = {day} \cup DaysFrom(next, frequency, last)
                          /\ DaysFrom(next, frequency, last)
                               = {x \in (day + 1)..last : StartsOn(frequency, x)}
  BY <1>1
<1> DEFINE next == NextBoundary(day, frequency)
<1>3. MonthStart[J] \in Nat
  BY CalendarAssumption
<1>4. /\ next \in Nat /\ day < next
      /\ next < MonthStart[J] => StartsOn(frequency, next)
      /\ \A d \in Nat : day < d /\ d < next => ~StartsOn(frequency, d)
  <2>1. day < MonthStart[J]
    BY <1>2, <1>3
  <2> QED
    BY <2>1, NextBoundaryIsNext
<1> HIDE DEF next
<1>5. DaysFrom(next, frequency, last) = {x \in (day + 1)..last : StartsOn(frequency, x)}
  <2>1. ASSUME NEW x \in DaysFrom(next, frequency, last)
        PROVE  x \in (day + 1)..last /\ StartsOn(frequency, x)
    <3>1. x \in next..last /\ (x = next \/ StartsOn(frequency, x))
      BY <2>1 DEF DaysFrom
    <3>2. x \in Nat /\ next <= x /\ x <= last /\ x < MonthStart[J]
      BY <1>3, <1>4, <3>1
    <3> QED
      BY <1>4, <3>1, <3>2
  <2>2. ASSUME NEW x \in (day + 1)..last, StartsOn(frequency, x)
        PROVE  x \in DaysFrom(next, frequency, last)
    <3>1. x \in Nat /\ day < x /\ x <= last
      BY <2>2
    <3>2. ~(x < next)
      BY <1>4, <2>2, <3>1
    <3>3. x \in next..last
      BY <1>4, <3>1, <3>2
    <3> QED
      BY <2>2, <3>3 DEF DaysFrom
  <2> QED
    BY <2>1, <2>2
<1>6. DaysFrom(day, frequency, last) = {day} \cup {x \in (day + 1)..last : StartsOn(frequency, x)}
  BY <1>2 DEF DaysFrom
<1> QED
  BY <1>4, <1>5, <1>6 DEF next

\* The recursion finds the days of the calendar.
LEMMA GoingIsDays ==
    ASSUME NEW frequency \in Frequencies, NEW last \in Nat,
           NEW J \in DOMAIN MonthStart, J % 12 = 0, last < MonthStart[J],
           NEW day \in Nat
    PROVE  Going(frequency, last)[day] = DaysFrom(day, frequency, last)
<1> DEFINE h == [d \in Nat |-> DaysFrom(d, frequency, last)]
           g == [d \in Nat |-> IF d > last THEN {} ELSE {d} \cup h[NextBoundary(d, frequency)]]
<1>1. Goes(h, frequency, last)
  <2>1. \A d \in Nat : h[d] = g[d]
    <3> SUFFICES ASSUME NEW d \in Nat PROVE h[d] = g[d]
      OBVIOUS
    <3>1. d > last => DaysFrom(d, frequency, last) = {}
      BY DaysFromNext
    <3>2. d <= last => /\ NextBoundary(d, frequency) \in Nat
                       /\ DaysFrom(d, frequency, last)
                            = {d} \cup DaysFrom(NextBoundary(d, frequency), frequency, last)
      BY DaysFromNext
    <3> QED
      BY <3>1, <3>2
  <2>2. h = g
    BY <2>1
  <2> QED
    BY <2>2 DEF Goes
<1> DEFINE f == Going(frequency, last)
<1>2. Goes(f, frequency, last)
  BY <1>1 DEF Going
<1>3. \A d \in Nat : f[d] = IF d > last THEN {} ELSE {d} \cup f[NextBoundary(d, frequency)]
  <2> HIDE DEF f
  <2>1. \A a : a = [d \in Nat |-> IF d > last THEN {} ELSE {d} \cup f[NextBoundary(d, frequency)]]
               => \A d \in Nat : a[d] = IF d > last THEN {} ELSE {d} \cup f[NextBoundary(d, frequency)]
    OBVIOUS
  <2> QED
    BY <1>2, <2>1 DEF Goes
<1> HIDE DEF f
<1> DEFINE Bad == {d \in 0..last : f[d] # DaysFrom(d, frequency, last)}
<1>4. Bad = {}
  <2> SUFFICES ASSUME Bad # {} PROVE FALSE
    OBVIOUS
  <2>1. IsFiniteSet(Bad) /\ Bad \subseteq Int
    <3>1. IsFiniteSet(0..last) /\ Bad \subseteq 0..last
      BY FS_Interval
    <3> QED
      BY <3>1, FS_Subset
  <2>2. PICK d \in Bad : \A x \in Bad : x <= d
    <3> HIDE DEF Bad
    <3> QED
      BY <2>1, HasLatest
  <2> DEFINE next == NextBoundary(d, frequency)
  <2>3. d \in Nat /\ d <= last /\ ~(d > last)
    OBVIOUS
  <2>4. next \in Nat /\ d < next
        /\ DaysFrom(d, frequency, last) = {d} \cup DaysFrom(next, frequency, last)
    BY <2>3, DaysFromNext
  <2>5. f[d] = {d} \cup f[next]
    <3> HIDE DEF Bad
    <3> QED
      BY <1>3, <2>3
  <2> HIDE DEF next
  <2>6. f[next] = DaysFrom(next, frequency, last)
    <3>1. CASE next > last
      <4>1. f[next] = {}
        BY <1>3, <2>4, <3>1
      <4>2. DaysFrom(next, frequency, last) = {}
        BY <2>4, <3>1, DaysFromNext
      <4> QED
        BY <4>1, <4>2
    <3>2. CASE next <= last
      <4>1. next \in 0..last /\ next \notin Bad
        BY <2>2, <2>3, <2>4, <3>2
      <4> QED
        BY <4>1
    <3> QED
      BY <2>4, <3>1, <3>2
  <2> QED
    BY <2>4, <2>5, <2>6
<1>5. CASE day <= last
  BY <1>4, <1>5 DEF f
<1>6. CASE day > last
  <2>1. f[day] = {}
    BY <1>3, <1>6
  <2>2. DaysFrom(day, frequency, last) = {}
    BY <1>6, DaysFromNext
  <2> QED
    BY <2>1, <2>2 DEF f
<1> QED
  BY <1>5, <1>6

\* The buckets of a period are its first day and the days of it on which the
\* calendar has one start.
LEMMA BucketsAreDays ==
    ASSUME NEW range, NEW frequency, InCalendar(range, frequency)
    PROVE  /\ FirstDay(range) \in Nat /\ LastDay(range) \in Nat /\ FirstDay(range) <= LastDay(range)
           /\ BuildBuckets(range, frequency)
                = {FirstDay(range)} \cup
                  {day \in FirstDay(range)..LastDay(range) : StartsOn(frequency, day)}
           /\ IsFiniteSet(BuildBuckets(range, frequency))
           /\ BuildBuckets(range, frequency) \subseteq FirstDay(range)..LastDay(range)
           /\ FirstDay(range) \in BuildBuckets(range, frequency)
<1> DEFINE F == FirstDay(range)
           L == LastDay(range)
           B == BuildBuckets(range, frequency)
<1>1. F \in Nat /\ L \in Nat /\ F <= L
  <2>1. range.startsAt \in Nat /\ range.endsAt \in Nat /\ range.startsAt < range.endsAt
    BY DEF InCalendar
  <2> QED
    BY <2>1, DaysAndInstants, DaysPass DEF FirstDay, LastDay
<1>2. PICK J \in DOMAIN MonthStart : J % 12 = 0 /\ L < MonthStart[J]
  BY DEF InCalendar
<1>3. frequency \in Frequencies
  BY DEF InCalendar
<1>4. B = {F} \cup Going(frequency, L)[NextBoundary(F, frequency)]
  BY DEF BuildBuckets, BucketsOf, Going, Goes
<1>5. /\ NextBoundary(F, frequency) \in Nat
      /\ DaysFrom(NextBoundary(F, frequency), frequency, L)
           = {x \in (F + 1)..L : StartsOn(frequency, x)}
  <2> HIDE DEF F, L
  <2> QED
    BY <1>1, <1>2, <1>3, DaysFromNext
<1>6. Going(frequency, L)[NextBoundary(F, frequency)] = {x \in (F + 1)..L : StartsOn(frequency, x)}
  <2>1. Going(frequency, L)[NextBoundary(F, frequency)]
          = DaysFrom(NextBoundary(F, frequency), frequency, L)
    <3> HIDE DEF F, L
    <3> QED
      BY <1>1, <1>2, <1>3, <1>5, GoingIsDays
  <2> QED
    BY <1>5, <2>1
<1> HIDE DEF F, L, B
<1>7. B = {F} \cup {x \in F..L : StartsOn(frequency, x)}
  <2>1. {x \in F..L : StartsOn(frequency, x)} \subseteq {F} \cup {x \in (F + 1)..L : StartsOn(frequency, x)}
    BY <1>1
  <2>2. {x \in (F + 1)..L : StartsOn(frequency, x)} \subseteq {x \in F..L : StartsOn(frequency, x)}
    BY <1>1
  <2> QED
    BY <1>4, <1>6, <2>1, <2>2
<1>8. B \subseteq F..L /\ F \in B
  BY <1>1, <1>7
<1>9. IsFiniteSet(B)
  <2>1. IsFiniteSet(F..L)
    BY <1>1, FS_Interval
  <2> QED
    BY <1>8, <2>1, FS_Subset
<1> QED
  BY <1>1, <1>7, <1>8, <1>9 DEF F, L, B

\* The bucket of a day is the last that starts by then, or the first of all.
LEMMA BucketOfADay ==
    ASSUME NEW B, IsFiniteSet(B), B \subseteq Int, B # {}, NEW day \in Int
    PROVE  LET bucket == BucketContaining(day, B)
           IN  /\ bucket \in B
               /\ \A b \in B : b <= day => bucket <= day /\ b <= bucket
               /\ bucket <= day \/ bucket = Earliest(B)
<1> DEFINE started == {b \in B : b <= day}
<1>1. IsFiniteSet(started)
  BY FS_Subset
<1>2. CASE started = {}
  <2>1. BucketContaining(day, B) = Earliest(B)
    BY <1>2 DEF BucketContaining
  <2>2. Earliest(B) \in B
    BY HasEarliest
  <2> QED
    BY <1>2, <2>1, <2>2
<1>3. CASE started # {}
  <2>1. BucketContaining(day, B) = Latest(started)
    BY <1>3 DEF BucketContaining
  <2>2. Latest(started) \in started /\ \A x \in started : x <= Latest(started)
    <3>1. started \subseteq Int
      OBVIOUS
    <3> HIDE DEF started
    <3> QED
      BY <1>1, <1>3, <3>1, HasLatest
  <2> QED
    BY <2>1, <2>2
<1> QED
  BY <1>2, <1>3

\* A bucket closes when the next one starts, or with the period.
LEMMA WhenABucketCloses ==
    ASSUME NEW B, IsFiniteSet(B), B \subseteq Int, NEW bucket \in B, NEW lastDay
    PROVE  LET later == {b \in B : b > bucket}
               closes == ClosesOn(bucket, B, lastDay)
           IN  \/ later = {} /\ closes = lastDay
               \/ closes \in B /\ bucket < closes /\ \A b \in B : b > bucket => closes <= b
<1> DEFINE later == {b \in B : b > bucket}
<1>1. IsFiniteSet(later)
  BY FS_Subset
<1>2. CASE later = {}
  BY <1>2 DEF ClosesOn
<1>3. CASE later # {}
  <2>1. ClosesOn(bucket, B, lastDay) = Earliest(later)
    BY <1>3 DEF ClosesOn
  <2>2. Earliest(later) \in later /\ \A x \in later : Earliest(later) <= x
    <3>1. later \subseteq Int
      OBVIOUS
    <3> HIDE DEF later
    <3> QED
      BY <1>1, <1>3, <3>1, HasEarliest
  <2>3. Earliest(later) > bucket /\ Earliest(later) \in Int /\ bucket \in Int
    BY <2>2
  <2> QED
    BY <2>1, <2>2, <2>3
<1> QED
  BY <1>2, <1>3

\* What is pending is overdue, and what is overdue is pending.
LEMMA PendingAndOverdue ==
    ASSUME NEW range, NEW frequency, InCalendar(range, frequency), NEW today \in Int, NEW loaded,
           NEW bucket \in BuildBuckets(range, frequency)
    PROVE  LET buckets == BuildBuckets(range, frequency)
               pending == PendingBuckets(loaded, buckets, today, LastDay(range))
               days == {d \in FirstDay(range)..LastDay(range) : BucketContaining(d, buckets) = bucket}
           IN  /\ bucket \in pending =>
                    bucket \notin loaded /\ \A d \in days : today - d > GraceDays
               /\ bucket \notin loaded /\ (\A d \in days : today - d > GraceDays + 1)
                    => bucket \in pending
<1> DEFINE B == BuildBuckets(range, frequency)
           F == FirstDay(range)
           L == LastDay(range)
           closes == ClosesOn(bucket, B, L)
           days == {d \in F..L : BucketContaining(d, B) = bucket}
<1>1. F \in Nat /\ L \in Nat /\ F <= L /\ IsFiniteSet(B) /\ B \subseteq F..L
  BY BucketsAreDays
<1>2. B \subseteq Int /\ B # {} /\ bucket \in B /\ bucket \in Int
  <2> HIDE DEF F, L
  <2>1. B \subseteq Int
    BY <1>1
  <2> QED
    BY <2>1
<1>3. bucket \in PendingBuckets(loaded, B, today, L) <=> bucket \notin loaded /\ today - closes > GraceDays
  BY <1>2 DEF PendingBuckets
<1>4. \/ {b \in B : b > bucket} = {} /\ closes = L
      \/ closes \in B /\ bucket < closes /\ \A b \in B : b > bucket => closes <= b
  <2> HIDE DEF B, L
  <2> QED
    BY <1>1, <1>2, WhenABucketCloses
<1>5. GraceDays \in Nat
  BY CalendarAssumption
<1> HIDE DEF B, F, L, closes
<1>6. closes \in F..L
  <2>1. L \in F..L
    BY <1>1
  <2> QED
    BY <1>1, <1>4, <2>1
<1>7. \A d \in F..L : /\ BucketContaining(d, B) \in B
                      /\ \A b \in B : b <= d => BucketContaining(d, B) <= d /\ b <= BucketContaining(d, B)
                      /\ BucketContaining(d, B) <= d \/ BucketContaining(d, B) = Earliest(B)
  <2> SUFFICES ASSUME NEW d \in F..L
               PROVE  /\ BucketContaining(d, B) \in B
                      /\ \A b \in B : b <= d => BucketContaining(d, B) <= d /\ b <= BucketContaining(d, B)
                      /\ BucketContaining(d, B) <= d \/ BucketContaining(d, B) = Earliest(B)
    OBVIOUS
  <2>1. d \in Int
    BY <1>1
  <2> QED
    BY <1>1, <1>2, <2>1, BucketOfADay
<1>8. \A d \in days : d \in Int /\ d <= closes
  <2> SUFFICES ASSUME NEW d \in days, closes < d PROVE FALSE
    BY <1>1, <1>6
  <2>1. d \in F..L /\ d \in Int /\ BucketContaining(d, B) = bucket /\ closes \in Int
    BY <1>1, <1>6
  <2>2. closes \in B => closes <= bucket
    BY <1>7, <2>1
  <2> QED
    BY <1>1, <1>2, <1>4, <1>6, <2>1, <2>2
<1>9. bucket \in PendingBuckets(loaded, B, today, L) =>
        bucket \notin loaded /\ \A d \in days : today - d > GraceDays
  <2> HIDE DEF days
  <2>1. closes \in Int
    BY <1>1, <1>6
  <2> QED
    BY <1>3, <1>5, <1>8, <2>1
<1>10. ASSUME \A d \in days : today - d > GraceDays + 1
       PROVE  today - closes > GraceDays
  <2>1. CASE {b \in B : b > bucket} = {} /\ closes = L
    <3>1. BucketContaining(L, B) = bucket
      <4>1. L \in F..L /\ bucket <= L
        BY <1>1, <1>2
      <4>2. BucketContaining(L, B) \in B /\ bucket <= BucketContaining(L, B)
        BY <1>2, <1>7, <4>1
      <4>3. ~(BucketContaining(L, B) > bucket)
        BY <2>1, <4>2
      <4> DEFINE c == BucketContaining(L, B)
      <4>4. c \in Int
        BY <1>2, <4>2
      <4> HIDE DEF c
      <4>5. c = bucket
        BY <1>2, <4>2, <4>3, <4>4 DEF c
      <4> QED
        BY <4>5 DEF c
    <3>2. L \in days
      BY <1>1, <3>1
    <3> QED
      BY <1>1, <1>5, <1>10, <2>1, <3>2
  <2>2. CASE closes \in B /\ bucket < closes /\ \A b \in B : b > bucket => closes <= b
    <3> DEFINE d == closes - 1
    <3>1. d \in F..L /\ bucket <= d /\ d \in Int /\ d < closes
      BY <1>1, <1>2, <1>6, <2>2
    <3> HIDE DEF d
    <3>2. BucketContaining(d, B) \in B /\ bucket <= BucketContaining(d, B) /\ BucketContaining(d, B) <= d
      BY <1>2, <1>7, <3>1
    <3>3. BucketContaining(d, B) = bucket
      <4> DEFINE c == BucketContaining(d, B)
      <4>1. c \in B /\ c \in Int /\ bucket <= c /\ c <= d /\ closes \in Int
        <5>1. closes \in Int
          BY <1>1, <1>6
        <5>2. c \in B /\ bucket <= c /\ c <= d
          BY <3>2
        <5> QED
          BY <1>2, <5>1, <5>2
      <4> HIDE DEF c
      <4>2. ~(c > bucket)
        BY <2>2, <3>1, <4>1
      <4>3. c = bucket
        BY <1>2, <4>1, <4>2
      <4> QED
        BY <4>3 DEF c
    <3>4. d \in days
      BY <3>1, <3>3
    <3>5. today - d > GraceDays + 1
      BY <1>10, <3>4
    <3> QED
      BY <1>5, <1>6, <1>1, <3>1, <3>5 DEF d
  <2> QED
    BY <1>4, <2>1, <2>2
<1> QED
  BY <1>3, <1>9, <1>10 DEF B, F, L, days

\* A period that is closed today has no bucket pending that was not.
LEMMA ClosingAddsNothing ==
    ASSUME NEW range, NEW frequency, InCalendar(range, frequency), NEW instant \in Nat, NEW loaded,
           instant < range.endsAt, Midnight(Day(instant)) > range.startsAt
    PROVE  LET cut == [range EXCEPT !.endsAt = Midnight(Day(instant))]
           IN  /\ InCalendar(cut, frequency)
               /\ \A b \in PendingBuckets(loaded, BuildBuckets(cut, frequency), Day(instant), LastDay(cut)) :
                    b \in PendingBuckets(loaded, BuildBuckets(range, frequency), Day(instant), LastDay(range))
<1> DEFINE today == Day(instant)
           cut == [range EXCEPT !.endsAt = Midnight(today)]
           B == BuildBuckets(range, frequency)
           C == BuildBuckets(cut, frequency)
           L == LastDay(range)
           F == FirstDay(range)
<1>1. range.startsAt \in Nat /\ range.endsAt \in Nat
  BY DEF InCalendar
<1>2. today \in Nat /\ Midnight(today) \in Nat /\ Midnight(today) <= instant /\ Day(Midnight(today)) = today
  <2>1. today \in Nat
    BY DaysAndInstants
  <2> HIDE DEF today
  <2>2. Midnight(today) \in Nat /\ Day(Midnight(today)) = today
    BY <2>1, DaysAndInstants
  <2>3. today <= Day(instant) => Midnight(today) <= instant
    BY <2>1, DaysAndInstants
  <2>4. today <= Day(instant)
    BY <2>1 DEF today
  <2> QED
    BY <2>1, <2>2, <2>3, <2>4
<1>3. today <= L
  BY <1>1, DaysPass DEF LastDay
<1>4. /\ cut \in [startsAt : Nat, endsAt : Nat] /\ cut.startsAt = range.startsAt
      /\ cut.endsAt = Midnight(today)
  BY <1>1, <1>2 DEF InCalendar
<1>5. FirstDay(cut) = F /\ LastDay(cut) = today
  BY <1>2, <1>4 DEF FirstDay, LastDay
<1>6. L \in Nat
  BY BucketsAreDays
<1> HIDE DEF cut, L, today
<1>7. InCalendar(cut, frequency)
  <2>1. PICK k \in DOMAIN MonthStart : k % 12 = 0 /\ L < MonthStart[k]
    BY DEF InCalendar, L
  <2>2. LastDay(cut) < MonthStart[k]
    <3>1. MonthStart[k] \in Nat
      BY CalendarAssumption
    <3> QED
      BY <1>2, <1>3, <1>5, <1>6, <2>1, <3>1
  <2> QED
    BY <1>4, <2>1, <2>2 DEF InCalendar, today
<1>8. /\ F \in Nat /\ F <= L /\ IsFiniteSet(B) /\ B \subseteq F..L
      /\ B = {F} \cup {day \in F..L : StartsOn(frequency, day)}
  BY BucketsAreDays DEF L
<1>9. /\ F <= today /\ IsFiniteSet(C) /\ C \subseteq F..today
      /\ C = {F} \cup {day \in F..today : StartsOn(frequency, day)}
  BY <1>5, <1>7, BucketsAreDays
<1> HIDE DEF B, C, F
<1>10. \A b \in B : b <= today => b \in C
  <2> SUFFICES ASSUME NEW b \in B, b <= today PROVE b \in C
    OBVIOUS
  <2>1. b \in F..today
    BY <1>2, <1>6, <1>8
  <2> QED
    BY <1>8, <1>9, <2>1
<1>11. C \subseteq B
  <2>1. F..today \subseteq F..L
    BY <1>2, <1>3, <1>6, <1>8
  <2> QED
    BY <1>8, <1>9, <2>1
<1>12. ASSUME NEW b \in PendingBuckets(loaded, C, today, today)
       PROVE  b \in PendingBuckets(loaded, B, today, L)
  <2>1. b \in C \ loaded /\ today - ClosesOn(b, C, today) > GraceDays
    BY <1>12 DEF PendingBuckets
  <2> DEFINE c == ClosesOn(b, C, today)
             d == ClosesOn(b, B, L)
  <2>2. C \subseteq Int /\ B \subseteq Int /\ GraceDays \in Nat
    BY <1>2, <1>6, <1>8, <1>9, CalendarAssumption
  <2>3. \/ c = today
        \/ c \in C /\ b < c /\ \A x \in C : x > b => c <= x
    <3>1. b \in C
      BY <2>1
    <3> QED
      BY <1>9, <2>2, <3>1, WhenABucketCloses
  <2>4. \/ {x \in B : x > b} = {} /\ d = L
        \/ d \in B /\ b < d /\ \A x \in B : x > b => d <= x
    <3>1. b \in B
      BY <1>11, <2>1
    <3> QED
      BY <1>8, <2>2, <3>1, WhenABucketCloses
  <2> HIDE DEF c, d
  <2>5. today - c > GraceDays
    BY <2>1 DEF c
  <2>6. c # today
    BY <1>2, <2>2, <2>5
  <2>7. c \in C /\ c \in B /\ b < c /\ c \in Int /\ \A x \in C : x > b => c <= x
    BY <1>11, <2>2, <2>3, <2>6
  <2>8. d \in B /\ b < d /\ d <= c /\ d \in Int
    BY <2>2, <2>4, <2>7
  <2>9. c <= today
    BY <1>2, <1>8, <1>9, <2>7
  <2>10. d \in C
    BY <1>2, <1>10, <2>7, <2>8, <2>9
  <2>11. today - d > GraceDays
    BY <1>2, <2>2, <2>5, <2>7, <2>8
  <2> QED
    BY <1>11, <2>1, <2>11 DEF PendingBuckets, d
<1> QED
  BY <1>5, <1>7, <1>12 DEF cut, B, C, L, today

-----------------------------------------------------------------------------
(* Quotients, curves and means. *)

\* A quotient truncated toward zero lies between what its dividend lies between.
LEMMA QuotientBetween ==
    ASSUME NEW n \in Nat \ {0}, NEW a \in Int, NEW lo \in Int, NEW hi \in Int,
           n * lo <= a, a <= n * hi
    PROVE  Quotient(a, n) \in Int /\ lo <= Quotient(a, n) /\ Quotient(a, n) <= hi
<1>1. CASE a >= 0
  <2> DEFINE q == a \div n
  <2>1. Quotient(a, n) = q
    BY <1>1 DEF Quotient
  <2>2. q \in Nat /\ n * q <= a /\ a < n * q + n
    BY <1>1, Division
  <2>3. /\ n * q \in Int /\ n * lo \in Int /\ n * hi \in Int
        /\ q < lo => n * q + n <= n * lo
        /\ hi < q => n * hi + n <= n * q
    BY <2>2, Multiples
  <2> HIDE DEF q
  <2>4. ~(q < lo) /\ ~(hi < q)
    BY <2>2, <2>3
  <2> QED
    BY <2>1, <2>2, <2>4
<1>2. CASE a < 0
  <2> DEFINE p == (-a) \div n
             q == -p
  <2>1. Quotient(a, n) = q
    BY <1>2 DEF Quotient
  <2>2. p \in Nat /\ n * p <= -a /\ -a < n * p + n
    BY <1>2, Division
  <2> HIDE DEF p
  <2>3. n * q = -(n * p) /\ q \in Int /\ n * p \in Int
    BY <2>2
  <2> HIDE DEF q
  <2>4. /\ n * q \in Int /\ n * lo \in Int /\ n * hi \in Int
        /\ q < lo => n * q + n <= n * lo
        /\ hi < q => n * hi + n <= n * q
    BY <2>3, Multiples
  <2>5. ~(q < lo) /\ ~(hi < q)
    BY <2>2, <2>3, <2>4
  <2> QED
    BY <2>1, <2>3, <2>5
<1> QED
  BY <1>1, <1>2

\* A quotient is a number, of no sign when its terms are of one.
LEMMA QuotientType ==
    ASSUME NEW a \in Int, NEW b \in Int, b # 0
    PROVE  /\ Quotient(a, b) \in Int
           /\ (a >= 0 /\ b > 0) \/ (a <= 0 /\ b < 0) => Quotient(a, b) >= 0
<1>1. \A x \in Nat, y \in Nat \ {0} : x \div y \in Nat
  BY Division
<1>2. CASE b < 0 /\ a > 0
  <2>1. a \div (-b) \in Nat
    BY <1>1, <1>2
  <2> QED
    BY <1>2, <2>1 DEF Quotient
<1>3. CASE b < 0 /\ ~(a > 0)
  <2>1. (-a) \div (-b) \in Nat
    BY <1>1, <1>3
  <2> QED
    BY <1>3, <2>1 DEF Quotient
<1>4. CASE b > 0 /\ a < 0
  <2>1. (-a) \div b \in Nat
    BY <1>1, <1>4
  <2> QED
    BY <1>4, <2>1 DEF Quotient
<1>5. CASE b > 0 /\ ~(a < 0)
  <2>1. a \div b \in Nat
    BY <1>1, <1>5
  <2> QED
    BY <1>5, <2>1 DEF Quotient
<1> QED
  BY <1>2, <1>3, <1>4, <1>5

\* A share of the way lies on the way; all of it is the way.
LEMMA ShareOfTheWay ==
    ASSUME NEW n \in Nat \ {0}, NEW k \in 0..n, NEW w \in Int
    PROVE  /\ Quotient(w * k, n) \in Int /\ Between(Quotient(w * k, n), 0, w)
           /\ k = n => Quotient(w * k, n) = w
<1>1. w * k \in Int /\ n * w \in Int /\ n * 0 = 0
  OBVIOUS
<1>2. n * k \in Int /\ k <= n /\ k >= 0
  OBVIOUS
<1>3. CASE w = 0
  <2>1. w * k = 0 /\ n * w = 0
    BY <1>3
  <2>2. Quotient(0, n) = 0
    <3>1. Quotient(0, n) \in Int /\ 0 <= Quotient(0, n) /\ Quotient(0, n) <= 0
      BY <1>1, QuotientBetween
    <3> QED
      BY <3>1
  <2> QED
    BY <1>3, <2>1, <2>2 DEF Between
<1>4. CASE w > 0
  <2>1. w * k >= 0 /\ w * k <= n * w
    <3>1. w \in Nat \ {0}
      BY <1>4
    <3>2. w * 0 <= w * k /\ w * k <= w * n
      BY <1>2, <3>1, Multiples
    <3> QED
      BY <3>2
  <2>2. Quotient(w * k, n) \in Int /\ 0 <= Quotient(w * k, n) /\ Quotient(w * k, n) <= w
    BY <1>1, <2>1, QuotientBetween
  <2>3. k = n => w <= Quotient(w * k, n)
    <3>1. k = n => n * w <= w * k
      BY <1>1
    <3> QED
      BY <1>1, <2>1, <3>1, QuotientBetween
  <2> QED
    BY <2>2, <2>3 DEF Between
<1>5. CASE w < 0
  <2>1. w * k <= 0 /\ n * w <= w * k
    <3>1. -w \in Nat \ {0}
      BY <1>5
    <3>2. (-w) * 0 <= (-w) * k /\ (-w) * k <= (-w) * n
      BY <1>2, <3>1, Multiples
    <3>3. (-w) * k = -(w * k) /\ (-w) * n = -(n * w) /\ (-w) * 0 = 0
      OBVIOUS
    <3> QED
      BY <1>1, <3>2, <3>3
  <2>2. Quotient(w * k, n) \in Int /\ w <= Quotient(w * k, n) /\ Quotient(w * k, n) <= 0
    <3>1. w * k <= n * 0 /\ 0 \in Int
      BY <1>1, <2>1
    <3>2. \A a, lo, hi \in Int : n * lo <= a /\ a <= n * hi
            => Quotient(a, n) \in Int /\ lo <= Quotient(a, n) /\ Quotient(a, n) <= hi
      BY QuotientBetween
    <3> QED
      BY <1>1, <2>1, <3>1, <3>2, ZenonT(30)
  <2>3. k = n => Quotient(w * k, n) <= w
    <3>1. k = n => w * k <= n * w
      BY <1>1
    <3> QED
      BY <1>1, <2>1, <3>1, QuotientBetween
  <2> QED
    BY <2>2, <2>3 DEF Between
<1> QED
  BY <1>3, <1>4, <1>5

\* A linear curve stays between baseline and target, and ends on the target.
LEMMA LinearCurve ==
    ASSUME NEW range, range.startsAt \in Nat, range.endsAt \in Nat, range.startsAt < range.endsAt,
           NEW at \in Int, NEW baseline \in Int, NEW target \in Int
    PROVE  LET expected == ExpectedAt(at, range, baseline, target)
           IN  /\ expected \in Int /\ Between(expected, baseline, target)
               /\ at >= range.endsAt => expected = target
<1> DEFINE n == range.endsAt - range.startsAt
           clamped == IF at < range.startsAt THEN range.startsAt
                      ELSE IF at > range.endsAt THEN range.endsAt ELSE at
           k == clamped - range.startsAt
           w == target - baseline
           q == Quotient(w * k, n)
<1>1. n \in Nat \ {0} /\ k \in 0..n /\ w \in Int /\ (at >= range.endsAt => k = n)
  OBVIOUS
<1>2. ExpectedAt(at, range, baseline, target) = baseline + q
  BY DEF ExpectedAt
<1>3. w = target - baseline
  OBVIOUS
<1> HIDE DEF n, k, w
<1>4. q \in Int /\ Between(q, 0, w) /\ (k = n => q = w)
  BY <1>1, ShareOfTheWay
<1> HIDE DEF q
<1> QED
  BY <1>1, <1>2, <1>3, <1>4 DEF Between

\* The anchors of a manual curve.
LEMMA AnchorsType ==
    ASSUME NEW points, IsFiniteSet(DOMAIN points), DOMAIN points \subseteq Nat,
           \A d \in DOMAIN points : points[d] \in Int,
           NEW range, range.startsAt \in Nat, NEW baseline \in Int
    PROVE  LET anchors == Anchors(points, range, baseline)
           IN  /\ IsFiniteSet(DOMAIN anchors) /\ DOMAIN anchors \subseteq Nat /\ DOMAIN anchors # {}
               /\ \A t \in DOMAIN anchors : anchors[t] \in Int
               /\ DOMAIN points # {} =>
                    /\ Latest(DOMAIN points) \in DOMAIN points
                    /\ Midnight(Latest(DOMAIN points)) \in DOMAIN anchors
                    /\ \A t \in DOMAIN anchors : t <= Midnight(Latest(DOMAIN points))
                    /\ anchors[Midnight(Latest(DOMAIN points))] = points[Latest(DOMAIN points)]
<1> DEFINE Dates == {Midnight(d) : d \in DOMAIN points}
           dated == [t \in Dates |-> points[Day(t)]]
           anchors == Anchors(points, range, baseline)
           start == range.startsAt
<1>1. IsFiniteSet(Dates)
  <2> DEFINE f == [d \in DOMAIN points |-> Midnight(d)]
  <2>1. f \in [DOMAIN points -> Dates] /\ \A t \in Dates : \E d \in DOMAIN points : f[d] = t
    OBVIOUS
  <2>2. f \in Surjection(DOMAIN points, Dates)
    BY <2>1 DEF Surjection
  <2> QED
    BY <2>2, FS_Surjection
<1>2. \A d \in DOMAIN points : d \in Nat /\ Midnight(d) \in Nat /\ Day(Midnight(d)) = d
  <2> SUFFICES ASSUME NEW d \in DOMAIN points
               PROVE  d \in Nat /\ Midnight(d) \in Nat /\ Day(Midnight(d)) = d
    OBVIOUS
  <2> QED
    BY DaysAndInstants
<1>3. Dates \subseteq Nat
  BY <1>2
<1>4. \A t \in Dates : dated[t] \in Int
  <2> SUFFICES ASSUME NEW d \in DOMAIN points PROVE dated[Midnight(d)] \in Int
    OBVIOUS
  <2> QED
    BY <1>2
<1>5. DOMAIN points # {} =>
        /\ Latest(DOMAIN points) \in DOMAIN points
        /\ Midnight(Latest(DOMAIN points)) \in Dates
        /\ \A t \in Dates : t <= Midnight(Latest(DOMAIN points))
        /\ dated[Midnight(Latest(DOMAIN points))] = points[Latest(DOMAIN points)]
  <2> SUFFICES ASSUME DOMAIN points # {}
               PROVE  /\ Latest(DOMAIN points) \in DOMAIN points
                      /\ Midnight(Latest(DOMAIN points)) \in Dates
                      /\ \A t \in Dates : t <= Midnight(Latest(DOMAIN points))
                      /\ dated[Midnight(Latest(DOMAIN points))] = points[Latest(DOMAIN points)]
    OBVIOUS
  <2> DEFINE last == Latest(DOMAIN points)
  <2>1. last \in DOMAIN points /\ \A d \in DOMAIN points : d <= last
    <3>1. DOMAIN points \subseteq Int
      OBVIOUS
    <3> QED
      BY <3>1, HasLatest
  <2> HIDE DEF last
  <2>2. \A d \in DOMAIN points : Midnight(d) <= Midnight(last)
    <3> SUFFICES ASSUME NEW d \in DOMAIN points PROVE Midnight(d) <= Midnight(last)
      OBVIOUS
    <3>1. d <= Day(Midnight(last))
      BY <1>2, <2>1
    <3>2. Midnight(last) \in Nat /\ d \in Nat
      BY <1>2, <2>1
    <3> QED
      BY <3>1, <3>2, DaysAndInstants
  <2>3. dated[Midnight(last)] = points[last]
    BY <1>2, <2>1
  <2> QED
    BY <2>1, <2>2, <2>3 DEF last
<1> HIDE DEF Dates
<1>6. DOMAIN dated = Dates
  OBVIOUS
<1>7. CASE \E t \in Dates : t <= start
  <2>1. anchors = dated
    BY <1>7 DEF Anchors, Dates
  <2>2. DOMAIN anchors # {}
    BY <1>6, <1>7, <2>1
  <2> HIDE DEF anchors, dated
  <2>3. /\ IsFiniteSet(DOMAIN anchors) /\ DOMAIN anchors \subseteq Nat /\ DOMAIN anchors # {}
        /\ \A t \in DOMAIN anchors : anchors[t] \in Int
    BY <1>1, <1>3, <1>4, <1>6, <2>1, <2>2
  <2> QED
    BY <1>5, <1>6, <2>1, <2>3 DEF anchors
<1>8. CASE ~\E t \in Dates : t <= start
  <2>1. anchors = [t \in Dates \cup {start} |-> IF t = start THEN baseline ELSE dated[t]]
    BY <1>8 DEF Anchors, Dates
  <2>2. DOMAIN anchors = Dates \cup {start} /\ start \notin Dates
        /\ anchors[start] = baseline /\ \A t \in Dates : anchors[t] = dated[t]
    <3>1. start \in Nat
      OBVIOUS
    <3> HIDE DEF anchors, dated, start
    <3> QED
      BY <1>8, <2>1, <3>1
  <2>3. IsFiniteSet(Dates \cup {start})
    BY <1>1, FS_AddElement
  <2> HIDE DEF anchors, dated
  <2>4. /\ IsFiniteSet(DOMAIN anchors) /\ DOMAIN anchors \subseteq Nat /\ DOMAIN anchors # {}
        /\ \A t \in DOMAIN anchors : anchors[t] \in Int
    BY <1>3, <1>4, <2>2, <2>3
  <2>5. \A t \in Dates : start <= t
    BY <1>3, <1>8
  <2> QED
    BY <1>3, <1>5, <2>2, <2>4, <2>5 DEF anchors
<1> QED
  BY <1>7, <1>8

\* A manual curve is a number everywhere, and its last point from there on.
LEMMA ManualCurve ==
    ASSUME NEW points, IsFiniteSet(DOMAIN points), DOMAIN points \subseteq Nat,
           \A d \in DOMAIN points : points[d] \in Int,
           NEW range, range.startsAt \in Nat, NEW baseline \in Int, NEW day \in Nat
    PROVE  LET expected == ManualAt(Midnight(day), points, range, baseline)
           IN  /\ expected \in Int
               /\ DOMAIN points # {} /\ day >= Latest(DOMAIN points)
                    => expected = points[Latest(DOMAIN points)]
<1> DEFINE anchors == Anchors(points, range, baseline)
           D == DOMAIN anchors
           at == Midnight(day)
           first == Earliest(D)
           last == Latest(D)
<1>1. /\ IsFiniteSet(D) /\ D \subseteq Nat /\ D # {}
      /\ \A t \in D : anchors[t] \in Int
      /\ DOMAIN points # {} =>
           /\ Latest(DOMAIN points) \in DOMAIN points
           /\ Midnight(Latest(DOMAIN points)) \in D
           /\ \A t \in D : t <= Midnight(Latest(DOMAIN points))
           /\ anchors[Midnight(Latest(DOMAIN points))] = points[Latest(DOMAIN points)]
  BY AnchorsType
<1>2. at \in Nat
  BY DaysAndInstants
<1>3. ManualAt(at, points, range, baseline)
        = IF at <= first THEN anchors[first]
          ELSE IF at >= last THEN anchors[last]
          ELSE Interpolated(at, anchors)
  BY DEF ManualAt
<1>4. DOMAIN points # {} /\ day >= Latest(DOMAIN points) => at >= Midnight(Latest(DOMAIN points))
  <2> SUFFICES ASSUME DOMAIN points # {}, day >= Latest(DOMAIN points)
               PROVE  at >= Midnight(Latest(DOMAIN points))
    OBVIOUS
  <2> DEFINE p == Latest(DOMAIN points)
  <2>1. p \in Nat /\ p <= Day(at)
    <3>1. Day(at) = day
      BY DaysAndInstants
    <3>2. p \in Nat
      BY <1>1
    <3> QED
      BY <3>1, <3>2
  <2> HIDE DEF p, at
  <2>2. Midnight(p) <= at
    BY <1>2, <2>1, DaysAndInstants
  <2>3. Midnight(p) \in Nat
    BY <2>1, DaysAndInstants
  <2> QED
    BY <1>2, <2>2, <2>3 DEF p
<1> HIDE DEF D, anchors, at
<1>5. D \subseteq Int
  BY <1>1
<1>6. first \in D /\ \A t \in D : first <= t
  BY <1>1, <1>5, HasEarliest
<1>7. last \in D /\ \A t \in D : t <= last
  BY <1>1, <1>5, HasLatest
<1> HIDE DEF first, last
<1>8. first \in Int /\ last \in Int /\ first <= last
  BY <1>5, <1>6, <1>7
<1>9. ASSUME ~(at <= first), ~(at >= last) PROVE Interpolated(at, anchors) \in Int
  <2> DEFINE Before == {t \in D : t < at}
             After == {t \in D : t >= at}
             prev == Latest(Before)
             next == Earliest(After)
  <2>1. first \in Before /\ last \in After
    BY <1>2, <1>6, <1>7, <1>8, <1>9
  <2>2. IsFiniteSet(Before) /\ IsFiniteSet(After) /\ Before \subseteq Int /\ After \subseteq Int
    BY <1>1, <1>5, FS_Subset
  <2>3. prev \in Before /\ next \in After
    <3> HIDE DEF Before, After
    <3> QED
      BY <2>1, <2>2, HasLatest, HasEarliest
  <2>4. Interpolated(at, anchors)
          = anchors[prev] + Quotient((anchors[next] - anchors[prev]) * (at - prev), next - prev)
    BY DEF Interpolated, D
  <2>5. anchors[prev] \in Int /\ anchors[next] \in Int
    BY <1>1, <2>3
  <2>6. prev \in Int /\ next \in Int /\ prev < next
    <3>1. prev \in D /\ prev < at /\ next \in D /\ next >= at
      BY <2>3
    <3> HIDE DEF prev, next
    <3> QED
      BY <1>2, <1>5, <3>1
  <2> HIDE DEF prev, next
  <2>7. (anchors[next] - anchors[prev]) * (at - prev) \in Int /\ next - prev \in Int /\ next - prev # 0
    BY <1>2, <2>5, <2>6
  <2>8. Quotient((anchors[next] - anchors[prev]) * (at - prev), next - prev) \in Int
    BY <2>7, QuotientType
  <2> QED
    BY <2>4, <2>5, <2>8
<1>10. ManualAt(at, points, range, baseline) \in Int
  <2>1. anchors[first] \in Int /\ anchors[last] \in Int
    BY <1>1, <1>6, <1>7
  <2> QED
    BY <1>3, <1>9, <2>1
<1>11. DOMAIN points # {} /\ day >= Latest(DOMAIN points)
         => ManualAt(at, points, range, baseline) = points[Latest(DOMAIN points)]
  <2> SUFFICES ASSUME DOMAIN points # {}, day >= Latest(DOMAIN points)
               PROVE  ManualAt(at, points, range, baseline) = points[Latest(DOMAIN points)]
    OBVIOUS
  <2> DEFINE m == Midnight(Latest(DOMAIN points))
  <2>1. m \in D /\ (\A t \in D : t <= m) /\ anchors[m] = points[Latest(DOMAIN points)] /\ at >= m
    BY <1>1, <1>4
  <2> HIDE DEF m
  <2>2. last = m /\ at >= last
    BY <1>5, <1>7, <1>8, <2>1
  <2>3. at <= first => first = last
    BY <1>2, <1>8, <2>2
  <2> QED
    BY <1>3, <2>1, <2>2, <2>3
<1> QED
  BY <1>10, <1>11 DEF at

\* A stepped curve is a number everywhere.
LEMMA SteppedCurve ==
    ASSUME NEW steps, IsFiniteSet(DOMAIN steps), \A s \in DOMAIN steps : steps[s].value \in Int,
           NEW baseline \in Int, NEW at
    PROVE  SteppedAt(at, baseline, steps) \in Int
<1> DEFINE S == {s \in DOMAIN steps : steps[s].endsAt <= at}
           f == [x \in S |-> steps[x].value]
<1>1. IsFiniteSet(S)
  BY FS_Subset
<1>2. \A x \in S : f[x] \in Int
  OBVIOUS
<1>3. SteppedAt(at, baseline, steps) = baseline + SumFunctionOnSet(f, S)
  BY DEF SteppedAt, SumFunction
<1> HIDE DEF f, S
<1>4. SumFunctionOnSet(f, S) \in Int
  BY <1>1, <1>2, SumType
<1> QED
  BY <1>3, <1>4

\* A deviation is a number.
LEMMA DeviationType ==
    ASSUME NEW actual \in Int, NEW expected \in Int, NEW baseline \in Int, NEW target \in Int
    PROVE  DeviationBp(actual, expected, baseline, target) \in Int
<1>1. (actual - expected) * FullBp \in Int /\ target - baseline \in Int
  BY FullBpAssumption
<1>2. target # baseline =>
        Quotient((actual - expected) * FullBp, target - baseline) \in Int
  <2>1. target # baseline => target - baseline # 0
    OBVIOUS
  <2> QED
    BY <1>1, <2>1, QuotientType
<1> QED
  BY <1>2 DEF DeviationBp

\* A mean with weights, none of them negative, lies between what it is a mean of.
LEMMA MeanBetween ==
    ASSUME NEW S, IsFiniteSet(S), NEW w, NEW d, NEW p,
           \A x \in S : w[x] \in Nat /\ d[x] \in Int /\ p[x] = w[x] * d[x],
           SumFunctionOnSet(w, S) > 0,
           NEW lo \in Int, NEW hi \in Int, \A x \in S : lo <= d[x] /\ d[x] <= hi
    PROVE  LET mean == Quotient(SumFunctionOnSet(p, S), SumFunctionOnSet(w, S))
           IN  mean \in Int /\ lo <= mean /\ mean <= hi
<1> DEFINE least == [x \in S |-> lo * w[x]]
           most == [x \in S |-> hi * w[x]]
           W == SumFunctionOnSet(w, S)
           P == SumFunctionOnSet(p, S)
<1>1. \A x \in S : w[x] \in Int /\ p[x] \in Int /\ least[x] \in Int /\ most[x] \in Int
  <2>1. \A a, b \in Int : a * b \in Int
    OBVIOUS
  <2>2. \A x \in S : w[x] \in Int
    OBVIOUS
  <2> QED
    BY <2>1, <2>2
<1>2. \A x \in S : least[x] <= p[x] /\ p[x] <= most[x]
  <2> SUFFICES ASSUME NEW x \in S PROVE lo * w[x] <= w[x] * d[x] /\ w[x] * d[x] <= hi * w[x]
    OBVIOUS
  <2>1. w[x] \in Nat /\ d[x] \in Int /\ lo <= d[x] /\ d[x] <= hi
    OBVIOUS
  <2>2. CASE w[x] = 0
    BY <2>1, <2>2
  <2>3. CASE w[x] # 0
    <3>1. w[x] \in Nat \ {0}
      BY <2>1, <2>3
    <3>2. w[x] * lo <= w[x] * d[x] /\ w[x] * d[x] <= w[x] * hi
      BY <2>1, <3>1, Multiples
    <3>3. w[x] * lo = lo * w[x] /\ w[x] * hi = hi * w[x]
      BY <2>1
    <3> QED
      BY <3>2, <3>3
  <2> QED
    BY <2>2, <2>3
<1>3. W \in Int /\ P \in Int /\ W > 0
  BY <1>1, SumType
<1>4. SumFunctionOnSet(least, S) = lo * W
  <2>1. \A x \in S : w[x] \in Int /\ least[x] = lo * w[x]
    BY <1>1
  <2> HIDE DEF least
  <2> QED
    BY <2>1, SumOfScaled
<1>5. SumFunctionOnSet(most, S) = hi * W
  <2>1. \A x \in S : w[x] \in Int /\ most[x] = hi * w[x]
    BY <1>1
  <2> HIDE DEF most
  <2> QED
    BY <2>1, SumOfScaled
<1> HIDE DEF least, most
<1>6. SumFunctionOnSet(least, S) <= P /\ P <= SumFunctionOnSet(most, S)
  BY <1>1, <1>2, SumIsMonotone
<1> HIDE DEF W, P
<1>7. W \in Nat \ {0} /\ W * lo <= P /\ P <= W * hi
  <2>1. lo * W = W * lo /\ hi * W = W * hi
    BY <1>3
  <2> QED
    BY <1>3, <1>4, <1>5, <1>6, <2>1
<1>8. Quotient(P, W) \in Int /\ lo <= Quotient(P, W) /\ Quotient(P, W) <= hi
  BY <1>3, <1>7, QuotientBetween
<1> QED
  BY <1>8 DEF P, W

\* The deviation of a group is none without one that can be measured, and lies
\* between those that can.
LEMMA DeviationOfAGroup ==
    ASSUME NEW items, IsFiniteSet(DOMAIN items),
           \A x \in DOMAIN items : items[x].weight \in Weight /\ items[x].deviation \in Int \cup {None},
           NEW lo \in Int, NEW hi \in Int,
           \A x \in DOMAIN items : items[x].deviation # None
                                   => lo <= items[x].deviation /\ items[x].deviation <= hi
    PROVE  LET mean == AggregateDeviationBp(items)
           IN  /\ (\A x \in DOMAIN items : items[x].deviation = None) => mean = None
               /\ (\E x \in DOMAIN items : items[x].deviation # None)
                    => mean \in Int /\ lo <= mean /\ mean <= hi
<1> DEFINE S == {x \in DOMAIN items : items[x].deviation # None}
           w == [x \in S |-> items[x].weight]
           d == [x \in S |-> items[x].deviation]
           p == [x \in S |-> items[x].weight * items[x].deviation]
           ones == [x \in S |-> 1]
           weighted == \A x \in DOMAIN items : items[x].weight # None
           mean == AggregateDeviationBp(items)
<1>1. IsFiniteSet(S)
  BY FS_Subset
<1>2. (\A x \in DOMAIN items : items[x].deviation = None) => mean = None
  <2> SUFFICES ASSUME \A x \in DOMAIN items : items[x].deviation = None PROVE mean = None
    OBVIOUS
  <2>1. S = {}
    OBVIOUS
  <2> QED
    BY <2>1 DEF AggregateDeviationBp
<1>3. SUFFICES ASSUME S # {} PROVE mean \in Int /\ lo <= mean /\ mean <= hi
  BY <1>2
<1>4. mean = IF weighted /\ SumFunction(w) > 0 THEN Quotient(SumFunction(p), SumFunction(w))
             ELSE Quotient(SumFunction(d), Cardinality(S))
  BY <1>3 DEF AggregateDeviationBp
<1>5. SumFunction(w) = SumFunctionOnSet(w, S) /\ SumFunction(p) = SumFunctionOnSet(p, S)
      /\ SumFunction(d) = SumFunctionOnSet(d, S)
  BY DEF SumFunction
<1>6. \A x \in S : d[x] \in Int /\ lo <= d[x] /\ d[x] <= hi
  OBVIOUS
<1>7. CASE weighted /\ SumFunction(w) > 0
  <2>1. \A x \in S : w[x] \in Nat /\ p[x] = w[x] * d[x]
    <3>1. \A x \in S : items[x].weight \in Nat
      BY <1>7, FullBpAssumption DEF Weight, None
    <3> QED
      BY <3>1
  <2> HIDE DEF S, w, d, p
  <2>2. LET m == Quotient(SumFunctionOnSet(p, S), SumFunctionOnSet(w, S))
        IN  m \in Int /\ lo <= m /\ m <= hi
    BY <1>1, <1>5, <1>6, <1>7, <2>1, MeanBetween
  <2> QED
    BY <1>4, <1>5, <1>7, <2>2
<1>8. CASE ~(weighted /\ SumFunction(w) > 0)
  <2>1. \A x \in S : ones[x] \in Nat /\ d[x] = ones[x] * d[x] /\ ones[x] = 1
    BY <1>6
  <2> HIDE DEF ones, S, w, d, p
  <2>2. SumFunctionOnSet(ones, S) = Cardinality(S)
    BY <1>1, <2>1, SumOfOnes
  <2>3. Cardinality(S) > 0
    <3>1. Cardinality(S) \in Nat /\ Cardinality(S) # 0
      BY <1>1, <1>3, FS_CardinalityType, FS_EmptySet
    <3> QED
      BY <3>1
  <2>4. LET m == Quotient(SumFunctionOnSet(d, S), SumFunctionOnSet(ones, S))
        IN  m \in Int /\ lo <= m /\ m <= hi
    BY <1>1, <1>6, <2>1, <2>2, <2>3, MeanBetween
  <2> QED
    BY <1>4, <1>5, <1>8, <2>2, <2>4
<1> QED
  BY <1>7, <1>8

-----------------------------------------------------------------------------
(* The state: the plan stays as it was, but for an earlier end, and loads and *)
(* progress are of their types. *)

\* Manual curves are of days, and their last point is the target.
Drawn(rows) ==
    \A i \in DOMAIN rows :
        /\ IsFiniteSet(DOMAIN rows[i].points) /\ DOMAIN rows[i].points \subseteq Nat
        /\ DOMAIN rows[i].points # {} =>
             rows[i].points[Latest(DOMAIN rows[i].points)] = rows[i].target

PlanStands ==
    /\ plan \in [range : [startsAt : Nat, endsAt : Nat], frequency : Frequencies,
                 rows : {plan.rows}, tasks : {plan.tasks}, projectEndsAt : Int]
    /\ InCalendar(plan.range, plan.frequency)
    /\ SoundRows(plan.rows) /\ SoundTasks(plan.tasks) /\ Drawn(plan.rows)
Loads == [indicator : DOMAIN plan.rows, day : Nat, value : Values, origin : {"manual", "project"}]
LoadsStand ==
    /\ IsFiniteSet(DOMAIN load) /\ DOMAIN load \subseteq LoadIds
    /\ \A l \in DOMAIN load : load[l] \in Loads
Standing ==
    /\ PlanStands
    /\ LoadsStand
    /\ progress \in [DOMAIN plan.tasks -> Progress]
    /\ now \in Instants
    /\ closed \in BOOLEAN

LEMMA InitStands == Init => Standing
<1> SUFFICES ASSUME Init PROVE Standing
  OBVIOUS
<1>1. PICK p \in Plans : plan = p /\ \A i \in DOMAIN p.rows :
          ValidTargetPoints(p.rows[i].points, p.range, p.frequency, p.rows[i].target)
  BY DEF Init
<1>2. /\ plan \in [range : [startsAt : Nat, endsAt : Nat], frequency : Frequencies,
                   rows : {plan.rows}, tasks : {plan.tasks}, projectEndsAt : Int]
      /\ plan.range.startsAt < plan.range.endsAt
      /\ \E k \in DOMAIN MonthStart : k % 12 = 0 /\ LastDay(plan.range) < MonthStart[k]
      /\ SoundRows(plan.rows) /\ SoundTasks(plan.tasks)
  BY <1>1, PlansAssumption
<1>3. InCalendar(plan.range, plan.frequency)
  <2>1. plan.range \in [startsAt : Nat, endsAt : Nat] /\ plan.frequency \in Frequencies
    BY <1>2
  <2> QED
    BY <1>2, <2>1 DEF InCalendar
<1>4. Drawn(plan.rows)
  <2> SUFFICES ASSUME NEW i \in DOMAIN plan.rows
               PROVE  LET points == plan.rows[i].points
                      IN  /\ IsFiniteSet(DOMAIN points) /\ DOMAIN points \subseteq Nat
                          /\ DOMAIN points # {} => points[Latest(DOMAIN points)] = plan.rows[i].target
    BY DEF Drawn
  <2> DEFINE points == plan.rows[i].points
             B == BuildBuckets(plan.range, plan.frequency)
  <2>1. ValidTargetPoints(points, plan.range, plan.frequency, plan.rows[i].target)
    BY <1>1
  <2>2. DOMAIN points \subseteq B
    BY <2>1 DEF ValidTargetPoints, IsValidBucketDate
  <2>3. IsFiniteSet(B) /\ B \subseteq Nat
    <3>1. IsFiniteSet(B) /\ B \subseteq FirstDay(plan.range)..LastDay(plan.range)
          /\ FirstDay(plan.range) \in Nat
      BY <1>3, BucketsAreDays
    <3> HIDE DEF B
    <3>2. \A a \in Nat : \A z : a..z \subseteq Nat
      OBVIOUS
    <3> QED
      BY <3>1, <3>2
  <2>4. IsFiniteSet(DOMAIN points) /\ DOMAIN points \subseteq Nat
    BY <2>2, <2>3, FS_Subset
  <2> QED
    BY <2>1, <2>4 DEF ValidTargetPoints
<1>5. LoadsStand
  <2>1. DOMAIN load = {}
    BY DEF Init
  <2> QED
    BY <2>1, FS_EmptySet DEF LoadsStand
<1>6. progress \in [DOMAIN plan.tasks -> Progress]
  BY FullBpAssumption DEF Init, Progress
<1>7. now \in Instants
  BY InstantsAssumption DEF Init, Earliest
<1> QED
  BY <1>2, <1>3, <1>4, <1>5, <1>6, <1>7 DEF Standing, PlanStands, Init

\* The buckets of the plan.
LEMMA BucketsStand ==
    ASSUME PlanStands
    PROVE  /\ IsFiniteSet(Buckets) /\ Buckets \subseteq Nat /\ Buckets # {}
           /\ Buckets \subseteq FirstDay(plan.range)..LastDay(plan.range)
           /\ Day(now) \in Int => BucketContaining(Day(now), Buckets) \in Buckets
<1>1. /\ IsFiniteSet(Buckets) /\ Buckets \subseteq FirstDay(plan.range)..LastDay(plan.range)
      /\ FirstDay(plan.range) \in Nat /\ FirstDay(plan.range) \in Buckets
  BY BucketsAreDays DEF PlanStands, Buckets
<1>2. Buckets \subseteq Nat /\ Buckets \subseteq Int
  <2>1. \A a \in Nat : \A z : a..z \subseteq Nat
    OBVIOUS
  <2> QED
    BY <1>1, <2>1
<1> QED
  BY <1>1, <1>2, BucketOfADay

\* A new load is one more.
LEMMA NewLoadStands ==
    ASSUME LoadsStand, NEW i \in DOMAIN plan.rows, NEW day \in Nat, NEW value \in Values,
           NEW origin \in {"manual", "project"}, NewLoad(i, day, value, origin), plan' = plan
    PROVE  LoadsStand'
<1>1. PICK l \in LoadIds \ DOMAIN load :
          load' = [x \in DOMAIN load \cup {l} |->
                      IF x = l THEN [indicator |-> i, day |-> day, value |-> value, origin |-> origin]
                      ELSE load[x]]
  BY DEF NewLoad
<1>2. DOMAIN load' = DOMAIN load \cup {l}
  BY <1>1
<1>3. IsFiniteSet(DOMAIN load') /\ DOMAIN load' \subseteq LoadIds
  BY <1>2, FS_AddElement DEF LoadsStand
<1>4. \A x \in DOMAIN load' : load'[x] \in Loads
  BY <1>1 DEF LoadsStand, Loads
<1> QED
  BY <1>3, <1>4 DEF LoadsStand, Loads

\* A plan that is cut short today stands.
LEMMA ClosingStands ==
    ASSUME Standing, ClosePeriod
    PROVE  /\ PlanStands' /\ plan'.rows = plan.rows /\ plan'.tasks = plan.tasks
           /\ plan'.frequency = plan.frequency
           /\ \/ plan' = plan
              \/ /\ plan'.range = [plan.range EXCEPT !.endsAt = Midnight(Day(now))]
                 /\ now < plan.range.endsAt /\ Midnight(Day(now)) > plan.range.startsAt
<1>1. CASE ~(now < plan.range.endsAt)
  <2>1. plan' = plan
    BY <1>1 DEF ClosePeriod
  <2> QED
    BY <2>1 DEF Standing, PlanStands
<1>2. CASE now < plan.range.endsAt
  <2> DEFINE cut == [plan.range EXCEPT !.endsAt = Midnight(Day(now))]
  <2>1. plan' = [plan EXCEPT !.range.endsAt = Midnight(Day(now))]
        /\ Midnight(Day(now)) > plan.range.startsAt
    BY <1>2 DEF ClosePeriod
  <2>2. plan' = [plan EXCEPT !.range = cut]
    BY <2>1
  <2>3. InCalendar(cut, plan.frequency)
    <3>1. now \in Nat
      BY InstantsAssumption DEF Standing
    <3> QED
      BY <1>2, <2>1, <3>1, ClosingAddsNothing DEF Standing, PlanStands
  <2> HIDE DEF cut
  <2>4. plan'.range = cut /\ plan'.frequency = plan.frequency /\ plan'.rows = plan.rows
        /\ plan'.tasks = plan.tasks /\ plan'.projectEndsAt = plan.projectEndsAt
    BY <2>2 DEF Standing, PlanStands
  <2>5. cut \in [startsAt : Nat, endsAt : Nat]
    BY <2>3 DEF InCalendar
  <2>6. plan' \in [range : [startsAt : Nat, endsAt : Nat], frequency : Frequencies,
                   rows : {plan.rows}, tasks : {plan.tasks}, projectEndsAt : Int]
    BY <2>2, <2>5 DEF Standing, PlanStands
  <2> QED
    BY <1>2, <2>1, <2>3, <2>4, <2>6 DEF Standing, PlanStands, cut
<1> QED
  BY <1>1, <1>2

LEMMA NextStands == ASSUME Standing, [Next]_vars PROVE Standing'
<1> USE DEF Standing
<1>1. CASE UNCHANGED vars
  BY <1>1 DEF vars, PlanStands, LoadsStand, Loads
<1>2. CASE Pass
  BY <1>2 DEF Pass, PlanStands, LoadsStand, Loads
<1>3. ASSUME NEW i \in DOMAIN plan.rows, NEW day \in Buckets, NEW value \in Values, Load(i, day, value)
      PROVE  Standing'
  <2>1. day \in Nat
    BY BucketsStand
  <2>2. LoadsStand'
    BY <1>3, <2>1, NewLoadStands DEF Load
  <2> QED
    BY <1>3, <2>2 DEF Load, PlanStands
<1>4. ASSUME NEW l \in ManualLoads, NEW value \in Values, ChangeLoad(l, value)
      PROVE  Standing'
  <2>1. l \in DOMAIN load
    BY DEF ManualLoads
  <2>2. DOMAIN load' = DOMAIN load /\ \A x \in DOMAIN load : load'[x] \in Loads
    BY <1>4, <2>1 DEF ChangeLoad, LoadsStand, Loads
  <2>3. LoadsStand'
    BY <1>4, <2>2 DEF ChangeLoad, LoadsStand, Loads
  <2> QED
    BY <1>4, <2>3 DEF ChangeLoad, PlanStands
<1>5. ASSUME NEW l \in ManualLoads, RemoveLoad(l)
      PROVE  Standing'
  <2>1. DOMAIN load' = DOMAIN load \ {l} /\ \A x \in DOMAIN load' : load'[x] = load[x]
    BY <1>5 DEF RemoveLoad
  <2>2. LoadsStand'
    BY <1>5, <2>1, FS_RemoveElement DEF RemoveLoad, LoadsStand, Loads
  <2> QED
    BY <1>5, <2>2 DEF RemoveLoad, PlanStands
<1>6. ASSUME NEW i \in DOMAIN plan.rows, NEW value \in Values, AutomaticLoad(i, value)
      PROVE  Standing'
  <2>1. BucketContaining(Day(now), Buckets) \in Nat
    <3>1. Day(now) \in Nat
      BY InstantsAssumption, DaysAndInstants
    <3> QED
      BY <3>1, BucketsStand
  <2>2. LoadsStand'
    BY <1>6, <2>1, NewLoadStands DEF AutomaticLoad
  <2> QED
    BY <1>6, <2>2 DEF AutomaticLoad, PlanStands
<1>7. ASSUME NEW t \in DOMAIN plan.tasks, NEW bp \in {FullBp \div 2, FullBp}, LoadTask(t, bp)
      PROVE  Standing'
  <2>1. bp \in Progress
    BY FullBpAssumption DEF Progress
  <2> QED
    BY <1>7, <2>1 DEF LoadTask, PlanStands, LoadsStand, Loads
<1>8. CASE ClosePeriod
  <2>1. PlanStands' /\ plan'.rows = plan.rows /\ plan'.tasks = plan.tasks
    BY <1>8, ClosingStands
  <2> QED
    BY <1>8, <2>1 DEF ClosePeriod, LoadsStand, Loads
<1> QED
  BY <1>1, <1>2, <1>3, <1>4, <1>5, <1>6, <1>7, <1>8 DEF Next

LEMMA SpecStands == Spec => []Standing
<1>1. Init => Standing
  BY InitStands
<1>2. Standing /\ [Next]_vars => Standing'
  BY NextStands
<1> QED
  BY <1>1, <1>2, PTL DEF Spec

-----------------------------------------------------------------------------
(* What the readings say of a state. *)

LEMMA AskedOnTime == ASSUME Standing PROVE LoadsAreAskedOnTime
<1>1. InCalendar(plan.range, plan.frequency)
  BY DEF Standing, PlanStands
<1>2. BucketsFollowTheCalendar
  BY <1>1, BucketsAreDays DEF BucketsFollowTheCalendar, Buckets
<1>3. Day(now) \in Int
  <2>1. Day(now) \in Nat
    BY InstantsAssumption, DaysAndInstants DEF Standing
  <2> QED
    BY <2>1
<1>4. PendingIsOverdue
  <2> SUFFICES ASSUME NEW i \in DOMAIN plan.rows, NEW bucket \in Buckets
               PROVE  LET days == {d \in FirstDay(plan.range)..LastDay(plan.range) :
                                      BucketContaining(d, Buckets) = bucket}
                      IN  /\ bucket \in Pending(i) =>
                               bucket \notin LoadedDays(i) /\ \A d \in days : Day(now) - d > GraceDays
                          /\ bucket \notin LoadedDays(i) /\ (\A d \in days : Day(now) - d > GraceDays + 1)
                               => bucket \in Pending(i)
    BY DEF PendingIsOverdue
  <2> QED
    BY <1>1, <1>3, PendingAndOverdue DEF Pending, Buckets
<1> QED
  BY <1>2, <1>4 DEF LoadsAreAskedOnTime

\* The row of an indicator.
LEMMA RowTypes ==
    ASSUME Standing, NEW i \in DOMAIN plan.rows
    PROVE  /\ Row(i).mode \in {"linear", "manual", "from_projects"}
           /\ Row(i).baseline \in Int /\ Row(i).target \in Int /\ Row(i).metricBaseline \in Int
           /\ Row(i).weight \in Weight
           /\ IsFiniteSet(DOMAIN Row(i).points) /\ DOMAIN Row(i).points \subseteq Nat
           /\ \A d \in DOMAIN Row(i).points : Row(i).points[d] \in Int
           /\ DOMAIN Row(i).points # {} =>
                /\ Row(i).points[Latest(DOMAIN Row(i).points)] = Row(i).target
                /\ Latest(DOMAIN Row(i).points) \in Nat
           /\ IsFiniteSet(DOMAIN Row(i).steps)
           /\ \A s \in DOMAIN Row(i).steps : Row(i).steps[s].value \in Int
<1> DEFINE row == plan.rows[i]
<1>1. row \in [mode : {"linear", "manual", "from_projects"},
           baseline : Int, target : Int, metricBaseline : Int, weight : Weight,
           points : {plan.rows[j].points : j \in DOMAIN plan.rows},
           steps : {plan.rows[j].steps : j \in DOMAIN plan.rows}]
  BY DEF Standing, PlanStands, SoundRows
<1>2. /\ row.mode \in {"linear", "manual", "from_projects"}
      /\ row.baseline \in Int /\ row.target \in Int /\ row.metricBaseline \in Int
      /\ row.weight \in Weight
  BY <1>1
<1>3. /\ \A d \in DOMAIN row.points : row.points[d] \in Int
      /\ IsFiniteSet(DOMAIN row.steps)
      /\ \A s \in DOMAIN row.steps : row.steps[s].value \in Int
  BY DEF Standing, PlanStands, SoundRows
<1>4. /\ IsFiniteSet(DOMAIN row.points) /\ DOMAIN row.points \subseteq Nat
      /\ DOMAIN row.points # {} => row.points[Latest(DOMAIN row.points)] = row.target
  BY DEF Standing, PlanStands, Drawn
<1>5. DOMAIN row.points # {} => Latest(DOMAIN row.points) \in Nat
  <2>1. DOMAIN row.points \subseteq Int
    BY <1>4
  <2> HIDE DEF row
  <2> QED
    BY <1>4, <2>1, HasLatest
<1> QED
  BY <1>2, <1>3, <1>4, <1>5 DEF Row

\* Whatever its mode, a curve is a number at every day.
LEMMA CurveType ==
    ASSUME Standing, NEW i \in DOMAIN plan.rows, NEW day \in Nat
    PROVE  ExpectedCurve(Row(i), Midnight(day), plan.range) \in Int
<1> DEFINE row == Row(i)
           range == plan.range
<1>1. range.startsAt \in Nat /\ range.endsAt \in Nat /\ range.startsAt < range.endsAt
  BY DEF Standing, PlanStands, InCalendar
<1>2. Midnight(day) \in Int
  <2>1. Midnight(day) \in Nat
    BY DaysAndInstants
  <2> QED
    BY <2>1
<1>3. /\ row.mode \in {"linear", "manual", "from_projects"}
      /\ row.baseline \in Int /\ row.target \in Int
      /\ IsFiniteSet(DOMAIN row.points) /\ DOMAIN row.points \subseteq Nat
      /\ \A d \in DOMAIN row.points : row.points[d] \in Int
      /\ IsFiniteSet(DOMAIN row.steps) /\ \A s \in DOMAIN row.steps : row.steps[s].value \in Int
  BY RowTypes
<1> HIDE DEF row, range
<1>4. CASE row.mode = "manual"
  <2>1. ManualAt(Midnight(day), row.points, range, row.baseline) \in Int
    BY <1>1, <1>3, ManualCurve
  <2> QED
    BY <1>4, <2>1 DEF ExpectedCurve, row, range
<1>5. CASE row.mode = "from_projects"
  <2>1. SteppedAt(Midnight(day), row.baseline, row.steps) \in Int
    BY <1>3, SteppedCurve
  <2> QED
    BY <1>5, <2>1 DEF ExpectedCurve, row, range
<1>6. CASE row.mode = "linear"
  <2>1. ExpectedAt(Midnight(day), range, row.baseline, row.target) \in Int
    BY <1>1, <1>2, <1>3, LinearCurve
  <2> QED
    BY <1>6, <2>1 DEF ExpectedCurve, row, range
<1> QED
  BY <1>3, <1>4, <1>5, <1>6

LEMMA CurvesKeep == ASSUME Standing PROVE CurvesKeepTheirPromise
<1>1. Day(now) \in Nat
  BY InstantsAssumption, DaysAndInstants DEF Standing
<1>2. CurvesReachTheirTarget
  <2> SUFFICES ASSUME NEW i \in DOMAIN plan.rows
               PROVE  /\ Row(i).mode = "linear" =>
                           /\ Between(ExpectedToday(i), Row(i).baseline, Row(i).target)
                           /\ Midnight(Day(now)) >= plan.range.endsAt => ExpectedToday(i) = Row(i).target
                      /\ Row(i).mode = "manual" /\ DOMAIN Row(i).points # {} =>
                           (Day(now) >= Latest(DOMAIN Row(i).points) => ExpectedToday(i) = Row(i).target)
    BY DEF CurvesReachTheirTarget
  <2> DEFINE row == Row(i)
             range == plan.range
  <2>1. range.startsAt \in Nat /\ range.endsAt \in Nat /\ range.startsAt < range.endsAt
    BY DEF Standing, PlanStands, InCalendar
  <2>2. Midnight(Day(now)) \in Int
    <3>1. Midnight(Day(now)) \in Nat
      BY <1>1, DaysAndInstants
    <3> QED
      BY <3>1
  <2>3. /\ row.baseline \in Int /\ row.target \in Int
        /\ IsFiniteSet(DOMAIN row.points) /\ DOMAIN row.points \subseteq Nat
        /\ \A d \in DOMAIN row.points : row.points[d] \in Int
        /\ DOMAIN row.points # {} => row.points[Latest(DOMAIN row.points)] = row.target
    BY RowTypes
  <2>4. ExpectedToday(i) = ExpectedCurve(row, Midnight(Day(now)), range)
    BY DEF ExpectedToday
  <2> HIDE DEF row, range
  <2>5. CASE row.mode = "linear"
    <3>1. LET expected == ExpectedAt(Midnight(Day(now)), range, row.baseline, row.target)
          IN  /\ Between(expected, row.baseline, row.target)
              /\ Midnight(Day(now)) >= range.endsAt => expected = row.target
      BY <2>1, <2>2, <2>3, LinearCurve
    <3>2. ExpectedToday(i) = ExpectedAt(Midnight(Day(now)), range, row.baseline, row.target)
      BY <2>4, <2>5 DEF ExpectedCurve
    <3> QED
      BY <2>5, <3>1, <3>2 DEF row, range
  <2>6. CASE row.mode = "manual"
    <3>1. ExpectedToday(i) = ManualAt(Midnight(Day(now)), row.points, range, row.baseline)
      BY <2>4, <2>6 DEF ExpectedCurve
    <3>2. DOMAIN row.points # {} /\ Day(now) >= Latest(DOMAIN row.points)
            => ManualAt(Midnight(Day(now)), row.points, range, row.baseline)
                 = row.points[Latest(DOMAIN row.points)]
      BY <1>1, <2>1, <2>3, ManualCurve
    <3> QED
      BY <2>3, <2>6, <3>1, <3>2 DEF row, range
  <2> QED
    BY <2>5, <2>6 DEF row
<1>3. WarningAgreesWithCurve
  <2> SUFFICES ASSUME NEW i \in DOMAIN plan.rows, Row(i).mode = "from_projects",
                      \A s \in DOMAIN Row(i).steps : Row(i).steps[s].endsAt <= Midnight(Day(now))
               PROVE  CoversTarget(Row(i).baseline, Row(i).target,
                                   [s \in DOMAIN Row(i).steps |-> Row(i).steps[s].value])
                      <=> IF Row(i).target >= Row(i).baseline THEN ExpectedToday(i) >= Row(i).target
                          ELSE ExpectedToday(i) <= Row(i).target
    BY DEF WarningAgreesWithCurve
  <2> DEFINE row == Row(i)
             at == Midnight(Day(now))
             values == [s \in DOMAIN row.steps |-> row.steps[s].value]
  <2>1. ExpectedToday(i) = SteppedAt(at, row.baseline, row.steps)
    BY DEF ExpectedToday, ExpectedCurve
  <2>2. {s \in DOMAIN row.steps : row.steps[s].endsAt <= at} = DOMAIN row.steps
    OBVIOUS
  <2>3. SteppedAt(at, row.baseline, row.steps) = row.baseline + SumFunction(values)
    BY <2>2 DEF SteppedAt
  <2> QED
    BY <2>1, <2>3 DEF CoversTarget
<1> QED
  BY <1>2, <1>3 DEF CurvesKeepTheirPromise

\* What was loaded of an indicator, and the value it amounts to.
LEMMA LoadsType ==
    ASSUME Standing, NEW i \in DOMAIN plan.rows
    PROVE  /\ IsFiniteSet(DOMAIN LoadsOf(i)) /\ DOMAIN LoadsOf(i) \subseteq DOMAIN load
           /\ \A l \in DOMAIN LoadsOf(i) : /\ LoadsOf(i)[l] = load[l] /\ load[l].value \in Int
                                           /\ load[l].day \in Nat
           /\ ActualValue(i) \in Int
           /\ DOMAIN LoadsOf(i) # {} =>
                /\ AsOf(i) \in LoadedDays(i) /\ AsOf(i) \in Nat
                /\ \A d \in LoadedDays(i) : d <= AsOf(i)
<1> DEFINE S == DOMAIN LoadsOf(i)
           days == LoadedDays(i)
<1>1. S = {x \in DOMAIN load : load[x].indicator = i} /\ \A l \in S : LoadsOf(i)[l] = load[l]
  BY DEF LoadsOf
<1>2. IsFiniteSet(S) /\ S \subseteq DOMAIN load
  BY <1>1, FS_Subset DEF Standing, LoadsStand
<1>3. \A l \in S : load[l].value \in Int /\ load[l].day \in Nat
  BY <1>1, ValuesAssumption DEF Standing, LoadsStand, Loads
<1>4. days = {load[l].day : l \in S}
  BY DEF LoadedDays
<1>5. ActualValue(i) \in Int
  <2> DEFINE f == [l \in S |-> load[l].value]
  <2>1. ActualValue(i) = Row(i).metricBaseline + SumFunctionOnSet(f, S)
    BY DEF ActualValue, AccumulatedValue, Increments, SumFunction
  <2>2. \A l \in S : f[l] \in Int
    BY <1>3
  <2> HIDE DEF f, S
  <2>3. SumFunctionOnSet(f, S) \in Int
    BY <1>2, <2>2, SumType
  <2>4. Row(i).metricBaseline \in Int
    BY RowTypes
  <2> QED
    BY <2>1, <2>3, <2>4
<1> HIDE DEF S
<1>6. ASSUME S # {}
      PROVE  AsOf(i) \in days /\ AsOf(i) \in Nat /\ \A d \in days : d <= AsOf(i)
  <2> DEFINE f == [l \in S |-> load[l].day]
  <2>1. f \in Surjection(S, days)
    BY <1>4 DEF Surjection
  <2>2. IsFiniteSet(days)
    BY <1>2, <2>1, FS_Surjection
  <2>3. days \subseteq Nat /\ days # {}
    BY <1>3, <1>4, <1>6
  <2>4. days \subseteq Int
    BY <2>3
  <2> HIDE DEF days
  <2>5. Latest(days) \in days /\ \A d \in days : d <= Latest(days)
    BY <2>2, <2>3, <2>4, HasLatest
  <2> QED
    BY <2>3, <2>5 DEF AsOf, days
<1> QED
  BY <1>1, <1>2, <1>3, <1>5, <1>6 DEF S

\* The status of an indicator: measured when it has a load.
LEMMA StatusType ==
    ASSUME Standing, NEW i \in DOMAIN plan.rows
    PROVE  LET expected == ExpectedCurve(Row(i), Midnight(AsOf(i)), plan.range)
               status == BuildStatus(i)
           IN  /\ status.hasData = (DOMAIN LoadsOf(i) # {})
               /\ status.semaphore = SemaphoreOf(status.deviation)
               /\ DOMAIN LoadsOf(i) = {} => status.deviation = None
               /\ DOMAIN LoadsOf(i) # {} =>
                    /\ expected \in Int
                    /\ status.deviation = DeviationBp(ActualValue(i), expected, Row(i).baseline, Row(i).target)
                    /\ status.deviation \in Int /\ status.deviation # None
<1> DEFINE expected == ExpectedCurve(Row(i), Midnight(AsOf(i)), plan.range)
           status == BuildStatus(i)
           hasData == DOMAIN LoadsOf(i) # {}
           deviation == DeviationBp(ActualValue(i), expected, Row(i).baseline, Row(i).target)
<1>1. /\ status.hasData = hasData
      /\ status.deviation = IF hasData THEN deviation ELSE None
      /\ status.semaphore = SemaphoreOf(status.deviation)
  BY DEF BuildStatus
<1>2. hasData => expected \in Int
  BY LoadsType, CurveType
<1>3. hasData => deviation \in Int
  <2>1. ActualValue(i) \in Int /\ Row(i).baseline \in Int /\ Row(i).target \in Int
    BY LoadsType, RowTypes
  <2> HIDE DEF expected
  <2> QED
    BY <1>2, <2>1, DeviationType
<1>4. None \notin Int
  BY NoWeightAssumption DEF None
<1> QED
  BY <1>1, <1>2, <1>3, <1>4

LEMMA SeriesEnds == ASSUME Standing PROVE SeriesEndsAtTheValue
<1> SUFFICES ASSUME NEW i \in DOMAIN plan.rows, BuildStatus(i).hasData
             PROVE  Series(i)[AsOf(i)] = ActualValue(i)
  BY DEF SeriesEndsAtTheValue
<1>1. DOMAIN LoadsOf(i) # {}
  BY StatusType
<1> DEFINE S == DOMAIN LoadsOf(i)
<1>2. /\ \A l \in S : LoadsOf(i)[l] = load[l] /\ load[l].day \in Nat
      /\ AsOf(i) \in LoadedDays(i) /\ \A d \in LoadedDays(i) : d <= AsOf(i)
  BY <1>1, LoadsType
<1>3. LoadedDays(i) = {LoadsOf(i)[l].day : l \in S}
  BY <1>2 DEF LoadedDays
<1>4. Series(i)[AsOf(i)] = CumulativeToDate(LoadsOf(i), Row(i).metricBaseline, AsOf(i))
  BY <1>2, <1>3 DEF Series, CumulativeSeries
<1>5. {l \in S : LoadsOf(i)[l].day <= AsOf(i)} = S
  BY <1>2, <1>3
<1>6. [x \in S |-> LoadsOf(i)[x].value] = Increments(i)
  BY <1>2 DEF Increments
<1> QED
  BY <1>4, <1>5, <1>6 DEF CumulativeToDate, ActualValue, AccumulatedValue

LEMMA ReachedIsGreen == ASSUME Standing PROVE ReachedIsNotBehind
<1> SUFFICES ASSUME NEW i \in DOMAIN plan.rows, Row(i).mode = "linear", BuildStatus(i).hasData, Reached(i)
             PROVE  BuildStatus(i).semaphore = "green"
  BY DEF ReachedIsNotBehind
<1> DEFINE row == Row(i)
           actual == ActualValue(i)
           expected == ExpectedCurve(row, Midnight(AsOf(i)), plan.range)
           deviation == BuildStatus(i).deviation
<1>1. DOMAIN LoadsOf(i) # {}
  BY StatusType
<1>2. /\ deviation = DeviationBp(actual, expected, row.baseline, row.target)
      /\ deviation \in Int /\ deviation # None /\ BuildStatus(i).semaphore = SemaphoreOf(deviation)
  BY <1>1, StatusType
<1>3. actual \in Int /\ row.baseline \in Int /\ row.target \in Int
  BY LoadsType, RowTypes
<1>4. expected \in Int /\ Between(expected, row.baseline, row.target)
  <2>1. plan.range.startsAt \in Nat /\ plan.range.endsAt \in Nat /\ plan.range.startsAt < plan.range.endsAt
    BY DEF Standing, PlanStands, InCalendar
  <2>2. Midnight(AsOf(i)) \in Int
    <3>1. AsOf(i) \in Nat
      BY <1>1, LoadsType
    <3>2. Midnight(AsOf(i)) \in Nat
      BY <3>1, DaysAndInstants
    <3> QED
      BY <3>2
  <2>3. expected = ExpectedAt(Midnight(AsOf(i)), plan.range, row.baseline, row.target)
    BY DEF ExpectedCurve
  <2> HIDE DEF expected, row
  <2> QED
    BY <1>3, <2>1, <2>2, <2>3, LinearCurve
<1>5. IF row.target >= row.baseline THEN actual >= row.target ELSE actual <= row.target
  BY DEF Reached
<1> HIDE DEF row, actual, expected, deviation
<1>6. deviation >= 0
  <2>1. CASE row.target = row.baseline
    BY <1>2, <2>1 DEF DeviationBp
  <2>2. CASE row.target > row.baseline
    <3>1. actual - expected >= 0 /\ actual - expected \in Int
      BY <1>3, <1>4, <1>5, <2>2 DEF Between
    <3>2. (actual - expected) * FullBp >= 0 /\ (actual - expected) * FullBp \in Int
      BY <3>1, FullBpAssumption
    <3>3. row.target - row.baseline > 0 /\ row.target - row.baseline \in Int
      BY <1>3, <2>2
    <3>4. Quotient((actual - expected) * FullBp, row.target - row.baseline) >= 0
      BY <3>2, <3>3, QuotientType
    <3> QED
      BY <1>2, <2>2, <1>3, <3>4 DEF DeviationBp
  <2>3. CASE row.target < row.baseline
    <3>1. actual - expected <= 0 /\ actual - expected \in Int
      BY <1>3, <1>4, <1>5, <2>3 DEF Between
    <3>2. (actual - expected) * FullBp <= 0 /\ (actual - expected) * FullBp \in Int
      BY <3>1, FullBpAssumption
    <3>3. row.target - row.baseline < 0 /\ row.target - row.baseline \in Int
      BY <1>3, <2>3
    <3>4. Quotient((actual - expected) * FullBp, row.target - row.baseline) >= 0
      BY <3>2, <3>3, QuotientType
    <3> QED
      BY <1>2, <2>3, <1>3, <3>4 DEF DeviationBp
  <2> QED
    BY <1>3, <2>1, <2>2, <2>3
<1>7. -YellowBp <= 0 /\ -YellowBp \in Int
  BY FullBpAssumption DEF YellowBp
<1>8. deviation >= -YellowBp
  BY <1>2, <1>6, <1>7
<1>9. SemaphoreOf(deviation) = "green"
  BY <1>2, <1>8 DEF SemaphoreOf, Semaphore
<1> QED
  BY <1>2, <1>9

LEMMA WithinItsIndicators == ASSUME Standing PROVE ObjectiveWithinItsIndicators
<1> DEFINE D == DOMAIN plan.rows
           dev == [i \in D |-> BuildStatus(i).deviation]
           items == [i \in D |-> [weight |-> Row(i).weight, deviation |-> dev[i]]]
           measured == {BuildStatus(i).deviation : i \in D} \ {None}
           deviation == ObjectiveStatus.result.deviation
<1>1. deviation = AggregateDeviationBp(items)
  <2> DEFINE statuses == [i \in D |-> BuildStatus(i)]
             given == [i \in D |-> [weight |-> Row(i).weight, deviation |-> statuses[i].deviation]]
  <2>1. deviation = AggregateDeviationBp(given)
    BY DEF ObjectiveStatus
  <2>2. given = items
    OBVIOUS
  <2> QED
    BY <2>1, <2>2
<1>2. IsFiniteSet(D)
  BY DEF Standing, PlanStands, SoundRows
<1>3. None \notin Int
  BY NoWeightAssumption DEF None
<1>4. \A i \in D : dev[i] \in Int \cup {None}
  <2> SUFFICES ASSUME NEW i \in D PROVE BuildStatus(i).deviation \in Int \cup {None}
    OBVIOUS
  <2> QED
    BY StatusType
<1>5. \A i \in D : Row(i).weight \in Weight
  BY RowTypes
<1>6. measured = {dev[i] : i \in D} \ {None}
  OBVIOUS
<1> HIDE DEF dev, measured, deviation
<1>7. /\ DOMAIN items = D
      /\ \A i \in D : items[i].weight \in Weight /\ items[i].deviation \in Int \cup {None}
      /\ \A i \in D : items[i].deviation = dev[i]
  BY <1>4, <1>5
<1> HIDE DEF items
<1>8. CASE measured = {}
  <2>1. \A i \in D : dev[i] = None
    BY <1>6, <1>8
  <2>2. (\A x \in DOMAIN items : items[x].deviation = None) => AggregateDeviationBp(items) = None
    <3>1. 0 \in Int /\ \A i \in D : items[i].deviation # None => 0 <= items[i].deviation /\ items[i].deviation <= 0
      BY <1>7, <2>1
    <3> QED
      BY <1>2, <1>7, <3>1, DeviationOfAGroup
  <2>3. deviation = None
    BY <1>1, <1>7, <2>1, <2>2
  <2> QED
    BY <1>8, <2>3 DEF ObjectiveWithinItsIndicators, measured, deviation
<1>9. CASE measured # {}
  <2>1. IsFiniteSet(measured)
    <3> DEFINE all == {dev[i] : i \in D}
               f == [i \in D |-> dev[i]]
    <3>1. f \in Surjection(D, all)
      BY DEF Surjection
    <3>2. IsFiniteSet(all)
      BY <1>2, <3>1, FS_Surjection
    <3> QED
      BY <1>6, <3>2, FS_Subset
  <2>2. measured \subseteq Int
    BY <1>4, <1>6
  <2> DEFINE lo == Earliest(measured)
             hi == Latest(measured)
  <2>3. lo \in Int /\ hi \in Int /\ \A x \in measured : lo <= x /\ x <= hi
    BY <1>9, <2>1, <2>2, HasEarliest, HasLatest
  <2> HIDE DEF lo, hi
  <2>4. \A i \in D : items[i].deviation # None => lo <= items[i].deviation /\ items[i].deviation <= hi
    BY <1>6, <1>7, <2>3
  <2>5. \E i \in D : items[i].deviation # None
    BY <1>6, <1>7, <1>9
  <2>6. AggregateDeviationBp(items) \in Int /\ lo <= AggregateDeviationBp(items)
        /\ AggregateDeviationBp(items) <= hi
    BY <1>2, <1>7, <2>3, <2>4, <2>5, DeviationOfAGroup
  <2>7. deviation # None /\ lo <= deviation /\ deviation <= hi
    BY <1>1, <1>3, <2>6
  <2> QED
    BY <1>9, <2>7 DEF ObjectiveWithinItsIndicators, measured, deviation, lo, hi
<1> QED
  BY <1>8, <1>9

\* A progress is between nothing and one hundred percent.
LEMMA ProgressBpType ==
    ASSUME NEW actual \in Int, NEW baseline \in Int, NEW target \in Int
    PROVE  ProgressBp(actual, baseline, target) \in Progress
<1> DEFINE a == (actual - baseline) * FullBp
           b == target - baseline
           raw == Quotient(a, b)
<1>1. a \in Int /\ b \in Int /\ FullBp \in Nat /\ (b = 0 <=> target = baseline)
  BY FullBpAssumption
<1> HIDE DEF a, b
<1>2. b # 0 => raw \in Int
  BY <1>1, QuotientType
<1>3. ProgressBp(actual, baseline, target) =
        IF target = baseline THEN IF actual = target THEN FullBp ELSE 0
        ELSE IF raw <= 0 THEN 0 ELSE IF raw >= FullBp THEN FullBp ELSE raw
  BY DEF ProgressBp, a, b
<1> HIDE DEF raw
<1> QED
  BY <1>1, <1>2, <1>3 DEF Progress

\* What was planned of a task is a progress: all of it once the task is over.
LEMMA PlannedType ==
    ASSUME NEW task, task.startsAt \in Int, task.endsAt \in Int, NEW at \in Int
    PROVE  /\ PlannedTaskProgressBp(task, at) \in Progress
           /\ at >= task.endsAt => PlannedTaskProgressBp(task, at) = FullBp
<1>1. CASE at >= task.endsAt
  BY <1>1, FullBpAssumption DEF PlannedTaskProgressBp, Progress
<1>2. CASE ~(at >= task.endsAt) /\ at <= task.startsAt
  BY <1>2, FullBpAssumption DEF PlannedTaskProgressBp, Progress
<1>3. CASE ~(at >= task.endsAt) /\ ~(at <= task.startsAt)
  <2> DEFINE k == at - task.startsAt
             n == task.endsAt - task.startsAt
  <2>1. k \in Nat \ {0} /\ n \in Nat \ {0} /\ k <= n
    BY <1>3
  <2>2. PlannedTaskProgressBp(task, at) = (k * FullBp) \div n
    BY <1>3 DEF PlannedTaskProgressBp
  <2> HIDE DEF k, n
  <2>3. FullBp * k <= FullBp * n /\ FullBp * k \in Nat
    BY <2>1, FullBpAssumption, Multiples
  <2>4. k * FullBp = FullBp * k /\ n * FullBp = FullBp * n
    BY <2>1, FullBpAssumption
  <2>5. k * FullBp \in Nat /\ k * FullBp <= n * FullBp /\ FullBp \in Nat
    BY <2>3, <2>4, FullBpAssumption
  <2>6. (k * FullBp) \div n \in 0..FullBp
    BY <2>1, <2>5, TruncatedQuotient
  <2> QED
    BY <1>3, <2>2, <2>6 DEF Progress
<1> QED
  BY <1>1, <1>2, <1>3

\* The mean of a group looks at weights and progress only.
LEMMA AggregateOfAGroup ==
    ASSUME NEW items, IsFiniteSet(DOMAIN items),
           \A x \in DOMAIN items : items[x].weight \in Weight /\ items[x].progress \in Progress,
           ValidWeightGroup([x \in DOMAIN items |-> items[x].weight])
    PROVE  /\ AggregateProgressBp(items) \in Progress
           /\ AggregateProgressBp(items) = FullBp <=> CompleteGroup(items)
<1> DEFINE S == DOMAIN items
           g == [x \in S |-> [weight |-> items[x].weight, progress |-> items[x].progress]]
<1>1. g \in [S -> [weight : Weight, progress : Progress]]
  OBVIOUS
<1>2. [x \in S |-> g[x].weight] = [x \in S |-> items[x].weight]
  OBVIOUS
<1>3. AggregateProgressBp(g) = AggregateProgressBp(items)
  <2>1. [x \in S |-> g[x].progress] = [x \in S |-> items[x].progress]
    OBVIOUS
  <2>2. [x \in S |-> g[x].weight * g[x].progress] = [x \in S |-> items[x].weight * items[x].progress]
    OBVIOUS
  <2>3. DOMAIN g = S
    OBVIOUS
  <2> HIDE DEF g
  <2> QED
    BY <1>2, <2>1, <2>2, <2>3 DEF AggregateProgressBp
<1>4. CompleteGroup(g) <=> CompleteGroup(items)
  BY DEF CompleteGroup
<1> HIDE DEF g
<1>5. /\ AggregateProgressBp(g) \in Progress
      /\ AggregateProgressBp(g) = FullBp <=> CompleteGroup(g)
  BY <1>1, <1>2, AggregateIsExact
<1> QED
  BY <1>3, <1>4, <1>5

\* The tasks of the project as the readings see them.
LEMMA TasksType ==
    ASSUME Standing
    PROVE  /\ DOMAIN Tasks = DOMAIN plan.tasks /\ IsFiniteSet(DOMAIN Tasks)
           /\ \A t \in DOMAIN Tasks :
                /\ Tasks[t].weight = plan.tasks[t].weight /\ Tasks[t].weight \in Weight
                /\ Tasks[t].startsAt \in Int
                /\ Tasks[t].endsAt = plan.tasks[t].endsAt /\ Tasks[t].endsAt \in Int
                /\ Tasks[t].progress = progress[t] /\ Tasks[t].progress \in Progress
           /\ ValidWeightGroup([t \in DOMAIN Tasks |-> Tasks[t].weight])
<1>1. /\ IsFiniteSet(DOMAIN plan.tasks)
      /\ \A t \in DOMAIN plan.tasks : /\ plan.tasks[t].startsAt \in Int /\ plan.tasks[t].endsAt \in Int
                                      /\ plan.tasks[t].weight \in Weight
      /\ ValidWeightGroup([t \in DOMAIN plan.tasks |-> plan.tasks[t].weight])
  BY DEF Standing, PlanStands, SoundTasks
<1>2. DOMAIN Tasks = DOMAIN plan.tasks
      /\ \A t \in DOMAIN plan.tasks :
           Tasks[t] = [weight |-> plan.tasks[t].weight, startsAt |-> plan.tasks[t].startsAt,
                       endsAt |-> plan.tasks[t].endsAt, progress |-> progress[t]]
  BY DEF Tasks
<1>3. \A t \in DOMAIN plan.tasks : progress[t] \in Progress
  BY DEF Standing
<1>4. \A t \in DOMAIN plan.tasks :
        /\ Tasks[t].weight = plan.tasks[t].weight /\ Tasks[t].startsAt = plan.tasks[t].startsAt
        /\ Tasks[t].endsAt = plan.tasks[t].endsAt /\ Tasks[t].progress = progress[t]
  <2> SUFFICES ASSUME NEW t \in DOMAIN plan.tasks
               PROVE  /\ Tasks[t].weight = plan.tasks[t].weight
                      /\ Tasks[t].startsAt = plan.tasks[t].startsAt
                      /\ Tasks[t].endsAt = plan.tasks[t].endsAt /\ Tasks[t].progress = progress[t]
    OBVIOUS
  <2>1. Tasks[t] = [weight |-> plan.tasks[t].weight, startsAt |-> plan.tasks[t].startsAt,
                    endsAt |-> plan.tasks[t].endsAt, progress |-> progress[t]]
    BY <1>2
  <2> DEFINE task == Tasks[t]
             p == plan.tasks[t]
             bp == progress[t]
  <2>2. task = [weight |-> p.weight, startsAt |-> p.startsAt, endsAt |-> p.endsAt, progress |-> bp]
    BY <2>1
  <2> HIDE DEF task, p, bp
  <2>3. task.weight = p.weight /\ task.startsAt = p.startsAt /\ task.endsAt = p.endsAt /\ task.progress = bp
    BY <2>2
  <2> QED
    BY <2>3 DEF task, p, bp
<1>5. [t \in DOMAIN Tasks |-> Tasks[t].weight] = [t \in DOMAIN plan.tasks |-> plan.tasks[t].weight]
  BY <1>2, <1>4
<1>6. DOMAIN Tasks = DOMAIN plan.tasks
  BY <1>2
<1> QED
  BY <1>1, <1>3, <1>4, <1>5, <1>6

\* Both caches and the plan are progresses; the plan is all of it once every
\* task is over.
LEMMA ReadingTypes ==
    ASSUME Standing
    PROVE  /\ ProgressReading.result \in Progress
           /\ ProgressReading.execution \in Progress /\ ProgressReading.planned \in Progress
           /\ ProgressReading.execution = FullBp <=> CompleteGroup(Tasks)
           /\ DOMAIN Tasks # {} /\ (\A t \in DOMAIN Tasks : Tasks[t].endsAt <= now)
                => ProgressReading.planned = FullBp
<1>1. ProgressReading.result \in Progress
  <2> DEFINE items == [i \in DOMAIN plan.rows |-> [weight |-> Row(i).weight, progress |-> ResultProgress(i)]]
  <2>1. ASSUME NEW i \in DOMAIN plan.rows
        PROVE  Row(i).weight \in Weight /\ ResultProgress(i) \in Progress
    <3>1. ActualValue(i) \in Int /\ Row(i).baseline \in Int /\ Row(i).target \in Int
          /\ Row(i).weight \in Weight
      BY LoadsType, RowTypes
    <3>2. ProgressBp(ActualValue(i), Row(i).baseline, Row(i).target) \in Progress
      BY <3>1, ProgressBpType
    <3>3. ResultProgress(i) \in {0, ProgressBp(ActualValue(i), Row(i).baseline, Row(i).target)}
      BY DEF ResultProgress, ObjectiveIndicatorProgressBp, ActualValue
    <3> QED
      BY <3>1, <3>2, <3>3, FullBpAssumption DEF Progress
  <2>2. /\ IsFiniteSet(DOMAIN plan.rows)
        /\ ValidWeightGroup([i \in DOMAIN plan.rows |-> plan.rows[i].weight])
    BY DEF Standing, PlanStands, SoundRows
  <2>3. [i \in DOMAIN items |-> items[i].weight] = [i \in DOMAIN plan.rows |-> plan.rows[i].weight]
    BY DEF Row
  <2>4. DOMAIN items = DOMAIN plan.rows
        /\ \A i \in DOMAIN items : items[i].weight \in Weight /\ items[i].progress \in Progress
    BY <2>1
  <2>5. ProgressReading.result = AggregateProgressBp(items)
    BY DEF ProgressReading
  <2> HIDE DEF items
  <2>6. AggregateProgressBp(items) \in Progress
    BY <2>2, <2>3, <2>4, AggregateOfAGroup
  <2> QED
    BY <2>5, <2>6
<1>2. ProgressReading.execution \in Progress /\ (ProgressReading.execution = FullBp <=> CompleteGroup(Tasks))
  <2>1. ProgressReading.execution = AggregateProgressBp(Tasks)
    BY DEF ProgressReading
  <2>2. AggregateProgressBp(Tasks) \in Progress /\ (AggregateProgressBp(Tasks) = FullBp <=> CompleteGroup(Tasks))
    BY TasksType, AggregateOfAGroup
  <2> QED
    BY <2>1, <2>2
<1> DEFINE planned == [t \in DOMAIN Tasks |->
                [weight |-> Tasks[t].weight, progress |-> PlannedTaskProgressBp(Tasks[t], now)]]
           projects == [p \in {"project"} |-> [weight |-> None, progress |-> PlannedProgress(Tasks, now)]]
<1>3. PlannedProgress(Tasks, now) = AggregateProgressBp(planned)
  BY DEF PlannedProgress
<1>4. ProgressReading.planned = AggregateProgressBp(projects)
  <2> DEFINE given == [p \in {"project"} |-> [weight |-> None, tasks |-> Tasks]]
  <2>1. ProgressReading.planned
          = AggregateProgressBp([p \in DOMAIN given |->
                [weight |-> given[p].weight, progress |-> PlannedProgress(given[p].tasks, now)]])
    BY DEF ProgressReading, PlannedExecutionProgress
  <2>2. [p \in DOMAIN given |-> [weight |-> given[p].weight, progress |-> PlannedProgress(given[p].tasks, now)]]
          = projects
    OBVIOUS
  <2> QED
    BY <2>1, <2>2
<1>5. /\ DOMAIN planned = DOMAIN Tasks
      /\ \A t \in DOMAIN Tasks : /\ planned[t].weight = Tasks[t].weight
                                 /\ planned[t].progress = PlannedTaskProgressBp(Tasks[t], now)
                                 /\ planned[t].weight \in Weight /\ planned[t].progress \in Progress
                                 /\ Tasks[t].endsAt <= now => planned[t].progress = FullBp
  <2>1. now \in Int
    BY InstantsAssumption DEF Standing
  <2>2. \A t \in DOMAIN Tasks :
          /\ PlannedTaskProgressBp(Tasks[t], now) \in Progress
          /\ Tasks[t].endsAt <= now => PlannedTaskProgressBp(Tasks[t], now) = FullBp
    <3> SUFFICES ASSUME NEW t \in DOMAIN Tasks
                 PROVE  /\ PlannedTaskProgressBp(Tasks[t], now) \in Progress
                        /\ Tasks[t].endsAt <= now => PlannedTaskProgressBp(Tasks[t], now) = FullBp
      OBVIOUS
    <3>1. Tasks[t].startsAt \in Int /\ Tasks[t].endsAt \in Int
      BY TasksType
    <3>2. now >= Tasks[t].endsAt <=> Tasks[t].endsAt <= now
      BY <2>1, <3>1
    <3> QED
      BY <2>1, <3>1, <3>2, PlannedType
  <2>3. \A t \in DOMAIN Tasks : Tasks[t].weight \in Weight
    BY TasksType
  <2> QED
    BY <2>2, <2>3
<1>6. AggregateProgressBp(planned) \in Progress /\ (AggregateProgressBp(planned) = FullBp <=> CompleteGroup(planned))
  <2>1. [t \in DOMAIN planned |-> planned[t].weight] = [t \in DOMAIN Tasks |-> Tasks[t].weight]
    BY <1>5
  <2>2. IsFiniteSet(DOMAIN planned) /\ ValidWeightGroup([t \in DOMAIN planned |-> planned[t].weight])
    BY <1>5, <2>1, TasksType
  <2> HIDE DEF planned
  <2> QED
    BY <1>5, <2>2, AggregateOfAGroup
<1>7. DOMAIN Tasks # {} /\ (\A t \in DOMAIN Tasks : Tasks[t].endsAt <= now) => CompleteGroup(planned)
  <2> HIDE DEF planned
  <2> QED
    BY <1>5 DEF CompleteGroup
<1>8. /\ AggregateProgressBp(projects) \in Progress
      /\ AggregateProgressBp(projects) = FullBp <=> CompleteGroup(projects)
  <2>1. DOMAIN projects = {"project"} /\ IsFiniteSet(DOMAIN projects)
    BY FS_Singleton
  <2>2. \A p \in DOMAIN projects : projects[p].weight \in Weight /\ projects[p].progress \in Progress
    BY <1>3, <1>6 DEF Weight, None
  <2>3. ValidWeightGroup([p \in DOMAIN projects |-> projects[p].weight])
    BY DEF ValidWeightGroup, WeightMode, None
  <2> HIDE DEF projects
  <2> QED
    BY <2>1, <2>2, <2>3, AggregateOfAGroup
<1>9. CompleteGroup(projects) <=> PlannedProgress(Tasks, now) = FullBp
  <2>1. DOMAIN projects = {"project"} /\ projects["project"].weight = None
        /\ projects["project"].progress = PlannedProgress(Tasks, now)
    OBVIOUS
  <2>2. None # 0
    BY NoWeightAssumption DEF None
  <2> HIDE DEF projects
  <2> QED
    BY <2>1, <2>2 DEF CompleteGroup
<1> QED
  BY <1>1, <1>2, <1>3, <1>4, <1>6, <1>7, <1>8, <1>9

LEMMA TypesHold == ASSUME Standing PROVE TypeOK
<1>1. plan.rows \in [DOMAIN plan.rows -> [mode : {"linear", "manual", "from_projects"},
           baseline : Int, target : Int, metricBaseline : Int, weight : Weight,
           points : {Row(i).points : i \in DOMAIN plan.rows},
           steps : {Row(i).steps : i \in DOMAIN plan.rows}]]
  BY DEF Standing, PlanStands, SoundRows, Row
<1>2. /\ ObjectiveStatus.result.progress = ProgressReading.result
      /\ ObjectiveStatus.execution.progress = ProgressReading.execution
      /\ ObjectiveStatus.execution.planned = ProgressReading.planned
  BY DEF ObjectiveStatus
<1>3. ObjectiveStatus.result.semaphore \in Colours \cup {None}
  <2>1. ObjectiveStatus.result.semaphore = SemaphoreOf(ObjectiveStatus.result.deviation)
    BY DEF ObjectiveStatus
  <2>2. \A d : SemaphoreOf(d) \in Colours \cup {None}
    BY DEF SemaphoreOf, Semaphore, Colours
  <2> QED
    BY <2>1, <2>2
<1>4. {ObjectiveStatus.result.progress, ObjectiveStatus.execution.progress,
       ObjectiveStatus.execution.planned} \subseteq Progress
  BY <1>2, ReadingTypes
<1> QED
  BY <1>1, <1>3, <1>4 DEF TypeOK, Standing, LoadsStand, Loads

LEMMA OverdueShow == ASSUME Standing PROVE OverdueTasksShow
<1> DEFINE execution == ProgressReading.execution
           behind == ObjectiveStatus.execution.deviation < 0
           project == [progress |-> execution, mode |-> "from_tasks",
                       endsAt |-> plan.projectEndsAt, tasks |-> Tasks]
           delay == DelayReasons(project, now)
<1> SUFFICES ASSUME DOMAIN plan.tasks # {}, \A t \in DOMAIN plan.tasks : plan.tasks[t].endsAt < now
             PROVE  /\ behind <=> \E t \in DOMAIN plan.tasks :
                          /\ plan.tasks[t].weight # 0
                          /\ TaskStatus(progress[t], plan.tasks[t].endsAt, now) = "overdue"
                    /\ plan.projectEndsAt < now =>
                         /\ "vencido" \in delay <=> behind
                         /\ "vencido" \in delay => "tareas_vencidas" \in delay
  BY DEF OverdueTasksShow
<1>1. now \in Int /\ plan.projectEndsAt \in Int /\ FullBp \in Int
  BY InstantsAssumption, FullBpAssumption DEF Standing, PlanStands
<1>2. \A t \in DOMAIN plan.tasks :
        /\ Tasks[t].weight = plan.tasks[t].weight /\ Tasks[t].progress = progress[t]
        /\ Tasks[t].endsAt = plan.tasks[t].endsAt
        /\ progress[t] \in Progress /\ plan.tasks[t].endsAt \in Int
  BY TasksType
<1>3. DOMAIN Tasks = DOMAIN plan.tasks
  BY TasksType
<1>4. ProgressReading.planned = FullBp
  <2>1. \A t \in DOMAIN Tasks : Tasks[t].endsAt <= now
    BY <1>1, <1>2, <1>3
  <2> QED
    BY <1>3, <2>1, ReadingTypes
<1>5. execution \in Progress /\ (execution = FullBp <=> CompleteGroup(Tasks))
  BY ReadingTypes
<1>6. ObjectiveStatus.execution.deviation = execution - FullBp
  BY <1>4 DEF ObjectiveStatus, ProgressDeviationBp
<1>7. \A t \in DOMAIN plan.tasks :
        TaskStatus(progress[t], plan.tasks[t].endsAt, now) = "overdue" <=> progress[t] # FullBp
  <2> SUFFICES ASSUME NEW t \in DOMAIN plan.tasks
               PROVE  TaskStatus(progress[t], plan.tasks[t].endsAt, now) = "overdue" <=> progress[t] # FullBp
    OBVIOUS
  <2>1. progress[t] \in 0..FullBp /\ now > plan.tasks[t].endsAt
    BY <1>1, <1>2 DEF Progress
  <2>2. progress[t] >= FullBp <=> progress[t] = FullBp
    BY <1>1, <2>1
  <2> QED
    BY <2>1, <2>2 DEF TaskStatus
<1>8. behind <=> execution # FullBp
  <2> HIDE DEF execution
  <2> QED
    BY <1>1, <1>5, <1>6 DEF Progress
<1>9. execution # FullBp <=> \E t \in DOMAIN plan.tasks : plan.tasks[t].weight # 0 /\ progress[t] # FullBp
  BY <1>2, <1>3, <1>5 DEF CompleteGroup
<1>10. ASSUME plan.projectEndsAt < now
       PROVE  "vencido" \in delay <=> execution # FullBp
  <2>1. "vencido" \in delay <=> TaskStatus(execution, plan.projectEndsAt, now) = "overdue"
    BY DEF DelayReasons
  <2>2. execution >= FullBp <=> execution = FullBp
    <3> HIDE DEF execution
    <3> QED
      BY <1>1, <1>5 DEF Progress
  <2>3. now > plan.projectEndsAt
    BY <1>1, <1>10
  <2> HIDE DEF execution
  <2> QED
    BY <2>1, <2>2, <2>3 DEF TaskStatus
<1>11. (\E t \in DOMAIN plan.tasks : progress[t] # FullBp) => "tareas_vencidas" \in delay
  <2> SUFFICES ASSUME NEW t \in DOMAIN plan.tasks, progress[t] # FullBp
               PROVE  "tareas_vencidas" \in delay
    OBVIOUS
  <2>1. TaskStatus(Tasks[t].progress, Tasks[t].endsAt, now) = "overdue" /\ t \in DOMAIN Tasks
    BY <1>2, <1>3, <1>7
  <2> HIDE DEF execution
  <2>2. project.mode = "from_tasks" /\ project.tasks = Tasks
    OBVIOUS
  <2> HIDE DEF project
  <2> QED
    BY <2>1, <2>2 DEF DelayReasons
<1> QED
  BY <1>7, <1>8, <1>9, <1>10, <1>11

LEMMA Agree == ASSUME Standing PROVE ReadingsAgree
BY TypesHold, SeriesEnds, ReachedIsGreen, WithinItsIndicators, OverdueShow DEF ReadingsAgree

-----------------------------------------------------------------------------
(* What a step may do to what is pending. *)

\* Loads are of days with a new one among them.
LEMMA SettlesItsBucket ==
    ASSUME Standing, [Next]_vars
    PROVE  ContributionsCountWhenTheyHappen
<1> SUFFICES ASSUME NEW l \in DOMAIN load' \ DOMAIN load, load'[l].origin = "project"
             PROVE  /\ load'[l].day \in Buckets
                    /\ load'[l].day <= Day(now) \/ load'[l].day = Earliest(Buckets)
                    /\ \A b \in Buckets : b > load'[l].day => b > Day(now)
  BY DEF ContributionsCountWhenTheyHappen
<1>1. ASSUME NEW i, NEW day, NEW value, NEW origin, NewLoad(i, day, value, origin)
      PROVE  load'[l].day = day /\ load'[l].origin = origin
  <2>1. PICK x \in LoadIds \ DOMAIN load :
            load' = [y \in DOMAIN load \cup {x} |->
                        IF y = x THEN [indicator |-> i, day |-> day, value |-> value, origin |-> origin]
                        ELSE load[y]]
    BY <1>1 DEF NewLoad
  <2>2. l = x
    BY <2>1
  <2> QED
    BY <2>1, <2>2
<1>2. ASSUME NEW i \in DOMAIN plan.rows, NEW value \in Values, AutomaticLoad(i, value)
      PROVE  /\ load'[l].day \in Buckets
             /\ load'[l].day <= Day(now) \/ load'[l].day = Earliest(Buckets)
             /\ \A b \in Buckets : b > load'[l].day => b > Day(now)
  <2>1. load'[l].day = BucketContaining(Day(now), Buckets)
    BY <1>1, <1>2 DEF AutomaticLoad
  <2>2. Day(now) \in Nat
    BY InstantsAssumption, DaysAndInstants DEF Standing
  <2>3. IsFiniteSet(Buckets) /\ Buckets \subseteq Int /\ Buckets # {}
    BY BucketsStand DEF Standing
  <2> DEFINE bucket == BucketContaining(Day(now), Buckets)
  <2>4. /\ bucket \in Buckets
        /\ \A b \in Buckets : b <= Day(now) => bucket <= Day(now) /\ b <= bucket
        /\ bucket <= Day(now) \/ bucket = Earliest(Buckets)
    <3> DEFINE d == Day(now)
    <3>1. d \in Int
      BY <2>2
    <3> HIDE DEF d
    <3>2. LET c == BucketContaining(d, Buckets)
          IN  /\ c \in Buckets
              /\ \A b \in Buckets : b <= d => c <= d /\ b <= c
              /\ c <= d \/ c = Earliest(Buckets)
      BY <2>3, <3>1, BucketOfADay
    <3> QED
      BY <3>2 DEF d
  <2> HIDE DEF bucket
  <2>5. ASSUME NEW b \in Buckets, b > bucket PROVE b > Day(now)
    <3>1. b \in Int /\ bucket \in Int /\ Day(now) \in Int
      BY <2>2, <2>3, <2>4
    <3>2. ~(b <= bucket)
      BY <2>5, <3>1
    <3>3. ~(b <= Day(now))
      BY <2>4, <3>2
    <3> QED
      BY <3>1, <3>3
  <2> QED
    BY <2>1, <2>4, <2>5 DEF bucket
<1>3. ASSUME NEW i \in DOMAIN plan.rows, NEW day \in Buckets, NEW value \in Values, Load(i, day, value)
      PROVE  FALSE
  <2>1. load'[l].origin = "manual"
    BY <1>1, <1>3 DEF Load
  <2> QED
    BY <2>1
<1>4. ASSUME NEW x \in ManualLoads, NEW value \in Values, ChangeLoad(x, value)
      PROVE  FALSE
  BY <1>4 DEF ChangeLoad
<1>5. ASSUME NEW x \in ManualLoads, RemoveLoad(x)
      PROVE  FALSE
  BY <1>5 DEF RemoveLoad
<1>6. CASE UNCHANGED load
  BY <1>6
<1> QED
  BY <1>2, <1>3, <1>4, <1>5, <1>6 DEF Next, Pass, LoadTask, ClosePeriod, vars

\* As long as nothing else changes, a bucket stays pending until it is loaded.
LEMMA PendingChanges ==
    ASSUME NEW B, NEW today \in Int, NEW later \in Int, today <= later, NEW lastDay,
           NEW before, NEW after, NEW b \in B, ClosesOn(b, B, lastDay) \in Int
    PROVE  /\ b \in PendingBuckets(before, B, today, lastDay) /\ b \notin PendingBuckets(after, B, later, lastDay)
                => b \in after
           /\ b \in PendingBuckets(after, B, later, lastDay) /\ b \notin PendingBuckets(before, B, today, lastDay)
                => b \in before \/ today # later
<1> DEFINE closes == ClosesOn(b, B, lastDay)
<1>1. \A loaded, day : b \in PendingBuckets(loaded, B, day, lastDay)
                         <=> b \notin loaded /\ day - closes > GraceDays
  BY DEF PendingBuckets
<1>2. closes \in Int /\ GraceDays \in Int
  BY CalendarAssumption
<1> HIDE DEF closes
<1>3. today - closes > GraceDays => later - closes > GraceDays
  BY <1>2
<1> QED
  BY <1>1, <1>3

LEMMA PendingSettles == ASSUME Standing, [Next]_vars PROVE PendingEndsWithALoad
<1>1. Day(now) \in Nat /\ now \in Nat
  BY InstantsAssumption, DaysAndInstants DEF Standing
<1>2. Standing'
  BY NextStands
<1>3. now' \in Nat
  BY <1>2, InstantsAssumption DEF Standing
<1>4. now' = now \/ now' > now
  BY DEF Next, Pass, Load, ChangeLoad, RemoveLoad, AutomaticLoad, LoadTask, ClosePeriod, vars
<1>5. Day(now') \in Nat /\ Day(now) <= Day(now')
  BY <1>1, <1>3, <1>4, DaysAndInstants, DaysPass
<1>6. plan' = plan \/ ClosePeriod
  BY DEF Next, Pass, Load, ChangeLoad, RemoveLoad, AutomaticLoad, LoadTask, vars
<1>7. IsFiniteSet(Buckets) /\ Buckets \subseteq Int /\ LastDay(plan.range) \in Int
  <2>1. Buckets \subseteq Nat /\ IsFiniteSet(Buckets)
    BY BucketsStand DEF Standing
  <2>2. LastDay(plan.range) \in Nat
    BY BucketsAreDays DEF Standing, PlanStands
  <2> QED
    BY <2>1, <2>2
<1>8. \A b \in Buckets : ClosesOn(b, Buckets, LastDay(plan.range)) \in Int
  <2> SUFFICES ASSUME NEW b \in Buckets
               PROVE  ClosesOn(b, Buckets, LastDay(plan.range)) \in Int
    OBVIOUS
  <2> QED
    BY <1>7, WhenABucketCloses
<1> SUFFICES ASSUME NEW i \in DOMAIN plan.rows
             PROVE  /\ closed' = closed => \A b \in Pending(i) \ Pending(i)' : b \in LoadedDays(i)'
                    /\ now' = now => \A b \in Pending(i)' \ Pending(i) : b \in LoadedDays(i)
  BY DEF PendingEndsWithALoad
<1>9. PICK before : before = LoadedDays(i)
  OBVIOUS
<1>10. PICK after : after = LoadedDays(i)'
  OBVIOUS
<1>11. Pending(i) = PendingBuckets(before, Buckets, Day(now), LastDay(plan.range))
  BY <1>9 DEF Pending
<1>12. Pending(i)' = PendingBuckets(after, Buckets', Day(now'), LastDay(plan'.range))
  BY <1>10 DEF Pending
<1>13. CASE plan' = plan
  <2>1. Buckets' = Buckets
    BY <1>13 DEF Buckets
  <2>2. Pending(i)' = PendingBuckets(after, Buckets, Day(now'), LastDay(plan.range))
    BY <1>12, <1>13, <2>1
  <2>3. Pending(i) \subseteq Buckets /\ Pending(i)' \subseteq Buckets
    BY <1>11, <2>2 DEF PendingBuckets
  <2>4. Day(now) \in Int /\ Day(now') \in Int
    BY <1>1, <1>5
  <2>5. ASSUME NEW b \in Buckets
        PROVE  /\ b \in Pending(i) /\ b \notin Pending(i)' => b \in after
               /\ b \in Pending(i)' /\ b \notin Pending(i) => b \in before \/ Day(now) # Day(now')
    <3>1. ClosesOn(b, Buckets, LastDay(plan.range)) \in Int
      BY <1>8
    <3>2. /\ b \in PendingBuckets(before, Buckets, Day(now), LastDay(plan.range))
             /\ b \notin PendingBuckets(after, Buckets, Day(now'), LastDay(plan.range)) => b \in after
          /\ b \in PendingBuckets(after, Buckets, Day(now'), LastDay(plan.range))
             /\ b \notin PendingBuckets(before, Buckets, Day(now), LastDay(plan.range))
                => b \in before \/ Day(now) # Day(now')
      BY <1>5, <2>4, <3>1, PendingChanges
    <3> QED
      BY <1>11, <2>2, <3>2
  <2>6. now' = now => Day(now) = Day(now')
    OBVIOUS
  <2> QED
    BY <1>9, <1>10, <2>3, <2>5, <2>6
<1>14. CASE ClosePeriod /\ plan' # plan
  <2>1. closed' # closed /\ now' = now /\ load' = load
    BY <1>14 DEF ClosePeriod
  <2>2. /\ plan'.frequency = plan.frequency
        /\ plan'.range = [plan.range EXCEPT !.endsAt = Midnight(Day(now))]
        /\ now < plan.range.endsAt /\ Midnight(Day(now)) > plan.range.startsAt
    BY <1>14, ClosingStands
  <2>3. after = before
    <3>1. LoadsOf(i)' = LoadsOf(i)
      BY <2>1 DEF LoadsOf
    <3> QED
      BY <1>9, <1>10, <2>1, <3>1 DEF LoadedDays
  <2> DEFINE cut == [plan.range EXCEPT !.endsAt = Midnight(Day(now))]
  <2>4. Pending(i)' = PendingBuckets(before, BuildBuckets(cut, plan.frequency), Day(now), LastDay(cut))
    BY <1>12, <2>1, <2>2, <2>3 DEF Buckets
  <2>5. InCalendar(plan.range, plan.frequency)
    BY DEF Standing, PlanStands
  <2>6. \A b \in PendingBuckets(before, BuildBuckets(cut, plan.frequency), Day(now), LastDay(cut)) :
          b \in PendingBuckets(before, BuildBuckets(plan.range, plan.frequency), Day(now), LastDay(plan.range))
    BY <1>1, <2>2, <2>5, ClosingAddsNothing
  <2>7. \A b \in Pending(i)' : b \in Pending(i)
    BY <1>11, <2>4, <2>6 DEF Buckets
  <2> QED
    BY <2>1, <2>7
<1> QED
  BY <1>6, <1>13, <1>14

\* RN-C4 and RN-P15 (buildBuckets, pendingBuckets): for any calendar and period,
\* stepping from boundary to boundary finds every day a bucket starts and no other,
\* and a bucket is pending when, and only when, nobody loaded it and its days are
\* over for longer than the grace.
THEOREM LoadsAreDue == Spec => []LoadsAreAskedOnTime
BY SpecStands, AskedOnTime, PTL

\* RN-C8 and RN-P17 (expectedCurve, summarizeContributions): a linear curve stays
\* between baseline and target and ends on it, a manual one is on the target from
\* its last point on whenever the period closed, and a stepped one falls short
\* exactly when the warning says so.
THEOREM CurvesArrive == Spec => []CurvesKeepTheirPromise
BY SpecStands, CurvesKeep, PTL

\* RN-P8, RN-P9 and RN-P10 (getSeries, buildStatus, composeObjectiveStatus,
\* isProjectDelayed): series and value, curve and semaphore, objective and
\* indicators, execution and delays tell one story, and every share is one.
THEOREM ReadingsTellOneStory == Spec => []ReadingsAgree
BY SpecStands, Agree, PTL

\* createAutomaticEntry and pendingBuckets: a contribution counts in the bucket of
\* its day, and what is pending ends with a load or with the period and begins
\* with time or a removal; closing a period early makes nothing pending.
THEOREM LoadsSettle == Spec => LoadsSettleTheirBucket
<1>1. Standing /\ [Next]_vars => ContributionsCountWhenTheyHappen /\ PendingEndsWithALoad
  BY SettlesItsBucket, PendingSettles
<1> QED
  BY <1>1, SpecStands, PTL DEF Spec, LoadsSettleTheirBucket
=============================================================================
