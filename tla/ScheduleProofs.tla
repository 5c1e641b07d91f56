--------------------------- MODULE ScheduleProofs ---------------------------
(***************************************************************************)
(* What the searches of ProgramRules find, for every program, location and *)
(* instant: the calendar they go through is one to one with its days, and  *)
(* the instant that each returns is the first one that the program names.  *)
(* And what its choices from a list keep: each element once and in order.  *)
(***************************************************************************)
EXTENDS ProgramRules, WellFoundedInduction, FiniteSetTheorems, TLAPS

-----------------------------------------------------------------------------
(* The least of a set, and its elements in order.                          *)

\* A set of natural numbers that is not empty has a least one.
LEMMA LeastExists ==
    ASSUME NEW S \in SUBSET Nat, S # {}
    PROVE  \E x \in S : \A y \in S : x =< y
<1>1. PICK x \in S : \A y \in S : ~(<<y, x>> \in OpToRel(<, Nat))
  BY WFMin, NatLessThanWellFounded, Zenon
<1>2. \A y \in S : ~(y < x)
  BY <1>1, Zenon DEF OpToRel
<1>3. \A y \in S : x =< y
  BY <1>2
<1>. QED BY <1>3

\* Of a finite set the lower one has fewer below it, and the highest one not all.
LEMMA RanksInOrder ==
    ASSUME NEW S \in SUBSET Int, IsFiniteSet(S), NEW x \in S
    PROVE  /\ Cardinality({z \in S : z < x}) \in 0..(Cardinality(S) - 1)
           /\ \A y \in S : x < y =>
                  Cardinality({z \in S : z < x}) < Cardinality({z \in S : z < y})
<1> DEFINE Below(y) == {z \in S : z < y}
<1>1. \A y \in S : IsFiniteSet(Below(y)) /\ Cardinality(Below(y)) \in Nat
  <2> TAKE y \in S
  <2>1. IsFiniteSet(Below(y))
    BY FS_Subset
  <2>. QED BY <2>1, FS_CardinalityType
<1>2. Cardinality(S) \in Nat
  BY FS_CardinalityType
<1>3. Cardinality(Below(x)) < Cardinality(S)
  <2>1. Below(x) \in SUBSET S /\ S # Below(x)
    OBVIOUS
  <2>2. Cardinality(Below(x)) =< Cardinality(S) /\ Cardinality(S) # Cardinality(Below(x))
    BY <2>1, FS_Subset
  <2>. HIDE DEF Below
  <2>. QED BY <2>2, <1>1, <1>2
<1>4. ASSUME NEW y \in S, x < y
      PROVE  Cardinality(Below(x)) < Cardinality(Below(y))
  <2>1. \A z \in S : z < x => z < y
    BY <1>4
  <2>2. Below(x) \in SUBSET Below(y)
    BY <2>1
  <2>3. x \in Below(y) /\ ~(x < x)
    BY <1>4
  <2>4. x \notin Below(x)
    BY <2>3
  <2>5. Cardinality(Below(x)) =< Cardinality(Below(y))
        /\ Cardinality(Below(y)) # Cardinality(Below(x))
    BY <2>2, <2>3, <2>4, <1>1, FS_Subset
  <2>. HIDE DEF Below
  <2>. QED BY <2>5, <1>1
<1>5. Cardinality(Below(x)) \in 0..(Cardinality(S) - 1)
  <2>. HIDE DEF Below
  <2>. QED BY <1>1, <1>2, <1>3
<1>. QED BY <1>4, <1>5

\* Each number below the size of a finite set is the rank of one of its elements.
LEMMA RanksAreTaken ==
    ASSUME NEW S \in SUBSET Int, IsFiniteSet(S), NEW k \in 1..Cardinality(S)
    PROVE  \E x \in S : Cardinality({y \in S : y < x}) = k - 1
<1> DEFINE Rank(x) == Cardinality({y \in S : y < x})
           Others == (0..(Cardinality(S) - 1)) \ {k - 1}
           rank == [x \in S |-> Rank(x)]
<1>1. \A x \in S : Rank(x) \in 0..(Cardinality(S) - 1)
  BY RanksInOrder
<1>2. \A x, y \in S : x < y => Rank(x) < Rank(y)
  BY RanksInOrder
<1>3. Cardinality(S) \in Nat
  BY FS_CardinalityType
<1>4. IsFiniteSet(Others) /\ Cardinality(Others) = Cardinality(S) - 1
  <2> DEFINE m == Cardinality(S) - 1
             All == 0..m
  <2>1. m \in Nat /\ k - 1 \in All
    BY <1>3
  <2> HIDE DEF m
  <2>2. IsFiniteSet(0..m) /\ Cardinality(0..m) = IF 0 > m THEN 0 ELSE m - 0 + 1
    BY <2>1, FS_Interval
  <2>3. IsFiniteSet(All) /\ Cardinality(All) = m + 1
    BY <2>1, <2>2
  <2> HIDE DEF All
  <2>4. IsFiniteSet(All \ {k - 1}) /\ Cardinality(All \ {k - 1}) = Cardinality(All) - 1
    BY <2>1, <2>3, FS_RemoveElement
  <2>5. Others = All \ {k - 1}
    BY DEF All, m
  <2>6. Cardinality(All) - 1 = Cardinality(S) - 1
    BY <2>1, <2>3, <1>3 DEF m
  <2> HIDE DEF Others
  <2>. QED BY <2>4, <2>5, <2>6
<1> HIDE DEF Rank, Others
<1>5. SUFFICES ASSUME \A x \in S : Rank(x) # k - 1
               PROVE  FALSE
  BY DEF Rank
<1>6. rank \in [S -> Others]
  BY <1>1, <1>5 DEF Others
<1>7. Cardinality(Others) < Cardinality(S)
  BY <1>3, <1>4
<1>8. rank \in [S -> Others] /\ \A x \in S : rank[x] = Rank(x)
  BY <1>6
<1> HIDE DEF rank
<1>9. \E x, y \in S : x # y /\ rank[x] = rank[y]
  <2>1. ASSUME NEW T, IsFiniteSet(T), Cardinality(T) < Cardinality(S), NEW f \in [S -> T]
        PROVE  \E x, y \in S : x # y /\ f[x] = f[y]
    BY <2>1, FS_PigeonHole, Zenon
  <2>. QED BY <1>7, <1>8, <1>4, <2>1, Zenon
<1>10. PICK x \in S, y \in S : x # y /\ rank[x] = rank[y]
  BY <1>9, Zenon
<1>11. Rank(x) = Rank(y) /\ Rank(x) \in Int
  BY <1>1, <1>3, <1>8, <1>10
<1>12. x < y \/ y < x
  BY <1>10
<1>. QED BY <1>2, <1>11, <1>12

\* Ascending lists the elements of a set, each once and the lower first.
LEMMA AscendingLists ==
    ASSUME NEW S \in SUBSET Int, IsFiniteSet(S)
    PROVE  /\ Cardinality(S) \in Nat
           /\ DOMAIN Ascending(S) = 1..Cardinality(S)
           /\ \A k \in 1..Cardinality(S) : Ascending(S)[k] \in S
           /\ \A x \in S : \E k \in 1..Cardinality(S) : Ascending(S)[k] = x
           /\ \A k, l \in 1..Cardinality(S) : k < l => Ascending(S)[k] < Ascending(S)[l]
<1> DEFINE Rank(x) == Cardinality({y \in S : y < x})
<1>1. \A x \in S : Rank(x) \in 0..(Cardinality(S) - 1)
  BY RanksInOrder
<1>2. \A x, y \in S : x < y => Rank(x) < Rank(y)
  BY RanksInOrder
<1>3. Cardinality(S) \in Nat
  BY FS_CardinalityType
<1>4. \A k \in 1..Cardinality(S) : \E x \in S : Rank(x) = k - 1
  BY RanksAreTaken
<1>5. Ascending(S) = [k \in 1..Cardinality(S) |-> CHOOSE x \in S : Rank(x) = k - 1]
  BY DEF Ascending
<1> HIDE DEF Rank
<1>6. \A k \in 1..Cardinality(S) : Ascending(S)[k] \in S /\ Rank(Ascending(S)[k]) = k - 1
  BY <1>4, <1>5
<1>7. ASSUME NEW x \in S
      PROVE  \E k \in 1..Cardinality(S) : Ascending(S)[k] = x
  <2>1. Rank(x) + 1 \in 1..Cardinality(S)
    BY <1>1, <1>3
  <2>2. Ascending(S)[Rank(x) + 1] \in S /\ Rank(Ascending(S)[Rank(x) + 1]) = Rank(x)
    BY <1>1, <1>3, <1>6, <2>1
  <2> DEFINE a == Ascending(S)[Rank(x) + 1]
  <2>3. a \in S /\ Rank(a) = Rank(x) /\ Rank(x) \in Int
    BY <1>1, <1>3, <2>2
  <2> HIDE DEF a
  <2>4. ~(x < a) /\ ~(a < x)
    BY <1>2, <2>3
  <2>5. a = x
    BY <2>3, <2>4
  <2>. QED BY <2>1, <2>5 DEF a
<1>8. ASSUME NEW k \in 1..Cardinality(S), NEW l \in 1..Cardinality(S), k < l
      PROVE  Ascending(S)[k] < Ascending(S)[l]
  <2> DEFINE a == Ascending(S)[k]
             b == Ascending(S)[l]
  <2>1. a \in S /\ b \in S /\ Rank(a) = k - 1 /\ Rank(b) = l - 1
    BY <1>6
  <2> HIDE DEF a, b
  <2>2. ~(b < a) /\ a # b
    BY <1>2, <1>8, <2>1
  <2>3. a < b
    BY <2>1, <2>2
  <2>. QED BY <2>3 DEF a, b
<1>. QED BY <1>3, <1>5, <1>6, <1>7, <1>8

\* Kept selects positions of a list and keeps their order.
LEMMA KeptSelects ==
    ASSUME NEW s, NEW n \in Nat, NEW P \in SUBSET (1..n)
    PROVE  \E at \in [1..Cardinality(P) -> P] :
               /\ Cardinality(P) \in Nat
               /\ Kept(s, P) = [k \in 1..Cardinality(P) |-> s[at[k]]]
               /\ \A i \in P : \E k \in 1..Cardinality(P) : at[k] = i
               /\ \A k, l \in 1..Cardinality(P) : k < l => at[k] < at[l]
<1>1. IsFiniteSet(P) /\ P \in SUBSET Int
  <2>1. IsFiniteSet(1..n)
    BY FS_Interval
  <2>2. IsFiniteSet(P)
    BY <2>1, FS_Subset
  <2>3. P \in SUBSET Int
    OBVIOUS
  <2>. QED BY <2>2, <2>3
<1>2. Ascending(P) \in [1..Cardinality(P) -> P]
  BY <1>1, AscendingLists DEF Ascending
<1>. QED BY <1>1, <1>2, AscendingLists DEF Kept

\* Earliest finds it.
LEMMA EarliestIsLeast ==
    ASSUME NEW S \in SUBSET Nat
    PROVE  /\ S = {} => Earliest(S) = NoFire
           /\ S # {} => Earliest(S) \in S /\ \A y \in S : Earliest(S) =< y
BY LeastExists DEF Earliest

-----------------------------------------------------------------------------
(* Days and seconds.                                                       *)

\* The seconds of a day.
LEMMA SecondsOfDayType ==
    ASSUME NEW c
    PROVE  c \in SecondsOfDay <=> c \in Int /\ 0 =< c /\ c < 86400
<1>1. DaySecs = 86400
  BY DEF DaySecs
<1>2. DaySecs \in Int
  BY DEF DaySecs
<1>3. c \in SecondsOfDay <=> c \in Int /\ 0 =< c /\ c < DaySecs
  BY <1>2 DEF SecondsOfDay
<1>. QED BY <1>1, <1>3

\* An instant is a day and a second of that day.
LEMMA InstantOfDay ==
    ASSUME NEW t \in Int
    PROVE  /\ DayOf(t) \in Int /\ SecondOfDay(t) \in SecondsOfDay
           /\ Instant(DayOf(t), SecondOfDay(t)) = t
<1>1. /\ t \div 86400 \in Int /\ t % 86400 \in Int /\ 0 =< t % 86400 /\ t % 86400 < 86400
      /\ 86400 * (t \div 86400) + (t % 86400) = t
  OBVIOUS
<1>. QED BY <1>1, SecondsOfDayType DEF DayOf, SecondOfDay, Instant, DaySecs

\* And only of those.
LEMMA DayOfInstant ==
    ASSUME NEW d \in Int, NEW c \in SecondsOfDay
    PROVE  /\ Instant(d, c) \in Int
           /\ DayOf(Instant(d, c)) = d /\ SecondOfDay(Instant(d, c)) = c
<1>1. c \in Int /\ 0 =< c /\ c < 86400
  BY SecondsOfDayType
<1>2. (86400 * d + c) \div 86400 = d /\ (86400 * d + c) % 86400 = c
  BY <1>1
<1>. QED BY <1>1, <1>2 DEF DayOf, SecondOfDay, Instant, DaySecs

\* Instants of different days are in the order of the days.
LEMMA DaysInOrder ==
    ASSUME NEW d \in Int, NEW e \in Int, d < e,
           NEW c \in SecondsOfDay, NEW f \in SecondsOfDay
    PROVE  Instant(d, c) < Instant(e, f)
<1>1. c \in Int /\ c < 86400 /\ f \in Int /\ 0 =< f
  BY SecondsOfDayType
<1>. QED BY <1>1 DEF Instant, DaySecs

\* A later instant is not on an earlier day.
LEMMA DayOfGrows ==
    ASSUME NEW t \in Int, NEW u \in Int, t =< u
    PROVE  DayOf(t) =< DayOf(u)
BY DEF DayOf, DaySecs

\* What datetime accepts as a time is a second of the day.
LEMMA TimeOfDayType ==
    ASSUME NEW hour \in Nat, NEW minute \in Nat, IsTime(hour, minute)
    PROVE  TimeOfDay(hour, minute) \in SecondsOfDay
<1>1. hour =< 23 /\ minute =< 59
  BY DEF IsTime
<1>2. 3600 * hour + 60 * minute \in Nat /\ 3600 * hour + 60 * minute < 86400
  BY <1>1
<1>. QED BY <1>2, SecondsOfDayType DEF TimeOfDay, MinuteSecs

\* Among the seven days after a day each weekday is found once.
LEMMA WeekdayWithinWeek ==
    ASSUME NEW d \in Int, NEW e \in Int, d < e
    PROVE  \E offset \in 1..7 : /\ d + offset =< e
                                /\ Weekday(d + offset) = Weekday(e)
<1>. DEFINE k == ((e - d - 1) % 7) + 1
<1>1. k \in 1..7 /\ d + k =< e /\ (d + k) % 7 = e % 7
  OBVIOUS
<1>. HIDE DEF k
<1>. QED BY <1>1 DEF Weekday

\* The mask selects days by their weekday.
LEMMA MaskIsWeekly ==
    ASSUME NEW d \in Int, NEW e \in Int, NEW mask, Weekday(d) = Weekday(e)
    PROVE  MatchesDaysMask(d, mask) = MatchesDaysMask(e, mask)
BY DEF MatchesDaysMask

-----------------------------------------------------------------------------
(* Years and months.                                                       *)

\* The years of the calendar.
Years == {y \in Int : y >= 2024}

\* A year has 365 days, a leap year one more.
LEMMA YearLength ==
    ASSUME NEW y \in Int
    PROVE  /\ YearStart(y) \in Int
           /\ YearStart(y + 1) = YearStart(y) + 365 + (IF IsLeapYear(y) THEN 1 ELSE 0)
BY DEF YearStart, IsLeapYear

\* Years follow each other.
LEMMA YearsInOrder ==
    ASSUME NEW y \in Int, NEW z \in Int, y < z
    PROVE  YearStart(y + 1) =< YearStart(z)
BY DEF YearStart

\* A day is of one year.
LEMMA YearIsUnique ==
    ASSUME NEW y \in Int, NEW z \in Int, NEW d \in Int,
           YearStart(y) =< d, d < YearStart(y + 1),
           YearStart(z) =< d, d < YearStart(z + 1)
    PROVE  y = z
BY DEF YearStart

\* The range in which YearOf looks for the year of a day holds it.
LEMMA YearInRange ==
    ASSUME NEW y \in Int, NEW d \in Nat, YearStart(y) =< d, d < YearStart(y + 1)
    PROVE  y \in (2024 + d \div 366)..(2024 + d \div 365)
BY DEF YearStart

\* Every day from 2024 on has a year.
LEMMA YearExists ==
    ASSUME NEW d \in Nat
    PROVE  \E y \in Years : YearStart(y) =< d /\ d < YearStart(y + 1)
<1>. DEFINE S == {n \in Nat : d < YearStart(2024 + n + 1)}
<1>1. d \in S
  BY DEF YearStart
<1>. HIDE DEF S
<1>2. S \in SUBSET Nat
  BY DEF S
<1>3. PICK n \in S : \A m \in S : n =< m
  BY <1>1, <1>2, LeastExists
<1>4. n \in Nat /\ d < YearStart(2024 + n + 1)
  BY DEF S
<1>5. YearStart(2024 + n) =< d
  <2>1. CASE n = 0
    BY <2>1 DEF YearStart
  <2>2. CASE n # 0
    <3>1. n - 1 \in Nat /\ n - 1 \notin S /\ 2024 + (n - 1) + 1 = 2024 + n
      BY <1>3, <1>4, <2>2
    <3>2. ~(d < YearStart(2024 + n))
      BY <3>1 DEF S
    <3>3. YearStart(2024 + n) \in Int
      BY <1>4 DEF YearStart
    <3>. QED BY <3>2, <3>3
  <2>. QED BY <2>1, <2>2
<1>. QED BY <1>4, <1>5 DEF Years

\* YearOf finds it.
LEMMA YearOfDay ==
    ASSUME NEW d \in Nat
    PROVE  /\ YearOf(d) \in Years
           /\ YearStart(YearOf(d)) =< d /\ d < YearStart(YearOf(d) + 1)
<1>1. PICK y \in Years : YearStart(y) =< d /\ d < YearStart(y + 1)
  BY YearExists
<1>5. y \in Int
  BY DEF Years
<1>2. y \in (2024 + d \div 366)..(2024 + d \div 365)
  BY <1>1, <1>5, YearInRange
<1>. DEFINE Near == (2024 + d \div 366)..(2024 + d \div 365)
            Is(z) == YearStart(z) =< d /\ d < YearStart(z + 1)
<1>3. YearOf(d) \in Near /\ Is(YearOf(d))
  <2>1. YearOf(d) = CHOOSE z \in Near : Is(z)
    BY DEF YearOf
  <2>2. y \in Near /\ Is(y)
    BY <1>1, <1>2
  <2>. HIDE DEF Near, Is
  <2>. QED BY <2>1, <2>2
<1>4. YearOf(d) \in Int
  BY <1>3
<1>6. YearOf(d) = y
  BY <1>1, <1>3, <1>4, <1>5, YearIsUnique
<1>. QED BY <1>3, <1>6

\* YearOf of a day of a year is that year.
LEMMA DayOfYear ==
    ASSUME NEW y \in Int, NEW d \in Nat, YearStart(y) =< d, d < YearStart(y + 1)
    PROVE  YearOf(d) = y
BY YearOfDay, YearIsUnique DEF Years

\* Where a month begins and how long it is.
LEMMA MonthTable ==
    ASSUME NEW y \in Int
    PROVE  LET leap == IF IsLeapYear(y) THEN 1 ELSE 0 IN
           /\ MonthStart(y, 1) = 0            /\ DaysInMonth(y, 1) = 31
           /\ MonthStart(y, 2) = 31           /\ DaysInMonth(y, 2) = 28 + leap
           /\ MonthStart(y, 3) = 59 + leap    /\ DaysInMonth(y, 3) = 31
           /\ MonthStart(y, 4) = 90 + leap    /\ DaysInMonth(y, 4) = 30
           /\ MonthStart(y, 5) = 120 + leap   /\ DaysInMonth(y, 5) = 31
           /\ MonthStart(y, 6) = 151 + leap   /\ DaysInMonth(y, 6) = 30
           /\ MonthStart(y, 7) = 181 + leap   /\ DaysInMonth(y, 7) = 31
           /\ MonthStart(y, 8) = 212 + leap   /\ DaysInMonth(y, 8) = 31
           /\ MonthStart(y, 9) = 243 + leap   /\ DaysInMonth(y, 9) = 30
           /\ MonthStart(y, 10) = 273 + leap  /\ DaysInMonth(y, 10) = 31
           /\ MonthStart(y, 11) = 304 + leap  /\ DaysInMonth(y, 11) = 30
           /\ MonthStart(y, 12) = 334 + leap  /\ DaysInMonth(y, 12) = 31
BY DEF MonthStart, DaysInMonth

\* The months of a year follow each other and end with it.
LEMMA MonthsInOrder ==
    ASSUME NEW y \in Int, NEW m \in 1..12
    PROVE  /\ MonthStart(y, m) \in Nat /\ DaysInMonth(y, m) \in Nat
           /\ YearStart(y) + MonthStart(y, m) + DaysInMonth(y, m) =< YearStart(y + 1)
           /\ \A n \in 1..12 : m < n =>
                  MonthStart(y, m) + DaysInMonth(y, m) =< MonthStart(y, n)
<1>1. MonthStart(y, m) \in Nat /\ DaysInMonth(y, m) \in Nat
  BY MonthTable
<1>2. MonthStart(y, m) + DaysInMonth(y, m) =< 365 + (IF IsLeapYear(y) THEN 1 ELSE 0)
  BY MonthTable
<1>3. ASSUME NEW n \in 1..12, m < n
      PROVE  MonthStart(y, m) + DaysInMonth(y, m) =< MonthStart(y, n)
  BY <1>3, MonthTable
<1>. QED BY <1>1, <1>2, <1>3, YearLength

\* A day of a year is in one of its months.
LEMMA MonthExists ==
    ASSUME NEW y \in Int, NEW d \in Int, YearStart(y) =< d, d < YearStart(y + 1)
    PROVE  \E m \in 1..12 : d - YearStart(y) - MonthStart(y, m) \in 0..(DaysInMonth(y, m) - 1)
<1>1. PICK k \in Int : k = d - YearStart(y) /\ 0 =< k
                     /\ k < 365 + (IF IsLeapYear(y) THEN 1 ELSE 0)
  BY YearLength
<1>2. \E m \in 1..12 : MonthStart(y, m) =< k /\ k < MonthStart(y, m) + DaysInMonth(y, m)
  BY <1>1, MonthTable
<1>3. PICK m \in 1..12 : MonthStart(y, m) =< k /\ k < MonthStart(y, m) + DaysInMonth(y, m)
  BY <1>2
<1>4. MonthStart(y, m) \in Nat /\ DaysInMonth(y, m) \in Nat /\ YearStart(y) \in Int
  BY MonthsInOrder, YearLength
<1>5. d - YearStart(y) - MonthStart(y, m) \in 0..(DaysInMonth(y, m) - 1)
  BY <1>1, <1>3, <1>4
<1>. QED BY <1>5

\* A day of a year is in no two of its months.
LEMMA MonthIsUnique ==
    ASSUME NEW y \in Int, NEW d \in Int, NEW m \in 1..12, NEW n \in 1..12,
           d - YearStart(y) - MonthStart(y, m) \in 0..(DaysInMonth(y, m) - 1),
           d - YearStart(y) - MonthStart(y, n) \in 0..(DaysInMonth(y, n) - 1)
    PROVE  m = n
<1>1. PICK k \in Int : k = d - YearStart(y)
  BY YearLength
<1>2. /\ MonthStart(y, m) \in Nat /\ DaysInMonth(y, m) \in Nat
      /\ MonthStart(y, n) \in Nat /\ DaysInMonth(y, n) \in Nat
  BY MonthsInOrder
<1>3. /\ m < n => MonthStart(y, m) + DaysInMonth(y, m) =< MonthStart(y, n)
      /\ n < m => MonthStart(y, n) + DaysInMonth(y, n) =< MonthStart(y, m)
  BY MonthsInOrder
<1>4. ~(m < n) /\ ~(n < m)
  BY <1>1, <1>2, <1>3
<1>. QED BY <1>4

\* A date names a day of its year, and the calendar reads it back.
THEOREM DateOfDay ==
    ASSUME NEW y \in Years, NEW m \in 1..12, NEW d \in 1..DaysInMonth(y, m)
    PROVE  LET day == DayNumber(y, m, d) IN
           /\ day \in Nat /\ YearStart(y) =< day /\ day < YearStart(y + 1)
           /\ YearOf(day) = y /\ MonthOf(day) = m /\ DayOfMonth(day) = d
<1>. DEFINE day == DayNumber(y, m, d)
            In(n) == day - YearStart(y) - MonthStart(y, n) \in 0..(DaysInMonth(y, n) - 1)
<1>. HIDE DEF day
<1>1. y \in Int
  BY DEF Years
<1>2. /\ MonthStart(y, m) \in Nat /\ DaysInMonth(y, m) \in Nat
      /\ YearStart(y) + MonthStart(y, m) + DaysInMonth(y, m) =< YearStart(y + 1)
      /\ YearStart(y) \in Nat /\ YearStart(y + 1) \in Nat
  <2>1. YearStart(y) \in Nat /\ YearStart(y + 1) \in Nat
    BY DEF YearStart, Years
  <2>2. /\ MonthStart(y, m) \in Nat /\ DaysInMonth(y, m) \in Nat
        /\ YearStart(y) + MonthStart(y, m) + DaysInMonth(y, m) =< YearStart(y + 1)
    BY <1>1, MonthsInOrder
  <2>. QED BY <2>1, <2>2
<1>3. day \in Nat /\ YearStart(y) =< day /\ day < YearStart(y + 1)
  BY <1>2 DEF DayNumber, day
<1>4. YearOf(day) = y
  BY <1>1, <1>3, DayOfYear
<1>5. In(m)
  BY <1>2 DEF DayNumber, day
<1>6. ASSUME NEW n \in 1..12, In(n) PROVE n = m
  <2>1. day \in Int
    BY <1>3
  <2>. QED BY <1>1, <1>5, <1>6, <2>1, MonthIsUnique, Zenon
<1>7. MonthOf(day) = m
  <2>1. MonthOf(day) = CHOOSE n \in 1..12 : In(n)
    BY <1>4 DEF MonthOf
  <2>. HIDE DEF In
  <2>. QED BY <1>5, <1>6, <2>1
<1>8. DayOfMonth(day) = d
  BY <1>2, <1>4, <1>7 DEF DayOfMonth, DayNumber, day
<1>. QED BY <1>3, <1>4, <1>7, <1>8 DEF day

\* The calendar reads a date of every day, which names that day.
LEMMA DayOfDate ==
    ASSUME NEW d \in Nat
    PROVE  /\ IsDate(YearOf(d), MonthOf(d), DayOfMonth(d))
           /\ DayNumber(YearOf(d), MonthOf(d), DayOfMonth(d)) = d
<1>. DEFINE In(n) == d - YearStart(YearOf(d)) - MonthStart(YearOf(d), n)
                        \in 0..(DaysInMonth(YearOf(d), n) - 1)
<1>1. PICK y \in Int : y = YearOf(d) /\ YearStart(y) =< d /\ d < YearStart(y + 1)
  BY YearOfDay DEF Years
<1>2. \E m \in 1..12 : In(m)
  BY <1>1, MonthExists
<1>3. MonthOf(d) \in 1..12 /\ In(MonthOf(d))
  <2>1. MonthOf(d) = CHOOSE n \in 1..12 : In(n)
    BY DEF MonthOf
  <2>. HIDE DEF In
  <2>. QED BY <1>2, <2>1
<1>4. PICK m \in 1..12 : m = MonthOf(d)
  BY <1>3
<1>5. MonthStart(y, m) \in Nat /\ DaysInMonth(y, m) \in Nat /\ YearStart(y) \in Int
  BY MonthsInOrder, YearLength
<1>6. d - YearStart(y) - MonthStart(y, m) \in 0..(DaysInMonth(y, m) - 1)
  BY <1>1, <1>3, <1>4
<1>7. DayOfMonth(d) = d - YearStart(y) - MonthStart(y, m) + 1
  BY <1>1, <1>4 DEF DayOfMonth
<1>8. IsDate(y, m, DayOfMonth(d))
  BY <1>5, <1>6, <1>7 DEF IsDate
<1>9. DayNumber(y, m, DayOfMonth(d)) = d
  BY <1>5, <1>7 DEF DayNumber
<1>. QED BY <1>1, <1>4, <1>8, <1>9

\* Days are in the order of their years.
LEMMA YearOfGrows ==
    ASSUME NEW d \in Nat, NEW e \in Nat, d =< e
    PROVE  YearOf(d) =< YearOf(e)
<1>1. PICK y \in Int : y = YearOf(d) /\ YearStart(y) =< d /\ d < YearStart(y + 1)
  BY YearOfDay DEF Years
<1>2. PICK z \in Int : z = YearOf(e) /\ YearStart(z) =< e /\ e < YearStart(z + 1)
  BY YearOfDay DEF Years
<1>3. z < y => YearStart(z + 1) =< YearStart(y)
  BY YearsInOrder
<1>4. YearStart(z + 1) \in Int /\ YearStart(y) \in Int
  BY YearLength
<1>. QED BY <1>1, <1>2, <1>3, <1>4

-----------------------------------------------------------------------------
(* What a search returns.                                                  *)

\* Nothing, or an instant of S after t.
Finds(r, t, S) == r \in {NoFire, ValueError} \/ (r \in S /\ r > t)

\* And there is no earlier one.
FindsFirst(r, t, S) == \A u \in S : u > t => r \notin {NoFire, ValueError} /\ r =< u

\* The least of the instants that are left is what was looked for when each
\* instant of S has one of them before it.
LEMMA EarliestFinds ==
    ASSUME NEW t \in Nat, NEW S \in SUBSET Nat, NEW F \in SUBSET S,
           \A x \in F : x > t,
           \A u \in S : u > t => \E x \in F : x =< u
    PROVE  Finds(Earliest(F), t, S) /\ FindsFirst(Earliest(F), t, S)
<1>1. F = {} => Earliest(F) = NoFire
  BY EarliestIsLeast
<1>2. F # {} => Earliest(F) \in F /\ \A x \in F : Earliest(F) =< x
  BY EarliestIsLeast
<1>3. \A x \in F : x \in Nat /\ x \notin {NoFire, ValueError}
  BY DEF NoFire, ValueError
<1>4. CASE F = {}
  BY <1>1, <1>4 DEF Finds, FindsFirst
<1>5. CASE F # {}
  <2>1. PICK r \in F : r = Earliest(F) /\ \A x \in F : r =< x
    BY <1>2, <1>5
  <2>2. ASSUME NEW u \in S, u > t PROVE r =< u
    <3>1. PICK x \in F : x =< u
      BY <2>2
    <3>2. r \in Int /\ x \in Int /\ u \in Int /\ r =< x
      BY <2>1
    <3>. QED BY <3>1, <3>2
  <2>. QED BY <1>3, <2>1, <2>2 DEF Finds, FindsFirst
<1>. QED BY <1>4, <1>5

-----------------------------------------------------------------------------
(* A time of day on the selected weekdays.                                 *)

AbsoluteInstants(p) ==
    {u \in Nat : /\ IsTime(p.hour, p.minute)
                 /\ MatchesDaysMask(DayOf(u), p.days)
                 /\ SecondOfDay(u) = TimeOfDay(p.hour, p.minute)}

\* The same second of a day that the mask selects is found within a week.
LEMMA WithinWeek ==
    ASSUME NEW t \in Nat, NEW u \in Nat, u > t, NEW mask, MatchesDaysMask(DayOf(u), mask)
    PROVE  \E offset \in 0..7 :
               LET x == Instant(DayOf(t) + offset, SecondOfDay(u)) IN
               /\ MatchesDaysMask(DayOf(t) + offset, mask)
               /\ x \in Int /\ DayOf(x) = DayOf(t) + offset /\ SecondOfDay(x) = SecondOfDay(u)
               /\ x > t /\ x =< u
<1>1. PICK d \in Int, e \in Int, b \in SecondsOfDay, c \in SecondsOfDay :
          /\ d = DayOf(t) /\ b = SecondOfDay(t) /\ Instant(d, b) = t
          /\ e = DayOf(u) /\ c = SecondOfDay(u) /\ Instant(e, c) = u
  BY InstantOfDay
<1>2. d =< e
  BY <1>1, DayOfGrows
<1>3. CASE d = e
  <2>1. 0 \in 0..7 /\ d + 0 = e
    BY <1>3
  <2>. QED BY <1>1, <2>1
<1>4. CASE d < e
  <2>1. PICK k \in 1..7 : d + k =< e /\ Weekday(d + k) = Weekday(e)
    BY <1>4, WeekdayWithinWeek
  <2>2. k \in 0..7 /\ d + k \in Int /\ d < d + k
    OBVIOUS
  <2>3. MatchesDaysMask(d + k, mask)
    BY <1>1, <2>1, <2>2, MaskIsWeekly
  <2>. DEFINE x == Instant(d + k, c)
  <2>4. x \in Int /\ DayOf(x) = d + k /\ SecondOfDay(x) = c
    BY <2>2, DayOfInstant
  <2>5. x > t
    BY <1>1, <2>2, DaysInOrder, Zenon
  <2>6. x =< u
    <3>1. CASE d + k = e
      BY <1>1, <3>1
    <3>2. CASE d + k < e
      BY <1>1, <2>2, <2>4, <3>2, DaysInOrder
    <3>. QED BY <2>1, <2>2, <3>1, <3>2
  <2>. HIDE DEF x
  <2>. QED BY <1>1, <2>2, <2>3, <2>4, <2>5, <2>6 DEF x
<1>. QED BY <1>2, <1>3, <1>4

\* Whatever the time of day, the weekdays and the instant, the search for a
\* wall-clock program finds the next one.
THEOREM AbsoluteFireFinds ==
    ASSUME NEW t \in Nat, NEW p, p.hour \in Nat, p.minute \in Nat, TimeKind(p) = "absolute"
    PROVE  /\ Finds(NextAbsoluteFire(t, p), t, AbsoluteInstants(p))
           /\ FindsFirst(NextAbsoluteFire(t, p), t, AbsoluteInstants(p))
<1>. DEFINE c == TimeOfDay(p.hour, p.minute)
            S == AbsoluteInstants(p)
            candidates == {Instant(DayOf(t) + offset, c) : offset \in 0..7}
            F == {x \in candidates : x > t /\ MatchesDaysMask(DayOf(x), p.days)}
<1>1. CASE p.days = 0
  <2>1. S = {}
    BY <1>1 DEF AbsoluteInstants, MatchesDaysMask
  <2>2. NextAbsoluteFire(t, p) = NoFire
    BY <1>1 DEF NextAbsoluteFire
  <2>. QED BY <2>1, <2>2 DEF Finds, FindsFirst
<1>2. CASE p.days # 0 /\ ~IsTime(p.hour, p.minute)
  <2>1. S = {}
    BY <1>2 DEF AbsoluteInstants
  <2>2. NextAbsoluteFire(t, p) = ValueError
    BY <1>2 DEF NextAbsoluteFire
  <2>. QED BY <2>1, <2>2 DEF Finds, FindsFirst
<1>3. CASE p.days # 0 /\ IsTime(p.hour, p.minute)
  <2>1. NextAbsoluteFire(t, p) = Earliest(F)
    BY <1>3 DEF NextAbsoluteFire
  <2>2. c \in SecondsOfDay /\ DayOf(t) \in Int
    BY <1>3, TimeOfDayType, InstantOfDay
  <2>3. ASSUME NEW x \in F PROVE x \in S /\ x > t
    <3>1. PICK offset \in 0..7 : x = Instant(DayOf(t) + offset, c)
      OBVIOUS
    <3>2. DayOf(t) + offset \in Int
      BY <2>2
    <3>3. x \in Int /\ SecondOfDay(x) = c
      BY <2>2, <3>1, <3>2, DayOfInstant, Zenon
    <3>4. x > t /\ MatchesDaysMask(DayOf(x), p.days)
      OBVIOUS
    <3>5. x \in Nat
      BY <3>3, <3>4
    <3>. QED BY <1>3, <3>3, <3>4, <3>5 DEF AbsoluteInstants
  <2>4. ASSUME NEW u \in S, u > t PROVE \E x \in F : x =< u
    <3>1. u \in Nat /\ MatchesDaysMask(DayOf(u), p.days) /\ SecondOfDay(u) = c
      BY DEF AbsoluteInstants
    <3>2. PICK offset \in 0..7 :
              LET x == Instant(DayOf(t) + offset, SecondOfDay(u)) IN
              /\ MatchesDaysMask(DayOf(t) + offset, p.days)
              /\ x \in Int /\ DayOf(x) = DayOf(t) + offset /\ SecondOfDay(x) = SecondOfDay(u)
              /\ x > t /\ x =< u
      BY <2>4, <3>1, WithinWeek
    <3>. QED BY <3>1, <3>2
  <2>5. S \in SUBSET Nat /\ F \in SUBSET S
    BY <2>3 DEF AbsoluteInstants
  <2>. HIDE DEF F, S
  <2>6. (\A x \in F : x > t) /\ (\A u \in S : u > t => \E x \in F : x =< u)
    BY <2>3, <2>4
  <2>7. Finds(Earliest(F), t, S) /\ FindsFirst(Earliest(F), t, S)
    BY <2>5, <2>6, EarliestFinds
  <2>. QED BY <2>1, <2>7 DEF S
<1>. QED BY <1>1, <1>2, <1>3

-----------------------------------------------------------------------------
(* A sun event with its offset.                                            *)

SunInstants(p, location) ==
    {u \in Nat : \E d \in Int : /\ MatchesDaysMask(d, p.days)
                               /\ SunEvent(p, location, d) = u}

\* The event of a day is that of the first day, as many days later.
LEMMA SunEventOfDay ==
    ASSUME NEW p, p.minute \in Nat, NEW location,
           location.sunrise \in SecondsOfDay, location.sunset \in SecondsOfDay, NEW d \in Int
    PROVE  /\ SunEvent(p, location, 0) \in Int
           /\ SunEvent(p, location, d) = Instant(d, SunEvent(p, location, 0))
<1>1. TimeOffsetMinutes(p) \in Int
  BY DEF TimeOffsetMinutes, Signed
<1>2. location.sunrise \in Int /\ location.sunset \in Int
  BY SecondsOfDayType
<1>. QED BY <1>1, <1>2 DEF SunEvent, Instant, DaySecs, MinuteSecs

\* The search for a sun event finds one, if it finds any.
LEMMA SunFireFinds ==
    ASSUME NEW t \in Nat, NEW p, p.minute \in Nat, NEW location,
           location.sunrise \in SecondsOfDay, location.sunset \in SecondsOfDay
    PROVE  Finds(NextSunRelativeFire(t, p, location), t, SunInstants(p, location))
<1>. DEFINE r == NextSunRelativeFire(t, p, location)
            days == {d \in DayOf(t)..(DayOf(t) + 7) : MatchesDaysMask(d, p.days)}
            raising == days \cap location.raises
            decisive == raising \cup {d \in days : SunEvent(p, location, d) > t}
<1>1. CASE r = NoFire
  BY <1>1 DEF Finds
<1>2. CASE r # NoFire
  <2>1. /\ Earliest(decisive) # NoFire /\ Earliest(decisive) \notin raising
        /\ r = SunEvent(p, location, Earliest(decisive))
    BY <1>2 DEF NextSunRelativeFire
  <2>2. DayOf(t) \in Nat
    BY DEF DayOf, DaySecs
  <2>3. decisive \in SUBSET Nat
    BY <2>2
  <2>4. Earliest(decisive) \in decisive
    BY <2>1, <2>3, EarliestIsLeast
  <2>5. PICK d \in Int : /\ MatchesDaysMask(d, p.days)
                         /\ SunEvent(p, location, d) > t /\ r = SunEvent(p, location, d)
    <3>1. PICK d \in decisive : d = Earliest(decisive)
      BY <2>4
    <3>2. d \in days /\ SunEvent(p, location, d) > t /\ d \in Int
      BY <2>1, <2>2, <3>1
    <3>. QED BY <2>1, <3>1, <3>2
  <2>. HIDE DEF r
  <2>6. r \in Int
    BY <2>5, SunEventOfDay, SecondsOfDayType DEF Instant, DaySecs
  <2>7. r \in Nat /\ r > t
    BY <2>5, <2>6
  <2>. QED BY <2>5, <2>7 DEF Finds, SunInstants, r
<1>. QED BY <1>1, <1>2

\* An event is at most a day away from the day that it is the event of.
LEMMA SunEventIsNear ==
    ASSUME NEW p, p.minute \in Byte, NEW location,
           location.sunrise \in SecondsOfDay, location.sunset \in SecondsOfDay,
           NEW d \in Int, NEW u \in Int, SunEvent(p, location, d) = u
    PROVE  d \in (DayOf(u) - 1)..(DayOf(u) + 1)
<1>1. TimeOffsetMinutes(p) \in Int /\ -128 =< TimeOffsetMinutes(p) /\ TimeOffsetMinutes(p) =< 128
  BY DEF TimeOffsetMinutes, Signed, Byte
<1>2. PICK c \in Int : 0 =< c /\ c < 86400 /\ u = 86400 * d + c + 60 * TimeOffsetMinutes(p)
  <2>. DEFINE c == IF TimeKind(p) = "sunrise" THEN location.sunrise ELSE location.sunset
  <2>1. c \in Int /\ 0 =< c /\ c < 86400
    BY SecondsOfDayType
  <2>2. u = 86400 * d + c + 60 * TimeOffsetMinutes(p)
    BY DEF SunEvent, Instant, DaySecs, MinuteSecs
  <2>. HIDE DEF c
  <2>. QED BY <2>1, <2>2
<1>3. PICK k \in Int : k = TimeOffsetMinutes(p)
  BY <1>1
<1>4. d - 1 =< u \div 86400 /\ u \div 86400 =< d + 1
  BY <1>1, <1>2, <1>3
<1>. QED BY <1>4 DEF DayOf, DaySecs

\* When the events stay in their days and none fails to be computed, it finds
\* the next one.
THEOREM SunFireFindsFirst ==
    ASSUME NEW t \in Nat, NEW p, p.minute \in Nat, TimeKind(p) # "absolute", NEW location,
           location.sunrise \in SecondsOfDay, location.sunset \in SecondsOfDay,
           location.raises = {}, SunEvent(p, location, 0) \in SecondsOfDay
    PROVE  FindsFirst(NextSunRelativeFire(t, p, location), t, SunInstants(p, location))
<1>. DEFINE c == SunEvent(p, location, 0)
            r == NextSunRelativeFire(t, p, location)
            days == {d \in DayOf(t)..(DayOf(t) + 7) : MatchesDaysMask(d, p.days)}
            decisive == {d \in days : SunEvent(p, location, d) > t}
<1>1. IF Earliest(decisive) = NoFire THEN r = NoFire
      ELSE r = SunEvent(p, location, Earliest(decisive))
  <2>1. days \cap location.raises = {} /\ {} \cup decisive = decisive
    OBVIOUS
  <2>. QED BY <2>1 DEF NextSunRelativeFire
<1>2. \A d \in Int : SunEvent(p, location, d) = Instant(d, c)
  BY SunEventOfDay
<1>3. DayOf(t) \in Nat
  BY DEF DayOf, DaySecs
<1>4. decisive \in SUBSET Nat
  BY <1>3
<1>5. SUFFICES ASSUME NEW u \in SunInstants(p, location), u > t
               PROVE  r \notin {NoFire, ValueError} /\ r =< u
  BY DEF FindsFirst
<1>6. PICK e \in Int : /\ u \in Nat /\ u = Instant(e, c)
                       /\ MatchesDaysMask(e, p.days)
  BY <1>2 DEF SunInstants
<1>7. DayOf(u) = e /\ SecondOfDay(u) = c
  BY <1>6, DayOfInstant
<1>8. PICK offset \in 0..7 :
          LET x == Instant(DayOf(t) + offset, SecondOfDay(u)) IN
          /\ MatchesDaysMask(DayOf(t) + offset, p.days)
          /\ x \in Int /\ DayOf(x) = DayOf(t) + offset /\ SecondOfDay(x) = SecondOfDay(u)
          /\ x > t /\ x =< u
  BY <1>5, <1>6, <1>7, WithinWeek
<1>9. PICK n \in Nat : /\ n = DayOf(t) + offset /\ n \in DayOf(t)..(DayOf(t) + 7)
                       /\ MatchesDaysMask(n, p.days) /\ Instant(n, c) > t /\ Instant(n, c) =< u
  BY <1>3, <1>7, <1>8
<1>10. n \in decisive
  BY <1>2, <1>9
<1>11. PICK d \in decisive : d = Earliest(decisive) /\ d =< n
  BY <1>4, <1>10, EarliestIsLeast
<1>12. d \in Nat /\ SunEvent(p, location, d) > t
  BY <1>4, <1>11
<1>13. r = Instant(d, c) /\ r > t
  BY <1>1, <1>2, <1>11, <1>12 DEF NoFire
<1>14. c \in Int
  BY SecondsOfDayType
<1>15. Instant(d, c) \in Int /\ Instant(n, c) \in Int /\ Instant(d, c) =< Instant(n, c)
  BY <1>9, <1>11, <1>12, <1>14 DEF Instant, DaySecs
<1>. HIDE DEF r, c
<1>16. r \in Int /\ r =< u
  BY <1>6, <1>9, <1>13, <1>15
<1>. QED BY <1>13, <1>16 DEF NoFire, ValueError

-----------------------------------------------------------------------------
(* A date and a time of day.                                               *)

YearlyInstants(p) ==
    {u \in Nat : /\ MonthOf(DayOf(u)) = p.month /\ DayOfMonth(DayOf(u)) = p.day
                 /\ IsTime(p.hour, p.minute)
                 /\ SecondOfDay(u) = TimeOfDay(p.hour, p.minute)}

\* The instant of a yearly program in a year that has its date.
InYear(p, y) == Instant(DayNumber(y, p.month, p.day), TimeOfDay(p.hour, p.minute))

\* It is in that year, and is one of the instants of the program.
LEMMA InYearIsDue ==
    ASSUME NEW p, p.hour \in Nat, p.minute \in Nat, IsTime(p.hour, p.minute),
           NEW y \in Years, IsDate(y, p.month, p.day)
    PROVE  /\ InYear(p, y) \in YearlyInstants(p)
           /\ DayOf(InYear(p, y)) \in Nat
           /\ YearStart(y) =< DayOf(InYear(p, y)) /\ DayOf(InYear(p, y)) < YearStart(y + 1)
<1>. DEFINE c == TimeOfDay(p.hour, p.minute)
            day == DayNumber(y, p.month, p.day)
            u == Instant(day, c)
<1>1. c \in SecondsOfDay /\ c \in Nat
  BY TimeOfDayType, SecondsOfDayType
<1>2. p.month \in 1..12 /\ p.day \in 1..DaysInMonth(y, p.month)
  BY DEF IsDate
<1>3. /\ day \in Nat /\ YearStart(y) =< day /\ day < YearStart(y + 1)
      /\ MonthOf(day) = p.month /\ DayOfMonth(day) = p.day
  BY <1>2, DateOfDay
<1>. HIDE DEF c, day
<1>4. u \in Nat /\ DayOf(u) = day /\ SecondOfDay(u) = c
  <2>1. DayOf(u) = day /\ SecondOfDay(u) = c
    BY <1>1, <1>3, DayOfInstant
  <2>2. u \in Nat
    BY <1>1, <1>3 DEF Instant, DaySecs
  <2>. QED BY <2>1, <2>2
<1>5. InYear(p, y) = u
  BY DEF InYear, c, day
<1>. QED BY <1>3, <1>4, <1>5 DEF YearlyInstants, c

\* Every instant of the program is that of its year.
LEMMA DueIsInYear ==
    ASSUME NEW p, NEW u \in YearlyInstants(p)
    PROVE  LET y == YearOf(DayOf(u)) IN
           /\ DayOf(u) \in Nat /\ y \in Years
           /\ IsTime(p.hour, p.minute) /\ IsDate(y, p.month, p.day) /\ InYear(p, y) = u
<1>1. /\ u \in Nat /\ MonthOf(DayOf(u)) = p.month /\ DayOfMonth(DayOf(u)) = p.day
      /\ IsTime(p.hour, p.minute) /\ SecondOfDay(u) = TimeOfDay(p.hour, p.minute)
  BY DEF YearlyInstants
<1>2. DayOf(u) \in Nat /\ Instant(DayOf(u), SecondOfDay(u)) = u
  <2>1. DayOf(u) \in Nat
    BY <1>1 DEF DayOf, DaySecs
  <2>. QED BY <1>1, <2>1, InstantOfDay
<1>. QED BY <1>1, <1>2, DayOfDate, YearOfDay DEF InYear

\* In a later year it is later.
LEMMA InYearGrows ==
    ASSUME NEW p, p.hour \in Nat, p.minute \in Nat, IsTime(p.hour, p.minute),
           NEW y \in Years, IsDate(y, p.month, p.day), NEW u \in Nat, YearStart(y + 1) =< DayOf(u)
    PROVE  InYear(p, y) < u
<1>1. PICK v \in Nat : v = InYear(p, y) /\ DayOf(v) \in Nat /\ DayOf(v) < YearStart(y + 1)
  BY InYearIsDue DEF YearlyInstants
<1>2. DayOf(u) \in Int /\ YearStart(y + 1) \in Int
  BY YearLength DEF DayOf, DaySecs, Years
<1>3. DayOf(v) < DayOf(u)
  BY <1>1, <1>2
<1>4. ~(u =< v)
  BY <1>1, <1>2, <1>3, DayOfGrows
<1>. QED BY <1>1, <1>4

\* The two years that the search tries, in turn.
LEMMA YearlyFireCases ==
    ASSUME NEW t \in Nat, NEW p
    PROVE  LET y == YearOf(DayOf(t))
               Valid(z) == IsDate(z, p.month, p.day) /\ IsTime(p.hour, p.minute)
               r == NextYearlyFire(t, p)
           IN \/ /\ p.month # 0 /\ p.day # 0 /\ Valid(y)
                 /\ InYear(p, y) > t /\ r = InYear(p, y)
              \/ /\ p.month # 0 /\ p.day # 0 /\ Valid(y) /\ ~(InYear(p, y) > t)
                 /\ Valid(y + 1) /\ InYear(p, y + 1) > t /\ r = InYear(p, y + 1)
              \/ /\ r = NoFire
                 /\ \/ p.month = 0 \/ p.day = 0 \/ ~Valid(y)
                    \/ ~(InYear(p, y) > t) /\ (~Valid(y + 1) \/ ~(InYear(p, y + 1) > t))
BY Zenon DEF NextYearlyFire, InYear

\* The search for a yearly program finds one of its instants, if it finds any.
LEMMA YearlyFireFinds ==
    ASSUME NEW t \in Nat, NEW p, p.hour \in Nat, p.minute \in Nat
    PROVE  Finds(NextYearlyFire(t, p), t, YearlyInstants(p))
<1>1. DayOf(t) \in Nat
  BY DEF DayOf, DaySecs
<1>2. PICK y \in Years : y = YearOf(DayOf(t)) /\ y + 1 \in Years
  BY <1>1, YearOfDay DEF Years
<1>. QED BY <1>2, YearlyFireCases, InYearIsDue DEF Finds

\* When its date exists in every year up to a horizon, or in none, it finds
\* the next one before the horizon.
THEOREM YearlyFireFindsFirst ==
    ASSUME NEW t \in Nat, NEW p, p.hour \in Nat, p.minute \in Nat, NEW h \in Nat,
           \A y, z \in YearOf(DayOf(t))..YearOf(DayOf(h)) :
               IsDate(y, p.month, p.day) => IsDate(z, p.month, p.day)
    PROVE  FindsFirst(NextYearlyFire(t, p), t, {u \in YearlyInstants(p) : u =< h})
<1>1. DayOf(t) \in Nat /\ DayOf(h) \in Nat
  BY DEF DayOf, DaySecs
<1>2. PICK y \in Years : y = YearOf(DayOf(t)) /\ YearStart(y) =< DayOf(t) /\ DayOf(t) < YearStart(y + 1)
  BY <1>1, YearOfDay
<1>3. y \in Int /\ y + 1 \in Years /\ y + 1 \in Int /\ y + 1 + 1 \in Int
  BY DEF Years
<1>4. SUFFICES ASSUME NEW u \in YearlyInstants(p), u =< h, u > t
               PROVE  NextYearlyFire(t, p) \notin {NoFire, ValueError} /\ NextYearlyFire(t, p) =< u
  BY DEF FindsFirst
<1>5. u \in Nat
  BY DEF YearlyInstants
<1>6. PICK z \in Years : /\ z = YearOf(DayOf(u)) /\ DayOf(u) \in Nat
                         /\ IsTime(p.hour, p.minute) /\ IsDate(z, p.month, p.day) /\ InYear(p, z) = u
  BY DueIsInYear
<1>7. z \in Int /\ YearStart(z) =< DayOf(u) /\ YearStart(z) \in Int
  BY <1>6, YearOfDay, YearLength DEF Years
<1>8. y =< z /\ z =< YearOf(DayOf(h))
  <2>1. DayOf(t) =< DayOf(u) /\ DayOf(u) =< DayOf(h)
    BY <1>4, <1>5, DayOfGrows
  <2>. QED BY <1>1, <1>2, <1>6, <2>1, YearOfGrows
<1>9. \A x \in y..z : IsDate(x, p.month, p.day)
  <2>1. YearOf(DayOf(h)) \in Int
    BY <1>1, YearOfDay DEF Years
  <2>2. y..z \subseteq YearOf(DayOf(t))..YearOf(DayOf(h)) /\ z \in y..z
    BY <1>2, <1>3, <1>7, <1>8, <2>1
  <2>. QED BY <1>6, <2>2
<1>10. p.month # 0 /\ p.day # 0
  BY <1>6 DEF IsDate
<1>11. IsDate(y, p.month, p.day)
  BY <1>3, <1>7, <1>8, <1>9
<1>12. InYear(p, y) \in Nat /\ InYear(p, y) =< u
  <2>1. InYear(p, y) \in Nat
    BY <1>6, <1>11, InYearIsDue DEF YearlyInstants
  <2>2. CASE y = z
    BY <1>5, <1>6, <2>1, <2>2
  <2>3. CASE y < z
    <3>1. YearStart(y + 1) =< YearStart(z) /\ YearStart(y + 1) \in Int
      BY <1>3, <1>7, <2>3, YearsInOrder, YearLength
    <3>2. YearStart(y + 1) =< DayOf(u)
      BY <1>6, <1>7, <3>1
    <3>. QED BY <1>5, <1>6, <1>11, <2>1, <3>2, InYearGrows
  <2>. QED BY <1>3, <1>7, <1>8, <2>2, <2>3
<1>13. CASE InYear(p, y) > t
  <2>1. NextYearlyFire(t, p) = InYear(p, y)
    BY <1>2, <1>6, <1>10, <1>11, <1>13, YearlyFireCases, Zenon
  <2>. QED BY <1>12, <2>1 DEF NoFire, ValueError
<1>14. CASE ~(InYear(p, y) > t)
  <2>1. y + 1 =< z
    BY <1>3, <1>4, <1>6, <1>7, <1>8, <1>14
  <2>2. IsDate(y + 1, p.month, p.day)
    BY <1>3, <1>7, <1>9, <2>1
  <2>3. /\ InYear(p, y + 1) \in Nat
        /\ DayOf(InYear(p, y + 1)) \in Nat /\ YearStart(y + 1) =< DayOf(InYear(p, y + 1))
    BY <1>3, <1>6, <2>2, InYearIsDue DEF YearlyInstants
  <2>4. InYear(p, y + 1) > t
    <3>1. YearStart(y + 1) \in Int
      BY <1>3, YearLength
    <3>2. DayOf(t) < DayOf(InYear(p, y + 1))
      BY <1>1, <1>2, <2>3, <3>1
    <3>3. ~(InYear(p, y + 1) =< t)
      BY <1>1, <2>3, <3>2, DayOfGrows
    <3>. QED BY <2>3, <3>3
  <2>5. InYear(p, y + 1) =< u
    <3>1. CASE y + 1 = z
      BY <1>5, <1>6, <3>1
    <3>2. CASE y + 1 < z
      <4>1. YearStart(y + 1 + 1) =< YearStart(z) /\ YearStart(y + 1 + 1) \in Int
        <5>1. YearStart(y + 1 + 1) =< YearStart(z)
          BY <1>3, <1>7, <3>2, YearsInOrder
        <5>2. YearStart(y + 1 + 1) \in Int
          BY <1>3, YearLength
        <5>. QED BY <5>1, <5>2
      <4>2. YearStart(y + 1 + 1) =< DayOf(u)
        BY <1>6, <1>7, <4>1
      <4>. QED BY <1>3, <1>5, <1>6, <2>2, <2>3, <4>2, InYearGrows
    <3>. QED BY <1>3, <1>7, <2>1, <3>1, <3>2
  <2>6. NextYearlyFire(t, p) = InYear(p, y + 1)
    BY <1>2, <1>6, <1>10, <1>11, <1>14, <2>2, <2>4, YearlyFireCases, Zenon
  <2>. QED BY <2>3, <2>5, <2>6 DEF NoFire, ValueError
<1>. QED BY <1>13, <1>14
=============================================================================
