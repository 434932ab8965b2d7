--------------------------- MODULE StatisticsProofs ---------------------------
(***************************************************************************)
(* The statistics of a space add up, block by block, for every book, calendar*)
(* and interleaving of writes with the reads of a screen; and what a space's *)
(* readers get, of the history, the statistics and the overviews, is of the *)
(* types that describe it.                                                 *)
(***************************************************************************)
EXTENDS HistoryProofs

-----------------------------------------------------------------------------
(* Months: one after another, of 28 to 31 days.                            *)

LEMMA MonthBeginnings ==
  /\ MonthBegins[1] = 0 /\ MonthBegins[2] = 31 /\ MonthBegins[3] = 59 /\ MonthBegins[4] = 90
  /\ MonthBegins[5] = 120 /\ MonthBegins[6] = 151 /\ MonthBegins[7] = 181 /\ MonthBegins[8] = 212
  /\ MonthBegins[9] = 243 /\ MonthBegins[10] = 273 /\ MonthBegins[11] = 304
  /\ MonthBegins[12] = 334
  BY DEF MonthBegins

\* The first of a month, by year and month of the year.
FirstIn(year, k) ==
  365 * year + (year + 2) \div 4 + MonthBegins[k + 1] + (IF year % 4 = 1 /\ k >= 2 THEN 1 ELSE 0)

LEMMA MonthInYear ==
  ASSUME NEW m \in Int
  PROVE  \E year \in Int, k \in 0..11 : m = 12 * year + k /\ FirstOfMonth(m) = FirstIn(year, k)
  <1> PICK year, k : year = m \div 12 /\ k = m % 12
    OBVIOUS
  <1>1. year \in Int /\ k \in 0..11 /\ m = 12 * year + k
    BY SMT
  <1>2. FirstOfMonth(m) = FirstIn(year, k)
    BY DEF FirstOfMonth, FirstIn
  <1> QED
    BY <1>1, <1>2

LEMMA FirstOfYearsMonth ==
  ASSUME NEW year \in Int, NEW k \in 0..11
  PROVE  FirstOfMonth(12 * year + k) = FirstIn(year, k)
  <1> PICK m : m = 12 * year + k
    OBVIOUS
  <1>1. m \div 12 = year /\ m % 12 = k
    BY SMT
  <1> QED
    BY <1>1 DEF FirstOfMonth, FirstIn

LEMMA FirstInType ==
  ASSUME NEW year \in Int, NEW k \in 0..11
  PROVE  FirstIn(year, k) \in Int
  <1>1. MonthBegins[k + 1] \in 0..334
    <2>1. k \in {0, 1, 2, 3, 4, 5, 6, 7, 8, 9, 10, 11}
      OBVIOUS
    <2> QED
      BY <2>1, MonthBeginnings
  <1>2. (year + 2) \div 4 \in Int
    BY SMT
  <1> QED
    BY <1>1, <1>2 DEF FirstIn

LEMMA MonthLength ==
  ASSUME NEW m \in Int
  PROVE  /\ FirstOfMonth(m) \in Int
         /\ FirstOfMonth(m + 1) - FirstOfMonth(m) \in 28..31
  <1> PICK year \in Int, k \in 0..11 : m = 12 * year + k /\ FirstOfMonth(m) = FirstIn(year, k)
    BY MonthInYear
  <1>1. FirstIn(year, k) \in Int
    BY FirstInType
  <1>2. CASE k < 11
    <2>1. m + 1 = 12 * year + (k + 1) /\ k + 1 \in 0..11
      BY <1>2
    <2>2. FirstOfMonth(m + 1) = FirstIn(year, k + 1)
      BY <2>1, FirstOfYearsMonth
    <2>3. MonthBegins[k + 1] \in 0..334 /\ MonthBegins[k + 2] \in 0..334
      <3>1. k \in {0, 1, 2, 3, 4, 5, 6, 7, 8, 9, 10}
        BY <1>2
      <3> QED
        BY <3>1, MonthBeginnings
    <2>4. /\ k # 1 => MonthBegins[k + 2] - MonthBegins[k + 1] \in 30..31
          /\ k = 1 => MonthBegins[k + 2] - MonthBegins[k + 1] = 28
      <3>1. k \in {0, 1, 2, 3, 4, 5, 6, 7, 8, 9, 10}
        BY <1>2
      <3> QED
        BY <3>1, MonthBeginnings
    <2> PICK leaps, a, b, rest : /\ leaps = (year + 2) \div 4 /\ a = MonthBegins[k + 1]
                                 /\ b = MonthBegins[k + 2] /\ rest = year % 4
      OBVIOUS
    <2>5. FirstIn(year, k + 1)
              = 365 * year + leaps + b + (IF rest = 1 /\ k + 1 >= 2 THEN 1 ELSE 0)
      BY DEF FirstIn
    <2>6. FirstIn(year, k) = 365 * year + leaps + a + (IF rest = 1 /\ k >= 2 THEN 1 ELSE 0)
      BY DEF FirstIn
    <2>7. leaps \in Int
      BY SMT
    <2> PICK leap, next : /\ leap = (IF rest = 1 /\ k >= 2 THEN 1 ELSE 0)
                          /\ next = (IF rest = 1 /\ k + 1 >= 2 THEN 1 ELSE 0)
      OBVIOUS
    <2>8. /\ a \in Int /\ b \in Int /\ leap \in 0..1 /\ next \in 0..1
          /\ k # 1 => b - a \in 30..31 /\ next = leap
          /\ k = 1 => b - a = 28 /\ leap = 0
      BY <1>2, <2>3, <2>4
    <2>9. (365 * year + leaps + b + next) - (365 * year + leaps + a + leap) \in 28..31
      BY <2>7, <2>8
    <2>10. FirstIn(year, k + 1) - FirstIn(year, k) \in 28..31
      BY <2>5, <2>6, <2>9
    <2> QED
      BY <1>1, <2>2, <2>10
  <1>3. CASE k = 11
    <2>1. m + 1 = 12 * (year + 1) + 0
      BY <1>3
    <2>2. FirstOfMonth(m + 1) = FirstIn(year + 1, 0)
      BY <2>1, FirstOfYearsMonth
    <2>3. FirstIn(year + 1, 0) = 365 * (year + 1) + (year + 3) \div 4
      BY MonthBeginnings, SMT DEF FirstIn
    <2>4. FirstIn(year, 11)
              = 365 * year + (year + 2) \div 4 + 334 + (IF year % 4 = 1 THEN 1 ELSE 0)
      BY MonthBeginnings, SMT DEF FirstIn
    <2>5. (year + 3) \div 4 = (year + 2) \div 4 + (IF year % 4 = 1 THEN 1 ELSE 0)
      <3> PICK fours, rest : fours = year \div 4 /\ rest = year % 4
        OBVIOUS
      <3>1. fours \in Int /\ rest \in 0..3 /\ year = 4 * fours + rest
        BY SMT
      <3>2. /\ (year + 3) \div 4 = fours + (IF rest >= 1 THEN 1 ELSE 0)
            /\ (year + 2) \div 4 = fours + (IF rest >= 2 THEN 1 ELSE 0)
        BY <3>1, SMT
      <3> QED
        BY <3>1, <3>2
    <2>6. (year + 2) \div 4 \in Int
      BY SMT
    <2>7. FirstIn(year + 1, 0) - FirstIn(year, 11) = 31
      BY <2>3, <2>4, <2>5, <2>6
    <2> QED
      BY <1>1, <1>3, <2>2, <2>7
  <1> QED
    BY <1>2, <1>3

\* The first of a month is a number of days that its number of months bounds.
LEMMA MonthBounds ==
  ASSUME NEW m \in Int
  PROVE  /\ m >= 0 => FirstOfMonth(m) >= 28 * m /\ FirstOfMonth(m) <= 31 * m
         /\ m <= 0 => FirstOfMonth(m) <= 28 * m /\ FirstOfMonth(m) >= 31 * m
  <1> PICK year \in Int, k \in 0..11 : m = 12 * year + k /\ FirstOfMonth(m) = FirstIn(year, k)
    BY MonthInYear
  <1>1. /\ 28 * k <= MonthBegins[k + 1] /\ MonthBegins[k + 1] <= 31 * k
        /\ k >= 2 => MonthBegins[k + 1] <= 31 * k - 2 /\ MonthBegins[k + 1] >= 28 * k + 3
        /\ 31 * k - 7 <= MonthBegins[k + 1] /\ MonthBegins[k + 1] <= 28 * k + 26
        /\ MonthBegins[k + 1] <= 334 /\ MonthBegins[k + 1] \in Int
    <2>1. k \in {0, 1, 2, 3, 4, 5, 6, 7, 8, 9, 10, 11}
      OBVIOUS
    <2> QED
      BY <2>1, MonthBeginnings
  <1> PICK leaps, a, leap : /\ leaps = (year + 2) \div 4 /\ a = MonthBegins[k + 1]
                            /\ leap = (IF year % 4 = 1 /\ k >= 2 THEN 1 ELSE 0)
    OBVIOUS
  <1>2. FirstIn(year, k) = 365 * year + leaps + a + leap
    BY DEF FirstIn
  <1>3. /\ leaps \in Int /\ 4 * leaps <= year + 2 /\ 4 * leaps >= year - 1
        /\ leap \in 0..1 /\ (year = 0 => leap = 0) /\ (k < 2 => leap = 0)
    BY SMT
  <1>4. year >= 0 => /\ 365 * year + leaps + a + leap >= 28 * (12 * year + k)
                     /\ 365 * year + leaps + a + leap <= 31 * (12 * year + k)
    <2>1. a \in Int /\ 28 * k <= a /\ a <= 31 * k /\ (k >= 2 => a <= 31 * k - 2)
      BY <1>1
    <2> QED
      BY <1>3, <2>1
  <1>5. year < 0 => /\ 365 * year + leaps + a + leap <= 28 * (12 * year + k)
                    /\ 365 * year + leaps + a + leap >= 31 * (12 * year + k)
    <2>1. a \in Int /\ 31 * k - 7 <= a /\ a <= 28 * k + 26
      BY <1>1
    <2>2. ASSUME year < 0
          PROVE  /\ 29 * year + leaps + leap + 26 <= 0
                 /\ leaps + leap - 7 >= 7 * year
      BY <1>3, <2>2
    <2> QED
      BY <1>3, <2>1, <2>2
  <1> QED
    BY <1>2, <1>4, <1>5

LEMMA MonthsGrow ==
  ASSUME NEW m \in Int, NEW n \in Int, m < n
  PROVE  FirstOfMonth(m) < FirstOfMonth(n)
  <1> DEFINE Bad == {j \in Nat : FirstOfMonth(m) >= FirstOfMonth(m + j + 1)}
  <1>1. SUFFICES ASSUME Bad # {} PROVE FALSE
    <2>1. Bad = {}
      BY <1>1
    <2> PICK j \in Nat : n = m + j + 1
      <3>1. n - m - 1 \in Nat /\ n = m + (n - m - 1) + 1
        OBVIOUS
      <3> QED
        BY <3>1
    <2>2. ~(FirstOfMonth(m) >= FirstOfMonth(n))
      BY <2>1
    <2>3. FirstOfMonth(m) \in Int /\ FirstOfMonth(n) \in Int
      BY MonthLength
    <2> HIDE DEF Bad
    <2> PICK a, b : a = FirstOfMonth(m) /\ b = FirstOfMonth(n)
      OBVIOUS
    <2> QED
      BY <2>2, <2>3
  <1>2. PICK j \in Bad : \A i \in Bad : j <= i
    BY <1>1, NatMinimum
  <1>3. j \in Nat /\ FirstOfMonth(m) \in Int /\ FirstOfMonth(m + j + 1) \in Int
    BY MonthLength
  <1>4. j # 0
    BY <1>3, MonthLength
  <1>5. j - 1 \in Nat /\ j - 1 \notin Bad
    BY <1>2, <1>3, <1>4
  <1>6. FirstOfMonth(m) < FirstOfMonth(m + j)
    <2>1. m + (j - 1) + 1 = m + j /\ FirstOfMonth(m + j) \in Int
      BY <1>3, MonthLength
    <2> QED
      BY <1>3, <1>5, <2>1
  <1>7. FirstOfMonth(m + j) < FirstOfMonth(m + j + 1)
    BY <1>3, MonthLength
  <1> QED
    BY <1>2, <1>3, <1>6, <1>7, MonthLength

\* Every day is of one month, and MonthOf finds it.
LEMMA MonthExists ==
  ASSUME NEW d \in Int
  PROVE  \E m \in Int : FirstOfMonth(m) <= d /\ d < FirstOfMonth(m + 1)
  <1>1. CASE d >= 0
    <2> DEFINE Good == {m \in Nat : d < FirstOfMonth(m + 1)}
    <2>1. d \in Good
      <3>1. FirstOfMonth(d + 1) \in Int /\ FirstOfMonth(d + 1) >= 28 * (d + 1)
        BY <1>1, MonthBounds, MonthLength
      <3> QED
        BY <1>1, <3>1
    <2>2. PICK m \in Good : \A n \in Good : m <= n
      BY <2>1, NatMinimum
    <2>3. CASE m = 0
      <3>1. FirstOfMonth(0) = 0
        BY MonthBounds, MonthLength
      <3> QED
        BY <1>1, <2>3, <3>1
    <2>4. CASE m # 0
      <3>1. m - 1 \in Nat /\ m - 1 \notin Good /\ (m - 1) + 1 = m
        BY <2>2, <2>4
      <3>2. FirstOfMonth(m) \in Int
        BY MonthLength
      <3> QED
        BY <3>1, <3>2
    <2> QED
      BY <2>3, <2>4
  <1>2. CASE d < 0
    <2> DEFINE Good == {n \in Nat : FirstOfMonth(-n) <= d}
    <2>1. -d \in Good
      <3>1. FirstOfMonth(d) \in Int /\ FirstOfMonth(d) <= 28 * d /\ -(-d) = d
        BY <1>2, MonthBounds, MonthLength
      <3> QED
        BY <1>2, <3>1
    <2>2. PICK n \in Good : \A m \in Good : n <= m
      BY <2>1, NatMinimum
    <2>3. n # 0
      <3>1. FirstOfMonth(0) = 0
        BY MonthBounds, MonthLength
      <3> QED
        BY <1>2, <3>1
    <2>4. n - 1 \in Nat /\ n - 1 \notin Good /\ -(n - 1) = -n + 1
      BY <2>2, <2>3
    <2>5. FirstOfMonth(-n + 1) \in Int
      BY MonthLength
    <2>6. d < FirstOfMonth(-n + 1)
      BY <2>4, <2>5
    <2> QED
      BY <2>6
  <1> QED
    BY <1>1, <1>2

LEMMA MonthOfDay ==
  ASSUME NEW d \in Int
  PROVE  /\ MonthOf(d) \in Int
         /\ FirstOfMonth(MonthOf(d)) <= d /\ d < FirstOfMonth(MonthOf(d) + 1)
  <1> PICK few, many : few = d \div 31 /\ many = d \div 28
    OBVIOUS
  <1> PICK m \in Int : FirstOfMonth(m) <= d /\ d < FirstOfMonth(m + 1)
    BY MonthExists
  <1>1. few \in Int /\ many \in Int
    BY SMT
  <1>2. /\ Min({few, many}) = IF few <= many THEN few ELSE many
        /\ Max({few, many}) = IF few >= many THEN few ELSE many
    BY <1>1 DEF Min, Max
  <1>3. /\ FirstOfMonth(m) \in Int /\ FirstOfMonth(m + 1) \in Int
        /\ m >= 0 => FirstOfMonth(m) >= 28 * m /\ FirstOfMonth(m + 1) <= 31 * (m + 1)
        /\ m < 0 => FirstOfMonth(m) >= 31 * m /\ FirstOfMonth(m + 1) <= 28 * (m + 1)
    BY MonthBounds, MonthLength
  <1>4. (m >= 0 => few <= m /\ m <= many) /\ (m < 0 => many <= m /\ m <= few)
    <2>1. m >= 0 => 28 * m <= d /\ d < 31 * (m + 1)
      BY <1>3
    <2>2. m < 0 => 31 * m <= d /\ d < 28 * (m + 1)
      BY <1>3
    <2> QED
      BY <2>1, <2>2, SMT
  <1>5. m \in Min({few, many})..Max({few, many})
    BY <1>1, <1>2, <1>4
  <1>6. /\ MonthOf(d) \in Min({few, many})..Max({few, many})
        /\ FirstOfMonth(MonthOf(d)) <= d /\ d < FirstOfMonth(MonthOf(d) + 1)
    BY <1>5 DEF MonthOf
  <1>7. Min({few, many}) \in Int /\ Max({few, many}) \in Int
    BY <1>1, <1>2
  <1> QED
    BY <1>6, <1>7

LEMMA MonthOfFirst ==
  ASSUME NEW m \in Int
  PROVE  MonthOf(FirstOfMonth(m)) = m
  <1> PICK d, n : d = FirstOfMonth(m) /\ n = MonthOf(d)
    OBVIOUS
  <1>1. d \in Int /\ d < FirstOfMonth(m + 1) /\ FirstOfMonth(m + 1) \in Int
    BY MonthLength
  <1>2. n \in Int /\ FirstOfMonth(n) <= d /\ d < FirstOfMonth(n + 1)
    BY <1>1, MonthOfDay
  <1>3. FirstOfMonth(n) \in Int /\ FirstOfMonth(n + 1) \in Int
    BY <1>2, MonthLength
  <1>4. ~(m < n)
    <2>1. m < n => FirstOfMonth(m) < FirstOfMonth(n)
      BY <1>2, MonthsGrow
    <2> QED
      BY <1>1, <1>2, <1>3, <2>1
  <1>5. ~(n < m)
    <2>1. n + 1 < m => FirstOfMonth(n + 1) < FirstOfMonth(m)
      BY <1>2, MonthsGrow
    <2> QED
      BY <1>1, <1>2, <1>3, <2>1
  <1> QED
    BY <1>2, <1>4, <1>5

-----------------------------------------------------------------------------
(* Units: a unit has the day it is taken at, and each is after the last.   *)

\* The unit of a day, and those after it.
UnitStart(unit, d, n) == Plus(StartOf(unit, d), unit, n)

LEMMA MonthsOn ==
  ASSUME NEW m \in Int, NEW n \in Int
  PROVE  MonthsLater(FirstOfMonth(m), n) = FirstOfMonth(m + n)
  <1>1. MonthOf(FirstOfMonth(m)) = m /\ FirstOfMonth(m) - FirstOfMonth(m) = 0
    BY MonthOfFirst, MonthLength
  <1> PICK a, b : a = FirstOfMonth(m + n) /\ b = FirstOfMonth(m + n + 1)
    OBVIOUS
  <1>2. a \in Int /\ b \in Int /\ b - a - 1 >= 0
    BY MonthLength
  <1>3. Min({0, b - a - 1}) = 0
    BY <1>2 DEF Min
  <1>4. MonthsLater(FirstOfMonth(m), n) = a + Min({0, b - a - 1})
    BY <1>1 DEF MonthsLater
  <1> QED
    BY <1>2, <1>3, <1>4

LEMMA UnitStarts ==
  ASSUME NEW d \in Int, NEW unit \in {"day", "week", "month"}, NEW n \in Int
  PROVE  UnitStart(unit, d, n) = CASE unit = "day" -> d + n
                                   [] unit = "week" -> d - ((d + 6) % 7) + 7 * n
                                   [] unit = "month" -> FirstOfMonth(MonthOf(d) + n)
  <1>1. MonthOf(d) \in Int
    BY MonthOfDay
  <1>2. CASE unit = "day"
    BY <1>2 DEF UnitStart, Plus, StartOf
  <1>3. CASE unit = "week"
    BY <1>3 DEF UnitStart, Plus, StartOf
  <1>4. CASE unit = "month"
    BY <1>1, <1>4, MonthsOn DEF UnitStart, Plus, StartOf
  <1> QED
    BY <1>2, <1>3, <1>4

LEMMA UnitsGrow ==
  ASSUME NEW d \in Int, NEW unit \in {"day", "week", "month"}
  PROVE  /\ \A n \in Nat : UnitStart(unit, d, n) \in Int
         /\ UnitStart(unit, d, 0) <= d /\ d < UnitStart(unit, d, 1)
         /\ \A n \in Nat : UnitStart(unit, d, n) < UnitStart(unit, d, n + 1)
  <1>1. MonthOf(d) \in Int
    BY MonthOfDay
  <1>2. CASE unit = "day"
    BY <1>2, UnitStarts
  <1>3. CASE unit = "week"
    <2> PICK rest : rest = (d + 6) % 7
      OBVIOUS
    <2>1. rest \in 0..6
      BY SMT
    <2>2. \A n \in Int : UnitStart(unit, d, n) = d - rest + 7 * n
      BY <1>3, UnitStarts
    <2> QED
      BY <2>1, <2>2
  <1>4. CASE unit = "month"
    <2> PICK m : m = MonthOf(d)
      OBVIOUS
    <2>1. \A n \in Int : UnitStart(unit, d, n) = FirstOfMonth(m + n)
      BY <1>4, UnitStarts
    <2>2. FirstOfMonth(m) <= d /\ d < FirstOfMonth(m + 1) /\ m \in Int
      BY MonthOfDay
    <2>3. \A n \in Nat : /\ FirstOfMonth(m + n) \in Int
                         /\ FirstOfMonth(m + n) < FirstOfMonth(m + (n + 1))
      <3>1. ASSUME NEW n \in Nat
            PROVE  /\ FirstOfMonth(m + n) \in Int
                   /\ FirstOfMonth(m + n) < FirstOfMonth(m + (n + 1))
        <4>1. m + n \in Int /\ m + (n + 1) \in Int /\ m + n < m + (n + 1)
          BY <2>2
        <4> QED
          BY <4>1, MonthLength, MonthsGrow
      <3> QED
        BY <3>1
    <2>4. m + 0 = m
      BY <2>2
    <2> QED
      BY <2>1, <2>2, <2>3, <2>4
  <1> QED
    BY <1>2, <1>3, <1>4

\* Of a range, the n-th unit begins at least n days after the first.
LEMMA UnitsPass ==
  ASSUME NEW d \in Int, NEW unit \in {"day", "week", "month"}, NEW n \in Nat, n # 0
  PROVE  UnitStart(unit, d, n) >= d + n
  <1> DEFINE Bad == {j \in Nat : j # 0 /\ UnitStart(unit, d, j) < d + j}
  <1>1. SUFFICES ASSUME Bad # {} PROVE FALSE
    <2> PICK a : a = UnitStart(unit, d, n)
      OBVIOUS
    <2>1. ~(a < d + n)
      BY <1>1
    <2>2. a \in Int
      BY UnitsGrow
    <2> HIDE DEF Bad
    <2>3. a >= d + n
      BY <2>1, <2>2
    <2> QED
      BY <2>3
  <1>2. PICK j \in Bad : \A i \in Bad : j <= i
    BY <1>1, NatMinimum
  <1>3. j \in Nat /\ j # 0 /\ UnitStart(unit, d, j) < d + j
    BY <1>2
  <1>4. j # 1
    <2> PICK a : a = UnitStart(unit, d, 1)
      OBVIOUS
    <2>1. a \in Int /\ d < a /\ (j = 1 => a < d + 1)
      BY <1>3, UnitsGrow
    <2> QED
      BY <2>1
  <1>5. PICK i \in Nat : j = i + 1
    <2>1. j - 1 \in Nat /\ j = (j - 1) + 1
      BY <1>3
    <2> QED
      BY <2>1
  <1>6. i # 0 /\ i \notin Bad
    BY <1>2, <1>4, <1>5
  <1>7. ~(UnitStart(unit, d, i) < d + i)
    BY <1>5, <1>6
  <1>8. UnitStart(unit, d, i) \in Int /\ UnitStart(unit, d, i) < UnitStart(unit, d, i + 1)
        /\ UnitStart(unit, d, i + 1) \in Int
    BY <1>5, UnitsGrow
  <1> PICK a, b : a = UnitStart(unit, d, i) /\ b = UnitStart(unit, d, j)
    OBVIOUS
  <1>9. a \in Int /\ b \in Int /\ a < b /\ ~(a < d + i) /\ b < d + j
    BY <1>3, <1>5, <1>7, <1>8
  <1> QED
    BY <1>5, <1>9

StartsAt(parts, first) ==
  \E count \in Nat : /\ count # 0 /\ DOMAIN parts = 1..count
                     /\ parts[1].start = first
                     /\ \A i \in 1..count : parts[i].start \in Int /\ parts[i].end \in Int

LEMMA RangeIsSplit ==
  ASSUME NEW first \in Int, NEW last \in Int, first <= last,
         NEW unit \in {"day", "week", "month"}
  PROVE  StartsAt(splitRange([start |-> first, end |-> last], unit), first)
  <1> PICK range : range = [start |-> first, end |-> last]
    OBVIOUS
  <1> PICK days : days = daysIn(range)
    OBVIOUS
  <1>1. days = last - first + 1 /\ days \in Nat /\ days # 0
    BY DEF daysIn
  <1> DEFINE passes(n) == /\ UnitStart(unit, first, n) > last
                          /\ UnitStart(unit, first, n - 1) <= last
  <1>2. \E n \in 1..days : passes(n)
    <2> DEFINE Good == {n \in Nat : UnitStart(unit, first, n) > last}
    <2>1. days \in Good
      <3>1. UnitStart(unit, first, days) >= first + days
        BY <1>1, UnitsPass
      <3>2. UnitStart(unit, first, days) \in Int
        BY <1>1, UnitsGrow
      <3> QED
        BY <1>1, <3>1, <3>2
    <2>2. PICK n \in Good : \A m \in Good : n <= m
      BY <2>1, NatMinimum
    <2>3. ~(UnitStart(unit, first, 0) > last)
      <3> PICK a : a = UnitStart(unit, first, 0)
        OBVIOUS
      <3>1. a \in Int /\ a <= first
        BY UnitsGrow
      <3>2. ~(a > last)
        BY <3>1
      <3> QED
        BY <3>2
    <2>4. n # 0
      BY <2>2, <2>3
    <2>5. n - 1 \in Nat /\ n - 1 \notin Good /\ n <= days
      BY <2>1, <2>2, <2>4
    <2>6. UnitStart(unit, first, n - 1) \in Int
      BY <2>5, UnitsGrow
    <2>7. passes(n)
      BY <2>2, <2>5, <2>6
    <2>8. n \in 1..days
      BY <1>1, <2>4, <2>5
    <2> QED
      BY <2>7, <2>8
  <1>c. PICK count : count = CHOOSE n \in 1..days : passes(n)
    OBVIOUS
  <1>3. count \in 1..days
    BY <1>c, <1>2, Zenon
  <1> PICK parts : parts = splitRange(range, unit)
    OBVIOUS
  <1>4. parts = [n \in 1..count |->
                    [start |-> Max({first, UnitStart(unit, first, n - 1)}),
                     end |-> Min({UnitStart(unit, first, n) - 1, last})]]
    BY <1>c DEF splitRange, UnitStart
  <1>5. count \in Nat /\ count # 0
    BY <1>1, <1>3
  <1>6. \A i \in 1..count :
           /\ UnitStart(unit, first, i - 1) \in Int /\ UnitStart(unit, first, i) - 1 \in Int
    <2>1. ASSUME NEW i \in 1..count
          PROVE  UnitStart(unit, first, i - 1) \in Int /\ UnitStart(unit, first, i) - 1 \in Int
      <3>1. i \in Nat /\ i - 1 \in Nat
        BY <1>5
      <3>2. UnitStart(unit, first, i) \in Int /\ UnitStart(unit, first, i - 1) \in Int
        BY <3>1, UnitsGrow
      <3> PICK a : a = UnitStart(unit, first, i)
        OBVIOUS
      <3>3. a - 1 \in Int
        BY <3>2
      <3> QED
        BY <3>2, <3>3
    <2> QED
      BY <2>1
  <1>8. \A i \in 1..count : parts[i].start \in Int /\ parts[i].end \in Int
    <2>1. ASSUME NEW i \in 1..count
          PROVE  parts[i].start \in Int /\ parts[i].end \in Int
      <3> PICK a, b : a = UnitStart(unit, first, i - 1) /\ b = UnitStart(unit, first, i) - 1
        OBVIOUS
      <3>1. a \in Int /\ b \in Int
        BY <1>6
      <3>2. parts[i] = [start |-> Max({first, a}), end |-> Min({b, last})]
        BY <1>4
      <3>3. Max({first, a}) \in Int /\ Min({b, last}) \in Int
        BY <3>1, MinOfTwo, MaxOfTwo
      <3> QED
        BY <3>2, <3>3
    <2> QED
      BY <2>1
  <1>9. parts[1].start = first
    <2>1. UnitStart(unit, first, 0) \in Int /\ UnitStart(unit, first, 0) <= first
      BY UnitsGrow
    <2> PICK a : a = UnitStart(unit, first, 0)
      OBVIOUS
    <2>2. 1 \in 1..count /\ 1 - 1 = 0
      BY <1>5
    <2>3. parts[1].start = Max({first, a})
      <3>1. ASSUME NEW i \in 1..count
            PROVE  parts[i].start = Max({first, UnitStart(unit, first, i - 1)})
        <4> PICK c, b : c = UnitStart(unit, first, i - 1) /\ b = UnitStart(unit, first, i) - 1
          OBVIOUS
        <4>1. parts[i] = [start |-> Max({first, c}), end |-> Min({b, last})]
          BY <1>4
        <4> QED
          BY <4>1
      <3>i. PICK i \in 1..count : i = 1 /\ i - 1 = 0
        BY <2>2
      <3>2. parts[i].start = Max({first, UnitStart(unit, first, i - 1)})
        BY <3>1
      <3> QED
        BY <3>i, <3>2
    <2>4. Max({first, a}) = first
      BY <2>1, MaxOfTwo
    <2> QED
      BY <2>3, <2>4
  <1> QED
    BY <1>4, <1>5, <1>8, <1>9 DEF StartsAt

-----------------------------------------------------------------------------
(* Instants: a zone of finitely many changes has an offset at each of them. *)

LEMMA LatestChange ==
  ASSUME NEW past, IsFiniteSet(past), past # {}, \A c \in past : c.at \in Int
  PROVE  \E c \in past : \A b \in past : b.at <= c.at
  <1> DEFINE good == {U \in SUBSET past : U = {} \/ \E c \in U : \A b \in U : b.at <= c.at}
  <1>1. {} \in good
    OBVIOUS
  <1>2. ASSUME NEW U \in good, NEW x \in past \ U PROVE U \cup {x} \in good
    <2>1. CASE U = {}
      BY <2>1
    <2>2. CASE U # {}
      <3>1. PICK c \in U : \A b \in U : b.at <= c.at
        BY <2>2
      <3>2. c.at \in Int /\ x.at \in Int /\ \A b \in U : b.at \in Int
        OBVIOUS
      <3>3. CASE x.at <= c.at
        BY <3>1, <3>3
      <3>4. CASE c.at <= x.at
        <4>1. \A b \in U : b.at <= x.at
          BY <3>1, <3>2, <3>4
        <4> QED
          BY <3>2, <4>1
      <3> QED
        BY <3>2, <3>3, <3>4
    <2> QED
      BY <2>1, <2>2
  <1>3. good \in SUBSET (SUBSET past)
    OBVIOUS
  <1> HIDE DEF good
  <1>4. past \in good
    BY <1>1, <1>2, <1>3, SubsetInduction
  <1> QED
    BY <1>4 DEF good

\* A zone that has been through finitely many changes.
IsZone(zone) == zone \in Zone /\ IsFiniteSet(zone.changes)

LEMMA OffsetType ==
  ASSUME NEW zone, IsZone(zone), NEW t \in Int
  PROVE  OffsetAt(zone, t) \in Int
  <1>p. PICK past : past = {c \in zone.changes : c.at <= t}
    OBVIOUS
  <1>1. /\ zone.base \in Int /\ IsFiniteSet(zone.changes)
        /\ \A c \in zone.changes : c.at \in Int /\ c.to \in Int
    BY DEF IsZone, Zone
  <1>2. past \in SUBSET zone.changes /\ IsFiniteSet(past)
    BY <1>p, <1>1, FS_Subset
  <1>3. CASE past = {}
    BY <1>p, <1>1, <1>3 DEF OffsetAt
  <1>4. CASE past # {}
    <2>1. \E c \in past : \A b \in past : b.at <= c.at
      BY <1>1, <1>2, <1>4, LatestChange
    <2>c. PICK c : c = CHOOSE e \in past : \A b \in past : b.at <= e.at
      OBVIOUS
    <2>2. c \in past
      BY <2>1, <2>c, Zenon
    <2>3. OffsetAt(zone, t) = c.to
      BY <1>p, <1>4, <2>c DEF OffsetAt
    <2> QED
      BY <1>1, <1>2, <2>2, <2>3
  <1> QED
    BY <1>3, <1>4

LEMMA FixedType ==
  ASSUME NEW zone, IsZone(zone), NEW local \in Int, NEW guess \in Int
  PROVE  FixOffset(local, guess, zone) \in Int
  <1> PICK first : first = OffsetAt(zone, local - guess)
    OBVIOUS
  <1> PICK second : second = OffsetAt(zone, local - first)
    OBVIOUS
  <1>1. first \in Int
    BY OffsetType
  <1>2. second \in Int
    BY <1>1, OffsetType
  <1>3. Min({first, second}) \in Int
    BY <1>1, <1>2, MinOfTwo
  <1>4. local - guess \in Int /\ local - first \in Int /\ local - Min({first, second}) \in Int
    BY <1>1, <1>3
  <1> QED
    BY <1>4 DEF FixOffset

LEMMA DayBounds ==
  ASSUME NEW zone, IsZone(zone), NEW d \in Int, NEW now \in Int
  PROVE  startOfDay(d, zone, now) \in Int /\ endOfDay(d, zone, now) \in Int
  <1>1. OffsetAt(zone, now) \in Int
    BY OffsetType
  <1>2. \A e \in Int : startOfDay(e, zone, now) \in Int
    <2>1. ASSUME NEW e \in Int PROVE startOfDay(e, zone, now) \in Int
      <3>1. 24 * e \in Int
        OBVIOUS
      <3> QED
        BY <1>1, <3>1, FixedType DEF startOfDay
    <2> QED
      BY <2>1
  <1> PICK next : next = startOfDay(d + 1, zone, now)
    OBVIOUS
  <1>3. next \in Int /\ next - 1 \in Int
    BY <1>2
  <1> QED
    BY <1>2, <1>3 DEF endOfDay

LEMMA DateType ==
  ASSUME NEW zone, IsZone(zone), NEW t \in Int
  PROVE  calendarDateAt(t, zone) \in Int
  <1> PICK offset : offset = OffsetAt(zone, t)
    OBVIOUS
  <1>1. offset \in Int
    BY OffsetType
  <1>2. (t + offset) \div 24 \in Int
    BY <1>1, SMT
  <1> QED
    BY <1>2 DEF calendarDateAt, LocalHour

-----------------------------------------------------------------------------
(* The period of a query that is not refused, and the intervals of its     *)
(* trend.                                                                  *)

LEMMA RangeOfUnit ==
  ASSUME NEW unit \in StandardPeriods, NEW d \in Int
  PROVE  LET range == rangeOf(unit, d) IN
         range.start \in Int /\ range.end \in Int /\ range.start <= range.end
  <1> PICK range : range = rangeOf(unit, d)
    OBVIOUS
  <1> PICK first, next : first = StartOf(unit, d) /\ next = Plus(StartOf(unit, d), unit, 1)
    OBVIOUS
  <1>1. range.start = first /\ range.end = next - 1
    BY DEF rangeOf
  <1>2. first \in Int /\ next \in Int /\ first < next
    <2>1. CASE unit = "week"
      <3> PICK rest : rest = (d + 6) % 7
        OBVIOUS
      <3>1. rest \in 0..6
        BY SMT
      <3>2. first = d - rest /\ next = first + 7 * 1
        BY <2>1 DEF StartOf, Plus
      <3> QED
        BY <3>1, <3>2
    <2>2. ASSUME NEW m \in Int, NEW n \in Int, n > 0, first = FirstOfMonth(m),
                 next = MonthsLater(FirstOfMonth(m), n)
          PROVE  first \in Int /\ next \in Int /\ first < next
      <3>1. next = FirstOfMonth(m + n) /\ m + n \in Int /\ m < m + n
        BY <2>2, MonthsOn
      <3> QED
        BY <2>2, <3>1, MonthLength, MonthsGrow
    <2> PICK m : m = MonthOf(d)
      OBVIOUS
    <2>3. m \in Int
      BY MonthOfDay
    <2>4. CASE unit = "month"
      BY <2>2, <2>3, <2>4 DEF StartOf, Plus
    <2>5. CASE unit = "year"
      <3>1. m - (m % 12) \in Int /\ 12 * 1 \in Int /\ 12 * 1 > 0
        BY <2>3, SMT
      <3>2. /\ first = FirstOfMonth(m - (m % 12))
            /\ next = MonthsLater(FirstOfMonth(m - (m % 12)), 12 * 1)
        BY <2>5 DEF StartOf, Plus
      <3> QED
        BY <2>2, <3>1, <3>2
    <2> QED
      BY <2>1, <2>4, <2>5 DEF StandardPeriods
  <1>3. next - 1 \in Int /\ first <= next - 1
    BY <1>2
  <1> QED
    BY <1>1, <1>2, <1>3

\* What the blocks rely on of a period.
IsPeriod(p) ==
  /\ p.from \in Int /\ p.to \in Int /\ p.as_of \in Int /\ p.actual_to \in Int \cup {Unset}
  /\ p.state = "future" <=> p.actual_to = Unset
  /\ p.state # "future" => p.as_of >= p.from

LEMMA AsOfType ==
  ASSUME NEW q \in StatQueries, NEW now \in Nows
  PROVE  asOfOf(q, now) \in Int /\ now \in Int /\ IsZone(q.zone)
  <1>1. q \in StatisticsQuery /\ IsFiniteSet(q.zone.changes) /\ now \in Int
    BY StatQueryAssumption, ClockAssumption
  <1>2. q.as_of \in TimestampMin..TimestampMax \cup {Unset} /\ q.zone \in Zone
    BY <1>1 DEF StatisticsQuery
  <1> QED
    BY <1>1, <1>2 DEF asOfOf, IsZone

LEMMA RequestedDays ==
  ASSUME NEW q \in StatQueries, NEW now \in Nows, periodErrors(q, now) = {}
  PROVE  LET range == requestedRange(q, now) IN
         range.start \in Int /\ range.end \in Int /\ range.start <= range.end
  <1> PICK range : range = requestedRange(q, now)
    OBVIOUS
  <1>1. /\ asOfOf(q, now) \in Int /\ IsZone(q.zone) /\ q.period \in PeriodTypes
        /\ q.anchor_date \in Int \cup {Unset} /\ q.from_date \in Int \cup {Unset}
        /\ q.to_date \in Int \cup {Unset}
    BY AsOfType, StatQueryAssumption DEF StatisticsQuery
  <1>2. CASE q.period = "custom"
    <2>1. range.start = q.from_date /\ range.end = q.to_date
      BY <1>2 DEF requestedRange
    <2> DEFINE fields == checkPeriodFields(q)
                             \cup {f \in {"as_of"} : asOfOf(q, now) > now + ClockSkew}
    <2>2. fields = {}
      BY DEF periodErrors
    <2>3. checkPeriodFields(q) = {}
      BY <2>2
    <2>4. \A f \in {"from_date", "to_date"} : q[f] # Unset
      BY <1>2, <2>3 DEF checkPeriodFields
    <2>5. q["from_date"] = q.from_date /\ q["to_date"] = q.to_date
      OBVIOUS
    <2>6. range.start \in Int /\ range.end \in Int
      BY <1>1, <2>1, <2>4, <2>5
    <2>7. ~(range.start > range.end)
      BY <1>2, <2>2 DEF periodErrors
    <2> QED
      BY <2>6, <2>7
  <1>3. CASE q.period # "custom"
    <2>1. q.period \in StandardPeriods
      BY <1>1, <1>3 DEF PeriodTypes
    <2>2. \E d \in Int : range = rangeOf(q.period, d)
      BY <1>1, <1>3, DateType DEF requestedRange
    <2> QED
      BY <2>1, <2>2, RangeOfUnit
  <1> QED
    BY <1>2, <1>3

LEMMA StateOfMoment ==
  ASSUME NEW from \in Int, NEW to \in Int, NEW asOf \in Int
  PROVE  /\ timeState(from, to, asOf) \in {"past", "current", "future"}
         /\ timeState(from, to, asOf) # "future" <=> asOf >= from
  <1>1. CASE asOf < from
    BY <1>1 DEF timeState
  <1>2. CASE asOf >= from /\ asOf > to
    BY <1>2 DEF timeState
  <1>3. CASE asOf >= from /\ asOf <= to
    BY <1>3 DEF timeState
  <1> QED
    BY <1>1, <1>2, <1>3

LEMMA PeriodResolved ==
  ASSUME NEW q \in StatQueries, NEW now \in Nows, periodErrors(q, now) = {}
  PROVE  LET p == resolveStatisticsPeriod(q, now) IN
         /\ IsPeriod(p) /\ p.start_date \in Int /\ p.end_date \in Int /\ p.start_date <= p.end_date
         /\ p.type \in PeriodTypes /\ p.time_zone = q.zone
         /\ p.from = startOfDay(p.start_date, q.zone, now)
         /\ p.state = timeState(p.from, p.to, p.as_of)
  <1> PICK p, range : p = resolveStatisticsPeriod(q, now) /\ range = requestedRange(q, now)
    OBVIOUS
  <1>1. range.start \in Int /\ range.end \in Int /\ range.start <= range.end
    BY RequestedDays
  <1>2. asOfOf(q, now) \in Int /\ now \in Int /\ IsZone(q.zone) /\ q.period \in PeriodTypes
    BY AsOfType, StatQueryAssumption DEF StatisticsQuery
  <1>3. /\ p.start_date = range.start /\ p.end_date = range.end
        /\ p.from = startOfDay(range.start, q.zone, now) /\ p.to = endOfDay(range.end, q.zone, now)
        /\ p.as_of = asOfOf(q, now) /\ p.type = q.period /\ p.time_zone = q.zone
        /\ p.state = timeState(p.from, p.to, p.as_of)
        /\ p.actual_to = (CASE p.state = "future" -> Unset
                            [] p.state = "past" -> p.to
                            [] p.state = "current" -> p.as_of)
    BY DEF resolveStatisticsPeriod, boundsOf
  <1>4. p.from \in Int /\ p.to \in Int /\ p.as_of \in Int
    BY <1>1, <1>2, <1>3, DayBounds
  <1>5. /\ p.state \in {"past", "current", "future"}
        /\ p.state # "future" => p.as_of >= p.from
    <2> PICK from, to, asOf : from = p.from /\ to = p.to /\ asOf = p.as_of
      OBVIOUS
    <2>1. p.state = timeState(from, to, asOf)
      BY <1>3
    <2>2. from \in Int /\ to \in Int /\ asOf \in Int
      BY <1>4
    <2> QED
      BY <2>1, <2>2, StateOfMoment
  <1>6. /\ p.actual_to \in Int \cup {Unset}
        /\ p.state = "future" <=> p.actual_to = Unset
    <2>1. p.state = "future" => p.actual_to = Unset
      BY <1>3
    <2>2. p.state = "past" => p.actual_to = p.to
      BY <1>3
    <2>3. p.state = "current" => p.actual_to = p.as_of
      BY <1>3
    <2> QED
      BY <1>4, <1>5, <2>1, <2>2, <2>3, UnsetAssumption
  <1> QED
    BY <1>1, <1>2, <1>3, <1>4, <1>5, <1>6 DEF IsPeriod

\* A trend has intervals, and one has begun if the period has.
IsSplit(p, intervals) ==
  \E count \in Nat : /\ DOMAIN intervals = 1..count
                     /\ p.state # "future" => \E i \in 1..count : intervals[i].state # "future"

LEMMA TrendUnit ==
  ASSUME NEW p, p.type \in PeriodTypes
  PROVE  trendGranularity(p) \in {"day", "week", "month"}
  <1>1. TREND_GRANULARITY["week"] = "day" /\ TREND_GRANULARITY["month"] = "week"
        /\ TREND_GRANULARITY["year"] = "month"
    BY DEF TREND_GRANULARITY
  <1>2. CASE p.type # "custom"
    BY <1>1, <1>2 DEF trendGranularity, PeriodTypes, StandardPeriods
  <1>3. CASE p.type = "custom"
    <2> PICK days : days = daysIn(rangeOfPeriod(p))
      OBVIOUS
    <2>1. \/ days <= MAX_DAILY_CUSTOM_DAYS \/ days > MAX_WEEKLY_CUSTOM_DAYS
          \/ ~(days <= MAX_DAILY_CUSTOM_DAYS) /\ ~(days > MAX_WEEKLY_CUSTOM_DAYS)
      OBVIOUS
    <2> QED
      BY <1>3, <2>1, Zenon DEF trendGranularity
  <1> QED
    BY <1>2, <1>3

LEMMA TrendIsSplit ==
  ASSUME NEW q \in StatQueries, NEW now \in Nows, periodErrors(q, now) = {},
         NEW p, p = resolveStatisticsPeriod(q, now)
  PROVE  IsSplit(p, resolveTrendIntervals(p, trendGranularity(p), now))
  <1> PICK unit : unit = trendGranularity(p)
    OBVIOUS
  <1> PICK parts : parts = splitRange(rangeOfPeriod(p), unit)
    OBVIOUS
  <1> PICK intervals : intervals = resolveTrendIntervals(p, unit, now)
    OBVIOUS
  <1>1. /\ IsPeriod(p) /\ p.start_date \in Int /\ p.end_date \in Int
        /\ p.start_date <= p.end_date /\ p.type \in PeriodTypes /\ p.time_zone = q.zone
        /\ p.from = startOfDay(p.start_date, q.zone, now)
    BY PeriodResolved
  <1>2. unit \in {"day", "week", "month"}
    BY <1>1, TrendUnit
  <1>3. rangeOfPeriod(p) = [start |-> p.start_date, end |-> p.end_date]
    BY DEF rangeOfPeriod
  <1>4. PICK count \in Nat : /\ count # 0 /\ DOMAIN parts = 1..count
                             /\ parts[1].start = p.start_date /\ 1 \in 1..count
                             /\ \A i \in 1..count : parts[i].start \in Int /\ parts[i].end \in Int
    <2> PICK first, last : first = p.start_date /\ last = p.end_date
      OBVIOUS
    <2>1. parts = splitRange([start |-> first, end |-> last], unit)
      BY <1>3
    <2>2. first \in Int /\ last \in Int /\ first <= last
      BY <1>1
    <2>3. StartsAt(parts, first)
      BY <1>2, <2>1, <2>2, RangeIsSplit
    <2>4. \A count \in Nat : count # 0 => 1 \in 1..count
      OBVIOUS
    <2> QED
      BY <2>3, <2>4 DEF StartsAt
  <1>5. DOMAIN intervals = 1..count
    BY <1>4 DEF resolveTrendIntervals
  <1>6. intervals[1].state
            = timeState(startOfDay(parts[1].start, q.zone, now),
                        endOfDay(parts[1].end, q.zone, now), p.as_of)
    BY <1>1, <1>4 DEF resolveTrendIntervals, boundsOf
  <1>7. IsZone(q.zone) /\ now \in Int
    BY AsOfType
  <1> PICK to : to = endOfDay(parts[1].end, q.zone, now)
    OBVIOUS
  <1>8. to \in Int /\ intervals[1].state = timeState(p.from, to, p.as_of)
    BY <1>1, <1>4, <1>6, <1>7, DayBounds
  <1>9. p.state # "future" => intervals[1].state # "future"
    BY <1>1, <1>8 DEF IsPeriod, timeState
  <1> QED
    BY <1>4, <1>5, <1>9 DEF IsSplit

-----------------------------------------------------------------------------
(* The sum of a function's values, and the least of three numbers.         *)

LEMMA FunctionSum ==
  ASSUME NEW f, NEW S, DOMAIN f = S, Summable(f, S)
  PROVE  SumFunction(f) = Total(f, S)
  <1> DEFINE P(k) ==
        k = [s \in SUBSET S |->
               IF s = {} THEN 0
               ELSE f[CHOOSE x \in s : TRUE] + k[s \ {CHOOSE x \in s : TRUE}]]
  <1>1. \A k : Unfolds(k, S, f) <=> P(k)
    BY DEF Unfolds, Some
  <1> PICK it : it = (CHOOSE k : P(k))
    OBVIOUS
  <1>2. SumFunction(f) = it[S]
    BY DEF SumFunction, SumFunctionOnSet, FoldFunctionOnSet, MapThenFoldSet
  <1> HIDE DEF P
  <1>3. P(it)
    <2>1. \E k : P(k)
      BY <1>1, UnfoldsExists
    <2> QED
      BY <2>1, Zenon
  <1>4. PICK g : Tabulates(g, S, f)
    BY TotalUnfolds
  <1>5. Unfolds(it, S, f) /\ Unfolds(g, S, f)
    BY <1>1, <1>3, <1>4 DEF Tabulates
  <1>6. it[S] = g[S]
    <2>1. IsFiniteSet(S)
      BY DEF Summable
    <2> QED
      BY <1>5, <2>1, UnfoldsOnce
  <1> QED
    BY <1>2, <1>4, <1>6 DEF Tabulates

LEMMA UpTo ==
  ASSUME NEW k \in Nat
  PROVE  IsFiniteSet(1..k) /\ Cardinality(1..k) = k
  BY FS_Interval

LEMMA MinOfThree ==
  ASSUME NEW a \in Nat, NEW b \in Nat, NEW c \in Nat
  PROVE  /\ Min({a, b, c}) \in {a, b, c}
         /\ Min({a, b, c}) <= a /\ Min({a, b, c}) <= b /\ Min({a, b, c}) <= c
  BY DEF Min

-----------------------------------------------------------------------------
(* The largest groups, and the rest.                                       *)

GroupsOK(G) ==
  /\ IsFiniteSet(G)
  /\ \A g \in G : g.id \in Nat /\ g.amount \in Nat /\ g.isArchived \in BOOLEAN
  /\ \A g, h \in G : g.id = h.id => g = h

Larger(g, h) == g.amount > h.amount \/ (g.amount = h.amount /\ g.id < h.id)
LargerOf(S) == {pair \in S \X S : Larger(pair[1], pair[2])}

LEMMA LargerStrictOrder ==
  ASSUME NEW S, GroupsOK(S)
  PROVE  /\ StrictOrder(S, LargerOf(S))
         /\ \A h \in S : Before(S, LargerOf(S), h) = {g \in S : Larger(g, h)}
  <1>1. \A g, h \in S : <<g, h>> \in LargerOf(S) <=> Larger(g, h)
    BY DEF LargerOf
  <1>2. \A g \in S : ~Larger(g, g)
    BY DEF GroupsOK, Larger
  <1>3. \A f, g, h \in S : Larger(f, g) /\ Larger(g, h) => Larger(f, h)
    BY DEF GroupsOK, Larger
  <1>4. \A g, h \in S : g = h \/ Larger(g, h) \/ Larger(h, g)
    BY DEF GroupsOK, Larger
  <1> QED
    BY <1>1, <1>2, <1>3, <1>4 DEF StrictOrder, Before

LargestFirst(S) ==
  Sorted(S, LAMBDA g, h : g.amount > h.amount \/ (g.amount = h.amount /\ g.id < h.id))

\* All of S, the largest first.
SortedFrom(sorted, S) ==
  /\ sorted \in Seq(S) /\ Len(sorted) \in Nat
  /\ \A m, n \in 1..Len(sorted) : m < n => Larger(sorted[m], sorted[n])
  /\ \A s \in S : \E n \in 1..Len(sorted) : sorted[n] = s

LEMMA GroupsSorted ==
  ASSUME NEW S, GroupsOK(S), NEW sorted, sorted = LargestFirst(S)
  PROVE  SortedFrom(sorted, S)
  <1> PICK ord : ord = LargerOf(S)
    OBVIOUS
  <1>1. StrictOrder(S, ord) /\ \A h \in S : Before(S, ord, h) = {g \in S : Larger(g, h)}
    BY LargerStrictOrder
  <1>2. sorted = [n \in 1..Cardinality(S) |->
                    CHOOSE h \in S : Cardinality({g \in S : Larger(g, h)}) = n - 1]
    BY DEF LargestFirst, Sorted, Larger
  <1>3. sorted = ByRank(S, ord)
    <2>1. \A n : (CHOOSE h \in S : Cardinality({g \in S : Larger(g, h)}) = n - 1)
                   = (CHOOSE h \in S : Cardinality(Before(S, ord, h)) = n - 1)
      BY <1>1, Zenon
    <2> QED
      BY <1>2, <2>1 DEF ByRank
  <1>4. Enumerates(sorted, S, ord)
    BY <1>1, <1>3, RankedInOrder DEF GroupsOK
  <1>5. \A g, h : <<g, h>> \in ord => Larger(g, h)
    BY DEF LargerOf
  <1> QED
    BY <1>4, <1>5, LenProperties DEF Enumerates, SortedFrom

Positive(groups) == {g \in groups : g.amount > 0}

IsFold(fold, S, total, max) ==
  LET p == Len(fold.primary)
      f == Len(fold.folded)
  IN  /\ fold.primary \in Seq(S) /\ fold.folded \in Seq(S) /\ p <= max
      /\ \A m, n \in 1..p : fold.primary[m] = fold.primary[n] => m = n
      /\ \A m, n \in 1..f : fold.folded[m] = fold.folded[n] => m = n
      /\ \A m \in 1..p, n \in 1..f : /\ fold.primary[m] # fold.folded[n]
                                     /\ fold.folded[n].amount <= fold.primary[m].amount
      /\ \A s \in S : \/ \E m \in 1..p : fold.primary[m] = s
                      \/ \E n \in 1..f : fold.folded[n] = s
      /\ p > 1 => \A n \in 1..p :
                      fold.primary[n].amount * 100 >= total * OTHER_THRESHOLD_PERCENT

LEMMA GroupsFolded ==
  ASSUME NEW groups, GroupsOK(groups), NEW total \in Nat, NEW max \in Nat
  PROVE  IsFold(foldGroups(groups, total, max), Positive(groups), total, max)
  <1>g. PICK S : S = Positive(groups)
    OBVIOUS
  <1>1. GroupsOK(S)
    BY <1>g, FS_Subset DEF GroupsOK, Positive
  <1>s. PICK sorted : sorted = LargestFirst(S)
    OBVIOUS
  <1>2. /\ sorted \in Seq(S) /\ Len(sorted) \in Nat /\ DOMAIN sorted = 1..Len(sorted)
        /\ \A m, n \in 1..Len(sorted) : m < n => Larger(sorted[m], sorted[n])
        /\ \A s \in S : \E n \in 1..Len(sorted) : sorted[n] = s
    <2>1. /\ sorted \in Seq(S) /\ Len(sorted) \in Nat
          /\ \A m, n \in 1..Len(sorted) : m < n => Larger(sorted[m], sorted[n])
          /\ \A s \in S : \E n \in 1..Len(sorted) : sorted[n] = s
      <3>1. SortedFrom(sorted, S)
        BY <1>s, <1>1, GroupsSorted
      <3> QED
        BY <3>1 DEF SortedFrom
    <2>2. sorted \in Seq(S)
      BY <2>1
    <2>3. DOMAIN sorted = 1..Len(sorted)
      BY <2>2, LenProperties
    <2> QED
      BY <2>1, <2>3
  <1>b. PICK bound : bound = total * OTHER_THRESHOLD_PERCENT
    OBVIOUS
  <1>3. bound \in Int
    BY <1>b, GroupAssumption
  <1>z. PICK size : size = Len(sorted)
    OBVIOUS
  <1>t. PICK tall : tall = {n \in 1..size : sorted[n].amount * 100 >= bound}
    OBVIOUS
  <1>l. PICK large : large = Cardinality(tall)
    OBVIOUS
  <1>c. PICK count : count = Min({Max({large, 1}), max, size})
    OBVIOUS
  <1>4. size \in Nat /\ \A n \in 1..size : sorted[n] \in S /\ sorted[n].amount \in Nat
    <2>1. \A n \in 1..Len(sorted) : sorted[n] \in S
      <3>1. sorted \in Seq(S)
        BY <1>2
      <3> QED
        BY <3>1, ElementOfSeq
    <2>2. \A g \in S : g.amount \in Nat
      BY <1>1 DEF GroupsOK
    <2> QED
      BY <1>z, <1>2, <2>1, <2>2
  <1>5. IsFiniteSet(tall) /\ large \in Nat
    <2>1. IsFiniteSet(1..size)
      BY <1>4, FS_Interval
    <2>2. tall \in SUBSET (1..size)
      BY <1>t
    <2> QED
      BY <1>l, <2>1, <2>2, FS_Subset, FS_CardinalityType
  <1>6. /\ count \in Nat /\ count <= size /\ count <= max
        /\ count > 1 => count <= large
    <2> PICK a : a = Max({large, 1})
      OBVIOUS
    <2>1. a \in {large, 1} /\ a >= 1 /\ a \in Nat
      BY <1>5, MaxOfTwo
    <2>2. count = Min({a, max, size})
      BY <1>c
    <2>3. count \in {a, max, size} /\ count <= a /\ count <= max /\ count <= size
      BY <1>4, <2>1, <2>2, MinOfThree
    <2> QED
      BY <1>4, <1>5, <2>1, <2>3
  <1>o. PICK fold : fold = foldGroups(groups, total, max)
    OBVIOUS
  <1>7. fold.primary = FirstOf(sorted, count) /\ fold.folded = LastOf(sorted, size - count)
    <2>1. tall = {n \in DOMAIN sorted : sorted[n].amount * 100 >= total * OTHER_THRESHOLD_PERCENT}
      BY <1>b, <1>z, <1>2, <1>t
    <2> QED
      BY <1>g, <1>s, <1>z, <1>o, <1>l, <1>c, <2>1 DEF foldGroups, Positive, LargestFirst
  <1>n. PICK p, f : p = Len(fold.primary) /\ f = Len(fold.folded)
    OBVIOUS
  <1>8. /\ fold.primary \in Seq(S) /\ p = count
        /\ \A n \in 1..p : fold.primary[n] = sorted[n]
    <2>i. PICK cut : cut = FirstOf(sorted, count)
      OBVIOUS
    <2>1. sorted \in Seq(S) /\ count \in Nat /\ count <= Len(sorted)
      BY <1>z, <1>2, <1>4, <1>6
    <2>2. cut \in Seq(S) /\ Len(cut) = count /\ \A n \in 1..count : cut[n] = sorted[n]
      BY <2>i, <2>1, FirstOfIs
    <2>3. fold.primary = cut /\ p = Len(cut)
      BY <1>n, <1>7, <2>i
    <2> QED
      BY <2>2, <2>3
  <1>9. /\ fold.folded \in Seq(S) /\ f = size - count
        /\ \A n \in 1..f : fold.folded[n] = sorted[count + n]
    <2>1. size - count \in Nat /\ count + (size - count) = size
      BY <1>4, <1>6
    <2>r. PICK a \in Nat, rest \in Nat : a = count /\ rest = size - count
      BY <1>6, <2>1
    <2>2. sorted \in Seq(S) /\ a + rest = Len(sorted)
      BY <1>z, <1>2, <2>r, <2>1
    <2>i. PICK cut : cut = LastOf(sorted, rest)
      OBVIOUS
    <2>3. cut \in Seq(S) /\ Len(cut) = rest /\ \A i \in 1..rest : cut[i] = sorted[a + i]
      BY <2>i, <2>2, LastOfIs
    <2>4. fold.folded = cut /\ f = rest
      BY <1>n, <1>7, <2>i, <2>r, <2>3
    <2> QED
      BY <2>r, <2>3, <2>4
  <1>10. \A m, n \in 1..size :
            /\ m < n => sorted[m] # sorted[n] /\ sorted[n].amount <= sorted[m].amount
            /\ sorted[m] = sorted[n] => m = n
    <2>1. TAKE m, n \in 1..size
    <2>2. /\ m < n => Larger(sorted[m], sorted[n])
          /\ n < m => Larger(sorted[n], sorted[m])
      BY <1>z, <1>2
    <2>3. \A g, h \in S : Larger(g, h) => g # h /\ h.amount <= g.amount
      BY <1>1 DEF Larger, GroupsOK
    <2>4. m = n \/ m < n \/ n < m
      BY <1>4
    <2> QED
      BY <1>4, <2>2, <2>3, <2>4
  <1>11. ASSUME NEW s \in S
         PROVE  \/ \E m \in 1..p : fold.primary[m] = s
                \/ \E n \in 1..f : fold.folded[n] = s
    <2>1. PICK n \in 1..size : sorted[n] = s
      BY <1>z, <1>2
    <2>2. CASE n <= count
      BY <1>8, <2>1, <2>2, <1>6
    <2>3. CASE n > count
      <3>1. n - count \in 1..f /\ count + (n - count) = n
        BY <1>4, <1>6, <1>9, <2>3
      <3> QED
        BY <1>9, <2>1, <3>1
    <2> QED
      BY <1>6, <2>2, <2>3
  <1>12. ASSUME p > 1, NEW n \in 1..p PROVE fold.primary[n].amount * 100 >= bound
    <2>1. n \in 1..size /\ n <= large
      BY <1>4, <1>5, <1>6, <1>8, <1>12
    <2>2. ASSUME ~(sorted[n].amount * 100 >= bound) PROVE FALSE
      <3>1. ASSUME NEW m \in tall PROVE m \in 1..(n - 1)
        <4>1. m \in 1..size /\ sorted[m].amount * 100 >= bound
          BY <1>t, <3>1
        <4>2. m >= n => sorted[m].amount <= sorted[n].amount
          BY <1>4, <1>10, <2>1, <4>1
        <4>3. sorted[m].amount \in Nat /\ sorted[n].amount \in Nat
          BY <1>4, <2>1, <4>1
        <4>4. ~(m >= n)
          <5> PICK x, y : x = sorted[m].amount /\ y = sorted[n].amount
            OBVIOUS
          <5>1. x \in Nat /\ y \in Nat /\ x * 100 >= bound /\ ~(y * 100 >= bound)
            BY <2>2, <4>1, <4>3
          <5>2. ~(x <= y)
            BY <1>3, <5>1
          <5> QED
            BY <4>2, <5>2
        <4> QED
          BY <1>4, <2>1, <4>1, <4>4
      <3>2. n - 1 \in Nat /\ IsFiniteSet(1..(n - 1)) /\ Cardinality(1..(n - 1)) = n - 1
        <4>1. n - 1 \in Nat /\ n - 1 \in Int
          BY <2>1
        <4> PICK k : k = n - 1
          OBVIOUS
        <4>2. IsFiniteSet(1..k) /\ Cardinality(1..k) = k
          BY <4>1, UpTo
        <4> QED
          BY <4>1, <4>2
      <3>3. large <= n - 1
        BY <1>l, <3>1, <3>2, FS_Subset
      <3> QED
        BY <1>5, <2>1, <3>3
    <2> QED
      BY <1>8, <2>2
  <1>13. \A m, n \in 1..p : fold.primary[m] = fold.primary[n] => m = n
    BY <1>4, <1>6, <1>8, <1>10
  <1>14. \A n \in 1..f : count + n \in 1..size /\ count + n \in Nat
    BY <1>4, <1>6, <1>9
  <1>15. \A m, n \in 1..f : fold.folded[m] = fold.folded[n] => m = n
    <2>1. TAKE m, n \in 1..f
    <2>2. fold.folded[m] = fold.folded[n] => count + m = count + n
      BY <1>9, <1>10, <1>14
    <2> QED
      BY <1>4, <1>6, <1>9, <2>2
  <1>16. \A m \in 1..p, n \in 1..f : /\ fold.primary[m] # fold.folded[n]
                                     /\ fold.folded[n].amount <= fold.primary[m].amount
    <2>1. TAKE m \in 1..p, n \in 1..f
    <2>2. m \in 1..size /\ m < count + n
      BY <1>4, <1>6, <1>8, <1>9
    <2> QED
      BY <1>8, <1>9, <1>10, <1>14, <2>2
  <1> QED
    BY <1>6, <1>8, <1>9, <1>11, <1>12, <1>13, <1>15, <1>16, <1>b, <1>g, <1>n, <1>o DEF IsFold

-----------------------------------------------------------------------------
(* The slices of a breakdown.                                              *)

GroupAmounts(G) == [g \in G |-> g.amount]

SlicesFit(b) ==
  LET slices == Len(b.primary) + Cardinality({b.deleted, b.other} \ {None})
      primarySum == SumFunction([n \in DOMAIN b.primary |-> b.primary[n].amount])
  IN  /\ primarySum + Amounts(b.deleted) + Amounts(b.other) = b.total
      /\ slices <= MAX_PRIMARY_GROUPS + 1
      /\ b.total > 0 <=> slices > 0
      /\ b.total > 0 /\ Len(b.primary) > 1 =>
             \A n \in DOMAIN b.primary :
                 b.primary[n].amount * 100 >= b.total * OTHER_THRESHOLD_PERCENT
      /\ b.other # None =>
             \A n \in DOMAIN b.primary, c \in Range(b.other.children) :
                 c.amount <= b.primary[n].amount

LEMMA PercentType ==
  ASSUME NEW part \in Nat, NEW whole \in Nat
  PROVE  roundPercentToTenth(part, whole) \in Int
  <1>1. CASE whole = 0
    BY <1>1 DEF roundPercentToTenth
  <1>2. CASE whole # 0
    <2> PICK dividend, divisor : dividend = part * 2000 + whole /\ divisor = whole * 2
      OBVIOUS
    <2>1. dividend \in Int /\ divisor \in Int /\ divisor > 0
      BY <1>2
    <2>2. dividend \div divisor \in Int
      BY <2>1
    <2> QED
      BY <1>2, <2>1, <2>2 DEF roundPercentToTenth, floorDiv
  <1> QED
    BY <1>1, <1>2

LEMMA GroupsSum ==
  ASSUME NEW G, IsFiniteSet(G), \A g \in G : g.amount \in Nat
  PROVE  /\ sumOf(G) = Total(GroupAmounts(G), G) /\ sumOf(G) \in Nat
         /\ Summable(GroupAmounts(G), G)
  <1> PICK A : A = GroupAmounts(G)
    OBVIOUS
  <1>1. DOMAIN A = G /\ \A g \in G : A[g] = g.amount /\ A[g] \in Nat
    BY DEF GroupAmounts
  <1>2. Summable(A, G) /\ Total(A, G) \in Nat
    BY <1>1, TotalNat
  <1>3. sumOf(G) = SumFunction(A)
    BY DEF sumOf, GroupAmounts
  <1> QED
    BY <1>1, <1>2, <1>3, FunctionSum

\* The amounts of groups in a sequence.
LEMMA SequenceSum ==
  ASSUME NEW S, IsFiniteSet(S), NEW A, \A g \in S : A[g] \in Nat, NEW s \in Seq(S),
         NEW n \in Nat, Len(s) = n, \A i, j \in 1..n : s[i] = s[j] => i = j,
         NEW h, \A i \in 1..n : h[i] = A[s[i]]
  PROVE  /\ Summable(h, 1..n) /\ Total(h, 1..n) = Total(A, Range(s))
         /\ Range(s) \in SUBSET S /\ Total(h, 1..n) \in Nat
  <1>1. DOMAIN s = 1..n /\ \A i \in 1..n : s[i] \in S
    BY LenProperties, ElementOfSeq
  <1>2. \A i \in 1..n : h[i] \in Nat
    BY <1>1
  <1>3. Summable(h, 1..n) /\ Total(h, 1..n) \in Nat
    BY <1>2, UpTo, TotalNat
  <1> PICK image : image = Range(s)
    OBVIOUS
  <1>4. \A i \in 1..n : s[i] \in image
    BY <1>1 DEF Range
  <1>5. \A y \in image : \E i \in 1..n : s[i] = y
    BY <1>1 DEF Range
  <1>6. Total(A, image) = Total(h, 1..n)
    BY <1>3, <1>4, <1>5, TotalOfImage
  <1>7. image \in SUBSET S
    BY <1>1, <1>5
  <1> QED
    BY <1>3, <1>6, <1>7

\* Both ends of the order are all the groups that are not empty.
LEMMA FoldSums ==
  ASSUME NEW groups, GroupsOK(groups), NEW fold, NEW total, NEW max,
         IsFold(fold, Positive(groups), total, max)
  PROVE  LET A == GroupAmounts(groups)
             P == Range(fold.primary)
             F == Range(fold.folded)
         IN  /\ P \in SUBSET groups /\ F \in SUBSET groups
             /\ Total(A, groups) = Total(A, P) + Total(A, F)
             /\ Total(A, P) \in Nat /\ Total(A, F) \in Nat
             /\ Total(A, P) > 0 <=> Len(fold.primary) > 0
             /\ Total(A, F) > 0 <=> Len(fold.folded) > 0
  <1>i. PICK S, A, P, F : /\ S = Positive(groups) /\ A = GroupAmounts(groups)
                          /\ P = Range(fold.primary) /\ F = Range(fold.folded)
    OBVIOUS
  <1>1. /\ S \in SUBSET groups /\ IsFiniteSet(groups)
        /\ \A g \in groups : A[g] \in Nat /\ (A[g] # 0 <=> g \in S)
    BY <1>i DEF Positive, GroupAmounts, GroupsOK
  <1> PICK p, f : p = Len(fold.primary) /\ f = Len(fold.folded)
    OBVIOUS
  <1>2. /\ DOMAIN fold.primary = 1..p /\ DOMAIN fold.folded = 1..f /\ p \in Nat /\ f \in Nat
        /\ \A n \in 1..p : fold.primary[n] \in S
        /\ \A n \in 1..f : fold.folded[n] \in S
    BY <1>i, LenProperties, ElementOfSeq DEF IsFold
  <1>3. /\ \A m \in 1..p, n \in 1..f : fold.primary[m] # fold.folded[n]
        /\ \A s \in S : \/ \E m \in 1..p : fold.primary[m] = s
                        \/ \E n \in 1..f : fold.folded[n] = s
    BY <1>i DEF IsFold
  <1>4. /\ \A y : y \in P <=> \E n \in 1..p : fold.primary[n] = y
        /\ \A y : y \in F <=> \E n \in 1..f : fold.folded[n] = y
    BY <1>i, <1>2 DEF Range
  <1>5. P \in SUBSET S /\ F \in SUBSET S /\ S = P \cup F /\ P \cap F = {}
    BY <1>2, <1>3, <1>4
  <1>6. Summable(A, groups) /\ Total(A, P) \in Nat /\ Total(A, F) \in Nat
    <2>1. P \in SUBSET groups /\ F \in SUBSET groups
      BY <1>1, <1>5
    <2> QED
      BY <1>1, <2>1, TotalNat, TotalPart
  <1>7. Total(A, groups) = Total(A, P) + Total(A, F)
    <2>1. Summable(A, P) /\ Summable(A, F) /\ Summable(A, S)
      BY <1>1, <1>5, <1>6, SubsetSummable
    <2>2. Total(A, S) = Total(A, P) + Total(A, F)
      BY <1>5, <2>1, TotalUnion
    <2>3. Total(A, groups) = Total(A, S) + Total(A, groups \ S)
      BY <1>1, <1>6, TotalSplit
    <2>4. Total(A, groups \ S) = 0
      <3>1. IsFiniteSet(groups \ S) /\ \A g \in groups \ S : A[g] = 0
        BY <1>1, FS_Subset
      <3> QED
        BY <3>1, TotalOfZeros
    <2> QED
      BY <1>6, <2>2, <2>3, <2>4
  <1>8. ASSUME NEW Q \in SUBSET S PROVE Total(A, Q) > 0 <=> Q # {}
    <2>1. IsFiniteSet(Q) /\ \A g \in Q : A[g] \in Nat /\ A[g] # 0
      BY <1>1, FS_Subset
    <2>2. ASSUME Q # {} PROVE Total(A, Q) > 0
      <3>1. PICK g \in Q : TRUE
        BY <2>2
      <3>2. A[g] <= Total(A, Q) /\ A[g] \in Nat /\ A[g] # 0 /\ Total(A, Q) \in Nat
        BY <2>1, TotalAtLeast, TotalNat
      <3> QED
        BY <3>2
    <2>3. ASSUME Q = {} PROVE ~(Total(A, Q) > 0)
      <3>1. Total(A, Q) = 0
        BY <2>3, EmptyTotal
      <3> QED
        BY <3>1
    <2> QED
      BY <2>2, <2>3
  <1>9. (P # {} <=> p > 0) /\ (F # {} <=> f > 0)
    <2>1. \A k \in Nat : k > 0 <=> 1 \in 1..k
      OBVIOUS
    <2>2. \A k \in Nat : ~(k > 0) => 1..k = {}
      OBVIOUS
    <2> QED
      BY <1>2, <1>4, <2>1, <2>2
  <1> QED
    BY <1>i, <1>1, <1>5, <1>6, <1>7, <1>8, <1>9

\* One of the sums of a breakdown, and whether it is there.
LEMMA DeletedItem ==
  ASSUME NEW deleted, IsFiniteSet(deleted),
         \A w \in deleted : w.amount \in Nat /\ w.amount # 0, NEW total \in Nat
  PROVE  LET item == deletedWallets(deleted, total)
             sum == Total(GroupAmounts(deleted), deleted)
         IN  /\ Amounts(item) = sum /\ sum \in Nat
             /\ item # None <=> sum > 0
  <1>i. PICK item, D : item = deletedWallets(deleted, total) /\ D = GroupAmounts(deleted)
    OBVIOUS
  <1>1. sumOf(deleted) = Total(D, deleted) /\ sumOf(deleted) \in Nat
    BY <1>i, GroupsSum
  <1>2. CASE deleted = {}
    <2>1. item = None /\ Total(D, deleted) = 0
      BY <1>i, <1>2, EmptyTotal DEF deletedWallets
    <2> QED
      BY <1>i, <1>1, <2>1 DEF Amounts
  <1>3. CASE deleted # {}
    <2>1. PICK w \in deleted : TRUE
      BY <1>3
    <2>2. \A v \in deleted : D[v] = v.amount /\ D[v] \in Nat /\ D[v] # 0
      BY <1>i DEF GroupAmounts
    <2>3. D[w] <= Total(D, deleted)
      BY <2>1, <2>2, TotalAtLeast
    <2>4. Total(D, deleted) > 0
      BY <1>1, <2>1, <2>2, <2>3
    <2> PICK percent, size : percent = roundPercentToTenth(sumOf(deleted), total)
                             /\ size = Cardinality(deleted)
      OBVIOUS
    <2>5. percent \in Int /\ size \in Nat
      BY <1>1, PercentType, FS_CardinalityType
    <2>6. item = [amount |-> sumOf(deleted), percent |-> percent, wallets_count |-> size]
      BY <1>i, <1>3 DEF deletedWallets
    <2>7. item # None
      BY <1>1, <2>5, <2>6, ItemAssumption
    <2> QED
      BY <1>i, <1>1, <2>4, <2>6, <2>7 DEF Amounts
  <1> QED
    BY <1>2, <1>3

IsOther(item, folded, groups, total) ==
  LET sum == Total(GroupAmounts(groups), Range(folded))
  IN  /\ Amounts(item) = sum /\ sum \in Nat
      /\ item # None <=> Len(folded) > 0
      /\ item # None => item.children = [n \in 1..Len(folded) |-> toItem(folded[n], total)]

LEMMA OtherGroups ==
  ASSUME NEW groups, GroupsOK(groups), NEW S \in SUBSET groups, NEW folded \in Seq(S),
         NEW total \in Nat
  PROVE  IsOther(otherOf(folded, total), folded, groups, total)
  <1>i. PICK item, A, F : /\ item = otherOf(folded, total) /\ A = GroupAmounts(groups)
                          /\ F = Range(folded)
    OBVIOUS
  <1>1. /\ Len(folded) \in Nat /\ DOMAIN folded = 1..Len(folded)
        /\ \A n \in 1..Len(folded) : folded[n] \in groups
        /\ folded = <<>> <=> Len(folded) = 0
    BY LenProperties, ElementOfSeq, EmptySeq
  <1>2. F \in SUBSET groups /\ IsFiniteSet(F)
    <2>1. F \in SUBSET groups
      BY <1>i, <1>1 DEF Range
    <2> QED
      BY <2>1, FS_Subset DEF GroupsOK
  <1>3. /\ \A g \in groups : A[g] = g.amount /\ g.amount \in Nat
        /\ \A g \in F : GroupAmounts(F)[g] = A[g]
    BY <1>i, <1>2 DEF GroupAmounts, GroupsOK
  <1>4. sumOf(F) = Total(A, F) /\ sumOf(F) \in Nat
    <2>1. /\ sumOf(F) = Total(GroupAmounts(F), F) /\ sumOf(F) \in Nat
          /\ Summable(GroupAmounts(F), F)
      BY <1>2, <1>3, GroupsSum
    <2>2. Total(GroupAmounts(F), F) = Total(A, F)
      BY <1>3, <2>1, TotalSame
    <2> QED
      BY <2>1, <2>2
  <1>5. CASE folded = <<>>
    <2>1. F = {}
      BY <1>i, <1>1, <1>5 DEF Range
    <2>2. item = None /\ Total(A, F) = 0
      BY <1>i, <1>5, <2>1, EmptyTotal DEF otherOf
    <2>3. ~(Len(folded) > 0)
      BY <1>1, <1>5
    <2> QED
      BY <1>i, <1>4, <2>2, <2>3 DEF Amounts, IsOther
  <1>6. CASE folded # <<>>
    <2>i. PICK percent, children :
              /\ percent = roundPercentToTenth(sumOf(F), total)
              /\ children = [n \in 1..Len(folded) |-> toItem(folded[n], total)]
      OBVIOUS
    <2>1. percent \in Int
      BY <2>i, <1>4, PercentType
    <2> DEFINE Shown == [id : Nat, amount : Nat, percent : Int, is_archived : BOOLEAN]
    <2>2. \A g \in groups : toItem(g, total) \in Shown
      <3>1. TAKE g \in groups
      <3>2. roundPercentToTenth(g.amount, total) \in Int
        BY <3>1, PercentType DEF GroupsOK
      <3> QED
        BY <3>2 DEF GroupsOK, toItem
    <2>3. children \in Seq(Shown)
      <3>1. children \in [1..Len(folded) -> Shown]
        BY <2>i, <1>1, <2>2
      <3> PICK size, shown : size = Len(folded) /\ shown = Shown
        OBVIOUS
      <3> HIDE DEF Shown
      <3>2. size \in Nat /\ children \in [1..size -> shown]
        BY <1>1, <3>1
      <3>3. children \in Seq(shown)
        BY <3>2
      <3> QED
        BY <3>3
    <2>4. item = [amount |-> sumOf(F), percent |-> percent, children |-> children]
      BY <1>i, <2>i, <1>1, <1>6 DEF otherOf
    <2>5. item # None
      BY <1>4, <2>1, <2>3, <2>4, ItemAssumption
    <2>6. Len(folded) > 0
      BY <1>1, <1>6
    <2> QED
      BY <1>i, <2>i, <1>4, <2>4, <2>5, <2>6 DEF Amounts, IsOther
  <1> QED
    BY <1>5, <1>6

\* A breakdown of groups and deleted wallets: its slices are the total, and an
\* item is one of the groups that are not empty.
LEMMA BreakdownFits ==
  ASSUME NEW groups, GroupsOK(groups), NEW deleted, IsFiniteSet(deleted),
         \A w \in deleted : w.amount \in Nat /\ w.amount # 0, NEW total,
         total = Total(GroupAmounts(groups), groups)
                     + Total(GroupAmounts(deleted), deleted)
  PROVE  LET b == Breakdown(groups, deleted, total) IN
         /\ SlicesFit(b) /\ b.total = total
         /\ \A item \in Parts(b) :
               \E g \in groups : item.id = g.id /\ item.amount = g.amount /\ g.amount # 0
  <1>i. PICK b, fold, max, S, A, D :
            /\ b = Breakdown(groups, deleted, total) /\ max = MaxPrimary(deleted)
            /\ fold = foldGroups(groups, total, max) /\ S = Positive(groups)
            /\ A = GroupAmounts(groups) /\ D = GroupAmounts(deleted)
    OBVIOUS
  <1>p. PICK p, f, P, F : /\ p = Len(fold.primary) /\ f = Len(fold.folded)
                          /\ P = Range(fold.primary) /\ F = Range(fold.folded)
    OBVIOUS
  <1>1. /\ b.total = total /\ b.deleted = deletedWallets(deleted, total)
        /\ b.other = otherOf(fold.folded, total)
        /\ b.primary = [n \in DOMAIN fold.primary |-> toItem(fold.primary[n], total)]
    BY <1>i DEF Breakdown
  <1>2. total \in Nat /\ total = Total(A, groups) + Total(D, deleted)
    <2>1. \A g \in groups : A[g] \in Nat
      BY <1>i DEF GroupAmounts, GroupsOK
    <2>2. Total(A, groups) \in Nat /\ Total(D, deleted) \in Nat
      BY <1>i, <2>1, TotalNat, DeletedItem DEF GroupsOK, GroupAmounts
    <2> QED
      BY <1>i, <2>2
  <1>3. max \in Nat /\ max <= MAX_PRIMARY_GROUPS /\ (deleted # {} => max < MAX_PRIMARY_GROUPS)
    BY <1>i, GroupAssumption DEF MaxPrimary
  <1>4. IsFold(fold, S, total, max)
    BY <1>i, <1>2, <1>3, GroupsFolded
  <1>5. /\ S \in SUBSET groups
        /\ \A g \in groups : A[g] = g.amount /\ g.amount \in Nat
        /\ \A g \in S : g.amount # 0 /\ g \in groups
    BY <1>i DEF Positive, GroupAmounts, GroupsOK
  <1>6. /\ fold.primary \in Seq(S) /\ fold.folded \in Seq(S) /\ p <= max
        /\ \A m, n \in 1..p : fold.primary[m] = fold.primary[n] => m = n
        /\ \A m \in 1..p, n \in 1..f : fold.folded[n].amount <= fold.primary[m].amount
        /\ p > 1 => \A n \in 1..p :
                        fold.primary[n].amount * 100 >= total * OTHER_THRESHOLD_PERCENT
    BY <1>p, <1>4 DEF IsFold
  <1>7. /\ p \in Nat /\ DOMAIN fold.primary = 1..p
        /\ f \in Nat /\ DOMAIN fold.folded = 1..f
        /\ \A n \in 1..p : fold.primary[n] \in S
        /\ \A n \in 1..f : fold.folded[n] \in S
    BY <1>p, <1>6, LenProperties, ElementOfSeq
  <1>8. /\ DOMAIN b.primary = 1..p /\ Len(b.primary) = p
        /\ \A n \in 1..p : /\ b.primary[n].id = fold.primary[n].id
                           /\ b.primary[n].amount = fold.primary[n].amount
    <2>1. b.primary = [n \in 1..p |-> toItem(fold.primary[n], total)]
      BY <1>1, <1>7
    <2>2. DOMAIN b.primary = 1..p
      BY <2>1
    <2>3. \A n \in 1..p : b.primary[n] = toItem(fold.primary[n], total)
      BY <2>1
    <2>4. Len(b.primary) = p
      <3>1. b.primary \in Seq({toItem(g, total) : g \in S})
        <4>1. b.primary \in [1..p -> {toItem(g, total) : g \in S}]
          BY <1>7, <2>1
        <4> PICK shown : shown = {toItem(g, total) : g \in S}
          OBVIOUS
        <4> QED
          BY <1>7, <4>1
      <3> QED
        BY <1>7, <2>2, <3>1, LenProperties
    <2>5. \A g : toItem(g, total).id = g.id /\ toItem(g, total).amount = g.amount
      BY DEF toItem
    <2> QED
      BY <2>2, <2>3, <2>4, <2>5
  <1>9. /\ P \in SUBSET groups /\ F \in SUBSET groups
        /\ Total(A, groups) = Total(A, P) + Total(A, F)
        /\ Total(A, P) \in Nat /\ Total(A, F) \in Nat
        /\ Total(A, P) > 0 <=> p > 0
        /\ Total(A, F) > 0 <=> f > 0
    BY <1>i, <1>p, <1>4, FoldSums
  <1>10. SumFunction([n \in DOMAIN b.primary |-> b.primary[n].amount]) = Total(A, P)
    <2>i. PICK h : h = [n \in 1..p |-> b.primary[n].amount]
      OBVIOUS
    <2>1. DOMAIN h = 1..p /\ \A n \in 1..p : h[n] = A[fold.primary[n]]
      BY <2>i, <1>5, <1>7, <1>8
    <2>2. Summable(h, 1..p) /\ Total(h, 1..p) = Total(A, P)
      <3>1. IsFiniteSet(S) /\ \A g \in S : A[g] \in Nat
        BY <1>5, FS_Subset DEF GroupsOK
      <3>i. PICK s : s = fold.primary
        OBVIOUS
      <3>2. /\ s \in Seq(S) /\ Len(s) = p /\ p \in Nat /\ P = Range(s)
            /\ \A m, n \in 1..p : s[m] = s[n] => m = n
            /\ \A n \in 1..p : h[n] = A[s[n]]
        BY <3>i, <1>p, <1>6, <1>7, <2>1
      <3> QED
        BY <3>1, <3>2, SequenceSum
    <2>3. SumFunction(h) = Total(h, 1..p)
      BY <2>1, <2>2, FunctionSum
    <2> QED
      BY <2>i, <1>8, <2>2, <2>3
  <1>11. /\ Amounts(b.deleted) = Total(D, deleted) /\ Total(D, deleted) \in Nat
         /\ b.deleted # None <=> Total(D, deleted) > 0
         /\ b.deleted # None => deleted # {}
    <2>1. deleted = {} => b.deleted = None
      BY <1>1 DEF deletedWallets
    <2> QED
      BY <1>i, <1>1, <1>2, <2>1, DeletedItem
  <1>12. /\ Amounts(b.other) = Total(A, F)
         /\ b.other # None <=> f > 0
         /\ b.other # None => b.other.children = [n \in 1..f |-> toItem(fold.folded[n], total)]
    <2> PICK folded : folded = fold.folded
      OBVIOUS
    <2>1. folded \in Seq(S) /\ f = Len(folded) /\ F = Range(folded)
      BY <1>p, <1>6
    <2>2. IsOther(otherOf(folded, total), folded, groups, total)
      BY <1>2, <1>5, <2>1, OtherGroups
    <2> QED
      BY <1>i, <1>1, <2>1, <2>2 DEF IsOther
  <1>s. PICK sum, slices, there :
            /\ sum = SumFunction([n \in DOMAIN b.primary |-> b.primary[n].amount])
            /\ there = {b.deleted, b.other} \ {None} /\ slices = p + Cardinality(there)
    OBVIOUS
  <1>13. sum + Amounts(b.deleted) + Amounts(b.other) = b.total
    BY <1>s, <1>1, <1>2, <1>9, <1>10, <1>11, <1>12
  <1>14. /\ IsFiniteSet(there) /\ Cardinality(there) \in Nat
         /\ Cardinality(there) <= 2
         /\ b.deleted = None => Cardinality(there) <= 1
         /\ Cardinality(there) > 0 <=> b.deleted # None \/ b.other # None
    <2>i. PICK x, y : x = b.deleted /\ y = b.other
      OBVIOUS
    <2>1. there = {x, y} \ {None}
      BY <2>i, <1>s
    <2>2. IsFiniteSet({x, y}) /\ Cardinality({x, y}) <= 2 /\ Cardinality({x, y}) \in Nat
      <3> PICK one, both : one = {x} /\ both = one \cup {y}
        OBVIOUS
      <3>1. IsFiniteSet(one) /\ Cardinality(one) = 1
        BY FS_Singleton
      <3>2. IsFiniteSet(both) /\ (Cardinality(both) = 1 \/ Cardinality(both) = 1 + 1)
        BY <3>1, FS_AddElement
      <3>3. both = {x, y}
        OBVIOUS
      <3> PICK size : size = Cardinality(both)
        OBVIOUS
      <3>4. size <= 2 /\ size \in Nat
        BY <3>2
      <3> QED
        BY <3>2, <3>3, <3>4, Zenon
    <2>3. IsFiniteSet(there) /\ Cardinality(there) \in Nat /\ Cardinality(there) <= 2
      BY <2>1, <2>2, FS_Subset, FS_CardinalityType
    <2>4. ASSUME x = None PROVE Cardinality(there) <= 1
      <3>1. there \in SUBSET {y} /\ IsFiniteSet({y}) /\ Cardinality({y}) = 1
        BY <2>1, <2>4, FS_Singleton
      <3> QED
        BY <3>1, FS_Subset
    <2>5. Cardinality(there) > 0 <=> there # {}
      BY <2>3, FS_EmptySet
    <2>6. there # {} <=> x # None \/ y # None
      BY <2>1
    <2> QED
      BY <2>i, <2>3, <2>4, <2>5, <2>6
  <1>15. slices <= MAX_PRIMARY_GROUPS + 1
    BY <1>s, <1>3, <1>6, <1>7, <1>11, <1>14, GroupAssumption
  <1>16. b.total > 0 <=> slices > 0
    <2>1. slices > 0 <=> p > 0 \/ b.deleted # None \/ b.other # None
      BY <1>s, <1>7, <1>14
    <2>2. total > 0 <=> p > 0 \/ f > 0 \/ Total(D, deleted) > 0
      BY <1>2, <1>9, <1>11
    <2> QED
      BY <1>1, <1>11, <1>12, <2>1, <2>2
  <1>17. b.total > 0 /\ Len(b.primary) > 1 =>
             \A n \in DOMAIN b.primary :
                 b.primary[n].amount * 100 >= b.total * OTHER_THRESHOLD_PERCENT
    BY <1>1, <1>6, <1>8
  <1>18. ASSUME b.other # None, NEW c \in Range(b.other.children)
         PROVE  \E k \in 1..f : /\ c.amount = fold.folded[k].amount
                                /\ c.id = fold.folded[k].id
    <2>1. b.other.children = [n \in 1..f |-> toItem(fold.folded[n], total)]
      BY <1>12, <1>18
    <2>2. PICK k \in 1..f : c = toItem(fold.folded[k], total)
      BY <1>18, <2>1 DEF Range
    <2>3. \A g : toItem(g, total).id = g.id /\ toItem(g, total).amount = g.amount
      BY DEF toItem
    <2> QED
      BY <2>2, <2>3
  <1>19. b.other # None => \A n \in DOMAIN b.primary, c \in Range(b.other.children) :
                               c.amount <= b.primary[n].amount
    BY <1>6, <1>8, <1>18
  <1>20. SlicesFit(b)
    BY <1>s, <1>8, <1>13, <1>15, <1>16, <1>17, <1>19 DEF SlicesFit
  <1>21. ASSUME NEW item \in Parts(b)
         PROVE  \E g \in groups : item.id = g.id /\ item.amount = g.amount /\ g.amount # 0
    <2>1. CASE item \in Range(b.primary)
      <3>1. PICK n \in 1..p : item = b.primary[n]
        BY <1>8, <2>1 DEF Range
      <3> QED
        BY <1>5, <1>7, <1>8, <3>1
    <2>2. CASE b.other # None /\ item \in Range(b.other.children)
      <3>1. PICK k \in 1..f : /\ item.amount = fold.folded[k].amount
                              /\ item.id = fold.folded[k].id
        BY <1>18, <2>2
      <3> QED
        BY <1>5, <1>7, <3>1
    <2> QED
      BY <1>21, <2>1, <2>2 DEF Parts
  <1> QED
    BY <1>i, <1>1, <1>20, <1>21

-----------------------------------------------------------------------------
(* Records by category and by wallet.                                      *)

OfGroup(b, rows, field, id) == {i \in rows : b.txns[i][field] = id}

GroupsOf(G, b, rows, field) ==
  /\ \A g \in G : /\ \E i \in rows : b.txns[i][field] = g.id
                  /\ g.amount = Sum(b, OfGroup(b, rows, field, g.id))
                  /\ g.count = Cardinality(OfGroup(b, rows, field, g.id))
  /\ \A i \in rows : \E g \in G : g.id = b.txns[i][field]
  /\ \A g, h \in G : g.id = h.id => g = h

LEMMA GroupsAre ==
  ASSUME NEW b, NEW rows, NEW field
  PROVE  GroupsOf(GroupsBy(b, rows, field), b, rows, field)
  <1> PICK G : G = GroupsBy(b, rows, field)
    OBVIOUS
  <1>1. \A g \in G : \E id \in {b.txns[i][field] : i \in rows} :
            g = [id |-> id, amount |-> Sum(b, OfGroup(b, rows, field, id)),
                 count |-> Cardinality(OfGroup(b, rows, field, id))]
    BY DEF GroupsBy, OfGroup
  <1>2. \A i \in rows : \E g \in G : g.id = b.txns[i][field]
    <2>1. \A id \in {b.txns[i][field] : i \in rows} :
              [id |-> id, amount |-> Sum(b, OfGroup(b, rows, field, id)),
               count |-> Cardinality(OfGroup(b, rows, field, id))] \in G
      BY DEF GroupsBy, OfGroup
    <2>2. TAKE i \in rows
    <2> PICK id : id = b.txns[i][field]
      OBVIOUS
    <2>3. id \in {b.txns[j][field] : j \in rows}
      OBVIOUS
    <2>g. PICK g : g = [id |-> id, amount |-> Sum(b, OfGroup(b, rows, field, id)),
                        count |-> Cardinality(OfGroup(b, rows, field, id))]
      OBVIOUS
    <2>4. g \in G /\ g.id = id
      BY <2>g, <2>1, <2>3
    <2> QED
      BY <2>4
  <1>3. \A g \in G : /\ \E i \in rows : b.txns[i][field] = g.id
                     /\ g.amount = Sum(b, OfGroup(b, rows, field, g.id))
                     /\ g.count = Cardinality(OfGroup(b, rows, field, g.id))
    BY <1>1
  <1>4. \A g, h \in G : g.id = h.id => g = h
    BY <1>1
  <1> QED
    BY <1>2, <1>3, <1>4 DEF GroupsOf

LEMMA CategoriesAre ==
  ASSUME NEW b, NEW type, NEW from, NEW to
  PROVE  LET G == getStatisticsByCategory(b, type, from, to) IN
         /\ GroupsOf(G, b, statisticsTypeScope(b, type, from, to), "category")
         /\ \A g \in G : g.isArchived \in BOOLEAN
  <1> PICK rows : rows = statisticsTypeScope(b, type, from, to)
    OBVIOUS
  <1> PICK H, G : /\ H = GroupsBy(b, rows, "category")
                  /\ G = getStatisticsByCategory(b, type, from, to)
    OBVIOUS
  <1>1. GroupsOf(H, b, rows, "category")
    BY GroupsAre
  <1>2. \A g \in G : \E h \in H : g = [id |-> h.id, amount |-> h.amount, count |-> h.count,
                                       isArchived |-> h.id \in b.archived]
    BY DEF getStatisticsByCategory
  <1>3. \A h \in H : \E g \in G : g.id = h.id
    <2>1. \A h \in H : [id |-> h.id, amount |-> h.amount, count |-> h.count,
                        isArchived |-> h.id \in b.archived] \in G
      BY DEF getStatisticsByCategory
    <2> QED
      BY <2>1
  <1>4. \A g \in G : g.isArchived \in BOOLEAN
    <2>1. TAKE g \in G
    <2>h. PICK h \in H : g = [id |-> h.id, amount |-> h.amount, count |-> h.count,
                              isArchived |-> h.id \in b.archived]
      BY <1>2, Zenon
    <2>f. PICK flag : flag = (h.id \in b.archived)
      BY Zenon
    <2>2. /\ g = [id |-> h.id, amount |-> h.amount, count |-> h.count, isArchived |-> flag]
          /\ flag = (h.id \in b.archived)
      BY <2>h, <2>f, Zenon
    <2>3. flag \in BOOLEAN
      <3>1. (h.id \in b.archived) \in BOOLEAN
        OBVIOUS
      <3> QED
        BY <2>2, <3>1, Zenon
    <2> QED
      BY <2>2, <2>3
  <1>5. \A g \in G : \E h \in H : g.id = h.id /\ g.amount = h.amount /\ g.count = h.count
    BY <1>2
  <1>6. \A g, k \in G : g.id = k.id => g = k
    <2>1. \A h, k \in H : h.id = k.id => h = k
      BY <1>1 DEF GroupsOf
    <2> QED
      BY <1>2, <2>1
  <1>7. GroupsOf(G, b, rows, "category")
    BY <1>1, <1>3, <1>5, <1>6 DEF GroupsOf
  <1> QED
    BY <1>4, <1>7

LEMMA WalletsAre ==
  ASSUME NEW b, NEW type, NEW from, NEW to
  PROVE  LET G == getStatisticsByWallet(b, type, from, to) IN
         /\ GroupsOf(G, b, statisticsTypeScope(b, type, from, to), "wallet")
         /\ \A g \in G : g.isDeleted <=> g.id \in b.deleted
  <1> PICK rows : rows = statisticsTypeScope(b, type, from, to)
    OBVIOUS
  <1> PICK H, G : /\ H = GroupsBy(b, rows, "wallet")
                  /\ G = getStatisticsByWallet(b, type, from, to)
    OBVIOUS
  <1>1. GroupsOf(H, b, rows, "wallet")
    BY GroupsAre
  <1>2. \A g \in G : \E h \in H : g = [id |-> h.id, amount |-> h.amount, count |-> h.count,
                                       isDeleted |-> h.id \in b.deleted]
    BY DEF getStatisticsByWallet
  <1>3. \A h \in H : \E g \in G : g.id = h.id
    <2>1. \A h \in H : [id |-> h.id, amount |-> h.amount, count |-> h.count,
                        isDeleted |-> h.id \in b.deleted] \in G
      BY DEF getStatisticsByWallet
    <2> QED
      BY <2>1
  <1>4. \A g \in G : g.isDeleted <=> g.id \in b.deleted
    <2>1. TAKE g \in G
    <2>h. PICK h \in H : g = [id |-> h.id, amount |-> h.amount, count |-> h.count,
                              isDeleted |-> h.id \in b.deleted]
      BY <1>2, Zenon
    <2>f. PICK flag : flag = (h.id \in b.deleted)
      BY Zenon
    <2>2. /\ g = [id |-> h.id, amount |-> h.amount, count |-> h.count, isDeleted |-> flag]
          /\ flag = (h.id \in b.deleted)
      BY <2>h, <2>f, Zenon
    <2>3. g.id = h.id /\ g.isDeleted = flag
      BY <2>2
    <2> QED
      BY <2>2, <2>3, Zenon
  <1>5. \A g \in G : \E h \in H : g.id = h.id /\ g.amount = h.amount /\ g.count = h.count
    BY <1>2
  <1>6. \A g, k \in G : g.id = k.id => g = k
    <2>1. \A h, k \in H : h.id = k.id => h = k
      BY <1>1 DEF GroupsOf
    <2> QED
      BY <1>2, <2>1
  <1>7. GroupsOf(G, b, rows, "wallet")
    BY <1>1, <1>3, <1>5, <1>6 DEF GroupsOf
  <1> QED
    BY <1>4, <1>7

\* Every record is in one group.
LEMMA GroupsTotal ==
  ASSUME NEW b \in Book, NEW rows \in SUBSET Rows(b), NEW field \in {"category", "wallet"},
         NEW G, GroupsOf(G, b, rows, field)
  PROVE  /\ IsFiniteSet(G)
         /\ \A g \in G : g.id \in Nat /\ g.amount \in Nat /\ g.count \in Nat
         /\ sumOf(G) = Sum(b, rows)
         /\ SumFunction([g \in G |-> g.count]) = Cardinality(rows)
  <1>1. IsFiniteSet(rows) /\ rows \in SUBSET Ids
    BY RowsAreFinite, FS_Subset
  <1>2. \A i \in rows : b.txns[i][field] \in Nat
    <2>1. \A i \in rows : b.txns[i] \in Txn
      BY <1>1 DEF Rows, Book
    <2>2. \A t \in Txn : t.wallet \in Nat /\ t.category \in Nat
      BY IdAssumption DEF Txn
    <2> QED
      BY <2>1, <2>2
  <1>3. /\ \A g \in G : /\ \E i \in rows : b.txns[i][field] = g.id
                        /\ g.amount = Sum(b, OfGroup(b, rows, field, g.id))
                        /\ g.count = Cardinality(OfGroup(b, rows, field, g.id))
        /\ \A i \in rows : \E g \in G : g.id = b.txns[i][field]
        /\ \A g, h \in G : g.id = h.id => g = h
    BY DEF GroupsOf
  <1>k. PICK k : k = [i \in rows |-> CHOOSE g \in G : g.id = b.txns[i][field]]
    OBVIOUS
  <1>4. \A i \in rows : k[i] \in G /\ k[i].id = b.txns[i][field]
    BY <1>k, <1>3
  <1>5. \A i \in rows, g \in G : k[i] = g <=> b.txns[i][field] = g.id
    BY <1>3, <1>4
  <1>6. IsFiniteSet(G)
    <2>1. k \in Surjection(rows, G)
      <3>1. k \in [rows -> G]
        BY <1>k, <1>4
      <3>2. \A g \in G : \E i \in rows : k[i] = g
        BY <1>3, <1>5
      <3> QED
        BY <3>1, <3>2 DEF Surjection
    <2> QED
      BY <1>1, <2>1, FS_Surjection
  <1>7. \A g \in G : OfGroup(b, rows, field, g.id) = {i \in rows : k[i] = g}
    BY <1>5 DEF OfGroup
  <1>8. \A g \in G : g.id \in Nat /\ g.amount \in Nat /\ g.count \in Nat
    <2>1. TAKE g \in G
    <2>2. OfGroup(b, rows, field, g.id) \in SUBSET rows
      BY DEF OfGroup
    <2>3. Sum(b, OfGroup(b, rows, field, g.id)) \in Nat
      BY <2>2, SumIsTotal
    <2>4. Cardinality(OfGroup(b, rows, field, g.id)) \in Nat
      BY <1>1, <2>2, FS_Subset, FS_CardinalityType
    <2> QED
      BY <1>2, <1>3, <2>3, <2>4
  <1>9. sumOf(G) = Sum(b, rows)
    <2>h. PICK h, f : h = GroupAmounts(G) /\ f = AmountsOf(b)
      OBVIOUS
    <2>1. Summable(f, rows) /\ Sum(b, rows) = Total(f, rows)
      BY <2>h, SumIsTotal
    <2>2. \A g \in G : h[g] = Total(f, PartOf(rows, k, g))
      <3>1. TAKE g \in G
      <3> PICK S : S = OfGroup(b, rows, field, g.id)
        OBVIOUS
      <3>2. S \in SUBSET Rows(b) /\ S = PartOf(rows, k, g)
        BY <1>7 DEF OfGroup, PartOf
      <3>3. Sum(b, S) = Total(f, S)
        BY <2>h, <3>2, SumIsTotal
      <3>4. h[g] = Sum(b, S)
        BY <2>h, <1>3 DEF GroupAmounts
      <3> QED
        BY <3>2, <3>3, <3>4
    <2>3. Total(h, G) = Total(f, rows)
      BY <1>4, <1>6, <2>1, <2>2, TotalOfGroups
    <2>4. sumOf(G) = Total(h, G)
      BY <2>h, <1>6, <1>8, GroupsSum
    <2> QED
      BY <2>1, <2>3, <2>4
  <1>10. SumFunction([g \in G |-> g.count]) = Cardinality(rows)
    <2>h. PICK h, f : h = [g \in G |-> g.count] /\ f = [i \in rows |-> 1]
      OBVIOUS
    <2>1. /\ DOMAIN h = G /\ \A g \in G : h[g] = g.count
          /\ \A i \in rows : f[i] = 1
      BY <2>h
    <2>2. Summable(f, rows) /\ Total(f, rows) = Cardinality(rows)
      BY <1>1, <2>1, TotalOfOnes
    <2>3. \A g \in G : h[g] = Total(f, PartOf(rows, k, g))
      <3>1. TAKE g \in G
      <3>s. PICK S : S = OfGroup(b, rows, field, g.id)
        OBVIOUS
      <3>2. S \in SUBSET rows /\ S = PartOf(rows, k, g)
        BY <3>s, <1>7 DEF OfGroup, PartOf
      <3>3. IsFiniteSet(S) /\ \A i \in S : f[i] = 1
        BY <1>1, <2>1, <3>2, FS_Subset
      <3>4. Total(f, S) = Cardinality(S)
        BY <3>3, TotalOfOnes
      <3>5. h[g] = Cardinality(S)
        BY <3>s, <2>1, <1>3
      <3> QED
        BY <3>2, <3>4, <3>5
    <2>4. Summable(h, G) /\ Total(h, G) = Total(f, rows)
      BY <1>4, <1>6, <2>2, <2>3, TotalOfGroups
    <2>5. SumFunction(h) = Total(h, G)
      BY <2>1, <2>4, FunctionSum
    <2> QED
      BY <2>h, <2>2, <2>4, <2>5
  <1> QED
    BY <1>6, <1>8, <1>9, <1>10

-----------------------------------------------------------------------------
(* A breakdown of records.                                                 *)

DonutOK(d, b, rows, field, ids) ==
  /\ SlicesFit(d) /\ d.total = Sum(b, rows)
  /\ \A item \in Parts(d) : /\ item.id \in ids /\ item.amount # 0
                            /\ item.amount = Sum(b, OfGroup(b, rows, field, item.id))

LEMMA CategoryDonut ==
  ASSUME NEW b \in Book, NEW rows \in SUBSET Regular(b, Rows(b)), NEW cats,
         GroupsOf(cats, b, rows, "category"), \A g \in cats : g.isArchived \in BOOLEAN
  PROVE  DonutOK(buildCategoryBreakdown(cats), b, rows, "category", Categories)
  <1> PICK d, total : d = buildCategoryBreakdown(cats) /\ total = sumOf(cats)
    OBVIOUS
  <1>1. rows \in SUBSET Rows(b)
    BY DEF Regular
  <1>2. /\ IsFiniteSet(cats) /\ \A g \in cats : g.id \in Nat /\ g.amount \in Nat
        /\ total = Sum(b, rows)
    BY <1>1, GroupsTotal
  <1>3. /\ \A g \in cats : /\ \E i \in rows : b.txns[i]["category"] = g.id
                           /\ g.amount = Sum(b, OfGroup(b, rows, "category", g.id))
        /\ \A g, h \in cats : g.id = h.id => g = h
    BY DEF GroupsOf
  <1>4. GroupsOK(cats)
    BY <1>2, <1>3 DEF GroupsOK
  <1>5. \A g \in cats : g.id \in Categories
    <2>1. TAKE g \in cats
    <2>2. PICK i \in rows : b.txns[i]["category"] = g.id
      BY <1>3
    <2>3. b.txns[i] \in Txn /\ b.txns[i].category # System
      BY <1>1 DEF Book, Rows, Regular
    <2> QED
      BY <2>2, <2>3 DEF Txn
  <1>6. d = Breakdown(cats, {}, total)
    BY DEF buildCategoryBreakdown
  <1>7. total = Total(GroupAmounts(cats), cats) + Total(GroupAmounts({}), {})
    <2>1. total = Total(GroupAmounts(cats), cats) /\ total \in Nat
      BY <1>2, GroupsSum
    <2>2. Total(GroupAmounts({}), {}) = 0
      BY EmptyTotal
    <2> QED
      BY <2>1, <2>2
  <1>8. IsFiniteSet({}) /\ \A w \in {} : w.amount \in Nat /\ w.amount # 0
    BY FS_EmptySet
  <1>9. /\ SlicesFit(d) /\ d.total = total
        /\ \A item \in Parts(d) :
              \E g \in cats : item.id = g.id /\ item.amount = g.amount /\ g.amount # 0
    BY <1>4, <1>6, <1>7, <1>8, BreakdownFits
  <1> QED
    BY <1>2, <1>3, <1>5, <1>9 DEF DonutOK

\* The groups of a breakdown by wallet: the wallets that are not deleted, and
\* the deleted ones that are not empty.
LiveOf(wallets) ==
  {[id |-> w.id, amount |-> w.amount, isArchived |-> FALSE] : w \in {v \in wallets : ~v.isDeleted}}
GoneOf(wallets) == {w \in wallets : w.isDeleted /\ w.amount > 0}

WalletGroupsOK(wallets, live, deleted, total) ==
  /\ GroupsOK(live) /\ IsFiniteSet(deleted)
  /\ \A w \in deleted : w.amount \in Nat /\ w.amount # 0
  /\ \A g \in live : \E w \in wallets : ~w.isDeleted /\ g.id = w.id /\ g.amount = w.amount
  /\ total = Total(GroupAmounts(live), live) + Total(GroupAmounts(deleted), deleted)

\* Groups of deleted wallets that are empty add nothing.
LEMMA WalletGroups ==
  ASSUME NEW b \in Book, NEW rows \in SUBSET Rows(b), NEW wallets,
         GroupsOf(wallets, b, rows, "wallet")
  PROVE  WalletGroupsOK(wallets, LiveOf(wallets), GoneOf(wallets), sumOf(wallets))
  <1> PICK total : total = sumOf(wallets)
    OBVIOUS
  <1>l. PICK open, live, deleted, shown :
            /\ open = {v \in wallets : ~v.isDeleted}
            /\ shown = [w \in open |-> [id |-> w.id, amount |-> w.amount, isArchived |-> FALSE]]
            /\ live = {[id |-> w.id, amount |-> w.amount, isArchived |-> FALSE] : w \in open}
            /\ deleted = {w \in wallets : w.isDeleted /\ w.amount > 0}
    OBVIOUS
  <1>A. PICK A, L, D : /\ A = GroupAmounts(wallets) /\ L = GroupAmounts(live)
                       /\ D = GroupAmounts(deleted)
    OBVIOUS
  <1>2. /\ IsFiniteSet(wallets) /\ \A g \in wallets : g.id \in Nat /\ g.amount \in Nat
        /\ total = Sum(b, rows)
    BY GroupsTotal
  <1>3. /\ \A g \in wallets : /\ \E i \in rows : b.txns[i]["wallet"] = g.id
                              /\ g.amount = Sum(b, OfGroup(b, rows, "wallet", g.id))
        /\ \A g, h \in wallets : g.id = h.id => g = h
    BY DEF GroupsOf
  <1>4. /\ open \in SUBSET wallets /\ deleted \in SUBSET wallets
        /\ \A w \in wallets : w \in open <=> ~w.isDeleted
        /\ \A w \in wallets : w \in deleted <=> w.isDeleted /\ w.amount > 0
    BY <1>l
  <1>5. /\ \A w \in open : shown[w] \in live /\ shown[w].id = w.id /\ shown[w].amount = w.amount
        /\ \A g \in live : \E w \in open : shown[w] = g
        /\ \A w \in open : shown[w].isArchived = FALSE
    <2>1. \A w \in open :
              shown[w] = [id |-> w.id, amount |-> w.amount, isArchived |-> FALSE]
      BY <1>l
    <2>2. \A w \in open : shown[w] \in live
      <3>1. TAKE w \in open
      <3>2. [id |-> w.id, amount |-> w.amount, isArchived |-> FALSE] \in live
        BY <1>l
      <3> QED
        BY <2>1, <3>2
    <2>3. \A g \in live : \E w \in open : shown[w] = g
      <3>1. TAKE g \in live
      <3>2. PICK w \in open : g = [id |-> w.id, amount |-> w.amount, isArchived |-> FALSE]
        BY <1>l
      <3> QED
        BY <2>1, <3>2
    <2>no. PICK no : no = FALSE
      BY Zenon
    <2>6. \A w \in open : shown[w] = [id |-> w.id, amount |-> w.amount, isArchived |-> no]
      BY <2>1, <2>no, Zenon
    <2>7. \A w \in open : /\ shown[w].id = w.id /\ shown[w].amount = w.amount
                          /\ shown[w].isArchived = no
      <3>1. TAKE w \in open
      <3> PICK s, id, amount : s = shown[w] /\ id = w.id /\ amount = w.amount
        OBVIOUS
      <3>2. s = [id |-> id, amount |-> amount, isArchived |-> no]
        BY <2>6
      <3> QED
        BY <3>2
    <2>4. \A w \in open : shown[w].id = w.id /\ shown[w].amount = w.amount
      BY <2>7
    <2>5. \A w \in open : shown[w].isArchived = FALSE
      BY <2>7, <2>no, Zenon
    <2> QED
      BY <2>2, <2>3, <2>4, <2>5
  <1>6. IsFiniteSet(open) /\ IsFiniteSet(deleted) /\ IsFiniteSet(live)
    <2>1. IsFiniteSet(open) /\ IsFiniteSet(deleted)
      BY <1>2, <1>4, FS_Subset
    <2>2. shown \in Surjection(open, live)
      BY <1>l, <1>5 DEF Surjection
    <2> QED
      BY <2>1, <2>2, FS_Surjection
  <1>7. GroupsOK(live)
    <2>1. \A g \in live : \E w \in wallets : /\ g.id = w.id /\ g.amount = w.amount
                                             /\ g.isArchived = FALSE /\ g = shown[w]
      BY <1>4, <1>5
    <2>2. \A g \in live : g.id \in Nat /\ g.amount \in Nat /\ g.isArchived \in BOOLEAN
      <3>1. TAKE g \in live
      <3>2. g.id \in Nat /\ g.amount \in Nat
        BY <1>2, <2>1
      <3>3. g.isArchived = FALSE
        BY <2>1
      <3>4. g.isArchived \in BOOLEAN
        BY <3>3, Zenon
      <3> QED
        BY <3>2, <3>4, Zenon
    <2>3. \A g, h \in live : g.id = h.id => g = h
      BY <1>3, <2>1
    <2> QED
      BY <1>6, <2>2, <2>3 DEF GroupsOK
  <1>8. live = LiveOf(wallets) /\ deleted = GoneOf(wallets)
    BY <1>l DEF LiveOf, GoneOf
  <1>9. total = Total(L, live) + Total(D, deleted)
    <2>1. total = Total(A, wallets) /\ Summable(A, wallets) /\ \A w \in wallets : A[w] = w.amount
      BY <1>A, <1>2, GroupsSum DEF GroupAmounts
    <2>2. Total(A, wallets) = Total(A, open) + Total(A, wallets \ open)
      BY <1>4, <2>1, TotalSplit
    <2>3. Summable(A, open) /\ Summable(A, deleted) /\ Summable(A, wallets \ open)
      BY <1>4, <2>1, SubsetSummable
    <2>4. Total(L, live) = Total(A, open)
      <3>1. \A w \in open : A[w] = L[shown[w]]
        BY <1>A, <1>4, <1>5, <2>1 DEF GroupAmounts
      <3>2. \A v, w \in open : shown[v] = shown[w] => v = w
        BY <1>3, <1>4, <1>5
      <3>3. \A w \in open : shown[w] \in live
        BY <1>5
      <3>4. \A g \in live : \E w \in open : shown[w] = g
        BY <1>5
      <3>5. Summable(A, open)
        BY <2>3
      <3> QED
        BY <3>1, <3>2, <3>3, <3>4, <3>5, TotalOfImage
    <2>5. Total(A, wallets \ open) = Total(A, deleted)
      <3> PICK rest : rest = wallets \ open
        OBVIOUS
      <3>1. deleted \in SUBSET rest
        BY <1>4
      <3>2. IsFiniteSet(rest \ deleted) /\ \A w \in rest \ deleted : A[w] = 0
        BY <1>2, <1>4, <2>1, FS_Subset
      <3>3. Total(A, rest \ deleted) = 0
        BY <3>2, TotalOfZeros
      <3>4. Total(A, rest) = Total(A, deleted) + Total(A, rest \ deleted)
        BY <2>3, <3>1, TotalSplit
      <3>5. Total(A, deleted) \in Int
        BY <2>3, TotalType
      <3> QED
        BY <3>3, <3>4, <3>5
    <2>6. Total(A, deleted) = Total(D, deleted)
      <3>1. \A w \in deleted : A[w] = D[w]
        BY <1>A, <1>4, <2>1 DEF GroupAmounts
      <3> QED
        BY <2>3, <3>1, TotalSame
    <2> QED
      BY <2>1, <2>2, <2>4, <2>5, <2>6
  <1>10. \A w \in deleted : w.amount \in Nat /\ w.amount # 0
    BY <1>2, <1>4
  <1>11. \A g \in live : \E w \in wallets : ~w.isDeleted /\ g.id = w.id /\ g.amount = w.amount
    BY <1>4, <1>5
  <1> QED
    BY <1>A, <1>6, <1>7, <1>8, <1>9, <1>10, <1>11 DEF WalletGroupsOK

LEMMA WalletDonut ==
  ASSUME NEW b \in Book, NEW rows \in SUBSET Rows(b), NEW wallets,
         \A i \in rows : b.txns[i].wallet \in SpaceWallets,
         GroupsOf(wallets, b, rows, "wallet"),
         \A g \in wallets : g.isDeleted <=> g.id \in b.deleted
  PROVE  DonutOK(buildWalletBreakdown(wallets), b, rows, "wallet", SpaceWallets \ b.deleted)
  <1> PICK d, total, live, deleted :
          /\ d = buildWalletBreakdown(wallets) /\ total = sumOf(wallets)
          /\ live = LiveOf(wallets) /\ deleted = GoneOf(wallets)
    OBVIOUS
  <1>1. WalletGroupsOK(wallets, live, deleted, total)
    BY WalletGroups
  <1>2. d = Breakdown(live, deleted, total)
    BY DEF buildWalletBreakdown, LiveOf, GoneOf
  <1>3. /\ SlicesFit(d) /\ d.total = total
        /\ \A item \in Parts(d) :
              \E g \in live : item.id = g.id /\ item.amount = g.amount /\ g.amount # 0
    BY <1>1, <1>2, BreakdownFits DEF WalletGroupsOK
  <1>4. total = Sum(b, rows)
    BY GroupsTotal
  <1>5. ASSUME NEW item \in Parts(d)
        PROVE  /\ item.id \in SpaceWallets \ b.deleted /\ item.amount # 0
               /\ item.amount = Sum(b, OfGroup(b, rows, "wallet", item.id))
    <2>1. PICK w \in wallets : /\ ~w.isDeleted /\ item.id = w.id /\ item.amount = w.amount
                               /\ item.amount # 0
      BY <1>1, <1>3 DEF WalletGroupsOK
    <2>2. /\ w.amount = Sum(b, OfGroup(b, rows, "wallet", w.id))
          /\ \E i \in rows : b.txns[i]["wallet"] = w.id
      BY DEF GroupsOf
    <2>3. w.id \notin b.deleted
      BY <2>1
    <2> QED
      BY <2>1, <2>2, <2>3
  <1> QED
    BY <1>3, <1>4, <1>5 DEF DonutOK

\* The records of a period up to its moment; a future one has none.
PeriodRows(b, p) ==
  IF p.actual_to = Unset THEN {} ELSE statisticsScope(b, p.from, p.actual_to)

LEMMA ScopeIsRegular ==
  ASSUME NEW b, NEW p
  PROVE  /\ PeriodRows(b, p) \in SUBSET Regular(b, Rows(b)) /\ PeriodRows(b, p) \in SUBSET Rows(b)
         /\ \A i \in PeriodRows(b, p) : b.txns[i].wallet \in SpaceWallets
  BY DEF PeriodRows, statisticsScope, Regular

BreakdownOK(b, block) ==
  \E rows \in SUBSET Rows(b) :
    /\ rows = OfType(b, PeriodRows(b, block.period), block.type)
    /\ block.total = [amount |-> Sum(b, rows), count |-> Cardinality(rows)]
    /\ DonutOK(block.by_category, b, rows, "category", Categories)
    /\ DonutOK(block.by_wallet, b, rows, "wallet", SpaceWallets \ b.deleted)

\* The groups that a breakdown is built of.
BlockGroups(cats, wallets, b, rows) ==
  /\ GroupsOf(cats, b, rows, "category") /\ \A g \in cats : g.isArchived \in BOOLEAN
  /\ GroupsOf(wallets, b, rows, "wallet")
  /\ \A g \in wallets : g.isDeleted <=> g.id \in b.deleted

LEMMA BreakdownBuilt ==
  ASSUME NEW b \in Book, NEW block, NEW rows, rows = OfType(b, PeriodRows(b, block.period), block.type),
         NEW cats, NEW wallets, BlockGroups(cats, wallets, b, rows),
         block.total = [amount |-> sumOf(cats), count |-> SumFunction([g \in cats |-> g.count])],
         block.by_category = buildCategoryBreakdown(cats),
         block.by_wallet = buildWalletBreakdown(wallets)
  PROVE  BreakdownOK(b, block)
  <1>1. /\ rows \in SUBSET Regular(b, Rows(b)) /\ rows \in SUBSET Rows(b)
        /\ \A i \in rows : b.txns[i].wallet \in SpaceWallets
    BY ScopeIsRegular DEF OfType
  <1>2. DonutOK(block.by_category, b, rows, "category", Categories)
    BY <1>1, CategoryDonut DEF BlockGroups
  <1>3. DonutOK(block.by_wallet, b, rows, "wallet", SpaceWallets \ b.deleted)
    BY <1>1, WalletDonut DEF BlockGroups
  <1>4. sumOf(cats) = Sum(b, rows) /\ SumFunction([g \in cats |-> g.count]) = Cardinality(rows)
    BY <1>1, GroupsTotal DEF BlockGroups
  <1> QED
    BY <1>1, <1>2, <1>3, <1>4 DEF BreakdownOK

LEMMA GroupsAreRead ==
  ASSUME NEW b, NEW p, p.actual_to # Unset, NEW type
  PROVE  BlockGroups(getStatisticsByCategory(b, type, p.from, p.actual_to),
                     getStatisticsByWallet(b, type, p.from, p.actual_to),
                     b, OfType(b, PeriodRows(b, p), type))
  <1>1. OfType(b, PeriodRows(b, p), type) = statisticsTypeScope(b, type, p.from, p.actual_to)
    BY DEF PeriodRows, statisticsTypeScope
  <1> QED
    BY <1>1, CategoriesAre, WalletsAre DEF BlockGroups

LEMMA NoGroups ==
  ASSUME NEW b, NEW p, p.actual_to = Unset, NEW type
  PROVE  BlockGroups({}, {}, b, OfType(b, PeriodRows(b, p), type))
  <1>1. OfType(b, PeriodRows(b, p), type) = {}
    BY DEF PeriodRows, OfType
  <1> QED
    BY <1>1 DEF BlockGroups, GroupsOf

-----------------------------------------------------------------------------
(* The intervals of a trend.                                               *)

\* What the parts of records sum to and count.
LEMMA PartsAddUp ==
  ASSUME NEW b \in Book, NEW T \in SUBSET Rows(b), NEW k, NEW G, IsFiniteSet(G),
         \A x \in T : k[x] \in G, NEW h, DOMAIN h = G
  PROVE  /\ (\A g \in G : h[g] = Sum(b, PartOf(T, k, g))) => SumFunction(h) = Sum(b, T)
         /\ (\A g \in G : h[g] = Cardinality(PartOf(T, k, g))) => SumFunction(h) = Cardinality(T)
  <1>1. IsFiniteSet(T) /\ \A g : PartOf(T, k, g) \in SUBSET T
    BY RowsAreFinite, FS_Subset DEF PartOf
  <1>2. ASSUME \A g \in G : h[g] = Sum(b, PartOf(T, k, g)) PROVE SumFunction(h) = Sum(b, T)
    <2> PICK f : f = AmountsOf(b)
      OBVIOUS
    <2>1. \A g \in G : h[g] = Total(f, PartOf(T, k, g))
      <3>1. TAKE g \in G
      <3>2. PartOf(T, k, g) \in SUBSET Rows(b)
        BY <1>1
      <3> QED
        BY <1>2, <3>2, SumIsTotal
    <2>2. Summable(f, T) /\ Total(f, T) = Sum(b, T)
      BY SumIsTotal
    <2>3. Summable(h, G) /\ Total(h, G) = Total(f, T)
      BY <2>1, <2>2, TotalOfGroups
    <2> QED
      BY <2>2, <2>3, FunctionSum
  <1>3. ASSUME \A g \in G : h[g] = Cardinality(PartOf(T, k, g)) PROVE SumFunction(h) = Cardinality(T)
    <2> PICK f : f = [i \in T |-> 1]
      OBVIOUS
    <2>1. \A g \in G : h[g] = Total(f, PartOf(T, k, g))
      <3>1. TAKE g \in G
      <3> PICK P : P = PartOf(T, k, g)
        OBVIOUS
      <3>2. IsFiniteSet(P) /\ \A i \in P : f[i] = 1
        BY <1>1, FS_Subset
      <3>3. Total(f, P) = Cardinality(P)
        BY <3>2, TotalOfOnes
      <3> QED
        BY <1>3, <3>3
    <2>2. Summable(f, T) /\ Total(f, T) = Cardinality(T)
      BY <1>1, TotalOfOnes
    <2>3. Summable(h, G) /\ Total(h, G) = Total(f, T)
      BY <2>1, <2>2, TotalOfGroups
    <2> QED
      BY <2>2, <2>3, FunctionSum
  <1> QED
    BY <1>2, <1>3

Open(ends, t, i) == i = Len(ends) \/ t <= ends[i]
FirstOpen(ends, t) ==
  CHOOSE i \in DOMAIN ends : Open(ends, t, i) /\ \A j \in 1..(i - 1) : ~Open(ends, t, j)
IntervalsOf(b, rows, ends) == [r \in rows |-> FirstOpen(ends, b.txns[r].timestamp)]

LEMMA FirstOpenIs ==
  ASSUME NEW ends, NEW m \in Nat, m # 0, DOMAIN ends = 1..m, Len(ends) = m, NEW t
  PROVE  FirstOpen(ends, t) \in 1..m
  <1>1. PICK S : S = {i \in 1..m : Open(ends, t, i)}
    OBVIOUS
  <1>2. S \in SUBSET Nat /\ m \in S
    BY <1>1 DEF Open
  <1>3. PICK i \in S : \A j \in S : i <= j
    BY <1>2, NatMinimum
  <1>4. i \in 1..m /\ Open(ends, t, i) /\ \A j \in 1..(i - 1) : ~Open(ends, t, j)
    BY <1>1, <1>2, <1>3
  <1>5. \E j \in DOMAIN ends : Open(ends, t, j) /\ \A k \in 1..(j - 1) : ~Open(ends, t, k)
    BY <1>4
  <1> QED
    BY <1>5 DEF FirstOpen

SumsOf(b, rows, k, m) == [i \in 1..m |-> TotalsOf(b, PartOf(rows, k, i))]

LEMMA IntervalTotals ==
  ASSUME NEW b, NEW from, NEW to, NEW ends, NEW m, DOMAIN ends = 1..m
  PROVE  getStatisticsIntervalTotals(b, from, to, ends)
             = SumsOf(b, statisticsScope(b, from, to),
                      IntervalsOf(b, statisticsScope(b, from, to), ends), m)
  BY DEF getStatisticsIntervalTotals, SumsOf, IntervalsOf, FirstOpen, Open, PartOf

LEMMA TrendAddsUp ==
  ASSUME NEW b \in Book, NEW rows \in SUBSET Rows(b), NEW k, NEW m \in Nat,
         \A r \in rows : k[r] \in 1..m, NEW sums, sums = SumsOf(b, rows, k, m)
  PROVE  LET totals == TotalsOf(b, rows) IN
         /\ addTotals(sums, "income", "incomeCount")
                = [amount |-> totals.income, count |-> totals.incomeCount]
         /\ addTotals(sums, "expense", "expenseCount")
                = [amount |-> totals.expense, count |-> totals.expenseCount]
  <1>1. ASSUME NEW type \in {"income", "expense"}
        PROVE  /\ SumFunction([i \in 1..m |-> Sum(b, OfType(b, PartOf(rows, k, i), type))])
                      = Sum(b, OfType(b, rows, type))
               /\ SumFunction([i \in 1..m |-> Cardinality(OfType(b, PartOf(rows, k, i), type))])
                      = Cardinality(OfType(b, rows, type))
    <2> PICK T : T = OfType(b, rows, type)
      OBVIOUS
    <2>1. T \in SUBSET Rows(b) /\ IsFiniteSet(1..m) /\ \A x \in T : k[x] \in 1..m
      BY UpTo DEF OfType
    <2>2. \A i : OfType(b, PartOf(rows, k, i), type) = PartOf(T, k, i)
      BY DEF OfType, PartOf
    <2> PICK h, c : /\ h = [i \in 1..m |-> Sum(b, OfType(b, PartOf(rows, k, i), type))]
                    /\ c = [i \in 1..m |-> Cardinality(OfType(b, PartOf(rows, k, i), type))]
      OBVIOUS
    <2>3. /\ DOMAIN h = 1..m /\ \A i \in 1..m : h[i] = Sum(b, PartOf(T, k, i))
          /\ DOMAIN c = 1..m /\ \A i \in 1..m : c[i] = Cardinality(PartOf(T, k, i))
      BY <2>2
    <2>4. SumFunction(h) = Sum(b, T) /\ SumFunction(c) = Cardinality(T)
      BY <2>1, <2>3, PartsAddUp
    <2> QED
      BY <2>4
  <1>2. /\ DOMAIN sums = 1..m
        /\ \A i \in 1..m : sums[i] = TotalsOf(b, PartOf(rows, k, i))
    BY DEF SumsOf
  <1>3. ASSUME NEW i \in 1..m
        PROVE  LET part == PartOf(rows, k, i) IN
               /\ sums[i]["income"] = Sum(b, OfType(b, part, "income"))
               /\ sums[i]["incomeCount"] = Cardinality(OfType(b, part, "income"))
               /\ sums[i]["expense"] = Sum(b, OfType(b, part, "expense"))
               /\ sums[i]["expenseCount"] = Cardinality(OfType(b, part, "expense"))
    BY <1>2, <1>3 DEF TotalsOf
  <1> PICK hi, ci, he, ce :
          /\ hi = [i \in 1..m |-> Sum(b, OfType(b, PartOf(rows, k, i), "income"))]
          /\ ci = [i \in 1..m |-> Cardinality(OfType(b, PartOf(rows, k, i), "income"))]
          /\ he = [i \in 1..m |-> Sum(b, OfType(b, PartOf(rows, k, i), "expense"))]
          /\ ce = [i \in 1..m |-> Cardinality(OfType(b, PartOf(rows, k, i), "expense"))]
    OBVIOUS
  <1>4. /\ hi = [i \in DOMAIN sums |-> sums[i]["income"]]
        /\ ci = [i \in DOMAIN sums |-> sums[i]["incomeCount"]]
        /\ he = [i \in DOMAIN sums |-> sums[i]["expense"]]
        /\ ce = [i \in DOMAIN sums |-> sums[i]["expenseCount"]]
    BY <1>2, <1>3
  <1>5. /\ SumFunction(hi) = Sum(b, OfType(b, rows, "income"))
        /\ SumFunction(ci) = Cardinality(OfType(b, rows, "income"))
        /\ SumFunction(he) = Sum(b, OfType(b, rows, "expense"))
        /\ SumFunction(ce) = Cardinality(OfType(b, rows, "expense"))
    BY <1>1
  <1> QED
    BY <1>4, <1>5 DEF addTotals, TotalsOf

LEMMA FilteredLength ==
  ASSUME NEW s, NEW k \in Nat, DOMAIN s = 1..k, NEW S
  PROVE  \E m \in Nat : /\ DOMAIN Filtered(s, S) = 1..m
                        /\ (\E n \in 1..k : s[n] \in S) => m # 0
  <1> PICK P : P = {n \in DOMAIN s : s[n] \in S}
    OBVIOUS
  <1>1. P \in SUBSET (1..k) /\ IsFiniteSet(P)
    BY FS_Subset, FS_Interval
  <1> PICK m : m = Cardinality(P)
    OBVIOUS
  <1>2. m \in Nat /\ (m = 0 <=> P = {})
    BY <1>1, FS_CardinalityType, FS_EmptySet
  <1>3. (\E n \in 1..k : s[n] \in S) => m # 0
    BY <1>2
  <1>4. DOMAIN Sorted(P, LAMBDA i, j : i < j) = 1..m
    BY DEF Sorted
  <1>5. DOMAIN Filtered(s, S) = 1..m
    BY <1>4 DEF Filtered
  <1> QED
    BY <1>2, <1>3, <1>5

LEMMA TotalsOfNone ==
  ASSUME NEW b \in Book, NEW c \in Book
  PROVE  TotalsOf(b, {}) = TotalsOf(c, {})
  <1>1. ASSUME NEW d \in Book PROVE Sum(d, {}) = 0
    <2>1. {} \in SUBSET Rows(d)
      OBVIOUS
    <2> QED
      BY <2>1, SumIsTotal, EmptyTotal
  <1>2. \A d, type : OfType(d, {}, type) = {}
    BY DEF OfType
  <1> QED
    BY <1>1, <1>2 DEF TotalsOf

\* What of a trend its blocks are compared by.
MoneyCountOf(amount, count) == [amount |-> amount, count |-> count]

TrendTotals(totals, sums) ==
  /\ addTotals(sums, "income", "incomeCount") = MoneyCountOf(totals.income, totals.incomeCount)
  /\ addTotals(sums, "expense", "expenseCount") = MoneyCountOf(totals.expense, totals.expenseCount)

StartedOf(intervals) == Filtered(intervals, {i \in Range(intervals) : i.state # "future"})
EndsOf(intervals) == [i \in DOMAIN StartedOf(intervals) |-> StartedOf(intervals)[i].to]

LEMMA TrendRead ==
  ASSUME NEW b \in Book, NEW p, IsPeriod(p), NEW intervals, IsSplit(p, intervals), NEW sums,
         sums = IF p.actual_to = Unset THEN <<>>
                ELSE getStatisticsIntervalTotals(b, p.from, p.actual_to, EndsOf(intervals))
  PROVE  TrendTotals(TotalsOf(b, PeriodRows(b, p)), sums)
  <1> PICK rows : rows = PeriodRows(b, p)
    OBVIOUS
  <1>1. rows \in SUBSET Rows(b)
    BY ScopeIsRegular
  <1>2. ASSUME NEW k, NEW m \in Nat, \A r \in rows : k[r] \in 1..m, sums = SumsOf(b, rows, k, m)
        PROVE  TrendTotals(TotalsOf(b, rows), sums)
    BY <1>1, <1>2, TrendAddsUp DEF TrendTotals, MoneyCountOf
  <1>3. CASE p.actual_to = Unset
    <2> PICK k : k = <<>>
      OBVIOUS
    <2>1. rows = {} /\ sums = <<>>
      BY <1>3 DEF PeriodRows
    <2>2. sums = SumsOf(b, rows, k, 0)
      BY <2>1 DEF SumsOf
    <2> QED
      BY <1>2, <2>1, <2>2
  <1>4. CASE p.actual_to # Unset
    <2>1. PICK count \in Nat : /\ DOMAIN intervals = 1..count
                               /\ \E i \in 1..count : intervals[i].state # "future"
      BY <1>4 DEF IsPeriod, IsSplit
    <2>s. PICK S, started, ends : /\ S = {i \in Range(intervals) : i.state # "future"}
                                  /\ started = Filtered(intervals, S) /\ ends = EndsOf(intervals)
      OBVIOUS
    <2>2. \E i \in 1..count : intervals[i] \in S
      BY <2>s, <2>1 DEF Range
    <2>3. PICK m \in Nat : m # 0 /\ DOMAIN started = 1..m
      <3>1. DOMAIN intervals = 1..count
        BY <2>1
      <3>2. \E m \in Nat : /\ DOMAIN Filtered(intervals, S) = 1..m
                           /\ (\E n \in 1..count : intervals[n] \in S) => m # 0
        BY <3>1, FilteredLength
      <3> QED
        BY <2>s, <2>2, <3>2
    <2>4. ends = [i \in 1..m |-> started[i].to]
      BY <2>s, <2>3 DEF EndsOf, StartedOf
    <2>5. DOMAIN ends = 1..m /\ Len(ends) = m
      <3> PICK V : V = {started[i].to : i \in 1..m}
        OBVIOUS
      <3>1. ends \in [1..m -> V]
        BY <2>4
      <3> QED
        BY <3>1, SeqOfFunction
    <2> PICK k : k = IntervalsOf(b, rows, ends)
      OBVIOUS
    <2>6. \A r \in rows : k[r] \in 1..m
      BY <2>3, <2>5, FirstOpenIs DEF IntervalsOf
    <2>7. rows = statisticsScope(b, p.from, p.actual_to)
      BY <1>4 DEF PeriodRows
    <2>8. sums = SumsOf(b, rows, k, m)
      BY <2>s, <1>4, <2>5, <2>7, IntervalTotals
    <2> QED
      BY <1>2, <2>6, <2>8
  <1> QED
    BY <1>3, <1>4

-----------------------------------------------------------------------------
(* The blocks of a cycle: each is of the book at its own moment.           *)

BlockOK(kind, block, b) ==
  /\ kind = "summary" => block.figures = figuresOf(TotalsOf(b, PeriodRows(b, block.period)))
  /\ kind = "trend" =>
         LET totals == TotalsOf(b, PeriodRows(b, block.period)) IN
         /\ block.totals.income = MoneyCountOf(totals.income, totals.incomeCount)
         /\ block.totals.expense = MoneyCountOf(totals.expense, totals.expenseCount)
  /\ kind = "breakdown" => IsPeriod(block.period) /\ block.type \in Types /\ BreakdownOK(b, block)

\* hist[n]: the book after n writes.
CycleOK(c, hist, n) ==
  /\ DOMAIN c.block = Blocks
  /\ \A k \in Blocks : c.block[k] # None =>
         /\ c.block[k].at \in 0..n
         /\ BlockOK(k, c.block[k], hist[c.block[k].at])

\* A block in progress has read its snapshot only.
BlockReadOK(r) ==
  /\ r.ask.query \in StatQueries
  /\ r.kind = "breakdown" => r.ask.type \in Types
  /\ r.step # "open" => IsPeriod(r.got.period)
  /\ r.kind = "summary" /\ r.step # "open" =>
         DOMAIN r.got = {"period", "previous", "totals", "previousTotals"}
  /\ r.kind = "summary" /\ r.step \in {"totals", "previous"} => r.got.period.actual_to # Unset
  /\ r.kind = "summary" /\ r.step \in {"previous", "last"} =>
         \A b \in Book : (r.snapshot # None => b = r.snapshot) =>
             r.got.totals = TotalsOf(b, PeriodRows(b, r.got.period))
  /\ r.kind = "trend" /\ r.step = "sums" => IsSplit(r.got.period, r.got.intervals)
  /\ r.kind = "breakdown" /\ r.step = "wallets" =>
         /\ r.snapshot # None /\ r.got.period.actual_to # Unset
         /\ r.got.categories = getStatisticsByCategory(r.snapshot, r.ask.type,
                                                       r.got.period.from, r.got.period.actual_to)

SnapshotOK(r, hist, n) == r.snapshot # None => r.at \in 0..n /\ r.snapshot = hist[r.at]

StatWith(hist) ==
  /\ hist \in [0..writes -> Book] /\ hist[writes] = book
  /\ request.kind \in Blocks => SnapshotOK(request, hist, writes) /\ BlockReadOK(request)
  /\ cycle # None \/ request.kind \in Blocks => CycleOK(cycle, hist, writes)

StatInv ==
  /\ book \in Book /\ writes \in Nat /\ clock \in Nows
  /\ \E hist : StatWith(hist)

-----------------------------------------------------------------------------
(* What the steps leave alone.                                             *)

LEMMA StatAside ==
  ASSUME StatInv, book' = book, writes' = writes, clock' = clock, request'.kind \notin Blocks,
         cycle' = None \/ (cycle' = cycle /\ request.kind \notin Blocks)
  PROVE  StatInv'
  <1>1. PICK hist : StatWith(hist)
    BY DEF StatInv
  <1>2. StatWith(hist)'
    BY <1>1 DEF StatWith
  <1> QED
    BY <1>2 DEF StatInv

LEMMA StatTicked ==
  ASSUME StatInv, UNCHANGED <<book, writes, request, cycle>>, clock' \in Nows
  PROVE  StatInv'
  <1>1. PICK hist : StatWith(hist)
    BY DEF StatInv
  <1>2. StatWith(hist)'
    BY <1>1 DEF StatWith
  <1> QED
    BY <1>2 DEF StatInv

\* A write adds a moment and leaves the others as they were.
LEMMA StatWritten ==
  ASSUME StatInv, book' \in Book, writes' = writes + 1, UNCHANGED <<clock, request, cycle>>
  PROVE  StatInv'
  <1>1. PICK hist : StatWith(hist)
    BY DEF StatInv
  <1> PICK n : n = writes
    OBVIOUS
  <1>2. n \in Nat /\ writes' = n + 1 /\ hist \in [0..n -> Book] /\ hist[n] = book
    BY <1>1 DEF StatInv, StatWith
  <1> PICK after : after = book'
    OBVIOUS
  <1> PICK more : more = [i \in 0..(n + 1) |-> IF i \in 0..n THEN hist[i] ELSE after]
    OBVIOUS
  <1>3. /\ more \in [0..(n + 1) -> Book] /\ more[n + 1] = after
        /\ \A i \in 0..n : i \in 0..(n + 1) /\ more[i] = hist[i]
    BY <1>2
  <1>4. \A r : SnapshotOK(r, hist, n) => SnapshotOK(r, more, n + 1)
    BY <1>3 DEF SnapshotOK
  <1>5. \A c : CycleOK(c, hist, n) => CycleOK(c, more, n + 1)
    BY <1>3 DEF CycleOK
  <1>6. StatWith(more)'
    BY <1>1, <1>2, <1>3, <1>4, <1>5 DEF StatWith
  <1> QED
    BY <1>2, <1>6 DEF StatInv

\* A request for a block begins without a snapshot.
LEMMA StatBegins ==
  ASSUME StatInv, StatisticsRequests
  PROVE  StatInv'
  <1>1. PICK hist : StatWith(hist)
    BY DEF StatInv
  <1>2. PICK block, q, type : /\ block \in Blocks /\ q \in StatQueries
                              /\ AskBlock(block, q, type)
                              /\ block = "breakdown" => type \in Types
    BY DEF StatisticsRequests, Blocks
  <1>3. /\ book' = book /\ writes' = writes /\ clock' = clock
        /\ cycle' = NewCycle(q) \/ (cycle # None /\ cycle' = cycle)
    BY <1>2 DEF AskBlock
  <1> PICK ask : ask = [query |-> q, type |-> type]
    OBVIOUS
  <1>4. /\ request'.kind = block /\ request'.step = "open" /\ request'.ask = ask
        /\ request'.snapshot = None
    BY <1>2 DEF AskBlock, Request, InProgress
  <1>5. BlockReadOK(request') /\ SnapshotOK(request', hist, writes)
    BY <1>2, <1>4 DEF BlockReadOK, SnapshotOK
  <1>6. CycleOK(NewCycle(q), hist, writes)
    BY DEF CycleOK, NewCycle
  <1>7. CycleOK(cycle', hist, writes')
    BY <1>1, <1>3, <1>6 DEF StatWith
  <1>8. StatWith(hist)'
    BY <1>1, <1>3, <1>5, <1>7 DEF StatWith
  <1> QED
    BY <1>3, <1>8 DEF StatInv

-----------------------------------------------------------------------------
(* The steps of a block.                                                   *)

\* Another step of the block in progress, with or without a read.
LEMMA StatGoesOn ==
  ASSUME StatInv, request.kind \in Blocks, UNCHANGED <<book, writes, clock, cycle>>,
         NEW r, r.kind = request.kind, request' = r, BlockReadOK(r),
         \/ r.snapshot = request.snapshot /\ r.at = request.at
         \/ r.snapshot = Seen /\ r.at = SeenAt
  PROVE  StatInv'
  <1>1. PICK hist : StatWith(hist)
    BY DEF StatInv
  <1>2. SnapshotOK(r, hist, writes)
    <2>1. /\ SnapshotOK(request, hist, writes) /\ writes \in 0..writes /\ book = hist[writes]
      BY <1>1 DEF StatWith, StatInv
    <2> QED
      BY <2>1 DEF SnapshotOK, Seen, SeenAt
  <1>3. StatWith(hist)'
    BY <1>1, <1>2 DEF StatWith
  <1> QED
    BY <1>3 DEF StatInv

\* What a statement sees is the book at its moment.
LEMMA StatSees ==
  ASSUME StatInv, request.kind \in Blocks, NEW hist, StatWith(hist)
  PROVE  /\ SeenAt \in 0..writes /\ Seen = hist[SeenAt] /\ Seen \in Book /\ Seen # None
         /\ request.snapshot # None => Seen = request.snapshot
         /\ BlockReadOK(request)
  <1>1. SnapshotOK(request, hist, writes) /\ hist \in [0..writes -> Book] /\ writes \in Nat
    BY DEF StatWith, StatInv
  <1>2. SeenAt \in 0..writes /\ Seen = hist[SeenAt]
    BY <1>1 DEF SnapshotOK, Seen, SeenAt, StatWith
  <1>3. Seen \in Book
    BY <1>1, <1>2
  <1> QED
    BY <1>2, <1>3, NoneAssumption DEF Seen, StatWith

LEMMA StatResponds ==
  ASSUME StatInv, request.kind \in Blocks, NEW content, RespondBlock(content),
         content.at = SeenAt, BlockOK(request.kind, content, Seen)
  PROVE  StatInv'
  <1>1. PICK hist : StatWith(hist)
    BY DEF StatInv
  <1> PICK kind, at, b, c, n : /\ kind = request.kind /\ at = SeenAt /\ b = Seen /\ c = cycle
                               /\ n = writes
    OBVIOUS
  <1>2. at \in 0..n /\ b = hist[at]
    BY <1>1, StatSees
  <1>3. CycleOK(c, hist, n)
    BY <1>1 DEF StatWith
  <1> PICK d : d = [query |-> c.query, block |-> [c.block EXCEPT ![kind] = content]]
    OBVIOUS
  <1>4. /\ DOMAIN d.block = Blocks
        /\ \A k \in Blocks : d.block[k] = IF k = kind THEN content ELSE c.block[k]
    BY <1>3 DEF CycleOK
  <1>5. CycleOK(d, hist, n)
    BY <1>2, <1>3, <1>4 DEF CycleOK
  <1>6. /\ request' = Idle /\ book' = book /\ writes' = writes /\ clock' = clock
        /\ cycle' = d
    BY DEF RespondBlock, Respond
  <1>7. StatWith(hist)'
    BY <1>1, <1>5, <1>6 DEF StatWith, Idle, Blocks
  <1> QED
    BY <1>6, <1>7 DEF StatInv

LEMMA BlockIsOpened ==
  ASSUME StatInv, OpenBlock
  PROVE  StatInv'
  <1>1. PICK hist : StatWith(hist)
    BY DEF StatInv
  <1>2. /\ request.kind \in Blocks /\ UNCHANGED <<book, writes, clock, cycle>>
        /\ periodErrors(request.ask.query, clock) = {}
    BY DEF OpenBlock
  <1> PICK kind, ask, b, q, p : /\ kind = request.kind /\ ask = request.ask /\ b = book
                                /\ q = ask.query /\ p = resolveStatisticsPeriod(q, clock)
    OBVIOUS
  <1>3. BlockReadOK(request) /\ q \in StatQueries /\ (kind = "breakdown" => ask.type \in Types)
    BY <1>1, <1>2, StatSees DEF BlockReadOK
  <1>4. IsPeriod(p) /\ IsSplit(p, resolveTrendIntervals(p, trendGranularity(p), clock))
    BY <1>2, <1>3, PeriodResolved, TrendIsSplit DEF StatInv
  <1>5. PICK got : /\ request' = InProgress(kind, FirstRead(kind, p), ask,
                                            request.snapshot, request.at, got)
                   /\ got = CASE kind = "summary" ->
                                   [period |-> p,
                                    previous |-> resolvePreviousPeriod(p, clock),
                                    totals |-> TotalsOf(book, {}),
                                    previousTotals |-> Unset]
                              [] kind = "trend" ->
                                   [period |-> p,
                                    intervals |-> resolveTrendIntervals(
                                        p, trendGranularity(p), clock)]
                              [] OTHER -> [period |-> p]
    BY DEF OpenBlock
  <1>6. /\ got.period = p
        /\ kind = "summary" =>
               /\ got.totals = TotalsOf(b, {})
               /\ DOMAIN got = {"period", "previous", "totals", "previousTotals"}
        /\ kind = "trend" =>
               got.intervals = resolveTrendIntervals(p, trendGranularity(p), clock)
    BY <1>5
  <1> PICK step : step = FirstRead(kind, p)
    OBVIOUS
  <1>7. /\ kind = "summary" /\ p.actual_to = Unset => step = "last"
        /\ kind = "summary" /\ p.actual_to # Unset => step = "totals"
        /\ kind = "trend" => step = "sums"
        /\ kind = "breakdown" => step = "groups"
    BY <1>4 DEF FirstRead, IsPeriod
  <1>8. p.actual_to = Unset => \A c \in Book : TotalsOf(b, {}) = TotalsOf(c, PeriodRows(c, p))
    BY TotalsOfNone DEF PeriodRows, StatInv
  <1> PICK r : r = InProgress(kind, step, ask, request.snapshot, request.at, got)
    OBVIOUS
  <1>9. /\ r.kind = kind /\ r.step = step /\ r.ask = ask /\ r.snapshot = request.snapshot
        /\ r.at = request.at /\ r.got = got
    BY DEF InProgress
  <1>10. BlockReadOK(r)
    <2>1. kind \in {"summary", "trend", "breakdown"}
      BY <1>2 DEF Blocks
    <2>2. CASE kind = "summary"
      BY <1>3, <1>4, <1>6, <1>7, <1>8, <1>9, <2>2 DEF BlockReadOK
    <2>3. CASE kind = "trend"
      BY <1>3, <1>4, <1>6, <1>7, <1>9, <2>3 DEF BlockReadOK
    <2>4. CASE kind = "breakdown"
      BY <1>3, <1>4, <1>6, <1>7, <1>9, <2>4 DEF BlockReadOK
    <2> QED
      BY <2>1, <2>2, <2>3, <2>4
  <1> QED
    BY <1>2, <1>5, <1>9, <1>10, StatGoesOn

LEMMA BlockSummaryIsRead ==
  ASSUME StatInv, ReadTotals \/ ReadPrevious
  PROVE  StatInv'
  <1>1. PICK hist : StatWith(hist)
    BY DEF StatInv
  <1>2. request.kind = "summary" /\ request.kind \in Blocks /\ UNCHANGED cycle
    BY DEF ReadTotals, ReadPrevious, InStep, Blocks
  <1> PICK b, old, got, p, steps :
          /\ b = Seen /\ old = request /\ got = request.got /\ p = request.got.period
          /\ steps = {"totals", "previous"}
    OBVIOUS
  <1>3. b \in Book /\ b # None /\ BlockReadOK(old) /\ (old.snapshot # None => b = old.snapshot)
    BY <1>1, <1>2, StatSees
  <1>4. old.step \in steps
    BY DEF ReadTotals, ReadPrevious, InStep
  <1>5. /\ old.ask.query \in StatQueries /\ IsPeriod(p) /\ p.actual_to # Unset
        /\ DOMAIN got = {"period", "previous", "totals", "previousTotals"}
        /\ old.step = "previous" => got.totals = TotalsOf(b, PeriodRows(b, p))
    BY <1>2, <1>3, <1>4 DEF BlockReadOK
  <1>6. ASSUME NEW step \in {"previous", "last"}, NEW new, ReadAndGo(step, new), new.period = p,
               DOMAIN new = DOMAIN got, new.totals = TotalsOf(b, PeriodRows(b, p))
        PROVE  StatInv'
    <2> PICK r : r = InProgress(request.kind, step, request.ask, b, SeenAt, new)
      OBVIOUS
    <2>1. /\ r.kind = "summary" /\ r.step = step /\ r.ask = old.ask /\ r.snapshot = b
          /\ r.at = SeenAt /\ r.got = new
      BY <1>2 DEF InProgress
    <2>2. request' = r /\ UNCHANGED <<book, writes, clock>>
      BY <1>6 DEF ReadAndGo
    <2>3. BlockReadOK(r)
      BY <1>3, <1>5, <1>6, <2>1 DEF BlockReadOK
    <2> QED
      BY <1>2, <2>1, <2>2, <2>3, StatGoesOn
  <1>7. CASE ReadTotals
    <2> PICK totals : totals = TotalsOf(b, PeriodRows(b, p))
      OBVIOUS
    <2>1. getStatisticsTotals(b, p.from, p.actual_to) = totals
      BY <1>5 DEF getStatisticsTotals, PeriodRows
    <2>2. PICK step \in {"previous", "last"} : ReadAndGo(step, [got EXCEPT !.totals = totals])
      BY <1>7, <2>1 DEF ReadTotals
    <2> PICK new : new = [got EXCEPT !.totals = totals]
      OBVIOUS
    <2>3. new.period = p /\ DOMAIN new = DOMAIN got /\ new.totals = totals
      BY <1>5
    <2> QED
      BY <1>6, <2>2, <2>3
  <1>8. CASE ReadPrevious
    <2>1. old.step = "previous"
      BY <1>8 DEF ReadPrevious, InStep
    <2>2. PICK was : ReadAndGo("last", [got EXCEPT !.previousTotals = was])
      BY <1>8 DEF ReadPrevious
    <2> PICK new : new = [got EXCEPT !.previousTotals = was]
      OBVIOUS
    <2>3. new.period = p /\ DOMAIN new = DOMAIN got /\ new.totals = got.totals
      BY <1>5
    <2> QED
      BY <1>5, <1>6, <2>1, <2>2, <2>3
  <1> QED
    BY <1>7, <1>8

LEMMA SummaryIsShown ==
  ASSUME StatInv, ReadLast
  PROVE  StatInv'
  <1>1. PICK hist : StatWith(hist)
    BY DEF StatInv
  <1>2. request.kind = "summary" /\ request.step = "last" /\ request.kind \in Blocks
    BY DEF ReadLast, InStep, Blocks
  <1>3. /\ Seen \in Book /\ BlockReadOK(request)
        /\ request.snapshot # None => Seen = request.snapshot
    BY <1>1, <1>2, StatSees
  <1> PICK got, figures : got = request.got /\ figures = figuresOf(request.got.totals)
    OBVIOUS
  <1>4. got.totals = TotalsOf(Seen, PeriodRows(Seen, got.period))
    BY <1>2, <1>3 DEF BlockReadOK
  <1>p. PICK p, was, last : /\ p = got.period /\ was = got.previousTotals
                            /\ last = getLastStatisticsTimestamp(Seen, p.as_of)
    OBVIOUS
  <1>q. PICK previousFigures, change, has_any, lastDate :
          /\ previousFigures = (IF was = Unset THEN None ELSE figuresOf(was))
          /\ change = (IF was = Unset THEN None
                       ELSE [income |-> changeOf(got.totals.income, was.income),
                             expense |-> changeOf(got.totals.expense, was.expense),
                             net |-> changeOf(got.totals.income - got.totals.expense,
                                              was.income - was.expense)])
          /\ has_any = (last # None)
          /\ lastDate = (IF last = None THEN None ELSE calendarDateAt(last, p.time_zone))
    OBVIOUS
  <1>5. RespondBlock([at |-> SeenAt, period |-> got.period, previous |-> got.previous,
                      figures |-> figures, previousFigures |-> previousFigures,
                      change |-> change, has_any |-> has_any, lastDate |-> lastDate])
    BY <1>p, <1>q, Zenon DEF ReadLast
  <1> PICK content :
          content = [at |-> SeenAt, period |-> got.period, previous |-> got.previous,
                     figures |-> figures, previousFigures |-> previousFigures,
                     change |-> change, has_any |-> has_any, lastDate |-> lastDate]
    OBVIOUS
  <1>6. content.at = SeenAt /\ content.period = got.period /\ content.figures = figures
    OBVIOUS
  <1>7. BlockOK(request.kind, content, Seen)
    BY <1>2, <1>4, <1>6 DEF BlockOK
  <1> QED
    BY <1>2, <1>5, <1>6, <1>7, StatResponds

LEMMA TrendIsShown ==
  ASSUME StatInv, ReadTrend
  PROVE  StatInv'
  <1>1. PICK hist : StatWith(hist)
    BY DEF StatInv
  <1>2. request.kind = "trend" /\ request.step = "sums" /\ request.kind \in Blocks
    BY DEF ReadTrend, InStep, Blocks
  <1>3. Seen \in Book /\ BlockReadOK(request)
    BY <1>1, <1>2, StatSees
  <1> PICK p, intervals, b : p = request.got.period /\ intervals = request.got.intervals /\ b = Seen
    OBVIOUS
  <1>4. IsPeriod(p) /\ IsSplit(p, intervals) /\ b \in Book
    BY <1>2, <1>3 DEF BlockReadOK
  <1> PICK sums : sums = IF p.actual_to = Unset THEN <<>>
                         ELSE getStatisticsIntervalTotals(b, p.from, p.actual_to, EndsOf(intervals))
    OBVIOUS
  <1>5. PICK granularity, buckets :
            RespondBlock([at |-> SeenAt, period |-> p, granularity |-> granularity,
                          totals |-> [income |-> addTotals(sums, "income", "incomeCount"),
                                      expense |-> addTotals(sums, "expense", "expenseCount")],
                          buckets |-> buckets])
    BY DEF ReadTrend, EndsOf, StartedOf
  <1>6. TrendTotals(TotalsOf(b, PeriodRows(b, p)), sums)
    BY <1>4, TrendRead
  <1> PICK income, expense : /\ income = addTotals(sums, "income", "incomeCount")
                             /\ expense = addTotals(sums, "expense", "expenseCount")
    OBVIOUS
  <1> PICK content :
          content = [at |-> SeenAt, period |-> p, granularity |-> granularity,
                     totals |-> [income |-> income, expense |-> expense], buckets |-> buckets]
    OBVIOUS
  <1>7. /\ content.at = SeenAt /\ content.period = p /\ content.totals.income = income
        /\ content.totals.expense = expense
    OBVIOUS
  <1>8. BlockOK(request.kind, content, b)
    BY <1>2, <1>6, <1>7 DEF BlockOK, TrendTotals
  <1> QED
    BY <1>2, <1>5, <1>7, <1>8, StatResponds

LEMMA BreakdownIsShown ==
  ASSUME StatInv, request.kind = "breakdown", request.step # "open",
         NEW cats, NEW wallets, RespondBreakdown(cats, wallets),
         BlockGroups(cats, wallets, Seen,
                     OfType(Seen, PeriodRows(Seen, request.got.period), request.ask.type))
  PROVE  StatInv'
  <1>1. PICK hist : StatWith(hist)
    BY DEF StatInv
  <1>2. request.kind \in Blocks
    BY DEF Blocks
  <1>3. Seen \in Book /\ IsPeriod(request.got.period) /\ request.ask.type \in Types
    BY <1>1, <1>2, StatSees DEF BlockReadOK
  <1> PICK content :
          content = [at |-> SeenAt, period |-> request.got.period, type |-> request.ask.type,
                     total |-> [amount |-> sumOf(cats),
                                count |-> SumFunction([g \in cats |-> g.count])],
                     by_category |-> buildCategoryBreakdown(cats),
                     by_wallet |-> buildWalletBreakdown(wallets)]
    OBVIOUS
  <1>4. RespondBlock(content)
    BY DEF RespondBreakdown
  <1>5. /\ content.at = SeenAt /\ content.period = request.got.period
        /\ content.type = request.ask.type
        /\ content.total = [amount |-> sumOf(cats),
                            count |-> SumFunction([g \in cats |-> g.count])]
        /\ content.by_category = buildCategoryBreakdown(cats)
        /\ content.by_wallet = buildWalletBreakdown(wallets)
    OBVIOUS
  <1>6. BreakdownOK(Seen, content)
    BY <1>3, <1>5, BreakdownBuilt
  <1>7. BlockOK(request.kind, content, Seen)
    BY <1>3, <1>5, <1>6 DEF BlockOK
  <1> QED
    BY <1>2, <1>4, <1>5, <1>7, StatResponds

LEMMA BreakdownIsRead ==
  ASSUME StatInv, ReadCategories \/ ReadWallets
  PROVE  StatInv'
  <1>1. PICK hist : StatWith(hist)
    BY DEF StatInv
  <1>2. request.kind = "breakdown" /\ request.step # "open" /\ request.kind \in Blocks
    BY DEF ReadCategories, ReadWallets, InStep, Blocks
  <1> PICK b, old, p, type : /\ b = Seen /\ old = request /\ p = request.got.period
                             /\ type = request.ask.type
    OBVIOUS
  <1>3. b \in Book /\ b # None /\ BlockReadOK(old) /\ (old.snapshot # None => b = old.snapshot)
    BY <1>1, <1>2, StatSees
  <1>4. old.ask.query \in StatQueries /\ type \in Types /\ IsPeriod(p)
    BY <1>2, <1>3 DEF BlockReadOK
  <1>5. ASSUME p.actual_to = Unset, RespondBreakdown({}, {}) PROVE StatInv'
    <2>1. BlockGroups({}, {}, b, OfType(b, PeriodRows(b, p), type))
      BY <1>5, NoGroups
    <2> QED
      BY <1>2, <1>5, <2>1, BreakdownIsShown
  <1> PICK cats, wallets :
          /\ cats = getStatisticsByCategory(b, type, p.from, p.actual_to)
          /\ wallets = getStatisticsByWallet(b, type, p.from, p.actual_to)
    OBVIOUS
  <1>6. ASSUME p.actual_to # Unset, UNCHANGED cycle,
               ReadAndGo("wallets", [period |-> p, categories |-> cats])
        PROVE  StatInv'
    <2> PICK got : got = [period |-> p, categories |-> cats]
      OBVIOUS
    <2> PICK r : r = InProgress(request.kind, "wallets", request.ask, b, SeenAt, got)
      OBVIOUS
    <2>1. /\ r.kind = "breakdown" /\ r.step = "wallets" /\ r.ask = old.ask /\ r.snapshot = b
          /\ r.at = SeenAt /\ r.got = got /\ got.period = p /\ got.categories = cats
      BY <1>2 DEF InProgress
    <2>2. request' = r /\ UNCHANGED <<book, writes, clock>>
      BY <1>6 DEF ReadAndGo
    <2>3. /\ r.ask.query \in StatQueries /\ r.ask.type \in Types /\ IsPeriod(r.got.period)
          /\ r.snapshot # None /\ r.got.period.actual_to # Unset
          /\ r.got.categories = getStatisticsByCategory(r.snapshot, r.ask.type,
                                    r.got.period.from, r.got.period.actual_to)
      <3>1. /\ r.snapshot = b /\ r.ask.query = old.ask.query /\ r.ask.type = type
            /\ r.got.period = p /\ r.got.categories = cats
        BY <2>1
      <3> QED
        BY <1>3, <1>4, <1>6, <3>1
    <2>4. BlockReadOK(r)
      <3>1. r.kind # "summary" /\ r.kind # "trend"
        BY <2>1
      <3> QED
        BY <2>3, <3>1, Zenon DEF BlockReadOK
    <2> QED
      BY <1>2, <1>6, <2>1, <2>2, <2>4, StatGoesOn
  <1>7. CASE ReadCategories
    BY <1>5, <1>6, <1>7 DEF ReadCategories
  <1>8. CASE ReadWallets
    <2>1. old.step = "wallets" /\ RespondBreakdown(request.got.categories, wallets)
      BY <1>8 DEF ReadWallets, InStep
    <2>2. p.actual_to # Unset /\ request.got.categories = cats
      BY <1>2, <1>3, <2>1 DEF BlockReadOK
    <2>3. BlockGroups(cats, wallets, b, OfType(b, PeriodRows(b, p), type))
      BY <2>2, GroupsAreRead
    <2> QED
      BY <1>2, <2>1, <2>2, <2>3, BreakdownIsShown
  <1> QED
    BY <1>7, <1>8

-----------------------------------------------------------------------------
(* All the steps.                                                          *)

\* Every write is one.
LEMMA OneWrite ==
  ASSUME MemberWrites
  PROVE  \E after : Write(after)
  <1>1. \A i, d : AddTransaction(i, d) \/ EditTransaction(i, d) => \E after : Write(after)
    BY Zenon DEF AddTransaction, EditTransaction
  <1>2. \A i : RemoveTransaction(i) => \E after : Write(after)
    BY Zenon DEF RemoveTransaction
  <1>3. \A w : DeleteWallet(w) => \E after : Write(after)
    BY Zenon DEF DeleteWallet
  <1>4. \A k : ArchiveCategory(k) \/ RestoreCategory(k) => \E after : Write(after)
    BY Zenon DEF ArchiveCategory, RestoreCategory
  <1>5. \A id, name : RenameWallet(id, name) \/ RenameCategory(id, name) => \E after : Write(after)
    BY Zenon DEF RenameWallet, RenameCategory
  <1>6. \A order : Reorder(order) => \E after : Write(after)
    BY Zenon DEF Reorder
  <1>7. \A l, old : AddLimit(l) \/ UpdateLimit(old, l) \/ RemoveLimit(l) => \E after : Write(after)
    BY Zenon DEF AddLimit, UpdateLimit, RemoveLimit
  <1> QED
    BY <1>1, <1>2, <1>3, <1>4, <1>5, <1>6, <1>7, Zenon DEF MemberWrites

\* Every write is one more.
LEMMA WritesCounted ==
  ASSUME MemberWrites
  PROVE  writes' = writes + 1 /\ UNCHANGED <<clock, request, answer>>
  <1> PICK after : Write(after)
    BY OneWrite
  <1> QED
    BY DEF Write

\* The history and the overviews read without a block.
LEMMA OtherReads ==
  ASSUME FeedSteps \/ OverviewSteps
  PROVE  /\ request.kind \notin Blocks /\ UNCHANGED <<book, writes, clock>>
         /\ request'.kind \notin Blocks
  <1>1. request.kind \notin Blocks
    BY DEF FeedSteps, FeedRefused, FeedAccepted, ReadPage, ReadEdge, ReadTarget, ReadPosition,
           ReadNewer, ReadOlder, ReadSummary, RespondEmpty, ReadDays, CountChecked, ReadCount,
           ReadLatest, ReadTransaction, ReadOperation, ReadItsTransaction, OverviewSteps,
           ReadActiveWallets, ReadPeriodTotals, ReadBalances, ReadLimits, ReadSpending,
           ReadCategoryRows, ReadCounts, ReadLimitMembership, InStep, Blocks
  <1> DEFINE reads == \/ \E r : Respond(r)
                      \/ \E step, got : ReadAndGo(step, got)
                      \/ \E step : GoOn(step)
  <1>2. FeedRefused \/ FeedAccepted => reads
    BY Zenon DEF FeedRefused, FeedAccepted
  <1>3. ReadPage => reads
    BY Zenon DEF ReadPage, Read
  <1>4. ReadEdge \/ ReadNewer \/ ReadOlder \/ ReadSummary => reads
    BY Zenon DEF ReadEdge, ReadNewer, ReadOlder, ReadSummary, Read
  <1>5. ReadTarget \/ ReadPosition => reads
    BY Zenon DEF ReadTarget, ReadPosition, Read
  <1>6. RespondEmpty \/ ReadDays => reads
    BY Zenon DEF RespondEmpty, ReadDays, RespondPage
  <1>7. CountChecked \/ ReadCount \/ ReadLatest \/ ReadTransaction => reads
    BY Zenon DEF CountChecked, ReadCount, ReadLatest, ReadTransaction
  <1>8. ReadOperation \/ ReadItsTransaction => reads
    BY Zenon DEF ReadOperation, ReadItsTransaction
  <1>9. ReadActiveWallets \/ ReadPeriodTotals \/ ReadBalances => reads
    BY Zenon DEF ReadActiveWallets, ReadPeriodTotals, ReadBalances, Reads, Shows
  <1>10. ReadLimits \/ ReadSpending => reads
    BY Zenon DEF ReadLimits, ReadSpending, Reads, Shows
  <1>11. ReadCategoryRows \/ ReadCounts \/ ReadLimitMembership => reads
    BY Zenon DEF ReadCategoryRows, ReadCounts, ReadLimitMembership, Reads, Shows
  <1>12. reads
    BY <1>2, <1>3, <1>4, <1>5, <1>6, <1>7, <1>8, <1>9, <1>10, <1>11
       DEF FeedSteps, OverviewSteps
  <1>13. ASSUME NEW r, Respond(r)
         PROVE  UNCHANGED <<book, writes, clock>> /\ request'.kind \notin Blocks
    BY <1>13 DEF Respond, Idle, Blocks
  <1>14. ASSUME NEW step, NEW got, ReadAndGo(step, got)
         PROVE  UNCHANGED <<book, writes, clock>> /\ request'.kind \notin Blocks
    BY <1>1, <1>14 DEF ReadAndGo, InProgress
  <1>15. ASSUME NEW step, GoOn(step)
         PROVE  UNCHANGED <<book, writes, clock>> /\ request'.kind \notin Blocks
    BY <1>1, <1>15 DEF GoOn, InProgress
  <1> QED
    BY <1>1, <1>12, <1>13, <1>14, <1>15

LEMMA BlockRefused ==
  ASSUME StatInv, OpenRefused
  PROVE  StatInv'
  <1>1. PICK hist : StatWith(hist)
    BY DEF StatInv
  <1>2. /\ request.kind \in Blocks /\ request' = Idle
        /\ UNCHANGED <<book, writes, clock, cycle>>
    BY DEF OpenRefused, Respond
  <1>3. Idle.kind \notin Blocks
    BY DEF Idle, Blocks
  <1>4. StatWith(hist)'
    BY <1>1, <1>2, <1>3 DEF StatWith
  <1> QED
    BY <1>2, <1>4 DEF StatInv

LEMMA StatInit ==
  Init => StatInv
  <1>1. ASSUME Init PROVE StatInv
    <2>1. /\ book \in Books /\ writes = 0 /\ clock = Min(Nows) /\ request = Idle /\ cycle = None
      BY <1>1 DEF Init
    <2>2. clock \in Nows
      <3>1. \E n \in Nows : \A m \in Nows : n <= m
        BY ClockAssumption, NatMinimum
      <3> QED
        BY <2>1, <3>1 DEF Min
    <2>3. book \in Book
      BY <2>1, BookAssumption
    <2> PICK hist : hist = [n \in 0..0 |-> book]
      OBVIOUS
    <2>4. hist \in [0..0 -> Book] /\ hist[0] = book
      BY <2>3
    <2>5. request.kind \notin Blocks
      BY <2>1 DEF Idle, Blocks
    <2>6. StatWith(hist)
      BY <2>1, <2>4, <2>5 DEF StatWith
    <2> QED
      BY <2>1, <2>2, <2>3, <2>6 DEF StatInv
  <1> QED
    BY <1>1

LEMMA StatNext ==
  StatInv /\ [Next]_vars => StatInv'
  <1>1. SUFFICES ASSUME StatInv, [Next]_vars PROVE StatInv'
    OBVIOUS
  <1>2. CASE MemberWrites /\ UNCHANGED <<list, cycle>>
    BY <1>1, <1>2, WritesBook, WritesCounted, StatWritten DEF StatInv
  <1>3. ASSUME NEW now \in Nows, Tick(now), UNCHANGED <<list, cycle>> PROVE StatInv'
    BY <1>1, <1>3, StatTicked DEF Tick
  <1>4. CASE FeedRequests /\ cycle' = None
    <2>1. /\ book' = book /\ writes' = writes /\ clock' = clock /\ request'.kind \in HistoryKinds
      BY <1>4, FeedAsks
    <2> QED
      BY <1>1, <1>4, <2>1, StatAside DEF HistoryKinds, Blocks
  <1>5. CASE StatisticsRequests
    BY <1>1, <1>5, StatBegins
  <1>6. CASE OverviewRequests /\ cycle' = None
    <2>1. /\ book' = book /\ writes' = writes /\ clock' = clock
          /\ request'.kind \in {"wallets", "limits", "categories"}
      BY <1>6, OverviewAsks
    <2> QED
      BY <1>1, <1>6, <2>1, StatAside DEF Blocks
  <1>7. CASE (FeedSteps \/ OverviewSteps) /\ UNCHANGED cycle
    BY <1>1, <1>7, OtherReads, StatAside
  <1>8. CASE StatisticsSteps
    BY <1>1, <1>8, BlockRefused, BlockIsOpened, BlockSummaryIsRead, SummaryIsShown, TrendIsShown,
       BreakdownIsRead DEF StatisticsSteps
  <1>9. CASE UNCHANGED vars
    BY <1>1, <1>9, StatTicked DEF vars, history, StatInv
  <1> QED
    BY <1>1, <1>2, <1>3, <1>4, <1>5, <1>6, <1>7, <1>8, <1>9 DEF Next

LEMMA HavingBlocks ==
  ASSUME StatInv, NEW k \in Blocks, Have(k)
  PROVE  \E hist : /\ StatWith(hist) /\ Block(k).at \in 0..writes
                   /\ hist[Block(k).at] \in Book /\ BlockOK(k, Block(k), hist[Block(k).at])
  <1>1. PICK hist : StatWith(hist)
    BY DEF StatInv
  <1>2. Block(k).at \in 0..writes /\ BlockOK(k, Block(k), hist[Block(k).at])
    BY <1>1 DEF Have, Block, StatWith, CycleOK
  <1>3. hist[Block(k).at] \in Book
    BY <1>1, <1>2 DEF StatWith
  <1> QED
    BY <1>1, <1>2, <1>3

LEMMA CycleAgrees ==
  StatInv => BlocksAgree
  <1>1. SUFFICES ASSUME StatInv PROVE BlocksAgree
    OBVIOUS
  <1>2. PICK hist : StatWith(hist)
    BY <1>1 DEF StatInv
  <1>3. \A k \in Blocks : Have(k) => BlockOK(k, Block(k), hist[Block(k).at])
    BY <1>2 DEF Have, Block, StatWith, CycleOK
  <1>4. ASSUME Alike("summary", "trend")
        PROVE  /\ Block("trend").totals.income = Block("summary").figures.income
               /\ Block("trend").totals.expense = Block("summary").figures.expense
    <2> PICK totals : LET b == hist[Block("trend").at] IN
                      totals = TotalsOf(b, PeriodRows(b, Block("trend").period))
      OBVIOUS
    <2>1. Block("summary").figures = figuresOf(totals)
      BY <1>3, <1>4 DEF Alike, Blocks, BlockOK
    <2>2. /\ Block("trend").totals.income = MoneyCountOf(totals.income, totals.incomeCount)
          /\ Block("trend").totals.expense = MoneyCountOf(totals.expense, totals.expenseCount)
      BY <1>3, <1>4 DEF Alike, Blocks, BlockOK
    <2> QED
      BY <2>1, <2>2 DEF figuresOf, MoneyCountOf
  <1>5. ASSUME Have("breakdown")
        PROVE  \E b, rows : /\ b = hist[Block("breakdown").at] /\ Block("breakdown").type \in Types
                            /\ rows = OfType(b, PeriodRows(b, Block("breakdown").period),
                                             Block("breakdown").type)
                            /\ Block("breakdown").total
                                   = [amount |-> Sum(b, rows), count |-> Cardinality(rows)]
                            /\ Block("breakdown").by_category.total = Sum(b, rows)
                            /\ Block("breakdown").by_wallet.total = Sum(b, rows)
    BY <1>3, <1>5 DEF Blocks, BlockOK, BreakdownOK, DonutOK
  <1>6. ASSUME Alike("summary", "breakdown")
        PROVE  Block("breakdown").total = Block("summary").figures[Block("breakdown").type]
    <2>1. PICK b, rows : /\ b = hist[Block("breakdown").at] /\ Block("breakdown").type \in Types
                         /\ rows = OfType(b, PeriodRows(b, Block("breakdown").period),
                                          Block("breakdown").type)
                         /\ Block("breakdown").total
                                = [amount |-> Sum(b, rows), count |-> Cardinality(rows)]
      BY <1>5, <1>6 DEF Alike
    <2> PICK type, all, totals :
            /\ type = Block("breakdown").type /\ all = PeriodRows(b, Block("breakdown").period)
            /\ totals = TotalsOf(b, all)
      OBVIOUS
    <2>2. Block("summary").figures = figuresOf(totals)
      BY <1>3, <1>6, <2>1 DEF Alike, Blocks, BlockOK
    <2>3. /\ figuresOf(totals)["income"]
                 = [amount |-> totals.income, count |-> totals.incomeCount]
          /\ figuresOf(totals)["expense"]
                 = [amount |-> totals.expense, count |-> totals.expenseCount]
      BY DEF figuresOf
    <2>4. /\ totals.income = Sum(b, OfType(b, all, "income"))
          /\ totals.incomeCount = Cardinality(OfType(b, all, "income"))
          /\ totals.expense = Sum(b, OfType(b, all, "expense"))
          /\ totals.expenseCount = Cardinality(OfType(b, all, "expense"))
      BY DEF TotalsOf
    <2>5. CASE type = "income"
      BY <2>1, <2>2, <2>3, <2>4, <2>5
    <2>6. CASE type = "expense"
      BY <2>1, <2>2, <2>3, <2>4, <2>6
    <2> QED
      BY <2>1, <2>5, <2>6 DEF Types
  <1>7. ASSUME Have("breakdown")
        PROVE  /\ Block("breakdown").by_category.total = Block("breakdown").total.amount
               /\ Block("breakdown").by_wallet.total = Block("breakdown").total.amount
    <2>1. PICK b, rows : /\ Block("breakdown").total
                                = [amount |-> Sum(b, rows), count |-> Cardinality(rows)]
                         /\ Block("breakdown").by_category.total = Sum(b, rows)
                         /\ Block("breakdown").by_wallet.total = Sum(b, rows)
      BY <1>5, <1>7
    <2> PICK sum, count : sum = Sum(b, rows) /\ count = Cardinality(rows)
      OBVIOUS
    <2> QED
      BY <2>1
  <1> QED
    BY <1>4, <1>6, <1>7 DEF BlocksAgree

\* The blocks of one cycle that were read of one moment agree, and a breakdown
\* has the total of its records both by category and by wallet.
THEOREM BlocksAgreeAlways ==
  Spec => []BlocksAgree
  <1>1. Init => StatInv
    BY StatInit
  <1>2. StatInv /\ [Next]_vars => StatInv'
    BY StatNext
  <1>3. StatInv => BlocksAgree
    BY CycleAgrees
  <1> QED
    BY <1>1, <1>2, <1>3, PTL DEF Spec

\* The slices of a donut are its total, as many as there is room for, none of
\* them empty, and what is in "other" is smaller than any slice of its own.
THEOREM DonutsAddUp ==
  Spec => []SlicesAddUp
  <1>1. Init => StatInv
    BY StatInit
  <1>2. StatInv /\ [Next]_vars => StatInv'
    BY StatNext
  <1>3. StatInv => SlicesAddUp
    <2>1. SUFFICES ASSUME StatInv, Have("breakdown")
                   PROVE  /\ SlicesFit(Block("breakdown").by_category)
                          /\ SlicesFit(Block("breakdown").by_wallet)
      BY DEF SlicesAddUp, SlicesFit
    <2>2. "breakdown" \in Blocks
      BY DEF Blocks
    <2> QED
      BY <2>1, <2>2, HavingBlocks DEF BlockOK, BreakdownOK, DonutOK
  <1> QED
    BY <1>1, <1>2, <1>3, PTL DEF Spec

-----------------------------------------------------------------------------
(* The history that an item of a breakdown opens.                          *)

\* A bound that is clamped admits the same stored timestamps.
LEMMA Clamped ==
  ASSUME NEW x \in Int, NEW t \in TimestampMin..StoredTimestampMax
  PROVE  /\ x <= StoredTimestampMax => (t >= clampToStored(x) <=> t >= x)
         /\ x >= TimestampMin => (t <= clampToStored(x) <=> t <= x)
  <1> PICK low, high : low = TimestampMin /\ high = StoredTimestampMax
    OBVIOUS
  <1>1. low \in Int /\ high \in Int /\ t \in Int /\ low <= t /\ t <= high
    BY InstantAssumption, StoredAssumption
  <1>2. \A y \in Int, z \in Int : /\ Max({y, z}) = IF y >= z THEN y ELSE z
                                  /\ Min({y, z}) = IF y <= z THEN y ELSE z
    BY DEF Max, Min
  <1> PICK atLeast : atLeast = Max({x, low})
    OBVIOUS
  <1>3. atLeast = IF x >= low THEN x ELSE low
    BY <1>1, <1>2
  <1>6. atLeast \in Int
    BY <1>1, <1>3
  <1> PICK clamped : clamped = Min({atLeast, high})
    OBVIOUS
  <1>4. clamped = IF atLeast <= high THEN atLeast ELSE high
    BY <1>1, <1>2, <1>6
  <1>5. clampToStored(x) = clamped
    BY DEF clampToStored
  <1> QED
    BY <1>1, <1>3, <1>4, <1>5

Opened(b, p, type, field, id) ==
  {i \in OfType(b, PeriodRows(b, p), type) :
      /\ field = "category" => b.txns[i].category = id
      /\ field = "wallet" => b.txns[i].wallet = id}

LEMMA TemplateRows ==
  ASSUME NEW b \in Book, NEW p, IsPeriod(p), p.actual_to # Unset, NEW type \in Types,
         NEW field \in {"category", "wallet", "all"}, NEW id, field # "all" => id \in Nat,
         NEW q, q = Template(p, type, field, id)
  PROVE  selectionScope(b, q, selectionWallets(q)) = Opened(b, p, type, field, id)
  <1> PICK W : W = selectionWallets(q)
    OBVIOUS
  <1>1. p.from \in Int /\ p.actual_to \in Int
    BY DEF IsPeriod
  <1>2. /\ q.from = p.from /\ q.to = p.actual_to /\ q.transactionType = type
        /\ q.kind = "regular" /\ q.search = Unset
        /\ q.categoryId = (IF field = "category" THEN id ELSE Unset)
        /\ q.walletId = (IF field = "wallet" THEN id ELSE Unset)
    BY DEF Template
  <1>3. \A n \in Int : n # Unset
    BY UnsetAssumption
  <1>4. type # Unset /\ "regular" # Unset
    BY FilterAssumption DEF Kinds
  <1>5. \A w : w \in W <=> w \in SpaceWallets /\ (field = "wallet" => w = id)
    BY <1>2, <1>3 DEF selectionWallets
  <1>6. ASSUME NEW i \in Rows(b)
        PROVE  i \in selectionScope(b, q, W) <=> i \in Opened(b, p, type, field, id)
    <2> PICK txn, t, from, to : /\ txn = b.txns[i] /\ t = b.txns[i].timestamp
                                /\ from = p.from /\ to = p.actual_to
      OBVIOUS
    <2>1. i \in Ids /\ txn \in Txn /\ t \in TimestampMin..StoredTimestampMax
      BY DEF Book, Rows, Txn
    <2>2. TimestampMin \in Int /\ StoredTimestampMax \in Int
      BY InstantAssumption, StoredAssumption
    <2>3. from \in Int /\ to \in Int /\ from # Unset
      BY <1>1, <1>3
    <2>4. (/\ to >= TimestampMin /\ from <= StoredTimestampMax
           /\ t >= clampToStored(from) /\ t <= clampToStored(to))
              <=> t >= from /\ t <= to
      BY <2>1, <2>2, <2>3, Clamped
    <2>5. KindOf(txn) = "regular" <=> txn.category # System
      BY DEF KindOf
    <2>6. i \in Opened(b, p, type, field, id) <=>
              /\ t >= from /\ t <= to /\ txn.category # System /\ txn.wallet \in SpaceWallets
              /\ txn.type = type
              /\ field = "category" => txn.category = id
              /\ field = "wallet" => txn.wallet = id
      BY <1>1, <2>3 DEF Opened, OfType, PeriodRows, statisticsScope, Regular
    <2>7. i \in selectionScope(b, q, W) <=>
              /\ txn.wallet \in W
              /\ to >= TimestampMin /\ from <= StoredTimestampMax
              /\ t >= clampToStored(from) /\ t <= clampToStored(to)
              /\ txn.type = type
              /\ KindOf(txn) = "regular"
              /\ field = "category" => txn.category = id
      BY <1>2, <1>3, <1>4 DEF selectionScope
    <2> QED
      BY <1>5, <2>4, <2>5, <2>6, <2>7
  <1>7. /\ selectionScope(b, q, W) \in SUBSET Rows(b)
        /\ Opened(b, p, type, field, id) \in SUBSET Rows(b)
    BY ScopeIsRegular DEF selectionScope, Opened, OfType
  <1> QED
    BY <1>6, <1>7

LEMMA OpenedSummary ==
  ASSUME NEW b \in Book, NEW p, IsPeriod(p), p.actual_to # Unset, NEW type \in Types,
         NEW field \in {"category", "wallet", "all"}, NEW id, field # "all" => id \in Nat,
         NEW rows, rows = Opened(b, p, type, field, id)
  PROVE  LET summary == getFeedSummary(b, Template(p, type, field, id)) IN
         summary[type] = Sum(b, rows) /\ summary.count = Cardinality(rows)
  <1> PICK q : q = Template(p, type, field, id)
    OBVIOUS
  <1>1. selectionScope(b, q, selectionWallets(q)) = rows
    BY TemplateRows
  <1>2. Regular(b, rows) = rows /\ OfType(b, rows, type) = rows
    <2>1. \A i \in rows : b.txns[i].type = type /\ b.txns[i].category # System
      BY ScopeIsRegular DEF Opened, OfType, Regular
    <2> QED
      BY <2>1 DEF Regular, OfType
  <1> PICK income, expense, count : /\ income = Sum(b, OfType(b, rows, "income"))
                                    /\ expense = Sum(b, OfType(b, rows, "expense"))
                                    /\ count = Cardinality(rows)
    OBVIOUS
  <1>3. getFeedSummary(b, q) = [count |-> count, income |-> income, expense |-> expense]
    BY <1>1, <1>2 DEF getFeedSummary
  <1>4. type = "income" \/ type = "expense"
    BY DEF Types
  <1> QED
    BY <1>2, <1>3, <1>4

LEMMA ItemOpens ==
  ASSUME book \in Book, NEW p, IsPeriod(p), p.actual_to # Unset, NEW type \in Types,
         NEW field \in {"category", "wallet"}, NEW id,
         id \in (IF field = "category" THEN Categories ELSE SpaceWallets \ book.deleted),
         NEW amount, amount # 0,
         amount = Sum(book, OfGroup(book, OfType(book, PeriodRows(book, p), type), field, id))
  PROVE  LET q == Template(p, type, field, id) IN
         checkHistoryQuery(q) /\ getFeedSummary(book, q)[type] = amount
  <1> PICK b, q, rows : /\ b = book /\ q = Template(p, type, field, id)
                        /\ rows = Opened(b, p, type, field, id)
    OBVIOUS
  <1>1. id \in Nat
    BY IdAssumption, SpaceAssumption
  <1>2. OfGroup(b, OfType(b, PeriodRows(b, p), type), field, id) = rows
    BY DEF OfGroup, Opened
  <1>3. getFeedSummary(b, q)[type] = amount
    <2>1. field \in {"category", "wallet", "all"}
      OBVIOUS
    <2> QED
      BY <1>1, <1>2, <2>1, OpenedSummary
  <1>4. p.from <= p.actual_to
    <2>1. rows # {}
      <3>1. SUFFICES ASSUME rows = {} PROVE FALSE
        OBVIOUS
      <3>2. {} \in SUBSET Rows(b)
        OBVIOUS
      <3>3. Sum(b, {}) = 0
        BY <3>2, SumIsTotal, EmptyTotal
      <3> QED
        BY <1>2, <3>1, <3>3
    <2>2. PICK i \in rows : TRUE
      BY <2>1
    <2>3. i \in PeriodRows(b, p) /\ i \in Rows(b)
      BY ScopeIsRegular DEF Opened, OfType
    <2>4. b.txns[i].timestamp \in TimestampMin..StoredTimestampMax
      BY <2>3 DEF Book, Rows, Txn
    <2>5. p.from # Unset /\ p.from \in Int /\ p.actual_to \in Int
      BY UnsetAssumption DEF IsPeriod
    <2>6. p.from <= b.txns[i].timestamp /\ b.txns[i].timestamp <= p.actual_to
      BY <2>3, <2>4, <2>5, InstantAssumption, StoredAssumption DEF PeriodRows, statisticsScope
    <2> QED
      BY <2>4, <2>5, <2>6, InstantAssumption, StoredAssumption
  <1>5. checkHistoryQuery(q)
    BY <1>4 DEF checkHistoryQuery, Template, WalletUsable
  <1> QED
    BY <1>3, <1>5

\* An item of a breakdown opens a history that the feed takes, and the sum of
\* that history is the amount of the item, as long as nothing is written; the
\* records of the type and the period are as many as the breakdown counts.
THEOREM HistoryMatchesAlways ==
  Spec => []HistoryMatches
  <1>1. Init => StatInv
    BY StatInit
  <1>2. StatInv /\ [Next]_vars => StatInv'
    BY StatNext
  <1>3. StatInv => HistoryMatches
    <2>1. SUFFICES ASSUME StatInv, Have("breakdown"), Block("breakdown").at = writes,
                          Block("breakdown").period.actual_to # Unset
                   PROVE  HistoryMatches
      BY DEF HistoryMatches
    <2> PICK d, p, type : /\ d = Block("breakdown") /\ p = Block("breakdown").period
                          /\ type = Block("breakdown").type
      OBVIOUS
    <2>2. BlockOK("breakdown", d, book) /\ book \in Book
      <3>1. "breakdown" \in Blocks
        BY DEF Blocks
      <3> QED
        BY <2>1, <3>1, HavingBlocks DEF StatWith, StatInv
    <2>3. PICK rows : /\ IsPeriod(p) /\ type \in Types
                      /\ rows = OfType(book, PeriodRows(book, p), type)
                      /\ d.total = [amount |-> Sum(book, rows), count |-> Cardinality(rows)]
                      /\ DonutOK(d.by_category, book, rows, "category", Categories)
                      /\ DonutOK(d.by_wallet, book, rows, "wallet", SpaceWallets \ book.deleted)
      BY <2>2 DEF BlockOK, BreakdownOK
    <2>4. ASSUME NEW item \in Parts(d.by_category)
          PROVE  LET q == Template(p, type, "category", item.id) IN
                 checkHistoryQuery(q) /\ getFeedSummary(book, q)[type] = item.amount
      <3>1. /\ item.id \in Categories /\ item.amount # 0
            /\ item.amount = Sum(book, OfGroup(book, rows, "category", item.id))
        BY <2>3, <2>4 DEF DonutOK
      <3> QED
        BY <2>1, <2>2, <2>3, <3>1, ItemOpens
    <2>5. ASSUME NEW item \in Parts(d.by_wallet)
          PROVE  LET q == Template(p, type, "wallet", item.id) IN
                 checkHistoryQuery(q) /\ getFeedSummary(book, q)[type] = item.amount
      <3>1. /\ item.id \in SpaceWallets \ book.deleted /\ item.amount # 0
            /\ item.amount = Sum(book, OfGroup(book, rows, "wallet", item.id))
        BY <2>3, <2>5 DEF DonutOK
      <3> QED
        BY <2>1, <2>2, <2>3, <3>1, ItemOpens
    <2>6. getFeedSummary(book, Template(p, type, "all", Unset)).count = d.total.count
      <3>1. Opened(book, p, type, "all", Unset) = rows
        BY <2>3 DEF Opened
      <3>2. getFeedSummary(book, Template(p, type, "all", Unset)).count = Cardinality(rows)
        BY <2>1, <2>2, <2>3, <3>1, OpenedSummary
      <3>3. d.total.count = Cardinality(rows)
        BY <2>3
      <3> QED
        BY <3>2, <3>3
    <2> QED
      BY <2>4, <2>5, <2>6 DEF HistoryMatches
  <1> QED
    BY <1>1, <1>2, <1>3, PTL DEF Spec

-----------------------------------------------------------------------------
(* What a step makes of the request, the list and what was touched.        *)

\* A request begins, goes on with its snapshot or with what it sees, or ends.
Goes(r) ==
  \/ r = Idle
  \/ r.snapshot = None /\ r.at = writes
  \/ request # Idle /\ r.snapshot = request.snapshot /\ r.at = request.at
  \/ request # Idle /\ r.snapshot = Seen /\ r.at = SeenAt

Watches == touched' = touched \/ touched' = None \/ touched' = {}

LEMMA RequestsGo ==
  ASSUME FeedRequests \/ StatisticsRequests \/ OverviewRequests
  PROVE  /\ UNCHANGED <<book, writes, clock>> /\ answer' = None
         /\ Goes(request') /\ request' # Idle
         /\ Watches /\ (FeedRequests => list' = list \/ list' = None)
  <1> DEFINE begins == /\ UNCHANGED <<book, writes, clock>> /\ answer' = None
                       /\ Goes(request') /\ request' # Idle
  <1>1. ASSUME NEW kind, NEW step, NEW ask, kind # "idle", request' = Request(kind, step, ask)
        PROVE  Goes(request') /\ request' # Idle
    <2>1. request'.snapshot = None /\ request'.at = writes /\ request'.kind = kind
      BY <1>1 DEF Request, InProgress
    <2> QED
      BY <1>1, <2>1 DEF Goes, Idle
  <1>2. ASSUME NEW kind, NEW q, NEW limit, NEW cursor, NEW around, kind # "idle",
               Ask(kind, q, limit, cursor, around)
        PROVE  begins
    <2>1. \E ask : request' = Request(kind, "check", ask)
      BY <1>2 DEF Ask
    <2> QED
      BY <1>1, <1>2, <2>1 DEF Ask
  <1>3. CASE FeedRequests
    <2> DEFINE asks == begins /\ Watches /\ (list' = list \/ list' = None)
    <2>1. ASSUME NEW q, NEW l, NEW i, OpenList(q, l, i) PROVE asks
      BY <1>2, <2>1 DEF OpenList, Watches
    <2>2. ASSUME NEW q, NEW l, NEW direction, FollowCursor(q, l, direction) PROVE asks
      BY <1>2, <2>2 DEF FollowCursor, Watches
    <2>3. ASSUME NEW q, AskCount(q) PROVE asks
      BY <1>2, <2>3 DEF AskCount, Watches
    <2>4. ASSUME AskLatest PROVE asks
      BY <1>2, <2>4 DEF AskLatest, Watches
    <2>5. ASSUME NEW i, AskOperation(i) PROVE asks
      BY <1>2, <2>5 DEF AskOperation, Watches
    <2>6. ASSUME NEW i, AskTransaction(i) PROVE asks
      BY <1>2, <2>6 DEF AskTransaction, Watches
    <2> HIDE DEF asks
    <2>7. asks
      BY <1>3, <2>1, <2>2, <2>3, <2>4, <2>5, <2>6, Zenon DEF FeedRequests
    <2> QED
      BY <2>7 DEF asks
  <1>4. ASSUME NEW block \in Blocks, NEW q, NEW type, AskBlock(block, q, type)
        PROVE  begins /\ Watches
    <2>1. request' = Request(block, "open", [query |-> q, type |-> type]) /\ block # "idle"
      BY <1>4 DEF AskBlock, Blocks
    <2> QED
      BY <1>1, <1>4, <2>1 DEF AskBlock, Watches
  <1>5. CASE StatisticsRequests
    <2>1. PICK block \in Blocks : \E q, type : AskBlock(block, q, type)
      BY <1>5 DEF StatisticsRequests, Blocks
    <2> QED
      BY <1>3, <1>4, <2>1
  <1>6. ASSUME NEW kind, NEW step, NEW ask, kind # "idle", AskOverview(kind, step, ask)
        PROVE  begins /\ Watches
    <2>1. Goes(request') /\ request' # Idle
      BY <1>1, <1>6 DEF AskOverview
    <2> QED
      BY <1>6, <2>1 DEF AskOverview, Watches
  <1>7. CASE OverviewRequests
    <2>1. PICK kind, step : kind # "idle" /\ \E ask : AskOverview(kind, step, ask)
      BY <1>7 DEF OverviewRequests
    <2> QED
      BY <1>3, <1>6, <2>1
  <1> QED
    BY <1>3, <1>5, <1>7

LEMMA StepsGo ==
  ASSUME FeedSteps \/ StatisticsSteps \/ OverviewSteps
  PROVE  UNCHANGED <<book, writes, clock>> /\ Goes(request') /\ request # Idle
  <1>1. request.kind # "idle"
    BY DEF FeedSteps, FeedRefused, FeedAccepted, ReadPage, ReadEdge, ReadTarget, ReadPosition,
           ReadNewer, ReadOlder, ReadSummary, RespondEmpty, ReadDays, CountChecked, ReadCount,
           ReadLatest, ReadTransaction, ReadOperation, ReadItsTransaction, OverviewSteps,
           ReadActiveWallets, ReadPeriodTotals, ReadBalances, ReadLimits, ReadSpending,
           ReadCategoryRows, ReadCounts, ReadLimitMembership, InStep, Blocks, StatisticsSteps,
           OpenRefused, OpenBlock, ReadTotals, ReadPrevious, ReadLast, ReadTrend, ReadCategories,
           ReadWallets
  <1>2. request # Idle
    BY <1>1 DEF Idle
  <1> DEFINE reads == \/ \E r : Respond(r)
                      \/ \E step, got : ReadAndGo(step, got)
                      \/ \E step : GoOn(step)
                      \/ OpenBlock
  <1>3. FeedRefused \/ FeedAccepted => reads
    BY Zenon DEF FeedRefused, FeedAccepted
  <1>4. ReadPage => reads
    BY Zenon DEF ReadPage, Read
  <1>5. ReadEdge \/ ReadNewer \/ ReadOlder \/ ReadSummary => reads
    BY Zenon DEF ReadEdge, ReadNewer, ReadOlder, ReadSummary, Read
  <1>6. ReadTarget \/ ReadPosition => reads
    BY Zenon DEF ReadTarget, ReadPosition, Read
  <1>7. RespondEmpty \/ ReadDays => reads
    BY Zenon DEF RespondEmpty, ReadDays, RespondPage
  <1>8. CountChecked \/ ReadCount \/ ReadLatest \/ ReadTransaction => reads
    BY Zenon DEF CountChecked, ReadCount, ReadLatest, ReadTransaction
  <1>9. ReadOperation \/ ReadItsTransaction => reads
    BY Zenon DEF ReadOperation, ReadItsTransaction
  <1>10. ReadActiveWallets \/ ReadPeriodTotals \/ ReadBalances => reads
    BY Zenon DEF ReadActiveWallets, ReadPeriodTotals, ReadBalances, Reads, Shows
  <1>11. ReadLimits \/ ReadSpending => reads
    BY Zenon DEF ReadLimits, ReadSpending, Reads, Shows
  <1>12. ReadCategoryRows \/ ReadCounts \/ ReadLimitMembership => reads
    BY Zenon DEF ReadCategoryRows, ReadCounts, ReadLimitMembership, Reads, Shows
  <1>13. OpenRefused \/ OpenBlock \/ ReadTotals \/ ReadPrevious => reads
    BY Zenon DEF OpenRefused, ReadTotals, ReadPrevious
  <1>14. ReadLast \/ ReadTrend \/ ReadWallets => reads
    BY Zenon DEF ReadLast, ReadTrend, ReadWallets, RespondBreakdown, RespondBlock
  <1>15. ReadCategories => reads
    BY Zenon DEF ReadCategories, RespondBreakdown, RespondBlock
  <1>16. reads
    BY <1>3, <1>4, <1>5, <1>6, <1>7, <1>8, <1>9, <1>10, <1>11, <1>12, <1>13, <1>14, <1>15
       DEF FeedSteps, StatisticsSteps, OverviewSteps
  <1>17. ASSUME NEW r, Respond(r) PROVE UNCHANGED <<book, writes, clock>> /\ Goes(request')
    BY <1>17 DEF Respond, Goes
  <1>18. ASSUME NEW step, NEW got, ReadAndGo(step, got)
         PROVE  UNCHANGED <<book, writes, clock>> /\ Goes(request')
    BY <1>2, <1>18 DEF ReadAndGo, InProgress, Goes
  <1>19. ASSUME NEW step, GoOn(step) PROVE UNCHANGED <<book, writes, clock>> /\ Goes(request')
    BY <1>2, <1>19 DEF GoOn, InProgress, Goes
  <1>20. ASSUME OpenBlock PROVE UNCHANGED <<book, writes, clock>> /\ Goes(request')
    <2>1. PICK step, got : request' = InProgress(request.kind, step, request.ask,
                                                 request.snapshot, request.at, got)
      BY <1>20 DEF OpenBlock
    <2>2. Goes(request')
      BY <1>2, <2>1 DEF InProgress, Goes
    <2> QED
      BY <1>20, <2>2 DEF OpenBlock
  <1> QED
    BY <1>2, <1>16, <1>17, <1>18, <1>19, <1>20

LEMMA StepsWatch ==
  ASSUME FeedSteps \/ StatisticsSteps \/ OverviewSteps
  PROVE  Watches
  <1>1. ASSUME NEW step, NEW got, Read(step, got) PROVE Watches
    BY <1>1 DEF Read, Watches
  <1>2. ASSUME NEW step, GoOn(step) PROVE Watches
    BY <1>2 DEF GoOn, Watches
  <1>3. PageSteps => Watches
    <2>1. FeedRefused \/ ReadPosition \/ ReadTarget => Watches \/ \E step, got : Read(step, got)
      <3>1. FeedRefused => Watches
        BY DEF FeedRefused, Watches
      <3>2. ReadTarget => touched' = touched \/ \E step, got : Read(step, got)
        BY DEF ReadTarget
      <3>3. ReadPosition => touched' = None \/ \E step, got : Read(step, got)
        BY DEF ReadPosition
      <3> QED
        BY <3>1, <3>2, <3>3 DEF Watches
    <2>2. FeedAccepted => \E step : GoOn(step)
      BY Zenon DEF FeedAccepted
    <2>3. ReadPage => \E step, got : Read(step, got)
      BY Zenon DEF ReadPage
    <2>4. ReadEdge \/ ReadNewer \/ ReadOlder \/ ReadSummary => \E step, got : Read(step, got)
      BY Zenon DEF ReadEdge, ReadNewer, ReadOlder, ReadSummary
    <2>5. RespondEmpty \/ ReadDays => Watches
      BY DEF RespondEmpty, ReadDays, RespondPage, Watches
    <2> QED
      BY <1>1, <1>2, <2>1, <2>2, <2>3, <2>4, <2>5 DEF PageSteps
  <1>4. CountChecked => Watches
    BY <1>2 DEF CountChecked, Watches
  <1>5. ReadCount \/ ReadLatest \/ ReadTransaction => touched' = touched
    BY DEF ReadCount, ReadLatest, ReadTransaction
  <1>6. ReadOperation \/ ReadItsTransaction => touched' = touched
    BY DEF ReadOperation, ReadItsTransaction
  <1>7. OverviewSteps => touched' = touched
    BY DEF OverviewSteps, ReadActiveWallets, ReadPeriodTotals, ReadBalances, ReadLimits,
           ReadSpending, ReadCategoryRows, ReadCounts, ReadLimitMembership, Reads, Shows
  <1>8. StatisticsSteps => touched' = touched
    BY DEF StatisticsSteps, OpenRefused, OpenBlock, ReadTotals, ReadPrevious, ReadLast, ReadTrend,
           ReadCategories, ReadWallets
  <1> QED
    BY <1>3, <1>4, <1>5, <1>6, <1>7, <1>8 DEF FeedSteps, PageSteps, Watches

-----------------------------------------------------------------------------
(* Counts, snapshots and the shape of the list.                            *)

Shaped(l) == l # None => l = [query |-> l.query, items |-> l.items, older |-> l.older,
                              newer |-> l.newer]

Bounded ==
  /\ writes \in 0..MaxEvents
  /\ touched \in (SUBSET Ids) \cup {None}
  /\ Shaped(list)
  /\ request # Idle => request.snapshot \in Book \cup {None} /\ request.at \in 0..writes

LEMMA RoomForOne ==
  ASSUME Bounded, clock \in Nows, Moves
  PROVE  writes + 1 \in 0..MaxEvents
  <1> PICK past : past = {now \in Nows : now < clock}
    OBVIOUS
  <1> PICK n : n = clock
    OBVIOUS
  <1>1. n \in Nat /\ \A now \in past : now \in 0..n
    BY ClockAssumption
  <1>2. IsFiniteSet(past)
    <2>1. IsFiniteSet(0..n)
      BY <1>1, FS_Interval
    <2>2. past \in SUBSET (0..n)
      BY <1>1, Zenon
    <2> QED
      BY <2>1, <2>2, FS_Subset
  <1>3. Cardinality(past) \in Nat
    BY <1>2, FS_CardinalityType
  <1>4. writes + Cardinality(past) < MaxEvents
    BY DEF Moves
  <1> QED
    BY <1>3, <1>4, EventsAssumption DEF Bounded

LEMMA BoundedWritten ==
  ASSUME Bounded, clock \in Nows, MemberWrites, UNCHANGED list
  PROVE  Bounded'
  <1>1. Moves
    BY DEF MemberWrites
  <1>2. PICK after : Write(after)
    BY OneWrite
  <1>3. writes' = writes + 1 /\ request' = request
    BY <1>2 DEF Write
  <1>4. writes' \in 0..MaxEvents
    BY <1>1, <1>3, RoomForOne
  <1>5. touched' \in (SUBSET Ids) \cup {None}
    <2>1. Changed(book, after) \in SUBSET Ids
      BY DEF Changed
    <2>2. touched' = IF touched = None THEN None ELSE touched \cup Changed(book, after)
      BY <1>2 DEF Write
    <2> QED
      BY <2>1, <2>2 DEF Bounded
  <1>6. request' # Idle => request'.snapshot \in Book \cup {None} /\ request'.at \in 0..writes'
    BY <1>3, <1>4 DEF Bounded
  <1> QED
    BY <1>4, <1>5, <1>6 DEF Bounded

LEMMA RequestBounded ==
  ASSUME Bounded, book \in Book, UNCHANGED <<book, writes>>, Goes(request'), Watches, Shaped(list')
  PROVE  Bounded'
  <1>1. writes' \in 0..MaxEvents /\ touched' \in (SUBSET Ids) \cup {None}
    BY DEF Bounded, Watches
  <1> PICK r : r = request'
    OBVIOUS
  <1>2. r # Idle => r.snapshot \in Book \cup {None} /\ r.at \in 0..writes
    <2>1. CASE r.snapshot = None /\ r.at = writes
      BY <1>1, <2>1 DEF Bounded
    <2>2. CASE request # Idle /\ r.snapshot = request.snapshot /\ r.at = request.at
      BY <2>2 DEF Bounded
    <2>3. CASE request # Idle /\ r.snapshot = Seen /\ r.at = SeenAt
      BY <2>3 DEF Bounded, Seen, SeenAt
    <2> QED
      BY <2>1, <2>2, <2>3 DEF Goes
  <1> QED
    BY <1>1, <1>2 DEF Bounded

\* Only a page changes the list.
LEMMA ListShaped ==
  ASSUME FeedInv, Shaped(list), FeedSteps
  PROVE  Shaped(list')
  <1>1. CASE RespondEmpty \/ ReadDays
    <2>1. PICK window, summary, days : RespondPage(window, summary, days)
      BY <1>1 DEF RespondEmpty, ReadDays
    <2>2. PICK response : response = PageResponse(window, summary, days)
      OBVIOUS
    <2>3. list' = Joined(response)
      BY <2>1, <2>2 DEF RespondPage
    <2>4. AskOK(request.ask, list)
      <3>1. request.kind = "feed"
        BY <1>1 DEF RespondEmpty, ReadDays, InStep
      <3> QED
        BY <3>1 DEF FeedInv, ReadOK
    <2>5. \/ response.direction = None
          \/ response.direction \in {"older", "newer"} /\ response.direction # None
      BY <2>2, <2>4, CursorAssumption DEF PageResponse, AskOK
    <2> PICK positions : positions = [n \in DOMAIN response.items |-> positionOf(response.items[n])]
      OBVIOUS
    <2>6. \E q, items, older, newer : Joined(response) =
              [query |-> q, items |-> items, older |-> older, newer |-> newer]
      <3>1. CASE response.direction = None
        BY <3>1 DEF Joined
      <3>2. CASE response.direction = "older" /\ response.direction # None
        BY <3>2 DEF Joined
      <3>3. CASE response.direction = "newer" /\ response.direction # None
        BY <3>3 DEF Joined
      <3> QED
        BY <2>5, <3>1, <3>2, <3>3
    <2> QED
      BY <2>3, <2>6 DEF Shaped
  <1>2. ASSUME PageSteps, ~RespondEmpty, ~ReadDays PROVE list' = list
    BY <1>2 DEF PageSteps, FeedRefused, FeedAccepted, ReadPage, ReadEdge, ReadTarget, ReadPosition,
                ReadNewer, ReadOlder, ReadSummary, Read
  <1>3. ASSUME CountChecked \/ ReadCount \/ ReadLatest \/ ReadTransaction \/ ReadOperation
                   \/ ReadItsTransaction
        PROVE  list' = list
    BY <1>3 DEF CountChecked, ReadCount, ReadLatest, ReadTransaction, ReadOperation,
                ReadItsTransaction
  <1> QED
    BY <1>1, <1>2, <1>3 DEF FeedSteps, PageSteps

LEMMA BoundedInit ==
  Init => Bounded
  <1>1. Init => /\ writes = 0 /\ touched = None /\ request = Idle /\ list = None
    BY DEF Init
  <1>2. 0 \in 0..MaxEvents
    BY EventsAssumption
  <1> QED
    BY <1>1, <1>2 DEF Bounded, Shaped

LEMMA BoundedNext ==
  Bounded /\ FeedInv /\ StatInv /\ [Next]_vars => Bounded'
  <1>1. SUFFICES ASSUME Bounded, FeedInv, StatInv, [Next]_vars PROVE Bounded'
    OBVIOUS
  <1>2. book \in Book /\ clock \in Nows /\ Shaped(list) /\ Shaped(None)
    BY <1>1 DEF StatInv, Bounded, Shaped
  <1>3. CASE MemberWrites /\ UNCHANGED <<list, cycle>>
    BY <1>1, <1>2, <1>3, BoundedWritten
  <1>4. ASSUME NEW now \in Nows, Tick(now), UNCHANGED <<list, cycle>> PROVE Bounded'
    BY <1>1, <1>4 DEF Tick, Bounded, Shaped
  <1>5. CASE FeedRequests
    <2>1. /\ UNCHANGED <<book, writes>> /\ Goes(request') /\ Watches
          /\ list' = list \/ list' = None
      BY <1>5, RequestsGo
    <2> QED
      BY <1>1, <1>2, <2>1, RequestBounded DEF Shaped
  <1>6. CASE (StatisticsRequests \/ OverviewRequests) /\ list' = None
    <2>1. UNCHANGED <<book, writes>> /\ Goes(request') /\ Watches
      BY <1>6, RequestsGo
    <2> QED
      BY <1>1, <1>2, <1>6, <2>1, RequestBounded DEF Shaped
  <1>7. CASE FeedSteps
    BY <1>1, <1>2, <1>7, StepsGo, StepsWatch, ListShaped, RequestBounded
  <1>8. CASE (StatisticsSteps \/ OverviewSteps) /\ UNCHANGED list
    BY <1>1, <1>2, <1>8, StepsGo, StepsWatch, RequestBounded
  <1>9. CASE UNCHANGED vars
    BY <1>1, <1>9 DEF vars, history, Bounded, Shaped
  <1> QED
    BY <1>1, <1>3, <1>4, <1>5, <1>6, <1>7, <1>8, <1>9 DEF Next

-----------------------------------------------------------------------------
(* What the history answers.                                               *)

LEMMA GreatestOf ==
  ASSUME NEW S, IsFiniteSet(S), S # {}, NEW f, \A x \in S : f[x] \in Int
  PROVE  \E m \in S : \A x \in S : f[x] <= f[m]
  <1> DEFINE good == {U \in SUBSET S : U = {} \/ \E m \in U : \A x \in U : f[x] <= f[m]}
  <1>1. {} \in good
    OBVIOUS
  <1>2. ASSUME NEW U \in good, NEW x \in S \ U PROVE U \cup {x} \in good
    <2>1. CASE U = {}
      BY <2>1
    <2>2. CASE U # {}
      <3>1. PICK m \in U : \A y \in U : f[y] <= f[m]
        BY <2>2
      <3>2. f[m] \in Int /\ f[x] \in Int /\ \A y \in U : f[y] \in Int
        OBVIOUS
      <3>3. CASE f[x] <= f[m]
        BY <3>1, <3>3
      <3>4. CASE f[m] <= f[x]
        <4>1. \A y \in U : f[y] <= f[x]
          BY <3>1, <3>2, <3>4
        <4> QED
          BY <3>2, <4>1
      <3> QED
        BY <3>2, <3>3, <3>4
    <2> QED
      BY <2>1, <2>2
  <1>3. good \in SUBSET (SUBSET S)
    OBVIOUS
  <1> HIDE DEF good
  <1>4. S \in good
    BY <1>1, <1>2, <1>3, SubsetInduction
  <1> QED
    BY <1>4 DEF good

\* A finite set of numbers has a least and a greatest one.
LEMMA Extremes ==
  ASSUME NEW S, IsFiniteSet(S), S # {}, \A x \in S : x \in Int
  PROVE  /\ Min(S) \in S /\ \A x \in S : Min(S) <= x
         /\ Max(S) \in S /\ \A x \in S : x <= Max(S)
  <1>1. \E m \in S : \A x \in S : x <= m
    <2> PICK f : f = [x \in S |-> x]
      OBVIOUS
    <2>1. \A x \in S : f[x] = x /\ f[x] \in Int
      OBVIOUS
    <2>2. PICK m \in S : \A x \in S : f[x] <= f[m]
      BY <2>1, GreatestOf
    <2> QED
      BY <2>1, <2>2
  <1>2. \E m \in S : \A x \in S : m <= x
    <2> PICK f : f = [x \in S |-> -x]
      OBVIOUS
    <2>1. \A x \in S : f[x] = -x /\ f[x] \in Int
      OBVIOUS
    <2>2. PICK m \in S : \A x \in S : f[x] <= f[m]
      BY <2>1, GreatestOf
    <2>3. \A x \in S : m <= x
      <3> TAKE x \in S
      <3>1. -x <= -m
        BY <2>1, <2>2
      <3> QED
        BY <3>1
    <2> QED
      BY <2>3
  <1> QED
    BY <1>1, <1>2 DEF Min, Max

LEMMA ViewTyped ==
  ASSUME NEW b \in Book, NEW i \in SpaceRows(b)
  PROVE  ViewOf(b, i) \in TransactionView
  <1> PICK txn : txn = b.txns[i]
    OBVIOUS
  <1>1. i \in Ids /\ txn \in Txn /\ txn.wallet \in SpaceWallets
    BY DEF SpaceRows, Rows, Book
  <1>2. /\ txn.category \in Categories \cup {System} /\ txn.type \in Types /\ txn.amount \in Nat
        /\ txn.timestamp \in Int /\ txn.description \in STRING
    BY <1>1, InstantAssumption, StoredAssumption DEF Txn
  <1>3. KindOf(txn) \in Kinds
    BY DEF KindOf, Kinds
  <1> PICK kind, wallet, archived :
          /\ kind = KindOf(txn)
          /\ wallet = (IF txn.wallet \in b.deleted THEN None ELSE txn.wallet)
          /\ archived = (txn.category \in b.archived)
    OBVIOUS
  <1>4. archived \in BOOLEAN
    <2>1. (txn.category \in b.archived) \in BOOLEAN
      OBVIOUS
    <2> QED
      BY <2>1, Zenon
  <1>5. wallet \in SpaceWallets \cup {None} /\ kind \in Kinds
    BY <1>1, <1>3
  <1>6. ViewOf(b, i) = [id |-> i, kind |-> kind, type |-> txn.type, amount |-> txn.amount,
                        timestamp |-> txn.timestamp, description |-> txn.description,
                        wallet |-> wallet, category |-> txn.category, is_archived |-> archived]
    BY Zenon DEF ViewOf
  <1> QED
    BY <1>1, <1>2, <1>4, <1>5, <1>6 DEF TransactionView

LEMMA ScopeInSpace ==
  ASSUME NEW b, NEW q
  PROVE  Scope(b, q) \in SUBSET SpaceRows(b)
  BY DEF Scope, selectionScope, selectionWallets, SpaceRows

LEMMA ViewsTyped ==
  ASSUME NEW b \in Book, NEW q, NEW ids \in Seq(Scope(b, q))
  PROVE  ViewsOf(b, ids) \in Seq(TransactionView)
  <1>1. /\ Len(ids) \in Nat /\ DOMAIN ViewsOf(b, ids) = 1..Len(ids) /\ DOMAIN ids = 1..Len(ids)
        /\ \A n \in 1..Len(ids) : ViewsOf(b, ids)[n] = ViewOf(b, ids[n]) /\ ids[n] \in Scope(b, q)
    BY ViewsAre
  <1>2. \A n \in 1..Len(ids) : ViewOf(b, ids[n]) \in TransactionView
    BY <1>1, ScopeInSpace, ViewTyped
  <1>3. ViewsOf(b, ids) \in [1..Len(ids) -> TransactionView]
    BY <1>1, <1>2 DEF ViewsOf
  <1> QED
    BY <1>1, <1>3, SeqOfFunction

LEMMA ScopeSums ==
  ASSUME NEW b \in Book, NEW rows \in SUBSET Rows(b), NEW type
  PROVE  Sum(b, OfType(b, rows, type)) \in Nat /\ Cardinality(rows) \in Nat
  <1>1. OfType(b, rows, type) \in SUBSET Rows(b)
    BY DEF OfType
  <1>2. IsFiniteSet(rows)
    BY RowsAreFinite, FS_Subset
  <1> QED
    BY <1>1, <1>2, SumIsTotal, FS_CardinalityType

LEMMA SummaryTyped ==
  ASSUME NEW b \in Book, NEW q
  PROVE  getFeedSummary(b, q) \in FeedSummary /\ countForAllWallets(b, q) \in Nat
  <1> PICK rows, regular : rows = Scope(b, q) /\ regular = Regular(b, rows)
    OBVIOUS
  <1>1. rows \in SUBSET Rows(b) /\ regular \in SUBSET Rows(b)
    BY DEF Scope, selectionScope, Regular
  <1>2. /\ Cardinality(rows) \in Nat
        /\ Sum(b, OfType(b, regular, "income")) \in Nat
        /\ Sum(b, OfType(b, regular, "expense")) \in Nat
    BY <1>1, ScopeSums
  <1>3. getFeedSummary(b, q) = [count |-> Cardinality(rows),
                                income |-> Sum(b, OfType(b, regular, "income")),
                                expense |-> Sum(b, OfType(b, regular, "expense"))]
    BY DEF getFeedSummary, Scope
  <1>4. countForAllWallets(b, q) = Cardinality(rows)
    BY DEF countForAllWallets, Scope
  <1> QED
    BY <1>2, <1>3, <1>4 DEF FeedSummary

LEMMA NetsTyped ==
  ASSUME NEW b \in Book, NEW q, NEW intervals, NEW n \in DOMAIN intervals
  PROVE  getFeedIntervalNets(b, q, intervals)[n] \in Int
  <1> DEFINE within(r) ==
                 {i \in DOMAIN intervals :
                     /\ b.txns[r].timestamp >= clampToStored(intervals[i].from)
                     /\ b.txns[r].timestamp <= clampToStored(intervals[i].to)}
             rows == {r \in Regular(b, Scope(b, q)) : within(r) # {}}
             rowsOf(i) == {r \in rows : Min(within(r)) = i}
  <1>1. rowsOf(n) \in SUBSET Rows(b)
    BY DEF Regular, Scope, selectionScope
  <1>2. getFeedIntervalNets(b, q, intervals)[n]
            = Sum(b, OfType(b, rowsOf(n), "income")) - Sum(b, OfType(b, rowsOf(n), "expense"))
    BY Zenon DEF getFeedIntervalNets, Scope
  <1> HIDE DEF rowsOf
  <1>3. Sum(b, OfType(b, rowsOf(n), "income")) \in Nat /\ Sum(b, OfType(b, rowsOf(n), "expense")) \in Nat
    BY <1>1, ScopeSums
  <1> QED
    BY <1>2, <1>3

LEMMA ImageFinite ==
  ASSUME NEW S, IsFiniteSet(S), NEW f
  PROVE  IsFiniteSet({f[x] : x \in S})
  <1> PICK T, g : T = {f[x] : x \in S} /\ g = [x \in S |-> f[x]]
    OBVIOUS
  <1>1. g \in [S -> T] /\ \A t \in T : \E x \in S : g[x] = t
    OBVIOUS
  <1>2. g \in Surjection(S, T)
    BY <1>1 DEF Surjection
  <1> QED
    BY <1>2, FS_Surjection

\* The local days of items, in the order of their first items.
DateOf(items, zone, n) == calendarDateAt(items[n].timestamp, zone)
DaysOf(items, zone) == {DateOf(items, zone, n) : n \in DOMAIN items}
FirstItem(items, zone, d) == Min({n \in DOMAIN items : DateOf(items, zone, n) = d})
Earlier(items, zone, e, d) == FirstItem(items, zone, e) < FirstItem(items, zone, d)
DaysInOrder(items, zone) ==
  Sorted(DaysOf(items, zone), LAMBDA e, d : Earlier(items, zone, e, d))
DaysBefore(items, zone, d) == {e \in DaysOf(items, zone) : Earlier(items, zone, e, d)}
EarlierDays(items, zone) ==
  {pair \in DaysOf(items, zone) \X DaysOf(items, zone) : Earlier(items, zone, pair[1], pair[2])}

LEMMA DaysAreDates ==
  ASSUME NEW items \in Seq(TransactionView), NEW zone, IsZone(zone)
  PROVE  \E k \in Nat : DaysInOrder(items, zone) \in [1..k -> Int]
  <1> PICK days, n : days = DaysOf(items, zone) /\ n = Len(items)
    OBVIOUS
  <1>1. n \in Nat /\ DOMAIN items = 1..n /\ \A i \in 1..n : items[i].timestamp \in Int
    <2>1. \A i \in 1..Len(items) : items[i] \in TransactionView
      BY ElementOfSeq
    <2> QED
      BY <2>1, LenProperties DEF TransactionView
  <1>2. \A i \in 1..n : DateOf(items, zone, i) \in Int
    BY <1>1, DateType DEF DateOf
  <1>3. IsFiniteSet(1..n) /\ IsFiniteSet(days)
    <2> PICK f : f = [i \in 1..n |-> DateOf(items, zone, i)]
      OBVIOUS
    <2>1. days = {f[i] : i \in 1..n}
      BY <1>1 DEF DaysOf
    <2>2. IsFiniteSet(1..n)
      BY <1>1, UpTo
    <2>3. IsFiniteSet({f[i] : i \in 1..n})
      BY <2>2, ImageFinite
    <2> QED
      BY <2>1, <2>2, <2>3
  <1>4. \A d \in days : /\ FirstItem(items, zone, d) \in 1..n
                         /\ DateOf(items, zone, FirstItem(items, zone, d)) = d
    <2> TAKE d \in days
    <2> PICK S : S = {i \in DOMAIN items : DateOf(items, zone, i) = d}
      OBVIOUS
    <2>1. S \in SUBSET (1..n) /\ S # {}
      BY <1>1 DEF DaysOf
    <2>2. IsFiniteSet(S)
      BY <1>3, <2>1, FS_Subset
    <2>3. \A x \in S : x \in Int
      BY <2>1
    <2>4. Min(S) \in S /\ FirstItem(items, zone, d) = Min(S)
      BY <2>1, <2>2, <2>3, Extremes DEF FirstItem
    <2> QED
      BY <2>1, <2>4
  <1> PICK ord, sorted : ord = EarlierDays(items, zone) /\ sorted = DaysInOrder(items, zone)
    OBVIOUS
  <1>5. \A d, e \in days : <<d, e>> \in ord <=> Earlier(items, zone, d, e)
    BY DEF EarlierDays
  <1>6. StrictOrder(days, ord)
    <2>1. \A d \in days : FirstItem(items, zone, d) \in Int
      BY <1>4
    <2>2. \A d \in days : ~Earlier(items, zone, d, d)
      BY <2>1 DEF Earlier
    <2>3. \A c, d, e \in days : Earlier(items, zone, c, d) /\ Earlier(items, zone, d, e)
                                    => Earlier(items, zone, c, e)
      BY <2>1 DEF Earlier
    <2>4. \A d, e \in days : d = e \/ Earlier(items, zone, d, e) \/ Earlier(items, zone, e, d)
      <3>1. \A d, e \in days : d = e \/ FirstItem(items, zone, d) # FirstItem(items, zone, e)
        BY <1>4
      <3> QED
        BY <2>1, <3>1 DEF Earlier
    <2>5. \A d \in days : <<d, d>> \notin ord
      BY <1>5, <2>2
    <2>6. \A c, d, e \in days : <<c, d>> \in ord /\ <<d, e>> \in ord => <<c, e>> \in ord
      BY <1>5, <2>3
    <2>7. \A d, e \in days : d = e \/ <<d, e>> \in ord \/ <<e, d>> \in ord
      BY <1>5, <2>4
    <2> QED
      BY <2>5, <2>6, <2>7, Zenon DEF StrictOrder
  <1>7. \A d \in days : Before(days, ord, d) = DaysBefore(items, zone, d)
    BY <1>5 DEF Before, DaysBefore
  <1>8. sorted = [m \in 1..Cardinality(days) |->
                    CHOOSE d \in days : Cardinality(DaysBefore(items, zone, d)) = m - 1]
    BY DEF DaysInOrder, Sorted, DaysBefore
  <1>9. sorted = ByRank(days, ord)
    <2>1. \A m : (CHOOSE d \in days : Cardinality(DaysBefore(items, zone, d)) = m - 1)
                   = (CHOOSE d \in days : Cardinality(Before(days, ord, d)) = m - 1)
      BY <1>7, Zenon
    <2> QED
      BY <1>8, <2>1 DEF ByRank
  <1>10. Enumerates(sorted, days, ord)
    BY <1>3, <1>6, <1>9, RankedInOrder
  <1>11. sorted \in Seq(days) /\ days \subseteq Int
    BY <1>1, <1>2, <1>10 DEF Enumerates, DaysOf
  <1> QED
    BY <1>11

DayTotals(items, q) ==
  LET dates == DaysInOrder(items, q.zone)
      nets == getFeedIntervalNets(Seen, q,
                  [n \in DOMAIN dates |-> [from |-> startOfDay(dates[n], q.zone, clock),
                                           to |-> endOfDay(dates[n], q.zone, clock)]])
  IN  [n \in DOMAIN dates |-> [date |-> dates[n], net |-> nets[n]]]

LEMMA DaysTyped ==
  ASSUME Seen \in Book, request.ask.query \in Queries, NEW items \in Seq(TransactionView)
  PROVE  readFeedDayTotals(items) \in Seq(DayTotal)
  <1> PICK zone, dates : zone = request.ask.query.zone /\ dates = DaysInOrder(items, zone)
    OBVIOUS
  <1>1. IsZone(zone)
    BY QueryAssumption DEF FeedQuery, IsZone
  <1>2. PICK k \in Nat : dates \in [1..k -> Int]
    BY <1>1, DaysAreDates
  <1> PICK intervals : intervals = [n \in DOMAIN dates |-> [from |-> startOfDay(dates[n], zone, clock),
                                                            to |-> endOfDay(dates[n], zone, clock)]]
    OBVIOUS
  <1> PICK nets : nets = getFeedIntervalNets(Seen, request.ask.query, intervals)
    OBVIOUS
  <1>3. \A n \in 1..k : nets[n] \in Int
    <2>1. DOMAIN intervals = 1..k
      BY <1>2
    <2> QED
      BY <2>1, NetsTyped
  <1>4. readFeedDayTotals(items) = DayTotals(items, request.ask.query)
    BY Zenon DEF readFeedDayTotals, DayTotals, DaysInOrder, DaysOf, DateOf, Earlier, FirstItem
  <1>5. readFeedDayTotals(items) = [n \in DOMAIN dates |-> [date |-> dates[n], net |-> nets[n]]]
    BY <1>4 DEF DayTotals
  <1>6. readFeedDayTotals(items) \in [1..k -> DayTotal]
    <2>1. readFeedDayTotals(items) = [n \in 1..k |-> [date |-> dates[n], net |-> nets[n]]]
      BY <1>2, <1>5
    <2>2. \A n \in 1..k : [date |-> dates[n], net |-> nets[n]] \in DayTotal
      BY <1>2, <1>3 DEF DayTotal
    <2> QED
      BY <2>1, <2>2
  <1> QED
    BY <1>6, SeqOfFunction

LEMMA ItemPlace ==
  ASSUME NEW items \in Seq(TransactionView), NEW n \in 1..Len(items)
  PROVE  positionOf(items[n]) \in Position
  <1>1. items[n] \in TransactionView
    BY ElementOfSeq
  <1> QED
    BY <1>1 DEF TransactionView, positionOf, Position

LEMMA WindowTyped ==
  ASSUME NEW b \in Book, NEW ask, NEW window, WindowOK(b, ask, window),
         NEW items, items = window.items
  PROVE  /\ items \in Seq(TransactionView)
         /\ CursorAt(window.hasOlder, items[Len(items)]) \in Cursors
         /\ CursorAt(window.hasNewer, items[1]) \in Cursors
  <1> PICK ids : ids = IdsOf(items)
    OBVIOUS
  <1>1. items = ViewsOf(b, ids) /\ ids \in Seq(Scope(b, ask.query))
    BY DEF WindowOK, IsWindow
  <1>2. /\ window.hasOlder \in BOOLEAN /\ window.hasNewer \in BOOLEAN
        /\ window.hasOlder \/ window.hasNewer => Len(ids) > 0
    BY DEF WindowOK, IsWindow, Above, Below
  <1>3. items \in Seq(TransactionView)
    BY <1>1, ViewsTyped
  <1>4. Len(items) = Len(ids) /\ Len(ids) \in Nat
    BY <1>1, ViewsAre
  <1>5. window.hasOlder \/ window.hasNewer => 1 \in 1..Len(items) /\ Len(items) \in 1..Len(items)
    BY <1>2, <1>4
  <1> QED
    BY <1>2, <1>3, <1>5, ItemPlace DEF CursorAt, Cursors

LEMMA ResponseTyped ==
  ASSUME NEW b \in Book, NEW window, WindowOK(b, request.ask, window),
         NEW summary \in FeedSummary, NEW days \in Seq(DayTotal),
         RespondPage(window, summary, days)
  PROVE  answer'.kind = "page" /\ IsFeed(answer')
  <1>1. answer' = PageResponse(window, summary, days)
    BY DEF RespondPage, Respond
  <1> PICK items, older, newer : /\ items = window.items
                                 /\ older = CursorAt(window.hasOlder, items[Len(items)])
                                 /\ newer = CursorAt(window.hasNewer, items[1])
    OBVIOUS
  <1>2. items \in Seq(TransactionView) /\ older \in Cursors /\ newer \in Cursors
    BY WindowTyped
  <1>3. /\ answer'.kind = "page" /\ answer'.items = items /\ answer'.older = older
        /\ answer'.newer = newer /\ answer'.summary = summary /\ answer'.days = days
    BY <1>1 DEF PageResponse
  <1> QED
    BY <1>2, <1>3 DEF IsFeed

LEMMA PageTyped ==
  ASSUME FeedInv, RespondEmpty \/ ReadDays
  PROVE  answer'.kind = "page" /\ IsFeed(answer')
  <1>1. request.kind = "feed" /\ Seen \in Book /\ request.ask.query \in Queries
    <2>1. request.kind = "feed"
      BY DEF RespondEmpty, ReadDays, InStep
    <2> QED
      BY <2>1, FeedFacts DEF AskOK
  <1>2. CASE RespondEmpty
    <2>1. WindowOK(Seen, request.ask, request.got.window)
      BY <1>1, <1>2, FeedFacts DEF RespondEmpty, InStep, GotOK
    <2>2. ZeroSummary \in FeedSummary /\ <<>> \in Seq(DayTotal)
      BY DEF ZeroSummary, FeedSummary
    <2> QED
      BY <1>1, <1>2, <2>1, <2>2, ResponseTyped DEF RespondEmpty
  <1>3. CASE ReadDays
    <2>1. /\ WindowOK(Seen, request.ask, request.got.window)
          /\ request.got.summary = getFeedSummary(Seen, request.ask.query)
      BY <1>1, <1>3, FeedFacts DEF ReadDays, InStep, GotOK
    <2>2. request.got.summary \in FeedSummary
      BY <1>1, <2>1, SummaryTyped
    <2>3. request.got.window.items \in Seq(TransactionView)
      BY <1>1, <2>1, WindowTyped
    <2>4. readFeedDayTotals(request.got.window.items) \in Seq(DayTotal)
      BY <1>1, <2>3, DaysTyped
    <2> QED
      BY <1>1, <1>3, <2>1, <2>2, <2>4, ResponseTyped DEF ReadDays
  <1> QED
    BY <1>2, <1>3

LEMMA FoundTyped ==
  ASSUME Seen \in Book, NEW i, getOneInSpace(Seen, i) # None
  PROVE  toTransactionView(i) \in TransactionView
  <1>1. toTransactionView(i) = ViewOf(Seen, i)
    BY DEF toTransactionView, ViewOf
  <1>2. i \in SpaceRows(Seen)
    BY DEF getOneInSpace, SpaceRows
  <1> QED
    BY <1>1, <1>2, ViewTyped

LEMMA OperationTyped ==
  ASSUME OverviewInv, ReadItsTransaction
  PROVE  answer'.kind = "operation" /\ IsOperation(answer')
  <1> PICK found, view, status, deleted :
          /\ found = (getOneInSpace(Seen, request.ask.around) # None)
          /\ view = (IF getOneInSpace(Seen, request.ask.around) = None THEN None
                     ELSE toTransactionView(request.ask.around))
          /\ status = (IF getOneInSpace(Seen, request.ask.around) = None THEN "deleted" ELSE "applied")
          /\ deleted = (getOneInSpace(Seen, request.ask.around) = None /\ request.got.dated)
    OBVIOUS
  <1>1. request.kind = "operation" /\ request.kind \in OverviewKinds /\ request.step = "transaction"
    BY DEF ReadItsTransaction, InStep, OverviewKinds
  <1>2. Seen \in Book
    BY <1>1, OverviewSees DEF BookOK
  <1>3. view \in TransactionView \cup {None} /\ status \in {"applied", "deleted"}
    BY <1>2, FoundTyped
  <1>4. deleted \in BOOLEAN
    <2>1. (getOneInSpace(Seen, request.ask.around) = None /\ request.got.dated) \in BOOLEAN
      OBVIOUS
    <2> QED
      BY <2>1, Zenon
  <1>5. Respond([kind |-> "operation", id |-> request.ask.around, status |-> status,
                 deleted_at |-> deleted, transaction |-> view])
    BY Zenon DEF ReadItsTransaction
  <1>6. answer' = [kind |-> "operation", id |-> request.ask.around, status |-> status,
                   deleted_at |-> deleted, transaction |-> view]
    BY <1>5 DEF Respond
  <1>7. /\ answer'.kind = "operation" /\ answer'.status = status /\ answer'.deleted_at = deleted
        /\ answer'.transaction = view
    BY <1>6
  <1> QED
    BY <1>3, <1>4, <1>7 DEF IsOperation

\* A transaction is read and viewed in one statement.
ReadsInOne == request.kind = "transaction" => request.snapshot = None

AnswerInv ==
  /\ ReadsInOne
  /\ answer # None => IsHistoryAnswer(answer)

LEMMA OthersTyped ==
  ASSUME book \in Book, OverviewInv, AnswerInv,
         CountChecked \/ ReadCount \/ ReadLatest \/ ReadTransaction \/ ReadOperation
             \/ ReadItsTransaction
  PROVE  answer' # None => IsHistoryAnswer(answer')
  <1>1. IsHistoryAnswer(Refusal)
    BY DEF IsHistoryAnswer, Refusal
  <1>2. ASSUME Respond(Refusal) \/ answer' = answer PROVE answer' # None => IsHistoryAnswer(answer')
    BY <1>1, <1>2 DEF Respond, AnswerInv
  <1>3. CASE CountChecked
    BY <1>2, <1>3 DEF CountChecked, GoOn
  <1>4. CASE ReadCount
    <2>1. answer' = [kind |-> "count", query |-> request.ask.query,
                     count |-> countForAllWallets(book, request.ask.query)]
      BY <1>4 DEF ReadCount, Respond
    <2>2. answer'.kind = "count" /\ answer'.count \in Nat
      BY <2>1, SummaryTyped
    <2> QED
      BY <2>2 DEF IsHistoryAnswer
  <1>5. CASE ReadLatest
    <2> PICK i : i = getLatest(book)
      OBVIOUS
    <2>1. answer' = [kind |-> "latest", id |-> i]
      BY <1>5 DEF ReadLatest, Respond
    <2>2. i \in Ids \cup {None}
      BY LatestRead DEF IsLatest, SpaceRows, Rows
    <2>3. answer'.kind = "latest" /\ answer'.id \in Ids \cup {None}
      BY <2>1, <2>2
    <2> QED
      BY <2>3 DEF IsHistoryAnswer
  <1>6. CASE ReadTransaction
    <2> PICK i, view : i = request.ask.around /\ view = toTransactionView(i)
      OBVIOUS
    <2>1. Seen = book
      BY <1>6 DEF ReadTransaction, InStep, AnswerInv, ReadsInOne, Seen
    <2>2. CASE getOneInSpace(book, i) = None
      BY <1>2, <1>6, <2>2 DEF ReadTransaction
    <2>3. CASE getOneInSpace(book, i) # None
      <3>1. view \in TransactionView
        BY <2>1, <2>3, FoundTyped
      <3>2. answer' = [kind |-> "transaction", view |-> view]
        BY <1>6, <2>3 DEF ReadTransaction, Respond
      <3>3. answer'.kind = "transaction" /\ answer'.view \in TransactionView
        BY <3>1, <3>2
      <3> QED
        BY <3>3 DEF IsHistoryAnswer
    <2> QED
      BY <2>2, <2>3
  <1>7. CASE ReadOperation
    <2>1. Respond(Refusal) \/ \E step, got : ReadAndGo(step, got)
      BY <1>7, Zenon DEF ReadOperation
    <2> QED
      BY <1>2, <2>1 DEF ReadAndGo
  <1>8. CASE ReadItsTransaction
    BY <1>8, OperationTyped DEF IsHistoryAnswer
  <1> QED
    BY <1>3, <1>4, <1>5, <1>6, <1>7, <1>8

LEMMA OverviewsTyped ==
  ASSUME AnswerInv, OverviewSteps
  PROVE  answer' # None => IsHistoryAnswer(answer')
  <1>1. ASSUME NEW overview, Shows(overview), overview.kind \in {"wallets", "limits", "categories"}
        PROVE  IsHistoryAnswer(answer')
    BY <1>1 DEF Shows, Respond, IsHistoryAnswer
  <1>2. CASE \E step, got : Reads(step, got)
    BY <1>2 DEF Reads, ReadAndGo, AnswerInv
  <1>3. ReadActiveWallets \/ ReadPeriodTotals \/ ReadLimits \/ ReadCategoryRows \/ ReadCounts =>
            \E step, got : Reads(step, got)
    BY Zenon DEF ReadActiveWallets, ReadPeriodTotals, ReadLimits, ReadCategoryRows, ReadCounts
  <1>4. CASE ReadBalances
    <2> PICK overview :
            overview = buildOverview(request.got.wallets, request.got.periodTotals,
                                     getBalances(Seen, request.got.wallets))
      OBVIOUS
    <2>1. overview.kind = "wallets"
      BY DEF buildOverview
    <2>2. Shows(overview)
      BY <1>4 DEF ReadBalances
    <2> QED
      BY <1>1, <2>1, <2>2
  <1>5. CASE ReadSpending
    <2> PICK period, spending :
            Shows([kind |-> "limits", period |-> period, spending |-> spending])
      BY <1>5 DEF ReadSpending
    <2> QED
      BY <1>1
  <1>6. CASE ReadLimitMembership
    <2> PICK incomes, expenses, archived :
            Shows([kind |-> "categories", incomes |-> incomes, expenses |-> expenses,
                   archived |-> archived])
      BY <1>6 DEF ReadLimitMembership
    <2> QED
      BY <1>1
  <1> QED
    BY <1>2, <1>3, <1>4, <1>5, <1>6 DEF OverviewSteps

\* The only step of a transaction's request answers it.
LEMMA TransactionReadOnce ==
  ASSUME FeedSteps \/ StatisticsSteps \/ OverviewSteps
  PROVE  request'.kind # "transaction"
  <1>1. Idle.kind = "idle"
    BY DEF Idle
  <1>2. CASE PageSteps
    BY <1>2, PageStep
  <1>3. CASE StatisticsSteps
    BY <1>3, StatisticsStep DEF Blocks
  <1>4. CASE OverviewSteps
    <2>1. request.kind \in {"wallets", "limits", "categories"}
      BY <1>4 DEF OverviewSteps, ReadActiveWallets, ReadPeriodTotals, ReadBalances, ReadLimits,
                  ReadSpending, ReadCategoryRows, ReadCounts, ReadLimitMembership, InStep
    <2>2. (\E r : Respond(r)) \/ (\E step, got : ReadAndGo(step, got))
      BY <1>4, Zenon DEF OverviewSteps, ReadActiveWallets, ReadPeriodTotals, ReadBalances,
                  ReadLimits, ReadSpending, ReadCategoryRows, ReadCounts, ReadLimitMembership,
                  Reads, Shows
    <2> QED
      BY <1>1, <2>1, <2>2 DEF Respond, ReadAndGo, InProgress
  <1>5. CASE CountChecked \/ ReadCount \/ ReadLatest \/ ReadTransaction \/ ReadOperation
                 \/ ReadItsTransaction
    <2>1. CASE request.kind \in {"count", "operation"}
      <3>1. \/ \E r : Respond(r)
            \/ \E step, got : ReadAndGo(step, got)
            \/ \E step : GoOn(step)
        BY <1>5, Zenon DEF CountChecked, ReadCount, ReadLatest, ReadTransaction, ReadOperation,
                           ReadItsTransaction
      <3> QED
        BY <1>1, <2>1, <3>1 DEF Respond, ReadAndGo, GoOn, InProgress
    <2>2. CASE ReadLatest \/ ReadTransaction
      BY <1>1, <2>2 DEF ReadLatest, ReadTransaction, Respond
    <2>3. CountChecked \/ ReadCount \/ ReadOperation \/ ReadItsTransaction =>
              request.kind \in {"count", "operation"}
      BY DEF CountChecked, ReadCount, ReadOperation, ReadItsTransaction, InStep
    <2> QED
      BY <1>5, <2>1, <2>2, <2>3
  <1> QED
    BY <1>2, <1>3, <1>4, <1>5 DEF FeedSteps, PageSteps

LEMMA AnswerInit ==
  Init => AnswerInv
  BY DEF Init, AnswerInv, ReadsInOne, Idle

LEMMA AnswerNext ==
  AnswerInv /\ FeedInv /\ StatInv /\ OverviewInv /\ [Next]_vars => AnswerInv'
  <1>1. SUFFICES ASSUME AnswerInv, FeedInv, StatInv, OverviewInv, [Next]_vars PROVE AnswerInv'
    OBVIOUS
  <1>2. book \in Book
    BY <1>1 DEF StatInv
  <1>3. CASE UNCHANGED <<request, answer>>
    BY <1>1, <1>3 DEF AnswerInv, ReadsInOne
  <1>4. CASE MemberWrites
    BY <1>2, <1>3, <1>4, WritesBook
  <1>5. CASE \E now \in Nows : Tick(now)
    BY <1>3, <1>5 DEF Tick
  <1>6. CASE FeedRequests \/ StatisticsRequests \/ OverviewRequests
    <2>1. answer' = None /\ request'.snapshot = None
      BY <1>6, FeedAsks, StatisticsAsks, OverviewAsks
    <2> QED
      BY <2>1 DEF AnswerInv, ReadsInOne
  <1>7. CASE FeedSteps \/ StatisticsSteps \/ OverviewSteps
    <2>1. ReadsInOne'
      BY <1>7, TransactionReadOnce DEF ReadsInOne
    <2>2. CASE PageSteps
      <3>1. answer' = answer \/ answer'.kind = "refused"
              \/ (answer'.kind = "page" /\ IsFeed(answer'))
        BY <1>1, <2>2, PageStep, PageTyped
      <3> QED
        BY <1>1, <2>1, <3>1 DEF AnswerInv, IsHistoryAnswer
    <2>3. CASE CountChecked \/ ReadCount \/ ReadLatest \/ ReadTransaction \/ ReadOperation
                   \/ ReadItsTransaction
      BY <1>1, <1>2, <2>1, <2>3, OthersTyped DEF AnswerInv
    <2>4. CASE StatisticsSteps
      <3>1. answer' = answer \/ answer' = None \/ answer'.kind = "refused"
        BY <2>4, StatisticsStep DEF Refusal
      <3> QED
        BY <1>1, <2>1, <3>1 DEF AnswerInv, IsHistoryAnswer
    <2>5. CASE OverviewSteps
      BY <1>1, <2>1, <2>5, OverviewsTyped DEF AnswerInv
    <2> QED
      BY <1>7, <2>2, <2>3, <2>4, <2>5 DEF FeedSteps, PageSteps
  <1>8. CASE UNCHANGED vars
    BY <1>3, <1>8 DEF vars, history
  <1> QED
    BY <1>1, <1>4, <1>5, <1>6, <1>7, <1>8 DEF Next

-----------------------------------------------------------------------------
(* What a block reads, and what clients get of it.                         *)

LEMMA MonthsLaterType ==
  ASSUME NEW d \in Int, NEW n \in Int
  PROVE  MonthsLater(d, n) \in Int
  <1> PICK month, first, next : /\ month = MonthOf(d) + n /\ first = FirstOfMonth(month)
                                /\ next = FirstOfMonth(month + 1)
    OBVIOUS
  <1>1. MonthOf(d) \in Int /\ FirstOfMonth(MonthOf(d)) \in Int
    BY MonthOfDay, MonthLength
  <1>2. month \in Int /\ month + 1 \in Int
    BY <1>1
  <1>3. first \in Int /\ next \in Int
    BY <1>2, MonthLength
  <1> PICK day, last : day = d - FirstOfMonth(MonthOf(d)) /\ last = next - first - 1
    OBVIOUS
  <1>4. day \in Int /\ last \in Int
    BY <1>1, <1>3
  <1>5. MonthsLater(d, n) = first + Min({day, last})
    BY DEF MonthsLater
  <1>6. Min({day, last}) \in Int
    BY <1>4, MinOfTwo
  <1> QED
    BY <1>3, <1>5, <1>6

LEMMA PlusType ==
  ASSUME NEW d \in Int, NEW unit \in Units, NEW n \in Int
  PROVE  Plus(d, unit, n) \in Int
  <1>1. 12 * n \in Int
    OBVIOUS
  <1>2. MonthsLater(d, n) \in Int /\ MonthsLater(d, 12 * n) \in Int
    BY <1>1, MonthsLaterType
  <1>3. CASE unit = "day"
    BY <1>3 DEF Plus
  <1>4. CASE unit = "week"
    BY <1>4 DEF Plus
  <1>5. CASE unit = "month"
    BY <1>2, <1>5 DEF Plus
  <1>6. CASE unit = "year"
    BY <1>2, <1>6 DEF Plus
  <1> QED
    BY <1>3, <1>4, <1>5, <1>6 DEF Units

LEMMA ShiftType ==
  ASSUME NEW t \in Int, NEW zone, IsZone(zone), NEW unit \in Units, NEW n \in Int
  PROVE  shiftInstant(t, zone, unit, n) \in Int
  <1> PICK day, hour, guess : /\ day = Plus(calendarDateAt(t, zone), unit, n)
                              /\ hour = LocalHour(zone, t) % 24 /\ guess = OffsetAt(zone, t)
    OBVIOUS
  <1>1. day \in Int
    BY DateType, PlusType
  <1>2. guess \in Int
    BY OffsetType
  <1>3. hour \in Int
    <2>1. LocalHour(zone, t) \in Int
      BY <1>2 DEF LocalHour
    <2> QED
      BY <2>1, SMT
  <1>4. 24 * day + hour \in Int
    BY <1>1, <1>3
  <1>5. shiftInstant(t, zone, unit, n) = FixOffset(24 * day + hour, guess, zone)
    BY DEF shiftInstant
  <1> QED
    BY <1>2, <1>4, <1>5, FixedType

LEMMA PeriodTyped ==
  ASSUME NEW q \in StatQueries, NEW now \in Nows, periodErrors(q, now) = {}
  PROVE  resolveStatisticsPeriod(q, now) \in StatisticsPeriod
  <1> PICK p : p = resolveStatisticsPeriod(q, now)
    OBVIOUS
  <1>1. /\ IsPeriod(p) /\ p.start_date \in Int /\ p.end_date \in Int
        /\ p.type \in PeriodTypes /\ p.time_zone = q.zone
        /\ p.state = timeState(p.from, p.to, p.as_of)
    BY PeriodResolved
  <1>2. q.zone \in Zone
    BY AsOfType DEF IsZone
  <1>3. /\ p.from \in Int /\ p.to \in Int /\ p.as_of \in Int /\ p.actual_to \in Int \cup {Unset}
    BY <1>1 DEF IsPeriod
  <1>4. p.state \in States
    <2> PICK from, to, asOf : from = p.from /\ to = p.to /\ asOf = p.as_of
      OBVIOUS
    <2>1. p.state = timeState(from, to, asOf)
      BY <1>1
    <2>2. from \in Int /\ to \in Int /\ asOf \in Int
      BY <1>3
    <2> QED
      BY <2>1, <2>2, StateOfMoment DEF States
  <1>5. p = [type |-> p.type, time_zone |-> p.time_zone, start_date |-> p.start_date,
             end_date |-> p.end_date, from |-> p.from, to |-> p.to, as_of |-> p.as_of,
             actual_to |-> p.actual_to, state |-> p.state]
    BY DEF resolveStatisticsPeriod
  <1> QED
    BY <1>1, <1>2, <1>3, <1>4, <1>5 DEF StatisticsPeriod

\* The period that is compared with is read when the period itself is.
LEMMA PreviousTyped ==
  ASSUME NEW q \in StatQueries, NEW now \in Nows, periodErrors(q, now) = {},
         NEW p, p = resolveStatisticsPeriod(q, now), NEW previous, previous = resolvePreviousPeriod(p, now)
  PROVE  /\ previous \in PreviousPeriod \cup {Unset}
         /\ p.state = "future" => previous = Unset
  <1>1. p.state = "future" => previous = Unset
    BY DEF resolvePreviousPeriod
  <1>2. CASE p.type = "custom" \/ p.state = "future"
    BY <1>1, <1>2 DEF resolvePreviousPeriod
  <1>3. CASE ~(p.type = "custom" \/ p.state = "future")
    <2>1. /\ IsPeriod(p) /\ p.start_date \in Int /\ p.type \in StandardPeriods
          /\ p.time_zone = q.zone /\ p.as_of \in Int
      BY <1>3, PeriodResolved DEF PeriodTypes, IsPeriod
    <2>2. IsZone(q.zone) /\ now \in Int
      BY AsOfType
    <2> PICK day, range : /\ day = shift(p.start_date, p.type, -1) /\ range = rangeOf(p.type, day)
      OBVIOUS
    <2>3. p.type \in Units /\ -1 \in Int
      BY <2>1 DEF StandardPeriods, Units
    <2>4. day \in Int
      BY <2>1, <2>3, PlusType DEF shift
    <2>5. range.start \in Int /\ range.end \in Int
      BY <2>1, <2>4, RangeOfUnit
    <2> PICK from, to, shifted, actual :
            /\ from = startOfDay(range.start, q.zone, now) /\ to = endOfDay(range.end, q.zone, now)
            /\ shifted = shiftInstant(p.as_of, q.zone, p.type, -1)
            /\ actual = IF p.state = "past" THEN to ELSE shifted
      OBVIOUS
    <2>6. from \in Int /\ to \in Int
      BY <2>2, <2>5, DayBounds
    <2>7. shifted \in Int
      BY <2>1, <2>2, <2>3, ShiftType
    <2>8. actual \in Int
      BY <2>6, <2>7
    <2>9. Min({actual, to}) \in Int
      BY <2>6, <2>8, MinOfTwo
    <2>10. previous = [start_date |-> range.start, end_date |-> range.end, from |-> from, to |-> to,
                       actual_to |-> Min({actual, to})]
      BY <1>3, <2>1 DEF resolvePreviousPeriod, boundsOf
    <2>11. previous \in PreviousPeriod
      BY <2>5, <2>6, <2>9, <2>10 DEF PreviousPeriod
    <2> QED
      BY <1>3, <2>11
  <1> QED
    BY <1>1, <1>2, <1>3

LEMMA KeyTyped ==
  ASSUME NEW d \in Int, NEW unit \in TrendUnits
  PROVE  unitKey(d, unit) \in TrendUnits \X Int
  <1>1. CASE unit = "day"
    BY <1>1 DEF unitKey, StartOf
  <1>2. CASE unit = "week"
    <2>1. (d + 6) % 7 \in Int
      BY SMT
    <2> QED
      BY <1>2, <2>1 DEF unitKey, StartOf
  <1>3. CASE unit = "month"
    <2>1. FirstOfMonth(MonthOf(d)) \in Int
      BY MonthOfDay, MonthLength
    <2> QED
      BY <1>3, <2>1 DEF unitKey, StartOf
  <1> QED
    BY <1>1, <1>2, <1>3 DEF TrendUnits

LEMMA IntervalsTyped ==
  ASSUME NEW q \in StatQueries, NEW now \in Nows, periodErrors(q, now) = {},
         NEW p, p = resolveStatisticsPeriod(q, now), NEW unit, unit = trendGranularity(p)
  PROVE  resolveTrendIntervals(p, unit, now) \in Seq(TrendInterval)
  <1>1. /\ IsPeriod(p) /\ p.start_date \in Int /\ p.end_date \in Int
        /\ p.start_date <= p.end_date /\ p.type \in PeriodTypes /\ p.time_zone = q.zone
        /\ p.as_of \in Int
    BY PeriodResolved DEF IsPeriod
  <1>2. unit \in {"day", "week", "month"} /\ unit \in TrendUnits
    BY <1>1, TrendUnit DEF TrendUnits
  <1>3. IsZone(q.zone) /\ now \in Int
    BY AsOfType
  <1> PICK parts : parts = splitRange(rangeOfPeriod(p), unit)
    OBVIOUS
  <1>4. PICK count \in Nat : /\ DOMAIN parts = 1..count
                             /\ \A i \in 1..count : parts[i].start \in Int /\ parts[i].end \in Int
    <2> PICK first, last : first = p.start_date /\ last = p.end_date
      OBVIOUS
    <2>1. parts = splitRange([start |-> first, end |-> last], unit)
      BY DEF rangeOfPeriod
    <2>2. first \in Int /\ last \in Int /\ first <= last
      BY <1>1
    <2>3. StartsAt(parts, first)
      BY <1>2, <2>1, <2>2, RangeIsSplit
    <2> QED
      BY <2>3 DEF StartsAt
  <1> DEFINE from(i) == startOfDay(parts[i].start, q.zone, now)
             to(i) == endOfDay(parts[i].end, q.zone, now)
             interval(i) == [key |-> unitKey(parts[i].start, unit), start_date |-> parts[i].start,
                             end_date |-> parts[i].end, from |-> from(i), to |-> to(i),
                             state |-> timeState(from(i), to(i), p.as_of)]
  <1>5. resolveTrendIntervals(p, unit, now) = [i \in DOMAIN parts |-> interval(i)]
    BY <1>1 DEF resolveTrendIntervals, boundsOf
  <1>6. \A i \in 1..count : interval(i) \in TrendInterval
    <2> TAKE i \in 1..count
    <2>1. parts[i].start \in Int /\ parts[i].end \in Int
      BY <1>4
    <2> PICK begin, end, key, state :
            /\ begin = from(i) /\ end = to(i) /\ key = unitKey(parts[i].start, unit)
            /\ state = timeState(begin, end, p.as_of)
      OBVIOUS
    <2>2. begin \in Int /\ end \in Int
      BY <1>3, <2>1, DayBounds
    <2>3. key \in TrendUnits \X Int
      BY <1>2, <2>1, KeyTyped
    <2>4. state \in States
      BY <1>1, <2>2, StateOfMoment DEF States
    <2>5. interval(i) = [key |-> key, start_date |-> parts[i].start, end_date |-> parts[i].end,
                         from |-> begin, to |-> end, state |-> state]
      OBVIOUS
    <2> HIDE DEF interval
    <2> QED
      BY <2>1, <2>2, <2>3, <2>4, <2>5 DEF TrendInterval
  <1> HIDE DEF interval
  <1>7. resolveTrendIntervals(p, unit, now) \in [1..count -> TrendInterval]
    BY <1>4, <1>5, <1>6
  <1> QED
    BY <1>7, SeqOfFunction

LEMMA TotalsTyped ==
  ASSUME NEW b \in Book, NEW rows \in SUBSET Rows(b)
  PROVE  TotalsOf(b, rows) \in Totals
  <1> PICK incomes, expenses : incomes = OfType(b, rows, "income") /\ expenses = OfType(b, rows, "expense")
    OBVIOUS
  <1>1. incomes \in SUBSET Rows(b) /\ expenses \in SUBSET Rows(b)
    BY DEF OfType
  <1>2. /\ Sum(b, incomes) \in Nat /\ Sum(b, expenses) \in Nat
        /\ Cardinality(incomes) \in Nat /\ Cardinality(expenses) \in Nat
    BY <1>1, ScopeSums
  <1>3. TotalsOf(b, rows) = [income |-> Sum(b, incomes), incomeCount |-> Cardinality(incomes),
                             expense |-> Sum(b, expenses), expenseCount |-> Cardinality(expenses)]
    BY DEF TotalsOf
  <1> QED
    BY <1>2, <1>3 DEF Totals

LEMMA ReadTotalsTyped ==
  ASSUME NEW b \in Book, NEW from, NEW to
  PROVE  /\ getStatisticsTotals(b, from, to) \in Totals
         /\ TotalsOf(b, {}) \in Totals
  <1>1. statisticsScope(b, from, to) \in SUBSET Rows(b) /\ {} \in SUBSET Rows(b)
    BY DEF statisticsScope, Regular
  <1> QED
    BY <1>1, TotalsTyped DEF getStatisticsTotals

LEMMA FiguresTyped ==
  ASSUME NEW totals \in Totals
  PROVE  figuresOf(totals) \in Figures /\ totals.income - totals.expense \in Int
  <1>1. /\ totals.income \in Nat /\ totals.incomeCount \in Nat
        /\ totals.expense \in Nat /\ totals.expenseCount \in Nat
    BY DEF Totals
  <1>2. totals.income - totals.expense \in Int /\ totals.incomeCount + totals.expenseCount \in Nat
    BY <1>1
  <1> QED
    BY <1>1, <1>2 DEF figuresOf, Figures, MoneyCount

LEMMA TenthsType ==
  ASSUME NEW part \in Int, NEW whole \in Nat, whole # 0
  PROVE  roundPercentToTenth(part, whole) \in Int
  <1> PICK dividend, divisor : dividend = part * 2000 + whole /\ divisor = whole * 2
    OBVIOUS
  <1>1. dividend \in Int /\ divisor \in Int /\ divisor > 0
    OBVIOUS
  <1>2. dividend \div divisor \in Int
    BY <1>1
  <1> QED
    BY <1>1, <1>2 DEF roundPercentToTenth, floorDiv

LEMMA ChangeTyped ==
  ASSUME NEW current \in Int, NEW was \in Int
  PROVE  changeOf(current, was) \in Change
  <1> PICK base, percent :
          /\ base = IF was < 0 THEN -was ELSE was
          /\ percent = IF base = 0 THEN None ELSE roundPercentToTenth(current - was, base)
    OBVIOUS
  <1>1. base \in Nat /\ current - was \in Int
    OBVIOUS
  <1>2. percent \in Int \cup {None}
    <2>1. CASE base = 0
      BY <2>1
    <2>2. CASE base # 0
      BY <1>1, <2>2, TenthsType
    <2> QED
      BY <2>1, <2>2
  <1>3. changeOf(current, was) = [delta |-> current - was, percent |-> percent]
    BY DEF changeOf
  <1> QED
    BY <1>1, <1>2, <1>3 DEF Change

LEMMA LastTyped ==
  ASSUME NEW b \in Book, NEW to
  PROVE  getLastStatisticsTimestamp(b, to) \in Int \cup {None}
  <1> PICK rows, times : /\ rows = statisticsScope(b, Unset, to)
                         /\ times = {b.txns[i].timestamp : i \in rows}
    OBVIOUS
  <1>1. rows \in SUBSET Rows(b) /\ IsFiniteSet(rows)
    <2>1. rows \in SUBSET Rows(b)
      BY DEF statisticsScope, Regular
    <2> QED
      BY <2>1, RowsAreFinite, FS_Subset
  <1>2. \A i \in rows : b.txns[i].timestamp \in Int
    BY <1>1, BookDated DEF Dated
  <1>3. IsFiniteSet(times) /\ \A x \in times : x \in Int
    <2> PICK f : f = [i \in rows |-> b.txns[i].timestamp]
      OBVIOUS
    <2>1. times = {f[i] : i \in rows}
      OBVIOUS
    <2>2. IsFiniteSet({f[i] : i \in rows})
      BY <1>1, ImageFinite
    <2>3. IsFiniteSet(times)
      BY <2>1, <2>2
    <2> QED
      BY <1>2, <2>3
  <1>4. getLastStatisticsTimestamp(b, to) = IF rows = {} THEN None ELSE Max(times)
    BY DEF getLastStatisticsTimestamp
  <1>5. rows # {} => Max(times) \in Int
    <2>1. rows # {} => times # {}
      OBVIOUS
    <2> QED
      BY <1>3, <2>1, Extremes
  <1> QED
    BY <1>4, <1>5

\* What a block in progress has read, and the blocks of a cycle.
SummaryGot(step, got) ==
  /\ got.previous \in PreviousPeriod \cup {Unset}
  /\ got.totals \in Totals
  /\ got.previousTotals \in Totals \cup {Unset}
  /\ step \in {"totals", "previous"} => got.previousTotals = Unset
  /\ step = "previous" => got.previous # Unset
  /\ step = "last" => (got.previous = Unset <=> got.previousTotals = Unset)

GotTyped(r) ==
  r.kind \in Blocks /\ r.step # "open" =>
    /\ r.got.period \in StatisticsPeriod /\ IsZone(r.got.period.time_zone)
    /\ r.kind = "summary" => SummaryGot(r.step, r.got)
    /\ r.kind = "trend" => r.got.intervals \in Seq(TrendInterval)

BlocksTyped(c) == \A k \in Blocks : c.block[k] # None => IsBlock(k, c.block[k])

CycleInv ==
  /\ GotTyped(request)
  /\ cycle # None \/ request.kind \in Blocks => BlocksTyped(cycle)

LEMMA BlockFacts ==
  ASSUME StatInv, CycleInv, request.kind \in Blocks
  PROVE  /\ Seen \in Book /\ BlockReadOK(request) /\ GotTyped(request) /\ BlocksTyped(cycle)
         /\ DOMAIN cycle.block = Blocks
  <1>1. PICK hist : StatWith(hist)
    BY DEF StatInv
  <1>2. Seen \in Book /\ BlockReadOK(request)
    BY <1>1, StatSees
  <1> QED
    BY <1>1, <1>2 DEF StatWith, CycleOK, CycleInv

LEMMA BlockAnswered ==
  ASSUME StatInv, CycleInv, request.kind \in Blocks, NEW content, RespondBlock(content),
         IsBlock(request.kind, content)
  PROVE  CycleInv'
  <1> PICK kind, c : kind = request.kind /\ c = cycle
    OBVIOUS
  <1> PICK d : d = [query |-> c.query, block |-> [c.block EXCEPT ![kind] = content]]
    OBVIOUS
  <1>1. BlocksTyped(c) /\ DOMAIN c.block = Blocks
    BY BlockFacts
  <1>2. \A k \in Blocks : d.block[k] = IF k = kind THEN content ELSE c.block[k]
    BY <1>1
  <1>3. BlocksTyped(d)
    BY <1>1, <1>2 DEF BlocksTyped
  <1>4. request' = Idle /\ cycle' = d
    BY DEF RespondBlock, Respond
  <1>5. GotTyped(request')
    BY <1>4 DEF GotTyped, Idle, Blocks
  <1> QED
    BY <1>3, <1>4, <1>5 DEF CycleInv

\* Another step of a block.
LEMMA BlockGoesOn ==
  ASSUME CycleInv, request.kind \in Blocks, UNCHANGED cycle, request'.kind \in Blocks,
         GotTyped(request')
  PROVE  CycleInv'
  BY DEF CycleInv

LEMMA OpenedTyped ==
  ASSUME StatInv, CycleInv, OpenBlock
  PROVE  CycleInv'
  <1>1. /\ request.kind \in Blocks /\ UNCHANGED cycle
        /\ periodErrors(request.ask.query, clock) = {}
    BY DEF OpenBlock
  <1> PICK kind, ask, q, now, p, previous, unit, intervals, totals :
          /\ kind = request.kind /\ ask = request.ask /\ q = ask.query /\ now = clock
          /\ p = resolveStatisticsPeriod(q, now) /\ previous = resolvePreviousPeriod(p, now)
          /\ unit = trendGranularity(p) /\ intervals = resolveTrendIntervals(p, unit, now)
          /\ totals = TotalsOf(book, {})
    OBVIOUS
  <1>2. q \in StatQueries /\ now \in Nows /\ periodErrors(q, now) = {}
    BY <1>1, BlockFacts DEF BlockReadOK, StatInv
  <1>3. PICK got : /\ request' = InProgress(kind, FirstRead(kind, p), ask,
                                            request.snapshot, request.at, got)
                   /\ got = CASE kind = "summary" ->
                                   [period |-> p, previous |-> previous, totals |-> totals,
                                    previousTotals |-> Unset]
                              [] kind = "trend" -> [period |-> p, intervals |-> intervals]
                              [] OTHER -> [period |-> p]
    BY DEF OpenBlock
  <1> PICK step : step = FirstRead(kind, p)
    OBVIOUS
  <1>4. request'.kind = kind /\ request'.step = step /\ request'.got = got
    BY <1>3 DEF InProgress
  <1>5. got.period = p /\ p \in StatisticsPeriod /\ IsZone(p.time_zone)
    <2>1. p.time_zone = q.zone /\ IsZone(q.zone)
      BY <1>2, PeriodResolved, AsOfType
    <2> QED
      BY <1>2, <1>3, <2>1, PeriodTyped
  <1>6. CASE kind = "summary"
    <2>1. got.previous = previous /\ got.totals = totals /\ got.previousTotals = Unset
      BY <1>3, <1>6
    <2>2. /\ previous \in PreviousPeriod \cup {Unset}
          /\ p.state = "future" => previous = Unset
      BY <1>2, PreviousTyped
    <2>3. totals \in Totals
      BY ReadTotalsTyped DEF StatInv
    <2>4. /\ p.state = "future" => step = "last"
          /\ p.state # "future" => step = "totals"
      BY <1>6 DEF FirstRead
    <2>5. SummaryGot(step, got)
      BY <2>1, <2>2, <2>3, <2>4 DEF SummaryGot
    <2>6. GotTyped(request')
      BY <1>4, <1>5, <1>6, <2>5 DEF GotTyped
    <2> QED
      BY <1>1, <1>4, <2>6, BlockGoesOn
  <1>7. CASE kind = "trend"
    <2>1. got.intervals = intervals
      BY <1>3, <1>7
    <2>2. intervals \in Seq(TrendInterval)
      BY <1>2, IntervalsTyped
    <2>3. GotTyped(request')
      BY <1>4, <1>5, <1>7, <2>1, <2>2 DEF GotTyped
    <2> QED
      BY <1>1, <1>4, <2>3, BlockGoesOn
  <1>8. CASE kind = "breakdown"
    <2>1. GotTyped(request')
      BY <1>4, <1>5, <1>8 DEF GotTyped
    <2> QED
      BY <1>1, <1>4, <2>1, BlockGoesOn
  <1> QED
    BY <1>1, <1>6, <1>7, <1>8 DEF Blocks

LEMMA TotalsReadTyped ==
  ASSUME StatInv, CycleInv, ReadTotals \/ ReadPrevious
  PROVE  CycleInv'
  <1>1. request.kind = "summary" /\ request.kind \in Blocks /\ UNCHANGED cycle
    BY DEF ReadTotals, ReadPrevious, InStep, Blocks
  <1> PICK b, got, old : b = Seen /\ got = request.got /\ old = request
    OBVIOUS
  <1>2. old.step \in {"totals", "previous"} /\ old.step # "open"
    BY DEF ReadTotals, ReadPrevious, InStep
  <1>3. /\ b \in Book /\ SummaryGot(old.step, got)
        /\ got.period \in StatisticsPeriod /\ IsZone(got.period.time_zone)
        /\ DOMAIN got = {"period", "previous", "totals", "previousTotals"}
    BY <1>1, <1>2, BlockFacts DEF BlockReadOK, GotTyped
  <1>4. got.previous \in PreviousPeriod \cup {Unset} /\ got.totals \in Totals /\ got.previousTotals = Unset
    BY <1>2, <1>3 DEF SummaryGot
  <1>5. ASSUME NEW step \in {"previous", "last"}, NEW new, ReadAndGo(step, new),
               new.period = got.period, SummaryGot(step, new)
        PROVE  CycleInv'
    <2>1. request'.kind = "summary" /\ request'.step = step /\ request'.got = new
      BY <1>1, <1>5 DEF ReadAndGo, InProgress
    <2>2. GotTyped(request')
      BY <1>3, <1>5, <2>1 DEF GotTyped
    <2> QED
      BY <1>1, <2>1, <2>2, BlockGoesOn
  <1>6. CASE ReadTotals
    <2> PICK totals, step, new :
            /\ totals = getStatisticsTotals(b, got.period.from, got.period.actual_to)
            /\ step = IF got.previous = Unset THEN "last" ELSE "previous"
            /\ new = [got EXCEPT !.totals = totals]
      OBVIOUS
    <2>1. ReadAndGo(step, new)
      BY <1>6 DEF ReadTotals
    <2>2. totals \in Totals
      BY <1>3, ReadTotalsTyped
    <2>3. /\ new.period = got.period /\ new.previous = got.previous /\ new.totals = totals
          /\ new.previousTotals = Unset
      BY <1>3, <1>4
    <2>4. step \in {"previous", "last"} /\ SummaryGot(step, new)
      BY <1>4, <2>2, <2>3 DEF SummaryGot
    <2> QED
      BY <1>5, <2>1, <2>3, <2>4
  <1>7. CASE ReadPrevious
    <2> PICK was, new :
            /\ was = getStatisticsTotals(b, got.previous.from, got.previous.actual_to)
            /\ new = [got EXCEPT !.previousTotals = was]
      OBVIOUS
    <2>1. ReadAndGo("last", new) /\ old.step = "previous"
      BY <1>7 DEF ReadPrevious, InStep
    <2>2. was \in Totals /\ was # Unset
      BY <1>3, ReadTotalsTyped, UnreadAssumption
    <2>3. /\ new.period = got.period /\ new.previous = got.previous /\ new.totals = got.totals
          /\ new.previousTotals = was
      BY <1>3
    <2>4. got.previous # Unset
      BY <1>3, <2>1 DEF SummaryGot
    <2>5. SummaryGot("last", new)
      BY <1>4, <2>2, <2>3, <2>4 DEF SummaryGot
    <2> QED
      BY <1>5, <2>1, <2>3, <2>5
  <1> QED
    BY <1>6, <1>7

\* A summary is compared when the previous period was read.
LEMMA ComparisonTyped ==
  ASSUME NEW totals \in Totals, NEW was \in Totals \cup {Unset},
         NEW previous, NEW change,
         previous = (IF was = Unset THEN None ELSE figuresOf(was)),
         change = (IF was = Unset THEN None
                   ELSE [income |-> changeOf(totals.income, was.income),
                         expense |-> changeOf(totals.expense, was.expense),
                         net |-> changeOf(totals.income - totals.expense,
                                          was.income - was.expense)])
  PROVE  /\ previous \in Figures \cup {None} /\ (was = Unset <=> previous = None)
         /\ change \in Changes \cup {None} /\ (was = Unset <=> change = None)
  <1>1. CASE was = Unset
    BY <1>1
  <1>2. CASE was # Unset
    <2>1. was \in Totals
      BY <1>2
    <2>2. figuresOf(was) \in Figures
      BY <2>1, FiguresTyped
    <2> PICK net, netBefore : net = totals.income - totals.expense /\ netBefore = was.income - was.expense
      OBVIOUS
    <2>3. /\ totals.income \in Int /\ was.income \in Int /\ totals.expense \in Int
          /\ was.expense \in Int /\ net \in Int /\ netBefore \in Int
      BY <2>1 DEF Totals
    <2> PICK x, y, z : /\ x = changeOf(totals.income, was.income)
                       /\ y = changeOf(totals.expense, was.expense) /\ z = changeOf(net, netBefore)
      OBVIOUS
    <2>4. x \in Change /\ y \in Change /\ z \in Change
      BY <2>3, ChangeTyped
    <2>5. change = [income |-> x, expense |-> y, net |-> z]
      BY <1>2
    <2>6. change \in Changes
      BY <2>4, <2>5 DEF Changes
    <2> QED
      BY <1>2, <2>2, <2>6, NullAssumption
  <1> QED
    BY <1>1, <1>2

LEMMA LastReadTyped ==
  ASSUME StatInv, CycleInv, ReadLast
  PROVE  CycleInv'
  <1>1. request.kind = "summary" /\ request.step = "last" /\ request.kind \in Blocks
    BY DEF ReadLast, InStep, Blocks
  <1> PICK b, got, p, was, last : /\ b = Seen /\ got = request.got /\ p = request.got.period
                                  /\ was = request.got.previousTotals
                                  /\ last = getLastStatisticsTimestamp(b, p.as_of)
    OBVIOUS
  <1>2. /\ b \in Book /\ p \in StatisticsPeriod /\ IsZone(p.time_zone)
        /\ SummaryGot("last", got)
    BY <1>1, BlockFacts DEF GotTyped
  <1>3. /\ got.previous \in PreviousPeriod \cup {Unset} /\ got.totals \in Totals
        /\ was \in Totals \cup {Unset} /\ (got.previous = Unset <=> was = Unset)
    BY <1>2 DEF SummaryGot
  <1> PICK figures, previousFigures, change, has_any, lastDate :
          /\ figures = figuresOf(got.totals)
          /\ previousFigures = (IF was = Unset THEN None ELSE figuresOf(was))
          /\ change = (IF was = Unset THEN None
                       ELSE [income |-> changeOf(got.totals.income, was.income),
                             expense |-> changeOf(got.totals.expense, was.expense),
                             net |-> changeOf(got.totals.income - got.totals.expense,
                                              was.income - was.expense)])
          /\ has_any = (last # None)
          /\ lastDate = (IF last = None THEN None ELSE calendarDateAt(last, p.time_zone))
    OBVIOUS
  <1>4. figures \in Figures
    BY <1>3, FiguresTyped
  <1>5. /\ previousFigures \in Figures \cup {None} /\ (was = Unset <=> previousFigures = None)
        /\ change \in Changes \cup {None} /\ (was = Unset <=> change = None)
    <2> PICK totals : totals = got.totals
      OBVIOUS
    <2>1. change = (IF was = Unset THEN None
                    ELSE [income |-> changeOf(totals.income, was.income),
                          expense |-> changeOf(totals.expense, was.expense),
                          net |-> changeOf(totals.income - totals.expense,
                                           was.income - was.expense)])
      OBVIOUS
    <2> QED
      BY <1>3, <2>1, ComparisonTyped
  <1>6. has_any \in BOOLEAN
    <2>1. (last # None) \in BOOLEAN
      OBVIOUS
    <2> QED
      BY <2>1, Zenon
  <1>7. lastDate \in Int \cup {None} /\ (lastDate = None <=> last = None)
    <2>1. last \in Int \cup {None}
      BY <1>2, LastTyped
    <2>2. last \in Int => calendarDateAt(last, p.time_zone) \in Int
      BY <1>2, DateType
    <2> QED
      BY <2>1, <2>2, NullAssumption
  <1> PICK content :
          content = [at |-> SeenAt, period |-> p, previous |-> got.previous,
                     figures |-> figures, previousFigures |-> previousFigures,
                     change |-> change, has_any |-> has_any, lastDate |-> lastDate]
    OBVIOUS
  <1>8. RespondBlock(content)
    BY Zenon DEF ReadLast
  <1>9. /\ content.period = p /\ content.previous = got.previous /\ content.figures = figures
        /\ content.previousFigures = previousFigures /\ content.change = change
        /\ content.has_any = has_any /\ content.lastDate = lastDate
    OBVIOUS
  <1>10. IsSummary(content)
    BY <1>2, <1>3, <1>4, <1>5, <1>6, <1>7, <1>9 DEF IsSummary
  <1>11. IsBlock(request.kind, content)
    BY <1>1, <1>10 DEF IsBlock
  <1> QED
    BY <1>1, <1>8, <1>11, BlockAnswered

\* The sums of the intervals that have begun.
LEMMA SumsTyped ==
  ASSUME NEW b \in Book, NEW from, NEW to, NEW ends, NEW m \in Nat, DOMAIN ends = 1..m,
         NEW i \in 1..m
  PROVE  getStatisticsIntervalTotals(b, from, to, ends)[i] \in Totals
  <1> PICK rows : rows = statisticsScope(b, from, to)
    OBVIOUS
  <1> PICK k : k = IntervalsOf(b, rows, ends)
    OBVIOUS
  <1>1. getStatisticsIntervalTotals(b, from, to, ends) = SumsOf(b, rows, k, m)
    BY IntervalTotals
  <1>2. PartOf(rows, k, i) \in SUBSET Rows(b)
    BY DEF PartOf, statisticsScope, Regular
  <1>3. TotalsOf(b, PartOf(rows, k, i)) \in Totals
    BY <1>2, TotalsTyped
  <1> QED
    BY <1>1, <1>3 DEF SumsOf

LEMMA TrendReadTyped ==
  ASSUME StatInv, CycleInv, ReadTrend
  PROVE  CycleInv'
  <1>1. request.kind = "trend" /\ request.step = "sums" /\ request.kind \in Blocks
    BY DEF ReadTrend, InStep, Blocks
  <1> PICK b, p, intervals : b = Seen /\ p = request.got.period /\ intervals = request.got.intervals
    OBVIOUS
  <1>2. /\ b \in Book /\ p \in StatisticsPeriod /\ intervals \in Seq(TrendInterval)
        /\ IsPeriod(p) /\ IsSplit(p, intervals)
    BY <1>1, BlockFacts DEF GotTyped, BlockReadOK
  <1>s. PICK ends, sums :
          /\ ends = EndsOf(intervals)
          /\ sums = IF p.actual_to = Unset THEN <<>>
                    ELSE getStatisticsIntervalTotals(b, p.from, p.actual_to, ends)
    OBVIOUS
  <1>g. PICK granularity, income, expense, buckets :
          /\ granularity = trendGranularity(p)
          /\ income = addTotals(sums, "income", "incomeCount")
          /\ expense = addTotals(sums, "expense", "expenseCount")
          /\ buckets = [i \in DOMAIN intervals |->
                           [interval |-> intervals[i],
                            income |-> IF i \in DOMAIN sums THEN sums[i].income ELSE None,
                            expense |-> IF i \in DOMAIN sums THEN sums[i].expense ELSE None]]
    OBVIOUS
  <1>c. PICK content :
          content = [at |-> SeenAt, period |-> p, granularity |-> granularity,
                     totals |-> [income |-> income, expense |-> expense], buckets |-> buckets]
    OBVIOUS
  <1>3. RespondBlock(content)
    <2>1. RespondBlock([at |-> SeenAt, period |-> p, granularity |-> granularity,
                        totals |-> [income |-> addTotals(sums, "income", "incomeCount"),
                                    expense |-> addTotals(sums, "expense", "expenseCount")],
                        buckets |-> buckets])
      BY <1>s, <1>g DEF ReadTrend, EndsOf, StartedOf
    <2> QED
      BY <1>c, <1>g, <2>1
  <1>4. granularity \in TrendUnits
    BY <1>g, <1>2, TrendUnit DEF StatisticsPeriod, TrendUnits
  <1>5. income \in MoneyCount /\ expense \in MoneyCount
    <2> PICK totals : totals = TotalsOf(b, PeriodRows(b, p))
      OBVIOUS
    <2>1. TrendTotals(totals, sums)
      BY <1>s, <1>2, TrendRead
    <2>2. totals \in Totals
      BY <1>2, ScopeIsRegular, TotalsTyped
    <2> QED
      BY <1>g, <2>1, <2>2 DEF TrendTotals, MoneyCountOf, Totals, MoneyCount
  <1>6. \A i \in DOMAIN sums : sums[i].income \in Nat /\ sums[i].expense \in Nat
    <2>1. CASE p.actual_to = Unset
      BY <1>s, <2>1
    <2>2. CASE p.actual_to # Unset
      <3>1. PICK count \in Nat : DOMAIN intervals = 1..count
        BY <1>2 DEF IsSplit
      <3>i. PICK S, started : /\ S = {i \in Range(intervals) : i.state # "future"}
                              /\ started = Filtered(intervals, S)
        OBVIOUS
      <3>f. \E m \in Nat : /\ DOMAIN Filtered(intervals, S) = 1..m
                           /\ (\E n \in 1..count : intervals[n] \in S) => m # 0
        BY <3>1, FilteredLength
      <3>2. PICK m \in Nat : DOMAIN started = 1..m
        BY <3>f, <3>i, Zenon
      <3>3. DOMAIN ends = 1..m
        BY <1>s, <3>i, <3>2 DEF EndsOf, StartedOf
      <3>4. DOMAIN sums = 1..m
        BY <1>s, <2>2, <3>3, IntervalTotals DEF SumsOf
      <3>5. \A i \in 1..m : sums[i] \in Totals
        BY <1>s, <1>2, <2>2, <3>3, SumsTyped
      <3> QED
        BY <3>4, <3>5 DEF Totals
    <2> QED
      BY <2>1, <2>2
  <1>7. buckets \in Seq(TrendBucket)
    <2>1. Len(intervals) \in Nat /\ DOMAIN intervals = 1..Len(intervals)
      BY <1>2, LenProperties
    <2>2. \A i \in DOMAIN intervals : buckets[i] \in TrendBucket
      <3> TAKE i \in DOMAIN intervals
      <3>1. intervals[i] \in TrendInterval
        BY <1>2, <2>1, ElementOfSeq
      <3> PICK x, y : /\ x = (IF i \in DOMAIN sums THEN sums[i].income ELSE None)
                      /\ y = (IF i \in DOMAIN sums THEN sums[i].expense ELSE None)
        OBVIOUS
      <3>2. x \in Nat \cup {None} /\ y \in Nat \cup {None}
        BY <1>6
      <3>3. buckets[i] = [interval |-> intervals[i], income |-> x, expense |-> y]
        BY <1>g
      <3> QED
        BY <3>1, <3>2, <3>3 DEF TrendBucket
    <2>3. buckets \in [1..Len(intervals) -> TrendBucket]
      BY <1>g, <2>1, <2>2
    <2> QED
      BY <2>1, <2>3, SeqOfFunction
  <1>8. /\ content.period = p /\ content.granularity = granularity
        /\ content.totals = [income |-> income, expense |-> expense] /\ content.buckets = buckets
    BY <1>c
  <1>9. IsTrend(content)
    BY <1>2, <1>4, <1>5, <1>7, <1>8 DEF IsTrend
  <1>10. IsBlock(request.kind, content)
    BY <1>1, <1>9 DEF IsBlock
  <1> QED
    BY <1>1, <1>3, <1>10, BlockAnswered

-----------------------------------------------------------------------------
(* What a breakdown is made of.                                            *)

\* A part of a whole is at most a hundred percent of it.
LEMMA PercentOfPart ==
  ASSUME NEW part \in Nat, NEW whole \in Nat, part <= whole
  PROVE  roundPercentToTenth(part, whole) \in Percents
  <1>1. CASE whole = 0
    BY <1>1 DEF roundPercentToTenth, Percents
  <1>2. CASE whole # 0
    <2> PICK dividend, divisor : dividend = part * 2000 + whole /\ divisor = whole * 2
      OBVIOUS
    <2>1. dividend \in Nat /\ divisor \in Nat /\ divisor > 0 /\ dividend < 1001 * divisor
      BY <1>2
    <2>2. dividend \div divisor \in 0..1000
      <3> PICK n : n = dividend \div divisor
        OBVIOUS
      <3>1. n \in Int /\ n * divisor <= dividend /\ dividend < (n + 1) * divisor
        BY <2>1
      <3>2. ASSUME n > 1000 PROVE FALSE
        <4>1. n >= 1001
          BY <3>1, <3>2
        <4>2. n * divisor >= 1001 * divisor
          BY <2>1, <3>1, <4>1
        <4> QED
          BY <2>1, <3>1, <4>2
      <3>3. ASSUME n < 0 PROVE FALSE
        <4>1. n + 1 <= 0
          BY <3>1, <3>3
        <4>2. (n + 1) * divisor <= 0
          BY <2>1, <3>1, <4>1
        <4> QED
          BY <2>1, <3>1, <4>2
      <3> QED
        BY <3>1, <3>2, <3>3
    <2> QED
      BY <1>2, <2>1, <2>2 DEF roundPercentToTenth, floorDiv, Percents
  <1> QED
    BY <1>1, <1>2

LEMMA ItemTyped ==
  ASSUME NEW ids, NEW g, NEW total \in Nat, g.id \in ids, g.amount \in Nat, g.amount # 0,
         g.amount <= total, g.isArchived \in BOOLEAN
  PROVE  toItem(g, total) \in Item(ids)
  <1> PICK id, amount, percent, archived :
          /\ id = g.id /\ amount = g.amount /\ percent = roundPercentToTenth(amount, total)
          /\ archived = g.isArchived
    OBVIOUS
  <1>1. id \in ids /\ amount \in Nat \ {0} /\ percent \in Percents
    BY PercentOfPart
  <1>2. archived \in BOOLEAN
    BY Zenon
  <1>3. toItem(g, total) = [id |-> id, amount |-> amount, percent |-> percent,
                            is_archived |-> archived]
    BY Zenon DEF toItem
  <1>4. [id |-> id, amount |-> amount, percent |-> percent, is_archived |-> archived]
            \in [id : ids, amount : Nat \ {0}, percent : Percents, is_archived : BOOLEAN]
    BY <1>1, <1>2
  <1> QED
    BY <1>3, <1>4 DEF Item

\* A sequence of groups shown as one of items.
LEMMA ItemsTyped ==
  ASSUME NEW ids, NEW S, NEW total \in Nat, NEW s \in Seq(S),
         \A g \in S : toItem(g, total) \in Item(ids)
  PROVE  [n \in DOMAIN s |-> toItem(s[n], total)] \in Seq(Item(ids))
  <1> PICK items, n, shown : /\ items = Item(ids) /\ n = Len(s)
                             /\ shown = [k \in DOMAIN s |-> toItem(s[k], total)]
    OBVIOUS
  <1>1. n \in Nat /\ DOMAIN s = 1..n /\ \A k \in 1..n : s[k] \in S
    BY LenProperties, ElementOfSeq
  <1>2. shown \in [1..n -> items]
    BY <1>1
  <1> QED
    BY <1>1, <1>2, SeqOfFunction

\* The amounts of some of the groups, not more than those of all.
LEMMA SumOfSome ==
  ASSUME NEW groups, IsFiniteSet(groups), \A g \in groups : g.amount \in Nat,
         NEW some \in SUBSET groups
  PROVE  /\ IsFiniteSet(some) /\ sumOf(some) \in Nat
         /\ sumOf(some) = Total(GroupAmounts(groups), some)
         /\ sumOf(some) <= Total(GroupAmounts(groups), groups)
         /\ Total(GroupAmounts(groups), groups) \in Nat
         /\ \A g \in some : g.amount <= sumOf(some)
  <1> PICK A, S : A = GroupAmounts(groups) /\ S = GroupAmounts(some)
    OBVIOUS
  <1>1. IsFiniteSet(some) /\ \A g \in some : g.amount \in Nat
    BY FS_Subset
  <1>2. /\ \A g \in groups : A[g] = g.amount /\ A[g] \in Nat
        /\ \A g \in some : S[g] = g.amount /\ S[g] = A[g] /\ S[g] \in Nat
    BY DEF GroupAmounts
  <1>3. sumOf(some) = Total(S, some) /\ sumOf(some) \in Nat /\ Summable(S, some)
    BY <1>1, GroupsSum
  <1>4. Total(S, some) = Total(A, some)
    BY <1>2, <1>3, TotalSame
  <1>5. Summable(A, groups) /\ Total(A, groups) \in Nat
    BY <1>2, TotalNat
  <1>6. Total(A, some) <= Total(A, groups)
    BY <1>2, <1>5, TotalPart
  <1>7. \A g \in some : g.amount <= sumOf(some)
    BY <1>1, <1>2, <1>3, TotalAtLeast
  <1> QED
    BY <1>1, <1>3, <1>4, <1>5, <1>6, <1>7

LEMMA DeletedTyped ==
  ASSUME NEW deleted, IsFiniteSet(deleted),
         \A w \in deleted : w.amount \in Nat /\ w.amount # 0, NEW total \in Nat,
         Total(GroupAmounts(deleted), deleted) <= total
  PROVE  /\ deletedWallets(deleted, total) \in DeletedWalletsItem \cup {None}
         /\ deleted = {} => deletedWallets(deleted, total) = None
  <1> PICK item, sum, percent, size :
          /\ item = deletedWallets(deleted, total) /\ sum = sumOf(deleted)
          /\ percent = roundPercentToTenth(sum, total) /\ size = Cardinality(deleted)
    OBVIOUS
  <1>1. CASE deleted = {}
    BY <1>1 DEF deletedWallets
  <1>2. CASE deleted # {}
    <2>1. /\ sum \in Nat /\ sum <= total /\ \A w \in deleted : w.amount <= sum
      BY SumOfSome
    <2>2. PICK w \in deleted : TRUE
      BY <1>2
    <2>3. sum \in Nat \ {0}
      BY <2>1, <2>2
    <2>4. percent \in Percents
      BY <2>1, PercentOfPart
    <2>5. size \in Nat \ {0}
      BY <1>2, FS_CardinalityType, FS_EmptySet
    <2>6. item = [amount |-> sum, percent |-> percent, wallets_count |-> size]
      BY <1>2 DEF deletedWallets
    <2> QED
      BY <1>2, <2>3, <2>4, <2>5, <2>6 DEF DeletedWalletsItem
  <1> QED
    BY <1>1, <1>2

LEMMA OtherTyped ==
  ASSUME NEW ids, NEW groups, IsFiniteSet(groups), \A g \in groups : g.amount \in Nat,
         NEW total \in Nat, Total(GroupAmounts(groups), groups) <= total,
         NEW S \in SUBSET groups, \A g \in S : g.amount # 0 /\ toItem(g, total) \in Item(ids),
         NEW folded \in Seq(S)
  PROVE  otherOf(folded, total) \in OtherItem(ids) \cup {None}
  <1> PICK item, some, sum, percent, children :
          /\ item = otherOf(folded, total) /\ some = Range(folded) /\ sum = sumOf(some)
          /\ percent = roundPercentToTenth(sum, total)
          /\ children = [n \in DOMAIN folded |-> toItem(folded[n], total)]
    OBVIOUS
  <1>1. CASE folded = <<>>
    BY <1>1 DEF otherOf
  <1>2. CASE folded # <<>>
    <2> PICK n : n = Len(folded)
      OBVIOUS
    <2>1. /\ n \in Nat /\ DOMAIN folded = 1..n /\ n # 0
          /\ \A k \in 1..n : folded[k] \in S
      BY <1>2, LenProperties, ElementOfSeq, EmptySeq
    <2>2. some \in SUBSET S /\ folded[1] \in some
      BY <2>1 DEF Range
    <2>3. some \in SUBSET groups
      BY <2>2
    <2>4. sum \in Nat /\ sum <= total /\ \A g \in some : g.amount <= sum
      BY <2>3, SumOfSome
    <2>5. folded[1].amount \in Nat /\ folded[1].amount # 0
      BY <2>2
    <2>6. sum \in Nat \ {0}
      BY <2>2, <2>4, <2>5
    <2>7. percent \in Percents
      BY <2>4, PercentOfPart
    <2>8. children \in Seq(Item(ids))
      BY ItemsTyped
    <2>9. item = [amount |-> sum, percent |-> percent, children |-> children]
      BY <1>2 DEF otherOf
    <2> QED
      BY <2>6, <2>7, <2>8, <2>9 DEF OtherItem
  <1> QED
    BY <1>1, <1>2

\* A breakdown of groups and deleted wallets has items of its groups, each with
\* its part of the total.
LEMMA BreakdownTyped ==
  ASSUME NEW ids, NEW groups, GroupsOK(groups), \A g \in groups : g.id \in ids,
         NEW deleted, IsFiniteSet(deleted),
         \A w \in deleted : w.amount \in Nat /\ w.amount # 0, NEW total,
         total = Total(GroupAmounts(groups), groups)
                     + Total(GroupAmounts(deleted), deleted)
  PROVE  /\ Breakdown(groups, deleted, total) \in BreakdownOf(ids)
         /\ deleted = {} => Breakdown(groups, deleted, total).deleted = None
  <1> PICK A, D, sum, gone, S :
          /\ A = GroupAmounts(groups) /\ D = GroupAmounts(deleted)
          /\ sum = Total(A, groups) /\ gone = Total(D, deleted) /\ S = Positive(groups)
    OBVIOUS
  <1>1. \A g \in groups : A[g] = g.amount /\ g.amount \in Nat
    BY DEF GroupAmounts, GroupsOK
  <1>2. \A w \in deleted : D[w] = w.amount /\ D[w] \in Nat
    BY DEF GroupAmounts
  <1>3. sum \in Nat /\ \A g \in groups : g.amount <= sum
    <2>1. Total(A, groups) \in Nat
      BY <1>1, TotalNat DEF GroupsOK
    <2>2. \A g \in groups : A[g] <= Total(A, groups)
      BY <1>1, TotalAtLeast DEF GroupsOK
    <2> QED
      BY <1>1, <2>1, <2>2
  <1>4. gone \in Nat
    BY <1>2, TotalNat
  <1>5. total \in Nat /\ sum <= total /\ gone <= total
    BY <1>3, <1>4
  <1>6. S \in SUBSET groups /\ \A g \in S : g.amount # 0
    BY <1>1 DEF Positive
  <1>7. \A g \in S : toItem(g, total) \in Item(ids)
    <2> TAKE g \in S
    <2>1. g \in groups /\ g.id \in ids /\ g.amount \in Nat /\ g.amount # 0 /\ g.amount <= total
      BY <1>1, <1>3, <1>5, <1>6
    <2>2. g.isArchived \in BOOLEAN
      BY <2>1, Zenon DEF GroupsOK
    <2> QED
      BY <1>5, <2>1, <2>2, ItemTyped
  <1> PICK max, fold : max = MaxPrimary(deleted) /\ fold = foldGroups(groups, total, max)
    OBVIOUS
  <1>8. fold.primary \in Seq(S) /\ fold.folded \in Seq(S)
    <2>1. max \in Nat
      BY GroupAssumption DEF MaxPrimary
    <2>2. IsFold(fold, S, total, max)
      BY <1>5, <2>1, GroupsFolded
    <2> QED
      BY <2>2 DEF IsFold
  <1>p. PICK count, primary, gonePart, other :
          /\ count = Len(fold.primary) + Len(fold.folded) + Cardinality(deleted)
          /\ primary = [n \in DOMAIN fold.primary |-> toItem(fold.primary[n], total)]
          /\ gonePart = deletedWallets(deleted, total) /\ other = otherOf(fold.folded, total)
    OBVIOUS
  <1>9. count \in Nat
    <2>p. PICK p, f, d : p = Len(fold.primary) /\ f = Len(fold.folded) /\ d = Cardinality(deleted)
      OBVIOUS
    <2>1. p \in Nat /\ f \in Nat
      BY <2>p, <1>8, LenProperties
    <2>2. d \in Nat
      BY <2>p, FS_CardinalityType
    <2>3. count = p + f + d
      BY <1>p, <2>p
    <2> QED
      BY <2>1, <2>2, <2>3
  <1>10. primary \in Seq(Item(ids))
    <2> PICK shown : shown = fold.primary
      OBVIOUS
    <2>1. shown \in Seq(S)
      BY <1>8
    <2> QED
      BY <1>p, <1>5, <1>7, <2>1, ItemsTyped
  <1>11. /\ gonePart \in DeletedWalletsItem \cup {None}
         /\ deleted = {} => gonePart = None
    BY <1>p, <1>5, DeletedTyped
  <1>12. other \in OtherItem(ids) \cup {None}
    <2> PICK folded : folded = fold.folded
      OBVIOUS
    <2>1. folded \in Seq(S)
      BY <1>8
    <2>2. IsFiniteSet(groups)
      BY DEF GroupsOK
    <2> QED
      BY <1>p, <1>1, <1>5, <1>6, <1>7, <2>1, <2>2, OtherTyped
  <1>13. Breakdown(groups, deleted, total) =
             [total |-> total, source_count |-> count, primary |-> primary,
              deleted |-> gonePart, other |-> other]
    BY <1>p DEF Breakdown
  <1> QED
    <2> PICK b, items, others : /\ b = Breakdown(groups, deleted, total) /\ items = Seq(Item(ids))
                                /\ others = OtherItem(ids) \cup {None}
      OBVIOUS
    <2>1. b = [total |-> total, source_count |-> count, primary |-> primary,
               deleted |-> gonePart, other |-> other]
      BY <1>13
    <2> PICK goneParts : goneParts = DeletedWalletsItem \cup {None}
      OBVIOUS
    <2>r. /\ total \in Nat /\ count \in Nat /\ primary \in items /\ gonePart \in goneParts
          /\ other \in others
      BY <1>5, <1>9, <1>10, <1>11, <1>12
    <2>s. b \in [total : Nat, source_count : Nat, primary : items, deleted : goneParts,
                 other : others]
      BY <2>r, <2>1
    <2>2. b \in [total : Nat, source_count : Nat, primary : items,
                 deleted : DeletedWalletsItem \cup {None}, other : others]
      BY <2>s
    <2>3. b \in BreakdownOf(ids)
      BY <2>2 DEF BreakdownOf
    <2>4. b.deleted = gonePart
      BY <2>1
    <2> QED
      BY <1>11, <2>3, <2>4

LEMMA CategoriesTyped ==
  ASSUME NEW b \in Book, NEW rows \in SUBSET Regular(b, Rows(b)), NEW cats,
         GroupsOf(cats, b, rows, "category"), \A g \in cats : g.isArchived \in BOOLEAN
  PROVE  /\ buildCategoryBreakdown(cats) \in BreakdownOf(Categories)
         /\ buildCategoryBreakdown(cats).deleted = None
  <1> PICK total : total = sumOf(cats)
    OBVIOUS
  <1>1. rows \in SUBSET Rows(b)
    BY DEF Regular
  <1>2. IsFiniteSet(cats) /\ \A g \in cats : g.id \in Nat /\ g.amount \in Nat
    BY <1>1, GroupsTotal
  <1>3. /\ \A g \in cats : \E i \in rows : b.txns[i]["category"] = g.id
        /\ \A g, h \in cats : g.id = h.id => g = h
    BY DEF GroupsOf
  <1>4. GroupsOK(cats)
    BY <1>2, <1>3 DEF GroupsOK
  <1>5. \A g \in cats : g.id \in Categories
    <2>1. TAKE g \in cats
    <2>2. PICK i \in rows : b.txns[i]["category"] = g.id
      BY <1>3
    <2>3. b.txns[i] \in Txn /\ b.txns[i].category # System
      BY <1>1 DEF Book, Rows, Regular
    <2> QED
      BY <2>2, <2>3 DEF Txn
  <1>6. total = Total(GroupAmounts(cats), cats) + Total(GroupAmounts({}), {})
    <2>1. total = Total(GroupAmounts(cats), cats) /\ total \in Nat
      BY <1>2, GroupsSum
    <2>2. Total(GroupAmounts({}), {}) = 0
      BY EmptyTotal
    <2> QED
      BY <2>1, <2>2
  <1>7. IsFiniteSet({}) /\ \A w \in {} : w.amount \in Nat /\ w.amount # 0
    BY FS_EmptySet
  <1>8. buildCategoryBreakdown(cats) = Breakdown(cats, {}, total)
    BY DEF buildCategoryBreakdown
  <1> QED
    BY <1>4, <1>5, <1>6, <1>7, <1>8, BreakdownTyped

LEMMA WalletsTyped ==
  ASSUME NEW b \in Book, NEW rows \in SUBSET Rows(b), NEW wallets,
         \A i \in rows : b.txns[i].wallet \in SpaceWallets,
         GroupsOf(wallets, b, rows, "wallet")
  PROVE  buildWalletBreakdown(wallets) \in BreakdownOf(SpaceWallets)
  <1> PICK total, live, deleted :
          /\ total = sumOf(wallets) /\ live = LiveOf(wallets) /\ deleted = GoneOf(wallets)
    OBVIOUS
  <1>1. WalletGroupsOK(wallets, live, deleted, total)
    BY WalletGroups
  <1>2. buildWalletBreakdown(wallets) = Breakdown(live, deleted, total)
    BY DEF buildWalletBreakdown, LiveOf, GoneOf
  <1>3. \A g \in live : g.id \in SpaceWallets
    <2>1. TAKE g \in live
    <2>2. PICK w \in wallets : g.id = w.id
      BY <1>1 DEF WalletGroupsOK
    <2>3. PICK i \in rows : b.txns[i]["wallet"] = w.id
      BY DEF GroupsOf
    <2> QED
      BY <2>2, <2>3
  <1>4. /\ GroupsOK(live) /\ IsFiniteSet(deleted)
        /\ \A w \in deleted : w.amount \in Nat /\ w.amount # 0
        /\ total = Total(GroupAmounts(live), live) + Total(GroupAmounts(deleted), deleted)
    BY <1>1 DEF WalletGroupsOK
  <1> QED
    BY <1>2, <1>3, <1>4, BreakdownTyped

LEMMA BreakdownShownTyped ==
  ASSUME StatInv, CycleInv, request.kind = "breakdown", request.step # "open",
         NEW cats, NEW wallets, RespondBreakdown(cats, wallets),
         BlockGroups(cats, wallets, Seen,
                     OfType(Seen, PeriodRows(Seen, request.got.period), request.ask.type))
  PROVE  CycleInv'
  <1>1. request.kind \in Blocks
    BY DEF Blocks
  <1> PICK b, p, type, rows : /\ b = Seen /\ p = request.got.period /\ type = request.ask.type
                              /\ rows = OfType(b, PeriodRows(b, p), type)
    OBVIOUS
  <1>2. b \in Book /\ type \in Types /\ p \in StatisticsPeriod
    BY <1>1, BlockFacts DEF BlockReadOK, GotTyped
  <1>3. /\ rows \in SUBSET Regular(b, Rows(b)) /\ rows \in SUBSET Rows(b)
        /\ \A i \in rows : b.txns[i].wallet \in SpaceWallets
    BY ScopeIsRegular DEF OfType
  <1>4. BlockGroups(cats, wallets, b, rows)
    OBVIOUS
  <1> PICK sum, count, by_category, by_wallet :
          /\ sum = sumOf(cats) /\ count = SumFunction([g \in cats |-> g.count])
          /\ by_category = buildCategoryBreakdown(cats) /\ by_wallet = buildWalletBreakdown(wallets)
    OBVIOUS
  <1>5. /\ by_category \in BreakdownOf(Categories) /\ by_category.deleted = None
        /\ by_wallet \in BreakdownOf(SpaceWallets)
    BY <1>2, <1>3, <1>4, CategoriesTyped, WalletsTyped DEF BlockGroups
  <1>6. sum \in Nat /\ count \in Nat
    <2>1. sum = Sum(b, rows) /\ count = Cardinality(rows)
      BY <1>2, <1>3, <1>4, GroupsTotal DEF BlockGroups
    <2>2. IsFiniteSet(cats) /\ \A g \in cats : g.amount \in Nat
      BY <1>2, <1>3, <1>4, GroupsTotal DEF BlockGroups
    <2>3. sum \in Nat
      BY <2>2, GroupsSum
    <2>4. IsFiniteSet(rows)
      BY <1>2, <1>3, RowsAreFinite, FS_Subset
    <2> QED
      BY <2>1, <2>3, <2>4, FS_CardinalityType
  <1> PICK content :
          content = [at |-> SeenAt, period |-> p, type |-> type,
                     total |-> [amount |-> sum, count |-> count],
                     by_category |-> by_category, by_wallet |-> by_wallet]
    OBVIOUS
  <1>7. RespondBlock(content)
    BY DEF RespondBreakdown
  <1>8. /\ content.period = p /\ content.type = type
        /\ content.total = [amount |-> sum, count |-> count]
        /\ content.by_category = by_category /\ content.by_wallet = by_wallet
    OBVIOUS
  <1>9. IsBreakdown(content)
    BY <1>2, <1>5, <1>6, <1>8 DEF IsBreakdown, MoneyCount
  <1>10. IsBlock(request.kind, content)
    BY <1>9 DEF IsBlock
  <1> QED
    BY <1>1, <1>7, <1>10, BlockAnswered

LEMMA BreakdownReadTyped ==
  ASSUME StatInv, CycleInv, ReadCategories \/ ReadWallets
  PROVE  CycleInv'
  <1>1. request.kind = "breakdown" /\ request.step # "open" /\ request.kind \in Blocks
    BY DEF ReadCategories, ReadWallets, InStep, Blocks
  <1> PICK b, old, p, type : /\ b = Seen /\ old = request /\ p = request.got.period
                             /\ type = request.ask.type
    OBVIOUS
  <1>2. /\ BlockReadOK(old) /\ p \in StatisticsPeriod /\ IsZone(p.time_zone)
    BY <1>1, BlockFacts DEF GotTyped
  <1>s. b = old.snapshot \/ old.snapshot = None
    BY DEF Seen
  <1>3. ASSUME p.actual_to = Unset, RespondBreakdown({}, {}) PROVE CycleInv'
    <2>1. BlockGroups({}, {}, b, OfType(b, PeriodRows(b, p), type))
      BY <1>3, NoGroups
    <2> QED
      BY <1>1, <1>3, <2>1, BreakdownShownTyped
  <1> PICK cats, wallets :
          /\ cats = getStatisticsByCategory(b, type, p.from, p.actual_to)
          /\ wallets = getStatisticsByWallet(b, type, p.from, p.actual_to)
    OBVIOUS
  <1>4. ASSUME UNCHANGED cycle, ReadAndGo("wallets", [period |-> p, categories |-> cats])
        PROVE  CycleInv'
    <2> PICK got : got = [period |-> p, categories |-> cats]
      OBVIOUS
    <2>1. request'.kind = "breakdown" /\ request'.step = "wallets" /\ request'.got = got
      BY <1>1, <1>4 DEF ReadAndGo, InProgress
    <2>2. got.period = p
      OBVIOUS
    <2>3. GotTyped(request')
      BY <1>2, <2>1, <2>2 DEF GotTyped
    <2>4. request'.kind \in Blocks
      BY <1>1, <2>1
    <2> QED
      BY <1>1, <1>4, <2>3, <2>4, BlockGoesOn
  <1>5. CASE ReadCategories
    BY <1>3, <1>4, <1>5 DEF ReadCategories
  <1>6. CASE ReadWallets
    <2>1. old.step = "wallets" /\ RespondBreakdown(request.got.categories, wallets)
      BY <1>6 DEF ReadWallets, InStep
    <2>2. p.actual_to # Unset /\ request.got.categories = cats
      BY <1>1, <1>2, <1>s, <2>1 DEF BlockReadOK
    <2>3. BlockGroups(cats, wallets, b, OfType(b, PeriodRows(b, p), type))
      BY <2>2, GroupsAreRead
    <2> QED
      BY <1>1, <2>1, <2>2, <2>3, BreakdownShownTyped
  <1> QED
    BY <1>5, <1>6

-----------------------------------------------------------------------------
(* The other steps.                                                        *)

LEMMA CycleAsked ==
  ASSUME CycleInv, StatisticsRequests
  PROVE  CycleInv'
  <1>1. \E block, q, type : block \in Blocks /\ AskBlock(block, q, type)
    <2>1. "summary" \in Blocks /\ "trend" \in Blocks /\ "breakdown" \in Blocks
      BY DEF Blocks
    <2> QED
      BY <2>1, Zenon DEF StatisticsRequests
  <1> PICK block, q, type : block \in Blocks /\ AskBlock(block, q, type)
    BY <1>1, Zenon
  <1>2. request'.kind = block /\ request'.step = "open"
    BY <1>1 DEF AskBlock, Request, InProgress
  <1>3. GotTyped(request')
    BY <1>2 DEF GotTyped
  <1>4. CASE cycle' = NewCycle(q)
    <2>1. BlocksTyped(NewCycle(q))
      BY DEF BlocksTyped, NewCycle
    <2> QED
      BY <1>3, <1>4, <2>1 DEF CycleInv
  <1>5. CASE cycle # None /\ cycle' = cycle
    BY <1>3, <1>5 DEF CycleInv
  <1> QED
    BY <1>1, <1>4, <1>5 DEF AskBlock

\* A request of another kind leaves the blocks as they are, or drops them.
LEMMA CycleAside ==
  ASSUME CycleInv, request'.kind \notin Blocks, cycle' = cycle \/ cycle' = None
  PROVE  CycleInv'
  BY DEF CycleInv, GotTyped

LEMMA CycleInit ==
  Init => CycleInv
  BY DEF Init, CycleInv, GotTyped, Idle, Blocks

LEMMA CycleNext ==
  CycleInv /\ StatInv /\ [Next]_vars => CycleInv'
  <1>1. SUFFICES ASSUME CycleInv, StatInv, [Next]_vars PROVE CycleInv'
    OBVIOUS
  <1>2. CASE UNCHANGED <<request, cycle>>
    BY <1>1, <1>2 DEF CycleInv
  <1>3. CASE MemberWrites /\ UNCHANGED <<list, cycle>>
    BY <1>2, <1>3, WritesCounted
  <1>4. ASSUME NEW now \in Nows, Tick(now), UNCHANGED <<list, cycle>> PROVE CycleInv'
    BY <1>2, <1>4 DEF Tick
  <1>5. CASE FeedRequests /\ cycle' = None
    <2>1. request'.kind \in HistoryKinds
      BY <1>5, FeedAsks
    <2> QED
      BY <1>1, <1>5, <2>1, CycleAside DEF HistoryKinds, Blocks
  <1>6. CASE StatisticsRequests
    BY <1>1, <1>6, CycleAsked
  <1>7. CASE OverviewRequests /\ cycle' = None
    <2>1. request'.kind \in {"wallets", "limits", "categories"}
      BY <1>7, OverviewAsks
    <2> QED
      BY <1>1, <1>7, <2>1, CycleAside DEF Blocks
  <1>8. CASE (FeedSteps \/ OverviewSteps) /\ UNCHANGED cycle
    BY <1>1, <1>8, OtherReads, CycleAside
  <1>9. CASE StatisticsSteps
    <2>1. CASE OpenRefused
      <3>1. request'.kind \notin Blocks /\ cycle' = cycle
        BY <2>1 DEF OpenRefused, Respond, Idle, Blocks
      <3> QED
        BY <1>1, <3>1, CycleAside
    <2> QED
      BY <1>1, <1>9, <2>1, OpenedTyped, TotalsReadTyped, LastReadTyped, TrendReadTyped,
         BreakdownReadTyped DEF StatisticsSteps
  <1>10. CASE UNCHANGED vars
    BY <1>2, <1>10 DEF vars, history
  <1> QED
    BY <1>1, <1>3, <1>4, <1>5, <1>6, <1>7, <1>8, <1>9, <1>10 DEF Next

-----------------------------------------------------------------------------
(* Type correctness.                                                       *)

LEMMA ListIsTyped ==
  ASSUME FeedInv, Shaped(list), list # None
  PROVE  list \in List
  <1> PICK l : l = list
    OBVIOUS
  <1>1. /\ l = [query |-> l.query, items |-> l.items, older |-> l.older, newer |-> l.newer]
        /\ l.query \in Queries /\ ListOK(book, touched, l.query, l.items, l.older, l.newer)
    BY DEF FeedInv, ListStays, Shaped
  <1> PICK query, items, older, newer :
          query = l.query /\ items = l.items /\ older = l.older /\ newer = l.newer
    OBVIOUS
  <1>2. /\ items \in Seq(Position)
        /\ older # None => Len(items) > 0 /\ older = items[Len(items)]
        /\ newer # None => Len(items) > 0 /\ newer = items[1]
    BY <1>1 DEF ListOK
  <1>3. Len(items) \in Nat /\ \A n \in 1..Len(items) : items[n] \in Position
    BY <1>2, LenProperties, ElementOfSeq
  <1>4. older \in Position \cup {None} /\ newer \in Position \cup {None}
    BY <1>2, <1>3
  <1> PICK rows, cursors : rows = Seq(Position) /\ cursors = Position \cup {None}
    OBVIOUS
  <1>5. l \in [query : Queries, items : rows, older : cursors, newer : cursors]
    BY <1>1, <1>2, <1>4
  <1> QED
    BY <1>5 DEF List

TypeInv == FeedInv /\ StatInv /\ OverviewInv /\ Bounded /\ AnswerInv /\ CycleInv

LEMMA TypesKept ==
  TypeInv => TypeOK
  <1>1. SUFFICES ASSUME TypeInv PROVE TypeOK
    OBVIOUS
  <1>2. /\ book \in Book /\ clock \in Nows /\ writes \in 0..MaxEvents
        /\ touched \in (SUBSET Ids) \cup {None}
        /\ request # Idle => request.snapshot \in Book \cup {None} /\ request.at \in 0..writes
    BY <1>1 DEF TypeInv, StatInv, Bounded
  <1>3. list \in List \cup {None}
    BY <1>1, ListIsTyped DEF TypeInv, Bounded
  <1>4. answer # None => IsHistoryAnswer(answer)
    BY <1>1 DEF TypeInv, AnswerInv
  <1>5. ASSUME cycle # None, NEW k \in Blocks, cycle.block[k] # None
        PROVE  cycle.block[k].at \in 0..writes /\ IsBlock(k, cycle.block[k])
    <2>1. Have(k) /\ Block(k) = cycle.block[k]
      BY <1>5 DEF Have, Block
    <2>2. cycle.block[k].at \in 0..writes
      BY <1>1, <2>1, HavingBlocks DEF TypeInv
    <2>3. IsBlock(k, cycle.block[k])
      BY <1>1, <1>5 DEF TypeInv, CycleInv, BlocksTyped
    <2> QED
      BY <2>2, <2>3
  <1> QED
    BY <1>2, <1>3, <1>4, <1>5 DEF TypeOK

\* The book, the list and the request are what their types say, and so is what
\* a client gets: every answer and every block of the statistics has the fields
\* of its description, and a field is null just when the description says so,
\* but for the buckets of a trend (transaction-responses.ts,
\* statistics-responses.ts).
THEOREM TypeCorrect ==
  Spec => []TypeOK
  <1>1. Init => TypeInv
    BY FeedInit, StatInit, OverviewInit, BoundedInit, AnswerInit, CycleInit DEF TypeInv
  <1>2. TypeInv /\ [Next]_vars => TypeInv'
    BY FeedNext, StatNext, OverviewNext, BoundedNext, AnswerNext, CycleNext DEF TypeInv
  <1>3. TypeInv => TypeOK
    BY TypesKept
  <1> QED
    BY <1>1, <1>2, <1>3, PTL DEF Spec

===============================================================================
