------------------------- MODULE WindowRangesProofs -------------------------
(***************************************************************************)
(* The bucket arithmetic of detector.py is date_trunc on every calendar,   *)
(* and the ranges of every window are whole buckets that cover it.         *)
(*                                                                         *)
(* The months of the calendar follow one another, so every day lies in     *)
(* exactly one (MonthOfDay).  From that, the bucket of a moment is an      *)
(* interval (BucketIsInterval), and all else follows from the interval.    *)
(***************************************************************************)
EXTENDS WindowRanges, TLAPS

-----------------------------------------------------------------------------
(***************************************************************************)
(* Days and moments.                                                       *)
(***************************************************************************)
\* A day is the moments from its midnight to the next one.
LEMMA DayIsInterval ==
    ASSUME NEW t \in Int, NEW d \in Int
    PROVE  /\ Day(t) \in Int /\ Midnight(d) \in Int
           /\ Day(t) >= d <=> t >= Midnight(d)
<1>1. Slots \in Nat \ {0}
  BY CalendarAssumption
<1>2. /\ t \div Slots \in Int /\ (t \div Slots) * Slots <= t
      /\ t < ((t \div Slots) + 1) * Slots /\ d * Slots \in Int
  BY <1>1, SMT
<1>3. t \div Slots >= d => (t \div Slots) * Slots >= d * Slots
  BY <1>1, <1>2, SMT
<1>4. t \div Slots < d => ((t \div Slots) + 1) * Slots <= d * Slots
  BY <1>1, <1>2, SMT
<1>5. /\ (t \div Slots) * Slots \in Int /\ ((t \div Slots) + 1) * Slots \in Int
  BY <1>1, <1>2, SMT
<1>6. t \div Slots >= d <=> t >= d * Slots
  BY <1>2, <1>3, <1>4, <1>5, SMT
<1> QED
  BY <1>2, <1>6 DEF Day, Midnight

\* Midnight is a day's first moment, and days are Slots moments long.
LEMMA MidnightOfDay ==
    ASSUME NEW d \in Int
    PROVE  /\ Midnight(d) + Slots = Midnight(d + 1)
           /\ Midnight(d) + 7 * Slots = Midnight(d + 7)
           /\ d >= 0 => Midnight(d) \in Nat
<1>1. Slots \in Nat \ {0}
  BY CalendarAssumption
<1> QED
  BY <1>1, SMT DEF Midnight

\* A moment of the calendar lies on a day of the calendar.
LEMMA DayOfMoment ==
    ASSUME NEW t \in Nat
    PROVE  Day(t) \in Nat
<1>1. Midnight(0) = 0
  BY CalendarAssumption DEF Midnight
<1> QED
  BY <1>1, DayIsInterval

-----------------------------------------------------------------------------
(***************************************************************************)
(* Months.                                                                 *)
(***************************************************************************)
\* A year has 365 days, or 366 when it is a leap year.
LEMMA YearLength ==
    ASSUME NEW y \in Int
    PROVE  /\ DaysBeforeYear(y) \in Int
           /\ DaysBeforeYear(y + 1) = DaysBeforeYear(y) + 365 + (IF LeapYear(y) THEN 1 ELSE 0)
  BY SMT DEF DaysBeforeYear, LeapYear

\* Later years begin later, 365 or 366 days a year.
LEMMA YearsApart ==
    ASSUME NEW y \in Int, NEW z \in Int, y < z
    PROVE  /\ DaysBeforeYear(y) + 365 * (z - y) <= DaysBeforeYear(z)
           /\ DaysBeforeYear(z) <= DaysBeforeYear(y) + 366 * (z - y)
  BY SMT DEF DaysBeforeYear

\* Every day lies in a year: near the year that a mean of 365.2425 days gives.
LEMMA YearOfDay ==
    ASSUME NEW n \in Int
    PROVE  \E y \in Int : DaysBeforeYear(y) <= n /\ n < DaysBeforeYear(y + 1)
<1> DEFINE y == (n * 400) \div 146097 + 1
<1>1. y \in Int /\ y - 1 \in Int /\ y + 1 \in Int /\ y - 2 \in Int
  BY SMT
<1>2. DaysBeforeYear(y - 1) <= n /\ n < DaysBeforeYear(y + 2)
  BY SMT DEF DaysBeforeYear
<1>3. DaysBeforeYear(y) \in Int /\ DaysBeforeYear(y + 1) \in Int
  BY <1>1, YearLength
<1>4. (y - 1) + 1 = y /\ (y + 1) + 1 = y + 2
  BY <1>1
<1> HIDE DEF y
<1>5. CASE n < DaysBeforeYear(y)
  BY <1>1, <1>2, <1>4, <1>5
<1>6. CASE DaysBeforeYear(y) <= n /\ n < DaysBeforeYear(y + 1)
  BY <1>1, <1>6
<1>7. CASE DaysBeforeYear(y + 1) <= n
  BY <1>1, <1>2, <1>4, <1>7
<1> QED
  BY <1>3, <1>5, <1>6, <1>7

\* The table of a year's months: 28 to 31 days each, up to the year's length.
LEMMA MonthTable ==
    ASSUME NEW y \in Int, NEW m \in 0..11
    PROVE  /\ DayOfYear(y, m) \in Int
           /\ DayOfYear(y, 0) = 0
           /\ 28 * m <= DayOfYear(y, m) /\ DayOfYear(y, m) <= 31 * m
           /\ DayOfYear(y, m) <= 335
           /\ \A j \in 0..11 : m < j => DayOfYear(y, m) < DayOfYear(y, j)
           /\ m < 11 => DayOfYear(y, m) + 28 <= DayOfYear(y, m + 1)
  BY SMT DEF DayOfYear, DaysBeforeMonth

\* The m-th month of a year begins between 28 m and 31 m days into it.
LEMMA DayBounds ==
    ASSUME NEW y \in Int, NEW m \in 0..11
    PROVE  /\ DayOfYear(y, m) \in Int
           /\ 28 * m <= DayOfYear(y, m) /\ DayOfYear(y, m) <= 31 * m
           /\ DayOfYear(y, m) <= 335
  BY SMT DEF DayOfYear, DaysBeforeMonth

\* Month 12 q + m is month m of the q-th year.
LEMMA MonthStartOf ==
    ASSUME NEW q \in Int, NEW m \in 0..11
    PROVE  /\ 12 * q + m \in Int
           /\ MonthStart(12 * q + m)
                = DaysBeforeYear(FirstYear + q) - DaysBeforeYear(FirstYear)
                    + DayOfYear(FirstYear + q, m)
<1>1. (12 * q + m) \div 12 = q /\ (12 * q + m) % 12 = m /\ 12 * q + m \in Int
  BY SMT
<1> QED
  BY <1>1 DEF MonthStart

\* A month is month m of the q-th year, for some q and m.
LEMMA MonthNumber ==
    ASSUME NEW k \in Int
    PROVE  \E q \in Int, m \in 0..11 : k = 12 * q + m
<1>1. k \div 12 \in Int /\ k % 12 \in 0..11 /\ k = 12 * (k \div 12) + (k % 12)
  BY SMT
<1> QED
  BY <1>1

\* Months follow one another.
LEMMA MonthsFollow ==
    ASSUME NEW k \in Int, NEW j \in Int
    PROVE  /\ MonthStart(k) \in Int
           /\ k < j => MonthStart(k) < MonthStart(j)
<1>1. PICK q \in Int, m \in 0..11 : k = 12 * q + m
  BY MonthNumber
<1>2. PICK r \in Int, i \in 0..11 : j = 12 * r + i
  BY MonthNumber
<1>3. FirstYear \in Int
  BY CalendarAssumption
<1> DEFINE y == FirstYear + q
           z == FirstYear + r
           first == DaysBeforeYear(FirstYear)
<1>4. y \in Int /\ z \in Int /\ first \in Int
  BY <1>3, YearLength
<1>5. /\ MonthStart(k) = DaysBeforeYear(y) - first + DayOfYear(y, m)
      /\ MonthStart(j) = DaysBeforeYear(z) - first + DayOfYear(z, i)
  BY <1>1, <1>2, MonthStartOf
<1>6. y < z <=> q < r
  BY <1>3
<1>7. y = z <=> q = r
  BY <1>3
<1> HIDE DEF y, z, first
<1> DEFINE Y == DaysBeforeYear(y)
           Z == DaysBeforeYear(z)
           dk == DayOfYear(y, m)
           dj == DayOfYear(z, i)
<1>8. /\ Y \in Int /\ Z \in Int
      /\ dk \in Int /\ 0 <= dk /\ dk <= 335
      /\ dj \in Int /\ 0 <= dj /\ dj <= 335
  <2>1. Y \in Int /\ Z \in Int
    BY <1>4, YearLength
  <2>2. dk \in Int /\ 28 * m <= dk /\ dk <= 335
    BY <1>4, DayBounds
  <2>3. dj \in Int /\ 28 * i <= dj /\ dj <= 335
    BY <1>4, DayBounds
  <2> HIDE DEF Y, Z, dk, dj
  <2> QED
    BY <2>1, <2>2, <2>3
<1>9. MonthStart(k) \in Int
  BY <1>4, <1>5, <1>8
<1>10. ASSUME k < j PROVE MonthStart(k) < MonthStart(j)
  <2>1. q < r \/ (q = r /\ m < i)
    BY <1>1, <1>2, <1>10
  <2>2. CASE q < r
    <3>1. Y + 365 * (z - y) <= Z /\ z - y >= 1
      BY <1>4, <1>6, <2>2, YearsApart
    <3>2. MonthStart(k) = Y - first + dk /\ MonthStart(j) = Z - first + dj
      BY <1>5
    <3> HIDE DEF Y, Z, dk, dj
    <3> QED
      BY <1>4, <1>8, <3>1, <3>2
  <2>3. CASE q = r /\ m < i
    <3>1. dk < DayOfYear(y, i)
      BY <1>4, <2>3, MonthTable
    <3>2. MonthStart(k) = Y - first + dk /\ MonthStart(j) = Z - first + dj
      BY <1>5
    <3>3. y = z
      BY <1>7, <2>3
    <3>4. Y = Z /\ dk < dj
      BY <3>1, <3>3
    <3> HIDE DEF Y, Z, dk, dj
    <3> QED
      BY <1>4, <1>8, <3>2, <3>4
  <2> QED
    BY <2>1, <2>2, <2>3
<1> QED
  BY <1>9, <1>10

\* The k-th month begins between 28 k and 31 k days after the first.
LEMMA MonthBounds ==
    ASSUME NEW k \in Nat
    PROVE  28 * k <= MonthStart(k) /\ MonthStart(k) <= 31 * k
<1>1. PICK q \in Int, m \in 0..11 : k = 12 * q + m
  BY MonthNumber, k \in Int
<1>2. q \in Nat /\ FirstYear \in Int
  BY <1>1, CalendarAssumption
<1> DEFINE y == FirstYear + q
           first == DaysBeforeYear(FirstYear)
<1>3. /\ MonthStart(k) = DaysBeforeYear(y) - first + DayOfYear(y, m)
      /\ y \in Int /\ first \in Int /\ DaysBeforeYear(y) \in Int
  <2>1. y \in Int /\ first \in Int /\ DaysBeforeYear(y) \in Int
    BY <1>2, YearLength
  <2> QED
    BY <1>1, <2>1, MonthStartOf
<1>4. DayOfYear(y, m) \in Int /\ 28 * m <= DayOfYear(y, m) /\ DayOfYear(y, m) <= 31 * m
  <2>1. \A z \in Int, i \in 0..11 :
           /\ DayOfYear(z, i) \in Int
           /\ 28 * i <= DayOfYear(z, i) /\ DayOfYear(z, i) <= 31 * i
    BY DayBounds
  <2> QED
    BY <1>1, <1>3, <2>1, Zenon
<1>5. 365 * q <= DaysBeforeYear(y) - first /\ DaysBeforeYear(y) - first <= 366 * q
  <2>1. CASE q = 0
    BY <1>2, <1>3, <2>1
  <2>2. CASE q > 0
    <3>1. /\ first + 365 * (y - FirstYear) <= DaysBeforeYear(y)
          /\ DaysBeforeYear(y) <= first + 366 * (y - FirstYear)
      BY <1>2, <1>3, <2>2, YearsApart
    <3>2. y - FirstYear = q
      BY <1>2
    <3> HIDE DEF y, first
    <3> QED
      BY <1>2, <1>3, <3>1, <3>2
  <2> QED
    BY <1>2, <2>1, <2>2
<1> HIDE DEF y, first
<1> QED
  BY <1>1, <1>2, <1>3, <1>4, <1>5

\* The first month begins on the first day.
LEMMA FirstMonthStart == MonthStart(0) = 0
  BY MonthBounds, MonthsFollow, 0 \in Nat

\* Every day lies in a month.
LEMMA MonthExists ==
    ASSUME NEW d \in Nat
    PROVE  \E k \in Nat : MonthStart(k) <= d /\ d < MonthStart(k + 1)
<1> DEFINE first == DaysBeforeYear(FirstYear)
           n == d + first
<1>1. FirstYear \in Int /\ first \in Int /\ n \in Int
  BY CalendarAssumption, YearLength
<1>2. PICK y \in Int : DaysBeforeYear(y) <= n /\ n < DaysBeforeYear(y + 1)
  BY <1>1, YearOfDay
<1> DEFINE q == y - FirstYear
           opening(m) == MonthStart(12 * q + m)
           day(m) == DayOfYear(y, m)
           base == DaysBeforeYear(y) - first
<1>3. /\ q \in Int /\ FirstYear + q = y /\ FirstYear + (q + 1) = y + 1
      /\ DaysBeforeYear(y) \in Int /\ DaysBeforeYear(y + 1) \in Int
  BY <1>1, YearLength
<1>4. ASSUME NEW m \in 0..11 PROVE opening(m) = base + day(m) /\ day(m) \in Int
  <2>1. DayOfYear(y, m) \in Int
    BY MonthTable
  <2>2. MonthStart(12 * q + m) = DaysBeforeYear(FirstYear + q) - first + DayOfYear(FirstYear + q, m)
    BY <1>3, MonthStartOf
  <2> QED
    BY <1>3, <2>1, <2>2
<1>5. MonthStart(12 * (q + 1) + 0) = DaysBeforeYear(y + 1) - first
  <2>1. DayOfYear(y + 1, 0) = 0
    BY <1>3, MonthTable, y + 1 \in Int, 0 \in 0..11
  <2>2. MonthStart(12 * (q + 1) + 0)
          = DaysBeforeYear(FirstYear + (q + 1)) - first + DayOfYear(FirstYear + (q + 1), 0)
    BY <1>3, MonthStartOf, q + 1 \in Int, 0 \in 0..11
  <2>3. DaysBeforeYear(y + 1) - first + 0 = DaysBeforeYear(y + 1) - first
    BY <1>1, <1>3
  <2> QED
    BY <1>3, <2>1, <2>2, <2>3
<1>6. 12 * (q + 1) + 0 = 12 * q + 12
  BY <1>3
<1>7. day(0) = 0
  BY <1>3, MonthTable
<1>8. opening(0) <= d /\ d < opening(12)
  <2>1. opening(0) = base
    BY <1>1, <1>3, <1>4, <1>7
  <2>2. opening(12) = DaysBeforeYear(y + 1) - first
    BY <1>5, <1>6
  <2> HIDE DEF opening
  <2> QED
    BY <1>1, <1>2, <1>3, <2>1, <2>2
<1>9. \A m \in 0..12 : opening(m) \in Int
  BY <1>3, MonthsFollow
<1> HIDE DEF opening
<1>10. PICK m \in 0..11 : opening(m) <= d /\ d < opening(m + 1)
  <2>1. /\ opening(0) \in Int /\ opening(1) \in Int /\ opening(2) \in Int /\ opening(3) \in Int
        /\ opening(4) \in Int /\ opening(5) \in Int /\ opening(6) \in Int /\ opening(7) \in Int
        /\ opening(8) \in Int /\ opening(9) \in Int /\ opening(10) \in Int /\ opening(11) \in Int
        /\ opening(12) \in Int
    BY <1>9
  <2>2. SUFFICES ASSUME \A m \in 0..11 : ~(opening(m) <= d /\ d < opening(m + 1))
                 PROVE  FALSE
    OBVIOUS
  <2>3. /\ ~(opening(0) <= d /\ d < opening(1)) /\ ~(opening(1) <= d /\ d < opening(2))
        /\ ~(opening(2) <= d /\ d < opening(3)) /\ ~(opening(3) <= d /\ d < opening(4))
        /\ ~(opening(4) <= d /\ d < opening(5)) /\ ~(opening(5) <= d /\ d < opening(6))
        /\ ~(opening(6) <= d /\ d < opening(7)) /\ ~(opening(7) <= d /\ d < opening(8))
        /\ ~(opening(8) <= d /\ d < opening(9)) /\ ~(opening(9) <= d /\ d < opening(10))
        /\ ~(opening(10) <= d /\ d < opening(11)) /\ ~(opening(11) <= d /\ d < opening(12))
    BY <2>2
  <2> QED
    BY <1>8, <2>1, <2>3
<1> DEFINE k == 12 * q + m
<1>11. k \in Int /\ k + 1 = 12 * q + (m + 1)
  BY <1>3
<1>12. MonthStart(k) <= d /\ d < MonthStart(k + 1)
  BY <1>10, <1>11 DEF opening
<1>13. k \in Nat
  <2>1. k < 0 => k + 1 = 0 \/ k + 1 < 0
    BY <1>11
  <2>2. MonthStart(k + 1) \in Int /\ (k + 1 < 0 => MonthStart(k + 1) < MonthStart(0))
    BY <1>11, MonthsFollow
  <2>3. MonthStart(k + 1) > 0
    BY <1>12, <2>2
  <2> HIDE DEF k
  <2> QED
    BY <1>11, <2>1, <2>2, <2>3, FirstMonthStart
<1> QED
  BY <1>12, <1>13

\* Month is the one month that the moment's day lies in.
LEMMA MonthOfDay ==
    ASSUME NEW t \in Nat, NEW k \in Nat
    PROVE  /\ Month(t) \in Nat
           /\ MonthStart(k) <= Day(t) <=> k <= Month(t)
<1> DEFINE In(j) == MonthStart(j) <= Day(t) /\ Day(t) < MonthStart(j + 1)
           near == (Day(t) \div 31)..(Day(t) \div 28)
<1>1. Day(t) \in Nat
  BY DayOfMoment
<1>2. PICK j \in Nat : In(j)
  BY <1>1, MonthExists
<1>3. j \in near
  <2>1. 28 * j <= MonthStart(j) /\ MonthStart(j) \in Int
    BY MonthBounds, MonthsFollow
  <2>2. MonthStart(j + 1) <= 31 * (j + 1) /\ MonthStart(j + 1) \in Int
    BY MonthBounds, MonthsFollow
  <2>3. 28 * j <= Day(t) /\ Day(t) < 31 * (j + 1)
    BY <1>1, <1>2, <2>1, <2>2
  <2> QED
    BY <1>1, <2>3
<1>4. Month(t) \in near /\ In(Month(t))
  <2>1. \E i \in near : In(i)
    BY <1>2, <1>3
  <2>2. Month(t) = CHOOSE i \in near : In(i)
    BY DEF Month
  <2> HIDE DEF near, In
  <2> QED
    BY <2>1, <2>2
<1>5. Month(t) \in Nat
  BY <1>1, <1>4
<1> DEFINE i == Month(t)
<1>6. /\ MonthStart(k) \in Int /\ MonthStart(i) \in Int /\ MonthStart(i + 1) \in Int
      /\ k < i => MonthStart(k) < MonthStart(i)
      /\ i + 1 < k => MonthStart(i + 1) < MonthStart(k)
  BY <1>5, MonthsFollow
<1>7. MonthStart(i) <= Day(t) /\ Day(t) < MonthStart(i + 1)
  BY <1>4
<1>8. i \in Nat
  BY <1>5
<1> HIDE DEF i
<1>9. MonthStart(k) <= Day(t) <=> k <= i
  <2>1. CASE k < i
    BY <1>1, <1>6, <1>7, <1>8, <2>1
  <2>2. CASE k = i
    BY <1>7, <1>8, <2>2
  <2>3. CASE k = i + 1
    BY <1>1, <1>6, <1>7, <1>8, <2>3
  <2>4. CASE k > i + 1
    BY <1>1, <1>6, <1>7, <1>8, <2>4
  <2> QED
    BY <1>8, <2>1, <2>2, <2>3, <2>4
<1> QED
  BY <1>8, <1>9 DEF i

-----------------------------------------------------------------------------
(***************************************************************************)
(* Buckets.                                                                *)
(***************************************************************************)
\* The moments whose bucket of g is on the calendar: 1 January begins every
\* bucket but a week.
Reach(g) == IF g = "week" THEN Int ELSE Nat

\* A bucket of n months begins at a multiple of n.
LEMMA MonthGroup ==
    ASSUME NEW i \in Nat, NEW j \in Nat, NEW n \in {1, 3, 12}
    PROVE  /\ i - (i % n) \in Nat /\ i - (i % n) + n \in Nat
           /\ i \div n = j \div n <=> i - (i % n) <= j /\ j < i - (i % n) + n
<1>1. CASE n = 1
  BY <1>1, SMT
<1>2. CASE n = 3
  BY <1>2, SMT
<1>3. CASE n = 12
  BY <1>3, SMT
<1> QED
  BY <1>1, <1>2, <1>3

\* The same for a week: it begins on a Monday.
LEMMA WeekGroup ==
    ASSUME NEW d \in Int, NEW e \in Int, NEW w \in 0..6
    PROVE  LET monday(x) == x - ((x + w) % 7)
           IN  /\ monday(d) \in Int
               /\ monday(d) = monday(e) <=> monday(d) <= e /\ e < monday(d) + 7
  BY SMT

\* A bucket, as date_trunc groups moments, is the interval from floor to next.
LEMMA BucketIsInterval ==
    ASSUME NEW g \in Granularities, NEW t \in Reach(g), NEW u \in Reach(g)
    PROVE  /\ FloorTo(g, t) \in Reach(g) /\ NextBucket(g, t) \in Reach(g)
           /\ SameBucket(g, t, u) <=> FloorTo(g, t) <= u /\ u < NextBucket(g, t)
<1>1. t \in Int /\ u \in Int
  BY DEF Reach
<1>2. CASE g = "hour"
  BY <1>2 DEF Reach, FloorTo, NextBucket, SameBucket
<1>3. CASE g = "day"
  <2>1. t \in Nat /\ Day(t) \in Nat /\ Day(u) \in Int
    BY <1>1, <1>3, DayOfMoment, DayIsInterval DEF Reach
  <2>2. Midnight(Day(t)) \in Nat /\ Midnight(Day(t) + 1) \in Nat
    BY <2>1, MidnightOfDay
  <2>3. /\ Day(u) >= Day(t) <=> u >= Midnight(Day(t))
        /\ Day(u) >= Day(t) + 1 <=> u >= Midnight(Day(t) + 1)
    BY <1>1, <2>1, DayIsInterval
  <2>4. FloorTo(g, t) = Midnight(Day(t)) /\ NextBucket(g, t) = Midnight(Day(t) + 1)
    BY <1>3, <2>1, MidnightOfDay DEF FloorTo, NextBucket
  <2>5. SameBucket(g, t, u) <=> Day(t) = Day(u)
    BY <1>3 DEF SameBucket
  <2>6. Reach(g) = Nat
    BY <1>3 DEF Reach
  <2> QED
    BY <1>1, <2>1, <2>2, <2>3, <2>4, <2>5, <2>6
<1>4. CASE g = "week"
  <2> DEFINE monday == Day(t) - Weekday(t)
  <2>1. Day(t) \in Int /\ Day(u) \in Int /\ FirstWeekday \in 0..6
    BY <1>1, DayIsInterval, CalendarAssumption
  <2>2. /\ monday \in Int
        /\ monday = Day(u) - Weekday(u) <=> monday <= Day(u) /\ Day(u) < monday + 7
    BY <2>1, WeekGroup DEF Weekday
  <2>3. FloorTo(g, t) = Midnight(monday) /\ NextBucket(g, t) = Midnight(monday) + 7 * Slots
    BY <1>4 DEF FloorTo, NextBucket
  <2>4. SameBucket(g, t, u) <=> monday = Day(u) - Weekday(u)
    BY <1>4 DEF SameBucket
  <2> HIDE DEF monday
  <2>5. Midnight(monday) \in Int /\ Midnight(monday + 7) \in Int
    BY <1>1, <2>2, DayIsInterval
  <2>6. /\ Day(u) >= monday <=> u >= Midnight(monday)
        /\ Day(u) >= monday + 7 <=> u >= Midnight(monday + 7)
    BY <1>1, <2>2, DayIsInterval
  <2>7. Midnight(monday) + 7 * Slots = Midnight(monday + 7)
    BY <2>2, MidnightOfDay
  <2>8. Reach(g) = Int
    BY <1>4 DEF Reach
  <2> QED
    BY <1>1, <2>1, <2>2, <2>3, <2>4, <2>5, <2>6, <2>7, <2>8
<1>5. CASE g \in {"month", "quarter", "year"}
  <2> DEFINE n == MonthsIn[g]
             first == FirstMonth(g, t)
  <2>1. n \in {1, 3, 12}
    BY <1>5 DEF MonthsIn
  <2>2. Reach(g) = Nat
    BY <1>5 DEF Reach
  <2>3. Month(t) \in Nat /\ Month(u) \in Nat
    BY <2>2, MonthOfDay
  <2>4. /\ first \in Nat /\ first + n \in Nat
        /\ Month(t) \div n = Month(u) \div n <=> first <= Month(u) /\ Month(u) < first + n
    BY <2>1, <2>3, MonthGroup DEF FirstMonth
  <2>5. /\ FloorTo(g, t) = Midnight(MonthStart(first))
        /\ NextBucket(g, t) = Midnight(MonthStart(first + n))
        /\ SameBucket(g, t, u) <=> Month(t) \div n = Month(u) \div n
    BY <1>5 DEF FloorTo, NextBucket, SameBucket
  <2> HIDE DEF first, n
  <2>6. ASSUME NEW k \in Nat
        PROVE  /\ Midnight(MonthStart(k)) \in Nat
               /\ k <= Month(u) <=> Midnight(MonthStart(k)) <= u
    <3>1. MonthStart(k) \in Int /\ 28 * k <= MonthStart(k)
      BY MonthsFollow, MonthBounds, k \in Int
    <3>2. Midnight(MonthStart(k)) \in Nat
      BY <3>1, MidnightOfDay
    <3>3. Day(u) \in Int /\ (Day(u) >= MonthStart(k) <=> u >= Midnight(MonthStart(k)))
      BY <1>1, <3>1, DayIsInterval
    <3>4. MonthStart(k) <= Day(u) <=> k <= Month(u)
      BY <2>2, MonthOfDay
    <3> QED
      BY <1>1, <3>1, <3>2, <3>3, <3>4
  <2>7. /\ Midnight(MonthStart(first)) \in Nat /\ Midnight(MonthStart(first + n)) \in Nat
        /\ first <= Month(u) <=> Midnight(MonthStart(first)) <= u
        /\ first + n <= Month(u) <=> Midnight(MonthStart(first + n)) <= u
    BY <2>4, <2>6
  <2>8. Month(u) < first + n <=> ~(first + n <= Month(u))
    BY <2>3, <2>4
  <2> QED
    BY <1>1, <2>2, <2>4, <2>5, <2>7, <2>8
<1> QED
  BY <1>2, <1>3, <1>4, <1>5 DEF Granularities

\* Being of one bucket is an equivalence.
LEMMA SameBucketEquivalence ==
    ASSUME NEW g \in Granularities, NEW t, NEW u, NEW v
    PROVE  /\ SameBucket(g, t, t)
           /\ SameBucket(g, t, u) => SameBucket(g, u, t)
           /\ SameBucket(g, t, u) /\ SameBucket(g, u, v) => SameBucket(g, t, v)
  BY DEF Granularities, SameBucket

\* floor and next enclose the moment, and both begin a bucket.
LEMMA BucketBounds ==
    ASSUME NEW g \in Granularities, NEW t \in Reach(g)
    PROVE  /\ FloorTo(g, t) \in Reach(g) /\ FloorTo(g, t) <= t
           /\ NextBucket(g, t) \in Reach(g) /\ t < NextBucket(g, t)
           /\ SameBucket(g, t, FloorTo(g, t)) /\ IsBoundary(g, FloorTo(g, t))
           /\ SameBucket(g, t, NextBucket(g, t) - 1) /\ IsBoundary(g, NextBucket(g, t))
<1> DEFINE from == FloorTo(g, t)
           to == NextBucket(g, t)
<1>1. /\ from \in Reach(g) /\ to \in Reach(g) /\ t \in Int /\ from \in Int /\ to \in Int
      /\ \A u \in Reach(g) : SameBucket(g, t, u) <=> from <= u /\ u < to
  BY BucketIsInterval DEF Reach
<1>2. from <= t /\ t < to
  BY <1>1, SameBucketEquivalence
<1>3. SameBucket(g, t, from)
  BY <1>1, <1>2
<1>4. to - 1 \in Reach(g) /\ from <= to - 1
  BY <1>1, <1>2 DEF Reach
<1>5. SameBucket(g, t, to - 1)
  BY <1>1, <1>4
<1>6. IsBoundary(g, to)
  <2>1. ~SameBucket(g, t, to)
    BY <1>1
  <2> QED
    BY <1>5, <2>1, SameBucketEquivalence DEF IsBoundary
<1>7. IsBoundary(g, from)
  <2>1. CASE from = 0 /\ g # "week"
    BY <2>1 DEF IsBoundary
  <2>2. CASE ~(from = 0 /\ g # "week")
    <3>1. from - 1 \in Reach(g)
      BY <1>1, <2>2 DEF Reach
    <3>2. ~SameBucket(g, t, from - 1)
      BY <1>1, <3>1
    <3> QED
      BY <1>3, <3>2, SameBucketEquivalence DEF IsBoundary
  <2> QED
    BY <2>1, <2>2
<1> QED
  BY <1>1, <1>2, <1>3, <1>5, <1>6, <1>7

\* floor does not move the beginning of a bucket.
LEMMA FloorOfBoundary ==
    ASSUME NEW g \in Granularities, NEW t \in Reach(g), IsBoundary(g, t)
    PROVE  FloorTo(g, t) = t
<1>1. /\ FloorTo(g, t) \in Reach(g) /\ FloorTo(g, t) <= t
      /\ SameBucket(g, t, t)
      /\ \A u \in Reach(g) : SameBucket(g, t, u) <=> FloorTo(g, t) <= u /\ u < NextBucket(g, t)
  BY BucketBounds, BucketIsInterval, SameBucketEquivalence
<1>2. t \in Int /\ FloorTo(g, t) \in Int
  BY <1>1 DEF Reach
<1>3. CASE t = 0 /\ g # "week"
  BY <1>1, <1>3 DEF Reach
<1>4. CASE ~SameBucket(g, t - 1, t)
  <2>1. SUFFICES ASSUME FloorTo(g, t) <= t - 1 PROVE FALSE
    BY <1>1, <1>2
  <2>2. t - 1 \in Reach(g)
    BY <1>1, <1>2, <2>1 DEF Reach
  <2>3. t - 1 < NextBucket(g, t)
    <3>1. t < NextBucket(g, t) /\ NextBucket(g, t) \in Int
      BY BucketBounds DEF Reach
    <3> QED
      BY <1>2, <3>1
  <2>4. SameBucket(g, t, t - 1)
    BY <1>1, <2>1, <2>2, <2>3
  <2> QED
    BY <1>4, <2>4, SameBucketEquivalence
<1> QED
  BY <1>3, <1>4 DEF IsBoundary

\* Later moments have later buckets.
LEMMA BucketsInOrder ==
    ASSUME NEW g \in Granularities, NEW t \in Reach(g), NEW u \in Reach(g), t <= u
    PROVE  /\ FloorTo(g, t) <= FloorTo(g, u)
           /\ SameBucket(g, t, u) => FloorTo(g, t) = FloorTo(g, u)
<1>1. /\ FloorTo(g, t) \in Int /\ FloorTo(g, u) \in Int /\ t \in Int /\ u \in Int
      /\ FloorTo(g, t) \in Reach(g) /\ FloorTo(g, u) \in Reach(g)
      /\ FloorTo(g, t) <= t /\ FloorTo(g, u) <= u
      /\ SameBucket(g, t, FloorTo(g, t)) /\ SameBucket(g, u, FloorTo(g, u))
  BY BucketBounds DEF Reach
<1>2. /\ \A v \in Reach(g) : SameBucket(g, t, v) <=> FloorTo(g, t) <= v /\ v < NextBucket(g, t)
      /\ \A v \in Reach(g) : SameBucket(g, u, v) <=> FloorTo(g, u) <= v /\ v < NextBucket(g, u)
  BY BucketIsInterval
<1>3. SameBucket(g, t, u) => FloorTo(g, t) = FloorTo(g, u)
  <2>1. SUFFICES ASSUME SameBucket(g, t, u) PROVE FloorTo(g, t) = FloorTo(g, u)
    OBVIOUS
  <2>2. SameBucket(g, t, FloorTo(g, u)) /\ SameBucket(g, u, FloorTo(g, t))
    BY <1>1, <2>1, SameBucketEquivalence
  <2> QED
    BY <1>1, <1>2, <2>2
<1>4. SUFFICES ASSUME FloorTo(g, u) < FloorTo(g, t) PROVE FALSE
  BY <1>1, <1>3
<1>5. SameBucket(g, u, t)
  <2>1. u < NextBucket(g, u) /\ NextBucket(g, u) \in Int
    BY BucketBounds DEF Reach
  <2> QED
    BY <1>1, <1>2, <1>4, <2>1
<1> QED
  BY <1>1, <1>3, <1>4, <1>5, SameBucketEquivalence

\* Where a chunk begins that config.py accepts, a bucket of the view begins.
LEMMA CompatibleBoundary ==
    ASSUME NEW g \in Granularities, NEW c \in Granularities, ChunkCompatible(g, c),
           NEW t \in Reach(c), IsBoundary(c, t)
    PROVE  IsBoundary(g, t)
<1>1. /\ g = "week" => c = "week"
      /\ c = "week" => g \in {"hour", "day", "week"}
      /\ c \in {"hour", "day"} => g \in {"hour", "day"}
      /\ c = "hour" => g = "hour"
      /\ c = "month" => g # "quarter" /\ g # "year"
      /\ c = "quarter" => g # "year"
  BY DEF Granularities, ChunkCompatible, Rank
<1>2. CASE t = 0 /\ c # "week"
  BY <1>1, <1>2 DEF IsBoundary
<1>3. CASE ~SameBucket(c, t - 1, t) /\ ~(t = 0 /\ c # "week")
  <2>1. SUFFICES ASSUME SameBucket(g, t - 1, t) PROVE SameBucket(c, t - 1, t)
    BY <1>3 DEF IsBoundary
  <2>2. CASE g = "hour"
    BY <2>1, <2>2, SameBucketEquivalence DEF SameBucket
  <2>3. CASE g = "day"
    BY <1>1, <2>1, <2>3 DEF SameBucket, Weekday, Month, Granularities
  <2>4. CASE g = "week"
    BY <1>1, <2>1, <2>4
  <2>5. CASE g \in {"month", "quarter", "year"}
    <3>1. c \in {"month", "quarter", "year"}
      BY <1>1, <2>5 DEF Granularities
    <3>2. t \in Nat /\ t - 1 \in Nat
      BY <1>3, <3>1 DEF Reach
    <3> DEFINE i == Month(t - 1)
               j == Month(t)
    <3>3. i \in Nat /\ j \in Nat
      BY <3>2, MonthOfDay
    <3>4. /\ g = "month" => i \div 1 = j \div 1
          /\ g = "quarter" => i \div 3 = j \div 3
          /\ g = "year" => i \div 12 = j \div 12
      BY <2>1 DEF SameBucket, MonthsIn
    <3>5. /\ c = "month" => (SameBucket(c, t - 1, t) <=> i \div 1 = j \div 1)
          /\ c = "quarter" => (SameBucket(c, t - 1, t) <=> i \div 3 = j \div 3)
          /\ c = "year" => (SameBucket(c, t - 1, t) <=> i \div 12 = j \div 12)
      BY DEF SameBucket, MonthsIn
    <3> HIDE DEF i, j
    <3>6. /\ i \div 1 = j \div 1 => i = j
          /\ i \div 3 = j \div 3 => i \div 12 = j \div 12
      BY <3>3
    <3> QED
      BY <1>1, <2>5, <3>1, <3>4, <3>5, <3>6
  <2> QED
    BY <2>2, <2>3, <2>4, <2>5 DEF Granularities
<1> QED
  BY <1>2, <1>3 DEF IsBoundary

-----------------------------------------------------------------------------
(***************************************************************************)
(* The ranges of a window.                                                 *)
(***************************************************************************)
\* The granularity that the ranges follow.
Grid == IF chunk = NoChunk THEN gran ELSE chunk

Aligned(t) == t \in Reach(Grid) /\ IsBoundary(Grid, t)

WindowOK ==
    /\ gran \in Granularities /\ chunk \in Chunks(gran)
    /\ lo \in Nat /\ hi \in Nat /\ lo <= hi
    /\ mark \in Nat \union {NoMark}

\* The inductive invariant: the generator stands on a boundary of its grid,
\* at the end of the range it yielded last, until the window is used up.
RangesInv ==
    /\ WindowOK
    /\ Aligned(start) /\ Aligned(cur) /\ Aligned(end)
    /\ Aligned(range[1]) /\ Aligned(range[2])
    /\ cur < end => range[2] = cur

\* The grid is a granularity, and a boundary of it is one of the view's.
LEMMA GridOK ==
    ASSUME WindowOK
    PROVE  /\ Grid \in Granularities
           /\ Nat \subseteq Reach(Grid) /\ Reach(Grid) \subseteq Int
           /\ \A t : Aligned(t) => IsBoundary(gran, t)
<1>1. /\ gran \in Granularities
      /\ \/ chunk \in Granularities /\ ChunkCompatible(gran, chunk) /\ chunk # NoChunk
         \/ chunk = NoChunk
  BY WindowAssumption DEF WindowOK, Chunks
<1>2. CASE chunk = NoChunk
  BY <1>1, <1>2 DEF Grid, Aligned, Reach
<1>3. CASE chunk # NoChunk
  BY <1>1, <1>3, CompatibleBoundary DEF Grid, Aligned, Reach
<1> QED
  BY <1>2, <1>3

\* Where the window's ranges begin: its own floor, or the marker's if later.
LEMMA WindowStart ==
    ASSUME WindowOK
    PROVE  LET from == Expand(Grid, lo, hi)[1]
               first == FirstRange(chunk, from, mark)
           IN  /\ Aligned(from) /\ from <= lo
               /\ Aligned(first)
               /\ first # from => first = FloorTo(chunk, mark) /\ first <= mark /\ mark # NoMark
               /\ chunk # NoChunk /\ mark # NoMark /\ lo <= mark => first = FloorTo(chunk, mark)
<1> DEFINE from == FloorTo(Grid, lo)
           resume == FloorTo(chunk, mark)
<1>1. /\ Grid \in Granularities /\ lo \in Reach(Grid)
      /\ mark # NoMark => mark \in Reach(Grid)
  BY GridOK DEF WindowOK
<1>2. Aligned(from) /\ from <= lo /\ from \in Int
  BY <1>1, GridOK, BucketBounds DEF Aligned
<1>3. chunk # NoChunk => Grid = chunk
  BY DEF Grid
<1>4. ASSUME chunk # NoChunk, mark # NoMark
      PROVE  /\ Aligned(resume) /\ resume <= mark /\ resume \in Int
             /\ lo <= mark => from <= resume
  BY <1>1, <1>3, <1>4, GridOK, BucketBounds, BucketsInOrder DEF Aligned
<1>5. Expand(Grid, lo, hi)[1] = from
  BY DEF Expand
<1>6. FirstRange(chunk, from, mark)
        = IF chunk = NoChunk \/ mark = NoMark THEN from
          ELSE IF from < resume THEN resume ELSE from
  BY DEF FirstRange
<1> HIDE DEF from, resume
<1>7. CASE chunk = NoChunk \/ mark = NoMark
  BY <1>2, <1>5, <1>6, <1>7
<1>8. CASE chunk # NoChunk /\ mark # NoMark
  BY <1>2, <1>4, <1>5, <1>6, <1>8 DEF resume
<1> QED
  BY <1>7, <1>8

\* A window of the program is well formed.
LEMMA InitWindow ==
    ASSUME Init
    PROVE  /\ WindowOK
           /\ start = FirstRange(chunk, Expand(Grid, lo, hi)[1], mark)
           /\ end = Expand(Grid, lo, hi)[2]
<1>1. /\ gran \in Granularities /\ chunk \in Chunks(gran)
      /\ lo \in Moments /\ hi \in Moments /\ lo <= hi
      /\ mark \in Marks(gran)
  BY DEF Init
<1>2. Moments \subseteq Nat
  BY WindowAssumption
<1>3. mark \in Nat \union {NoMark}
  <2>1. CASE mark = NoMark
    BY <2>1
  <2>2. CASE mark # NoMark
    <3>1. PICK c \in Chunks(gran) \ {NoChunk}, t \in Moments : mark = NextBucket(c, t)
      BY <1>1, <2>2 DEF Marks
    <3>2. c \in Granularities /\ t \in Nat /\ t \in Reach(c)
      BY <1>2, <3>1 DEF Chunks, Reach
    <3>3. NextBucket(c, t) \in Reach(c) /\ t < NextBucket(c, t)
      BY <3>2, BucketBounds
    <3>4. NextBucket(c, t) \in Int
      BY <3>3 DEF Reach
    <3> QED
      BY <3>1, <3>2, <3>3, <3>4
  <2> QED
    BY <2>1, <2>2
<1> QED
  BY <1>1, <1>2, <1>3 DEF Init, WindowOK, Grid

\* The end of the window begins a bucket, after the window's last row.
LEMMA WindowEnd ==
    ASSUME WindowOK
    PROVE  Aligned(Expand(Grid, lo, hi)[2]) /\ hi < Expand(Grid, lo, hi)[2]
  BY GridOK, BucketBounds DEF WindowOK, Expand, Aligned

\* The invariant holds when the generator is called.
LEMMA RangesInit == Init => RangesInv
<1> SUFFICES ASSUME Init PROVE RangesInv
  OBVIOUS
<1>1. WindowOK /\ Aligned(start) /\ Aligned(end)
  BY InitWindow, WindowStart, WindowEnd
<1>2. cur = start /\ range[1] = start /\ range[2] = start
  BY DEF Init
<1> QED
  BY <1>1, <1>2 DEF RangesInv

\* A step of the generator: the range it yields, and where it stands then.
LEMMA YieldedRange ==
    ASSUME RangesInv, Yield
    PROVE  /\ Aligned(cur') /\ cur < cur'
           /\ range'[1] = cur /\ Aligned(range'[2])
           /\ cur < range'[2] /\ range'[2] <= end
           /\ cur' < end => range'[2] = cur'
           /\ cur' >= end => range'[2] = end
<1>1. /\ WindowOK /\ Grid \in Granularities /\ Reach(Grid) \subseteq Int
      /\ Aligned(cur) /\ Aligned(end) /\ cur < end
      /\ cur \in Int /\ end \in Int
  BY GridOK DEF RangesInv, Yield, Aligned
<1>2. Aligned(cur') /\ cur < cur' /\ cur' \in Int
  <2>1. CASE chunk = NoChunk
    BY <1>1, <2>1 DEF Yield
  <2>2. CASE chunk # NoChunk
    <3>1. cur' = NextBucket(Grid, cur)
      BY <2>2 DEF Yield, Grid
    <3>2. NextBucket(Grid, cur) \in Reach(Grid) /\ cur < NextBucket(Grid, cur)
          /\ IsBoundary(Grid, NextBucket(Grid, cur))
      BY <1>1, BucketBounds DEF Aligned
    <3> QED
      BY <1>1, <3>1, <3>2 DEF Aligned
  <2> QED
    BY <2>1, <2>2
<1>3. range'[1] = cur /\ range'[2] = IF cur' < end THEN cur' ELSE end
  BY DEF Yield
<1> QED
  BY <1>1, <1>2, <1>3

\* The invariant is inductive.
LEMMA RangesStep == RangesInv /\ [Next]_vars => RangesInv'
<1> SUFFICES ASSUME RangesInv, [Next]_vars PROVE RangesInv'
  OBVIOUS
<1>1. CASE Yield
  <2>1. UNCHANGED <<gran, chunk, lo, hi, mark, start, end, Grid>>
    BY <1>1 DEF Yield, Grid
  <2>2. /\ Aligned(cur') /\ Aligned(range'[1]) /\ Aligned(range'[2])
        /\ cur' < end => range'[2] = cur'
    BY <1>1, YieldedRange DEF RangesInv
  <2>3. WindowOK' /\ Aligned(start)' /\ Aligned(end)'
    BY <2>1 DEF RangesInv, WindowOK, Aligned
  <2>4. Aligned(cur)' /\ Aligned(range[1])' /\ Aligned(range[2])'
    BY <2>1, <2>2 DEF Aligned
  <2> QED
    BY <2>1, <2>2, <2>3, <2>4 DEF RangesInv
<1>2. CASE UNCHANGED vars
  BY <1>2 DEF vars, RangesInv, WindowOK, Aligned, Grid
<1> QED
  BY <1>1, <1>2 DEF Next

\* The generator never leaves a boundary of its grid.
LEMMA RangesHold == Spec => []RangesInv
  BY RangesInit, RangesStep, PTL DEF Spec

\* Every MERGE recomputes whole GROUP BY buckets of the view.
THEOREM WholeBucketsHold == Spec => []WholeBuckets
<1>1. RangesInv => WholeBuckets
  BY GridOK DEF RangesInv, WholeBuckets
<1> QED
  BY <1>1, RangesHold, PTL

\* The ranges of a window adjoin, are not empty, and end where it ends.
THEOREM RangesTileHold == Spec => RangesTile
<1> DEFINE Tiles == /\ range'[1] = range[2] /\ range'[1] < range'[2] /\ range'[2] <= end
                    /\ cur' >= end => range'[2] = end
<1>1. RangesInv /\ [Next]_vars => [Tiles]_vars
  <2> SUFFICES ASSUME RangesInv, Yield PROVE Tiles
    BY DEF Next
  <2>1. range[2] = cur
    BY DEF RangesInv, Yield
  <2> QED
    BY <2>1, YieldedRange
<1> QED
  BY <1>1, RangesHold, PTL DEF Spec, RangesTile

\* A window stays as it was when the generator was called.
LEMMA WindowKept ==
    [Next]_vars => UNCHANGED <<gran, chunk, lo, hi, mark, start, end>>
  BY DEF Next, Yield, vars

\* No row of the window is left out, but for those that earlier ticks merged.
THEOREM CoversWindowHolds == Spec => []CoversWindow
<1>1. Init => CoversWindow
  BY InitWindow, WindowStart, WindowEnd DEF CoversWindow
<1>2. CoversWindow /\ [Next]_vars => CoversWindow'
  BY WindowKept DEF CoversWindow
<1> QED
  BY <1>1, <1>2, PTL DEF Spec

\* A resumed run begins with the chunk that its marker lies in.
THEOREM ResumesAtChunkHolds == Spec => []ResumesAtChunk
<1>1. Init => ResumesAtChunk
  <2> SUFFICES ASSUME Init, chunk # NoChunk, mark # NoMark, lo <= mark
               PROVE  start <= mark /\ SameBucket(chunk, start, mark)
    BY DEF ResumesAtChunk
  <2>1. start = FloorTo(chunk, mark) /\ Grid = chunk
    BY InitWindow, WindowStart DEF Grid
  <2>2. Grid \in Granularities /\ mark \in Reach(Grid)
    BY InitWindow, GridOK DEF WindowOK
  <2> QED
    BY <2>1, <2>2, BucketBounds, SameBucketEquivalence
<1>2. ResumesAtChunk /\ [Next]_vars => ResumesAtChunk'
  BY WindowKept DEF ResumesAtChunk
<1> QED
  BY <1>1, <1>2, PTL DEF Spec

\* The bounds of a window are date_trunc of its ends.
THEOREM SnapsLikeDateTruncHolds == Spec => []SnapsLikeDateTrunc
<1>1. Init => SnapsLikeDateTrunc
  <2> SUFFICES ASSUME Init, NEW t \in {lo, hi}
               PROVE  /\ SameBucket(gran, FloorTo(gran, t), t) /\ IsBoundary(gran, FloorTo(gran, t))
                      /\ SameBucket(gran, NextBucket(gran, t) - 1, t)
                      /\ IsBoundary(gran, NextBucket(gran, t))
    BY DEF SnapsLikeDateTrunc
  <2>1. gran \in Granularities /\ t \in Reach(gran)
    BY InitWindow DEF WindowOK, Reach
  <2> QED
    BY <2>1, BucketBounds, SameBucketEquivalence
<1>2. SnapsLikeDateTrunc /\ [Next]_vars => SnapsLikeDateTrunc'
  BY WindowKept DEF SnapsLikeDateTrunc
<1> QED
  BY <1>1, <1>2, PTL DEF Spec

\* Every granularity of _BUCKETS is a grid as ChunkGrid assumes one: floors
\* at or before their moment and in order, each bucket longer than nothing,
\* ending after its own moments and where the next one begins.
THEOREM GranularitiesAreGrids ==
    ASSUME NEW c \in Granularities, NEW t \in Reach(c)
    PROVE  /\ FloorTo(c, t) \in Reach(c) /\ FloorTo(c, t) <= t
           /\ NextBucket(c, t) \in Reach(c) /\ t < NextBucket(c, t)
           /\ t < NextBucket(c, FloorTo(c, t))
           /\ \A u \in Reach(c) : t <= u => FloorTo(c, t) <= FloorTo(c, u)
           /\ FloorTo(c, NextBucket(c, t)) = NextBucket(c, t)
<1>1. /\ FloorTo(c, t) \in Reach(c) /\ FloorTo(c, t) <= t /\ SameBucket(c, t, FloorTo(c, t))
      /\ NextBucket(c, t) \in Reach(c) /\ t < NextBucket(c, t)
      /\ IsBoundary(c, NextBucket(c, t))
  BY BucketBounds
<1>2. FloorTo(c, NextBucket(c, t)) = NextBucket(c, t)
  BY <1>1, FloorOfBoundary
<1>3. t < NextBucket(c, FloorTo(c, t))
  <2>1. SameBucket(c, FloorTo(c, t), t)
    BY <1>1, SameBucketEquivalence
  <2> QED
    BY <1>1, <2>1, BucketIsInterval
<1>4. \A u \in Reach(c) : t <= u => FloorTo(c, t) <= FloorTo(c, u)
  BY BucketsInOrder
<1> QED
  BY <1>1, <1>2, <1>3, <1>4
=============================================================================
