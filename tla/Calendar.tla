------------------------------ MODULE Calendar ------------------------------
(***************************************************************************)
(* The bucket arithmetic of detector.py and the chunk table of config.py.  *)
(*                                                                         *)
(* A moment is a natural number, Slots of them to a day, counted from      *)
(* midnight of 1 January of FirstYear.  One slot stands for one bucket of  *)
(* the finest granularity modelled, "hour"; the finer ones are the same    *)
(* arithmetic on a smaller unit.                                           *)
(***************************************************************************)
EXTENDS Integers

CONSTANTS
    FirstYear,
    FirstWeekday,  \* weekday of 1 January of FirstYear, Monday is 0
    Slots          \* moments per day

ASSUME CalendarAssumption ==
    /\ FirstYear \in Nat \ {0} /\ Slots \in Nat \ {0}
    /\ FirstWeekday \in 0..6

(***************************************************************************)
(* datetime: month k is counted from January of FirstYear.                 *)
(***************************************************************************)
LeapYear(y) == y % 4 = 0 /\ (y % 100 # 0 \/ y % 400 = 0)

\* Days before 1 January of year y, and days of a common year before a month.
DaysBeforeYear(y) ==
    (y - 1) * 365 + (y - 1) \div 4 - (y - 1) \div 100 + (y - 1) \div 400

DaysBeforeMonth == <<0, 31, 59, 90, 120, 151, 181, 212, 243, 273, 304, 334>>

DayOfYear(y, m) == DaysBeforeMonth[m + 1] + (IF m > 1 /\ LeapYear(y) THEN 1 ELSE 0)

\* The day on which month k begins.
MonthStart(k) ==
    LET y == FirstYear + k \div 12
    IN  DaysBeforeYear(y) - DaysBeforeYear(FirstYear) + DayOfYear(y, k % 12)

\* The month of moment t; a month has 28 to 31 days.
Day(t) == t \div Slots
Month(t) == CHOOSE k \in (Day(t) \div 31)..(Day(t) \div 28) :
                MonthStart(k) <= Day(t) /\ Day(t) < MonthStart(k + 1)
Weekday(t) == (Day(t) + FirstWeekday) % 7

Midnight(day) == day * Slots

(***************************************************************************)
(* _BUCKETS: floor_to_bucket_start and next_bucket_after.                  *)
(***************************************************************************)
Granularities == {"hour", "day", "week", "month", "quarter", "year"}

MonthsIn == [month |-> 1, quarter |-> 3, year |-> 12]

\* Fault: the month's number is divided without first making January 0.
FirstMonthShifted(g, t) == ((Month(t) + 1) \div MonthsIn[g]) * MonthsIn[g]

\* The first month of the month, quarter or year of t.
FirstMonth(g, t) == Month(t) - (Month(t) % MonthsIn[g])

FloorTo(g, t) ==
    CASE g = "hour" -> t
      [] g = "day"  -> Midnight(Day(t))
      [] g = "week" -> Midnight(Day(t) - Weekday(t))
      [] OTHER      -> Midnight(MonthStart(FirstMonth(g, t)))

\* Fault: _add_months wraps the month without carrying into the year.
SameYear(g, t) ==
    LET first == FirstMonth(g, t)
    IN  CASE g = "hour" -> t + 1
          [] g = "day"  -> FloorTo(g, t) + Slots
          [] g = "week" -> FloorTo(g, t) + 7 * Slots
          [] OTHER      -> Midnight(MonthStart(first - (first % 12) + ((first + MonthsIn[g]) % 12)))

NextBucket(g, t) ==
    CASE g = "hour" -> t + 1
      [] g = "day"  -> FloorTo(g, t) + Slots
      [] g = "week" -> FloorTo(g, t) + 7 * Slots
      [] OTHER      -> Midnight(MonthStart(FirstMonth(g, t) + MonthsIn[g]))

\* Fault: the end of the window is not expanded to the next bucket.
ExpandDownward(g, lo, hi) == <<FloorTo(g, lo), FloorTo(g, hi)>>

\* expand_to_bucket_bounds.
Expand(g, lo, hi) == <<FloorTo(g, lo), NextBucket(g, hi)>>

\* date_trunc by its definition: moments of one bucket carry the same label.
SameBucket(g, t, u) ==
    CASE g = "hour" -> t = u
      [] g = "day"  -> Day(t) = Day(u)
      [] g = "week" -> Day(t) - Weekday(t) = Day(u) - Weekday(u)
      [] OTHER      -> Month(t) \div MonthsIn[g] = Month(u) \div MonthsIn[g]

\* A bucket begins at t.  1 January begins any bucket but a week.
IsBoundary(g, t) == (t = 0 /\ g # "week") \/ ~SameBucket(g, t - 1, t)

(***************************************************************************)
(* _CHUNK_COMPATIBILITY: which full_refresh_chunk a granularity allows.    *)
(***************************************************************************)
Rank == [millisecond |-> 1, second |-> 2, minute |-> 3, hour |-> 4, day |-> 5,
         week |-> 6, month |-> 7, quarter |-> 8, year |-> 9]

\* Fault: coarser is taken to mean compatible.
CoarserChunk(g, c) == Rank[c] >= Rank["minute"] /\ Rank[c] >= Rank[g]

ChunkCompatible(g, c) ==
    IF g = "week" THEN c = "week"
    ELSE /\ Rank[c] >= Rank["minute"] /\ Rank[c] >= Rank[g]
         /\ c = "week" => Rank[g] <= Rank["week"]
=============================================================================
