------------------------ MODULE CivilCalendarProofs ------------------------
(***************************************************************************)
(* The conversions of CivilCalendar are the Gregorian calendar, on every   *)
(* day, before 1970 and before year 0 included: civil_from_days dates the  *)
(* days in the order of the calendar, days_from_civil is its inverse, and  *)
(* the RFC 3339 text of an instant gives the instant back and sorts as the *)
(* instant does.                                                           *)
(*                                                                         *)
(* The argument follows the algorithm.  Years start in March, so that the  *)
(* leap day is the last of its year, and are counted in eras of 400 years: *)
(* a day is the day k of the year y of an era, in one way only.            *)
(***************************************************************************)
EXTENDS CalendarWalk, WellFoundedInduction, TLAPS

(* Whether the year y of an era, which ends with February, has 366 days.   *)
EndsInLeapDay(y) == y % 4 = 3 /\ (y % 100 = 99 => y = 399)

(* The year y of an era has a day k.                                       *)
IsDay(y, k) ==
    /\ 0 <= y /\ y <= 399
    /\ 0 <= k /\ k <= 365
    /\ k = 365 => EndsInLeapDay(y)

(* The number of that day.                                                 *)
Number(era, y, k) == era * 146097 + DaysBefore(y) + k - 719468

-----------------------------------------------------------------------------
(* Quotients as the inequalities that define them.                         *)
LEMMA Quotients ==
    ASSUME NEW n \in Int
    PROVE  /\ n \div 1460 \in Int
           /\ 1460 * (n \div 1460) <= n /\ n < 1460 * (n \div 1460) + 1460
           /\ n \div 36524 \in Int
           /\ 36524 * (n \div 36524) <= n /\ n < 36524 * (n \div 36524) + 36524
           /\ n \div 146096 \in Int
           /\ 146096 * (n \div 146096) <= n
           /\ n < 146096 * (n \div 146096) + 146096
           /\ n \div 365 \in Int
           /\ 365 * (n \div 365) <= n /\ n < 365 * (n \div 365) + 365
  BY SMTT(60)

LEMMA YearQuotients ==
    ASSUME NEW n \in Int
    PROVE  /\ n \div 4 \in Int /\ n % 4 = n - 4 * (n \div 4)
           /\ 4 * (n \div 4) <= n /\ n < 4 * (n \div 4) + 4
           /\ n \div 100 \in Int /\ n % 100 = n - 100 * (n \div 100)
           /\ 100 * (n \div 100) <= n /\ n < 100 * (n \div 100) + 100
  BY SMTT(60)

(* The year computed from a day of the era holds the day.                  *)
LEMMA YearCore ==
    ASSUME NEW doe \in Int, 0 <= doe, doe <= 146096,
           NEW a \in Int, 1460 * a <= doe, doe < 1460 * a + 1460,
           NEW b \in Int, 36524 * b <= doe, doe < 36524 * b + 36524,
           NEW c \in Int, 146096 * c <= doe, doe < 146096 * c + 146096,
           NEW y \in Int, 365 * y <= doe - a + b - c,
                          doe - a + b - c < 365 * y + 365,
           NEW p \in Int, 4 * p <= y, y < 4 * p + 4,
           NEW q \in Int, 100 * q <= y, y < 100 * q + 100
    PROVE  /\ 0 <= y /\ y <= 399
           /\ 0 <= doe - (365 * y + p - q)
           /\ doe - (365 * y + p - q) <= 365
           /\ doe - (365 * y + p - q) = 365 =>
                 y = 4 * p + 3 /\ (y = 100 * q + 99 => y = 399)
  BY SMTT(60)

(* ... and no other year does.                                             *)
LEMMA UniqueCore ==
    ASSUME NEW doe \in Int,
           NEW a \in Int, 1460 * a <= doe, doe < 1460 * a + 1460,
           NEW b \in Int, 36524 * b <= doe, doe < 36524 * b + 36524,
           NEW c \in Int, 146096 * c <= doe, doe < 146096 * c + 146096,
           NEW y \in Int, 365 * y <= doe - a + b - c,
                          doe - a + b - c < 365 * y + 365,
           NEW x \in Int, 0 <= x, x <= 399,
           NEW p \in Int, 4 * p <= x, x < 4 * p + 4,
           NEW q \in Int, 100 * q <= x, x < 100 * q + 100,
           NEW k \in Int, 0 <= k, k <= 365,
           k = 365 => x = 4 * p + 3 /\ (x = 100 * q + 99 => x = 399),
           doe = 365 * x + p - q + k
    PROVE  0 <= doe /\ doe <= 146096 /\ y = x
  BY SMTT(60)

LEMMA YearHoldsDay ==
    ASSUME NEW doe \in Int, 0 <= doe, doe <= 146096
    PROVE  /\ YearOf(doe) \in Int
           /\ doe - DaysBefore(YearOf(doe)) \in Int
           /\ IsDay(YearOf(doe), doe - DaysBefore(YearOf(doe)))
  <1>1. PICK a \in Int : /\ a = doe \div 1460
                         /\ 1460 * a <= doe /\ doe < 1460 * a + 1460
    BY Quotients
  <1>2. PICK b \in Int : /\ b = doe \div 36524
                         /\ 36524 * b <= doe /\ doe < 36524 * b + 36524
    BY Quotients
  <1>3. PICK c \in Int : /\ c = doe \div 146096
                         /\ 146096 * c <= doe /\ doe < 146096 * c + 146096
    BY Quotients
  <1>4. PICK y \in Int : /\ y = (doe - a + b - c) \div 365
                         /\ 365 * y <= doe - a + b - c
                         /\ doe - a + b - c < 365 * y + 365
    <2>1. doe - a + b - c \in Int
      OBVIOUS
    <2>. QED
      BY <2>1, Quotients
  <1>5. YearOf(doe) = y
    BY <1>1, <1>2, <1>3, <1>4 DEF YearOf
  <1>6. PICK p \in Int : /\ p = y \div 4 /\ y % 4 = y - 4 * p
                         /\ 4 * p <= y /\ y < 4 * p + 4
    BY YearQuotients
  <1>7. PICK q \in Int : /\ q = y \div 100 /\ y % 100 = y - 100 * q
                         /\ 100 * q <= y /\ y < 100 * q + 100
    BY YearQuotients
  <1>8. /\ 0 <= y /\ y <= 399
        /\ 0 <= doe - (365 * y + p - q)
        /\ doe - (365 * y + p - q) <= 365
        /\ doe - (365 * y + p - q) = 365 =>
              y = 4 * p + 3 /\ (y = 100 * q + 99 => y = 399)
    BY <1>1, <1>2, <1>3, <1>4, <1>6, <1>7, YearCore
  <1>9. DaysBefore(y) = 365 * y + p - q
    BY <1>6, <1>7 DEF DaysBefore
  <1>10. doe - DaysBefore(y) = 365 => EndsInLeapDay(y)
    BY <1>6, <1>7, <1>8, <1>9 DEF EndsInLeapDay
  <1>. QED
    BY <1>5, <1>8, <1>9, <1>10 DEF IsDay

LEMMA YearIsUnique ==
    ASSUME NEW x \in Int, NEW k \in Int, IsDay(x, k)
    PROVE  /\ DaysBefore(x) + k \in Int
           /\ 0 <= DaysBefore(x) + k /\ DaysBefore(x) + k <= 146096
           /\ YearOf(DaysBefore(x) + k) = x
  <1>1. PICK p \in Int : /\ p = x \div 4 /\ x % 4 = x - 4 * p
                         /\ 4 * p <= x /\ x < 4 * p + 4
    BY YearQuotients
  <1>2. PICK q \in Int : /\ q = x \div 100 /\ x % 100 = x - 100 * q
                         /\ 100 * q <= x /\ x < 100 * q + 100
    BY YearQuotients
  <1>3. PICK doe \in Int : doe = DaysBefore(x) + k /\ doe = 365 * x + p - q + k
    BY <1>1, <1>2 DEF DaysBefore
  <1>4. k = 365 => x = 4 * p + 3 /\ (x = 100 * q + 99 => x = 399)
    BY <1>1, <1>2 DEF IsDay, EndsInLeapDay
  <1>5. PICK a \in Int : /\ a = doe \div 1460
                         /\ 1460 * a <= doe /\ doe < 1460 * a + 1460
    BY Quotients
  <1>6. PICK b \in Int : /\ b = doe \div 36524
                         /\ 36524 * b <= doe /\ doe < 36524 * b + 36524
    BY Quotients
  <1>7. PICK c \in Int : /\ c = doe \div 146096
                         /\ 146096 * c <= doe /\ doe < 146096 * c + 146096
    BY Quotients
  <1>8. PICK y \in Int : /\ y = (doe - a + b - c) \div 365
                         /\ 365 * y <= doe - a + b - c
                         /\ doe - a + b - c < 365 * y + 365
    <2>1. doe - a + b - c \in Int
      OBVIOUS
    <2>. QED
      BY <2>1, Quotients
  <1>9. 0 <= x /\ x <= 399 /\ 0 <= k /\ k <= 365
    BY DEF IsDay
  <1>10. 0 <= doe /\ doe <= 146096 /\ y = x
    <2>1. /\ 1460 * a <= doe /\ doe < 1460 * a + 1460
          /\ 36524 * b <= doe /\ doe < 36524 * b + 36524
          /\ 146096 * c <= doe /\ doe < 146096 * c + 146096
          /\ 365 * y <= doe - a + b - c /\ doe - a + b - c < 365 * y + 365
      BY <1>5, <1>6, <1>7, <1>8
    <2>2. /\ 4 * p <= x /\ x < 4 * p + 4
          /\ 100 * q <= x /\ x < 100 * q + 100
          /\ doe = 365 * x + p - q + k
      BY <1>1, <1>2, <1>3
    <2>. QED
      BY <1>4, <1>9, <2>1, <2>2, UniqueCore, SMTT(60)
  <1>11. YearOf(doe) = y
    BY <1>5, <1>6, <1>7, <1>8 DEF YearOf
  <1>. QED
    BY <1>3, <1>10, <1>11

(* The months of a year that starts in March: the day lies in its month,   *)
(* which has no more days than the calendar gives it.                      *)
LEMMA MonthBounds ==
    ASSUME NEW k \in Int, 0 <= k, k <= 365
    PROVE  /\ MonthOf(k) \in 0..11
           /\ MonthStart(MonthOf(k)) \in Int
           /\ 0 <= k - MonthStart(MonthOf(k))
           /\ k - MonthStart(MonthOf(k)) <= 30
  BY SMTT(60) DEF MonthOf, MonthStart

LEMMA EraOfNumber ==
    ASSUME NEW era \in Int, NEW doe \in Int, 0 <= doe, doe <= 146096
    PROVE  /\ (era * 146097 + doe) \div 146097 = era
           /\ (era * 146097 + doe) % 146097 = doe
  BY SMTT(60)

(* Every day is a day of a year of an era.                                 *)
LEMMA DayOfYear ==
    ASSUME NEW n \in Int
    PROVE  \E era \in Int, y \in Int, k \in Int :
              IsDay(y, k) /\ n = Number(era, y, k)
  <1>1. PICK era \in Int, doe \in Int :
           /\ n + 719468 = era * 146097 + doe
           /\ 0 <= doe /\ doe <= 146096
    <2>. DEFINE z == n + 719468
    <2>1. /\ z \div 146097 \in Int /\ z % 146097 \in Int
          /\ z = (z \div 146097) * 146097 + (z % 146097)
          /\ 0 <= z % 146097 /\ z % 146097 <= 146096
      BY SMTT(60)
    <2>2. PICK era \in Int, doe \in Int : /\ era = z \div 146097
                                          /\ doe = z % 146097
      BY <2>1, SMTT(60)
    <2>3. n + 719468 = era * 146097 + doe /\ 0 <= doe /\ doe <= 146096
      BY <2>1, <2>2, SMTT(60)
    <2>. QED
      BY <2>3, SMTT(60)
  <1>2. PICK y \in Int, k \in Int : /\ y = YearOf(doe)
                                    /\ k = doe - DaysBefore(y)
                                    /\ IsDay(y, k)
    BY <1>1, YearHoldsDay, SMTT(60)
  <1>3. DaysBefore(y) \in Int
    BY YearQuotients, SMTT(60) DEF DaysBefore
  <1>4. n = Number(era, y, k)
    BY <1>1, <1>2, <1>3, SMTT(60) DEF Number
  <1>. QED
    BY <1>2, <1>4, SMTT(60)

LEMMA CivilByEra ==
    ASSUME NEW n, NEW era, NEW doe,
           era = (n + 719468) \div 146097, doe = (n + 719468) % 146097
    PROVE  civil_from_days(n)
              = DateOf(era, YearOf(doe), doe - DaysBefore(YearOf(doe)))
  BY SMT DEF civil_from_days, EraDays, EpochDays

(* civil_from_days gives that day its date.                                *)
LEMMA DateOfDay ==
    ASSUME NEW era \in Int, NEW y \in Int, NEW k \in Int, IsDay(y, k)
    PROVE  civil_from_days(Number(era, y, k)) = DateOf(era, y, k)
  <1>. DEFINE n == Number(era, y, k)
  <1>1. PICK doe \in Int : /\ doe = DaysBefore(y) + k
                           /\ 0 <= doe /\ doe <= 146096
                           /\ YearOf(doe) = y
    BY YearIsUnique, SMTT(60)
  <1>2. DaysBefore(y) \in Int
    BY YearQuotients, SMTT(60) DEF DaysBefore
  <1>3. n + 719468 = era * 146097 + doe
    BY <1>1, <1>2, SMTT(60) DEF Number
  <1>4. (n + 719468) \div 146097 = era /\ (n + 719468) % 146097 = doe
    BY <1>1, <1>3, EraOfNumber, SMTT(60)
  <1>5. doe - DaysBefore(y) = k
    BY <1>1, <1>2, SMTT(60)
  <1>. QED
    BY <1>1, <1>4, <1>5, CivilByEra, SMTT(60)

(* days_from_civil adds up the days of the eras before the year, which     *)
(* starts in March, and those of the era.                                  *)
MarchYear(x, m) == IF m <= 2 THEN x - 1 ELSE x
DaysInEra(y, m, d) ==
    LET mp == IF m > 2 THEN m - 3 ELSE m + 9
    IN  y * 365 + y \div 4 - y \div 100 + ((153 * mp + 2) \div 5 + d - 1)

LEMMA DaysByEra ==
    ASSUME NEW x \in Int, NEW m \in Int, NEW d \in Int
    PROVE  days_from_civil(x, m, d)
              = (MarchYear(x, m) \div 400) * 146097
                   + DaysInEra(MarchYear(x, m) % 400, m, d) - 719468
  BY SMTT(60) DEF days_from_civil, EraDays, EpochDays, MarchYear, DaysInEra,
                  DaysBefore, MonthStart

(* days_from_civil gives that date its number.                             *)
LEMMA NumberOfDate ==
    ASSUME NEW era \in Int, NEW y \in Int, NEW k \in Int, IsDay(y, k)
    PROVE  LET d == DateOf(era, y, k)
           IN  days_from_civil(d.year, d.month, d.day) = Number(era, y, k)
  <1>1. PICK mp \in 0..11, b \in Int :
           mp = MonthOf(k) /\ b = MonthStart(mp)
    BY MonthBounds, SMTT(60) DEF IsDay
  <1>2. PICK m \in 1..12 : /\ m = CivilMonth(mp)
                           /\ mp = IF m > 2 THEN m - 3 ELSE m + 9
    BY SMTT(60) DEF CivilMonth
  <1>3. PICK x \in Int : /\ x = CivilYear(era, y, mp)
                         /\ x = y + era * 400 + (IF m <= 2 THEN 1 ELSE 0)
    BY <1>2, SMTT(60) DEF CivilYear
  <1>4. /\ DateOf(era, y, k).year = x
        /\ DateOf(era, y, k).month = m
        /\ DateOf(era, y, k).day = k - b + 1
    <2>1. DateOf(era, y, k) = [year |-> x, month |-> m, day |-> k - b + 1]
      BY <1>1, <1>2, <1>3, Zenon DEF DateOf
    <2>. QED
      BY <2>1, SMTT(60)
  <1>5. MarchYear(x, m) = y + era * 400
    BY <1>3, SMTT(60) DEF MarchYear
  <1>6. (y + era * 400) \div 400 = era /\ (y + era * 400) % 400 = y
    BY SMTT(60) DEF IsDay
  <1>7. PICK s \in Int : s = DaysBefore(y) /\ s = y * 365 + y \div 4 - y \div 100
    BY YearQuotients, SMTT(60) DEF DaysBefore
  <1>8. DaysInEra(y, m, k - b + 1) = s + k
    <2>1. DaysInEra(y, m, k - b + 1)
             = y * 365 + y \div 4 - y \div 100 + (b + (k - b + 1) - 1)
      BY <1>1, <1>2, SMTT(60) DEF DaysInEra, MonthStart
    <2>. QED
      BY <1>7, <2>1, SMTT(60)
  <1>9. days_from_civil(x, m, k - b + 1) = era * 146097 + (s + k) - 719468
    <2>1. k - b + 1 \in Int /\ m \in Int
      BY SMTT(60)
    <2>. QED
      BY <1>5, <1>6, <1>8, <2>1, DaysByEra, SMTT(60)
  <1>. QED
    BY <1>4, <1>7, <1>9, SMTT(60) DEF Number

-----------------------------------------------------------------------------
(* From one day to the next: within a month, or to the first of the next.  *)
LEMMA MonthStep ==
    ASSUME NEW k \in Int, 0 <= k, k < 365
    PROVE  \/ /\ MonthOf(k + 1) = MonthOf(k)
              /\ k + 1 < MonthStart(MonthOf(k) + 1)
           \/ /\ MonthOf(k + 1) = MonthOf(k) + 1
              /\ MonthOf(k) < 11
              /\ k + 1 = MonthStart(MonthOf(k) + 1)
  BY SMTT(60) DEF MonthOf, MonthStart

(* Every month but February, which ends the year, ends where the next one  *)
(* starts.                                                                 *)
LEMMA MonthLengths ==
    ASSUME NEW mp \in 0..10, NEW x
    PROVE  MonthLength(x, CivilMonth(mp)) = MonthStart(mp + 1) - MonthStart(mp)
  BY SMTT(60) DEF MonthLength, CivilMonth, MonthStart

(* The leap day that ends the year y of an era belongs to a leap year.     *)
LEMMA LeapDays ==
    ASSUME NEW era \in Int, NEW y \in Int, 0 <= y, y <= 399
    PROVE  Leap(y + era * 400 + 1) <=> EndsInLeapDay(y)
  <1>1. /\ (y + era * 400 + 1) % 4 = (y + 1) % 4
        /\ (y + era * 400 + 1) % 100 = (y + 1) % 100
        /\ (y + era * 400 + 1) % 400 = (y + 1) % 400
    BY SMTT(60)
  <1>2. /\ (y + 1) % 4 = 0 <=> y % 4 = 3
        /\ (y + 1) % 100 = 0 <=> y % 100 = 99
        /\ (y + 1) % 400 = 0 <=> y = 399
    BY SMTT(60)
  <1>. QED
    BY <1>1, <1>2, SMTT(60) DEF Leap, EndsInLeapDay

(* ... and makes the year a day longer.                                    *)
LEMMA YearLengths ==
    ASSUME NEW y \in Int, 0 <= y, y < 399
    PROVE  DaysBefore(y + 1)
              = DaysBefore(y) + (IF EndsInLeapDay(y) THEN 366 ELSE 365)
  BY SMTT(60) DEF DaysBefore, EndsInLeapDay

(* The last day of the year y of an era.                                   *)
LastDayOf(y) == IF EndsInLeapDay(y) THEN 365 ELSE 364

LEMMA WithinAYear ==
    ASSUME NEW era \in Int, NEW y \in Int, NEW k \in Int, IsDay(y, k),
           k < LastDayOf(y)
    PROVE  /\ IsDay(y, k + 1)
           /\ DateOf(era, y, k + 1) = Successor(DateOf(era, y, k))
  <1>1. /\ 0 <= y /\ y <= 399 /\ 0 <= k /\ k < 365
        /\ IsDay(y, k + 1) /\ k + 1 \in Int
    BY SMTT(60) DEF IsDay, LastDayOf
  <1>2. PICK mp \in 0..11, b \in Int : mp = MonthOf(k) /\ b = MonthStart(mp)
    BY <1>1, MonthBounds, SMTT(60)
  <1>3. PICK np \in 0..11, e \in Int :
           np = MonthOf(k + 1) /\ e = MonthStart(np)
    BY <1>1, MonthBounds, SMTT(60)
  <1>4. PICK x \in Int : x = CivilYear(era, y, mp)
    BY SMTT(60) DEF CivilYear
  <1>5. /\ DateOf(era, y, k) = [year |-> x, month |-> CivilMonth(mp),
                                day |-> k - b + 1]
        /\ DateOf(era, y, k + 1) = [year |-> CivilYear(era, y, np),
                                    month |-> CivilMonth(np),
                                    day |-> (k + 1) - e + 1]
    <2>1. DateOf(era, y, k) = [year |-> x, month |-> CivilMonth(mp),
                               day |-> k - b + 1]
      BY <1>2, <1>4, Zenon DEF DateOf
    <2>2. DateOf(era, y, k + 1) = [year |-> CivilYear(era, y, np),
                                   month |-> CivilMonth(np),
                                   day |-> (k + 1) - e + 1]
      BY <1>3, Zenon DEF DateOf
    <2>. QED
      BY <2>1, <2>2
  <1>6. PICK f \in Int : f = MonthStart(mp + 1)
    BY SMTT(60) DEF MonthStart
  <1>7. \/ np = mp /\ k + 1 < f
        \/ np = mp + 1 /\ mp < 11 /\ k + 1 = f
    BY <1>1, <1>2, <1>3, <1>6, MonthStep, SMTT(60)
  <1>8. mp < 11 => MonthLength(x, CivilMonth(mp)) = f - b
    BY <1>2, <1>6, MonthLengths, SMTT(60)
  <1>9. mp = 11 => /\ CivilMonth(mp) = 2 /\ b = 337
                   /\ MonthLength(x, 2) = IF EndsInLeapDay(y) THEN 29 ELSE 28
    <2>1. mp = 11 => x = y + era * 400 + 1 /\ CivilMonth(mp) = 2
      BY <1>4, SMTT(60) DEF CivilMonth, CivilYear
    <2>2. mp = 11 => b = 337
      BY <1>2, SMTT(60) DEF MonthStart
    <2>. QED
      BY <1>1, <2>1, <2>2, LeapDays, SMTT(60) DEF MonthLength
  <1>10. CASE np = mp
    <2>1. k - b + 1 < MonthLength(x, CivilMonth(mp))
      BY <1>7, <1>8, <1>9, <1>10, SMTT(60) DEF LastDayOf
    <2>2. e = b /\ (k + 1) - e + 1 = k - b + 1 + 1
      BY <1>2, <1>3, <1>10, SMTT(60)
    <2>3. Successor(DateOf(era, y, k)) =
             [year |-> x, month |-> CivilMonth(mp), day |-> k - b + 1 + 1]
      BY <1>5, <2>1, SMTT(60) DEF Successor
    <2>. QED
      BY <1>1, <1>4, <1>5, <1>10, <2>2, <2>3, SMTT(60)
  <1>11. CASE np = mp + 1
    <2>1. /\ mp < 11 /\ k + 1 = f /\ e = f
          /\ k - b + 1 = MonthLength(x, CivilMonth(mp))
      BY <1>3, <1>6, <1>7, <1>8, <1>11, SMTT(60)
    <2>2. DateOf(era, y, k + 1) =
             [year  |-> CivilYear(era, y, np), month |-> CivilMonth(np),
              day |-> 1]
      BY <1>5, <2>1, SMTT(60)
    <2>3. Successor(DateOf(era, y, k)) =
             IF CivilMonth(mp) < 12
             THEN [year |-> x, month |-> CivilMonth(mp) + 1, day |-> 1]
             ELSE [year |-> x + 1, month |-> 1, day |-> 1]
      BY <1>5, <2>1, SMTT(60) DEF Successor
    <2>. QED
      BY <1>1, <1>4, <1>11, <2>1, <2>2, <2>3, SMTT(60) DEF CivilMonth, CivilYear
  <1>. QED
    BY <1>7, <1>10, <1>11

LEMMA NewYear ==
    ASSUME NEW era \in Int, NEW y \in Int, NEW k \in Int, IsDay(y, k),
           ~(k < LastDayOf(y))
    PROVE  Successor(DateOf(era, y, k)) =
              [year |-> y + era * 400 + 1, month |-> 3, day |-> 1]
  <1>1. 0 <= y /\ y <= 399 /\ k = LastDayOf(y) /\ k \in {364, 365}
    BY SMTT(60) DEF IsDay, LastDayOf
  <1>2. MonthOf(k) = 11 /\ MonthStart(11) = 337 /\ CivilMonth(11) = 2
    BY <1>1, SMTT(60) DEF MonthOf, MonthStart, CivilMonth
  <1>3. PICK x \in Int : x = CivilYear(era, y, 11) /\ x = y + era * 400 + 1
    BY <1>2, SMTT(60) DEF CivilYear
  <1>4. DateOf(era, y, k) = [year |-> x, month |-> 2, day |-> k - 337 + 1]
    BY <1>2, <1>3, SMTT(60) DEF DateOf
  <1>5. MonthLength(x, 2) = k - 337 + 1
    <2>1. 0 <= y /\ y <= 399
      BY <1>1
    <2>2. Leap(y + era * 400 + 1) <=> EndsInLeapDay(y)
      BY <2>1, LeapDays, SMTT(60)
    <2>3. Leap(x) <=> EndsInLeapDay(y)
      BY <1>3, <2>2, SMTT(60)
    <2>. QED
      BY <1>1, <2>3, SMTT(60) DEF MonthLength, LastDayOf
  <1>. QED
    BY <1>3, <1>4, <1>5, SMTT(60) DEF Successor

(* Every day is followed by the day of the date that follows its own, the  *)
(* last day of a year and of an era included.                              *)
LEMMA Tomorrows ==
    ASSUME NEW era \in Int, NEW y \in Int, NEW k \in Int, IsDay(y, k)
    PROVE  civil_from_days(Number(era, y, k) + 1)
              = Successor(DateOf(era, y, k))
  <1>1. PICK s \in Int : s = DaysBefore(y)
    BY YearQuotients, SMTT(60) DEF DaysBefore
  <1>2. CASE k < LastDayOf(y)
    <2>1. /\ IsDay(y, k + 1)
          /\ DateOf(era, y, k + 1) = Successor(DateOf(era, y, k))
      BY <1>2, WithinAYear, SMTT(60)
    <2>2. Number(era, y, k) + 1 = Number(era, y, k + 1)
      BY <1>1, SMTT(60) DEF Number
    <2>3. civil_from_days(Number(era, y, k + 1)) = DateOf(era, y, k + 1)
      BY <2>1, DateOfDay, SMTT(60)
    <2>. QED
      BY <2>1, <2>2, <2>3, SMTT(60)
  <1>3. CASE ~(k < LastDayOf(y)) /\ y < 399
    <2>1. 0 <= y /\ k = LastDayOf(y) /\ y + 1 \in Int /\ IsDay(y + 1, 0)
      BY <1>3, SMTT(60) DEF IsDay, LastDayOf
    <2>2. DaysBefore(y + 1) = s + k + 1
      BY <1>1, <1>3, <2>1, YearLengths, SMTT(60) DEF LastDayOf
    <2>3. Number(era, y, k) + 1 = Number(era, y + 1, 0)
      BY <1>1, <2>2, SMTT(60) DEF Number
    <2>4. DateOf(era, y + 1, 0) =
             [year |-> y + era * 400 + 1, month |-> 3, day |-> 1]
      BY SMTT(60) DEF DateOf, CivilYear, CivilMonth, MonthOf, MonthStart
    <2>5. civil_from_days(Number(era, y + 1, 0)) = DateOf(era, y + 1, 0)
      BY <2>1, DateOfDay, SMTT(60)
    <2>6. Successor(DateOf(era, y, k)) =
             [year |-> y + era * 400 + 1, month |-> 3, day |-> 1]
      BY <1>3, NewYear, SMTT(60)
    <2>. QED
      BY <2>3, <2>4, <2>5, <2>6, SMTT(60)
  <1>4. CASE ~(k < LastDayOf(y)) /\ ~(y < 399)
    <2>1. y = 399 /\ k = 365 /\ era + 1 \in Int /\ IsDay(0, 0)
      BY <1>4, SMTT(60) DEF IsDay, LastDayOf, EndsInLeapDay
    <2>2. DaysBefore(399) = 145731 /\ DaysBefore(0) = 0
      BY SMTT(60) DEF DaysBefore
    <2>3. Number(era, y, k) + 1 = Number(era + 1, 0, 0)
      BY <2>1, <2>2, SMTT(60) DEF Number
    <2>4. DateOf(era + 1, 0, 0) =
             [year |-> y + era * 400 + 1, month |-> 3, day |-> 1]
      BY <2>1, SMTT(60) DEF DateOf, CivilYear, CivilMonth, MonthOf, MonthStart
    <2>5. civil_from_days(Number(era + 1, 0, 0)) = DateOf(era + 1, 0, 0)
      BY <2>1, DateOfDay, SMTT(60)
    <2>6. Successor(DateOf(era, y, k)) =
             [year |-> y + era * 400 + 1, month |-> 3, day |-> 1]
      BY <1>4, NewYear, SMTT(60)
    <2>. QED
      BY <2>3, <2>4, <2>5, <2>6, SMTT(60)
  <1>. QED
    BY <1>2, <1>3, <1>4

-----------------------------------------------------------------------------
Civil == [year : Int, month : 1..12, day : 1..31]

(* civil_from_days gives every day a date, and the day after it the date   *)
(* that follows: it is the Gregorian calendar, in the past and the future, *)
(* through centuries, eras and the year 0.  days_from_civil gives the date *)
(* of a day the number of the day.                                         *)
THEOREM CalendarOfEveryDay ==
    ASSUME NEW n \in Int
    PROVE  /\ civil_from_days(n) \in Civil
           /\ civil_from_days(n + 1) = Successor(civil_from_days(n))
           /\ LET d == civil_from_days(n)
              IN  days_from_civil(d.year, d.month, d.day) = n
  <1>1. PICK era \in Int, y \in Int, k \in Int :
           IsDay(y, k) /\ n = Number(era, y, k)
    BY DayOfYear
  <1>2. civil_from_days(n) = DateOf(era, y, k)
    BY <1>1, DateOfDay
  <1>3. PICK mp \in 0..11, b \in Int : /\ mp = MonthOf(k) /\ b = MonthStart(mp)
                                       /\ 0 <= k - b /\ k - b <= 30
    BY <1>1, MonthBounds, SMTT(60) DEF IsDay
  <1>4. CivilYear(era, y, mp) \in Int /\ CivilMonth(mp) \in 1..12
    BY SMTT(60) DEF CivilYear, CivilMonth
  <1>5. DateOf(era, y, k) = [year |-> CivilYear(era, y, mp),
                             month |-> CivilMonth(mp), day |-> k - b + 1]
    BY <1>3, Zenon DEF DateOf
  <1>6. DateOf(era, y, k) \in Civil
    BY <1>3, <1>4, <1>5, SMTT(60) DEF Civil
  <1>7. civil_from_days(n + 1) = Successor(civil_from_days(n))
    BY <1>1, <1>2, Tomorrows
  <1>8. LET d == civil_from_days(n)
        IN  days_from_civil(d.year, d.month, d.day) = n
    BY <1>1, <1>2, NumberOfDate
  <1>. QED
    BY <1>2, <1>6, <1>7, <1>8

-----------------------------------------------------------------------------
(* The text of an instant.                                                 *)
LEMMA TimeOfDay ==
    ASSUME NEW s \in Int, 0 <= s, s < 86400
    PROVE  /\ s \div 3600 \in Int /\ (s % 3600) \div 60 \in Int
           /\ s % 60 \in Int
           /\ 0 <= s \div 3600
           /\ 0 <= (s % 3600) \div 60 /\ (s % 3600) \div 60 < 60
           /\ 0 <= s % 60 /\ s % 60 < 60
           /\ s = (s \div 3600) * 3600 + ((s % 3600) \div 60) * 60 + (s % 60)
  <1>. DEFINE r == s % 3600
  <1>1. /\ s = (s \div 3600) * 3600 + r /\ r \in Int
        /\ 0 <= r /\ r < 3600
        /\ s \div 3600 \in Int /\ 0 <= s \div 3600
    BY SMTT(60)
  <1>2. r % 60 = s % 60
    BY SMTT(60)
  <1>. HIDE DEF r
  <1>3. /\ r = (r \div 60) * 60 + (r % 60)
        /\ r \div 60 \in Int /\ r % 60 \in Int
        /\ 0 <= r \div 60 /\ r \div 60 < 60
        /\ 0 <= r % 60 /\ r % 60 < 60
    BY <1>1, SMTT(60)
  <1>. QED
    BY <1>1, <1>2, <1>3, SMTT(60) DEF r

(* A text read back is the instant it was printed from: policy-engine      *)
(* relies on it between decide and verify_decision (lib.rs:221-223).       *)
THEOREM TextsReadBack ==
    ASSUME NEW t \in Instant
    PROVE  request_time_from_rfc3339(rfc3339_from_seconds(t)) = t
  <1>1. PICK n \in Int, s \in Int :
           /\ t = [days |-> n, second_of_day |-> s]
           /\ 0 <= s /\ s < 86400
    BY SMTT(60) DEF Instant
  <1>. DEFINE text == rfc3339_from_seconds(t)
              d == civil_from_days(n)
  <1>2. /\ text.date = d
        /\ text.hour = s \div 3600
        /\ text.minute = (s % 3600) \div 60
        /\ text.second = s % 60
    BY <1>1, SMTT(60) DEF rfc3339_from_seconds
  <1>3. days_from_civil(d.year, d.month, d.day) = n
    BY CalendarOfEveryDay
  <1>. HIDE DEF text, d
  <1>4. s = text.hour * 3600 + text.minute * 60 + text.second
    BY <1>1, <1>2, TimeOfDay, SMTT(60)
  <1>5. request_time_from_rfc3339(text)
           = [days |-> n, second_of_day |-> s]
    BY <1>2, <1>3, <1>4, SMTT(60) DEF request_time_from_rfc3339
  <1>. QED
    BY <1>1, <1>5 DEF text

-----------------------------------------------------------------------------
(* Induction on the natural numbers, for a set.                            *)
LEMMA LeastElement ==
    ASSUME NEW T \in SUBSET Nat, T # {}
    PROVE  \E x \in T : \A y \in T : x <= y
  <1>. DEFINE R == OpToRel(<, Nat)
  <1>1. IsWellFoundedOn(R, Nat)
    BY NatLessThanWellFounded
  <1>2. R = {ss \in Nat \X Nat : ss[1] < ss[2]}
    BY DEF OpToRel
  <1>. HIDE DEF R
  <1>3. PICK x \in T : \A y \in T : ~(<<y, x>> \in R)
    BY <1>1, WFMin
  <1>4. \A y \in T : y < x => <<y, x>> \in R
    BY <1>2
  <1>5. ASSUME NEW y \in T PROVE ~(y < x)
    BY <1>3, <1>4
  <1>6. \A y \in T : x <= y
    BY <1>5
  <1>. QED
    BY <1>6

LEMMA SetInduction ==
    ASSUME NEW S, 0 \in S, \A n \in Nat : n \in S => n + 1 \in S
    PROVE  Nat \subseteq S
  <1>. DEFINE T == Nat \ S
  <1>. SUFFICES ASSUME T # {} PROVE FALSE
    OBVIOUS
  <1>1. PICK x \in T : \A y \in T : x <= y
    BY LeastElement
  <1>2. x # 0 /\ x - 1 \in Nat
    OBVIOUS
  <1>3. x - 1 \in S
    BY <1>1, <1>2
  <1>. QED
    BY <1>2, <1>3

(* The order of dates that the order of their texts is.                    *)
Precedes(d, e) ==
    \/ d.year < e.year
    \/ d.year = e.year /\ d.month < e.month
    \/ d.year = e.year /\ d.month = e.month /\ d.day < e.day

(* Later days have later dates: the text of an assertion's expiry sorts    *)
(* after the text of an earlier day, across the end of a month, of a year  *)
(* and of an era (identity_assertion.rs:306-309).                          *)
THEOREM DatesInOrder ==
    ASSUME NEW n \in Int, NEW m \in Int, n < m
    PROVE  Precedes(civil_from_days(n), civil_from_days(m))
  <1>. DEFINE S == {j \in Nat : Precedes(civil_from_days(n),
                                        civil_from_days(n + j + 1))}
  <1>1. ASSUME NEW i \in Int
        PROVE  Precedes(civil_from_days(i), civil_from_days(i + 1))
    <2>1. /\ civil_from_days(i) \in Civil
          /\ civil_from_days(i + 1) = Successor(civil_from_days(i))
      BY CalendarOfEveryDay
    <2>2. ASSUME NEW d \in Civil PROVE Precedes(d, Successor(d))
      BY SMTT(60) DEF Precedes, Successor, Civil
    <2>. QED
      BY <2>1, <2>2
  <1>2. 0 \in S
    BY <1>1
  <1>3. ASSUME NEW j \in Nat, j \in S PROVE j + 1 \in S
    <2>1. n + j + 1 \in Int /\ n + (j + 1) + 1 = (n + j + 1) + 1
      OBVIOUS
    <2>2. PICK i \in Int : i = n + j + 1
      BY <2>1
    <2>3. /\ Precedes(civil_from_days(n), civil_from_days(i))
          /\ Precedes(civil_from_days(i), civil_from_days(i + 1))
      BY <1>1, <1>3, <2>2
    <2>4. /\ civil_from_days(n) \in Civil
          /\ civil_from_days(i) \in Civil
          /\ civil_from_days(i + 1) \in Civil
      BY CalendarOfEveryDay
    <2>5. ASSUME NEW a \in Civil, NEW b \in Civil, NEW c \in Civil,
                 Precedes(a, b), Precedes(b, c)
          PROVE  Precedes(a, c)
      BY <2>5, SMTT(60) DEF Precedes, Civil
    <2>6. Precedes(civil_from_days(n), civil_from_days(i + 1))
      BY <2>3, <2>4, <2>5
    <2>7. i + 1 = n + (j + 1) + 1
      BY <2>1, <2>2
    <2>. QED
      BY <2>6, <2>7
  <1>4. Nat \subseteq S
    <2>. HIDE DEF S
    <2>. QED
      BY <1>2, <1>3, SetInduction
  <1>5. m - n - 1 \in Nat /\ n + (m - n - 1) + 1 = m
    OBVIOUS
  <1>. QED
    BY <1>4, <1>5

-----------------------------------------------------------------------------
(* However far the walk goes (every LastDay), the conversions agree with   *)
(* the Gregorian calendar on each of its days.                             *)
THEOREM GregorianForever == WalkSpec => [](CalendarIsGregorian /\ DatesAreNumbered)
  <1>. DEFINE IInv == today \in Int /\ CalendarIsGregorian
  <1>1. WalkInit => IInv
    <2>1. civil_from_days(0) = [year |-> 1970, month |-> 1, day |-> 1]
      BY SMTT(60) DEF civil_from_days, EraDays, EpochDays, YearOf, DaysBefore,
                      DateOf, CivilYear, CivilMonth, MonthOf, MonthStart
    <2>. QED
      BY <2>1, SMTT(60) DEF WalkInit, CalendarIsGregorian
  <1>2. IInv /\ [Tomorrow]_walk => IInv'
    <2>. SUFFICES ASSUME IInv, [Tomorrow]_walk PROVE IInv'
      OBVIOUS
    <2>1. CASE Tomorrow
      <3>1. today \in Int /\ today' = today + 1 /\ today' \in Int /\ date' = Successor(date)
        BY <2>1 DEF Tomorrow
      <3>. QED
        BY <3>1, CalendarOfEveryDay DEF CalendarIsGregorian
    <2>2. CASE UNCHANGED walk
      BY <2>2 DEF walk, CalendarIsGregorian
    <2>. QED
      BY <2>1, <2>2
  <1>3. IInv => CalendarIsGregorian /\ DatesAreNumbered
    <2>. SUFFICES ASSUME IInv PROVE DatesAreNumbered
      OBVIOUS
    <2>1. today \in Int /\ date = civil_from_days(today)
      BY DEF CalendarIsGregorian
    <2>. QED
      BY <2>1, CalendarOfEveryDay DEF DatesAreNumbered
  <1>. QED
    BY <1>1, <1>2, <1>3, PTL DEF WalkSpec

(* In particular days_from_civil gives the date of each day its number,    *)
(* the correction at the end of an era included.                           *)
THEOREM NumberedForever == WalkSpec => []DatesAreNumbered
  BY GregorianForever, PTL
=============================================================================
