---------------------------- MODULE CivilCalendar ----------------------------
(***************************************************************************)
(* The conversions between days since 1970-01-01 and a date that three     *)
(* services carry (identity-provider, audit-sealer, policy-engine), and    *)
(* the RFC 3339 instants built on them.  policy-engine seals the text of   *)
(* an instant and transmits its seconds: the text is rebuilt from the      *)
(* seconds when the seal is verified.                                      *)
(*                                                                         *)
(* An instant is the pair that rfc3339_from_seconds takes a number of      *)
(* seconds apart into: the day, and the second of the day.  A text is the  *)
(* six numbers it prints.                                                  *)
(***************************************************************************)
EXTENDS Integers

Instant == [days : Int, second_of_day : {s \in Nat : s < 86400}]

-----------------------------------------------------------------------------
(* Days are counted in eras of 400 years, from the first of March of the   *)
(* year 0: the days of an era, and those before 1970-01-01.                *)
EraDays == 146097
EpochDays == 719468

(* Mutant of YearOf: no correction at the end of an era.                   *)
YearWithoutEraEnd(doe) == (doe - doe \div 1460 + doe \div 36524) \div 365

(* The year of an era on its day doe, and the days of the era before it.   *)
YearOf(doe) ==
    (doe - doe \div 1460 + doe \div 36524 - doe \div 146096) \div 365
DaysBefore(yoe) == 365 * yoe + yoe \div 4 - yoe \div 100

(* The month of the day doy of a year, counted from March, and the days of *)
(* the year before a month.                                                *)
MonthOf(doy) == (5 * doy + 2) \div 153
MonthStart(mp) == (153 * mp + 2) \div 5

(* The date of a day; January and February belong to the year that started *)
(* in March before.                                                        *)
CivilMonth(mp) == IF mp < 10 THEN mp + 3 ELSE mp - 9
CivilYear(era, yoe, mp) ==
    yoe + era * 400 + (IF CivilMonth(mp) <= 2 THEN 1 ELSE 0)
DateOf(era, yoe, doy) ==
    [year  |-> CivilYear(era, yoe, MonthOf(doy)),
     month |-> CivilMonth(MonthOf(doy)),
     day   |-> doy - MonthStart(MonthOf(doy)) + 1]

civil_from_days(z0) ==
    LET z   == z0 + EpochDays
        doe == z % EraDays
        yoe == YearOf(doe)
    IN  DateOf(z \div EraDays, yoe, doe - DaysBefore(yoe))

(* Mutant of days_from_civil: years of a century are leap years.           *)
DaysWithoutCenturies(y0, m, d) ==
    LET y   == IF m <= 2 THEN y0 - 1 ELSE y0
        mp  == IF m > 2 THEN m - 3 ELSE m + 9
        doy == MonthStart(mp) + d - 1
    IN  (y \div 400) * EraDays + 365 * (y % 400) + (y % 400) \div 4 + doy
            - EpochDays

days_from_civil(y0, m, d) ==
    LET y   == IF m <= 2 THEN y0 - 1 ELSE y0
        mp  == IF m > 2 THEN m - 3 ELSE m + 9
        doy == MonthStart(mp) + d - 1
        doe == DaysBefore(y % 400) + doy
    IN  (y \div 400) * EraDays + doe - EpochDays

-----------------------------------------------------------------------------
(* The text of an instant, and the instant read back from a text.          *)
rfc3339_from_seconds(t) ==
    [date   |-> civil_from_days(t.days),
     hour   |-> t.second_of_day \div 3600,
     minute |-> (t.second_of_day % 3600) \div 60,
     second |-> t.second_of_day % 60]

request_time_from_rfc3339(s) ==
    [days          |-> days_from_civil(s.date.year, s.date.month, s.date.day),
     second_of_day |-> s.hour * 3600 + s.minute * 60 + s.second]

(* Timestamp::new: twenty characters, digits where digits are due.  The    *)
(* only number that may not fit its field is the year.                     *)
ValidTimestamp(s) == s.date.year \in 0 .. 9999

-----------------------------------------------------------------------------
(* The reference: month lengths, leap years, and the date that follows a   *)
(* date of the Gregorian calendar.                                         *)
Leap(y) == y % 4 = 0 /\ (y % 100 = 0 => y % 400 = 0)
MonthLength(y, m) == IF m = 2 THEN IF Leap(y) THEN 29 ELSE 28
                     ELSE IF m \in {4, 6, 9, 11} THEN 30
                     ELSE 31

Successor(d) ==
    IF d.day < MonthLength(d.year, d.month)
    THEN [year |-> d.year, month |-> d.month, day |-> d.day + 1]
    ELSE IF d.month < 12
    THEN [year |-> d.year, month |-> d.month + 1, day |-> 1]
    ELSE [year |-> d.year + 1, month |-> 1, day |-> 1]
=============================================================================
