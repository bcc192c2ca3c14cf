---------------------------- MODULE CalendarWalk ----------------------------
(***************************************************************************)
(* A walk along the days of the Gregorian calendar, each date obtained     *)
(* from the one before by the rule of month lengths and leap years: what   *)
(* CivilCalendar is compared with.                                         *)
(***************************************************************************)
EXTENDS CivilCalendar

CONSTANT LastDay    \* the walk starts on 1970-01-01 and ends on this day

ASSUME WalkAssumption == LastDay \in Int

VARIABLES today,   \* days since 1970-01-01
          date     \* the date of that day

walk == <<today, date>>

-----------------------------------------------------------------------------
WalkInit ==
    /\ today = 0
    /\ date = [year |-> 1970, month |-> 1, day |-> 1]

Tomorrow ==
    /\ today < LastDay
    /\ today' = today + 1
    /\ date' = Successor(date)

WalkSpec == WalkInit /\ [][Tomorrow]_walk

-----------------------------------------------------------------------------
(* civil_from_days is the Gregorian calendar: it gives every day of the    *)
(* walk, centuries and the end of an era included, the date that follows   *)
(* the date of the day before.                                             *)
CalendarIsGregorian == civil_from_days(today) = date

(* days_from_civil numbers the dates of the Gregorian calendar in order,   *)
(* without a gap.                                                          *)
DatesAreNumbered == days_from_civil(date.year, date.month, date.day) = today
=============================================================================
