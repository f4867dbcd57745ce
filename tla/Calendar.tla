------------------------------ MODULE Calendar ------------------------------
(***************************************************************************)
(* The versions that new migrations get (src/resolute/src/migrate.rs), and *)
(* the calendar that they are dates of.                                    *)
(***************************************************************************)
EXTENDS Integers

\* civil_from_days, with years that begin in March: the year of a day of an era of 400
\* years, the day in that year, and its month and day of the month.
YearOf(doe)     == (doe - doe \div 1460 + doe \div 36524 - doe \div 146096) \div 365
DayOf(doe, yoe) == doe - (365 * yoe + yoe \div 4 - yoe \div 100)
MarchDate(y, doy) ==
  LET mp == (5 * doy + 2) \div 153
      m  == IF mp < 10 THEN mp + 3 ELSE mp - 9
  IN [y |-> y + (IF m <= 2 THEN 1 ELSE 0), m |-> m, d |-> doy - (153 * mp + 2) \div 5 + 1]

\* The date of a day since 1970-01-01.
CivilOfDay(days) ==
  LET z   == days + 719468
      era == z \div 146097
      doe == z - era * 146097
  IN MarchDate(YearOf(doe) + era * 400, DayOf(doe, YearOf(doe)))

\* format_yyyymmddhhmmss, read as the number that versions are compared as: four digits or
\* more for the year, two for every other field.
DateNumber(t)    == 10000 * t.y + 100 * t.m + t.d
ClockNumber(tod) == 10000 * (tod \div 3600) + 100 * ((tod % 3600) \div 60) + (tod % 60)
VersionOf(secs)  == 1000000 * DateNumber(CivilOfDay(secs \div 86400)) + ClockNumber(secs % 86400)

-----------------------------------------------------------------------------
(* The Gregorian calendar, one day after the other.                        *)

Leap(y) == (y % 4 = 0 /\ y % 100 # 0) \/ y % 400 = 0
MonthDays(y, m) == IF m = 2 THEN (IF Leap(y) THEN 29 ELSE 28) ELSE IF m \in {4, 6, 9, 11} THEN 30 ELSE 31
NextDay(t) ==
  IF t.d < MonthDays(t.y, t.m) THEN [y |-> t.y, m |-> t.m, d |-> t.d + 1]
  ELSE IF t.m < 12 THEN [y |-> t.y, m |-> t.m + 1, d |-> 1] ELSE [y |-> t.y + 1, m |-> 1, d |-> 1]
=============================================================================
