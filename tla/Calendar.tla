------------------------------ MODULE Calendar ------------------------------
(***************************************************************************)
(* Instants as whole seconds since Monday, 1 January 2024, 00:00 UTC, and  *)
(* the Gregorian calendar the program engine reads from them through       *)
(* Python's datetime, from 2024 to 2098 (no centurial year among them).    *)
(***************************************************************************)
EXTENDS Integers

MinuteSecs == 60
DaySecs == 86400
SecondsOfDay == 0..(DaySecs - 1)

IsLeapYear(y) == y % 4 = 0
YearStart(y) == 365 * (y - 2024) + (y - 2021) \div 4
DaysInMonth(y, m) == IF m = 2 /\ IsLeapYear(y) THEN 29
                     ELSE <<31, 28, 31, 30, 31, 30, 31, 31, 30, 31, 30, 31>>[m]
MonthStart(y, m) == <<0, 31, 59, 90, 120, 151, 181, 212, 243, 273, 304, 334>>[m]
                    + (IF m > 2 /\ IsLeapYear(y) THEN 1 ELSE 0)

IsDate(y, m, d) == m \in 1..12 /\ d \in 1..DaysInMonth(y, m)
IsTime(hour, minute) == hour \in 0..23 /\ minute \in 0..59

\* The day a date names, and the instant of a date and a time of day.
DayNumber(y, m, d) == YearStart(y) + MonthStart(y, m) + d - 1
TimeOfDay(hour, minute) == 3600 * hour + MinuteSecs * minute
Instant(day, secs) == DaySecs * day + secs

DayOf(t) == t \div DaySecs
SecondOfDay(t) == t % DaySecs
Weekday(day) == day % 7                      \* Monday is 0, as in Python
YearOf(day) == CHOOSE y \in (2024 + day \div 366)..(2024 + day \div 365) :
                   YearStart(y) =< day /\ day < YearStart(y + 1)
MonthOf(day) ==
    LET y == YearOf(day) IN
    CHOOSE m \in 1..12 : day - YearStart(y) - MonthStart(y, m) \in 0..(DaysInMonth(y, m) - 1)
DayOfMonth(day) == day - YearStart(YearOf(day)) - MonthStart(YearOf(day), MonthOf(day)) + 1
=============================================================================
