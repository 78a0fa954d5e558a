------------------------------ MODULE Datetime ------------------------------
(***************************************************************************)
(* Times as texts: Utils::str2tm, and what it reads of the texts that       *)
(* SQLite's datetime(), date() and time() write for datetimeNow and timeNow *)
(* of InsertCommand and UpdateCommand.                                      *)
(*                                                                          *)
(* A text is the sequence of numbers sscanf reads of it before it meets     *)
(* something else: year, month, day, hour, minute and milliseconds.  Times  *)
(* count seconds.  A definition X_Y is X with one plausible slip, Y, in it. *)
(***************************************************************************)
EXTENDS Integers, Sequences

CONSTANTS
    Offsets,        \* what mktime may take local time to be ahead of UTC
    Moments         \* times at which a row may be written

ASSUME DatetimeAssumption == Offsets \subseteq Int /\ Moments \subseteq Int

DaySeconds == 86400

\* A local time of the years 1901, the first str2tm takes, to 9999, the last SQLite
\* writes.
InCalendar(local) ==
    -25202 <= local \div DaySeconds /\ local \div DaySeconds <= 2932896

ASSUME CalendarAssumption == \A m \in Moments, ahead \in Offsets : InCalendar(m + ahead)
-----------------------------------------------------------------------------
(* mktime, for years counted from 1900 and months counted from 0.           *)

LeapYears(y) == (y \div 4) - (y \div 100) + (y \div 400)

IsLeap(y) == y % 4 = 0 /\ (y % 100 # 0 \/ y % 400 = 0)

DaysBefore == <<0, 31, 59, 90, 120, 151, 181, 212, 243, 273, 304, 334>>

\* Days since 1970-01-01.  A day past the end of its month is one of the next month.
DayNumber(tmYear, tmMon, tmMday) ==
    LET y == tmYear + 1900
    IN  365 * (y - 1970) + LeapYears(y - 1) - LeapYears(1969)
          + DaysBefore[tmMon + 1] + (IF tmMon > 1 /\ IsLeap(y) THEN 1 ELSE 0)
          + tmMday - 1

SecondNumber(day, tmHour, tmMin, tmSec) ==
    DaySeconds * day + 3600 * tmHour + 60 * tmMin + tmSec

\* tm_isdst is not set: mktime may take the time for summer or for winter time.
Mktime(tmYear, tmMon, tmMday, tmHour, tmMin, tmSec) ==
    {SecondNumber(DayNumber(tmYear, tmMon, tmMday), tmHour, tmMin, tmSec) - o
        : o \in Offsets}
-----------------------------------------------------------------------------
(* Utils::str2tm.                                                           *)

\* A number that sscanf does not reach keeps its initial 0.
Field(text, i) == IF i \in DOMAIN text THEN text[i] ELSE 0

InRange_MonthsFromZero(text) ==
    /\ Field(text, 1) > 1900
    /\ Field(text, 2) \in 0..11
    /\ Field(text, 3) \in 1..31
    /\ Field(text, 4) \in 0..23
    /\ Field(text, 5) \in 0..59
    /\ 0 <= Field(text, 6) /\ Field(text, 6) <= 60000

InRange(text) ==
    /\ Field(text, 1) > 1900
    /\ Field(text, 2) \in 1..12
    /\ Field(text, 3) \in 1..31
    /\ Field(text, 4) \in 0..23
    /\ Field(text, 5) \in 0..59
    /\ 0 <= Field(text, 6) /\ Field(text, 6) <= 60000

\* The times a build can answer; the cast to int drops the milliseconds.
Str2tm(text) ==
    IF InRange(text)
    THEN Mktime(Field(text, 1) - 1900, Field(text, 2) - 1, Field(text, 3),
                Field(text, 4), Field(text, 5), Field(text, 6) \div 1000)
    ELSE {-1}
-----------------------------------------------------------------------------
(* What SQLite writes for a local time, as it computes it from the Julian   *)
(* day.                                                                     *)

Century(Z) == (4 * Z - 7468865) \div 146097

\* The day, counted as if every fourth year were a leap year.
JulianDay(local) ==
    LET Z == local \div DaySeconds + 2440588
    IN  Z + 1525 + Century(Z) - Century(Z) \div 4

\* Years begin in March, with month 4.
YearOf(B) == (20 * B - 2442) \div 7305

DaysToYear(B) == (1461 * YearOf(B)) \div 4

MonthOf(B) == (10000 * (B - DaysToYear(B))) \div 306001

DaysToMonth(B) == (306001 * MonthOf(B)) \div 10000

DateOf(B) ==
    <<IF MonthOf(B) < 14 THEN YearOf(B) - 4716 ELSE YearOf(B) - 4715,
      IF MonthOf(B) < 14 THEN MonthOf(B) - 1 ELSE MonthOf(B) - 13,
      B - DaysToYear(B) - DaysToMonth(B)>>

DateText(local) == DateOf(JulianDay(local))

TimeText(local) ==
    LET s == local % DaySeconds
    IN  <<s \div 3600, (s \div 60) % 60, 1000 * (s % 60)>>

DatetimeText(local) ==
    LET date == DateText(local)
        time == TimeText(local)
    IN  <<date[1], date[2], date[3], time[1], time[2], time[3]>>

\* Of a time alone sscanf reads the hour, takes it for the year and stops at the colon.
ReadOfTimeText(local) == <<TimeText(local)[1]>>
=============================================================================
