--------------------------- MODULE DatetimeProofs ---------------------------
(* What datetimeNow stored is read back, for every moment of the years 1901 to   *)
(* 9999 and every time zone.                                                     *)
EXTENDS Datetime, TLAPS

LEMMA Quotient ==
    ASSUME NEW a \in Int, NEW b \in Nat \ {0}
    PROVE  a \div b \in Int /\ b * (a \div b) <= a /\ a < b * (a \div b) + b
  BY SMT

LEMMA QuotientIs ==
    ASSUME NEW a \in Int, NEW b \in Nat \ {0}, NEW q \in Int, b * q <= a, a < b * q + b
    PROVE  a \div b = q
  BY SMT

LEMMA Multiple ==
    ASSUME NEW a \in Int
    PROVE  /\ a % 4 = 0 <=> 4 * (a \div 4) = a
           /\ a % 100 = 0 <=> 100 * (a \div 100) = a
           /\ a % 400 = 0 <=> 400 * (a \div 400) = a
  BY SMT

LEMMA Predecessor ==
    ASSUME NEW y \in Int
    PROVE  /\ (y - 1) \div 4 = IF 4 * (y \div 4) = y THEN y \div 4 - 1 ELSE y \div 4
           /\ (y - 1) \div 100 =
                IF 100 * (y \div 100) = y THEN y \div 100 - 1 ELSE y \div 100
           /\ (y - 1) \div 400 =
                IF 400 * (y \div 400) = y THEN y \div 400 - 1 ELSE y \div 400
  BY SMT

\* A leap year is counted from its first of March on.
LEMMA LeapStep ==
    ASSUME NEW y \in Int
    PROVE  LeapYears(y - 1) + (IF IsLeap(y) THEN 1 ELSE 0) = LeapYears(y)
<1>1. 400 * (y \div 400) = y => 100 * (y \div 100) = y
  BY SMT
<1>2. 100 * (y \div 100) = y => 4 * (y \div 4) = y
  BY SMT
<1>3. y \div 4 \in Int /\ y \div 100 \in Int /\ y \div 400 \in Int
  BY SMT
<1>4. IsLeap(y) <=> 4 * (y \div 4) = y /\ (100 * (y \div 100) # y \/ 400 * (y \div 400) = y)
  BY SMT, Multiple DEF IsLeap
<1> QED
  BY SMT, <1>1, <1>2, <1>3, <1>4, Predecessor DEF LeapYears

\* The day of a year that begins in March falls into its month.
LEMMA Months ==
    ASSUME NEW B \in Int, NEW C \in Int,
           7305 * C <= 20 * B - 2442, 20 * B - 2442 < 7305 * C + 7305,
           NEW D \in Int, 4 * D <= 1461 * C, 1461 * C < 4 * D + 4,
           NEW E \in Int, 306001 * E <= 10000 * (B - D),
                          10000 * (B - D) < 306001 * E + 306001,
           NEW X \in Int, 10000 * X <= 306001 * E, 306001 * E < 10000 * X + 10000
    PROVE  /\ E \in 4..15
           /\ E = 4 => X = 122
           /\ E = 5 => X = 153
           /\ E = 6 => X = 183
           /\ E = 7 => X = 214
           /\ E = 8 => X = 244
           /\ E = 9 => X = 275
           /\ E = 10 => X = 306
           /\ E = 11 => X = 336
           /\ E = 12 => X = 367
           /\ E = 13 => X = 397
           /\ E = 14 => X = 428
           /\ E = 15 => X = 459
           /\ B - D - X \in 1..31
  BY SMTT(60)

\* The year that begins in March, from the century that begins there.
LEMMA Years ==
    ASSUME NEW Z \in Int, 2415386 <= Z, Z <= 5373484,
           NEW c \in Int, 146097 * c <= 4 * Z - 7468865,
                          4 * Z - 7468865 < 146097 * c + 146097,
           NEW q \in Int, 4 * q <= c, c < 4 * q + 4,
           NEW C \in Int, 7305 * C <= 20 * (Z + 1525 + c - q) - 2442,
                          20 * (Z + 1525 + c - q) - 2442 < 7305 * C + 7305
    PROVE  /\ 100 * (c + 4) <= C - 4716 /\ C - 4716 < 100 * (c + 4) + 100
           /\ 400 * (q + 1) <= C - 4716 /\ C - 4716 < 400 * (q + 1) + 400
           /\ C - 4716 >= 1900
  BY SMTT(60)

LEMMA DaysOfYears ==
    ASSUME NEW C \in Int, NEW D \in Int, 4 * D <= 1461 * C, 1461 * C < 4 * D + 4
    PROVE  D = 365 * C + 1179 + (C - 4716) \div 4
  BY SMT

LEMMA LeapYearsIsInt ==
    ASSUME NEW y \in Int
    PROVE  LeapYears(y) \in Int
  BY SMT DEF LeapYears

\* A date of which n is the day number.
IsDateOf(n, y, mo, d) ==
    /\ y > 1900 /\ mo \in 1..12 /\ d \in 1..31
    /\ DayNumber(y - 1900, mo - 1, d) = n

\* How SQLite comes from the day n to the date, every quotient by its bounds.
Computed(n, Z, c, q, B, C, D, E, X, y, mo, d) ==
    /\ Z = n + 2440588 /\ 2415386 <= Z /\ Z <= 5373484
    /\ 146097 * c <= 4 * Z - 7468865 /\ 4 * Z - 7468865 < 146097 * c + 146097
    /\ 4 * q <= c /\ c < 4 * q + 4
    /\ B = Z + 1525 + c - q
    /\ 7305 * C <= 20 * B - 2442 /\ 20 * B - 2442 < 7305 * C + 7305
    /\ 4 * D <= 1461 * C /\ 1461 * C < 4 * D + 4
    /\ 306001 * E <= 10000 * (B - D) /\ 10000 * (B - D) < 306001 * E + 306001
    /\ 10000 * X <= 306001 * E /\ 306001 * E < 10000 * X + 10000
    /\ E < 14 => y = C - 4716 /\ mo = E - 1
    /\ E >= 14 => y = C - 4715 /\ mo = E - 13
    /\ d = B - D - X

\* That is the date of the day n.
LEMMA DateOfDay ==
    ASSUME NEW n \in Int, NEW Z \in Int, NEW c \in Int, NEW q \in Int, NEW B \in Int,
           NEW C \in Int, NEW D \in Int, NEW E \in Int, NEW X \in Int,
           NEW y \in Int, NEW mo \in Int, NEW d \in Int,
           Computed(n, Z, c, q, B, C, D, E, X, y, mo, d)
    PROVE  IsDateOf(n, y, mo, d)
<1> USE DEF Computed, IsDateOf
<1>1. /\ E \in 4..15
      /\ E = 4 => X = 122
      /\ E = 5 => X = 153
      /\ E = 6 => X = 183
      /\ E = 7 => X = 214
      /\ E = 8 => X = 244
      /\ E = 9 => X = 275
      /\ E = 10 => X = 306
      /\ E = 11 => X = 336
      /\ E = 12 => X = 367
      /\ E = 13 => X = 397
      /\ E = 14 => X = 428
      /\ E = 15 => X = 459
      /\ B - D - X \in 1..31
  BY SMT, Months
<1>2. /\ 100 * (c + 4) <= C - 4716 /\ C - 4716 < 100 * (c + 4) + 100
      /\ 400 * (q + 1) <= C - 4716 /\ C - 4716 < 400 * (q + 1) + 400
      /\ C - 4716 >= 1900
  BY SMT, Years
<1>3. mo \in 1..12 /\ (mo > 2 <=> E < 14) /\ d \in 1..31
  BY SMT, <1>1
<1>4. LeapYears(C - 4716) = (C - 4716) \div 4 - (c + 4) + (q + 1)
  <2>1. (C - 4716) \div 100 = c + 4
    BY SMT, <1>2, QuotientIs
  <2>2. (C - 4716) \div 400 = q + 1
    BY SMT, <1>2, QuotientIs
  <2> QED
    BY SMT, <2>1, <2>2 DEF LeapYears
<1>5. D = 365 * C + 1179 + (C - 4716) \div 4
  BY SMT, DaysOfYears
<1>6. y > 1900
  <2>1. E >= 14 => C - 4715 > 1900
    BY SMT, <1>2
  <2>2. E < 14 => C - 4716 > 1900
    BY SMTT(60), <1>1
  <2> QED
    BY SMT, <2>1, <2>2
<1>7. (IF mo > 2 THEN LeapYears(y) ELSE LeapYears(y - 1)) = LeapYears(C - 4716)
  <2>1. CASE E < 14
    BY SMT, <1>3, <2>1
  <2>2. CASE E >= 14
    <3>1. y - 1 = C - 4716
      BY SMT, <2>2
    <3> QED
      BY SMT, <1>3, <2>2, <3>1
  <2> QED
    BY SMT, <2>1, <2>2
<1>8. DaysBefore[mo] \in Int /\ (C - 4716) \div 4 \in Int
  BY SMT, <1>3 DEF DaysBefore
<1>9. X = IF E < 14 THEN DaysBefore[mo] + 63 ELSE DaysBefore[mo] + 428
  <2>1. X = IF E < 14 THEN DaysBefore[E - 1] + 63 ELSE DaysBefore[E - 13] + 428
    BY SMT, <1>1 DEF DaysBefore
  <2> QED
    BY SMT, <2>1
<1>10. DayNumber(y - 1900, mo - 1, d) =
         365 * (y - 1970) + LeapYears(C - 4716) - 477 + DaysBefore[mo] + d - 1
  <2>1. /\ LeapYears(1969) = 477
        /\ LeapYears(y) \in Int /\ LeapYears(y - 1) \in Int
    BY SMT, LeapYearsIsInt DEF LeapYears
  <2>2. (y - 1900) + 1900 = y /\ (mo - 1) + 1 = mo /\ (mo - 1 > 1 <=> mo > 2)
    BY SMT
  <2>3. LeapYears(y - 1) + (IF IsLeap(y) THEN 1 ELSE 0) = LeapYears(y)
    BY LeapStep
  <2>4. DayNumber(y - 1900, mo - 1, d) =
          365 * (y - 1970) + LeapYears(y - 1) - LeapYears(1969) + DaysBefore[mo]
            + (IF mo > 2 /\ IsLeap(y) THEN 1 ELSE 0) + d - 1
    BY ONLY SMT, <1>3, <2>2 DEF DayNumber
  <2> QED
    BY ONLY SMT, <1>3, <1>7, <1>8, <2>1, <2>3, <2>4
<1> QED
  BY SMT, <1>3, <1>4, <1>5, <1>6, <1>8, <1>9, <1>10

\* A date that SQLite writes passes str2tm's checks and counts back to its day.
LEMMA DateIsRead ==
    ASSUME NEW local \in Int, NEW n \in Int, n = local \div DaySeconds,
           -25202 <= n, n <= 2932896
    PROVE  \E y \in Int, mo \in Int, d \in Int :
              DateText(local) = <<y, mo, d>> /\ IsDateOf(n, y, mo, d)
<1>1. PICK Z \in Int : Z = n + 2440588 /\ 2415386 <= Z /\ Z <= 5373484
  BY SMT
<1>2. PICK c \in Int : /\ c = Century(Z)
                       /\ 146097 * c <= 4 * Z - 7468865
                       /\ 4 * Z - 7468865 < 146097 * c + 146097
  BY SMT, Quotient DEF Century
<1>3. PICK q \in Int : q = c \div 4 /\ 4 * q <= c /\ c < 4 * q + 4
  BY SMT, Quotient
<1>4. PICK B \in Int : B = JulianDay(local) /\ B = Z + 1525 + c - q
  <2>1. JulianDay(local) = Z + 1525 + c - q
    BY SMT, <1>1, <1>2, <1>3 DEF JulianDay
  <2> QED
    BY SMT, <2>1
<1>5. PICK C \in Int : /\ C = YearOf(B)
                       /\ 7305 * C <= 20 * B - 2442 /\ 20 * B - 2442 < 7305 * C + 7305
  BY SMT, Quotient DEF YearOf
<1>6. PICK D \in Int : D = DaysToYear(B) /\ 4 * D <= 1461 * C /\ 1461 * C < 4 * D + 4
  <2>1. DaysToYear(B) = (1461 * C) \div 4
    BY SMT, <1>5 DEF DaysToYear
  <2> QED
    BY SMT, <2>1, Quotient
<1>7. PICK E \in Int : /\ E = MonthOf(B)
                       /\ 306001 * E <= 10000 * (B - D)
                       /\ 10000 * (B - D) < 306001 * E + 306001
  <2>1. MonthOf(B) = (10000 * (B - D)) \div 306001
    BY SMT, <1>6 DEF MonthOf
  <2> QED
    BY SMT, <2>1, Quotient
<1>8. PICK X \in Int : /\ X = DaysToMonth(B)
                       /\ 10000 * X <= 306001 * E /\ 306001 * E < 10000 * X + 10000
  <2>1. DaysToMonth(B) = (306001 * E) \div 10000
    BY SMT, <1>7 DEF DaysToMonth
  <2> QED
    BY SMT, <2>1, Quotient
<1>9. PICK y \in Int : /\ y = IF E < 14 THEN C - 4716 ELSE C - 4715
                       /\ E < 14 => y = C - 4716
                       /\ E >= 14 => y = C - 4715
  BY SMT
<1>10. PICK mo \in Int : /\ mo = IF E < 14 THEN E - 1 ELSE E - 13
                         /\ E < 14 => mo = E - 1
                         /\ E >= 14 => mo = E - 13
  BY SMT
<1>11. PICK d \in Int : d = B - D - X
  BY SMT
<1>12. DateText(local) = <<y, mo, d>>
  BY SMT, <1>4, <1>5, <1>6, <1>7, <1>8, <1>9, <1>10, <1>11 DEF DateText, DateOf
<1>13. Computed(n, Z, c, q, B, C, D, E, X, y, mo, d)
  BY SMT, <1>1, <1>2, <1>3, <1>4, <1>5, <1>6, <1>7, <1>8, <1>9, <1>10, <1>11 DEF Computed
<1>14. IsDateOf(n, y, mo, d)
  BY ONLY <1>13, DateOfDay, Zenon
<1> QED
  BY SMT, <1>12, <1>14
-----------------------------------------------------------------------------
IsTimeOf(local, h, mi, sec) ==
    /\ h \in 0..23 /\ mi \in 0..59 /\ sec \in 0..59
    /\ TimeText(local) = <<h, mi, 1000 * sec>>
    /\ 3600 * h + 60 * mi + sec = local % DaySeconds

\* A time of day that SQLite writes counts back to the seconds of the day.
LEMMA TimeIsRead ==
    ASSUME NEW local \in Int
    PROVE  \E h \in Int, mi \in Int, sec \in Int : IsTimeOf(local, h, mi, sec)
<1>1. PICK s \in Int : s = local % DaySeconds /\ 0 <= s /\ s < 86400
  BY SMT DEF DaySeconds
<1>2. PICK h \in Int : h = s \div 3600 /\ 3600 * h <= s /\ s < 3600 * h + 3600
  BY SMT, Quotient
<1>3. PICK m \in Int : m = s \div 60 /\ 60 * m <= s /\ s < 60 * m + 60
  BY SMT, Quotient
<1>4. PICK mi \in 0..59 : mi = m % 60 /\ m = 60 * h + mi
  BY SMT, <1>2, <1>3
<1>5. PICK sec \in 0..59 : sec = s % 60 /\ s = 60 * m + sec
  BY SMT, <1>3
<1>6. h \in 0..23
  BY SMT, <1>1, <1>2
<1>7. TimeText(local) = <<h, mi, 1000 * sec>>
  BY SMT, <1>1, <1>2, <1>3, <1>4, <1>5 DEF TimeText
<1>8. 3600 * h + 60 * mi + sec = local % DaySeconds
  BY SMT, <1>1, <1>4, <1>5
<1>9. IsTimeOf(local, h, mi, sec) /\ mi \in Int /\ sec \in Int
  BY SMT, <1>6, <1>7, <1>8 DEF IsTimeOf
<1> QED
  BY ONLY <1>9, Zenon

\* The numbers of a text.
Reads(text, y, mo, d, h, mi, sec) ==
    /\ y > 1900 /\ mo \in 1..12 /\ d \in 1..31
    /\ h \in 0..23 /\ mi \in 0..59 /\ sec \in 0..59
    /\ Field(text, 1) = y /\ Field(text, 2) = mo /\ Field(text, 3) = d
    /\ Field(text, 4) = h /\ Field(text, 5) = mi /\ Field(text, 6) = 1000 * sec

\* str2tm takes a text for that date and time.
TakenFor(text, y, mo, d, h, mi, sec) ==
    Str2tm(text) = Mktime(y - 1900, mo - 1, d, h, mi, sec)

LEMMA Accepted ==
    ASSUME NEW text, NEW y \in Int, NEW mo \in Int, NEW d \in Int,
           NEW h \in Int, NEW mi \in Int, NEW sec \in Int,
           Reads(text, y, mo, d, h, mi, sec)
    PROVE  TakenFor(text, y, mo, d, h, mi, sec)
<1> USE DEF Reads, TakenFor
<1>1. 0 <= 1000 * sec /\ 1000 * sec <= 60000 /\ (1000 * sec) \div 1000 = sec
  BY SMT
<1>2. InRange(text)
  BY SMT, <1>1 DEF InRange
<1> QED
  BY SMT, <1>1, <1>2 DEF Str2tm

\* For every moment of the years 1901 to 9999 and every time zone, what datetimeNow
\* stored is read as the moment it was stored, up to what tm_isdst may move it, a date
\* alone as the midnight before, and what timeNow stored is not read as a time.
THEOREM TimesReadBack ==
    ASSUME NEW m \in Moments, NEW ahead \in Offsets
    PROVE  LET local == m + ahead
           IN  /\ Str2tm(DatetimeText(local)) = {local - o : o \in Offsets}
               /\ Str2tm(DateText(local)) =
                    {local - (local % DaySeconds) - o : o \in Offsets}
               /\ Str2tm(ReadOfTimeText(local)) = {-1}
<1>1. PICK local \in Int : local = m + ahead
  <2>1. m \in Int /\ ahead \in Int
    BY DatetimeAssumption
  <2> QED
    BY SMT, <2>1
<1>2. PICK n \in Int : n = local \div DaySeconds /\ -25202 <= n /\ n <= 2932896
  <2>1. InCalendar(local)
    BY <1>1, CalendarAssumption, Zenon
  <2> QED
    BY ONLY SMT, <2>1, local \in Int DEF InCalendar, DaySeconds
<1>3. PICK s \in Int : s = local % DaySeconds /\ local = 86400 * n + s
  BY SMT, <1>2 DEF DaySeconds
<1>4. PICK y \in Int, mo \in Int, d \in Int :
         DateText(local) = <<y, mo, d>> /\ IsDateOf(n, y, mo, d)
  BY SMT, <1>2, DateIsRead
<1>5. PICK h \in Int, mi \in Int, sec \in Int : IsTimeOf(local, h, mi, sec)
  BY TimeIsRead
<1>6. DatetimeText(local) = <<y, mo, d, h, mi, 1000 * sec>>
  BY SMT, <1>4, <1>5 DEF DatetimeText, IsTimeOf
<1>7. TakenFor(DatetimeText(local), y, mo, d, h, mi, sec)
  <2>1. Reads(DatetimeText(local), y, mo, d, h, mi, sec)
    BY SMT, <1>4, <1>5, <1>6 DEF Reads, Field, IsDateOf, IsTimeOf
  <2> QED
    BY ONLY <2>1, Accepted, Zenon
<1>8. TakenFor(DateText(local), y, mo, d, 0, 0, 0)
  <2>1. Reads(DateText(local), y, mo, d, 0, 0, 0) /\ 0 \in Int
    BY SMT, <1>4 DEF Reads, Field, IsDateOf
  <2> QED
    BY ONLY <2>1, Accepted, Zenon
<1>9. Str2tm(DatetimeText(local)) = {local - o : o \in Offsets}
  <2>1. Str2tm(DatetimeText(local)) = {SecondNumber(n, h, mi, sec) - o : o \in Offsets}
    BY SMT, <1>4, <1>7 DEF TakenFor, Mktime, IsDateOf
  <2>2. SecondNumber(n, h, mi, sec) = local
    BY SMT, <1>3, <1>5 DEF SecondNumber, IsTimeOf, DaySeconds
  <2> QED
    BY ONLY <2>1, <2>2
<1>10. Str2tm(DateText(local)) = {local - (local % DaySeconds) - o : o \in Offsets}
  <2>1. Str2tm(DateText(local)) = {SecondNumber(n, 0, 0, 0) - o : o \in Offsets}
    BY SMT, <1>4, <1>8 DEF TakenFor, Mktime, IsDateOf
  <2>2. SecondNumber(n, 0, 0, 0) = local - (local % DaySeconds)
    BY SMT, <1>3 DEF SecondNumber, DaySeconds
  <2> QED
    BY ONLY <2>1, <2>2
<1>11. Str2tm(ReadOfTimeText(local)) = {-1}
  <2>1. ReadOfTimeText(local) = <<h>> /\ h \in 0..23
    BY SMT, <1>5 DEF ReadOfTimeText, IsTimeOf
  <2>2. Field(<<h>>, 1) = h
    BY SMT DEF Field
  <2>3. ~InRange(<<h>>)
    BY SMT, <2>1, <2>2 DEF InRange
  <2> QED
    BY SMT, <2>1, <2>3 DEF Str2tm
<1> QED
  BY SMT, <1>1, <1>9, <1>10, <1>11
=============================================================================
