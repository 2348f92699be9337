------------------------------- MODULE Dates --------------------------------
(***************************************************************************)
(* The dates of TC_Common (src/src/utility/common.cpp): numbers of eight   *)
(* digits, %Y%m%d, moved by days through str2time and tm2str, and the      *)
(* periods (W, M, Q, S, Y) they fall in.  str2time and tm2str subtract and *)
(* add the one offset TimezoneHelper found at the start, so a date goes to *)
(* its midnight and back whatever the zone does: the offset cancels out.   *)
(***************************************************************************)
EXTENDS CivilTime

Year(d) == d \div 10000
Month(d) == (d \div 100) % 100
MDay(d) == d % 100

\* str2time and tm2str with %Y%m%d: timegm takes a day past the end of its
\* month for one of the next.
str2time(d) == DayOf(Year(d), Month(d), MDay(d))
tm2str(day) ==
  LET c == CivilOf(day) IN c.year * 10000 + c.month * 100 + c.mday

\* Mutant: every month has 31 days.
nextDate31(d, offset) ==
  IF MDay(d) + offset <= 31 THEN d + offset
  ELSE (d \div 100 + 1) * 100 + MDay(d) + offset - 31

\* nextDate and prevDate, with any sign of the offset.
nextDate(d, offset) == IF offset = 0 THEN d ELSE tm2str(str2time(d) + offset)
prevDate(d, offset) == nextDate(d, -offset)

\* The Monday after a Sunday, and on or before any other day.
secondsToMonday(day) == tm2str(day - (Weekday(day) - 1))

\* nextMonth and prevMonth, of the form %Y%m.
InRange(year, month) ==
  (IF 1970 <= year /\ year <= 9999 THEN year ELSE 1970) * 100
    + (IF 1 <= month /\ month <= 12 THEN month ELSE 0)

nextMonth(m) ==
  IF m % 100 = 12 THEN InRange(m \div 100 + 1, 1)
  ELSE InRange(m \div 100, (m % 100) + 1)
prevMonth(m) ==
  IF m % 100 = 1 THEN InRange(m \div 100 - 1, 12)
  ELSE InRange(m \div 100, (m % 100) - 1)
-----------------------------------------------------------------------------
\* The periods.  dateToWeek is strftime's %W: weeks begin on Monday, and
\* the days before the first Monday of a year are in week 0 of it.
dateToWeek(d) ==
  LET day  == str2time(d)
      yday == day - DayOf(Year(d), 1, 1)
  IN  (yday + 7 - ((Weekday(day) + 6) % 7)) \div 7
dateToMonth(d) == Month(d)
dateToSeason(d) == (Month(d) - 1) \div 3 + 1
dateToHalfYear(d) == (Month(d) - 1) \div 6 + 1
dateToYear(d) == Year(d)

dateTo(d, period) ==
  CASE period = "W" -> dateToWeek(d)
    [] period = "M" -> dateToMonth(d)
    [] period = "Q" -> dateToSeason(d)
    [] period = "S" -> dateToHalfYear(d)
    [] period = "Y" -> dateToYear(d)

\* Mutant: the day before the first of the month.
lastDateEarly(d, period) == prevDate(Year(d) * 10000 + Month(d) * 100 + 1, 1)

\* lastDate.  Here the week ends on Saturday, and the first half of a year
\* on the 31st of June.
lastDate(d, period) ==
  CASE period = "D" -> d
    [] period = "W" -> nextDate(d, 6 - Weekday(str2time(d)))
    [] period = "M" ->
         prevDate(IF Month(d) = 12 THEN (Year(d) + 1) * 10000 + 101
                  ELSE Year(d) * 10000 + (Month(d) + 1) * 100 + 1, 1)
    [] period = "Q" ->
         Year(d) * 10000 + <<331, 630, 930, 1231>>[(Month(d) - 1) \div 3 + 1]
    [] period = "S" ->
         Year(d) * 10000 + (IF d > Year(d) * 10000 + 631 THEN 1231 ELSE 631)
    [] period = "Y" -> Year(d) * 10000 + 1231
-----------------------------------------------------------------------------
Leap(y) == y % 4 = 0 /\ ((y % 100) # 0 \/ y % 400 = 0)
DaysIn(y, m) ==
  CASE m = 2 -> IF Leap(y) THEN 29 ELSE 28
    [] m \in {4, 6, 9, 11} -> 30
    [] OTHER -> 31

\* A number that is a date.
IsDate(d) ==
  /\ d \in Int /\ Month(d) \in 1 .. 12
  /\ MDay(d) \in 1 .. DaysIn(Year(d), Month(d))

\* The date after d, by the length of its month.
Successor(d) ==
  IF MDay(d) < DaysIn(Year(d), Month(d)) THEN d + 1
  ELSE IF Month(d) < 12 THEN (d \div 100 + 1) * 100 + 1
  ELSE (Year(d) + 1) * 10000 + 101

\* The period a date is in, with its year; a week begins on Sunday.
TruePeriod(d, period) ==
  IF period = "W" THEN (str2time(d) + 4) \div 7
  ELSE IF period = "Y" THEN Year(d)
  ELSE Year(d) * 100 + dateTo(d, period)
=============================================================================
