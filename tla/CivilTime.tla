----------------------------- MODULE CivilTime ------------------------------
(***************************************************************************)
(* The calendar of the C library as src/src/utility uses it: timegm,       *)
(* gmtime_r, mktime and localtime_r in a zone without daylight saving.     *)
(* A struct tm is a record with the fields of the struct (tm_year counts   *)
(* from 0 here, tm_mon from 0 as there); a day is counted from 1970-01-01, *)
(* a time_t is a pair of a day and a second of it.                         *)
(***************************************************************************)
EXTENDS Integers

\* The day of mday in the month m (1..12) of year y; mday may be any number.
DayOf(y, m, mday) ==
  LET yr  == IF m <= 2 THEN y - 1 ELSE y
      yoe == yr % 400
      doy == (153 * ((m + 9) % 12) + 2) \div 5 + mday - 1
  IN  (yr \div 400) * 146097 + yoe * 365 + yoe \div 4 - yoe \div 100 + doy
        - 719468

Weekday(day) == (day + 4) % 7

\* gmtime_r's date of a day.
CivilOf(day) ==
  LET z   == day + 719468
      doe == z % 146097
      yoe == (doe - doe \div 1460 + doe \div 36524 - doe \div 146096) \div 365
      doy == doe - (365 * yoe + yoe \div 4 - yoe \div 100)
      mp  == (5 * doy + 2) \div 153
      m   == IF mp < 10 THEN mp + 3 ELSE mp - 9
  IN  [year |-> yoe + (z \div 146097) * 400 + (IF m <= 2 THEN 1 ELSE 0),
       month |-> m,
       mday |-> doy - (153 * mp + 2) \div 5 + 1]

\* mktime's normalisation of a struct tm, whose fields may be out of range.
Normal(t) ==
  LET mn   == t.tm_min + t.tm_sec \div 60
      hr   == t.tm_hour + mn \div 60
      day  == DayOf(t.tm_year + t.tm_mon \div 12, (t.tm_mon % 12) + 1,
                    t.tm_mday + hr \div 24)
      date == CivilOf(day)
  IN  [tm_sec |-> t.tm_sec % 60, tm_min |-> mn % 60, tm_hour |-> hr % 24,
       tm_mday |-> date.mday, tm_mon |-> date.month - 1,
       tm_year |-> date.year, tm_wday |-> Weekday(day)]

\* The time_t of a normal struct tm.
DayOfTm(t) == DayOf(t.tm_year, t.tm_mon + 1, t.tm_mday)
SecondOfTm(t) == t.tm_hour * 3600 + t.tm_min * 60 + t.tm_sec

\* The order of times.
Before(s, t) ==
  \/ DayOfTm(s) < DayOfTm(t)
  \/ DayOfTm(s) = DayOfTm(t) /\ SecondOfTm(s) < SecondOfTm(t)
=============================================================================
