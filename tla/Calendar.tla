------------------------------ MODULE Calendar ------------------------------
(***************************************************************************)
(* A date that walks by the operations of Dates; their properties hold on  *)
(* its way.                                                                *)
(***************************************************************************)
EXTENDS Dates

CONSTANTS
  FirstDate, FinalDate,       (* bounds of the walk                        *)
  Offsets                     (* the offsets nextDate is called with       *)

VARIABLE date

\* nextMonth and prevMonth keep years of 1970 and later, of four digits.
ASSUME CalendarAssumption ==
  /\ IsDate(FirstDate) /\ Year(FirstDate) >= 1970
  /\ FinalDate \in Int /\ FirstDate <= FinalDate /\ FinalDate < 99991201
  /\ Offsets \subseteq Int

CalendarInit == date = FirstDate

Walk(offset) ==
  /\ date' = nextDate(date, offset)
  /\ FirstDate <= date' /\ date' <= FinalDate

CalendarNext == \E offset \in Offsets : Walk(offset)

CalendarSpec == CalendarInit /\ [][CalendarNext]_date
-----------------------------------------------------------------------------
\* nextDate by one is the next date of the calendar, prevDate goes back, and
\* nextMonth is the month of the day after the last: common.h:749-764.  The
\* two ways to count, by days and by digits, agree over every end of a
\* month, of a year and of a February.
DaysFollow ==
  /\ nextDate(date, 1) = Successor(date)
  /\ prevDate(nextDate(date, 1), 1) = date
  /\ LET after == Successor(lastDate(date, "M"))
     IN  /\ nextMonth(date \div 100) = after \div 100
         /\ prevMonth(after \div 100) = date \div 100

\* common.h:830: lastDate is the last date of the period its argument is in:
\* that day is in the period and the day after it is not.  (Not for the
\* first half year, whose last date here is the 31st of June.)  common.h:772:
\* the Monday of a day is the Monday of that week, with weeks that begin on
\* Sunday as lastDate's do: of a Sunday, the day after it.
PeriodsEnd ==
  /\ \A p \in {"W", "M", "Q", "S", "Y"} :
       LET last == lastDate(date, p)
       IN  \/ p = "S" /\ Month(date) <= 6
           \/ /\ date <= last
              /\ TruePeriod(last, p) = TruePeriod(date, p)
              /\ TruePeriod(Successor(last), p) # TruePeriod(date, p)
  /\ LET monday == secondsToMonday(str2time(date))
     IN  /\ Weekday(str2time(monday)) = 1
         /\ TruePeriod(monday, "W") = TruePeriod(date, "W")
=============================================================================
