----------------------------- MODULE PeriodDays -----------------------------
(***************************************************************************)
(* TC_Common::getMatchPeriodDays: a list of dates is cut where the period  *)
(* (W, M, Q, S, Y) changes, and the date at a position, from the front or  *)
(* from the back, is taken out of every slice that has it.  Two dates are  *)
(* in one period when dateTo gives one number for them: the year is not    *)
(* looked at, and a week of the turn of a year has two numbers.            *)
(*                                                                         *)
(* The list is fed date by date, and the result asked for at any moment.   *)
(***************************************************************************)
EXTENDS Dates, Sequences, FiniteSets

CONSTANTS
  Days,           (* the dates, and numbers below, a list is made of       *)
  MaxDays         (* bound on the length of a list                         *)

VARIABLES
  period,         (* period.first                                          *)
  days,           (* the dates of the list so far, in order                *)
  slice,          (* the slices                                            *)
  lastSliceDay    (* lastDate: the day the last slice began with, or 0     *)

periodVars == <<period, days, slice, lastSliceDay>>

\* Mutant: a half year is a quarter.
matchPeriodQuarter(d1, d2, p) ==
  /\ d1 # 0 /\ d2 # 0
  /\ dateTo(d1, IF p = "S" THEN "Q" ELSE p)
       = dateTo(d2, IF p = "S" THEN "Q" ELSE p)

\* matchPeriod of two dates.
matchPeriod(d1, d2, p) == d1 # 0 /\ d2 # 0 /\ dateTo(d1, p) = dateTo(d2, p)

periodList == [W |-> 5, M |-> 25, Q |-> 75, S |-> 150, Y |-> 256]
AbsOf(k) == IF k < 0 THEN -k ELSE k

\* What getMatchPeriodDays gives for the position k: -1 for a period or a
\* position out of the table.
matchDays(k) ==
  IF period \notin DOMAIN periodList THEN <<-1>>
  ELSE IF k = 0 \/ AbsOf(k) > periodList[period] THEN <<-1>>
  ELSE LET has == SelectSeq(slice, LAMBDA v : AbsOf(k) <= Len(v))
       IN  [i \in DOMAIN has |->
              IF k > 0 THEN has[i][k] ELSE has[i][Len(has[i]) + k + 1]]

PeriodInit ==
  /\ period \in {"W", "M", "Q", "S", "Y"}
  /\ days = <<>> /\ slice = <<>> /\ lastSliceDay = 0

\* The loop passes over what is no date.
Skip(d) == d <= 0 /\ UNCHANGED periodVars

\* The loop takes the next date.
Take(d) ==
  /\ d > 0 /\ Len(days) < MaxDays
  /\ \A i \in DOMAIN days : days[i] < d
  /\ days' = Append(days, d)
  /\ IF matchPeriod(d, lastSliceDay, period)
     THEN /\ slice' = [slice EXCEPT ![Len(slice)] = Append(@, d)]
          /\ UNCHANGED lastSliceDay
     ELSE /\ slice' = Append(slice, <<d>>)
          /\ lastSliceDay' = d
  /\ UNCHANGED period

Feed(d) == Skip(d) \/ Take(d)

PeriodNext == \E d \in Days : Feed(d)

PeriodSpec == PeriodInit /\ [][PeriodNext]_periodVars
-----------------------------------------------------------------------------
\* The week of a date, from Monday.
MondayWeek(d) == (str2time(d) + 3) \div 7
InPeriod(d) == IF period = "W" THEN MondayWeek(d) ELSE TruePeriod(d, period)

\* The place of the i-th date among those of its period.
Rank(i) == Cardinality({j \in 1 .. i : InPeriod(days[j]) = InPeriod(days[i])})
RankFromEnd(i) ==
  Cardinality({j \in i .. Len(days) : InPeriod(days[j]) = InPeriod(days[i])})

\* No two neighbours are half a year apart (the year, which would tell them
\* apart, is not looked at), and weeks are asked for within one year.
Dense ==
  /\ \A i \in 1 .. Len(days) - 1 :
       str2time(days[i + 1]) - str2time(days[i]) < 182
  /\ period = "W" => \A i, j \in DOMAIN days : Year(days[i]) = Year(days[j])

Kth(k) ==
  LET at == SelectSeq([i \in DOMAIN days |-> i],
                      LAMBDA i : IF k > 0 THEN Rank(i) = k
                                 ELSE RankFromEnd(i) = -k)
  IN  [i \in DOMAIN at |-> days[at[i]]]

\* common.h:832-833: of each week, month, quarter, half year and year the
\* list has, the k-th date, or the k-th from the end, and of no other; a
\* period with fewer dates gives none.  The cuts are made by comparing each
\* date with the first of its slice alone.
KthOfEachPeriod ==
  Dense => \A k \in {-2, -1, 1, 2} : matchDays(k) = Kth(k)
=============================================================================
