-------------------------------- MODULE Cron --------------------------------
(***************************************************************************)
(* TC_Cron (src/src/utility/cron.cpp, src/header/utility/cron.h): a cron   *)
(* expression becomes a bit set per field, and nextcron moves a struct tm  *)
(* forward, field by field, until every field is in its set.  findNext     *)
(* calls itself when a field had to move, so the state has its stack of    *)
(* calls; a frame keeps the fields it found in place, and only those are   *)
(* reset when a later field moves.                                         *)
(*                                                                         *)
(* The text of an expression is a record of the items of its six fields;   *)
(* an item is *, N, or N-M, with a step or with 0 for none.                *)
(***************************************************************************)
EXTENDS CivilTime, Sequences, FiniteSets

CONSTANTS
  Expressions,    (* the expressions makecron is called with               *)
  StartTimes      (* the times nextcron is asked about, as struct tm       *)

VARIABLES
  cron,           (* the TC_Cron; isset once makecron made it              *)
  cronFrom,       (* the time nextcron was called with                     *)
  tmt,            (* the struct tm that findNext moves                     *)
  frames,         (* the calls of findNext, innermost first                *)
  dot,            (* the year findNext counts CRON_MAX_YEARS_DIFF from     *)
  cronRes         (* "idle", "busy", "found", "invalid" or "exception"     *)

cronVars == <<cron, cronFrom, tmt, frames, dot, cronRes>>

\* An item of a field as makeRange splits it, and an expression of six fields.
CronItem ==
  [kind : {"star", "one", "range"}, lo : Nat, hi : Nat, step : Nat]
CronExpression ==
  [seconds : Seq(CronItem), minutes : Seq(CronItem), hours : Seq(CronItem),
   days_of_month : Seq(CronItem), months : Seq(CronItem),
   days_of_week : Seq(CronItem)]

\* A struct tm as localtime_r makes it.
StructTm(t) ==
  /\ t \in [tm_sec : 0 .. 59, tm_min : 0 .. 59, tm_hour : 0 .. 23,
            tm_mday : 1 .. 31, tm_mon : 0 .. 11, tm_year : Int,
            tm_wday : 0 .. 6]
  /\ Normal(t) = t

ASSUME CronAssumption ==
  /\ Expressions \subseteq CronExpression
  /\ \A t \in StartTimes : StructTm(t)

CRON_MAX_YEARS_DIFF == 4

MinOf(S) == CHOOSE x \in S : \A y \in S : x <= y
-----------------------------------------------------------------------------
\* makecron

\* makeRange; numbers are of eight bits.
RangeOf(item, min, max) ==
  CASE item.kind = "star" -> <<min, max>>
    [] item.kind = "one" -> <<item.lo % 256, item.lo % 256>>
    [] item.kind = "range" -> <<item.lo % 256, item.hi % 256>>

ValidItem(item, min, max) ==
  LET r == RangeOf(item, min, max)
  IN  /\ min <= r[1] /\ r[1] <= r[2] /\ r[2] <= max
      /\ item.step > 0 => item.step % 256 # 0

\* The values of an item: from the start of its range to the end of it, or
\* of the field if it is a number with a step.
ItemBits(item, min, max) ==
  LET r    == RangeOf(item, min, max)
      last == IF item.step > 0 /\ item.kind # "range" THEN max ELSE r[2]
      by   == IF item.step > 0 THEN item.step % 256 ELSE 1
      At(n) == (r[1] - min + n * by) % 256
  IN  {At(n) + min : n \in {k \in 0 .. 255 :
                              \A i \in 0 .. k : At(i) <= last - min}}

\* setCronField
FieldBits(items, min, max) ==
  UNION {ItemBits(items[i], min, max) : i \in DOMAIN items}

ValidField(items, min, max) ==
  items # <<>> /\ \A i \in DOMAIN items : ValidItem(items[i], min, max)

Makes(e) ==
  /\ ValidField(e.seconds, 0, 59) /\ ValidField(e.minutes, 0, 59)
  /\ ValidField(e.hours, 0, 23) /\ ValidField(e.days_of_month, 1, 31)
  /\ ValidField(e.months, 1, 12) /\ ValidField(e.days_of_week, 0, 6)

makecron(e) ==
  [seconds       |-> FieldBits(e.seconds, 0, 59),
   minutes       |-> FieldBits(e.minutes, 0, 59),
   hours         |-> FieldBits(e.hours, 0, 23),
   days_of_week  |-> FieldBits(e.days_of_week, 0, 6),
   days_of_month |-> FieldBits(e.days_of_month, 1, 31),
   months        |-> {m - 1 : m \in FieldBits(e.months, 1, 12)},
   isset         |-> TRUE]

NoCron ==
  [seconds |-> {}, minutes |-> {}, hours |-> {}, days_of_week |-> {},
   days_of_month |-> {}, months |-> {}, isset |-> FALSE]
-----------------------------------------------------------------------------
\* findNext

addToField(t, field, val) == Normal([t EXCEPT ![field] = @ + val])
setField(t, field, val) == Normal([t EXCEPT ![field] = val])

\* Mutant: a field that moves leaves those below it as they are.
resetNoFields(t, marked) == t

\* resetField for every field of marked.
resetAllFields(t, marked) ==
  Normal([f \in DOMAIN t |-> IF f \notin marked THEN t[f]
                             ELSE IF f = "tm_mday" THEN 1 ELSE 0])

\* The template findNext: the struct tm after it moved field to the next
\* value of target, and next_field by one when there is none left.
Moved(target, t, field, next_field, marked) ==
  LET left == {v \in target : v >= t[field]}
      up   == IF left # {} THEN t
              ELSE resetAllFields(addToField(t, next_field, 1), {field})
      next == MinOf(IF left # {} THEN left ELSE target)
  IN  IF next = t[field] THEN t
      ELSE resetAllFields(setField(up, field, next), marked)

\* findNextDay looks at most at 366 days.
DayMatches(c, day) ==
  /\ CivilOf(day).mday \in c.days_of_month
  /\ Weekday(day) \in c.days_of_week

findNextDay(c, t, marked) ==
  LET n == MinOf({k \in 0 .. 366 : k = 366 \/ DayMatches(c, DayOfTm(t) + k)})
  IN  IF n = 0 THEN t
      ELSE resetAllFields(addToField(t, "tm_mday", n), marked)

Frame == [at |-> "second", marked |-> {}]
Field == [second |-> "tm_sec", minute |-> "tm_min", hour |-> "tm_hour",
          day |-> "tm_mday", month |-> "tm_mon"]
After == [second |-> "minute", minute |-> "hour", hour |-> "day",
          day |-> "month", month |-> "return"]
At(pc) == cronRes = "busy" /\ frames # <<>> /\ Head(frames).at = pc

\* The innermost call goes on with the next field, if this one moved after a
\* call of findNext when calls says so; same is the code's test of the value
\* the field had against the one it was to get.
Step(pc, t, same, calls) ==
  LET f == [at |-> After[pc],
            marked |-> Head(frames).marked \cup
                         (IF same THEN {Field[pc]} ELSE {})]
  IN  /\ tmt' = t
      /\ frames' = (IF same \/ ~calls THEN <<>> ELSE <<Frame>>)
                     \o <<f>> \o Tail(frames)
      /\ UNCHANGED <<cron, cronFrom, dot, cronRes>>

Marked == Head(frames).marked

Search(pc, target, next_field, marked, calls) ==
  Step(pc, Moved(target, tmt, Field[pc], next_field, marked),
       tmt[Field[pc]] \in target, calls)

FindSecond ==
  At("second") /\ Search("second", cron.seconds, "tm_min", {}, FALSE)

FindMinute ==
  At("minute") /\ Search("minute", cron.minutes, "tm_hour", Marked, TRUE)

FindHour ==
  At("hour") /\ Search("hour", cron.hours, "tm_mday", Marked, TRUE)

\* The same day of another month is no move to the code.
FindDay ==
  /\ At("day")
  /\ LET t == findNextDay(cron, tmt, Marked)
     IN  Step("day", t, t.tm_mday = tmt.tm_mday, TRUE)

\* Mutant: the month is not looked at again after it moved.
FindMonthOnce ==
  At("month") /\ Search("month", cron.months, "tm_year", Marked, FALSE)

\* A month in which the search has gone on for too many years ends it.
FindMonth ==
  /\ At("month")
  /\ LET t == Moved(cron.months, tmt, "tm_mon", "tm_year", Marked)
     IN  IF tmt.tm_mon \notin cron.months
            /\ t.tm_year - dot > CRON_MAX_YEARS_DIFF
         THEN /\ tmt' = t /\ frames' = <<>> /\ cronRes' = "invalid"
              /\ UNCHANGED <<cron, cronFrom, dot>>
         ELSE Search("month", cron.months, "tm_year", Marked, TRUE)

Return ==
  /\ At("return")
  /\ frames' = Tail(frames)
  /\ UNCHANGED <<cron, cronFrom, tmt, dot, cronRes>>

\* nextcron begins.
NextCron(t) ==
  /\ cronRes = "idle" /\ cron.isset
  /\ cronFrom' = t /\ tmt' = t /\ dot' = t.tm_year
  /\ frames' = <<Frame>> /\ cronRes' = "busy"
  /\ UNCHANGED cron

\* The first call of findNext returned: if the time was in the sets from the
\* start, the search goes on from the next second.
FirstFound ==
  /\ cronRes = "busy" /\ frames = <<>>
  /\ IF tmt = cronFrom
     THEN LET t == addToField(tmt, "tm_sec", 1)
          IN  tmt' = t /\ dot' = t.tm_year /\ frames' = <<Frame>>
              /\ UNCHANGED cronRes
     ELSE cronRes' = "found" /\ UNCHANGED <<tmt, dot, frames>>
  /\ UNCHANGED <<cron, cronFrom>>

MakeCron(e) ==
  /\ cronRes = "idle" /\ ~cron.isset
  /\ IF Makes(e) THEN cron' = makecron(e) /\ UNCHANGED cronRes
     ELSE cronRes' = "exception" /\ UNCHANGED cron
  /\ UNCHANGED <<cronFrom, tmt, frames, dot>>

Epoch == [tm_sec |-> 0, tm_min |-> 0, tm_hour |-> 0, tm_mday |-> 1,
          tm_mon |-> 0, tm_year |-> 1970, tm_wday |-> 4]

CronInit ==
  /\ cron = NoCron /\ cronFrom = Epoch /\ tmt = Epoch
  /\ frames = <<>> /\ dot = 1970 /\ cronRes = "idle"

CronNext ==
  \/ \E e \in Expressions : MakeCron(e)
  \/ \E t \in StartTimes : NextCron(t)
  \/ FindSecond \/ FindMinute \/ FindHour \/ FindDay \/ FindMonth
  \/ Return \/ FirstFound

CronSpec == CronInit /\ [][CronNext]_cronVars
-----------------------------------------------------------------------------
Matches(c, t) ==
  /\ t.tm_sec \in c.seconds /\ t.tm_min \in c.minutes
  /\ t.tm_hour \in c.hours /\ t.tm_mon \in c.months
  /\ DayMatches(c, DayOfTm(t))

\* The seconds of a day at which c fires.
FiringSeconds(c) ==
  {h * 3600 + m * 60 + s : h \in c.hours, m \in c.minutes, s \in c.seconds}

FiringDay(c, day) ==
  /\ DayMatches(c, day)
  /\ CivilOf(day).month - 1 \in c.months

\* No time c fires at lies between s and t.
NoneBetween(c, s, t) ==
  \A day \in DayOfTm(s) .. DayOfTm(t) :
    FiringDay(c, day) =>
      \A x \in FiringSeconds(c) :
        ~ /\ day > DayOfTm(s) \/ x > SecondOfTm(s)
          /\ day < DayOfTm(t) \/ x < SecondOfTm(t)

\* One of the two fields that choose a day is a *, so that every year has a
\* day in both of them.  Without it findNextDay may give up after 366 days, and
\* nextcron returns a time that does not match: 0 0 0 13 * FRI from 2027-08-14.
FreeDay(c) == c.days_of_week = 0 .. 6 \/ c.days_of_month = 1 .. 31

\* There is one second to fire at, so that none is left over from before a field
\* above it moved, and no month is passed over because it has not the day at
\* hand.  A 0 among several seconds is not enough: */20 */30 12 * * * from
\* 12:05:05 finds 12:30:20, as the second moved first and is not reset.
Aligned(c) ==
  /\ Cardinality(c.seconds) = 1
  /\ c.months = 0 .. 11 \/ c.days_of_month \subseteq 1 .. 28

\* cron.h:86: the time returned is after the time given and matches the
\* expression, if one of its two fields for the day is a *: whatever order the
\* fields moved in, the last moves left none of them out of its set, also
\* across the ends of months and years.
FoundMatches ==
  cronRes = "found" /\ FreeDay(cron) =>
    Before(cronFrom, tmt) /\ Matches(cron, tmt)

\* cron.h:86: it is the first such time.
FirstTrigger ==
  cronRes = "found" => NoneBetween(cron, cronFrom, tmt)

\* The same for expressions with a * for one of the two fields of the day, one
\* second, and all months or no day after the 28th: there the resets of the lower
\* fields cannot fall short.
FirstWhenAligned ==
  FreeDay(cron) /\ Aligned(cron) => FirstTrigger
=============================================================================
