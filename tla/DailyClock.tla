----------------------------- MODULE DailyClock -----------------------------
(***************************************************************************)
(* TC_Common::getNextAbsClockMs and a caller of it: it asks for the next   *)
(* moment a clock time is reached, sleeps until then, and asks again.      *)
(* The moment is computed from whole seconds of the day, and today's is    *)
(* given out for two seconds after it has passed.                          *)
(***************************************************************************)
EXTENDS Integers

CONSTANTS
  SecMs,          (* milliseconds of a second (1000 in the code)           *)
  DaySec,         (* seconds of a day (86400)                              *)
  ClockTimes,     (* the clock times a caller asks for, in seconds         *)
  MaxNow,         (* bound on the clock                                    *)
  Late            (* bound on how late the caller wakes up                 *)

ASSUME DailyAssumption ==
  /\ SecMs \in Nat \ {0} /\ DaySec \in Nat \ {0}
  /\ ClockTimes \subseteq 0 .. DaySec - 1
  /\ MaxNow \in Nat /\ Late \in Nat

VARIABLES
  dayNow,         (* now2ms                                                *)
  clockSec,       (* the clock time of the caller                          *)
  notifyMs,       (* the answer it sleeps for, or -1                       *)
  notified,       (* the answers it has woken up at                        *)
  since           (* when it first asked                                   *)

dailyVars == <<dayNow, clockSec, notifyMs, notified, since>>

ONE_DAY_MS == DaySec * SecMs

msToNowSeconds(ms) == (ms \div SecMs) % DaySec
dateToMs(ms) == (ms \div ONE_DAY_MS) * ONE_DAY_MS

\* Mutant: the second of grace is taken off.
getNextAbsClockMsEarly(now, sec) ==
  dateToMs(now) + sec * SecMs
    + (IF msToNowSeconds(now) + 1 > sec THEN ONE_DAY_MS ELSE 0)

getNextAbsClockMs(now, sec) ==
  dateToMs(now) + sec * SecMs
    + (IF msToNowSeconds(now) > sec + 1 THEN ONE_DAY_MS ELSE 0)

DailyInit ==
  /\ dayNow \in 0 .. ONE_DAY_MS - 1
  /\ clockSec \in ClockTimes
  /\ notifyMs = -1 /\ notified = {} /\ since = dayNow

AskNext ==
  /\ notifyMs = -1
  /\ notifyMs' = getNextAbsClockMs(dayNow, clockSec)
  /\ UNCHANGED <<dayNow, clockSec, notified, since>>

\* The caller wakes up, and notifies.
Notify ==
  /\ notifyMs >= 0 /\ dayNow >= notifyMs
  /\ notified' = notified \cup {notifyMs}
  /\ notifyMs' = -1
  /\ UNCHANGED <<dayNow, clockSec, since>>

\* Time passes, but a caller is not kept from waking up and asking again for
\* longer than Late.
Pass ==
  /\ dayNow < MaxNow
  /\ \E ms \in notified \cup {notifyMs} : ms >= 0 /\ dayNow < ms + Late
  /\ dayNow' = dayNow + 1
  /\ UNCHANGED <<clockSec, notifyMs, notified, since>>

DailyNext == AskNext \/ Notify \/ Pass

DailySpec == DailyInit /\ [][DailyNext]_dailyVars
-----------------------------------------------------------------------------
\* The moments of the clock time.
Due == {d * ONE_DAY_MS + clockSec * SecMs : d \in 0 .. MaxNow \div ONE_DAY_MS}

\* common.h:825: the answer is the next moment of the clock time.  A caller
\* that asks again when it wakes up, however late within a day, misses no
\* day: every moment from its first question up to the one it sleeps for
\* was notified.  (It may be given the moment just notified once more, for
\* two seconds, and notify twice.)
NoDayMissed ==
  \A m \in Due : since <= m /\ m < notifyMs => m \in notified
=============================================================================
