----------------------------- MODULE CoTimeout ------------------------------
(***************************************************************************)
(* The timers of one thread (src/src/coroutine/co_routine.cpp): the time   *)
(* wheel stTimeout_t and the part of co_eventloop that empties it, once a  *)
(* round, and handles what it took.  Waits arm timers and cancel them      *)
(* between any two steps of the loop; the clock is gettimeofday, which may *)
(* jump in both directions.                                                *)
(*                                                                         *)
(* The order of the timers in a slot and in the active list is left to     *)
(* CoEventLoop.                                                            *)
(***************************************************************************)
EXTENDS TimeWheel

CONSTANTS
  Timer,       (* the stTimeoutItem_t objects                            *)
  Clock,       (* the readings of GetTickMS                              *)
  Timeouts,    (* the timeouts, in ms, that waits are called with        *)
  None         (* no slot, no expiry time                                *)

\* AllocTimeout and every use come long after the epoch, so no reading is 0;
\* co_poll_inner and co_cond_timedwait arm timers for timeouts above 0 only.
ASSUME ClockAssumption ==
  /\ Clock \subseteq Nat \ {0}
  /\ Timeouts \subseteq Nat \ {0}
  /\ None \notin Nat

VARIABLES
  now,         (* the clock                                              *)
  ullStart,    (* the time of slot llStartIdx                            *)
  llStartIdx,
  slot,        (* per timer: the slot of pItems it is linked in, or None *)
  expire,      (* per timer: ullExpireTime, None while it is in no link  *)
  taken,       (* the timers of the active list with bTimeout set        *)
  loopNow,     (* the clock as the round of co_eventloop read it         *)
  fired        (* the timers whose pfnProcess the loop called on timeout *)

timeoutVars == <<now, ullStart, llStartIdx, slot, expire, taken, loopNow,
                 fired>>

InWheel(t) == slot[t] # None
Linked(t) == InWheel(t) \/ t \in taken

----------------------------------------------------------------------------
Init ==
  /\ now \in Clock
  /\ ullStart = now
  /\ llStartIdx = 0
  /\ slot = [t \in Timer |-> None]
  /\ expire = [t \in Timer |-> None]
  /\ taken = {}
  /\ loopNow = 0
  /\ fired = {}

\* Time passes, or somebody sets the clock.
Tick ==
  /\ now' \in Clock
  /\ UNCHANGED <<ullStart, llStartIdx, slot, expire, taken, loopNow, fired>>

SetStart(allNow) ==
  /\ ullStart' = StartAt(ullStart, allNow)
  /\ llStartIdx' = IdxAt(ullStart, llStartIdx)

\* AddTimeout: the error returns, and the link into a slot.
AddRefused(t, expiry, allNow) ==
  /\ AddFails(StartAt(ullStart, allNow), expiry, allNow)
  /\ SetStart(allNow)

AddTimeout(t, expiry, allNow) ==
  /\ ~AddFails(StartAt(ullStart, allNow), expiry, allNow)
  /\ SetStart(allNow)
  /\ slot' = [slot EXCEPT ![t] = AddSlot(ullStart', llStartIdx', expiry)]

\* A wait of ms milliseconds arms its timer; when AddTimeout fails the wait
\* returns an error and its timer is gone.
Wait(t, ms) ==
  /\ ~Linked(t)
  /\ \/ /\ AddTimeout(t, now + ms, now)
        /\ expire' = [expire EXCEPT ![t] = now + ms]
        /\ fired' = fired \ {t}
     \/ /\ AddRefused(t, now + ms, now)
        /\ UNCHANGED <<slot, expire, fired>>
  /\ UNCHANGED <<now, taken, loopNow>>

\* The wait ends before the loop handles its timer: RemoveFromLink.
RemoveFromLink(t) ==
  /\ Linked(t)
  /\ slot' = [slot EXCEPT ![t] = None]
  /\ expire' = [expire EXCEPT ![t] = None]
  /\ taken' = taken \ {t}
  /\ UNCHANGED <<now, ullStart, llStartIdx, loopNow, fired>>

\* Mutant: the loop over the slots stops one short.
InSlotsShort(idx, cnt) ==
  { t \in Timer : InWheel(t) /\ \E i \in 0..cnt - 2 :
                                   slot[t] = SlotAhead(idx, i) }

\* The timers TakeAllTimeout moves to the list.
InSlots(idx, cnt) ==
  { t \in Timer : InWheel(t) /\ \E i \in 0..cnt - 1 :
                                   slot[t] = SlotAhead(idx, i) }

\* A round starts when the active list is empty: read the clock, and
\* TakeAllTimeout with its early returns.
TakeAllTimeout ==
  /\ taken = {}
  /\ loopNow' = now
  /\ LET start == StartAt(ullStart, now)
         idx == IdxAt(ullStart, llStartIdx)
         cnt == TakeCount(start, now)
     IN  IF TakeFails(start, now)
         THEN /\ SetStart(now)
              /\ UNCHANGED <<slot, taken>>
         ELSE /\ taken' = InSlots(idx, cnt)
              /\ slot' = [t \in Timer |->
                            IF t \in taken' THEN None ELSE slot[t]]
              /\ ullStart' = now
              /\ llStartIdx' = idx + cnt - 1
  /\ UNCHANGED <<now, expire, fired>>

\* A timer beyond the span of the wheel was taken before its time: it goes
\* back into the wheel.
PutBack(t) ==
  /\ t \in taken /\ loopNow < expire[t]
  /\ AddTimeout(t, expire[t], loopNow)
  /\ taken' = taken \ {t}
  /\ UNCHANGED <<now, expire, loopNow, fired>>

\* Mutant: what was taken fires, without a look at its expiry time.
FireAnyway(t) ==
  /\ t \in taken
  /\ taken' = taken \ {t}
  /\ expire' = [expire EXCEPT ![t] = None]
  /\ fired' = fired \cup {t}
  /\ UNCHANGED <<now, ullStart, llStartIdx, slot, loopNow>>

\* pfnProcess resumes the coroutine that waits: the timer is due, or
\* AddTimeout refused to take it back.
Fire(t) ==
  LET early == loopNow < expire[t]
  IN  /\ t \in taken
      /\ early => AddFails(StartAt(ullStart, loopNow), expire[t], loopNow)
      /\ IF early THEN SetStart(loopNow) ELSE UNCHANGED <<ullStart, llStartIdx>>
      /\ taken' = taken \ {t}
      /\ expire' = [expire EXCEPT ![t] = None]
      /\ fired' = fired \cup {t}
      /\ UNCHANGED <<now, slot, loopNow>>

Next ==
  \/ Tick
  \/ TakeAllTimeout
  \/ \E t \in Timer :
       \/ \E ms \in Timeouts : Wait(t, ms)
       \/ RemoveFromLink(t) \/ PutBack(t) \/ Fire(t)

Spec == Init /\ [][Next]_timeoutVars

----------------------------------------------------------------------------
\* The type of the wheel's and the loop's variables; a linked timer, and no
\* other, has an expiry time.
TypeOK ==
  /\ now \in Clock
  /\ ullStart \in Clock
  /\ llStartIdx \in Nat
  /\ slot \in [Timer -> (0..iItemSize - 1) \cup {None}]
  /\ expire \in [Timer -> Nat \cup {None}]
  /\ taken \subseteq Timer
  /\ loopNow \in Clock \cup {0}
  /\ fired \subseteq Timer
  /\ \A t \in Timer : Linked(t) <=> expire[t] # None

\* No slot is emptied too late for a timer in it: the slot lies k slots ahead
\* of llStartIdx, and its time is not after the timer's expiry.
SlotInv ==
  \A t \in Timer : InWheel(t) =>
    /\ t \notin taken
    /\ ullStart < expire[t]
    /\ \E k \in 0..iItemSize - 1 :
         slot[t] = SlotAhead(llStartIdx, k) /\ ullStart + k <= expire[t]

\* The wheel is never behind the clock of the round, and the list is handled
\* before the next round moves the wheel on.
RoundInv ==
  /\ loopNow <= ullStart
  /\ taken # {} => loopNow = ullStart

\* Between two rounds the clock does not move by more than an int holds.
ShortGaps == \A x, y \in Clock : x - y + 1 < IntSpan \div 2

\* The inductive invariant, under ShortGaps.
IInv == TypeOK /\ SlotInv /\ RoundInv

\* Timers that a round took before they are due can be put back: AddTimeout
\* has no reason to refuse them, so no wait ends early.
NeverEarly ==
  \A t \in taken : loopNow < expire[t] =>
    ~AddFails(StartAt(ullStart, loopNow), expire[t], loopNow)

\* The comment on TakeAllTimeout: it takes out all timers that expire, with
\* allNow as the deadline.  A round leaves no timer in the wheel that is due
\* by the clock of the round.
NoOverdue == \A t \in Timer : InWheel(t) => expire[t] > loopNow

Timers == INSTANCE TimerSet WITH deadline <- expire, seen <- loopNow,
                                 NoTime <- None

\* The wheel, with timers that are put back, keeps what TimerSet promises,
\* whatever the timeouts are and however the clock jumps within ShortGaps.
ImplementsTimerSet == Timers!Spec
=============================================================================
