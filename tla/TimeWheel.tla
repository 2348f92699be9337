----------------------------- MODULE TimeWheel ------------------------------
(***************************************************************************)
(* The arithmetic of stTimeout_t (src/src/coroutine/co_routine.cpp): a     *)
(* ring of iItemSize slots, one per millisecond, whose slot llStartIdx     *)
(* stands for the time ullStart.  AddTimeout puts a timer into the slot of *)
(* its expiry time, TakeAllTimeout empties the slots up to a time.  The    *)
(* modules that extend this one keep the slots' contents.                  *)
(***************************************************************************)
EXTENDS Integers

CONSTANTS
  iItemSize,  (* slots of the wheel: 60000 in the code                   *)
  IntSpan     (* values of an int: 2^32 in the code                      *)

ASSUME WheelAssumption ==
  /\ iItemSize \in Nat \ {0}
  /\ IntSpan \in Nat \ {0} /\ IntSpan % 2 = 0
  /\ iItemSize < IntSpan \div 2

\* What an int holds after the assignment of a longer integer.
ToInt(x) ==
  LET low == x % IntSpan
  IN  IF low < IntSpan \div 2 THEN low ELSE low - IntSpan

\* ullStart and llStartIdx are set by the first call that finds ullStart 0.
StartAt(ullStart, allNow) == IF ullStart = 0 THEN allNow ELSE ullStart
IdxAt(ullStart, llStartIdx) == IF ullStart = 0 THEN 0 ELSE llStartIdx

\* Mutant: a clock that stands where the wheel does counts as behind it.
AddFailsAtStart(start, expire, allNow) == allNow <= start \/ expire < allNow

\* AddTimeout returns an error and links nothing.
AddFails(start, expire, allNow) == allNow < start \/ expire < allNow

\* The slots a timer is away from llStartIdx: a timer beyond the wheel's span
\* goes to the last slot.
Distance(start, expire) ==
  IF expire - start >= iItemSize THEN iItemSize - 1 ELSE expire - start

SlotAhead(idx, n) == (idx + n) % iItemSize

AddSlot(start, idx, expire) == SlotAhead(idx, Distance(start, expire))

\* Mutant: the slot of the current time is not counted.
TakeCountShort(start, allNow) ==
  LET cnt == ToInt(allNow - start)
  IN  IF cnt > iItemSize THEN iItemSize ELSE cnt

\* The slots TakeAllTimeout empties (cnt, before its last early return).
TakeCount(start, allNow) ==
  LET cnt == ToInt(allNow - start + 1)
  IN  IF cnt > iItemSize THEN iItemSize ELSE cnt

\* TakeAllTimeout returns without taking anything.
TakeFails(start, allNow) == allNow < start \/ TakeCount(start, allNow) < 0
=============================================================================
