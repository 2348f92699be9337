-------------------------- MODULE CoTimeoutProofs ---------------------------
(***************************************************************************)
(* Theorems about CoTimeout, for every size of the wheel, every set of     *)
(* timers and of timeouts, and every clock whose jumps an int holds.       *)
(*                                                                         *)
(* SlotInv is what carries the argument: it says how many slots ahead of   *)
(* llStartIdx a timer lies, so that moving llStartIdx and ullStart on by   *)
(* the same amount keeps it, without a word about remainders.              *)
(***************************************************************************)
EXTENDS CoTimeout, TLAPS

\* A number that fits in an int is not changed by the assignment to one.
LEMMA ToIntFits ==
  ASSUME NEW x \in Nat, x < IntSpan \div 2
  PROVE  ToInt(x) = x
<1>1. IntSpan \in Nat \ {0} /\ IntSpan \div 2 <= IntSpan
  BY WheelAssumption
<1>2. x % IntSpan = x
  BY <1>1, WheelAssumption
<1> QED  BY <1>2 DEF ToInt

\* A place in the wheel is one of its slots.
LEMMA SlotAheadType ==
  ASSUME NEW idx \in Int, NEW n \in Int
  PROVE  SlotAhead(idx, n) \in 0..iItemSize - 1
BY WheelAssumption DEF SlotAhead

\* TakeAllTimeout gives up only when the clock is behind the wheel, and else
\* empties the slots up to now, or all of them.
LEMMA TakeFacts ==
  ASSUME ShortGaps, NEW start \in Clock, NEW allNow \in Clock
  PROVE  /\ TakeFails(start, allNow) <=> allNow < start
         /\ ~TakeFails(start, allNow) =>
              /\ TakeCount(start, allNow) \in 1..iItemSize
              /\ \/ TakeCount(start, allNow) = allNow - start + 1
                 \/ TakeCount(start, allNow) = iItemSize
<1> USE ClockAssumption, WheelAssumption
<1>1. CASE allNow < start
  BY <1>1 DEF TakeFails
<1>2. CASE ~(allNow < start)
  <2>1. allNow - start + 1 \in Nat \ {0} /\ allNow - start + 1 < IntSpan \div 2
    BY <1>2 DEF ShortGaps
  <2>2. ToInt(allNow - start + 1) = allNow - start + 1
    BY <2>1, ToIntFits
  <2>3. /\ TakeCount(start, allNow) \in 1..iItemSize
        /\ \/ TakeCount(start, allNow) = allNow - start + 1
           \/ TakeCount(start, allNow) = iItemSize
    BY <2>1, <2>2 DEF TakeCount
  <2> QED  BY <1>2, <2>3 DEF TakeFails
<1> QED  BY <1>1, <1>2

\* The wheel of a thread has been started.
LEMMA Started ==
  ASSUME TypeOK, NEW allNow
  PROVE  /\ StartAt(ullStart, allNow) = ullStart
         /\ IdxAt(ullStart, llStartIdx) = llStartIdx
BY ClockAssumption DEF TypeOK, StartAt, IdxAt

\* AddTimeout links a timer that expires after allNow, and no earlier than
\* the wheel's start, into a slot that SlotInv allows for it.
LEMMA AddFacts ==
  ASSUME TypeOK, NEW t \in Timer, NEW expiry \in Nat, NEW allNow \in Nat,
         allNow < expiry, AddTimeout(t, expiry, allNow)
  PROVE  /\ ullStart' = ullStart /\ llStartIdx' = llStartIdx
         /\ ullStart <= allNow
         /\ slot' = [slot EXCEPT ![t] = slot'[t]]
         /\ slot'[t] \in 0..iItemSize - 1
         /\ \E k \in 0..iItemSize - 1 :
              slot'[t] = SlotAhead(llStartIdx, k) /\ ullStart + k <= expiry
<1> USE ClockAssumption, WheelAssumption
<1>1. ullStart' = ullStart /\ llStartIdx' = llStartIdx
  BY Started DEF AddTimeout, SetStart
<1>2. ullStart \in Nat /\ llStartIdx \in Nat
  BY DEF TypeOK
<1>3. ullStart <= allNow
  BY <1>2, Started DEF AddTimeout, AddFails
<1> DEFINE k == Distance(ullStart, expiry)
<1>4. k \in 0..iItemSize - 1 /\ ullStart + k <= expiry
  BY <1>2, <1>3 DEF Distance
<1>5. slot' = [slot EXCEPT ![t] = SlotAhead(llStartIdx, k)]
  BY <1>1 DEF AddTimeout, AddSlot
<1>6. slot'[t] = SlotAhead(llStartIdx, k)
  BY <1>5 DEF TypeOK
<1> HIDE DEF k
<1>7. slot'[t] \in 0..iItemSize - 1
  <2>1. llStartIdx \in Int /\ k \in Int
    BY <1>2, <1>4
  <2> QED  BY <2>1, <1>6, SlotAheadType
<1> QED  BY <1>1, <1>3, <1>4, <1>5, <1>6, <1>7

\* The wheel starts empty.
LEMMA InitIInv == Init => IInv
BY ClockAssumption DEF Init, IInv, TypeOK, SlotInv, RoundInv, InWheel, Linked

\* A wait keeps the inductive invariant, whether or not it is refused.
LEMMA WaitStep ==
  ASSUME IInv, NEW t \in Timer, NEW ms \in Timeouts, Wait(t, ms)
  PROVE  IInv'
<1> USE ClockAssumption DEF IInv
<1>1. now \in Nat /\ now + ms \in Nat /\ now < now + ms /\ ullStart \in Nat
  BY DEF TypeOK
<1>2. CASE AddTimeout(t, now + ms, now)
  <2>1. /\ expire' = [expire EXCEPT ![t] = now + ms]
        /\ fired' = fired \ {t}
        /\ UNCHANGED <<now, taken, loopNow>>
    BY <1>2 DEF Wait, AddTimeout, AddRefused
  <2>2. /\ ullStart' = ullStart /\ llStartIdx' = llStartIdx
        /\ ullStart <= now
        /\ slot' = [slot EXCEPT ![t] = slot'[t]]
        /\ slot'[t] \in 0..iItemSize - 1
        /\ \E k \in 0..iItemSize - 1 :
             slot'[t] = SlotAhead(llStartIdx, k) /\ ullStart + k <= now + ms
    BY <1>1, <1>2, AddFacts
  <2>3. \A u \in Timer \ {t} : slot'[u] = slot[u] /\ expire'[u] = expire[u]
    BY <2>1, <2>2 DEF TypeOK
  <2>4. expire'[t] = now + ms
    BY <2>1 DEF TypeOK
  <2>5. t \notin taken
    BY DEF Wait, Linked
  <2>6. TypeOK'
    BY <1>1, <2>1, <2>2, <2>3, <2>4 DEF TypeOK, Linked, InWheel
  <2>7. SlotInv'
    BY <1>1, <2>1, <2>2, <2>3, <2>4, <2>5 DEF SlotInv, InWheel
  <2> QED  BY <2>1, <2>2, <2>6, <2>7 DEF RoundInv
<1>3. CASE AddRefused(t, now + ms, now) /\ UNCHANGED <<slot, expire, fired>>
  <2>1. ullStart' = ullStart /\ llStartIdx' = llStartIdx
    BY <1>3, Started DEF AddRefused, SetStart
  <2> QED
    BY <1>3, <2>1
    DEF Wait, TypeOK, SlotInv, RoundInv, InWheel, Linked
<1> QED  BY <1>2, <1>3 DEF Wait

\* A timer that is removed from its link leaves the others where they are.
LEMMA RemoveStep ==
  ASSUME IInv, NEW t \in Timer, RemoveFromLink(t)
  PROVE  IInv'
<1> USE DEF IInv
<1>1. \A u \in Timer \ {t} : slot'[u] = slot[u] /\ expire'[u] = expire[u]
  BY DEF RemoveFromLink, TypeOK
<1>2. slot'[t] = None /\ expire'[t] = None
  BY DEF RemoveFromLink, TypeOK
<1>3. TypeOK'
  BY <1>1, <1>2 DEF RemoveFromLink, TypeOK, Linked, InWheel
<1>4. SlotInv'
  BY <1>1, <1>2 DEF RemoveFromLink, SlotInv, InWheel
<1> QED  BY <1>3, <1>4 DEF RemoveFromLink, RoundInv

\* A round moves the wheel on: a timer k slots ahead that is not taken is
\* then cnt - 1 slots less ahead.
LEMMA TakeStep ==
  ASSUME ShortGaps, IInv, TakeAllTimeout
  PROVE  IInv'
<1> USE ClockAssumption, WheelAssumption DEF IInv
<1>1. now \in Clock /\ ullStart \in Clock /\ now \in Nat /\ ullStart \in Nat
  BY DEF TypeOK
<1> DEFINE cnt == TakeCount(ullStart, now)
<1>2. CASE TakeFails(ullStart, now)
  <2>1. now < ullStart
    BY <1>1, <1>2, TakeFacts
  <2>2. /\ UNCHANGED <<now, ullStart, llStartIdx, slot, expire, taken, fired>>
        /\ loopNow' = now /\ taken = {}
    BY <1>2, Started DEF TakeAllTimeout, SetStart
  <2> QED
    BY <1>1, <2>1, <2>2 DEF TypeOK, SlotInv, RoundInv, InWheel, Linked
<1>3. CASE ~TakeFails(ullStart, now)
  <2>1. /\ cnt \in 1..iItemSize
        /\ cnt = now - ullStart + 1 \/ cnt = iItemSize
        /\ ullStart <= now
    BY <1>1, <1>3, TakeFacts
  <2>2. /\ taken' = InSlots(llStartIdx, cnt)
        /\ slot' = [t \in Timer |-> IF t \in taken' THEN None ELSE slot[t]]
        /\ ullStart' = now /\ llStartIdx' = llStartIdx + cnt - 1
        /\ loopNow' = now /\ taken = {}
        /\ UNCHANGED <<now, expire, fired>>
    BY <1>3, Started DEF TakeAllTimeout
  <2>3. TypeOK'
    <3>1. llStartIdx' \in Nat /\ taken' \subseteq Timer
      BY <2>1, <2>2 DEF TypeOK, InSlots
    <3>2. slot' \in [Timer -> (0..iItemSize - 1) \cup {None}]
      BY <2>2 DEF TypeOK
    <3>3. \A t \in Timer : Linked(t)' <=> Linked(t)
      BY <2>2 DEF Linked, InWheel, InSlots
    <3> QED  BY <2>2, <3>1, <3>2, <3>3 DEF TypeOK
  <2>4. SlotInv'
    <3> SUFFICES ASSUME NEW t \in Timer, InWheel(t)'
                 PROVE  /\ t \notin taken'
                        /\ now < expire[t]
                        /\ \E j \in 0..iItemSize - 1 :
                             /\ slot[t] = SlotAhead(llStartIdx + cnt - 1, j)
                             /\ now + j <= expire[t]
      BY <2>2 DEF SlotInv, InWheel
    <3>1. t \notin taken' /\ InWheel(t)
      BY <2>2 DEF InWheel
    <3>2. PICK k \in 0..iItemSize - 1 :
            slot[t] = SlotAhead(llStartIdx, k) /\ ullStart + k <= expire[t]
      BY <3>1 DEF SlotInv
    <3>3. ~(k < cnt)
      BY <2>1, <2>2, <3>1, <3>2 DEF InSlots
    <3>4. cnt = now - ullStart + 1
      BY <2>1, <3>3
    <3>5. expire[t] \in Nat
      BY <3>1 DEF TypeOK, Linked, InWheel
    <3>6. k - (cnt - 1) \in 0..iItemSize - 1
      BY <2>1, <3>3
    <3>7. llStartIdx + cnt - 1 + (k - (cnt - 1)) = llStartIdx + k
      BY <2>1 DEF TypeOK
    <3>8. slot[t] = SlotAhead(llStartIdx + cnt - 1, k - (cnt - 1))
      BY <3>2, <3>7 DEF SlotAhead
    <3>9. now + (k - (cnt - 1)) <= expire[t] /\ now < expire[t]
      BY <1>1, <2>1, <3>2, <3>3, <3>4, <3>5
    <3> QED  BY <3>1, <3>6, <3>8, <3>9
  <2> QED  BY <1>1, <2>2, <2>3, <2>4 DEF RoundInv
<1> QED  BY <1>2, <1>3

\* A timer that is put back is as one that was just armed.
LEMMA PutBackStep ==
  ASSUME IInv, NEW t \in Timer, PutBack(t)
  PROVE  IInv'
<1> USE ClockAssumption DEF IInv
<1>1. /\ t \in taken /\ loopNow < expire[t] /\ loopNow = ullStart
      /\ loopNow \in Nat /\ expire[t] \in Nat
  BY DEF PutBack, RoundInv, TypeOK, Linked
<1>2. /\ ullStart' = ullStart /\ llStartIdx' = llStartIdx
      /\ slot' = [slot EXCEPT ![t] = slot'[t]]
      /\ slot'[t] \in 0..iItemSize - 1
      /\ \E k \in 0..iItemSize - 1 :
           slot'[t] = SlotAhead(llStartIdx, k) /\ ullStart + k <= expire[t]
  BY <1>1, AddFacts DEF PutBack
<1>3. taken' = taken \ {t} /\ UNCHANGED <<now, expire, loopNow, fired>>
  BY DEF PutBack
<1>4. \A u \in Timer \ {t} : slot'[u] = slot[u]
  BY <1>2 DEF TypeOK
<1>5. TypeOK'
  BY <1>1, <1>2, <1>3, <1>4 DEF TypeOK, Linked, InWheel
<1>6. SlotInv'
  BY <1>1, <1>2, <1>3, <1>4 DEF SlotInv, InWheel
<1> QED  BY <1>2, <1>3, <1>5, <1>6 DEF RoundInv

\* A timer that fires is in no link afterwards.
LEMMA FireStep ==
  ASSUME IInv, NEW t \in Timer, Fire(t)
  PROVE  IInv'
<1> USE DEF IInv
<1>1. /\ t \in taken /\ taken' = taken \ {t}
      /\ expire' = [expire EXCEPT ![t] = None]
      /\ fired' = fired \cup {t}
      /\ UNCHANGED <<now, slot, loopNow>>
  BY DEF Fire
<1>2. ullStart' = ullStart /\ llStartIdx' = llStartIdx
  BY Started DEF Fire, SetStart
<1>3. ~InWheel(t)
  BY <1>1 DEF SlotInv
<1>4. \A u \in Timer \ {t} : expire'[u] = expire[u]
  BY <1>1 DEF TypeOK
<1>5. expire'[t] = None
  BY <1>1 DEF TypeOK
<1>6. TypeOK'
  BY <1>1, <1>2, <1>3, <1>4, <1>5 DEF TypeOK, Linked, InWheel
<1>7. SlotInv'
  BY <1>1, <1>2, <1>3, <1>4 DEF SlotInv, InWheel
<1> QED  BY <1>1, <1>2, <1>6, <1>7 DEF RoundInv

\* The inductive invariant holds throughout: no timer is filed in a slot
\* that the loop would empty too late for it.
THEOREM Invariance ==
  ASSUME ShortGaps PROVE Spec => []IInv
<1>1. Init => IInv
  BY InitIInv
<1>2. IInv /\ [Next]_timeoutVars => IInv'
  <2> SUFFICES ASSUME IInv, [Next]_timeoutVars PROVE IInv'
    OBVIOUS
  <2>1. CASE Tick
    BY <2>1 DEF Tick, IInv, TypeOK, SlotInv, RoundInv, InWheel, Linked
  <2>2. CASE TakeAllTimeout
    BY <2>2, TakeStep
  <2>3. CASE \E t \in Timer : \E ms \in Timeouts : Wait(t, ms)
    BY <2>3, WaitStep
  <2>4. CASE \E t \in Timer : RemoveFromLink(t)
    BY <2>4, RemoveStep
  <2>5. CASE \E t \in Timer : PutBack(t)
    BY <2>5, PutBackStep
  <2>6. CASE \E t \in Timer : Fire(t)
    BY <2>6, FireStep
  <2>7. CASE UNCHANGED timeoutVars
    BY <2>7
    DEF timeoutVars, IInv, TypeOK, SlotInv, RoundInv, InWheel, Linked
  <2> QED
    BY <2>1, <2>2, <2>3, <2>4, <2>5, <2>6, <2>7 DEF Next
<1> QED  BY <1>1, <1>2, PTL DEF Spec

\* What was taken too early can be put back, by the inductive invariant.
LEMMA EarlyIsAccepted == IInv => NeverEarly
BY ClockAssumption
DEF IInv, NeverEarly, TypeOK, Linked, RoundInv, AddFails, StartAt

\* What is left in the wheel is not due, by the inductive invariant.
LEMMA LeftIsNotDue == IInv => NoOverdue
BY ClockAssumption
DEF IInv, NoOverdue, TypeOK, Linked, InWheel, SlotInv, RoundInv

\* No wait ends before its time: whatever a round takes too early goes back.
THEOREM NothingEarly ==
  ASSUME ShortGaps PROVE Spec => []NeverEarly
BY Invariance, EarlyIsAccepted, PTL

\* No round leaves a timer that is due in the wheel.
THEOREM NothingOverdue ==
  ASSUME ShortGaps PROVE Spec => []NoOverdue
BY Invariance, LeftIsNotDue, PTL

\* The wheel starts as a set of timers does.
LEMMA RefinesInit == Init => Timers!Init
BY DEF Init, Timers!Init

\* Every step of the wheel is a step of the set of timers, or none.
LEMMA RefinesStep ==
  IInv /\ [Next]_timeoutVars => [Timers!Next]_Timers!timerVars
<1> SUFFICES ASSUME IInv, [Next]_timeoutVars
             PROVE  [Timers!Next]_Timers!timerVars
  OBVIOUS
<1> USE ClockAssumption
<1> USE DEF Timers!timerVars
<1>0. TypeOK /\ NoOverdue /\ NeverEarly
  BY EarlyIsAccepted, LeftIsNotDue DEF IInv
<1>1. CASE Tick
  BY <1>1 DEF Tick
<1>2. CASE TakeAllTimeout
  <2>1. \A t \in Timer : Timers!Armed(t) => expire[t] > loopNow
    BY <1>0, <1>2
    DEF TakeAllTimeout, Timers!Armed, TypeOK, Linked, NoOverdue
  <2> QED  BY <1>2, <2>1 DEF TakeAllTimeout, Timers!Next, Timers!Look
<1>3. ASSUME NEW t \in Timer, NEW ms \in Timeouts, Wait(t, ms)
      PROVE  [Timers!Next]_Timers!timerVars
  <2>1. ~Timers!Armed(t)
    BY <1>0, <1>3 DEF Wait, Timers!Armed, TypeOK
  <2>2. CASE AddTimeout(t, now + ms, now)
    <3>1. /\ expire' = [expire EXCEPT ![t] = now + ms]
          /\ fired' = fired \ {t} /\ loopNow' = loopNow
      BY <1>3, <2>2 DEF Wait, AddTimeout, AddRefused
    <3>2. expire'[t] = now + ms /\ now + ms \in Nat
      BY <1>0, <3>1 DEF TypeOK
    <3>3. Timers!Arm(t)
      BY <2>1, <3>1, <3>2 DEF Timers!Arm
    <3> QED  BY <3>3 DEF Timers!Next
  <2>3. CASE UNCHANGED <<slot, expire, fired>>
    BY <1>3, <2>3 DEF Wait
  <2> QED  BY <1>3, <2>2, <2>3 DEF Wait
<1>4. ASSUME NEW t \in Timer, RemoveFromLink(t)
      PROVE  [Timers!Next]_Timers!timerVars
  <2>1. Timers!Cancel(t)
    BY <1>0, <1>4 DEF RemoveFromLink, Timers!Cancel, Timers!Armed, TypeOK
  <2> QED  BY <2>1 DEF Timers!Next
<1>5. ASSUME NEW t \in Timer, PutBack(t)
      PROVE  [Timers!Next]_Timers!timerVars
  BY <1>5 DEF PutBack
<1>6. ASSUME NEW t \in Timer, Fire(t)
      PROVE  [Timers!Next]_Timers!timerVars
  <2>1. t \in taken /\ ~(loopNow < expire[t])
    BY <1>0, <1>6 DEF Fire, NeverEarly
  <2>2. expire[t] # None /\ expire[t] \in Nat /\ loopNow \in Nat
    BY <1>0, <2>1 DEF TypeOK, Linked
  <2>3. Timers!Fire(t)
    BY <1>6, <2>1, <2>2 DEF Fire, Timers!Fire, Timers!Armed
  <2> QED  BY <2>3 DEF Timers!Next
<1>7. CASE UNCHANGED timeoutVars
  BY <1>7 DEF timeoutVars
<1> QED
  BY <1>1, <1>2, <1>3, <1>4, <1>5, <1>6, <1>7 DEF Next

\* The time wheel implements the set of timers: nothing fires before its
\* deadline, and each round fires all that is due by its clock.
THEOREM Refinement ==
  ASSUME ShortGaps PROVE Spec => ImplementsTimerSet
<1>1. Spec => []IInv
  BY Invariance
<1> QED
  BY <1>1, RefinesInit, RefinesStep, PTL
  DEF Spec, ImplementsTimerSet, Timers!Spec
=============================================================================
