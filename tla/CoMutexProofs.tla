--------------------------- MODULE CoMutexProofs ----------------------------
(***************************************************************************)
(* Theorems about CoMutex, for every set of coroutines.                    *)
(*                                                                         *)
(* Mutual exclusion alone is not inductive: that a call of CoLock finds    *)
(* the count above 0 while a signalled coroutine has not run yet takes     *)
(* CountInv, and that the signalled one finds no holder takes OwnerInv.    *)
(***************************************************************************)
EXTENDS CoMutex, SequenceTheorems, TLAPS

\* The mutex starts free.
LEMMA InitIInv == Init => IInv
BY DEF Init, IInv, TypeOK, OwnerInv, CountInv, QueueInv, In

\* CoLock keeps the invariant: it takes a lock that has no owner, or queues.
LEMMA LockStep ==
  ASSUME IInv, NEW c \in Co, CoLock(c)
  PROVE  IInv'
<1> USE DEF IInv
<1>1. CASE m_iWaitItemCnt > 0
  <2>1. /\ m_iWaitItemCnt' = m_iWaitItemCnt + 1 /\ cond' = Append(cond, c)
        /\ UNCHANGED <<active, holding>>
    BY <1>1 DEF CoLock, co_cond_timedwait
  <2>2. ~In(c, cond) /\ ~In(c, active) /\ c \notin holding
    BY DEF CoLock, Waiting
  <2>3. /\ cond' \in Seq(Co) /\ Len(cond') = Len(cond) + 1
        /\ \A i \in DOMAIN cond' :
             cond'[i] = IF i = Len(cond) + 1 THEN c ELSE cond[i]
        /\ DOMAIN cond' = 1..Len(cond) + 1 /\ DOMAIN cond = 1..Len(cond)
    BY <2>1 DEF TypeOK
  <2>4. TypeOK'
    BY <2>1, <2>3 DEF TypeOK
  <2>5. CountInv'
    BY <2>1, <2>3 DEF CountInv, TypeOK
  <2>6. OwnerInv'
    <3>1. ~(holding = {} /\ active = <<>> /\ cond = <<>>)
      BY <1>1 DEF CountInv
    <3> QED  BY <2>1, <3>1 DEF OwnerInv
  <2>7. QueueInv'
    <3>1. \A i, j \in DOMAIN cond' : cond'[i] = cond'[j] => i = j
      BY <2>2, <2>3 DEF QueueInv, In, TypeOK
    <3>2. \A e \in Co : In(e, cond)' => e = c \/ In(e, cond)
      BY <2>3 DEF In, TypeOK
    <3>3. \A e \in Co : In(e, active)' = In(e, active)
      BY <2>1 DEF In
    <3> QED  BY <2>1, <2>2, <3>1, <3>2, <3>3 DEF QueueInv
  <2> QED  BY <2>4, <2>5, <2>6, <2>7
<1>2. CASE ~(m_iWaitItemCnt > 0)
  <2>1. /\ m_iWaitItemCnt' = m_iWaitItemCnt + 1
        /\ holding' = holding \cup {c} /\ UNCHANGED <<cond, active>>
    BY <1>2 DEF CoLock
  <2>2. Len(cond) = 0 /\ Len(active) = 0 /\ holding = {}
    BY <1>2 DEF CountInv, TypeOK
  <2>3. cond = <<>> /\ active = <<>>
    BY <2>2, EmptySeq DEF TypeOK
  <2> QED
    BY <2>1, <2>2, <2>3 DEF TypeOK, OwnerInv, CountInv, QueueInv, In
<1> QED  BY <1>1, <1>2

\* What co_cond_signal does to a queue that is not empty.
LEMMA SignalFacts ==
  ASSUME TypeOK, cond # <<>>, co_cond_signal
  PROVE  /\ cond' = Tail(cond) /\ active' = Append(active, Head(cond))
         /\ cond' \in Seq(Co) /\ Head(cond) \in Co
         /\ Head(cond) = cond[1] /\ 1 \in DOMAIN cond
         /\ Len(cond') = Len(cond) - 1
         /\ \A i \in DOMAIN cond' :
              i + 1 \in DOMAIN cond /\ cond'[i] = cond[i + 1] /\ i + 1 # 1
<1>1. cond' = Tail(cond) /\ active' = Append(active, Head(cond))
  BY DEF co_cond_signal
<1>2. cond \in Seq(Co)
  BY DEF TypeOK
<1>3. /\ Tail(cond) \in Seq(Co) /\ Len(Tail(cond)) = Len(cond) - 1
      /\ \A i \in 1..Len(Tail(cond)) : Tail(cond)[i] = cond[i + 1]
      /\ Head(cond) = cond[1] /\ Head(cond) \in Co
  BY <1>2, HeadTailProperties
<1>4. Len(cond) \in Nat /\ Len(cond) # 0 /\ DOMAIN cond = 1..Len(cond)
  BY <1>2, EmptySeq
<1>5. DOMAIN cond' = 1..Len(cond) - 1
  BY <1>1, <1>3
<1> QED  BY <1>1, <1>3, <1>4, <1>5

\* CoUnLock keeps the invariant: the head of the queue becomes the owner.
LEMMA UnlockStep ==
  ASSUME IInv, NEW c \in Co, CoUnLock(c)
  PROVE  IInv'
<1> USE DEF IInv
<1>1. /\ holding = {c} /\ active = <<>> /\ holding' = {}
      /\ m_iWaitItemCnt' = m_iWaitItemCnt - 1 /\ co_cond_signal
  BY DEF CoUnLock, OwnerInv
<1>2. m_iWaitItemCnt = Len(cond) + 1 /\ Len(cond) \in Nat
  BY <1>1 DEF CountInv, TypeOK
<1>3. CASE cond = <<>>
  <2>1. UNCHANGED <<cond, active>>
    BY <1>1, <1>3 DEF co_cond_signal
  <2> QED
    BY <1>1, <1>2, <1>3, <2>1
    DEF TypeOK, OwnerInv, CountInv, QueueInv, In
<1>4. CASE cond # <<>>
  <2> DEFINE h == Head(cond)
  <2>1. /\ cond' = Tail(cond) /\ active' = <<h>> /\ cond' \in Seq(Co)
        /\ h \in Co /\ h = cond[1] /\ 1 \in DOMAIN cond
        /\ Len(cond') = Len(cond) - 1
        /\ \A i \in DOMAIN cond' :
             i + 1 \in DOMAIN cond /\ cond'[i] = cond[i + 1] /\ i + 1 # 1
    BY <1>1, <1>4, SignalFacts
  <2> HIDE DEF h
  <2>2. TypeOK'
    BY <1>1, <1>2, <2>1 DEF TypeOK
  <2>3. OwnerInv'
    BY <1>1, <2>1 DEF OwnerInv
  <2>4. CountInv'
    <3>1. Len(active') = 1
      BY <2>1
    <3>2. m_iWaitItemCnt' = Len(cond') + Len(active') + 0
      BY <1>1, <1>2, <2>1, <3>1
    <3> QED  BY <1>1, <3>2 DEF CountInv
  <2>5. QueueInv'
    <3>1. \A i, j \in DOMAIN cond' : cond'[i] = cond'[j] => i = j
      <4>1. \A i \in DOMAIN cond' : i \in Int
        BY <2>1
      <4> QED  BY <2>1, <4>1 DEF QueueInv
    <3>2. \A e \in Co : In(e, cond)' => e # h
      BY <2>1 DEF QueueInv, In
    <3>3. \A e \in Co : In(e, active)' => e = h
      BY <2>1 DEF In
    <3> QED  BY <1>1, <3>1, <3>2, <3>3 DEF QueueInv
  <2> QED  BY <2>2, <2>3, <2>4, <2>5
<1> QED  BY <1>3, <1>4

\* The one that was signalled becomes the holder, and there is no other.
LEMMA WakeStep ==
  ASSUME IInv, Wake
  PROVE  IInv'
<1> USE DEF IInv
<1>1. PICK c \in Co : holding = {} /\ active = <<c>>
  BY DEF Wake, OwnerInv
<1>2. /\ holding' = {c} /\ active' = <<>>
      /\ UNCHANGED <<m_iWaitItemCnt, cond>>
  BY <1>1 DEF Wake
<1>3. ~In(c, cond)
  BY <1>1 DEF QueueInv, In
<1>4. m_iWaitItemCnt = Len(cond) + 1 /\ Len(cond) \in Nat
  BY <1>1 DEF CountInv, TypeOK
<1>5. TypeOK' /\ OwnerInv'
  BY <1>1, <1>2 DEF TypeOK, OwnerInv
<1>6. CountInv'
  <2>1. Len(active') = 0
    BY <1>2
  <2> QED  BY <1>2, <1>4, <2>1 DEF CountInv
<1>7. QueueInv'
  BY <1>1, <1>2, <1>3 DEF QueueInv, In
<1> QED  BY <1>5, <1>6, <1>7

\* Every step of the mutex keeps the invariant.
LEMMA NextStep == IInv /\ [Next]_mutexVars => IInv'
<1> SUFFICES ASSUME IInv, [Next]_mutexVars PROVE IInv'
  OBVIOUS
<1>1. CASE Wake
  BY <1>1, WakeStep
<1>2. CASE \E c \in Co : CoLock(c)
  BY <1>2, LockStep
<1>3. CASE \E c \in Co : CoUnLock(c)
  BY <1>3, UnlockStep
<1>4. CASE UNCHANGED mutexVars
  BY <1>4 DEF mutexVars, IInv, TypeOK, OwnerInv, CountInv, QueueInv, In
<1> QED  BY <1>1, <1>2, <1>3, <1>4 DEF Next

\* The counter, the queue and the active list agree on who owns the mutex.
THEOREM Invariance == Spec => []IInv
BY InitIInv, NextStep, PTL DEF Spec

\* Two coroutines never hold the mutex at a time.
THEOREM Exclusion == Spec => []MutualExclusion
<1>1. IInv => MutualExclusion
  BY DEF IInv, OwnerInv, MutualExclusion
<1> QED  BY <1>1, Invariance, PTL

\* A queue behind its first: what it is made of, and what is behind the first.
LEMMA FirstAndRest ==
  ASSUME NEW c \in Co, NEW q \in Seq(Co)
  PROVE  /\ <<c>> \o q \in Seq(Co) /\ <<c>> \o q # <<>>
         /\ Tail(<<c>> \o q) = q /\ Head(<<c>> \o q) = c
         /\ \A e : In(e, <<c>> \o q) <=> e = c \/ In(e, q)
<1> DEFINE s == <<c>> \o q
<1>1. <<c>> \in Seq(Co) /\ Len(<<c>>) = 1
  OBVIOUS
<1>2. /\ s \in Seq(Co) /\ Len(s) = Len(q) + 1 /\ Len(q) \in Nat
      /\ \A i \in 1..Len(q) + 1 : s[i] = IF i <= 1 THEN <<c>>[i] ELSE q[i - 1]
  BY <1>1, ConcatProperties
<1>3. s # <<>>
  BY <1>2
<1> HIDE DEF s
<1>4. s[1] = c /\ \A i \in 1..Len(q) : i + 1 \in 1..Len(s) /\ s[i + 1] = q[i]
  BY <1>2
<1>5. /\ Tail(s) \in Seq(Co) /\ Len(Tail(s)) = Len(q)
      /\ \A i \in 1..Len(q) : Tail(s)[i] = q[i]
  BY <1>2, <1>3, <1>4, HeadTailProperties
<1>6. Tail(s) = q
  BY <1>5, SeqEqual
<1>7. Head(s) = c
  BY <1>2, <1>3, <1>4
<1>8. ASSUME NEW e PROVE In(e, s) <=> e = c \/ In(e, q)
  <2>1. DOMAIN s = 1..Len(q) + 1 /\ DOMAIN q = 1..Len(q)
    BY <1>2
  <2>2. ASSUME NEW i \in DOMAIN s, s[i] = e PROVE e = c \/ In(e, q)
    <3>1. CASE i = 1
      BY <1>4, <2>2, <3>1
    <3>2. CASE i # 1
      <4>1. i - 1 \in DOMAIN q /\ (i - 1) + 1 = i
        BY <1>2, <2>1, <3>2
      <4>2. q[i - 1] = e
        BY <1>4, <2>1, <2>2, <4>1
      <4> QED  BY <4>1, <4>2 DEF In
    <3> QED  BY <3>1, <3>2
  <2>3. e = c => In(e, s)
    BY <1>2, <1>4, <2>1 DEF In
  <2>4. ASSUME NEW i \in DOMAIN q, q[i] = e PROVE In(e, s)
    <3>1. i + 1 \in DOMAIN s /\ s[i + 1] = e
      BY <1>4, <2>1, <2>4, <1>2
    <3> QED  BY <3>1 DEF In
  <2> QED  BY <2>2, <2>3, <2>4 DEF In
<1> QED  BY <1>2, <1>3, <1>6, <1>7, <1>8 DEF s

\* Who asks for the lock, by the three cases of OwnerInv.
LEMMA AskingCases ==
  ASSUME TypeOK
  PROVE  /\ \A c \in Co : holding = {c} => Asking = <<c>> \o cond
         /\ \A c \in Co : holding = {} /\ active = <<c>> =>
              Asking = <<c>> \o cond
         /\ holding = {} /\ active = <<>> => Asking = cond
<1>1. \A c : (CHOOSE x \in {c} : TRUE) = c
  OBVIOUS
<1>2. <<>> \o cond = cond
  BY ConcatEmptySeq DEF TypeOK
<1> QED  BY <1>1, <1>2 DEF Asking

\* A free mutex has nobody asking for it.
LEMMA RefinesInit == Init => Lock!Init
<1> SUFFICES ASSUME Init PROVE Lock!Init
  OBVIOUS
<1>1. Asking = <<>>
  BY InitIInv, AskingCases DEF Init, IInv
<1> QED  BY <1>1 DEF Init, Lock!Init

\* CoLock is a request, granted at once when the mutex has no owner.
LEMMA LockRequests ==
  ASSUME IInv, IInv', NEW c \in Co, CoLock(c)
  PROVE  Lock!Request(c)
<1> USE DEF IInv
<1>1. CASE m_iWaitItemCnt > 0
  <2>1. cond' = Append(cond, c) /\ UNCHANGED <<active, holding>>
    BY <1>1 DEF CoLock, co_cond_timedwait
  <2>2. PICK o \in Co : holding = {o} \/ (holding = {} /\ active = <<o>>)
    <3>1. ~(holding = {} /\ active = <<>> /\ cond = <<>>)
      BY <1>1 DEF CountInv
    <3> QED  BY <3>1 DEF OwnerInv
  <2>3. Asking = <<o>> \o cond /\ Asking' = <<o>> \o Append(cond, c)
    <3>1. Asking = <<o>> \o cond
      BY <2>2, AskingCases
    <3>2. Asking' = <<o>> \o cond'
      BY <2>1, <2>2, <3>1 DEF Asking
    <3> QED  BY <2>1, <3>1, <3>2
  <2>4. Asking' = Append(Asking, c)
    <3>1. <<o>> \in Seq(Co) /\ <<c>> \in Seq(Co) /\ cond \in Seq(Co)
      BY DEF TypeOK
    <3>2. /\ Append(cond, c) = cond \o <<c>>
          /\ Append(<<o>> \o cond, c) = (<<o>> \o cond) \o <<c>>
      BY <3>1, AppendIsConcat, FirstAndRest
    <3>3. (<<o>> \o cond) \o <<c>> = <<o>> \o (cond \o <<c>>)
      BY <3>1, ConcatAssociative
    <3> QED  BY <2>3, <3>2, <3>3
  <2>5. ~Lock!Asks(c) /\ Asking # <<>>
    <3>1. ~In(c, cond) /\ c # o
      BY <2>2 DEF CoLock, Waiting, In
    <3>2. cond \in Seq(Co)
      BY DEF TypeOK
    <3>3. ~In(c, Asking) /\ Asking # <<>>
      BY <2>3, <3>1, <3>2, FirstAndRest
    <3> QED  BY <3>3 DEF Lock!Asks, In
  <2> QED  BY <2>1, <2>4, <2>5 DEF Lock!Request
<1>2. CASE ~(m_iWaitItemCnt > 0)
  <2>1. holding' = holding \cup {c} /\ UNCHANGED <<cond, active>>
    BY <1>2 DEF CoLock
  <2>2. holding = {} /\ active = <<>> /\ cond = <<>>
    <3>1. Len(cond) = 0 /\ Len(active) = 0 /\ holding = {}
      BY <1>2 DEF CountInv, TypeOK
    <3> QED  BY <3>1, EmptySeq DEF TypeOK
  <2>3. Asking = <<>>
    BY <2>2, AskingCases
  <2>4. Asking' = <<c>>
    <3>1. (CHOOSE x \in {c} : TRUE) = c /\ holding' = {c} /\ cond' = <<>>
      BY <2>1, <2>2
    <3>2. <<c>> \o <<>> = <<c>>
      BY ConcatEmptySeq
    <3> QED  BY <3>1, <3>2 DEF Asking
  <2>5. Asking' = Append(Asking, c) /\ ~Lock!Asks(c)
    BY <2>3, <2>4 DEF Lock!Asks
  <2>6. (holding # {})' = TRUE
    BY <2>1
  <2> QED  BY <2>3, <2>5, <2>6 DEF Lock!Request
<1> QED  BY <1>1, <1>2

\* CoUnLock releases the lock, and the next in the queue is asked for next.
LEMMA UnlockReleases ==
  ASSUME IInv, NEW c \in Co, CoUnLock(c)
  PROVE  Lock!Release
<1> USE DEF IInv
<1>1. holding = {c} /\ active = <<>> /\ holding' = {} /\ co_cond_signal
  BY DEF CoUnLock, OwnerInv
<1>2. cond \in Seq(Co) /\ Asking = <<c>> \o cond
  BY <1>1, AskingCases DEF TypeOK
<1>3. Tail(Asking) = cond
  BY <1>2, FirstAndRest
<1>4. Asking' = active' \o cond'
  BY <1>1 DEF Asking
<1>5. Asking' = cond
  <2>1. CASE cond = <<>>
    BY <1>1, <1>4, <2>1, ConcatEmptySeq DEF co_cond_signal
  <2>2. CASE cond # <<>>
    <3>1. /\ cond' = Tail(cond) /\ active' = <<Head(cond)>>
          /\ cond' \in Seq(Co) /\ Head(cond) \in Co
      BY <1>1, <2>2, SignalFacts
    <3> DEFINE s == <<Head(cond)>> \o Tail(cond)
    <3>2. /\ s \in Seq(Co) /\ s # <<>>
          /\ Tail(s) = Tail(cond) /\ Head(s) = Head(cond)
      BY <3>1, FirstAndRest
    <3> HIDE DEF s
    <3>3. /\ Len(s) = Len(cond) /\ Len(cond) \in Nat
          /\ \A i \in 1..Len(cond) - 1 : s[i + 1] = cond[i + 1]
          /\ s[1] = cond[1]
      <4>1. /\ Len(Tail(s)) = Len(s) - 1 /\ Len(Tail(cond)) = Len(cond) - 1
            /\ \A i \in 1..Len(Tail(s)) : Tail(s)[i] = s[i + 1]
            /\ \A i \in 1..Len(Tail(cond)) : Tail(cond)[i] = cond[i + 1]
            /\ Len(s) \in Nat /\ Len(cond) \in Nat
        BY <1>2, <2>2, <3>2, HeadTailProperties
      <4>2. Head(s) = s[1] /\ Head(cond) = cond[1]
        BY <1>2, <2>2, <3>2
      <4>3. Len(s) = Len(cond)
        BY <3>2, <4>1
      <4>4. ASSUME NEW i \in 1..Len(cond) - 1 PROVE s[i + 1] = cond[i + 1]
        <5>1. i \in 1..Len(Tail(s)) /\ i \in 1..Len(Tail(cond))
          BY <4>1, <4>3
        <5> QED  BY <3>2, <4>1, <5>1
      <4> QED  BY <3>2, <4>1, <4>2, <4>3, <4>4
    <3>4. \A i \in 1..Len(cond) : s[i] = cond[i]
      <4> SUFFICES ASSUME NEW i \in 1..Len(cond) PROVE s[i] = cond[i]
        OBVIOUS
      <4>1. CASE i = 1
        BY <3>3, <4>1
      <4>2. CASE i # 1
        <5>1. i - 1 \in 1..Len(cond) - 1 /\ (i - 1) + 1 = i
          BY <3>3, <4>2
        <5> QED  BY <3>3, <5>1
      <4> QED  BY <4>1, <4>2
    <3>5. s = cond
      BY <1>2, <3>2, <3>3, <3>4, SeqEqual
    <3> QED  BY <1>4, <3>1, <3>5 DEF s
  <2> QED  BY <2>1, <2>2
<1> QED  BY <1>1, <1>3, <1>5 DEF Lock!Release

\* The resumption of the one that was signalled grants the lock to it.
LEMMA WakeGrants ==
  ASSUME IInv, Wake
  PROVE  Lock!Grant
<1> USE DEF IInv
<1>1. PICK c \in Co : holding = {} /\ active = <<c>>
  BY DEF Wake, OwnerInv
<1>2. holding' = {c} /\ cond' = cond
  BY <1>1 DEF Wake
<1>3. Asking = <<c>> \o cond
  BY <1>1, AskingCases
<1>4. Asking' = <<c>> \o cond
  <2>1. (CHOOSE x \in {c} : TRUE) = c
    OBVIOUS
  <2> QED  BY <1>2, <2>1 DEF Asking
<1>5. Asking # <<>>
  BY <1>3, FirstAndRest DEF TypeOK
<1> QED  BY <1>1, <1>2, <1>3, <1>4, <1>5 DEF Lock!Grant

\* The mutex implements the lock that is granted in the order of the calls
\* (that a lock is granted eventually rests on fairness, and is left to TLC).
THEOREM InOrder == Spec => Lock!Init /\ [][Lock!Next]_(Lock!lockVars)
<1>1. IInv /\ IInv' /\ [Next]_mutexVars => [Lock!Next]_(Lock!lockVars)
  <2> SUFFICES ASSUME IInv, IInv', [Next]_mutexVars
               PROVE  [Lock!Next]_(Lock!lockVars)
    OBVIOUS
  <2>1. CASE Wake
    BY <2>1, WakeGrants DEF Lock!Next
  <2>2. CASE \E c \in Co : CoLock(c)
    BY <2>2, LockRequests DEF Lock!Next
  <2>3. CASE \E c \in Co : CoUnLock(c)
    BY <2>3, UnlockReleases DEF Lock!Next
  <2>4. CASE UNCHANGED mutexVars
    BY <2>4 DEF mutexVars, Lock!lockVars, Asking
  <2> QED  BY <2>1, <2>2, <2>3, <2>4 DEF Next
<1> QED  BY <1>1, RefinesInit, Invariance, PTL DEF Spec
=============================================================================
