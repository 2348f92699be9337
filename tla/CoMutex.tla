------------------------------ MODULE CoMutex -------------------------------
(***************************************************************************)
(* clsCoMutex (src/src/coroutine/co_comm.cpp), a mutex for the coroutines  *)
(* of a thread: m_iWaitItemCnt counts those who hold the lock or wait for  *)
(* it, and those who wait are in the queue of a condition variable or,     *)
(* once CoUnLock signalled them, in the active list of the event loop      *)
(* (CoEventLoop: NoSignalLost, SignalledRuns).                             *)
(*                                                                         *)
(* Coroutines switch only in waits, so each call is a step; between them   *)
(* the callers may run in any order, also while they hold the lock.        *)
(***************************************************************************)
EXTENDS Integers, Sequences

CONSTANT Co     (* the coroutines that use the mutex                     *)

VARIABLES
  m_iWaitItemCnt,
  cond,         (* the queue of m_ptCondSignal                           *)
  active,       (* those signalled: their items in the active list       *)
  holding       (* those whose CoLock returned, and who did not unlock   *)

mutexVars == <<m_iWaitItemCnt, cond, active, holding>>

In(c, s) == \E i \in DOMAIN s : s[i] = c

\* c is in CoLock: it waits until it is resumed.
Waiting(c) == In(c, cond) \/ In(c, active)

Init ==
  /\ m_iWaitItemCnt = 0
  /\ cond = <<>> /\ active = <<>>
  /\ holding = {}

\* Mutant: the queue is a stack.
co_cond_timedwait_first(c) == cond' = <<c>> \o cond

\* co_cond_timedwait with ms = -1: no timer, only the queue.
co_cond_timedwait(c) == cond' = Append(cond, c)

\* Mutant: those who wait are not counted.
CoLockUncounted(c) ==
  /\ ~Waiting(c) /\ c \notin holding
  /\ IF m_iWaitItemCnt > 0
     THEN co_cond_timedwait(c) /\ UNCHANGED <<holding, m_iWaitItemCnt>>
     ELSE /\ holding' = holding \cup {c}
          /\ m_iWaitItemCnt' = m_iWaitItemCnt + 1
          /\ UNCHANGED cond
  /\ UNCHANGED active

\* CoLock.  The lock is not recursive: its holder does not call CoLock.
CoLock(c) ==
  /\ ~Waiting(c) /\ c \notin holding
  /\ m_iWaitItemCnt' = m_iWaitItemCnt + 1
  /\ IF m_iWaitItemCnt > 0
     THEN co_cond_timedwait(c) /\ UNCHANGED holding
     ELSE holding' = holding \cup {c} /\ UNCHANGED cond
  /\ UNCHANGED active

\* Mutant: the waiter is not taken out of the queue.
co_cond_signal_peek ==
  /\ UNCHANGED cond
  /\ active' = IF cond = <<>> THEN active ELSE Append(active, Head(cond))

\* Mutant: the waiter is taken out and not put into the active list.
co_cond_signal_drop ==
  /\ cond' = IF cond = <<>> THEN cond ELSE Tail(cond)
  /\ UNCHANGED active

\* co_cond_signal.
co_cond_signal ==
  IF cond = <<>> THEN UNCHANGED <<cond, active>>
  ELSE /\ cond' = Tail(cond)
       /\ active' = Append(active, Head(cond))

\* CoUnLock, called by a holder.
CoUnLock(c) ==
  /\ c \in holding
  /\ holding' = holding \ {c}
  /\ m_iWaitItemCnt' = m_iWaitItemCnt - 1
  /\ co_cond_signal

\* The event loop resumes a coroutine that was signalled, and CoLock returns.
Wake ==
  /\ active # <<>>
  /\ active' = Tail(active)
  /\ holding' = holding \cup {Head(active)}
  /\ UNCHANGED <<m_iWaitItemCnt, cond>>

Next == Wake \/ \E c \in Co : CoLock(c) \/ CoUnLock(c)

\* The loop serves its active list, and whoever holds the lock releases it.
Fairness ==
  /\ WF_mutexVars(Wake)
  /\ \A c \in Co : WF_mutexVars(CoUnLock(c))

Spec == Init /\ [][Next]_mutexVars /\ Fairness

----------------------------------------------------------------------------
\* The type of the mutex: its count is never negative.
TypeOK ==
  /\ m_iWaitItemCnt \in Nat
  /\ cond \in Seq(Co) /\ active \in Seq(Co)
  /\ holding \subseteq Co

\* The lock has one owner: its holder, or the one that was signalled and has
\* not run yet; and nobody waits for a lock that is free.
OwnerInv ==
  \/ \E c \in Co : holding = {c} /\ active = <<>>
  \/ \E c \in Co : holding = {} /\ active = <<c>>
  \/ holding = {} /\ active = <<>> /\ cond = <<>>

\* m_iWaitItemCnt counts the owner and the queue.
CountInv ==
  m_iWaitItemCnt = Len(cond) + Len(active) + IF holding = {} THEN 0 ELSE 1

\* No coroutine waits twice, or waits for the lock that it owns.
QueueInv ==
  /\ \A i, j \in DOMAIN cond : cond[i] = cond[j] => i = j
  /\ \A c \in Co : In(c, cond) => c \notin holding /\ ~In(c, active)

\* The inductive invariant.
IInv == TypeOK /\ OwnerInv /\ CountInv /\ QueueInv

\* CoLock gives the lock to one coroutine at a time.
MutualExclusion == \A c, d \in holding : c = d

\* Whoever calls CoLock gets the lock.
EveryLockReturns == \A c \in Co : Waiting(c) ~> c \in holding

\* The owner, then those in the queue.
Asking ==
  (IF holding = {} THEN active ELSE <<CHOOSE c \in holding : TRUE>>) \o cond

Lock == INSTANCE FifoLock WITH queue <- Asking, granted <- holding # {}

\* The counter and the condition variable make a lock that is granted in the
\* order of the calls: a CoLock between a CoUnLock and the resumption of the
\* next coroutine does not overtake it.
ImplementsFifoLock == Lock!Spec
=============================================================================
