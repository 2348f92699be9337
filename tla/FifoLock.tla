------------------------------ MODULE FifoLock ------------------------------
(***************************************************************************)
(* What a mutex for coroutines promises: one holder at a time, and the     *)
(* lock goes to those who ask for it in the order in which they ask.       *)
(* CoMutex implements it with a counter and a condition variable.          *)
(***************************************************************************)
EXTENDS Sequences

CONSTANT Co

VARIABLES
  queue,      (* who asked for the lock and has not released it, in order *)
  granted     (* the head of the queue holds the lock                     *)

lockVars == <<queue, granted>>

Asks(c) == \E i \in DOMAIN queue : queue[i] = c

Init == queue = <<>> /\ granted = FALSE

\* A free lock is granted at once.
Request(c) ==
  /\ ~Asks(c)
  /\ queue' = Append(queue, c)
  /\ granted' = (granted \/ queue = <<>>)

Grant ==
  /\ queue # <<>> /\ ~granted
  /\ granted' = TRUE
  /\ UNCHANGED queue

Release ==
  /\ granted
  /\ queue' = Tail(queue)
  /\ granted' = FALSE

Next == Grant \/ Release \/ \E c \in Co : Request(c)

Spec == Init /\ [][Next]_lockVars /\ WF_lockVars(Grant)
=============================================================================
