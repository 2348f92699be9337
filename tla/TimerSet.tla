------------------------------ MODULE TimerSet ------------------------------
(***************************************************************************)
(* What the timers of a thread promise: a timer does not fire before its   *)
(* deadline, and each round of the event loop fires every timer that was   *)
(* due when the round looked at the clock.  Nothing is said of how timers  *)
(* are stored; CoTimeout keeps them in a time wheel.                       *)
(***************************************************************************)
EXTENDS Integers

CONSTANTS
  Timer,      (* the timers                                              *)
  NoTime      (* the deadline of a timer that is not armed               *)

VARIABLES
  deadline,   (* per timer: when it is due, or NoTime                    *)
  fired,      (* the timers that fired since they were last armed        *)
  seen        (* the clock as the current round saw it                   *)

timerVars == <<deadline, fired, seen>>

Armed(t) == deadline[t] # NoTime

Init ==
  /\ deadline = [t \in Timer |-> NoTime]
  /\ fired = {}
  /\ seen \in Nat

Arm(t) ==
  /\ ~Armed(t)
  /\ deadline'[t] # NoTime
  /\ deadline' = [deadline EXCEPT ![t] = deadline'[t]]
  /\ fired' = fired \ {t}
  /\ UNCHANGED seen

\* A timer is cancelled when what it guards happens: a signal or an event.
Cancel(t) ==
  /\ Armed(t)
  /\ deadline' = [deadline EXCEPT ![t] = NoTime]
  /\ UNCHANGED <<fired, seen>>

Fire(t) ==
  /\ Armed(t) /\ deadline[t] <= seen
  /\ deadline' = [deadline EXCEPT ![t] = NoTime]
  /\ fired' = fired \cup {t}
  /\ UNCHANGED seen

\* The next round starts when nothing that was due is left.
Look ==
  /\ \A t \in Timer : Armed(t) => deadline[t] > seen
  /\ UNCHANGED <<deadline, fired>>

Next == Look \/ \E t \in Timer : Arm(t) \/ Cancel(t) \/ Fire(t)

Spec == Init /\ [][Next]_timerVars
=============================================================================
