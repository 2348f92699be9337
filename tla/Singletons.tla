----------------------------- MODULE Singletons -----------------------------
(***************************************************************************)
(* TC_Singleton: the double-checked getInstance of several threads against *)
(* the end of the process, in which the main thread runs destroySingleton  *)
(* by atexit, without the mutex, while the others may go on.               *)
(***************************************************************************)
EXTENDS Naturals, FiniteSets

CONSTANTS
  Threads,               (* the threads of the process                     *)
  MainThread,            (* the one whose return from main ends it         *)
  MaxObjects             (* bound on the objects made                      *)

ASSUME SingletonAssumption ==
  MainThread \in Threads /\ "none" \notin Threads /\ MaxObjects \in Nat

VARIABLES
  lifetime,              (* the LifetimePolicy                             *)
  instance,              (* __pInstance: an object, or 0                   *)
  destroyed,             (* __destroyed                                    *)
  destroyedOnce,         (* _bDestroyedOnce of PhoneixLifetime             *)
  holder,                (* the thread that has the mutex, or "none"       *)
  step, sin,             (* where a thread is in getInstance, its local    *)
  exit,                  (* where exit() is                                *)
  handlers,              (* destroySingleton's in the list of atexit       *)
  made, alive,           (* the objects made, those not deleted            *)
  undisturbed            (* threads in a call that no destruction met      *)

singletonVars == <<lifetime, instance, destroyed, destroyedOnce, holder, step,
                   sin, exit, handlers, made, alive, undisturbed>>

SingletonInit ==
  /\ lifetime \in {"Default", "Phoneix", "NoDestroy"}
  /\ instance = 0 /\ destroyed = FALSE /\ destroyedOnce = FALSE
  /\ holder = "none"
  /\ step = [t \in Threads |-> "idle"] /\ sin = [t \in Threads |-> 0]
  /\ exit = "running" /\ handlers = 0
  /\ made = 0 /\ alive = {} /\ undisturbed = {}

\* exit() is between two functions, or not called yet: main may run code.
Live == exit \notin {"over", "aborted"}
Runs(t) == Live /\ (t = MainThread => exit \in {"running", "exiting"})

StepTo(t, from, to) ==
  /\ Runs(t) /\ step[t] = from
  /\ step' = [step EXCEPT ![t] = to]

Recalled(t) == sin' = [sin EXCEPT ![t] = instance]

\* The first load.
Load(t) ==
  /\ StepTo(t, "idle", IF instance = 0 THEN "wants" ELSE "returned")
  /\ Recalled(t)
  /\ undisturbed' =
       IF exit \in {"running", "exiting"}
       THEN undisturbed \cup {t} ELSE undisturbed \ {t}
  /\ UNCHANGED <<lifetime, instance, destroyed, destroyedOnce, holder, exit,
                 handlers, made, alive>>

\* Mutant: the instance is not loaded again under the mutex.
LockOnce(t) ==
  /\ holder = "none"
  /\ StepTo(t, "wants", "creates") /\ holder' = t
  /\ UNCHANGED sin

\* The mutex, and the second load.
LockAndLoad(t) ==
  /\ holder = "none"
  /\ StepTo(t, "wants", IF instance = 0 THEN "creates" ELSE "returned")
  /\ holder' = IF instance = 0 THEN t ELSE "none"
  /\ Recalled(t)

\* deadReference of DefaultLifetime throws, which lets go of the mutex.
Dead(t) ==
  /\ StepTo(t, "creates", "idle")
  /\ destroyed /\ lifetime = "Default"
  /\ holder' = "none"
  /\ UNCHANGED <<lifetime, instance, destroyed, destroyedOnce, sin, exit,
                 handlers, made, alive, undisturbed>>

Create(t) ==
  /\ StepTo(t, "creates", "stores")
  /\ ~(destroyed /\ lifetime = "Default")
  /\ made < MaxObjects
  /\ destroyedOnce' = (destroyedOnce \/ (destroyed /\ lifetime = "Phoneix"))
  /\ destroyed' = FALSE
  /\ made' = made + 1 /\ alive' = alive \cup {made'}
  /\ sin' = [sin EXCEPT ![t] = made']
  /\ UNCHANGED <<lifetime, instance, holder, exit, handlers, undisturbed>>

Store(t) ==
  /\ StepTo(t, "stores", "schedules")
  /\ instance' = sin[t]
  /\ UNCHANGED <<lifetime, destroyed, destroyedOnce, holder, sin, exit,
                 handlers, made, alive, undisturbed>>

Scheduled ==
  lifetime = "Default" \/ (lifetime = "Phoneix" /\ ~destroyedOnce)

Schedule(t) ==
  /\ StepTo(t, "schedules", "returned")
  /\ handlers' = IF Scheduled THEN handlers + 1 ELSE handlers
  /\ holder' = "none"
  /\ UNCHANGED <<lifetime, instance, destroyed, destroyedOnce, sin, exit,
                 made, alive, undisturbed>>

\* The caller is done with the instance.
Leave(t) ==
  /\ StepTo(t, "returned", "idle")
  /\ UNCHANGED <<lifetime, instance, destroyed, destroyedOnce, holder, sin,
                 exit, handlers, made, alive, undisturbed>>

getInstance(t) ==
  \/ Load(t) \/ Dead(t) \/ Create(t) \/ Store(t) \/ Schedule(t) \/ Leave(t)
  \/ /\ LockAndLoad(t)
     /\ UNCHANGED <<lifetime, instance, destroyed, destroyedOnce, exit,
                    handlers, made, alive, undisturbed>>
-----------------------------------------------------------------------------
\* main returns, or calls exit.
Exit ==
  /\ exit = "running" /\ step[MainThread] = "idle"
  /\ exit' = "exiting"
  /\ UNCHANGED <<lifetime, instance, destroyed, destroyedOnce, holder, step,
                 sin, handlers, made, alive, undisturbed>>

\* destroySingleton: the assertion of a debug build, then the destructor.
Destroy ==
  /\ exit = "exiting" /\ step[MainThread] = "idle" /\ handlers > 0
  /\ handlers' = handlers - 1
  /\ \/ destroyed /\ exit' = "aborted" /\ UNCHANGED <<alive, undisturbed>>
     \/ /\ exit' = "deleted"
        /\ alive' = alive \ {instance}
        /\ undisturbed' = {}
  /\ UNCHANGED <<lifetime, instance, destroyed, destroyedOnce, holder, step,
                 sin, made>>

Clear ==
  /\ exit = "deleted" /\ exit' = "cleared"
  /\ instance' = 0
  /\ UNCHANGED <<lifetime, destroyed, destroyedOnce, holder, step, sin,
                 handlers, made, alive, undisturbed>>

Mark ==
  /\ exit = "cleared" /\ exit' = "exiting"
  /\ destroyed' = TRUE
  /\ UNCHANGED <<lifetime, instance, destroyedOnce, holder, step, sin,
                 handlers, made, alive, undisturbed>>

End ==
  /\ exit = "exiting" /\ step[MainThread] = "idle" /\ handlers = 0
  /\ exit' = "over"
  /\ UNCHANGED <<lifetime, instance, destroyed, destroyedOnce, holder, step,
                 sin, handlers, made, alive, undisturbed>>

SingletonNext ==
  \/ \E t \in Threads : getInstance(t)
  \/ Exit \/ Destroy \/ Clear \/ Mark \/ End

SingletonSpec == SingletonInit /\ [][SingletonNext]_singletonVars
-----------------------------------------------------------------------------
\* singleton.h:20: whatever the threads and the end of the process do, there
\* is one object at most at a time, and a call that no destruction met,
\* before it or while its caller uses the instance, returns that one.  (A
\* thread that goes on during exit() may be given a deleted object.)
OneInstance ==
  /\ Cardinality(alive) <= 1
  /\ \A t \in undisturbed : step[t] = "returned" => sin[t] \in alive
=============================================================================
