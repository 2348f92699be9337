------------------------------ MODULE AppLock -------------------------------
(***************************************************************************)
(* enter_app_singleton of several processes: the lock file is opened and   *)
(* truncated before the lock is tried, the pid is written under the lock,  *)
(* and a process that ends, at any step, lets go of it.                    *)
(***************************************************************************)
EXTENDS Naturals, FiniteSets

CONSTANTS
  Processes              (* the processes, and their pids                  *)

ASSUME AppLockAssumption == {"absent", "empty", "none"} \cap Processes = {}

VARIABLES
  lockable,              (* the file system has locks (else ENOLCK)        *)
  pidFile,               (* what app.pid holds: a pid, "empty", "absent"   *)
  lockedBy,              (* the process with the write lock, or "none"     *)
  appStep                (* where a process is                             *)

appVars == <<lockable, pidFile, lockedBy, appStep>>

AppInit ==
  /\ lockable \in BOOLEAN
  /\ pidFile \in {"absent", "empty"} /\ lockedBy = "none"
  /\ appStep = [p \in Processes |-> "off"]

AppAt(p, from, to) ==
  /\ appStep[p] = from
  /\ appStep' = [appStep EXCEPT ![p] = to]

\* open with O_TRUNC, of a file that exists.
Truncating == pidFile' = IF pidFile = "absent" THEN "absent" ELSE "empty"

Open(p) ==
  /\ AppAt(p, "off", IF pidFile = "absent" THEN "creating" ELSE "opened")
  /\ Truncating
  /\ UNCHANGED <<lockable, lockedBy>>

Creat(p) ==
  /\ \/ AppAt(p, "creating", "opened") /\ pidFile' = "empty"
     \/ AppAt(p, "creating", "reopening") /\ UNCHANGED pidFile
  /\ UNCHANGED <<lockable, lockedBy>>

\* The file may be there by now; if not, the process exits.
Reopen(p) ==
  /\ AppAt(p, "reopening", IF pidFile = "absent" THEN "off" ELSE "opened")
  /\ Truncating
  /\ UNCHANGED <<lockable, lockedBy>>

\* Mutant: any error of the lock is passed over, as errors other than EACCES
\* and EAGAIN are.
MayEnterAnyway(p) == TRUE

MayEnter(p) == lockable => lockedBy \in {"none", p}

\* fcntl(F_SETLK): the process exits if another one has the lock, and goes
\* on without a lock where there are none.
SetLk(p) ==
  /\ AppAt(p, "opened", IF MayEnter(p) THEN "locked" ELSE "off")
  /\ lockedBy' = IF lockable /\ lockedBy = "none" THEN p ELSE lockedBy
  /\ UNCHANGED <<lockable, pidFile>>

Ftruncate(p) ==
  /\ AppAt(p, "locked", "writes")
  /\ pidFile' = "empty"
  /\ UNCHANGED <<lockable, lockedBy>>

\* The process exits if the write fails.
Unlocks(p) == lockedBy' = IF lockedBy = p THEN "none" ELSE lockedBy

WritePid(p) ==
  /\ \/ AppAt(p, "writes", "entered") /\ pidFile' = p /\ UNCHANGED lockedBy
     \/ AppAt(p, "writes", "off") /\ Unlocks(p) /\ UNCHANGED pidFile
  /\ UNCHANGED lockable

\* A process ends, is killed, or crashes.
Die(p) ==
  /\ appStep[p] # "off"
  /\ appStep' = [appStep EXCEPT ![p] = "off"]
  /\ Unlocks(p)
  /\ UNCHANGED <<lockable, pidFile>>

AppNext ==
  \E p \in Processes :
    Open(p) \/ Creat(p) \/ Reopen(p) \/ SetLk(p) \/ Ftruncate(p) \/ WritePid(p)
      \/ Die(p)

AppSpec == AppInit /\ [][AppNext]_appVars
-----------------------------------------------------------------------------
\* app_singleton.cpp:35: where the file system has locks, one process at most
\* has entered, at whatever steps the others are or die, and the file never
\* names another: it holds the pid of the one that entered, or nothing once
\* a second one has tried.
OneProcess ==
  lockable =>
    /\ Cardinality({p \in Processes : appStep[p] = "entered"}) <= 1
    /\ \A p \in Processes : appStep[p] = "entered" => pidFile \in {"empty", p}
=============================================================================
