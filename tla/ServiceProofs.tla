--------------------------- MODULE ServiceProofs ----------------------------
(***************************************************************************)
(* Theorems about components that share no state with another: the lock of *)
(* a process, singletons, the callbacks of signals, the answers of the     *)
(* resolver, the arena, epoll on kqueue, the environment of coroutines, a  *)
(* clock time that is asked for day after day, the flags of a file, and    *)
(* the lists of timer and condition items.                                 *)
(***************************************************************************)
EXTENDS AppLock, Singletons, Signals, HostByName, Arena, KqueueEpoll, SysEnv,
        DailyClock, Flags, DList, SequenceLemmas, SequenceTheorems,
        FiniteSetTheorems

\* A set with no two different elements has one at most.
LEMMA AtMostOne ==
  ASSUME NEW S, NEW x, S \subseteq {x}
  PROVE  Cardinality(S) <= 1
<1>1. IsFiniteSet({x}) /\ Cardinality({x}) = 1
  BY FS_Singleton
<1> QED  BY <1>1, FS_Subset
-----------------------------------------------------------------------------
\* The lock of a process.  Whoever is past the lock has it, where the file
\* system has locks, and the file holds the pid of no process but the one
\* that entered.
AppInv ==
  /\ lockable \in BOOLEAN
  /\ appStep \in [Processes -> {"off", "creating", "opened", "reopening",
                                "locked", "writes", "entered"}]
  /\ lockable => \A p \in Processes :
       /\ appStep[p] \in {"locked", "writes", "entered"} => lockedBy = p
       /\ appStep[p] = "entered" => pidFile \in {"empty", p}

\* Every step of a process keeps the invariant.
LEMMA AppStep ==
  ASSUME AppInv, [AppNext]_appVars
  PROVE  AppInv'
<1> USE AppLockAssumption DEF AppInv
<1>1. ASSUME NEW p \in Processes,
             Open(p) \/ Creat(p) \/ Reopen(p) \/ SetLk(p) \/ Ftruncate(p)
               \/ WritePid(p) \/ Die(p)
      PROVE  AppInv'
  <2>1. /\ lockable' = lockable
        /\ appStep' \in [Processes -> {"off", "creating", "opened", "reopening",
                                       "locked", "writes", "entered"}]
        /\ \A q \in Processes \ {p} : appStep'[q] = appStep[q]
    BY <1>1 DEF Open, Creat, Reopen, SetLk, Ftruncate, WritePid, Die, AppAt
  <2>2. CASE Open(p) \/ Creat(p) \/ Reopen(p)
    BY <2>1, <2>2 DEF Open, Creat, Reopen, AppAt, Truncating
  <2>3. CASE SetLk(p)
    BY <2>1, <2>3 DEF SetLk, AppAt, MayEnter
  <2>4. CASE Ftruncate(p)
    BY <2>1, <2>4 DEF Ftruncate, AppAt
  <2>5. CASE WritePid(p) \/ Die(p)
    BY <2>1, <2>5 DEF WritePid, Die, AppAt, Unlocks
  <2> QED  BY <1>1, <2>2, <2>3, <2>4, <2>5
<1>2. CASE UNCHANGED appVars
  BY <1>2 DEF appVars
<1> QED  BY <1>1, <1>2 DEF AppNext

\* Where the file system has locks, one process at most has entered, and the
\* file names no other, for any number of processes.
THEOREM OneProcessEnters == AppSpec => []OneProcess
<1>1. AppInit => AppInv
  BY DEF AppInit, AppInv
<1>2. AppInv /\ [AppNext]_appVars => AppInv'
  BY AppStep
<1>3. AppInv => OneProcess
  <2> SUFFICES ASSUME AppInv, lockable PROVE OneProcess
    BY DEF OneProcess
  <2> DEFINE E == {p \in Processes : appStep[p] = "entered"}
  <2>1. E \subseteq {lockedBy}
    BY DEF AppInv
  <2> HIDE DEF E
  <2>2. Cardinality(E) <= 1
    BY <2>1, AtMostOne
  <2> QED  BY <2>2 DEF AppInv, OneProcess, E
<1> QED  BY <1>1, <1>2, <1>3, PTL DEF AppSpec
-----------------------------------------------------------------------------
\* Singletons.  A thread that makes the object has the mutex, and while it
\* does no function of atexit is left that could delete one; else the object
\* in use is the instance, but while it is deleted and not cleared yet.
Making(t) == step[t] \in {"creates", "stores", "schedules"}

SingletonInv ==
  /\ instance \in Nat /\ made \in Nat /\ handlers \in {0, 1}
  /\ step \in [Threads -> {"idle", "wants", "creates", "stores", "schedules",
                           "returned"}]
  /\ sin \in [Threads -> Nat] /\ undisturbed \subseteq Threads
  /\ \A t \in Threads :
       /\ Making(t) => holder = t /\ handlers = 0 /\ exit # "deleted"
       /\ step[t] = "creates" => instance = 0 /\ alive = {}
       /\ step[t] = "stores" => instance = 0 /\ alive = {sin[t]} /\ sin[t] # 0
       /\ step[t] = "schedules" => instance = sin[t] /\ sin[t] # 0
       /\ t \in undisturbed /\ step[t] = "returned" => sin[t] \in alive
  /\ (\A t \in Threads : step[t] # "stores") =>
       alive = IF instance = 0 \/ exit = "deleted" THEN {} ELSE {instance}
  /\ handlers = 1 => instance # 0 /\ exit # "deleted"
  /\ exit = "deleted" => instance # 0 /\ undisturbed = {}

\* Every step of getInstance keeps the invariant.
LEMMA GetInstanceStep ==
  ASSUME SingletonInv, NEW t \in Threads, getInstance(t)
  PROVE  SingletonInv'
<1> USE SingletonAssumption DEF SingletonInv, Making
<1>1. CASE Load(t)
  BY <1>1 DEF Load, StepTo, Recalled
<1>2. CASE /\ LockAndLoad(t)
           /\ UNCHANGED <<lifetime, instance, destroyed, destroyedOnce, exit,
                          handlers, made, alive, undisturbed>>
  BY <1>2 DEF LockAndLoad, StepTo, Recalled
<1>3. CASE Dead(t)
  BY <1>3 DEF Dead, StepTo
<1>4. CASE Create(t)
  BY <1>4 DEF Create, StepTo
<1>5. CASE Store(t)
  BY <1>5 DEF Store, StepTo
<1>6. CASE Schedule(t)
  BY <1>6 DEF Schedule, StepTo
<1>7. CASE Leave(t)
  BY <1>7 DEF Leave, StepTo
<1> QED  BY <1>1, <1>2, <1>3, <1>4, <1>5, <1>6, <1>7 DEF getInstance

\* So does every step of the end of the process.
LEMMA ExitStep ==
  ASSUME SingletonInv, Exit \/ Destroy \/ Clear \/ Mark \/ End
  PROVE  SingletonInv'
<1> USE SingletonAssumption DEF SingletonInv, Making
<1>1. CASE Exit \/ Mark \/ End
  BY <1>1 DEF Exit, Mark, End
<1>2. CASE Destroy
  BY <1>2 DEF Destroy
<1>3. CASE Clear
  BY <1>3 DEF Clear
<1> QED  BY <1>1, <1>2, <1>3

\* There is one object at most at a time, and a call that no destruction met
\* returns that one, for any number of threads and either lifetime.
THEOREM OneInstanceAtATime == SingletonSpec => []OneInstance
<1>1. SingletonInit => SingletonInv
  BY DEF SingletonInit, SingletonInv, Making
<1>2. SingletonInv /\ [SingletonNext]_singletonVars => SingletonInv'
  <2>1. SingletonInv /\ UNCHANGED singletonVars => SingletonInv'
    BY DEF SingletonInv, Making, singletonVars
  <2> QED  BY <2>1, GetInstanceStep, ExitStep DEF SingletonNext
<1>3. SingletonInv => OneInstance
  <2> SUFFICES ASSUME SingletonInv PROVE OneInstance
    OBVIOUS
  <2>1. \E x : alive \subseteq {x}
    BY DEF SingletonInv
  <2>2. Cardinality(alive) <= 1
    BY <2>1, AtMostOne
  <2> QED  BY <2>2 DEF SingletonInv, OneInstance
<1> QED  BY <1>1, <1>2, <1>3, PTL DEF SingletonSpec
-----------------------------------------------------------------------------
\* The callbacks of signals.  One frame at most is past the mutex, of the
\* thread that owns it, and a handler there goes through the callbacks as
\* they are.
SigFrame ==
  [kind : {"register", "handle"}, sig : SigNos, f : Callbacks \cup {"none"},
   at : {"enter", "locked", "store", "callback"}, next : Nat,
   loop : Seq(Callbacks \cup {"none"})]

Entered(t, n) == sigFrames[t][n].at # "enter"

SigInv ==
  /\ callbacks \in [SigNos -> Seq(Callbacks \cup {"none"})]
  /\ sigFrames \in [SigThreads -> Seq(SigFrame)]
  /\ \A s \in SigNos : callbacks[s] # <<>> => s \in installing \cup installed
  /\ \A t \in SigThreads : \A n \in 1..Len(sigFrames[t]) :
       Entered(t, n) =>
         /\ sigOwner = t
         /\ \A m \in 1..Len(sigFrames[t]) : Entered(t, m) => m = n
         /\ sigFrames[t][n].at = "store" =>
              sigFrames[t][n].sig \in installing \cup installed
         /\ sigFrames[t][n].kind = "handle" =>
              sigFrames[t][n].loop = callbacks[sigFrames[t][n].sig]

\* A thread that is called, or interrupted, has one more frame on top.
LEMMA PushIs ==
  ASSUME SigInv, NEW t \in SigThreads, NEW frame \in SigFrame,
         PushFrame(t, frame)
  PROVE  /\ sigFrames' \in [SigThreads -> Seq(SigFrame)]
         /\ \A u \in SigThreads \ {t} : sigFrames'[u] = sigFrames[u]
         /\ Len(sigFrames'[t]) = Len(sigFrames[t]) + 1
         /\ sigFrames'[t][Len(sigFrames[t]) + 1] = frame
         /\ \A n \in 1..Len(sigFrames[t]) :
              sigFrames'[t][n] = sigFrames[t][n]
<1> DEFINE q == sigFrames[t]
<1>1. q \in Seq(SigFrame)
  BY DEF SigInv
<1>2. sigFrames' = [sigFrames EXCEPT ![t] = Append(q, frame)]
  BY DEF PushFrame
<1>3. sigFrames'[t] = Append(q, frame) /\ Append(q, frame) \in Seq(SigFrame)
  BY <1>1, <1>2 DEF SigInv
<1>4. /\ Len(Append(q, frame)) = Len(q) + 1
      /\ Append(q, frame)[Len(q) + 1] = frame
      /\ \A n \in 1..Len(q) : Append(q, frame)[n] = q[n]
  BY <1>1
<1>5. sigFrames' \in [SigThreads -> Seq(SigFrame)]
  BY <1>2, <1>3 DEF SigInv
<1> QED  BY <1>2, <1>3, <1>4, <1>5 DEF SigInv

\* A thread whose innermost frame goes on, or returns: the frames below stay.
LEMMA SetTopIs ==
  ASSUME SigInv, NEW t \in SigThreads, sigFrames[t] # <<>>,
         NEW frame \in SigFrame, SetTop(t, frame)
  PROVE  /\ sigFrames' \in [SigThreads -> Seq(SigFrame)]
         /\ \A u \in SigThreads \ {t} : sigFrames'[u] = sigFrames[u]
         /\ Len(sigFrames'[t]) = Len(sigFrames[t])
         /\ sigFrames'[t][Len(sigFrames[t])] = frame
         /\ \A n \in 1..Len(sigFrames[t]) - 1 :
              sigFrames'[t][n] = sigFrames[t][n]
<1> DEFINE q == sigFrames[t]
           r == Front(q)
<1>1. q \in Seq(SigFrame) /\ q # <<>>
  BY DEF SigInv
<1>2. /\ r \in Seq(SigFrame) /\ Len(r) = Len(q) - 1
      /\ \A n \in 1..Len(q) - 1 : r[n] = q[n]
  BY <1>1, FrontIs
<1>3. sigFrames' = [sigFrames EXCEPT ![t] = Append(r, frame)]
  BY DEF SetTop
<1> HIDE DEF r
<1>4. /\ Append(r, frame) \in Seq(SigFrame)
      /\ Len(Append(r, frame)) = Len(q) /\ Append(r, frame)[Len(q)] = frame
      /\ \A n \in 1..Len(q) - 1 : Append(r, frame)[n] = q[n]
  BY <1>1, <1>2
<1> QED  BY <1>3, <1>4 DEF SigInv

\* PopFrame takes the topmost frame of one thread off and leaves the others.
LEMMA PopIs ==
  ASSUME SigInv, NEW t \in SigThreads, sigFrames[t] # <<>>, PopFrame(t)
  PROVE  /\ sigFrames' \in [SigThreads -> Seq(SigFrame)]
         /\ \A u \in SigThreads \ {t} : sigFrames'[u] = sigFrames[u]
         /\ Len(sigFrames'[t]) = Len(sigFrames[t]) - 1
         /\ \A n \in 1..Len(sigFrames[t]) - 1 :
              sigFrames'[t][n] = sigFrames[t][n]
<1> DEFINE q == sigFrames[t]
<1>1. q \in Seq(SigFrame) /\ q # <<>>
  BY DEF SigInv
<1>2. /\ Front(q) \in Seq(SigFrame) /\ Len(Front(q)) = Len(q) - 1
      /\ \A n \in 1..Len(q) - 1 : Front(q)[n] = q[n]
  BY <1>1, FrontIs
<1>3. sigFrames' = [sigFrames EXCEPT ![t] = Front(q)]
  BY DEF PopFrame
<1> QED  BY <1>2, <1>3 DEF SigInv

\* The innermost frame of a thread is the last.
LEMMA TopIs ==
  ASSUME SigInv, NEW t \in SigThreads, sigFrames[t] # <<>>
  PROVE  /\ Len(sigFrames[t]) \in Nat \ {0}
         /\ Top(t) = sigFrames[t][Len(sigFrames[t])] /\ Top(t) \in SigFrame
<1>1. sigFrames[t] \in Seq(SigFrame)
  BY DEF SigInv
<1> QED  BY <1>1 DEF Top, Last

\* A new frame waits for the mutex.
LEMMA NewFrame ==
  ASSUME SigInv, NEW t \in SigThreads, NEW frame \in SigFrame,
         frame.at = "enter", PushFrame(t, frame),
         UNCHANGED <<callbacks, installing, installed, sigOwner>>
  PROVE  SigInv'
<1>1. /\ sigFrames' \in [SigThreads -> Seq(SigFrame)]
      /\ \A u \in SigThreads \ {t} : sigFrames'[u] = sigFrames[u]
      /\ Len(sigFrames'[t]) = Len(sigFrames[t]) + 1
      /\ sigFrames'[t][Len(sigFrames[t]) + 1] = frame
      /\ \A n \in 1..Len(sigFrames[t]) : sigFrames'[t][n] = sigFrames[t][n]
  BY PushIs
<1>2. \A u \in SigThreads : \A n \in 1..Len(sigFrames'[u]) :
        Entered(u, n)' =>
          n \in 1..Len(sigFrames[u]) /\ sigFrames'[u][n] = sigFrames[u][n]
  <2> SUFFICES ASSUME NEW u \in SigThreads, NEW n \in 1..Len(sigFrames'[u]),
                      Entered(u, n)'
               PROVE  /\ n \in 1..Len(sigFrames[u])
                      /\ sigFrames'[u][n] = sigFrames[u][n]
    OBVIOUS
  <2>1. Len(sigFrames[t]) \in Nat
    BY DEF SigInv
  <2> QED  BY <1>1, <2>1 DEF Entered
<1>3. ASSUME NEW u \in SigThreads, NEW n \in 1..Len(sigFrames'[u]),
             Entered(u, n)'
      PROVE  /\ sigOwner' = u
             /\ \A m \in 1..Len(sigFrames'[u]) : Entered(u, m)' => m = n
             /\ sigFrames'[u][n].at = "store" =>
                  sigFrames'[u][n].sig \in installing' \cup installed'
             /\ sigFrames'[u][n].kind = "handle" =>
                  sigFrames'[u][n].loop = callbacks'[sigFrames'[u][n].sig]
  <2>1. /\ n \in 1..Len(sigFrames[u]) /\ Entered(u, n)
        /\ sigFrames'[u][n] = sigFrames[u][n]
    BY <1>2, <1>3 DEF Entered
  <2>2. \A m \in 1..Len(sigFrames'[u]) :
          Entered(u, m)' => m \in 1..Len(sigFrames[u]) /\ Entered(u, m)
    BY <1>2 DEF Entered
  <2> QED  BY <2>1, <2>2 DEF SigInv
<1> QED  BY <1>1, <1>3 DEF SigInv

\* The thread that takes the mutex is the only one past it.
LEMMA LockSigStep ==
  ASSUME SigInv, NEW t \in SigThreads, LockSig(t)
  PROVE  SigInv'
<1> DEFINE n0 == Len(sigFrames[t])
           frame == [Top(t) EXCEPT !.at = "locked",
                       !.loop = IF Top(t).kind = "handle"
                                THEN callbacks[Top(t).sig] ELSE <<>>]
<1>1. /\ n0 \in Nat \ {0} /\ Top(t) = sigFrames[t][n0] /\ Top(t) \in SigFrame
      /\ sigFrames[t] # <<>>
  BY TopIs DEF LockSig, Running
<1>2. frame \in SigFrame /\ frame.sig = Top(t).sig /\ frame.at = "locked"
      /\ frame.kind = Top(t).kind
      /\ (frame.kind = "handle" => frame.loop = callbacks[frame.sig])
  <2> DEFINE loop == IF Top(t).kind = "handle"
                     THEN callbacks[Top(t).sig] ELSE <<>>
  <2>1. <<>> \in Seq(Callbacks \cup {"none"})
    OBVIOUS
  <2>2. loop \in Seq(Callbacks \cup {"none"})
    BY <1>1, <2>1 DEF SigFrame, SigInv
  <2>3. frame = [Top(t) EXCEPT !.at = "locked", !.loop = loop]
    OBVIOUS
  <2> HIDE DEF loop, frame
  <2>4. /\ frame \in SigFrame /\ frame.sig = Top(t).sig
        /\ frame.at = "locked" /\ frame.kind = Top(t).kind
        /\ frame.loop = loop
    BY <1>1, <2>2, <2>3 DEF SigFrame
  <2> QED  BY <2>4 DEF loop
<1>3. /\ sigFrames' \in [SigThreads -> Seq(SigFrame)]
      /\ \A u \in SigThreads \ {t} : sigFrames'[u] = sigFrames[u]
      /\ Len(sigFrames'[t]) = n0 /\ sigFrames'[t][n0] = frame
      /\ \A n \in 1..n0 - 1 : sigFrames'[t][n] = sigFrames[t][n]
  BY <1>1, <1>2, SetTopIs DEF LockSig
<1>4. \A u \in SigThreads : \A n \in 1..Len(sigFrames[u]) : ~Entered(u, n)
  BY SignalAssumption DEF LockSig, FreeFor, SigInv
<1> HIDE DEF frame, n0
<1>5. ASSUME NEW u \in SigThreads, NEW n \in 1..Len(sigFrames'[u]),
             Entered(u, n)'
      PROVE  u = t /\ n = n0
  <2>1. CASE u # t
    BY <1>3, <1>4, <1>5, <2>1 DEF Entered
  <2>2. CASE u = t
    <3>1. n \in 1..n0 - 1 => FALSE
      BY <1>3, <1>4, <1>5, <2>2 DEF Entered, n0
    <3> QED  BY <1>1, <1>3, <2>2, <3>1
  <2> QED  BY <2>1, <2>2
<1>6. sigOwner' = t /\ UNCHANGED <<callbacks, installing, installed>>
  BY DEF LockSig
<1> QED  BY <1>2, <1>3, <1>5, <1>6 DEF SigInv

\* A frame that goes on past the mutex, and stays there.
LEMMA GoesOn ==
  ASSUME SigInv, NEW t \in SigThreads, sigFrames[t] # <<>>,
         Top(t).at # "enter", NEW frame \in SigFrame, SetTop(t, frame),
         frame.at # "enter", frame.sig = Top(t).sig,
         frame.kind = Top(t).kind, frame.loop = Top(t).loop,
         installing \cup installed \subseteq installing' \cup installed',
         frame.at = "store" => frame.sig \in installing' \cup installed',
         UNCHANGED <<callbacks, sigOwner>>
  PROVE  SigInv'
<1> DEFINE n0 == Len(sigFrames[t])
<1>1. n0 \in Nat \ {0} /\ Top(t) = sigFrames[t][n0] /\ Top(t) \in SigFrame
  BY TopIs
<1>2. /\ sigFrames' \in [SigThreads -> Seq(SigFrame)]
      /\ \A u \in SigThreads \ {t} : sigFrames'[u] = sigFrames[u]
      /\ Len(sigFrames'[t]) = n0 /\ sigFrames'[t][n0] = frame
      /\ \A n \in 1..n0 - 1 : sigFrames'[t][n] = sigFrames[t][n]
  BY SetTopIs
<1>3. Entered(t, n0) /\ n0 \in 1..Len(sigFrames[t])
  BY <1>1 DEF Entered
<1>4. /\ sigOwner = t
      /\ \A n \in 1..n0 : Entered(t, n) => n = n0
      /\ frame.kind = "handle" => frame.loop = callbacks[frame.sig]
  BY <1>1, <1>3 DEF SigInv
<1>5. \A u \in SigThreads \ {t} : \A n \in 1..Len(sigFrames[u]) :
        ~Entered(u, n)
  BY <1>4 DEF SigInv
<1> HIDE DEF n0
<1>6. ASSUME NEW u \in SigThreads, NEW n \in 1..Len(sigFrames'[u]),
             Entered(u, n)'
      PROVE  u = t /\ n = n0
  <2>1. CASE u # t
    BY <1>2, <1>5, <1>6, <2>1 DEF Entered
  <2>2. CASE u = t
    <3>1. n \in 1..n0 - 1 => FALSE
      BY <1>1, <1>2, <1>4, <1>6, <2>2 DEF Entered
    <3> QED  BY <1>1, <1>2, <2>2, <3>1
  <2> QED  BY <2>1, <2>2
<1>7. \A s \in SigNos : callbacks[s] # <<>> => s \in installing' \cup installed'
  BY DEF SigInv
<1>8. callbacks' \in [SigNos -> Seq(Callbacks \cup {"none"})]
  BY DEF SigInv
<1>9. ASSUME NEW u \in SigThreads, NEW n \in 1..Len(sigFrames'[u]),
             Entered(u, n)'
      PROVE  /\ sigOwner' = u
             /\ \A m \in 1..Len(sigFrames'[u]) : Entered(u, m)' => m = n
             /\ sigFrames'[u][n].at = "store" =>
                  sigFrames'[u][n].sig \in installing' \cup installed'
             /\ sigFrames'[u][n].kind = "handle" =>
                  sigFrames'[u][n].loop = callbacks'[sigFrames'[u][n].sig]
  <2>1. u = t /\ n = n0
    BY <1>6, <1>9
  <2>2. \A m \in 1..Len(sigFrames'[u]) : Entered(u, m)' => m = n
    BY <1>6, <2>1
  <2> QED  BY <1>2, <1>4, <2>1, <2>2
<1> QED  BY <1>2, <1>7, <1>8, <1>9 DEF SigInv

\* A frame that returns leaves no frame past the mutex.
LEMMA Returns ==
  ASSUME SigInv, NEW t \in SigThreads, sigFrames[t] # <<>>,
         Top(t).at # "enter", PopFrame(t),
         callbacks' \in [SigNos -> Seq(Callbacks \cup {"none"})],
         \A s \in SigNos : callbacks'[s] # <<>> =>
                             s \in installing' \cup installed'
  PROVE  SigInv'
<1> DEFINE n0 == Len(sigFrames[t])
<1>1. n0 \in Nat \ {0} /\ Top(t) = sigFrames[t][n0] /\ Top(t) \in SigFrame
  BY TopIs
<1>2. /\ sigFrames' \in [SigThreads -> Seq(SigFrame)]
      /\ \A u \in SigThreads \ {t} : sigFrames'[u] = sigFrames[u]
      /\ Len(sigFrames'[t]) = n0 - 1
      /\ \A n \in 1..n0 - 1 : sigFrames'[t][n] = sigFrames[t][n]
  BY PopIs
<1>3. Entered(t, n0) /\ n0 \in 1..Len(sigFrames[t])
  BY <1>1 DEF Entered
<1>4. sigOwner = t /\ \A n \in 1..n0 : Entered(t, n) => n = n0
  BY <1>1, <1>3 DEF SigInv
<1>5. \A u \in SigThreads \ {t} : \A n \in 1..Len(sigFrames[u]) :
        ~Entered(u, n)
  BY <1>4 DEF SigInv
<1> HIDE DEF n0
<1>6. \A u \in SigThreads : \A n \in 1..Len(sigFrames'[u]) : ~Entered(u, n)'
  <2> SUFFICES ASSUME NEW u \in SigThreads, NEW n \in 1..Len(sigFrames'[u]),
                      Entered(u, n)'
               PROVE  FALSE
    OBVIOUS
  <2>1. CASE u # t
    BY <1>2, <1>5, <2>1 DEF Entered
  <2>2. CASE u = t
    <3>1. n \in 1..n0 - 1 /\ sigFrames[t][n].at # "enter"
      BY <1>2, <2>2 DEF Entered
    <3>2. n \in 1..n0 /\ n # n0
      BY <1>1, <3>1
    <3> QED  BY <1>4, <3>1, <3>2 DEF Entered
  <2> QED  BY <2>1, <2>2
<1> QED  BY <1>2, <1>6 DEF SigInv
\* Every step of the threads keeps the invariant.
LEMMA SigStep ==
  ASSUME SigInv, [SigNext]_sigVars
  PROVE  SigInv'
<1>1. ASSUME NEW t \in SigThreads, NEW sig \in SigNos, NEW f \in Callbacks,
             CallRegister(t, sig, f)
      PROVE  SigInv'
  <2>1. /\ CallFrame("register", sig, f) \in SigFrame
        /\ CallFrame("register", sig, f).at = "enter"
    BY DEF CallFrame, SigFrame
  <2> QED  BY <1>1, <2>1, NewFrame DEF CallRegister
<1>2. ASSUME NEW t \in SigThreads, NEW sig \in SigNos, Deliver(t, sig)
      PROVE  SigInv'
  <2>1. /\ CallFrame("handle", sig, "none") \in SigFrame
        /\ CallFrame("handle", sig, "none").at = "enter"
    BY DEF CallFrame, SigFrame
  <2>2. CASE sig \in installed
    BY <1>2, <2>1, <2>2, NewFrame DEF Deliver
  <2>3. CASE sig \notin installed
    BY <1>2, <2>3 DEF Deliver, SigInv, Entered
  <2> QED  BY <2>2, <2>3
<1>3. ASSUME NEW t \in SigThreads, StartInstall(t)
      PROVE  SigInv'
  <2>1. sigFrames[t] # <<>> /\ Top(t).at = "locked" /\ Top(t) \in SigFrame
    BY <1>3, TopIs DEF StartInstall, Running
  <2>2. CASE /\ installing' = installing \cup {Top(t).sig}
             /\ SetTop(t, [Top(t) EXCEPT !.at = "store"])
             /\ UNCHANGED sigOwner
    <3> DEFINE frame == [Top(t) EXCEPT !.at = "store"]
    <3>1. /\ frame \in SigFrame /\ frame.at = "store"
          /\ frame.sig = Top(t).sig /\ frame.kind = Top(t).kind
          /\ frame.loop = Top(t).loop
      BY <2>1 DEF SigFrame
    <3>2. SetTop(t, frame)
      BY <2>2
    <3> HIDE DEF frame
    <3>3. /\ installing \cup installed \subseteq installing' \cup installed'
          /\ frame.sig \in installing' \cup installed'
          /\ UNCHANGED <<callbacks, sigOwner>>
      BY <1>3, <2>2, <3>1 DEF StartInstall
    <3> QED  BY <2>1, <3>1, <3>2, <3>3, GoesOn
  <2>3. CASE PopFrame(t) /\ UNCHANGED installing
    BY <1>3, <2>1, <2>3, Returns DEF StartInstall, SigInv
  <2> QED  BY <1>3, <2>2, <2>3 DEF StartInstall
<1>4. ASSUME NEW t \in SigThreads, StoreCallback(t)
      PROVE  SigInv'
  <2> DEFINE n0 == Len(sigFrames[t])
  <2>1. /\ sigFrames[t] # <<>> /\ Top(t).at \in {"locked", "store"}
        /\ Top(t) \in SigFrame /\ Top(t) = sigFrames[t][n0] /\ n0 \in 1..n0
    BY <1>4, TopIs DEF StoreCallback, MayStore, Running
  <2>2. Top(t).sig \in installing \cup installed
    <3>1. CASE Running(t, "register", "store")
      BY <2>1, <3>1 DEF SigInv, Entered, Running
    <3>2. CASE callbacks[Top(t).sig] # <<>>
      BY <2>1, <3>2 DEF SigInv, SigFrame
    <3> QED  BY <1>4, <3>1, <3>2 DEF StoreCallback, MayStore
  <2>3. /\ Top(t).sig \in SigNos /\ Top(t).f \in Callbacks \cup {"none"}
        /\ callbacks' = [callbacks EXCEPT
                           ![Top(t).sig] = Append(@, Top(t).f)]
        /\ installing' \cup installed' = installing \cup installed
    BY <1>4, <2>1 DEF StoreCallback, SigFrame
  <2>4. callbacks' \in [SigNos -> Seq(Callbacks \cup {"none"})]
    BY <2>3 DEF SigInv
  <2>5. \A s \in SigNos : callbacks'[s] # <<>> =>
                            s \in installing' \cup installed'
    BY <2>2, <2>3 DEF SigInv
  <2>6. PopFrame(t)
    BY <1>4 DEF StoreCallback
  <2> QED  BY <2>1, <2>4, <2>5, <2>6, Returns
<1>5. ASSUME NEW sig \in SigNos, Install(sig)
      PROVE  SigInv'
  <2>1. /\ UNCHANGED <<callbacks, sigOwner, sigFrames>>
        /\ installing' \cup installed' = installing \cup installed
    BY <1>5 DEF Install
  <2>2. \A t \in SigThreads : \A n \in 1..Len(sigFrames[t]) :
          Entered(t, n)' = Entered(t, n)
    BY <2>1 DEF Entered
  <2> QED  BY <2>1, <2>2 DEF SigInv
<1>6. ASSUME NEW t \in SigThreads, NextCallback(t)
      PROVE  SigInv'
  <2>1. /\ sigFrames[t] # <<>> /\ Top(t).at \in {"locked", "callback"}
        /\ Top(t) \in SigFrame
    BY <1>6, TopIs DEF NextCallback, Running
  <2>2. UNCHANGED <<callbacks, installing, installed>>
    BY <1>6 DEF NextCallback
  <2>3. CASE SetTop(t, [Top(t) EXCEPT !.at = "callback", !.next = @ + 1])
             /\ UNCHANGED sigOwner
    <3> DEFINE frame == [Top(t) EXCEPT !.at = "callback", !.next = @ + 1]
                next == Top(t).next + 1
    <3>0. next \in Nat /\ frame = [Top(t) EXCEPT !.at = "callback",
                                              !.next = next]
      BY <2>1 DEF SigFrame
    <3> HIDE DEF next, frame
    <3>1. /\ frame \in SigFrame /\ frame.at = "callback"
          /\ frame.sig = Top(t).sig /\ frame.kind = Top(t).kind
          /\ frame.loop = Top(t).loop
      BY <2>1, <3>0 DEF SigFrame
    <3>2. SetTop(t, frame)
      BY <2>3 DEF frame, next
    <3> QED  BY <2>1, <2>2, <2>3, <3>1, <3>2, GoesOn
  <2>4. CASE PopFrame(t)
    BY <2>1, <2>2, <2>4, Returns DEF SigInv
  <2> QED  BY <1>6, <2>3, <2>4 DEF NextCallback
<1>7. CASE UNCHANGED sigVars
  BY <1>7 DEF sigVars, SigInv, Entered
<1> QED
  <2>1. ASSUME NEW t \in SigThreads, LockSig(t) PROVE SigInv'
    BY <2>1, LockSigStep
  <2> QED  BY <1>1, <1>2, <1>3, <1>4, <1>5, <1>6, <1>7, <2>1 DEF SigNext

\* A signal with callbacks has its handler or a thread about to install it,
\* and no handler's loop meets callbacks other than those it began with, for
\* any number of threads, signals and nested handlers.
THEOREM CallbacksAreStable == SigSpec => []CallbacksStable
<1>1. SigInit => SigInv
  <2> SUFFICES ASSUME SigInit PROVE SigInv
    OBVIOUS
  <2>1. /\ <<>> \in Seq(Callbacks \cup {"none"}) /\ <<>> \in Seq(SigFrame)
        /\ \A t \in SigThreads : Len(sigFrames[t]) = 0
    BY DEF SigInit
  <2> QED  BY <2>1 DEF SigInit, SigInv
<1>2. SigInv /\ [SigNext]_sigVars => SigInv'
  BY SigStep
<1>3. SigInv => CallbacksStable
  <2> SUFFICES ASSUME SigInv PROVE CallbacksStable
    OBVIOUS
  <2>1. \A t \in SigThreads : DOMAIN sigFrames[t] = 1..Len(sigFrames[t])
    BY DEF SigInv
  <2> QED  BY <2>1 DEF SigInv, CallbacksStable, Entered
<1> QED  BY <1>1, <1>2, <1>3, PTL DEF SigSpec
-----------------------------------------------------------------------------
\* The answers of the resolver.  The buffers of two coroutines are different
\* live buffers, a coroutine in a call has one, and the one of a coroutine
\* that was answered holds its answer.
HostInv ==
  /\ buffer \in [HostCo -> Buffers \cup {0}]
  /\ bufferSize \in [HostCo -> Nat]
  /\ heap \subseteq Buffers
  /\ memory \in [Buffers -> HostNames \cup {"garbage"}]
  /\ hostStep \in [HostCo -> {"idle", "asks", "returned"}]
  /\ asked \in [HostCo -> HostNames \cup {"garbage"}]
  /\ \A c \in HostCo :
       /\ buffer[c] # 0 => buffer[c] \in heap
       /\ buffer[c] = 0 => bufferSize[c] = 0 /\ hostStep[c] = "idle"
       /\ hostStep[c] = "returned" => memory[buffer[c]] = asked[c]
       /\ \A d \in HostCo : buffer[c] # 0 /\ buffer[d] = buffer[c] => d = c

\* A call that comes to the lock has a live buffer of its own.
LEMMA AskHostStep ==
  ASSUME HostInv, NEW c \in HostCo, NEW name \in HostNames, AskHost(c, name)
  PROVE  HostInv'
<1> USE HostAssumption DEF HostInv
<1>1. CASE Keeps(c)
  BY <1>1 DEF AskHost, Keeps
<1>2. CASE ~Keeps(c)
  <2> DEFINE rest == IF bufferSize[c] > 0 THEN heap \ {buffer[c]} ELSE heap
  <2>1. PICK b \in Buffers \ rest :
          /\ heap' = rest \cup {b}
          /\ buffer' = [buffer EXCEPT ![c] = b]
          /\ bufferSize' = [bufferSize EXCEPT ![c] = 0]
    BY <1>2 DEF AskHost
  <2>2. \A d \in HostCo \ {c} : buffer[d] # 0 => buffer[d] \in rest
    OBVIOUS
  <2>3. rest \subseteq Buffers /\ b # 0
    OBVIOUS
  <2>4. /\ hostStep' = [hostStep EXCEPT ![c] = "asks"]
        /\ asked' = [asked EXCEPT ![c] = name] /\ memory' = memory
    BY DEF AskHost
  <2> HIDE DEF rest
  <2> QED  BY <2>1, <2>2, <2>3, <2>4
<1> QED  BY <1>1, <1>2

\* Every step of a coroutine keeps the invariant.
LEMMA HostStep ==
  ASSUME HostInv, [HostNext]_hostVars
  PROVE  HostInv'
<1> USE HostAssumption DEF HostInv
<1>1. ASSUME NEW c \in HostCo, Grow(c)
      PROVE  HostInv'
  <2> DEFINE rest == heap \ {buffer[c]}
  <2>1. PICK b \in Buffers \ rest :
          /\ heap' = rest \cup {b} /\ buffer' = [buffer EXCEPT ![c] = b]
          /\ memory' = [memory EXCEPT ![b] = "garbage"]
    BY <1>1 DEF Grow
  <2>2. hostStep[c] = "asks" /\ buffer[c] # 0
    BY <1>1 DEF Grow, Resolving
  <2>3. \A d \in HostCo \ {c} : buffer[d] # 0 => buffer[d] \in rest
    BY <2>2
  <2>4. /\ bufferSize' = [bufferSize EXCEPT ![c] = @ + 1]
        /\ UNCHANGED <<hostStep, asked>>
    BY <1>1 DEF Grow
  <2> HIDE DEF rest
  <2>5. rest \subseteq Buffers /\ b # 0
    BY DEF rest
  <2> QED  BY <2>1, <2>2, <2>3, <2>4, <2>5
<1>2. ASSUME NEW c \in HostCo, Resolve(c)
      PROVE  HostInv'
  <2>1. hostStep[c] = "asks" /\ buffer[c] \in Buffers
    BY <1>2 DEF Resolve, Resolving
  <2>2. UNCHANGED <<buffer, bufferSize, heap>>
    BY <1>2 DEF Resolve
  <2>3. CASE /\ memory' = [memory EXCEPT ![buffer[c]] = asked[c]]
             /\ hostStep' = [hostStep EXCEPT ![c] = "returned"]
             /\ UNCHANGED asked
    BY <2>1, <2>2, <2>3
  <2>4. CASE memory' = [memory EXCEPT ![buffer[c]] = "garbage"] /\ Idle(c)
    BY <2>1, <2>2, <2>4 DEF Idle
  <2> QED  BY <1>2, <2>3, <2>4 DEF Resolve
<1>3. ASSUME NEW c \in HostCo, ResetCo(c) \/ ReleaseCo(c)
      PROVE  HostInv'
  BY <1>3 DEF ResetCo, ReleaseCo, Idle
<1>4. CASE UNCHANGED hostVars
  BY <1>4 DEF hostVars
<1> QED  BY <1>1, <1>2, <1>3, <1>4, AskHostStep DEF HostNext

\* A coroutine that was answered holds the answer for the name it asked for,
\* in a live buffer, for any number of coroutines, names and buffers.
THEOREM AnswersAreOwn == HostSpec => []AnswerIsOwn
<1>1. HostInit => HostInv
  BY DEF HostInit, HostInv
<1>2. HostInv /\ [HostNext]_hostVars => HostInv'
  BY HostStep
<1>3. HostInv => AnswerIsOwn
  BY DEF HostInv, AnswerIsOwn
<1> QED  BY <1>1, <1>2, <1>3, PTL DEF HostSpec
-----------------------------------------------------------------------------
\* Rounding up.
LEMMA AlignUp ==
  ASSUME NEW n \in Nat
  PROVE  /\ align_up(n) \in Nat /\ align_up(n) >= n
         /\ (align_up(n) % Align) = 0
         /\ n > 0 => align_up(n) > 0
<1> DEFINE q == (n + Align - 1) \div Align
           r == (n + Align - 1) % Align
<1>1. Align \in Nat \ {0}
  BY ArenaAssumption
<1>2. q \in Nat /\ r \in 0..(Align - 1) /\ n + Align - 1 = Align * q + r
  BY <1>1
<1>3. align_up(n) = q * Align
  BY DEF align_up
<1> HIDE DEF q, r
<1>4. q * Align = Align * q /\ q * Align \in Nat
  BY <1>1, <1>2
<1>5. q * Align >= n
  <2> DEFINE a == Align
             p == Align * q
  <2>1. a \in Nat \ {0} /\ p \in Nat /\ q * Align = p
    BY <1>1, <1>2, <1>4
  <2>2. r \in 0..(a - 1) /\ n + a - 1 = p + r
    BY <1>2
  <2> HIDE DEF a, p
  <2>3. p >= n
    BY <2>1, <2>2
  <2> QED  BY <2>1, <2>3
<1>6. ((q * Align) % Align) = 0
  <2> DEFINE a == Align
  <2>1. a \in Nat \ {0}
    BY <1>1
  <2> HIDE DEF a
  <2>2. ((q * a) % a) = 0
    BY <1>2, <2>1
  <2> QED  BY <2>2 DEF a
<1> QED  BY <1>3, <1>4, <1>5, <1>6

\* Multiples of the alignment add up to one.
LEMMA MultiplesAdd ==
  ASSUME NEW a \in Nat, NEW b \in Nat, (a % Align) = 0, (b % Align) = 0
  PROVE  ((a + b) % Align) = 0
<1> DEFINE i == a \div Align
           j == b \div Align
<1>1. Align \in Nat \ {0}
  BY ArenaAssumption
<1>2. i \in Nat /\ j \in Nat /\ a = Align * i /\ b = Align * j
  BY <1>1
<1> HIDE DEF i, j
<1>3. a + b = Align * (i + j)
  BY <1>1, <1>2
<1>4. i + j \in Nat
  BY <1>2
<1>5. \A k \in Nat : ((Align * k) % Align) = 0
  BY <1>1
<1> QED  BY <1>3, <1>4, <1>5

\* The blocks that hold bytes of the buffer.  What each takes, its size rounded
\* up, is aligned, below what is handed out next and apart from the others.
\* (Without the rounding the invariant would not tell that the place below a
\* block given back is aligned, nor that the blocks left lie below it.)
Taken == {b \in blocks : b.at # Heap /\ b.n > 0}

ArenaInv ==
  /\ used \in Nat /\ used <= ArenaSize /\ (used % Align) = 0
  /\ blocks \subseteq [at : Nat, n : Nat]
  /\ \A b \in Taken : (b.at % Align) = 0 /\ b.at + align_up(b.n) <= used
  /\ \A b, c \in Taken :
       b = c \/ b.at + align_up(b.n) <= c.at \/ c.at + align_up(c.n) <= b.at

\* A new block lies above those in use.
LEMMA AllocateStep ==
  ASSUME ArenaInv, NEW n \in Sizes, allocate(n)
  PROVE  ArenaInv'
<1>1. n \in Nat /\ ArenaSize \in Nat
  BY ArenaAssumption
<1> DEFINE up == align_up(n)
<1>2. up \in Nat /\ (up % Align) = 0
  BY <1>1, AlignUp
<1>3. CASE ArenaSize - used >= up
  <2> DEFINE new == [at |-> used, n |-> n]
  <2>1. blocks' = blocks \cup {new} /\ used' = used + up
    BY <1>3 DEF allocate
  <2> HIDE DEF up
  <2>2. /\ used' \in Nat /\ used' <= ArenaSize /\ used <= used'
        /\ (used' % Align) = 0
    BY <1>1, <1>2, <1>3, <2>1, MultiplesAdd DEF ArenaInv
  <2>3. new \in [at : Nat, n : Nat] /\ new.at = used /\ new.n = n
    BY <1>1 DEF ArenaInv
  <2>4. Taken' \subseteq Taken \cup {new}
    BY <2>1 DEF Taken
  <2>5. used + align_up(new.n) <= used'
    BY <1>1, <1>2, <2>1, <2>3 DEF ArenaInv, up
  <2>6. \A b \in Taken : b.at \in Nat /\ align_up(b.n) \in Nat
    BY AlignUp DEF ArenaInv, Taken
  <2> HIDE DEF new
  <2>7. \A b \in Taken' : (b.at % Align) = 0 /\ b.at + align_up(b.n) <= used'
    BY <2>2, <2>3, <2>4, <2>5, <2>6 DEF ArenaInv
  <2>8. \A b \in Taken : b.at + align_up(b.n) <= new.at
    BY <2>3 DEF ArenaInv
  <2>9. \A b, c \in Taken' :
          b = c \/ b.at + align_up(b.n) <= c.at \/ c.at + align_up(c.n) <= b.at
    BY <2>4, <2>8 DEF ArenaInv
  <2> QED  BY <2>1, <2>2, <2>3, <2>7, <2>9 DEF ArenaInv
<1>4. CASE ~(ArenaSize - used >= up)
  <2>1. blocks' = blocks \cup {[at |-> Heap, n |-> n]} /\ used' = used
    BY <1>4 DEF allocate
  <2>2. [at |-> Heap, n |-> n] \in [at : Nat, n : Nat]
    BY <1>1 DEF Heap
  <2>3. Taken' = Taken
    BY <2>1 DEF Taken
  <2> QED  BY <2>1, <2>2, <2>3 DEF ArenaInv
<1> QED  BY <1>3, <1>4

\* Of the blocks left, none lies above the last one, whose place returns.
LEMMA DeallocateStep ==
  ASSUME ArenaInv, NEW b \in blocks, deallocate(b)
  PROVE  ArenaInv'
<1>1. /\ b.at \in Nat /\ b.n \in Nat /\ align_up(b.n) \in Nat
      /\ \A c \in Taken : c \in blocks /\ c.at \in Nat /\ c.n \in Nat /\ c.n > 0
      /\ \A c \in Taken : align_up(c.n) \in Nat /\ align_up(c.n) > 0
  BY AlignUp DEF ArenaInv, Taken
<1>2. blocks' = blocks \ {b} /\ Taken' = Taken \ {b}
  BY DEF deallocate, Taken
<1>3. CASE used' = used
  BY <1>2, <1>3 DEF ArenaInv
<1>4. CASE used' # used
  <2>1. b.at # Heap /\ b.at + align_up(b.n) = used /\ used' = b.at
    BY <1>4 DEF deallocate
  <2>2. b.n > 0
    <3> SUFFICES ASSUME b.n = 0 PROVE FALSE
      BY <1>1
    <3>1. align_up(0) = 0
      <4>1. Align \in Nat \ {0}
        BY ArenaAssumption
      <4>2. ((0 + Align - 1) \div Align) = 0
        BY <4>1
      <4> QED  BY <4>1, <4>2 DEF align_up
    <3> QED  BY <1>1, <1>4, <2>1, <3>1 DEF ArenaInv
  <2>3. b \in Taken
    BY <2>1, <2>2 DEF Taken
  <2>4. used' \in Nat /\ used' <= ArenaSize /\ (used' % Align) = 0
    BY <1>1, <2>1, <2>3, ArenaAssumption DEF ArenaInv
  <2>5. \A c \in Taken \ {b} : c.at + align_up(c.n) <= used'
    <3> SUFFICES ASSUME NEW c \in Taken \ {b}
                 PROVE  c.at + align_up(c.n) <= b.at
      BY <2>1
    <3>1. /\ c.at + align_up(c.n) <= used
          /\ \/ b.at + align_up(b.n) <= c.at
             \/ c.at + align_up(c.n) <= b.at
      BY <2>3 DEF ArenaInv
    <3>2. c.at \in Nat /\ align_up(c.n) \in Nat /\ align_up(c.n) > 0
      BY <1>1
    <3> QED  BY <1>1, <2>1, <3>1, <3>2
  <2> QED  BY <1>2, <2>4, <2>5 DEF ArenaInv
<1> QED  BY <1>3, <1>4

\* The blocks in use share no byte of the buffer and are aligned, for any
\* alignment and buffer and in any order of allocations and deallocations.
THEOREM BlocksAreApart == ArenaSpec => []BlocksApart
<1>1. ArenaInit => ArenaInv
  <2>1. (0 % Align) = 0
    BY ArenaAssumption
  <2> QED  BY <2>1, ArenaAssumption DEF ArenaInit, ArenaInv, Taken
<1>2. ArenaInv /\ [ArenaNext]_arenaVars => ArenaInv'
  <2> SUFFICES ASSUME ArenaInv, [ArenaNext]_arenaVars PROVE ArenaInv'
    OBVIOUS
  <2>1. CASE reset
    <3>1. (0 % Align) = 0
      BY ArenaAssumption
    <3> QED  BY <2>1, <3>1, ArenaAssumption DEF reset, ArenaInv, Taken
  <2>2. CASE UNCHANGED arenaVars
    BY <2>2 DEF arenaVars, ArenaInv, Taken
  <2> QED  BY <2>1, <2>2, AllocateStep, DeallocateStep DEF ArenaNext
<1>3. ArenaInv => BlocksApart
  <2> SUFFICES ASSUME ArenaInv PROVE BlocksApart
    OBVIOUS
  <2>1. \A b \in Taken : /\ b.at \in Nat /\ b.n \in Nat
                         /\ align_up(b.n) \in Nat /\ b.n <= align_up(b.n)
    BY AlignUp DEF ArenaInv, Taken
  <2>2. \A b \in Taken : (b.at % Align) = 0 /\ b.at + b.n <= used
    BY <2>1 DEF ArenaInv
  <2>3. \A b, c \in Taken :
          b = c \/ b.at + b.n <= c.at \/ c.at + c.n <= b.at
    BY <2>1 DEF ArenaInv
  <2> QED  BY <2>2, <2>3 DEF ArenaInv, BlocksApart, Taken
<1> QED  BY <1>1, <1>2, <1>3, PTL DEF ArenaSpec
-----------------------------------------------------------------------------
\* epoll on kqueue.  No two descriptors have one record, and the filters of a
\* descriptor that is not torn are those of its record.
KqInv ==
  /\ fdMap \in [Fds -> Pairs \cup {0}]
  /\ pairs \in [Pairs -> [fire : Nat, events : SUBSET {"IN", "OUT"},
                          data : EvData \cup {"none"}]]
  /\ filters \subseteq [fd : Fds, filter : {"IN", "OUT"}, udata : Pairs]
  /\ \A fd, e \in Fds : fdMap[fd] # 0 /\ fdMap[fd] = fdMap[e] => fd = e
  /\ FiltersFollow

\* The records are as many as the descriptors: one is free for a descriptor
\* that has none.
LEMMA CallocIs ==
  ASSUME KqInv, NEW fd \in Fds, fdMap[fd] = 0
  PROVE  Calloc \in Pairs /\ \A e \in Fds : fdMap[e] # Calloc
<1> DEFINE N == Cardinality(Fds)
           Rest == Fds \ {fd}
           g == [p \in Pairs |-> CHOOSE e \in Fds : fdMap[e] = p]
<1>1. N \in Nat /\ IsFiniteSet(Rest) /\ Cardinality(Rest) = N - 1
  BY KqAssumption, FS_CardinalityType, FS_RemoveElement
<1>2. N \in Nat \ {0}
  BY <1>1, KqAssumption, FS_EmptySet
<1>3. Cardinality(Pairs) = N
  BY <1>2, FS_Interval DEF Pairs
<1>4. Free # {}
  <2> SUFFICES ASSUME Free = {} PROVE FALSE
    OBVIOUS
  <2>1. ASSUME NEW p \in Pairs
        PROVE  g[p] \in Rest /\ fdMap[g[p]] = p
    <3>1. \E e \in Fds : fdMap[e] = p
      BY DEF Free
    <3>2. g[p] \in Fds /\ fdMap[g[p]] = p
      BY <3>1
    <3>3. p # 0
      BY DEF Pairs
    <3> QED  BY <3>2, <3>3
  <2>2. g \in [Pairs -> Fds] /\ DOMAIN g = Pairs
    BY <2>1
  <2> HIDE DEF g
  <2>3. g \in Injection(Pairs, Rest)
    BY <2>1, <2>2 DEF Injection, IsInjective
  <2>4. Cardinality(Pairs) <= Cardinality(Rest)
    BY <1>1, <2>3, FS_Injection
  <2> QED  BY <1>1, <1>2, <1>3, <2>4
<1>5. Free \in SUBSET Nat
  BY DEF Free, Pairs
<1>6. \E p \in Free : \A q \in Free : p <= q
  BY <1>4, <1>5, NatLeast
<1>7. Calloc \in Free
  BY <1>6 DEF Calloc
<1> QED  BY <1>7 DEF Free

\* What is wanted of a set of events.
LEMMA WantsIs ==
  ASSUME NEW events \in SUBSET {"IN", "OUT"}
  PROVE  /\ Len(Wants(events)) \in Nat
         /\ \A n \in 1..Len(Wants(events)) : Wants(events)[n] \in events
         /\ \A e \in events : \E n \in 1..Len(Wants(events)) :
              Wants(events)[n] = e
<1>1. CASE "IN" \in events /\ "OUT" \in events
  <2> DEFINE a == <<"IN">>
             b == <<"OUT">>
             S == {"IN", "OUT"}
  <2>1. Wants(events) = a \o b
    BY <1>1 DEF Wants
  <2>2. /\ a \in Seq(S) /\ b \in Seq(S)
        /\ Len(a) = 1 /\ Len(b) = 1 /\ a[1] = "IN" /\ b[1] = "OUT"
    OBVIOUS
  <2> HIDE DEF a, b, S
  <2>3. Len(a \o b) = 2 /\ (a \o b)[1] = "IN" /\ (a \o b)[2] = "OUT"
    BY <2>2, OneAndOne
  <2> QED  BY <1>1, <2>1, <2>3
<1>2. CASE "IN" \in events /\ "OUT" \notin events
  <2>1. Wants(events) = <<"IN">>
    BY <1>2 DEF Wants
  <2> QED  BY <1>2, <2>1
<1>3. CASE "IN" \notin events /\ "OUT" \in events
  <2>1. Wants(events) = <<"OUT">>
    BY <1>3 DEF Wants
  <2> QED  BY <1>3, <2>1
<1>4. CASE "IN" \notin events /\ "OUT" \notin events
  <2>1. Wants(events) = <<>> /\ events = {}
    BY <1>4 DEF Wants
  <2> QED  BY <2>1
<1> QED  BY <1>1, <1>2, <1>3, <1>4
\* What a call of co_epoll_ctl leaves registered for its descriptor, and that
\* it changes nothing of the others'.
LEMMA CtlStep ==
  ASSUME KqInv, NEW fd \in Fds, NEW op \in {"ADD", "MOD"},
         NEW events \in EventSets, NEW data \in EvData, NEW done \in 0..2,
         Ctl(op, fd, events, data, done)
  PROVE  KqInv'
<1> DEFINE ptr == IF op = "ADD" THEN Calloc ELSE fdMap[fd]
           wants == Wants(events)
           added == {[fd |-> fd, filter |-> wants[n], udata |-> ptr] :
                       n \in 1 .. done}
           left == filters \ DeletedFirst(fd, op)
           kept == {f \in left :
                      \A g \in added : <<f.fd, f.filter>> # <<g.fd, g.filter>>}
           fails == done < Len(wants)
                      \/ (wants = <<>> /\ DeleteFails(fd, op))
<1>1. /\ done <= Len(wants) /\ (op = "ADD") = (fdMap[fd] = 0)
      /\ filters' = kept \cup added
      /\ fdMap' = [fdMap EXCEPT ![fd] = IF fails THEN 0 ELSE ptr]
      /\ pairs' = [pairs EXCEPT ![ptr] =
           IF fails THEN NoPair
           ELSE [@ EXCEPT !.events = events, !.data = data]]
      /\ torn' = IF fails /\ \E f \in filters' : f.fd = fd
                 THEN torn \cup {fd} ELSE torn
  BY DEF Ctl
<1>2. /\ events \in SUBSET {"IN", "OUT"} /\ Len(wants) \in Nat
      /\ \A n \in 1..Len(wants) : wants[n] \in events
      /\ \A e \in events : \E n \in 1..Len(wants) : wants[n] = e
  BY KqAssumption, WantsIs
<1>3. /\ ptr \in Pairs
      /\ \A e \in Fds \ {fd} : fdMap[e] # ptr
  <2>1. CASE op = "ADD"
    BY <1>1, <2>1, CallocIs
  <2>2. CASE op = "MOD"
    BY <1>1, <2>2 DEF KqInv
  <2> QED  BY <2>1, <2>2
<1>4. left \subseteq filters /\ \A f \in filters : f.fd # fd => f \in left
  BY DEF DeletedFirst, Registered, Of
<1>5. fd \notin torn => ~ \E f \in left : f.fd = fd
  <2> SUFFICES ASSUME fd \notin torn, NEW f \in left, f.fd = fd PROVE FALSE
    OBVIOUS
  <2>1. f \in Of(fd)
    BY <1>4 DEF Of
  <2>2. f.filter \in {h.filter : h \in Of(fd)}
    BY <2>1
  <2>3. {h.filter : h \in Of(fd)} =
          IF fdMap[fd] = 0 THEN {} ELSE pairs[fdMap[fd]].events
    BY DEF KqInv, FiltersFollow
  <2>4. f.filter \in IF fdMap[fd] = 0 THEN {} ELSE pairs[fdMap[fd]].events
    BY <2>2, <2>3
  <2>5. op = "MOD"
    BY <1>1, <2>4
  <2>6. f \in DeletedFirst(fd, op)
    BY <1>1, <2>1, <2>4, <2>5 DEF DeletedFirst, Registered
  <2> QED  BY <2>6
<1>6. /\ \A g \in added : g \in [fd : Fds, filter : {"IN", "OUT"},
                                 udata : Pairs]
      /\ \A g \in added : g.fd = fd /\ g.udata = ptr /\ g.filter \in events
      /\ done = Len(wants) => \A e \in events : \E g \in added : g.filter = e
  <2>1. \A n \in 1..done : n \in 1..Len(wants)
    BY <1>1, <1>2
  <2>2. done = Len(wants) =>
          \A e \in events : \E n \in 1..done : wants[n] = e
    BY <1>2
  <2> HIDE DEF ptr, wants
  <2>3. ASSUME NEW g \in added
        PROVE  /\ g \in [fd : Fds, filter : {"IN", "OUT"}, udata : Pairs]
               /\ g.fd = fd /\ g.udata = ptr /\ g.filter \in events
    <3>1. PICK n \in 1..done :
            g = [fd |-> fd, filter |-> wants[n], udata |-> ptr]
      OBVIOUS
    <3>2. wants[n] \in events
      BY <1>2, <2>1
    <3> QED  BY <1>2, <1>3, <3>1, <3>2
  <2>4. ASSUME done = Len(wants), NEW e \in events
        PROVE  \E g \in added : g.filter = e
    <3>1. PICK n \in 1..done : wants[n] = e
      BY <2>2, <2>4
    <3>2. [fd |-> fd, filter |-> wants[n], udata |-> ptr] \in added
      OBVIOUS
    <3> QED  BY <3>1, <3>2
  <2> QED  BY <2>3, <2>4
<1> HIDE DEF ptr, wants, added, left
<1>7. /\ kept \subseteq left
      /\ \A f \in left : f.fd # fd => f \in kept
  BY <1>6
<1> HIDE DEF kept
<1>8. filters' \subseteq [fd : Fds, filter : {"IN", "OUT"}, udata : Pairs]
  BY <1>1, <1>4, <1>6, <1>7 DEF KqInv
<1>9. fdMap' \in [Fds -> Pairs \cup {0}]
  BY <1>1, <1>3 DEF KqInv
<1>10. pairs' \in [Pairs -> [fire : Nat, events : SUBSET {"IN", "OUT"},
                             data : EvData \cup {"none"}]]
  <2> DEFINE new == IF fails THEN NoPair
                    ELSE [pairs[ptr] EXCEPT !.events = events, !.data = data]
  <2>1. pairs[ptr] \in [fire : Nat, events : SUBSET {"IN", "OUT"},
                        data : EvData \cup {"none"}]
    BY <1>3 DEF KqInv
  <2>2. new \in [fire : Nat, events : SUBSET {"IN", "OUT"},
                 data : EvData \cup {"none"}]
    BY <1>2, <2>1 DEF NoPair
  <2>3. pairs' = [pairs EXCEPT ![ptr] = new]
    BY <1>1
  <2> HIDE DEF new
  <2> QED  BY <2>2, <2>3 DEF KqInv
<1>11. \A d, e \in Fds : fdMap'[d] # 0 /\ fdMap'[d] = fdMap'[e] => d = e
  BY <1>1, <1>3 DEF KqInv
<1>12. ASSUME NEW e \in Fds, e # fd, e \notin torn'
       PROVE  /\ \A f \in Of(e)' : f.udata = fdMap'[e]
              /\ {f.filter : f \in Of(e)'} =
                   IF fdMap'[e] = 0 THEN {} ELSE pairs'[fdMap'[e]].events
  <2>1. Of(e)' = Of(e)
    BY <1>1, <1>4, <1>6, <1>7, <1>12 DEF Of
  <2>2. e \notin torn /\ fdMap'[e] = fdMap[e]
    BY <1>1, <1>9, <1>12 DEF KqInv
  <2>3. fdMap[e] # 0 => pairs'[fdMap[e]] = pairs[fdMap[e]]
    BY <1>1, <1>3, <1>12 DEF KqInv
  <2> QED  BY SMTT(20), <2>1, <2>2, <2>3 DEF KqInv, FiltersFollow
<1>13. ASSUME fd \notin torn'
       PROVE  /\ \A f \in Of(fd)' : f.udata = fdMap'[fd]
              /\ {f.filter : f \in Of(fd)'} =
                   IF fdMap'[fd] = 0 THEN {} ELSE pairs'[fdMap'[fd]].events
  <2>1. fd \notin torn
    BY <1>1, <1>13
  <2>2. Of(fd)' = added
    BY <1>1, <1>5, <1>6, <1>7, <2>1 DEF Of
  <2>3. CASE fails
    <3>1. Of(fd)' = {}
      BY <1>1, <1>13, <2>3 DEF Of
    <3>2. fdMap'[fd] = 0
      BY <1>1, <2>3 DEF KqInv
    <3> QED  BY <3>1, <3>2
  <2>4. CASE ~fails
    <3>1. fdMap'[fd] = ptr /\ ptr # 0
      BY <1>1, <1>3, <2>4 DEF KqInv, Pairs
    <3>2. pairs'[ptr].events = events
      BY <1>1, <1>3, <2>4 DEF KqInv
    <3>3. done = Len(wants)
      BY <1>1, <1>2, <2>4
    <3>4. {f.filter : f \in added} = events
      BY <1>6, <3>3
    <3> QED  BY <1>6, <2>2, <3>1, <3>2, <3>4
  <2> QED  BY <2>3, <2>4
<1> QED  BY <1>8, <1>9, <1>10, <1>11, <1>12, <1>13 DEF KqInv, FiltersFollow

\* So does taking a descriptor out.
LEMMA DelStep ==
  ASSUME KqInv, NEW fd \in Fds, co_epoll_del(fd)
  PROVE  KqInv'
<1> DEFINE ptr == fdMap[fd]
<1>1. /\ ptr \in Pairs /\ ptr # 0
      /\ filters' = filters \ Registered(fd, pairs[ptr].events)
      /\ fdMap' = [fdMap EXCEPT ![fd] = 0]
      /\ pairs' = [pairs EXCEPT ![ptr] = NoPair]
      /\ torn' = IF \E f \in filters' : f.fd = fd THEN torn ELSE torn \ {fd}
  BY DEF co_epoll_del, KqInv
<1>2. /\ filters' \subseteq [fd : Fds, filter : {"IN", "OUT"}, udata : Pairs]
      /\ fdMap' \in [Fds -> Pairs \cup {0}]
      /\ \A d, e \in Fds : fdMap'[d] # 0 /\ fdMap'[d] = fdMap'[e] => d = e
  BY <1>1 DEF KqInv
<1>3. pairs' \in [Pairs -> [fire : Nat, events : SUBSET {"IN", "OUT"},
                            data : EvData \cup {"none"}]]
  BY <1>1 DEF KqInv, NoPair
<1>4. ASSUME NEW e \in Fds, e # fd, e \notin torn'
      PROVE  /\ \A f \in Of(e)' : f.udata = fdMap'[e]
             /\ {f.filter : f \in Of(e)'} =
                  IF fdMap'[e] = 0 THEN {} ELSE pairs'[fdMap'[e]].events
  <2>1. Of(e)' = Of(e)
    BY <1>1, <1>4 DEF Of, Registered
  <2>2. e \notin torn /\ fdMap'[e] = fdMap[e]
    BY <1>1, <1>4 DEF KqInv
  <2>3. fdMap[e] # 0 => pairs'[fdMap[e]] = pairs[fdMap[e]]
    BY <1>1, <1>4 DEF KqInv
  <2> QED  BY SMTT(20), <2>1, <2>2, <2>3 DEF KqInv, FiltersFollow
<1>5. ASSUME fd \notin torn'
      PROVE  Of(fd)' = {} /\ fdMap'[fd] = 0
  <2>1. fdMap'[fd] = 0
    BY <1>1 DEF KqInv
  <2>2. CASE fd \notin torn
    <3>1. \A f \in Of(fd) : f.filter \in pairs[ptr].events
      BY <1>1, <2>2 DEF KqInv, FiltersFollow
    <3> QED  BY <1>1, <2>1, <3>1 DEF Of, Registered
  <2>3. CASE fd \in torn
    BY <1>1, <1>5, <2>1, <2>3 DEF Of
  <2> QED  BY <2>2, <2>3
<1>6. FiltersFollow'
  BY <1>4, <1>5 DEF FiltersFollow
<1> QED  BY <1>2, <1>3, <1>6 DEF KqInv

\* Every step of the program and the kernel keeps the invariant.
LEMMA KqStep ==
  ASSUME KqInv, [KqNext]_kqVars
  PROVE  KqInv'
<1>1. CASE co_epoll_wait
  <2>1. /\ UNCHANGED <<fdMap, filters, torn>>
        /\ \E events : pairs' = [p \in Pairs |->
             [pairs[p] EXCEPT !.fire = FireAfter(events, p)]]
    BY <1>1 DEF co_epoll_wait
  <2>2. /\ pairs' \in [Pairs -> [fire : Nat, events : SUBSET {"IN", "OUT"},
                                 data : EvData \cup {"none"}]]
        /\ \A p \in Pairs : pairs'[p].events = pairs[p].events
    BY <2>1 DEF KqInv, FireAfter
  <2>3. FiltersFollow'
    <3> SUFFICES ASSUME NEW fd \in Fds \ torn
                 PROVE  /\ \A f \in Of(fd) : f.udata = fdMap[fd]
                        /\ {f.filter : f \in Of(fd)} =
                             IF fdMap[fd] = 0 THEN {}
                             ELSE pairs'[fdMap[fd]].events
      BY <2>1 DEF FiltersFollow, Of
    <3>1. fdMap[fd] # 0 => fdMap[fd] \in Pairs
      BY DEF KqInv
    <3> QED  BY <2>2, <3>1 DEF KqInv, FiltersFollow
  <2> QED  BY <2>1, <2>2, <2>3 DEF KqInv
<1>2. ASSUME NEW fd \in Fds, CloseKq(fd)
      PROVE  KqInv'
  <2>1. /\ filters' = filters \ Of(fd) /\ UNCHANGED <<fdMap, pairs>>
        /\ torn' = IF fdMap[fd] = 0 THEN torn \ {fd} ELSE torn \cup {fd}
    BY <1>2 DEF CloseKq
  <2>2. \A e \in Fds \ {fd} : Of(e)' = Of(e)
    BY <2>1 DEF Of
  <2>3. Of(fd)' = {}
    BY <2>1 DEF Of
  <2>4. ASSUME NEW e \in Fds, e \notin torn'
        PROVE  /\ \A f \in Of(e)' : f.udata = fdMap'[e]
               /\ {f.filter : f \in Of(e)'} =
                    IF fdMap'[e] = 0 THEN {} ELSE pairs'[fdMap'[e]].events
    BY <2>1, <2>2, <2>3, <2>4 DEF KqInv, FiltersFollow
  <2> QED  BY <2>1, <2>4 DEF KqInv, FiltersFollow
<1>3. ASSUME NEW fd \in Fds, OpenKq(fd)
      PROVE  KqInv'
  BY <1>3 DEF OpenKq, KqInv, FiltersFollow, Of
<1>4. CASE UNCHANGED kqVars
  BY <1>4 DEF kqVars, KqInv, FiltersFollow, Of
<1>5. ASSUME NEW fd \in Fds, NEW op \in {"ADD", "MOD"}, co_epoll_ctl(op, fd)
      PROVE  KqInv'
  BY <1>5, CtlStep DEF co_epoll_ctl
<1> QED  BY <1>1, <1>2, <1>3, <1>4, <1>5, DelStep DEF KqNext

\* At the start no descriptor has a record or a filter.
LEMMA KqInvInit ==
  ASSUME KqInit
  PROVE  KqInv
<1>1. \A fd \in Fds : Of(fd) = {} /\ fdMap[fd] = 0
  BY DEF KqInit, Of
<1>2. NoPair \in [fire : Nat, events : SUBSET {"IN", "OUT"},
                  data : EvData \cup {"none"}]
  BY DEF NoPair
<1> QED  BY <1>1, <1>2 DEF KqInit, KqInv, FiltersFollow

\* The kernel has the filters that the records say and no others, however
\* many descriptors there are and whatever additions fail.
THEOREM FiltersFollowRecords == KqSpec => []FiltersFollow
<1>1. KqInit => KqInv
  BY KqInvInit
<1>2. KqInv /\ [KqNext]_kqVars => KqInv'
  BY KqStep
<1>3. KqInv => FiltersFollow
  BY DEF KqInv
<1> QED  BY <1>1, <1>2, <1>3, PTL DEF KqSpec

\* The first event of a pair is one of its events, and comes before none.
LEMMA FirstIs ==
  ASSUME NEW events, NEW i \in Nat \ {0}
  PROVE  /\ FirstOf(events, i) \in 1..i
         /\ events[FirstOf(events, i)].udata = events[i].udata
         /\ \A m \in 1..FirstOf(events, i) - 1 :
              events[m].udata # events[i].udata
<1> DEFINE Same == {k \in 1..i : events[k].udata = events[i].udata}
<1>1. Same \in SUBSET Nat /\ i \in Same
  OBVIOUS
<1>2. PICK k \in Same : \A m \in Same : k <= m
  BY <1>1, NatLeast
<1>3. \A m \in 1..k - 1 : events[m].udata # events[i].udata
  <2>1. ASSUME NEW m \in 1..k - 1
        PROVE  m \in 1..i /\ ~(k <= m)
    BY <1>1
  <2> QED  BY <1>2, <2>1
<1>4. \E n \in 1..i : /\ events[n].udata = events[i].udata
                      /\ \A m \in 1..n - 1 : events[m].udata # events[i].udata
  BY <1>2, <1>3
<1> QED  BY <1>4 DEF FirstOf

\* Events have one entry if and only if they are of one pair.
LEMMA OneFirst ==
  ASSUME NEW a, NEW b, NEW i \in Nat \ {0}, NEW j \in Nat \ {0},
         NEW N \in Nat, i <= N, j <= N,
         \A k \in 1..N : a[k].udata = b[k].udata,
         a[i].udata = a[j].udata
  PROVE  FirstOf(a, i) = FirstOf(b, j)
<1> DEFINE f == FirstOf(a, i)
           g == FirstOf(b, j)
<1>1. f \in 1..i /\ a[f].udata = a[i].udata
      /\ \A m \in 1..f - 1 : a[m].udata # a[i].udata
  BY FirstIs
<1>2. g \in 1..j /\ b[g].udata = b[j].udata
      /\ \A m \in 1..g - 1 : b[m].udata # b[j].udata
  BY FirstIs
<1> HIDE DEF f, g
<1>3. f \in 1..N /\ g \in 1..N /\ i \in 1..N /\ j \in 1..N
  BY <1>1, <1>2
<1>4. a[g].udata = a[i].udata /\ b[f].udata = b[j].udata
  BY <1>1, <1>2, <1>3
<1>5. ~(g < f)
  BY <1>1, <1>3, <1>4
<1>6. ~(f < g)
  BY <1>2, <1>3, <1>4
<1> QED  BY <1>3, <1>5, <1>6 DEF f, g

\* What holds between the calls, for the entries of the result.
MergeInv ==
  /\ KqInv /\ EntriesMerged
  /\ \A p \in Pairs : pairs[p].fire = 0

\* A wait merges the events, in whatever order kevent gives them.
LEMMA WaitMerges ==
  ASSUME MergeInv, co_epoll_wait
  PROVE  EntriesMerged'
<1> DEFINE Waits(ready, events) ==
             LET Into(k) == {i \in DOMAIN events : EntryOf(events, i) = k}
                 Fresh(k) == \E i \in Into(k) : pairs[events[i].udata].fire = 0
             IN  /\ Cardinality(ready) \in 1 .. MaxEvents
                 /\ count' = Cardinality({k \in 1 .. MaxEvents : Fresh(k)})
                 /\ result' = [k \in 1 .. MaxEvents |->
                      IF Into(k) = {} THEN result[k]
                      ELSE [events |->
                              (IF Fresh(k) THEN {} ELSE result[k].events)
                                \cup {events[i].filter : i \in Into(k)},
                            data |->
                              pairs[events[CHOOSE i \in Into(k) : TRUE].udata]
                                .data]]
                 /\ fired' = [i \in DOMAIN events |->
                      [filter |-> events[i].filter, udata |-> events[i].udata,
                       data |-> pairs[events[i].udata].data]]
<1>1. PICK ready \in SUBSET filters :
        \E events \in SetToSeqs(ready) : Waits(ready, events)
  BY ZenonT(30) DEF co_epoll_wait
<1>2. PICK events \in SetToSeqs(ready) : Waits(ready, events)
  BY <1>1
<1> DEFINE N == Cardinality(ready)
           F(i) == FirstOf(events, i)
           Into(k) == {i \in 1..N : F(i) = k}
           Firsts == {F(i) : i \in 1..N}
<1>3. N \in Nat /\ N <= MaxEvents /\ MaxEvents \in Nat
  BY <1>2, KqAssumption
<1>4. DOMAIN events = 1..N /\ \A i \in 1..N : events[i] \in ready
  BY DEF SetToSeqs
<1>5. \A i \in 1..N : events[i].udata \in Pairs
  BY <1>4 DEF MergeInv, KqInv
<1>6. \A i \in 1..N : EntryOf(events, i) = F(i)
  BY <1>5 DEF MergeInv, EntryOf
<1>7. /\ count' = Cardinality({k \in 1..MaxEvents : Into(k) # {}})
      /\ \A k \in 1..MaxEvents : Into(k) # {} =>
           result'[k] =
             [events |-> {events[i].filter : i \in Into(k)},
              data |-> pairs[events[CHOOSE i \in Into(k) : TRUE].udata].data]
      /\ fired' = [i \in 1..N |->
           [filter |-> events[i].filter, udata |-> events[i].udata,
            data |-> pairs[events[i].udata].data]]
  <2> DEFINE Old(k) == {i \in DOMAIN events : EntryOf(events, i) = k}
             Fresh(k) == \E i \in Old(k) : pairs[events[i].udata].fire = 0
  <2>1. \A k : Old(k) = Into(k)
    BY <1>4, <1>6
  <2>2. \A k : Fresh(k) <=> Into(k) # {}
    BY <1>5, <2>1 DEF MergeInv
  <2>3. /\ count' = Cardinality({k \in 1 .. MaxEvents : Fresh(k)})
        /\ result' = [k \in 1 .. MaxEvents |->
             IF Old(k) = {} THEN result[k]
             ELSE [events |-> (IF Fresh(k) THEN {} ELSE result[k].events)
                                \cup {events[i].filter : i \in Old(k)},
                   data |->
                     pairs[events[CHOOSE i \in Old(k) : TRUE].udata].data]]
        /\ fired' = [i \in DOMAIN events |->
             [filter |-> events[i].filter, udata |-> events[i].udata,
              data |-> pairs[events[i].udata].data]]
    BY <1>2
  <2> HIDE DEF Old, Fresh, Into
  <2>4. {k \in 1..MaxEvents : Fresh(k)} = {k \in 1..MaxEvents : Into(k) # {}}
    BY <2>2
  <2>5. ASSUME NEW k \in 1..MaxEvents, Into(k) # {}
        PROVE  result'[k] =
                 [events |-> {events[i].filter : i \in Into(k)},
                  data |-> pairs[events[CHOOSE i \in Into(k) : TRUE].udata].data]
    <3>1. Fresh(k) /\ Old(k) = Into(k)
      BY <2>1, <2>2, <2>5
    <3>2. {} \cup {events[i].filter : i \in Into(k)}
            = {events[i].filter : i \in Into(k)}
      OBVIOUS
    <3> QED  BY <2>3, <2>5, <3>1, <3>2
  <2> QED  BY <1>4, <2>3, <2>4, <2>5
<1>8. /\ \A i \in 1..N : /\ F(i) \in 1..N /\ events[F(i)].udata = events[i].udata
                         /\ F(F(i)) = F(i)
      /\ \A i, j \in 1..N : F(i) = F(j) <=> events[i].udata = events[j].udata
  <2>1. \A i \in 1..N : F(i) \in 1..i /\ events[F(i)].udata = events[i].udata
    BY <1>3, FirstIs
  <2>2. \A i \in 1..N : F(i) \in 1..N
    BY <1>3, <2>1
  <2>3. \A i, j \in 1..N :
          events[i].udata = events[j].udata => F(i) = F(j)
    BY <1>3, OneFirst
  <2> HIDE DEF F
  <2> QED  BY <2>1, <2>2, <2>3
<1>9. \A i \in 1..N : FirstOf(fired', i) = F(i)
  <2>1. \A k \in 1..N : events[k].udata = fired'[k].udata
    BY <1>7
  <2> QED  BY <1>3, <2>1, OneFirst
<1>10. DOMAIN fired' = 1..N
      /\ \A i \in 1..N : /\ fired'[i].udata = events[i].udata
                         /\ fired'[i].filter = events[i].filter
                         /\ fired'[i].data = pairs[events[i].udata].data
  BY <1>7
<1> HIDE DEF F, N
<1>11. count' = Cardinality({fired'[i].udata : i \in DOMAIN fired'})
  <2> DEFINE T == {fired'[i].udata : i \in DOMAIN fired'}
             h == [k \in Firsts |-> events[k].udata]
  <2>1. T = {events[i].udata : i \in 1..N}
    BY <1>10
  <2>2. {k \in 1..MaxEvents : Into(k) # {}} = Firsts
    BY <1>3, <1>8
  <2>3. IsFiniteSet(Firsts)
    <3>1. IsFiniteSet(1..N)
      BY <1>3, FS_Interval
    <3>2. Firsts \in SUBSET (1..N)
      BY <1>8
    <3> QED  BY <3>1, <3>2, FS_Subset
  <2>4. h \in [Firsts -> T]
    BY <1>8, <2>1
  <2>5. \A k, l \in Firsts : h[k] = h[l] => k = l
    BY <1>8
  <2>6. \A t \in T : \E k \in Firsts : h[k] = t
    BY <1>8, <2>1
  <2> HIDE DEF h, T, Firsts
  <2>7. h \in Bijection(Firsts, T)
    BY <2>4, <2>5, <2>6 DEF Bijection, Injection, Surjection, IsInjective
  <2>8. Cardinality(T) = Cardinality(Firsts)
    BY <2>3, <2>7, FS_Bijection DEF ExistsBijection
  <2> QED  BY <1>7, <2>2, <2>8 DEF T
<1>12. ASSUME NEW k \in {FirstOf(fired', i) : i \in DOMAIN fired'}
       PROVE  result'[k] =
                [events |-> {fired'[i].filter :
                               i \in {i \in DOMAIN fired' :
                                        fired'[i].udata = fired'[k].udata}},
                 data |-> fired'[k].data]
  <2>1. PICK n \in 1..N : k = F(n)
    BY <1>9, <1>10
  <2>2. k \in 1..N /\ k \in 1..MaxEvents /\ F(k) = k
    BY <1>3, <1>8, <2>1
  <2>3. {i \in DOMAIN fired' : fired'[i].udata = fired'[k].udata} = Into(k)
    BY <1>8, <1>10, <2>2
  <2>4. {fired'[i].filter : i \in Into(k)} = {events[i].filter : i \in Into(k)}
    BY <1>10
  <2>5. k \in Into(k)
    BY <2>2
  <2>6. (CHOOSE i \in Into(k) : TRUE) \in Into(k)
    BY <2>5
  <2>7. events[CHOOSE i \in Into(k) : TRUE].udata = events[k].udata
    BY <1>8, <2>2, <2>6
  <2> HIDE DEF Into
  <2>8. result'[k] =
          [events |-> {events[i].filter : i \in Into(k)},
           data |-> pairs[events[CHOOSE i \in Into(k) : TRUE].udata].data]
    BY <1>7, <2>2, <2>5
  <2>9. pairs[events[CHOOSE i \in Into(k) : TRUE].udata].data = fired'[k].data
    BY <1>10, <2>2, <2>7
  <2> QED  BY <2>3, <2>4, <2>8, <2>9
<1> QED  BY <1>11, <1>12 DEF EntriesMerged

\* After every other call nothing has been given out, and no pair has an
\* index left.
LEMMA MergeStep ==
  ASSUME MergeInv, [KqNext]_kqVars
  PROVE  MergeInv'
<1>1. KqInv'
  BY KqStep DEF MergeInv
<1>2. ASSUME Left
      PROVE  EntriesMerged'
  <2>1. count' = 0 /\ fired' = <<>> /\ DOMAIN fired' = {}
    BY <1>2 DEF Left
  <2>2. {fired'[i].udata : i \in DOMAIN fired'} = {}
        /\ {FirstOf(fired', i) : i \in DOMAIN fired'} = {}
    BY <2>1
  <2> QED  BY <2>1, <2>2, FS_EmptySet DEF EntriesMerged
<1>3. CASE co_epoll_wait
  <2>1. PICK events : pairs' = [p \in Pairs |->
          [pairs[p] EXCEPT !.fire = FireAfter(events, p)]]
    BY <1>3 DEF co_epoll_wait
  <2>2. \A p \in Pairs : pairs'[p].fire = 0
    BY <2>1 DEF FireAfter, MergeInv, KqInv
  <2> QED  BY <1>1, <1>3, <2>2, WaitMerges DEF MergeInv
<1>4. ASSUME NEW fd \in Fds, CloseKq(fd) \/ OpenKq(fd)
      PROVE  MergeInv'
  BY <1>1, <1>2, <1>4 DEF CloseKq, OpenKq, MergeInv
<1>5. CASE UNCHANGED kqVars
  <2>1. EntriesMerged'
    BY <1>5 DEF MergeInv, EntriesMerged, kqVars
  <2> QED  BY <1>1, <1>5, <2>1 DEF MergeInv, kqVars
<1>6. ASSUME NEW fd \in Fds, NEW op \in {"ADD", "MOD"}, co_epoll_ctl(op, fd)
      PROVE  MergeInv'
  <2>1. PICK events \in EventSets, data \in EvData, done \in 0..2 :
          Ctl(op, fd, events, data, done)
    BY <1>6 DEF co_epoll_ctl
  <2> DEFINE ptr == IF op = "ADD" THEN Calloc ELSE fdMap[fd]
             fails == done < Len(Wants(events))
                        \/ (Wants(events) = <<>> /\ DeleteFails(fd, op))
  <2>2. /\ pairs' = [pairs EXCEPT ![ptr] =
             IF fails THEN NoPair
             ELSE [@ EXCEPT !.events = events, !.data = data]]
        /\ Left
    BY <2>1 DEF Ctl
  <2> HIDE DEF ptr, fails
  <2>3. \A p \in Pairs : pairs'[p].fire = 0
    BY <2>2 DEF MergeInv, KqInv, NoPair
  <2> QED  BY <1>1, <1>2, <2>2, <2>3 DEF MergeInv
<1>7. ASSUME NEW fd \in Fds, co_epoll_del(fd)
      PROVE  MergeInv'
  <2>1. pairs' = [pairs EXCEPT ![fdMap[fd]] = NoPair] /\ Left
    BY <1>7 DEF co_epoll_del
  <2>2. \A p \in Pairs : pairs'[p].fire = 0
    BY <2>1 DEF MergeInv, KqInv, NoPair
  <2> QED  BY <1>1, <1>2, <2>1, <2>2 DEF MergeInv
<1> QED  BY <1>3, <1>4, <1>5, <1>6, <1>7 DEF KqNext

\* co_epoll.cpp:137: each descriptor with events has one entry, with all of
\* them, for any number of descriptors and in any order of the events.
THEOREM EntriesAreMerged == KqSpec => []EntriesMerged
<1>1. KqInit => MergeInv
  <2> SUFFICES ASSUME KqInit PROVE MergeInv
    OBVIOUS
  <2>1. KqInv
    BY KqInvInit
  <2>2. fired = <<>> /\ DOMAIN fired = {} /\ count = 0
    BY DEF KqInit
  <2>3. {fired[i].udata : i \in DOMAIN fired} = {}
        /\ {FirstOf(fired, i) : i \in DOMAIN fired} = {}
    BY <2>2
  <2>4. EntriesMerged
    BY <2>2, <2>3, FS_EmptySet DEF EntriesMerged
  <2> QED  BY <2>1, <2>4 DEF KqInit, NoPair, MergeInv
<1>2. MergeInv /\ [KqNext]_kqVars => MergeInv'
  BY MergeStep
<1>3. MergeInv => EntriesMerged
  BY DEF MergeInv
<1> QED  BY <1>1, <1>2, <1>3, PTL DEF KqSpec
-----------------------------------------------------------------------------
\* Any finite set of places can be put in an order in which what is at them
\* does not decrease.
LEMMA OrderExists ==
  ASSUME NEW P, IsFiniteSet(P), NEW f \in [P -> Nat]
  PROVE  \E p \in SetToSeqs(P) :
           \A i, j \in DOMAIN p : i <= j => f[p[i]] <= f[p[j]]
<1> DEFINE Order(Q, p) ==
             /\ DOMAIN p = 1..Cardinality(Q)
             /\ p \in [1..Cardinality(Q) -> Q]
             /\ \A i, j \in 1..Cardinality(Q) : i # j => p[i] # p[j]
             /\ \A i, j \in 1..Cardinality(Q) : i <= j => f[p[i]] <= f[p[j]]
           S == {n \in Nat : \A Q \in SUBSET P :
                   Cardinality(Q) = n => \E p : Order(Q, p)}
<1>1. 0 \in S
  <2> SUFFICES ASSUME NEW Q \in SUBSET P, Cardinality(Q) = 0
               PROVE  \E p : Order(Q, p)
    OBVIOUS
  <2> DEFINE p == [i \in {} |-> i]
  <2>1. 1..Cardinality(Q) = {}
    OBVIOUS
  <2>2. DOMAIN p = {} /\ p \in [{} -> Q]
    OBVIOUS
  <2> HIDE DEF p
  <2>3. Order(Q, p)
    BY <2>1, <2>2
  <2> QED  BY <2>3
<1>2. ASSUME NEW n \in Nat, n \in S
      PROVE  n + 1 \in S
  <2> SUFFICES ASSUME NEW Q \in SUBSET P, Cardinality(Q) = n + 1
               PROVE  \E p : Order(Q, p)
    OBVIOUS
  <2>1. IsFiniteSet(Q)
    BY FS_Subset
  <2>2. Q # {}
    BY FS_EmptySet
  <2>3. PICK m \in Q : \A k \in Q : f[m] <= f[k]
    <3> DEFINE V == {f[k] : k \in Q}
    <3>1. V \in SUBSET Nat /\ V # {}
      BY <2>2
    <3>2. PICK v \in V : \A y \in V : v <= y
      BY <3>1, NatLeast
    <3> QED  BY <3>2
  <2> DEFINE R == Q \ {m}
  <2>4. R \in SUBSET P /\ Cardinality(R) = n
    <3>1. Cardinality(R) = Cardinality(Q) - 1
      BY <2>1, FS_RemoveElement
    <3> QED  BY <3>1
  <2>5. PICK q : Order(R, q)
    BY <1>2, <2>4
  <2> DEFINE p == [i \in 1..n + 1 |-> IF i = 1 THEN m ELSE q[i - 1]]
  <2>6. /\ q \in [1..n -> R]
        /\ \A i, j \in 1..n : i # j => q[i] # q[j]
        /\ \A i, j \in 1..n : i <= j => f[q[i]] <= f[q[j]]
    BY <2>4, <2>5
  <2>7. \A i \in 1..n + 1 :
          i # 1 => i - 1 \in 1..n /\ p[i] = q[i - 1] /\ p[i] \in R
    BY <2>6
  <2>8. p[1] = m
    OBVIOUS
  <2>9. DOMAIN p = 1..n + 1
    OBVIOUS
  <2> HIDE DEF p, Order
  <2>10. p \in [1..n + 1 -> Q]
    <3>1. \A i \in 1..n + 1 : p[i] \in Q
      BY <2>7, <2>8
    <3>2. p = [i \in 1..n + 1 |-> p[i]]
      BY DEF p
    <3> QED  BY <3>1, <3>2
  <2>11. ASSUME NEW i \in 1..n + 1, NEW j \in 1..n + 1, i # j
         PROVE  p[i] # p[j]
    <3>1. CASE i = 1 \/ j = 1
      BY <2>7, <2>8, <2>11, <3>1
    <3>2. CASE i # 1 /\ j # 1
      <4>1. i - 1 # j - 1
        BY <2>11
      <4> QED  BY <2>6, <2>7, <3>2, <4>1
    <3> QED  BY <3>1, <3>2
  <2>12. ASSUME NEW i \in 1..n + 1, NEW j \in 1..n + 1, i <= j
         PROVE  f[p[i]] <= f[p[j]]
    <3>1. CASE i = 1
      BY <2>3, <2>8, <2>10, <3>1
    <3>2. CASE i # 1
      <4>1. j # 1 /\ i - 1 <= j - 1
        BY <2>12, <3>2
      <4> QED  BY <2>6, <2>7, <3>2, <4>1
    <3> QED  BY <3>1, <3>2
  <2>13. Order(Q, p)
    BY <2>9, <2>10, <2>11, <2>12 DEF Order
  <2> QED  BY <2>13
<1> HIDE DEF Order
<1>3. Nat \subseteq S
  BY <1>1, <1>2, NatInd
<1>4. Cardinality(P) \in S
  BY <1>3, FS_CardinalityType
<1>5. PICK p : Order(P, p)
  BY <1>4
<1>6. p \in SetToSeqs(P)
  BY <1>5 DEF Order, SetToSeqs
<1> QED  BY <1>5, <1>6 DEF Order

\* qsort: the names that are not empty, in order.
LEMMA SortedIs ==
  ASSUME NEW names \in Seq(Nat)
  PROVE  /\ Sorted(names) \in Seq(Nat)
         /\ \A i, j \in 1..Len(Sorted(names)) :
              i <= j => Sorted(names)[i] <= Sorted(names)[j]
         /\ {Sorted(names)[i] : i \in 1..Len(Sorted(names))}
              = {names[k] : k \in DOMAIN names} \ {0}
<1> DEFINE P == {k \in DOMAIN names : names[k] # 0}
           f == [k \in P |-> names[k]]
           Ordered(p) == \A i, j \in DOMAIN p :
                           i <= j => names[p[i]] <= names[p[j]]
           order == CHOOSE p \in SetToSeqs(P) : Ordered(p)
           N == Cardinality(P)
<1>1. /\ IsFiniteSet(P) /\ f \in [P -> Nat] /\ \A k \in P : f[k] = names[k]
  <2>1. IsFiniteSet(1..Len(names))
    BY FS_Interval
  <2>2. P \in SUBSET (1..Len(names))
    OBVIOUS
  <2>3. IsFiniteSet(P)
    BY <2>1, <2>2, FS_Subset
  <2> QED  BY <2>3
<1>2. \E p \in SetToSeqs(P) : Ordered(p)
  <2>1. PICK p \in SetToSeqs(P) :
          \A i, j \in DOMAIN p : i <= j => f[p[i]] <= f[p[j]]
    <3> HIDE DEF f, P
    <3> QED  BY <1>1, OrderExists
  <2>2. \A i \in DOMAIN p : p[i] \in P
    BY DEF SetToSeqs
  <2> HIDE DEF f
  <2>3. Ordered(p)
    BY <1>1, <2>1, <2>2
  <2> QED  BY <2>3
<1>3. order \in SetToSeqs(P) /\ Ordered(order)
  <2> HIDE DEF P, Ordered
  <2> QED  BY <1>2
<1>4. Sorted(names) = [i \in DOMAIN order |-> names[order[i]]]
  BY DEF Sorted
<1>5. N \in Nat
  BY <1>1, FS_CardinalityType
<1> HIDE DEF order
<1>6. /\ order \in [1..N -> P] /\ DOMAIN order = 1..N
      /\ \A i, j \in 1..N : order[i] = order[j] => i = j
  BY <1>3 DEF SetToSeqs
<1>7. \A k \in P : \E i \in 1..N : order[i] = k
  <2> HIDE DEF N, P
  <2>1. IsFiniteSet(1..N) /\ Cardinality(1..N) = N
    BY <1>5, FS_Interval
  <2>2. order \in Injection(1..N, P)
    BY <1>6 DEF Injection, IsInjective
  <2>3. order \in Surjection(1..N, P)
    BY <1>1, <2>1, <2>2, FS_Injection DEF N
  <2> QED  BY <2>3 DEF Surjection
<1> DEFINE s == Sorted(names)
<1>8. /\ s = [i \in 1..N |-> names[order[i]]]
      /\ \A i \in 1..N : names[order[i]] \in Nat
  BY <1>4, <1>6
<1>9. s \in Seq(Nat) /\ Len(s) = N /\ \A i \in 1..N : s[i] = names[order[i]]
  <2> HIDE DEF N, s, P, f
  <2> QED  BY SMTT(20), <1>5, <1>8
<1> HIDE DEF s, N
<1>10. \A i, j \in 1..N : i <= j => s[i] <= s[j]
  <2> HIDE DEF P, f
  <2> SUFFICES ASSUME NEW i \in 1..N, NEW j \in 1..N, i <= j
               PROVE  s[i] <= s[j]
    OBVIOUS
  <2>1. i \in DOMAIN order /\ j \in DOMAIN order
    BY <1>6
  <2>2. names[order[i]] <= names[order[j]]
    BY <1>3, <2>1
  <2> QED  BY <1>9, <2>2
<1>11. {s[i] : i \in 1..N} = {names[k] : k \in DOMAIN names} \ {0}
  <2>1. ASSUME NEW i \in 1..N
        PROVE  s[i] \in {names[k] : k \in DOMAIN names} \ {0}
    <3>1. order[i] \in P
      BY <1>6
    <3>2. order[i] \in DOMAIN names /\ names[order[i]] # 0
      BY <3>1
    <3>3. s[i] = names[order[i]]
      BY <1>9
    <3> QED  BY <3>2, <3>3
  <2>2. ASSUME NEW k \in DOMAIN names, names[k] # 0
        PROVE  names[k] \in {s[i] : i \in 1..N}
    <3>1. k \in P
      BY <2>2
    <3>2. PICK i \in 1..N : order[i] = k
      BY <1>7, <3>1
    <3> QED  BY <1>9, <3>2
  <2> QED  BY <2>1, <2>2
<1> QED  BY <1>9, <1>10, <1>11 DEF s

\* A name that is not below those of an increasing array goes to its end,
\* unless it is the last of them.
LEMMA KeptStep ==
  ASSUME NEW u \in Seq(Nat), NEW e \in Nat, NEW v,
         \A i, j \in 1..Len(u) : i < j => u[i] < u[j],
         \A i \in 1..Len(u) : u[i] <= e,
         v = IF Len(u) > 0 /\ u[Len(u)] = e THEN u ELSE Append(u, e)
  PROVE  /\ v \in Seq(Nat)
         /\ \A i, j \in 1..Len(v) : i < j => v[i] < v[j]
         /\ {v[i] : i \in 1..Len(v)} = {u[i] : i \in 1..Len(u)} \cup {e}
         /\ Len(v) > 0 /\ v[Len(v)] = e
<1> DEFINE m == Len(u)
<1>1. m \in Nat /\ \A i \in 1..m : u[i] \in Nat
  OBVIOUS
<1>2. CASE m > 0 /\ u[m] = e
  <2>1. v = u /\ e \in {u[i] : i \in 1..m}
    BY <1>1, <1>2
  <2> QED  BY <1>1, <1>2, <2>1
<1>3. CASE ~(m > 0 /\ u[m] = e)
  <2>1. /\ v \in Seq(Nat) /\ Len(v) = m + 1 /\ v[m + 1] = e
        /\ \A i \in 1..m : v[i] = u[i]
    BY <1>3
  <2>2. \A i, j \in 1..m : i < j => u[i] < u[j]
    OBVIOUS
  <2>3. \A i \in 1..m : u[i] <= e
    OBVIOUS
  <2> HIDE DEF m
  <2>4. ASSUME NEW i \in 1..m
        PROVE  u[i] < e
    <3>1. m > 0 /\ m \in 1..m /\ u[m] # e
      BY <1>1, <1>3
    <3>2. i = m \/ u[i] < u[m]
      BY <1>1, <2>2, <3>1
    <3>3. u[m] <= e /\ u[m] \in Nat /\ u[i] \in Nat
      BY <1>1, <2>3, <3>1
    <3> QED  BY <3>1, <3>2, <3>3
  <2>5. ASSUME NEW i \in 1..m + 1, NEW j \in 1..m + 1, i < j
        PROVE  v[i] < v[j]
    <3>1. i \in 1..m
      BY <1>1, <2>5
    <3>2. CASE j = m + 1
      BY <2>1, <2>4, <3>1, <3>2
    <3>3. CASE j # m + 1
      <4>1. j \in 1..m
        BY <1>1, <3>3
      <4> QED  BY <2>1, <2>2, <2>5, <3>1, <4>1
    <3> QED  BY <3>2, <3>3
  <2>6. {v[i] : i \in 1..m + 1} = {u[i] : i \in 1..m} \cup {e}
    <3>1. 1..m + 1 = 1..m \cup {m + 1}
      BY <1>1
    <3> QED  BY <2>1, <3>1
  <2>7. m + 1 > 0
    BY <1>1
  <2> QED  BY <2>1, <2>5, <2>6, <2>7
<1> QED  BY <1>2, <1>3

\* What the loop leaves of a sorted array has every name once, in order.
LEMMA UniqueIs ==
  ASSUME NEW s \in Seq(Nat), \A i, j \in 1..Len(s) : i <= j => s[i] <= s[j]
  PROVE  /\ Unique(s) \in Seq(Nat)
         /\ \A i, j \in 1..Len(Unique(s)) :
              i < j => Unique(s)[i] < Unique(s)[j]
         /\ {Unique(s)[i] : i \in 1..Len(Unique(s))} = {s[i] : i \in 1..Len(s)}
<1> DEFINE N == Len(s)
           Kept(f) == [n \in 0..N |->
             IF n = 0 THEN <<>>
             ELSE IF n > 1 /\ Last(f[n - 1]) = s[n] THEN f[n - 1]
             ELSE Append(f[n - 1], s[n])]
           w == CHOOSE f : f = Kept(f)
           G == [n \in 1..N |-> [v \in Seq(Nat) |->
                  IF n > 1 /\ Last(v) = s[n] THEN v ELSE Append(v, s[n])]]
<1>1. N \in Nat /\ DOMAIN s = 1..N /\ \A i \in 1..N : s[i] \in Nat
  OBVIOUS
<1>2. G \in [1..N -> [Seq(Nat) -> Seq(Nat)]] /\ <<>> \in Seq(Nat)
  BY <1>1
<1>3. PICK g : Recursion(g, N, Seq(Nat), <<>>, G)
  <2> HIDE DEF G, N
  <2> QED  BY <1>1, <1>2, RecursionExists
<1>4. g = Kept(g)
  <2>1. ASSUME NEW n \in 0..N
        PROVE  g[n] = Kept(g)[n]
    <3>1. CASE n = 0
      BY <1>1, <1>3, <3>1 DEF Recursion
    <3>2. CASE n \in 1..N
      <4>1. n - 1 \in 0..N /\ n # 0
        BY <1>1, <3>2
      <4>2. g[n] = IF n > 1 /\ Last(g[n - 1]) = s[n] THEN g[n - 1]
                   ELSE Append(g[n - 1], s[n])
        BY <1>3, <3>2, <4>1 DEF Recursion
      <4> QED  BY <4>1, <4>2
    <3> QED  BY <1>1, <3>1, <3>2
  <2>2. g = [n \in 0..N |-> g[n]]
    BY <1>3 DEF Recursion
  <2> QED  BY <2>1, <2>2
<1>5. w = Kept(w)
  <2> HIDE DEF Kept
  <2> QED  BY <1>4
<1>6. Unique(s) = w[N]
  BY DEF Unique
<1> HIDE DEF w, G
<1> DEFINE Good(n) ==
      /\ w[n] \in Seq(Nat)
      /\ \A i, j \in 1..Len(w[n]) : i < j => w[n][i] < w[n][j]
      /\ {w[n][i] : i \in 1..Len(w[n])} = {s[i] : i \in 1..n}
      /\ Len(w[n]) > 0 <=> n > 0
<1>7. Good(0)
  <2>1. w[0] = <<>>
    BY <1>1, <1>5
  <2> QED  BY <2>1
<1>8. ASSUME NEW n \in Nat, n < N, Good(n)
      PROVE  Good(n + 1)
  <2> DEFINE u == w[n]
             v == w[n + 1]
             e == s[n + 1]
  <2>1. n + 1 \in 1..N /\ e \in Nat /\ n + 1 # 0 /\ (n + 1) - 1 = n
        /\ (n + 1 > 1 <=> n > 0)
    BY <1>1, <1>8
  <2>2. {s[i] : i \in 1..n + 1} = {s[i] : i \in 1..n} \cup {e}
    <3>1. 1..n + 1 = 1..n \cup {n + 1}
      OBVIOUS
    <3> QED  BY <3>1
  <2>3. v = IF n + 1 > 1 /\ Last(u) = e THEN u ELSE Append(u, e)
    <3>1. n + 1 \in 0..N
      BY <1>1, <2>1
    <3>2. w[n + 1] = Kept(w)[n + 1]
      BY <1>5
    <3> QED  BY <2>1, <3>1, <3>2
  <2>4. /\ u \in Seq(Nat)
        /\ \A i, j \in 1..Len(u) : i < j => u[i] < u[j]
        /\ {u[i] : i \in 1..Len(u)} = {s[i] : i \in 1..n}
        /\ Len(u) > 0 <=> n > 0
    BY <1>8
  <2>5. \A i \in 1..n : s[i] <= e
    BY <1>1, <2>1
  <2> HIDE DEF Kept, u, v, e
  <2>6. v = IF Len(u) > 0 /\ u[Len(u)] = e THEN u ELSE Append(u, e)
    BY <2>1, <2>3, <2>4 DEF Last
  <2>7. \A i \in 1..Len(u) : u[i] <= e
    BY <2>4, <2>5
  <2>8. /\ v \in Seq(Nat)
        /\ \A i, j \in 1..Len(v) : i < j => v[i] < v[j]
        /\ {v[i] : i \in 1..Len(v)} = {u[i] : i \in 1..Len(u)} \cup {e}
        /\ Len(v) > 0
    <3> HIDE DEF Good, N
    <3>1. u \in Seq(Nat) /\ e \in Nat
      BY <2>1, <2>4
    <3>2. \A i, j \in 1..Len(u) : i < j => u[i] < u[j]
      BY <2>4
    <3> QED  BY SMTT(20), <2>6, <2>7, <3>1, <3>2, KeptStep
  <2>9. {v[i] : i \in 1..Len(v)} = {s[i] : i \in 1..n + 1}
    BY <2>2, <2>4, <2>8
  <2>10. /\ w[n + 1] \in Seq(Nat)
         /\ \A i, j \in 1..Len(w[n + 1]) :
              i < j => w[n + 1][i] < w[n + 1][j]
         /\ {w[n + 1][i] : i \in 1..Len(w[n + 1])} = {s[i] : i \in 1..n + 1}
         /\ Len(w[n + 1]) > 0
    BY <2>8, <2>9 DEF v
  <2>11. n + 1 > 0
    OBVIOUS
  <2> QED  BY <2>10, <2>11
<1>9. \A n \in Nat : n <= N => Good(n)
  <2> DEFINE S == {n \in Nat : n <= N => Good(n)}
  <2> HIDE DEF Good, N
  <2>1. 0 \in S
    BY <1>7
  <2>2. \A n \in Nat : n \in S => n + 1 \in S
    <3> SUFFICES ASSUME NEW n \in Nat, n \in S, n + 1 <= N
                 PROVE  Good(n + 1)
      OBVIOUS
    <3>1. n < N
      BY <1>1
    <3>2. Good(n)
      BY <1>1, <3>1
    <3> QED  BY <1>8, <3>1, <3>2
  <2>3. Nat \subseteq S
    BY <2>1, <2>2, NatInd
  <2> QED  BY <2>3
<1>10. Good(N)
  <2> HIDE DEF Good, N
  <2> QED  BY <1>1, <1>9
<1> QED  BY <1>6, <1>10

\* bsearch in an array without names twice: where the name is, or nowhere.
LEMMA FoundIs ==
  ASSUME NEW arr, NEW n \in Nat, NEW N \in Nat, DOMAIN arr = 1..N,
         \A i \in 1..N : arr[i].name \in Nat,
         \A i, j \in 1..N : i < j => arr[i].name < arr[j].name
  PROVE  /\ n \notin {arr[i].name : i \in 1..N} => Found(arr, n) = 0
         /\ n \in {arr[i].name : i \in 1..N} =>
              Found(arr, n) \in 1..N /\ arr[Found(arr, n)].name = n
         /\ \A k \in 1..N : arr[k].name = n => k = Found(arr, n)
<1> DEFINE at == {k \in DOMAIN arr : arr[k].name = n}
<1>1. \A i, j \in DOMAIN arr : i < j => arr[i].name <= arr[j].name
  OBVIOUS
<1>2. Found(arr, n) = IF at # {} THEN CHOOSE k \in at : TRUE ELSE 0
  BY <1>1 DEF Found
<1>3. CASE at = {}
  BY <1>2, <1>3
<1>4. CASE at # {}
  <2>1. Found(arr, n) \in at
    BY <1>2, <1>4
  <2>2. \A j, k \in at : j = k
    <3> SUFFICES ASSUME NEW j \in at, NEW k \in at PROVE j = k
      OBVIOUS
    <3>1. j \in 1..N /\ k \in 1..N /\ arr[j].name = n /\ arr[k].name = n
      OBVIOUS
    <3>2. ~(j < k) /\ ~(k < j)
      BY <3>1
    <3> QED  BY <3>1, <3>2
  <2> QED  BY <2>1, <2>2
<1> QED  BY <1>3, <1>4

\* The array of a coroutine with what it says of it: the names of the list, in
\* its order.
OfList(arr) ==
  arr = [k \in DOMAIN envList |->
           [name |-> envList[k], value |-> arr[k].value]]

(***************************************************************************)
(* The inductive invariant of the environment: the list has the names that *)
(* were given, each once and in order; an array has the names of the list, *)
(* in its order; and what a coroutine set is what is in its array.         *)
(***************************************************************************)
EnvListed ==
  /\ given = <<>> \/ given \in EnvLists
  /\ given = <<>> => envList = <<>>
  /\ envList \in Seq(Nat)
  /\ \A i, j \in DOMAIN envList : i < j => envList[i] < envList[j]
  /\ given # <<>> => {envList[i] : i \in DOMAIN envList}
                       = {given[k] : k \in DOMAIN given} \ {0}

EnvKept ==
  /\ DOMAIN pvEnv = EnvCo
  /\ said = [s \in EnvCo \X EnvNames |-> said[s]]
  /\ given = <<>> => /\ \A c \in EnvCo : pvEnv[c] = <<>>
                     /\ \A s \in EnvCo \X EnvNames : said[s] = "unset"

EnvArrays == \A c \in EnvCo : pvEnv[c] = <<>> \/ OfList(pvEnv[c])

EnvAgrees ==
  \A c \in EnvCo, k \in DOMAIN envList :
    envList[k] \in EnvNames => said[<<c, envList[k]>>] = Array(c)[k].value

EnvInv == EnvListed /\ EnvKept /\ EnvArrays /\ EnvAgrees

\* What a coroutine with hooks works on has the names of the list.
LEMMA ArrayIs ==
  ASSUME EnvInv, NEW c \in EnvCo
  PROVE  OfList(Array(c))
<1>1. CASE pvEnv[c] = <<>>
  <2>1. Array(c) = [k \in DOMAIN envList |->
                      [name |-> envList[k], value |-> "unset"]]
    BY <1>1 DEF Array
  <2> QED  BY <2>1 DEF OfList
<1>2. CASE pvEnv[c] # <<>>
  BY <1>2 DEF EnvInv, EnvArrays, Array
<1> QED  BY <1>1, <1>2

\* bsearch finds in it the place of a name in the list.
LEMMA ArrayFound ==
  ASSUME EnvInv, NEW c \in EnvCo, NEW n \in EnvNames
  PROVE  /\ (Found(Array(c), n) # 0)
              <=> (\E k \in DOMAIN envList : envList[k] = n)
         /\ Found(Array(c), n) # 0 =>
              /\ Found(Array(c), n) \in DOMAIN envList
              /\ envList[Found(Array(c), n)] = n
         /\ \A k \in DOMAIN envList : envList[k] = n => k = Found(Array(c), n)
<1> DEFINE A == Array(c)
           N == Len(envList)
<1>1. /\ N \in Nat /\ DOMAIN envList = 1..N
      /\ \A k \in 1..N : envList[k] \in Nat
      /\ \A i, j \in 1..N : i < j => envList[i] < envList[j]
  BY DEF EnvInv, EnvListed
<1>2. n \in Nat
  BY EnvAssumption
<1>3. A = [k \in 1..N |-> [name |-> envList[k], value |-> A[k].value]]
  BY <1>1, ArrayIs DEF OfList
<1> HIDE DEF A, N
<1>4. DOMAIN A = 1..N /\ \A k \in 1..N : A[k].name = envList[k]
  BY <1>3
<1>5. /\ \A k \in 1..N : A[k].name \in Nat
      /\ \A i, j \in 1..N : i < j => A[i].name < A[j].name
  BY <1>1, <1>4
<1>6. /\ n \notin {A[i].name : i \in 1..N} => Found(A, n) = 0
      /\ n \in {A[i].name : i \in 1..N} =>
           Found(A, n) \in 1..N /\ A[Found(A, n)].name = n
      /\ \A k \in 1..N : A[k].name = n => k = Found(A, n)
  BY <1>1, <1>2, <1>4, <1>5, FoundIs
<1>7. 0 \notin 1..N
  BY <1>1
<1> QED  BY <1>1, <1>4, <1>6, <1>7 DEF A

\* Before anything is set, nothing is in an array.
LEMMA EnvInvInit == SysEnvInit => EnvInv
<1> SUFFICES ASSUME SysEnvInit PROVE EnvInv
  OBVIOUS
<1>1. /\ given = <<>> /\ envList = <<>> /\ envList \in Seq(Nat)
      /\ DOMAIN envList = {} /\ DOMAIN pvEnv = EnvCo
      /\ \A c \in EnvCo : pvEnv[c] = <<>>
  BY DEF SysEnvInit
<1>2. said = [s \in EnvCo \X EnvNames |-> "unset"]
  BY DEF SysEnvInit
<1>3. /\ said = [s \in EnvCo \X EnvNames |-> said[s]]
      /\ \A s \in EnvCo \X EnvNames : said[s] = "unset"
  BY <1>2
<1> QED  BY <1>1, <1>3 DEF EnvInv, EnvListed, EnvKept, EnvArrays, EnvAgrees

\* co_set_env_list: the sorted names, each once.
LEMMA EnvListStep ==
  ASSUME EnvInv, NEW names \in EnvLists, co_set_env_list(names)
  PROVE  EnvInv'
<1>1. /\ given = <<>> /\ given' = names /\ UNCHANGED <<pvEnv, said>>
      /\ envList' = Unique(Sorted(names))
  BY DEF co_set_env_list
<1>2. names \in Seq(Nat) /\ names # <<>>
  <2>1. names \in Seq(EnvNames \cup {0}) /\ names # <<>>
    BY EnvAssumption
  <2>2. EnvNames \cup {0} \subseteq Nat
    BY EnvAssumption
  <2> QED  BY <2>1, <2>2
<1> DEFINE s == Sorted(names)
           u == Unique(s)
<1>3. /\ s \in Seq(Nat) /\ \A i, j \in 1..Len(s) : i <= j => s[i] <= s[j]
      /\ {s[i] : i \in 1..Len(s)} = {names[k] : k \in DOMAIN names} \ {0}
  BY <1>2, SortedIs
<1> HIDE DEF s
<1>4. /\ u \in Seq(Nat) /\ \A i, j \in 1..Len(u) : i < j => u[i] < u[j]
      /\ {u[i] : i \in 1..Len(u)} = {s[i] : i \in 1..Len(s)}
  BY <1>3, UniqueIs
<1>5. envList' = u
  BY <1>1 DEF s
<1> HIDE DEF u
<1>6. DOMAIN u = 1..Len(u)
  BY <1>4
<1>7. /\ \A c \in EnvCo : pvEnv[c] = <<>>
      /\ \A t \in EnvCo \X EnvNames : said[t] = "unset"
  BY <1>1 DEF EnvInv, EnvKept
<1>8. /\ envList' \in Seq(Nat)
      /\ \A i, j \in DOMAIN envList' : i < j => envList'[i] < envList'[j]
      /\ {envList'[i] : i \in DOMAIN envList'}
           = {given'[k] : k \in DOMAIN given'} \ {0}
  <2>1. envList' \in Seq(Nat) /\ DOMAIN envList' = 1..Len(u)
    BY <1>4, <1>5, <1>6
  <2>2. \A i, j \in 1..Len(u) : i < j => envList'[i] < envList'[j]
    BY <1>4, <1>5
  <2>3. {envList'[i] : i \in 1..Len(u)} = {names[k] : k \in DOMAIN names} \ {0}
    BY <1>3, <1>4, <1>5
  <2> QED  BY <1>1, <2>1, <2>2, <2>3
<1>9. ASSUME NEW c \in EnvCo, NEW k \in DOMAIN envList',
             envList'[k] \in EnvNames
      PROVE  said'[<<c, envList'[k]>>] = Array(c)'[k].value
  <2>1. Array(c)' = [j \in DOMAIN envList' |->
                       [name |-> envList'[j], value |-> "unset"]]
    BY <1>1, <1>7 DEF Array
  <2>2. Array(c)'[k].value = "unset"
    BY <2>1
  <2>3. said'[<<c, envList'[k]>>] = "unset"
    BY <1>1, <1>7, <1>9
  <2> QED  BY <2>2, <2>3
<1>10. /\ DOMAIN pvEnv' = EnvCo
       /\ said' = [t \in EnvCo \X EnvNames |-> said'[t]]
       /\ given' \in EnvLists /\ given' # <<>>
       /\ \A c \in EnvCo : pvEnv'[c] = <<>>
  BY <1>1, <1>2, <1>7 DEF EnvInv, EnvKept
<1> QED
  BY <1>8, <1>9, <1>10
  DEF EnvInv, EnvListed, EnvKept, EnvArrays, EnvAgrees


\* Steps after which the list is as before.
LEMMA EnvListedKept ==
  ASSUME EnvInv, UNCHANGED <<given, envList>>
  PROVE  EnvListed'
BY DEF EnvInv, EnvListed

\* setenv and unsetenv: what a coroutine set of a listed variable and what is
\* in its array change together, and nobody else's does.
LEMMA SetEnvStep ==
  ASSUME EnvInv, NEW c \in EnvCo, NEW n \in EnvNames, NEW value,
         NEW overwrite \in BOOLEAN, SetEnv(c, n, value, overwrite)
  PROVE  EnvInv'
<1> DEFINE A == Array(c)
           at == Found(A, n)
<1>1. /\ UNCHANGED <<given, envList>> /\ DOMAIN pvEnv = EnvCo
      /\ said = [s \in EnvCo \X EnvNames |-> said[s]]
  BY DEF SetEnv, EnvInv, EnvKept
<1>2. OfList(A)
  BY ArrayIs
<1>3. /\ (at # 0) <=> (\E k \in DOMAIN envList : envList[k] = n)
      /\ at # 0 => at \in DOMAIN envList /\ envList[at] = n
      /\ \A k \in DOMAIN envList : envList[k] = n => k = at
  BY ArrayFound
<1>4. ASSUME NEW d \in EnvCo, pvEnv'[d] = pvEnv[d]
      PROVE  Array(d)' = Array(d)
  BY <1>1, <1>4 DEF Array
<1>5. CASE Private(c) /\ at # 0
  <2> DEFINE B == [A EXCEPT ![at].value = Stored(@, value, overwrite)]
  <2>1. /\ pvEnv' = [pvEnv EXCEPT ![c] = B]
        /\ said' = [said EXCEPT ![<<c, n>>] =
             IF overwrite \/ @ = "unset" THEN value ELSE @]
    BY <1>5 DEF SetEnv
  <2> DEFINE st == Stored(A[at].value, value, overwrite)
  <2>2. A = [k \in DOMAIN envList |->
               [name |-> envList[k], value |-> A[k].value]]
    BY <1>2 DEF OfList
  <2>3. at \in DOMAIN envList /\ envList[at] = n
    BY <1>3, <1>5
  <2> HIDE DEF A, at
  <2>4. /\ DOMAIN B = DOMAIN envList
        /\ B[at] = [name |-> n, value |-> st]
        /\ \A k \in DOMAIN envList : k # at => B[k] = A[k]
    BY <2>2, <2>3
  <2>5. B = [k \in DOMAIN envList |->
               [name |-> envList[k], value |-> B[k].value]]
    <3>1. DOMAIN A = DOMAIN envList /\ B = [k \in DOMAIN A |-> B[k]]
      BY <2>2
    <3>2. ASSUME NEW k \in DOMAIN envList
          PROVE  B[k] = [name |-> envList[k], value |-> B[k].value]
      <4>1. CASE k = at
        BY <2>3, <2>4, <4>1
      <4>2. CASE k # at
        BY <2>2, <2>4, <4>2
      <4> QED  BY <4>1, <4>2
    <3> HIDE DEF B
    <3> QED  BY <3>1, <3>2
  <2> HIDE DEF B
  <2>6. B # <<>>
    BY <2>3, <2>4
  <2>7. /\ \A d \in EnvCo : d # c => pvEnv'[d] = pvEnv[d]
        /\ pvEnv'[c] = B /\ DOMAIN pvEnv' = EnvCo
    BY <1>1, <2>1
  <2>8. Array(c)' = B
    BY <2>6, <2>7 DEF Array
  <2>9. ASSUME NEW d \in EnvCo, NEW k \in DOMAIN envList,
               envList[k] \in EnvNames
        PROVE  said'[<<d, envList[k]>>] = Array(d)'[k].value
    <3>1. said[<<d, envList[k]>>] = Array(d)[k].value
      BY <2>9 DEF EnvInv, EnvAgrees
    <3>2. CASE d = c /\ k = at
      <4>1. said[<<c, n>>] = A[at].value
        BY <2>3, <3>1, <3>2 DEF A
      <4>2. said'[<<c, n>>] =
              IF overwrite \/ said[<<c, n>>] = "unset" THEN value
              ELSE said[<<c, n>>]
        BY <1>1, <2>1
      <4>3. said'[<<c, n>>] = st
        BY <4>1, <4>2 DEF Stored
      <4> QED  BY <2>3, <2>4, <2>8, <3>2, <4>3
    <3>3. CASE d = c /\ k # at
      <4>1. envList[k] # n
        BY <1>3, <3>3
      <4>2. said'[<<d, envList[k]>>] = said[<<d, envList[k]>>]
        BY <1>1, <2>1, <2>9, <4>1
      <4>3. Array(d)'[k] = Array(d)[k]
        BY <2>4, <2>8, <3>3 DEF A
      <4> QED  BY <3>1, <4>2, <4>3
    <3>4. CASE d # c
      <4>1. said'[<<d, envList[k]>>] = said[<<d, envList[k]>>]
        BY <1>1, <2>1, <2>9, <3>4
      <4>2. Array(d)' = Array(d)
        BY <1>4, <2>7, <3>4
      <4> QED  BY <3>1, <4>1, <4>2
    <3> QED  BY <3>2, <3>3, <3>4
  <2>10. \A d \in EnvCo : pvEnv'[d] = <<>> \/ OfList(pvEnv[d])'
    <3>1. OfList(B)
      BY <2>5 DEF OfList
    <3> QED  BY <1>1, <2>7, <3>1 DEF OfList, EnvInv, EnvArrays
  <2>11. given # <<>> /\ said' = [s \in EnvCo \X EnvNames |-> said'[s]]
    BY <1>1, <1>5, <2>1 DEF Private
  <2>12. EnvListed'
    BY <1>1, EnvListedKept
  <2>13. EnvKept'
    BY <2>7, <2>11, <1>1 DEF EnvKept
  <2>14. EnvAgrees'
    BY <1>1, <2>9 DEF EnvAgrees
  <2> QED  BY <2>10, <2>12, <2>13, <2>14 DEF EnvInv, EnvArrays
<1>6. CASE ~(Private(c) /\ at # 0)
  <2>1. /\ said' = said
        /\ pvEnv' = IF ~Private(c) THEN pvEnv ELSE [pvEnv EXCEPT ![c] = A]
    BY <1>6 DEF SetEnv
  <2>2. /\ DOMAIN pvEnv' = EnvCo
        /\ \A d \in EnvCo : d # c => pvEnv'[d] = pvEnv[d]
        /\ pvEnv'[c] = pvEnv[c] \/ pvEnv'[c] = A
        /\ given = <<>> => pvEnv' = pvEnv
    BY <1>1, <2>1 DEF Private
  <2>3. Array(c)' = A
    <3>1. CASE pvEnv'[c] = pvEnv[c]
      BY <1>4, <3>1
    <3>2. CASE pvEnv'[c] = A
      BY <1>1, <3>2 DEF Array
    <3> QED  BY <2>2, <3>1, <3>2
  <2>4. \A d \in EnvCo : Array(d)' = Array(d)
    BY <1>4, <2>2, <2>3
  <2>5. \A d \in EnvCo : pvEnv'[d] = <<>> \/ OfList(pvEnv[d])'
    <3>1. ASSUME NEW d \in EnvCo
          PROVE  pvEnv'[d] = <<>> \/ OfList(pvEnv'[d])
      BY <1>2, <2>2 DEF EnvInv, EnvArrays
    <3>2. ASSUME NEW d \in EnvCo, OfList(pvEnv'[d])
          PROVE  OfList(pvEnv[d])'
      BY <1>1, <3>2 DEF OfList
    <3> QED  BY <3>1, <3>2
  <2>6. \A d \in EnvCo, k \in DOMAIN envList' :
          envList'[k] \in EnvNames =>
            said'[<<d, envList'[k]>>] = Array(d)'[k].value
    <3>1. ASSUME NEW d \in EnvCo, NEW k \in DOMAIN envList,
                 envList[k] \in EnvNames
          PROVE  said'[<<d, envList[k]>>] = Array(d)'[k].value
      <4>1. said[<<d, envList[k]>>] = Array(d)[k].value
        BY <3>1 DEF EnvInv, EnvAgrees
      <4> QED  BY <2>1, <2>4, <4>1
    <3> QED  BY <1>1, <3>1
  <2> HIDE DEF A, at
  <2>7. EnvListed'
    BY <1>1, EnvListedKept
  <2>8. EnvKept'
    BY <1>1, <2>1, <2>2 DEF EnvInv, EnvKept
  <2> QED  BY <2>5, <2>6, <2>7, <2>8 DEF EnvInv, EnvArrays, EnvAgrees
<1> QED  BY <1>5, <1>6

\* co_release and co_create: the array and what was set go together.
LEMMA RecreateStep ==
  ASSUME EnvInv, NEW c \in EnvCo, Recreate(c)
  PROVE  EnvInv'
<1>1. /\ UNCHANGED <<given, envList>> /\ DOMAIN pvEnv = EnvCo
      /\ pvEnv' = [pvEnv EXCEPT ![c] = <<>>] /\ given # <<>>
      /\ said' = [s \in DOMAIN said |-> IF s[1] = c THEN "unset" ELSE said[s]]
      /\ said = [s \in EnvCo \X EnvNames |-> said[s]]
  BY DEF Recreate, EnvInv, EnvKept, EnvListed
<1>2. /\ pvEnv'[c] = <<>> /\ DOMAIN pvEnv' = EnvCo
      /\ \A d \in EnvCo : d # c => pvEnv'[d] = pvEnv[d]
  BY <1>1
<1>3. said' = [s \in EnvCo \X EnvNames |->
                IF s[1] = c THEN "unset" ELSE said[s]]
  BY <1>1
<1>4. ASSUME NEW d \in EnvCo, NEW k \in DOMAIN envList, envList[k] \in EnvNames
      PROVE  said'[<<d, envList[k]>>] = Array(d)'[k].value
  <2>1. said'[<<d, envList[k]>>] =
          IF d = c THEN "unset" ELSE said[<<d, envList[k]>>]
    BY <1>3, <1>4
  <2>2. CASE d = c
    <3>1. Array(d)' = [j \in DOMAIN envList |->
                         [name |-> envList[j], value |-> "unset"]]
      BY <1>1, <1>2, <2>2 DEF Array
    <3> QED  BY <2>1, <2>2, <3>1
  <2>3. CASE d # c
    <3>1. Array(d)' = Array(d)
      BY <1>1, <1>2, <2>3 DEF Array
    <3>2. said[<<d, envList[k]>>] = Array(d)[k].value
      BY <1>4 DEF EnvInv, EnvAgrees
    <3> QED  BY <2>1, <2>3, <3>1, <3>2
  <2> QED  BY <2>2, <2>3
<1>5. \A d \in EnvCo : pvEnv'[d] = <<>> \/ OfList(pvEnv[d])'
  <2>1. \A d \in EnvCo : pvEnv'[d] = <<>> \/ OfList(pvEnv'[d])
    BY <1>2 DEF EnvInv, EnvArrays
  <2> QED  BY <1>1, <2>1 DEF OfList
<1>6. said' = [s \in EnvCo \X EnvNames |-> said'[s]]
  BY <1>3
<1>7. EnvListed'
  BY <1>1, EnvListedKept
<1>8. EnvKept'
  BY <1>1, <1>2, <1>6 DEF EnvKept
<1>9. EnvAgrees'
  BY <1>1, <1>4 DEF EnvAgrees
<1> QED  BY <1>5, <1>7, <1>8, <1>9 DEF EnvInv, EnvArrays

\* Steps that leave the list and the arrays alone.
LEMMA EnvUnchanged ==
  ASSUME EnvInv, UNCHANGED <<given, envList, pvEnv, environ, said>>
  PROVE  EnvInv'
<1>1. EnvListed'
  BY EnvListedKept
<1>2. EnvKept'
  BY DEF EnvInv, EnvKept
<1>3. EnvArrays'
  BY DEF EnvInv, EnvArrays, OfList
<1>4. \A c \in EnvCo : Array(c)' = Array(c)
  BY DEF Array
<1>5. EnvAgrees'
  BY <1>4 DEF EnvInv, EnvAgrees
<1> QED  BY <1>1, <1>2, <1>3, <1>5 DEF EnvInv

\* A coroutine with hooks reads of a listed variable what it set itself, and of
\* any other what the process has, for every list, with names twice or empty,
\* and any number of coroutines, names and values: the list is sorted and has
\* every name once, so that bsearch finds the one entry that setenv wrote.
THEOREM EnvironmentsArePrivate == SysEnvSpec => []EnvIsPrivate
<1>1. EnvInv => EnvIsPrivate
  <2> SUFFICES ASSUME EnvInv, NEW c \in EnvCo, NEW n \in EnvNames, Private(c)
               PROVE  getenv(c, n) = IF Contains(given, n) THEN said[<<c, n>>]
                                     ELSE environ[n]
    BY DEF EnvIsPrivate
  <2>1. /\ given \in Seq(EnvNames \cup {0}) /\ given # <<>>
        /\ {envList[i] : i \in DOMAIN envList}
             = {given[k] : k \in DOMAIN given} \ {0}
    BY EnvAssumption DEF EnvInv, EnvListed, Private
  <2>2. n # 0
    BY EnvAssumption
  <2>3. Contains(given, n) <=> \E k \in DOMAIN envList : envList[k] = n
    <3> DEFINE E == {envList[i] : i \in DOMAIN envList}
               G == {given[k] : k \in DOMAIN given}
    <3>1. Contains(given, n) <=> n \in G
      BY <2>1 DEF Contains
    <3>2. n \in E <=> \E k \in DOMAIN envList : envList[k] = n
      OBVIOUS
    <3>3. E = G \ {0}
      BY <2>1
    <3> HIDE DEF E, G
    <3> QED  BY <2>2, <3>1, <3>2, <3>3
  <2> DEFINE at == Found(Array(c), n)
  <2>4. /\ (at # 0) <=> (\E k \in DOMAIN envList : envList[k] = n)
        /\ at # 0 => at \in DOMAIN envList /\ envList[at] = n
    BY ArrayFound
  <2>5. getenv(c, n) = IF at # 0 THEN Array(c)[at].value ELSE environ[n]
    BY DEF getenv
  <2>6. at # 0 => said[<<c, n>>] = Array(c)[at].value
    BY <2>4 DEF EnvInv, EnvAgrees
  <2> QED  BY <2>3, <2>4, <2>5, <2>6
<1>2. EnvInv /\ [SysEnvNext]_envVars => EnvInv'
  <2> SUFFICES ASSUME EnvInv, [SysEnvNext]_envVars PROVE EnvInv'
    OBVIOUS
  <2>1. CASE SysEnvNext
    <3>1. CASE \E names \in EnvLists : co_set_env_list(names)
      BY <3>1, EnvListStep
    <3>2. CASE \E c \in EnvCo, n \in EnvNames,
                  value \in EnvValues \cup {"unset"}, overwrite \in BOOLEAN :
                    SetEnv(c, n, value, overwrite)
      BY <3>2, SetEnvStep
    <3>3. CASE \E c \in EnvCo : SwitchHooks(c)
      <4>1. UNCHANGED <<given, envList, pvEnv, environ, said>>
        BY <3>3 DEF SwitchHooks
      <4> QED  BY <4>1, EnvUnchanged
    <3>4. CASE \E c \in EnvCo : Recreate(c)
      BY <3>4, RecreateStep
    <3> QED  BY <2>1, <3>1, <3>2, <3>3, <3>4 DEF SysEnvNext
  <2>2. CASE UNCHANGED envVars
    <3>1. UNCHANGED <<given, envList, pvEnv, environ, said>>
      BY <2>2 DEF envVars
    <3> QED  BY <3>1, EnvUnchanged
  <2> QED  BY <2>1, <2>2
<1> QED  BY <1>1, <1>2, EnvInvInit, PTL DEF SysEnvSpec
-----------------------------------------------------------------------------
\* The moment of the clock time in day d.
At(d) == d * ONE_DAY_MS + clockSec * SecMs
Given == notified \cup ({notifyMs} \ {-1})

\* The invariant: what the caller was given are moments, the last of them is
\* less than a day ago or to come, and all moments before that one, back to
\* the first question, were notified.
DailyInv ==
  /\ dayNow \in Nat /\ since \in Nat /\ clockSec \in ClockTimes
  /\ notifyMs \in Nat \cup {-1}
  /\ \A ms \in Given : \E d \in Nat : ms = At(d)
  /\ \A ms \in notified : ms <= dayNow
  /\ Given = {} => dayNow = since
  /\ Given # {} =>
       \E last \in Given :
         /\ notifyMs # -1 => last = notifyMs
         /\ \A ms \in Given : ms <= last
         /\ dayNow <= last + ONE_DAY_MS
         /\ \A d \in Nat : since <= At(d) /\ At(d) < last => At(d) \in notified

\* Days and moments follow one another, and a moment is in its day.
LEMMA DaysPass ==
  ASSUME NEW D \in Nat \ {0}, NEW c \in 0..D - 1
  PROVE  /\ \A d \in Nat : d * D + c \in Nat
         /\ \A d, e \in Nat : d < e => d * D + D <= e * D
<1>1. ASSUME NEW d \in Nat
      PROVE  d * D \in Nat
  OBVIOUS
<1>2. ASSUME NEW d \in Nat, NEW e \in Nat, d < e
      PROVE  d * D + D <= e * D
  <2> DEFINE k == e - d - 1
  <2>1. k \in Nat /\ e = d + 1 + k
    BY <1>2
  <2> HIDE DEF k
  <2>2. e * D = d * D + D + k * D
    BY <2>1
  <2>3. k * D \in Nat /\ d * D \in Nat
    BY <2>1
  <2> QED  BY <2>2, <2>3
<1> QED  BY <1>1, <1>2

\* A quotient and a remainder are the only ones.
LEMMA OneQuotient ==
  ASSUME NEW D \in Nat \ {0}, NEW n \in Nat, NEW p \in Nat, NEW r \in 0..D - 1,
         n = p * D + r
  PROVE  n \div D = p
<1> DEFINE q == n \div D
           u == n % D
<1>1. q \in Nat /\ u \in 0..D - 1 /\ n = D * q + u
  OBVIOUS
<1> HIDE DEF q, u
<1>2. D * q = q * D /\ q * D \in Nat /\ p * D \in Nat
  BY <1>1
<1>3. ~(q < p) /\ ~(p < q)
  <2>1. q < p => q * D + D <= p * D
    BY <1>1, DaysPass
  <2>2. p < q => p * D + D <= q * D
    BY <1>1, DaysPass
  <2> QED  BY <1>1, <1>2, <2>1, <2>2
<1> QED  BY <1>1, <1>3 DEF q

LEMMA DayType ==
  ASSUME NEW sec \in ClockTimes
  PROVE  /\ SecMs \in Nat \ {0} /\ ONE_DAY_MS \in Nat \ {0}
         /\ sec * SecMs \in 0..ONE_DAY_MS - 1
<1>1. /\ SecMs \in Nat \ {0} /\ DaySec \in Nat \ {0} /\ sec \in 0..DaySec - 1
  BY DailyAssumption
<1>2. DaySec * SecMs \in Nat \ {0}
  BY <1>1
<1>3. sec * SecMs + SecMs <= DaySec * SecMs /\ sec * SecMs \in Nat
  <2>1. sec \in Nat /\ sec < DaySec
    BY <1>1
  <2>2. 0 \in 0..SecMs - 1
    BY <1>1
  <2> QED  BY <1>1, <2>1, <2>2, DaysPass
<1> QED  BY <1>1, <1>2, <1>3 DEF ONE_DAY_MS

\* The answer is the moment of today or, when that is at least a second past,
\* of tomorrow.
LEMMA AnswerIs ==
  ASSUME NEW n \in Nat, NEW sec \in ClockTimes
  PROVE  \E p \in Nat :
           /\ p * ONE_DAY_MS <= n /\ n < p * ONE_DAY_MS + ONE_DAY_MS
           /\ \/ getNextAbsClockMs(n, sec) = p * ONE_DAY_MS + sec * SecMs
              \/ /\ getNextAbsClockMs(n, sec)
                      = (p + 1) * ONE_DAY_MS + sec * SecMs
                 /\ p * ONE_DAY_MS + sec * SecMs < n
<1> DEFINE q == n \div SecMs
           r == n % SecMs
           p == q \div DaySec
           u == q % DaySec
<1>1. /\ SecMs \in Nat \ {0} /\ DaySec \in Nat \ {0} /\ sec \in 0..DaySec - 1
  BY DailyAssumption
<1>2. q \in Nat /\ r \in 0..SecMs - 1 /\ n = SecMs * q + r
  BY <1>1
<1>3. p \in Nat /\ u \in 0..DaySec - 1 /\ q = DaySec * p + u
  <2> HIDE DEF q
  <2> QED  BY <1>1, <1>2
<1>4. msToNowSeconds(n) = u
  BY DEF msToNowSeconds
<1> HIDE DEF q, r, p, u
<1> DEFINE D == ONE_DAY_MS
           v == u * SecMs
<1>5. D \in Nat \ {0} /\ v \in Nat /\ v + SecMs <= D
  <2>1. u \in Nat /\ u < DaySec /\ 0 \in 0..SecMs - 1
    BY <1>1, <1>3
  <2>2. v \in Nat /\ v + SecMs <= DaySec * SecMs
    BY <1>1, <2>1, DaysPass
  <2> QED  BY <1>1, <2>2, DayType DEF ONE_DAY_MS
<1>6. n = p * D + (v + r)
  <2>1. SecMs * q = SecMs * (DaySec * p) + SecMs * u
    BY <1>1, <1>3
  <2>2. SecMs * (DaySec * p) = p * (DaySec * SecMs)
    BY <1>1, <1>3
  <2>3. SecMs * u = u * SecMs
    BY <1>1, <1>3
  <2> QED  BY <1>1, <1>2, <1>3, <2>1, <2>2, <2>3 DEF ONE_DAY_MS
<1>7. v + r \in 0..D - 1 /\ p * D \in Nat
  <2> HIDE DEF D, v
  <2> QED  BY <1>1, <1>2, <1>3, <1>5
<1>8. n \div D = p
  <2> HIDE DEF D, v
  <2> QED  BY <1>3, <1>5, <1>6, <1>7, OneQuotient
<1>9. /\ u > sec + 1 => sec * SecMs < v
  <2> SUFFICES ASSUME u > sec + 1
               PROVE  sec * SecMs < v
    OBVIOUS
  <2>1. sec \in Nat /\ u \in Nat /\ sec < u /\ 0 \in 0..SecMs - 1
    BY <1>1, <1>3
  <2>2. sec * SecMs + SecMs <= u * SecMs /\ sec * SecMs \in Nat
    BY <1>1, <2>1, DaysPass
  <2> QED  BY <1>1, <1>5, <2>2
<1>10. getNextAbsClockMs(n, sec) =
         p * D + sec * SecMs + (IF u > sec + 1 THEN D ELSE 0)
  BY <1>4, <1>8 DEF getNextAbsClockMs, dateToMs
<1>11. (p + 1) * D = p * D + D
  <2> HIDE DEF D
  <2> QED  BY <1>3, <1>5
<1> DEFINE c == sec * SecMs
           g == getNextAbsClockMs(n, sec)
           pD == p * D
<1>12. c \in Nat
  BY <1>1
<1>13. /\ pD <= n /\ n < pD + D
       /\ g = pD + c \/ (g = (p + 1) * D + c /\ pD + c < n)
  <2>1. /\ g = pD + c + (IF u > sec + 1 THEN D ELSE 0)
        /\ (p + 1) * D = pD + D /\ n = pD + (v + r) /\ pD \in Nat
        /\ v + r \in 0..D - 1 /\ (u > sec + 1 => c < v)
    BY <1>6, <1>7, <1>9, <1>10, <1>11
  <2> DEFINE next == (p + 1) * D
             late == u > sec + 1
  <2>2. /\ g = pD + c + (IF late THEN D ELSE 0)
        /\ next = pD + D /\ (late => c < v) /\ late \in BOOLEAN
    BY <2>1
  <2> HIDE DEF next, late, g, c, pD, D, v
  <2>3. pD <= n /\ n < pD + D
    BY <2>1, <1>2, <1>5
  <2>4. CASE late
    <3>1. g = next + c
      BY <2>1, <2>2, <2>4, <1>5, <1>12
    <3>2. pD + c < n
      BY <2>1, <2>2, <2>4, <1>2, <1>5, <1>12
    <3> QED  BY <2>3, <3>1, <3>2 DEF next
  <2>5. CASE ~late
    BY <2>1, <2>2, <2>3, <2>5, <1>5, <1>12
  <2> QED  BY <2>4, <2>5
<1> QED  BY <1>3, <1>13

\* A question and its answer: the moments that the answer passes over were
\* notified, as the last one notified is less than a day ago.
LEMMA AskStep ==
  ASSUME DailyInv, AskNext
  PROVE  DailyInv'
<1> DEFINE D == ONE_DAY_MS
           c == clockSec * SecMs
           g == getNextAbsClockMs(dayNow, clockSec)
<1>1. /\ D \in Nat \ {0} /\ c \in 0..D - 1 /\ dayNow \in Nat /\ since \in Nat
      /\ clockSec \in ClockTimes
  BY DayType DEF DailyInv
<1>2. PICK p \in Nat : /\ p * D <= dayNow /\ dayNow < p * D + D
                       /\ g = p * D + c \/ (g = (p + 1) * D + c /\ p * D + c < dayNow)
  BY <1>1, AnswerIs
<1> DEFINE M(d) == d * D
<1>3. /\ \A d \in Nat : At(d) = M(d) + c /\ At(d)' = At(d) /\ M(d) \in Nat
      /\ \A d, e \in Nat : d < e => M(d) + D <= M(e)
  <2>1. \A d, e \in Nat : d < e => d * D + D <= e * D
    <3> HIDE DEF D
    <3> QED  BY <1>1, DaysPass
  <2>2. \A d \in Nat : d * D \in Nat
    <3> HIDE DEF D
    <3> QED  BY <1>1
  <2> QED  BY <2>1, <2>2 DEF At, AskNext, ONE_DAY_MS
<1>4. M(p) <= dayNow /\ dayNow < M(p) + D
  BY <1>2
<1>5. PICK a \in Nat : g = At(a) /\ (a = p \/ (a = p + 1 /\ At(p) < dayNow))
  <2>1. p + 1 \in Nat /\ At(p) = M(p) + c /\ At(p + 1) = M(p + 1) + c
    BY <1>3
  <2> HIDE DEF g, D, c
  <2> QED  BY <1>2, <2>1
<1> HIDE DEF D, c, M
<1>6. \A d \in Nat : At(d) \in Nat /\ M(d) <= At(d) /\ At(d) < M(d) + D
  BY <1>1, <1>3
<1>7. \A d, e \in Nat : /\ d < e => At(d) < M(e) /\ At(d) + D <= At(e)
                        /\ d <= e => At(d) <= At(e)
  <2> SUFFICES ASSUME NEW d \in Nat, NEW e \in Nat
               PROVE  /\ d < e => At(d) < M(e) /\ At(d) + D <= At(e)
                      /\ d <= e => At(d) <= At(e)
    OBVIOUS
  <2>1. /\ At(d) = M(d) + c /\ At(e) = M(e) + c
        /\ M(d) \in Nat /\ M(e) \in Nat /\ c \in Nat /\ c < D
    BY <1>1, <1>3
  <2>2. CASE d < e
    <3>1. M(d) + D <= M(e)
      BY <1>3, <2>2
    <3> QED  BY <1>1, <2>1, <2>2, <3>1
  <2>3. CASE d = e
    BY <2>1, <2>3
  <2> QED  BY <2>1, <2>2, <2>3
<1>8. /\ notifyMs = -1 /\ notifyMs' = g
      /\ UNCHANGED <<dayNow, clockSec, notified, since>>
      /\ Given = notified /\ Given' = notified \cup {g}
  BY <1>5, <1>6 DEF AskNext, Given, g
<1> HIDE DEF g
<1>9. /\ \A ms \in notified : ms <= g
      /\ dayNow <= g + D
      /\ \A d \in Nat : since <= At(d) /\ At(d) < g => At(d) \in notified
  <2>1. CASE notified = {}
    <3>1. dayNow = since
      BY <1>8, <2>1 DEF DailyInv
    <3>2. dayNow <= g + D
      <4>1. M(p) <= At(p) /\ At(p) <= g /\ At(p) \in Nat /\ M(p) \in Nat /\ g \in Nat
        <5>1. p <= a
          BY <1>5
        <5> QED  BY <1>3, <1>5, <1>6, <1>7, <5>1
      <4> QED  BY <1>1, <1>4, <4>1
    <3>3. ASSUME NEW d \in Nat, since <= At(d), At(d) < g
          PROVE  FALSE
      <4>1. d < a
        BY <1>5, <1>6, <1>7, <3>3
      <4>2. d <= p
        BY <1>5, <4>1
      <4>3. CASE d = p
        BY <1>1, <1>5, <1>6, <3>1, <3>3, <4>1, <4>3
      <4>4. CASE d < p
        BY <1>1, <1>4, <1>3, <1>6, <1>7, <3>1, <3>3, <4>4
      <4> QED  BY <4>2, <4>3, <4>4
    <3> QED  BY <2>1, <3>2, <3>3
  <2>2. CASE notified # {}
    <3>1. PICK last \in notified :
            /\ \A ms \in notified : ms <= last
            /\ dayNow <= last + D
            /\ \A d \in Nat : since <= At(d) /\ At(d) < last => At(d) \in notified
      BY <1>8, <2>2 DEF DailyInv, D
    <3>2. PICK l \in Nat : last = At(l)
      BY <1>8, <3>1 DEF DailyInv
    <3>3. last <= dayNow
      BY <3>1 DEF DailyInv
    <3>4. l <= p
      <4>1. ~(p < l)
        BY <1>1, <1>4, <1>3, <1>6, <3>2, <3>3
      <4> QED  BY <4>1
    <3>5. p <= a /\ At(l) <= g
      BY <1>5, <1>7, <3>4
    <3>6. ASSUME NEW d \in Nat, d < a
          PROVE  d <= l
      <4>1. CASE a = p
        <5>1. ~(l + 1 < p)
          <6> SUFFICES ASSUME l + 1 < p PROVE FALSE
            OBVIOUS
          <6>1. At(l) + D <= At(l + 1) /\ At(l + 1) < M(p) /\ At(l) \in Nat
                /\ At(l + 1) \in Nat
            BY <1>6, <1>7
          <6> QED  BY <1>1, <1>3, <1>4, <3>1, <3>2, <6>1
        <5> QED  BY <3>6, <4>1, <5>1
      <4>2. CASE a = p + 1 /\ At(p) < dayNow
        <5>1. ~(l < p)
          BY <1>1, <1>7, <1>6, <3>1, <3>2, <4>2
        <5> QED  BY <3>6, <4>2, <5>1
      <4> QED  BY <1>5, <4>1, <4>2
    <3>7. ASSUME NEW d \in Nat, since <= At(d), At(d) < g
          PROVE  At(d) \in notified
      <4>1. d < a
        BY <1>5, <1>6, <1>7, <3>7
      <4>2. d <= l
        BY <3>6, <4>1
      <4>3. CASE d = l
        BY <3>1, <3>2, <4>3
      <4>4. CASE d < l
        <5>1. At(d) < last
          BY <1>1, <1>6, <1>7, <3>2, <4>4
        <5> QED  BY <3>1, <3>7, <5>1
      <4> QED  BY <4>2, <4>3, <4>4
    <3>8. dayNow <= g + D
      BY <1>1, <1>5, <1>6, <3>1, <3>2, <3>5
    <3>9. \A ms \in notified : ms <= g
      <4>1. ASSUME NEW ms \in notified
            PROVE  ms <= g
        <5>1. ms <= At(l) /\ ms \in Nat
          BY <1>6, <1>8, <3>1, <3>2 DEF DailyInv
        <5> QED  BY <1>5, <1>6, <3>5, <5>1
      <4> QED  BY <4>1
    <3> QED  BY <3>7, <3>8, <3>9
  <2> QED  BY <2>1, <2>2
<1>10. g \in Nat /\ g <= g
  BY <1>5, <1>6
<1>11. \A ms \in Given' : \E d \in Nat : ms = At(d)'
  BY <1>3, <1>5, <1>8 DEF DailyInv
<1>12. \A d \in Nat : since <= At(d)' /\ At(d)' < g => At(d)' \in notified
  BY <1>3, <1>9
<1>13. \E last \in Given' :
         /\ notifyMs' # -1 => last = notifyMs'
         /\ \A ms \in Given' : ms <= last
         /\ dayNow' <= last + ONE_DAY_MS
         /\ \A d \in Nat :
              since' <= At(d)' /\ At(d)' < last => At(d)' \in notified'
  BY <1>8, <1>9, <1>10, <1>12 DEF D
<1>14. /\ \A ms \in notified' : ms <= dayNow'
       /\ dayNow' \in Nat /\ since' \in Nat /\ clockSec' \in ClockTimes
       /\ notifyMs' \in Nat \cup {-1} /\ Given' # {}
  BY <1>1, <1>8, <1>10 DEF DailyInv
<1>15. ONE_DAY_MS' = ONE_DAY_MS
  BY DEF ONE_DAY_MS
<1> QED  BY <1>11, <1>13, <1>14, <1>15 DEF DailyInv

\* common.h:825: a caller that wakes up less than a day late and asks again
\* misses no day.
THEOREM NoDayIsMissed ==
  ASSUME Late <= ONE_DAY_MS
  PROVE  DailySpec => []NoDayMissed
<1>1. DailyInit => DailyInv
  <2> SUFFICES ASSUME DailyInit PROVE DailyInv
    OBVIOUS
  <2>1. ONE_DAY_MS \in Nat \ {0}
    BY DayType DEF DailyInit
  <2>2. Given = {} /\ dayNow \in Nat
    BY <2>1 DEF DailyInit, Given
  <2> QED  BY <2>2 DEF DailyInit, DailyInv
<1>2. DailyInv /\ [DailyNext]_dailyVars => DailyInv'
  <2> SUFFICES ASSUME DailyInv, [DailyNext]_dailyVars PROVE DailyInv'
    OBVIOUS
  <2>1. CASE AskNext
    BY <2>1, AskStep
  <2>2. CASE Notify
    <3>1. /\ notifyMs \in Nat /\ notifyMs <= dayNow /\ notifyMs' = -1
          /\ notified' = notified \cup {notifyMs}
          /\ UNCHANGED <<dayNow, clockSec, since>>
      BY <2>2 DEF Notify, DailyInv
    <3>2. Given' = Given /\ notifyMs \in Given
      BY <3>1 DEF Given
    <3>3. \A d \in Nat : At(d)' = At(d)
      BY <3>1 DEF At, ONE_DAY_MS
    <3>4. PICK last \in Given :
            /\ \A ms \in Given : ms <= last
            /\ dayNow <= last + ONE_DAY_MS
            /\ \A d \in Nat :
                 since <= At(d) /\ At(d) < last => At(d) \in notified
      BY <3>2 DEF DailyInv
    <3>5. \A d \in Nat :
            since' <= At(d)' /\ At(d)' < last => At(d)' \in notified'
      BY <3>1, <3>3, <3>4
    <3>6. ONE_DAY_MS' = ONE_DAY_MS
      BY DEF ONE_DAY_MS
    <3>7. \A ms \in Given' : \E d \in Nat : ms = At(d)'
      BY <3>2, <3>3 DEF DailyInv
    <3> QED  BY <3>1, <3>2, <3>4, <3>5, <3>6, <3>7 DEF DailyInv
  <2>3. CASE Pass
    <3>1. PICK ms \in notified \cup {notifyMs} : ms >= 0 /\ dayNow < ms + Late
      BY <2>3 DEF Pass
    <3>2. /\ dayNow' = dayNow + 1
          /\ UNCHANGED <<clockSec, notifyMs, notified, since>>
      BY <2>3 DEF Pass
    <3>3. ms \in Given /\ ms \in Given' /\ Given' = Given
      BY <3>1, <3>2 DEF Given
    <3>4. \A d \in Nat : At(d)' = At(d)
      BY <3>2 DEF At, ONE_DAY_MS
    <3>5. PICK last \in Given :
            /\ notifyMs # -1 => last = notifyMs
            /\ \A x \in Given : x <= last
            /\ \A d \in Nat :
                 since <= At(d) /\ At(d) < last => At(d) \in notified
      BY <3>3 DEF DailyInv
    <3>6. ONE_DAY_MS' = ONE_DAY_MS /\ ONE_DAY_MS \in Nat /\ Late \in Nat
      BY DayType, DailyAssumption DEF ONE_DAY_MS, DailyInv
    <3>7. \A x \in Given : x \in Nat
      <4>1. clockSec * SecMs \in Nat /\ ONE_DAY_MS \in Nat
        BY DayType DEF DailyInv
      <4>2. \A d \in Nat : At(d) \in Nat
        BY <4>1 DEF At
      <4> QED  BY <4>2 DEF DailyInv
    <3>8. dayNow' <= last + ONE_DAY_MS
      <4>1. dayNow \in Nat /\ ms \in Nat /\ last \in Nat /\ ms <= last
        BY <3>3, <3>5, <3>7 DEF DailyInv
      <4> QED  BY <3>1, <3>2, <3>6, <4>1
    <3>9. \A x \in notified : x <= dayNow + 1
      <4>1. \A x \in notified : x \in Nat /\ x <= dayNow
        BY <3>7 DEF DailyInv, Given
      <4>2. dayNow \in Nat
        BY DEF DailyInv
      <4> QED  BY <4>1, <4>2
    <3>10. \A d \in Nat :
             since' <= At(d)' /\ At(d)' < last => At(d)' \in notified'
      BY <3>2, <3>4, <3>5
    <3>11. \A x \in Given' : \E d \in Nat : x = At(d)'
      BY <3>3, <3>4 DEF DailyInv
    <3> QED  BY <3>2, <3>3, <3>5, <3>6, <3>8, <3>9, <3>10, <3>11 DEF DailyInv
  <2>4. CASE UNCHANGED dailyVars
    BY <2>4 DEF dailyVars, DailyInv, Given, At, ONE_DAY_MS
  <2> QED  BY <2>1, <2>2, <2>3, <2>4 DEF DailyNext
<1>3. DailyInv => NoDayMissed
  <2> SUFFICES ASSUME DailyInv, NEW m \in Due, since <= m, m < notifyMs
               PROVE  m \in notified
    BY DEF NoDayMissed
  <2>1. m \in Nat /\ notifyMs # -1 /\ notifyMs \in Given
    <3>1. clockSec * SecMs \in Nat /\ ONE_DAY_MS \in Nat \ {0} /\ MaxNow \in Nat
      BY DayType, DailyAssumption DEF DailyInv
    <3>2. PICK d \in 0 .. MaxNow \div ONE_DAY_MS :
            m = d * ONE_DAY_MS + clockSec * SecMs
      BY DEF Due
    <3>3. m \in Nat
      BY <3>1, <3>2
    <3> QED  BY <3>3 DEF DailyInv, Given
  <2>2. PICK d \in Nat : m = At(d)
    <3>1. MaxNow \div ONE_DAY_MS \in Nat
      BY DayType, DailyAssumption DEF DailyInv
    <3> QED  BY <3>1 DEF Due, At
  <2> QED  BY <2>1, <2>2 DEF DailyInv
<1> QED  BY <1>1, <1>2, <1>3, PTL DEF DailySpec
-----------------------------------------------------------------------------
\* What a file of flags is made of.
Texts == FileWords \cup DOMAIN FlagType \cup Signs
           \cup {"", "true", "false", "number", "bytes", "text"}
Words == [text : Texts, n : Int]

\* A sequence from a place on.
Suffix(s, a) == SubSeq(s, a, Len(s))

\* What is left of a sequence is left of what is left.
LEMMA SuffixIs ==
  ASSUME NEW S, NEW s \in Seq(S), NEW a \in 1..Len(s) + 1
  PROVE  /\ Suffix(s, a) \in Seq(S)
         /\ Len(Suffix(s, a)) = Len(s) - a + 1
         /\ \A k \in 1..Len(s) - a + 1 : Suffix(s, a)[k] = s[a + k - 1]
         /\ a <= Len(s) => Tail(Suffix(s, a)) = Suffix(s, a + 1)
         /\ \A k \in 1..Len(s) - a + 2 :
              SubSeq(Suffix(s, a), k, Len(s) - a + 1) = Suffix(s, a + k - 1)
<1> DEFINE N == Len(s)
           M == N - a + 1
<1>1. N \in Nat /\ M \in Nat /\ \A k \in 1..N : s[k] \in S
  OBVIOUS
<1>2. ASSUME NEW b \in 1..N + 1
      PROVE  /\ Suffix(s, b) = [k \in 1..N - b + 1 |-> s[b + k - 1]]
             /\ Suffix(s, b) \in Seq(S) /\ Len(Suffix(s, b)) = N - b + 1
  BY DEF Suffix
<1>3. \A k \in 1..M : Suffix(s, a)[k] = s[a + k - 1]
  BY <1>2
<1>4. ASSUME a <= N
      PROVE  Tail(Suffix(s, a)) = Suffix(s, a + 1)
  <2>1. a \in 1..N /\ N \in a..N
    BY <1>4
  <2> QED  BY <2>1, HeadTailOfSubSeq DEF Suffix
<1>5. ASSUME NEW k \in 1..M + 1
      PROVE  SubSeq(Suffix(s, a), k, M) = Suffix(s, a + k - 1)
  <2> DEFINE u == Suffix(s, a)
             b == a + k - 1
  <2>1. u \in Seq(S) /\ Len(u) = M /\ \A j \in 1..M : u[j] = s[a + j - 1]
    BY <1>2, <1>3
  <2>2. b \in 1..N + 1 /\ N - b + 1 = M - k + 1
    BY <1>1
  <2>3. Suffix(s, b) = [j \in 1..N - b + 1 |-> s[b + j - 1]]
    BY <1>2, <2>2
  <2>4. \A j \in 1..M - k + 1 :
          k + j - 1 \in 1..M /\ a + (k + j - 1) - 1 = b + j - 1
    BY <1>1
  <2> HIDE DEF u, b, N, M
  <2>5. SubSeq(u, k, M) = [j \in 1..M - k + 1 |-> u[k + j - 1]]
    BY <1>1, <2>1
  <2>6. \A j \in 1..M - k + 1 : u[k + j - 1] = s[b + j - 1]
    BY <2>1, <2>4
  <2>7. SubSeq(u, k, M) = Suffix(s, b)
    BY <2>2, <2>3, <2>5, <2>6
  <2> QED  BY <2>7 DEF u, b, N, M
<1> QED  BY <1>2, <1>3, <1>4, <1>5

\* The least of a set of places.
LEMMA MinIs ==
  ASSUME NEW I \in SUBSET Nat, NEW i \in I, \A j \in I : i <= j
  PROVE  Min(I) = i
<1>1. \E x \in I : \A y \in I : x <= y
  OBVIOUS
<1>2. Min(I) \in I /\ \A y \in I : Min(I) <= y
  BY <1>1 DEF Min
<1>3. Min(I) \in Nat /\ i \in Nat /\ Min(I) <= i /\ i <= Min(I)
  BY <1>2
<1> QED  BY <1>3

\* The least of some places of a sequence.
LEMMA LeastPlace ==
  ASSUME NEW N \in Nat, NEW P, P \subseteq 1..N, P # {}
  PROVE  Min(P) \in P /\ Min(P) \in 1..N /\ \A k \in P : Min(P) <= k
<1>1. P \in SUBSET Nat
  OBVIOUS
<1>2. PICK i \in P : \A k \in P : i <= k
  BY <1>1, NatLeast
<1>3. Min(P) = i
  BY <1>1, <1>2, MinIs
<1> QED  BY <1>2, <1>3

\* Words, and what Next leaves when there is none.
LEMMA WordsAre ==
  /\ \A t \in Texts, n \in Int : [text |-> t, n |-> n] \in Words
  /\ \A t \in Texts : Sign(t) \in Words
  /\ \A w \in Words : w.text \in Texts /\ w.n \in Int
  /\ DOMAIN FlagType \subseteq Texts
  /\ {"", "true", "false", "number", "bytes", "text", " ", "=", "quote"}
       \subseteq Texts
  /\ Nothing.kind = "none" /\ Nothing.word \in Words
  /\ Nothing.rest \in Seq(Words)
<1>1. {"", "true", "false", "number", "bytes", "text", " ", "=", "quote"}
       \subseteq Texts
  BY DEF Texts, Signs
<1>2. \A t \in Texts, n \in Int : [text |-> t, n |-> n] \in Words
  BY DEF Words
<1>3. \A t \in Texts : Sign(t) \in Words
  BY <1>2 DEF Sign
<1>4. \A w \in Words : w.text \in Texts /\ w.n \in Int
  BY DEF Words
<1>5. Nothing.kind = "none" /\ Nothing.word = Sign("") /\ Nothing.rest = <<>>
  BY DEF Nothing
<1>6. DOMAIN FlagType \subseteq Texts
  BY DEF Texts
<1>7. Nothing.word \in Words
  BY <1>1, <1>3, <1>5
<1>8. Nothing.rest \in Seq(Words)
  <2>1. <<>> \in Seq(Words)
    OBVIOUS
  <2> QED  BY <1>5, <2>1
<1> QED  BY <1>1, <1>2, <1>3, <1>4, <1>5, <1>6, <1>7, <1>8

\* LineScanner::Next from a place of a line on: blanks are passed, and the
\* token is the one at the first place that is not blank.
LEMMA ScanIs ==
  ASSUME NEW line \in Seq(Words), NEW a \in 1..Len(line) + 1
  PROVE  /\ (\A k \in a..Len(line) : line[k].text = " ")
              => Scan(Suffix(line, a)) = Nothing
         /\ \A i \in a..Len(line) :
              line[i].text # " " /\ (\A k \in a..i - 1 : line[k].text = " ")
                => Scan(Suffix(line, a)) = Token(Suffix(line, i))
<1> DEFINE u == Suffix(line, a)
           N == Len(line)
           M == N - a + 1
           words == {k \in DOMAIN u : u[k].text # " "}
<1>1. /\ N \in Nat /\ M \in Nat /\ u \in Seq(Words) /\ Len(u) = M
      /\ DOMAIN u = 1..M /\ \A k \in 1..M : u[k] = line[a + k - 1]
      /\ \A k \in 1..M + 1 : SubSeq(u, k, M) = Suffix(line, a + k - 1)
  <2>1. N \in Nat /\ M \in Nat /\ M + 1 = N - a + 2
    OBVIOUS
  <2>2. /\ u \in Seq(Words) /\ Len(u) = N - a + 1
        /\ \A k \in 1..N - a + 1 : u[k] = line[a + k - 1]
        /\ \A k \in 1..N - a + 2 :
              SubSeq(u, k, N - a + 1) = Suffix(line, a + k - 1)
    BY SuffixIs
  <2> HIDE DEF u
  <2> QED  BY <2>1, <2>2
<1>10. M = N - a + 1 /\ a \in 1..N + 1
  OBVIOUS
<1> HIDE DEF u, N, M
<1>11. words = {k \in 1..M : u[k].text # " "}
  BY <1>1
<1> HIDE DEF words
<1>2. ASSUME \A k \in a..N : line[k].text = " "
      PROVE  Scan(u) = Nothing
  <2>1. \A k \in 1..M : a + k - 1 \in a..N
    BY <1>1, <1>10
  <2>2. words = {}
    BY <1>1, <1>2, <1>11, <2>1
  <2> QED  BY <2>2 DEF Scan, words
<1>3. ASSUME NEW i \in a..N, line[i].text # " ",
             \A k \in a..i - 1 : line[k].text = " "
      PROVE  words # {} /\ SubSeq(u, Min(words), Len(u)) = Suffix(line, i)
  <2> DEFINE m == i - a + 1
  <2>1. m \in 1..M /\ a + m - 1 = i
    BY <1>1, <1>10
  <2>2. m \in words
    BY <1>1, <1>3, <1>11, <2>1
  <2>3. ASSUME NEW k \in words, ~(m <= k)
        PROVE  FALSE
    <3>1. k \in 1..M
      BY <1>11
    <3>2. a + k - 1 \in a..i - 1
      BY <1>1, <1>10, <2>1, <2>3, <3>1
    <3>3. u[k].text = " "
      BY <1>1, <1>3, <3>1, <3>2
    <3> QED  BY <1>11, <3>3
  <2>4. words \in SUBSET Nat
    <3>1. \A k \in words : k \in 1..M
      BY <1>11
    <3>2. 1..M \subseteq Nat
      OBVIOUS
    <3> QED  BY <3>1, <3>2
  <2> HIDE DEF m
  <2>5. Min(words) = m
    BY <2>2, <2>3, <2>4, MinIs
  <2>6. SubSeq(u, m, M) = Suffix(line, a + m - 1)
    BY <1>1, <2>1
  <2> QED  BY <1>1, <2>1, <2>2, <2>5, <2>6
<1>4. ASSUME NEW i \in a..N, line[i].text # " ",
             \A k \in a..i - 1 : line[k].text = " "
      PROVE  Scan(u) = Token(Suffix(line, i))
  BY <1>3, <1>4 DEF Scan, words
<1> QED  BY <1>2, <1>4 DEF u, N


\* A token of a line of words is a word, and what is left is a line of words.
LEMMA TokenType ==
  ASSUME NEW line \in Seq(Words), line # <<>>
  PROVE  Token(line).word \in Words /\ Token(line).rest \in Seq(Words)
<1> DEFINE N == Len(line)
           quotes == {i \in 2..N : line[i].text = "quote"}
           q == Min(quotes)
<1>1. /\ N \in Nat \ {0} /\ line[1] \in Words /\ Tail(line) \in Seq(Words)
      /\ \A i \in 1..N : line[i] \in Words
  OBVIOUS
<1>2. /\ Sign("") \in Words /\ Sign("text") \in Words /\ Nothing.word \in Words
      /\ Nothing.rest \in Seq(Words)
  BY WordsAre
<1>3. ASSUME quotes # {}
      PROVE  q \in 2..N /\ line[2] \in Words /\ SubSeq(line, q, N) \in Seq(Words)
  <2>1. quotes \subseteq 1..N /\ quotes \subseteq 2..N
    BY <1>1
  <2> HIDE DEF quotes, N
  <2>2. q \in quotes
    BY <1>1, <1>3, <2>1, LeastPlace
  <2> HIDE DEF q
  <2>3. q \in 2..N /\ 2 \in 1..N
    <3>1. q \in 2..N
      BY <2>1, <2>2
    <3> QED  BY <1>1, <3>1
  <2>4. SubSeq(line, q, N) \in Seq(Words)
    BY <2>3, <1>1 DEF N
  <2> QED  BY <1>1, <2>3, <2>4
<1>4. Token(line) =
        IF line[1].text = "="
        THEN [kind |-> "assign", word |-> line[1], rest |-> Tail(line)]
        ELSE IF line[1].text = "quote" /\ quotes # {}
        THEN [kind |-> "value",
              word |-> Quotation(line, q),
              rest |-> SubSeq(line, q, N)]
        ELSE IF line[1].text \in Signs THEN Nothing
        ELSE [kind |-> "name", word |-> line[1], rest |-> Tail(line)]
  BY DEF Token
<1> HIDE DEF quotes, q, N
<1>5. CASE line[1].text = "="
  BY <1>1, <1>4, <1>5
<1>6. CASE line[1].text # "=" /\ line[1].text = "quote" /\ quotes # {}
  <2> DEFINE t == [kind |-> "value",
                   word |-> Quotation(line, q),
                   rest |-> SubSeq(line, q, N)]
  <2>1. Token(line) = t
    BY <1>4, <1>6
  <2>2. t.word \in Words /\ t.rest \in Seq(Words)
    BY <1>2, <1>3, <1>6 DEF Quotation
  <2> QED  BY <2>1, <2>2
<1>7. CASE line[1].text # "=" /\ ~(line[1].text = "quote" /\ quotes # {})
  <2>1. Token(line) = Nothing \/
        Token(line) = [kind |-> "name", word |-> line[1], rest |-> Tail(line)]
    BY <1>4, <1>7
  <2>2. 1 \in 1..N
    BY <1>1
  <2>3. CASE Token(line) = Nothing
    BY <1>2, <2>3
  <2>4. CASE Token(line) =
               [kind |-> "name", word |-> line[1], rest |-> Tail(line)]
    BY <1>1, <2>4
  <2> QED  BY <2>1, <2>3, <2>4
<1> QED  BY <1>5, <1>6, <1>7

\* LineScanner::Next gives a word, and leaves words.
LEMMA ScanType ==
  ASSUME NEW line \in Seq(Words)
  PROVE  Scan(line).word \in Words /\ Scan(line).rest \in Seq(Words)
<1> DEFINE N == Len(line)
<1>1. N \in Nat /\ 1 \in 1..N + 1 /\ Suffix(line, 1) = line
  BY DEF Suffix
<1>2. /\ Nothing.word \in Words /\ Nothing.rest \in Seq(Words)
  BY WordsAre
<1> HIDE DEF N
<1>3. CASE \A k \in 1..N : line[k].text = " "
  <2>1. Scan(Suffix(line, 1)) = Nothing
    BY <1>1, <1>3, ScanIs DEF N
  <2> QED  BY <1>1, <1>2, <2>1
<1>4. CASE \E k \in 1..N : line[k].text # " "
  <2> DEFINE words == {k \in 1..N : line[k].text # " "}
  <2>1. words \subseteq 1..N /\ words # {}
    BY <1>4
  <2>2. PICK i \in 1..N : i \in words /\ \A k \in words : i <= k
    <3> HIDE DEF words
    <3> QED  BY <1>1, <2>1, LeastPlace
  <2>3. i \in 1..N /\ line[i].text # " "
    BY <2>2
  <2>4. \A k \in 1..i - 1 : line[k].text = " "
    <3>1. N \in Nat
      BY <1>1
    <3>2. \A k \in 1..i - 1 : k \in 1..N
      BY <3>1
    <3>3. \A k \in 1..i - 1 : ~(i <= k)
      BY <3>1
    <3>4. \A k \in 1..i - 1 : k \notin words
      <4> HIDE DEF words
      <4> QED  BY <2>2, <3>3
    <3> QED  BY <3>2, <3>4
  <2> HIDE DEF words
  <2>5. Scan(line) = Token(Suffix(line, i))
    BY <1>1, <2>3, <2>4, ScanIs DEF N
  <2>6. Suffix(line, i) \in Seq(Words) /\ Suffix(line, i) # <<>>
    <3>1. i \in 1..Len(line) + 1 /\ Len(line) - i + 1 > 0
      <4>1. N \in Nat
        BY <1>1
      <4>2. i \in 1..N + 1 /\ N - i + 1 > 0
        BY <4>1
      <4> QED  BY <4>2 DEF N
    <3>2. /\ Suffix(line, i) \in Seq(Words)
          /\ Len(Suffix(line, i)) = Len(line) - i + 1
      BY <3>1, SuffixIs
    <3> QED  BY <3>1, <3>2
  <2> QED  BY <2>5, <2>6, TokenType
<1> QED  BY <1>3, <1>4

\* Whether a value is one of a type.
Suits(type, v) ==
  /\ type = "bool" => v \in BOOLEAN
  /\ type = "int" => v \in -MaxInt - 1 .. MaxInt
  /\ type = "uint64" => v \in Nat

\* The word that LoadFrom finds in the line that SaveTo wrote of a value.
SavedWord(type, v) ==
  IF type = "bool" THEN Sign(IF v THEN "true" ELSE "false")
  ELSE IF type = "string" THEN Sign("bytes") ELSE Number(v)

\* The types of flags.
Types == {"bool", "int", "uint64", "string"}

\* What SaveTo writes of a value: its word, or between quotes.
LEMMA ReprIs ==
  ASSUME NEW type \in Types, NEW v, Suits(type, v)
  PROVE  /\ SavedWord(type, v) \in Words /\ SavedWord(type, v).text \notin Signs
         /\ type # "string" => Repr(type, v) = <<SavedWord(type, v)>>
         /\ type = "string" =>
              Repr(type, v) = <<Sign("quote"), SavedWord(type, v), Sign("quote")>>
         /\ Repr(type, v) \in Seq(Words)
<1> DEFINE w == SavedWord(type, v)
<1>1. /\ {"true", "false", "number", "bytes", "quote"} \subseteq Texts
      /\ {"true", "false", "number", "bytes"} \cap Signs = {}
  BY WordsAre DEF Signs
<1>2. CASE type = "bool"
  <2>1. w = Sign(IF v THEN "true" ELSE "false") /\ Repr(type, v) = <<w>>
    BY <1>2 DEF SavedWord, Repr
  <2>2. v \in BOOLEAN
    BY <1>2 DEF Suits
  <2>3. w = Sign("true") \/ w = Sign("false")
    BY <2>1, <2>2
  <2>4. w \in Words
    BY <1>1, <2>3, WordsAre
  <2>5. w.text \notin Signs
    BY <1>1, <2>3 DEF Sign
  <2> HIDE DEF w
  <2>6. Repr(type, v) \in Seq(Words)
    BY <2>1, <2>4
  <2> QED  BY <1>2, <2>1, <2>4, <2>5, <2>6 DEF w
<1>3. CASE type \in {"int", "uint64"}
  <2>1. w = Number(v) /\ Repr(type, v) = <<w>>
    BY <1>3 DEF SavedWord, Repr
  <2>2. v \in Int
    BY <1>3, FlagAssumption DEF Suits
  <2>3. w = [text |-> "number", n |-> v]
    BY <2>1 DEF Number
  <2>4. w \in Words /\ w.text \notin Signs
    <3>1. w \in Words
      <4>1. "number" \in Texts
        BY <1>1
      <4>2. [text |-> "number", n |-> v] \in Words
        BY <2>2, <4>1, WordsAre
      <4> QED  BY <2>3, <4>2
    <3>2. w.text = "number"
      BY <2>3
    <3> QED  BY <1>1, <3>1, <3>2
  <2> HIDE DEF w
  <2>5. Repr(type, v) \in Seq(Words)
    BY <2>1, <2>4
  <2> QED  BY <1>3, <2>1, <2>4, <2>5 DEF w
<1>4. CASE type = "string"
  <2>1. w = Sign("bytes") /\ Repr(type, v) = <<Sign("quote"), w, Sign("quote")>>
    BY <1>4 DEF SavedWord, Repr
  <2>2. w \in Words /\ Sign("quote") \in Words
    BY <1>1, <2>1, WordsAre
  <2>3. w.text \notin Signs
    BY <1>1, <2>1 DEF Sign
  <2> HIDE DEF w
  <2>4. Repr(type, v) \in Seq(Words)
    BY <2>1, <2>2
  <2> QED  BY <1>4, <2>1, <2>2, <2>3, <2>4 DEF w
<1> QED  BY <1>2, <1>3, <1>4 DEF Types

\* The line of a flag: its name, the sign, and what Repr gives.
LEMMA LineIs ==
  ASSUME NEW name \in DOMAIN FlagType, NEW v, Suits(FlagType[name], v)
  PROVE  LET L == Line(name, v)
             w == SavedWord(FlagType[name], v)
         IN  /\ L \in Seq(Words)
             /\ L[1] = Sign(name) /\ L[2] = Sign(" ") /\ L[3] = Sign("=")
             /\ L[4] = Sign(" ")
             /\ FlagType[name] # "string" => Len(L) = 5 /\ L[5] = w
             /\ FlagType[name] = "string" =>
                  Len(L) = 7 /\ L[5] = Sign("quote") /\ L[6] = w
                  /\ L[7] = Sign("quote")
<1> DEFINE L == Line(name, v)
           w == SavedWord(FlagType[name], v)
           A == <<Sign(name), Sign(" "), Sign("="), Sign(" ")>>
           B == Repr(FlagType[name], v)
<1>1. FlagType[name] \in Types
  BY FlagAssumption DEF Types
<1>2. /\ w \in Words /\ B \in Seq(Words)
      /\ FlagType[name] # "string" => B = <<w>>
      /\ FlagType[name] = "string" => B = <<Sign("quote"), w, Sign("quote")>>
  BY <1>1, ReprIs
<1>3. /\ A \in Seq(Words) /\ Len(A) = 4 /\ A[1] = Sign(name)
      /\ A[2] = Sign(" ") /\ A[3] = Sign("=") /\ A[4] = Sign(" ")
  <2>1. Sign(name) \in Words /\ Sign(" ") \in Words /\ Sign("=") \in Words
    BY WordsAre
  <2>2. \A a, b, c \in Words :
          LET s == <<a, b, c, b>>
          IN  /\ s \in Seq(Words) /\ Len(s) = 4
              /\ s[1] = a /\ s[2] = b /\ s[3] = c /\ s[4] = b
    OBVIOUS
  <2> QED  BY <2>1, <2>2
<1>4. L = A \o B
  BY DEF Line
<1> HIDE DEF A, B, L, w
<1>5. /\ L \in Seq(Words) /\ Len(L) = 4 + Len(B)
      /\ \A i \in 1..4 : L[i] = A[i]
      /\ \A i \in 4 + 1..4 + Len(B) : L[i] = B[i - 4]
  <2>1. A \o B \in Seq(Words)
    BY <1>2, <1>3, ConcatIs
  <2>2. /\ Len(A \o B) = Len(A) + Len(B)
        /\ \A i \in 1..Len(A) : (A \o B)[i] = A[i]
        /\ \A i \in Len(A) + 1..Len(A) + Len(B) : (A \o B)[i] = B[i - Len(A)]
    <3>1. A \in Seq(Words) /\ B \in Seq(Words)
      BY <1>2, <1>3
    <3> QED  BY <3>1, ConcatAt
  <2>3. Len(A) = 4
    BY <1>3
  <2> QED  BY <1>4, <2>1, <2>2, <2>3
<1>6. L[1] = Sign(name) /\ L[2] = Sign(" ") /\ L[3] = Sign("=") /\ L[4] = Sign(" ")
  <2>1. 1 \in 1..4 /\ 2 \in 1..4 /\ 3 \in 1..4 /\ 4 \in 1..4
    OBVIOUS
  <2> QED  BY <1>3, <1>5, <2>1
<1>7. ASSUME FlagType[name] # "string"
      PROVE  Len(L) = 5 /\ L[5] = w
  <2>1. Len(B) = 1 /\ B[1] = w
    BY <1>2, <1>7
  <2> QED  BY <1>5, <2>1
<1>8. ASSUME FlagType[name] = "string"
      PROVE  Len(L) = 7 /\ L[5] = Sign("quote") /\ L[6] = w /\ L[7] = Sign("quote")
  <2>1. Len(B) = 3 /\ B[1] = Sign("quote") /\ B[2] = w /\ B[3] = Sign("quote")
    BY <1>2, <1>8
  <2> QED  BY <1>5, <2>1
<1>9. L \in Seq(Words)
  BY <1>5
<1> QED  BY <1>6, <1>7, <1>8, <1>9 DEF L, w

\* A place, and the one after it.
LEMMA PlacesAre ==
  ASSUME NEW N \in Nat, NEW a \in 1..N
  PROVE  /\ a \in 1..N + 1 /\ a <= N /\ a \in a..N
         /\ 1 \in 1..N - a + 1 /\ a + 1 - 1 = a
         /\ \A k \in a..a - 1 : FALSE
         /\ a <= N - 1 =>
              /\ a + 1 \in 1..N /\ a + 1 \in a..N
              /\ \A k \in a..(a + 1) - 1 : k = a
OBVIOUS

\* A word is a token, whose rest is what follows.
LEMMA WordToken ==
  ASSUME NEW L \in Seq(Words), NEW a \in 1..Len(L), L[a].text \notin Signs
  PROVE  Scan(Suffix(L, a))
           = [kind |-> "name", word |-> L[a], rest |-> Suffix(L, a + 1)]
<1> DEFINE u == Suffix(L, a)
<1>1. {" ", "=", "quote"} \subseteq Signs
  BY DEF Signs
<1>2. a \in 1..Len(L) + 1 /\ a <= Len(L) /\ a \in a..Len(L)
      /\ 1 \in 1..Len(L) - a + 1 /\ a + 1 - 1 = a
      /\ \A k \in a..a - 1 : FALSE
  <2>1. Len(L) \in Nat
    OBVIOUS
  <2> QED  BY <2>1, PlacesAre
<1>3. u[1] = L[a] /\ Tail(u) = Suffix(L, a + 1)
  <2>1. \A k \in 1..Len(L) - a + 1 : u[k] = L[a + k - 1]
    BY <1>2, SuffixIs
  <2>2. Tail(u) = Suffix(L, a + 1)
    BY <1>2, SuffixIs
  <2> HIDE DEF u
  <2> QED  BY <1>2, <2>1, <2>2
<1>4. Scan(u) = Token(u)
  BY <1>1, <1>2, ScanIs
<1> HIDE DEF u
<1>5. u[1].text # "=" /\ u[1].text # "quote" /\ u[1].text \notin Signs
  BY <1>1, <1>3
<1>6. Token(u) = [kind |-> "name", word |-> u[1], rest |-> Tail(u)]
  BY <1>5 DEF Token
<1> QED  BY <1>3, <1>4, <1>6 DEF u

\* After a blank comes what follows it.
LEMMA BlankPassed ==
  ASSUME NEW L \in Seq(Words), NEW a \in 1..Len(L), a <= Len(L) - 1,
         L[a].text = " ", L[a + 1].text # " "
  PROVE  Scan(Suffix(L, a)) = Token(Suffix(L, a + 1))
         /\ Scan(Suffix(L, a)) = Scan(Suffix(L, a + 1))
<1>1. Len(L) \in Nat
  BY LenProperties, Zenon
<1>2. /\ a \in 1..Len(L) + 1 /\ a + 1 \in 1..Len(L) /\ a + 1 \in a..Len(L)
      /\ \A k \in a..(a + 1) - 1 : k = a
  BY <1>1, PlacesAre
<1>3. /\ a + 1 \in 1..Len(L) + 1 /\ a + 1 \in a + 1..Len(L)
      /\ \A k \in a + 1..(a + 1) - 1 : FALSE
  BY <1>1, <1>2, PlacesAre
<1>4. Scan(Suffix(L, a)) = Token(Suffix(L, a + 1))
  <2>1. \A k \in a..(a + 1) - 1 : L[k].text = " "
    BY <1>2
  <2> QED  BY <1>2, <2>1, ScanIs
<1>5. Scan(Suffix(L, a + 1)) = Token(Suffix(L, a + 1))
  BY <1>3, ScanIs
<1> QED  BY <1>4, <1>5

\* A line as SaveTo writes it: a name and a sign, then a word, plain or quoted.
Assigns(L) == /\ L[1].text \notin Signs /\ L[2].text = " "
              /\ L[3].text = "=" /\ L[4].text = " "
Plain(L, w) == Len(L) = 5 /\ L[5] = w
Quoted(L, w) == /\ Len(L) = 7 /\ L[5].text = "quote" /\ L[6] = w
                /\ L[7].text = "quote"

\* LoadFrom finds the name and the word in a line as SaveTo writes it.
LEMMA TokensAre ==
  ASSUME NEW L \in Seq(Words), NEW w, w.text \notin Signs,
         Assigns(L), Plain(L, w) \/ Quoted(L, w), NEW state
  PROVE  LoadLine(state, L) = SetFlag(state, L[1].text, w)
<1> DEFINE T(a) == Suffix(L, a)
<1>1. {" ", "=", "quote"} \subseteq Signs
  BY DEF Signs
<1>2. T(1) = L
  BY DEF Suffix
<1>7. Len(L) = 5 \/ Len(L) = 7
  BY DEF Plain, Quoted
<1>3. Scan(T(1)) = [kind |-> "name", word |-> L[1], rest |-> T(2)]
  <2>1. 1 \in 1..Len(L) /\ 1 + 1 = 2
    BY <1>7
  <2>2. L[1].text \notin Signs
    BY DEF Assigns
  <2> QED  BY <2>1, <2>2, WordToken
<1>4. Scan(T(2)) = [kind |-> "assign", word |-> L[3], rest |-> T(4)]
  <2>1. 2 \in 1..Len(L) /\ 2 <= Len(L) - 1 /\ 2 + 1 = 3
    <3>1. CASE Len(L) = 5
      BY <3>1
    <3>2. CASE Len(L) = 7
      BY <3>2
    <3> QED  BY <1>7, <3>1, <3>2
  <2>2. Scan(T(2)) = Token(T(3))
    <3>1. L[2].text = " " /\ L[2 + 1].text # " "
      BY <2>1 DEF Assigns
    <3> QED  BY <2>1, <3>1, BlankPassed
  <2>3. T(3)[1] = L[3] /\ Tail(T(3)) = T(4)
    <3>1. 3 \in 1..Len(L) + 1 /\ 3 <= Len(L) /\ 1 \in 1..Len(L) - 3 + 1
          /\ 3 + 1 - 1 = 3 /\ 3 + 1 = 4
      <4>1. CASE Len(L) = 5
        BY <4>1
      <4>2. CASE Len(L) = 7
        BY <4>2
      <4> QED  BY <1>7, <4>1, <4>2
    <3>2. \A k \in 1..Len(L) - 3 + 1 : T(3)[k] = L[3 + k - 1]
      BY <3>1, SuffixIs
    <3>3. Tail(T(3)) = T(3 + 1)
      BY <3>1, SuffixIs
    <3> HIDE DEF T
    <3> QED  BY <3>1, <3>2, <3>3
  <2> HIDE DEF T
  <2>4. L[3].text = "="
    BY DEF Assigns
  <2> QED  BY <2>2, <2>3, <2>4 DEF Token
<1>5. CASE Plain(L, w)
  <2>0. Len(L) = 5
    BY <1>5 DEF Plain
  <2>10. L[5] = w /\ L[4].text = " " /\ w.text # " "
    BY <1>1, <1>5 DEF Plain, Assigns
  <2>1. 4 \in 1..Len(L) /\ 4 <= Len(L) - 1 /\ 4 + 1 = 5 /\ 5 \in 1..Len(L) /\ 5 + 1 = 6
        /\ Len(L) + 1 = 6
    BY <2>0
  <2>2. Scan(T(4)) = Scan(T(5))
    <3>1. L[4 + 1].text # " "
      BY <2>1, <2>10
    <3> QED  BY <2>1, <2>10, <3>1, BlankPassed
  <2>3. Scan(T(5)) = [kind |-> "name", word |-> w, rest |-> T(6)]
    BY <2>1, <2>10, WordToken
  <2>4. Scan(T(6)) = Nothing
    <3>1. 6 \in 1..Len(L) + 1 /\ \A k \in 6..Len(L) : FALSE
      BY <2>0
    <3> QED  BY <3>1, ScanIs
  <2>5. Scan(T(6)).kind = "none"
    BY <2>4, WordsAre
  <2> HIDE DEF T
  <2> QED  BY <1>2, <1>3, <1>4, <2>2, <2>3, <2>5 DEF LoadLine
<1>6. CASE Quoted(L, w)
  <2>0. Len(L) = 7
    BY <1>6 DEF Quoted
  <2>10. /\ L[5].text = "quote" /\ L[6] = w /\ L[7].text = "quote"
         /\ L[4].text = " "
    BY <1>6 DEF Quoted, Assigns
  <2>11. "quote" # " " /\ "quote" # "=" /\ w.text # "quote"
    BY <1>1
  <2> DEFINE u == T(5)
             quotes == {i \in 2..Len(u) : u[i].text = "quote"}
  <2>1. Scan(T(4)) = Token(u)
    <3>1. 4 \in 1..Len(L) /\ 4 <= Len(L) - 1 /\ 4 + 1 = 5
      BY <2>0
    <3>2. L[4 + 1].text # " "
      BY <2>10, <2>11, <3>1
    <3> QED  BY <2>10, <3>1, <3>2, BlankPassed
  <2>2. /\ Len(u) = 3 /\ u[1] = L[5] /\ u[2] = L[6] /\ u[3] = L[7]
        /\ SubSeq(u, 3, 3) = T(7)
    <3>1. 5 \in 1..Len(L) + 1 /\ Len(L) - 5 + 1 = 3 /\ Len(L) - 5 + 2 = 4
      BY <2>0
    <3>2. /\ Len(u) = Len(L) - 5 + 1
          /\ \A k \in 1..Len(L) - 5 + 1 : u[k] = L[5 + k - 1]
          /\ \A k \in 1..Len(L) - 5 + 2 :
               SubSeq(u, k, Len(L) - 5 + 1) = T(5 + k - 1)
      BY <3>1, SuffixIs
    <3> HIDE DEF u, T
    <3>3. /\ Len(u) = 3 /\ \A k \in 1..3 : u[k] = L[5 + k - 1]
          /\ \A k \in 1..4 : SubSeq(u, k, 3) = T(5 + k - 1)
      BY <3>1, <3>2
    <3>4. 5 + 1 - 1 = 5 /\ 5 + 2 - 1 = 6 /\ 5 + 3 - 1 = 7
          /\ {1, 2, 3} \subseteq 1..3 /\ 3 \in 1..4
      OBVIOUS
    <3> QED  BY <3>3, <3>4
  <2>3. quotes = {3}
    <3>1. Len(u) = 3 /\ u[2].text # "quote" /\ u[3].text = "quote"
      BY <2>2, <2>10, <2>11
    <3>2. 2..3 = {2, 3}
      OBVIOUS
    <3> HIDE DEF u
    <3> QED  BY <3>1, <3>2
  <2>4. Min(quotes) = 3
    <3>1. {3} \in SUBSET Nat /\ 3 \in {3} /\ \A j \in {3} : 3 <= j
      OBVIOUS
    <3>2. Min({3}) = 3
      BY <3>1, MinIs
    <3> QED  BY <2>3, <3>2
  <2>5. Token(u) = [kind |-> "value", word |-> w, rest |-> T(7)]
    <3>1. u[1].text = "quote" /\ u[2] = w
      BY <2>2, <2>10
    <3>2. quotes # {}
      BY <2>3
    <3>3. Token(u) = [kind |-> "value",
                      word |-> Quotation(u, Min(quotes)),
                      rest |-> SubSeq(u, Min(quotes), Len(u))]
      BY <3>1, <3>2 DEF Token
    <3>4. Quotation(u, 3) = u[2]
      BY DEF Quotation
    <3> HIDE DEF u, quotes, T
    <3> QED  BY <2>2, <2>4, <3>1, <3>3, <3>4
  <2>6. Scan(T(7)) = Nothing
    <3>1. /\ 7 \in 1..Len(L) + 1 /\ 7 \in 7..Len(L)
          /\ \A k \in 7..7 - 1 : FALSE
      BY <2>0
    <3>2. Scan(T(7)) = Token(T(7))
      <4>1. L[7].text # " "
        BY <2>10, <2>11
      <4> QED  BY <3>1, <4>1, ScanIs
    <3>3. T(7)[1] = L[7] /\ Len(T(7)) = 1
      <4>1. Len(L) - 7 + 1 = 1 /\ 1 \in 1..1 /\ 7 + 1 - 1 = 7
        BY <2>0
      <4>2. /\ Len(T(7)) = Len(L) - 7 + 1
            /\ \A k \in 1..Len(L) - 7 + 1 : T(7)[k] = L[7 + k - 1]
        BY <3>1, SuffixIs
      <4> HIDE DEF T
      <4> QED  BY <4>1, <4>2
    <3>4. {i \in 2..Len(T(7)) : T(7)[i].text = "quote"} = {}
      <4> HIDE DEF T
      <4> QED  BY <3>3
    <3>5. T(7)[1].text \in Signs /\ T(7)[1].text # "="
      BY <1>1, <2>10, <2>11, <3>3
    <3> HIDE DEF T
    <3> QED  BY <3>2, <3>4, <3>5 DEF Token
  <2>7. Scan(T(7)).kind = "none"
    BY <2>6, WordsAre
  <2> HIDE DEF T, u
  <2> QED  BY <1>2, <1>3, <1>4, <2>1, <2>5, <2>7 DEF LoadLine
<1> QED  BY <1>5, <1>6

\* LoadFrom of a line of SaveTo sets the flag that the line was written of.
LEMMA LineLoads ==
  ASSUME NEW name \in DOMAIN FlagType, NEW v, Suits(FlagType[name], v),
         NEW state
  PROVE  LoadLine(state, Line(name, v))
           = SetFlag(state, name, SavedWord(FlagType[name], v))
<1> DEFINE L == Line(name, v)
           w == SavedWord(FlagType[name], v)
<1>1. /\ L \in Seq(Words)
      /\ L[1] = Sign(name) /\ L[2] = Sign(" ") /\ L[3] = Sign("=")
      /\ L[4] = Sign(" ")
      /\ FlagType[name] # "string" => Len(L) = 5 /\ L[5] = w
      /\ FlagType[name] = "string" =>
           Len(L) = 7 /\ L[5] = Sign("quote") /\ L[6] = w
           /\ L[7] = Sign("quote")
  BY LineIs
<1>2. w.text \notin Signs /\ name \notin Signs
  <2>1. FlagType[name] \in Types
    BY FlagAssumption DEF Types
  <2> QED  BY <2>1, ReprIs, FlagAssumption
<1> HIDE DEF L, w
<1>3. \A t : Sign(t).text = t
  BY DEF Sign
<1>4. L[1].text = name /\ Assigns(L) /\ (Plain(L, w) \/ Quoted(L, w))
  BY <1>1, <1>2, <1>3 DEF Assigns, Plain, Quoted
<1>5. LoadLine(state, L) = SetFlag(state, L[1].text, w)
  BY <1>1, <1>2, <1>4, TokensAre
<1> QED  BY <1>4, <1>5 DEF L, w

\* A remainder is below the divisor, and that of a smaller number is itself.
LEMMA RemainderIs ==
  ASSUME NEW m \in Nat \ {0}, NEW x \in Int
  PROVE  x % m \in 0..m - 1 /\ (x \in 0..m - 1 => x % m = x)
<1>1. x % m \in 0..m - 1
  OBVIOUS
<1>2. ASSUME x \in 0..m - 1
      PROVE  x % m = x
  <2>1. x \in Nat /\ 0 \in Nat /\ x = 0 * m + x
    BY <1>2
  <2>2. x \div m = 0
    BY <1>2, <2>1, OneQuotient
  <2>3. x = m * (x \div m) + (x % m)
    BY <2>1
  <2> QED  BY <1>1, <2>2, <2>3
<1> QED  BY <1>1, <1>2

\* The values of flags.
Value == BOOLEAN \cup Int \cup {"null", "text"}

\* What SetFlagFromString makes of a word is a value of the type.
LEMMA ValueIs ==
  ASSUME NEW type \in Types, NEW word \in Words
  PROVE  Suits(type, ValueOf(type, word)) /\ ValueOf(type, word) \in Value
<1>1. word.n \in Int /\ MaxInt \in Nat /\ MaxInt64 \in Nat
  BY WordsAre, FlagAssumption
<1>2. Bounded(word.n) \in Int
  BY <1>1 DEF Bounded
<1> DEFINE b == Bounded(word.n)
<1> HIDE DEF b
<1>3. CASE type = "bool"
  BY <1>3 DEF Suits, ValueOf, Value
<1>4. CASE type = "int"
  <2>1. ValueOf(type, word) = IntOf(b)
    BY <1>4 DEF ValueOf, b
  <2>2. b + MaxInt + 1 \in Int /\ 2 * MaxInt + 2 \in Nat \ {0}
    BY <1>1, <1>2 DEF b
  <2>3. (b + MaxInt + 1) % (2 * MaxInt + 2) \in 0..(2 * MaxInt + 2) - 1
    BY <2>2, RemainderIs
  <2>4. IntOf(b) \in -MaxInt - 1 .. MaxInt
    <3> DEFINE x == (b + MaxInt + 1) % (2 * MaxInt + 2)
    <3>1. IntOf(b) = x - MaxInt - 1
      BY DEF IntOf
    <3>2. x \in 0..(2 * MaxInt + 2) - 1
      BY <2>3
    <3> HIDE DEF x
    <3> QED  BY <1>1, <3>1, <3>2
  <2>5. IntOf(b) \in Int
    BY <1>1, <2>4
  <2> QED  BY <1>4, <2>1, <2>4, <2>5 DEF Suits, Value
<1>5. CASE type = "uint64"
  <2>1. ValueOf(type, word) = UintOf(b)
    BY <1>5 DEF ValueOf, b
  <2>2. b \in Int /\ 2 * MaxInt64 + 2 \in Nat \ {0}
    BY <1>1, <1>2 DEF b
  <2>3. b % (2 * MaxInt64 + 2) \in 0..(2 * MaxInt64 + 2) - 1
    BY <2>2, RemainderIs
  <2>4. UintOf(b) \in Nat
    <3> DEFINE x == b % (2 * MaxInt64 + 2)
    <3>1. UintOf(b) = x
      BY DEF UintOf
    <3>2. x \in 0..(2 * MaxInt64 + 2) - 1
      BY <2>3
    <3> HIDE DEF x
    <3> QED  BY <1>1, <3>1, <3>2
  <2> QED  BY <1>5, <2>1, <2>4 DEF Suits, Value
<1>6. CASE type = "string"
  BY <1>6 DEF Suits, ValueOf, Value
<1> QED  BY <1>3, <1>4, <1>5, <1>6 DEF Types

\* What loading the saved word of a value does not give back: strings, and what
\* strtoll cannot read.
Lost(type, v) == type = "string" \/ (type = "uint64" /\ v > MaxInt64)

\* SetFlagFromString of what Repr wrote gives the value that was written.
LEMMA WordGivesValue ==
  ASSUME NEW type \in Types, NEW v, Suits(type, v), ~Lost(type, v)
  PROVE  /\ Takes(type, SavedWord(type, v))
         /\ ValueOf(type, SavedWord(type, v)) = v
<1> DEFINE word == SavedWord(type, v)
<1>1. MaxInt \in Nat /\ MaxInt64 \in Nat /\ MaxInt <= MaxInt64
  BY FlagAssumption
<1>2. CASE type = "bool"
  <2>1. v \in BOOLEAN /\ word = Sign(IF v THEN "true" ELSE "false")
    BY <1>2 DEF Suits, SavedWord
  <2>2. word.text = IF v THEN "true" ELSE "false"
    BY <2>1 DEF Sign
  <2> HIDE DEF word
  <2>3. Takes(type, word) /\ ValueOf(type, word) = (word.text = "true")
    BY <1>2, <2>2 DEF Takes, ValueOf
  <2>4. (word.text = "true") = v
    <3>1. CASE v = TRUE
      BY <2>2, <3>1
    <3>2. CASE v = FALSE
      BY <2>2, <3>2
    <3> QED  BY <2>1, <3>1, <3>2
  <2> QED  BY <2>3, <2>4 DEF word
<1>3. CASE type = "int"
  <2>1. v \in -MaxInt - 1 .. MaxInt /\ word = Number(v)
    BY <1>3 DEF Suits, SavedWord
  <2>2. word.text = "number" /\ word.n = v
    BY <2>1 DEF Number
  <2>3. Bounded(v) = v
    BY <1>1, <2>1 DEF Bounded
  <2>4. IntOf(v) = v
    <3> DEFINE x == v + MaxInt + 1
               m == 2 * MaxInt + 2
    <3>1. x \in 0..m - 1 /\ x \in Int /\ m \in Nat \ {0}
      BY <1>1, <2>1
    <3>2. IntOf(v) = (x % m) - MaxInt - 1
      BY DEF IntOf
    <3>3. x - MaxInt - 1 = v
      BY <1>1, <2>1
    <3> HIDE DEF x, m
    <3>4. x % m = x
      BY <3>1, RemainderIs
    <3> QED  BY <3>2, <3>3, <3>4
  <2>5. Takes(type, word) /\ ValueOf(type, word) = IntOf(Bounded(word.n))
    BY <1>3, <2>2 DEF Takes, ValueOf
  <2> QED  BY <2>2, <2>3, <2>4, <2>5
<1>4. CASE type = "uint64"
  <2>1. v \in Nat /\ v <= MaxInt64 /\ word = Number(v)
    BY <1>1, <1>4 DEF Suits, SavedWord, Lost
  <2>2. word.text = "number" /\ word.n = v
    BY <2>1 DEF Number
  <2>3. Bounded(v) = v
    BY <1>1, <2>1 DEF Bounded
  <2>4. UintOf(v) = v
    <3> DEFINE m == 2 * MaxInt64 + 2
    <3>1. v \in 0..m - 1 /\ v \in Int /\ m \in Nat \ {0}
      BY <1>1, <2>1
    <3>2. UintOf(v) = v % m
      BY DEF UintOf
    <3> HIDE DEF m
    <3> QED  BY <3>1, <3>2, RemainderIs
  <2>5. Takes(type, word) /\ ValueOf(type, word) = UintOf(Bounded(word.n))
    BY <1>4, <2>2 DEF Takes, ValueOf
  <2> QED  BY <2>2, <2>3, <2>4, <2>5
<1> QED  BY <1>2, <1>3, <1>4 DEF Types, Lost

\* What LoadFrom works on: flags of the names D, and the values of V.  A flag
\* that is defined has a value of its type.
Agrees(state) ==
  \A name \in DOMAIN state.flags : state.flags[name].type # "unknown" =>
    /\ name \in DOMAIN FlagType /\ state.flags[name].type = FlagType[name]
    /\ name \in DOMAIN state.values
    /\ Suits(FlagType[name], state.values[name])

States(D, V) ==
  {state \in [flags : [D -> [type : Types \cup {"unknown"}, changed : BOOLEAN]],
              values : [V -> Value]] : Agrees(state)}

\* SetFlag sets a flag to a value of its type, or none, and no other flag.
LEMMA SetFlagIs ==
  ASSUME NEW D, NEW V, NEW state \in States(D, V), NEW name,
         NEW word \in Words
  PROVE  /\ SetFlag(state, name, word) \in States(D, V)
         /\ \A n \in D : SetFlag(state, name, word).flags[n].type
                           = state.flags[n].type
         /\ \A n \in V \ {name} : SetFlag(state, name, word).values[n]
                                    = state.values[n]
         /\ name \in D /\ Takes(state.flags[name].type, word) =>
              SetFlag(state, name, word).values[name]
                = ValueOf(state.flags[name].type, word)
<1> DEFINE next == SetFlag(state, name, word)
           Flag == [type : Types \cup {"unknown"}, changed : BOOLEAN]
<1>1. /\ state.flags \in [D -> Flag] /\ state.values \in [V -> Value]
      /\ state \in [flags : [D -> Flag], values : [V -> Value]]
      /\ Agrees(state) /\ DOMAIN state.flags = D /\ DOMAIN state.values = V
  BY DEF States
<1>2. CASE ~(name \in D /\ Takes(state.flags[name].type, word))
  <2>1. next = state
    BY <1>1, <1>2 DEF SetFlag
  <2> HIDE DEF next
  <2> QED  BY <1>2, <2>1 DEF next
<1>3. CASE name \in D /\ Takes(state.flags[name].type, word)
  <2> DEFINE type == state.flags[name].type
             flags == [state.flags EXCEPT ![name].changed = TRUE]
             values == [state.values EXCEPT ![name] = ValueOf(type, word)]
  <2>1. type \in Types /\ state.flags[name] \in Flag
    <3>1. state.flags[name] \in Flag
      BY <1>1, <1>3
    <3>2. type # "unknown"
      BY <1>3 DEF Takes
    <3> QED  BY <3>1, <3>2
  <2>2. /\ name \in DOMAIN FlagType /\ type = FlagType[name] /\ name \in V
    <3>1. type # "unknown"
      BY <2>1 DEF Types
    <3> QED  BY <1>1, <1>3, <3>1 DEF Agrees
  <2>3. next = [flags |-> flags, values |-> values]
    BY <1>1, <1>3 DEF SetFlag
  <2>4. Suits(type, ValueOf(type, word)) /\ ValueOf(type, word) \in Value
    BY <2>1, ValueIs
  <2>5. /\ flags \in [D -> Flag] /\ DOMAIN flags = D
        /\ \A n \in D : flags[n].type = state.flags[n].type
    <3>1. [state.flags[name] EXCEPT !.changed = TRUE] \in Flag
          /\ [state.flags[name] EXCEPT !.changed = TRUE].type = type
      BY <2>1
    <3> QED  BY <1>1, <1>3, <3>1
  <2>6. /\ values \in [V -> Value] /\ DOMAIN values = V
        /\ values[name] = ValueOf(type, word)
        /\ \A n \in V \ {name} : values[n] = state.values[n]
    BY <1>1, <2>2, <2>4
  <2> HIDE DEF flags, values, next, Flag
  <2>7. next.flags = flags /\ next.values = values
        /\ next \in [flags : [D -> Flag], values : [V -> Value]]
    BY <2>3, <2>5, <2>6
  <2>8. Agrees(next)
    <3> SUFFICES ASSUME NEW n \in D, flags[n].type # "unknown"
                 PROVE  /\ n \in DOMAIN FlagType /\ flags[n].type = FlagType[n]
                        /\ n \in V /\ Suits(FlagType[n], values[n])
      BY <2>5, <2>6, <2>7 DEF Agrees
    <3>1. flags[n].type = state.flags[n].type
      BY <2>5
    <3>2. /\ n \in DOMAIN FlagType /\ flags[n].type = FlagType[n]
          /\ n \in V /\ Suits(FlagType[n], state.values[n])
      BY <1>1, <3>1 DEF Agrees
    <3>3. CASE n = name
      BY <2>2, <2>4, <2>6, <3>2, <3>3
    <3>4. CASE n # name
      BY <2>6, <3>2, <3>4
    <3> QED  BY <3>3, <3>4
  <2>9. next \in States(D, V)
    BY <2>7, <2>8 DEF States, Flag
  <2> QED  BY <2>5, <2>6, <2>7, <2>9 DEF next
<1> QED  BY <1>2, <1>3

\* SetFlag of a saved word gives the flag its saved value, and leaves what the
\* others have.
LEMMA PutBack ==
  ASSUME NEW D, NEW V, NEW state \in States(D, V), NEW m \in D \cap V,
         NEW v, m \in DOMAIN FlagType, state.flags[m].type = FlagType[m],
         Suits(FlagType[m], v)
  PROVE  LET next == SetFlag(state, m, SavedWord(FlagType[m], v))
         IN  /\ next \in States(D, V)
             /\ \A n \in D : next.flags[n].type = state.flags[n].type
             /\ \A n \in V \ {m} : next.values[n] = state.values[n]
             /\ ~Lost(FlagType[m], v) => next.values[m] = v
<1> DEFINE word == SavedWord(FlagType[m], v)
<1>1. FlagType[m] \in Types
  BY FlagAssumption DEF Types
<1>2. word \in Words
  BY <1>1, ReprIs
<1>3. ~Lost(FlagType[m], v) =>
        Takes(FlagType[m], word) /\ ValueOf(FlagType[m], word) = v
  BY <1>1, WordGivesValue
<1> HIDE DEF word
<1>4. LET next == SetFlag(state, m, word)
      IN  /\ next \in States(D, V)
          /\ \A n \in D : next.flags[n].type = state.flags[n].type
          /\ \A n \in V \ {m} : next.values[n] = state.values[n]
          /\ Takes(state.flags[m].type, word) =>
               next.values[m] = ValueOf(state.flags[m].type, word)
  BY <1>2, SetFlagIs
<1> QED  BY <1>3, <1>4 DEF word

\* A line keeps the types of the flags.
LEMMA LoadLineIs ==
  ASSUME NEW D, NEW V, NEW state \in States(D, V), NEW line \in Seq(Words)
  PROVE  /\ LoadLine(state, line) \in States(D, V)
         /\ \A n \in D : LoadLine(state, line).flags[n].type
                           = state.flags[n].type
<1> DEFINE name == Scan(line)
           assign == Scan(name.rest)
           value == Scan(assign.rest)
<1>1. name.rest \in Seq(Words)
  BY ScanType
<1> HIDE DEF name
<1>2. assign.rest \in Seq(Words)
  BY <1>1, ScanType
<1> HIDE DEF assign
<1>3. value.word \in Words
  BY <1>2, ScanType
<1> HIDE DEF value
<1>4. \/ LoadLine(state, line) = state
      \/ LoadLine(state, line) = SetFlag(state, name.word.text, value.word)
  BY DEF LoadLine, name, assign, value
<1>5. CASE LoadLine(state, line) = state
  BY <1>5
<1>6. CASE LoadLine(state, line) = SetFlag(state, name.word.text, value.word)
  BY <1>3, <1>6, SetFlagIs
<1> QED  BY <1>4, <1>5, <1>6

\* The states that LoadFrom goes through.
Passes(after, state, lines, D, V) ==
  /\ after \in [0..Len(lines) -> States(D, V)]
  /\ after[0] = state /\ Loaded(state, lines) = after[Len(lines)]
  /\ \A k \in 1..Len(lines) : after[k] = LoadLine(after[k - 1], lines[k])

\* LoadFrom goes from each line to the next, whatever the lines.
LEMMA PassesExist ==
  ASSUME NEW D, NEW V, NEW state \in States(D, V), NEW lines \in Seq(Seq(Words))
  PROVE  \E after : Passes(after, state, lines, D, V)
<1> DEFINE N == Len(lines)
           S == States(D, V)
           Rest(f) == [k \in 0..N |->
             IF k = 0 THEN state ELSE LoadLine(f[k - 1], lines[k])]
           w == CHOOSE f : f = Rest(f)
           G == [k \in 1..N |-> [s \in S |-> LoadLine(s, lines[k])]]
<1>1. N \in Nat /\ \A k \in 1..N : lines[k] \in Seq(Words)
  OBVIOUS
<1>2. \A k \in 1..N : \A s \in S : LoadLine(s, lines[k]) \in S
  BY <1>1, LoadLineIs
<1>3. G \in [1..N -> [S -> S]]
  <2> HIDE DEF S, N
  <2> QED  BY <1>2
<1>4. PICK g : Recursion(g, N, S, state, G)
  <2> HIDE DEF G, N, S
  <2>1. state \in S
    BY DEF S
  <2> QED  BY <1>1, <1>3, <2>1, RecursionExists
<1>5. /\ g \in [0..N -> S] /\ g[0] = state
      /\ \A k \in 1..N : g[k] = G[k][g[k - 1]]
  BY <1>4 DEF Recursion
<1>6. \A k \in 1..N : g[k - 1] \in S /\ g[k] = LoadLine(g[k - 1], lines[k])
  <2> SUFFICES ASSUME NEW k \in 1..N
               PROVE  g[k - 1] \in S /\ g[k] = LoadLine(g[k - 1], lines[k])
    OBVIOUS
  <2>1. k - 1 \in 0..N
    BY <1>1
  <2> HIDE DEF S, N
  <2>2. g[k - 1] \in S
    BY <1>5, <2>1
  <2> QED  BY <1>5, <2>2
<1> HIDE DEF G
<1>7. g = Rest(g)
  <2>1. ASSUME NEW k \in 0..N
        PROVE  g[k] = Rest(g)[k]
    <3>1. CASE k = 0
      BY <1>5, <3>1
    <3>2. CASE k # 0
      <4>1. k \in 1..N
        BY <1>1, <3>2
      <4> QED  BY <1>6, <3>2, <4>1
    <3> QED  BY <3>1, <3>2
  <2>2. g = [k \in 0..N |-> g[k]]
    BY <1>5
  <2> QED  BY <2>1, <2>2
<1>8. w = Rest(w)
  <2> HIDE DEF Rest
  <2> QED  BY <1>7
<1>9. \A k \in Nat : k <= N => w[k] = g[k]
  <2> DEFINE K == {k \in Nat : k <= N => w[k] = g[k]}
  <2>1. 0 \in K
    <3>1. 0 \in 0..N
      BY <1>1
    <3>2. w[0] = state
      <4>1. Rest(w)[0] = state
        BY <3>1
      <4> HIDE DEF Rest, w
      <4> QED  BY <1>8, <4>1
    <3> QED  BY <1>5, <3>2
  <2>2. ASSUME NEW k \in Nat, k \in K
        PROVE  k + 1 \in K
    <3> SUFFICES ASSUME k + 1 <= N
                 PROVE  w[k + 1] = g[k + 1]
      OBVIOUS
    <3>1. k + 1 \in 0..N /\ k + 1 \in 1..N /\ k + 1 # 0 /\ (k + 1) - 1 = k
          /\ k <= N
      BY <1>1
    <3>2. w[k + 1] = LoadLine(w[k], lines[k + 1])
      <4>1. Rest(w)[k + 1] = LoadLine(w[(k + 1) - 1], lines[k + 1])
        BY <3>1
      <4> HIDE DEF Rest, w
      <4> QED  BY <1>8, <3>1, <4>1
    <3>3. w[k] = g[k]
      BY <2>2, <3>1
    <3> HIDE DEF w
    <3> QED  BY <1>6, <3>1, <3>2, <3>3
  <2> HIDE DEF K
  <2>3. Nat \subseteq K
    BY <2>1, <2>2, NatInd
  <2> QED  BY <2>3 DEF K
<1>10. Loaded(state, lines) = w[N]
  BY DEF Loaded
<1> HIDE DEF w
<1>11. Loaded(state, lines) = g[N]
  BY <1>1, <1>9, <1>10
<1> QED  BY <1>5, <1>6, <1>11 DEF Passes

\* Loading keeps the types of the flags.
LEMMA LoadedIs ==
  ASSUME NEW D, NEW V, NEW state \in States(D, V),
         NEW lines \in Seq(Seq(Words)), NEW after,
         Passes(after, state, lines, D, V)
  PROVE  \A k \in 0..Len(lines) :
           /\ after[k] \in States(D, V)
           /\ \A n \in D : after[k].flags[n].type = state.flags[n].type
<1> DEFINE N == Len(lines)
           S == {k \in Nat : k <= N =>
                   \A n \in D : after[k].flags[n].type = state.flags[n].type}
<1>1. N \in Nat /\ \A k \in 1..N : lines[k] \in Seq(Words)
  OBVIOUS
<1>2. /\ \A k \in 0..N : after[k] \in States(D, V)
      /\ after[0] = state
      /\ \A k \in 1..N : after[k] = LoadLine(after[k - 1], lines[k])
  BY DEF Passes
<1> HIDE DEF N
<1>3. 0 \in S
  BY <1>2
<1>4. ASSUME NEW k \in Nat, k \in S
      PROVE  k + 1 \in S
  <2> SUFFICES ASSUME k + 1 <= N, NEW n \in D
               PROVE  after[k + 1].flags[n].type = state.flags[n].type
    OBVIOUS
  <2>1. k + 1 \in 1..N /\ k \in 0..N /\ (k + 1) - 1 = k /\ k <= N
    BY <1>1
  <2>2. after[k + 1] = LoadLine(after[k], lines[k + 1])
    BY <1>2, <2>1
  <2>3. after[k] \in States(D, V) /\ lines[k + 1] \in Seq(Words)
    BY <1>1, <1>2, <2>1
  <2>4. after[k + 1].flags[n].type = after[k].flags[n].type
    BY <2>2, <2>3, LoadLineIs
  <2>5. after[k].flags[n].type = state.flags[n].type
    BY <1>4, <2>1
  <2> QED  BY <2>4, <2>5
<1> HIDE DEF S
<1>5. Nat \subseteq S
  BY <1>3, <1>4, NatInd
<1>6. \A k \in 0..N : k \in Nat /\ k <= N
  BY <1>1
<1> QED  BY <1>2, <1>5, <1>6 DEF S, N

\* The file has a line for each saved value, and no other.
Written(lines, saved) ==
  /\ lines \in Seq(Seq(Words))
  /\ \A k \in 1..Len(lines) :
       \E name \in DOMAIN saved : lines[k] = Line(name, saved[name])
  /\ \A name \in DOMAIN saved :
       /\ name \in DOMAIN FlagType /\ Suits(FlagType[name], saved[name])
       /\ \E k \in 1..Len(lines) : lines[k] = Line(name, saved[name])

\* The flags of saved values are defined.
Defined(saved, state) ==
  \A name \in DOMAIN saved :
    /\ name \in DOMAIN state.flags /\ name \in DOMAIN state.values
    /\ state.flags[name].type = FlagType[name]

\* Loading the file that was saved gives each flag the value it had.
LEMMA FileLoads ==
  ASSUME NEW D, NEW V, NEW state \in States(D, V), NEW lines, NEW saved,
         Written(lines, saved), Defined(saved, state)
  PROVE  \A name \in DOMAIN saved : ~Lost(FlagType[name], saved[name])
           => Loaded(state, lines).values[name] = saved[name]
<1> DEFINE N == Len(lines)
<1>1. /\ lines \in Seq(Seq(Words)) /\ N \in Nat
      /\ DOMAIN state.flags = D /\ DOMAIN state.values = V
  <2>1. lines \in Seq(Seq(Words))
    BY DEF Written
  <2> QED  BY <2>1 DEF States
<1>2. PICK after : Passes(after, state, lines, D, V)
  BY <1>1, PassesExist
<1>3. \A k \in 0..N : /\ after[k] \in States(D, V)
                       /\ \A n \in D : after[k].flags[n].type
                                         = state.flags[n].type
  BY <1>1, <1>2, LoadedIs
<1>4. /\ Loaded(state, lines) = after[N]
      /\ \A k \in 1..N : after[k] = LoadLine(after[k - 1], lines[k])
  BY <1>2 DEF Passes
<1>5. \A k \in 1..N :
        \E name \in DOMAIN saved : lines[k] = Line(name, saved[name])
  BY DEF Written
<1>6. \A name \in DOMAIN saved :
        /\ name \in DOMAIN FlagType /\ Suits(FlagType[name], saved[name])
        /\ \E k \in 1..N : lines[k] = Line(name, saved[name])
        /\ name \in D \cap V /\ state.flags[name].type = FlagType[name]
  BY <1>1 DEF Written, Defined
<1> HIDE DEF N
<1> DEFINE Good(k) ==
      \A name \in DOMAIN saved :
        /\ ~Lost(FlagType[name], saved[name])
        /\ \E j \in 1..k : lines[j] = Line(name, saved[name])
        => after[k].values[name] = saved[name]
<1>7. ASSUME NEW k \in 1..N, NEW name \in DOMAIN saved,
             lines[k] = Line(name, saved[name])
      PROVE  /\ \A n \in V \ {name} : after[k].values[n] = after[k - 1].values[n]
             /\ ~Lost(FlagType[name], saved[name])
                  => after[k].values[name] = saved[name]
  <2>1. k - 1 \in 0..N
    BY <1>1
  <2> DEFINE s == after[k - 1]
             v == saved[name]
  <2>2. s \in States(D, V) /\ s.flags[name].type = FlagType[name]
    BY <1>3, <1>6, <2>1
  <2>3. after[k] = SetFlag(s, name, SavedWord(FlagType[name], v))
    <3>1. after[k] = LoadLine(s, Line(name, v))
      BY <1>4, <1>7
    <3> QED  BY <1>6, <3>1, LineLoads
  <2> HIDE DEF s
  <2>4. name \in D \cap V /\ name \in DOMAIN FlagType /\ Suits(FlagType[name], v)
    BY <1>6
  <2> HIDE DEF v
  <2>5. LET next == SetFlag(s, name, SavedWord(FlagType[name], v))
        IN  /\ \A n \in V \ {name} : next.values[n] = s.values[n]
            /\ ~Lost(FlagType[name], v) => next.values[name] = v
    BY <2>2, <2>4, PutBack
  <2> QED  BY <2>3, <2>5 DEF s, v
<1> DEFINE S == {k \in Nat : k <= N => Good(k)}
<1>8. 0 \in S
  OBVIOUS
<1>9. ASSUME NEW k \in Nat, k \in S
      PROVE  k + 1 \in S
  <2> SUFFICES ASSUME k + 1 <= N, NEW name \in DOMAIN saved,
                      ~Lost(FlagType[name], saved[name]),
                      NEW j \in 1..k + 1, lines[j] = Line(name, saved[name])
               PROVE  after[k + 1].values[name] = saved[name]
    OBVIOUS
  <2>1. k + 1 \in 1..N /\ (k + 1) - 1 = k /\ k <= N
    BY <1>1
  <2>2. PICK m \in DOMAIN saved : lines[k + 1] = Line(m, saved[m])
    BY <1>5, <2>1
  <2>3. CASE m = name
    BY <1>7, <2>1, <2>2, <2>3
  <2>4. CASE m # name
    <3>1. CASE j = k + 1
      BY <1>7, <2>1, <3>1
    <3>2. CASE j # k + 1
      <4>1. j \in 1..k
        BY <3>2
      <4>2. after[k].values[name] = saved[name]
        BY <1>9, <2>1, <4>1
      <4>3. name \in V \ {m}
        BY <1>6, <2>4
      <4>4. after[k + 1].values[name] = after[k].values[name]
        BY <1>7, <2>1, <2>2, <4>3
      <4> QED  BY <4>2, <4>4
    <3> QED  BY <3>1, <3>2
  <2> QED  BY <2>3, <2>4
<1> HIDE DEF S
<1>10. Nat \subseteq S
  BY <1>8, <1>9, NatInd
<1>11. Good(N)
  <2>1. N \in S /\ N <= N
    BY <1>1, <1>10
  <2> HIDE DEF Good
  <2> QED  BY <2>1 DEF S
<1> QED  BY <1>4, <1>6, <1>11
-----------------------------------------------------------------------------
\* What LoadFrom begins with.
State == [flags |-> registry, values |-> flagValue]

\* The flags and values fit each other, and the file is what SaveTo made of the
\* values that were saved.
FlagsInv ==
  /\ IsFiniteSet(DOMAIN registry)
  /\ State \in States(DOMAIN registry, DOMAIN flagValue)
  /\ Written(file, savedValue) /\ Defined(savedValue, State)
  /\ LoadGivesSaved

\* A function that gives y for x.
LEMMA WithIs ==
  ASSUME NEW f, NEW S, f \in [DOMAIN f -> S], NEW x, NEW y \in S
  PROVE  /\ With(f, x, y) \in [DOMAIN f \cup {x} -> S]
         /\ DOMAIN With(f, x, y) = DOMAIN f \cup {x}
         /\ With(f, x, y)[x] = y
         /\ \A z \in DOMAIN f \ {x} : With(f, x, y)[z] = f[z]
BY DEF With

\* A flag that is registered.
Flag == [type : Types \cup {"unknown"}, changed : BOOLEAN]

\* What the invariant says of the flags and values.
LEMMA FlagsAre ==
  FlagsInv =>
    /\ registry \in [DOMAIN registry -> Flag]
    /\ flagValue \in [DOMAIN flagValue -> Value]
    /\ \A name \in DOMAIN registry : registry[name].type # "unknown" =>
         /\ name \in DOMAIN FlagType /\ registry[name].type = FlagType[name]
         /\ name \in DOMAIN flagValue
         /\ Suits(FlagType[name], flagValue[name])
    /\ \A name \in DOMAIN savedValue :
         /\ name \in DOMAIN registry /\ name \in DOMAIN flagValue
         /\ registry[name].type = FlagType[name]
<1>1. State.flags = registry /\ State.values = flagValue
  BY DEF State
<1> QED  BY <1>1 DEF FlagsInv, States, Agrees, Defined, Flag

\* The same, to prove it of the next state.
LEMMA StateIs ==
  ASSUME NEW r, NEW v, r \in [DOMAIN r -> Flag], v \in [DOMAIN v -> Value],
         \A name \in DOMAIN r : r[name].type # "unknown" =>
           /\ name \in DOMAIN FlagType /\ r[name].type = FlagType[name]
           /\ name \in DOMAIN v /\ Suits(FlagType[name], v[name])
  PROVE  [flags |-> r, values |-> v] \in States(DOMAIN r, DOMAIN v)
BY DEF States, Agrees, Flag

\* A step that neither saves nor loads.
LEMMA ChangeStep ==
  ASSUME FlagsInv, UNCHANGED <<file, savedValue>>, loaded' = FALSE,
         IsFiniteSet(DOMAIN registry'),
         registry' \in [DOMAIN registry' -> Flag],
         flagValue' \in [DOMAIN flagValue' -> Value],
         \A name \in DOMAIN registry' : registry'[name].type # "unknown" =>
           /\ name \in DOMAIN FlagType /\ registry'[name].type = FlagType[name]
           /\ name \in DOMAIN flagValue'
           /\ Suits(FlagType[name], flagValue'[name]),
         \A name \in DOMAIN registry : registry[name].type # "unknown" =>
           /\ name \in DOMAIN registry'
           /\ registry'[name].type = registry[name].type
  PROVE  FlagsInv'
<1>1. State' \in States(DOMAIN registry', DOMAIN flagValue')
  BY StateIs DEF State
<1>2. Defined(savedValue, State)'
  <2> SUFFICES ASSUME NEW name \in DOMAIN savedValue
               PROVE  /\ name \in DOMAIN registry' /\ name \in DOMAIN flagValue'
                      /\ registry'[name].type = FlagType[name]
    BY DEF Defined, State
  <2>1. name \in DOMAIN registry /\ registry[name].type = FlagType[name]
    BY FlagsAre
  <2>2. FlagType[name] # "unknown"
    <3>1. name \in DOMAIN FlagType
      BY DEF FlagsInv, Written
    <3> QED  BY <3>1, FlagAssumption
  <2> QED  BY <2>1, <2>2
<1>3. LoadGivesSaved'
  BY DEF LoadGivesSaved
<1> QED  BY <1>1, <1>2, <1>3 DEF FlagsInv

\* A flag is added or changes its type.
LEMMA AddFlagIs ==
  ASSUME FlagsInv, NEW name, NEW type \in Types \cup {"unknown"},
         AddFlag(name, type)
  PROVE  /\ IsFiniteSet(DOMAIN registry')
         /\ registry' \in [DOMAIN registry' -> Flag]
         /\ DOMAIN registry' = DOMAIN registry \cup {name}
         /\ registry'[name].type = type
         /\ \A n \in DOMAIN registry \ {name} : registry'[n] = registry[n]
<1>1. PICK changed \in {FALSE, (name \in DOMAIN registry)} :
        registry' = With(registry, name, [type |-> type, changed |-> changed])
  BY DEF AddFlag
<1> DEFINE flag == [type |-> type, changed |-> changed]
<1>2. flag \in Flag /\ flag.type = type
  <2>1. changed \in BOOLEAN
    <3>1. CASE changed = FALSE
      BY <3>1
    <3>2. CASE changed = (name \in DOMAIN registry)
      <4>1. CASE name \in DOMAIN registry
        BY <3>2, <4>1
      <4>2. CASE name \notin DOMAIN registry
        BY <3>2, <4>2
      <4> QED  BY <4>1, <4>2
    <3> QED  BY <3>1, <3>2
  <2> QED  BY <2>1 DEF Flag
<1> HIDE DEF flag
<1>3. registry \in [DOMAIN registry -> Flag] /\ IsFiniteSet(DOMAIN registry)
  BY FlagsAre DEF FlagsInv
<1>4. registry' = With(registry, name, flag)
  BY <1>1 DEF flag
<1>5. IsFiniteSet(DOMAIN registry \cup {name})
  BY <1>3, FS_AddElement
<1>6. /\ With(registry, name, flag) \in [DOMAIN registry \cup {name} -> Flag]
      /\ DOMAIN With(registry, name, flag) = DOMAIN registry \cup {name}
      /\ With(registry, name, flag)[name] = flag
      /\ \A n \in DOMAIN registry \ {name} :
           With(registry, name, flag)[n] = registry[n]
  BY <1>2, <1>3 DEF With
<1> QED  BY <1>2, <1>4, <1>5, <1>6

\* What programs assign, and what they begin with, is of the type.
LEMMA ValuesAre ==
  ASSUME NEW type \in Types
  PROVE  \A v \in Values(type) \cup {Default(type)} :
           v \in Value /\ Suits(type, v)
<1>1. /\ MaxInt64 \in Nat /\ 2 * MaxInt64 + 1 \in Nat /\ 0 \in Nat
      /\ -MaxInt - 1 \in -MaxInt - 1 .. MaxInt /\ -MaxInt - 1 \in Int
      /\ 0 \in -MaxInt - 1 .. MaxInt
  BY FlagAssumption
<1>2. CASE type = "bool"
  <2>1. Values(type) = {TRUE} /\ Default(type) = FALSE
    BY <1>2 DEF Values, Default
  <2>2. \A v \in BOOLEAN : Suits(type, v) /\ v \in Value
    BY <1>2 DEF Suits, Value
  <2>3. \A v \in Values(type) \cup {Default(type)} : v \in BOOLEAN
    BY <2>1
  <2> QED  BY <2>2, <2>3
<1>3. CASE type = "int"
  <2>1. Values(type) = {-MaxInt - 1} /\ Default(type) = 0
    BY <1>3 DEF Values, Default
  <2>2. \A v \in {-MaxInt - 1, 0} : Suits(type, v) /\ v \in Value
    BY <1>1, <1>3 DEF Suits, Value
  <2> QED  BY <2>1, <2>2
<1>4. CASE type = "uint64"
  <2>1. Values(type) = {MaxInt64, 2 * MaxInt64 + 1} /\ Default(type) = 0
    BY <1>4 DEF Values, Default
  <2>2. \A v \in {MaxInt64, 2 * MaxInt64 + 1, 0} : Suits(type, v) /\ v \in Value
    BY <1>1, <1>4 DEF Suits, Value
  <2> QED  BY <2>1, <2>2
<1>5. CASE type = "string"
  <2>1. Values(type) = {"text"} /\ Default(type) = "null"
    BY <1>5 DEF Values, Default
  <2>2. \A v \in {"text", "null"} : Suits(type, v) /\ v \in Value
    BY <1>5 DEF Suits, Value
  <2> QED  BY <2>1, <2>2
<1> QED  BY <1>2, <1>3, <1>4, <1>5 DEF Types

\* A flag that is defined begins with the value of its definition.
LEMMA DefineStep ==
  ASSUME FlagsInv, NEW name \in DOMAIN FlagType, Define(name)
  PROVE  FlagsInv'
<1> DEFINE type == FlagType[name]
<1>1. type \in Types /\ type # "unknown"
  BY FlagAssumption DEF Types
<1>2. Default(type) \in Value /\ Suits(type, Default(type))
  BY <1>1, ValuesAre
<1>3. /\ AddFlag(name, type) /\ ~Known(name) /\ loaded' = FALSE
      /\ flagValue' = With(flagValue, name, Default(type))
      /\ UNCHANGED <<file, savedValue>>
  BY DEF Define
<1> HIDE DEF type
<1>4. /\ IsFiniteSet(DOMAIN registry') /\ registry' \in [DOMAIN registry' -> Flag]
      /\ DOMAIN registry' = DOMAIN registry \cup {name}
      /\ registry'[name].type = type
      /\ \A n \in DOMAIN registry \ {name} : registry'[n] = registry[n]
  BY <1>1, <1>3, AddFlagIs
<1>5. flagValue \in [DOMAIN flagValue -> Value]
  BY FlagsAre
<1>6. /\ flagValue' \in [DOMAIN flagValue \cup {name} -> Value]
      /\ DOMAIN flagValue' = DOMAIN flagValue \cup {name}
      /\ flagValue'[name] = Default(type)
      /\ \A n \in DOMAIN flagValue \ {name} : flagValue'[n] = flagValue[n]
  <2> DEFINE d == Default(type)
  <2>1. d \in Value /\ flagValue' = With(flagValue, name, d)
    BY <1>2, <1>3
  <2> HIDE DEF d
  <2>2. /\ With(flagValue, name, d) \in [DOMAIN flagValue \cup {name} -> Value]
        /\ DOMAIN With(flagValue, name, d) = DOMAIN flagValue \cup {name}
        /\ With(flagValue, name, d)[name] = d
        /\ \A n \in DOMAIN flagValue \ {name} :
             With(flagValue, name, d)[n] = flagValue[n]
    BY <1>5, <2>1 DEF With
  <2> QED  BY <2>1, <2>2 DEF d
<1>7. ASSUME NEW n \in DOMAIN registry', registry'[n].type # "unknown"
      PROVE  /\ n \in DOMAIN FlagType /\ registry'[n].type = FlagType[n]
             /\ n \in DOMAIN flagValue' /\ Suits(FlagType[n], flagValue'[n])
  <2>1. CASE n = name
    BY <1>2, <1>4, <1>6, <2>1 DEF type
  <2>2. CASE n # name
    <3>1. n \in DOMAIN registry \ {name} /\ registry[n].type # "unknown"
      BY <1>4, <1>7, <2>2
    <3>2. /\ n \in DOMAIN FlagType /\ registry[n].type = FlagType[n]
          /\ n \in DOMAIN flagValue /\ Suits(FlagType[n], flagValue[n])
      BY <3>1, FlagsAre
    <3> QED  BY <1>4, <1>6, <2>2, <3>1, <3>2
  <2> QED  BY <2>1, <2>2
<1>8. ASSUME NEW n \in DOMAIN registry, registry[n].type # "unknown"
      PROVE  n \in DOMAIN registry' /\ registry'[n].type = registry[n].type
  <2>1. n # name
    BY <1>3, <1>8 DEF Known
  <2> QED  BY <1>4, <2>1
<1> QED  BY <1>3, <1>4, <1>6, <1>7, <1>8, ChangeStep

\* The command line adds flags that are not defined, and no value.
LEMMA ParseStep ==
  ASSUME FlagsInv, NEW name, Parse(name)
  PROVE  FlagsInv'
<1>1. /\ AddFlag(name, "unknown") /\ name \notin DOMAIN registry
      /\ loaded' = FALSE /\ flagValue' = flagValue
      /\ UNCHANGED <<file, savedValue>>
  BY DEF Parse
<1>2. /\ IsFiniteSet(DOMAIN registry') /\ registry' \in [DOMAIN registry' -> Flag]
      /\ DOMAIN registry' = DOMAIN registry \cup {name}
      /\ registry'[name].type = "unknown"
      /\ \A n \in DOMAIN registry \ {name} : registry'[n] = registry[n]
  BY <1>1, AddFlagIs
<1>3. flagValue' \in [DOMAIN flagValue' -> Value]
  BY <1>1, FlagsAre
<1>4. ASSUME NEW n \in DOMAIN registry', registry'[n].type # "unknown"
      PROVE  /\ n \in DOMAIN FlagType /\ registry'[n].type = FlagType[n]
             /\ n \in DOMAIN flagValue' /\ Suits(FlagType[n], flagValue'[n])
  <2>1. n \in DOMAIN registry \ {name} /\ registry[n].type # "unknown"
    BY <1>2, <1>4
  <2> QED  BY <1>1, <1>2, <2>1, FlagsAre
<1>5. ASSUME NEW n \in DOMAIN registry, registry[n].type # "unknown"
      PROVE  n \in DOMAIN registry' /\ registry'[n].type = registry[n].type
  <2>1. n # name
    BY <1>1
  <2> QED  BY <1>2, <2>1
<1> QED  BY <1>1, <1>2, <1>3, <1>4, <1>5, ChangeStep

\* What the program assigns to a flag is of the type of the flag.
LEMMA AssignStep ==
  ASSUME FlagsInv, NEW name \in DOMAIN FlagType, Assign(name)
  PROVE  FlagsInv'
<1>1. PICK v \in Values(FlagType[name]) :
        flagValue' = [flagValue EXCEPT ![name] = v]
  BY DEF Assign
<1>2. /\ name \in DOMAIN registry /\ registry[name].type # "unknown"
      /\ loaded' = FALSE /\ registry' = registry
      /\ UNCHANGED <<file, savedValue>>
  BY DEF Assign, Known
<1>3. FlagType[name] \in Types
  BY FlagAssumption DEF Types
<1>4. v \in Value /\ Suits(FlagType[name], v)
  BY <1>1, <1>3, ValuesAre
<1>5. flagValue \in [DOMAIN flagValue -> Value] /\ name \in DOMAIN flagValue
  BY <1>2, FlagsAre
<1>6. /\ flagValue' \in [DOMAIN flagValue -> Value]
      /\ DOMAIN flagValue' = DOMAIN flagValue
      /\ flagValue'[name] = v
      /\ \A n \in DOMAIN flagValue \ {name} : flagValue'[n] = flagValue[n]
  BY <1>1, <1>4, <1>5
<1>7. ASSUME NEW n \in DOMAIN registry, registry[n].type # "unknown"
      PROVE  /\ n \in DOMAIN FlagType /\ registry[n].type = FlagType[n]
             /\ n \in DOMAIN flagValue' /\ Suits(FlagType[n], flagValue'[n])
  <2>1. /\ n \in DOMAIN FlagType /\ registry[n].type = FlagType[n]
        /\ n \in DOMAIN flagValue /\ Suits(FlagType[n], flagValue[n])
    BY <1>7, FlagsAre
  <2> QED  BY <1>4, <1>6, <2>1
<1>8. IsFiniteSet(DOMAIN registry) /\ registry \in [DOMAIN registry -> Flag]
  BY FlagsAre DEF FlagsInv
<1> QED  BY <1>2, <1>6, <1>7, <1>8, ChangeStep

\* A finite set as a sequence has each of its elements.
LEMMA SetToSeqIs ==
  ASSUME NEW S, IsFiniteSet(S)
  PROVE  \E n \in Nat : /\ SetToSeq(S) \in [1..n -> S]
                        /\ \A x \in S : \E k \in 1..n : SetToSeq(S)[k] = x
<1> DEFINE n == Cardinality(S)
           q == SetToSeq(S)
<1>1. n \in Nat /\ IsFiniteSet(1..n) /\ Cardinality(1..n) = n
  <2>1. n \in Nat
    BY FS_CardinalityType
  <2> QED  BY <2>1, FS_Interval
<1>2. PICK f : f \in Bijection(1..n, S)
  BY FS_CardinalityType DEF ExistsBijection
<1>3. f \in [1..n -> S] /\ IsInjective(f)
  BY <1>2 DEF Bijection, Injection, IsInjective
<1>4. q \in [1..n -> S] /\ IsInjective(q)
  BY <1>3 DEF SetToSeq
<1> HIDE DEF q
<1>5. q \in Injection(1..n, S)
  BY <1>4 DEF Injection, IsInjective
<1>6. q \in Surjection(1..n, S)
  BY <1>1, <1>5, FS_Injection
<1> QED  BY <1>1, <1>4, <1>6 DEF Surjection, q

\* SaveTo writes a line for each flag that is defined, and no other.
LEMMA SaveStep ==
  ASSUME FlagsInv, SaveTo
  PROVE  FlagsInv'
<1> DEFINE S == {name \in DOMAIN registry : Known(name)}
           names == SetToSeq(S)
<1>1. /\ file' = [k \in DOMAIN names |-> Line(names[k], flagValue[names[k]])]
      /\ savedValue' = [name \in S |-> flagValue[name]]
      /\ loaded' = FALSE /\ UNCHANGED <<registry, flagValue>>
  BY DEF SaveTo, Saved
<1>2. IsFiniteSet(S)
  BY FS_Subset DEF FlagsInv
<1>3. PICK n \in Nat : /\ names \in [1..n -> S]
                       /\ \A x \in S : \E k \in 1..n : names[k] = x
  <2> HIDE DEF S
  <2> QED  BY <1>2, SetToSeqIs
<1>4. ASSUME NEW name \in S
      PROVE  /\ name \in DOMAIN FlagType /\ registry[name].type = FlagType[name]
             /\ name \in DOMAIN registry /\ name \in DOMAIN flagValue
             /\ Suits(FlagType[name], flagValue[name])
             /\ Line(name, flagValue[name]) \in Seq(Words)
  <2>1. name \in DOMAIN registry /\ registry[name].type # "unknown"
    BY DEF Known
  <2>2. /\ name \in DOMAIN FlagType /\ registry[name].type = FlagType[name]
        /\ name \in DOMAIN flagValue /\ Suits(FlagType[name], flagValue[name])
    BY <2>1, FlagsAre
  <2>3. Line(name, flagValue[name]) \in Seq(Words)
    BY <2>2, LineIs
  <2> QED  BY <2>1, <2>2, <2>3
<1> HIDE DEF names, S
<1>5. /\ DOMAIN names = 1..n /\ \A k \in 1..n : names[k] \in S
      /\ DOMAIN savedValue' = S
      /\ \A name \in S : savedValue'[name] = flagValue[name]
  BY <1>1, <1>3
<1>6. /\ file' \in Seq(Seq(Words)) /\ Len(file') = n
      /\ \A k \in 1..n : file'[k] = Line(names[k], flagValue[names[k]])
  <2>1. \A k \in 1..n : Line(names[k], flagValue[names[k]]) \in Seq(Words)
    BY <1>4, <1>5
  <2>2. file' \in [1..n -> Seq(Words)]
    BY <1>1, <1>5, <2>1
  <2>3. file' \in Seq(Seq(Words)) /\ Len(file') = n
    BY <2>2
  <2> QED  BY <1>1, <1>5, <2>3
<1>7. Written(file, savedValue)'
  <2>1. ASSUME NEW k \in 1..n
        PROVE  \E name \in S : file'[k] = Line(name, savedValue'[name])
    BY <1>5, <1>6
  <2>2. ASSUME NEW name \in S
        PROVE  /\ name \in DOMAIN FlagType
               /\ Suits(FlagType[name], savedValue'[name])
               /\ \E k \in 1..n : file'[k] = Line(name, savedValue'[name])
    <3>1. PICK k \in 1..n : names[k] = name
      BY <1>3
    <3> QED  BY <1>4, <1>5, <1>6, <3>1
  <2> QED  BY <1>5, <1>6, <2>1, <2>2 DEF Written
<1>8. Defined(savedValue, State)'
  BY <1>1, <1>4, <1>5 DEF Defined, State
<1>9. State' = State /\ LoadGivesSaved'
  BY <1>1 DEF State, LoadGivesSaved
<1> QED  BY <1>1, <1>7, <1>8, <1>9 DEF FlagsInv

\* A sequence over a set is one over a larger set.
LEMMA SeqSubset ==
  ASSUME NEW S, NEW T, S \subseteq T
  PROVE  Seq(S) \subseteq Seq(T)
<1> SUFFICES ASSUME NEW s \in Seq(S)
             PROVE  s \in Seq(T)
  OBVIOUS
<1>1. Len(s) \in Nat /\ s \in [1..Len(s) -> S]
  OBVIOUS
<1>2. s \in [1..Len(s) -> T]
  BY <1>1
<1> QED  BY <1>1, <1>2

\* LoadFrom gives back what was saved, if the file is the one that was saved.
LEMMA LoadStep ==
  ASSUME FlagsInv, NEW lines \in FlagFiles \cup {file}, LoadFrom(lines)
  PROVE  FlagsInv'
<1> DEFINE D == DOMAIN registry
           V == DOMAIN flagValue
           next == Loaded(State, lines)
<1>1. /\ registry' = next.flags /\ flagValue' = next.values
      /\ loaded' = (lines = file /\ file # <<>>)
      /\ UNCHANGED <<file, savedValue>>
  BY DEF LoadFrom, State
<1>2. lines \in Seq(Seq(Words))
  <2>1. file \in Seq(Seq(Words))
    BY DEF FlagsInv, Written
  <2>2. [text : FileWords, n : Int] \subseteq Words
    BY DEF Words, Texts
  <2>3. Seq([text : FileWords, n : Int]) \subseteq Seq(Words)
    BY <2>2, SeqSubset
  <2>4. Seq(Seq([text : FileWords, n : Int])) \subseteq Seq(Seq(Words))
    BY <2>3, SeqSubset
  <2> QED  BY <2>1, <2>4, FlagAssumption
<1>3. State \in States(D, V) /\ State.flags = registry /\ State.values = flagValue
  BY DEF FlagsInv, State
<1>4. next \in States(D, V) /\ \A n \in D : next.flags[n].type = registry[n].type
  <2>1. PICK after : Passes(after, State, lines, D, V)
    BY <1>2, <1>3, PassesExist
  <2>2. Len(lines) \in 0..Len(lines)
    BY <1>2
  <2>3. next = after[Len(lines)]
    BY <2>1 DEF Passes
  <2> QED  BY <1>2, <1>3, <2>1, <2>2, <2>3, LoadedIs
<1> HIDE DEF next
<1>5. /\ next = [flags |-> next.flags, values |-> next.values]
      /\ DOMAIN next.flags = D /\ DOMAIN next.values = V
  BY <1>4 DEF States
<1>6. State' = next /\ DOMAIN registry' = D /\ DOMAIN flagValue' = V
  BY <1>1, <1>5 DEF State
<1>7. Defined(savedValue, State)'
  <2>1. Defined(savedValue, State)
    BY DEF FlagsInv
  <2> QED  BY <1>1, <1>3, <1>4, <1>5, <1>6, <2>1 DEF Defined
<1>8. LoadGivesSaved'
  <2> SUFFICES ASSUME lines = file, NEW name \in DOMAIN savedValue,
                      ~Lost(FlagType[name], savedValue[name])
               PROVE  flagValue'[name] = savedValue[name]
    BY <1>1 DEF LoadGivesSaved, Lost
  <2>1. Written(lines, savedValue) /\ Defined(savedValue, State)
    BY DEF FlagsInv
  <2>2. Loaded(State, lines).values[name] = savedValue[name]
    BY <1>3, <2>1, FileLoads
  <2> QED  BY <1>1, <2>2 DEF next
<1>9. Written(file, savedValue)' /\ IsFiniteSet(D)
  BY <1>1 DEF FlagsInv
<1> QED  BY <1>4, <1>6, <1>7, <1>8, <1>9 DEF FlagsInv

\* LoadFrom of the file that SaveTo wrote gives each flag the value that it was
\* saved with, but for strings and what strtoll cannot read: for every set of
\* flags, every order of their names and every file in between.
THEOREM LoadingGivesSaved == FlagsSpec => []LoadGivesSaved
<1>1. FlagsInit => FlagsInv
  <2> SUFFICES ASSUME FlagsInit PROVE FlagsInv
    OBVIOUS
  <2>1. /\ registry = <<>> /\ flagValue = <<>> /\ file = <<>>
        /\ savedValue = <<>> /\ loaded = FALSE
    BY DEF FlagsInit
  <2>2. DOMAIN registry = {} /\ DOMAIN flagValue = {} /\ DOMAIN savedValue = {}
        /\ file \in Seq(Seq(Words)) /\ Len(file) = 0
    BY <2>1
  <2>3. registry \in [DOMAIN registry -> Flag]
        /\ flagValue \in [DOMAIN flagValue -> Value]
    BY <2>1, <2>2
  <2>4. State \in States(DOMAIN registry, DOMAIN flagValue)
    BY <2>2, <2>3, StateIs DEF State
  <2>5. Written(file, savedValue) /\ Defined(savedValue, State)
    BY <2>2 DEF Written, Defined
  <2>6. IsFiniteSet(DOMAIN registry)
    BY <2>2, FS_EmptySet
  <2> QED  BY <2>1, <2>4, <2>5, <2>6 DEF FlagsInv, LoadGivesSaved
<1>2. FlagsInv /\ [FlagsNext]_flagVars => FlagsInv'
  <2> SUFFICES ASSUME FlagsInv, [FlagsNext]_flagVars PROVE FlagsInv'
    OBVIOUS
  <2>1. ASSUME NEW name \in DOMAIN FlagType, Define(name)
        PROVE  FlagsInv'
    BY <2>1, DefineStep
  <2>2. ASSUME NEW name \in DOMAIN FlagType, Assign(name)
        PROVE  FlagsInv'
    BY <2>2, AssignStep
  <2>3. ASSUME NEW name \in DOMAIN FlagType \cup OtherNames, Parse(name)
        PROVE  FlagsInv'
    BY <2>3, ParseStep
  <2>4. CASE SaveTo
    BY <2>4, SaveStep
  <2>5. ASSUME NEW lines \in FlagFiles \cup {file}, LoadFrom(lines)
        PROVE  FlagsInv'
    BY <2>5, LoadStep
  <2>6. CASE Processed \/ UNCHANGED flagVars
    <3>1. /\ UNCHANGED <<registry, flagValue, file, savedValue>>
          /\ loaded' = FALSE \/ loaded' = loaded
      BY <2>6 DEF Processed, flagVars
    <3>2. State' = State /\ LoadGivesSaved'
      BY <3>1 DEF State, FlagsInv, LoadGivesSaved
    <3> QED  BY <3>1, <3>2 DEF FlagsInv
  <2> QED  BY <2>1, <2>2, <2>3, <2>4, <2>5, <2>6 DEF FlagsNext
<1>3. FlagsInv => LoadGivesSaved
  BY DEF FlagsInv
<1> QED  BY <1>1, <1>2, <1>3, PTL DEF FlagsSpec
-----------------------------------------------------------------------------
\* The lists of DList, whatever their items are and however many, are the
\* sequences of LinkSeqs.  The inductive invariant says that the pointers
\* represent the sequences that a walk from the heads gives; each call is
\* shown to leave pointers that represent the sequences it should, and a walk
\* to find just these.
USE DListAssumption

\* The pointers of the list l are those of the sequence s.
Holds(s, l, next, prev, link, first, last) ==
  /\ s \in Seq(Items) /\ IsInjective(s)
  /\ first = IF s = <<>> THEN Null ELSE s[1]
  /\ last = IF s = <<>> THEN Null ELSE s[Len(s)]
  /\ \A n \in 1..Len(s) :
       /\ link[s[n]] = l
       /\ next[s[n]] = IF n = Len(s) THEN Null ELSE s[n + 1]
       /\ prev[s[n]] = IF n = 1 THEN Null ELSE s[n - 1]

\* The pointers represent the sequences q, and those of an item that is in no
\* list are null.
Represent(q, next, prev, link, hd, tl) ==
  /\ q \in [Links -> Seq(Items)]
  /\ \A l \in Links : Holds(q[l], l, next, prev, link, hd[l], tl[l])
  /\ \A i \in Items :
       /\ link[i] = Null => next[i] = Null /\ prev[i] = Null
       /\ link[i] # Null => \E n \in 1..Len(q[link[i]]) : q[link[i]][n] = i

\* The sequences that a walk from the heads gives.
Seqs == [l \in Links |-> Chain(pNext, head[l])]

DListInv == DListTypeOK /\ Represent(Seqs, pNext, pPrev, pLink, head, tail)

\* A sequence without repetition is no longer than the items are many.
LEMMA LengthAtMost ==
  ASSUME NEW s \in Seq(Items), IsInjective(s)
  PROVE  Cardinality(Items) \in Nat /\ Len(s) <= Cardinality(Items)
<1>1. IsFiniteSet(Items) /\ Cardinality(Items) \in Nat
  BY FS_CardinalityType
<1>2. s \in Injection(1..Len(s), Items)
  BY DEF Injection, IsInjective
<1>3. Cardinality(1..Len(s)) <= Cardinality(Items)
  BY <1>1, <1>2, FS_Injection
<1>4. Cardinality(1..Len(s)) = Len(s)
  <2> DEFINE m == Len(s)
  <2>1. m \in Nat
    OBVIOUS
  <2> HIDE DEF m
  <2>2. Cardinality(1..m) = m
    BY <2>1, FS_Interval
  <2> QED  BY <2>2 DEF m
<1> QED  BY <1>1, <1>3, <1>4

\* The pointers lead from the first item of a sequence to its last.
Leads(next, first, s) ==
  /\ first = IF s = <<>> THEN Null ELSE s[1]
  /\ \A n \in 1..Len(s) : next[s[n]] = IF n = Len(s) THEN Null ELSE s[n + 1]

\* A walk along pointers of a sequence, from its first item, meets the items
\* of the sequence and no others.
LEMMA ChainIs ==
  ASSUME NEW next, NEW first, NEW s \in Seq(Items), IsInjective(s),
         Leads(next, first, s)
  PROVE  Chain(next, first) = s
<1> DEFINE N == Cardinality(Items)
           m == Len(s)
           Meets(f) == f = [n \in 0..N |->
                         IF n = 0 THEN first
                         ELSE IF f[n - 1] = Null THEN Null
                         ELSE next[f[n - 1]]]
           met == [n \in 0..N |-> IF n < m THEN s[n + 1] ELSE Null]
           at == CHOOSE f : Meets(f)
           length == Cardinality({n \in DOMAIN at : at[n] # Null})
<1>1. N \in Nat /\ m \in Nat /\ m <= N
  BY LengthAtMost
<1>2. \A n \in 1..m : s[n] \in Items
  OBVIOUS
<1>3. s = <<>> <=> m = 0
  OBVIOUS
<1>4. Chain(next, first) =
        IF first = Null THEN <<>> ELSE [n \in 1..length |-> at[n - 1]]
  BY DEF Chain
<1>5. Meets(met)
  <2> HIDE DEF m, N
  <2>1. met = [n \in 0..N |-> met[n]]
    OBVIOUS
  <2>2. ASSUME NEW n \in 0..N
        PROVE  met[n] = IF n = 0 THEN first
                        ELSE IF met[n - 1] = Null THEN Null
                        ELSE next[met[n - 1]]
    <3>1. CASE n = 0
      BY <1>1, <1>3, <3>1 DEF m, Leads
    <3>2. CASE n # 0
      <4>1. n - 1 \in 0..N /\ met[n - 1] = IF n - 1 < m THEN s[n] ELSE Null
        BY <1>1, <3>2
      <4>2. CASE n <= m
        <5>1. n \in 1..m /\ met[n - 1] = s[n] /\ s[n] # Null
          BY <1>1, <1>2, <3>2, <4>1, <4>2
        <5>2. next[s[n]] = IF n = m THEN Null ELSE s[n + 1]
          BY <5>1 DEF m, Leads
        <5>3. met[n] = IF n < m THEN s[n + 1] ELSE Null
          OBVIOUS
        <5> QED  BY <1>1, <3>2, <4>2, <5>1, <5>2, <5>3
      <4>3. CASE n > m
        <5>1. ~(n < m) /\ ~(n - 1 < m)
          BY <1>1, <4>3
        <5> QED  BY <3>2, <4>1, <5>1
      <4> QED  BY <1>1, <4>2, <4>3
    <3> QED  BY <3>1, <3>2
  <2> HIDE DEF met
  <2> QED  BY <2>1, <2>2
<1>6. Meets(at)
  BY <1>5
<1>7. /\ DOMAIN at = 0..N
      /\ \A n \in 0..N : at[n] = IF n = 0 THEN first
                                 ELSE IF at[n - 1] = Null THEN Null
                                 ELSE next[at[n - 1]]
  <2> HIDE DEF at, N
  <2> QED  BY <1>6
<1>8. /\ DOMAIN met = 0..N
      /\ \A n \in 0..N : met[n] = IF n = 0 THEN first
                                  ELSE IF met[n - 1] = Null THEN Null
                                  ELSE next[met[n - 1]]
  <2> HIDE DEF met, N
  <2> QED  BY <1>5
<1>9. \A n \in 0..N : at[n] = IF n < m THEN s[n + 1] ELSE Null
  <2> DEFINE S == {n \in Nat : n <= N => at[n] = met[n]}
  <2> HIDE DEF at, met, N
  <2>1. 0 \in S
    BY <1>1, <1>7, <1>8
  <2>2. ASSUME NEW n \in Nat, n \in S
        PROVE  n + 1 \in S
    <3>1. SUFFICES ASSUME n + 1 <= N PROVE at[n + 1] = met[n + 1]
      OBVIOUS
    <3>2. n + 1 \in 0..N /\ n \in 0..N /\ at[n] = met[n] /\ (n + 1) - 1 = n
          /\ n + 1 # 0
      BY <1>1, <2>2, <3>1
    <3> QED  BY <1>7, <1>8, <3>2
  <2> HIDE DEF S
  <2>3. Nat \subseteq S
    BY <2>1, <2>2, NatInd
  <2>4. \A n \in 0..N : at[n] = met[n]
    BY <1>1, <2>3 DEF S
  <2> QED  BY <2>4 DEF met
<1> HIDE DEF at, N, m, met
<1>10. {n \in DOMAIN at : at[n] # Null} = 0..m - 1
  <2>1. ASSUME NEW n \in 0..N PROVE at[n] # Null <=> n < m
    <3>1. n < m => n + 1 \in 1..m
      BY <1>1
    <3>2. n < m => s[n + 1] # Null
      BY <1>2, <3>1
    <3> QED  BY <1>9, <3>2
  <2>2. \A n : n \in 0..m - 1 <=> n \in 0..N /\ n < m
    BY <1>1
  <2> QED  BY <1>7, <2>1, <2>2
<1>11. length = m
  <2>1. 0 \in Int /\ m - 1 \in Int
    BY <1>1
  <2>2. Cardinality(0..m - 1) = m
    BY <1>1, <2>1, FS_Interval
  <2> QED  BY <1>10, <2>2
<1> HIDE DEF length
<1>12. first = Null <=> s = <<>>
  BY <1>1, <1>2, <1>3 DEF m, Leads
<1>13. CASE s # <<>>
  <2>1. \A n \in 1..m : at[n - 1] = s[n]
    BY <1>1, <1>9
  <2>2. s = [n \in 1..m |-> s[n]]
    BY DEF m
  <2>3. [n \in 1..m |-> at[n - 1]] = s
    BY <2>1, <2>2
  <2> QED  BY <1>4, <1>11, <1>12, <1>13, <2>3
<1> QED  BY <1>4, <1>12, <1>13

\* What a list's own pointers are decides whether they hold its sequence.
LEMMA HoldsKept ==
  ASSUME NEW s, NEW l, NEW next, NEW prev, NEW link, NEW first, NEW last,
         Holds(s, l, next, prev, link, first, last),
         NEW next2, NEW prev2, NEW link2,
         \A i \in Items : link[i] = l =>
           next2[i] = next[i] /\ prev2[i] = prev[i] /\ link2[i] = link[i]
  PROVE  Holds(s, l, next2, prev2, link2, first, last)
<1>1. \A n \in 1..Len(s) : s[n] \in Items /\ link[s[n]] = l
  BY DEF Holds
<1> QED  BY <1>1 DEF Holds

\* Sequences that the pointers represent after a step are those that a walk
\* finds then.
LEMMA WalkAfter ==
  ASSUME NEW q, Represent(q, pNext', pPrev', pLink', head', tail'),
         DListTypeOK'
  PROVE  Seqs' = q /\ DListInv'
<1>1. ASSUME NEW l \in Links PROVE Chain(pNext', head'[l]) = q[l]
  <2> DEFINE s == q[l]
  <2>1. Holds(s, l, pNext', pPrev', pLink', head'[l], tail'[l])
    BY DEF Represent
  <2>2. /\ s \in Seq(Items) /\ IsInjective(s)
        /\ head'[l] = (IF s = <<>> THEN Null ELSE s[1])
        /\ \A n \in 1..Len(s) :
             pNext'[s[n]] = IF n = Len(s) THEN Null ELSE s[n + 1]
    BY <2>1 DEF Holds
  <2> HIDE DEF s
  <2>3. Chain(pNext', head'[l]) = s
    BY <2>2, ChainIs DEF Leads
  <2> QED  BY <2>3 DEF s
<1>2. q = [l \in Links |-> q[l]]
  BY DEF Represent
<1>3. Seqs' = q
  BY <1>1, <1>2 DEF Seqs
<1>4. DListInv'
  BY <1>3 DEF DListInv
<1> QED  BY <1>3, <1>4

\* What the invariant says of one list.
LEMMA ListIs ==
  ASSUME DListInv, NEW l \in Links
  PROVE  LET s == Seqs[l]
         IN  /\ s \in Seq(Items) /\ Len(s) \in Nat /\ IsInjective(s)
             /\ head[l] = (IF s = <<>> THEN Null ELSE s[1])
             /\ tail[l] = (IF s = <<>> THEN Null ELSE s[Len(s)])
             /\ \A n \in 1..Len(s) :
                  /\ s[n] \in Items /\ s[n] # Null
                  /\ pLink[s[n]] = l
                  /\ pNext[s[n]] = IF n = Len(s) THEN Null ELSE s[n + 1]
                  /\ pPrev[s[n]] = IF n = 1 THEN Null ELSE s[n - 1]
             /\ \A m, n \in 1..Len(s) : s[m] = s[n] => m = n
             /\ \A i \in Items : pLink[i] = l => \E n \in 1..Len(s) : s[n] = i
<1> DEFINE s == Seqs[l]
<1>1. Holds(s, l, pNext, pPrev, pLink, head[l], tail[l])
  BY DEF DListInv, Represent
<1>2. \A i \in Items : pLink[i] = l => \E n \in 1..Len(s) : s[n] = i
  BY DEF DListInv, Represent
<1> HIDE DEF s
<1>3. s \in Seq(Items) /\ Len(s) \in Nat /\ \A n \in 1..Len(s) : s[n] \in Items
  BY <1>1 DEF Holds
<1>4. \A m, n \in 1..Len(s) : s[m] = s[n] => m = n
  BY <1>1, <1>3 DEF Holds, IsInjective
<1> QED  BY <1>1, <1>2, <1>3, <1>4 DEF Holds, s

\* To represent other sequences of one list it takes its pointers, and those
\* of the others as they were.
LEMMA OneList ==
  ASSUME DListInv, NEW l \in Links, NEW t,
         DListTypeOK',
         Holds(t, l, pNext', pPrev', pLink', head'[l], tail'[l]),
         \A k \in Links \ {l} : head'[k] = head[k] /\ tail'[k] = tail[k],
         \A i \in Items : pLink[i] \notin {l, Null} =>
           pNext'[i] = pNext[i] /\ pPrev'[i] = pPrev[i] /\ pLink'[i] = pLink[i],
         \A i \in Items : pLink[i] \in {l, Null} =>
           \/ pLink'[i] = l /\ \E n \in 1..Len(t) : t[n] = i
           \/ pLink'[i] = Null /\ pNext'[i] = Null /\ pPrev'[i] = Null
  PROVE  Seqs' = [Seqs EXCEPT ![l] = t] /\ DListInv'
<1> DEFINE q == Seqs
           q2 == [q EXCEPT ![l] = t]
<1>1. q \in [Links -> Seq(Items)] /\ t \in Seq(Items)
  BY DEF DListInv, Represent, Holds
<1>2. q2 \in [Links -> Seq(Items)] /\ q2[l] = t
      /\ \A k \in Links \ {l} : q2[k] = q[k]
  BY <1>1
<1>3. ASSUME NEW k \in Links \ {l}
      PROVE  Holds(q2[k], k, pNext', pPrev', pLink', head'[k], tail'[k])
  <2>1. Holds(q[k], k, pNext, pPrev, pLink, head[k], tail[k])
    BY DEF DListInv, Represent
  <2>2. \A i \in Items : pLink[i] = k =>
          pNext'[i] = pNext[i] /\ pPrev'[i] = pPrev[i] /\ pLink'[i] = pLink[i]
    OBVIOUS
  <2>3. Holds(q[k], k, pNext', pPrev', pLink', head[k], tail[k])
    BY <2>1, <2>2, HoldsKept
  <2> QED  BY <1>2, <2>3
<1>4. ASSUME NEW i \in Items
      PROVE  /\ pLink'[i] = Null => pNext'[i] = Null /\ pPrev'[i] = Null
             /\ pLink'[i] # Null =>
                  \E n \in 1..Len(q2[pLink'[i]]) : q2[pLink'[i]][n] = i
  <2>1. CASE pLink[i] \in {l, Null}
    BY <1>2, <2>1
  <2>2. CASE pLink[i] \notin {l, Null}
    <3>1. pLink[i] \in Links \ {l} /\ pLink'[i] = pLink[i]
      BY <2>2 DEF DListInv, DListTypeOK
    <3>2. \E n \in 1..Len(q[pLink[i]]) : q[pLink[i]][n] = i
      BY <3>1 DEF DListInv, Represent
    <3> QED  BY <1>2, <3>1, <3>2
  <2> QED  BY <2>1, <2>2
<1> HIDE DEF q, q2
<1>5. Represent(q2, pNext', pPrev', pLink', head', tail')
  BY <1>2, <1>3, <1>4 DEF Represent
<1>6. Seqs' = q2 /\ DListInv'
  BY <1>5, WalkAfter
<1> QED  BY <1>6 DEF q2, q

\* AddTail appends the item to the list.
LEMMA AddTailStep ==
  ASSUME DListInv, NEW l \in Links, NEW ap \in Items, AddTail(l, ap)
  PROVE  /\ DListInv' /\ Seqs' = [Seqs EXCEPT ![l] = Append(Seqs[l], ap)]
         /\ \A k \in Links : \A n \in 1..Len(Seqs[k]) : Seqs[k][n] # ap
<1> DEFINE s == Seqs[l]
           t == Append(s, ap)
<1>1. DListTypeOK /\ pLink[ap] = Null /\ tail[l] \in Items \cup {Null}
  BY DEF AddTail, DListInv, DListTypeOK
<1>2. /\ s \in Seq(Items) /\ Len(s) \in Nat /\ IsInjective(s)
      /\ head[l] = (IF s = <<>> THEN Null ELSE s[1])
      /\ tail[l] = (IF s = <<>> THEN Null ELSE s[Len(s)])
      /\ \A n \in 1..Len(s) :
           /\ s[n] \in Items /\ s[n] # Null
           /\ pLink[s[n]] = l
           /\ pNext[s[n]] = IF n = Len(s) THEN Null ELSE s[n + 1]
           /\ pPrev[s[n]] = IF n = 1 THEN Null ELSE s[n - 1]
      /\ \A m, n \in 1..Len(s) : s[m] = s[n] => m = n
      /\ \A i \in Items : pLink[i] = l => \E n \in 1..Len(s) : s[n] = i
  BY ListIs
<1>3. \A k \in Links : \A n \in 1..Len(Seqs[k]) : Seqs[k][n] # ap
  <2> SUFFICES ASSUME NEW k \in Links, NEW n \in 1..Len(Seqs[k])
               PROVE  Seqs[k][n] # ap
    OBVIOUS
  <2>1. pLink[Seqs[k][n]] = k
    BY ListIs
  <2> QED  BY <1>1, <2>1
<1>4. /\ pNext' \in [Items -> Items \cup {Null}]
      /\ \A i \in Items :
           pNext'[i] = IF i = ap THEN Null
                       ELSE IF i = tail[l] THEN ap ELSE pNext[i]
  <2> DEFINE f == Set(pNext, tail[l], ap)
             B == Items \cup {Null}
  <2>0. pNext \in [Items -> B] /\ ap \in B /\ Null \in B
        /\ pNext' = Set(f, ap, Null)
    BY <1>1 DEF AddTail, DListTypeOK
  <2> HIDE DEF B
  <2>1. /\ f \in [Items -> B]
        /\ \A i \in Items : f[i] = IF i = tail[l] THEN ap ELSE pNext[i]
    BY <2>0 DEF Set
  <2> HIDE DEF f
  <2>2. /\ pNext' \in [Items -> B]
        /\ \A i \in Items : pNext'[i] = IF i = ap THEN Null ELSE f[i]
    BY <2>0, <2>1 DEF Set
  <2> QED  BY <2>1, <2>2 DEF B
<1>5. /\ pPrev' \in [Items -> Items \cup {Null}]
      /\ \A i \in Items :
           pPrev'[i] = IF i = ap THEN tail[l] ELSE pPrev[i]
  BY <1>1 DEF AddTail, DListTypeOK
<1>6. /\ pLink' \in [Items -> Links \cup {Null}]
      /\ \A i \in Items : pLink'[i] = IF i = ap THEN l ELSE pLink[i]
  BY <1>1 DEF AddTail, DListTypeOK
<1>7. /\ head' \in [Links -> Items \cup {Null}]
      /\ \A k \in Links :
           head'[k] = IF k = l /\ tail[l] = Null THEN ap ELSE head[k]
  BY <1>1 DEF AddTail, DListTypeOK
<1>8. /\ tail' \in [Links -> Items \cup {Null}]
      /\ \A k \in Links : tail'[k] = IF k = l THEN ap ELSE tail[k]
  BY <1>1 DEF AddTail, DListTypeOK
<1>9. /\ t \in Seq(Items) /\ Len(t) = Len(s) + 1 /\ t[Len(s) + 1] = ap
      /\ \A n \in 1..Len(s) : t[n] = s[n]
  BY <1>2
<1>10. IsInjective(t)
  <2>1. ap \notin ToSet(s)
    BY <1>2, <1>3 DEF ToSet
  <2> QED  BY <1>2, <2>1, AppendIs
<1>11. s = <<>> <=> Len(s) = 0
  BY <1>2
<1>12. t # <<>>
  BY <1>9, <1>2
<1>13. tail[l] = Null <=> Len(s) = 0
  BY <1>2, <1>11
<1>14. \A n \in 1..Len(s) : s[n] # ap
  BY <1>3
<1> HIDE DEF s, t
<1>0. Len(s) \in Nat /\ \A n \in 1..Len(s) : t[n] = s[n]
  BY <1>2, <1>9
<1>15. Holds(t, l, pNext', pPrev', pLink', head'[l], tail'[l])
  <2>1. head'[l] = t[1]
    BY <1>2, <1>7, <1>9, <1>13, <1>11
  <2>2. tail'[l] = t[Len(t)]
    BY <1>8, <1>9
  <2>3. ASSUME NEW n \in 1..Len(t)
        PROVE  /\ pLink'[t[n]] = l
               /\ pNext'[t[n]] = IF n = Len(t) THEN Null ELSE t[n + 1]
               /\ pPrev'[t[n]] = IF n = 1 THEN Null ELSE t[n - 1]
    <3>1. CASE n = Len(t)
      <4>1. t[n] = ap
        BY <1>9, <3>1
      <4>2. pPrev'[t[n]] = tail[l]
        BY <1>5, <4>1
      <4>3. CASE Len(s) = 0
        BY <1>2, <1>4, <1>6, <1>9, <1>13, <3>1, <4>1, <4>2, <4>3
      <4>4. CASE Len(s) # 0
        <5>1. t[n - 1] = s[Len(s)]
          BY <1>2, <1>9, <3>1, <4>4
        <5> QED  BY <1>2, <1>4, <1>6, <1>9, <1>11, <3>1, <4>1, <4>2, <4>4, <5>1
      <4> QED  BY <4>3, <4>4
    <3>2. CASE n # Len(t)
      <4>1. n \in 1..Len(s) /\ t[n] = s[n] /\ s[n] # ap /\ s[n] \in Items
        BY <1>2, <1>9, <1>14, <3>2
      <4>2. s[n] = tail[l] <=> n = Len(s)
        BY <1>2, <1>11, <4>1
      <4>3. n # 1 => t[n - 1] = s[n - 1]
        <5>1. n # 1 => n - 1 \in 1..Len(s)
          BY <1>0, <4>1
        <5> QED  BY <1>0, <5>1
      <4>4. n # Len(s) => t[n + 1] = s[n + 1]
        <5>1. n # Len(s) => n + 1 \in 1..Len(s)
          BY <1>0, <4>1
        <5> QED  BY <1>0, <5>1
      <4>5. pLink'[t[n]] = l
        <5>1. pLink'[s[n]] = pLink[s[n]]
          BY <1>6, <4>1
        <5> QED  BY <1>2, <4>1, <5>1
      <4>6. pPrev'[t[n]] = IF n = 1 THEN Null ELSE t[n - 1]
        BY <1>2, <1>5, <4>1, <4>3
      <4>7. pNext'[t[n]] = t[n + 1]
        <5>1. CASE n = Len(s)
          <6>1. pNext'[s[n]] = ap
            BY <1>4, <4>1, <4>2, <5>1
          <6> QED  BY <1>9, <4>1, <5>1, <6>1
        <5>2. CASE n # Len(s)
          <6>1. pNext'[s[n]] = pNext[s[n]]
            BY <1>4, <4>1, <4>2, <5>2
          <6>2. pNext[s[n]] = s[n + 1]
            BY <1>2, <4>1, <5>2
          <6> QED  BY <4>1, <4>4, <5>2, <6>1, <6>2
        <5> QED  BY <5>1, <5>2
      <4> QED  BY <3>2, <4>5, <4>6, <4>7
    <3> QED  BY <3>1, <3>2
  <2> QED  BY <1>9, <1>10, <1>12, <2>1, <2>2, <2>3 DEF Holds
<1>16. DListTypeOK'
  BY <1>4, <1>5, <1>6, <1>7, <1>8 DEF DListTypeOK
<1>17. \A i \in Items : pLink[i] \notin {l, Null} =>
           pNext'[i] = pNext[i] /\ pPrev'[i] = pPrev[i] /\ pLink'[i] = pLink[i]
  <2> SUFFICES ASSUME NEW i \in Items, pLink[i] \notin {l, Null}
               PROVE  pNext'[i] = pNext[i] /\ pPrev'[i] = pPrev[i]
                      /\ pLink'[i] = pLink[i]
    OBVIOUS
  <2>1. i # ap
    BY <1>1
  <2>2. i # tail[l]
    BY <1>2, <1>11
  <2> QED  BY <1>4, <1>5, <1>6, <2>1, <2>2
<1>18. \A i \in Items : pLink[i] \in {l, Null} =>
           \/ pLink'[i] = l /\ \E n \in 1..Len(t) : t[n] = i
           \/ pLink'[i] = Null /\ pNext'[i] = Null /\ pPrev'[i] = Null
  <2> SUFFICES ASSUME NEW i \in Items, pLink[i] \in {l, Null}
               PROVE
           \/ pLink'[i] = l /\ \E n \in 1..Len(t) : t[n] = i
           \/ pLink'[i] = Null /\ pNext'[i] = Null /\ pPrev'[i] = Null
    OBVIOUS
  <2>1. CASE i = ap
    <3>1. Len(s) + 1 \in 1..Len(t)
      BY <1>2, <1>9
    <3> QED  BY <1>6, <1>9, <2>1, <3>1
  <2>2. CASE i # ap /\ pLink[i] = l
    <3>1. PICK n \in 1..Len(s) : s[n] = i
      BY <1>2, <2>2
    <3>2. n \in 1..Len(t) /\ t[n] = i
      BY <1>2, <1>9, <3>1
    <3> QED  BY <1>6, <2>2, <3>2
  <2>3. CASE i # ap /\ pLink[i] = Null
    <3>1. pNext[i] = Null /\ pPrev[i] = Null
      BY <2>3 DEF DListInv, Represent
    <3>2. i # tail[l]
      BY <1>2, <1>11, <2>3
    <3> QED  BY <1>4, <1>5, <1>6, <2>3, <3>1, <3>2
  <2> QED  BY <2>1, <2>2, <2>3
<1>19. \A k \in Links \ {l} : head'[k] = head[k] /\ tail'[k] = tail[k]
  BY <1>7, <1>8
<1>20. Seqs' = [Seqs EXCEPT ![l] = t] /\ DListInv'
  BY <1>15, <1>16, <1>17, <1>18, <1>19, OneList
<1> QED  BY <1>3, <1>20 DEF t, s

\* ap is unlinked from l, and its neighbours are joined.
Unlinks(l, ap) ==
  /\ \A i \in Items : pNext'[i] =
       IF i = ap THEN Null ELSE IF i = pPrev[ap] THEN pNext[ap] ELSE pNext[i]
  /\ \A i \in Items : pPrev'[i] =
       IF i = ap THEN Null ELSE IF i = pNext[ap] THEN pPrev[ap] ELSE pPrev[i]
  /\ \A i \in Items : pLink'[i] = IF i = ap THEN Null ELSE pLink[i]
  /\ \A j \in Links :
       head'[j] = IF j = l /\ ap = head[l] THEN pNext[ap] ELSE head[j]
  /\ \A j \in Links :
       tail'[j] = IF j = l /\ ap = tail[l] THEN pPrev[ap] ELSE tail[j]

\* t is s without its k-th element.
IsWithout(t, s, k) ==
  /\ t \in Seq(Items) /\ Len(t) = Len(s) - 1
  /\ \A n \in 1..Len(t) : t[n] = IF n < k THEN s[n] ELSE s[n + 1]

\* When the k-th item of a list is unlinked, the pointers hold the sequence
\* without that item.
LEMMA ItemTaken ==
  ASSUME DListInv, NEW l \in Links, NEW k \in 1..Len(Seqs[l]),
         NEW t, IsWithout(t, Seqs[l], k),
         NEW ap, ap = Seqs[l][k], Unlinks(l, ap), DListTypeOK'
  PROVE  DListInv' /\ Seqs' = [Seqs EXCEPT ![l] = t]
<1> DEFINE s == Seqs[l]
           m == Len(s)
<1>1. /\ s \in Seq(Items) /\ m \in Nat /\ IsInjective(s)
      /\ head[l] = (IF s = <<>> THEN Null ELSE s[1])
      /\ tail[l] = (IF s = <<>> THEN Null ELSE s[m])
      /\ \A n \in 1..m :
           /\ s[n] \in Items /\ s[n] # Null
           /\ pLink[s[n]] = l
           /\ pNext[s[n]] = IF n = m THEN Null ELSE s[n + 1]
           /\ pPrev[s[n]] = IF n = 1 THEN Null ELSE s[n - 1]
      /\ \A i, j \in 1..m : s[i] = s[j] => i = j
      /\ \A i \in Items : pLink[i] = l => \E n \in 1..m : s[n] = i
  BY ListIs
<1>2. /\ k \in 1..m /\ m - 1 \in Nat /\ ap = s[k]
      /\ t \in Seq(Items) /\ Len(t) = m - 1
      /\ \A n \in 1..m - 1 : t[n] = IF n < k THEN s[n] ELSE s[n + 1]
  BY <1>1 DEF IsWithout
<1>3. s # <<>> /\ head[l] = s[1] /\ tail[l] = s[m]
  BY <1>1, <1>2
<1> HIDE DEF s, m
<1>0. m \in Nat /\ k \in 1..m /\ m - 1 \in Nat
  BY <1>1, <1>2
<1>4. t = <<>> <=> m = 1
  <2>1. t \in Seq(Items)
    BY <1>2
  <2>2. t = <<>> <=> Len(t) = 0
    BY <2>1
  <2> QED  BY <1>1, <1>2, <2>2
<1>5. /\ ap \in Items /\ ap # Null /\ pLink[ap] = l
      /\ pNext[ap] = IF k = m THEN Null ELSE s[k + 1]
      /\ pPrev[ap] = IF k = 1 THEN Null ELSE s[k - 1]
  <2>1. /\ s[k] \in Items /\ s[k] # Null /\ pLink[s[k]] = l
        /\ pNext[s[k]] = IF k = m THEN Null ELSE s[k + 1]
        /\ pPrev[s[k]] = IF k = 1 THEN Null ELSE s[k - 1]
    BY <1>1, <1>2
  <2> QED  BY <1>2, <2>1
<1>6. \A n \in 1..m :
        /\ s[n] = ap <=> n = k
        /\ s[n] = pNext[ap] <=> n = k + 1
        /\ s[n] = pPrev[ap] <=> n = k - 1
  <2> SUFFICES ASSUME NEW n \in 1..m
               PROVE  /\ s[n] = ap <=> n = k
                      /\ s[n] = pNext[ap] <=> n = k + 1
                      /\ s[n] = pPrev[ap] <=> n = k - 1
    OBVIOUS
  <2>1. s[n] = ap <=> n = k
    BY <1>1, <1>2
  <2>2. s[n] = pNext[ap] <=> n = k + 1
    <3>1. CASE k = m
      BY <1>1, <1>5, <3>1
    <3>2. CASE k # m
      <4>1. k + 1 \in 1..m
        BY <1>1, <1>2, <3>2
      <4> QED  BY <1>1, <1>5, <3>2, <4>1
    <3> QED  BY <3>1, <3>2
  <2>3. s[n] = pPrev[ap] <=> n = k - 1
    <3>1. CASE k = 1
      BY <1>1, <1>5, <3>1
    <3>2. CASE k # 1
      <4>1. k - 1 \in 1..m
        BY <1>1, <1>2, <3>2
      <4> QED  BY <1>1, <1>5, <3>2, <4>1
    <3> QED  BY <3>1, <3>2
  <2> QED  BY <2>1, <2>2, <2>3
<1>7. \A n \in 1..m : n # k =>
        /\ pLink'[s[n]] = l
        /\ pNext'[s[n]] = IF n = k - 1 THEN pNext[ap]
                          ELSE IF n = m THEN Null ELSE s[n + 1]
        /\ pPrev'[s[n]] = IF n = k + 1 THEN pPrev[ap]
                          ELSE IF n = 1 THEN Null ELSE s[n - 1]
  <2> SUFFICES ASSUME NEW n \in 1..m, n # k
               PROVE
        /\ pLink'[s[n]] = l
        /\ pNext'[s[n]] = IF n = k - 1 THEN pNext[ap]
                          ELSE IF n = m THEN Null ELSE s[n + 1]
        /\ pPrev'[s[n]] = IF n = k + 1 THEN pPrev[ap]
                          ELSE IF n = 1 THEN Null ELSE s[n - 1]
    OBVIOUS
  <2> DEFINE i == s[n]
  <2>1. /\ i \in Items /\ i # ap /\ pLink[i] = l
        /\ i = pNext[ap] <=> n = k + 1
        /\ i = pPrev[ap] <=> n = k - 1
        /\ pNext[i] = IF n = m THEN Null ELSE s[n + 1]
        /\ pPrev[i] = IF n = 1 THEN Null ELSE s[n - 1]
    BY <1>1, <1>6
  <2> HIDE DEF i
  <2>2. pLink'[i] = l
    BY <2>1 DEF Unlinks
  <2>3. pNext'[i] = IF n = k - 1 THEN pNext[ap]
                    ELSE IF n = m THEN Null ELSE s[n + 1]
    BY <2>1 DEF Unlinks
  <2>4. pPrev'[i] = IF n = k + 1 THEN pPrev[ap]
                    ELSE IF n = 1 THEN Null ELSE s[n - 1]
    BY <2>1 DEF Unlinks
  <2> QED  BY <2>2, <2>3, <2>4 DEF i
<1>8. IsInjective(t)
  <2>1. \A i, j \in 1..m - 1 : t[i] = t[j] => i = j
    <3> SUFFICES ASSUME NEW i \in 1..m - 1, NEW j \in 1..m - 1, t[i] = t[j]
                 PROVE  i = j
      OBVIOUS
    <3> DEFINE a == IF i < k THEN i ELSE i + 1
               b == IF j < k THEN j ELSE j + 1
    <3>1. a \in 1..m /\ b \in 1..m
      BY <1>1
    <3>2. t[i] = s[a] /\ t[j] = s[b]
      BY <1>2
    <3> HIDE DEF a, b
    <3>3. \A x, y \in 1..m : s[x] = s[y] => x = y
      BY <1>1
    <3>4. a = b
      BY <3>1, <3>2, <3>3
    <3> QED  BY <1>1, <1>2, <3>4 DEF a, b
  <2> QED  BY <1>2, <2>1 DEF IsInjective
<1>9. Holds(t, l, pNext', pPrev', pLink', head'[l], tail'[l])
  <2>1. head'[l] = IF t = <<>> THEN Null ELSE t[1]
    <3>1. head'[l] = IF k = 1 THEN pNext[ap] ELSE s[1]
      <4>1. 1 \in 1..m
        BY <1>1, <1>2
      <4> QED  BY <1>3, <1>6, <4>1 DEF Unlinks
    <3>2. m # 1 => t[1] = IF 1 < k THEN s[1] ELSE s[2]
      <4>1. m # 1 => 1 \in 1..m - 1 /\ 1 + 1 = 2
        BY <1>1, <1>2
      <4> QED  BY <1>2, <4>1
    <3> QED  BY <1>1, <1>2, <1>4, <1>5, <3>1, <3>2
  <2>2. tail'[l] = IF t = <<>> THEN Null ELSE t[Len(t)]
    <3>1. tail'[l] = IF k = m THEN pPrev[ap] ELSE s[m]
      <4>1. m \in 1..m
        BY <1>1, <1>2
      <4> QED  BY <1>3, <1>6, <4>1 DEF Unlinks
    <3>2. m # 1 => t[m - 1] = IF m - 1 < k THEN s[m - 1] ELSE s[m]
      <4>1. m # 1 => m - 1 \in 1..m - 1 /\ (m - 1) + 1 = m
        BY <1>1, <1>2
      <4> QED  BY <1>2, <4>1
    <3>3. k = m => (m = 1 <=> k = 1) /\ m - 1 < k /\ k - 1 = m - 1
      BY <1>1, <1>2
    <3>4. k # m => ~(m - 1 < k) /\ m # 1
      BY <1>1, <1>2
    <3>5. k = m => tail'[l] = IF m = 1 THEN Null ELSE t[m - 1]
      BY <1>5, <3>1, <3>2, <3>3
    <3>6. k # m => tail'[l] = IF m = 1 THEN Null ELSE t[m - 1]
      BY <3>1, <3>2, <3>4
    <3> QED  BY <1>2, <1>4, <3>5, <3>6
  <2>3. ASSUME NEW n \in 1..m - 1
        PROVE  /\ pLink'[t[n]] = l
               /\ pNext'[t[n]] = IF n = m - 1 THEN Null ELSE t[n + 1]
               /\ pPrev'[t[n]] = IF n = 1 THEN Null ELSE t[n - 1]
    <3>1. n # m - 1 => t[n + 1] = IF n + 1 < k THEN s[n + 1] ELSE s[n + 2]
      <4>1. n # m - 1 => n + 1 \in 1..m - 1 /\ (n + 1) + 1 = n + 2
        BY <1>1, <1>2
      <4> QED  BY <1>2, <4>1
    <3>2. n # 1 => t[n - 1] = IF n - 1 < k THEN s[n - 1] ELSE s[n]
      <4> DEFINE w == n - 1
      <4>1. n # 1 => w \in 1..m - 1 /\ w + 1 = n
        BY <1>1, <1>2
      <4> HIDE DEF w
      <4>2. n # 1 => t[w] = IF w < k THEN s[w] ELSE s[w + 1]
        BY <1>2, <4>1
      <4>3. n # 1 => t[w] = IF w < k THEN s[w] ELSE s[n]
        BY <4>1, <4>2
      <4> QED  BY <4>3 DEF w
    <3>3. CASE n < k
      <4>1. n \in 1..m /\ n # k /\ t[n] = s[n] /\ n # k + 1 /\ n # m
        <5>1. n \in 1..m /\ n # k /\ n # k + 1 /\ n # m
          BY <1>0, <3>3
        <5> QED  BY <1>2, <3>3, <5>1
      <4>2. pNext'[t[n]] = IF n = m - 1 THEN Null ELSE t[n + 1]
        <5>1. pNext'[t[n]] = IF n = k - 1 THEN pNext[ap] ELSE s[n + 1]
          BY <1>7, <4>1
        <5> QED  BY <1>1, <1>2, <1>5, <3>1, <3>3, <5>1
      <4>3. pPrev'[t[n]] = IF n = 1 THEN Null ELSE t[n - 1]
        <5>1. pPrev'[t[n]] = IF n = 1 THEN Null ELSE s[n - 1]
          BY <1>7, <4>1
        <5> QED  BY <1>1, <1>2, <3>2, <3>3, <5>1
      <4> QED  BY <1>7, <4>1, <4>2, <4>3
    <3>4. CASE n >= k
      <4>1. /\ n + 1 \in 1..m /\ n + 1 # k /\ t[n] = s[n + 1] /\ n + 1 # k - 1
            /\ n + 1 # 1 /\ (n + 1) + 1 = n + 2 /\ (n + 1) - 1 = n
            /\ (n + 1 = k + 1 <=> n = k) /\ (n + 1 = m <=> n = m - 1)
        BY <1>1, <1>2, <3>4
      <4>2. pNext'[t[n]] = IF n = m - 1 THEN Null ELSE t[n + 1]
        <5>1. pNext'[t[n]] = IF n + 1 = m THEN Null ELSE s[n + 2]
          BY <1>7, <4>1
        <5> QED  BY <1>1, <1>2, <3>1, <3>4, <4>1, <5>1
      <4>3. pPrev'[t[n]] = IF n = 1 THEN Null ELSE t[n - 1]
        <5> DEFINE w == n + 1
        <5>1. w \in 1..m /\ w # k /\ w # 1 /\ w - 1 = n /\ t[n] = s[w]
              /\ (w = k + 1 <=> n = k)
          BY <4>1
        <5> HIDE DEF w
        <5>2. pPrev'[s[w]] = IF w = k + 1 THEN pPrev[ap] ELSE s[w - 1]
          BY <1>7, <5>1
        <5>3. pPrev'[t[n]] = IF n = k THEN pPrev[ap] ELSE s[n]
          BY <5>1, <5>2
        <5>4. CASE n = k
          <6>1. n # 1 => t[n - 1] = s[n - 1]
            BY <1>0, <3>2, <5>4
          <6> QED  BY <1>5, <5>3, <5>4, <6>1
        <5>5. CASE n # k
          <6>1. n # 1 /\ ~(n - 1 < k)
            BY <1>0, <3>4, <5>5
          <6> QED  BY <3>2, <5>3, <5>5, <6>1
        <5> QED  BY <5>4, <5>5
      <4> QED  BY <1>7, <4>1, <4>2, <4>3
    <3> QED  BY <1>1, <1>2, <3>3, <3>4
  <2> QED  BY <1>2, <1>8, <2>1, <2>2, <2>3 DEF Holds
<1>10. \A i \in Items : pLink[i] \notin {l, Null} =>
           pNext'[i] = pNext[i] /\ pPrev'[i] = pPrev[i] /\ pLink'[i] = pLink[i]
  <2> SUFFICES ASSUME NEW i \in Items, pLink[i] \notin {l, Null}
               PROVE  pNext'[i] = pNext[i] /\ pPrev'[i] = pPrev[i]
                      /\ pLink'[i] = pLink[i]
    OBVIOUS
  <2>1. i # ap /\ \A n \in 1..m : i # s[n]
    BY <1>1, <1>5
  <2>2. (k = m \/ k + 1 \in 1..m) /\ (k = 1 \/ k - 1 \in 1..m)
    BY <1>1, <1>2
  <2>3. i # pPrev[ap] /\ i # pNext[ap]
    BY <1>5, <2>1, <2>2
  <2> QED  BY <2>1, <2>3 DEF Unlinks
<1>11. \A i \in Items : pLink[i] \in {l, Null} =>
           \/ pLink'[i] = l /\ \E n \in 1..Len(t) : t[n] = i
           \/ pLink'[i] = Null /\ pNext'[i] = Null /\ pPrev'[i] = Null
  <2> SUFFICES ASSUME NEW i \in Items, pLink[i] \in {l, Null}
               PROVE
           \/ pLink'[i] = l /\ \E n \in 1..Len(t) : t[n] = i
           \/ pLink'[i] = Null /\ pNext'[i] = Null /\ pPrev'[i] = Null
    OBVIOUS
  <2>1. CASE i = ap
    BY <2>1 DEF Unlinks
  <2>2. CASE i # ap /\ pLink[i] = l
    <3>1. PICK n \in 1..m : s[n] = i
      BY <1>1, <2>2
    <3>2. CASE n < k
      <4>1. n \in 1..m - 1 /\ t[n] = s[n]
        BY <1>1, <1>2, <3>2
      <4> QED  BY <1>2, <2>2, <3>1, <4>1 DEF Unlinks
    <3>3. CASE n > k
      <4> DEFINE w == n - 1
      <4>1. w \in 1..m - 1 /\ w + 1 = n /\ ~(w < k)
        BY <1>0, <3>3
      <4> HIDE DEF w
      <4>2. t[w] = s[w + 1]
        BY <1>2, <4>1
      <4> QED  BY <1>2, <2>2, <3>1, <4>1, <4>2 DEF Unlinks
    <3>4. n # k
      BY <1>2, <2>2, <3>1
    <3> QED  BY <1>1, <1>2, <3>2, <3>3, <3>4
  <2>3. CASE i # ap /\ pLink[i] = Null
    <3>1. pNext[i] = Null /\ pPrev[i] = Null
      BY <2>3 DEF DListInv, Represent
    <3>2. \A n \in 1..m : i # s[n]
      BY <1>1, <2>3
    <3>3. (k = m \/ k + 1 \in 1..m) /\ (k = 1 \/ k - 1 \in 1..m)
      BY <1>1, <1>2
    <3>4. i # pPrev[ap] /\ i # pNext[ap]
      BY <1>5, <3>2, <3>3
    <3> QED  BY <2>3, <3>1, <3>4 DEF Unlinks
  <2> QED  BY <2>1, <2>2, <2>3
<1>12. Seqs' = [Seqs EXCEPT ![l] = t] /\ DListInv'
  <2>1. \A j \in Links \ {l} : head'[j] = head[j] /\ tail'[j] = tail[j]
    BY DEF Unlinks
  <2> QED  BY <1>9, <1>10, <1>11, <2>1, OneList
<1> QED  BY <1>12

\* PopHead takes the first item of the list.
LEMMA PopHeadStep ==
  ASSUME DListInv, NEW l \in Links, PopHead(l)
  PROVE  /\ DListInv' /\ Seqs' = [Seqs EXCEPT ![l] = Tail(Seqs[l])]
         /\ Seqs[l] # <<>>
<1> DEFINE s == Seqs[l]
           t == Tail(s)
           ap == head[l]
           m == Len(s)
<1>1. DListTypeOK /\ ap # Null /\ ap \in Items
  BY DEF PopHead, DListInv, DListTypeOK
<1>2. /\ s \in Seq(Items) /\ m \in Nat
      /\ head[l] = (IF s = <<>> THEN Null ELSE s[1])
      /\ tail[l] = (IF s = <<>> THEN Null ELSE s[m])
      /\ \A n \in 1..m :
           /\ pNext[s[n]] = IF n = m THEN Null ELSE s[n + 1]
           /\ pPrev[s[n]] = IF n = 1 THEN Null ELSE s[n - 1]
      /\ \A i, j \in 1..m : s[i] = s[j] => i = j
  BY ListIs
<1>3. s # <<>> /\ m # 0 /\ ap = s[1] /\ tail[l] = s[m]
  BY <1>1, <1>2
<1>4. 1 \in 1..m
  BY <1>2, <1>3
<1>5. IsWithout(t, s, 1)
  <2>1. t \in Seq(Items) /\ Len(t) = m - 1 /\ \A n \in 1..m - 1 : t[n] = s[n + 1]
    BY <1>2, <1>3
  <2>2. \A n \in 1..m - 1 : ~(n < 1)
    BY <1>2
  <2> HIDE DEF t, s, m
  <2> QED  BY <2>1, <2>2 DEF IsWithout, m
<1> HIDE DEF s, t, m
<1>6. pPrev[ap] = Null /\ (ap = tail[l] <=> m = 1)
      /\ pNext[ap] = IF m = 1 THEN Null ELSE s[2]
  <2>1. m \in 1..m /\ 1 + 1 = 2
    BY <1>2, <1>3
  <2>2. pNext[s[1]] = (IF 1 = m THEN Null ELSE s[1 + 1]) /\ pPrev[s[1]] = Null
    BY <1>2, <1>4
  <2>3. s[1] = s[m] <=> m = 1
    BY <1>2, <1>4, <2>1
  <2> QED  BY <1>3, <2>1, <2>2, <2>3
<1>7. /\ head' \in [Links -> Items \cup {Null}]
      /\ \A j \in Links : head'[j] = IF j = l THEN pNext[ap] ELSE head[j]
  <2>1. pNext[ap] \in Items \cup {Null}
    BY <1>1 DEF DListTypeOK
  <2>2. head' = [head EXCEPT ![l] = pNext[ap]]
    BY <1>6 DEF PopHead
  <2> QED  BY <1>1, <2>1, <2>2 DEF DListTypeOK
<1>8. /\ tail' \in [Links -> Items \cup {Null}]
      /\ \A j \in Links :
           tail'[j] = IF j = l /\ ap = tail[l] THEN Null ELSE tail[j]
  BY <1>1 DEF PopHead, TailAfterPop, DListTypeOK
<1>9. /\ pNext' \in [Items -> Items \cup {Null}]
      /\ \A i \in Items : pNext'[i] = IF i = ap THEN Null ELSE pNext[i]
  BY <1>1 DEF PopHead, DListTypeOK
<1>10. /\ pPrev' \in [Items -> Items \cup {Null}]
       /\ \A i \in Items : pPrev'[i] =
            IF i = ap THEN Null ELSE IF i = pNext[ap] THEN Null ELSE pPrev[i]
  <2>1. head'[l] = pNext[ap]
    BY <1>7
  <2> DEFINE f == [pPrev EXCEPT ![ap] = Null]
             B == Items \cup {Null}
  <2>2. pPrev' = Set(f, pNext[ap], Null)
    BY <2>1 DEF PopHead
  <2>3. /\ f \in [Items -> B] /\ Null \in B
        /\ \A i \in Items : f[i] = IF i = ap THEN Null ELSE pPrev[i]
    BY <1>1 DEF DListTypeOK
  <2> HIDE DEF f, B
  <2>4. /\ pPrev' \in [Items -> B]
        /\ \A i \in Items : pPrev'[i] = IF i = pNext[ap] THEN Null ELSE f[i]
    BY <2>2, <2>3 DEF Set
  <2> QED  BY <2>3, <2>4 DEF B
<1>11. /\ pLink' \in [Items -> Links \cup {Null}]
       /\ \A i \in Items : pLink'[i] = IF i = ap THEN Null ELSE pLink[i]
  BY <1>1 DEF PopHead, DListTypeOK
<1>12. DListTypeOK'
  BY <1>7, <1>8, <1>9, <1>10, <1>11 DEF DListTypeOK
<1> HIDE DEF ap
<1>13. Unlinks(l, ap)
  <2>1. ap # Null /\ ap = head[l]
    BY <1>1 DEF ap
  <2>2. \A i \in Items : i # Null
    OBVIOUS
  <2>3. \A i \in Items : pNext'[i] =
       IF i = ap THEN Null ELSE IF i = pPrev[ap] THEN pNext[ap] ELSE pNext[i]
    BY <1>6, <1>9, <2>2
  <2>4. \A i \in Items : pPrev'[i] =
       IF i = ap THEN Null ELSE IF i = pNext[ap] THEN pPrev[ap] ELSE pPrev[i]
    BY <1>6, <1>10
  <2>5. \A j \in Links :
       head'[j] = IF j = l /\ ap = head[l] THEN pNext[ap] ELSE head[j]
    BY <1>7, <2>1
  <2>6. \A j \in Links :
       tail'[j] = IF j = l /\ ap = tail[l] THEN pPrev[ap] ELSE tail[j]
    BY <1>6, <1>8
  <2> QED  BY <1>11, <2>3, <2>4, <2>5, <2>6 DEF Unlinks
<1>14. DListInv' /\ Seqs' = [Seqs EXCEPT ![l] = t]
  <2>1. 1 \in 1..Len(Seqs[l]) /\ IsWithout(t, Seqs[l], 1) /\ ap = Seqs[l][1]
    BY <1>3, <1>4, <1>5 DEF s, m
  <2> QED  BY <1>12, <1>13, <2>1, ItemTaken
<1> QED  BY <1>3, <1>14 DEF t, s

\* RemoveAt gives the sequence without an element.
LEMMA RemoveAtIs ==
  ASSUME NEW s \in Seq(Items), NEW k \in 1..Len(s)
  PROVE  IsWithout(RemoveAt(s, k), s, k)
<1> DEFINE a == SubSeq(s, 1, k - 1)
           b == SubSeq(s, k + 1, Len(s))
           v == a \o b
           m == Len(s)
<1>1. /\ m \in Nat /\ k \in 1..m /\ k - 1 \in Nat /\ m - k \in Nat
  OBVIOUS
<1>2. /\ a \in Seq(Items) /\ Len(a) = k - 1
      /\ \A n \in 1..k - 1 : a[n] = s[n]
  OBVIOUS
<1>3. /\ b \in Seq(Items) /\ Len(b) = m - k
      /\ \A n \in 1..m - k : b[n] = s[k + n]
  OBVIOUS
<1> HIDE DEF a, b, m
<1>4. /\ v \in Seq(Items) /\ Len(v) = Len(a) + Len(b)
      /\ \A n \in 1..Len(a) : v[n] = a[n]
      /\ \A n \in Len(a) + 1..Len(a) + Len(b) : v[n] = b[n - Len(a)]
  <2>1. a \in Seq(Items) /\ b \in Seq(Items)
    BY <1>2, <1>3
  <2>2. v \in Seq(Items)
    BY <2>1
  <2>3. /\ Len(v) = Len(a) + Len(b)
        /\ \A n \in 1..Len(a) : v[n] = a[n]
        /\ \A n \in Len(a) + 1..Len(a) + Len(b) : v[n] = b[n - Len(a)]
    BY <2>1, ConcatAt
  <2> QED  BY <2>2, <2>3
<1>5. Len(v) = m - 1
  BY <1>1, <1>2, <1>3, <1>4
<1>6. ASSUME NEW n \in 1..m - 1
      PROVE  v[n] = IF n < k THEN s[n] ELSE s[n + 1]
  <2> HIDE DEF v
  <2>1. CASE n < k
    <3>1. n \in 1..k - 1 /\ n \in 1..Len(a)
      BY <1>1, <1>2, <2>1
    <3> QED  BY <1>2, <1>4, <2>1, <3>1
  <2>2. CASE ~(n < k)
    <3> DEFINE w == n - (k - 1)
    <3>1. n \in Len(a) + 1..Len(a) + Len(b) /\ n - Len(a) = w
          /\ w \in 1..m - k /\ k + w = n + 1
      BY <1>1, <1>2, <1>3, <2>2
    <3> HIDE DEF w
    <3>2. v[n] = b[w]
      BY <1>4, <3>1
    <3>3. b[w] = s[k + w]
      BY <1>3, <3>1
    <3> QED  BY <1>1, <2>2, <3>1, <3>2, <3>3
  <2> QED  BY <2>1, <2>2
<1>7. RemoveAt(s, k) = v
  BY DEF RemoveAt, a, b, m
<1> HIDE DEF v
<1> QED  BY <1>4, <1>5, <1>6, <1>7 DEF IsWithout, m

\* RemoveFromLink takes the item out of the list that it names.
LEMMA RemoveFromLinkStep ==
  ASSUME DListInv, NEW ap \in Items, RemoveFromLink(ap)
  PROVE  LET l == pLink[ap]
         IN  /\ DListInv' /\ l \in Links
             /\ \E k \in 1..Len(Seqs[l]) :
                  /\ Seqs[l][k] = ap
                  /\ Seqs' = [Seqs EXCEPT ![l] = RemoveAt(Seqs[l], k)]
<1> DEFINE l == pLink[ap]
           B == Items \cup {Null}
<1>1. DListTypeOK /\ l # Null /\ l \in Links
  BY DEF RemoveFromLink, DListInv, DListTypeOK
<1>2. PICK k \in 1..Len(Seqs[l]) : Seqs[l][k] = ap
  BY <1>1 DEF DListInv, Represent
<1>3. Seqs[l] \in Seq(Items)
  BY <1>1, ListIs
<1>4. IsWithout(RemoveAt(Seqs[l], k), Seqs[l], k)
  BY <1>3, RemoveAtIs
<1>5. /\ pPrev[ap] \in B /\ pNext[ap] \in B /\ Null \in B
      /\ pPrev \in [Items -> B] /\ pNext \in [Items -> B]
  BY <1>1 DEF DListTypeOK
<1>6. /\ pNext' \in [Items -> B]
      /\ \A i \in Items : pNext'[i] =
           IF i = ap THEN Null
           ELSE IF i = pPrev[ap] THEN pNext[ap] ELSE pNext[i]
  <2> DEFINE f == Set(pNext, pPrev[ap], pNext[ap])
  <2> HIDE DEF B
  <2>1. /\ f \in [Items -> B]
        /\ \A i \in Items :
             f[i] = IF i = pPrev[ap] THEN pNext[ap] ELSE pNext[i]
    BY <1>5 DEF Set
  <2>2. pNext' = Set(f, ap, Null)
    BY DEF RemoveFromLink, Unlinked
  <2> HIDE DEF f
  <2>3. /\ pNext' \in [Items -> B]
        /\ \A i \in Items : pNext'[i] = IF i = ap THEN Null ELSE f[i]
    BY <1>5, <2>1, <2>2 DEF Set
  <2> QED  BY <2>1, <2>3
<1>7. /\ pPrev' \in [Items -> B]
      /\ \A i \in Items : pPrev'[i] =
           IF i = ap THEN Null
           ELSE IF i = pNext[ap] THEN pPrev[ap] ELSE pPrev[i]
  <2> DEFINE f == Set(pPrev, pNext[ap], pPrev[ap])
  <2> HIDE DEF B
  <2>1. /\ f \in [Items -> B]
        /\ \A i \in Items :
             f[i] = IF i = pNext[ap] THEN pPrev[ap] ELSE pPrev[i]
    BY <1>5 DEF Set
  <2>2. pPrev' = Set(f, ap, Null)
    BY DEF RemoveFromLink, UnlinkedBack
  <2> HIDE DEF f
  <2>3. /\ pPrev' \in [Items -> B]
        /\ \A i \in Items : pPrev'[i] = IF i = ap THEN Null ELSE f[i]
    BY <1>5, <2>1, <2>2 DEF Set
  <2> QED  BY <2>1, <2>3
<1>8. /\ pLink' \in [Items -> Links \cup {Null}]
      /\ \A i \in Items : pLink'[i] = IF i = ap THEN Null ELSE pLink[i]
  BY <1>1 DEF RemoveFromLink, DListTypeOK
<1>9. /\ head' \in [Links -> B]
      /\ \A j \in Links :
           head'[j] = IF j = l /\ ap = head[l] THEN pNext[ap] ELSE head[j]
  BY <1>1, <1>5 DEF RemoveFromLink, DListTypeOK
<1>10. /\ tail' \in [Links -> B]
       /\ \A j \in Links :
            tail'[j] = IF j = l /\ ap = tail[l] THEN pPrev[ap] ELSE tail[j]
  BY <1>1, <1>5 DEF RemoveFromLink, DListTypeOK
<1>11. DListTypeOK'
  BY <1>6, <1>7, <1>8, <1>9, <1>10 DEF DListTypeOK
<1> HIDE DEF l
<1>12. Unlinks(l, ap)
  BY <1>6, <1>7, <1>8, <1>9, <1>10 DEF Unlinks
<1>13. DListInv' /\ Seqs' = [Seqs EXCEPT ![l] = RemoveAt(Seqs[l], k)]
  <2> DEFINE t == RemoveAt(Seqs[l], k)
  <2>1. IsWithout(t, Seqs[l], k)
    BY <1>4
  <2> HIDE DEF t
  <2>2. DListInv' /\ Seqs' = [Seqs EXCEPT ![l] = t]
    BY <1>1, <1>2, <1>11, <1>12, <2>1, ItemTaken
  <2> QED  BY <2>2 DEF t
<1>14. k \in 1..Len(Seqs[l])
  OBVIOUS
<1> QED  BY <1>1, <1>2, <1>13, <1>14 DEF l

\* Join appends the items of one list to another and leaves the first empty.
LEMMA JoinStep ==
  ASSUME DListInv, NEW l \in Links, NEW other \in Links, Join(l, other)
  PROVE  /\ DListInv' /\ Seqs[other] # <<>>
         /\ Seqs' = [Seqs EXCEPT ![l] = Seqs[l] \o Seqs[other],
                                 ![other] = <<>>]
<1> DEFINE s == Seqs[l]
           o == Seqs[other]
           m == Len(s)
           p == Len(o)
           v == s \o o
           B == Items \cup {Null}
           Mem == Members(other)
           q == Seqs
           q2 == [q EXCEPT ![l] = v, ![other] = <<>>]
<1>1. DListTypeOK /\ l # other /\ head[other] # Null
  BY DEF Join, DListInv
<1>2. /\ s \in Seq(Items) /\ m \in Nat /\ IsInjective(s)
      /\ head[l] = (IF s = <<>> THEN Null ELSE s[1])
      /\ tail[l] = (IF s = <<>> THEN Null ELSE s[m])
      /\ \A n \in 1..m :
           /\ s[n] \in Items /\ s[n] # Null
           /\ pLink[s[n]] = l
           /\ pNext[s[n]] = IF n = m THEN Null ELSE s[n + 1]
           /\ pPrev[s[n]] = IF n = 1 THEN Null ELSE s[n - 1]
      /\ \A i, j \in 1..m : s[i] = s[j] => i = j
      /\ \A i \in Items : pLink[i] = l => \E n \in 1..m : s[n] = i
  BY ListIs
<1>3. /\ o \in Seq(Items) /\ p \in Nat /\ IsInjective(o)
      /\ head[other] = (IF o = <<>> THEN Null ELSE o[1])
      /\ tail[other] = (IF o = <<>> THEN Null ELSE o[p])
      /\ \A n \in 1..p :
           /\ o[n] \in Items /\ o[n] # Null
           /\ pLink[o[n]] = other
           /\ pNext[o[n]] = IF n = p THEN Null ELSE o[n + 1]
           /\ pPrev[o[n]] = IF n = 1 THEN Null ELSE o[n - 1]
      /\ \A i, j \in 1..p : o[i] = o[j] => i = j
      /\ \A i \in Items : pLink[i] = other => \E n \in 1..p : o[n] = i
  BY ListIs
<1>4. o # <<>> /\ p # 0 /\ 1 \in 1..p /\ head[other] = o[1]
      /\ tail[other] = o[p]
  BY <1>1, <1>3
<1>5. (s = <<>> <=> m = 0)
  <2>1. s \in Seq(Items)
    BY <1>2
  <2> HIDE DEF s
  <2> QED  BY <2>1
<1>6. Mem = {o[n] : n \in 1..p}
  BY <1>3 DEF Members, Seqs
<1> HIDE DEF s, o, m, p, Mem, q
<1>7. \A i \in Items : i \in Mem <=> pLink[i] = other
  BY <1>3, <1>6
<1>8. /\ tail[l] = Null <=> m = 0
      /\ m # 0 => tail[l] = s[m] /\ m \in 1..m /\ tail[l] \in Items
                  /\ pLink[tail[l]] = l
      /\ \A n \in 1..m : s[n] = tail[l] <=> n = m
  BY <1>2, <1>5
<1>9. /\ pNext' \in [Items -> B]
      /\ \A i \in Items : pNext'[i] = IF i = tail[l] THEN o[1] ELSE pNext[i]
  <2>1. pNext' = Set(pNext, tail[l], o[1]) /\ o[1] \in B
    BY <1>3, <1>4 DEF Join
  <2> QED  BY <1>1, <2>1 DEF DListTypeOK, Set
<1>10. /\ pPrev' \in [Items -> B]
       /\ \A i \in Items : pPrev'[i] =
            IF i = o[1] /\ m # 0 THEN tail[l] ELSE pPrev[i]
  <2>1. pPrev' = IF m = 0 THEN pPrev ELSE [pPrev EXCEPT ![o[1]] = tail[l]]
    BY <1>4, <1>8 DEF Join
  <2>2. pPrev \in [Items -> B] /\ tail[l] \in B
    BY <1>1 DEF DListTypeOK
  <2> HIDE DEF B
  <2> QED  BY <2>1, <2>2
<1>11. /\ pLink' \in [Items -> Links \cup {Null}]
       /\ \A i \in Items :
            pLink'[i] = IF pLink[i] = other THEN l ELSE pLink[i]
  <2>1. pLink' = [i \in Items |-> IF i \in Mem THEN l ELSE pLink[i]]
    BY DEF Join, Mem
  <2> QED  BY <1>1, <1>7, <2>1 DEF DListTypeOK
<1>12. /\ head' \in [Links -> B] /\ head'[other] = Null
       /\ head'[l] = IF m = 0 THEN o[1] ELSE head[l]
       /\ \A k \in Links \ {l, other} : head'[k] = head[k]
  <2>1. head' = [head EXCEPT ![other] = Null,
                             ![l] = IF m = 0 THEN o[1] ELSE @]
    BY <1>4, <1>8 DEF Join
  <2>2. o[1] \in B /\ Null \in B /\ head \in [Links -> B]
    BY <1>1, <1>3, <1>4 DEF DListTypeOK
  <2> HIDE DEF B
  <2> QED  BY <1>1, <2>1, <2>2
<1>13. /\ tail' \in [Links -> B] /\ tail'[other] = Null
       /\ tail'[l] = o[p]
       /\ \A k \in Links \ {l, other} : tail'[k] = tail[k]
  <2>1. tail' = [tail EXCEPT ![l] = o[p], ![other] = Null]
    BY <1>4 DEF Join
  <2>2. o[p] \in B /\ Null \in B /\ tail \in [Links -> B]
    BY <1>1, <1>3, <1>4 DEF DListTypeOK
  <2> HIDE DEF B
  <2> QED  BY <1>1, <2>1, <2>2
<1>14. DListTypeOK'
  BY <1>9, <1>10, <1>11, <1>12, <1>13 DEF DListTypeOK
<1>15. /\ v \in Seq(Items) /\ IsInjective(v)
  <2>1. ToSet(s) \cap ToSet(o) = {}
    <3>1. \A x \in ToSet(s) : pLink[x] = l
      BY <1>2 DEF ToSet, m
    <3>2. \A x \in ToSet(o) : pLink[x] = other
      BY <1>3 DEF ToSet, p
    <3> QED  BY <1>1, <3>1, <3>2
  <2> QED  BY <1>2, <1>3, <2>1, ConcatIs
<1>16. /\ Len(v) = m + p
       /\ \A n \in 1..m : v[n] = s[n]
       /\ \A n \in 1..p : v[m + n] = o[n]
  <2>1. /\ Len(v) = m + p
        /\ \A n \in 1..m : v[n] = s[n]
        /\ \A n \in m + 1..m + p : v[n] = o[n - m]
    BY <1>2, <1>3, ConcatAt DEF m, p
  <2>2. \A n \in 1..p : m + n \in m + 1..m + p /\ (m + n) - m = n
    BY <1>2, <1>3
  <2> HIDE DEF v
  <2> QED  BY <2>1, <2>2
<1> HIDE DEF v
<1>17. Holds(v, l, pNext', pPrev', pLink', head'[l], tail'[l])
  <2>1. v # <<>>
    <3>1. Len(v) # 0
      BY <1>2, <1>3, <1>4, <1>16
    <3> QED  BY <1>15, <3>1
  <2>2. head'[l] = v[1]
    <3>1. m = 0 => v[1] = o[1]
      BY <1>4, <1>16
    <3>2. m # 0 => v[1] = s[1]
      BY <1>2, <1>16
    <3> QED  BY <1>2, <1>5, <1>12, <3>1, <3>2
  <2>3. tail'[l] = v[Len(v)]
    <3>1. v[m + p] = o[p]
      BY <1>3, <1>4, <1>16
    <3> QED  BY <1>13, <1>16, <3>1
  <2>4. ASSUME NEW n \in 1..m
        PROVE  /\ pLink'[v[n]] = l
               /\ pNext'[v[n]] = v[n + 1]
               /\ pPrev'[v[n]] = IF n = 1 THEN Null ELSE v[n - 1]
    <3> DEFINE i == s[n]
    <3>1. /\ i \in Items /\ pLink[i] = l /\ v[n] = i
          /\ pNext[i] = IF n = m THEN Null ELSE s[n + 1]
          /\ pPrev[i] = IF n = 1 THEN Null ELSE s[n - 1]
          /\ i = tail[l] <=> n = m
      BY <1>2, <1>8, <1>16
    <3> HIDE DEF i
    <3>2. i # o[1]
      BY <1>1, <1>3, <1>4, <3>1
    <3>3. v[n + 1] = IF n = m THEN o[1] ELSE s[n + 1]
      <4>1. n # m => n + 1 \in 1..m
        BY <1>2
      <4>2. v[m + 1] = o[1]
        BY <1>4, <1>16
      <4> QED  BY <1>16, <4>1, <4>2
    <3>4. n # 1 => v[n - 1] = s[n - 1]
      <4>1. n # 1 => n - 1 \in 1..m
        BY <1>2
      <4> QED  BY <1>16, <4>1
    <3>5. pNext'[i] = v[n + 1]
      BY <1>9, <3>1, <3>3
    <3>6. pPrev'[i] = IF n = 1 THEN Null ELSE v[n - 1]
      BY <1>10, <3>1, <3>2, <3>4
    <3>7. pLink'[i] = l
      BY <1>1, <1>11, <3>1
    <3> QED  BY <3>1, <3>5, <3>6, <3>7
  <2>5. ASSUME NEW n \in 1..p
        PROVE  /\ pLink'[v[m + n]] = l
               /\ pNext'[v[m + n]] = IF n = p THEN Null ELSE v[m + n + 1]
               /\ pPrev'[v[m + n]] = IF m + n = 1 THEN Null ELSE v[m + n - 1]
    <3> DEFINE i == o[n]
    <3>1. /\ i \in Items /\ i # Null /\ pLink[i] = other /\ v[m + n] = i
          /\ pNext[i] = IF n = p THEN Null ELSE o[n + 1]
          /\ pPrev[i] = IF n = 1 THEN Null ELSE o[n - 1]
          /\ i = o[1] <=> n = 1
      BY <1>3, <1>4, <1>16
    <3> HIDE DEF i
    <3>2. i # tail[l]
      BY <1>1, <1>8, <3>1
    <3>3. n # p => v[m + n + 1] = o[n + 1]
      <4>1. n # p => n + 1 \in 1..p /\ m + (n + 1) = m + n + 1
        BY <1>2, <1>3
      <4> QED  BY <1>16, <4>1
    <3>4. n # 1 => v[m + n - 1] = o[n - 1]
      <4>1. n # 1 => n - 1 \in 1..p /\ m + (n - 1) = m + n - 1
        BY <1>2, <1>3
      <4> QED  BY <1>16, <4>1
    <3>5. pNext'[i] = IF n = p THEN Null ELSE v[m + n + 1]
      BY <1>9, <3>1, <3>2, <3>3
    <3>6. pPrev'[i] = IF m + n = 1 THEN Null ELSE v[m + n - 1]
      <4>1. CASE n # 1
        <5>1. m + n # 1
          BY <1>2, <4>1
        <5> QED  BY <1>10, <3>1, <3>4, <4>1, <5>1
      <4>2. CASE n = 1 /\ m = 0
        BY <1>10, <3>1, <4>2
      <4>3. CASE n = 1 /\ m # 0
        <5>1. m + n # 1 /\ m + n - 1 = m /\ m \in 1..m
          BY <1>2, <4>3
        <5>2. v[m] = tail[l]
          BY <1>8, <1>16, <4>3
        <5> QED  BY <1>10, <3>1, <4>3, <5>1, <5>2
      <4> QED  BY <4>1, <4>2, <4>3
    <3>7. pLink'[i] = l
      BY <1>11, <3>1
    <3> QED  BY <3>1, <3>5, <3>6, <3>7
  <2>6. ASSUME NEW n \in 1..Len(v)
        PROVE  /\ pLink'[v[n]] = l
               /\ pNext'[v[n]] = IF n = Len(v) THEN Null ELSE v[n + 1]
               /\ pPrev'[v[n]] = IF n = 1 THEN Null ELSE v[n - 1]
    <3>1. CASE n <= m
      <4>1. n \in 1..m /\ n # Len(v)
        BY <1>2, <1>3, <1>4, <1>16, <3>1
      <4> QED  BY <2>4, <4>1
    <3>2. CASE n > m
      <4> DEFINE w == n - m
      <4>1. w \in 1..p /\ m + w = n /\ (w = p <=> n = Len(v))
        BY <1>2, <1>3, <1>16, <3>2
      <4> HIDE DEF w
      <4>2. /\ pLink'[v[m + w]] = l
            /\ pNext'[v[m + w]] = IF w = p THEN Null ELSE v[m + w + 1]
            /\ pPrev'[v[m + w]] = IF m + w = 1 THEN Null ELSE v[m + w - 1]
        BY <2>5, <4>1
      <4>3. /\ m + w + 1 = n + 1 /\ m + w - 1 = n - 1
        BY <1>2, <1>3, <4>1
      <4>4. /\ pLink'[v[n]] = l
            /\ pNext'[v[n]] = IF w = p THEN Null ELSE v[n + 1]
            /\ pPrev'[v[n]] = IF n = 1 THEN Null ELSE v[n - 1]
        BY <4>1, <4>2, <4>3
      <4> QED  BY <4>1, <4>4
    <3> QED  BY <1>2, <3>1, <3>2
  <2> QED  BY <1>15, <2>1, <2>2, <2>3, <2>6 DEF Holds
<1>18. /\ q2 \in [Links -> Seq(Items)] /\ q2[l] = v /\ q2[other] = <<>>
       /\ \A k \in Links \ {l, other} : q2[k] = q[k]
  <2>1. q \in [Links -> Seq(Items)]
    BY DEF DListInv, Represent, q
  <2> QED  BY <1>1, <1>15, <2>1
<1> HIDE DEF q2
<1>19. ASSUME NEW k \in Links \ {l, other}
       PROVE  Holds(q2[k], k, pNext', pPrev', pLink', head'[k], tail'[k])
  <2>1. Holds(q[k], k, pNext, pPrev, pLink, head[k], tail[k])
    BY DEF DListInv, Represent, q
  <2>2. \A i \in Items : pLink[i] = k =>
          pNext'[i] = pNext[i] /\ pPrev'[i] = pPrev[i] /\ pLink'[i] = pLink[i]
    <3> SUFFICES ASSUME NEW i \in Items, pLink[i] = k
                 PROVE  pNext'[i] = pNext[i] /\ pPrev'[i] = pPrev[i]
                        /\ pLink'[i] = pLink[i]
      OBVIOUS
    <3>1. i # tail[l]
      BY <1>8
    <3>2. i # o[1]
      BY <1>3, <1>4
    <3> QED  BY <1>9, <1>10, <1>11, <3>1, <3>2
  <2>3. Holds(q[k], k, pNext', pPrev', pLink', head[k], tail[k])
    BY <2>1, <2>2, HoldsKept
  <2> QED  BY <1>12, <1>13, <1>18, <2>3
<1>20. Holds(<<>>, other, pNext', pPrev', pLink', head'[other], tail'[other])
  BY <1>12, <1>13, EmptyIs DEF Holds
<1>21. ASSUME NEW k \in Links
       PROVE  Holds(q2[k], k, pNext', pPrev', pLink', head'[k], tail'[k])
  BY <1>17, <1>18, <1>19, <1>20
<1>22. ASSUME NEW i \in Items
       PROVE  /\ pLink'[i] = Null => pNext'[i] = Null /\ pPrev'[i] = Null
              /\ pLink'[i] # Null =>
                   \E n \in 1..Len(q2[pLink'[i]]) : q2[pLink'[i]][n] = i
  <2>1. CASE pLink[i] = Null
    <3>1. pNext[i] = Null /\ pPrev[i] = Null
      BY <2>1 DEF DListInv, Represent
    <3>2. i # tail[l]
      BY <1>8, <2>1
    <3>3. i # o[1]
      BY <1>3, <1>4, <2>1
    <3> QED  BY <1>9, <1>10, <1>11, <2>1, <3>1, <3>2, <3>3
  <2>2. CASE pLink[i] = other
    <3>1. PICK n \in 1..p : o[n] = i
      BY <1>3, <2>2
    <3>2. m + n \in 1..Len(v) /\ v[m + n] = i
      BY <1>2, <1>3, <1>16, <3>1
    <3>3. pLink'[i] = l
      BY <1>11, <2>2
    <3> QED  BY <1>18, <3>2, <3>3
  <2>3. CASE pLink[i] = l
    <3>1. PICK n \in 1..m : s[n] = i
      BY <1>2, <2>3
    <3>2. n \in 1..Len(v) /\ v[n] = i
      BY <1>2, <1>3, <1>16, <3>1
    <3>3. pLink'[i] = l
      BY <1>11, <2>3
    <3> QED  BY <1>18, <3>2, <3>3
  <2>4. CASE pLink[i] \notin {Null, l, other}
    <3>1. pLink[i] \in Links \ {l, other} /\ pLink'[i] = pLink[i]
      BY <1>1, <1>11, <2>4 DEF DListTypeOK
    <3>2. \E n \in 1..Len(q[pLink[i]]) : q[pLink[i]][n] = i
      BY <3>1 DEF DListInv, Represent, q
    <3> QED  BY <1>18, <3>1, <3>2
  <2> QED  BY <2>1, <2>2, <2>3, <2>4
<1>23. Represent(q2, pNext', pPrev', pLink', head', tail')
  BY <1>18, <1>21, <1>22 DEF Represent
<1>24. Seqs' = q2 /\ DListInv'
  BY <1>14, <1>23, WalkAfter
<1> QED  BY <1>4, <1>24 DEF q2, q, v, s, o

\* A step of LinkSeqs, said of the sequences of the pointers.
LinkStep(l, q, q2) ==
  /\ q2[l] # q[l]
  /\ \/ q[l] # <<>> /\ q2 = [q EXCEPT ![l] = Tail(@)]
     \/ \E item \in Items :
          \/ /\ \A k \in Links : ~Contains(q[k], item)
             /\ q2 = [q EXCEPT ![l] = Append(@, item)]
          \/ \E n \in 1..Len(q[l]) :
               q[l][n] = item /\ q2 = [q EXCEPT ![l] = RemoveAt(@, n)]
     \/ \E other \in Links :
          /\ l # other /\ q[other] # <<>>
          /\ q2 = [q EXCEPT ![l] = @ \o q[other], ![other] = <<>>]

\* Every call keeps the invariant and is a step of LinkSeqs.
LEMMA CallIs ==
  ASSUME DListInv, DListNext
  PROVE  DListInv' /\ \E l \in Links : LinkStep(l, Seqs, Seqs')
<1> DEFINE q == Seqs
           q2 == Seqs'
<1>1. q \in [Links -> Seq(Items)]
  BY DEF DListInv, Represent
<1>2. ASSUME NEW ap \in Items, RemoveFromLink(ap)
      PROVE  DListInv' /\ \E l \in Links : LinkStep(l, q, q2)
  <2> DEFINE l == pLink[ap]
  <2>1. DListInv' /\ l \in Links
    BY <1>2, RemoveFromLinkStep
  <2>2. PICK k \in 1..Len(q[l]) :
          q[l][k] = ap /\ q2 = [q EXCEPT ![l] = RemoveAt(q[l], k)]
    BY <1>2, RemoveFromLinkStep
  <2>3. q[l] \in Seq(Items)
    BY <1>1, <2>1
  <2> HIDE DEF q, q2, l
  <2>4. Len(RemoveAt(q[l], k)) = Len(q[l]) - 1 /\ Len(q[l]) \in Nat
    BY <2>3, RemoveAtIs DEF IsWithout
  <2>5. q2[l] # q[l]
    BY <1>1, <2>1, <2>2, <2>4
  <2>6. k \in 1..Len(q[l])
    OBVIOUS
  <2>7. LinkStep(l, q, q2)
    BY <1>2, <2>2, <2>5, <2>6 DEF LinkStep
  <2> QED  BY <2>1, <2>7
<1>3. ASSUME NEW l \in Links, NEW ap \in Items, AddTail(l, ap)
      PROVE  DListInv' /\ LinkStep(l, q, q2)
  <2>1. /\ DListInv' /\ q2 = [q EXCEPT ![l] = Append(q[l], ap)]
        /\ \A k \in Links : \A n \in 1..Len(q[k]) : q[k][n] # ap
    BY <1>3, AddTailStep
  <2>2. q[l] \in Seq(Items)
    BY <1>1
  <2> HIDE DEF q, q2
  <2>3. Len(Append(q[l], ap)) = Len(q[l]) + 1 /\ Len(q[l]) \in Nat
    BY <2>2
  <2>4. q2[l] # q[l]
    BY <1>1, <2>1, <2>3
  <2>5. \A k \in Links : ~Contains(q[k], ap)
    BY <2>1 DEF Contains
  <2> QED  BY <2>1, <2>4, <2>5 DEF LinkStep
<1>4. ASSUME NEW l \in Links, PopHead(l)
      PROVE  DListInv' /\ LinkStep(l, q, q2)
  <2>1. DListInv' /\ q2 = [q EXCEPT ![l] = Tail(q[l])] /\ q[l] # <<>>
    BY <1>4, PopHeadStep
  <2>2. q[l] \in Seq(Items)
    BY <1>1
  <2> HIDE DEF q, q2
  <2>3. Len(Tail(q[l])) = Len(q[l]) - 1 /\ Len(q[l]) \in Nat
    BY <2>1, <2>2
  <2>4. q2[l] # q[l]
    <3>1. q2[l] = Tail(q[l])
      BY <1>1, <2>1
    <3>2. Len(q2[l]) = Len(q[l]) - 1
      BY <2>3, <3>1
    <3>3. Len(q2[l]) # Len(q[l])
      BY <2>3, <3>2
    <3> QED  BY <3>3
  <2> QED  BY <2>1, <2>4 DEF LinkStep
<1>5. ASSUME NEW l \in Links, NEW other \in Links, Join(l, other)
      PROVE  DListInv' /\ LinkStep(l, q, q2)
  <2>1. /\ DListInv' /\ q[other] # <<>>
        /\ q2 = [q EXCEPT ![l] = q[l] \o q[other], ![other] = <<>>]
    BY <1>5, JoinStep
  <2>2. l # other
    BY <1>5 DEF Join
  <2>3. q[l] \in Seq(Items) /\ q[other] \in Seq(Items)
    BY <1>1
  <2> HIDE DEF q, q2
  <2>4. Len(q[l]) \in Nat /\ Len(q[other]) \in Nat \ {0}
    BY <2>1, <2>3
  <2>5. Len(q[l] \o q[other]) = Len(q[l]) + Len(q[other])
    BY <2>3, ConcatAt
  <2>6. q2[l] = q[l] \o q[other]
    BY <1>1, <2>1, <2>2
  <2>7. q2[l] # q[l]
    <3>1. Len(q2[l]) = Len(q[l]) + Len(q[other])
      BY <2>5, <2>6
    <3> DEFINE m == Len(q[l])
               p == Len(q[other])
    <3>2. m \in Nat /\ p \in Nat /\ p # 0 /\ Len(q2[l]) = m + p
      BY <2>4, <3>1
    <3> HIDE DEF m, p
    <3>3. Len(q2[l]) # m
      BY <3>2
    <3> QED  BY <3>3 DEF m
  <2> QED  BY <2>1, <2>2, <2>7 DEF LinkStep
<1> HIDE DEF q, q2
<1>6. DListInv' /\ \E l \in Links : LinkStep(l, q, q2)
  BY <1>2, <1>3, <1>4, <1>5 DEF DListNext
<1> QED  BY <1>6 DEF q, q2

\* DListInv holds throughout.
LEMMA ListsInvariant == DListSpec => []DListInv
<1>1. DListInit => DListInv
  <2> SUFFICES ASSUME DListInit PROVE DListInv
    OBVIOUS
  <2>1. \A l \in Links : Seqs[l] = <<>>
    BY DEF DListInit, Seqs, Chain
  <2>2. Seqs = [l \in Links |-> Seqs[l]]
    BY DEF Seqs
  <2> DEFINE q == Seqs
  <2>3. q \in [Links -> Seq(Items)] /\ \A l \in Links : q[l] = <<>>
    <3>1. <<>> \in Seq(Items)
      OBVIOUS
    <3> HIDE DEF q
    <3>2. q = [l \in Links |-> q[l]] /\ \A l \in Links : q[l] = <<>>
      BY <2>1, <2>2 DEF q
    <3> QED  BY <3>1, <3>2
  <2>4. DListTypeOK
    BY DEF DListInit, DListTypeOK
  <2>5. \A l \in Links : Holds(<<>>, l, pNext, pPrev, pLink, head[l], tail[l])
    BY EmptyIs DEF Holds, DListInit
  <2>6. \A i \in Items : pNext[i] = Null /\ pPrev[i] = Null /\ pLink[i] = Null
    BY DEF DListInit
  <2> HIDE DEF q
  <2>7. Represent(q, pNext, pPrev, pLink, head, tail)
    BY <2>3, <2>5, <2>6 DEF Represent
  <2> QED  BY <2>4, <2>7 DEF DListInv, q
<1>2. DListInv /\ [DListNext]_dlistVars => DListInv'
  <2>1. CASE DListNext
    BY <2>1, CallIs
  <2>2. CASE UNCHANGED dlistVars
    BY <2>2 DEF dlistVars, DListInv, DListTypeOK, Represent, Holds, Seqs
  <2> QED  BY <2>1, <2>2
<1> QED  BY <1>1, <1>2, PTL DEF DListSpec

\* What RemoveFromLink relies on when it is called for an item in the middle
\* of a list (co_routine.cpp, RemoveFromLink): after any calls of the four
\* functions pPrev is the inverse of pNext, the tail ends the chain from the
\* head, pLink names the list whose chain the item is in, and an item in no
\* list has null pointers.
THEOREM PointersAgree == DListSpec => []ListsConsistent
<1>1. DListInv => ListsConsistent
  <2> SUFFICES ASSUME DListInv PROVE ListsConsistent
    OBVIOUS
  <2>1. ASSUME NEW l \in Links
        PROVE  LET chain == Chain(pNext, head[l])
               IN  /\ tail[l] = IF chain = <<>> THEN Null ELSE chain[Len(chain)]
                   /\ \A n \in DOMAIN chain :
                        /\ pLink[chain[n]] = l
                        /\ pPrev[chain[n]] =
                             IF n = 1 THEN Null ELSE chain[n - 1]
    <3> DEFINE c == Chain(pNext, head[l])
    <3>1. c = Seqs[l]
      BY DEF Seqs
    <3>2. /\ c \in Seq(Items)
          /\ tail[l] = IF c = <<>> THEN Null ELSE c[Len(c)]
          /\ \A n \in 1..Len(c) :
               /\ pLink[c[n]] = l
               /\ pPrev[c[n]] = IF n = 1 THEN Null ELSE c[n - 1]
      <4> HIDE DEF c
      <4> QED  BY <3>1, ListIs
    <3> HIDE DEF c
    <3>3. DOMAIN c = 1..Len(c)
      BY <3>2
    <3> QED  BY <3>2, <3>3 DEF c
  <2>2. DListTypeOK /\ \A i \in Items :
          pLink[i] = Null => pNext[i] = Null /\ pPrev[i] = Null
    BY DEF DListInv, Represent
  <2> QED  BY <2>1, <2>2 DEF ListsConsistent
<1> QED  BY <1>1, ListsInvariant, PTL

\* The pointers implement sequences: the lists that the loop, the wheel and
\* the conditions hold change, read from their heads, as LinkSeqs says, with
\* one sequence operation for every call of RemoveFromLink, AddTail, PopHead
\* and Join.
THEOREM PointersAreSequences == DListSpec => ImplementsLinkSeqs
<1> DEFINE seq == [l \in Links |-> Chain(pNext, head[l])]
<1>1. DListInit => Lists!Init
  BY DEF DListInit, Lists!Init, Chain
<1>2. DListInv /\ [DListNext]_dlistVars => [Lists!Next]_seq
  <2> SUFFICES ASSUME DListInv, [DListNext]_dlistVars
               PROVE  Lists!Next \/ UNCHANGED seq
    OBVIOUS
  <2>1. CASE DListNext
    <3>1. \E l \in Links : LinkStep(l, Seqs, Seqs')
      BY <2>1, CallIs
    <3>2. Seqs = seq /\ Seqs' = seq'
      BY DEF Seqs
    <3>3. PICK l \in Links : LinkStep(l, seq, seq')
      BY <3>1, <3>2
    <3>4. seq'[l] # seq[l]
      BY <3>3 DEF LinkStep
    <3>5. CASE seq[l] # <<>> /\ seq' = [seq EXCEPT ![l] = Tail(@)]
      <4>1. Lists!PopFirst(l)
        BY <3>5 DEF Lists!PopFirst
      <4> QED  BY <3>4, <4>1 DEF Lists!Next
    <3>6. ASSUME NEW item \in Items,
                 \A k \in Links : ~Contains(seq[k], item),
                 seq' = [seq EXCEPT ![l] = Append(@, item)]
          PROVE  Lists!Next
      <4>1. Lists!In(item) = {}
        BY <3>6 DEF Lists!In, Lists!Contains, Contains
      <4>2. Lists!AddLast(l, item)
        BY <3>6, <4>1 DEF Lists!AddLast
      <4> QED  BY <3>4, <4>2 DEF Lists!Next
    <3>7. ASSUME NEW item \in Items, NEW n \in 1..Len(seq[l]),
                 seq[l][n] = item, seq' = [seq EXCEPT ![l] = RemoveAt(@, n)]
          PROVE  Lists!Next
      <4>1. Lists!RemoveAt(seq[l], n) = RemoveAt(seq[l], n)
        BY DEF Lists!RemoveAt, RemoveAt
      <4>2. Lists!TakeOut(l, item)
        BY <3>7, <4>1 DEF Lists!TakeOut
      <4> QED  BY <3>4, <4>2 DEF Lists!Next
    <3>8. ASSUME NEW other \in Links, l # other, seq[other] # <<>>,
                 seq' = [seq EXCEPT ![l] = @ \o seq[other], ![other] = <<>>]
          PROVE  Lists!Next
      <4>1. Lists!MoveAll(l, other)
        BY <3>8 DEF Lists!MoveAll
      <4> QED  BY <3>4, <4>1 DEF Lists!Next
    <3> HIDE DEF seq
    <3> QED  BY <3>3, <3>5, <3>6, <3>7, <3>8 DEF LinkStep
  <2>2. CASE UNCHANGED dlistVars
    BY <2>2 DEF dlistVars
  <2> QED  BY <2>1, <2>2
<1> QED  BY <1>1, <1>2, ListsInvariant, PTL
      DEF DListSpec, ImplementsLinkSeqs, Lists!Spec
=============================================================================
