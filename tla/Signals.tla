------------------------------ MODULE Signals -------------------------------
(***************************************************************************)
(* TC_Port's callbacks of signals: registerSig, which has a thread of its  *)
(* own install the handler, and sighandler, which runs on top of whatever  *)
(* thread the signal reaches.  Both take one mutex that is not recursive.  *)
(***************************************************************************)
EXTENDS Naturals, Sequences, SequencesExt

CONSTANTS
  SigThreads,            (* the threads of the process                     *)
  SigNos,                (* the signals                                    *)
  Callbacks,             (* the callbacks                                  *)
  MaxCallbacks,          (* bound on the callbacks of a signal             *)
  MaxFrames              (* bound on handlers on top of one another        *)

ASSUME SignalAssumption == "none" \notin SigThreads

VARIABLES
  callbacks,             (* _callbacks: signal -> sequence, <<>> if absent *)
  installing,            (* signals whose thread has yet to call signal()  *)
  installed,             (* signals with sighandler                        *)
  sigOwner,              (* the thread that has _mutex, or "none"          *)
  sigFrames,             (* thread -> frames: what it runs, innermost last *)
  killed                 (* a signal without a handler ended the process   *)

sigVars == <<callbacks, installing, installed, sigOwner, sigFrames, killed>>

\* A frame is a call of registerSig or of sighandler; "next" counts the
\* callbacks a handler has begun, and "loop" is the sequence its iterators
\* were taken from.
CallFrame(kind, sig, f) ==
  [kind |-> kind, sig |-> sig, f |-> f,
   at |-> "enter", next |-> 0, loop |-> <<>>]

SigInit ==
  /\ callbacks = [s \in SigNos |-> <<>>]
  /\ installing = {} /\ installed = {}
  /\ sigOwner = "none" /\ killed = FALSE
  /\ sigFrames = [t \in SigThreads |-> <<>>]

Top(t) == Last(sigFrames[t])
SetTop(t, frame) ==
  sigFrames' = [sigFrames EXCEPT ![t] = Append(Front(@), frame)]
PushFrame(t, frame) == sigFrames' = [sigFrames EXCEPT ![t] = Append(@, frame)]
PopFrame(t) == sigFrames' = [sigFrames EXCEPT ![t] = Front(@)]

Running(t, kind, at) ==
  /\ ~killed
  /\ sigFrames[t] # <<>>
  /\ Top(t).kind = kind /\ Top(t).at = at

\* A program registers, or a callback that sighandler runs does.
CallRegister(t, sig, f) ==
  /\ ~killed
  /\ \/ sigFrames[t] = <<>>
     \/ Running(t, "handle", "callback")
  /\ Len(callbacks[sig]) < MaxCallbacks /\ Len(sigFrames[t]) < MaxFrames
  /\ PushFrame(t, CallFrame("register", sig, f))
  /\ UNCHANGED <<callbacks, installing, installed, sigOwner, killed>>

\* A signal reaches a thread, at any point, unless the thread is handling
\* that signal.  Without a handler it ends the process.
Deliver(t, sig) ==
  /\ ~killed
  /\ \A n \in DOMAIN sigFrames[t] :
       ~(sigFrames[t][n].kind = "handle" /\ sigFrames[t][n].sig = sig)
  /\ IF sig \in installed
     THEN /\ Len(sigFrames[t]) < MaxFrames
          /\ PushFrame(t, CallFrame("handle", sig, "none")) /\ UNCHANGED killed
     ELSE killed' = TRUE /\ UNCHANGED sigFrames
  /\ UNCHANGED <<callbacks, installing, installed, sigOwner>>

\* Mutant: the owner of the mutex goes through.
FreeForOwner(t) == sigOwner \in {"none", t}

\* A mutex that is not recursive: its owner waits for itself.
FreeFor(t) == sigOwner = "none"

LockSig(t) ==
  /\ Running(t, "register", "enter") \/ Running(t, "handle", "enter")
  /\ FreeFor(t)
  /\ sigOwner' = t
  /\ SetTop(t, [Top(t) EXCEPT !.at = "locked",
       !.loop = IF Top(t).kind = "handle" THEN callbacks[Top(t).sig] ELSE <<>>])
  /\ UNCHANGED <<callbacks, installing, installed, killed>>

\* registerSig(sig): a thread for the first callback.  A thread that cannot
\* be made is an exception, which leaves before the callback is stored.
StartInstall(t) ==
  /\ Running(t, "register", "locked")
  /\ callbacks[Top(t).sig] = <<>>
  /\ \/ /\ installing' = installing \cup {Top(t).sig}
        /\ SetTop(t, [Top(t) EXCEPT !.at = "store"])
        /\ UNCHANGED sigOwner
     \/ /\ PopFrame(t) /\ sigOwner' = "none"
        /\ UNCHANGED installing
  /\ UNCHANGED <<callbacks, installed, killed>>

MayStore(t) ==
  \/ Running(t, "register", "store")
  \/ Running(t, "register", "locked") /\ callbacks[Top(t).sig] # <<>>

StoreCallback(t) ==
  /\ MayStore(t)
  /\ callbacks' = [callbacks EXCEPT ![Top(t).sig] = Append(@, Top(t).f)]
  /\ PopFrame(t) /\ sigOwner' = "none"
  /\ UNCHANGED <<installing, installed, killed>>

Install(sig) ==
  /\ ~killed
  /\ sig \in installing
  /\ installing' = installing \ {sig} /\ installed' = installed \cup {sig}
  /\ UNCHANGED <<callbacks, sigOwner, sigFrames, killed>>

\* The next callback of the loop begins, or the handler returns.  (A callback
\* that throws is as one that returns.)
NextCallback(t) ==
  /\ Running(t, "handle", "locked") \/ Running(t, "handle", "callback")
  /\ IF Top(t).next < Len(callbacks[Top(t).sig])
     THEN /\ SetTop(t, [Top(t) EXCEPT !.at = "callback", !.next = @ + 1])
          /\ UNCHANGED sigOwner
     ELSE PopFrame(t) /\ sigOwner' = "none"
  /\ UNCHANGED <<callbacks, installing, installed, killed>>

SigNext ==
  \/ \E t \in SigThreads :
       \/ \E sig \in SigNos :
            Deliver(t, sig) \/ \E f \in Callbacks : CallRegister(t, sig, f)
       \/ LockSig(t) \/ StartInstall(t) \/ StoreCallback(t) \/ NextCallback(t)
  \/ \E sig \in SigNos : Install(sig)

SigSpec == SigInit /\ [][SigNext]_sigVars
-----------------------------------------------------------------------------
\* port.h:108: a signal with a callback has its handler, or a thread about
\* to install it, even if making that thread failed before; and while a
\* handler goes through the callbacks no other thread, and none of its own
\* callbacks, changes them under its iterators.  (Both rest on a mutex that
\* blocks its owner: a signal in registerSig, or a callback that registers,
\* stops the thread for good.)
CallbacksStable ==
  /\ \A s \in SigNos : callbacks[s] # <<>> => s \in installing \cup installed
  /\ \A t \in SigThreads : \A n \in DOMAIN sigFrames[t] :
       LET frame == sigFrames[t][n]
       IN  frame.kind = "handle" /\ frame.at # "enter"
             => frame.loop = callbacks[frame.sig]
=============================================================================
