----------------------------- MODULE HostByName -----------------------------
(***************************************************************************)
(* co_gethostbyname: the buffer of CO_ROUTINE_SPECIFIC that a coroutine    *)
(* keeps for its answers, which grows while the resolver finds it short,   *)
(* and the lock of the thread, under which one coroutine resolves while    *)
(* others run.  The lock is granted in turn, as FifoLock.                  *)
(***************************************************************************)
EXTENDS Naturals, Sequences, FiniteSets

CONSTANTS
  HostCo,                (* the coroutines                                 *)
  HostNames,             (* the names they ask for                         *)
  Buffers,               (* addresses malloc gives out                     *)
  MaxDoubling            (* the largest answer, in doublings of 1024       *)

ASSUME HostAssumption == 0 \notin Buffers /\ MaxDoubling \in Nat

VARIABLES
  buffer, bufferSize,    (* the coroutine's hostbuf_wrap: buffer or 0, and *)
                         (* the doublings of its size                      *)
  heap,                  (* live buffers                                   *)
  memory,                (* what a buffer holds: the answer for a name     *)
  hostStep, asked,       (* where a call is, and its name                  *)
  lockQueue              (* the coroutine with the lock, and those waiting *)

hostVars == <<buffer, bufferSize, heap, memory, hostStep, asked, lockQueue>>

HostInit ==
  /\ buffer = [c \in HostCo |-> 0] /\ bufferSize = [c \in HostCo |-> 0]
  /\ heap = {} /\ memory = [b \in Buffers |-> "garbage"]
  /\ hostStep = [c \in HostCo |-> "idle"]
  /\ asked = [c \in HostCo |-> "garbage"]
  /\ lockQueue = <<>>

\* Mutant: the pointer to a buffer that was freed is kept.
KeepsFreed(c) == buffer[c] # 0

\* A buffer of 1024 bytes is kept, a larger one was freed and forgotten.
Keeps(c) == buffer[c] # 0 /\ bufferSize[c] = 0

\* co_gethostbyname up to the lock of co_gethostbyname_r.
AskHost(c, name) ==
  /\ hostStep[c] \in {"idle", "returned"}
  /\ LET rest == IF bufferSize[c] > 0 THEN heap \ {buffer[c]} ELSE heap
     IN  IF Keeps(c)
         THEN heap' = rest /\ UNCHANGED <<buffer, bufferSize>>
         ELSE \E b \in Buffers \ rest :
                /\ heap' = rest \cup {b}
                /\ buffer' = [buffer EXCEPT ![c] = b]
                /\ bufferSize' = [bufferSize EXCEPT ![c] = 0]
  /\ hostStep' = [hostStep EXCEPT ![c] = "asks"]
  /\ asked' = [asked EXCEPT ![c] = name]
  /\ lockQueue' = Append(lockQueue, c)
  /\ UNCHANGED memory

Idle(c) ==
  /\ hostStep' = [hostStep EXCEPT ![c] = "idle"]
  /\ asked' = [asked EXCEPT ![c] = "garbage"]

Resolving(c) == hostStep[c] = "asks" /\ lockQueue # <<>> /\ Head(lockQueue) = c

\* ERANGE: a buffer of twice the size, and the lock is asked for again.
Grow(c) ==
  /\ Resolving(c)
  /\ bufferSize[c] < MaxDoubling
  /\ \E b \in Buffers \ (heap \ {buffer[c]}) :
       /\ heap' = (heap \ {buffer[c]}) \cup {b}
       /\ buffer' = [buffer EXCEPT ![c] = b]
       /\ memory' = [memory EXCEPT ![b] = "garbage"]
  /\ bufferSize' = [bufferSize EXCEPT ![c] = @ + 1]
  /\ lockQueue' = Append(Tail(lockQueue), c)
  /\ UNCHANGED <<hostStep, asked>>

\* The resolver writes its answer to the buffer, or fails: NULL.
Resolve(c) ==
  /\ Resolving(c)
  /\ \/ /\ memory' = [memory EXCEPT ![buffer[c]] = asked[c]]
        /\ hostStep' = [hostStep EXCEPT ![c] = "returned"]
        /\ UNCHANGED asked
     \/ /\ memory' = [memory EXCEPT ![buffer[c]] = "garbage"]
        /\ Idle(c)
  /\ lockQueue' = Tail(lockQueue)
  /\ UNCHANGED <<buffer, bufferSize, heap>>

\* A coroutine that is not in a call ends.  co_reset leaves aSpec to its next
\* function; co_release frees the object, and not what aSpec points to.
ResetCo(c) ==
  /\ hostStep[c] = "returned"
  /\ Idle(c)
  /\ UNCHANGED <<buffer, bufferSize, heap, memory, lockQueue>>

ReleaseCo(c) ==
  /\ hostStep[c] # "asks" /\ buffer[c] # 0
  /\ buffer' = [buffer EXCEPT ![c] = 0]
  /\ bufferSize' = [bufferSize EXCEPT ![c] = 0]
  /\ Idle(c)
  /\ UNCHANGED <<heap, memory, lockQueue>>

HostNext ==
  \E c \in HostCo :
    \/ \E name \in HostNames : AskHost(c, name)
    \/ Grow(c) \/ Resolve(c) \/ ResetCo(c) \/ ReleaseCo(c)

HostSpec == HostInit /\ [][HostNext]_hostVars
-----------------------------------------------------------------------------
\* co_hook_sys_call.cpp:1033: the hostent that a coroutine was given is the
\* answer for the name it asked for, in a buffer that is not freed, until
\* the coroutine asks again, whatever the others ask for and however often
\* the buffers grew.
AnswerIsOwn ==
  \A c \in HostCo : hostStep[c] = "returned" =>
    buffer[c] \in heap /\ memory[buffer[c]] = asked[c]
=============================================================================
