----------------------------- MODULE Coroutines -----------------------------
(***************************************************************************)
(* What co_create, co_resume, co_yield, co_reset and co_release promise to *)
(* the functions that run in coroutines of one thread: asymmetric          *)
(* coroutines, each with local variables of its own.  Nothing is said of   *)
(* where the local variables are kept; CoRoutine keeps them on shared      *)
(* stacks and in save buffers, and implements this specification.          *)
(***************************************************************************)
EXTENDS Integers, Sequences

CONSTANTS
  Co,             (* the coroutine objects a program may use             *)
  Main,           (* the main coroutine of the thread                    *)
  Val,            (* what a cell of a coroutine's stack may hold         *)
  Depth,          (* cells of a stack                                    *)
  CallStackSize   (* the entries of pCallStack (128 in the code)         *)

VARIABLES
  status,         (* per coroutine: none, ready, live or ended           *)
  callStack,      (* the coroutines that resumed one another, Main first *)
  store           (* per coroutine: the cells of its local variables     *)

absVars == <<status, callStack, store>>

\* What the local variables of a function may be.
Contents == UNION { [1..n -> Val] : n \in 0..Depth }

Self == callStack[Len(callStack)]

OnCallStack(c) == \E i \in 1..Len(callStack) : callStack[i] = c

\* The other coroutines may be reset, released or resumed by whoever runs.
Idle(c) == status[c] # "none" /\ ~OnCallStack(c)

Init ==
  /\ status = [c \in Co |-> "none"]
  /\ callStack = <<Main>>
  /\ store = [c \in Co |-> <<>>]

Create(c) ==
  /\ status[c] = "none"
  /\ status' = [status EXCEPT ![c] = "ready"]
  /\ UNCHANGED <<callStack, store>>

\* A resumed coroutine finds its local variables as it left them.
Resume(c) ==
  /\ Idle(c) /\ status[c] # "ended"
  /\ Len(callStack) < CallStackSize
  /\ status' = [status EXCEPT ![c] = "live"]
  /\ callStack' = Append(callStack, c)
  /\ UNCHANGED store

\* Control goes back to the resumer, and no local variable changes.
Yield ==
  /\ Len(callStack) > 1
  /\ callStack' = SubSeq(callStack, 1, Len(callStack) - 1)
  /\ UNCHANGED <<status, store>>

Finish ==
  /\ Len(callStack) > 1
  /\ store[Self] = <<>>
  /\ status' = [status EXCEPT ![Self] = "ended"]
  /\ callStack' = SubSeq(callStack, 1, Len(callStack) - 1)
  /\ UNCHANGED store

Reset(c) ==
  /\ Idle(c) /\ status[c] # "ready"
  /\ status' = [status EXCEPT ![c] = "ready"]
  /\ store' = [store EXCEPT ![c] = <<>>]
  /\ UNCHANGED callStack

Release(c) ==
  /\ Idle(c)
  /\ status' = [status EXCEPT ![c] = "none"]
  /\ store' = [store EXCEPT ![c] = <<>>]
  /\ UNCHANGED callStack

\* The running function changes its own local variables, and no others.
Compute(c) ==
  /\ c = Self
  /\ \E cells \in Contents : store' = [store EXCEPT ![c] = cells]
  /\ UNCHANGED <<status, callStack>>

Next ==
  \/ Yield
  \/ Finish
  \/ \E c \in Co :
       \/ Create(c) \/ Resume(c) \/ Reset(c) \/ Release(c) \/ Compute(c)

Spec == Init /\ [][Next]_absVars
=============================================================================
