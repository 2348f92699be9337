----------------------------- MODULE CoRoutine ------------------------------
(***************************************************************************)
(* The coroutine core of src/src/coroutine/co_routine.cpp, for one thread: *)
(* the call stack (pCallStack), the life of a coroutine object and the     *)
(* copying of shared stacks in co_swap.  Coroutines of one stStackMem_t    *)
(* run on the same memory: when one is switched in, co_swap copies the     *)
(* occupant's cells to its save_buffer and copies the newcomer's back.     *)
(*                                                                         *)
(* A stack is a row of Depth cells, cell 1 at stack_bp; sp[c] counts the   *)
(* cells of c in use (stack_bp - stack_sp).  The registers that            *)
(* coctx_swap saves and restores are not modelled.                         *)
(***************************************************************************)
EXTENDS Integers, Sequences

CONSTANTS
  Co,             (* the coroutine objects a program may use             *)
  Private,        (* those it creates without a share_stack              *)
  Main,           (* the main coroutine of the thread                    *)
  Val,            (* what a program writes to a cell                     *)
  Junk,           (* what a cell that nobody wrote holds                 *)
  NULL,           (* the null stCoRoutine_t pointer                      *)
  Depth,          (* cells of a stack                                    *)
  Count,          (* stacks of the stShareStack_t                        *)
  AllocSpan,      (* values of alloc_idx: 2^32 in the code               *)
  CallStackSize,  (* the entries of pCallStack: 128 in the code          *)
  OccupantMayGo   (* may a program reset or release the occupant of a    *)
                  (* stack while another coroutine is saved from it?     *)

ASSUME CoAssumption ==
  /\ Private \subseteq Co
  /\ Main \notin Co /\ NULL \notin Co
  /\ Depth \in Nat /\ Count \in Nat \ {0}
  /\ AllocSpan \in Nat \ {0}
  /\ CallStackSize \in Nat \ {0}
  /\ OccupantMayGo \in BOOLEAN

ASSUME StackAssumption == Private \cap (0..Count - 1) = {}

VARIABLES
  alive,          (* the coroutine objects that exist                    *)
  cStart, cEnd,   (* per coroutine: its function was entered, has ended  *)
  stackMem,       (* per coroutine: the stack it runs on                 *)
  sp,             (* per coroutine: the cells it uses                    *)
  saveBuffer,     (* per coroutine: the saved cells, <<>> if none        *)
  occupyCo,       (* per shared stack: whose cells it holds, or NULL     *)
  mem,            (* per stack: its cells                                *)
  allocIdx,       (* stShareStack_t.alloc_idx                            *)
  pCallStack      (* Main, then each coroutine resumed by the one before *)

coVars == <<alive, cStart, cEnd, stackMem, sp, saveBuffer, occupyCo, mem,
            allocIdx, pCallStack>>

Shared == 0..Count - 1

\* A coroutine without a shared stack has a stack of its own, named like it.
Stacks == Shared \cup Private

Cell == Val \cup {Junk}

curr == pCallStack[Len(pCallStack)]
last == pCallStack[Len(pCallStack) - 1]

OnCallStack(c) == \E i \in 1..Len(pCallStack) : pCallStack[i] = c

cIsShareStack(c) == c \notin Private

\* The object exists and is not running, nor waiting for one it resumed.
Idle(c) == c \in alive /\ ~OnCallStack(c)

InUse(c) == [i \in 1..sp[c] |-> mem[stackMem[c]][i]]

----------------------------------------------------------------------------
Init ==
  /\ alive = {}
  /\ cStart = [c \in Co |-> FALSE]
  /\ cEnd = [c \in Co |-> FALSE]
  /\ stackMem = [c \in Co |-> IF c \in Private THEN c ELSE 0]
  /\ sp = [c \in Co |-> 0]
  /\ saveBuffer = [c \in Co |-> <<>>]
  /\ occupyCo = [s \in Shared |-> NULL]
  /\ mem = [s \in Stacks |-> [i \in 1..Depth |-> Junk]]
  /\ allocIdx = 0
  /\ pCallStack = <<Main>>

\* co_get_stackmem: the stacks of a stShareStack_t are used in turn.
co_get_stackmem(c) ==
  /\ stackMem' = [stackMem EXCEPT ![c] = allocIdx % Count]
  /\ allocIdx' = (allocIdx + 1) % AllocSpan

\* co_create with attr->share_stack, or without.
Create(c) ==
  /\ c \notin alive
  /\ alive' = alive \cup {c}
  /\ IF cIsShareStack(c) THEN co_get_stackmem(c)
                         ELSE UNCHANGED <<stackMem, allocIdx>>
  /\ UNCHANGED <<cStart, cEnd, sp, saveBuffer, occupyCo, mem, pCallStack>>

\* Mutant: the saved cells are not copied back.
RestoredNothing(row, saved) == row

\* The cells of a row after memcpy of the saved cells onto it.
Restored(row, saved) ==
  [i \in 1..Depth |-> IF i <= Len(saved) THEN saved[i] ELSE row[i]]

\* Mutant: a buffer that was filled once is kept.
SaveStackBufferOnce(occupant) ==
  IF saveBuffer[occupant] # <<>> THEN saveBuffer
  ELSE [saveBuffer EXCEPT ![occupant] = InUse(occupant)]

\* save_stack_buffer: the cells in use replace what the buffer held.
SaveStackBuffer(occupant) ==
  [saveBuffer EXCEPT ![occupant] = InUse(occupant)]

\* co_swap to pending: the code before coctx_swap and, unless pending enters
\* its function, the code after it, which pending runs.
co_swap(pending, enters) ==
  IF pending = Main \/ ~cIsShareStack(pending)
  THEN UNCHANGED <<saveBuffer, occupyCo, mem>>
  ELSE LET s == stackMem[pending]
           occupant == occupyCo[s]
           evicts == occupant # NULL /\ occupant # pending
       IN  /\ occupyCo' = [occupyCo EXCEPT ![s] = pending]
           /\ saveBuffer' = IF evicts THEN SaveStackBuffer(occupant)
                                      ELSE saveBuffer
           /\ mem' = IF evicts /\ ~enters
                     THEN [mem EXCEPT ![s] = Restored(@, saveBuffer[pending])]
                     ELSE mem

\* co_resume checks nothing: its callers may not resume an object that is on
\* the call stack or has ended, nor nest deeper than pCallStack has entries.
MayResume(c) == Idle(c) /\ ~cEnd[c] /\ Len(pCallStack) < CallStackSize

\* The first resume makes a context (coctx_make): the stack is then empty.
Resume(c) ==
  /\ MayResume(c)
  /\ cStart' = [cStart EXCEPT ![c] = TRUE]
  /\ pCallStack' = Append(pCallStack, c)
  /\ co_swap(c, ~cStart[c])
  /\ UNCHANGED <<alive, cEnd, stackMem, sp, allocIdx>>

\* co_yield_env; the comment in it rules out a yield of the main coroutine.
co_yield_env ==
  /\ Len(pCallStack) > 1
  /\ pCallStack' = SubSeq(pCallStack, 1, Len(pCallStack) - 1)
  /\ co_swap(last, FALSE)

Yield ==
  /\ co_yield_env
  /\ UNCHANGED <<alive, cStart, cEnd, stackMem, sp, allocIdx>>

\* CoRoutineFunc once pfn, and so its last cell, is gone.
Finish ==
  /\ co_yield_env
  /\ sp[curr] = 0
  /\ cEnd' = [cEnd EXCEPT ![curr] = TRUE]
  /\ UNCHANGED <<alive, cStart, stackMem, sp, allocIdx>>

\* Mutant: the stack keeps the coroutine as its occupant.
VacateKeepsOccupant(c) ==
  /\ sp' = [sp EXCEPT ![c] = 0]
  /\ saveBuffer' = [saveBuffer EXCEPT ![c] = <<>>]
  /\ UNCHANGED occupyCo

\* What co_reset and co_free do to the save buffer and to the occupancy; the
\* cells of c are not used again.
Vacate(c) ==
  /\ sp' = [sp EXCEPT ![c] = 0]
  /\ saveBuffer' = [saveBuffer EXCEPT ![c] = <<>>]
  /\ occupyCo' = [s \in Shared |->
                    IF s = stackMem[c] /\ occupyCo[s] = c
                    THEN NULL ELSE occupyCo[s]]

\* A coroutine with cells in a save buffer waits for the stack c occupies.
OthersSavedUnder(c) ==
  /\ cIsShareStack(c) /\ occupyCo[stackMem[c]] = c
  /\ \E d \in Co \ {c} :
       /\ d \in alive /\ cStart[d] /\ ~cEnd[d] /\ stackMem[d] = stackMem[c]

MayVacate(c) == Idle(c) /\ (OccupantMayGo \/ ~OthersSavedUnder(c))

Reset(c) ==
  /\ MayVacate(c)
  /\ cStart[c]
  /\ cStart' = [cStart EXCEPT ![c] = FALSE]
  /\ cEnd' = [cEnd EXCEPT ![c] = FALSE]
  /\ Vacate(c)
  /\ UNCHANGED <<alive, stackMem, mem, allocIdx, pCallStack>>

\* co_release.  A later Create(c) gets fresh fields (memset in co_create_env).
Release(c) ==
  /\ MayVacate(c)
  /\ alive' = alive \ {c}
  /\ cStart' = [cStart EXCEPT ![c] = FALSE]
  /\ cEnd' = [cEnd EXCEPT ![c] = FALSE]
  /\ Vacate(c)
  /\ UNCHANGED <<stackMem, mem, allocIdx, pCallStack>>

\* The running function: a call or a new local, a return, an assignment.
Push(c, v) ==
  /\ sp[c] < Depth
  /\ sp' = [sp EXCEPT ![c] = @ + 1]
  /\ mem' = [mem EXCEPT ![stackMem[c]][sp[c] + 1] = v]

Pop(c) ==
  /\ sp[c] > 0
  /\ sp' = [sp EXCEPT ![c] = @ - 1]
  /\ UNCHANGED mem

Assign(c, v) ==
  \E i \in 1..sp[c] :
    /\ mem' = [mem EXCEPT ![stackMem[c]][i] = v]
    /\ UNCHANGED sp

Compute(c) ==
  /\ c = curr
  /\ Pop(c) \/ \E v \in Val : Push(c, v) \/ Assign(c, v)
  /\ UNCHANGED <<alive, cStart, cEnd, stackMem, saveBuffer, occupyCo,
                 allocIdx, pCallStack>>

Next ==
  \/ Yield
  \/ Finish
  \/ \E c \in Co :
       Create(c) \/ Resume(c) \/ Reset(c) \/ Release(c) \/ Compute(c)

Spec == Init /\ [][Next]_coVars

----------------------------------------------------------------------------
\* Where the local variables of c are: in its stack while c occupies it (a
\* stack of its own it always occupies), else in its save buffer.
View(c) ==
  IF ~cStart[c] \/ cEnd[c] THEN <<>>
  ELSE IF cIsShareStack(c) /\ occupyCo[stackMem[c]] # c THEN saveBuffer[c]
  ELSE InUse(c)

\* The type of every variable of the thread's coroutine environment; only
\* objects that exist can have been started.
TypeOK ==
  /\ alive \subseteq Co
  /\ cStart \in [Co -> BOOLEAN] /\ cEnd \in [Co -> BOOLEAN]
  /\ stackMem \in [Co -> Stacks]
  /\ \A c \in Co : IF c \in Private THEN stackMem[c] = c
                                    ELSE stackMem[c] \in Shared
  /\ sp \in [Co -> 0..Depth]
  /\ saveBuffer \in [Co -> Seq(Cell)]
  /\ occupyCo \in [Shared -> Co \cup {NULL}]
  /\ mem \in [Stacks -> [1..Depth -> Cell]]
  /\ allocIdx \in 0..AllocSpan - 1
  /\ pCallStack \in Seq(Co \cup {Main})
  /\ Len(pCallStack) \in 1..CallStackSize

\* The call stack is Main followed by distinct coroutines, each of them
\* existing and in the middle of its function.
CallStackInv ==
  /\ pCallStack[1] = Main
  /\ \A i \in 2..Len(pCallStack) :
       LET c == pCallStack[i]
       IN  c \in alive /\ cStart[c] /\ ~cEnd[c]
  /\ \A i, j \in 1..Len(pCallStack) :
       pCallStack[i] = pCallStack[j] => i = j

\* occupy_co is NULL or a coroutine of that very stack that exists and was
\* started: co_swap never saves for an object that was freed or reset.
OccupantInv ==
  /\ \A c \in Co :
       /\ (cEnd[c] => cStart[c])
       /\ (cStart[c] => c \in alive)
       /\ (~cStart[c] => sp[c] = 0)
  /\ \A s \in Shared : occupyCo[s] # NULL =>
       cStart[occupyCo[s]] /\ stackMem[occupyCo[s]] = s

\* The coroutine that runs occupies its stack, and one that was switched out
\* of its function either still does or has all its cells in save_buffer.
ResidentInv ==
  /\ curr # Main /\ cIsShareStack(curr) => occupyCo[stackMem[curr]] = curr
  /\ \A c \in Co :
       /\ cStart[c] /\ ~cEnd[c] /\ cIsShareStack(c)
       /\ occupyCo[stackMem[c]] # c
       => /\ Len(saveBuffer[c]) = sp[c]
          /\ ~OccupantMayGo => occupyCo[stackMem[c]] # NULL

\* The local variables of a coroutine hold what its own function wrote.
ViewInv == \A c \in Co : \A i \in 1..Len(View(c)) : View(c)[i] \in Val

\* The inductive invariant.
IInv ==
  /\ TypeOK /\ CallStackInv /\ OccupantInv /\ ResidentInv
  /\ ~OccupantMayGo => ViewInv

\* Only the function that runs changes local variables, and only its own: a
\* switch moves the cells of a shared stack and loses none of them.  This is
\* what the comment after coctx_swap says of every switch.
OnlyOwnerWrites ==
  [][\A c \in Co : View(c)' # View(c) =>
       \/ c = curr /\ pCallStack' = pCallStack
       \/ View(c)' = <<>> /\ ~OnCallStack(c)]_coVars

\* Which of the four stages of its life an object is in.
StatusOf(c) ==
  IF c \notin alive THEN "none"
  ELSE IF ~cStart[c] THEN "ready"
  ELSE IF cEnd[c] THEN "ended"
  ELSE "live"

Abs == INSTANCE Coroutines WITH
         status <- [c \in Co |-> StatusOf(c)],
         callStack <- pCallStack,
         store <- [c \in Co |-> View(c)]

\* Shared stacks and save buffers give each coroutine local variables of its
\* own, for programs that keep to MayResume and MayVacate.
ImplementsCoroutines == Abs!Spec
=============================================================================
