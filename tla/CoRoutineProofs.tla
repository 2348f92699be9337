-------------------------- MODULE CoRoutineProofs ---------------------------
(***************************************************************************)
(* Proofs about CoRoutine, for every set of coroutines, number and size of *)
(* shared stacks and depth of the call stack.                              *)
(***************************************************************************)
EXTENDS CoRoutine, SequenceTheorems, TLAPS

USE CoAssumption, StackAssumption

(***************************************************************************)
(* The cells in use, copied to a save buffer, are a sequence of that       *)
(* length.                                                                 *)
(***************************************************************************)
LEMMA InUseType ==
  ASSUME TypeOK, NEW c \in Co
  PROVE  /\ InUse(c) \in Seq(Cell)
         /\ Len(InUse(c)) = sp[c]
         /\ \A i \in 1..sp[c] : InUse(c)[i] = mem[stackMem[c]][i]
<1>1. sp[c] \in Nat /\ sp[c] <= Depth
  BY DEF TypeOK
<1>2. stackMem[c] \in Stacks /\ mem[stackMem[c]] \in [1..Depth -> Cell]
  BY DEF TypeOK
<1>3. InUse(c) \in [1..sp[c] -> Cell]
  BY <1>1, <1>2 DEF InUse
<1>4. InUse(c) \in Seq(Cell)
  BY <1>1, <1>3, SeqDef
<1>5. Len(InUse(c)) = sp[c]
  BY <1>1, <1>3, <1>4, LenProperties
<1> QED
  BY <1>1, <1>4, <1>5 DEF InUse

(***************************************************************************)
(* co_swap keeps the types of the variables it changes.                    *)
(***************************************************************************)
LEMMA SwapType ==
  ASSUME TypeOK, NEW p \in Co \cup {Main}, NEW e \in BOOLEAN, co_swap(p, e)
  PROVE  /\ saveBuffer' \in [Co -> Seq(Cell)]
         /\ occupyCo' \in [Shared -> Co \cup {NULL}]
         /\ mem' \in [Stacks -> [1..Depth -> Cell]]
<1>1. CASE p = Main \/ ~cIsShareStack(p)
  BY <1>1 DEF co_swap, TypeOK
<1>2. CASE ~(p = Main \/ ~cIsShareStack(p))
  <2> DEFINE s == stackMem[p]
             occupant == occupyCo[s]
             evicts == occupant # NULL /\ occupant # p
  <2>1. p \in Co /\ s \in Shared /\ s \in Stacks /\ occupant \in Co \cup {NULL}
    BY <1>2 DEF TypeOK, cIsShareStack, Stacks
  <2>2. /\ occupyCo' = [occupyCo EXCEPT ![s] = p]
        /\ saveBuffer' = IF evicts THEN SaveStackBuffer(occupant)
                                   ELSE saveBuffer
        /\ mem' = IF evicts /\ ~e
                  THEN [mem EXCEPT ![s] = Restored(@, saveBuffer[p])]
                  ELSE mem
    BY <1>2 DEF co_swap
  <2>3. occupyCo' \in [Shared -> Co \cup {NULL}]
    BY <2>1, <2>2 DEF TypeOK
  <2>4. saveBuffer' \in [Co -> Seq(Cell)]
    BY <2>1, <2>2, InUseType DEF TypeOK, SaveStackBuffer
  <2>5. Restored(mem[s], saveBuffer[p]) \in [1..Depth -> Cell]
    BY <2>1, ElementOfSeq DEF TypeOK, Restored
  <2>6. mem' \in [Stacks -> [1..Depth -> Cell]]
    BY <2>1, <2>2, <2>5 DEF TypeOK
  <2> QED
    BY <2>3, <2>4, <2>6
<1> QED
  BY <1>1, <1>2

(***************************************************************************)
(* The coroutine on top of the call stack, once it is taken off, is not on *)
(* it, and the others keep their places.                                   *)
(***************************************************************************)
LEMMA CallStackFacts ==
  ASSUME TypeOK, CallStackInv
  PROVE  /\ curr \in Co \cup {Main} /\ OnCallStack(curr)
         /\ Len(pCallStack) > 1 =>
              /\ curr \in Co /\ cStart[curr] /\ ~cEnd[curr]
              /\ last \in Co \cup {Main} /\ last # curr
              /\ last # Main => cStart[last] /\ ~cEnd[last]
<1>1. Len(pCallStack) \in Nat /\ Len(pCallStack) >= 1
  BY DEF TypeOK
<1>2. \A i \in 1..Len(pCallStack) : pCallStack[i] \in Co \cup {Main}
  BY ElementOfSeq DEF TypeOK
<1>3. OnCallStack(curr)
  BY <1>1 DEF curr, OnCallStack
<1>4. ASSUME Len(pCallStack) > 1
      PROVE  /\ curr # Main /\ last # curr
             /\ cStart[curr] /\ ~cEnd[curr]
             /\ last # Main => cStart[last] /\ ~cEnd[last]
  BY <1>1, <1>4 DEF CallStackInv, curr, last
<1> QED
  BY <1>1, <1>2, <1>3, <1>4 DEF curr, last

\* Every step keeps the types.
LEMMA TypeStep == TypeOK /\ CallStackInv /\ [Next]_coVars => TypeOK'
<1> SUFFICES ASSUME TypeOK, CallStackInv, [Next]_coVars
             PROVE  TypeOK'
  OBVIOUS
<1>1. ASSUME co_yield_env
      PROVE  /\ saveBuffer' \in [Co -> Seq(Cell)]
             /\ occupyCo' \in [Shared -> Co \cup {NULL}]
             /\ mem' \in [Stacks -> [1..Depth -> Cell]]
             /\ pCallStack' \in Seq(Co \cup {Main})
             /\ Len(pCallStack') \in 1..CallStackSize
  <2>1. co_swap(last, FALSE) /\ last \in Co \cup {Main}
    BY <1>1, CallStackFacts DEF co_yield_env
  <2>2. pCallStack' = SubSeq(pCallStack, 1, Len(pCallStack) - 1)
    BY <1>1 DEF co_yield_env
  <2>3. /\ pCallStack' \in Seq(Co \cup {Main})
        /\ Len(pCallStack') = Len(pCallStack) - 1
    BY <1>1, <2>2, SubSeqProperties DEF co_yield_env, TypeOK
  <2>4. /\ saveBuffer' \in [Co -> Seq(Cell)]
        /\ occupyCo' \in [Shared -> Co \cup {NULL}]
        /\ mem' \in [Stacks -> [1..Depth -> Cell]]
    BY <2>1, SwapType
  <2>5. Len(pCallStack') \in 1..CallStackSize
    BY <1>1, <2>3 DEF co_yield_env, TypeOK
  <2> QED
    BY <2>3, <2>4, <2>5
<1>2. CASE Yield
  BY <1>1, <1>2 DEF Yield, TypeOK
<1>3. CASE Finish
  BY <1>1, <1>3, CallStackFacts DEF Finish, TypeOK
<1>4. ASSUME NEW c \in Co, Create(c) PROVE TypeOK'
  <2>1. /\ allocIdx % Count \in Shared
        /\ (allocIdx + 1) % AllocSpan \in 0..AllocSpan - 1
    BY DEF TypeOK, Shared
  <2>2. CASE c \in Private
    BY <1>4, <2>2 DEF Create, cIsShareStack, TypeOK
  <2>3. CASE c \notin Private
    <3>1. /\ stackMem' \in [Co -> Stacks]
          /\ \A d \in Co : IF d \in Private THEN stackMem'[d] = d
                                            ELSE stackMem'[d] \in Shared
      <4>1. PICK k \in Shared : stackMem' = [stackMem EXCEPT ![c] = k]
        BY <1>4, <2>1, <2>3 DEF Create, co_get_stackmem, cIsShareStack
      <4>2. k \in Stacks
        BY DEF Stacks
      <4> QED
        BY <2>3, <4>1, <4>2 DEF TypeOK
    <3>2. allocIdx' = (allocIdx + 1) % AllocSpan
      BY <1>4, <2>3 DEF Create, co_get_stackmem, cIsShareStack
    <3>3. allocIdx' \in 0..AllocSpan - 1
      BY <2>1, <3>2, Zenon
    <3>4. alive' \subseteq Co
      BY <1>4 DEF Create, TypeOK
    <3> QED
      BY <1>4, <3>1, <3>3, <3>4 DEF Create, TypeOK
  <2> QED
    BY <2>2, <2>3
<1>5. ASSUME NEW c \in Co, Resume(c) PROVE TypeOK'
  <2>1. /\ saveBuffer' \in [Co -> Seq(Cell)]
        /\ occupyCo' \in [Shared -> Co \cup {NULL}]
        /\ mem' \in [Stacks -> [1..Depth -> Cell]]
    BY <1>5, SwapType DEF Resume, TypeOK
  <2>2. /\ pCallStack' \in Seq(Co \cup {Main})
        /\ Len(pCallStack') \in 1..CallStackSize
    BY <1>5, AppendProperties DEF Resume, MayResume, TypeOK
  <2> QED
    BY <1>5, <2>1, <2>2 DEF Resume, TypeOK
<1>6. ASSUME NEW c \in Co, Reset(c) \/ Release(c) PROVE TypeOK'
  <2>1. <<>> \in Seq(Cell)
    OBVIOUS
  <2>2. saveBuffer' \in [Co -> Seq(Cell)] /\ sp' \in [Co -> 0..Depth]
    <3>1. /\ saveBuffer' = [saveBuffer EXCEPT ![c] = <<>>]
          /\ sp' = [sp EXCEPT ![c] = 0]
      BY <1>6 DEF Reset, Release, Vacate
    <3> QED
      BY <2>1, <3>1 DEF TypeOK
  <2>3. occupyCo' \in [Shared -> Co \cup {NULL}]
    <3>1. occupyCo' = [s \in Shared |-> IF s = stackMem[c] /\ occupyCo[s] = c
                                        THEN NULL ELSE occupyCo[s]]
      BY <1>6 DEF Reset, Release, Vacate
    <3> QED
      BY <3>1 DEF TypeOK
  <2>4. /\ alive' \subseteq Co
        /\ cStart' \in [Co -> BOOLEAN] /\ cEnd' \in [Co -> BOOLEAN]
    BY <1>6 DEF Reset, Release, TypeOK
  <2>5. UNCHANGED <<stackMem, mem, allocIdx, pCallStack>>
    BY <1>6 DEF Reset, Release
  <2> QED
    BY <2>2, <2>3, <2>4, <2>5 DEF TypeOK
<1>7. ASSUME NEW c \in Co, Compute(c) PROVE TypeOK'
  <2>1. stackMem[c] \in Stacks
    BY DEF TypeOK
  <2>2. CASE Pop(c)
    BY <1>7, <2>2 DEF Compute, Pop, TypeOK
  <2>3. ASSUME NEW v \in Val, Push(c, v) PROVE TypeOK'
    <3>1. sp[c] + 1 \in 1..Depth /\ v \in Cell
      BY <2>3 DEF Push, TypeOK, Cell
    <3> QED
      BY <1>7, <2>1, <2>3, <3>1 DEF Compute, Push, TypeOK
  <2>4. ASSUME NEW v \in Val, Assign(c, v) PROVE TypeOK'
    <3>1. v \in Cell /\ \A i \in 1..sp[c] : i \in 1..Depth
      BY DEF TypeOK, Cell
    <3> QED
      BY <1>7, <2>1, <2>4, <3>1 DEF Compute, Assign, TypeOK
  <2> QED
    BY <1>7, <2>2, <2>3, <2>4 DEF Compute
<1>8. CASE UNCHANGED coVars
  BY <1>8 DEF coVars, TypeOK
<1> QED
  BY <1>2, <1>3, <1>4, <1>5, <1>6, <1>7, <1>8 DEF Next

(***************************************************************************)
(* What co_swap does when a coroutine of a shared stack comes in.          *)
(***************************************************************************)
LEMMA SwapFacts ==
  ASSUME TypeOK, OccupantInv,
         NEW p \in Co, p \notin Private, NEW e \in BOOLEAN, co_swap(p, e)
  PROVE  LET s == stackMem[p]
             o == occupyCo[stackMem[p]]
         IN  /\ s \in Shared /\ o \in Co \cup {NULL}
             /\ occupyCo' = [occupyCo EXCEPT ![s] = p]
             /\ (o = NULL \/ o = p) =>
                  saveBuffer' = saveBuffer /\ mem' = mem
             /\ o # NULL /\ o # p =>
                  /\ o \in Co /\ o \notin Private /\ stackMem[o] = s
                  /\ saveBuffer' = [saveBuffer EXCEPT ![o] = InUse(o)]
                  /\ mem' = IF e THEN mem
                            ELSE [mem EXCEPT ![s] =
                                    Restored(mem[s], saveBuffer[p])]
             /\ \A t \in Stacks : t # s => mem'[t] = mem[t]
             /\ \A d \in Co : d # o => saveBuffer'[d] = saveBuffer[d]
<1> DEFINE s == stackMem[p]
           o == occupyCo[s]
<1>1. s \in Shared /\ o \in Co \cup {NULL}
  BY DEF TypeOK
<1>2. p # Main /\ cIsShareStack(p)
  BY DEF cIsShareStack
<1>3. /\ occupyCo' = [occupyCo EXCEPT ![s] = p]
      /\ saveBuffer' = IF o # NULL /\ o # p THEN SaveStackBuffer(o)
                                            ELSE saveBuffer
      /\ mem' = IF o # NULL /\ o # p /\ ~e
                THEN [mem EXCEPT ![s] = Restored(mem[s], saveBuffer[p])]
                ELSE mem
  BY <1>2 DEF co_swap
<1>4. ASSUME o # NULL
      PROVE  o \in Co /\ stackMem[o] = s /\ o \notin Private
  <2>1. o \in Co /\ stackMem[o] = s
    BY <1>1, <1>4 DEF OccupantInv
  <2> QED
    BY <1>1, <2>1 DEF TypeOK, Shared
<1>5. \A t \in Stacks : t # s => mem'[t] = mem[t]
  BY <1>3 DEF TypeOK
<1>6. \A d \in Co : d # o => saveBuffer'[d] = saveBuffer[d]
  BY <1>3 DEF TypeOK, SaveStackBuffer
<1>7. CASE o = NULL \/ o = p
  BY <1>1, <1>3, <1>7, <1>5, <1>6
<1>8. CASE o # NULL /\ o # p
  BY <1>1, <1>3, <1>4, <1>8, <1>5, <1>6 DEF SaveStackBuffer
<1> QED
  BY <1>7, <1>8

(***************************************************************************)
(* After co_swap the newcomer occupies its stack and everybody else who is *)
(* in the middle of a function occupies a stack or is saved.               *)
(***************************************************************************)
LEMMA SwapResident ==
  ASSUME TypeOK, OccupantInv, ResidentInv,
         NEW p \in Co \cup {Main}, NEW e \in BOOLEAN, co_swap(p, e),
         NEW d \in Co, d \notin Private, d # p => cStart[d], ~cEnd[d]
  PROVE  /\ d = p => occupyCo'[stackMem[d]] = d
         /\ occupyCo'[stackMem[d]] # d =>
              /\ Len(saveBuffer'[d]) = sp[d]
              /\ ~OccupantMayGo => occupyCo'[stackMem[d]] # NULL
<1>1. CASE p = Main \/ p \in Private
  BY <1>1 DEF co_swap, cIsShareStack, ResidentInv
<1>2. CASE p \in Co /\ p \notin Private
  <2> DEFINE s == stackMem[p]
             o == occupyCo[s]
  <2>1. stackMem[d] \in Shared /\ occupyCo \in [Shared -> Co \cup {NULL}]
    BY DEF TypeOK
  <2>2. s \in Shared /\ occupyCo' = [occupyCo EXCEPT ![s] = p]
    BY <1>2, SwapFacts
  <2>3. CASE d = p
    BY <2>1, <2>2, <2>3
  <2>4. CASE d # p /\ d = o
    <3>1. /\ stackMem[d] = s
          /\ saveBuffer' = [saveBuffer EXCEPT ![d] = InUse(d)]
      BY <1>2, <2>4, SwapFacts
    <3>2. Len(saveBuffer'[d]) = sp[d]
      BY <3>1, InUseType DEF TypeOK
    <3>3. occupyCo'[stackMem[d]] = p
      BY <2>1, <2>2, <3>1
    <3> QED
      BY <1>2, <2>4, <3>2, <3>3
  <2>5. CASE d # p /\ d # o
    <3>1. saveBuffer'[d] = saveBuffer[d]
      BY <1>2, <2>5, SwapFacts DEF TypeOK
    <3>2. CASE stackMem[d] = s
      <4>1. occupyCo[stackMem[d]] # d /\ occupyCo'[stackMem[d]] = p
        BY <2>1, <2>2, <2>5, <3>2
      <4> QED
        BY <1>2, <2>5, <3>1, <4>1 DEF ResidentInv, cIsShareStack
    <3>3. CASE stackMem[d] # s
      <4>1. occupyCo'[stackMem[d]] = occupyCo[stackMem[d]]
        BY <2>1, <2>2, <3>3
      <4> QED
        BY <2>5, <3>1, <4>1 DEF ResidentInv, cIsShareStack
    <3> QED
      BY <3>2, <3>3
  <2> QED
    BY <2>3, <2>4, <2>5
<1> QED
  BY <1>1, <1>2

(***************************************************************************)
(* The cells of a coroutine that co_swap lets in are back in its stack.    *)
(***************************************************************************)
LEMMA RestoredCells ==
  ASSUME TypeOK, NEW c \in Co, Len(saveBuffer[c]) = sp[c],
         NEW row \in [1..Depth -> Cell]
  PROVE  [i \in 1..sp[c] |-> Restored(row, saveBuffer[c])[i]] = saveBuffer[c]
<1>1. saveBuffer[c] \in Seq(Cell) /\ sp[c] \in Nat /\ sp[c] <= Depth
  BY DEF TypeOK
<1>2. saveBuffer[c] \in [1..sp[c] -> Cell]
  BY <1>1, LenProperties
<1>3. \A i \in 1..sp[c] : Restored(row, saveBuffer[c])[i] = saveBuffer[c][i]
  BY <1>1 DEF Restored
<1> QED
  BY <1>2, <1>3

(***************************************************************************)
(* A coroutine without cells has no local variables.                       *)
(***************************************************************************)
LEMMA EmptyInUse ==
  ASSUME NEW f, NEW n \in Nat, n = 0
  PROVE  [i \in 1..n |-> f[i]] = <<>>
OBVIOUS

(***************************************************************************)
(* co_swap changes nobody's local variables.                               *)
(***************************************************************************)
LEMMA SwapKeepsViews ==
  ASSUME TypeOK, OccupantInv, ResidentInv, ~OccupantMayGo,
         NEW p \in Co \cup {Main}, NEW e \in BOOLEAN, co_swap(p, e),
         UNCHANGED <<stackMem, sp>>,
         e => p # Main /\ ~cStart[p] /\ cStart' = [cStart EXCEPT ![p] = TRUE],
         ~e => cStart' = cStart /\ (p # Main => cStart[p] /\ ~cEnd[p]),
         NEW d \in Co, cEnd'[d] = cEnd[d]
  PROVE  View(d)' = View(d)
<1> USE DEF cIsShareStack
<1>1. CASE cEnd[d] \/ (~cStart[d] /\ d # p)
  <2>1. cEnd[d] \/ ~cStart'[d]
    BY <1>1 DEF TypeOK
  <2> QED
    BY <1>1, <2>1 DEF View
<1>2. CASE ~cEnd[d] /\ (cStart[d] \/ d = p) /\ d \in Private
  <2>1. mem'[d] = mem[d] /\ stackMem[d] = d /\ d \notin Shared
    <3>1. stackMem[d] = d /\ d \notin Shared /\ d \in Stacks
      BY <1>2 DEF TypeOK, Shared, Stacks
    <3>2. CASE p = Main \/ p \in Private
      BY <3>1, <3>2 DEF co_swap
    <3>3. CASE p \in Co /\ p \notin Private
      BY <3>1, <3>3, SwapFacts DEF TypeOK
    <3> QED
      BY <3>1, <3>2, <3>3
  <2>2. InUse(d)' = InUse(d)
    BY <2>1 DEF InUse
  <2>3. CASE cStart[d]
    <3>1. cStart'[d]
      BY <2>3 DEF TypeOK
    <3> QED
      BY <1>2, <2>2, <2>3, <3>1 DEF View
  <2>4. CASE ~cStart[d]
    <3>1. sp[d] = 0 /\ InUse(d) = <<>>
      BY <2>4, EmptyInUse DEF OccupantInv, InUse
    <3> QED
      BY <1>2, <2>2, <2>4, <3>1 DEF View
  <2> QED
    BY <2>3, <2>4
<1>3. CASE ~cEnd[d] /\ (cStart[d] \/ d = p) /\ d \notin Private
  <2>1. CASE p = Main \/ p \in Private
    <3>1. UNCHANGED <<saveBuffer, occupyCo, mem>> /\ d # p
      BY <1>3, <2>1 DEF co_swap
    <3>2. cStart'[d] = cStart[d]
      BY <3>1 DEF TypeOK
    <3> QED
      BY <1>3, <3>1, <3>2 DEF View, InUse
  <2>2. CASE p \in Co /\ p \notin Private
    <3> DEFINE s == stackMem[p]
               o == occupyCo[s]
    <3>1. /\ s \in Shared /\ s \in Stacks /\ stackMem[d] \in Shared
          /\ occupyCo \in [Shared -> Co \cup {NULL}]
          /\ mem \in [Stacks -> [1..Depth -> Cell]]
          /\ occupyCo' = [occupyCo EXCEPT ![s] = p]
      BY <1>3, <2>2, SwapFacts DEF TypeOK, Stacks
    <3>2. CASE d = p /\ e
      <4>1. cStart'[d] /\ occupyCo'[stackMem'[d]] = d
        BY <3>1, <3>2 DEF TypeOK
      <4>2. InUse(d)' = <<>>
        BY <3>2, EmptyInUse DEF InUse, OccupantInv
      <4>3. View(d) = <<>>
        BY <3>2 DEF View
      <4> QED
        BY <1>3, <4>1, <4>2, <4>3 DEF View
    <3>3. CASE d = p /\ ~e
      <4>1. cStart'[d] /\ cStart[d] /\ ~cEnd'[d] /\ occupyCo'[stackMem'[d]] = d
        BY <1>3, <3>1, <3>3
      <4>2. View(d)' = InUse(d)'
        BY <1>3, <4>1 DEF View
      <4>3. CASE o = d
        <5>1. mem' = mem
          BY <2>2, <3>3, <4>3, SwapFacts
        <5> QED
          BY <1>3, <3>3, <4>1, <4>2, <4>3, <5>1 DEF View, InUse
      <4>4. CASE o # d
        <5>1. Len(saveBuffer[d]) = sp[d] /\ o # NULL
          BY <1>3, <3>3, <4>1, <4>4 DEF ResidentInv
        <5>2. mem'[s] = Restored(mem[s], saveBuffer[d])
          <6>1. mem' = [mem EXCEPT ![s] = Restored(mem[s], saveBuffer[p])]
            BY <2>2, <3>3, <4>4, <5>1, SwapFacts
          <6> QED
            BY <3>1, <3>3, <6>1
        <5>3. InUse(d)' =
                [i \in 1..sp[d] |-> Restored(mem[s], saveBuffer[d])[i]]
          BY <3>3, <5>2 DEF InUse
        <5>4. InUse(d)' = saveBuffer[d]
          BY <3>1, <5>1, <5>3, RestoredCells
        <5> QED
          BY <1>3, <3>3, <4>1, <4>2, <4>4, <5>4 DEF View
      <4> QED
        BY <4>3, <4>4
    <3>4. CASE d # p /\ d = o
      <4>1. /\ stackMem[d] = s
            /\ saveBuffer' = [saveBuffer EXCEPT ![d] = InUse(d)]
        BY <2>2, <3>4, SwapFacts
      <4>2. cStart[d] /\ cStart'[d]
        BY <1>3, <3>4 DEF TypeOK
      <4>3. occupyCo'[stackMem'[d]] # d /\ saveBuffer'[d] = InUse(d)
        BY <3>1, <3>4, <4>1 DEF TypeOK
      <4> QED
        BY <1>3, <3>4, <4>1, <4>2, <4>3 DEF View
    <3>5. CASE d # p /\ d # o
      <4>1. cStart[d] /\ cStart'[d] /\ saveBuffer'[d] = saveBuffer[d]
        BY <1>3, <2>2, <3>5, SwapFacts DEF TypeOK
      <4>2. CASE stackMem[d] = s
        <5>1. occupyCo[stackMem[d]] # d /\ occupyCo'[stackMem'[d]] # d
          BY <3>1, <3>5, <4>2
        <5> QED
          BY <1>3, <4>1, <5>1 DEF View
      <4>3. CASE stackMem[d] # s
        <5>1. /\ occupyCo'[stackMem'[d]] = occupyCo[stackMem[d]]
              /\ mem'[stackMem[d]] = mem[stackMem[d]]
          BY <1>3, <2>2, <3>1, <4>3, SwapFacts DEF Stacks
        <5> QED
          BY <1>3, <4>1, <5>1 DEF View, InUse
      <4> QED
        BY <4>2, <4>3
    <3> QED
      BY <3>2, <3>3, <3>4, <3>5
  <2> QED
    BY <2>1, <2>2
<1> QED
  BY <1>1, <1>2, <1>3

----------------------------------------------------------------------------
(***************************************************************************)
(* What each action does to the local variables of each coroutine.         *)
(***************************************************************************)
LEMMA SwitchView ==
  ASSUME TypeOK, CallStackInv, OccupantInv, ResidentInv, ~OccupantMayGo,
         Yield \/ Finish \/ \E c \in Co : Resume(c),
         NEW d \in Co
  PROVE  View(d)' = View(d)
<1>1. CASE Yield
  <2>1. /\ co_swap(last, FALSE) /\ last \in Co \cup {Main}
        /\ last # Main => cStart[last] /\ ~cEnd[last]
    BY <1>1, CallStackFacts DEF Yield, co_yield_env
  <2> QED
    BY <1>1, <2>1, SwapKeepsViews DEF Yield
<1>2. CASE Finish
  <2>1. /\ co_swap(last, FALSE) /\ last \in Co \cup {Main}
        /\ last # Main => cStart[last] /\ ~cEnd[last]
        /\ curr \in Co /\ cStart[curr] /\ ~cEnd[curr] /\ sp[curr] = 0
    BY <1>2, CallStackFacts DEF Finish, co_yield_env
  <2>2. CASE d # curr
    <3>1. cEnd'[d] = cEnd[d]
      BY <1>2, <2>2 DEF Finish, TypeOK
    <3> QED
      BY <1>2, <2>1, <3>1, SwapKeepsViews DEF Finish
  <2>3. CASE d = curr
    <3>1. View(d) = InUse(d)
      <4>1. d # Main
        BY CoAssumption
      <4>2. cIsShareStack(d) => occupyCo[stackMem[d]] = d
        BY <2>3, <4>1 DEF ResidentInv
      <4> QED
        BY <2>1, <2>3, <4>2 DEF View
    <3>2. InUse(d) = <<>>
      BY <2>1, <2>3, EmptyInUse DEF InUse
    <3>3. cEnd'[d]
      BY <1>2, <2>3 DEF Finish, TypeOK
    <3> QED
      BY <3>1, <3>2, <3>3 DEF View
  <2> QED
    BY <2>2, <2>3
<1>3. ASSUME NEW c \in Co, Resume(c) PROVE View(d)' = View(d)
  <2>1. CASE cStart[c]
    <3>1. cStart' = cStart
      BY <1>3, <2>1 DEF Resume, TypeOK
    <3> QED
      BY <1>3, <2>1, <3>1, SwapKeepsViews DEF Resume, MayResume
  <2>2. CASE ~cStart[c]
    BY <1>3, <2>2, SwapKeepsViews, CoAssumption DEF Resume, MayResume
  <2> QED
    BY <2>1, <2>2
<1> QED
  BY <1>1, <1>2, <1>3

\* A new coroutine has no local variables, and the others keep theirs.
LEMMA CreateView ==
  ASSUME TypeOK, OccupantInv, NEW c \in Co, Create(c), NEW d \in Co
  PROVE  View(d)' = View(d)
<1>1. ~cStart[c] /\ UNCHANGED <<cStart, cEnd, sp, saveBuffer, occupyCo, mem>>
  BY DEF Create, OccupantInv
<1>2. d # c => stackMem'[d] = stackMem[d]
  BY DEF Create, co_get_stackmem, TypeOK
<1> QED
  BY <1>1, <1>2 DEF View, InUse, cIsShareStack

\* What a reset or a release gives up are the cells of that coroutine, and
\* no others, unless somebody was saved under it.
LEMMA VacateView ==
  ASSUME TypeOK, NEW c \in Co, Reset(c) \/ Release(c), NEW d \in Co
  PROVE  View(d)' = IF d = c THEN <<>> ELSE View(d)
<1>1. /\ cStart' = [cStart EXCEPT ![c] = FALSE]
      /\ cEnd' = [cEnd EXCEPT ![c] = FALSE]
      /\ Vacate(c) /\ UNCHANGED <<stackMem, mem>>
  BY DEF Reset, Release
<1>2. CASE d = c
  BY <1>1, <1>2 DEF View, TypeOK
<1>3. CASE d # c
  <2>1. /\ cStart'[d] = cStart[d] /\ cEnd'[d] = cEnd[d]
        /\ sp'[d] = sp[d] /\ saveBuffer'[d] = saveBuffer[d]
    BY <1>1, <1>3 DEF Vacate, TypeOK
  <2>2. cIsShareStack(d) =>
          (occupyCo'[stackMem[d]] = d <=> occupyCo[stackMem[d]] = d)
    <3>1. SUFFICES ASSUME cIsShareStack(d)
                   PROVE  occupyCo'[stackMem[d]] = d
                            <=> occupyCo[stackMem[d]] = d
      OBVIOUS
    <3>2. stackMem[d] \in Shared /\ NULL # d
      BY <3>1, CoAssumption DEF TypeOK, cIsShareStack
    <3> QED
      BY <1>1, <1>3, <3>2 DEF Vacate
  <2>3. InUse(d)' = InUse(d)
    BY <1>1, <2>1 DEF InUse
  <2> QED
    BY <1>1, <1>3, <2>1, <2>2, <2>3 DEF View, cIsShareStack
<1> QED
  BY <1>2, <1>3

\* A step of the running function changes its own local variables only.
LEMMA ComputeView ==
  ASSUME TypeOK, CallStackInv, OccupantInv, ResidentInv, ViewInv,
         NEW c \in Co, Compute(c), NEW d \in Co
  PROVE  /\ d # c => View(d)' = View(d)
         /\ View(c)' \in UNION { [1..n -> Val] : n \in 0..Depth }
<1>1. /\ c = curr
      /\ UNCHANGED <<cStart, cEnd, stackMem, saveBuffer, occupyCo>>
  BY DEF Compute
<1>2. /\ stackMem[c] \in Stacks /\ stackMem[d] \in Stacks
      /\ sp \in [Co -> 0..Depth] /\ mem \in [Stacks -> [1..Depth -> Cell]]
  BY DEF TypeOK
<1>3. cStart[c] /\ ~cEnd[c]
  <2>1. Len(pCallStack) > 1
    BY <1>1, CoAssumption DEF TypeOK, CallStackInv, curr
  <2> QED
    BY <1>1, <2>1, CallStackFacts
<1>4. cIsShareStack(c) => occupyCo[stackMem[c]] = c
  BY <1>1, CoAssumption DEF ResidentInv
<1>5. View(c) = InUse(c) /\ View(c)' = InUse(c)'
  BY <1>1, <1>3, <1>4 DEF View, cIsShareStack
<1>6. \A i \in 1..sp[c] : mem[stackMem[c]][i] \in Val
  BY <1>2, <1>5, InUseType DEF ViewInv
<1> DEFINE Written ==
      /\ sp' \in [Co -> 0..Depth]
      /\ \A i \in 1..sp'[c] : mem'[stackMem[c]][i] \in Val
      /\ d # c => sp'[d] = sp[d]
      /\ \A t \in Stacks : t # stackMem[c] => mem'[t] = mem[t]
<1>7. Written
  <2>1. CASE Pop(c)
    BY <1>2, <1>6, <2>1 DEF Pop
  <2>2. ASSUME NEW v \in Val, Push(c, v) PROVE Written
    BY <1>2, <1>6, <2>2 DEF Push
  <2>3. ASSUME NEW v \in Val, Assign(c, v) PROVE Written
    BY <1>2, <1>6, <2>3 DEF Assign
  <2> QED
    BY <2>1, <2>2, <2>3 DEF Compute
<1>8. View(c)' \in UNION { [1..n -> Val] : n \in 0..Depth }
  BY <1>1, <1>5, <1>7 DEF InUse
<1>9. ASSUME d # c PROVE View(d)' = View(d)
  <2>1. CASE stackMem[d] # stackMem[c]
    BY <1>1, <1>2, <1>7, <1>9, <2>1 DEF View, InUse, cIsShareStack
  <2>2. CASE stackMem[d] = stackMem[c]
    <3>1. cIsShareStack(c) /\ cIsShareStack(d)
      BY <1>9, <2>2 DEF TypeOK, cIsShareStack, Shared
    <3> QED
      BY <1>1, <1>4, <1>9, <2>2, <3>1 DEF View, cIsShareStack
  <2> QED
    BY <2>1, <2>2
<1> QED
  BY <1>8, <1>9

----------------------------------------------------------------------------
\* Every step keeps the call stack free of duplicates and of idle objects.
LEMMA CallStackStep ==
  TypeOK /\ CallStackInv /\ OccupantInv /\ [Next]_coVars => CallStackInv'
<1> SUFFICES ASSUME TypeOK, CallStackInv, OccupantInv, [Next]_coVars
             PROVE  CallStackInv'
  OBVIOUS
<1>1. /\ Len(pCallStack) \in Nat /\ Len(pCallStack) >= 1
      /\ pCallStack \in Seq(Co \cup {Main})
      /\ \A i \in 2..Len(pCallStack) : pCallStack[i] \in Co
  <2>1. \A i \in 1..Len(pCallStack) : pCallStack[i] \in Co \cup {Main}
    BY ElementOfSeq DEF TypeOK
  <2> QED
    BY <2>1 DEF TypeOK, CallStackInv
<1>2. CASE Yield \/ Finish
  <2>1. /\ Len(pCallStack) > 1
        /\ pCallStack' = SubSeq(pCallStack, 1, Len(pCallStack) - 1)
    BY <1>2 DEF Yield, Finish, co_yield_env
  <2>2. /\ Len(pCallStack') = Len(pCallStack) - 1
        /\ \A i \in 1..Len(pCallStack) - 1 : pCallStack'[i] = pCallStack[i]
    BY <1>1, <2>1, SubSeqProperties
  <2>3. /\ alive' = alive /\ cStart' = cStart
        /\ \A d \in Co : d # curr => cEnd'[d] = cEnd[d]
    BY <1>2 DEF Yield, Finish, TypeOK
  <2>4. \A i \in 1..Len(pCallStack) - 1 : pCallStack[i] # curr
    BY <1>1 DEF CallStackInv, curr
  <2> QED
    BY <1>1, <2>1, <2>2, <2>3, <2>4 DEF CallStackInv
<1>3. ASSUME NEW c \in Co, Resume(c) PROVE CallStackInv'
  <2>1. /\ Len(pCallStack') = Len(pCallStack) + 1
        /\ \A i \in 1..Len(pCallStack) : pCallStack'[i] = pCallStack[i]
        /\ pCallStack'[Len(pCallStack) + 1] = c
    BY <1>1, <1>3, AppendProperties DEF Resume
  <2>2. /\ alive' = alive /\ cEnd' = cEnd /\ c \in alive /\ ~cEnd[c]
        /\ cStart' = [cStart EXCEPT ![c] = TRUE]
        /\ \A i \in 1..Len(pCallStack) : pCallStack[i] # c
    BY <1>3 DEF Resume, MayResume, Idle, OnCallStack
  <2>3. \A d \in Co : cStart[d] => cStart'[d]
    BY <2>2 DEF TypeOK
  <2>4. cStart'[c]
    BY <2>2 DEF TypeOK
  <2> QED
    BY <1>1, <2>1, <2>2, <2>3, <2>4 DEF CallStackInv
<1>4. ASSUME NEW c \in Co, Create(c) \/ Reset(c) \/ Release(c)
      PROVE  CallStackInv'
  <2>1. /\ pCallStack' = pCallStack
        /\ \A d \in Co : d # c => /\ (d \in alive => d \in alive')
                                  /\ cStart'[d] = cStart[d]
                                  /\ cEnd'[d] = cEnd[d]
    BY <1>4 DEF Create, Reset, Release, TypeOK
  <2>2. \A i \in 2..Len(pCallStack) : pCallStack[i] # c
    BY <1>1, <1>4
    DEF Create, Reset, Release, MayVacate, Idle, OnCallStack, CallStackInv
  <2> QED
    BY <1>1, <2>1, <2>2 DEF CallStackInv
<1>5. CASE (\E c \in Co : Compute(c)) \/ UNCHANGED coVars
  BY <1>5 DEF Compute, coVars, CallStackInv
<1> QED
  BY <1>2, <1>3, <1>4, <1>5 DEF Next

\* Every step leaves a started coroutine, or none, as the occupant of each
\* stack.
LEMMA OccupantStep ==
  TypeOK /\ CallStackInv /\ OccupantInv /\ [Next]_coVars => OccupantInv'
<1> SUFFICES ASSUME TypeOK, CallStackInv, OccupantInv, [Next]_coVars
             PROVE  OccupantInv'
  OBVIOUS
<1>1. ASSUME NEW p \in Co \cup {Main}, NEW e \in BOOLEAN, co_swap(p, e)
      PROVE  \A s \in Shared : \/ occupyCo'[s] = occupyCo[s]
                               \/ /\ occupyCo'[s] = p /\ p \in Co
                                  /\ stackMem[p] = s
  <2>1. CASE p = Main \/ p \in Private
    BY <1>1, <2>1 DEF co_swap, cIsShareStack
  <2>2. CASE p \in Co /\ p \notin Private
    <3>1. occupyCo' = [occupyCo EXCEPT ![stackMem[p]] = p]
      BY <1>1, <2>2, SwapFacts
    <3> QED
      BY <2>2, <3>1 DEF TypeOK
  <2> QED
    BY <2>1, <2>2
<1>2. CASE Yield \/ Finish
  <2>1. /\ co_swap(last, FALSE) /\ last \in Co \cup {Main}
        /\ last # Main => cStart[last]
        /\ curr \in Co /\ cStart[curr]
    BY <1>2, CallStackFacts DEF Yield, Finish, co_yield_env
  <2>2. /\ UNCHANGED <<alive, cStart, stackMem, sp>>
        /\ \A d \in Co : d # curr => cEnd'[d] = cEnd[d]
    BY <1>2 DEF Yield, Finish, TypeOK
  <2>3. \A s \in Shared : \/ occupyCo'[s] = occupyCo[s]
                          \/ /\ occupyCo'[s] = last /\ last \in Co
                             /\ stackMem[last] = s
    BY <1>1, <2>1
  <2> QED
    BY <2>1, <2>2, <2>3, CoAssumption DEF OccupantInv
<1>3. ASSUME NEW c \in Co, Resume(c) PROVE OccupantInv'
  <2>1. /\ UNCHANGED <<alive, cEnd, stackMem, sp>> /\ c \in alive
        /\ cStart' = [cStart EXCEPT ![c] = TRUE]
    BY <1>3 DEF Resume, MayResume, Idle
  <2>2. cStart'[c] /\ \A d \in Co : d # c => cStart'[d] = cStart[d]
    BY <2>1 DEF TypeOK
  <2>3. \A s \in Shared : \/ occupyCo'[s] = occupyCo[s]
                          \/ occupyCo'[s] = c /\ stackMem[c] = s
    BY <1>1, <1>3 DEF Resume, TypeOK
  <2>4. \A s \in Shared : occupyCo[s] # NULL => occupyCo[s] \in Co
    BY DEF TypeOK
  <2> QED
    BY <2>1, <2>2, <2>3, <2>4 DEF OccupantInv
<1>4. ASSUME NEW c \in Co, Create(c) PROVE OccupantInv'
  <2>1. /\ UNCHANGED <<cStart, cEnd, sp, occupyCo>> /\ alive \subseteq alive'
        /\ ~cStart[c]
    BY <1>4 DEF Create, OccupantInv
  <2>2. \A d \in Co : d # c => stackMem'[d] = stackMem[d]
    BY <1>4 DEF Create, co_get_stackmem, TypeOK
  <2>3. \A s \in Shared : occupyCo[s] # NULL => occupyCo[s] \in Co
    BY DEF TypeOK
  <2> QED
    BY <2>1, <2>2, <2>3 DEF OccupantInv
<1>5. ASSUME NEW c \in Co, Reset(c) \/ Release(c) PROVE OccupantInv'
  <2>1. /\ cStart' = [cStart EXCEPT ![c] = FALSE]
        /\ cEnd' = [cEnd EXCEPT ![c] = FALSE]
        /\ alive \ {c} \subseteq alive' /\ Vacate(c)
        /\ stackMem' = stackMem
    BY <1>5 DEF Reset, Release
  <2>2. /\ ~cStart'[c] /\ ~cEnd'[c] /\ sp'[c] = 0
        /\ \A d \in Co : d # c => /\ cStart'[d] = cStart[d]
                                  /\ cEnd'[d] = cEnd[d] /\ sp'[d] = sp[d]
    BY <2>1 DEF Vacate, TypeOK
  <2>3. \A s \in Shared : occupyCo[s] # NULL => occupyCo[s] \in Co
    BY DEF TypeOK
  <2>4. \A s \in Shared : occupyCo'[s] # NULL =>
                            occupyCo'[s] = occupyCo[s] /\ occupyCo[s] # c
    BY <2>1, CoAssumption DEF Vacate, OccupantInv
  <2> QED
    BY <2>1, <2>2, <2>3, <2>4 DEF OccupantInv
<1>6. ASSUME NEW c \in Co, Compute(c) PROVE OccupantInv'
  <2>1. Len(pCallStack) > 1 /\ c = curr
    BY <1>6, CoAssumption DEF Compute, TypeOK, CallStackInv, curr
  <2>2. cStart[c] /\ \A d \in Co : d # c => sp'[d] = sp[d]
    BY <1>6, <2>1, CallStackFacts DEF Compute, Pop, Push, Assign, TypeOK
  <2> QED
    BY <1>6, <2>2 DEF Compute, OccupantInv
<1>7. CASE UNCHANGED coVars
  BY <1>7 DEF coVars, OccupantInv
<1> QED
  BY <1>2, <1>3, <1>4, <1>5, <1>6, <1>7 DEF Next

\* Every step leaves the running coroutine on its stack, and each one that
\* was switched out either there or in its save buffer.
LEMMA ResidentStep ==
  TypeOK /\ CallStackInv /\ OccupantInv /\ ResidentInv /\ [Next]_coVars
    => ResidentInv'
<1> SUFFICES ASSUME TypeOK, CallStackInv, OccupantInv, ResidentInv,
                    [Next]_coVars
             PROVE  ResidentInv'
  OBVIOUS
<1> USE DEF cIsShareStack
<1>1. /\ Len(pCallStack) \in Nat /\ Len(pCallStack) >= 1
      /\ pCallStack \in Seq(Co \cup {Main})
  BY DEF TypeOK
<1>2. CASE Yield \/ Finish
  <2>1. /\ co_swap(last, FALSE) /\ last \in Co \cup {Main}
        /\ last # Main => cStart[last] /\ ~cEnd[last]
        /\ Len(pCallStack) > 1
        /\ pCallStack' = SubSeq(pCallStack, 1, Len(pCallStack) - 1)
    BY <1>2, CallStackFacts DEF Yield, Finish, co_yield_env
  <2>2. curr' = last
    <3>1. /\ Len(pCallStack') = Len(pCallStack) - 1
          /\ \A i \in 1..Len(pCallStack) - 1 : pCallStack'[i] = pCallStack[i]
      BY <1>1, <2>1, SubSeqProperties
    <3> QED
      BY <1>1, <2>1, <3>1 DEF curr, last
  <2>3. /\ UNCHANGED <<cStart, stackMem, sp>>
        /\ \A d \in Co : ~cEnd'[d] => ~cEnd[d]
    BY <1>2 DEF Yield, Finish, TypeOK
  <2>4. last # Main /\ last \notin Private => occupyCo'[stackMem[last]] = last
    BY <2>1, SwapResident
  <2>5. \A d \in Co : cStart[d] /\ ~cEnd[d] /\ d \notin Private
                      /\ occupyCo'[stackMem[d]] # d =>
                        /\ Len(saveBuffer'[d]) = sp[d]
                        /\ ~OccupantMayGo => occupyCo'[stackMem[d]] # NULL
    BY <2>1, SwapResident
  <2> QED
    BY <2>2, <2>3, <2>4, <2>5 DEF ResidentInv
<1>3. ASSUME NEW c \in Co, Resume(c) PROVE ResidentInv'
  <2>1. /\ co_swap(c, ~cStart[c]) /\ (~cStart[c]) \in BOOLEAN /\ ~cEnd[c]
        /\ UNCHANGED <<cEnd, stackMem, sp>>
        /\ cStart' = [cStart EXCEPT ![c] = TRUE]
    BY <1>3 DEF Resume, MayResume
  <2>2. curr' = c
    BY <1>1, <1>3, AppendProperties DEF Resume, curr
  <2>3. \A d \in Co : d # c => cStart'[d] = cStart[d]
    BY <2>1 DEF TypeOK
  <2>4. c \notin Private => occupyCo'[stackMem[c]] = c
    BY <2>1, SwapResident
  <2>5. \A d \in Co : (d # c => cStart[d]) /\ ~cEnd[d] /\ d \notin Private
                      /\ occupyCo'[stackMem[d]] # d =>
                        /\ Len(saveBuffer'[d]) = sp[d]
                        /\ ~OccupantMayGo => occupyCo'[stackMem[d]] # NULL
    BY <2>1, SwapResident
  <2> QED
    BY <2>1, <2>2, <2>3, <2>4, <2>5 DEF ResidentInv
<1>4. ASSUME NEW c \in Co, Create(c) PROVE ResidentInv'
  <2>1. /\ UNCHANGED <<cStart, cEnd, sp, saveBuffer, occupyCo, pCallStack>>
        /\ ~cStart[c]
    BY <1>4 DEF Create, OccupantInv
  <2>2. \A d \in Co : d # c => stackMem'[d] = stackMem[d]
    BY <1>4 DEF Create, co_get_stackmem, TypeOK
  <2>3. curr' = curr /\ curr # c
    <3>1. curr = c => Len(pCallStack) > 1
      BY <1>1, CoAssumption DEF CallStackInv, curr
    <3> QED
      BY <2>1, <3>1, CallStackFacts DEF curr
  <2>4. curr \in Co \cup {Main}
    BY CallStackFacts
  <2> QED
    BY <2>1, <2>2, <2>3, <2>4 DEF ResidentInv
<1>5. ASSUME NEW c \in Co, Reset(c) \/ Release(c) PROVE ResidentInv'
  <2>1. /\ cStart' = [cStart EXCEPT ![c] = FALSE]
        /\ cEnd' = [cEnd EXCEPT ![c] = FALSE]
        /\ MayVacate(c) /\ Vacate(c)
        /\ UNCHANGED <<stackMem, pCallStack>>
    BY <1>5 DEF Reset, Release
  <2>2. curr' = curr /\ curr # c /\ curr \in Co \cup {Main}
    BY <2>1, CallStackFacts DEF curr, MayVacate, Idle
  <2>3. ~cStart'[c]
    BY <2>1 DEF TypeOK
  <2>4. \A d \in Co : d # c => /\ cStart'[d] = cStart[d]
                               /\ cEnd'[d] = cEnd[d] /\ sp'[d] = sp[d]
                               /\ saveBuffer'[d] = saveBuffer[d]
    BY <2>1 DEF Vacate, TypeOK
  <2>5. \A s \in Shared : occupyCo'[s] = IF s = stackMem[c] /\ occupyCo[s] = c
                                         THEN NULL ELSE occupyCo[s]
    BY <2>1 DEF Vacate
  <2>6. \A d \in Co : d \notin Private => stackMem[d] \in Shared
    BY DEF TypeOK
  <2>7. curr # Main /\ curr \notin Private => occupyCo'[stackMem[curr]] = curr
    BY <2>2, <2>5, <2>6 DEF ResidentInv
  <2>8. ASSUME NEW d \in Co, d # c, cStart[d], ~cEnd[d], d \notin Private,
               occupyCo'[stackMem[d]] # d
        PROVE  /\ Len(saveBuffer[d]) = sp[d]
               /\ ~OccupantMayGo => occupyCo'[stackMem[d]] # NULL
    <3>1. occupyCo[stackMem[d]] # d
      BY <2>5, <2>6, <2>8
    <3>2. Len(saveBuffer[d]) = sp[d]
          /\ (~OccupantMayGo => occupyCo[stackMem[d]] # NULL)
      BY <2>8, <3>1 DEF ResidentInv
    <3>3. ASSUME ~OccupantMayGo, stackMem[d] = stackMem[c],
                 occupyCo[stackMem[d]] = c
          PROVE  FALSE
      <4>1. c \notin Private
        BY <2>6, <2>8, <3>3 DEF TypeOK, Shared
      <4>2. d \in alive
        BY <2>8 DEF OccupantInv
      <4> QED
        BY <2>1, <2>8, <3>3, <4>1, <4>2 DEF MayVacate, OthersSavedUnder
    <3> QED
      BY <2>5, <2>6, <2>8, <3>2, <3>3
  <2> QED
    BY <2>1, <2>2, <2>3, <2>4, <2>7, <2>8 DEF ResidentInv
<1>6. ASSUME NEW c \in Co, Compute(c) PROVE ResidentInv'
  <2>1. /\ c = curr /\ curr' = curr
        /\ UNCHANGED <<cStart, cEnd, stackMem, saveBuffer, occupyCo>>
    BY <1>6 DEF Compute, curr
  <2>2. \A d \in Co : d # c => sp'[d] = sp[d]
    BY <1>6 DEF Compute, Pop, Push, Assign, TypeOK
  <2> QED
    BY <2>1, <2>2, CoAssumption DEF ResidentInv
<1>7. CASE UNCHANGED coVars
  BY <1>7 DEF coVars, ResidentInv, curr
<1> QED
  BY <1>2, <1>3, <1>4, <1>5, <1>6, <1>7 DEF Next

\* Every step leaves only values that functions wrote in local variables.
LEMMA ViewStep ==
  ASSUME ~OccupantMayGo, IInv, [Next]_coVars
  PROVE  ViewInv'
<1> USE DEF IInv
<1>1. ASSUME NEW d \in Co, View(d)' = View(d)
      PROVE  \A i \in 1..Len(View(d)') : View(d)'[i] \in Val
  BY <1>1 DEF ViewInv
<1>2. CASE Yield \/ Finish \/ \E c \in Co : Resume(c)
  BY <1>1, <1>2, SwitchView DEF ViewInv
<1>3. ASSUME NEW c \in Co, Create(c) PROVE ViewInv'
  BY <1>1, <1>3, CreateView DEF ViewInv
<1>4. ASSUME NEW c \in Co, Reset(c) \/ Release(c) PROVE ViewInv'
  <2>1. \A d \in Co : View(d)' = IF d = c THEN <<>> ELSE View(d)
    BY <1>4, VacateView
  <2> QED
    BY <1>1, <2>1 DEF ViewInv
<1>5. ASSUME NEW c \in Co, Compute(c) PROVE ViewInv'
  <2>1. \A i \in 1..Len(View(c)') : View(c)'[i] \in Val
    <3>1. PICK n \in 0..Depth : View(c)' \in [1..n -> Val]
      BY <1>5, ComputeView
    <3>2. View(c)' \in Seq(Val)
      BY <3>1, SeqDef
    <3> QED
      BY <3>2, ElementOfSeq
  <2>2. \A d \in Co : d # c => View(d)' = View(d)
    BY <1>5, ComputeView
  <2> QED
    BY <1>1, <2>1, <2>2 DEF ViewInv
<1>6. CASE UNCHANGED coVars
  <2>1. \A d \in Co : View(d)' = View(d)
    BY <1>6 DEF coVars, View, InUse, cIsShareStack
  <2> QED
    BY <1>1, <2>1 DEF ViewInv
<1> QED
  BY <1>2, <1>3, <1>4, <1>5, <1>6 DEF Next

\* A thread without coroutines satisfies the inductive invariant.
LEMMA InitIInv == Init => IInv
<1> SUFFICES ASSUME Init PROVE IInv
  OBVIOUS
<1>1. 0 \in Shared /\ \A c \in Co : stackMem[c] \in Stacks
  BY DEF Init, Shared, Stacks
<1>2. pCallStack \in Seq(Co \cup {Main}) /\ Len(pCallStack) = 1
  BY DEF Init
<1>3. \A c \in Co : <<>> \in Seq(Cell)
  OBVIOUS
<1>4. TypeOK
  BY <1>1, <1>2, <1>3 DEF Init, TypeOK, Cell
<1>5. CallStackInv /\ OccupantInv
  BY <1>2 DEF Init, CallStackInv, OccupantInv
<1>6. ResidentInv
  BY <1>2 DEF Init, ResidentInv, curr
<1>7. ViewInv
  BY DEF Init, ViewInv, View
<1> QED
  BY <1>4, <1>5, <1>6, <1>7 DEF IInv

(***************************************************************************)
(* The inductive invariant holds: no object that was freed or reset is     *)
(* occupy_co, and every coroutine that was switched out is either still on *)
(* its stack or has all its cells in save_buffer.                          *)
(***************************************************************************)
THEOREM Invariance == Spec => []IInv
<1>1. IInv /\ [Next]_coVars => IInv'
  BY TypeStep, CallStackStep, OccupantStep, ResidentStep, ViewStep DEF IInv
<1> QED
  BY InitIInv, <1>1, PTL DEF Spec

(***************************************************************************)
(* The type invariant of the coroutine environment.                        *)
(***************************************************************************)
THEOREM TypeCorrect == Spec => []TypeOK
<1>1. IInv => TypeOK
  BY DEF IInv
<1> QED
  BY Invariance, <1>1, PTL

(***************************************************************************)
(* A switch keeps everybody's local variables, whatever coroutines share a *)
(* stack, in programs that leave the occupant of a stack alone while       *)
(* another coroutine is saved from it.                                     *)
(***************************************************************************)
THEOREM SwitchesLoseNothing ==
  ASSUME ~OccupantMayGo
  PROVE  Spec => OnlyOwnerWrites
<1> DEFINE Kept == \A c \in Co : View(c)' # View(c) =>
                     \/ c = curr /\ pCallStack' = pCallStack
                     \/ View(c)' = <<>> /\ ~OnCallStack(c)
<1>1. IInv /\ [Next]_coVars => [Kept]_coVars
  <2> SUFFICES ASSUME IInv, [Next]_coVars, NEW c \in Co, View(c)' # View(c)
               PROVE  \/ c = curr /\ pCallStack' = pCallStack
                      \/ View(c)' = <<>> /\ ~OnCallStack(c)
    OBVIOUS
  <2> USE DEF IInv
  <2>1. CASE Yield \/ Finish \/ \E d \in Co : Resume(d)
    BY <2>1, SwitchView
  <2>2. ASSUME NEW d \in Co, Create(d) PROVE FALSE
    BY <2>2, CreateView
  <2>3. ASSUME NEW d \in Co, Reset(d) \/ Release(d)
        PROVE  View(c)' = <<>> /\ ~OnCallStack(c)
    BY <2>3, VacateView DEF Reset, Release, MayVacate, Idle
  <2>4. ASSUME NEW d \in Co, Compute(d)
        PROVE  c = curr /\ pCallStack' = pCallStack
    BY <2>4, ComputeView DEF Compute
  <2>5. CASE UNCHANGED coVars
    BY <2>5 DEF coVars, View, InUse, cIsShareStack
  <2> QED
    BY <2>1, <2>2, <2>3, <2>4, <2>5 DEF Next
<1> QED
  BY Invariance, <1>1, PTL DEF Spec, OnlyOwnerWrites

----------------------------------------------------------------------------
(***************************************************************************)
(* The refinement.                                                         *)
(***************************************************************************)
LEMMA RefinesInit == Init => Abs!Init
BY DEF Init, Abs!Init, StatusOf, View

\* Every step maps to a step of Coroutines, or to none.
LEMMA RefinesStep ==
  ASSUME ~OccupantMayGo, IInv, [Next]_coVars
  PROVE  [Abs!Next]_(Abs!absVars)
<1> DEFINE status == [d \in Co |-> StatusOf(d)]
           store == [d \in Co |-> View(d)]
<1> USE DEF IInv
<1>1. \A d \in Co : /\ Idle(d) <=> Abs!Idle(d)
                    /\ OnCallStack(d) <=> Abs!OnCallStack(d)
  BY DEF Abs!Idle, Abs!OnCallStack, Idle, OnCallStack, StatusOf
<1>2. CASE Yield
  <2>1. store' = store
    BY <1>2, SwitchView
  <2>2. status' = status
    BY <1>2 DEF Yield, StatusOf
  <2>3. Abs!Yield
    BY <1>2, <2>1, <2>2 DEF Yield, co_yield_env, Abs!Yield
  <2> QED
    BY <2>3 DEF Abs!Next
<1>3. CASE Finish
  <2>1. store' = store
    BY <1>3, SwitchView
  <2>2. /\ curr \in Co /\ curr \in alive
        /\ cStart[curr] /\ ~cEnd[curr] /\ sp[curr] = 0
    BY <1>3, CallStackFacts DEF Finish, co_yield_env, OccupantInv
  <2>3. View(curr) = <<>>
    <3>1. curr # Main
      BY <2>2, CoAssumption
    <3>2. View(curr) = InUse(curr)
      BY <2>2, <3>1 DEF View, ResidentInv
    <3> QED
      BY <2>2, <3>2, EmptyInUse DEF InUse
  <2>4. /\ cEnd'[curr] /\ \A d \in Co : d # curr => cEnd'[d] = cEnd[d]
        /\ UNCHANGED <<alive, cStart>>
    BY <1>3, <2>2 DEF Finish, TypeOK
  <2>5. status' = [status EXCEPT ![curr] = "ended"]
    BY <2>2, <2>4 DEF StatusOf
  <2>6. Abs!Finish
    BY <1>3, <2>1, <2>2, <2>3, <2>5
    DEF Finish, co_yield_env, Abs!Finish, Abs!Self, curr
  <2> QED
    BY <2>6 DEF Abs!Next
<1>4. ASSUME NEW c \in Co, Create(c) PROVE Abs!Create(c)
  <2>1. store' = store
    BY <1>4, CreateView
  <2>2. status[c] = "none" /\ status' = [status EXCEPT ![c] = "ready"]
    <3>1. /\ c \notin alive /\ alive' = alive \cup {c} /\ ~cStart[c]
          /\ UNCHANGED <<cStart, cEnd>>
      BY <1>4 DEF Create, OccupantInv
    <3> QED  BY <3>1 DEF StatusOf
  <2> QED
    BY <1>4, <2>1, <2>2 DEF Create, Abs!Create
<1>5. ASSUME NEW c \in Co, Resume(c) PROVE Abs!Resume(c)
  <2>1. store' = store
    BY <1>5, SwitchView
  <2>2. c \in alive /\ ~cEnd[c] /\ UNCHANGED <<alive, cEnd>>
    BY <1>5 DEF Resume, MayResume, Idle
  <2>3. cStart'[c] /\ \A d \in Co : d # c => cStart'[d] = cStart[d]
    BY <1>5 DEF Resume, TypeOK
  <2>4. status[c] # "ended" /\ status' = [status EXCEPT ![c] = "live"]
    BY <2>2, <2>3 DEF StatusOf
  <2> QED
    BY <1>1, <1>5, <2>1, <2>4 DEF Resume, MayResume, Abs!Resume
<1>6. ASSUME NEW c \in Co, Reset(c) \/ Release(c)
      PROVE  Abs!Reset(c) \/ Abs!Release(c)
  <2>1. store' = [store EXCEPT ![c] = <<>>]
    BY <1>6, VacateView
  <2>2. /\ cStart' = [cStart EXCEPT ![c] = FALSE]
        /\ cEnd' = [cEnd EXCEPT ![c] = FALSE]
        /\ Idle(c) /\ c \in alive /\ pCallStack' = pCallStack
    BY <1>6 DEF Reset, Release, MayVacate, Idle
  <2>3. /\ ~cStart'[c] /\ \A d \in Co : d # c => /\ cStart'[d] = cStart[d]
                                                 /\ cEnd'[d] = cEnd[d]
    BY <2>2 DEF TypeOK
  <2>4. CASE Reset(c)
    <3>1. status[c] # "ready" /\ status' = [status EXCEPT ![c] = "ready"]
      BY <2>2, <2>3, <2>4 DEF Reset, StatusOf
    <3> QED
      BY <1>1, <2>1, <2>2, <3>1 DEF Abs!Reset
  <2>5. CASE Release(c)
    <3>1. status' = [status EXCEPT ![c] = "none"]
      BY <2>2, <2>3, <2>5 DEF Release, StatusOf
    <3> QED
      BY <1>1, <2>1, <2>2, <3>1 DEF Abs!Release
  <2> QED
    BY <1>6, <2>4, <2>5
<1>7. ASSUME NEW c \in Co, Compute(c) PROVE Abs!Compute(c)
  <2>1. store' = [store EXCEPT ![c] = View(c)']
    BY <1>7, ComputeView
  <2>2. View(c)' \in Abs!Contents
    BY <1>7, ComputeView DEF Abs!Contents
  <2>3. status' = status /\ pCallStack' = pCallStack /\ c = curr
    BY <1>7 DEF Compute, StatusOf
  <2> QED
    BY <2>1, <2>2, <2>3 DEF Abs!Compute, Abs!Self, curr
<1>8. CASE UNCHANGED coVars
  <2>1. status' = status /\ store' = store /\ pCallStack' = pCallStack
    BY <1>8 DEF coVars, StatusOf, View, InUse, cIsShareStack
  <2> QED
    BY <2>1 DEF Abs!absVars
<1> QED
  BY <1>2, <1>3, <1>4, <1>5, <1>6, <1>7, <1>8 DEF Next, Abs!Next

(***************************************************************************)
(* Programs that leave the occupant of a stack alone while another         *)
(* coroutine is saved from it see coroutines with local variables of their *)
(* own.                                                                    *)
(***************************************************************************)
THEOREM Refinement ==
  ASSUME ~OccupantMayGo
  PROVE  Spec => ImplementsCoroutines
BY Invariance, RefinesInit, RefinesStep, PTL
   DEF Spec, ImplementsCoroutines, Abs!Spec
=============================================================================
