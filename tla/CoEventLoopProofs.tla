------------------------- MODULE CoEventLoopProofs --------------------------
(***************************************************************************)
(* Theorems about CoEventLoop, for every finite set of coroutines, every   *)
(* set of descriptors and timeouts, and wheels of every size.              *)
(***************************************************************************)
EXTENDS CoEventLoop, SequenceLemmas, FiniteSetTheorems

\* Without gives the other items, each as often as before.
LEMMA WithoutIs ==
  ASSUME NEW S, NEW s \in Seq(S), NEW C
  PROVE  /\ Without(s, C) \in Seq(S)
         /\ ToSet(Without(s, C)) = ToSet(s) \ C
         /\ IsInjective(s) => IsInjective(Without(s, C))
<1> DEFINE N == Len(s)
           Rest(f) == [n \in 0..N |->
             IF n = 0 THEN <<>>
             ELSE IF s[n] \in C THEN f[n - 1] ELSE Append(f[n - 1], s[n])]
           w == CHOOSE f : f = Rest(f)
           G == [n \in 1..N |-> [v \in Seq(S) |->
                  IF s[n] \in C THEN v ELSE Append(v, s[n])]]
<1>1. N \in Nat /\ DOMAIN s = 1..N /\ \A i \in 1..N : s[i] \in S
  OBVIOUS
<1>2. G \in [1..N -> [Seq(S) -> Seq(S)]] /\ <<>> \in Seq(S)
  BY <1>1
<1>3. PICK g : Recursion(g, N, Seq(S), <<>>, G)
  <2> HIDE DEF G, N
  <2> QED  BY <1>1, <1>2, RecursionExists
<1>4. g = Rest(g)
  <2>1. ASSUME NEW n \in 0..N
        PROVE  g[n] = Rest(g)[n]
    <3>1. CASE n = 0
      BY <1>1, <1>3, <3>1 DEF Recursion
    <3>2. CASE n \in 1..N
      <4>1. n - 1 \in 0..N /\ n # 0
        BY <1>1, <3>2
      <4>2. g[n] = IF s[n] \in C THEN g[n - 1] ELSE Append(g[n - 1], s[n])
        BY <1>3, <3>2, <4>1 DEF Recursion
      <4> QED  BY <4>1, <4>2
    <3> QED  BY <1>1, <3>1, <3>2
  <2>2. g = [n \in 0..N |-> g[n]]
    BY <1>3 DEF Recursion
  <2> QED  BY <2>1, <2>2
<1>5. w = Rest(w)
  <2> HIDE DEF Rest
  <2> QED  BY <1>4
<1>6. Without(s, C) = w[N]
  BY DEF Without
<1> HIDE DEF w, G
<1> DEFINE Good(n) ==
      /\ w[n] \in Seq(S)
      /\ ToSet(w[n]) = {s[i] : i \in 1..n} \ C
      /\ IsInjective(s) => IsInjective(w[n])
<1>7. Good(0)
  <2>1. w[0] = <<>>
    BY <1>1, <1>5
  <2> QED  BY <2>1, EmptyIs
<1>8. ASSUME NEW n \in Nat, n < N, Good(n)
      PROVE  Good(n + 1)
  <2>1. n + 1 \in 1..N /\ s[n + 1] \in S /\ n + 1 # 0 /\ (n + 1) - 1 = n
    BY <1>1, <1>8
  <2>2. {s[i] : i \in 1..n + 1} = {s[i] : i \in 1..n} \cup {s[n + 1]}
    <3>1. 1..n + 1 = 1..n \cup {n + 1}
      OBVIOUS
    <3> QED  BY <3>1
  <2>3. w[n + 1] = IF s[n + 1] \in C THEN w[n] ELSE Append(w[n], s[n + 1])
    <3>1. n + 1 \in 0..N
      BY <1>1, <2>1
    <3>2. w[n + 1] = Rest(w)[n + 1]
      BY <1>5
    <3> QED  BY <2>1, <3>1, <3>2
  <2> HIDE DEF Rest
  <2>4. CASE s[n + 1] \in C
    <3>1. w[n + 1] = w[n]
      BY <2>3, <2>4
    <3> QED  BY <1>8, <2>2, <2>4, <3>1
  <2>5. CASE s[n + 1] \notin C
    <3>1. w[n + 1] = Append(w[n], s[n + 1])
      BY <2>3, <2>5
    <3>2. /\ w[n + 1] \in Seq(S)
          /\ ToSet(w[n + 1]) = ToSet(w[n]) \cup {s[n + 1]}
          /\ IsInjective(w[n]) /\ s[n + 1] \notin ToSet(w[n])
               => IsInjective(w[n + 1])
      BY <1>8, <2>1, <3>1, AppendIs
    <3>3. IsInjective(s) => s[n + 1] \notin {s[i] : i \in 1..n}
      BY <1>1, <2>1 DEF IsInjective
    <3> QED  BY <1>8, <2>2, <2>5, <3>2, <3>3
  <2> QED  BY <2>4, <2>5
<1> DEFINE Upto == {n \in Nat : n <= N => Good(n)}
<1>9. Nat \subseteq Upto
  <2>1. 0 \in Upto
    BY <1>7
  <2>2. ASSUME NEW n \in Nat, n \in Upto
        PROVE  n + 1 \in Upto
    <3> HIDE DEF Good
    <3> SUFFICES ASSUME n + 1 <= N PROVE Good(n + 1)
      OBVIOUS
    <3>1. n < N /\ Good(n)
      BY <1>1, <2>2
    <3> QED  BY <1>8, <3>1
  <2> HIDE DEF Upto
  <2> QED  BY <2>1, <2>2, NatInd
<1>10. Good(N)
  <2> HIDE DEF Good
  <2> QED  BY <1>1, <1>9
<1> QED  BY <1>1, <1>6, <1>10 DEF ToSet
-----------------------------------------------------------------------------
\* A number that fits in an int is not changed by the assignment to one.
LEMMA ToIntFits ==
  ASSUME NEW x \in Nat, x < IntSpan \div 2
  PROVE  ToInt(x) = x
<1>1. IntSpan \in Nat \ {0} /\ IntSpan \div 2 <= IntSpan
  BY WheelAssumption
<1>2. (x % IntSpan) = x
  BY <1>1, WheelAssumption
<1> QED  BY <1>2 DEF ToInt

\* TakeAllTimeout gives up only when the clock is behind the wheel, and else
\* empties the slots up to now, or all of them.
LEMMA TakeFacts ==
  ASSUME NEW start \in Nat, NEW allNow \in Nat,
         allNow - start + 1 < IntSpan \div 2
  PROVE  /\ TakeFails(start, allNow) <=> allNow < start
         /\ ~TakeFails(start, allNow) =>
              /\ TakeCount(start, allNow) \in 1..iItemSize
              /\ TakeCount(start, allNow) <= allNow - start + 1
              /\ \/ TakeCount(start, allNow) = allNow - start + 1
                 \/ TakeCount(start, allNow) = iItemSize
<1> USE WheelAssumption
<1>1. CASE allNow < start
  BY <1>1 DEF TakeFails
<1>2. CASE ~(allNow < start)
  <2>1. allNow - start + 1 \in Nat \ {0}
    BY <1>2
  <2>2. ToInt(allNow - start + 1) = allNow - start + 1
    BY <2>1, ToIntFits
  <2>3. /\ TakeCount(start, allNow) \in 1..iItemSize
        /\ TakeCount(start, allNow) <= allNow - start + 1
        /\ \/ TakeCount(start, allNow) = allNow - start + 1
           \/ TakeCount(start, allNow) = iItemSize
    BY <2>1, <2>2 DEF TakeCount
  <2> QED  BY <1>2, <2>3 DEF TakeFails
<1> QED  BY <1>1, <1>2

\* The places ahead of a place in the wheel are slots of their own.
LEMMA SlotsAhead ==
  ASSUME NEW idx \in Nat
  PROVE  /\ \A n \in Nat : SlotAhead(idx, n) \in Slots
         /\ \A m, n \in Slots :
              SlotAhead(idx, m) = SlotAhead(idx, n) => m = n
<1> USE WheelAssumption
<1>1. \A n \in Nat : SlotAhead(idx, n) \in Slots
  BY DEF SlotAhead, Slots
<1>2. ASSUME NEW m \in Slots, NEW n \in Slots, m <= n,
             SlotAhead(idx, m) = SlotAhead(idx, n)
      PROVE  m = n
  <2>1. /\ idx + m \in Int /\ idx + n \in Int
        /\ idx + m <= idx + n /\ idx + n < (idx + m) + iItemSize
    BY <1>2 DEF Slots
  <2>2. ((idx + m) % iItemSize) = ((idx + n) % iItemSize)
    BY <1>2 DEF SlotAhead
  <2>3. idx + m = idx + n
    BY <2>1, <2>2, SameRemainder
  <2> QED  BY <2>3 DEF Slots
<1>3. \A m, n \in Slots : m <= n \/ n <= m
  BY DEF Slots
<1> QED  BY <1>1, <1>2, <1>3

\* The wheel of a thread has been started.
LEMMA Started ==
  ASSUME TypeOK, NEW allNow
  PROVE  /\ StartAt(ullStart, allNow) = ullStart
         /\ IdxAt(ullStart, llStartIdx) = llStartIdx
         /\ ullStart \in Nat \ {0} /\ llStartIdx \in Nat
BY LoopAssumption DEF TypeOK, StartAt, IdxAt

\* The items that are taken are those of the slots that are emptied, each
\* once.
LEMMA TakenIs ==
  ASSUME NEW items \in [Slots -> Seq(Co)], NEW idx \in Nat,
         NEW cnt \in 1..iItemSize
  PROVE  LET timeout == TakenFrom(items, idx, cnt)
             emptied == { SlotAhead(idx, i) : i \in 0..cnt - 1 }
         IN  /\ timeout \in Seq(Co)
             /\ emptied \subseteq Slots
             /\ \A c : c \in ToSet(timeout) <=>
                         \E s \in emptied : c \in ToSet(items[s])
             /\ /\ \A s \in Slots : IsInjective(items[s])
                /\ \A s, t \in Slots :
                     s # t => ToSet(items[s]) \cap ToSet(items[t]) = {}
                => IsInjective(timeout)
<1> USE WheelAssumption
<1> DEFINE q == [i \in 1..cnt |-> items[SlotAhead(idx, i - 1)]]
           timeout == TakenFrom(items, idx, cnt)
           emptied == { SlotAhead(idx, i) : i \in 0..cnt - 1 }
<1>1. /\ \A i \in 1..cnt : SlotAhead(idx, i - 1) \in Slots
      /\ \A i, j \in 1..cnt :
           SlotAhead(idx, i - 1) = SlotAhead(idx, j - 1) => i = j
  <2>1. \A i \in 1..cnt : i - 1 \in Slots /\ i - 1 \in Nat
    BY DEF Slots
  <2>2. \A i, j \in 1..cnt : i - 1 = j - 1 => i = j
    OBVIOUS
  <2> QED  BY <2>1, <2>2, SlotsAhead
<1>2. /\ q \in Seq(Seq(Co)) /\ Len(q) = cnt
      /\ \A i \in 1..cnt : q[i] = items[SlotAhead(idx, i - 1)]
  BY <1>1
<1>3. timeout = FlattenSeq(q)
  BY DEF TakenFrom
<1> HIDE DEF q, timeout
<1>4. /\ timeout \in Seq(Co)
      /\ ToSet(timeout) = UNION {ToSet(q[i]) : i \in 1..cnt}
      /\ /\ \A i \in 1..cnt : IsInjective(q[i])
         /\ \A i, j \in 1..cnt :
              i # j => ToSet(q[i]) \cap ToSet(q[j]) = {}
         => IsInjective(timeout)
  BY <1>2, <1>3, FlattenIs
<1>5. emptied \subseteq Slots
  BY SlotsAhead
<1>6. ASSUME NEW c
      PROVE  c \in ToSet(timeout) <=>
               \E s \in emptied : c \in ToSet(items[s])
  <2>1. ASSUME c \in ToSet(timeout)
        PROVE  \E s \in emptied : c \in ToSet(items[s])
    <3>1. PICK i \in 1..cnt : c \in ToSet(q[i])
      BY <1>4, <2>1
    <3>2. i - 1 \in 0..cnt - 1
      OBVIOUS
    <3> QED  BY <1>2, <3>1, <3>2
  <2>2. ASSUME NEW s \in emptied, c \in ToSet(items[s])
        PROVE  c \in ToSet(timeout)
    <3>1. PICK i \in 0..cnt - 1 : s = SlotAhead(idx, i)
      OBVIOUS
    <3>2. i + 1 \in 1..cnt /\ (i + 1) - 1 = i
      OBVIOUS
    <3>3. q[i + 1] = items[s]
      BY <1>2, <3>1, <3>2
    <3> QED  BY <1>4, <2>2, <3>2, <3>3
  <2> QED  BY <2>1, <2>2
<1>7. ASSUME /\ \A s \in Slots : IsInjective(items[s])
             /\ \A s, t \in Slots :
                  s # t => ToSet(items[s]) \cap ToSet(items[t]) = {}
      PROVE  IsInjective(timeout)
  <2>1. \A i \in 1..cnt : IsInjective(q[i])
    BY <1>1, <1>2, <1>7
  <2>2. ASSUME NEW i \in 1..cnt, NEW j \in 1..cnt, i # j
        PROVE  ToSet(q[i]) \cap ToSet(q[j]) = {}
    <3> DEFINE s == SlotAhead(idx, i - 1)
               t == SlotAhead(idx, j - 1)
    <3>1. s \in Slots /\ t \in Slots /\ s # t
      BY <1>1, <2>2
    <3>2. q[i] = items[s] /\ q[j] = items[t]
      BY <1>2
    <3> HIDE DEF s, t
    <3> QED  BY <1>7, <3>1, <3>2
  <2> QED  BY <1>4, <2>1, <2>2
<1> QED  BY <1>4, <1>5, <1>6, <1>7 DEF timeout

\* The orders of a set of coroutines: each holds every one of them once.
LEMMA OrderIs ==
  ASSUME NEW S \in SUBSET Co, NEW order \in SetToSeqs(S)
  PROVE  /\ order \in Seq(Co) /\ IsInjective(order)
         /\ ToSet(order) = S
<1>1. IsFiniteSet(S)
  BY LoopAssumption, FS_Subset
<1>2. Cardinality(S) \in Nat
  BY <1>1, FS_CardinalityType
<1> DEFINE n == Cardinality(S)
<1>3. /\ order \in [1..n -> S]
      /\ \A i, j \in 1..n : order[i] = order[j] => i = j
  BY DEF SetToSeqs
<1> HIDE DEF n
<1>4. IsFiniteSet(1..n) /\ Cardinality(1..n) = n
  BY <1>2, FS_Interval DEF n
<1>5. order \in Injection(1..n, S)
  BY <1>3 DEF Injection, IsInjective
<1>6. order \in Surjection(1..n, S)
  BY <1>1, <1>4, <1>5, FS_Injection DEF n
<1>7. \A x \in S : \E i \in 1..n : order[i] = x
  BY <1>6 DEF Surjection
<1>8. order \in Seq(Co) /\ DOMAIN order = 1..n
  BY <1>2, <1>3 DEF n
<1>9. ToSet(order) = S
  BY <1>3, <1>7, <1>8 DEF ToSet
<1>10. IsInjective(order)
  BY <1>3, <1>8 DEF IsInjective
<1> QED  BY <1>8, <1>9, <1>10
-----------------------------------------------------------------------------
\* The coroutine that runs waits for nothing, and is on the call stack above
\* Main and in no other place of it.
LEMMA YieldStack ==
  ASSUME TypeOK, StackInv, NEW c \in Co, c = Curr
  PROVE  /\ wait[c] = "none"
         /\ Front(pCallStack) \in Seq(Co \cup {Main})
         /\ Front(pCallStack) # <<>> /\ Front(pCallStack)[1] = Main
         /\ IsInjective(Front(pCallStack))
         /\ ToSet(Front(pCallStack)) \subseteq ToSet(pCallStack) \ {c}
<1> DEFINE S == Co \cup {Main}
<1> DEFINE f == Front(pCallStack)
<1>1. pCallStack \in Seq(S) /\ pCallStack # <<>> /\ pCallStack[1] = Main
  BY DEF TypeOK, StackInv
<1>2. Last(pCallStack) = c
  BY DEF Curr, Last
<1>3. /\ f \in Seq(S) /\ Len(f) = Len(pCallStack) - 1
      /\ \A i \in 1..Len(pCallStack) - 1 : f[i] = pCallStack[i]
      /\ ToSet(pCallStack) = {c} \cup ToSet(f)
      /\ IsInjective(f) /\ c \notin ToSet(f)
  <2>1. IsInjective(pCallStack)
    BY DEF StackInv
  <2> HIDE DEF S
  <2> QED  BY <1>1, <1>2, <2>1, FrontIs
<1>4. Len(pCallStack) \in Nat /\ Len(pCallStack) > 1
  <2> DEFINE n == Len(pCallStack)
  <2>1. n \in Nat /\ n # 0
    BY <1>1
  <2>2. n # 1
    BY <1>1, <1>2, LoopAssumption DEF Last
  <2> HIDE DEF n
  <2>3. n > 1
    BY <2>1, <2>2
  <2> QED  BY <2>1, <2>3 DEF n
<1>5. f # <<>> /\ f[1] = Main
  <2>1. Len(f) > 0 /\ 1 \in 1..Len(pCallStack) - 1
    BY <1>3, <1>4
  <2> QED  BY <1>1, <1>3, <2>1
<1>6. wait[c] = "none"
  BY <1>3 DEF StackInv
<1> HIDE DEF f
<1> QED  BY <1>3, <1>5, <1>6 DEF f

\* A coroutine that is switched in is on top of the others.
LEMMA ResumeStack ==
  ASSUME TypeOK, StackInv, NEW c \in Co, c \notin ToSet(pCallStack)
  PROVE  /\ Append(pCallStack, c) \in Seq(Co \cup {Main})
         /\ Append(pCallStack, c) # <<>> /\ Append(pCallStack, c)[1] = Main
         /\ IsInjective(Append(pCallStack, c))
         /\ ToSet(Append(pCallStack, c)) = ToSet(pCallStack) \cup {c}
<1> DEFINE S == Co \cup {Main}
<1>1. pCallStack \in Seq(S) /\ pCallStack # <<>> /\ pCallStack[1] = Main
  BY DEF TypeOK, StackInv
<1>2. c \in S
  OBVIOUS
<1>3. Append(pCallStack, c) # <<>> /\ Append(pCallStack, c)[1] = Main
  BY <1>1, <1>2
<1>4. IsInjective(pCallStack)
  BY DEF StackInv
<1> HIDE DEF S
<1>5. /\ Append(pCallStack, c) \in Seq(S)
      /\ IsInjective(Append(pCallStack, c))
      /\ ToSet(Append(pCallStack, c)) = ToSet(pCallStack) \cup {c}
  BY <1>1, <1>2, <1>4, AppendIs
<1> QED  BY <1>3, <1>5 DEF S

\* The slots, each with its items once, and no item in two.
Wheel(items) ==
  /\ items \in [Slots -> Seq(Co)]
  /\ \A s \in Slots : IsInjective(items[s])
  /\ \A s, t \in Slots : s # t => ToSet(items[s]) \cap ToSet(items[t]) = {}

\* Items that are removed leave the others in their slots.
LEMMA RemovedIs ==
  ASSUME NEW items, Wheel(items), NEW C
  PROVE  LET out == [s \in Slots |-> Without(items[s], C)]
         IN  /\ Wheel(out)
             /\ \A s \in Slots : ToSet(out[s]) = ToSet(items[s]) \ C
<1> DEFINE out == [s \in Slots |-> Without(items[s], C)]
<1>1. \A s \in Slots : /\ out[s] \in Seq(Co) /\ IsInjective(out[s])
                       /\ ToSet(out[s]) = ToSet(items[s]) \ C
  BY WithoutIs DEF Wheel
<1>2. out \in [Slots -> Seq(Co)]
  BY <1>1
<1> HIDE DEF out
<1>3. Wheel(out)
  BY <1>1, <1>2 DEF Wheel
<1> QED  BY <1>1, <1>3 DEF out

\* An item that AddTimeout files is in its slot, and the others stay.
LEMMA AddIs ==
  ASSUME TypeOK, Wheel(pItems), NEW c \in Co, ~InWheel(c),
         NEW expiry \in Nat, NEW allNow \in Nat,
         ~Refused(expiry, allNow), AddTimeout(c, expiry, allNow)
  PROVE  /\ ullStart' = ullStart /\ llStartIdx' = llStartIdx
         /\ Wheel(pItems')
         /\ AddSlot(ullStart, llStartIdx, expiry) \in Slots
         /\ \A s \in Slots :
              ToSet(pItems'[s]) =
                IF s = AddSlot(ullStart, llStartIdx, expiry)
                THEN ToSet(pItems[s]) \cup {c} ELSE ToSet(pItems[s])
<1>1. ullStart' = ullStart /\ llStartIdx' = llStartIdx
  BY Started DEF AddTimeout, SetStart
<1> DEFINE t == AddSlot(ullStart, llStartIdx, expiry)
<1>2. t \in Slots
  <2>1. ullStart <= allNow /\ allNow <= expiry
    BY Started DEF Refused, AddFails
  <2>2. Distance(ullStart, expiry) \in Nat
    BY <2>1, Started, WheelAssumption DEF Distance
  <2> QED  BY <2>2, Started, SlotsAhead DEF AddSlot
<1>3. pItems' = [pItems EXCEPT ![t] = Append(@, c)]
  BY <1>1 DEF AddTimeout
<1> HIDE DEF t
<1>4. /\ \A s \in Slots \ {t} : pItems'[s] = pItems[s]
      /\ pItems'[t] = Append(pItems[t], c)
  BY <1>2, <1>3 DEF Wheel
<1>5. /\ Append(pItems[t], c) \in Seq(Co)
      /\ ToSet(Append(pItems[t], c)) = ToSet(pItems[t]) \cup {c}
      /\ IsInjective(Append(pItems[t], c))
  <2>1. pItems[t] \in Seq(Co) /\ IsInjective(pItems[t]) /\ c \notin ToSet(pItems[t])
    BY <1>2 DEF Wheel, InWheel
  <2> QED  BY <2>1, AppendIs
<1>6. pItems' \in [Slots -> Seq(Co)]
  BY <1>2, <1>3, <1>5 DEF Wheel
<1>7. \A s \in Slots : ToSet(pItems'[s]) = IF s = t THEN ToSet(pItems[s]) \cup {c}
                                          ELSE ToSet(pItems[s])
  BY <1>4, <1>5
<1>8. Wheel(pItems')
  <2>1. \A s \in Slots : IsInjective(pItems'[s])
    BY <1>4, <1>5 DEF Wheel
  <2>2. \A s, u \in Slots : s # u => ToSet(pItems'[s]) \cap ToSet(pItems'[u]) = {}
    <3>1. \A s \in Slots : c \notin ToSet(pItems[s])
      BY DEF InWheel
    <3>2. ASSUME NEW s \in Slots, NEW u \in Slots, s # u
          PROVE  ToSet(pItems'[s]) \cap ToSet(pItems'[u]) = {}
      <4>1. ToSet(pItems[s]) \cap ToSet(pItems[u]) = {}
        BY <3>2 DEF Wheel
      <4> QED  BY <1>7, <3>1, <3>2, <4>1
    <3> QED  BY <3>2
  <2> QED  BY <1>6, <2>1, <2>2 DEF Wheel
<1> QED  BY <1>1, <1>2, <1>7, <1>8 DEF t
-----------------------------------------------------------------------------
\* The program starts without waits.
LEMMA InitLoopInv == Init => LoopInv
<1> SUFFICES ASSUME Init PROVE LoopInv
  OBVIOUS
<1> USE LoopAssumption DEF Init
<1>1. <<>> \in Seq(Co) /\ ToSet(<<>>) = {} /\ IsInjective(<<>>)
  BY EmptyIs
<1>2. /\ active = <<>> /\ cond = <<>>
      /\ pItems \in [Slots -> Seq(Co)] /\ \A s \in Slots : pItems[s] = <<>>
  BY <1>1
<1>3. \A c \in Co : ~InWheel(c) /\ ~InActive(c) /\ ~InCond(c)
  BY <1>1, <1>2 DEF InWheel, InActive, InCond
<1>4. TypeOK
  <2>1. <<Main>> \in Seq(Co \cup {Main})
    OBVIOUS
  <2> QED  BY <1>1, <1>2, <2>1 DEF TypeOK
<1>5. StackInv
  BY DEF StackInv, IsInjective
<1>6. OnlyWaitersLinked /\ NoSignalLost
  BY <1>3 DEF OnlyWaitersLinked, NoSignalLost, WasSignalled
<1>7. LinkInv
  BY <1>1, <1>2, <1>3 DEF LinkInv
<1>8. RoundInv /\ EpollInv /\ SlotInv
  BY <1>3 DEF RoundInv, EpollInv, SlotInv
<1> QED  BY <1>4, <1>5, <1>6, <1>7, <1>8 DEF LoopInv

\* LoopInv says nothing of the rest: how often the clock was set back, the
\* clock itself but for its range, and the descriptors that are ready.
LEMMA EnvironmentStep ==
  ASSUME LoopInv, Tick \/ SetBack \/ \E f \in Fd : FdEvent(f)
  PROVE  LoopInv'
<1>1. /\ UNCHANGED <<wheelVars, active, cond, waitVars, bTimeout, raised,
                     epollItem, loopVars, pCallStack>>
      /\ now' \in 1..MaxNow /\ backs' \in 0..ClockBacks /\ ready' \subseteq Fd
  <2> USE LoopAssumption DEF LoopInv, TypeOK
  <2>1. CASE Tick
    BY <2>1 DEF Tick, ioVars
  <2>2. CASE SetBack
    BY <2>2 DEF SetBack, ioVars
  <2>3. CASE \E f \in Fd : FdEvent(f)
    BY <2>3 DEF FdEvent, timeVars, SymDiff
  <2> QED  BY <2>1, <2>2, <2>3
<1> USE <1>1 DEF LoopInv, wheelVars, waitVars, loopVars
<1>2. TypeOK' /\ StackInv'
  BY DEF TypeOK, StackInv
<1>3. \A c : /\ InWheel(c)' = InWheel(c) /\ InActive(c)' = InActive(c)
             /\ InCond(c)' = InCond(c) /\ WasSignalled(c)' = WasSignalled(c)
  BY DEF InWheel, InActive, InCond, WasSignalled
<1>4. OnlyWaitersLinked' /\ LinkInv' /\ RoundInv'
  BY <1>3 DEF OnlyWaitersLinked, LinkInv, RoundInv
<1>5. EpollInv' /\ SlotInv' /\ (NoSignalLost <=> NoSignalLost')
  BY <1>3 DEF EpollInv, SlotInv, NoSignalLost
<1> QED  BY <1>2, <1>4, <1>5

\* LoopCall finds no item in the active list, so none that was taken out.
LEMMA RoundsStep ==
  ASSUME LoopInv, LoopCall \/ LoopAgain
  PROVE  LoopInv'
<1> USE DEF LoopInv
<1>1. /\ UNCHANGED <<timeVars, wheelVars, active, cond, waitVars, bTimeout,
                     ioVars, loopNow, pCallStack>>
      /\ phase' \in {"wait", "process", "user"}
      /\ bTimeout = {}
  <2>1. CASE LoopCall
    <3>1. \A c \in Co : ~InActive(c)
      BY <2>1, EmptyIs DEF LoopCall, InActive
    <3>2. bTimeout = {}
      BY <3>1 DEF LinkInv, TypeOK
    <3> QED  BY <2>1, <3>2 DEF LoopCall
  <2>2. CASE LoopAgain
    BY <2>2 DEF LoopAgain, RoundInv
  <2> QED  BY <2>1, <2>2
<1> USE <1>1 DEF timeVars, wheelVars, waitVars, ioVars
<1>2. TypeOK' /\ StackInv'
  BY DEF TypeOK, StackInv
<1>3. \A c : /\ InWheel(c)' = InWheel(c) /\ InActive(c)' = InActive(c)
             /\ InCond(c)' = InCond(c) /\ WasSignalled(c)' = WasSignalled(c)
  BY DEF InWheel, InActive, InCond, WasSignalled
<1>4. OnlyWaitersLinked' /\ LinkInv' /\ RoundInv'
  BY <1>3 DEF OnlyWaitersLinked, LinkInv, RoundInv
<1>5. EpollInv' /\ SlotInv' /\ (NoSignalLost <=> NoSignalLost')
  BY <1>3 DEF EpollInv, SlotInv, NoSignalLost
<1> QED  BY <1>2, <1>4, <1>5

\* A coroutine that yields, and waits for nothing, leaves all as it is.
LEMMA YieldStep ==
  ASSUME LoopInv, NEW c \in Co, Yield(c)
  PROVE  LoopInv'
<1> USE DEF LoopInv
<1>1. /\ UNCHANGED <<timeVars, wheelVars, active, cond, waitVars, bTimeout,
                     ioVars, loopVars>>
      /\ pCallStack' = Front(pCallStack) /\ c = Curr
  BY DEF Yield, co_yield_env
<1> USE <1>1 DEF timeVars, wheelVars, waitVars, ioVars, loopVars
<1>2. TypeOK' /\ StackInv'
  BY YieldStack DEF TypeOK, StackInv
<1>3. \A d : /\ InWheel(d)' = InWheel(d) /\ InActive(d)' = InActive(d)
             /\ InCond(d)' = InCond(d) /\ WasSignalled(d)' = WasSignalled(d)
  BY DEF InWheel, InActive, InCond, WasSignalled
<1>4. OnlyWaitersLinked' /\ LinkInv' /\ RoundInv'
  BY <1>3 DEF OnlyWaitersLinked, LinkInv, RoundInv
<1>5. EpollInv' /\ SlotInv' /\ (NoSignalLost <=> NoSignalLost')
  BY <1>3 DEF EpollInv, SlotInv, NoSignalLost
<1> QED  BY <1>2, <1>4, <1>5

\* A wait that is refused is none; only a poll has deleted registrations of
\* others, which then shared its descriptors.
LEMMA RefusedStep ==
  ASSUME LoopInv, NEW c \in Co,
         SetStart(now),
         UNCHANGED <<timeVars, pItems, active, cond, waitVars, bTimeout,
                     raised, ready, loopVars, pCallStack>>,
         NEW F \in SUBSET Fd,
         epollItem' = epollItem \/ epollItem' = Deleted(F),
         SharedFds \/ \A d \in Co : F \cap fds[d] = {}
  PROVE  LoopInv'
<1> USE DEF LoopInv, timeVars, waitVars, loopVars
<1>1. ullStart' = ullStart /\ llStartIdx' = llStartIdx
  BY Started DEF SetStart
<1>2. epollItem' \in [Fd -> Co \cup {NULL}]
  BY DEF TypeOK, Deleted
<1>3. TypeOK' /\ StackInv'
  BY <1>1, <1>2 DEF TypeOK, StackInv
<1>4. \A d : /\ InWheel(d)' = InWheel(d) /\ InActive(d)' = InActive(d)
             /\ InCond(d)' = InCond(d) /\ WasSignalled(d)' = WasSignalled(d)
  BY DEF InWheel, InActive, InCond, WasSignalled
<1>5. OnlyWaitersLinked' /\ LinkInv' /\ RoundInv'
  BY <1>1, <1>4 DEF OnlyWaitersLinked, LinkInv, RoundInv
<1>6. SlotInv' /\ (NoSignalLost <=> NoSignalLost')
  BY <1>1, <1>4 DEF SlotInv, NoSignalLost
<1>7. EpollInv'
  <2>1. \A f \in Fd : epollItem'[f] = IF epollItem' # epollItem /\ f \in F
                                      THEN NULL ELSE epollItem[f]
    BY DEF Deleted, TypeOK
  <2> QED  BY <2>1 DEF EpollInv, TypeOK
<1> QED  BY <1>3, <1>5, <1>6, <1>7

\* A wait that begins: its coroutine was in no link, and is in the wheel, in
\* the queue of the condition, or in both.
LEMMA CondWaitStep ==
  ASSUME LoopInv, NEW c \in Co, NEW ms \in CondTimeouts, CondWait(c, ms)
  PROVE  LoopInv'
<1> USE LoopAssumption DEF LoopInv
<1>1. /\ c = Curr /\ MayCondWait(ms) /\ ms \in Nat
      /\ UNCHANGED <<timeVars, active, bTimeout, fds, ioVars, loopVars>>
  BY DEF CondWait
<1>2. CASE ms > 0 /\ Refused(now + ms, now)
  <2>1. /\ SetStart(now)
        /\ UNCHANGED <<pItems, cond, wait, expire, pCallStack>>
    BY <1>2 DEF CondWait
  <2>2. {} \in SUBSET Fd /\ \A d \in Co : {} \cap fds[d] = {}
    OBVIOUS
  <2> QED  BY <1>1, <2>1, <2>2, RefusedStep DEF ioVars, waitVars
<1>3. CASE ~(ms > 0 /\ Refused(now + ms, now))
  <2>0. now \in Nat \ {0} /\ now + ms \in Nat \ {0} /\ now + ms \in 0..MaxNow
    BY <1>1 DEF TypeOK, MayCondWait, MayWait
  <2>1. /\ cond' = Append(cond, c) /\ wait' = [wait EXCEPT ![c] = "cond"]
        /\ pCallStack' = Front(pCallStack)
    BY <1>3 DEF CondWait, co_yield_env
  <2>2. /\ wait[c] = "none" /\ ~InWheel(c) /\ ~InActive(c) /\ ~InCond(c)
        /\ c \notin bTimeout \cup raised /\ expire[c] = 0 /\ fds[c] = {}
    BY <1>1, YieldStack DEF OnlyWaitersLinked, EpollInv
  <2>3. /\ cond' \in Seq(Co) /\ ToSet(cond') = ToSet(cond) \cup {c}
        /\ IsInjective(cond')
    BY <2>1, <2>2, AppendIs DEF TypeOK, LinkInv, InCond
  <2> DEFINE t == AddSlot(ullStart, llStartIdx, now + ms)
  <2>4. Wheel(pItems)
    BY DEF Wheel, TypeOK, LinkInv
  <2>5. /\ ullStart' = ullStart /\ llStartIdx' = llStartIdx
        /\ Wheel(pItems') /\ expire' \in [Co -> 0..MaxNow]
        /\ \A d \in Co \ {c} : expire'[d] = expire[d]
        /\ ms > 0 => t \in Slots
        /\ expire'[c] = (IF ms > 0 THEN now + ms ELSE 0)
        /\ \A s \in Slots : ToSet(pItems'[s]) =
             IF ms > 0 /\ s = t THEN ToSet(pItems[s]) \cup {c}
             ELSE ToSet(pItems[s])
    <3> HIDE DEF t
    <3>1. CASE ms > 0
      <4>1. /\ AddTimeout(c, now + ms, now)
            /\ expire' = [expire EXCEPT ![c] = now + ms]
        BY <1>3, <3>1 DEF CondWait
      <4>2. ~Refused(now + ms, now)
        BY <1>3, <3>1
      <4>3. /\ ullStart' = ullStart /\ llStartIdx' = llStartIdx
            /\ Wheel(pItems') /\ t \in Slots
            /\ \A s \in Slots :
                 ToSet(pItems'[s]) = IF s = t THEN ToSet(pItems[s]) \cup {c}
                                     ELSE ToSet(pItems[s])
        BY <2>0, <2>2, <2>4, <4>1, <4>2, AddIs DEF t
      <4> QED  BY <2>0, <3>1, <4>1, <4>3 DEF TypeOK
    <3>2. CASE ~(ms > 0)
      <4>1. UNCHANGED <<wheelVars, expire>>
        BY <1>3, <3>2 DEF CondWait
      <4> QED  BY <2>2, <2>4, <3>2, <4>1 DEF TypeOK, wheelVars
    <3> QED  BY <3>1, <3>2
  <2> HIDE DEF t
  <2> USE <1>1 DEF timeVars, ioVars, loopVars
  <2>6. TypeOK'
    BY <2>1, <2>3, <2>5, YieldStack DEF TypeOK, Wheel
  <2>7. \A d \in Co \ {c} : wait'[d] = wait[d]
    BY <2>1 DEF TypeOK
  <2>8. wait'[c] = "cond"
    BY <2>1 DEF TypeOK
  <2>9. ASSUME NEW d
        PROVE  /\ InWheel(d)' <=> InWheel(d) \/ (d = c /\ ms > 0)
               /\ InActive(d)' <=> InActive(d)
               /\ InCond(d)' <=> InCond(d) \/ d = c
    <3>1. InWheel(d)' <=> InWheel(d) \/ (d = c /\ ms > 0)
      BY <2>5 DEF InWheel
    <3>2. (InActive(d)' <=> InActive(d)) /\ (InCond(d)' <=> InCond(d) \/ d = c)
      BY <2>3 DEF InActive, InCond
    <3> QED  BY <3>1, <3>2
  <2>10. \A d \in Co : WasSignalled(d)' = WasSignalled(d)
    BY <2>2, <2>7, <2>8, <2>9 DEF WasSignalled
  <2>11. StackInv'
    BY <2>1, <2>7, <2>8, YieldStack DEF StackInv
  <2>12. OnlyWaitersLinked'
    BY <2>5, <2>7, <2>8, <2>9 DEF OnlyWaitersLinked
  <2>13. LinkInv'
    <3>1. /\ IsInjective(active') /\ IsInjective(cond')
          /\ \A s \in Slots : IsInjective(pItems'[s])
          /\ \A s, u \in Slots :
               s # u => ToSet(pItems'[s]) \cap ToSet(pItems'[u]) = {}
      BY <2>3, <2>5 DEF LinkInv, Wheel
    <3>2. /\ c \notin bTimeout \cup raised /\ UNCHANGED <<bTimeout, raised>>
          /\ InWheel(c)' <=> ms > 0
          /\ ~InActive(c)'
          /\ expire'[c] # 0 <=> ms > 0
      <4>1. InWheel(c)' <=> ms > 0
        BY <2>2, <2>9
      <4>2. ~InActive(c)'
        BY <2>2, <2>9
      <4>3. expire'[c] # 0 <=> ms > 0
        <5>1. ms > 0 => now + ms # 0
          BY <2>0
        <5> QED  BY <2>5, <5>1
      <4> QED  BY <2>2, <4>1, <4>2, <4>3
    <3>3. ASSUME NEW d \in Co
          PROVE  /\ ~(InWheel(d)' /\ InActive(d)')
                 /\ InWheel(d)' \/ d \in bTimeout' => expire'[d] # 0
                 /\ expire'[d] # 0 /\ wait'[d] # "none"
                      => InWheel(d)' \/ InActive(d)'
                 /\ wait'[d] = "poll" => expire'[d] # 0
                 /\ InCond(d)' => wait'[d] = "cond"
                 /\ d \in bTimeout' \cup raised' => InActive(d)'
      <4>1. CASE d = c
        <5>1. /\ ~(InWheel(c)' /\ InActive(c)')
              /\ InWheel(c)' \/ c \in bTimeout' => expire'[c] # 0
              /\ expire'[c] # 0 => InWheel(c)'
              /\ c \notin bTimeout' \cup raised'
              /\ wait'[c] = "cond"
          BY <2>8, <3>2
        <5> QED  BY <4>1, <5>1
      <4>2. CASE d # c
        <5>1. wait'[d] = wait[d] /\ expire'[d] = expire[d]
          BY <2>5, <2>7, <4>2
        <5> QED  BY <2>9, <4>2, <5>1 DEF LinkInv
      <4> QED  BY <4>1, <4>2
    <3> QED  BY <3>1, <3>3 DEF LinkInv
  <2>14. RoundInv' /\ (NoSignalLost <=> NoSignalLost')
    BY <2>5, <2>9, <2>10 DEF RoundInv, NoSignalLost
  <2>15. EpollInv'
    BY <2>2, <2>7, <2>8 DEF EpollInv, TypeOK
  <2>16. SlotInv'
    <3> SUFFICES ASSUME ~LongCondWaits, NEW d \in Co, wait'[d] = "cond"
                 PROVE  /\ \A s \in Slots : d \in ToSet(pItems'[s]) =>
                             /\ expire'[d] - ullStart \in Slots
                             /\ s = SlotAhead(llStartIdx, expire'[d] - ullStart)
                        /\ d \in bTimeout => expire'[d] <= loopNow
      BY <2>5 DEF SlotInv
    <3>1. CASE d # c
      <4>1. wait[d] = "cond" /\ expire'[d] = expire[d]
        BY <2>5, <2>7, <3>1
      <4>2. \A s \in Slots : d \in ToSet(pItems'[s]) <=> d \in ToSet(pItems[s])
        BY <2>5, <3>1
      <4> QED  BY <4>1, <4>2 DEF SlotInv
    <3>2. CASE d = c
      <4> SUFFICES ASSUME NEW s \in Slots, c \in ToSet(pItems'[s])
                   PROVE  /\ expire'[d] - ullStart \in Slots
                          /\ s = SlotAhead(llStartIdx, expire'[d] - ullStart)
        BY <2>2, <3>2
      <4>1. ms > 0 /\ s = t
        BY <2>2, <2>5 DEF InWheel
      <4>2. ~Refused(now + ms, now)
        BY <1>3, <4>1
      <4>3. ullStart \in Nat /\ ullStart <= now
        <5>1. StartAt(ullStart, now) = ullStart /\ ullStart \in Nat
          BY Started
        <5> QED  BY <2>0, <4>2, <5>1 DEF Refused, AddFails
      <4>4. now + ms - ullStart < iItemSize
        BY <1>1 DEF MayCondWait
      <4>5. Distance(ullStart, now + ms) = now + ms - ullStart
        BY <2>0, <4>3, <4>4, WheelAssumption DEF Distance
      <4> QED  BY <2>0, <2>5, <3>2, <4>1, <4>3, <4>4, <4>5, WheelAssumption
               DEF t, AddSlot, Slots
    <3> QED  BY <3>1, <3>2
  <2> QED  BY <2>6, <2>11, <2>12, <2>13, <2>14, <2>15, <2>16
<1> QED  BY <1>2, <1>3

\* A poll that begins registers the descriptors that are free, which are all
\* of its own unless polls share them.
LEMMA PollStep ==
  ASSUME LoopInv, NEW c \in Co, NEW F \in SUBSET Fd, NEW ms \in PollTimeouts,
         Poll(c, F, ms)
  PROVE  LoopInv'
<1> USE LoopAssumption DEF LoopInv
<1>1. /\ c = Curr /\ MayPoll(c, F, ms) /\ ms \in Nat \ {0}
      /\ UNCHANGED <<timeVars, active, cond, bTimeout, raised, ready, loopVars>>
  BY DEF Poll
<1>2. /\ wait[c] = "none" /\ ~InWheel(c) /\ ~InActive(c) /\ ~InCond(c)
      /\ c \notin bTimeout \cup raised /\ fds[c] = {}
  BY <1>1, YieldStack DEF OnlyWaitersLinked, EpollInv
<1>3. SharedFds \/ \A d \in Co : F \cap fds[d] = {}
  BY <1>1, <1>2 DEF MayPoll
<1>4. CASE Refused(now + ms, now)
  <2>1. /\ SetStart(now) /\ epollItem' = Deleted(F)
        /\ UNCHANGED <<pItems, wait, expire, fds, pCallStack>>
    BY <1>4 DEF Poll
  <2> QED  BY <1>1, <1>3, <2>1, RefusedStep DEF waitVars
<1>5. CASE ~Refused(now + ms, now)
  <2>0. now \in Nat \ {0} /\ now + ms \in Nat \ {0} /\ now + ms \in 0..MaxNow
    BY <1>1 DEF TypeOK, MayPoll, MayWait
  <2>1. /\ AddTimeout(c, now + ms, now)
        /\ epollItem' = Added(c, F)
        /\ wait' = [wait EXCEPT ![c] = "poll"]
        /\ expire' = [expire EXCEPT ![c] = now + ms]
        /\ fds' = [fds EXCEPT ![c] = F]
        /\ pCallStack' = Front(pCallStack)
    BY <1>5 DEF Poll, co_yield_env
  <2> DEFINE t == AddSlot(ullStart, llStartIdx, now + ms)
  <2>2. Wheel(pItems)
    BY DEF Wheel, TypeOK, LinkInv
  <2>3. /\ ullStart' = ullStart /\ llStartIdx' = llStartIdx
        /\ Wheel(pItems') /\ t \in Slots
        /\ \A s \in Slots :
             ToSet(pItems'[s]) = IF s = t THEN ToSet(pItems[s]) \cup {c}
                                 ELSE ToSet(pItems[s])
    BY <1>2, <1>5, <2>0, <2>1, <2>2, AddIs
  <2> HIDE DEF t
  <2>4. /\ wait'[c] = "poll" /\ expire'[c] = now + ms /\ fds'[c] = F
        /\ \A d \in Co \ {c} : /\ wait'[d] = wait[d] /\ expire'[d] = expire[d]
                               /\ fds'[d] = fds[d]
    BY <2>1 DEF TypeOK
  <2> USE <1>1 DEF timeVars, loopVars
  <2>5. TypeOK'
    <3>1. epollItem' \in [Fd -> Co \cup {NULL}]
      BY <2>1 DEF Added, TypeOK
    <3> QED  BY <2>0, <2>1, <2>3, <3>1, YieldStack DEF TypeOK, Wheel
  <2>6. ASSUME NEW d
        PROVE  /\ InWheel(d)' <=> InWheel(d) \/ d = c
               /\ InActive(d)' <=> InActive(d)
               /\ InCond(d)' <=> InCond(d)
    <3>1. InWheel(d)' <=> InWheel(d) \/ d = c
      BY <2>3 DEF InWheel
    <3> QED  BY <3>1 DEF InActive, InCond
  <2>7. \A d \in Co : WasSignalled(d)' <=> WasSignalled(d)
    BY <1>2, <2>4, <2>6 DEF WasSignalled
  <2>8. StackInv'
    BY <2>1, <2>4, YieldStack DEF StackInv
  <2>9. OnlyWaitersLinked'
    BY <2>4, <2>6 DEF OnlyWaitersLinked
  <2>10. LinkInv'
    BY <1>2, <2>0, <2>3, <2>4, <2>6 DEF LinkInv, Wheel
  <2>11. RoundInv' /\ (NoSignalLost <=> NoSignalLost')
    BY <2>3, <2>6, <2>7 DEF RoundInv, NoSignalLost
  <2>12. EpollInv'
    <3>1. \A f \in Fd : epollItem'[f] = IF f \in F /\ epollItem[f] = NULL
                                        THEN c ELSE epollItem[f]
      BY <2>1 DEF Added
    <3>2. \A f \in Fd : epollItem[f] # NULL => epollItem[f] \in Co \ {c}
      BY <1>2 DEF EpollInv, TypeOK
    <3>3. \A f \in Fd : epollItem'[f] # NULL => f \in fds'[epollItem'[f]]
      BY <2>4, <3>1, <3>2 DEF EpollInv
    <3>4. ~SharedFds => \A d \in Co : \A f \in fds'[d] : epollItem'[f] = d
      <4> SUFFICES ASSUME ~SharedFds, NEW d \in Co, NEW f \in fds'[d]
                   PROVE  epollItem'[f] = d
        OBVIOUS
      <4>1. CASE d # c
        <5>1. f \in fds[d] /\ f \in Fd
          BY <2>4, <4>1 DEF TypeOK
        <5>2. epollItem[f] = d /\ d # NULL
          BY <5>1 DEF EpollInv
        <5> QED  BY <3>1, <5>1, <5>2
      <4>2. CASE d = c
        <5>1. f \in F /\ f \in Fd
          BY <2>4, <4>2
        <5>2. epollItem[f] = NULL
          BY <1>3, <3>2, <5>1 DEF EpollInv
        <5> QED  BY <3>1, <4>2, <5>1, <5>2
      <4> QED  BY <4>1, <4>2
    <3> QED  BY <2>4, <3>3, <3>4 DEF EpollInv
  <2>13. SlotInv'
    <3>1. ASSUME ~LongCondWaits, NEW d \in Co, wait'[d] = "cond"
          PROVE  /\ \A s \in Slots : d \in ToSet(pItems'[s]) =>
                      /\ expire'[d] - ullStart \in Slots
                      /\ s = SlotAhead(llStartIdx, expire'[d] - ullStart)
                 /\ d \in bTimeout => expire'[d] <= loopNow
      <4>1. d # c
        BY <2>4, <3>1
      <4>2. \A s \in Slots : d \in ToSet(pItems'[s]) => d \in ToSet(pItems[s])
        BY <2>3, <4>1
      <4> QED  BY <2>4, <3>1, <4>1, <4>2 DEF SlotInv
    <3> QED  BY <2>3, <3>1 DEF SlotInv
  <2> QED  BY <2>5, <2>8, <2>9, <2>10, <2>11, <2>12, <2>13
<1> QED  BY <1>4, <1>5

\* A coroutine that is switched in, out of a poll or out of the active list,
\* is in no link afterwards; rest is that list, less the coroutine if it was
\* the head.
LEMMA AwakeStep ==
  ASSUME LoopInv, NEW c \in Co, c \notin ToSet(pCallStack),
         wait[c] = "cond" => ~InWheel(c),
         NEW rest \in Seq(Co), IsInjective(rest),
         \/ rest = active /\ wait[c] # "cond"
         \/ wait[c] # "none" /\ ToSet(rest) = ToSet(active) \ {c},
         Awake(c, rest),
         UNCHANGED <<timeVars, ullStart, llStartIdx, ready, loopVars>>
  PROVE  LoopInv'
<1> USE LoopAssumption DEF LoopInv, timeVars, loopVars
<1>1. /\ wait' = [wait EXCEPT ![c] = "none"]
      /\ expire' = [expire EXCEPT ![c] = 0]
      /\ fds' = [fds EXCEPT ![c] = {}]
      /\ bTimeout' = bTimeout \ {c} /\ raised' = raised \ {c}
      /\ pCallStack' = Append(pCallStack, c)
  BY DEF Awake
<1>2. /\ wait'[c] = "none" /\ expire'[c] = 0 /\ fds'[c] = {}
      /\ \A d \in Co \ {c} : /\ wait'[d] = wait[d] /\ expire'[d] = expire[d]
                             /\ fds'[d] = fds[d]
  BY <1>1 DEF TypeOK
<1>3. /\ cond' \in Seq(Co) /\ IsInjective(cond')
      /\ ToSet(cond') = ToSet(cond) \ {c}
  <2>1. CASE wait[c] = "cond"
    <3>1. cond' = Without(cond, {c})
      BY <2>1 DEF Awake
    <3> QED  BY <3>1, WithoutIs DEF TypeOK, LinkInv
  <2>2. CASE wait[c] # "cond"
    <3>1. cond' = cond
      BY <2>2 DEF Awake
    <3>2. c \notin ToSet(cond)
      BY <2>2 DEF LinkInv, InCond
    <3> QED  BY <3>1, <3>2 DEF TypeOK, LinkInv
  <2> QED  BY <2>1, <2>2
<1>4. /\ active' \in Seq(Co) /\ IsInjective(active')
      /\ ToSet(active') = ToSet(active) \ {c}
  <2>1. CASE wait[c] = "poll"
    <3>1. active' = Without(rest, {c})
      BY <2>1 DEF Awake
    <3>2. /\ active' \in Seq(Co) /\ IsInjective(active')
          /\ ToSet(active') = ToSet(rest) \ {c}
      BY <3>1, WithoutIs
    <3>3. ToSet(rest) \ {c} = ToSet(active) \ {c}
      OBVIOUS
    <3> QED  BY <3>2, <3>3
  <2>2. CASE wait[c] # "poll"
    <3>1. active' = rest
      BY <2>2 DEF Awake
    <3>2. wait[c] = "none" => c \notin ToSet(active)
      BY DEF OnlyWaitersLinked, InActive
    <3>3. wait[c] \in {"none", "cond", "poll"}
      BY DEF TypeOK
    <3> QED  BY <2>2, <3>1, <3>2, <3>3
  <2> QED  BY <2>1, <2>2
<1>5. /\ Wheel(pItems')
      /\ \A s \in Slots : ToSet(pItems'[s]) = ToSet(pItems[s]) \ {c}
  <2>1. Wheel(pItems)
    BY DEF Wheel, TypeOK, LinkInv
  <2>2. CASE wait[c] = "poll"
    <3> DEFINE out == [s \in Slots |-> Without(pItems[s], {c})]
    <3>1. pItems' = out
      BY <2>2 DEF Awake, OutOfWheel
    <3>2. Wheel(out) /\ \A s \in Slots : ToSet(out[s]) = ToSet(pItems[s]) \ {c}
      BY <2>1, RemovedIs
    <3> HIDE DEF out
    <3> QED  BY <3>1, <3>2
  <2>3. CASE wait[c] # "poll"
    <3>1. pItems' = pItems
      BY <2>3 DEF Awake
    <3>2. ~InWheel(c)
      BY <2>3 DEF OnlyWaitersLinked, TypeOK
    <3> QED  BY <2>1, <3>1, <3>2 DEF InWheel
  <2> QED  BY <2>2, <2>3
<1>6. \A f \in Fd : epollItem'[f] = IF f \in fds[c] THEN NULL ELSE epollItem[f]
  <2>1. CASE wait[c] = "poll"
    BY <2>1 DEF Awake, Deleted
  <2>2. CASE wait[c] # "poll"
    BY <2>2 DEF Awake, EpollInv
  <2> QED  BY <2>1, <2>2
<1>7. epollItem' \in [Fd -> Co \cup {NULL}]
  BY DEF Awake, Deleted, TypeOK
<1>8. TypeOK'
  BY <1>1, <1>3, <1>4, <1>5, <1>7, ResumeStack DEF TypeOK, Wheel
<1>9. ASSUME NEW d
      PROVE  /\ InWheel(d)' <=> InWheel(d) /\ d # c
             /\ InActive(d)' <=> InActive(d) /\ d # c
             /\ InCond(d)' <=> InCond(d) /\ d # c
  <2>1. InWheel(d)' <=> InWheel(d) /\ d # c
    BY <1>5 DEF InWheel
  <2> QED  BY <1>3, <1>4, <2>1 DEF InActive, InCond
<1>10. \A d \in Co : WasSignalled(d)' <=> WasSignalled(d) /\ d # c
  BY <1>2, <1>9 DEF WasSignalled
<1>11. StackInv'
  BY <1>1, <1>2, ResumeStack DEF StackInv
<1>12. OnlyWaitersLinked'
  BY <1>1, <1>2, <1>9 DEF OnlyWaitersLinked
<1>13. LinkInv'
  BY <1>1, <1>2, <1>3, <1>4, <1>5, <1>9 DEF LinkInv, Wheel
<1>14. RoundInv' /\ (NoSignalLost => NoSignalLost')
  BY <1>1, <1>9, <1>10 DEF RoundInv, NoSignalLost
<1>15. EpollInv'
  <2>1. \A f \in Fd : epollItem'[f] # NULL =>
          /\ f \notin fds[c] /\ epollItem'[f] = epollItem[f]
          /\ epollItem[f] \in Co \ {c} /\ f \in fds[epollItem[f]]
    BY <1>6 DEF EpollInv, TypeOK
  <2>2. \A f \in Fd : epollItem'[f] # NULL => f \in fds'[epollItem'[f]]
    BY <1>2, <2>1
  <2>3. ~SharedFds => \A d \in Co : \A f \in fds'[d] : epollItem'[f] = d
    <3> SUFFICES ASSUME ~SharedFds, NEW d \in Co \ {c}, NEW f \in fds[d]
                 PROVE  epollItem'[f] = d
      BY <1>2
    <3>1. f \in Fd /\ epollItem[f] = d
      BY DEF EpollInv, TypeOK
    <3>2. f \notin fds[c]
      BY <3>1 DEF EpollInv
    <3> QED  BY <1>6, <3>1, <3>2
  <2> QED  BY <1>2, <2>2, <2>3 DEF EpollInv
<1>16. SlotInv'
  <2>1. ASSUME ~LongCondWaits, NEW d \in Co, wait'[d] = "cond"
        PROVE  /\ \A s \in Slots : d \in ToSet(pItems'[s]) =>
                    /\ expire'[d] - ullStart \in Slots
                    /\ s = SlotAhead(llStartIdx, expire'[d] - ullStart)
               /\ d \in bTimeout => expire'[d] <= loopNow
    <3>1. d # c
      BY <1>2, <2>1
    <3> QED  BY <1>2, <1>5, <2>1, <3>1 DEF SlotInv
  <2> QED  BY <1>1, <2>1 DEF SlotInv
<1> QED  BY <1>8, <1>11, <1>12, <1>13, <1>14, <1>15, <1>16

\* The program resumes a coroutine that waits for nothing, or in a poll.
LEMMA ResumeStep ==
  ASSUME LoopInv, NEW c \in Co, Resume(c)
  PROVE  LoopInv'
<1>1. /\ c \notin ToSet(pCallStack) /\ wait[c] # "cond" /\ Awake(c, active)
      /\ UNCHANGED <<timeVars, ullStart, llStartIdx, ready, loopVars>>
  BY DEF Resume, OnCallStack
<1>2. active \in Seq(Co) /\ IsInjective(active)
  BY DEF LoopInv, TypeOK, LinkInv
<1> QED  BY <1>1, <1>2, AwakeStep

\* The loop resumes the head of the active list, which waits.
LEMMA LoopResumeStep ==
  ASSUME LoopInv, LoopResume
  PROVE  LoopInv'
<1> USE LoopAssumption DEF LoopInv
<1> DEFINE c == Head(active)
           rest == Tail(active)
<1>1. /\ active # <<>> /\ Awake(c, rest)
      /\ UNCHANGED <<timeVars, ready, loopVars>>
  BY DEF LoopResume
<1>2. /\ c \in Co /\ rest \in Seq(Co) /\ IsInjective(rest)
      /\ ToSet(active) = {c} \cup ToSet(rest) /\ c \notin ToSet(rest)
  BY <1>1, TailIs DEF TypeOK, LinkInv
<1> HIDE DEF c, rest
<1>3. ullStart' = ullStart /\ llStartIdx' = llStartIdx
  <2>1. SetStart(loopNow) \/ UNCHANGED <<ullStart, llStartIdx>>
    BY DEF LoopResume
  <2> QED  BY <2>1, Started DEF SetStart
<1>4. InActive(c)
  BY <1>2 DEF InActive
<1>5. wait[c] # "none" /\ ~InWheel(c)
  BY <1>2, <1>4 DEF OnlyWaitersLinked, LinkInv
<1>6. c \notin ToSet(pCallStack)
  BY <1>2, <1>5 DEF StackInv
<1>7. ToSet(rest) = ToSet(active) \ {c}
  BY <1>2
<1> QED  BY <1>1, <1>2, <1>3, <1>5, <1>6, <1>7, AwakeStep

\* A signal moves the first n of the condition's queue from where their timer
\* items are to the end of the active list.
LEMMA SignalledStep ==
  ASSUME LoopInv, NEW n \in 0..Len(cond), Signalled(n),
         UNCHANGED <<timeVars, ullStart, llStartIdx, waitVars, bTimeout,
                     ioVars, loopVars, pCallStack>>
  PROVE  LoopInv'
<1> USE LoopAssumption DEF LoopInv, timeVars, waitVars, ioVars, loopVars
<1> DEFINE popped == SubSeq(cond, 1, n)
           others == SubSeq(cond, n + 1, Len(cond))
           P == ToSet(popped)
           items == [s \in Slots |-> Without(pItems[s], P)]
           rest == Without(active, P)
<1>1. cond' = others /\ pItems' = items /\ active' = rest \o popped
  BY DEF Signalled
<1>2. /\ popped \in Seq(Co) /\ IsInjective(popped)
      /\ others \in Seq(Co) /\ IsInjective(others)
      /\ ToSet(cond) = P \cup ToSet(others)
      /\ P \cap ToSet(others) = {}
  BY SplitIs DEF TypeOK, LinkInv
<1>3. Wheel(items) /\ \A s \in Slots : ToSet(items[s]) = ToSet(pItems[s]) \ P
  <2>1. Wheel(pItems)
    BY DEF Wheel, TypeOK, LinkInv
  <2> HIDE DEF P
  <2> QED  BY <2>1, RemovedIs
<1>4. /\ rest \in Seq(Co) /\ IsInjective(rest)
      /\ ToSet(rest) = ToSet(active) \ P
  BY WithoutIs DEF TypeOK, LinkInv
<1> HIDE DEF popped, others, items, rest
<1>5. /\ active' \in Seq(Co) /\ IsInjective(active')
      /\ ToSet(active') = ToSet(active) \cup P
  BY <1>1, <1>2, <1>4, ConcatIs
<1> HIDE DEF P
<1>6. ASSUME NEW c
      PROVE  /\ InWheel(c)' <=> InWheel(c) /\ c \notin P
             /\ InActive(c)' <=> InActive(c) \/ c \in P
             /\ InCond(c)' <=> InCond(c) /\ c \notin P
             /\ c \in P => InCond(c)
  <2>1. InWheel(c)' <=> InWheel(c) /\ c \notin P
    BY <1>1, <1>3 DEF InWheel
  <2> QED  BY <1>1, <1>2, <1>5, <2>1 DEF InActive, InCond
<1>7. \A c \in Co : /\ c \in P => wait[c] = "cond"
                    /\ WasSignalled(c)' <=> WasSignalled(c) \/ c \in P
  BY <1>6 DEF LinkInv, WasSignalled
<1>8. TypeOK'
  BY <1>1, <1>2, <1>3, <1>5 DEF TypeOK, Wheel
<1>9. StackInv' /\ EpollInv'
  BY DEF StackInv, EpollInv
<1>10. OnlyWaitersLinked'
  BY <1>6, <1>7 DEF OnlyWaitersLinked
<1>11. LinkInv'
  BY <1>1, <1>2, <1>3, <1>5, <1>6 DEF LinkInv, Wheel
<1>12. RoundInv' /\ (NoSignalLost => NoSignalLost')
  BY <1>6, <1>7 DEF RoundInv, NoSignalLost
<1>13. SlotInv'
  BY <1>1, <1>3 DEF SlotInv
<1> QED  BY <1>8, <1>9, <1>10, <1>11, <1>12, <1>13

\* The loop files what it took too early: no condition wait, if those are
\* within the span of the wheel.
LEMMA PutBackStep ==
  ASSUME LoopInv, LoopPutBack
  PROVE  LoopInv'
<1> USE LoopAssumption DEF LoopInv, timeVars, waitVars, ioVars, loopVars
<1> DEFINE c == Head(active)
           rest == Tail(active)
           t == AddSlot(ullStart, llStartIdx, expire[c])
<1>1. /\ active # <<>> /\ c \in bTimeout /\ loopNow < expire[c]
      /\ ~Refused(expire[c], loopNow) /\ AddTimeout(c, expire[c], loopNow)
      /\ active' = rest /\ bTimeout' = bTimeout \ {c}
      /\ UNCHANGED <<timeVars, cond, waitVars, ioVars, loopVars, pCallStack>>
  BY DEF LoopPutBack, Early
<1>2. /\ c \in Co /\ rest \in Seq(Co) /\ IsInjective(rest)
      /\ ToSet(active) = {c} \cup ToSet(rest) /\ c \notin ToSet(rest)
  BY <1>1, TailIs DEF TypeOK, LinkInv
<1> HIDE DEF c, rest
<1>3. InActive(c) /\ ~InWheel(c) /\ wait[c] # "none"
  BY <1>1, <1>2 DEF LinkInv, InActive, OnlyWaitersLinked
<1>4. /\ ullStart' = ullStart /\ llStartIdx' = llStartIdx
      /\ Wheel(pItems') /\ t \in Slots
      /\ \A s \in Slots :
           ToSet(pItems'[s]) = IF s = t THEN ToSet(pItems[s]) \cup {c}
                               ELSE ToSet(pItems[s])
  <2>1. Wheel(pItems) /\ expire[c] \in Nat /\ loopNow \in Nat
    BY <1>2 DEF Wheel, TypeOK, LinkInv
  <2> QED  BY <1>1, <1>2, <1>3, <2>1, AddIs
<1> HIDE DEF t
<1>5. ASSUME NEW d
      PROVE  /\ InWheel(d)' <=> InWheel(d) \/ d = c
             /\ InActive(d)' <=> InActive(d) /\ d # c
             /\ InCond(d)' <=> InCond(d)
             /\ WasSignalled(d)' <=> WasSignalled(d)
  <2>1. InWheel(d)' <=> InWheel(d) \/ d = c
    BY <1>4 DEF InWheel
  <2> QED  BY <1>1, <1>2, <2>1 DEF InActive, InCond, WasSignalled
<1>6. ~LongCondWaits => wait[c] # "cond"
  BY <1>1, <1>2 DEF SlotInv, TypeOK
<1>7. c \notin raised
  BY <1>1, <1>2 DEF RoundInv
<1>8. TypeOK'
  BY <1>1, <1>2, <1>4 DEF TypeOK, Wheel
<1>9. StackInv' /\ EpollInv'
  BY <1>1 DEF StackInv, EpollInv
<1>10. OnlyWaitersLinked'
  BY <1>1, <1>3, <1>5 DEF OnlyWaitersLinked
<1>11. LinkInv'
  <2>1. expire[c] # 0
    BY <1>1, <1>2 DEF LinkInv
  <2>2. \A d \in Co :
          /\ ~(InWheel(d) /\ InActive(d))'
          /\ InWheel(d)' \/ d \in bTimeout' => expire[d] # 0
          /\ expire[d] # 0 /\ wait[d] # "none" => InWheel(d)' \/ InActive(d)'
          /\ wait[d] = "poll" => expire[d] # 0
          /\ InCond(d)' => wait[d] = "cond"
          /\ d \in bTimeout' \cup raised => InActive(d)'
    BY <1>1, <1>5, <1>7, <2>1 DEF LinkInv
  <2>3. IsInjective(active') /\ IsInjective(cond)
    BY <1>1, <1>2 DEF LinkInv
  <2> QED  BY <1>1, <1>4, <2>2, <2>3 DEF LinkInv, Wheel
<1>12. RoundInv'
  BY <1>1, <1>4, <1>5 DEF RoundInv
<1>13. ~LongCondWaits => NoSignalLost'
  BY <1>1, <1>5, <1>6 DEF NoSignalLost, WasSignalled
<1>14. SlotInv'
  BY <1>1, <1>4, <1>6 DEF SlotInv
<1> QED  BY <1>8, <1>9, <1>10, <1>11, <1>12, <1>13, <1>14

\* What a round puts into the active list: the polls with events that are
\* registered, in any order, and then what it takes from the wheel.
LEMMA RegisteredIs ==
  ASSUME LoopInv, phase = "wait"
  PROVE  /\ Registered \ raised \in SUBSET Co
         /\ \A c \in Registered \ raised :
              wait[c] = "poll" /\ ~InActive(c)
<1> USE LoopAssumption DEF LoopInv
<1>1. Registered \subseteq Co
  BY DEF Registered, TypeOK
<1>2. ASSUME NEW c \in Registered
      PROVE  wait[c] = "poll"
  <2>1. PICK f \in ready : epollItem[f] = c /\ c # NULL
    BY DEF Registered
  <2>2. f \in Fd /\ f \in fds[c]
    BY <2>1 DEF EpollInv, TypeOK
  <2> QED  BY <1>1, <2>2 DEF EpollInv
<1>3. bTimeout = {}
  BY DEF RoundInv
<1> QED  BY <1>1, <1>2, <1>3 DEF RoundInv, WasSignalled

\* A round that the clock is not behind of moves the wheel on to now; one
\* that it is behind of serves the events alone.
LEMMA LoopPollStep ==
  ASSUME LoopInv, ShortGap, LoopPoll
  PROVE  LoopInv'
<1> USE LoopAssumption DEF LoopInv, timeVars, waitVars
<1>1. PICK order \in SetToSeqs(Registered \ raised) :
        Round(order, ullStart, llStartIdx)
  <2>1. \E order \in SetToSeqs(Registered \ raised) :
          Round(order, StartAt(ullStart, now), IdxAt(ullStart, llStartIdx))
    BY DEF LoopPoll
  <2> QED  BY <2>1, Started
<1>2. /\ phase = "wait" /\ phase' = "process" /\ loopNow' = now
      /\ UNCHANGED <<timeVars, cond, waitVars, epollItem, ready, pCallStack>>
  BY DEF LoopPoll
<1> DEFINE P == ToSet(order)
           prepared == active \o order
           items == [s \in Slots |-> Without(pItems[s], P)]
           cnt == TakeCount(ullStart, now)
           timeout == TakenFrom(items, llStartIdx, cnt)
           emptied == { SlotAhead(llStartIdx, i) : i \in 0..cnt - 1 }
<1>3. /\ raised' = raised \cup P
      /\ IF TakeFails(ullStart, now)
         THEN /\ SetStart(now)
              /\ pItems' = items
              /\ active' = prepared
              /\ UNCHANGED bTimeout
         ELSE /\ ullStart' = now
              /\ llStartIdx' = llStartIdx + cnt - 1
              /\ pItems' = [s \in Slots |->
                              IF s \in emptied THEN <<>> ELSE items[s]]
              /\ active' = prepared \o timeout
              /\ bTimeout' = bTimeout \cup ToSet(timeout)
  BY <1>1 DEF Round
<1>4. /\ order \in Seq(Co) /\ IsInjective(order) /\ P \subseteq Co
      /\ \A c \in P : wait[c] = "poll" /\ ~InActive(c)
      /\ P = Registered \ raised
  BY <1>2, RegisteredIs, OrderIs
<1>5. Wheel(items) /\ \A s \in Slots : ToSet(items[s]) = ToSet(pItems[s]) \ P
  <2>1. Wheel(pItems)
    BY DEF Wheel, TypeOK, LinkInv
  <2> HIDE DEF P
  <2> QED  BY <2>1, RemovedIs
<1> HIDE DEF items, P
<1>6. /\ prepared \in Seq(Co) /\ IsInjective(prepared)
      /\ ToSet(prepared) = ToSet(active) \cup P
  <2>1. ToSet(active) \cap P = {}
    BY <1>4 DEF InActive
  <2> QED  BY <1>4, <2>1, ConcatIs DEF TypeOK, LinkInv, P
<1> HIDE DEF prepared
<1>7. bTimeout = {}
  BY <1>2 DEF RoundInv
<1>8. now \in Nat \ {0} /\ ullStart \in Nat /\ llStartIdx \in Nat
  BY DEF TypeOK
<1>9. UNCHANGED <<now, backs, cond, wait, expire, fds, epollItem, ready,
                  pCallStack>>
  BY <1>2
<1> USE <1>9
<1>10. StackInv' /\ EpollInv'
  BY DEF StackInv, EpollInv
<1>11. \A c : InCond(c)' = InCond(c) /\ WasSignalled(c)' = WasSignalled(c)
  BY DEF InCond, WasSignalled
<1>12. CASE TakeFails(ullStart, now)
  <2>1. /\ ullStart' = ullStart /\ llStartIdx' = llStartIdx
        /\ pItems' = items /\ active' = prepared /\ bTimeout' = {}
    BY <1>3, <1>7, <1>12, Started DEF SetStart
  <2>2. ASSUME NEW c
        PROVE  /\ InWheel(c)' <=> InWheel(c) /\ c \notin P
               /\ InActive(c)' <=> InActive(c) \/ c \in P
    BY <1>5, <1>6, <2>1 DEF InWheel, InActive
  <2>3. TypeOK'
    BY <1>2, <1>3, <1>4, <1>5, <1>6, <2>1 DEF TypeOK, Wheel
  <2>4. OnlyWaitersLinked'
    BY <1>3, <1>4, <1>11, <2>1, <2>2 DEF OnlyWaitersLinked
  <2>5. LinkInv'
    BY <1>3, <1>5, <1>6, <1>11, <2>1, <2>2 DEF LinkInv, Wheel
  <2>6. RoundInv' /\ (NoSignalLost => NoSignalLost')
    BY <1>3, <1>11, <2>1, <2>2 DEF RoundInv, NoSignalLost
  <2>7. SlotInv'
    BY <1>5, <2>1 DEF SlotInv
  <2> QED  BY <1>10, <2>3, <2>4, <2>5, <2>6, <2>7
<1>13. CASE ~TakeFails(ullStart, now)
  <2>1. /\ cnt \in 1..iItemSize /\ cnt <= now - ullStart + 1
        /\ cnt = now - ullStart + 1 \/ cnt = iItemSize
    BY <1>8, <1>13, TakeFacts DEF ShortGap
  <2>2. /\ ullStart' = now /\ llStartIdx' = llStartIdx + cnt - 1
        /\ pItems' = [s \in Slots |-> IF s \in emptied THEN <<>> ELSE items[s]]
        /\ active' = prepared \o timeout
        /\ bTimeout' = ToSet(timeout)
    BY <1>3, <1>7, <1>13
  <2>3. /\ timeout \in Seq(Co) /\ emptied \subseteq Slots
        /\ \A c : c \in ToSet(timeout) <=>
                    \E s \in emptied : c \in ToSet(items[s])
        /\ IsInjective(timeout)
    <3> HIDE DEF cnt
    <3> QED  BY <1>5, <1>8, <2>1, TakenIs DEF Wheel
  <2>4. \A c \in ToSet(timeout) : c \in Co /\ InWheel(c) /\ c \notin P
    <3> HIDE DEF timeout, emptied
    <3>1. ToSet(timeout) \subseteq Co
      BY <2>3, ElementsType
    <3> QED  BY <1>5, <2>3, <3>1 DEF InWheel
  <2> DEFINE T == ToSet(timeout)
  <2>5. /\ active' \in Seq(Co) /\ IsInjective(active')
        /\ ToSet(active') = (ToSet(active) \cup P) \cup T
    <3> HIDE DEF timeout, emptied
    <3>1. ToSet(prepared) \cap T = {}
      BY <1>6, <2>4 DEF LinkInv, InActive
    <3> QED  BY <1>6, <2>2, <2>3, <3>1, ConcatIs
  <2>6. /\ Wheel(pItems')
        /\ \A s \in Slots : ToSet(pItems'[s]) = ToSet(items[s]) \ T
    <3> HIDE DEF timeout, emptied
    <3>1. \A s \in Slots : pItems'[s] = IF s \in emptied THEN <<>> ELSE items[s]
      BY <2>2
    <3>2. \A s \in Slots :
            /\ pItems'[s] \in Seq(Co) /\ IsInjective(pItems'[s])
            /\ ToSet(pItems'[s]) = IF s \in emptied THEN {} ELSE ToSet(items[s])
      <4>1. <<>> \in Seq(Co)
        OBVIOUS
      <4> QED  BY <1>5, <3>1, <4>1, EmptyIs DEF Wheel
    <3>3. \A s \in Slots : ToSet(pItems'[s]) = ToSet(items[s]) \ T
      <4>1. ASSUME NEW s \in emptied
            PROVE  ToSet(items[s]) \ T = {}
        BY <2>3
      <4>2. ASSUME NEW s \in Slots, s \notin emptied
            PROVE  ToSet(items[s]) \cap T = {}
        BY <1>5, <2>3, <4>2 DEF Wheel
      <4> QED  BY <3>2, <4>1, <4>2
    <3>4. pItems' \in [Slots -> Seq(Co)]
      BY <2>2, <3>2
    <3>5. Wheel(pItems')
      BY <1>5, <3>2, <3>3, <3>4 DEF Wheel
    <3> QED  BY <3>3, <3>5
  <2>7. ASSUME NEW c
        PROVE  /\ InWheel(c)' <=> InWheel(c) /\ c \notin P /\ c \notin T
               /\ InActive(c)' <=> InActive(c) \/ c \in P \/ c \in T
    <3> HIDE DEF T
    <3>1. InWheel(c)' <=> InWheel(c) /\ c \notin P /\ c \notin T
      BY <1>5, <2>6 DEF InWheel
    <3> QED  BY <2>5, <3>1 DEF InActive
  <2>8. ASSUME ~LongCondWaits, NEW c \in Co, wait[c] = "cond"
        PROVE  /\ \A s \in Slots : c \in ToSet(pItems'[s]) =>
                    /\ expire[c] - now \in Slots
                    /\ s = SlotAhead(llStartIdx', expire[c] - now)
               /\ c \in T => expire[c] <= now
    <3> DEFINE k == expire[c] - ullStart
    <3>1. \A s \in Slots : c \in ToSet(pItems[s]) =>
            k \in Slots /\ s = SlotAhead(llStartIdx, k)
      BY <2>8 DEF SlotInv
    <3>2. ASSUME NEW s \in Slots, c \in ToSet(pItems'[s])
          PROVE  /\ expire[c] - now \in Slots
                 /\ s = SlotAhead(llStartIdx', expire[c] - now)
      <4>1. c \in ToSet(pItems[s]) /\ c \notin T /\ c \in ToSet(items[s])
        BY <1>5, <2>6, <3>2
      <4>2. s \notin emptied
        BY <2>3, <4>1
      <4>3. k \in Slots /\ s = SlotAhead(llStartIdx, k)
        BY <3>1, <4>1
      <4>4. k \notin 0..cnt - 1
        BY <4>2, <4>3
      <4>5. /\ k - (cnt - 1) \in Slots /\ cnt = now - ullStart + 1
        BY <2>1, <4>3, <4>4, WheelAssumption DEF Slots
      <4>6. expire[c] \in Nat
        BY DEF TypeOK
      <4>7. k - (cnt - 1) = expire[c] - now
        BY <1>8, <4>5, <4>6
      <4>8. llStartIdx' + (k - (cnt - 1)) = llStartIdx + k
        <5>1. k \in Int /\ llStartIdx \in Int /\ cnt \in Int
          BY <1>8, <2>1, <2>2, <4>3, <4>5 DEF Slots
        <5> QED  BY <1>8, <2>1, <2>2, <5>1
      <4>9. SlotAhead(llStartIdx', k - (cnt - 1)) = SlotAhead(llStartIdx, k)
        BY <4>8 DEF SlotAhead
      <4> QED  BY <4>3, <4>5, <4>7, <4>9
    <3>3. ASSUME c \in T
          PROVE  expire[c] <= now
      <4>1. PICK s \in emptied : c \in ToSet(items[s])
        BY <2>3, <3>3
      <4>2. PICK i \in 0..cnt - 1 : s = SlotAhead(llStartIdx, i)
        BY <4>1
      <4>3. s \in Slots /\ c \in ToSet(pItems[s])
        BY <1>5, <2>3, <4>1
      <4>4. k \in Slots /\ s = SlotAhead(llStartIdx, k)
        BY <3>1, <4>3
      <4>5. i \in Slots
        BY <2>1, WheelAssumption DEF Slots
      <4>6. i = k
        BY <1>8, <4>2, <4>4, <4>5, SlotsAhead
      <4>7. expire[c] \in Nat
        BY DEF TypeOK
      <4> QED  BY <1>8, <2>1, <4>6, <4>7
    <3> QED  BY <3>2, <3>3
  <2>9. llStartIdx' \in Nat
    BY <1>8, <2>1, <2>2
  <2>10. T \subseteq Co /\ \A c \in T : InWheel(c) /\ c \notin P
    BY <2>4
  <2>11. ullStart' = now /\ bTimeout' = T
    BY <2>2
  <2> HIDE DEF T, timeout, emptied, cnt
  <2>12. TypeOK'
    BY <1>2, <1>3, <1>4, <2>5, <2>6, <2>9, <2>10, <2>11 DEF TypeOK, Wheel
  <2>13. OnlyWaitersLinked'
    BY <1>3, <1>4, <1>11, <2>7, <2>10, <2>11 DEF OnlyWaitersLinked
  <2>14. LinkInv'
    BY <1>3, <1>4, <1>11, <2>5, <2>6, <2>7, <2>10, <2>11 DEF LinkInv, Wheel
  <2>15. RoundInv' /\ (NoSignalLost => NoSignalLost')
    <3>1. raised \cap T = {}
      BY <2>10 DEF LinkInv
    <3> QED  BY <1>2, <1>3, <1>11, <2>7, <2>10, <2>11, <3>1
             DEF RoundInv, NoSignalLost
  <2>16. SlotInv'
    BY <1>2, <2>8, <2>11 DEF SlotInv
  <2> QED  BY <1>10, <2>12, <2>13, <2>14, <2>15, <2>16
<1> QED  BY <1>12, <1>13
-----------------------------------------------------------------------------
\* Every step of the loop and of the coroutines keeps the inductive
\* invariant, while an int holds the time the wheel has to catch up.
LEMMA LoopStep ==
  ASSUME LoopInv, ShortGap, [Next]_vars
  PROVE  LoopInv'
<1>1. CASE Tick \/ SetBack \/ \E f \in Fd : FdEvent(f)
  BY <1>1, EnvironmentStep
<1>2. CASE Signal \/ Broadcast
  <2>1. cond \in Seq(Co) /\ cond # <<>>
    BY <1>2 DEF Signal, Broadcast, LoopInv, TypeOK
  <2>2. 1 \in 0..Len(cond) /\ Len(cond) \in 0..Len(cond)
    BY <2>1
  <2>3. \E n \in 0..Len(cond) : Signalled(n)
    BY <1>2, <2>2 DEF Signal, Broadcast
  <2> QED  BY <1>2, <2>3, SignalledStep DEF Signal, Broadcast
<1>3. ASSUME NEW c \in Co, Resume(c) \/ Block(c)
      PROVE  LoopInv'
  BY <1>3, ResumeStep, YieldStep, CondWaitStep, PollStep DEF Block
<1>4. CASE Loop \/ LoopAgain
  BY <1>4, LoopPollStep, PutBackStep, LoopResumeStep, RoundsStep DEF Loop
<1>5. CASE UNCHANGED vars
  <2> USE <1>5 DEF vars, LoopInv, timeVars, wheelVars, waitVars, ioVars, loopVars
  <2>1. TypeOK' /\ StackInv'
    BY DEF TypeOK, StackInv
  <2>2. \A c : /\ InWheel(c)' = InWheel(c) /\ InActive(c)' = InActive(c)
               /\ InCond(c)' = InCond(c) /\ WasSignalled(c)' = WasSignalled(c)
    BY DEF InWheel, InActive, InCond, WasSignalled
  <2>3. OnlyWaitersLinked' /\ LinkInv' /\ RoundInv'
    BY <2>2 DEF OnlyWaitersLinked, LinkInv, RoundInv
  <2>4. EpollInv' /\ SlotInv' /\ (NoSignalLost <=> NoSignalLost')
    BY <2>2 DEF EpollInv, SlotInv, NoSignalLost
  <2> QED  BY <2>1, <2>3, <2>4
<1> QED  BY <1>1, <1>2, <1>3, <1>4, <1>5 DEF Next

\* The links of the timer items, the call stack, the registrations in epoll
\* and the slots of the wheel agree with what each coroutine waits for, in
\* every state that co_eventloop and the coroutines reach while ShortGap
\* holds.
THEOREM LoopInvariance == Spec /\ []ShortGap => []LoopInv
<1>1. Init => LoopInv
  BY InitLoopInv
<1>2. LoopInv /\ ShortGap /\ [Next]_vars => LoopInv'
  BY LoopStep
<1> QED  BY <1>1, <1>2, PTL DEF Spec

\* A coroutine that only a co_resume continues is in no link and in no
\* registration: co_eventloop never runs it behind the program's back.
THEOREM OnlyWaitersAreLinked == Spec /\ []ShortGap => []OnlyWaitersLinked
<1>1. LoopInv => OnlyWaitersLinked
  BY DEF LoopInv
<1> QED  BY <1>1, LoopInvariance, PTL

\* What co_cond_signal takes out of the queue is in the active list until it
\* runs, if condition waits keep within the span of the wheel.
THEOREM SignalsKept ==
  ASSUME ~LongCondWaits
  PROVE  Spec /\ []ShortGap => []NoSignalLost
<1>1. LoopInv => NoSignalLost
  BY DEF LoopInv
<1> QED  BY <1>1, LoopInvariance, PTL

\* The step of WokenForAReason, from the inductive invariant.
LEMMA WakeStep ==
  ASSUME LoopInv, [Next]_vars, NEW c \in Co,
         pCallStack = <<Main>>, phase = "process",
         wait[c] # "none", wait'[c] = "none"
  PROVE  WasSignalled(c) \/ c \in raised \/ expire[c] \in 1..loopNow
<1> USE LoopAssumption
<1>1. Curr = Main /\ ~UserCode
  BY DEF Curr, UserCode
<1>2. \A d \in Co : d # Curr
  BY <1>1
<1>3. LoopResume
  <2>1. CASE UNCHANGED wait
    BY <2>1
  <2>2. CASE Tick \/ SetBack \/ \E f \in Fd : FdEvent(f)
    BY <2>1, <2>2 DEF Tick, SetBack, FdEvent, waitVars
  <2>3. CASE Signal \/ Broadcast
    BY <1>1, <2>3 DEF Signal, Broadcast
  <2>4. ASSUME NEW d \in Co, Resume(d) \/ Block(d)
        PROVE  FALSE
    BY <1>1, <1>2, <2>4 DEF Resume, Block, Yield, CondWait, Poll
  <2>5. CASE LoopAgain \/ LoopCall \/ LoopPutBack \/ LoopPoll
    BY <2>1, <2>5 DEF LoopAgain, LoopCall, LoopPutBack, LoopPoll, waitVars
  <2>6. CASE UNCHANGED vars
    BY <2>1, <2>6 DEF vars, waitVars
  <2> QED  BY <2>2, <2>3, <2>4, <2>5, <2>6 DEF Next, Loop
<1> DEFINE h == Head(active)
<1>4. /\ active # <<>> /\ wait' = [wait EXCEPT ![h] = "none"]
      /\ h \in bTimeout /\ loopNow < expire[h] => Refused(expire[h], loopNow)
  BY <1>3 DEF LoopResume, Early, Awake
<1>5. h \in Co /\ InActive(h)
  BY <1>4, TailIs DEF LoopInv, TypeOK, InActive
<1> HIDE DEF h
<1>6. c = h
  BY <1>4 DEF LoopInv, TypeOK
<1>7. ASSUME h \in bTimeout
      PROVE  expire[h] \in 1..loopNow
  <2>1. /\ loopNow \in Nat /\ expire[h] \in Nat \ {0}
        /\ ullStart \in Nat \ {0} /\ loopNow = ullStart
    BY <1>5, <1>7 DEF LoopInv, TypeOK, LinkInv, RoundInv
  <2>2. Refused(expire[h], loopNow) => expire[h] < loopNow
    BY <2>1 DEF Refused, AddFails, StartAt
  <2> QED  BY <1>4, <1>7, <2>1, <2>2
<1> QED  BY <1>5, <1>6, <1>7 DEF LoopInv, RoundInv

\* The loop ends a wait only for its signal, its event or its time: none ends
\* early, and none is ended by what was meant for an earlier wait.
THEOREM WokenOnlyForAReason == Spec /\ []ShortGap => WokenForAReason
<1> DEFINE Woken ==
      \A c \in Co :
        /\ pCallStack = <<Main>> /\ phase = "process"
        /\ wait[c] # "none" /\ wait'[c] = "none"
        => WasSignalled(c) \/ c \in raised \/ expire[c] \in 1..loopNow
<1>1. LoopInv /\ [Next]_vars => [Woken]_vars
  BY WakeStep
<1>2. Spec /\ []ShortGap => [][Woken]_vars
  <2> HIDE DEF Woken
  <2> QED  BY <1>1, LoopInvariance, PTL DEF Spec
<1> QED  BY <1>2 DEF WokenForAReason

\* The step of EventReachesPoll, from the inductive invariant.
LEMMA EventStep ==
  ASSUME ~SharedFds, LoopInv, ShortGap, [Next]_vars, NEW c \in Co,
         phase = "wait", phase' = "process", fds[c] \cap ready # {}
  PROVE  c \in ToSet(active')
<1> USE LoopAssumption
<1>1. LoopPoll
  <2>1. phase' # phase
    OBVIOUS
  <2>2. CASE Tick \/ SetBack \/ \E f \in Fd : FdEvent(f)
    BY <2>1, <2>2 DEF Tick, SetBack, FdEvent, loopVars
  <2>3. CASE Signal \/ Broadcast
    BY <2>1, <2>3 DEF Signal, Broadcast, loopVars
  <2>4. ASSUME NEW d \in Co, Resume(d) \/ Block(d)
        PROVE  FALSE
    BY <2>1, <2>4 DEF Resume, Block, Yield, CondWait, Poll, loopVars
  <2>5. CASE LoopAgain \/ LoopCall \/ LoopPutBack \/ LoopResume
    BY <2>1, <2>5 DEF LoopAgain, LoopCall, LoopPutBack, LoopResume, loopVars
  <2>6. CASE UNCHANGED vars
    BY <2>1, <2>6 DEF vars, loopVars
  <2> QED  BY <2>2, <2>3, <2>4, <2>5, <2>6 DEF Next, Loop
<1>2. c \in Registered
  <2>1. PICK f \in fds[c] : f \in ready
    OBVIOUS
  <2>2. epollItem[f] = c
    BY DEF LoopInv, EpollInv
  <2> QED  BY <2>1, <2>2 DEF Registered
<1>3. PICK order \in SetToSeqs(Registered \ raised) :
        Round(order, StartAt(ullStart, now), IdxAt(ullStart, llStartIdx))
  BY <1>1 DEF LoopPoll
<1>4. active \o order \in Seq(Co) /\ c \in ToSet(active \o order)
  <2>1. Registered \ raised \in SUBSET Co
    BY <1>1, RegisteredIs DEF LoopPoll
  <2>2. order \in Seq(Co) /\ ToSet(order) = Registered \ raised
    BY <2>1, OrderIs
  <2>3. active \in Seq(Co) /\ (c \in raised => c \in ToSet(active))
    BY DEF LoopInv, TypeOK, LinkInv, InActive
  <2> QED  BY <1>2, <2>2, <2>3, ConcatIs
<1> DEFINE items == [s \in Slots |-> Without(pItems[s], ToSet(order))]
           cnt == TakeCount(ullStart, now)
           timeout == TakenFrom(items, llStartIdx, cnt)
<1>5. IF TakeFails(ullStart, now) THEN active' = active \o order
      ELSE active' = (active \o order) \o timeout
  <2>1. Round(order, ullStart, llStartIdx)
    BY <1>3, Started DEF LoopInv
  <2> QED  BY <2>1 DEF Round
<1>6. CASE ~TakeFails(ullStart, now)
  <2>1. now \in Nat /\ ullStart \in Nat /\ llStartIdx \in Nat
    BY DEF LoopInv, TypeOK
  <2>2. cnt \in 1..iItemSize
    BY <1>6, <2>1, TakeFacts DEF ShortGap
  <2>3. \A s \in Slots : Without(pItems[s], ToSet(order)) \in Seq(Co)
    BY WithoutIs DEF LoopInv, TypeOK
  <2>4. items \in [Slots -> Seq(Co)]
    BY <2>3
  <2> HIDE DEF items, cnt
  <2>5. timeout \in Seq(Co)
    BY <2>1, <2>2, <2>4, TakenIs
  <2> HIDE DEF timeout
  <2>6. ToSet((active \o order) \o timeout)
          = ToSet(active \o order) \cup ToSet(timeout)
    <3> DEFINE prepared == active \o order
    <3>1. prepared \in Seq(Co)
      BY <1>4
    <3> HIDE DEF prepared
    <3>2. ToSet(prepared \o timeout) = ToSet(prepared) \cup ToSet(timeout)
      BY <2>5, <3>1, ConcatIs
    <3> QED  BY <3>2 DEF prepared
  <2> QED  BY <1>4, <1>5, <1>6, <2>6
<1> QED  BY <1>4, <1>5, <1>6

\* Every poll with a ready descriptor gets into the active list of the round,
\* if polls do not share descriptors.
THEOREM EventsReachPolls ==
  ASSUME ~SharedFds
  PROVE  Spec /\ []ShortGap => EventReachesPoll
<1> DEFINE Reached ==
      \A c \in Co :
        /\ phase = "wait" /\ phase' = "process"
        /\ fds[c] \cap ready # {}
        => c \in ToSet(active')
<1>1. LoopInv /\ ShortGap /\ [Next]_vars => [Reached]_vars
  BY EventStep
<1>2. Spec /\ []ShortGap => [][Reached]_vars
  <2> HIDE DEF Reached
  <2> QED  BY <1>1, LoopInvariance, PTL DEF Spec
<1> QED  BY <1>2 DEF EventReachesPoll
=============================================================================
