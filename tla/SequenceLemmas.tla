--------------------------- MODULE SequenceLemmas ---------------------------
(***************************************************************************)
(* Lemmas about numbers, functions defined by recursion and the sequences  *)
(* of other modules.  The induction theorems of the library take a         *)
(* predicate as a parameter; NatInd takes the set of the numbers that have *)
(* it, which is what every prover can be given.                            *)
(***************************************************************************)
EXTENDS Integers, SequencesExt, WellFoundedInduction, TLAPS

\* A set of natural numbers has a least one.
LEMMA NatLeast ==
  ASSUME NEW S \in SUBSET Nat, S # {}
  PROVE  \E x \in S : \A y \in S : x <= y
<1> DEFINE R == {ss \in Nat \X Nat : ss[1] < ss[2]}
<1>1. OpToRel(<, Nat) = R
  BY DEF OpToRel
<1>2. IsWellFoundedOn(R, Nat)
  BY <1>1, NatLessThanWellFounded
<1>3. PICK x \in S : \A y \in S : <<y, x>> \notin R
  <2> HIDE DEF R
  <2> QED  BY <1>2, WFMin
<1>4. ASSUME NEW y \in S
      PROVE  x <= y
  <2>1. x \in Nat /\ y \in Nat
    OBVIOUS
  <2>2. ~(y < x)
    BY <1>3, <2>1
  <2> QED  BY <2>1, <2>2
<1> QED  BY <1>4

\* Induction: a set with 0, and with n + 1 for each of its n, has every number.
LEMMA NatInd ==
  ASSUME NEW S, 0 \in S, \A n \in Nat : n \in S => n + 1 \in S
  PROVE  Nat \subseteq S
<1> SUFFICES ASSUME Nat \ S # {}
             PROVE  FALSE
  OBVIOUS
<1>1. PICK x \in Nat \ S : \A y \in Nat \ S : x <= y
  BY NatLeast
<1>2. x # 0 /\ x - 1 \in Nat /\ x - 1 \in S
  BY <1>1
<1> QED  BY <1>2, (x - 1) + 1 = x

\* f is defined by recursion on 0..N: the step is a function of the number and
\* of the value before.
Recursion(f, N, V, first, step) ==
  /\ f \in [0..N -> V]
  /\ f[0] = first
  /\ \A n \in 1..N : f[n] = step[n][f[n - 1]]

\* Such a function exists.
LEMMA RecursionExists ==
  ASSUME NEW N \in Nat, NEW V, NEW first \in V, NEW G \in [1..N -> [V -> V]]
  PROVE  \E f : Recursion(f, N, V, first, G)
<1> DEFINE Upto(m) == \E f \in [0..m -> V] :
              f[0] = first /\ \A n \in 1..m : f[n] = G[n][f[n - 1]]
           S == {m \in Nat : m <= N => Upto(m)}
<1>1. 0 \in S
  <2> DEFINE f == [n \in 0..0 |-> first]
  <2>1. f \in [0..0 -> V] /\ f[0] = first
    OBVIOUS
  <2>2. \A n \in 1..0 : f[n] = G[n][f[n - 1]]
    OBVIOUS
  <2> HIDE DEF f
  <2>3. Upto(0)
    BY <2>1, <2>2
  <2> QED  BY <2>3
<1>2. ASSUME NEW m \in Nat, m \in S
      PROVE  m + 1 \in S
  <2> SUFFICES ASSUME m + 1 <= N
               PROVE  Upto(m + 1)
    OBVIOUS
  <2>1. PICK f \in [0..m -> V] :
          f[0] = first /\ \A n \in 1..m : f[n] = G[n][f[n - 1]]
    BY <1>2
  <2> DEFINE g == [n \in 0..m + 1 |-> IF n <= m THEN f[n] ELSE G[m + 1][f[m]]]
  <2>2. G[m + 1][f[m]] \in V
    OBVIOUS
  <2>3. g \in [0..m + 1 -> V]
    BY <2>2
  <2>4. g[0] = first
    BY <2>1
  <2>5. ASSUME NEW n \in 1..m + 1
        PROVE  g[n] = G[n][g[n - 1]]
    <3>1. CASE n <= m
      BY <3>1, <2>1
    <3>2. CASE n = m + 1
      BY <3>2
    <3> QED  BY <3>1, <3>2
  <2> HIDE DEF g
  <2> QED  BY <2>3, <2>4, <2>5
<1> HIDE DEF Upto
<1>3. Nat \subseteq S
  BY <1>1, <1>2, NatInd
<1>4. Upto(N)
  BY <1>3
<1> QED  BY <1>4 DEF Upto, Recursion
-----------------------------------------------------------------------------
\* The set of the elements of a sequence, and whether it has none twice, after
\* what the modules do to sequences.
LEMMA EmptyIs ==
  ToSet(<<>>) = {} /\ IsInjective(<<>>)
BY DEF ToSet, IsInjective

\* The elements of a sequence over a set are members of that set.
LEMMA ElementsType ==
  ASSUME NEW S, NEW s \in Seq(S)
  PROVE  ToSet(s) \subseteq S
BY DEF ToSet

\* Append adds one element, and keeps a sequence without repetitions so if
\* the element is new to it.
LEMMA AppendIs ==
  ASSUME NEW S, NEW s \in Seq(S), NEW e \in S
  PROVE  /\ Append(s, e) \in Seq(S)
         /\ ToSet(Append(s, e)) = ToSet(s) \cup {e}
         /\ IsInjective(s) /\ e \notin ToSet(s) => IsInjective(Append(s, e))
<1> DEFINE t == Append(s, e)
<1>1. /\ t \in Seq(S) /\ Len(t) = Len(s) + 1 /\ t[Len(t)] = e
      /\ \A i \in 1..Len(s) : t[i] = s[i]
      /\ Len(s) \in Nat /\ DOMAIN s = 1..Len(s) /\ DOMAIN t = 1..Len(t)
  OBVIOUS
<1> HIDE DEF t
<1>2. ToSet(t) = ToSet(s) \cup {e}
  <2>1. \A x \in ToSet(t) : x \in ToSet(s) \cup {e}
    BY <1>1 DEF ToSet
  <2>2. \A x \in ToSet(s) : x \in ToSet(t)
    BY <1>1 DEF ToSet
  <2>3. e \in ToSet(t)
    BY <1>1 DEF ToSet
  <2> QED  BY <2>1, <2>2, <2>3
<1>3. ASSUME IsInjective(s), e \notin ToSet(s)
      PROVE  IsInjective(t)
  BY <1>1, <1>3 DEF ToSet, IsInjective
<1> QED  BY <1>1, <1>2, <1>3 DEF t

\* The length of a concatenation, and which element is at which place.
LEMMA ConcatAt ==
  ASSUME NEW S, NEW s \in Seq(S), NEW t \in Seq(S)
  PROVE  /\ Len(s \o t) = Len(s) + Len(t)
         /\ \A i \in 1..Len(s) : (s \o t)[i] = s[i]
         /\ \A i \in Len(s) + 1..Len(s) + Len(t) :
              (s \o t)[i] = t[i - Len(s)]
OBVIOUS

\* A concatenation of two sequences of one element: the two filters that an
\* epoll event with EPOLLIN and EPOLLOUT asks kqueue for.
LEMMA OneAndOne ==
  ASSUME NEW S, NEW s \in Seq(S), NEW t \in Seq(S), Len(s) = 1, Len(t) = 1
  PROVE  Len(s \o t) = 2 /\ (s \o t)[1] = s[1] /\ (s \o t)[2] = t[1]
<1> DEFINE u == s \o t
           m == Len(s)
           n == Len(t)
<1>1. /\ Len(u) = m + n
      /\ \A i \in 1..m : u[i] = s[i]
      /\ \A i \in m + 1..m + n : u[i] = t[i - m]
  BY ConcatAt
<1>2. m = 1 /\ n = 1
  OBVIOUS
<1> HIDE DEF u, m, n
<1> QED  BY <1>1, <1>2 DEF u

\* A concatenation has the elements of both parts, and none twice if neither
\* part has and they have none in common: Join of two lists.
LEMMA ConcatIs ==
  ASSUME NEW S, NEW s \in Seq(S), NEW t \in Seq(S)
  PROVE  /\ s \o t \in Seq(S)
         /\ ToSet(s \o t) = ToSet(s) \cup ToSet(t)
         /\ IsInjective(s) /\ IsInjective(t) /\ ToSet(s) \cap ToSet(t) = {}
              => IsInjective(s \o t)
<1> DEFINE u == s \o t
<1>1. /\ u \in Seq(S) /\ Len(u) = Len(s) + Len(t)
      /\ \A i \in 1..Len(s) : u[i] = s[i]
      /\ \A i \in Len(s) + 1..Len(u) : u[i] = t[i - Len(s)]
      /\ Len(s) \in Nat /\ DOMAIN s = 1..Len(s) /\ DOMAIN u = 1..Len(u)
      /\ Len(t) \in Nat /\ DOMAIN t = 1..Len(t)
  OBVIOUS
<1>2. \A i \in 1..Len(t) : u[Len(s) + i] = t[i]
  BY <1>1
<1> HIDE DEF u
<1>3. ToSet(u) = ToSet(s) \cup ToSet(t)
  <2>1. ASSUME NEW x \in ToSet(u)
        PROVE  x \in ToSet(s) \cup ToSet(t)
    <3>1. PICK i \in 1..Len(u) : u[i] = x
      BY <1>1 DEF ToSet
    <3>2. CASE i \in 1..Len(s)
      BY <1>1, <3>1, <3>2 DEF ToSet
    <3>3. CASE i \in Len(s) + 1..Len(u)
      <4>1. i - Len(s) \in 1..Len(t) /\ t[i - Len(s)] = x
        BY <1>1, <3>1, <3>3
      <4> QED  BY <4>1, <1>1 DEF ToSet
    <3> QED  BY <1>1, <3>2, <3>3
  <2>2. \A x \in ToSet(s) : x \in ToSet(u)
    BY <1>1 DEF ToSet
  <2>3. ASSUME NEW x \in ToSet(t)
        PROVE  x \in ToSet(u)
    <3>1. PICK i \in 1..Len(t) : t[i] = x
      BY <1>1 DEF ToSet
    <3>2. Len(s) + i \in 1..Len(u) /\ u[Len(s) + i] = x
      BY <1>1, <1>2, <3>1
    <3> QED  BY <1>1, <3>2 DEF ToSet
  <2> QED  BY <2>1, <2>2, <2>3
<1>4. ASSUME IsInjective(s), IsInjective(t), ToSet(s) \cap ToSet(t) = {}
      PROVE  IsInjective(u)
  <2> SUFFICES ASSUME NEW i \in 1..Len(u), NEW j \in 1..Len(u), u[i] = u[j]
               PROVE  i = j
    BY <1>1 DEF IsInjective
  <2>1. CASE i \in 1..Len(s) /\ j \in 1..Len(s)
    <3>1. s[i] = s[j]
      BY <1>1, <2>1
    <3> QED  BY <1>1, <1>4, <2>1, <3>1 DEF IsInjective
  <2>2. CASE i > Len(s) /\ j > Len(s)
    <3>1. i - Len(s) \in 1..Len(t) /\ j - Len(s) \in 1..Len(t)
      BY <1>1, <2>2
    <3>2. t[i - Len(s)] = t[j - Len(s)]
      BY <1>1, <2>2
    <3>3. i - Len(s) = j - Len(s)
      BY <1>1, <1>4, <3>1, <3>2 DEF IsInjective
    <3> QED  BY <1>1, <3>3
  <2>3. ASSUME NEW k \in 1..Len(s), NEW m \in Len(s) + 1..Len(u)
        PROVE  u[k] # u[m]
    <3>1. m - Len(s) \in 1..Len(t) /\ u[m] = t[m - Len(s)] /\ u[k] = s[k]
      BY <1>1
    <3>2. u[m] \in ToSet(t) /\ u[k] \in ToSet(s)
      BY <1>1, <3>1 DEF ToSet
    <3> QED  BY <1>4, <3>2
  <2>4. \/ i \in 1..Len(s) /\ j \in 1..Len(s)
        \/ i > Len(s) /\ j > Len(s)
        \/ i \in 1..Len(s) /\ j \in Len(s) + 1..Len(u)
        \/ j \in 1..Len(s) /\ i \in Len(s) + 1..Len(u)
    BY <1>1
  <2> QED  BY <2>1, <2>2, <2>3, <2>4
<1> QED  BY <1>1, <1>3, <1>4 DEF u

\* A sequence in two parts.
LEMMA SplitIs ==
  ASSUME NEW S, NEW s \in Seq(S), NEW n \in 0..Len(s)
  PROVE  LET a == SubSeq(s, 1, n)
             b == SubSeq(s, n + 1, Len(s))
         IN  /\ a \in Seq(S) /\ b \in Seq(S)
             /\ ToSet(s) = ToSet(a) \cup ToSet(b)
             /\ IsInjective(s) => /\ IsInjective(a) /\ IsInjective(b)
                                  /\ ToSet(a) \cap ToSet(b) = {}
<1> DEFINE a == SubSeq(s, 1, n)
           b == SubSeq(s, n + 1, Len(s))
<1>1. /\ Len(s) \in Nat /\ DOMAIN s = 1..Len(s)
      /\ a \in Seq(S) /\ Len(a) = n /\ DOMAIN a = 1..n
      /\ \A i \in 1..n : a[i] = s[i]
      /\ b \in Seq(S) /\ Len(b) = Len(s) - n /\ DOMAIN b = 1..Len(s) - n
      /\ \A i \in 1..Len(s) - n : b[i] = s[n + i]
  OBVIOUS
<1> HIDE DEF a, b
<1>2. ToSet(s) = ToSet(a) \cup ToSet(b)
  <2>1. ASSUME NEW x \in ToSet(s)
        PROVE  x \in ToSet(a) \cup ToSet(b)
    <3>1. PICK i \in 1..Len(s) : s[i] = x
      BY <1>1 DEF ToSet
    <3>2. CASE i <= n
      <4>1. i \in 1..n /\ a[i] = x
        BY <1>1, <3>1, <3>2
      <4> QED  BY <4>1, <1>1 DEF ToSet
    <3>3. CASE i > n
      <4>1. i - n \in 1..Len(s) - n /\ b[i - n] = x
        BY <1>1, <3>1, <3>3
      <4> QED  BY <4>1, <1>1 DEF ToSet
    <3> QED  BY <3>1, <3>2, <3>3
  <2>2. ASSUME NEW x \in ToSet(a)
        PROVE  x \in ToSet(s)
    <3>1. PICK i \in 1..n : a[i] = x
      BY <1>1 DEF ToSet
    <3>2. i \in 1..Len(s) /\ s[i] = x
      BY <1>1, <3>1
    <3> QED  BY <1>1, <3>2 DEF ToSet
  <2>3. ASSUME NEW x \in ToSet(b)
        PROVE  x \in ToSet(s)
    <3>1. PICK i \in 1..Len(s) - n : b[i] = x
      BY <1>1 DEF ToSet
    <3>2. n + i \in 1..Len(s)
      BY <1>1
    <3>3. s[n + i] = x
      BY <1>1, <3>1
    <3> QED  BY <1>1, <3>2, <3>3 DEF ToSet
  <2> QED  BY <2>1, <2>2, <2>3
<1>3. ASSUME IsInjective(s)
      PROVE  /\ IsInjective(a) /\ IsInjective(b)
             /\ ToSet(a) \cap ToSet(b) = {}
  <2>1. IsInjective(a)
    BY <1>1, <1>3 DEF IsInjective
  <2>2. IsInjective(b)
    <3> SUFFICES ASSUME NEW i \in 1..Len(s) - n, NEW j \in 1..Len(s) - n,
                        b[i] = b[j]
                 PROVE  i = j
      BY <1>1 DEF IsInjective
    <3>1. n + i \in 1..Len(s) /\ n + j \in 1..Len(s) /\ s[n + i] = s[n + j]
      BY <1>1
    <3>2. n + i = n + j
      BY <1>1, <1>3, <3>1 DEF IsInjective
    <3> QED  BY <3>2
  <2>3. ToSet(a) \cap ToSet(b) = {}
    <3> SUFFICES ASSUME NEW i \in 1..n, NEW j \in 1..Len(s) - n, a[i] = b[j]
                 PROVE  FALSE
      BY <1>1 DEF ToSet
    <3>1. i \in 1..Len(s) /\ n + j \in 1..Len(s) /\ s[i] = s[n + j]
      BY <1>1
    <3>2. i = n + j
      BY <1>1, <1>3, <3>1 DEF IsInjective
    <3> QED  BY <3>2
  <2> QED  BY <2>1, <2>2, <2>3
<1> QED  BY <1>1, <1>2, <1>3 DEF a, b

\* What PopHead leaves: all elements but the head, which does not occur again.
LEMMA TailIs ==
  ASSUME NEW S, NEW s \in Seq(S), s # <<>>
  PROVE  /\ Head(s) \in S /\ Tail(s) \in Seq(S)
         /\ ToSet(s) = {Head(s)} \cup ToSet(Tail(s))
         /\ IsInjective(s) => /\ IsInjective(Tail(s))
                              /\ Head(s) \notin ToSet(Tail(s))
<1> DEFINE t == Tail(s)
<1>1. /\ Len(s) \in Nat \ {0} /\ DOMAIN s = 1..Len(s)
      /\ t \in Seq(S) /\ Len(t) = Len(s) - 1 /\ DOMAIN t = 1..Len(s) - 1
      /\ \A i \in 1..Len(s) - 1 : t[i] = s[i + 1]
      /\ Head(s) = s[1] /\ s[1] \in S
  OBVIOUS
<1> HIDE DEF t
<1>2. ToSet(s) = {s[1]} \cup ToSet(t)
  <2>1. ASSUME NEW x \in ToSet(s)
        PROVE  x \in {s[1]} \cup ToSet(t)
    <3>1. PICK i \in 1..Len(s) : s[i] = x
      BY <1>1 DEF ToSet
    <3>2. CASE i > 1
      <4>1. i - 1 \in 1..Len(s) - 1 /\ t[i - 1] = x
        BY <1>1, <3>1, <3>2
      <4> QED  BY <4>1, <1>1 DEF ToSet
    <3> QED  BY <3>1, <3>2
  <2>2. \A x \in {s[1]} \cup ToSet(t) : x \in ToSet(s)
    BY <1>1 DEF ToSet
  <2> QED  BY <2>1, <2>2
<1>3. ASSUME IsInjective(s)
      PROVE  IsInjective(t) /\ s[1] \notin ToSet(t)
  <2>1. ASSUME NEW i \in 1..Len(s) - 1, NEW j \in 1..Len(s) - 1, t[i] = t[j]
        PROVE  i = j
    <3>1. i + 1 \in 1..Len(s) /\ j + 1 \in 1..Len(s) /\ s[i + 1] = s[j + 1]
      BY <1>1, <2>1
    <3>2. i + 1 = j + 1
      BY <1>1, <1>3, <3>1 DEF IsInjective
    <3> QED  BY <3>2
  <2>2. ASSUME NEW i \in 1..Len(s) - 1, t[i] = s[1]
        PROVE  FALSE
    <3>1. i + 1 \in 1..Len(s) /\ 1 \in 1..Len(s) /\ s[i + 1] = s[1]
      BY <1>1, <2>2
    <3>2. i + 1 = 1
      BY <1>1, <1>3, <3>1 DEF IsInjective
    <3> QED  BY <3>2
  <2> QED  BY <1>1, <2>1, <2>2 DEF IsInjective, ToSet
<1> QED  BY <1>1, <1>2, <1>3 DEF t

\* What taking off the last element leaves, as the end of a frame does.
LEMMA FrontIs ==
  ASSUME NEW S, NEW s \in Seq(S), s # <<>>
  PROVE  /\ Last(s) \in S /\ Front(s) \in Seq(S)
         /\ Len(Front(s)) = Len(s) - 1
         /\ \A i \in 1..Len(s) - 1 : Front(s)[i] = s[i]
         /\ ToSet(s) = {Last(s)} \cup ToSet(Front(s))
         /\ IsInjective(s) => /\ IsInjective(Front(s))
                              /\ Last(s) \notin ToSet(Front(s))
<1> DEFINE t == Front(s)
<1>1. /\ Len(s) \in Nat \ {0} /\ DOMAIN s = 1..Len(s)
      /\ t \in Seq(S) /\ Len(t) = Len(s) - 1 /\ DOMAIN t = 1..Len(s) - 1
      /\ \A i \in 1..Len(s) - 1 : t[i] = s[i]
      /\ Last(s) = s[Len(s)] /\ s[Len(s)] \in S
  <2>1. Len(s) \in Nat \ {0} /\ DOMAIN s = 1..Len(s) /\ s[Len(s)] \in S
    OBVIOUS
  <2>2. \A i \in 1..Len(s) - 1 : s[i] \in S
    BY <2>1
  <2>3. /\ t \in Seq(S) /\ Len(t) = Len(s) - 1
        /\ \A i \in 1..Len(s) - 1 : t[i] = s[i]
    BY <2>1, <2>2 DEF Front
  <2>4. DOMAIN t = 1..Len(s) - 1
    BY <2>1, <2>3
  <2> QED  BY <2>1, <2>3, <2>4 DEF Last
<1> HIDE DEF t
<1>2. ToSet(s) = {Last(s)} \cup ToSet(t)
  <2>1. \A x \in ToSet(s) : x \in {Last(s)} \cup ToSet(t)
    BY <1>1 DEF ToSet
  <2>2. \A x \in {Last(s)} \cup ToSet(t) : x \in ToSet(s)
    BY <1>1 DEF ToSet
  <2> QED  BY <2>1, <2>2
<1>3. ASSUME IsInjective(s)
      PROVE  IsInjective(t) /\ Last(s) \notin ToSet(t)
  BY <1>1, <1>3 DEF IsInjective, ToSet
<1> QED  BY <1>1, <1>2, <1>3 DEF t

\* The sequences of a sequence, joined.
LEMMA FlattenIs ==
  ASSUME NEW S, NEW q \in Seq(Seq(S))
  PROVE  /\ FlattenSeq(q) \in Seq(S)
         /\ ToSet(FlattenSeq(q)) = UNION {ToSet(q[i]) : i \in 1..Len(q)}
         /\ /\ \A i \in 1..Len(q) : IsInjective(q[i])
            /\ \A i, j \in 1..Len(q) :
                 i # j => ToSet(q[i]) \cap ToSet(q[j]) = {}
            => IsInjective(FlattenSeq(q))
<1> DEFINE N == Len(q)
           Flat(f) == [i \in 1..N |-> IF i = 1 THEN q[i] ELSE f[i - 1] \o q[i]]
           w == CHOOSE f : f = Flat(f)
           G == [n \in 1..N |-> [v \in Seq(S) |-> v \o q[n]]]
           Apart == /\ \A i \in 1..N : IsInjective(q[i])
                    /\ \A i, j \in 1..N :
                         i # j => ToSet(q[i]) \cap ToSet(q[j]) = {}
<1>1. N \in Nat /\ \A i \in 1..N : q[i] \in Seq(S)
  OBVIOUS
<1>2. CASE N = 0
  <2>1. q = <<>> /\ FlattenSeq(q) = q /\ <<>> \in Seq(S)
    BY <1>2 DEF FlattenSeq
  <2>2. {ToSet(q[i]) : i \in 1..Len(q)} = {}
    BY <1>2
  <2>3. FlattenSeq(q) = <<>>
    BY <2>1
  <2> QED  BY <2>1, <2>2, <2>3, EmptyIs
<1>3. CASE N # 0
  <2>1. G \in [1..N -> [Seq(S) -> Seq(S)]] /\ <<>> \in Seq(S)
    BY <1>1
  <2>2. PICK g : Recursion(g, N, Seq(S), <<>>, G)
    <3> HIDE DEF G, N
    <3> QED  BY <1>1, <2>1, RecursionExists
  <2> DEFINE h == [i \in 1..N |-> g[i]]
  <2>3. h = Flat(h)
    <3>1. ASSUME NEW i \in 1..N
          PROVE  h[i] = Flat(h)[i]
      <4>0. /\ g[0] = <<>> /\ g[i - 1] \in Seq(S)
            /\ g[i] = G[i][g[i - 1]]
        <5> HIDE DEF G
        <5>1. i - 1 \in 0..N
          BY <1>1
        <5> HIDE DEF N, Flat, w, h
        <5> QED  BY <2>2, <5>1 DEF Recursion
      <4>1. g[i] = g[i - 1] \o q[i]
        <5> HIDE DEF N, Flat, w, h
        <5> QED  BY <4>0
      <4>2. CASE i = 1
        <5>1. g[1] = <<>> \o q[1]
          <6>1. i - 1 = 0
            BY <4>2
          <6> HIDE DEF G, N, Flat, w, h
          <6> QED  BY <4>0, <4>1, <4>2, <6>1
        <5>2. <<>> \o q[1] = q[1]
          BY <1>1, <4>2
        <5> QED  BY <4>2, <5>1, <5>2
      <4>3. CASE i # 1
        <5>1. i - 1 \in 1..N
          BY <1>1, <4>3
        <5> QED  BY <4>1, <4>3, <5>1
      <4> QED  BY <4>2, <4>3
    <3> HIDE DEF N
    <3> QED  BY <3>1
  <2>4. w = Flat(w)
    <3> HIDE DEF Flat, h
    <3> QED  BY <2>3
  <2>5. FlattenSeq(q) = w[N]
    BY <1>3 DEF FlattenSeq
  <2> HIDE DEF w, G
  <2> DEFINE Good(n) ==
        /\ w[n] \in Seq(S)
        /\ ToSet(w[n]) = UNION {ToSet(q[i]) : i \in 1..n}
        /\ Apart => IsInjective(w[n])
  <2>6. Good(1)
    <3>1. w[1] = q[1] /\ 1 \in 1..N
      BY <1>1, <1>3, <2>4
    <3>2. UNION {ToSet(q[i]) : i \in 1..1} = ToSet(q[1])
      OBVIOUS
    <3> QED  BY <1>1, <3>1, <3>2
  <2>7. ASSUME NEW n \in Nat \ {0}, n < N, Good(n)
        PROVE  Good(n + 1)
    <3>1. n + 1 \in 1..N /\ n + 1 # 1 /\ (n + 1) - 1 = n /\ q[n + 1] \in Seq(S)
      <4>1. N \in Nat
        BY <1>1
      <4> HIDE DEF N
      <4>2. n + 1 \in 1..N /\ n + 1 # 1 /\ (n + 1) - 1 = n
        BY <4>1, <2>7
      <4> QED  BY <1>1, <4>2
    <3>2. w[n + 1] = w[n] \o q[n + 1]
      <4>1. w[n + 1] = Flat(w)[n + 1]
        BY <2>4
      <4> QED  BY <3>1, <4>1
    <3>3. UNION {ToSet(q[i]) : i \in 1..n + 1}
            = (UNION {ToSet(q[i]) : i \in 1..n}) \cup ToSet(q[n + 1])
      <4>1. 1..n + 1 = 1..n \cup {n + 1}
        OBVIOUS
      <4> QED  BY <4>1
    <3>4. /\ w[n + 1] \in Seq(S)
          /\ ToSet(w[n + 1]) = ToSet(w[n]) \cup ToSet(q[n + 1])
          /\ /\ IsInjective(w[n]) /\ IsInjective(q[n + 1])
             /\ ToSet(w[n]) \cap ToSet(q[n + 1]) = {}
             => IsInjective(w[n + 1])
      <4> DEFINE u == w[n]
                 t == q[n + 1]
      <4>1. u \in Seq(S) /\ t \in Seq(S) /\ w[n + 1] = u \o t
        BY <2>7, <3>1, <3>2
      <4> HIDE DEF u, t
      <4>2. /\ u \o t \in Seq(S)
            /\ ToSet(u \o t) = ToSet(u) \cup ToSet(t)
            /\ IsInjective(u) /\ IsInjective(t) /\ ToSet(u) \cap ToSet(t) = {}
                 => IsInjective(u \o t)
        BY <4>1, ConcatIs
      <4> QED  BY <4>1, <4>2 DEF u, t
    <3>5. Apart => /\ IsInjective(q[n + 1])
                   /\ ToSet(w[n]) \cap ToSet(q[n + 1]) = {}
      <4> SUFFICES ASSUME Apart
                   PROVE  /\ IsInjective(q[n + 1])
                          /\ ToSet(w[n]) \cap ToSet(q[n + 1]) = {}
        OBVIOUS
      <4>1. \A i \in 1..n : i \in 1..N /\ i # n + 1
        BY <1>1, <2>7
      <4>2. \A i \in 1..n : ToSet(q[i]) \cap ToSet(q[n + 1]) = {}
        BY <3>1, <4>1
      <4>3. ASSUME NEW x \in ToSet(w[n])
            PROVE  x \notin ToSet(q[n + 1])
        <5>1. PICK i \in 1..n : x \in ToSet(q[i])
          BY <2>7, <4>3
        <5> QED  BY <4>2, <5>1
      <4> QED  BY <3>1, <4>3
    <3> HIDE DEF Apart
    <3> QED  BY <2>7, <3>3, <3>4, <3>5
  <2> DEFINE Upto == {n \in Nat : n < N => Good(n + 1)}
  <2>8. Nat \subseteq Upto
    <3> HIDE DEF Good
    <3>1. 0 \in Upto
      BY <2>6
    <3>2. ASSUME NEW n \in Nat, n \in Upto
          PROVE  n + 1 \in Upto
      <4> SUFFICES ASSUME n + 1 < N PROVE Good((n + 1) + 1)
        OBVIOUS
      <4>1. n < N /\ Good(n + 1) /\ n + 1 \in Nat \ {0}
        BY <1>1, <3>2
      <4> QED  BY <2>7, <4>1
    <3> HIDE DEF Upto
    <3> QED  BY <3>1, <3>2, NatInd
  <2>9. Good(N)
    <3> HIDE DEF Good
    <3>1. N - 1 \in Nat /\ N - 1 < N /\ (N - 1) + 1 = N
      BY <1>1, <1>3
    <3>2. N - 1 \in Upto
      BY <3>1, <2>8
    <3>3. Good((N - 1) + 1)
      BY <3>1, <3>2
    <3> QED  BY <3>1, <3>3
  <2> QED  BY <2>5, <2>9
<1> QED  BY <1>2, <1>3
-----------------------------------------------------------------------------
\* Numbers less than n apart have the same remainder only if they are equal.
LEMMA SameRemainder ==
  ASSUME NEW n \in Nat \ {0}, NEW x \in Int, NEW y \in Int,
         (x % n) = (y % n), x <= y, y < x + n
  PROVE  x = y
<1> DEFINE d == (y \div n) - (x \div n)
<1>1. x = (n * (x \div n)) + (x % n) /\ (x \div n) \in Int
  OBVIOUS
<1>2. y = (n * (y \div n)) + (y % n) /\ (y \div n) \in Int
  OBVIOUS
<1>3. d \in Int /\ y - x = n * d
  BY <1>1, <1>2
<1> HIDE DEF d
<1>4. d >= 1 => n * d >= n
  BY <1>3
<1>5. d <= -1 => n * d <= -n
  BY <1>3
<1> QED  BY <1>3, <1>4, <1>5
=============================================================================
