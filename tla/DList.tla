------------------------------- MODULE DList --------------------------------
(***************************************************************************)
(* The intrusive doubly linked lists of co_routine.cpp, pointer by         *)
(* pointer: RemoveFromLink, AddTail, PopHead and Join, which the time      *)
(* wheel, the active list and the condition variables are made of.  The    *)
(* other modules take them for the sequences of LinkSeqs.                  *)
(***************************************************************************)
EXTENDS Naturals, Sequences, FiniteSets

CONSTANTS
  Items,                 (* the items, stTimeoutItem_t or stCoCondItem_t   *)
  Links,                 (* the lists                                      *)
  Null                   (* the null pointer                               *)

ASSUME DListAssumption ==
  Null \notin Items /\ Null \notin Links /\ IsFiniteSet(Items)

VARIABLES
  pPrev, pNext, pLink,   (* the pointers of an item                        *)
  head, tail             (* the pointers of a list                         *)

dlistVars == <<pPrev, pNext, pLink, head, tail>>

DListTypeOK ==
  /\ pPrev \in [Items -> Items \cup {Null}]
  /\ pNext \in [Items -> Items \cup {Null}]
  /\ pLink \in [Items -> Links \cup {Null}]
  /\ head \in [Links -> Items \cup {Null}]
  /\ tail \in [Links -> Items \cup {Null}]

\* f with f[x] = v, where x may be the null pointer, which the code tests.
Set(f, x, v) == [y \in DOMAIN f |-> IF y = x THEN v ELSE f[y]]

DListInit ==
  /\ pPrev = [i \in Items |-> Null] /\ pNext = [i \in Items |-> Null]
  /\ pLink = [i \in Items |-> Null]
  /\ head = [l \in Links |-> Null] /\ tail = [l \in Links |-> Null]

\* Mutant: the item after ap keeps its pointer back.
UnlinkedBackNot(ap) == Set(pPrev, ap, Null)

\* The item before ap now points to the one after it, and back.
Unlinked(ap) == Set(Set(pNext, pPrev[ap], pNext[ap]), ap, Null)
UnlinkedBack(ap) == Set(Set(pPrev, pNext[ap], pPrev[ap]), ap, Null)

RemoveFromLink(ap) ==
  LET lst == pLink[ap]
  IN  /\ lst # Null
      /\ head' = IF ap # head[lst] THEN head
                 ELSE [head EXCEPT ![lst] = pNext[ap]]
      /\ tail' = IF ap # tail[lst] THEN tail
                 ELSE [tail EXCEPT ![lst] = pPrev[ap]]
      /\ pNext' = Unlinked(ap)
      /\ pPrev' = UnlinkedBack(ap)
      /\ pLink' = [pLink EXCEPT ![ap] = Null]

AddTail(apLink, ap) ==
  /\ pLink[ap] = Null
  /\ head' = IF tail[apLink] = Null THEN [head EXCEPT ![apLink] = ap] ELSE head
  /\ pNext' = Set(Set(pNext, tail[apLink], ap), ap, Null)
  /\ pPrev' = [pPrev EXCEPT ![ap] = tail[apLink]]
  /\ tail' = [tail EXCEPT ![apLink] = ap]
  /\ pLink' = [pLink EXCEPT ![ap] = apLink]

\* Mutant: the tail of a list that becomes empty stays.
TailAfterPopKept(apLink) == tail[apLink]

\* The tail of a list whose head is taken.
TailAfterPop(apLink) ==
  IF head[apLink] = tail[apLink] THEN Null ELSE tail[apLink]

PopHead(apLink) ==
  LET lp == head[apLink]
  IN  /\ lp # Null
      /\ head' = [head EXCEPT
           ![apLink] = IF lp = tail[apLink] THEN Null ELSE pNext[lp]]
      /\ tail' = [tail EXCEPT ![apLink] = TailAfterPop(apLink)]
      /\ pNext' = [pNext EXCEPT ![lp] = Null]
      /\ pPrev' = Set([pPrev EXCEPT ![lp] = Null], head'[apLink], Null)
      /\ pLink' = [pLink EXCEPT ![lp] = Null]

\* The items of a list as the loop of Join meets them, from a head on.
Chain(next, first) ==
  LET at[n \in 0 .. Cardinality(Items)] ==
        IF n = 0 THEN first
        ELSE IF at[n - 1] = Null THEN Null ELSE next[at[n - 1]]
      length == Cardinality({n \in DOMAIN at : at[n] # Null})
  IN  IF first = Null THEN <<>> ELSE [n \in 1 .. length |-> at[n - 1]]

Members(l) == {Chain(pNext, head[l])[n] : n \in DOMAIN Chain(pNext, head[l])}

\* Its callers give two lists.
Join(apLink, apOther) ==
  /\ apLink # apOther
  /\ head[apOther] # Null
  /\ pLink' = [i \in Items |->
       IF i \in Members(apOther) THEN apLink ELSE pLink[i]]
  /\ pNext' = Set(pNext, tail[apLink], head[apOther])
  /\ pPrev' = IF tail[apLink] = Null
              THEN pPrev ELSE [pPrev EXCEPT ![head[apOther]] = tail[apLink]]
  /\ head' = [head EXCEPT ![apOther] = Null,
       ![apLink] = IF tail[apLink] = Null THEN head[apOther] ELSE @]
  /\ tail' = [tail EXCEPT ![apLink] = tail[apOther], ![apOther] = Null]

DListNext ==
  \/ \E ap \in Items : RemoveFromLink(ap)
  \/ \E l \in Links :
       \/ \E ap \in Items : AddTail(l, ap)
       \/ PopHead(l)
       \/ \E other \in Links : Join(l, other)

DListSpec == DListInit /\ [][DListNext]_dlistVars
-----------------------------------------------------------------------------
\* The lists of a run are those of LinkSeqs: read forward from their heads,
\* they change as the sequences do, with each item in the list its pLink
\* names.
Lists == INSTANCE LinkSeqs
  WITH seq <- [l \in Links |-> Chain(pNext, head[l])]

ImplementsLinkSeqs == Lists!Spec

\* What RemoveFromLink, called for any item at any time, relies on: pPrev is
\* the inverse of pNext, the tail ends the chain from the head, and pLink
\* names the list whose chain the item is in.
ListsConsistent ==
  /\ DListTypeOK
  /\ \A l \in Links :
       LET chain == Chain(pNext, head[l])
       IN  /\ tail[l] = IF chain = <<>> THEN Null ELSE chain[Len(chain)]
           /\ \A n \in DOMAIN chain :
                /\ pLink[chain[n]] = l
                /\ pPrev[chain[n]] = IF n = 1 THEN Null ELSE chain[n - 1]
  /\ \A i \in Items :
       pLink[i] = Null => pNext[i] = Null /\ pPrev[i] = Null
=============================================================================
