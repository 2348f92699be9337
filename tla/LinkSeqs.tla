------------------------------ MODULE LinkSeqs ------------------------------
(***************************************************************************)
(* What the intrusive lists of co_routine.cpp promise: every list is a     *)
(* sequence of items, and an item is in one list at most, once.            *)
(***************************************************************************)
EXTENDS SequencesExt

CONSTANTS Items, Links

VARIABLE seq            (* link -> the items of the list, from its head     *)

In(item) == {l \in Links : Contains(seq[l], item)}

Init == seq = [l \in Links |-> <<>>]

AddLast(l, item) ==
  /\ In(item) = {}
  /\ seq' = [seq EXCEPT ![l] = Append(@, item)]

PopFirst(l) ==
  /\ seq[l] # <<>>
  /\ seq' = [seq EXCEPT ![l] = Tail(@)]

TakeOut(l, item) ==
  \E n \in 1..Len(seq[l]) :
    /\ seq[l][n] = item
    /\ seq' = [seq EXCEPT ![l] = RemoveAt(@, n)]

\* The items of other are appended to those of l.
MoveAll(l, other) ==
  /\ l # other /\ seq[other] # <<>>
  /\ seq' = [seq EXCEPT ![l] = @ \o seq[other], ![other] = <<>>]

\* In each step the list l changes, and with MoveAll another one.
Next ==
  \E l \in Links :
    /\ seq'[l] # seq[l]
    /\ \/ PopFirst(l)
       \/ \E item \in Items : AddLast(l, item) \/ TakeOut(l, item)
       \/ \E other \in Links : MoveAll(l, other)

Spec == Init /\ [][Next]_seq
=============================================================================
