------------------------------- MODULE Arena --------------------------------
(***************************************************************************)
(* arena of short_alloc.h: blocks from a buffer while it has room, and     *)
(* from the heap after that; of the buffer, only the last block returns.   *)
(***************************************************************************)
EXTENDS Naturals, FiniteSets

CONSTANTS
  ArenaSize, Align,      (* N and the alignment                            *)
  Sizes,                 (* what is asked for                              *)
  MaxBlocks              (* bound on the blocks in use                     *)

ASSUME ArenaAssumption == /\ ArenaSize \in Nat /\ Align \in Nat \ {0}
                          /\ ArenaSize % Align = 0 /\ Sizes \subseteq Nat

VARIABLES
  used,                  (* ptr_ - buf_                                    *)
  blocks                 (* in use: [at, n], at = Heap of the heap's       *)

Heap == ArenaSize + 1

arenaVars == <<used, blocks>>

ArenaInit == used = 0 /\ blocks = {}

\* Mutant: the size is not rounded up.
align_none(n) == n
align_up(n) == ((n + Align - 1) \div Align) * Align

allocate(n) ==
  /\ Cardinality(blocks) < MaxBlocks
  /\ IF ArenaSize - used >= align_up(n)
     THEN /\ blocks' = blocks \cup {[at |-> used, n |-> n]}
          /\ used' = used + align_up(n)
     ELSE /\ blocks' = blocks \cup {[at |-> Heap, n |-> n]}
          /\ UNCHANGED used

deallocate(b) ==
  /\ b \in blocks
  /\ blocks' = blocks \ {b}
  /\ used' = IF b.at # Heap /\ b.at + align_up(b.n) = used THEN b.at ELSE used

\* The caller is done with all its blocks.
reset == blocks = {} /\ used # 0 /\ used' = 0 /\ UNCHANGED blocks

ArenaNext ==
  (\E n \in Sizes : allocate(n)) \/ (\E b \in blocks : deallocate(b)) \/ reset

ArenaSpec == ArenaInit /\ [][ArenaNext]_arenaVars
-----------------------------------------------------------------------------
\* short_alloc.h:47: in whatever order blocks are given back, those in use
\* lie in the buffer, aligned, below what is handed out next, and apart.
\* (A block of no bytes, for which the code takes no room, shares none.)
BlocksApart ==
  LET inside == {b \in blocks : b.at # Heap /\ b.n > 0}
  IN  /\ used <= ArenaSize
      /\ \A b \in inside : b.at % Align = 0 /\ b.at + b.n <= used
      /\ \A b, c \in inside :
           b = c \/ b.at + b.n <= c.at \/ c.at + c.n <= b.at
=============================================================================
