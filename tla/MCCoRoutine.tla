---------------------------- MODULE MCCoRoutine -----------------------------
(***************************************************************************)
(* CoRoutine with three coroutines and one shared stack of two cells.      *)
(***************************************************************************)
EXTENDS CoRoutine, TLC

CONSTANTS a, b, p

MCCo == {a, b, p}

\* Two coroutines share a stack, the third has its own.
MCPrivate == {p}

Symmetry == Permutations({a, b})
=============================================================================
