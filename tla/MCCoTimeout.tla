---------------------------- MODULE MCCoTimeout -----------------------------
(***************************************************************************)
(* CoTimeout with two timers and a wheel of three slots.                   *)
(***************************************************************************)
EXTENDS CoTimeout, TLC

CONSTANTS a, b

MCTimer == {a, b}

Symmetry == Permutations(MCTimer)
=============================================================================
