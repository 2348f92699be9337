----------------------------- MODULE MCCoMutex ------------------------------
(***************************************************************************)
(* CoMutex with five coroutines.                                           *)
(***************************************************************************)
EXTENDS CoMutex

CONSTANTS a, b, c, d, e

MCCo == {a, b, c, d, e}
=============================================================================
