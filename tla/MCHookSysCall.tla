--------------------------- MODULE MCHookSysCall ----------------------------
(***************************************************************************)
(* HookSysCall with two coroutines and one descriptor.                     *)
(***************************************************************************)
EXTENDS HookSysCall

CONSTANTS co1, co2, fd1

MCCo == {co1, co2}
OneFd == {fd1}
=============================================================================
