--------------------------- MODULE MCCoEventLoop ----------------------------
(***************************************************************************)
(* CoEventLoop with two or three coroutines and one descriptor.            *)
(***************************************************************************)
EXTENDS CoEventLoop

CONSTANTS a, b, c, f

TwoCo == {a, b}
ThreeCo == {a, b, c}
OneFd == {f}
=============================================================================
