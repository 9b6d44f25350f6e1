---------------------------- MODULE MCCartSteps ----------------------------
(* A small instance of CartSteps for TLC. *)
EXTENDS CartSteps

\* With the option and without it.
MCOptions == [Option -> 0 .. 1]
MCQuantity == {-1, 1}
=============================================================================
