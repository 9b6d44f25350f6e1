----------------------------- MODULE MCMenuIndex -----------------------------
(* Instances of module MenuIndex for TLC.                                   *)
EXTENDS MenuIndex
=============================================================================
