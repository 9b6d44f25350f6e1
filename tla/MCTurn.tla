------------------------------- MODULE MCTurn -------------------------------
(* Instances of module Turn for TLC: one call that changes the cart, one    *)
(* that undoes.                                                             *)
EXTENDS Turn
=============================================================================
