------------------------------ MODULE MCClient ------------------------------
(***************************************************************************)
(* A coffee and a dessert, two options that exclude each other and one     *)
(* that accumulates, and a page that sends three requests.                 *)
(***************************************************************************)
EXTENDS Client

MCMenuCategory == [latte |-> "coffee", bingsu |-> "ice"]
MCStockField == [latte |-> -1, bingsu |-> 1]
MCOptionCategory == [shot1 |-> "shot", shot2 |-> "shot", syrup |-> "syrup"]
MCApplicable == [shot |-> {"coffee"}, syrup |-> {"coffee"}]
MCSlang == [la |-> <<"latte">>]

ASSUME NamesKept == AliasesNameNoMenu

MCOptionList == {<<>>, <<"shot1", "syrup">>}

\* What the next-state relations of Cart and Dispatcher range over; unused.
MCAddQuantity == {1}
MCRemoveQuantity == {-1}
MCOptions == {Bag(options) : options \in OptionList}
=============================================================================
