---------------------------- MODULE MCDispatcher ----------------------------
(***************************************************************************)
(* A small menu: a coffee of unlimited stock, a dessert of which two are   *)
(* left and one that is sold out; two options of one exclusive category    *)
(* and one option that accumulates, both for coffee only.                  *)
(***************************************************************************)
EXTENDS Dispatcher

MCMenuCategory == [latte |-> "coffee", bingsu |-> "ice", mango |-> "ice"]
MCStockField == [latte |-> -1, bingsu |-> 2, mango |-> 0]
MCOptionCategory == [shot1 |-> "shot", shot2 |-> "shot", syrup |-> "syrup"]
MCApplicable == [shot |-> {"coffee"}, syrup |-> {"coffee"}]

\* One alias that resolves, and one that stands for two menus and for a family.
MCSlang == [la |-> <<"latte">>, cold |-> <<"bingsu", "mango">>]

\* None, two of one category, and one of each category.
MCOptionList == {<<>>, <<"shot1", "shot2">>, <<"syrup", "shot1">>}

\* Within the schema of the tools and, since nothing enforces it, beyond.
MCAddQuantity == {0, 1, NotANumber}
MCRemoveQuantity == {-2, -1, 1, NotANumber}

\* What Cart's own next-state relation ranges over; unused here.
MCQuantity == {-1, 1, 2}
MCOptions == {Bag(options) : options \in OptionList}
=============================================================================
