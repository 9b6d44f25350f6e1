---------------------------- MODULE MCMenuSearch ----------------------------
(* A small menu for TLC: one name contains another, two share an end, one   *)
(* shares nothing but its category, and one alias means two menus.          *)
EXTENDS MenuSearch

MCMenus == <<[kr |-> <<"b", "c">>, category |-> "coffee"],
             [kr |-> <<"a", "b", "c">>, category |-> "coffee"],
             [kr |-> <<"c", "c", "a">>, category |-> "tea"],
             [kr |-> <<"a", "a">>, category |-> "tea"]>>
MCCategories == <<[id |-> "tea", keywords |-> {<<"a">>}],
                  [id |-> "ade", keywords |-> {<<"b">>}],
                  [id |-> "coffee", keywords |-> {<<"b", "b">>}]>>
MCAliases == <<[slang |-> <<"c", "b">>, targets |-> <<<<"a", "a">>, <<"b", "a">>, <<"b", "c">>>>],
               [slang |-> <<"b", "a">>, targets |-> <<<<"c", "c", "a">>>>]>>
MCFamily == {<<"c", "a">>, <<"a">>}
\* An index of before the third menu came and another went.
MCIndexed == {<<"b", "c">>, <<"a", "b", "c">>, <<"a", "a">>, <<"b", "b">>}
MCTexts == UNION {[1 .. n -> {"a", "b", "c"}] : n \in 0 .. 5}
=============================================================================
