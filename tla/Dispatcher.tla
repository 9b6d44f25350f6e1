----------------------------- MODULE Dispatcher -----------------------------
(***************************************************************************)
(* The tool calls a turn or a cart button may make, applied to one cart:   *)
(* app/dispatcher.py over app/domain/cart.py and app/domain/menu.py.       *)
(*                                                                         *)
(* One action per tool handler.  A handler resolves slang, validates what  *)
(* it was given in the order of the code's early returns, and only then    *)
(* calls one method of the cart.  The caller is a language model or the    *)
(* browser, so every argument ranges over what may be passed, known to the *)
(* menu or not.                                                            *)
(*                                                                         *)
(* Left out: the explanations, candidates and suggestions a result carries *)
(* besides its status.                                                     *)
(***************************************************************************)
EXTENDS Menu, Cart, Lists

CONSTANTS
    FamilyName,         \* _FAMILY_NAMES
    Exclusive,          \* _EXCLUSIVE_OPT_CATEGORIES
    OptionList,         \* option lists a caller may pass
    AddQuantity,        \* quantities a caller may pass to add_menu
    RemoveQuantity,     \* quantities a caller may pass to remove_menu
    NotANumber          \* a quantity int() raises on

ASSUME DispatcherAssumption ==
    /\ MenuName \subseteq Name
    /\ OptionName \subseteq Option
    /\ OptionList \subseteq Seq(Option)
    /\ AddQuantity \ {NotANumber} \subseteq Int
    /\ RemoveQuantity \ {NotANumber} \subseteq Int

\* A handler that leaves the cart alone and answers with a status.
Answer(status) ==
    /\ reply' = status
    /\ UNCHANGED <<items, history>>

-----------------------------------------------------------------------------
(* Validation *)

Bag(options) ==
    [o \in Option |-> Cardinality({i \in DOMAIN options : options[i] = o})]

AllApplicable(menu, options) ==
    \A i \in DOMAIN options : is_option_applicable(options[i], MenuCategory[menu])

\* How many of a menu there are, over all lines.
Pieces(lines, menu) ==
    Total([i \in DOMAIN lines |->
             IF lines[i].menu = menu THEN lines[i].quantity ELSE 0])

InCart(menu) == Pieces(items, menu)

\* Fault: what the cart already holds is forgotten.
EnoughIgnoringCart(menu, quantity) ==
    UnlimitedStock(menu) \/ quantity <= StockField[menu]

EnoughStock(menu, quantity) ==
    UnlimitedStock(menu) \/ InCart(menu) + quantity <= StockField[menu]

\* _check_stock returns None.
InStock(menu, quantity) ==
    StockField[menu] # 0 /\ EnoughStock(menu, quantity)

\* _check_stock's status otherwise.
StockRefusal(menu) ==
    IF StockField[menu] = 0 THEN "SOLD_OUT" ELSE "INSUFFICIENT_STOCK"

-----------------------------------------------------------------------------
(* Merging options *)

CategoryOf(option) ==
    IF option \in OptionName THEN OptionCategory[option] ELSE "none"

\* The loop body of _merge_options: a new option of an exclusive category drops
\* the options of its category, and an option already there is not added again.
WithOption(result, option) ==
    LET rivals == {i \in DOMAIN result : CategoryOf(result[i]) = CategoryOf(option)}
        kept == IF CategoryOf(option) \in Exclusive
                THEN ElementsAt(result, DOMAIN result \ rivals)
                ELSE result
    IN  IF Contains(kept, option) THEN kept ELSE Append(kept, option)

\* _merge_options: the loop over the new options.
MergeLoop(existing, new) ==
    LET upto[n \in 0 .. Len(new)] ==
          IF n = 0 THEN existing ELSE WithOption(upto[n - 1], new[n])
    IN  upto[Len(new)]

\* Fault: the first of two new options of a category wins.
MergedFirstWins(existing, new) ==
    [o \in Option |->
        LET rivals == {i \in DOMAIN new : CategoryOf(new[i]) = CategoryOf(o)}
        IN  IF CategoryOf(o) \in Exclusive /\ rivals # {}
            THEN IF \E i \in rivals : new[i] = o /\ \A j \in rivals : i <= j
                 THEN 1 ELSE 0
            ELSE IF existing[o] = 0 /\ \E i \in DOMAIN new : new[i] = o
                 THEN 1 ELSE existing[o] ]

\* Fault: every category is treated as one of several choices.
MergedAccumulating(existing, new) ==
    [o \in Option |->
        IF existing[o] = 0 /\ \E i \in DOMAIN new : new[i] = o
        THEN 1 ELSE existing[o] ]

\* _merge_options, on bags and without the loop: in an exclusive category that
\* is asked for, the last request is all that remains; elsewhere what is there
\* stays and what is new is added once.
Merged(existing, new) ==
    [o \in Option |->
        LET rivals == {i \in DOMAIN new : CategoryOf(new[i]) = CategoryOf(o)}
        IN  IF CategoryOf(o) \in Exclusive /\ rivals # {}
            THEN IF \E i \in rivals : new[i] = o /\ \A j \in rivals : j <= i
                 THEN 1 ELSE 0
            ELSE IF existing[o] = 0 /\ \E i \in DOMAIN new : new[i] = o
                 THEN 1 ELSE existing[o] ]

-----------------------------------------------------------------------------
(* Handlers *)

AddMenu(name, quantity, options) ==
    LET menu == Resolved(name)
    IN  \/ /\ quantity = NotANumber
           /\ Answer("RAISED")
        \/ /\ quantity # NotANumber
           /\ ~is_valid_menu(menu)
           /\ Answer(IF menu \in FamilyName THEN "AMBIGUOUS_MENU" ELSE "INVALID_MENU")
        \/ /\ quantity # NotANumber
           /\ is_valid_menu(menu)
           /\ ~AllApplicable(menu, options)
           /\ Answer("INVALID_OPTION")
        \/ /\ quantity # NotANumber
           /\ is_valid_menu(menu)
           /\ AllApplicable(menu, options)
           /\ IF InStock(menu, quantity)
              THEN CartAdd(menu, quantity, Bag(options))
              ELSE Answer(StockRefusal(menu))

RemoveMenu(name, quantity) ==
    LET menu == Resolved(name)
    IN  \/ /\ quantity = NotANumber
           /\ Answer("RAISED")
        \/ /\ quantity # NotANumber
           /\ menu # "ALL" /\ ~is_valid_menu(menu)
           /\ Answer("MENU_NOT_IN_CART")
        \/ /\ quantity # NotANumber
           /\ menu = "ALL" \/ is_valid_menu(menu)
           /\ CartRemove(menu, quantity)

\* The stock must cover the whole line that changes its menu: the quantity of
\* the first line of from, or 1 when there is none.
ReplaceMenu(fromName, toName, options) ==
    LET from == Resolved(fromName)
        to == Resolved(toName)
        moved == IF FirstLine(from) = {} THEN 1
                 ELSE items[CHOOSE i \in FirstLine(from) : TRUE].quantity
    IN  \/ /\ ~is_valid_menu(to)
           /\ Answer("INVALID_MENU")
        \/ /\ is_valid_menu(to)
           /\ ~AllApplicable(to, options)
           /\ Answer("INVALID_OPTION")
        \/ /\ is_valid_menu(to)
           /\ AllApplicable(to, options)
           /\ IF InStock(to, moved)
              THEN CartReplace(from, to, Bag(options))
              ELSE Answer(StockRefusal(to))

\* A menu that is not in the cart is added with the options, one piece of it.
\* An empty request clears the options of the menu's first line.
ChangeOption(name, options) ==
    LET menu == Resolved(name)
    IN  \/ /\ is_valid_menu(menu)
           /\ ~AllApplicable(menu, options)
           /\ Answer("INVALID_OPTION")
        \/ /\ is_valid_menu(menu) => AllApplicable(menu, options)
           /\ FirstLine(menu) = {}
           /\ AddMenu(menu, 1, options)
        \/ /\ is_valid_menu(menu) => AllApplicable(menu, options)
           /\ \E i \in FirstLine(menu) :
                CartChangeOption(menu, IF options = <<>> THEN Bag(<<>>)
                                       ELSE Merged(items[i].options, options))

CheckCart == Answer(IF items = <<>> THEN "EMPTY_CART" ELSE "CART_VIEW")

InquireMenuInfo == Answer("MENU_INQUIRY")

\* The order is announced as complete; the cart is not emptied or closed.
Done == Answer(IF items = <<>> THEN "EMPTY_CART" ELSE "ORDER_COMPLETED")

\* dispatch_tool of a name that is no tool and no alias of one.  The aliases
\* are further names of the handlers above.
UnknownTool == Answer("UNKNOWN_TOOL")

-----------------------------------------------------------------------------
(* Any sequence of tool calls, kept within the bounds of the model *)

DispatcherNext ==
    \/ \E name \in Name, quantity \in AddQuantity, options \in OptionList :
         AddMenu(name, quantity, options) /\ InBounds'
    \/ \E name \in Name, quantity \in RemoveQuantity :
         RemoveMenu(name, quantity) /\ InBounds'
    \/ \E from \in Name, to \in Name, options \in OptionList :
         ReplaceMenu(from, to, options)
    \/ \E name \in Name, options \in OptionList :
         ChangeOption(name, options) /\ InBounds'
    \/ CheckCart
    \/ InquireMenuInfo
    \/ Done
    \/ CartUndo
    \/ UnknownTool

DispatcherSpec == Init /\ [][DispatcherNext]_cartVars

-----------------------------------------------------------------------------
(* Properties *)

DispatcherStatus ==
    CartStatus \cup
    { "RAISED", "AMBIGUOUS_MENU", "INVALID_MENU", "INVALID_OPTION", "SOLD_OUT",
      "INSUFFICIENT_STOCK", "EMPTY_CART", "CART_VIEW", "MENU_INQUIRY",
      "ORDER_COMPLETED", "UNKNOWN_TOOL" }

\* The cart and its events are well formed and every answer is a known one.
DispatcherTypeOK == WellFormed /\ reply \in DispatcherStatus

\* A line the cafe can make: a menu of the dictionary with options that its
\* category can have.
Orderable(line) ==
    /\ line.menu \in MenuName
    /\ \A o \in Option : line.options[o] > 0 =>
          /\ o \in OptionName
          /\ MenuCategory[line.menu] \in Applicable[OptionCategory[o]]

\* The cart, and every cart an undo can bring back, holds only what the cafe
\* can make: each handler validates before it writes, and a merge of options
\* or a replaced menu never combines valid parts into an invalid line.
LinesOrderable ==
    /\ \A i \in DOMAIN items : Orderable(items[i])
    /\ \A e \in DOMAIN history :
         \A i \in DOMAIN history[e].before : Orderable(history[e].before[i])

\* The cart and every cart an undo can bring back.
Carts == {items} \cup {history[e].before : e \in DOMAIN history}

NoEmptyLine ==
    \A lines \in Carts : \A i \in DOMAIN lines : lines[i].quantity >= 1

WithinStock ==
    \A lines \in Carts, menu \in MenuName :
        UnlimitedStock(menu) \/ Pieces(lines, menu) <= StockField[menu]

\* A line of no or fewer pieces comes only of a call of add_menu for no or fewer
\* (nothing enforces the minimum of tools.py): no removal, down to nothing or by
\* a negative number, and no undo of whatever was done leaves one.
EmptyLineOnlyByAdding ==
    [][ NoEmptyLine =>
          \/ NoEmptyLine'
          \/ \E name \in Name, quantity \in AddQuantity \ {NotANumber}, options \in OptionList :
               quantity < 1 /\ AddMenu(name, quantity, options) ]_cartVars

\* The cart comes to hold more of a menu than the stock, over all its lines, only
\* by a call of remove_menu for a negative number other than -1, which adds to the
\* line unchecked: no addition, replacement or undo does it, as long as there is
\* no line of negative pieces to hide others behind.
OversoldOnlyByRemoving ==
    [][ NoEmptyLine /\ WithinStock =>
          \/ WithinStock'
          \/ \E name \in Name, quantity \in RemoveQuantity \ {NotANumber} :
               quantity < -1 /\ RemoveMenu(name, quantity) ]_cartVars

\* change_option settles what it was asked for on the menu's first line: of an
\* exclusive category in the request one option is left, the options of the
\* other categories are kept.
ChangeOptionSettles ==
    [][ reply' = "OPTION_CHANGED" =>
          \A name \in Name, options \in OptionList :
            options # <<>> /\ ChangeOption(name, options) =>
              \E i \in FirstLine(Resolved(name)) :
                LET asked == {CategoryOf(options[k]) : k \in DOMAIN options}
                    left(c) == {o \in Option : CategoryOf(o) = c /\ items'[i].options[o] > 0}
                IN  /\ \A c \in asked \cap Exclusive : Cardinality(left(c)) = 1
                    /\ \A o \in Option : CategoryOf(o) \notin asked
                         => items'[i].options[o] = items[i].options[o] ]_cartVars

\* Merging the options of any line of the cart as bags is what the loop over
\* lists does, in whatever order they are listed.
MergeIsLoop ==
    \A i \in DOMAIN items : \A existing \in OptionList, new \in OptionList :
        items[i].options = Bag(existing)
          => Bag(MergeLoop(existing, new)) = Merged(items[i].options, new)

-----------------------------------------------------------------------------
(* What the repository says of the dispatcher and the code does not do *)

\* remove_menu with quantity -1 removes all of that menu (tools.py).
RemoveAllOfMenu ==
    [][ \A name \in Name :
          RemoveMenu(name, -1) => \A i \in DOMAIN items' : items'[i].menu # Resolved(name)
      ]_cartVars
=============================================================================
