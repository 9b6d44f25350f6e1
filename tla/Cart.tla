-------------------------------- MODULE Cart --------------------------------
(***************************************************************************)
(* The in-memory cart of one session: app/domain/cart.py.                  *)
(*                                                                         *)
(* The cart is a list of lines and a list of change events; every writing  *)
(* method is one action here, together with the event it records and the   *)
(* trimming of the event list.  The cart does not validate what it is      *)
(* given (app/dispatcher.py does, see Dispatcher.tla), so menu names,      *)
(* quantities and option lists range over whatever a caller may pass.      *)
(*                                                                         *)
(* Snapshots are deep copies in the code, hence plain values here.  A      *)
(* line's option list is the bag of its options: same_as() sorts before it *)
(* compares and nothing else looks at the order.  Left out: an event's     *)
(* wording and timestamp, and a method's result beyond its status.         *)
(***************************************************************************)
EXTENDS Integers, Sequences, SequencesExt

CONSTANTS
    Name,           \* menu names a caller may pass
    Option,         \* option names a caller may pass
    Quantity,       \* quantities a caller may pass
    Options,        \* option lists a caller may pass, as bags
    HistoryLimit,   \* _HISTORY_LIMIT
    MaxLines,       \* bound of the model: lines in the cart
    MaxQuantity     \* bound of the model: size of a line's quantity

ASSUME CartAssumption ==
    /\ Quantity \subseteq Int
    /\ Options \subseteq [Option -> Nat]
    /\ HistoryLimit \in Nat \ {0}
    /\ MaxLines \in Nat
    /\ MaxQuantity \in Nat

VARIABLES
    items,      \* Cart._items
    history,    \* Cart._history
    reply       \* the status of the last method's result

cartVars == <<items, history, reply>>

-----------------------------------------------------------------------------

OptionBag == [Option -> Nat]

Line == [menu : Name, quantity : Int, options : OptionBag]

EventAction == {"add", "remove", "replace", "change_option", "clear"}

Event == [action : EventAction, before : Seq(Line), after : Seq(Line)]

CartStatus ==
    { "READY", "ADDED", "INCREMENTED", "REMOVED", "REPLACED", "OPTION_CHANGED",
      "MENU_NOT_IN_CART", "CLEARED", "UNDONE", "NOTHING_TO_UNDO" }

Init ==
    /\ items = <<>>
    /\ history = <<>>
    /\ reply = "READY"

-----------------------------------------------------------------------------
(* Lines *)

\* CartItem.same_as: order is ignored, repetition is not.
SameAs(line, menu, options) ==
    line.menu = menu /\ line.options = options

\* The first of the indices in S: none, or exactly one.
First(S) == {i \in S : \A j \in S : i <= j}

\* Where "for it in self._items: if it.menu == menu" stops.
FirstLine(menu) == First({i \in DOMAIN items : items[i].menu = menu})

-----------------------------------------------------------------------------
(* Events *)

\* Fault: the list is never cut.
Untrimmed(h) == h

\* self._history[-_HISTORY_LIMIT:]
Trimmed(h) ==
    IF Len(h) > HistoryLimit
    THEN SubSeq(h, Len(h) - HistoryLimit + 1, Len(h))
    ELSE h

\* The event of the change from items to items'.
Record(action) ==
    history' = Trimmed(Append(history,
                   [action |-> action, before |-> items, after |-> items']))

-----------------------------------------------------------------------------
(* Methods *)

CartAdd(menu, quantity, options) ==
    LET found == First({i \in DOMAIN items : SameAs(items[i], menu, options)})
    IN  /\ \/ \E i \in found :
                /\ items' = [items EXCEPT ![i].quantity = @ + quantity]
                /\ reply' = "INCREMENTED"
           \/ /\ found = {}
              /\ items' = Append(items, [menu |-> menu, quantity |-> quantity,
                                         options |-> options])
              /\ reply' = "ADDED"
        /\ Record("add")

\* clear(), and remove() of "ALL": an empty cart leaves no event.
Emptied ==
    /\ items' = <<>>
    /\ IF items = <<>> THEN UNCHANGED history ELSE Record("clear")

NotInCart(menu) ==
    /\ FirstLine(menu) = {}
    /\ reply' = "MENU_NOT_IN_CART"
    /\ UNCHANGED <<items, history>>

\* Fault: taking all there is leaves an empty line.
TakesMore(line, quantity) == quantity = -1 \/ quantity > line.quantity

\* A quantity of -1, or all there is, takes the line.
TakesAll(line, quantity) == quantity = -1 \/ quantity >= line.quantity

CartRemove(menu, quantity) ==
    \/ /\ menu = "ALL"
       /\ Emptied
       /\ reply' = "REMOVED"
    \/ /\ menu # "ALL"
       /\ \E i \in FirstLine(menu) :
            IF TakesAll(items[i], quantity)
            THEN items' = RemoveAt(items, i)
            ELSE items' = [items EXCEPT ![i].quantity = @ - quantity]
       /\ Record("remove")
       /\ reply' = "REMOVED"
    \/ menu # "ALL" /\ NotInCart(menu)

CartReplace(from, to, options) ==
    \/ /\ \E i \in FirstLine(from) :
            items' = [items EXCEPT ![i].menu = to, ![i].options = options]
       /\ Record("replace")
       /\ reply' = "REPLACED"
    \/ NotInCart(from)

CartChangeOption(menu, options) ==
    \/ /\ \E i \in FirstLine(menu) :
            items' = [items EXCEPT ![i].options = options]
       /\ Record("change_option")
       /\ reply' = "OPTION_CHANGED"
    \/ NotInCart(menu)

CartClear ==
    /\ Emptied
    /\ reply' = "CLEARED"

CartUndo ==
    \/ /\ history # <<>>
       /\ items' = Last(history).before
       /\ history' = Front(history)
       /\ reply' = "UNDONE"
    \/ /\ history = <<>>
       /\ reply' = "NOTHING_TO_UNDO"
       /\ UNCHANGED <<items, history>>

-----------------------------------------------------------------------------
(* Any sequence of calls, kept within the bounds of the model *)

InBounds ==
    /\ Len(items) <= MaxLines
    /\ \A i \in DOMAIN items : items[i].quantity \in -MaxQuantity .. MaxQuantity

Next ==
    \/ \E menu \in Name, quantity \in Quantity, options \in Options :
         CartAdd(menu, quantity, options) /\ InBounds'
    \/ \E menu \in Name \cup {"ALL"}, quantity \in Quantity :
         CartRemove(menu, quantity) /\ InBounds'
    \/ \E from \in Name, to \in Name, options \in Options :
         CartReplace(from, to, options)
    \/ \E menu \in Name, options \in Options :
         CartChangeOption(menu, options)
    \/ CartClear
    \/ CartUndo

Spec == Init /\ [][Next]_cartVars

-----------------------------------------------------------------------------
(* Properties *)

WellFormed ==
    /\ items \in Seq(Line)
    /\ history \in Seq(Event)
    /\ Len(history) <= HistoryLimit

\* The cart and its events are well formed, never more than _HISTORY_LIMIT of
\* them, and every answer is a known one, whatever was called before.
TypeOK == WellFormed /\ reply \in CartStatus

\* Consecutive events meet: what one change left is what the next one found.
Linked ==
    \A i \in 1 .. Len(history) - 1 : history[i].after = history[i + 1].before

\* The newest event ends in the cart as it is now, also after undos.
EndsNow ==
    history # <<>> => Last(history).after = items

\* The events are one unbroken story that ends in the present cart: _record
\* and undo() together never lose, repeat or reorder a change, also when the
\* list was trimmed at _HISTORY_LIMIT and also when several changes were
\* undone before the next one.
HistoryChain == Linked /\ EndsNow

\* Pairs of lines no customer can tell apart.
Twins ==
    {p \in (DOMAIN items) \X (DOMAIN items) :
        p[1] < p[2] /\ SameAs(items[p[1]], items[p[2]].menu, items[p[2]].options)}

\* add() merges into a line with the same menu and options, so only replace(),
\* change_option() and an undo can leave two lines that look the same.
TwinsOnlyByRewriting ==
    [][ Cardinality(Twins') > Cardinality(Twins)
          => reply' \in {"REPLACED", "OPTION_CHANGED", "UNDONE"} ]_cartVars

\* The carts an undo can bring back, in the order they were.
Befores(h) == [i \in DOMAIN h |-> h[i].before]

Stack == INSTANCE UndoStack WITH
            Value <- Seq(Line), Start <- <<>>, Limit <- HistoryLimit,
            current <- items, past <- Befores(history)

\* The cart with its undo is a bounded undo stack: every change of the items
\* can be undone exactly once, in reverse order, and a call that answers with
\* an error changes nothing.
IsUndoStack == Stack!Spec
=============================================================================
