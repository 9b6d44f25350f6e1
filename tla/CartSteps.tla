------------------------------ MODULE CartSteps ------------------------------
(***************************************************************************)
(* The cart under two threads: app/domain/cart.py as a turn of the agent   *)
(* runs it in a worker thread, and GET /cart (app/api/routers/cart.py) as  *)
(* the event loop runs it meanwhile.                                       *)
(*                                                                         *)
(* The writing methods are serial, since every one of their callers holds  *)
(* the session's lock; get_cart takes no lock.  A method is therefore      *)
(* executed here one assignment at a time, and the reader one line of the  *)
(* cart at a time: snapshot() iterates over the list object it found in    *)
(* self._items, by position, so it sees what is done to that list in       *)
(* place, and nothing of the list that _restore() puts in its stead.  The  *)
(* three fields of a line are read with no call between them, hence in one *)
(* step; the step also fetches the line, which no single call of a writer  *)
(* can tell from fetching it earlier.                                      *)
(*                                                                         *)
(* Module Cart is the abstract specification: there a method is one step.  *)
(***************************************************************************)
EXTENDS Integers, Sequences, SequencesExt

CONSTANTS
    Name, Option, Quantity, Options, HistoryLimit, MaxLines, MaxQuantity,
    MaxCalls        \* bound of the model: writing calls

ASSUME CartStepsAssumption ==
    /\ Quantity \subseteq Int
    /\ Options \subseteq [Option -> Nat]
    /\ HistoryLimit \in Nat \ {0}
    /\ MaxLines \in Nat /\ MaxQuantity \in Nat /\ MaxCalls \in Nat

VARIABLES
    items,      \* the list self._items refers to, as the threads see it
    history,    \* self._history
    reply,      \* the status of the last result
    call,       \* the method under way and its arguments
    step,       \* what the method does next
    before,     \* its local snapshot of the cart it found
    calls,      \* bound of the model: the calls so far
    reading,    \* whether a GET /cart is in snapshot()
    detached,   \* whether the list it iterates over is no longer self._items
    old,        \* that list then
    got,        \* the lines it has read
    start,      \* history variable: the cart when the read began
    disturbed   \* history variable: 0, or 1 when one call that changes the list
                \* at one point was under way during the read, or 2

writerVars == <<items, history, reply, call, step, before, calls>>
readerVars == <<reading, detached, old, got, start, disturbed>>
vars == <<writerVars, readerVars>>

NoCall == [op |-> "none"]

\* The cart and its events but for the call under way.
Committed == IF step = "idle" THEN items ELSE before
CommittedHistory == IF step = "restore" THEN Append(history, call.event) ELSE history

C == INSTANCE Cart WITH items <- Committed, history <- CommittedHistory

AddCall          == [op : {"add"}, menu : Name, quantity : Quantity, options : Options]
RemoveCall       == [op : {"remove"}, menu : Name \cup {"ALL"}, quantity : Quantity]
ReplaceCall      == [op : {"replace"}, menu : Name, to : Name, options : Options]
ChangeOptionCall == [op : {"change_option"}, menu : Name, options : Options]
ClearCall        == [op : {"clear"}]
UndoCall         == [op : {"undo"}]

Init ==
    /\ items = <<>> /\ history = <<>> /\ reply = "READY"
    /\ call = NoCall /\ step = "idle" /\ before = <<>> /\ calls = 0
    /\ reading = FALSE /\ detached = FALSE /\ old = <<>> /\ got = <<>>
    /\ start = <<>> /\ disturbed = 0

-----------------------------------------------------------------------------
(* What the calls look for, in a cart l *)

FirstLine(l, menu) == C!First({i \in DOMAIN l : l[i].menu = menu})

\* Fault: a line that is already there is not looked for.
NoTwin(l, c) == {}

FirstTwin(l, c) == C!First({i \in DOMAIN l : C!SameAs(l[i], c.menu, c.options)})

TakesLine(l, c) ==
    /\ c.op = "remove"
    /\ \E i \in FirstLine(l, c.menu) : C!TakesAll(l[i], c.quantity)

\* Whether the call shifts or drops lines of the list, or rewrites a line in
\* two assignments, so that a reader can meet it half done.
Tears(l, c) ==
    \/ c.op \in {"replace", "clear"}
    \/ c.op = "remove" /\ c.menu = "ALL"
    \/ TakesLine(l, c)

Weight(l, c) == IF Tears(l, c) THEN 2 ELSE 1

\* The list add() leaves, and the one remove() leaves.
AddTo(l, c) ==
    IF FirstTwin(l, c) = {}
    THEN Append(l, [menu |-> c.menu, quantity |-> c.quantity, options |-> c.options])
    ELSE LET i == CHOOSE n \in FirstTwin(l, c) : TRUE
         IN  [l EXCEPT ![i].quantity = @ + c.quantity]

TakeFrom(l, c) ==
    IF FirstLine(l, c.menu) = {} THEN l
    ELSE LET i == CHOOSE n \in FirstLine(l, c.menu) : TRUE
         IN  IF C!TakesAll(l[i], c.quantity)
             THEN RemoveAt(l, i)
             ELSE [l EXCEPT ![i].quantity = @ - c.quantity]

\* Bounds of the model.
InBounds(l) ==
    /\ Len(l) <= MaxLines
    /\ \A i \in DOMAIN l : l[i].quantity \in -MaxQuantity .. MaxQuantity

Room(c) ==
    /\ calls < MaxCalls
    /\ c.op = "add" => InBounds(AddTo(items, c))
    /\ c.op = "remove" /\ c.menu # "ALL" => InBounds(TakeFrom(items, c))

-----------------------------------------------------------------------------
(* The writer *)

Begin(c) ==
    /\ step = "idle"
    /\ Room(c)
    /\ calls' = calls + 1
    /\ call' = c
    /\ before' = items
    /\ step' = "write"
    /\ disturbed' = IF reading /\ disturbed + Weight(items, c) >= 2 THEN 2
                    ELSE IF reading THEN 1 ELSE 0
    /\ UNCHANGED <<items, history, reply, reading, detached, old, got, start>>

Writing(op) == step = "write" /\ call.op = op

Return(status) ==
    /\ reply' = status
    /\ step' = "idle"
    /\ call' = NoCall
    /\ before' = <<>>

\* The write that precedes _record().
Written ==
    /\ step' = "record"
    /\ UNCHANGED <<history, reply, call, before, calls, readerVars>>

NotInCart ==
    /\ step = "write"
    /\ call.op \in {"remove", "replace", "change_option"}
    /\ call.op = "remove" => call.menu # "ALL"
    /\ FirstLine(items, call.menu) = {}
    /\ Return("MENU_NOT_IN_CART")
    /\ UNCHANGED <<items, history, calls, readerVars>>

AddWrites ==
    /\ Writing("add")
    /\ items' = AddTo(items, call)
    /\ Written

RemoveWrites ==
    /\ Writing("remove") /\ call.menu # "ALL"
    /\ FirstLine(items, call.menu) # {}
    /\ items' = TakeFrom(items, call)
    /\ Written

\* list.clear(), in clear() and in remove() of "ALL".
Empties == Writing("clear") \/ (Writing("remove") /\ call.menu = "ALL")

ClearWrites ==
    /\ Empties
    /\ items # <<>>
    /\ items' = <<>>
    /\ Written

\* An empty cart leaves no event.
ClearsNothing ==
    /\ Empties
    /\ items = <<>>
    /\ Return(IF call.op = "clear" THEN "CLEARED" ELSE "REMOVED")
    /\ UNCHANGED <<items, history, calls, readerVars>>

ReplaceWritesMenu ==
    /\ Writing("replace")
    /\ \E i \in FirstLine(items, call.menu) :
         /\ items' = [items EXCEPT ![i].menu = call.to]
         /\ call' = [op |-> "replace", at |-> i, options |-> call.options]
    /\ step' = "options"
    /\ UNCHANGED <<history, reply, before, calls, readerVars>>

ReplaceWritesOptions ==
    /\ step = "options"
    /\ items' = [items EXCEPT ![call.at].options = call.options]
    /\ Written

ChangeOptionWrites ==
    /\ Writing("change_option")
    /\ \E i \in FirstLine(items, call.menu) :
         items' = [items EXCEPT ![i].options = call.options]
    /\ Written

\* The status returned, and the event's kind.
Outcome ==
    CASE call.op = "add" -> IF Len(items) = Len(before) THEN "INCREMENTED" ELSE "ADDED"
      [] call.op = "remove" -> "REMOVED"
      [] call.op = "replace" -> "REPLACED"
      [] call.op = "change_option" -> "OPTION_CHANGED"
      [] call.op = "clear" -> "CLEARED"

EventKind == IF call.op = "remove" /\ call.menu = "ALL" THEN "clear" ELSE call.op

\* Fault: the snapshot before the change is taken when the change is recorded.
RecordsLate ==
    /\ step = "record"
    /\ history' = C!Trimmed(Append(history,
                       [action |-> EventKind, before |-> items, after |-> items]))
    /\ Return(Outcome)
    /\ UNCHANGED <<items, calls, readerVars>>

\* _record(), and the method returns.
Records ==
    /\ step = "record"
    /\ history' = C!Trimmed(Append(history,
                       [action |-> EventKind, before |-> before, after |-> items]))
    /\ Return(Outcome)
    /\ UNCHANGED <<items, calls, readerVars>>

NothingToUndo ==
    /\ Writing("undo")
    /\ history = <<>>
    /\ Return("NOTHING_TO_UNDO")
    /\ UNCHANGED <<items, history, calls, readerVars>>

\* Fault: the event is read, not popped, and can be undone again.
UndoPeeks ==
    /\ Writing("undo")
    /\ history # <<>>
    /\ call' = [op |-> "undo", event |-> Last(history)]
    /\ step' = "restore"
    /\ UNCHANGED <<items, history, reply, before, calls, readerVars>>

UndoPops ==
    /\ Writing("undo")
    /\ history # <<>>
    /\ history' = Front(history)
    /\ call' = [op |-> "undo", event |-> Last(history)]
    /\ step' = "restore"
    /\ UNCHANGED <<items, reply, before, calls, readerVars>>

\* Fault: the old lines are put back into the list that is there.
RestoresInPlace ==
    /\ step = "restore"
    /\ items' = call.event.before
    /\ Return("UNDONE")
    /\ UNCHANGED <<history, calls, readerVars>>

\* _restore() makes a new list of new lines: a reader keeps the old one.
Restores ==
    /\ step = "restore"
    /\ items' = call.event.before
    /\ Return("UNDONE")
    /\ IF reading /\ ~detached
       THEN detached' = TRUE /\ old' = items
       ELSE UNCHANGED <<detached, old>>
    /\ UNCHANGED <<history, calls, reading, got, start, disturbed>>

-----------------------------------------------------------------------------
(* The reader: [it.to_dict() for it in self._items] of GET /cart *)

ReadBegins ==
    /\ ~reading
    /\ reading' = TRUE
    /\ start' = Committed
    /\ disturbed' = CASE step = "idle" -> 0
                      [] step = "write" -> Weight(items, call)
                      [] step = "options" -> 2
                      [] OTHER -> 1
    /\ UNCHANGED <<writerVars, detached, old, got>>

Iterated == IF detached THEN old ELSE items

ReadLine ==
    /\ reading
    /\ Len(got) < Len(Iterated)
    /\ got' = Append(got, Iterated[Len(got) + 1])
    /\ UNCHANGED <<writerVars, reading, detached, old, start, disturbed>>

ReadEnds ==
    /\ reading
    /\ Len(got) >= Len(Iterated)
    /\ reading' = FALSE /\ detached' = FALSE /\ old' = <<>> /\ got' = <<>>
    /\ start' = <<>> /\ disturbed' = 0
    /\ UNCHANGED writerVars

-----------------------------------------------------------------------------
Calls ==
    AddCall \cup RemoveCall \cup ReplaceCall \cup ChangeOptionCall \cup ClearCall \cup UndoCall

Next ==
    \/ \E c \in Calls : Begin(c)
    \/ NotInCart \/ AddWrites \/ RemoveWrites \/ ClearWrites \/ ClearsNothing
    \/ ReplaceWritesMenu \/ ReplaceWritesOptions \/ ChangeOptionWrites
    \/ Records \/ NothingToUndo \/ UndoPops \/ Restores
    \/ ReadBegins \/ ReadLine \/ ReadEnds

Spec == Init /\ [][Next]_vars

-----------------------------------------------------------------------------
(* Properties *)

Step == {"idle", "write", "options", "record", "restore"}

\* The committed cart is one that module Cart allows, a snapshot is kept only
\* while a method runs, and the reader's lines only while it reads.
TypeOK ==
    /\ C!TypeOK
    /\ items \in Seq(C!Line) /\ before \in Seq(C!Line)
    /\ calls \in 0 .. MaxCalls
    /\ step \in Step /\ (step = "idle" <=> call = NoCall)
    /\ reading \in BOOLEAN /\ detached \in BOOLEAN
    /\ old \in Seq(C!Line) /\ got \in Seq(C!Line) /\ start \in Seq(C!Line)
    /\ disturbed \in 0 .. 2
    /\ ~reading => /\ ~detached /\ old = <<>> /\ got = <<>>
                   /\ start = <<>> /\ disturbed = 0

\* Every method, run one assignment at a time, with a reader looking at the
\* lines between them, does to the cart and its events what the one step of
\* module Cart does: the snapshot a method takes first, its in-place writes and
\* the event it appends last belong together, also for an undo, which takes its
\* event off before it restores the lines.
ImplementsCart == C!Spec

\* As in module Cart: the events are one unbroken story ending in the cart.
HistoryChain == C!HistoryChain

\* As in module Cart: only a rewriting method can leave two equal lines.
TwinsOnlyByRewriting == C!TwinsOnlyByRewriting

\* As in module Cart: a bounded undo stack.
IsUndoStack == C!IsUndoStack

\* A GET /cart that is overtaken by at most one call of the turn's thread, one
\* that does not take out lines or replace one, answers with the cart before the
\* call or after it, although it takes no lock: an addition is appended behind
\* what it has read, a number or an option list changes in one assignment, and
\* an undo leaves the list under its feet alone.
GetUntorn ==
    [][ (reading /\ ~reading' /\ disturbed <= 1) => got \in {start, items} ]_vars
=============================================================================
