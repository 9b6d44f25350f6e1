------------------------------- MODULE Client -------------------------------
(***************************************************************************)
(* The demo page, app/api/static/app.js, and the cart it shows.            *)
(*                                                                         *)
(* The page sends a request for every click and renders whatever cart the  *)
(* answer carries; nothing orders the answers, only a chat waits for its   *)
(* own.  The server is the cart of the page's session (Dispatcher).  Chats *)
(* and buttons take the session's lock (Sessions), so each is one step, in *)
(* any order of arrival.  GET /cart takes no lock: it reads the lines one  *)
(* by one.  It does so on the event loop, where buttons, resets and        *)
(* evictions run too, so only the thread of a chat can change the cart     *)
(* under it.                                                               *)
(*                                                                         *)
(* Of a session the page has given up only the answers under way remain.   *)
(* Left out: the transcript, the status pill, toasts, prices and layout;   *)
(* the retry a toast offers is one more message.                           *)
(***************************************************************************)
EXTENDS Dispatcher

CONSTANTS
    MaxRequests,        \* bound of the model: requests the page sends
    NoLine              \* no line is being edited

ASSUME ClientAssumption ==
    /\ MaxRequests \in Nat
    /\ NoLine \notin Line
    /\ IsFiniteSet(Option)

VARIABLES
    session,            \* whether there is a sessionId
    rendered,           \* the cart lines of the page
    popover,            \* the line the option picker was opened on
    lit,                \* the options whose chips look chosen
    inFlight,           \* inFlight: the composer is locked
    flight,             \* the requests sent, in order, each with its answer
    version,            \* history: counts the changes of the session's cart
    shown,              \* history: the version of the answer on the page, 0
                        \* when the page is loaded anew and has none yet
    excused             \* history: the page need not catch up (RenderCart,
                        \* Lose, Handle, Forget) before its next newest answer

pageVars == <<session, rendered, popover, lit, inFlight, shown>>
vars == <<cartVars, pageVars, flight, version, excused>>

\* What is asked of the server: a tool and its arguments.
Call(tool, menu, quantity, options) ==
    [tool |-> tool, menu |-> menu, quantity |-> quantity, options |-> options]

NoCall == Call("none", "", 0, <<>>)

\* A request on its way, with room for its answer: the cart, and its version.
Request(kind, call, chip, on) ==
    [kind |-> kind, state |-> "sent", call |-> call, chip |-> chip, on |-> on,
     cart |-> <<>>, version |-> 0, gone |-> FALSE]

ClientInit ==
    /\ Init
    /\ session = FALSE
    /\ rendered = <<>>
    /\ popover = NoLine
    /\ lit = {}
    /\ inFlight = FALSE
    /\ flight = <<>>
    /\ version = 1 /\ shown = 1 /\ excused = FALSE

-----------------------------------------------------------------------------
(* Sending *)

\* fetch() with the page's session, which ensureSession() creates.  The
\* option a chip stands for, if the click was on one, is kept with it.
Send(kind, call, chip, on) ==
    /\ Len(flight) < MaxRequests
    /\ session' = TRUE
    /\ flight' = Append(flight, Request(kind, call, chip, on))
    /\ UNCHANGED <<cartVars, rendered, version, shown, excused>>

\* Fault: the composer is not locked.
SendUnlocked ==
    /\ Send("chat", NoCall, "", FALSE)
    /\ inFlight' = TRUE
    /\ UNCHANGED <<popover, lit>>

SendMessage ==
    /\ ~inFlight
    /\ Send("chat", NoCall, "", FALSE)
    /\ inFlight' = TRUE
    /\ UNCHANGED <<popover, lit>>

ClosePicker ==
    /\ popover # NoLine
    /\ popover' = NoLine
    /\ lit' = {}
    /\ UNCHANGED <<cartVars, session, rendered, inFlight, flight, version, shown, excused>>

\* A button outside the picker: the click closes the picker as well.
Click(call) ==
    /\ Send("button", call, "", FALSE)
    /\ popover' = NoLine
    /\ lit' = {}
    /\ UNCHANGED inFlight

ClickCatalogRow ==
    \E menu \in MenuName :
        StockField[menu] # 0 /\ Click(Call("add_menu", menu, 1, <<>>))

\* A list of the options in a bag; the cart does not look at its order.
Listing(options) ==
    LET order == SetToSeq(Option)
    IN  FlattenSeq([n \in 1 .. Len(order) |->
                      [k \in 1 .. options[order[n]] |-> order[n]]])

\* onCartLineControl: +, -, and x of a line on the page.
ClickLine ==
    \E i \in DOMAIN rendered :
        \/ Click(Call("add_menu", rendered[i].menu, 1, Listing(rendered[i].options)))
        \/ Click(Call("remove_menu", rendered[i].menu, 1, <<>>))
        \/ Click(Call("remove_menu", rendered[i].menu, -1, <<>>))

\* The button is disabled while the page shows no line.
ClickUndo ==
    /\ rendered # <<>>
    /\ Click(Call("undo", "", 0, <<>>))

ChosenIn(line) == {o \in Option : line.options[o] > 0}

OpenPicker ==
    \E i \in DOMAIN rendered :
        /\ popover' = rendered[i]
        /\ lit' = {o \in ChosenIn(rendered[i]) :
                      is_option_applicable(o, MenuCategory[rendered[i].menu])}
        /\ UNCHANGED <<cartVars, session, rendered, inFlight, flight,
                       version, shown, excused>>

\* Fault: rivals are left in, and the new option is listed first.
ToggledFirst(current, chip) ==
    IF chip \in current
    THEN SetToSeqs(current \ {chip})
    ELSE {<<chip>> \o list : list \in SetToSeqs(current)}

\* The option lists a click on a chip may ask for: the line's options, in the
\* order they have, without the chip's, or followed by it instead of its
\* rivals of an exclusive category.
Toggled(current, chip) ==
    IF chip \in current
    THEN SetToSeqs(current \ {chip})
    ELSE {Append(list, chip) : list \in
            SetToSeqs({o \in current : CategoryOf(o) = CategoryOf(chip)
                                         => CategoryOf(o) \notin Exclusive})}

\* toggleOption: by the line the picker was opened on, not by what is lit.
ClickChip ==
    /\ popover # NoLine
    /\ \E chip \in OptionName :
         /\ is_option_applicable(chip, MenuCategory[popover.menu])
         /\ \E options \in Toggled(ChosenIn(popover), chip) :
              Send("button", Call("change_option", popover.menu, 0, options),
                   chip, chip \notin ChosenIn(popover))
    /\ UNCHANGED <<popover, lit, inFlight>>

\* performReset, up to its await: the page stays as it is until then.
ClickReset ==
    /\ session
    /\ Send("reset", NoCall, "", FALSE)
    /\ popover' = NoLine
    /\ lit' = {}
    /\ UNCHANGED inFlight

\* The server may still carry out what the page asked for before it was
\* loaded anew, but no callback is left for the answer.
Abandoned == [r \in DOMAIN flight |-> [flight[r] EXCEPT !.gone = TRUE]]

\* Loading the page again: only the session's id outlives it, and fetchCart()
\* asks for its cart.
Reload ==
    /\ rendered' = <<>>
    /\ popover' = NoLine
    /\ lit' = {}
    /\ inFlight' = FALSE
    /\ excused' = FALSE
    /\ \/ /\ ~session
          /\ flight' = Abandoned
          /\ shown' = version
       \/ /\ session
          /\ Len(flight) < MaxRequests
          /\ flight' = Append(Abandoned, Request("get", NoCall, "", FALSE))
          /\ shown' = 0
    /\ UNCHANGED <<cartVars, session, version>>

-----------------------------------------------------------------------------
(* The server *)

\* The tool calls of a chat: none or one, the model chooses.
ChatCall ==
    \/ CheckCart
    \/ CartUndo
    \/ \E name \in Name, options \in OptionList :
         AddMenu(name, 1, options) \/ ChangeOption(name, options)
    \/ \E name \in Name : RemoveMenu(name, -1)
    \/ \E from \in Name, to \in Name, options \in OptionList :
         ReplaceMenu(from, to, options)

\* dispatch_tool of a button's request.
ButtonCall(call) ==
    \/ call.tool = "add_menu" /\ AddMenu(call.menu, call.quantity, call.options)
    \/ call.tool = "remove_menu" /\ RemoveMenu(call.menu, call.quantity)
    \/ call.tool = "change_option" /\ ChangeOption(call.menu, call.options)
    \/ call.tool = "undo" /\ CartUndo

\* The session is gone; the next request of its id starts an empty one.
Forgotten ==
    /\ items' = <<>>
    /\ history' = <<>>
    /\ reply' = "READY"

Reading(r) == flight[r].state = "reading"

NoneReading == \A q \in DOMAIN flight : ~Reading(q)

\* What a reader may take a line for that replace() writes meanwhile: its menu
\* and its options are two assignments, and two reads.
Mixed(i) ==
    {[items[i] EXCEPT !.menu = menu, !.options = options] :
        menu \in {items[i].menu, items'[i].menu},
        options \in {items[i].options, items'[i].options}}

\* What a reader may have got of the line it is at when the chat is done: the
\* line mixed, or nothing yet.  Elsewhere a line is as before or as after.
Glimpses ==
    {<<>>} \cup UNION { {<<line>> : line \in Mixed(Len(flight[q].cart) + 1)} :
        q \in {p \in DOMAIN flight :
                 /\ Reading(p) /\ reply' = "REPLACED"
                 /\ Len(flight[p].cart) + 1 \in DOMAIN items \cap DOMAIN items'} }

\* A request beside a chat that changes the cart: a reader goes on in the lines
\* as they are then, except after an undo, which makes a new list of new lines.
Beside(request, glimpse) ==
    IF request.state # "reading" \/ items' = items THEN request
    ELSE IF reply' = "UNDONE"
    THEN [request EXCEPT !.state = "answered",
                         !.cart = @ \o SubSeq(items, Len(@) + 1, Len(items))]
    ELSE [request EXCEPT !.cart = @ \o glimpse]

\* The request is handled, with the cart as it is then in its answer.
Served(r, state, glimpse) ==
    /\ version' = IF items' = items THEN version ELSE version + 1
    /\ flight' = [q \in DOMAIN flight |->
                     IF q = r
                     THEN [flight[r] EXCEPT !.state = state, !.cart = items',
                                            !.version = version']
                     ELSE Beside(flight[q], glimpse)]
    /\ UNCHANGED pageVars

\* process_message under the lock.  It may fail halfway, with what its tools did
\* to the cart done; no answer tells the page then, nor one it has no callback
\* for.
HandleChat(r) ==
    /\ flight[r].kind = "chat" /\ flight[r].state = "sent"
    /\ ChatCall
    /\ \E state \in {"answered", "failed"}, glimpse \in Glimpses :
         /\ Served(r, state, glimpse)
         /\ excused' = \/ excused
                       \/ items' # items /\ (flight[r].gone \/ state = "failed")

\* cart_action and clear: not beside a reader.
HandleClick(r) ==
    /\ flight[r].state = "sent"
    /\ NoneReading
    /\ \/ flight[r].kind = "button" /\ ButtonCall(flight[r].call)
       \/ flight[r].kind = "reset" /\ Forgotten
    /\ Served(r, "answered", <<>>)
    /\ excused' = (excused \/ (items' # items /\ flight[r].gone))

\* get_cart: the snapshot of the lines, one by one, and the answer.
ReadBegins(r) ==
    /\ flight[r].kind = "get" /\ flight[r].state = "sent"
    /\ NoneReading
    /\ flight' = [flight EXCEPT ![r].state = "reading", ![r].version = version]
    /\ UNCHANGED <<cartVars, pageVars, version, excused>>

ReadLine(r) ==
    /\ Reading(r)
    /\ Len(flight[r].cart) < Len(items)
    /\ flight' = [flight EXCEPT ![r].cart = Append(@, items[Len(@) + 1])]
    /\ UNCHANGED <<cartVars, pageVars, version, excused>>

ReadEnds(r) ==
    /\ Reading(r)
    /\ Len(flight[r].cart) >= Len(items)
    /\ flight' = [flight EXCEPT ![r].state = "answered"]
    /\ UNCHANGED <<cartVars, pageVars, version, excused>>

\* A step of the handler of a request.
Handle(r) ==
    /\ r \in DOMAIN flight
    /\ \/ HandleChat(r) \/ HandleClick(r)
       \/ ReadBegins(r) \/ ReadLine(r) \/ ReadEnds(r)

\* Eviction, expiry, or a restart, which also loses requests (Lose).  Nothing
\* tells the page.
Forget ==
    /\ session
    /\ NoneReading
    /\ Forgotten
    /\ version' = IF items = <<>> THEN version ELSE version + 1
    /\ excused' = (excused \/ items # <<>>)
    /\ UNCHANGED <<pageVars, flight>>

\* A request does not arrive, or its answer does not.  The page is excused if it
\* was to learn something from it.
Lose(r) ==
    /\ r \in DOMAIN flight
    /\ flight[r].state \in {"sent", "answered"}
    /\ flight' = [flight EXCEPT ![r].state = "failed"]
    /\ excused' = \/ excused
                  \/ /\ ~flight[r].gone
                     /\ \/ flight[r].kind = "get"
                        \/ flight[r].state = "answered" /\ flight[r].version > shown
    /\ UNCHANGED <<cartVars, pageVars, version>>

-----------------------------------------------------------------------------
(* Answers *)

\* The request is over; what it was is of no further use.
Over(r) == [flight EXCEPT ![r] = [Request("over", NoCall, "", FALSE)
                                    EXCEPT !.state = "over"]]

\* What an answer means for the page: with the newest cart it has caught up; an
\* answer older than the one before it, overtaken by that or of a session given
\* up, excuses it.
Shows(answer) ==
    /\ shown' = answer.version
    /\ excused' = (answer.version # version /\ (excused \/ answer.version < shown))

\* Fault: a chat's answer is written to the transcript only.
RenderButtons(r) ==
    /\ rendered' = IF flight[r].kind = "chat" THEN rendered ELSE flight[r].cart
    /\ Shows(flight[r])

\* renderCart of the answer's cart, whatever came before it and whatever
\* session it is of.
RenderCart(r) ==
    /\ rendered' = flight[r].cart
    /\ Shows(flight[r])

ChatAnswered(r) ==
    /\ flight[r].kind = "chat" /\ flight[r].state = "answered"
    /\ RenderCart(r)
    /\ inFlight' = FALSE
    /\ UNCHANGED <<cartVars, session, popover, lit, version>>

\* The chips take the colours of the menu's first line in the answer.
ButtonAnswered(r) ==
    /\ flight[r].kind = "button" /\ flight[r].state = "answered"
    /\ RenderCart(r)
    /\ lit' = IF popover = NoLine THEN {}
              ELSE LET cart == flight[r].cart
                       same == First({i \in DOMAIN cart : cart[i].menu = popover.menu})
                   IN  UNION {ChosenIn(cart[i]) : i \in same}
    /\ UNCHANGED <<cartVars, session, popover, inFlight, version>>

\* Fault: the composer is unlocked only after an answer.
ChatFailedLocked(r) ==
    /\ flight[r].kind = "chat" /\ flight[r].state = "failed"
    /\ UNCHANGED <<cartVars, pageVars, version, excused>>

ChatFailed(r) ==
    /\ flight[r].kind = "chat" /\ flight[r].state = "failed"
    /\ inFlight' = FALSE
    /\ UNCHANGED <<cartVars, session, rendered, popover, lit, version, shown, excused>>

ButtonFailed(r) ==
    /\ flight[r].kind = "button" /\ flight[r].state = "failed"
    /\ UNCHANGED <<cartVars, pageVars, version, excused>>

\* fetchCart: a failure is passed over in silence.
CartFetched(r) ==
    /\ flight[r].kind = "get"
    /\ \/ flight[r].state = "answered" /\ RenderCart(r)
       \/ flight[r].state = "failed" /\ UNCHANGED <<rendered, shown, excused>>
    /\ UNCHANGED <<cartVars, session, popover, lit, inFlight, version>>

\* The end of performReset: the session's id is dropped, not its requests, whose
\* answers are old ones from here on.
PageReset ==
    /\ Forgotten
    /\ session' = FALSE
    /\ rendered' = <<>>
    /\ popover' = NoLine
    /\ lit' = {}
    /\ version' = version + 1
    /\ shown' = version'
    /\ excused' = FALSE
    /\ UNCHANGED inFlight

\* performReset after its await, answered or not.  What the server does with
\* requests of the session from here on shows in their answers only, so they
\* are taken to be handled before.
ResetReturns(r) ==
    /\ flight[r].kind = "reset" /\ flight[r].state \in {"answered", "failed"}
    /\ \A q \in DOMAIN flight : flight[q].state \notin {"sent", "reading"}
    /\ PageReset

\* Without a session there is nothing to wait for, and no cart.
ResetAtOnce ==
    /\ ~session
    /\ rendered' = <<>>
    /\ popover' = NoLine
    /\ lit' = {}
    /\ shown' = version
    /\ excused' = FALSE
    /\ UNCHANGED <<cartVars, session, inFlight, flight, version>>

Return(r) ==
    /\ r \in DOMAIN flight
    /\ ~flight[r].gone
    /\ \/ ChatAnswered(r) \/ ChatFailed(r)
       \/ ButtonAnswered(r) \/ ButtonFailed(r)
       \/ CartFetched(r)
       \/ ResetReturns(r)
    /\ flight' = Over(r)

-----------------------------------------------------------------------------

ClientNext ==
    \/ SendMessage \/ ClickCatalogRow \/ ClickLine \/ ClickUndo
    \/ OpenPicker \/ ClosePicker \/ ClickChip \/ ClickReset
    \/ ResetAtOnce \/ Reload
    \/ Forget
    \/ \E r \in 1 .. MaxRequests : Handle(r) \/ Lose(r) \/ Return(r)

ClientSpec == ClientInit /\ [][ClientNext]_vars

\* The server answers and the browser runs its callbacks; the customer need
\* not click and the network need not fail.
Fairness == \A r \in 1 .. MaxRequests : WF_vars(Handle(r)) /\ WF_vars(Return(r))

FairClientSpec == ClientSpec /\ Fairness

-----------------------------------------------------------------------------
(* Properties *)

Under(kind) ==
    {r \in DOMAIN flight :
        flight[r].kind = kind /\ flight[r].state # "over" /\ ~flight[r].gone}

\* The page is well formed, and its composer is locked exactly while one
\* message is under way, through failures, resets and reloads.
ClientTypeOK ==
    /\ WellFormed
    /\ session \in BOOLEAN
    /\ rendered \in Seq(Line)
    /\ popover \in Line \cup {NoLine}
    /\ lit \subseteq Option
    /\ Len(flight) <= MaxRequests
    /\ Cardinality(Under("chat")) = (IF inFlight THEN 1 ELSE 0)

\* An answer, or a fetch on its way to one, that the page will still hear.
Awaited(r) ==
    /\ ~flight[r].gone
    /\ \/ flight[r].state \in {"answered", "reading"}
       \/ flight[r].kind = "get" /\ flight[r].state = "sent"

\* The page has rendered the newest answer, or has nothing more to hear.
CaughtUp ==
    \/ shown = version
    \/ ~excused /\ \A r \in DOMAIN flight : ~Awaited(r)

\* Whatever was clicked while whatever was under way, the page shows the
\* session's cart once it has rendered the newest answer, and once there is
\* nothing more to hear; also after a fetch that read the lines while a chat
\* changed them.  It is excused, until it next renders the newest answer, only if
\* it rendered an older answer after a newer one, an answer that would have told
\* it of a change was lost, a chat that failed or a request sent before the page
\* was loaded anew changed the cart, or the server forgot the session.
PageShowsCart == CaughtUp => rendered = items

\* No alias is spelt like a menu, as in profile.yaml: a menu's name means it.
AliasesNameNoMenu == DOMAIN Slang \cap MenuName = {}

\* The menu's first line, the one change_option looks for, has the option.
FirstLineHas(menu, option) ==
    \E i \in FirstLine(menu) : items[i].options[option] > 0

\* A click on an unchosen chip chooses its option, whatever other clicks and
\* chats did to the line since the picker was opened, also if they took it away
\* or the session was forgotten: when the server has changed the options or added
\* the menu for it, the menu's first line has the option.
ChipChooses ==
    [][ \A r \in DOMAIN flight :
          /\ flight[r].kind = "button" /\ flight[r].chip # "" /\ flight[r].on
          /\ flight[r].state = "sent" /\ flight'[r].state = "answered"
          /\ reply' \in {"OPTION_CHANGED", "ADDED"}
          => FirstLineHas(flight[r].call.menu, flight[r].chip)' ]_vars

\* The composer is unlocked again, whether the message is answered, fails or
\* is overtaken by a reset or a reload.
ComposerFreed == inFlight ~> ~inFlight

-----------------------------------------------------------------------------
(* What the page's text says and it does not do *)

\* The open picker is brought up to date after an answer (app.js, comments in
\* toggleOption and cartAction): a click on a chip that looks chosen takes its
\* option away, on one that does not adds it.
ChipFollowsColour ==
    [][ Len(flight') > Len(flight) /\ Last(flight').chip # ""
          => (Last(flight').on <=> Last(flight').chip \notin lit) ]_vars
=============================================================================
