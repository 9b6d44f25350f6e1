# Verification of the ediya cafe agent

A TLA+ model of the ordering agent in `src/app`: what its cart, its tool
handlers, its session store, the turns of its language-model agent, its searches
for menus, its menu index and its demo page do, checked with TLC on small
instances, and theorems about each of them proved with TLAPS for all instances:
every safety invariant and action property that a run checks is also a theorem.
`PROJECT.json` lists the components, the runs, which lines each definition
translates, the hazards and the findings.

## The system

A customer writes to `POST /chat`. The handler finds the customer's
`SessionState` (a cart, a conversation, a lock) and runs one *turn* of the agent
in a worker thread: the language model is asked, it answers with text or with
tool calls, the dispatcher validates a tool call against the menu and changes
the cart, and the model is asked again until it replies. Buttons of the demo
page go to `POST /cart_action`, which calls the same dispatcher.

| Component | State it keeps | Operations | Shared with, called by |
|---|---|---|---|
| Cart, `domain/cart.py` | lines; at most 20 change events with the lines before and after | add, remove, replace, change_option, clear, undo, snapshots | one per session; called by the dispatcher only |
| Menu, `domain/menu.py` | none: a cached dictionary | look-ups of menus, options, categories, stock, slang; keyword search | everything reads it |
| Menu context, `llm/menu_context.py` | none | candidates for a turn from keywords, embeddings and samples | the turn |
| Dispatcher, `dispatcher.py` | none | eight tools: add, remove, replace, change option, check, inquire, done, undo | turns and buttons call it |
| Session store, `services/session_store.py` | sessions with last activity | get_or_create with eviction, reset, reset_all, cleanup of expired ones | all handlers, one event loop |
| Handlers, `api/routers/chat.py`, `cart.py` | local variables across awaits | chat, cart_action, get cart, clear | interleave at awaits; per-session lock |
| Agent turn, `llm/agent/*`, `services/chat_service.py` | the conversation; guards' local state | run_turn, stuck-loop and imitation guards, extraction of the response | runs in a worker thread under the lock |
| Menu index, `llm/rag.py` | index in memory and in a file | load, check, build, save, search | all worker threads and the loop's thread, no lock |
| Demo client, `api/static/app.js` | rendered cart, session id, open option picker, lock of the composer | chat, clicks on the catalog, lines and chips, undo, reset, reload | HTTP; answers are rendered as they come |
| Prompts, tool schema, prices, catalog | none | text, sums, reads | the turn, the handlers |
| Wiring, `main.py`, `deps.py`, `config.py` | singletons | start-up, cleanup task | |

### What is hard here, and what makes each part correct

- **Cart.** Long sequences of changes and undos around the limit of the event
  list. Correct: undo gives back exactly the carts there were, newest first,
  never twice; a refused call changes nothing. `GET /cart` takes no lock and
  reads the lines while a turn's thread is between two assignments. Correct: a
  response that one call overtakes is the cart before the call or after it, as
  far as the code's order of assignments gives that.
- **Menu search.** Scores of different kinds, dictionaries whose order decides
  ties, cuts, a search that raises, an index older than the menu. Correct: the
  model always gets true menus to go by, none twice, and what the customer named
  is not pushed aside by what is merely near.
- **Dispatcher.** Combinations of options, menus, stock and aliases that are
  each valid but not together, and quantities nobody checks. Correct: no line the
  cafe cannot make, whatever was merged, replaced or undone before; and no more
  pieces than in stock and no line without pieces, except by the two calls that
  nothing guards (see below).
- **Store and handlers.** A session is evicted, cleared or expired while its
  requests wait for the lock or run a turn, and is created again. Correct: no
  request works on another session's cart, each cart is changed by one turn
  after the other in order of arrival, the store stays within its limit, every
  request is answered.
- **Agent turn.** A model that answers anything: endless tool calls, imitated
  ones, calls on which a tool raises in the middle. Correct: the turn ends, the
  conversation the model sees is well formed and not stale, and the response
  tells what was done.
- **Demo client.** Clicks are sent without waiting, answers come in any order or
  not at all, the server may have forgotten the session, a reset overtakes a
  message, a reload drops the callbacks of what is under way and fetches the cart
  without the lock, in the middle of a turn. Correct: the page shows the cart
  once it has rendered the newest answer or has nothing more to hear, a click
  does what it says whatever became of the line, the composer never stays
  locked.
- **Menu index.** Threads that load, check, build and save at once; edits of the
  menu and restarts at any point. Correct: an outdated index is not used for
  good.

The hazards, each at its line and with the properties that cover it, are in
`PROJECT.json`.

## Modules

| Module | Models | State and actions against the code |
|---|---|---|
| `UndoStack` | what a cart with undo promises | abstract: a value and at most `Limit` earlier ones; `Change`, `Undo` |
| `Cart` | `domain/cart.py` | `items`, `history`, and `reply` (the result's status); one action per writing method, each with the event and the trimming. Snapshots are values; an option list is the bag of its options, since only `same_as` looks at it and sorts it |
| `CartSteps` | `domain/cart.py` under two threads, `GET /cart` | the writer's methods one assignment at a time (`call`, `step`, `before` are a method's arguments, program counter and local snapshot), the reader one line at a time. `Cart` is the abstract specification: instantiated with the committed cart, it is what `ImplementsCart` refines |
| `Menu` | the look-ups of `domain/menu.py` | operators over constants: the dictionary never changes in a process |
| `Lists` | Python's list comprehension and sum | recursive functions, used by `Dispatcher`, `Turn` and `MenuSearch` |
| `Dispatcher` | `dispatcher.py` | extends `Menu` and `Cart`; one action per tool handler: alias, validation in the code's order, then the cart's method |
| `Sessions` | `session_store.py`, `routers/chat.py`, `routers/cart.py` | a step is the code between two awaits. A `SessionState` object is named by the request that constructed it, so that two objects of one session can coexist. The lock is `asyncio.Lock` with its queue |
| `ServiceLine` | what the per-session lock promises | abstract: per object a line of requests; only its first works or leaves, nobody comes twice. `Sessions` implements it (`ServedInLine`): the line is the lock's holder and, behind it, its queue |
| `Turn` | `runner.py`, `guards.py`, `chat_service.py` | the conversation as a sequence of messages, the cart as its list of events. A step is one answer of the model or one dispatched tool call; buttons act between turns |
| `MenuIndex` | `rag.py` | the index, its file, the cached menu; a step is one access to a shared thing by one thread. A menu is the version of the file it was read from |
| `MenuSearch` | the searches of `menu.py`, `menu_context.py`, `rag.py`, and the candidates of `dispatcher.py` | `keyword_menu_search` as operators, the dynamic program and the loops over the dictionary of scores as recursive functions, the dictionary as a sequence in the order of its keys, the sort by the place of each entry; an action per rung of the two ladders (context of a turn, inquiry) and one for a refused order |
| `Client` | `api/static/app.js` over `Dispatcher`, `GET /cart` of `routers/cart.py` | extends `Dispatcher`: the server is the cart of the page's session. A step of the browser is one event: a click up to its `await`, or an answer. On the server a chat, a button and a reset are one step each; a GET is one step per line it reads (`ReadBegins`, `ReadLine`, `ReadEnds`), with chats in between. `flight` is the list of requests with their answers; `version`, `shown` and `excused` are history variables |
| `MC*` | | values of the constants for TLC |
| `CartProofs`, `CartStepsProofs`, `DispatcherProofs` (also of `Client`), `SessionsProofs`, `TurnProofs`, `MenuIndexProofs`, `MenuSearchProofs` | | theorems |
| `ListsProofs` | | what a comprehension and a sum are, for lists of any length |

How they fit together: `CartSteps` implements `Cart`, `Cart` implements
`UndoStack`, and so does `Dispatcher`, which composes `Menu` and `Cart`
literally. `MenuSearch` fills in what `Dispatcher` leaves out of a result. `Sessions` abstracts a turn to
the requests whose tool calls changed a cart, and shows that turns on one
`SessionState` are serial: this is what `Turn`, which has one turn at a time,
relies on. `Turn` abstracts the cart to its events: that a change appends one,
cut at the limit, and an undo removes the newest is what `Cart` says
(`IsUndoStack`). Operators whose comment begins with "Fault" (in `Sessions`,
"As ... below, but") are plausible mistakes: a run in which one of them replaces
its neighbour must violate a property, which shows that the property speaks
about the code.

## Runs

| Run | Instance | Shows |
|---|---|---|
| `cart_steps` | two menus, one option, quantities -1 and 1, two events, two lines, four calls; a reader between any two assignments; 2.4 million states | `HistoryChain`: the events are an unbroken chain to the cart; `ImplementsCart` and `IsUndoStack`: refinement of the one-step methods and of the undo stack; `TwinsOnlyByRewriting`; `GetUntorn`: what a GET without the lock can answer |
| `dispatcher` | a coffee, a dessert of which two are left, one sold out, two options of an exclusive category and one that accumulates, two aliases; additions of 0, 1 and no number, removals of -2, -1, 1 and no number | `LinesOrderable`, `EmptyLineOnlyByAdding` (a line without pieces comes only of adding none), `OversoldOnlyByRemoving` (more than the stock comes only of removing a negative number other than -1), `MergeIsLoop` (merging as bags equals the code's loop), `ChangeOptionSettles` (after a change of options one exclusive option remains per category asked for) |
| `sessions` | three requests, three sessions, a store of two, two changes a turn | `Capacity`, `Isolation`, `ArrivalOrder`, `LockDiscipline`, `ServedInLine` (refinement of the service line), `RemovedForGood` (no late answer revives a removed session), `EveryRequestAnswered` |
| `turn` | two turns of three round trips and two calls, an event list of two, a guard's window of two | `FreshContext`, `ProtocolKept`, `UserAnswered`, `TraceFaithful`, `ReportedAreNew`, `ConversationKnowsCart`, `LoopBroken`, `TurnEnds` |
| `client` | three requests of a page, two menus, two options that exclude each other and one that accumulates; a GET is overtaken by chats between any two lines | `PageShowsCart`, `ChipChooses` (a click on a chip chooses its option in the line that is then the menu's first), `ComposerFreed` |
| `menu_search` | four menus of two categories, two ambiguous aliases, an index that has a menu too many and one too few, all texts of up to five of three letters | `TypeOK` (no menu twice, never more than the limit), `Grounded` (the model is never left without menus), `StrongestShown` (against a reference definition of how strongly a text points to a menu) |
| `menu_index` | three threads, an edit, two starts, two embedding models | `CheckedWhenQuiet`, `OutdatedReplaced` |

Five runs end in a violation: each shows a place where the program does not do
what its own text says.

| Run | The text | The code |
|---|---|---|
| `remove_all` | `tools.py:79`: quantity -1 removes all of that menu | `Cart.remove` takes the first line of the menu; lines with other options stay |
| `session_turns` | `session_store.py:5`: a per-session lock serializes requests | the lock is the object's: after a clear, an eviction or an expiry a second object of the session has a lock of its own, and two turns run at once |
| `turn_events` | `chat_service.py:33`: the events newly recorded in this turn | the slice by the earlier length is empty at the limit, and short after an undo |
| `stale_picker` | `app.js:524`, `:628`: the open picker is refreshed with the new line | the chips' handlers keep the line the picker was opened on; only their colours change, so that a click on a lit chip can ask for its option once more |
| `menu_index_edit` | `README.md:228`: the index is rebuilt when `menu_data.yaml` changes | the build stamps the menu cached earlier with the file's present time; after a restart it passes for fresh |

Seen while modelling, without a run of its own: `remove_menu` with a quantity
below -1 adds pieces (`cart.py:123`), without a look at the stock, and `add_menu`
takes zero and negative quantities (`dispatcher.py:90`). `_add_menu` and
`_replace_menu` validate each option alone and accept two of an exclusive
category, of which `_change_option` leaves one. A chip that is switched off
sends the remaining options, which `_change_option` merges into the present
ones: only the last option of a line can be taken away that way. The minus and
the cross of a line name its menu, so that they act on the first line of the
menu. An answer of a session that was reset meanwhile puts the old cart back on
the page (`app.js:598`), and a message that failed may be sent again although
its tool calls were carried out. A page that is loaded anew while a turn runs may
show a cart that never was, half of it from before a call and half from after
(`routers/cart.py:33`), until its next newest answer: the turn's own answer has no
callback any more. The docstring at
`dispatcher.py:174` says shot options accumulate, the set and the comment above
it that they exclude each other; the code follows the latter. The guard against
loops reads the conversation of all turns: a customer who makes the same request
in three turns gets the fallback on the third, although the cart has changed. It
fills its window backwards over messages but forwards within one
(`guards.py:25`): after messages [undo, add] and [add, add] it compares add, add,
undo and finds no loop, although its docstring speaks of the most recent calls.
When nothing fits a text, the comment at `menu_context.py:125` promises one menu
of each category; two of each are collected and cut to eight, which is the first
four categories of ten (`ContextShown`). `GetUntorn` leaves out calls that take
a line out, empty the cart or replace a line: a GET during these may miss a line
behind the removed one, or show the new menu with the old options.

### Bounds, and why they are enough

- *Event list* (20 in the code): one or two. Trimming, an undo past a trimming
  and a change after several undos happen at any limit; the proofs cover all.
- *Lines, quantities*: two lines show merging, rewriting into each other and
  removal of the wrong one; quantities reach the stock and its boundary. The
  bounds are guards (`MaxLines`, `MaxQuantity`) that refuse a call that would
  exceed them, and the proofs do not depend on their values.
- *Calls, reader*: `MaxCalls` of `CartSteps` is four: two to fill the list of
  events, one to trim it, one to undo past the trimming; a read is overtaken by
  any part of them. `disturbed` counts only to two, since more is not
  distinguished.
- *Texts*: names of two and three letters, one inside another, and texts of five
  hold two names, a name and an alias, or parts of several; three letters suffice
  for parts that are common but not adjacent. The limits are one below what the
  searches can find, so that every cut is met.
- *Requests, sessions*: three requests put a holder and two waiters on one
  object, or create a second object for the session while the first is in use;
  three sessions overfill a store of two. `MaxCalls` bounds the changes of a turn: two, to see another request's
  change in between. Each request is sent once, so a run of the model may stop:
  `CHECK_DEADLOCK FALSE` in the configurations of `Sessions` and `Client`.
- *Page*: three requests: an answer, one that overtakes it, and a click on what
  either left; or a chat that orders, a click that is lost and a reset; or a
  chat that orders, one that goes on beside a reload, and the reload's fetch. A
  chat makes at most one tool call, which bounds quantities too. With three
  requests a fetch meets one line at most before the chat beside it: the torn
  answers reached are a line half replaced, an addition behind what was read, a
  removal and an undo under the reader. Reads of several lines need more
  requests; the theorem covers any number.
- *Turn*: two turns show what one leaves to the next, including one that raised;
  three round trips hold an imitated call, a retry and a reply. The window of
  the guard is scaled with them from three to two.
- *Index*: three threads are a loader, a builder and one that reads; one edit
  and two starts suffice for a stale file.

### Abstractions that matter

Nothing enforces a quantity: `/cart_action` takes any arguments, and the schemas
of the tools are a request to the model (`remove_menu` has no minimum,
`tools.py:77`). Quantities are therefore constants of any integers and one value
that is no number, and the properties say which calls have an effect on the
stock that nothing checks. Time in `Sessions` is a counter that orders touches;
an expiry takes any cutoff, so that every expiry the clock can cause is
included, and more.

In `Client` chats and buttons are one step each, in any order, which is what the
lock of the session gives (`TurnsOfSessionSerialized` shows where it does not:
after a clear). `GET /cart` takes no lock. It is one piece of the event loop, as
are buttons, resets and evictions, so these cannot come between its reads
(`NoneReading`), but the thread of a chat can, with any of its calls: a line
that is read is the line as it is then; at the line the reader stands at it may
get any pair of old and new menu and options of a `replace` (`Mixed`), or go on
after it; an undo leaves the reader the old list (`Beside`). A chat is one call
at most, so one fetch is beside several calls only when several chats are.
`PageShowsCart` counts versions of the cart, not time: an answer has the version
of the cart it was made with, a fetch the one at its first read. A page that has
rendered an answer of the newest version must show the cart, with no exception;
one that has no answer to wait for must too, with four exceptions, each a thing
the code does, which last until the page renders an answer of the newest
version: an answer that came after a newer one was rendered over it (also one of
a session that was reset); an answer that would have told it was lost; a chat
that failed, or a request from before a reload, whose callback is gone, changed
the cart; the server forgot the session. A fetch torn by a chat counts as older
than the chat, whose answer, still to come, puts the cart right; if the chat
fails or is from before the reload, that is the third exception. A request the
page has given up as failed is not carried out later, and the requests of a
session are handled before the page drops the session: afterwards only their
answers show. A reload keeps the session's id, which `localStorage` holds, and
loses every callback; the requests under way may still be carried out (`gone`).

In `CartSteps` the reader fetches a line and its three fields in one step: under
CPython's interpreter lock a switch between two bytecodes of `to_dict` is
possible too, and would let a GET pair a line's old menu with its new options
within one call of `replace`, which `GetUntorn` leaves out anyway; no other
method assigns two fields of a line. The writers are one thread, since each
holds the session's lock.

In `MenuSearch` letters stand for characters, a text has no blanks at its ends,
and the embedding search is any ranking of the indexed menus: only which of its
two thresholds a similarity reaches is kept. `MenuSearchAssumption` asks that
the lengths of names keep the three kinds of scores apart (10 times a name's
length above any common part and below the 1000 of an alias), which the names of
`menu_data.yaml`, 3 to 13 characters, do; that names and categories are not
repeated, as keys of a dictionary; that each menu's category is described,
without which the examples of an inquiry could be none; and that no alias or
keyword is empty, so that the early return for an empty text (`menu.py:186`) is
what the search would find anyway.

The clock does not go backwards. `max_sessions` is at least one: with zero the
code takes a minimum of nothing and raises. A client that disconnects and
thereby cancels a handler, and limits of the thread pool, are not modelled. In
`Turn` the ids of tool calls are distinct within a turn, as the protocol of the
model's server has it, and repeat from turn to turn. In `MenuIndex` the time of
the menu file grows with each edit; two edits within the resolution of the file
system's clock are not told apart by the code and not modelled. An exception
between the start of a turn and the user's message (`runner.py:172-179`) is left
out of `Turn`: what can fail there, the embedding search, is caught
(`menu_context.py:122`); the rest formats constants of the process.

### Fairness

`Sessions`: weak fairness of the steps by which a woken request goes on and a
turn returns, per request: the event loop runs ready tasks, the client of the
model has a timeout by default, and `max_round_trips` bounds the turn (this is
`TurnEnds` of `Turn`). Nothing is assumed of arrivals, clears and cleanups.
`Turn`: weak fairness of the turn's next step, for the same timeout and because
tools are plain functions; which answer the model gives is not constrained.
`Client`: weak fairness of the server's handling and of the browser's callback,
per request; that a request or an answer is lost is possible at any time, and
never required.
`MenuIndex`: weak fairness of each thread inside a search; starting searches,
edits and restarts are not fair.

## Proofs

All for every value of the constants, under the assumptions named in the
modules, which TLC evaluates in the runs: `CartAssumption`, `MenuAssumption`,
`DispatcherAssumption`, `SessionsAssumption`, `CartStepsAssumption`,
`ClientAssumption`, `TurnAssumption`, `MenuIndexAssumption`,
`MenuSearchAssumption`. They say what the
constants are (types, a limit of at least one, finitely many options, `None` no
request or session; that a stock is a count or -1 for unlimited, as
`menu.py:100` reads it). One theorem has a hypothesis beyond these, a
fact about the profile, which TLC evaluates too:

- `AliasesNameNoMenu` (`ChipsChoose`): no alias of `profile.yaml` is itself the
  name of a menu; otherwise a click on a line's chip would be resolved to
  another menu.

- `CartProofs`: `TypeCorrect`, `ChainCorrect`, `CartImplementsUndoStack`,
  `TwinsByRewriting`. The
  inductive invariant is `WellFormed /\ HistoryChain`. The chain is what the
  refinement needs: an undo restores the `before` of the newest event, and the
  stack of the abstract module is the sequence of these; the proof shows for
  each method that recording appends the present cart to it and trimming takes
  the oldest, with lemmas about sequences stated once. For the last theorem, the
  twins left by any other method are mapped one to one to twins of before.
- `CartStepsProofs`: `StepsImplementCart`, `StepsTypeCorrect`, `StepsKeepChain`,
  `StepsAreUndoStack`, `StepsTwinsByRewriting` and `ReadsUntorn`. The first gives
  the next four from the
  lemmas of `CartProofs`, instantiated at the committed cart. The invariant says
  for each point of a method how the list in place relates to the method's
  snapshot, so that the step that records (or restores) is the one step of
  `Cart` and all others are stutters of it; and for the reader, that the lines
  read so far are a prefix of the cart before the one call that overtook it or
  of the one after, which appending behind, rewriting one field and leaving the
  old list to its reader all keep.
- `DispatcherProofs`: `DispatcherTypeCorrect`, `OnlyOrderableLines`,
  `DispatcherKeepsUndoStack`, `OversellingFromRemoving`, `EmptyLinesFromAdding`,
  `MergeAsBags`, `ChangedAsAsked`. `LinesOrderable` and what is said of pieces
  speak of the lines of the cart *and* of those in the events, as an undo brings
  the latter back: without them neither would be inductive. Each handler's
  validation gives its line, and the merge of two applicable option bags is
  applicable. For the stock, the handlers compare the pieces asked for and those
  in the cart; that the cart they leave holds no more is a fact about the sum over
  its lines, which changes with one line by that line. It needs that no line
  holds fewer pieces than one, since such a line would hide others from the
  comparison; that this stays so is the other theorem. No quantity is excluded:
  the theorems name the calls that break the promise, and say that no other
  does. The code merges options in a loop
  (`LoopMerges`), which for lists of any length keeps the present options whose
  category is not asked for and takes the last of each exclusive category; two
  of a category asked for cannot remain (`MergedLeavesOne`).
- `SessionsProofs`: `SessionInvariant` and from it `SessionsTypeCorrect`,
  `StoreWithinCapacity`, `SessionsIsolated`, `CartsChangedInArrivalOrder`,
  `LocksDisciplined`, `RemovedStaysRemoved`, `SessionsServeInLine`. The invariant has three parts.
  *Identity*: an object in the store, or used by a handler, was constructed by a
  request that has arrived, for the session it is stored or used under.
  *Capacity* is inductive with the finiteness of the set of live sessions.
  *Service*: the holder of a lock is in its turn, the queue has the waiting
  requests in order of arrival, all after the holder, and every change of a cart
  is by a request that arrived no later than those. The last is what makes the
  arrival order of the changes inductive: a waiter that wakes must come after
  everyone who changed the cart before.
  The last theorem is the refinement of `ServiceLine`: a woken request moves from
  the queue to the holder and stays the first of its line; an arrival that finds
  the lock free but somebody queued goes behind; the object a request takes is
  one it cannot be in line for already.
- `TurnProofs`: `TurnTypeCorrect`, `ContextIsFresh`, `ProtocolIsKept`,
  `EveryUserAnswered`, `TraceIsFaithful`, `NoEventRepeated`, `CartIsKnown`,
  `LoopIsBroken`. The invariant divides the conversation into turns (`Shape`): a
  turn that did not raise is a question, rounds of calls followed by their
  results, and a reply; the turn under way is such a turn cut off between two
  calls; one that raised may end after any message. From it follow the places of
  calls and results (`Protocol`), the single menu context (`OneContext`: a turn
  drops the previous one before it appends its own, also after a turn that
  raised) and the replies. `TurnRecord` ties the response being built to the
  part of the conversation since the turn's start, and hence the trace to this
  turn's results although ids repeat. `Reported` says that the events reported so
  far are older than the length the turn noted at its start, unless the list has
  been cut or undone below it, when the slice is short or empty and repeats
  nothing. `LoopBroken` needs that a window of equal calls of this turn is also
  what the guard sees, though it reads back through all turns.
- `MenuIndexProofs`: `MenuIndexTypeCorrect`, `QuietIndexChecked`. Threads load
  over one another without a lock; the invariant says that whoever published an
  index unchecked is still on its way to check it, and that what a check passes
  on may be replaced, but only by an index that is checked or is to be.
- `DispatcherProofs`, of the page: `PageCorrect`, `ClientTypeCorrect`,
  `ChipsChoose`. The invariant of the first (`PageInv`) is about versions. No
  answer and no page is newer than the cart; an answer as new as the cart carries
  it, a fetch as new that is still reading has the first lines of it (`Begun`),
  and a page as new shows it. Until the page has caught up something that will
  tell it (`Telling`) is on its way, an answer or a read as new as the cart or a
  fetch not yet begun, or the page is excused. A chat beside a fetch makes a new version when it
  changes the cart, so that the torn lines are those of an older answer, and its
  own answer, or the exception when there is none, is what the invariant then
  has. That the handlers answer with lines of the cafe's menus, also to a reader
  of a half-replaced line (`NamedCarts`: such a line need not be one the cafe can
  make), is `ClientInv`, with the lemmas of the first part; so is that at most one
  message is under way and locks the composer, and that a click that chooses an
  option puts it last in its list (`ChipsAsked`), where the merge keeps it.
- `MenuSearchProofs`: `SearchTypeCorrect`, `AlwaysGrounded`, `StrongestAreShown`.
  The last is the correctness of `keyword_menu_search`: what it computes with
  scores agrees with `Level` and `Share`, which speak of the text only. The
  argument goes through the code in its order. The table of the dynamic program
  holds at `(i, j)` the length of the longest common end of the two prefixes, and
  the greatest entry is therefore the length of the longest common part
  (`LongestCommonIs`). Entries put into the dictionary one after the other leave
  each key once, with the greatest score that was put (`PutAllIs`), so that after
  the three loops a menu has exactly the points of the strongest way in which the
  text points to it, and no entry when there is none (`ByNameIs`, `BySlangIs`,
  `ByCategoryIs`). Points order the menus as `Stronger` does, which is where the
  assumption on the lengths of names is needed (`PointsOrder`). The places of the
  sort are a permutation, since an entry's place is one more than the number of
  those before it (`RankedSorts`). The invariant of the ladder (`SearchInv`) adds
  to the three properties what a context has found on its way: the keyword hits,
  and later a list that begins with them. Without it neither the cut nor the
  samples could be shown to leave out only weaker menus: if fewer than the limit
  were found by keywords, everything behind them is of no level, and if as many,
  the cut takes all else away (`CutShows`).
- `ListsProofs`: what the recursive functions of `Lists` compute for lists of any
  length. The library's induction theorems take an operator as a parameter, which
  the provers cannot instantiate; induction is proved here for sets instead
  (`NatSetInduction`, from the order of the natural numbers), and that a function
  defined by recursion over an index exists by gluing its initial parts. Sums of
  lists that differ in one place, or by one place, and the position of each
  element of a comprehension follow.

Only model-checked: liveness under fairness (`EveryRequestAnswered`, `TurnEnds`,
`ComposerFreed`, `OutdatedReplaced`), which the provers do not reach. The five runs
that end in a violation state what does not hold, and have no theorem.

## Not modelled

The prompt and the tool schema are constant text; prices are sums over a
snapshot, which unit tests reach. Catalog, health and static endpoints read
constants. Configuration, logging and request validation are in the assumptions.
The evaluation script is no part of the program. The numbers of a similarity
search, the formatting of candidates and the sections of constant text in a menu
context are left out. Not yet modelled: the race of two first requests in
`get_store`, which only the first requests of a process can meet.

## Plan

1. *Done*: `UndoStack`, `Cart`, `CartSteps`; `Menu`, `Dispatcher`; `Sessions`,
   `ServiceLine`; `Turn`; `MenuIndex`; `Client`; `MenuSearch`; all with proofs.
2. The creation of the store by the first requests.
