-------------------------------- MODULE Turn --------------------------------
(***************************************************************************)
(* The turns of the agent on one SessionState: run_turn and its guards     *)
(* (app/llm/agent/runner.py, guards.py) inside process_message             *)
(* (app/services/chat_service.py), with the buttons of the page            *)
(* (POST /cart_action) between the turns.  The per-session lock lets one   *)
(* of them run at a time (module Sessions).                                *)
(*                                                                         *)
(* The language model is external: it answers anything, or fails.  A tool  *)
(* call is its signature, the name with its arguments; ids of calls are    *)
(* distinct within a turn, as the protocol of the model's server has it.   *)
(* The cart is its list of change events, each known by the turn and the   *)
(* call that made it: what a change or an undo does to this list is in     *)
(* module Cart.  Texts are left out, whether a text imitates a tool call   *)
(* is the model's choice.                                                  *)
(***************************************************************************)
EXTENDS Integers, Sequences, FiniteSets, SequencesExt, Lists

CONSTANTS
  Call,             \* signatures of tool calls
  UndoCall,         \* those that ask for an undo
  MaxRoundTrips,    \* config.max_round_trips
  Window,           \* the window run_turn gives is_stuck_loop
  HistoryLimit,     \* _HISTORY_LIMIT of the cart
  MaxCalls,         \* bound: tool calls in one turn
  MaxTurns          \* bound: turns of the conversation

ASSUME TurnAssumption ==
  /\ UndoCall \subseteq Call
  /\ MaxRoundTrips \in Nat
  /\ Window \in Nat \ {0}
  /\ HistoryLimit \in Nat \ {0}
  /\ MaxCalls \in Nat
  /\ MaxTurns \in Nat

VARIABLES
  history,          \* SessionState.history: the messages, in order
  events,           \* Cart._history: who made each change that can be undone
  turn,             \* the number of turns begun
  pc,               \* where the turn is
  round_trips,      \* requests the turn made to the model
  guard_used,       \* hallucination_guard_used
  pending,          \* tool calls of the last message still to be dispatched
  events_before,    \* the local variable of process_message
  dispatched,       \* for the properties: the calls of the turn with outcomes
  raised            \* for the properties: the turns that ended in an exception

locals == <<round_trips, guard_used, pending, events_before, dispatched>>
vars == <<history, events, turn, pc, locals, raised>>

-----------------------------------------------------------------------------
(* Messages *)

\* "prompt", "context" and "hint" are the messages of role system; "calls" and
\* "reply" those of the assistant.
SystemKind == {"prompt", "context", "hint"}
Kind       == SystemKind \cup {"user", "calls", "result", "reply"}
Outcome    == {"none", "changed", "undone", "refused"}

Message == [kind : Kind, turn : 0..MaxTurns, calls : Seq(Call), id : Nat,
            outcome : Outcome]

Note(kind, t) ==
  [kind |-> kind, turn |-> t, calls |-> <<>>, id |-> 0, outcome |-> "none"]

\* Ids count a turn's calls: those of a message follow the ones dispatched.
CallsMessage(calls) ==
  [Note("calls", turn) EXCEPT !.calls = calls, !.id = Len(dispatched) + 1]

ResultMessage(outcome) ==
  [Note("result", turn) EXCEPT !.id = Len(dispatched) + 1, !.outcome = outcome]

IsCalls(message) == message.kind = "calls"

\* Fault: the context of earlier turns stays in the conversation.
KeptWhole(h) == IF h = <<>> THEN <<Note("prompt", 0)>> ELSE h

\* Fault: the results of tools go as well, to keep the conversation short.
KeptShort(h) ==
  IF h = <<>> THEN <<Note("prompt", 0)>>
  ELSE ElementsAt(h, {1} \cup {i \in DOMAIN h : h[i].kind \notin SystemKind \cup {"result"}})

\* _prepare_history: the prompt stays, other system messages go.
Prepared(h) ==
  IF h = <<>> THEN <<Note("prompt", 0)>>
  ELSE ElementsAt(h, {1} \cup {i \in DOMAIN h : h[i].kind \notin SystemKind})

-----------------------------------------------------------------------------
(* The stuck-loop guard *)

\* The signatures the guard reads: message after message from the newest one
\* back, but forward within a message; over the whole conversation.  A message
\* without calls adds none.
Recent(h) == FlattenSeq([i \in DOMAIN h |-> h[Len(h) + 1 - i].calls])

\* Fault: the guard asks for one repetition too many.
StuckOneLate(h) ==
  /\ Len(Recent(h)) >= Window + 1
  /\ \A i \in 1 .. Window + 1 : Recent(h)[i] = Recent(h)[1]

is_stuck_loop(h) ==
  /\ Len(Recent(h)) >= Window
  /\ \A i \in 1 .. Window : Recent(h)[i] = Recent(h)[1]

-----------------------------------------------------------------------------
(* The cart's events *)

\* Fault: the list is never cut.
RecordedUncut(event) == events' = Append(events, event)

Recorded(event) ==
  LET h == Append(events, event)
  IN events' = IF Len(h) > HistoryLimit THEN Tail(h) ELSE h

\* What dispatching a call may do: an undo takes back the newest event, any
\* other call changes the cart or not.
Effect(undo, event, outcome) ==
  \/ undo /\ events # <<>> /\ outcome = "undone" /\ events' = Front(events)
  \/ undo /\ events = <<>> /\ outcome = "refused" /\ UNCHANGED events
  \/ ~undo /\ outcome = "changed" /\ Recorded(event)
  \/ ~undo /\ outcome = "refused" /\ UNCHANGED events

-----------------------------------------------------------------------------
Init ==
  /\ history = <<>>
  /\ events = <<>>
  /\ turn = 0
  /\ pc = "idle"
  /\ round_trips = 0
  /\ guard_used = FALSE
  /\ pending = <<>>
  /\ events_before = 0
  /\ dispatched = <<>>
  /\ raised = {}

\* The local variables go when run_turn and process_message end.
LocalsGone ==
  /\ round_trips' = 0
  /\ guard_used' = FALSE
  /\ pending' = <<>>
  /\ events_before' = 0
  /\ dispatched' = <<>>

\* process_message calls run_turn, up to the loop of round trips.
BeginTurn ==
  /\ pc = "idle"
  /\ turn < MaxTurns
  /\ turn' = turn + 1
  /\ history' = Prepared(history) \o <<Note("context", turn'), Note("user", turn')>>
  /\ events_before' = Len(events)
  /\ pc' = "asking"
  /\ UNCHANGED <<events, round_trips, guard_used, pending, dispatched, raised>>

Asking == pc = "asking" /\ round_trips < MaxRoundTrips

\* The model answers with tool calls.
AnswerCalls(calls) ==
  /\ Asking
  /\ Len(dispatched) + Len(calls) <= MaxCalls
  /\ history' = Append(history, CallsMessage(calls))
  /\ pending' = calls
  /\ round_trips' = round_trips + 1
  /\ pc' = "dispatching"
  /\ UNCHANGED <<events, turn, guard_used, events_before, dispatched, raised>>

\* With conversation h after a result: the next call of the message, or after
\* the last one the guard, which breaks a loop off with a fallback.
Continue(h) ==
  \/ /\ pending' # <<>>
     /\ history' = h
     /\ UNCHANGED pc
  \/ /\ pending' = <<>> /\ is_stuck_loop(h)
     /\ history' = Append(h, Note("reply", turn))
     /\ pc' = "stuck"
  \/ /\ pending' = <<>> /\ ~is_stuck_loop(h)
     /\ history' = h
     /\ pc' = "asking"

\* The cart and the record of the turn after one call.
Dispatch(call, outcome) ==
  /\ Effect(call \in UndoCall, [turn |-> turn, id |-> Len(dispatched) + 1], outcome)
  /\ dispatched' = Append(dispatched, [call |-> call, outcome |-> outcome])

\* Fault: results are appended only when all calls of the message are done.
DispatchAllFirst ==
  LET results == [i \in DOMAIN dispatched' |->
                    [Note("result", turn) EXCEPT !.id = i, !.outcome = dispatched'[i].outcome]]
      first == Last(SelectSeq(history, IsCalls)).id
  IN /\ pc = "dispatching"
     /\ pending' = Tail(pending)
     /\ \E outcome \in Outcome : Dispatch(Head(pending), outcome)
     /\ Continue(IF pending' = <<>>
                 THEN history \o SubSeq(results, first, Len(results))
                 ELSE history)
     /\ UNCHANGED <<turn, round_trips, guard_used, events_before, raised>>

\* The next call of the message is dispatched and its result appended.
DispatchTool ==
  /\ pc = "dispatching"
  /\ pending' = Tail(pending)
  /\ \E outcome \in Outcome :
       /\ Dispatch(Head(pending), outcome)
       /\ Continue(Append(history, ResultMessage(outcome)))
  /\ UNCHANGED <<turn, round_trips, guard_used, events_before, raised>>

\* The model answers with a text that imitates a tool call: once per turn it is
\* told so and asked again.
AnswerImitation ==
  /\ Asking
  /\ ~guard_used
  /\ guard_used' = TRUE
  /\ history' = Append(history, Note("hint", turn))
  /\ round_trips' = round_trips + 1
  /\ UNCHANGED <<events, turn, pc, pending, events_before, dispatched, raised>>

\* Any other text is a reply; it ends the turn if the model says it is done.
AnswerText(finish) ==
  /\ Asking
  /\ history' = Append(history, Note("reply", turn))
  /\ round_trips' = round_trips + 1
  /\ pc' = IF finish = "stop" THEN "replied" ELSE "asking"
  /\ UNCHANGED <<events, turn, guard_used, pending, events_before, dispatched, raised>>

\* Fault: the fallback text is returned without being added to the history.
LimitUnrecorded ==
  /\ pc = "asking"
  /\ round_trips >= MaxRoundTrips
  /\ pc' = "limit"
  /\ UNCHANGED <<history, events, turn, locals, raised>>

\* Fault: at the limit the texts of the turn are dropped and the model is asked
\* again.
LimitResumed ==
  /\ pc = "asking"
  /\ round_trips >= MaxRoundTrips
  /\ history' = SelectSeq(history, LAMBDA m : m.kind # "reply" \/ m.turn # turn)
  /\ round_trips' = 0
  /\ UNCHANGED <<events, turn, pc, guard_used, pending, events_before, dispatched, raised>>

\* The loop ran out: the turn ends with a fallback.
RoundTripLimit ==
  /\ pc = "asking"
  /\ round_trips >= MaxRoundTrips
  /\ history' = Append(history, Note("reply", turn))
  /\ pc' = "limit"
  /\ UNCHANGED <<events, turn, locals, raised>>

\* The request to the model fails, or a tool raises on arguments it was not
\* made for: nothing is undone, the client gets a 500.
Raise ==
  /\ Asking \/ pc = "dispatching"
  /\ raised' = raised \cup {turn}
  /\ pc' = "idle"
  /\ LocalsGone
  /\ UNCHANGED <<history, events, turn>>

Returned == {"replied", "stuck", "limit"}

\* process_message builds the response from the state run_turn left.
Respond ==
  /\ pc \in Returned
  /\ pc' = "idle"
  /\ LocalsGone
  /\ UNCHANGED <<history, events, turn, raised>>

\* POST /cart_action between two turns.
CartAction ==
  /\ pc = "idle"
  /\ \E undo \in BOOLEAN, outcome \in Outcome :
       Effect(undo, [turn |-> 0, id |-> 0], outcome)
  /\ UNCHANGED <<history, turn, pc, locals, raised>>

-----------------------------------------------------------------------------
(* The response *)

\* Fault: one event too many.
SliceEarlier ==
  SubSeq(events, IF events_before = 0 THEN 1 ELSE events_before, Len(events))

\* cart.history_snapshot()[events_before:]
new_cart_events == SubSeq(events, events_before + 1, Len(events))

\* Fault: results of the whole conversation.
SinceBeginning(h) == h

\* The messages after the newest one of the user.
SinceUser(h) ==
  LET users == {i \in DOMAIN h : h[i].kind = "user"}
      newest == CHOOSE i \in users : \A j \in users : j <= i
  IN IF users = {} THEN <<>> ELSE SubSeq(h, newest + 1, Len(h))

\* The results are found by the id of their call; the newest of one id counts.
ResultOf(since, id) ==
  LET found == {i \in DOMAIN since : since[i].kind = "result" /\ since[i].id = id}
  IN IF found = {} THEN "none"
     ELSE since[CHOOSE i \in found : \A j \in found : j <= i].outcome

\* _extract_turn_tool_calls
tool_calls_trace ==
  LET since == SinceUser(history)
      traced(m) == [k \in DOMAIN m.calls |->
                      [call |-> m.calls[k], outcome |-> ResultOf(since, m.id + k - 1)]]
  IN FlattenSeq([i \in DOMAIN since |-> traced(since[i])])

-----------------------------------------------------------------------------
TurnStep ==
  \/ \E calls \in UNION {[1 .. n -> Call] : n \in 1 .. MaxCalls} : AnswerCalls(calls)
  \/ DispatchTool
  \/ AnswerImitation
  \/ \E finish \in {"stop", "other"} : AnswerText(finish)
  \/ RoundTripLimit
  \/ Raise
  \/ Respond

Next == BeginTurn \/ TurnStep \/ CartAction

Spec == Init /\ [][Next]_vars

\* A turn that began goes on: the model answers or the client's timeout ends
\* the request, and tools return.
FairSpec == Spec /\ WF_vars(TurnStep)

-----------------------------------------------------------------------------
(* Properties *)

TypeOK ==
  /\ history \in Seq(Message)
  /\ events \in Seq([turn : 0 .. MaxTurns, id : Nat])
  /\ Len(events) <= HistoryLimit
  /\ turn \in 0 .. MaxTurns
  /\ pc \in {"idle", "asking", "dispatching"} \cup Returned
  /\ round_trips \in 0 .. MaxRoundTrips
  /\ guard_used \in BOOLEAN
  /\ pending \in Seq(Call)
  /\ pc = "dispatching" <=> pending # <<>>
  /\ events_before \in 0 .. HistoryLimit
  /\ dispatched \in Seq([call : Call, outcome : Outcome \ {"none"}])
  /\ raised \subseteq 1 .. turn

\* Whenever the model is asked, the conversation starts with the prompt and
\* holds exactly one menu context, this turn's, and no hint of an earlier turn:
\* nothing stale stays in it, also after a turn that raised (the docstring of
\* _prepare_history says what stale context would do).
FreshContext ==
  pc = "asking" =>
    /\ Head(history).kind = "prompt"
    /\ \A i \in DOMAIN history : history[i].kind \in {"context", "hint"}
                                   => history[i].turn = turn
    /\ Cardinality({i \in DOMAIN history : history[i].kind = "context"}) = 1
    /\ Cardinality({i \in DOMAIN history : history[i].kind = "prompt"}) = 1

\* Whenever the model is asked, every message with tool calls is followed by
\* the results of these calls, one each and in order, and no result stands
\* elsewhere; only a turn that raised may have left calls without results.
ProtocolKept ==
  LET n == Len(history)
      answers(i, k) == /\ i + k <= n
                       /\ history[i + k].kind = "result"
                       /\ history[i + k].turn = history[i].turn
                       /\ history[i + k].id = history[i].id + k - 1
  IN pc = "asking" =>
       /\ \A i \in DOMAIN history :
            /\ IsCalls(history[i])
            /\ history[i].turn \notin raised
            => \A k \in DOMAIN history[i].calls : answers(i, k)
       /\ \A j \in DOMAIN history : history[j].kind = "result" =>
            \E i \in 1 .. j - 1 : /\ IsCalls(history[i])
                                  /\ j - i \in DOMAIN history[i].calls
                                  /\ answers(i, j - i)

\* Every message of the user has its reply in the history, as the last message
\* of its turn, unless the turn raised or still runs: also when a fallback
\* ended the turn.
UserAnswered ==
  \A t \in 1 .. turn :
    (t \notin raised /\ (t < turn \/ pc \in Returned \cup {"idle"})) =>
      \E i \in DOMAIN history :
        /\ history[i].kind = "reply" /\ history[i].turn = t
        /\ \A j \in DOMAIN history : history[j].turn = t => j <= i

\* What the response shows as the turn's tool calls is what was dispatched, in
\* order and each with its own result, though the results are looked up in a
\* history with earlier turns whose calls had the same ids.
TraceFaithful == pc \in Returned => tool_calls_trace = dispatched

\* No response repeats an event of an earlier turn or of a button.
ReportedAreNew ==
  pc \in Returned =>
    \A i \in DOMAIN new_cart_events : new_cart_events[i].turn = turn

\* The model knows what it did: each change of the cart by a turn that can
\* still be undone has its result in the conversation, also after a later call
\* of the same message raised.
ConversationKnowsCart ==
  \A i \in DOMAIN events : events[i].turn # 0 =>
    \E j \in DOMAIN history :
      /\ history[j].kind = "result" /\ history[j].outcome = "changed"
      /\ history[j].turn = events[i].turn /\ history[j].id = events[i].id

\* A turn whose messages make one call each is never continued after the same
\* call was dispatched Window times in a row (run_turn's docstring).
LoopBroken ==
  LET n == Len(dispatched)
      single == \A i \in DOMAIN history : history[i].turn = turn => Len(history[i].calls) <= 1
  IN (pc = "asking" /\ single /\ n >= Window) =>
       \E i \in n - Window + 1 .. n : dispatched[i].call # dispatched[n].call

\* A turn ends, whatever the model answers (max_round_trips).
TurnEnds == pc # "idle" ~> pc = "idle"

\* What the docstring of process_message says of the events in a response: they
\* are those newly recorded in this turn.
NewEventsReported ==
  pc \in Returned =>
    new_cart_events = SelectSeq(events, LAMBDA e : e.turn = turn)
=============================================================================
