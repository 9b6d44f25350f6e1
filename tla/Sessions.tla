------------------------------ MODULE Sessions ------------------------------
(***************************************************************************)
(* The in-memory session store (app/services/session_store.py) and the     *)
(* request handlers that share it (app/api/routers/chat.py, cart.py).      *)
(*                                                                         *)
(* All handlers are coroutines of one event loop: the code between two     *)
(* awaits is one step.  A handler awaits in two places only, the           *)
(* acquisition of a contended per-session lock and the turn of the agent,  *)
(* which runs in a worker thread (asyncio.to_thread).                      *)
(*                                                                         *)
(* A SessionState object is named by the request whose get_or_create       *)
(* constructed it, since a request constructs at most one: an object can   *)
(* outlive its entry in the store, and then two objects exist for one      *)
(* session.  Time is a counter that every touch of a session advances, so  *)
(* that last_activity keeps its order; an age is not measured, expiry      *)
(* takes any cutoff.  A cart is the sequence of the requests whose tool    *)
(* calls changed it (what a change does to a cart is module Cart).         *)
(***************************************************************************)
EXTENDS Integers, Sequences, FiniteSets

CONSTANTS
  Session,      \* session ids the clients use
  Request,      \* the HTTP requests, each issued at most once
  MaxSessions,  \* settings.max_sessions
  MaxCalls,     \* bound: changes one turn of the agent makes to its cart
  None          \* no object, no holder, no session

ASSUME SessionsAssumption ==
  /\ MaxSessions \in Nat \ {0}
  /\ MaxCalls \in Nat
  /\ None \notin Session \cup Request

VARIABLES
  store,          \* SessionStore._sessions: the object of each session, or None
  last_activity,  \* of each object
  clock,          \* time.time()
  holder,         \* the request holding each object's asyncio.Lock, or None
  queue,          \* the lock's waiters, in order
  cart,           \* each object's cart: the requests that changed it, in order
  pc,             \* where each request is
  session,        \* the session_id each request came with, once it has arrived
  object,         \* the local variable state of its handler
  arrival         \* when its handler took the object

storeVars   == <<store, last_activity, clock>>
requestVars == <<session, object, arrival>>
vars == <<store, last_activity, clock, holder, queue, cart,
          pc, session, object, arrival>>

Waiting  == {"chat_waits", "action_waits"}
Answered == {"answered", "failed"}
PC       == {"unsent", "turn"} \cup Waiting \cup Answered

Live == {s \in Session : store[s] # None}

Init ==
  /\ store = [s \in Session |-> None]
  /\ last_activity = [o \in Request |-> 0]
  /\ clock = 0
  /\ holder = [o \in Request |-> None]
  /\ queue = [o \in Request |-> <<>>]
  /\ cart = [o \in Request |-> <<>>]
  /\ pc = [r \in Request |-> "unsent"]
  /\ session = [r \in Request |-> None]
  /\ object = [r \in Request |-> None]
  /\ arrival = [r \in Request |-> 0]

-----------------------------------------------------------------------------
(* SessionStore.get_or_create                                              *)

FullOneLate == Cardinality(Live) > MaxSessions

Full == Cardinality(Live) >= MaxSessions

Oldest(q) ==
  /\ q \in Live
  /\ \A other \in Live : last_activity[store[q]] <= last_activity[store[other]]

\* The object a new session would get if sessions shared one SessionState, as
\* through a mutable default.
SharedState(r) == IF Live = {} THEN r ELSE store[CHOOSE s \in Live : TRUE]

\* The object a new session gets: a SessionState constructed by request r.
NewState(r) == r

\* Insert a new object for s; when the store is full, pop the session with the
\* least last_activity first, whether or not a request still uses it.
Insert(r, s) ==
  IF Full
  THEN \E q \in Session :
         Oldest(q) /\ store' = [store EXCEPT ![q] = None, ![s] = NewState(r)]
  ELSE store' = [store EXCEPT ![s] = NewState(r)]

\* The entry get_or_create reads, if it were read before the insertion.
EntryBefore(s) == store[s]

\* The object get_or_create returns: the entry it reads after the insertion.
Entry(s) == store'[s]

get_or_create(r, s) ==
  /\ IF s \in Live THEN UNCHANGED store ELSE Insert(r, s)
  /\ clock' = clock + 1
  /\ last_activity' = [last_activity EXCEPT ![store'[s]] = clock']
  /\ session' = [session EXCEPT ![r] = s]
  /\ object' = [object EXCEPT ![r] = Entry(s)]
  /\ arrival' = [arrival EXCEPT ![r] = clock']

-----------------------------------------------------------------------------
(* asyncio.Lock, as "async with state.lock" uses it                        *)

\* As Free below, but barging past the requests that wait.
Barging(o) == holder[o] = None

\* acquire() takes the lock without waiting only if nobody waits either.
Free(o) == holder[o] = None /\ queue[o] = <<>>

Enqueue(r, o) ==
  /\ queue' = [queue EXCEPT ![o] = Append(@, r)]
  /\ UNCHANGED <<holder, cart>>

\* Request r, first of those that wait for its object, is woken.
Woken(r) ==
  LET o == object[r] IN
  /\ holder[o] = None
  /\ queue[o] # <<>>
  /\ Head(queue[o]) = r
  /\ queue' = [queue EXCEPT ![o] = Tail(@)]

\* As Release below, but forgetting it: an acquire() without a finally.
Leak(o) == holder

Release(o) == [holder EXCEPT ![o] = None]

-----------------------------------------------------------------------------
(* POST /chat                                                              *)

\* The handler up to its first await: it holds the lock and its turn runs in a
\* worker thread, or it waits for the lock.
ChatArrives(r, s) ==
  /\ pc[r] = "unsent"
  /\ get_or_create(r, s)
  /\ LET o == store'[s] IN
     \/ /\ Free(o)
        /\ holder' = [holder EXCEPT ![o] = r]
        /\ pc' = [pc EXCEPT ![r] = "turn"]
        /\ UNCHANGED <<queue, cart>>
     \/ /\ ~Free(o)
        /\ Enqueue(r, o)
        /\ pc' = [pc EXCEPT ![r] = "chat_waits"]

ChatWakes(r) ==
  /\ pc[r] = "chat_waits"
  /\ Woken(r)
  /\ holder' = [holder EXCEPT ![object[r]] = r]
  /\ pc' = [pc EXCEPT ![r] = "turn"]
  /\ UNCHANGED <<storeVars, requestVars, cart>>

CallsMade(r) == Cardinality({i \in DOMAIN cart[object[r]] : cart[object[r]][i] = r})

\* The worker thread dispatches a tool that changes the cart of the object the
\* handler took on arrival.
ToolCall(r) ==
  /\ pc[r] = "turn"
  /\ CallsMade(r) < MaxCalls
  /\ cart' = [cart EXCEPT ![object[r]] = Append(@, r)]
  /\ UNCHANGED <<storeVars, requestVars, holder, queue, pc>>

\* As ChatReturns below, but saving the state back under its session.
ChatReturnsSaving(r) ==
  /\ pc[r] = "turn"
  /\ holder' = Release(object[r])
  /\ store' = [store EXCEPT ![session[r]] = object[r]]
  /\ \E outcome \in Answered : pc' = [pc EXCEPT ![r] = outcome]
  /\ UNCHANGED <<last_activity, clock, requestVars, queue, cart>>

\* The thread returned, or raised and the client gets a 500: either way the
\* lock is released, and what the tools did to the cart stays.
ChatReturns(r) ==
  /\ pc[r] = "turn"
  /\ holder' = Release(object[r])
  /\ \E outcome \in Answered : pc' = [pc EXCEPT ![r] = outcome]
  /\ UNCHANGED <<storeVars, requestVars, queue, cart>>

-----------------------------------------------------------------------------
(* POST /cart_action: its critical section awaits nothing, so that the lock *)
(* is taken and released within a step                                      *)

\* dispatch_tool changed the cart, refused the action, or raised.
Dispatch(r, o) ==
  \/ /\ cart' = [cart EXCEPT ![o] = Append(@, r)]
     /\ pc' = [pc EXCEPT ![r] = "answered"]
  \/ /\ \E outcome \in Answered : pc' = [pc EXCEPT ![r] = outcome]
     /\ UNCHANGED cart

CartActionArrives(r, s) ==
  /\ pc[r] = "unsent"
  /\ get_or_create(r, s)
  /\ LET o == store'[s] IN
     \/ /\ Free(o)
        /\ Dispatch(r, o)
        /\ UNCHANGED <<holder, queue>>
     \/ /\ ~Free(o)
        /\ Enqueue(r, o)
        /\ pc' = [pc EXCEPT ![r] = "action_waits"]

CartActionWakes(r) ==
  /\ pc[r] = "action_waits"
  /\ Woken(r)
  /\ Dispatch(r, object[r])
  /\ UNCHANGED <<storeVars, requestVars, holder>>

-----------------------------------------------------------------------------
(* GET /cart, POST /clear and the cleanup task take no lock                *)

\* Reading the cart of a session that exists touches the session; a session
\* that does not exist is not created.
GetCart(r, s) ==
  /\ pc[r] = "unsent"
  /\ pc' = [pc EXCEPT ![r] = "answered"]
  /\ IF s \in Live
     THEN /\ clock' = clock + 1
          /\ last_activity' = [last_activity EXCEPT ![store[s]] = clock']
     ELSE UNCHANGED <<clock, last_activity>>
  /\ UNCHANGED <<store, requestVars, holder, queue, cart>>

\* reset(session_id), or reset_all() when the request names no session.
Clear(r) ==
  /\ pc[r] = "unsent"
  /\ pc' = [pc EXCEPT ![r] = "answered"]
  /\ \E gone \in {{s} : s \in Session} \cup {Session} :
       store' = [s \in Session |-> IF s \in gone THEN None ELSE store[s]]
  /\ UNCHANGED <<last_activity, clock, requestVars, holder, queue, cart>>

\* periodic_cleanup: every session last active before the cutoff now - timeout.
Cleanup ==
  /\ \E cutoff \in 1..clock :
       LET expired == {s \in Live : last_activity[store[s]] <= cutoff} IN
       /\ expired # {}
       /\ store' = [s \in Session |-> IF s \in expired THEN None ELSE store[s]]
  /\ UNCHANGED <<last_activity, clock, requestVars, holder, queue, cart, pc>>

-----------------------------------------------------------------------------
Next ==
  \/ \E r \in Request, s \in Session :
       ChatArrives(r, s) \/ CartActionArrives(r, s) \/ GetCart(r, s)
  \/ \E r \in Request :
       ChatWakes(r) \/ ToolCall(r) \/ ChatReturns(r) \/ CartActionWakes(r) \/ Clear(r)
  \/ Cleanup

Spec == Init /\ [][Next]_vars

\* The event loop runs a woken task; a turn ends, as every call of the model
\* has the client's timeout and the agent bounds its round trips.
Fairness ==
  \A r \in Request :
    WF_vars(ChatWakes(r)) /\ WF_vars(CartActionWakes(r)) /\ WF_vars(ChatReturns(r))

FairSpec == Spec /\ Fairness

-----------------------------------------------------------------------------
(* Properties                                                              *)

\* The types of the variables; a handler that runs has an object and a session.
TypeOK ==
  /\ store \in [Session -> Request \cup {None}]
  /\ last_activity \in [Request -> Nat]
  /\ clock \in Nat
  /\ holder \in [Request -> Request \cup {None}]
  /\ queue \in [Request -> Seq(Request)]
  /\ cart \in [Request -> Seq(Request)]
  /\ pc \in [Request -> PC]
  /\ session \in [Request -> Session \cup {None}]
  /\ object \in [Request -> Request \cup {None}]
  /\ arrival \in [Request -> Nat]
  /\ \A r \in Request : pc[r] \in Waiting \cup {"turn"}
                        => object[r] \in Request /\ session[r] \in Session

\* However requests of many sessions, evictions, expiries and clears interleave,
\* the store never holds more than max_sessions sessions (get_or_create makes
\* room before it inserts).
Capacity == IsFiniteSet(Live) /\ Cardinality(Live) <= MaxSessions

\* A cart is only ever changed by requests that named its session: no eviction,
\* clear or re-creation makes two sessions share a SessionState, or lets a
\* request that waited across one continue on somebody else's cart.
Isolation ==
  /\ \A s \in Live : session[store[s]] = s
  /\ \A o \in Request : \A i \in DOMAIN cart[o] : session[cart[o][i]] = session[o]

\* The turns that share a cart are serial and first come first served: a cart's
\* changes are in the order in which the requests arrived, so that between two
\* changes of one turn there is never another request's.
ArrivalOrder ==
  \A o \in Request : \A i, j \in DOMAIN cart[o] :
    i < j => arrival[cart[o][i]] <= arrival[cart[o][j]]

\* At most one request is in the turn of the agent per SessionState object, it
\* is the holder of the object's lock, and the requests queued for the lock are
\* exactly those whose handler waits for it.
LockDiscipline ==
  /\ \A r \in Request : pc[r] = "turn" => holder[object[r]] = r
  /\ \A o \in Request :
       /\ holder[o] # None => pc[holder[o]] = "turn" /\ object[holder[o]] = o
       /\ {queue[o][i] : i \in DOMAIN queue[o]}
            = {r \in Request : pc[r] \in Waiting /\ object[r] = o}

\* Once cleared, evicted or expired, a SessionState is gone for good: no late
\* answer of a request that still works on it puts it back in the store.
RemovedForGood ==
  [][\A o \in Request :
       (session[o] # None /\ \A s \in Session : store[s] # o)
         => \A s \in Session : store'[s] # o]_vars

\* Every request that arrived is answered, whatever happens to its session
\* while it waits: no lock is left taken and no waiter is forgotten.
EveryRequestAnswered ==
  \A r \in Request : pc[r] \in Waiting \cup {"turn"} ~> pc[r] \in Answered

\* The holder of each object's lock, and behind it those that wait for it.
LineOf(o) == (IF holder[o] = None THEN <<>> ELSE <<holder[o]>>) \o queue[o]

ServiceLines ==
  INSTANCE ServiceLine WITH
    Object <- Request,
    line <- [o \in Request |-> LineOf(o)],
    log <- cart,
    seen <- {r \in Request : object[r] # None}

\* The lock and its queue are a line per SessionState: no request that arrives
\* while a lock changes hands, on a session evicted, cleared or made anew
\* meanwhile, gets past one that waits, and a cart is changed by the first in
\* its line alone.
ServedInLine == ServiceLines!Spec

\* What the store's docstring says of concurrent requests, that a per-session
\* lock serializes them: two turns of one session never run at once.
TurnsOfSessionSerialized ==
  \A r, q \in Request :
    (r # q /\ pc[r] = "turn" /\ pc[q] = "turn") => session[r] # session[q]
=============================================================================
