--------------------------- MODULE SessionsProofs ---------------------------
(***************************************************************************)
(* Theorems of the session store and its handlers, for every set of        *)
(* sessions and requests and every capacity.                               *)
(*                                                                         *)
(* The inductive invariant has three parts, each resting on the ones       *)
(* before it.  Identity: an object that no request constructed yet is      *)
(* nowhere in use, and whoever uses an object names its session.           *)
(* Capacity: the store alone.  Service: the lock's holder and queue are    *)
(* the requests in their turn and those that wait, in the order in which   *)
(* they arrived, and a cart was changed by requests that arrived before    *)
(* all of those.                                                           *)
(***************************************************************************)
EXTENDS Sessions, FiniteSetTheorems, SequenceTheorems, TLAPS

-----------------------------------------------------------------------------
(* The inductive invariant *)

\* A request that was not sent has constructed nothing and holds nothing.
Fresh ==
  \A r \in Request : pc[r] = "unsent" =>
    /\ object[r] = None /\ session[r] = None
    /\ cart[r] = <<>> /\ queue[r] = <<>> /\ holder[r] = None
    /\ \A s \in Session : store[s] # r
    /\ \A q \in Request : object[q] # r

\* A handler's object belongs to the session its request named.
Placed ==
  \A r \in Request : object[r] # None =>
    session[r] \in Session /\ session[object[r]] = session[r]

\* The object in the store under a session belongs to that session.
Stored == \A s \in Live : session[store[s]] = s

\* A cart is changed by requests that work on its object.
Owned == \A o \in Request : \A i \in DOMAIN cart[o] : object[cart[o][i]] = o

Identity == TypeOK /\ Fresh /\ Placed /\ Stored /\ Owned

\* A request in its turn holds the lock of its object, and only such a request
\* holds a lock.
TurnHolds == \A r \in Request : pc[r] = "turn" => holder[object[r]] = r

HolderInTurn ==
  \A o \in Request : holder[o] # None => pc[holder[o]] = "turn" /\ object[holder[o]] = o

\* The queue of a lock is the requests that wait for it, by arrival.
QueuedWait ==
  \A o \in Request : \A i \in DOMAIN queue[o] :
    pc[queue[o][i]] \in Waiting /\ object[queue[o][i]] = o

WaitingQueued ==
  \A r \in Request : pc[r] \in Waiting =>
    \E i \in DOMAIN queue[object[r]] : queue[object[r]][i] = r

QueueByArrival ==
  \A o \in Request : \A i, j \in DOMAIN queue[o] :
    i < j => arrival[queue[o][i]] < arrival[queue[o][j]]

\* A turn is of a request that arrived before those that wait for its object.
TurnBeforeQueue ==
  \A r \in Request : pc[r] = "turn" =>
    \A i \in DOMAIN queue[object[r]] : arrival[r] < arrival[queue[object[r]][i]]

\* A cart's changes are of requests that arrived no later than those that are
\* still to change it.
ChangesBefore ==
  \A r \in Request : pc[r] \in Waiting \cup {"turn"} =>
    \A i \in DOMAIN cart[object[r]] : arrival[cart[object[r]][i]] <= arrival[r]

ArrivedByNow == \A r \in Request : arrival[r] <= clock

Service ==
  /\ TurnHolds /\ HolderInTurn /\ QueuedWait /\ WaitingQueued
  /\ QueueByArrival /\ TurnBeforeQueue /\ ChangesBefore /\ ArrivedByNow
  /\ ArrivalOrder

-----------------------------------------------------------------------------
(* What an arrival does *)

LEMMA ArrivalStep ==
  ASSUME SessionsAssumption, TypeOK, Fresh,
         NEW r \in Request, NEW s \in Session,
         pc[r] = "unsent", get_or_create(r, s)
  PROVE  /\ store'[s] \in Request
         /\ store'[s] = r \/ (s \in Live /\ store'[s] = store[s])
         /\ store' \in [Session -> Request \cup {None}]
         /\ \A q \in Session : q # s => store'[q] \in {store[q], None}
         /\ clock' = clock + 1
         /\ last_activity' \in [Request -> Nat]
         /\ session' = [session EXCEPT ![r] = s]
         /\ object' = [object EXCEPT ![r] = store'[s]]
         /\ arrival' = [arrival EXCEPT ![r] = clock + 1]
<1> USE DEF TypeOK
<1>1. CASE s \in Live
  <2>1. store' = store /\ store[s] \in Request
    BY <1>1 DEF get_or_create, Live
  <2> QED
    BY <1>1, <2>1 DEF get_or_create, Entry
<1>2. CASE s \notin Live
  <2>1. Insert(r, s)
    BY <1>2 DEF get_or_create
  <2>2. \/ store' = [store EXCEPT ![s] = r]
        \/ \E q \in Session : store' = [store EXCEPT ![q] = None, ![s] = r]
    BY <2>1 DEF Insert, NewState
  <2>3. /\ store' \in [Session -> Request \cup {None}]
        /\ store'[s] = r
        /\ \A q \in Session : q # s => store'[q] \in {store[q], None}
    BY <2>2
  <2> QED
    BY <2>3 DEF get_or_create, Entry
<1> QED
  BY <1>1, <1>2

-----------------------------------------------------------------------------
(* Types *)

LEMMA AppendType ==
  ASSUME NEW f \in [Request -> Seq(Request)], NEW o \in Request, NEW r \in Request
  PROVE  [f EXCEPT ![o] = Append(@, r)] \in [Request -> Seq(Request)]
<1>1. Append(f[o], r) \in Seq(Request)
  BY AppendProperties
<1> QED
  BY <1>1

LEMMA TailType ==
  ASSUME NEW f \in [Request -> Seq(Request)], NEW o \in Request, f[o] # <<>>
  PROVE  [f EXCEPT ![o] = Tail(@)] \in [Request -> Seq(Request)]
<1>1. Tail(f[o]) \in Seq(Request)
  BY HeadTailProperties
<1> QED
  BY <1>1

\* An arrival gives the request an object and a session, and leaves those of
\* the others alone.
LEMMA ArrivalTypes ==
  ASSUME SessionsAssumption, TypeOK, Fresh,
         NEW r \in Request, NEW s \in Session,
         pc[r] = "unsent", get_or_create(r, s)
  PROVE  /\ store' \in [Session -> Request \cup {None}]
         /\ last_activity' \in [Request -> Nat]
         /\ clock' \in Nat
         /\ session' \in [Request -> Session \cup {None}]
         /\ object' \in [Request -> Request \cup {None}]
         /\ arrival' \in [Request -> Nat]
         /\ session'[r] = s /\ object'[r] = store'[s] /\ store'[s] \in Request
         /\ \A q \in Request : q # r => session'[q] = session[q] /\ object'[q] = object[q]
<1>1. /\ store'[s] \in Request
      /\ store' \in [Session -> Request \cup {None}]
      /\ clock' = clock + 1
      /\ last_activity' \in [Request -> Nat]
      /\ session' = [session EXCEPT ![r] = s]
      /\ object' = [object EXCEPT ![r] = store'[s]]
      /\ arrival' = [arrival EXCEPT ![r] = clock + 1]
  BY ArrivalStep
<1>2. /\ clock \in Nat
      /\ session \in [Request -> Session \cup {None}]
      /\ object \in [Request -> Request \cup {None}]
      /\ arrival \in [Request -> Nat]
  BY DEF TypeOK
<1>3. session' \in [Request -> Session \cup {None}]
  BY <1>1, <1>2
<1>4. object' \in [Request -> Request \cup {None}]
  BY <1>1, <1>2
<1>5. arrival' \in [Request -> Nat] /\ clock' \in Nat
  BY <1>1, <1>2
<1>6. /\ session'[r] = s /\ object'[r] = store'[s]
      /\ \A q \in Request : q # r => session'[q] = session[q] /\ object'[q] = object[q]
  BY <1>1, <1>2
<1> QED
  BY <1>1, <1>3, <1>4, <1>5, <1>6

LEMMA WokenTypes ==
  ASSUME TypeOK, NEW r \in Request, pc[r] \in Waiting, Woken(r)
  PROVE  queue' \in [Request -> Seq(Request)] /\ object[r] \in Request
<1>1. object[r] \in Request
  BY DEF TypeOK
<1>2. /\ queue \in [Request -> Seq(Request)]
      /\ queue[object[r]] # <<>>
      /\ queue' = [queue EXCEPT ![object[r]] = Tail(@)]
  BY DEF TypeOK, Woken
<1> QED
  BY <1>1, <1>2, TailType

LEMMA DispatchTypes ==
  ASSUME TypeOK, NEW r \in Request, NEW o \in Request, Dispatch(r, o)
  PROVE  /\ cart' \in [Request -> Seq(Request)]
         /\ \E outcome \in Answered : pc' = [pc EXCEPT ![r] = outcome]
<1>1. CASE UNCHANGED cart
  BY <1>1 DEF TypeOK, Dispatch, Answered
<1>2. CASE cart' = [cart EXCEPT ![o] = Append(@, r)]
  BY <1>2, AppendType DEF TypeOK, Dispatch, Answered
<1> QED
  BY <1>1, <1>2 DEF Dispatch

\* What the rest of a handler does after an arrival or a wake-up, seen from the
\* locks, the carts and the request's place.
LEMMA ArrivalKinds ==
  ASSUME TypeOK, NEW r \in Request, NEW s \in Session, NEW o \in Request,
         store'[s] = o, ChatArrives(r, s) \/ CartActionArrives(r, s)
  PROVE  \/ /\ holder[o] = None /\ queue[o] = <<>>
            /\ holder' = [holder EXCEPT ![o] = r]
            /\ pc' = [pc EXCEPT ![r] = "turn"]
            /\ queue' = queue /\ cart' = cart
         \/ /\ holder[o] = None /\ queue[o] = <<>>
            /\ holder' = holder /\ queue' = queue
            /\ Dispatch(r, o)
         \/ /\ holder' = holder /\ cart' = cart
            /\ queue' = [queue EXCEPT ![o] = Append(@, r)]
            /\ \E p \in Waiting : pc' = [pc EXCEPT ![r] = p]
<1>1. CASE ChatArrives(r, s)
  BY <1>1 DEF ChatArrives, Free, Enqueue, Waiting
<1>2. CASE CartActionArrives(r, s)
  BY <1>2 DEF CartActionArrives, Free, Enqueue, Waiting
<1> QED
  BY <1>1, <1>2

LEMMA TypeStep ==
  ASSUME SessionsAssumption, TypeOK, Fresh, [Next]_vars
  PROVE  TypeOK'
<1> USE DEF PC, Waiting, Answered
<1>1. ASSUME NEW r \in Request, NEW s \in Session,
             ChatArrives(r, s) \/ CartActionArrives(r, s)
      PROVE  TypeOK'
  <2>1. pc[r] = "unsent" /\ get_or_create(r, s)
    BY <1>1 DEF ChatArrives, CartActionArrives
  <2>2. /\ store' \in [Session -> Request \cup {None}]
        /\ last_activity' \in [Request -> Nat]
        /\ clock' \in Nat
        /\ session' \in [Request -> Session \cup {None}]
        /\ object' \in [Request -> Request \cup {None}]
        /\ arrival' \in [Request -> Nat]
    BY <2>1, ArrivalTypes
  <2>3. /\ session'[r] = s /\ object'[r] = store'[s] /\ store'[s] \in Request
        /\ \A q \in Request : q # r => session'[q] = session[q] /\ object'[q] = object[q]
    BY <2>1, ArrivalTypes
  <2>4. PICK o \in Request : o = store'[s]
    BY <2>3
  <2>5. /\ holder \in [Request -> Request \cup {None}]
        /\ queue \in [Request -> Seq(Request)]
        /\ cart \in [Request -> Seq(Request)]
        /\ pc \in [Request -> PC]
        /\ \A q \in Request : pc[q] \in Waiting \cup {"turn"}
                              => object[q] \in Request /\ session[q] \in Session
    BY DEF TypeOK
  <2>6. /\ holder' \in [Request -> Request \cup {None}]
        /\ queue' \in [Request -> Seq(Request)]
        /\ cart' \in [Request -> Seq(Request)]
        /\ \E p \in PC : pc' = [pc EXCEPT ![r] = p]
    <3>1. CASE /\ holder' = [holder EXCEPT ![o] = r]
               /\ pc' = [pc EXCEPT ![r] = "turn"]
               /\ queue' = queue /\ cart' = cart
      BY <2>5, <3>1
    <3>2. CASE /\ holder' = holder /\ queue' = queue
               /\ Dispatch(r, o)
      BY <2>5, <3>2, DispatchTypes
    <3>3. CASE /\ holder' = holder /\ cart' = cart
               /\ queue' = [queue EXCEPT ![o] = Append(@, r)]
               /\ \E p \in Waiting : pc' = [pc EXCEPT ![r] = p]
      <4>1. queue' \in [Request -> Seq(Request)]
        BY <2>5, <3>3, AppendType
      <4> QED
        BY <2>5, <3>3, <4>1
    <3> QED
      BY <1>1, <2>4, <3>1, <3>2, <3>3, ArrivalKinds
  <2>7. pc' \in [Request -> PC]
    BY <2>5, <2>6
  <2>8. \A q \in Request : pc'[q] \in Waiting \cup {"turn"}
                          => object'[q] \in Request /\ session'[q] \in Session
    BY <2>3, <2>5, <2>6
  <2> QED
    BY <2>2, <2>6, <2>7, <2>8 DEF TypeOK
<1>2. ASSUME NEW r \in Request, NEW s \in Session, GetCart(r, s)
      PROVE  TypeOK'
  <2>1. clock' \in Nat /\ last_activity' \in [Request -> Nat]
    <3>1. CASE s \in Live
      <4>1. store[s] \in Request
        BY <3>1 DEF Live, TypeOK
      <4>2. clock' = clock + 1 /\ last_activity' = [last_activity EXCEPT ![store[s]] = clock']
        BY <1>2, <3>1 DEF GetCart
      <4> QED
        BY <4>1, <4>2 DEF TypeOK
    <3>2. CASE s \notin Live
      BY <1>2, <3>2 DEF GetCart, TypeOK
    <3> QED
      BY <3>1, <3>2
  <2>2. /\ UNCHANGED <<store, session, object, arrival, holder, queue, cart>>
        /\ pc' = [pc EXCEPT ![r] = "answered"]
    BY <1>2 DEF GetCart, requestVars
  <2> QED
    BY <2>1, <2>2 DEF TypeOK
<1>3. ASSUME NEW r \in Request, ChatWakes(r)
      PROVE  TypeOK'
  <2>1. queue' \in [Request -> Seq(Request)] /\ object[r] \in Request
    BY <1>3, WokenTypes DEF ChatWakes
  <2> QED
    BY <1>3, <2>1 DEF ChatWakes, storeVars, requestVars, TypeOK
<1>4. ASSUME NEW r \in Request, CartActionWakes(r)
      PROVE  TypeOK'
  <2>1. queue' \in [Request -> Seq(Request)] /\ object[r] \in Request
    BY <1>4, WokenTypes DEF CartActionWakes
  <2>2. /\ cart' \in [Request -> Seq(Request)]
        /\ \E outcome \in Answered : pc' = [pc EXCEPT ![r] = outcome]
    BY <1>4, <2>1, DispatchTypes DEF CartActionWakes
  <2> QED
    BY <1>4, <2>1, <2>2 DEF CartActionWakes, storeVars, requestVars, TypeOK
<1>5. ASSUME NEW r \in Request, ToolCall(r)
      PROVE  TypeOK'
  <2>1. object[r] \in Request /\ cart' = [cart EXCEPT ![object[r]] = Append(@, r)]
    BY <1>5 DEF ToolCall, TypeOK
  <2>2. cart' \in [Request -> Seq(Request)]
    BY <2>1, AppendType DEF TypeOK
  <2> QED
    BY <1>5, <2>2 DEF ToolCall, storeVars, requestVars, TypeOK
<1>6. ASSUME NEW r \in Request, ChatReturns(r)
      PROVE  TypeOK'
  BY <1>6 DEF ChatReturns, Release, storeVars, requestVars, TypeOK
<1>7. ASSUME NEW r \in Request, Clear(r)
      PROVE  TypeOK'
  BY <1>7 DEF Clear, requestVars, TypeOK
<1>8. CASE Cleanup
  BY <1>8 DEF Cleanup, requestVars, TypeOK
<1>9. CASE UNCHANGED vars
  BY <1>9 DEF vars, TypeOK
<1> QED
  BY <1>1, <1>2, <1>3, <1>4, <1>5, <1>6, <1>7, <1>8, <1>9 DEF Next

-----------------------------------------------------------------------------
(* Capacity *)

LEMMA CapacityStep ==
  ASSUME SessionsAssumption, TypeOK, Fresh, Capacity, [Next]_vars
  PROVE  Capacity'
<1>1. IsFiniteSet(Live) /\ Cardinality(Live) \in Nat /\ Cardinality(Live) <= MaxSessions
  BY FS_CardinalityType DEF Capacity
<1>2. ASSUME Live' \subseteq Live
      PROVE  Capacity'
  <2>1. IsFiniteSet(Live') /\ Cardinality(Live') <= Cardinality(Live)
    BY <1>1, <1>2, FS_Subset
  <2>2. Cardinality(Live') \in Nat
    BY <2>1, FS_CardinalityType
  <2> QED
    BY <1>1, <2>1, <2>2 DEF Capacity, SessionsAssumption
<1>3. ASSUME NEW r \in Request, NEW s \in Session, pc[r] = "unsent", get_or_create(r, s)
      PROVE  Capacity'
  <2>1. CASE s \in Live
    <3>1. store' = store
      BY <1>3, <2>1 DEF get_or_create
    <3> QED
      BY <1>2, <3>1 DEF Live
  <2>2. CASE s \notin Live /\ ~Full
    <3>1. store' = [store EXCEPT ![s] = r]
      BY <1>3, <2>2 DEF get_or_create, Insert, NewState
    <3>2. Live' = Live \cup {s}
      BY <1>3, <3>1 DEF Live, TypeOK, SessionsAssumption
    <3>3. IsFiniteSet(Live') /\ Cardinality(Live') = Cardinality(Live) + 1
      BY <1>1, <2>2, <3>2, FS_AddElement
    <3> QED
      BY <1>1, <2>2, <3>3 DEF Capacity, Full, SessionsAssumption
  <2>3. CASE s \notin Live /\ Full
    <3>1. PICK q \in Session :
            Oldest(q) /\ store' = [store EXCEPT ![q] = None, ![s] = r]
      BY <1>3, <2>3 DEF get_or_create, Insert, NewState
    <3>2. q \in Live /\ q # s
      BY <2>3, <3>1 DEF Oldest
    <3>3. Live' = (Live \ {q}) \cup {s}
      BY <1>3, <3>1, <3>2 DEF Live, TypeOK, SessionsAssumption
    <3>4. IsFiniteSet(Live \ {q}) /\ Cardinality(Live \ {q}) = Cardinality(Live) - 1
      BY <1>1, <3>2, FS_RemoveElement
    <3>5. IsFiniteSet(Live') /\ Cardinality(Live') = Cardinality(Live)
      <4>1. s \notin Live \ {q}
        BY <2>3
      <4>2. /\ IsFiniteSet((Live \ {q}) \cup {s})
            /\ Cardinality((Live \ {q}) \cup {s}) = Cardinality(Live \ {q}) + 1
        BY <3>4, <4>1, FS_AddElement
      <4> QED
        BY <1>1, <3>3, <3>4, <4>2
    <3> QED
      BY <1>1, <3>5 DEF Capacity
  <2> QED
    BY <2>1, <2>2, <2>3
<1>4. ASSUME NEW r \in Request, NEW s \in Session,
             ChatArrives(r, s) \/ CartActionArrives(r, s)
      PROVE  Capacity'
  BY <1>3, <1>4 DEF ChatArrives, CartActionArrives
<1>5. ASSUME NEW r \in Request, Clear(r)
      PROVE  Capacity'
  BY <1>2, <1>5 DEF Clear, Live
<1>6. CASE Cleanup
  BY <1>2, <1>6 DEF Cleanup, Live
<1>7. CASE store' = store
  BY <1>2, <1>7 DEF Live
<1> QED
  BY <1>4, <1>5, <1>6, <1>7
     DEF Next, GetCart, ChatWakes, ToolCall, ChatReturns, CartActionWakes, storeVars, vars

-----------------------------------------------------------------------------
(* Identity of the objects *)

\* A cart that gets one more change, of a request that works on its object.
LEMMA AppendOwned ==
  ASSUME TypeOK, Owned, NEW r \in Request, NEW o \in Request,
         object'[r] = o,
         \A q \in Request : object[q] # None => object'[q] = object[q],
         SessionsAssumption,
         cart' = cart \/ cart' = [cart EXCEPT ![o] = Append(@, r)]
  PROVE  Owned'
<1>1. \A p \in Request : \A i \in DOMAIN cart[p] :
        cart[p][i] \in Request /\ object'[cart[p][i]] = p
  <2>1. ASSUME NEW p \in Request, NEW i \in DOMAIN cart[p]
        PROVE  cart[p][i] \in Request /\ object'[cart[p][i]] = p
    <3>1. cart[p] \in Seq(Request)
      BY DEF TypeOK
    <3>2. cart[p][i] \in Request
      BY <3>1, ElementOfSeq, LenProperties
    <3>3. object[cart[p][i]] = p
      BY DEF Owned
    <3> QED
      BY <3>2, <3>3 DEF SessionsAssumption
  <2> QED
    BY <2>1
<1>2. CASE cart' = cart
  BY <1>1, <1>2 DEF Owned
<1>3. CASE cart' = [cart EXCEPT ![o] = Append(@, r)]
  <2>1. cart \in [Request -> Seq(Request)]
    BY DEF TypeOK
  <2>2. \A p \in Request : p # o => cart'[p] = cart[p]
    BY <1>3, <2>1
  <2>3. cart'[o] = Append(cart[o], r) /\ cart[o] \in Seq(Request)
    BY <1>3, <2>1
  <2>4. ASSUME NEW i \in DOMAIN cart'[o]
        PROVE  object'[cart'[o][i]] = o
    <3>1. /\ DOMAIN cart'[o] = 1 .. Len(cart[o]) + 1
          /\ DOMAIN cart[o] = 1 .. Len(cart[o])
          /\ Len(cart[o]) \in Nat
          /\ \A j \in 1 .. Len(cart[o]) : cart'[o][j] = cart[o][j]
          /\ cart'[o][Len(cart[o]) + 1] = r
      BY <2>3, AppendProperties, LenProperties
    <3>2. CASE i = Len(cart[o]) + 1
      BY <3>1, <3>2
    <3>3. CASE i \in 1 .. Len(cart[o])
      BY <1>1, <3>1, <3>3
    <3> QED
      BY <3>1, <3>2, <3>3
  <2> QED
    BY <1>1, <2>2, <2>4 DEF Owned
<1> QED
  BY <1>2, <1>3

LEMMA ArrivalIdentity ==
  ASSUME SessionsAssumption, Identity,
         NEW r \in Request, NEW s \in Session,
         ChatArrives(r, s) \/ CartActionArrives(r, s)
  PROVE  Fresh' /\ Placed' /\ Stored' /\ Owned'
<1> USE DEF Identity
<1>1. pc[r] = "unsent" /\ get_or_create(r, s)
  BY DEF ChatArrives, CartActionArrives
<1>2. PICK o \in Request : o = store'[s]
  BY <1>1, ArrivalTypes
<1>3. /\ o = r \/ (s \in Live /\ o = store[s])
      /\ \A q \in Session : q # s => store'[q] \in {store[q], None}
  BY <1>1, <1>2, ArrivalStep
<1>4. /\ session'[r] = s /\ object'[r] = o
      /\ \A q \in Request : q # r => session'[q] = session[q] /\ object'[q] = object[q]
  BY <1>1, <1>2, ArrivalTypes
<1>5. /\ object[r] = None /\ session[r] = None
      /\ \A q \in Session : store[q] # r
      /\ \A q \in Request : object[q] # r
  BY <1>1 DEF Fresh
<1>6. \A q \in Request : (pc[q] = "unsent" /\ q = o) => q = r
  BY <1>3 DEF Fresh
<1>7. /\ pc'[r] # "unsent"
      /\ \A q \in Request : q # r => pc'[q] = pc[q]
      /\ \A q \in Request : q # o => /\ cart'[q] = cart[q]
                                    /\ queue'[q] = queue[q]
                                    /\ holder'[q] = holder[q]
      /\ cart' = cart \/ cart' = [cart EXCEPT ![o] = Append(@, r)]
  <2>1. CASE /\ holder' = [holder EXCEPT ![o] = r]
             /\ pc' = [pc EXCEPT ![r] = "turn"]
             /\ queue' = queue /\ cart' = cart
    BY <2>1 DEF TypeOK
  <2>2. CASE /\ holder' = holder /\ queue' = queue
             /\ Dispatch(r, o)
    BY <2>2 DEF TypeOK, Dispatch, Answered
  <2>3. CASE /\ holder' = holder /\ cart' = cart
             /\ queue' = [queue EXCEPT ![o] = Append(@, r)]
             /\ \E p \in Waiting : pc' = [pc EXCEPT ![r] = p]
    BY <2>3 DEF TypeOK, Waiting
  <2> QED
    BY <1>2, <2>1, <2>2, <2>3, ArrivalKinds
<1>8. Fresh'
  <2>1. ASSUME NEW q \in Request, pc'[q] = "unsent"
        PROVE  /\ object'[q] = None /\ session'[q] = None
               /\ cart'[q] = <<>> /\ queue'[q] = <<>> /\ holder'[q] = None
               /\ \A x \in Session : store'[x] # q
               /\ \A x \in Request : object'[x] # q
    <3>1. q # r /\ pc[q] = "unsent" /\ q # o
      BY <1>6, <1>7, <2>1
    <3>2. /\ object[q] = None /\ session[q] = None
          /\ cart[q] = <<>> /\ queue[q] = <<>> /\ holder[q] = None
          /\ \A x \in Session : store[x] # q
          /\ \A x \in Request : object[x] # q
      BY <3>1 DEF Fresh
    <3>3. \A x \in Session : store'[x] # q
      BY <1>2, <1>3, <3>1, <3>2 DEF SessionsAssumption
    <3>4. \A x \in Request : object'[x] # q
      BY <1>4, <3>1, <3>2
    <3> QED
      BY <1>4, <1>7, <3>1, <3>2, <3>3, <3>4
  <2> QED
    BY <2>1 DEF Fresh
<1>9. session'[o] = s
  BY <1>3, <1>4, <1>5 DEF Stored
<1>10. Placed'
  <2>1. ASSUME NEW q \in Request, object'[q] # None
        PROVE  session'[q] \in Session /\ session'[object'[q]] = session'[q]
    <3>1. CASE q = r
      BY <1>4, <1>9, <3>1
    <3>2. CASE q # r
      <4>1. object[q] # None /\ object[q] \in Request /\ object[q] # r
        BY <1>4, <1>5, <2>1, <3>2 DEF TypeOK
      <4>2. session[q] \in Session /\ session[object[q]] = session[q]
        BY <4>1 DEF Placed
      <4> QED
        BY <1>4, <3>2, <4>1, <4>2
    <3> QED
      BY <3>1, <3>2
  <2> QED
    BY <2>1 DEF Placed
<1>11. Stored'
  <2>1. ASSUME NEW q \in Session, store'[q] # None
        PROVE  session'[store'[q]] = q
    <3>1. CASE q = s
      BY <1>2, <1>9, <3>1
    <3>2. CASE q # s
      <4>1. store'[q] = store[q] /\ store[q] # None
        BY <1>3, <2>1, <3>2
      <4>2. store[q] \in Request /\ store[q] # r /\ session[store[q]] = q
        BY <1>5, <4>1 DEF TypeOK, Stored, Live
      <4> QED
        BY <1>4, <4>1, <4>2
    <3> QED
      BY <3>1, <3>2
  <2> QED
    BY <2>1 DEF Stored, Live
<1>12. Owned'
  <2>1. \A q \in Request : object[q] # None => object'[q] = object[q]
    BY <1>4, <1>5
  <2> QED
    BY <1>4, <1>7, <2>1, AppendOwned
<1> QED
  BY <1>8, <1>10, <1>11, <1>12

\* Every other step leaves the requests with their objects, at most removes
\* sessions, and works on an object that some request already has.
LEMMA ServiceIdentity ==
  ASSUME SessionsAssumption, Identity,
         UNCHANGED <<session, object>>,
         \A s \in Session : store'[s] \in {store[s], None},
         \A q \in Request : pc'[q] = "unsent" => pc[q] = "unsent",
         \A q \in Request : q \notin {object[p] : p \in Request} =>
            cart'[q] = cart[q] /\ queue'[q] = queue[q] /\ holder'[q] = holder[q],
         \/ cart' = cart
         \/ \E r \in Request : object[r] # None
                             /\ cart' = [cart EXCEPT ![object[r]] = Append(@, r)]
  PROVE  Fresh' /\ Placed' /\ Stored' /\ Owned'
<1> USE DEF Identity
<1>1. Fresh'
  <2>1. ASSUME NEW q \in Request, pc[q] = "unsent"
        PROVE  /\ object'[q] = None /\ session'[q] = None
               /\ cart'[q] = <<>> /\ queue'[q] = <<>> /\ holder'[q] = None
               /\ \A x \in Session : store'[x] # q
               /\ \A x \in Request : object'[x] # q
    <3>1. /\ object[q] = None /\ session[q] = None
          /\ cart[q] = <<>> /\ queue[q] = <<>> /\ holder[q] = None
          /\ \A x \in Session : store[x] # q
          /\ \A x \in Request : object[x] # q
      BY <2>1 DEF Fresh
    <3>2. \A x \in Session : store'[x] # q
      BY <3>1 DEF SessionsAssumption
    <3> QED
      BY <3>1, <3>2
  <2> QED
    BY <2>1 DEF Fresh
<1>2. Placed'
  BY DEF Placed
<1>3. Stored'
  BY DEF Stored, Live
<1>4. Owned'
  <2>1. CASE cart' = cart
    BY <2>1 DEF Owned
  <2>2. CASE \E r \in Request : object[r] # None
                /\ cart' = [cart EXCEPT ![object[r]] = Append(@, r)]
    <3>1. PICK r \in Request : object[r] # None
                /\ cart' = [cart EXCEPT ![object[r]] = Append(@, r)]
      BY <2>2
    <3>2. object[r] \in Request
      BY <3>1 DEF TypeOK
    <3> QED
      BY <3>1, <3>2, AppendOwned
  <2> QED
    BY <2>1, <2>2
<1> QED
  BY <1>1, <1>2, <1>3, <1>4

LEMMA IdentityStep ==
  ASSUME SessionsAssumption, Identity, [Next]_vars
  PROVE  Identity'
<1> USE DEF Identity
<1>1. TypeOK'
  BY TypeStep
<1>2. ASSUME NEW r \in Request, NEW s \in Session,
             ChatArrives(r, s) \/ CartActionArrives(r, s)
      PROVE  Identity'
  BY <1>1, <1>2, ArrivalIdentity
<1>3. ASSUME NEW r \in Request, pc'[r] # "unsent",
             \E p : pc' = [pc EXCEPT ![r] = p]
      PROVE  \A q \in Request : pc'[q] = "unsent" => pc[q] = "unsent"
  BY <1>3 DEF TypeOK
<1>4. ASSUME NEW r \in Request, NEW s \in Session, GetCart(r, s)
      PROVE  Identity'
  <2>1. /\ UNCHANGED <<store, session, object, holder, queue, cart>>
        /\ \A q \in Request : pc'[q] = "unsent" => pc[q] = "unsent"
    BY <1>4 DEF GetCart, requestVars, TypeOK
  <2> QED
    BY <1>1, <2>1, ServiceIdentity
<1>5. ASSUME NEW r \in Request, ChatWakes(r) \/ CartActionWakes(r)
      PROVE  Identity'
  <2>1. pc[r] \in Waiting /\ object[r] \in Request
    BY <1>5 DEF ChatWakes, CartActionWakes, Waiting, TypeOK
  <2>2. /\ UNCHANGED <<store, session, object>>
        /\ queue' = [queue EXCEPT ![object[r]] = Tail(@)]
        /\ holder' = holder \/ holder' = [holder EXCEPT ![object[r]] = r]
        /\ cart' = cart \/ cart' = [cart EXCEPT ![object[r]] = Append(@, r)]
        /\ \E p \in Answered \cup {"turn"} : pc' = [pc EXCEPT ![r] = p]
    BY <1>5 DEF ChatWakes, CartActionWakes, Woken, Dispatch, Answered,
                storeVars, requestVars
  <2>3. \A q \in Request : pc'[q] = "unsent" => pc[q] = "unsent"
    BY <2>2 DEF TypeOK, Answered
  <2>4. \A q \in Request : q # object[r] =>
           cart'[q] = cart[q] /\ queue'[q] = queue[q] /\ holder'[q] = holder[q]
    BY <2>2 DEF TypeOK
  <2>5. object[r] # None
    BY <2>1 DEF SessionsAssumption
  <2> QED
    BY <1>1, <2>2, <2>3, <2>4, <2>5, ServiceIdentity
<1>6. ASSUME NEW r \in Request, ToolCall(r) \/ ChatReturns(r)
      PROVE  Identity'
  <2>1. pc[r] = "turn" /\ object[r] \in Request
    BY <1>6 DEF ToolCall, ChatReturns, TypeOK
  <2>2. /\ UNCHANGED <<store, session, object, queue>>
        /\ holder' = holder \/ holder' = [holder EXCEPT ![object[r]] = None]
        /\ cart' = cart \/ cart' = [cart EXCEPT ![object[r]] = Append(@, r)]
        /\ \E p \in Answered \cup {"turn"} : pc' = [pc EXCEPT ![r] = p]
    BY <1>6, <2>1 DEF ToolCall, ChatReturns, Release, Answered, storeVars, requestVars, TypeOK
  <2>3. \A q \in Request : pc'[q] = "unsent" => pc[q] = "unsent"
    BY <2>2 DEF TypeOK, Answered
  <2>4. \A q \in Request : q # object[r] =>
           cart'[q] = cart[q] /\ queue'[q] = queue[q] /\ holder'[q] = holder[q]
    BY <2>2 DEF TypeOK
  <2>5. object[r] # None
    BY <2>1 DEF SessionsAssumption
  <2> QED
    BY <1>1, <2>2, <2>3, <2>4, <2>5, ServiceIdentity
<1>7. ASSUME NEW r \in Request, Clear(r)
      PROVE  Identity'
  <2>1. /\ UNCHANGED <<session, object, holder, queue, cart>>
        /\ \A s \in Session : store'[s] \in {store[s], None}
        /\ \A q \in Request : pc'[q] = "unsent" => pc[q] = "unsent"
    BY <1>7 DEF Clear, requestVars, TypeOK
  <2> QED
    BY <1>1, <2>1, ServiceIdentity
<1>8. CASE Cleanup
  <2>1. /\ UNCHANGED <<session, object, holder, queue, cart, pc>>
        /\ \A s \in Session : store'[s] \in {store[s], None}
    BY <1>8 DEF Cleanup, requestVars
  <2> QED
    BY <1>1, <2>1, ServiceIdentity
<1>9. CASE UNCHANGED vars
  BY <1>1, <1>9 DEF vars, Fresh, Placed, Stored, Live, Owned
<1> QED
  BY <1>2, <1>4, <1>5, <1>6, <1>7, <1>8, <1>9 DEF Next

LEMMA IdentityInit ==
  ASSUME SessionsAssumption, Init
  PROVE  Identity /\ Capacity
<1>1. TypeOK
  BY DEF Init, TypeOK, SessionsAssumption, PC, Waiting
<1>2. Live = {}
  BY DEF Init, Live
<1>3. Capacity
  BY <1>2, FS_EmptySet DEF Capacity, SessionsAssumption
<1> QED
  BY <1>1, <1>2, <1>3 DEF Identity, Init, Fresh, Placed, Stored, Owned, SessionsAssumption

-----------------------------------------------------------------------------
(* Service in the order of arrival *)

LEMMA AppendFacts ==
  ASSUME NEW f \in [Request -> Seq(Request)], NEW o \in Request, NEW r \in Request,
         NEW g, g = [f EXCEPT ![o] = Append(@, r)]
  PROVE  /\ \A p \in Request : p # o => g[p] = f[p]
         /\ Len(f[o]) \in Nat
         /\ DOMAIN f[o] = 1 .. Len(f[o])
         /\ DOMAIN g[o] = 1 .. Len(f[o]) + 1
         /\ \A j \in 1 .. Len(f[o]) : g[o][j] = f[o][j]
         /\ g[o][Len(f[o]) + 1] = r
<1>1. f[o] \in Seq(Request) /\ g[o] = Append(f[o], r)
  OBVIOUS
<1> QED
  BY <1>1, AppendProperties, LenProperties

LEMMA TailFacts ==
  ASSUME NEW f \in [Request -> Seq(Request)], NEW o \in Request, f[o] # <<>>,
         NEW g, g = [f EXCEPT ![o] = Tail(@)]
  PROVE  /\ \A p \in Request : p # o => g[p] = f[p]
         /\ Len(f[o]) \in Nat \ {0}
         /\ DOMAIN f[o] = 1 .. Len(f[o])
         /\ DOMAIN g[o] = 1 .. Len(f[o]) - 1
         /\ \A j \in 1 .. Len(f[o]) - 1 : g[o][j] = f[o][j + 1]
         /\ Head(f[o]) = f[o][1]
<1>1. f[o] \in Seq(Request) /\ g[o] = Tail(f[o])
  OBVIOUS
<1>2. Len(f[o]) \in Nat /\ Len(f[o]) # 0 /\ DOMAIN f[o] = 1 .. Len(f[o])
  BY <1>1, LenProperties, EmptySeq
<1>3. /\ Tail(f[o]) \in Seq(Request)
      /\ Len(Tail(f[o])) = Len(f[o]) - 1
      /\ \A j \in 1 .. Len(Tail(f[o])) : Tail(f[o])[j] = f[o][j + 1]
  BY <1>1, HeadTailProperties
<1>4. DOMAIN Tail(f[o]) = 1 .. Len(f[o]) - 1
  BY <1>3, LenProperties
<1>5. Head(f[o]) = f[o][1]
  BY <1>1, HeadTailProperties
<1> QED
  BY <1>1, <1>2, <1>3, <1>4, <1>5

\* The elements of a queue and of a cart are requests.
LEMMA ElementTypes ==
  ASSUME TypeOK
  PROVE  /\ \A o \in Request : \A i \in DOMAIN queue[o] : queue[o][i] \in Request
         /\ \A o \in Request : \A i \in DOMAIN cart[o] : cart[o][i] \in Request
<1>1. /\ \A o \in Request : queue[o] \in Seq(Request)
      /\ \A o \in Request : cart[o] \in Seq(Request)
  BY DEF TypeOK
<1> QED
  BY <1>1, ElementOfSeq, LenProperties

\* One more change of a cart, by a request that arrived no earlier than those
\* that changed it before.
LEMMA AppendInOrder ==
  ASSUME TypeOK, ArrivalOrder, NEW r \in Request, NEW o \in Request,
         arrival' \in [Request -> Nat],
         \A p \in Request : \A i \in DOMAIN cart[p] : arrival'[cart[p][i]] = arrival[cart[p][i]],
         \A i \in DOMAIN cart[o] : arrival[cart[o][i]] <= arrival'[r],
         cart' = [cart EXCEPT ![o] = Append(@, r)]
  PROVE  ArrivalOrder'
<1>1. cart \in [Request -> Seq(Request)]
  BY DEF TypeOK
<1>2. /\ \A p \in Request : p # o => cart'[p] = cart[p]
      /\ Len(cart[o]) \in Nat
      /\ DOMAIN cart[o] = 1 .. Len(cart[o])
      /\ DOMAIN cart'[o] = 1 .. Len(cart[o]) + 1
      /\ \A j \in 1 .. Len(cart[o]) : cart'[o][j] = cart[o][j]
      /\ cart'[o][Len(cart[o]) + 1] = r
  BY <1>1, AppendFacts
<1>3. ASSUME NEW p \in Request, NEW i \in DOMAIN cart'[p], NEW j \in DOMAIN cart'[p], i < j
      PROVE  arrival'[cart'[p][i]] <= arrival'[cart'[p][j]]
  <2>1. CASE p # o
    BY <1>2, <1>3, <2>1 DEF ArrivalOrder
  <2>2. CASE p = o /\ j \in 1 .. Len(cart[o])
    <3>1. i \in 1 .. Len(cart[o])
      BY <1>2, <1>3, <2>2
    <3> QED
      BY <1>2, <1>3, <2>2, <3>1 DEF ArrivalOrder
  <2>3. CASE p = o /\ j = Len(cart[o]) + 1
    <3>1. i \in 1 .. Len(cart[o])
      BY <1>2, <1>3, <2>3
    <3> QED
      BY <1>2, <2>3, <3>1
  <2> QED
    BY <1>2, <2>1, <2>2, <2>3
<1> QED
  BY <1>3 DEF ArrivalOrder

\* The same for what is said of the requests that are still to change it.
LEMMA AppendBefore ==
  ASSUME TypeOK, NEW r \in Request, NEW o \in Request, NEW q \in Request,
         NEW p \in Request,
         arrival' \in [Request -> Nat],
         \A i \in DOMAIN cart[p] : arrival'[cart[p][i]] <= arrival'[q],
         p = o => arrival'[r] <= arrival'[q],
         cart' = cart \/ cart' = [cart EXCEPT ![o] = Append(@, r)]
  PROVE  \A i \in DOMAIN cart'[p] : arrival'[cart'[p][i]] <= arrival'[q]
<1>1. CASE cart' = cart
  BY <1>1
<1>2. CASE cart' = [cart EXCEPT ![o] = Append(@, r)]
  <2>1. cart \in [Request -> Seq(Request)]
    BY DEF TypeOK
  <2>2. /\ \A x \in Request : x # o => cart'[x] = cart[x]
        /\ Len(cart[o]) \in Nat
        /\ DOMAIN cart[o] = 1 .. Len(cart[o])
        /\ DOMAIN cart'[o] = 1 .. Len(cart[o]) + 1
        /\ \A j \in 1 .. Len(cart[o]) : cart'[o][j] = cart[o][j]
        /\ cart'[o][Len(cart[o]) + 1] = r
    BY <1>2, <2>1, AppendFacts
  <2>3. CASE p # o
    BY <2>2, <2>3
  <2>4. CASE p = o
    <3>1. ASSUME NEW i \in DOMAIN cart'[o]
          PROVE  arrival'[cart'[o][i]] <= arrival'[q]
      <4>1. i \in 1 .. Len(cart[o]) \/ i = Len(cart[o]) + 1
        BY <2>2
      <4> QED
        BY <2>2, <2>4, <4>1
    <3> QED
      BY <2>4, <3>1
  <2> QED
    BY <2>3, <2>4
<1> QED
  BY <1>1, <1>2

\* A step that arrives nowhere, serves nobody and at most answers a request
\* that was not sent: reading or removing sessions.
LEMMA IdleService ==
  ASSUME TypeOK, Service,
         UNCHANGED <<holder, queue, cart, object, arrival>>,
         clock' \in Nat, clock <= clock',
         \A q \in Request : pc'[q] = pc[q] \/ (pc[q] = "unsent" /\ pc'[q] = "answered")
  PROVE  Service'
<1> USE DEF Service
<1>1. \A o \in Request : \A i \in DOMAIN queue[o] : queue[o][i] \in Request
  BY ElementTypes
<1>2. TurnHolds'
  BY DEF TurnHolds
<1>3. HolderInTurn'
  BY DEF HolderInTurn, TypeOK
<1>4. QueuedWait'
  BY <1>1 DEF QueuedWait, Waiting
<1>5. WaitingQueued'
  BY DEF WaitingQueued, Waiting
<1>6. QueueByArrival' /\ ArrivalOrder'
  BY DEF QueueByArrival, ArrivalOrder
<1>7. TurnBeforeQueue' /\ ChangesBefore'
  BY DEF TurnBeforeQueue, ChangesBefore, Waiting
<1>8. ArrivedByNow'
  BY DEF ArrivedByNow, TypeOK
<1> QED
  BY <1>2, <1>3, <1>4, <1>5, <1>6, <1>7, <1>8

\* The request in its turn changes its cart.
LEMMA ToolCallService ==
  ASSUME SessionsAssumption, Identity, Service, NEW r \in Request, ToolCall(r)
  PROVE  Service'
<1> USE DEF Service, Identity
<1> DEFINE o == object[r]
<1>1. pc[r] = "turn" /\ o \in Request
  BY DEF ToolCall, TypeOK
<1>2. /\ UNCHANGED <<holder, queue, object, arrival, pc, clock>>
      /\ cart' = [cart EXCEPT ![o] = Append(@, r)]
  BY DEF ToolCall, storeVars, requestVars
<1>3. arrival \in [Request -> Nat]
  BY DEF TypeOK
<1> HIDE DEF o
<1>4. /\ TurnHolds' /\ HolderInTurn' /\ QueuedWait' /\ WaitingQueued'
      /\ QueueByArrival' /\ TurnBeforeQueue' /\ ArrivedByNow'
  BY <1>2 DEF TurnHolds, HolderInTurn, QueuedWait, WaitingQueued, QueueByArrival,
              TurnBeforeQueue, ArrivedByNow
<1>5. \A i \in DOMAIN cart[o] : arrival[cart[o][i]] <= arrival[r]
  BY <1>1 DEF ChangesBefore, o
<1>6. ArrivalOrder'
  BY <1>1, <1>2, <1>3, <1>5, AppendInOrder
<1>7. ASSUME NEW q \in Request, pc[q] \in Waiting \cup {"turn"}
      PROVE  \A i \in DOMAIN cart'[object[q]] : arrival'[cart'[object[q]][i]] <= arrival'[q]
  <2>1. object[q] \in Request
    BY <1>7 DEF TypeOK
  <2>2. \A i \in DOMAIN cart[object[q]] : arrival'[cart[object[q]][i]] <= arrival'[q]
    BY <1>2, <1>7 DEF ChangesBefore
  <2>3. object[q] = o => arrival[r] <= arrival[q]
    <3>1. CASE pc[q] = "turn"
      <4>1. object[q] = o => q = r
        BY <1>1, <3>1 DEF TurnHolds, o
      <4> QED
        BY <1>3, <4>1
    <3>2. CASE pc[q] \in Waiting
      <4>1. PICK i \in DOMAIN queue[object[q]] : queue[object[q]][i] = q
        BY <3>2 DEF WaitingQueued
      <4>2. object[q] = o => arrival[r] < arrival[q]
        BY <1>1, <4>1 DEF TurnBeforeQueue, o
      <4> QED
        BY <1>3, <4>2
    <3> QED
      BY <1>7, <3>1, <3>2
  <2>4. /\ arrival' \in [Request -> Nat]
        /\ object[q] = o => arrival'[r] <= arrival'[q]
        /\ cart' = [cart EXCEPT ![o] = Append(@, r)]
    BY <1>2, <1>3, <2>3
  <2>5. \A i \in DOMAIN cart'[object[q]] : arrival'[cart'[object[q]][i]] <= arrival'[q]
    BY <1>1, <2>1, <2>2, <2>4, AppendBefore
  <2> QED
    BY <1>2, <2>5
<1>8. ChangesBefore'
  BY <1>2, <1>7 DEF ChangesBefore
<1> QED
  BY <1>4, <1>6, <1>8

\* A turn ends and releases its lock.
LEMMA ReturnService ==
  ASSUME SessionsAssumption, Identity, Service, NEW r \in Request, ChatReturns(r)
  PROVE  Service'
<1> USE DEF Service, Identity
<1> DEFINE o == object[r]
<1>1. pc[r] = "turn" /\ o \in Request /\ holder[o] = r
  BY DEF ChatReturns, TypeOK, TurnHolds
<1>2. /\ UNCHANGED <<cart, queue, object, arrival, clock>>
      /\ holder' = [holder EXCEPT ![o] = None]
      /\ \E p \in Answered : pc' = [pc EXCEPT ![r] = p]
  BY DEF ChatReturns, Release, storeVars, requestVars
<1>3. /\ pc'[r] \in Answered
      /\ \A q \in Request : q # r => pc'[q] = pc[q]
      /\ holder'[o] = None
      /\ \A p \in Request : p # o => holder'[p] = holder[p]
  BY <1>1, <1>2 DEF TypeOK
<1>4. pc'[r] \notin Waiting \cup {"turn"} /\ pc[r] \notin Waiting
  BY <1>1, <1>3 DEF Answered, Waiting
<1>5. \A p \in Request : \A i \in DOMAIN queue[p] : queue[p][i] \in Request
  BY ElementTypes
<1> HIDE DEF o
<1>6. TurnHolds'
  <2>1. ASSUME NEW q \in Request, pc'[q] = "turn"
        PROVE  holder'[object'[q]] = q
    <3>1. q # r /\ pc[q] = "turn"
      <4>1. q # r
        BY <1>4, <2>1
      <4> QED
        BY <1>3, <2>1, <4>1
    <3>2. object[q] \in Request /\ holder[object[q]] = q
      BY <3>1 DEF TypeOK, TurnHolds
    <3>3. object[q] # o
      BY <1>1, <3>1, <3>2
    <3>4. holder'[object[q]] = q /\ object'[q] = object[q]
      BY <1>2, <1>3, <3>2, <3>3
    <3> QED
      BY <3>4
  <2> QED
    BY <2>1 DEF TurnHolds
<1>7. HolderInTurn'
  <2>1. ASSUME NEW p \in Request, holder'[p] # None
        PROVE  pc'[holder'[p]] = "turn" /\ object'[holder'[p]] = p
    <3>1. p # o /\ holder'[p] = holder[p]
      BY <1>3, <2>1
    <3>2. holder[p] \in Request /\ pc[holder[p]] = "turn" /\ object[holder[p]] = p
      BY <2>1, <3>1 DEF HolderInTurn, TypeOK
    <3>3. holder[p] # r
      BY <3>1, <3>2 DEF o
    <3> QED
      BY <1>2, <1>3, <3>1, <3>2, <3>3
  <2> QED
    BY <2>1 DEF HolderInTurn
<1>8. QueuedWait'
  BY <1>2, <1>3, <1>4, <1>5 DEF QueuedWait
<1>9. WaitingQueued'
  BY <1>2, <1>3, <1>4 DEF WaitingQueued
<1>10. QueueByArrival' /\ ArrivalOrder' /\ ArrivedByNow'
  BY <1>2 DEF QueueByArrival, ArrivalOrder, ArrivedByNow
<1>11. TurnBeforeQueue' /\ ChangesBefore'
  BY <1>2, <1>3, <1>4 DEF TurnBeforeQueue, ChangesBefore
<1> QED
  BY <1>6, <1>7, <1>8, <1>9, <1>10, <1>11

\* The first waiter of a free lock is served: it takes the lock for its turn, or
\* changes the cart and is answered.
LEMMA WakeService ==
  ASSUME SessionsAssumption, Identity, Service, NEW r \in Request,
         ChatWakes(r) \/ CartActionWakes(r)
  PROVE  Service'
<1> USE DEF Service, Identity
<1> DEFINE o == object[r]
           n == Len(queue[o])
<1>1. pc[r] \in Waiting /\ o \in Request
  BY DEF ChatWakes, CartActionWakes, Waiting, TypeOK
<1>2. /\ holder[o] = None /\ queue[o] # <<>> /\ Head(queue[o]) = r
      /\ queue' = [queue EXCEPT ![o] = Tail(@)]
      /\ UNCHANGED <<object, arrival, clock>>
  BY DEF ChatWakes, CartActionWakes, Woken, storeVars, requestVars
<1>3. \/ /\ holder' = [holder EXCEPT ![o] = r] /\ pc' = [pc EXCEPT ![r] = "turn"]
         /\ cart' = cart
      \/ /\ holder' = holder /\ \E p \in Answered : pc' = [pc EXCEPT ![r] = p]
         /\ cart' = cart \/ cart' = [cart EXCEPT ![o] = Append(@, r)]
  BY DEF ChatWakes, CartActionWakes, Dispatch, Answered
<1>4. /\ pc'[r] \in Answered \cup {"turn"}
      /\ pc'[r] = "turn" => holder'[o] = r
      /\ pc'[r] # "turn" => holder'[o] = None
      /\ \A q \in Request : q # r => pc'[q] = pc[q]
      /\ \A p \in Request : p # o => holder'[p] = holder[p]
      /\ cart' = cart \/ cart' = [cart EXCEPT ![o] = Append(@, r)]
  <2>1. pc \in [Request -> PC] /\ holder \in [Request -> Request \cup {None}]
    BY DEF TypeOK
  <2> QED
    BY <1>1, <1>2, <1>3, <2>1 DEF Answered
<1>5. pc'[r] \notin Waiting
  BY <1>4 DEF Answered, Waiting
<1>6. /\ \A p \in Request : p # o => queue'[p] = queue[p]
      /\ n \in Nat \ {0}
      /\ DOMAIN queue[o] = 1 .. n
      /\ DOMAIN queue'[o] = 1 .. n - 1
      /\ \A j \in 1 .. n - 1 : queue'[o][j] = queue[o][j + 1]
      /\ queue[o][1] = r
  <2>1. queue \in [Request -> Seq(Request)]
    BY DEF TypeOK
  <2> QED
    BY <1>1, <1>2, <2>1, TailFacts
<1>7. arrival \in [Request -> Nat] /\ arrival' = arrival
  BY <1>2 DEF TypeOK
<1>8. \A q \in Request : pc[q] = "turn" => object[q] # o
  BY <1>1, <1>2 DEF TurnHolds, SessionsAssumption
<1> HIDE DEF o, n
<1>9. \A p \in Request : \A i \in DOMAIN queue[p] : queue[p][i] \in Request
  BY ElementTypes
<1>10. \A j \in 2 .. n : arrival[r] < arrival[queue[o][j]]
  BY <1>1, <1>6 DEF QueueByArrival
<1>11. ASSUME NEW p \in Request, NEW i \in DOMAIN queue'[p]
       PROVE  /\ queue'[p][i] \in Request /\ queue'[p][i] # r
              /\ pc[queue'[p][i]] \in Waiting /\ object[queue'[p][i]] = p
              /\ p = o => arrival[r] < arrival[queue'[p][i]]
  <2>1. CASE p # o
    <3>1. queue'[p][i] = queue[p][i] /\ i \in DOMAIN queue[p]
      BY <1>6, <1>11, <2>1
    <3>2. object[queue[p][i]] = p /\ pc[queue[p][i]] \in Waiting
      BY <3>1 DEF QueuedWait
    <3> QED
      BY <1>9, <2>1, <3>1, <3>2 DEF o
  <2>2. CASE p = o
    <3>1. i \in 1 .. n - 1 /\ i + 1 \in 2 .. n /\ i + 1 \in DOMAIN queue[o]
      BY <1>6, <1>11, <2>2
    <3>2. queue'[o][i] = queue[o][i + 1]
      BY <1>6, <3>1
    <3>3. /\ queue[o][i + 1] \in Request
          /\ object[queue[o][i + 1]] = o /\ pc[queue[o][i + 1]] \in Waiting
      BY <1>1, <1>9, <3>1 DEF QueuedWait
    <3>4. arrival[r] < arrival[queue[o][i + 1]]
      BY <1>10, <3>1
    <3>5. queue[o][i + 1] # r
      BY <1>7, <3>4
    <3> QED
      BY <2>2, <3>2, <3>3, <3>4, <3>5
  <2> QED
    BY <2>1, <2>2
<1>12. ASSUME NEW q \in Request, q # r, pc[q] \in Waiting
       PROVE  /\ \E i \in DOMAIN queue'[object[q]] : queue'[object[q]][i] = q
              /\ object[q] = o => arrival[r] < arrival[q]
  <2>1. object[q] \in Request
    BY <1>12 DEF TypeOK
  <2>2. PICK i \in DOMAIN queue[object[q]] : queue[object[q]][i] = q
    BY <1>12 DEF WaitingQueued
  <2>3. CASE object[q] # o
    BY <1>6, <2>1, <2>2, <2>3
  <2>4. CASE object[q] = o
    <3>1. i \in 2 .. n /\ i - 1 \in 1 .. n - 1
      BY <1>6, <1>12, <2>2, <2>4
    <3>2. queue'[o][i - 1] = q
      BY <1>6, <2>2, <2>4, <3>1
    <3>3. arrival[r] < arrival[q]
      BY <1>10, <2>2, <2>4, <3>1
    <3> QED
      BY <1>6, <2>4, <3>1, <3>2, <3>3
  <2> QED
    BY <2>3, <2>4
<1>13. TurnHolds'
  <2>1. ASSUME NEW q \in Request, pc'[q] = "turn"
        PROVE  holder'[object[q]] = q
    <3>1. CASE q = r
      BY <1>4, <2>1, <3>1 DEF o
    <3>2. CASE q # r
      <4>1. pc[q] = "turn" /\ object[q] \in Request
        BY <1>4, <2>1, <3>2 DEF TypeOK
      <4>2. object[q] # o /\ holder[object[q]] = q
        BY <1>8, <4>1 DEF TurnHolds
      <4> QED
        BY <1>4, <4>1, <4>2
    <3> QED
      BY <3>1, <3>2
  <2> QED
    BY <1>2, <2>1 DEF TurnHolds
<1>14. HolderInTurn'
  <2>1. ASSUME NEW p \in Request, holder'[p] # None
        PROVE  pc'[holder'[p]] = "turn" /\ object[holder'[p]] = p
    <3>1. CASE p = o
      BY <1>4, <2>1, <3>1 DEF o
    <3>2. CASE p # o
      <4>1. holder'[p] = holder[p]
        BY <1>4, <3>2
      <4>2. holder[p] \in Request /\ pc[holder[p]] = "turn" /\ object[holder[p]] = p
        BY <2>1, <4>1 DEF HolderInTurn, TypeOK
      <4>3. holder[p] # r
        BY <3>2, <4>2 DEF o
      <4>4. pc'[holder[p]] = "turn"
        BY <1>4, <4>2, <4>3
      <4> QED
        BY <4>1, <4>2, <4>4
    <3> QED
      BY <3>1, <3>2
  <2> QED
    BY <1>2, <2>1 DEF HolderInTurn
<1>15. QueuedWait'
  <2>1. \A p \in Request : \A i \in DOMAIN queue'[p] :
           pc'[queue'[p][i]] \in Waiting /\ object[queue'[p][i]] = p
    BY <1>4, <1>11
  <2> QED
    BY <1>2, <2>1 DEF QueuedWait
<1>16. WaitingQueued'
  <2>1. \A q \in Request : pc'[q] \in Waiting => q # r /\ pc[q] \in Waiting
    BY <1>4, <1>5
  <2> QED
    BY <1>2, <1>12, <2>1 DEF WaitingQueued
<1>17. QueueByArrival'
  <2>1. ASSUME NEW p \in Request, NEW i \in DOMAIN queue'[p], NEW j \in DOMAIN queue'[p], i < j
        PROVE  arrival[queue'[p][i]] < arrival[queue'[p][j]]
    <3>1. CASE p # o
      BY <1>6, <2>1, <3>1 DEF QueueByArrival
    <3>2. CASE p = o
      <4>1. /\ i \in 1 .. n - 1 /\ i + 1 \in DOMAIN queue[o]
            /\ j \in 1 .. n - 1 /\ j + 1 \in DOMAIN queue[o]
            /\ i + 1 < j + 1
        BY <1>6, <2>1, <3>2
      <4>2. arrival[queue[o][i + 1]] < arrival[queue[o][j + 1]]
        BY <1>1, <4>1 DEF QueueByArrival
      <4> QED
        BY <1>6, <3>2, <4>1, <4>2
    <3> QED
      BY <3>1, <3>2
  <2> QED
    BY <1>7, <2>1 DEF QueueByArrival
<1>18. TurnBeforeQueue'
  <2>1. ASSUME NEW q \in Request, pc'[q] = "turn", NEW i \in DOMAIN queue'[object[q]]
        PROVE  arrival[q] < arrival[queue'[object[q]][i]]
    <3>1. CASE q = r
      BY <1>1, <1>11, <2>1, <3>1 DEF o
    <3>2. CASE q # r
      <4>1. pc[q] = "turn" /\ object[q] \in Request /\ object[q] # o
        BY <1>4, <1>8, <2>1, <3>2 DEF TypeOK
      <4> QED
        BY <1>6, <2>1, <4>1 DEF TurnBeforeQueue
    <3> QED
      BY <3>1, <3>2
  <2> QED
    BY <1>2, <2>1 DEF TurnBeforeQueue
<1>19. ChangesBefore'
  <2>1. ASSUME NEW q \in Request, pc'[q] \in Waiting \cup {"turn"}
        PROVE  \A i \in DOMAIN cart'[object[q]] : arrival'[cart'[object[q]][i]] <= arrival'[q]
    <3>1. pc[q] \in Waiting \cup {"turn"} /\ object[q] \in Request
      BY <1>1, <1>4, <2>1 DEF TypeOK
    <3>2. \A i \in DOMAIN cart[object[q]] : arrival'[cart[object[q]][i]] <= arrival'[q]
      BY <1>7, <3>1 DEF ChangesBefore
    <3>3. object[q] = o => arrival'[r] <= arrival'[q]
      BY <1>7, <1>8, <1>12, <3>1
    <3>4. arrival' \in [Request -> Nat]
      BY <1>7
    <3> QED
      BY <1>1, <1>4, <3>1, <3>2, <3>3, <3>4, AppendBefore
  <2> QED
    BY <1>2, <2>1 DEF ChangesBefore
<1>20. ArrivalOrder'
  <2>1. CASE cart' = cart
    BY <1>7, <2>1 DEF ArrivalOrder
  <2>2. CASE cart' = [cart EXCEPT ![o] = Append(@, r)]
    <3>1. \A i \in DOMAIN cart[o] : arrival[cart[o][i]] <= arrival'[r]
      BY <1>1, <1>7 DEF ChangesBefore, o
    <3> QED
      BY <1>1, <1>7, <2>2, <3>1, AppendInOrder
  <2> QED
    BY <1>4, <2>1, <2>2
<1>21. ArrivedByNow'
  BY <1>2 DEF ArrivedByNow
<1> QED
  BY <1>13, <1>14, <1>15, <1>16, <1>17, <1>18, <1>19, <1>20, <1>21

\* A request arrives: it takes a free lock, is served at once, or is queued
\* behind everybody who arrived before it.
LEMMA ArrivalService ==
  ASSUME SessionsAssumption, Identity, Service,
         NEW r \in Request, NEW s \in Session,
         ChatArrives(r, s) \/ CartActionArrives(r, s)
  PROVE  Service'
<1> USE DEF Service, Identity
<1>1. pc[r] = "unsent" /\ get_or_create(r, s)
  BY DEF ChatArrives, CartActionArrives
<1>2. PICK o \in Request : o = store'[s]
  BY <1>1, ArrivalTypes
<1>3. /\ object'[r] = o
      /\ \A q \in Request : q # r => object'[q] = object[q]
      /\ arrival' = [arrival EXCEPT ![r] = clock + 1] /\ clock' = clock + 1
  BY <1>1, <1>2, ArrivalStep, ArrivalTypes
<1>4. clock \in Nat /\ arrival \in [Request -> Nat] /\ \A q \in Request : arrival[q] <= clock
  BY DEF TypeOK, ArrivedByNow
<1>5. /\ arrival' \in [Request -> Nat] /\ arrival'[r] = clock + 1
      /\ \A q \in Request : q # r => arrival'[q] = arrival[q]
      /\ \A q \in Request : q # r => arrival'[q] < arrival'[r]
      /\ \A q \in Request : arrival'[q] <= clock'
  BY <1>3, <1>4
<1>6. /\ object[r] = None
      /\ pc[r] \notin Waiting \cup {"turn"}
  BY <1>1 DEF Fresh, Waiting
<1>7. ASSUME NEW p \in Request, NEW i \in DOMAIN queue[p]
      PROVE  /\ queue[p][i] \in Request /\ queue[p][i] # r
             /\ pc[queue[p][i]] \in Waiting /\ object[queue[p][i]] = p
  BY <1>6, ElementTypes DEF QueuedWait
<1>8. ASSUME NEW p \in Request, NEW i \in DOMAIN cart[p]
      PROVE  cart[p][i] \in Request /\ cart[p][i] # r
  BY <1>6, ElementTypes DEF Owned, SessionsAssumption
<1>9. \A p \in Request : holder[p] # r
  BY <1>6 DEF HolderInTurn, SessionsAssumption
<1>10. \A p \in Request : \A i \in DOMAIN cart[p] : arrival'[cart[p][i]] = arrival[cart[p][i]]
  BY <1>5, <1>8
<1>11. \A p \in Request : \A i \in DOMAIN cart[p] : arrival[cart[p][i]] <= arrival'[r]
  BY <1>4, <1>5, <1>8
<1>12. \A q \in Request : q # r => pc'[q] = pc[q]
  <2>1. \E p : pc' = [pc EXCEPT ![r] = p]
    BY DEF ChatArrives, CartActionArrives, Dispatch
  <2> QED
    BY <2>1 DEF TypeOK
\* Conjuncts that speak of one request or one queue that stay as they are.
<1>13. ASSUME NEW q \in Request, q # r, pc[q] \in Waiting \cup {"turn"}
       PROVE  /\ object'[q] = object[q] /\ object[q] \in Request
              /\ \A i \in DOMAIN cart[object[q]] : arrival'[cart[object[q]][i]] <= arrival'[q]
  BY <1>3, <1>5, <1>10, <1>13 DEF TypeOK, ChangesBefore
<1>14. ArrivedByNow'
  BY <1>5 DEF ArrivedByNow
<1>15. CASE /\ holder[o] = None /\ queue[o] = <<>>
            /\ holder' = [holder EXCEPT ![o] = r]
            /\ pc' = [pc EXCEPT ![r] = "turn"]
            /\ queue' = queue /\ cart' = cart
  <2>1. /\ pc'[r] = "turn" /\ holder'[o] = r
        /\ \A p \in Request : p # o => holder'[p] = holder[p]
    BY <1>15 DEF TypeOK
  <2>2. TurnHolds'
    <3>1. ASSUME NEW q \in Request, pc'[q] = "turn", q # r
          PROVE  holder'[object'[q]] = q
      <4>1. pc[q] = "turn" /\ object'[q] = object[q] /\ object[q] \in Request
        BY <1>12, <1>13, <3>1
      <4>2. holder[object[q]] = q /\ object[q] # o
        BY <1>15, <4>1 DEF TurnHolds, SessionsAssumption
      <4> QED
        BY <2>1, <4>1, <4>2
    <3> QED
      BY <1>3, <2>1, <3>1 DEF TurnHolds
  <2>3. HolderInTurn'
    <3>1. ASSUME NEW p \in Request, p # o, holder[p] # None
          PROVE  pc'[holder[p]] = "turn" /\ object'[holder[p]] = p
      <4>1. holder[p] \in Request /\ pc[holder[p]] = "turn" /\ object[holder[p]] = p
        BY <3>1 DEF HolderInTurn, TypeOK
      <4> QED
        BY <1>3, <1>9, <1>12, <4>1
    <3> QED
      BY <1>3, <2>1, <3>1 DEF HolderInTurn
  <2>4. QueuedWait' /\ QueueByArrival'
    BY <1>3, <1>5, <1>7, <1>12, <1>15 DEF QueuedWait, QueueByArrival
  <2>5. WaitingQueued'
    <3>1. ASSUME NEW q \in Request, pc'[q] \in Waiting
          PROVE  \E i \in DOMAIN queue'[object'[q]] : queue'[object'[q]][i] = q
      <4>1. q # r /\ pc[q] \in Waiting
        BY <1>12, <2>1, <3>1 DEF Waiting
      <4> QED
        BY <1>13, <1>15, <4>1 DEF WaitingQueued
    <3> QED
      BY <3>1 DEF WaitingQueued
  <2>6. TurnBeforeQueue'
    <3>1. ASSUME NEW q \in Request, pc'[q] = "turn", NEW i \in DOMAIN queue'[object'[q]]
          PROVE  arrival'[q] < arrival'[queue'[object'[q]][i]]
      <4>1. CASE q = r
        BY <1>3, <1>15, <3>1, <4>1
      <4>2. CASE q # r
        <5>1. pc[q] = "turn" /\ object'[q] = object[q] /\ object[q] \in Request
          BY <1>12, <1>13, <3>1, <4>2
        <5>2. arrival[q] < arrival[queue[object[q]][i]]
          BY <1>15, <3>1, <5>1 DEF TurnBeforeQueue
        <5> QED
          BY <1>5, <1>7, <1>15, <3>1, <4>2, <5>1, <5>2
      <4> QED
        BY <4>1, <4>2
    <3> QED
      BY <3>1 DEF TurnBeforeQueue
  <2>7. ChangesBefore'
    <3>1. ASSUME NEW q \in Request, pc'[q] \in Waiting \cup {"turn"}
          PROVE  \A i \in DOMAIN cart[object'[q]] : arrival'[cart[object'[q]][i]] <= arrival'[q]
      <4>1. CASE q = r
        BY <1>3, <1>10, <1>11, <4>1
      <4>2. CASE q # r
        BY <1>12, <1>13, <3>1, <4>2
      <4> QED
        BY <4>1, <4>2
    <3> QED
      BY <1>15, <3>1 DEF ChangesBefore
  <2>8. ArrivalOrder'
    BY <1>10, <1>15 DEF ArrivalOrder
  <2> QED
    BY <1>14, <2>2, <2>3, <2>4, <2>5, <2>6, <2>7, <2>8
<1>16. CASE /\ holder[o] = None /\ queue[o] = <<>>
            /\ holder' = holder /\ queue' = queue
            /\ Dispatch(r, o)
  <2>1. /\ \E p \in Answered : pc' = [pc EXCEPT ![r] = p]
        /\ cart' = cart \/ cart' = [cart EXCEPT ![o] = Append(@, r)]
    BY <1>16 DEF Dispatch, Answered
  <2>2. pc'[r] \notin Waiting \cup {"turn"}
    BY <2>1 DEF TypeOK, Answered, Waiting
  <2>3. ASSUME NEW q \in Request, pc'[q] \in Waiting \cup {"turn"}
        PROVE  /\ q # r /\ pc[q] = pc'[q]
               /\ object'[q] = object[q] /\ object[q] \in Request
               /\ object[q] # o
    <3>1. q # r
      BY <2>2, <2>3
    <3>2. pc[q] = pc'[q] /\ pc[q] \in Waiting \cup {"turn"}
      BY <1>12, <2>3, <3>1
    <3>3. object'[q] = object[q] /\ object[q] \in Request
      BY <1>13, <3>1, <3>2
    <3>4. object[q] # o
      <4>1. CASE pc[q] = "turn"
        BY <1>16, <4>1 DEF TurnHolds, SessionsAssumption
      <4>2. CASE pc[q] \in Waiting
        <5>1. DOMAIN queue[o] = {}
          BY <1>16
        <5> QED
          BY <4>2, <5>1 DEF WaitingQueued
      <4> QED
        BY <3>2, <4>1, <4>2
    <3> QED
      BY <3>1, <3>2, <3>3, <3>4
  <2>4. TurnHolds' /\ WaitingQueued'
    BY <1>16, <2>3 DEF TurnHolds, WaitingQueued
  <2>5. HolderInTurn'
    <3>1. ASSUME NEW p \in Request, holder[p] # None
          PROVE  pc'[holder[p]] = "turn" /\ object'[holder[p]] = p
      <4>1. holder[p] \in Request /\ pc[holder[p]] = "turn" /\ object[holder[p]] = p
        BY <3>1 DEF HolderInTurn, TypeOK
      <4> QED
        BY <1>3, <1>9, <1>12, <4>1
    <3> QED
      BY <1>16, <3>1 DEF HolderInTurn
  <2>6. QueuedWait' /\ QueueByArrival'
    BY <1>3, <1>5, <1>7, <1>12, <1>16 DEF QueuedWait, QueueByArrival
  <2>7. TurnBeforeQueue'
    <3>1. ASSUME NEW q \in Request, pc'[q] = "turn", NEW i \in DOMAIN queue[object'[q]]
          PROVE  arrival'[q] < arrival'[queue[object'[q]][i]]
      <4>1. q # r /\ pc[q] = "turn" /\ object'[q] = object[q] /\ object[q] \in Request
        BY <2>3, <3>1
      <4>2. arrival[q] < arrival[queue[object[q]][i]]
        BY <3>1, <4>1 DEF TurnBeforeQueue
      <4> QED
        BY <1>5, <1>7, <3>1, <4>1, <4>2
    <3> QED
      BY <1>16, <3>1 DEF TurnBeforeQueue
  <2>8. ChangesBefore'
    <3>1. ASSUME NEW q \in Request, pc'[q] \in Waiting \cup {"turn"}
          PROVE  \A i \in DOMAIN cart'[object'[q]] : arrival'[cart'[object'[q]][i]] <= arrival'[q]
      <4>1. cart'[object[q]] = cart[object[q]]
        BY <2>1, <2>3, <3>1 DEF TypeOK
      <4> QED
        BY <1>13, <2>3, <3>1, <4>1
    <3> QED
      BY <3>1 DEF ChangesBefore
  <2>9. ArrivalOrder'
    <3>1. CASE cart' = cart
      BY <1>10, <3>1 DEF ArrivalOrder
    <3>2. CASE cart' = [cart EXCEPT ![o] = Append(@, r)]
      BY <1>5, <1>10, <1>11, <3>2, AppendInOrder
    <3> QED
      BY <2>1, <3>1, <3>2
  <2> QED
    BY <1>14, <2>4, <2>5, <2>6, <2>7, <2>8, <2>9
<1>17. CASE /\ holder' = holder /\ cart' = cart
            /\ queue' = [queue EXCEPT ![o] = Append(@, r)]
            /\ \E p \in Waiting : pc' = [pc EXCEPT ![r] = p]
  <2> DEFINE n == Len(queue[o])
  <2>1. pc'[r] \in Waiting /\ pc'[r] # "turn"
    BY <1>17 DEF TypeOK, Waiting
  <2>2. /\ \A p \in Request : p # o => queue'[p] = queue[p]
        /\ n \in Nat
        /\ DOMAIN queue[o] = 1 .. n
        /\ DOMAIN queue'[o] = 1 .. n + 1
        /\ \A j \in 1 .. n : queue'[o][j] = queue[o][j]
        /\ queue'[o][n + 1] = r
    <3>1. queue \in [Request -> Seq(Request)]
      BY DEF TypeOK
    <3> QED
      BY <1>17, <3>1, AppendFacts
  <2> HIDE DEF n
  <2>3. ASSUME NEW p \in Request, NEW i \in DOMAIN queue'[p]
        PROVE  \/ p = o /\ i = n + 1 /\ queue'[p][i] = r
               \/ /\ i \in DOMAIN queue[p] /\ queue'[p][i] = queue[p][i]
                  /\ p = o => i \in 1 .. n
    BY <2>2, <2>3
  <2>4. TurnHolds'
    <3>1. ASSUME NEW q \in Request, pc'[q] = "turn"
          PROVE  holder[object'[q]] = q
      <4>1. q # r /\ pc[q] = "turn"
        <5>1. q # r
          BY <2>1, <3>1
        <5> QED
          BY <1>12, <3>1, <5>1
      <4> QED
        BY <1>3, <4>1 DEF TurnHolds
    <3> QED
      BY <1>17, <3>1 DEF TurnHolds
  <2>5. HolderInTurn'
    <3>1. ASSUME NEW p \in Request, holder[p] # None
          PROVE  pc'[holder[p]] = "turn" /\ object'[holder[p]] = p
      <4>1. holder[p] \in Request /\ pc[holder[p]] = "turn" /\ object[holder[p]] = p
        BY <3>1 DEF HolderInTurn, TypeOK
      <4> QED
        BY <1>3, <1>9, <1>12, <4>1
    <3> QED
      BY <1>17, <3>1 DEF HolderInTurn
  <2>6. QueuedWait'
    <3>1. ASSUME NEW p \in Request, NEW i \in DOMAIN queue'[p]
          PROVE  pc'[queue'[p][i]] \in Waiting /\ object'[queue'[p][i]] = p
      <4>1. CASE p = o /\ queue'[p][i] = r
        BY <1>3, <2>1, <4>1
      <4>2. CASE i \in DOMAIN queue[p] /\ queue'[p][i] = queue[p][i]
        BY <1>3, <1>7, <1>12, <4>2
      <4> QED
        BY <2>3, <3>1, <4>1, <4>2
    <3> QED
      BY <3>1 DEF QueuedWait
  <2>7. WaitingQueued'
    <3>1. ASSUME NEW q \in Request, pc'[q] \in Waiting
          PROVE  \E i \in DOMAIN queue'[object'[q]] : queue'[object'[q]][i] = q
      <4>1. CASE q = r
        BY <1>3, <2>2, <4>1
      <4>2. CASE q # r
        <5>1. pc[q] \in Waiting /\ object'[q] = object[q] /\ object[q] \in Request
          BY <1>12, <1>13, <3>1, <4>2
        <5>2. PICK i \in DOMAIN queue[object[q]] : queue[object[q]][i] = q
          BY <5>1 DEF WaitingQueued
        <5>3. i \in DOMAIN queue'[object[q]] /\ queue'[object[q]][i] = q
          <6>1. CASE object[q] = o
            BY <2>2, <5>2, <6>1
          <6>2. CASE object[q] # o
            BY <2>2, <5>1, <5>2, <6>2
          <6> QED
            BY <6>1, <6>2
        <5> QED
          BY <5>1, <5>3
      <4> QED
        BY <4>1, <4>2
    <3> QED
      BY <3>1 DEF WaitingQueued
  <2>8. QueueByArrival'
    <3>1. ASSUME NEW p \in Request, NEW i \in DOMAIN queue'[p], NEW j \in DOMAIN queue'[p], i < j
          PROVE  arrival'[queue'[p][i]] < arrival'[queue'[p][j]]
      <4>1. CASE j \in DOMAIN queue[p] /\ queue'[p][j] = queue[p][j]
        <5>1. i \in DOMAIN queue[p] /\ queue'[p][i] = queue[p][i]
          BY <2>2, <3>1, <4>1
        <5>2. arrival[queue[p][i]] < arrival[queue[p][j]]
          BY <3>1, <4>1, <5>1 DEF QueueByArrival
        <5>3. /\ arrival'[queue[p][i]] = arrival[queue[p][i]]
              /\ arrival'[queue[p][j]] = arrival[queue[p][j]]
          BY <1>5, <1>7, <4>1, <5>1
        <5> QED
          BY <4>1, <5>1, <5>2, <5>3
      <4>2. CASE p = o /\ j = n + 1 /\ queue'[p][j] = r
        <5>1. i \in DOMAIN queue[p] /\ queue'[p][i] = queue[p][i]
          BY <2>2, <3>1, <4>2
        <5>2. queue[p][i] \in Request /\ queue[p][i] # r
          BY <1>7, <5>1
        <5> QED
          BY <1>5, <4>2, <5>1, <5>2
      <4> QED
        BY <2>3, <3>1, <4>1, <4>2
    <3> QED
      BY <3>1 DEF QueueByArrival
  <2>9. TurnBeforeQueue'
    <3>1. ASSUME NEW q \in Request, pc'[q] = "turn", NEW i \in DOMAIN queue'[object'[q]]
          PROVE  arrival'[q] < arrival'[queue'[object'[q]][i]]
      <4>1. q # r
        BY <2>1, <3>1
      <4>2. pc[q] = "turn" /\ object'[q] = object[q] /\ object[q] \in Request
        BY <1>12, <1>13, <3>1, <4>1
      <4>3. CASE queue'[object[q]][i] = r
        BY <1>5, <4>1, <4>2, <4>3
      <4>4. CASE i \in DOMAIN queue[object[q]] /\ queue'[object[q]][i] = queue[object[q]][i]
        <5>1. arrival[q] < arrival[queue[object[q]][i]]
          BY <4>2, <4>4 DEF TurnBeforeQueue
        <5> QED
          BY <1>5, <1>7, <4>1, <4>2, <4>4, <5>1
      <4> QED
        BY <2>3, <3>1, <4>2, <4>3, <4>4
    <3> QED
      BY <3>1 DEF TurnBeforeQueue
  <2>10. ChangesBefore'
    <3>1. ASSUME NEW q \in Request, pc'[q] \in Waiting \cup {"turn"}
          PROVE  \A i \in DOMAIN cart[object'[q]] : arrival'[cart[object'[q]][i]] <= arrival'[q]
      <4>1. CASE q = r
        BY <1>3, <1>10, <1>11, <4>1
      <4>2. CASE q # r
        BY <1>12, <1>13, <3>1, <4>2
      <4> QED
        BY <4>1, <4>2
    <3> QED
      BY <1>17, <3>1 DEF ChangesBefore
  <2>11. ArrivalOrder'
    BY <1>10, <1>17 DEF ArrivalOrder
  <2> QED
    BY <1>14, <2>4, <2>5, <2>6, <2>7, <2>8, <2>9, <2>10, <2>11
<1> QED
  BY <1>2, <1>15, <1>16, <1>17, ArrivalKinds

LEMMA ServiceStep ==
  ASSUME SessionsAssumption, Identity, Service, [Next]_vars
  PROVE  Service'
<1> USE DEF Identity
<1>1. clock \in Nat
  BY DEF TypeOK
<1>2. ASSUME NEW r \in Request, NEW s \in Session, GetCart(r, s)
      PROVE  Service'
  <2>1. UNCHANGED <<holder, queue, cart, object, arrival>>
    BY <1>2 DEF GetCart, requestVars
  <2>2. clock' \in Nat /\ clock <= clock'
    BY <1>1, <1>2 DEF GetCart
  <2>3. \A q \in Request : pc'[q] = pc[q] \/ (pc[q] = "unsent" /\ pc'[q] = "answered")
    BY <1>2 DEF GetCart, TypeOK
  <2> QED
    BY <2>1, <2>2, <2>3, IdleService
<1>3. ASSUME NEW r \in Request, Clear(r)
      PROVE  Service'
  <2>1. UNCHANGED <<holder, queue, cart, object, arrival, clock>>
    BY <1>3 DEF Clear, requestVars
  <2>2. \A q \in Request : pc'[q] = pc[q] \/ (pc[q] = "unsent" /\ pc'[q] = "answered")
    BY <1>3 DEF Clear, TypeOK
  <2> QED
    BY <1>1, <2>1, <2>2, IdleService
<1>4. CASE Cleanup \/ UNCHANGED vars
  <2>1. UNCHANGED <<holder, queue, cart, object, arrival, clock, pc>>
    BY <1>4 DEF Cleanup, requestVars, vars
  <2> QED
    BY <1>1, <2>1, IdleService
<1> QED
  BY <1>2, <1>3, <1>4, ArrivalService, WakeService, ToolCallService, ReturnService
     DEF Next

LEMMA ServiceInit ==
  ASSUME SessionsAssumption, Init
  PROVE  Service
BY DEF Init, Service, TurnHolds, HolderInTurn, QueuedWait, WaitingQueued,
       QueueByArrival, TurnBeforeQueue, ChangesBefore, ArrivedByNow, ArrivalOrder,
       Waiting

-----------------------------------------------------------------------------
(* Theorems *)

\* The inductive invariant holds of every behaviour.
THEOREM SessionInvariant == Spec => [](Identity /\ Capacity /\ Service)
<1>1. Init => Identity /\ Capacity /\ Service
  BY SessionsAssumption, IdentityInit, ServiceInit
<1>2. Identity /\ Capacity /\ Service /\ [Next]_vars => Identity' /\ Capacity' /\ Service'
  BY SessionsAssumption, IdentityStep, CapacityStep, ServiceStep DEF Identity
<1> QED
  BY <1>1, <1>2, PTL DEF Spec

\* The variables keep their types, and a handler that runs has its object and
\* its session.
THEOREM SessionsTypeCorrect == Spec => []TypeOK
<1>1. Identity => TypeOK
  BY DEF Identity
<1> QED
  BY <1>1, SessionInvariant, PTL

\* get_or_create, clear and the cleanup task never let the store grow past
\* max_sessions, for any number of sessions and requests.
THEOREM StoreWithinCapacity == Spec => []Capacity
BY SessionInvariant, PTL

\* No cart is ever changed by a request of another session, whatever is
\* evicted, expired, cleared and created again while requests wait.
THEOREM SessionsIsolated == Spec => []Isolation
<1>1. Identity => Isolation
  <2> SUFFICES ASSUME Identity PROVE Isolation
    OBVIOUS
  <2>1. ASSUME NEW o \in Request, NEW i \in DOMAIN cart[o]
        PROVE  session[cart[o][i]] = session[o]
    <3>1. cart[o][i] \in Request
      BY ElementOfSeq, LenProperties DEF Identity, TypeOK
    <3>2. object[cart[o][i]] = o
      BY DEF Identity, Owned
    <3> QED
      BY <3>1, <3>2, SessionsAssumption DEF Identity, Placed, SessionsAssumption
  <2> QED
    BY <2>1 DEF Isolation, Identity, Stored
<1> QED
  BY <1>1, SessionInvariant, PTL

\* Each cart is changed by one turn after the other, in the order in which the
\* requests arrived.
THEOREM CartsChangedInArrivalOrder == Spec => []ArrivalOrder
<1>1. Service => ArrivalOrder
  BY DEF Service
<1> QED
  BY <1>1, SessionInvariant, PTL

\* At most one turn runs per SessionState object, its request holds the lock,
\* and the lock's queue is the requests that wait.
THEOREM LocksDisciplined == Spec => []LockDiscipline
<1>1. Identity /\ Service => LockDiscipline
  <2> SUFFICES ASSUME Identity, Service PROVE LockDiscipline
    OBVIOUS
  <2> USE DEF Identity, Service
  <2>1. \A r \in Request : pc[r] = "turn" => holder[object[r]] = r
    BY DEF TurnHolds
  <2>2. \A o \in Request :
          holder[o] # None => pc[holder[o]] = "turn" /\ object[holder[o]] = o
    BY DEF HolderInTurn
  <2>3. ASSUME NEW o \in Request
        PROVE  {queue[o][i] : i \in DOMAIN queue[o]}
                 = {r \in Request : pc[r] \in Waiting /\ object[r] = o}
    <3>1. \A i \in DOMAIN queue[o] :
             queue[o][i] \in Request /\ pc[queue[o][i]] \in Waiting /\ object[queue[o][i]] = o
      BY ElementTypes DEF QueuedWait
    <3>2. \A r \in Request : pc[r] \in Waiting /\ object[r] = o =>
             \E i \in DOMAIN queue[o] : queue[o][i] = r
      BY DEF WaitingQueued
    <3> QED
      BY <3>1, <3>2
  <2> QED
    BY <2>1, <2>2, <2>3 DEF LockDiscipline
<1> QED
  BY <1>1, SessionInvariant, PTL

\* A SessionState that was cleared, evicted or expired never comes back: only
\* objects of requests that just arrived are put in the store.
THEOREM RemovedStaysRemoved == Spec => RemovedForGood
<1> DEFINE Stays ==
      \A o \in Request :
        (session[o] # None /\ \A s \in Session : store[s] # o)
          => \A s \in Session : store'[s] # o
<1>1. Identity /\ [Next]_vars => [Stays]_vars
  <2> SUFFICES ASSUME Identity, Next PROVE Stays
    BY DEF vars
  <2>1. ASSUME NEW r \in Request, NEW s \in Session,
               ChatArrives(r, s) \/ CartActionArrives(r, s)
        PROVE  Stays
    <3>1. pc[r] = "unsent" /\ get_or_create(r, s)
      BY <2>1 DEF ChatArrives, CartActionArrives
    <3>2. /\ store'[s] = r \/ store'[s] = store[s]
          /\ \A q \in Session : q # s => store'[q] \in {store[q], None}
      BY <3>1, SessionsAssumption, ArrivalStep DEF Identity
    <3>3. session[r] = None
      BY <3>1 DEF Identity, Fresh
    <3> QED
      BY <3>2, <3>3, SessionsAssumption DEF SessionsAssumption
  <2>2. CASE \A s \in Session : store'[s] \in {store[s], None}
    BY <2>2, SessionsAssumption DEF SessionsAssumption
  <2>3. ASSUME NEW r \in Request, Clear(r)
        PROVE  \A s \in Session : store'[s] \in {store[s], None}
    BY <2>3 DEF Clear
  <2>4. CASE Cleanup
    BY <2>2, <2>4 DEF Cleanup
  <2> QED
    BY <2>1, <2>2, <2>3, <2>4
       DEF Next, GetCart, ChatWakes, ToolCall, ChatReturns, CartActionWakes, storeVars
<1>2. Spec => [][Stays]_vars
  BY <1>1, SessionInvariant, PTL DEF Spec
<1> QED
  BY <1>2 DEF RemovedForGood

-----------------------------------------------------------------------------
(***************************************************************************)
(* The lock of a SessionState implements a service line: each step of a    *)
(* handler joins a line, works at its head, leaves it, or is not seen by   *)
(* it.                                                                     *)
(*                                                                         *)
(* The steps that hand the lock over are the ones that need an argument: a *)
(* request that is woken moves from the queue to the holder, and stays the *)
(* first of its line.                                                      *)
(***************************************************************************)

\* A line: the holder of a lock, if there is one, and its queue q.
Standing(h, q) == (IF h = None THEN <<>> ELSE <<h>>) \o q

Lines == [o \in Request |-> LineOf(o)]

Came == {r \in Request : object[r] # None}

\* The step of the service line that a step of the handlers is.
LineStep == ServiceLines!Next \/ UNCHANGED <<Lines, cart, Came>>

-----------------------------------------------------------------------------
(* Lines *)

LEMMA StandingFree ==
  ASSUME NEW q \in Seq(Request)
  PROVE  Standing(None, q) = q
BY ConcatEmptySeq DEF Standing

LEMMA StandingHeld ==
  ASSUME SessionsAssumption, NEW q \in Seq(Request), NEW h \in Request
  PROVE  /\ Standing(h, q) \in Seq(Request)
         /\ Standing(h, q) # <<>>
         /\ Head(Standing(h, q)) = h
         /\ Tail(Standing(h, q)) = q
<1>1. Standing(h, q) = <<h>> \o q
  BY DEF Standing, SessionsAssumption
<1>2. <<h>> \in Seq(Request) /\ Len(<<h>>) = 1 /\ <<h>>[1] = h
  OBVIOUS
<1>3. Len(q) \in Nat
  BY LenProperties
<1>4. PICK s : s = <<h>> \o q
  OBVIOUS
<1>5. /\ s \in Seq(Request)
      /\ Len(s) = 1 + Len(q)
      /\ \A i \in 1 .. 1 + Len(q) : s[i] = IF i <= 1 THEN h ELSE q[i - 1]
  BY <1>2, <1>4, ConcatProperties
<1>6. s # <<>> /\ Head(s) = h
  BY <1>3, <1>5
<1>7. /\ Tail(s) \in Seq(Request)
      /\ Len(Tail(s)) = Len(q)
      /\ \A i \in 1 .. Len(Tail(s)) : Tail(s)[i] = s[i + 1]
  BY <1>3, <1>5, <1>6, HeadTailProperties
<1>8. \A i \in 1 .. Len(Tail(s)) : Tail(s)[i] = q[i]
  BY <1>3, <1>5, <1>7
<1>9. Tail(s) = q
  BY <1>7, <1>8, SeqEqual
<1> QED
  BY <1>1, <1>4, <1>5, <1>6, <1>9

LEMMA StandingAppend ==
  ASSUME SessionsAssumption, NEW q \in Seq(Request), NEW h \in Request \cup {None},
         NEW r \in Request
  PROVE  Standing(h, Append(q, r)) = Append(Standing(h, q), r)
<1>1. PICK front : front = IF h = None THEN <<>> ELSE <<h>>
  OBVIOUS
<1>2. front \in Seq(Request) /\ <<r>> \in Seq(Request)
  BY <1>1
<1>3. front \o q \in Seq(Request)
  BY <1>2, ConcatProperties
<1>4. Append(q, r) = q \o <<r>> /\ Append(front \o q, r) = (front \o q) \o <<r>>
  BY <1>3, AppendIsConcat
<1>5. (front \o q) \o <<r>> = front \o (q \o <<r>>)
  BY <1>2, ConcatAssociative
<1> QED
  BY <1>1, <1>4, <1>5 DEF Standing

\* Handing the lock to the first of the queue leaves the line as it is.
LEMMA StandingWoken ==
  ASSUME SessionsAssumption, NEW q \in Seq(Request), q # <<>>
  PROVE  Standing(Head(q), Tail(q)) = q
<1>1. Head(q) \in Request /\ Tail(q) \in Seq(Request)
  BY HeadTailProperties
<1>2. PICK s \in Seq(Request) :
        s = Standing(Head(q), Tail(q)) /\ s # <<>> /\ Head(s) = Head(q) /\ Tail(s) = Tail(q)
  BY <1>1, StandingHeld
<1>3. /\ Len(q) \in Nat \ {0} /\ Len(s) \in Nat \ {0}
      /\ Len(Tail(s)) = Len(s) - 1 /\ Len(Tail(q)) = Len(q) - 1
  BY <1>2, EmptySeq, HeadTailProperties
<1>4. Len(s) = Len(q)
  BY <1>2, <1>3
<1>5. ASSUME NEW i \in 1 .. Len(s) PROVE s[i] = q[i]
  <2>1. CASE i = 1
    BY <1>2, <2>1
  <2>2. CASE i # 1
    <3>1. i - 1 \in 1 .. Len(Tail(s)) /\ i - 1 \in 1 .. Len(Tail(q))
      BY <1>3, <1>4, <2>2
    <3>2. Tail(s)[i - 1] = s[(i - 1) + 1] /\ Tail(q)[i - 1] = q[(i - 1) + 1]
      BY <1>2, <3>1, HeadTailProperties
    <3>3. (i - 1) + 1 = i
      OBVIOUS
    <3> QED
      BY <1>2, <3>2, <3>3
  <2> QED
    BY <2>1, <2>2
<1> QED
  BY <1>2, <1>4, <1>5, SeqEqual

LEMMA LineTypes ==
  ASSUME TypeOK
  PROVE  \A o \in Request :
           /\ LineOf(o) = Standing(holder[o], queue[o])
           /\ holder[o] \in Request \cup {None}
           /\ queue[o] \in Seq(Request)
BY DEF TypeOK, LineOf, Standing

LEMMA LinePrimed ==
  \A o \in Request : LineOf(o)' = Standing(holder'[o], queue'[o])
BY DEF LineOf, Standing

\* Who holds a lock is the first of its line.
LEMMA HeldLine ==
  ASSUME SessionsAssumption, TypeOK, NEW o \in Request, NEW r \in Request, holder[o] = r
  PROVE  LineOf(o) # <<>> /\ Head(LineOf(o)) = r /\ Tail(LineOf(o)) = queue[o]
<1>1. PICK q \in Seq(Request) : q = queue[o]
  BY LineTypes
<1>2. LineOf(o) = Standing(r, q)
  BY <1>1, LineTypes
<1>3. /\ Standing(r, q) # <<>>
      /\ Head(Standing(r, q)) = r
      /\ Tail(Standing(r, q)) = q
  BY StandingHeld
<1> QED
  BY <1>1, <1>2, <1>3

-----------------------------------------------------------------------------
(* Steps that no line sees *)

LEMMA LinesKept ==
  ASSUME \A o \in Request : LineOf(o)' = LineOf(o), UNCHANGED <<cart, object>>
  PROVE  LineStep
<1>1. Lines' = Lines
  BY DEF Lines
<1>2. Came' = Came
  BY DEF Came
<1> QED
  BY <1>1, <1>2 DEF LineStep

LEMMA LocksKept ==
  ASSUME UNCHANGED <<holder, queue, cart, object>>
  PROVE  LineStep
<1>1. \A o \in Request : LineOf(o)' = LineOf(o)
  BY DEF LineOf
<1> QED
  BY <1>1, LinesKept

\* A woken chat takes the lock and stays the first of its line.
LEMMA ChatWakesLine ==
  ASSUME SessionsAssumption, Identity, Service, NEW r \in Request, ChatWakes(r)
  PROVE  LineStep
<1>1. object[r] \in Request
  BY DEF Identity, TypeOK, ChatWakes, Waiting
<1>2. PICK o \in Request : o = object[r]
  BY <1>1
<1>3. /\ holder[o] = None /\ queue[o] # <<>> /\ Head(queue[o]) = r
      /\ queue' = [queue EXCEPT ![o] = Tail(@)]
      /\ holder' = [holder EXCEPT ![o] = r]
      /\ UNCHANGED <<cart, object>>
  BY <1>2 DEF ChatWakes, Woken, requestVars
<1>4. /\ queue \in [Request -> Seq(Request)]
      /\ holder \in [Request -> Request \cup {None}]
  BY DEF Identity, TypeOK
<1>5. LineOf(o)' = LineOf(o)
  <2>1. holder'[o] = Head(queue[o]) /\ queue'[o] = Tail(queue[o])
    BY <1>3, <1>4
  <2>2. Standing(Head(queue[o]), Tail(queue[o])) = queue[o]
    BY <1>3, <1>4, StandingWoken
  <2>3. LineOf(o) = queue[o]
    <3>1. LineOf(o) = Standing(holder[o], queue[o])
      BY LineTypes DEF Identity
    <3>2. Standing(None, queue[o]) = queue[o]
      BY <1>4, StandingFree
    <3> QED
      BY <1>3, <3>1, <3>2
  <2> QED
    BY <2>1, <2>2, <2>3, LinePrimed
<1>6. \A p \in Request : p # o => LineOf(p)' = LineOf(p)
  BY <1>3, <1>4 DEF LineOf
<1> QED
  BY <1>3, <1>5, <1>6, LinesKept

-----------------------------------------------------------------------------
(* Steps of the first in line *)

\* A tool call of the turn that holds the lock.
LEMMA ToolCallLine ==
  ASSUME SessionsAssumption, Identity, Service, NEW r \in Request, ToolCall(r)
  PROVE  LineStep
<1>1. object[r] \in Request /\ holder[object[r]] = r
  BY DEF Identity, TypeOK, ToolCall, Service, TurnHolds
<1>2. PICK o \in Request : o = object[r] /\ holder[o] = r
  BY <1>1
<1>3. /\ cart' = [cart EXCEPT ![o] = Append(@, r)]
      /\ UNCHANGED <<holder, queue, object>>
  BY <1>2 DEF ToolCall, requestVars
<1>4. LineOf(o) # <<>> /\ Head(LineOf(o)) = r
  BY <1>2, HeldLine DEF Identity
<1>5. Lines' = Lines /\ Came' = Came
  BY <1>3 DEF Lines, LineOf, Came
<1>6. ServiceLines!Work(o)
  <2>1. Lines[o] = LineOf(o)
    BY DEF Lines
  <2> QED
    BY <1>3, <1>4, <1>5, <2>1 DEF ServiceLines!Work, ServiceLines!Works, Lines, Came
<1> QED
  BY <1>6 DEF LineStep, ServiceLines!Next

\* The first in line leaves: a step that takes it off, and changes the cart by
\* it or not at all.
LEMMA FirstLeaves ==
  ASSUME Identity, NEW r \in Request, NEW o \in Request,
         LineOf(o) # <<>>, Head(LineOf(o)) = r, LineOf(o)' = Tail(LineOf(o)),
         \A p \in Request : p # o => LineOf(p)' = LineOf(p),
         UNCHANGED object,
         cart' = cart \/ cart' = [cart EXCEPT ![o] = Append(@, r)]
  PROVE  LineStep
<1>1. Lines[o] = LineOf(o)
  BY DEF Lines
<1>2. Lines' = [Lines EXCEPT ![o] = Tail(@)]
  BY DEF Lines
<1>3. Came' = Came
  BY DEF Came
<1>4. ServiceLines!Leave(o)
  BY <1>1, <1>2, <1>3 DEF ServiceLines!Leave, ServiceLines!Works, Lines, Came
<1> QED
  BY <1>4 DEF LineStep, ServiceLines!Next

LEMMA ChatReturnsLine ==
  ASSUME SessionsAssumption, Identity, Service, NEW r \in Request, ChatReturns(r)
  PROVE  LineStep
<1>1. object[r] \in Request /\ holder[object[r]] = r
  BY DEF Identity, TypeOK, ChatReturns, Service, TurnHolds
<1>2. PICK o \in Request : o = object[r] /\ holder[o] = r
  BY <1>1
<1>3. /\ holder' = [holder EXCEPT ![o] = None]
      /\ UNCHANGED <<queue, cart, object>>
  BY <1>2 DEF ChatReturns, Release, requestVars
<1>4. /\ queue \in [Request -> Seq(Request)]
      /\ holder \in [Request -> Request \cup {None}]
  BY DEF Identity, TypeOK
<1>5. LineOf(o) # <<>> /\ Head(LineOf(o)) = r /\ Tail(LineOf(o)) = queue[o]
  BY <1>2, HeldLine DEF Identity
<1>6. LineOf(o)' = queue[o]
  <2>1. holder'[o] = None /\ queue'[o] = queue[o]
    BY <1>3, <1>4
  <2>2. Standing(None, queue[o]) = queue[o]
    BY <1>4, StandingFree
  <2> QED
    BY <2>1, <2>2, LinePrimed
<1>7. \A p \in Request : p # o => LineOf(p)' = LineOf(p)
  BY <1>3, <1>4 DEF LineOf
<1> QED
  BY <1>3, <1>5, <1>6, <1>7, FirstLeaves

LEMMA CartActionWakesLine ==
  ASSUME SessionsAssumption, Identity, Service, NEW r \in Request, CartActionWakes(r)
  PROVE  LineStep
<1>1. object[r] \in Request
  BY DEF Identity, TypeOK, CartActionWakes, Waiting
<1>2. PICK o \in Request : o = object[r]
  BY <1>1
<1>3. /\ holder[o] = None /\ queue[o] # <<>> /\ Head(queue[o]) = r
      /\ queue' = [queue EXCEPT ![o] = Tail(@)]
      /\ UNCHANGED <<holder, object>>
      /\ cart' = cart \/ cart' = [cart EXCEPT ![o] = Append(@, r)]
  BY <1>2 DEF CartActionWakes, Woken, Dispatch, requestVars
<1>4. /\ queue \in [Request -> Seq(Request)]
      /\ holder \in [Request -> Request \cup {None}]
  BY DEF Identity, TypeOK
<1>5. LineOf(o) = queue[o]
  <2>1. LineOf(o) = Standing(holder[o], queue[o])
    BY LineTypes DEF Identity
  <2>2. Standing(None, queue[o]) = queue[o]
    BY <1>4, StandingFree
  <2> QED
    BY <1>3, <2>1, <2>2
<1>6. LineOf(o)' = Tail(queue[o])
  <2>1. holder'[o] = None /\ queue'[o] = Tail(queue[o])
    BY <1>3, <1>4
  <2>2. Tail(queue[o]) \in Seq(Request)
    BY <1>3, <1>4, HeadTailProperties
  <2>3. Standing(None, Tail(queue[o])) = Tail(queue[o])
    BY <2>2, StandingFree
  <2> QED
    BY <2>1, <2>3, LinePrimed
<1>7. \A p \in Request : p # o => LineOf(p)' = LineOf(p)
  BY <1>3, <1>4 DEF LineOf
<1> QED
  BY <1>3, <1>5, <1>6, <1>7, FirstLeaves

-----------------------------------------------------------------------------
(* Arrivals *)

LEMMA ArrivesLine ==
  ASSUME SessionsAssumption, Identity, Service, NEW r \in Request, NEW s \in Session,
         ChatArrives(r, s) \/ CartActionArrives(r, s)
  PROVE  LineStep
<1>1. pc[r] = "unsent" /\ get_or_create(r, s)
  BY DEF ChatArrives, CartActionArrives
<1>2. store'[s] \in Request /\ object' = [object EXCEPT ![r] = store'[s]]
  BY <1>1, ArrivalStep DEF Identity
<1>3. PICK o \in Request : o = store'[s]
  BY <1>2
<1>4. /\ queue \in [Request -> Seq(Request)]
      /\ holder \in [Request -> Request \cup {None}]
      /\ object \in [Request -> Request \cup {None}]
  BY DEF Identity, TypeOK
<1>5. r \notin Came /\ Came' = Came \cup {r}
  <2>1. object[r] = None
    BY <1>1 DEF Identity, Fresh
  <2>2. o # None
    BY DEF SessionsAssumption
  <2> QED
    BY <1>2, <1>3, <1>4, <2>1, <2>2 DEF Came
<1>6. ServiceLines!Comes(r)
  BY <1>5 DEF ServiceLines!Comes, Came
<1>7. Lines[o] = LineOf(o) /\ LineOf(o) = Standing(holder[o], queue[o])
  BY LineTypes DEF Lines, Identity
<1>8. ASSUME LineOf(o)' = Append(LineOf(o), r), cart' = cart,
             \A p \in Request : p # o => LineOf(p)' = LineOf(p)
      PROVE  LineStep
  <2>1. Lines' = [Lines EXCEPT ![o] = Append(@, r)]
    BY <1>7, <1>8 DEF Lines
  <2>2. ServiceLines!Join(o, r)
    BY <1>6, <1>8, <2>1 DEF ServiceLines!Join, Lines
  <2> QED
    BY <2>2 DEF LineStep, ServiceLines!Next
<1>9. CASE /\ holder[o] = None /\ queue[o] = <<>>
           /\ holder' = [holder EXCEPT ![o] = r]
           /\ queue' = queue /\ cart' = cart
  <2>1. LineOf(o) = <<>>
    BY <1>7, <1>9, EmptySeq, StandingFree
  <2>2. holder'[o] = r /\ queue'[o] = <<>>
    BY <1>4, <1>9
  <2>3. LineOf(o)' = Append(<<>>, r)
    <3>1. Standing(r, <<>>) = <<r>> \o <<>>
      BY DEF Standing, SessionsAssumption
    <3>2. <<r>> \o <<>> = <<r>> /\ Append(<<>>, r) = <<r>>
      OBVIOUS
    <3> QED
      BY <2>2, <3>1, <3>2, LinePrimed
  <2>4. \A p \in Request : p # o => LineOf(p)' = LineOf(p)
    BY <1>4, <1>9 DEF LineOf
  <2> QED
    BY <1>8, <1>9, <2>1, <2>3, <2>4
<1>10. CASE /\ holder' = holder /\ cart' = cart
            /\ queue' = [queue EXCEPT ![o] = Append(@, r)]
  <2>1. holder'[o] = holder[o] /\ queue'[o] = Append(queue[o], r)
    BY <1>4, <1>10
  <2>2. LineOf(o)' = Append(LineOf(o), r)
    <3>1. PICK h \in Request \cup {None}, q \in Seq(Request) : h = holder[o] /\ q = queue[o]
      BY <1>4
    <3>2. Standing(h, Append(q, r)) = Append(Standing(h, q), r)
      BY StandingAppend
    <3>3. LineOf(o)' = Standing(h, Append(q, r))
      BY <2>1, <3>1, LinePrimed
    <3> QED
      BY <1>7, <3>1, <3>2, <3>3
  <2>3. \A p \in Request : p # o => LineOf(p)' = LineOf(p)
    BY <1>4, <1>10 DEF LineOf
  <2> QED
    BY <1>8, <1>10, <2>2, <2>3
<1>11. CASE /\ holder[o] = None /\ queue[o] = <<>>
            /\ holder' = holder /\ queue' = queue
            /\ Dispatch(r, o)
  <2>1. Lines[o] = <<>>
    BY <1>7, <1>11, EmptySeq, StandingFree
  <2>2. Lines' = Lines
    BY <1>11 DEF Lines, LineOf
  <2>3. cart' = cart \/ cart' = [cart EXCEPT ![o] = Append(@, r)]
    BY <1>11 DEF Dispatch
  <2>4. ServiceLines!ServedAtOnce(o, r)
    BY <1>6, <2>1, <2>2, <2>3
       DEF ServiceLines!ServedAtOnce, ServiceLines!Works, Lines
  <2> QED
    BY <2>4 DEF LineStep, ServiceLines!Next
<1> QED
  BY <1>3, <1>9, <1>10, <1>11, ArrivalKinds DEF Identity

-----------------------------------------------------------------------------
(* The theorem *)

LEMMA LineStepHolds ==
  ASSUME SessionsAssumption, Identity, Service, [Next]_vars
  PROVE  LineStep
<1>1. CASE UNCHANGED vars
  BY <1>1, LocksKept DEF vars
<1>2. ASSUME NEW r \in Request, NEW s \in Session, GetCart(r, s)
      PROVE  LineStep
  BY <1>2, LocksKept DEF GetCart, requestVars
<1>3. ASSUME NEW r \in Request, Clear(r)
      PROVE  LineStep
  BY <1>3, LocksKept DEF Clear, requestVars
<1>4. CASE Cleanup
  BY <1>4, LocksKept DEF Cleanup, requestVars
<1> QED
  BY <1>1, <1>2, <1>3, <1>4, ArrivesLine, ChatWakesLine, ToolCallLine, ChatReturnsLine,
     CartActionWakesLine
     DEF Next

LEMMA LineInit == Init => ServiceLines!Init
<1> SUFFICES ASSUME Init PROVE ServiceLines!Init
  OBVIOUS
<1>1. \A o \in Request : LineOf(o) = <<>>
  BY DEF Init, LineOf
<1> QED
  BY <1>1 DEF Init, ServiceLines!Init

\* The per-session lock is a line per SessionState: its requests are served in
\* the order in which they came and only the first works on the cart (chat.py,
\* cart.py), whatever is evicted, cleared, expired and created meanwhile.
THEOREM SessionsServeInLine == Spec => ServedInLine
<1>1. Identity /\ Service /\ [Next]_vars => [ServiceLines!Next]_(ServiceLines!lineVars)
  <2> SUFFICES ASSUME Identity, Service, [Next]_vars
               PROVE  [ServiceLines!Next]_(ServiceLines!lineVars)
    OBVIOUS
  <2>1. LineStep
    BY SessionsAssumption, LineStepHolds
  <2> QED
    BY <2>1 DEF LineStep, ServiceLines!lineVars, Lines, Came
<1> QED
  BY <1>1, LineInit, SessionInvariant, PTL DEF Spec, ServedInLine, ServiceLines!Spec
=============================================================================
