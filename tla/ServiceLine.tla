----------------------------- MODULE ServiceLine -----------------------------
(***************************************************************************)
(* What the per-session lock promises, without a lock: the requests that   *)
(* came for one SessionState stand in line in the order of their arrival,  *)
(* only the first of a line works on the cart, and whoever left does not   *)
(* come back.                                                              *)
(***************************************************************************)
EXTENDS Sequences

CONSTANTS
  Object,   \* the SessionStates there may be
  Request   \* the requests

VARIABLES
  line,     \* of each object: the requests in it, first come first
  log,      \* of each object: who changed its cart, in order
  seen      \* the requests that have come

lineVars == <<line, log, seen>>

Init ==
  /\ line = [o \in Object |-> <<>>]
  /\ log = [o \in Object |-> <<>>]
  /\ seen = {}

\* A request comes: it is not in any line, and never was.
Comes(r) == r \notin seen /\ seen' = seen \cup {r}

Join(o, r) ==
  /\ Comes(r)
  /\ line' = [line EXCEPT ![o] = Append(@, r)]
  /\ UNCHANGED log

Works(o, r) == log' = [log EXCEPT ![o] = Append(@, r)]

Work(o) ==
  /\ line[o] # <<>>
  /\ Works(o, Head(line[o]))
  /\ UNCHANGED <<line, seen>>

\* The first in line leaves, after a last change or without one.
Leave(o) ==
  /\ line[o] # <<>>
  /\ line' = [line EXCEPT ![o] = Tail(@)]
  /\ Works(o, Head(line[o])) \/ UNCHANGED log
  /\ UNCHANGED seen

\* A request that finds nobody in line is served as it comes.
ServedAtOnce(o, r) ==
  /\ Comes(r)
  /\ line[o] = <<>>
  /\ Works(o, r) \/ UNCHANGED log
  /\ UNCHANGED line

Next ==
  \E o \in Object :
    \/ Work(o) \/ Leave(o)
    \/ \E r \in Request : Join(o, r) \/ ServedAtOnce(o, r)

Spec == Init /\ [][Next]_lineVars
=============================================================================
