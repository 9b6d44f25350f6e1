----------------------------- MODULE UndoStack -----------------------------
(***************************************************************************)
(* What the cart promises about changing and undoing, without saying how:  *)
(* a value, and the at most Limit values it had before, newest last.       *)
(* A change puts the value it replaces on the stack, dropping the oldest   *)
(* one when the stack is full; an undo puts the newest one back.  Nothing  *)
(* else ever changes the value.                                            *)
(***************************************************************************)
EXTENDS Integers, Sequences

CONSTANTS
    Value,      \* what can be stored
    Start,      \* the first value, an element of Value
    Limit       \* how many changes can be undone: at least one

VARIABLES
    current,    \* the value
    past        \* the values an undo can bring back, newest last

vars == <<current, past>>

Init ==
    /\ current = Start
    /\ past = <<>>

\* The newest Limit elements of s.
Newest(s) ==
    IF Len(s) > Limit THEN SubSeq(s, Len(s) - Limit + 1, Len(s)) ELSE s

Change ==
    /\ current' \in Value
    /\ past' = Newest(Append(past, current))

Undo ==
    /\ past # <<>>
    /\ current' = past[Len(past)]
    /\ past' = SubSeq(past, 1, Len(past) - 1)

Next == Change \/ Undo

Spec == Init /\ [][Next]_vars
=============================================================================
