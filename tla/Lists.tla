-------------------------------- MODULE Lists --------------------------------
(***************************************************************************)
(* What the code does with a Python list in one expression: a              *)
(* comprehension with a condition, and a sum.  Both are recursive          *)
(* functions over the places of the list, as the loop is that runs them.   *)
(***************************************************************************)
EXTENDS Integers, Sequences

\* [x for x in s if ...]: the elements of s at some of its places, in order.
ElementsAt(s, places) ==
  LET upto[n \in 0 .. Len(s)] ==
        IF n = 0 THEN <<>>
        ELSE IF n \in places THEN Append(upto[n - 1], s[n]) ELSE upto[n - 1]
  IN upto[Len(s)]

\* sum(s).
Total(s) ==
  LET upto[n \in 0 .. Len(s)] == IF n = 0 THEN 0 ELSE upto[n - 1] + s[n]
  IN upto[Len(s)]
=============================================================================
