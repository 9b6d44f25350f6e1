----------------------------- MODULE MCSessions -----------------------------
(* Instances of module Sessions for TLC.  Sessions and requests are model   *)
(* values; the run without liveness takes them as interchangeable.          *)
EXTENDS Sessions, TLC

Interchangeable == Permutations(Session) \cup Permutations(Request)
=============================================================================
