\* Two requests of one session and one that clears it.
SPECIFICATION Spec
CONSTANTS
  Session = {s1}
  Request = {r1, r2, r3}
  MaxSessions = 1
  MaxCalls = 1
  None = None
SYMMETRY Interchangeable
CHECK_DEADLOCK FALSE
INVARIANT
  TurnsOfSessionSerialized
