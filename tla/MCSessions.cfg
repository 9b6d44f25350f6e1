\* Three requests of three sessions in a store of two.
SPECIFICATION FairSpec
CONSTANTS
  Session = {s1, s2, s3}
  Request = {r1, r2, r3}
  MaxSessions = 2
  MaxCalls = 2
  None = None
CHECK_DEADLOCK FALSE
INVARIANTS
  TypeOK
  Capacity
  Isolation
  ArrivalOrder
  LockDiscipline
PROPERTIES
  RemovedForGood
  ServedInLine
  EveryRequestAnswered
