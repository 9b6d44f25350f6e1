\* Two turns of three round trips and two calls, a window of two, two events.
SPECIFICATION FairSpec
CONSTANTS
  Call = {"add", "undo"}
  UndoCall = {"undo"}
  MaxRoundTrips = 3
  Window = 2
  HistoryLimit = 2
  MaxCalls = 2
  MaxTurns = 2
INVARIANTS
  TypeOK
  FreshContext
  ProtocolKept
  UserAnswered
  TraceFaithful
  ReportedAreNew
  ConversationKnowsCart
  LoopBroken
PROPERTY
  TurnEnds
