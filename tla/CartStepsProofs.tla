--------------------------- MODULE CartStepsProofs ---------------------------
(***************************************************************************)
(* Proofs about module CartSteps: run one assignment at a time, with a     *)
(* reader in between, the cart still implements module Cart, and a read    *)
(* that at most one call in a single place overtakes is not torn.          *)
(***************************************************************************)
EXTENDS CartSteps, SequenceTheorems, TLAPS

\* The theorems about the abstract cart, at the committed cart.
P == INSTANCE CartProofs WITH items <- Committed, history <- CommittedHistory

-----------------------------------------------------------------------------
(* The invariant *)

\* What a method has written once it is about to record.
Changed ==
    \/ /\ call \in AddCall
       /\ items = AddTo(before, call) /\ InBounds(items)
    \/ /\ call \in RemoveCall /\ call.menu # "ALL"
       /\ FirstLine(before, call.menu) # {}
       /\ items = TakeFrom(before, call) /\ InBounds(items)
    \/ /\ call \in RemoveCall /\ call.menu = "ALL"
       /\ before # <<>> /\ items = <<>>
    \/ call \in ClearCall /\ before # <<>> /\ items = <<>>
    \/ /\ call.op = "replace"
       /\ \E c \in ReplaceCall : \E i \in FirstLine(before, c.menu) :
            items = [before EXCEPT ![i].menu = c.to, ![i].options = c.options]
    \/ /\ call \in ChangeOptionCall
       /\ \E i \in FirstLine(before, call.menu) :
            items = [before EXCEPT ![i].options = call.options]

\* Between the two assignments of replace().
HalfReplaced ==
    /\ call.op = "replace"
    /\ \E c \in ReplaceCall :
         /\ call.options = c.options
         /\ call.at \in FirstLine(before, c.menu)
         /\ items = [before EXCEPT ![call.at].menu = c.to]

\* What holds where a method is.
Progress ==
    /\ step \in Step
    /\ step = "write" =>
         /\ call \in Calls /\ items = before
         /\ call.op = "add" => InBounds(AddTo(before, call))
         /\ call.op = "remove" /\ call.menu # "ALL" => InBounds(TakeFrom(before, call))
    /\ step = "options" => HalfReplaced
    /\ step = "record" => Changed
    /\ step = "restore" =>
         /\ items = before
         /\ history \in Seq(C!Event) /\ call.event \in C!Event

StepsInv == C!WellFormed /\ C!HistoryChain /\ Progress

-----------------------------------------------------------------------------
(* Each step of the writer is a step of module Cart, or leaves the committed *)
(* cart alone                                                               *)

\* A step that leaves the committed cart alone.
Silent == UNCHANGED C!cartVars

LEMMA FrontOfAppend ==
    ASSUME NEW S, NEW s \in Seq(S), NEW e \in S
    PROVE  /\ C!Front(Append(s, e)) = s
           /\ C!Last(Append(s, e)) = e
           /\ Append(s, e) # <<>>
BY DEF C!Front, C!Last

LEMMA AppendToFront ==
    ASSUME NEW S, NEW s \in Seq(S), s # <<>>
    PROVE  /\ Front(s) \in Seq(S) /\ Last(s) \in S
           /\ Append(Front(s), Last(s)) = s
BY DEF Front, Last

LEMMA BeginSilent ==
    ASSUME StepsInv, NEW c \in Calls, Begin(c)
    PROVE  Silent /\ Progress'
BY DEF StepsInv, Progress, Begin, Room, Silent, C!cartVars, Committed, CommittedHistory, Step

LEMMA NotInCartStep ==
    ASSUME StepsInv, NotInCart
    PROVE  C!Next /\ Progress'
<1> USE DEF NotInCart, Return, Committed, CommittedHistory
<1>1. Progress'
  BY DEF Progress, Step
<1>2. /\ call \in Calls /\ items = before /\ items' = items /\ step' = "idle"
      /\ history' = history
  BY DEF StepsInv, Progress
<1>3. CASE call.op = "remove"
  <2>1. call \in RemoveCall /\ call.menu # "ALL"
    BY <1>2, <1>3 DEF Calls, AddCall, RemoveCall, ReplaceCall, ChangeOptionCall, ClearCall, UndoCall
  <2>2. C!CartRemove(call.menu, call.quantity)
    BY <2>1, <1>2 DEF C!CartRemove, C!NotInCart, C!FirstLine, FirstLine
  <2>3. C!InBounds'
    BY <2>1, <1>2, <1>3 DEF StepsInv, Progress, TakeFrom, InBounds, C!InBounds
  <2> QED
    BY <1>1, <2>1, <2>2, <2>3 DEF C!Next, RemoveCall
<1>4. CASE call.op = "replace"
  <2>1. call \in ReplaceCall
    BY <1>2, <1>4 DEF Calls, AddCall, RemoveCall, ReplaceCall, ChangeOptionCall, ClearCall, UndoCall
  <2>2. C!CartReplace(call.menu, call.to, call.options)
    BY <2>1, <1>2 DEF C!CartReplace, C!NotInCart, C!FirstLine, FirstLine
  <2> QED
    BY <1>1, <2>1, <2>2 DEF C!Next, ReplaceCall
<1>5. CASE call.op = "change_option"
  <2>1. call \in ChangeOptionCall
    BY <1>2, <1>5 DEF Calls, AddCall, RemoveCall, ReplaceCall, ChangeOptionCall, ClearCall, UndoCall
  <2>2. C!CartChangeOption(call.menu, call.options)
    BY <2>1, <1>2 DEF C!CartChangeOption, C!NotInCart, C!FirstLine, FirstLine
  <2> QED
    BY <1>1, <2>1, <2>2 DEF C!Next, ChangeOptionCall
<1> QED
  BY <1>3, <1>4, <1>5

LEMMA WritesSilent ==
    ASSUME StepsInv, AddWrites \/ RemoveWrites \/ ClearWrites \/ ChangeOptionWrites
    PROVE  Silent /\ Progress'
<1>1. step = "write" /\ step' = "record" /\ UNCHANGED <<history, reply, call, before>>
  BY DEF AddWrites, RemoveWrites, ClearWrites, ChangeOptionWrites, Empties, Writing, Written
<1>2. Silent
  BY <1>1 DEF Silent, C!cartVars, Committed, CommittedHistory
<1>3. call \in Calls /\ items = before
  BY <1>1 DEF StepsInv, Progress
<1> USE DEF Calls, AddCall, RemoveCall, ReplaceCall, ChangeOptionCall, ClearCall, UndoCall
<1>4. CASE AddWrites
  <2>1. Changed'
    BY <1>1, <1>3, <1>4 DEF AddWrites, Writing, Changed, StepsInv, Progress
  <2> QED
    BY <1>1, <1>2, <2>1 DEF Progress, Step
<1>5. CASE RemoveWrites
  <2>1. Changed'
    BY <1>1, <1>3, <1>5 DEF RemoveWrites, Writing, Changed, StepsInv, Progress
  <2> QED
    BY <1>1, <1>2, <2>1 DEF Progress, Step
<1>6. CASE ClearWrites
  <2>1. Changed'
    BY <1>1, <1>3, <1>6 DEF ClearWrites, Empties, Writing, Changed
  <2> QED
    BY <1>1, <1>2, <2>1 DEF Progress, Step
<1>7. CASE ChangeOptionWrites
  <2>1. Changed'
    BY <1>1, <1>3, <1>7 DEF ChangeOptionWrites, Writing, Changed
  <2> QED
    BY <1>1, <1>2, <2>1 DEF Progress, Step
<1> QED
  BY <1>4, <1>5, <1>6, <1>7

LEMMA ReplaceSilent ==
    ASSUME StepsInv, ReplaceWritesMenu \/ ReplaceWritesOptions
    PROVE  Silent /\ Progress'
<1>1. CASE ReplaceWritesMenu
  <2>1. call \in ReplaceCall /\ items = before /\ step' = "options" /\ step = "write"
    BY <1>1 DEF ReplaceWritesMenu, Writing, StepsInv, Progress, Calls, AddCall, RemoveCall,
                ReplaceCall, ChangeOptionCall, ClearCall, UndoCall
  <2>2. Silent
    BY <1>1, <2>1 DEF ReplaceWritesMenu, Silent, C!cartVars, Committed, CommittedHistory
  <2>3. HalfReplaced'
    <3>1. PICK i \in FirstLine(items, call.menu) :
            /\ items' = [items EXCEPT ![i].menu = call.to]
            /\ call' = [op |-> "replace", at |-> i, options |-> call.options]
      BY <1>1 DEF ReplaceWritesMenu
    <3>2. before' = before /\ call'.op = "replace" /\ call'.at = i
          /\ call'.options = call.options
      BY <1>1, <3>1 DEF ReplaceWritesMenu
    <3> QED
      BY <2>1, <3>1, <3>2 DEF HalfReplaced
  <2> QED
    BY <2>1, <2>2, <2>3 DEF Progress, Step
<1>2. CASE ReplaceWritesOptions
  <2>1. HalfReplaced /\ step = "options" /\ step' = "record"
    BY <1>2 DEF ReplaceWritesOptions, Written, StepsInv, Progress
  <2>2. Silent
    BY <1>2, <2>1 DEF ReplaceWritesOptions, Written, Silent, C!cartVars, Committed, CommittedHistory
  <2>3. PICK c \in ReplaceCall :
          /\ call.options = c.options
          /\ call.at \in FirstLine(before, c.menu)
          /\ items = [before EXCEPT ![call.at].menu = c.to]
    BY <2>1 DEF HalfReplaced
  <2>4. items' = [before EXCEPT ![call.at].menu = c.to, ![call.at].options = c.options]
    BY <1>2, <2>3 DEF ReplaceWritesOptions
  <2>5. before' = before /\ call' = call /\ call.op = "replace"
    BY <1>2, <2>1 DEF ReplaceWritesOptions, Written, HalfReplaced
  <2>6. \E d \in ReplaceCall : \E i \in FirstLine(before', d.menu) :
          items' = [before' EXCEPT ![i].menu = d.to, ![i].options = d.options]
    BY <2>3, <2>4, <2>5
  <2>7. Changed'
    BY <2>5, <2>6 DEF Changed
  <2> QED
    BY <2>1, <2>2, <2>7 DEF Progress, Step
<1> QED
  BY <1>1, <1>2

LEMMA ClearsNothingStep ==
    ASSUME StepsInv, ClearsNothing
    PROVE  C!Next /\ Progress'
<1>1. /\ call \in Calls /\ items = <<>> /\ before = <<>> /\ items' = <<>>
      /\ step = "write" /\ step' = "idle" /\ history' = history
  BY DEF ClearsNothing, Empties, Writing, Return, StepsInv, Progress
<1>2. Progress'
  BY <1>1 DEF Progress, Step
<1>3. CASE Writing("clear")
  <2>1. C!CartClear
    BY <1>1, <1>3 DEF ClearsNothing, Writing, Return, C!CartClear, C!Emptied,
                      Committed, CommittedHistory
  <2> QED
    BY <1>2, <2>1 DEF C!Next
<1>4. CASE Writing("remove") /\ call.menu = "ALL"
  <2>1. call \in RemoveCall
    BY <1>1, <1>4 DEF Writing, Calls, AddCall, RemoveCall, ReplaceCall, ChangeOptionCall,
                      ClearCall, UndoCall
  <2>2. C!CartRemove(call.menu, call.quantity)
    BY <1>1, <1>4 DEF ClearsNothing, Writing, Return, C!CartRemove, C!Emptied,
                      Committed, CommittedHistory
  <2>3. C!InBounds'
    BY <1>1, CartStepsAssumption DEF CartStepsAssumption, C!InBounds, Committed
  <2> QED
    BY <1>2, <2>1, <2>2, <2>3 DEF C!Next, RemoveCall
<1> QED
  BY <1>3, <1>4 DEF ClearsNothing, Empties

LEMMA RecordsStep ==
    ASSUME StepsInv, Records
    PROVE  C!Next /\ Progress'
<1>1. /\ step = "record" /\ step' = "idle" /\ items' = items
      /\ before \in Seq(C!Line) /\ Changed /\ reply' = Outcome
  BY DEF Records, Return, StepsInv, C!WellFormed, Committed, Progress
<1>2. Progress'
  BY <1>1 DEF Progress, Step
<1>3. Committed = before /\ Committed' = items /\ CommittedHistory = history
      /\ CommittedHistory' = history'
  BY <1>1 DEF Committed, CommittedHistory
<1>4. C!Record(EventKind)
  BY <1>3 DEF C!Record, Records
<1>5. CASE call \in AddCall /\ items = AddTo(before, call) /\ InBounds(items)
  <2>1. call.op = "add" /\ call.menu \in Name /\ call.quantity \in Quantity
        /\ call.options \in Options /\ C!Record("add")
    BY <1>4, <1>5 DEF AddCall, EventKind
  <2>4. C!CartAdd(call.menu, call.quantity, call.options)
    <3>1. CASE FirstTwin(before, call) = {}
      <4>1. items = Append(before, [menu |-> call.menu, quantity |-> call.quantity,
                                    options |-> call.options])
        BY <1>5, <3>1 DEF AddTo
      <4>2. Len(items) # Len(before)
        BY <1>1, <4>1, LenProperties, AppendProperties
      <4> QED
        BY <1>1, <1>3, <2>1, <3>1, <4>1, <4>2 DEF C!CartAdd, FirstTwin, Outcome
    <3>2. CASE FirstTwin(before, call) # {}
      <4>1. PICK i \in FirstTwin(before, call) :
              items = [before EXCEPT ![i].quantity = @ + call.quantity]
        BY <1>5, <3>2 DEF AddTo
      <4>2. Len(items) = Len(before)
        BY <1>1, <4>1
      <4> QED
        BY <1>1, <1>3, <2>1, <4>1, <4>2 DEF C!CartAdd, FirstTwin, Outcome
    <3> QED
      BY <3>1, <3>2
  <2>5. C!InBounds'
    BY <1>3, <1>5 DEF C!InBounds, InBounds
  <2> QED
    BY <1>2, <2>1, <2>4, <2>5 DEF C!Next
<1>6. CASE /\ call \in RemoveCall /\ call.menu # "ALL"
           /\ FirstLine(before, call.menu) # {}
           /\ items = TakeFrom(before, call) /\ InBounds(items)
  <2>1. call.op = "remove" /\ call.menu \in Name /\ call.quantity \in Quantity
        /\ C!Record("remove")
    BY <1>4, <1>6 DEF RemoveCall, EventKind
  <2>2. PICK i \in FirstLine(before, call.menu) :
          items = IF C!TakesAll(before[i], call.quantity)
                  THEN RemoveAt(before, i)
                  ELSE [before EXCEPT ![i].quantity = @ - call.quantity]
    BY <1>6 DEF TakeFrom
  <2>3. C!CartRemove(call.menu, call.quantity)
    BY <1>1, <1>3, <1>6, <2>1, <2>2 DEF C!CartRemove, C!FirstLine, FirstLine, Outcome,
                                        RemoveAt, C!RemoveAt
  <2>4. C!InBounds'
    BY <1>3, <1>6 DEF C!InBounds, InBounds
  <2> QED
    BY <1>2, <2>1, <2>3, <2>4 DEF C!Next
<1>7. CASE call \in RemoveCall /\ call.menu = "ALL" /\ before # <<>> /\ items = <<>>
  <2>1. call.op = "remove" /\ call.quantity \in Quantity /\ C!Record("clear")
    BY <1>4, <1>7 DEF RemoveCall, EventKind
  <2>2. C!CartRemove(call.menu, call.quantity)
    BY <1>1, <1>3, <1>7, <2>1 DEF C!CartRemove, C!Emptied, Outcome
  <2>3. C!InBounds'
    BY <1>3, <1>7, CartStepsAssumption DEF CartStepsAssumption, C!InBounds
  <2> QED
    BY <1>2, <1>7, <2>1, <2>2, <2>3 DEF C!Next
<1>8. CASE call \in ClearCall /\ before # <<>> /\ items = <<>>
  <2>1. call.op = "clear" /\ C!Record("clear")
    BY <1>4, <1>8 DEF ClearCall, EventKind
  <2>2. C!CartClear
    BY <1>1, <1>3, <1>8, <2>1 DEF C!CartClear, C!Emptied, Outcome
  <2> QED
    BY <1>2, <2>2 DEF C!Next
<1>9. CASE /\ call.op = "replace"
           /\ \E c \in ReplaceCall : \E i \in FirstLine(before, c.menu) :
                items = [before EXCEPT ![i].menu = c.to, ![i].options = c.options]
  <2>1. PICK c \in ReplaceCall : \E i \in FirstLine(before, c.menu) :
                items = [before EXCEPT ![i].menu = c.to, ![i].options = c.options]
    BY <1>9
  <2>2. C!Record("replace") /\ reply' = "REPLACED"
    BY <1>1, <1>4, <1>9 DEF EventKind, Outcome
  <2>3. C!CartReplace(c.menu, c.to, c.options)
    BY <1>1, <1>3, <2>1, <2>2 DEF C!CartReplace, C!FirstLine, FirstLine
  <2> QED
    BY <1>2, <2>3 DEF C!Next, ReplaceCall
<1>10. CASE /\ call \in ChangeOptionCall
            /\ \E i \in FirstLine(before, call.menu) :
                 items = [before EXCEPT ![i].options = call.options]
  <2>1. call.op = "change_option" /\ C!Record("change_option")
    BY <1>4, <1>10 DEF ChangeOptionCall, EventKind
  <2>2. C!CartChangeOption(call.menu, call.options)
    BY <1>1, <1>3, <1>10, <2>1 DEF C!CartChangeOption, C!FirstLine, FirstLine, Outcome
  <2> QED
    BY <1>2, <1>10, <2>2 DEF C!Next, ChangeOptionCall
<1> QED
  BY <1>1, <1>5, <1>6, <1>7, <1>8, <1>9, <1>10 DEF Changed

LEMMA UndoSteps ==
    ASSUME StepsInv
    PROVE  /\ NothingToUndo => C!Next /\ Progress'
           /\ UndoPops => Silent /\ Progress'
           /\ Restores => C!Next /\ Progress'
<1>1. ASSUME NothingToUndo
      PROVE  C!Next /\ Progress'
  BY <1>1 DEF NothingToUndo, Writing, Return, StepsInv, Progress, Step, C!Next, C!CartUndo,
              Committed, CommittedHistory
<1>2. ASSUME UndoPops
      PROVE  Silent /\ Progress'
  <2>1. /\ step = "write" /\ step' = "restore" /\ items = before
        /\ items' = items /\ before' = before /\ reply' = reply
        /\ history # <<>> /\ history' = Front(history) /\ call'.event = Last(history)
    BY <1>2 DEF UndoPops, Writing, StepsInv, Progress
  <2>2. history \in Seq(C!Event)
    BY <2>1 DEF StepsInv, C!WellFormed, CommittedHistory
  <2>3. /\ history' \in Seq(C!Event) /\ call'.event \in C!Event
        /\ Append(history', call'.event) = history
    BY <2>1, <2>2, AppendToFront
  <2> QED
    BY <2>1, <2>3 DEF Progress, Step, Silent, C!cartVars, Committed, CommittedHistory
<1>3. ASSUME Restores
      PROVE  C!Next /\ Progress'
  <2>1. /\ step = "restore" /\ step' = "idle" /\ history' = history
        /\ history \in Seq(C!Event) /\ call.event \in C!Event
        /\ items' = call.event.before /\ reply' = "UNDONE"
    BY <1>3 DEF Restores, Return, StepsInv, Progress
  <2>2. C!CartUndo
    BY <2>1, FrontOfAppend DEF C!CartUndo, Committed, CommittedHistory
  <2> QED
    BY <2>1, <2>2 DEF C!Next, Progress, Step
<1> QED
  BY <1>1, <1>2, <1>3

LEMMA ReaderSilent ==
    ASSUME StepsInv, ReadBegins \/ ReadLine \/ ReadEnds \/ UNCHANGED vars
    PROVE  Silent /\ Progress'
<1>1. UNCHANGED writerVars
  BY DEF ReadBegins, ReadLine, ReadEnds, vars
<1>2. Silent
  BY <1>1 DEF writerVars, Silent, C!cartVars, Committed, CommittedHistory
<1>3. Progress'
  BY <1>1 DEF StepsInv, Progress, writerVars, Changed, HalfReplaced
<1> QED
  BY <1>2, <1>3

-----------------------------------------------------------------------------
(* Refinement *)

\* Every step of the writer or the reader is a step of module Cart or none.
LEMMA StepImplements ==
    ASSUME StepsInv, [Next]_vars
    PROVE  [C!Next]_(C!cartVars) /\ Progress'
<1>1. ASSUME NEW c \in Calls, Begin(c)
      PROVE  Silent /\ Progress'
  BY <1>1, BeginSilent
<1>2. CASE NotInCart \/ ClearsNothing \/ Records
  BY <1>2, NotInCartStep, ClearsNothingStep, RecordsStep
<1>3. CASE \/ AddWrites \/ RemoveWrites \/ ClearWrites \/ ChangeOptionWrites
           \/ ReplaceWritesMenu \/ ReplaceWritesOptions
  BY <1>3, WritesSilent, ReplaceSilent DEF Silent
<1>4. CASE NothingToUndo \/ UndoPops \/ Restores
  BY <1>4, UndoSteps DEF Silent
<1>5. CASE ReadBegins \/ ReadLine \/ ReadEnds \/ UNCHANGED vars
  BY <1>5, ReaderSilent DEF Silent
<1> QED
  BY <1>1, <1>2, <1>3, <1>4, <1>5 DEF Next, Silent

LEMMA AbstractNext ==
    ASSUME C!Next
    PROVE  P!Next
BY DEF P!Next, P!InBounds, P!CartAdd, P!CartRemove, P!CartReplace,
       P!CartChangeOption, P!CartClear, P!CartUndo, P!NotInCart, P!Emptied,
       P!FirstLine, P!First, P!SameAs, P!TakesAll, P!Record, P!Trimmed,
       P!RemoveAt, P!Front, P!Last,
       C!Next, C!InBounds, C!CartAdd, C!CartRemove, C!CartReplace,
       C!CartChangeOption, C!CartClear, C!CartUndo, C!NotInCart, C!Emptied,
       C!FirstLine, C!First, C!SameAs, C!TakesAll, C!Record, C!Trimmed,
       C!RemoveAt, C!Front, C!Last

\* The theorems of CartProofs hold of the committed cart.
LEMMA ShapedSteps ==
    ASSUME C!WellFormed, C!HistoryChain, [C!Next]_(C!cartVars)
    PROVE  /\ P!CartInv /\ P!CartAssumption /\ P!Shaped
           /\ reply \in C!CartStatus => reply' \in C!CartStatus
<1>1. P!CartInv
  BY DEF P!CartInv, P!WellFormed, P!HistoryChain, P!Linked, P!EndsNow, P!Line, P!Event,
         P!OptionBag, P!EventAction, P!Last,
         C!WellFormed, C!HistoryChain, C!Linked, C!EndsNow, C!Line, C!Event,
         C!OptionBag, C!EventAction, C!Last
<1>2. P!CartAssumption
  BY CartStepsAssumption DEF CartStepsAssumption, P!CartAssumption
<1>3. [P!Next]_(P!cartVars)
  BY AbstractNext DEF P!cartVars, C!cartVars
<1>4. CASE P!Next
  <2>1. P!Shaped /\ reply' \in P!CartStatus
    BY <1>1, <1>2, <1>4, P!StepShape DEF P!CartInv
  <2> QED
    BY <1>1, <1>2, <2>1 DEF P!CartStatus, C!CartStatus
<1>5. CASE UNCHANGED P!cartVars
  BY <1>1, <1>2, <1>5 DEF P!cartVars, P!Shaped, P!Untouched
<1> QED
  BY <1>3, <1>4, <1>5

\* What the abstract cart keeps, the committed cart keeps.
LEMMA AbstractInvariant ==
    ASSUME C!WellFormed, C!HistoryChain, [C!Next]_(C!cartVars)
    PROVE  C!WellFormed' /\ C!HistoryChain'
<1>1. P!CartInv'
  BY ShapedSteps, P!ShapedInv
<1> QED
  BY <1>1
  DEF P!CartInv, P!WellFormed, P!HistoryChain, P!Linked, P!EndsNow, P!Line, P!Event,
      P!OptionBag, P!EventAction, P!Last,
      C!WellFormed, C!HistoryChain, C!Linked, C!EndsNow, C!Line, C!Event,
      C!OptionBag, C!EventAction, C!Last

LEMMA InitImplements == Init => C!Init /\ StepsInv
<1> SUFFICES ASSUME Init
             PROVE  C!Init /\ StepsInv
  OBVIOUS
<1>1. Committed = <<>> /\ CommittedHistory = <<>> /\ step = "idle" /\ reply = "READY"
  BY DEF Init, Committed, CommittedHistory
<1>2. C!Init /\ Progress
  BY <1>1 DEF C!Init, Progress, Step
<1>3. C!WellFormed /\ C!HistoryChain
  BY <1>1, EmptySeq, CartStepsAssumption
  DEF CartStepsAssumption, C!WellFormed, C!HistoryChain, C!Linked, C!EndsNow
<1> QED
  BY <1>2, <1>3 DEF StepsInv

LEMMA StepsInvariance == Spec => []StepsInv
<1>1. Init => StepsInv
  BY InitImplements
<1>2. StepsInv /\ [Next]_vars => StepsInv'
  BY StepImplements, AbstractInvariant DEF StepsInv
<1> QED
  BY <1>1, <1>2, PTL DEF Spec

\* For every set of menus, options and quantities and every limit of the event
\* list: the methods run one assignment at a time beside a reader do to the cart
\* and its events what the one step of module Cart does.
THEOREM StepsImplementCart == Spec => ImplementsCart
<1>1. Init => C!Init
  BY InitImplements
<1>2. StepsInv /\ [Next]_vars => [C!Next]_(C!cartVars)
  BY StepImplements
<1> QED
  BY <1>1, <1>2, StepsInvariance, PTL DEF Spec, ImplementsCart, C!Spec

-----------------------------------------------------------------------------
(* The reader *)

\* The cart now differs from the one the read began with in line p at most, and
\* each line read is one of the two carts'.
Mixed(p) ==
    /\ \/ Len(items) = Len(start)
       \/ Len(items) = Len(start) + 1 /\ p = Len(items)
    /\ \A i \in 1 .. Len(start) : i # p => items[i] = start[i]
    /\ Len(got) <= Len(items)
    /\ \A i \in 1 .. Len(got) :
         \/ got[i] = items[i]
         \/ i = p /\ i <= Len(start) /\ got[i] = start[i]

\* An undo took the list away: what was read of it is the old cart's.
ReadsOld ==
    /\ step = "idle" /\ old = start
    /\ Len(got) <= Len(start)
    /\ \A i \in 1 .. Len(got) : got[i] = start[i]

\* The read began when the call had written already: what was read is new.
ReadsNew ==
    /\ step \in {"record", "idle"} /\ disturbed = 1
    /\ Len(got) <= Len(items)
    /\ \A i \in 1 .. Len(got) : got[i] = items[i]

ReadInv ==
    reading /\ disturbed <= 1 =>
      /\ disturbed = 0 => step = "idle" /\ ~detached /\ items = start
      /\ step \in {"write", "restore"} => ~detached /\ items = start
      /\ step = "write" => ~Tears(items, call)
      /\ step # "options"
      /\ detached => ReadsOld
      /\ ~detached => (\E p \in Nat : Mixed(p)) \/ ReadsNew

Lists ==
    /\ old \in Seq(C!Line) /\ got \in Seq(C!Line) /\ start \in Seq(C!Line)
    /\ disturbed \in 0 .. 2 /\ reading \in BOOLEAN /\ detached \in BOOLEAN
    /\ ~reading => ~detached /\ got = <<>>

LEMMA LineRewrites ==
    ASSUME NEW s \in Seq(C!Line), NEW i \in 1 .. Len(s)
    PROVE  /\ \A q \in Int : [s EXCEPT ![i].quantity = q] \in Seq(C!Line)
           /\ \A o \in C!OptionBag : [s EXCEPT ![i].options = o] \in Seq(C!Line)
           /\ \A m \in Name : [s EXCEPT ![i].menu = m] \in Seq(C!Line)
           /\ \A m \in Name, o \in C!OptionBag :
                [s EXCEPT ![i].menu = m, ![i].options = o] \in Seq(C!Line)
<1>1. s[i] \in C!Line
  BY ElementOfSeq
<1>2. \A q \in Int : [s[i] EXCEPT !.quantity = q] \in C!Line
  BY <1>1 DEF C!Line
<1>3. \A o \in C!OptionBag : [s[i] EXCEPT !.options = o] \in C!Line
  BY <1>1 DEF C!Line
<1>4. \A m \in Name : [s[i] EXCEPT !.menu = m] \in C!Line
  BY <1>1 DEF C!Line
<1>5. \A m \in Name, o \in C!OptionBag :
        [s[i] EXCEPT !.menu = m, !.options = o] \in C!Line
  BY <1>1 DEF C!Line
<1>6. \A e \in C!Line : [s EXCEPT ![i] = e] \in Seq(C!Line)
  BY ExceptSeq
<1>7. ASSUME NEW m \in Name, NEW o \in C!OptionBag
      PROVE  [s EXCEPT ![i].menu = m, ![i].options = o] \in Seq(C!Line)
  <2>1. [s EXCEPT ![i] = [s[i] EXCEPT !.menu = m, !.options = o]] \in Seq(C!Line)
    BY <1>5, <1>6
  <2>2. [s EXCEPT ![i].menu = m, ![i].options = o]
          = [s EXCEPT ![i] = [s[i] EXCEPT !.menu = m, !.options = o]]
    OBVIOUS
  <2> QED
    BY <2>1, <2>2
<1> QED
  BY <1>2, <1>3, <1>4, <1>6, <1>7

\* The lines the writer is at work on are lines at every point of a method.
LEMMA ItemsType ==
    ASSUME StepsInv
    PROVE  items \in Seq(C!Line)
<1>1. /\ Committed \in Seq(C!Line) /\ step \in Step
      /\ Quantity \subseteq Int /\ Options \subseteq C!OptionBag
  BY CartStepsAssumption
  DEF StepsInv, C!WellFormed, Progress, CartStepsAssumption, C!OptionBag
<1>2. CASE step \in {"idle", "write", "restore"}
  BY <1>1, <1>2 DEF Committed, StepsInv, Progress
<1>3. CASE step \notin {"idle", "write", "restore"}
  <2>1. before \in Seq(C!Line)
    BY <1>1, <1>3 DEF Committed
  <2>2. \A l \in Seq(C!Line) : \A m : FirstLine(l, m) \subseteq 1 .. Len(l)
    BY DEF FirstLine, C!First
  <2>3. CASE step = "options"
    <3>1. PICK c \in ReplaceCall :
            /\ call.at \in FirstLine(before, c.menu)
            /\ items = [before EXCEPT ![call.at].menu = c.to]
      BY <2>3 DEF StepsInv, Progress, HalfReplaced
    <3>2. c.to \in Name /\ call.at \in 1 .. Len(before)
      BY <2>1, <2>2, <3>1 DEF ReplaceCall
    <3> QED
      BY <2>1, <3>1, <3>2, LineRewrites
  <2>4. CASE step = "record"
    <3>1. Changed
      BY <2>4 DEF StepsInv, Progress
    <3>2. CASE call \in AddCall /\ items = AddTo(before, call)
      <4>1. call.menu \in Name /\ call.quantity \in Int /\ call.options \in C!OptionBag
        BY <1>1, <3>2 DEF AddCall
      <4>2. CASE FirstTwin(before, call) = {}
        <5>1. [menu |-> call.menu, quantity |-> call.quantity, options |-> call.options]
                \in C!Line
          BY <4>1 DEF C!Line
        <5> QED
          BY <2>1, <3>2, <4>2, <5>1, AppendProperties DEF AddTo
      <4>3. CASE FirstTwin(before, call) # {}
        <5>1. PICK i \in FirstTwin(before, call) :
                items = [before EXCEPT ![i].quantity = @ + call.quantity]
          BY <3>2, <4>3 DEF AddTo
        <5>2. i \in 1 .. Len(before)
          BY <2>1 DEF FirstTwin, C!First
        <5> before[i] \in C!Line
          BY <2>1, <5>2, ElementOfSeq
        <5>3. PICK q \in Int : q = before[i].quantity + call.quantity
          BY <4>1 DEF C!Line
        <5>4. [before EXCEPT ![i].quantity = q] \in Seq(C!Line)
          BY <2>1, <5>2, LineRewrites
        <5> QED
          BY <5>1, <5>3, <5>4
      <4> QED
        BY <4>2, <4>3
    <3>3. CASE /\ call \in RemoveCall /\ FirstLine(before, call.menu) # {}
               /\ items = TakeFrom(before, call)
      <4>1. call.quantity \in Int
        BY <1>1, <3>3 DEF RemoveCall
      <4>2. PICK i \in FirstLine(before, call.menu) :
              items = IF C!TakesAll(before[i], call.quantity)
                      THEN RemoveAt(before, i)
                      ELSE [before EXCEPT ![i].quantity = @ - call.quantity]
        BY <3>3 DEF TakeFrom
      <4>3. i \in 1 .. Len(before)
        BY <2>1, <2>2
      <4>4. RemoveAt(before, i) \in Seq(C!Line)
        BY <2>1, <4>3, P!RemoveAtType DEF RemoveAt, P!RemoveAt
      <4> before[i] \in C!Line
        BY <2>1, <4>3, ElementOfSeq
      <4>5. PICK q \in Int : q = before[i].quantity - call.quantity
        BY <4>1 DEF C!Line
      <4>6. [before EXCEPT ![i].quantity = q] \in Seq(C!Line)
        BY <2>1, <4>3, LineRewrites
      <4> QED
        BY <4>2, <4>4, <4>5, <4>6
    <3>4. CASE items = <<>>
      BY <3>4, EmptySeq
    <3>5. CASE \E c \in ReplaceCall : \E i \in FirstLine(before, c.menu) :
                 items = [before EXCEPT ![i].menu = c.to, ![i].options = c.options]
      BY <1>1, <2>1, <2>2, <3>5, LineRewrites DEF ReplaceCall
    <3>6. CASE /\ call \in ChangeOptionCall
               /\ \E i \in FirstLine(before, call.menu) :
                    items = [before EXCEPT ![i].options = call.options]
      BY <1>1, <2>1, <2>2, <3>6, LineRewrites DEF ChangeOptionCall
    <3> QED
      BY <3>1, <3>2, <3>3, <3>4, <3>5, <3>6 DEF Changed
  <2> QED
    BY <1>1, <1>3, <2>3, <2>4 DEF Step
<1> QED
  BY <1>2, <1>3

LEMMA ListsKept ==
    ASSUME StepsInv, Lists, [Next]_vars
    PROVE  Lists'
<1>1. items \in Seq(C!Line)
  BY ItemsType
<1>2. CASE UNCHANGED vars
  BY <1>2 DEF vars, readerVars, Lists
<1>3. ASSUME NEW c \in Calls, Begin(c)
      PROVE  Lists'
  BY <1>3 DEF Begin, Lists
<1>4. CASE \/ NotInCart \/ ClearsNothing \/ Records \/ NothingToUndo \/ UndoPops
           \/ AddWrites \/ RemoveWrites \/ ClearWrites \/ ChangeOptionWrites
           \/ ReplaceWritesMenu \/ ReplaceWritesOptions
  <2>1. UNCHANGED readerVars
    BY <1>4 DEF NotInCart, ClearsNothing, Records, NothingToUndo, UndoPops, AddWrites,
       RemoveWrites, ClearWrites, ChangeOptionWrites, ReplaceWritesMenu,
       ReplaceWritesOptions, Written
  <2> QED
    BY <2>1 DEF readerVars, Lists
<1>5. CASE Restores
  BY <1>1, <1>5 DEF Restores, Lists
<1>6. CASE ReadBegins
  <2>1. Committed \in Seq(C!Line)
    BY DEF StepsInv, C!WellFormed
  <2> QED
    BY <1>6, <2>1 DEF ReadBegins, Weight, Lists
<1>7. CASE ReadLine
  <2>1. Iterated \in Seq(C!Line) /\ Len(got) + 1 \in 1 .. Len(Iterated)
    BY <1>1, <1>7, LenProperties DEF ReadLine, Iterated, Lists
  <2>2. Iterated[Len(got) + 1] \in C!Line
    BY <2>1, ElementOfSeq
  <2>3. got' \in Seq(C!Line)
    BY <1>7, <2>2, AppendProperties DEF ReadLine, Lists
  <2> QED
    BY <1>7, <2>3 DEF ReadLine, Lists
<1>8. CASE ReadEnds
  <2>1. /\ old' = <<>> /\ got' = <<>> /\ start' = <<>> /\ disturbed' = 0
        /\ reading' = FALSE /\ detached' = FALSE
    BY <1>8 DEF ReadEnds
  <2>2. <<>> \in Seq(C!Line)
    BY EmptySeq
  <2>3. disturbed' \in 0 .. 2
    BY <2>1
  <2> QED
    BY <2>1, <2>2, <2>3, Zenon DEF Lists
<1> QED
  BY <1>2, <1>3, <1>4, <1>5, <1>6, <1>7, <1>8 DEF Next

\* What one call that does not tear does to the list in one assignment.
LEMMA OneLine ==
    ASSUME StepsInv, Lists, ReadInv, reading, disturbed <= 1,
           AddWrites \/ RemoveWrites \/ ClearWrites \/ ChangeOptionWrites
    PROVE  \E p \in Nat : Mixed(p)'
<1>1. /\ items \in Seq(C!Line) /\ items = start /\ ~Tears(items, call) /\ ~detached
      /\ start' = start /\ got' = got /\ step = "write"
  BY ItemsType DEF AddWrites, RemoveWrites, ClearWrites, ChangeOptionWrites, Empties,
                   Writing, Written, readerVars, ReadInv
<1>2. PICK n \in Nat : Mixed(n)
  BY <1>1 DEF ReadInv, ReadsNew
<1>3. /\ got \in Seq(C!Line) /\ Len(items) \in Nat /\ Len(got) \in Nat
      /\ Len(got) <= Len(items) /\ \A i \in 1 .. Len(got) : got[i] = start[i]
  BY <1>1, <1>2, LenProperties DEF Mixed, Lists
<1>4. ASSUME NEW i \in 1 .. Len(items), Len(items') = Len(items),
             \A j \in 1 .. Len(items) : j # i => items'[j] = items[j]
      PROVE  \E p \in Nat : Mixed(p)'
  <2>1. Mixed(i)'
    BY <1>1, <1>3, <1>4 DEF Mixed
  <2> QED
    BY <2>1
<1>5. CASE AddWrites
  <2>1. CASE FirstTwin(items, call) = {}
    <3> DEFINE e == [menu |-> call.menu, quantity |-> call.quantity, options |-> call.options]
    <3>1. items' = Append(items, e)
      BY <1>5, <2>1 DEF AddWrites, AddTo
    <3>2. /\ Len(items') = Len(items) + 1
          /\ \A j \in 1 .. Len(items) : items'[j] = items[j]
      BY <1>1, <3>1
    <3>3. PICK p \in Nat : p = Len(items) + 1
      BY <1>3
    <3>4. Mixed(p)'
      BY <1>1, <1>3, <3>2, <3>3 DEF Mixed
    <3> QED
      BY <3>4
  <2>2. CASE FirstTwin(items, call) # {}
    <3>1. PICK i \in FirstTwin(items, call) :
            items' = [items EXCEPT ![i].quantity = @ + call.quantity]
      BY <1>5, <2>2 DEF AddWrites, AddTo
    <3>2. i \in 1 .. Len(items)
      BY <1>1 DEF FirstTwin, C!First
    <3>3. /\ Len(items') = Len(items)
          /\ \A j \in 1 .. Len(items) : j # i => items'[j] = items[j]
      BY <1>1, <3>1, <3>2
    <3> QED
      BY <1>4, <3>2, <3>3
  <2> QED
    BY <2>1, <2>2
<1>6. CASE RemoveWrites
  <2>1. PICK i \in FirstLine(items, call.menu) :
          items' = IF C!TakesAll(items[i], call.quantity)
                   THEN RemoveAt(items, i)
                   ELSE [items EXCEPT ![i].quantity = @ - call.quantity]
    BY <1>6 DEF RemoveWrites, TakeFrom
  <2>2. i \in 1 .. Len(items)
    BY <1>1 DEF FirstLine, C!First
  <2>3. ~C!TakesAll(items[i], call.quantity)
    BY <1>1, <1>6 DEF RemoveWrites, Writing, Tears, TakesLine
  <2>4. items' = [items EXCEPT ![i].quantity = @ - call.quantity]
    BY <2>1, <2>3
  <2>5. /\ Len(items') = Len(items)
        /\ \A j \in 1 .. Len(items) : j # i => items'[j] = items[j]
    BY <1>1, <2>2, <2>4
  <2> QED
    BY <1>4, <2>2, <2>5
<1>7. CASE ClearWrites
  BY <1>1, <1>7 DEF ClearWrites, Empties, Writing, Tears
<1>8. CASE ChangeOptionWrites
  <2>1. PICK i \in FirstLine(items, call.menu) :
          items' = [items EXCEPT ![i].options = call.options]
    BY <1>8 DEF ChangeOptionWrites
  <2>2. i \in 1 .. Len(items)
    BY <1>1 DEF FirstLine, C!First
  <2>3. /\ Len(items') = Len(items)
        /\ \A j \in 1 .. Len(items) : j # i => items'[j] = items[j]
    BY <1>1, <2>1, <2>2
  <2> QED
    BY <1>4, <2>2, <2>3
<1> QED
  BY <1>5, <1>6, <1>7, <1>8

\* The state of the read survives every step.
LEMMA ReadKept ==
    ASSUME StepsInv, Lists, ReadInv, [Next]_vars
    PROVE  ReadInv'
<1>1. /\ items \in Seq(C!Line) /\ Len(items) \in Nat
      /\ got \in Seq(C!Line) /\ Len(got) \in Nat
      /\ start \in Seq(C!Line) /\ Len(start) \in Nat
      /\ old \in Seq(C!Line) /\ disturbed \in 0 .. 2
  BY ItemsType, LenProperties DEF Lists
<1>2. CASE UNCHANGED vars
  BY <1>2 DEF vars, writerVars, readerVars, ReadInv, ReadsOld, ReadsNew, Mixed
<1>3. ASSUME NEW c \in Calls, Begin(c)
      PROVE  ReadInv'
  <2>1. SUFFICES ASSUME reading, disturbed' <= 1
                 PROVE  ReadInv'
    BY <1>3 DEF Begin, ReadInv
  <2>2. disturbed = 0 /\ ~Tears(items, c) /\ disturbed' = 1
    BY <1>1, <1>3, <2>1 DEF Begin, Weight
  <2>3. /\ ~detached /\ items = start /\ items' = items /\ step' = "write" /\ call' = c
        /\ UNCHANGED <<detached, old, got, start>>
    BY <1>3, <2>1, <2>2 DEF Begin, ReadInv
  <2>4. \E p \in Nat : Mixed(p)
    BY <2>1, <2>2, <2>3 DEF ReadInv, ReadsNew
  <2>5. (\E p \in Nat : Mixed(p))'
    BY <2>3, <2>4 DEF Mixed
  <2> QED
    BY <2>2, <2>3, <2>5 DEF ReadInv
<1>4. ASSUME UNCHANGED readerVars, items' = items, step' \in {"idle", "restore"},
             step' = "restore" => step = "write", step # "idle"
      PROVE  ReadInv'
  <2>1. SUFFICES ASSUME reading, disturbed <= 1
                 PROVE  ReadInv'
    BY <1>4 DEF readerVars, ReadInv
  <2>2. disturbed # 0 /\ ~detached /\ step # "options"
    BY <1>4, <2>1 DEF ReadInv, ReadsOld
  <2>3. ((\E p \in Nat : Mixed(p)) \/ ReadsNew)'
    BY <1>4, <2>1, <2>2 DEF ReadInv, Mixed, ReadsNew, readerVars
  <2>4. step' = "restore" => items = start
    BY <1>4, <2>1 DEF ReadInv
  <2> QED
    BY <1>4, <2>1, <2>2, <2>3, <2>4 DEF ReadInv, readerVars
<1>5. CASE NotInCart \/ ClearsNothing \/ Records \/ NothingToUndo \/ UndoPops
  BY <1>4, <1>5 DEF NotInCart, ClearsNothing, Records, NothingToUndo, UndoPops, Return,
                    Writing, Empties
<1>6. CASE AddWrites \/ RemoveWrites \/ ClearWrites \/ ChangeOptionWrites
  <2>1. /\ UNCHANGED readerVars /\ step = "write" /\ step' = "record"
    BY <1>6 DEF AddWrites, RemoveWrites, ClearWrites, ChangeOptionWrites, Empties, Writing,
                Written
  <2>2. SUFFICES ASSUME reading, disturbed <= 1
                 PROVE  ReadInv'
    BY <2>1 DEF readerVars, ReadInv
  <2>3. disturbed # 0 /\ ~detached
    BY <2>1, <2>2 DEF ReadInv
  <2>4. \E p \in Nat : Mixed(p)'
    BY <1>6, <2>2, OneLine
  <2> QED
    BY <2>1, <2>2, <2>3, <2>4 DEF ReadInv, readerVars
<1>7. CASE ReplaceWritesMenu \/ ReplaceWritesOptions
  <2>1. UNCHANGED readerVars /\ (reading => disturbed > 1)
    <3>1. CASE ReplaceWritesMenu
      BY <1>1, <3>1 DEF ReplaceWritesMenu, Writing, ReadInv, Tears, readerVars
    <3>2. CASE ReplaceWritesOptions
      BY <1>1, <3>2 DEF ReplaceWritesOptions, Written, ReadInv, readerVars
    <3> QED
      BY <1>7, <3>1, <3>2
  <2> QED
    BY <1>1, <2>1 DEF ReadInv, readerVars
<1>8. CASE Restores
  <2>1. SUFFICES ASSUME reading, disturbed <= 1
                 PROVE  ReadInv'
    BY <1>8 DEF Restores, ReadInv
  <2>2. disturbed # 0 /\ ~detached /\ items = start
    BY <1>8, <2>1 DEF Restores, ReadInv
  <2>3. PICK p \in Nat : Mixed(p)
    BY <1>8, <2>1, <2>2 DEF Restores, ReadInv, ReadsNew
  <2>4. ReadsOld' /\ detached'
    BY <1>1, <1>8, <2>1, <2>2, <2>3 DEF Restores, Return, ReadsOld, Mixed
  <2>5. step' = "idle" /\ disturbed' = disturbed
    BY <1>8 DEF Restores, Return
  <2> QED
    BY <2>2, <2>4, <2>5 DEF ReadInv
<1>9. CASE ReadBegins
  <2>1. SUFFICES ASSUME disturbed' <= 1
                 PROVE  ReadInv'
    BY DEF ReadInv
  <2>2. /\ ~detached' /\ got' = <<>> /\ start' = Committed /\ items' = items
        /\ step' = step /\ call' = call
    BY <1>9 DEF ReadBegins, Lists, writerVars
  <2>3. step # "options" /\ (step = "write" => ~Tears(items, call))
        /\ (disturbed' = 0 => step = "idle")
    BY <1>9, <2>1 DEF ReadBegins, Weight
  <2>4. step \in {"idle", "write", "restore"} => Committed = items
    BY DEF Committed, StepsInv, Progress
  <2>5. ((\E p \in Nat : Mixed(p)) \/ ReadsNew)'
    <3>1. CASE step = "record"
      BY <1>1, <1>9, <2>2, <3>1, EmptySeq DEF ReadBegins, ReadsNew
    <3>2. CASE step # "record"
      <4>1. Mixed(0)'
        BY <1>1, <2>2, <2>3, <2>4, <3>2, EmptySeq DEF Mixed, StepsInv, Progress, Step
      <4> QED
        BY <4>1
    <3> QED
      BY <3>1, <3>2
  <2> QED
    BY <2>2, <2>3, <2>4, <2>5 DEF ReadInv
<1>10. CASE ReadLine
  <2>1. SUFFICES ASSUME disturbed <= 1
                 PROVE  ReadInv'
    BY <1>10 DEF ReadLine, ReadInv
  <2>2. /\ reading /\ UNCHANGED writerVars /\ UNCHANGED <<reading, detached, old, start, disturbed>>
        /\ Len(got) < Len(Iterated) /\ got' = Append(got, Iterated[Len(got) + 1])
    BY <1>10 DEF ReadLine
  <2>3. /\ Len(got') = Len(got) + 1
        /\ got'[Len(got) + 1] = Iterated[Len(got) + 1]
        /\ \A i \in 1 .. Len(got) : got'[i] = got[i]
    BY <1>1, <2>2
  <2>4. CASE detached
    <3>1. ReadsOld'
      BY <1>1, <2>1, <2>2, <2>3, <2>4 DEF ReadInv, ReadsOld, Iterated, writerVars
    <3> QED
      BY <2>1, <2>2, <2>4, <3>1 DEF ReadInv, writerVars
  <2>5. CASE ~detached
    <3>1. Iterated = items
      BY <2>5 DEF Iterated
    <3>2. (ReadsNew \/ \E p \in Nat : Mixed(p))'
      <4>1. CASE ReadsNew
        BY <1>1, <2>2, <2>3, <3>1, <4>1 DEF ReadsNew, writerVars
      <4>2. ASSUME NEW p \in Nat, Mixed(p)
            PROVE  Mixed(p)'
        BY <1>1, <2>2, <2>3, <3>1, <4>2 DEF Mixed, writerVars
      <4> QED
        BY <2>1, <2>2, <2>5, <4>1, <4>2 DEF ReadInv
    <3> QED
      BY <2>1, <2>2, <2>5, <3>2 DEF ReadInv, writerVars
  <2> QED
    BY <2>4, <2>5
<1>11. CASE ReadEnds
  BY <1>11 DEF ReadEnds, ReadInv
<1> QED
  BY <1>2, <1>3, <1>5, <1>6, <1>7, <1>8, <1>9, <1>10, <1>11 DEF Next

\* A read that ends undisturbed, or with one call in a single place beside it.
LEMMA UntornEnd ==
    ASSUME StepsInv, Lists, ReadInv, ReadEnds, reading, disturbed <= 1
    PROVE  got \in {start, items}
<1>1. /\ items \in Seq(C!Line) /\ got \in Seq(C!Line) /\ start \in Seq(C!Line)
      /\ Len(items) \in Nat /\ Len(got) \in Nat /\ Len(start) \in Nat
      /\ Len(got) >= Len(Iterated)
  BY ItemsType, LenProperties DEF Lists, ReadEnds
<1>2. \A s \in Seq(C!Line) :
        Len(got) = Len(s) /\ (\A i \in 1 .. Len(got) : got[i] = s[i]) => got = s
  BY <1>1, SeqEqual
<1>3. CASE detached
  BY <1>1, <1>2, <1>3 DEF ReadInv, ReadsOld, Iterated
<1>4. CASE ~detached /\ ReadsNew
  BY <1>1, <1>2, <1>4 DEF ReadsNew, Iterated
<1>5. ASSUME ~detached, NEW p \in Nat, Mixed(p)
      PROVE  got \in {start, items}
  <2>1. Len(got) = Len(items)
    BY <1>1, <1>5 DEF Mixed, Iterated
  <2>2. CASE \A i \in 1 .. Len(got) : got[i] = items[i]
    BY <1>1, <1>2, <2>1, <2>2
  <2>3. CASE \E i \in 1 .. Len(got) : got[i] # items[i]
    <3>1. p \in 1 .. Len(start) /\ got[p] = start[p]
      BY <1>5, <2>3 DEF Mixed
    <3>2. Len(items) = Len(start)
      BY <1>1, <1>5, <3>1 DEF Mixed
    <3>3. \A i \in 1 .. Len(got) : got[i] = start[i]
      BY <1>1, <1>5, <2>1, <3>1, <3>2 DEF Mixed
    <3> QED
      BY <1>1, <1>2, <2>1, <3>2, <3>3
  <2> QED
    BY <2>2, <2>3
<1> QED
  BY <1>3, <1>4, <1>5 DEF ReadInv

LEMMA ReadingInvariance == Spec => [](StepsInv /\ Lists /\ ReadInv)
<1>1. Init => Lists /\ ReadInv
  <2> SUFFICES ASSUME Init
               PROVE  Lists /\ ReadInv
    OBVIOUS
  <2>1. /\ reading = FALSE /\ detached = FALSE /\ old = <<>> /\ got = <<>>
        /\ start = <<>> /\ disturbed = 0
    BY DEF Init
  <2>2. disturbed \in 0 .. 2 /\ <<>> \in Seq(C!Line)
    BY <2>1, EmptySeq
  <2> QED
    BY <2>1, <2>2, Zenon DEF Lists, ReadInv
<1>2. StepsInv /\ Lists /\ ReadInv /\ [Next]_vars => Lists' /\ ReadInv'
  BY ListsKept, ReadKept
<1> QED
  BY <1>1, <1>2, StepsInvariance, PTL DEF Spec

\* For every menu, bound and number of reads: a GET /cart beside at most one
\* call that changes the cart in a single place is the cart before the call or
\* after it, without a lock.
THEOREM ReadsUntorn == Spec => GetUntorn
<1>1. StepsInv /\ Lists /\ ReadInv /\ [Next]_vars
        => [(reading /\ ~reading' /\ disturbed <= 1) => got \in {start, items}]_vars
  <2> SUFFICES ASSUME StepsInv, Lists, ReadInv, Next, reading, ~reading', disturbed <= 1
               PROVE  got \in {start, items}
    OBVIOUS
  <2>1. ReadEnds
    BY DEF Next, Begin, NotInCart, AddWrites, RemoveWrites, ClearWrites, ClearsNothing,
           ReplaceWritesMenu, ReplaceWritesOptions, ChangeOptionWrites, Records,
           NothingToUndo, UndoPops, Restores, ReadBegins, ReadLine, Written, readerVars
  <2> QED
    BY <2>1, UntornEnd
<1> QED
  BY <1>1, ReadingInvariance, PTL DEF Spec, GetUntorn

-----------------------------------------------------------------------------
(* What module Cart promises holds of the committed cart *)

\* For every menu and bound: in the middle of any method too, the events are one
\* unbroken story that ends in the cart before the method or after it.
THEOREM StepsKeepChain == Spec => []HistoryChain
<1>1. StepsInv => HistoryChain
  BY DEF StepsInv, HistoryChain
<1> QED
  BY <1>1, StepsInvariance, PTL

LEMMA StackStep ==
    ASSUME C!WellFormed, C!HistoryChain, [C!Next]_(C!cartVars)
    PROVE  [C!Stack!Next]_(C!Stack!vars)
<1>1. P!CartInv /\ P!CartAssumption /\ P!Shaped
  BY ShapedSteps
<1>2. [P!Stack!Next]_(P!Stack!vars)
  BY <1>1, P!ShapedStack
<1> QED
  BY <1>2
  DEF P!Stack!Next, P!Stack!vars, P!Stack!Change, P!Stack!Undo, P!Stack!Newest,
      P!Befores, P!Line, P!OptionBag,
      C!Stack!Next, C!Stack!vars, C!Stack!Change, C!Stack!Undo, C!Stack!Newest,
      C!Befores, C!Line, C!OptionBag

\* For every menu and bound: run one assignment at a time, the cart with its
\* undo is the bounded undo stack, each change pushed and popped once.
THEOREM StepsAreUndoStack == Spec => IsUndoStack
<1>1. Init => C!Stack!Init
  BY DEF Init, C!Stack!Init, C!Befores, Committed, CommittedHistory
<1>2. StepsInv /\ [Next]_vars => [C!Stack!Next]_(C!Stack!vars)
  BY StepImplements, StackStep DEF StepsInv
<1> QED
  BY <1>1, <1>2, StepsInvariance, PTL DEF Spec, IsUndoStack, C!IsUndoStack, C!Stack!Spec

\* What TypeOK adds to the invariants above.
Bookkeeping ==
    /\ reply \in C!CartStatus /\ before \in Seq(C!Line) /\ calls \in 0 .. MaxCalls
    /\ step = "idle" <=> call = NoCall
    /\ ~reading => old = <<>> /\ start = <<>> /\ disturbed = 0

LEMMA BookkeepingKept ==
    ASSUME StepsInv, Bookkeeping, [Next]_vars
    PROVE  Bookkeeping'
<1>1. reply' \in C!CartStatus
  BY StepImplements, ShapedSteps DEF StepsInv, Bookkeeping
<1>2. CASE UNCHANGED vars
  BY <1>2 DEF Bookkeeping, vars, writerVars, readerVars
<1>3. ASSUME NEW c \in Calls, Begin(c)
      PROVE  Bookkeeping'
  <2>1. c # NoCall
    BY DEF NoCall, Calls, AddCall, RemoveCall, ReplaceCall, ChangeOptionCall, ClearCall, UndoCall
  <2>2. calls' \in 0 .. MaxCalls
    BY <1>3, CartStepsAssumption DEF Begin, Room, CartStepsAssumption, Bookkeeping
  <2>3. /\ step' = "write" /\ call' = c /\ before' = items /\ old' = old /\ start' = start
        /\ reading' = reading /\ (~reading => disturbed' = 0)
    BY <1>3 DEF Begin
  <2> QED
    BY <1>1, <2>1, <2>2, <2>3, ItemsType DEF Bookkeeping
<1>4. CASE NotInCart \/ ClearsNothing \/ Records \/ NothingToUndo \/ Restores
  <2>1. /\ step' = "idle" /\ call' = NoCall /\ before' = <<>> /\ calls' = calls
        /\ reading' = reading /\ start' = start /\ disturbed' = disturbed
        /\ old' = old \/ reading
    BY <1>4 DEF NotInCart, ClearsNothing, Records, NothingToUndo, Restores, Return, readerVars
  <2>2. <<>> \in Seq(C!Line)
    BY EmptySeq
  <2> QED
    BY <1>1, <2>1, <2>2 DEF Bookkeeping
<1>5. CASE \/ AddWrites \/ RemoveWrites \/ ClearWrites \/ ChangeOptionWrites
           \/ ReplaceWritesMenu \/ ReplaceWritesOptions \/ UndoPops
  <2>1. step # "idle" /\ step' # "idle"
    BY <1>5
    DEF AddWrites, RemoveWrites, ClearWrites, ChangeOptionWrites, ReplaceWritesMenu,
        ReplaceWritesOptions, UndoPops, Written, Writing, Empties
  <2>2. call' = call \/ call'.op = "replace" \/ call'.op = "undo"
    BY <1>5
    DEF AddWrites, RemoveWrites, ClearWrites, ChangeOptionWrites, ReplaceWritesMenu,
        ReplaceWritesOptions, UndoPops, Written
  <2>3. before' = before /\ calls' = calls /\ UNCHANGED readerVars
    BY <1>5
    DEF AddWrites, RemoveWrites, ClearWrites, ChangeOptionWrites, ReplaceWritesMenu,
        ReplaceWritesOptions, UndoPops, Written
  <2>4. call' # NoCall
    BY <2>1, <2>2 DEF Bookkeeping, NoCall
  <2> QED
    BY <1>1, <2>1, <2>3, <2>4 DEF Bookkeeping, readerVars
<1>6. CASE ReadBegins \/ ReadLine \/ ReadEnds
  <2>1. UNCHANGED writerVars
    BY <1>6 DEF ReadBegins, ReadLine, ReadEnds
  <2>2. reading' \/ (old' = <<>> /\ start' = <<>> /\ disturbed' = 0)
    BY <1>6 DEF ReadBegins, ReadLine, ReadEnds
  <2> QED
    BY <1>1, <2>1, <2>2 DEF Bookkeeping, writerVars
<1> QED
  BY <1>2, <1>3, <1>4, <1>5, <1>6 DEF Next

\* For every menu and bound: the cart, its events and the lines a reader has are
\* well formed at every point of a method, the snapshot and the reader's lines
\* are there only while they are needed, and the events never exceed the limit.
THEOREM StepsTypeCorrect == Spec => []TypeOK
<1>1. Init => Bookkeeping
  <2> SUFFICES ASSUME Init
               PROVE  Bookkeeping
    OBVIOUS
  <2>1. calls \in 0 .. MaxCalls
    BY CartStepsAssumption DEF Init, CartStepsAssumption
  <2>2. reply \in C!CartStatus /\ before \in Seq(C!Line)
    BY EmptySeq DEF Init, C!CartStatus
  <2> QED
    BY <2>1, <2>2 DEF Init, Bookkeeping
<1>2. StepsInv /\ Bookkeeping /\ [Next]_vars => Bookkeeping'
  BY BookkeepingKept
<1>3. StepsInv /\ Lists /\ Bookkeeping => TypeOK
  BY ItemsType DEF StepsInv, Progress, Lists, Bookkeeping, TypeOK, C!TypeOK
<1> QED
  BY <1>1, <1>2, <1>3, ReadingInvariance, PTL DEF Spec

LEMMA TwinsKept ==
    ASSUME C!WellFormed, C!HistoryChain, [C!Next]_(C!cartVars)
    PROVE  [C!Cardinality(C!Twins') > C!Cardinality(C!Twins)
              => reply' \in {"REPLACED", "OPTION_CHANGED", "UNDONE"}]_(C!cartVars)
<1>1. P!CartInv /\ P!CartAssumption
  BY ShapedSteps
<1>2. P!Twins = C!Twins /\ P!Twins' = C!Twins'
  BY DEF P!Twins, P!SameAs, C!Twins, C!SameAs
<1>3. CASE C!Next
  <2>1. P!Next
    BY <1>3, AbstractNext
  <2>2. P!WellFormed
    BY <1>1 DEF P!CartInv
  <2>3. P!Cardinality(P!Twins') > P!Cardinality(P!Twins)
          => reply' \in {"REPLACED", "OPTION_CHANGED", "UNDONE"}
    BY <1>1, <2>1, <2>2, P!TwinsStep
  <2>4. \A S : P!Cardinality(S) = C!Cardinality(S)
    BY DEF P!Cardinality, C!Cardinality
  <2> QED
    BY <1>2, <2>3, <2>4
<1>4. CASE UNCHANGED C!cartVars
  BY <1>4
<1> QED
  BY <1>3, <1>4

\* For every menu and bound: in the cart that is written one assignment at a
\* time, too, only a replacement, a change of options or an undo leaves more
\* pairs of lines that look the same than there were.
THEOREM StepsTwinsByRewriting == Spec => TwinsOnlyByRewriting
<1>1. StepsInv /\ [Next]_vars
        => [C!Cardinality(C!Twins') > C!Cardinality(C!Twins)
              => reply' \in {"REPLACED", "OPTION_CHANGED", "UNDONE"}]_(C!cartVars)
  BY StepImplements, TwinsKept DEF StepsInv
<1> QED
  BY <1>1, StepsInvariance, PTL DEF Spec, TwinsOnlyByRewriting, C!TwinsOnlyByRewriting
=============================================================================
