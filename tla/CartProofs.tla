----------------------------- MODULE CartProofs -----------------------------
(***************************************************************************)
(* What holds of the cart for all names, quantities, option lists and      *)
(* bounds: its type, the chain of its events, that it implements the       *)
(* abstract undo stack, and which methods leave lines that look the same.  *)
(*                                                                         *)
(* Each writing method does one of two things to the pair <<items,         *)
(* history>>: it records the change it makes (Recorded) or leaves both     *)
(* alone.  Undo takes the newest event back.  The lemmas say what one      *)
(* recorded change and one undo preserve; the cases of Next only have to   *)
(* show which of the two they are.                                         *)
(***************************************************************************)
EXTENDS Cart, ListsProofs, FunctionTheorems

\* A change that goes through _record.
Recorded == /\ items' \in Seq(Line)
            /\ \E action \in EventAction : Record(action)

\* A call that found nothing to change.
Untouched == UNCHANGED <<items, history>>

\* A call of undo() that found an event.
Undone ==
    /\ history # <<>>
    /\ items' = Last(history).before
    /\ history' = Front(history)

-----------------------------------------------------------------------------
(* Sequences *)

\* SubSeq between indices of the sequence.
LEMMA Slice ==
    ASSUME NEW S, NEW s \in Seq(S),
           NEW m \in 1 .. Len(s) + 1, NEW n \in m - 1 .. Len(s)
    PROVE  /\ SubSeq(s, m, n) \in Seq(S)
           /\ Len(SubSeq(s, m, n)) = n - m + 1
           /\ \A i \in 1 .. n - m + 1 : SubSeq(s, m, n)[i] = s[m + i - 1]
<1>1. m \in Int /\ n \in Int /\ \A i \in m .. n : s[i] \in S
  BY ElementOfSeq, LenProperties
<1>2. (IF m <= n THEN n - m + 1 ELSE 0) = n - m + 1
  BY LenProperties
<1> QED
  BY <1>1, <1>2, SubSeqProperties

LEMMA FrontProperties ==
    ASSUME NEW S, NEW s \in Seq(S), s # <<>>
    PROVE  /\ Front(s) \in Seq(S)
           /\ Len(Front(s)) = Len(s) - 1
           /\ \A i \in 1 .. Len(s) - 1 : Front(s)[i] = s[i]
<1>1. Len(s) \in Nat \ {0}
  BY EmptySeq, LenProperties
<1>2. /\ 1 \in 1 .. Len(s) + 1
      /\ Len(s) - 1 \in 1 - 1 .. Len(s)
      /\ (Len(s) - 1) - 1 + 1 = Len(s) - 1
  BY <1>1
<1> QED
  BY <1>1, <1>2, Slice DEF Front

LEMMA RemoveAtType ==
    ASSUME NEW S, NEW s \in Seq(S), NEW i \in 1 .. Len(s)
    PROVE  RemoveAt(s, i) \in Seq(S)
BY Slice, ConcatProperties DEF RemoveAt

LEMMA RemoveAtProperties ==
    ASSUME NEW S, NEW s \in Seq(S), NEW i \in 1 .. Len(s)
    PROVE  /\ Len(RemoveAt(s, i)) = Len(s) - 1
           /\ \A j \in 1 .. Len(s) - 1 : RemoveAt(s, i)[j] = s[IF j < i THEN j ELSE j + 1]
<1>1. Len(s) \in Nat /\ i \in Nat
  BY LenProperties
<1>2. PICK a, b : a = SubSeq(s, 1, i - 1) /\ b = SubSeq(s, i + 1, Len(s))
  OBVIOUS
<1>3. a \in Seq(S) /\ Len(a) = i - 1 /\ \A j \in 1 .. i - 1 : a[j] = s[j]
  <2>1. 1 \in 1 .. Len(s) + 1 /\ i - 1 \in 1 - 1 .. Len(s) /\ i - 1 - 1 + 1 = i - 1
    BY <1>1
  <2> QED
    BY <1>1, <1>2, <2>1, Slice
<1>4. b \in Seq(S) /\ Len(b) = Len(s) - i /\ \A j \in 1 .. Len(s) - i : b[j] = s[j + i]
  <2>1. i + 1 \in 1 .. Len(s) + 1 /\ Len(s) \in (i + 1) - 1 .. Len(s)
    BY <1>1
  <2>2. /\ b \in Seq(S) /\ Len(b) = Len(s) - (i + 1) + 1
        /\ \A j \in 1 .. Len(s) - (i + 1) + 1 : b[j] = s[i + 1 + j - 1]
    BY <1>2, <2>1, Slice
  <2> QED
    BY <1>1, <2>2
<1>5. RemoveAt(s, i) = a \o b
  BY <1>2 DEF RemoveAt
<1>6. /\ Len(a \o b) = Len(a) + Len(b)
      /\ \A j \in 1 .. Len(a) + Len(b) :
           (a \o b)[j] = IF j <= Len(a) THEN a[j] ELSE b[j - Len(a)]
  BY <1>3, <1>4, ConcatProperties
<1>7. ASSUME NEW j \in 1 .. Len(s) - 1
      PROVE  (a \o b)[j] = s[IF j < i THEN j ELSE j + 1]
  <2>1. CASE j < i
    BY <1>1, <1>3, <1>4, <1>6, <2>1
  <2>2. CASE ~(j < i)
    <3>1. j - (i - 1) \in 1 .. Len(s) - i /\ j - (i - 1) + i = j + 1
      BY <1>1, <2>2
    <3>2. (a \o b)[j] = b[j - (i - 1)]
      BY <1>1, <1>3, <1>4, <1>6, <2>2
    <3> QED
      BY <1>4, <2>2, <3>1, <3>2
  <2> QED
    BY <2>1, <2>2
<1> QED
  BY <1>1, <1>3, <1>4, <1>5, <1>6, <1>7

\* Trimming keeps the newest events: at most HistoryLimit of them, the last
\* one among them, and each next to the same neighbour as before.
LEMMA TrimmedProperties ==
    ASSUME NEW S, NEW h \in Seq(S), h # <<>>, HistoryLimit \in Nat \ {0}
    PROVE  /\ Trimmed(h) \in Seq(S)
           /\ Len(Trimmed(h)) <= HistoryLimit
           /\ Trimmed(h) # <<>>
           /\ Trimmed(h)[Len(Trimmed(h))] = h[Len(h)]
           /\ \E k \in Nat : /\ Len(h) = Len(Trimmed(h)) + k
                             /\ \A i \in 1 .. Len(Trimmed(h)) :
                                    Trimmed(h)[i] = h[i + k]
<1>1. Len(h) \in Nat \ {0}
  BY EmptySeq
<1>2. CASE Len(h) > HistoryLimit
  <2> DEFINE k == Len(h) - HistoryLimit
  <2>1. k \in Nat /\ Len(h) = HistoryLimit + k
    BY <1>1, <1>2
  <2>2. Trimmed(h) = SubSeq(h, k + 1, Len(h))
    BY <1>2 DEF Trimmed
  <2>3. /\ Trimmed(h) \in Seq(S)
        /\ Len(Trimmed(h)) = HistoryLimit
        /\ \A i \in 1 .. HistoryLimit : Trimmed(h)[i] = h[i + k]
    <3>1. k + 1 \in 1 .. Len(h) + 1 /\ Len(h) \in (k + 1) - 1 .. Len(h)
      BY <1>1, <2>1
    <3> QED
      BY <2>1, <2>2, <3>1, Slice
  <2>4. Trimmed(h)[HistoryLimit] = h[Len(h)]
    BY <2>1, <2>3
  <2>5. Trimmed(h) # <<>>
    BY <2>3, EmptySeq
  <2> HIDE DEF k
  <2> QED
    BY <2>1, <2>3, <2>4, <2>5
<1>3. CASE ~(Len(h) > HistoryLimit)
  <2>1. Trimmed(h) = h
    BY <1>3 DEF Trimmed
  <2>2. \E k \in Nat : /\ Len(h) = Len(h) + k
                       /\ \A i \in 1 .. Len(h) : h[i] = h[i + k]
    <3> WITNESS 0 \in Nat
    <3> QED
      BY <1>1
  <2>3. Len(h) <= HistoryLimit
    BY <1>1, <1>3
  <2> QED
    BY <2>1, <2>2, <2>3
<1> QED
  BY <1>2, <1>3

\* Rewriting fields of one line gives lines again.
LEMMA QuantityRewrite ==
    ASSUME NEW s \in Seq(Line), NEW i \in 1 .. Len(s), NEW q \in Int
    PROVE  [s EXCEPT ![i].quantity = q] \in Seq(Line)
<1>1. \A l \in Line : [l EXCEPT !.quantity = q] \in Line
  BY DEF Line
<1> QED
  BY <1>1, ElementOfSeq, ExceptSeq

LEMMA OptionsRewrite ==
    ASSUME NEW s \in Seq(Line), NEW i \in 1 .. Len(s), NEW o \in OptionBag
    PROVE  [s EXCEPT ![i].options = o] \in Seq(Line)
<1>1. \A l \in Line : [l EXCEPT !.options = o] \in Line
  BY DEF Line
<1> QED
  BY <1>1, ElementOfSeq, ExceptSeq

LEMMA MenuRewrite ==
    ASSUME NEW s \in Seq(Line), NEW i \in 1 .. Len(s), NEW m \in Name,
           NEW o \in OptionBag
    PROVE  [s EXCEPT ![i].menu = m, ![i].options = o] \in Seq(Line)
<1>1. \A l \in Line : [l EXCEPT !.menu = m, !.options = o] \in Line
  BY DEF Line
<1>2. [s EXCEPT ![i] = [s[i] EXCEPT !.menu = m, !.options = o]] \in Seq(Line)
  BY <1>1, ElementOfSeq, ExceptSeq
<1> QED
  BY <1>2

-----------------------------------------------------------------------------
(* What each method does to the items and the events *)

LEMMA AddRecords ==
    ASSUME WellFormed,
           NEW menu \in Name, NEW quantity \in Int, NEW options \in OptionBag,
           CartAdd(menu, quantity, options)
    PROVE  Recorded /\ reply' \in CartStatus
<1> DEFINE found == First({i \in DOMAIN items : SameAs(items[i], menu, options)})
           line == [menu |-> menu, quantity |-> quantity, options |-> options]
<1>1. items \in Seq(Line)
  BY DEF WellFormed
<1>2. ASSUME NEW i \in found, items' = [items EXCEPT ![i].quantity = @ + quantity]
      PROVE  items' \in Seq(Line)
  <2>1. i \in 1 .. Len(items)
    BY <1>1 DEF First
  <2>2. items[i].quantity + quantity \in Int
    <3>1. items[i] \in Line
      BY <1>1, <2>1, ElementOfSeq
    <3> QED
      BY <1>1, <3>1 DEF Line
  <2> QED
    BY <1>1, <1>2, <2>1, <2>2, QuantityRewrite
<1>3. ASSUME items' = Append(items, line)
      PROVE  items' \in Seq(Line)
  BY <1>1, <1>3, AppendProperties DEF Line
<1>4. items' \in Seq(Line) /\ reply' \in CartStatus
  BY <1>2, <1>3 DEF CartAdd, CartStatus
<1>5. Record("add")
  BY DEF CartAdd
<1> QED
  BY <1>4, <1>5 DEF Recorded, EventAction

LEMMA RemoveRecords ==
    ASSUME WellFormed,
           NEW menu \in Name \cup {"ALL"}, NEW quantity \in Int,
           CartRemove(menu, quantity)
    PROVE  (Recorded \/ Untouched) /\ reply' \in CartStatus
<1>1. items \in Seq(Line)
  BY DEF WellFormed
<1>2. CASE Emptied /\ reply' = "REMOVED"
  <2>1. items' \in Seq(Line)
    BY <1>2, EmptySeq DEF Emptied
  <2> QED
    BY <1>2, <2>1 DEF Emptied, Recorded, Untouched, EventAction, CartStatus
<1>3. ASSUME NEW i \in FirstLine(menu),
             IF TakesAll(items[i], quantity)
             THEN items' = RemoveAt(items, i)
             ELSE items' = [items EXCEPT ![i].quantity = @ - quantity]
      PROVE  items' \in Seq(Line)
  <2>1. i \in 1 .. Len(items)
    BY <1>1 DEF FirstLine, First
  <2>2. items[i].quantity - quantity \in Int
    <3>1. items[i] \in Line
      BY <1>1, <2>1, ElementOfSeq
    <3> QED
      BY <1>1, <3>1 DEF Line
  <2>3. RemoveAt(items, i) \in Seq(Line)
    BY <1>1, <2>1, RemoveAtType
  <2> QED
    <3>1. [items EXCEPT ![i].quantity = items[i].quantity - quantity] \in Seq(Line)
      BY <1>1, <2>1, <2>2, QuantityRewrite
    <3> QED
      BY <1>3, <2>3, <3>1
<1>4. CASE /\ \E i \in FirstLine(menu) :
                IF TakesAll(items[i], quantity)
                THEN items' = RemoveAt(items, i)
                ELSE items' = [items EXCEPT ![i].quantity = @ - quantity]
           /\ Record("remove")
           /\ reply' = "REMOVED"
  BY <1>3, <1>4 DEF Recorded, EventAction, CartStatus
<1>5. CASE NotInCart(menu)
  BY <1>5 DEF NotInCart, Untouched, CartStatus
<1> QED
  BY <1>2, <1>4, <1>5 DEF CartRemove

LEMMA ReplaceRecords ==
    ASSUME WellFormed,
           NEW from \in Name, NEW to \in Name, NEW options \in OptionBag,
           CartReplace(from, to, options)
    PROVE  (Recorded \/ Untouched) /\ reply' \in CartStatus
<1>1. items \in Seq(Line)
  BY DEF WellFormed
<1>2. ASSUME NEW i \in FirstLine(from),
             items' = [items EXCEPT ![i].menu = to, ![i].options = options]
      PROVE  items' \in Seq(Line)
  <2>1. i \in 1 .. Len(items)
    BY <1>1 DEF FirstLine, First
  <2> QED
    BY <1>1, <1>2, <2>1, MenuRewrite
<1>3. CASE NotInCart(from)
  BY <1>3 DEF NotInCart, Untouched, CartStatus
<1> QED
  BY <1>2, <1>3 DEF CartReplace, Recorded, EventAction, CartStatus

LEMMA ChangeOptionRecords ==
    ASSUME WellFormed,
           NEW menu \in Name, NEW options \in OptionBag,
           CartChangeOption(menu, options)
    PROVE  (Recorded \/ Untouched) /\ reply' \in CartStatus
<1>1. items \in Seq(Line)
  BY DEF WellFormed
<1>2. ASSUME NEW i \in FirstLine(menu),
             items' = [items EXCEPT ![i].options = options]
      PROVE  items' \in Seq(Line)
  <2>1. i \in 1 .. Len(items)
    BY <1>1 DEF FirstLine, First
  <2> QED
    BY <1>1, <1>2, <2>1, OptionsRewrite
<1>3. CASE NotInCart(menu)
  BY <1>3 DEF NotInCart, Untouched, CartStatus
<1> QED
  BY <1>2, <1>3 DEF CartChangeOption, Recorded, EventAction, CartStatus

LEMMA ClearRecords ==
    ASSUME WellFormed, CartClear
    PROVE  (Recorded \/ Untouched) /\ reply' \in CartStatus
<1>1. items' \in Seq(Line) /\ reply' \in CartStatus
  BY EmptySeq DEF CartClear, Emptied, CartStatus
<1> QED
  BY <1>1 DEF CartClear, Emptied, Recorded, Untouched, EventAction

LEMMA UndoUndoes ==
    ASSUME CartUndo
    PROVE  (Undone \/ Untouched) /\ reply' \in CartStatus
BY DEF CartUndo, Undone, Untouched, CartStatus

\* What any step does to the items and the events.
Shaped == Recorded \/ Undone \/ Untouched

\* Every step of the cart is a recorded change, an undo or no change.
LEMMA StepShape ==
    ASSUME WellFormed, CartAssumption, Next
    PROVE  Shaped /\ reply' \in CartStatus
<1>1. Quantity \subseteq Int /\ Options \subseteq OptionBag
  BY DEF CartAssumption, OptionBag
<1>2. ASSUME NEW menu \in Name, NEW quantity \in Quantity, NEW options \in Options,
             CartAdd(menu, quantity, options)
      PROVE  Shaped /\ reply' \in CartStatus
  BY <1>1, <1>2, AddRecords DEF Shaped
<1>3. ASSUME NEW menu \in Name \cup {"ALL"}, NEW quantity \in Quantity,
             CartRemove(menu, quantity)
      PROVE  Shaped /\ reply' \in CartStatus
  BY <1>1, <1>3, RemoveRecords DEF Shaped
<1>4. ASSUME NEW from \in Name, NEW to \in Name, NEW options \in Options,
             CartReplace(from, to, options)
      PROVE  Shaped /\ reply' \in CartStatus
  BY <1>1, <1>4, ReplaceRecords DEF Shaped
<1>5. ASSUME NEW menu \in Name, NEW options \in Options,
             CartChangeOption(menu, options)
      PROVE  Shaped /\ reply' \in CartStatus
  BY <1>1, <1>5, ChangeOptionRecords DEF Shaped
<1>6. CASE CartClear
  BY <1>6, ClearRecords DEF Shaped
<1>7. CASE CartUndo
  BY <1>7, UndoUndoes DEF Shaped
<1> QED
  BY <1>2, <1>3, <1>4, <1>5, <1>6, <1>7, Zenon DEF Next

-----------------------------------------------------------------------------
(* The inductive invariant *)

CartInv == WellFormed /\ HistoryChain

LEMMA InitInv == Init => CartInv
BY EmptySeq, CartAssumption
   DEF Init, CartInv, WellFormed, HistoryChain, Linked, EndsNow, CartAssumption

\* One more event at the end of the chain, trimmed or not.
LEMMA RecordedInv ==
    ASSUME CartInv, CartAssumption, Recorded
    PROVE  CartInv'
<1>1. PICK action \in EventAction : Record(action)
  BY DEF Recorded
<1> DEFINE event == [action |-> action, before |-> items, after |-> items']
           h == Append(history, event)
<1>2. /\ items \in Seq(Line) /\ items' \in Seq(Line)
      /\ history \in Seq(Event)
      /\ HistoryLimit \in Nat \ {0}
  BY DEF CartInv, WellFormed, Recorded, CartAssumption
<1>3. event \in Event
  BY <1>2 DEF Event
<1>4. /\ h \in Seq(Event)
      /\ h # <<>>
      /\ Len(h) = Len(history) + 1
      /\ h[Len(h)] = event
      /\ \A i \in 1 .. Len(history) : h[i] = history[i]
  BY <1>2, <1>3, AppendProperties
<1>5. \A i \in 1 .. Len(h) - 1 : h[i].after = h[i + 1].before
  <2> SUFFICES ASSUME NEW i \in 1 .. Len(h) - 1
               PROVE  h[i].after = h[i + 1].before
    OBVIOUS
  <2>1. CASE i < Len(history)
    BY <1>2, <1>4, <2>1 DEF CartInv, HistoryChain, Linked
  <2>2. CASE i = Len(history)
    <3>1. history # <<>> /\ history[Len(history)].after = items
      BY <1>2, <2>2, EmptySeq DEF CartInv, HistoryChain, EndsNow, Last
    <3>2. h[i + 1] = event /\ h[i] = history[Len(history)]
      BY <1>2, <1>4, <2>2
    <3> QED
      BY <3>1, <3>2
  <2> QED
    BY <1>2, <1>4, <2>1, <2>2
<1>6. history' = Trimmed(h)
  BY <1>1 DEF Record
<1> HIDE DEF h
<1>7. /\ Trimmed(h) \in Seq(Event)
      /\ Len(Trimmed(h)) <= HistoryLimit
      /\ Trimmed(h)[Len(Trimmed(h))] = event
  BY <1>2, <1>4, TrimmedProperties
<1>8. \A i \in 1 .. Len(Trimmed(h)) - 1 : Trimmed(h)[i].after = Trimmed(h)[i + 1].before
  <2>1. PICK k \in Nat : /\ Len(h) = Len(Trimmed(h)) + k
                         /\ \A i \in 1 .. Len(Trimmed(h)) : Trimmed(h)[i] = h[i + k]
    BY <1>2, <1>4, TrimmedProperties
  <2> SUFFICES ASSUME NEW i \in 1 .. Len(Trimmed(h)) - 1
               PROVE  Trimmed(h)[i].after = Trimmed(h)[i + 1].before
    OBVIOUS
  <2>2. Len(Trimmed(h)) \in Nat
    BY <1>7, LenProperties
  <2>3. /\ Trimmed(h)[i] = h[i + k]
        /\ Trimmed(h)[i + 1] = h[(i + k) + 1]
        /\ i + k \in 1 .. Len(h) - 1
    BY <2>1, <2>2
  <2> QED
    BY <2>3, <1>5
<1>9. event.after = items'
  OBVIOUS
<1> QED
  BY <1>2, <1>6, <1>7, <1>8, <1>9
     DEF CartInv, WellFormed, HistoryChain, Linked, EndsNow, Last

\* One event less: the chain now ends where the undone change began.
LEMMA UndoneInv ==
    ASSUME CartInv, Undone
    PROVE  CartInv'
<1>1. history \in Seq(Event) /\ history # <<>> /\ Len(history) \in Nat \ {0}
  BY EmptySeq, LenProperties DEF CartInv, WellFormed, Undone
<1>2. /\ history' \in Seq(Event)
      /\ Len(history') = Len(history) - 1
      /\ \A i \in 1 .. Len(history') : history'[i] = history[i]
  BY <1>1, FrontProperties DEF Undone
<1>3. items' \in Seq(Line)
  <2>1. history[Len(history)] \in Event
    BY <1>1, ElementOfSeq
  <2> QED
    BY <2>1 DEF Undone, Last, Event
<1>4. Linked'
  BY <1>1, <1>2 DEF CartInv, HistoryChain, Linked
<1>5. EndsNow'
  <2> SUFFICES ASSUME history' # <<>>
               PROVE  history'[Len(history')].after = items'
    BY DEF EndsNow, Last
  <2>1. Len(history') \in 1 .. Len(history) - 1
    BY <1>1, <1>2, EmptySeq
  <2>2. history[Len(history) - 1].after = history[Len(history)].before
    BY <1>1, <1>2, <2>1 DEF CartInv, HistoryChain, Linked
  <2> QED
    BY <1>1, <1>2, <2>1, <2>2 DEF Undone, Last
<1>6. Len(history') <= HistoryLimit
  BY <1>1, <1>2, CartAssumption DEF CartInv, WellFormed, CartAssumption
<1> QED
  BY <1>2, <1>3, <1>4, <1>5, <1>6 DEF CartInv, WellFormed, HistoryChain

\* Any step of that shape keeps the invariant, whoever takes it.
LEMMA ShapedInv == CartInv /\ Shaped => CartInv'
<1> SUFFICES ASSUME CartInv, Shaped
             PROVE  CartInv'
  OBVIOUS
<1>1. CASE Recorded
  BY <1>1, RecordedInv, CartAssumption
<1>2. CASE Undone
  BY <1>2, UndoneInv
<1>3. CASE Untouched
  BY <1>3 DEF Untouched, CartInv, WellFormed, HistoryChain, Linked, EndsNow
<1> QED
  BY <1>1, <1>2, <1>3 DEF Shaped

LEMMA Invariance == Spec => [](CartInv /\ reply \in CartStatus)
<1>1. Init => CartInv /\ reply \in CartStatus
  BY InitInv DEF Init, CartStatus
<1>2. CartInv /\ reply \in CartStatus /\ [Next]_cartVars
        => (CartInv /\ reply \in CartStatus)'
  <2> SUFFICES ASSUME CartInv, reply \in CartStatus, [Next]_cartVars
               PROVE  CartInv' /\ reply' \in CartStatus
    OBVIOUS
  <2>1. CASE Next
    BY <2>1, StepShape, ShapedInv, CartAssumption DEF CartInv
  <2>2. CASE UNCHANGED cartVars
    BY <2>2, ShapedInv DEF cartVars, Shaped, Untouched
  <2> QED
    BY <2>1, <2>2
<1> QED
  BY <1>1, <1>2, PTL DEF Spec

-----------------------------------------------------------------------------
(* Theorems *)

\* The items are always lines, the events always events, and never more than
\* HistoryLimit of them, whatever Cart's methods are called with.
THEOREM TypeCorrect == Spec => []TypeOK
<1>1. CartInv /\ reply \in CartStatus => TypeOK
  BY DEF CartInv, TypeOK
<1> QED
  BY <1>1, Invariance, PTL

\* _record, _HISTORY_LIMIT and undo() together keep the events one unbroken
\* chain that ends in the present cart.
THEOREM ChainCorrect == Spec => []HistoryChain
<1>1. CartInv => HistoryChain
  BY DEF CartInv
<1> QED
  BY <1>1, Invariance, PTL

-----------------------------------------------------------------------------
(* The cart implements the undo stack *)

\* The stack of a list of events.
LEMMA BeforesType ==
    ASSUME NEW h \in Seq(Event)
    PROVE  /\ Befores(h) \in Seq(Seq(Line))
           /\ Len(Befores(h)) = Len(h)
           /\ \A i \in 1 .. Len(h) : Befores(h)[i] = h[i].before
<1>1. \A i \in 1 .. Len(h) : h[i] \in Event
  BY ElementOfSeq
<1>2. \A i \in 1 .. Len(h) : h[i].before \in Seq(Line)
  BY <1>1 DEF Event
<1>3. DOMAIN h = 1 .. Len(h) /\ Len(h) \in Nat
  BY LenProperties
<1>4. Befores(h) = [i \in 1 .. Len(h) |-> h[i].before]
  BY <1>3 DEF Befores
<1> QED
  BY <1>2, <1>3, <1>4, IsASeq, LenProperties

\* Reading the snapshots commutes with adding an event ...
LEMMA BeforesAppend ==
    ASSUME NEW h \in Seq(Event), NEW e \in Event
    PROVE  Befores(Append(h, e)) = Append(Befores(h), e.before)
<1>1. e.before \in Seq(Line) /\ Len(h) \in Nat
  BY LenProperties DEF Event
<1>2. /\ Append(h, e) \in Seq(Event)
      /\ Len(Append(h, e)) = Len(h) + 1
      /\ \A i \in 1 .. Len(h) : Append(h, e)[i] = h[i]
      /\ Append(h, e)[Len(h) + 1] = e
  BY AppendProperties
<1>3. /\ Befores(Append(h, e)) \in Seq(Seq(Line))
      /\ Len(Befores(Append(h, e))) = Len(h) + 1
      /\ \A i \in 1 .. Len(h) + 1 : Befores(Append(h, e))[i] = Append(h, e)[i].before
  BY <1>2, BeforesType
<1>4. /\ Append(Befores(h), e.before) \in Seq(Seq(Line))
      /\ Len(Append(Befores(h), e.before)) = Len(h) + 1
      /\ \A i \in 1 .. Len(h) : Append(Befores(h), e.before)[i] = h[i].before
      /\ Append(Befores(h), e.before)[Len(h) + 1] = e.before
  BY <1>1, BeforesType, AppendProperties
<1>5. \A i \in 1 .. Len(h) + 1 :
         Befores(Append(h, e))[i] = Append(Befores(h), e.before)[i]
  <2> SUFFICES ASSUME NEW i \in 1 .. Len(h) + 1
               PROVE  Append(h, e)[i].before = Append(Befores(h), e.before)[i]
    BY <1>3
  <2>1. CASE i \in 1 .. Len(h)
    BY <1>2, <1>4, <2>1
  <2>2. CASE i = Len(h) + 1
    BY <1>2, <1>4, <2>2
  <2>3. i \in 1 .. Len(h) \/ i = Len(h) + 1
    BY <1>1
  <2> QED
    BY <2>1, <2>2, <2>3, Zenon
<1> QED
  BY <1>3, <1>4, <1>5, SeqEqual

\* ... and with cutting events off.
LEMMA BeforesSlice ==
    ASSUME NEW h \in Seq(Event),
           NEW m \in 1 .. Len(h) + 1, NEW n \in m - 1 .. Len(h)
    PROVE  Befores(SubSeq(h, m, n)) = SubSeq(Befores(h), m, n)
<1>1. /\ Befores(h) \in Seq(Seq(Line))
      /\ Len(Befores(h)) = Len(h)
      /\ \A i \in 1 .. Len(h) : Befores(h)[i] = h[i].before
  BY BeforesType
<1>2. /\ SubSeq(h, m, n) \in Seq(Event)
      /\ Len(SubSeq(h, m, n)) = n - m + 1
      /\ \A i \in 1 .. n - m + 1 : SubSeq(h, m, n)[i] = h[m + i - 1]
  BY Slice
<1>3. /\ Befores(SubSeq(h, m, n)) \in Seq(Seq(Line))
      /\ Len(Befores(SubSeq(h, m, n))) = n - m + 1
      /\ \A i \in 1 .. n - m + 1 : Befores(SubSeq(h, m, n))[i] = SubSeq(h, m, n)[i].before
  BY <1>2, BeforesType
<1>4. /\ SubSeq(Befores(h), m, n) \in Seq(Seq(Line))
      /\ Len(SubSeq(Befores(h), m, n)) = n - m + 1
      /\ \A i \in 1 .. n - m + 1 : SubSeq(Befores(h), m, n)[i] = Befores(h)[m + i - 1]
  BY <1>1, Slice
<1>5. \A i \in 1 .. n - m + 1 : m + i - 1 \in 1 .. Len(h)
  BY LenProperties
<1>6. \A i \in 1 .. n - m + 1 :
         Befores(SubSeq(h, m, n))[i] = SubSeq(Befores(h), m, n)[i]
  BY <1>1, <1>2, <1>3, <1>4, <1>5
<1> QED
  BY <1>3, <1>4, <1>6, SeqEqual

LEMMA InitStack == Init => Stack!Init
BY EmptySeq DEF Init, Stack!Init, Befores

\* Recording a change puts the cart of before on the stack, and trimming the
\* events trims the stack.
LEMMA RecordedStack ==
    ASSUME CartInv, CartAssumption, Recorded
    PROVE  Stack!Change
<1>1. PICK action \in EventAction : Record(action)
  BY DEF Recorded
<1> DEFINE event == [action |-> action, before |-> items, after |-> items']
           h == Append(history, event)
<1>2. /\ items \in Seq(Line) /\ items' \in Seq(Line)
      /\ history \in Seq(Event)
      /\ HistoryLimit \in Nat \ {0}
  BY DEF CartInv, WellFormed, Recorded, CartAssumption
<1>3. event \in Event /\ event.before = items
  BY <1>2 DEF Event
<1>4. h \in Seq(Event) /\ Befores(h) = Append(Befores(history), items)
  <2> HIDE DEF event
  <2> QED
    BY <1>2, <1>3, BeforesAppend, AppendProperties
<1>5. history' = Trimmed(h)
  BY <1>1 DEF Record
<1> HIDE DEF h
<1>6. Len(h) \in Nat /\ Len(Befores(h)) = Len(h)
  BY <1>4, BeforesType, LenProperties
<1>7. Befores(history') = Stack!Newest(Befores(h))
  <2>1. CASE Len(h) > HistoryLimit
    <3>1. /\ Len(h) - HistoryLimit + 1 \in 1 .. Len(h) + 1
          /\ Len(h) \in (Len(h) - HistoryLimit + 1) - 1 .. Len(h)
      BY <1>2, <1>6, <2>1
    <3>2. /\ history' = SubSeq(h, Len(h) - HistoryLimit + 1, Len(h))
          /\ Stack!Newest(Befores(h))
                = SubSeq(Befores(h), Len(h) - HistoryLimit + 1, Len(h))
      BY <1>5, <1>6, <2>1 DEF Trimmed, Stack!Newest
    <3> QED
      BY <1>4, <3>1, <3>2, BeforesSlice
  <2>2. CASE ~(Len(h) > HistoryLimit)
    BY <1>5, <1>6, <2>2 DEF Trimmed, Stack!Newest
  <2> QED
    BY <2>1, <2>2
<1> QED
  BY <1>2, <1>4, <1>7 DEF Stack!Change

LEMMA UndoneStack ==
    ASSUME CartInv, Undone
    PROVE  Stack!Undo
<1>1. history \in Seq(Event) /\ history # <<>> /\ Len(history) \in Nat \ {0}
  BY EmptySeq, LenProperties DEF CartInv, WellFormed, Undone
<1>2. /\ Befores(history) \in Seq(Seq(Line))
      /\ Len(Befores(history)) = Len(history)
      /\ Befores(history)[Len(history)] = history[Len(history)].before
  BY <1>1, BeforesType
<1>3. Befores(history) # <<>>
  BY <1>1, <1>2, EmptySeq
<1>4. items' = Befores(history)[Len(Befores(history))]
  BY <1>2 DEF Undone, Last
<1>5. Befores(history') = SubSeq(Befores(history), 1, Len(history) - 1)
  <2>1. 1 \in 1 .. Len(history) + 1 /\ Len(history) - 1 \in 1 - 1 .. Len(history)
    BY <1>1
  <2> QED
    BY <1>1, <2>1, BeforesSlice DEF Undone, Front
<1> QED
  BY <1>2, <1>3, <1>4, <1>5 DEF Stack!Undo

LEMMA ShapedStack == CartInv /\ Shaped => [Stack!Next]_(Stack!vars)
<1> SUFFICES ASSUME CartInv, Shaped
             PROVE  [Stack!Next]_(Stack!vars)
  OBVIOUS
<1>1. CASE Recorded
  BY <1>1, RecordedStack, CartAssumption DEF Stack!Next
<1>2. CASE Undone
  BY <1>2, UndoneStack DEF Stack!Next
<1>3. CASE Untouched
  BY <1>3 DEF Untouched, Stack!vars, Befores
<1> QED
  BY <1>1, <1>2, <1>3 DEF Shaped

\* A cart with _record, _HISTORY_LIMIT and undo() is a bounded undo stack:
\* every change of the items is one push, every answered undo one pop, and
\* nothing else touches either.
THEOREM CartImplementsUndoStack == Spec => IsUndoStack
<1>1. CartInv /\ [Next]_cartVars => [Stack!Next]_(Stack!vars)
  <2>1. CartInv /\ Next => Shaped
    BY StepShape, CartAssumption DEF CartInv
  <2>2. UNCHANGED cartVars => Shaped
    BY DEF cartVars, Shaped, Untouched
  <2> QED
    BY <2>1, <2>2, ShapedStack
<1>2. Init => Stack!Init
  BY InitStack
<1> QED
  BY <1>1, <1>2, Invariance, PTL DEF Spec, IsUndoStack, Stack!Spec

-----------------------------------------------------------------------------
(* Lines that look the same *)

\* The pairs of a list of lines that look the same.
TwinsOf(s) ==
    {p \in (DOMAIN s) \X (DOMAIN s) :
        p[1] < p[2] /\ SameAs(s[p[1]], s[p[2]].menu, s[p[2]].options)}

LEMMA TwinsFinite ==
    ASSUME NEW s \in Seq(Line)
    PROVE  IsFiniteSet(TwinsOf(s)) /\ Cardinality(TwinsOf(s)) \in Nat
<1>1. DOMAIN s = 1 .. Len(s) /\ Len(s) \in Int
  BY LenProperties
<1>2. IsFiniteSet((DOMAIN s) \X (DOMAIN s))
  <2>1. IsFiniteSet(1 .. Len(s))
    BY <1>1, FS_Interval
  <2> QED
    BY <1>1, <2>1, FS_Product
<1>3. TwinsOf(s) \in SUBSET ((DOMAIN s) \X (DOMAIN s))
  BY DEF TwinsOf
<1> QED
  BY <1>2, <1>3, FS_Subset, FS_CardinalityType

\* Lines that can be found in another list, in their order, have no more twins.
LEMMA NoMoreTwins ==
    ASSUME NEW s \in Seq(Line), NEW t \in Seq(Line), NEW f \in [DOMAIN t -> DOMAIN s],
           \A i, j \in DOMAIN t : i < j => f[i] < f[j],
           \A i \in DOMAIN t : t[i].menu = s[f[i]].menu /\ t[i].options = s[f[i]].options
    PROVE  Cardinality(TwinsOf(t)) <= Cardinality(TwinsOf(s))
<1> DEFINE g == [p \in TwinsOf(t) |-> <<f[p[1]], f[p[2]]>>]
<1>1. DOMAIN t \subseteq Nat /\ DOMAIN s \subseteq Nat
  BY LenProperties
<1>2. \A i, j \in DOMAIN t : f[i] = f[j] => i = j
  <2> SUFFICES ASSUME NEW i \in DOMAIN t, NEW j \in DOMAIN t, f[i] = f[j], i < j \/ j < i
               PROVE  FALSE
    BY <1>1
  <2>1. f[i] < f[j] \/ f[j] < f[i]
    OBVIOUS
  <2>2. f[i] \in Nat /\ f[j] \in Nat
    BY <1>1
  <2> QED
    BY <2>1, <2>2
<1>3. ASSUME NEW p \in TwinsOf(t)
      PROVE  /\ p[1] \in DOMAIN t /\ p[2] \in DOMAIN t /\ p = <<p[1], p[2]>>
             /\ g[p] = <<f[p[1]], f[p[2]]>> /\ g[p] \in TwinsOf(s)
  <2>1. /\ p[1] \in DOMAIN t /\ p[2] \in DOMAIN t /\ p = <<p[1], p[2]>>
        /\ p[1] < p[2] /\ SameAs(t[p[1]], t[p[2]].menu, t[p[2]].options)
    BY DEF TwinsOf
  <2>2. /\ f[p[1]] \in DOMAIN s /\ f[p[2]] \in DOMAIN s /\ f[p[1]] < f[p[2]]
        /\ SameAs(s[f[p[1]]], s[f[p[2]]].menu, s[f[p[2]]].options)
    BY <2>1 DEF SameAs
  <2>3. <<f[p[1]], f[p[2]]>> \in TwinsOf(s)
    BY <2>2 DEF TwinsOf
  <2> QED
    BY <2>1, <2>3
<1>4. g \in [TwinsOf(t) -> TwinsOf(s)]
  BY <1>3
<1>5. \A p, q \in TwinsOf(t) : g[p] = g[q] => p = q
  <2> SUFFICES ASSUME NEW p \in TwinsOf(t), NEW q \in TwinsOf(t), g[p] = g[q]
               PROVE  p = q
    OBVIOUS
  <2> HIDE DEF g
  <2>1. f[p[1]] = f[q[1]] /\ f[p[2]] = f[q[2]]
    BY <1>3
  <2>2. p[1] = q[1] /\ p[2] = q[2]
    BY <1>2, <1>3, <2>1
  <2> QED
    BY <1>3, <2>2
<1> HIDE DEF g
<1>6. g \in Injection(TwinsOf(t), TwinsOf(s))
  BY <1>4, <1>5, Fun_IsInj
<1> QED
  BY <1>6, TwinsFinite, FS_Injection

LEMMA SameLines ==
    ASSUME NEW s \in Seq(Line), NEW t \in Seq(Line), Len(t) = Len(s),
           \A i \in DOMAIN t : t[i].menu = s[i].menu /\ t[i].options = s[i].options
    PROVE  Cardinality(TwinsOf(t)) <= Cardinality(TwinsOf(s))
<1>1. PICK f : f = [i \in DOMAIN t |-> i]
  OBVIOUS
<1>2. DOMAIN t = DOMAIN s
  BY LenProperties
<1>3. f \in [DOMAIN t -> DOMAIN s] /\ \A i \in DOMAIN t : f[i] = i
  BY <1>1, <1>2
<1>4. /\ \A i, j \in DOMAIN t : i < j => f[i] < f[j]
      /\ \A i \in DOMAIN t : t[i].menu = s[f[i]].menu /\ t[i].options = s[f[i]].options
  BY <1>3
<1>5. f \in [DOMAIN t -> DOMAIN s]
  BY <1>3
<1> QED
  BY <1>4, <1>5, NoMoreTwins, Zenon

LEMMA NoTwins ==
    ASSUME NEW s \in Seq(Line)
    PROVE  Cardinality(TwinsOf(<<>>)) <= Cardinality(TwinsOf(s))
<1>1. TwinsOf(<<>>) = {}
  BY DEF TwinsOf
<1>2. {} \in SUBSET TwinsOf(s)
  OBVIOUS
<1> QED
  BY <1>1, <1>2, TwinsFinite, FS_Subset

\* A quantity does not tell two lines apart.
LEMMA QuantityOnly ==
    ASSUME NEW s \in Seq(Line), NEW i, NEW q,
           [s EXCEPT ![i].quantity = q] \in Seq(Line)
    PROVE  Cardinality(TwinsOf([s EXCEPT ![i].quantity = q])) <= Cardinality(TwinsOf(s))
<1>1. PICK t \in Seq(Line) : t = [s EXCEPT ![i].quantity = q]
  OBVIOUS
<1>2. DOMAIN t = DOMAIN s
  BY <1>1
<1>3. Len(t) = Len(s)
  BY <1>2, LenProperties
<1>4. ASSUME NEW j \in DOMAIN s
      PROVE  t[j].menu = s[j].menu /\ t[j].options = s[j].options
  <2>1. s[j] \in Line
    BY ElementOfSeq, LenProperties
  <2>2. t[j] = s[j] \/ t[j] = [s[j] EXCEPT !.quantity = q]
    BY <1>1
  <2> QED
    BY <2>1, <2>2 DEF Line
<1> QED
  BY <1>1, <1>2, <1>3, <1>4, SameLines

LEMMA TwinsWithout ==
    ASSUME NEW s \in Seq(Line), NEW i \in 1 .. Len(s)
    PROVE  Cardinality(TwinsOf(RemoveAt(s, i))) <= Cardinality(TwinsOf(s))
<1>1. PICK t \in Seq(Line) : t = RemoveAt(s, i)
  BY RemoveAtType
<1>2. Len(s) \in Nat /\ i \in Nat /\ DOMAIN s = 1 .. Len(s) /\ DOMAIN t = 1 .. Len(t)
  BY LenProperties
<1>3. /\ Len(t) = Len(s) - 1
      /\ \A j \in 1 .. Len(t) : t[j] = s[IF j < i THEN j ELSE j + 1]
  BY <1>1, RemoveAtProperties
<1>4. PICK f : f = [j \in 1 .. Len(t) |-> IF j < i THEN j ELSE j + 1]
  OBVIOUS
<1>5. f \in [DOMAIN t -> DOMAIN s]
  BY <1>2, <1>3, <1>4
<1>6. \A j, k \in DOMAIN t : j < k => f[j] < f[k]
  BY <1>2, <1>3, <1>4
<1>7. \A j \in DOMAIN t : t[j].menu = s[f[j]].menu /\ t[j].options = s[f[j]].options
  BY <1>2, <1>3, <1>4
<1> QED
  BY <1>1, <1>5, <1>6, <1>7, NoMoreTwins

\* A line that looks like no other makes no twin.
LEMMA TwinsBeside ==
    ASSUME NEW s \in Seq(Line), NEW l \in Line,
           \A i \in DOMAIN s : ~SameAs(s[i], l.menu, l.options)
    PROVE  Cardinality(TwinsOf(Append(s, l))) <= Cardinality(TwinsOf(s))
<1>1. PICK t \in Seq(Line) : t = Append(s, l)
  BY AppendProperties
<1>2. /\ Len(s) \in Nat /\ DOMAIN s = 1 .. Len(s) /\ DOMAIN t = 1 .. Len(s) + 1
      /\ \A i \in 1 .. Len(s) : t[i] = s[i]
      /\ t[Len(s) + 1] = l
  BY <1>1, AppendProperties, LenProperties
<1>3. TwinsOf(t) \subseteq TwinsOf(s)
  <2> SUFFICES ASSUME NEW p \in TwinsOf(t)
               PROVE  p \in TwinsOf(s)
    OBVIOUS
  <2>1. /\ p[1] \in 1 .. Len(s) + 1 /\ p[2] \in 1 .. Len(s) + 1 /\ p = <<p[1], p[2]>>
        /\ p[1] < p[2] /\ SameAs(t[p[1]], t[p[2]].menu, t[p[2]].options)
    BY <1>2 DEF TwinsOf
  <2>2. p[1] \in 1 .. Len(s) /\ t[p[1]] = s[p[1]]
    BY <1>2, <2>1
  <2>3. p[2] # Len(s) + 1
    BY <1>2, <2>1, <2>2
  <2>4. p[2] \in 1 .. Len(s) /\ t[p[2]] = s[p[2]]
    BY <1>2, <2>1, <2>3
  <2>5. <<p[1], p[2]>> \in TwinsOf(s)
    BY <1>2, <2>1, <2>2, <2>4 DEF TwinsOf
  <2> QED
    BY <2>1, <2>5
<1> QED
  BY <1>1, <1>3, TwinsFinite, FS_Subset

\* The first of some places exists.
LEMMA FirstExists ==
    ASSUME NEW n \in Nat, NEW S \in SUBSET (1 .. n), First(S) = {}
    PROVE  S = {}
<1> SUFFICES ASSUME S # {} PROVE FALSE
  OBVIOUS
<1> DEFINE Mirror == {k \in 1 .. n : n + 1 - k \in S}
<1>1. Mirror # {}
  <2>1. PICK i \in S : TRUE
    OBVIOUS
  <2>2. n + 1 - i \in 1 .. n /\ n + 1 - (n + 1 - i) = i
    OBVIOUS
  <2> QED
    BY <2>1, <2>2
<1>2. PICK k \in Mirror : \A j \in Mirror : j <= k
  <2> Mirror \in SUBSET (1 .. n)
    OBVIOUS
  <2> HIDE DEF Mirror
  <2> QED
    BY <1>1, HasGreatest
<1>3. n + 1 - k \in S
  OBVIOUS
<1>4. ASSUME NEW j \in S
      PROVE  n + 1 - k <= j
  <2>1. n + 1 - j \in 1 .. n /\ n + 1 - (n + 1 - j) = j
    OBVIOUS
  <2>2. n + 1 - j \in Mirror
    BY <2>1
  <2> QED
    BY <1>2, <2>1, <2>2
<1> QED
  BY <1>3, <1>4 DEF First

LEMMA AddTwins ==
    ASSUME WellFormed,
           NEW menu \in Name, NEW quantity \in Int, NEW options \in OptionBag,
           CartAdd(menu, quantity, options)
    PROVE  Cardinality(TwinsOf(items')) <= Cardinality(TwinsOf(items))
<1> DEFINE S == {i \in DOMAIN items : SameAs(items[i], menu, options)}
           line == [menu |-> menu, quantity |-> quantity, options |-> options]
<1>1. /\ items \in Seq(Line) /\ items' \in Seq(Line)
      /\ Len(items) \in Nat /\ DOMAIN items = 1 .. Len(items)
  BY AddRecords, LenProperties DEF WellFormed, Recorded
<1>2. ASSUME NEW i \in First(S), items' = [items EXCEPT ![i].quantity = @ + quantity]
      PROVE  Cardinality(TwinsOf(items')) <= Cardinality(TwinsOf(items))
  BY <1>1, <1>2, QuantityOnly
<1>3. ASSUME First(S) = {}, items' = Append(items, line)
      PROVE  Cardinality(TwinsOf(items')) <= Cardinality(TwinsOf(items))
  <2>1. S = {}
    BY <1>1, <1>3, FirstExists
  <2>2. line \in Line /\ line.menu = menu /\ line.options = options
    BY DEF Line
  <2>3. \A i \in DOMAIN items : ~SameAs(items[i], line.menu, line.options)
    BY <2>1, <2>2
  <2> HIDE DEF line
  <2> QED
    BY <1>1, <1>3, <2>2, <2>3, TwinsBeside
<1> QED
  BY <1>2, <1>3 DEF CartAdd

LEMMA RemoveTwins ==
    ASSUME WellFormed,
           NEW menu \in Name \cup {"ALL"}, NEW quantity \in Int,
           CartRemove(menu, quantity)
    PROVE  Cardinality(TwinsOf(items')) <= Cardinality(TwinsOf(items))
<1>1. /\ items \in Seq(Line) /\ items' \in Seq(Line)
      /\ DOMAIN items = 1 .. Len(items)
  BY RemoveRecords, LenProperties DEF WellFormed, Recorded, Untouched
<1>2. CASE items' = <<>>
  BY <1>1, <1>2, NoTwins
<1>3. ASSUME NEW i \in FirstLine(menu),
             IF TakesAll(items[i], quantity)
             THEN items' = RemoveAt(items, i)
             ELSE items' = [items EXCEPT ![i].quantity = @ - quantity]
      PROVE  Cardinality(TwinsOf(items')) <= Cardinality(TwinsOf(items))
  <2>1. i \in 1 .. Len(items)
    BY <1>1 DEF FirstLine, First
  <2>2. CASE items' = RemoveAt(items, i)
    BY <1>1, <2>1, <2>2, TwinsWithout
  <2>3. CASE items' = [items EXCEPT ![i].quantity = @ - quantity]
    BY <1>1, <2>1, <2>3, QuantityOnly
  <2> QED
    BY <1>3, <2>2, <2>3
<1>4. CASE NotInCart(menu)
  BY <1>1, <1>4, TwinsFinite DEF NotInCart
<1> QED
  BY <1>2, <1>3, <1>4 DEF CartRemove, Emptied

LEMMA TwinsStep ==
    ASSUME WellFormed, CartAssumption, Next
    PROVE  Cardinality(Twins') > Cardinality(Twins)
             => reply' \in {"REPLACED", "OPTION_CHANGED", "UNDONE"}
<1>1. Twins = TwinsOf(items) /\ Twins' = TwinsOf(items')
  BY DEF Twins, TwinsOf
<1>2. Quantity \subseteq Int /\ Options \subseteq OptionBag
  BY DEF CartAssumption, OptionBag
<1>3. items \in Seq(Line) /\ Cardinality(TwinsOf(items)) \in Nat
  BY TwinsFinite DEF WellFormed
<1> DEFINE Fewer == Cardinality(TwinsOf(items')) <= Cardinality(TwinsOf(items))
           Rewrites == reply' \in {"REPLACED", "OPTION_CHANGED", "UNDONE"}
<1>4. ASSUME items' \in Seq(Line), Fewer
      PROVE  ~(Cardinality(TwinsOf(items')) > Cardinality(TwinsOf(items)))
  <2>1. Cardinality(TwinsOf(items')) \in Nat
    BY <1>4, TwinsFinite
  <2> QED
    BY <1>3, <1>4, <2>1
<1>5. ASSUME NEW menu \in Name, NEW quantity \in Quantity, NEW options \in Options,
             CartAdd(menu, quantity, options)
      PROVE  items' \in Seq(Line) /\ Fewer
  <2>1. quantity \in Int /\ options \in OptionBag
    BY <1>2
  <2> QED
    BY <1>5, <2>1, AddRecords, AddTwins DEF Recorded
<1>6. ASSUME NEW menu \in Name \cup {"ALL"}, NEW quantity \in Quantity,
             CartRemove(menu, quantity)
      PROVE  items' \in Seq(Line) /\ Fewer
  <2>1. quantity \in Int
    BY <1>2
  <2> QED
    BY <1>3, <1>6, <2>1, RemoveRecords, RemoveTwins DEF Recorded, Untouched
<1>7. ASSUME items' = items
      PROVE  items' \in Seq(Line) /\ Fewer
  BY <1>3, <1>7
<1>8. ASSUME NEW from \in Name, NEW to \in Name, NEW options \in Options,
             CartReplace(from, to, options)
      PROVE  items' = items \/ Rewrites
  BY <1>8 DEF CartReplace, NotInCart
<1>9. ASSUME NEW menu \in Name, NEW options \in Options,
             CartChangeOption(menu, options)
      PROVE  items' = items \/ Rewrites
  BY <1>9 DEF CartChangeOption, NotInCart
<1>10. ASSUME CartClear
       PROVE  items' \in Seq(Line) /\ Fewer
  <2>1. items' = <<>>
    BY <1>10 DEF CartClear, Emptied
  <2> QED
    BY <1>3, <2>1, EmptySeq, NoTwins
<1>11. ASSUME CartUndo
       PROVE  items' = items \/ Rewrites
  BY <1>11 DEF CartUndo
<1> HIDE DEF Fewer, Rewrites
<1>12. Rewrites \/ (items' \in Seq(Line) /\ Fewer)
  BY <1>5, <1>6, <1>7, <1>8, <1>9, <1>10, <1>11, Zenon DEF Next
<1> QED
  BY <1>1, <1>4, <1>12 DEF Rewrites

\* For every menu, bound and history of calls: only a replacement, a change of
\* options or an undo leaves more pairs of lines that look the same than there
\* were, since add() looks for an equal line first (cart.py, add).
THEOREM TwinsByRewriting == Spec => TwinsOnlyByRewriting
<1>1. CartInv /\ [Next]_cartVars
        => [Cardinality(Twins') > Cardinality(Twins)
              => reply' \in {"REPLACED", "OPTION_CHANGED", "UNDONE"}]_cartVars
  BY TwinsStep, CartAssumption DEF CartInv
<1> QED
  BY <1>1, Invariance, PTL DEF Spec, TwinsOnlyByRewriting
=============================================================================
