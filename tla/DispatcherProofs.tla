-------------------------- MODULE DispatcherProofs --------------------------
(***************************************************************************)
(* What holds of a cart that is reached through the dispatcher, by any     *)
(* tool calls and then by those of the demo page.                          *)
(*                                                                         *)
(* The first part is about the dispatcher alone, for every menu, slang,    *)
(* option, bound and quantity: the type of the cart; that it holds only    *)
(* what the cafe can make; which calls may leave a line without pieces,    *)
(* and which may sell more than there is; that options are merged as the   *)
(* code's loop merges them; and that the cart still is an undo stack.      *)
(* Every handler either answers and leaves the cart alone or is one method *)
(* of the cart with validated arguments, so each step has one of the       *)
(* shapes of CartProofs.  An invariant of the cart is inductive only when  *)
(* it also speaks of the carts in the events, which undo brings back       *)
(* unchecked: LinesOrderable does, and Holding says it of the pieces.      *)
(*                                                                         *)
(* The second part is what the demo page shows, for any menu, any number   *)
(* of requests and any loss or reordering of answers.  ClientInv says what *)
(* the handlers leave: they answer, by the lemmas of the first part, with  *)
(* lines of the cafe's menus, also beside a reader; one message at most    *)
(* locks the composer; and a click that chooses an option asks for it      *)
(* last, so that it is in the line the handler puts in place.  PageInv is  *)
(* about versions: no answer is newer than the cart, one as new as the     *)
(* cart carries it, a fetch as new has read the first lines of it, and     *)
(* until the page has caught up an answer that will tell it is on its way, *)
(* or the page is excused.  A fetch beside a chat that changes the cart    *)
(* becomes older by that, and the answer of the chat is then the one to    *)
(* wait for.                                                               *)
(***************************************************************************)
EXTENDS Client, CartProofs, ListsProofs

AllOrderable(s) == \A i \in DOMAIN s : Orderable(s[i])

DispatcherInv == CartInv /\ LinesOrderable

-----------------------------------------------------------------------------
(* Bags of options *)

LEMMA BagProperties ==
    ASSUME NEW options \in Seq(Option)
    PROVE  /\ Bag(options) \in OptionBag
           /\ \A o \in Option : Bag(options)[o] > 0
                => \E i \in DOMAIN options : options[i] = o
<1> DEFINE at(o) == {i \in DOMAIN options : options[i] = o}
<1>1. \A o \in Option : IsFiniteSet(at(o))
  <2>1. DOMAIN options = 1 .. Len(options) /\ Len(options) \in Nat
    BY LenProperties
  <2>2. IsFiniteSet(1 .. Len(options))
    BY <2>1, FS_Interval
  <2>3. \A o \in Option : at(o) \subseteq 1 .. Len(options)
    BY <2>1
  <2> QED
    BY <2>2, <2>3, FS_Subset
<1>2. \A o \in Option : Cardinality(at(o)) \in Nat
  BY <1>1, FS_CardinalityType
<1>3. \A o \in Option : Bag(options)[o] = Cardinality(at(o))
  BY DEF Bag
<1>4. Bag(options) \in OptionBag
  BY <1>2 DEF Bag, OptionBag
<1>5. ASSUME NEW o \in Option, Bag(options)[o] > 0
      PROVE  \E i \in DOMAIN options : options[i] = o
  <2>1. at(o) # {}
    BY <1>3, <1>5, FS_EmptySet
  <2> QED
    BY <2>1
<1> QED
  BY <1>4, <1>5

\* Merging puts in nothing that was not there or asked for.
LEMMA MergedProperties ==
    ASSUME NEW existing \in OptionBag, NEW new \in Seq(Option)
    PROVE  /\ Merged(existing, new) \in OptionBag
           /\ \A o \in Option : Merged(existing, new)[o] > 0
                => existing[o] > 0 \/ \E i \in DOMAIN new : new[i] = o
<1>1. \A o \in Option : existing[o] \in Nat
  BY DEF OptionBag
<1>2. \A o \in Option :
         \/ Merged(existing, new)[o] = 0
         \/ Merged(existing, new)[o] = 1 /\ \E i \in DOMAIN new : new[i] = o
         \/ Merged(existing, new)[o] = existing[o]
  BY DEF Merged
<1>3. Merged(existing, new) \in OptionBag
  <2>1. \A o \in Option : Merged(existing, new)[o] \in Nat
    BY <1>1, <1>2
  <2>2. Merged(existing, new) = [o \in Option |-> Merged(existing, new)[o]]
    BY DEF Merged
  <2> QED
    BY <2>1, <2>2 DEF OptionBag
<1> QED
  BY <1>1, <1>2, <1>3

-----------------------------------------------------------------------------
(* Validated arguments *)

LEMMA ResolvedName ==
    ASSUME NEW name \in Name, DispatcherAssumption
    PROVE  Resolved(name) \in Name
BY DEF Resolved, DispatcherAssumption

LEMMA ValidatedOrderable ==
    ASSUME NEW menu \in MenuName, NEW options \in Seq(Option), NEW q,
           AllApplicable(menu, options)
    PROVE  Orderable([menu |-> menu, quantity |-> q, options |-> Bag(options)])
<1> DEFINE line == [menu |-> menu, quantity |-> q, options |-> Bag(options)]
<1>1. line.menu = menu /\ line.options = Bag(options)
  OBVIOUS
<1>2. ASSUME NEW o \in Option, Bag(options)[o] > 0
      PROVE  /\ o \in OptionName
             /\ MenuCategory[menu] \in Applicable[OptionCategory[o]]
  <2>1. PICK i \in DOMAIN options : options[i] = o
    BY <1>2, BagProperties
  <2> QED
    BY <2>1 DEF AllApplicable, is_option_applicable
<1> HIDE DEF line
<1> QED
  BY <1>1, <1>2 DEF Orderable, line

-----------------------------------------------------------------------------
(* The lines after each method of the cart *)

LEMMA AddOrderable ==
    ASSUME CartInv, LinesOrderable,
           NEW menu \in MenuName, NEW quantity \in Int, NEW options \in Seq(Option),
           AllApplicable(menu, options), CartAdd(menu, quantity, Bag(options))
    PROVE  AllOrderable(items')
<1>1. items \in Seq(Line) /\ AllOrderable(items)
  BY DEF CartInv, WellFormed, LinesOrderable, AllOrderable
<1>2. ASSUME NEW i \in DOMAIN items, NEW q,
             items' = [items EXCEPT ![i].quantity = q]
      PROVE  AllOrderable(items')
  <2>1. DOMAIN items' = DOMAIN items
    BY <1>2
  <2>2. \A j \in DOMAIN items : items'[j].menu = items[j].menu
                             /\ items'[j].options = items[j].options
    BY <1>1, <1>2, ElementOfSeq DEF Line
  <2> QED
    BY <1>1, <2>1, <2>2 DEF AllOrderable, Orderable
<1>3. ASSUME items' = Append(items, [menu |-> menu, quantity |-> quantity,
                                     options |-> Bag(options)])
      PROVE  AllOrderable(items')
  <2> DEFINE line == [menu |-> menu, quantity |-> quantity, options |-> Bag(options)]
  <2>1. Orderable(line)
    BY ValidatedOrderable
  <2> HIDE DEF line
  <2>2. items' = Append(items, line) /\ Len(items) \in Nat
    BY <1>1, <1>3, LenProperties DEF line
  <2>3. DOMAIN items' = 1 .. Len(items) + 1
    BY <1>1, <2>2
  <2>4. \A i \in 1 .. Len(items) + 1 :
           items'[i] = IF i = Len(items) + 1 THEN line ELSE items[i]
    BY <1>1, <2>2
  <2>5. \A i \in 1 .. Len(items) + 1 : i = Len(items) + 1 \/ i \in DOMAIN items
    BY <1>1, <2>2
  <2> QED
    BY <1>1, <2>1, <2>3, <2>4, <2>5, Zenon DEF AllOrderable
<1> QED
  BY <1>2, <1>3 DEF CartAdd, First

LEMMA RemovedLines ==
    ASSUME NEW S, NEW s \in Seq(S), NEW i \in 1 .. Len(s)
    PROVE  /\ RemoveAt(s, i) \in Seq(S)
           /\ Len(s) \in Nat
           /\ Len(RemoveAt(s, i)) = Len(s) - 1
           /\ \A n \in 1 .. Len(s) - 1 :
                RemoveAt(s, i)[n] = IF n < i THEN s[n] ELSE s[n + 1]
<1> DEFINE a == SubSeq(s, 1, i - 1)
           b == SubSeq(s, i + 1, Len(s))
<1>1. Len(s) \in Nat
  BY LenProperties
<1>2. /\ a \in Seq(S) /\ Len(a) = i - 1
      /\ \A j \in 1 .. i - 1 : a[j] = s[j]
  <2>1. /\ 1 \in 1 .. Len(s) + 1
        /\ i - 1 \in 1 - 1 .. Len(s)
        /\ (i - 1) - 1 + 1 = i - 1
        /\ \A j \in 1 .. i - 1 : 1 + j - 1 = j
    BY <1>1
  <2>2. /\ a \in Seq(S) /\ Len(a) = (i - 1) - 1 + 1
        /\ \A j \in 1 .. (i - 1) - 1 + 1 : a[j] = s[1 + j - 1]
    BY <2>1, Slice
  <2> QED
    BY <2>1, <2>2
<1>3. /\ b \in Seq(S) /\ Len(b) = Len(s) - i
      /\ \A j \in 1 .. Len(s) - i : b[j] = s[i + j]
  <2>1. /\ i + 1 \in 1 .. Len(s) + 1
        /\ Len(s) \in (i + 1) - 1 .. Len(s)
        /\ Len(s) - (i + 1) + 1 = Len(s) - i
        /\ \A j \in 1 .. Len(s) - i : i + 1 + j - 1 = i + j
    BY <1>1
  <2>2. /\ b \in Seq(S) /\ Len(b) = Len(s) - (i + 1) + 1
        /\ \A j \in 1 .. Len(s) - (i + 1) + 1 : b[j] = s[i + 1 + j - 1]
    BY <2>1, Slice
  <2> QED
    BY <2>1, <2>2
<1>4. RemoveAt(s, i) = a \o b
  BY DEF RemoveAt
<1> HIDE DEF a, b
<1>5. /\ a \o b \in Seq(S) /\ Len(a \o b) = Len(s) - 1
      /\ \A j \in 1 .. Len(s) - 1 : (a \o b)[j] = IF j <= Len(a) THEN a[j] ELSE b[j - Len(a)]
  <2>1. /\ a \o b \in Seq(S) /\ Len(a \o b) = Len(a) + Len(b)
        /\ \A j \in 1 .. Len(a) + Len(b) :
             (a \o b)[j] = IF j <= Len(a) THEN a[j] ELSE b[j - Len(a)]
    BY <1>2, <1>3, ConcatProperties
  <2>2. Len(a) + Len(b) = Len(s) - 1
    BY <1>1, <1>2, <1>3
  <2> QED
    BY <2>1, <2>2
<1>6. ASSUME NEW n \in 1 .. Len(s) - 1
      PROVE  (a \o b)[n] = IF n < i THEN s[n] ELSE s[n + 1]
  <2>1. CASE n < i
    <3>1. n \in 1 .. i - 1 /\ n <= Len(a)
      BY <1>2, <2>1
    <3> QED
      BY <1>2, <1>5, <2>1, <3>1
  <2>2. CASE ~(n < i)
    <3>1. PICK k \in Int : k = n - (i - 1)
      OBVIOUS
    <3>2. k \in 1 .. Len(s) - i /\ i + k = n + 1 /\ n - Len(a) = k /\ ~(n <= Len(a))
      BY <1>1, <1>2, <2>2, <3>1
    <3>3. (a \o b)[n] = b[k] /\ b[k] = s[i + k]
      BY <1>3, <1>5, <3>2
    <3> QED
      BY <2>2, <3>2, <3>3
  <2> QED
    BY <2>1, <2>2
<1> QED
  BY <1>1, <1>4, <1>5, <1>6

LEMMA RemoveOrderable ==
    ASSUME CartInv, LinesOrderable, NEW menu, NEW quantity \in Int,
           CartRemove(menu, quantity)
    PROVE  AllOrderable(items')
<1>1. items \in Seq(Line) /\ AllOrderable(items) /\ Len(items) \in Nat
  BY LenProperties DEF CartInv, WellFormed, LinesOrderable, AllOrderable
<1>2. CASE items' = <<>>
  BY <1>2 DEF AllOrderable
<1>3. CASE items' = items
  BY <1>1, <1>3
<1>4. ASSUME NEW i \in DOMAIN items, items' = RemoveAt(items, i)
      PROVE  AllOrderable(items')
  <2>1. i \in 1 .. Len(items)
    BY <1>1
  <2>2. /\ items' \in Seq(Line) /\ Len(items') = Len(items) - 1
        /\ \A n \in 1 .. Len(items) - 1 :
             items'[n] = IF n < i THEN items[n] ELSE items[n + 1]
    BY <1>1, <1>4, <2>1, RemovedLines
  <2>3. DOMAIN items' = 1 .. Len(items) - 1
    BY <2>2, LenProperties
  <2>4. \A n \in DOMAIN items' : \E k \in DOMAIN items : items'[n] = items[k]
    <3> SUFFICES ASSUME NEW n \in 1 .. Len(items) - 1
                 PROVE  \E k \in DOMAIN items : items'[n] = items[k]
      BY <2>3
    <3>1. n \in DOMAIN items /\ n + 1 \in DOMAIN items
      BY <1>1
    <3>2. items'[n] = items[n] \/ items'[n] = items[n + 1]
      BY <2>2
    <3> QED
      BY <3>1, <3>2
  <2> QED
    BY <1>1, <2>4 DEF AllOrderable
<1>5. ASSUME NEW i \in DOMAIN items, NEW q,
             items' = [items EXCEPT ![i].quantity = q]
      PROVE  AllOrderable(items')
  <2>1. DOMAIN items' = DOMAIN items
    BY <1>5
  <2>2. \A j \in DOMAIN items : items'[j].menu = items[j].menu
                             /\ items'[j].options = items[j].options
    BY <1>1, <1>5, ElementOfSeq DEF Line
  <2> QED
    BY <1>1, <2>1, <2>2 DEF AllOrderable, Orderable
<1> QED
  BY <1>2, <1>3, <1>4, <1>5 DEF CartRemove, Emptied, NotInCart, FirstLine, First

LEMMA RewriteOrderable ==
    ASSUME CartInv, LinesOrderable,
           NEW i \in DOMAIN items, NEW line \in Line, Orderable(line),
           items' = [items EXCEPT ![i] = line]
    PROVE  AllOrderable(items')
<1>1. DOMAIN items' = DOMAIN items
  OBVIOUS
<1>2. \A j \in DOMAIN items : items'[j] = IF j = i THEN line ELSE items[j]
  OBVIOUS
<1> QED
  BY <1>1, <1>2 DEF AllOrderable, LinesOrderable

LEMMA RewrittenLine ==
    ASSUME NEW line \in Line, NEW menu \in Name, NEW bag \in OptionBag
    PROVE  [line EXCEPT !.menu = menu, !.options = bag]
             = [menu |-> menu, quantity |-> line.quantity, options |-> bag]
<1> DEFINE moved == [line EXCEPT !.menu = menu]
<1>1. moved \in Line /\ moved.menu = menu /\ moved.quantity = line.quantity
  BY DEF Line
<1>2. ASSUME NEW l \in Line
      PROVE  [l EXCEPT !.options = bag]
               = [menu |-> l.menu, quantity |-> l.quantity, options |-> bag]
  BY DEF Line
<1> HIDE DEF moved
<1>3. [moved EXCEPT !.options = bag]
        = [menu |-> menu, quantity |-> line.quantity, options |-> bag]
  BY <1>1, <1>2
<1> QED
  BY <1>3 DEF moved

LEMMA ReplaceOrderable ==
    ASSUME CartInv, LinesOrderable,
           NEW from, NEW to \in MenuName, to \in Name, NEW options \in Seq(Option),
           AllApplicable(to, options), CartReplace(from, to, Bag(options))
    PROVE  AllOrderable(items')
<1>1. items \in Seq(Line) /\ AllOrderable(items)
  BY DEF CartInv, WellFormed, LinesOrderable, AllOrderable
<1>2. ASSUME NEW i \in DOMAIN items,
             items' = [items EXCEPT ![i].menu = to, ![i].options = Bag(options)]
      PROVE  AllOrderable(items')
  <2> DEFINE line == [menu |-> to, quantity |-> items[i].quantity,
                      options |-> Bag(options)]
  <2>1. items[i] \in Line
    BY <1>1, ElementOfSeq
  <2>2. line \in Line
    BY <2>1, BagProperties DEF Line
  <2>3. Orderable(line)
    BY ValidatedOrderable
  <2>4. [items[i] EXCEPT !.menu = to, !.options = Bag(options)] = line
    BY <2>1, BagProperties, RewrittenLine
  <2>5. items' = [items EXCEPT ![i] = line]
    BY <1>2, <2>4
  <2> HIDE DEF line
  <2> QED
    BY <2>2, <2>3, <2>5, RewriteOrderable
<1>3. CASE items' = items
  BY <1>1, <1>3
<1> QED
  BY <1>2, <1>3 DEF CartReplace, NotInCart, FirstLine, First

\* The options of the changed line are a merge with what the line had, or none.
LEMMA ChangeOptionOrderable ==
    ASSUME CartInv, LinesOrderable, NEW menu, NEW options \in Seq(Option),
           menu \in MenuName => AllApplicable(menu, options),
           NEW k \in FirstLine(menu),
           CartChangeOption(menu, IF options = <<>> THEN Bag(<<>>)
                                  ELSE Merged(items[k].options, options))
    PROVE  AllOrderable(items')
<1> DEFINE bag == IF options = <<>> THEN Bag(<<>>) ELSE Merged(items[k].options, options)
<1>1. items \in Seq(Line) /\ AllOrderable(items)
  BY DEF CartInv, WellFormed, LinesOrderable, AllOrderable
<1>2. k \in DOMAIN items /\ items[k] \in Line /\ items[k].menu = menu
  BY <1>1, ElementOfSeq DEF FirstLine, First
<1>3. /\ bag \in OptionBag
      /\ \A o \in Option : bag[o] > 0
           => items[k].options[o] > 0 \/ \E i \in DOMAIN options : options[i] = o
  <2>1. CASE options = <<>>
    <3>1. <<>> \in Seq(Option)
      BY EmptySeq
    <3>2. /\ Bag(<<>>) \in OptionBag
          /\ \A o \in Option : Bag(<<>>)[o] > 0 => \E i \in DOMAIN options : options[i] = o
      BY <2>1, <3>1, BagProperties
    <3> QED
      BY <2>1, <3>2
  <2>2. CASE options # <<>>
    <3>1. items[k].options \in OptionBag
      BY <1>2 DEF Line
    <3> QED
      BY <2>2, <3>1, MergedProperties
  <2> QED
    BY <2>1, <2>2
<1>4. Orderable(items[k]) /\ menu \in MenuName
  BY <1>1, <1>2 DEF AllOrderable, Orderable
<1> HIDE DEF bag
<1>5. ASSUME NEW i \in FirstLine(menu), items' = [items EXCEPT ![i].options = bag]
      PROVE  AllOrderable(items')
  <2> DEFINE line == [menu |-> menu, quantity |-> items[k].quantity, options |-> bag]
  <2>1. i = k
    BY <1>1, <1>2, <1>5 DEF FirstLine, First
  <2>2. line \in Line
    BY <1>2, <1>3 DEF Line
  <2>3. Orderable(line)
    <3>1. line.menu = menu /\ line.options = bag
      OBVIOUS
    <3>2. ASSUME NEW o \in Option, bag[o] > 0
          PROVE  /\ o \in OptionName
                 /\ MenuCategory[menu] \in Applicable[OptionCategory[o]]
      <4>1. CASE items[k].options[o] > 0
        BY <1>2, <1>4, <4>1 DEF Orderable
      <4>2. CASE \E j \in DOMAIN options : options[j] = o
        BY <1>4, <4>2 DEF AllApplicable, is_option_applicable
      <4> QED
        BY <1>3, <3>2, <4>1, <4>2
    <3> HIDE DEF line
    <3> QED
      BY <1>4, <3>1, <3>2 DEF Orderable
  <2>4. [items[k] EXCEPT !.options = bag] = line
    BY <1>2 DEF Line
  <2>5. items' = [items EXCEPT ![k] = line]
    BY <1>5, <2>1, <2>4
  <2> HIDE DEF line
  <2> QED
    BY <1>2, <2>2, <2>3, <2>5, RewriteOrderable
<1>6. CASE items' = items
  BY <1>1, <1>6
<1> QED
  BY <1>5, <1>6 DEF CartChangeOption, NotInCart, bag

-----------------------------------------------------------------------------
(* The carts in the events *)

\* The cart and every cart an undo can bring back are in G.
Holding(G) == items \in G /\ \A e \in DOMAIN history : history[e].before \in G

LEMMA RecordedHolding ==
    ASSUME NEW G, CartInv, CartAssumption, Holding(G), Recorded, items' \in G
    PROVE  Holding(G)'
<1>1. PICK action \in EventAction : Record(action)
  BY DEF Recorded
<1> DEFINE event == [action |-> action, before |-> items, after |-> items']
           h == Append(history, event)
<1>2. /\ items \in Seq(Line) /\ items' \in Seq(Line)
      /\ history \in Seq(Event) /\ Len(history) \in Nat
      /\ HistoryLimit \in Nat \ {0}
  BY LenProperties DEF CartInv, WellFormed, Recorded, CartAssumption
<1>3. event \in Event /\ event.before = items
  BY <1>2 DEF Event
<1>4. history' = Trimmed(h)
  BY <1>1 DEF Record
<1> HIDE DEF event
<1>5. /\ h \in Seq(Event) /\ h # <<>> /\ Len(h) = Len(history) + 1
      /\ \A i \in 1 .. Len(history) : h[i] = history[i]
      /\ h[Len(history) + 1] = event
  BY <1>2, <1>3, AppendProperties
<1>6. \A i \in 1 .. Len(h) : h[i].before \in G
  <2>1. \A i \in 1 .. Len(history) : history[i].before \in G
    BY <1>2 DEF Holding
  <2>2. items \in G
    BY DEF Holding
  <2>3. \A i \in 1 .. Len(h) : i \in 1 .. Len(history) \/ i = Len(history) + 1
    BY <1>2, <1>5
  <2> QED
    BY <1>3, <1>5, <2>1, <2>2, <2>3, Zenon
<1> HIDE DEF h
<1>7. PICK k \in Nat : /\ Len(h) = Len(Trimmed(h)) + k
                       /\ \A i \in 1 .. Len(Trimmed(h)) : Trimmed(h)[i] = h[i + k]
  BY <1>2, <1>5, TrimmedProperties
<1>8. Trimmed(h) \in Seq(Event) /\ Len(Trimmed(h)) \in Nat
  BY <1>2, <1>5, TrimmedProperties, LenProperties
<1>9. \A i \in DOMAIN history' : history'[i].before \in G
  <2>1. \A i \in 1 .. Len(Trimmed(h)) : i + k \in 1 .. Len(h)
    BY <1>7, <1>8
  <2>2. DOMAIN history' = 1 .. Len(Trimmed(h))
    BY <1>4, <1>8, LenProperties
  <2> SUFFICES ASSUME NEW i \in 1 .. Len(Trimmed(h))
               PROVE  history'[i].before \in G
    BY <2>2
  <2>3. history'[i] = h[i + k]
    BY <1>4, <1>7
  <2>4. h[i + k].before \in G
    BY <1>6, <2>1
  <2> QED
    BY <2>3, <2>4
<1> QED
  BY <1>9 DEF Holding

LEMMA UndoneHolding ==
    ASSUME NEW G, CartInv, Holding(G), Undone
    PROVE  Holding(G)'
<1>1. history \in Seq(Event) /\ history # <<>> /\ Len(history) \in Nat \ {0}
  BY EmptySeq, LenProperties DEF CartInv, WellFormed, Undone
<1>2. \A i \in 1 .. Len(history) : history[i].before \in G
  BY <1>1 DEF Holding
<1>3. items' \in G
  BY <1>1, <1>2 DEF Undone, Last
<1>4. /\ DOMAIN history' = 1 .. Len(history) - 1
      /\ \A i \in 1 .. Len(history) - 1 : history'[i] = history[i]
  BY <1>1, FrontProperties, LenProperties DEF Undone
<1>5. \A i \in DOMAIN history' : history'[i].before \in G
  BY <1>1, <1>2, <1>4
<1> QED
  BY <1>3, <1>5 DEF Holding

OrderableCarts == {s \in Seq(Line) : AllOrderable(s)}

LEMMA HoldingOrderable ==
    ASSUME WellFormed
    PROVE  LinesOrderable <=> Holding(OrderableCarts)
<1>1. items \in Seq(Line) /\ \A e \in DOMAIN history : history[e].before \in Seq(Line)
  <2>1. history \in Seq(Event) /\ items \in Seq(Line)
    BY DEF WellFormed
  <2>2. \A e \in DOMAIN history : history[e] \in Event
    BY <2>1, ElementOfSeq
  <2>3. \A event \in Event : event.before \in Seq(Line)
    BY DEF Event
  <2> QED
    BY <2>1, <2>2, <2>3
<1> QED
  BY <1>1 DEF LinesOrderable, Holding, OrderableCarts, AllOrderable

LEMMA RecordedOrderable ==
    ASSUME CartInv, CartAssumption, LinesOrderable, Recorded, AllOrderable(items')
    PROVE  LinesOrderable'
<1>1. items' \in OrderableCarts
  BY DEF Recorded, OrderableCarts
<1>2. Holding(OrderableCarts)'
  BY <1>1, HoldingOrderable, RecordedHolding DEF CartInv
<1> QED
  BY <1>2 DEF LinesOrderable, Holding, OrderableCarts, AllOrderable

LEMMA UndoneOrderable ==
    ASSUME CartInv, LinesOrderable, Undone
    PROVE  LinesOrderable'
<1>1. Holding(OrderableCarts)'
  BY HoldingOrderable, UndoneHolding DEF CartInv
<1> QED
  BY <1>1 DEF LinesOrderable, Holding, OrderableCarts, AllOrderable

-----------------------------------------------------------------------------
(* The handlers *)

\* What every handler's step is: one of the cart's shapes, orderable lines
\* when it changes them, and a known answer.
Handled ==
    /\ Shaped
    /\ Recorded => AllOrderable(items')
    /\ reply' \in DispatcherStatus

LEMMA AnswerHandled ==
    ASSUME CartInv, LinesOrderable, NEW status \in DispatcherStatus, Answer(status)
    PROVE  Handled
BY DEF Answer, Handled, Shaped, Untouched, AllOrderable, LinesOrderable

LEMMA AddMenuHandled ==
    ASSUME CartInv, LinesOrderable, DispatcherAssumption,
           NEW name \in Name, NEW quantity, NEW options \in Seq(Option),
           quantity # NotANumber => quantity \in Int,
           AddMenu(name, quantity, options)
    PROVE  Handled
<1> DEFINE menu == Resolved(name)
<1>1. CASE Answer("RAISED")
  BY <1>1, AnswerHandled DEF DispatcherStatus
<1>2. CASE Answer(IF menu \in FamilyName THEN "AMBIGUOUS_MENU" ELSE "INVALID_MENU")
  BY <1>2, AnswerHandled DEF DispatcherStatus
<1>3. CASE Answer("INVALID_OPTION")
  BY <1>3, AnswerHandled DEF DispatcherStatus
<1>4. CASE Answer(StockRefusal(menu))
  BY <1>4, AnswerHandled DEF DispatcherStatus, StockRefusal
<1>5. CASE /\ quantity # NotANumber
           /\ is_valid_menu(menu)
           /\ AllApplicable(menu, options)
           /\ CartAdd(menu, quantity, Bag(options))
  <2>1. /\ menu \in MenuName /\ menu \in Name
        /\ quantity \in Int
        /\ Bag(options) \in OptionBag
    BY <1>5, BagProperties DEF is_valid_menu, DispatcherAssumption
  <2>2. Recorded /\ reply' \in CartStatus
    BY <1>5, <2>1, AddRecords DEF CartInv
  <2>3. AllOrderable(items')
    BY <1>5, <2>1, AddOrderable
  <2> QED
    BY <2>2, <2>3 DEF Handled, Shaped, DispatcherStatus
<1> QED
  BY <1>1, <1>2, <1>3, <1>4, <1>5 DEF AddMenu

LEMMA RemoveMenuHandled ==
    ASSUME CartInv, LinesOrderable, DispatcherAssumption,
           NEW name \in Name, NEW quantity,
           quantity # NotANumber => quantity \in Int,
           RemoveMenu(name, quantity)
    PROVE  Handled
<1> DEFINE menu == Resolved(name)
<1>1. CASE Answer("RAISED")
  BY <1>1, AnswerHandled DEF DispatcherStatus
<1>2. CASE Answer("MENU_NOT_IN_CART")
  BY <1>2, AnswerHandled DEF DispatcherStatus, CartStatus
<1>3. CASE /\ quantity # NotANumber
           /\ menu = "ALL" \/ is_valid_menu(menu)
           /\ CartRemove(menu, quantity)
  <2>1. menu \in Name \cup {"ALL"} /\ quantity \in Int
    BY <1>3 DEF is_valid_menu, DispatcherAssumption
  <2>2. (Recorded \/ Untouched) /\ reply' \in CartStatus
    BY <1>3, <2>1, RemoveRecords DEF CartInv
  <2>3. AllOrderable(items')
    BY <1>3, <2>1, RemoveOrderable
  <2> QED
    BY <2>2, <2>3 DEF Handled, Shaped, DispatcherStatus
<1> QED
  BY <1>1, <1>2, <1>3 DEF RemoveMenu

LEMMA ReplaceMenuHandled ==
    ASSUME CartInv, LinesOrderable, DispatcherAssumption,
           NEW fromName \in Name, NEW toName \in Name, NEW options \in Seq(Option),
           ReplaceMenu(fromName, toName, options)
    PROVE  Handled
<1> DEFINE from == Resolved(fromName)
           to == Resolved(toName)
<1>1. CASE Answer("INVALID_MENU")
  BY <1>1, AnswerHandled DEF DispatcherStatus
<1>2. CASE Answer("INVALID_OPTION")
  BY <1>2, AnswerHandled DEF DispatcherStatus
<1>3. CASE Answer(StockRefusal(to))
  BY <1>3, AnswerHandled DEF DispatcherStatus, StockRefusal
<1>4. CASE /\ is_valid_menu(to)
           /\ AllApplicable(to, options)
           /\ CartReplace(from, to, Bag(options))
  <2>1. /\ from \in Name /\ to \in Name /\ to \in MenuName
        /\ Bag(options) \in OptionBag
    BY <1>4, BagProperties, ResolvedName DEF is_valid_menu
  <2>2. (Recorded \/ Untouched) /\ reply' \in CartStatus
    BY <1>4, <2>1, ReplaceRecords DEF CartInv
  <2>3. AllOrderable(items')
    BY <1>4, <2>1, ReplaceOrderable
  <2> QED
    BY <2>2, <2>3 DEF Handled, Shaped, DispatcherStatus
<1> QED
  BY <1>1, <1>2, <1>3, <1>4 DEF ReplaceMenu

LEMMA ChangeOptionHandled ==
    ASSUME CartInv, LinesOrderable, DispatcherAssumption,
           1 # NotANumber => 1 \in Int,
           NEW name \in Name, NEW options \in Seq(Option),
           ChangeOption(name, options)
    PROVE  Handled
<1> DEFINE menu == Resolved(name)
           bag(i) == IF options = <<>> THEN Bag(<<>>)
                     ELSE Merged(items[i].options, options)
<1>0. menu \in Name
  BY ResolvedName
<1>1. CASE Answer("INVALID_OPTION")
  BY <1>1, AnswerHandled DEF DispatcherStatus
<1>2. CASE AddMenu(menu, 1, options)
  BY <1>0, <1>2, AddMenuHandled
<1>3. ASSUME NEW i \in FirstLine(menu),
             is_valid_menu(menu) => AllApplicable(menu, options),
             CartChangeOption(menu, bag(i))
      PROVE  Handled
  <2>1. bag(i) \in OptionBag
    <3>1. items[i] \in Line
      BY ElementOfSeq DEF FirstLine, First, CartInv, WellFormed
    <3>2. items[i].options \in OptionBag /\ <<>> \in Seq(Option)
      BY <3>1, EmptySeq DEF Line
    <3> QED
      BY <3>2, BagProperties, MergedProperties
  <2>2. (Recorded \/ Untouched) /\ reply' \in CartStatus
    BY <1>0, <1>3, <2>1, ChangeOptionRecords DEF CartInv
  <2>3. AllOrderable(items')
    BY <1>3, ChangeOptionOrderable DEF is_valid_menu
  <2> QED
    BY <2>2, <2>3 DEF Handled, Shaped, DispatcherStatus
<1> QED
  BY <1>1, <1>2, <1>3 DEF ChangeOption

LEMMA HandledKeeps ==
    ASSUME CartInv, LinesOrderable, Handled \/ CartUndo
    PROVE  Shaped /\ LinesOrderable'
<1>1. (Handled /\ Shaped) \/ Undone \/ Untouched
  BY UndoUndoes DEF Handled
<1>2. Untouched => LinesOrderable'
  BY DEF Untouched, LinesOrderable
<1> QED
  BY <1>1, <1>2, UndoneOrderable, RecordedOrderable, CartAssumption DEF Handled, Shaped

LEMMA StepHandled ==
    ASSUME CartInv, LinesOrderable, DispatcherAssumption, DispatcherNext
    PROVE  Shaped /\ LinesOrderable' /\ reply' \in DispatcherStatus
<1>1. OptionList \subseteq Seq(Option)
  BY DEF DispatcherAssumption
<1>2. ASSUME NEW name \in Name, NEW quantity \in AddQuantity, NEW options \in OptionList,
             AddMenu(name, quantity, options)
      PROVE  Handled
  BY <1>1, <1>2, AddMenuHandled DEF DispatcherAssumption
<1>3. ASSUME NEW name \in Name, NEW quantity \in RemoveQuantity,
             RemoveMenu(name, quantity)
      PROVE  Handled
  BY <1>3, RemoveMenuHandled DEF DispatcherAssumption
<1>4. ASSUME NEW from \in Name, NEW to \in Name, NEW options \in OptionList,
             ReplaceMenu(from, to, options)
      PROVE  Handled
  BY <1>1, <1>4, ReplaceMenuHandled
<1>5. ASSUME NEW name \in Name, NEW options \in OptionList,
             ChangeOption(name, options)
      PROVE  Handled
  BY <1>1, <1>5, ChangeOptionHandled
<1>6. ASSUME CheckCart \/ InquireMenuInfo \/ Done \/ UnknownTool
      PROVE  Handled
  BY <1>6, AnswerHandled
     DEF CheckCart, InquireMenuInfo, Done, UnknownTool, DispatcherStatus
<1>7. Handled \/ CartUndo
  BY <1>2, <1>3, <1>4, <1>5, <1>6, Zenon DEF DispatcherNext
<1>8. ASSUME CartUndo PROVE reply' \in DispatcherStatus
  BY <1>8, UndoUndoes DEF DispatcherStatus
<1> QED
  BY <1>7, <1>8, HandledKeeps DEF Handled

-----------------------------------------------------------------------------
(* How many of a menu a list of lines holds *)

Share(line, menu) == IF line.menu = menu THEN line.quantity ELSE 0

Shares(lines, menu) == [i \in DOMAIN lines |-> Share(lines[i], menu)]

LEMMA ShareType ==
    ASSUME NEW line \in Line, NEW menu
    PROVE  Share(line, menu) \in Int
BY DEF Share, Line

LEMMA SharesProperties ==
    ASSUME NEW lines \in Seq(Line), NEW menu
    PROVE  /\ Shares(lines, menu) \in Seq(Int)
           /\ Len(lines) \in Nat
           /\ DOMAIN lines = 1 .. Len(lines)
           /\ Len(Shares(lines, menu)) = Len(lines)
           /\ \A i \in 1 .. Len(lines) : /\ lines[i] \in Line
                                         /\ Shares(lines, menu)[i] = Share(lines[i], menu)
           /\ Pieces(lines, menu) = Total(Shares(lines, menu))
<1>1. Len(lines) \in Nat /\ DOMAIN lines = 1 .. Len(lines)
  BY LenProperties
<1>2. \A i \in 1 .. Len(lines) : lines[i] \in Line
  BY ElementOfSeq
<1>3. \A line \in Line : Share(line, menu) \in Int
  BY ShareType
<1>4. Shares(lines, menu) = [i \in 1 .. Len(lines) |-> Share(lines[i], menu)]
  BY <1>1 DEF Shares
<1>5. Shares(lines, menu) \in [1 .. Len(lines) -> Int]
  BY <1>2, <1>3, <1>4
<1>6. Shares(lines, menu) \in Seq(Int) /\ Len(Shares(lines, menu)) = Len(lines)
  BY <1>1, <1>5, FunctionIsSeq
<1>7. Pieces(lines, menu) = Total(Shares(lines, menu))
  BY DEF Pieces, Shares, Share
<1> QED
  BY <1>1, <1>2, <1>4, <1>6, <1>7

LEMMA PiecesType ==
    ASSUME NEW lines \in Seq(Line), NEW menu
    PROVE  Pieces(lines, menu) \in Int
<1>1. PICK shares \in Seq(Int) : shares = Shares(lines, menu)
  BY SharesProperties
<1>2. Total(shares) \in Int /\ Pieces(lines, menu) = Total(shares)
  BY <1>1, SharesProperties, TotalAppend
<1> QED
  BY <1>2

LEMMA NoPieces ==
    ASSUME NEW menu
    PROVE  Pieces(<<>>, menu) = 0
<1>1. <<>> \in Seq(Line) /\ Len(<<>>) = 0
  BY EmptySeq
<1>2. Shares(<<>>, menu) = <<>>
  <2>1. Shares(<<>>, menu) \in Seq(Int) /\ Len(Shares(<<>>, menu)) = 0
    BY <1>1, SharesProperties
  <2> QED
    BY <2>1, EmptySeq
<1> QED
  BY <1>1, <1>2, SharesProperties, TotalEmpty

LEMMA AppendedPieces ==
    ASSUME NEW lines \in Seq(Line), NEW line \in Line, NEW menu
    PROVE  /\ Pieces(lines, menu) \in Int /\ Share(line, menu) \in Int
           /\ Pieces(Append(lines, line), menu) = Pieces(lines, menu) + Share(line, menu)
<1> DEFINE s == Shares(lines, menu)
           x == Share(line, menu)
           longer == Append(lines, line)
<1>1. s \in Seq(Int) /\ Pieces(lines, menu) = Total(s) /\ x \in Int
  BY SharesProperties, ShareType
<1>2. Shares(longer, menu) = Append(s, x)
  <2>1. /\ longer \in Seq(Line) /\ Len(longer) = Len(lines) + 1
        /\ \A i \in 1 .. Len(lines) : longer[i] = lines[i]
        /\ longer[Len(lines) + 1] = line
    BY AppendProperties
  <2>2. /\ Append(s, x) \in Seq(Int) /\ Len(Append(s, x)) = Len(s) + 1
        /\ \A i \in 1 .. Len(s) : Append(s, x)[i] = s[i]
        /\ Append(s, x)[Len(s) + 1] = x
    BY <1>1, AppendProperties
  <2>3. /\ Len(s) = Len(lines) /\ Len(lines) \in Nat
        /\ \A i \in 1 .. Len(lines) : s[i] = Share(lines[i], menu)
    BY SharesProperties
  <2> HIDE DEF longer, s, x
  <2>4. /\ Shares(longer, menu) \in Seq(Int) /\ Len(Shares(longer, menu)) = Len(lines) + 1
        /\ \A i \in 1 .. Len(longer) : Shares(longer, menu)[i] = Share(longer[i], menu)
    BY <2>1, SharesProperties
  <2>5. ASSUME NEW i \in 1 .. Len(lines) + 1
        PROVE  Shares(longer, menu)[i] = Append(s, x)[i]
    <3>1. Shares(longer, menu)[i] = Share(longer[i], menu)
      BY <2>1, <2>4
    <3>2. CASE i = Len(lines) + 1
      BY <2>1, <2>2, <2>3, <3>1, <3>2 DEF x
    <3>3. CASE i \in 1 .. Len(lines)
      BY <2>1, <2>2, <2>3, <3>1, <3>3
    <3> QED
      BY <2>3, <3>2, <3>3
  <2> QED
    BY <2>2, <2>3, <2>4, <2>5, SeqEqual
<1>3. longer \in Seq(Line)
  BY AppendProperties
<1>4. Pieces(longer, menu) = Total(Append(s, x))
  BY <1>2, <1>3, SharesProperties
<1> HIDE DEF s, x, longer
<1>5. Total(s) \in Int /\ Total(Append(s, x)) = Total(s) + x
  BY <1>1, TotalAppend
<1> QED
  BY <1>1, <1>4, <1>5 DEF x, longer

LEMMA RewrittenPieces ==
    ASSUME NEW lines \in Seq(Line), NEW i \in 1 .. Len(lines), NEW line \in Line, NEW menu
    PROVE  /\ Pieces(lines, menu) \in Int
           /\ Share(lines[i], menu) \in Int /\ Share(line, menu) \in Int
           /\ Pieces([lines EXCEPT ![i] = line], menu)
                = Pieces(lines, menu) - Share(lines[i], menu) + Share(line, menu)
<1> DEFINE s == Shares(lines, menu)
           x == Share(line, menu)
           other == [lines EXCEPT ![i] = line]
<1>1. /\ s \in Seq(Int) /\ Pieces(lines, menu) = Total(s) /\ x \in Int
      /\ Len(s) = Len(lines) /\ Len(lines) \in Nat
      /\ \A j \in 1 .. Len(lines) : s[j] = Share(lines[j], menu)
  BY SharesProperties, ShareType
<1>2. /\ other \in Seq(Line) /\ Len(other) = Len(lines)
      /\ \A j \in 1 .. Len(lines) : other[j] = IF j = i THEN line ELSE lines[j]
  BY ExceptSeq
<1>3. Shares(other, menu) = [s EXCEPT ![i] = x]
  <2>1. /\ [s EXCEPT ![i] = x] \in Seq(Int) /\ Len([s EXCEPT ![i] = x]) = Len(s)
        /\ \A j \in 1 .. Len(s) : [s EXCEPT ![i] = x][j] = IF j = i THEN x ELSE s[j]
    BY <1>1, ExceptSeq
  <2> HIDE DEF other, s, x
  <2>2. /\ Shares(other, menu) \in Seq(Int) /\ Len(Shares(other, menu)) = Len(lines)
        /\ \A j \in 1 .. Len(lines) : Shares(other, menu)[j] = Share(other[j], menu)
    BY <1>2, SharesProperties
  <2>3. ASSUME NEW j \in 1 .. Len(lines)
        PROVE  Shares(other, menu)[j] = [s EXCEPT ![i] = x][j]
    <3>1. CASE j = i
      BY <1>1, <1>2, <2>1, <2>2, <3>1 DEF x
    <3>2. CASE j # i
      BY <1>1, <1>2, <2>1, <2>2, <3>2
    <3> QED
      BY <3>1, <3>2
  <2> QED
    BY <1>1, <2>1, <2>2, <2>3, SeqEqual
<1>4. Pieces(other, menu) = Total([s EXCEPT ![i] = x])
  BY <1>2, <1>3, SharesProperties
<1> HIDE DEF s, x, other
<1>5. /\ Total(s) \in Int /\ s[i] \in Int
      /\ Total([s EXCEPT ![i] = x]) = Total(s) - s[i] + x
  BY <1>1, TotalExcept
<1> QED
  BY <1>1, <1>4, <1>5 DEF x, other

LEMMA RemovedPieces ==
    ASSUME NEW lines \in Seq(Line), NEW i \in 1 .. Len(lines), NEW menu
    PROVE  /\ Pieces(lines, menu) \in Int /\ Share(lines[i], menu) \in Int
           /\ Pieces(RemoveAt(lines, i), menu) = Pieces(lines, menu) - Share(lines[i], menu)
<1> DEFINE s == Shares(lines, menu)
           rest == RemoveAt(lines, i)
           t == Shares(rest, menu)
<1>1. /\ rest \in Seq(Line) /\ Len(rest) = Len(lines) - 1 /\ Len(lines) \in Nat
      /\ \A n \in 1 .. Len(lines) - 1 : rest[n] = IF n < i THEN lines[n] ELSE lines[n + 1]
  BY RemovedLines
<1>2. /\ s \in Seq(Int) /\ Len(s) = Len(lines) /\ Pieces(lines, menu) = Total(s)
      /\ \A n \in 1 .. Len(lines) : s[n] = Share(lines[n], menu)
  BY SharesProperties
<1> HIDE DEF rest, s
<1>3. /\ t \in Seq(Int) /\ Len(t) = Len(s) - 1 /\ Pieces(rest, menu) = Total(t)
      /\ \A n \in 1 .. Len(lines) - 1 : t[n] = Share(rest[n], menu)
  BY <1>1, <1>2, SharesProperties
<1> HIDE DEF t
<1>4. ASSUME NEW n \in 1 .. Len(s) - 1
      PROVE  t[n] = IF n < i THEN s[n] ELSE s[n + 1]
  <2>1. n \in 1 .. Len(lines) /\ n + 1 \in 1 .. Len(lines) /\ n \in 1 .. Len(lines) - 1
    BY <1>1, <1>2
  <2> QED
    BY <1>1, <1>2, <1>3, <2>1
<1>5. Total(s) \in Int /\ s[i] \in Int /\ Total(t) = Total(s) - s[i]
  BY <1>2, <1>3, <1>4, TotalRemoveAt
<1> QED
  BY <1>2, <1>3, <1>5 DEF rest

-----------------------------------------------------------------------------
(* The stock *)

InStockAll(lines) ==
    \A menu \in MenuName : UnlimitedStock(menu) \/ Pieces(lines, menu) <= StockField[menu]

AllPositive(lines) == \A i \in DOMAIN lines : lines[i].quantity >= 1

\* Carts the cafe has enough for.
Stocked == {lines \in Seq(Line) : InStockAll(lines)}

\* Carts without a line that is nothing to make.
Made == {lines \in Seq(Line) : AllPositive(lines)}

LEMMA MadeLines ==
    ASSUME items \in Made
    PROVE  /\ items \in Seq(Line) /\ Len(items) \in Nat /\ DOMAIN items = 1 .. Len(items)
           /\ \A i \in DOMAIN items : items[i] \in Line /\ items[i].quantity >= 1
<1>1. items \in Seq(Line) /\ AllPositive(items)
  BY DEF Made
<1> QED
  BY <1>1, LenProperties, ElementOfSeq DEF AllPositive

LEMMA EmptyFillable == <<>> \in Stocked /\ <<>> \in Made
<1>1. <<>> \in Seq(Line) /\ DOMAIN <<>> = {}
  BY EmptySeq
<1>2. \A menu \in MenuName : UnlimitedStock(menu) \/ 0 <= StockField[menu]
  BY MenuAssumption DEF MenuAssumption, UnlimitedStock
<1>3. InStockAll(<<>>)
  BY <1>2, NoPieces DEF InStockAll
<1> QED
  BY <1>1, <1>3 DEF Stocked, Made, AllPositive

\* A cart stays within the stock when no limited menu has more pieces, or more
\* than the stock.
LEMMA StaysStocked ==
    ASSUME NEW lines \in Stocked, NEW other \in Seq(Line),
           \A menu \in MenuName :
             \/ UnlimitedStock(menu)
             \/ Pieces(other, menu) <= StockField[menu]
             \/ Pieces(other, menu) <= Pieces(lines, menu)
    PROVE  other \in Stocked
<1>1. ASSUME NEW menu \in MenuName, ~UnlimitedStock(menu),
             Pieces(other, menu) <= Pieces(lines, menu)
      PROVE  Pieces(other, menu) <= StockField[menu]
  <2>1. Pieces(lines, menu) <= StockField[menu]
    BY <1>1 DEF Stocked, InStockAll
  <2>2. StockField[menu] \in Int
    BY MenuAssumption DEF MenuAssumption
  <2>3. \A l \in Seq(Line) : Pieces(l, menu) \in Int
    BY PiecesType
  <2>4. Pieces(lines, menu) \in Int /\ Pieces(other, menu) \in Int
    BY <2>3 DEF Stocked
  <2> QED
    BY <1>1, <2>1, <2>2, <2>4
<1> QED
  BY <1>1 DEF Stocked, InStockAll

\* One line of a cart becomes another.
LEMMA RewrittenStocked ==
    ASSUME NEW lines \in Stocked, NEW i \in 1 .. Len(lines), NEW line \in Line,
           \A menu \in MenuName :
             \/ Share(line, menu) <= Share(lines[i], menu)
             \/ UnlimitedStock(menu)
             \/ Pieces(lines, menu) - Share(lines[i], menu) + Share(line, menu)
                  <= StockField[menu]
    PROVE  [lines EXCEPT ![i] = line] \in Stocked
<1> DEFINE other == [lines EXCEPT ![i] = line]
<1>1. lines \in Seq(Line)
  BY DEF Stocked
<1>2. other \in Seq(Line)
  BY <1>1, ExceptSeq
<1>4. ASSUME NEW menu \in MenuName
      PROVE  \/ UnlimitedStock(menu)
             \/ Pieces(other, menu) <= StockField[menu]
             \/ Pieces(other, menu) <= Pieces(lines, menu)
  <2>1. /\ Pieces(lines, menu) \in Int
        /\ Share(lines[i], menu) \in Int /\ Share(line, menu) \in Int
        /\ Pieces(other, menu)
             = Pieces(lines, menu) - Share(lines[i], menu) + Share(line, menu)
    BY <1>1, RewrittenPieces
  <2> HIDE DEF other
  <2>2. CASE Share(line, menu) <= Share(lines[i], menu)
    BY <2>1, <2>2
  <2> QED
    BY <2>1, <2>2
<1> HIDE DEF other
<1>5. other \in Stocked
  BY <1>2, <1>4, StaysStocked
<1> QED
  BY <1>5 DEF other

LEMMA RewrittenMade ==
    ASSUME NEW lines \in Made, NEW i \in 1 .. Len(lines), NEW line \in Line,
           line.quantity >= 1
    PROVE  [lines EXCEPT ![i] = line] \in Made
<1> DEFINE other == [lines EXCEPT ![i] = line]
<1>1. lines \in Seq(Line) /\ AllPositive(lines)
  BY DEF Made
<1>2. /\ other \in Seq(Line) /\ DOMAIN other = DOMAIN lines
      /\ \A j \in DOMAIN lines : other[j] = IF j = i THEN line ELSE lines[j]
  BY <1>1, ExceptSeq
<1> HIDE DEF other
<1>3. other \in Made
  BY <1>1, <1>2 DEF AllPositive, Made
<1> QED
  BY <1>3 DEF other

LEMMA StockCovers ==
    ASSUME NEW menu \in MenuName, NEW quantity, InStock(menu, quantity)
    PROVE  UnlimitedStock(menu) \/ Pieces(items, menu) + quantity <= StockField[menu]
BY DEF InStock, EnoughStock, InCart

\* A line with more or fewer pieces.
LEMMA GrownLine ==
    ASSUME NEW line \in Line, NEW quantity \in Int
    PROVE  /\ line.quantity \in Int
           /\ LET grown == [line EXCEPT !.quantity = line.quantity + quantity]
              IN  grown \in Line /\ grown.menu = line.menu
                  /\ grown.quantity = line.quantity + quantity
           /\ LET left == [line EXCEPT !.quantity = line.quantity - quantity]
              IN  left \in Line /\ left.menu = line.menu
                  /\ left.quantity = line.quantity - quantity
BY DEF Line

\* add() puts the pieces into a line of the menu, or appends a line.
LEMMA AddedLine ==
    ASSUME NEW lines \in Seq(Line), lines = items,
           NEW menu \in Name, NEW quantity \in Int, NEW bag \in OptionBag,
           CartAdd(menu, quantity, bag)
    PROVE  \/ \E i \in 1 .. Len(lines), grown \in Line :
                /\ lines[i] \in Line /\ lines[i].menu = menu /\ lines[i].quantity \in Int
                /\ grown.menu = menu /\ grown.quantity = lines[i].quantity + quantity
                /\ items' = [lines EXCEPT ![i] = grown]
           \/ \E line \in Line :
                /\ line.menu = menu /\ line.quantity = quantity
                /\ items' = Append(lines, line)
<1> DEFINE found == First({i \in DOMAIN items : SameAs(items[i], menu, bag)})
<1>1. ASSUME NEW i \in found, items' = [items EXCEPT ![i].quantity = @ + quantity]
      PROVE  \E j \in 1 .. Len(lines), grown \in Line :
                /\ lines[j] \in Line /\ lines[j].menu = menu /\ lines[j].quantity \in Int
                /\ grown.menu = menu /\ grown.quantity = lines[j].quantity + quantity
                /\ items' = [lines EXCEPT ![j] = grown]
  <2>1. i \in 1 .. Len(lines) /\ lines[i] \in Line /\ lines[i].menu = menu
    BY LenProperties, ElementOfSeq DEF First, SameAs
  <2> DEFINE grown == [lines[i] EXCEPT !.quantity = lines[i].quantity + quantity]
  <2>2. /\ lines[i].quantity \in Int /\ grown \in Line /\ grown.menu = menu
        /\ grown.quantity = lines[i].quantity + quantity
    BY <2>1, GrownLine
  <2>3. items' = [lines EXCEPT ![i] = grown]
    BY <1>1
  <2> HIDE DEF grown
  <2> QED
    BY <2>1, <2>2, <2>3
<1>2. LET line == [menu |-> menu, quantity |-> quantity, options |-> bag]
      IN  line \in Line /\ line.menu = menu /\ line.quantity = quantity
  BY DEF Line
<1> QED
  BY <1>1, <1>2 DEF CartAdd

LEMMA AddStocked ==
    ASSUME items \in Stocked, NEW menu \in MenuName, menu \in Name,
           NEW quantity \in Int, NEW bag \in OptionBag,
           InStock(menu, quantity), CartAdd(menu, quantity, bag)
    PROVE  items' \in Stocked
<1>1. PICK lines \in Stocked : lines = items
  OBVIOUS
<1>2. lines \in Seq(Line)
  BY DEF Stocked
<1>3. UnlimitedStock(menu) \/ Pieces(lines, menu) + quantity <= StockField[menu]
  BY <1>1, StockCovers
<1>4. ASSUME NEW i \in 1 .. Len(lines), NEW grown \in Line,
             lines[i] \in Line, lines[i].menu = menu, lines[i].quantity \in Int,
             grown.menu = menu, grown.quantity = lines[i].quantity + quantity,
             items' = [lines EXCEPT ![i] = grown]
      PROVE  items' \in Stocked
  <2>6. ASSUME NEW m \in MenuName
        PROVE  \/ Share(grown, m) <= Share(lines[i], m)
               \/ UnlimitedStock(m)
               \/ Pieces(lines, m) - Share(lines[i], m) + Share(grown, m) <= StockField[m]
    <3>1. CASE m = menu
      <4>1. Share(grown, m) = lines[i].quantity + quantity /\ Share(lines[i], m) = lines[i].quantity
        BY <1>4, <3>1 DEF Share
      <4>2. Pieces(lines, m) \in Int
        BY <1>2, PiecesType
      <4>3. Pieces(lines, m) - Share(lines[i], m) + Share(grown, m) = Pieces(lines, m) + quantity
        BY <1>4, <4>1, <4>2
      <4> QED
        BY <1>3, <3>1, <4>3
    <3>2. CASE m # menu
      <4>1. Share(grown, m) = 0 /\ Share(lines[i], m) = 0
        BY <1>4, <3>2 DEF Share
      <4> QED
        BY <4>1
    <3> QED
      BY <3>1, <3>2
  <2> QED
    BY <1>4, <2>6, RewrittenStocked
<1>5. ASSUME NEW line \in Line, line.menu = menu, line.quantity = quantity,
             items' = Append(lines, line)
      PROVE  items' \in Stocked
  <2>3. Append(lines, line) \in Seq(Line)
    BY <1>2, AppendProperties
  <2>5. ASSUME NEW m \in MenuName
        PROVE  \/ UnlimitedStock(m)
               \/ Pieces(Append(lines, line), m) <= StockField[m]
               \/ Pieces(Append(lines, line), m) <= Pieces(lines, m)
    <3>1. /\ Pieces(lines, m) \in Int
          /\ Pieces(Append(lines, line), m) = Pieces(lines, m) + Share(line, m)
      BY <1>2, AppendedPieces
    <3>2. CASE m = menu
      <4>1. Share(line, m) = quantity
        BY <1>5, <3>2 DEF Share
      <4> QED
        BY <1>3, <3>1, <3>2, <4>1
    <3>3. CASE m # menu
      <4>1. Share(line, m) = 0
        BY <1>5, <3>3 DEF Share
      <4> QED
        BY <3>1, <4>1
    <3> QED
      BY <3>2, <3>3
  <2> QED
    BY <1>5, <2>3, <2>5, StaysStocked
<1> QED
  BY <1>1, <1>2, <1>4, <1>5, AddedLine

LEMMA AddMade ==
    ASSUME items \in Made, NEW menu \in Name,
           NEW quantity \in Int, quantity >= 1, NEW bag \in OptionBag,
           CartAdd(menu, quantity, bag)
    PROVE  items' \in Made
<1>1. PICK lines \in Made : lines = items
  OBVIOUS
<1>2. /\ lines \in Seq(Line) /\ AllPositive(lines)
      /\ Len(lines) \in Nat /\ DOMAIN lines = 1 .. Len(lines)
  BY LenProperties DEF Made
<1>4. ASSUME NEW i \in 1 .. Len(lines), NEW grown \in Line, lines[i].quantity \in Int,
             grown.quantity = lines[i].quantity + quantity,
             items' = [lines EXCEPT ![i] = grown]
      PROVE  items' \in Made
  <2>1. lines[i].quantity >= 1
    BY <1>2 DEF AllPositive
  <2>2. grown.quantity >= 1
    BY <1>4, <2>1
  <2> QED
    BY <1>4, <2>2, RewrittenMade
<1>5. ASSUME NEW line \in Line, line.quantity = quantity, items' = Append(lines, line)
      PROVE  items' \in Made
  <2>3. /\ Append(lines, line) \in Seq(Line)
        /\ Len(Append(lines, line)) = Len(lines) + 1
        /\ \A i \in 1 .. Len(lines) : Append(lines, line)[i] = lines[i]
        /\ Append(lines, line)[Len(lines) + 1] = line
    BY <1>2, AppendProperties
  <2>4. DOMAIN Append(lines, line) = 1 .. Len(lines) + 1
    BY <2>3, LenProperties
  <2>5. \A i \in 1 .. Len(lines) + 1 : i \in DOMAIN lines \/ i = Len(lines) + 1
    BY <1>2
  <2>6. AllPositive(Append(lines, line))
    BY <1>2, <1>5, <2>3, <2>4, <2>5 DEF AllPositive
  <2> QED
    BY <1>5, <2>3, <2>6 DEF Made
<1> QED
  BY <1>1, <1>2, <1>4, <1>5, AddedLine

\* remove() of "ALL", of a line, of a part of a line, or of nothing.
LEMMA RemovedPart ==
    ASSUME items \in Made, NEW menu, NEW quantity \in Int, CartRemove(menu, quantity)
    PROVE  \/ items' = <<>> \/ items' = items
           \/ \E i \in 1 .. Len(items) : items' = RemoveAt(items, i)
           \/ \E i \in 1 .. Len(items), left \in Line :
                /\ quantity # -1 /\ quantity < items[i].quantity
                /\ left.menu = items[i].menu /\ items[i].quantity \in Int
                /\ left.quantity = items[i].quantity - quantity
                /\ items' = [items EXCEPT ![i] = left]
<1>1. PICK lines \in Made : lines = items
  OBVIOUS
<1>2. /\ lines \in Seq(Line) /\ Len(lines) \in Nat /\ DOMAIN lines = 1 .. Len(lines)
      /\ \A i \in DOMAIN lines : lines[i] \in Line
  BY <1>1, MadeLines
<1>3. ASSUME NEW i \in DOMAIN items, ~TakesAll(items[i], quantity),
             items' = [items EXCEPT ![i].quantity = @ - quantity]
      PROVE  \E left \in Line :
                /\ quantity # -1 /\ quantity < items[i].quantity
                /\ left.menu = items[i].menu /\ items[i].quantity \in Int
                /\ left.quantity = items[i].quantity - quantity
                /\ items' = [items EXCEPT ![i] = left]
  <2> DEFINE left == [lines[i] EXCEPT !.quantity = lines[i].quantity - quantity]
  <2>1. lines[i] \in Line
    BY <1>1, <1>2
  <2>2. /\ lines[i].quantity \in Int /\ left \in Line /\ left.menu = lines[i].menu
        /\ left.quantity = lines[i].quantity - quantity
    BY <2>1, GrownLine
  <2>3. items' = [lines EXCEPT ![i] = left]
    BY <1>1, <1>3
  <2> HIDE DEF left
  <2>4. quantity # -1 /\ quantity < lines[i].quantity
    BY <1>1, <1>3, <2>2 DEF TakesAll
  <2> QED
    BY <1>1, <2>2, <2>3, <2>4
<1>4. DOMAIN items = 1 .. Len(items)
  BY <1>1, <1>2
<1> QED
  BY <1>3, <1>4 DEF CartRemove, Emptied, NotInCart, FirstLine, First

LEMMA RemoveStocked ==
    ASSUME items \in Stocked, items \in Made, NEW menu, NEW quantity \in Int, quantity >= -1,
           CartRemove(menu, quantity)
    PROVE  items' \in Stocked
<1>1. PICK lines \in Stocked : lines = items
  OBVIOUS
<1>2. /\ lines \in Seq(Line) /\ Len(lines) \in Nat /\ DOMAIN lines = 1 .. Len(lines)
      /\ \A i \in DOMAIN lines : lines[i] \in Line /\ lines[i].quantity >= 1
  BY <1>1, MadeLines
<1>5. ASSUME NEW i \in 1 .. Len(lines), items' = RemoveAt(lines, i)
      PROVE  items' \in Stocked
  <2> DEFINE rest == RemoveAt(lines, i)
  <2>2. rest \in Seq(Line)
    BY <1>2, RemovedLines
  <2>3. \A m \in MenuName : /\ Pieces(lines, m) \in Int
                            /\ Pieces(rest, m) = Pieces(lines, m) - Share(lines[i], m)
                            /\ Share(lines[i], m) \in Int
    BY <1>2, RemovedPieces
  <2> HIDE DEF rest
  <2>5. \A m \in MenuName : Share(lines[i], m) >= 0
    <3>1. lines[i].quantity \in Int /\ lines[i].quantity >= 1
      BY <1>2 DEF Line
    <3>2. lines[i].quantity >= 0
      BY <3>1
    <3> QED
      BY <3>2 DEF Share
  <2>6. ASSUME NEW m \in MenuName
        PROVE  Pieces(rest, m) <= Pieces(lines, m)
    <3>1. PICK a \in Int, b \in Int : a = Pieces(lines, m) /\ b = Share(lines[i], m)
      BY <2>3
    <3>2. Pieces(rest, m) = a - b /\ b >= 0
      BY <2>3, <2>5, <3>1
    <3> QED
      BY <3>1, <3>2
  <2>7. rest \in Stocked
    BY <2>2, <2>6, StaysStocked
  <2> QED
    BY <1>5, <2>7 DEF rest
<1>6. ASSUME NEW i \in 1 .. Len(lines), NEW left \in Line,
             quantity # -1, quantity < lines[i].quantity,
             left.menu = lines[i].menu, lines[i].quantity \in Int,
             left.quantity = lines[i].quantity - quantity,
             items' = [lines EXCEPT ![i] = left]
      PROVE  items' \in Stocked
  <2>1. left.quantity <= lines[i].quantity
    BY <1>6
  <2>2. \A m \in MenuName : Share(left, m) <= Share(lines[i], m)
    BY <1>6, <2>1 DEF Share
  <2> QED
    BY <1>6, <2>2, RewrittenStocked
<1> QED
  BY <1>1, <1>5, <1>6, RemovedPart, EmptyFillable

LEMMA RemoveMade ==
    ASSUME items \in Made, NEW menu, NEW quantity \in Int, CartRemove(menu, quantity)
    PROVE  items' \in Made
<1>1. PICK lines \in Made : lines = items
  OBVIOUS
<1>2. /\ lines \in Seq(Line) /\ AllPositive(lines)
      /\ Len(lines) \in Nat /\ DOMAIN lines = 1 .. Len(lines)
  BY LenProperties DEF Made
<1>5. ASSUME NEW i \in 1 .. Len(lines), items' = RemoveAt(lines, i)
      PROVE  items' \in Made
  <2> DEFINE rest == RemoveAt(lines, i)
  <2>2. /\ rest \in Seq(Line) /\ Len(rest) = Len(lines) - 1
        /\ \A n \in 1 .. Len(lines) - 1 : rest[n] = IF n < i THEN lines[n] ELSE lines[n + 1]
    BY <1>2, RemovedLines
  <2> HIDE DEF rest
  <2>3. DOMAIN rest = 1 .. Len(lines) - 1
    BY <2>2, LenProperties
  <2>4. \A n \in 1 .. Len(lines) - 1 : n \in DOMAIN lines /\ n + 1 \in DOMAIN lines
    BY <1>2
  <2>5. \A n \in 1 .. Len(lines) - 1 : rest[n].quantity >= 1
    BY <1>2, <2>2, <2>4 DEF AllPositive
  <2>6. rest \in Made
    BY <2>2, <2>3, <2>5 DEF AllPositive, Made
  <2> QED
    BY <1>5, <2>6 DEF rest
<1>6. ASSUME NEW i \in 1 .. Len(lines), NEW left \in Line, quantity < lines[i].quantity,
             lines[i].quantity \in Int, left.quantity = lines[i].quantity - quantity,
             items' = [lines EXCEPT ![i] = left]
      PROVE  items' \in Made
  <2>1. left.quantity >= 1
    BY <1>6
  <2> QED
    BY <1>6, <2>1, RewrittenMade
<1> QED
  BY <1>1, <1>5, <1>6, RemovedPart, EmptyFillable

\* replace() rewrites the menu and the options of the first line.
LEMMA ReplacedLine ==
    ASSUME NEW lines \in Seq(Line), lines = items,
           NEW from, NEW to \in Name, NEW bag \in OptionBag, CartReplace(from, to, bag)
    PROVE  \/ items' = items
           \/ \E i \in FirstLine(from), line \in Line :
                /\ i \in 1 .. Len(lines) /\ lines[i] \in Line /\ lines[i].quantity \in Int
                /\ line.menu = to /\ line.quantity = lines[i].quantity
                /\ items' = [lines EXCEPT ![i] = line]
<1>4. ASSUME NEW i \in FirstLine(from),
             items' = [items EXCEPT ![i].menu = to, ![i].options = bag]
      PROVE  \E line \in Line :
                /\ i \in 1 .. Len(lines) /\ lines[i] \in Line /\ lines[i].quantity \in Int
                /\ line.menu = to /\ line.quantity = lines[i].quantity
                /\ items' = [lines EXCEPT ![i] = line]
  <2> DEFINE line == [menu |-> to, quantity |-> lines[i].quantity, options |-> bag]
  <2>1. i \in 1 .. Len(lines) /\ lines[i] \in Line
    BY LenProperties, ElementOfSeq DEF FirstLine, First
  <2>2. lines[i].quantity \in Int
    BY <2>1 DEF Line
  <2>3. line \in Line /\ line.menu = to /\ line.quantity = lines[i].quantity
    BY <2>2 DEF Line
  <2>4. [lines[i] EXCEPT !.menu = to, !.options = bag] = line
    BY <2>1, RewrittenLine
  <2>5. items' = [lines EXCEPT ![i] = [lines[i] EXCEPT !.menu = to, !.options = bag]]
    BY <1>4
  <2> HIDE DEF line
  <2> QED
    BY <2>1, <2>2, <2>3, <2>4, <2>5
<1> QED
  BY <1>4 DEF CartReplace, NotInCart

\* The pieces of the line that changes its menu were asked for.
LEMMA ReplaceStocked ==
    ASSUME items \in Stocked, items \in Made,
           NEW from, NEW to \in MenuName, to \in Name, NEW bag \in OptionBag,
           \A i \in FirstLine(from) : InStock(to, items[i].quantity),
           CartReplace(from, to, bag)
    PROVE  items' \in Stocked
<1>1. PICK lines \in Stocked : lines = items
  OBVIOUS
<1>2. /\ lines \in Seq(Line) /\ DOMAIN lines = 1 .. Len(lines)
      /\ \A i \in DOMAIN lines : lines[i] \in Line /\ lines[i].quantity >= 1
  BY <1>1, MadeLines
<1>4. ASSUME NEW i \in FirstLine(from), NEW line \in Line,
             i \in 1 .. Len(lines), lines[i].quantity \in Int,
             line.menu = to, line.quantity = lines[i].quantity,
             items' = [lines EXCEPT ![i] = line]
      PROVE  items' \in Stocked
  <2>5. UnlimitedStock(to) \/ Pieces(lines, to) + lines[i].quantity <= StockField[to]
    BY <1>1, <1>4, StockCovers
  <2>1. lines[i].quantity >= 1 /\ lines[i] \in Line
    BY <1>2, <1>4
  <2>6. ASSUME NEW m \in MenuName
        PROVE  \/ Share(line, m) <= Share(lines[i], m)
               \/ UnlimitedStock(m)
               \/ Pieces(lines, m) - Share(lines[i], m) + Share(line, m) <= StockField[m]
    <3>1. Share(lines[i], m) \in Int /\ Share(lines[i], m) >= 0 /\ Pieces(lines, m) \in Int
      BY <1>2, <1>4, <2>1, PiecesType DEF Share
    <3>2. CASE m = to
      <4>1. Share(line, m) = lines[i].quantity
        BY <1>4, <3>2 DEF Share
      <4>2. CASE UnlimitedStock(m)
        BY <4>2
      <4>3. CASE Pieces(lines, m) + lines[i].quantity <= StockField[m]
        <5>1. StockField[m] \in Int
          BY MenuAssumption DEF MenuAssumption
        <5> QED
          BY <1>4, <3>1, <4>1, <4>3, <5>1
      <4> QED
        BY <2>5, <3>2, <4>2, <4>3
    <3>3. CASE m # to
      <4>1. Share(line, m) = 0
        BY <1>4, <3>3 DEF Share
      <4> QED
        BY <3>1, <4>1
    <3> QED
      BY <3>2, <3>3
  <2> QED
    BY <1>4, <2>6, RewrittenStocked
<1> QED
  BY <1>1, <1>2, <1>4, ReplacedLine

LEMMA ReplaceMade ==
    ASSUME items \in Made, NEW from, NEW to \in Name, NEW bag \in OptionBag,
           CartReplace(from, to, bag)
    PROVE  items' \in Made
<1>1. PICK lines \in Made : lines = items
  OBVIOUS
<1>2. /\ lines \in Seq(Line) /\ DOMAIN lines = 1 .. Len(lines)
      /\ \A i \in DOMAIN lines : lines[i].quantity >= 1
  BY <1>1, MadeLines
<1>3. ASSUME NEW i \in 1 .. Len(lines), NEW line \in Line, line.quantity = lines[i].quantity,
             items' = [lines EXCEPT ![i] = line]
      PROVE  items' \in Made
  <2>1. line.quantity >= 1
    BY <1>2, <1>3
  <2> QED
    BY <1>3, <2>1, RewrittenMade
<1> QED
  BY <1>1, <1>2, <1>3, ReplacedLine

\* change_option() rewrites the options of the first line.
LEMMA RelistedLine ==
    ASSUME NEW lines \in Seq(Line), lines = items,
           NEW menu, NEW bag \in OptionBag, CartChangeOption(menu, bag)
    PROVE  \/ items' = items
           \/ \E i \in 1 .. Len(lines), line \in Line :
                /\ line.menu = lines[i].menu /\ line.quantity = lines[i].quantity
                /\ lines[i].quantity \in Int
                /\ items' = [lines EXCEPT ![i] = line]
<1>4. ASSUME NEW i \in FirstLine(menu), items' = [items EXCEPT ![i].options = bag]
      PROVE  \E j \in 1 .. Len(lines), line \in Line :
                /\ line.menu = lines[j].menu /\ line.quantity = lines[j].quantity
                /\ lines[j].quantity \in Int
                /\ items' = [lines EXCEPT ![j] = line]
  <2> DEFINE line == [lines[i] EXCEPT !.options = bag]
  <2>1. i \in 1 .. Len(lines) /\ lines[i] \in Line
    BY LenProperties, ElementOfSeq DEF FirstLine, First
  <2>2. ASSUME NEW l \in Line
        PROVE  LET g == [l EXCEPT !.options = bag]
               IN  g \in Line /\ g.menu = l.menu /\ g.quantity = l.quantity /\ l.quantity \in Int
    BY DEF Line
  <2>3. /\ line \in Line /\ line.menu = lines[i].menu /\ line.quantity = lines[i].quantity
        /\ lines[i].quantity \in Int
    BY <2>1, <2>2
  <2>4. items' = [lines EXCEPT ![i] = line]
    BY <1>4
  <2> HIDE DEF line
  <2> QED
    BY <2>1, <2>3, <2>4
<1> QED
  BY <1>4 DEF CartChangeOption, NotInCart

LEMMA ChangeOptionStocked ==
    ASSUME items \in Stocked, NEW menu, NEW bag \in OptionBag, CartChangeOption(menu, bag)
    PROVE  items' \in Stocked
<1>1. PICK lines \in Stocked : lines = items
  OBVIOUS
<1>2. lines \in Seq(Line)
  BY DEF Stocked
<1>3. ASSUME NEW i \in 1 .. Len(lines), NEW line \in Line,
             line.menu = lines[i].menu, line.quantity = lines[i].quantity,
             lines[i].quantity \in Int
      PROVE  [lines EXCEPT ![i] = line] \in Stocked
  <2>1. \A m \in MenuName : Share(line, m) <= Share(lines[i], m)
    BY <1>3 DEF Share
  <2> QED
    BY <2>1, RewrittenStocked
<1> QED
  BY <1>1, <1>2, <1>3, RelistedLine

LEMMA ChangeOptionMade ==
    ASSUME items \in Made, NEW menu, NEW bag \in OptionBag, CartChangeOption(menu, bag)
    PROVE  items' \in Made
<1>1. PICK lines \in Made : lines = items
  OBVIOUS
<1>2. /\ lines \in Seq(Line) /\ DOMAIN lines = 1 .. Len(lines)
      /\ \A i \in DOMAIN lines : lines[i].quantity >= 1
  BY <1>1, MadeLines
<1> QED
  BY <1>1, <1>2, RelistedLine, RewrittenMade

-----------------------------------------------------------------------------
(* The handlers and the stock *)

\* What the handlers do to the cart, with validated arguments.
LEMMA AddMenuAdds ==
    ASSUME DispatcherAssumption, NEW name \in Name, NEW quantity, NEW options \in Seq(Option),
           AddMenu(name, quantity, options)
    PROVE  \/ items' = items
           \/ /\ quantity # NotANumber
              /\ \E menu \in MenuName, bag \in OptionBag :
                   menu \in Name /\ InStock(menu, quantity) /\ CartAdd(menu, quantity, bag)
<1> DEFINE menu == Resolved(name)
<1>1. CASE items' = items
  BY <1>1
<1>2. CASE /\ quantity # NotANumber
           /\ is_valid_menu(menu)
           /\ InStock(menu, quantity)
           /\ CartAdd(menu, quantity, Bag(options))
  <2>1. menu \in MenuName /\ menu \in Name /\ Bag(options) \in OptionBag
    BY <1>2, BagProperties DEF is_valid_menu, DispatcherAssumption
  <2> HIDE DEF menu
  <2> QED
    BY <1>2, <2>1
<1> QED
  BY <1>1, <1>2 DEF AddMenu, Answer

LEMMA ReplaceMenuReplaces ==
    ASSUME items \in Seq(Line), DispatcherAssumption,
           NEW fromName \in Name, NEW toName \in Name, NEW options \in Seq(Option),
           ReplaceMenu(fromName, toName, options)
    PROVE  \/ items' = items
           \/ \E from \in Name, to \in MenuName, bag \in OptionBag :
                /\ to \in Name
                /\ \A i \in FirstLine(from) : InStock(to, items[i].quantity)
                /\ CartReplace(from, to, bag)
<1> DEFINE from == Resolved(fromName)
           to == Resolved(toName)
           moved == IF FirstLine(from) = {} THEN 1
                    ELSE items[CHOOSE i \in FirstLine(from) : TRUE].quantity
<1>1. CASE items' = items
  BY <1>1
<1>2. CASE /\ is_valid_menu(to)
           /\ InStock(to, moved)
           /\ CartReplace(from, to, Bag(options))
  <2>1. to \in MenuName /\ to \in Name /\ Bag(options) \in OptionBag /\ from \in Name
    BY <1>2, BagProperties, ResolvedName DEF is_valid_menu, DispatcherAssumption
  <2> HIDE DEF from, to
  <2>2. ASSUME NEW i \in FirstLine(from)
        PROVE  moved = items[i].quantity
    <3>1. \A j \in FirstLine(from) : j = i
      <4>1. DOMAIN items = 1 .. Len(items) /\ Len(items) \in Nat
        BY LenProperties
      <4> QED
        BY <4>1 DEF FirstLine, First
    <3>2. (CHOOSE j \in FirstLine(from) : TRUE) = i
      BY <3>1
    <3> QED
      BY <3>2
  <2>3. \A i \in FirstLine(from) : InStock(to, items[i].quantity)
    BY <1>2, <2>2
  <2> QED
    BY <1>2, <2>1, <2>3
<1> QED
  BY <1>1, <1>2 DEF ReplaceMenu, Answer

LEMMA ChangeOptionChanges ==
    ASSUME items \in Seq(Line), DispatcherAssumption,
           NEW name \in Name, NEW options \in Seq(Option),
           ChangeOption(name, options)
    PROVE  \/ items' = items
           \/ \E menu \in Name : AddMenu(menu, 1, options)
           \/ \E menu \in Name, bag \in OptionBag : CartChangeOption(menu, bag)
<1> DEFINE menu == Resolved(name)
           bag(i) == IF options = <<>> THEN Bag(<<>>)
                     ELSE Merged(items[i].options, options)
<1>0. menu \in Name
  BY ResolvedName
<1>1. CASE items' = items
  BY <1>1
<1>2. CASE AddMenu(menu, 1, options)
  BY <1>0, <1>2
<1>3. ASSUME NEW i \in FirstLine(menu), CartChangeOption(menu, bag(i))
      PROVE  \E m \in Name, b \in OptionBag : CartChangeOption(m, b)
  <2>1. bag(i) \in OptionBag
    <3>1. items[i] \in Line
      BY ElementOfSeq DEF FirstLine, First
    <3>2. items[i].options \in OptionBag /\ <<>> \in Seq(Option)
      BY <3>1, EmptySeq DEF Line
    <3> QED
      BY <3>2, BagProperties, MergedProperties
  <2> HIDE DEF bag, menu
  <2> QED
    BY <1>0, <1>3, <2>1
<1> QED
  BY <1>1, <1>2, <1>3 DEF ChangeOption, Answer

LEMMA RemoveMenuRemoves ==
    ASSUME NEW name, NEW quantity, RemoveMenu(name, quantity)
    PROVE  items' = items \/ (quantity # NotANumber /\ CartRemove(Resolved(name), quantity))
BY DEF RemoveMenu, Answer

\* The calls the two properties name.
AddsNone ==
    \E name \in Name, quantity \in AddQuantity \ {NotANumber}, options \in OptionList :
        quantity < 1 /\ AddMenu(name, quantity, options)

RemovesNegative ==
    \E name \in Name, quantity \in RemoveQuantity \ {NotANumber} :
        quantity < -1 /\ RemoveMenu(name, quantity)

\* What holds of the items after every call holds of the events' carts too.
LEMMA StepHolding ==
    ASSUME NEW G, CartInv, LinesOrderable, DispatcherAssumption, DispatcherNext,
           Holding(G), items' \in G \/ CartUndo
    PROVE  Holding(G)'
<1>1. Untouched => Holding(G)'
  BY DEF Untouched, Holding
<1>2. CASE CartUndo
  <2>1. Undone \/ Untouched
    BY <1>2, UndoUndoes
  <2> QED
    BY <1>1, <2>1, UndoneHolding
<1>3. CASE items' \in G
  <2>1. Shaped
    BY StepHandled
  <2> QED
    BY <1>1, <1>3, <2>1, UndoneHolding, RecordedHolding, CartAssumption DEF Shaped
<1> QED
  BY <1>2, <1>3

LEMMA StepMade ==
    ASSUME CartInv, LinesOrderable, DispatcherAssumption, DispatcherNext, Holding(Made),
           ~AddsNone
    PROVE  Holding(Made)'
<1>1. /\ items \in Made /\ items \in Seq(Line) /\ OptionList \subseteq Seq(Option)
      /\ AddQuantity \ {NotANumber} \subseteq Int /\ RemoveQuantity \ {NotANumber} \subseteq Int
  BY DEF Holding, DispatcherAssumption, Made
<1>2. ASSUME NEW name \in Name, NEW quantity \in AddQuantity, NEW options \in OptionList,
             AddMenu(name, quantity, options)
      PROVE  items' \in Made
  <2>1. quantity # NotANumber => quantity \in Int /\ quantity >= 1
    BY <1>1, <1>2 DEF AddsNone
  <2>2. options \in Seq(Option)
    BY <1>1
  <2> QED
    BY <1>1, <1>2, <2>1, <2>2, AddMenuAdds, AddMade
<1>3. ASSUME NEW name \in Name, NEW quantity \in RemoveQuantity, RemoveMenu(name, quantity)
      PROVE  items' \in Made
  BY <1>1, <1>3, RemoveMenuRemoves, RemoveMade
<1>4. ASSUME NEW from \in Name, NEW to \in Name, NEW options \in OptionList,
             ReplaceMenu(from, to, options)
      PROVE  items' \in Made
  <2>1. options \in Seq(Option)
    BY <1>1
  <2> QED
    BY <1>1, <1>4, <2>1, ReplaceMenuReplaces, ReplaceMade
<1>5. ASSUME NEW name \in Name, NEW options \in OptionList, ChangeOption(name, options)
      PROVE  items' \in Made
  <2>1. options \in Seq(Option)
    BY <1>1
  <2>2. ASSUME NEW menu \in Name, AddMenu(menu, 1, options)
        PROVE  items' \in Made
    BY <1>1, <2>1, <2>2, AddMenuAdds, AddMade
  <2> QED
    BY <1>1, <1>5, <2>1, <2>2, ChangeOptionChanges, ChangeOptionMade
<1>6. ASSUME CheckCart \/ InquireMenuInfo \/ Done \/ UnknownTool
      PROVE  items' \in Made
  BY <1>1, <1>6 DEF CheckCart, InquireMenuInfo, Done, UnknownTool, Answer
<1>7. items' \in Made \/ CartUndo
  BY <1>2, <1>3, <1>4, <1>5, <1>6, Zenon DEF DispatcherNext
<1> QED
  BY <1>7, StepHolding

LEMMA StepStocked ==
    ASSUME CartInv, LinesOrderable, DispatcherAssumption, DispatcherNext,
           Holding(Made), Holding(Stocked), ~RemovesNegative
    PROVE  Holding(Stocked)'
<1>1. /\ items \in Made /\ items \in Stocked /\ items \in Seq(Line)
      /\ OptionList \subseteq Seq(Option)
      /\ AddQuantity \ {NotANumber} \subseteq Int /\ RemoveQuantity \ {NotANumber} \subseteq Int
  BY DEF Holding, DispatcherAssumption, Made
<1>2. ASSUME NEW name \in Name, NEW quantity \in AddQuantity \cup {1}, NEW options \in OptionList,
             AddMenu(name, quantity, options)
      PROVE  items' \in Stocked
  <2>1. quantity # NotANumber => quantity \in Int
    BY <1>1
  <2>2. options \in Seq(Option)
    BY <1>1
  <2> QED
    BY <1>1, <1>2, <2>1, <2>2, AddMenuAdds, AddStocked
<1>3. ASSUME NEW name \in Name, NEW quantity \in RemoveQuantity, RemoveMenu(name, quantity)
      PROVE  items' \in Stocked
  <2>1. quantity # NotANumber => quantity \in Int /\ quantity >= -1
    BY <1>1, <1>3 DEF RemovesNegative
  <2> QED
    BY <1>1, <1>3, <2>1, RemoveMenuRemoves, RemoveStocked
<1>4. ASSUME NEW from \in Name, NEW to \in Name, NEW options \in OptionList,
             ReplaceMenu(from, to, options)
      PROVE  items' \in Stocked
  <2>1. options \in Seq(Option)
    BY <1>1
  <2> QED
    BY <1>1, <1>4, <2>1, ReplaceMenuReplaces, ReplaceStocked
<1>5. ASSUME NEW name \in Name, NEW options \in OptionList, ChangeOption(name, options)
      PROVE  items' \in Stocked
  <2>1. options \in Seq(Option)
    BY <1>1
  <2> QED
    BY <1>1, <1>2, <1>5, <2>1, ChangeOptionChanges, ChangeOptionStocked
<1>6. ASSUME CheckCart \/ InquireMenuInfo \/ Done \/ UnknownTool
      PROVE  items' \in Stocked
  BY <1>1, <1>6 DEF CheckCart, InquireMenuInfo, Done, UnknownTool, Answer
<1>7. items' \in Stocked \/ CartUndo
  BY <1>2, <1>3, <1>4, <1>5, <1>6, Zenon DEF DispatcherNext
<1> QED
  BY <1>7, StepHolding

LEMMA HoldingMade ==
    WellFormed => /\ NoEmptyLine <=> Holding(Made)
                  /\ WithinStock <=> Holding(Stocked)
<1> SUFFICES ASSUME WellFormed
             PROVE  /\ NoEmptyLine <=> Holding(Made)
                    /\ WithinStock <=> Holding(Stocked)
  OBVIOUS
<1>1. items \in Seq(Line) /\ \A e \in DOMAIN history : history[e].before \in Seq(Line)
  <2>1. history \in Seq(Event) /\ items \in Seq(Line)
    BY DEF WellFormed
  <2>2. \A e \in DOMAIN history : history[e] \in Event
    BY <2>1, ElementOfSeq
  <2>3. \A event \in Event : event.before \in Seq(Line)
    BY DEF Event
  <2> QED
    BY <2>1, <2>2, <2>3
<1>2. \A lines : lines \in Carts <=> lines = items \/ \E e \in DOMAIN history : lines = history[e].before
  BY DEF Carts
<1>3. NoEmptyLine <=> \A lines \in Carts : AllPositive(lines)
  BY DEF NoEmptyLine, AllPositive
<1>4. WithinStock <=> \A lines \in Carts : InStockAll(lines)
  BY DEF WithinStock, InStockAll
<1>5. Holding(Made) <=> \A lines \in Carts : AllPositive(lines)
  BY <1>1, <1>2, Zenon DEF Holding, Made
<1>6. Holding(Stocked) <=> \A lines \in Carts : InStockAll(lines)
  BY <1>1, <1>2, Zenon DEF Holding, Stocked
<1> QED
  BY <1>3, <1>4, <1>5, <1>6

-----------------------------------------------------------------------------
(* The loop that merges options *)

LEMMA WithOptionType ==
    ASSUME NEW result \in Seq(Option), NEW option \in Option
    PROVE  WithOption(result, option) \in Seq(Option)
<1> DEFINE rivals == {i \in DOMAIN result : CategoryOf(result[i]) = CategoryOf(option)}
           kept == IF CategoryOf(option) \in Exclusive
                   THEN ElementsAt(result, DOMAIN result \ rivals) ELSE result
<1>1. DOMAIN result \ rivals \in SUBSET (1 .. Len(result))
  BY LenProperties
<1>2. kept \in Seq(Option)
  <2> HIDE DEF rivals
  <2> QED
    BY <1>1, ElementsAtPicks
<1>3. WithOption(result, option) = IF Contains(kept, option) THEN kept ELSE Append(kept, option)
  BY DEF WithOption
<1> HIDE DEF kept
<1> QED
  BY <1>2, <1>3, AppendProperties

LEMMA MergeUpto ==
    ASSUME NEW existing \in Seq(Option), NEW new \in Seq(Option)
    PROVE  \E upto \in [0 .. Len(new) -> Seq(Option)] :
              /\ MergeLoop(existing, new) = upto[Len(new)]
              /\ upto[0] = existing
              /\ \A n \in 1 .. Len(new) : upto[n] = WithOption(upto[n - 1], new[n])
<1> DEFINE N == Len(new)
           V == Seq(Option)
           next == [n \in 1 .. N |-> [v \in V |-> WithOption(v, new[n])]]
           Body(g) == [n \in 0 .. Len(new) |->
                         IF n = 0 THEN existing ELSE WithOption(g[n - 1], new[n])]
           upto == CHOOSE g : g = Body(g)
<1>1. MergeLoop(existing, new) = upto[N]
  BY DEF MergeLoop
<1>2. N \in Nat /\ \A n \in 1 .. N : new[n] \in Option
  BY LenProperties, ElementOfSeq
<1>3. next \in Steps(V, N)
  <2>1. ASSUME NEW n \in 1 .. N, NEW v \in V
        PROVE  WithOption(v, new[n]) \in V
    BY <1>2, WithOptionType
  <2> QED
    BY <2>1 DEF Steps
<1>4. PICK f \in [0 .. N -> V] : Chained(f, existing, next, N)
  <2>1. existing \in V
    OBVIOUS
  <2> HIDE DEF N, V, next
  <2> QED
    BY <1>2, <1>3, <2>1, ChainExists
<1>5. f[0] = existing /\ \A n \in 1 .. N : f[n] = WithOption(f[n - 1], new[n])
  <2>1. ASSUME NEW n \in 1 .. N
        PROVE  f[n] = WithOption(f[n - 1], new[n])
    <3>1. n - 1 \in 0 .. N
      <4> HIDE DEF N
      <4> QED
        BY <1>2
    <3>2. f[n - 1] \in V
      <4> HIDE DEF N, V
      <4> QED
        BY <3>1
    <3>3. next[n][f[n - 1]] = WithOption(f[n - 1], new[n])
      BY <3>2
    <3> HIDE DEF next, N
    <3> QED
      BY <1>4, <3>3 DEF Chained
  <2> QED
    BY <1>4, <2>1 DEF Chained
<1> HIDE DEF next
<1>6. f = Body(f)
  <2>1. \A n \in 0 .. N : f[n] = Body(f)[n]
    <3> SUFFICES ASSUME NEW n \in 0 .. N
                 PROVE  f[n] = Body(f)[n]
      OBVIOUS
    <3>1. CASE n = 0
      BY <1>5, <3>1
    <3>2. CASE n # 0
      <4>1. n \in 1 .. N
        BY <3>2
      <4> QED
        BY <1>5, <3>2, <4>1
    <3> QED
      BY <3>1, <3>2
  <2> QED
    BY <2>1
<1>7. upto = Body(upto)
  <2> HIDE DEF Body
  <2> QED
    BY <1>6, Zenon
<1>8. upto[0] = existing /\ \A n \in 1 .. N : upto[n] = WithOption(upto[n - 1], new[n])
  <2> HIDE DEF upto
  <2>1. ASSUME NEW n \in 0 .. N
        PROVE  upto[n] = IF n = 0 THEN existing ELSE WithOption(upto[n - 1], new[n])
    BY <1>7
  <2> QED
    BY <1>2, <2>1
<1>9. upto \in [0 .. N -> V]
  <2> HIDE DEF upto
  <2> DEFINE S == {n \in Nat : n <= N => upto[n] = f[n]}
  <2>1. 0 \in S
    BY <1>5, <1>8
  <2>2. ASSUME NEW n \in Nat, n \in S
        PROVE  n + 1 \in S
    <3> SUFFICES ASSUME n + 1 <= N
                 PROVE  upto[n + 1] = f[n + 1]
      OBVIOUS
    <3>1. n + 1 \in 1 .. N /\ n + 1 - 1 = n /\ upto[n] = f[n]
      BY <1>2, <2>2
    <3>2. upto[n + 1] = WithOption(upto[n], new[n + 1]) /\ f[n + 1] = WithOption(f[n], new[n + 1])
      BY <1>5, <1>8, <3>1
    <3> QED
      BY <3>1, <3>2
  <2>3. Nat \subseteq S
    <3> HIDE DEF S
    <3> QED
      BY <2>1, <2>2, NatSetInduction
  <2>4. \A n \in 0 .. N : upto[n] \in V
    BY <2>3
  <2>5. upto = [n \in 0 .. N |-> upto[n]]
    BY <1>7
  <2> QED
    BY <2>4, <2>5
<1> HIDE DEF upto
<1> QED
  BY <1>1, <1>8, <1>9

\* How often an option is listed, after each thing the loop does to a list.
LEMMA CountFinite ==
    ASSUME NEW s \in Seq(Option), NEW p \in Option
    PROVE  /\ IsFiniteSet({i \in DOMAIN s : s[i] = p})
           /\ Bag(s)[p] = Cardinality({i \in DOMAIN s : s[i] = p})
           /\ Bag(s)[p] \in Nat
           /\ Bag(s)[p] # 0 <=> \E i \in DOMAIN s : s[i] = p
<1> DEFINE at == {i \in DOMAIN s : s[i] = p}
<1>1. IsFiniteSet(at)
  <2>1. DOMAIN s = 1 .. Len(s) /\ Len(s) \in Nat
    BY LenProperties
  <2>2. IsFiniteSet(1 .. Len(s))
    BY <2>1, FS_Interval
  <2> QED
    BY <2>1, <2>2, FS_Subset
<1>2. Bag(s)[p] = Cardinality(at)
  BY DEF Bag
<1>3. Cardinality(at) \in Nat /\ (Cardinality(at) = 0 <=> at = {})
  BY <1>1, FS_CardinalityType, FS_EmptySet
<1> QED
  BY <1>1, <1>2, <1>3

LEMMA CountAppended ==
    ASSUME NEW s \in Seq(Option), NEW o \in Option, NEW p \in Option
    PROVE  Bag(Append(s, o))[p] = IF p = o THEN Bag(s)[p] + 1 ELSE Bag(s)[p]
<1> DEFINE at == {i \in DOMAIN s : s[i] = p}
           longer == Append(s, o)
           now == {i \in DOMAIN longer : longer[i] = p}
<1>1. /\ longer \in Seq(Option) /\ Len(s) \in Nat
      /\ DOMAIN s = 1 .. Len(s) /\ DOMAIN longer = 1 .. Len(s) + 1
      /\ \A i \in 1 .. Len(s) : longer[i] = s[i]
      /\ longer[Len(s) + 1] = o
  BY AppendProperties, LenProperties
<1>2. IsFiniteSet(at) /\ Bag(s)[p] = Cardinality(at) /\ Bag(longer)[p] = Cardinality(now)
  BY <1>1, CountFinite
<1> HIDE DEF longer
<1>3. CASE p = o
  <2>1. now = at \cup {Len(s) + 1} /\ Len(s) + 1 \notin at
    BY <1>1, <1>3
  <2> HIDE DEF at, now
  <2> QED
    BY <1>2, <1>3, <2>1, FS_AddElement DEF longer
<1>4. CASE p # o
  <2>1. now = at
    BY <1>1, <1>4
  <2> QED
    BY <1>2, <1>4, <2>1 DEF longer
<1> QED
  BY <1>3, <1>4

LEMMA CountKept ==
    ASSUME NEW s \in Seq(Option), NEW K \in SUBSET (DOMAIN s), NEW p \in Option,
           \A i \in DOMAIN s : s[i] = p => i \in K
    PROVE  ElementsAt(s, K) \in Seq(Option) /\ Bag(ElementsAt(s, K))[p] = Bag(s)[p]
<1> DEFINE q == ElementsAt(s, K)
           at == {i \in DOMAIN s : s[i] = p}
           now == {i \in DOMAIN q : q[i] = p}
<1>1. DOMAIN s = 1 .. Len(s) /\ Len(s) \in Nat /\ K \in SUBSET (1 .. Len(s))
  BY LenProperties
<1>2. q \in Seq(Option) /\ \E e \in Seq(K) : Picked(s, K, q, e)
  BY <1>1, ElementsAtPicks
<1>3. PICK e \in Seq(K) : Picked(s, K, q, e)
  BY <1>2
<1> HIDE DEF q
<1>4. /\ DOMAIN q = 1 .. Len(q) /\ Len(q) \in Nat /\ Len(e) = Len(q)
      /\ \A i \in 1 .. Len(q) : q[i] = s[e[i]] /\ e[i] \in K
      /\ \A k \in K : \E i \in 1 .. Len(q) : e[i] = k
      /\ \A i, j \in 1 .. Len(q) : i < j => e[i] < e[j]
  BY <1>2, <1>3, LenProperties, ElementOfSeq DEF Picked, Enumerates
<1> DEFINE f == [i \in now |-> e[i]]
<1>5. f \in [now -> at]
  BY <1>4
<1>6. \A i, j \in now : f[i] = f[j] => i = j
  <2> SUFFICES ASSUME NEW i \in now, NEW j \in now, f[i] = f[j]
               PROVE  i = j
    OBVIOUS
  <2>1. i \in 1 .. Len(q) /\ j \in 1 .. Len(q) /\ e[i] = e[j] /\ e[i] \in 1 .. Len(s)
    BY <1>1, <1>4
  <2>2. (i < j => e[i] < e[j]) /\ (j < i => e[j] < e[i])
    BY <1>4, <2>1
  <2>3. e[i] \in Nat /\ e[j] \in Nat
    BY <2>1
  <2> QED
    BY <2>1, <2>2, <2>3
<1>7. \A k \in at : \E i \in now : f[i] = k
  <2> SUFFICES ASSUME NEW k \in at
               PROVE  \E i \in now : f[i] = k
    OBVIOUS
  <2>1. k \in K /\ s[k] = p
    OBVIOUS
  <2>2. PICK i \in 1 .. Len(q) : e[i] = k
    BY <1>4, <2>1
  <2>3. i \in now
    BY <1>4, <2>1, <2>2
  <2> QED
    BY <2>2, <2>3
<1>8. ExistsBijection(now, at)
  <2> HIDE DEF now, at
  <2>1. DOMAIN f = now
    OBVIOUS
  <2> HIDE DEF f
  <2> QED
    BY <1>5, <1>6, <1>7, <2>1, Zenon DEF ExistsBijection, Bijection, Injection, Surjection, IsInjective
<1>9. IsFiniteSet(now) /\ Bag(q)[p] = Cardinality(now) /\ Bag(s)[p] = Cardinality(at)
  BY <1>2, CountFinite
<1>10. Cardinality(at) = Cardinality(now)
  <2> HIDE DEF now, at, f
  <2> QED
    BY <1>8, <1>9, FS_Bijection
<1> QED
  BY <1>2, <1>9, <1>10 DEF q

\* What one turn of the loop does to the bag of a list.
BagWith(bag, o) ==
    [p \in Option |->
        IF CategoryOf(o) \in Exclusive /\ CategoryOf(p) = CategoryOf(o)
        THEN IF p = o THEN 1 ELSE 0
        ELSE IF p = o /\ bag[p] = 0 THEN 1 ELSE bag[p] ]

LEMMA WithOptionIsBagWith ==
    ASSUME NEW s \in Seq(Option), NEW o \in Option
    PROVE  Bag(WithOption(s, o)) = BagWith(Bag(s), o)
<1> DEFINE rivals == {i \in DOMAIN s : CategoryOf(s[i]) = CategoryOf(o)}
           K == DOMAIN s \ rivals
           kept == IF CategoryOf(o) \in Exclusive THEN ElementsAt(s, K) ELSE s
           result == WithOption(s, o)
<1>1. result = IF Contains(kept, o) THEN kept ELSE Append(kept, o)
  BY DEF WithOption
<1>2. kept \in Seq(Option)
  <2>1. K \in SUBSET (1 .. Len(s))
    BY LenProperties
  <2> HIDE DEF K
  <2> QED
    BY <2>1, ElementsAtPicks
<1>3. Contains(kept, o) <=> Bag(kept)[o] # 0
  <2> HIDE DEF kept
  <2>1. DOMAIN kept = 1 .. Len(kept)
    BY <1>2, LenProperties
  <2>2. Bag(kept)[o] # 0 <=> \E i \in DOMAIN kept : kept[i] = o
    BY <1>2, CountFinite
  <2> QED
    BY <2>1, <2>2 DEF Contains
<1>4. ASSUME NEW p \in Option
      PROVE  Bag(kept)[p] = IF CategoryOf(o) \in Exclusive /\ CategoryOf(p) = CategoryOf(o)
                            THEN 0 ELSE Bag(s)[p]
  <2>1. CASE CategoryOf(o) \notin Exclusive
    BY <2>1
  <2>2. CASE CategoryOf(o) \in Exclusive /\ CategoryOf(p) # CategoryOf(o)
    <3>1. \A i \in DOMAIN s : s[i] = p => i \in K
      BY <2>2
    <3>2. K \in SUBSET (DOMAIN s)
      OBVIOUS
    <3> HIDE DEF K
    <3> QED
      BY <2>2, <3>1, <3>2, CountKept
  <2>3. CASE CategoryOf(o) \in Exclusive /\ CategoryOf(p) = CategoryOf(o)
    <3>1. K \in SUBSET (1 .. Len(s)) /\ \A i \in K : CategoryOf(s[i]) # CategoryOf(p)
      BY <2>3, LenProperties
    <3>2. kept = ElementsAt(s, K)
      BY <2>3
    <3> HIDE DEF K, kept
    <3>3. PICK e \in Seq(K) : Picked(s, K, kept, e)
      BY <3>1, <3>2, ElementsAtPicks
    <3>4. \A i \in DOMAIN kept : kept[i] # p
      <4> SUFFICES ASSUME NEW i \in DOMAIN kept
                   PROVE  kept[i] # p
        OBVIOUS
      <4>1. i \in 1 .. Len(e) /\ DOMAIN e = 1 .. Len(e)
        BY <1>2, <3>3, LenProperties DEF Picked
      <4>2. kept[i] = s[e[i]] /\ e[i] \in K
        BY <3>3, <4>1, ElementOfSeq DEF Picked
      <4> QED
        BY <3>1, <4>2
    <3>5. Bag(kept)[p] = 0
      BY <1>2, <3>4, CountFinite
    <3> QED
      BY <2>3, <3>5
  <2> QED
    BY <2>1, <2>2, <2>3
<1> HIDE DEF kept, K, result
<1>5. ASSUME NEW p \in Option
      PROVE  Bag(result)[p] = BagWith(Bag(s), o)[p]
  <2>1. /\ Bag(s)[p] \in Nat /\ Bag(s)[o] \in Nat
        /\ Bag(kept)[p] \in Nat /\ Bag(kept)[o] \in Nat
    BY <1>2, CountFinite
  <2>2. BagWith(Bag(s), o)[p] =
          IF CategoryOf(o) \in Exclusive /\ CategoryOf(p) = CategoryOf(o)
          THEN IF p = o THEN 1 ELSE 0
          ELSE IF p = o /\ Bag(s)[p] = 0 THEN 1 ELSE Bag(s)[p]
    BY DEF BagWith
  <2>3. Bag(result)[p] = IF p = o /\ Bag(kept)[o] = 0 THEN Bag(kept)[p] + 1 ELSE Bag(kept)[p]
    <3>1. CASE Bag(kept)[o] = 0
      BY <1>1, <1>2, <1>3, <3>1, CountAppended
    <3>2. CASE Bag(kept)[o] # 0
      BY <1>1, <1>3, <3>2
    <3> QED
      BY <3>1, <3>2
  <2>4. CASE p = o
    BY <1>4, <2>1, <2>2, <2>3, <2>4
  <2>5. CASE p # o
    BY <1>4, <2>1, <2>2, <2>3, <2>5
  <2> QED
    BY <2>4, <2>5
<1>6. Bag(result) = [p \in Option |-> Bag(result)[p]]
  BY DEF Bag
<1>7. BagWith(Bag(s), o) = [p \in Option |-> BagWith(Bag(s), o)[p]]
  BY DEF BagWith
<1> QED
  BY <1>5, <1>6, <1>7 DEF result

\* Merged, for the first n of the new options.
MergedUpto(existing, new, n) ==
    [o \in Option |->
        LET rivals == {i \in 1 .. n : CategoryOf(new[i]) = CategoryOf(o)}
        IN  IF CategoryOf(o) \in Exclusive /\ rivals # {}
            THEN IF \E i \in rivals : new[i] = o /\ \A j \in rivals : j <= i
                 THEN 1 ELSE 0
            ELSE IF existing[o] = 0 /\ \E i \in 1 .. n : new[i] = o
                 THEN 1 ELSE existing[o] ]

LEMMA MergedNext ==
    ASSUME NEW existing \in OptionBag, NEW new \in Seq(Option),
           NEW n \in Nat, n + 1 \in 1 .. Len(new)
    PROVE  MergedUpto(existing, new, n + 1) = BagWith(MergedUpto(existing, new, n), new[n + 1])
<1> DEFINE o == new[n + 1]
           old == MergedUpto(existing, new, n)
           now == MergedUpto(existing, new, n + 1)
           rivals(p, m) == {i \in 1 .. m : CategoryOf(new[i]) = CategoryOf(p)}
<1>1. \A p \in Option, m \in Nat : MergedUpto(existing, new, m)[p] =
         IF CategoryOf(p) \in Exclusive /\ rivals(p, m) # {}
         THEN IF \E i \in rivals(p, m) : new[i] = p /\ \A j \in rivals(p, m) : j <= i
              THEN 1 ELSE 0
         ELSE IF existing[p] = 0 /\ \E i \in 1 .. m : new[i] = p
              THEN 1 ELSE existing[p]
  BY DEF MergedUpto
<1>2. 1 .. n + 1 = (1 .. n) \cup {n + 1} /\ \A i \in 1 .. n : i < n + 1
  OBVIOUS
<1>3. ASSUME NEW p \in Option
      PROVE  now[p] = BagWith(old, o)[p]
  <2>1. BagWith(old, o)[p] =
          IF CategoryOf(o) \in Exclusive /\ CategoryOf(p) = CategoryOf(o)
          THEN IF p = o THEN 1 ELSE 0
          ELSE IF p = o /\ old[p] = 0 THEN 1 ELSE old[p]
    BY DEF BagWith
  <2>2. CASE CategoryOf(o) \in Exclusive /\ CategoryOf(p) = CategoryOf(o)
    <3>1. n + 1 \in rivals(p, n + 1) /\ \A j \in rivals(p, n + 1) : j <= n + 1
      BY <1>2, <2>2
    <3>2. (\E i \in rivals(p, n + 1) : new[i] = p /\ \A j \in rivals(p, n + 1) : j <= i) <=> p = o
      <4>1. ASSUME NEW i \in rivals(p, n + 1), \A j \in rivals(p, n + 1) : j <= i
            PROVE  i = n + 1
        <5>1. i <= n + 1 /\ n + 1 <= i /\ i \in Int
          BY <3>1, <4>1
        <5> QED
          BY <5>1
      <4> HIDE DEF rivals
      <4> QED
        BY <3>1, <4>1
    <3>3. now[p] = IF p = o THEN 1 ELSE 0
      <4>1. n + 1 \in Nat
        OBVIOUS
      <4> HIDE DEF rivals
      <4> QED
        BY <1>1, <2>2, <3>1, <3>2, <4>1
    <3> QED
      BY <2>1, <2>2, <3>3
  <2>3. CASE CategoryOf(p) # CategoryOf(o)
    <3>1. rivals(p, n + 1) = rivals(p, n) /\ p # o
      BY <1>2, <2>3
    <3>2. (\E i \in 1 .. n + 1 : new[i] = p) <=> (\E i \in 1 .. n : new[i] = p)
      BY <1>2, <3>1
    <3>3. now[p] = old[p]
      <4>1. n + 1 \in Nat
        OBVIOUS
      <4> HIDE DEF rivals
      <4> QED
        BY <1>1, <3>1, <3>2, <4>1
    <3> QED
      BY <2>1, <2>3, <3>1, <3>3
  <2>4. CASE CategoryOf(o) \notin Exclusive /\ CategoryOf(p) = CategoryOf(o)
    <3>1. /\ old[p] = IF existing[p] = 0 /\ \E i \in 1 .. n : new[i] = p THEN 1 ELSE existing[p]
          /\ now[p] = IF existing[p] = 0 /\ \E i \in 1 .. n + 1 : new[i] = p THEN 1 ELSE existing[p]
      <4>1. n + 1 \in Nat
        OBVIOUS
      <4> HIDE DEF rivals
      <4> QED
        BY <1>1, <2>4, <4>1
    <3>2. (\E i \in 1 .. n + 1 : new[i] = p) <=> (\E i \in 1 .. n : new[i] = p) \/ p = o
      BY <1>2
    <3>3. BagWith(old, o)[p] = IF p = o /\ old[p] = 0 THEN 1 ELSE old[p]
      BY <2>1, <2>4
    <3> HIDE DEF now, old, o
    <3>4. CASE existing[p] = 0
      BY <3>1, <3>2, <3>3, <3>4
    <3>5. CASE existing[p] # 0
      BY <3>1, <3>3, <3>5
    <3> QED
      BY <3>4, <3>5
  <2> QED
    BY <2>2, <2>3, <2>4
<1>4. now = [p \in Option |-> now[p]] /\ BagWith(old, o) = [p \in Option |-> BagWith(old, o)[p]]
  BY DEF MergedUpto, BagWith
<1> HIDE DEF now, old, o
<1>5. now = BagWith(old, o)
  BY <1>3, <1>4
<1> QED
  BY <1>5 DEF now, old, o

\* The loop over lists does to their bags what Merged does, whatever the lists.
LEMMA LoopMerges ==
    ASSUME NEW existing \in Seq(Option), NEW new \in Seq(Option)
    PROVE  Bag(MergeLoop(existing, new)) = Merged(Bag(existing), new)
<1> DEFINE N == Len(new)
<1>1. N \in Nat /\ DOMAIN new = 1 .. N /\ \A n \in 1 .. N : new[n] \in Option
  BY LenProperties, ElementOfSeq
<1>2. PICK upto \in [0 .. N -> Seq(Option)] :
        /\ MergeLoop(existing, new) = upto[N]
        /\ upto[0] = existing
        /\ \A n \in 1 .. N : upto[n] = WithOption(upto[n - 1], new[n])
  BY MergeUpto
<1>3. Bag(existing) \in OptionBag
  BY BagProperties
<1> DEFINE S == {n \in Nat : n <= N => Bag(upto[n]) = MergedUpto(Bag(existing), new, n)}
<1>4. 0 \in S
  <2>1. \A b \in OptionBag : MergedUpto(b, new, 0) = b
    <3>1. 1 .. 0 = {}
      OBVIOUS
    <3> QED
      BY <3>1 DEF MergedUpto, OptionBag
  <2> QED
    BY <1>2, <1>3, <2>1
<1>5. ASSUME NEW n \in Nat, n \in S
      PROVE  n + 1 \in S
  <2> SUFFICES ASSUME n + 1 <= N
               PROVE  Bag(upto[n + 1]) = MergedUpto(Bag(existing), new, n + 1)
    OBVIOUS
  <2>1. n + 1 \in 1 .. N /\ n + 1 - 1 = n /\ n \in 0 .. N
    BY <1>1
  <2>2. Bag(upto[n]) = MergedUpto(Bag(existing), new, n)
    BY <1>5, <2>1
  <2>3. upto[n + 1] = WithOption(upto[n], new[n + 1]) /\ new[n + 1] \in Option
        /\ upto[n] \in Seq(Option)
    BY <1>1, <1>2, <2>1
  <2>4. Bag(upto[n + 1]) = BagWith(Bag(upto[n]), new[n + 1])
    BY <2>3, WithOptionIsBagWith
  <2> QED
    BY <1>3, <2>1, <2>2, <2>4, MergedNext
<1>6. Nat \subseteq S
  <2> HIDE DEF S
  <2> QED
    BY <1>4, <1>5, NatSetInduction
<1>7. Bag(upto[N]) = MergedUpto(Bag(existing), new, N)
  BY <1>1, <1>6
<1>8. MergedUpto(Bag(existing), new, N) = Merged(Bag(existing), new)
  BY <1>1 DEF MergedUpto, Merged
<1> QED
  BY <1>2, <1>7, <1>8

-----------------------------------------------------------------------------
(* What change_option leaves on its line *)

\* Of an exclusive category that is asked for, Merged leaves the last request.
LEMMA MergedLeavesOne ==
    ASSUME NEW existing \in OptionBag, NEW new \in Seq(Option),
           NEW c \in Exclusive, \E k \in DOMAIN new : CategoryOf(new[k]) = c
    PROVE  Cardinality({o \in Option : CategoryOf(o) = c /\ Merged(existing, new)[o] > 0}) = 1
<1> DEFINE rivals == {i \in DOMAIN new : CategoryOf(new[i]) = c}
           left == {o \in Option : CategoryOf(o) = c /\ Merged(existing, new)[o] > 0}
<1>1. DOMAIN new = 1 .. Len(new) /\ Len(new) \in Nat
  BY LenProperties
<1>2. PICK last \in rivals : \A j \in rivals : j <= last
  <2>1. rivals \in SUBSET (1 .. Len(new)) /\ rivals # {}
    BY <1>1
  <2> HIDE DEF rivals
  <2> QED
    BY <1>1, <2>1, HasGreatest
<1>3. new[last] \in Option /\ CategoryOf(new[last]) = c
  BY ElementOfSeq
<1>4. ASSUME NEW o \in Option, CategoryOf(o) = c
      PROVE  Merged(existing, new)[o] = IF o = new[last] THEN 1 ELSE 0
  <2>1. Merged(existing, new)[o] =
          IF \E i \in rivals : new[i] = o /\ \A j \in rivals : j <= i THEN 1 ELSE 0
    <3>1. rivals = {i \in DOMAIN new : CategoryOf(new[i]) = CategoryOf(o)} /\ rivals # {}
      BY <1>2, <1>4
    <3> HIDE DEF rivals
    <3> QED
      BY <1>4, <3>1 DEF Merged
  <2>2. \A i \in rivals : (\A j \in rivals : j <= i) => i = last
    BY <1>1, <1>2
  <2> HIDE DEF rivals
  <2> QED
    BY <1>2, <2>1, <2>2
<1>5. left = {new[last]}
  BY <1>3, <1>4
<1> QED
  BY <1>5, FS_Singleton

LEMMA ChangeOptionStep ==
    ASSUME CartInv, DispatcherAssumption, reply' = "OPTION_CHANGED",
           NEW name \in Name, NEW options \in Seq(Option), options # <<>>,
           ChangeOption(name, options)
    PROVE  \E i \in FirstLine(Resolved(name)) :
             /\ items[i] \in Line /\ i \in DOMAIN items
             /\ items' = [items EXCEPT ![i].options = Merged(items[i].options, options)]
<1> DEFINE menu == Resolved(name)
<1>1. items \in Seq(Line) /\ DOMAIN items = 1 .. Len(items) /\ Len(items) \in Nat
  BY LenProperties DEF CartInv, WellFormed
<1>2. ~Answer("INVALID_OPTION")
  BY DEF Answer
<1>3. ~AddMenu(menu, 1, options)
  BY DEF AddMenu, Answer, StockRefusal, CartAdd
<1>4. PICK k \in FirstLine(menu) : CartChangeOption(menu, Merged(items[k].options, options))
  BY <1>2, <1>3 DEF ChangeOption
<1>5. PICK i \in FirstLine(menu) :
        items' = [items EXCEPT ![i].options = Merged(items[k].options, options)]
  BY <1>4 DEF CartChangeOption, NotInCart
<1>6. i = k /\ i \in DOMAIN items
  BY <1>1 DEF FirstLine, First
<1>7. items[i] \in Line
  BY <1>1, <1>6, ElementOfSeq
<1> QED
  BY <1>5, <1>6, <1>7

-----------------------------------------------------------------------------
(* Theorems *)

LEMMA DispatcherInvariance ==
    DispatcherSpec => [](DispatcherInv /\ reply \in DispatcherStatus)
<1>1. Init => DispatcherInv /\ reply \in DispatcherStatus
  BY InitInv DEF Init, DispatcherInv, LinesOrderable, DispatcherStatus, CartStatus
<1>2. DispatcherInv /\ reply \in DispatcherStatus /\ [DispatcherNext]_cartVars
        => (DispatcherInv /\ reply \in DispatcherStatus)'
  <2> SUFFICES ASSUME DispatcherInv, reply \in DispatcherStatus,
                      [DispatcherNext]_cartVars
               PROVE  DispatcherInv' /\ reply' \in DispatcherStatus
    OBVIOUS
  <2>1. CASE DispatcherNext
    BY <2>1, StepHandled, ShapedInv, DispatcherAssumption DEF DispatcherInv
  <2>2. CASE UNCHANGED cartVars
    BY <2>2, ShapedInv DEF cartVars, Shaped, Untouched, DispatcherInv, LinesOrderable
  <2> QED
    BY <2>1, <2>2
<1> QED
  BY <1>1, <1>2, PTL DEF DispatcherSpec

\* Through the dispatcher too, the items are lines, the events events and at
\* most HistoryLimit of them, and every answer is one of the listed statuses.
THEOREM DispatcherTypeCorrect == DispatcherSpec => []DispatcherTypeOK
<1>1. DispatcherInv /\ reply \in DispatcherStatus => DispatcherTypeOK
  BY DEF DispatcherInv, CartInv, DispatcherTypeOK
<1> QED
  BY <1>1, DispatcherInvariance, PTL

\* No sequence of tool calls, undo among them, puts a line in the cart that the
\* menu dictionary does not allow.
THEOREM OnlyOrderableLines == DispatcherSpec => []LinesOrderable
<1>1. DispatcherInv => LinesOrderable
  BY DEF DispatcherInv
<1> QED
  BY <1>1, DispatcherInvariance, PTL

\* Refused calls are no changes and accepted ones are one change each: a cart
\* behind the dispatcher is still a bounded undo stack.
THEOREM DispatcherKeepsUndoStack == DispatcherSpec => IsUndoStack
<1>1. DispatcherInv /\ [DispatcherNext]_cartVars => [Stack!Next]_(Stack!vars)
  <2>1. DispatcherInv /\ DispatcherNext => Shaped
    BY StepHandled, DispatcherAssumption DEF DispatcherInv
  <2>2. UNCHANGED cartVars => Shaped
    BY DEF cartVars, Shaped, Untouched
  <2> QED
    BY <2>1, <2>2, ShapedStack DEF DispatcherInv
<1>2. Init => Stack!Init
  BY InitStack
<1> QED
  BY <1>1, <1>2, DispatcherInvariance, PTL DEF DispatcherSpec, IsUndoStack, Stack!Spec

\* For every menu, every stock and any quantities callers pass: only a call of
\* add_menu for less than one piece leaves a line without pieces, in the cart or
\* for a later undo to bring back.
THEOREM EmptyLinesFromAdding == DispatcherSpec => EmptyLineOnlyByAdding
<1> DEFINE Kept ==
             NoEmptyLine =>
               \/ NoEmptyLine'
               \/ \E name \in Name, quantity \in AddQuantity \ {NotANumber}, options \in OptionList :
                    quantity < 1 /\ AddMenu(name, quantity, options)
<1>1. DispatcherInv /\ DispatcherInv' /\ DispatcherNext => Kept
  <2> SUFFICES ASSUME DispatcherInv, DispatcherInv', DispatcherNext, NoEmptyLine, ~AddsNone
               PROVE  NoEmptyLine'
    BY DEF AddsNone
  <2>1. Holding(Made)'
    BY HoldingMade, StepMade, DispatcherAssumption DEF DispatcherInv, CartInv
  <2>2. (WellFormed => /\ NoEmptyLine <=> Holding(Made)
                       /\ WithinStock <=> Holding(Stocked))'
    BY HoldingMade, PTL
  <2> QED
    BY <2>1, <2>2 DEF DispatcherInv, CartInv
<1> QED
  BY <1>1, DispatcherInvariance, PTL DEF DispatcherSpec, EmptyLineOnlyByAdding

\* For every menu, every stock and any quantities: as long as no line is without
\* pieces, only a call of remove_menu for a negative number other than -1 brings
\* the cart, or one that an undo brings back, over the stock of a menu.
THEOREM OversellingFromRemoving == DispatcherSpec => OversoldOnlyByRemoving
<1> DEFINE Kept ==
             NoEmptyLine /\ WithinStock =>
               \/ WithinStock'
               \/ \E name \in Name, quantity \in RemoveQuantity \ {NotANumber} :
                    quantity < -1 /\ RemoveMenu(name, quantity)
<1>1. DispatcherInv /\ DispatcherInv' /\ DispatcherNext => Kept
  <2> SUFFICES ASSUME DispatcherInv, DispatcherInv', DispatcherNext,
                      NoEmptyLine, WithinStock, ~RemovesNegative
               PROVE  WithinStock'
    BY DEF RemovesNegative
  <2>1. Holding(Stocked)'
    BY HoldingMade, StepStocked, DispatcherAssumption DEF DispatcherInv, CartInv
  <2>2. (WellFormed => /\ NoEmptyLine <=> Holding(Made)
                       /\ WithinStock <=> Holding(Stocked))'
    BY HoldingMade, PTL
  <2> QED
    BY <2>1, <2>2 DEF DispatcherInv, CartInv
<1> QED
  BY <1>1, DispatcherInvariance, PTL DEF DispatcherSpec, OversoldOnlyByRemoving

\* Merging as bags is the loop of _merge_options for all lists a caller may pass
\* and in every state of the cart.
THEOREM MergeAsBags == DispatcherSpec => []MergeIsLoop
<1>1. MergeIsLoop
  BY LoopMerges, DispatcherAssumption DEF MergeIsLoop, DispatcherAssumption
<1> QED
  BY <1>1, PTL

\* change_option does what it was asked for and nothing else, for every menu,
\* every line and every list of options, repetitions and rivals included.
THEOREM ChangedAsAsked == DispatcherSpec => ChangeOptionSettles
<1> DEFINE Settled ==
             reply' = "OPTION_CHANGED" =>
               \A name \in Name, options \in OptionList :
                 options # <<>> /\ ChangeOption(name, options) =>
                   \E i \in FirstLine(Resolved(name)) :
                     LET asked == {CategoryOf(options[k]) : k \in DOMAIN options}
                         left(c) == {o \in Option : CategoryOf(o) = c /\ items'[i].options[o] > 0}
                     IN  /\ \A c \in asked \cap Exclusive : Cardinality(left(c)) = 1
                         /\ \A o \in Option : CategoryOf(o) \notin asked
                              => items'[i].options[o] = items[i].options[o]
<1>1. DispatcherInv => Settled
  <2> SUFFICES ASSUME DispatcherInv, reply' = "OPTION_CHANGED",
                      NEW name \in Name, NEW options \in OptionList,
                      options # <<>>, ChangeOption(name, options)
               PROVE  \E i \in FirstLine(Resolved(name)) :
                        LET asked == {CategoryOf(options[k]) : k \in DOMAIN options}
                            left(c) == {o \in Option : CategoryOf(o) = c /\ items'[i].options[o] > 0}
                        IN  /\ \A c \in asked \cap Exclusive : Cardinality(left(c)) = 1
                            /\ \A o \in Option : CategoryOf(o) \notin asked
                                 => items'[i].options[o] = items[i].options[o]
    OBVIOUS
  <2>0. options \in Seq(Option)
    BY DispatcherAssumption DEF DispatcherAssumption
  <2>1. PICK i \in FirstLine(Resolved(name)) :
          /\ items[i] \in Line /\ i \in DOMAIN items
          /\ items' = [items EXCEPT ![i].options = Merged(items[i].options, options)]
    BY <2>0, ChangeOptionStep, DispatcherAssumption DEF DispatcherInv
  <2>2. PICK existing \in OptionBag : existing = items[i].options
    BY <2>1 DEF Line
  <2>3. items'[i].options = Merged(existing, options)
    <3>1. items'[i] = [items[i] EXCEPT !.options = Merged(existing, options)]
      BY <2>1, <2>2
    <3>2. \A l \in Line : [l EXCEPT !.options = Merged(existing, options)].options = Merged(existing, options)
      BY DEF Line
    <3> QED
      BY <2>1, <3>1, <3>2
  <2> DEFINE asked == {CategoryOf(options[k]) : k \in DOMAIN options}
             left(c) == {o \in Option : CategoryOf(o) = c /\ items'[i].options[o] > 0}
  <2>5. ASSUME NEW c \in asked \cap Exclusive
        PROVE  Cardinality(left(c)) = 1
    <3>1. c \in Exclusive /\ \E k \in DOMAIN options : CategoryOf(options[k]) = c
      OBVIOUS
    <3>2. left(c) = {o \in Option : CategoryOf(o) = c /\ Merged(existing, options)[o] > 0}
      BY <2>3
    <3> HIDE DEF left, asked
    <3> QED
      BY <2>0, <3>1, <3>2, MergedLeavesOne
  <2>6. ASSUME NEW o \in Option, CategoryOf(o) \notin asked
        PROVE  items'[i].options[o] = items[i].options[o]
    <3>1. \A k \in DOMAIN options : CategoryOf(options[k]) # CategoryOf(o) /\ options[k] # o
      BY <2>6
    <3>2. Merged(existing, options)[o] = existing[o]
      BY <3>1 DEF Merged
    <3> QED
      BY <2>2, <2>3, <3>2
  <2> QED
    BY <2>5, <2>6
<1> QED
  BY <1>1, DispatcherInvariance, PTL DEF ChangeOptionSettles

-----------------------------------------------------------------------------
(* The demo page *)

\* A line of a menu of the cafe.  A cart read while it changes holds such lines,
\* though perhaps none that can be ordered.
NamedLine == {line \in Line : line.menu \in MenuName}

NamedCarts == Seq(NamedLine)

\* What the page asks of the server.
ToolCall ==
    [tool : {"add_menu", "remove_menu", "change_option"}, menu : Name,
     quantity : Int, options : Seq(Option)]

Calls == ToolCall \cup {NoCall, Call("undo", "", 0, <<>>)}

Chips == OptionName \cup {""}

Kinds == {"chat", "button", "reset", "get", "over"}

States == {"sent", "reading", "answered", "failed", "over"}

Requests ==
    [kind : Kinds, state : States,
     call : Calls, chip : Chips, on : BOOLEAN,
     cart : NamedCarts, version : Nat, gone : BOOLEAN]

\* A request is sent once: what it is does not change with its answer.
SameRequest(f, g) ==
    /\ g.kind = f.kind /\ g.call = f.call /\ g.chip = f.chip /\ g.on = f.on
    /\ g.gone = f.gone

\* A click that chooses an option asks for it last, of a menu of the cafe.
AsksFor(kind, call, chip, on) ==
    kind = "button" /\ chip # "" /\ on =>
        /\ call \in ToolCall
        /\ call.tool = "change_option"
        /\ call.menu \in MenuName
        /\ call.options # <<>>
        /\ call.options[Len(call.options)] = chip

ChipAsked(f) == AsksFor(f.kind, f.call, f.chip, f.on)

\* A message locks the composer, which it finds unlocked.
Locks(kind) ==
    /\ kind = "chat" => ~inFlight /\ inFlight'
    /\ kind # "chat" => UNCHANGED inFlight

ServerInv == CartInv /\ LinesOrderable

RequestsTyped ==
    /\ flight \in Seq(Requests)
    /\ Len(flight) <= MaxRequests
    /\ session \in BOOLEAN
    /\ version \in Nat

ChipsAsked == \A r \in DOMAIN flight : ChipAsked(flight[r])

\* The page shows lines of the cafe's menus.
PageTyped ==
    /\ rendered \in NamedCarts
    /\ popover \in NamedLine \cup {NoLine}
    /\ lit \subseteq Option
    /\ inFlight \in BOOLEAN

\* The message that locks the composer is the only one under way.
ComposerInv ==
    /\ \A r, q \in Under("chat") : inFlight /\ r = q
    /\ inFlight => Under("chat") # {}

ClientInv ==
    /\ ServerInv
    /\ RequestsTyped
    /\ ChipsAsked
    /\ PageTyped
    /\ ComposerInv

-----------------------------------------------------------------------------
(* Sequences *)

LEMMA AppendRequest ==
    ASSUME NEW S, NEW s \in Seq(S), NEW e \in S
    PROVE  /\ Append(s, e) \in Seq(S)
           /\ Len(Append(s, e)) = Len(s) + 1
           /\ DOMAIN Append(s, e) = 1 .. Len(s) + 1
           /\ \A i \in DOMAIN s : Append(s, e)[i] = s[i]
           /\ Append(s, e)[Len(s) + 1] = e
BY SMT

\* A sequence is one of whatever its elements are.
LEMMA ElementsInSeq ==
    ASSUME NEW S, NEW T, NEW s \in Seq(S), \A i \in DOMAIN s : s[i] \in T
    PROVE  s \in Seq(T)
<1>1. Len(s) \in Nat /\ s \in [1 .. Len(s) -> S]
  BY LenProperties
<1>2. s \in [1 .. Len(s) -> T]
  BY <1>1
<1> QED
  BY <1>1, <1>2, SeqDef

LEMMA OneMore ==
    ASSUME NEW m \in Nat
    PROVE  /\ m + 1 \in Nat /\ m + 1 \notin 1 .. m
           /\ 1 .. m + 1 = (1 .. m) \cup {m + 1}
<1>1. \A x : x \in 1 .. m + 1 <=> x \in 1 .. m \/ x = m + 1
  OBVIOUS
<1>2. \A x : x \in 1 .. m + 1 <=> x \in (1 .. m) \cup {m + 1}
  BY <1>1
<1>3. 1 .. m + 1 = (1 .. m) \cup {m + 1}
  BY <1>2, Zenon
<1> QED
  BY <1>3

LEMMA NoLines == <<>> \in NamedCarts
BY EmptySeq DEF NamedCarts

LEMMA NamedItems == ServerInv => items \in NamedCarts
<1> SUFFICES ASSUME ServerInv PROVE items \in NamedCarts
  OBVIOUS
<1>1. items \in Seq(Line) /\ \A i \in DOMAIN items : items[i].menu \in MenuName
  BY DEF ServerInv, CartInv, WellFormed, LinesOrderable, Orderable
<1>2. \A i \in DOMAIN items : items[i] \in NamedLine
  BY <1>1, ElementOfSeq DEF NamedLine
<1> QED
  BY <1>1, <1>2, ElementsInSeq DEF NamedCarts

LEMMA NamedItemsNext == (ServerInv => items \in NamedCarts)'
BY NamedItems, PTL

-----------------------------------------------------------------------------
(* Requests *)

LEMMA FlightPlaces ==
    ASSUME RequestsTyped
    PROVE  /\ Len(flight) \in Nat
           /\ DOMAIN flight = 1 .. Len(flight)
           /\ \A r \in DOMAIN flight : flight[r] \in Requests
           /\ flight \in Seq(Requests)
<1>1. flight \in Seq(Requests)
  BY DEF RequestsTyped
<1> HIDE DEF Requests
<1> QED
  BY <1>1, LenProperties, ElementOfSeq

LEMMA RequestParts ==
    ASSUME NEW f \in Requests
    PROVE  /\ f.kind \in Kinds
           /\ f.state \in States
           /\ f.call \in Calls /\ f.chip \in Chips
           /\ f.on \in BOOLEAN /\ f.gone \in BOOLEAN
           /\ f.cart \in NamedCarts /\ f.version \in Nat
BY DEF Requests

\* A request that has just been sent.
Fresh(f, kind, call, chip, on) ==
    /\ f \in Requests /\ f.kind = kind /\ f.call = call
    /\ f.chip = chip /\ f.on = on /\ f.state = "sent"
    /\ f.cart = <<>> /\ f.version = 0 /\ f.gone = FALSE

LEMMA NewRequest ==
    ASSUME NEW kind \in Kinds, NEW call \in Calls, NEW chip \in Chips, NEW on \in BOOLEAN
    PROVE  Fresh(Request(kind, call, chip, on), kind, call, chip, on)
BY NoLines DEF Request, Requests, States, Fresh

\* What becomes of a request while it is handled, one field at a time.
LEMMA StateRestated ==
    ASSUME NEW f \in Requests, NEW state \in States, NEW g, g = [f EXCEPT !.state = state]
    PROVE  /\ g \in Requests /\ SameRequest(f, g)
           /\ g.state = state /\ g.cart = f.cart /\ g.version = f.version
BY DEF Requests, SameRequest

LEMMA CartRestated ==
    ASSUME NEW f \in Requests, NEW cart \in NamedCarts, NEW g, g = [f EXCEPT !.cart = cart]
    PROVE  /\ g \in Requests /\ SameRequest(f, g)
           /\ g.state = f.state /\ g.cart = cart /\ g.version = f.version
BY DEF Requests, SameRequest

LEMMA VersionRestated ==
    ASSUME NEW f \in Requests, NEW v \in Nat, NEW g, g = [f EXCEPT !.version = v]
    PROVE  /\ g \in Requests /\ SameRequest(f, g)
           /\ g.state = f.state /\ g.cart = f.cart /\ g.version = v
BY DEF Requests, SameRequest

Restating(f, state, cart, v) ==
    [f EXCEPT !.state = state, !.cart = cart, !.version = v]

LEMMA Restated ==
    ASSUME NEW f \in Requests, NEW v \in Nat, NEW cart \in NamedCarts,
           NEW state \in States, NEW g, g = Restating(f, state, cart, v)
    PROVE  /\ g \in Requests /\ SameRequest(f, g)
           /\ g.state = state /\ g.cart = cart /\ g.version = v
<1> DEFINE a == [f EXCEPT !.state = state]
           b == [a EXCEPT !.cart = cart]
           c == [b EXCEPT !.version = v]
<1>1. a \in Requests /\ SameRequest(f, a) /\ a.state = state
  BY StateRestated
<1>2. g = c
  BY DEF Restating
<1> HIDE DEF a
<1>3. b \in Requests /\ SameRequest(a, b) /\ b.state = state /\ b.cart = cart
  BY <1>1, CartRestated
<1> HIDE DEF b
<1>4. /\ c \in Requests /\ SameRequest(b, c)
      /\ c.state = state /\ c.cart = cart /\ c.version = v
  BY <1>3, VersionRestated
<1> HIDE DEF c
<1>5. SameRequest(f, c)
  BY <1>1, <1>3, <1>4 DEF SameRequest
<1> QED
  BY <1>2, <1>4, <1>5

LEMMA OverRequest ==
    LET over == [Request("over", NoCall, "", FALSE) EXCEPT !.state = "over"]
    IN  over \in Requests /\ over.kind = "over" /\ over.state = "over" /\ over.version = 0
<1> DEFINE new == Request("over", NoCall, "", FALSE)
           over == [new EXCEPT !.state = "over"]
<1>1. NoCall \in Calls /\ "" \in Chips /\ "over" \in Kinds
  BY DEF Calls, Chips, Kinds
<1>2. new \in Requests /\ new.kind = "over" /\ new.version = 0
  <2>1. Fresh(new, "over", NoCall, "", FALSE)
    BY <1>1, NewRequest, Zenon
  <2> QED
    BY <2>1 DEF Fresh
<1> HIDE DEF new
<1>3. over \in Requests /\ SameRequest(new, over) /\ over.state = "over" /\ over.version = 0
  BY <1>2, StateRestated DEF States
<1> HIDE DEF over
<1>4. over.kind = "over"
  BY <1>2, <1>3 DEF SameRequest
<1> QED
  BY <1>3, <1>4 DEF over, new

\* A change of one request.
LEMMA OneChanged ==
    ASSUME RequestsTyped, NEW r \in DOMAIN flight, NEW one \in Requests,
           flight' = [flight EXCEPT ![r] = one]
    PROVE  /\ DOMAIN flight' = DOMAIN flight /\ flight'[r] = one
           /\ \A q \in DOMAIN flight : q # r => flight'[q] = flight[q]
           /\ flight' \in Seq(Requests) /\ Len(flight') = Len(flight)
<1>1. flight \in Seq(Requests)
  BY DEF RequestsTyped
<1> HIDE DEF Requests
<1>2. /\ flight' \in Seq(Requests) /\ DOMAIN flight' = DOMAIN flight
      /\ \A q \in DOMAIN flight : flight'[q] = IF q = r THEN one ELSE flight[q]
  BY <1>1, ExceptSeq
<1>3. Len(flight') = Len(flight)
  BY <1>1, <1>2, LenProperties
<1> QED
  BY <1>2, <1>3

LEMMA SameAsked ==
    ASSUME NEW f, NEW g, SameRequest(f, g), ChipAsked(f)
    PROVE  ChipAsked(g)
BY DEF SameRequest, ChipAsked

\* A step that leaves every request what it is, under way or over.
LEMMA SameUnder ==
    ASSUME ClientInv, flight' \in Seq(Requests),
           DOMAIN flight' = DOMAIN flight, Len(flight') = Len(flight),
           UNCHANGED <<session, inFlight>>, version' \in Nat,
           \A r \in DOMAIN flight :
             /\ SameRequest(flight[r], flight'[r])
             /\ flight'[r].state = "over" <=> flight[r].state = "over"
    PROVE  RequestsTyped' /\ ChipsAsked' /\ ComposerInv'
<1>1. RequestsTyped'
  BY DEF ClientInv, RequestsTyped
<1>2. ChipsAsked'
  BY SameAsked DEF ClientInv, ChipsAsked
<1>3. Under("chat")' = Under("chat")
  BY DEF Under, SameRequest
<1> QED
  BY <1>1, <1>2, <1>3 DEF ClientInv, ComposerInv

\* A step that changes no more of one request than its state and answer.
LEMMA OneRestated ==
    ASSUME ClientInv, NEW r \in DOMAIN flight, NEW one \in Requests,
           flight' = [flight EXCEPT ![r] = one],
           SameRequest(flight[r], one), one.state # "over", flight[r].state # "over",
           UNCHANGED <<session, inFlight, version>>
    PROVE  RequestsTyped' /\ ChipsAsked' /\ ComposerInv'
<1>1. RequestsTyped /\ version' \in Nat
  BY DEF ClientInv, RequestsTyped
<1>2. /\ DOMAIN flight' = DOMAIN flight /\ flight'[r] = one
      /\ \A q \in DOMAIN flight : q # r => flight'[q] = flight[q]
      /\ flight' \in Seq(Requests) /\ Len(flight') = Len(flight)
  BY <1>1, OneChanged
<1>3. \A q \in DOMAIN flight :
        /\ SameRequest(flight[q], flight'[q])
        /\ flight'[q].state = "over" <=> flight[q].state = "over"
  BY <1>2 DEF SameRequest
<1> QED
  BY <1>1, <1>2, <1>3, SameUnder

-----------------------------------------------------------------------------
(* Lists of options *)

LEMMA ListingType ==
    ASSUME NEW options \in OptionBag, ClientAssumption
    PROVE  Listing(options) \in Seq(Option)
<1> DEFINE n == Cardinality(Option)
           order == SetToSeq(Option)
           parts == [p \in 1 .. Len(order) |-> [k \in 1 .. options[order[p]] |-> order[p]]]
<1>1. n \in Nat /\ ExistsBijection(1 .. n, Option)
  BY FS_CardinalityType DEF ClientAssumption
<1>2. \E f \in [1 .. n -> Option] : IsInjective(f)
  BY <1>1 DEF ExistsBijection, Bijection, Injection, IsInjective
<1>3. order \in [1 .. n -> Option]
  BY <1>2 DEF SetToSeq
<1> HIDE DEF order
<1>4. order \in Seq(Option) /\ Len(order) = n
  BY <1>1, <1>3, FunctionIsSeq
<1>5. ASSUME NEW p \in 1 .. Len(order)
      PROVE  [k \in 1 .. options[order[p]] |-> order[p]] \in Seq(Option)
  <2>1. order[p] \in Option
    BY <1>3, <1>4
  <2>2. options[order[p]] \in Nat
    BY <2>1 DEF OptionBag
  <2> QED
    BY <2>1, <2>2, FunctionIsSeq
<1>6. parts \in Seq(Seq(Option))
  <2>1. parts \in [1 .. Len(order) -> Seq(Option)]
    BY <1>5
  <2> HIDE DEF parts
  <2> QED
    BY <1>1, <1>4, <2>1, FunctionIsSeq
<1>7. Listing(options) = FlattenSeq(parts)
  BY DEF Listing, order
<1> HIDE DEF parts
<1>8. PICK up \in [0 .. Len(parts) -> Seq(Option)] : FlattenSeq(parts) = up[Len(parts)]
  BY <1>6, FlattenUpto
<1>9. Len(parts) \in Nat
  BY <1>6, LenProperties
<1> QED
  BY <1>7, <1>8, <1>9

LEMMA ToggledType ==
    ASSUME NEW current \in SUBSET Option, NEW chip \in Option, ClientAssumption,
           NEW options \in Toggled(current, chip)
    PROVE  /\ options \in Seq(Option)
           /\ chip \notin current => options # <<>> /\ options[Len(options)] = chip
<1>1. ASSUME NEW S \in SUBSET Option, NEW list \in SetToSeqs(S)
      PROVE  list \in Seq(Option)
  <2>1. IsFiniteSet(S)
    BY FS_Subset DEF ClientAssumption
  <2>2. Cardinality(S) \in Nat
    BY <2>1, FS_CardinalityType
  <2>3. list \in [1 .. Cardinality(S) -> S]
    BY DEF SetToSeqs
  <2>4. list \in [1 .. Cardinality(S) -> Option]
    BY <2>3
  <2> QED
    BY <2>2, <2>4, FunctionIsSeq
<1>2. CASE chip \in current
  <2>1. options \in SetToSeqs(current \ {chip})
    BY <1>2 DEF Toggled
  <2> QED
    BY <1>1, <1>2, <2>1
<1>3. CASE chip \notin current
  <2> DEFINE S == {o \in current : CategoryOf(o) = CategoryOf(chip)
                                     => CategoryOf(o) \notin Exclusive}
  <2>1. PICK list \in SetToSeqs(S) : options = Append(list, chip)
    BY <1>3 DEF Toggled
  <2>2. list \in Seq(Option)
    BY <1>1
  <2> HIDE DEF S
  <2>3. /\ options \in Seq(Option) /\ Len(options) = Len(list) + 1 /\ Len(list) \in Nat
        /\ options[Len(list) + 1] = chip
    BY <2>1, <2>2, AppendRequest, LenProperties
  <2>4. options # <<>>
    BY <2>3
  <2> QED
    BY <2>3, <2>4
<1> QED
  BY <1>2, <1>3

-----------------------------------------------------------------------------
(* The server's cart *)

LEMMA ForgottenServer ==
    ASSUME Forgotten
    PROVE  ServerInv'
<1>1. items' = <<>> /\ history' = <<>>
  BY DEF Forgotten
<1>2. CartInv'
  BY <1>1, EmptySeq, CartAssumption
     DEF CartInv, WellFormed, HistoryChain, Linked, EndsNow, CartAssumption
<1> QED
  BY <1>1, <1>2 DEF ServerInv, LinesOrderable

LEMMA HandledServer ==
    ASSUME ServerInv, Handled \/ CartUndo
    PROVE  ServerInv'
BY HandledKeeps, ShapedInv DEF ServerInv

LEMMA ChatServer ==
    ASSUME ServerInv, ChatCall
    PROVE  ServerInv'
<1>1. OptionList \subseteq Seq(Option) /\ 1 \in Int /\ -1 \in Int
  BY DispatcherAssumption DEF DispatcherAssumption
<1>2. CASE CheckCart
  BY <1>2, AnswerHandled, HandledServer DEF CheckCart, DispatcherStatus, ServerInv
<1>3. CASE CartUndo
  BY <1>3, HandledServer
<1>4. ASSUME NEW name \in Name, NEW options \in OptionList,
             AddMenu(name, 1, options) \/ ChangeOption(name, options)
      PROVE  ServerInv'
  BY <1>1, <1>4, AddMenuHandled, ChangeOptionHandled, HandledServer, DispatcherAssumption
     DEF ServerInv
<1>5. ASSUME NEW name \in Name, RemoveMenu(name, -1)
      PROVE  ServerInv'
  BY <1>1, <1>5, RemoveMenuHandled, HandledServer, DispatcherAssumption DEF ServerInv
<1>6. ASSUME NEW from \in Name, NEW to \in Name, NEW options \in OptionList,
             ReplaceMenu(from, to, options)
      PROVE  ServerInv'
  BY <1>1, <1>6, ReplaceMenuHandled, HandledServer, DispatcherAssumption DEF ServerInv
<1> QED
  BY <1>2, <1>3, <1>4, <1>5, <1>6, Zenon DEF ChatCall

LEMMA ButtonServer ==
    ASSUME ServerInv, NEW call \in Calls, ButtonCall(call)
    PROVE  ServerInv'
<1>1. call \in ToolCall \/ call.tool \in {"none", "undo"}
  <2>1. NoCall.tool = "none" /\ Call("undo", "", 0, <<>>).tool = "undo"
    BY DEF NoCall, Call
  <2>2. call \in ToolCall \/ call = NoCall \/ call = Call("undo", "", 0, <<>>)
    BY DEF Calls
  <2> QED
    BY <2>1, <2>2
<1>2. CASE call.tool = "undo"
  BY <1>2, HandledServer DEF ButtonCall
<1>3. CASE call \in ToolCall
  <2>1. call.menu \in Name /\ call.quantity \in Int /\ call.options \in Seq(Option)
    BY <1>3 DEF ToolCall
  <2>2. CASE AddMenu(call.menu, call.quantity, call.options)
    BY <2>1, <2>2, AddMenuHandled, HandledServer, DispatcherAssumption DEF ServerInv
  <2>3. CASE RemoveMenu(call.menu, call.quantity)
    BY <2>1, <2>3, RemoveMenuHandled, HandledServer, DispatcherAssumption DEF ServerInv
  <2>4. CASE ChangeOption(call.menu, call.options)
    BY <2>1, <2>4, ChangeOptionHandled, HandledServer, DispatcherAssumption DEF ServerInv
  <2>5. CASE CartUndo
    BY <2>5, HandledServer
  <2> QED
    BY <2>2, <2>3, <2>4, <2>5, Zenon DEF ButtonCall
<1> QED
  BY <1>1, <1>2, <1>3 DEF ButtonCall

-----------------------------------------------------------------------------
(* The steps *)

LEMMA CallType ==
    ASSUME NEW tool \in {"add_menu", "remove_menu", "change_option"}, NEW menu \in Name,
           NEW quantity \in Int, NEW list \in Seq(Option)
    PROVE  /\ Call(tool, menu, quantity, list) \in ToolCall
           /\ Call(tool, menu, quantity, list) \in Calls
           /\ Call(tool, menu, quantity, list).tool = tool
           /\ Call(tool, menu, quantity, list).menu = menu
           /\ Call(tool, menu, quantity, list).options = list
<1> DEFINE lists == Seq(Option)
<1>1. list \in lists /\ ToolCall = [tool : {"add_menu", "remove_menu", "change_option"},
                                     menu : Name, quantity : Int, options : lists]
  BY DEF ToolCall
<1> HIDE DEF lists
<1>2. Call(tool, menu, quantity, list) \in ToolCall
  BY <1>1 DEF Call
<1> QED
  BY <1>2 DEF Call, Calls

LEMMA SendTyped ==
    ASSUME ClientInv, NEW kind \in Kinds, NEW call \in Calls,
           NEW chip \in Chips, NEW on \in BOOLEAN,
           Send(kind, call, chip, on),
           AsksFor(kind, call, chip, on), Locks(kind)
    PROVE  ServerInv' /\ RequestsTyped' /\ ChipsAsked' /\ ComposerInv'
<1> DEFINE new == Request(kind, call, chip, on)
           m == Len(flight)
           n == m + 1
<1>1. /\ m \in Nat /\ DOMAIN flight = 1 .. m /\ flight \in Seq(Requests)
      /\ version \in Nat /\ MaxRequests \in Nat
  BY FlightPlaces, ClientAssumption DEF ClientInv, RequestsTyped, ClientAssumption
<1>2. /\ n <= MaxRequests /\ session' \in BOOLEAN /\ flight' = Append(flight, new)
      /\ UNCHANGED <<items, history, reply, rendered, version>>
  <2>1. /\ m < MaxRequests /\ session' = TRUE /\ flight' = Append(flight, new)
        /\ UNCHANGED <<items, history, reply, rendered, version>>
    BY DEF Send, cartVars
  <2> HIDE DEF m, new
  <2>2. n <= MaxRequests
    BY <1>1, <2>1
  <2> QED
    BY <2>1, <2>2
<1>4. Fresh(new, kind, call, chip, on)
  BY NewRequest
<1> HIDE DEF new
<1>5. /\ flight' \in Seq(Requests) /\ Len(flight') = n /\ DOMAIN flight' = 1 .. n
      /\ \A r \in DOMAIN flight : flight'[r] = flight[r]
      /\ flight'[n] = new
  <2>1. flight \in Seq(Requests) /\ new \in Requests /\ flight' = Append(flight, new)
    BY <1>1, <1>2, <1>4 DEF Fresh
  <2> QED
    BY <2>1, AppendRequest
<1> HIDE DEF m
<1>6. DOMAIN flight' = DOMAIN flight \cup {n} /\ n \notin DOMAIN flight
  BY <1>1, <1>5, OneMore
<1>7. ServerInv'
  BY <1>2 DEF ClientInv, ServerInv, CartInv, WellFormed, HistoryChain, Linked, EndsNow,
              LinesOrderable
<1>8. RequestsTyped'
  BY <1>1, <1>2, <1>5 DEF RequestsTyped
<1>9. ChipsAsked'
  <2>1. ChipAsked(new)
    BY <1>4 DEF ChipAsked, Fresh
  <2>2. \A r \in DOMAIN flight : ChipAsked(flight[r])
    BY DEF ClientInv, ChipsAsked
  <2> QED
    BY <1>5, <1>6, <2>1, <2>2 DEF ChipsAsked
<1>10. new.kind = kind /\ new.state # "over" /\ ~new.gone
  BY <1>4 DEF Fresh
<1>11. Under("chat")' = IF kind = "chat" THEN Under("chat") \cup {n} ELSE Under("chat")
  <2>1. Under("chat")' = {r \in DOMAIN flight' :
          flight'[r].kind = "chat" /\ flight'[r].state # "over" /\ ~flight'[r].gone}
    BY DEF Under
  <2>2. Under("chat") = {r \in DOMAIN flight :
          flight[r].kind = "chat" /\ flight[r].state # "over" /\ ~flight[r].gone}
    BY DEF Under
  <2> HIDE DEF n
  <2> QED
    BY <1>5, <1>6, <1>10, <2>1, <2>2
<1> HIDE DEF n
<1>12. ComposerInv'
  <2>1. ComposerInv
    BY DEF ClientInv
  <2>2. CASE kind = "chat"
    <3>1. inFlight' /\ Under("chat") = {} /\ Under("chat")' = {n}
      BY <1>11, <2>1, <2>2 DEF ComposerInv, Locks
    <3> QED
      BY <3>1 DEF ComposerInv
  <2>3. CASE kind # "chat"
    BY <1>11, <2>1, <2>3 DEF ComposerInv, Locks
  <2> QED
    BY <2>2, <2>3
<1> QED
  BY <1>7, <1>8, <1>9, <1>12

LEMMA ClickTyped ==
    ASSUME ClientInv, NEW call \in Calls, Click(call)
    PROVE  ClientInv'
<1>1. /\ Send("button", call, "", FALSE)
      /\ popover' = NoLine /\ lit' = {} /\ UNCHANGED inFlight /\ UNCHANGED rendered
  BY DEF Click, Send
<1>2. ServerInv' /\ RequestsTyped' /\ ChipsAsked' /\ ComposerInv'
  BY <1>1, SendTyped DEF AsksFor, Locks, Chips, Kinds
<1>3. PageTyped'
  BY <1>1 DEF ClientInv, PageTyped
<1> QED
  BY <1>2, <1>3 DEF ClientInv

LEMMA ClickLineTyped ==
    ASSUME ClientInv, ClickLine
    PROVE  ClientInv'
<1>1. PICK i \in DOMAIN rendered :
        \/ Click(Call("add_menu", rendered[i].menu, 1, Listing(rendered[i].options)))
        \/ Click(Call("remove_menu", rendered[i].menu, 1, <<>>))
        \/ Click(Call("remove_menu", rendered[i].menu, -1, <<>>))
  BY DEF ClickLine
<1>2. rendered[i] \in Line
  BY <1>1, ElementOfSeq DEF ClientInv, PageTyped, NamedCarts, NamedLine
<1>3. rendered[i].menu \in Name /\ rendered[i].options \in OptionBag
  BY <1>2 DEF Line
<1>4. Listing(rendered[i].options) \in Seq(Option) /\ <<>> \in Seq(Option)
  BY <1>3, ListingType, ClientAssumption, EmptySeq
<1>5. \A menu \in Name, list \in Seq(Option) :
        /\ Call("add_menu", menu, 1, list) \in Calls
        /\ Call("remove_menu", menu, 1, list) \in Calls
        /\ Call("remove_menu", menu, -1, list) \in Calls
  BY CallType
<1> QED
  BY <1>1, <1>3, <1>4, <1>5, ClickTyped

LEMMA ClickChipTyped ==
    ASSUME ClientInv, ClickChip
    PROVE  ClientInv'
<1>1. popover # NoLine /\ UNCHANGED <<popover, lit, inFlight>>
  BY DEF ClickChip
<1>2. popover \in Line /\ popover.menu \in MenuName /\ popover.menu \in Name
  BY <1>1, DispatcherAssumption
     DEF ClientInv, PageTyped, NamedLine, Orderable, DispatcherAssumption
<1> DEFINE current == ChosenIn(popover)
<1>3. PICK chip \in OptionName :
        \E options \in Toggled(current, chip) :
          Send("button", Call("change_option", popover.menu, 0, options),
               chip, chip \notin current)
  BY DEF ClickChip
<1>4. PICK options \in Toggled(current, chip) :
        Send("button", Call("change_option", popover.menu, 0, options),
             chip, chip \notin current)
  BY <1>3
<1>5. current \in SUBSET Option /\ chip \in Option
  BY DispatcherAssumption DEF ChosenIn, DispatcherAssumption
<1>6. /\ options \in Seq(Option)
      /\ chip \notin current => options # <<>> /\ options[Len(options)] = chip
  BY <1>4, <1>5, ToggledType, ClientAssumption
<1> DEFINE call == Call("change_option", popover.menu, 0, options)
<1>7. /\ call \in ToolCall /\ call \in Calls /\ call.tool = "change_option"
      /\ call.menu = popover.menu /\ call.options = options
  BY <1>2, <1>6, CallType
<1>8. Send("button", call, chip, chip \notin current) /\ (chip \notin current) \in BOOLEAN
  BY <1>4
<1> HIDE DEF call, current
<1>9. ServerInv' /\ RequestsTyped' /\ ChipsAsked' /\ ComposerInv'
  BY <1>1, <1>2, <1>6, <1>7, <1>8, SendTyped DEF AsksFor, Locks, Chips, Kinds
<1>10. PageTyped'
  BY <1>1, <1>8 DEF Send, ClientInv, PageTyped
<1> QED
  BY <1>9, <1>10 DEF ClientInv

LEMMA PageClicksTyped ==
    ASSUME ClientInv,
           SendMessage \/ ClickCatalogRow \/ ClickUndo \/ ClickReset
    PROVE  ClientInv'
<1>1. NoCall \in Calls /\ Call("undo", "", 0, <<>>) \in Calls /\ "" \in Chips
  BY DEF Calls, Chips
<1>2. CASE SendMessage
  <2>1. /\ Send("chat", NoCall, "", FALSE) /\ Locks("chat") /\ inFlight' \in BOOLEAN
        /\ UNCHANGED <<rendered, popover, lit>>
    BY <1>2 DEF SendMessage, Locks, Send
  <2>2. ServerInv' /\ RequestsTyped' /\ ChipsAsked' /\ ComposerInv'
    BY <1>1, <2>1, SendTyped DEF AsksFor, Kinds
  <2> QED
    BY <2>1, <2>2 DEF ClientInv, PageTyped
<1>3. CASE ClickCatalogRow
  <2>1. PICK menu \in MenuName : Click(Call("add_menu", menu, 1, <<>>))
    BY <1>3 DEF ClickCatalogRow
  <2>2. menu \in Name /\ 1 \in Int
    BY DispatcherAssumption DEF DispatcherAssumption
  <2>4. PICK list \in Seq(Option) : list = <<>>
    BY EmptySeq
  <2>3. Call("add_menu", menu, 1, <<>>) \in Calls
    BY <2>2, <2>4, CallType
  <2> QED
    BY <2>1, <2>3, ClickTyped
<1>4. CASE ClickUndo
  BY <1>1, <1>4, ClickTyped DEF ClickUndo
<1>5. CASE ClickReset
  <2>1. /\ Send("reset", NoCall, "", FALSE) /\ Locks("reset")
        /\ popover' = NoLine /\ lit' = {} /\ UNCHANGED <<rendered, inFlight>>
    BY <1>5 DEF ClickReset, Locks, Send
  <2>2. ServerInv' /\ RequestsTyped' /\ ChipsAsked' /\ ComposerInv'
    BY <1>1, <2>1, SendTyped DEF AsksFor, Kinds
  <2> QED
    BY <2>1, <2>2 DEF ClientInv, PageTyped
<1> QED
  BY <1>2, <1>3, <1>4, <1>5

LEMMA UnchangedServer ==
    ASSUME ServerInv, UNCHANGED <<items, history>>
    PROVE  ServerInv'
BY DEF ServerInv, CartInv, WellFormed, HistoryChain, Linked, EndsNow, LinesOrderable

LEMMA UnchangedRequests ==
    ASSUME ClientInv, UNCHANGED <<flight, session, inFlight, version>>
    PROVE  RequestsTyped' /\ ChipsAsked' /\ ComposerInv'
<1>1. Under("chat")' = Under("chat")
  BY DEF Under
<1> HIDE DEF Requests
<1> QED
  BY <1>1 DEF ClientInv, RequestsTyped, ChipsAsked, ComposerInv

LEMMA PickerTyped ==
    ASSUME ClientInv, OpenPicker \/ ClosePicker \/ UNCHANGED vars
    PROVE  ClientInv'
<1>1. UNCHANGED <<items, history, flight, session, inFlight, rendered, version>>
  BY DEF OpenPicker, ClosePicker, vars, cartVars, pageVars
<1>2. ServerInv' /\ RequestsTyped' /\ ChipsAsked' /\ ComposerInv'
  BY <1>1, UnchangedServer, UnchangedRequests DEF ClientInv
<1>3. popover' \in NamedLine \cup {NoLine} /\ lit' \subseteq Option
  <2>1. CASE OpenPicker
    <3>1. PICK i \in DOMAIN rendered : popover' = rendered[i] /\ lit' \subseteq ChosenIn(rendered[i])
      BY <2>1 DEF OpenPicker
    <3>3. rendered[i] \in NamedLine
      BY <3>1, ElementOfSeq DEF ClientInv, PageTyped, NamedCarts
    <3> QED
      BY <3>1, <3>3 DEF ChosenIn
  <2>2. CASE ClosePicker
    BY <2>2 DEF ClosePicker
  <2>3. CASE UNCHANGED vars
    BY <2>3 DEF vars, pageVars, ClientInv, PageTyped
  <2> QED
    BY <2>1, <2>2, <2>3
<1>4. PageTyped'
  BY <1>1, <1>3 DEF ClientInv, PageTyped
<1> QED
  BY <1>2, <1>4 DEF ClientInv

-----------------------------------------------------------------------------
(* A reader beside a chat *)

LEMMA MixedType ==
    ASSUME NEW i, items[i] \in NamedLine, items'[i] \in NamedLine,
           NEW line \in Mixed(i)
    PROVE  line \in NamedLine
<1>1. PICK menu \in {items[i].menu, items'[i].menu},
           options \in {items[i].options, items'[i].options} :
        line = [items[i] EXCEPT !.menu = menu, !.options = options]
  BY DEF Mixed
<1>2. /\ items[i] \in Line /\ items[i].quantity \in Int
      /\ menu \in Name /\ menu \in MenuName /\ options \in OptionBag
  BY <1>1 DEF NamedLine, Line
<1>3. line = [menu |-> menu, quantity |-> items[i].quantity, options |-> options]
  BY <1>1, <1>2, RewrittenLine
<1> QED
  BY <1>2, <1>3 DEF NamedLine, Line

LEMMA GlimpseType ==
    ASSUME ServerInv, ServerInv', NEW glimpse \in Glimpses
    PROVE  glimpse \in NamedCarts
<1>1. items \in NamedCarts /\ items' \in NamedCarts
  BY NamedItems, NamedItemsNext
<1>2. CASE glimpse = <<>>
  BY <1>2, NoLines
<1>3. CASE glimpse # <<>>
  <2>1. PICK q \in DOMAIN flight :
          /\ Len(flight[q].cart) + 1 \in DOMAIN items \cap DOMAIN items'
          /\ glimpse \in {<<line>> : line \in Mixed(Len(flight[q].cart) + 1)}
    BY <1>3 DEF Glimpses
  <2> DEFINE i == Len(flight[q].cart) + 1
  <2>2. items[i] \in NamedLine /\ items'[i] \in NamedLine
    BY <1>1, <2>1, ElementOfSeq DEF NamedCarts
  <2>3. PICK line \in Mixed(i) : glimpse = <<line>>
    BY <2>1
  <2> HIDE DEF i
  <2>4. line \in NamedLine
    BY <2>2, <2>3, MixedType
  <2> QED
    BY <2>3, <2>4 DEF NamedCarts
<1> QED
  BY <1>2, <1>3

\* What is left of the lines, for a reader that has got this far.
LEMMA RestOfLines ==
    ASSUME NEW lines \in NamedCarts, NEW cart \in NamedCarts
    PROVE  cart \o SubSeq(lines, Len(cart) + 1, Len(lines)) \in NamedCarts
<1>1. /\ Len(cart) \in Nat /\ Len(lines) \in Nat
      /\ \A i \in 1 .. Len(lines) : lines[i] \in NamedLine
  BY LenProperties, ElementOfSeq DEF NamedCarts
<1>2. \A i \in Len(cart) + 1 .. Len(lines) : lines[i] \in NamedLine
  BY <1>1
<1>3. SubSeq(lines, Len(cart) + 1, Len(lines)) \in Seq(NamedLine)
  BY <1>1, <1>2, SubSeqProperties
<1> QED
  BY <1>3, ConcatProperties DEF NamedCarts

\* What a change does to a request beside it: nothing, but to a reader.
LEMMA BesideKeeps ==
    ASSUME ServerInv, NEW f \in Requests, NEW glimpse \in NamedCarts,
           NEW g, g = Beside(f, glimpse)
    PROVE  /\ g \in Requests /\ SameRequest(f, g) /\ g.version = f.version
           /\ f.state # "reading" \/ items' = items => g = f
           /\ f.state = "reading" => g.state \in {"reading", "answered"}
<1>1. items \in NamedCarts /\ f.cart \in NamedCarts
  BY NamedItems, RequestParts
<1>2. CASE f.state # "reading" \/ items' = items
  <2>1. g = f
    BY <1>2 DEF Beside
  <2> QED
    BY <1>2, <2>1 DEF SameRequest
<1>3. CASE f.state = "reading" /\ items' # items /\ reply' = "UNDONE"
  <2> DEFINE cart == f.cart \o SubSeq(items, Len(f.cart) + 1, Len(items))
             a == [f EXCEPT !.state = "answered"]
             b == [a EXCEPT !.cart = cart]
  <2>1. cart \in NamedCarts
    BY <1>1, RestOfLines
  <2>2. g = b
    BY <1>3 DEF Beside
  <2> HIDE DEF cart
  <2>3. /\ a \in Requests /\ SameRequest(f, a)
        /\ a.state = "answered" /\ a.version = f.version
    BY StateRestated DEF States
  <2> HIDE DEF a
  <2>4. b \in Requests /\ SameRequest(a, b) /\ b.state = a.state /\ b.version = a.version
    BY <2>1, <2>3, CartRestated
  <2> HIDE DEF b
  <2>5. SameRequest(f, g)
    BY <2>2, <2>3, <2>4 DEF SameRequest
  <2> QED
    BY <1>3, <2>2, <2>3, <2>4, <2>5
<1>4. CASE f.state = "reading" /\ items' # items /\ reply' # "UNDONE"
  <2> DEFINE cart == f.cart \o glimpse
  <2>1. cart \in NamedCarts
    BY <1>1, ConcatProperties DEF NamedCarts
  <2>2. g = [f EXCEPT !.cart = cart]
    BY <1>4 DEF Beside
  <2> HIDE DEF cart
  <2>3. g \in Requests /\ SameRequest(f, g) /\ g.state = f.state /\ g.version = f.version
    BY <2>1, <2>2, CartRestated
  <2> QED
    BY <1>4, <2>3
<1> QED
  BY <1>2, <1>3, <1>4

LEMMA ServedFlight ==
    ASSUME ServerInv, ServerInv', RequestsTyped, NEW r \in DOMAIN flight,
           NEW state \in {"answered", "failed"}, NEW glimpse \in NamedCarts,
           Served(r, state, glimpse)
    PROVE  /\ flight' \in Seq(Requests) /\ Len(flight') = Len(flight)
           /\ DOMAIN flight' = DOMAIN flight
           /\ SameRequest(flight[r], flight'[r])
           /\ flight'[r].state = state /\ flight'[r].cart = items'
           /\ flight'[r].version = version'
           /\ \A q \in DOMAIN flight : q # r => flight'[q] = Beside(flight[q], glimpse)
           /\ version \in Nat /\ version' \in Nat
           /\ version' = (IF items' = items THEN version ELSE version + 1)
<1>1. /\ Len(flight) \in Nat /\ DOMAIN flight = 1 .. Len(flight)
      /\ \A q \in DOMAIN flight : flight[q] \in Requests
  BY FlightPlaces
<1>2. /\ version' = (IF items' = items THEN version ELSE version + 1)
      /\ version \in Nat
  BY DEF Served, RequestsTyped
<1>3. version' \in Nat
  BY <1>2
<1> DEFINE one == [flight[r] EXCEPT !.state = state, !.cart = items', !.version = version']
<1>4. /\ one \in Requests /\ SameRequest(flight[r], one)
      /\ one.state = state /\ one.cart = items' /\ one.version = version'
  <2>1. items' \in NamedCarts /\ state \in States
    BY NamedItemsNext DEF States
  <2>2. flight[r] \in Requests
    BY <1>1
  <2>3. PICK f \in Requests, cart \in NamedCarts, v \in Nat :
          f = flight[r] /\ cart = items' /\ v = version'
    BY <1>3, <2>1, <2>2
  <2>4. one = Restating(f, state, cart, v)
    BY <2>3 DEF Restating
  <2> HIDE DEF one
  <2>5. /\ one \in Requests /\ SameRequest(f, one)
        /\ one.state = state /\ one.cart = cart /\ one.version = v
    BY <2>1, <2>4, Restated
  <2> QED
    BY <2>3, <2>5
<1>5. flight' = [q \in DOMAIN flight |-> IF q = r THEN one ELSE Beside(flight[q], glimpse)]
  BY DEF Served
<1> HIDE DEF one
<1>6. \A q \in DOMAIN flight : Beside(flight[q], glimpse) \in Requests
  BY <1>1, BesideKeeps
<1>7. flight' \in [1 .. Len(flight) -> Requests]
  <2> HIDE DEF Requests
  <2> QED
    BY <1>1, <1>4, <1>5, <1>6
<1>8. flight' \in Seq(Requests) /\ Len(flight') = Len(flight)
  <2> HIDE DEF Requests
  <2> QED
    BY <1>1, <1>7, FunctionIsSeq
<1>9. DOMAIN flight' = DOMAIN flight /\ flight'[r] = one
  BY <1>5
<1>10. \A q \in DOMAIN flight : q # r => flight'[q] = Beside(flight[q], glimpse)
  BY <1>5
<1> QED
  BY <1>2, <1>3, <1>4, <1>8, <1>9, <1>10

\* What becomes of the requests when one is handled.
LEMMA ServedTyped ==
    ASSUME ClientInv, ServerInv', NEW r \in DOMAIN flight, flight[r].state = "sent",
           NEW state \in {"answered", "failed"}, NEW glimpse \in NamedCarts,
           Served(r, state, glimpse)
    PROVE  ClientInv'
<1>1. RequestsTyped /\ ServerInv
  BY DEF ClientInv
<1>2. /\ flight' \in Seq(Requests) /\ Len(flight') = Len(flight)
      /\ DOMAIN flight' = DOMAIN flight
      /\ SameRequest(flight[r], flight'[r]) /\ flight'[r].state = state
      /\ \A q \in DOMAIN flight : q # r => flight'[q] = Beside(flight[q], glimpse)
      /\ version' \in Nat
  BY <1>1, ServedFlight
<1>3. ASSUME NEW q \in DOMAIN flight
      PROVE  /\ SameRequest(flight[q], flight'[q])
             /\ flight'[q].state = "over" <=> flight[q].state = "over"
  <2>1. CASE q = r
    BY <1>2, <2>1
  <2>2. CASE q # r
    <3>1. flight'[q] = Beside(flight[q], glimpse) /\ flight[q] \in Requests
      BY <1>1, <1>2, <2>2, FlightPlaces
    <3>2. /\ SameRequest(flight[q], flight'[q])
          /\ flight[q].state # "reading" => flight'[q] = flight[q]
          /\ flight[q].state = "reading" => flight'[q].state \in {"reading", "answered"}
      BY <1>1, <3>1, BesideKeeps
    <3> QED
      BY <3>2
  <2> QED
    BY <2>1, <2>2
<1>4. UNCHANGED <<session, rendered, popover, lit, inFlight>>
  BY DEF Served, pageVars
<1>5. RequestsTyped' /\ ChipsAsked' /\ ComposerInv'
  BY <1>2, <1>3, <1>4, SameUnder
<1>6. PageTyped'
  BY <1>4 DEF ClientInv, PageTyped
<1> QED
  BY <1>5, <1>6 DEF ClientInv

\* What a change the page will not hear of does to what it is to catch up with.
Excuses(f, state) ==
    excused' = (excused \/ (items' # items /\ (f.gone \/ state = "failed")))

LEMMA HandledTyped ==
    ASSUME ClientInv, NEW r \in DOMAIN flight, HandleChat(r) \/ HandleClick(r)
    PROVE  /\ ServerInv'
           /\ flight[r].state = "sent" /\ flight[r].kind # "get"
           /\ \E state \in {"answered", "failed"}, glimpse \in NamedCarts :
                Served(r, state, glimpse) /\ Excuses(flight[r], state)
<1>1. ServerInv /\ flight[r] \in Requests /\ flight[r].call \in Calls
  BY FlightPlaces, RequestParts DEF ClientInv
<1>2. CASE HandleChat(r)
  <2>1. ServerInv' /\ flight[r].state = "sent" /\ flight[r].kind # "get"
    BY <1>1, <1>2, ChatServer DEF HandleChat
  <2>2. PICK state \in {"answered", "failed"}, glimpse \in Glimpses :
          Served(r, state, glimpse) /\ Excuses(flight[r], state)
    BY <1>2, Zenon DEF HandleChat, Excuses
  <2>3. glimpse \in NamedCarts
    BY <1>1, <2>1, GlimpseType
  <2> QED
    BY <2>1, <2>2, <2>3
<1>3. CASE HandleClick(r)
  <2>1. /\ ServerInv' /\ flight[r].state = "sent" /\ flight[r].kind # "get"
        /\ Served(r, "answered", <<>>)
    BY <1>1, <1>3, ButtonServer, ForgottenServer DEF HandleClick
  <2>2. Excuses(flight[r], "answered")
    <3>1. excused' = (excused \/ (items' # items /\ flight[r].gone))
      BY <1>3, Zenon DEF HandleClick
    <3> QED
      BY <3>1, Zenon DEF Excuses
  <2> QED
    BY <2>1, <2>2, NoLines
<1> QED
  BY <1>2, <1>3

\* A step of a reader: its request alone, and not what it is.
LEMMA ReaderFlight ==
    ASSUME ClientInv, NEW r \in DOMAIN flight,
           ReadBegins(r) \/ ReadLine(r) \/ ReadEnds(r)
    PROVE  \E one \in Requests :
             /\ flight' = [flight EXCEPT ![r] = one]
             /\ SameRequest(flight[r], one)
             /\ flight[r].state \in {"sent", "reading"}
             /\ one.state \in {"reading", "answered"}
             /\ one.state = "answered" => flight[r].state = "reading"
<1>1. flight[r] \in Requests /\ ServerInv /\ version \in Nat
  BY FlightPlaces DEF ClientInv, RequestsTyped
<1>2. CASE ReadBegins(r)
  <2> DEFINE a == [flight[r] EXCEPT !.state = "reading"]
             b == [a EXCEPT !.version = version]
  <2>1. flight' = [flight EXCEPT ![r] = b] /\ flight[r].state = "sent"
    BY <1>2 DEF ReadBegins
  <2>2. a \in Requests /\ SameRequest(flight[r], a) /\ a.state = "reading"
    BY <1>1, StateRestated DEF States
  <2> HIDE DEF a
  <2>3. b \in Requests /\ SameRequest(a, b) /\ b.state = "reading"
    BY <1>1, <2>2, VersionRestated
  <2> HIDE DEF b
  <2>4. SameRequest(flight[r], b)
    BY <2>2, <2>3 DEF SameRequest
  <2> QED
    BY <2>1, <2>3, <2>4
<1>3. CASE ReadLine(r)
  <2> DEFINE cart == Append(flight[r].cart, items[Len(flight[r].cart) + 1])
             one == [flight[r] EXCEPT !.cart = cart]
  <2>1. flight' = [flight EXCEPT ![r] = one] /\ flight[r].state = "reading"
    BY <1>3 DEF ReadLine, Reading
  <2>2. cart \in NamedCarts
    <3>1. items \in NamedCarts /\ flight[r].cart \in NamedCarts
      BY <1>1, NamedItems, RequestParts
    <3>2. Len(flight[r].cart) \in Nat /\ Len(flight[r].cart) + 1 \in 1 .. Len(items)
      <4>1. Len(flight[r].cart) \in Nat /\ Len(items) \in Nat
        BY <3>1, LenProperties DEF NamedCarts
      <4> QED
        BY <1>3, <4>1 DEF ReadLine
    <3>3. items[Len(flight[r].cart) + 1] \in NamedLine
      BY <3>1, <3>2, ElementOfSeq DEF NamedCarts
    <3> QED
      BY <3>1, <3>3, AppendRequest DEF NamedCarts
  <2> HIDE DEF cart
  <2>3. one \in Requests /\ SameRequest(flight[r], one) /\ one.state = "reading"
    BY <1>1, <2>1, <2>2, CartRestated
  <2> HIDE DEF one
  <2> QED
    BY <2>1, <2>3
<1>4. CASE ReadEnds(r)
  <2> DEFINE one == [flight[r] EXCEPT !.state = "answered"]
  <2>1. flight' = [flight EXCEPT ![r] = one] /\ flight[r].state = "reading"
    BY <1>4 DEF ReadEnds, Reading
  <2>2. one \in Requests /\ SameRequest(flight[r], one) /\ one.state = "answered"
    BY <1>1, StateRestated DEF States
  <2> HIDE DEF one
  <2> QED
    BY <2>1, <2>2
<1> QED
  BY <1>2, <1>3, <1>4

LEMMA HandleTyped ==
    ASSUME ClientInv, NEW r, Handle(r)
    PROVE  ClientInv'
<1>1. r \in DOMAIN flight
  BY DEF Handle
<1>2. CASE HandleChat(r) \/ HandleClick(r)
  <2>1. ServerInv' /\ flight[r].state = "sent"
    BY <1>1, <1>2, HandledTyped
  <2>2. PICK state \in {"answered", "failed"}, glimpse \in NamedCarts :
          Served(r, state, glimpse)
    BY <1>1, <1>2, HandledTyped
  <2> QED
    BY <1>1, <2>1, <2>2, ServedTyped
<1>3. CASE ReadBegins(r) \/ ReadLine(r) \/ ReadEnds(r)
  <2>1. PICK one \in Requests :
          /\ flight' = [flight EXCEPT ![r] = one]
          /\ SameRequest(flight[r], one)
          /\ flight[r].state \in {"sent", "reading"}
          /\ one.state \in {"reading", "answered"}
    BY <1>1, <1>3, ReaderFlight
  <2>2. UNCHANGED <<items, history, session, rendered, popover, lit, inFlight, version>>
    BY <1>3 DEF ReadBegins, ReadLine, ReadEnds, pageVars, cartVars
  <2>3. RequestsTyped' /\ ChipsAsked' /\ ComposerInv'
    BY <1>1, <2>1, <2>2, OneRestated
  <2>4. ServerInv'
    BY <2>2, UnchangedServer DEF ClientInv
  <2>5. PageTyped'
    BY <2>2 DEF ClientInv, PageTyped
  <2> QED
    BY <2>3, <2>4, <2>5 DEF ClientInv
<1> QED
  BY <1>2, <1>3 DEF Handle
-----------------------------------------------------------------------------
(* Losing and giving up *)

LEMMA LostFlight ==
    ASSUME ClientInv, NEW r, Lose(r)
    PROVE  /\ r \in DOMAIN flight /\ flight[r].state \in {"sent", "answered"}
           /\ \E one \in Requests :
                /\ flight' = [flight EXCEPT ![r] = one]
                /\ SameRequest(flight[r], one) /\ one.state = "failed"
<1>1. /\ r \in DOMAIN flight /\ flight[r].state \in {"sent", "answered"}
      /\ flight' = [flight EXCEPT ![r].state = "failed"]
  BY DEF Lose
<1>2. flight[r] \in Requests
  BY <1>1, FlightPlaces DEF ClientInv
<1> DEFINE one == [flight[r] EXCEPT !.state = "failed"]
<1>3. flight' = [flight EXCEPT ![r] = one]
  BY <1>1
<1>4. one \in Requests /\ SameRequest(flight[r], one) /\ one.state = "failed"
  BY <1>2, StateRestated DEF States
<1> HIDE DEF one
<1> QED
  BY <1>1, <1>3, <1>4

LEMMA LoseTyped ==
    ASSUME ClientInv, NEW r, Lose(r)
    PROVE  ClientInv'
<1>1. UNCHANGED <<items, history, session, rendered, popover, lit, inFlight, version>>
  BY DEF Lose, cartVars, pageVars
<1>2. r \in DOMAIN flight /\ flight[r].state \in {"sent", "answered"}
  BY LostFlight
<1>3. PICK one \in Requests :
        /\ flight' = [flight EXCEPT ![r] = one]
        /\ SameRequest(flight[r], one) /\ one.state = "failed"
  BY LostFlight
<1>4. RequestsTyped' /\ ChipsAsked' /\ ComposerInv'
  BY <1>1, <1>2, <1>3, OneRestated
<1> QED
  BY <1>1, <1>4, UnchangedServer DEF ClientInv, PageTyped

LEMMA ForgetTyped ==
    ASSUME ClientInv, Forget
    PROVE  ClientInv'
<1>1. /\ Forgotten /\ UNCHANGED <<session, rendered, popover, lit, inFlight, flight>>
      /\ version' = (IF items = <<>> THEN version ELSE version + 1)
  BY DEF Forget, pageVars
<1>2. version \in Nat /\ flight \in Seq(Requests)
  BY DEF ClientInv, RequestsTyped
<1>3. version' \in Nat
  BY <1>1, <1>2
<1>4. \A q \in DOMAIN flight : SameRequest(flight[q], flight'[q])
  BY <1>1 DEF SameRequest
<1>5. RequestsTyped' /\ ChipsAsked' /\ ComposerInv'
  <2> HIDE DEF Requests
  <2> QED
    BY <1>1, <1>2, <1>3, <1>4, SameUnder
<1>6. PageTyped'
  BY <1>1 DEF ClientInv, PageTyped
<1> QED
  BY <1>1, <1>5, <1>6, ForgottenServer DEF ClientInv

\* Giving up the answers under way changes nothing else about the requests.
LEMMA AbandonedKeeps ==
    ASSUME RequestsTyped
    PROVE  /\ Abandoned \in Seq(Requests)
           /\ Len(Abandoned) = Len(flight)
           /\ DOMAIN Abandoned = DOMAIN flight
           /\ \A r \in DOMAIN flight :
                /\ Abandoned[r].gone /\ Abandoned[r].kind = flight[r].kind
                /\ Abandoned[r].state = flight[r].state
                /\ Abandoned[r].call = flight[r].call /\ Abandoned[r].chip = flight[r].chip
                /\ Abandoned[r].on = flight[r].on
                /\ Abandoned[r].cart = flight[r].cart
                /\ Abandoned[r].version = flight[r].version
<1>1. /\ Len(flight) \in Nat /\ DOMAIN flight = 1 .. Len(flight)
      /\ \A r \in DOMAIN flight : flight[r] \in Requests
  BY FlightPlaces
<1>2. ASSUME NEW r \in DOMAIN flight
      PROVE  /\ Abandoned[r] \in Requests
             /\ Abandoned[r].gone /\ Abandoned[r].kind = flight[r].kind
             /\ Abandoned[r].state = flight[r].state
             /\ Abandoned[r].call = flight[r].call /\ Abandoned[r].chip = flight[r].chip
             /\ Abandoned[r].on = flight[r].on
             /\ Abandoned[r].cart = flight[r].cart
             /\ Abandoned[r].version = flight[r].version
  BY <1>1, <1>2 DEF Requests, Abandoned
<1> HIDE DEF Requests
<1>3. DOMAIN Abandoned = 1 .. Len(flight) /\ Abandoned \in [1 .. Len(flight) -> Requests]
  BY <1>1, <1>2 DEF Abandoned
<1>4. Abandoned \in Seq(Requests) /\ Len(Abandoned) = Len(flight)
  BY <1>1, <1>3, FunctionIsSeq
<1> QED
  BY <1>1, <1>2, <1>3, <1>4

\* What a reload makes of the requests: all given up, and perhaps a new one.
LEMMA ReloadFlight ==
    ASSUME ClientInv, Reload
    PROVE  LET get == Request("get", NoCall, "", FALSE)
           IN  /\ Fresh(get, "get", NoCall, "", FALSE)
               /\ flight' \in Seq(Requests) /\ Len(flight') <= MaxRequests
               /\ \A q \in DOMAIN flight' :
                    \/ q \in DOMAIN flight /\ flight'[q] = Abandoned[q]
                    \/ flight'[q] = get /\ session
               /\ session => \E q \in DOMAIN flight' : flight'[q] = get
<1> DEFINE get == Request("get", NoCall, "", FALSE)
           m == Len(flight)
           n == m + 1
<1>1. m \in Nat /\ DOMAIN flight = 1 .. m /\ Len(flight) <= MaxRequests
  BY FlightPlaces DEF ClientInv, RequestsTyped
<1>2. /\ Abandoned \in Seq(Requests) /\ Len(Abandoned) = m
      /\ DOMAIN Abandoned = DOMAIN flight
  BY AbandonedKeeps DEF ClientInv
<1>3. \/ ~session /\ flight' = Abandoned
      \/ session /\ m < MaxRequests /\ flight' = Append(Abandoned, get)
  BY DEF Reload
<1>4. Fresh(get, "get", NoCall, "", FALSE)
  <2>1. NoCall \in Calls /\ "" \in Chips /\ "get" \in Kinds
    BY DEF Calls, Chips, Kinds
  <2> QED
    BY <2>1, NewRequest, Zenon
<1> HIDE DEF get, Requests
<1>5. CASE ~session /\ flight' = Abandoned
  <2>1. /\ flight' \in Seq(Requests) /\ Len(flight') <= MaxRequests
        /\ \A q \in DOMAIN flight' : q \in DOMAIN flight /\ flight'[q] = Abandoned[q]
    BY <1>1, <1>2, <1>5
  <2> QED
    BY <1>4, <1>5, <2>1 DEF get
<1>6. CASE session /\ m < MaxRequests /\ flight' = Append(Abandoned, get)
  <2>1. get \in Requests
    BY <1>4 DEF Fresh
  <2>2. /\ flight' \in Seq(Requests) /\ Len(flight') = Len(Abandoned) + 1
        /\ DOMAIN flight' = 1 .. Len(Abandoned) + 1
        /\ \A q \in DOMAIN Abandoned : flight'[q] = Abandoned[q]
        /\ flight'[Len(Abandoned) + 1] = get
    BY <1>2, <1>6, <2>1, AppendRequest
  <2>3. Len(flight') <= MaxRequests
    BY <1>1, <1>2, <1>6, <2>2, ClientAssumption DEF ClientAssumption
  <2>4. DOMAIN flight' = DOMAIN flight \cup {n} /\ flight'[n] = get
    BY <1>1, <1>2, <2>2, OneMore
  <2>5. \A q \in DOMAIN flight' :
          (q \in DOMAIN flight /\ flight'[q] = Abandoned[q]) \/ flight'[q] = get
    BY <1>2, <2>2, <2>4
  <2>6. \E q \in DOMAIN flight' : flight'[q] = get
    BY <2>4
  <2> QED
    BY <1>4, <1>6, <2>2, <2>3, <2>5, <2>6 DEF get
<1> QED
  BY <1>3, <1>5, <1>6

LEMMA ReloadTyped ==
    ASSUME ClientInv, Reload
    PROVE  ClientInv'
<1> DEFINE get == Request("get", NoCall, "", FALSE)
<1>1. \A q \in DOMAIN flight :
           /\ Abandoned[q].gone /\ Abandoned[q].kind = flight[q].kind
           /\ Abandoned[q].call = flight[q].call /\ Abandoned[q].chip = flight[q].chip
           /\ Abandoned[q].on = flight[q].on
  BY AbandonedKeeps DEF ClientInv
<1>2. /\ UNCHANGED <<items, history, session, version>> /\ rendered' = <<>>
      /\ popover' = NoLine /\ lit' = {} /\ inFlight' = FALSE
  BY DEF Reload, cartVars
<1>3. /\ Fresh(get, "get", NoCall, "", FALSE)
      /\ flight' \in Seq(Requests) /\ Len(flight') <= MaxRequests
      /\ \A q \in DOMAIN flight' :
           (q \in DOMAIN flight /\ flight'[q] = Abandoned[q]) \/ flight'[q] = get
  BY ReloadFlight
<1> HIDE DEF get
<1>4. get.kind = "get"
  BY <1>3 DEF Fresh
<1>5. ServerInv'
  BY <1>2, UnchangedServer DEF ClientInv
<1>6. RequestsTyped'
  BY <1>2, <1>3 DEF ClientInv, RequestsTyped
<1>7. ChipsAsked'
  <2>1. ChipAsked(get)
    BY <1>4 DEF ChipAsked, AsksFor
  <2>2. ASSUME NEW q \in DOMAIN flight PROVE ChipAsked(Abandoned[q])
    <3>1. ChipAsked(flight[q])
      BY <2>2 DEF ClientInv, ChipsAsked
    <3> QED
      BY <1>1, <2>2, <3>1 DEF ChipAsked
  <2> QED
    BY <1>3, <2>1, <2>2 DEF ChipsAsked
<1>8. ComposerInv'
  <2>1. \A q \in DOMAIN flight' : flight'[q].kind # "chat" \/ flight'[q].gone
    BY <1>1, <1>3, <1>4
  <2>2. Under("chat")' = {}
    BY <2>1 DEF Under
  <2> QED
    BY <1>2, <2>2 DEF ComposerInv
<1>9. PageTyped'
  BY <1>2, NoLines DEF PageTyped
<1> QED
  BY <1>5, <1>6, <1>7, <1>8, <1>9 DEF ClientInv

-----------------------------------------------------------------------------
(* Answers *)

LEMMA ReturnFlight ==
    ASSUME ClientInv, NEW r, Return(r)
    PROVE  /\ r \in DOMAIN flight /\ ~flight[r].gone
           /\ DOMAIN flight' = DOMAIN flight /\ Len(flight') = Len(flight)
           /\ flight' \in Seq(Requests)
           /\ flight'[r].kind = "over" /\ flight'[r].state = "over"
           /\ \A q \in DOMAIN flight : q # r => flight'[q] = flight[q]
<1> DEFINE done == [Request("over", NoCall, "", FALSE) EXCEPT !.state = "over"]
<1>1. /\ r \in DOMAIN flight /\ ~flight[r].gone
      /\ flight' = [flight EXCEPT ![r] = done]
  BY DEF Return, Over
<1>2. done \in Requests /\ done.kind = "over" /\ done.state = "over"
  BY OverRequest
<1> HIDE DEF done
<1> QED
  BY <1>1, <1>2, OneChanged DEF ClientInv

LEMMA ReturnTyped ==
    ASSUME ClientInv, NEW r, Return(r)
    PROVE  ClientInv'
<1>1. /\ r \in DOMAIN flight /\ ~flight[r].gone
      /\ DOMAIN flight' = DOMAIN flight /\ Len(flight') = Len(flight)
      /\ flight' \in Seq(Requests)
      /\ flight'[r].kind = "over" /\ flight'[r].state = "over"
      /\ \A q \in DOMAIN flight : q # r => flight'[q] = flight[q]
  BY ReturnFlight
<1>2. flight[r] \in Requests
  BY <1>1, FlightPlaces DEF ClientInv
<1>5. ServerInv'
  <2>1. CASE ResetReturns(r)
    BY <2>1, ForgottenServer DEF ResetReturns, PageReset
  <2>2. CASE UNCHANGED <<items, history>>
    BY <2>2, UnchangedServer DEF ClientInv
  <2> QED
    BY <2>1, <2>2
       DEF Return, ChatAnswered, ChatFailed, ButtonAnswered, ButtonFailed, CartFetched, cartVars
<1>6. RequestsTyped'
  <2>1. session' = session \/ session' = FALSE
    BY DEF Return, ChatAnswered, ChatFailed, ButtonAnswered, ButtonFailed, CartFetched,
           ResetReturns, PageReset, pageVars
  <2>2. version' = version \/ version' = version + 1
    BY DEF Return, ChatAnswered, ChatFailed, ButtonAnswered, ButtonFailed, CartFetched,
           ResetReturns, PageReset
  <2>3. session \in BOOLEAN /\ version \in Nat /\ Len(flight) <= MaxRequests
    BY DEF ClientInv, RequestsTyped
  <2>4. session' \in BOOLEAN
    <3>1. session \in BOOLEAN
      BY <2>3
    <3> QED
      BY <2>1, <3>1, Zenon
  <2>5. version' \in Nat
    <3>1. version \in Nat
      BY <2>3
    <3> QED
      BY <2>2, <3>1
  <2> HIDE DEF Requests
  <2> QED
    BY <1>1, <2>3, <2>4, <2>5 DEF RequestsTyped
<1>7. ChipsAsked'
  <2>1. ChipAsked(flight'[r])
    BY <1>1 DEF ChipAsked, AsksFor
  <2>2. \A q \in DOMAIN flight : ChipAsked(flight[q])
    BY DEF ClientInv, ChipsAsked
  <2> QED
    BY <1>1, <2>1, <2>2 DEF ChipsAsked
<1>8. Under("chat")' = Under("chat") \ {r}
  <2>1. \A q : q \in Under("chat") <=> /\ q \in DOMAIN flight /\ flight[q].kind = "chat"
                                       /\ flight[q].state # "over" /\ ~flight[q].gone
    BY DEF Under
  <2>2. \A q : q \in Under("chat")' <=> /\ q \in DOMAIN flight' /\ flight'[q].kind = "chat"
                                        /\ flight'[q].state # "over" /\ ~flight'[q].gone
    BY DEF Under
  <2>3. \A q : q \in Under("chat")' <=> q \in Under("chat") \ {r}
    BY <1>1, <2>1, <2>2
  <2> QED
    BY <2>3
<1>9. ComposerInv'
  <2>1. CASE ChatAnswered(r) \/ ChatFailed(r)
    <3>1. flight[r].kind = "chat" /\ flight[r].state # "over" /\ inFlight' = FALSE
      BY <2>1 DEF ChatAnswered, ChatFailed
    <3>2. r \in Under("chat")
      BY <1>1, <3>1 DEF Under
    <3>3. Under("chat")' = {}
      BY <1>8, <3>2 DEF ClientInv, ComposerInv
    <3> QED
      BY <3>1, <3>3 DEF ComposerInv
  <2>2. CASE ButtonAnswered(r) \/ ButtonFailed(r) \/ CartFetched(r) \/ ResetReturns(r)
    <3>1. flight[r].kind # "chat" /\ inFlight' = inFlight
      BY <2>2 DEF ButtonAnswered, ButtonFailed, CartFetched, ResetReturns, PageReset, pageVars
    <3>2. r \notin Under("chat")
      BY <3>1 DEF Under
    <3>3. Under("chat")' = Under("chat")
      BY <1>8, <3>2
    <3> QED
      BY <3>1, <3>3 DEF ClientInv, ComposerInv
  <2> QED
    BY <2>1, <2>2 DEF Return
<1>10. PageTyped'
  <2>1. rendered' = rendered \/ rendered' = flight[r].cart \/ rendered' = <<>>
    BY DEF Return, ChatAnswered, ChatFailed, ButtonAnswered, ButtonFailed, CartFetched,
           ResetReturns, PageReset, RenderCart, pageVars
  <2>2. popover' = popover \/ popover' = NoLine
    BY DEF Return, ChatAnswered, ChatFailed, ButtonAnswered, ButtonFailed, CartFetched,
           ResetReturns, PageReset, pageVars
  <2>3. lit' \subseteq Option
    <3>1. lit' = lit \/ lit' = {} \/ ButtonAnswered(r)
      BY DEF Return, ChatAnswered, ChatFailed, ButtonFailed, CartFetched,
             ResetReturns, PageReset, pageVars
    <3>2. ButtonAnswered(r) => lit' \subseteq Option
      BY DEF ButtonAnswered, ChosenIn
    <3> QED
      BY <3>1, <3>2 DEF ClientInv, PageTyped
  <2>4. inFlight' = inFlight \/ inFlight' = FALSE
    BY DEF Return, ChatAnswered, ChatFailed, ButtonAnswered, ButtonFailed, CartFetched,
           ResetReturns, PageReset, pageVars
  <2>5. flight[r].cart \in NamedCarts
    BY <1>2, RequestParts
  <2> QED
    BY <2>1, <2>2, <2>3, <2>4, <2>5, NoLines DEF ClientInv, PageTyped
<1> QED
  BY <1>5, <1>6, <1>7, <1>9, <1>10 DEF ClientInv

LEMMA ResetAtOnceTyped ==
    ASSUME ClientInv, ResetAtOnce
    PROVE  ClientInv'
<1>1. /\ rendered' = <<>> /\ popover' = NoLine /\ lit' = {}
      /\ UNCHANGED <<items, history, session, version, inFlight, flight>>
  BY DEF ResetAtOnce, cartVars
<1>2. RequestsTyped' /\ ChipsAsked' /\ ComposerInv'
  BY <1>1, UnchangedRequests
<1>3. PageTyped'
  BY <1>1, NoLines DEF ClientInv, PageTyped
<1> QED
  BY <1>1, <1>2, <1>3, UnchangedServer DEF ClientInv

LEMMA ClientInitially == ClientInit => ClientInv
<1> SUFFICES ASSUME ClientInit PROVE ClientInv
  OBVIOUS
<1>1. /\ Init /\ items = <<>> /\ history = <<>> /\ session = FALSE /\ rendered = <<>>
      /\ popover = NoLine /\ lit = {} /\ inFlight = FALSE /\ flight = <<>> /\ version = 1
  BY DEF ClientInit, Init
<1>2. \A S : <<>> \in Seq(S)
  BY EmptySeq
<1>3. Len(<<>>) = 0 /\ DOMAIN <<>> = {}
  OBVIOUS
<1>4. ServerInv
  BY <1>1, <1>3, InitInv DEF ServerInv, LinesOrderable
<1>5. RequestsTyped
  <2>1. flight \in Seq(Requests) /\ Len(flight) <= MaxRequests
    BY <1>1, <1>2, <1>3, ClientAssumption DEF ClientAssumption
  <2>2. session \in BOOLEAN /\ version \in Nat
    BY <1>1
  <2> QED
    BY <2>1, <2>2 DEF RequestsTyped
<1>6. PageTyped
  BY <1>1, NoLines DEF PageTyped
<1>7. Under("chat") = {}
  BY <1>1, <1>3 DEF Under
<1> QED
  BY <1>1, <1>3, <1>4, <1>5, <1>6, <1>7 DEF ClientInv, ChipsAsked, ComposerInv

LEMMA ClientStep == ClientInv /\ [ClientNext]_vars => ClientInv'
<1> SUFFICES ASSUME ClientInv, [ClientNext]_vars PROVE ClientInv'
  OBVIOUS
<1>1. CASE SendMessage \/ ClickCatalogRow \/ ClickUndo \/ ClickReset
  BY <1>1, PageClicksTyped
<1>2. CASE ClickLine
  BY <1>2, ClickLineTyped
<1>3. CASE ClickChip
  BY <1>3, ClickChipTyped
<1>4. CASE OpenPicker \/ ClosePicker \/ UNCHANGED vars
  BY <1>4, PickerTyped
<1>5. CASE ResetAtOnce
  BY <1>5, ResetAtOnceTyped
<1>6. CASE Reload
  BY <1>6, ReloadTyped
<1>7. CASE Forget
  BY <1>7, ForgetTyped
<1>8. CASE \E r \in 1 .. MaxRequests : Handle(r) \/ Lose(r) \/ Return(r)
  BY <1>8, HandleTyped, LoseTyped, ReturnTyped
<1> QED
  BY <1>1, <1>2, <1>3, <1>4, <1>5, <1>6, <1>7, <1>8 DEF ClientNext
-----------------------------------------------------------------------------
(* What the page shows *)

\* How far a fetch has got in the lines.
Begun(cart, lines) ==
    /\ Len(cart) <= Len(lines)
    /\ \A i \in 1 .. Len(cart) : cart[i] = lines[i]

\* No answer is newer than the cart.  One that is as new carries the cart, and a
\* fetch that is as new the part of it read so far.
Current(f, lines, v) ==
    /\ f.version <= v
    /\ f.state = "sent" => f.cart = <<>>
    /\ f.state = "answered" /\ f.version = v => f.cart = lines
    /\ f.state = "reading" /\ f.version = v => Begun(f.cart, lines)

\* What the page will still hear of the newest cart.
Telling(f, v) ==
    /\ ~f.gone
    /\ \/ f.state \in {"answered", "reading"} /\ f.version = v
       \/ f.kind = "get" /\ f.state = "sent"

Versions == version # 0 /\ shown \in Nat /\ shown <= version /\ excused \in BOOLEAN

NewestShown == shown = version => rendered = items

AnswersCurrent == \A r \in DOMAIN flight : Current(flight[r], items, version)

\* Until the page has caught up something is on its way to it that will tell.
NewestOnItsWay ==
    ~excused /\ shown # version => \E r \in DOMAIN flight : Telling(flight[r], version)

\* While the page has no session there is no cart, nor a request to make one.
NothingWithout ==
    ~session => /\ items = <<>>
                /\ \A r \in DOMAIN flight : flight[r].state \notin {"sent", "reading"}

PageInv == Versions /\ NewestShown /\ AnswersCurrent /\ NewestOnItsWay /\ NothingWithout

LEMMA CurrentLater ==
    ASSUME NEW f \in Requests, NEW v \in Nat, NEW lines, NEW later, Current(f, lines, v)
    PROVE  Current(f, later, v + 1)
<1>1. f.version \in Nat /\ f.version <= v
  BY RequestParts DEF Current
<1>2. f.version <= v + 1 /\ f.version # v + 1
  BY <1>1
<1> QED
  BY <1>2 DEF Current

LEMMA BegunToEnd ==
    ASSUME NEW lines \in NamedCarts, NEW cart \in NamedCarts,
           Begun(cart, lines), Len(cart) >= Len(lines)
    PROVE  cart = lines
<1>1. /\ Len(cart) \in Nat /\ DOMAIN cart = 1 .. Len(cart)
      /\ Len(lines) \in Nat /\ DOMAIN lines = 1 .. Len(lines)
  BY LenProperties DEF NamedCarts
<1>2. Len(cart) <= Len(lines) /\ \A i \in 1 .. Len(cart) : cart[i] = lines[i]
  BY DEF Begun
<1>3. Len(cart) = Len(lines)
  <2>1. \A m \in Nat, n \in Nat : m <= n /\ m >= n => m = n
    OBVIOUS
  <2>2. Len(cart) \in Nat /\ Len(lines) \in Nat
    BY <1>1
  <2> QED
    BY <1>2, <2>1, <2>2, Zenon
<1> QED
  BY <1>2, <1>3, SeqEqual DEF NamedCarts

LEMMA BegunFurther ==
    ASSUME NEW lines \in NamedCarts, NEW cart \in NamedCarts,
           Begun(cart, lines), Len(cart) < Len(lines)
    PROVE  Begun(Append(cart, lines[Len(cart) + 1]), lines)
<1> DEFINE n == Len(cart) + 1
           line == lines[n]
<1>1. /\ Len(cart) \in Nat /\ DOMAIN cart = 1 .. Len(cart)
      /\ Len(lines) \in Nat
  BY LenProperties DEF NamedCarts
<1>2. n \in 1 .. Len(lines) /\ n <= Len(lines)
  BY <1>1
<1>3. line \in NamedLine
  BY <1>2, ElementOfSeq DEF NamedCarts
<1> HIDE DEF line
<1>4. /\ Len(Append(cart, line)) = n /\ Append(cart, line)[n] = line
      /\ \A i \in 1 .. Len(cart) : Append(cart, line)[i] = cart[i]
  BY <1>1, <1>3, AppendRequest DEF NamedCarts
<1>5. \A i \in 1 .. n : i \in 1 .. Len(cart) \/ i = n
  BY <1>1
<1>6. \A i \in 1 .. n : Append(cart, line)[i] = lines[i]
  <2>1. line = lines[n]
    BY DEF line
  <2> HIDE DEF n
  <2> QED
    BY <1>4, <1>5, <2>1 DEF Begun
<1>7. Append(cart, lines[Len(cart) + 1]) = Append(cart, line)
  BY DEF line
<1> HIDE DEF n
<1> QED
  BY <1>2, <1>4, <1>6, <1>7 DEF Begun

\* A step that leaves the cart, its version and what the page shows alone.
LEMMA NewestStays ==
    ASSUME PageInv, UNCHANGED <<items, version, shown, rendered, excused>>
    PROVE  Versions' /\ NewestShown'
BY DEF PageInv, Versions, NewestShown

LEMMA UnseenKeeps ==
    ASSUME PageInv, UNCHANGED <<items, version, shown, rendered, excused, session, flight>>
    PROVE  PageInv'
BY DEF PageInv, Versions, NewestShown, AnswersCurrent, NewestOnItsWay, NothingWithout

LEMMA SendKeeps ==
    ASSUME NEW kind, NEW call, NEW chip, NEW on,
           ClientInv, PageInv, Send(kind, call, chip, on)
    PROVE  PageInv'
<1> DEFINE new == Request(kind, call, chip, on)
           n == Len(flight) + 1
<1>1. /\ flight' = Append(flight, new) /\ session' = TRUE
      /\ UNCHANGED <<items, version, shown, rendered, excused>>
  BY DEF Send, cartVars
<1>2. new.state = "sent" /\ new.cart = <<>> /\ new.version = 0
  BY DEF Request
<1> HIDE DEF new
<1>3. /\ flight \in Seq(Requests) /\ Len(flight) \in Nat /\ DOMAIN flight = 1 .. Len(flight)
      /\ version \in Nat
  BY FlightPlaces DEF ClientInv, RequestsTyped
<1>4. /\ DOMAIN flight' = DOMAIN flight \cup {n} /\ flight'[n] = new
      /\ \A q \in DOMAIN flight : flight'[q] = flight[q]
  <2>1. flight \in Seq(Requests \cup {new}) /\ new \in Requests \cup {new}
    <3>1. \A q \in DOMAIN flight : flight[q] \in Requests \cup {new}
      BY FlightPlaces DEF ClientInv
    <3> QED
      BY <1>3, <3>1, ElementsInSeq
  <2> HIDE DEF Requests
  <2>2. /\ DOMAIN flight' = 1 .. Len(flight) + 1
        /\ \A q \in DOMAIN flight : flight'[q] = flight[q]
        /\ flight'[Len(flight) + 1] = new
    BY <1>1, <2>1, AppendRequest
  <2> QED
    BY <1>3, <2>2, OneMore
<1> HIDE DEF n, Requests
<1>5. Versions' /\ NewestShown'
  BY <1>1, NewestStays
<1>6. AnswersCurrent'
  <2>1. Current(new, items, version)
    <3>1. new.version <= version
      BY <1>2, <1>3
    <3>2. new.state # "answered" /\ new.state # "reading"
      BY <1>2
    <3> QED
      BY <1>2, <3>1, <3>2 DEF Current
  <2>2. \A q \in DOMAIN flight : Current(flight[q], items, version)
    BY DEF PageInv, AnswersCurrent
  <2> QED
    BY <1>1, <1>4, <2>1, <2>2 DEF AnswersCurrent
<1>7. NewestOnItsWay'
  <2>1. (\E q \in DOMAIN flight : Telling(flight[q], version))
          => \E q \in DOMAIN flight' : Telling(flight'[q], version')
    BY <1>1, <1>4
  <2> QED
    BY <1>1, <2>1 DEF PageInv, NewestOnItsWay
<1>8. NothingWithout'
  BY <1>1 DEF NothingWithout
<1> QED
  BY <1>5, <1>6, <1>7, <1>8 DEF PageInv

LEMMA ClickKeeps ==
    ASSUME NEW call, ClientInv, PageInv, Click(call)
    PROVE  PageInv'
BY SendKeeps DEF Click

LEMMA ForgetKeeps ==
    ASSUME ClientInv, PageInv, Forget
    PROVE  PageInv'
<1>1. /\ items' = <<>> /\ UNCHANGED <<session, rendered, shown, flight>>
      /\ version' = (IF items = <<>> THEN version ELSE version + 1)
      /\ excused' = (excused \/ items # <<>>)
      /\ session
  BY DEF Forget, Forgotten, pageVars
<1>2. version \in Nat /\ \A q \in DOMAIN flight : flight[q] \in Requests
  BY FlightPlaces DEF ClientInv, RequestsTyped
<1>3. CASE items = <<>>
  <2>1. UNCHANGED <<items, version>> /\ excused' = (excused \/ FALSE)
    BY <1>1, <1>3
  <2>2. excused' = excused
    BY <2>1 DEF PageInv, Versions
  <2> QED
    BY <1>1, <2>1, <2>2, UnseenKeeps
<1>4. CASE items # <<>>
  <2>1. version' = version + 1 /\ excused' = TRUE
    BY <1>1, <1>4
  <2>2. shown \in Nat /\ shown <= version
    BY DEF PageInv, Versions
  <2>3. version' # 0 /\ shown' \in Nat /\ shown' <= version' /\ shown' # version'
    BY <1>1, <1>2, <2>1, <2>2
  <2>4. AnswersCurrent'
    <3>1. \A q \in DOMAIN flight : Current(flight[q], items', version + 1)
      BY <1>2, CurrentLater DEF PageInv, AnswersCurrent
    <3> QED
      BY <1>1, <2>1, <3>1 DEF AnswersCurrent
  <2>5. Versions' /\ NewestShown' /\ NewestOnItsWay' /\ NothingWithout'
    BY <1>1, <2>1, <2>3 DEF Versions, NewestShown, NewestOnItsWay, NothingWithout
  <2> QED
    BY <2>4, <2>5 DEF PageInv
<1> QED
  BY <1>3, <1>4

LEMMA LoseKeeps ==
    ASSUME NEW r, ClientInv, PageInv, Lose(r)
    PROVE  PageInv'
<1>1. /\ UNCHANGED <<items, session, rendered, shown, version>>
      /\ excused' = (\/ excused
                     \/ /\ ~flight[r].gone
                        /\ \/ flight[r].kind = "get"
                           \/ flight[r].state = "answered" /\ flight[r].version > shown)
  BY DEF Lose, cartVars, pageVars
<1>2. r \in DOMAIN flight /\ flight[r].state \in {"sent", "answered"}
  BY LostFlight
<1>3. PICK one \in Requests :
        /\ flight' = [flight EXCEPT ![r] = one]
        /\ SameRequest(flight[r], one) /\ one.state = "failed"
  BY LostFlight
<1>4. /\ DOMAIN flight' = DOMAIN flight /\ flight'[r] = one
      /\ \A q \in DOMAIN flight : q # r => flight'[q] = flight[q]
  BY <1>2, <1>3, OneChanged DEF ClientInv
<1>5. /\ version \in Nat /\ flight[r].version \in Nat /\ flight[r].version <= version
      /\ shown \in Nat /\ shown <= version
  BY <1>2, FlightPlaces, RequestParts
     DEF ClientInv, RequestsTyped, PageInv, AnswersCurrent, Current, Versions
<1>6. one.version = flight[r].version
  <2>1. flight'[r] = [flight[r] EXCEPT !.state = "failed"]
    BY <1>2 DEF Lose
  <2>2. flight[r] \in Requests
    BY <1>2, FlightPlaces DEF ClientInv
  <2>3. [flight[r] EXCEPT !.state = "failed"].version = flight[r].version
    BY <2>2 DEF Requests
  <2> QED
    BY <1>4, <2>1, <2>3
<1>7. Versions' /\ NewestShown'
  <2>1. excused' \in BOOLEAN
    BY <1>1, Zenon
  <2> QED
    BY <1>1, <2>1 DEF PageInv, Versions, NewestShown
<1>8. AnswersCurrent'
  <2>1. Current(one, items, version)
    BY <1>3, <1>5, <1>6 DEF Current
  <2> QED
    BY <1>1, <1>4, <2>1 DEF PageInv, AnswersCurrent
<1>9. NewestOnItsWay'
  <2> SUFFICES ASSUME ~excused', shown # version
               PROVE  \E q \in DOMAIN flight : Telling(flight'[q], version)
    BY <1>1, <1>4 DEF NewestOnItsWay
  <2>1. ~excused
    BY <1>1
  <2>2. PICK q \in DOMAIN flight : Telling(flight[q], version)
    BY <2>1 DEF PageInv, NewestOnItsWay
  <2>3. CASE q = r
    <3>1. flight[r].version = version => flight[r].version > shown
      BY <1>5
    <3> QED
      BY <1>1, <1>2, <2>2, <2>3, <3>1 DEF Telling
  <2>4. CASE q # r
    BY <1>4, <2>2, <2>4
  <2> QED
    BY <2>3, <2>4
<1>10. NothingWithout'
  BY <1>1, <1>3, <1>4 DEF PageInv, NothingWithout
<1> QED
  BY <1>7, <1>8, <1>9, <1>10 DEF PageInv

LEMMA ReloadKeeps ==
    ASSUME ClientInv, PageInv, Reload
    PROVE  PageInv'
<1> DEFINE get == Request("get", NoCall, "", FALSE)
<1>1. \A q \in DOMAIN flight :
           /\ Abandoned[q].state = flight[q].state
           /\ Abandoned[q].cart = flight[q].cart
           /\ Abandoned[q].version = flight[q].version
  BY AbandonedKeeps DEF ClientInv
<1>2. /\ UNCHANGED <<items, session, version>> /\ rendered' = <<>> /\ excused' = FALSE
      /\ ~session => shown' = version
      /\ session => shown' = 0
  BY DEF Reload, cartVars
<1>3. /\ Fresh(get, "get", NoCall, "", FALSE)
      /\ \A q \in DOMAIN flight' :
           \/ q \in DOMAIN flight /\ flight'[q] = Abandoned[q]
           \/ flight'[q] = get /\ session
      /\ session => \E q \in DOMAIN flight' : flight'[q] = get
  BY ReloadFlight
<1> HIDE DEF get
<1>4. get.kind = "get" /\ get.state = "sent" /\ get.cart = <<>> /\ get.version = 0 /\ ~get.gone
  BY <1>3 DEF Fresh
<1>5. version \in Nat /\ version # 0
  BY DEF ClientInv, RequestsTyped, PageInv, Versions
<1>6. AnswersCurrent'
  <2>1. Current(get, items, version)
    <3>1. get.version <= version
      BY <1>4, <1>5
    <3>2. get.state # "answered" /\ get.state # "reading"
      BY <1>4
    <3> QED
      BY <1>4, <3>1, <3>2 DEF Current
  <2>2. \A q \in DOMAIN flight : Current(Abandoned[q], items, version)
    BY <1>1 DEF Current, PageInv, AnswersCurrent
  <2> QED
    BY <1>2, <1>3, <2>1, <2>2 DEF AnswersCurrent
<1>7. NothingWithout'
  BY <1>1, <1>2, <1>3 DEF PageInv, NothingWithout
<1>8. CASE session
  <2>1. shown' = 0 /\ shown' # version' /\ 0 \in Nat /\ 0 <= version
    BY <1>2, <1>5, <1>8
  <2>2. PICK q \in DOMAIN flight' : flight'[q] = get
    BY <1>3, <1>8
  <2>3. Telling(flight'[q], version')
    BY <1>4, <2>2 DEF Telling
  <2>4. Versions' /\ NewestShown' /\ NewestOnItsWay'
    BY <1>2, <1>5, <2>1, <2>3 DEF Versions, NewestShown, NewestOnItsWay
  <2> QED
    BY <1>6, <1>7, <2>4 DEF PageInv
<1>9. CASE ~session
  <2>1. shown' = version' /\ rendered' = items' /\ version <= version
    BY <1>2, <1>5, <1>9 DEF PageInv, NothingWithout
  <2>2. Versions' /\ NewestShown' /\ NewestOnItsWay'
    BY <1>2, <1>5, <2>1 DEF Versions, NewestShown, NewestOnItsWay
  <2> QED
    BY <1>6, <1>7, <2>2 DEF PageInv
<1> QED
  BY <1>8, <1>9

LEMMA ResetAtOnceKeeps ==
    ASSUME ClientInv, PageInv, ResetAtOnce
    PROVE  PageInv'
<1>1. /\ UNCHANGED <<items, session, version, flight>> /\ ~session /\ rendered' = <<>>
      /\ shown' = version /\ excused' = FALSE
  BY DEF ResetAtOnce, cartVars
<1>2. version \in Nat /\ version <= version
  BY DEF ClientInv, RequestsTyped
<1>3. items = <<>>
  BY <1>1 DEF PageInv, NothingWithout
<1> QED
  BY <1>1, <1>2, <1>3
     DEF PageInv, Versions, NewestShown, AnswersCurrent, NewestOnItsWay, NothingWithout
-----------------------------------------------------------------------------
(* The server's steps, as the page will hear of them *)

LEMMA ServedKeeps ==
    ASSUME ClientInv, ServerInv', PageInv, NEW r \in DOMAIN flight,
           flight[r].state = "sent", flight[r].kind # "get",
           NEW state \in {"answered", "failed"}, NEW glimpse \in NamedCarts,
           Served(r, state, glimpse), Excuses(flight[r], state)
    PROVE  PageInv'
<1>1. /\ DOMAIN flight' = DOMAIN flight
      /\ SameRequest(flight[r], flight'[r])
      /\ flight'[r].state = state /\ flight'[r].cart = items'
      /\ flight'[r].version = version'
      /\ \A q \in DOMAIN flight : q # r => flight'[q] = Beside(flight[q], glimpse)
      /\ version \in Nat /\ version' \in Nat
      /\ version' = (IF items' = items THEN version ELSE version + 1)
  BY ServedFlight DEF ClientInv
<1>2. UNCHANGED <<session, rendered, shown>>
  BY DEF Served, pageVars
<1>3. \A q \in DOMAIN flight : q # r =>
        /\ flight'[q] \in Requests /\ SameRequest(flight[q], flight'[q])
        /\ flight'[q].version = flight[q].version
        /\ flight[q].state # "reading" \/ items' = items => flight'[q] = flight[q]
        /\ flight[q].state = "reading" => flight'[q].state \in {"reading", "answered"}
  <2>1. \A q \in DOMAIN flight : flight[q] \in Requests
    BY FlightPlaces DEF ClientInv
  <2>2. ServerInv
    BY DEF ClientInv
  <2> QED
    BY <1>1, <2>1, <2>2, BesideKeeps
<1>4. session
  BY DEF PageInv, NothingWithout
<1>5. NothingWithout'
  BY <1>2, <1>4 DEF NothingWithout
<1>6. Current(flight'[r], items', version')
  <2>1. flight'[r].state # "sent" /\ flight'[r].state # "reading"
    BY <1>1
  <2>2. version' <= version'
    BY <1>1
  <2> QED
    BY <1>1, <2>1, <2>2 DEF Current
<1>7. ~Telling(flight[r], version)
  BY DEF Telling
<1>8. CASE items' = items
  <2>1. version' = version /\ \A q \in DOMAIN flight : q # r => flight'[q] = flight[q]
    BY <1>1, <1>3, <1>8
  <2>2. excused' = excused
    <3>1. excused \in BOOLEAN
      BY DEF PageInv, Versions
    <3> QED
      BY <1>8, <3>1, Zenon DEF Excuses
  <2>3. Versions' /\ NewestShown'
    BY <1>2, <1>8, <2>1, <2>2, NewestStays
  <2>4. AnswersCurrent'
    BY <1>1, <1>6, <1>8, <2>1 DEF PageInv, AnswersCurrent
  <2>5. NewestOnItsWay'
    BY <1>1, <1>2, <1>7, <2>1, <2>2 DEF PageInv, NewestOnItsWay
  <2> QED
    BY <1>5, <2>3, <2>4, <2>5 DEF PageInv
<1>9. CASE items' # items
  <2>1. version' = version + 1
    BY <1>1, <1>9
  <2>2. shown \in Nat /\ shown <= version
    BY DEF PageInv, Versions
  <2>3. version' # 0 /\ shown' \in Nat /\ shown' <= version' /\ shown' # version'
    BY <1>1, <1>2, <2>1, <2>2
  <2>4. excused' \in BOOLEAN
    BY Zenon DEF Excuses
  <2>5. AnswersCurrent'
    <3>1. ASSUME NEW q \in DOMAIN flight, q # r PROVE Current(flight'[q], items', version')
      <4>1. flight[q] \in Requests /\ Current(flight[q], items, version)
        BY <3>1, FlightPlaces DEF ClientInv, PageInv, AnswersCurrent
      <4>2. CASE flight[q].state # "reading"
        <5>1. flight'[q] = flight[q]
          BY <1>3, <3>1, <4>2
        <5> QED
          BY <1>1, <2>1, <4>1, <5>1, CurrentLater
      <4>3. CASE flight[q].state = "reading"
        <5>1. /\ flight'[q].version = flight[q].version
              /\ flight'[q].state \in {"reading", "answered"}
          BY <1>3, <3>1, <4>3
        <5>2. flight[q].version \in Nat /\ flight[q].version <= version
          BY <4>1, RequestParts DEF Current
        <5>3. flight[q].version <= version' /\ flight[q].version # version'
          BY <1>1, <2>1, <5>2
        <5> QED
          BY <5>1, <5>3 DEF Current
      <4> QED
        BY <4>2, <4>3
    <3> QED
      BY <1>1, <1>6, <3>1 DEF AnswersCurrent
  <2>6. NewestOnItsWay'
    <3> SUFFICES ASSUME ~excused' PROVE Telling(flight'[r], version')
      BY <1>1 DEF NewestOnItsWay
    <3>1. ~flight[r].gone /\ state # "failed"
      BY <1>9 DEF Excuses
    <3>2. ~flight'[r].gone /\ flight'[r].state = "answered"
      BY <1>1, <3>1 DEF SameRequest
    <3> QED
      BY <1>1, <3>2 DEF Telling
  <2>7. Versions' /\ NewestShown'
    BY <2>3, <2>4 DEF Versions, NewestShown
  <2> QED
    BY <1>5, <2>5, <2>6, <2>7 DEF PageInv
<1> QED
  BY <1>8, <1>9

\* A reader that is as new as the cart stays so, and when it ends it has all.
LEMMA ReaderKeeps ==
    ASSUME ClientInv, PageInv, NEW r \in DOMAIN flight,
           ReadBegins(r) \/ ReadLine(r) \/ ReadEnds(r)
    PROVE  PageInv'
<1>1. PICK one \in Requests :
        /\ flight' = [flight EXCEPT ![r] = one]
        /\ SameRequest(flight[r], one)
        /\ flight[r].state \in {"sent", "reading"}
        /\ one.state \in {"reading", "answered"}
  BY ReaderFlight
<1>2. /\ DOMAIN flight' = DOMAIN flight /\ flight'[r] = one
      /\ \A q \in DOMAIN flight : q # r => flight'[q] = flight[q]
  BY <1>1, OneChanged DEF ClientInv
<1>3. UNCHANGED <<items, version, shown, rendered, excused, session>>
  BY DEF ReadBegins, ReadLine, ReadEnds, pageVars, cartVars
<1>4. /\ flight[r] \in Requests /\ flight[r].cart \in NamedCarts
      /\ flight[r].version \in Nat /\ version \in Nat
      /\ items \in NamedCarts /\ Current(flight[r], items, version)
  BY FlightPlaces, RequestParts, NamedItems
     DEF ClientInv, RequestsTyped, PageInv, AnswersCurrent
<1>5. /\ Current(one, items, version)
      /\ Telling(flight[r], version) => Telling(one, version)
  <2>1. CASE ReadBegins(r)
    <3> DEFINE a == [flight[r] EXCEPT !.state = "reading"]
               b == [a EXCEPT !.version = version]
    <3>1. flight' = [flight EXCEPT ![r] = b] /\ flight[r].state = "sent"
      BY <2>1 DEF ReadBegins
    <3>2. one = b
      BY <1>2, <3>1
    <3>3. a \in Requests /\ a.state = "reading" /\ a.cart = flight[r].cart
      BY <1>4, StateRestated DEF States
    <3> HIDE DEF a
    <3>4. b.state = "reading" /\ b.cart = a.cart /\ b.version = version
      BY <1>4, <3>3, VersionRestated
    <3> HIDE DEF b
    <3>5. one.state = "reading" /\ one.cart = <<>> /\ one.version = version
      BY <1>4, <3>1, <3>2, <3>3, <3>4 DEF Current
    <3>6. Begun(<<>>, items)
      <4>1. Len(<<>>) = 0 /\ Len(items) \in Nat
        BY <1>4, LenProperties DEF NamedCarts
      <4>2. Len(<<>>) <= Len(items) /\ 1 .. Len(<<>>) = {}
        BY <4>1
      <4> QED
        BY <4>2 DEF Begun
    <3>7. version <= version
      BY <1>4
    <3>8. Current(one, items, version)
      BY <3>5, <3>6, <3>7 DEF Current
    <3>9. Telling(flight[r], version) => Telling(one, version)
      BY <1>1, <3>5 DEF Telling, SameRequest
    <3> QED
      BY <3>8, <3>9
  <2>2. CASE ReadLine(r)
    <3> DEFINE cart == Append(flight[r].cart, items[Len(flight[r].cart) + 1])
               b == [flight[r] EXCEPT !.cart = cart]
    <3>1. /\ flight' = [flight EXCEPT ![r] = b] /\ flight[r].state = "reading"
          /\ Len(flight[r].cart) < Len(items)
      BY <2>2 DEF ReadLine, Reading
    <3>2. one = b
      BY <1>2, <3>1
    <3>3. flight[r].version = version => Begun(cart, items)
      BY <1>4, <3>1, BegunFurther DEF Current
    <3> HIDE DEF cart
    <3>4. /\ b.state = "reading" /\ b.cart = cart /\ b.version = flight[r].version
      BY <1>4, <3>1 DEF Requests
    <3> HIDE DEF b
    <3>5. Current(one, items, version)
      BY <1>4, <3>2, <3>3, <3>4 DEF Current
    <3>6. Telling(flight[r], version) => Telling(one, version)
      BY <1>1, <3>1, <3>2, <3>4 DEF Telling, SameRequest
    <3> QED
      BY <3>5, <3>6
  <2>3. CASE ReadEnds(r)
    <3> DEFINE b == [flight[r] EXCEPT !.state = "answered"]
    <3>1. /\ flight' = [flight EXCEPT ![r] = b] /\ flight[r].state = "reading"
          /\ Len(flight[r].cart) >= Len(items)
      BY <2>3 DEF ReadEnds, Reading
    <3>2. one = b
      BY <1>2, <3>1
    <3>3. flight[r].version = version => flight[r].cart = items
      BY <1>4, <3>1, BegunToEnd DEF Current
    <3>4. /\ b.state = "answered" /\ b.cart = flight[r].cart /\ b.version = flight[r].version
      BY <1>4, StateRestated DEF States
    <3> HIDE DEF b
    <3>5. Current(one, items, version)
      BY <1>4, <3>2, <3>3, <3>4 DEF Current
    <3>6. Telling(flight[r], version) => Telling(one, version)
      BY <1>1, <3>1, <3>2, <3>4 DEF Telling, SameRequest
    <3> QED
      BY <3>5, <3>6
  <2> QED
    BY <2>1, <2>2, <2>3
<1>6. Versions' /\ NewestShown'
  BY <1>3, NewestStays
<1>7. AnswersCurrent'
  BY <1>2, <1>3, <1>5 DEF PageInv, AnswersCurrent
<1>8. NewestOnItsWay'
  <2> SUFFICES ASSUME ~excused, shown # version
               PROVE  \E q \in DOMAIN flight : Telling(flight'[q], version)
    BY <1>2, <1>3 DEF NewestOnItsWay
  <2>1. PICK q \in DOMAIN flight : Telling(flight[q], version)
    BY DEF PageInv, NewestOnItsWay
  <2> QED
    BY <1>2, <1>5, <2>1
<1>9. session
  BY <1>1 DEF PageInv, NothingWithout
<1>10. NothingWithout'
  BY <1>3, <1>9 DEF NothingWithout
<1> QED
  BY <1>6, <1>7, <1>8, <1>10 DEF PageInv

LEMMA HandleKeeps ==
    ASSUME NEW r, ClientInv, PageInv, Handle(r)
    PROVE  PageInv'
<1>1. r \in DOMAIN flight
  BY DEF Handle
<1>2. CASE HandleChat(r) \/ HandleClick(r)
  <2>1. ServerInv' /\ flight[r].state = "sent" /\ flight[r].kind # "get"
    BY <1>1, <1>2, HandledTyped
  <2>2. PICK state \in {"answered", "failed"}, glimpse \in NamedCarts :
          Served(r, state, glimpse) /\ Excuses(flight[r], state)
    BY <1>1, <1>2, HandledTyped
  <2> QED
    BY <1>1, <2>1, <2>2, ServedKeeps
<1>3. CASE ReadBegins(r) \/ ReadLine(r) \/ ReadEnds(r)
  BY <1>1, <1>3, ReaderKeeps
<1> QED
  BY <1>2, <1>3 DEF Handle

-----------------------------------------------------------------------------
(* The page's steps *)

\* A request that is over says nothing, and nothing else has changed.
LEMMA OthersStay ==
    ASSUME NEW r \in DOMAIN flight, ClientInv, PageInv, Return(r),
           UNCHANGED <<items, version, session>>
    PROVE  /\ AnswersCurrent' /\ NothingWithout'
           /\ \A q \in DOMAIN flight : q # r /\ Telling(flight[q], version)
                => \E p \in DOMAIN flight' : Telling(flight'[p], version')
<1>1. /\ DOMAIN flight' = DOMAIN flight
      /\ flight'[r].state = "over"
      /\ \A q \in DOMAIN flight : q # r => flight'[q] = flight[q]
  BY ReturnFlight
<1>2. flight'[r].version = 0
  <2> DEFINE done == [Request("over", NoCall, "", FALSE) EXCEPT !.state = "over"]
  <2>1. flight' = [flight EXCEPT ![r] = done]
    BY DEF Return, Over
  <2>2. done.version = 0
    BY OverRequest
  <2> HIDE DEF done
  <2> QED
    BY <2>1, <2>2
<1>3. Current(flight'[r], items, version)
  <2>1. version \in Nat /\ 0 <= version
    BY DEF ClientInv, RequestsTyped
  <2> QED
    BY <1>1, <1>2, <2>1 DEF Current
<1>4. AnswersCurrent'
  BY <1>1, <1>3 DEF PageInv, AnswersCurrent
<1>5. NothingWithout'
  BY <1>1 DEF PageInv, NothingWithout
<1> QED
  BY <1>1, <1>4, <1>5

LEMMA RenderKeeps ==
    ASSUME NEW r \in DOMAIN flight, ClientInv, PageInv, Return(r),
           flight[r].state = "answered", RenderCart(r),
           UNCHANGED <<items, version, session>>
    PROVE  PageInv'
<1>1. /\ rendered' = flight[r].cart /\ shown' = flight[r].version
      /\ excused' = (flight[r].version # version /\ (excused \/ flight[r].version < shown))
  BY DEF RenderCart, Shows
<1>2. flight[r] \in Requests /\ Current(flight[r], items, version)
  BY FlightPlaces DEF ClientInv, PageInv, AnswersCurrent
<1>3. /\ version \in Nat /\ version # 0
      /\ flight[r].version \in Nat /\ flight[r].version <= version
  BY <1>2, RequestParts DEF ClientInv, RequestsTyped, PageInv, Versions, Current
<1>4. excused' \in BOOLEAN
  BY <1>1, Zenon
<1>5. Versions'
  BY <1>1, <1>3, <1>4 DEF Versions
<1>6. NewestShown'
  BY <1>1, <1>2 DEF NewestShown, Current
<1>7. /\ AnswersCurrent' /\ NothingWithout'
      /\ \A q \in DOMAIN flight : q # r /\ Telling(flight[q], version)
           => \E p \in DOMAIN flight' : Telling(flight'[p], version')
  BY OthersStay
<1>8. NewestOnItsWay'
  <2> SUFFICES ASSUME ~excused', flight[r].version # version
               PROVE  \E p \in DOMAIN flight' : Telling(flight'[p], version')
    BY <1>1 DEF NewestOnItsWay
  <2>1. ~excused /\ ~(flight[r].version < shown)
    BY <1>1
  <2>2. shown # version
    <3>1. shown \in Nat /\ shown <= version
      BY DEF PageInv, Versions
    <3> QED
      BY <1>3, <2>1, <3>1
  <2>3. PICK q \in DOMAIN flight : Telling(flight[q], version)
    BY <2>1, <2>2 DEF PageInv, NewestOnItsWay
  <2>4. q # r
    BY <2>3 DEF Telling
  <2> QED
    BY <1>7, <2>3, <2>4
<1> QED
  BY <1>5, <1>6, <1>7, <1>8 DEF PageInv

LEMMA FailedKeeps ==
    ASSUME NEW r \in DOMAIN flight, ClientInv, PageInv, Return(r),
           flight[r].state = "failed",
           UNCHANGED <<items, version, session, rendered, shown, excused>>
    PROVE  PageInv'
<1>1. /\ AnswersCurrent' /\ NothingWithout'
      /\ \A q \in DOMAIN flight : q # r /\ Telling(flight[q], version)
           => \E p \in DOMAIN flight' : Telling(flight'[p], version')
  BY OthersStay
<1>2. Versions' /\ NewestShown'
  BY NewestStays
<1>3. NewestOnItsWay'
  <2> SUFFICES ASSUME ~excused, shown # version
               PROVE  \E p \in DOMAIN flight' : Telling(flight'[p], version')
    BY DEF NewestOnItsWay
  <2>1. PICK q \in DOMAIN flight : Telling(flight[q], version)
    BY DEF PageInv, NewestOnItsWay
  <2>2. q # r
    BY <2>1 DEF Telling
  <2> QED
    BY <1>1, <2>1, <2>2
<1> QED
  BY <1>1, <1>2, <1>3 DEF PageInv

LEMMA ResetKeeps ==
    ASSUME NEW r \in DOMAIN flight, ClientInv, PageInv, Return(r), ResetReturns(r)
    PROVE  PageInv'
<1>1. /\ items' = <<>> /\ session' = FALSE /\ rendered' = <<>>
      /\ version' = version + 1 /\ shown' = version' /\ excused' = FALSE
      /\ \A q \in DOMAIN flight : flight[q].state \notin {"sent", "reading"}
  BY DEF ResetReturns, PageReset, Forgotten
<1>2. /\ DOMAIN flight' = DOMAIN flight
      /\ flight'[r].state = "over" /\ flight' \in Seq(Requests)
      /\ \A q \in DOMAIN flight : q # r => flight'[q] = flight[q]
  BY ReturnFlight
<1>3. version \in Nat
  BY DEF ClientInv, RequestsTyped
<1>4. version' \in Nat /\ version' # 0 /\ version' <= version'
  BY <1>1, <1>3
<1>5. Versions' /\ NewestShown' /\ NewestOnItsWay'
  BY <1>1, <1>4 DEF Versions, NewestShown, NewestOnItsWay
<1>6. NothingWithout'
  BY <1>1, <1>2 DEF NothingWithout
<1>7. AnswersCurrent'
  <2>1. \A q \in DOMAIN flight : Current(flight[q], items', version + 1)
    BY <1>3, FlightPlaces, CurrentLater DEF ClientInv, PageInv, AnswersCurrent
  <2>2. Current(flight'[r], items', version + 1)
    <3>1. flight'[r].version = 0
      <4> DEFINE done == [Request("over", NoCall, "", FALSE) EXCEPT !.state = "over"]
      <4>1. flight' = [flight EXCEPT ![r] = done]
        BY DEF Return, Over
      <4>2. done.version = 0
        BY OverRequest
      <4> HIDE DEF done
      <4> QED
        BY <4>1, <4>2
    <3>2. 0 <= version + 1
      BY <1>3
    <3> QED
      BY <1>2, <3>1, <3>2 DEF Current
  <2> QED
    BY <1>1, <1>2, <2>1, <2>2 DEF AnswersCurrent
<1> QED
  BY <1>5, <1>6, <1>7 DEF PageInv

LEMMA ReturnKeeps ==
    ASSUME NEW r, ClientInv, PageInv, Return(r)
    PROVE  PageInv'
<1>1. r \in DOMAIN flight
  BY DEF Return
<1>2. CASE ChatAnswered(r)
  <2>1. flight[r].state = "answered" /\ RenderCart(r) /\ UNCHANGED <<items, version, session>>
    BY <1>2 DEF ChatAnswered, cartVars
  <2> QED
    BY <1>1, <2>1, RenderKeeps
<1>3. CASE ButtonAnswered(r)
  <2>1. flight[r].state = "answered" /\ RenderCart(r) /\ UNCHANGED <<items, version, session>>
    BY <1>3 DEF ButtonAnswered, cartVars
  <2> QED
    BY <1>1, <2>1, RenderKeeps
<1>4. CASE ChatFailed(r)
  <2>1. /\ flight[r].state = "failed"
        /\ UNCHANGED <<items, version, session, rendered, shown, excused>>
    BY <1>4 DEF ChatFailed, cartVars
  <2> QED
    BY <1>1, <2>1, FailedKeeps
<1>5. CASE ButtonFailed(r)
  <2>1. /\ flight[r].state = "failed"
        /\ UNCHANGED <<items, version, session, rendered, shown, excused>>
    BY <1>5 DEF ButtonFailed, cartVars, pageVars
  <2> QED
    BY <1>1, <2>1, FailedKeeps
<1>6. CASE CartFetched(r)
  <2>1. UNCHANGED <<items, version, session>>
    BY <1>6 DEF CartFetched, cartVars
  <2>2. CASE flight[r].state = "answered" /\ RenderCart(r)
    BY <1>1, <2>1, <2>2, RenderKeeps
  <2>3. CASE flight[r].state = "failed" /\ UNCHANGED <<rendered, shown, excused>>
    BY <1>1, <2>1, <2>3, FailedKeeps
  <2> QED
    BY <1>6, <2>2, <2>3 DEF CartFetched
<1>7. CASE ResetReturns(r)
  BY <1>1, <1>7, ResetKeeps
<1> QED
  BY <1>2, <1>3, <1>4, <1>5, <1>6, <1>7 DEF Return

LEMMA PageInitially == ClientInit => PageInv
<1> SUFFICES ASSUME ClientInit PROVE PageInv
  OBVIOUS
<1>1. /\ items = <<>> /\ session = FALSE /\ rendered = <<>> /\ flight = <<>>
      /\ version = 1 /\ shown = 1 /\ excused = FALSE
  BY DEF ClientInit, Init
<1>2. DOMAIN flight = {}
  BY <1>1
<1>3. Versions
  <2>1. version # 0 /\ shown \in Nat /\ shown <= version
    BY <1>1
  <2>2. excused \in BOOLEAN
    BY <1>1
  <2> QED
    BY <2>1, <2>2 DEF Versions
<1> QED
  BY <1>1, <1>2, <1>3
     DEF PageInv, NewestShown, AnswersCurrent, NewestOnItsWay, NothingWithout

LEMMA PageStep == ClientInv /\ PageInv /\ [ClientNext]_vars => PageInv'
<1> SUFFICES ASSUME ClientInv, PageInv, [ClientNext]_vars PROVE PageInv'
  OBVIOUS
<1>1. CASE SendMessage
  BY <1>1, SendKeeps DEF SendMessage
<1>2. CASE ClickCatalogRow
  BY <1>2, ClickKeeps DEF ClickCatalogRow
<1>3. CASE ClickLine
  BY <1>3, ClickKeeps DEF ClickLine
<1>4. CASE ClickUndo
  BY <1>4, ClickKeeps DEF ClickUndo
<1>5. CASE OpenPicker \/ ClosePicker
  <2>1. UNCHANGED <<items, version, shown, rendered, excused, session, flight>>
    BY <1>5 DEF OpenPicker, ClosePicker, cartVars
  <2> QED
    BY <2>1, UnseenKeeps
<1>6. CASE ClickChip
  <2>1. PICK chip \in OptionName :
          \E options \in Toggled(ChosenIn(popover), chip) :
            Send("button", Call("change_option", popover.menu, 0, options),
                 chip, chip \notin ChosenIn(popover))
    BY <1>6 DEF ClickChip
  <2>2. PICK options \in Toggled(ChosenIn(popover), chip) :
          Send("button", Call("change_option", popover.menu, 0, options),
               chip, chip \notin ChosenIn(popover))
    BY <2>1
  <2> QED
    BY <2>2, SendKeeps
<1>7. CASE ClickReset
  BY <1>7, SendKeeps DEF ClickReset
<1>8. CASE ResetAtOnce
  BY <1>8, ResetAtOnceKeeps
<1>9. CASE Forget
  BY <1>9, ForgetKeeps
<1>10. CASE \E r \in 1 .. MaxRequests : Handle(r) \/ Lose(r) \/ Return(r)
  BY <1>10, HandleKeeps, LoseKeeps, ReturnKeeps
<1>11. CASE Reload
  BY <1>11, ReloadKeeps
<1>12. CASE UNCHANGED vars
  <2>1. UNCHANGED <<items, version, shown, rendered, excused, session, flight>>
    BY <1>12 DEF vars, pageVars, cartVars
  <2> QED
    BY <2>1, UnseenKeeps
<1> QED
  BY <1>1, <1>2, <1>3, <1>4, <1>5, <1>6, <1>7, <1>8, <1>9, <1>10, <1>11, <1>12
     DEF ClientNext

LEMMA PageStays == ClientInv /\ PageInv /\ [ClientNext]_vars => ClientInv' /\ PageInv'
BY ClientStep, PageStep
-----------------------------------------------------------------------------
(* Chips *)

\* What is asked for last is there after the merge.
LEMMA LastIsMerged ==
    ASSUME NEW existing \in OptionBag, NEW new \in Seq(Option), new # <<>>
    PROVE  Merged(existing, new)[new[Len(new)]] > 0
<1> DEFINE last == Len(new)
           o == new[last]
           rivals == {i \in DOMAIN new : CategoryOf(new[i]) = CategoryOf(o)}
<1>1. last \in Nat /\ DOMAIN new = 1 .. last /\ last \in DOMAIN new /\ o \in Option
  <2>1. last \in Nat /\ DOMAIN new = 1 .. last /\ last # 0
    BY EmptySeq, LenProperties
  <2> QED
    BY <2>1, ElementOfSeq
<1>2. last \in rivals /\ \A j \in rivals : j <= last
  BY <1>1
<1>3. existing[o] \in Nat
  BY <1>1 DEF OptionBag
<1>4. Merged(existing, new)[o] =
        IF CategoryOf(o) \in Exclusive /\ rivals # {}
        THEN IF \E i \in rivals : new[i] = o /\ \A j \in rivals : j <= i THEN 1 ELSE 0
        ELSE IF existing[o] = 0 /\ \E i \in DOMAIN new : new[i] = o THEN 1 ELSE existing[o]
  BY <1>1 DEF Merged
<1>5. \E i \in rivals : new[i] = o /\ \A j \in rivals : j <= i
  BY <1>2
<1>6. \E i \in DOMAIN new : new[i] = o
  BY <1>1
<1> HIDE DEF o, rivals
<1> QED
  BY <1>3, <1>4, <1>5, <1>6 DEF o

\* Only its own handler answers a click.
LEMMA AnsweredByHandler ==
    ASSUME ClientInv, ClientNext, NEW r \in DOMAIN flight, flight[r].kind = "button",
           flight[r].state = "sent", flight'[r].state = "answered"
    PROVE  HandleClick(r)
<1>1. /\ Len(flight) \in Nat /\ DOMAIN flight = 1 .. Len(flight)
      /\ \A q \in DOMAIN flight : flight[q] \in Requests
      /\ flight \in Seq(Requests)
  BY FlightPlaces DEF ClientInv, RequestsTyped
<1>2. ASSUME NEW kind, NEW call, NEW chip, NEW on, Send(kind, call, chip, on)
      PROVE  FALSE
  <2>1. PICK e : flight' = Append(flight, e)
    BY <1>2 DEF Send
  <2>2. flight'[r] = flight[r]
    BY <1>1, <2>1
  <2> QED
    BY <2>2
<1>3. ~(SendMessage \/ ClickCatalogRow \/ ClickLine \/ ClickUndo \/ ClickReset \/ ClickChip)
  BY <1>2 DEF SendMessage, ClickCatalogRow, ClickLine, ClickUndo, ClickReset, ClickChip, Click
<1>4. ~(OpenPicker \/ ClosePicker \/ ResetAtOnce \/ Forget)
  BY DEF OpenPicker, ClosePicker, ResetAtOnce, Forget
<1>5. ~Reload
  <2> SUFFICES ASSUME Reload PROVE FALSE
    OBVIOUS
  <2>1. /\ Abandoned \in Seq(Requests) /\ DOMAIN Abandoned = DOMAIN flight
        /\ Len(Abandoned) = Len(flight) /\ Abandoned[r].state = flight[r].state
    BY AbandonedKeeps DEF ClientInv
  <2>2. flight' = Abandoned \/ \E e : flight' = Append(Abandoned, e)
    BY DEF Reload
  <2>3. flight'[r] = Abandoned[r]
    BY <1>1, <2>1, <2>2
  <2> QED
    BY <2>1, <2>3
<1>6. ASSUME NEW q, Lose(q) PROVE FALSE
  <2>1. q \in DOMAIN flight
    BY <1>6, LostFlight
  <2>2. PICK one \in Requests : flight' = [flight EXCEPT ![q] = one] /\ one.state = "failed"
    BY <1>6, LostFlight
  <2>3. flight'[r] = flight[r] \/ flight'[r].state = "failed"
    BY <2>1, <2>2, OneChanged DEF ClientInv
  <2> QED
    BY <2>3
<1>7. ASSUME NEW q, Return(q) PROVE FALSE
  <2>1. flight'[r] = flight[r] \/ flight'[r].state = "over"
    BY <1>7, ReturnFlight
  <2> QED
    BY <2>1
<1>8. ASSUME NEW q, Handle(q), ~HandleClick(r) PROVE FALSE
  <2>1. q \in DOMAIN flight
    BY <1>8 DEF Handle
  <2>2. CASE HandleChat(q) \/ HandleClick(q)
    <3>1. q # r
      BY <1>8, <2>2 DEF HandleChat
    <3>2. ServerInv'
      BY <2>1, <2>2, HandledTyped
    <3>3. PICK state \in {"answered", "failed"}, glimpse \in NamedCarts :
            Served(q, state, glimpse)
      BY <2>1, <2>2, HandledTyped
    <3>4. flight'[r] = Beside(flight[r], glimpse)
      BY <2>1, <3>1, <3>2, <3>3, ServedFlight DEF ClientInv
    <3>5. Beside(flight[r], glimpse) = flight[r]
      BY DEF Beside
    <3> QED
      BY <3>4, <3>5
  <2>3. CASE ReadBegins(q) \/ ReadLine(q) \/ ReadEnds(q)
    <3>1. PICK one \in Requests :
            /\ flight' = [flight EXCEPT ![q] = one]
            /\ one.state = "answered" => flight[q].state = "reading"
      BY <2>1, <2>3, ReaderFlight
    <3>2. flight'[q] = one /\ \A p \in DOMAIN flight : p # q => flight'[p] = flight[p]
      BY <2>1, <3>1, OneChanged DEF ClientInv
    <3> QED
      BY <3>1, <3>2
  <2> QED
    BY <1>8, <2>2, <2>3 DEF Handle
<1> QED
  BY <1>3, <1>4, <1>5, <1>6, <1>7, <1>8, Zenon DEF ClientNext

\* When there was no line of the menu, change_option has added the only one.
LEMMA AddedFirst ==
    ASSUME NEW menu \in MenuName, NEW bag \in OptionBag, items \in Seq(Line),
           FirstLine(menu) = {}, NEW line \in Line, line.menu = menu, line.options = bag,
           items' = Append(items, line)
    PROVE  \E i \in FirstLine(menu)' : items'[i].options = bag
<1> DEFINE n == Len(items) + 1
<1>1. /\ Len(items) \in Nat /\ DOMAIN items = 1 .. Len(items)
      /\ DOMAIN items' = 1 .. Len(items) + 1
      /\ \A i \in DOMAIN items : items'[i] = items[i]
      /\ items'[Len(items) + 1] = line
  BY AppendRequest, LenProperties
<1>2. {i \in DOMAIN items : items[i].menu = menu} = {}
  <2> DEFINE S == {i \in DOMAIN items : items[i].menu = menu}
  <2>1. S \in SUBSET (1 .. Len(items)) /\ First(S) = {}
    BY <1>1 DEF FirstLine
  <2> HIDE DEF S
  <2>2. S = {}
    BY <1>1, <2>1, FirstExists
  <2> QED
    BY <2>2 DEF S
<1>3. /\ n \in Nat /\ DOMAIN items' = DOMAIN items \cup {n} /\ items'[n] = line
  BY <1>1, OneMore
<1> HIDE DEF n
<1>4. {i \in DOMAIN items' : items'[i].menu = menu} = {n}
  BY <1>1, <1>2, <1>3
<1>5. n \in FirstLine(menu)'
  BY <1>3, <1>4 DEF FirstLine, First
<1> QED
  BY <1>3, <1>5

LEMMA LastIsListed ==
    ASSUME NEW options \in Seq(Option), options # <<>>
    PROVE  Bag(options)[options[Len(options)]] > 0
<1> DEFINE last == Len(options)
           o == options[last]
           places == {i \in DOMAIN options : options[i] = o}
<1>1. last \in Nat /\ DOMAIN options = 1 .. last /\ last \in DOMAIN options /\ o \in Option
  <2>1. last \in Nat /\ DOMAIN options = 1 .. last /\ last # 0
    BY EmptySeq, LenProperties
  <2> QED
    BY <2>1, ElementOfSeq
<1>2. Bag(options)[o] = Cardinality(places)
  BY <1>1 DEF Bag
<1>3. last \in places /\ places \subseteq 1 .. last
  BY <1>1
<1> HIDE DEF places, o, last
<1>4. IsFiniteSet(places)
  <2>1. IsFiniteSet(1 .. last)
    BY <1>1, FS_Interval
  <2> QED
    BY <1>3, <2>1, FS_Subset
<1>5. Cardinality(places) \in Nat /\ Cardinality(places) # 0
  BY <1>3, <1>4, FS_CardinalityType, FS_EmptySet
<1> QED
  BY <1>2, <1>5 DEF o, last

\* The menu was not in the cart: what is added is its only line.
LEMMA ChangeOptionAdds ==
    ASSUME CartInv, DispatcherAssumption, reply' = "ADDED",
           NEW name \in MenuName, Resolved(name) = name,
           NEW options \in Seq(Option), options # <<>>,
           ChangeOption(name, options)
    PROVE  \E i \in FirstLine(name)' : items'[i].options = Bag(options)
<1>1. ~Answer("INVALID_OPTION")
  BY DEF Answer
<1>2. ASSUME NEW k, NEW bag, CartChangeOption(name, bag) PROVE FALSE
  BY <1>2 DEF CartChangeOption, NotInCart
<1>3. FirstLine(name) = {} /\ AddMenu(name, 1, options)
  BY <1>1, <1>2 DEF ChangeOption
<1>4. CartAdd(name, 1, Bag(options))
  BY <1>3 DEF AddMenu, Answer, StockRefusal
<1> DEFINE bag == Bag(options)
<1> HIDE DEF bag
<1>5. CartAdd(name, 1, bag)
  BY <1>4 DEF bag
<1> DEFINE line == [menu |-> name, quantity |-> 1, options |-> bag]
<1>6. items' = Append(items, line)
  BY <1>5 DEF CartAdd
<1>7. line \in Line /\ line.menu = name /\ line.options = bag
  <2>1. bag \in OptionBag
    BY BagProperties DEF bag
  <2>2. name \in Name
    BY DispatcherAssumption DEF DispatcherAssumption
  <2> QED
    BY <2>1, <2>2 DEF Line
<1> HIDE DEF line
<1>8. bag \in OptionBag /\ items \in Seq(Line)
  BY BagProperties DEF bag, CartInv, WellFormed
<1>9. \E i \in FirstLine(name)' : items'[i].options = bag
  BY <1>3, <1>6, <1>7, <1>8, AddedFirst
<1> QED
  BY <1>9 DEF bag

\* A change of the first line's options leaves it the first of its menu.
LEMMA ChangedFirst ==
    ASSUME items \in Seq(Line), NEW menu, NEW i \in FirstLine(menu), i \in DOMAIN items,
           NEW bag, items' = [items EXCEPT ![i].options = bag]
    PROVE  i \in FirstLine(menu)' /\ items'[i].options = bag
<1>1. /\ DOMAIN items' = DOMAIN items
      /\ items'[i] = [items[i] EXCEPT !.options = bag]
      /\ \A p \in DOMAIN items : p # i => items'[p] = items[p]
  OBVIOUS
<1>2. items[i] \in Line
  BY ElementOfSeq
<1>3. items'[i].menu = items[i].menu /\ items'[i].options = bag
  BY <1>1, <1>2 DEF Line
<1>4. \A p \in DOMAIN items : items'[p].menu = items[p].menu
  BY <1>1, <1>3
<1>5. {p \in DOMAIN items' : items'[p].menu = menu} = {p \in DOMAIN items : items[p].menu = menu}
  BY <1>1, <1>4
<1>6. FirstLine(menu)' = FirstLine(menu)
  BY <1>5 DEF FirstLine, First
<1> QED
  BY <1>3, <1>6

LEMMA AskedTaken ==
    ASSUME CartInv, DispatcherAssumption, NEW menu \in MenuName, Resolved(menu) = menu,
           NEW options \in Seq(Option), options # <<>>, NEW chip, options[Len(options)] = chip,
           ChangeOption(menu, options), reply' \in {"OPTION_CHANGED", "ADDED"}
    PROVE  FirstLineHas(menu, chip)'
<1>1. items \in Seq(Line) /\ menu \in Name
  BY DispatcherAssumption DEF CartInv, WellFormed, DispatcherAssumption
<1>2. CASE reply' = "OPTION_CHANGED"
  <2>1. PICK i \in FirstLine(menu) :
          /\ items[i] \in Line /\ i \in DOMAIN items
          /\ items' = [items EXCEPT ![i].options = Merged(items[i].options, options)]
    BY <1>1, <1>2, ChangeOptionStep, DispatcherAssumption
  <2>2. PICK existing \in OptionBag : existing = items[i].options
    BY <2>1 DEF Line
  <2>3. Merged(existing, options)[chip] > 0
    BY LastIsMerged
  <2> DEFINE bag == Merged(existing, options)
  <2>4. items' = [items EXCEPT ![i].options = bag]
    BY <2>1, <2>2
  <2> HIDE DEF bag
  <2>5. i \in FirstLine(menu)' /\ items'[i].options = bag
    BY <1>1, <2>1, <2>4, ChangedFirst
  <2>6. items'[i].options[chip] > 0
    BY <2>3, <2>5 DEF bag
  <2> QED
    BY <2>5, <2>6 DEF FirstLineHas
<1>3. CASE reply' = "ADDED"
  <2>1. PICK i \in FirstLine(menu)' : items'[i].options = Bag(options)
    BY <1>3, ChangeOptionAdds, DispatcherAssumption
  <2>2. Bag(options)[chip] > 0
    BY LastIsListed
  <2> QED
    BY <2>1, <2>2 DEF FirstLineHas
<1> QED
  BY <1>2, <1>3

LEMMA ChipTaken ==
    ASSUME ClientInv, AliasesNameNoMenu, NEW r \in DOMAIN flight, HandleClick(r),
           flight[r].kind = "button", flight[r].chip # "", flight[r].on,
           reply' \in {"OPTION_CHANGED", "ADDED"}
    PROVE  FirstLineHas(flight[r].call.menu, flight[r].chip)'
<1>1. /\ flight[r].call \in ToolCall /\ flight[r].call.tool = "change_option"
      /\ flight[r].call.menu \in MenuName /\ flight[r].call.options # <<>>
      /\ flight[r].call.options[Len(flight[r].call.options)] = flight[r].chip
  BY DEF ClientInv, ChipsAsked, ChipAsked, AsksFor
<1>2. flight[r].call.options \in Seq(Option) /\ flight[r].chip \in Chips
  <2>1. flight[r].chip \in Chips
    BY FlightPlaces, RequestParts DEF ClientInv
  <2> QED
    BY <1>1, <2>1 DEF ToolCall
<1>3. PICK menu \in MenuName, options \in Seq(Option), chip \in Chips :
        /\ menu = flight[r].call.menu /\ options = flight[r].call.options
        /\ chip = flight[r].chip /\ options # <<>> /\ options[Len(options)] = chip
  BY <1>1, <1>2
<1>4. ChangeOption(menu, options)
  BY <1>1, <1>3 DEF HandleClick, ButtonCall
<1>5. Resolved(menu) = menu
  BY DEF Resolved, AliasesNameNoMenu
<1>6. FirstLineHas(menu, chip)'
  BY <1>3, <1>4, <1>5, AskedTaken, DispatcherAssumption DEF ClientInv, ServerInv
<1>7. SameRequest(flight[r], flight'[r])
  <2>1. ServerInv'
    BY HandledTyped
  <2>2. PICK state \in {"answered", "failed"}, glimpse \in NamedCarts :
          Served(r, state, glimpse)
    BY HandledTyped
  <2> QED
    BY <2>1, <2>2, ServedFlight DEF ClientInv
<1>8. (menu = flight[r].call.menu)' /\ (chip = flight[r].chip)'
  BY <1>3, <1>7 DEF SameRequest
<1> QED
  BY <1>6, <1>8

-----------------------------------------------------------------------------
(* Theorems about the page *)

LEMMA ClientInvariance == ClientSpec => []ClientInv
BY ClientInitially, ClientStep, PTL DEF ClientSpec

\* The page shows the session's cart once it has rendered the newest answer, and
\* once there is nothing more to hear, with any number of requests under way,
\* lost and overtaken, any resets, reloads and evictions, and fetches that read
\* the lines while a chat changes them (app.js, GET /cart).
THEOREM PageCorrect == ClientSpec => []PageShowsCart
<1>1. PageInv => PageShowsCart
  <2> SUFFICES ASSUME PageInv, CaughtUp PROVE rendered = items
    BY DEF PageShowsCart
  <2>1. CASE shown = version
    BY <2>1 DEF PageInv, NewestShown
  <2>2. CASE shown # version
    <3>1. PICK r \in DOMAIN flight : Telling(flight[r], version)
      BY <2>2 DEF CaughtUp, PageInv, NewestOnItsWay
    <3>2. Awaited(r)
      BY <3>1 DEF Telling, Awaited
    <3> QED
      BY <2>2, <3>2 DEF CaughtUp
  <2> QED
    BY <2>1, <2>2
<1>2. ClientInit => ClientInv /\ PageInv
  BY ClientInitially, PageInitially
<1>3. (ClientInv /\ PageInv) /\ [ClientNext]_vars => (ClientInv /\ PageInv)'
  BY PageStays
<1>4. ClientSpec => [](ClientInv /\ PageInv)
  BY <1>2, <1>3, PTL DEF ClientSpec
<1> QED
  BY <1>1, <1>4, PTL

\* Whatever is clicked, lost, overtaken, reset or loaded anew: the cart, the
\* page and its open picker are well formed, and the composer is locked exactly
\* while the one message that locked it is under way (app.js, inFlight).
THEOREM ClientTypeCorrect == ClientSpec => []ClientTypeOK
<1>1. ClientInv => ClientTypeOK
  <2> SUFFICES ASSUME ClientInv PROVE ClientTypeOK
    OBVIOUS
  <2>1. WellFormed
    BY DEF ClientInv, ServerInv, CartInv
  <2>2. rendered \in Seq(Line)
    <3>1. rendered \in Seq(NamedLine) /\ \A i \in DOMAIN rendered : rendered[i] \in Line
      BY ElementOfSeq DEF ClientInv, PageTyped, NamedCarts, NamedLine
    <3> QED
      BY <3>1, ElementsInSeq
  <2>3. popover \in Line \cup {NoLine} /\ lit \subseteq Option
    BY DEF ClientInv, PageTyped, NamedLine
  <2>4. session \in BOOLEAN /\ Len(flight) <= MaxRequests
    BY DEF ClientInv, RequestsTyped
  <2>5. Cardinality(Under("chat")) = IF inFlight THEN 1 ELSE 0
    <3>1. CASE inFlight
      <4>1. PICK r \in Under("chat") : TRUE
        BY <3>1 DEF ClientInv, ComposerInv
      <4>2. Under("chat") = {r}
        BY <4>1 DEF ClientInv, ComposerInv
      <4> QED
        BY <3>1, <4>2, FS_Singleton
    <3>2. CASE ~inFlight
      <4>1. Under("chat") = {}
        BY <3>2 DEF ClientInv, ComposerInv
      <4> QED
        BY <3>2, <4>1, FS_EmptySet
    <3> QED
      BY <3>1, <3>2
  <2> QED
    BY <2>1, <2>2, <2>3, <2>4, <2>5 DEF ClientTypeOK
<1> QED
  BY <1>1, ClientInvariance, PTL

\* A click on an unchosen chip chooses its option, for every menu, and whatever
\* happened to the line, the cart and the session since the picker was opened
\* (app.js, toggleOption): when the server has changed the options of the menu's
\* first line or added a line for them, the menu's first line has the option.  It
\* is asked for last, and the last of a category stays in the merge.
THEOREM ChipsChoose ==
    ASSUME AliasesNameNoMenu
    PROVE  ClientSpec => ChipChooses
<1> DEFINE Chosen ==
             \A r \in DOMAIN flight :
               /\ flight[r].kind = "button" /\ flight[r].chip # "" /\ flight[r].on
               /\ flight[r].state = "sent" /\ flight'[r].state = "answered"
               /\ reply' \in {"OPTION_CHANGED", "ADDED"}
               => FirstLineHas(flight[r].call.menu, flight[r].chip)'
<1>1. ClientInv /\ ClientNext => Chosen
  BY AnsweredByHandler, ChipTaken
<1> QED
  BY <1>1, ClientInvariance, PTL DEF ClientSpec, ChipChooses
=============================================================================
