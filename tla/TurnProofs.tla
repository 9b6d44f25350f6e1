----------------------------- MODULE TurnProofs -----------------------------
(***************************************************************************)
(* Proofs about the turns of the agent (module Turn), for every number of  *)
(* turns, calls and round trips, every window of the guard and every       *)
(* limit of the cart's history.                                            *)
(*                                                                         *)
(* What is said of a turn needs to know where its messages stand.  The     *)
(* inductive invariant says three things of the history: its shape, which  *)
(* is that of a conversation whose results stand behind their calls; what  *)
(* the messages behind the user's newest one record of the calls of this   *)
(* turn, and how they count them; and that what older turns left behind is *)
(* their own.  What the operators that pick and join elements of a         *)
(* sequence return is in ListsProofs.                                      *)
(***************************************************************************)
EXTENDS Turn, ListsProofs

-----------------------------------------------------------------------------
(* What _prepare_history keeps *)

\* The result of call k of the message at place i stands k places behind it.
Answers(h, i, k) ==
  /\ i + k \in DOMAIN h
  /\ h[i + k].kind = "result"
  /\ h[i + k].turn = h[i].turn
  /\ h[i + k].id = h[i].id + k - 1

\* Every result stands behind its calls, with the results before it.
ResultsPlaced(h) ==
  \A j \in DOMAIN h : h[j].kind = "result" =>
    \E i \in 1 .. j - 1 : /\ IsCalls(h[i])
                          /\ j - i \in DOMAIN h[i].calls
                          /\ \A k \in 1 .. j - i : Answers(h, i, k)

\* The calls of h have their results, but for the turns of R and the message at open.
CallsAnswered(h, R, open) ==
  \A i \in DOMAIN h \ {open} :
    IsCalls(h[i]) /\ h[i].turn \notin R =>
      \A k \in DOMAIN h[i].calls : Answers(h, i, k)

\* The newest message of turn t in h is a reply.
Replied(h, t) ==
  \E i \in DOMAIN h :
    /\ h[i].kind = "reply" /\ h[i].turn = t
    /\ \A j \in DOMAIN h : h[j].turn = t => j <= i

LEMMA PlaceIsNumber ==
  ASSUME NEW n \in Nat, NEW K \in SUBSET (1 .. n), NEW e \in Seq(K)
  PROVE  /\ Len(e) \in Nat
         /\ \A j \in 1 .. Len(e) : e[j] \in K /\ e[j] \in Nat /\ 1 <= e[j] /\ e[j] <= n
<1>1. Len(e) \in Nat /\ \A j \in 1 .. Len(e) : e[j] \in K
  BY LenProperties, ElementOfSeq
<1>2. \A k \in K : k \in Nat /\ 1 <= k /\ k <= n
  OBVIOUS
<1> QED
  BY <1>1, <1>2

LEMMA PickedRun ==
  ASSUME NEW n \in Nat, NEW K \in SUBSET (1 .. n), NEW e \in Seq(K), Enumerates(e, K),
         NEW i \in 1 .. Len(e), NEW m \in Nat, e[i] .. e[i] + m \subseteq K
  PROVE  i + m \in 1 .. Len(e) /\ e[i + m] = e[i] + m
<1> DEFINE Found(k) == i + k \in 1 .. Len(e) /\ e[i + k] = e[i] + k
           S == {k \in Nat : k <= m => Found(k)}
<1>1. Len(e) \in Nat /\ \A j \in 1 .. Len(e) : e[j] \in K /\ e[j] \in Nat
  BY PlaceIsNumber
<1>2. Found(0)
  BY <1>1
<1>3. ASSUME NEW k \in Nat, k + 1 <= m, Found(k)
      PROVE  Found(k + 1)
  <2>1. e[i] + k + 1 \in K
    <3>1. e[i] + k + 1 \in e[i] .. e[i] + m
      BY <1>1, <1>3
    <3> QED
      BY <3>1
  <2>2. PICK j \in 1 .. Len(e) : e[j] = e[i] + k + 1
    BY <2>1 DEF Enumerates
  <2>3. \A a, b \in 1 .. Len(e) : a < b => e[a] < e[b]
    BY DEF Enumerates
  <2>4. j > i + k
    <3>1. CASE j < i + k
      <4>1. e[j] < e[i + k]
        BY <1>3, <2>3, <3>1
      <4> QED
        BY <1>1, <1>3, <2>2, <4>1
    <3>2. CASE j = i + k
      BY <1>1, <1>3, <2>2, <3>2
    <3> QED
      BY <1>1, <1>3, <3>1, <3>2
  <2>5. i + k + 1 \in 1 .. Len(e)
    BY <1>1, <1>3, <2>4
  <2>6. e[i + k] < e[i + k + 1]
    BY <1>1, <1>3, <2>3, <2>5
  <2>7. CASE j > i + k + 1
    <3>1. e[i + k + 1] < e[j]
      BY <2>3, <2>5, <2>7
    <3> QED
      BY <1>1, <1>3, <2>2, <2>5, <2>6, <3>1
  <2>8. CASE j = i + k + 1
    <3>1. e[i + k + 1] = e[i] + k + 1
      BY <2>2, <2>8
    <3>2. i + (k + 1) = i + k + 1 /\ e[i] + (k + 1) = e[i] + k + 1
      <4>1. e[i] \in Nat /\ i \in Nat
        BY <1>1
      <4> QED
        BY <4>1
    <3> QED
      BY <2>5, <3>1, <3>2
  <2> QED
    BY <1>1, <1>3, <2>4, <2>7, <2>8
<1>4. Nat \subseteq S
  <2> HIDE DEF Found
  <2>1. 0 \in S /\ \A k \in Nat : k \in S => k + 1 \in S
    BY <1>2, <1>3
  <2> HIDE DEF S
  <2> QED
    BY <2>1, NatSetInduction
<1> QED
  BY <1>4

LEMMA NoteType ==
  ASSUME NEW k \in Kind, NEW t \in 0 .. MaxTurns
  PROVE  Note(k, t) \in Message
BY DEF Note, Message, Outcome

\* The places whose messages _prepare_history keeps.
KeptPlaces(h) == {1} \cup {i \in DOMAIN h : h[i].kind \notin SystemKind}

LEMMA PreparedPicks ==
  ASSUME NEW h \in Seq(Message), h # <<>>
  PROVE  /\ Prepared(h) \in Seq(Message)
         /\ KeptPlaces(h) \in SUBSET (1 .. Len(h))
         /\ \E e \in Seq(KeptPlaces(h)) :
              Picked(h, KeptPlaces(h), Prepared(h), e) /\ Len(e) >= 1 /\ e[1] = 1
<1> DEFINE K == KeptPlaces(h)
           p == Prepared(h)
<1>1. K \in SUBSET (1 .. Len(h)) /\ 1 \in K
  BY LenProperties, EmptySeq DEF KeptPlaces
<1>2. p = ElementsAt(h, K)
  BY DEF Prepared, KeptPlaces
<1> HIDE DEF K, p
<1>3. p \in Seq(Message) /\ \E e \in Seq(K) : Picked(h, K, p, e)
  BY <1>1, <1>2, ElementsAtPicks
<1>4. PICK e \in Seq(K) : Picked(h, K, p, e)
  BY <1>3
<1>5. Len(e) \in Nat /\ \A j \in 1 .. Len(e) : e[j] \in K /\ e[j] \in Nat /\ e[j] >= 1
  <2>1. Len(h) \in Nat
    BY LenProperties
  <2> QED
    BY <1>1, <2>1, PlaceIsNumber
<1>6. PICK i \in 1 .. Len(e) : e[i] = 1
  BY <1>1, <1>4 DEF Picked, Enumerates
<1>7. 1 \in 1 .. Len(e) /\ Len(e) >= 1
  BY <1>5
<1>8. i = 1
  <2>1. CASE i > 1
    <3>1. e[1] < e[i]
      BY <1>4, <1>7, <2>1 DEF Picked, Enumerates
    <3> QED
      BY <1>5, <1>6, <1>7, <3>1
  <2> QED
    BY <1>5, <2>1
<1> QED
  BY <1>1, <1>3, <1>4, <1>6, <1>7, <1>8 DEF K, p

LEMMA PreparedEmpty ==
  /\ Prepared(<<>>) = <<Note("prompt", 0)>>
  /\ Prepared(<<>>) \in Seq(Message)
  /\ Len(Prepared(<<>>)) = 1 /\ DOMAIN Prepared(<<>>) = {1}
  /\ Prepared(<<>>)[1] = Note("prompt", 0)
<1>1. Prepared(<<>>) = <<Note("prompt", 0)>>
  BY DEF Prepared
<1>2. Note("prompt", 0) \in Message
  BY NoteType, TurnAssumption DEF Kind, SystemKind
<1> DEFINE m == Note("prompt", 0)
<1> HIDE DEF m
<1>3. <<m>> \in Seq(Message) /\ Len(<<m>>) = 1 /\ DOMAIN <<m>> = {1} /\ <<m>>[1] = m
  BY <1>2 DEF m
<1> QED
  BY <1>1, <1>3 DEF m

LEMMA PreparedHead ==
  ASSUME NEW h \in Seq(Message)
  PROVE  /\ Prepared(h) \in Seq(Message)
         /\ Len(Prepared(h)) \in Nat /\ Len(Prepared(h)) >= 1
         /\ DOMAIN Prepared(h) = 1 .. Len(Prepared(h))
         /\ (h # <<>> => h[1].kind = "prompt") => Prepared(h)[1].kind = "prompt"
         /\ \A i \in DOMAIN Prepared(h) : i > 1 => Prepared(h)[i].kind \notin SystemKind
<1> DEFINE p == Prepared(h)
<1>1. CASE h = <<>>
  BY <1>1, PreparedEmpty DEF Note
<1>2. CASE h # <<>>
  <2> DEFINE K == KeptPlaces(h)
  <2>1. p \in Seq(Message) /\ K \in SUBSET (1 .. Len(h))
    BY <1>2, PreparedPicks
  <2>2. PICK e \in Seq(K) : Picked(h, K, p, e) /\ Len(e) >= 1 /\ e[1] = 1
    BY <1>2, PreparedPicks
  <2>3. Len(h) \in Nat
    BY LenProperties
  <2>4. Len(e) \in Nat /\ \A j \in 1 .. Len(e) : e[j] \in K
    BY <2>1, <2>3, PlaceIsNumber
  <2> HIDE DEF p
  <2>5. Len(p) = Len(e) /\ DOMAIN p = 1 .. Len(p)
    BY <2>1, <2>2, LenProperties DEF Picked, Enumerates
  <2>6. 1 \in 1 .. Len(e) /\ p[1] = h[1]
    <3>1. 1 \in 1 .. Len(e)
      BY <2>2, <2>4
    <3> QED
      BY <2>2, <3>1 DEF Picked, Enumerates
  <2>7. \A i \in 1 .. Len(e) : i > 1 => p[i].kind \notin SystemKind
    <3> SUFFICES ASSUME NEW i \in 1 .. Len(e), i > 1
                 PROVE  p[i].kind \notin SystemKind
      OBVIOUS
    <3>1. p[i] = h[e[i]] /\ e[1] < e[i]
      BY <2>2, <2>6 DEF Picked, Enumerates
    <3>2. e[i] # 1
      BY <2>2, <2>4, <3>1
    <3>3. h[e[i]].kind \notin SystemKind
      BY <2>4, <3>2 DEF KeptPlaces
    <3> QED
      BY <3>1, <3>3
  <2> QED
    BY <1>2, <2>1, <2>2, <2>4, <2>5, <2>6, <2>7 DEF p
<1> QED
  BY <1>1, <1>2

LEMMA PreparedFrom ==
  ASSUME NEW h \in Seq(Message), NEW i \in DOMAIN Prepared(h)
  PROVE  Prepared(h)[i] = Note("prompt", 0) \/ \E j \in DOMAIN h : Prepared(h)[i] = h[j]
<1> DEFINE p == Prepared(h)
<1>1. CASE h = <<>>
  BY <1>1, PreparedEmpty
<1>2. CASE h # <<>>
  <2> DEFINE K == KeptPlaces(h)
  <2>1. p \in Seq(Message) /\ K \in SUBSET (1 .. Len(h))
    BY <1>2, PreparedPicks
  <2>2. PICK e \in Seq(K) : Picked(h, K, p, e)
    BY <1>2, PreparedPicks
  <2>3. Len(h) \in Nat /\ DOMAIN h = 1 .. Len(h)
    BY LenProperties
  <2>4. \A j \in 1 .. Len(e) : e[j] \in K
    BY <2>1, <2>3, PlaceIsNumber
  <2>5. i \in 1 .. Len(e)
    BY <2>1, <2>2, LenProperties DEF Picked, Enumerates
  <2>6. p[i] = h[e[i]] /\ e[i] \in DOMAIN h
    BY <2>1, <2>2, <2>3, <2>4, <2>5 DEF Picked, Enumerates
  <2> QED
    BY <2>6
<1> QED
  BY <1>1, <1>2

\* Place j of h is place i of what is kept, in the same order with all others.
LEMMA PreparedKeeps ==
  ASSUME NEW h \in Seq(Message), NEW j \in DOMAIN h, h[j].kind \notin SystemKind
  PROVE  \E i \in DOMAIN Prepared(h) :
           /\ Prepared(h)[i] = h[j]
           /\ \A k \in DOMAIN Prepared(h) : k > i =>
                \E l \in DOMAIN h : Prepared(h)[k] = h[l] /\ l > j
<1> DEFINE p == Prepared(h)
           K == KeptPlaces(h)
<1>1. Len(h) \in Nat /\ DOMAIN h = 1 .. Len(h) /\ h # <<>>
  BY LenProperties
<1>2. p \in Seq(Message) /\ K \in SUBSET (1 .. Len(h))
  BY <1>1, PreparedPicks
<1>3. PICK e \in Seq(K) : Picked(h, K, p, e)
  BY <1>1, PreparedPicks
<1>4. \A m \in 1 .. Len(e) : e[m] \in K
  BY <1>1, <1>2, PlaceIsNumber
<1> HIDE DEF p
<1>5. DOMAIN p = 1 .. Len(e)
  BY <1>2, <1>3, LenProperties DEF Picked, Enumerates
<1>6. j \in K
  BY DEF KeptPlaces
<1>7. PICK i \in 1 .. Len(e) : e[i] = j
  BY <1>3, <1>6 DEF Picked, Enumerates
<1>8. p[i] = h[j]
  BY <1>3, <1>7 DEF Picked, Enumerates
<1>9. ASSUME NEW k \in 1 .. Len(e), k > i
      PROVE  p[k] = h[e[k]] /\ e[k] \in DOMAIN h /\ e[k] > j
  <2>1. p[k] = h[e[k]] /\ e[i] < e[k]
    BY <1>3, <1>9 DEF Picked, Enumerates
  <2>2. e[k] \in DOMAIN h
    BY <1>1, <1>2, <1>4
  <2> QED
    BY <1>1, <1>7, <2>1, <2>2
<1> QED
  BY <1>5, <1>7, <1>8, <1>9 DEF p

LEMMA PreparedReplied ==
  ASSUME NEW h \in Seq(Message), NEW t, Replied(h, t)
  PROVE  Replied(Prepared(h), t)
<1> DEFINE p == Prepared(h)
<1>1. PICK j \in DOMAIN h : /\ h[j].kind = "reply" /\ h[j].turn = t
                            /\ \A l \in DOMAIN h : h[l].turn = t => l <= j
  BY DEF Replied
<1>2. PICK i \in DOMAIN p :
        /\ p[i] = h[j]
        /\ \A k \in DOMAIN p : k > i => \E l \in DOMAIN h : p[k] = h[l] /\ l > j
  <2>1. h[j].kind \notin SystemKind
    BY <1>1 DEF SystemKind
  <2> QED
    BY <2>1, PreparedKeeps
<1>3. DOMAIN h \subseteq Nat /\ DOMAIN p \subseteq Nat
  BY PreparedHead, LenProperties
<1> HIDE DEF p
<1>4. ASSUME NEW k \in DOMAIN p, p[k].turn = t
      PROVE  k <= i
  <2>1. CASE k > i
    <3>1. PICK l \in DOMAIN h : p[k] = h[l] /\ l > j
      BY <1>2, <2>1
    <3> QED
      BY <1>1, <1>3, <1>4, <3>1
  <2> QED
    BY <1>3, <2>1
<1> QED
  BY <1>1, <1>2, <1>4 DEF Replied, p

LEMMA PreparedProtocol ==
  ASSUME NEW h \in Seq(Message), NEW R
  PROVE  /\ ResultsPlaced(h) => ResultsPlaced(Prepared(h))
         /\ CallsAnswered(h, R, 0) => CallsAnswered(Prepared(h), R, 0)
<1>1. CASE h = <<>>
  BY <1>1, PreparedEmpty DEF Note, ResultsPlaced, CallsAnswered, IsCalls
<1>2. CASE h # <<>>
  <2> DEFINE p == Prepared(h)
             K == KeptPlaces(h)
  <2>1. Len(h) \in Nat /\ DOMAIN h = 1 .. Len(h)
    BY LenProperties
  <2>2. p \in Seq(Message) /\ K \in SUBSET (1 .. Len(h))
    BY <1>2, PreparedPicks
  <2>3. PICK e \in Seq(K) : Picked(h, K, p, e)
    BY <1>2, PreparedPicks
  <2>4. Len(e) \in Nat /\ \A m \in 1 .. Len(e) : e[m] \in K /\ e[m] \in Nat /\ 1 <= e[m] /\ e[m] <= Len(h)
    BY <2>1, <2>2, PlaceIsNumber
  <2> HIDE DEF p
  <2>5. DOMAIN p = 1 .. Len(e) /\ \A i \in DOMAIN p : p[i] = h[e[i]]
    BY <2>2, <2>3, LenProperties DEF Picked, Enumerates
  <2>6. \A j \in DOMAIN h : h[j].kind \notin SystemKind => j \in K
    BY DEF KeptPlaces
  \* Calls at c with their first m results are kept together.
  <2>7. ASSUME NEW c \in DOMAIN h, IsCalls(h[c]), NEW m \in Nat, \A k \in 1 .. m : Answers(h, c, k),
               NEW i \in 1 .. Len(e), e[i] = c
        PROVE  \A k \in 0 .. m : i + k \in 1 .. Len(e) /\ e[i + k] = c + k
    <3>1. \A k \in 1 .. m : c + k \in K
      BY <2>6, <2>7 DEF Answers, SystemKind
    <3>2. c \in K
      BY <2>6, <2>7 DEF IsCalls, SystemKind
    <3>3. ASSUME NEW k \in 0 .. m
          PROVE  i + k \in 1 .. Len(e) /\ e[i + k] = c + k
      <4>1. e[i] .. e[i] + k \subseteq K
        <5> SUFFICES ASSUME NEW x \in c .. c + k
                     PROVE  x \in K
          BY <2>7
        <5>1. c \in Nat
          BY <2>1
        <5>2. CASE x = c
          BY <3>2, <5>2
        <5>3. CASE x # c
          <6>1. x - c \in 1 .. m /\ x = c + (x - c)
            BY <5>1, <5>3
          <6> QED
            BY <3>1, <6>1
        <5> QED
          BY <5>2, <5>3
      <4>2. k \in Nat
        OBVIOUS
      <4> HIDE DEF K
      <4>3. i + k \in 1 .. Len(e) /\ e[i + k] = e[i] + k
        <5>1. Enumerates(e, K)
          BY <2>3 DEF Picked
        <5> QED
          BY <2>1, <2>2, <4>1, <4>2, <5>1, PickedRun
      <4> QED
        BY <2>7, <4>3
    <3> QED
      BY <3>3
  \* Then they are answered there as they were.
  <2>8. ASSUME NEW c \in DOMAIN h, IsCalls(h[c]), NEW m \in Nat, \A k \in 1 .. m : Answers(h, c, k),
               NEW i \in 1 .. Len(e), e[i] = c
        PROVE  \A k \in 1 .. m : Answers(p, i, k)
    <3> SUFFICES ASSUME NEW k \in 1 .. m
                 PROVE  Answers(p, i, k)
      OBVIOUS
    <3>1. i + k \in 1 .. Len(e) /\ e[i + k] = c + k
      BY <2>7, <2>8
    <3>2. p[i] = h[c] /\ p[i + k] = h[c + k]
      BY <2>5, <2>8, <3>1
    <3>3. Answers(h, c, k)
      BY <2>8
    <3> QED
      BY <2>5, <3>1, <3>2, <3>3 DEF Answers
  <2>9. ASSUME ResultsPlaced(h)
        PROVE  ResultsPlaced(p)
    <3> SUFFICES ASSUME NEW j \in DOMAIN p, p[j].kind = "result"
                 PROVE  \E i \in 1 .. j - 1 : /\ IsCalls(p[i])
                                              /\ j - i \in DOMAIN p[i].calls
                                              /\ \A k \in 1 .. j - i : Answers(p, i, k)
      BY DEF ResultsPlaced
    <3> DEFINE b == e[j]
    <3>1. b \in DOMAIN h /\ b \in Nat /\ p[j] = h[b] /\ j \in 1 .. Len(e)
      BY <2>1, <2>4, <2>5
    <3>2. PICK c \in 1 .. b - 1 : /\ IsCalls(h[c])
                                  /\ b - c \in DOMAIN h[c].calls
                                  /\ \A k \in 1 .. b - c : Answers(h, c, k)
      BY <2>9, <3>1 DEF ResultsPlaced
    <3>3. c \in DOMAIN h /\ b - c \in Nat /\ c + (b - c) = b /\ b - c >= 1
      BY <2>1, <3>1
    <3>4. PICK i \in 1 .. Len(e) : e[i] = c
      <4>1. c \in K
        BY <2>6, <3>2, <3>3 DEF IsCalls, SystemKind
      <4> QED
        BY <2>3, <4>1 DEF Picked, Enumerates
    <3>5. i + (b - c) \in 1 .. Len(e) /\ e[i + (b - c)] = b
      <4> DEFINE d == b - c
      <4>1. d \in Nat /\ d \in 0 .. d /\ c + d = b
        BY <3>3
      <4> HIDE DEF d, b
      <4>2. \A k \in 1 .. d : Answers(h, c, k)
        BY <3>2 DEF d
      <4>3. i + d \in 1 .. Len(e) /\ e[i + d] = c + d
        BY <2>7, <3>2, <3>3, <3>4, <4>1, <4>2
      <4> QED
        BY <4>1, <4>3 DEF d
    <3>6. i + (b - c) = j
      <4>1. \A x, y \in 1 .. Len(e) : x < y => e[x] < e[y]
        BY <2>3 DEF Picked, Enumerates
      <4> QED
        BY <2>4, <3>1, <3>5, <4>1
    <3>7. i \in 1 .. j - 1 /\ j - i = b - c
      BY <2>4, <3>1, <3>3, <3>6
    <3>8. p[i] = h[c]
      BY <2>5, <3>4
    <3>9. \A k \in 1 .. b - c : Answers(p, i, k)
      BY <2>8, <3>2, <3>3, <3>4
    <3> QED
      BY <3>2, <3>7, <3>8, <3>9
  <2>10. ASSUME CallsAnswered(h, R, 0)
         PROVE  CallsAnswered(p, R, 0)
    <3> SUFFICES ASSUME NEW i \in DOMAIN p, IsCalls(p[i]), p[i].turn \notin R,
                        NEW k \in DOMAIN p[i].calls
                 PROVE  Answers(p, i, k)
      BY DEF CallsAnswered
    <3> DEFINE c == e[i]
    <3>1. c \in DOMAIN h /\ c # 0 /\ p[i] = h[c] /\ i \in 1 .. Len(e)
      BY <2>1, <2>4, <2>5
    <3>2. h[c].calls \in Seq(Call)
      <4>1. h[c] \in Message
        BY <2>1, <3>1, ElementOfSeq
      <4> QED
        BY <4>1 DEF Message
    <3>3. Len(h[c].calls) \in Nat /\ DOMAIN h[c].calls = 1 .. Len(h[c].calls)
      BY <3>2, LenProperties
    <3>4. \A m \in 1 .. Len(h[c].calls) : Answers(h, c, m)
      BY <2>10, <3>1, <3>3 DEF CallsAnswered
    <3>5. \A m \in 1 .. Len(h[c].calls) : Answers(p, i, m)
      BY <2>8, <3>1, <3>3, <3>4
    <3> QED
      BY <3>1, <3>3, <3>5
  <2> QED
    BY <2>9, <2>10 DEF p
<1> QED
  BY <1>1, <1>2

-----------------------------------------------------------------------------
(* The inductive invariant *)

\* The calls the model made in this turn: those dispatched and those pending.
MadeOf(disp, rest) ==
  [n \in 1 .. Len(disp) + Len(rest) |->
     IF n <= Len(disp) THEN disp[n].call ELSE rest[n - Len(disp)]]

Made == MadeOf(dispatched, pending)

\* The prompt is the first message and no other, no message is of a later turn,
\* and only calls messages hold calls.
Shape ==
  /\ pc # "idle" => turn >= 1 /\ history # <<>>
  /\ history # <<>> => history[1].kind = "prompt"
  /\ \A i \in DOMAIN history :
       /\ i > 1 => history[i].kind # "prompt"
       /\ history[i].turn <= turn
       /\ ~IsCalls(history[i]) => history[i].calls = <<>>

\* From its first step to its end a turn has its own context and no other's.
OneContext ==
  pc # "idle" =>
    /\ \A i \in DOMAIN history : history[i].kind \in {"context", "hint"}
                                   => history[i].turn = turn
    /\ \E c \in DOMAIN history :
         \A i \in DOMAIN history : history[i].kind = "context" <=> i = c

\* While a message's calls are dispatched, the history ends with this message,
\* at place c, and the results of those dispatched.
OpenMessage(c) ==
  LET d == Len(history) - c
  IN /\ IsCalls(history[c])
     /\ history[c].turn = turn
     /\ Len(history[c].calls) = Len(pending) + d
     /\ \A k \in 1 .. d : Answers(history, c, k)
     /\ history[c].id + d = Len(dispatched) + 1
     /\ CallsAnswered(history, raised, c)

Protocol ==
  /\ ResultsPlaced(history)
  /\ pc # "dispatching" => CallsAnswered(history, raised, 0)
  /\ pc = "dispatching" => \E c \in DOMAIN history : OpenMessage(c)

Reported ==
  pc # "idle" => \A i \in DOMAIN events : i > events_before => events[i].turn = turn

\* What the messages of h behind the user's at place u say of turn t, in which
\* the calls made were made and disp dispatched.
OnRecord(h, u, t, made, disp) ==
  /\ h[u].kind = "user"
  /\ \A i \in u + 1 .. Len(h) :
       /\ h[i].kind # "user"
       /\ h[i].turn = t
       /\ ~IsCalls(h[i]) => h[i].calls = <<>>
       /\ IsCalls(h[i]) =>
            \A k \in DOMAIN h[i].calls :
              /\ h[i].id + k - 1 \in DOMAIN made
              /\ made[h[i].id + k - 1] = h[i].calls[k]
       /\ h[i].kind = "result" =>
            /\ h[i].id \in DOMAIN disp
            /\ h[i].outcome = disp[h[i].id].outcome

\* The first i of these messages make count[i] calls, and their ids go on counting.
Counts(h, u, count, made) ==
  /\ count[0] = 0
  /\ \A i \in 1 .. Len(h) - u :
       /\ count[i] = count[i - 1] + Len(h[u + i].calls)
       /\ IsCalls(h[u + i]) => h[u + i].id = count[i - 1] + 1
  /\ count[Len(h) - u] = Len(made)

\* Every call dispatched has its result.
Covered(h, u, disp) ==
  \A d \in DOMAIN disp :
    \E i \in u + 1 .. Len(h) : h[i].kind = "result" /\ h[i].id = d

Record(h, u, t, made, disp) ==
  /\ OnRecord(h, u, t, made, disp)
  /\ \E count \in [0 .. Len(h) - u -> Nat] : Counts(h, u, count, made)
  /\ Covered(h, u, disp)

TurnRecord ==
  /\ pc = "idle" => dispatched = <<>>
  /\ pc # "idle" => \E u \in DOMAIN history : Record(history, u, turn, Made, dispatched)

IInv ==
  /\ TypeOK
  /\ Shape
  /\ OneContext
  /\ Protocol
  /\ UserAnswered
  /\ Reported
  /\ ConversationKnowsCart
  /\ TurnRecord
  /\ LoopBroken

-----------------------------------------------------------------------------
(* What the actions do *)

Event == [turn : 0 .. MaxTurns, id : Nat]

LEMMA Appended ==
  ASSUME NEW h \in Seq(Message), NEW m \in Message
  PROVE  /\ Append(h, m) \in Seq(Message) /\ Append(h, m) # <<>>
         /\ Len(h) \in Nat /\ DOMAIN h = 1 .. Len(h)
         /\ Len(Append(h, m)) = Len(h) + 1 /\ DOMAIN Append(h, m) = 1 .. Len(h) + 1
         /\ \A i \in 1 .. Len(h) : Append(h, m)[i] = h[i]
         /\ Append(h, m)[Len(h) + 1] = m
BY AppendProperties, LenProperties

LEMMA ResultMessageIs ==
  ASSUME turn \in 0 .. MaxTurns, Len(dispatched) \in Nat, NEW outcome \in Outcome
  PROVE  /\ ResultMessage(outcome) \in Message
         /\ ResultMessage(outcome).kind = "result"
         /\ ResultMessage(outcome).turn = turn
         /\ ResultMessage(outcome).calls = <<>>
         /\ ResultMessage(outcome).id = Len(dispatched) + 1
         /\ ResultMessage(outcome).outcome = outcome
<1> DEFINE m == [kind |-> "result", turn |-> turn, calls |-> <<>>,
                 id |-> Len(dispatched) + 1, outcome |-> outcome]
           m1 == [kind |-> "result", turn |-> turn, calls |-> <<>>,
                  id |-> Len(dispatched) + 1, outcome |-> "none"]
<1>1. ResultMessage(outcome) = m
  <2>1. [Note("result", turn) EXCEPT !.id = Len(dispatched) + 1] = m1
    BY DEF Note
  <2>2. [m1 EXCEPT !.outcome = outcome] = m
    OBVIOUS
  <2>3. ResultMessage(outcome) =
          [[Note("result", turn) EXCEPT !.id = Len(dispatched) + 1] EXCEPT !.outcome = outcome]
    BY DEF ResultMessage
  <2> QED
    BY <2>1, <2>2, <2>3
<1>2. m \in Message
  BY DEF Message, Kind
<1> QED
  BY <1>1, <1>2

LEMMA CallsMessageIs ==
  ASSUME turn \in 0 .. MaxTurns, Len(dispatched) \in Nat, NEW calls \in Seq(Call)
  PROVE  /\ CallsMessage(calls) \in Message
         /\ IsCalls(CallsMessage(calls))
         /\ CallsMessage(calls).turn = turn
         /\ CallsMessage(calls).calls = calls
         /\ CallsMessage(calls).id = Len(dispatched) + 1
<1> DEFINE m == [kind |-> "calls", turn |-> turn, calls |-> calls,
                 id |-> Len(dispatched) + 1, outcome |-> "none"]
           m1 == [kind |-> "calls", turn |-> turn, calls |-> calls, id |-> 0, outcome |-> "none"]
<1>1. CallsMessage(calls) = m
  <2>1. [Note("calls", turn) EXCEPT !.calls = calls] = m1
    BY DEF Note
  <2>2. [m1 EXCEPT !.id = Len(dispatched) + 1] = m
    OBVIOUS
  <2>3. CallsMessage(calls) =
          [[Note("calls", turn) EXCEPT !.calls = calls] EXCEPT !.id = Len(dispatched) + 1]
    BY DEF CallsMessage
  <2> QED
    BY <2>1, <2>2, <2>3
<1>2. m \in Message
  BY DEF Message, Kind, Outcome
<1> QED
  BY <1>1, <1>2 DEF IsCalls

\* The newest events may go, one may come: every other stays or moves down.
LEMMA EffectEvents ==
  ASSUME TypeOK, NEW undo \in BOOLEAN, NEW event \in Event, NEW outcome,
         Effect(undo, event, outcome)
  PROVE  /\ outcome \in Outcome \ {"none"}
         /\ events' \in Seq(Event)
         /\ Len(events') <= HistoryLimit
         /\ \A i \in DOMAIN events' :
              \/ outcome = "changed" /\ events'[i] = event
              \/ \E j \in DOMAIN events : j >= i /\ events'[i] = events[j]
<1>1. events \in Seq(Event) /\ Len(events) <= HistoryLimit /\ HistoryLimit \in Nat
  BY TurnAssumption DEF TypeOK, Event
<1>2. Len(events) \in Nat /\ DOMAIN events = 1 .. Len(events)
  BY <1>1, LenProperties
<1>3. CASE events # <<>> /\ outcome = "undone" /\ events' = Front(events)
  <2>1. Len(events) > 0
    BY <1>1, <1>3, EmptySeq
  <2>2. events' = SubSeq(events, 1, Len(events) - 1)
    BY <1>3 DEF Front
  <2>3. \A i \in 1 .. Len(events) - 1 : events[i] \in Event
    BY <1>1, <1>2, ElementOfSeq
  <2>4. /\ events' \in Seq(Event)
        /\ Len(events') = Len(events) - 1
        /\ \A i \in 1 .. Len(events) - 1 : events'[i] = events[i]
    BY <1>2, <2>1, <2>2, <2>3, SubSeqProperties
  <2>5. DOMAIN events' = 1 .. Len(events) - 1
    BY <2>4, LenProperties
  <2> QED
    BY <1>1, <1>2, <1>3, <2>4, <2>5 DEF Outcome
<1>4. CASE outcome = "refused" /\ UNCHANGED events
  BY <1>1, <1>2, <1>4 DEF Outcome
<1>5. CASE outcome = "changed" /\ Recorded(event)
  <2> DEFINE h == Append(events, event)
  <2>1. /\ h \in Seq(Event) /\ h # <<>>
        /\ Len(h) = Len(events) + 1
        /\ \A i \in 1 .. Len(events) : h[i] = events[i]
        /\ h[Len(events) + 1] = event
    BY <1>1, AppendProperties
  <2> HIDE DEF h
  <2>2. events' = IF Len(h) > HistoryLimit THEN Tail(h) ELSE h
    BY <1>5 DEF Recorded, h
  <2>3. \A i \in 1 .. Len(events) + 1 : i \in 1 .. Len(events) \/ i = Len(events) + 1
    BY <1>2
  <2>4. CASE Len(h) > HistoryLimit
    <3>1. /\ events' \in Seq(Event) /\ Len(events') = Len(h) - 1
          /\ \A i \in 1 .. Len(events') : events'[i] = h[i + 1]
      BY <2>1, <2>2, <2>4, HeadTailProperties
    <3>2. DOMAIN events' = 1 .. Len(events)
      BY <1>2, <2>1, <3>1, LenProperties
    <3>3. ASSUME NEW i \in 1 .. Len(events)
          PROVE  \/ events'[i] = event
                 \/ \E j \in DOMAIN events : j >= i /\ events'[i] = events[j]
      <4>1. events'[i] = h[i + 1] /\ i + 1 \in 1 .. Len(events) + 1
        BY <1>2, <2>1, <3>1, <3>3
      <4>2. CASE i + 1 \in 1 .. Len(events)
        BY <1>2, <2>1, <4>1, <4>2
      <4>3. CASE i + 1 = Len(events) + 1
        BY <2>1, <4>1, <4>3
      <4> QED
        BY <2>3, <4>1, <4>2, <4>3
    <3> QED
      BY <1>1, <1>2, <1>5, <2>1, <3>1, <3>2, <3>3 DEF Outcome
  <2>5. CASE ~(Len(h) > HistoryLimit)
    <3>1. events' = h /\ DOMAIN events' = 1 .. Len(events) + 1
      BY <2>1, <2>2, <2>5, LenProperties
    <3>2. \A i \in 1 .. Len(events) + 1 :
            \/ events'[i] = event
            \/ \E j \in DOMAIN events : j >= i /\ events'[i] = events[j]
      BY <1>2, <2>1, <2>3, <3>1
    <3>3. Len(h) <= HistoryLimit
      BY <1>1, <1>2, <2>1, <2>5
    <3> QED
      BY <1>5, <2>1, <3>1, <3>2, <3>3 DEF Outcome
  <2> QED
    BY <2>4, <2>5
<1> QED
  BY <1>3, <1>4, <1>5 DEF Effect

\* One call of the open message: what is dispatched, and what the history gets.
LEMMA DispatchToolStep ==
  ASSUME TypeOK, Shape, DispatchTool
  PROVE  \E outcome \in Outcome \ {"none"} :
           /\ Effect(Head(pending) \in UndoCall, [turn |-> turn, id |-> Len(dispatched) + 1], outcome)
           /\ [turn |-> turn, id |-> Len(dispatched) + 1] \in Event
           /\ ResultMessage(outcome) \in Message
           /\ dispatched' = Append(dispatched, [call |-> Head(pending), outcome |-> outcome])
           /\ [call |-> Head(pending), outcome |-> outcome] \in [call : Call, outcome : Outcome \ {"none"}]
           /\ Continue(Append(history, ResultMessage(outcome)))
<1>1. /\ pc = "dispatching" /\ pending # <<>> /\ pending \in Seq(Call)
      /\ turn \in 0 .. MaxTurns /\ Len(dispatched) \in Nat
  BY LenProperties DEF DispatchTool, TypeOK
<1>2. Head(pending) \in Call
  BY <1>1, HeadTailProperties
<1>3. PICK outcome \in Outcome :
        Dispatch(Head(pending), outcome) /\ Continue(Append(history, ResultMessage(outcome)))
  BY DEF DispatchTool
<1>4. [turn |-> turn, id |-> Len(dispatched) + 1] \in Event
  BY <1>1 DEF Event
<1>5. outcome # "none"
  BY <1>3 DEF Dispatch, Effect
<1>6. ResultMessage(outcome) \in Message
  BY <1>1, ResultMessageIs
<1> QED
  BY <1>2, <1>3, <1>4, <1>5, <1>6 DEF Dispatch

LEMMA NoteIs ==
  ASSUME NEW k, NEW t
  PROVE  Note(k, t).kind = k /\ Note(k, t).turn = t /\ Note(k, t).calls = <<>>
BY DEF Note

LEMMA BeginTurnStep ==
  ASSUME TypeOK, Shape, BeginTurn, NEW p, p = Prepared(history)
  PROVE  /\ p \in Seq(Message) /\ Len(p) \in Nat /\ Len(p) >= 1 /\ DOMAIN p = 1 .. Len(p)
         /\ turn' = turn + 1 /\ turn' \in 1 .. MaxTurns
         /\ history' \in Seq(Message) /\ DOMAIN history' = 1 .. Len(p) + 2
         /\ Len(history') = Len(p) + 2
         /\ \A i \in 1 .. Len(p) : history'[i] = p[i]
         /\ history'[Len(p) + 1] = Note("context", turn')
         /\ history'[Len(p) + 2] = Note("user", turn')
         /\ p[1].kind = "prompt"
         /\ \A i \in 1 .. Len(p) : /\ i > 1 => p[i].kind \notin SystemKind
                                   /\ p[i].turn <= turn
                                   /\ ~IsCalls(p[i]) => p[i].calls = <<>>
<1>1. history \in Seq(Message) /\ turn \in 0 .. MaxTurns /\ turn < MaxTurns /\ MaxTurns \in Nat
  BY TurnAssumption DEF TypeOK, BeginTurn
<1>2. turn' = turn + 1 /\ turn' \in 1 .. MaxTurns
  BY <1>1 DEF BeginTurn
<1>3. /\ p \in Seq(Message) /\ Len(p) \in Nat /\ Len(p) >= 1 /\ DOMAIN p = 1 .. Len(p)
      /\ p[1].kind = "prompt"
      /\ \A i \in 1 .. Len(p) : i > 1 => p[i].kind \notin SystemKind
  BY <1>1, PreparedHead DEF Shape
<1>4. ASSUME NEW i \in 1 .. Len(p)
      PROVE  p[i].turn <= turn /\ (~IsCalls(p[i]) => p[i].calls = <<>>)
  <2>1. p[i] = Note("prompt", 0) \/ \E j \in DOMAIN history : p[i] = history[j]
    BY <1>1, <1>3, PreparedFrom
  <2>2. CASE p[i] = Note("prompt", 0)
    BY <1>1, <2>2, NoteIs
  <2> QED
    BY <2>1, <2>2 DEF Shape
<1> DEFINE c == Note("context", turn')
           u == Note("user", turn')
           q == <<c, u>>
<1>5. c \in Message /\ u \in Message
  BY <1>1, <1>2, NoteType DEF Kind, SystemKind
<1> HIDE DEF c, u
<1>6. q \in Seq(Message) /\ Len(q) = 2 /\ q[1] = c /\ q[2] = u
  BY <1>5
<1>7. history' = p \o q
  BY DEF BeginTurn, c, u
<1> HIDE DEF q
<1>8. /\ history' \in Seq(Message) /\ Len(history') = Len(p) + 2
      /\ \A i \in 1 .. Len(p) + 2 : history'[i] = IF i <= Len(p) THEN p[i] ELSE q[i - Len(p)]
  BY <1>3, <1>6, <1>7, ConcatProperties
<1>9. DOMAIN history' = 1 .. Len(p) + 2
  BY <1>8, LenProperties
<1>10. \A i \in 1 .. Len(p) : history'[i] = p[i]
  BY <1>3, <1>8
<1>11. history'[Len(p) + 1] = c /\ history'[Len(p) + 2] = u
  BY <1>3, <1>6, <1>8
<1> QED
  BY <1>2, <1>3, <1>4, <1>8, <1>9, <1>10, <1>11 DEF c, u

\* Every other step leaves the history or appends messages of the open turn.
LEMMA HistoryGrows ==
  ASSUME TypeOK, Shape, TurnStep \/ CartAction \/ UNCHANGED vars
  PROVE  /\ turn' = turn
         /\ history' \in Seq(Message) /\ DOMAIN history' = 1 .. Len(history')
         /\ Len(history) \in Nat /\ DOMAIN history = 1 .. Len(history)
         /\ Len(history') \in Nat /\ Len(history') >= Len(history)
         /\ \A i \in 1 .. Len(history) : history'[i] = history[i]
         /\ \A i \in Len(history) + 1 .. Len(history') :
              /\ history'[i].turn = turn
              /\ history'[i].kind \in {"calls", "result", "reply", "hint"}
              /\ ~IsCalls(history'[i]) => history'[i].calls = <<>>
<1> DEFINE Grown(g) ==
             /\ g \in Seq(Message) /\ DOMAIN g = 1 .. Len(g)
             /\ Len(history) \in Nat /\ DOMAIN history = 1 .. Len(history)
             /\ Len(g) \in Nat /\ Len(g) >= Len(history)
             /\ \A i \in 1 .. Len(history) : g[i] = history[i]
             /\ \A i \in Len(history) + 1 .. Len(g) :
                  /\ g[i].turn = turn
                  /\ g[i].kind \in {"calls", "result", "reply", "hint"}
                  /\ ~IsCalls(g[i]) => g[i].calls = <<>>
           New(m) == /\ m \in Message /\ m.turn = turn
                     /\ m.kind \in {"calls", "result", "reply", "hint"}
                     /\ ~IsCalls(m) => m.calls = <<>>
<1>1. /\ history \in Seq(Message) /\ Len(history) \in Nat /\ DOMAIN history = 1 .. Len(history)
      /\ turn \in 0 .. MaxTurns /\ Len(dispatched) \in Nat
  BY LenProperties DEF TypeOK
<1>2. Grown(history)
  BY <1>1
<1>3. ASSUME NEW g, Grown(g), NEW m, New(m)
      PROVE  Grown(Append(g, m))
  <2> DEFINE a == Append(g, m)
  <2>1. /\ a \in Seq(Message)
        /\ Len(a) = Len(g) + 1 /\ DOMAIN a = 1 .. Len(g) + 1
        /\ \A i \in 1 .. Len(g) : a[i] = g[i]
        /\ a[Len(g) + 1] = m
    BY <1>3, Appended
  <2> HIDE DEF a
  <2>2. ASSUME NEW i \in Len(history) + 1 .. Len(a)
        PROVE  /\ a[i].turn = turn
               /\ a[i].kind \in {"calls", "result", "reply", "hint"}
               /\ ~IsCalls(a[i]) => a[i].calls = <<>>
    <3>1. CASE i = Len(g) + 1
      BY <1>3, <2>1, <3>1
    <3>2. CASE i # Len(g) + 1
      <4>1. i \in Len(history) + 1 .. Len(g) /\ i \in 1 .. Len(g)
        BY <1>3, <2>1, <3>2
      <4> QED
        BY <1>3, <2>1, <4>1
    <3> QED
      BY <3>1, <3>2
  <2>3. \A i \in 1 .. Len(history) : i \in 1 .. Len(g)
    BY <1>3
  <2> QED
    BY <1>3, <2>1, <2>2, <2>3 DEF a
<1>4. \A k \in {"reply", "hint"} : New(Note(k, turn))
  BY <1>1, NoteType, NoteIs DEF Kind, SystemKind
<1> HIDE DEF Grown, New
<1>5. CASE UNCHANGED history /\ turn' = turn
  BY <1>2, <1>5 DEF Grown
<1>6. ASSUME NEW m, New(m), history' = Append(history, m), turn' = turn
      PROVE  turn' = turn /\ Grown(history')
  BY <1>2, <1>3, <1>6
<1>7. ASSUME NEW calls \in UNION {[1 .. n -> Call] : n \in 1 .. MaxCalls}, AnswerCalls(calls)
      PROVE  turn' = turn /\ Grown(history')
  <2>1. calls \in Seq(Call)
    BY <1>7, SeqDef
  <2>2. New(CallsMessage(calls))
    BY <1>1, <2>1, CallsMessageIs DEF New, IsCalls
  <2> QED
    BY <1>6, <1>7, <2>2 DEF AnswerCalls
<1>8. ASSUME DispatchTool
      PROVE  turn' = turn /\ Grown(history')
  <2>1. PICK outcome \in Outcome : Continue(Append(history, ResultMessage(outcome)))
    BY <1>8, DispatchToolStep
  <2>2. New(ResultMessage(outcome))
    BY <1>1, ResultMessageIs DEF New
  <2>3. Grown(Append(history, ResultMessage(outcome)))
    BY <1>2, <1>3, <2>2
  <2>4. Grown(Append(Append(history, ResultMessage(outcome)), Note("reply", turn)))
    BY <1>3, <1>4, <2>3
  <2> QED
    BY <1>8, <2>1, <2>3, <2>4 DEF Continue, DispatchTool
<1>9. ASSUME TurnStep
      PROVE  turn' = turn /\ Grown(history')
  <2>1. CASE AnswerImitation
    BY <1>4, <1>6, <2>1 DEF AnswerImitation
  <2>2. CASE RoundTripLimit
    BY <1>4, <1>6, <2>2 DEF RoundTripLimit
  <2>3. ASSUME NEW finish, AnswerText(finish)
        PROVE  turn' = turn /\ Grown(history')
    BY <1>4, <1>6, <2>3 DEF AnswerText
  <2>4. CASE Raise \/ Respond
    BY <1>2, <2>4 DEF Raise, Respond
  <2> QED
    BY <1>7, <1>8, <1>9, <2>1, <2>2, <2>3, <2>4 DEF TurnStep
<1>10. CASE CartAction \/ UNCHANGED vars
  <2>1. UNCHANGED history /\ turn' = turn
    BY <1>10 DEF CartAction, vars
  <2> QED
    BY <1>5, <2>1
<1> QED
  BY <1>9, <1>10 DEF Grown

-----------------------------------------------------------------------------
(* Type correctness *)

LEMMA EmptyValues ==
  /\ 0 \in 0 .. MaxRoundTrips /\ 0 \in 0 .. HistoryLimit /\ 0 \in 0 .. MaxTurns
  /\ <<>> \in Seq(Message) /\ <<>> \in Seq(Call)
  /\ <<>> \in Seq([turn : 0 .. MaxTurns, id : Nat])
  /\ <<>> \in Seq([call : Call, outcome : Outcome \ {"none"}])
  /\ Len(<<>>) <= HistoryLimit
<1>1. \A S : <<>> \in Seq(S)
  OBVIOUS
<1>2. Len(<<>>) = 0
  OBVIOUS
<1> QED
  BY <1>1, <1>2, TurnAssumption

LEMMA TypeInit ==
  ASSUME Init
  PROVE  TypeOK
BY EmptyValues DEF Init, TypeOK, Returned

LEMMA TypeDispatchTool ==
  ASSUME TypeOK, Shape, DispatchTool
  PROVE  TypeOK'
<1>1. PICK outcome \in Outcome \ {"none"} :
        /\ Effect(Head(pending) \in UndoCall, [turn |-> turn, id |-> Len(dispatched) + 1], outcome)
        /\ [turn |-> turn, id |-> Len(dispatched) + 1] \in Event
        /\ dispatched' = Append(dispatched, [call |-> Head(pending), outcome |-> outcome])
        /\ [call |-> Head(pending), outcome |-> outcome] \in [call : Call, outcome : Outcome \ {"none"}]
        /\ Continue(Append(history, ResultMessage(outcome)))
  BY DispatchToolStep
<1>2. events' \in Seq(Event) /\ Len(events') <= HistoryLimit
  <2> DEFINE undo == Head(pending) \in UndoCall
  <2>1. undo \in BOOLEAN
    OBVIOUS
  <2> HIDE DEF undo
  <2> QED
    BY <1>1, <2>1, EffectEvents DEF undo
<1>3. dispatched' \in Seq([call : Call, outcome : Outcome \ {"none"}])
  <2> DEFINE D == [call : Call, outcome : Outcome \ {"none"}]
  <2>1. dispatched \in Seq(D)
    BY DEF TypeOK
  <2> HIDE DEF D
  <2> QED
    BY <1>1, <2>1, AppendProperties DEF D
<1>4. pending' \in Seq(Call)
  BY HeadTailProperties DEF TypeOK, DispatchTool
<1>5. turn' = turn /\ history' \in Seq(Message)
  BY HistoryGrows DEF TurnStep
<1>6. pc' \in {"idle", "asking", "dispatching"} \cup Returned /\ (pc' = "dispatching" <=> pending' # <<>>)
  BY <1>1 DEF Continue, DispatchTool, Returned
<1>7. UNCHANGED <<round_trips, guard_used, events_before, raised>>
  BY DEF DispatchTool
<1>8. events' \in Seq([turn : 0 .. MaxTurns, id : Nat])
  BY <1>2 DEF Event
<1> QED
  BY <1>2, <1>3, <1>4, <1>5, <1>6, <1>7, <1>8 DEF TypeOK

LEMMA TypeNext ==
  ASSUME TypeOK, Shape, [Next]_vars
  PROVE  TypeOK'
<1>1. CASE BeginTurn
  <2>1. history' \in Seq(Message) /\ turn' = turn + 1 /\ turn' \in 1 .. MaxTurns
    BY <1>1, BeginTurnStep
  <2>2. Len(events) \in 0 .. HistoryLimit
    BY TurnAssumption, LenProperties DEF TypeOK
  <2>3. pending = <<>> /\ pc' = "asking" /\ events_before' = Len(events)
        /\ UNCHANGED <<events, round_trips, guard_used, pending, dispatched, raised>>
    BY <1>1 DEF BeginTurn, TypeOK
  <2>4. raised' \subseteq 1 .. turn' /\ turn' \in 0 .. MaxTurns
    BY <2>1, <2>3 DEF TypeOK
  <2> QED
    BY <2>1, <2>2, <2>3, <2>4 DEF TypeOK
<1>2. ASSUME NEW calls \in UNION {[1 .. n -> Call] : n \in 1 .. MaxCalls}, AnswerCalls(calls)
      PROVE  TypeOK'
  <2>1. history' \in Seq(Message) /\ turn' = turn
    BY <1>2, HistoryGrows DEF TurnStep
  <2>2. calls \in Seq(Call) /\ calls # <<>>
    <3>1. PICK n \in 1 .. MaxCalls : calls \in [1 .. n -> Call]
      BY <1>2
    <3>2. n \in Nat /\ 1 \in 1 .. n
      BY TurnAssumption
    <3>3. calls \in Seq(Call) /\ Len(calls) = n
      BY <3>1, <3>2, SeqDef
    <3> QED
      BY <3>2, <3>3, EmptySeq
  <2>3. round_trips' \in 0 .. MaxRoundTrips
    BY <1>2, TurnAssumption DEF AnswerCalls, Asking, TypeOK
  <2> QED
    BY <1>2, <2>1, <2>2, <2>3 DEF AnswerCalls, Asking, TypeOK
<1>3. CASE DispatchTool
  BY <1>3, TypeDispatchTool
<1>4. CASE AnswerImitation
  <2>1. history' \in Seq(Message)
    BY <1>4, HistoryGrows DEF TurnStep
  <2>2. round_trips' \in 0 .. MaxRoundTrips
    BY <1>4, TurnAssumption DEF AnswerImitation, Asking, TypeOK
  <2> QED
    BY <1>4, <2>1, <2>2 DEF AnswerImitation, TypeOK
<1>5. ASSUME NEW finish \in {"stop", "other"}, AnswerText(finish)
      PROVE  TypeOK'
  <2>1. history' \in Seq(Message)
    BY <1>5, HistoryGrows DEF TurnStep
  <2>2. round_trips' \in 0 .. MaxRoundTrips
    BY <1>5, TurnAssumption DEF AnswerText, Asking, TypeOK
  <2> QED
    BY <1>5, <2>1, <2>2 DEF AnswerText, Asking, TypeOK, Returned
<1>6. CASE RoundTripLimit
  <2>1. history' \in Seq(Message)
    BY <1>6, HistoryGrows DEF TurnStep
  <2> QED
    BY <1>6, <2>1 DEF RoundTripLimit, TypeOK, Returned, locals
<1>7. CASE Raise
  <2>1. turn \in 1 .. turn
    BY <1>7 DEF Raise, Asking, TypeOK, Shape
  <2>2. raised' \subseteq 1 .. turn
    BY <1>7, <2>1 DEF Raise, TypeOK
  <2> QED
    BY <1>7, <2>2, EmptyValues DEF Raise, TypeOK, LocalsGone
<1>8. CASE Respond
  BY <1>8, EmptyValues DEF Respond, TypeOK, LocalsGone
<1>9. CASE CartAction
  <2>1. [turn |-> 0, id |-> 0] \in Event
    BY TurnAssumption DEF Event
  <2>2. events' \in Seq(Event) /\ Len(events') <= HistoryLimit
    BY <1>9, <2>1, EffectEvents DEF CartAction
  <2> QED
    BY <1>9, <2>2 DEF CartAction, TypeOK, Event, locals
<1>10. CASE UNCHANGED vars
  BY <1>10 DEF vars, locals, TypeOK
<1> QED
  BY <1>1, <1>2, <1>3, <1>4, <1>5, <1>6, <1>7, <1>8, <1>9, <1>10 DEF Next, TurnStep

-----------------------------------------------------------------------------
(* The prompt and the context *)

LEMMA ShapeInit ==
  ASSUME Init
  PROVE  Shape
BY DEF Init, Shape

LEMMA ShapeNext ==
  ASSUME TypeOK, Shape, [Next]_vars
  PROVE  Shape'
<1>1. CASE BeginTurn
  <2> DEFINE p == Prepared(history)
  <2>1. /\ Len(p) \in Nat /\ Len(p) >= 1
        /\ turn' = turn + 1 /\ turn' \in 1 .. MaxTurns /\ turn \in Nat
        /\ DOMAIN history' = 1 .. Len(p) + 2
        /\ \A i \in 1 .. Len(p) : history'[i] = p[i]
        /\ history'[Len(p) + 1] = Note("context", turn')
        /\ history'[Len(p) + 2] = Note("user", turn')
        /\ p[1].kind = "prompt"
        /\ \A i \in 1 .. Len(p) : /\ i > 1 => p[i].kind \notin SystemKind
                                  /\ p[i].turn <= turn
                                  /\ ~IsCalls(p[i]) => p[i].calls = <<>>
    BY <1>1, BeginTurnStep DEF TypeOK
  <2> HIDE DEF p
  <2>2. ASSUME NEW i \in DOMAIN history'
        PROVE  /\ i > 1 => history'[i].kind # "prompt"
               /\ history'[i].turn <= turn'
               /\ ~IsCalls(history'[i]) => history'[i].calls = <<>>
    <3>1. CASE i \in 1 .. Len(p)
      <4>1. history'[i] \in Message
        BY <1>1, BeginTurnStep, ElementOfSeq, LenProperties
      <4>2. history'[i].turn \in Int
        BY <4>1 DEF Message
      <4> QED
        BY <2>1, <3>1, <4>2 DEF SystemKind
    <3>2. CASE i = Len(p) + 1 \/ i = Len(p) + 2
      BY <2>1, <3>2, NoteIs
    <3> QED
      BY <2>1, <3>1, <3>2
  <2>3. history'[1].kind = "prompt" /\ history' # <<>>
    BY <2>1
  <2> QED
    BY <2>1, <2>2, <2>3 DEF Shape
<1>2. CASE TurnStep \/ CartAction \/ UNCHANGED vars
  <2>1. /\ turn' = turn /\ turn \in 0 .. MaxTurns
        /\ history' \in Seq(Message) /\ DOMAIN history' = 1 .. Len(history')
        /\ history \in Seq(Message)
        /\ Len(history) \in Nat /\ DOMAIN history = 1 .. Len(history)
        /\ Len(history') \in Nat /\ Len(history') >= Len(history)
        /\ \A i \in 1 .. Len(history) : history'[i] = history[i]
        /\ \A i \in Len(history) + 1 .. Len(history') :
             /\ history'[i].turn = turn
             /\ history'[i].kind \in {"calls", "result", "reply", "hint"}
             /\ ~IsCalls(history'[i]) => history'[i].calls = <<>>
    BY <1>2, HistoryGrows DEF TypeOK
  <2>2. pc' # "idle" => pc # "idle"
    BY <1>2 DEF TurnStep, CartAction, vars, AnswerCalls, Asking, DispatchTool, AnswerImitation,
                AnswerText, RoundTripLimit, Raise, Respond
  <2>3. history = <<>> => pc = "idle"
    BY DEF Shape
  <2>4. history = <<>> => history' = <<>>
    BY <1>2, <2>3 DEF TurnStep, CartAction, vars, AnswerCalls, Asking, DispatchTool, AnswerImitation,
                AnswerText, RoundTripLimit, Raise, Respond, Returned
  <2>5. history # <<>> => history' # <<>> /\ history'[1] = history[1]
    <3> SUFFICES ASSUME history # <<>>
                 PROVE  history' # <<>> /\ history'[1] = history[1]
      OBVIOUS
    <3>1. 1 \in 1 .. Len(history)
      BY <2>1, EmptySeq
    <3>2. 1 \in DOMAIN history'
      BY <2>1, <3>1
    <3> QED
      BY <2>1, <3>1, <3>2
  <2>6. ASSUME NEW i \in DOMAIN history'
        PROVE  /\ i > 1 => history'[i].kind # "prompt"
               /\ history'[i].turn <= turn'
               /\ ~IsCalls(history'[i]) => history'[i].calls = <<>>
    <3>1. CASE i \in 1 .. Len(history)
      BY <2>1, <3>1 DEF Shape
    <3>2. CASE i \notin 1 .. Len(history)
      <4>1. i \in Len(history) + 1 .. Len(history')
        BY <2>1, <3>2
      <4> QED
        BY <2>1, <4>1
    <3> QED
      BY <3>1, <3>2
  <2>7. pc' # "idle" => turn' >= 1 /\ history' # <<>>
    BY <2>1, <2>2, <2>5 DEF Shape
  <2> QED
    BY <2>4, <2>5, <2>6, <2>7 DEF Shape
<1> QED
  BY <1>1, <1>2 DEF Next

LEMMA OneContextNext ==
  ASSUME TypeOK, Shape, OneContext, [Next]_vars
  PROVE  OneContext'
<1>1. CASE BeginTurn
  <2> DEFINE p == Prepared(history)
             c == Len(p) + 1
  <2>1. /\ Len(p) \in Nat /\ Len(p) >= 1
        /\ DOMAIN history' = 1 .. Len(p) + 2
        /\ \A i \in 1 .. Len(p) : history'[i] = p[i]
        /\ history'[Len(p) + 1] = Note("context", turn')
        /\ history'[Len(p) + 2] = Note("user", turn')
        /\ p[1].kind = "prompt"
        /\ \A i \in 1 .. Len(p) : i > 1 => p[i].kind \notin SystemKind
    BY <1>1, BeginTurnStep
  <2> HIDE DEF p
  <2>2. c \in DOMAIN history' /\ history'[c].kind = "context" /\ history'[c].turn = turn'
    BY <2>1, NoteIs
  <2>3. ASSUME NEW i \in DOMAIN history', i # c
        PROVE  history'[i].kind \notin {"context", "hint"}
    <3>1. CASE i = 1
      BY <2>1, <3>1
    <3>2. CASE i > 1 /\ i \in 1 .. Len(p)
      BY <2>1, <3>2 DEF SystemKind
    <3>3. CASE i = Len(p) + 2
      BY <2>1, <3>3, NoteIs
    <3> QED
      BY <2>1, <2>3, <3>1, <3>2, <3>3
  <2> QED
    BY <2>2, <2>3 DEF OneContext
<1>2. CASE TurnStep \/ CartAction \/ UNCHANGED vars
  <2>1. /\ turn' = turn
        /\ DOMAIN history' = 1 .. Len(history')
        /\ Len(history) \in Nat /\ DOMAIN history = 1 .. Len(history)
        /\ Len(history') \in Nat /\ Len(history') >= Len(history)
        /\ \A i \in 1 .. Len(history) : history'[i] = history[i]
        /\ \A i \in Len(history) + 1 .. Len(history') :
             /\ history'[i].turn = turn
             /\ history'[i].kind \in {"calls", "result", "reply", "hint"}
    BY <1>2, HistoryGrows
  <2>2. pc' # "idle" => pc # "idle"
    BY <1>2 DEF TurnStep, CartAction, vars, AnswerCalls, Asking, DispatchTool, AnswerImitation,
                AnswerText, RoundTripLimit, Raise, Respond
  <2> SUFFICES ASSUME pc' # "idle"
               PROVE  /\ \A i \in DOMAIN history' : history'[i].kind \in {"context", "hint"}
                                                     => history'[i].turn = turn
                      /\ \E c \in DOMAIN history' :
                           \A i \in DOMAIN history' : history'[i].kind = "context" <=> i = c
    BY <2>1 DEF OneContext
  <2>3. PICK c \in DOMAIN history : \A i \in DOMAIN history : history[i].kind = "context" <=> i = c
    BY <2>2 DEF OneContext
  <2>4. ASSUME NEW i \in DOMAIN history'
        PROVE  /\ history'[i].kind \in {"context", "hint"} => history'[i].turn = turn
               /\ history'[i].kind = "context" <=> i = c
    <3>1. CASE i \in 1 .. Len(history)
      BY <2>1, <2>2, <2>3, <3>1 DEF OneContext
    <3>2. CASE i \notin 1 .. Len(history)
      <4>1. i \in Len(history) + 1 .. Len(history')
        BY <2>1, <3>2
      <4> QED
        BY <2>1, <2>3, <3>2, <4>1
    <3> QED
      BY <3>1, <3>2
  <2>5. c \in DOMAIN history'
    BY <2>1, <2>3
  <2> QED
    BY <2>4, <2>5
<1> QED
  BY <1>1, <1>2 DEF Next

LEMMA FreshContextHolds ==
  ASSUME TypeOK, Shape, OneContext
  PROVE  FreshContext
<1> SUFFICES ASSUME pc = "asking"
             PROVE  /\ Head(history).kind = "prompt"
                    /\ \A i \in DOMAIN history : history[i].kind \in {"context", "hint"}
                                                   => history[i].turn = turn
                    /\ Cardinality({i \in DOMAIN history : history[i].kind = "context"}) = 1
                    /\ Cardinality({i \in DOMAIN history : history[i].kind = "prompt"}) = 1
  BY DEF FreshContext
<1>1. /\ history \in Seq(Message) /\ history # <<>> /\ Len(history) \in Nat
      /\ DOMAIN history = 1 .. Len(history)
  BY LenProperties DEF TypeOK, Shape
<1>2. 1 \in DOMAIN history /\ Head(history) = history[1]
  BY <1>1, EmptySeq
<1>3. PICK c \in DOMAIN history : \A i \in DOMAIN history : history[i].kind = "context" <=> i = c
  BY DEF OneContext
<1>4. {i \in DOMAIN history : history[i].kind = "context"} = {c}
  BY <1>3
<1>5. {i \in DOMAIN history : history[i].kind = "prompt"} = {1}
  BY <1>1, <1>2 DEF Shape
<1>6. Cardinality({c}) = 1 /\ Cardinality({1}) = 1
  BY FS_Singleton
<1> QED
  BY <1>1, <1>2, <1>4, <1>5, <1>6 DEF OneContext, Shape

-----------------------------------------------------------------------------
(* Every message of the user is answered *)

LEMMA AnsweredIsReplied ==
  UserAnswered <=> \A t \in 1 .. turn :
                     (t \notin raised /\ (t < turn \/ pc \in Returned \cup {"idle"}))
                       => Replied(history, t)
BY DEF UserAnswered, Replied

\* A turn comes to its end by a reply of its own, or it raised.
LEMMA TurnEndsWithReply ==
  ASSUME TypeOK, Shape, TurnStep \/ CartAction \/ UNCHANGED vars, pc' \in Returned \cup {"idle"}
  PROVE  \/ turn \in raised'
         \/ pc \in Returned \cup {"idle"} /\ history' = history
         \/ Len(history') \in DOMAIN history' /\ history'[Len(history')] = Note("reply", turn)
<1>1. history \in Seq(Message) /\ turn \in 0 .. MaxTurns
  BY DEF TypeOK
<1>2. ASSUME NEW h \in Seq(Message), history' = Append(h, Note("reply", turn))
      PROVE  Len(history') \in DOMAIN history' /\ history'[Len(history')] = Note("reply", turn)
  <2> DEFINE m == Note("reply", turn)
  <2>1. m \in Message
    BY <1>1, NoteType DEF Kind
  <2> HIDE DEF m
  <2> QED
    BY <1>2, <2>1, Appended DEF m
<1>3. CASE DispatchTool
  <2>1. PICK outcome \in Outcome : /\ ResultMessage(outcome) \in Message
                                   /\ Continue(Append(history, ResultMessage(outcome)))
    BY <1>3, DispatchToolStep
  <2>2. Append(history, ResultMessage(outcome)) \in Seq(Message)
    BY <1>1, <2>1, Appended
  <2>3. history' = Append(Append(history, ResultMessage(outcome)), Note("reply", turn))
    BY <1>3, <2>1 DEF Continue, DispatchTool, Returned
  <2> QED
    BY <1>2, <2>2, <2>3
<1>4. ASSUME NEW finish, AnswerText(finish)
      PROVE  Len(history') \in DOMAIN history' /\ history'[Len(history')] = Note("reply", turn)
  BY <1>1, <1>2, <1>4 DEF AnswerText
<1>5. CASE RoundTripLimit
  BY <1>1, <1>2, <1>5 DEF RoundTripLimit
<1>6. CASE Raise
  BY <1>6 DEF Raise
<1>7. CASE Respond \/ CartAction \/ UNCHANGED vars
  BY <1>7 DEF Respond, CartAction, vars
<1>8. CASE AnswerImitation
  BY <1>8 DEF AnswerImitation, Asking, Returned
<1>9. ASSUME NEW calls, AnswerCalls(calls)
      PROVE  FALSE
  BY <1>9 DEF AnswerCalls, Returned
<1> QED
  BY <1>3, <1>4, <1>5, <1>6, <1>7, <1>8, <1>9 DEF TurnStep

LEMMA UserAnsweredNext ==
  ASSUME TypeOK, Shape, UserAnswered, [Next]_vars
  PROVE  UserAnswered'
<1> SUFFICES ASSUME NEW t \in 1 .. turn', t \notin raised',
                    t < turn' \/ pc' \in Returned \cup {"idle"}
             PROVE  Replied(history', t)
  BY DEF UserAnswered, Replied
<1>1. CASE BeginTurn
  <2> DEFINE p == Prepared(history)
  <2>1. /\ p \in Seq(Message) /\ Len(p) \in Nat /\ DOMAIN p = 1 .. Len(p)
        /\ turn' = turn + 1 /\ turn \in Nat
        /\ DOMAIN history' = 1 .. Len(p) + 2
        /\ \A i \in 1 .. Len(p) : history'[i] = p[i]
        /\ history'[Len(p) + 1].turn = turn'
        /\ history'[Len(p) + 2].turn = turn'
    BY <1>1, BeginTurnStep, NoteIs DEF TypeOK
  <2>2. pc = "idle" /\ pc' = "asking" /\ raised' = raised
    BY <1>1 DEF BeginTurn
  <2>3. t \in 1 .. turn /\ t # turn'
    BY <2>1, <2>2 DEF Returned
  <2>4. Replied(p, t)
    <3>1. Replied(history, t)
      BY <2>2, <2>3, AnsweredIsReplied
    <3> QED
      BY <3>1, PreparedReplied DEF TypeOK
  <2> HIDE DEF p
  <2>5. PICK i \in DOMAIN p : /\ p[i].kind = "reply" /\ p[i].turn = t
                              /\ \A j \in DOMAIN p : p[j].turn = t => j <= i
    BY <2>4 DEF Replied
  <2>6. ASSUME NEW j \in DOMAIN history', history'[j].turn = t
        PROVE  j <= i
    <3>1. j # Len(p) + 1 /\ j # Len(p) + 2
      BY <2>1, <2>3, <2>6
    <3>2. j \in 1 .. Len(p)
      BY <2>1, <3>1
    <3> QED
      BY <2>1, <2>5, <2>6, <3>2
  <2>7. i \in DOMAIN history' /\ history'[i] = p[i]
    BY <2>1
  <2> QED
    BY <2>5, <2>6, <2>7 DEF Replied
<1>2. CASE TurnStep \/ CartAction \/ UNCHANGED vars
  <2>1. /\ turn' = turn /\ turn \in Nat
        /\ DOMAIN history' = 1 .. Len(history')
        /\ Len(history) \in Nat /\ DOMAIN history = 1 .. Len(history)
        /\ Len(history') \in Nat /\ Len(history') >= Len(history)
        /\ \A i \in 1 .. Len(history) : history'[i] = history[i]
        /\ \A i \in Len(history) + 1 .. Len(history') : history'[i].turn = turn
    BY <1>2, HistoryGrows DEF TypeOK
  <2>2. t \notin raised
    BY <1>2 DEF TurnStep, CartAction, vars, AnswerCalls, DispatchTool, AnswerImitation,
                AnswerText, RoundTripLimit, Raise, Respond
  <2>3. CASE t < turn
    <3>1. Replied(history, t)
      BY <2>1, <2>2, <2>3, AnsweredIsReplied
    <3>2. PICK i \in DOMAIN history : /\ history[i].kind = "reply" /\ history[i].turn = t
                                      /\ \A j \in DOMAIN history : history[j].turn = t => j <= i
      BY <3>1 DEF Replied
    <3>3. ASSUME NEW j \in DOMAIN history', history'[j].turn = t
          PROVE  j <= i
      <4>1. j \notin Len(history) + 1 .. Len(history')
        BY <2>1, <2>3, <3>3
      <4>2. j \in 1 .. Len(history)
        BY <2>1, <4>1
      <4> QED
        BY <2>1, <3>2, <3>3, <4>2
    <3>4. i \in DOMAIN history' /\ history'[i] = history[i]
      BY <2>1
    <3> QED
      BY <3>2, <3>3, <3>4 DEF Replied
  <2>4. CASE t = turn
    <3>1. pc' \in Returned \cup {"idle"} /\ turn \notin raised'
      BY <2>1, <2>4
    <3>2. CASE pc \in Returned \cup {"idle"} /\ history' = history
      BY <2>1, <2>2, <2>4, <3>2, AnsweredIsReplied
    <3>3. CASE Len(history') \in DOMAIN history' /\ history'[Len(history')] = Note("reply", turn)
      <4>1. history'[Len(history')].kind = "reply" /\ history'[Len(history')].turn = turn
        BY <3>3, NoteIs
      <4>2. \A j \in DOMAIN history' : j <= Len(history')
        BY <2>1
      <4> QED
        BY <2>4, <3>3, <4>1, <4>2 DEF Replied
    <3> QED
      BY <1>2, <3>1, <3>2, <3>3, TurnEndsWithReply
  <2> QED
    BY <2>1, <2>3, <2>4
<1> QED
  BY <1>1, <1>2 DEF Next

-----------------------------------------------------------------------------
(* The events of a turn *)

LEMMA ReportedNext ==
  ASSUME TypeOK, Shape, Reported, [Next]_vars
  PROVE  Reported'
<1>1. events \in Seq(Event) /\ Len(events) \in Nat /\ DOMAIN events = 1 .. Len(events)
  BY LenProperties DEF TypeOK, Event
<1>2. CASE BeginTurn
  <2>1. events' = events /\ events_before' = Len(events)
    BY <1>2 DEF BeginTurn
  <2> QED
    BY <1>1, <2>1 DEF Reported
<1>3. CASE DispatchTool
  <2>1. PICK outcome \in Outcome :
          /\ Effect(Head(pending) \in UndoCall, [turn |-> turn, id |-> Len(dispatched) + 1], outcome)
          /\ [turn |-> turn, id |-> Len(dispatched) + 1] \in Event
    BY <1>3, DispatchToolStep
  <2> DEFINE undo == Head(pending) \in UndoCall
             event == [turn |-> turn, id |-> Len(dispatched) + 1]
  <2>2. undo \in BOOLEAN /\ event.turn = turn
    OBVIOUS
  <2> HIDE DEF undo, event
  <2>3. /\ events' \in Seq(Event)
        /\ \A i \in DOMAIN events' :
             \/ events'[i] = event
             \/ \E j \in DOMAIN events : j >= i /\ events'[i] = events[j]
    BY <2>1, <2>2, EffectEvents DEF undo, event
  <2>4. pc # "idle" /\ events_before' = events_before /\ turn' = turn
    BY <1>3 DEF DispatchTool
  <2>5. events_before \in Nat /\ DOMAIN events' \subseteq Nat
    BY <2>3, TurnAssumption, LenProperties DEF TypeOK
  <2>6. ASSUME NEW i \in DOMAIN events', i > events_before
        PROVE  events'[i].turn = turn
    <3>1. CASE events'[i] = event
      BY <2>2, <3>1
    <3>2. ASSUME NEW j \in DOMAIN events, j >= i, events'[i] = events[j]
          PROVE  events'[i].turn = turn
      <4>1. j > events_before
        BY <1>1, <2>5, <2>6, <3>2
      <4> QED
        BY <2>4, <3>2, <4>1 DEF Reported
    <3> QED
      BY <2>3, <3>1, <3>2
  <2> QED
    BY <2>4, <2>6 DEF Reported
<1>4. CASE Raise \/ Respond
  BY <1>4 DEF Raise, Respond, Reported
<1>5. CASE CartAction
  BY <1>5 DEF CartAction, Reported
<1>6. CASE UNCHANGED <<events, turn, events_before>> /\ (pc' # "idle" => pc # "idle")
  BY <1>6 DEF Reported
<1>7. CASE TurnStep /\ ~DispatchTool /\ ~Raise /\ ~Respond
  <2>1. UNCHANGED <<events, turn, events_before>> /\ (pc' # "idle" => pc # "idle")
    BY <1>7 DEF TurnStep, AnswerCalls, AnswerImitation, AnswerText, RoundTripLimit, Asking, locals
  <2> QED
    BY <1>6, <2>1
<1>8. CASE UNCHANGED vars
  BY <1>6, <1>8 DEF vars, locals
<1> QED
  BY <1>2, <1>3, <1>4, <1>5, <1>7, <1>8 DEF Next, TurnStep

LEMMA ReportedAreNewHolds ==
  ASSUME TypeOK, Reported
  PROVE  ReportedAreNew
<1> SUFFICES ASSUME pc \in Returned, NEW i \in DOMAIN new_cart_events
             PROVE  new_cart_events[i].turn = turn
  BY DEF ReportedAreNew
<1> DEFINE n == events_before + 1
<1>1. events \in Seq(Event) /\ Len(events) \in Nat /\ DOMAIN events = 1 .. Len(events)
  BY LenProperties DEF TypeOK, Event
<1>2. n \in Nat /\ n >= 1 /\ n - 1 = events_before
  BY TurnAssumption DEF TypeOK
<1>3. \A j \in n .. Len(events) : events[j] \in Event
  BY <1>1, <1>2, ElementOfSeq
<1> HIDE DEF n
<1>4. new_cart_events = SubSeq(events, n, Len(events))
  BY DEF new_cart_events, n
<1>5. /\ new_cart_events \in Seq(Event)
      /\ Len(new_cart_events) = IF n <= Len(events) THEN Len(events) - n + 1 ELSE 0
      /\ \A j \in 1 .. Len(events) - n + 1 : new_cart_events[j] = events[n + j - 1]
  BY <1>1, <1>2, <1>3, <1>4, SubSeqProperties
<1>6. i \in 1 .. Len(events) - n + 1
  BY <1>1, <1>2, <1>5, LenProperties
<1>7. n + i - 1 \in DOMAIN events /\ n + i - 1 > events_before
  BY <1>1, <1>2, <1>6
<1>8. pc # "idle"
  BY DEF Returned
<1> QED
  BY <1>5, <1>6, <1>7, <1>8 DEF Reported

\* The history holds the result of the change that event e records.
Known(h, e) ==
  \E j \in DOMAIN h : /\ h[j].kind = "result" /\ h[j].outcome = "changed"
                      /\ h[j].turn = e.turn /\ h[j].id = e.id

LEMMA ConversationKnowsCartNext ==
  ASSUME TypeOK, Shape, ConversationKnowsCart, [Next]_vars
  PROVE  ConversationKnowsCart'
<1>1. \A i \in DOMAIN events : events[i].turn # 0 => Known(history, events[i])
  BY DEF ConversationKnowsCart, Known
<1> SUFFICES ASSUME NEW i \in DOMAIN events', events'[i].turn # 0
             PROVE  Known(history', events'[i])
  BY DEF ConversationKnowsCart, Known
<1>2. CASE BeginTurn
  <2> DEFINE p == Prepared(history)
  <2>1. events' = events
    BY <1>2 DEF BeginTurn
  <2>2. PICK j \in DOMAIN history :
          /\ history[j].kind = "result" /\ history[j].outcome = "changed"
          /\ history[j].turn = events[i].turn /\ history[j].id = events[i].id
    BY <1>1, <2>1 DEF Known
  <2>3. PICK k \in DOMAIN p : p[k] = history[j]
    <3>1. history[j].kind \notin SystemKind
      BY <2>2 DEF SystemKind
    <3> QED
      BY <3>1, PreparedKeeps DEF TypeOK
  <2>4. k \in DOMAIN history' /\ history'[k] = p[k]
    <3> HIDE DEF p
    <3>1. /\ Len(p) \in Nat /\ DOMAIN p = 1 .. Len(p)
          /\ DOMAIN history' = 1 .. Len(p) + 2
          /\ \A l \in 1 .. Len(p) : history'[l] = p[l]
      BY <1>2, BeginTurnStep DEF p
    <3> QED
      BY <3>1
  <2> QED
    BY <2>1, <2>2, <2>3, <2>4 DEF Known
<1>3. CASE TurnStep \/ CartAction \/ UNCHANGED vars
  <2>1. /\ DOMAIN history' = 1 .. Len(history')
        /\ Len(history) \in Nat /\ DOMAIN history = 1 .. Len(history)
        /\ Len(history') \in Nat /\ Len(history') >= Len(history)
        /\ \A j \in 1 .. Len(history) : history'[j] = history[j]
    BY <1>3, HistoryGrows
  <2>2. ASSUME NEW e, Known(history, e)
        PROVE  Known(history', e)
    <3>1. \A j \in DOMAIN history : j \in DOMAIN history' /\ history'[j] = history[j]
      BY <2>1
    <3> QED
      BY <2>2, <3>1 DEF Known
  <2>3. CASE events' = events
    BY <1>1, <2>2, <2>3
  <2>4. CASE DispatchTool
    <3>1. PICK outcome \in Outcome :
            /\ Effect(Head(pending) \in UndoCall, [turn |-> turn, id |-> Len(dispatched) + 1], outcome)
            /\ [turn |-> turn, id |-> Len(dispatched) + 1] \in Event
            /\ ResultMessage(outcome) \in Message
            /\ Continue(Append(history, ResultMessage(outcome)))
      BY <2>4, DispatchToolStep
    <3> DEFINE undo == Head(pending) \in UndoCall
               event == [turn |-> turn, id |-> Len(dispatched) + 1]
               r == ResultMessage(outcome)
    <3>2. undo \in BOOLEAN /\ event.turn = turn /\ event.id = Len(dispatched) + 1
      OBVIOUS
    <3>3. /\ r.kind = "result" /\ r.turn = turn /\ r.id = Len(dispatched) + 1 /\ r.outcome = outcome
      BY ResultMessageIs, LenProperties DEF TypeOK
    <3> HIDE DEF undo, event, r
    <3>4. \/ outcome = "changed" /\ events'[i] = event
          \/ \E j \in DOMAIN events : events'[i] = events[j]
      BY <3>1, <3>2, EffectEvents DEF undo, event
    <3>5. CASE outcome = "changed" /\ events'[i] = event
      <4>1. Len(history) + 1 \in DOMAIN history' /\ history'[Len(history) + 1] = r
        <5> DEFINE h == Append(history, r)
        <5>1. /\ h \in Seq(Message) /\ DOMAIN h = 1 .. Len(history) + 1
              /\ Len(h) = Len(history) + 1 /\ h[Len(history) + 1] = r
          BY <3>1, Appended DEF TypeOK, r
        <5>2. Note("reply", turn) \in Message
          BY NoteType DEF Kind, TypeOK
        <5> HIDE DEF h
        <5>3. history' = h \/ history' = Append(h, Note("reply", turn))
          BY <2>4, <3>1 DEF Continue, DispatchTool, h, r
        <5>4. CASE history' = h
          BY <2>1, <5>1, <5>4
        <5>5. CASE history' = Append(h, Note("reply", turn))
          <6>1. /\ DOMAIN history' = 1 .. Len(h) + 1
                /\ \A j \in 1 .. Len(h) : history'[j] = h[j]
            BY <5>1, <5>2, <5>5, Appended
          <6> QED
            BY <2>1, <5>1, <6>1
        <5> QED
          BY <5>3, <5>4, <5>5
      <4> QED
        BY <3>2, <3>3, <3>5, <4>1 DEF Known
    <3>6. CASE \E j \in DOMAIN events : events'[i] = events[j]
      BY <1>1, <2>2, <3>6
    <3> QED
      BY <3>4, <3>5, <3>6
  <2>5. CASE CartAction
    <3>1. PICK undo \in BOOLEAN, outcome \in Outcome :
            Effect(undo, [turn |-> 0, id |-> 0], outcome)
      BY <2>5 DEF CartAction
    <3> DEFINE event == [turn |-> 0, id |-> 0]
    <3>2. event \in Event /\ event.turn = 0
      BY TurnAssumption DEF Event
    <3> HIDE DEF event
    <3>3. events'[i] = event \/ \E j \in DOMAIN events : events'[i] = events[j]
      BY <3>1, <3>2, EffectEvents DEF event
    <3> QED
      BY <1>1, <2>2, <3>2, <3>3
  <2>6. CASE ~DispatchTool /\ ~CartAction
    BY <1>3, <2>3, <2>6 DEF TurnStep, vars, AnswerCalls, AnswerImitation, AnswerText,
                            RoundTripLimit, Raise, Respond
  <2> QED
    BY <2>4, <2>5, <2>6
<1> QED
  BY <1>2, <1>3 DEF Next

-----------------------------------------------------------------------------
(* Calls and their results *)

\* g is h with messages appended.
Extends(g, h) ==
  /\ g \in Seq(Message) /\ h \in Seq(Message)
  /\ Len(g) \in Nat /\ DOMAIN g = 1 .. Len(g)
  /\ Len(h) \in Nat /\ DOMAIN h = 1 .. Len(h)
  /\ Len(h) <= Len(g)
  /\ \A i \in 1 .. Len(h) : g[i] = h[i]

LEMMA AppendExtends ==
  ASSUME NEW h \in Seq(Message), NEW m \in Message
  PROVE  Extends(Append(h, m), h) /\ Len(Append(h, m)) = Len(h) + 1
<1> DEFINE g == Append(h, m)
<1>1. /\ g \in Seq(Message) /\ Len(g) = Len(h) + 1 /\ DOMAIN g = 1 .. Len(h) + 1
      /\ Len(h) \in Nat /\ DOMAIN h = 1 .. Len(h)
      /\ \A i \in 1 .. Len(h) : g[i] = h[i]
  BY Appended
<1> HIDE DEF g
<1> QED
  BY <1>1 DEF Extends, g

LEMMA CallsAreSeq ==
  ASSUME NEW h \in Seq(Message), NEW i \in DOMAIN h
  PROVE  /\ h[i] \in Message /\ h[i].calls \in Seq(Call) /\ h[i].id \in Nat
         /\ Len(h[i].calls) \in Nat /\ DOMAIN h[i].calls = 1 .. Len(h[i].calls)
<1>1. h[i] \in Message
  BY ElementOfSeq, LenProperties
<1>2. h[i].calls \in Seq(Call) /\ h[i].id \in Nat
  BY <1>1 DEF Message
<1> QED
  BY <1>1, <1>2, LenProperties

LEMMA AnswersExtends ==
  ASSUME NEW h, NEW g, Extends(g, h), NEW i \in DOMAIN h, NEW k \in Nat, Answers(h, i, k)
  PROVE  Answers(g, i, k)
<1>1. i + k \in DOMAIN h /\ i + k \in DOMAIN g
  BY DEF Extends, Answers
<1>2. g[i] = h[i] /\ g[i + k] = h[i + k]
  BY <1>1 DEF Extends
<1> QED
  BY <1>1, <1>2 DEF Answers

LEMMA ResultsPlacedExtends ==
  ASSUME NEW h, NEW g, Extends(g, h), ResultsPlaced(h),
         \A j \in Len(h) + 1 .. Len(g) : g[j].kind # "result"
  PROVE  ResultsPlaced(g)
<1> SUFFICES ASSUME NEW j \in DOMAIN g, g[j].kind = "result"
             PROVE  \E i \in 1 .. j - 1 : /\ IsCalls(g[i])
                                          /\ j - i \in DOMAIN g[i].calls
                                          /\ \A k \in 1 .. j - i : Answers(g, i, k)
  BY DEF ResultsPlaced
<1>1. j \in DOMAIN h /\ g[j] = h[j] /\ j \in Nat /\ j <= Len(h)
  BY DEF Extends
<1>2. PICK i \in 1 .. j - 1 : /\ IsCalls(h[i])
                              /\ j - i \in DOMAIN h[i].calls
                              /\ \A k \in 1 .. j - i : Answers(h, i, k)
  BY <1>1 DEF ResultsPlaced
<1>3. i \in DOMAIN h /\ g[i] = h[i]
  BY <1>1 DEF Extends
<1>4. \A k \in 1 .. j - i : Answers(g, i, k)
  BY <1>2, <1>3, AnswersExtends
<1> QED
  BY <1>2, <1>3, <1>4

\* What is appended are no calls, but perhaps those at place o.
LEMMA CallsAnsweredExtends ==
  ASSUME NEW h, NEW g, Extends(g, h), NEW R, NEW o, CallsAnswered(h, R, 0) \/ CallsAnswered(h, R, o),
         \A i \in Len(h) + 1 .. Len(g) : IsCalls(g[i]) => i = o
  PROVE  CallsAnswered(g, R, o)
<1> SUFFICES ASSUME NEW i \in DOMAIN g \ {o}, IsCalls(g[i]), g[i].turn \notin R,
                    NEW k \in DOMAIN g[i].calls
             PROVE  Answers(g, i, k)
  BY DEF CallsAnswered
<1>1. i \in DOMAIN h /\ g[i] = h[i] /\ i # 0
  BY DEF Extends
<1>2. k \in Nat
  BY <1>1, CallsAreSeq DEF Extends
<1>3. Answers(h, i, k)
  BY <1>1 DEF CallsAnswered
<1> QED
  BY <1>1, <1>2, <1>3, AnswersExtends

LEMMA ProtocolDispatchTool ==
  ASSUME TypeOK, Shape, Protocol, DispatchTool
  PROVE  Protocol'
<1>1. PICK outcome \in Outcome \ {"none"} :
        /\ ResultMessage(outcome) \in Message
        /\ dispatched' = Append(dispatched, [call |-> Head(pending), outcome |-> outcome])
        /\ [call |-> Head(pending), outcome |-> outcome] \in [call : Call, outcome : Outcome \ {"none"}]
        /\ Continue(Append(history, ResultMessage(outcome)))
  BY DispatchToolStep
<1> DEFINE r == ResultMessage(outcome)
           g == Append(history, r)
           L == Len(history)
<1>2. /\ history \in Seq(Message) /\ turn \in 0 .. MaxTurns
      /\ L \in Nat /\ DOMAIN history = 1 .. L /\ Len(dispatched) \in Nat
      /\ pc = "dispatching" /\ pending \in Seq(Call) /\ pending # <<>>
      /\ pending' = Tail(pending) /\ turn' = turn /\ raised' = raised
  BY LenProperties DEF TypeOK, DispatchTool
<1>3. r.kind = "result" /\ r.turn = turn /\ r.id = Len(dispatched) + 1
  BY <1>2, ResultMessageIs
<1>4. /\ g \in Seq(Message) /\ Len(g) = L + 1 /\ DOMAIN g = 1 .. L + 1
      /\ \A i \in 1 .. L : g[i] = history[i]
      /\ g[L + 1] = r
      /\ Extends(g, history)
  BY <1>1, <1>2, Appended, AppendExtends
<1>5. Len(dispatched') = Len(dispatched) + 1
  <2> DEFINE D == [call : Call, outcome : Outcome \ {"none"}]
  <2>1. dispatched \in Seq(D)
    BY DEF TypeOK
  <2> HIDE DEF D
  <2> QED
    BY <1>1, <2>1, AppendProperties DEF D
<1>6. /\ Len(pending') = Len(pending) - 1 /\ Len(pending) \in Nat /\ Len(pending) >= 1
      /\ pending' \in Seq(Call)
  BY <1>2, HeadTailProperties, EmptySeq, LenProperties
<1>7. PICK c \in DOMAIN history : OpenMessage(c)
  BY <1>2 DEF Protocol
<1> HIDE DEF r, g, L
<1> DEFINE d == L - c
<1>8. /\ IsCalls(history[c]) /\ history[c].turn = turn
      /\ Len(history[c].calls) = Len(pending) + d
      /\ \A k \in 1 .. d : Answers(history, c, k)
      /\ history[c].id + d = Len(dispatched) + 1
      /\ CallsAnswered(history, raised, c)
      /\ d \in Nat /\ c \in Nat /\ c >= 1
  BY <1>2, <1>7 DEF OpenMessage, L
<1>9. /\ history[c].id \in Nat /\ DOMAIN history[c].calls = 1 .. Len(pending) + d
  BY <1>2, <1>8, CallsAreSeq
<1>10. c \in DOMAIN g /\ g[c] = history[c] /\ c + (d + 1) = L + 1
  BY <1>2, <1>4, <1>8
<1>11. \A k \in 1 .. d + 1 : Answers(g, c, k)
  <2> SUFFICES ASSUME NEW k \in 1 .. d + 1
               PROVE  Answers(g, c, k)
    OBVIOUS
  <2>1. CASE k \in 1 .. d
    BY <1>4, <1>8, <2>1, AnswersExtends
  <2>2. CASE k = d + 1
    <3>1. c + k = L + 1 /\ c + k \in DOMAIN g
      BY <1>2, <1>4, <1>10, <2>2
    <3>2. g[c + k] = r
      BY <1>4, <3>1
    <3>3. r.id = history[c].id + k - 1
      BY <1>3, <1>8, <1>9, <2>2
    <3> QED
      BY <1>3, <1>8, <1>10, <3>1, <3>2, <3>3 DEF Answers
  <2> QED
    BY <1>8, <2>1, <2>2
<1>12. ResultsPlaced(g)
  <2> SUFFICES ASSUME NEW j \in DOMAIN g, g[j].kind = "result"
               PROVE  \E i \in 1 .. j - 1 : /\ IsCalls(g[i])
                                            /\ j - i \in DOMAIN g[i].calls
                                            /\ \A k \in 1 .. j - i : Answers(g, i, k)
    BY DEF ResultsPlaced
  <2>1. CASE j = L + 1
    <3>1. j - c = d + 1 /\ c \in 1 .. j - 1
      BY <1>2, <1>8, <1>10, <2>1
    <3>2. j - c \in DOMAIN g[c].calls
      BY <1>6, <1>8, <1>9, <1>10, <3>1
    <3> QED
      BY <1>8, <1>10, <1>11, <3>1, <3>2
  <2>2. CASE j # L + 1
    <3>1. j \in DOMAIN history /\ g[j] = history[j] /\ j \in Nat /\ j <= L
      BY <1>2, <1>4, <2>2
    <3>2. PICK i \in 1 .. j - 1 : /\ IsCalls(history[i])
                                  /\ j - i \in DOMAIN history[i].calls
                                  /\ \A k \in 1 .. j - i : Answers(history, i, k)
      BY <3>1 DEF Protocol, ResultsPlaced
    <3>3. i \in DOMAIN history /\ g[i] = history[i]
      BY <1>2, <1>4, <3>1
    <3>4. \A k \in 1 .. j - i : Answers(g, i, k)
      BY <1>4, <3>2, <3>3, AnswersExtends
    <3> QED
      BY <3>2, <3>3, <3>4
  <2> QED
    BY <2>1, <2>2
<1>13. CallsAnswered(g, raised, c)
  <2>1. \A i \in Len(history) + 1 .. Len(g) : ~IsCalls(g[i])
    BY <1>2, <1>3, <1>4 DEF IsCalls, L
  <2> QED
    BY <1>4, <1>8, <2>1, CallsAnsweredExtends
<1>14. CASE pending' # <<>>
  <2>1. history' = g /\ pc' = "dispatching"
    BY <1>1, <1>2, <1>14 DEF Continue, g, r
  <2>2. Len(history') - c = d + 1
    BY <1>2, <1>4, <1>10, <2>1
  <2>3. /\ IsCalls(history'[c]) /\ history'[c].turn = turn'
        /\ Len(history'[c].calls) = Len(pending') + (Len(history') - c)
        /\ history'[c].id + (Len(history') - c) = Len(dispatched') + 1
    <3> HIDE DEF d
    <3>1. history'[c] = history[c]
      BY <1>10, <2>1
    <3>2. Len(history[c].calls) = Len(pending') + (d + 1)
      BY <1>6, <1>8
    <3>3. history[c].id + (d + 1) = Len(dispatched') + 1
      BY <1>2, <1>5, <1>8, <1>9
    <3> QED
      BY <1>2, <1>8, <2>2, <3>1, <3>2, <3>3
  <2>4. /\ \A k \in 1 .. Len(history') - c : Answers(history', c, k)
        /\ CallsAnswered(history', raised', c)
    BY <1>2, <1>11, <1>13, <2>1, <2>2
  <2>5. OpenMessage(c)'
    BY <2>3, <2>4 DEF OpenMessage
  <2> QED
    BY <1>10, <1>12, <2>1, <2>5 DEF Protocol
<1>15. CASE pending' = <<>>
  <2>1. Len(pending) = 1
    BY <1>6, <1>15
  <2>2. CallsAnswered(g, raised, 0)
    <3> SUFFICES ASSUME NEW i \in DOMAIN g, IsCalls(g[i]), g[i].turn \notin raised,
                        NEW k \in DOMAIN g[i].calls
                 PROVE  Answers(g, i, k)
      BY DEF CallsAnswered
    <3>1. CASE i = c
      <4>1. k \in 1 .. d + 1
        BY <1>8, <1>9, <1>10, <2>1, <3>1
      <4> QED
        BY <1>11, <3>1, <4>1
    <3>2. CASE i # c
      BY <1>13, <3>2 DEF CallsAnswered
    <3> QED
      BY <3>1, <3>2
  <2>3. CASE history' = g /\ pc' = "asking"
    BY <1>2, <1>12, <2>2, <2>3 DEF Protocol
  <2>4. CASE history' = Append(g, Note("reply", turn)) /\ pc' = "stuck"
    <3>1. Note("reply", turn) \in Message /\ Note("reply", turn).kind = "reply"
      BY <1>2, NoteType, NoteIs DEF Kind
    <3>2. Extends(history', g) /\ Len(history') = Len(g) + 1
      BY <1>4, <2>4, <3>1, AppendExtends
    <3>3. \A i \in Len(g) + 1 .. Len(history') : history'[i] = Note("reply", turn)
      <4>1. history'[Len(g) + 1] = Note("reply", turn)
        BY <1>4, <2>4, <3>1, Appended
      <4> QED
        BY <1>2, <1>4, <3>2, <4>1
    <3>4. ResultsPlaced(history')
      BY <1>12, <3>1, <3>2, <3>3, ResultsPlacedExtends
    <3>5. CallsAnswered(history', raised, 0)
      BY <2>2, <3>1, <3>2, <3>3, CallsAnsweredExtends DEF IsCalls
    <3> QED
      BY <1>2, <2>4, <3>4, <3>5 DEF Protocol
  <2> QED
    BY <1>1, <1>15, <2>3, <2>4 DEF Continue, g, r
<1> QED
  BY <1>14, <1>15

LEMMA ProtocolNext ==
  ASSUME TypeOK, Shape, Protocol, [Next]_vars
  PROVE  Protocol'
<1>1. /\ history \in Seq(Message) /\ turn \in 0 .. MaxTurns
      /\ Len(history) \in Nat /\ DOMAIN history = 1 .. Len(history) /\ Len(dispatched) \in Nat
  BY LenProperties DEF TypeOK
<1>2. CASE BeginTurn
  <2> DEFINE p == Prepared(history)
  <2>1. /\ p \in Seq(Message) /\ Len(p) \in Nat /\ DOMAIN p = 1 .. Len(p)
        /\ history' \in Seq(Message) /\ DOMAIN history' = 1 .. Len(p) + 2
        /\ Len(history') = Len(p) + 2
        /\ \A i \in 1 .. Len(p) : history'[i] = p[i]
        /\ history'[Len(p) + 1].kind = "context"
        /\ history'[Len(p) + 2].kind = "user"
    BY <1>2, BeginTurnStep, NoteIs
  <2>2. pc = "idle" /\ pc' = "asking" /\ raised' = raised
    BY <1>2 DEF BeginTurn
  <2>3. ResultsPlaced(p) /\ CallsAnswered(p, raised, 0)
    BY <1>1, <2>2, PreparedProtocol DEF Protocol
  <2> HIDE DEF p
  <2>4. Extends(history', p)
    BY <2>1 DEF Extends
  <2>5. \A i \in Len(p) + 1 .. Len(history') : history'[i].kind \in {"context", "user"}
    <3>1. \A i \in Len(p) + 1 .. Len(history') : i = Len(p) + 1 \/ i = Len(p) + 2
      BY <2>1
    <3> QED
      BY <2>1, <3>1
  <2>6. ResultsPlaced(history')
    BY <2>3, <2>4, <2>5, ResultsPlacedExtends
  <2>7. CallsAnswered(history', raised, 0)
    BY <2>3, <2>4, <2>5, CallsAnsweredExtends DEF IsCalls
  <2> QED
    BY <2>2, <2>6, <2>7 DEF Protocol
<1>3. ASSUME NEW calls \in UNION {[1 .. n -> Call] : n \in 1 .. MaxCalls}, AnswerCalls(calls)
      PROVE  Protocol'
  <2> DEFINE m == CallsMessage(calls)
  <2> PICK c \in Nat : c = Len(history) + 1
    BY <1>1
  <2>1. calls \in Seq(Call)
    BY <1>3, SeqDef
  <2>2. /\ m \in Message /\ IsCalls(m) /\ m.turn = turn /\ m.calls = calls
        /\ m.id = Len(dispatched) + 1
    BY <1>1, <2>1, CallsMessageIs
  <2>3. /\ history' = Append(history, m) /\ pending' = calls /\ pc = "asking" /\ pc' = "dispatching"
        /\ UNCHANGED <<turn, dispatched, raised>>
    BY <1>3 DEF AnswerCalls, Asking
  <2> HIDE DEF m
  <2>4. /\ Extends(history', history) /\ Len(history') = c /\ DOMAIN history' = 1 .. c
        /\ history'[c] = m
    BY <1>1, <2>2, <2>3, AppendExtends, Appended
  <2>5. \A i \in Len(history) + 1 .. Len(history') : i = c
    BY <1>1, <2>4
  <2>6. ResultsPlaced(history')
    BY <2>2, <2>4, <2>5, ResultsPlacedExtends DEF Protocol, IsCalls
  <2>7. CallsAnswered(history', raised, c)
    BY <2>3, <2>4, <2>5, CallsAnsweredExtends DEF Protocol
  <2>8. OpenMessage(c)'
    <3>1. Len(history') - c = 0 /\ Len(calls) \in Nat
      BY <1>1, <2>1, <2>4, LenProperties
    <3>2. /\ IsCalls(history'[c]) /\ history'[c].turn = turn'
          /\ Len(history'[c].calls) = Len(pending') + (Len(history') - c)
          /\ history'[c].id + (Len(history') - c) = Len(dispatched') + 1
      BY <1>1, <2>2, <2>3, <2>4, <3>1
    <3>3. \A k \in 1 .. Len(history') - c : Answers(history', c, k)
      BY <3>1
    <3> QED
      BY <2>3, <2>7, <3>2, <3>3 DEF OpenMessage
  <2>9. c \in DOMAIN history'
    BY <1>1, <2>4
  <2> QED
    BY <2>3, <2>6, <2>8, <2>9 DEF Protocol
<1>4. CASE DispatchTool
  BY <1>4, ProtocolDispatchTool
<1>5. ASSUME NEW k \in {"reply", "hint"}, history' = Append(history, Note(k, turn)),
             pc # "dispatching", pc' # "dispatching", raised' = raised
      PROVE  Protocol'
  <2> DEFINE m == Note(k, turn)
  <2>1. m \in Message /\ m.kind = k
    BY <1>1, NoteType, NoteIs DEF Kind, SystemKind
  <2> HIDE DEF m
  <2>2. /\ Extends(history', history) /\ Len(history') = Len(history) + 1
        /\ history'[Len(history) + 1] = m
    BY <1>1, <1>5, <2>1, AppendExtends, Appended DEF m
  <2>3. \A i \in Len(history) + 1 .. Len(history') : i = Len(history) + 1
    BY <1>1, <2>2
  <2>4. ResultsPlaced(history')
    BY <2>1, <2>2, <2>3, ResultsPlacedExtends DEF Protocol
  <2>5. CallsAnswered(history', raised, 0)
    <3>1. CallsAnswered(history, raised, 0)
      BY <1>5 DEF Protocol
    <3>2. \A i \in Len(history) + 1 .. Len(history') : ~IsCalls(history'[i])
      BY <2>1, <2>2, <2>3 DEF IsCalls
    <3> QED
      BY <2>2, <3>1, <3>2, CallsAnsweredExtends
  <2> QED
    BY <1>5, <2>4, <2>5 DEF Protocol
<1>6. CASE AnswerImitation
  BY <1>5, <1>6 DEF AnswerImitation, Asking
<1>7. ASSUME NEW finish, AnswerText(finish)
      PROVE  Protocol'
  BY <1>5, <1>7 DEF AnswerText, Asking
<1>8. CASE RoundTripLimit
  BY <1>5, <1>8 DEF RoundTripLimit
<1>9. CASE Raise
  <2>1. history' = history /\ pc' = "idle" /\ raised' = raised \cup {turn}
    BY <1>9 DEF Raise
  <2>2. CASE pc = "dispatching"
    <3>1. PICK c \in DOMAIN history : OpenMessage(c)
      BY <2>2 DEF Protocol
    <3>2. CallsAnswered(history, raised', 0)
      BY <2>1, <3>1 DEF OpenMessage, CallsAnswered
    <3> QED
      BY <2>1, <3>2 DEF Protocol
  <2>3. CASE pc # "dispatching"
    <3>1. CallsAnswered(history, raised', 0)
      BY <2>1, <2>3 DEF Protocol, CallsAnswered
    <3> QED
      BY <2>1, <3>1 DEF Protocol
  <2> QED
    BY <2>2, <2>3
<1>10. CASE Respond
  <2>1. history' = history /\ raised' = raised /\ pc # "dispatching" /\ pc' = "idle"
    BY <1>10 DEF Respond, Returned
  <2> QED
    BY <2>1 DEF Protocol
<1>11. CASE CartAction \/ UNCHANGED vars
  <2>1. UNCHANGED <<history, turn, pc, pending, dispatched, raised>>
    BY <1>11 DEF CartAction, vars, locals
  <2> QED
    BY <2>1 DEF Protocol, OpenMessage
<1> QED
  BY <1>2, <1>3, <1>4, <1>6, <1>7, <1>8, <1>9, <1>10, <1>11 DEF Next, TurnStep

LEMMA ProtocolKeptHolds ==
  ASSUME TypeOK, Protocol
  PROVE  ProtocolKept
<1> SUFFICES ASSUME pc = "asking"
             PROVE  ProtocolKept
  BY DEF ProtocolKept
<1>1. Len(history) \in Nat /\ DOMAIN history = 1 .. Len(history) /\ history \in Seq(Message)
  BY LenProperties DEF TypeOK
<1>2. \A i, k : Answers(history, i, k) =>
        /\ i + k <= Len(history)
        /\ history[i + k].kind = "result"
        /\ history[i + k].turn = history[i].turn
        /\ history[i + k].id = history[i].id + k - 1
  BY <1>1 DEF Answers
<1>3. ASSUME NEW i \in DOMAIN history, IsCalls(history[i]), history[i].turn \notin raised,
             NEW k \in DOMAIN history[i].calls
      PROVE  Answers(history, i, k)
  <2>1. i # 0
    BY <1>1
  <2> QED
    BY <1>3, <2>1 DEF Protocol, CallsAnswered
<1>4. ASSUME NEW j \in DOMAIN history, history[j].kind = "result"
      PROVE  \E i \in 1 .. j - 1 : /\ IsCalls(history[i])
                                   /\ j - i \in DOMAIN history[i].calls
                                   /\ Answers(history, i, j - i)
  <2>1. PICK i \in 1 .. j - 1 : /\ IsCalls(history[i])
                                /\ j - i \in DOMAIN history[i].calls
                                /\ \A k \in 1 .. j - i : Answers(history, i, k)
    BY <1>4 DEF Protocol, ResultsPlaced
  <2>2. j - i \in 1 .. j - i
    BY <1>1
  <2> QED
    BY <2>1, <2>2
<1> QED
  BY <1>2, <1>3, <1>4 DEF ProtocolKept

-----------------------------------------------------------------------------
(* What the messages of a turn record *)

Dispatched == [call : Call, outcome : Outcome \ {"none"}]

LEMMA MadeIs ==
  ASSUME NEW disp \in Seq(Dispatched), NEW rest \in Seq(Call), NEW made, made = MadeOf(disp, rest)
  PROVE  /\ made \in Seq(Call) /\ Len(made) = Len(disp) + Len(rest)
         /\ DOMAIN made = 1 .. Len(disp) + Len(rest)
         /\ Len(disp) \in Nat /\ Len(rest) \in Nat
         /\ \A n \in 1 .. Len(disp) : made[n] = disp[n].call
         /\ \A n \in 1 .. Len(rest) : made[Len(disp) + n] = rest[n]
<1> DEFINE D == Len(disp)
           P == Len(rest)
           call(n) == IF n <= D THEN disp[n].call ELSE rest[n - D]
<1>1. /\ D \in Nat /\ P \in Nat
      /\ \A n \in 1 .. D : disp[n] \in Dispatched
      /\ \A n \in 1 .. P : rest[n] \in Call
  BY LenProperties, ElementOfSeq DEF Dispatched
<1>2. \A n \in 1 .. D : disp[n].call \in Call
  BY <1>1 DEF Dispatched
<1>3. made = [n \in 1 .. D + P |-> call(n)]
  BY DEF MadeOf
<1> HIDE DEF D, P
<1>4. \A n \in 1 .. D + P : call(n) \in Call
  BY <1>1, <1>2
<1>5. D + P \in Nat
  BY <1>1
<1>6. made \in Seq(Call) /\ Len(made) = D + P /\ DOMAIN made = 1 .. D + P
  <2> HIDE DEF call
  <2>1. made \in [1 .. D + P -> Call]
    BY <1>3, <1>4
  <2> QED
    BY <1>5, <2>1, SeqDef, LenProperties
<1>7. \A n \in 1 .. D : made[n] = disp[n].call
  BY <1>1, <1>3
<1>8. \A n \in 1 .. P : made[D + n] = rest[n]
  <2> SUFFICES ASSUME NEW x \in 1 .. P
               PROVE  made[D + x] = rest[x]
    OBVIOUS
  <2>1. PICK y \in Nat : y = D + x
    BY <1>1
  <2>2. y \in 1 .. D + P /\ ~(y <= D) /\ y - D = x
    BY <1>1, <2>1
  <2>3. made[y] = call(y)
    BY <1>3, <2>2
  <2> QED
    BY <2>1, <2>2, <2>3
<1> QED
  BY <1>1, <1>6, <1>7, <1>8 DEF D, P

LEMMA RecordAppend ==
  ASSUME NEW h \in Seq(Message), NEW u \in DOMAIN h, NEW m \in Message, NEW t,
         NEW made \in Seq(Call), NEW made2 \in Seq(Call), NEW disp,
         OnRecord(h, u, t, made, disp),
         \E count \in [0 .. Len(h) - u -> Nat] : Counts(h, u, count, made),
         m.kind # "user", m.turn = t,
         ~IsCalls(m) => m.calls = <<>>,
         Len(made2) = Len(made) + Len(m.calls),
         \A i \in 1 .. Len(made) : made2[i] = made[i],
         IsCalls(m) => /\ m.id = Len(made) + 1
                       /\ \A k \in DOMAIN m.calls : made2[Len(made) + k] = m.calls[k],
         m.kind = "result" => m.id \in DOMAIN disp /\ m.outcome = disp[m.id].outcome
  PROVE  /\ u \in DOMAIN Append(h, m)
         /\ OnRecord(Append(h, m), u, t, made2, disp)
         /\ \E count \in [0 .. Len(Append(h, m)) - u -> Nat] : Counts(Append(h, m), u, count, made2)
<1> DEFINE g == Append(h, m)
           L == Len(h)
           M == Len(made)
           C == Len(m.calls)
<1>1. /\ g \in Seq(Message) /\ L \in Nat /\ DOMAIN h = 1 .. L
      /\ Len(g) = L + 1 /\ DOMAIN g = 1 .. L + 1
      /\ \A i \in 1 .. L : g[i] = h[i]
      /\ g[L + 1] = m
  BY Appended
<1>2. /\ M \in Nat /\ DOMAIN made = 1 .. M /\ C \in Nat /\ DOMAIN m.calls = 1 .. C
      /\ DOMAIN made2 = 1 .. M + C
  <2>1. m.calls \in Seq(Call)
    BY DEF Message
  <2> QED
    BY <2>1, LenProperties
<1> HIDE DEF g, L, M, C
<1>3. u \in 1 .. L /\ u \in DOMAIN g /\ g[u] = h[u]
  BY <1>1
<1>4. ASSUME NEW i \in u + 1 .. Len(g)
      PROVE  /\ g[i].kind # "user"
             /\ g[i].turn = t
             /\ ~IsCalls(g[i]) => g[i].calls = <<>>
             /\ IsCalls(g[i]) =>
                  \A k \in DOMAIN g[i].calls :
                    /\ g[i].id + k - 1 \in DOMAIN made2
                    /\ made2[g[i].id + k - 1] = g[i].calls[k]
             /\ g[i].kind = "result" =>
                  /\ g[i].id \in DOMAIN disp
                  /\ g[i].outcome = disp[g[i].id].outcome
  <2>1. CASE i = L + 1
    <3>1. g[i] = m
      BY <1>1, <2>1
    <3>2. ASSUME IsCalls(m), NEW k \in DOMAIN m.calls
          PROVE  m.id + k - 1 \in DOMAIN made2 /\ made2[m.id + k - 1] = m.calls[k]
      <4>1. m.id + k - 1 = M + k
        BY <1>2, <3>2 DEF M
      <4>2. M + k \in DOMAIN made2
        BY <1>2
      <4> QED
        BY <3>2, <4>1, <4>2 DEF M
    <3> QED
      BY <3>1, <3>2
  <2>2. CASE i # L + 1
    <3>1. i \in u + 1 .. L /\ i \in 1 .. L
      BY <1>1, <1>3, <2>2
    <3>2. g[i] = h[i]
      BY <1>1, <3>1
    <3>3. /\ h[i].kind # "user"
          /\ h[i].turn = t
          /\ ~IsCalls(h[i]) => h[i].calls = <<>>
          /\ IsCalls(h[i]) =>
               \A k \in DOMAIN h[i].calls :
                 /\ h[i].id + k - 1 \in DOMAIN made
                 /\ made[h[i].id + k - 1] = h[i].calls[k]
          /\ h[i].kind = "result" =>
               /\ h[i].id \in DOMAIN disp
               /\ h[i].outcome = disp[h[i].id].outcome
      BY <3>1 DEF OnRecord, L
    <3>4. \A n \in DOMAIN made : n \in DOMAIN made2 /\ made2[n] = made[n]
      BY <1>2 DEF M
    <3> QED
      BY <3>2, <3>3, <3>4
  <2> QED
    BY <2>1, <2>2
<1>5. OnRecord(g, u, t, made2, disp)
  BY <1>3, <1>4 DEF OnRecord
<1>6. PICK count \in [0 .. L - u -> Nat] : Counts(h, u, count, made)
  BY DEF L
<1> DEFINE n == L - u
           count2 == [i \in 0 .. n + 1 |-> IF i <= n THEN count[i] ELSE M + C]
<1>7. n \in Nat /\ Len(g) - u = n + 1
  BY <1>1, <1>3
<1>8. count2 \in [0 .. Len(g) - u -> Nat]
  <2>1. \A i \in 0 .. n + 1 : (IF i <= n THEN count[i] ELSE M + C) \in Nat
    BY <1>2, <1>7
  <2> QED
    BY <1>7, <2>1
<1>9. /\ \A i \in 0 .. n : count2[i] = count[i]
      /\ count2[n + 1] = M + C
  BY <1>7
<1> HIDE DEF count2
<1>10. count2[0] = 0 /\ count2[Len(g) - u] = Len(made2)
  <2>1. count[0] = 0
    BY <1>6 DEF Counts
  <2> QED
    BY <1>7, <1>9, <2>1 DEF M, C
<1>11. ASSUME NEW i \in 1 .. Len(g) - u
       PROVE  /\ count2[i] = count2[i - 1] + Len(g[u + i].calls)
              /\ IsCalls(g[u + i]) => g[u + i].id = count2[i - 1] + 1
  <2>1. CASE i = n + 1
    <3>1. u + i = L + 1 /\ i - 1 = n
      <4> HIDE DEF n
      <4>1. u \in Int /\ L \in Int /\ n \in Int /\ n = L - u
        BY <1>1, <1>3, <1>7 DEF n
      <4>2. u + (n + 1) = L + 1 /\ n + 1 - 1 = n
        BY <4>1
      <4> QED
        BY <2>1, <4>1, <4>2
    <3>2. g[u + i] = m /\ count2[i - 1] = M
      BY <1>1, <1>6, <1>7, <1>9, <3>1 DEF Counts, L, M
    <3> QED
      BY <1>9, <2>1, <3>2 DEF M, C
  <2>2. CASE i # n + 1
    <3>1. i \in 1 .. n /\ i \in 0 .. n /\ i - 1 \in 0 .. n /\ u + i \in 1 .. L
      BY <1>1, <1>3, <1>7, <2>2
    <3>2. g[u + i] = h[u + i] /\ count2[i] = count[i] /\ count2[i - 1] = count[i - 1]
      BY <1>1, <1>9, <3>1
    <3>3. /\ count[i] = count[i - 1] + Len(h[u + i].calls)
          /\ IsCalls(h[u + i]) => h[u + i].id = count[i - 1] + 1
      BY <1>6, <3>1 DEF Counts, L
    <3> QED
      BY <3>2, <3>3
  <2> QED
    BY <2>1, <2>2
<1>12. Counts(g, u, count2, made2)
  BY <1>10, <1>11 DEF Counts
<1> QED
  BY <1>3, <1>5, <1>8, <1>12 DEF g

LEMMA CoveredAppend ==
  ASSUME NEW h \in Seq(Message), NEW m \in Message, NEW u \in DOMAIN h, NEW disp, Covered(h, u, disp)
  PROVE  Covered(Append(h, m), u, disp)
<1> DEFINE g == Append(h, m)
<1>1. /\ Len(h) \in Nat /\ DOMAIN h = 1 .. Len(h) /\ Len(g) = Len(h) + 1
      /\ \A i \in 1 .. Len(h) : g[i] = h[i]
  BY Appended
<1> HIDE DEF g
<1> SUFFICES ASSUME NEW d \in DOMAIN disp
             PROVE  \E i \in u + 1 .. Len(g) : g[i].kind = "result" /\ g[i].id = d
  BY DEF Covered, g
<1>2. PICK i \in u + 1 .. Len(h) : h[i].kind = "result" /\ h[i].id = d
  BY DEF Covered
<1>3. i \in u + 1 .. Len(g) /\ i \in 1 .. Len(h)
  BY <1>1
<1> QED
  BY <1>1, <1>2, <1>3

\* A message without calls and without a result changes nothing.
LEMMA RecordQuiet ==
  ASSUME NEW h \in Seq(Message), NEW u \in DOMAIN h, NEW m \in Message, NEW t,
         NEW made \in Seq(Call), NEW disp, Record(h, u, t, made, disp),
         m.kind \in {"reply", "hint"}, m.turn = t, m.calls = <<>>
  PROVE  u \in DOMAIN Append(h, m) /\ Record(Append(h, m), u, t, made, disp)
<1>1. Len(m.calls) = 0 /\ Len(made) \in Nat /\ Len(made) + 0 = Len(made)
  BY LenProperties
<1>2. ~IsCalls(m) /\ m.kind # "user" /\ m.kind # "result"
  BY DEF IsCalls
<1>3. /\ u \in DOMAIN Append(h, m)
      /\ OnRecord(Append(h, m), u, t, made, disp)
      /\ \E count \in [0 .. Len(Append(h, m)) - u -> Nat] : Counts(Append(h, m), u, count, made)
  BY <1>1, <1>2, RecordAppend DEF Record
<1> QED
  BY <1>3, CoveredAppend DEF Record

LEMMA RecordBegin ==
  ASSUME TypeOK, Shape, TurnRecord, BeginTurn
  PROVE  TurnRecord'
<1> DEFINE p == Prepared(history)
<1>1. /\ Len(p) \in Nat /\ DOMAIN history' = 1 .. Len(p) + 2 /\ Len(history') = Len(p) + 2
      /\ history'[Len(p) + 2].kind = "user"
  BY BeginTurnStep, NoteIs
<1> HIDE DEF p
<1>2. PICK u \in Nat : u = Len(p) + 2
  BY <1>1
<1>3. u \in DOMAIN history' /\ Len(history') - u = 0
  BY <1>1, <1>2
<1>4. pc = "idle" /\ pc' = "asking" /\ dispatched' = dispatched /\ pending' = pending
  BY DEF BeginTurn
<1>5. dispatched' = <<>> /\ pending' = <<>>
  BY <1>4 DEF TurnRecord, TypeOK
<1>6. Len(Made') = 0
  <2>1. Made' = [n \in 1 .. Len(dispatched') + Len(pending') |->
                  IF n <= Len(dispatched') THEN dispatched'[n].call
                  ELSE pending'[n - Len(dispatched')]]
    BY DEF Made, MadeOf
  <2>2. 1 .. Len(dispatched') + Len(pending') = {}
    BY <1>5
  <2>3. Made' = <<>>
    BY <2>1, <2>2
  <2> QED
    BY <2>3
<1>7. OnRecord(history', u, turn', Made', dispatched')
  <2>1. u + 1 .. Len(history') = {}
    BY <1>1, <1>2
  <2> QED
    BY <1>1, <1>2, <2>1 DEF OnRecord
<1>8. \E count \in [0 .. Len(history') - u -> Nat] : Counts(history', u, count, Made')
  <2> DEFINE count == [i \in 0 .. 0 |-> 0]
  <2>1. count \in [0 .. 0 -> Nat] /\ count[0] = 0
    OBVIOUS
  <2> HIDE DEF count
  <2>2. Counts(history', u, count, Made')
    BY <1>3, <1>6, <2>1 DEF Counts
  <2> QED
    BY <1>3, <2>1, <2>2
<1>9. Covered(history', u, dispatched')
  BY <1>5 DEF Covered
<1> QED
  BY <1>3, <1>4, <1>7, <1>8, <1>9 DEF TurnRecord, Record

LEMMA RecordAnswerCalls ==
  ASSUME TypeOK, TurnRecord,
         NEW calls \in UNION {[1 .. n -> Call] : n \in 1 .. MaxCalls}, AnswerCalls(calls),
         TypeOK'
  PROVE  TurnRecord'
<1> DEFINE m == CallsMessage(calls)
           D == Len(dispatched)
<1>1. calls \in Seq(Call)
  BY SeqDef
<1>2. Len(calls) \in Nat /\ DOMAIN calls = 1 .. Len(calls)
  BY <1>1, LenProperties
<1>3. /\ pc = "asking" /\ pc' # "idle" /\ pending = <<>> /\ pending' = calls
      /\ history' = Append(history, m) /\ turn' = turn /\ dispatched' = dispatched
  BY DEF AnswerCalls, Asking, TypeOK
<1>4. history \in Seq(Message) /\ turn \in 0 .. MaxTurns /\ D \in Nat
  BY LenProperties DEF TypeOK
<1>5. m \in Message /\ IsCalls(m) /\ m.turn = turn /\ m.calls = calls /\ m.id = D + 1
  BY <1>1, <1>4, CallsMessageIs
<1>6. Made \in Seq(Call) /\ Len(Made) = D /\ \A n \in 1 .. D : Made[n] = dispatched[n].call
  <2>1. dispatched \in Seq(Dispatched) /\ <<>> \in Seq(Call) /\ Made = MadeOf(dispatched, <<>>)
    BY <1>3 DEF Made, TypeOK, Dispatched
  <2>2. PICK disp \in Seq(Dispatched) : disp = dispatched
    BY <2>1
  <2>3. PICK made : made = MadeOf(disp, <<>>)
    OBVIOUS
  <2>4. made = Made
    BY <2>1, <2>2, <2>3
  <2>5. /\ made \in Seq(Call) /\ Len(made) = Len(disp) + Len(<<>>) /\ Len(disp) \in Nat
        /\ \A n \in 1 .. Len(disp) : made[n] = disp[n].call
    BY <2>1, <2>3, MadeIs
  <2>6. Len(disp) + Len(<<>>) = Len(disp)
    BY <2>5
  <2> QED
    BY <2>2, <2>4, <2>5, <2>6
<1>7. /\ Made' \in Seq(Call) /\ Len(Made') = D + Len(calls)
      /\ \A n \in 1 .. D : Made'[n] = dispatched[n].call
      /\ \A n \in 1 .. Len(calls) : Made'[D + n] = calls[n]
  <2>1. dispatched \in Seq(Dispatched) /\ Made' = MadeOf(dispatched, calls)
    BY <1>3 DEF Made, TypeOK, Dispatched
  <2> QED
    BY <1>1, <2>1, MadeIs
<1>8. PICK u \in DOMAIN history : Record(history, u, turn, Made, dispatched)
  BY <1>3 DEF TurnRecord
<1> HIDE DEF m, D
<1>9. m.kind # "user" /\ m.kind # "result"
  BY <1>5 DEF IsCalls
<1>10. /\ Len(Made') = Len(Made) + Len(m.calls)
       /\ \A n \in 1 .. Len(Made) : Made'[n] = Made[n]
       /\ m.id = Len(Made) + 1
       /\ \A n \in DOMAIN m.calls : Made'[Len(Made) + n] = m.calls[n]
  BY <1>2, <1>5, <1>6, <1>7
<1>11. PICK made2 \in Seq(Call) : made2 = Made'
  BY <1>7
<1>12. /\ u \in DOMAIN history'
       /\ OnRecord(history', u, turn, made2, dispatched)
       /\ \E count \in [0 .. Len(history') - u -> Nat] : Counts(history', u, count, made2)
  <2>1. PICK made \in Seq(Call) : made = Made
    BY <1>6
  <2>2. /\ OnRecord(history, u, turn, made, dispatched)
        /\ \E count \in [0 .. Len(history) - u -> Nat] : Counts(history, u, count, made)
    BY <1>8, <2>1 DEF Record
  <2>3. /\ Len(made2) = Len(made) + Len(m.calls)
        /\ \A n \in 1 .. Len(made) : made2[n] = made[n]
        /\ m.id = Len(made) + 1
        /\ \A n \in DOMAIN m.calls : made2[Len(made) + n] = m.calls[n]
    BY <1>10, <1>11, <2>1
  <2> QED
    BY <1>3, <1>4, <1>5, <1>9, <2>2, <2>3, RecordAppend
<1>13. Covered(history', u, dispatched)
  BY <1>3, <1>4, <1>5, <1>8, CoveredAppend DEF Record
<1> QED
  BY <1>3, <1>11, <1>12, <1>13 DEF TurnRecord, Record

\* The result of the call dispatched last.
LEMMA RecordResultAppend ==
  ASSUME NEW h \in Seq(Message), NEW u \in DOMAIN h, NEW r \in Message, NEW t,
         NEW made \in Seq(Call), NEW disp, OnRecord(h, u, t, made, disp),
         \E count \in [0 .. Len(h) - u -> Nat] : Counts(h, u, count, made),
         r.kind = "result", r.turn = t, r.calls = <<>>,
         r.id \in DOMAIN disp, r.outcome = disp[r.id].outcome
  PROVE  /\ u \in DOMAIN Append(h, r)
         /\ OnRecord(Append(h, r), u, t, made, disp)
         /\ \E count \in [0 .. Len(Append(h, r)) - u -> Nat] : Counts(Append(h, r), u, count, made)
<1>1. Len(r.calls) = 0 /\ Len(made) \in Nat /\ Len(made) + 0 = Len(made)
  BY LenProperties
<1>2. ~IsCalls(r) /\ r.kind # "user"
  BY DEF IsCalls
<1> QED
  BY <1>1, <1>2, RecordAppend

\* After one call is dispatched and its result appended, as DispatchTool does.
LEMMA RecordResult ==
  ASSUME TypeOK, TurnRecord, DispatchTool, TypeOK',
         NEW outcome \in Outcome \ {"none"},
         dispatched' = Append(dispatched, [call |-> Head(pending), outcome |-> outcome]),
         NEW g, g = Append(history, ResultMessage(outcome))
  PROVE  /\ g \in Seq(Message) /\ Made' \in Seq(Call)
         /\ \E u \in DOMAIN g : Record(g, u, turn, Made', dispatched')
<1> DEFINE r == ResultMessage(outcome)
           D == Len(dispatched)
           P == Len(pending)
           x == [call |-> Head(pending), outcome |-> outcome]
<1>1. /\ history \in Seq(Message) /\ turn \in 0 .. MaxTurns /\ D \in Nat
      /\ pc = "dispatching" /\ pending \in Seq(Call) /\ pending # <<>> /\ pending' = Tail(pending)
      /\ dispatched \in Seq(Dispatched)
  BY LenProperties DEF TypeOK, DispatchTool, Dispatched
<1>2. /\ r \in Message /\ r.kind = "result" /\ r.turn = turn /\ r.calls = <<>>
      /\ r.id = D + 1 /\ r.outcome = outcome
  BY <1>1, ResultMessageIs
<1>3. /\ P \in Nat /\ P >= 1 /\ Len(pending') = P - 1
      /\ Head(pending) = pending[1] /\ pending[1] \in Call
      /\ \A n \in 1 .. P - 1 : pending'[n] = pending[n + 1]
  BY <1>1, HeadTailProperties, EmptySeq, LenProperties, ElementOfSeq
<1>4. x \in Dispatched /\ x.call = pending[1] /\ x.outcome = outcome
  BY <1>3 DEF Dispatched
<1> HIDE DEF r, D, P, x
<1>5. /\ Len(dispatched') = D + 1 /\ DOMAIN dispatched' = 1 .. D + 1
      /\ \A n \in 1 .. D : dispatched'[n] = dispatched[n]
      /\ dispatched'[D + 1] = x
      /\ DOMAIN dispatched = 1 .. D
  <2>1. dispatched' = Append(dispatched, x)
    BY DEF x
  <2>2. dispatched' \in Seq(Dispatched)
    BY DEF TypeOK, Dispatched
  <2> QED
    BY <1>1, <1>4, <2>1, <2>2, AppendProperties, LenProperties DEF D
<1>6. /\ Made \in Seq(Call) /\ Len(Made) = D + P
      /\ \A n \in 1 .. D : Made[n] = dispatched[n].call
      /\ \A n \in 1 .. P : Made[D + n] = pending[n]
  <2>1. PICK disp \in Seq(Dispatched), rest \in Seq(Call) : disp = dispatched /\ rest = pending
    BY <1>1
  <2>2. PICK made : made = MadeOf(disp, rest)
    OBVIOUS
  <2>3. /\ made \in Seq(Call) /\ Len(made) = Len(disp) + Len(rest)
        /\ \A n \in 1 .. Len(disp) : made[n] = disp[n].call
        /\ \A n \in 1 .. Len(rest) : made[Len(disp) + n] = rest[n]
    BY <2>2, MadeIs
  <2> QED
    BY <2>1, <2>2, <2>3 DEF D, P, Made
<1>7. /\ Made' \in Seq(Call) /\ Len(Made') = Len(dispatched') + Len(pending')
      /\ \A n \in 1 .. Len(dispatched') : Made'[n] = dispatched'[n].call
      /\ \A n \in 1 .. Len(pending') : Made'[Len(dispatched') + n] = pending'[n]
  <2>1. /\ dispatched' \in Seq(Dispatched) /\ pending' \in Seq(Call)
        /\ Made' = MadeOf(dispatched', pending')
    BY DEF Made, TypeOK, Dispatched
  <2>2. PICK disp \in Seq(Dispatched), rest \in Seq(Call) : disp = dispatched' /\ rest = pending'
    BY <2>1
  <2>3. PICK made : made = MadeOf(disp, rest)
    OBVIOUS
  <2>4. /\ made \in Seq(Call) /\ Len(made) = Len(disp) + Len(rest)
        /\ \A n \in 1 .. Len(disp) : made[n] = disp[n].call
        /\ \A n \in 1 .. Len(rest) : made[Len(disp) + n] = rest[n]
    BY <2>3, MadeIs
  <2> QED
    BY <2>1, <2>2, <2>3, <2>4
<1>8. Made' = Made
  <2>1. Len(Made') = D + P
    BY <1>1, <1>3, <1>5, <1>7 DEF D
  <2>2. ASSUME NEW n \in 1 .. D + P
        PROVE  Made'[n] = Made[n]
    <3>1. CASE n \in 1 .. D
      <4>1. n \in 1 .. D + 1
        BY <1>1, <3>1
      <4> QED
        BY <1>5, <1>6, <1>7, <3>1, <4>1
    <3>2. CASE n = D + 1
      <4>1. Made'[n] = pending[1]
        <5>1. n \in 1 .. D + 1
          BY <1>1, <3>2
        <5> QED
          BY <1>4, <1>5, <1>7, <3>2, <5>1
      <4>2. Made[n] = pending[1]
        <5>1. 1 \in 1 .. P
          BY <1>3
        <5> QED
          BY <1>6, <3>2, <5>1
      <4> QED
        BY <4>1, <4>2
    <3>3. CASE n > D + 1
      <4>1. PICK y \in Nat : y = n - (D + 1)
        BY <1>1, <3>3
      <4>2. y \in 1 .. P - 1 /\ y + 1 \in 1 .. P /\ n = D + 1 + y /\ n = D + (y + 1)
        BY <1>1, <1>3, <3>3, <4>1
      <4>3. Made'[D + 1 + y] = pending'[y]
        BY <1>3, <1>5, <1>7, <4>2
      <4>4. Made[D + (y + 1)] = pending[y + 1]
        BY <1>6, <4>2
      <4> QED
        BY <1>3, <4>2, <4>3, <4>4
    <3> QED
      BY <1>1, <1>3, <3>1, <3>2, <3>3
  <2> QED
    BY <1>6, <1>7, <2>1, <2>2, SeqEqual
<1>9. PICK u \in DOMAIN history : Record(history, u, turn, Made, dispatched)
  BY <1>1 DEF TurnRecord
<1>10. OnRecord(history, u, turn, Made, dispatched')
  <2>1. \A n \in DOMAIN dispatched : n \in DOMAIN dispatched' /\ dispatched'[n] = dispatched[n]
    BY <1>1, <1>5
  <2>2. OnRecord(history, u, turn, Made, dispatched)
    BY <1>9 DEF Record
  <2> QED
    BY <2>1, <2>2 DEF OnRecord
<1>11. PICK made \in Seq(Call) : made = Made
  BY <1>6
<1>12. /\ u \in DOMAIN g
       /\ OnRecord(g, u, turn, made, dispatched')
       /\ \E count \in [0 .. Len(g) - u -> Nat] : Counts(g, u, count, made)
  <2>1. g = Append(history, r)
    BY DEF r
  <2>2. /\ Len(r.calls) = 0 /\ Len(made) = Len(made) + Len(r.calls)
        /\ ~IsCalls(r) /\ r.kind # "user"
    BY <1>2, <1>11, LenProperties DEF IsCalls
  <2>3. r.id \in DOMAIN dispatched' /\ r.outcome = dispatched'[r.id].outcome
    BY <1>1, <1>2, <1>4, <1>5
  <2>4. /\ OnRecord(history, u, turn, made, dispatched')
        /\ \E count \in [0 .. Len(history) - u -> Nat] : Counts(history, u, count, made)
    BY <1>9, <1>10, <1>11 DEF Record
  <2>5. PICK disp : disp = dispatched'
    OBVIOUS
  <2>6. /\ u \in DOMAIN g
        /\ OnRecord(g, u, turn, made, disp)
        /\ \E count \in [0 .. Len(g) - u -> Nat] : Counts(g, u, count, made)
    <3>1. /\ OnRecord(history, u, turn, made, disp)
          /\ r.id \in DOMAIN disp /\ r.outcome = disp[r.id].outcome
      BY <2>3, <2>4, <2>5
    <3>2. /\ r \in Message /\ r.kind = "result" /\ r.turn = turn /\ r.calls = <<>>
          /\ history \in Seq(Message)
      BY <1>1, <1>2
    <3>3. \E count \in [0 .. Len(history) - u -> Nat] : Counts(history, u, count, made)
      BY <2>4
    <3>4. /\ u \in DOMAIN Append(history, r)
          /\ OnRecord(Append(history, r), u, turn, made, disp)
          /\ \E count \in [0 .. Len(Append(history, r)) - u -> Nat] :
               Counts(Append(history, r), u, count, made)
      BY <3>1, <3>2, <3>3, RecordResultAppend
    <3> QED
      BY <2>1, <3>4
  <2> QED
    BY <2>5, <2>6
<1>13. Covered(g, u, dispatched')
  <2>1. /\ Len(g) = Len(history) + 1 /\ g[Len(history) + 1] = r /\ Len(history) \in Nat
        /\ DOMAIN history = 1 .. Len(history)
    BY <1>1, <1>2, Appended DEF r
  <2>2. Covered(g, u, dispatched)
    BY <1>1, <1>2, <1>9, CoveredAppend DEF Record, r
  <2> SUFFICES ASSUME NEW d \in DOMAIN dispatched'
               PROVE  \E i \in u + 1 .. Len(g) : g[i].kind = "result" /\ g[i].id = d
    BY DEF Covered
  <2>3. CASE d \in DOMAIN dispatched
    BY <2>2, <2>3 DEF Covered
  <2>4. CASE d = D + 1
    <3>1. Len(g) \in u + 1 .. Len(g)
      BY <2>1
    <3> QED
      BY <1>2, <2>1, <2>4, <3>1
  <2>5. d \in 1 .. D + 1 /\ D \in Nat /\ DOMAIN dispatched = 1 .. D
    BY <1>1, <1>5 DEF D
  <2>6. d \in DOMAIN dispatched \/ d = D + 1
    BY <2>5
  <2> QED
    BY <2>3, <2>4, <2>6
<1>14. g \in Seq(Message)
  BY <1>1, <1>2, Appended DEF r
<1> QED
  BY <1>6, <1>8, <1>11, <1>12, <1>13, <1>14 DEF Record

LEMMA TurnRecordNext ==
  ASSUME TypeOK, Shape, TurnRecord, [Next]_vars, TypeOK'
  PROVE  TurnRecord'
<1>1. history \in Seq(Message) /\ turn \in 0 .. MaxTurns /\ Made \in Seq(Call)
  BY MadeIs DEF TypeOK, Made, Dispatched
<1>2. CASE DispatchTool
  <2>1. PICK outcome \in Outcome \ {"none"} :
          /\ dispatched' = Append(dispatched, [call |-> Head(pending), outcome |-> outcome])
          /\ Continue(Append(history, ResultMessage(outcome)))
    BY <1>2, DispatchToolStep
  <2>2. PICK g : g = Append(history, ResultMessage(outcome))
    OBVIOUS
  <2>3. g \in Seq(Message) /\ Made' \in Seq(Call)
        /\ \E u \in DOMAIN g : Record(g, u, turn, Made', dispatched')
    BY <1>2, <2>1, <2>2, RecordResult
  <2>4. PICK u \in DOMAIN g : Record(g, u, turn, Made', dispatched')
    BY <2>3
  <2>5. pc' # "idle" /\ turn' = turn
    BY <1>2, <2>1 DEF Continue, DispatchTool
  <2>6. CASE history' = g
    BY <2>4, <2>5, <2>6 DEF TurnRecord
  <2>7. CASE history' = Append(g, Note("reply", turn))
    <3>1. /\ Note("reply", turn) \in Message /\ Note("reply", turn).kind = "reply"
          /\ Note("reply", turn).turn = turn /\ Note("reply", turn).calls = <<>>
      BY <1>1, NoteType, NoteIs DEF Kind
    <3>2. PICK made \in Seq(Call) : made = Made'
      BY <2>3
    <3>3. PICK disp : disp = dispatched'
      OBVIOUS
    <3>4. u \in DOMAIN history' /\ Record(history', u, turn, made, disp)
      BY <2>3, <2>4, <2>7, <3>1, <3>2, <3>3, RecordQuiet
    <3> QED
      BY <2>5, <3>2, <3>3, <3>4 DEF TurnRecord
  <2> QED
    BY <2>1, <2>2, <2>6, <2>7 DEF Continue
<1>3. ASSUME NEW k \in {"reply", "hint"}, history' = Append(history, Note(k, turn)), pc = "asking",
             pc' # "idle", UNCHANGED <<turn, pending, dispatched>>
      PROVE  TurnRecord'
  <2>1. PICK u \in DOMAIN history : Record(history, u, turn, Made, dispatched)
    BY <1>3 DEF TurnRecord
  <2>2. /\ Note(k, turn) \in Message /\ Note(k, turn).kind = k
        /\ Note(k, turn).turn = turn /\ Note(k, turn).calls = <<>>
    BY <1>1, NoteType, NoteIs DEF Kind, SystemKind
  <2>3. u \in DOMAIN history' /\ Record(history', u, turn, Made, dispatched)
    BY <1>1, <1>3, <2>1, <2>2, RecordQuiet
  <2>4. Made' = Made
    BY <1>3 DEF Made, MadeOf
  <2> QED
    BY <1>3, <2>3, <2>4 DEF TurnRecord
<1>4. CASE AnswerImitation
  BY <1>3, <1>4 DEF AnswerImitation, Asking
<1>5. ASSUME NEW finish, AnswerText(finish)
      PROVE  TurnRecord'
  BY <1>3, <1>5 DEF AnswerText, Asking
<1>6. CASE RoundTripLimit
  BY <1>3, <1>6 DEF RoundTripLimit, locals
<1>7. CASE Raise \/ Respond
  BY <1>7 DEF Raise, Respond, LocalsGone, TurnRecord
<1>8. CASE CartAction \/ UNCHANGED vars
  <2>1. UNCHANGED <<history, turn, pc, pending, dispatched>>
    BY <1>8 DEF CartAction, vars, locals
  <2>2. Made' = Made
    BY <2>1 DEF Made, MadeOf
  <2> QED
    BY <2>1, <2>2 DEF TurnRecord
<1> QED
  BY <1>2, <1>4, <1>5, <1>6, <1>7, <1>8, RecordBegin, RecordAnswerCalls DEF Next, TurnStep

LEMMA TurnRecordInit ==
  ASSUME Init
  PROVE  TurnRecord
BY DEF Init, TurnRecord

-----------------------------------------------------------------------------
(* The trace of a turn is what was dispatched *)

LEMMA SinceUserIs ==
  ASSUME NEW h \in Seq(Message), NEW u \in DOMAIN h, h[u].kind = "user",
         \A i \in u + 1 .. Len(h) : h[i].kind # "user"
  PROVE  /\ SinceUser(h) \in Seq(Message)
         /\ Len(h) - u \in Nat
         /\ Len(SinceUser(h)) = Len(h) - u
         /\ DOMAIN SinceUser(h) = 1 .. Len(h) - u
         /\ \A i \in 1 .. Len(h) - u : u + i \in u + 1 .. Len(h) /\ SinceUser(h)[i] = h[u + i]
<1> DEFINE L == Len(h)
           users == {i \in DOMAIN h : h[i].kind = "user"}
           newest == CHOOSE i \in users : \A j \in users : j <= i
<1>1. L \in Nat /\ DOMAIN h = 1 .. L /\ u \in 1 .. L
  BY LenProperties
<1>2. u \in users /\ \A j \in users : j <= u
  <2>1. ASSUME NEW j \in users
        PROVE  j <= u
    <3>1. j \in 1 .. L /\ j \notin u + 1 .. L
      BY <1>1
    <3> HIDE DEF L, users
    <3> QED
      BY <1>1, <3>1
  <2> QED
    BY <2>1
<1>3. newest = u
  <2> HIDE DEF users
  <2>1. newest \in users /\ \A j \in users : j <= newest
    BY <1>2
  <2>2. newest <= u /\ u <= newest /\ newest \in Int
    BY <1>1, <1>2, <2>1 DEF users
  <2> HIDE DEF newest
  <2> QED
    BY <1>1, <2>2
<1>4. SinceUser(h) = SubSeq(h, u + 1, L)
  <2>1. SinceUser(h) = IF users = {} THEN <<>> ELSE SubSeq(h, newest + 1, L)
    BY DEF SinceUser
  <2>2. users # {}
    BY <1>2
  <2> HIDE DEF users, newest, L
  <2> QED
    BY <1>3, <2>1, <2>2
<1> HIDE DEF L
<1>5. u + 1 \in 1 .. L + 1 /\ L - (u + 1) + 1 = L - u /\ L - u \in Nat
  BY <1>1
<1>6. ASSUME NEW i \in 1 .. L - u
      PROVE  /\ u + i \in u + 1 .. L /\ u + 1 + i - 1 = u + i
             /\ u + i \in 1 .. L
  BY <1>1
<1>7. /\ SubSeq(h, u + 1, L) \in Seq(Message)
      /\ Len(SubSeq(h, u + 1, L)) = L - u
      /\ \A i \in 1 .. L - u : SubSeq(h, u + 1, L)[i] = h[u + i]
  <2>1. PICK m \in Nat : m = u + 1
    BY <1>1
  <2>2. m \in Int /\ L \in Int /\ L - m + 1 = L - u /\ (IF m <= L THEN L - m + 1 ELSE 0) = L - u
    BY <1>1, <2>1
  <2>3. \A i \in m .. L : h[i] \in Message
    <3>1. \A i \in m .. L : i \in 1 .. L
      BY <1>1, <2>1
    <3> QED
      BY <3>1, ElementOfSeq DEF L
  <2>4. /\ SubSeq(h, m, L) \in Seq(Message)
        /\ Len(SubSeq(h, m, L)) = L - u
        /\ \A i \in 1 .. L - u : SubSeq(h, m, L)[i] = h[m + i - 1]
    BY <2>2, <2>3, SubSeqProperties
  <2>5. \A i \in 1 .. L - u : m + i - 1 = u + i
    BY <1>1, <2>1
  <2> QED
    BY <2>1, <2>4, <2>5
<1> QED
  BY <1>4, <1>5, <1>6, <1>7, LenProperties DEF L

\* A call that has one result only is shown with it.
LEMMA ResultOfIs ==
  ASSUME NEW since \in Seq(Message), NEW id \in Nat, NEW outcome \in Outcome,
         \E i \in DOMAIN since : since[i].kind = "result" /\ since[i].id = id,
         \A i \in DOMAIN since : since[i].kind = "result" /\ since[i].id = id
                                   => since[i].outcome = outcome
  PROVE  ResultOf(since, id) = outcome
<1> DEFINE found == {i \in DOMAIN since : since[i].kind = "result" /\ since[i].id = id}
           newest == CHOOSE i \in found : \A j \in found : j <= i
<1>1. Len(since) \in Nat /\ DOMAIN since = 1 .. Len(since)
  BY LenProperties
<1>2. found \in SUBSET (1 .. Len(since)) /\ found # {}
  BY <1>1
<1>3. newest \in found
  <2> HIDE DEF found
  <2>1. \E x \in found : \A y \in found : y <= x
    BY <1>1, <1>2, HasGreatest
  <2> QED
    BY <2>1
<1>4. ResultOf(since, id) = IF found = {} THEN "none" ELSE since[newest].outcome
  BY DEF ResultOf
<1> HIDE DEF newest
<1> QED
  BY <1>2, <1>3, <1>4

\* The calls of a message, each with its result.
Traced(since, m) ==
  [k \in DOMAIN m.calls |->
     [call |-> m.calls[k], outcome |-> ResultOf(since, m.id + k - 1)]]

LEMMA TracedIs ==
  ASSUME NEW h \in Seq(Message), NEW u \in DOMAIN h, NEW t, NEW disp \in Seq(Dispatched),
         NEW made \in Seq(Call), Len(made) = Len(disp),
         \A n \in 1 .. Len(disp) : made[n] = disp[n].call,
         OnRecord(h, u, t, made, disp), Covered(h, u, disp),
         NEW i \in u + 1 .. Len(h)
  PROVE  /\ Traced(SinceUser(h), h[i]) \in Seq(Dispatched)
         /\ Len(Traced(SinceUser(h), h[i])) = Len(h[i].calls)
         /\ \A k \in 1 .. Len(h[i].calls) :
              /\ h[i].id + k - 1 \in 1 .. Len(disp)
              /\ Traced(SinceUser(h), h[i])[k] = disp[h[i].id + k - 1]
<1> DEFINE since == SinceUser(h)
           m == h[i]
           C == Len(m.calls)
<1>1. Len(h) \in Nat /\ DOMAIN h = 1 .. Len(h) /\ u \in 1 .. Len(h) /\ i \in 1 .. Len(h)
  BY LenProperties
<1>2. m \in Message /\ m.calls \in Seq(Call) /\ m.id \in Nat
  <2>1. m \in Message
    BY <1>1, ElementOfSeq
  <2> HIDE DEF m
  <2> QED
    BY <2>1 DEF Message
<1>3. C \in Nat /\ DOMAIN m.calls = 1 .. C /\ Len(disp) \in Nat /\ DOMAIN disp = 1 .. Len(disp)
      /\ DOMAIN made = 1 .. Len(disp)
  BY <1>2, LenProperties
<1>4. /\ since \in Seq(Message)
      /\ Len(h) - u \in Nat
      /\ DOMAIN since = 1 .. Len(h) - u
      /\ \A j \in 1 .. Len(h) - u : u + j \in u + 1 .. Len(h) /\ since[j] = h[u + j]
  BY SinceUserIs DEF OnRecord
<1> HIDE DEF since
<1>5. ASSUME NEW d \in 1 .. Len(disp)
      PROVE  ResultOf(since, d) = disp[d].outcome
  <2>1. PICK j \in u + 1 .. Len(h) : h[j].kind = "result" /\ h[j].id = d
    BY <1>3 DEF Covered
  <2>2. PICK n \in Nat : n = j - u
    BY <1>1
  <2>3. n \in 1 .. Len(h) - u /\ u + n = j
    BY <1>1, <2>2
  <2>4. n \in DOMAIN since /\ since[n].kind = "result" /\ since[n].id = d
    BY <1>4, <2>1, <2>3
  <2>5. ASSUME NEW l \in DOMAIN since, since[l].kind = "result", since[l].id = d
        PROVE  since[l].outcome = disp[d].outcome
    <3>1. u + l \in u + 1 .. Len(h) /\ since[l] = h[u + l]
      BY <1>4
    <3> QED
      BY <2>5, <3>1 DEF OnRecord
  <2>6. PICK o \in Outcome : o = disp[d].outcome
    <3>1. disp[d] \in Dispatched
      BY ElementOfSeq
    <3>2. disp[d].outcome \in Outcome
      BY <3>1 DEF Dispatched
    <3> QED
      BY <3>2
  <2>7. since \in Seq(Message) /\ \E l \in DOMAIN since : since[l].kind = "result" /\ since[l].id = d
    BY <1>4, <2>4
  <2>8. \A l \in DOMAIN since : since[l].kind = "result" /\ since[l].id = d => since[l].outcome = o
    BY <2>5, <2>6
  <2>9. d \in Nat
    OBVIOUS
  <2> HIDE DEF m, C
  <2>10. ResultOf(since, d) = o
    BY <2>7, <2>8, <2>9, ResultOfIs
  <2> QED
    BY <2>6, <2>10
<1>6. ASSUME NEW k \in 1 .. C
      PROVE  /\ m.id + k - 1 \in 1 .. Len(disp)
             /\ m.calls[k] = disp[m.id + k - 1].call
             /\ disp[m.id + k - 1] \in Dispatched
  <2>1. IsCalls(m)
    <3> SUFFICES ASSUME ~IsCalls(m)
                 PROVE  FALSE
      OBVIOUS
    <3>1. m.calls = <<>>
      BY DEF OnRecord
    <3>2. C = 0
      BY <3>1
    <3> QED
      BY <3>2
  <2>2. m.id + k - 1 \in DOMAIN made /\ made[m.id + k - 1] = m.calls[k]
    BY <1>3, <2>1 DEF OnRecord
  <2> QED
    BY <1>3, <2>2, ElementOfSeq
<1>7. ASSUME NEW k \in 1 .. C
      PROVE  Traced(since, m)[k] = disp[m.id + k - 1]
  <2>1. PICK d \in 1 .. Len(disp) : d = m.id + k - 1
    BY <1>6
  <2>2. Traced(since, m)[k] = [call |-> m.calls[k], outcome |-> ResultOf(since, d)]
    BY <1>3, <2>1 DEF Traced
  <2>3. m.calls[k] = disp[d].call /\ disp[d] \in Dispatched
    BY <1>6, <2>1
  <2>4. disp[d] = [call |-> disp[d].call, outcome |-> disp[d].outcome]
    BY <2>3 DEF Dispatched
  <2> QED
    BY <1>5, <2>1, <2>2, <2>3, <2>4
<1>8. Traced(since, m) \in Seq(Dispatched) /\ Len(Traced(since, m)) = C
  <2>1. DOMAIN Traced(since, m) = 1 .. C
    BY <1>3 DEF Traced
  <2>2. Traced(since, m) = [k \in 1 .. C |-> Traced(since, m)[k]]
    BY <1>3, <2>1 DEF Traced
  <2>3. \A k \in 1 .. C : Traced(since, m)[k] \in Dispatched
    BY <1>6, <1>7
  <2> HIDE DEF C, m
  <2>4. Traced(since, m) \in [1 .. C -> Dispatched]
    BY <2>2, <2>3
  <2> QED
    BY <1>3, <2>4, FunctionIsSeq
<1> QED
  BY <1>6, <1>7, <1>8 DEF since

LEMMA MadeOfDispatched ==
  ASSUME NEW disp \in Seq(Dispatched), NEW made, made = MadeOf(disp, <<>>)
  PROVE  /\ made \in Seq(Call) /\ Len(made) = Len(disp) /\ Len(disp) \in Nat
         /\ \A k \in 1 .. Len(disp) : made[k] = disp[k].call
<1>1. <<>> \in Seq(Call) /\ Len(<<>>) = 0
  OBVIOUS
<1>2. /\ made \in Seq(Call) /\ Len(made) = Len(disp) + Len(<<>>) /\ Len(disp) \in Nat
      /\ \A k \in 1 .. Len(disp) : made[k] = disp[k].call
  BY <1>1, MadeIs
<1> QED
  BY <1>1, <1>2

LEMMA TraceIs ==
  ASSUME NEW h \in Seq(Message), NEW u \in DOMAIN h, NEW t, NEW disp \in Seq(Dispatched),
         NEW made, made = MadeOf(disp, <<>>), Record(h, u, t, made, disp)
  PROVE  FlattenSeq([i \in DOMAIN SinceUser(h) |-> Traced(SinceUser(h), SinceUser(h)[i])]) = disp
<1> DEFINE n == Len(h) - u
           since == SinceUser(h)
           F == [i \in DOMAIN since |-> Traced(since, since[i])]
           D == Len(disp)
<1>1. OnRecord(h, u, t, made, disp) /\ Covered(h, u, disp)
  BY DEF Record
<1>2. /\ made \in Seq(Call) /\ Len(made) = D /\ D \in Nat
      /\ \A k \in 1 .. D : made[k] = disp[k].call
  BY MadeOfDispatched
<1>3. /\ n \in Nat /\ DOMAIN since = 1 .. n
      /\ \A i \in 1 .. n : u + i \in u + 1 .. Len(h) /\ since[i] = h[u + i]
  BY <1>1, SinceUserIs DEF OnRecord
<1>4. PICK count \in [0 .. n -> Nat] : Counts(h, u, count, made)
  BY DEF Record
<1> HIDE DEF n, since, D
<1>5. ASSUME NEW i \in 1 .. n
      PROVE  /\ F[i] \in Seq(Dispatched)
             /\ Len(F[i]) = Len(h[u + i].calls)
             /\ \A k \in 1 .. Len(h[u + i].calls) :
                  /\ h[u + i].id + k - 1 \in 1 .. D
                  /\ F[i][k] = disp[h[u + i].id + k - 1]
  <2>1. PICK j \in u + 1 .. Len(h) : j = u + i
    BY <1>3
  <2>2. F[i] = Traced(SinceUser(h), h[j])
    BY <1>3, <2>1 DEF since
  <2>3. /\ Traced(SinceUser(h), h[j]) \in Seq(Dispatched)
        /\ Len(Traced(SinceUser(h), h[j])) = Len(h[j].calls)
        /\ \A k \in 1 .. Len(h[j].calls) :
             /\ h[j].id + k - 1 \in 1 .. Len(disp)
             /\ Traced(SinceUser(h), h[j])[k] = disp[h[j].id + k - 1]
    BY <1>1, <1>2, TracedIs DEF D
  <2> HIDE DEF F
  <2> QED
    BY <2>1, <2>2, <2>3 DEF D
<1>6. F \in Seq(Seq(Dispatched)) /\ Len(F) = n
  <2>1. F \in [1 .. n -> Seq(Dispatched)]
    BY <1>3, <1>5
  <2> HIDE DEF F
  <2>2. n \in Nat
    BY <1>3
  <2> QED
    BY <2>1, <2>2, FunctionIsSeq
<1> HIDE DEF F
<1>7. PICK up \in [0 .. n -> Seq(Dispatched)] :
        /\ up[0] = <<>>
        /\ \A i \in 1 .. n : up[i] = up[i - 1] \o F[i]
        /\ FlattenSeq(F) = up[n]
  BY <1>6, FlattenUpto
<1> DEFINE Begins(i) == /\ Len(up[i]) = count[i]
                        /\ \A k \in 1 .. count[i] : k \in 1 .. D /\ up[i][k] = disp[k]
           S == {i \in Nat : i <= n => Begins(i)}
<1>8. Begins(0)
  BY <1>4, <1>7 DEF Counts
<1>9. ASSUME NEW i \in Nat, i + 1 <= n, Begins(i)
      PROVE  Begins(i + 1)
  <2>1. PICK j \in 1 .. n : j = i + 1 /\ j - 1 = i
    BY <1>3, <1>9
  <2> DEFINE m == h[u + j]
             C == Len(m.calls)
             a == up[i]
             b == F[j]
  <2>2. /\ count[j] = count[i] + C
        /\ IsCalls(m) => m.id = count[i] + 1
    BY <1>4, <2>1 DEF Counts, n
  <2>3. up[j] = a \o b /\ a \in Seq(Dispatched) /\ b \in Seq(Dispatched) /\ Len(b) = C
    <3>1. i \in 0 .. n
      BY <1>3, <1>9
    <3> QED
      BY <1>5, <1>7, <2>1, <3>1
  <2>4. /\ Len(up[j]) = Len(a) + C /\ Len(a) \in Nat /\ C \in Nat
        /\ \A k \in 1 .. Len(a) : up[j][k] = a[k]
        /\ \A k \in 1 .. C : up[j][Len(a) + k] = b[k]
    <3> HIDE DEF a, b, C
    <3>0. PICK x \in Seq(Dispatched), y \in Seq(Dispatched) : x = a /\ y = b
      BY <2>3
    <3>1. /\ Len(x) \in Nat /\ Len(y) \in Nat
          /\ Len(x \o y) = Len(x) + Len(y)
          /\ \A l \in 1 .. Len(x) : (x \o y)[l] = x[l]
          /\ \A l \in 1 .. Len(y) : (x \o y)[Len(x) + l] = y[l]
      BY JoinProperties
    <3> QED
      BY <2>3, <3>0, <3>1
  <2>5. Len(a) = count[i] /\ \A k \in 1 .. count[i] : k \in 1 .. D /\ a[k] = disp[k]
    BY <1>9
  <2>6. ASSUME NEW k \in 1 .. C
        PROVE  count[i] + k \in 1 .. D /\ b[k] = disp[count[i] + k]
    <3>1. IsCalls(m)
      <4> SUFFICES ASSUME ~IsCalls(m)
                   PROVE  FALSE
        OBVIOUS
      <4>1. m.calls = <<>>
        BY <1>1, <1>3, <2>1 DEF OnRecord
      <4>2. C = 0
        BY <4>1
      <4> QED
        BY <4>2
    <3>2. m.id + k - 1 = count[i] + k
      <4> HIDE DEF m, C
      <4>1. count[i] \in Nat /\ m.id = count[i] + 1
        BY <2>2, <2>4, <2>5, <3>1
      <4> QED
        BY <2>4, <4>1
    <3>3. m.id + k - 1 \in 1 .. D /\ b[k] = disp[m.id + k - 1]
      BY <1>5
    <3> QED
      BY <3>2, <3>3
  <2> HIDE DEF m, C, a, b
  <2>7. ASSUME NEW k \in 1 .. count[j]
        PROVE  k \in 1 .. D /\ up[j][k] = disp[k]
    <3>1. CASE k <= count[i]
      <4>1. k \in 1 .. count[i]
        BY <2>2, <2>4, <2>5, <3>1
      <4> QED
        BY <2>4, <2>5, <4>1
    <3>2. CASE ~(k <= count[i])
      <4>1. PICK l \in Nat : l = k - count[i]
        BY <2>2, <2>4, <2>5, <3>2
      <4>2. l \in 1 .. C /\ k = count[i] + l
        BY <2>2, <2>4, <2>5, <3>2, <4>1
      <4> QED
        BY <2>4, <2>5, <2>6, <4>2
    <3> QED
      BY <3>1, <3>2
  <2> QED
    BY <2>1, <2>2, <2>4, <2>5, <2>7
<1>10. Begins(n)
  <2> HIDE DEF Begins
  <2>1. 0 \in S /\ \A i \in Nat : i \in S => i + 1 \in S
    BY <1>3, <1>8, <1>9
  <2>2. Nat \subseteq S
    <3> HIDE DEF S
    <3> QED
      BY <2>1, NatSetInduction
  <2> QED
    BY <1>3, <2>2
<1>11. count[n] = D
  BY <1>2, <1>4 DEF Counts, n
<1>12. up[n] = disp
  <2>1. up[n] \in Seq(Dispatched)
    BY <1>3, <1>7
  <2> QED
    BY <1>10, <1>11, <2>1, SeqEqual DEF D
<1> QED
  BY <1>7, <1>12 DEF F, since

LEMMA TraceFaithfulHolds ==
  ASSUME TypeOK, TurnRecord
  PROVE  TraceFaithful
<1> SUFFICES ASSUME pc \in Returned
             PROVE  tool_calls_trace = dispatched
  BY DEF TraceFaithful
<1>1. /\ pc # "idle" /\ pending = <<>>
      /\ history \in Seq(Message) /\ dispatched \in Seq(Dispatched)
  BY DEF Returned, TypeOK, Dispatched
<1>2. PICK u \in DOMAIN history : Record(history, u, turn, Made, dispatched)
  BY <1>1 DEF TurnRecord
<1>3. PICK made : made = Made
  OBVIOUS
<1>4. PICK disp \in Seq(Dispatched) : disp = dispatched
  BY <1>1
<1>5. made = MadeOf(disp, <<>>)
  BY <1>1, <1>3, <1>4 DEF Made
<1>6. Record(history, u, turn, made, disp)
  BY <1>2, <1>3, <1>4
<1>7. FlattenSeq([i \in DOMAIN SinceUser(history) |->
                   Traced(SinceUser(history), SinceUser(history)[i])]) = disp
  BY <1>1, <1>5, <1>6, TraceIs
<1> QED
  BY <1>4, <1>7 DEF tool_calls_trace, Traced

-----------------------------------------------------------------------------
(* A loop is broken off *)

OneCallEach(h, u) == \A i \in u + 1 .. Len(h) : Len(h[i].calls) <= 1

\* In a turn whose messages make one call each, the guard reads the calls made
\* in this turn first, the newest before the others.
LEMMA RecentIs ==
  ASSUME NEW h \in Seq(Message), NEW u \in DOMAIN h, NEW t, NEW made \in Seq(Call), NEW disp,
         Record(h, u, t, made, disp),
         OneCallEach(h, u)
  PROVE  /\ Len(Recent(h)) \in Nat /\ Len(Recent(h)) >= Len(made)
         /\ \A k \in 1 .. Len(made) : Recent(h)[k] = made[Len(made) + 1 - k]
<1> DEFINE L == Len(h)
           n == Len(h) - u
           M == Len(made)
           F == [i \in DOMAIN h |-> h[Len(h) + 1 - i].calls]
<1>1. /\ L \in Nat /\ DOMAIN h = 1 .. L /\ u \in 1 .. L /\ n \in Nat /\ n = L - u
      /\ M \in Nat /\ DOMAIN made = 1 .. M
  BY LenProperties
<1>2. PICK count \in [0 .. n -> Nat] : Counts(h, u, count, made)
  BY DEF Record
<1>3. /\ count[0] = 0 /\ count[n] = M
      /\ \A i \in 1 .. n : /\ count[i] = count[i - 1] + Len(h[u + i].calls)
                           /\ IsCalls(h[u + i]) => h[u + i].id = count[i - 1] + 1
  BY <1>2 DEF Counts
<1> HIDE DEF L, n, M
<1>4. ASSUME NEW i \in 1 .. L
      PROVE  L + 1 - i \in 1 .. L /\ F[i] = h[L + 1 - i].calls /\ F[i] \in Seq(Call)
  <2>1. L + 1 - i \in 1 .. L
    BY <1>1
  <2>2. h[L + 1 - i] \in Message
    BY <1>1, <2>1, ElementOfSeq DEF L
  <2>3. F[i] = h[L + 1 - i].calls
    BY <1>1 DEF L
  <2> HIDE DEF F
  <2> QED
    BY <2>1, <2>2, <2>3 DEF Message
<1>5. F \in Seq(Seq(Call)) /\ Len(F) = L
  <2>1. F \in [1 .. L -> Seq(Call)]
    BY <1>1, <1>4
  <2> HIDE DEF F
  <2>2. L \in Nat
    BY <1>1
  <2> QED
    BY <2>1, <2>2, FunctionIsSeq
<1>6. Recent(h) = FlattenSeq(F)
  BY DEF Recent
<1> HIDE DEF F
<1>7. PICK up \in [0 .. L -> Seq(Call)] :
        /\ up[0] = <<>>
        /\ \A i \in 1 .. L : up[i] = up[i - 1] \o F[i]
        /\ FlattenSeq(F) = up[L]
  BY <1>5, FlattenUpto
<1> DEFINE Back(i, b) == /\ Len(up[i]) = M - b
                         /\ \A k \in 1 .. M - b : up[i][k] = made[M + 1 - k]
           Backward(i) == Back(i, count[n - i])
           Beyond(i) == /\ Len(up[i]) >= M
                        /\ \A k \in 1 .. M : up[i][k] = made[M + 1 - k]
           S == {i \in Nat : i <= L => IF i <= n THEN Backward(i) ELSE Beyond(i)}
\* One message more.
<1>8. ASSUME NEW j \in 1 .. L, NEW i \in Nat, i = j - 1
      PROVE  /\ Len(up[i]) \in Nat
             /\ Len(F[j]) \in Nat
             /\ Len(up[j]) = Len(up[i]) + Len(F[j])
             /\ \A k \in 1 .. Len(up[i]) : up[j][k] = up[i][k]
             /\ \A k \in 1 .. Len(F[j]) : up[j][Len(up[i]) + k] = F[j][k]
  <2>1. i \in 0 .. L
    BY <1>1, <1>8
  <2>2. PICK a \in Seq(Call), b \in Seq(Call) : a = up[i] /\ b = F[j]
    BY <1>4, <1>7, <2>1
  <2>3. /\ Len(a) \in Nat /\ Len(b) \in Nat
        /\ Len(a \o b) = Len(a) + Len(b)
        /\ \A k \in 1 .. Len(a) : (a \o b)[k] = a[k]
        /\ \A k \in 1 .. Len(b) : (a \o b)[Len(a) + k] = b[k]
    BY JoinProperties
  <2>4. up[j] = a \o b
    BY <1>7, <1>8, <2>2
  <2> QED
    BY <2>2, <2>3, <2>4
<1>9. Backward(0)
  <2>1. Len(up[0]) = 0 /\ n - 0 = n /\ count[n] = M /\ M - M = 0 /\ 1 .. 0 = {}
    BY <1>1, <1>3, <1>7
  <2>2. Back(0, M)
    BY <2>1
  <2> HIDE DEF Back
  <2> QED
    BY <2>1, <2>2
<1>10. ASSUME NEW i \in Nat, i + 1 <= n, Backward(i)
       PROVE  Backward(i + 1)
  <2>1. PICK l \in 1 .. L : l = i + 1 /\ i = l - 1
    <3>1. i + 1 \in 1 .. L /\ i = i + 1 - 1
      BY <1>1, <1>10
    <3> QED
      BY <3>1
  <2>2. PICK j \in 1 .. n : j = n - i
    <3>1. n - i \in 1 .. n
      BY <1>1, <1>10
    <3> QED
      BY <3>1
  <2>3. PICK o \in 0 .. n : o = j - 1 /\ o = n - l
    <3>0. i \in Int /\ n \in Int /\ l \in Int /\ j \in Int /\ l = i + 1 /\ j = n - i /\ j >= 1 /\ j <= n
      BY <1>1, <2>1, <2>2
    <3>1. j - 1 \in 0 .. n /\ j - 1 = n - l
      BY <3>0
    <3> QED
      BY <3>1
  <2>4. PICK p \in u + 1 .. Len(h) : p = u + j /\ p = L + 1 - l /\ p \in 1 .. L
    <3>1. u + j \in u + 1 .. Len(h) /\ u + j = L + 1 - l /\ u + j \in 1 .. L
      BY <1>1, <2>1, <2>2 DEF L
    <3> QED
      BY <3>1
  <2> DEFINE m == h[p]
             before == count[o]
             C == Len(m.calls)
  <2>5. m \in Message /\ m.calls \in Seq(Call)
    <3>1. m \in Message
      BY <2>4, ElementOfSeq DEF L
    <3> HIDE DEF m
    <3> QED
      BY <3>1 DEF Message
  <2>6. F[l] = m.calls
    BY <1>4, <2>1, <2>4
  <2>7. /\ before \in Nat /\ count[j] = before + C
        /\ IsCalls(m) => m.id = before + 1
    BY <1>3, <2>2, <2>3, <2>4
  <2>8. /\ ~IsCalls(m) => m.calls = <<>>
        /\ IsCalls(m) => \A k \in DOMAIN m.calls : /\ m.id + k - 1 \in DOMAIN made
                                                   /\ made[m.id + k - 1] = m.calls[k]
    BY DEF Record, OnRecord
  <2>9. C <= 1
    BY DEF OneCallEach
  <2> HIDE DEF m, C, before
  <2>10. /\ Len(up[i]) \in Nat /\ C \in Nat
         /\ Len(up[l]) = Len(up[i]) + C
         /\ \A k \in 1 .. Len(up[i]) : up[l][k] = up[i][k]
         /\ \A k \in 1 .. C : up[l][Len(up[i]) + k] = m.calls[k]
    <3> HIDE DEF Back, Backward, Beyond, S
    <3>1. /\ Len(up[i]) \in Nat /\ Len(F[l]) \in Nat
          /\ Len(up[l]) = Len(up[i]) + Len(F[l])
          /\ \A k \in 1 .. Len(up[i]) : up[l][k] = up[i][k]
          /\ \A k \in 1 .. Len(F[l]) : up[l][Len(up[i]) + k] = F[l][k]
      BY <1>8, <2>1
    <3>2. C = Len(F[l])
      BY <2>6 DEF C
    <3> QED
      BY <2>6, <3>1, <3>2
  <2>11. /\ Len(up[i]) = M - count[j]
         /\ \A k \in 1 .. M - count[j] : up[i][k] = made[M + 1 - k]
    BY <1>10, <2>2
  <2>12. C = 1 => before + 1 \in 1 .. M /\ made[before + 1] = m.calls[1]
    <3> SUFFICES ASSUME C = 1
                 PROVE  before + 1 \in 1 .. M /\ made[before + 1] = m.calls[1]
      OBVIOUS
    <3>1. IsCalls(m)
      <4>1. m.calls # <<>>
        <5>1. m.calls = <<>> => C = 0
          BY DEF C
        <5> QED
          BY <5>1
      <4> QED
        BY <2>8, <4>1
    <3>2. 1 \in DOMAIN m.calls
      BY <2>5, LenProperties DEF C
    <3>3. m.id + 1 - 1 \in DOMAIN made /\ made[m.id + 1 - 1] = m.calls[1]
      BY <2>8, <3>1, <3>2
    <3>4. m.id + 1 - 1 = before + 1
      <4>1. m.id = before + 1
        BY <2>7, <3>1
      <4> QED
        BY <2>7, <4>1
    <3> QED
      BY <1>1, <3>3, <3>4
  <2>13. count[j] \in Nat /\ M - count[j] \in Nat
    BY <2>7, <2>10, <2>11
  <2>14. Len(up[l]) = M - before
    BY <1>1, <2>7, <2>10, <2>11
  <2>15. ASSUME NEW k \in 1 .. M - before
         PROVE  up[l][k] = made[M + 1 - k]
    <3>1. CASE k <= M - count[j]
      <4>1. k \in 1 .. M - count[j]
        BY <1>1, <2>7, <2>13, <3>1
      <4> QED
        BY <2>10, <2>11, <4>1
    <3>2. CASE ~(k <= M - count[j])
      <4>1. C = 1 /\ k = M - count[j] + 1 /\ M + 1 - k = before + 1
        BY <1>1, <2>7, <2>9, <2>10, <2>13, <3>2
      <4>2. up[l][Len(up[i]) + 1] = m.calls[1]
        BY <2>10, <4>1
      <4> QED
        BY <2>11, <2>12, <4>1, <4>2
    <3> QED
      BY <3>1, <3>2
  <2>16. Back(l, before)
    BY <2>14, <2>15
  <2> HIDE DEF Back
  <2> QED
    BY <2>1, <2>3, <2>16 DEF before
<1>11. Backward(n) => Beyond(n)
  <2>1. n - n = 0 /\ count[0] = 0 /\ M - 0 = M
    BY <1>1, <1>3
  <2>2. Backward(n) => Back(n, 0)
    <3> HIDE DEF Back
    <3> QED
      BY <2>1
  <2>3. Back(n, 0) => Beyond(n)
    BY <1>1, <2>1
  <2> HIDE DEF Back, Backward, Beyond
  <2> QED
    BY <2>2, <2>3
<1>12. ASSUME NEW i \in Nat, i + 1 <= L, Beyond(i)
       PROVE  Beyond(i + 1)
  <2>1. PICK l \in 1 .. L : l = i + 1 /\ i = l - 1
    <3>1. i + 1 \in 1 .. L /\ i = i + 1 - 1
      BY <1>1, <1>12
    <3> QED
      BY <3>1
  <2>2. /\ Len(up[i]) \in Nat /\ Len(F[l]) \in Nat
        /\ Len(up[l]) = Len(up[i]) + Len(F[l])
        /\ \A k \in 1 .. Len(up[i]) : up[l][k] = up[i][k]
    BY <1>8, <2>1
  <2>3. Len(up[i]) >= M /\ \A k \in 1 .. M : up[i][k] = made[M + 1 - k]
    BY <1>12
  <2>4. Len(up[l]) >= M /\ \A k \in 1 .. M : k \in 1 .. Len(up[i])
    <3>1. PICK x \in Nat, y \in Nat : x = Len(up[i]) /\ y = Len(F[l])
      BY <2>2
    <3>2. x >= M /\ Len(up[l]) = x + y /\ M \in Nat
      BY <1>1, <2>2, <2>3, <3>1
    <3>3. x + y >= M /\ \A k \in 1 .. M : k \in 1 .. x
      BY <3>2
    <3> QED
      BY <3>1, <3>2, <3>3
  <2>5. Beyond(l)
    BY <2>2, <2>3, <2>4
  <2> HIDE DEF Beyond
  <2> QED
    BY <2>1, <2>5
<1>13. Beyond(L)
  <2> HIDE DEF Backward, Beyond
  <2>1. 0 \in S /\ \A i \in Nat : i \in S => i + 1 \in S
    <3>1. 0 \in S
      BY <1>1, <1>9
    <3>2. ASSUME NEW i \in Nat, i \in S
          PROVE  i + 1 \in S
      <4> SUFFICES ASSUME i + 1 <= L
                   PROVE  IF i + 1 <= n THEN Backward(i + 1) ELSE Beyond(i + 1)
        OBVIOUS
      <4>1. CASE i + 1 <= n
        BY <1>1, <1>10, <3>2, <4>1
      <4>2. CASE i = n
        BY <1>1, <1>11, <1>12, <3>2, <4>2
      <4>3. CASE i > n
        BY <1>1, <1>12, <3>2, <4>3
      <4> QED
        BY <1>1, <4>1, <4>2, <4>3
    <3> QED
      BY <3>1, <3>2
  <2>2. Nat \subseteq S
    <3> HIDE DEF S
    <3> QED
      BY <2>1, NatSetInduction
  <2>3. L \in S
    BY <1>1, <2>2
  <2>4. L # n
    BY <1>1
  <2> QED
    BY <1>1, <2>3, <2>4
<1>14. Len(up[L]) \in Nat
  <2>1. up[L] \in Seq(Call)
    BY <1>1, <1>7
  <2> QED
    BY <2>1, LenProperties
<1> QED
  BY <1>6, <1>7, <1>13, <1>14 DEF M

OneCallEachIn(h, t) == \A i \in DOMAIN h : h[i].turn = t => Len(h[i].calls) <= 1

\* The last n calls of disp are the same.
SameCalls(disp, n) ==
  \A i \in Len(disp) - n + 1 .. Len(disp) : disp[i].call = disp[Len(disp)].call

\* After Window equal calls, made by one message each, the guard strikes.
LEMMA LoopIsSeen ==
  ASSUME NEW h \in Seq(Message), NEW u \in DOMAIN h, NEW t, NEW disp \in Seq(Dispatched),
         NEW made, made = MadeOf(disp, <<>>), Record(h, u, t, made, disp),
         OneCallEachIn(h, t), Len(disp) >= Window, SameCalls(disp, Window)
  PROVE  is_stuck_loop(h)
<1> DEFINE D == Len(disp)
<1>1. /\ made \in Seq(Call) /\ Len(made) = D /\ D \in Nat
      /\ \A k \in 1 .. D : made[k] = disp[k].call
  BY MadeOfDispatched
<1>2. OneCallEach(h, u)
  <2>1. DOMAIN h = 1 .. Len(h) /\ Len(h) \in Nat
    BY LenProperties
  <2>2. \A i \in u + 1 .. Len(h) : h[i].turn = t /\ i \in DOMAIN h
    BY <2>1 DEF Record, OnRecord
  <2> QED
    BY <2>2 DEF OneCallEach, OneCallEachIn
<1>3. /\ Len(Recent(h)) \in Nat /\ Len(Recent(h)) >= D
      /\ \A k \in 1 .. D : Recent(h)[k] = made[D + 1 - k]
  BY <1>1, <1>2, RecentIs
<1> HIDE DEF D
<1>4. Window \in Nat /\ Window >= 1 /\ Window <= D
  BY TurnAssumption, <1>1 DEF D
<1>5. ASSUME NEW i \in 1 .. Window
      PROVE  Recent(h)[i] = disp[D].call
  <2>1. PICK k \in Nat : k = D + 1 - i
    BY <1>1, <1>4
  <2>2. k \in 1 .. D /\ k \in D - Window + 1 .. D /\ i \in 1 .. D
    BY <1>1, <1>4, <2>1
  <2>3. disp[k].call = disp[D].call
    BY <2>2 DEF D, SameCalls
  <2> QED
    BY <1>1, <1>3, <2>1, <2>2, <2>3
<1>6. 1 \in 1 .. Window
  BY <1>4
<1> QED
  BY <1>1, <1>3, <1>4, <1>5, <1>6 DEF is_stuck_loop

LEMMA LoopBrokenInit ==
  ASSUME Init
  PROVE  LoopBroken
BY DEF Init, LoopBroken

\* Where nothing is dispatched the calls of the history only grow.
LEMMA LoopBrokenQuiet ==
  ASSUME TypeOK, LoopBroken, pc = "asking", turn' = turn, dispatched' = dispatched,
         NEW m \in Message, history' = Append(history, m) \/ history' = history
  PROVE  LoopBroken'
<1>1. history \in Seq(Message)
  BY DEF TypeOK
<1>2. \A i \in DOMAIN history : i \in DOMAIN history' /\ history'[i] = history[i]
  <2>1. CASE history' = history
    BY <2>1
  <2>2. CASE history' = Append(history, m)
    <3>1. /\ Len(history) \in Nat /\ DOMAIN history = 1 .. Len(history)
          /\ DOMAIN Append(history, m) = 1 .. Len(history) + 1
          /\ \A i \in 1 .. Len(history) : Append(history, m)[i] = history[i]
      BY <1>1, Appended
    <3> QED
      BY <2>2, <3>1
  <2> QED
    BY <2>1, <2>2
<1> QED
  BY <1>2 DEF LoopBroken

LEMMA LoopBrokenNext ==
  ASSUME TypeOK, Shape, TurnRecord, LoopBroken, [Next]_vars, TypeOK', TurnRecord'
  PROVE  LoopBroken'
<1>1. history \in Seq(Message) /\ turn \in 0 .. MaxTurns
  BY DEF TypeOK
<1>2. CASE BeginTurn
  <2>1. dispatched' = <<>>
    BY <1>2 DEF BeginTurn, TurnRecord
  <2>2. ~(Len(dispatched') >= Window)
    BY <2>1, TurnAssumption
  <2> QED
    BY <2>2 DEF LoopBroken
<1>3. ASSUME NEW calls, AnswerCalls(calls)
      PROVE  LoopBroken'
  BY <1>3 DEF AnswerCalls, LoopBroken
<1>4. CASE DispatchTool
  <2>1. PICK outcome \in Outcome \ {"none"} :
          /\ dispatched' = Append(dispatched, [call |-> Head(pending), outcome |-> outcome])
          /\ Continue(Append(history, ResultMessage(outcome)))
    BY <1>4, DispatchToolStep
  <2> SUFFICES ASSUME pc' = "asking"
               PROVE  LoopBroken'
    BY DEF LoopBroken
  <2>2. ~is_stuck_loop(history') /\ pending' = <<>>
    BY <1>4, <2>1 DEF Continue, DispatchTool
  <2>3. PICK h \in Seq(Message), disp \in Seq(Dispatched), t \in Nat :
          h = history' /\ disp = dispatched' /\ t = turn'
    BY TurnAssumption DEF TypeOK, Dispatched
  <2>4. PICK u \in DOMAIN h : Record(history', u, turn', Made', dispatched')
    BY <2>3 DEF TurnRecord
  <2>5. PICK made : made = Made'
    OBVIOUS
  <2>6. made = MadeOf(disp, <<>>) /\ Record(h, u, t, made, disp)
    <3>1. Made' = MadeOf(dispatched', pending')
      BY DEF Made
    <3> QED
      BY <2>2, <2>3, <2>4, <2>5, <3>1
  <2>7. ~is_stuck_loop(h)
    BY <2>2, <2>3
  <2> SUFFICES ASSUME OneCallEachIn(h, t), Len(disp) >= Window, SameCalls(disp, Window)
               PROVE  FALSE
    BY <2>3 DEF LoopBroken, OneCallEachIn, SameCalls
  <2> QED
    BY <2>6, <2>7, LoopIsSeen
<1>5. CASE AnswerImitation
  <2>1. Note("hint", turn) \in Message
    BY <1>1, NoteType DEF Kind, SystemKind
  <2> QED
    BY <1>5, <2>1, LoopBrokenQuiet DEF AnswerImitation, Asking
<1>6. ASSUME NEW finish, AnswerText(finish)
      PROVE  LoopBroken'
  <2>1. Note("reply", turn) \in Message
    BY <1>1, NoteType DEF Kind
  <2> QED
    BY <1>6, <2>1, LoopBrokenQuiet DEF AnswerText, Asking
<1>7. CASE RoundTripLimit \/ Raise \/ Respond
  BY <1>7 DEF RoundTripLimit, Raise, Respond, LoopBroken
<1>8. CASE CartAction
  BY <1>8 DEF CartAction, LoopBroken
<1>9. CASE UNCHANGED vars
  BY <1>9 DEF vars, locals, LoopBroken
<1> QED
  BY <1>2, <1>3, <1>4, <1>5, <1>6, <1>7, <1>8, <1>9 DEF Next, TurnStep

-----------------------------------------------------------------------------
(* The invariant *)

LEMMA IInvInit ==
  ASSUME Init
  PROVE  IInv
<1>1. ResultsPlaced(history) /\ CallsAnswered(history, raised, 0)
  BY DEF Init, ResultsPlaced, CallsAnswered
<1>2. OneContext /\ Protocol /\ UserAnswered /\ Reported /\ ConversationKnowsCart
  BY <1>1 DEF Init, OneContext, Protocol, UserAnswered, Reported, ConversationKnowsCart
<1> QED
  BY <1>2, TypeInit, ShapeInit, TurnRecordInit, LoopBrokenInit DEF IInv

LEMMA IInvNext ==
  ASSUME IInv, [Next]_vars
  PROVE  IInv'
<1> USE DEF IInv
<1>1. TypeOK'
  BY TypeNext
<1>2. Shape'
  BY ShapeNext
<1>3. OneContext'
  BY OneContextNext
<1>4. Protocol'
  BY <1>1, ProtocolNext
<1>5. UserAnswered'
  BY UserAnsweredNext
<1>6. Reported'
  BY ReportedNext
<1>7. ConversationKnowsCart'
  BY ConversationKnowsCartNext
<1>8. TurnRecord'
  BY <1>1, TurnRecordNext
<1>9. LoopBroken'
  BY <1>1, <1>8, LoopBrokenNext
<1> QED
  BY <1>1, <1>2, <1>3, <1>4, <1>5, <1>6, <1>7, <1>8, <1>9

LEMMA Invariance == Spec => []IInv
<1> QED
  BY IInvInit, IInvNext, PTL DEF Spec

\* Conversation, cart and the variables of the turn keep their types in every
\* state process_message and POST /cart_action can reach, and the cart's events
\* stay within _HISTORY_LIMIT.
THEOREM TurnTypeCorrect == Spec => []TypeOK
<1>1. IInv => TypeOK
  BY DEF IInv
<1> QED
  BY <1>1, Invariance, PTL

\* _prepare_history leaves nothing stale: whenever run_turn asks the model, the
\* conversation starts with the prompt and holds this turn's menu context and
\* no other, however many turns came before and however they ended.
THEOREM ContextIsFresh == Spec => []FreshContext
<1>1. IInv => FreshContext
  BY FreshContextHolds DEF IInv
<1> QED
  BY <1>1, Invariance, PTL

\* Whenever run_turn asks the model, each message with tool calls of a turn that
\* did not raise is followed by its results, and no result stands elsewhere, for
\* messages of any number of calls and after _prepare_history took messages out.
THEOREM ProtocolIsKept == Spec => []ProtocolKept
<1>1. IInv => ProtocolKept
  BY ProtocolKeptHolds DEF IInv
<1> QED
  BY <1>1, Invariance, PTL

\* A turn that did not raise leaves its reply as its last message, also the turns
\* that the stuck-loop guard or the limit of round trips ended.
THEOREM EveryUserAnswered == Spec => []UserAnswered
<1>1. IInv => UserAnswered
  BY DEF IInv
<1> QED
  BY <1>1, Invariance, PTL

\* _extract_turn_tool_calls shows what was dispatched in this turn, call by call
\* and each with its own result, though ids repeat from turn to turn.
THEOREM TraceIsFaithful == Spec => []TraceFaithful
<1>1. IInv => TraceFaithful
  BY TraceFaithfulHolds DEF IInv
<1> QED
  BY <1>1, Invariance, PTL

\* The events process_message reports were recorded in its own turn: the slice
\* never reaches back to an earlier one, also when undos shortened the list or
\* _HISTORY_LIMIT cut it.
THEOREM NoEventRepeated == Spec => []ReportedAreNew
<1>1. IInv => ReportedAreNew
  BY ReportedAreNewHolds DEF IInv
<1> QED
  BY <1>1, Invariance, PTL

\* A change of the cart that can still be undone has its result in the
\* conversation, for every interleaving of turns, failures and buttons.
THEOREM CartIsKnown == Spec => []ConversationKnowsCart
<1>1. IInv => ConversationKnowsCart
  BY DEF IInv
<1> QED
  BY <1>1, Invariance, PTL

\* The stuck-loop guard, which reads signatures back over the whole conversation,
\* stops a turn of single calls at the latest after Window equal ones.
THEOREM LoopIsBroken == Spec => []LoopBroken
<1>1. IInv => LoopBroken
  BY DEF IInv
<1> QED
  BY <1>1, Invariance, PTL
=============================================================================
