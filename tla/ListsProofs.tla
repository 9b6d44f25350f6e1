----------------------------- MODULE ListsProofs -----------------------------
(***************************************************************************)
(* Lemmas the proofs of several components need: what a recursive function *)
(* over the places of a sequence computes.                                 *)
(*                                                                         *)
(* An induction is stated over a set of numbers rather than over a         *)
(* predicate: NatSetInduction follows from the well-foundedness of the     *)
(* strict subsets among the finite sets of numbers.  Recursion builds a    *)
(* function that satisfies a recursive equation; with it the CHOOSE behind *)
(* a recursive definition is known to satisfy its own.                     *)
(***************************************************************************)
EXTENDS Lists, SequencesExt, FiniteSetTheorems, SequenceTheorems, TLAPS

-----------------------------------------------------------------------------
(* Induction and recursion *)

\* A set of numbers with 0 and with the next of each of its members has them all.
LEMMA NatSetInduction ==
  ASSUME NEW S, 0 \in S, \A n \in Nat : n \in S => n + 1 \in S
  PROVE  Nat \subseteq S
<1> DEFINE Out == {n \in Nat : n \notin S}
           T == {0 .. n : n \in Out}
<1> SUFFICES ASSUME NEW o \in Out
             PROVE  FALSE
  OBVIOUS
<1>1. T \subseteq FiniteSubsetsOf(Nat) /\ T # {}
  <2>1. ASSUME NEW n \in Nat
        PROVE  0 .. n \in SUBSET Nat /\ IsFiniteSet(0 .. n)
    BY FS_Interval
  <2> QED
    BY <2>1 DEF FiniteSubsetsOf
<1>2. IsWellFoundedOn(StrictSubsetOrdering(Nat), FiniteSubsetsOf(Nat))
  BY FS_StrictSubsetOrderingWellFounded
<1>3. PICK x \in T : \A y \in T : <<y, x>> \notin StrictSubsetOrdering(Nat)
  <2> HIDE DEF T
  <2> QED BY <1>1, <1>2, WFMin, Zenon
<1>4. PICK n \in Out : x = 0 .. n
  OBVIOUS
<1>5. n # 0 /\ n - 1 \in Nat /\ n - 1 \notin S
  OBVIOUS
<1>6. 0 .. (n - 1) \in T
  BY <1>5
<1>7. <<0 .. (n - 1), 0 .. n>> \in StrictSubsetOrdering(Nat)
  <2>1. 0 .. (n - 1) \in SUBSET Nat /\ 0 .. n \in SUBSET Nat
    BY <1>5
  <2>2. 0 .. (n - 1) \subseteq 0 .. n /\ n \in 0 .. n /\ n \notin 0 .. (n - 1)
    BY <1>5
  <2> QED BY <2>1, <2>2 DEF StrictSubsetOrdering
<1> QED
  BY <1>3, <1>4, <1>6, <1>7

\* A function from its first value and the step to each next one.
LEMMA Recursion ==
  ASSUME NEW V, NEW base \in V, NEW N \in Nat, NEW next \in [1 .. N -> [V -> V]]
  PROVE  \E f \in [0 .. N -> V] :
            f[0] = base /\ \A n \in 1 .. N : f[n] = next[n][f[n - 1]]
<1> DEFINE Up(n, f) == f[0] = base /\ \A k \in 1 .. n : f[k] = next[k][f[k - 1]]
           S == {n \in Nat : n <= N => \E f \in [0 .. n -> V] : Up(n, f)}
<1>1. 0 \in S
  <2>1. [k \in 0 .. 0 |-> base] \in [0 .. 0 -> V] /\ Up(0, [k \in 0 .. 0 |-> base])
    OBVIOUS
  <2> QED
    BY <2>1
<1>2. ASSUME NEW n \in Nat, n \in S
      PROVE  n + 1 \in S
  <2> SUFFICES ASSUME n + 1 <= N
               PROVE  \E f \in [0 .. n + 1 -> V] : Up(n + 1, f)
    OBVIOUS
  <2>1. PICK f \in [0 .. n -> V] : Up(n, f)
    BY <1>2
  <2> DEFINE g == [k \in 0 .. n + 1 |-> IF k <= n THEN f[k] ELSE next[n + 1][f[n]]]
  <2>2. next[n + 1][f[n]] \in V
    <3>1. n + 1 \in 1 .. N /\ n \in 0 .. n
      OBVIOUS
    <3> QED
      BY <3>1
  <2>3. g \in [0 .. n + 1 -> V]
    BY <2>2
  <2>4. \A k \in 0 .. n : g[k] = f[k]
    OBVIOUS
  <2>5. g[n + 1] = next[n + 1][f[n]]
    OBVIOUS
  <2>6. Up(n + 1, g)
    <3>1. g[0] = base
      BY <2>1, <2>4
    <3>2. ASSUME NEW k \in 1 .. n
          PROVE  g[k] = next[k][g[k - 1]]
      <4>1. k \in 0 .. n /\ k - 1 \in 0 .. n
        OBVIOUS
      <4> QED
        BY <2>1, <2>4, <4>1
    <3>3. g[n + 1] = next[n + 1][g[n + 1 - 1]]
      BY <2>4, <2>5
    <3> HIDE DEF g
    <3>4. ASSUME NEW k \in 1 .. n + 1
          PROVE  g[k] = next[k][g[k - 1]]
      <4>1. CASE k \in 1 .. n
        BY <3>2, <4>1
      <4>2. CASE k = n + 1
        BY <3>3, <4>2
      <4> QED
        BY <4>1, <4>2
    <3> QED
      BY <3>1, <3>4
  <2> QED
    BY <2>3, <2>6
<1>3. Nat \subseteq S
  <2> HIDE DEF S
  <2> QED
    BY <1>1, <1>2, NatSetInduction
<1> QED
  BY <1>3

LEMMA HasGreatest ==
  ASSUME NEW n \in Nat, NEW A \in SUBSET (1 .. n), A # {}
  PROVE  \E x \in A : \A y \in A : y <= x
<1> DEFINE S == {m \in Nat : \A B \in SUBSET (1 .. m) : B # {} => \E x \in B : \A y \in B : y <= x}
<1>1. 0 \in S
  <2>1. 1 .. 0 = {}
    OBVIOUS
  <2> QED
    BY <2>1
<1>2. ASSUME NEW m \in Nat, m \in S
      PROVE  m + 1 \in S
  <2> SUFFICES ASSUME NEW B \in SUBSET (1 .. m + 1), B # {}
               PROVE  \E x \in B : \A y \in B : y <= x
    OBVIOUS
  <2>1. CASE m + 1 \in B
    BY <2>1
  <2>2. CASE m + 1 \notin B
    <3>1. B \in SUBSET (1 .. m)
      BY <2>2
    <3> QED
      BY <1>2, <3>1
  <2> QED
    BY <2>1, <2>2
<1>3. Nat \subseteq S
  <2> HIDE DEF S
  <2> QED
    BY <1>1, <1>2, NatSetInduction
<1> QED
  BY <1>3

-----------------------------------------------------------------------------
(* Joining sequences *)

LEMMA FunctionIsSeq ==
  ASSUME NEW T, NEW n \in Nat, NEW f \in [1 .. n -> T]
  PROVE  f \in Seq(T) /\ Len(f) = n
BY SeqDef, LenProperties

LEMMA EmptyJoined ==
  ASSUME NEW T, NEW s \in Seq(T)
  PROVE  <<>> \o s = s
BY ConcatEmptySeq

LEMMA JoinProperties ==
  ASSUME NEW T, NEW a \in Seq(T), NEW b \in Seq(T)
  PROVE  /\ a \o b \in Seq(T) /\ Len(a) \in Nat /\ Len(b) \in Nat
         /\ Len(a \o b) = Len(a) + Len(b)
         /\ \A i \in 1 .. Len(a) : (a \o b)[i] = a[i]
         /\ \A i \in 1 .. Len(b) : (a \o b)[Len(a) + i] = b[i]
<1>1. /\ a \o b \in Seq(T) /\ Len(a) \in Nat /\ Len(b) \in Nat
      /\ Len(a \o b) = Len(a) + Len(b)
      /\ \A i \in 1 .. Len(a) + Len(b) : (a \o b)[i] = IF i <= Len(a) THEN a[i] ELSE b[i - Len(a)]
  BY ConcatProperties, LenProperties
<1>2. \A i \in 1 .. Len(a) : (a \o b)[i] = a[i]
  BY <1>1
<1>3. ASSUME NEW i \in 1 .. Len(b)
      PROVE  (a \o b)[Len(a) + i] = b[i]
  <2>1. PICK y \in Nat : y = Len(a) + i
    BY <1>1
  <2>2. y \in 1 .. Len(a) + Len(b) /\ ~(y <= Len(a)) /\ y - Len(a) = i
    BY <1>1, <2>1
  <2> QED
    BY <1>1, <2>1, <2>2
<1> QED
  BY <1>1, <1>2, <1>3

LEMMA FlattenUpto ==
  ASSUME NEW T, NEW F \in Seq(Seq(T))
  PROVE  \E up \in [0 .. Len(F) -> Seq(T)] :
            /\ up[0] = <<>>
            /\ \A i \in 1 .. Len(F) : up[i] = up[i - 1] \o F[i]
            /\ FlattenSeq(F) = up[Len(F)]
<1> DEFINE N == Len(F)
           V == Seq(T)
           next == [n \in 1 .. N |-> [v \in V |-> v \o F[n]]]
           Body(g) == [i \in 1 .. Len(F) |-> IF i = 1 THEN F[i] ELSE g[i - 1] \o F[i]]
           flatten == CHOOSE g : g = Body(g)
<1>1. N \in Nat /\ <<>> \in V /\ \A n \in 1 .. N : F[n] \in V
  BY LenProperties, ElementOfSeq
<1>2. FlattenSeq(F) = IF N = 0 THEN F ELSE flatten[N]
  BY DEF FlattenSeq
<1>3. next \in [1 .. N -> [V -> V]]
  <2>1. ASSUME NEW n \in 1 .. N, NEW v \in V
        PROVE  v \o F[n] \in V
    BY <1>1, ConcatProperties
  <2> QED
    BY <2>1
<1>4. PICK f \in [0 .. N -> V] :
        f[0] = <<>> /\ \A n \in 1 .. N : f[n] = next[n][f[n - 1]]
  <2> HIDE DEF N, V, next, flatten
  <2>0. N \in Nat
    BY <1>1
  <2>1. ASSUME NEW b \in V, NEW t \in [1 .. N -> [V -> V]]
        PROVE  \E f \in [0 .. N -> V] :
                 f[0] = b /\ \A n \in 1 .. N : f[n] = t[n][f[n - 1]]
    BY <2>0, Recursion
  <2> QED
    BY <1>1, <1>3, <2>1
<1>5. \A n \in 1 .. N : f[n] = f[n - 1] \o F[n]
  <2> SUFFICES ASSUME NEW n \in 1 .. N
               PROVE  f[n] = f[n - 1] \o F[n]
    OBVIOUS
  <2>1. n - 1 \in 0 .. N /\ f[n - 1] \in V
    <3>1. n - 1 \in 0 .. N
      <4> HIDE DEF N
      <4> QED
        BY <1>1
    <3> HIDE DEF N, V
    <3> QED
      BY <3>1
  <2>2. next[n][f[n - 1]] = f[n - 1] \o F[n]
    BY <2>1
  <2> HIDE DEF next
  <2> QED
    BY <1>4, <2>2
<1>6. N # 0 => flatten[N] = f[N]
  <2> SUFFICES ASSUME N # 0
               PROVE  flatten[N] = f[N]
    OBVIOUS
  <2> HIDE DEF V, next
  <2> DEFINE f1 == [i \in 1 .. N |-> f[i]]
  <2>1. f1 = Body(f1)
    <3>1. \A i \in 1 .. N : f1[i] = Body(f1)[i]
      <4> SUFFICES ASSUME NEW i \in 1 .. N
                   PROVE  f1[i] = Body(f1)[i]
        OBVIOUS
      <4>1. CASE i = 1
        <5>1. f[1] = f[0] \o F[1]
          BY <1>5, <4>1
        <5>2. f[1] = F[1]
          BY <1>1, <1>4, <4>1, <5>1, EmptyJoined DEF V
        <5> QED
          BY <4>1, <5>2
      <4>2. CASE i # 1
        <5>1. i - 1 \in 1 .. N
          BY <1>1, <4>2
        <5> QED
          BY <1>5, <4>2, <5>1
      <4> QED
        BY <4>1, <4>2
    <3> QED
      BY <3>1
  <2>2. flatten = Body(flatten)
    <3> HIDE DEF Body, f1
    <3> QED
      BY <2>1, Zenon
  <2>3. \A i \in 1 .. N : flatten[i] = IF i = 1 THEN F[i] ELSE flatten[i - 1] \o F[i]
    <3> HIDE DEF flatten
    <3> QED
      BY <2>2
  <2> HIDE DEF flatten, N
  <2> DEFINE S == {i \in Nat : i + 1 <= N => flatten[i + 1] = f[i + 1]}
  <2>4. 0 \in S
    <3>1. 1 \in 1 .. N
      BY <1>1
    <3>2. f[1] = F[1]
      <4>1. f[1] = f[1 - 1] \o F[1] /\ f[0] = <<>> /\ F[1] \in Seq(T)
        BY <1>1, <1>4, <1>5, <3>1 DEF V
      <4>2. 1 - 1 = 0
        OBVIOUS
      <4> QED
        BY <4>1, <4>2, EmptyJoined
    <3> QED
      BY <2>3, <3>1, <3>2
  <2>5. ASSUME NEW i \in Nat, i \in S
        PROVE  i + 1 \in S
    <3> SUFFICES ASSUME i + 1 + 1 <= N
                 PROVE  flatten[i + 1 + 1] = f[i + 1 + 1]
      OBVIOUS
    <3>1. PICK j \in Nat : j = i + 2
      OBVIOUS
    <3>2. j \in 1 .. N /\ j # 1 /\ j - 1 = i + 1 /\ flatten[j - 1] = f[j - 1] /\ i + 1 + 1 = j
      BY <1>1, <2>5, <3>1
    <3>3. flatten[j] = flatten[j - 1] \o F[j] /\ f[j] = f[j - 1] \o F[j]
      BY <1>5, <2>3, <3>2
    <3> QED
      BY <3>2, <3>3
  <2>6. Nat \subseteq S
    <3> HIDE DEF S
    <3> QED
      BY <2>4, <2>5, NatSetInduction
  <2>7. PICK k \in Nat : N = k + 1
    <3>1. N - 1 \in Nat /\ N = N - 1 + 1
      BY <1>1
    <3> QED
      BY <3>1
  <2>8. k \in S
    BY <2>6
  <2> QED
    BY <2>7, <2>8
<1>7. FlattenSeq(F) = f[N]
  <2>1. CASE N = 0
    <3>1. F = <<>>
      BY <2>1, EmptySeq
    <3> QED
      BY <1>2, <1>4, <2>1, <3>1
  <2>2. CASE N # 0
    BY <1>2, <1>6, <2>2
  <2> QED
    BY <2>1, <2>2
<1> HIDE DEF next, flatten
<1> QED
  BY <1>4, <1>5, <1>7

-----------------------------------------------------------------------------
(* Elements picked from a sequence *)

\* ElementsAt goes through the list as its definition says.
LEMMA UptoEquation ==
  ASSUME NEW T, NEW s \in Seq(T), NEW places
  PROVE  \E upto \in [0 .. Len(s) -> Seq(T)] :
            /\ ElementsAt(s, places) = upto[Len(s)]
            /\ upto[0] = <<>>
            /\ \A n \in 1 .. Len(s) :
                 upto[n] = IF n \in places THEN Append(upto[n - 1], s[n]) ELSE upto[n - 1]
<1> DEFINE N == Len(s)
           Step(n, v) == IF n \in places THEN Append(v, s[n]) ELSE v
           next == [n \in 1 .. N |-> [v \in Seq(T) |-> Step(n, v)]]
           Body(g) == [n \in 0 .. Len(s) |->
                 IF n = 0 THEN <<>>
                 ELSE IF n \in places THEN Append(g[n - 1], s[n]) ELSE g[n - 1]]
           upto == CHOOSE g : g = Body(g)
<1>1. ElementsAt(s, places) = upto[N]
  BY DEF ElementsAt
<1>2. N \in Nat /\ <<>> \in Seq(T)
  OBVIOUS
<1>3. next \in [1 .. N -> [Seq(T) -> Seq(T)]]
  <2>1. ASSUME NEW n \in 1 .. N, NEW v \in Seq(T)
        PROVE  Step(n, v) \in Seq(T)
    BY ElementOfSeq, AppendProperties
  <2> QED
    BY <2>1
<1>4. PICK f \in [0 .. N -> Seq(T)] :
        f[0] = <<>> /\ \A n \in 1 .. N : f[n] = next[n][f[n - 1]]
  <2> HIDE DEF N, next
  <2> DEFINE V == Seq(T)
  <2>1. \A b \in V : \A t \in [1 .. N -> [V -> V]] : \E f \in [0 .. N -> V] :
          f[0] = b /\ \A n \in 1 .. N : f[n] = t[n][f[n - 1]]
    <3> HIDE DEF V
    <3> QED
      BY <1>2, Recursion
  <2> QED
    BY <1>2, <1>3, <2>1
<1>5. \A n \in 1 .. N : f[n] = Step(n, f[n - 1])
  <2> SUFFICES ASSUME NEW n \in 1 .. N
               PROVE  f[n] = Step(n, f[n - 1])
    OBVIOUS
  <2>1. n - 1 \in 0 .. N /\ f[n - 1] \in Seq(T)
    BY <1>2
  <2>2. next[n][f[n - 1]] = Step(n, f[n - 1])
    BY <2>1
  <2> HIDE DEF next, Step
  <2> QED
    BY <1>4, <2>2
<1>6. f = Body(f)
  <2>1. \A n \in 0 .. N : f[n] = Body(f)[n]
    <3> SUFFICES ASSUME NEW n \in 0 .. N
                 PROVE  f[n] = Body(f)[n]
      OBVIOUS
    <3>1. CASE n = 0
      BY <1>4, <3>1
    <3>2. CASE n # 0
      <4>1. n \in 1 .. N
        BY <3>2
      <4> QED
        BY <1>5, <3>2, <4>1
    <3> QED
      BY <3>1, <3>2
  <2> QED
    BY <2>1
<1>7. upto = Body(upto)
  <2> HIDE DEF Body
  <2> QED
    BY <1>6, Zenon
<1>8. upto[0] = <<>> /\ \A n \in 1 .. N : upto[n] = Step(n, upto[n - 1])
  <2> HIDE DEF upto
  <2>1. ASSUME NEW n \in 0 .. N
        PROVE  upto[n] = IF n = 0 THEN <<>> ELSE Step(n, upto[n - 1])
    BY <1>7
  <2> QED
    BY <1>2, <2>1
<1>9. upto \in [0 .. N -> Seq(T)]
  <2> HIDE DEF upto, Step
  <2> DEFINE S == {n \in Nat : n <= N => upto[n] = f[n]}
  <2>1. 0 \in S
    BY <1>4, <1>8
  <2>2. ASSUME NEW n \in Nat, n \in S
        PROVE  n + 1 \in S
    <3> SUFFICES ASSUME n + 1 <= N
                 PROVE  upto[n + 1] = f[n + 1]
      OBVIOUS
    <3>1. n + 1 \in 1 .. N /\ n + 1 - 1 = n /\ upto[n] = f[n]
      BY <1>2, <2>2
    <3>2. upto[n + 1] = Step(n + 1, upto[n]) /\ f[n + 1] = Step(n + 1, f[n])
      BY <1>5, <1>8, <3>1
    <3> QED
      BY <3>1, <3>2
  <2>3. Nat \subseteq S
    <3> HIDE DEF S
    <3> QED
      BY <2>1, <2>2, NatSetInduction
  <2>4. \A n \in 0 .. N : upto[n] \in Seq(T)
    BY <2>3
  <2>5. upto = [n \in 0 .. N |-> upto[n]]
    BY <1>7
  <2> QED
    BY <2>4, <2>5
<1> HIDE DEF upto
<1> QED
  BY <1>1, <1>8, <1>9

\* e lists the numbers in K, each once and in order.
Enumerates(e, K) ==
  /\ \A i, j \in 1 .. Len(e) : i < j => e[i] < e[j]
  /\ \A k \in K : \E i \in 1 .. Len(e) : e[i] = k

\* r is the elements of s at the places K, which e lists.
Picked(s, K, r, e) ==
  /\ Enumerates(e, K)
  /\ Len(r) = Len(e)
  /\ \A i \in 1 .. Len(e) : r[i] = s[e[i]]

LEMMA PickedNext ==
  ASSUME NEW T, NEW s \in Seq(T), NEW n \in 0 .. Len(s) - 1, NEW K \in SUBSET (1 .. n),
         NEW r \in Seq(T), NEW e \in Seq(K), Picked(s, K, r, e)
  PROVE  Picked(s, K \cup {n + 1}, Append(r, s[n + 1]), Append(e, n + 1))
<1> DEFINE L == Len(e)
           r1 == Append(r, s[n + 1])
           e1 == Append(e, n + 1)
<1>1. s[n + 1] \in T /\ n + 1 \in K \cup {n + 1} /\ e \in Seq(K \cup {n + 1})
  BY ElementOfSeq
<1>2. /\ L \in Nat /\ Len(r) = L
      /\ Len(r1) = L + 1 /\ Len(e1) = L + 1
      /\ \A i \in 1 .. L : r1[i] = r[i] /\ e1[i] = e[i]
      /\ r1[L + 1] = s[n + 1] /\ e1[L + 1] = n + 1
      /\ \A i \in 1 .. L : e[i] \in K
  BY <1>1, AppendProperties, LenProperties DEF Picked, Enumerates
<1> HIDE DEF r1, e1, L
<1>3. \A i \in 1 .. L + 1 : i \in 1 .. L \/ i = L + 1
  BY <1>2
<1>4. \A i \in 1 .. L : r[i] = s[e[i]] /\ e[i] < n + 1
  <2>1. \A k \in K : k < n + 1
    OBVIOUS
  <2>2. \A i \in 1 .. L : r[i] = s[e[i]]
    BY DEF Picked, Enumerates, L
  <2> QED
    BY <1>2, <2>1, <2>2
<1>5. \A i \in 1 .. L + 1 : r1[i] = s[e1[i]]
  BY <1>2, <1>3, <1>4
<1>6. \A i, j \in 1 .. L + 1 : i < j => e1[i] < e1[j]
  <2> SUFFICES ASSUME NEW i \in 1 .. L + 1, NEW j \in 1 .. L + 1, i < j
               PROVE  e1[i] < e1[j]
    OBVIOUS
  <2>1. i \in 1 .. L
    BY <1>2
  <2>2. CASE j = L + 1
    BY <1>2, <1>4, <2>1, <2>2
  <2>3. CASE j \in 1 .. L
    BY <1>2, <2>1, <2>3 DEF Picked, Enumerates, L
  <2> QED
    BY <1>3, <2>2, <2>3
<1>7. \A k \in K \cup {n + 1} : \E i \in 1 .. L + 1 : e1[i] = k
  <2>1. ASSUME NEW k \in K
        PROVE  \E i \in 1 .. L + 1 : e1[i] = k
    <3>1. PICK i \in 1 .. L : e[i] = k
      BY DEF Picked, Enumerates, L
    <3>2. e1[i] = k
      BY <1>2, <3>1
    <3>3. i \in 1 .. L + 1
      BY <1>2
    <3> QED
      BY <3>2, <3>3
  <2>2. L + 1 \in 1 .. L + 1
    BY <1>2
  <2> QED
    BY <1>2, <2>1, <2>2
<1> QED
  BY <1>2, <1>5, <1>6, <1>7 DEF Picked, Enumerates, r1, e1

LEMMA ElementsAtPicks ==
  ASSUME NEW T, NEW s \in Seq(T), NEW K \in SUBSET (1 .. Len(s))
  PROVE  /\ ElementsAt(s, K) \in Seq(T)
         /\ \E e \in Seq(K) : Picked(s, K, ElementsAt(s, K), e)
<1> DEFINE N == Len(s)
           In(n) == K \cap 1 .. n
<1>1. PICK upto \in [0 .. N -> Seq(T)] :
        /\ ElementsAt(s, K) = upto[N]
        /\ upto[0] = <<>>
        /\ \A n \in 1 .. N :
             upto[n] = IF n \in K THEN Append(upto[n - 1], s[n]) ELSE upto[n - 1]
  BY UptoEquation
<1> DEFINE Shown(n) == \E e \in Seq(In(n)) : Picked(s, In(n), upto[n], e)
           S == {n \in Nat : n <= N => Shown(n)}
<1>2. N \in Nat
  OBVIOUS
<1>3. Shown(0)
  <2>1. In(0) = {} /\ <<>> \in Seq(In(0))
    OBVIOUS
  <2>2. Picked(s, {}, <<>>, <<>>)
    BY DEF Picked, Enumerates
  <2> QED
    BY <1>1, <2>1, <2>2
<1>4. ASSUME NEW n \in Nat, n + 1 <= N, Shown(n)
      PROVE  Shown(n + 1)
  <2>1. PICK e \in Seq(In(n)) : Picked(s, In(n), upto[n], e)
    BY <1>4
  <2>2. /\ n + 1 \in 1 .. N /\ n \in 0 .. N - 1 /\ n + 1 - 1 = n
        /\ upto[n] \in Seq(T) /\ In(n) \in SUBSET (1 .. n)
    <3>1. n + 1 \in 1 .. N /\ n \in 0 .. N - 1 /\ n \in 0 .. N /\ n + 1 - 1 = n
      <4> HIDE DEF N
      <4> QED
        BY <1>2, <1>4
    <3>2. upto[n] \in Seq(T)
      <4> HIDE DEF N
      <4> QED
        BY <3>1
    <3> QED
      BY <3>1, <3>2
  <2>3. upto[n + 1] = IF n + 1 \in K THEN Append(upto[n], s[n + 1]) ELSE upto[n]
    BY <1>1, <2>2
  <2>4. CASE n + 1 \in K
    <3>1. In(n + 1) = In(n) \cup {n + 1}
      BY <2>4
    <3>2. Picked(s, In(n) \cup {n + 1}, Append(upto[n], s[n + 1]), Append(e, n + 1))
      <4> HIDE DEF In
      <4> QED
        BY <2>1, <2>2, PickedNext
    <3>3. Append(e, n + 1) \in Seq(In(n + 1))
      <4>1. e \in Seq(In(n + 1)) /\ n + 1 \in In(n + 1)
        BY <3>1, SeqMonotonic
      <4> HIDE DEF In
      <4> QED
        BY <4>1
    <3> QED
      BY <2>3, <2>4, <3>1, <3>2, <3>3
  <2>5. CASE n + 1 \notin K
    <3>1. In(n + 1) = In(n)
      BY <2>5
    <3> QED
      BY <2>1, <2>3, <2>5, <3>1
  <2> QED
    BY <2>4, <2>5
<1>5. Shown(N)
  <2> HIDE DEF Shown
  <2>1. 0 \in S /\ \A n \in Nat : n \in S => n + 1 \in S
    BY <1>2, <1>3, <1>4
  <2>2. Nat \subseteq S
    <3> HIDE DEF S
    <3> QED
      BY <2>1, NatSetInduction
  <2> QED
    BY <1>2, <2>2
<1>6. In(N) = K /\ upto[N] \in Seq(T)
  <2>1. In(N) = K
    BY <1>2
  <2> HIDE DEF N
  <2>2. N \in 0 .. N
    BY <1>2
  <2> QED
    BY <2>1, <2>2
<1> QED
  BY <1>1, <1>5, <1>6

-----------------------------------------------------------------------------
(* Sums *)

\* Recursion again, with its parts named: so it applies where the values are
\* numbers too.
Steps(V, N) == [1 .. N -> [V -> V]]

Chained(f, base, next, N) ==
    f[0] = base /\ \A n \in 1 .. N : f[n] = next[n][f[n - 1]]

LEMMA ChainExists ==
  ASSUME NEW V, NEW base \in V, NEW N \in Nat, NEW next \in Steps(V, N)
  PROVE  \E f \in [0 .. N -> V] : Chained(f, base, next, N)
BY Recursion DEF Steps, Chained

LEMMA NumberRecursion ==
  ASSUME NEW N \in Nat, NEW next \in [1 .. N -> [Int -> Int]]
  PROVE  \E f \in [0 .. N -> Int] :
            f[0] = 0 /\ \A n \in 1 .. N : f[n] = next[n][f[n - 1]]
<1>1. next \in Steps(Int, N) /\ 0 \in Int
  BY DEF Steps
<1>2. \E f \in [0 .. N -> Int] : Chained(f, 0, next, N)
  BY <1>1, ChainExists
<1> QED
  BY <1>2 DEF Chained

\* Total goes through the list as its definition says.
LEMMA TotalUpto ==
  ASSUME NEW s \in Seq(Int)
  PROVE  \E upto \in [0 .. Len(s) -> Int] :
            /\ Total(s) = upto[Len(s)]
            /\ upto[0] = 0
            /\ \A n \in 1 .. Len(s) : upto[n] = upto[n - 1] + s[n]
<1> DEFINE N == Len(s)
           next == [n \in 1 .. N |-> [v \in Int |-> v + s[n]]]
           Body(g) == [n \in 0 .. Len(s) |-> IF n = 0 THEN 0 ELSE g[n - 1] + s[n]]
           upto == CHOOSE g : g = Body(g)
<1>1. Total(s) = upto[N]
  BY DEF Total
<1>2. N \in Nat /\ 0 \in Int /\ \A n \in 1 .. N : s[n] \in Int
  BY LenProperties, ElementOfSeq
<1>3. next \in [1 .. N -> [Int -> Int]]
  BY <1>2
<1>4. PICK f \in [0 .. N -> Int] :
        f[0] = 0 /\ \A n \in 1 .. N : f[n] = next[n][f[n - 1]]
  <2> HIDE DEF N, next, upto, Body
  <2> QED
    BY <1>2, <1>3, NumberRecursion
<1>5. \A n \in 1 .. N : n - 1 \in 0 .. N /\ f[n - 1] \in Int /\ f[n] = f[n - 1] + s[n]
  <2> SUFFICES ASSUME NEW n \in 1 .. N
               PROVE  n - 1 \in 0 .. N /\ f[n - 1] \in Int /\ f[n] = f[n - 1] + s[n]
    OBVIOUS
  <2>1. n - 1 \in 0 .. N
    <3> HIDE DEF N
    <3> QED
      BY <1>2
  <2>2. f[n - 1] \in Int
    <3> HIDE DEF N
    <3> QED
      BY <2>1
  <2>3. next[n][f[n - 1]] = f[n - 1] + s[n]
    BY <2>2
  <2> HIDE DEF next
  <2> QED
    BY <1>4, <2>1, <2>2, <2>3
<1> HIDE DEF next
<1>6. f = Body(f)
  <2>1. \A n \in 0 .. N : f[n] = Body(f)[n]
    <3> SUFFICES ASSUME NEW n \in 0 .. N
                 PROVE  f[n] = Body(f)[n]
      OBVIOUS
    <3>1. CASE n = 0
      BY <1>4, <3>1
    <3>2. CASE n # 0
      <4>1. n \in 1 .. N
        BY <3>2
      <4> QED
        BY <1>5, <3>2, <4>1
    <3> QED
      BY <3>1, <3>2
  <2> QED
    BY <2>1
<1>7. upto = Body(upto)
  <2> HIDE DEF Body
  <2> QED
    BY <1>6, Zenon
<1>8. upto[0] = 0 /\ \A n \in 1 .. N : upto[n] = upto[n - 1] + s[n]
  <2> HIDE DEF upto
  <2>1. ASSUME NEW n \in 0 .. N
        PROVE  upto[n] = IF n = 0 THEN 0 ELSE upto[n - 1] + s[n]
    BY <1>7
  <2> QED
    BY <1>2, <2>1
<1>9. upto \in [0 .. N -> Int]
  <2> HIDE DEF upto
  <2> DEFINE S == {n \in Nat : n <= N => upto[n] = f[n]}
  <2>1. 0 \in S
    BY <1>4, <1>8
  <2>2. ASSUME NEW n \in Nat, n \in S
        PROVE  n + 1 \in S
    <3> SUFFICES ASSUME n + 1 <= N
                 PROVE  upto[n + 1] = f[n + 1]
      OBVIOUS
    <3> HIDE DEF N
    <3>1. n + 1 \in 1 .. N /\ n + 1 - 1 = n /\ upto[n] = f[n]
      BY <1>2, <2>2
    <3>2. upto[n + 1] = upto[n] + s[n + 1] /\ f[n + 1] = f[n] + s[n + 1]
      BY <1>5, <1>8, <3>1
    <3> QED
      BY <3>1, <3>2
  <2>3. Nat \subseteq S
    <3> HIDE DEF S
    <3> QED
      BY <2>1, <2>2, NatSetInduction
  <2>4. \A n \in 0 .. N : upto[n] \in Int
    BY <2>3
  <2>5. upto = [n \in 0 .. N |-> upto[n]]
    BY <1>7
  <2> QED
    BY <2>4, <2>5
<1> HIDE DEF upto
<1> QED
  BY <1>1, <1>8, <1>9

\* Whatever adds the list up the same way ends at the sum.
LEMMA TotalIs ==
  ASSUME NEW s \in Seq(Int), NEW g, g[0] = 0,
         \A n \in 1 .. Len(s) : g[n] = g[n - 1] + s[n]
  PROVE  Total(s) \in Int /\ Total(s) = g[Len(s)]
<1> DEFINE N == Len(s)
<1>1. N \in Nat
  BY LenProperties
<1>2. PICK upto \in [0 .. N -> Int] :
        /\ Total(s) = upto[N]
        /\ upto[0] = 0
        /\ \A n \in 1 .. N : upto[n] = upto[n - 1] + s[n]
  BY TotalUpto
<1> DEFINE S == {n \in Nat : n <= N => g[n] = upto[n]}
<1>3. 0 \in S
  BY <1>2
<1>4. ASSUME NEW n \in Nat, n \in S
      PROVE  n + 1 \in S
  <2> SUFFICES ASSUME n + 1 <= N
               PROVE  g[n + 1] = upto[n + 1]
    OBVIOUS
  <2>1. n + 1 \in 1 .. Len(s) /\ n + 1 - 1 = n /\ g[n] = upto[n]
    BY <1>1, <1>4
  <2>2. g[n + 1] = g[n] + s[n + 1] /\ upto[n + 1] = upto[n] + s[n + 1]
    BY <1>2, <2>1
  <2> QED
    BY <2>1, <2>2
<1>5. Nat \subseteq S
  <2> HIDE DEF S
  <2> QED
    BY <1>3, <1>4, NatSetInduction
<1>6. N \in S /\ N \in 0 .. N
  BY <1>1, <1>5
<1> HIDE DEF N
<1>7. upto[N] \in Int
  BY <1>6
<1> QED
  BY <1>1, <1>2, <1>6, <1>7 DEF N

LEMMA TotalEmpty == Total(<<>>) = 0
<1> DEFINE g == [n \in {0} |-> 0]
<1>1. <<>> \in Seq(Int) /\ Len(<<>>) = 0 /\ 1 .. 0 = {} /\ g[0] = 0
  OBVIOUS
<1> HIDE DEF g
<1> QED
  BY <1>1, TotalIs

LEMMA TotalAppend ==
  ASSUME NEW s \in Seq(Int), NEW x \in Int
  PROVE  Total(s) \in Int /\ Total(Append(s, x)) = Total(s) + x
<1> DEFINE N == Len(s)
           t == Append(s, x)
<1>1. /\ N \in Nat /\ t \in Seq(Int) /\ Len(t) = N + 1
      /\ \A n \in 1 .. N : t[n] = s[n]
      /\ t[N + 1] = x
  BY LenProperties, AppendProperties
<1>2. PICK upto \in [0 .. N -> Int] :
        /\ Total(s) = upto[N]
        /\ upto[0] = 0
        /\ \A n \in 1 .. N : upto[n] = upto[n - 1] + s[n]
  BY TotalUpto
<1> HIDE DEF N, t
<1> DEFINE g == [n \in 0 .. N + 1 |-> IF n <= N THEN upto[n] ELSE upto[N] + x]
<1>3. /\ \A n \in 0 .. N : g[n] = upto[n]
      /\ g[N + 1] = upto[N] + x
  BY <1>1
<1> HIDE DEF g
<1>4. g[0] = 0
  BY <1>1, <1>2, <1>3
<1>5. ASSUME NEW n \in 1 .. Len(t)
      PROVE  g[n] = g[n - 1] + t[n]
  <2>1. CASE n = N + 1
    <3>1. n - 1 = N /\ N \in 0 .. N
      BY <1>1, <2>1
    <3> QED
      BY <1>1, <1>3, <2>1, <3>1
  <2>2. CASE n # N + 1
    <3>1. n \in 1 .. N /\ n \in 0 .. N /\ n - 1 \in 0 .. N
      BY <1>1, <2>2
    <3> QED
      BY <1>1, <1>2, <1>3, <3>1
  <2> QED
    BY <2>1, <2>2
<1>6. Total(t) = g[Len(t)]
  BY <1>1, <1>4, <1>5, TotalIs
<1>7. upto[N] \in Int
  BY <1>1
<1> QED
  BY <1>1, <1>2, <1>3, <1>6, <1>7 DEF t

LEMMA TotalExcept ==
  ASSUME NEW s \in Seq(Int), NEW i \in 1 .. Len(s), NEW x \in Int
  PROVE  /\ Total(s) \in Int /\ s[i] \in Int
         /\ Total([s EXCEPT ![i] = x]) = Total(s) - s[i] + x
<1> DEFINE N == Len(s)
           t == [s EXCEPT ![i] = x]
           d == x - s[i]
<1>1. N \in Nat /\ \A n \in 1 .. N : s[n] \in Int
  BY LenProperties, ElementOfSeq
<1>2. /\ t \in Seq(Int) /\ Len(t) = N
      /\ \A n \in 1 .. N : t[n] = IF n = i THEN x ELSE s[n]
  BY ExceptSeq
<1>3. PICK upto \in [0 .. N -> Int] :
        /\ Total(s) = upto[N]
        /\ upto[0] = 0
        /\ \A n \in 1 .. N : upto[n] = upto[n - 1] + s[n]
  BY TotalUpto
<1> HIDE DEF N, t
<1>4. i \in 1 .. N /\ s[i] \in Int /\ d \in Int /\ \A n \in 0 .. N : upto[n] \in Int
  BY <1>1 DEF N
<1> DEFINE g == [n \in 0 .. N |-> IF n < i THEN upto[n] ELSE upto[n] + d]
<1>5. \A n \in 0 .. N : g[n] = IF n < i THEN upto[n] ELSE upto[n] + d
  OBVIOUS
<1> HIDE DEF g, d
<1>6. g[0] = 0
  BY <1>1, <1>3, <1>4, <1>5
<1>7. ASSUME NEW n \in 1 .. N
      PROVE  g[n] = g[n - 1] + t[n]
  <2>1. n \in 0 .. N /\ n - 1 \in 0 .. N
    BY <1>1
  <2>2. upto[n] = upto[n - 1] + s[n] /\ upto[n - 1] \in Int /\ s[n] \in Int
    BY <1>1, <1>3, <1>4, <2>1
  <2>3. CASE n < i
    <3>1. n - 1 < i /\ n # i
      BY <2>3
    <3> QED
      BY <1>2, <1>5, <2>1, <2>2, <2>3, <3>1
  <2>4. CASE n = i
    <3>1. n - 1 < i /\ ~(n < i)
      BY <2>4
    <3>2. g[n] = upto[n - 1] + s[n] + d /\ g[n - 1] = upto[n - 1] /\ t[n] = x /\ s[n] + d = x
      BY <1>2, <1>4, <1>5, <2>1, <2>2, <2>4, <3>1 DEF d
    <3>3. d \in Int
      BY <1>4
    <3>4. upto[n - 1] + s[n] + d = upto[n - 1] + x
      BY <2>2, <3>2, <3>3
    <3> QED
      BY <3>2, <3>4
  <2>5. CASE n > i
    <3>1. ~(n - 1 < i) /\ ~(n < i) /\ n # i
      BY <2>5
    <3>2. g[n] = upto[n] + d /\ g[n - 1] = upto[n - 1] + d /\ t[n] = s[n]
      BY <1>2, <1>5, <2>1, <3>1
    <3>3. d \in Int /\ upto[n] \in Int
      BY <1>4, <2>1
    <3> QED
      BY <2>2, <3>2, <3>3
  <2>6. n < i \/ n = i \/ n > i
    BY <1>1, <1>4
  <2> QED
    BY <2>3, <2>4, <2>5, <2>6
<1>8. Total(t) = g[N]
  BY <1>2, <1>6, <1>7, TotalIs
<1>9. g[N] = upto[N] + d /\ upto[N] \in Int
  <2>1. N \in 0 .. N /\ ~(N < i)
    BY <1>1, <1>4
  <2> QED
    BY <1>4, <1>5, <2>1
<1> QED
  BY <1>3, <1>4, <1>8, <1>9 DEF t, d

LEMMA TotalRemoveAt ==
  ASSUME NEW s \in Seq(Int), NEW i \in 1 .. Len(s), NEW t \in Seq(Int),
         Len(t) = Len(s) - 1,
         \A n \in 1 .. Len(s) - 1 : t[n] = IF n < i THEN s[n] ELSE s[n + 1]
  PROVE  /\ Total(s) \in Int /\ s[i] \in Int
         /\ Total(t) = Total(s) - s[i]
<1> DEFINE N == Len(s)
<1>1. N \in Nat /\ \A n \in 1 .. N : s[n] \in Int
  BY LenProperties, ElementOfSeq
<1>2. PICK upto \in [0 .. N -> Int] :
        /\ Total(s) = upto[N]
        /\ upto[0] = 0
        /\ \A n \in 1 .. N : upto[n] = upto[n - 1] + s[n]
  BY TotalUpto
<1> HIDE DEF N
<1>3. i \in 1 .. N /\ s[i] \in Int /\ \A n \in 0 .. N : upto[n] \in Int
  BY <1>1 DEF N
<1> DEFINE g == [n \in 0 .. N - 1 |-> IF n < i THEN upto[n] ELSE upto[n + 1] - s[i]]
<1>4. \A n \in 0 .. N - 1 : g[n] = IF n < i THEN upto[n] ELSE upto[n + 1] - s[i]
  OBVIOUS
<1> HIDE DEF g
<1>5. g[0] = 0
  BY <1>1, <1>2, <1>3, <1>4
<1>6. ASSUME NEW n \in 1 .. N - 1
      PROVE  g[n] = g[n - 1] + t[n]
  <2>1. n \in 0 .. N - 1 /\ n - 1 \in 0 .. N - 1 /\ n + 1 \in 1 .. N /\ n \in 1 .. N /\ n - 1 + 1 = n
    BY <1>1
  <2>2. n + 1 - 1 = n /\ n + 1 \in 0 .. N /\ n \in 0 .. N /\ n - 1 \in 0 .. N
    BY <1>1
  <2>3. /\ upto[n] = upto[n - 1] + s[n] /\ upto[n - 1] \in Int /\ s[n] \in Int
        /\ upto[n + 1] = upto[n] + s[n + 1] /\ upto[n] \in Int /\ s[n + 1] \in Int
    <3>1. upto[n] = upto[n - 1] + s[n]
      BY <1>2, <2>1
    <3>2. PICK k \in 1 .. N : k = n + 1 /\ k - 1 = n
      BY <2>1, <2>2
    <3>3. upto[k] = upto[k - 1] + s[k]
      BY <1>2
    <3>4. upto[n] \in Int /\ upto[n - 1] \in Int /\ s[n] \in Int /\ s[k] \in Int
      BY <1>1, <1>3, <2>1, <2>2
    <3> QED
      BY <3>1, <3>2, <3>3, <3>4
  <2>4. t[n] = IF n < i THEN s[n] ELSE s[n + 1]
    BY DEF N
  <2>5. CASE n < i
    <3>1. n - 1 < i
      BY <2>5
    <3> QED
      BY <1>4, <2>1, <2>3, <2>4, <2>5, <3>1
  <2>6. CASE n = i
    <3>1. n - 1 < i /\ ~(n < i)
      BY <2>6
    <3>2. g[n] = upto[n + 1] - s[n] /\ g[n - 1] = upto[n - 1] /\ t[n] = s[n + 1]
      BY <1>4, <2>1, <2>4, <2>6, <3>1
    <3> QED
      BY <2>3, <3>2
  <2>7. CASE n > i
    <3>1. ~(n - 1 < i) /\ ~(n < i)
      BY <2>7
    <3>2. g[n] = upto[n + 1] - s[i] /\ g[n - 1] = upto[n - 1 + 1] - s[i] /\ t[n] = s[n + 1]
      BY <1>4, <2>1, <2>4, <3>1
    <3> QED
      BY <1>3, <2>1, <2>3, <3>2
  <2> QED
    BY <2>5, <2>6, <2>7
<1>7. Total(t) = g[N - 1]
  BY <1>5, <1>6, TotalIs DEF N
<1>8. g[N - 1] = upto[N] - s[i]
  <2>1. N - 1 \in 0 .. N - 1 /\ N \in 1 .. N /\ N \in 0 .. N /\ N - 1 \in 0 .. N /\ N - 1 + 1 = N
    BY <1>1, <1>3
  <2>2. upto[N] = upto[N - 1] + s[N] /\ upto[N - 1] \in Int /\ s[N] \in Int /\ upto[N] \in Int
    BY <1>1, <1>2, <1>3, <2>1
  <2>3. CASE N - 1 < i
    <3>1. N = i
      BY <1>1, <1>3, <2>3
    <3> QED
      BY <1>4, <2>1, <2>2, <2>3, <3>1
  <2>4. CASE ~(N - 1 < i)
    BY <1>4, <2>1, <2>4
  <2> QED
    BY <2>3, <2>4
<1>9. upto[N] \in Int
  BY <1>1, <1>3
<1> QED
  BY <1>2, <1>3, <1>7, <1>8, <1>9
=============================================================================
